---------------------------- MODULE MCServerList ----------------------------
(* Small instances of ServerList for TLC.                                    *)
EXTENDS ServerList, TLC

Symmetry == Permutations(Threads) \cup Permutations(Servers)
=============================================================================
