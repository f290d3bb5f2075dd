--------------------------- MODULE MCOriginServer ---------------------------
(* A small instance of OriginServer for TLC. *)
EXTENDS OriginServer
=============================================================================
