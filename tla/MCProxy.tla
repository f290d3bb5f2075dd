------------------------------ MODULE MCProxy ------------------------------
(* Small instances of Proxy for TLC. *)
EXTENDS Proxy, TLC

\* page refers to image and, by IDX, to index; index to image; neither the REF of image
\* nor the IDX+REF of index may be followed.  The name of garbled begins with index.
CONSTANTS page, index, image, beyond, garbled

SiteRef == page :> <<image>> @@ index :> <<image>> @@ image :> <<beyond>>
           @@ beyond :> <<>> @@ garbled :> <<>>
SiteIdxRef == page :> <<index>> @@ index :> <<beyond>> @@ image :> <<>>
              @@ beyond :> <<>> @@ garbled :> <<>>
SiteLonger == [k \in Resource |-> IF k = index THEN {garbled} ELSE {}]
NoLonger == [k \in Resource |-> {}]

Symmetry == Permutations(Dispatchers) \cup Permutations(Clients)
            \cup Permutations(Addr) \cup Permutations(Cell)
=============================================================================
