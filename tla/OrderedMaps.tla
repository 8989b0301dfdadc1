------------------------------ MODULE OrderedMaps ------------------------------
(***************************************************************************)
(* The code keeps what it knows of peers and of pieces in ordered maps;    *)
(* visiting one means visiting its keys from the lowest to the highest.    *)
(***************************************************************************)
EXTENDS Integers, FiniteSets

\* The members of P in ascending order.
Ascending(P) ==
  [i \in 1 .. Cardinality(P) |->
     CHOOSE p \in P : Cardinality({q \in P : q < p}) = i - 1]

\* The map m with v at key k, whether or not there was an entry for k.
Put(m, k, v) == [x \in DOMAIN m \cup {k} |-> IF x = k THEN v ELSE m[x]]
=============================================================================
