------------------------------ MODULE SeqNumbers ------------------------------
(***************************************************************************)
(* The 16-bit sequence, acknowledgement and connection numbers of uTP      *)
(* (models/utp/utp_socket.hpp), with their width as a parameter.           *)
(***************************************************************************)
EXTENDS Integers, Sequences, FiniteSets

CONSTANT SeqMod   \* 2^16 in the code

ASSUME SeqModAssumption == SeqMod \in Nat /\ SeqMod > 3

Uint16 == 0 .. SeqMod - 1

\* Mutant of Plus: the sum is not cut to 16 bits.
PlusUncut(a, k) == a + k

\* a + k and a - b on 16-bit numbers; seq_diff is the signed distance.
Plus(a, k) == (a + k) % SeqMod
seq_diff(a, b) ==
  LET d == (a - b) % SeqMod IN IF 2 * d < SeqMod THEN d ELSE d - SeqMod

\* The subsequence of s at the indices in I, in the order of s.
Subsequence(s, I) ==
  LET Before(j) == {i \in I : i < j}
  IN  [k \in 1 .. Cardinality(I) |-> s[CHOOSE j \in I : Cardinality(Before(j)) = k - 1]]
=============================================================================
