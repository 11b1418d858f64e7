------------------------------ MODULE Counting ------------------------------
(* How often a value occurs in a sequence. *)
EXTENDS Integers, Sequences, FiniteSets

Places(s, x) == {i \in 1 .. Len(s) : s[i] = x}
Times(s, x) == Cardinality(Places(s, x))
=============================================================================
