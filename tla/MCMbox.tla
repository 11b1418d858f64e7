------------------------------- MODULE MCMbox -------------------------------
(* Two posters and the fetcher on a ring of two usable slots. *)
EXTENDS Mbox, TLC

CONSTANTS p1, p2, m1

MCPosters == {p1, p2}
=============================================================================
