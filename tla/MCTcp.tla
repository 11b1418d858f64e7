------------------------------- MODULE MCTcp --------------------------------
(* One side writes more than a window. *)
EXTENDS Tcp

MCIss == [a |-> 1, b |-> 63]
MCBytes == [a |-> 6, b |-> 0]
=============================================================================
