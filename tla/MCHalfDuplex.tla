---------------------------- MODULE MCHalfDuplex ----------------------------
(* Frames of one and a half audio buffers, so that two of them end on a
   buffer's edge and one does not. *)
EXTENDS HalfDuplex
=============================================================================
