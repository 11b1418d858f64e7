------------------------------ MODULE MCDriver ------------------------------
(* Pools and mailbox smaller than the traffic, so that each can run dry while
   the others have room. *)
EXTENDS Driver
=============================================================================
