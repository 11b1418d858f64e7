------------------------------ MODULE MCRelay -------------------------------
(* Buffers of two bytes, so that writes can be cut in the middle. *)
EXTENDS Relay, TLC

CONSTANTS c1

MCMaxBytes == [a \in Agents |-> IF a = "native" THEN 2 ELSE 1]
=============================================================================
