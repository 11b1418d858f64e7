------------------------------- MODULE MCSem --------------------------------
(* Three threads: one token, two waiters and a signaller may all contend. *)
EXTENDS Sem, TLC

CONSTANTS t1, t2, t3

MCThreads == {t1, t2, t3}
=============================================================================
