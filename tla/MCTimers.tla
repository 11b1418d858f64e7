------------------------------ MODULE MCTimers ------------------------------
(* Two cyclic stack timers of different periods, the TCP timer, and possibly
   applications' one-shot timeouts. *)
EXTENDS Timers, TLC

CONSTANTS arp, dns, tcp, app1, app2

MCInitOrder == <<arp, dns>>
MCInterval == arp :> 3 @@ dns :> 2 @@ tcp :> 1
=============================================================================
