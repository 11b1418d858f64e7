----------------------------- MODULE MCNetconn ------------------------------
(***************************************************************************)
(* Mailboxes and windows small enough to be full.  An application that     *)
(* shuts only the sending side and one that writes and does not block are  *)
(* checked side by side: a behaviour is of one of them.                    *)
(***************************************************************************)
EXTENDS Netconn, TLC

CONSTANTS c1, c2, p1, l1, t1

MCShuts == {{"RD"}, {"WR"}, RDWR}
Symm == Permutations({c1, c2})

VARIABLE halves

Asks(m) == IF halves THEN m.fn # "write" /\ ~m.nb ELSE m.shut # {"WR"}

MCInit == Init /\ halves \in BOOLEAN
MCNext == Next /\ UNCHANGED halves /\ \A t \in Threads : Asks(th'[t])
MCSpec == MCInit /\ [][MCNext]_<<vars, halves>>
=============================================================================
