------------------------------- MODULE Timers -------------------------------
(***************************************************************************)
(* The timeouts of the tcpip thread (src/src/lwip/core/timers.c), driven   *)
(* by the wait for its mailbox.                                            *)
(*                                                                         *)
(* The list next_timeout is a delta list: an entry's time counts from the  *)
(* moment the entry before it fires.  Time is only accounted for while the *)
(* thread waits: sys_arch_mbox_fetch reports how many milliseconds it      *)
(* waited, rounded down, and that is taken off the head.  The time spent   *)
(* in handlers and messages is not, and a wait that is resumed after a     *)
(* stale wake-up forgets the milliseconds before it.  So timers may be     *)
(* late; they must not be early, lost, doubled or moved by other timers.   *)
(*                                                                         *)
(* The clock is not a counter: due and waited hold the true time left and  *)
(* the true time waited, and Tick advances both, so that behaviours are    *)
(* endless and the state space finite.                                     *)
(***************************************************************************)
EXTENDS Integers, Sequences, SequencesExt

CONSTANTS
  InitOrder,    \* the self-re-arming handlers, as sys_timeouts_init arms them
  Tcp,          \* tcpip_tcp_timer, armed on demand
  App,          \* one-shot handlers armed through TCPIP_MSG_TIMEOUT
  Interval,     \* Interval[h]: milliseconds between two calls of h
  AppMsecs,     \* milliseconds an application may ask for
  PoolSize,     \* MEMP_NUM_SYS_TIMEOUT
  U32,          \* the number of values of u32_t
  MaxBacklog    \* bound: messages waiting in the mailbox

Cyclic == {InitOrder[i] : i \in DOMAIN InitOrder}
Handlers == Cyclic \cup {Tcp} \cup App

\* msecs is a u32_t, and opt.h counts one element of the pool for each of the
\* stack's timers.
ASSUME TimersAssumption ==
  /\ InitOrder \in Seq(Cyclic) /\ \A i, k \in DOMAIN InitOrder : InitOrder[i] = InitOrder[k] => i = k
  /\ Tcp \notin Cyclic \cup App /\ Cyclic \cap App = {} /\ "none" \notin Handlers
  /\ U32 \in Nat \ {0}
  /\ Interval \in [Cyclic \cup {Tcp} -> 1 .. U32 - 1] /\ AppMsecs \subseteq 0 .. U32 - 1
  /\ PoolSize \in Nat /\ Len(InitOrder) < PoolSize /\ MaxBacklog \in Nat

VARIABLES
  list,         \* next_timeout: sequence of [h |-> handler, t |-> time]
  due,          \* due[h]: true milliseconds until h may be called, 0 if none
  waited,       \* true milliseconds since the current semaphore wait began
  pc,           \* where the tcpip thread is
  running,      \* the handler being called, or "none"
  tcp_active,   \* tcpip_tcp_timer_active
  pcbs,         \* tcp_active_pcbs || tcp_tw_pcbs
  backlog,      \* messages in the mailbox
  aborted       \* the handler for which sys_timeout's assertion failed, or "none"

vars == <<list, due, waited, pc, running, tcp_active, pcbs, backlog, aborted>>

(***************************************************************************)
(*   again     at the label again of sys_timeouts_mbox_fetch               *)
(*   wait      blocked in sys_arch_mbox_fetch                              *)
(*   handler   calling a timeout handler                                   *)
(*   message   tcpip_thread is processing a message                        *)
(***************************************************************************)

\* When the i-th entry fires, counted from now: the times up to it add up.
Sums(l) ==
  LET sum[i \in 0 .. Len(l)] == IF i = 0 THEN 0 ELSE sum[i - 1] + l[i].t IN sum
Expiry(l, i) == Sums(l)[i]

Minus(a, b) == (a - b) % U32

\* Insert x before position i of l and shorten its successor.
Insert(l, i, x) ==
  IF i > Len(l) THEN Append(l, x) ELSE InsertAt([l EXCEPT ![i].t = Minus(@, x.t)], i, x)

\* Where the loop of sys_timeout stops: it walks past every entry that fires no
\* later than in msecs.
Place(l, msecs) ==
  CHOOSE n \in 1 .. Len(l) + 1 :
    /\ \A k \in 1 .. n - 1 : Expiry(l, k) <= msecs
    /\ n <= Len(l) => Expiry(l, n) > msecs

\* The list after sys_timeout(msecs, h): the times of the entries passed by are
\* taken off the new one.
WithTimeout(l, msecs, h) ==
  LET i == Place(l, msecs) IN Insert(l, i, [h |-> h, t |-> Minus(msecs, Expiry(l, i - 1))])

\* The first entry of l for h, or 0.
Find(l, h) ==
  IF \E i \in DOMAIN l : l[i].h = h
  THEN CHOOSE i \in DOMAIN l : l[i].h = h /\ \A k \in 1 .. i - 1 : l[k].h # h
  ELSE 0

WithoutTimeout_DropsTime(l, h) == IF Find(l, h) = 0 THEN l ELSE RemoveAt(l, Find(l, h))

\* The list after sys_untimeout(h): its time goes back to the next entry.
WithoutTimeout(l, h) ==
  LET i == Find(l, h) IN
  IF i = 0 THEN l
  ELSE IF i = Len(l) THEN RemoveAt(l, i)
  ELSE RemoveAt([l EXCEPT ![i + 1].t = (@ + l[i].t) % U32], i)

\* sys_timeout: take an element of MEMP_SYS_TIMEOUT or fail the assertion.
sys_timeout(msecs, h) ==
  IF Len(list) >= PoolSize
  THEN aborted' = h /\ UNCHANGED <<list, due>>
  ELSE /\ list' = WithTimeout(list, msecs, h)
       /\ due' = [due EXCEPT ![h] = msecs]
       /\ UNCHANGED aborted

-----------------------------------------------------------------------------
(* Time and the other threads *)

Clip(n) == IF n > 0 THEN n - 1 ELSE 0

\* A millisecond passes.
Tick ==
  /\ due' = [h \in Handlers |-> Clip(due[h])]
  /\ waited' = IF pc = "wait" /\ list # << >> /\ waited < Head(list).t THEN waited + 1 ELSE waited
  /\ UNCHANGED <<list, pc, running, tcp_active, pcbs, backlog, aborted>>

\* Some thread posts to the mailbox.
Post ==
  /\ backlog < MaxBacklog
  /\ backlog' = backlog + 1
  /\ UNCHANGED <<list, due, waited, pc, running, tcp_active, pcbs, aborted>>

-----------------------------------------------------------------------------
(* sys_timeouts_mbox_fetch *)

\* next_timeout->time > 0, or no timeout at all, and the mailbox is empty.
BeginWait ==
  /\ pc = "again"
  /\ list = << >> \/ Head(list).t > 0
  /\ backlog = 0
  /\ pc' = "wait"
  /\ waited' = 0
  /\ UNCHANGED <<list, due, running, tcp_active, pcbs, backlog, aborted>>

\* A spurious or stale wake-up: the wait starts over, its time is forgotten.
WaitAgain ==
  /\ pc = "wait"
  /\ waited' = 0
  /\ UNCHANGED <<list, due, pc, running, tcp_active, pcbs, backlog, aborted>>

TakeOff_Overcharged(time_needed) ==
  list' = [list EXCEPT ![1].t = IF time_needed + 1 < @ THEN @ - (time_needed + 1) ELSE 0]

\* The head pays for the time the wait is said to have taken.
TakeOff(time_needed) ==
  list' = [list EXCEPT ![1].t = IF time_needed < @ THEN @ - time_needed ELSE 0]

\* A message is fetched after a wait of `waited' true milliseconds, which are
\* measured rounded down, or at once.
GetMessage ==
  /\ backlog > 0
  /\ \/ /\ pc = "again"
        /\ list = << >> \/ Head(list).t > 0
        /\ UNCHANGED list
     \/ /\ pc = "wait"
        /\ \E time_needed \in {waited, Clip(waited)} :
             IF list = << >> THEN UNCHANGED list ELSE TakeOff(time_needed)
  /\ backlog' = backlog - 1
  /\ pc' = "message"
  /\ waited' = 0
  /\ UNCHANGED <<due, running, tcp_active, pcbs, aborted>>

Fire_OnlyAfterWait ==
  /\ list # << >>
  /\ pc = "wait" /\ waited >= Head(list).t
  /\ running' = Head(list).h
  /\ list' = Tail(list)
  /\ pc' = "handler"
  /\ waited' = 0
  /\ UNCHANGED <<due, tcp_active, pcbs, backlog, aborted>>

\* SYS_ARCH_TIMEOUT, or a head that is due already: unlink it, call it.
Fire ==
  /\ list # << >>
  /\ \/ pc = "again" /\ Head(list).t = 0
     \/ pc = "wait" /\ waited >= Head(list).t
  /\ running' = Head(list).h
  /\ list' = Tail(list)
  /\ pc' = "handler"
  /\ waited' = 0
  /\ UNCHANGED <<due, tcp_active, pcbs, backlog, aborted>>

-----------------------------------------------------------------------------
(* The handlers *)

\* arp_timer, ip_reass_timer, autoip_timer, dns_timer: work, then re-arm.
CyclicTimer ==
  /\ pc = "handler"
  /\ running \in Cyclic
  /\ sys_timeout(Interval[running], running)
  /\ pc' = "again" /\ running' = "none"
  /\ UNCHANGED <<waited, tcp_active, pcbs, backlog>>

\* tcp_tmr may remove the last PCB; the timer stops itself without PCBs.
tcpip_tcp_timer ==
  /\ pc = "handler"
  /\ running = Tcp
  /\ pcbs' \in {pcbs, FALSE}
  /\ IF pcbs'
     THEN sys_timeout(Interval[Tcp], Tcp) /\ UNCHANGED tcp_active
     ELSE tcp_active' = FALSE /\ UNCHANGED <<list, due, aborted>>
  /\ pc' = "again" /\ running' = "none"
  /\ UNCHANGED <<waited, backlog>>

\* An application's one-shot handler.
AppTimer ==
  /\ pc = "handler"
  /\ running \in App
  /\ pc' = "again" /\ running' = "none"
  /\ UNCHANGED <<list, due, waited, tcp_active, pcbs, backlog, aborted>>

-----------------------------------------------------------------------------
(* Messages *)

MessageDone == pc = "message" /\ pc' = "again" /\ UNCHANGED <<waited, running, backlog>>

\* A message that touches neither PCBs nor timeouts.
PlainMessage ==
  /\ MessageDone
  /\ UNCHANGED <<list, due, tcp_active, pcbs, aborted>>

tcp_timer_needed ==
  IF ~tcp_active /\ pcbs'
  THEN tcp_active' = TRUE /\ sys_timeout(Interval[Tcp], Tcp)
  ELSE UNCHANGED <<tcp_active, list, due, aborted>>

\* TCP_REG of a PCB, by a connect or by a SYN.
RegisterPcb ==
  /\ MessageDone
  /\ pcbs' = TRUE
  /\ tcp_timer_needed

\* TCP_RMV of the last PCB, by an abort, a RST or a close.
RemoveLastPcb ==
  /\ MessageDone
  /\ pcbs
  /\ pcbs' = FALSE
  /\ UNCHANGED <<list, due, tcp_active, aborted>>

\* TCPIP_MSG_TIMEOUT, for a handler that has no timeout pending.
AppTimeout(h, msecs) ==
  /\ MessageDone
  /\ Find(list, h) = 0
  /\ sys_timeout(msecs, h)
  /\ UNCHANGED <<tcp_active, pcbs>>

\* TCPIP_MSG_UNTIMEOUT
AppUntimeout(h) ==
  /\ MessageDone
  /\ list' = WithoutTimeout(list, h)
  /\ due' = [due EXCEPT ![h] = 0]
  /\ UNCHANGED <<tcp_active, pcbs, aborted>>

-----------------------------------------------------------------------------

\* sys_timeouts_init arms the cyclic timers one after the other, before the
\* thread starts.
sys_timeouts_init ==
  LET armed[n \in 0 .. Len(InitOrder)] ==
        IF n = 0 THEN << >> ELSE WithTimeout(armed[n - 1], Interval[InitOrder[n]], InitOrder[n])
  IN  armed[Len(InitOrder)]

Init ==
  /\ list = sys_timeouts_init
  /\ due = [h \in Handlers |-> IF h \in Cyclic THEN Interval[h] ELSE 0]
  /\ waited = 0
  /\ pc = "again"
  /\ running = "none"
  /\ tcp_active = FALSE
  /\ pcbs = FALSE
  /\ backlog = 0
  /\ aborted = "none"

HandlerStep == CyclicTimer \/ tcpip_tcp_timer \/ AppTimer

MessageStep ==
  \/ PlainMessage
  \/ RegisterPcb
  \/ RemoveLastPcb
  \/ \E h \in App :
       \/ \E msecs \in AppMsecs : AppTimeout(h, msecs)
       \/ AppUntimeout(h)

ThreadStep == BeginWait \/ GetMessage \/ Fire \/ HandlerStep \/ MessageStep

Next ==
  /\ aborted = "none"
  /\ \/ Tick
     \/ Post
     \/ WaitAgain
     \/ ThreadStep

Spec == Init /\ [][Next]_vars

\* The clock runs and the tcpip thread is scheduled.
Fairness == WF_vars(Tick) /\ WF_vars(ThreadStep)

FairSpec == Spec /\ Fairness

-----------------------------------------------------------------------------
(* Properties *)

TypeOK ==
  /\ \A i \in DOMAIN list : list[i] \in [h : Handlers, t : 0 .. U32 - 1]
  /\ Len(list) <= PoolSize
  /\ due \in [Handlers -> Nat]
  /\ waited \in Nat
  /\ pc \in {"again", "wait", "handler", "message"}
  /\ running \in Handlers \cup {"none"}
  /\ tcp_active \in BOOLEAN /\ pcbs \in BOOLEAN
  /\ aborted \in Handlers \cup {"none"}
  /\ backlog \in 0 .. MaxBacklog

\* No timeout handler is called before its time: whenever sys_timeouts_mbox_fetch
\* starts one, the milliseconds asked of sys_timeout have really passed.
NeverEarly == pc = "handler" => due[running] = 0

\* sys_timeout and sys_untimeout move no other timeout: every entry that stays
\* in the list through them keeps the time at which it will fire.
KeepsExpiries ==
  pc \in {"message", "handler"} =>
    \A i \in DOMAIN list, k \in DOMAIN list' :
      list[i].h = list'[k].h => Expiry(list, i) = Expiry(list', k)

OthersUndisturbed == [][KeepsExpiries]_vars

\* Each handler is in the list at most once, and the cyclic ones are in it at
\* all times except while they run: no period is lost and none is doubled.
ArmedOnce ==
  aborted = "none" =>
  /\ \A i, k \in DOMAIN list : list[i].h = list[k].h => i = k
  /\ \A h \in Cyclic : running # h <=> Find(list, h) # 0

\* tcpip_tcp_timer_active says whether the TCP timer is armed or running, and
\* it is whenever there are PCBs to serve.
TcpTimerCoherent ==
  aborted = "none" =>
  /\ tcp_active <=> Find(list, Tcp) # 0 \/ running = Tcp
  /\ pcbs => tcp_active

\* The pool MEMP_SYS_TIMEOUT, sized for one timeout per stack timer, is found
\* empty for a stack timer only when applications have taken elements of it.
PoolSuffices ==
  aborted \in Cyclic \cup {Tcp} => \E h \in App : Find(list, h) # 0

\* No timeout hangs: every entry of the list fires (or is cancelled) once the
\* mailbox stays empty and the wait for it is no longer interrupted.
Quiet == <>[](backlog = 0) /\ <>[][~WaitAgain]_vars
FiresWhenQuiet ==
  Quiet => \A h \in Handlers : (Find(list, h) # 0 ~> Find(list, h) = 0)

\* sys_timeout's contract: the callback is called "when msecs have elapsed",
\* whatever the traffic of the tcpip thread.
FiresUnderLoad ==
  <>[][~WaitAgain]_vars => \A h \in Cyclic : (Find(list, h) # 0 ~> running = h)

\* The timeouts are sound: of the right shape, armed once, none early, the TCP timer's flag
\* true to it and the pool large enough (sys_timeout, sys_timeouts_mbox_fetch,
\* tcp_timer_needed).
TimeoutsSound == TypeOK /\ NeverEarly /\ ArmedOnce /\ TcpTimerCoherent /\ PoolSuffices

=============================================================================
