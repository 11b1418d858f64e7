# quiet-lwip: a TLA+ model of the modem drivers and the stack above them

quiet-lwip carries TCP/IP over sound. The lwIP stack sits on a network
interface whose link layer is the quiet modem. This directory holds TLA+ models
of the parts of that system that are hard to get right by testing: threads that
meet in semaphores and mailboxes, timers that are driven by waiting, a
half-duplex channel shared by two threads, an interface that is torn down while
packets are on their way, API calls that TCP's callbacks finish, a select that
sleeps beside events, protocols over a channel that loses and repeats (TCP, ARP,
AutoIP, DNS, fragments), buffers and a heap that everything shares, and a relay
that two threads run together.

Everything is translated from the code under `src/`; `PROJECT.json` maps each
definition to its lines. The build is the one the repository makes: NO_SYS 0
(threads), ARP, AutoIP, DNS, TCP, UDP and RAW on, DHCP, IGMP and SNMP off, core
locking off, failed assertions abort.

## Inventory

| component | state | operations | meets others through | what makes it correct |
|---|---|---|---|---|
| semaphore (`sys_arch.c`) | count, mutex, condition | new, wait, timed wait, signal | every blocking call of the stack | a token is consumed once and not lost to a timeout |
| mailbox (`sys_arch.c`) | ring, two cursors, three semaphores, `wait_send` | post, trypost, fetch, timed fetch, tryfetch | tcpip thread, netconns | FIFO, no message lost, nobody left asleep |
| timeouts (`core/timers.c`) | delta list, TCP-timer flag, pool | sys_timeout, sys_untimeout, mbox fetch with timeouts, handlers | tcpip thread, TCP, applications | never early, never lost or doubled, others undisturbed |
| tcpip thread (`api/tcpip.c`) | mailbox, message pools | main loop, input, callbacks, API and netif messages | drivers, sockets | one thread runs the core; messages are freed once |
| PortAudio driver (`driver_portaudio.c`) | two progress flags, silence counter, shutdown flags | emit and receive loop, encode, start, stop, destroy | audio device, stack | frames unbroken, a pause ended only after the hold-off, stop returns |
| plain driver (`driver.c`, `util.c`) | read thread, encoder, decoder, netif | read loop, encode, create, close, destroy | modem, stack, application | no leak, no use after free, close returns |
| relay (`examples/src/relay.c`) | two crossbars, per-thread arrays, close counts | relay loop, add, close, destroy | native and lwIP sockets | bytes in order, end of stream last, freed once |
| netconn API (`api_msg.c`, `api_lib.c`) | connection state, mailboxes, pending operation | new, connect, listen, accept, send, recv, close, delete | application threads against the tcpip thread | a call completes once; close drains; no message after delete |
| sockets (`sockets.c`) | socket table, event counters, select list | the BSD calls, select, event_callback | several application threads, tcpip thread | no missed event, no stale socket |
| TCP (`tcp.c`, `tcp_in.c`, `tcp_out.c`) | PCB lists, sequence numbers, queues, timers | input, output, timers, open, close, abort | IP, netconn callbacks | the RFC 793 state machine, ordered delivery |
| ARP, AutoIP (`etharp.c`, `autoip.c`) | cache entries with state and age; probe state | query, update, timer; probe, announce, defend | netif, IP | no lost or stale entry, one owner per address |
| IP, reassembly (`ip.c`, `ip_frag.c`) | reassembly list and pbuf budget | input, output, fragment, timer | netif, TCP, UDP | only whole datagrams, budget kept |
| buffers and pools (`pbuf.c`, `memp.c`, `mem.c`) | reference counts, free lists, heap | alloc, ref, free, header, realloc | everything | freed once, heap in order |
| DNS (`dns.c`, `netdb.c`) | query table, sequence numbers, waiting callers | lookup, answer, retry, server switch, expiry | netconn API, UDP | every caller is called back once, with its own name's address |
| UDP, RAW, ICMP (`udp.c`, `raw.c`, `icmp.c`) | PCB lists, ephemeral ports | bind, connect, send, remove; input | IP, netconns | a datagram finds the right reader |
| netif (`netif.c`) | list, addresses, flags | add, remove, up, down, link, address | drivers, ARP, AutoIP | announced when up, forgotten when down |
| checksums (`inet_chksum.c`) | none | sums over chains | every protocol | the sum of RFC 1071 for any shape of chain |
| lightweight protection (`sys_arch.c`) | owner, nesting count | protect, unprotect | pools, pbufs, sockets | mutual exclusion with nesting |
| key-value example (`kv_server.c`, `kv_client.c`) | sorted table | add, find, the server's loop | sockets | the table is a map |
| discovery example | none of its own | one datagram, one answer | sockets | - |
| DHCP, IGMP, SNMP, PPP, IPv6 | - | - | - | not built |

The hard behaviours are listed one by one, at their lines, under `hazards` in
`PROJECT.json`.

## Plan

Modules, in the order in which they were written. All are done; what a component
leaves out is said with it in `PROJECT.json` and under "Not modelled".

1. `Sem` refines `SemAbs`; proofs in `SemProofs`. Everything that blocks rests on it.
2. `Mbox` refines `MboxAbs`; proofs in `MboxProofs`. It uses semaphores as the
   atomic objects `Sem` shows them to be.
3. `Timers`, `HalfDuplex`, `Driver`, `Relay`: timeouts, the two drivers, the relay.
4. `Netconn`: API messages and the life of a TCP netconn and its pcb, over
   mailboxes and semaphores that behave as `MboxAbs` and `SemAbs`.
5. `Tcp`: sequence numbers, queues, retransmission and timers of two ends.
6. `Sockets`: the socket table, event counters and select, over netconns.
7. `Link` (ARP, AutoIP, netif), `Reass` (ip_frag and ip_reass), `Udp` (IP, UDP,
   RAW, ICMP), `Dns`.
8. `Heap`, `Pbuf`, `Bytes`, `Protect`: what all of them rest on. `Kv`: an example.

Proofs of a module `M` are in `MProofs`: `Sem`, `Mbox`, `Driver`, `Relay`, `Timers` and
`Netconn` have them; those of `Protect`, `Dns`, `Udp`, `Heap`, `HalfDuplex` and `Link`
are in `StackProofs`, and `CountingProofs` serves all that count. What could be proved
next, of what is model-checked so far: `WindowReturned` and `WritableAgain` of
`Netconn` on top of `SInv`.

## Modules

**Sem.** `c` is `sem->c`, `owner` the pthread mutex, `pc` the place of each
thread in `sys_arch_sem_wait` and `sys_sem_signal`. Locking, testing, sleeping,
spurious wake-ups, expiry, relocking and unlocking are separate actions;
`Awakened` is the broadcast. A wait that expires returns without looking at `c`
again, as the code does. `SemAbs` is the binary semaphore: take, give, give up.

**Mbox.** The ring `msgs`, the int cursors `first` and `last` with their width
(`Wrap`), the counts of the three semaphores and `wait_send`. Each semaphore
operation is one action; code between two of them runs under the mutex and
belongs to the action that ends it. One thread fetches, as for every mailbox of
this system. `MboxAbs` is a bounded FIFO queue on which each call takes effect
at one instant between call and return; `queue` and `phase` are the mapping.

**Timers.** `list` is `next_timeout`, a sequence of handler and delta, with u32
subtraction. `Expiry(list, i)` is the sum of the deltas up to an entry, that is when
it fires; `Place` is where the loop of `sys_timeout` stops. `due` and `waited` are true time, not program state: `Tick`
advances them, so behaviours are endless and the state space finite. A wait
reports its length rounded down (`GetMessage` takes either value); a stale or
spurious wake-up restarts it (`WaitAgain`). `sys_timeout` aborts when the pool is
empty; the behaviour ends there, so deadlock is not checked in that run.

**HalfDuplex.** The emit thread (`EmitTest`, `Emit`, `EmitFails`, `Hush`,
`EmitCheck`) and the receive thread (`RecvTop`, `Poll`, `StoreRx`, `FetchFrame`,
`Drained`) with the shared atomic `rx_in_progress`; the read of the flag and the
emission that follows are separate steps, and so are the poll of the decoder and
the store. What is left to emit is counted in half audio buffers. `quiet`,
`contended` and `cleared` are history variables for `HoldOff`: how long the channel
has been silent, whether anything was ever heard, and what the emit thread's last test
found. `HoldOff` promises that a pause is ended by a test after a full hold-off; it
cannot promise that nothing has begun by the first sample, and `NeverOverPeer`, which
says so, is refuted.

**Driver.** The read thread (`recv`, `alloc`, `input`), the tcpip thread (`fetch`,
`input`, `output`) and the application that runs `quiet_lwip_destroy`, step by
step. The pools of pbufs and input messages, the mailbox and the decoder's ring
are bounded and run dry independently. `Counting` says how often a value stands in
a sequence: it counts the frames that wait in the mailbox.

**Relay.** Per agent: its crossbar (`incoming_r`, `incoming_w`), its arrays, the
sets select reported, the entries the pass has not come to, and its place. A pass
goes entry by entry: one that is not ready stays, one that is served goes over to the
other agent's crossbar or ends. Adding to a crossbar
and taking it over are atomic (they hold its mutex); shutdown, the
compare-and-swap of the close count, and the destruction are separate steps.
Bytes are numbered, so that order and loss show. Peers send, finish and reset.

**Netconn.** `conn` and `pcb` are the structures, `th` an application thread with
the `api_msg` on its stack, `mbox` the tcpip mailbox, `owned` what the application
has a pointer to. A handler of the tcpip thread is an operator from the `World`
(conn, pcb, th) to its new value, named as in the code; where memory, a timeout or
a route decides, it yields a set. `Execute` runs the lower half of an API message
(`do_newconn` ... `do_close`); `SegmentArrives`, `FastTimer`, `poll_tcp`, `sent_tcp`,
`FinAcked`, `ConnectionDies`, `TimeWaitEnds`, `do_connected`, `tcp_listen_input` and
`accept_function` are what TCP does meanwhile. `App` is the other side in
`api_lib.c`. A handler is one step, except that `poll_tcp` and `sent_tcp` go on
after they have released the caller: `tail` holds that rest, which
`CheckWritespace` executes. Of TCP there is the pcb's state, its callbacks, the
refused segment, the bytes not yet acknowledged (`snd`) and the part of the receive
window that is closed (`owed`); a segment carries one byte, a FIN or both. Errors
are fatal or not, as `ERR_IS_FATAL` tells them apart. Listening pcbs are a pool of
their own, since `tcp_listen` moves a netconn to a smaller structure. `Free` is the
application's duty to make one call at a time on a netconn. A failed assertion is a
property rather than the end of the behaviour. The callbacks of a pcb are the recv,
sent, poll and err it has itself and the accept callback that `tcp_listen_input` lets
it inherit, which outlives the listener: `accept_function` then reads a free block of
MEMP_NETCONN, whose acceptmbox `netconn_drain` left invalid, or whatever netconn the
block has become. `past` is history of a netconn: its sending side alone was shut
(`half`), the NULL that ends its stream met a full recvmbox and is gone (`eof`), its pcb
was given back to the pool without a word (`lost`). After the last one (`Astray`) the
program works on memory that is not its own, and the behaviour ends.

**Tcp.** `pcb[e]` is the control block of one of two ends, with the stream its
application has written and got. Bytes are their index in the stream, sequence
numbers live in `0 .. SeqSpace-1` and are compared with a sign, so that they wrap in
the run. `Receive` takes any packet off the wire (reordering), `Lose` and `Duplicate`
are faults; a handler is one step, an operator from pcb to pcb named as in the code
(`tcp_input`, `tcp_process`, `tcp_receive` split into `ReceiveAck` and `ReceiveData`,
`tcp_output`, `tcp_write`, ...), that collects what it sends in `out`. Queues hold
segments, `refused` what the netconn's mailbox did not take. Timers that run may
expire at any time, early ones at the cost of a fault; with them are modelled the
persist and keepalive timers, delayed acknowledgements and the time limits of the
closing states. Failed assertions are collected in `asserts`.

**Sockets.** `sock` is the table of `struct lwip_sock`, `list` and `ctr` the list of
select callbacks and its change counter, `th` an application thread inside a call,
`cb` an `event_callback` in progress, `work` what an actor still has to do of the
handler it is in. A step is one protected region, one unlocked access to a shared
field, one mailbox operation or one message of the tcpip thread; that is where
`lwip_select`'s scan, insertion, second scan, sleep and clean-up can be interleaved
with events. `lwip_recvfrom` goes over `lastdata`, `MSG_PEEK`, `MSG_DONTWAIT` and
partial reads; `conn` is the netconn reduced to what this layer sees. The NULL of a FIN
that meets a full recvmbox is lost, as in the code. A netconn without a socket yet has
its arrivals counted in `conn.socket` below -1, by a decrement that is a read
(`EventLookup`) and a write (`EventCount`): `lwip_accept` takes the count over under the
lock, `lwip_socket` writes the number without it, which a RAW netconn can notice.
`given` and `missed` are the history for that. `Plans` are scenarios: what the slots
hold at first and which calls are made.

**Dns.** The table `dns_table` with its seqno and TTL widths (`SeqnoValues`,
`TtlValues`), the answers on their way, and callers in `netconn_gethostbyname`. An
address is written as the name it belongs to; an entry's `ip` is the one it was
answered with.

**Link.** `host[h]` is a host: ARP table, interface flags and address, AutoIP's state;
`wire[h]` what it has yet to hear; `fate[p]` what became of a packet. Every handler of
etharp.c, autoip.c and netif.c is an operator on host records; `app[h]` is an
application thread that takes its interface down step by step, beside the tcpip
thread.

**Reass.** A sender's `ip_frag` and a receiver's `reassdatagrams`, with the budget of
pbufs and the pools; fragments are records of the bytes they carry. Identifications
start again when a sender restarts.

**Udp.** The lists `udp_pcbs` and `raw_pcbs` in their order, the pcbs, the interface's
address, and the last packet with who got it and what was sent in answer. Input moves
the pcb it found to the front. That cannot matter to a datagram for one address when
no port is shared (`HeardWhateverCameBefore`); to a broadcast, and among pcbs that share
a port, it does: the first of several that match hears it, and who is first depends
on what was heard before.

**Heap, Pbuf, Bytes.** `Heap` has the blocks of `mem.c` by offset, with `lfree`. `Pbuf`
has reference counts, chains and who holds what, the pool and its flag; an allocation
from the pool takes its pbufs one by one (`Take`), and when there is none left goes
through `pbuf_pool_is_empty` with the part of the chain in hand before it frees that
(`FreePart`), while other threads allocate and free. `Bytes` has no
steps: its initial states are all chains of up to three pbufs over a small alphabet,
and `BytesRight` compares what the loops of the code compute with definitions over
the flat sequence of bytes.

**Protect.** One action per access to the owner, the count and the mutex. The look at
`lwprot_thread` without the mutex is a data race; `visible[t]` are the values it can
return: everything written since `t` itself wrote or last took the mutex.

**Kv.** The table as the sequence of its rows, found by binary search and sorted after
each addition, beside the map it stands for; one connection after another. An ADD
without a delimiter changes nothing, is not answered and stays in the server's buffer.

## Runs

| run | bounds | shows |
|---|---|---|
| `sem` | 3 threads, token initially absent | binary semaphore, no lost wake-up, every wanted token is taken |
| `mbox` | 2 posters, ring of 3 (2 usable), 3 posts, cursors below 6 | refinement of the bounded queue, sleepers not forgotten, every post returns |
| `timers` | 2 cyclic timers, TCP timer, 2 one-shot timeouts, pool of 4, intervals 1 to 3 | `TimeoutsSound` (types, never early, armed once, TCP flag coherent, pool large enough), others undisturbed, no hung timeout |
| `halfduplex` | threshold 3 (the code's), frames of 3 half buffers, 2 frames | `ChannelShared` (frames unbroken, a pause ended only by a test after the hold-off, join before free), turn comes, stop returns |
| `driver` | 3 pbufs, 2 messages, mailbox 2, ring 2, 4 frames | `NothingLeaks` (pbufs and messages conserved), destroy returns |
| `driver_freed` | same | **violated**: the interface is freed under the tcpip thread |
| `relay` | 1 connection, buffers of 2 bytes, 2 and 1 bytes sent | accounted connections, `StreamsKept` (order, end after data), collection |
| `netconn` | 2 netconns, 1 pcb, 1 listening pcb, 1 thread, mailboxes of 1, send buffer 1, window 3, writes of 2 bytes, receive timeouts; one application that also shuts the sending side alone, one that writes and does not block | `CallsAnswered` (once, pending operations sound, close retried), netconn and pcb bound, `NobodyStranded` (reader woken, window returned, writable again) |
| `tcp` | 6 bytes in writes of 2, segments of 2, window and send buffer 4, receive mailbox 1, numbers modulo 64 that wrap at one end, 1 fault | stream in order, queues coherent, window never shrinks, no stall |
| `sockets` | 2 sockets, 3 netconns, 3 threads, mailbox 2, segments of 2 bytes, 9 scenarios | `CountsTrue` (arrivals, bytes, waiters; nonblocking never waits), bytes in order, no sleeper forgotten, select returns |
| `dns` | table of 2, 2 servers, 2 callers, 2 retries, 3 scenarios | every waiter called back with its name's address, every lookup returns |
| `stack` | the eight layers of `MCStack`, each with its scenarios | ARP coherent, link settles, heap sound, reassembly sound, UDP sound, pbufs sound, bytes right, protection excludes, table is a map |

Why the bounds are enough: each is the least at which the interesting case
happens and one more than it. Three threads give a signal two waiters to choose
from; a ring of two slots can be empty, full and in between, and two posters can
sleep at once; intervals 1 to 3 make timers coincide, interleave and be inserted
before, between and behind each other; a frame of one and a half buffers ends
inside a buffer and, with its successor, on an edge; pools smaller than the
traffic run dry in every order; a buffer of two bytes can be written in part.
Connections of the relay share nothing but the arrays, whose other entries a
pass leaves alone, so one connection shows what a connection can meet. A single
pcb makes every second connection go through the killing in `tcp_alloc`, with two
netconns one can listen while the other is accepted; mailboxes and a send buffer
of one are full after one message; a window of three lets a byte be in the
mailbox while a byte with a FIN is refused. Half closes are explored without writes
and nonblocking calls, and those without half closes (`halves` in `MCNetconn` says
which a behaviour has), because both together are too many states; the theorems
have them together. Deadlock is not checked there: a thread that shuts the sending
side of an unconnected pcb is never answered, and with one thread the program stops.
The messages of the `mbox` run are
alike, which keeps liveness in reach: that they stay in order is part of
`MboxRefinement`, proved for any messages. In `tcp` three segments over a window of
two are in flight, out of order, refused and sent again in every order, and one
fault reaches each timer; the mailbox of one makes the window close. Two faults in
a row only repeat what one does, at many times the states. In `sockets` two
selecting threads make the list change under a callback that walks along it, and
two slots make the table run full. A RAW socket with two datagrams has one
before and one behind the write of its number. In `stack` a table of two entries with three
addresses recycles; three administrative calls take the link, the address and the
interface through every order; two AutoIPs with one seed must collide, and one of them
loses its link and gets it back; one UDP port at two addresses has two pcbs that a
broadcast can reach; a pool of two pbufs leaves an allocation of two half done; a datagram of nine
bytes in fragments of two to four overlaps and exceeds the budget of four pbufs;
a heap of sixteen units with blocks of two to five splits and joins on both
sides; chains of three pbufs have every parity of lengths; three threads that
nest twice meet in `lwprot_thread`; four keys double a table of two rows.

The layers of `stack` are checked in one run, a behaviour being of one layer: they
are independent and small.

The violated property is what comments of the code say, stated as a formula:

* `driver_freed`: closing first is "to prevent invalid state" (`driver.c:265`) and
  "the interface won't try to write" to the closed encoder (`driver.c:258`).
  Messages already in the mailbox and a write already begun disagree.

Other formulas of the modules state what a comment, an assertion or a caller
expects and the code does not do. TLC refutes each of them when it is put in the
place of the run's invariants; no run lists them:

| module | formula | what it says, and what happens |
|---|---|---|
| `Timers` | `FiresUnderLoad` | "callback function to call when msecs have elapsed" (`timers.c:258`): messages less than a millisecond apart stop the clock |
| `Driver` | `ReadsUntilClosed` | "runs until ring closed" (`driver.c:97`): an empty PBUF_POOL ends the read thread |
| `Netconn` | `WriteOffsetReset` (with `Timeouts = {"SND"}`) | "already writing or closing" (`api_msg.c:1356`): a write that times out keeps its offset |
| `Netconn` | `CloseAlwaysRetried` | "we get called again" (`api_msg.c:820`): ERR_CONN of a half close is not temporary, and a pcb in CLOSED is never polled; the caller sleeps for good. `CloseRetried` names this case |
| `Netconn` | `NeverAstray` | "This doesn't deallocate the PCB unless shutting down both sides!" (`tcp.c:302`): after a half close TIME_WAIT ends (`tcp.c:1031`) without the err callback, and the netconn keeps a freed pcb |
| `Netconn` | `EofKept` | "it is presented to us later again from tcp_fasttmr!" (`api_msg.c:252`): not the NULL of a FIN, which is lost when recvmbox is full (`tcp_in.c:374`), and the reader sleeps until an error |
| `Netconn` | `AcceptBound` | a pcb in SYN_RCVD keeps the listener's accept callback (`tcp_in.c:490-492`) after `netconn_delete`; `accept_function` (`api_msg.c:439`) reads a netconn that is free or another by then |
| `HalfDuplex` | `NeverOverPeer` | "prevent collision" (`driver_portaudio.c:40`): the flag can go up between the test and the emission, and a frame that ends on a buffer's edge lets the next begin without a test of the flag |
| `Tcp` | `NoOverrun` | assertion at `tcp_in.c:1333`: what waits out of order can exceed a window that refused data has closed |
| `Tcp` | `NothingForgotten` | "unsent data is sent from tcp timer functions" (`tcp.c:256`): an acknowledgement of all that was sent is taken for that of a FIN not yet sent |
| `Sockets` | `EarlyArrivalsUsed` | "Just count down (or up) if that's the case and we will use the data later" (`sockets.c:1265`): a RAW netconn receives before it has its number, and `sockets.c:999` writes over the count, or the count over the number |
| `Sockets` | `EndIsReadable` | the end that a read met behind data (`sockets.c:609`) is not announced again |
| `Sockets` | `NoNullPcb` | options of a socket whose pcb is gone are read through NULL (`sockets.c:1696`) |
| `Sockets` | `WindowOwed` | a peeking read gives back window (`sockets.c:735`) |
| `Dns` | `ToldItsAddress` (with the names a and a.b) | "0: names equal" (`dns.c:490`): `dns_compare_name` stops where the answer's name ends |
| `Dns` | `HostentIsOwn` | the hostent of `lwip_gethostbyname` is one for all threads (`netdb.c:91`) |
| `Link` | `FreedOnce` (with `close`) | "pbuf_free: p->ref > 0" (`pbuf.c:650`): the tcpip thread and the closing thread both free a queued packet |
| `Link` | `DownHoldsNothing` | "Remove all ARP table entries of the specified netif" (`etharp.c:573`): an entry that waits for its first answer has no netif yet and stays |
| `Reass` | `HandedUpWhole` | "all fragments are received" (`ip_frag.c:441`): a fragment inserted before others is not compared with its predecessor (`ip_frag.c:358-374`); after 0 and 3, the last, fragment 2 completes the datagram without 1. `ReassSound` allows a hole there only; with a reused identification overlaps pass too |
| `Reass` | `ReassListIntact` | "prev->next == ipr" (`ip_frag.c:165`): the predecessor of the oldest datagram is not the one found |
| `Udp` | `SharedByConsent` | "unless *all* PCBs with that port have tha REUSEADDR flag" (`udp.c:786`): one of two is enough |
| `Bytes` | `Coalesces` | "or the old pbuf if allocation fails" (`pbuf.c:1007`): a chain with an empty pbuf makes `pbuf_copy` fail, and the assertion of `pbuf.c:1023` aborts |
| `Bytes` | `FindsFirst` | `pbuf_memfind` skips by the place of a mismatch and can pass over a match |
| `Kv` | `LeavesBroken` | a failed read is served as a request with the length -1 (`kv_server.c:289`) |

## Fairness

Threads are scheduled: weak fairness of each thread's steps. Strong fairness
where a thread competes for a lock others keep taking and releasing (`WaitLock`,
`Lock`, `PostWoken`, `PostRelock`): the locks are held for a few instructions, and
pthread mutexes do not starve a waiter in practice, though POSIX does not
promise it. The fetcher calls again (the loop of `tcpip_thread`). The clock ticks.
`Drained` in HalfDuplex is strongly fair because a frame takes many audio
packets, so the decoder's buffer is found empty in between. In Relay, select
reports a writable socket and a read or write succeeds now and then: a peer that
never takes a byte is outside what the relay can promise. `FiresWhenQuiet` states
its own condition: the mailbox stays empty and waits are no longer interrupted.
`StopCompletes` assumes the audio device works: with a failing one `emit_loop`
never sees a count of 0 and does not stop.
In Sockets every actor's steps are weakly fair: threads between two protected
regions go on, and the tcpip thread works through its messages. In Dns the timer
ticks, messages are handled and callers go on; answers need not come. `Tcp` and
`stack` check no liveness: `NoStall` says as an invariant that a connection at rest
has delivered everything, which needs no fairness.

## Proofs

`SemProofs` proves, for any set of threads, that the inductive invariant (types,
`MutexOwned`, `NoLostWakeup`) holds and that `Sem` implements `SemAbs`.
`MutexOwned` is what makes it inductive: a thread about to sleep holds the mutex,
so no signal can come between its test of the count and its sleep.

`MboxProofs` proves, for any ring size of at least 2, any finite set of posters
and any messages, under `NoOverflow` (the cursors stay below `INT_MAX`):
`MboxInvariant` (types, `RingBounded`, `LifeBounded`, `MutualExclusion`,
`WaitSendCounts`, `FetcherNotForgotten`, `PosterNotForgotten`), the two
not-forgotten theorems, and `MboxRefinement` to the FIFO queue.
`WaitSendCounts` is needed because a fetch decides by `wait_send` whether to
signal; its step counts a finite set that gains or loses one poster.
`PosterNotForgotten` is inductive only together with it: the fetch that empties
the ring sees every sleeper. The refinement needs that slots of distinct
positions less than a ring apart are distinct modulo the ring size.

`StackProofs` proves `ProtectExcludes` for any threads and any nesting.
`MutexHeld` says who has the mutex at each place of `sys_arch_protect` and
`sys_arch_unprotect`; `SeesItself` makes it inductive: the values a thread may see
in `lwprot_thread` include its own name only while it is in a region, so the
unlocked look, however stale, takes the short way exactly when the mutex is its
own. Inside a region the count is that thread's depth, so the last
`sys_arch_unprotect`, and no earlier one, unlocks; `FreeIsDead` says that a free
mutex has no owner noted.

`StackProofs` also proves `WaitersCalledBack` of `Dns`, for a table of any size and any
callers, servers, retries, losses, delays and duplicates. `OneAsks` is the converse of
`OneCallsBack` and makes it inductive: an entry in state ASKING belongs to a caller
that waits, for its name, and no two entries to the same one, so that an answer or a
timeout that ends an entry wakes the one thread it was kept for, and an eviction,
which takes unused and completed entries only, wakes nobody's. That the oldest
completed entry exists is a least element of the differences of the u8_t numbers,
taken twice. `OneCallsBack` needs no condition (`DnsOneCallsBack`). That the address is
the right one (`ToldItsAddress`) holds if no name that is looked up begins another one
label by label: `NamesApart` is a hypothesis of the theorem because
`dns_compare_name` takes a late answer for "a" as one for "a.b". TLC finds that
behaviour when such names are put in the plans.

`StackProofs` proves `UdpSound` as well, for any pools of UDP and RAW pcbs, any calls
and any packets. `UdpLists` takes the lists as sets, which `TakenOut`, `PutInFront`
and `MovedToFront` show to survive unlinking and reordering. `UdpSettled` says that a
pcb without a peer has nothing left of an old one, so that `udp_input` cannot take it
for connected to a sender whose port is not 0, and that nobody shares unasked.
`UdpApart` is what `PcbListsWhole` says of listed pcbs, said of all that have a port:
`BindFits` shows that `udp_bind` keeps it, because a port that was asked for was
compared with every listed pcb and one that `udp_new_port` finds is nobody's.
`PortsToSpare`, a hypothesis of the theorem, says that there are more ephemeral ports
than pcbs (0x4000 in `udp.c:70` against `MEMP_NUM_UDP_PCB`, 4 in `opt.h:243`); then
`NewPortIs`, by counting, finds one. Without it the formula is false, as TLC shows with two
ports, three pcbs and the addresses 1 and 2: `udp_bind` writes the new address before
it looks for a port, so a bound pcb that asks for another port and gets ERR_USE keeps
its old port under the new address, which may be another pcb's.

`StackProofs` proves `HeapSound` for a heap of any size and any calls (`HeapStaysSound`).
`HeapInv` says the same without a minimum: `Chain`, each block's `next` is a block or
the end with no block between, and `prev` is its inverse; `NoneJoined`, no two free
neighbours; `LowestIs`, `lfree` is free (or the end) and every block below it in use;
`HeldIn`, what is held is used and large enough; and that what was refused fits
nowhere. `Chain` is what makes it inductive: a block that is cut off lies between its
block and the old next one, and `plug_holes` removes the one header that nobody else's
`next` or `prev` names. `NoneJoined` holds again after `mem_free` because the only new
free block has been joined on both sides.

`StackProofs` proves `ChannelShared` of `HalfDuplex` for any threshold, frame length and
traffic. `BetweenFrames` is what `UnbrokenFrames` lacks: while `tx_in_progress` is
down the encoder holds whole frames only, because the flag is up exactly after a
full buffer and a buffer that was not full emptied the encoder. `SilenceCounted`
(`rx_wait_peer_frame` is the length of the silence, and the flag is lowered only at
the threshold) carries `HoldOff`: a flag that is down means a clear channel, and the
emit thread, which alone writes `tx_in_progress`, keeps what its test found until it
emits; `EmitJoined` orders the two joins.

`StackProofs` proves `ArpCoherent` of `Link` for any hosts, table size, ages, plans and
faults. The handlers are operators on host records that call each other up to five
deep, so the argument is about records: `Intact(r)` says that the table is coherent, no
entry in use has reached `ARP_MAXAGE`, and what has been put out in this step is not
still kept; `Passes(r, q, S)` that `q` is intact and knows no packet that `r` did not know,
but for those of `S`. `Passes` composes, each function of etharp.c, netif.c and autoip.c
is shown to have it once, with `S` empty or the packet `etharp_output` is given, and a
caller's lemma follows from those it calls. `SlotIs` is the heart: the slot that
`etharp_find_entry` returns is the only one in use for the address, so that making it
ready gives no address two entries. `LinkInv` adds to the tables that a packet that is
kept is not still unsent and, while nobody closes from a thread of his own, that one
host keeps it and `fate` says so: `FatesFollow` reads off what becomes of each packet in
a step of a handler. Without `KeptByOne` the packet that one host sends could be kept by
another, and `HeldIffQueued` would not be inductive.

`CountingProofs` has the lemmas about numbers: every nonempty set of naturals has a
least element, a set with 0 and every successor is all of them (`NatSet`, the form in
which induction can be used here), what is left of a sequence without one element,
and what appending, taking the head and joining add to the occurrences of a value.

`DriverProofs` proves `NothingLeaks` for pools, mailbox and ring of any size. It is
inductive as it stands: a pbuf out of its pool is in the read thread's hands, in
exactly one posted message, in the tcpip thread's hands or with the stack, and the
sum of these places and of what is free is the size of the pool. Every early return
gives back what the steps before it took, so the sum stays equal when a pool or the
mailbox is full; being equal, it also bounds each of its terms, so that no free can
exceed a pool.

`RelayProofs` proves `ConnsAccounted` and `StreamsKept` for any number of
connections, buffer length and traffic. `RelayInv` is `RelayTypes`; `PassDone`,
outside a pass over the arrays nothing is left of one; `Closing`, who is about to
destroy a connection found its count at 1; `Accounted`, as many places have a
connection as it has directions that have not ended; `OneHolder`, a direction is
being introduced, read, written or ended, never two of these; and `Stream`, which
numbers what was delivered and what is buffered and says that the reader of a
direction has an empty buffer. `OneHolder` is what makes the rest inductive: two
entries for one direction could fill a buffer that is still being written, or end a
direction twice and so destroy the connection under the other thread.

`TimersProofs` proves `TimeoutsSound` and `OthersUndisturbed` for any set of timers,
any intervals below 2^32, any pool that has an element for each timer of the stack
(`opt.h` computes its size that way) and any traffic. `TimersInv` consists of
`Types`; `InShape`, each handler once and no entry further than `U32 - 1` from now, so
that no subtraction of deltas wraps; `Waiting` and `Handling`, what the places of the
thread imply; `Late`, for every entry the true time left plus the time waited is at
most its expiry, so that an entry that fires is due; `CyclicArmed` and `TcpArmed`; and
`PoolTaken`, a full pool holds an application's timeout, by counting. Most of the
work is in the lemmas about a delta list: expiries rise along it, an insertion
(`TimeoutAdds`) or a removal (`UntimeoutDrops`) leaves every other expiry alone, and
`AllArmed` says what `sys_timeouts_init` leaves. `Expiry` and `sys_timeouts_init` are
recursive functions; what they compute is proved by induction with `NatSet`.

`NetconnProofs` proves `CallsAnswered` and `PcbBound` for any netconns, pcbs, listening
pcbs and threads and for mailboxes, buffers and windows of any size. Its inductive
invariant is `SInv`: no thread's message is twice in the tcpip mailbox, the rest of a
callback (`tail`) names a netconn, and `NInv` holds of the world, the threads whose
messages wait and the netconns the application has. `NInv` is a predicate of these
three, not of the variables, so that it can be stated of the worlds between two
operators of a handler. Its parts:

- `Bound` and `PcbOK`, the two directions of `PcbBound`, with the states a pcb may be in
  while a netconn has it: one in FIN_WAIT_1 or beyond belongs to a netconn whose sending
  side alone was shut, since a full close takes the callbacks off first;
- `Stage`, how `conn->state` and the pcb's state go together: a netconn is in LISTEN if
  and only if its pcb is a listening one, has an acceptmbox only then, is in CONNECT if
  and only if the pcb is in SYN_SENT, and in WRITE or CLOSE only with a pcb or `lost`;
- `Message`, `current_msg` is set exactly for an operation that somebody waits for, and
  names a thread in a call on this netconn whose message has left the mailbox; a full
  close that goes on has a pcb that `tcp_slowtmr` polls;
- `Signal`, `op_completed` has one token if that caller has been answered and none
  otherwise, which is `CompletedOnce`;
- `ThOK`, a netconn is in at most one call, and once `netconn_delete` (or a
  `netconn_new` that failed) has been answered it has neither a pcb nor connections
  nobody accepted, so that freeing it leaves no reference behind;
- `PendOK`, a connection nobody has accepted is in exactly one acceptmbox, once, idle and
  unknown to every thread, so that `netconn_drain` may abort it and an accept hands
  it to one caller.

The last two are why the properties are not inductive by themselves: `PcbBound` says
nothing of a deleted netconn that still waits to be freed, nor of two mailboxes that
hold the same connection. Most steps touch one netconn, its pcb and the thread in
a call with it; `Local` shows once that such a step has to be looked at only there,
and one lemma per handler (`ConnectStep`, `WritemoreStep`, `CloseInternal`,
`Abandoned`, ...) and per action does so. `netconn_drain` is the exception: it aborts
every connection of an acceptmbox, and `DrainIs` and `DrainStep` treat the set at once.

Neither theorem restricts the calls: half closes are among them. What a half close
breaks is in the properties by name. `CloseRetried` excepts the shutdown of the
sending side of a pcb that is not connected or has ended, which `tcp_shutdown` answers
with ERR_CONN each time and `do_close_internal` leaves to a poll that never comes.
`PcbBound` says that a netconn loses its pcb unawares (`lost`) only if its sending side
alone was shut (`half`). Only then has a pcb in TIME_WAIT, or in LAST_ACK with both sides
shut, still its callbacks; `tcp_slowtmr`, `tcp_alloc` and the last ACK give it back
without calling err (`Released`). `Next` ends there, so that the state in which a netconn
is lost must satisfy the properties, but nothing has to be preserved from it. The
inherited accept callback rests on `Stage`: a valid acceptmbox is a listening netconn's.

Assumptions on the constants are named in the modules that declare them and
evaluated by TLC in every run.

Only model-checked: the liveness properties (out of the prover's reach);
`NobodyStranded` of `Netconn`, whose `WindowReturned` sums over mailboxes and threads;
the safety of `Tcp` and `Sockets`; of `Link` that it settles (`LinkSettles` is about a
silent wire, and would need an invariant of all the frames on their way and of what
each will do); and of the layers of `MCStack` those of `Reass`, `Pbuf`, `Bytes` and `Kv`. `Tcp` and several of these layers compute by recursive
operators or by folds and selections over sequences, what they yield for every input
is an induction over data, and the provers here cannot do that.

## Not modelled

DHCP, IGMP, SNMP, PPP and IPv6 are not built into anything that runs. The
discovery example is one datagram and one answer. Frame dumps, statistics, debug
output, command lines and the audio set-up of the examples are left out, as is the
SOCKS handshake of `proxy_server.c`, sequential parsing on a socket of its own. The
signal processing of quiet and the audio stack are external: a ring, an encoder that
drains, and a device that can fail.

Creating an interface starts from a state in which it succeeded: the failure paths
(`driver.c:215`, `:227`) end in lost or freed memory at once, and two threads that
create their first interface together can start lwIP twice (`driver.c:6`). The byte
lengths of a frame are abstracted, and with them that `mtu` is the whole frame of the
modem (`driver.c:178`), so that a full IP packet with its link header exceeds it.

In `Tcp` the round-trip estimate is a timer that may expire, options are limited to
the MSS, and simultaneous open and listening queues are `Netconn`'s or left out. In
`Sockets` addresses are not converted. `sys_sem_free` and `sys_mbox_free` are called
when nobody else uses the object; for netconns that is `netconn_drain` and
`netconn_free` in `Netconn`. Two threads that call into one netconn at the same time
are outside what lwIP allows and outside the models. The mailbox's int cursors
overflow after 2^31 messages: beyond `NoOverflow` the full test of `sys_mbox_post` is
true of an empty ring, and `PostCompletes` does not hold.
