------------------------------- MODULE Driver -------------------------------
(***************************************************************************)
(* The plain driver (src/src/driver.c, util.c): frames travel from the     *)
(* decoder's ring through the read thread and tcpip_input to the tcpip     *)
(* thread, while an application thread may close and destroy the           *)
(* interface at any moment.                                                *)
(*                                                                         *)
(* Three threads share the interface: the read thread, the tcpip thread    *)
(* and the application.  pbufs come from PBUF_POOL, the messages that      *)
(* carry them from MEMP_TCPIP_MSG_INPKT, and both pools can run dry.       *)
(***************************************************************************)
EXTENDS Integers, Sequences, Counting

CONSTANTS
  Pbufs,        \* PBUF_POOL_SIZE
  Inpkts,       \* MEMP_NUM_TCPIP_MSG_INPKT
  MboxSize,     \* messages the tcpip mailbox holds
  RingSize,     \* frames the decoder's ring holds
  MaxFrames,    \* bound: frames heard
  MaxOther,     \* bound: messages other threads post
  MaxSends      \* bound: packets the stack originates by itself

ASSUME DriverAssumption ==
  {Pbufs, Inpkts, MboxSize, RingSize, MaxFrames, MaxOther, MaxSends} \subseteq Nat

\* The Ethernet type of a frame: one the stack takes, or another.
EtherTypes == {"ip", "unknown"}

VARIABLES
  ring,         \* decoded frames waiting in the decoder
  heard,        \* frames heard so far
  decoder,      \* "open", "closed" or "destroyed"
  encoder,      \* likewise
  netif_up,     \* NETIF_FLAG_UP
  netif_listed, \* the interface is in netif_list
  netif_freed,  \* free(interface) has happened
  pbufs,        \* free pbufs
  inpkts,       \* free input messages
  stacked,      \* pbufs the stack holds on to (queued for sockets)
  mbox,         \* the tcpip mailbox: "inpkt" and "other" messages
  others,       \* messages other threads posted so far
  sends,        \* packets the stack originated so far
  reader,       \* the read thread
  frame,        \* the type of the frame the read thread carries
  tcpip,        \* the tcpip thread
  app           \* the application's thread

pools == <<pbufs, inpkts, stacked>>
netif == <<netif_up, netif_listed, netif_freed>>
modem == <<ring, heard, decoder, encoder>>
load == <<others, sends>>
vars == <<modem, netif, pools, mbox, load, reader, frame, tcpip, app>>

(***************************************************************************)
(*   reader:  recv   in quiet_decoder_recv                                 *)
(*            alloc  has a frame in recv_temp, at buf2pbuf                 *)
(*            input  has a pbuf, at recv_pbuf                              *)
(*            exited                                                       *)
(*   tcpip:   fetch  in sys_timeouts_mbox_fetch                            *)
(*            input  in ethernet_input, with a packet of the interface     *)
(*            output about to call netif->linkoutput                       *)
(*   app:     running; then the steps of quiet_lwip_close: join, down,     *)
(*            close_encoder; then those of quiet_lwip_destroy: remove,     *)
(*            destroy_encoder, destroy_decoder, free; gone                 *)
(***************************************************************************)

\* The state after quiet_lwip_create: quiet_lwip_interface_init has started
\* the read thread, netif_add and netif_set_up have run.
Init ==
  /\ ring = << >> /\ heard = 0
  /\ decoder = "open" /\ encoder = "open"
  /\ netif_up = TRUE /\ netif_listed = TRUE /\ netif_freed = FALSE
  /\ pbufs = Pbufs /\ inpkts = Inpkts /\ stacked = 0
  /\ mbox = << >> /\ others = 0 /\ sends = 0
  /\ reader = "recv" /\ frame = "none"
  /\ tcpip = "fetch"
  /\ app = "running"

-----------------------------------------------------------------------------
(* The modem: quiet_lwip_recv_audio_packet *)

Hear(f) ==
  /\ decoder = "open"
  /\ heard < MaxFrames
  /\ Len(ring) < RingSize
  /\ ring' = Append(ring, f)
  /\ heard' = heard + 1
  /\ UNCHANGED <<decoder, encoder, netif, pools, mbox, load, reader, frame, tcpip, app>>

-----------------------------------------------------------------------------
(* read_loop, quiet_lwip_process_audio *)

\* quiet_decoder_recv, blocking: a frame ...
RecvFrame ==
  /\ reader = "recv"
  /\ ring # << >>
  /\ frame' = Head(ring)
  /\ ring' = Tail(ring)
  /\ reader' = "alloc"
  /\ UNCHANGED <<heard, decoder, encoder, netif, pools, mbox, load, tcpip, app>>

RecvClosed_KeepsWaiting ==
  /\ reader = "recv"
  /\ decoder = "closed" /\ ring # << >>
  /\ reader' = "exited"
  /\ UNCHANGED <<modem, netif, pools, mbox, load, frame, tcpip, app>>

\* ... or, once the decoder is closed, nothing: the loop ends.
RecvClosed ==
  /\ reader = "recv"
  /\ decoder = "closed"
  /\ reader' = "exited"
  /\ UNCHANGED <<modem, netif, pools, mbox, load, frame, tcpip, app>>

\* buf2pbuf
AllocPbuf ==
  /\ reader = "alloc"
  /\ pbufs > 0
  /\ pbufs' = pbufs - 1
  /\ reader' = "input"
  /\ UNCHANGED <<modem, netif, inpkts, stacked, mbox, load, frame, tcpip, app>>

\* No pbuf: quiet_lwip_fetch_single_frame returns NULL and process_audio takes
\* that for the end of the stream.
AllocFails ==
  /\ reader = "alloc"
  /\ pbufs = 0
  /\ reader' = "exited"
  /\ frame' = "none"
  /\ UNCHANGED <<modem, netif, pools, mbox, load, tcpip, app>>

\* pbuf_free by the read thread, which goes on with the next frame.
DropPbuf ==
  /\ pbufs' = pbufs + 1
  /\ reader' = "recv"
  /\ frame' = "none"
  /\ UNCHANGED <<modem, netif, stacked, inpkts, mbox, load, tcpip, app>>

\* recv_pbuf: not an Ethernet type for the stack.
RecvUnknown ==
  /\ reader = "input"
  /\ frame = "unknown"
  /\ DropPbuf

RecvRefused_Leaks ==
  /\ reader = "input"
  /\ frame = "ip"
  /\ inpkts = 0 \/ Len(mbox) >= MboxSize
  /\ reader' = "recv" /\ frame' = "none"
  /\ UNCHANGED <<modem, netif, pools, mbox, load, tcpip, app>>

\* recv_pbuf: tcpip_input finds no message or no room in the mailbox (and
\* gives the message back); recv_pbuf frees the packet.
RecvRefused ==
  /\ reader = "input"
  /\ frame = "ip"
  /\ inpkts = 0 \/ Len(mbox) >= MboxSize
  /\ DropPbuf

\* recv_pbuf: tcpip_input posts the packet.
RecvPosted ==
  /\ reader = "input"
  /\ frame = "ip"
  /\ inpkts > 0 /\ Len(mbox) < MboxSize
  /\ inpkts' = inpkts - 1
  /\ mbox' = Append(mbox, "inpkt")
  /\ reader' = "recv" /\ frame' = "none"
  /\ UNCHANGED <<modem, netif, pbufs, stacked, load, tcpip, app>>

-----------------------------------------------------------------------------
(* The tcpip thread and the users of the stack *)

\* Another thread's API call.
PostOther ==
  /\ others < MaxOther
  /\ Len(mbox) < MboxSize
  /\ mbox' = Append(mbox, "other")
  /\ others' = others + 1
  /\ UNCHANGED <<modem, netif, pools, sends, reader, frame, tcpip, app>>

FetchPacket ==
  /\ tcpip = "fetch"
  /\ mbox # << >> /\ Head(mbox) = "inpkt"
  /\ mbox' = Tail(mbox)
  /\ tcpip' = "input"
  /\ UNCHANGED <<modem, netif, pools, load, reader, frame, app>>

FetchOther ==
  /\ tcpip = "fetch"
  /\ mbox # << >> /\ Head(mbox) = "other"
  /\ mbox' = Tail(mbox)
  /\ UNCHANGED <<modem, netif, pools, load, reader, frame, tcpip, app>>

\* ethernet_input: the packet is freed or kept for a socket, the message is
\* freed, and an ARP reply or an acknowledgement may go out on the interface.
PacketDone(reply) ==
  /\ tcpip = "input"
  /\ tcpip' = IF reply THEN "output" ELSE "fetch"
  /\ \/ pbufs' = pbufs + 1 /\ UNCHANGED stacked
     \/ stacked' = stacked + 1 /\ UNCHANGED pbufs
  /\ inpkts' = inpkts + 1
  /\ UNCHANGED <<modem, netif, mbox, load, reader, frame, app>>

\* A socket reads a packet the stack kept.
SocketReads ==
  /\ stacked > 0
  /\ stacked' = stacked - 1
  /\ pbufs' = pbufs + 1
  /\ UNCHANGED <<modem, netif, inpkts, mbox, load, reader, frame, tcpip, app>>

\* The stack has something to send and ip_route finds the interface up.
RouteOut ==
  /\ tcpip = "fetch"
  /\ sends < MaxSends
  /\ netif_listed /\ netif_up
  /\ sends' = sends + 1
  /\ tcpip' = "output"
  /\ UNCHANGED <<modem, netif, pools, mbox, others, reader, frame, app>>

\* quiet_lwip_encode_frame: quiet_encoder_send.
EncodeFrame ==
  /\ tcpip = "output"
  /\ tcpip' = "fetch"
  /\ UNCHANGED <<modem, netif, pools, mbox, load, reader, frame, app>>

-----------------------------------------------------------------------------
(* quiet_lwip_destroy, which begins with quiet_lwip_close *)

CloseDecoder ==
  /\ app = "running"
  /\ decoder' = "closed"
  /\ app' = "join"
  /\ UNCHANGED <<ring, heard, encoder, netif, pools, mbox, load, reader, frame, tcpip>>

\* pthread_join(driver->read_thread)
JoinReader ==
  /\ app = "join"
  /\ reader = "exited"
  /\ app' = "down"
  /\ UNCHANGED <<modem, netif, pools, mbox, load, reader, frame, tcpip>>

SetDown ==
  /\ app = "down"
  /\ netif_up' = FALSE
  /\ app' = "close_encoder"
  /\ UNCHANGED <<modem, netif_listed, netif_freed, pools, mbox, load, reader, frame, tcpip>>

CloseEncoder ==
  /\ app = "close_encoder"
  /\ encoder' = "closed"
  /\ app' = "remove"
  /\ UNCHANGED <<ring, heard, decoder, netif, pools, mbox, load, reader, frame, tcpip>>

\* netif_remove, in the application's thread.
RemoveNetif ==
  /\ app = "remove"
  /\ netif_listed' = FALSE
  /\ app' = "destroy_encoder"
  /\ UNCHANGED <<modem, netif_up, netif_freed, pools, mbox, load, reader, frame, tcpip>>

DestroyEncoder ==
  /\ app = "destroy_encoder"
  /\ encoder' = "destroyed"
  /\ app' = "destroy_decoder"
  /\ UNCHANGED <<ring, heard, decoder, netif, pools, mbox, load, reader, frame, tcpip>>

DestroyDecoder ==
  /\ app = "destroy_decoder"
  /\ decoder' = "destroyed"
  /\ app' = "free"
  /\ UNCHANGED <<ring, heard, encoder, netif, pools, mbox, load, reader, frame, tcpip>>

FreeInterface ==
  /\ app = "free"
  /\ netif_freed' = TRUE
  /\ app' = "gone"
  /\ UNCHANGED <<modem, netif_up, netif_listed, pools, mbox, load, reader, frame, tcpip>>

-----------------------------------------------------------------------------

ReadStep ==
  \/ RecvFrame \/ RecvClosed \/ AllocPbuf \/ AllocFails
  \/ RecvUnknown \/ RecvRefused \/ RecvPosted

TcpipStep ==
  \/ FetchPacket \/ FetchOther
  \/ \E reply \in BOOLEAN : PacketDone(reply)
  \/ EncodeFrame

CloseStep ==
  \/ JoinReader \/ SetDown \/ CloseEncoder \/ RemoveNetif
  \/ DestroyEncoder \/ DestroyDecoder \/ FreeInterface

Next ==
  \/ \E f \in EtherTypes : Hear(f)
  \/ ReadStep
  \/ PostOther \/ SocketReads \/ RouteOut \/ TcpipStep
  \/ CloseDecoder \/ CloseStep

Spec == Init /\ [][Next]_vars

\* The read thread, the tcpip thread and the closing application are scheduled.
Fairness == WF_vars(ReadStep) /\ WF_vars(TcpipStep) /\ WF_vars(CloseStep)

FairSpec == Spec /\ Fairness

-----------------------------------------------------------------------------
(* Properties *)

TypeOK ==
  /\ ring \in Seq(EtherTypes) /\ heard \in 0 .. MaxFrames
  /\ decoder \in {"open", "closed", "destroyed"}
  /\ encoder \in {"open", "closed", "destroyed"}
  /\ netif_up \in BOOLEAN /\ netif_listed \in BOOLEAN /\ netif_freed \in BOOLEAN
  /\ pbufs \in 0 .. Pbufs /\ inpkts \in 0 .. Inpkts /\ stacked \in 0 .. Pbufs
  /\ mbox \in Seq({"inpkt", "other"}) /\ Len(mbox) <= MboxSize
  /\ others \in 0 .. MaxOther /\ sends \in 0 .. MaxSends
  /\ reader \in {"recv", "alloc", "input", "exited"}
  /\ frame \in EtherTypes \cup {"none"}
  /\ tcpip \in {"fetch", "input", "output"}
  /\ app \in {"running", "join", "down", "close_encoder", "remove",
              "destroy_encoder", "destroy_decoder", "free", "gone"}

Posted == Times(mbox, "inpkt")
HeldBy(thread) == IF thread = "input" THEN 1 ELSE 0

\* No pbuf is lost or freed twice on the way from the decoder to the stack,
\* whichever of buf2pbuf, tcpip_input and the mailbox fails.
PbufsConserved == pbufs + stacked + Posted + HeldBy(reader) + HeldBy(tcpip) = Pbufs

\* Likewise for the input messages of tcpip_input.
MessagesConserved == inpkts + Posted + HeldBy(tcpip) = Inpkts

\* Every failing path of the read thread and of tcpip_input frees what it took, once.
NothingLeaks == TypeOK /\ PbufsConserved /\ MessagesConserved

\* quiet_lwip_destroy returns, however full the mailbox and the pools are:
\* the read thread never blocks on its way to the end of its loop.
DestroyCompletes == app = "join" ~> app = "gone"

-----------------------------------------------------------------------------
(* What the comments of driver.c say *)

\* read_loop: quiet_lwip_process_audio "runs until ring closed".
ReadsUntilClosed == reader = "exited" => decoder # "open"

\* quiet_lwip_destroy: "close first in order to prevent invalid state" -- once
\* the interface is freed nothing in the stack still refers to it.
NothingRefersToFreed == netif_freed => Posted = 0 /\ tcpip = "fetch"

=============================================================================
