---------------------------- MODULE DriverProofs ----------------------------
(***************************************************************************)
(* NothingLeaks for pools, mailbox and ring of any size and any traffic.   *)
(* It is inductive as it stands once the type invariant is added: the two  *)
(* sums bound the pools from above, so a free can never exceed a pool.     *)
(***************************************************************************)
EXTENDS Driver, CountingProofs

Messages == {"inpkt", "other"}

LEMMA DriverInitially == Init => NothingLeaks
<1> SUFFICES ASSUME Init PROVE NothingLeaks
  OBVIOUS
<1>1. Posted = 0
  BY TimesEmpty DEF Init, Posted
<1>2. TypeOK
  <2>1. /\ heard \in 0 .. MaxFrames /\ pbufs \in 0 .. Pbufs /\ inpkts \in 0 .. Inpkts
        /\ stacked \in 0 .. Pbufs /\ others \in 0 .. MaxOther /\ sends \in 0 .. MaxSends
        /\ ring \in Seq(EtherTypes) /\ mbox \in Seq(Messages) /\ Len(mbox) <= MboxSize
    BY DriverAssumption DEF Init, Messages
  <2>2. netif_up \in BOOLEAN /\ netif_listed \in BOOLEAN /\ netif_freed \in BOOLEAN
    BY Zenon DEF Init
  <2>3. /\ decoder = "open" /\ encoder = "open" /\ reader = "recv" /\ frame = "none"
        /\ tcpip = "fetch" /\ app = "running"
    BY Zenon DEF Init
  <2> QED
    BY <2>1, <2>2, <2>3 DEF TypeOK, Messages
<1> QED
  BY <1>1, <1>2, DriverAssumption DEF Init, NothingLeaks, PbufsConserved, MessagesConserved, HeldBy

LEMMA DriverStep == NothingLeaks /\ [Next]_vars => NothingLeaks'
<1> SUFFICES ASSUME NothingLeaks, [Next]_vars PROVE NothingLeaks'
  OBVIOUS
<1> USE DriverAssumption DEF NothingLeaks, TypeOK, PbufsConserved, MessagesConserved, HeldBy, EtherTypes,
        pools, netif, modem, load, vars
<1>0. Posted \in Nat /\ mbox \in Seq(Messages)
  BY PlacesFinite DEF Posted, Messages
<1>a. /\ Pbufs \in Nat /\ Inpkts \in Nat /\ MboxSize \in Nat /\ MaxOther \in Nat
      /\ pbufs \in Nat /\ inpkts \in Nat /\ stacked \in Nat
  OBVIOUS
<1>1. mbox' = mbox => Posted' = Posted
  BY DEF Posted
<1>2. CASE UNCHANGED vars
  BY <1>1, <1>2
<1>3. ASSUME NEW f \in EtherTypes, Hear(f) PROVE NothingLeaks'
  BY SMTT(30), <1>1, <1>3 DEF Hear
<1>4. CASE RecvFrame
  BY SMTT(30), <1>1, <1>4 DEF RecvFrame
<1>5. CASE RecvClosed
  BY <1>1, <1>5 DEF RecvClosed
<1>6. CASE AllocPbuf
  BY <1>0, <1>1, <1>6 DEF AllocPbuf
<1>7. CASE AllocFails
  BY <1>0, <1>1, <1>7 DEF AllocFails
<1>8. CASE RecvUnknown \/ RecvRefused
  <2>1. /\ reader = "input" /\ pbufs' = pbufs + 1 /\ reader' = "recv" /\ frame' = "none"
        /\ UNCHANGED <<modem, netif, stacked, inpkts, mbox, load, tcpip, app>>
    BY <1>8 DEF RecvUnknown, RecvRefused, DropPbuf
  <2>2. PbufsConserved' /\ MessagesConserved'
    BY <1>0, <1>1, <1>a, <2>1
  <2>3. pbufs' \in 0 .. Pbufs
    BY <1>0, <1>a, <2>1
  <2> QED
    BY <2>1, <2>2, <2>3
<1>9. CASE RecvPosted
  <2>1. Posted' = Posted + 1
    <3>1. mbox' = Append(mbox, "inpkt") /\ "inpkt" \in Messages
      BY <1>9 DEF RecvPosted, Messages
    <3>2. Times(Append(mbox, "inpkt"), "inpkt") = Times(mbox, "inpkt") + 1
      BY SMTT(30), <1>0, <3>1, TimesAppend
    <3> QED
      BY <3>1, <3>2 DEF Posted
  <2> QED
    BY SMTT(30), <1>0, <1>9, <2>1 DEF RecvPosted
<1>10. CASE PostOther
  <2>1. Posted' = Posted
    <3>1. mbox' = Append(mbox, "other") /\ "other" \in Messages /\ "other" # "inpkt"
      BY <1>10 DEF PostOther, Messages
    <3>2. Times(Append(mbox, "other"), "inpkt") = Times(mbox, "inpkt") + 0
      BY SMTT(30), <1>0, <3>1, TimesAppend
    <3> QED
      BY <1>0, <3>1, <3>2 DEF Posted
  <2> QED
    BY SMTT(30), <1>0, <1>10, <2>1 DEF PostOther
<1>11. CASE FetchPacket
  <2>1. Posted = Posted' + 1
    BY <1>0, <1>11, TimesHeadTail DEF FetchPacket, Posted
  <2>2. mbox' \in Seq(Messages) /\ Len(mbox') <= MboxSize
    BY SMTT(30), <1>0, <1>11 DEF FetchPacket
  <2>3. Posted' \in Nat
    BY <2>2, PlacesFinite DEF Posted
  <2> QED
    <3>1. /\ tcpip = "fetch" /\ tcpip' = "input"
          /\ UNCHANGED <<modem, netif, pools, load, reader, frame, app>>
      BY <1>11 DEF FetchPacket
    <3>2. /\ HeldBy(tcpip) = 0 /\ HeldBy(tcpip)' = 1
          /\ HeldBy(reader) \in Nat /\ HeldBy(reader)' = HeldBy(reader)
      BY <3>1
    <3>3. PbufsConserved' /\ MessagesConserved'
      <4> HIDE DEF HeldBy, TypeOK
      <4>1. pbufs' = pbufs /\ stacked' = stacked /\ inpkts' = inpkts
        BY <3>1
      <4> DEFINE q == Posted'
      <4>2. q \in Nat /\ Posted = q + 1
        BY <2>1, <2>3
      <4>3. pbufs + stacked + q + HeldBy(reader) + 1 = Pbufs
        BY SMTT(30), <1>0, <1>a, <3>2, <4>2
      <4>4. inpkts + q + 1 = Inpkts
        <5>1. inpkts + Posted + 0 = Inpkts
          BY <3>2
        <5> HIDE DEF NothingLeaks, q
        <5> QED
          BY <1>a, <4>2, <5>1
      <4> QED
        BY <3>2, <4>1, <4>3, <4>4
    <3> QED
      BY <2>2, <3>1, <3>3 DEF Messages
<1>12. CASE FetchOther
  <2>1. Posted = Posted' + 0
    BY <1>0, <1>12, TimesHeadTail DEF FetchOther, Posted
  <2>2. mbox' \in Seq(Messages) /\ Len(mbox') <= MboxSize
    BY SMTT(30), <1>0, <1>12 DEF FetchOther
  <2>3. Posted' \in Nat
    BY <2>2, PlacesFinite DEF Posted
  <2> QED
    BY <1>0, <1>12, <2>1, <2>2, <2>3 DEF FetchOther, Messages
<1>13. ASSUME NEW reply \in BOOLEAN, PacketDone(reply) PROVE NothingLeaks'
  <2>1. /\ tcpip = "input" /\ tcpip' \in {"fetch", "output"} /\ inpkts' = inpkts + 1
        /\ UNCHANGED <<modem, netif, mbox, load, reader, frame, app>>
    BY <1>13 DEF PacketDone
  <2>2. \/ pbufs' = pbufs + 1 /\ stacked' = stacked
        \/ stacked' = stacked + 1 /\ pbufs' = pbufs
    BY <1>13 DEF PacketDone
  <2>3. PbufsConserved' /\ MessagesConserved'
    <3>1. /\ HeldBy(tcpip) = 1 /\ HeldBy(tcpip)' = 0
          /\ HeldBy(reader) \in Nat /\ HeldBy(reader)' = HeldBy(reader)
      BY <2>1
    <3> HIDE DEF HeldBy, TypeOK
    <3>2. mbox' = mbox /\ inpkts' = inpkts + 1
      BY <2>1
    <3> QED
      BY SMTT(30), <1>0, <1>1, <1>a, <2>2, <3>1, <3>2
  <2>4. pbufs' \in 0 .. Pbufs /\ stacked' \in 0 .. Pbufs /\ inpkts' \in 0 .. Inpkts
    BY SMTT(30), <1>0, <1>a, <2>1, <2>2
  <2> QED
    BY <2>1, <2>3, <2>4
<1>14. CASE SocketReads
  <2>1. /\ stacked > 0 /\ stacked' = stacked - 1 /\ pbufs' = pbufs + 1
        /\ UNCHANGED <<modem, netif, inpkts, mbox, load, reader, frame, tcpip, app>>
    BY <1>14 DEF SocketReads
  <2>2. PbufsConserved' /\ MessagesConserved'
    BY <1>0, <1>1, <1>a, <2>1
  <2>3. pbufs' \in 0 .. Pbufs /\ stacked' \in 0 .. Pbufs
    BY <1>0, <1>a, <2>1
  <2> QED
    BY <2>1, <2>2, <2>3
<1>15. CASE RouteOut
  BY SMTT(30), <1>1, <1>15 DEF RouteOut
<1>16. CASE EncodeFrame
  BY <1>1, <1>16 DEF EncodeFrame
<1>17. CASE CloseDecoder
  BY <1>1, <1>17 DEF CloseDecoder
<1>18. CASE JoinReader
  BY <1>1, <1>18 DEF JoinReader
<1>19. CASE SetDown
  BY ZenonT(60), <1>1, <1>19 DEF SetDown
<1>20. CASE CloseEncoder
  BY <1>1, <1>20 DEF CloseEncoder
<1>21. CASE RemoveNetif
  BY ZenonT(60), <1>1, <1>21 DEF RemoveNetif
<1>22. CASE DestroyEncoder
  BY <1>1, <1>22 DEF DestroyEncoder
<1>23. CASE DestroyDecoder
  BY <1>1, <1>23 DEF DestroyDecoder
<1>24. CASE FreeInterface
  BY <1>1, <1>24 DEF FreeInterface
<1> QED
  BY <1>2, <1>3, <1>4, <1>5, <1>6, <1>7, <1>8, <1>9, <1>10, <1>11, <1>12, <1>13, <1>14, <1>15, <1>16, <1>17,
     <1>18, <1>19, <1>20, <1>21, <1>22, <1>23, <1>24 DEF Next, ReadStep, TcpipStep, CloseStep

(* For pools, ring and mailbox of any size and any traffic: whichever of   *)
(* buf2pbuf, tcpip_input and the mailbox fails, a packet buffer and an     *)
(* input message are in one place at a time, and every failing path gives  *)
(* back what it took.                                                      *)
THEOREM DriverNothingLeaks == Spec => []NothingLeaks
  BY DriverInitially, DriverStep, PTL DEF Spec
=============================================================================
