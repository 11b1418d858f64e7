----------------------------- MODULE HalfDuplex -----------------------------
(***************************************************************************)
(* The PortAudio driver (src/src/driver_portaudio.c): the emit thread that *)
(* feeds the speaker, the receive thread that reads the microphone, and    *)
(* the arbitration between the two over a half-duplex channel.             *)
(*                                                                         *)
(* The receive thread counts audio packets since it last saw the peer in   *)
(* the middle of a frame and publishes rx_in_progress; the emit thread     *)
(* starts nothing while that flag is up but finishes what it has started.  *)
(* Only the emit thread touches tx_in_progress; only the receive thread    *)
(* touches rx_wait_peer_frame; rx_in_progress is atomic.                   *)
(*                                                                         *)
(* What the encoder still has to emit is counted in units of half an audio *)
(* buffer, so that frames end inside a buffer as well as at its edge.      *)
(***************************************************************************)
EXTENDS Integers

CONSTANTS
  Thresh,       \* rx_wait_peer_frame_thresh
  FrameUnits,   \* half buffers one frame occupies on the air
  MaxFrames,    \* bound: frames the stack sends
  MaxHeard      \* bound: frames waiting in the decoder

BufferUnits == 2    \* encoder_sample_size

ASSUME DuplexAssumption ==
  /\ Thresh \in Nat \ {0} /\ FrameUnits \in Nat \ {0}
  /\ MaxFrames \in Nat /\ MaxHeard \in Nat

VARIABLES
  rx_in_progress, tx_in_progress,
  rx_wait_peer_frame,
  pending,      \* units the encoder still has to emit
  sent,         \* frames handed to the encoder so far
  frame_open,   \* the decoder is in the middle of a frame
  heard,        \* decoded frames not yet fetched
  device,       \* "ok", or "failed": the audio device rejects writes
  emit_pc,      \* the emit thread
  recv_pc,      \* the receive thread
  emit_stop, recv_stop,   \* the two shutdown flags
  app_pc,       \* the thread that stops and destroys the driver
  quiet,        \* history: polls since a frame was last seen open, at most Thresh
  contended,    \* history: a frame was seen open before
  cleared       \* history: what the emit thread's last test found of the channel

arb == <<rx_in_progress, tx_in_progress, rx_wait_peer_frame, quiet, contended, cleared>>
codec == <<pending, sent, frame_open, heard, device>>
control == <<emit_stop, recv_stop, app_pc>>
vars == <<arb, codec, control, emit_pc, recv_pc>>

Init ==
  /\ rx_in_progress = FALSE
  /\ tx_in_progress = FALSE
  /\ rx_wait_peer_frame = 0
  /\ quiet = 0 /\ contended = FALSE /\ cleared = FALSE
  /\ pending = 0 /\ sent = 0
  /\ frame_open = FALSE /\ heard = 0
  /\ device = "ok"
  /\ emit_stop = FALSE /\ recv_stop = FALSE
  /\ app_pc = "running"
  /\ emit_pc = "top"
  /\ recv_pc = "top"

-----------------------------------------------------------------------------
(* The environment: the lwIP stack, the channel and the audio device *)

\* quiet_lwip_portaudio_encode_frame, in the tcpip thread.
encode_frame ==
  /\ sent < MaxFrames
  /\ app_pc \notin {"destroy", "gone"}
  /\ pending' = pending + FrameUnits
  /\ sent' = sent + 1
  /\ UNCHANGED <<arb, control, frame_open, heard, device, emit_pc, recv_pc>>

\* The decoder hears a frame begin (the peer's, or the echo of our own).
FrameBegins ==
  /\ ~frame_open
  /\ frame_open' = TRUE
  /\ UNCHANGED <<arb, control, pending, sent, heard, device, emit_pc, recv_pc>>

\* The frame ends; it decodes or is lost.
FrameEnds ==
  /\ frame_open
  /\ frame_open' = FALSE
  /\ heard' \in {heard, heard + 1}
  /\ heard' <= MaxHeard
  /\ UNCHANGED <<arb, control, pending, sent, device, emit_pc, recv_pc>>

DeviceFails ==
  /\ device = "ok"
  /\ device' = "failed"
  /\ UNCHANGED <<arb, control, pending, sent, frame_open, heard, emit_pc, recv_pc>>

-----------------------------------------------------------------------------
(* emit_loop *)

\* driver->tx_in_progress || !atomic_load(&driver->rx_in_progress)
MayEmit == tx_in_progress \/ ~rx_in_progress

\* History: nothing was ever heard, or the last Thresh polls found no frame open, or
\* the receive thread has this moment found one and not yet raised the flag.
Clear == (contended => quiet = Thresh) \/ recv_pc = "busy"

EmitTest ==
  /\ emit_pc = "top"
  /\ emit_pc' = IF MayEmit THEN "emit" ELSE "hush"
  /\ cleared' = Clear
  /\ UNCHANGED <<rx_in_progress, tx_in_progress, rx_wait_peer_frame, quiet, contended,
                 codec, control, recv_pc>>

\* quiet_portaudio_encoder_emit fills one buffer, as far as there are units.
Emit ==
  /\ emit_pc = "emit"
  /\ device = "ok"
  /\ LET written == IF pending < BufferUnits THEN pending ELSE BufferUnits IN
       /\ pending' = pending - written
       /\ tx_in_progress' = (written = BufferUnits)
       /\ emit_pc' = IF written = 0 THEN "check" ELSE "top"
  /\ UNCHANGED <<rx_in_progress, rx_wait_peer_frame, quiet, contended, cleared, sent,
                 frame_open, heard, device, control, recv_pc>>

\* The write fails: a negative count is neither a full buffer nor zero.
EmitFails ==
  /\ emit_pc = "emit"
  /\ device = "failed"
  /\ tx_in_progress' = FALSE
  /\ emit_pc' = "top"
  /\ UNCHANGED <<rx_in_progress, rx_wait_peer_frame, quiet, contended, cleared, codec,
                 control, recv_pc>>

\* quiet_portaudio_encoder_emit_empty: a buffer of silence, written = 0.
Hush ==
  /\ emit_pc = "hush"
  /\ emit_pc' = "check"
  /\ UNCHANGED <<arb, codec, control, recv_pc>>

EmitCheck_WaitsForSilence ==
  /\ emit_pc = "check"
  /\ emit_pc' = IF emit_stop /\ ~frame_open /\ ~rx_in_progress THEN "exited" ELSE "top"
  /\ UNCHANGED <<arb, codec, control, recv_pc>>

\* Nothing was written: time to look at the shutdown flag.
EmitCheck ==
  /\ emit_pc = "check"
  /\ emit_pc' = IF emit_stop THEN "exited" ELSE "top"
  /\ UNCHANGED <<arb, codec, control, recv_pc>>

-----------------------------------------------------------------------------
(* recv_loop *)

RecvTop ==
  /\ recv_pc = "top"
  /\ recv_pc' = IF recv_stop THEN "exited" ELSE "poll"
  /\ UNCHANGED <<arb, codec, control, emit_pc>>

\* The counter of silent audio packets stops at the threshold ...
Counted(n) == IF n < Thresh THEN n + 1 ELSE n

\* ... and the packet that reaches it lowers the flag.
Reaches_Late(n) == n = Thresh + 1
Reaches(n) == n + 1 = Thresh

Restarted_Kept(n) == n
Restarted(n) == 0

\* quiet_portaudio_decoder_frame_in_progress, and the counter that follows it.
Poll ==
  /\ recv_pc = "poll"
  /\ \/ /\ frame_open
        /\ rx_wait_peer_frame' = Restarted(rx_wait_peer_frame)
        /\ recv_pc' = "busy"
        /\ quiet' = 0 /\ contended' = TRUE
     \/ /\ ~frame_open
        /\ rx_wait_peer_frame' = Counted(rx_wait_peer_frame)
        /\ recv_pc' = IF Reaches(rx_wait_peer_frame) THEN "free" ELSE "drain"
        /\ quiet' = IF quiet < Thresh THEN quiet + 1 ELSE quiet
        /\ UNCHANGED contended
  /\ UNCHANGED <<rx_in_progress, tx_in_progress, cleared, codec, control, emit_pc>>

\* atomic_store(&driver->rx_in_progress, ...)
StoreRx ==
  /\ recv_pc \in {"busy", "free"}
  /\ rx_in_progress' = (recv_pc = "busy")
  /\ recv_pc' = "drain"
  /\ UNCHANGED <<tx_in_progress, rx_wait_peer_frame, quiet, contended, cleared, codec, control,
                 emit_pc>>

\* quiet_lwip_portaudio_process_audio: one frame to lwIP, or dropped for want
\* of a pbuf, which ends the loop early.
FetchFrame ==
  /\ recv_pc = "drain"
  /\ heard > 0
  /\ heard' = heard - 1
  /\ recv_pc' \in {"drain", "top"}
  /\ UNCHANGED <<arb, pending, sent, frame_open, device, control, emit_pc>>

Drained ==
  /\ recv_pc = "drain"
  /\ heard = 0
  /\ recv_pc' = "top"
  /\ UNCHANGED <<arb, codec, control, emit_pc>>

-----------------------------------------------------------------------------
(* quiet_lwip_portaudio_stop_audio_threads, quiet_lwip_portaudio_destroy *)

StopEmit ==
  /\ app_pc = "running"
  /\ emit_stop' = TRUE
  /\ app_pc' = "stop_recv"
  /\ UNCHANGED <<arb, codec, recv_stop, emit_pc, recv_pc>>

StopRecv ==
  /\ app_pc = "stop_recv"
  /\ recv_stop' = TRUE
  /\ app_pc' = "join_emit"
  /\ UNCHANGED <<arb, codec, emit_stop, emit_pc, recv_pc>>

JoinEmit ==
  /\ app_pc = "join_emit"
  /\ emit_pc = "exited"
  /\ app_pc' = "join_recv"
  /\ UNCHANGED <<arb, codec, emit_stop, recv_stop, emit_pc, recv_pc>>

\* After the second join the flags are freed.
JoinRecv ==
  /\ app_pc = "join_recv"
  /\ recv_pc = "exited"
  /\ app_pc' = "destroy"
  /\ UNCHANGED <<arb, codec, emit_stop, recv_stop, emit_pc, recv_pc>>

\* netif_set_down, netif_remove, free(interface).
Destroy ==
  /\ app_pc = "destroy"
  /\ app_pc' = "gone"
  /\ UNCHANGED <<arb, codec, emit_stop, recv_stop, emit_pc, recv_pc>>

-----------------------------------------------------------------------------

EmitStep == EmitTest \/ Emit \/ EmitFails \/ Hush \/ EmitCheck
RecvStep == RecvTop \/ Poll \/ StoreRx \/ FetchFrame \/ Drained
AppStep == StopRecv \/ JoinEmit \/ JoinRecv \/ Destroy

Next ==
  \/ encode_frame \/ FrameBegins \/ FrameEnds \/ DeviceFails
  \/ EmitStep \/ RecvStep
  \/ StopEmit \/ AppStep

Spec == Init /\ [][Next]_vars

\* The two audio threads and the stopping thread are scheduled.  A frame is on
\* the air for many audio packets, so process_audio, which finds the decoder's
\* buffer empty again and again, does get to leave its loop.
Fairness ==
  /\ WF_vars(EmitStep) /\ WF_vars(RecvStep) /\ WF_vars(AppStep)
  /\ SF_vars(Drained)

FairSpec == Spec /\ Fairness

-----------------------------------------------------------------------------
(* Properties *)

TypeOK ==
  /\ rx_in_progress \in BOOLEAN /\ tx_in_progress \in BOOLEAN
  /\ rx_wait_peer_frame \in 0 .. Thresh
  /\ quiet \in 0 .. Thresh /\ contended \in BOOLEAN /\ cleared \in BOOLEAN
  /\ pending \in Nat /\ sent \in 0 .. MaxFrames
  /\ frame_open \in BOOLEAN /\ heard \in Nat
  /\ device \in {"ok", "failed"}
  /\ emit_stop \in BOOLEAN /\ recv_stop \in BOOLEAN
  /\ app_pc \in {"running", "stop_recv", "join_emit", "join_recv", "destroy", "gone"}
  /\ emit_pc \in {"top", "emit", "hush", "check", "exited"}
  /\ recv_pc \in {"top", "poll", "busy", "free", "drain", "exited"}

MidFrame == pending % FrameUnits # 0

\* A frame once begun is not broken up by silence: however the receive thread
\* flips rx_in_progress, the emit thread plays an empty buffer only between
\* frames (as long as the device accepts writes).
UnbrokenFrames == device = "ok" /\ emit_pc = "hush" => ~MidFrame

\* The hold-off.  While the flag is down the channel is clear; and the emit thread,
\* unless it goes on with what it was already sending, is about to fill a buffer only
\* when its test found the channel clear.  It is the test that is promised here, not
\* the first sample: see NeverOverPeer.
HoldOff ==
  /\ ~rx_in_progress => Clear
  /\ emit_pc = "emit" /\ ~tx_in_progress => cleared

\* Refuted, "prevent collision" (driver_portaudio.c:40): no frame begins while the
\* receive thread says that the peer is sending.  The flag can go up between the test
\* and the emission; and a frame that ends on a buffer's edge leaves tx_in_progress
\* set, so that one queued behind it begins without a test of the flag.
NeverOverPeer ==
  device = "ok" /\ emit_pc = "emit" /\ pending > 0 /\ ~MidFrame => ~rx_in_progress

\* The flags and the interface are not freed under a running audio thread.
ThreadsJoined ==
  app_pc \in {"destroy", "gone"} => emit_pc = "exited" /\ recv_pc = "exited"

\* A pending transmission gets its turn once the channel falls silent.
TurnComes ==
  <>[](~frame_open /\ device = "ok" /\ app_pc = "running") => (pending > 0 ~> pending = 0)

\* Stopping returns if the device keeps accepting audio: emit_loop drains the
\* encoder and recv_loop comes back to its flag.
StopCompletes ==
  [](device = "ok") => (app_pc = "stop_recv" ~> app_pc = "gone")

\* The channel is shared as half duplex asks: no frame is broken up, a pause is ended
\* only by a test after the hold-off, and no thread outlives what it uses (emit_loop, recv_loop,
\* quiet_lwip_portaudio_stop_audio_threads).
ChannelShared == TypeOK /\ UnbrokenFrames /\ HoldOff /\ ThreadsJoined

=============================================================================
