---------------------------- MODULE MirrorStream ----------------------------
(***************************************************************************)
(* The mirroring receive thread (native/ports/airtizen_mirror_receive.inc) *)
(* composed with the video store it feeds through cb_video_process and     *)
(* cb_video_flush (native/src/airtizen_core.c).                            *)
(*                                                                         *)
(* A sender sets the mirror up over RTSP (raop_rtp_start_mirror,           *)
(* raop_rtp_mirror_stop), then opens TCP channels on which configurations  *)
(* and frames arrive; the thread serves one channel after the other and    *)
(* looks at `running' before every read.  Frames carry the sender's clock, *)
(* which the thread turns into times since the first frame.                *)
(*                                                                         *)
(* Data abstraction.  A payload is its kind, and for a frame whether it is *)
(* a key frame, the sender's time and the size of its fragment; encryption *)
(* and the AVCC conversion are left out, except that a packet the thread   *)
(* finds malformed ends it.  Empty packets and unknown types are skipped   *)
(* by the code and left out.                                               *)
(***************************************************************************)
EXTENDS VideoStore

CONSTANTS
  Clock,        \* times the sender's clock shows, in microseconds
  StopRoom      \* bound: generations kept for the resets that end a session

ASSUME ClockAssumption == Clock \subseteq Nat
ASSUME StopRoomAssumption == StopRoom \in Nat

VARIABLES
  running,  \* receiver->running
  joined,   \* receiver->joined
  worker,   \* the thread: dead, between packets, or with a packet in hand
  client,   \* client >= 0: a channel is open
  base      \* the time that counts as 0; -1 while have_base is 0

thread == <<running, joined, worker, client, base>>
mirror_vars == <<vars, thread>>

InitMirror ==
  /\ Init
  /\ running = FALSE
  /\ joined = TRUE
  /\ worker = "dead"
  /\ client = FALSE
  /\ base = -1

-----------------------------------------------------------------------------
(* The RTSP side. *)

\* raop_rtp_start_mirror()
StartMirror ==
  /\ ~running /\ joined
  /\ generation + StopRoom < MaxGeneration
  /\ running' = TRUE
  /\ joined' = FALSE
  /\ worker' = "idle"
  /\ client' = FALSE
  /\ base' = -1
  /\ UNCHANGED vars

\* raop_rtp_mirror_stop() up to the join.
StopMirror ==
  /\ running /\ ~joined
  /\ running' = FALSE
  /\ UNCHANGED <<vars, joined, worker, client, base>>

\* raop_rtp_mirror_stop() once the thread has been joined: flush the video.
StopJoined ==
  /\ ~running /\ ~joined /\ worker = "dead"
  /\ joined' = TRUE
  /\ Reset
  /\ UNCHANGED <<running, worker, client, base>>

-----------------------------------------------------------------------------
(* The receive thread. *)

Accept ==
  /\ worker = "idle" /\ running /\ ~client
  /\ client' = TRUE
  /\ UNCHANGED <<vars, running, joined, worker, base>>

\* airtizen_mirror_read() has returned header and payload.
TakePacket ==
  /\ worker = "idle" /\ running /\ client
  /\ generation + StopRoom < MaxGeneration
  /\ worker' = "packet"
  /\ UNCHANGED <<vars, running, joined, client, base>>

\* Mutant: an ended channel keeps its video.
ChannelClosed_noFlush ==
  /\ worker = "idle" /\ client
  /\ client' = FALSE
  /\ base' = -1
  /\ UNCHANGED <<vars, running, joined, worker>>

\* The sender ended the channel, or airtizen_mirror_read() found ~running.
ChannelClosed ==
  /\ worker = "idle" /\ client
  /\ running => generation + StopRoom < MaxGeneration
  /\ client' = FALSE
  /\ base' = -1
  /\ Reset
  /\ UNCHANGED <<running, joined, worker>>

\* Mutant: only a thread that waits for a channel looks at `running'.
Exit_betweenChannels ==
  /\ worker = "idle" /\ ~running /\ ~client
  /\ worker' = "dead"
  /\ client' = FALSE
  /\ UNCHANGED <<vars, running, joined, base>>

\* The loop finds ~running and closes what is open.
Exit ==
  /\ worker = "idle" /\ ~running
  /\ worker' = "dead"
  /\ client' = FALSE
  /\ UNCHANGED <<vars, running, joined, base>>

\* A malformed packet, a failed allocation or a listener error ends the thread,
\* and with it the channel, but neither the session nor its video.
Abort ==
  /\ \/ worker = "packet"
     \/ worker = "idle" /\ ~client
  /\ worker' = "dead"
  /\ client' = FALSE
  /\ UNCHANGED <<vars, running, joined, base>>

\* A configuration: the clock starts again with the next frame.
ReceiveConfig ==
  /\ worker = "packet"
  /\ worker' = "idle"
  /\ base' = -1
  /\ Configure
  /\ UNCHANGED <<running, joined, client>>

\* The base of a frame's time: the first frame, or a clock that went back.
Based(micros) == IF base = -1 \/ micros < base THEN micros ELSE base

\* A frame; cb_video_process hands it to airtizen_video_frame().
ReceiveFrame(key, micros, size) ==
  /\ worker = "packet"
  /\ worker' = "idle"
  /\ base' = Based(micros)
  /\ LET pts == micros - Based(micros)
     IN  \/ FrameStored(key, pts, size)
         \/ FrameFailed(key, pts)
         \/ FrameDropped(key, pts)
  /\ UNCHANGED <<running, joined, client>>

\* PUT /photo dismisses the mirror on the HTTP thread, whatever the receive
\* thread is doing.
Dismissed ==
  /\ generation + StopRoom < MaxGeneration
  /\ Reset
  /\ UNCHANGED thread

NextMirror ==
  \/ StartMirror \/ StopMirror \/ StopJoined \/ Dismissed
  \/ Accept \/ TakePacket \/ ChannelClosed \/ Exit \/ Abort \/ ReceiveConfig
  \/ \E key \in BOOLEAN, micros \in Clock, size \in Sizes : ReceiveFrame(key, micros, size)

\* The thread polls `running' every 250 ms and finishes the packet it has; a stop
\* that was begun goes on.  Nothing is assumed of the sender.
Handled == \/ Abort \/ ReceiveConfig
           \/ \E key \in BOOLEAN, micros \in Clock, size \in Sizes :
                ReceiveFrame(key, micros, size)
FairMirror == WF_mirror_vars(Exit) /\ WF_mirror_vars(Handled) /\ WF_mirror_vars(StopJoined)

SpecMirror == InitMirror /\ [][NextMirror]_mirror_vars /\ FairMirror

-----------------------------------------------------------------------------
(* Properties. *)

\* No video outlives its channel: while the thread waits for the next one, and
\* after a stop has returned, the store is empty, whatever packet the thread had
\* in hand when the stop came (airtizen_mirror_receive.inc:20-24, 46-48).
EndedChannelShowsNothing ==
  joined \/ (worker = "idle" /\ ~client) => ~config /\ latest = 0

\* "Stop must interrupt a partial read without hanging"
\* (tests/test_mirror_reconnect.c): a stop returns, even while the sender is
\* silent in the middle of a packet or after the thread has given up.
StopReturns == (~running /\ ~joined) ~> joined

\* "A new clip may restart its timestamp clock without ending RTSP"
\* (airtizen_mirror_receive.inc:68): a frame whose clock went back is stored like
\* any other, unless storing fails.
RestartedClipShown ==
  [][base # -1 /\ base' # -1 /\ base' < base /\ mux =>
       latest' = latest + 1 \/ generation' # generation]_mirror_vars

-----------------------------------------------------------------------------
(* What, beside the store's IInv, makes EndedChannelShowsNothing inductive: a packet *)
(* can only configure or feed a store whose channel is open and whose thread has not *)
(* been joined.                                                                      *)

MirrorKept ==
  /\ base \in Nat \cup {-1}
  /\ joined => worker = "dead"
  /\ worker = "packet" => client
  /\ EndedChannelShowsNothing
=============================================================================
