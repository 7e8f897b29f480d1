----------------------------- MODULE VideoHost ------------------------------
(***************************************************************************)
(* Mirrored video on the TV's hardware decoder: VideoHost of               *)
(* native/nacl/video_host.h, which the mirroring thread gives its          *)
(* configurations and frames (native/src/airtizen_video.c calls it outside *)
(* the store's lock), and the controller of app/js/video.js that turns it  *)
(* on and off by messages and falls back to HLS when it fails.             *)
(*                                                                         *)
(* Every section of code under mutex_ is a step of its own.  The decoder   *)
(* belongs to the main thread: Pump() and the callbacks of the platform    *)
(* run there, one at a time, but the mirroring thread may come between the *)
(* two sections of Pump().                                                 *)
(*                                                                         *)
(* Data abstraction.  A packet is a configuration, or a frame with the     *)
(* number of its configuration and its place after it.  Graphics calls     *)
(* that can fail are one choice; what is drawn and the bytes queued are    *)
(* left out (the limit on the number of packets is kept).  Messages that   *)
(* the controller ignores are left out.                                    *)
(***************************************************************************)
EXTENDS Naturals, Sequences, FiniteSets

CONSTANTS
  QueueLimit,   \* 12: packets queued
  MaxConfigs,   \* bound: configurations of the sender
  MaxFrames,    \* bound: frames of the sender
  MaxEvents     \* bound: stops, resets and calls of the platform that fail

ASSUME QueueLimitAssumption == QueueLimit \in Nat \ {0}
ASSUME BoundsAssumption ==
  MaxConfigs \in Nat /\ MaxFrames \in Nat /\ MaxEvents \in Nat

VARIABLES
  enabled_, posted_, configure_, reset_, failed_, queue_, config_,  \* under mutex_
  ready_, decoding_, painting_, pending_, first,  \* the main thread's (first: frames_ = 0)
  main,        \* free, at one of the steps of Pump() and Error(), or gone
  dispatched,  \* calls of Pump() queued on the main thread
  calls,       \* calls of the platform that have not come back, by kind
  decoder,     \* configuration the decoder was made for; 0: no decoder
  fed,         \* packets the decoder was given
  due,         \* frames decoded whose picture has not been fetched
  held,        \* pictures fetched and not given back
  stream,      \* the sender: configuration (0: none), frames after it and in all
  commands, messages,          \* between the controller and the module
  stopped, fallback, active,   \* the controller
  events

shared == <<enabled_, posted_, configure_, reset_, failed_, queue_, config_, dispatched>>
hardware == <<ready_, decoding_, painting_, pending_, first, calls, decoder, fed, due, held>>
controller == <<stopped, fallback, active>>
vars == <<shared, hardware, main, stream, commands, messages, controller, events>>

Kinds == {"initialize", "decode", "picture", "swap"}
NoCalls == [k \in Kinds |-> 0]
None == [config |-> 0, frame |-> 0]

Init ==
  /\ enabled_ = FALSE /\ posted_ = FALSE /\ configure_ = FALSE
  /\ reset_ = FALSE /\ failed_ = FALSE /\ queue_ = << >> /\ config_ = None
  /\ ready_ = FALSE /\ decoding_ = FALSE /\ painting_ = FALSE /\ pending_ = FALSE
  /\ first = TRUE
  /\ main = "free" /\ dispatched = 0 /\ calls = NoCalls
  /\ decoder = 0 /\ fed = << >> /\ due = 0 /\ held = 0
  /\ stream = [config |-> 0, frame |-> 0, sent |-> 0, configured |-> FALSE]
  /\ commands = << >> /\ messages = << >>
  /\ stopped = TRUE /\ fallback = FALSE /\ active = FALSE
  /\ events = 0

Say(state) == messages' = Append(messages, state)
Event == main # "gone" /\ events < MaxEvents /\ events' = events + 1

-----------------------------------------------------------------------------
(* The mirroring thread. *)

\* PostLocked(), in a section that leaves posted_ to it
PostLocked ==
  /\ posted_' = TRUE
  /\ dispatched' = IF posted_ THEN dispatched ELSE dispatched + 1

\* Mutant: frames of the last configuration stay.
Flushed_not == queue_

\* The queue of a stream that is configured again
Flushed == << >>

\* Configure(); the allocation may fail.
Configure ==
  /\ main # "gone" /\ stream.config < MaxConfigs
  /\ stream' = [stream EXCEPT !.config = @ + 1, !.frame = 0, !.configured = TRUE]
  /\ \/ /\ enabled_
        /\ config_' = [config |-> stream.config + 1, frame |-> 0]
        /\ queue_' = Flushed
        /\ configure_' = TRUE /\ reset_' = FALSE /\ failed_' = FALSE
        /\ PostLocked
        /\ UNCHANGED events
     \/ /\ enabled_
        /\ Event
        /\ failed_' = TRUE
        /\ PostLocked
        /\ UNCHANGED <<config_, queue_, configure_, reset_>>
     \/ /\ ~enabled_
        /\ UNCHANGED <<config_, queue_, configure_, reset_, failed_, posted_, dispatched, events>>
  /\ UNCHANGED <<enabled_, hardware, main, commands, messages, controller>>

Accepting == enabled_ /\ ~failed_ /\ ~reset_

Full == Len(queue_) >= QueueLimit

\* Frame(), for a stream that is configured; the allocation may fail.
Frame ==
  /\ main # "gone" /\ stream.configured /\ stream.sent < MaxFrames
  /\ stream' = [stream EXCEPT !.frame = @ + 1, !.sent = @ + 1]
  /\ \/ /\ Accepting /\ ~Full
        /\ queue_' = Append(queue_, [config |-> stream.config, frame |-> stream.frame + 1])
        /\ PostLocked
        /\ UNCHANGED <<failed_, events>>
     \/ /\ Accepting
        /\ (Full /\ UNCHANGED events) \/ (~Full /\ Event)
        /\ failed_' = TRUE
        /\ PostLocked
        /\ UNCHANGED queue_
     \/ /\ ~Accepting
        /\ UNCHANGED <<queue_, failed_, posted_, dispatched, events>>
  /\ UNCHANGED <<enabled_, configure_, reset_, config_, hardware, main, commands,
                 messages, controller>>

\* Reset(), after the store has been cleared.  It is called outside the store's lock, so the
\* mirroring thread may have configured the store and this host again since then: the host
\* then loses a stream that goes on.
Reset ==
  /\ Event
  /\ stream' \in {stream, [stream EXCEPT !.configured = FALSE]}
  /\ reset_' = TRUE /\ configure_' = FALSE
  /\ queue_' = << >> /\ config_' = None
  /\ PostLocked
  /\ UNCHANGED <<enabled_, failed_, hardware, main, commands, messages, controller>>

-----------------------------------------------------------------------------
(* The main thread. *)

\* Mutant: callbacks of the old decoder still come.
CloseDecoder_keepCalls ==
  /\ UNCHANGED calls
  /\ ready_' = FALSE /\ decoding_' = FALSE /\ painting_' = FALSE /\ pending_' = FALSE
  /\ due' = 0 /\ held' = 0 /\ fed' = << >>

\* CloseDecoder(), but for the decoder itself
CloseDecoder ==
  /\ calls' = NoCalls
  /\ ready_' = FALSE /\ decoding_' = FALSE /\ painting_' = FALSE /\ pending_' = FALSE
  /\ due' = 0 /\ held' = 0 /\ fed' = << >>

\* Mutant: the flag is cleared when the work has been taken.
Unposted_late == posted_

\* posted_ after the first section of Pump()
Unposted == FALSE

\* Pump() is called by a callback, or queued by PostLocked().
Dispatched == \/ main = "pump" /\ UNCHANGED dispatched
              \/ main = "free" /\ dispatched > 0 /\ dispatched' = dispatched - 1

\* Pump(): the first section, and what follows it on this thread.
PumpLook ==
  /\ Dispatched
  /\ posted_' = Unposted
  /\ reset_' = FALSE /\ configure_' = FALSE
  /\ \/ /\ reset_ \/ ~enabled_
        /\ CloseDecoder /\ decoder' = 0
        /\ Say("idle")
        /\ main' = "free"
        /\ UNCHANGED <<first, events>>
     \/ /\ ~reset_ /\ enabled_ /\ failed_
        /\ main' = "error"
        /\ UNCHANGED <<hardware, messages, events>>
     \/ /\ ~reset_ /\ enabled_ /\ ~failed_ /\ configure_
        /\ ready_' = FALSE /\ decoding_' = FALSE /\ painting_' = FALSE /\ pending_' = FALSE
        /\ due' = 0 /\ held' = 0 /\ fed' = << >>
        /\ first' = TRUE
        /\ \/ /\ decoder' = stream.config
              /\ calls' = [NoCalls EXCEPT !["initialize"] = 1]
              /\ main' = "free"
              /\ UNCHANGED events
           \/ /\ Event
              /\ decoder' = 0
              /\ calls' = NoCalls
              /\ main' = "error"
        /\ UNCHANGED messages
     \/ /\ ~reset_ /\ enabled_ /\ ~failed_ /\ ~configure_
        /\ main' = IF ready_ /\ ~decoding_ THEN "take" ELSE "free"
        /\ UNCHANGED <<hardware, messages, events>>
  /\ UNCHANGED <<enabled_, failed_, queue_, config_, stream, commands,
                 controller>>

Decode(packet) ==
  /\ decoding_' = TRUE
  /\ fed' = Append(fed, packet)
  /\ calls' = [calls EXCEPT !["decode"] = @ + 1]

\* Pump(): the second section takes the configuration or a frame.
PumpTake ==
  /\ main = "take"
  /\ main' = "free"
  /\ \/ config_ # None /\ Decode(config_) /\ config_' = None /\ UNCHANGED queue_
     \/ /\ config_ = None /\ queue_ # << >>
        /\ Decode(Head(queue_)) /\ queue_' = Tail(queue_)
        /\ UNCHANGED config_
     \/ config_ = None /\ queue_ = << >> /\ UNCHANGED <<decoding_, fed, calls, config_, queue_>>
  /\ UNCHANGED <<enabled_, posted_, configure_, reset_, failed_, dispatched, ready_,
                 painting_, pending_, first, decoder, due, held, stream, commands, messages,
                 controller, events>>

\* Error()
Error ==
  /\ main = "error"
  /\ main' = "free"
  /\ failed_' = TRUE
  /\ queue_' = << >>
  /\ ready_' = FALSE
  /\ Say("error")
  /\ UNCHANGED <<enabled_, posted_, configure_, reset_, config_, dispatched, decoding_,
                 painting_, pending_, first, calls, decoder, fed, due, held, stream, commands,
                 controller, events>>

Returned(kind) == [calls EXCEPT ![kind] = @ - 1]

\* A call of the platform fails: Initialized(), Decoded(), Picture() and Painted() with
\* an error.
CallFails(kind) ==
  /\ main = "free" /\ calls[kind] > 0
  /\ Event
  /\ calls' = Returned(kind)
  /\ decoding_' = (decoding_ /\ kind # "decode")
  /\ painting_' = (painting_ /\ kind # "swap")
  /\ main' = "error"
  /\ UNCHANGED <<shared, ready_, pending_, first, decoder, fed, due, held, stream, commands,
                 messages, controller>>

\* Initialized()
Initialized ==
  /\ main = "free" /\ calls["initialize"] > 0
  /\ calls' = [Returned("initialize") EXCEPT !["picture"] = @ + 1]
  /\ ready_' = TRUE
  /\ main' = "pump"
  /\ UNCHANGED <<shared, decoding_, painting_, pending_, first, decoder, fed, due, held, stream,
                 commands, messages, controller, events>>

\* Decoded()
Decoded ==
  /\ main = "free" /\ calls["decode"] > 0
  /\ calls' = Returned("decode")
  /\ decoding_' = FALSE
  /\ due' = IF fed # << >> /\ fed[Len(fed)].frame > 0 THEN due + 1 ELSE due
  /\ main' = "pump"
  /\ UNCHANGED <<shared, ready_, painting_, pending_, first, decoder, fed, held, stream, commands,
                 messages, controller, events>>

\* Mutant: the picture that waited is forgotten.
Recycled_never == 0

\* Pictures given back when another one comes to wait.
Recycled == IF pending_ THEN 1 ELSE 0

\* Picture(): the picture waits if another one is being painted; Paint() may fail.
Picture ==
  /\ main = "free" /\ calls["picture"] > 0 /\ due > 0
  /\ due' = due - 1
  /\ \/ /\ painting_
        /\ pending_' = TRUE
        /\ held' = held + 1 - Recycled
        /\ calls' = IF ready_ THEN calls ELSE Returned("picture")
        /\ UNCHANGED <<painting_, main, events>>
     \/ /\ ~painting_
        /\ painting_' = TRUE
        /\ held' = held + 1
        /\ calls' = [(IF ready_ THEN calls ELSE Returned("picture")) EXCEPT !["swap"] = @ + 1]
        /\ UNCHANGED <<pending_, main, events>>
     \/ /\ ~painting_
        /\ Event
        /\ calls' = Returned("picture")
        /\ main' = "error"
        /\ UNCHANGED <<painting_, pending_, held>>
  /\ UNCHANGED <<shared, ready_, decoding_, first, decoder, fed, stream, commands, messages,
                 controller>>

\* Painted(): give the picture back, tell of the first one (and of every
\* thirtieth: any of the others), paint the one that waits.
Painted ==
  /\ main = "free" /\ calls["swap"] > 0
  /\ Say("playing") \/ (~first /\ UNCHANGED messages)
  /\ first' = FALSE
  /\ pending_' = FALSE
  /\ \/ /\ pending_
        /\ held' = held - 1
        /\ UNCHANGED <<painting_, calls, main, events>>
     \/ /\ pending_
        /\ Event
        /\ held' = held - 2
        /\ painting_' = FALSE
        /\ calls' = Returned("swap")
        /\ main' = "error"
     \/ /\ ~pending_
        /\ held' = held - 1
        /\ painting_' = FALSE
        /\ calls' = Returned("swap")
        /\ UNCHANGED <<main, events>>
  /\ UNCHANGED <<shared, ready_, decoding_, decoder, fed, due, stream, commands, controller>>

\* HandleMessage(): Enable()
Enable ==
  /\ main = "free" /\ commands # << >>
  /\ commands' = Tail(commands)
  /\ enabled_' = (Head(commands) = "on")
  /\ reset_' = TRUE /\ configure_' = FALSE /\ failed_' = FALSE
  /\ queue_' = << >> /\ config_' = None
  /\ PostLocked
  /\ UNCHANGED <<hardware, main, stream, messages, controller, events>>

\* Shutdown(), by the destructor of ReceiverInstance, which then forgets the host: later
\* calls find closing_ or no host, and the page that would send messages is gone.
Shutdown ==
  /\ main = "free" /\ Event
  /\ main' = "gone"
  /\ enabled_' = FALSE
  /\ queue_' = << >>
  /\ dispatched' = 0
  /\ CloseDecoder /\ decoder' = 0
  /\ UNCHANGED <<posted_, configure_, reset_, failed_, config_, first, stream, commands,
                 messages, controller>>

-----------------------------------------------------------------------------
(* The controller. *)

\* AirTizenVideo.start(), with the module loaded
UiStart ==
  /\ stopped /\ main # "gone"
  /\ stopped' = FALSE /\ fallback' = FALSE
  /\ commands' = Append(commands, "on")
  /\ UNCHANGED <<shared, hardware, main, stream, messages, active, events>>

\* detach(), if attached
Detach == /\ commands' = IF fallback \/ stopped THEN commands ELSE Append(commands, "off")
          /\ active' = FALSE

\* AirTizenVideo.stop()
UiStop ==
  /\ ~stopped /\ Event
  /\ stopped' = TRUE
  /\ Detach
  /\ UNCHANGED <<shared, hardware, main, stream, messages, fallback>>

\* Mutant: a failed decoder is left on.
FallBack_attached ==
  /\ fallback' = TRUE
  /\ active' = FALSE
  /\ UNCHANGED <<stopped, commands>>

\* useFallback()
FallBack ==
  /\ fallback' = TRUE
  /\ Detach
  /\ UNCHANGED stopped

\* message()
UiMessage ==
  /\ main # "gone" /\ messages # << >>
  /\ messages' = Tail(messages)
  /\ IF stopped \/ fallback
     THEN UNCHANGED <<controller, commands>>
     ELSE \/ Head(messages) = "playing" /\ active' = TRUE /\ UNCHANGED <<stopped, fallback, commands>>
          \/ Head(messages) = "idle" /\ active' = FALSE /\ UNCHANGED <<stopped, fallback, commands>>
          \/ Head(messages) = "error" /\ FallBack
  /\ UNCHANGED <<shared, hardware, main, stream, events>>

MainStep ==
  \/ PumpLook \/ PumpTake \/ Error \/ Enable
  \/ Initialized \/ Decoded \/ Picture \/ Painted

Next ==
  \/ Configure \/ Frame \/ Reset
  \/ MainStep
  \/ \E kind \in Kinds : CallFails(kind)
  \/ Shutdown
  \/ UiStart \/ UiStop \/ UiMessage

\* The main thread does not stand still with something to do (a queued call, an answer
\* of the platform, a message), and events reach the page.
Fairness == WF_vars(MainStep) /\ WF_vars(UiMessage)

Spec == Init /\ [][Next]_vars /\ Fairness

-----------------------------------------------------------------------------
(* Properties. *)

Packet == [config : Nat, frame : Nat]

\* The flags are flags.
FlagsOK ==
  /\ enabled_ \in BOOLEAN /\ posted_ \in BOOLEAN /\ configure_ \in BOOLEAN
  /\ reset_ \in BOOLEAN /\ failed_ \in BOOLEAN
  /\ ready_ \in BOOLEAN /\ decoding_ \in BOOLEAN /\ painting_ \in BOOLEAN
  /\ pending_ \in BOOLEAN /\ first \in BOOLEAN
  /\ stopped \in BOOLEAN /\ fallback \in BOOLEAN /\ active \in BOOLEAN

\* The type of what the main thread and its calls keep.
HardwareOK ==
  /\ main \in {"free", "pump", "take", "error", "gone"}
  /\ calls \in [Kinds -> Nat]
  /\ dispatched \in Nat /\ decoder \in 0 .. MaxConfigs /\ held \in Nat /\ due \in Nat
  /\ stream \in [config : 0 .. MaxConfigs, frame : Nat, sent : Nat, configured : BOOLEAN]

\* The type of what is queued; the packets keep to their limit.
QueuesOK ==
  /\ queue_ \in Seq(Packet) /\ Len(queue_) <= QueueLimit
  /\ config_ \in Packet /\ fed \in Seq(Packet)
  /\ commands \in Seq({"on", "off"}) /\ messages \in Seq({"idle", "playing", "error"})
  /\ events \in 0 .. MaxEvents

TypeOK == FlagsOK /\ HardwareOK /\ QueuesOK

\* What the platform allows: one initialization, one decoding, one picture asked for
\* and one swap at a time, all of the decoder there is; the flags know which.
OneOfEachCall ==
  /\ \A k \in Kinds : calls[k] <= 1
  /\ decoder = 0 => calls = NoCalls
  /\ calls["decode"] = 1 <=> decoding_
  /\ calls["swap"] = 1 <=> painting_
  /\ ready_ /\ main # "error" => calls["picture"] = 1 /\ calls["initialize"] = 0

\* "pending-picture recycling" (docs/DIRECT_VIDEO_VALIDATION.md:28): a decoder that
\* works has back every picture but the one on its way to the screen and the one
\* that waits, so it never runs out of them.
PicturesReturn ==
  ready_ /\ main # "error" =>
    held = (IF painting_ THEN 1 ELSE 0) + (IF pending_ THEN 1 ELSE 0)

\* No wakeup is lost: a decoder that could take something that waits for it is about
\* to, however posted_ was set and cleared.
NoLostWakeup ==
  ready_ /\ ~decoding_ /\ ~failed_ /\ (config_ # None \/ queue_ # << >>) =>
    dispatched > 0 \/ main \in {"pump", "take", "error"}

Frames(packets, n) == Cardinality({i \in 1 .. n : packets[i].frame > 0})

\* Frames never meet the decoder of another configuration, and none is left out or
\* given twice: the n-th frame that a decoder gets is the n-th of its configuration.
FramesInOrder ==
  \A n \in DOMAIN fed :
    fed[n].frame > 0 => fed[n] = [config |-> decoder, frame |-> Frames(fed, n)]

\* "decoder failure selects TV-local HLS" (docs/DIRECT_VIDEO_VALIDATION.md:47): when
\* the decoder fails the controller falls back and the decoder is given up, however
\* the error crosses a configuration, a reset, a stop or a start.
FallbackTakesOver ==
  main = "error" /\ ~stopped ~>
    stopped \/ main = "gone" \/ (fallback /\ ~enabled_ /\ decoder = 0)

-----------------------------------------------------------------------------
(* The inductive invariant behind these. *)

\* What the main thread's own state says of its calls: a decoder that is being
\* initialized has done nothing else, and only a decoder that is ready is fed.
CallsKept ==
  /\ calls["initialize"] = 1 => /\ ~ready_ /\ ~decoding_ /\ ~painting_ /\ ~pending_
                                /\ calls["picture"] = 0 /\ held = 0
  /\ ready_ => decoder # 0
  /\ main = "take" => ready_ /\ ~decoding_
  /\ main = "gone" => ~ready_
  /\ configure_ => stream.config # 0

\* Pictures that are painted or wait are held, also by a decoder that has failed.
HeldKept == held >= (IF painting_ THEN 1 ELSE 0) + (IF pending_ THEN 1 ELSE 0)

\* posted_ stands for a call of Pump() that is queued.
PostKept == posted_ /\ main # "gone" => dispatched > 0

\* Packets are frames n + 1, n + 2 and so on of a configuration.
Follow(packets, config, n) ==
  \A i \in DOMAIN packets : packets[i] = [config |-> config, frame |-> n + i]

\* What waits in the queue goes on where the decoder is, or begins the configuration that
\* the next decoder is made for; and the sender goes on where the queue ends.
OrderKept ==
  /\ config_.frame = 0
  /\ main = "take" /\ configure_ => config_ # None
  /\ configure_ /\ main # "gone" => enabled_ /\ ~reset_
  /\ configure_ /\ ~failed_ /\ main # "gone" =>
       Follow(queue_, stream.config, 0) /\ stream.frame = Len(queue_)
  /\ decoder # 0 /\ ~configure_ /\ main # "error" =>
       /\ Follow(queue_, decoder, Frames(fed, Len(fed)))
       /\ Accepting => /\ stream.config = decoder
                       /\ stream.frame = Frames(fed, Len(fed)) + Len(queue_)
  /\ FramesInOrder

IInv == /\ FlagsOK /\ HardwareOK /\ CallsKept /\ HeldKept /\ PostKept
        /\ OneOfEachCall /\ PicturesReturn /\ NoLostWakeup
=============================================================================
