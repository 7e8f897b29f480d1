----------------------------- MODULE AudioHost ------------------------------
(***************************************************************************)
(* The path of decoded audio to the TV's audio device: cb_audio_process    *)
(* and cb_audio_flush of native/src/airtizen_core.c, which the receiver's  *)
(* threads run under g_audio_lock, the NaCl AudioHost they call            *)
(* (native/nacl/receiver_module.cc), whose device only the main thread may *)
(* open, and the two ways the receiver is stopped: by the control HTTP     *)
(* thread, and by the destructor of ReceiverInstance on the main thread.   *)
(*                                                                         *)
(* Every section of code under AudioHost's mutex_ is one step.  A thread   *)
(* in Open() may wait for the main thread while it holds g_audio_lock.     *)
(*                                                                         *)
(* Data abstraction.  Of the queue only whether it is open and how many    *)
(* frames it holds is kept (AudioQueue models the rest); gain and PCM      *)
(* bytes are left out.  Formats Open() refuses and malformed PCM end in    *)
(* FormatRefused.  core_stop() is taken to find no session left, as the    *)
(* connections it joins have ended their sessions.                         *)
(***************************************************************************)
EXTENDS Integers

CONSTANTS
  Threads,   \* the receiver's threads, which raop_stop() joins
  Rates,     \* sample rates Open() accepts
  Channels,  \* channel counts
  Capacity,  \* AIRTIZEN_AUDIO_FRAMES
  MaxBlock,  \* bound: frames decoded at once
  Free       \* holder of a free g_audio_lock

ASSUME RatesAssumption == Rates \subseteq Nat \ {0}
ASSUME ChannelsAssumption == Channels \subseteq Nat \ {0}
ASSUME QueueAssumption == Capacity \in Nat \ {0} /\ MaxBlock \in Nat
ASSUME FreeAssumption == Free \notin Threads

VARIABLES
  rate_, channels_, desired_, result_, opened_, closing_, pending_,  \* AudioHost
  audio_,    \* the device: NoAudio, Silent, or the rate it plays at
  posted,    \* a call of Configure() is queued on the main thread
  open, count,   \* queue_
  holder,    \* of g_audio_lock
  pc,        \* of each thread
  format,    \* rate and channels each thread decodes
  left,      \* frames each thread has still to write
  outcome,   \* what each thread will put into g_state.audio
  audio,     \* g_state.audio
  main,      \* the main thread
  running,   \* g_raop: threads may be started
  stopper    \* who runs core_stop()

host == <<rate_, channels_, desired_, result_, opened_, closing_, pending_>>
queue == <<open, count>>
threads == <<holder, pc, format, left, outcome>>
stopping == <<running, stopper>>
vars == <<host, audio_, posted, queue, threads, audio, main, stopping>>

NoAudio == 0
Silent == -1

NoFormat == <<0, 0>>

Least(a, b) == IF a < b THEN a ELSE b

\* The constructor of AudioHost, and core_start().
Init ==
  /\ rate_ = 0 /\ channels_ = 0 /\ desired_ = 0 /\ result_ = -1
  /\ opened_ = FALSE /\ closing_ = FALSE /\ pending_ = FALSE
  /\ audio_ = NoAudio
  /\ posted = FALSE
  /\ open = FALSE /\ count = 0
  /\ holder = Free
  /\ pc = [t \in Threads |-> "idle"]
  /\ format = [t \in Threads |-> NoFormat]
  /\ left = [t \in Threads |-> 0]
  /\ outcome = [t \in Threads |-> "idle"]
  /\ audio = "idle"
  /\ main = "free"
  /\ running = TRUE
  /\ stopper = "none"

-----------------------------------------------------------------------------
(* cb_audio_process() *)

\* Up to g_audio_lock.
Process(t, rate, channels, frames) ==
  /\ running /\ pc[t] = "idle" /\ holder = Free
  /\ holder' = t
  /\ pc' = [pc EXCEPT ![t] = "open"]
  /\ format' = [format EXCEPT ![t] = <<rate, channels>>]
  /\ left' = [left EXCEPT ![t] = frames]
  /\ UNCHANGED <<host, audio_, posted, queue, outcome, audio, main, stopping>>

\* The thread gives g_audio_lock back; it has yet to tell how it went.
Release(t, how) ==
  /\ holder' = Free
  /\ pc' = [pc EXCEPT ![t] = "report"]
  /\ outcome' = [outcome EXCEPT ![t] = how]
  /\ format' = [format EXCEPT ![t] = NoFormat]

\* A sample format that cb_audio_process() or Open() refuses.
FormatRefused(t) ==
  /\ running /\ pc[t] = "idle"
  /\ pc' = [pc EXCEPT ![t] = "report"]
  /\ outcome' = [outcome EXCEPT ![t] = "failed"]
  /\ UNCHANGED <<host, audio_, posted, queue, holder, format, left, audio, main, stopping>>

\* The end of Open(): the queue starts empty.
Opened(t) ==
  /\ channels_' = format[t][2]
  /\ opened_' = TRUE
  /\ open' = TRUE /\ count' = 0
  /\ pc' = [pc EXCEPT ![t] = "write"]

\* Mutant: only the channels are compared.
SameFormat_anyRate(t) == opened_ /\ format[t][2] = channels_

\* The device is already open for this format.
SameFormat(t) == opened_ /\ format[t] = <<rate_, channels_>>

\* The rate is new, or there is no device.
NeedsDevice(t) == format[t][1] # rate_ \/ audio_ = NoAudio

\* Open() up to its return or its wait.
Open(t) ==
  /\ pc[t] = "open"
  /\ \/ /\ closing_
        /\ Release(t, "failed")
        /\ UNCHANGED <<host, posted, queue>>
     \/ /\ ~closing_ /\ SameFormat(t)
        /\ pc' = [pc EXCEPT ![t] = "write"]
        /\ UNCHANGED <<host, posted, queue, holder, format, outcome>>
     \/ /\ ~closing_ /\ ~SameFormat(t) /\ NeedsDevice(t)
        /\ desired_' = format[t][1]
        /\ pending_' = TRUE
        /\ posted' = TRUE
        /\ pc' = [pc EXCEPT ![t] = "wait"]
        /\ UNCHANGED <<rate_, channels_, result_, opened_, closing_, queue, holder, format, outcome>>
     \/ /\ ~closing_ /\ ~SameFormat(t) /\ ~NeedsDevice(t)
        /\ Opened(t)
        /\ UNCHANGED <<rate_, desired_, result_, closing_, pending_, posted, holder, format, outcome>>
  /\ UNCHANGED <<audio_, left, audio, main, stopping>>

\* Mutant: the wait looks at the result alone.
Woken_closingIgnored(t) == result_ = 0

\* What Open() needs to find after its wait.
Woken(t) == ~closing_ /\ result_ = 0

\* Open() after its wait on condition_.
OpenWakes(t) ==
  /\ pc[t] = "wait" /\ (~pending_ \/ closing_)
  /\ \/ /\ Woken(t)
        /\ Opened(t)
        /\ UNCHANGED <<holder, format, outcome>>
     \/ /\ ~Woken(t)
        /\ Release(t, "failed")
        /\ UNCHANGED <<channels_, opened_, queue>>
  /\ UNCHANGED <<rate_, desired_, result_, closing_, pending_, audio_, posted, left, audio,
                 main, stopping>>

\* The frames one write takes.
Taken(t) == IF open THEN Least(left[t], Capacity - count) ELSE 0

\* One call of airtizen_audio_write(): all, a part, or nothing is taken.
Write(t) ==
  /\ pc[t] = "write"
  /\ LET n == Taken(t)
     IN  /\ count' = count + n
         /\ left' = [left EXCEPT ![t] = @ - n]
         /\ \/ n = 0 /\ Release(t, "failed")
            \/ n > 0 /\ n = left[t] /\ Release(t, "playing")
            \/ n > 0 /\ n < left[t] /\ UNCHANGED <<holder, pc, format, outcome>>
  /\ UNCHANGED <<host, audio_, posted, open, audio, main, stopping>>

\* fail(), or the update of g_state that ends cb_audio_process().
Report(t) ==
  /\ pc[t] = "report"
  /\ pc' = [pc EXCEPT ![t] = "idle"]
  /\ audio' = outcome[t]
  /\ outcome' = [outcome EXCEPT ![t] = "idle"]
  /\ left' = [left EXCEPT ![t] = 0]
  /\ UNCHANGED <<host, audio_, posted, queue, holder, format, main, stopping>>

\* Close()
CloseHost == opened_' = FALSE /\ open' = FALSE /\ count' = 0

\* cb_audio_flush() up to the update of g_state.
Flush(t) ==
  /\ running /\ pc[t] = "idle" /\ holder = Free
  /\ CloseHost
  /\ pc' = [pc EXCEPT ![t] = "report"]
  /\ outcome' = [outcome EXCEPT ![t] = "idle"]
  /\ UNCHANGED <<rate_, channels_, desired_, result_, closing_, pending_, audio_, posted,
                 holder, format, left, audio, main, stopping>>

-----------------------------------------------------------------------------
(* The main thread and the device. *)

\* Configure() up to the unlock.
ConfigureBegin ==
  /\ main = "free" /\ posted
  /\ posted' = FALSE
  /\ main' = IF closing_ THEN "free" ELSE "configure"
  /\ UNCHANGED <<host, audio_, queue, threads, audio, stopping>>

\* Mutant: a device that fails wakes nobody.
ConfigureEnd_failsQuietly(device) ==
  /\ main = "configure"
  /\ main' = "free"
  /\ audio_' = device
  /\ result_' = IF device = desired_ THEN 0 ELSE -1
  /\ rate_' = IF device = desired_ THEN desired_ ELSE rate_
  /\ pending_' = (device # desired_)
  /\ UNCHANGED <<channels_, desired_, opened_, closing_, posted, queue, threads, audio, stopping>>

\* The rest of Configure(): the old device stops, the new one may fail to be made
\* or to start.  `rate' cannot have changed, as the thread that wants it waits.
ConfigureEnd(device) ==
  /\ main = "configure"
  /\ main' = "free"
  /\ audio_' = device
  /\ result_' = IF device = desired_ THEN 0 ELSE -1
  /\ rate_' = IF device = desired_ THEN desired_ ELSE rate_
  /\ pending_' = FALSE
  /\ UNCHANGED <<channels_, desired_, opened_, closing_, posted, queue, threads, audio, stopping>>

\* The device's callback, on the audio thread.
Render(frames) ==
  /\ audio_ \in Rates /\ open
  /\ count' = count - Least(frames, count)
  /\ UNCHANGED <<host, audio_, posted, open, threads, audio, main, stopping>>

\* ~ReceiverInstance: Shutdown() up to the unlock.
Shutdown ==
  /\ main = "free"
  /\ main' = "shutdown"
  /\ closing_' = TRUE
  /\ pending_' = FALSE
  /\ UNCHANGED <<rate_, channels_, desired_, result_, opened_, audio_, posted, queue, threads,
                 audio, stopping>>

\* The rest of Shutdown(): cancel the callbacks, drop the device, close the queue.
ShutdownEnd ==
  /\ main = "shutdown"
  /\ main' = "stop"
  /\ posted' = FALSE
  /\ audio_' = NoAudio
  /\ open' = FALSE /\ count' = 0
  /\ UNCHANGED <<host, threads, audio, stopping>>

-----------------------------------------------------------------------------
(* core_stop() and core_start(), under the runtime's lock. *)

\* raop_stop(): no thread starts anew.
StopBegin(who) ==
  /\ running /\ stopper = "none"
  /\ who = "main" => main = "stop"
  /\ stopper' = who
  /\ running' = FALSE
  /\ UNCHANGED <<host, audio_, posted, queue, threads, audio, main>>

\* The destructor finds the receiver stopped.
StopNothing ==
  /\ main = "stop" /\ ~running /\ stopper = "none"
  /\ main' = "stopped"
  /\ UNCHANGED <<host, audio_, posted, queue, threads, audio, stopping>>

\* pthread_join() of every thread has returned.
Quiet == \A t \in Threads : pc[t] = "idle"

\* core_stop() after the joins.
StopEnd ==
  /\ stopper # "none" /\ Quiet
  /\ stopper' = "none"
  /\ main' = IF stopper = "main" THEN "stopped" ELSE main
  /\ CloseHost
  /\ audio' = "idle"
  /\ UNCHANGED <<rate_, channels_, desired_, result_, closing_, pending_, audio_, posted,
                 threads, running>>

\* core_start() on the control HTTP thread.
Start ==
  /\ ~running /\ stopper = "none" /\ main # "done"
  /\ running' = TRUE
  /\ audio' = "idle"
  /\ UNCHANGED <<host, audio_, posted, queue, threads, main, stopper>>

\* The destructor has ended the control HTTP thread, which does not leave in the
\* middle of a stop, and returns.
Destroyed ==
  /\ main = "stopped" /\ stopper = "none"
  /\ main' = "done"
  /\ UNCHANGED <<host, audio_, posted, queue, threads, audio, stopping>>

ThreadStep(t) == Open(t) \/ OpenWakes(t) \/ Write(t) \/ Report(t)
MainStep == \/ ConfigureBegin
            \/ \E device \in {NoAudio, Silent, desired_} : ConfigureEnd(device)
            \/ ShutdownEnd
            \/ StopBegin("main")
            \/ StopNothing
            \/ Destroyed

Next ==
  \/ \E t \in Threads :
       \/ \E rate \in Rates, channels \in Channels, frames \in 1 .. MaxBlock :
            Process(t, rate, channels, frames)
       \/ FormatRefused(t)
       \/ Flush(t)
       \/ ThreadStep(t)
  \/ MainStep
  \/ Shutdown
  \/ \E frames \in 1 .. MaxBlock : Render(frames)
  \/ main # "done" /\ StopBegin("http")
  \/ StopEnd
  \/ Start

\* A thread goes on with a call it has begun, and the main thread runs what it was
\* given: nothing here blocks but the waits the guards state.
Fairness ==
  /\ \A t \in Threads : WF_vars(ThreadStep(t))
  /\ WF_vars(MainStep)
  /\ WF_vars(StopEnd)

Spec == Init /\ [][Next]_vars /\ Fairness

-----------------------------------------------------------------------------
(* Properties. *)

\* The flags are flags.
FlagsOK ==
  /\ opened_ \in BOOLEAN /\ closing_ \in BOOLEAN /\ pending_ \in BOOLEAN
  /\ posted \in BOOLEAN /\ open \in BOOLEAN /\ running \in BOOLEAN

\* A thread that waits for or writes to the device holds g_audio_lock.
LockKept == \A t \in Threads : pc[t] \in {"open", "wait", "write"} <=> holder = t

\* The type of the audio path's state, with the discipline of its lock.
TypeOK ==
  /\ FlagsOK
  /\ rate_ \in Rates \cup {0} /\ channels_ \in Channels \cup {0}
  /\ desired_ \in Rates \cup {0} /\ result_ \in {-1, 0}
  /\ audio_ \in Rates \cup {NoAudio, Silent}
  /\ count \in 0 .. Capacity
  /\ holder \in Threads \cup {Free}
  /\ pc \in [Threads -> {"idle", "open", "wait", "write", "report"}]
  /\ format \in [Threads -> (Rates \X Channels) \cup {NoFormat}]
  /\ left \in [Threads -> 0 .. MaxBlock]
  /\ outcome \in [Threads -> {"idle", "playing", "failed"}]
  /\ audio \in {"idle", "playing", "failed"}
  /\ main \in {"free", "configure", "shutdown", "stop", "stopped", "done"}
  /\ stopper \in {"none", "http", "main"}
  /\ LockKept

\* While a thread writes its frames, the queue takes them as the format they have
\* and, if the last device could be started, a device plays at their rate; no
\* flush or shutdown of another thread comes between, but the final one.
WritesInOwnFormat ==
  \A t \in Threads : pc[t] = "write" /\ ~closing_ =>
    /\ open
    /\ format[t] = <<rate_, channels_>>
    /\ result_ = 0 => audio_ = rate_

\* Once Shutdown() has returned, no thread that was waiting for the device or that
\* came later opens the queue again, and the device is gone for good.
ShutdownIsFinal == main \in {"stop", "stopped", "done"} => ~open /\ audio_ = NoAudio

\* Nobody waits for ever: Open() returns, although it needs the main thread, which may
\* be destroying the receiver, and the destructor gets past the joins of threads that
\* may be waiting for the main thread.
CoreStopReturns ==
  /\ \A t \in Threads : pc[t] = "wait" ~> pc[t] # "wait"
  /\ stopper # "none" ~> stopper = "none"

-----------------------------------------------------------------------------
(* The inductive invariant behind these properties. *)

\* closing_ is set for good when the main thread enters Shutdown(), after which the
\* main thread may run core_stop().
ClosingKept ==
  /\ closing_ <=> main \in {"shutdown", "stop", "stopped", "done"}
  /\ stopper = "main" => main = "stop"

\* One call of Configure() at a time is queued or under way, and only for a thread that
\* waits for it, at the rate it decodes; a thread that holds g_audio_lock has a format.
RequestKept ==
  /\ \A t \in Threads : holder = t => format[t] \in Rates \X Channels
  /\ \A t \in Threads : pc[t] = "wait" => desired_ = format[t][1]
  /\ ~closing_ /\ (posted \/ main = "configure") => pending_
  /\ ~(posted /\ main = "configure")
  /\ ~closing_ /\ pending_ => \E t \in Threads : pc[t] = "wait"

\* Until the shutdown, result_ tells whether the device plays at rate_, rate_ is the
\* last rate asked for unless a request is pending, and an opened host has an open queue.
DeviceKept ==
  ~closing_ => /\ result_ = 0 => audio_ = rate_
               /\ result_ = 0 /\ ~pending_ => rate_ = desired_
               /\ opened_ => open

IInv == /\ TypeOK /\ ClosingKept /\ RequestKept /\ DeviceKept
        /\ WritesInOwnFormat /\ ShutdownIsFinal
=============================================================================
