-------------------------- MODULE AudioHostProofs ---------------------------
(***************************************************************************)
(* Proofs about AudioHost, for every set of threads, sample rates and      *)
(* channel counts, every queue length and every block length.              *)
(*                                                                         *)
(* The argument.  g_audio_lock lets one thread at a time into Open() and   *)
(* the writes, so a request to the main thread is always that thread's     *)
(* own: RequestKept ties the one call of Configure() that is queued or     *)
(* under way to the one thread that waits.  So neither rate_ nor the       *)
(* device changes while another thread writes, and when the waiting thread *)
(* finds result_ = 0, rate_ is the rate it asked for (DeviceKept).  After  *)
(* closing_ is set nothing opens the queue or the device (ClosingKept).    *)
(***************************************************************************)
EXTENDS AudioHost, TLAPS

USE RatesAssumption, ChannelsAssumption, QueueAssumption, FreeAssumption

\* The flags stay flags.
LEMMA FlagStep == FlagsOK /\ [Next]_vars => FlagsOK'
<1> SUFFICES ASSUME FlagsOK, [Next]_vars PROVE FlagsOK' OBVIOUS
<1> USE DEF FlagsOK, host, queue, threads, stopping
<1>1. ASSUME NEW t \in Threads, NEW rate \in Rates, NEW channels \in Channels,
             NEW frames \in 1 .. MaxBlock, Process(t, rate, channels, frames)
      PROVE  FlagsOK'
  BY <1>1, Zenon DEF Process
<1>2. ASSUME NEW t \in Threads, FormatRefused(t) PROVE FlagsOK'
  BY <1>2, Zenon DEF FormatRefused
<1>3. ASSUME NEW t \in Threads, Flush(t) PROVE FlagsOK'
  BY <1>3, Zenon DEF Flush, CloseHost
<1>4. ASSUME NEW t \in Threads, Open(t) PROVE FlagsOK'
  BY <1>4, Zenon DEF Open, Opened
<1>5. ASSUME NEW t \in Threads, OpenWakes(t) PROVE FlagsOK'
  BY <1>5, Zenon DEF OpenWakes, Opened
<1>6. ASSUME NEW t \in Threads, Write(t) \/ Report(t) PROVE FlagsOK'
  BY <1>6, Zenon DEF Write, Report
<1>7. CASE ConfigureBegin \/ Shutdown \/ ShutdownEnd
  BY <1>7, Zenon DEF ConfigureBegin, Shutdown, ShutdownEnd
<1>8. ASSUME NEW device \in {NoAudio, Silent, desired_}, ConfigureEnd(device) PROVE FlagsOK'
  BY <1>8, Zenon DEF ConfigureEnd
<1>9. ASSUME NEW frames \in 1 .. MaxBlock, Render(frames) PROVE FlagsOK'
  BY <1>9, Zenon DEF Render
<1>10. ASSUME NEW who \in {"http", "main"}, StopBegin(who) PROVE FlagsOK'
  BY <1>10, Zenon DEF StopBegin
<1>11. CASE StopNothing \/ StopEnd \/ Start \/ Destroyed
  BY <1>11, Zenon DEF StopNothing, StopEnd, CloseHost, Start, Destroyed
<1>12. CASE UNCHANGED vars BY <1>12, Zenon DEF vars
<1>13. QED
  BY <1>1, <1>2, <1>3, <1>4, <1>5, <1>6, <1>7, <1>8, <1>9, <1>10, <1>11, <1>12
  DEF Next, ThreadStep, MainStep

\* The idle receiver satisfies the invariant.
LEMMA InitIInv == Init => IInv
<1> SUFFICES ASSUME Init PROVE IInv OBVIOUS
<1>1. FlagsOK BY Zenon DEF Init, FlagsOK
<1>2. TypeOK BY <1>1 DEF Init, TypeOK, LockKept, NoAudio, NoFormat
<1>3. ClosingKept /\ RequestKept /\ DeviceKept
  BY DEF Init, ClosingKept, RequestKept, DeviceKept
<1>4. WritesInOwnFormat /\ ShutdownIsFinal BY DEF Init, WritesInOwnFormat, ShutdownIsFinal
<1>5. QED BY <1>1, <1>2, <1>3, <1>4 DEF IInv

\* Every step of a receiver thread, of the main thread, of the device and of a stop
\* or start keeps the invariant.
LEMMA NextIInv == IInv /\ [Next]_vars => IInv'
<1> SUFFICES ASSUME IInv, [Next]_vars PROVE IInv' OBVIOUS
<1>flags. FlagsOK' BY FlagStep DEF IInv, TypeOK
<1> USE <1>flags DEF IInv, TypeOK, LockKept, ClosingKept, RequestKept, DeviceKept,
        WritesInOwnFormat, ShutdownIsFinal,
        NoAudio, Silent, NoFormat, host, queue, threads, stopping
<1>1. ASSUME NEW t \in Threads, NEW rate \in Rates, NEW channels \in Channels,
             NEW frames \in 1 .. MaxBlock, Process(t, rate, channels, frames)
      PROVE  IInv'
  BY <1>1 DEF Process
<1>2. ASSUME NEW t \in Threads, FormatRefused(t) PROVE IInv'
  BY <1>2 DEF FormatRefused
<1>3. ASSUME NEW t \in Threads, Flush(t) PROVE IInv'
  BY <1>3 DEF Flush, CloseHost
<1>4. ASSUME NEW t \in Threads, Open(t) PROVE IInv'
  <2>1. holder = t /\ format[t] \in Rates \X Channels BY <1>4 DEF Open
  <2>2. CASE closing_ BY <1>4, <2>1, <2>2 DEF Open, Release
  <2>3. CASE ~closing_ /\ SameFormat(t)
    <3>1. /\ pc' = [pc EXCEPT ![t] = "write"]
          /\ UNCHANGED <<host, posted, queue, holder, format, outcome>>
      BY <1>4, <2>3 DEF Open
    <3>2. opened_ /\ format[t] = <<rate_, channels_>> BY <2>3 DEF SameFormat
    <3>3. QED BY <1>4, <2>1, <2>3, <3>1, <3>2 DEF Open
  <2>4. CASE ~closing_ /\ ~SameFormat(t) /\ NeedsDevice(t)
    <3>1. ~pending_ /\ ~posted /\ main # "configure" BY <1>4, <2>1, <2>4 DEF Open
    <3>2. QED BY <1>4, <2>1, <2>4, <3>1 DEF Open
  <2>5. CASE ~closing_ /\ ~SameFormat(t) /\ ~NeedsDevice(t)
    BY <1>4, <2>1, <2>5 DEF Open, Opened, NeedsDevice
  <2>6. QED BY <2>2, <2>3, <2>4, <2>5
<1>5. ASSUME NEW t \in Threads, OpenWakes(t) PROVE IInv'
  <2>1. holder = t /\ format[t] \in Rates \X Channels /\ desired_ = format[t][1]
    BY <1>5 DEF OpenWakes
  <2>2. CASE Woken(t)
    <3>1. ~closing_ /\ ~pending_ /\ rate_ = desired_ /\ audio_ = rate_
      BY <1>5, <2>2 DEF OpenWakes, Woken
    <3>2. QED BY <1>5, <2>1, <2>2, <3>1 DEF OpenWakes, Opened
  <2>3. CASE ~Woken(t) BY <1>5, <2>1, <2>3 DEF OpenWakes, Release
  <2>4. QED BY <2>2, <2>3
<1>6. ASSUME NEW t \in Threads, Write(t) PROVE IInv'
  BY <1>6 DEF Write, Release, Taken, Least
<1>7. ASSUME NEW t \in Threads, Report(t) PROVE IInv'
  BY <1>7 DEF Report
<1>8. CASE ConfigureBegin BY <1>8 DEF ConfigureBegin
<1>9. ASSUME NEW device \in {NoAudio, Silent, desired_}, ConfigureEnd(device) PROVE IInv'
  <2>1. ~closing_ /\ pending_ /\ ~posted BY <1>9 DEF ConfigureEnd
  <2>2. PICK t \in Threads : pc[t] = "wait" BY <2>1
  <2>3. \A u \in Threads : pc[u] # "write" BY <2>2
  <2>4. desired_ \in Rates BY <2>2
  <2>5. QED BY <1>9, <2>1, <2>3, <2>4 DEF ConfigureEnd
<1>10. ASSUME NEW frames \in 1 .. MaxBlock, Render(frames) PROVE IInv'
  BY <1>10 DEF Render, Least
<1>11. CASE Shutdown BY <1>11 DEF Shutdown
<1>12. CASE ShutdownEnd BY <1>12 DEF ShutdownEnd
<1>13. ASSUME NEW who \in {"http", "main"}, StopBegin(who) PROVE IInv'
  BY <1>13 DEF StopBegin
<1>14. CASE StopNothing BY <1>14 DEF StopNothing
<1>15. CASE StopEnd BY <1>15 DEF StopEnd, CloseHost, Quiet
<1>16. CASE Start BY <1>16 DEF Start
<1>17. CASE Destroyed BY <1>17 DEF Destroyed
<1>18. CASE UNCHANGED vars BY <1>18 DEF vars
<1>19. QED
  BY <1>1, <1>2, <1>3, <1>4, <1>5, <1>6, <1>7, <1>8, <1>9, <1>10, <1>11, <1>12, <1>13,
     <1>14, <1>15, <1>16, <1>17, <1>18
  DEF Next, ThreadStep, MainStep

-----------------------------------------------------------------------------
(* The theorems. *)

\* IInv holds in every reachable state of the audio path.
THEOREM HostInvariant == Spec => []IInv
  BY InitIInv, NextIInv, PTL DEF Spec

\* The audio path keeps its types, the queue its capacity, and a thread that waits for
\* or writes to the device is the one that holds g_audio_lock.
THEOREM HostTypes == Spec => []TypeOK
<1>1. IInv => TypeOK BY DEF IInv
<1>2. QED BY HostInvariant, <1>1, PTL

\* However many threads decode at however many rates, frames are written in the format
\* the queue and the device were opened for.
THEOREM HostWrites == Spec => []WritesInOwnFormat
<1>1. IInv => WritesInOwnFormat BY DEF IInv
<1>2. QED BY HostInvariant, <1>1, PTL

\* After Shutdown() no thread, woken late or come later, brings queue or device back.
THEOREM HostShutdown == Spec => []ShutdownIsFinal
<1>1. IInv => ShutdownIsFinal BY DEF IInv
<1>2. QED BY HostInvariant, <1>1, PTL
=============================================================================
