----------------------------- MODULE AudioQueue -----------------------------
(***************************************************************************)
(* The ring of native/nacl/audio_queue.c between the decoder thread, which *)
(* writes, and the PPAPI audio thread, which renders.  Every operation     *)
(* holds the queue's mutex throughout, so each is one step.                *)
(*                                                                         *)
(* Data abstraction.  A frame is one stereo pair of samples, one value; a  *)
(* mono frame is the pair of its sample with itself.  A write passes whole *)
(* frames (cb_audio_process refuses others).  The counters of underruns    *)
(* and rendered frames are diagnostics and left out.                       *)
(***************************************************************************)
EXTENDS Integers, Sequences

CONSTANTS Frames, Silence, Capacity, MaxBlock

ASSUME CapacityAssumption == Capacity \in Nat \ {0}
ASSUME MaxBlockAssumption == MaxBlock \in Nat
ASSUME SilenceAssumption == Silence \in Frames

VARIABLES
  open,
  samples,     \* the ring
  read_frame,  \* index of the oldest frame
  count,       \* frames queued
  result,      \* what the last write returned, in frames
  out          \* what the last render filled the device's buffer with

vars == <<open, samples, read_frame, count, result, out>>

Indices == 0 .. Capacity - 1
Least(a, b) == IF a < b THEN a ELSE b
Blocks == UNION {[1 .. n -> Frames] : n \in 0 .. MaxBlock}

\* airtizen_audio_queue_init()
Init ==
  /\ open = FALSE
  /\ samples = [i \in Indices |-> Silence]
  /\ read_frame = 0
  /\ count = 0
  /\ result = 0
  /\ out = << >>

\* airtizen_audio_queue_open(), with one or two channels
Open ==
  /\ open' = TRUE
  /\ read_frame' = 0
  /\ count' = 0
  /\ UNCHANGED <<samples, result, out>>

\* airtizen_audio_queue_close()
Close ==
  /\ open' = FALSE
  /\ read_frame' = 0
  /\ count' = 0
  /\ UNCHANGED <<samples, result, out>>

\* How many frames of a block fit.
Accepted(block) == Least(Len(block), Capacity - count)

\* Mutant: frames are written from the oldest one on.
Filled_fromOldest(block, i) == ((i - read_frame) % Capacity) + 1

\* The position in the block of the frame that is written to slot i, which is
\* read_frame + count + position - 1 modulo the capacity.
Filled(block, i) == ((i - read_frame - count) % Capacity) + 1

\* airtizen_audio_queue_write()
Write(block) ==
  \/ /\ ~open
     /\ result' = -1
     /\ UNCHANGED <<open, samples, read_frame, count, out>>
  \/ /\ open
     /\ samples' = [i \in Indices |->
          IF Filled(block, i) <= Accepted(block) THEN block[Filled(block, i)]
          ELSE samples[i]]
     /\ count' = count + Accepted(block)
     /\ result' = Accepted(block)
     /\ UNCHANGED <<open, read_frame, out>>

\* The slot of the i-th frame queued.
Index(i) == (read_frame + i - 1) % Capacity

\* airtizen_audio_queue_render()
Render(frames) ==
  \/ /\ ~open
     /\ out' = [i \in 1 .. frames |-> Silence]
     /\ UNCHANGED <<open, samples, read_frame, count, result>>
  \/ /\ open
     /\ LET n == Least(frames, count)
        IN  /\ out' = [i \in 1 .. frames |->
                 IF i <= n THEN samples[Index(i)] ELSE Silence]
            /\ read_frame' = (read_frame + n) % Capacity
            /\ count' = count - n
     /\ UNCHANGED <<open, samples, result>>

Next ==
  \/ Open
  \/ Close
  \/ \E block \in Blocks : Write(block)
  \/ \E frames \in 0 .. MaxBlock : Render(frames)

Spec == Init /\ [][Next]_vars

-----------------------------------------------------------------------------
(* Properties. *)

\* The type of the queue: its indices stay within the ring.
TypeOK ==
  /\ open \in BOOLEAN
  /\ samples \in [Indices -> Frames]
  /\ read_frame \in Indices
  /\ count \in 0 .. Capacity
  /\ result \in Nat \cup {-1}
  /\ out \in Seq(Frames)

\* The frames the ring holds, oldest first.
Queued == [i \in 1 .. count |-> samples[Index(i)]]

Fifo == INSTANCE AudioFifo WITH fifo <- Queued

\* The ring is a bounded queue: it plays what it accepted in order, never
\* overwrites a frame that has not been played ("Never overwrite queued audio",
\* tests/test_nacl_audio.c), and nothing written before a flush is played after
\* it, wherever the indices wrap.
ImplementsFifo == Fifo!Spec
=============================================================================
