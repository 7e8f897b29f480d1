----------------------------- MODULE AudioFifo ------------------------------
(***************************************************************************)
(* What the NaCl audio output promises the decoder thread and the audio    *)
(* device: a bounded first-in-first-out queue of audio frames.  What is    *)
(* accepted is played once, in order, unless the queue is closed or opened *)
(* anew; what does not fit is refused; where there is nothing, silence.    *)
(***************************************************************************)
EXTENDS Integers, Sequences

CONSTANTS
  Frames,    \* the audio frames
  Silence,   \* the frame of zeros
  Capacity,  \* AIRTIZEN_AUDIO_FRAMES (16384)
  MaxBlock   \* bound: frames in one call

VARIABLES
  open,
  fifo,    \* the frames accepted and not yet played, oldest first
  result,  \* what the last write returned: frames accepted, -1 if closed
  out      \* what the device was last given

vars == <<open, fifo, result, out>>

Least(a, b) == IF a < b THEN a ELSE b
Blocks == UNION {[1 .. n -> Frames] : n \in 0 .. MaxBlock}

Init ==
  /\ open = FALSE
  /\ fifo = << >>
  /\ result = 0
  /\ out = << >>

Open == open' = TRUE /\ fifo' = << >> /\ UNCHANGED <<result, out>>
Close == open' = FALSE /\ fifo' = << >> /\ UNCHANGED <<result, out>>

Write(block) ==
  \/ /\ ~open
     /\ result' = -1
     /\ UNCHANGED <<open, fifo, out>>
  \/ /\ open
     /\ LET n == Least(Len(block), Capacity - Len(fifo))
        IN  /\ fifo' = fifo \o SubSeq(block, 1, n)
            /\ result' = n
     /\ UNCHANGED <<open, out>>

Render(frames) ==
  \/ /\ ~open
     /\ out' = [i \in 1 .. frames |-> Silence]
     /\ UNCHANGED <<open, fifo, result>>
  \/ /\ open
     /\ LET n == Least(frames, Len(fifo))
        IN  /\ out' = [i \in 1 .. frames |-> IF i <= n THEN fifo[i] ELSE Silence]
            /\ fifo' = SubSeq(fifo, n + 1, Len(fifo))
     /\ UNCHANGED <<open, result>>

Next ==
  \/ Open
  \/ Close
  \/ \E block \in Blocks : Write(block)
  \/ \E frames \in 0 .. MaxBlock : Render(frames)

Spec == Init /\ [][Next]_vars
=============================================================================
