-------------------------- MODULE AudioQueueProofs --------------------------
(***************************************************************************)
(* The ring of AudioQueue implements the bounded queue of AudioFifo, for   *)
(* every capacity, every set of frames and every block length.             *)
(*                                                                         *)
(* The argument.  Queued reads the ring from read_frame on, so it is       *)
(* enough to know where a step's indices fall: the slot of the i-th queued *)
(* frame is filled by a write only if i > count, and then from position    *)
(* i - count of the block (FilledAt); and after a render of n frames the   *)
(* slot of the i-th frame is the one of the (n + i)-th before (IndexAt).   *)
(***************************************************************************)
EXTENDS AudioQueue, SequenceTheorems, TLAPS

-----------------------------------------------------------------------------
(* Arithmetic modulo the capacity. *)

\* Division with remainder by the capacity.
LEMMA DivMod ==
  ASSUME NEW a \in Int
  PROVE  /\ a \div Capacity \in Int
         /\ a = Capacity * (a \div Capacity) + (a % Capacity)
         /\ a % Capacity \in Indices
  BY CapacityAssumption, SMT DEF Indices

\* No multiple of the capacity lies strictly between 0 and the capacity.
LEMMA NoMultipleBetween ==
  ASSUME NEW k \in Int, 0 < Capacity * k, Capacity * k < Capacity
  PROVE  FALSE
  BY CapacityAssumption, SMTT(30)

\* The remainder is unique.
LEMMA RemainderUnique ==
  ASSUME NEW a \in Int, NEW q \in Int, NEW r \in Indices, a = Capacity * q + r
  PROVE  a % Capacity = r
<1> DEFINE d == a \div Capacity
           m == a % Capacity
<1>1. d \in Int /\ m \in Indices /\ a = Capacity * d + m BY DivMod
<1> HIDE DEF d, m
<1>2. Capacity * (d - q) = r - m /\ Capacity * (q - d) = m - r
  <2>1. Capacity * d \in Int /\ Capacity * q \in Int BY <1>1, CapacityAssumption
  <2>2. Capacity * (d - q) = Capacity * d - Capacity * q BY <1>1, CapacityAssumption
  <2>3. Capacity * (q - d) = Capacity * q - Capacity * d BY <1>1, CapacityAssumption
  <2>4. QED BY <1>1, <2>1, <2>2, <2>3, CapacityAssumption DEF Indices
<1>3. CASE m < r
  <2>1. d - q \in Int /\ 0 < Capacity * (d - q) /\ Capacity * (d - q) < Capacity
    BY <1>1, <1>2, <1>3, CapacityAssumption DEF Indices
  <2>2. QED BY <2>1, NoMultipleBetween
<1>4. CASE r < m
  <2>1. q - d \in Int /\ 0 < Capacity * (q - d) /\ Capacity * (q - d) < Capacity
    BY <1>1, <1>2, <1>4, CapacityAssumption DEF Indices
  <2>2. QED BY <2>1, NoMultipleBetween
<1>5. QED BY <1>1, <1>3, <1>4, CapacityAssumption DEF Indices, m

\* A remainder may be taken before or after an addition.
LEMMA ModPlus ==
  ASSUME NEW a \in Int, NEW b \in Int
  PROVE  ((a % Capacity) + b) % Capacity = (a + b) % Capacity
<1> DEFINE m == a % Capacity
           p == a \div Capacity
           q == (a + b) \div Capacity
           r == (a + b) % Capacity
<1>1. p \in Int /\ a = Capacity * p + m /\ m \in Int
  BY DivMod, CapacityAssumption DEF Indices
<1>2. q \in Int /\ a + b = Capacity * q + r /\ r \in Indices BY DivMod
<1> HIDE DEF m, p, q, r
<1>3. m + b = Capacity * (q - p) + r
  <2>1. Capacity * (q - p) = Capacity * q - Capacity * p BY <1>1, <1>2, CapacityAssumption
  <2>2. Capacity * p \in Int /\ Capacity * q \in Int /\ r \in Int
    BY <1>1, <1>2, CapacityAssumption DEF Indices
  <2> DEFINE x == Capacity * p
             y == Capacity * q
  <2> HIDE DEF x, y
  <2>3. x \in Int /\ y \in Int /\ a = x + m /\ a + b = y + r BY <1>1, <1>2, <2>2 DEF x, y
  <2>4. m + b = (y - x) + r BY <1>1, <2>2, <2>3
  <2>5. QED BY <2>1, <2>4 DEF x, y
<1>4. m + b \in Int /\ q - p \in Int BY <1>1, <1>2
<1>5. (m + b) % Capacity = r BY <1>2, <1>3, <1>4, RemainderUnique
<1>6. QED BY <1>5 DEF m, r

\* The remainder of a number that is at most one lap off.
LEMMA ModSmall ==
  ASSUME NEW a \in Int
  PROVE  /\ a \in Indices => a % Capacity = a
         /\ a + Capacity \in Indices => a % Capacity = a + Capacity
<1>1. ASSUME a \in Indices PROVE a % Capacity = a
  BY <1>1, CapacityAssumption, RemainderUnique, a = Capacity * 0 + a
<1>2. ASSUME a + Capacity \in Indices PROVE a % Capacity = a + Capacity
  <2>1. a = Capacity * (-1) + (a + Capacity) BY CapacityAssumption
  <2>2. -1 \in Int OBVIOUS
  <2>3. QED BY <1>2, <2>1, <2>2, RemainderUnique
<1>3. QED BY <1>1, <1>2

-----------------------------------------------------------------------------
(* Where the steps' indices fall. *)

\* Every queued frame has a slot.
LEMMA IndexRange == ASSUME TypeOK, NEW i \in Int PROVE Index(i) \in Indices
<1>1. read_frame + i - 1 \in Int BY CapacityAssumption DEF TypeOK, Indices
<1>2. QED BY <1>1, DivMod DEF Index

\* A write fills the slot of the i-th queued frame only beyond the frames queued, from
\* the next position of its block; the slots of queued frames come a lap later.
LEMMA FilledAt ==
  ASSUME TypeOK, NEW block, NEW i \in 1 .. Capacity
  PROVE  Filled(block, Index(i)) = IF i <= count THEN i - count + Capacity ELSE i - count
<1> DEFINE a == read_frame + i - 1
           b == - read_frame - count
<1>1. /\ read_frame \in Int /\ count \in Int /\ i \in Int /\ Capacity \in Int
      /\ 0 <= count /\ count <= Capacity /\ 1 <= i /\ i <= Capacity
  BY CapacityAssumption DEF TypeOK, Indices
<1>2. a \in Int /\ b \in Int /\ a + b = i - 1 - count BY <1>1
<1>3. Index(i) = a % Capacity BY DEF Index
<1>4. Index(i) \in Int /\ Index(i) - read_frame - count = (a % Capacity) + b
  BY <1>1, <1>3, IndexRange, CapacityAssumption DEF Indices
<1> HIDE DEF a, b
<1>5. (Index(i) - read_frame - count) % Capacity = (i - 1 - count) % Capacity
  BY <1>2, <1>4, ModPlus
<1>6. CASE i <= count
  <2>1. i - 1 - count \in Int /\ (i - 1 - count) + Capacity \in Indices
    BY <1>1, <1>6 DEF Indices
  <2>2. (i - 1 - count) % Capacity = (i - 1 - count) + Capacity BY <2>1, ModSmall
  <2>3. Filled(block, Index(i)) = ((i - 1 - count) + Capacity) + 1 BY <1>5, <2>2 DEF Filled
  <2>4. QED BY <1>1, <1>6, <2>3
<1>7. CASE ~(i <= count)
  <2>1. i - 1 - count \in Int /\ i - 1 - count \in Indices BY <1>1, <1>7 DEF Indices
  <2>2. (i - 1 - count) % Capacity = i - 1 - count BY <2>1, ModSmall
  <2>3. Filled(block, Index(i)) = (i - 1 - count) + 1 BY <1>5, <2>2 DEF Filled
  <2>4. QED BY <1>1, <1>7, <2>3
<1>8. QED BY <1>6, <1>7

\* Once n frames have been taken, the i-th frame is the one that was the (n + i)-th.
LEMMA IndexAt ==
  ASSUME TypeOK, NEW n \in Nat, NEW i \in Nat
  PROVE  (((read_frame + n) % Capacity) + i - 1) % Capacity = Index(n + i)
<1>1. read_frame \in Int BY CapacityAssumption DEF TypeOK, Indices
<1> DEFINE a == read_frame + n
<1>2. a \in Int /\ a % Capacity \in Int BY <1>1, DivMod, CapacityAssumption DEF Indices
<1>3. ((a % Capacity) + (i - 1)) % Capacity = (a + (i - 1)) % Capacity BY <1>2, ModPlus
<1>4. (a % Capacity) + i - 1 = (a % Capacity) + (i - 1) BY <1>2
<1>5. a + (i - 1) = read_frame + (n + i) - 1 BY <1>1
<1> HIDE DEF a
<1>6. QED BY <1>3, <1>4, <1>5 DEF Index, a

-----------------------------------------------------------------------------
(* Types. *)

\* What is queued is a sequence of frames, read from the ring.
QueuedOK ==
  /\ Queued \in Seq(Frames) /\ Len(Queued) = count /\ count \in Nat
  /\ \A i \in 1 .. count : Queued[i] = samples[Index(i)]

\* The ring holds such a sequence.
LEMMA QueuedSeq == TypeOK => QueuedOK
<1> SUFFICES ASSUME TypeOK PROVE QueuedOK OBVIOUS
<1>1. count \in Nat BY CapacityAssumption DEF TypeOK
<1>2. \A i \in 1 .. count : samples[Index(i)] \in Frames BY IndexRange DEF TypeOK
<1>3. Queued \in [1 .. count -> Frames] BY <1>2 DEF Queued
<1>4. Queued \in Seq(Frames) /\ Len(Queued) = count BY <1>1, <1>3
<1>5. QED BY <1>1, <1>4 DEF Queued, QueuedOK

\* A block is a sequence of frames.
LEMMA BlockSeq == \A block \in Blocks : block \in Seq(Frames) /\ Len(block) \in Nat
  BY MaxBlockAssumption DEF Blocks

\* What a write accepts fits, and is at most the block.
LEMMA AcceptedRange ==
  ASSUME TypeOK, NEW block \in Blocks
  PROVE  /\ Accepted(block) \in Nat /\ Accepted(block) <= Len(block)
         /\ count + Accepted(block) <= Capacity
  BY BlockSeq, CapacityAssumption DEF TypeOK, Accepted, Least

\* The ring after a write, seen frame by frame: what was queued, then the block.
LEMMA WriteEffect ==
  ASSUME TypeOK, NEW block \in Blocks, open,
         samples' = [i \in Indices |->
           IF Filled(block, i) <= Accepted(block) THEN block[Filled(block, i)] ELSE samples[i]]
  PROVE  \A i \in 1 .. count + Accepted(block) :
           samples'[Index(i)] = IF i <= count THEN samples[Index(i)] ELSE block[i - count]
<1> DEFINE n == Accepted(block)
<1>1. n \in Nat /\ count + n <= Capacity /\ count \in Nat /\ Capacity \in Nat
  BY AcceptedRange, CapacityAssumption DEF TypeOK
<1> HIDE DEF n
<1> SUFFICES ASSUME NEW i \in 1 .. count + n
             PROVE  samples'[Index(i)] = IF i <= count THEN samples[Index(i)] ELSE block[i - count]
  BY DEF n
<1>2. i \in 1 .. Capacity /\ i \in Int BY <1>1
<1>3. Index(i) \in Indices BY <1>2, IndexRange
<1>4. samples'[Index(i)] = IF Filled(block, Index(i)) <= n THEN block[Filled(block, Index(i))]
                           ELSE samples[Index(i)]
  BY <1>3 DEF n
<1>5. Filled(block, Index(i)) = IF i <= count THEN i - count + Capacity ELSE i - count
  BY <1>2, FilledAt
<1>6. CASE i <= count
  <2>1. ~(i - count + Capacity <= n) BY <1>1, <1>2, <1>6
  <2>2. QED BY <1>4, <1>5, <1>6, <2>1
<1>7. CASE ~(i <= count)
  <2>1. i - count <= n BY <1>1, <1>2, <1>7
  <2>2. QED BY <1>4, <1>5, <1>7, <2>1
<1>8. QED BY <1>6, <1>7

\* Every operation keeps the types.
LEMMA TypeStep == TypeOK /\ [Next]_vars => TypeOK'
<1> SUFFICES ASSUME TypeOK, [Next]_vars PROVE TypeOK' OBVIOUS
<1>cap. Capacity \in Nat /\ Capacity # 0 BY CapacityAssumption
<1>flag. open' \in BOOLEAN
  BY Zenon DEF Next, Open, Close, Write, Render, vars, TypeOK
<1>1. CASE Open BY <1>1, <1>cap, <1>flag DEF Open, TypeOK, Indices
<1>2. CASE Close BY <1>2, <1>cap, <1>flag DEF Close, TypeOK, Indices
<1>3. ASSUME NEW block \in Blocks, Write(block) PROVE TypeOK'
  <2>1. CASE ~open BY <1>3, <2>1, <1>flag DEF Write, TypeOK
  <2>2. CASE open
    <3>1. /\ Accepted(block) \in Nat /\ Accepted(block) <= Len(block)
          /\ count + Accepted(block) <= Capacity /\ count \in Nat
      BY AcceptedRange DEF TypeOK
    <3>2. block \in Seq(Frames) /\ Len(block) \in Nat BY BlockSeq
    <3>3. ASSUME NEW i \in Indices, Filled(block, i) <= Accepted(block)
          PROVE  block[Filled(block, i)] \in Frames
      <4>1. i - read_frame - count \in Int BY <3>1, <1>cap DEF TypeOK, Indices
      <4>2. (i - read_frame - count) % Capacity \in Indices BY <4>1, DivMod
      <4>3. Filled(block, i) \in Nat /\ 1 <= Filled(block, i)
        BY <1>cap, <4>2 DEF Filled, Indices
      <4>4. Filled(block, i) \in 1 .. Len(block) BY <3>1, <3>2, <3>3, <4>3
      <4>5. QED BY <3>2, <4>4, ElementOfSeq
    <3>4. samples' \in [Indices -> Frames] BY <1>3, <2>2, <3>3 DEF Write, TypeOK
    <3>5. count' \in 0 .. Capacity /\ result' \in Nat BY <1>3, <2>2, <3>1, <1>cap DEF Write
    <3>6. QED BY <1>3, <2>2, <3>4, <3>5, <1>flag DEF Write, TypeOK
  <2>3. QED BY <2>1, <2>2
<1>4. ASSUME NEW frames \in 0 .. MaxBlock, Render(frames) PROVE TypeOK'
  <2>0. frames \in Nat BY MaxBlockAssumption
  <2>1. CASE ~open
    <3>1. out' \in [1 .. frames -> Frames] BY <1>4, <2>1, SilenceAssumption DEF Render
    <3>2. out' \in Seq(Frames) BY <2>0, <3>1
    <3>3. QED BY <1>4, <2>1, <3>2, <1>flag DEF Render, TypeOK
  <2>2. CASE open
    <3> DEFINE n == Least(frames, count)
    <3>1. count \in Nat /\ n \in Nat /\ n <= count /\ n <= frames
      BY <2>0, <1>cap DEF TypeOK, Least
    <3>2. /\ out' = [i \in 1 .. frames |-> IF i <= n THEN samples[Index(i)] ELSE Silence]
          /\ read_frame' = (read_frame + n) % Capacity
          /\ count' = count - n
      BY <1>4, <2>2 DEF Render
    <3> HIDE DEF n
    <3>3. \A i \in 1 .. frames : samples[Index(i)] \in Frames BY IndexRange DEF TypeOK
    <3>4. out' \in [1 .. frames -> Frames] BY <3>2, <3>3, SilenceAssumption
    <3>5. out' \in Seq(Frames) BY <2>0, <3>4
    <3>6. read_frame' \in Indices
      <4>1. read_frame + n \in Int BY <3>1, <1>cap DEF TypeOK, Indices
      <4>2. QED BY <3>2, <4>1, DivMod
    <3>7. count' \in 0 .. Capacity BY <3>1, <3>2, <1>cap DEF TypeOK
    <3>8. QED BY <1>4, <2>2, <3>5, <3>6, <3>7, <1>flag DEF Render, TypeOK
  <2>3. QED BY <2>1, <2>2
<1>5. CASE UNCHANGED vars BY <1>5 DEF vars, TypeOK
<1>6. QED BY <1>1, <1>2, <1>3, <1>4, <1>5 DEF Next

-----------------------------------------------------------------------------
(* The theorems. *)

\* The indices and counts of the ring stay within it, whatever is written and rendered.
THEOREM QueueTypes == Spec => []TypeOK
<1>1. Init => TypeOK
  <2>1. Init => open \in BOOLEAN BY Zenon DEF Init
  <2>2. << >> \in Seq(Frames) OBVIOUS
  <2>3. QED BY <2>1, <2>2, CapacityAssumption, SilenceAssumption DEF Init, TypeOK, Indices
<1>2. QED BY <1>1, TypeStep, PTL DEF Spec

\* The empty ring is the empty queue, and every step of the ring is that step of the
\* queue, or one that leaves the queue alone.
THEOREM QueueImplementsFifo == Spec => ImplementsFifo
<1>1. Init => Fifo!Init
  <2> SUFFICES ASSUME Init PROVE Fifo!Init OBVIOUS
  <2>1. Queued = << >> BY DEF Init, Queued
  <2>2. QED BY <2>1 DEF Init, Fifo!Init
<1>2. TypeOK /\ TypeOK' /\ [Next]_vars => [Fifo!Next]_(Fifo!vars)
  <2> SUFFICES ASSUME TypeOK, TypeOK', [Next]_vars PROVE [Fifo!Next]_(Fifo!vars) OBVIOUS
  <2>old. /\ Queued \in Seq(Frames) /\ Len(Queued) = count /\ count \in Nat
          /\ \A i \in 1 .. count : Queued[i] = samples[Index(i)]
    BY QueuedSeq DEF QueuedOK
  <2>new. QueuedOK' BY QueuedSeq, PTL
  <2>1. CASE Open
    <3>1. Queued' = << >> BY <2>1 DEF Open, Queued
    <3>2. Fifo!Open BY <2>1, <3>1 DEF Open, Fifo!Open
    <3>3. QED BY <3>2 DEF Fifo!Next
  <2>2. CASE Close
    <3>1. Queued' = << >> BY <2>2 DEF Close, Queued
    <3>2. Fifo!Close BY <2>2, <3>1 DEF Close, Fifo!Close
    <3>3. QED BY <3>2 DEF Fifo!Next
  <2>3. ASSUME NEW block \in Blocks, Write(block) PROVE Fifo!Write(block)
    <3>1. CASE ~open
      <4>1. Queued' = Queued BY <2>3, <3>1 DEF Write, Queued, Index
      <4>2. QED BY <2>3, <3>1, <4>1 DEF Write, Fifo!Write
    <3>2. CASE open
      <4> DEFINE n == Accepted(block)
      <4>1. /\ n \in Nat /\ n <= Len(block) /\ block \in Seq(Frames) /\ Len(block) \in Nat
            /\ count' = count + n /\ read_frame' = read_frame /\ result' = n
            /\ open' = open /\ out' = out
        BY <2>3, <3>2, AcceptedRange, BlockSeq DEF Write
      <4>2. \A i \in 1 .. count + n :
              samples'[Index(i)] = IF i <= count THEN samples[Index(i)] ELSE block[i - count]
        BY <2>3, <3>2, WriteEffect DEF Write
      <4>3. n = Fifo!Least(Len(block), Capacity - Len(Queued))
        BY <2>old DEF Accepted, Least, Fifo!Least
      <4> HIDE DEF n
      <4> DEFINE rest == SubSeq(block, 1, n)
      <4>4. /\ rest \in Seq(Frames) /\ Len(rest) = n
            /\ \A j \in 1 .. n : rest[j] = block[j]
        BY <4>1, SubSeqProperties
      <4> HIDE DEF rest
      <4>5. /\ Queued \o rest \in Seq(Frames) /\ Len(Queued \o rest) = count + n
            /\ \A i \in 1 .. count + n :
                 (Queued \o rest)[i] = IF i <= count THEN Queued[i] ELSE rest[i - count]
        <5>a. PICK q : q = Queued OBVIOUS
        <5>1. q \in Seq(Frames) /\ Len(q) = count BY <2>old, <5>a
        <5>2. /\ q \o rest \in Seq(Frames) /\ Len(q \o rest) = Len(q) + Len(rest)
              /\ \A i \in 1 .. Len(q) + Len(rest) :
                   (q \o rest)[i] = IF i <= Len(q) THEN q[i] ELSE rest[i - Len(q)]
          BY <4>4, <5>1, ConcatProperties
        <5>3. QED BY <4>4, <5>a, <5>1, <5>2
      <4>6. ASSUME NEW i \in 1 .. count + n PROVE Queued'[i] = (Queued \o rest)[i]
        <5>1. Queued'[i] = samples'[Index(i)]
          BY <2>new, <4>1 DEF QueuedOK, Index
        <5>2. i - count \in 1 .. n \/ i <= count BY <2>old, <4>1
        <5>3. QED BY <2>old, <4>1, <4>2, <4>4, <4>5, <5>1, <5>2
      <4>7. Queued' = Queued \o rest
        BY <2>new, <4>1, <4>5, <4>6, SeqEqual DEF QueuedOK
      <4>8. QED BY <3>2, <4>1, <4>3, <4>7 DEF Fifo!Write, rest
    <3>3. QED BY <3>1, <3>2
  <2>4. ASSUME NEW frames \in 0 .. MaxBlock, Render(frames) PROVE Fifo!Render(frames)
    <3>1. CASE ~open
      <4>1. Queued' = Queued BY <2>4, <3>1 DEF Render, Queued, Index
      <4>2. QED BY <2>4, <3>1, <4>1 DEF Render, Fifo!Render
    <3>2. CASE open
      <4> DEFINE n == Least(frames, count)
                 rest == SubSeq(Queued, n + 1, Len(Queued))
      <4>1. n \in Nat /\ n <= count /\ n <= frames /\ frames \in Nat
        BY <2>old, MaxBlockAssumption DEF Least
      <4>2. /\ out' = [i \in 1 .. frames |-> IF i <= n THEN samples[Index(i)] ELSE Silence]
            /\ read_frame' = (read_frame + n) % Capacity
            /\ count' = count - n
            /\ open' = open /\ samples' = samples /\ result' = result
        BY <2>4, <3>2 DEF Render
      <4>3. n = Fifo!Least(frames, Len(Queued)) BY <2>old DEF Least, Fifo!Least
      <4> HIDE DEF n
      <4>4. out' = [i \in 1 .. frames |-> IF i <= n THEN Queued[i] ELSE Silence]
        BY <2>old, <4>1, <4>2
      <4>5. /\ rest \in Seq(Frames) /\ Len(rest) = count - n
            /\ \A i \in 1 .. count - n : rest[i] = Queued[n + i]
        BY <2>old, <4>1, SubSeqProperties
      <4> HIDE DEF rest
      <4>6. ASSUME NEW i \in 1 .. count - n PROVE Queued'[i] = rest[i]
        <5>1. i \in Nat /\ n + i \in 1 .. count BY <2>old, <4>1
        <5>2. Queued'[i] = samples[(((read_frame + n) % Capacity) + i - 1) % Capacity]
          BY <2>new, <4>2 DEF QueuedOK, Index
        <5>3. Queued'[i] = samples[Index(n + i)] BY <4>1, <5>1, <5>2, IndexAt
        <5>4. QED BY <2>old, <4>5, <5>1, <5>3
      <4>7. Queued' = rest
        BY <2>new, <2>old, <4>1, <4>2, <4>5, <4>6, SeqEqual DEF QueuedOK
      <4>8. QED BY <3>2, <4>2, <4>3, <4>4, <4>7 DEF Fifo!Render, rest
    <3>3. QED BY <3>1, <3>2
  <2>5. CASE UNCHANGED vars
    <3>1. Queued' = Queued BY <2>5 DEF vars, Queued, Index
    <3>2. QED BY <2>5, <3>1 DEF vars, Fifo!vars
  <2>6. Blocks = Fifo!Blocks BY DEF Blocks, Fifo!Blocks
  <2>7. QED BY <2>1, <2>2, <2>3, <2>4, <2>5, <2>6 DEF Next, Fifo!Next
<1>3. QED BY <1>1, <1>2, QueueTypes, PTL DEF Spec, ImplementsFifo, Fifo!Spec
=============================================================================
