-------------------------- MODULE VideoHostProofs ---------------------------
(***************************************************************************)
(* Proofs about VideoHost, for every limit of the queue and every bound on *)
(* configurations, frames and events.                                      *)
(*                                                                         *)
(* The argument.  Everything about the decoder is the main thread's alone, *)
(* so its flags and the calls it has under way fit together after every    *)
(* callback (CallsKept, OneOfEachCall); pictures held are counted also     *)
(* while a decoder that failed is still there (HeldKept), which gives the  *)
(* exact count for one that works.  The mirroring thread reaches the main  *)
(* thread only by posted_ and the call it stands for: PostKept says that   *)
(* posted_ is never set without that call being queued, and the flag is    *)
(* cleared before the work is looked for, so what arrives between the two  *)
(* sections of Pump() queues another call (SectionStep).                   *)
(*                                                                         *)
(* The order of the frames needs what waits as well as what was given: the *)
(* queue goes on where the decoder is, or begins the configuration the     *)
(* next decoder is for, and the sender goes on where the queue ends        *)
(* (OrderKept).  A configuration that is queued keeps frames from being    *)
(* taken until Pump() has made its decoder, and a queue that lost a frame  *)
(* accepts no other until it is emptied.                                   *)
(***************************************************************************)
EXTENDS VideoHost, FiniteSetTheorems, SequenceTheorems, TLAPS

USE QueueLimitAssumption, BoundsAssumption

\* The flags stay flags.
LEMMA FlagStep == FlagsOK /\ [Next]_vars => FlagsOK'
<1> SUFFICES ASSUME FlagsOK, [Next]_vars PROVE FlagsOK' OBVIOUS
<1> USE DEF FlagsOK, shared, hardware, controller
<1>1. CASE Configure
  <2>1. configure_' \in BOOLEAN /\ reset_' \in BOOLEAN BY <1>1, Zenon DEF Configure
  <2>2. posted_' \in BOOLEAN /\ failed_' \in BOOLEAN BY <1>1, Zenon DEF Configure, PostLocked
  <2>3. UNCHANGED <<enabled_, hardware, controller>> BY <1>1, Zenon DEF Configure
  <2>4. QED BY <2>1, <2>2, <2>3
<1>2. CASE Frame
  <2>1. posted_' \in BOOLEAN /\ failed_' \in BOOLEAN BY <1>2, Zenon DEF Frame, PostLocked
  <2>2. QED BY <1>2, <2>1, Zenon DEF Frame
<1>3. CASE Reset BY <1>3, Zenon DEF Reset, PostLocked
<1>4. CASE PumpLook BY <1>4, Zenon DEF PumpLook, Unposted, CloseDecoder
<1>5. CASE PumpTake
  <2>1. decoding_' \in BOOLEAN BY <1>5, Zenon DEF PumpTake, Decode
  <2>2. /\ UNCHANGED <<enabled_, posted_, configure_, reset_, failed_, ready_>>
        /\ UNCHANGED <<painting_, pending_, first, controller>>
    BY <1>5, Zenon DEF PumpTake
  <2>3. QED BY <2>1, <2>2
<1>6. CASE Error BY <1>6, Zenon DEF Error
<1>7. CASE Enable BY <1>7, Zenon DEF Enable, PostLocked
<1>8. CASE Initialized
  <2>1. ready_' \in BOOLEAN BY <1>8, Zenon DEF Initialized
  <2>2. UNCHANGED <<enabled_, posted_, configure_, reset_, failed_>> BY <1>8, Zenon DEF Initialized
  <2>3. UNCHANGED <<decoding_, painting_, pending_, first, controller>>
    BY <1>8, Zenon DEF Initialized
  <2>4. QED BY <2>1, <2>2, <2>3
<1>9. CASE Decoded
  <2>1. decoding_' \in BOOLEAN BY <1>9, Zenon DEF Decoded
  <2>2. UNCHANGED <<enabled_, posted_, configure_, reset_, failed_>> BY <1>9, Zenon DEF Decoded
  <2>3. UNCHANGED <<ready_, painting_, pending_, first, controller>> BY <1>9, Zenon DEF Decoded
  <2>4. QED BY <2>1, <2>2, <2>3
<1>10. CASE Picture
  <2>1. painting_' \in BOOLEAN /\ pending_' \in BOOLEAN BY <1>10, Zenon DEF Picture
  <2>2. QED BY <1>10, <2>1, Zenon DEF Picture
<1>11. CASE Painted
  <2>1. first' = FALSE /\ pending_' = FALSE /\ UNCHANGED <<shared, ready_, decoding_, controller>>
    BY <1>11, Zenon DEF Painted
  <2>2. painting_' \in BOOLEAN BY <1>11, Zenon DEF Painted
  <2>3. QED BY <2>1, <2>2
<1>12. ASSUME NEW kind \in Kinds, CallFails(kind) PROVE FlagsOK'
  BY <1>12, Zenon DEF CallFails
<1>13. CASE Shutdown BY <1>13, Zenon DEF Shutdown, CloseDecoder
<1>14. CASE UiStart BY <1>14, Zenon DEF UiStart
<1>15. CASE UiStop BY <1>15, Zenon DEF UiStop, Detach
<1>16. CASE UiMessage
  <2>1. active' \in BOOLEAN /\ stopped' = stopped /\ fallback' \in BOOLEAN
    BY <1>16, Zenon DEF UiMessage, FallBack, Detach
  <2>2. QED BY <1>16, <2>1, Zenon DEF UiMessage
<1>17. CASE UNCHANGED vars BY <1>17 DEF vars
<1>18. QED
  BY <1>1, <1>2, <1>3, <1>4, <1>5, <1>6, <1>7, <1>8, <1>9, <1>10, <1>11, <1>12, <1>13,
     <1>14, <1>15, <1>16, <1>17
  DEF Next, MainStep

\* The sender's record keeps its type.
LEMMA StreamConfigured ==
  ASSUME NEW s \in [config : 0 .. MaxConfigs, frame : Nat, sent : Nat, configured : BOOLEAN],
         s.config < MaxConfigs
  PROVE  LET t == [s EXCEPT !.config = @ + 1, !.frame = 0, !.configured = TRUE]
         IN  /\ t \in [config : 0 .. MaxConfigs, frame : Nat, sent : Nat, configured : BOOLEAN]
             /\ t.config # 0
BY s.config + 1 \in 0 .. MaxConfigs /\ s.config + 1 # 0

LEMMA StreamFrame ==
  ASSUME NEW s \in [config : 0 .. MaxConfigs, frame : Nat, sent : Nat, configured : BOOLEAN]
  PROVE  LET t == [s EXCEPT !.frame = @ + 1, !.sent = @ + 1]
         IN  /\ t \in [config : 0 .. MaxConfigs, frame : Nat, sent : Nat, configured : BOOLEAN]
             /\ t.config = s.config
<1>1. s.frame + 1 \in Nat /\ s.sent + 1 \in Nat OBVIOUS
<1>2. QED BY <1>1, Zenon

\* A section that calls PostLocked() leaves a call of Pump() queued.
LEMMA PostQueues == FlagsOK /\ HardwareOK /\ PostKept /\ main # "gone" /\ PostLocked
                    => dispatched' \in Nat /\ dispatched' > 0
BY DEF FlagsOK, HardwareOK, PostKept, PostLocked

\* A platform call that has not come back belongs to a decoder.
LEMMA CallHasDecoder ==
  ASSUME NEW kind \in Kinds, OneOfEachCall, calls[kind] > 0 PROVE decoder # 0
BY DEF OneOfEachCall, NoCalls, Kinds

\* The calls of a platform with no decoder, and of one that is being initialized.
LEMMA Quiet ==
  /\ NoCalls \in [Kinds -> Nat] /\ \A k \in Kinds : NoCalls[k] = 0
  /\ [NoCalls EXCEPT !["initialize"] = 1] \in [Kinds -> Nat]
  /\ [NoCalls EXCEPT !["initialize"] = 1]["initialize"] = 1
  /\ \A k \in Kinds \ {"initialize"} : [NoCalls EXCEPT !["initialize"] = 1][k] = 0
BY DEF NoCalls, Kinds

\* A call that is made and one that comes back: the others stand.
LEMMA CallMade ==
  ASSUME NEW c \in [Kinds -> Nat], NEW kind \in Kinds
  PROVE  LET d == [c EXCEPT ![kind] = @ + 1]
         IN  d \in [Kinds -> Nat] /\ d[kind] = c[kind] + 1
             /\ \A k \in Kinds \ {kind} : d[k] = c[k]
OBVIOUS

LEMMA CallBack ==
  ASSUME calls \in [Kinds -> Nat], NEW kind \in Kinds, calls[kind] > 0
  PROVE  /\ Returned(kind) \in [Kinds -> Nat] /\ Returned(kind)[kind] = calls[kind] - 1
         /\ \A k \in Kinds \ {kind} : Returned(kind)[k] = calls[k]
<1>1. calls[kind] - 1 \in Nat OBVIOUS
<1>2. QED BY <1>1 DEF Returned

\* A step of the mirroring thread or of Enable(), which leaves the decoder alone.
LEMMA SectionStep ==
  ASSUME IInv, FlagsOK', UNCHANGED <<hardware, main>>, main # "gone",
         stream' \in [config : 0 .. MaxConfigs, frame : Nat, sent : Nat, configured : BOOLEAN],
         configure_' => stream'.config # 0,
         PostLocked \/ UNCHANGED <<posted_, dispatched, failed_, config_, queue_>>
  PROVE  IInv'
<1>1. dispatched' \in Nat /\ PostKept'
  BY PostQueues DEF IInv, PostKept, FlagsOK, HardwareOK, PostLocked
<1>2. HardwareOK' BY <1>1 DEF IInv, HardwareOK, hardware
<1>3. CallsKept' /\ HeldKept' /\ OneOfEachCall' /\ PicturesReturn'
  BY DEF IInv, CallsKept, HeldKept, OneOfEachCall, PicturesReturn, hardware
<1>4. NoLostWakeup'
  <2>1. CASE PostLocked BY <2>1, PostQueues DEF IInv, NoLostWakeup
  <2>2. CASE UNCHANGED <<posted_, dispatched, failed_, config_, queue_>>
    BY <2>2 DEF IInv, NoLostWakeup, hardware
  <2>3. QED BY <2>1, <2>2
<1>5. QED BY <1>1, <1>2, <1>3, <1>4 DEF IInv

\* Every step keeps the invariant.
LEMMA NextIInv == IInv /\ [Next]_vars => IInv'
<1> SUFFICES ASSUME IInv, [Next]_vars PROVE IInv' OBVIOUS
<1>flags. FlagsOK' BY FlagStep DEF IInv
<1> USE <1>flags
<1>1. CASE Configure
  <2>1. stream' \in [config : 0 .. MaxConfigs, frame : Nat, sent : Nat, configured : BOOLEAN]
        /\ stream'.config # 0
    BY <1>1, StreamConfigured DEF Configure, IInv, HardwareOK
  <2>2. UNCHANGED <<hardware, main>> /\ main # "gone" BY <1>1 DEF Configure
  <2>3. PostLocked \/ UNCHANGED <<posted_, dispatched, failed_, config_, queue_>>
    BY <1>1 DEF Configure
  <2>4. QED BY <2>1, <2>2, <2>3, SectionStep
<1>2. CASE Frame
  <2>1. stream' \in [config : 0 .. MaxConfigs, frame : Nat, sent : Nat, configured : BOOLEAN]
        /\ stream'.config = stream.config
    BY <1>2, StreamFrame DEF Frame, IInv, HardwareOK
  <2>2. UNCHANGED <<hardware, main>> /\ main # "gone" BY <1>2 DEF Frame
  <2>3. configure_' => stream'.config # 0 BY <1>2, <2>1 DEF Frame, IInv, CallsKept
  <2>4. PostLocked \/ UNCHANGED <<posted_, dispatched, failed_, config_, queue_>>
    BY <1>2 DEF Frame
  <2>5. QED BY <2>1, <2>2, <2>3, <2>4, SectionStep
<1>3. CASE Reset
  <2>1. stream' \in [config : 0 .. MaxConfigs, frame : Nat, sent : Nat, configured : BOOLEAN]
    BY <1>3 DEF Reset, IInv, HardwareOK
  <2>2. UNCHANGED <<hardware, main>> /\ main # "gone" /\ ~configure_' /\ PostLocked
    BY <1>3 DEF Reset, Event
  <2>3. QED BY <2>1, <2>2, SectionStep
<1>4. CASE Enable
  <2>1. UNCHANGED <<hardware, main, stream>> /\ main # "gone" /\ ~configure_' /\ PostLocked
    BY <1>4 DEF Enable
  <2>2. QED BY <2>1, SectionStep DEF IInv, HardwareOK
<1>5. CASE PumpLook
  <2>1. dispatched' \in Nat /\ PostKept'
    BY <1>5 DEF PumpLook, Dispatched, Unposted, IInv, HardwareOK, PostKept
  <2>2. ~configure_' /\ UNCHANGED <<stream, config_, queue_, failed_>> BY <1>5 DEF PumpLook
  <2>3. CASE (reset_ \/ ~enabled_)
    <3>1. CloseDecoder /\ decoder' = 0 /\ main' = "free" BY <1>5, <2>3 DEF PumpLook
    <3>2. ~ready_' /\ ~decoding_' /\ ~painting_' /\ ~pending_' /\ held' = 0 /\ due' = 0
          /\ calls' = NoCalls
      BY <3>1 DEF CloseDecoder
    <3>3. QED
      BY <2>1, <2>2, <3>1, <3>2, Quiet DEF IInv, HardwareOK, CallsKept, HeldKept, OneOfEachCall,
         PicturesReturn, NoLostWakeup, Kinds
  <2>4. CASE ~reset_ /\ enabled_ /\ failed_
    <3>1. UNCHANGED hardware /\ main' = "error" BY <1>5, <2>4 DEF PumpLook
    <3>2. QED
      BY <2>1, <2>2, <3>1 DEF hardware, IInv, HardwareOK, CallsKept, HeldKept, OneOfEachCall,
         PicturesReturn, NoLostWakeup, NoCalls, Kinds
  <2>5. CASE ~reset_ /\ enabled_ /\ ~failed_ /\ configure_
    <3>1. /\ ~ready_' /\ ~decoding_' /\ ~painting_' /\ ~pending_' /\ due' = 0 /\ held' = 0
          /\ \/ /\ decoder' = stream.config /\ main' = "free"
                /\ calls' = [NoCalls EXCEPT !["initialize"] = 1]
             \/ decoder' = 0 /\ main' = "error" /\ calls' = NoCalls
      BY <1>5, <2>5 DEF PumpLook
    <3>2. QED
      BY <2>1, <2>2, <2>5, <3>1, Quiet DEF IInv, HardwareOK, CallsKept, HeldKept, OneOfEachCall,
         PicturesReturn, NoLostWakeup, Kinds
  <2>6. CASE ~reset_ /\ enabled_ /\ ~failed_ /\ ~configure_
    <3>1. UNCHANGED hardware /\ main' = IF ready_ /\ ~decoding_ THEN "take" ELSE "free"
      BY <1>5, <2>6 DEF PumpLook
    <3>2. main # "error" BY <1>5 DEF PumpLook, Dispatched
    <3>3. QED
      BY <2>1, <2>2, <3>1, <3>2 DEF hardware, IInv, HardwareOK, CallsKept, HeldKept, OneOfEachCall,
         PicturesReturn, NoLostWakeup, NoCalls, Kinds
  <2>7. QED BY <2>3, <2>4, <2>5, <2>6
<1>6. CASE PumpTake
  <2>1. UNCHANGED <<ready_, painting_, pending_, decoder, held, due, dispatched, posted_,
                    configure_, failed_, stream>>
        /\ main = "take" /\ main' = "free"
    BY <1>6 DEF PumpTake
  <2>2. ready_ /\ ~decoding_ /\ decoder # 0 BY <2>1 DEF IInv, CallsKept
  <2>3. CASE UNCHANGED <<decoding_, calls, config_, queue_>> /\ config_ = None /\ queue_ = << >>
    BY <2>1, <2>2, <2>3 DEF IInv, HardwareOK, CallsKept, HeldKept, PostKept, OneOfEachCall,
       PicturesReturn, NoLostWakeup
  <2>4. CASE decoding_' /\ calls' = [calls EXCEPT !["decode"] = @ + 1]
    <3>1. calls["decode"] = 0 BY <2>2 DEF IInv, HardwareOK, OneOfEachCall, Kinds
    <3>2. calls' \in [Kinds -> Nat] /\ calls'["decode"] = 1
          /\ \A k \in Kinds \ {"decode"} : calls'[k] = calls[k]
      BY <2>4, <3>1, CallMade DEF IInv, HardwareOK, Kinds
    <3>3. QED BY <2>1, <2>2, <2>4, <3>2 DEF IInv, HardwareOK, CallsKept, HeldKept, PostKept, OneOfEachCall,
       PicturesReturn, NoLostWakeup, Kinds
  <2>5. QED BY <1>6, <2>3, <2>4 DEF PumpTake, Decode
<1>7. CASE Error
  <2>1. /\ UNCHANGED <<decoding_, painting_, pending_, calls, decoder, held, due, dispatched,
                       posted_, configure_, stream>>
        /\ main = "error" /\ main' = "free" /\ ~ready_' /\ failed_'
    BY <1>7 DEF Error
  <2>2. QED
    BY <2>1 DEF IInv, HardwareOK, CallsKept, HeldKept, PostKept, OneOfEachCall,
       PicturesReturn, NoLostWakeup
<1>8. CASE Initialized
  <2>1. decoder # 0 BY <1>8, CallHasDecoder DEF Initialized, IInv, Kinds
  <2>2. /\ UNCHANGED <<decoding_, painting_, pending_, decoder, held, due, dispatched,
                       posted_, configure_, failed_, config_, queue_, stream>>
        /\ main = "free" /\ main' = "pump" /\ ready_'
    BY <1>8 DEF Initialized, shared
  <2>3. calls["initialize"] = 1 /\ calls["picture"] = 0
    BY <1>8 DEF Initialized, IInv, HardwareOK, CallsKept, OneOfEachCall, Kinds
  <2>4. calls' \in [Kinds -> Nat] /\ calls'["initialize"] = 0 /\ calls'["picture"] = 1
        /\ \A k \in Kinds \ {"initialize", "picture"} : calls'[k] = calls[k]
    <3> DEFINE back == Returned("initialize")
    <3>1. back \in [Kinds -> Nat] /\ back["initialize"] = 0
          /\ \A k \in Kinds \ {"initialize"} : back[k] = calls[k]
      BY <2>3, CallBack DEF IInv, HardwareOK, Kinds
    <3>2. calls' = [back EXCEPT !["picture"] = @ + 1] BY <1>8 DEF Initialized
    <3> HIDE DEF back
    <3>3. QED BY <2>3, <3>1, <3>2, CallMade DEF Kinds
  <2>5. QED
    BY <2>1, <2>2, <2>3, <2>4 DEF IInv, HardwareOK, CallsKept, HeldKept, PostKept, OneOfEachCall,
       PicturesReturn, NoLostWakeup, Kinds
<1>9. CASE Decoded
  <2>1. decoder # 0 BY <1>9, CallHasDecoder DEF Decoded, IInv, Kinds
  <2>2. /\ UNCHANGED <<ready_, painting_, pending_, decoder, held, dispatched,
                       posted_, configure_, failed_, config_, queue_, stream>>
        /\ main = "free" /\ main' = "pump" /\ ~decoding_'
    BY <1>9 DEF Decoded, shared
  <2>3. due' \in Nat BY <1>9 DEF Decoded, IInv, HardwareOK
  <2>4. calls["decode"] = 1 BY <1>9 DEF Decoded, IInv, HardwareOK, OneOfEachCall, Kinds
  <2>5. calls' \in [Kinds -> Nat] /\ calls'["decode"] = 0
        /\ \A k \in Kinds \ {"decode"} : calls'[k] = calls[k]
    BY <1>9, <2>4, CallBack DEF Decoded, IInv, HardwareOK, Kinds
  <2>6. QED
    BY <2>1, <2>2, <2>3, <2>4, <2>5 DEF IInv, HardwareOK, CallsKept, HeldKept, PostKept, OneOfEachCall,
       PicturesReturn, NoLostWakeup, Kinds
<1>10. CASE Picture
  <2>1. decoder # 0 /\ calls["picture"] = 1 /\ calls["initialize"] = 0
    BY <1>10, CallHasDecoder DEF Picture, IInv, HardwareOK, CallsKept, OneOfEachCall, Kinds
  <2>2. /\ UNCHANGED <<ready_, decoding_, decoder, dispatched, posted_, configure_, failed_,
                       config_, queue_, stream>>
        /\ main = "free" /\ due' \in Nat
    BY <1>10 DEF Picture, shared, IInv, HardwareOK
  <2> DEFINE next == IF ready_ THEN calls ELSE Returned("picture")
  <2>3. next \in [Kinds -> Nat] /\ (ready_ => next["picture"] = 1) /\ next["picture"] <= 1
        /\ \A k \in Kinds \ {"picture"} : next[k] = calls[k]
    BY <2>1, CallBack DEF IInv, HardwareOK, Kinds
  <2>4. CASE painting_ /\ pending_' /\ painting_' /\ held' = held + 1 - Recycled
             /\ calls' = next /\ main' = main
    <3>1. held' \in Nat /\ held' >= 2 /\ (held = 1 + Recycled => held' = 2)
      BY <2>4 DEF Recycled, IInv, FlagsOK, HardwareOK, HeldKept
    <3> HIDE DEF next
    <3>2. QED BY <2>1, <2>2, <2>3, <2>4, <3>1 DEF IInv, HardwareOK, CallsKept, HeldKept, PostKept, OneOfEachCall,
       PicturesReturn, NoLostWakeup, Kinds, Recycled
  <2>5. CASE ~painting_ /\ painting_' /\ pending_' = pending_ /\ held' = held + 1
             /\ calls' = [next EXCEPT !["swap"] = @ + 1] /\ main' = main
    <3>1. calls["swap"] = 0 BY <2>5 DEF IInv, HardwareOK, OneOfEachCall, Kinds
    <3> HIDE DEF next
    <3>2. calls' \in [Kinds -> Nat] /\ calls'["swap"] = 1
          /\ \A k \in Kinds \ {"swap"} : calls'[k] = next[k]
      BY <2>3, <2>5, <3>1, CallMade DEF Kinds
    <3>3. QED BY <2>1, <2>2, <2>3, <2>5, <3>2 DEF IInv, HardwareOK, CallsKept, HeldKept, PostKept, OneOfEachCall,
       PicturesReturn, NoLostWakeup, Kinds
  <2>6. CASE ~painting_ /\ UNCHANGED <<painting_, pending_, held>>
             /\ calls' = Returned("picture") /\ main' = "error"
    <3>1. calls' \in [Kinds -> Nat] /\ calls'["picture"] = 0
          /\ \A k \in Kinds \ {"picture"} : calls'[k] = calls[k]
      BY <2>1, <2>6, CallBack DEF IInv, HardwareOK, Kinds
    <3>2. QED BY <2>1, <2>2, <2>6, <3>1 DEF IInv, HardwareOK, CallsKept, HeldKept, PostKept, OneOfEachCall,
       PicturesReturn, NoLostWakeup, Kinds
  <2>7. QED BY <1>10, <2>4, <2>5, <2>6 DEF Picture
<1>11. CASE Painted
  <2>1. decoder # 0 /\ calls["swap"] = 1 /\ painting_ /\ calls["initialize"] = 0
    BY <1>11, CallHasDecoder DEF Painted, IInv, HardwareOK, CallsKept, OneOfEachCall, Kinds
  <2>2. /\ UNCHANGED <<ready_, decoding_, decoder, due, dispatched, posted_, configure_, failed_,
                       config_, queue_, stream>>
        /\ main = "free" /\ ~pending_'
    BY <1>11 DEF Painted, shared
  <2>3. CASE pending_ /\ held' = held - 1 /\ UNCHANGED <<painting_, calls, main>>
    <3>1. held' \in Nat /\ held' >= 1 /\ (held = 2 => held' = 1)
      BY <2>1, <2>3 DEF IInv, HardwareOK, HeldKept
    <3>2. QED BY <2>1, <2>2, <2>3, <3>1 DEF IInv, HardwareOK, CallsKept, HeldKept, PostKept, OneOfEachCall,
       PicturesReturn, NoLostWakeup, Kinds
  <2>4. CASE /\ ~painting_' /\ calls' = Returned("swap")
             /\ \/ pending_ /\ held' = held - 2 /\ main' = "error"
                \/ ~pending_ /\ held' = held - 1 /\ main' = main
    <3>1. held' \in Nat /\ (~pending_ /\ held = 1 => held' = 0)
      BY <2>1, <2>4 DEF IInv, HardwareOK, HeldKept
    <3>2. calls' \in [Kinds -> Nat] /\ calls'["swap"] = 0
          /\ \A k \in Kinds \ {"swap"} : calls'[k] = calls[k]
      BY <2>1, <2>4, CallBack DEF IInv, HardwareOK, Kinds
    <3>3. QED BY <2>1, <2>2, <2>4, <3>1, <3>2 DEF IInv, HardwareOK, CallsKept, HeldKept, PostKept, OneOfEachCall,
       PicturesReturn, NoLostWakeup, Kinds
  <2>5. QED BY <1>11, <2>3, <2>4 DEF Painted
<1>12. ASSUME NEW kind \in Kinds, CallFails(kind) PROVE IInv'
  <2>1. decoder # 0 /\ calls[kind] = 1
    BY <1>12, CallHasDecoder DEF CallFails, IInv, HardwareOK, OneOfEachCall
  <2>2. /\ UNCHANGED <<ready_, pending_, decoder, held, due, dispatched, posted_, configure_,
                       failed_, config_, queue_, stream>>
        /\ main' = "error" /\ calls' = Returned(kind)
    BY <1>12 DEF CallFails, shared
  <2>3. (decoding_' <=> decoding_ /\ kind # "decode") /\ (painting_' <=> painting_ /\ kind # "swap")
    BY <1>12, Zenon DEF CallFails
  <2>4. calls' \in [Kinds -> Nat] /\ calls'[kind] = 0
        /\ \A k \in Kinds \ {kind} : calls'[k] = calls[k]
    BY <2>1, <2>2, CallBack DEF IInv, HardwareOK
  <2>5. QED BY <1>12, <2>1, <2>2, <2>3, <2>4 DEF CallFails, IInv, HardwareOK, CallsKept, HeldKept, PostKept, OneOfEachCall,
       PicturesReturn, NoLostWakeup, Kinds
<1>13. CASE Shutdown
  <2>1. /\ main' = "gone" /\ calls' = NoCalls /\ decoder' = 0 /\ dispatched' = 0
        /\ held' = 0 /\ due' = 0 /\ ~ready_' /\ ~decoding_' /\ ~painting_' /\ ~pending_'
        /\ UNCHANGED <<stream, configure_>>
    BY <1>13 DEF Shutdown, CloseDecoder
  <2>2. QED BY <2>1, Quiet DEF IInv, HardwareOK, CallsKept, HeldKept, PostKept, OneOfEachCall,
       PicturesReturn, NoLostWakeup, Kinds
<1>14. CASE UNCHANGED <<shared, hardware, main, stream>>
  BY <1>14 DEF shared, hardware, IInv, HardwareOK, CallsKept, HeldKept, PostKept,
     OneOfEachCall, PicturesReturn, NoLostWakeup
<1>15. CASE UiStart \/ UiStop \/ UiMessage BY <1>14, <1>15 DEF UiStart, UiStop, UiMessage
<1>16. CASE UNCHANGED vars BY <1>14, <1>16 DEF vars
<1>17. QED
  BY <1>1, <1>2, <1>3, <1>4, <1>5, <1>6, <1>7, <1>8, <1>9, <1>10, <1>11, <1>12, <1>13,
     <1>15, <1>16
  DEF Next, MainStep

\* A module that has just been loaded satisfies the invariant.
LEMMA InitIInv == Init => IInv
<1> SUFFICES ASSUME Init PROVE IInv OBVIOUS
<1>1. FlagsOK BY Zenon DEF Init, FlagsOK
<1>2. HardwareOK BY Quiet DEF Init, HardwareOK
<1>3. QED
  BY <1>1, <1>2, Quiet DEF Init, IInv, HardwareOK, CallsKept, HeldKept, PostKept, OneOfEachCall,
       PicturesReturn, NoLostWakeup, Kinds

\* A sequence with one more element.
LEMMA Appended ==
  ASSUME NEW S, NEW s \in Seq(S), NEW e \in S
  PROVE  Append(s, e) \in Seq(S) /\ Len(Append(s, e)) = Len(s) + 1
BY AppendProperties

\* What is queued keeps its type, and the packets their limit.
LEMMA QueuesStep == IInv /\ QueuesOK /\ [Next]_vars => QueuesOK'
<1> SUFFICES ASSUME IInv, QueuesOK, [Next]_vars PROVE QueuesOK' OBVIOUS
<1>e. << >> \in Seq(Packet) /\ Len(<< >>) = 0 /\ None \in Packet BY EmptySeq DEF None, Packet
<1>v. Event => events' \in 0 .. MaxEvents BY DEF Event, QueuesOK
<1>s. ASSUME NEW state \in {"idle", "playing", "error"}, Say(state)
      PROVE  messages' \in Seq({"idle", "playing", "error"})
  BY <1>s, AppendProperties DEF Say, QueuesOK
<1>d. Detach => commands' \in Seq({"on", "off"}) BY AppendProperties DEF Detach, QueuesOK
<1>1. CASE Configure
  <2>1. config_' \in Packet
    <3>1. stream.config + 1 \in Nat BY DEF IInv, HardwareOK
    <3>2. [config |-> stream.config + 1, frame |-> 0] \in Packet BY <3>1 DEF Packet
    <3>3. QED BY <1>1, <3>2 DEF Configure, QueuesOK
  <2>2. queue_' \in Seq(Packet) /\ Len(queue_') <= QueueLimit
    <3>1. queue_' = << >> \/ queue_' = queue_ BY <1>1 DEF Configure, Flushed
    <3>2. CASE queue_' = << >>
      <4>1. queue_' \in Seq(Packet) /\ Len(queue_') = 0 BY <3>2, <1>e, Zenon
      <4>2. QED BY <4>1
    <3>3. QED BY <3>1, <3>2 DEF QueuesOK
  <2>3. events' \in 0 .. MaxEvents BY <1>1, <1>v DEF Configure, QueuesOK
  <2>4. QED BY <1>1, <2>1, <2>2, <2>3 DEF Configure, hardware, QueuesOK
<1>2. CASE Frame
  <2> DEFINE packet == [config |-> stream.config, frame |-> stream.frame + 1]
  <2>1. packet \in Packet
    <3>1. stream.config \in Nat /\ stream.frame + 1 \in Nat BY DEF IInv, HardwareOK
    <3>2. QED BY <3>1 DEF Packet
  <2>2. queue_' \in Seq(Packet) /\ Len(queue_') <= QueueLimit
    <3>1. UNCHANGED queue_ \/ (~Full /\ queue_' = Append(queue_, packet)) BY <1>2 DEF Frame
    <3> HIDE DEF packet
    <3>2. CASE ~Full /\ queue_' = Append(queue_, packet)
      <4>1. Len(queue_) + 1 <= QueueLimit BY <3>2 DEF Full, QueuesOK
      <4>2. queue_' \in Seq(Packet) /\ Len(queue_') = Len(queue_) + 1
        BY <2>1, <3>2, Appended DEF QueuesOK
      <4>3. QED BY <4>1, <4>2
    <3>3. QED BY <3>1, <3>2 DEF QueuesOK
  <2>3. events' \in 0 .. MaxEvents BY <1>2, <1>v DEF Frame, QueuesOK
  <2>4. QED BY <1>2, <2>2, <2>3 DEF Frame, hardware, QueuesOK
<1>3. CASE Reset BY <1>3, <1>e, <1>v DEF Reset, hardware, QueuesOK
<1>4. CASE PumpLook
  <2>1. UNCHANGED <<queue_, config_, commands>> BY <1>4 DEF PumpLook
  <2>2. fed' = fed \/ fed' = << >> BY <1>4 DEF PumpLook, CloseDecoder, hardware
  <2>3. messages' \in Seq({"idle", "playing", "error"}) BY <1>4, <1>s DEF PumpLook, QueuesOK
  <2>4. events' \in 0 .. MaxEvents BY <1>4, <1>v DEF PumpLook, QueuesOK
  <2>5. QED BY <2>1, <2>2, <2>3, <2>4, <1>e DEF QueuesOK
<1>5. CASE PumpTake
  <2>1. config_' \in Packet BY <1>5, <1>e DEF PumpTake, QueuesOK
  <2>2. queue_' \in Seq(Packet) /\ Len(queue_') <= QueueLimit
    <3>1. queue_' = queue_ \/ (queue_ # << >> /\ queue_' = Tail(queue_)) BY <1>5 DEF PumpTake
    <3>2. CASE queue_ # << >> /\ queue_' = Tail(queue_)
      <4>1. queue_' \in Seq(Packet) /\ Len(queue_') = Len(queue_) - 1
        BY <3>2, HeadTailProperties DEF QueuesOK
      <4>2. Len(queue_) \in Nat BY LenProperties DEF QueuesOK
      <4>3. QED BY <4>1, <4>2 DEF QueuesOK
    <3>3. QED BY <3>1, <3>2 DEF QueuesOK
  <2>3. fed' \in Seq(Packet)
    <3>1. queue_ # << >> => Head(queue_) \in Packet BY HeadTailProperties DEF QueuesOK
    <3>2. UNCHANGED fed \/ \E p \in Packet : fed' = Append(fed, p)
      BY <1>5, <3>1 DEF PumpTake, Decode, QueuesOK
    <3>3. QED BY <3>2, Appended DEF QueuesOK
  <2>4. QED BY <1>5, <2>1, <2>2, <2>3 DEF PumpTake, QueuesOK
<1>6. CASE Error BY <1>6, <1>e, <1>s DEF Error, QueuesOK
<1>7. CASE Enable
  <2>1. commands' \in Seq({"on", "off"}) BY <1>7, HeadTailProperties DEF Enable, QueuesOK
  <2>2. QED BY <1>7, <1>e, <2>1 DEF Enable, hardware, QueuesOK
<1>8. CASE Initialized \/ Decoded BY <1>8 DEF Initialized, Decoded, shared, QueuesOK
<1>9. CASE Picture
  <2>1. events' \in 0 .. MaxEvents BY <1>9, <1>v DEF Picture, QueuesOK
  <2>2. QED BY <1>9, <2>1 DEF Picture, shared, QueuesOK
<1>10. CASE Painted
  <2>1. events' \in 0 .. MaxEvents BY <1>10, <1>v DEF Painted, QueuesOK
  <2>2. messages' \in Seq({"idle", "playing", "error"}) BY <1>10, <1>s DEF Painted, QueuesOK
  <2>3. QED BY <1>10, <2>1, <2>2 DEF Painted, shared, QueuesOK
<1>11. ASSUME NEW kind \in Kinds, CallFails(kind) PROVE QueuesOK'
  BY <1>11, <1>v DEF CallFails, shared, QueuesOK
<1>12. CASE Shutdown BY <1>12, <1>e, <1>v DEF Shutdown, CloseDecoder, QueuesOK
<1>13. CASE UiStart
  <2>1. commands' \in Seq({"on", "off"}) BY <1>13, AppendProperties DEF UiStart, QueuesOK
  <2>2. QED BY <1>13, <2>1 DEF UiStart, shared, hardware, QueuesOK
<1>14. CASE UiStop BY <1>14, <1>d, <1>v DEF UiStop, shared, hardware, QueuesOK
<1>15. CASE UiMessage
  <2>1. messages' \in Seq({"idle", "playing", "error"})
    BY <1>15, HeadTailProperties DEF UiMessage, QueuesOK
  <2>2. commands' \in Seq({"on", "off"}) BY <1>15, <1>d DEF UiMessage, FallBack, QueuesOK
  <2>3. QED BY <1>15, <2>1, <2>2 DEF UiMessage, shared, hardware, QueuesOK
<1>16. CASE UNCHANGED vars BY <1>16 DEF vars, shared, hardware, QueuesOK
<1>17. QED
  BY <1>1, <1>2, <1>3, <1>4, <1>5, <1>6, <1>7, <1>8, <1>9, <1>10, <1>11, <1>12, <1>13,
     <1>14, <1>15, <1>16
  DEF Next, MainStep

\* Nothing is queued at first.
LEMMA InitQueues == Init => QueuesOK
<1>1. << >> \in Seq(Packet) /\ Len(<< >>) = 0 /\ None \in Packet BY EmptySeq DEF None, Packet
<1>2. << >> \in Seq({"on", "off"}) /\ << >> \in Seq({"idle", "playing", "error"}) BY EmptySeq
<1>3. QED BY <1>1, <1>2 DEF Init, QueuesOK

-----------------------------------------------------------------------------
(* The order of the frames. *)

\* The number of frames is a number.
LEMMA FramesType ==
  ASSUME NEW s, NEW n \in Nat PROVE Frames(s, n) \in Nat
<1>1. IsFiniteSet(1 .. n) BY FS_Interval, 1 \in Int, n \in Int
<1>2. IsFiniteSet({i \in 1 .. n : s[i].frame > 0}) BY <1>1, FS_Subset
<1>3. QED BY <1>2, FS_CardinalityType DEF Frames

\* Sequences that begin alike have as many frames there.
LEMMA FramesSame ==
  ASSUME NEW s, NEW t, NEW n \in Nat, \A i \in 1 .. n : s[i] = t[i]
  PROVE  Frames(s, n) = Frames(t, n)
<1>1. {i \in 1 .. n : s[i].frame > 0} = {i \in 1 .. n : t[i].frame > 0} OBVIOUS
<1>2. QED BY <1>1, Zenon DEF Frames

\* One place further.
LEMMA FramesNext ==
  ASSUME NEW s, NEW n \in Nat
  PROVE  Frames(s, n + 1) = Frames(s, n) + (IF s[n + 1].frame > 0 THEN 1 ELSE 0)
<1> DEFINE F(k) == {i \in 1 .. k : s[i].frame > 0}
<1>1. IsFiniteSet(1 .. n) BY FS_Interval, 1 \in Int, n \in Int
<1>2. IsFiniteSet(F(n)) BY <1>1, FS_Subset
<1>3. CASE s[n + 1].frame > 0
  <2>1. F(n + 1) = F(n) \cup {n + 1} /\ n + 1 \notin F(n) BY <1>3
  <2> HIDE DEF F
  <2>2. Cardinality(F(n + 1)) = Cardinality(F(n)) + 1 BY <1>2, <2>1, FS_AddElement
  <2>3. QED BY <1>3, <2>2 DEF F, Frames
<1>4. CASE ~(s[n + 1].frame > 0)
  <2>1. F(n + 1) = F(n) BY <1>4
  <2>2. Frames(s, n) \in Nat /\ Frames(s, n + 1) = Frames(s, n)
    BY <2>1, FramesType, Zenon DEF Frames
  <2>3. QED BY <1>4, <2>2
<1>5. QED BY <1>3, <1>4

\* A packet more.
LEMMA Fed ==
  ASSUME NEW s \in Seq(Packet), NEW p \in Packet
  PROVE  LET t == Append(s, p)
         IN  /\ Len(t) = Len(s) + 1 /\ DOMAIN t = 1 .. Len(s) + 1 /\ Len(s) \in Nat
             /\ t[Len(s) + 1] = p /\ \A i \in 1 .. Len(s) : t[i] = s[i]
             /\ \A n \in 1 .. Len(s) : Frames(t, n) = Frames(s, n)
             /\ Frames(s, Len(s)) \in Nat
             /\ Frames(t, Len(t)) = Frames(s, Len(s)) + (IF p.frame > 0 THEN 1 ELSE 0)
<1> DEFINE t == Append(s, p)
<1>1. /\ Len(t) = Len(s) + 1 /\ DOMAIN t = 1 .. Len(s) + 1 /\ Len(s) \in Nat
      /\ t[Len(s) + 1] = p /\ \A i \in 1 .. Len(s) : t[i] = s[i]
  BY AppendProperties, LenProperties
<1> HIDE DEF t
<1>2. \A n \in 0 .. Len(s) : Frames(t, n) = Frames(s, n)
  <2> SUFFICES ASSUME NEW n \in 0 .. Len(s) PROVE Frames(t, n) = Frames(s, n) OBVIOUS
  <2>1. n \in Nat /\ \A i \in 1 .. n : t[i] = s[i] BY <1>1
  <2>2. QED BY <2>1, FramesSame
<1>3. Frames(s, Len(s)) \in Nat BY <1>1, FramesType
<1>4. Frames(t, Len(s)) = Frames(s, Len(s)) BY <1>1, <1>2
<1>5. Frames(t, Len(s) + 1) = Frames(t, Len(s)) + (IF p.frame > 0 THEN 1 ELSE 0)
  BY <1>1, FramesNext
<1>6. Frames(t, Len(t)) = Frames(s, Len(s)) + (IF p.frame > 0 THEN 1 ELSE 0)
  BY <1>1, <1>4, <1>5, Zenon
<1>7. QED BY <1>1, <1>2, <1>3, <1>6 DEF t

\* Nothing follows anything.
LEMMA NothingWaits ==
  /\ Len(<< >>) = 0 /\ Frames(<< >>, 0) = 0
  /\ \A config, n : Follow(<< >>, config, n)
<1>1. 1 .. 0 = {} OBVIOUS
<1>2. Frames(<< >>, 0) = 0
  <2>1. {i \in 1 .. 0 : << >>[i].frame > 0} = {} BY <1>1
  <2>2. QED BY <2>1, FS_EmptySet, Zenon DEF Frames
<1>3. QED BY <1>2, EmptySeq DEF Follow

\* A frame queued behind those that follow.
LEMMA FollowAppend ==
  ASSUME NEW q \in Seq(Packet), NEW config \in Nat, NEW n \in Nat, NEW p \in Packet,
         Follow(q, config, n), p = [config |-> config, frame |-> n + Len(q) + 1]
  PROVE  Follow(Append(q, p), config, n) /\ Len(Append(q, p)) = Len(q) + 1
<1>1. /\ Len(Append(q, p)) = Len(q) + 1 /\ DOMAIN Append(q, p) = 1 .. Len(q) + 1
      /\ Len(q) \in Nat /\ DOMAIN q = 1 .. Len(q)
      /\ Append(q, p)[Len(q) + 1] = p
      /\ \A i \in 1 .. Len(q) : Append(q, p)[i] = q[i]
  BY AppendProperties, LenProperties
<1>2. n + Len(q) + 1 = n + (Len(q) + 1) BY <1>1
<1>3. ASSUME NEW i \in 1 .. Len(q) + 1
      PROVE  Append(q, p)[i] = [config |-> config, frame |-> n + i]
  <2>1. CASE i = Len(q) + 1 BY <1>1, <1>2, <2>1
  <2>2. CASE i \in 1 .. Len(q) BY <1>1, <2>2 DEF Follow
  <2>3. QED BY <1>1, <2>1, <2>2
<1>4. QED BY <1>1, <1>3 DEF Follow

\* The first of those that follow is taken.
LEMMA FollowTail ==
  ASSUME NEW q \in Seq(Packet), q # << >>, NEW config \in Nat, NEW n \in Nat, Follow(q, config, n)
  PROVE  /\ Head(q) = [config |-> config, frame |-> n + 1]
         /\ Follow(Tail(q), config, n + 1)
         /\ Len(Tail(q)) = Len(q) - 1 /\ Len(q) \in Nat
<1>1. /\ Len(q) \in Nat /\ Len(q) # 0 /\ DOMAIN q = 1 .. Len(q) /\ Head(q) = q[1]
      /\ Tail(q) \in Seq(Packet) /\ Len(Tail(q)) = Len(q) - 1
      /\ \A i \in 1 .. Len(Tail(q)) : Tail(q)[i] = q[i + 1]
  BY HeadTailProperties, LenProperties, EmptySeq
<1>2. DOMAIN Tail(q) = 1 .. Len(q) - 1 BY <1>1, LenProperties
<1>3. ASSUME NEW i \in 1 .. Len(q) - 1
      PROVE  Tail(q)[i] = [config |-> config, frame |-> (n + 1) + i]
  <2>1. Tail(q)[i] = q[i + 1] /\ i + 1 \in 1 .. Len(q) BY <1>1, <1>3
  <2>2. q[i + 1] = [config |-> config, frame |-> n + (i + 1)] BY <1>1, <2>1 DEF Follow
  <2>3. n + (i + 1) = (n + 1) + i OBVIOUS
  <2>4. QED BY <2>1, <2>2, <2>3, Zenon
<1>4. Head(q) = [config |-> config, frame |-> n + 1] BY <1>1 DEF Follow
<1>5. QED BY <1>1, <1>2, <1>3, <1>4 DEF Follow

\* Nothing has no places.
LEMMA EmptyDomain == DOMAIN << >> = {}
OBVIOUS

\* A step that leaves the packets alone, and the main thread where it had their order.
LEMMA OrderQuiet ==
  ASSUME OrderKept,
         UNCHANGED <<enabled_, configure_, reset_, failed_, queue_, config_>>,
         UNCHANGED <<stream, decoder, fed>>,
         main' = "take" => main = "take",
         main' # "error" => main # "error",
         main' # "gone" => main # "gone"
  PROVE  OrderKept'
<1>1. FramesInOrder' BY Zenon DEF OrderKept, FramesInOrder
<1>2. Accepting' = Accepting BY DEF Accepting
<1>3. config_'.frame = 0 /\ (main' = "take" /\ configure_' => config_' # None)
  BY Zenon DEF OrderKept
<1>4. configure_' /\ main' # "gone" => enabled_' /\ ~reset_' BY Zenon DEF OrderKept
<1>5. configure_' /\ ~failed_' /\ main' # "gone" =>
        Follow(queue_', stream'.config, 0) /\ stream'.frame = Len(queue_')
  BY Zenon DEF OrderKept
<1>6. decoder' # 0 /\ ~configure_' /\ main' # "error" =>
        /\ Follow(queue_', decoder', Frames(fed', Len(fed')))
        /\ Accepting' => /\ stream'.config = decoder'
                         /\ stream'.frame = Frames(fed', Len(fed')) + Len(queue_')
  BY <1>2, Zenon DEF OrderKept
<1>7. QED BY <1>1, <1>3, <1>4, <1>5, <1>6, Zenon DEF OrderKept

\* What the decoder was given stays in order when it and the packets stay.
LEMMA FedSame == FramesInOrder /\ UNCHANGED <<decoder, fed>> => FramesInOrder'
BY Zenon DEF FramesInOrder

\* A decoder that has been given nothing.
LEMMA FedNothing == fed' = << >> => FramesInOrder' BY Zenon, EmptyDomain DEF FramesInOrder

\* Frames stay in the order in which the decoder will want them.
LEMMA OrderStep == IInv /\ QueuesOK /\ OrderKept /\ [Next]_vars => OrderKept'
<1> SUFFICES ASSUME IInv, QueuesOK, OrderKept, [Next]_vars PROVE OrderKept' OBVIOUS
<1>k. /\ config_.frame = 0
      /\ main = "take" /\ configure_ => config_ # None
      /\ configure_ /\ main # "gone" => enabled_ /\ ~reset_
      /\ FramesInOrder
  BY Zenon DEF OrderKept
<1>c. configure_ /\ ~failed_ /\ main # "gone" =>
        Follow(queue_, stream.config, 0) /\ stream.frame = Len(queue_)
  BY Zenon DEF OrderKept
<1>d. decoder # 0 /\ ~configure_ /\ main # "error" =>
        /\ Follow(queue_, decoder, Frames(fed, Len(fed)))
        /\ Accepting => /\ stream.config = decoder
                        /\ stream.frame = Frames(fed, Len(fed)) + Len(queue_)
  BY Zenon DEF OrderKept
<1>t. /\ queue_ \in Seq(Packet) /\ Len(queue_) \in Nat /\ config_ \in Packet
      /\ fed \in Seq(Packet) /\ Len(fed) \in Nat /\ Frames(fed, Len(fed)) \in Nat
      /\ stream.config \in Nat /\ stream.frame \in Nat /\ decoder \in Nat
      /\ stream \in [config : 0 .. MaxConfigs, frame : Nat, sent : Nat, configured : BOOLEAN]
  <2>1. /\ queue_ \in Seq(Packet) /\ config_ \in Packet /\ fed \in Seq(Packet) BY DEF QueuesOK
  <2>2. stream \in [config : 0 .. MaxConfigs, frame : Nat, sent : Nat, configured : BOOLEAN]
        /\ decoder \in 0 .. MaxConfigs
    BY DEF IInv, HardwareOK
  <2>3. Len(queue_) \in Nat /\ Len(fed) \in Nat BY <2>1, LenProperties
  <2>4. Frames(fed, Len(fed)) \in Nat BY <2>3, FramesType
  <2>5. QED BY <2>1, <2>2, <2>3, <2>4
<1>n. None.frame = 0 BY DEF None
<1>1. CASE Configure
  <2>1. UNCHANGED <<main, decoder, fed, enabled_>> /\ main # "gone"
    BY <1>1, Zenon DEF Configure, hardware
  <2>2. FramesInOrder' BY <1>k, <2>1, FedSame
  <2>3. CASE enabled_ /\ config_' = [config |-> stream.config + 1, frame |-> 0]
             /\ queue_' = << >> /\ configure_' = TRUE /\ reset_' = FALSE /\ failed_' = FALSE
    <3>1. config_'.frame = 0 /\ config_' # None BY <1>t, <2>3 DEF None
    <3>2. stream'.frame = 0 BY <1>1, <1>t DEF Configure
    <3>3. Follow(queue_', stream'.config, 0) /\ stream'.frame = Len(queue_')
      BY <2>3, <3>2, NothingWaits, Zenon
    <3>4. QED BY <2>1, <2>2, <2>3, <3>1, <3>3, Zenon DEF OrderKept
  <2>4. CASE failed_' = TRUE /\ UNCHANGED <<config_, queue_, configure_, reset_>>
    <3>1. ~Accepting' BY <2>4 DEF Accepting
    <3>2. QED BY <1>k, <1>d, <2>1, <2>2, <2>4, <3>1, Zenon DEF OrderKept
  <2>5. CASE ~enabled_ /\ UNCHANGED <<config_, queue_, configure_, reset_, failed_>>
    <3>1. ~Accepting' /\ ~configure_' BY <1>k, <2>1, <2>5 DEF Accepting
    <3>2. QED BY <1>k, <1>d, <2>1, <2>2, <2>5, <3>1, Zenon DEF OrderKept
  <2>6. QED BY <1>1, <2>3, <2>4, <2>5, Zenon DEF Configure, Flushed
<1>2. CASE Frame
  <2>1. UNCHANGED <<main, decoder, fed, enabled_, configure_, reset_, config_>> /\ main # "gone"
    BY <1>2, Zenon DEF Frame, hardware
  <2>2. FramesInOrder' BY <1>k, <2>1, FedSame
  <2>3. stream'.config = stream.config /\ stream'.frame = stream.frame + 1
    BY <1>2, <1>t DEF Frame
  <2> DEFINE packet == [config |-> stream.config, frame |-> stream.frame + 1]
             F == Frames(fed, Len(fed))
  <2>p. packet \in Packet BY <1>t DEF Packet
  <2>4. CASE Accepting /\ queue_' = Append(queue_, packet) /\ UNCHANGED failed_
    <3>1. Accepting' = Accepting BY <2>1, <2>4 DEF Accepting
    <3>2. ASSUME configure_', ~failed_'
          PROVE  Follow(queue_', stream'.config, 0) /\ stream'.frame = Len(queue_')
      <4>1. Follow(queue_, stream.config, 0) /\ stream.frame = Len(queue_)
        BY <1>c, <2>1, <2>4, <3>2, Zenon
      <4>2. packet = [config |-> stream.config, frame |-> 0 + Len(queue_) + 1]
        <5>1. stream.frame + 1 = 0 + Len(queue_) + 1 BY <1>t, <4>1
        <5>2. QED BY <5>1, Zenon
      <4> HIDE DEF packet
      <4>3. Follow(queue_', stream.config, 0) /\ Len(queue_') = Len(queue_) + 1
        BY <1>t, <2>p, <2>4, <4>1, <4>2, FollowAppend, 0 \in Nat
      <4>4. QED BY <2>3, <4>1, <4>3, Zenon
    <3>3. ASSUME decoder' # 0, ~configure_', main' # "error"
          PROVE  /\ Follow(queue_', decoder', Frames(fed', Len(fed')))
                 /\ stream'.config = decoder'
                 /\ stream'.frame = Frames(fed', Len(fed')) + Len(queue_')
      <4>1. Follow(queue_, decoder, F) /\ stream.config = decoder
            /\ stream.frame = F + Len(queue_)
        BY <1>d, <2>1, <2>4, <3>3, Zenon
      <4>2. packet = [config |-> decoder, frame |-> F + Len(queue_) + 1] BY <4>1, Zenon
      <4>f. F \in Nat BY <1>t
      <4> HIDE DEF packet, F
      <4>3. Follow(queue_', decoder, F) /\ Len(queue_') = Len(queue_) + 1
        BY <1>t, <2>p, <2>4, <4>1, <4>2, <4>f, FollowAppend
      <4>4. stream'.frame = F + Len(queue_') BY <1>t, <2>3, <4>1, <4>3, <4>f
      <4>5. QED BY <2>1, <2>3, <4>1, <4>3, <4>4, Zenon DEF F
    <3>4. QED BY <1>k, <2>1, <2>2, <3>1, <3>2, <3>3, Zenon DEF OrderKept
  <2>5. CASE failed_' = TRUE /\ UNCHANGED queue_
    <3>1. ~Accepting' BY <2>5 DEF Accepting
    <3>2. QED BY <1>k, <1>d, <2>1, <2>2, <2>5, <3>1, Zenon DEF OrderKept
  <2>6. CASE ~Accepting /\ UNCHANGED <<queue_, failed_>>
    <3>1. ~Accepting' /\ ~(configure_' /\ ~failed_') BY <1>k, <2>1, <2>6 DEF Accepting
    <3>2. QED BY <1>k, <1>d, <2>1, <2>2, <2>6, <3>1, Zenon DEF OrderKept
  <2>7. QED BY <1>2, <2>4, <2>5, <2>6, Zenon DEF Frame
<1>3. CASE Reset
  <2>1. /\ configure_' = FALSE /\ reset_' = TRUE /\ queue_' = << >> /\ config_' = None
        /\ UNCHANGED <<decoder, fed>>
    BY <1>3, Zenon DEF Reset, hardware
  <2>2. FramesInOrder' /\ ~Accepting' BY <1>k, <2>1, FedSame DEF Accepting
  <2>3. \A c, n : Follow(queue_', c, n) BY <2>1, NothingWaits, Zenon
  <2>4. QED BY <1>n, <2>1, <2>2, <2>3, Zenon DEF OrderKept
<1>4. CASE PumpLook
  <2>1. /\ configure_' = FALSE /\ reset_' = FALSE
        /\ UNCHANGED <<enabled_, failed_, queue_, config_, stream>>
        /\ main \in {"free", "pump"}
    BY <1>4, Zenon DEF PumpLook, Dispatched
  <2>2. CASE decoder' = 0 /\ fed' = << >>
    <3>1. FramesInOrder' BY <2>2, FedNothing
    <3>2. QED BY <1>k, <2>1, <2>2, <3>1, Zenon DEF OrderKept
  <2>3. CASE main' = "error" /\ UNCHANGED <<decoder, fed>>
    <3>1. FramesInOrder' BY <1>k, <2>3, FedSame
    <3>2. QED BY <1>k, <2>1, <2>3, <3>1, Zenon DEF OrderKept
  <2>4. CASE configure_ /\ ~failed_ /\ fed' = << >> /\ decoder' = stream.config
    <3>1. FramesInOrder' BY <2>4, FedNothing
    <3>2. Follow(queue_, stream.config, 0) /\ stream.frame = Len(queue_)
      BY <1>c, <2>1, <2>4
    <3>3. Frames(fed', Len(fed')) = 0 BY <2>4, NothingWaits, Zenon
    <3>4. stream'.frame = Frames(fed', Len(fed')) + Len(queue_') BY <1>t, <2>1, <3>2, <3>3
    <3>5. Follow(queue_', decoder', Frames(fed', Len(fed'))) /\ stream'.config = decoder'
      <4>1. queue_' = queue_ /\ stream' = stream /\ decoder' = stream.config BY <2>1, <2>4
      <4>2. QED BY <3>2, <3>3, <4>1, Zenon
    <3>6. QED BY <1>k, <2>1, <3>1, <3>4, <3>5, Zenon DEF OrderKept
  <2>5. CASE ~reset_ /\ ~configure_ /\ UNCHANGED <<decoder, fed>>
    <3>1. FramesInOrder' BY <1>k, <2>5, FedSame
    <3>2. reset_' = reset_ BY <1>4, <2>1, <2>5 DEF IInv, FlagsOK
    <3>3. Accepting' = Accepting BY <2>1, <3>2 DEF Accepting
    <3>4. main # "error" BY <2>1
    <3>5. QED BY <1>k, <1>d, <2>1, <2>5, <3>1, <3>3, <3>4, Zenon DEF OrderKept
  <2>6. QED BY <1>4, <2>2, <2>3, <2>4, <2>5, Zenon DEF PumpLook, CloseDecoder, hardware
<1>5. CASE PumpTake
  <2>1. /\ main = "take" /\ main' = "free"
        /\ UNCHANGED <<enabled_, configure_, reset_, failed_, stream, decoder>>
    BY <1>5, Zenon DEF PumpTake
  <2>2. decoder # 0 BY <2>1 DEF IInv, CallsKept
  <2>3. Accepting' = Accepting BY <2>1 DEF Accepting
  <2> DEFINE F == Frames(fed, Len(fed))
  <2>f. F \in Nat BY <1>t
  <2>d. ~configure_ =>
          /\ Follow(queue_, decoder, F)
          /\ Accepting => stream.config = decoder /\ stream.frame = F + Len(queue_)
    BY <1>d, <2>1, <2>2
  <2>i. \A n \in 1 .. Len(fed) : fed[n].frame > 0 =>
          fed[n] = [config |-> decoder, frame |-> Frames(fed, n)]
    BY <1>t, <1>k, LenProperties DEF FramesInOrder
  <2>4. CASE fed' = Append(fed, config_) /\ config_' = None /\ UNCHANGED queue_
    <3>1. /\ Len(fed') = Len(fed) + 1 /\ DOMAIN fed' = 1 .. Len(fed) + 1
          /\ fed'[Len(fed) + 1] = config_ /\ \A i \in 1 .. Len(fed) : fed'[i] = fed[i]
          /\ \A n \in 1 .. Len(fed) : Frames(fed', n) = Frames(fed, n)
          /\ Frames(fed', Len(fed')) = F + (IF config_.frame > 0 THEN 1 ELSE 0)
      BY <1>t, <2>4, Fed
    <3>2. Frames(fed', Len(fed')) = F
      <4> HIDE DEF F
      <4>1. QED BY <1>k, <2>f, <3>1
    <3>3. ASSUME NEW n \in DOMAIN fed', fed'[n].frame > 0
          PROVE  fed'[n] = [config |-> decoder', frame |-> Frames(fed', n)]
      <4>1. n \in 1 .. Len(fed) BY <1>k, <1>t, <3>1, <3>3
      <4>2. fed'[n] = fed[n] /\ Frames(fed', n) = Frames(fed, n) BY <3>1, <4>1
      <4>3. QED BY <2>1, <2>i, <3>3, <4>1, <4>2, Zenon
    <3>4. FramesInOrder' BY <3>3, Zenon DEF FramesInOrder
    <3>5. QED BY <1>k, <1>n, <1>c, <2>1, <2>3, <2>4, <2>d, <3>2, <3>4, Zenon DEF OrderKept
  <2>5. CASE config_ = None /\ queue_ # << >> /\ fed' = Append(fed, Head(queue_))
             /\ queue_' = Tail(queue_) /\ UNCHANGED config_
    <3>c. ~configure_ BY <1>k, <2>1, <2>5
    <3> DEFINE p == Head(queue_)
    <3> HIDE DEF F
    <3>1. /\ p = [config |-> decoder, frame |-> F + 1]
          /\ Follow(Tail(queue_), decoder, F + 1)
          /\ Len(Tail(queue_)) = Len(queue_) - 1
      BY <1>t, <2>5, <2>d, <2>f, <3>c, FollowTail
    <3>p. p \in Packet /\ p.frame > 0 BY <1>t, <2>f, <3>1 DEF Packet
    <3> HIDE DEF p
    <3>2. /\ Len(fed') = Len(fed) + 1 /\ DOMAIN fed' = 1 .. Len(fed) + 1
          /\ fed'[Len(fed) + 1] = p /\ \A i \in 1 .. Len(fed) : fed'[i] = fed[i]
          /\ \A n \in 1 .. Len(fed) : Frames(fed', n) = Frames(fed, n)
          /\ Frames(fed', Len(fed')) = F + (IF p.frame > 0 THEN 1 ELSE 0)
      BY <1>t, <2>5, <3>p, Fed DEF F, p
    <3>3. Frames(fed', Len(fed')) = F + 1 BY <3>p, <3>2
    <3>4. ASSUME NEW n \in DOMAIN fed', fed'[n].frame > 0
          PROVE  fed'[n] = [config |-> decoder', frame |-> Frames(fed', n)]
      <4>1. CASE n = Len(fed) + 1
        <5>1. n = Len(fed') /\ fed'[n] = p BY <3>2, <4>1, Zenon
        <5>2. Frames(fed', n) = F + 1 BY <3>3, <5>1, Zenon
        <5>3. QED BY <2>1, <3>1, <5>1, <5>2, Zenon DEF p
      <4>2. CASE n \in 1 .. Len(fed)
        <5>1. fed'[n] = fed[n] /\ Frames(fed', n) = Frames(fed, n) BY <3>2, <4>2
        <5>2. QED BY <2>1, <2>i, <3>4, <4>2, <5>1, Zenon
      <4>3. n \in 1 .. Len(fed) + 1 BY <3>2, Zenon
      <4>4. QED BY <1>t, <4>1, <4>2, <4>3
    <3>5. FramesInOrder' BY <3>4, Zenon DEF FramesInOrder
    <3>6. Follow(queue_', decoder', Frames(fed', Len(fed'))) BY <2>1, <2>5, <3>1, <3>3, Zenon
    <3>7. Accepting' => /\ stream'.config = decoder'
                        /\ stream'.frame = Frames(fed', Len(fed')) + Len(queue_')
      <4>1. Accepting => stream.config = decoder /\ stream.frame = (F + 1) + (Len(queue_) - 1)
        BY <1>t, <2>d, <2>f, <3>c
      <4>2. Len(queue_') = Len(queue_) - 1 BY <2>5, <3>1, Zenon
      <4>3. QED BY <2>1, <2>3, <3>3, <4>1, <4>2, Zenon
    <3>8. QED BY <1>k, <2>1, <2>5, <3>c, <3>5, <3>6, <3>7, Zenon DEF OrderKept
  <2>6. CASE UNCHANGED <<fed, config_, queue_>>
    <3>1. QED BY <2>1, <2>6, OrderQuiet
  <2>7. QED BY <1>5, <2>4, <2>5, <2>6, Zenon DEF PumpTake, Decode
<1>6. CASE Error
  <2>1. /\ failed_' = TRUE /\ queue_' = << >> /\ main = "error" /\ main' = "free"
        /\ UNCHANGED <<enabled_, configure_, reset_, config_, decoder, fed>>
    BY <1>6, Zenon DEF Error
  <2>2. FramesInOrder' /\ ~Accepting' BY <1>k, <2>1, FedSame DEF Accepting
  <2>3. \A c, n : Follow(queue_', c, n) BY <2>1, NothingWaits, Zenon
  <2>4. main # "gone" /\ main' # "take" BY <2>1
  <2>5. QED BY <1>k, <2>1, <2>2, <2>3, <2>4, Zenon DEF OrderKept
<1>7. CASE Enable
  <2>1. /\ configure_' = FALSE /\ reset_' = TRUE /\ queue_' = << >> /\ config_' = None
        /\ UNCHANGED <<decoder, fed>>
    BY <1>7, Zenon DEF Enable, hardware
  <2>2. FramesInOrder' /\ ~Accepting' BY <1>k, <2>1, FedSame DEF Accepting
  <2>3. \A c, n : Follow(queue_', c, n) BY <2>1, NothingWaits, Zenon
  <2>4. QED BY <1>n, <2>1, <2>2, <2>3, Zenon DEF OrderKept
<1>8. CASE Shutdown
  <2>1. decoder' = 0 /\ fed' = << >> /\ main' = "gone" /\ UNCHANGED config_
    BY <1>8, Zenon DEF Shutdown, CloseDecoder
  <2>2. FramesInOrder' BY <2>1, FedNothing
  <2>3. main' # "take" BY <2>1
  <2>4. QED BY <1>k, <2>1, <2>2, <2>3, Zenon DEF OrderKept
<1>9. CASE Initialized \/ Decoded \/ Picture \/ Painted \/ \E kind \in Kinds : CallFails(kind)
  <2>1. /\ UNCHANGED <<enabled_, configure_, reset_, failed_, queue_, config_>>
        /\ UNCHANGED <<stream, decoder, fed>>
    BY <1>9, Zenon DEF Initialized, Decoded, Picture, Painted, CallFails, shared
  <2>2. main = "free" /\ main' \in {"free", "pump", "error"}
    BY <1>9, Zenon DEF Initialized, Decoded, Picture, Painted, CallFails
  <2>3. QED BY <2>1, <2>2, OrderQuiet
<1>10. CASE UiStart \/ UiStop \/ UiMessage \/ UNCHANGED vars
  <2>1. /\ UNCHANGED <<enabled_, configure_, reset_, failed_, queue_, config_>>
        /\ UNCHANGED <<stream, decoder, fed, main>>
    BY <1>10, Zenon DEF UiStart, UiStop, UiMessage, vars, shared, hardware
  <2>2. QED BY <2>1, OrderQuiet
<1>11. QED
  BY <1>1, <1>2, <1>3, <1>4, <1>5, <1>6, <1>7, <1>8, <1>9, <1>10, Zenon DEF Next, MainStep

-----------------------------------------------------------------------------
(* The theorems. *)

\* The main thread's flags, the calls of the platform, the pictures it holds and the
\* calls of Pump() that are queued always fit together.
THEOREM HostInvariant == Spec => []IInv
<1>1. Init => IInv BY InitIInv
<1>2. IInv /\ [Next]_vars => IInv' BY NextIInv
<1>3. QED BY <1>1, <1>2, PTL DEF Spec

\* Every variable keeps its type; Frame() never queues more than QueueLimit packets.
THEOREM HostTypes == Spec => []TypeOK
<1>1. Init => QueuesOK BY InitQueues
<1>2. IInv /\ QueuesOK /\ [Next]_vars => QueuesOK' BY QueuesStep
<1>3. IInv /\ QueuesOK => TypeOK BY DEF IInv, TypeOK
<1>4. QED BY <1>1, <1>2, <1>3, HostInvariant, PTL DEF Spec

\* Pump() and the callbacks never have two calls of a kind under way, nor one of a
\* decoder that was closed, and decoding_ and painting_ always say which there are.
THEOREM HostOneOfEachCall == Spec => []OneOfEachCall
<1>1. IInv => OneOfEachCall BY DEF IInv
<1>2. QED BY <1>1, HostInvariant, PTL

\* Picture() and Painted() give every picture back but the one being painted and the
\* one that waits.
THEOREM HostPicturesReturn == Spec => []PicturesReturn
<1>1. IInv => PicturesReturn BY DEF IInv
<1>2. QED BY <1>1, HostInvariant, PTL

\* However the sections of the mirroring thread fall between the two of Pump(), a
\* packet a ready decoder could take has a call of Pump() on its way.
THEOREM HostNoLostWakeup == Spec => []NoLostWakeup
<1>1. IInv => NoLostWakeup BY DEF IInv
<1>2. QED BY <1>1, HostInvariant, PTL

\* Configure(), Frame() and Reset() of the mirroring thread and Pump() on the main thread
\* never mix the frames of two configurations, leave one out or give one twice.
THEOREM HostFramesInOrder == Spec => []FramesInOrder
<1>1. Init => QueuesOK BY InitQueues
<1>2. Init => OrderKept
  <2> SUFFICES ASSUME Init PROVE OrderKept OBVIOUS
  <2>1. fed = << >> /\ decoder = 0 /\ ~configure_ /\ config_ = None BY DEF Init
  <2>2. FramesInOrder BY <2>1, EmptyDomain, Zenon DEF FramesInOrder
  <2>3. config_.frame = 0 BY <2>1 DEF None
  <2>4. QED BY <2>1, <2>2, <2>3, Zenon DEF OrderKept
<1>3. IInv /\ QueuesOK /\ [Next]_vars => QueuesOK' BY QueuesStep
<1>4. IInv /\ QueuesOK /\ OrderKept /\ [Next]_vars => OrderKept' BY OrderStep
<1>5. OrderKept => FramesInOrder BY Zenon DEF OrderKept
<1>6. QED BY <1>1, <1>2, <1>3, <1>4, <1>5, HostInvariant, PTL DEF Spec
=============================================================================
