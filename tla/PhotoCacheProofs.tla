-------------------------- MODULE PhotoCacheProofs --------------------------
(***************************************************************************)
(* Proofs about PhotoCache, for every set of keys, sessions and sizes,     *)
(* every byte budget that holds two largest images, and every width of the *)
(* session counter.                                                        *)
(***************************************************************************)
EXTENDS PhotoCache, TLAPS

\* The discarded slot is an asset record.
LEMMA EmptyAssetType == EmptyAsset \in Asset
<1>1. 0 \in Nat OBVIOUS
<1>2. QED BY <1>1, NamesAssumption, Zenon DEF EmptyAsset, Asset

\* The sizes of the four slots add up to a number.
LEMMA BytesOfType ==
  ASSUME NEW c, \A i \in Slots : c[i].size \in Nat, NEW S
  PROVE  BytesOf(c, S) \in Nat
<1>1. c[0].size \in Nat /\ c[1].size \in Nat /\ c[2].size \in Nat /\ c[3].size \in Nat
  BY DEF Slots
<1>2. /\ SizeIn(c, S, 0) \in Nat /\ SizeIn(c, S, 1) \in Nat
      /\ SizeIn(c, S, 2) \in Nat /\ SizeIn(c, S, 3) \in Nat
  BY <1>1, Zenon DEF SizeIn
<1> HIDE DEF SizeIn
<1>3. QED BY <1>2 DEF BytesOf

\* The initial cache satisfies the invariant.
LEMMA InitIInv == Init => IInv
<1> SUFFICES ASSUME Init PROVE IInv OBVIOUS
<1>1. TypeOK
  <2>1. cache \in [Slots -> Asset] BY EmptyAssetType DEF Init
  <2>2. active \in BOOLEAN /\ session \in Sessions /\ verdict \in {"none", "ready", "failed"}
    BY NamesAssumption, Zenon DEF Init
  <2>3. /\ displayed \in Slots \cup {-1} /\ age \in Nat /\ generation \in Nat
        /\ session_counter \in 0 .. SessionIds - 1 /\ session_id \in 0 .. SessionIds - 1
    BY SessionIdsAssumption DEF Init
  <2>4. QED BY <2>1, <2>2, <2>3 DEF TypeOK
<1>2. AssetsKept /\ BudgetKept
  BY SizesAssumption DEF Init, AssetsKept, BudgetKept, EmptyAsset, BytesOf, SizeIn, Slots
<1>3. DisplayPinned /\ IdCurrent BY Zenon DEF Init, DisplayPinned, IdCurrent
<1>4. OneImagePerName BY DEF Init, OneImagePerName, EmptyAsset
<1>5. QED BY <1>1, <1>2, <1>3, <1>4 DEF IInv

\* Showing a photo: the counters stay in range and the session on screen has
\* the last id.
LEMMA ShowEffect ==
  ASSUME IInv, NEW slot \in Slots, NEW of \in Sessions, Show(slot, of)
  PROVE  /\ displayed' = slot /\ active' = TRUE /\ verdict' = "none" /\ session' = of
         /\ generation' \in Nat /\ generation' > generation
         /\ session_counter' \in 0 .. SessionIds - 1
         /\ session_id' = session_counter' /\ session_id' # 0
         /\ active /\ session # of => session_id' # session_id
<1>1. /\ displayed' = slot /\ active' = TRUE /\ verdict' = "none" /\ session' = of
      /\ generation' = generation + 1
  BY Zenon DEF Show
<1>2. generation' \in Nat /\ generation' > generation BY <1>1 DEF IInv, TypeOK
<1>3. /\ NextSessionId \in 0 .. SessionIds - 1 /\ NextSessionId # 0
      /\ NextSessionId # session_counter
  BY SessionIdsAssumption DEF NextSessionId, IInv, TypeOK
<1>4. CASE ~active \/ session # of
  <2>1. session_counter' = NextSessionId /\ session_id' = NextSessionId
    BY <1>4, Zenon DEF Show
  <2>2. active => session_id = session_counter BY DEF IInv, IdCurrent
  <2>3. QED BY <1>1, <1>2, <1>3, <2>1, <2>2
<1>5. CASE active /\ session = of
  <2>1. session_counter' = session_counter /\ session_id' = session_id
    BY <1>5, Zenon DEF Show
  <2>2. session_id = session_counter /\ session_id # 0
    BY <1>5, Zenon DEF IInv, IdCurrent, DisplayPinned
  <2>3. session_counter \in 0 .. SessionIds - 1 BY DEF IInv, TypeOK
  <2>4. QED BY <1>1, <1>2, <1>5, <2>1, <2>2, <2>3
<1>6. QED BY <1>4, <1>5

\* Storing an upload: its slot gets it, every other slot is kept or emptied, the
\* one on screen is kept, and the budget holds.
LEMMA StoreEffect ==
  ASSUME IInv, NEW slot \in Slots, NEW key \in Keys \cup {NoKey}, NEW of \in Sessions,
         NEW size \in Sizes, Target(slot, key, of), Store(slot, key, of, size)
  PROVE  /\ age' \in Nat
         /\ cache' \in [Slots -> Asset]
         /\ cache'[slot].data # 0 /\ cache'[slot].key = key /\ cache'[slot].session = of
         /\ \A i \in Slots : i # slot => cache'[i] = cache[i] \/ cache'[i].data = 0
         /\ displayed # -1 /\ displayed # slot => cache'[displayed] = cache[displayed]
         /\ AssetsKept' /\ BudgetKept' /\ OneImagePerName'
<1> DEFINE new == [data |-> age + 1, size |-> size, age |-> age + 1,
                   key |-> key, session |-> of]
<1>1. age \in Nat /\ age' = age + 1 /\ age + 1 \in Nat BY DEF IInv, TypeOK, Store
<1>2. PICK cut \in 0 .. age + 1 :
        /\ Fits(slot, size, cut)
        /\ cache' = [i \in Slots |-> IF i = slot THEN new
                                     ELSE IF i \in UsedBefore(slot, cut) THEN EmptyAsset
                                     ELSE cache[i]]
  BY DEF Store, FirstFit
<1>3. size \in Nat /\ size <= PhotoMaxBytes /\ size > 0 BY SizesAssumption
<1>4. new \in Asset BY <1>1, <1>3, Zenon DEF Asset
<1>5. /\ new.data = age + 1 /\ new.size = size /\ new.age = age + 1
      /\ new.key = key /\ new.session = of
  OBVIOUS
<1> HIDE DEF new
<1>6. \A i \in Slots : cache[i] \in Asset BY DEF IInv, TypeOK
<1>7. \A i \in Slots : cache'[i] = IF i = slot THEN new
                                   ELSE IF i \in UsedBefore(slot, cut) THEN EmptyAsset
                                   ELSE cache[i]
  BY <1>2
<1>8. EmptyAsset.data = 0 /\ EmptyAsset.size = 0 /\ EmptyAsset.age = 0 BY DEF EmptyAsset
<1>9. cache' \in [Slots -> Asset]
  <2>1. \A i \in Slots : cache'[i] \in Asset BY <1>4, <1>6, <1>7, EmptyAssetType, Zenon
  <2>2. QED BY <1>2, <2>1, Zenon
<1>10. cache'[slot].data # 0 /\ cache'[slot].key = key /\ cache'[slot].session = of
  BY <1>1, <1>5, <1>7
<1>11. \A i \in Slots : i # slot => cache'[i] = cache[i] \/ cache'[i].data = 0
  BY <1>7, <1>8, Zenon
<1>12. ASSUME displayed # -1, displayed # slot PROVE cache'[displayed] = cache[displayed]
  <2>1. displayed \in Slots BY <1>12 DEF IInv, TypeOK
  <2>2. displayed \notin UsedBefore(slot, cut) BY DEF UsedBefore, Evictable
  <2>3. QED BY <1>7, <1>12, <2>1, <2>2, Zenon
<1>13. AssetsKept'
  <2>1. \A i \in Slots : /\ cache[i].data = 0 => cache[i].size = 0
                         /\ cache[i].size <= PhotoMaxBytes /\ cache[i].age <= age
                         /\ cache[i].age \in Nat
    BY <1>6 DEF IInv, AssetsKept, Asset
  <2>2. ASSUME NEW i \in Slots
        PROVE  /\ cache'[i].data = 0 => cache'[i].size = 0
               /\ cache'[i].size <= PhotoMaxBytes /\ cache'[i].age <= age + 1
    <3>1. CASE i = slot BY <1>1, <1>3, <1>5, <1>7, <3>1
    <3>2. CASE i # slot /\ i \in UsedBefore(slot, cut)
      <4>1. cache'[i] = EmptyAsset BY <1>7, <3>2, Zenon
      <4>2. QED BY <1>1, <1>8, <4>1, SizesAssumption
    <3>3. CASE i # slot /\ i \notin UsedBefore(slot, cut)
      <4>1. cache'[i] = cache[i] BY <1>7, <3>3, Zenon
      <4>2. QED BY <1>1, <2>1, <4>1
    <3>4. QED BY <3>1, <3>2, <3>3
  <2>3. QED BY <1>1, <2>2 DEF AssetsKept
<1>14. BudgetKept'
  <2> DEFINE kept == Slots \ ({slot} \cup UsedBefore(slot, cut))
             was(i) == SizeIn(cache, kept, i)
             is(i) == SizeIn(cache', Slots, i)
  <2>1. ASSUME NEW i \in Slots
        PROVE  /\ was(i) \in Nat
               /\ i = slot => was(i) = 0 /\ is(i) = size
               /\ i # slot => is(i) = was(i)
    <3>1. is(i) = cache'[i].size BY DEF SizeIn
    <3>2. cache[i].size \in Nat BY <1>6 DEF Asset
    <3>3. CASE i = slot
      <4>1. i \notin kept BY <3>3
      <4>2. was(i) = 0 BY <4>1 DEF SizeIn
      <4>3. is(i) = size BY <1>5, <1>7, <3>1, <3>3
      <4>4. QED BY <3>3, <4>2, <4>3
    <3>4. CASE i # slot /\ i \in UsedBefore(slot, cut)
      <4>1. i \notin kept BY <3>4
      <4>2. was(i) = 0 BY <4>1 DEF SizeIn
      <4>3. is(i) = 0 BY <1>7, <1>8, <3>1, <3>4
      <4>4. QED BY <3>4, <4>2, <4>3
    <3>5. CASE i # slot /\ i \notin UsedBefore(slot, cut)
      <4>1. i \in kept BY <3>5
      <4>2. was(i) = cache[i].size BY <4>1 DEF SizeIn
      <4>3. is(i) = cache[i].size BY <1>7, <3>1, <3>5
      <4>4. QED BY <3>2, <3>5, <4>2, <4>3
    <3>6. QED BY <3>3, <3>4, <3>5
  <2>2. size + (was(0) + was(1) + was(2) + was(3)) <= CacheBytes
    BY <1>2 DEF Fits, BytesOf
  <2> HIDE DEF was, is
  <2>3. is(0) + is(1) + is(2) + is(3) <= CacheBytes
    <3>1. slot = 0 \/ slot = 1 \/ slot = 2 \/ slot = 3 BY DEF Slots
    <3>2. 0 \in Slots /\ 1 \in Slots /\ 2 \in Slots /\ 3 \in Slots BY DEF Slots
    <3>3. CASE slot = 0 BY <1>3, <2>1, <2>2, <3>2, <3>3
    <3>4. CASE slot = 1 BY <1>3, <2>1, <2>2, <3>2, <3>4
    <3>5. CASE slot = 2 BY <1>3, <2>1, <2>2, <3>2, <3>5
    <3>6. CASE slot = 3 BY <1>3, <2>1, <2>2, <3>2, <3>6
    <3>7. QED BY <3>1, <3>3, <3>4, <3>5, <3>6
  <2>4. QED BY <2>3 DEF BudgetKept, BytesOf, is
<1>15. OneImagePerName'
  <2>1. ASSUME NEW i \in Slots, i # slot, cache'[i].data # 0
        PROVE  cache'[i] = cache[i] /\ ~(cache[i].key = key /\ cache[i].session = of)
    <3>1. cache'[i] = cache[i] /\ cache[i].data # 0 BY <1>11, <2>1
    <3>2. ~Matches(i, key, of)
      <4>1. CASE Matches(slot, key, of)
        BY <2>1, <4>1, Zenon DEF IInv, OneImagePerName, Matches
      <4>2. CASE ~Cached(key, of) BY <4>2 DEF Cached
      <4>3. QED BY <4>1, <4>2 DEF Target
    <3>3. QED BY <3>1, <3>2 DEF Matches
  <2>2. SUFFICES ASSUME NEW i \in Slots, NEW j \in Slots, cache'[i].data # 0,
                        cache'[j].data # 0, cache'[i].key = cache'[j].key,
                        cache'[i].session = cache'[j].session
                 PROVE  i = j
    BY DEF OneImagePerName
  <2>3. CASE i = slot /\ j # slot BY <1>10, <2>1, <2>2, <2>3
  <2>4. CASE i # slot /\ j = slot BY <1>10, <2>1, <2>2, <2>4
  <2>5. CASE i # slot /\ j # slot
    <3>1. cache'[i] = cache[i] /\ cache'[j] = cache[j] BY <2>1, <2>2, <2>5
    <3>2. QED BY <2>2, <3>1 DEF IInv, OneImagePerName
  <2>6. QED BY <2>3, <2>4, <2>5
<1>16. QED BY <1>1, <1>9, <1>10, <1>11, <1>12, <1>13, <1>14, <1>15

\* A slot that is evicted for an upload is not the one on screen.
LEMMA TargetSpared ==
  ASSUME IInv, NEW slot \in Slots, NEW key, NEW of, Target(slot, key, of),
         ~Recached(key, of)
  PROVE  displayed # slot
<1> SUFFICES ASSUME displayed = slot PROVE FALSE OBVIOUS
<1>1. displayed # -1 BY DEF Slots
<1>2. ~Matches(slot, key, of) BY <1>1 DEF Recached
<1>3. cache[slot].data # 0 BY <1>1 DEF IInv, DisplayPinned
<1>4. slot \in Evictable(-1) BY <1>2, <1>3 DEF Target, OldestOf
<1>5. QED BY <1>4 DEF Evictable

\* Displaying an upload preserves the invariant.
LEMMA PutDisplayIInv ==
  ASSUME IInv, NEW key \in Keys \cup {NoKey}, NEW of \in Sessions, NEW size \in Sizes,
         PutDisplay(key, of, size)
  PROVE  IInv'
<1>1. PICK slot \in Slots : Target(slot, key, of) /\ Show(slot, of) /\ Store(slot, key, of, size)
  BY Zenon DEF PutDisplay
<1>2. /\ displayed' = slot /\ active' = TRUE /\ verdict' = "none" /\ session' = of
      /\ generation' \in Nat /\ session_counter' \in 0 .. SessionIds - 1
      /\ session_id' = session_counter' /\ session_id' # 0
  BY <1>1, ShowEffect, Zenon
<1>3. /\ age' \in Nat /\ cache' \in [Slots -> Asset]
      /\ cache'[slot].data # 0 /\ cache'[slot].session = of
      /\ AssetsKept' /\ BudgetKept' /\ OneImagePerName'
  BY <1>1, StoreEffect, Zenon
<1>4. slot # -1 BY DEF Slots
<1>5. TypeOK' BY <1>2, <1>3, Zenon DEF TypeOK
<1>6. DisplayPinned' BY <1>2, <1>3, <1>4, Zenon DEF DisplayPinned
<1>7. IdCurrent' BY <1>2, Zenon DEF IdCurrent
<1>8. QED BY <1>3, <1>5, <1>6, <1>7, Zenon DEF IInv

\* Caching an upload preserves the invariant.
LEMMA PutCacheOnlyIInv ==
  ASSUME IInv, NEW key \in Keys, NEW of \in Sessions, NEW size \in Sizes,
         ~Recached(key, of), NEW slot \in Slots, Target(slot, key, of),
         Store(slot, key, of, size), KeepDisplay
  PROVE  /\ IInv'
         /\ displayed # -1 => cache'[displayed] = cache[displayed]
<1>1. /\ displayed' = displayed /\ session_counter' = session_counter
      /\ generation' = generation /\ active' = active /\ verdict' = verdict
      /\ session' = session /\ session_id' = session_id
  BY Zenon DEF KeepDisplay, state
<1>2. key \in Keys \cup {NoKey} OBVIOUS
<1>3. /\ age' \in Nat /\ cache' \in [Slots -> Asset]
      /\ displayed # -1 /\ displayed # slot => cache'[displayed] = cache[displayed]
      /\ AssetsKept' /\ BudgetKept' /\ OneImagePerName'
  BY <1>2, StoreEffect, Zenon
<1>4. displayed # slot BY TargetSpared, Zenon
<1>5. TypeOK' BY <1>1, <1>3, Zenon DEF TypeOK, IInv
<1>6. DisplayPinned' BY <1>1, <1>3, <1>4, Zenon DEF DisplayPinned, IInv
<1>7. IdCurrent' BY <1>1, Zenon DEF IdCurrent, IInv
<1>8. QED BY <1>3, <1>4, <1>5, <1>6, <1>7, Zenon DEF IInv

\* Showing a cached photo preserves the invariant: only its age changes.
LEMMA DisplayCachedIInv ==
  ASSUME IInv, NEW key \in Keys, NEW of \in Sessions, NEW slot \in Slots,
         Matches(slot, key, of), Show(slot, of), age' = age + 1,
         cache' = [cache EXCEPT ![slot].age = age + 1]
  PROVE  IInv'
<1>1. /\ displayed' = slot /\ active' = TRUE /\ verdict' = "none" /\ session' = of
      /\ generation' \in Nat /\ session_counter' \in 0 .. SessionIds - 1
      /\ session_id' = session_counter' /\ session_id' # 0
  BY ShowEffect, Zenon
<1>2. age \in Nat /\ age + 1 \in Nat /\ cache \in [Slots -> Asset] BY DEF IInv, TypeOK
<1>3. cache' \in [Slots -> Asset] BY <1>2 DEF Asset
<1>4. \A i \in Slots : /\ cache'[i].data = cache[i].data /\ cache'[i].size = cache[i].size
                       /\ cache'[i].key = cache[i].key /\ cache'[i].session = cache[i].session
                       /\ cache'[i].age = cache[i].age \/ cache'[i].age = age + 1
                       /\ cache[i].age \in Nat
  BY <1>2 DEF Asset
<1>5. AssetsKept'
  <2>1. \A i \in Slots : /\ cache[i].data = 0 => cache[i].size = 0
                         /\ cache[i].size <= PhotoMaxBytes /\ cache[i].age <= age
    BY DEF IInv, AssetsKept
  <2>2. QED BY <1>2, <1>4, <2>1 DEF AssetsKept
<1>6. BudgetKept'
  <2>1. BytesOf(cache', Slots) = BytesOf(cache, Slots) BY <1>4 DEF BytesOf, SizeIn, Slots
  <2>2. QED BY <2>1, Zenon DEF BudgetKept, IInv
<1>7. OneImagePerName'
  <2>1. SUFFICES ASSUME NEW i \in Slots, NEW j \in Slots, cache'[i].data # 0,
                        cache'[j].data # 0, cache'[i].key = cache'[j].key,
                        cache'[i].session = cache'[j].session
                 PROVE  i = j
    BY DEF OneImagePerName
  <2>2. /\ cache[i].data # 0 /\ cache[j].data # 0 /\ cache[i].key = cache[j].key
        /\ cache[i].session = cache[j].session
    BY <1>4, <2>1
  <2>3. QED BY <2>2 DEF OneImagePerName, IInv
<1>8. cache'[slot].data # 0 /\ cache'[slot].session = of BY <1>4 DEF Matches
<1>9. slot # -1 BY DEF Slots
<1>10. TypeOK' BY <1>1, <1>2, <1>3, Zenon DEF TypeOK
<1>11. DisplayPinned' BY <1>1, <1>8, <1>9, Zenon DEF DisplayPinned
<1>12. IdCurrent' BY <1>1, Zenon DEF IdCurrent
<1>13. QED BY <1>5, <1>6, <1>7, <1>10, <1>11, <1>12, Zenon DEF IInv

\* Clearing the cache preserves the invariant.
LEMMA ResetIInv == ASSUME IInv, Reset PROVE IInv'
<1>1. generation \in Nat /\ generation' = generation + 1 BY DEF IInv, TypeOK, Reset
<1>2. generation' \in Nat BY <1>1
<1>3. 0 \in 0 .. SessionIds - 1 BY SessionIdsAssumption
<1>4. cache' = [i \in Slots |-> EmptyAsset] BY Zenon DEF Reset
<1>5. TypeOK'
  <2>1. cache' \in [Slots -> Asset] BY <1>4, EmptyAssetType, Zenon
  <2>2. displayed' \in Slots \cup {-1} BY DEF Reset
  <2>3. QED BY <1>2, <1>3, <2>1, <2>2, NamesAssumption, Zenon DEF Reset, IInv, TypeOK
<1>6. AssetsKept'
  <2>1. EmptyAsset.size = 0 /\ EmptyAsset.age = 0 BY DEF EmptyAsset
  <2>2. age' \in Nat BY DEF Reset, IInv, TypeOK
  <2>3. QED BY <1>4, <2>1, <2>2, SizesAssumption DEF AssetsKept
<1>7. BudgetKept' BY <1>4, SizesAssumption DEF BudgetKept, BytesOf, SizeIn, Slots, EmptyAsset
<1>8. OneImagePerName' BY <1>4 DEF OneImagePerName, EmptyAsset
<1>9. DisplayPinned' /\ IdCurrent' BY Zenon DEF Reset, DisplayPinned, IdCurrent
<1>10. QED BY <1>5, <1>6, <1>7, <1>8, <1>9, Zenon DEF IInv

\* Nothing changes, nothing breaks.
LEMMA StutterIInv == ASSUME IInv, UNCHANGED vars PROVE IInv'
BY Zenon DEF IInv, TypeOK, AssetsKept, BudgetKept, DisplayPinned, OneImagePerName, IdCurrent,
   BytesOf, SizeIn, vars, state

\* Every step of the photo receiver preserves the invariant.
LEMMA NextIInv == IInv /\ [Next]_vars => IInv'
<1> SUFFICES ASSUME IInv, [Next]_vars PROVE IInv' OBVIOUS
<1>1. ASSUME NEW of \in Sessions, NEW size \in Sizes, NEW key \in Keys \cup {NoKey},
             PutDisplay(key, of, size)
      PROVE  IInv'
  BY <1>1, PutDisplayIInv, Zenon
<1>2. ASSUME NEW of \in Sessions, NEW size \in Sizes, NEW key \in Keys,
             PutCacheOnly(key, of, size)
      PROVE  IInv'
  BY <1>2, PutCacheOnlyIInv, StutterIInv, Zenon DEF PutCacheOnly
<1>3. ASSUME NEW of \in Sessions, NEW key \in Keys, PutDisplayCached(key, of) PROVE IInv'
  BY <1>3, DisplayCachedIInv, StutterIInv, Zenon DEF PutDisplayCached
<1>4. CASE Reset BY <1>4, ResetIInv, Zenon
<1>5. ASSUME NEW fetched \in 0 .. MaxGeneration, NEW outcome \in {"ready", "failed"},
             Report(fetched, outcome)
      PROVE  IInv'
  <2>1. CASE UNCHANGED vars BY <2>1, StutterIInv, Zenon
  <2>2. CASE /\ verdict' = outcome
             /\ UNCHANGED <<cache, displayed, age, session_counter, generation, active,
                            session, session_id>>
    <3>1. verdict' \in {"none", "ready", "failed"} BY <2>2, Zenon
    <3>2. TypeOK' BY <2>2, <3>1, Zenon DEF IInv, TypeOK
    <3>3. QED BY <2>2, <3>2, Zenon DEF IInv, AssetsKept, BudgetKept, DisplayPinned,
            OneImagePerName, IdCurrent, BytesOf, SizeIn
  <2>3. QED BY <1>5, <2>1, <2>2, Zenon DEF Report
<1>6. CASE UNCHANGED vars BY <1>6, StutterIInv, Zenon
<1>7. QED BY <1>1, <1>2, <1>3, <1>4, <1>5, <1>6, Zenon DEF Next

\* IInv holds in every reachable state of the photo receiver.
THEOREM PhotoInvariant == Spec => []IInv
<1>1. QED BY InitIInv, NextIInv, PTL DEF Spec

\* The state of the photo receiver keeps its types.
THEOREM PhotoTypes == Spec => []TypeOK
<1>1. IInv => TypeOK BY DEF IInv
<1>2. QED BY <1>1, PhotoInvariant, PTL

\* What is on screen is cached and survives every eviction.
THEOREM PhotoDisplayPinned == Spec => []DisplayPinned
<1>1. IInv => DisplayPinned BY DEF IInv
<1>2. QED BY <1>1, PhotoInvariant, PTL

\* A key and a session name at most one cached image.
THEOREM PhotoOneImage == Spec => []OneImagePerName
<1>1. IInv => OneImagePerName BY DEF IInv
<1>2. QED BY <1>1, PhotoInvariant, PTL

\* Among the slots that are not on screen, one was used least recently.
LEMMA LeastOfFour ==
  ASSUME NEW a, \A i \in Slots : a[i].age \in Nat, NEW d
  PROVE  \E i \in Slots \ {d} : \A j \in Slots \ {d} : a[i].age <= a[j].age
<1> DEFINE n(i) == a[i].age
<1>1. n(0) \in Nat /\ n(1) \in Nat /\ n(2) \in Nat /\ n(3) \in Nat BY DEF Slots
<1>2. SUFFICES ASSUME \A i \in Slots \ {d} : \E j \in Slots \ {d} : ~(n(i) <= n(j))
               PROVE  FALSE
  OBVIOUS
<1> HIDE DEF n
<1>3. ASSUME NEW i \in Slots, i # d
      PROVE  \/ (0 # d /\ ~(n(i) <= n(0))) \/ (1 # d /\ ~(n(i) <= n(1)))
             \/ (2 # d /\ ~(n(i) <= n(2))) \/ (3 # d /\ ~(n(i) <= n(3)))
  <2>1. PICK j \in Slots \ {d} : ~(n(i) <= n(j)) BY <1>2, <1>3
  <2>2. j = 0 \/ j = 1 \/ j = 2 \/ j = 3 BY DEF Slots
  <2>3. CASE j = 0 BY <2>1, <2>3
  <2>4. CASE j = 1 BY <2>1, <2>4
  <2>5. CASE j = 2 BY <2>1, <2>5
  <2>6. CASE j = 3 BY <2>1, <2>6
  <2>7. QED BY <2>2, <2>3, <2>4, <2>5, <2>6
<1>4. 0 \in Slots /\ 1 \in Slots /\ 2 \in Slots /\ 3 \in Slots BY DEF Slots
<1>5. 0 = d \/ (1 # d /\ ~(n(0) <= n(1))) \/ (2 # d /\ ~(n(0) <= n(2))) \/ (3 # d /\ ~(n(0) <= n(3)))
  BY <1>1, <1>3, <1>4
<1>6. 1 = d \/ (0 # d /\ ~(n(1) <= n(0))) \/ (2 # d /\ ~(n(1) <= n(2))) \/ (3 # d /\ ~(n(1) <= n(3)))
  BY <1>1, <1>3, <1>4
<1>7. 2 = d \/ (0 # d /\ ~(n(2) <= n(0))) \/ (1 # d /\ ~(n(2) <= n(1))) \/ (3 # d /\ ~(n(2) <= n(3)))
  BY <1>1, <1>3, <1>4
<1>8. 3 = d \/ (0 # d /\ ~(n(3) <= n(0))) \/ (1 # d /\ ~(n(3) <= n(1))) \/ (2 # d /\ ~(n(3) <= n(2)))
  BY <1>1, <1>3, <1>4
<1>9. QED BY <1>1, <1>5, <1>6, <1>7, <1>8

\* With nothing cached under its name, an upload still finds a slot.
LEMMA TargetExists ==
  ASSUME IInv, NEW key, NEW of
  PROVE  \E slot \in Slots : Target(slot, key, of)
<1>1. CASE Cached(key, of) BY <1>1 DEF Cached, Target
<1>2. CASE ~Cached(key, of) /\ \E i \in Slots : cache[i].data = 0
  <2>1. \E i \in Slots : cache[i].data = 0 /\ \A j \in Slots : j < i => cache[j].data # 0
    BY <1>2 DEF Slots
  <2>2. QED BY <1>2, <2>1 DEF Target
<1>3. CASE ~Cached(key, of) /\ \A i \in Slots : cache[i].data # 0
  <2>1. \A i \in Slots : cache[i].age \in Nat BY DEF IInv, TypeOK, Asset
  <2>2. PICK slot \in Slots \ {displayed} :
          \A j \in Slots \ {displayed} : cache[slot].age <= cache[j].age
    BY <2>1, LeastOfFour
  <2>3. Evictable(-1) = Slots \ {displayed} BY <1>3 DEF Evictable, Slots
  <2>4. OldestOf(Evictable(-1), slot) BY <2>2, <2>3, Zenon DEF OldestOf
  <2>5. QED BY <1>3, <2>4, Zenon DEF Target
<1>4. QED BY <1>1, <1>2, <1>3

\* Once all that may be discarded is, only the screen takes room: at most one
\* largest image, next to which every upload fits.
LEMMA RoomExists ==
  ASSUME IInv, NEW slot \in Slots, NEW size \in Sizes
  PROVE  Fits(slot, size, age + 1)
<1> DEFINE kept == Slots \ ({slot} \cup UsedBefore(slot, age + 1))
           was(i) == SizeIn(cache, kept, i)
<1>1. size \in Nat /\ size <= PhotoMaxBytes BY SizesAssumption
<1>2. ASSUME NEW i \in Slots
      PROVE  /\ was(i) \in Nat /\ was(i) <= PhotoMaxBytes
             /\ i # displayed => was(i) = 0
  <2>1. /\ cache[i].size \in Nat /\ cache[i].age \in Nat /\ cache[i].age <= age
        /\ cache[i].size <= PhotoMaxBytes /\ age \in Nat
        /\ cache[i].data = 0 => cache[i].size = 0
    BY DEF IInv, TypeOK, Asset, AssetsKept
  <2>2. CASE i \notin kept
    <3>1. was(i) = 0 BY <2>2 DEF SizeIn
    <3>2. QED BY <3>1, SizesAssumption
  <2>3. CASE i \in kept
    <3>1. was(i) = cache[i].size BY <2>3 DEF SizeIn
    <3>2. cache[i].age < age + 1 BY <2>1
    <3>3. i # displayed => cache[i].data = 0 BY <2>3, <3>2, Zenon DEF UsedBefore, Evictable
    <3>4. QED BY <2>1, <3>1, <3>3
  <2>4. QED BY <2>2, <2>3
<1> HIDE DEF was
<1>3. was(0) + was(1) + was(2) + was(3) <= PhotoMaxBytes
  <2>1. 0 \in Slots /\ 1 \in Slots /\ 2 \in Slots /\ 3 \in Slots BY DEF Slots
  <2>2. CASE displayed = 0 BY <1>2, <2>1, <2>2
  <2>3. CASE displayed = 1 BY <1>2, <2>1, <2>3
  <2>4. CASE displayed = 2 BY <1>2, <2>1, <2>4
  <2>5. CASE displayed # 0 /\ displayed # 1 /\ displayed # 2 BY <1>2, <2>1, <2>5
  <2>6. QED BY <2>2, <2>3, <2>4, <2>5
<1>4. was(0) \in Nat /\ was(1) \in Nat /\ was(2) \in Nat /\ was(3) \in Nat BY <1>2 DEF Slots
<1>5. size + (was(0) + was(1) + was(2) + was(3)) <= CacheBytes
  BY <1>1, <1>3, <1>4, SizesAssumption, CacheAssumption
<1>6. QED BY <1>5 DEF Fits, BytesOf, was

\* The budget holds, and neither 503 under the lock can happen.
THEOREM PhotoRoom == Spec => []RoomForEveryPhoto
<1>1. IInv => RoomForEveryPhoto
  <2>1. SUFFICES ASSUME IInv PROVE RoomForEveryPhoto OBVIOUS
  <2>2. BytesOf(cache, Slots) <= CacheBytes BY <2>1 DEF IInv, BudgetKept
  <2>3. QED BY <2>1, <2>2, TargetExists, RoomExists, Zenon DEF RoomForEveryPhoto
<1>2. QED BY <1>1, PhotoInvariant, PTL

\* While a generation stays on screen its image does not change.
THEOREM PhotoGeneration == Spec => GenerationNamesOneImage
<1> DEFINE Kept == generation' = generation /\ active =>
                     active' /\ cache'[displayed'].data = cache[displayed].data
<1>1. IInv /\ [Next]_vars => [Kept]_vars
  <2>1. SUFFICES ASSUME IInv, Next PROVE Kept BY Zenon
  <2>2. ASSUME NEW slot \in Slots, NEW of \in Sessions, Show(slot, of) PROVE Kept
    <3>1. generation \in Nat /\ generation' \in Nat /\ generation' > generation
      BY <2>1, <2>2, ShowEffect DEF IInv, TypeOK
    <3>2. generation' # generation BY <3>1
    <3>3. QED BY <3>2, Zenon
  <2>3. CASE UNCHANGED vars BY <2>3, Zenon DEF vars, state
  <2>4. ASSUME NEW of \in Sessions, NEW size \in Sizes, NEW key \in Keys \cup {NoKey},
               PutDisplay(key, of, size)
        PROVE  Kept
    BY <2>2, <2>4, Zenon DEF PutDisplay
  <2>5. ASSUME NEW of \in Sessions, NEW size \in Sizes, NEW key \in Keys,
               PutCacheOnly(key, of, size)
        PROVE  Kept
    <3>1. CASE UNCHANGED vars BY <2>3, <3>1, Zenon
    <3>2. CASE ~Recached(key, of) /\ KeepDisplay
               /\ \E slot \in Slots : Target(slot, key, of) /\ Store(slot, key, of, size)
      <4>1. displayed # -1 => cache'[displayed] = cache[displayed]
        BY <2>1, <3>2, PutCacheOnlyIInv, Zenon
      <4>2. displayed' = displayed /\ active' = active BY <3>2, Zenon DEF KeepDisplay, state
      <4>3. active => displayed # -1 BY <2>1, Zenon DEF IInv, DisplayPinned
      <4>4. QED BY <4>1, <4>2, <4>3, Zenon
    <3>3. QED BY <2>5, <3>1, <3>2, Zenon DEF PutCacheOnly
  <2>6. ASSUME NEW of \in Sessions, NEW key \in Keys, PutDisplayCached(key, of) PROVE Kept
    BY <2>2, <2>3, <2>6, Zenon DEF PutDisplayCached
  <2>7. CASE Reset
    <3>1. generation \in Nat /\ generation' = generation + 1 BY <2>1, <2>7 DEF IInv, TypeOK, Reset
    <3>2. generation' # generation BY <3>1
    <3>3. QED BY <3>2, Zenon
  <2>8. ASSUME NEW fetched, NEW outcome, Report(fetched, outcome) PROVE Kept
    BY <2>3, <2>8, Zenon DEF Report
  <2>9. QED BY <2>1, <2>4, <2>5, <2>6, <2>7, <2>8, Zenon DEF Next
<1>2. QED BY <1>1, PhotoInvariant, PTL DEF Spec, GenerationNamesOneImage

\* Consecutive sessions on screen never share an id, wrap included.
THEOREM PhotoSessions == Spec => SessionsTellApart
<1> DEFINE Apart == active /\ active' /\ session' # session => session_id' # session_id
<1>1. IInv /\ [Next]_vars => [Apart]_vars
  <2>1. SUFFICES ASSUME IInv, Next PROVE Apart BY Zenon
  <2>2. ASSUME NEW slot \in Slots, NEW of \in Sessions, Show(slot, of) PROVE Apart
    <3>1. session' = of /\ (active /\ session # of => session_id' # session_id)
      BY <2>1, <2>2, ShowEffect, Zenon
    <3>2. QED BY <3>1, Zenon
  <2>3. CASE UNCHANGED vars BY <2>3, Zenon DEF vars, state
  <2>4. ASSUME NEW of \in Sessions, NEW size \in Sizes, NEW key \in Keys \cup {NoKey},
               PutDisplay(key, of, size)
        PROVE  Apart
    BY <2>2, <2>4, Zenon DEF PutDisplay
  <2>5. ASSUME NEW of \in Sessions, NEW size \in Sizes, NEW key \in Keys,
               PutCacheOnly(key, of, size)
        PROVE  Apart
    BY <2>3, <2>5, Zenon DEF PutCacheOnly, KeepDisplay, state
  <2>6. ASSUME NEW of \in Sessions, NEW key \in Keys, PutDisplayCached(key, of) PROVE Apart
    BY <2>2, <2>3, <2>6, Zenon DEF PutDisplayCached
  <2>7. CASE Reset BY <2>7, Zenon DEF Reset
  <2>8. ASSUME NEW fetched, NEW outcome, Report(fetched, outcome) PROVE Apart
    BY <2>3, <2>8, Zenon DEF Report
  <2>9. QED BY <2>1, <2>4, <2>5, <2>6, <2>7, <2>8, Zenon DEF Next
<1>2. QED BY <1>1, PhotoInvariant, PTL DEF Spec, SessionsTellApart
=============================================================================
