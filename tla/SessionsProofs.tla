--------------------------- MODULE SessionsProofs ---------------------------
(***************************************************************************)
(* Proofs about Sessions, for every set of connections and every bound on  *)
(* objects and requests.                                                   *)
(*                                                                         *)
(* The argument.  The HTTP thread's list of calls is always in an order    *)
(* that suits the streams (CallsKept): who is reported disconnected has    *)
(* been joined, who is started or freed does not run.  So each report      *)
(* changes g_sessions and the set of streams that run alike, and the guard *)
(* against underflow never holds the count up; the one disconnect that is  *)
(* the last is the one that leaves no stream.  The calls that clear are    *)
(* then ahead on the list, and no thread that could undo them has anything *)
(* in hand, since a thread that is not joined belongs to a stream that     *)
(* runs (ObjectsKept, ClearedKept).  A second SETUP with keys leaves an    *)
(* object behind; that is never undone (LeftStays), so what is said of     *)
(* AllOwned needs only the states before it.                               *)
(***************************************************************************)
EXTENDS Sessions, FiniteSetTheorems, SequenceTheorems, TLAPS

-----------------------------------------------------------------------------
(* The picture's number. *)

\* Whatever changes the picture gives it a new number.
LEMMA PictureStep ==
  ASSUME PictureKept, [Next]_vars PROVE PictureKept'
<1> USE DEF PictureKept
<1>1. CASE UNCHANGED <<artwork, version, seen>> BY <1>1
<1>2. CASE MetadataReset /\ UNCHANGED seen BY <1>2 DEF MetadataReset
<1>3. ASSUME NEW picture, ArtworkSet(picture), UNCHANGED seen PROVE PictureKept'
  BY <1>3 DEF ArtworkSet
<1>4. CASE Status
  <2>1. UNCHANGED <<artwork, version>> /\ seen' = [version |-> version, artwork |-> artwork]
    BY <1>4 DEF Status, metadata
  <2>2. seen'.version = version /\ seen'.artwork = artwork BY <2>1
  <2>3. QED BY <2>1, <2>2
<1>5. CASE Work
  <2> DEFINE call == Head(todo)
  <2>1. UNCHANGED seen BY <1>5 DEF Work
  <2>2. CASE StartStream(call.o, call.k) BY <2>1, <2>2, <1>1 DEF StartStream, metadata
  <2>3. CASE StopStream(call.o, call.k) BY <2>1, <2>3, <1>1 DEF StopStream, metadata
  <2>4. CASE JoinStream(call.o, call.k) BY <2>1, <2>4, <1>1 DEF JoinStream, metadata
  <2>5. CASE Disconnected(call.o, call.k) BY <2>1, <2>5, <1>1 DEF Disconnected, metadata
  <2>6. CASE Free(call.o) BY <2>1, <2>6, <1>1 DEF Free, metadata
  <2>7. CASE Plain(call.op)
    BY <2>1, <2>7, <1>1, <1>2 DEF Plain, AudioClose, AudioIdle, metadata
  <2>8. QED BY <1>5, <2>2, <2>3, <2>4, <2>5, <2>6, <2>7 DEF Work
<1>6. ASSUME NEW o \in Objects, ThreadStep(o) PROVE PictureKept'
  <2> DEFINE call == Head(hand[o])
  <2>1. UNCHANGED seen BY <1>6 DEF ThreadStep
  <2>2. CASE Pcm(o) BY <2>1, <2>2, <1>1 DEF Pcm, metadata
  <2>3. CASE AudioClose BY <2>1, <2>3, <1>1 DEF AudioClose, metadata
  <2>4. CASE AudioIdle BY <2>1, <2>4, <1>1 DEF AudioIdle, metadata
  <2>5. CASE TrackSet(peer[o]) BY <2>1, <2>5, <1>1 DEF TrackSet
  <2>6. CASE ArtworkSet(call.o) BY <2>1, <2>6, <1>3
  <2>7. CASE Playing(o) BY <2>1, <2>7, <1>1 DEF Playing, metadata
  <2>8. CASE Failed BY <2>1, <2>8, <1>1 DEF Failed, metadata
  <2>9. QED BY <1>6, <2>2, <2>3, <2>4, <2>5, <2>6, <2>7, <2>8 DEF ThreadStep
<1>7. ASSUME NEW c \in Conns,
             \/ End(c) \/ SetupKeys(c) \/ SetupAudio(c) \/ SetupMirror(c) \/ Teardown(c)
             \/ \E k \in Kinds : TeardownStream(c, k)
             \/ \E what \in {"flush", "track", "artwork"} : Set(c, what)
      PROVE  UNCHANGED <<artwork, version, seen>>
  BY <1>7 DEF End, SetupKeys, SetupAudio, SetupMirror, Teardown, TeardownStream, Set, Close, metadata
<1>8. ASSUME NEW o \in Objects, Loop(o) \/ MirrorReport(o) PROVE UNCHANGED <<artwork, version, seen>>
  BY <1>8 DEF Loop, MirrorReport, metadata
<1>9. ASSUME StopBegin \/ Leave \/ StopEnd \/ Start PROVE UNCHANGED <<artwork, version, seen>>
  BY <1>9 DEF StopBegin, Leave, StopEnd, Start, Close, metadata
<1>10. CASE UNCHANGED vars BY <1>10, <1>1 DEF vars, metadata
<1>11. QED BY <1>1, <1>4, <1>5, <1>6, <1>7, <1>8, <1>9, <1>10 DEF Next

\* A number that /status told names that picture or nothing for ever
\* (airtizen_metadata_copy_artwork()).
THEOREM SessionsPicture == Spec => []NumberNamesPicture
<1>1. Init => PictureKept BY DEF Init, PictureKept
<1>2. PictureKept => NumberNamesPicture BY DEF PictureKept, NumberNamesPicture, Served
<1>3. QED BY <1>1, <1>2, PictureStep, PTL DEF Spec

-----------------------------------------------------------------------------
(* The list of calls of the HTTP thread. *)

\* The first call of the list gives way to n others.
Shifted(n) ==
  /\ todo' \in Seq(HttpCalls)
  /\ Len(todo') = Len(todo) - 1 + n
  /\ \A i \in 2 .. Len(todo) : todo'[i + n - 1] = todo[i]
  /\ \A i \in n + 1 .. Len(todo') : i + 1 - n \in 2 .. Len(todo) /\ todo'[i] = todo[i + 1 - n]

LEMMA TodoFacts ==
  ASSUME todo \in Seq(HttpCalls)
  PROVE  /\ Len(todo) \in Nat /\ DOMAIN todo = 1 .. Len(todo)
         /\ \A i \in DOMAIN todo : todo[i] \in HttpCalls
         /\ todo # << >> => Len(todo) > 0 /\ Head(todo) = todo[1] /\ 1 \in DOMAIN todo
         /\ todo = << >> => Len(todo) = 0
BY LenProperties, EmptySeq, ElementOfSeq

\* A call is made ...
LEMMA TodoTail ==
  ASSUME todo \in Seq(HttpCalls), todo # << >>, todo' = Tail(todo)
  PROVE  Shifted(0)
<1>1. /\ Tail(todo) \in Seq(HttpCalls) /\ Len(Tail(todo)) = Len(todo) - 1
      /\ \A i \in 1 .. Len(Tail(todo)) : Tail(todo)[i] = todo[i + 1]
  BY HeadTailProperties
<1>2. Len(todo) \in Nat /\ Len(todo) > 0 BY TodoFacts
<1>3. ASSUME NEW i \in 2 .. Len(todo) PROVE todo'[i + 0 - 1] = todo[i]
  <2>1. i - 1 \in 1 .. Len(todo) - 1 /\ (i - 1) + 1 = i /\ i + 0 - 1 = i - 1 BY <1>2
  <2>2. QED BY <1>1, <2>1
<1>4. ASSUME NEW i \in 0 + 1 .. Len(todo')
      PROVE  i + 1 - 0 \in 2 .. Len(todo) /\ todo'[i] = todo[i + 1 - 0]
  BY <1>1, <1>2
<1>5. QED BY <1>1, <1>2, <1>3, <1>4 DEF Shifted

\* ... and may put calls before the others.
LEMMA TodoPut ==
  ASSUME todo \in Seq(HttpCalls), todo # << >>, NEW p \in Seq(HttpCalls), todo' = p \o Tail(todo)
  PROVE  /\ Shifted(Len(p)) /\ Len(p) \in Nat
         /\ \A i \in 1 .. Len(p) : todo'[i] = p[i]
<1>1. /\ Tail(todo) \in Seq(HttpCalls) /\ Len(Tail(todo)) = Len(todo) - 1
      /\ \A i \in 1 .. Len(Tail(todo)) : Tail(todo)[i] = todo[i + 1]
  BY HeadTailProperties
<1>2. Len(todo) \in Nat /\ Len(todo) > 0 /\ Len(p) \in Nat BY TodoFacts, LenProperties
<1>3. /\ todo' \in Seq(HttpCalls) /\ Len(todo') = Len(p) + (Len(todo) - 1)
      /\ \A i \in 1 .. Len(p) + (Len(todo) - 1) :
           todo'[i] = IF i <= Len(p) THEN p[i] ELSE Tail(todo)[i - Len(p)]
  BY <1>1, ConcatProperties
<1> DEFINE n == Len(p)
           m == Len(todo)
<1>4. n \in Nat /\ m \in Nat /\ m > 0 BY <1>2
<1>5. ASSUME NEW i \in 1 .. n PROVE todo'[i] = p[i] BY <1>3, <1>4
<1> HIDE DEF n, m
<1>6. ASSUME NEW i \in 2 .. m PROVE todo'[i + n - 1] = todo[i]
  <2>1. i + n - 1 \in 1 .. n + (m - 1) /\ ~(i + n - 1 <= n) BY <1>4
  <2>2. (i + n - 1) - n = i - 1 /\ i - 1 \in 1 .. m - 1 /\ (i - 1) + 1 = i BY <1>4
  <2>3. todo'[i + n - 1] = Tail(todo)[i - 1] BY <1>3, <2>1, <2>2 DEF n, m
  <2>4. Tail(todo)[i - 1] = todo[i] BY <1>1, <2>2 DEF m
  <2>5. QED BY <2>3, <2>4
<1>7. ASSUME NEW i \in n + 1 .. n + (m - 1)
      PROVE  i + 1 - n \in 2 .. m /\ todo'[i] = todo[i + 1 - n]
  <2>1. i + 1 - n \in 2 .. m /\ (i + 1 - n) + n - 1 = i BY <1>4
  <2>2. QED BY <1>6, <2>1
<1>8. n + (m - 1) = m - 1 + n BY <1>4
<1>9. QED BY <1>2, <1>3, <1>5, <1>6, <1>7, <1>8 DEF Shifted, n, m

-----------------------------------------------------------------------------
(* Streams that run. *)

LEMMA LiveFinite == IsFiniteSet(Live) /\ Cardinality(Live) \in Nat
<1>1. IsFiniteSet(Objects) BY FS_Interval, SessionBoundsAssumption DEF Objects
<1>2. IsFiniteSet({"audio"}) BY FS_Singleton
<1>3. IsFiniteSet({"audio"} \cup {"mirror"}) BY <1>2, FS_AddElement
<1>4. Kinds = {"audio"} \cup {"mirror"} BY DEF Kinds
<1>5. IsFiniteSet(Objects \X Kinds) BY <1>1, <1>3, <1>4, FS_Product
<1>6. Live \in SUBSET (Objects \X Kinds) BY DEF Live
<1>7. QED BY <1>5, <1>6, FS_Subset, FS_CardinalityType

\* What a change of one stream does to the set of streams that run.
LEMMA LiveEdit ==
  ASSUME TypeOK, NEW o \in Objects, NEW k \in Kinds, NEW v,
         stream' = [stream EXCEPT ![o][k] = v]
  PROVE  /\ v \in {"on", "ending", "joined"} => Live' = Live \cup {<<o, k>>}
         /\ v \notin {"on", "ending", "joined"} => Live' = Live \ {<<o, k>>}
         /\ \A q \in Objects, l \in Kinds :
              stream'[q][l] = IF q = o /\ l = k THEN v ELSE stream[q][l]
         /\ <<o, k>> \in Live <=> stream[o][k] \in {"on", "ending", "joined"}
<1>1. \A q \in Objects, l \in Kinds :
        stream'[q][l] = IF q = o /\ l = k THEN v ELSE stream[q][l]
  BY DEF TypeOK
<1>2. ASSUME NEW s \in Objects \X Kinds
      PROVE  stream'[s[1]][s[2]] = IF s = <<o, k>> THEN v ELSE stream[s[1]][s[2]]
  <2>1. PICK q \in Objects, l \in Kinds : s = <<q, l>> OBVIOUS
  <2>2. QED BY <1>1, <2>1
<1>3. <<o, k>> \in Objects \X Kinds OBVIOUS
<1>4. v \in {"on", "ending", "joined"} => Live' = Live \cup {<<o, k>>}
  BY <1>2, <1>3 DEF Live
<1>5. v \notin {"on", "ending", "joined"} => Live' = Live \ {<<o, k>>}
  BY <1>2, <1>3 DEF Live
<1>6. <<o, k>> \in Live <=> stream[o][k] \in {"on", "ending", "joined"} BY <1>3 DEF Live
<1>7. QED BY <1>1, <1>4, <1>5, <1>6

\* No stream runs if and only if none of any object does.
LEMMA NoneLive ==
  Live = {} <=> \A o \in Objects, k \in Kinds : stream[o][k] \notin {"on", "ending", "joined"}
<1>1. ASSUME Live = {}, NEW o \in Objects, NEW k \in Kinds
      PROVE  stream[o][k] \notin {"on", "ending", "joined"}
  <2>1. <<o, k>> \in Objects \X Kinds /\ <<o, k>>[1] = o /\ <<o, k>>[2] = k OBVIOUS
  <2>2. QED BY <1>1, <2>1 DEF Live
<1>2. ASSUME \A o \in Objects, k \in Kinds : stream[o][k] \notin {"on", "ending", "joined"},
             NEW s \in Live
      PROVE  FALSE
  BY <1>2 DEF Live
<1>3. QED BY <1>1, <1>2

\* An object without streams runs none.
LEMMA Absent ==
  ASSUME NEW o \in Objects, stream[o] = NoStreams, NEW k \in Kinds PROVE stream[o][k] = "absent"
BY DEF NoStreams

-----------------------------------------------------------------------------
(* Objects that are left behind. *)

\* An object that was left behind stays so: the HTTP thread frees what it has on its
\* list, and puts on it what a connection owns.
LEMMA LeftStays ==
  ASSUME TypeOK, AllOwned',
         \A o \in Objects : stream[o] # NoStreams =>
            \/ stream'[o] # NoStreams
            \/ \E i \in DOMAIN todo : todo[i].op = "free" /\ todo[i].o = o,
         \A c \in Conns : \/ owns'[c] \in {owns[c], None}
                          \/ owns'[c] \in Objects /\ stream[owns'[c]] = NoStreams,
         \A i \in DOMAIN todo' : todo'[i].op = "free" =>
            \/ \E j \in DOMAIN todo : todo[j].op = "free" /\ todo[j].o = todo'[i].o
            \/ \E c \in Conns : owns[c] = todo'[i].o
  PROVE  AllOwned
<1> SUFFICES ASSUME NEW o \in Objects, LeftBehind(o) PROVE FALSE BY DEF AllOwned
<1>1. stream'[o] # NoStreams BY DEF LeftBehind
<1>2. o # None BY SessionBoundsAssumption DEF Objects, None
<1>3. \A c \in Conns : owns'[c] # o BY <1>2 DEF LeftBehind
<1>4. \A i \in DOMAIN todo' : todo'[i].op = "free" => todo'[i].o # o BY DEF LeftBehind
<1>5. QED BY <1>1, <1>3, <1>4 DEF AllOwned, LeftBehind

\* After core_stop() has joined the HTTP thread no stream runs.
LEMMA JoinedEmpty ==
  ASSUME TypeOK, CallsKept, StopKept, AllOwned, core \in {"joined", "stopped"}
  PROVE  Live = {}
<1>1. \A c \in Conns : owns[c] = None BY DEF StopKept
<1>2. \A i \in DOMAIN todo : todo[i].op # "free"
  <2>1. CASE core = "stopped" BY <2>1, TodoFacts DEF StopKept, TypeOK
  <2>2. CASE core = "joined" BY <2>2 DEF CallsKept, CallKept
  <2>3. QED BY <2>1, <2>2
<1>3. ASSUME NEW o \in Objects PROVE stream[o] = NoStreams
  <2>1. o # None BY SessionBoundsAssumption DEF Objects, None
  <2>2. QED BY <1>1, <1>2, <2>1 DEF AllOwned, LeftBehind
<1>4. QED BY <1>3, NoneLive, Absent

-----------------------------------------------------------------------------
(* What holds of the calls goes on to hold as the first one is made. *)

LEMMA CallShift ==
  ASSUME TypeOK, CallsKept, todo # << >>, NEW n \in Nat, Shifted(n), UNCHANGED <<core, owns>>,
         NEW i \in 2 .. Len(todo), i = 2 => todo[1].op # "join",
         \A o \in Objects, k \in Kinds : stream[o][k] = "off" => stream'[o][k] = "off",
         todo[1].op \in {"stop", "disconnected"} /\ todo[1].o # None =>
            \/ stream'[todo[1].o][todo[1].k] = "off"
            \/ \E j \in 1 .. n : /\ todo'[j].op \in {"stop", "disconnected"}
                                 /\ todo'[j].o = todo[1].o /\ todo'[j].k = todo[1].k
  PROVE  CallKept(i + n - 1)'
<1>a. PICK call : call = todo[i] OBVIOUS
<1>b. PICK ip : ip = i + n - 1 OBVIOUS
<1> USE <1>a, <1>b
<1>1. Len(todo) \in Nat /\ i \in DOMAIN todo /\ call \in HttpCalls BY TodoFacts DEF TypeOK
<1>2. todo'[ip] = call /\ Len(todo') = Len(todo) - 1 + n BY DEF Shifted
<1>3. CallKept(i) BY <1>1 DEF CallsKept
<1>4. i # 1 BY <1>1
<1>5. call.op # "join" BY <1>3, <1>4 DEF CallKept
<1>6. call.op # "disconnected"
  <2> SUFFICES ASSUME call.op = "disconnected" PROVE FALSE OBVIOUS
  <2>1. i = 2 /\ todo[1] = [call EXCEPT !.op = "join"] BY <1>3, <1>4 DEF CallKept
  <2>2. [call EXCEPT !.op = "join"].op = "join" BY <1>1 DEF HttpCalls
  <2>3. QED BY <2>1, <2>2
<1>7. ASSUME NEW o \in Objects, NEW k \in Kinds, OffBefore(i, o, k)
      PROVE  OffBefore(ip, o, k)'
  <2>1. CASE stream[o][k] = "off" BY <2>1 DEF OffBefore
  <2>2. ASSUME NEW j \in 1 .. i - 1,
               todo[j].op \in {"stop", "disconnected"} /\ todo[j].o = o /\ todo[j].k = k
        PROVE  OffBefore(ip, o, k)'
    <3>1. CASE j = 1
      <4>1. o # None BY SessionBoundsAssumption DEF Objects, None
      <4>2. CASE stream'[o][k] = "off" BY <4>2 DEF OffBefore
      <4>3. ASSUME NEW jj \in 1 .. n, todo'[jj].op \in {"stop", "disconnected"}
                   /\ todo'[jj].o = o /\ todo'[jj].k = k
            PROVE  OffBefore(ip, o, k)'
        <5>1. jj \in 1 .. ip - 1 BY <1>1, <1>4
        <5>2. QED BY <4>3, <5>1 DEF OffBefore
      <4>4. QED BY <2>2, <3>1, <4>1, <4>2, <4>3
    <3>2. CASE j # 1
      <4>1. j \in 2 .. Len(todo) /\ j + n - 1 \in 1 .. ip - 1 BY <1>1, <3>2
      <4>2. todo'[j + n - 1] = todo[j] BY <4>1 DEF Shifted
      <4>3. QED BY <2>2, <4>1, <4>2 DEF OffBefore
    <3>3. QED BY <3>1, <3>2
  <2>3. QED BY <1>7, <2>1, <2>2 DEF OffBefore
<1>8. i = Len(todo) => ip = Len(todo') BY <1>1, <1>2
<1>9. call.o # None => call.o \in Objects BY <1>1 DEF HttpCalls
<1>10. call.k \in Kinds BY <1>1 DEF HttpCalls
<1>11. CallKept(ip)'
  <2>1. call.op = "stop" => call.o # None BY <1>3 DEF CallKept
  <2>2. call.op = "start" => ip = Len(todo') /\ call.o # None /\ OffBefore(ip, call.o, call.k)'
    BY <1>3, <1>7, <1>8, <1>9, <1>10 DEF CallKept
  <2>3. call.op = "free" =>
          /\ ip = Len(todo') /\ call.o # None /\ \A k \in Kinds : OffBefore(ip, call.o, k)'
          /\ \A c \in Conns : owns'[c] # call.o
    BY <1>3, <1>7, <1>8, <1>9 DEF CallKept
  <2>4. core' = "joined" =>
          call.op \in {"disconnected", "audio_close", "audio_idle", "metadata_reset"}
    BY <1>3 DEF CallKept
  <2>5. QED BY <1>2, <1>5, <1>6, <2>1, <2>2, <2>3, <2>4 DEF CallKept
<1>12. QED BY <1>11

\* The same of all calls, if those that were put before them are right.
LEMMA CallsShift ==
  ASSUME TypeOK, CallsKept, todo # << >>, NEW n \in Nat, Shifted(n), UNCHANGED <<core, owns>>,
         todo[1].op # "join",
         \A o \in Objects, k \in Kinds : stream[o][k] = "off" => stream'[o][k] = "off",
         todo[1].op \in {"stop", "disconnected"} /\ todo[1].o # None =>
            \/ stream'[todo[1].o][todo[1].k] = "off"
            \/ \E j \in 1 .. n : /\ todo'[j].op \in {"stop", "disconnected"}
                                 /\ todo'[j].o = todo[1].o /\ todo'[j].k = todo[1].k,
         \A i \in 1 .. n : CallKept(i)'
  PROVE  CallsKept'
<1> SUFFICES ASSUME NEW i \in DOMAIN todo' PROVE CallKept(i)' BY DEF CallsKept
<1>1. i \in 1 .. Len(todo') /\ Len(todo') \in Nat BY LenProperties DEF Shifted
<1>2. CASE i \in 1 .. n BY <1>2
<1>3. CASE i \notin 1 .. n
  <2>1. i \in n + 1 .. Len(todo') BY <1>1, <1>3
  <2>2. i + 1 - n \in 2 .. Len(todo) BY <2>1 DEF Shifted
  <2> DEFINE j == i + 1 - n
  <2>3. j \in 2 .. Len(todo) /\ j + n - 1 = i BY <2>2, <1>1
  <2> HIDE DEF j
  <2>4. CallKept(j + n - 1)' BY <2>3, CallShift
  <2>5. QED BY <2>3, <2>4
<1>4. QED BY <1>2, <1>3

\* What is ahead afterwards.
LEMMA AheadShift ==
  ASSUME todo \in Seq(HttpCalls), todo # << >>, NEW n \in Nat, Shifted(n), NEW op
  PROVE  Ahead(op)' <=> \/ \E j \in 1 .. n : todo'[j].op = op
                        \/ \E i \in 2 .. Len(todo) : todo[i].op = op
<1>1. Len(todo') \in Nat /\ DOMAIN todo' = 1 .. Len(todo') BY LenProperties DEF Shifted
<1>2. Len(todo) \in Nat /\ Len(todo) > 0 /\ Len(todo') = Len(todo) - 1 + n BY TodoFacts DEF Shifted
<1>3. ASSUME NEW i \in DOMAIN todo', todo'[i].op = op, i \notin 1 .. n
      PROVE  \E j \in 2 .. Len(todo) : todo[j].op = op
  <2>1. i \in n + 1 .. Len(todo') BY <1>1, <1>3
  <2>2. QED BY <1>3, <2>1 DEF Shifted
<1>4. ASSUME NEW i \in 2 .. Len(todo), todo[i].op = op PROVE Ahead(op)'
  <2>1. i + n - 1 \in DOMAIN todo' BY <1>1, <1>2
  <2>2. QED BY <1>4, <2>1 DEF Shifted, Ahead
<1>5. ASSUME NEW i \in 1 .. n, todo'[i].op = op PROVE Ahead(op)'
  <2>1. i \in DOMAIN todo' BY <1>1, <1>2, <1>5
  <2>2. QED BY <1>5, <2>1 DEF Ahead
<1>6. QED BY <1>3, <1>4, <1>5 DEF Ahead

LEMMA AheadFirst ==
  ASSUME todo \in Seq(HttpCalls), todo # << >>, NEW op
  PROVE  Ahead(op) <=> todo[1].op = op \/ \E i \in 2 .. Len(todo) : todo[i].op = op
<1>1. Len(todo) \in Nat /\ Len(todo) > 0 /\ DOMAIN todo = 1 .. Len(todo) BY TodoFacts
<1>2. \A i \in DOMAIN todo : i = 1 \/ i \in 2 .. Len(todo) BY <1>1
<1>3. 1 \in DOMAIN todo /\ \A i \in 2 .. Len(todo) : i \in DOMAIN todo BY <1>1
<1>4. QED BY <1>2, <1>3 DEF Ahead

\* Where a call of the list afterwards comes from.
LEMMA ShiftedFrom ==
  ASSUME todo \in Seq(HttpCalls), NEW n \in Nat, Shifted(n), NEW i \in DOMAIN todo'
  PROVE  i \in 1 .. n \/ \E j \in DOMAIN todo : j # 1 /\ todo[j] = todo'[i]
<1>1. i \in 1 .. Len(todo') /\ Len(todo') \in Nat BY LenProperties DEF Shifted
<1>2. CASE i \in n + 1 .. Len(todo')
  <2>1. i + 1 - n \in 2 .. Len(todo) /\ todo'[i] = todo[i + 1 - n] BY <1>2 DEF Shifted
  <2>2. i + 1 - n \in DOMAIN todo /\ i + 1 - n # 1 BY <2>1, TodoFacts
  <2>3. QED BY <2>1, <2>2
<1>3. QED BY <1>1, <1>2

-----------------------------------------------------------------------------
(* The calls of the HTTP thread keep the invariant. *)

\* The object and stream of the first call, if it is about one.
LEMMA FirstCall ==
  ASSUME TypeOK, todo # << >>
  PROVE  /\ Head(todo) = todo[1] /\ todo[1] \in HttpCalls /\ todo[1].k \in Kinds
         /\ todo[1].o # None => todo[1].o \in Objects
         /\ CallsKept => CallKept(1)
         /\ core = "stopped" => ~StopKept
BY TodoFacts DEF TypeOK, HttpCalls, CallsKept, StopKept

\* A change of one stream of an object that is there.
LEMMA ObjectsEdit ==
  ASSUME TypeOK, ObjectsKept, NEW o \in Objects, NEW k \in Kinds,
         NEW v \in {"off", "on", "ending", "joined"}, stream[o][k] # "absent",
         stream' = [stream EXCEPT ![o][k] = v], UNCHANGED <<owns, peer, hand>>,
         k = "audio" /\ v \notin {"on", "ending"} => hand[o] = << >>
  PROVE  /\ ObjectsKept'
         /\ stream' \in [Objects -> [Kinds -> {"absent", "off", "on", "ending", "joined"}]]
         /\ \A q \in Objects : stream[q] # NoStreams => stream'[q] # NoStreams
<1>1. \A q \in Objects, l \in Kinds :
        stream'[q][l] = IF q = o /\ l = k THEN v ELSE stream[q][l]
  BY DEF TypeOK
<1>2. stream' \in [Objects -> [Kinds -> {"absent", "off", "on", "ending", "joined"}]]
  BY DEF TypeOK
<1>3. ASSUME NEW q \in Objects, q # o PROVE stream'[q] = stream[q] BY <1>3 DEF TypeOK
<1>4. "audio" \in Kinds BY DEF Kinds
<1>5. stream[o] # NoStreams /\ stream'[o] # NoStreams BY <1>1, Absent DEF NoStreams
<1>6. \A l \in Kinds : stream[o][l] # "absent" BY <1>5 DEF ObjectsKept
<1>7. ASSUME NEW q \in Objects
      PROVE  /\ \A l \in Kinds : stream'[q][l] = "absent" => stream'[q] = NoStreams
             /\ stream'[q] # NoStreams => peer'[q] \in Conns
             /\ hand'[q] # << >> => stream'[q]["audio"] \in {"on", "ending"}
             /\ \A i \in DOMAIN hand'[q] : hand'[q][i].op = "artwork" => hand'[q][i].o # 0
  <2>1. CASE q # o BY <1>3, <2>1 DEF ObjectsKept
  <2>2. CASE q = o BY <1>1, <1>4, <1>5, <1>6, <2>2 DEF ObjectsKept
  <2>3. QED BY <2>1, <2>2
<1>8. ASSUME NEW c \in Conns, owns'[c] # None 
      PROVE  stream'[owns'[c]] # NoStreams /\ \A d \in Conns : owns'[d] = owns'[c] => d = c
  BY <1>3, <1>5, <1>8 DEF ObjectsKept, TypeOK
<1>9. \A q \in Objects : stream[q] # NoStreams => stream'[q] # NoStreams BY <1>3, <1>5
<1>10. QED BY <1>2, <1>7, <1>8, <1>9 DEF ObjectsKept

\* raop_rtp_start_audio(), raop_rtp_start_mirror()
LEMMA StartKept ==
  ASSUME IInv, todo # << >>, todo[1].op = "start", StartStream(todo[1].o, todo[1].k),
         UNCHANGED <<core, requests>>
  PROVE  IInv'
<1> DEFINE o == todo[1].o
           k == todo[1].k
<1> USE DEF IInv
<1>1. o \in Objects /\ k \in Kinds /\ CallKept(1) /\ core # "stopped" BY FirstCall DEF CallKept
<1>2. Len(todo) = 1 /\ OffBefore(1, o, k) BY <1>1 DEF CallKept
<1>3. stream[o][k] = "off" BY <1>2 DEF OffBefore
<1>4. Shifted(0) BY TodoTail DEF StartStream, TypeOK
<1>5. Len(todo') = 0 /\ todo' \in Seq(HttpCalls) BY <1>2, <1>4 DEF Shifted
<1>6. todo' = << >> /\ DOMAIN todo' = {} BY <1>5, EmptySeq, LenProperties
<1>7. CallsKept' BY <1>6 DEF CallsKept
<1>8. StopKept' BY <1>1, <1>6 DEF StopKept, StartStream
<1>9. \A op : ~Ahead(op)' BY <1>6 DEF Ahead
<1>10. DOMAIN todo = {1} BY <1>2, TodoFacts DEF TypeOK
<1>11. UNCHANGED <<owns, peer, pending, hand, audio, opened, track, artwork>>
  BY DEF StartStream, metadata
<1>12. CASE UNCHANGED <<stream, sessions, connected, device>>
  <2>1. TypeOK' BY <1>5, <1>11, <1>12 DEF TypeOK
  <2>2. ObjectsKept' BY <1>11, <1>12 DEF ObjectsKept
  <2>3. ASSUME AllOwned' PROVE AllOwned
    BY <2>3, <1>6, <1>11, <1>12, LeftStays DEF TypeOK
  <2>4. Live' = Live BY <1>12 DEF Live
  <2>5. SessionsCounted' BY <1>12, <2>3, <2>4 DEF SessionsCounted
  <2>6. ~Ahead("audio_close") /\ ~Ahead("audio_idle") /\ ~Ahead("metadata_reset")
    BY <1>10 DEF Ahead
  <2>7. ClearedKept' BY <1>9, <1>11, <1>12, <2>3, <2>4, <2>6 DEF ClearedKept
  <2>8. QED BY <1>7, <1>8, <2>1, <2>2, <2>5, <2>7
<1>13. CASE stream' = [stream EXCEPT ![o][k] = "on"] /\ sessions' = sessions + 1
  <2>1. ObjectsKept'
        /\ stream' \in [Objects -> [Kinds -> {"absent", "off", "on", "ending", "joined"}]]
        /\ \A q \in Objects : stream[q] # NoStreams => stream'[q] # NoStreams
    <3> HIDE DEF o, k
    <3>1. QED BY <1>1, <1>3, <1>11, <1>13, ObjectsEdit
  <2>2. TypeOK' BY <1>5, <1>11, <1>13, <2>1 DEF TypeOK
  <2>3. ASSUME AllOwned' PROVE AllOwned BY <2>1, <2>3, <1>6, <1>11, LeftStays DEF TypeOK
  <2>4. Live' = Live \cup {<<o, k>>} /\ <<o, k>> \notin Live
    <3> HIDE DEF o, k
    <3>1. QED BY <1>1, <1>3, <1>13, LiveEdit
  <2>5. Cardinality(Live') = Cardinality(Live) + 1 BY <2>4, LiveFinite, FS_AddElement
  <2>6. SessionsCounted' BY <1>13, <2>3, <2>5 DEF SessionsCounted
  <2>7. ClearedKept' BY <1>9, <2>4 DEF ClearedKept
  <2>8. QED BY <1>7, <1>8, <2>1, <2>2, <2>6, <2>7
<1>14. QED BY <1>12, <1>13 DEF StartStream

\* raop_rtp_stop(), raop_rtp_mirror_stop()
LEMMA StopStreamKept ==
  ASSUME IInv, todo # << >>, todo[1].op = "stop", StopStream(todo[1].o, todo[1].k),
         UNCHANGED <<core, requests>>
  PROVE  IInv'
<1> DEFINE o == todo[1].o
           k == todo[1].k
<1> USE DEF IInv
<1>1. o \in Objects /\ k \in Kinds /\ CallKept(1) /\ core # "stopped" BY FirstCall DEF CallKept
<1>2. /\ UNCHANGED <<owns, peer, pending, hand, sessions, connected, device, audio, opened>>
      /\ UNCHANGED <<track, artwork>>
  BY DEF StopStream, state, metadata
<1>3. StopKept' BY <1>1, <1>2 DEF StopKept
<1>4. CASE stream[o][k] = "off" /\ todo' = Tail(todo) /\ UNCHANGED stream
  <2>1. Shifted(0) BY <1>4, TodoTail DEF TypeOK
  <2>2. TypeOK' BY <1>2, <1>4, <2>1 DEF TypeOK, Shifted
  <2>3. ObjectsKept' BY <1>2, <1>4 DEF ObjectsKept
  <2>4. CallsKept'
    <3>1. \A i \in 1 .. 0 : CallKept(i)' OBVIOUS
    <3>2. QED BY <1>2, <1>4, <2>1, <3>1, CallsShift
  <2>5. ASSUME NEW op PROVE Ahead(op)' <=> \E i \in 2 .. Len(todo) : todo[i].op = op
    <3>1. ~\E j \in 1 .. 0 : todo'[j].op = op OBVIOUS
    <3>2. todo \in Seq(HttpCalls) BY DEF TypeOK
    <3>3. Ahead(op)' <=> \/ \E j \in 1 .. 0 : todo'[j].op = op
                         \/ \E i \in 2 .. Len(todo) : todo[i].op = op
      BY <2>1, <3>2, AheadShift
    <3>4. QED BY <3>1, <3>3
  <2>6. \A op : op # "stop" => (Ahead(op)' <=> Ahead(op))
    BY <2>5, AheadFirst DEF TypeOK
  <2>7. \A i \in DOMAIN todo' : \E j \in DOMAIN todo : todo[j] = todo'[i]
    BY <2>1, ShiftedFrom DEF TypeOK
  <2>8. ASSUME AllOwned' PROVE AllOwned
    BY <2>7, <2>8, <1>2, <1>4, LeftStays
  <2>9. Live' = Live BY <1>4 DEF Live
  <2>10. SessionsCounted' BY <1>2, <2>8, <2>9 DEF SessionsCounted
  <2>11. ClearedKept' BY <1>2, <2>6, <2>8, <2>9 DEF ClearedKept
  <2>12. QED BY <1>3, <2>2, <2>3, <2>4, <2>10, <2>11
<1>5. CASE /\ stream[o][k] = "on"
           /\ stream' = [stream EXCEPT ![o][k] = "ending"]
           /\ todo' = <<Call("join", o, k), Call("disconnected", o, k)>> \o Tail(todo)
  <2> DEFINE p == <<Call("join", o, k), Call("disconnected", o, k)>>
  <2>1. p \in Seq(HttpCalls) /\ Len(p) = 2 /\ p[1] = Call("join", o, k)
        /\ p[2] = Call("disconnected", o, k)
    <3>1. Call("join", o, k) \in HttpCalls /\ Call("disconnected", o, k) \in HttpCalls
      BY <1>1 DEF Call, HttpCalls
    <3> HIDE DEF o, k
    <3>2. QED BY <3>1
  <2>2. Shifted(2) /\ todo'[1] = p[1] /\ todo'[2] = p[2]
    <3> HIDE DEF p
    <3>1. Shifted(Len(p)) /\ \A i \in 1 .. Len(p) : todo'[i] = p[i]
      BY <1>5, <2>1, TodoPut DEF TypeOK, p
    <3>2. QED BY <2>1, <3>1
  <2>3. ObjectsKept'
        /\ stream' \in [Objects -> [Kinds -> {"absent", "off", "on", "ending", "joined"}]]
        /\ \A q \in Objects : stream[q] # NoStreams => stream'[q] # NoStreams
    <3> HIDE DEF o, k
    <3>1. QED BY <1>1, <1>2, <1>5, ObjectsEdit
  <2>4. TypeOK' BY <1>2, <2>2, <2>3 DEF TypeOK, Shifted
  <2>5. /\ Live' = Live
        /\ \A q \in Objects, l \in Kinds :
             stream'[q][l] = IF q = o /\ l = k THEN "ending" ELSE stream[q][l]
    <3> HIDE DEF o, k
    <3>1. <<o, k>> \in Live /\ Live' = Live \cup {<<o, k>>} BY <1>1, <1>5, LiveEdit
    <3>2. \A q \in Objects, l \in Kinds :
            stream'[q][l] = IF q = o /\ l = k THEN "ending" ELSE stream[q][l]
      BY <1>1, <1>5 DEF TypeOK
    <3>3. QED BY <3>1, <3>2
  <2>6. CallKept(1)' /\ CallKept(2)'
    <3>a. PICK oc, kc : oc = o /\ kc = k OBVIOUS
    <3>1. todo'[1] = [op |-> "join", o |-> oc, k |-> kc]
          /\ todo'[2] = [op |-> "disconnected", o |-> oc, k |-> kc]
      BY <2>1, <2>2, <3>a DEF Call
    <3>2. Len(todo') > 1 BY <2>2, TodoFacts DEF Shifted, TypeOK
    <3>3. oc # None /\ stream'[oc][kc] = "ending"
      BY <1>1, <2>5, <3>a, SessionBoundsAssumption DEF Objects, None
    <3>4. core # "joined" BY <1>1 DEF CallKept
    <3> HIDE DEF p, o, k
    <3>5. CallKept(1)' BY <3>1, <3>2, <3>3, <3>4 DEF CallKept
    <3>6. CallKept(2)' BY <3>1, <3>2, <3>3, <3>4 DEF CallKept
    <3>7. QED BY <3>5, <3>6
  <2>7. CallsKept'
    <3>1. todo'[2].op = "disconnected" /\ todo'[2].o = o /\ todo'[2].k = k
      BY <2>1, <2>2 DEF Call
    <3>2. \A q \in Objects, l \in Kinds : stream[q][l] = "off" => stream'[q][l] = "off"
      BY <1>5, <2>5
    <3>3. \A i \in 1 .. 2 : CallKept(i)' BY <2>6
    <3>4. QED BY <1>2, <2>2, <3>1, <3>2, <3>3, CallsShift
  <2>8. \A op : op \notin {"stop", "join", "disconnected"} => (Ahead(op)' <=> Ahead(op))
    <3>1. \A op : Ahead(op)' <=> \/ \E j \in 1 .. 2 : todo'[j].op = op
                                 \/ \E i \in 2 .. Len(todo) : todo[i].op = op
      BY <2>2, AheadShift DEF TypeOK
    <3>2. \A j \in 1 .. 2 : todo'[j].op \in {"join", "disconnected"} BY <2>1, <2>2 DEF Call
    <3>3. QED BY <3>1, <3>2, AheadFirst DEF TypeOK
  <2>9. \A i \in DOMAIN todo' : todo'[i].op = "free" => \E j \in DOMAIN todo : todo[j] = todo'[i]
    <3> SUFFICES ASSUME NEW i \in DOMAIN todo', todo'[i].op = "free"
                 PROVE  \E j \in DOMAIN todo : todo[j] = todo'[i]
      OBVIOUS
    <3>1. i # 1 /\ i # 2 BY <2>1, <2>2 DEF Call
    <3>2. i \in 2 + 1 .. Len(todo') BY <3>1, <2>2, LenProperties DEF Shifted
    <3>3. QED BY <2>2, <3>2, TodoFacts DEF Shifted, TypeOK
  <2>10. ASSUME AllOwned' PROVE AllOwned BY <2>3, <2>9, <2>10, <1>2, LeftStays
  <2>11. SessionsCounted' BY <1>2, <2>5, <2>10 DEF SessionsCounted
  <2>12. ClearedKept' BY <1>2, <2>5, <2>8, <2>10 DEF ClearedKept
  <2>13. QED BY <1>3, <2>3, <2>4, <2>7, <2>11, <2>12
<1>6. QED BY <1>4, <1>5 DEF StopStream

\* A thread is joined.
LEMMA JoinKept ==
  ASSUME IInv, todo # << >>, todo[1].op = "join", JoinStream(todo[1].o, todo[1].k),
         UNCHANGED <<core, requests>>
  PROVE  IInv'
<1>a. PICK o, k : o = todo[1].o /\ k = todo[1].k OBVIOUS
<1> USE DEF IInv
<1>1. o \in Objects /\ k \in Kinds /\ CallKept(1) /\ core # "stopped"
  BY <1>a, FirstCall DEF CallKept
<1>2. /\ UNCHANGED <<owns, peer, pending, hand, sessions, connected, device, audio, opened>>
      /\ UNCHANGED <<track, artwork>>
      /\ stream' = [stream EXCEPT ![o][k] = "joined"] /\ todo' = Tail(todo)
      /\ k = "audio" => hand[o] = << >>
  BY <1>a DEF JoinStream, Joinable, state, metadata
<1>3. /\ Len(todo) > 1 /\ todo[2] = [todo[1] EXCEPT !.op = "disconnected"]
      /\ stream[o][k] = "ending" /\ core # "joined"
  BY <1>a, <1>1 DEF CallKept
<1>4. Shifted(0) BY <1>2, TodoTail DEF TypeOK
<1>5. ObjectsKept'
      /\ stream' \in [Objects -> [Kinds -> {"absent", "off", "on", "ending", "joined"}]]
      /\ \A q \in Objects : stream[q] # NoStreams => stream'[q] # NoStreams
  BY <1>1, <1>2, <1>3, ObjectsEdit
<1>6. TypeOK' BY <1>2, <1>4, <1>5 DEF TypeOK, Shifted
<1>7. \A q \in Objects, l \in Kinds :
        stream'[q][l] = IF q = o /\ l = k THEN "joined" ELSE stream[q][l]
  BY <1>1, <1>2 DEF TypeOK
<1>8. Live' = Live
  <2>1. <<o, k>> \in Live /\ Live' = Live \cup {<<o, k>>} BY <1>1, <1>2, <1>3, LiveEdit
  <2>2. QED BY <2>1
<1>9. CallsKept'
  <2>1. Len(todo) \in Nat /\ todo[1] \in HttpCalls BY TodoFacts DEF TypeOK
  <2>2. 2 + 0 - 1 = 1 /\ 2 \in 2 .. Len(todo) BY <1>3, <2>1
  <2>3. todo'[1] = todo[2] BY <1>4, <2>2 DEF Shifted
  <2>4. todo'[1].op = "disconnected" /\ todo'[1].o = o /\ todo'[1].k = k
    BY <1>a, <1>3, <2>1, <2>3 DEF HttpCalls
  <2>5. o # None BY <1>1, SessionBoundsAssumption DEF Objects, None
  <2>6. CallKept(1)' BY <1>3, <1>1, <1>7, <2>4, <2>5 DEF CallKept
  <2>7. ASSUME NEW i \in DOMAIN todo', i # 1 PROVE CallKept(i)'
    <3>1. i \in 0 + 1 .. Len(todo') BY <1>4, LenProperties DEF Shifted
    <3>2. i + 1 - 0 \in 2 .. Len(todo) BY <1>4, <3>1 DEF Shifted
    <3> DEFINE j == i + 1
    <3>3. j \in 2 .. Len(todo) /\ j # 2 /\ j + 0 - 1 = i BY <2>7, <3>1, <3>2
    <3> HIDE DEF j
    <3>4. \A q \in Objects, l \in Kinds : stream[q][l] = "off" => stream'[q][l] = "off"
      BY <1>3, <1>7
    <3>5. CallKept(j + 0 - 1)' BY <1>2, <1>4, <3>3, <3>4, CallShift
    <3>6. QED BY <3>3, <3>5
  <2>8. QED BY <2>6, <2>7 DEF CallsKept
<1>10. StopKept' BY <1>1, <1>2 DEF StopKept
<1>11. \A op : op # "join" => (Ahead(op)' <=> Ahead(op))
  BY <1>4, AheadShift, AheadFirst DEF TypeOK
<1>12. \A i \in DOMAIN todo' : \E j \in DOMAIN todo : todo[j] = todo'[i]
  BY <1>4, ShiftedFrom DEF TypeOK
<1>13. ASSUME AllOwned' PROVE AllOwned BY <1>2, <1>5, <1>12, <1>13, LeftStays
<1>14. SessionsCounted' BY <1>2, <1>8, <1>13 DEF SessionsCounted
<1>15. ClearedKept' BY <1>2, <1>8, <1>11, <1>13 DEF ClearedKept
<1>16. QED BY <1>5, <1>6, <1>9, <1>10, <1>14, <1>15

\* free()
LEMMA FreeKept ==
  ASSUME IInv, todo # << >>, todo[1].op = "free", Free(todo[1].o), UNCHANGED <<core, requests>>
  PROVE  IInv'
<1>a. PICK o : o = todo[1].o OBVIOUS
<1> USE DEF IInv
<1>1. o \in Objects /\ CallKept(1) /\ core # "stopped" BY <1>a, FirstCall DEF CallKept
<1>2. /\ UNCHANGED <<owns, hand, sessions, connected, device, audio, opened, track, artwork>>
      /\ stream' = [stream EXCEPT ![o] = NoStreams] /\ peer' = [peer EXCEPT ![o] = NoConn]
      /\ pending' = [pending EXCEPT ![o] = NothingPending] /\ todo' = Tail(todo)
  BY <1>a DEF Free, state, metadata
<1>3. /\ Len(todo) = 1 /\ \A k \in Kinds : stream[o][k] = "off"
      /\ \A c \in Conns : owns[c] # o
  BY <1>a, <1>1 DEF CallKept, OffBefore
<1>4. Shifted(0) BY <1>2, TodoTail DEF TypeOK
<1>5. Len(todo') = 0 /\ todo' \in Seq(HttpCalls) BY <1>3, <1>4 DEF Shifted
<1>6. todo' = << >> /\ DOMAIN todo' = {} BY <1>5, EmptySeq, LenProperties
<1>7. CallsKept' BY <1>6 DEF CallsKept
<1>8. StopKept' BY <1>1, <1>2 DEF StopKept
<1>9. NoStreams \in [Kinds -> {"absent", "off", "on", "ending", "joined"}] BY DEF NoStreams
<1>10. NothingPending \in [flush : BOOLEAN, track : BOOLEAN, artwork : Nat]
  BY DEF NothingPending
<1>11. TypeOK' BY <1>2, <1>5, <1>9, <1>10 DEF TypeOK
<1>12. stream'[o] = NoStreams /\ \A q \in Objects : q # o => stream'[q] = stream[q] /\ peer'[q] = peer[q]
  BY <1>1, <1>2 DEF TypeOK
<1>13. "audio" \in Kinds BY DEF Kinds
<1>14. ObjectsKept'
  <2>1. hand[o] = << >> BY <1>1, <1>3, <1>13 DEF ObjectsKept
  <2>2. ASSUME NEW q \in Objects
        PROVE  /\ \A k \in Kinds : stream'[q][k] = "absent" => stream'[q] = NoStreams
               /\ stream'[q] # NoStreams => peer'[q] \in Conns
               /\ hand'[q] # << >> => stream'[q]["audio"] \in {"on", "ending"}
               /\ \A i \in DOMAIN hand'[q] : hand'[q][i].op = "artwork" => hand'[q][i].o # 0
    BY <1>2, <1>12, <2>1 DEF ObjectsKept
  <2>3. ASSUME NEW c \in Conns, owns'[c] # None
        PROVE  stream'[owns'[c]] # NoStreams /\ \A d \in Conns : owns'[d] = owns'[c] => d = c
    BY <1>2, <1>3, <1>12, <2>3 DEF ObjectsKept, TypeOK
  <2>4. QED BY <2>2, <2>3 DEF ObjectsKept
<1>15. Live' = Live
  <2>1. ASSUME NEW q \in Objects, NEW k \in Kinds
        PROVE  stream'[q][k] \in {"on", "ending", "joined"}
                 <=> stream[q][k] \in {"on", "ending", "joined"}
    BY <1>3, <1>12 DEF NoStreams
  <2>2. QED BY <2>1 DEF Live
<1>16. \A op : ~Ahead(op)' BY <1>6 DEF Ahead
<1>17. ~Ahead("audio_close") /\ ~Ahead("audio_idle") /\ ~Ahead("metadata_reset")
  BY <1>3, TodoFacts DEF Ahead, TypeOK
<1>18. ASSUME AllOwned' PROVE AllOwned
  <2>1. 1 \in DOMAIN todo BY FirstCall, TodoFacts DEF TypeOK
  <2>2. QED BY <1>a, <1>2, <1>6, <1>12, <1>18, <2>1, LeftStays
<1>19. SessionsCounted' BY <1>2, <1>15, <1>18 DEF SessionsCounted
<1>20. ClearedKept' BY <1>2, <1>15, <1>16, <1>17, <1>18 DEF ClearedKept
<1>21. QED BY <1>7, <1>8, <1>11, <1>14, <1>19, <1>20

\* The clearing calls.
LEMMA PlainKept ==
  ASSUME IInv, todo # << >>, Plain(todo[1].op), UNCHANGED <<core, requests>>
  PROVE  IInv'
<1> USE DEF IInv
<1>1. /\ UNCHANGED <<owns, peer, stream, pending, hand, sessions, connected, device>>
      /\ todo' = Tail(todo) /\ todo[1].op \in {"audio_close", "audio_idle", "metadata_reset"}
  BY DEF Plain, AudioClose, AudioIdle, MetadataReset, objects, state
<1>2. core # "stopped" BY FirstCall
<1>3. Shifted(0) BY <1>1, TodoTail DEF TypeOK
<1>4. TypeOK' BY <1>1, <1>3 DEF TypeOK, Shifted
<1>5. ObjectsKept' BY <1>1 DEF ObjectsKept
<1>6. CallsKept'
  <2>1. \A i \in 1 .. 0 : CallKept(i)' OBVIOUS
  <2>2. QED BY <1>1, <1>3, <2>1, CallsShift
<1>7. StopKept' BY <1>1, <1>2 DEF StopKept
<1>8. \A op : Ahead(op)' => Ahead(op) BY <1>3, AheadShift, AheadFirst DEF TypeOK
<1>9. \A op : op # todo[1].op => (Ahead(op)' <=> Ahead(op))
  BY <1>3, AheadShift, AheadFirst DEF TypeOK
<1>10. \A i \in DOMAIN todo' : \E j \in DOMAIN todo : todo[j] = todo'[i]
  BY <1>3, ShiftedFrom DEF TypeOK
<1>11. ASSUME AllOwned' PROVE AllOwned BY <1>1, <1>10, <1>11, LeftStays
<1>12. Live' = Live BY <1>1 DEF Live
<1>13. SessionsCounted' BY <1>1, <1>11, <1>12 DEF SessionsCounted
<1>14. ClearedKept'
  <2>1. CASE todo[1].op = "audio_close" /\ AudioClose
    BY <1>1, <1>2, <1>8, <1>9, <1>11, <1>12, <2>1 DEF ClearedKept, AudioClose, metadata
  <2>2. CASE todo[1].op = "audio_idle" /\ AudioIdle
    BY <1>1, <1>2, <1>8, <1>9, <1>11, <1>12, <2>2 DEF ClearedKept, AudioIdle, metadata
  <2>3. CASE todo[1].op = "metadata_reset" /\ MetadataReset
    BY <1>1, <1>2, <1>8, <1>9, <1>11, <1>12, <2>3 DEF ClearedKept, MetadataReset, state
  <2>4. QED BY <2>1, <2>2, <2>3 DEF Plain
<1>15. QED BY <1>4, <1>5, <1>6, <1>7, <1>13, <1>14

\* A stream that is counted ends: there is one fewer, and it was the last if the count
\* says so.
LEMMA CountDown ==
  ASSUME NEW x \in Live, Live' = Live \ {x}, sessions = Cardinality(Live),
         sessions' = IF sessions = 0 THEN 0 ELSE sessions - 1
  PROVE  sessions' = Cardinality(Live') /\ (sessions <= 1 <=> Live' = {})
<1>1. IsFiniteSet(Live') /\ Cardinality(Live') = Cardinality(Live) - 1
  BY LiveFinite, FS_RemoveElement
<1>2. Cardinality(Live) \in Nat /\ Cardinality(Live) # 0 BY LiveFinite, FS_EmptySet
<1>3. Cardinality(Live') = 0 <=> Live' = {} BY <1>1, FS_EmptySet
<1> DEFINE n == Cardinality(Live)
           m == Cardinality(Live')
<1> HIDE DEF n, m
<1>4. n \in Nat /\ n # 0 /\ m = n - 1 BY <1>1, <1>2 DEF n, m
<1>5. sessions = n /\ sessions' = n - 1 BY <1>4 DEF n
<1>6. n <= 1 <=> m = 0 BY <1>4
<1>7. QED BY <1>3, <1>4, <1>5, <1>6 DEF m

\* The calls of cb_audio_flush() and airtizen_metadata_reset().
LEMMA FlushesCalls ==
  /\ Flushes \in Seq(HttpCalls) /\ Len(Flushes) = 3
  /\ Flushes[1].op = "audio_close" /\ Flushes[2].op = "audio_idle"
  /\ Flushes[3].op = "metadata_reset"
<1>1. Do("audio_close") \in HttpCalls /\ Do("audio_idle") \in HttpCalls /\ Do("metadata_reset") \in HttpCalls
  BY DEF Do, Call, HttpCalls, Kinds
<1>2. Do("audio_close").op = "audio_close" /\ Do("audio_idle").op = "audio_idle"
      /\ Do("metadata_reset").op = "metadata_reset"
  BY DEF Do, Call
<1>3. QED BY <1>1, <1>2 DEF Flushes

\* What cb_disconnected() leaves on the list.
LEMMA DisconnectedList ==
  ASSUME IInv, todo # << >>, todo' = (IF Last THEN Flushes ELSE << >>) \o Tail(todo)
  PROVE  /\ Last => /\ Shifted(3) /\ todo'[1].op = "audio_close"
                    /\ todo'[2].op = "audio_idle" /\ todo'[3].op = "metadata_reset"
         /\ ~Last => Shifted(0)
<1>1. ASSUME Last
      PROVE  /\ Shifted(3) /\ todo'[1].op = "audio_close"
             /\ todo'[2].op = "audio_idle" /\ todo'[3].op = "metadata_reset"
  <2>1. todo' = Flushes \o Tail(todo) BY <1>1
  <2>2. Shifted(Len(Flushes)) /\ \A i \in 1 .. Len(Flushes) : todo'[i] = Flushes[i]
    BY <2>1, FlushesCalls, TodoPut DEF IInv, TypeOK
  <2>3. 1 \in 1 .. Len(Flushes) /\ 2 \in 1 .. Len(Flushes) /\ 3 \in 1 .. Len(Flushes)
    BY FlushesCalls
  <2>4. Shifted(3) BY <2>2, FlushesCalls
  <2>5. QED BY <2>2, <2>3, <2>4, FlushesCalls
<1>2. ASSUME ~Last PROVE Shifted(0)
  <2>1. todo' = << >> \o Tail(todo) /\ Tail(todo) \in Seq(HttpCalls)
    BY <1>2, HeadTailProperties DEF IInv, TypeOK
  <2>2. todo' = Tail(todo) BY <2>1, ConcatEmptySeq
  <2>3. QED BY <2>2, TodoTail DEF IInv, TypeOK
<1>3. QED BY <1>1, <1>2

\* cb_disconnected()
LEMMA DisconnectedKept ==
  ASSUME IInv, todo # << >>, todo[1].op = "disconnected", Disconnected(todo[1].o, todo[1].k),
         UNCHANGED <<core, requests>>
  PROVE  IInv'
<1>a. PICK o, k : o = todo[1].o /\ k = todo[1].k OBVIOUS
<1> USE DEF IInv
<1>1. /\ k \in Kinds /\ CallKept(1) /\ core # "stopped"
      /\ o # None => o \in Objects
  BY <1>a, FirstCall
<1>2. /\ UNCHANGED <<owns, peer, pending, hand, audio, opened, track, artwork>>
      /\ sessions' = IF sessions = 0 THEN 0 ELSE sessions - 1
      /\ todo' = (IF Last THEN Flushes ELSE << >>) \o Tail(todo)
      /\ stream' = IF o = None THEN stream ELSE [stream EXCEPT ![o][k] = "off"]
      /\ Last => ~connected' /\ device' = NoConn
      /\ ~Last => (connected' <=> connected) /\ device' = device
  <2>1. UNCHANGED <<owns, peer, pending, hand, audio, opened, track, artwork>>
    BY DEF Disconnected, metadata
  <2>2. connected' = (connected /\ ~Last) /\ device' = IF Last THEN NoConn ELSE device
    BY DEF Disconnected
  <2>3. /\ Last => ~connected'
        /\ ~Last => (connected' <=> connected)
    BY <2>2, Zenon
  <2>4. QED BY <1>a, <2>1, <2>2, <2>3 DEF Disconnected
<1>3. PICK n \in {0, 3} : n = IF Last THEN 3 ELSE 0 OBVIOUS
<1>4. /\ n \in Nat /\ Shifted(n)
      /\ n = 3 => todo'[1].op = "audio_close" /\ todo'[2].op = "audio_idle"
                  /\ todo'[3].op = "metadata_reset"
  <2>1. CASE Last BY <1>2, <1>3, <2>1, DisconnectedList
  <2>2. CASE ~Last BY <1>2, <1>3, <2>2, DisconnectedList
  <2>3. QED BY <2>1, <2>2
<1>5. \A i \in 1 .. n : todo'[i].op \in {"audio_close", "audio_idle", "metadata_reset"}
  <2>1. CASE n = 0 BY <2>1
  <2>2. CASE n = 3 BY <1>4, <2>2
  <2>3. QED BY <2>1, <2>2
<1>6. sessions' \in Nat BY <1>2 DEF TypeOK
<1>7. o = None => core = "joined" /\ UNCHANGED stream BY <1>a, <1>1, <1>2 DEF CallKept
<1>8. o # None => stream[o][k] = "joined" BY <1>a, <1>1 DEF CallKept
<1>9. ObjectsKept'
      /\ stream' \in [Objects -> [Kinds -> {"absent", "off", "on", "ending", "joined"}]]
      /\ \A q \in Objects : stream[q] # NoStreams => stream'[q] # NoStreams
  <2>1. CASE o = None BY <1>2, <1>7, <2>1 DEF ObjectsKept, TypeOK
  <2>2. CASE o # None
    <3>1. k = "audio" => hand[o] = << >> BY <1>1, <1>8, <2>2 DEF ObjectsKept
    <3>2. QED BY <1>1, <1>2, <1>8, <2>2, <3>1, ObjectsEdit
  <2>3. QED BY <2>1, <2>2
<1>10. TypeOK' BY <1>2, <1>4, <1>6, <1>9 DEF TypeOK, Shifted
<1>11. CallsKept'
  <2>1. \A i \in 1 .. n : CallKept(i)' BY <1>5 DEF CallKept
  <2>2. o # None => stream'[o][k] = "off" BY <1>1, <1>2 DEF TypeOK
  <2>3. \A q \in Objects, l \in Kinds : stream[q][l] = "off" => stream'[q][l] = "off"
    BY <1>1, <1>2 DEF TypeOK
  <2>4. QED BY <1>a, <1>2, <1>4, <2>1, <2>2, <2>3, CallsShift
<1>12. StopKept' BY <1>1, <1>2 DEF StopKept
<1>13. \A i \in DOMAIN todo' : todo'[i].op = "free" => \E j \in DOMAIN todo : todo[j] = todo'[i]
  BY <1>4, <1>5, ShiftedFrom DEF TypeOK
<1>14. ASSUME AllOwned' PROVE AllOwned
  <2>1. \A c \in Conns : owns'[c] \in {owns[c], None} BY <1>2
  <2>2. \A i \in DOMAIN todo' : todo'[i].op = "free" =>
          \E j \in DOMAIN todo : todo[j].op = "free" /\ todo[j].o = todo'[i].o
    BY <1>13
  <2>3. QED BY <1>9, <1>14, <2>1, <2>2, LeftStays
<1>15. ASSUME o # None PROVE <<o, k>> \in Live /\ Live' = Live \ {<<o, k>>}
  <2>1. stream' = [stream EXCEPT ![o][k] = "off"] /\ o \in Objects BY <1>1, <1>2, <1>15
  <2>a. PICK v : v = "off" OBVIOUS
  <2>b. stream' = [stream EXCEPT ![o][k] = v] /\ v \notin {"on", "ending", "joined"} BY <2>1, <2>a
  <2>2. Live' = Live \ {<<o, k>>} BY <1>1, <2>1, <2>b, LiveEdit
  <2>3. QED BY <1>1, <1>8, <1>15, <2>1, <2>2, LiveEdit
<1>16. ASSUME AllOwned', o # None
       PROVE  sessions' = Cardinality(Live') /\ (Last <=> Live' = {})
  <2>1. core \in {"running", "leaving", "closing"}
    <3>1. Live # {} BY <1>15, <1>16
    <3>2. core \notin {"joined", "stopped"} BY <1>14, <1>16, <3>1, JoinedEmpty
    <3>3. QED BY <3>2 DEF TypeOK
  <2>2. sessions = Cardinality(Live) BY <1>14, <1>16, <2>1 DEF SessionsCounted
  <2>3. QED BY <1>2, <1>15, <1>16, <2>2, CountDown DEF Last
<1>17. SessionsCounted' BY <1>7, <1>16 DEF SessionsCounted
<1>18. ASSUME AllOwned', o = None PROVE Live = {} /\ Live' = {}
  <2>1. Live = {} BY <1>7, <1>14, <1>18, JoinedEmpty
  <2>2. QED BY <1>7, <1>18, <2>1 DEF Live
<1>19. ClearedKept'
  <2>1. CASE Last
    <3>1. ASSUME AllOwned' PROVE Live' = {} BY <1>16, <1>18, <2>1, <3>1
    <3>2. n = 3 BY <1>3, <2>1
    <3>3. Ahead("audio_close")' /\ Ahead("audio_idle")' /\ Ahead("metadata_reset")'
      <4>1. \A op : (\E j \in 1 .. 3 : todo'[j].op = op) => Ahead(op)'
        BY <1>4, <3>2, AheadShift DEF TypeOK
      <4>2. 1 \in 1 .. 3 /\ 2 \in 1 .. 3 /\ 3 \in 1 .. 3 OBVIOUS
      <4>3. QED BY <1>4, <3>2, <4>1, <4>2
    <3>4. QED BY <1>2, <2>1, <3>1, <3>3 DEF ClearedKept
  <2>2. CASE ~Last
    <3>1. n = 0 BY <1>3, <2>2
    <3>2. \A op : op # "disconnected" => (Ahead(op)' <=> Ahead(op))
      BY <1>4, <3>1, AheadShift, AheadFirst DEF TypeOK
    <3>3. CASE o = None BY <1>2, <1>7, <1>14, <1>18, <2>2, <3>2, <3>3 DEF ClearedKept
    <3>4. CASE o # None BY <1>14, <1>15, <1>16, <2>2, <3>2, <3>4 DEF ClearedKept
    <3>5. QED BY <3>3, <3>4
  <2>3. QED BY <2>1, <2>2
<1>20. QED BY <1>9, <1>10, <1>11, <1>12, <1>17, <1>19

\* The HTTP thread, or core_stop() after it, makes a call.
LEMMA WorkKept == ASSUME IInv, Work PROVE IInv'
<1>1. todo # << >> /\ UNCHANGED <<core, requests>> BY DEF Work
<1>2. Head(todo) = todo[1] BY <1>1, FirstCall DEF IInv
<1>3. QED
  BY <1>1, <1>2, StartKept, StopStreamKept, JoinKept, DisconnectedKept, FreeKept, PlainKept DEF Work

-----------------------------------------------------------------------------
(* Requests keep the invariant: the list is empty when one is served. *)

LEMMA EmptyList ==
  ASSUME todo = << >>
  PROVE  DOMAIN todo = {} /\ \A op : ~Ahead(op)
BY EmptySeq, LenProperties DEF Ahead

\* A list that frees nothing.
LEMMA NewList ==
  ASSUME IInv, todo = << >>, core \in {"running", "leaving"}, requests' \in Nat,
         UNCHANGED <<core, owns, peer, stream, pending, hand, sessions>>,
         UNCHANGED <<connected, device, audio, opened, track, artwork>>,
         todo' \in Seq(HttpCalls), CallsKept',
         \A i \in DOMAIN todo' : todo'[i].op \in {"start", "stop"}
  PROVE  IInv'
<1> USE DEF IInv
<1>1. DOMAIN todo = {} /\ \A op : ~Ahead(op) BY EmptyList
<1>2. TypeOK' BY DEF TypeOK
<1>3. ObjectsKept' BY DEF ObjectsKept
<1>4. StopKept' BY DEF StopKept
<1>5. ASSUME AllOwned' PROVE AllOwned BY <1>5, LeftStays
<1>6. Live' = Live BY DEF Live
<1>7. SessionsCounted' BY <1>5, <1>6 DEF SessionsCounted
<1>8. ~Ahead("audio_close")' /\ ~Ahead("audio_idle")' /\ ~Ahead("metadata_reset")' BY DEF Ahead
<1>9. ClearedKept' BY <1>1, <1>5, <1>6, <1>8 DEF ClearedKept
<1>10. QED BY <1>2, <1>3, <1>4, <1>7, <1>9

\* The object a connection owns.
LEMMA OwnObject ==
  ASSUME TypeOK, ObjectsKept, NEW c \in Conns, owns[c] # None
  PROVE  /\ owns[c] \in Objects /\ stream[owns[c]] # NoStreams
         /\ \A k \in Kinds : stream[owns[c]][k] # "absent"
<1>1. owns[c] \in Objects /\ stream[owns[c]] # NoStreams BY DEF TypeOK, ObjectsKept
<1>2. QED BY <1>1 DEF ObjectsKept

\* SETUP of the audio stream.
LEMMA AudioList ==
  ASSUME IInv, NEW o \in Objects, stream[o]["audio"] = "off",
         core \in {"running", "leaving"}, UNCHANGED <<core, owns, stream>>,
         todo' = <<Call("start", o, "audio")>>
  PROVE  /\ todo' \in Seq(HttpCalls) /\ CallsKept'
         /\ \A i \in DOMAIN todo' : todo'[i].op \in {"start", "stop"}
<1>a. PICK s : s = Call("start", o, "audio") OBVIOUS
<1>1. s \in HttpCalls /\ s.op = "start" /\ s.o = o /\ s.k = "audio"
  BY <1>a DEF Call, HttpCalls, Kinds
<1>2. todo' \in Seq(HttpCalls) /\ Len(todo') = 1 /\ DOMAIN todo' = {1} /\ todo'[1] = s
  BY <1>1, <1>a
<1>3. o # None BY SessionBoundsAssumption DEF Objects, None
<1>4. OffBefore(1, o, "audio")' BY DEF OffBefore
<1>5. CallKept(1)' BY <1>1, <1>2, <1>3, <1>4 DEF CallKept
<1>6. QED BY <1>1, <1>2, <1>5 DEF CallsKept

\* SETUP of the mirror stream.
LEMMA MirrorList ==
  ASSUME IInv, NEW o \in Objects, core \in {"running", "leaving"},
         UNCHANGED <<core, owns, stream>>,
         todo' = <<Call("stop", o, "mirror"), Call("start", o, "mirror")>>
  PROVE  /\ todo' \in Seq(HttpCalls) /\ CallsKept'
         /\ \A i \in DOMAIN todo' : todo'[i].op \in {"start", "stop"}
<1>a. PICK s, t : s = Call("stop", o, "mirror") /\ t = Call("start", o, "mirror") OBVIOUS
<1>1. /\ s \in HttpCalls /\ s.op = "stop" /\ s.o = o /\ s.k = "mirror"
      /\ t \in HttpCalls /\ t.op = "start" /\ t.o = o /\ t.k = "mirror"
  BY <1>a DEF Call, HttpCalls, Kinds
<1>2. /\ todo' \in Seq(HttpCalls) /\ Len(todo') = 2 /\ DOMAIN todo' = {1, 2}
      /\ todo'[1] = s /\ todo'[2] = t
  <2>1. todo' = <<s, t>> BY <1>a
  <2>2. QED BY <1>1, <2>1
<1>3. o # None BY SessionBoundsAssumption DEF Objects, None
<1>4. OffBefore(2, o, "mirror")'
  <2>1. 1 \in 1 .. 2 - 1 OBVIOUS
  <2>2. QED BY <1>1, <1>2, <2>1 DEF OffBefore
<1>5. CallKept(1)' BY <1>1, <1>2, <1>3 DEF CallKept
<1>6. CallKept(2)' BY <1>1, <1>2, <1>3, <1>4 DEF CallKept
<1>7. QED BY <1>1, <1>2, <1>5, <1>6 DEF CallsKept

\* TEARDOWN of one stream.
LEMMA TeardownList ==
  ASSUME IInv, NEW o \in Objects, NEW k \in Kinds, core \in {"running", "leaving"},
         UNCHANGED core, todo' = <<Call("stop", o, k)>>
  PROVE  /\ todo' \in Seq(HttpCalls) /\ CallsKept'
         /\ \A i \in DOMAIN todo' : todo'[i].op \in {"start", "stop"}
<1>a. PICK s : s = Call("stop", o, k) OBVIOUS
<1>1. s \in HttpCalls /\ s.op = "stop" /\ s.o = o BY <1>a DEF Call, HttpCalls
<1>2. todo' \in Seq(HttpCalls) /\ Len(todo') = 1 /\ DOMAIN todo' = {1} /\ todo'[1] = s
  BY <1>1, <1>a
<1>3. o # None BY SessionBoundsAssumption DEF Objects, None
<1>4. CallKept(1)' BY <1>1, <1>2, <1>3 DEF CallKept
<1>5. QED BY <1>1, <1>2, <1>4 DEF CallsKept

\* TEARDOWN without a stream and conn_destroy(): what the connection owned is stopped
\* and freed.
LEMMA DestroyKept ==
  ASSUME IInv, NEW c \in Conns, todo = << >>, core \in {"running", "leaving", "closing"},
         requests' \in Nat, UNCHANGED <<core, peer, stream, pending, hand, sessions>>,
         UNCHANGED <<connected, device, audio, opened, track, artwork>>,
         owns' = [owns EXCEPT ![c] = None], todo' = Destroy(owns[c])
  PROVE  IInv'
<1> USE DEF IInv
<1>a. PICK o : o = owns[c] OBVIOUS
<1>1. DOMAIN todo = {} /\ \A op : ~Ahead(op) BY EmptyList
<1>2. \A d \in Conns : owns'[d] = IF d = c THEN None ELSE owns[d] BY DEF TypeOK
<1>3. ObjectsKept' BY <1>2 DEF ObjectsKept
<1>4. StopKept' BY DEF StopKept
<1>5. Live' = Live BY DEF Live
<1>6. owns' \in [Conns -> Objects \cup {None}] BY DEF TypeOK
<1>7. CASE o = None
  <2>1. todo' = << >> BY <1>a, <1>7 DEF Destroy
  <2>2. DOMAIN todo' = {} /\ \A op : ~Ahead(op)' BY <2>1, EmptySeq, LenProperties DEF Ahead
  <2>3. todo' \in Seq(HttpCalls) BY <2>1, EmptySeq
  <2>4. TypeOK' BY <1>6, <2>3 DEF TypeOK
  <2>5. CallsKept' BY <2>2 DEF CallsKept
  <2>6. ASSUME AllOwned' PROVE AllOwned BY <1>2, <2>2, <2>6, LeftStays
  <2>7. SessionsCounted' BY <1>5, <2>6 DEF SessionsCounted
  <2>8. ClearedKept' BY <1>1, <1>5, <2>2, <2>6 DEF ClearedKept
  <2>9. QED BY <1>3, <1>4, <2>4, <2>5, <2>7, <2>8
<1>8. CASE o # None
  <2>a. PICK s, t, u : s = Call("stop", o, "audio") /\ t = Call("stop", o, "mirror")
                       /\ u = Call("free", o, "audio")
    OBVIOUS
  <2>1. o \in Objects BY <1>a, <1>8, OwnObject
  <2>2. /\ s \in HttpCalls /\ s.op = "stop" /\ s.o = o /\ s.k = "audio"
        /\ t \in HttpCalls /\ t.op = "stop" /\ t.o = o /\ t.k = "mirror"
        /\ u \in HttpCalls /\ u.op = "free" /\ u.o = o
    BY <2>a, <2>1 DEF Call, HttpCalls, Kinds
  <2>3. /\ todo' \in Seq(HttpCalls) /\ Len(todo') = 3 /\ DOMAIN todo' = {1, 2, 3}
        /\ todo'[1] = s /\ todo'[2] = t /\ todo'[3] = u
    <3>1. todo' = <<s, t, u>> BY <1>a, <1>8, <2>a DEF Destroy
    <3>2. QED BY <2>2, <3>1
  <2>4. TypeOK' BY <1>6, <2>3 DEF TypeOK
  <2>5. CallsKept'
    <3>1. CallKept(1)' /\ CallKept(2)' BY <1>8, <2>2, <2>3 DEF CallKept
    <3>2. ASSUME NEW k \in Kinds PROVE OffBefore(3, o, k)'
      <4>1. 1 \in 1 .. 3 - 1 /\ 2 \in 1 .. 3 - 1 OBVIOUS
      <4>2. k = "audio" \/ k = "mirror" BY DEF Kinds
      <4>3. QED BY <2>2, <2>3, <4>1, <4>2 DEF OffBefore
    <3>3. \A d \in Conns : owns'[d] # o BY <1>a, <1>2, <1>8 DEF ObjectsKept
    <3>4. CallKept(3)' BY <1>8, <2>2, <2>3, <3>2, <3>3 DEF CallKept
    <3>5. QED BY <2>3, <3>1, <3>4 DEF CallsKept
  <2>6. ASSUME AllOwned' PROVE AllOwned
    <3>1. \A i \in DOMAIN todo' : todo'[i].op = "free" => \E d \in Conns : owns[d] = todo'[i].o
      BY <1>a, <2>2, <2>3
    <3>2. \A d \in Conns : owns'[d] \in {owns[d], None} BY <1>2
    <3>3. QED BY <2>6, <3>1, <3>2, LeftStays
  <2>7. ~Ahead("audio_close")' /\ ~Ahead("audio_idle")' /\ ~Ahead("metadata_reset")'
    BY <2>2, <2>3 DEF Ahead
  <2>8. SessionsCounted' BY <1>5, <2>6 DEF SessionsCounted
  <2>9. ClearedKept' BY <1>1, <1>5, <2>6, <2>7 DEF ClearedKept
  <2>10. QED BY <1>3, <1>4, <2>4, <2>5, <2>8, <2>9
<1>9. QED BY <1>7, <1>8

\* SETUP with keys: a new object, with no stream that runs.
LEMMA SetupKeysKept ==
  ASSUME IInv, NEW c \in Conns, SetupKeys(c)
  PROVE  IInv'
<1> USE DEF IInv
<1>1. /\ core \in {"running", "leaving"} /\ todo = << >> /\ requests' \in Nat
      /\ UNCHANGED <<core, pending, hand, todo, sessions>>
      /\ UNCHANGED <<connected, device, audio, opened, track, artwork>>
  BY DEF SetupKeys, Idle, Counted, TypeOK, state, metadata
<1>2. PICK o \in Objects :
        /\ stream[o] = NoStreams
        /\ owns' = [owns EXCEPT ![c] = o]
        /\ peer' = [peer EXCEPT ![o] = c]
        /\ stream' = [stream EXCEPT ![o] = [k \in Kinds |-> "off"]]
  BY DEF SetupKeys
<1>3. DOMAIN todo = {} /\ \A op : ~Ahead(op) BY <1>1, EmptyList
<1>4. /\ \A d \in Conns : owns'[d] = IF d = c THEN o ELSE owns[d]
      /\ \A q \in Objects : /\ peer'[q] = IF q = o THEN c ELSE peer[q]
                            /\ q # o => stream'[q] = stream[q]
      /\ \A k \in Kinds : stream'[o][k] = "off" /\ stream[o][k] = "absent"
  BY <1>2 DEF TypeOK, NoStreams
<1>5. "audio" \in Kinds BY DEF Kinds
<1>6. stream'[o] # NoStreams /\ hand[o] = << >> BY <1>2, <1>4, <1>5 DEF NoStreams, ObjectsKept
<1>7. TypeOK' BY <1>1, <1>2 DEF TypeOK
<1>8. ObjectsKept'
  <2>1. ASSUME NEW q \in Objects
        PROVE  /\ \A k \in Kinds : stream'[q][k] = "absent" => stream'[q] = NoStreams
               /\ stream'[q] # NoStreams => peer'[q] \in Conns
               /\ hand'[q] # << >> => stream'[q]["audio"] \in {"on", "ending"}
               /\ \A i \in DOMAIN hand'[q] : hand'[q][i].op = "artwork" => hand'[q][i].o # 0
    <3>1. CASE q = o BY <1>1, <1>4, <1>6, <3>1 DEF ObjectsKept
    <3>2. CASE q # o BY <1>1, <1>4, <3>2 DEF ObjectsKept
    <3>3. QED BY <3>1, <3>2
  <2>2. ASSUME NEW d \in Conns, owns'[d] # None
        PROVE  stream'[owns'[d]] # NoStreams /\ \A e \in Conns : owns'[e] = owns'[d] => e = d
    <3>1. \A e \in Conns : owns[e] # o
      BY <1>2, SessionBoundsAssumption DEF ObjectsKept, Objects, None
    <3>2. CASE d = c BY <1>4, <1>6, <3>1, <3>2
    <3>3. CASE d # c BY <1>4, <2>2, <3>1, <3>3 DEF ObjectsKept, TypeOK
    <3>4. QED BY <3>2, <3>3
  <2>3. QED BY <2>1, <2>2 DEF ObjectsKept
<1>9. CallsKept' BY <1>1, <1>3 DEF CallsKept
<1>10. StopKept' BY <1>1 DEF StopKept
<1>11. Live' = Live
  <2>1. ASSUME NEW q \in Objects, NEW k \in Kinds
        PROVE  stream'[q][k] \in {"on", "ending", "joined"}
                 <=> stream[q][k] \in {"on", "ending", "joined"}
    BY <1>4
  <2>2. QED BY <2>1 DEF Live
<1>12. ASSUME AllOwned' PROVE AllOwned
  <2>1. \A q \in Objects : stream[q] # NoStreams => stream'[q] # NoStreams BY <1>2, <1>4
  <2>2. \A d \in Conns : \/ owns'[d] \in {owns[d], None}
                         \/ owns'[d] \in Objects /\ stream[owns'[d]] = NoStreams
    BY <1>2, <1>4
  <2>3. QED BY <1>1, <1>3, <1>12, <2>1, <2>2, LeftStays
<1>13. SessionsCounted' BY <1>1, <1>11, <1>12 DEF SessionsCounted
<1>14. \A op : Ahead(op)' <=> Ahead(op) BY <1>1 DEF Ahead
<1>15. ClearedKept' BY <1>1, <1>3, <1>11, <1>12, <1>14 DEF ClearedKept
<1>16. QED BY <1>7, <1>8, <1>9, <1>10, <1>13, <1>15

\* Every request keeps the invariant.
LEMMA RequestKept ==
  ASSUME IInv, NEW c \in Conns,
         \/ End(c) \/ SetupKeys(c) \/ SetupAudio(c) \/ SetupMirror(c)
         \/ \E k \in Kinds : TeardownStream(c, k)
         \/ Teardown(c)
  PROVE  IInv'
<1> USE DEF IInv
<1>1. ASSUME todo = << >>, core \in {"running", "leaving", "closing"}, requests' \in Nat, Close(c)
      PROVE  IInv'
  BY <1>1, DestroyKept DEF Close, state, metadata
<1>2. ASSUME Counted PROVE requests' \in Nat BY <1>2 DEF Counted, TypeOK
<1>3. CASE End(c) BY <1>1, <1>2, <1>3 DEF End, Idle
<1>4. CASE SetupKeys(c) BY <1>4, SetupKeysKept
<1>5. CASE SetupAudio(c)
  <2>1. todo = << >> /\ core \in {"running", "leaving"} /\ requests' \in Nat
    BY <1>2, <1>5 DEF SetupAudio, Idle
  <2>2. CASE Close(c) BY <1>1, <2>1, <2>2
  <2>3. CASE /\ Valid(c) /\ stream[owns[c]]["audio"] = "off"
             /\ todo' = <<Call("start", owns[c], "audio")>>
             /\ UNCHANGED <<core, objects, hand, state, metadata, seen>>
    <3>1. owns[c] \in Objects BY <2>3, OwnObject DEF Valid
    <3>2. UNCHANGED <<core, owns, peer, stream, pending, hand, sessions>>
          /\ UNCHANGED <<connected, device, audio, opened, track, artwork>>
      BY <2>3 DEF objects, state, metadata
    <3>a. PICK o \in Objects : o = owns[c] BY <3>1
    <3>3. /\ todo' \in Seq(HttpCalls) /\ CallsKept'
          /\ \A i \in DOMAIN todo' : todo'[i].op \in {"start", "stop"}
      BY <2>1, <2>3, <3>2, <3>a, AudioList
    <3>4. QED BY <2>1, <3>2, <3>3, NewList
  <2>4. QED BY <1>5, <2>2, <2>3 DEF SetupAudio
<1>6. CASE SetupMirror(c)
  <2>1. todo = << >> /\ core \in {"running", "leaving"} /\ requests' \in Nat
    BY <1>2, <1>6 DEF SetupMirror, Idle
  <2>2. CASE Close(c) BY <1>1, <2>1, <2>2
  <2>3. CASE /\ Valid(c)
             /\ todo' = <<Call("stop", owns[c], "mirror"), Call("start", owns[c], "mirror")>>
             /\ UNCHANGED <<core, objects, hand, state, metadata, seen>>
    <3>1. owns[c] \in Objects BY <2>3, OwnObject DEF Valid
    <3>2. UNCHANGED <<core, owns, peer, stream, pending, hand, sessions>>
          /\ UNCHANGED <<connected, device, audio, opened, track, artwork>>
      BY <2>3 DEF objects, state, metadata
    <3>a. PICK o \in Objects : o = owns[c] BY <3>1
    <3>3. /\ todo' \in Seq(HttpCalls) /\ CallsKept'
          /\ \A i \in DOMAIN todo' : todo'[i].op \in {"start", "stop"}
      BY <2>1, <2>3, <3>2, <3>a, MirrorList
    <3>4. QED BY <2>1, <3>2, <3>3, NewList
  <2>4. QED BY <1>6, <2>2, <2>3 DEF SetupMirror
<1>7. ASSUME NEW k \in Kinds, TeardownStream(c, k) PROVE IInv'
  <2>1. todo = << >> /\ core \in {"running", "leaving"} /\ requests' \in Nat /\ owns[c] # None
    BY <1>2, <1>7 DEF TeardownStream, Idle
  <2>2. UNCHANGED <<core, owns, peer, stream, pending, hand, sessions>>
        /\ UNCHANGED <<connected, device, audio, opened, track, artwork>>
        /\ todo' = <<Call("stop", owns[c], k)>>
    BY <1>7 DEF TeardownStream, objects, state, metadata
  <2>a. PICK o \in Objects : o = owns[c] BY <2>1, OwnObject
  <2>3. /\ todo' \in Seq(HttpCalls) /\ CallsKept'
        /\ \A i \in DOMAIN todo' : todo'[i].op \in {"start", "stop"}
    BY <2>1, <2>2, <2>a, TeardownList
  <2>4. QED BY <2>1, <2>2, <2>3, NewList
<1>8. CASE Teardown(c)
  BY <1>2, <1>8, DestroyKept DEF Teardown, Idle, state, metadata
<1>9. QED BY <1>3, <1>4, <1>5, <1>6, <1>7, <1>8

-----------------------------------------------------------------------------
(* The threads of the streams keep the invariant. *)

\* A step that leaves streams and calls alone, and shows nothing when no stream runs.
LEMMA QuietKept ==
  ASSUME IInv, TypeOK', ObjectsKept', UNCHANGED <<core, owns, stream, todo, sessions>>,
         Live = {} => UNCHANGED <<connected, device, audio, opened, track, artwork>>
  PROVE  IInv'
<1> USE DEF IInv
<1>1. Live' = Live /\ (AllOwned' <=> AllOwned) BY DEF Live, AllOwned, LeftBehind
<1>2. \A op : Ahead(op)' <=> Ahead(op) BY DEF Ahead
<1>3. CallsKept'
  <2>1. ASSUME NEW i \in DOMAIN todo PROVE CallKept(i)' <=> CallKept(i)
    BY DEF CallKept, OffBefore
  <2>2. QED BY <2>1 DEF CallsKept
<1>4. StopKept' BY DEF StopKept
<1>5. SessionsCounted' BY <1>1 DEF SessionsCounted
<1>6. ClearedKept' BY <1>1, <1>2 DEF ClearedKept
<1>7. QED BY <1>3, <1>4, <1>5, <1>6

\* The calls for what waits; a picture has a number.
LEMMA EventsCalls ==
  ASSUME NEW p \in [flush : BOOLEAN, track : BOOLEAN, artwork : Nat]
  PROVE  /\ Events(p) \in Seq(ThreadCalls)
         /\ \A i \in DOMAIN Events(p) : Events(p)[i].op = "artwork" => Events(p)[i].o # 0
<1> DEFINE Good == {call \in ThreadCalls : call.op = "artwork" => call.o # 0}
           a == IF p.flush THEN <<Do("audio_close"), Do("audio_idle")>> ELSE << >>
           b == IF p.track THEN <<Do("track")>> ELSE << >>
           d == IF p.artwork # 0 THEN <<With("artwork", p.artwork)>> ELSE << >>
<1>1. Do("audio_close") \in Good /\ Do("audio_idle") \in Good /\ Do("track") \in Good
  BY DEF Do, Call, ThreadCalls, Kinds, None
<1>2. p.artwork # 0 => With("artwork", p.artwork) \in Good
  BY DEF With, Call, ThreadCalls, Kinds
<1> HIDE DEF Good
<1>3. a \in Seq(Good) /\ b \in Seq(Good) /\ d \in Seq(Good) BY <1>1, <1>2
<1> HIDE DEF a, b, d
<1>4. (a \o b) \o d \in Seq(Good) BY <1>3, ConcatProperties
<1>5. Events(p) = (a \o b) \o d
  <2>1. Events(p) = a \o b \o d BY DEF Events, a, b, d
  <2>2. QED BY <2>1
<1>6. Events(p) \in Seq(Good) BY <1>4, <1>5
<1>7. Events(p) \in Seq(ThreadCalls) BY <1>6 DEF Good
<1>8. \A i \in DOMAIN Events(p) : Events(p)[i] \in Good BY <1>6, LenProperties, ElementOfSeq
<1>9. QED BY <1>7, <1>8 DEF Good

\* What an audio thread that is not joined may have in hand.
LEMMA HandKept ==
  ASSUME IInv, NEW o \in Objects, NEW h \in Seq(ThreadCalls),
         \A i \in DOMAIN h : h[i].op = "artwork" => h[i].o # 0,
         stream[o]["audio"] \in {"on", "ending"},
         hand' = [hand EXCEPT ![o] = h], UNCHANGED <<owns, peer, stream>>
  PROVE  ObjectsKept' /\ hand' \in [Objects -> Seq(ThreadCalls)]
<1> USE DEF IInv
<1>1. \A q \in Objects : hand'[q] = IF q = o THEN h ELSE hand[q] BY DEF TypeOK
<1>2. ASSUME NEW q \in Objects
      PROVE  /\ \A k \in Kinds : stream'[q][k] = "absent" => stream'[q] = NoStreams
             /\ stream'[q] # NoStreams => peer'[q] \in Conns
             /\ hand'[q] # << >> => stream'[q]["audio"] \in {"on", "ending"}
             /\ \A i \in DOMAIN hand'[q] : hand'[q][i].op = "artwork" => hand'[q][i].o # 0
  BY <1>1 DEF ObjectsKept
<1>3. hand' \in [Objects -> Seq(ThreadCalls)] BY DEF TypeOK
<1>4. QED BY <1>2, <1>3 DEF ObjectsKept

\* A thread with calls in hand, and its sender.
LEMMA ThreadRuns ==
  ASSUME IInv, NEW o \in Objects, hand[o] # << >>
  PROVE  stream[o]["audio"] \in {"on", "ending"} /\ Live # {} /\ peer[o] \in Conns
<1>1. stream[o]["audio"] \in {"on", "ending"} BY DEF IInv, ObjectsKept
<1>2. "audio" \in Kinds BY DEF Kinds
<1>3. Live # {} BY <1>1, <1>2, NoneLive
<1>4. stream[o] # NoStreams BY <1>1, <1>2, Absent
<1>5. QED BY <1>1, <1>3, <1>4 DEF IInv, ObjectsKept

\* FLUSH and SET_PARAMETER
LEMMA SetKept ==
  ASSUME IInv, NEW c \in Conns, NEW what \in {"flush", "track", "artwork"}, Set(c, what)
  PROVE  IInv'
<1> USE DEF IInv
<1>1. requests' \in Nat /\ owns[c] # None /\ owns[c] \in Objects
  BY OwnObject DEF Set, Counted, TypeOK
<1>2. UNCHANGED <<core, owns, peer, stream, hand, todo, sessions>>
      /\ UNCHANGED <<connected, device, audio, opened, track, artwork>>
  BY DEF Set, state, metadata
<1>3. pending' \in [Objects -> [flush : BOOLEAN, track : BOOLEAN, artwork : Nat]]
  <2> DEFINE p == pending[owns[c]]
             s == CASE what = "flush" -> [p EXCEPT !.flush = TRUE]
                    [] what = "track" -> [p EXCEPT !.track = TRUE]
                    [] what = "artwork" -> [p EXCEPT !.artwork = requests']
  <2>1. p \in [flush : BOOLEAN, track : BOOLEAN, artwork : Nat] BY <1>1 DEF TypeOK
  <2>2. s \in [flush : BOOLEAN, track : BOOLEAN, artwork : Nat] BY <1>1, <2>1
  <2>3. pending' = [pending EXCEPT ![owns[c]] = s] BY DEF Set
  <2> HIDE DEF s
  <2>4. QED BY <2>2, <2>3 DEF TypeOK
<1>4. TypeOK' BY <1>1, <1>2, <1>3 DEF TypeOK
<1>5. ObjectsKept' BY <1>2 DEF ObjectsKept
<1>6. QED BY <1>2, <1>4, <1>5, QuietKept

\* raop_rtp_thread_udp()
LEMMA LoopKept == ASSUME IInv, NEW o \in Objects, Loop(o) PROVE IInv'
<1> USE DEF IInv
<1>1. /\ stream[o]["audio"] = "on"
      /\ UNCHANGED <<core, owns, peer, stream, todo, sessions>>
      /\ UNCHANGED <<connected, device, audio, opened, track, artwork>>
      /\ pending' = [pending EXCEPT ![o] = NothingPending]
      /\ requests' \in Nat
  BY DEF Loop, Counted, TypeOK, state, metadata
<1>a. PICK e : e = Events(pending[o]) OBVIOUS
<1>2. e \in Seq(ThreadCalls) /\ \A i \in DOMAIN e : e[i].op = "artwork" => e[i].o # 0
  BY <1>a, EventsCalls DEF TypeOK
<1>3. PICK h \in {e, Append(e, Do("pcm"))} : hand' = [hand EXCEPT ![o] = h] BY <1>a DEF Loop
<1>4. h \in Seq(ThreadCalls) /\ \A i \in DOMAIN h : h[i].op = "artwork" => h[i].o # 0
  <2>1. CASE h = e BY <1>2, <2>1
  <2>2. CASE h = Append(e, Do("pcm"))
    <3>a. PICK d : d = Do("pcm") OBVIOUS
    <3>1. d \in ThreadCalls /\ d.op = "pcm" BY <3>a DEF Do, Call, ThreadCalls, Kinds, None
    <3>2. /\ h \in Seq(ThreadCalls) /\ Len(h) = Len(e) + 1 /\ h[Len(e) + 1] = d
          /\ \A i \in 1 .. Len(e) : h[i] = e[i]
      BY <1>2, <2>2, <3>1, <3>a, AppendProperties
    <3>3. Len(e) \in Nat /\ DOMAIN e = 1 .. Len(e) /\ DOMAIN h = 1 .. Len(e) + 1
      BY <1>2, <3>2, LenProperties
    <3>4. QED BY <1>2, <3>1, <3>2, <3>3
  <2>3. QED BY <2>1, <2>2
<1>5. ObjectsKept' /\ hand' \in [Objects -> Seq(ThreadCalls)] BY <1>1, <1>3, <1>4, HandKept
<1>6. NothingPending \in [flush : BOOLEAN, track : BOOLEAN, artwork : Nat]
  BY DEF NothingPending
<1>7. TypeOK' BY <1>1, <1>5, <1>6 DEF TypeOK
<1>8. QED BY <1>1, <1>5, <1>7, QuietKept

\* The audio thread makes a call: its stream is not joined, so it is not after the end.
LEMMA ThreadKept == ASSUME IInv, NEW o \in Objects, ThreadStep(o) PROVE IInv'
<1> USE DEF IInv
<1>1. hand[o] # << >> /\ UNCHANGED <<core, owns, peer, stream, pending, todo, requests>>
  BY DEF ThreadStep, objects
<1>2. UNCHANGED sessions
  BY DEF ThreadStep, Pcm, AudioClose, AudioIdle, TrackSet, ArtworkSet, Playing, Failed, state
<1>3. stream[o]["audio"] \in {"on", "ending"} /\ Live # {} BY <1>1, ThreadRuns
<1>4. PICK h \in {<<Do("playing")>>, <<Do("failed")>>, Tail(hand[o])} :
        hand' = [hand EXCEPT ![o] = h]
  BY DEF ThreadStep, Pcm
<1>5. h \in Seq(ThreadCalls) /\ \A i \in DOMAIN h : h[i].op = "artwork" => h[i].o # 0
  <2>1. CASE h = Tail(hand[o])
    <3>1. hand[o] \in Seq(ThreadCalls) BY DEF TypeOK
    <3>2. /\ h \in Seq(ThreadCalls) /\ Len(h) = Len(hand[o]) - 1
          /\ \A i \in 1 .. Len(h) : h[i] = hand[o][i + 1]
      BY <1>1, <2>1, <3>1, HeadTailProperties
    <3>3. Len(hand[o]) \in Nat /\ DOMAIN hand[o] = 1 .. Len(hand[o]) /\ DOMAIN h = 1 .. Len(h)
      BY <3>1, <3>2, LenProperties
    <3>4. \A i \in DOMAIN h : i + 1 \in DOMAIN hand[o] BY <3>2, <3>3
    <3>5. QED BY <3>2, <3>3, <3>4 DEF ObjectsKept
  <2>2. ASSUME NEW op \in {"playing", "failed"}, h = <<Do(op)>>
        PROVE  h \in Seq(ThreadCalls) /\ \A i \in DOMAIN h : h[i].op = "artwork" => h[i].o # 0
    <3>a. PICK d : d = Do(op) OBVIOUS
    <3>1. d \in ThreadCalls /\ d.op # "artwork" BY <3>a DEF Do, Call, ThreadCalls, Kinds, None
    <3>2. h = <<d>> BY <2>2, <3>a
    <3>3. QED BY <3>1, <3>2
  <2>3. QED BY <2>1, <2>2
<1>6. ObjectsKept' /\ hand' \in [Objects -> Seq(ThreadCalls)] BY <1>1, <1>3, <1>4, <1>5, HandKept
<1>7. TypeOK' BY <1>1, <1>2, <1>6 DEF TypeOK
<1>8. QED BY <1>1, <1>2, <1>3, <1>6, <1>7, QuietKept

\* cb_video_process(), of a stream that is not joined.
LEMMA MirrorKept == ASSUME IInv, NEW o \in Objects, MirrorReport(o) PROVE IInv'
<1> USE DEF IInv
<1>1. /\ UNCHANGED <<core, owns, peer, stream, pending, hand, todo, sessions, requests>>
      /\ stream[o]["mirror"] \in {"on", "ending"}
  BY DEF MirrorReport, objects
<1>2. "mirror" \in Kinds BY DEF Kinds
<1>3. Live # {} BY <1>1, <1>2, NoneLive
<1>4. TypeOK' BY <1>1 DEF TypeOK
<1>5. ObjectsKept' BY <1>1 DEF ObjectsKept
<1>6. QED BY <1>1, <1>3, <1>4, <1>5, QuietKept

-----------------------------------------------------------------------------
(* airtizen_core_stop() and airtizen_core_start() keep the invariant. *)

\* A step from one stage to the next; which stage it is matters to the calls only if
\* there are any, and to the count only if streams may run.
LEMMA StageKept ==
  ASSUME IInv, requests' \in Nat,
         core' \in {"running", "leaving", "closing", "stopped"},
         core # "joined" \/ todo = << >>, todo = << >> \/ core' # "stopped",
         core \in {"joined", "stopped"} <=> core' \in {"joined", "stopped"},
         core # "stopped",
         UNCHANGED <<owns, peer, stream, pending, hand, todo, sessions>>,
         UNCHANGED <<connected, device, audio, opened, track, artwork>>
  PROVE  IInv'
<1> USE DEF IInv
<1>1. TypeOK' BY DEF TypeOK
<1>2. ObjectsKept' BY DEF ObjectsKept
<1>3. CallsKept'
  <2>1. ASSUME NEW i \in DOMAIN todo, CallKept(i), core # "joined" PROVE CallKept(i)'
    <3>1. \A o, k : OffBefore(i, o, k)' <=> OffBefore(i, o, k) BY DEF OffBefore
    <3>2. QED BY <2>1, <3>1 DEF CallKept
  <2>2. todo = << >> => DOMAIN todo = {} BY EmptyList
  <2>3. QED BY <2>1, <2>2 DEF CallsKept
<1>4. StopKept' BY DEF StopKept
<1>5. Live' = Live /\ (AllOwned' <=> AllOwned) BY DEF Live, AllOwned, LeftBehind
<1>6. SessionsCounted' BY <1>5 DEF SessionsCounted, TypeOK
<1>7. \A op : Ahead(op)' <=> Ahead(op) BY DEF Ahead
<1>8. ClearedKept' BY <1>5, <1>7 DEF ClearedKept
<1>9. QED BY <1>1, <1>2, <1>3, <1>4, <1>6, <1>8

\* The last connection is removed and core_stop() goes on: nobody owns anything.
LEMMA JoinedKept ==
  ASSUME IInv, todo = << >>, core = "closing", \A c \in Conns : owns[c] = None,
         core' = "joined", todo' = <<Do("disconnected"), Do("metadata_reset")>>,
         UNCHANGED <<owns, peer, stream, pending, hand, sessions, requests>>,
         UNCHANGED <<connected, device, audio, opened, track, artwork>>
  PROVE  IInv'
<1> USE DEF IInv
<1>a. PICK s, t : s = Do("disconnected") /\ t = Do("metadata_reset") OBVIOUS
<1>1. /\ s \in HttpCalls /\ s.op = "disconnected" /\ s.o = None
      /\ t \in HttpCalls /\ t.op = "metadata_reset"
  BY <1>a DEF Do, Call, HttpCalls, Kinds
<1>2. /\ todo' \in Seq(HttpCalls) /\ Len(todo') = 2 /\ DOMAIN todo' = {1, 2}
      /\ todo'[1] = s /\ todo'[2] = t
  <2>1. todo' = <<s, t>> BY <1>a
  <2>2. QED BY <1>1, <2>1
<1>3. TypeOK' BY <1>2 DEF TypeOK
<1>4. ObjectsKept' BY DEF ObjectsKept
<1>5. CallsKept'
  <2>1. CallKept(1)' BY <1>1, <1>2 DEF CallKept
  <2>2. CallKept(2)' BY <1>1, <1>2 DEF CallKept
  <2>3. QED BY <1>2, <2>1, <2>2 DEF CallsKept
<1>6. StopKept' BY DEF StopKept
<1>7. SessionsCounted' BY DEF SessionsCounted
<1>8. DOMAIN todo = {} /\ \A op : ~Ahead(op) BY EmptyList
<1>9. ASSUME AllOwned' PROVE AllOwned
  <2>1. \A i \in DOMAIN todo' : todo'[i].op # "free" BY <1>1, <1>2
  <2>2. QED BY <1>9, <2>1, LeftStays
<1>10. ASSUME AllOwned' PROVE Live = {}
  <2>1. ASSUME NEW o \in Objects PROVE stream[o] = NoStreams
    <3>1. o # None BY SessionBoundsAssumption DEF Objects, None
    <3>2. QED BY <1>8, <1>9, <1>10, <3>1 DEF AllOwned, LeftBehind
  <2>2. QED BY <2>1, NoneLive, Absent
<1>11. Ahead("metadata_reset")' BY <1>1, <1>2 DEF Ahead
<1>12. Live' = Live BY DEF Live
<1>13. ClearedKept' BY <1>8, <1>9, <1>10, <1>11, <1>12 DEF ClearedKept
<1>14. QED BY <1>3, <1>4, <1>5, <1>6, <1>7, <1>13

\* airtizen_core_start(), whether the listener is had or not.
LEMMA StartCoreKept == ASSUME IInv, Start PROVE IInv'
<1> USE DEF IInv
<1>1. /\ core = "stopped" /\ todo = << >> /\ requests' \in Nat
      /\ UNCHANGED <<owns, peer, stream, pending, hand, todo, opened, track, artwork>>
      /\ sessions' = 0 /\ connected' = FALSE /\ device' = NoConn
      /\ \/ core' = "running" /\ audio' = "idle"
         \/ core' = "stopped" /\ audio' = "failed"
  BY DEF Start, Counted, TypeOK, StopKept, objects, metadata
<1>2. DOMAIN todo = {} /\ \A op : ~Ahead(op) BY <1>1, EmptyList
<1>3. TypeOK' BY <1>1 DEF TypeOK
<1>4. ObjectsKept' BY <1>1 DEF ObjectsKept
<1>5. CallsKept' BY <1>1, <1>2 DEF CallsKept
<1>6. StopKept' BY <1>1 DEF StopKept
<1>7. Live' = Live /\ (AllOwned' <=> AllOwned) BY <1>1 DEF Live, AllOwned, LeftBehind
<1>8. AllOwned => Live = {} BY <1>1, JoinedEmpty
<1>9. SessionsCounted' BY <1>1, <1>7, <1>8, FS_EmptySet DEF SessionsCounted
<1>10. \A op : Ahead(op)' <=> Ahead(op) BY <1>1 DEF Ahead
<1>11. ~connected' BY <1>1
<1>12. ClearedKept' BY <1>1, <1>2, <1>7, <1>8, <1>10, <1>11 DEF ClearedKept
<1>13. QED BY <1>3, <1>4, <1>5, <1>6, <1>9, <1>12

\* The invariant is inductive.
LEMMA SessionsStep == ASSUME IInv, [Next]_vars PROVE IInv'
<1> USE DEF IInv
<1>1. ASSUME NEW c \in Conns,
             \/ End(c) \/ SetupKeys(c) \/ SetupAudio(c) \/ SetupMirror(c)
             \/ \E k \in Kinds : TeardownStream(c, k)
             \/ Teardown(c)
      PROVE  IInv'
  BY <1>1, RequestKept
<1>2. ASSUME NEW c \in Conns, NEW what \in {"flush", "track", "artwork"}, Set(c, what)
      PROVE  IInv'
  BY <1>2, SetKept
<1>3. CASE Work BY <1>3, WorkKept
<1>4. ASSUME NEW o \in Objects, Loop(o) \/ ThreadStep(o) \/ MirrorReport(o) PROVE IInv'
  BY <1>4, LoopKept, ThreadKept, MirrorKept
<1>5. CASE StopBegin
  <2>1. /\ core = "running" /\ core' = "leaving" /\ requests' \in Nat
        /\ UNCHANGED <<owns, peer, stream, pending, hand, todo, sessions>>
        /\ UNCHANGED <<connected, device, audio, opened, track, artwork>>
    BY <1>5 DEF StopBegin, Counted, TypeOK, objects, state, metadata
  <2>2. QED BY <2>1, StageKept
<1>6. CASE Leave
  <2>1. todo = << >> /\ requests' = requests /\ requests \in Nat BY <1>6 DEF Leave, TypeOK
  <2>2. CASE core = "leaving" /\ core' = "closing"
             /\ UNCHANGED <<objects, hand, todo, state, metadata, seen>>
    BY <2>1, <2>2, StageKept DEF objects, state, metadata
  <2>3. ASSUME NEW c \in Conns, core = "closing", Close(c) PROVE IInv'
    BY <2>1, <2>3, DestroyKept DEF Close, state, metadata
  <2>4. CASE /\ core = "closing" /\ \A c \in Conns : owns[c] = None
             /\ core' = "joined"
             /\ todo' = <<Do("disconnected"), Do("metadata_reset")>>
             /\ UNCHANGED <<objects, hand, state, metadata, seen>>
    BY <2>1, <2>4, JoinedKept DEF objects, state, metadata
  <2>5. QED BY <1>6, <2>2, <2>3, <2>4 DEF Leave
<1>7. CASE StopEnd
  <2>1. /\ core = "joined" /\ todo = << >> /\ core' = "stopped" /\ requests' \in Nat
        /\ UNCHANGED <<owns, peer, stream, pending, hand, todo, sessions>>
        /\ UNCHANGED <<connected, device, audio, opened, track, artwork>>
    BY <1>7 DEF StopEnd, TypeOK, objects, state, metadata
  <2>2. QED BY <2>1, StageKept
<1>8. CASE Start BY <1>8, StartCoreKept
<1>9. CASE Status \/ UNCHANGED vars
  <2>1. /\ UNCHANGED <<core, owns, peer, stream, pending, hand, todo, sessions, requests>>
        /\ UNCHANGED <<connected, device, audio, opened, track, artwork>>
    BY <1>9 DEF Status, vars, objects, state, metadata
  <2>2. TypeOK' BY <2>1 DEF TypeOK
  <2>3. ObjectsKept' BY <2>1 DEF ObjectsKept
  <2>4. QED BY <2>1, <2>2, <2>3, QuietKept
<1>10. QED BY <1>1, <1>2, <1>3, <1>4, <1>5, <1>6, <1>7, <1>8, <1>9 DEF Next

LEMMA SessionsInit == Init => IInv
<1> SUFFICES ASSUME Init PROVE IInv OBVIOUS
<1> USE DEF Init
<1>1. DOMAIN todo = {} /\ \A op : ~Ahead(op) BY EmptyList
<1>2. NoStreams \in [Kinds -> {"absent", "off", "on", "ending", "joined"}] BY DEF NoStreams
<1>3. NothingPending \in [flush : BOOLEAN, track : BOOLEAN, artwork : Nat]
  BY DEF NothingPending
<1>4. << >> \in Seq(ThreadCalls) /\ << >> \in Seq(HttpCalls) BY EmptySeq
<1>5. TypeOK BY <1>2, <1>3, <1>4 DEF TypeOK, None
<1>6. ASSUME NEW o \in Objects PROVE stream[o] = NoStreams /\ hand[o] = << >> OBVIOUS
<1>7. ObjectsKept
  <2>1. \A o \in Objects : DOMAIN hand[o] = {} BY <1>6, EmptySeq, LenProperties
  <2>2. QED BY <1>6, <2>1 DEF ObjectsKept, None
<1>8. CallsKept BY <1>1 DEF CallsKept
<1>9. StopKept BY DEF StopKept
<1>10. Live = {} BY <1>6, Absent, NoneLive
<1>11. SessionsCounted BY <1>10, FS_EmptySet DEF SessionsCounted
<1>12. ~connected /\ ~opened OBVIOUS
<1>13. ClearedKept BY <1>1, <1>12 DEF ClearedKept
<1>14. QED BY <1>5, <1>7, <1>8, <1>9, <1>11, <1>13 DEF IInv

\* The sessions' invariant, under every interleaving of the HTTP thread, the audio and
\* mirror threads of every object and the control thread (airtizen_core.c,
\* airtizen_raop_guard.h).
THEOREM SessionsInvariant == Spec => []IInv
BY SessionsInit, SessionsStep, PTL DEF Spec

\* g_sessions counts the streams that run (cb_connected(), cb_disconnected()).
THEOREM SessionsCount == Spec => []SessionsCounted
<1>1. IInv => SessionsCounted BY DEF IInv
<1>2. QED BY <1>1, SessionsInvariant, PTL

\* When the last stream has ended nothing of the session is left (cb_disconnected(),
\* cb_audio_flush(), airtizen_metadata_reset()).
THEOREM SessionsNobodyLeft == Spec => []NobodyLeft
<1>1. IInv => NobodyLeft
  <2> SUFFICES ASSUME IInv, AllOwned, Live = {}, todo = << >>
               PROVE  /\ ~connected /\ device = NoConn
                      /\ audio = "idle" \/ (core = "stopped" /\ audio = "failed")
                      /\ ~opened
                      /\ track = NoConn /\ artwork = 0
    BY DEF NobodyLeft
  <2>1. \A op : ~Ahead(op) BY EmptyList
  <2>2. QED BY <2>1 DEF IInv, ClearedKept
<1>2. QED BY <1>1, SessionsInvariant, PTL

\* No disconnect clears the track or the picture of a session that goes on.
THEOREM SessionsOthersKeepTrack == Spec => OthersKeepTrack
<1> DEFINE Cleared == (artwork # 0 /\ artwork' = 0) \/ (track # NoConn /\ track' = NoConn)
<1>1. ASSUME IInv, [Next]_vars PROVE [AllOwned /\ Cleared => Live = {}]_vars
  <2> SUFFICES ASSUME Next, AllOwned, Cleared PROVE Live = {} BY <1>1
  <2>1. CASE Work
    <3>1. todo # << >> /\ Head(todo) = todo[1] /\ 1 \in DOMAIN todo
      BY <1>1, <2>1, TodoFacts DEF Work, IInv, TypeOK
    <3>2. todo[1].op = "metadata_reset"
      <4>1. CASE UNCHANGED <<artwork, track>> BY <4>1
      <4>2. QED
        BY <2>1, <3>1, <4>1
        DEF Work, StartStream, StopStream, JoinStream, Disconnected, Free, Plain,
            AudioClose, AudioIdle, metadata
    <3>3. QED BY <1>1, <3>1, <3>2 DEF IInv, ClearedKept, Ahead
  <2>2. ASSUME NEW o \in Objects, ThreadStep(o) PROVE Live = {}
    <3> DEFINE call == Head(hand[o])
    <3>1. hand[o] # << >> /\ hand[o] \in Seq(ThreadCalls)
      BY <1>1, <2>2 DEF ThreadStep, IInv, TypeOK
    <3>2. call = hand[o][1] /\ 1 \in DOMAIN hand[o] BY <3>1, EmptySeq, LenProperties
    <3>3. peer[o] # NoConn BY <1>1, <3>1, ThreadRuns, ConnsAssumption
    <3>4. call.op = "artwork" => call.o # 0 BY <1>1, <3>2 DEF IInv, ObjectsKept
    <3>5. CASE UNCHANGED <<artwork, track>> BY <3>5
    <3>6. CASE call.op = "track" /\ TrackSet(peer[o]) BY <3>3, <3>6 DEF TrackSet
    <3>7. CASE call.op = "artwork" /\ ArtworkSet(call.o) BY <3>4, <3>7 DEF ArtworkSet
    <3>8. QED
      BY <2>2, <3>5, <3>6, <3>7
      DEF ThreadStep, Pcm, AudioClose, AudioIdle, Playing, Failed, metadata
  <2>3. ASSUME NEW c \in Conns,
               \/ End(c) \/ SetupKeys(c) \/ SetupAudio(c) \/ SetupMirror(c) \/ Teardown(c)
               \/ \E k \in Kinds : TeardownStream(c, k)
               \/ \E what \in {"flush", "track", "artwork"} : Set(c, what)
        PROVE  UNCHANGED <<artwork, track>>
    BY <2>3 DEF End, SetupKeys, SetupAudio, SetupMirror, Teardown, TeardownStream, Set, Close, metadata
  <2>4. ASSUME NEW o \in Objects, Loop(o) \/ MirrorReport(o) PROVE UNCHANGED <<artwork, track>>
    BY <2>4 DEF Loop, MirrorReport, metadata
  <2>5. ASSUME StopBegin \/ Leave \/ StopEnd \/ Start \/ Status PROVE UNCHANGED <<artwork, track>>
    BY <2>5 DEF StopBegin, Leave, StopEnd, Start, Status, Close, metadata
  <2>6. QED BY <2>1, <2>2, <2>3, <2>4, <2>5 DEF Next
<1>2. QED BY <1>1, SessionsInvariant, PTL DEF Spec, OthersKeepTrack
=============================================================================
