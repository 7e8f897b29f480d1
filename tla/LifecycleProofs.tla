-------------------------- MODULE LifecycleProofs ---------------------------
(***************************************************************************)
(* Proofs about Lifecycle and RemoteControl, for every set of owners and   *)
(* discovery profiles and every value of the bounds.                       *)
(*                                                                         *)
(* The argument.  A call holds g_lock from begin to end, so at most one    *)
(* call is past its lock (LockKept), and its step says how far the         *)
(* receiver is up (StagesKept).  Name, profile and key change only at      *)
(* steps at which nothing is advertised, so what the mDNS thread has       *)
(* announced stays true until its goodbye, which comes before its join     *)
(* (RecordsKept).  Nothing in this depends on who calls: RuntimeStep is    *)
(* all that the owners, the HTTP thread and the app can do to the runtime. *)
(*                                                                         *)
(* Of the app's requests, what matters is the order: a restore is sent     *)
(* only while no choice has been made, requests are given up at the end of *)
(* the queue and carried out at its head, so no restore is ever behind a   *)
(* choice (ChoiceKept).  Requests are of the kinds any client may make, so *)
(* RemoteControl implements Lifecycle.                                     *)
(***************************************************************************)
EXTENDS RemoteControl, SequenceTheorems, TLAPS

\* What any step of either specification is to the runtime: a part of a call, its
\* begin or its end, an action of the mDNS thread, or nothing.
RuntimeStep ==
  \/ \E t \in Callers : CallStep(t)
  \/ Announce \/ MdnsLeave
  \/ \E t \in Callers : \E what, with : /\ Call(t, what, with)
                                        /\ UNCHANGED <<runtime, core, discovery>>
  \/ \E t \in Callers : Unlock(t)
  \/ UNCHANGED <<calls, runtime, core, discovery>>

\* The initial states.
LEMMA InitIInv == Init => IInv
  BY DEF Init, IInv, LockKept, StagesKept, WholeKept, RecordsKept, Stands, Callers, Free, Steps

\* Every part of a call, and the mDNS thread, keeps the invariant.
LEMMA RuntimeStepIInv == IInv /\ RuntimeStep => IInv'
<1> SUFFICES ASSUME IInv, RuntimeStep PROVE IInv' OBVIOUS
<1> USE DEF IInv, LockKept, StagesKept, WholeKept, RecordsKept, Stands, Callers, Free, Steps,
        Go, runtime, core, discovery, Record
<1>1. ASSUME NEW t \in Callers, Lock(t) PROVE IInv' BY <1>1 DEF Lock, FirstStep
<1>2. ASSUME NEW t \in Callers, CoreStart(t) PROVE IInv' BY <1>2 DEF CoreStart
<1>3. ASSUME NEW t \in Callers, MdnsStart(t) PROVE IInv' BY <1>3 DEF MdnsStart
<1>4. ASSUME NEW t \in Callers, CoreUndo(t) PROVE IInv' BY <1>4 DEF CoreUndo
<1>5. ASSUME NEW t \in Callers, MdnsStop(t) PROVE IInv' BY <1>5 DEF MdnsStop
<1>6. ASSUME NEW t \in Callers, MdnsJoin(t) PROVE IInv' BY <1>6 DEF MdnsJoin, Joinable
<1>7. ASSUME NEW t \in Callers, CoreStop(t) PROVE IInv' BY <1>7 DEF CoreStop
<1>8. ASSUME NEW t \in Callers, SetProfile(t) PROVE IInv' BY <1>8 DEF SetProfile
<1>9. CASE Announce BY <1>9 DEF Announce, calls
<1>10. CASE MdnsLeave BY <1>10 DEF MdnsLeave, calls
<1>11. ASSUME NEW t \in Callers, NEW what, NEW with, Call(t, what, with),
              UNCHANGED <<runtime, core, discovery>>
       PROVE  IInv'
  BY <1>11 DEF Call, Go, LockKept
<1>12. ASSUME NEW t \in Callers, Unlock(t) PROVE IInv' BY <1>12 DEF Unlock
<1>13. CASE UNCHANGED <<calls, runtime, core, discovery>> BY <1>13 DEF calls
<1>14. QED
  BY <1>1, <1>2, <1>3, <1>4, <1>5, <1>6, <1>7, <1>8, <1>9, <1>10, <1>11, <1>12, <1>13
  DEF RuntimeStep, CallStep

\* The steps of Lifecycle are such steps.
LEMMA NextIsRuntimeStep == [Next]_vars => RuntimeStep
<1> SUFFICES ASSUME [Next]_vars PROVE RuntimeStep OBVIOUS
<1> USE DEF RuntimeStep, Callers
<1>1. CASE (\E t \in Callers : CallStep(t)) \/ Announce \/ MdnsLeave BY <1>1
<1>2. ASSUME NEW what, NEW with, Request(what, with) PROVE RuntimeStep BY <1>2 DEF Request
<1>3. CASE OwnerCalls BY <1>3 DEF OwnerCalls
<1>4. CASE OnControl BY <1>4 DEF OnControl
<1>5. CASE HttpReturn \/ OwnerReturn BY <1>5 DEF HttpReturn, OwnerReturn
<1>6. CASE HttpLeave \/ HttpStart \/ GoDown \/ HttpStop
  BY <1>6 DEF HttpLeave, HttpStart, GoDown, HttpStop
<1>7. CASE UNCHANGED vars BY <1>7 DEF vars
<1>8. QED BY <1>1, <1>2, <1>3, <1>4, <1>5, <1>6, <1>7 DEF Next

\* So are the steps of RemoteControl, whatever the page sends and gives up.
LEMMA RemoteIsRuntimeStep == [NextRemote]_remote_vars => RuntimeStep
<1> SUFFICES ASSUME [NextRemote]_remote_vars PROVE RuntimeStep OBVIOUS
<1> USE DEF RuntimeStep, Callers
<1>1. CASE Receiver
  <2>1. [Next]_vars BY <1>1 DEF Receiver, Next
  <2>2. QED BY <2>1, NextIsRuntimeStep
<1>2. CASE Clients
  <2>1. [Next]_vars BY <1>2 DEF Clients, Next
  <2>2. QED BY <2>1, NextIsRuntimeStep
<1>3. ASSUME NEW c \in Controls, Press(c) PROVE RuntimeStep
  BY <1>3 DEF Press, vars
<1>4. CASE Page BY <1>4 DEF Page, Refresh, Answered, GiveUp, vars
<1>5. CASE Unload BY <1>5 DEF Unload, GoDown
<1>6. CASE TakeRequest BY <1>6 DEF TakeRequest
<1>7. CASE Carried BY <1>7 DEF Carried, HttpReturn
<1>8. CASE UNCHANGED remote_vars BY <1>8 DEF remote_vars, vars
<1>9. QED BY <1>1, <1>2, <1>3, <1>4, <1>5, <1>6, <1>7, <1>8 DEF NextRemote

-----------------------------------------------------------------------------
(* What the invariant implies. *)

\* Records are out only for the receiver that listens.
LEMMA RecordsHold == IInv => RecordsDescribeReceiver
  BY DEF IInv, RecordsKept, RecordsDescribeReceiver

\* Between calls the receiver is whole.
LEMMA WholeHolds == IInv => AllOrNothing
  BY DEF IInv, WholeKept, RecordsKept, Stands, AllOrNothing

-----------------------------------------------------------------------------
(* The page. *)

\* A request that is made is a request.
LEMMA SendsSomething ==
  /\ \A why, what, with : why # None => Message(why, what, with) # Nothing
  /\ \A c \in Controls : \A p : Sends(c, p) # Nothing
<1>1. ASSUME NEW why, NEW what, NEW with, why # None PROVE Message(why, what, with) # Nothing
  <2>1. Message(why, what, with).why = why /\ Nothing.why = None BY DEF Message, Nothing
  <2>2. QED BY <1>1, <2>1
<1>2. ASSUME NEW c \in Controls, NEW p PROVE Sends(c, p) # Nothing
  BY <1>1 DEF Sends, Controls, None
<1>3. QED BY <1>1, <1>2

\* A control that begins takes the timer's place.
LEMMA BeginChain ==
  ASSUME NEW c \in Controls, NEW tried, NEW queue, Begin(c, 1, tried, queue)
  PROVE  busy' = TRUE /\ timers' = 0 /\ xhr' # Nothing
<1>1. busy' = TRUE /\ timers' = 0 BY DEF Begin, Disarmed
<1>2. PICK p : Send(Sends(c, p), queue) BY DEF Begin
<1>3. xhr' # Nothing BY <1>2, SendsSomething DEF Send
<1>4. QED BY <1>1, <1>3

\* The end of a request arms the timer again, or gives its place to what was pressed.
LEMMA FinishChain ==
  ASSUME pendingControl \in Controls \cup {None}, timers = 0, NEW tried, NEW queue,
         Finish(tried, queue)
  PROVE  /\ pendingControl' \in Controls \cup {None}
         /\ \/ busy' = TRUE /\ timers' = 0 /\ xhr' # Nothing
            \/ busy' = FALSE /\ timers' = 1 /\ xhr' = Nothing
<1>1. CASE Resumes /\ pendingControl' = None /\ Begin(pendingControl, timers + 1, tried, queue)
  <2>1. pendingControl \in Controls /\ timers + 1 = 1 BY <1>1 DEF Resumes
  <2>2. QED BY <1>1, <2>1, BeginChain
<1>2. CASE ~Resumes BY <1>2 DEF Finish
<1>3. QED BY <1>1, <1>2 DEF Finish

\* Once an owner goes down it does not come up again.
LEMMA DownStays == [Next]_vars /\ phase = "down" => phase' = "down"
  BY DEF Next, CallStep, Lock, CoreStart, MdnsStart, CoreUndo, MdnsStop, MdnsJoin, CoreStop,
     SetProfile, Announce, MdnsLeave, Request, HttpReturn, HttpLeave, OwnerCalls, OwnerReturn,
     AfterCall, HttpStart, OnControl, GoDown, HttpStop, vars

\* Whatever is pressed, answered or given up, one chain of refreshes goes on.
LEMMA ChainStep == ChainKept /\ [NextRemote]_remote_vars => ChainKept'
<1> SUFFICES ASSUME ChainKept, [NextRemote]_remote_vars PROVE ChainKept' OBVIOUS
<1> USE DEF ChainKept, OneRefreshChain
<1>1. ASSUME UNCHANGED page, [Next]_vars PROVE ChainKept'
  BY <1>1, DownStays DEF page
<1>2. CASE Receiver \/ Clients
  <2>1. [Next]_vars /\ UNCHANGED page BY <1>2 DEF Receiver, Clients, Next
  <2>2. QED BY <1>1, <2>1
<1>3. ASSUME NEW c \in Controls, Press(c) PROVE ChainKept'
  <2>1. UNCHANGED phase BY <1>3 DEF Press, vars
  <2>2. CASE busy BY <1>3, <2>1, <2>2 DEF Press, AtOnce
  <2>3. CASE ~busy /\ phase # "down"
    <3>1. timers = 1 BY <2>3
    <3>2. Begin(c, 1, attempted, sent) /\ UNCHANGED pendingControl
      BY <1>3, <2>3, <3>1 DEF Press, AtOnce
    <3>3. QED BY <2>1, <3>2, BeginChain
  <2>4. CASE ~busy /\ phase = "down"
    <3>1. Begin(c, timers, attempted, sent) /\ UNCHANGED pendingControl
      BY <1>3, <2>4 DEF Press, AtOnce
    <3>2. busy' = TRUE /\ UNCHANGED pendingControl BY <3>1 DEF Begin
    <3>3. QED BY <2>1, <2>4, <3>2
  <2>5. QED BY <2>2, <2>3, <2>4
<1>4. CASE Refresh
  <2>1. UNCHANGED <<phase, pendingControl>> /\ busy' = TRUE /\ timers' = timers - 1
    BY <1>4 DEF Refresh, vars
  <2>2. xhr' # Nothing BY <1>4, SendsSomething DEF Refresh, Send, None
  <2>3. ~busy BY <1>4 DEF Refresh
  <2>4. QED BY <2>1, <2>2, <2>3
<1>5. CASE Answered
  <2>1. UNCHANGED phase BY <1>5 DEF Answered, vars
  <2>2. CASE FirstStatus /\ reply.profile # saved
    <3>1. UNCHANGED <<timers, busy, pendingControl>> BY <1>5, <2>2 DEF Answered
    <3>2. xhr' # Nothing BY <1>5, <2>2, SendsSomething DEF Answered, Send, None
    <3>3. xhr # Nothing BY <1>5 DEF Answered
    <3>4. QED BY <2>1, <3>1, <3>2, <3>3
  <2>3. CASE ~(FirstStatus /\ reply.profile # saved)
    <3>1. Finish(attempted \/ FirstStatus, sent) BY <1>5, <2>3 DEF Answered
    <3>2. CASE phase # "down"
      <4>1. timers = 0 BY <1>5, <3>2 DEF Answered
      <4>2. QED BY <2>1, <3>1, <4>1, FinishChain
    <3>3. CASE phase = "down"
      BY <2>1, <3>1, <3>3 DEF Finish, Begin
    <3>4. QED BY <3>2, <3>3
  <2>4. QED BY <2>2, <2>3
<1>6. CASE GiveUp
  <2>1. UNCHANGED phase /\ \E queue : Finish(attempted, queue) BY <1>6 DEF GiveUp, vars
  <2>2. PICK queue : Finish(attempted, queue) BY <2>1
  <2>3. CASE phase # "down"
    <3>1. timers = 0 BY <1>6, <2>3 DEF GiveUp
    <3>2. QED BY <2>1, <2>2, <3>1, FinishChain
  <2>4. CASE phase = "down" BY <2>1, <2>2, <2>4 DEF Finish, Begin
  <2>5. QED BY <2>3, <2>4
<1>7. CASE Unload BY <1>7 DEF Unload, GoDown
<1>8. CASE TakeRequest BY <1>8 DEF TakeRequest, page
<1>9. CASE Carried BY <1>9 DEF Carried, HttpReturn
<1>10. CASE UNCHANGED remote_vars BY <1>10 DEF remote_vars, vars, page
<1>11. QED
  BY <1>2, <1>3, <1>4, <1>5, <1>6, <1>7, <1>8, <1>9, <1>10 DEF NextRemote, Page

-----------------------------------------------------------------------------
(* Choices and restores. *)

\* A queue is the beginning of another one, but for who waits for its requests.
Begins(short, long) ==
  /\ short \in Seq(Requests)
  /\ DOMAIN short \subseteq DOMAIN long
  /\ \A i \in DOMAIN short : short[i].why = long[i].why

\* A beginning has no other requests, nor another order.
LEMMA BeginsKeeps ==
  ASSUME NEW short, NEW long, Begins(short, long)
  PROVE  /\ RestoreFirst(long) => RestoreFirst(short)
         /\ \A why : NoneOf(why, long) => NoneOf(why, short)
<1>1. \A i \in DOMAIN short : i \in DOMAIN long /\ short[i].why = long[i].why BY DEF Begins
<1>2. RestoreFirst(long) => RestoreFirst(short) BY <1>1, Zenon DEF RestoreFirst
<1>3. \A why : NoneOf(why, long) => NoneOf(why, short) BY <1>1, Zenon DEF NoneOf
<1>4. QED BY <1>2, <1>3

\* A request that is given up leaves a beginning of the queue.
LEMMA QueueBegins ==
  ASSUME NEW queue \in Seq(Requests)
  PROVE  /\ Begins(queue, queue) /\ Begins(<< >>, queue)
         /\ Begins(Left(queue), queue) /\ Begins(Lost(queue), queue)
<1>1. /\ Len(queue) \in Nat /\ DOMAIN queue = 1 .. Len(queue)
      /\ \A i \in 1 .. Len(queue) : queue[i] \in Requests
  BY LenProperties, ElementOfSeq
<1>2. Begins(queue, queue) BY DEF Begins
<1>3. Begins(<< >>, queue)
  <2>1. << >> \in Seq(Requests) /\ DOMAIN << >> = {} BY EmptySeq
  <2>2. QED BY <2>1, Zenon DEF Begins
<1>4. ASSUME queue # << >> PROVE Begins(AllButNewest(queue), queue)
  <2> DEFINE n == Len(queue) - 1
             short == SubSeq(queue, 1, n)
  <2>1. n \in Nat /\ Len(queue) = n + 1 BY <1>1, <1>4, EmptySeq
  <2> HIDE DEF n
  <2>2. \A i \in 1 .. n : queue[i] \in Requests /\ i \in DOMAIN queue BY <1>1, <2>1
  <2>3. 1 \in Int /\ n \in Int BY <2>1
  <2>4. /\ short \in Seq(Requests)
        /\ Len(short) = IF 1 <= n THEN n - 1 + 1 ELSE 0
        /\ \A i \in 1 .. n - 1 + 1 : short[i] = queue[1 + i - 1]
    BY <2>2, <2>3, SubSeqProperties
  <2> HIDE DEF short
  <2>5. Len(short) = n
    <3>1. CASE 1 <= n BY <2>1, <2>4, <3>1
    <3>2. CASE n = 0 BY <2>4, <3>2
    <3>3. QED BY <2>1, <3>1, <3>2
  <2>6. DOMAIN short = 1 .. n BY <2>4, <2>5, LenProperties
  <2>7. ASSUME NEW i \in 1 .. n PROVE short[i] = queue[i]
    <3>1. i \in 1 .. n - 1 + 1 /\ 1 + i - 1 = i BY <2>1
    <3>2. QED BY <2>4, <3>1
  <2>8. Begins(short, queue) BY <2>2, <2>4, <2>6, <2>7, Zenon DEF Begins
  <2>9. QED BY <2>8 DEF short, n, AllButNewest
<1>5. Begins([i \in DOMAIN queue |-> Abandoned(queue[i])], queue)
  <2> DEFINE short == [i \in DOMAIN queue |-> Abandoned(queue[i])]
  <2>1. ASSUME NEW i \in 1 .. Len(queue)
        PROVE  Abandoned(queue[i]) \in Requests /\ Abandoned(queue[i]).why = queue[i].why
    <3>1. queue[i] \in Requests BY <1>1
    <3>2. QED BY <3>1 DEF Abandoned, Requests
  <2>2. short \in [1 .. Len(queue) -> Requests] BY <1>1, <2>1
  <2>3. short \in Seq(Requests) BY <1>1, <2>2, SeqDef
  <2>4. DOMAIN short = DOMAIN queue OBVIOUS
  <2>5. \A i \in DOMAIN short : short[i].why = queue[i].why BY <1>1, <2>1
  <2> HIDE DEF short
  <2>6. Begins(short, queue) BY <2>3, <2>4, <2>5, Zenon DEF Begins
  <2>7. QED BY <2>6 DEF short
<1>6. Begins(Left(queue), queue) BY <1>4, <1>5, Zenon DEF Left
<1>7. Begins(Lost(queue), queue) BY <1>2, <1>4, Zenon DEF Lost
<1>8. QED BY <1>2, <1>3, <1>6, <1>7

\* One request more waits.
LEMMA Behind ==
  ASSUME NEW queue \in Seq(Requests), NEW m \in Requests
  PROVE  LET more == Append(queue, m)
         IN  /\ more \in Seq(Requests)
             /\ \A why : m.why # why /\ NoneOf(why, queue) => NoneOf(why, more)
             /\ RestoreFirst(queue) /\ (m.why # "restore" \/ NoneOf("choice", queue))
                  => RestoreFirst(more)
<1> DEFINE more == Append(queue, m)
<1>1. /\ more \in Seq(Requests) /\ Len(more) = Len(queue) + 1
      /\ \A i \in 1 .. Len(queue) : more[i] = queue[i]
      /\ more[Len(queue) + 1] = m
      /\ Len(queue) \in Nat /\ DOMAIN queue = 1 .. Len(queue)
  BY AppendProperties, LenProperties
<1>2. DOMAIN more = 1 .. Len(queue) + 1 BY <1>1, LenProperties
<1> HIDE DEF more
<1>3. \A why : m.why # why /\ NoneOf(why, queue) => NoneOf(why, more)
  <2> SUFFICES ASSUME NEW why, m.why # why, NoneOf(why, queue), NEW i \in DOMAIN more
               PROVE  more[i].why # why
    BY DEF NoneOf
  <2>1. CASE i = Len(queue) + 1 BY <1>1, <2>1
  <2>2. CASE i \in 1 .. Len(queue) BY <1>1, <2>2 DEF NoneOf
  <2>3. QED BY <1>1, <1>2, <2>1, <2>2
<1>4. RestoreFirst(queue) /\ (m.why # "restore" \/ NoneOf("choice", queue))
        => RestoreFirst(more)
  <2> SUFFICES ASSUME RestoreFirst(queue), m.why # "restore" \/ NoneOf("choice", queue),
                      NEW i \in DOMAIN more, NEW j \in DOMAIN more,
                      i < j, more[i].why = "choice"
               PROVE  more[j].why # "restore"
    BY DEF RestoreFirst
  <2>1. i \in 1 .. Len(queue) /\ more[i] = queue[i] /\ i \in DOMAIN queue BY <1>1, <1>2
  <2>2. CASE j = Len(queue) + 1 BY <1>1, <2>1, <2>2 DEF NoneOf
  <2>3. CASE j \in 1 .. Len(queue) BY <1>1, <2>1, <2>3 DEF RestoreFirst
  <2>4. QED BY <1>1, <1>2, <2>2, <2>3
<1>5. QED BY <1>1, <1>3, <1>4 DEF more

\* The first request is taken.
LEMMA Taken ==
  ASSUME NEW queue \in Seq(Requests), queue # << >>
  PROVE  /\ Head(queue) \in Requests /\ Tail(queue) \in Seq(Requests)
         /\ \A why : NoneOf(why, queue) => Head(queue).why # why /\ NoneOf(why, Tail(queue))
         /\ RestoreFirst(queue) => RestoreFirst(Tail(queue))
         /\ RestoreFirst(queue) /\ Head(queue).why = "choice" => NoneOf("restore", Tail(queue))
<1> DEFINE rest == Tail(queue)
<1>1. /\ Head(queue) \in Requests /\ Head(queue) = queue[1]
      /\ rest \in Seq(Requests) /\ Len(rest) = Len(queue) - 1
      /\ \A i \in 1 .. Len(rest) : rest[i] = queue[i + 1]
      /\ Len(queue) \in Nat /\ DOMAIN queue = 1 .. Len(queue) /\ Len(queue) # 0
  BY HeadTailProperties, LenProperties, EmptySeq
<1>2. DOMAIN rest = 1 .. Len(queue) - 1 BY <1>1, LenProperties
<1> HIDE DEF rest
<1>3. /\ 1 \in DOMAIN queue
      /\ \A i \in DOMAIN rest : i + 1 \in DOMAIN queue /\ rest[i] = queue[i + 1] /\ 1 < i + 1
      /\ \A i, j \in DOMAIN rest : i < j => i + 1 < j + 1
  BY <1>1, <1>2
<1>4. \A why : NoneOf(why, queue) => Head(queue).why # why /\ NoneOf(why, rest)
  BY <1>1, <1>3 DEF NoneOf
<1>5. RestoreFirst(queue) => RestoreFirst(rest) BY <1>3 DEF RestoreFirst
<1>6. RestoreFirst(queue) /\ Head(queue).why = "choice" => NoneOf("restore", rest)
  BY <1>1, <1>3 DEF RestoreFirst, NoneOf
<1>7. QED BY <1>1, <1>4, <1>5, <1>6 DEF rest

\* What the app sends.
LEMMA SendsRequests ==
  /\ \A c \in Controls : \A p \in Profiles : /\ Sends(c, p) \in Requests /\ Sends(c, p).why = c
                                             /\ c = "choice" => Sends(c, p).with = p
  /\ Message("status", "status", "none") \in Requests
  /\ Message("status", "status", "none").why = "status"
  /\ \A p \in Profiles : /\ Message("restore", "switch", p) \in Requests
                         /\ Message("restore", "switch", p).why = "restore"
  /\ Nothing.why = None /\ "why" \in DOMAIN Nothing
<1>1. ASSUME NEW c \in Controls, NEW p \in Profiles
      PROVE  /\ Sends(c, p) \in Requests /\ Sends(c, p).why = c
             /\ c = "choice" => Sends(c, p).with = p
  <2>1. CASE c = "start" BY <2>1 DEF Sends, Requests, Message, Controls
  <2>2. CASE c = "stop" BY <2>2 DEF Sends, Requests, Message, Controls
  <2>3. CASE c = "choice" BY <2>3 DEF Sends, Requests, Message, Controls
  <2>4. QED BY <2>1, <2>2, <2>3 DEF Controls
<1>2. /\ Message("status", "status", "none") \in Requests
      /\ Message("status", "status", "none").why = "status"
  BY DEF Requests, Message
<1>3. \A p \in Profiles : /\ Message("restore", "switch", p) \in Requests
                          /\ Message("restore", "switch", p).why = "restore"
  BY DEF Requests, Message
<1>4. Nothing.why = None /\ "why" \in DOMAIN Nothing BY DEF Nothing, Message
<1>5. QED BY <1>1, <1>2, <1>3, <1>4

\* A request that is given up is still the request it was.
LEMMA AbandonedWhy ==
  ASSUME NEW m, "why" \in DOMAIN m
  PROVE  Abandoned(m).why = m.why /\ "why" \in DOMAIN Abandoned(m)
BY DEF Abandoned

\* A step of the page after which a beginning of the queue waits.
LEMMA ShortKeeps ==
  ASSUME ChoiceKept, Begins(sent', sent), "why" \in DOMAIN held', held'.why = held.why,
         UNCHANGED chosen, attempted => attempted' \/ Unloaded', Unloaded => Unloaded',
         saved' \in Profiles, xhr'.why = "choice" => xhr'.with \in Profiles
  PROVE  ChoiceKept'
<1>1. sent' \in Seq(Requests) BY DEF Begins
<1>2. RestoreFirst(sent) => RestoreFirst(sent') BY BeginsKeeps
<1>3. \A why : NoneOf(why, sent) => NoneOf(why, sent') BY BeginsKeeps
<1>4. RequestsOK' BY <1>1, Zenon DEF RequestsOK
<1>5. QED BY <1>2, <1>3, <1>4, Zenon DEF ChoiceKept

\* A step of the page that sends a request: a choice is remembered, and only a page that
\* has made none sends a restore.
LEMMA SendKeeps ==
  ASSUME ChoiceKept, NEW queue, Begins(queue, sent), NEW m \in Requests, Send(m, queue),
         "why" \in DOMAIN held', held'.why = held.why, UNCHANGED chosen,
         ~Unloaded, attempted => attempted', saved' \in Profiles,
         m.why = "choice" => attempted' /\ m.with \in Profiles,
         m.why = "restore" => ~attempted /\ attempted'
  PROVE  ChoiceKept'
<1>1. xhr' = m BY DEF Send
<1>2. CASE sent' = queue BY <1>1, <1>2, ShortKeeps, Zenon
<1>3. CASE sent' = Append(queue, m)
  <2>1. queue \in Seq(Requests) BY DEF Begins
  <2>2. RestoreFirst(queue) /\ \A why : NoneOf(why, sent) => NoneOf(why, queue)
    BY BeginsKeeps DEF ChoiceKept
  <2>3. /\ sent' \in Seq(Requests)
        /\ \A why : m.why # why /\ NoneOf(why, queue) => NoneOf(why, sent')
        /\ m.why # "restore" \/ NoneOf("choice", queue) => RestoreFirst(sent')
    BY <1>3, <2>1, <2>2, Behind, Zenon
  <2>4. m.why = "restore" => ~chosen /\ held.why # "choice" /\ NoneOf("choice", sent)
    BY Zenon DEF ChoiceKept
  <2>5. RequestsOK' BY <1>1, <2>3, Zenon DEF RequestsOK
  <2>6. RestoreFirst(sent') BY <2>2, <2>3, <2>4, Zenon
  <2>7. chosen' \/ held'.why = "choice" => NoneOf("restore", sent')
    <3>1. CASE m.why = "restore" BY <2>4, <3>1, Zenon
    <3>2. CASE m.why # "restore" BY <2>2, <2>3, <3>2, Zenon DEF ChoiceKept
    <3>3. QED BY <3>1, <3>2, Zenon
  <2>8. attempted' \/ (~chosen' /\ held'.why # "choice" /\ NoneOf("choice", sent'))
    <3>1. CASE m.why = "choice" BY <3>1, Zenon
    <3>2. CASE m.why # "choice" BY <2>2, <2>3, <3>2, Zenon DEF ChoiceKept
    <3>3. QED BY <3>1, <3>2, Zenon
  <2>9. QED BY <2>5, <2>6, <2>7, <2>8, Zenon DEF ChoiceKept
<1>4. QED BY <1>2, <1>3 DEF Send

\* A control that begins.
LEMMA BeginKeeps ==
  ASSUME ChoiceKept, NEW c \in Controls, NEW armed, NEW tried, attempted => tried,
         NEW queue, Begins(queue, sent), Begin(c, armed, tried, queue),
         "why" \in DOMAIN held', held'.why = held.why, UNCHANGED chosen, ~Unloaded,
         saved' \in Profiles
  PROVE  ChoiceKept'
<1>1. PICK p \in IF c = "choice" THEN Profiles ELSE {"native"} : Send(Sends(c, p), queue)
  BY Zenon DEF Begin
<1>2. p \in Profiles BY ProfilesAssumption
<1> DEFINE m == Sends(c, p)
<1>3. m \in Requests /\ m.why = c /\ (c = "choice" => m.with = p) BY <1>2, SendsRequests
<1>4. attempted' = (tried \/ Marks(c)) BY Zenon DEF Begin
<1>5. m.why = "choice" => attempted' /\ m.with \in Profiles
  BY <1>2, <1>3, <1>4, Zenon DEF Marks
<1>6. attempted => attempted' BY <1>4, Zenon
<1>7. m.why # "restore" BY <1>3 DEF Controls
<1>8. Send(m, queue) BY <1>1
<1> HIDE DEF m
<1>9. QED BY <1>3, <1>5, <1>6, <1>7, <1>8, SendKeeps, Zenon

\* The end of a request, with what was pressed meanwhile.
LEMMA FinishKeeps ==
  ASSUME ChoiceKept, ChainKept, NEW tried, attempted => tried, NEW queue, Begins(queue, sent),
         Finish(tried, queue), "why" \in DOMAIN held', held'.why = held.why, UNCHANGED chosen,
         ~Unloaded, saved' \in Profiles
  PROVE  ChoiceKept'
<1>1. CASE Resumes /\ pendingControl' = None /\ Begin(pendingControl, timers + 1, tried, queue)
  <2>1. pendingControl \in Controls BY <1>1 DEF Resumes, ChainKept
  <2>2. QED BY <1>1, <2>1, BeginKeeps
<1>2. CASE ~Resumes
  <2>1. attempted' = tried /\ xhr' = Nothing /\ sent' = queue BY <1>2, Zenon DEF Finish
  <2>2. xhr'.why # "choice" BY <2>1, SendsRequests DEF None
  <2>3. Begins(sent', sent) /\ (attempted => attempted') BY <2>1, Zenon
  <2>4. QED BY <2>2, <2>3, ShortKeeps, Zenon
<1>3. QED BY <1>1, <1>2 DEF Finish

\* Every step keeps choices behind restores.
LEMMA ChoiceStep == ChoiceKept /\ ChainKept /\ [NextRemote]_remote_vars => ChoiceKept'
<1> SUFFICES ASSUME ChoiceKept, ChainKept, [NextRemote]_remote_vars PROVE ChoiceKept' OBVIOUS
<1>k. /\ sent \in Seq(Requests) /\ "why" \in DOMAIN held /\ saved \in Profiles
      /\ xhr.why = "choice" => xhr.with \in Profiles
  BY Zenon DEF ChoiceKept, RequestsOK
<1>q. Begins(sent, sent) BY <1>k, QueueBegins
<1>u. ASSUME UNCHANGED <<sent, held, page, chosen>> PROVE ChoiceKept'
  <2>1. /\ UNCHANGED <<sent, held, chosen, attempted, saved, xhr>>
        /\ UNCHANGED <<timers, presses>>
    BY <1>u, Zenon DEF page
  <2>2. Unloaded => Unloaded' BY <2>1, Zenon DEF Unloaded
  <2>3. Begins(sent', sent) /\ "why" \in DOMAIN held' /\ held'.why = held.why
        /\ saved' \in Profiles /\ (xhr'.why = "choice" => xhr'.with \in Profiles)
    BY <1>k, <1>q, <2>1, Zenon
  <2>4. QED BY <2>1, <2>2, <2>3, ShortKeeps, Zenon
<1>h. LET left == IF held = Nothing THEN held ELSE Abandoned(held)
      IN  "why" \in DOMAIN left /\ left.why = held.why
  BY <1>k, AbandonedWhy, Zenon
<1>1. CASE Receiver \/ Clients BY <1>1, <1>u, Zenon DEF Receiver, Clients
<1>2. ASSUME NEW c \in Controls, Press(c) PROVE ChoiceKept'
  <2>1. ~Unloaded /\ UNCHANGED <<held, saved, chosen>> BY <1>2, Zenon DEF Press, Unloaded
  <2>2. "why" \in DOMAIN held' /\ held'.why = held.why /\ saved' \in Profiles BY <1>k, <2>1, Zenon
  <2>3. CASE UNCHANGED <<sent, xhr, attempted>>
    <3>1. Begins(sent', sent) /\ (xhr'.why = "choice" => xhr'.with \in Profiles)
          /\ (attempted => attempted')
      BY <1>k, <1>q, <2>3, Zenon
    <3>2. QED BY <2>1, <2>2, <3>1, ShortKeeps, Zenon
  <2>4. CASE Begin(c, timers, attempted, sent)
    BY <1>q, <2>1, <2>2, <2>4, BeginKeeps, Zenon
  <2>5. QED BY <1>2, <2>3, <2>4, Zenon DEF Press, AtOnce
<1>3. CASE Refresh
  <2>1. timers > 0 /\ UNCHANGED <<held, saved, chosen, attempted>>
        /\ Send(Message("status", "status", "none"), sent)
    BY <1>3, Zenon DEF Refresh
  <2>2. ~Unloaded BY <2>1 DEF Unloaded
  <2>3. "why" \in DOMAIN held' /\ held'.why = held.why /\ saved' \in Profiles BY <1>k, <2>1, Zenon
  <2> DEFINE m == Message("status", "status", "none")
  <2>4. m \in Requests /\ m.why # "choice" /\ m.why # "restore" BY SendsRequests
  <2>5. Send(m, sent) BY <2>1
  <2> HIDE DEF m
  <2>6. QED BY <1>q, <2>1, <2>2, <2>3, <2>4, <2>5, SendKeeps, Zenon
<1>4. CASE Answered
  <2>1. xhr # Nothing /\ UNCHANGED <<held, chosen>>
        /\ saved' = IF xhr.why = "choice" /\ reply.ok THEN xhr.with ELSE saved
    BY <1>4, Zenon DEF Answered
  <2>2. ~Unloaded BY <2>1, Zenon DEF Unloaded
  <2>3. saved' \in Profiles BY <1>k, <2>1, Zenon
  <2>4. "why" \in DOMAIN held' /\ held'.why = held.why BY <1>k, <2>1, Zenon
  <2>5. CASE FirstStatus /\ attempted' = TRUE /\ Send(Message("restore", "switch", saved), sent)
    <3> DEFINE m == Message("restore", "switch", saved)
    <3>1. m \in Requests /\ m.why = "restore" BY <1>k, SendsRequests
    <3>2. ~attempted BY <2>5, Zenon DEF FirstStatus
    <3>3. Send(m, sent) BY <2>5
    <3>4. m.why # "choice" BY <3>1
    <3> HIDE DEF m
    <3>5. QED BY <1>q, <2>1, <2>2, <2>3, <2>4, <2>5, <3>1, <3>2, <3>3, <3>4, SendKeeps, Zenon
  <2>6. CASE Finish(attempted \/ FirstStatus, sent)
    <3> DEFINE tried == attempted \/ FirstStatus
    <3>1. Finish(tried, sent) /\ (attempted => tried) BY <2>6, Zenon
    <3> HIDE DEF tried
    <3>2. QED BY <1>q, <2>1, <2>2, <2>3, <2>4, <3>1, FinishKeeps, Zenon
  <2>7. QED BY <1>4, <2>5, <2>6, Zenon DEF Answered
<1>5. CASE GiveUp
  <2>1. xhr # Nothing /\ UNCHANGED <<chosen, saved>>
        /\ held' = IF held = Nothing THEN held ELSE Abandoned(held)
    BY <1>5, Zenon DEF GiveUp
  <2>2. ~Unloaded BY <2>1, Zenon DEF Unloaded
  <2>3. "why" \in DOMAIN held' /\ held'.why = held.why /\ saved' \in Profiles
    BY <1>k, <1>h, <2>1, Zenon
  <2>4. PICK queue \in {Left(sent), Lost(sent)} : Finish(attempted, queue)
    BY <1>5, Zenon DEF GiveUp
  <2>5. Begins(queue, sent) BY <1>k, QueueBegins
  <2>6. QED BY <2>1, <2>2, <2>3, <2>4, <2>5, FinishKeeps, Zenon
<1>6. CASE Unload
  <2>1. /\ held' = IF held = Nothing THEN held ELSE Abandoned(held)
        /\ sent' \in {Left(sent), << >>} /\ xhr' = Nothing /\ timers' = 0
        /\ chosen' = FALSE /\ presses' = MaxPresses /\ UNCHANGED saved
    BY <1>6, Zenon DEF Unload
  <2>2. Unloaded' BY <2>1, RemoteAssumption DEF Unloaded, Controls
  <2>3. Begins(sent', sent) BY <1>k, <2>1, QueueBegins
  <2>4. RestoreFirst(sent') /\ (NoneOf("restore", sent) => NoneOf("restore", sent'))
        /\ sent' \in Seq(Requests)
    BY <2>3, BeginsKeeps DEF ChoiceKept, Begins
  <2>5. xhr'.why # "choice" BY <2>1, SendsRequests DEF None
  <2>6. "why" \in DOMAIN held' /\ held'.why = held.why /\ saved' \in Profiles
    BY <1>k, <1>h, <2>1, Zenon
  <2>7. RequestsOK' BY <2>4, <2>5, <2>6, Zenon DEF RequestsOK
  <2>8. QED BY <2>1, <2>2, <2>4, <2>6, <2>7, Zenon DEF ChoiceKept
<1>7. CASE TakeRequest
  <2>1. /\ sent # << >> /\ held' = Head(sent) /\ sent' = Tail(sent)
        /\ UNCHANGED <<xhr, timers, presses, attempted, saved, chosen>>
    BY <1>7, Zenon DEF TakeRequest, page
  <2>2. /\ Head(sent) \in Requests /\ sent' \in Seq(Requests)
        /\ \A why : NoneOf(why, sent) => held'.why # why /\ NoneOf(why, sent')
        /\ RestoreFirst(sent')
        /\ held'.why = "choice" => NoneOf("restore", sent')
    <3>1. RestoreFirst(sent) BY Zenon DEF ChoiceKept
    <3>2. QED BY <1>k, <2>1, <3>1, Taken, Zenon
  <2>3. "why" \in DOMAIN held' BY <2>1, <2>2 DEF Requests
  <2>4. RequestsOK' BY <1>k, <2>1, <2>2, <2>3, Zenon DEF RequestsOK
  <2>5. Unloaded => Unloaded' BY <2>1, Zenon DEF Unloaded
  <2>6. chosen' \/ held'.why = "choice" => NoneOf("restore", sent')
    BY <2>1, <2>2, Zenon DEF ChoiceKept
  <2>7. chosen' => held'.why # "restore" BY <2>1, <2>2, Zenon DEF ChoiceKept
  <2>8. attempted' \/ Unloaded' \/ (~chosen' /\ held'.why # "choice" /\ NoneOf("choice", sent'))
    BY <2>1, <2>2, <2>5, Zenon DEF ChoiceKept
  <2>9. QED BY <2>2, <2>4, <2>6, <2>7, <2>8, Zenon DEF ChoiceKept
<1>8. CASE Carried
  <2>1. UNCHANGED <<sent, xhr, timers, attempted, saved, presses>>
    BY <1>8, Zenon DEF Carried
  <2>2. Unloaded => Unloaded' BY <2>1, Zenon DEF Unloaded
  <2>3. "why" \in DOMAIN held' => RequestsOK' BY <1>k, <2>1, Zenon DEF RequestsOK
  <2>4. CASE held' = [held EXCEPT !.ok = Succeeded] /\ chosen' = (chosen \/ held.why = "choice")
    <3>1. "why" \in DOMAIN held' /\ held'.why = held.why
      <4> DEFINE done == Succeeded
      <4>1. held' = [held EXCEPT !.ok = done] BY <2>4
      <4> HIDE DEF done
      <4>2. QED BY <1>k, <4>1
    <3>2. chosen' => held'.why # "restore"
      <4>1. held.why = "choice" => held.why # "restore" OBVIOUS
      <4>2. QED BY <2>4, <3>1, <4>1, Zenon DEF ChoiceKept
    <3>3. QED BY <2>1, <2>2, <2>3, <2>4, <3>1, <3>2, Zenon DEF ChoiceKept
  <2>5. CASE UNCHANGED <<held, chosen>>
    <3>1. UNCHANGED <<sent, held, chosen, attempted, saved, xhr>> BY <2>1, <2>5
    <3>2. "why" \in DOMAIN held' BY <1>k, <3>1, Zenon
    <3>3. QED BY <2>2, <2>3, <3>1, <3>2, Zenon DEF ChoiceKept
  <2>6. CASE held' = Nothing /\ UNCHANGED chosen
    <3>1. "why" \in DOMAIN held' /\ held'.why # "choice" /\ held'.why # "restore"
      BY <2>6, SendsRequests DEF None
    <3>2. QED BY <2>1, <2>2, <2>3, <2>6, <3>1, Zenon DEF ChoiceKept
  <2>7. QED BY <1>8, <2>4, <2>5, <2>6, Zenon DEF Carried
<1>9. CASE UNCHANGED remote_vars BY <1>9, <1>u, Zenon DEF remote_vars
<1>10. QED
  BY <1>1, <1>2, <1>3, <1>4, <1>5, <1>6, <1>7, <1>8, <1>9, Zenon DEF NextRemote, Page

\* At first nothing has been sent.
LEMMA InitChoice == InitRemote => ChoiceKept
<1> SUFFICES ASSUME InitRemote PROVE ChoiceKept OBVIOUS
<1>1. /\ sent = << >> /\ held = Nothing /\ xhr = Nothing /\ saved \in Profiles
      /\ chosen = FALSE
  BY Zenon DEF InitRemote
<1>2. sent \in Seq(Requests) /\ DOMAIN sent = {} BY <1>1, EmptySeq
<1>3. NoneOf("restore", sent) /\ NoneOf("choice", sent) /\ RestoreFirst(sent)
  BY <1>2, Zenon DEF NoneOf, RestoreFirst
<1>4. /\ "why" \in DOMAIN held /\ held.why # "choice" /\ held.why # "restore"
      /\ xhr.why # "choice"
  BY <1>1, SendsRequests DEF None
<1>5. RequestsOK BY <1>1, <1>2, <1>4, Zenon DEF RequestsOK
<1>6. QED BY <1>1, <1>3, <1>4, <1>5, Zenon DEF ChoiceKept

-----------------------------------------------------------------------------
(* Types. *)

\* The flags stay flags.
LEMMA FlagStep == FlagsOK /\ [Next]_vars => FlagsOK'
<1> SUFFICES ASSUME FlagsOK, [Next]_vars PROVE FlagsOK' OBVIOUS
<1> USE DEF FlagsOK, calls, runtime, core, discovery, control
<1>1. ASSUME NEW t \in Callers, Lock(t) PROVE FlagsOK' BY <1>1, Zenon DEF Lock
<1>2. ASSUME NEW t \in Callers, CoreStart(t) PROVE FlagsOK' BY <1>2, Zenon DEF CoreStart
<1>3. ASSUME NEW t \in Callers, MdnsStart(t) PROVE FlagsOK' BY <1>3, Zenon DEF MdnsStart
<1>4. ASSUME NEW t \in Callers, CoreUndo(t) PROVE FlagsOK' BY <1>4, Zenon DEF CoreUndo
<1>5. ASSUME NEW t \in Callers, MdnsStop(t) PROVE FlagsOK' BY <1>5, Zenon DEF MdnsStop
<1>6. ASSUME NEW t \in Callers, MdnsJoin(t) PROVE FlagsOK' BY <1>6, Zenon DEF MdnsJoin
<1>7. ASSUME NEW t \in Callers, CoreStop(t) PROVE FlagsOK' BY <1>7, Zenon DEF CoreStop
<1>8. ASSUME NEW t \in Callers, SetProfile(t) PROVE FlagsOK' BY <1>8, Zenon DEF SetProfile
<1>9. CASE Announce \/ MdnsLeave BY <1>9, Zenon DEF Announce, MdnsLeave
<1>10. ASSUME NEW what, NEW with, Request(what, with) PROVE FlagsOK'
  BY <1>10, Zenon DEF Request, Call
<1>11. CASE OwnerCalls \/ OnControl BY <1>11, Zenon DEF OwnerCalls, OnControl, Call
<1>12. CASE HttpReturn \/ OwnerReturn BY <1>12, Zenon DEF HttpReturn, OwnerReturn, Unlock
<1>13. CASE HttpLeave \/ HttpStart \/ GoDown \/ HttpStop
  BY <1>13, Zenon DEF HttpLeave, HttpStart, GoDown, HttpStop
<1>14. CASE UNCHANGED vars BY <1>14, Zenon DEF vars
<1>15. QED
  BY <1>1, <1>2, <1>3, <1>4, <1>5, <1>6, <1>7, <1>8, <1>9, <1>10, <1>11, <1>12, <1>13, <1>14
  DEF Next, CallStep

\* The scripts of the owners.
LEMMA Scripts ==
  /\ \A o : /\ Up(o) \in Seq(OwnerCalling) /\ Up(o) # << >>
            /\ Down(o) \in Seq(OwnerCalling)
  /\ << >> \in Seq(OwnerCalling) /\ <<"runtime_stop">> \in Seq(OwnerCalling)
<1>1. \A a, b \in OwnerCalling : <<a, b>> \in Seq(OwnerCalling) /\ <<a, b>> # << >> OBVIOUS
<1>2. \A a \in OwnerCalling : <<a>> \in Seq(OwnerCalling) OBVIOUS
<1>3. << >> \in Seq(OwnerCalling) OBVIOUS
<1>4. "runtime_stop" \in OwnerCalling BY DEF OwnerCalling
<1>5. QED BY <1>1, <1>2, <1>3, <1>4 DEF Up, Down, OwnerCalling

\* Keys count from 1; 0 stands for none.
LEMMA Keys ==
  ASSUME NEW k \in 0 .. MaxKey
  PROVE  /\ k # 0 => k \in 1 .. MaxKey
         /\ k < MaxKey => k + 1 \in 0 .. MaxKey
         /\ k + 1 # 0
  BY MaxKeyAssumption

\* What is left of a script after its first call.
LEMMA ScriptRest ==
  ASSUME NEW script \in Seq(OwnerCalling), script # << >>
  PROVE  Tail(script) \in Seq(OwnerCalling) /\ (Len(script) # 1 => Tail(script) # << >>)
<1>1. Tail(script) \in Seq(OwnerCalling) BY HeadTailProperties
<1>2. Len(Tail(script)) = Len(script) - 1 /\ Len(script) \in Nat BY HeadTailProperties
<1>3. Len(<< >>) = 0 OBVIOUS
<1>4. QED BY <1>1, <1>2, <1>3

\* The initial states are well typed.
LEMMA InitTypeOK == Init => TypeOK
<1> SUFFICES ASSUME Init PROVE TypeOK OBVIOUS
<1>1. FlagsOK BY Zenon DEF Init, FlagsOK
<1>2. LockKept BY InitIInv DEF IInv
<1>3. todo \in Seq(OwnerCalling) /\ todo # << >> BY Scripts DEF Init
<1>4. key \in 0 .. MaxKey
  <2>1. 0 \in 0 .. MaxKey BY MaxKeyAssumption
  <2>2. QED BY <2>1, Zenon DEF Init
<1>5. QED
  BY <1>1, <1>2, <1>3, <1>4, ProfilesAssumption DEF Init, TypeOK, Callers, Names

\* A step that leaves the owner's script, the profile and the records alone.
LEMMA TypeKept ==
  ASSUME TypeOK, FlagsOK', LockKept',
         UNCHANGED <<owner, phase, todo, name, profile, mdns, http, records>>,
         key' \in 0 .. MaxKey, listening' => key' # 0,
         op' \in [Callers -> {"none", "start", "stop", "switch", "status"}],
         arg' \in [Callers -> Profiles \cup Names \cup {"none"}],
         \A t \in Callers : /\ op'[t] = "start" => arg'[t] \in Names
                            /\ op'[t] = "switch" => arg'[t] \in Profiles
                            /\ pc'[t] = "set_profile" => op'[t] = "switch"
  PROVE  TypeOK'
<1>1. owner' \in Owners /\ phase' \in {"up", "run", "down"} BY DEF TypeOK
<1>2. todo' \in Seq(OwnerCalling) /\ (phase' = "up" => todo' # << >>) BY DEF TypeOK
<1>3. name' \in Names /\ profile' \in Profiles BY DEF TypeOK
<1>4. mdns' \in {"none", "new", "serving", "ended"} /\ http' \in {"none", "serving", "ended"}
  BY DEF TypeOK
<1>5. records' \subseteq [name : Names, profile : Profiles, key : 1 .. MaxKey]
  <2>1. records \subseteq [name : Names, profile : Profiles, key : 1 .. MaxKey]
    BY Zenon DEF TypeOK
  <2>2. QED BY <2>1, Zenon
<1>6. QED BY <1>1, <1>2, <1>3, <1>4, <1>5, Zenon DEF TypeOK

\* Every step keeps the types.
LEMMA TypeStep == TypeOK /\ IInv /\ [Next]_vars => TypeOK'
<1> SUFFICES ASSUME TypeOK, IInv, [Next]_vars PROVE TypeOK' OBVIOUS
<1>flags. FlagsOK' BY FlagStep DEF TypeOK
<1>pc. pc \in [Callers -> Steps] BY DEF IInv, LockKept
<1>lock. LockKept' BY RuntimeStepIInv, NextIsRuntimeStep DEF IInv
<1> USE <1>flags, <1>pc, <1>lock DEF TypeOK, IInv, RecordsKept, Callers, Names, Record,
        calls, runtime, core, discovery, control
<1>1. ASSUME NEW t \in Callers, Lock(t) PROVE TypeOK' BY <1>1 DEF Lock, FirstStep, Go
<1>2. ASSUME NEW t \in Callers, CoreStart(t) PROVE TypeOK'
  <2>1. key' \in 0 .. MaxKey BY <1>2, Keys DEF CoreStart
  <2>2. CASE listening
    <3>1. key' = key /\ listening' = TRUE /\ pc' = [pc EXCEPT ![t] = "mdns_start"]
      BY <1>2, <2>2 DEF CoreStart, Go
    <3>2. \A q \in Callers : pc'[q] = "set_profile" => pc[q] = "set_profile" BY <3>1
    <3>3. UNCHANGED <<owner, phase, todo, name, profile, mdns, http, records>>
      BY <1>2 DEF CoreStart
    <3>4. UNCHANGED <<op, arg>> BY <1>2 DEF CoreStart
    <3>5. \A q \in Callers : /\ op'[q] = "start" => arg'[q] \in Names
                             /\ op'[q] = "switch" => arg'[q] \in Profiles
                             /\ pc'[q] = "set_profile" => op'[q] = "switch"
      BY <3>2, <3>4
    <3>6. /\ op' \in [Callers -> {"none", "start", "stop", "switch", "status"}]
          /\ arg' \in [Callers -> Profiles \cup Names \cup {"none"}]
      BY <3>4
    <3>7. listening' => key' # 0 BY <2>2, <3>1
    <3>8. QED BY <2>1, <3>3, <3>5, <3>6, <3>7, TypeKept, Zenon
  <2>3. CASE ~listening /\ key' = key + 1
    <3>1. key' # 0 BY <2>3, Keys, Zenon
    <3>2. records = {} BY <2>3
    <3>3. QED BY <1>2, <2>1, <3>1, <3>2 DEF CoreStart, Go
  <2>4. CASE ~listening /\ UNCHANGED core BY <1>2, <2>1, <2>4 DEF CoreStart, Go
  <2>5. QED BY <1>2, <2>2, <2>3, <2>4 DEF CoreStart
<1>3. ASSUME NEW t \in Callers, MdnsStart(t) PROVE TypeOK'
  <2>1. pc' \in {[pc EXCEPT ![t] = "unlock"], [pc EXCEPT ![t] = "undo"]} BY <1>3 DEF MdnsStart, Go
  <2>2. \A q \in Callers : pc'[q] = "set_profile" => pc[q] = "set_profile" BY <2>1
  <2>3. mdns' \in {mdns, "new"} /\ records' = records BY <1>3 DEF MdnsStart
  <2>4. UNCHANGED <<owner, phase, todo, op, arg, name, profile, core, control>>
    BY <1>3 DEF MdnsStart
  <2>5. QED BY <2>2, <2>3, <2>4
<1>4. ASSUME NEW t \in Callers, CoreUndo(t) PROVE TypeOK' BY <1>4 DEF CoreUndo, Go
<1>5. ASSUME NEW t \in Callers, MdnsStop(t) PROVE TypeOK' BY <1>5 DEF MdnsStop, Go
<1>6. ASSUME NEW t \in Callers, MdnsJoin(t) PROVE TypeOK' BY <1>6 DEF MdnsJoin, Go
<1>7. ASSUME NEW t \in Callers, CoreStop(t) PROVE TypeOK' BY <1>7 DEF CoreStop, Go
<1>8. ASSUME NEW t \in Callers, SetProfile(t) PROVE TypeOK'
  BY <1>8 DEF SetProfile, Go
<1>9. CASE Announce
  <2>1. listening /\ key # 0 BY <1>9 DEF Announce
  <2>2. key \in 1 .. MaxKey BY <2>1, Keys
  <2>3. Record \in [name : Names, profile : Profiles, key : 1 .. MaxKey] BY <2>2
  <2>4. QED BY <1>9, <2>3 DEF Announce
<1>10. CASE MdnsLeave BY <1>10 DEF MdnsLeave
<1>11. ASSUME NEW t \in Callers, NEW what \in {"start", "stop", "switch"}, NEW with,
              Call(t, what, with),
              what = "start" => with \in Names, what = "switch" => with \in Profiles,
              what = "stop" => with = "none",
              UNCHANGED <<owner, phase, todo, runtime, core, discovery, control>>
       PROVE  TypeOK'
  <2>1. /\ pc' = [pc EXCEPT ![t] = "lock"]
        /\ op' = [op EXCEPT ![t] = what] /\ arg' = [arg EXCEPT ![t] = with]
    BY <1>11 DEF Call, Go
  <2>2. op' \in [Callers -> {"none", "start", "stop", "switch", "status"}]
        /\ arg' \in [Callers -> Profiles \cup Names \cup {"none"}]
    BY <1>11, <2>1
  <2>3. \A q \in Callers : /\ op'[q] = "start" => arg'[q] \in Names
                           /\ op'[q] = "switch" => arg'[q] \in Profiles
                           /\ pc'[q] = "set_profile" => op'[q] = "switch"
    BY <1>11, <2>1
  <2>4. UNCHANGED <<owner, phase, todo, name, profile, mdns, http, records>> BY <1>11
  <2>5. key' = key /\ listening' = listening BY <1>11
  <2>6. key' \in 0 .. MaxKey /\ (listening' => key' # 0) BY <2>5
  <2>7. QED BY <2>2, <2>3, <2>4, <2>6, TypeKept, Zenon
<1>12. ASSUME NEW what, NEW with, Request(what, with),
              \/ what = "start" /\ with = "AirTizen TV"
              \/ what = "stop" /\ with = "none"
              \/ what = "switch" /\ with \in Profiles
       PROVE TypeOK'
  BY <1>11, <1>12 DEF Request
<1>13. CASE OwnerCalls BY <1>11, <1>13 DEF OwnerCalls
<1>14. CASE OnControl BY <1>11, <1>14 DEF OnControl
<1>15. CASE HttpReturn BY <1>15 DEF HttpReturn, Unlock, Go
<1>16. CASE OwnerReturn
  <2>1. todo' \in Seq(OwnerCalling) BY <1>16, Scripts, ScriptRest DEF OwnerReturn, AfterCall
  <2>2. phase' \in {"up", "run", "down"} /\ (phase' = "up" => todo' # << >>)
    BY <1>16, ScriptRest DEF OwnerReturn, AfterCall
  <2>3. QED BY <1>16, <2>1, <2>2 DEF OwnerReturn, Unlock, Go
<1>17. CASE HttpLeave BY <1>17 DEF HttpLeave
<1>18. CASE HttpStart
  <2>1. todo' \in Seq(OwnerCalling)
    BY <1>18, Scripts, ScriptRest DEF HttpStart
  <2>2. phase' \in {"up", "run", "down"} /\ (phase' = "up" => todo' # << >>)
    BY <1>18, ScriptRest DEF HttpStart
  <2>3. QED BY <1>18, <2>1, <2>2 DEF HttpStart
<1>19. CASE GoDown BY <1>19, Scripts DEF GoDown
<1>20. CASE HttpStop BY <1>20, ScriptRest DEF HttpStop
<1>21. CASE UNCHANGED vars BY <1>21 DEF vars
<1>22. QED
  BY <1>1, <1>2, <1>3, <1>4, <1>5, <1>6, <1>7, <1>8, <1>9, <1>10, <1>12, <1>13, <1>14, <1>15,
     <1>16, <1>17, <1>18, <1>19, <1>20, <1>21
  DEF Next, CallStep

-----------------------------------------------------------------------------
(* The app as a client of the receiver. *)

\* A status is read: the one call of the app that Lifecycle leaves out, as it changes
\* nothing.
StatusRead ==
  /\ Call("http", "status", "none")
  /\ UNCHANGED <<owner, phase, todo, runtime, core, discovery, control>>

\* What the app and its requests do to the receiver, a client may do, and no more.
LEMMA RemoteIsClient ==
  ChoiceKept /\ [NextRemote]_remote_vars => [Next \/ StatusRead]_vars
<1> SUFFICES ASSUME ChoiceKept, [NextRemote]_remote_vars PROVE [Next \/ StatusRead]_vars OBVIOUS
<1>1. CASE Receiver \/ Clients BY <1>1, Zenon DEF Receiver, Clients, Next
<1>2. ASSUME NEW c \in Controls, Press(c) PROVE UNCHANGED vars BY <1>2, Zenon DEF Press
<1>3. CASE Page BY <1>3, Zenon DEF Page, Refresh, Answered, GiveUp
<1>4. CASE Unload BY <1>4, Zenon DEF Unload, Next
<1>5. CASE TakeRequest
  <2> DEFINE m == Head(sent)
  <2>1. m \in Requests
    <3>1. sent \in Seq(Requests) BY Zenon DEF ChoiceKept, RequestsOK
    <3>2. sent # << >> BY <1>5, Zenon DEF TakeRequest
    <3>3. QED BY <3>1, <3>2, Taken
  <2>2. Request(m.what, m.with) BY <1>5, Zenon DEF TakeRequest, Request
  <2> HIDE DEF m
  <2>3. \/ m.what = "start" /\ m.with = "AirTizen TV"
        \/ m.what = "switch" /\ m.with \in Profiles
        \/ m.what \in {"stop", "status"} /\ m.with = "none"
    BY <2>1 DEF Requests
  <2>4. CASE m.what = "start" /\ m.with = "AirTizen TV" BY <2>2, <2>4, Zenon DEF Next
  <2>5. CASE m.what = "switch" /\ m.with \in Profiles BY <2>2, <2>5, Zenon DEF Next
  <2>6. CASE m.what = "stop" /\ m.with = "none" BY <2>2, <2>6, Zenon DEF Next
  <2>7. CASE m.what = "status" /\ m.with = "none"
    BY <2>2, <2>7, Zenon DEF Request, StatusRead
  <2>8. QED BY <2>3, <2>4, <2>5, <2>6, <2>7, Zenon
<1>6. CASE Carried
  <2>1. HttpReturn
        \/ (Call("http", "status", "none")
            /\ UNCHANGED <<owner, phase, todo, runtime, core, discovery, control>>)
    BY <1>6, Zenon DEF Carried
  <2>2. QED BY <2>1, Zenon DEF Next, StatusRead
<1>7. CASE UNCHANGED remote_vars BY <1>7, Zenon DEF remote_vars
<1>8. QED BY <1>1, <1>2, <1>3, <1>4, <1>5, <1>6, <1>7, Zenon DEF NextRemote

\* A status that is read has no argument.
LEMMA StatusType == TypeOK /\ IInv /\ StatusRead => TypeOK'
<1> SUFFICES ASSUME TypeOK, IInv, StatusRead PROVE TypeOK' OBVIOUS
<1>1. LockKept' /\ FlagsOK'
  <2>1. UNCHANGED <<lock, was>> /\ pc["http"] = "idle" /\ pc' = [pc EXCEPT !["http"] = "lock"]
    BY DEF StatusRead, Call, Go
  <2>2. LockKept' BY <2>1 DEF TypeOK, LockKept, Callers, Free, Steps
  <2>3. FlagsOK' BY <2>1 DEF StatusRead, runtime, core, discovery, control, TypeOK, FlagsOK
  <2>4. QED BY <2>2, <2>3
<1>2. /\ op' \in [Callers -> {"none", "start", "stop", "switch", "status"}]
      /\ arg' \in [Callers -> Profiles \cup Names \cup {"none"}]
      /\ \A t \in Callers : /\ op'[t] = "start" => arg'[t] \in Names
                            /\ op'[t] = "switch" => arg'[t] \in Profiles
                            /\ pc'[t] = "set_profile" => op'[t] = "switch"
  BY DEF StatusRead, Call, Go, TypeOK, LockKept, Callers
<1>3. QED BY <1>1, <1>2 DEF StatusRead, runtime, core, discovery, control, TypeOK

-----------------------------------------------------------------------------
(* The theorems about the receiver under any clients. *)

\* IInv and the types hold in every reachable state of the receiver's lifecycle.
THEOREM LifecycleInvariant == Spec => [](IInv /\ TypeOK)
<1>1. Init => IInv /\ TypeOK BY InitIInv, InitTypeOK
<1>2. (IInv /\ TypeOK) /\ [Next]_vars => (IInv /\ TypeOK)'
  BY RuntimeStepIInv, NextIsRuntimeStep, TypeStep
<1>3. QED BY <1>1, <1>2, PTL DEF Spec

\* Whatever the owner and the HTTP thread call, and whenever the mDNS thread fails, what
\* has been announced describes the receiver that listens.
THEOREM LifecycleRecords == Spec => []RecordsDescribeReceiver
  BY LifecycleInvariant, RecordsHold, PTL

\* Between two calls the receiver is up altogether or down altogether.
THEOREM LifecycleWhole == Spec => []AllOrNothing
  BY LifecycleInvariant, WholeHolds, PTL

-----------------------------------------------------------------------------
(* The theorems about the receiver and the app that controls it. *)

\* The receiver's invariant and the page's hold together, whatever is pressed, lost,
\* given up or carried out late.
THEOREM RemoteInvariant == SpecRemote => [](IInv /\ ChainKept)
<1>1. InitRemote => IInv /\ ChainKept
  BY InitIInv DEF InitRemote, ChainKept, OneRefreshChain
<1>2. (IInv /\ ChainKept) /\ [NextRemote]_remote_vars => (IInv /\ ChainKept)'
  BY RuntimeStepIInv, RemoteIsRuntimeStep, ChainStep
<1>3. QED BY <1>1, <1>2, PTL DEF SpecRemote

\* Driven by the app, the receiver announces only what listens.
THEOREM RemoteRecords == SpecRemote => []RecordsDescribeReceiver
  BY RemoteInvariant, RecordsHold, PTL

\* Driven by the app, the receiver is up altogether or down altogether between calls.
THEOREM RemoteWhole == SpecRemote => []AllOrNothing
  BY RemoteInvariant, WholeHolds, PTL

\* The screen never stops asking and never asks twice, for any number of keys pressed.
THEOREM RemoteOneChain == SpecRemote => []OneRefreshChain
<1>1. ChainKept => OneRefreshChain BY DEF ChainKept
<1>2. QED BY RemoteInvariant, <1>1, PTL

\* Requests wait, and are carried out, in an order in which no restore follows a choice.
THEOREM RemoteChoiceKept == SpecRemote => []ChoiceKept
<1>1. InitRemote => ChoiceKept BY InitChoice
<1>2. ChoiceKept /\ ChainKept /\ [NextRemote]_remote_vars => ChoiceKept' BY ChoiceStep
<1>3. QED BY <1>1, <1>2, RemoteInvariant, PTL DEF SpecRemote

\* The restore that status() makes on its first answer is never carried out after a
\* choice of the user, however requests are lost, given up and carried out late: one HTTP
\* thread takes them in order, and discovery() marks the choice when it is made.
THEOREM RemoteChoice == SpecRemote => ChoiceStands
<1>1. ChoiceKept => [chosen /\ held.why = "restore" => profile' = profile]_remote_vars
  BY Zenon DEF ChoiceKept
<1>2. QED BY <1>1, RemoteChoiceKept, PTL DEF SpecRemote, ChoiceStands

\* RemoteControl implements Lifecycle: what the app does to the receiver by requests that
\* are lost, given up and carried out late, any client of Lifecycle may do, so that what
\* holds for the clients of Lifecycle holds for the app.
THEOREM RemoteImplementsLifecycle == SpecRemote => Init /\ [][Next \/ StatusRead]_vars
<1>1. InitRemote => Init BY Zenon DEF InitRemote
<1>2. ChoiceKept /\ [NextRemote]_remote_vars => [Next \/ StatusRead]_vars BY RemoteIsClient
<1>3. QED BY <1>1, <1>2, RemoteChoiceKept, PTL DEF SpecRemote

\* Driven by the app, every variable of the receiver keeps its type.
THEOREM RemoteTypes == SpecRemote => []TypeOK
<1>1. Init => TypeOK BY InitTypeOK
<1>2. TypeOK /\ IInv /\ [Next \/ StatusRead]_vars => TypeOK' BY TypeStep, StatusType, Zenon
<1>3. QED BY <1>1, <1>2, RemoteImplementsLifecycle, RemoteInvariant, PTL
=============================================================================
