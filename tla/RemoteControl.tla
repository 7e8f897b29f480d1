---------------------------- MODULE RemoteControl ---------------------------
(***************************************************************************)
(* The app's remote control of the receiver: the screen (app/js/app.js)    *)
(* and its bridge (app/js/native-bridge.js), composed with the receiver    *)
(* and its control HTTP thread (Lifecycle).                                *)
(*                                                                         *)
(* The app is one chain of callbacks: a timer asks for /status, the answer *)
(* arms the timer again, and a key pressed meanwhile waits.  A request is  *)
(* given up after 1.8 seconds, but one that has been sent may still be     *)
(* carried out, before those sent later: one HTTP thread takes connections *)
(* in order.  The first status the app gets makes it restore the discovery *)
(* profile the user chose on an earlier day.                               *)
(*                                                                         *)
(* The page of the NaCl module is the module's only client; the two other  *)
(* owners are driven by any client, as in Lifecycle.  Left out: what is    *)
(* shown, focus and overlays, logs, and the list of callers that wait for  *)
(* one status, as the screen is the only one.                              *)
(***************************************************************************)
EXTENDS Lifecycle

CONSTANTS
  MaxPresses,  \* bound: how often each key is pressed
  Backlog      \* connections that may wait (listen(fd, 8))

ASSUME RemoteAssumption ==
  MaxPresses \in [{"start", "stop", "choice"} -> Nat] /\ Backlog \in Nat \ {0}

VARIABLES
  sent,       \* connections that wait for the HTTP thread
  held,       \* the request it is at
  xhr,        \* the app's request in flight
  reply,      \* what has come back for it
  timers,     \* armed timers that call refresh()
  busy, pendingControl,    \* of app.js
  attempted,  \* discoveryRestoreAttempted
  saved,      \* localStorage: the preferred profile
  chosen,     \* history: a choice of the user has been carried out
  presses     \* of each key

page == <<xhr, reply, timers, busy, pendingControl, attempted, saved, presses>>
remote_vars == <<vars, sent, held, page, chosen>>

None == "none"
Controls == {"start", "stop", "choice"}

\* A request: why it is made, the call it leads to, whether the app waits for it, and
\* whether the call succeeded.
Message(why, what, with) ==
  [why |-> why, what |-> what, with |-> with, live |-> TRUE, ok |-> TRUE]
Nothing == Message(None, None, None)
NoReply == [ok |-> FALSE, profile |-> None]

InitRemote ==
  /\ Init
  /\ sent = << >> /\ held = Nothing
  /\ xhr = Nothing /\ reply = NoReply
  /\ timers = 1 /\ busy = FALSE /\ pendingControl = None
  /\ attempted = FALSE
  /\ saved \in Profiles
  /\ chosen = FALSE /\ presses = [c \in Controls |-> 0]

-----------------------------------------------------------------------------
(* The bridge *)

\* xhrJson(): a connection that finds no listener or no room is lost.
Send(message, queue) ==
  /\ xhr' = message
  /\ sent' = IF http = "serving" /\ Len(queue) < Backlog THEN Append(queue, message) ELSE queue

\* What start(), stop() and discovery() send.
Sends(control_, p) ==
  CASE control_ = "start" -> Message("start", "start", "AirTizen TV")
    [] control_ = "stop" -> Message("stop", "stop", "none")
    [] control_ = "choice" -> Message("choice", "switch", p)

\* Mutant: only a restore counts as one.
Marks_restoreOnly(control_) == FALSE

\* discovery(): "An explicit selection takes precedence over automatic startup restore."
Marks(control_) == control_ = "choice"

-----------------------------------------------------------------------------
(* The screen *)

\* Mutant: the timer goes on.
Disarmed_not(n) == n

\* clearTimeout(timer)
Disarmed(n) == IF n = 0 THEN 0 ELSE n - 1

\* control() when the app is not busy.  The profile chosen is the one that is not shown,
\* which may be either.  What waits is the caller's.
Begin(control_, armed, tried, queue) ==
  /\ busy' = TRUE
  /\ timers' = Disarmed(armed)
  /\ attempted' = (tried \/ Marks(control_))
  /\ \E p \in IF control_ = "choice" THEN Profiles ELSE {"native"} :
       Send(Sends(control_, p), queue)

\* Mutant: a control that begins takes what waits for itself.
AtOnce_forgets(control_) ==
  ~busy /\ Begin(control_, timers, attempted, sent) /\ pendingControl' = None

\* Begun by the key itself.  Another press may wait since the control before, whose answer
\* does not look at it: it goes on waiting, and is begun after this newer one.
AtOnce(control_) ==
  ~busy /\ Begin(control_, timers, attempted, sent) /\ UNCHANGED pendingControl

\* A key or a button; the button for start and stop is disabled during a control.  A press
\* that waits takes the place of one that waited before.
Press(control_) ==
  /\ presses[control_] < MaxPresses[control_]
  /\ presses' = [presses EXCEPT ![control_] = @ + 1]
  /\ control_ = "start" => xhr.why \notin Controls
  /\ \/ /\ busy
        /\ pendingControl' = control_
        /\ UNCHANGED <<sent, xhr, timers, busy, attempted>>
     \/ AtOnce(control_)
  /\ UNCHANGED <<vars, held, reply, saved, chosen>>

\* refresh().  Its branch for a busy app is left out: OneRefreshChain shows that the
\* timer is not armed then.
Refresh ==
  /\ timers > 0
  /\ ~busy
  /\ timers' = timers - 1
  /\ busy' = TRUE
  /\ Send(Message("status", "status", "none"), sent)
  /\ UNCHANGED <<vars, held, reply, pendingControl, attempted, saved, chosen, presses>>

\* After a status, but not after a control, what was pressed meanwhile is begun.
Resumes == xhr.why \notin Controls /\ pendingControl # None

\* The callbacks of app.js: not busy, timer armed, and on with what was pressed.
Finish(tried, queue) ==
  \/ Resumes /\ pendingControl' = None /\ Begin(pendingControl, timers + 1, tried, queue)
  \/ /\ ~Resumes
     /\ busy' = FALSE /\ timers' = timers + 1 /\ xhr' = Nothing
     /\ attempted' = tried
     /\ sent' = queue
     /\ UNCHANGED pendingControl

\* The first status that is answered is compared with the preference, and only that.
FirstStatus == xhr.why = "status" /\ reply.ok /\ ~attempted

\* The answer has come.
Answered ==
  /\ xhr # Nothing /\ reply # NoReply
  /\ reply' = NoReply
  /\ \/ /\ FirstStatus /\ reply.profile # saved
        /\ attempted' = TRUE
        /\ Send(Message("restore", "switch", saved), sent)
        /\ UNCHANGED <<timers, busy, pendingControl>>
     \/ /\ ~(FirstStatus /\ reply.profile # saved)
        /\ Finish(attempted \/ FirstStatus, sent)
  /\ saved' = IF xhr.why = "choice" /\ reply.ok THEN xhr.with ELSE saved
  /\ UNCHANGED <<vars, held, chosen, presses>>

\* No answer in time, or no connection: the request is aborted.  One that waits for the
\* HTTP thread may be lost, and a status that nobody waits for does nothing.  The request
\* in flight is the newest one.
Abandoned(message) == [message EXCEPT !.live = FALSE]
Newest(queue) == queue[Len(queue)]
AllButNewest(queue) == SubSeq(queue, 1, Len(queue) - 1)
Left(queue) ==
  IF queue # << >> /\ Newest(queue).live /\ Newest(queue).what = "status"
  THEN AllButNewest(queue)
  ELSE [i \in DOMAIN queue |-> Abandoned(queue[i])]
Lost(queue) == IF queue # << >> /\ Newest(queue).live THEN AllButNewest(queue) ELSE queue

GiveUp ==
  /\ xhr # Nothing /\ reply = NoReply
  /\ UNCHANGED reply
  /\ held' = IF held = Nothing THEN held ELSE Abandoned(held)
  /\ \E queue \in {Left(sent), Lost(sent)} : Finish(attempted, queue)
  /\ UNCHANGED <<vars, saved, chosen, presses>>

-----------------------------------------------------------------------------
(* The control HTTP thread: handle_client() *)

TakeRequest ==
  /\ http = "serving" /\ ~http_stop
  /\ held = Nothing /\ sent # << >>
  /\ held' = Head(sent)
  /\ sent' = Tail(sent)
  /\ Call("http", Head(sent).what, Head(sent).with)
  /\ UNCHANGED <<owner, phase, todo, runtime, core, discovery, control, page, chosen>>

\* What a call returns.
Succeeded ==
  CASE op["http"] = "start" -> started
    [] op["http"] = "stop" -> TRUE
    [] op["http"] = "switch" -> profile = arg["http"] /\ (was["http"] => started)

\* Every answer is the status, which is read in a call of its own.
Carried ==
  /\ held # Nothing
  /\ \/ /\ op["http"] # "status" /\ HttpReturn
        /\ held' = [held EXCEPT !.ok = Succeeded]
        /\ chosen' = (chosen \/ held.why = "choice")
        /\ UNCHANGED reply
     \/ /\ pc["http"] = "idle"
        /\ Call("http", "status", "none")
        /\ UNCHANGED <<owner, phase, todo, runtime, core, discovery, control, held, reply,
                       chosen>>
     \/ /\ op["http"] = "status" /\ HttpReturn
        /\ held' = Nothing
        /\ reply' = IF held.live THEN [ok |-> held.ok, profile |-> profile] ELSE reply
        /\ UNCHANGED chosen
  /\ UNCHANGED <<sent, xhr, timers, busy, pendingControl, attempted, saved, presses>>

\* What goes on without the page: the owner, the calls, mDNS, the end of the HTTP thread.
Receiver ==
  /\ \/ \E t \in Callers : CallStep(t)
     \/ Announce \/ MdnsLeave
     \/ held = Nothing /\ HttpLeave
     \/ OwnerCalls \/ OwnerReturn \/ HttpStart \/ OnControl \/ HttpStop
     \/ owner # "nacl" /\ GoDown
  /\ UNCHANGED <<sent, held, page, chosen>>

\* The page is unloaded, and the module with it; the HTTP thread may be at a request.
Unload ==
  /\ GoDown
  /\ held' = IF held = Nothing THEN held ELSE Abandoned(held)
  /\ sent' \in {Left(sent), << >>}
  /\ xhr' = Nothing /\ reply' = NoReply
  /\ timers' = 0 /\ busy' = FALSE /\ pendingControl' = None
  /\ attempted' = FALSE /\ chosen' = FALSE /\ presses' = MaxPresses
  /\ UNCHANGED saved

\* Any client of the two other owners.
Clients ==
  /\ owner # "nacl"
  /\ \/ Request("start", "AirTizen TV") \/ Request("stop", "none")
     \/ \E p \in Profiles : Request("switch", p)
     \/ HttpReturn
  /\ UNCHANGED <<sent, held, page, chosen>>

Page == Refresh \/ Answered \/ GiveUp

NextRemote ==
  \/ Receiver \/ Clients
  \/ /\ owner = "nacl"
     /\ \/ \E c \in Controls : Press(c)
        \/ Page \/ Unload \/ TakeRequest \/ Carried

\* Timers fire and a request ends, one way or the other; the HTTP thread goes on with
\* the request it has.  Nothing is assumed of answers.
FairRemote ==
  /\ Fairness
  /\ WF_remote_vars(owner = "nacl" /\ Page)
  /\ WF_remote_vars(owner = "nacl" /\ Carried)

SpecRemote == InitRemote /\ [][NextRemote]_remote_vars /\ FairRemote

-----------------------------------------------------------------------------
(* Properties. *)

\* The screen never stops asking and never asks twice: either one timer is armed, or
\* one request is in flight, whatever is pressed between a request, its answer and its
\* timeout (app.js:76-92).
OneRefreshChain ==
  phase # "down" => /\ busy <=> xhr # Nothing
                    /\ timers = IF busy THEN 0 ELSE 1

\* A profile the user chose is not taken back by the automatic restore, even if the
\* choice was made before the receiver answered for the first time, if its answer was
\* lost, or if the restore was given up and is carried out late (native-bridge.js:156,
\* "An explicit selection takes precedence over automatic startup restore").
ChoiceStands ==
  [][chosen /\ held.why = "restore" => profile' = profile]_remote_vars

\* What waits is never lost: it is taken only to be begun, which makes its own request at
\* once, unless a later press takes its place (app.js:85) or the page is unloaded; and it
\* does not wait for ever.  This also if it waits behind a control, whose answer does not
\* look at it, if another key is then pressed and goes first, and if no request is ever
\* answered (app.js:81, 84-90).
PressIsHandled ==
  /\ [][pendingControl \notin {None, pendingControl'} =>
         \/ pendingControl' = None /\ xhr' # xhr /\ xhr'.why = pendingControl
         \/ pendingControl' # None /\ presses' # presses
         \/ phase' = "down"]_remote_vars
  /\ pendingControl # None ~> pendingControl = None

\* What makes OneRefreshChain inductive: what waits is a control.
ChainKept ==
  /\ busy \in BOOLEAN
  /\ pendingControl \in Controls \cup {None}
  /\ OneRefreshChain

-----------------------------------------------------------------------------
(* The inductive invariant behind ChoiceStands. *)

\* What the app sends.
Requests ==
  {m \in [why : Controls \cup {"status", "restore"}, what : {"start", "stop", "switch", "status"},
          with : Profiles \cup {"AirTizen TV", "none"}, live : BOOLEAN, ok : {TRUE}] :
     m.with \in CASE m.what = "start" -> {"AirTizen TV"}
                  [] m.what = "switch" -> Profiles
                  [] OTHER -> {"none"}}

\* What waits for the HTTP thread and what the app remembers are of their kinds.
RequestsOK ==
  /\ sent \in Seq(Requests)
  /\ "why" \in DOMAIN held
  /\ saved \in Profiles
  /\ xhr.why = "choice" => xhr.with \in Profiles

NoneOf(why, queue) == \A i \in DOMAIN queue : queue[i].why # why

\* No restore waits behind a choice.
RestoreFirst(queue) ==
  \A i, j \in DOMAIN queue : i < j /\ queue[i].why = "choice" => queue[j].why # "restore"

\* The page has been unloaded: nothing is sent any more.
Unloaded == timers = 0 /\ xhr = Nothing /\ (\A c \in Controls : ~(presses[c] < MaxPresses[c]))

\* A restore is sent before any choice is, so it is carried out before any choice is: once
\* a choice has been made the first status is no longer compared, and connections wait in
\* order.
ChoiceKept ==
  /\ RequestsOK
  /\ RestoreFirst(sent)
  /\ chosen \/ held.why = "choice" => NoneOf("restore", sent)
  /\ chosen => held.why # "restore"
  /\ attempted \/ Unloaded \/ (~chosen /\ held.why # "choice" /\ NoneOf("choice", sent))
=============================================================================
