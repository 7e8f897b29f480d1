------------------------------ MODULE Lifecycle -----------------------------
(***************************************************************************)
(* Starting, stopping and switching the receiver (native/src/              *)
(* airtizen_runtime.c): the RAOP core (airtizen_core.c), the mDNS thread   *)
(* (airtizen_mdns.c) and the control HTTP thread (airtizen_control_http.c),*)
(* under the three programs that own them: the development process (main() *)
(* of airtizen_runtime.c), the Tizen service (airtizen_tizen_service.c)    *)
(* and the NaCl module (ReceiverInstance of nacl/receiver_module.cc).      *)
(*                                                                         *)
(* Two threads call the runtime, the owner's and the HTTP thread, and a    *)
(* call holds the runtime's g_lock from begin to end; every part of a call *)
(* that starts, stops or joins something is a step.                        *)
(*                                                                         *)
(* Data abstraction.  Of an announcement the receiver's name, its profile  *)
(* and its public key are kept; `records' is what the announcements sent   *)
(* so far say, as a listener that lost none of them would know it.         *)
(* Requests that change nothing are left out; RemoteControl has them.      *)
(***************************************************************************)
EXTENDS Naturals, Sequences, FiniteSets

CONSTANTS
  Owners,    \* the programs to consider
  Profiles,  \* the discovery profiles
  MaxKey     \* bound: keys generated, one for each start of the core

ASSUME OwnersAssumption == Owners \subseteq {"process", "service", "nacl"}
ASSUME ProfilesAssumption == "native" \in Profiles
ASSUME MaxKeyAssumption == MaxKey \in Nat

VARIABLES
  owner,
  phase, todo,   \* the owner: coming up, running or going down; calls left
  lock,          \* holder of the runtime's g_lock
  pc, op, arg, was,  \* each caller: step, call, its argument, was_started
  started, error, name,  \* g_started, g_error is set, g_receiver_name
  profile,       \* the selected discovery profile
  listening, key,    \* g_raop, and the key it last generated
  advertising, mdns, mdns_stop,  \* mDNS: g_running, thread, stop pipe
  serving, http, http_stop,      \* control HTTP: g_started, thread, stop pipe
  records        \* what has been announced and not been taken back

calls == <<lock, pc, op, arg, was>>
runtime == <<started, error, name, profile>>
core == <<listening, key>>
discovery == <<advertising, mdns, mdns_stop, records>>
control == <<serving, http, http_stop>>
vars == <<owner, phase, todo, calls, runtime, core, discovery, control>>

Callers == {"owner", "http"}
Names == {"AirTizen TV", "custom"}
Free == "free"

\* The calls by which an owner comes up and goes down.
Up(o) == IF o = "process" THEN <<"runtime_start", "http_start">>
                          ELSE <<"http_start", "runtime_start">>

Down(o) == IF o = "process" THEN <<"http_stop", "runtime_stop">>
                            ELSE <<"runtime_stop", "http_stop">>

Init ==
  /\ owner \in Owners
  /\ phase = "up" /\ todo = Up(owner)
  /\ lock = Free
  /\ pc = [t \in Callers |-> "idle"]
  /\ op = [t \in Callers |-> "none"]
  /\ arg = [t \in Callers |-> "none"]
  /\ was = [t \in Callers |-> FALSE]
  /\ started = FALSE /\ error = FALSE /\ name = "AirTizen TV" /\ profile = "native"
  /\ listening = FALSE /\ key = 0
  /\ advertising = FALSE /\ mdns = "none" /\ mdns_stop = FALSE
  /\ serving = FALSE /\ http = "none" /\ http_stop = FALSE
  /\ records = {}

-----------------------------------------------------------------------------
(* The calls of airtizen_runtime.c *)

Go(t, step) == pc' = [pc EXCEPT ![t] = step]

Call(t, what, with) ==
  /\ pc[t] = "idle"
  /\ Go(t, "lock")
  /\ op' = [op EXCEPT ![t] = what]
  /\ arg' = [arg EXCEPT ![t] = with]
  /\ UNCHANGED <<lock, was>>

\* The first thing a call does, or nothing if nothing is to be done.
FirstStep(t) ==
  CASE op[t] = "start" -> IF started THEN "unlock" ELSE "core_start"
    [] op[t] = "stop" -> IF started THEN "mdns_stop" ELSE "unlock"
    [] op[t] = "switch" -> IF arg[t] = profile THEN "unlock"
                           ELSE IF started THEN "mdns_stop" ELSE "set_profile"
    [] OTHER -> "unlock"   \* "status": it only reads

\* airtizen_runtime_start(), airtizen_runtime_stop() and
\* airtizen_runtime_set_discovery_profile(): take the lock.
Lock(t) ==
  /\ pc[t] = "lock" /\ lock = Free
  /\ lock' = t
  /\ Go(t, FirstStep(t))
  /\ was' = [was EXCEPT ![t] = started]
  /\ name' = IF op[t] = "start" /\ ~started THEN arg[t] ELSE name
  /\ error' = IF FirstStep(t) = "unlock" /\ op[t] # "stop" THEN error ELSE FALSE
  /\ UNCHANGED <<owner, phase, todo, op, arg, started, profile, core, discovery, control>>

\* start_locked(): airtizen_core_start() generates a key, hands it to discovery and
\* listens.
CoreStart(t) ==
  /\ pc[t] = "core_start"
  /\ \/ /\ listening \/ ~advertising
        /\ key < MaxKey
        /\ key' = IF listening THEN key ELSE key + 1
        /\ listening' = TRUE
        /\ Go(t, "mdns_start")
        /\ UNCHANGED error
     \/ /\ ~listening
        /\ error' = TRUE
        /\ Go(t, "unlock")
        /\ UNCHANGED core
  /\ UNCHANGED <<owner, phase, todo, lock, op, arg, was, started, name, profile, discovery,
                 control>>

\* start_locked(): airtizen_mdns_start() starts the thread or fails.
MdnsStart(t) ==
  /\ pc[t] = "mdns_start"
  /\ \/ /\ advertising' = TRUE
        /\ mdns' = IF advertising THEN mdns ELSE "new"
        /\ mdns_stop' = FALSE
        /\ started' = TRUE
        /\ Go(t, "unlock")
        /\ UNCHANGED records
     \/ /\ ~advertising
        /\ Go(t, "undo")
        /\ UNCHANGED <<started, discovery>>
  /\ UNCHANGED <<owner, phase, todo, lock, op, arg, was, error, name, profile, core, control>>

\* Mutant: a failed start leaves the listener.
CoreUndo_leak(t) ==
  /\ pc[t] = "undo"
  /\ error' = TRUE
  /\ Go(t, "unlock")
  /\ UNCHANGED <<owner, phase, todo, lock, op, arg, was, started, name, profile, core,
                 discovery, control>>

\* start_locked(): discovery failed, airtizen_core_stop().
CoreUndo(t) ==
  /\ pc[t] = "undo"
  /\ listening' = FALSE
  /\ error' = TRUE
  /\ Go(t, "unlock")
  /\ UNCHANGED <<owner, phase, todo, lock, op, arg, was, started, name, profile, key,
                 discovery, control>>

\* Mutant: the pipe is not written to.
MdnsStop_untold(t) ==
  /\ pc[t] = "mdns_stop"
  /\ Go(t, IF advertising THEN "mdns_join" ELSE "core_stop")
  /\ UNCHANGED <<owner, phase, todo, lock, op, arg, was, runtime, core, discovery, control>>

\* stop_locked(): airtizen_mdns_stop() writes to the pipe.
MdnsStop(t) ==
  /\ pc[t] = "mdns_stop"
  /\ mdns_stop' = advertising
  /\ Go(t, IF advertising THEN "mdns_join" ELSE "core_stop")
  /\ UNCHANGED <<owner, phase, todo, lock, op, arg, was, runtime, core, advertising, mdns,
                 records, control>>

\* Mutant: the stop does not wait for the thread.
Joinable_always == TRUE

\* The mDNS thread has returned.
Joinable == mdns = "ended"

\* airtizen_mdns_stop() joins the thread and closes its sockets.
MdnsJoin(t) ==
  /\ pc[t] = "mdns_join" /\ Joinable
  /\ advertising' = FALSE
  /\ mdns' = IF mdns = "ended" THEN "none" ELSE mdns
  /\ mdns_stop' = (mdns # "ended")
  /\ Go(t, "core_stop")
  /\ UNCHANGED <<owner, phase, todo, lock, op, arg, was, runtime, core, records, control>>

\* stop_locked(): airtizen_core_stop() and the resets of playback and photos.
CoreStop(t) ==
  /\ pc[t] = "core_stop"
  /\ listening' = FALSE
  /\ started' = FALSE
  /\ error' = FALSE
  /\ Go(t, IF op[t] = "switch" THEN "set_profile" ELSE "unlock")
  /\ UNCHANGED <<owner, phase, todo, lock, op, arg, was, name, profile, key, discovery, control>>

\* A switch starts the receiver again if it was running.
Restarts(t) == was[t]

\* airtizen_discovery_set_profile() and, if the receiver ran, start_locked().
SetProfile(t) ==
  /\ pc[t] = "set_profile"
  /\ profile' = IF advertising THEN profile ELSE arg[t]
  /\ Go(t, IF ~advertising /\ Restarts(t) THEN "core_start" ELSE "unlock")
  /\ UNCHANGED <<owner, phase, todo, lock, op, arg, was, started, error, name, core, discovery,
                 control>>

\* The call returns.
Unlock(t) ==
  /\ pc[t] = "unlock"
  /\ lock' = Free
  /\ Go(t, "idle")
  /\ op' = [op EXCEPT ![t] = "none"]
  /\ arg' = [arg EXCEPT ![t] = "none"]
  /\ was' = [was EXCEPT ![t] = FALSE]
  /\ UNCHANGED <<runtime, core, discovery, control>>

CallStep(t) == \/ Lock(t) \/ CoreStart(t) \/ MdnsStart(t) \/ CoreUndo(t) \/ MdnsStop(t)
               \/ MdnsJoin(t) \/ CoreStop(t) \/ SetProfile(t)

-----------------------------------------------------------------------------
(* The mDNS thread: loop() *)

Record == [name |-> name, profile |-> profile, key |-> key]

\* announce(), first, every three seconds and when asked.  A record replaces the
\* one of the same name.
Announce ==
  /\ mdns \in {"new", "serving"}
  /\ mdns' = "serving"
  /\ records' = {r \in records : r.name # name} \cup {Record}
  /\ UNCHANGED <<owner, phase, todo, calls, runtime, core, advertising, mdns_stop, control>>

\* The stop pipe, or a failed select(): goodbye, with a time to live of 0.
MdnsLeave ==
  /\ mdns = "serving"
  /\ mdns' = "ended"
  /\ records' = {r \in records : r.name # name}
  /\ UNCHANGED <<owner, phase, todo, calls, runtime, core, advertising, mdns_stop, control>>

-----------------------------------------------------------------------------
(* The control HTTP thread: server_thread() *)

\* POST /start, /stop and /discovery/<profile>; the thread looks at the stop pipe
\* before it takes a request.
Request(what, with) ==
  /\ http = "serving" /\ ~http_stop
  /\ Call("http", what, with)
  /\ UNCHANGED <<owner, phase, todo, runtime, core, discovery, control>>

HttpReturn ==
  /\ Unlock("http")
  /\ UNCHANGED <<owner, phase, todo>>

\* The stop pipe, or a failed select().
HttpLeave ==
  /\ http = "serving" /\ pc["http"] = "idle"
  /\ http' = "ended"
  /\ UNCHANGED <<owner, phase, todo, calls, runtime, core, discovery, serving, http_stop>>

-----------------------------------------------------------------------------
(* The owner *)

\* runtime_start() or runtime_stop() of the owner's script.  The development process takes
\* a name from its command line; the one the page gives the module as an attribute is the
\* usual one (app/js/embedded-receiver.js:57).
OwnerCalls ==
  /\ todo # << >>
  /\ \/ /\ Head(todo) = "runtime_start"
        /\ \E n \in Names : /\ n = "AirTizen TV" \/ owner = "process"
                            /\ Call("owner", "start", n)
     \/ /\ Head(todo) = "runtime_stop"
        /\ Call("owner", "stop", "none")
  /\ UNCHANGED <<owner, phase, todo, runtime, core, discovery, control>>

\* What follows the owner's call: a development process that could not start exits,
\* a service may, a module stays.
AfterCall ==
  IF phase = "up" /\ ~started
  THEN \/ owner = "process" /\ phase' = "down" /\ todo' = << >>
       \/ owner = "service" /\ phase' = "down" /\ todo' = << >>
       \/ owner # "process" /\ phase' = "run" /\ todo' = << >>
  ELSE /\ phase' = IF phase = "up" /\ Len(todo) = 1 THEN "run" ELSE phase
       /\ todo' = IF todo = << >> THEN todo ELSE Tail(todo)

OwnerReturn == Unlock("owner") /\ AfterCall /\ UNCHANGED owner

\* airtizen_control_http_start() of the owner's script, and what its failure means.
HttpStart ==
  /\ phase = "up" /\ Head(todo) = "http_start" /\ pc["owner"] = "idle"
  /\ \/ /\ serving' = TRUE /\ http' = "serving" /\ http_stop' = FALSE
        /\ todo' = Tail(todo)
        /\ phase' = IF Len(todo) = 1 THEN "run" ELSE phase
     \/ /\ UNCHANGED control
        /\ \/ owner = "process" /\ phase' = "down" /\ todo' = <<"runtime_stop">>
           \/ owner = "service" /\ phase' = "down" /\ todo' = << >>
           \/ owner = "nacl" /\ phase' = "run" /\ todo' = << >>
  /\ UNCHANGED <<owner, calls, runtime, core, discovery>>

\* on_control() of the service, while it runs.
OnControl ==
  /\ owner = "service" /\ phase = "run"
  /\ Call("owner", "start", "AirTizen TV")
  /\ UNCHANGED <<owner, phase, todo, runtime, core, discovery, control>>

\* A signal, on_terminate(), or the destructor, once the worker thread, if there is
\* one, has returned.
GoDown ==
  /\ phase = "run" /\ pc["owner"] = "idle"
  /\ phase' = "down" /\ todo' = Down(owner)
  /\ UNCHANGED <<owner, calls, runtime, core, discovery, control>>

\* airtizen_control_http_stop() of the owner's script: tell, then join.
HttpStop ==
  /\ phase = "down" /\ todo # << >> /\ Head(todo) = "http_stop" /\ pc["owner"] = "idle"
  /\ \/ /\ serving /\ ~http_stop
        /\ http_stop' = TRUE
        /\ UNCHANGED <<serving, http, todo>>
     \/ /\ serving /\ http_stop /\ http = "ended"
        /\ serving' = FALSE /\ http' = "none" /\ http_stop' = FALSE
        /\ todo' = Tail(todo)
     \/ /\ ~serving
        /\ todo' = Tail(todo)
        /\ UNCHANGED control
  /\ UNCHANGED <<owner, phase, calls, runtime, core, discovery>>

Ended == phase = "down" /\ todo = << >>

Next ==
  \/ \E t \in Callers : CallStep(t)
  \/ Announce \/ MdnsLeave
  \/ Request("start", "AirTizen TV") \/ Request("stop", "none")
  \/ \E p \in Profiles : Request("switch", p)
  \/ HttpReturn \/ HttpLeave
  \/ OwnerCalls \/ OwnerReturn \/ HttpStart \/ OnControl \/ GoDown \/ HttpStop

\* Calls go on; threads that are told to stop look at their pipes, as their reads
\* and writes are bounded by timeouts; and a thread that waits for g_lock gets it,
\* as the HTTP thread accepts and reads a request between two calls.
Fairness ==
  /\ \A t \in Callers : SF_vars(Lock(t)) /\ WF_vars(CallStep(t))
  /\ WF_vars(mdns = "new" /\ Announce)
  /\ WF_vars(mdns_stop /\ MdnsLeave)
  /\ WF_vars(HttpReturn)
  /\ WF_vars(http_stop /\ HttpLeave)
  /\ WF_vars(OwnerCalls) /\ WF_vars(OwnerReturn) /\ WF_vars(HttpStop)

Spec == Init /\ [][Next]_vars /\ Fairness

-----------------------------------------------------------------------------
(* Properties. *)

\* The steps of a call, with the states before it.
Steps == {"idle", "lock", "core_start", "mdns_start", "undo", "mdns_stop", "mdns_join",
          "core_stop", "set_profile", "unlock"}

\* The flags are flags.
FlagsOK ==
  /\ was \in [Callers -> BOOLEAN]
  /\ started \in BOOLEAN /\ error \in BOOLEAN /\ listening \in BOOLEAN
  /\ advertising \in BOOLEAN /\ mdns_stop \in BOOLEAN
  /\ serving \in BOOLEAN /\ http_stop \in BOOLEAN

\* A call is in progress exactly while its caller holds g_lock.
LockKept ==
  /\ lock \in Callers \cup {Free}
  /\ pc \in [Callers -> Steps]
  /\ \A t \in Callers : pc[t] \notin {"idle", "lock"} <=> lock = t

\* What an owner's script is made of.
OwnerCalling == {"runtime_start", "runtime_stop", "http_start", "http_stop"}

\* The type of the lifecycle's state, with the discipline of its lock; an owner that
\* comes up has calls left.
TypeOK ==
  /\ FlagsOK
  /\ LockKept
  /\ owner \in Owners
  /\ phase \in {"up", "run", "down"}
  /\ todo \in Seq(OwnerCalling)
  /\ phase = "up" => todo # << >>
  /\ op \in [Callers -> {"none", "start", "stop", "switch", "status"}]
  /\ arg \in [Callers -> Profiles \cup Names \cup {"none"}]
  /\ \A t \in Callers : /\ op[t] = "start" => arg[t] \in Names
                        /\ op[t] = "switch" => arg[t] \in Profiles
                        /\ pc[t] = "set_profile" => op[t] = "switch"
  /\ name \in Names /\ profile \in Profiles
  /\ key \in 0 .. MaxKey /\ (listening => key # 0)
  /\ mdns \in {"none", "new", "serving", "ended"}
  /\ http \in {"none", "serving", "ended"}
  /\ records \subseteq [name : Names, profile : Profiles, key : 1 .. MaxKey]

\* "Old DNS goodbyes and HTTP workers finish before switching"
\* (airtizen_runtime.c:70), "both TXT records and /info use that new key"
\* (docs/TV_STARTUP_TROUBLESHOOTING.md:63): whatever has been announced and not
\* been taken back describes the receiver that listens now, its name, profile and
\* key; after a stop nothing is left.
RecordsDescribeReceiver == records # {} => listening /\ records = {Record}

\* Whenever no call is in progress the receiver is up altogether or down altogether:
\* a start that fails half way is taken back.
AllOrNothing ==
  lock = Free => /\ started <=> listening
                 /\ started <=> advertising
                 /\ advertising <=> mdns # "none"
                 /\ ~(started /\ error)

\* Whatever the HTTP thread and the mDNS thread are doing, the owner gets down: no
\* join waits for a thread that waits for the joiner.
OwnerEnds == (phase = "down") ~> Ended

\* "Unique name/IP, no stale duplicate after stop" (docs/PRODUCTION_READINESS.md:58):
\* when the program ends, its records have been taken back.
NoStaleRecord == Ended => records = {}

-----------------------------------------------------------------------------
(* The inductive invariant behind RecordsDescribeReceiver and AllOrNothing. *)

\* How far the receiver is up.
Stands(runtime_, listener, responder) ==
  started = runtime_ /\ listening = listener /\ advertising = responder

\* How far the receiver is up at each step of the call in progress.
StagesKept ==
  \A t \in Callers :
    /\ pc[t] \in {"core_start", "set_profile"} => Stands(FALSE, FALSE, FALSE)
    /\ pc[t] \in {"mdns_start", "undo"} => Stands(FALSE, TRUE, FALSE)
    /\ pc[t] \in {"mdns_stop", "mdns_join"} => Stands(TRUE, TRUE, TRUE)
    /\ pc[t] = "core_stop" => Stands(TRUE, TRUE, FALSE)
    /\ pc[t] \in {"core_start", "mdns_start", "set_profile"} => ~error

\* Between two calls, and at the end of one, it is up altogether or down altogether.
WholeKept ==
  lock = Free \/ (\E t \in Callers : pc[t] = "unlock") =>
    /\ Stands(FALSE, FALSE, FALSE) \/ Stands(TRUE, TRUE, TRUE)
    /\ ~(started /\ error)

\* Records are out while the mDNS thread serves, and only then.
RecordsKept ==
  /\ advertising => listening
  /\ advertising <=> mdns # "none"
  /\ mdns = "serving" => records = {Record}
  /\ mdns # "serving" => records = {}

IInv == LockKept /\ StagesKept /\ WholeKept /\ RecordsKept
=============================================================================
