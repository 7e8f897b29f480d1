---------------------------- MODULE SharedMedia -----------------------------
(***************************************************************************)
(* What the TV shows: a photo, a film shared by its URL, or the sender's   *)
(* screen, and what senders are told of it.  The state is in three stores, *)
(* each with a lock of its own (native/src/airtizen_photo.c,               *)
(* airtizen_playback.c and airtizen_video.c).  No lock spans two of them:  *)
(* whoever shows something dismisses the rest by further calls, and the    *)
(* calls of the AirPlay HTTP thread (native/include/                       *)
(* airtizen_airplay_http.h), of the mirroring thread (cb_video_process of  *)
(* airtizen_core.c) and of the thread that stops the receiver              *)
(* (airtizen_runtime.c) come in any order.  A handler is a script of       *)
(* calls; every call is a step.                                            *)
(*                                                                         *)
(* The reverse channel (native/include/airtizen_reverse.h), which the HTTP *)
(* thread polls between requests, tells one sender about it.               *)
(*                                                                         *)
(* Data abstraction.  Of a photo its session, id and generation are kept   *)
(* (PhotoCache has the images), of the mirrored screen whether there is a  *)
(* configuration (VideoStore has the fragments), of a film whether it is   *)
(* loading, paused or playing.  Requests the receiver refuses are left     *)
(* out: they call nothing of the above.                                    *)
(***************************************************************************)
EXTENDS Naturals, Sequences, FiniteSets

CONSTANTS
  Sessions,   \* values of X-Apple-Session-ID
  Channels,   \* those whose senders ask for the reverse channel
  MaxChanges  \* bound: requests, configurations, reports, stops

ASSUME SessionsAssumption == Sessions # {} /\ Channels \subseteq Sessions
ASSUME MaxChangesAssumption == MaxChanges \in Nat

VARIABLES
  photo, session_counter,  \* state of airtizen_photo.c
  playback,   \* state of airtizen_playback.c
  video,      \* airtizen_video.c has a configuration
  todo,       \* the calls each thread has still to make
  core,       \* running, stopping or stopped
  reverse,    \* the event channel is open
  event_session, event_state, event_generation,
  event_waiting,              \* an event waits for its answer
  photo_seen, photo_session,  \* the photo session the channel observes
  look,       \* what a poll has read of playback
  told,       \* what the sender was told last
  owed,       \* ids of sessions observed whose end was not told
  changes

media == <<photo, session_counter, playback, video>>
channel == <<reverse, event_session, event_state, event_generation, event_waiting,
             photo_seen, photo_session, look, told, owed>>
vars == <<media, todo, core, channel, changes>>

Threads == {"httpd", "mirror", "control"}
Nobody == "nobody"

NoPhoto(generation) == [active |-> FALSE, failed |-> FALSE, session |-> Nobody, id |-> 0,
                        generation |-> generation]
NoFilm(generation) == [active |-> FALSE, ready |-> FALSE, failed |-> FALSE, rate |-> 0,
                       generation |-> generation]

Init ==
  /\ photo = NoPhoto(0) /\ session_counter = 0
  /\ playback = NoFilm(0)
  /\ video = FALSE
  /\ todo = [t \in Threads |-> << >>]
  /\ core = "running"
  /\ reverse = FALSE /\ event_session = Nobody /\ event_state = 0 /\ event_generation = 0
  /\ event_waiting = FALSE /\ photo_seen = FALSE /\ photo_session = 0
  /\ look = NoFilm(0) /\ told = "stopped" /\ owed = {}
  /\ changes = 0

-----------------------------------------------------------------------------
(* The handlers, as scripts of calls. *)

PutPhoto(s) == << <<"photo_put", s>>, <<"playback_stop">>, <<"video_reset">> >>
Play == << <<"playback_play">>, <<"photo_reset">> >>
StopRequest == << <<"playback_stop">>, <<"photo_reset">> >>
Rate(r) == << <<"playback_rate", r>> >>
Upgrade(s) == << <<"upgrade", s>>, <<"observe">> >>
PollScript == << <<"look">>, <<"tell">> >>
CoreStop == << <<"video_reset">>, <<"playback_stop">>, <<"photo_reset">> >>

\* Mutant: the other media are dismissed first.
Configure_dismissFirst == << <<"photo_reset">>, <<"playback_stop">>, <<"video_configure">> >>

\* cb_video_process() with a configuration.
Configure == << <<"video_configure">>, <<"photo_reset">>, <<"playback_stop">> >>

ChannelClosed == << <<"video_reset">> >>

Counted == changes < MaxChanges /\ changes' = changes + 1

\* A request on one of the connections of the AirPlay HTTP thread.
Request(script) ==
  /\ core = "running" /\ todo["httpd"] = << >>
  /\ Counted
  /\ todo' = [todo EXCEPT !["httpd"] = script]
  /\ UNCHANGED <<media, core, channel>>

\* A packet or the end of a mirroring channel.
Mirror(script) ==
  /\ core = "running" /\ todo["mirror"] = << >>
  /\ Counted
  /\ todo' = [todo EXCEPT !["mirror"] = script]
  /\ UNCHANGED <<media, core, channel>>

-----------------------------------------------------------------------------
(* The calls. *)

\* airtizen_photo_put(): a session that comes to the screen gets a new id.
PhotoId(s) == IF ~photo.active \/ photo.session # s THEN session_counter + 1 ELSE photo.id

PhotoPut(s) ==
  /\ photo' = [active |-> TRUE, failed |-> FALSE, session |-> s, id |-> PhotoId(s),
               generation |-> photo.generation + 1]
  /\ session_counter' = IF PhotoId(s) = photo.id THEN session_counter ELSE session_counter + 1
  /\ UNCHANGED <<playback, video, channel>>

PhotoReset ==
  /\ photo' = NoPhoto(photo.generation + 1)
  /\ UNCHANGED <<session_counter, playback, video, channel>>

PlaybackPlay ==
  /\ playback' = [active |-> TRUE, ready |-> FALSE, failed |-> FALSE, rate |-> 1,
                  generation |-> playback.generation + 1]
  /\ UNCHANGED <<photo, session_counter, video, channel>>

PlaybackStop ==
  /\ playback' = NoFilm(playback.generation + 1)
  /\ UNCHANGED <<photo, session_counter, video, channel>>

PlaybackRate(r) ==
  /\ playback' = [playback EXCEPT !.rate = r]
  /\ UNCHANGED <<photo, session_counter, video, channel>>

VideoConfigure == video' = TRUE /\ UNCHANGED <<photo, session_counter, playback, channel>>

VideoReset == video' = FALSE /\ UNCHANGED <<photo, session_counter, playback, channel>>

-----------------------------------------------------------------------------
(* The reverse channel. *)

\* 0 stopped, 1 loading, 2 paused, 3 playing.
State(film) == IF ~film.active \/ film.failed THEN 0
               ELSE IF ~film.ready THEN 1
               ELSE IF film.rate = 0 THEN 2 ELSE 3

Name(state) == <<"stopped", "loading", "paused", "playing">>[state + 1]

\* The channel's session has a photo on the screen.
OwnPhoto == photo.active /\ ~photo.failed /\ photo.session = event_session

\* airtizen_reverse_upgrade() up to its look at the photo.
UpgradeCall(s) ==
  /\ reverse' = TRUE
  /\ event_session' = s
  /\ event_generation' = playback.generation
  /\ event_state' = IF playback.active THEN 9 ELSE 0   \* 9: the code's -1
  /\ event_waiting' = FALSE /\ photo_seen' = FALSE /\ photo_session' = 0
  /\ told' = "stopped" /\ owed' = {}
  /\ UNCHANGED <<media, look>>

Observed ==
  /\ photo_seen' = TRUE
  /\ photo_session' = photo.id
  /\ owed' = owed \cup {photo.id}
  /\ UNCHANGED <<event_state, event_generation, event_waiting, told>>

\* The rest of airtizen_reverse_upgrade().
ObserveCall ==
  /\ IF OwnPhoto THEN Observed
     ELSE UNCHANGED <<event_state, event_generation, event_waiting, photo_seen, photo_session,
                      told, owed>>
  /\ UNCHANGED <<media, reverse, event_session, look>>

\* airtizen_reverse_poll() up to its look at the photo.
LookCall ==
  /\ look' = playback
  /\ UNCHANGED <<media, reverse, event_session, event_state, event_generation, event_waiting,
                 photo_seen, photo_session, told, owed>>

\* Mutant: films are told apart by their generation alone.
News_generationOnly == photo_seen \/ look.generation # event_generation

\* There is something to tell.
News == photo_seen \/ State(look) # event_state \/ look.generation # event_generation

\* The event of one poll.
Tell ==
  /\ told' = IF photo_seen THEN "photo stopped" ELSE Name(State(look))
  /\ owed' = IF photo_seen THEN owed \ {photo_session} ELSE owed
  /\ photo_seen' = FALSE
  /\ event_state' = State(look)
  /\ event_generation' = look.generation
  /\ event_waiting' = TRUE
  /\ UNCHANGED photo_session

\* The rest of airtizen_reverse_poll().
TellCall ==
  /\ \/ OwnPhoto /\ Observed
     \/ ~OwnPhoto /\ News /\ Tell
     \/ ~OwnPhoto /\ ~News
        /\ UNCHANGED <<event_state, event_generation, event_waiting, photo_seen, photo_session,
                       told, owed>>
  /\ look' = NoFilm(0)
  /\ UNCHANGED <<media, reverse, event_session>>

\* httpd_thread() polls its connections.
Poll ==
  /\ core = "running" /\ todo["httpd"] = << >>
  /\ reverse /\ ~event_waiting
  /\ todo' = [todo EXCEPT !["httpd"] = PollScript]
  /\ UNCHANGED <<media, core, channel, changes>>

\* The connection that is the channel is freed.
Disconnected ==
  /\ reverse' = FALSE /\ event_session' = Nobody /\ event_state' = 0 /\ event_generation' = 0
  /\ event_waiting' = FALSE /\ photo_seen' = FALSE /\ photo_session' = 0
  /\ look' = NoFilm(0) /\ told' = "stopped" /\ owed' = {}

\* The sender answers an event, ...
Answered ==
  /\ core = "running" /\ todo["httpd"] = << >> /\ reverse /\ event_waiting
  /\ event_waiting' = FALSE
  /\ UNCHANGED <<media, todo, core, reverse, event_session, event_state, event_generation,
                 photo_seen, photo_session, look, told, owed, changes>>

\* ... or the poll finds that it has not for ten seconds; senders also leave.
Removed ==
  /\ core = "running" /\ todo["httpd"] = << >> /\ reverse
  /\ Disconnected
  /\ UNCHANGED <<media, todo, core, changes>>

Call(c) ==
  \/ c[1] = "photo_put" /\ PhotoPut(c[2])
  \/ c[1] = "photo_reset" /\ PhotoReset
  \/ c[1] = "playback_play" /\ PlaybackPlay
  \/ c[1] = "playback_stop" /\ PlaybackStop
  \/ c[1] = "playback_rate" /\ PlaybackRate(c[2])
  \/ c[1] = "video_configure" /\ VideoConfigure
  \/ c[1] = "video_reset" /\ VideoReset
  \/ c[1] = "upgrade" /\ UpgradeCall(c[2])
  \/ c[1] = "observe" /\ ObserveCall
  \/ c[1] = "look" /\ LookCall
  \/ c[1] = "tell" /\ TellCall

\* The next call of a thread.
Step(t) ==
  /\ todo[t] # << >>
  /\ Call(Head(todo[t]))
  /\ todo' = [todo EXCEPT ![t] = Tail(@)]
  /\ UNCHANGED <<core, changes>>

-----------------------------------------------------------------------------
(* Reports of the TV's user interface, on the control HTTP thread: refused unless they
   are about what is shown.  A report is a record: generation, ready, failed, ended. *)

\* Mutant: whatever is reported is taken for what is shown.
Current_any(shown, report) == shown.active

Current(shown, report) == shown.active /\ report.generation = shown.generation

\* airtizen_photo_report()
PhotoReport(report) ==
  /\ photo' = IF Current(photo, report) THEN [photo EXCEPT !.failed = report.failed] ELSE photo
  /\ UNCHANGED <<session_counter, playback, video, channel>>

\* airtizen_playback_report()
PlaybackReport(report) ==
  LET over == report.ended \/ report.failed
  IN  /\ playback' = IF Current(playback, report)
                     THEN [playback EXCEPT !.failed = report.failed,
                                           !.active = ~over,
                                           !.ready = report.ready /\ ~over,
                                           !.rate = IF over THEN 0 ELSE @]
                     ELSE playback
      /\ UNCHANGED <<photo, session_counter, video, channel>>

\* Any user interface.
AnyReport ==
  /\ Counted
  /\ \E ready, failed, ended \in BOOLEAN, film \in BOOLEAN :
       LET report(shown) == [generation |-> shown.generation, ready |-> ready,
                             failed |-> failed, ended |-> ended]
       IN  IF film THEN PlaybackReport(report(playback)) ELSE PhotoReport(report(photo))
  /\ UNCHANGED <<todo, core>>

-----------------------------------------------------------------------------
(* Stopping and starting the receiver. *)

StopBegin ==
  /\ core = "running"
  /\ Counted
  /\ core' = "stopping"
  /\ UNCHANGED <<media, todo, channel>>

\* Mutant: only the HTTP thread is joined.
Joined_httpdOnly == todo["httpd"] = << >>

\* The HTTP thread and the mirroring thread have returned.
Joined == todo["httpd"] = << >> /\ todo["mirror"] = << >>

\* raop_stop() and raop_destroy() have returned; the connections are gone.
StopJoined ==
  /\ core = "stopping" /\ Joined
  /\ core' = "stopped"
  /\ todo' = [todo EXCEPT !["control"] = CoreStop]
  /\ Disconnected
  /\ UNCHANGED <<media, changes>>

Start ==
  /\ core = "stopped" /\ todo["control"] = << >>
  /\ Counted
  /\ core' = "running"
  /\ UNCHANGED <<media, todo, channel>>

\* The receiver's threads and its senders.
Receiver ==
  \/ \E s \in Sessions : Request(PutPhoto(s))
  \/ ~reverse /\ \E s \in Channels : Request(Upgrade(s))
  \/ Request(Play) \/ Request(StopRequest)
  \/ \E r \in {0, 1} : Request(Rate(r))
  \/ Mirror(Configure) \/ Mirror(ChannelClosed)
  \/ Poll \/ Answered \/ Removed
  \/ \E t \in Threads : Step(t)
  \/ StopJoined

Next == Receiver \/ StopBegin \/ Start \/ AnyReport

\* Every thread goes on: httpd_thread() polls at least every 50 ms when it has nothing
\* else to do, and an event that is not answered ends its channel.
Fairness ==
  /\ WF_vars(Step("httpd") \/ Poll \/ Answered \/ (event_waiting /\ Removed))
  /\ WF_vars(Step("mirror"))
  /\ WF_vars(Step("control") \/ StopJoined)

Spec == Init /\ [][Next]_vars /\ Fairness

-----------------------------------------------------------------------------
(* Properties. *)

Settled == \A t \in Threads : todo[t] = << >>

\* "URL playback and a new mirroring configuration dismiss photos; displayed photos
\* dismiss URL video and old mirror fragments" (docs/PHOTO_PROTOCOL.md:9): whatever
\* the order in which the calls of the threads met, once they are done a photo is
\* on screen alone.
PhotoAlone == Settled /\ photo.active => ~playback.active /\ ~video

\* "Back stops the receiver and clears the photo" (docs/PHOTO_PROTOCOL.md:9): no
\* call of a thread that was busy when the stop came shows anything after it.
StopClears ==
  core = "stopped" /\ todo["control"] = << >> => ~photo.active /\ ~playback.active /\ ~video

\* The sender at the other end of the reverse channel comes to know what became of
\* the film, unless its own photo is shown or the last it heard is that its photo
\* was stopped.
VideoStateTold == []<>(~reverse \/ OwnPhoto \/ told \in {"photo stopped", Name(State(playback))})

\* "Reverse PTTH channels observe a photo session and receive its `photo/stopped`
\* event with a numeric session ID" (docs/PHOTO_PROTOCOL.md:9).
PhotoStopTold == []<>(~reverse \/ \A id \in owed : OwnPhoto /\ photo.id = id)

-----------------------------------------------------------------------------
(* The inductive invariant behind the first two. *)

Dismissals == { <<"video_reset">>, <<"playback_stop">>, <<"photo_reset">> }
Calls ==
  Dismissals \cup { <<"playback_play">>, <<"video_configure">>, <<"observe">>, <<"look">>, <<"tell">> }
    \cup ({"photo_put", "upgrade"} \X Sessions) \cup ({"playback_rate"} \X {0, 1})

\* The types of the two stores, and of what the threads have still to do: a stop only
\* dismisses.
Photos == [active : BOOLEAN, failed : BOOLEAN, session : Sessions \cup {Nobody}, id : Nat,
           generation : Nat]
Films == [active : BOOLEAN, ready : BOOLEAN, failed : BOOLEAN, rate : {0, 1}, generation : Nat]
TypeOK ==
  /\ photo \in Photos /\ session_counter \in Nat
  /\ playback \in Films
  /\ video \in BOOLEAN
  /\ todo \in [Threads -> Seq(Calls)] /\ todo["control"] \in Seq(Dismissals)
  /\ core \in {"running", "stopping", "stopped"}

\* The script s has the call c still to come, after its place i.
After(s, i, c) == \E j \in DOMAIN s : j > i /\ s[j] = <<c>>

\* Who shows something goes on to dismiss what it may not be shown with.
Dismisses(s) ==
  \A i \in DOMAIN s :
    /\ s[i][1] = "photo_put" => After(s, i, "playback_stop") /\ After(s, i, "video_reset")
    /\ s[i][1] \in {"playback_play", "video_configure"} => After(s, i, "photo_reset")
ScriptsKept == \A t \in Threads : Dismisses(todo[t])

\* What is shown together is about to be dismissed, by one of the threads.
Owed(c) == \E t \in Threads : After(todo[t], 0, c)
AloneKept ==
  /\ photo.active /\ playback.active => Owed("photo_reset") \/ Owed("playback_stop")
  /\ photo.active /\ video => Owed("photo_reset") \/ Owed("video_reset")

\* A stop has waited for the threads that show, and works off its dismissals.
StopKept ==
  /\ core # "stopped" => todo["control"] = << >>
  /\ core = "stopped" =>
       /\ todo["httpd"] = << >> /\ todo["mirror"] = << >>
       /\ photo.active => After(todo["control"], 0, "photo_reset")
       /\ playback.active => After(todo["control"], 0, "playback_stop")
       /\ video => After(todo["control"], 0, "video_reset")

IInv == TypeOK /\ ScriptsKept /\ AloneKept /\ StopKept
=============================================================================
