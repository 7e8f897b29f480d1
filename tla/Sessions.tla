------------------------------ MODULE Sessions ------------------------------
(***************************************************************************)
(* The sessions of senders and what the receiver shows of them: the        *)
(* callbacks of native/src/airtizen_core.c with g_state and g_sessions,    *)
(* the track of native/src/airtizen_metadata.c, and the request guard      *)
(* native/include/airtizen_raop_guard.h, under the threads that call them  *)
(* (third_party/AirPlayServerLib/lib as native/tools/                      *)
(* prepare_donor_sources.py changes it).                                   *)
(*                                                                         *)
(* One HTTP thread serves all connections, request after request.  A SETUP *)
(* with keys makes an object of two streams, audio and mirror; a SETUP of  *)
(* a stream starts its thread, and stopping it joins the thread.  What a   *)
(* request sets for the audio stream waits in the object until the audio   *)
(* thread takes it.  Every section of code under one lock is a step, and a *)
(* thread works off a list of such calls.                                  *)
(*                                                                         *)
(* Data abstraction.  A sender's name is its connection, a picture is the  *)
(* number of the request that brought it; codec, volume, byte counters and *)
(* the log are left out, and so is pairing.  AudioHost models the audio    *)
(* device, MirrorStream what a mirror thread does with its packets.  It is *)
(* taken that memory suffices, that select() does not fail, and that a     *)
(* TEARDOWN of one stream follows a SETUP (the handler asserts it).        *)
(***************************************************************************)
EXTENDS Integers, Sequences, FiniteSets

CONSTANTS
  Conns,       \* connections; one that is not open has no object, like a new one
  NoConn,      \* nobody
  MaxObjects,  \* bound: objects at a time, those left behind included
  MaxRequests  \* bound: requests, packets of audio, stops and starts

ASSUME ConnsAssumption == NoConn \notin Conns
ASSUME SessionBoundsAssumption == MaxObjects \in Nat /\ MaxRequests \in Nat

VARIABLES
  core,       \* running, leaving (stop called, last round of the HTTP thread), closing
              \* (it removes the connections), joined (it is gone), stopped
  owns,       \* conn->raop_rtp and conn->raop_rtp_mirror, made together
  peer,       \* the sender each object was made for
  stream,     \* each object's streams
  pending,    \* what waits in the object for the audio thread
  hand,       \* the calls the object's audio thread is making
  todo,       \* the calls the HTTP thread, or after it core_stop(), has to make
  sessions, connected, device, audio,  \* g_sessions, and of g_state
  opened,     \* the audio output is open
  track,      \* title and progress: whose they are
  artwork, version,   \* the picture (0: NULL) and state.artwork
  seen,       \* what the user interface's last status said of the picture
  requests

objects == <<owns, peer, stream, pending>>
state == <<sessions, connected, device, audio, opened>>
metadata == <<track, artwork, version>>
vars == <<core, objects, hand, todo, state, metadata, seen, requests>>

Objects == 1 .. MaxObjects
Kinds == {"audio", "mirror"}
None == 0

NoStreams == [k \in Kinds |-> "absent"]
NothingPending == [flush |-> FALSE, track |-> FALSE, artwork |-> 0]

Init ==
  /\ core = "running"
  /\ owns = [c \in Conns |-> None]
  /\ peer = [o \in Objects |-> NoConn]
  /\ stream = [o \in Objects |-> NoStreams]
  /\ pending = [o \in Objects |-> NothingPending]
  /\ hand = [o \in Objects |-> << >>]
  /\ todo = << >>
  /\ sessions = 0 /\ connected = FALSE /\ device = NoConn /\ audio = "idle"
  /\ opened = FALSE
  /\ track = NoConn /\ artwork = 0 /\ version = 0
  /\ seen = [version |-> 0, artwork |-> 0]
  /\ requests = 0

Call(op, o, k) == [op |-> op, o |-> o, k |-> k]
Do(op) == Call(op, None, "audio")
With(op, picture) == Call(op, picture, "audio")

-----------------------------------------------------------------------------
(* Requests, on the HTTP thread. *)

Counted == requests < MaxRequests /\ requests' = requests + 1

Idle == core \in {"running", "leaving"} /\ todo = << >>

\* raop_rtp_destroy() and raop_rtp_mirror_destroy(), as TEARDOWN and conn_destroy()
\* call them.
Destroy(o) ==
  IF o = None THEN << >>
  ELSE <<Call("stop", o, "audio"), Call("stop", o, "mirror"), Call("free", o, "audio")>>

\* conn_destroy(): the sender is gone, or the answer to its request ends the
\* connection, as every refusal does.
Close(c) ==
  /\ owns' = [owns EXCEPT ![c] = None]
  /\ todo' = Destroy(owns[c])
  /\ UNCHANGED <<core, peer, stream, pending, hand, state, metadata, seen>>

\* airtizen_validate_request(): a stream needs the object of the SETUP with keys.
Valid(c) == owns[c] # None

\* The sender closes, or sends what airtizen_validate_request() refuses for what it
\* is, or keys that cannot be decrypted.
End(c) == Idle /\ owns[c] # None /\ Counted /\ Close(c)

\* SETUP with keys.  An object the connection already has is not destroyed.
SetupKeys(c) ==
  /\ Idle
  /\ Counted
  /\ \E o \in Objects :
       /\ stream[o] = NoStreams
       /\ \A p \in 1 .. o - 1 : stream[p] # NoStreams
       /\ owns' = [owns EXCEPT ![c] = o]
       /\ peer' = [peer EXCEPT ![o] = c]
       /\ stream' = [stream EXCEPT ![o] = [k \in Kinds |-> "off"]]
  /\ UNCHANGED <<core, pending, hand, todo, state, metadata, seen>>

\* SETUP of the audio stream: raop_rtp_configure_audio() refuses one that runs.
SetupAudio(c) ==
  /\ Idle
  /\ Counted
  /\ \/ Valid(c) /\ stream[owns[c]]["audio"] = "off"
        /\ todo' = <<Call("start", owns[c], "audio")>>
        /\ UNCHANGED <<core, objects, hand, state, metadata, seen>>
     \/ Valid(c) /\ stream[owns[c]]["audio"] # "off" /\ Close(c)
     \/ ~Valid(c) /\ Close(c)

\* SETUP of the mirror stream: one that runs is stopped first.
SetupMirror(c) ==
  /\ Idle
  /\ Counted
  /\ \/ Valid(c)
        /\ todo' = <<Call("stop", owns[c], "mirror"), Call("start", owns[c], "mirror")>>
        /\ UNCHANGED <<core, objects, hand, state, metadata, seen>>
     \/ ~Valid(c) /\ Close(c)

\* TEARDOWN of one stream.
TeardownStream(c, k) ==
  /\ Idle /\ owns[c] # None
  /\ Counted
  /\ todo' = <<Call("stop", owns[c], k)>>
  /\ UNCHANGED <<core, objects, hand, state, metadata, seen>>

\* TEARDOWN without a stream.
Teardown(c) ==
  /\ Idle /\ owns[c] # None
  /\ Counted
  /\ owns' = [owns EXCEPT ![c] = None]
  /\ todo' = Destroy(owns[c])
  /\ UNCHANGED <<core, peer, stream, pending, hand, state, metadata, seen>>

\* FLUSH, and SET_PARAMETER with track or picture: left in the object, where a later
\* one replaces it.
Set(c, what) ==
  /\ Idle /\ owns[c] # None
  /\ Counted
  /\ pending' = [pending EXCEPT ![owns[c]] =
       CASE what = "flush" -> [@ EXCEPT !.flush = TRUE]
         [] what = "track" -> [@ EXCEPT !.track = TRUE]
         [] what = "artwork" -> [@ EXCEPT !.artwork = requests']]
  /\ UNCHANGED <<core, owns, peer, stream, hand, todo, state, metadata, seen>>

-----------------------------------------------------------------------------
(* Calls that several threads make; `rest' is the caller's list after them. *)

\* cb_audio_flush(), its two sections.
AudioClose == opened' = FALSE /\ UNCHANGED <<sessions, connected, device, audio, metadata>>
AudioIdle == audio' = "idle" /\ UNCHANGED <<sessions, connected, device, opened, metadata>>

\* Mutant: the picture's number starts again.
MetadataReset_forgets ==
  /\ track' = NoConn /\ artwork' = 0 /\ version' = 0
  /\ UNCHANGED state

\* airtizen_metadata_reset()
MetadataReset ==
  /\ track' = NoConn /\ artwork' = 0 /\ version' = version + 1
  /\ UNCHANGED state

\* airtizen_metadata_parse() and _progress(), airtizen_metadata_artwork(): what is
\* malformed changes nothing.
TrackSet(c) ==
  /\ track' \in {track, c}
  /\ UNCHANGED <<artwork, version, state>>
ArtworkSet(picture) ==
  /\ \/ artwork' = picture /\ version' = version + 1
     \/ UNCHANGED <<artwork, version>>
  /\ UNCHANGED <<track, state>>

-----------------------------------------------------------------------------
(* The calls of the HTTP thread. *)

Flushes == <<Do("audio_close"), Do("audio_idle"), Do("metadata_reset")>>

\* raop_rtp_start_audio(), raop_rtp_start_mirror() and cb_connected(): the sockets may
\* not be had, and the stream does not run.
StartStream(o, k) ==
  /\ \/ /\ stream' = [stream EXCEPT ![o][k] = "on"]
        /\ sessions' = sessions + 1
        /\ connected' = TRUE
        /\ device' = peer[o]
     \/ UNCHANGED <<stream, sessions, connected, device>>
  /\ todo' = Tail(todo)
  /\ UNCHANGED <<owns, peer, pending, hand, audio, opened, metadata>>

\* Mutant: a stream that does not run is reported disconnected all the same.
StopStream_reports(o, k) ==
  /\ stream' = [stream EXCEPT ![o][k] = "ending"]
  /\ todo' = <<Call("join", o, k), Call("disconnected", o, k)>> \o Tail(todo)
  /\ UNCHANGED <<owns, peer, pending, hand, state, metadata>>

\* raop_rtp_stop(), raop_rtp_mirror_stop(): clear `running', then join; nothing if the
\* stream does not run.
StopStream(o, k) ==
  /\ \/ /\ stream[o][k] = "on"
        /\ stream' = [stream EXCEPT ![o][k] = "ending"]
        /\ todo' = <<Call("join", o, k), Call("disconnected", o, k)>> \o Tail(todo)
     \/ /\ stream[o][k] = "off"
        /\ todo' = Tail(todo)
        /\ UNCHANGED stream
  /\ UNCHANGED <<owns, peer, pending, hand, state, metadata>>

\* Mutant: the audio thread is not waited for.
Joinable_always(o, k) == TRUE

\* A thread looks at `running' between its calls; a mirror thread's last report is
\* made before its stream is joined.
Joinable(o, k) == k = "audio" => hand[o] = << >>

JoinStream(o, k) ==
  /\ Joinable(o, k)
  /\ stream' = [stream EXCEPT ![o][k] = "joined"]
  /\ todo' = Tail(todo)
  /\ UNCHANGED <<owns, peer, pending, hand, state, metadata>>

\* Mutant: every disconnect clears.
Last_always == TRUE

\* Is the session that ends the last one?
Last == sessions <= 1

\* cb_disconnected() under g_lock; what follows if it was the last.  core_stop() calls
\* it once more, for no stream.
Disconnected(o, k) ==
  /\ sessions' = IF sessions = 0 THEN 0 ELSE sessions - 1
  /\ connected' = (connected /\ ~Last)
  /\ device' = IF Last THEN NoConn ELSE device
  /\ todo' = (IF Last THEN Flushes ELSE << >>) \o Tail(todo)
  /\ stream' = IF o = None THEN stream ELSE [stream EXCEPT ![o][k] = "off"]
  /\ UNCHANGED <<owns, peer, pending, hand, audio, opened, metadata>>

\* free()
Free(o) ==
  /\ stream' = [stream EXCEPT ![o] = NoStreams]
  /\ peer' = [peer EXCEPT ![o] = NoConn]
  /\ pending' = [pending EXCEPT ![o] = NothingPending]
  /\ todo' = Tail(todo)
  /\ UNCHANGED <<owns, hand, state, metadata>>

\* Calls that touch no object.
Plain(op) ==
  /\ \/ op = "audio_close" /\ AudioClose
     \/ op = "audio_idle" /\ AudioIdle
     \/ op = "metadata_reset" /\ MetadataReset
  /\ todo' = Tail(todo)
  /\ UNCHANGED <<objects, hand>>

Work ==
  /\ todo # << >>
  /\ LET call == Head(todo)
     IN  \/ call.op = "start" /\ StartStream(call.o, call.k)
         \/ call.op = "stop" /\ StopStream(call.o, call.k)
         \/ call.op = "join" /\ JoinStream(call.o, call.k)
         \/ call.op = "disconnected" /\ Disconnected(call.o, call.k)
         \/ call.op = "free" /\ Free(call.o)
         \/ Plain(call.op)
  /\ UNCHANGED <<core, seen, requests>>

-----------------------------------------------------------------------------
(* The threads of the streams. *)

\* The calls for what waits, in the order of raop_rtp_process_events().
Events(p) ==
  (IF p.flush THEN <<Do("audio_close"), Do("audio_idle")>> ELSE << >>) \o
  (IF p.track THEN <<Do("track")>> ELSE << >>) \o
  (IF p.artwork # 0 THEN <<With("artwork", p.artwork)>> ELSE << >>)

\* Mutant: what waits is taken when a packet comes.
Loop_packetsOnly(o) ==
  /\ stream[o]["audio"] = "on" /\ hand[o] = << >>
  /\ hand' = [hand EXCEPT ![o] = Append(Events(pending[o]), Do("pcm"))] /\ Counted
  /\ pending' = [pending EXCEPT ![o] = NothingPending]
  /\ UNCHANGED <<core, owns, peer, stream, todo, state, metadata, seen>>

\* raop_rtp_thread_udp(): take what waits, then a packet if one has come.
Loop(o) ==
  /\ stream[o]["audio"] = "on" /\ hand[o] = << >>
  /\ \/ hand' = [hand EXCEPT ![o] = Append(Events(pending[o]), Do("pcm"))] /\ Counted
     \/ /\ pending[o] # NothingPending
        /\ hand' = [hand EXCEPT ![o] = Events(pending[o])]
        /\ UNCHANGED requests
  /\ pending' = [pending EXCEPT ![o] = NothingPending]
  /\ UNCHANGED <<core, owns, peer, stream, todo, state, metadata, seen>>

\* cb_audio_process() under g_audio_lock: opening or writing may fail.
Pcm(o) ==
  /\ \/ opened' = TRUE /\ hand' = [hand EXCEPT ![o] = <<Do("playing")>>]
     \/ opened' \in BOOLEAN /\ hand' = [hand EXCEPT ![o] = <<Do("failed")>>]
  /\ UNCHANGED <<sessions, connected, device, audio, metadata>>

\* cb_audio_process() under g_lock, and fail().
Playing(o) ==
  /\ connected' = TRUE /\ device' = peer[o] /\ audio' = "playing"
  /\ UNCHANGED <<sessions, opened, metadata>>
Failed == audio' = "failed" /\ UNCHANGED <<sessions, connected, device, opened, metadata>>

ThreadStep(o) ==
  /\ hand[o] # << >>
  /\ LET call == Head(hand[o])
     IN  \/ call.op = "pcm" /\ Pcm(o)
         \/ /\ \/ call.op = "audio_close" /\ AudioClose
               \/ call.op = "audio_idle" /\ AudioIdle
               \/ call.op = "track" /\ TrackSet(peer[o])
               \/ call.op = "artwork" /\ ArtworkSet(call.o)
               \/ call.op = "playing" /\ Playing(o)
               \/ call.op = "failed" /\ Failed
            /\ hand' = [hand EXCEPT ![o] = Tail(@)]
  /\ UNCHANGED <<core, objects, todo, seen, requests>>

\* cb_video_process() under g_lock, of a mirror thread that is not joined.
MirrorReport(o) ==
  /\ stream[o]["mirror"] \in {"on", "ending"}
  /\ connected' = TRUE /\ device' = peer[o]
  /\ UNCHANGED <<core, objects, hand, todo, sessions, audio, opened, metadata, seen, requests>>

-----------------------------------------------------------------------------
(* airtizen_core_stop() and airtizen_core_start() *)

\* raop_stop() tells the HTTP thread.
StopBegin ==
  /\ core = "running"
  /\ Counted
  /\ core' = "leaving"
  /\ UNCHANGED <<objects, hand, todo, state, metadata, seen>>

\* httpd_thread() leaves its loop and removes the connections; then core_stop() goes on.
Leave ==
  /\ todo = << >>
  /\ \/ /\ core = "leaving"
        /\ core' = "closing"
        /\ UNCHANGED <<objects, hand, todo, state, metadata, seen>>
     \/ core = "closing" /\ \E c \in Conns : owns[c] # None /\ Close(c)
     \/ /\ core = "closing" /\ \A c \in Conns : owns[c] = None
        /\ core' = "joined"
        /\ todo' = <<Do("disconnected"), Do("metadata_reset")>>
        /\ UNCHANGED <<objects, hand, state, metadata, seen>>
  /\ UNCHANGED requests

StopEnd ==
  /\ core = "joined" /\ todo = << >>
  /\ core' = "stopped"
  /\ UNCHANGED <<objects, hand, todo, state, metadata, seen, requests>>

\* The listener may not be had.
Start ==
  /\ core = "stopped"
  /\ Counted
  /\ sessions' = 0 /\ connected' = FALSE /\ device' = NoConn
  /\ \/ core' = "running" /\ audio' = "idle"
     \/ core' = "stopped" /\ audio' = "failed"
  /\ UNCHANGED <<objects, hand, todo, opened, metadata, seen>>

-----------------------------------------------------------------------------
(* The control HTTP thread: status and picture. *)

\* airtizen_metadata_snapshot()
Status ==
  /\ artwork # 0
  /\ seen' = [version |-> version, artwork |-> artwork]
  /\ UNCHANGED <<core, objects, hand, todo, state, metadata, requests>>

\* airtizen_metadata_copy_artwork(): GET /artwork/<number>
Served(number) == IF number = version THEN artwork ELSE 0

Next ==
  \/ \E c \in Conns :
       \/ End(c) \/ SetupKeys(c) \/ SetupAudio(c) \/ SetupMirror(c)
       \/ \E k \in Kinds : TeardownStream(c, k)
       \/ Teardown(c)
       \/ \E what \in {"flush", "track", "artwork"} : Set(c, what)
  \/ Work
  \/ \E o \in Objects :
       Loop(o) \/ ThreadStep(o) \/ MirrorReport(o)
  \/ StopBegin \/ Leave \/ StopEnd \/ Start
  \/ Status

\* The threads go on with what they have begun, an audio thread looks after what waits
\* for it every millisecond, and a stop that was called goes on.
Fairness ==
  /\ WF_vars(Work) /\ WF_vars(Leave) /\ WF_vars(StopEnd)
  /\ \A o \in Objects :
       WF_vars(ThreadStep(o)) /\ WF_vars(Loop(o))

Spec == Init /\ [][Next]_vars /\ Fairness

-----------------------------------------------------------------------------
(* Properties. *)

\* The streams that have been reported connected and not disconnected.
Live == {s \in Objects \X Kinds : stream[s[1]][s[2]] \in {"on", "ending", "joined"}}

\* An object that no connection has and nobody is about to free.
LeftBehind(o) ==
  /\ stream[o] # NoStreams
  /\ \A c \in Conns : owns[c] # o
  /\ \A i \in DOMAIN todo : todo[i].op = "free" => todo[i].o # o
AllOwned == \A o \in Objects : ~LeftBehind(o)

\* g_sessions is the number of streams that run, whichever connections start, replace,
\* tear down and lose them and in whichever order: it neither runs away from them nor
\* is held up by the guard against underflow (airtizen_core.c:74, 92).
SessionsCounted ==
  AllOwned /\ core \in {"running", "leaving", "closing"} => sessions = Cardinality(Live)

\* When the last stream has ended and its disconnect is carried out, nothing is left of
\* the session: not connected, nobody's name, no track, no picture, an idle and closed
\* audio output.  No thread of any session, with a packet or an event in hand, comes
\* after it (airtizen_core.c:89-98, 133-143), and test_core.c:73 asserts it of a stop:
\* `assert(!state.running && !state.connected)'.
NobodyLeft ==
  AllOwned /\ Live = {} /\ todo = << >> =>
    /\ ~connected /\ device = NoConn
    /\ audio = "idle" \/ (core = "stopped" /\ audio = "failed")
    /\ ~opened
    /\ track = NoConn /\ artwork = 0

\* A number the user interface was told names one picture: what it gets for it later
\* is that picture or nothing, whatever was set, reset or restarted in between.
NumberNamesPicture ==
  seen.version # 0 => Served(seen.version) \in {seen.artwork, 0}

\* A session that goes on keeps its track and picture: they are cleared only when no
\* stream runs, although cb_disconnected() decides under one lock and clears under
\* two others (airtizen_core.c:92-96).
OthersKeepTrack ==
  [][AllOwned /\ ((artwork # 0 /\ artwork' = 0) \/ (track # NoConn /\ track' = NoConn))
       => Live = {}]_vars

\* What a request sets for a stream that runs reaches the audio thread's callbacks,
\* even if the sender sends no audio, unless the stream ends first.
SetIsTaken ==
  \A o \in Objects :
    pending[o] # NothingPending /\ stream[o]["audio"] = "on" ~>
      pending[o] = NothingPending \/ stream[o]["audio"] # "on"

-----------------------------------------------------------------------------
(* The inductive invariants behind these properties. *)

HttpCalls ==
  [op : {"start", "stop", "join", "disconnected", "free",
         "audio_close", "audio_idle", "metadata_reset"},
   o : Objects \cup {None}, k : Kinds]
ThreadCalls ==
  [op : {"pcm", "audio_close", "audio_idle", "track", "artwork", "playing", "failed"},
   o : Nat, k : Kinds]

\* The types of what the threads share.
TypeOK ==
  /\ core \in {"running", "leaving", "closing", "joined", "stopped"}
  /\ owns \in [Conns -> Objects \cup {None}]
  /\ peer \in [Objects -> Conns \cup {NoConn}]
  /\ stream \in [Objects -> [Kinds -> {"absent", "off", "on", "ending", "joined"}]]
  /\ pending \in [Objects -> [flush : BOOLEAN, track : BOOLEAN, artwork : Nat]]
  /\ hand \in [Objects -> Seq(ThreadCalls)]
  /\ todo \in Seq(HttpCalls)
  /\ sessions \in Nat /\ requests \in Nat

\* The picture's number: it never goes back, and a number that was told still goes
\* with the picture it was told for.
PictureKept ==
  /\ version \in Nat /\ seen.version \in Nat
  /\ seen.version <= version
  /\ seen.version # 0 /\ seen.version = version => artwork = seen.artwork

\* An object has both its streams or neither, and a sender; only the thread of a
\* stream that is not joined has calls in hand; who owns an object owns one that is there,
\* alone.
ObjectsKept ==
  /\ \A o \in Objects :
       /\ \A k \in Kinds : stream[o][k] = "absent" => stream[o] = NoStreams
       /\ stream[o] # NoStreams => peer[o] \in Conns
       /\ hand[o] # << >> => stream[o]["audio"] \in {"on", "ending"}
       /\ \A i \in DOMAIN hand[o] : hand[o][i].op = "artwork" => hand[o][i].o # 0
  /\ \A c \in Conns : owns[c] # None =>
       stream[owns[c]] # NoStreams /\ \A d \in Conns : owns[d] = owns[c] => d = c

\* Before call i of the HTTP thread is made, the stream does not run.
OffBefore(i, o, k) ==
  \/ stream[o][k] = "off"
  \/ \E j \in 1 .. i - 1 : todo[j].op \in {"stop", "disconnected"} /\ todo[j].o = o /\ todo[j].k = k

\* The calls of the HTTP thread come in an order that suits the streams: a thread is
\* joined, then reported; a stream is started, and an object freed, by the last call
\* of a list and with no stream in the way,
\* nor a connection that owns it.  core_stop() makes its own list.
CallKept(i) ==
  LET call == todo[i]
  IN  /\ call.op = "join" =>
           /\ i = 1 /\ Len(todo) > 1 /\ todo[2] = [call EXCEPT !.op = "disconnected"]
           /\ call.o # None /\ stream[call.o][call.k] = "ending"
      /\ call.op = "disconnected" /\ call.o # None =>
           \/ i = 1 /\ stream[call.o][call.k] = "joined"
           \/ i = 2 /\ todo[1] = [call EXCEPT !.op = "join"]
      /\ call.op = "disconnected" /\ call.o = None => i = 1 /\ core = "joined"
      /\ call.op = "stop" => call.o # None
      /\ call.op = "start" => i = Len(todo) /\ call.o # None /\ OffBefore(i, call.o, call.k)
      /\ call.op = "free" =>
           /\ i = Len(todo) /\ call.o # None /\ \A k \in Kinds : OffBefore(i, call.o, k)
           /\ \A c \in Conns : owns[c] # call.o
      /\ core = "joined" => call.op \in {"disconnected", "audio_close", "audio_idle", "metadata_reset"}
CallsKept == \A i \in DOMAIN todo : CallKept(i)

\* Once core_stop() has joined the HTTP thread no connection has an object.
StopKept ==
  /\ core \in {"joined", "stopped"} => \A c \in Conns : owns[c] = None
  /\ core = "stopped" => todo = << >>

Ahead(op) == \E i \in DOMAIN todo : todo[i].op = op

\* While anything is left to clear it is nobody's, and what is not cleared when the
\* last stream has ended is about to be.
ClearedKept ==
  AllOwned =>
    /\ Ahead("audio_close") \/ Ahead("audio_idle") \/ Ahead("metadata_reset") => Live = {}
    /\ Live = {} =>
         /\ ~connected /\ device = NoConn
         /\ audio = "idle" \/ (core = "stopped" /\ audio = "failed") \/ Ahead("audio_idle")
         /\ ~opened \/ Ahead("audio_close")
         /\ (track = NoConn /\ artwork = 0) \/ Ahead("metadata_reset")

IInv == TypeOK /\ ObjectsKept /\ CallsKept /\ StopKept /\ SessionsCounted /\ ClearedKept
=============================================================================
