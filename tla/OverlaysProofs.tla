--------------------------- MODULE OverlaysProofs ---------------------------
(***************************************************************************)
(* Proofs about SharedMedia and Overlays, for every set of sessions and    *)
(* every bound on requests and reports.                                    *)
(*                                                                         *)
(* The argument.  No lock spans two stores, so two media may be shown at   *)
(* once for a while; but whoever shows one has the calls that dismiss the  *)
(* others still to make (ScriptsKept).  So whenever a photo is active      *)
(* beside a film or a mirrored screen, some thread still owes a call that  *)
(* ends one of the two, and a call that another thread makes first cannot  *)
(* take that away (AloneKept).  A stop waits for both threads and then     *)
(* dismisses all three (StopKept).  None of this depends on the page:      *)
(* MediaStep is all that the receiver, a report or a poll can do.          *)
(*                                                                         *)
(* Reports carry the generation of the element's source (FilmKept) and say *)
(* that something is over only if it is (PostsKept), and a film that is    *)
(* shown again has another generation.                                     *)
(***************************************************************************)
EXTENDS Overlays, SequenceTheorems, TLAPS

-----------------------------------------------------------------------------
(* Scripts. *)

\* What is left of a script after its first call: the call after the first one, at a
\* place one earlier, and nothing else.
LEMMA Rest ==
  ASSUME NEW S, NEW s \in Seq(S), s # << >>
  PROVE  /\ Tail(s) \in Seq(S) /\ Head(s) \in S /\ Head(s) = s[1]
         /\ Len(s) \in Nat /\ Len(s) > 0
         /\ DOMAIN s = 1 .. Len(s) /\ DOMAIN Tail(s) = 1 .. Len(s) - 1
         /\ \A i \in 1 .. Len(s) - 1 : Tail(s)[i] = s[i + 1]
<1>1. Head(s) \in S /\ Tail(s) \in Seq(S) /\ Len(Tail(s)) = Len(s) - 1
      /\ \A i \in 1 .. Len(Tail(s)) : Tail(s)[i] = s[i + 1]
  BY HeadTailProperties
<1>2. Len(s) \in Nat /\ Len(s) > 0 /\ DOMAIN s = 1 .. Len(s) BY LenProperties, EmptySeq
<1>3. DOMAIN Tail(s) = 1 .. Len(Tail(s)) BY <1>1, LenProperties
<1>4. Head(s) = s[1] BY <1>2
<1>5. QED BY <1>1, <1>2, <1>3, <1>4

\* A call other than the first is still to come after the first one is made.
LEMMA AfterRest ==
  ASSUME NEW S, NEW s \in Seq(S), s # << >>, NEW c, NEW i \in Nat
  PROVE  After(Tail(s), i, c) <=> After(s, i + 1, c)
<1> USE Rest DEF After
<1>1. ASSUME NEW j \in DOMAIN Tail(s), j > i, Tail(s)[j] = <<c>>
      PROVE  j + 1 \in DOMAIN s /\ j + 1 > i + 1 /\ s[j + 1] = <<c>>
  BY <1>1
<1>2. ASSUME NEW j \in DOMAIN s, j > i + 1, s[j] = <<c>>
      PROVE  j - 1 \in DOMAIN Tail(s) /\ j - 1 > i /\ Tail(s)[j - 1] = <<c>>
  <2>1. j - 1 \in 1 .. Len(s) - 1 /\ j - 1 > i BY <1>2
  <2>2. QED BY <1>2, <2>1
<1>3. QED BY <1>1, <1>2

LEMMA AfterFirst ==
  ASSUME NEW S, NEW s \in Seq(S), s # << >>, NEW c
  PROVE  /\ After(s, 1, c) => After(s, 0, c)
         /\ After(s, 0, c) /\ s[1] # <<c>> => After(s, 1, c)
BY Rest DEF After

\* The rest of a script that dismisses does so too.
LEMMA DismissesRest ==
  ASSUME NEW S, NEW s \in Seq(S), s # << >>, Dismisses(s)
  PROVE  Dismisses(Tail(s))
<1> SUFFICES ASSUME NEW i \in DOMAIN Tail(s)
             PROVE  /\ Tail(s)[i][1] = "photo_put" =>
                         After(Tail(s), i, "playback_stop") /\ After(Tail(s), i, "video_reset")
                    /\ Tail(s)[i][1] \in {"playback_play", "video_configure"} =>
                         After(Tail(s), i, "photo_reset")
  BY DEF Dismisses
<1>1. i \in Nat /\ i + 1 \in DOMAIN s /\ Tail(s)[i] = s[i + 1] BY Rest
<1>2. /\ s[i + 1][1] = "photo_put" =>
           After(s, i + 1, "playback_stop") /\ After(s, i + 1, "video_reset")
      /\ s[i + 1][1] \in {"playback_play", "video_configure"} => After(s, i + 1, "photo_reset")
  BY <1>1 DEF Dismisses
<1>3. \A c : After(Tail(s), i, c) <=> After(s, i + 1, c) BY <1>1, AfterRest
<1>4. QED BY <1>1, <1>2, <1>3

\* Every handler is such a script.
LEMMA Scripts ==
  /\ \A s \in Sessions : PutPhoto(s) \in Seq(Calls) /\ Dismisses(PutPhoto(s))
  /\ \A s \in Channels : Upgrade(s) \in Seq(Calls) /\ Dismisses(Upgrade(s))
  /\ \A r \in {0, 1} : Rate(r) \in Seq(Calls) /\ Dismisses(Rate(r))
  /\ Play \in Seq(Calls) /\ Dismisses(Play)
  /\ StopRequest \in Seq(Calls) /\ Dismisses(StopRequest)
  /\ PollScript \in Seq(Calls) /\ Dismisses(PollScript)
  /\ Configure \in Seq(Calls) /\ Dismisses(Configure)
  /\ ChannelClosed \in Seq(Calls) /\ Dismisses(ChannelClosed)
  /\ CoreStop \in Seq(Dismissals) /\ CoreStop \in Seq(Calls) /\ Dismisses(CoreStop)
  /\ << >> \in Seq(Calls) /\ << >> \in Seq(Dismissals) /\ Dismisses(<< >>)
<1> USE SessionsAssumption DEF Dismisses, After, Calls, Dismissals
<1>1. \A s \in Sessions : PutPhoto(s) \in Seq(Calls) /\ Dismisses(PutPhoto(s)) BY DEF PutPhoto
<1>2. \A s \in Channels : Upgrade(s) \in Seq(Calls) /\ Dismisses(Upgrade(s)) BY DEF Upgrade
<1>3. \A r \in {0, 1} : Rate(r) \in Seq(Calls) /\ Dismisses(Rate(r)) BY DEF Rate
<1>4. Play \in Seq(Calls) /\ Dismisses(Play) BY DEF Play
<1>5. StopRequest \in Seq(Calls) /\ Dismisses(StopRequest) BY DEF StopRequest
<1>6. PollScript \in Seq(Calls) /\ Dismisses(PollScript) BY DEF PollScript
<1>7. Configure \in Seq(Calls) /\ Dismisses(Configure) BY DEF Configure
<1>8. ChannelClosed \in Seq(Calls) /\ Dismisses(ChannelClosed) BY DEF ChannelClosed
<1>9. CoreStop \in Seq(Dismissals) /\ CoreStop \in Seq(Calls) /\ Dismisses(CoreStop) BY DEF CoreStop
<1>10. << >> \in Seq(Calls) /\ << >> \in Seq(Dismissals) /\ Dismisses(<< >>) BY EmptySeq
<1>11. QED BY <1>1, <1>2, <1>3, <1>4, <1>5, <1>6, <1>7, <1>8, <1>9, <1>10

-----------------------------------------------------------------------------
(* Calls and reports. *)

\* What one call does: it shows only what its name says, and a dismissal dismisses.
LEMMA CallEffect ==
  ASSUME TypeOK, NEW c \in Calls, Call(c)
  PROVE  /\ photo' \in Photos /\ session_counter' \in Nat
         /\ playback' \in Films /\ video' \in BOOLEAN
         /\ photo'.active => photo.active \/ c[1] = "photo_put"
         /\ playback'.active => playback.active \/ c[1] = "playback_play"
         /\ video' => video \/ c[1] = "video_configure"
         /\ c = <<"photo_reset">> => ~photo'.active
         /\ c = <<"playback_stop">> => ~playback'.active
         /\ c = <<"video_reset">> => ~video'
<1> USE SessionsAssumption DEF TypeOK, Photos, Films
<1>1. CASE c[1] = "photo_put" /\ PhotoPut(c[2])
  <2>1. c[2] \in Sessions BY <1>1 DEF Calls, Dismissals
  <2>2. PhotoId(c[2]) \in Nat BY DEF PhotoId
  <2>3. QED BY <1>1, <2>1, <2>2 DEF PhotoPut
<1>2. CASE c[1] = "photo_reset" /\ PhotoReset BY <1>2 DEF PhotoReset, NoPhoto
<1>3. CASE c[1] = "playback_play" /\ PlaybackPlay BY <1>3 DEF PlaybackPlay
<1>4. CASE c[1] = "playback_stop" /\ PlaybackStop BY <1>4 DEF PlaybackStop, NoFilm
<1>5. CASE c[1] = "playback_rate" /\ PlaybackRate(c[2])
  <2>1. c[2] \in {0, 1} BY <1>5 DEF Calls, Dismissals
  <2>2. QED BY <1>5, <2>1 DEF PlaybackRate
<1>6. CASE c[1] = "video_configure" /\ VideoConfigure BY <1>6 DEF VideoConfigure
<1>7. CASE c[1] = "video_reset" /\ VideoReset
  <2>1. ~video' /\ video' \in BOOLEAN BY <1>7, Zenon DEF VideoReset
  <2>2. UNCHANGED <<photo, session_counter, playback>> BY <1>7 DEF VideoReset
  <2>3. QED BY <1>7, <2>1, <2>2
<1>8. CASE \/ c[1] = "upgrade" /\ UpgradeCall(c[2])
           \/ c[1] = "observe" /\ ObserveCall
           \/ c[1] = "look" /\ LookCall
           \/ c[1] = "tell" /\ TellCall
  BY <1>8 DEF UpgradeCall, ObserveCall, LookCall, TellCall, media
<1>9. QED BY <1>1, <1>2, <1>3, <1>4, <1>5, <1>6, <1>7, <1>8 DEF Call

\* A report of the page.
IsReport(report) ==
  /\ report.ready \in BOOLEAN /\ report.failed \in BOOLEAN /\ report.ended \in BOOLEAN

\* A report shows nothing.
LEMMA ReportEffect ==
  ASSUME TypeOK, NEW report, IsReport(report), PlaybackReport(report) \/ PhotoReport(report)
  PROVE  /\ photo' \in Photos /\ session_counter' \in Nat
         /\ playback' \in Films /\ video' \in BOOLEAN
         /\ photo'.active => photo.active
         /\ playback'.active => playback.active
         /\ video' => video
<1> USE DEF TypeOK, Photos, Films, IsReport
<1>1. CASE PlaybackReport(report) BY <1>1 DEF PlaybackReport, Current
<1>2. CASE PhotoReport(report) BY <1>2 DEF PhotoReport, Current
<1>3. QED BY <1>1, <1>2

-----------------------------------------------------------------------------
(* The receiver's steps. *)

\* A thread that is idle begins a handler.
LEMMA BeginStep ==
  ASSUME IInv, NEW t \in {"httpd", "mirror"}, NEW script \in Seq(Calls), Dismisses(script),
         core = "running", todo[t] = << >>, todo' = [todo EXCEPT ![t] = script],
         UNCHANGED <<media, core>>
  PROVE  IInv'
<1> USE DEF IInv, TypeOK, Threads, media
<1>1. todo' \in [Threads -> Seq(Calls)] /\ todo'[t] = script
      /\ \A u \in Threads \ {t} : todo'[u] = todo[u]
  OBVIOUS
<1>2. TypeOK' BY <1>1
<1>3. ScriptsKept' BY <1>1 DEF ScriptsKept
<1>4. \A c : Owed(c) => Owed(c)'
  <2>1. \A c : ~After(<< >>, 0, c) BY EmptySeq DEF After
  <2>2. QED BY <1>1, <2>1 DEF Owed
<1>5. AloneKept' BY <1>4 DEF AloneKept
<1>6. StopKept' BY <1>1 DEF StopKept
<1>7. QED BY <1>2, <1>3, <1>5, <1>6

\* A thread makes its next call.
LEMMA CallStep == ASSUME IInv, NEW t \in Threads, Step(t) PROVE IInv'
<1> DEFINE s == todo[t]
<1>1. s \in Seq(Calls) /\ s # << >> BY DEF Step, IInv, TypeOK
<1>2. s[1] \in Calls /\ Call(s[1]) /\ Tail(s) \in Seq(Calls) BY <1>1, Rest DEF Step
<1>3. todo' = [todo EXCEPT ![t] = Tail(s)] /\ core' = core BY DEF Step
<1>4. todo' \in [Threads -> Seq(Calls)] /\ todo'[t] = Tail(s)
      /\ \A u \in Threads \ {t} : todo'[u] = todo[u]
  BY <1>2, <1>3 DEF IInv, TypeOK
<1>5. /\ photo' \in Photos /\ session_counter' \in Nat
      /\ playback' \in Films /\ video' \in BOOLEAN
      /\ photo'.active => photo.active \/ s[1][1] = "photo_put"
      /\ playback'.active => playback.active \/ s[1][1] = "playback_play"
      /\ video' => video \/ s[1][1] = "video_configure"
      /\ s[1] = <<"photo_reset">> => ~photo'.active
      /\ s[1] = <<"playback_stop">> => ~playback'.active
      /\ s[1] = <<"video_reset">> => ~video'
  BY <1>2, CallEffect DEF IInv
<1>6. \A c : After(s, 1, c) => After(todo'[t], 0, c)
  BY <1>1, <1>4, AfterRest
<1>7. \A c : After(s, 0, c) /\ s[1] # <<c>> => After(todo'[t], 0, c)
  BY <1>1, <1>6, AfterFirst
<1>8. \A c : Owed(c) /\ s[1] # <<c>> => Owed(c)' BY <1>4, <1>7 DEF Owed
<1>9. \A c : After(s, 1, c) => Owed(c)' BY <1>6 DEF Owed
<1>10. Dismisses(s) BY DEF IInv, ScriptsKept
<1>11. /\ s[1][1] = "photo_put" => After(s, 1, "playback_stop") /\ After(s, 1, "video_reset")
       /\ s[1][1] \in {"playback_play", "video_configure"} => After(s, 1, "photo_reset")
  BY <1>1, <1>10, Rest DEF Dismisses
<1>12. TypeOK'
  <2>1. todo'["control"] \in Seq(Dismissals)
    <3>1. CASE t = "control"
      <4>1. s \in Seq(Dismissals) BY <3>1 DEF IInv, TypeOK
      <4>2. Tail(s) \in Seq(Dismissals) BY <4>1, <1>1, Rest
      <4>3. QED BY <3>1, <4>2, <1>4
    <3>2. CASE t # "control" BY <3>2, <1>4 DEF IInv, TypeOK, Threads
    <3>3. QED BY <3>1, <3>2
  <2>2. QED BY <1>3, <1>4, <1>5, <2>1 DEF IInv, TypeOK
<1>13. ScriptsKept' BY <1>1, <1>4, <1>10, DismissesRest DEF IInv, ScriptsKept
<1>14. AloneKept'
  <2>1. ASSUME photo'.active, playback'.active
        PROVE  Owed("photo_reset")' \/ Owed("playback_stop")'
    <3>1. CASE s[1][1] = "photo_put" BY <3>1, <1>9, <1>11
    <3>2. CASE s[1][1] = "playback_play" BY <3>2, <1>9, <1>11
    <3>3. CASE photo.active /\ playback.active
      BY <2>1, <3>3, <1>5, <1>8 DEF IInv, AloneKept
    <3>4. QED BY <2>1, <3>1, <3>2, <3>3, <1>5
  <2>2. ASSUME photo'.active, video' PROVE  Owed("photo_reset")' \/ Owed("video_reset")'
    <3>1. CASE s[1][1] = "photo_put" BY <3>1, <1>9, <1>11
    <3>2. CASE s[1][1] = "video_configure" BY <3>2, <1>9, <1>11
    <3>3. CASE photo.active /\ video
      BY <2>2, <3>3, <1>5, <1>8 DEF IInv, AloneKept
    <3>4. QED BY <2>2, <3>1, <3>2, <3>3, <1>5
  <2>3. QED BY <2>1, <2>2 DEF AloneKept
<1>15. StopKept'
  <2>1. CASE core # "stopped"
    <3>1. t # "control" BY <2>1, <1>1 DEF IInv, StopKept
    <3>2. QED BY <2>1, <3>1, <1>3, <1>4 DEF IInv, StopKept, Threads
  <2>2. CASE core = "stopped"
    <3>1. t = "control" BY <2>2, <1>1 DEF IInv, StopKept, Threads
    <3>2. s[1] \in Dismissals BY <3>1, <1>1, Rest DEF IInv, TypeOK
    <3>3. s[1][1] \notin {"photo_put", "playback_play", "video_configure"}
      BY <3>2 DEF Dismissals
    <3>4. QED BY <2>2, <3>1, <3>3, <1>3, <1>4, <1>5, <1>7 DEF IInv, StopKept, Threads
  <2>3. QED BY <2>1, <2>2
<1>16. QED BY <1>12, <1>13, <1>14, <1>15 DEF IInv

\* What a step of either specification is to the receiver: one of its own, a report,
\* or nothing.
MediaStep ==
  \/ Receiver \/ StopBegin \/ Start
  \/ /\ \E report : IsReport(report) /\ (PlaybackReport(report) \/ PhotoReport(report))
     /\ UNCHANGED <<todo, core>>
  \/ UNCHANGED <<media, todo, core>>

\* Every such step keeps the invariant.
LEMMA MediaStepIInv == IInv /\ MediaStep => IInv'
<1> SUFFICES ASSUME IInv, MediaStep PROVE IInv' OBVIOUS
<1>1. ASSUME NEW script \in Seq(Calls), Dismisses(script), Request(script) \/ Mirror(script)
      PROVE  IInv'
  BY <1>1, BeginStep DEF Request, Mirror
<1>2. CASE Poll BY <1>2, BeginStep, Scripts DEF Poll
<1>3. CASE UNCHANGED <<media, todo, core>>
  BY <1>3 DEF IInv, TypeOK, ScriptsKept, AloneKept, Owed, StopKept, media
<1>4. CASE Answered \/ Removed BY <1>3, <1>4 DEF Answered, Removed
<1>5. ASSUME NEW t \in Threads, Step(t) PROVE IInv' BY <1>5, CallStep
<1>6. CASE StopJoined
  <2>1. /\ todo["httpd"] = << >> /\ todo["mirror"] = << >>
        /\ todo' = [todo EXCEPT !["control"] = CoreStop] /\ core' = "stopped"
        /\ UNCHANGED media
    BY <1>6 DEF StopJoined, Joined
  <2>2. todo' \in [Threads -> Seq(Calls)] /\ todo'["control"] = CoreStop
        /\ todo'["httpd"] = << >> /\ todo'["mirror"] = << >>
    BY <2>1, Scripts DEF IInv, TypeOK, Threads
  <2>3. TypeOK' BY <2>1, <2>2, Scripts DEF IInv, TypeOK, media
  <2>4. ScriptsKept' BY <2>2, Scripts DEF ScriptsKept, Threads
  <2>5. /\ After(CoreStop, 0, "photo_reset") /\ After(CoreStop, 0, "playback_stop")
        /\ After(CoreStop, 0, "video_reset")
    BY DEF After, CoreStop
  <2>6. AloneKept' BY <2>2, <2>5 DEF AloneKept, Owed, Threads
  <2>7. StopKept' BY <2>1, <2>2, <2>5 DEF StopKept
  <2>8. QED BY <2>3, <2>4, <2>6, <2>7 DEF IInv
<1>7. CASE Receiver
  BY <1>1, <1>2, <1>4, <1>5, <1>6, <1>7, Scripts DEF Receiver
<1>8. CASE StopBegin \/ Start
  BY <1>8 DEF StopBegin, Start, IInv, TypeOK, ScriptsKept, AloneKept, Owed, StopKept, media
<1>9. ASSUME NEW report, IsReport(report), PlaybackReport(report) \/ PhotoReport(report),
             UNCHANGED <<todo, core>>
      PROVE  IInv'
  <2>1. /\ photo' \in Photos /\ session_counter' \in Nat
        /\ playback' \in Films /\ video' \in BOOLEAN
        /\ (photo'.active => photo.active) /\ (playback'.active => playback.active)
        /\ (video' => video)
    BY <1>9, ReportEffect DEF IInv
  <2>2. TypeOK' /\ ScriptsKept' BY <1>9, <2>1 DEF IInv, TypeOK, ScriptsKept
  <2>3. AloneKept' /\ StopKept' BY <1>9, <2>1 DEF IInv, AloneKept, Owed, StopKept
  <2>4. QED BY <2>2, <2>3 DEF IInv
<1>10. QED BY <1>3, <1>7, <1>8, <1>9 DEF MediaStep

\* The idle receiver.
LEMMA InitIInv == Init => IInv
<1> SUFFICES ASSUME Init PROVE IInv OBVIOUS
<1>1. todo \in [Threads -> Seq(Calls)] /\ \A t \in Threads : todo[t] = << >>
  BY Scripts DEF Init
<1>2. photo \in Photos /\ playback \in Films /\ session_counter \in Nat
      /\ core = "running" /\ ~photo.active
  BY DEF Init, Photos, Films, NoPhoto, NoFilm
<1>3. video \in BOOLEAN BY Zenon DEF Init
<1>4. TypeOK BY <1>1, <1>2, <1>3, Scripts DEF TypeOK, Threads
<1>5. ScriptsKept BY <1>1, Scripts DEF ScriptsKept
<1>6. AloneKept /\ StopKept BY <1>1, <1>2 DEF AloneKept, StopKept, Threads
<1>7. QED BY <1>4, <1>5, <1>6 DEF IInv

\* The receiver with any user interface, and with the overlays.
LEMMA NextIsMediaStep == [Next]_vars => MediaStep
<1> SUFFICES ASSUME [Next]_vars PROVE MediaStep OBVIOUS
<1>1. CASE AnyReport
  <2>1. PICK ready \in BOOLEAN, failed \in BOOLEAN, ended \in BOOLEAN, shared \in BOOLEAN :
          LET report(shown) == [generation |-> shown.generation, ready |-> ready,
                                failed |-> failed, ended |-> ended]
          IN  IF shared THEN PlaybackReport(report(playback)) ELSE PhotoReport(report(photo))
    BY <1>1 DEF AnyReport
  <2> DEFINE report(g) == [generation |-> g, ready |-> ready, failed |-> failed, ended |-> ended]
  <2>2. \A g : IsReport(report(g)) BY DEF IsReport
  <2>3. PlaybackReport(report(playback.generation)) \/ PhotoReport(report(photo.generation))
    BY <2>1
  <2>4. UNCHANGED <<todo, core>> BY <1>1 DEF AnyReport
  <2> HIDE DEF report
  <2>5. QED BY <2>2, <2>3, <2>4 DEF MediaStep
<1>2. CASE UNCHANGED vars BY <1>2 DEF vars, MediaStep
<1>3. QED BY <1>1, <1>2 DEF Next, MediaStep

LEMMA NextOverlaysIsMediaStep ==
  posts \subseteq Posts /\ [NextOverlays]_overlay_vars => MediaStep
<1> SUFFICES ASSUME posts \subseteq Posts, [NextOverlays]_overlay_vars PROVE MediaStep OBVIOUS
<1>1. CASE UNCHANGED <<media, todo, core>> BY <1>1 DEF MediaStep
<1>2. CASE UNCHANGED vars BY <1>1, <1>2 DEF vars
<1>3. CASE StatusFilm \/ StatusPhoto \/ Updated \/ PictureServed \/ PictureLoad \/ FilmEvent
  BY <1>2, <1>3 DEF StatusFilm, StatusPhoto, Updated, PictureServed, PictureLoad, FilmEvent
<1>4. CASE StatusLost BY <1>1, <1>4 DEF StatusLost
<1>5. CASE Reported
  <2>1. PICK post \in posts : PlaybackReport(post) \/ PhotoReport(post) BY <1>5 DEF Reported
  <2>2. IsReport(post) BY DEF Posts, IsReport
  <2>3. UNCHANGED <<todo, core>> BY <1>5 DEF Reported
  <2>4. QED BY <2>1, <2>2, <2>3 DEF MediaStep
<1>6. CASE Receiver \/ StopBegin \/ Start BY <1>6 DEF MediaStep
<1>7. CASE UNCHANGED overlay_vars BY <1>2, <1>7 DEF overlay_vars
<1>8. QED BY <1>3, <1>4, <1>5, <1>6, <1>7 DEF NextOverlays

-----------------------------------------------------------------------------
(* The page's steps. *)

\* A report that is sent is typed, and says that something is over only if it is.
LEMMA SendingKept ==
  ASSUME PostsKept, NEW kind \in {"film", "photo"}, NEW g \in Int, NEW ready \in BOOLEAN,
         NEW end \in {"no", "ended", "error"}, end # "no" => <<kind, g>> \in over',
         over \subseteq over', Sending(Post(kind, g, ready, end))
  PROVE  PostsKept'
<1> DEFINE post == Post(kind, g, ready, end)
<1>1. post \in Posts /\ post.kind = kind /\ post.generation = g
      /\ (post.failed \/ post.ended => end # "no")
  BY DEF Post, Posts
<1> HIDE DEF post
<1>2. posts' \subseteq posts \cup {post} BY DEF Sending, post
<1>3. QED BY <1>1, <1>2 DEF PostsKept

\* The page's own state: reports, the film's source, the picture.
LEMMA PageStep ==
  PageInv /\ [NextOverlays]_overlay_vars => PostsKept' /\ FilmKept' /\ PictureKept'
<1> SUFFICES ASSUME PageInv, [NextOverlays]_overlay_vars
             PROVE  PostsKept' /\ FilmKept' /\ PictureKept'
  OBVIOUS
<1> USE DEF PageInv
<1>1. CASE UNCHANGED page BY <1>1 DEF page, PostsKept, FilmKept, PictureKept
<1>2. CASE \/ Receiver /\ UNCHANGED page
           \/ status # "half" /\ (StopBegin \/ Start) /\ UNCHANGED page
           \/ UNCHANGED overlay_vars
  BY <1>1, <1>2 DEF overlay_vars
<1>said. NoneSaid \in [active : BOOLEAN, generation : Int] /\ ~NoneSaid.active
         /\ FilmSaid \in [active : BOOLEAN, generation : Int]
         /\ PhotoSaid \in [active : BOOLEAN, generation : Int]
  BY DEF NoneSaid, Nothing, FilmSaid, PhotoSaid, IInv, TypeOK, Photos, Films
<1>no. NoStatus \in [film : [active : BOOLEAN, generation : Int],
                     photo : [active : BOOLEAN, generation : Int]]
  BY <1>said DEF NoStatus
<1>3. CASE StatusFilm
  BY <1>3, <1>said, <1>no DEF StatusFilm, PostsKept, FilmKept, PictureKept
<1>4. CASE StatusPhoto
  BY <1>4, <1>said DEF StatusPhoto, PostsKept, FilmKept, PictureKept
<1>int. Nothing \in Int BY DEF Nothing
<1>film. ASSUME NEW s \in [active : BOOLEAN, generation : Int], film' = FilmUpdate(s)
         PROVE  FilmKept'
  <2>1. CASE ~s.active
    <3>1. film' = [Closed EXCEPT !.generation = s.generation] BY <1>film, <2>1 DEF FilmUpdate
    <3>2. film' = [active |-> FALSE, generation |-> s.generation, src |-> Nothing, end |-> "no"]
      BY <3>1 DEF Closed
    <3>3. QED BY <3>2, <1>int DEF FilmKept
  <2>2. CASE s.active /\ s.generation = film.generation
    <3>1. film' = [film EXCEPT !.active = TRUE] BY <1>film, <2>2 DEF FilmUpdate
    <3>2. QED BY <3>1 DEF FilmKept
  <2>3. CASE s.active /\ s.generation # film.generation
    <3>1. film' = [active |-> TRUE, generation |-> s.generation, src |-> s.generation, end |-> "no"]
      BY <1>film, <2>3 DEF FilmUpdate
    <3>2. QED BY <3>1 DEF FilmKept
  <2>4. QED BY <2>1, <2>2, <2>3
<1>pic. ASSUME NEW s \in [active : BOOLEAN, generation : Int]
        PROVE  PictureUpdate(s) \in [generation : Int,
                 load : {"none", "asked", "bytes", "missing", "failed"}, shown : Int]
  <2>1. CASE PictureUpdate(s) = picture BY <2>1 DEF PictureKept
  <2>2. CASE PictureUpdate(s) = Blank BY <2>2, <1>int DEF Blank
  <2>3. CASE PictureUpdate(s) = [picture EXCEPT !.generation = s.generation, !.load = "asked"]
    BY <2>3 DEF PictureKept
  <2>4. QED BY <2>1, <2>2, <2>3 DEF PictureUpdate, PictureReset
<1>5. CASE Updated
  BY <1>5, <1>film, <1>pic, <1>no DEF Updated, PostsKept, PictureKept
<1>6. CASE StatusLost
  <2>1. FilmKept'
    <3>1. film' = film \/ film' = Closed BY <1>6 DEF StatusLost
    <3>2. CASE film' = film BY <3>2 DEF FilmKept
    <3>3. CASE film' = Closed
      <4>1. film' = [active |-> FALSE, generation |-> Nothing, src |-> Nothing, end |-> "no"]
        BY <3>3 DEF Closed
      <4>2. QED BY <4>1, <1>int DEF FilmKept
    <3>4. QED BY <3>1, <3>2, <3>3
  <2>2. PictureKept'
    BY <1>6, <1>pic, <1>said, <1>no DEF StatusLost, PictureKept, NoStatus
  <2>3. QED BY <1>6, <2>1, <2>2 DEF StatusLost, PostsKept
<1>7. CASE PictureServed
  <2>1. PictureKept' BY <1>7 DEF PictureServed, PictureKept
  <2>2. QED BY <1>7, <2>1 DEF PictureServed, PostsKept, FilmKept
<1>8. CASE PictureLoad
  <2>1. PictureKept' BY <1>8 DEF PictureLoad, PictureKept
  <2>2. picture.generation \in Int BY DEF PictureKept
  <2>3. PostsKept'
    <3>1. CASE Sending(Post("photo", picture.generation, TRUE, "no")) /\ UNCHANGED over
      BY <2>2, <3>1, SendingKept
    <3>2. CASE /\ Sending(Post("photo", picture.generation, FALSE, "error"))
               /\ over' = over \cup {<<"photo", picture.generation>>}
      BY <2>2, <3>2, SendingKept
    <3>3. QED BY <1>8, <3>1, <3>2 DEF PictureLoad
  <2>4. QED BY <1>8, <2>1, <2>3 DEF PictureLoad, FilmKept
<1>9. CASE FilmEvent
  <2>1. PictureKept' BY <1>9 DEF FilmEvent, PictureKept
  <2>2. film.src # Nothing /\ film.src = film.generation /\ film.generation \in Int
    BY <1>9 DEF FilmEvent, FilmKept
  <2>3. CASE FilmReport(film) /\ UNCHANGED <<film, over>>
    <3>1. film.end = "no" BY <1>9 DEF FilmEvent
    <3>2. PostsKept' BY <2>2, <2>3, <3>1, SendingKept DEF FilmReport, PostsKept
    <3>3. QED BY <2>1, <2>3, <3>2 DEF FilmKept
  <2>4. ASSUME NEW end \in {"ended", "error"}, film' = [film EXCEPT !.end = end],
               FilmReport(film'), over' = over \cup {<<"film", film.src>>}
        PROVE  PostsKept' /\ FilmKept'
    <3>1. FilmKept' /\ film'.generation = film.generation /\ film'.end = end
      BY <2>4 DEF FilmKept
    <3>2. CASE film'.active
      <4>1. PICK ready \in BOOLEAN : Sending(Post("film", film.generation, ready, end))
        BY <2>4, <3>1, <3>2 DEF FilmReport
      <4>2. PostsKept' BY <2>2, <2>4, <4>1, SendingKept
      <4>3. QED BY <3>1, <4>2
    <3>3. CASE ~film'.active BY <2>4, <3>1, <3>3 DEF FilmReport, PostsKept
    <3>4. QED BY <3>2, <3>3
  <2>5. QED BY <1>9, <2>1, <2>3, <2>4 DEF FilmEvent
<1>10. CASE Reported
  <2>1. posts' \subseteq posts /\ UNCHANGED <<snapshot, picture, film, over>>
    BY <1>10 DEF Reported
  <2>2. QED BY <2>1 DEF PostsKept, FilmKept, PictureKept
<1>11. QED
  BY <1>2, <1>3, <1>4, <1>5, <1>6, <1>7, <1>8, <1>9, <1>10 DEF NextOverlays

\* Only a report gives up a film without a new generation, or calls a photo failed.
LEMMA ReportStep ==
  ASSUME PageInv, [NextOverlays]_overlay_vars
  PROVE  /\ playback.active /\ ~playback'.active /\ playback'.generation = playback.generation
              => <<"film", playback.generation>> \in over
         /\ ~photo.failed /\ photo'.failed => <<"photo", photo.generation>> \in over
<1> DEFINE Goal ==
      /\ playback.active /\ ~playback'.active /\ playback'.generation = playback.generation
           => <<"film", playback.generation>> \in over
      /\ ~photo.failed /\ photo'.failed => <<"photo", photo.generation>> \in over
<1>t. photo \in Photos /\ playback \in Films BY DEF PageInv, IInv, TypeOK
<1>1. CASE UNCHANGED media BY <1>1 DEF media
<1>2. ASSUME NEW c, Call(c) PROVE Goal
  <2>1. CASE PlaybackPlay \/ PlaybackStop \/ (\E r : PlaybackRate(r))
    BY <1>t, <2>1 DEF PlaybackPlay, PlaybackStop, PlaybackRate, NoFilm, Films
  <2>2. CASE PhotoReset \/ (\E s : PhotoPut(s))
    BY <1>t, <2>2 DEF PhotoReset, PhotoPut, NoPhoto, Photos
  <2>3. CASE VideoConfigure \/ VideoReset BY <2>3 DEF VideoConfigure, VideoReset
  <2>4. CASE ObserveCall \/ LookCall \/ TellCall \/ (\E s : UpgradeCall(s))
    BY <1>1, <2>4 DEF ObserveCall, LookCall, TellCall, UpgradeCall
  <2>5. QED BY <1>2, <2>1, <2>2, <2>3, <2>4 DEF Call
<1>3. CASE Receiver
  <2>1. CASE \E t \in Threads : Step(t) BY <1>2, <2>1 DEF Step
  <2>2. CASE UNCHANGED media BY <1>1, <2>2
  <2>3. QED
    BY <1>3, <2>1, <2>2 DEF Receiver, Request, Mirror, Poll, Answered, Removed, StopJoined
<1>4. CASE Reported
  <2>1. PICK post \in posts : IF post.kind = "film" THEN PlaybackReport(post) ELSE PhotoReport(post)
    BY <1>4 DEF Reported
  <2>2. post \in Posts
        /\ (post.failed \/ (post.kind = "film" /\ post.ended) => <<post.kind, post.generation>> \in over)
    BY DEF PageInv, PostsKept
  <2>3. CASE post.kind = "film"
    <3>1. PlaybackReport(post) /\ UNCHANGED photo BY <2>1, <2>3 DEF PlaybackReport
    <3>2. playback.active /\ ~playback'.active =>
            post.generation = playback.generation /\ (post.failed \/ post.ended)
      BY <3>1, <1>t, <2>2 DEF PlaybackReport, Current, Films, Posts
    <3>3. QED BY <2>2, <2>3, <3>1, <3>2
  <2>4. CASE post.kind = "photo"
    <3>1. PhotoReport(post) /\ UNCHANGED playback BY <2>1, <2>4 DEF PhotoReport
    <3>2. ~photo.failed /\ photo'.failed => post.generation = photo.generation /\ post.failed
      BY <3>1, <1>t, <2>2 DEF PhotoReport, Current, Photos, Posts
    <3>3. QED BY <2>2, <2>4, <3>1, <3>2
  <2>5. QED BY <2>2, <2>3, <2>4 DEF Posts
<1>5. CASE \/ StopBegin \/ Start \/ StatusFilm \/ StatusPhoto \/ Updated \/ StatusLost
           \/ PictureServed \/ PictureLoad \/ FilmEvent \/ UNCHANGED overlay_vars
  BY <1>1, <1>5 DEF StopBegin, Start, StatusFilm, StatusPhoto, Updated, StatusLost, PictureServed,
     PictureLoad, FilmEvent, overlay_vars, vars
<1>6. QED BY <1>3, <1>4, <1>5 DEF NextOverlays

-----------------------------------------------------------------------------
(* The theorems. *)

\* Whatever is shown together is about to be dismissed, and a stop leaves nothing: for
\* the receiver with any user interface ...
THEOREM MediaInvariant == Spec => []IInv
<1>1. Init => IInv BY InitIInv
<1>2. IInv /\ [Next]_vars => IInv' BY NextIsMediaStep, MediaStepIInv
<1>3. QED BY <1>1, <1>2, PTL DEF Spec

\* ... and with the overlays, whose reports are in the name of what is over.
THEOREM OverlaysInvariant == SpecOverlays => []PageInv
<1>1. InitOverlays => PageInv
  <2>1. InitOverlays => IInv BY InitIInv DEF InitOverlays
  <2>2. InitOverlays => PostsKept BY DEF InitOverlays, PostsKept
  <2>3. InitOverlays => FilmKept BY DEF InitOverlays, FilmKept, Closed, Nothing
  <2>4. InitOverlays => PictureKept
    BY DEF InitOverlays, PictureKept, Blank, NoStatus, NoneSaid, Nothing
  <2>5. QED BY <2>1, <2>2, <2>3, <2>4 DEF PageInv
<1>2. PageInv /\ [NextOverlays]_overlay_vars => PageInv'
  BY PageStep, NextOverlaysIsMediaStep, MediaStepIInv DEF PageInv, PostsKept
<1>3. QED BY <1>1, <1>2, PTL DEF SpecOverlays

\* What the invariant says when no thread has anything to do.
LEMMA InvariantShows == IInv => PhotoAlone /\ StopClears
<1> SUFFICES ASSUME IInv PROVE PhotoAlone /\ StopClears OBVIOUS
<1>1. \A c : ~After(<< >>, 0, c) BY EmptySeq DEF After
<1>2. PhotoAlone BY <1>1 DEF PhotoAlone, Settled, IInv, AloneKept, Owed
<1>3. StopClears BY <1>1 DEF StopClears, IInv, StopKept
<1>4. QED BY <1>2, <1>3

\* However the calls of the HTTP thread, the mirroring thread and a stop meet, a photo
\* that is still there when they are done is on screen alone.
THEOREM OverlaysPhotoAlone == (Spec \/ SpecOverlays) => []PhotoAlone
<1>1. IInv => PhotoAlone BY InvariantShows
<1>2. PageInv => IInv BY DEF PageInv
<1>3. QED BY <1>1, <1>2, MediaInvariant, OverlaysInvariant, PTL

\* Nothing is shown after airtizen_runtime_stop() has gone through the stores.
THEOREM OverlaysStopClears == (Spec \/ SpecOverlays) => []StopClears
<1>1. IInv => StopClears BY InvariantShows
<1>2. PageInv => IInv BY DEF PageInv
<1>3. QED BY <1>1, <1>2, MediaInvariant, OverlaysInvariant, PTL

\* airtizen_playback_report() and airtizen_photo_report() never take a late report for
\* one about what is shown now.
THEOREM OverlaysReports == SpecOverlays => ReportsAreCurrent
<1>1. PageInv /\ [NextOverlays]_overlay_vars =>
        [/\ playback.active /\ ~playback'.active /\ playback'.generation = playback.generation
               => <<"film", playback.generation>> \in over
         /\ ~photo.failed /\ photo'.failed => <<"photo", photo.generation>> \in over]_overlay_vars
  BY ReportStep
<1>2. QED BY <1>1, OverlaysInvariant, PTL DEF SpecOverlays, ReportsAreCurrent
=============================================================================
