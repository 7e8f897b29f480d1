------------------------------ MODULE Overlays ------------------------------
(***************************************************************************)
(* The overlays of the TV's page, composed with the media they show        *)
(* (SharedMedia): the photo overlay (app/js/photo.js), the film overlay    *)
(* (app/js/share.js) and the poll of /status that drives both (app/js/     *)
(* video.js).                                                              *)
(*                                                                         *)
(* A status reads the film and the photo under two locks, one after the    *)
(* other, and is acted on when it arrives.  A picture is asked for by its  *)
(* generation, which may be gone by then, and shown in one of two image    *)
(* elements while the other still shows the one before.  Reports go back   *)
(* on connections of their own: one may be lost, or be overtaken.          *)
(*                                                                         *)
(* External: the browser.  Setting a source drops what the element had     *)
(* still to say of the one before it.  Left out: play, pause and seeks,    *)
(* which only the element knows of, the dissolve, and what else the page   *)
(* shows.                                                                  *)
(***************************************************************************)
EXTENDS SharedMedia, Integers

CONSTANT MaxPosts  \* bound: reports on their way
ASSUME MaxPostsAssumption == MaxPosts \in Nat

VARIABLES
  status,    \* the poll: idle, half (the film is read), answered
  snapshot,  \* what the status says
  picture,   \* photo.js
  film,      \* share.js: state, and the video element
  posts,     \* reports on their way
  over       \* history: films that ended or failed and photos that failed on the page

page == <<status, snapshot, picture, film, posts, over>>
overlay_vars == <<vars, page>>

Nothing == -1

Blank == [generation |-> Nothing, load |-> "none", shown |-> Nothing]
Closed == [active |-> FALSE, generation |-> Nothing, src |-> Nothing, end |-> "no"]

\* What a status says of the film and of the photo.
FilmSaid == [active |-> playback.active, generation |-> playback.generation]
PhotoSaid == [active |-> photo.active, generation |-> photo.generation]
NoneSaid == [active |-> FALSE, generation |-> Nothing]
NoStatus == [film |-> NoneSaid, photo |-> NoneSaid]

InitOverlays ==
  /\ Init
  /\ status = "idle" /\ snapshot = NoStatus
  /\ picture = Blank
  /\ film = Closed
  /\ posts = {}
  /\ over = {}

-----------------------------------------------------------------------------
(* Reports *)

Post(kind, generation, ready, end) ==
  [kind |-> kind, generation |-> generation, ready |-> ready,
   failed |-> end = "error", ended |-> end = "ended"]

\* A report is sent; it may be lost.
Sending(post) ==
  \/ Cardinality(posts) < MaxPosts /\ posts' = posts \cup {post}
  \/ UNCHANGED posts

\* share.js report(): what the element is like now, in the name of the state it has.
\* Whether it has data and plays is the browser's and the viewer's choice.
FilmReport(f) ==
  IF f.active THEN \E ready \in BOOLEAN : Sending(Post("film", f.generation, ready, f.end))
  ELSE UNCHANGED posts

\* The control HTTP thread, which serves one request at a time, takes a report.
Reported ==
  /\ status # "half"
  /\ \E post \in posts :
       /\ posts' = posts \ {post}
       /\ IF post.kind = "film" THEN PlaybackReport(post) ELSE PhotoReport(post)
  /\ UNCHANGED <<todo, core, changes, status, snapshot, picture, film, over>>

-----------------------------------------------------------------------------
(* The photo overlay *)

\* Mutant: a reset does not forget which photo it was.
PictureReset_remembers == [Blank EXCEPT !.generation = picture.generation]

\* reset()
PictureReset == Blank

\* AirTizenPhoto.update()
PictureUpdate(s) ==
  IF ~s.active THEN IF picture.generation = Nothing THEN picture ELSE PictureReset
  ELSE IF s.generation = picture.generation THEN picture
  ELSE [picture EXCEPT !.generation = s.generation, !.load = "asked"]

\* GET /photo/<generation>: airtizen_photo_copy().
PictureServed ==
  /\ picture.load = "asked" /\ status # "half"
  /\ \/ /\ Current(photo, picture)
        /\ picture' = [picture EXCEPT !.load = "bytes"]
     \/ picture' = [picture EXCEPT !.load = "missing"]
  /\ UNCHANGED <<vars, status, snapshot, film, posts, over>>

\* onload and onerror of the image that is asked for.
PictureLoad ==
  /\ \/ /\ picture.load = "bytes"
        /\ picture' = [picture EXCEPT !.load = "none", !.shown = picture.generation]
        /\ Sending(Post("photo", picture.generation, TRUE, "no"))
        /\ UNCHANGED over
     \/ /\ picture.load \in {"bytes", "missing"}
        /\ picture' = [picture EXCEPT !.load = "failed"]
        /\ Sending(Post("photo", picture.generation, FALSE, "error"))
        /\ over' = over \cup {<<"photo", picture.generation>>}
  /\ UNCHANGED <<vars, status, snapshot, film>>

-----------------------------------------------------------------------------
(* The film overlay *)

\* AirTizenShare.update()
FilmUpdate(s) ==
  IF ~s.active THEN [Closed EXCEPT !.generation = s.generation]
  ELSE IF s.generation = film.generation THEN [film EXCEPT !.active = TRUE]
  ELSE [active |-> TRUE, generation |-> s.generation, src |-> s.generation, end |-> "no"]

\* The events of the video element: loadedmetadata, playing, timeupdate and pause;
\* ended and error.
FilmEvent ==
  /\ film.src # Nothing /\ film.end = "no"
  /\ \/ /\ FilmReport(film)
        /\ UNCHANGED <<film, over>>
     \/ /\ \E end \in {"ended", "error"} : film' = [film EXCEPT !.end = end]
        /\ FilmReport(film')
        /\ over' = over \cup {<<"film", film.src>>}
  /\ UNCHANGED <<vars, status, snapshot, picture>>

-----------------------------------------------------------------------------
(* The poll *)

\* airtizen_runtime_status_json() under g_lock, which a stop holds from begin to end.
StatusFilm ==
  /\ status = "idle"
  /\ core # "stopping" /\ todo["control"] = << >>
  /\ status' = "half"
  /\ snapshot' = [NoStatus EXCEPT !.film = FilmSaid]
  /\ UNCHANGED <<vars, picture, film, posts, over>>

StatusPhoto ==
  /\ status = "half"
  /\ status' = "answered"
  /\ snapshot' = [snapshot EXCEPT !.photo = PhotoSaid]
  /\ UNCHANGED <<vars, picture, film, posts, over>>

\* updateShared(): both overlays in one turn.
Updated ==
  /\ status = "answered"
  /\ film' = FilmUpdate(snapshot.film)
  /\ picture' = PictureUpdate(snapshot.photo)
  /\ status' = "idle" /\ snapshot' = NoStatus
  /\ UNCHANGED <<vars, posts, over>>

\* The answer is lost, or is no status: then the overlays are told that there is nothing.
StatusLost ==
  /\ status = "answered"
  /\ \/ UNCHANGED <<changes, picture, film>>
     \/ Counted /\ film' = Closed /\ picture' = PictureUpdate(NoStatus.photo)
  /\ status' = "idle" /\ snapshot' = NoStatus
  /\ UNCHANGED <<media, todo, core, channel, posts, over>>

NextOverlays ==
  \/ Receiver /\ UNCHANGED page
  \/ status # "half" /\ (StopBegin \/ Start) /\ UNCHANGED page
  \/ StatusFilm \/ StatusPhoto \/ Updated \/ StatusLost
  \/ PictureServed \/ PictureLoad
  \/ FilmEvent
  \/ Reported

\* Timers fire and requests end; of the polls, which are made for ever, not all are
\* lost; connections are accepted in their order, so that a picture that is asked for
\* between two polls is served, and it loads or does not.
FairOverlays ==
  /\ Fairness
  /\ WF_overlay_vars(StatusFilm \/ StatusPhoto \/ Updated \/ StatusLost)
  /\ []<><<Updated>>_overlay_vars
  /\ SF_overlay_vars(PictureServed \/ PictureLoad)

SpecOverlays == InitOverlays /\ [][NextOverlays]_overlay_vars /\ FairOverlays

-----------------------------------------------------------------------------
(* Properties. *)

\* The photo overlay shows the photo the receiver shows, unless it could not be had or
\* decoded, and nothing when there is none; the film overlay has the receiver's film.
PictureMatches ==
  IF photo.active
  THEN picture.generation = photo.generation /\ (picture.shown = photo.generation
                                                 \/ picture.load = "failed")
  ELSE picture.shown = Nothing
FilmMatches == film.src = IF playback.active THEN playback.generation ELSE Nothing

\* Whatever was put, dismissed, replaced, lost or reported meanwhile, the page does not
\* stay behind the receiver: it always comes to show what the receiver shows
\* (photo.js:25-44, share.js:43-53, video.js:77-84).
ScreenFollows == []<>(PictureMatches /\ FilmMatches)

\* A report that was on its way when something else came to the screen is not taken for
\* it: the receiver gives up a film only if that film ended or failed on the page, and
\* calls a photo failed only if that photo did (airtizen_playback.c:26,
\* airtizen_photo.c:71).
ReportsAreCurrent ==
  [][/\ playback.active /\ ~playback'.active /\ playback'.generation = playback.generation
          => <<"film", playback.generation>> \in over
     /\ ~photo.failed /\ photo'.failed => <<"photo", photo.generation>> \in over]_overlay_vars

-----------------------------------------------------------------------------
(* The invariant behind ReportsAreCurrent. *)

Posts == [kind : {"film", "photo"}, generation : Int, ready : BOOLEAN, failed : BOOLEAN,
          ended : BOOLEAN]

\* A report that something is over is in the name of what is over on the page.
PostsKept ==
  /\ posts \subseteq Posts
  /\ \A post \in posts :
       post.failed \/ (post.kind = "film" /\ post.ended) => <<post.kind, post.generation>> \in over

\* The film overlay reports the source of its element.
FilmKept ==
  /\ film \in [active : BOOLEAN, generation : Int, src : Int, end : {"no", "ended", "error"}]
  /\ film.src # Nothing => film.src = film.generation
PictureKept ==
  /\ picture \in [generation : Int, load : {"none", "asked", "bytes", "missing", "failed"},
                   shown : Int]
  /\ snapshot \in [film : [active : BOOLEAN, generation : Int],
                    photo : [active : BOOLEAN, generation : Int]]

PageInv == IInv /\ PostsKept /\ FilmKept /\ PictureKept
=============================================================================
