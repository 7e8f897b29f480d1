----------------------------- MODULE VideoClient ----------------------------
(***************************************************************************)
(* The MediaSource player of app/js/video-mse.js, composed with the video  *)
(* store it reads over the control HTTP server (/status, /video/init and   *)
(* /video/segment of native/src/airtizen_control_http.c) while the         *)
(* mirroring thread goes on changing the store.                            *)
(*                                                                         *)
(* The player is a chain of callbacks: a timer, a request, an event of the *)
(* media element.  Answers are computed from the store at one moment and   *)
(* arrive at a later one; they may be lost or time out.                    *)
(*                                                                         *)
(* Data abstraction.  A callback of an earlier epoch returns at once, so   *)
(* requests are dropped where the code increments `epoch'.  `fed' is what  *)
(* the SourceBuffer has been given.  Times of the media element are left   *)
(* out: whether the old part of its buffer is removed is a choice.         *)
(***************************************************************************)
EXTENDS VideoStore, Sequences

CONSTANT MaxFaults  \* bound: lost answers, media errors, stops, other media shown

ASSUME MaxFaultsAssumption == MaxFaults \in Nat

VARIABLES
  stopped, active,
  client_generation,  \* generation of the player; -1: none
  next,      \* the fragment to ask for
  timer,     \* a call of poll() is scheduled
  requests,  \* requests of this epoch, with their answers
  media,     \* the MediaSource: none, opening, ready, updating or removing
  fed,       \* what the SourceBuffer was given
  faults

player == <<stopped, active, client_generation, next, timer, requests, media, fed>>
client_vars == <<vars, player, faults>>

Waiting == [answered |-> FALSE]
NoData == [answered |-> TRUE, ok |-> FALSE]

InitClient ==
  /\ Init
  /\ stopped = TRUE /\ active = FALSE
  /\ client_generation = -1 /\ next = 0
  /\ timer = FALSE
  /\ requests = << >>
  /\ media = "none"
  /\ fed = << >>
  /\ faults = 0

-----------------------------------------------------------------------------
(* The server: one request after the other, each from one look at the store. *)

\* What /status, /video/init and /video/segment/<n> answer.  A segment is asked for
\* by its number; its generation comes back in X-AirTizen-Generation.
Answer(r) ==
  CASE r.path = "status" -> [answered |-> TRUE, ok |-> TRUE, available |-> start # 0,
                             generation |-> generation, start |-> start, latest |-> latest]
    [] r.path = "init" -> IF mux THEN [answered |-> TRUE, ok |-> TRUE, generation |-> generation]
                          ELSE NoData
    [] r.path = "segment" -> IF Holds(r.seq)
                             THEN [answered |-> TRUE, ok |-> TRUE, generation |-> generation,
                                   key |-> parts[Slot(r.seq)].key]
                             ELSE NoData

\* Every request ends: with its answer, or ...
Serve(i) ==
  /\ ~requests[i].reply.answered
  /\ requests' = [requests EXCEPT ![i].reply = Answer(requests[i])]
  /\ UNCHANGED <<vars, stopped, active, client_generation, next, timer, media, fed, faults>>

\* ... with an error or after two seconds.
Lost(i) ==
  /\ faults < MaxFaults
  /\ faults' = faults + 1
  /\ requests' = [requests EXCEPT ![i].reply = NoData]
  /\ UNCHANGED <<vars, stopped, active, client_generation, next, timer, media, fed>>

-----------------------------------------------------------------------------
(* The player. *)

Sent(path, seq) == [path |-> path, seq |-> seq, reply |-> Waiting]

\* Mutant: answers of an earlier epoch are taken.
Outstanding_kept(i) == IF i = 0 THEN requests ELSE << >>

\* The requests of this epoch that are still out after `epoch++', when request i (0
\* for none) has just come back.
Outstanding(i) == << >>

\* dispose(), then schedule() unless the player is stopped.
Dispose(i, again) ==
  /\ client_generation' = -1
  /\ active' = FALSE
  /\ media' = "none"
  /\ fed' = << >>
  /\ requests' = Outstanding(i)
  /\ timer' = again
  /\ UNCHANGED next

\* schedule() alone.
Again ==
  /\ timer' = TRUE
  /\ requests' = << >>
  /\ UNCHANGED <<active, client_generation, next, media, fed>>

\* AirTizenMSEVideo.start()
StartPlayer ==
  /\ stopped
  /\ stopped' = FALSE
  /\ timer' = TRUE
  /\ UNCHANGED <<vars, active, client_generation, next, requests, media, fed, faults>>

\* AirTizenMSEVideo.stop()
StopPlayer ==
  /\ ~stopped /\ faults < MaxFaults
  /\ faults' = faults + 1
  /\ stopped' = TRUE
  /\ Dispose(0, FALSE)
  /\ UNCHANGED vars

\* poll()
Poll ==
  /\ timer
  /\ timer' = FALSE
  /\ requests' = Append(requests, Sent("status", 0))
  /\ UNCHANGED <<vars, stopped, active, client_generation, next, media, fed, faults>>

\* /status came back without video, or with a photo or a shared film on screen.
NoVideo(i) ==
  /\ requests[i].path = "status"
  /\ IF active \/ client_generation # -1 THEN Dispose(i, TRUE) ELSE Again
  /\ UNCHANGED <<vars, stopped>>

\* An answer to /status that names video.
StatusVideo(i) ==
  requests[i].path = "status" /\ requests[i].reply.answered /\ requests[i].reply.ok
  /\ requests[i].reply.available

StatusWithout(i) ==
  /\ requests[i].reply.answered /\ ~StatusVideo(i)
  /\ NoVideo(i)
  /\ UNCHANGED faults

StatusShared(i) ==
  /\ requests[i].reply.answered /\ faults < MaxFaults
  /\ NoVideo(i)
  /\ faults' = faults + 1

\* begin(): a new generation; the player makes a new MediaSource.
Begin(i) ==
  /\ StatusVideo(i)
  /\ requests[i].reply.generation # client_generation
  /\ client_generation' = requests[i].reply.generation
  /\ next' = requests[i].reply.start
  /\ active' = FALSE
  /\ timer' = FALSE
  /\ requests' = Outstanding(i)
  /\ media' = "opening"
  /\ fed' = << >>
  /\ UNCHANGED <<vars, stopped, faults>>

\* Mutant: the newest fragment is left for later.
Follow_behind(i) ==
  /\ StatusVideo(i)
  /\ requests[i].reply.generation = client_generation
  /\ IF media # "ready" \/ next >= requests[i].reply.latest
     THEN Again
     ELSE /\ requests' = <<Sent("segment", next)>>
          /\ UNCHANGED <<active, client_generation, next, timer, media, fed>>
  /\ UNCHANGED <<vars, stopped, faults>>

\* /status names the generation that is playing: ask for the next fragment, or wait.
Follow(i) ==
  /\ StatusVideo(i)
  /\ requests[i].reply.generation = client_generation
  /\ IF media # "ready" \/ next > requests[i].reply.latest
     THEN Again
     ELSE /\ requests' = <<Sent("segment", next)>>
          /\ UNCHANGED <<active, client_generation, next, timer, media, fed>>
  /\ UNCHANGED <<vars, stopped, faults>>

\* sourceopen: make the SourceBuffer and ask for the initialization.
SourceOpen ==
  /\ media = "opening"
  /\ media' = "ready"
  /\ requests' = <<Sent("init", 0)>>
  /\ UNCHANGED <<vars, stopped, active, client_generation, next, timer, fed, faults>>

\* Mutant: any data will do.
Usable_anyGeneration(r) == r.reply.ok

\* Data is appended if its generation is the one that is playing.
Usable(r) == r.reply.ok /\ r.reply.generation = client_generation

\* /video/init came back.
InitArrives(i) ==
  /\ requests[i].path = "init" /\ requests[i].reply.answered
  /\ IF Usable(requests[i])
     THEN /\ fed' = Append(fed, [generation |-> requests[i].reply.generation, seq |-> 0,
                                 key |-> FALSE])
          /\ media' = "updating"
          /\ requests' = << >>
          /\ UNCHANGED <<active, client_generation, next, timer>>
     ELSE Dispose(i, TRUE)
  /\ UNCHANGED <<vars, stopped, faults>>

\* /video/segment/<next> came back.
SegmentArrives(i) ==
  /\ requests[i].path = "segment" /\ requests[i].reply.answered
  /\ IF Usable(requests[i])
     THEN /\ fed' = Append(fed, [generation |-> requests[i].reply.generation,
                                 seq |-> requests[i].seq, key |-> requests[i].reply.key])
          /\ next' = next + 1
          /\ media' = "updating"
          /\ requests' = << >>
          /\ UNCHANGED <<active, client_generation, timer>>
     ELSE Dispose(i, TRUE)
  /\ UNCHANGED <<vars, stopped, faults>>

\* updateend: show the video and poll, or first remove the old part of the buffer.
UpdateEnd ==
  /\ \/ /\ media \in {"updating", "removing"}
        /\ media' = "ready"
        /\ timer' = TRUE
     \/ /\ media = "updating" /\ Len(fed) > 1
        /\ media' = "removing"
        /\ UNCHANGED timer
  /\ active' = (active \/ Len(fed) > 1)
  /\ UNCHANGED <<vars, stopped, client_generation, next, requests, fed, faults>>

\* failed(): the format is not supported, an append throws, or the media element or
\* the SourceBuffer reports an error.
MediaError ==
  /\ ~stopped /\ client_generation # -1 /\ faults < MaxFaults
  /\ faults' = faults + 1
  /\ Dispose(0, TRUE)
  /\ UNCHANGED <<vars, stopped>>

PlayerStep ==
  \/ Poll \/ SourceOpen \/ UpdateEnd
  \/ \E i \in DOMAIN requests :
       Serve(i) \/ StatusWithout(i) \/ Begin(i) \/ Follow(i) \/ InitArrives(i) \/ SegmentArrives(i)

StoreStep == Next /\ UNCHANGED <<player, faults>>

NextClient ==
  \/ StoreStep
  \/ StartPlayer \/ StopPlayer
  \/ PlayerStep
  \/ \E i \in DOMAIN requests : Lost(i) \/ StatusShared(i)
  \/ MediaError

\* Timers fire, requests end and the media element reports what it was asked for.
SpecClient == InitClient /\ [][NextClient]_client_vars /\ WF_client_vars(PlayerStep)

-----------------------------------------------------------------------------
(* Properties. *)

Pending == (IF timer THEN 1 ELSE 0) + Len(requests)
             + (IF media \in {"opening", "updating", "removing"} THEN 1 ELSE 0)

\* The chain of callbacks neither breaks nor forks: a player that runs waits for
\* exactly one thing, so it never hangs and never appends to a SourceBuffer that is
\* updating; a stopped one waits for nothing.
OneChain == Pending = IF stopped THEN 0 ELSE 1

\* The decoder is given the initialization of one generation and then fragments of
\* that generation only, from a key frame on and without a gap, whatever the store
\* evicts, clears or restarts between an answer and the next request.
FedInOrder ==
  \A i \in DOMAIN fed :
    /\ fed[i].generation = client_generation
    /\ i = 1 => fed[i].seq = 0
    /\ i = 2 => fed[i].key
    /\ i > 2 => fed[i].seq = fed[i - 1].seq + 1

\* Once disturbances cease, a running player catches up with the newest fragment of
\* the generation in the store.
CatchesUp ==
  []<>(stopped \/ start = 0 \/ (client_generation = generation /\ next = latest + 1))

-----------------------------------------------------------------------------
(* The inductive invariant behind the first two, beside that of the store. *)

StatusReplies == [answered : {TRUE}, ok : {TRUE}, available : BOOLEAN, generation : Nat,
                  start : Nat, latest : Nat]
InitReplies == [answered : {TRUE}, ok : {TRUE}, generation : Nat]
SegmentReplies == [answered : {TRUE}, ok : {TRUE}, generation : Nat, key : BOOLEAN]
Unanswered == {Waiting, NoData}
Requests ==
  [path : {"status"}, seq : Nat, reply : StatusReplies \cup Unanswered] \cup
  [path : {"init"}, seq : Nat, reply : InitReplies \cup Unanswered] \cup
  [path : {"segment"}, seq : Nat, reply : SegmentReplies \cup Unanswered]
Given == [generation : Nat, seq : Nat, key : BOOLEAN]

\* The type of the player's state.
PlayerOK ==
  /\ stopped \in BOOLEAN /\ active \in BOOLEAN /\ timer \in BOOLEAN
  /\ client_generation \in Nat \cup {-1} /\ next \in Nat
  /\ requests \in Seq(Requests)
  /\ media \in {"none", "opening", "ready", "updating", "removing"}
  /\ fed \in Seq(Given)

\* A player may begin generation g at number n: as long as the store has that
\* generation, n is in it and, while it is held, a key frame.
Startable(g, n) ==
  /\ g <= generation
  /\ g = generation => n <= latest /\ (Holds(n) => parts[Slot(n)].key)

\* What a request that is out, or its answer, says that is still true when it comes.
RequestKept(r) ==
  /\ r.path = "status" /\ r.reply \in StatusReplies =>
       /\ r.reply.generation <= generation
       /\ r.reply.available => Startable(r.reply.generation, r.reply.start)
  /\ r.path = "init" => fed = << >>
  /\ r.path = "segment" =>
       /\ fed # << >> /\ r.seq = next
       /\ r.reply \in SegmentReplies /\ r.reply.generation = client_generation /\ Len(fed) = 1
            => r.reply.key
RequestsKept == \A i \in DOMAIN requests : RequestKept(requests[i])

\* The SourceBuffer is given the initialization first, and `next' follows what it was
\* given.
FeedKept ==
  /\ client_generation <= generation
  /\ client_generation # -1 /\ Len(fed) <= 1 => Startable(client_generation, next)
  /\ Len(fed) > 1 => next = fed[Len(fed)].seq + 1
  /\ media = "opening" => fed = << >>
  /\ media \in {"updating", "removing"} => fed # << >>
  /\ media = "ready" /\ fed = << >> => \E i \in DOMAIN requests : requests[i].path = "init"

ClientInv == IInv /\ PlayerOK /\ OneChain /\ FedInOrder /\ RequestsKept /\ FeedKept
=============================================================================
