----------------------------- MODULE PhotoCache -----------------------------
(***************************************************************************)
(* The photo receiver of native/src/airtizen_photo.c: a cache of four      *)
(* images within a byte budget, one of which may be on screen.             *)
(*                                                                         *)
(* The AirPlay HTTP thread puts photos (display, cacheOnly, displayCached) *)
(* and resets the cache when another medium takes the screen; the control  *)
(* HTTP thread reads the displayed image by its generation and reports     *)
(* whether the browser could decode it.  Every operation holds the mutex   *)
(* throughout, so each is one step.                                        *)
(*                                                                         *)
(* Data abstraction.  An image is the number of the upload that brought it *)
(* (`data', 0 for NULL); its pixels, dimensions, type and transition are   *)
(* left out.  Requests refused before the lock is taken (400, 413, and 503 *)
(* when malloc fails) change nothing and are left out too.                 *)
(***************************************************************************)
EXTENDS Integers

CONSTANTS
  Keys,           \* asset keys a sender uses
  NoKey,          \* the empty key: a photo that is displayed without one
  Sessions,       \* sender sessions; the empty session is one of them
  NoSession,      \* the empty session, also the cleared state.session
  Sizes,          \* sizes of valid images
  PhotoMaxBytes,  \* AIRTIZEN_PHOTO_MAX_BYTES (8 MiB)
  CacheBytes,     \* CACHE_BYTES (16 MiB)
  SessionIds,     \* values of an unsigned session counter (2^32)
  MaxGeneration,  \* bound: display generations explored
  MaxAge          \* bound: cache uses explored

ASSUME NamesAssumption == NoKey \notin Keys /\ NoSession \in Sessions
ASSUME SizesAssumption ==
  PhotoMaxBytes \in Nat /\ CacheBytes \in Nat /\ Sizes \subseteq 1 .. PhotoMaxBytes
\* Two largest images fit: what is on screen never keeps the next one out.
ASSUME CacheAssumption == 2 * PhotoMaxBytes <= CacheBytes
ASSUME SessionIdsAssumption == SessionIds \in Nat /\ SessionIds >= 3
ASSUME BoundsAssumption == MaxGeneration \in Nat /\ MaxAge \in Nat

VARIABLES
  cache,            \* the four assets
  displayed,        \* the asset on screen, -1 for none
  age,              \* use counter, for least-recently-used eviction
  session_counter,  \* last session id handed out
  generation,       \* state.generation: which display this is
  active,           \* state.active
  verdict,          \* state.ready and state.failed, which are never both set
  session,          \* state.session
  session_id        \* state.session_id

state == <<generation, active, verdict, session, session_id>>
vars == <<cache, displayed, age, session_counter, state>>

Slots == 0 .. 3
EmptyAsset == [data |-> 0, size |-> 0, age |-> 0, key |-> NoKey, session |-> NoSession]

Init ==
  /\ cache = [i \in Slots |-> EmptyAsset]
  /\ displayed = -1
  /\ age = 0
  /\ session_counter = 0
  /\ generation = 0
  /\ active = FALSE
  /\ verdict = "none"
  /\ session = NoSession
  /\ session_id = 0

-----------------------------------------------------------------------------
(* Helpers. *)

SizeIn(c, S, i) == IF i \in S THEN c[i].size ELSE 0
BytesOf(c, S) == SizeIn(c, S, 0) + SizeIn(c, S, 1) + SizeIn(c, S, 2) + SizeIn(c, S, 3)

Matches(i, key, of) ==
  cache[i].data # 0 /\ cache[i].key = key /\ cache[i].session = of
Cached(key, of) == \E i \in Slots : Matches(i, key, of)

\* Mutant: oldest() may return the asset on screen.
Evictable_displayed(slot) == {i \in Slots \ {slot} : cache[i].data # 0}

\* What oldest(slot) chooses from: never the asset on screen.
Evictable(slot) == {i \in Slots \ {slot, displayed} : cache[i].data # 0}

OldestOf(S, i) == i \in S /\ \A j \in S : cache[i].age <= cache[j].age

\* The slot of an upload: the one with its name, else the first free one, else
\* the least recently used one.
Target(slot, key, of) ==
  \/ Matches(slot, key, of)
  \/ /\ ~Cached(key, of)
     /\ cache[slot].data = 0
     /\ \A j \in Slots : j < slot => cache[j].data # 0
  \/ /\ ~Cached(key, of)
     /\ \A j \in Slots : cache[j].data # 0
     /\ OldestOf(Evictable(-1), slot)

\* The loop that makes room discards the least recently used asset until the
\* upload fits: everything evictable that was last used before some `cut'.
UsedBefore(slot, cut) == {i \in Evictable(slot) : cache[i].age < cut}

\* Mutant: the room made does not count the upload itself.
Fits_withoutUpload(slot, size, cut) ==
  BytesOf(cache, Slots \ ({slot} \cup UsedBefore(slot, cut))) <= CacheBytes

Fits(slot, size, cut) ==
  size + BytesOf(cache, Slots \ ({slot} \cup UsedBefore(slot, cut))) <= CacheBytes
FirstFit(slot, size, cut) ==
  /\ Fits(slot, size, cut)
  /\ cut > 0 => ~Fits(slot, size, cut - 1)

\* Mutant: a new session keeps the id of the one before.
NextSessionId_same == IF session_counter = 0 THEN 1 ELSE session_counter

\* Session ids skip 0 when the counter wraps.
NextSessionId ==
  IF session_counter + 1 = SessionIds THEN 1 ELSE session_counter + 1

\* The tail of airtizen_photo_put when the photo is to be shown.
Show(slot, of) ==
  LET id == IF ~active \/ session # of THEN NextSessionId ELSE session_id
  IN  /\ generation < MaxGeneration
      /\ generation' = generation + 1
      /\ session_counter' = IF ~active \/ session # of THEN id ELSE session_counter
      /\ session_id' = id
      /\ displayed' = slot
      /\ active' = TRUE
      /\ verdict' = "none"
      /\ session' = of

KeepDisplay == UNCHANGED <<displayed, session_counter, state>>

-----------------------------------------------------------------------------
(* Operations. *)

\* Store an upload in `slot' after discarding the victims.
Store(slot, key, of, size) ==
  /\ age < MaxAge
  /\ age' = age + 1
  /\ \E cut \in 0 .. age + 1 :
       /\ FirstFit(slot, size, cut)
       /\ cache' = [i \in Slots |->
            IF i = slot THEN [data |-> age + 1, size |-> size, age |-> age + 1,
                              key |-> key, session |-> of]
            ELSE IF i \in UsedBefore(slot, cut) THEN EmptyAsset
            ELSE cache[i]]

\* airtizen_photo_put, no action: store and show.
PutDisplay(key, of, size) ==
  \E slot \in Slots :
    /\ Target(slot, key, of)
    /\ Show(slot, of)
    /\ Store(slot, key, of, size)

\* Mutant: re-caching the key on screen replaces its image.
Recached_never(key, of) == FALSE

\* The early return for the key that is on screen.
Recached(key, of) == displayed # -1 /\ Matches(displayed, key, of)

\* airtizen_photo_put, action cacheOnly: store, unless it is on screen.
PutCacheOnly(key, of, size) ==
  \/ /\ Recached(key, of)
     /\ UNCHANGED vars
  \/ /\ ~Recached(key, of)
     /\ \E slot \in Slots :
          /\ Target(slot, key, of)
          /\ Store(slot, key, of, size)
     /\ KeepDisplay

\* airtizen_photo_put, action displayCached: show what is cached; 412 if it is
\* not, or no longer.
PutDisplayCached(key, of) ==
  \/ /\ ~Cached(key, of)
     /\ UNCHANGED vars
  \/ \E slot \in Slots :
       /\ Matches(slot, key, of)
       /\ age < MaxAge
       /\ age' = age + 1
       /\ cache' = [cache EXCEPT ![slot].age = age + 1]
       /\ Show(slot, of)

\* airtizen_photo_reset
Reset ==
  /\ generation < MaxGeneration
  /\ generation' = generation + 1
  /\ cache' = [i \in Slots |-> EmptyAsset]
  /\ displayed' = -1
  /\ active' = FALSE
  /\ verdict' = "none"
  /\ session' = NoSession
  /\ session_id' = 0
  /\ UNCHANGED <<age, session_counter>>

\* airtizen_photo_report: the browser's verdict on what it fetched, which is
\* refused when something else is on screen by now.
Report(fetched, outcome) ==
  \/ /\ active /\ fetched = generation
     /\ verdict' = outcome
     /\ UNCHANGED <<cache, displayed, age, session_counter, generation, active,
                    session, session_id>>
  \/ /\ ~(active /\ fetched = generation)
     /\ UNCHANGED vars

Next ==
  \/ \E of \in Sessions, size \in Sizes :
       \/ \E key \in Keys \cup {NoKey} : PutDisplay(key, of, size)
       \/ \E key \in Keys : PutCacheOnly(key, of, size)
  \/ \E of \in Sessions, key \in Keys : PutDisplayCached(key, of)
  \/ Reset
  \/ \E fetched \in 0 .. MaxGeneration, outcome \in {"ready", "failed"} :
       Report(fetched, outcome)

Spec == Init /\ [][Next]_vars

-----------------------------------------------------------------------------
(* Properties. *)

Asset == [data : Nat, size : Nat, age : Nat, key : Keys \cup {NoKey}, session : Sessions]

\* The type of the photo receiver's state.
TypeOK ==
  /\ cache \in [Slots -> Asset]
  /\ displayed \in Slots \cup {-1}
  /\ age \in Nat
  /\ session_counter \in 0 .. SessionIds - 1
  /\ generation \in Nat
  /\ active \in BOOLEAN
  /\ verdict \in {"none", "ready", "failed"}
  /\ session \in Sessions
  /\ session_id \in 0 .. SessionIds - 1

\* The cache never exceeds CACHE_BYTES, and the screen never causes a refusal:
\* every valid upload finds a slot and room in it, so neither 503 under the lock
\* is ever returned and no victim is discarded in vain (airtizen_photo.c:56-60).
RoomForEveryPhoto ==
  /\ BytesOf(cache, Slots) <= CacheBytes
  /\ \A key \in Keys \cup {NoKey}, of \in Sessions :
       \E slot \in Slots :
         /\ Target(slot, key, of)
         /\ \A size \in Sizes : Fits(slot, size, age + 1)

\* What is on screen is in the cache, under the session the state names, and
\* only while the state is active: eviction never takes it.
DisplayPinned ==
  /\ active <=> displayed # -1
  /\ displayed # -1 =>
       /\ cache[displayed].data # 0
       /\ cache[displayed].session = session
       /\ session_id # 0

\* A key and a session name at most one cached image, so displayCached shows the
\* last one uploaded under that name.
OneImagePerName ==
  \A i, j \in Slots :
    /\ cache[i].data # 0 /\ cache[j].data # 0
    /\ cache[i].key = cache[j].key /\ cache[i].session = cache[j].session
    => i = j

\* The image read for a generation is one image: while the generation stays, so
\* does what is on screen, whatever is cached meanwhile ("cacheOnly never
\* replaces the displayed photo", airtizen_photo.h; airtizen_photo.c:53-54).
GenerationNamesOneImage ==
  [][generation' = generation /\ active =>
       /\ active'
       /\ cache'[displayed'].data = cache[displayed].data]_vars

\* A stop event names its session by number: two sessions that follow each other
\* on screen never share one, even when the counter wraps.
SessionsTellApart ==
  [][active /\ active' /\ session' # session =>
       session_id' # session_id]_vars

-----------------------------------------------------------------------------
(* The inductive invariant behind these properties. *)

\* An asset is empty and counts nothing, or is an image within the limits that
\* was last used at some counted moment.
AssetsKept ==
  \A i \in Slots :
    /\ cache[i].data = 0 => cache[i].size = 0
    /\ cache[i].size <= PhotoMaxBytes
    /\ cache[i].age <= age

BudgetKept == BytesOf(cache, Slots) <= CacheBytes

\* The session on screen has the last id handed out.
IdCurrent == active => session_id = session_counter

IInv ==
  TypeOK /\ AssetsKept /\ BudgetKept /\ DisplayPinned /\ OneImagePerName /\ IdCurrent
=============================================================================
