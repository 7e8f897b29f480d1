----------------------------- MODULE VideoStore -----------------------------
(***************************************************************************)
(* The live H.264 fragment store of native/src/airtizen_video.c.           *)
(*                                                                         *)
(* The mirror receive thread configures the store and pushes frames; each  *)
(* accepted frame becomes one MP4 fragment in a ring of PartCount slots,   *)
(* indexed by its sequence number modulo the ring size, within a byte      *)
(* budget.  The control-HTTP thread reads fragments, and groups of them    *)
(* through an HLS playlist; AirPlay requests reset the store.  Every       *)
(* operation holds the one mutex from start to end, so each is one step.   *)
(*                                                                         *)
(* Data abstraction.  A fragment's bytes are identified by the generation  *)
(* that produced them and its sequence number: `data' is that generation,  *)
(* and 0 is the NULL pointer (no fragment exists before the first          *)
(* configuration, which makes the generation 1).  `mux' stands for the     *)
(* muxer and for init_data, which initialize() creates together and        *)
(* clear_locked() frees together.  last_pts = -1 stands for have_pts = 0.  *)
(* pending and write_failed are empty whenever the lock is free.           *)
(***************************************************************************)
EXTENDS Integers, FiniteSetsExt

CONSTANTS
  PartCount,      \* ring slots (256 in the code)
  TotalLimit,     \* byte budget of the resident fragments (24 MiB)
  Sizes,          \* the fragment sizes the muxer can produce
  HlsGroup,       \* fragments per HLS segment (15)
  HlsWindow,      \* groups before the newest one in a playlist (5)
  Pts,            \* the presentation times frames carry
  MaxGeneration,  \* bound: generations explored
  MaxSequence     \* bound: fragments per generation explored

ASSUME PartCountAssumption == PartCount \in Nat \ {0}
ASSUME TotalLimitAssumption == TotalLimit \in Nat
\* PART_LIMIT <= TOTAL_LIMIT: one fragment always fits the budget.
ASSUME SizesAssumption == Sizes \subseteq 1..TotalLimit
ASSUME HlsAssumption == HlsGroup \in Nat \ {0} /\ HlsWindow \in Nat
ASSUME PtsAssumption == Pts \subseteq Nat
ASSUME BoundsAssumption == MaxGeneration \in Nat /\ MaxSequence \in Nat

VARIABLES
  generation,  \* state.generation
  config,      \* config # NULL
  mux,         \* mux and init_data exist
  latest,      \* sequence, and state.latest which always equals it
  start,       \* state.start; state.available is start # 0
  parts,       \* the ring
  total_size,  \* bytes accounted to the resident fragments
  first_pts,
  last_pts     \* -1 while have_pts is 0

vars == <<generation, config, mux, latest, start, parts, total_size, first_pts, last_pts>>

Slots == 0 .. PartCount - 1
Slot(n) == n % PartCount

EmptyPart == [seq |-> 0, pts |-> 0, size |-> 0, key |-> FALSE, data |-> 0]

Init ==
  /\ generation = 0
  /\ config = FALSE
  /\ mux = FALSE
  /\ latest = 0
  /\ start = 0
  /\ parts = [s \in Slots |-> EmptyPart]
  /\ total_size = 0
  /\ first_pts = 0
  /\ last_pts = -1

-----------------------------------------------------------------------------
(* Helpers of airtizen_video_frame. *)

Resident(ring) == {s \in Slots : ring[s].data # 0}

\* Mutant: eviction goes by slot order instead of age.
OlderThan_slotOrder(ring, cut) ==
  {s \in Resident(ring) : \E t \in Resident(ring) : ring[t].seq = cut /\ s < t}

\* The resident fragments older than sequence number `cut'.
OlderThan(ring, cut) == {s \in Resident(ring) : ring[s].seq < cut}

BytesOf(ring, S) == MapThenSumSet(LAMBDA s : ring[s].size, S)

\* The eviction loop frees the oldest fragment while the total exceeds the
\* budget, so it frees everything below some sequence number: `Cuts' are the
\* numbers at which it could stop, and it stops at the first of them.
Cuts(ring, total, newest) ==
  {newest + 1} \cup
  {c \in {ring[s].seq : s \in Resident(ring)} :
      total - BytesOf(ring, OlderThan(ring, c)) <= TotalLimit}

\* Mutant: the freed slot keeps its size, and its next occupant pays it again.
Freed_keepSize(p) == [seq |-> p.seq, pts |-> p.pts, size |-> p.size, key |-> p.key, data |-> 0]

\* A freed slot keeps its number, time and key flag.
Freed(p) == [seq |-> p.seq, pts |-> p.pts, size |-> 0, key |-> p.key, data |-> 0]

Evict(ring, cut) ==
  [s \in Slots |-> IF s \in OlderThan(ring, cut) THEN Freed(ring[s]) ELSE ring[s]]

\* Mutant: key frames count although their bytes were evicted.
KeySeqs_evictedToo(ring) == {ring[s].seq : s \in {r \in Slots : ring[r].key}}

\* The sequence numbers a player can start from.
KeySeqs(ring) == {ring[s].seq : s \in {r \in Resident(ring) : ring[r].key}}

\* Mutant: the generation stays when the stream is cleared.
ClearedAs_sameGeneration(configured) ==
  /\ generation' = IF generation = 0 THEN 1 ELSE generation
  /\ config' = configured
  /\ mux' = FALSE
  /\ latest' = 0
  /\ start' = 0
  /\ parts' = [s \in Slots |-> EmptyPart]
  /\ total_size' = 0
  /\ last_pts' = -1
  /\ UNCHANGED first_pts

\* clear_locked(), with the generation its three callers carry over it.
ClearedAs(configured) ==
  /\ generation < MaxGeneration
  /\ generation' = generation + 1
  /\ config' = configured
  /\ mux' = FALSE
  /\ latest' = 0
  /\ start' = 0
  /\ parts' = [s \in Slots |-> EmptyPart]
  /\ total_size' = 0
  /\ last_pts' = -1
  /\ UNCHANGED first_pts

-----------------------------------------------------------------------------
(* Operations. *)

\* airtizen_video_reset()
Reset == ClearedAs(FALSE)

\* airtizen_video_configure() with a valid parameter set.  The allocation of
\* the copy may fail, after the store has been cleared.
Configure == \E copied \in BOOLEAN : ClearedAs(copied)

\* Mutant: a frame that repeats the last time is muxed.
Muxable_equalTime(key, pts) == config /\ (mux \/ key) /\ pts >= last_pts

\* A frame reaches the muxer unless there is no configuration, no key frame
\* has been seen since, or its time does not advance.
Muxable(key, pts) == config /\ (mux \/ key) /\ pts > last_pts

\* airtizen_video_frame(): the frame becomes the next fragment.
FrameStored(key, pts, size) ==
  /\ Muxable(key, pts)
  /\ latest < MaxSequence
  /\ mux' = TRUE
  /\ first_pts' = IF last_pts = -1 THEN pts ELSE first_pts
  /\ last_pts' = pts
  /\ latest' = latest + 1
  /\ LET slot  == Slot(latest + 1)
         part  == [seq |-> latest + 1, pts |-> pts - first_pts', size |-> size,
                   key |-> key, data |-> generation]
         ring  == [parts EXCEPT ![slot] = part]
         total == total_size - parts[slot].size + size
         cuts  == Cuts(ring, total, latest + 1)
     IN  \E cut \in cuts :
           /\ \A c \in cuts : cut <= c
           /\ parts' = Evict(ring, cut)
           /\ total_size' = total - BytesOf(ring, OlderThan(ring, cut))
  /\ \E s \in KeySeqs(parts') \cup {0} :
       /\ \A k \in KeySeqs(parts') : k <= s
       /\ start' = s
  /\ UNCHANGED <<generation, config>>

\* airtizen_video_frame(): the decoder probe, an allocation or the muxer fails
\* (label `failed').  The configuration is lost with everything else.
FrameFailed(key, pts) == Muxable(key, pts) /\ ClearedAs(FALSE)

\* airtizen_video_frame(): every early return leaves the store as it is.
FrameDropped(key, pts) == ~Muxable(key, pts) /\ UNCHANGED vars

Next ==
  \/ Reset
  \/ Configure
  \/ \E key \in BOOLEAN, pts \in Pts :
       \/ \E size \in Sizes : FrameStored(key, pts, size)
       \/ FrameFailed(key, pts)
       \/ FrameDropped(key, pts)

Spec == Init /\ [][Next]_vars

-----------------------------------------------------------------------------
(* Readers: airtizen_video_copy, _hls_manifest and _hls_segment. *)

Holds(n) == parts[Slot(n)].seq = n /\ parts[Slot(n)].data # 0

\* airtizen_video_copy() of one fragment, by its number alone.
Copy(n) == IF Holds(n) THEN {parts[Slot(n)]} ELSE {}

GroupFirst(g) == g * HlsGroup + 1
GroupLast(g) == GroupFirst(g) + HlsGroup - 1
GroupSeqs(g) == GroupFirst(g) .. GroupLast(g)
GroupWhole(g) == \A n \in GroupSeqs(g) : Holds(n)

\* The groups a playlist may name: the newest complete one and HlsWindow before.
LastGroup == latest \div HlsGroup - 1
FirstGroup == IF LastGroup > HlsWindow THEN LastGroup - HlsWindow ELSE 0

\* Mutant: the manifest trusts the window and checks no group.
Advertised_unchecked == {g \in FirstGroup .. LastGroup : mux}

\* airtizen_video_hls_manifest(): groups are checked from the first on until
\* one is whole; that one and ALL later ones are advertised, unchecked.
Advertised ==
  {g \in FirstGroup .. LastGroup :
     mux /\ \E f \in FirstGroup .. g : GroupWhole(f)}

\* airtizen_video_hls_segment(): does the URL yield bytes?  The running size
\* must stay within TOTAL_LIMIT.
SegmentServed(gen, g) ==
  /\ gen = generation
  /\ GroupLast(g) <= latest
  /\ GroupWhole(g)
  /\ BytesOf(parts, {Slot(n) : n \in GroupSeqs(g)}) <= TotalLimit

\* EXTINF, in the units of Pts: the subtraction is of unsigned numbers.
GroupDuration(g) == parts[Slot(GroupLast(g))].pts - parts[Slot(GroupFirst(g))].pts

-----------------------------------------------------------------------------
(* Properties. *)

Part == [seq : Nat, pts : Nat, size : Nat, key : BOOLEAN, data : Nat]

\* The type of the store's state (the statics of airtizen_video.c:20-29); what
\* total_size is, BudgetKept says.
TypeOK ==
  /\ generation \in Nat
  /\ config \in BOOLEAN
  /\ mux \in BOOLEAN
  /\ latest \in Nat
  /\ start \in Nat
  /\ parts \in [Slots -> Part]
  /\ first_pts \in Nat
  /\ last_pts \in Nat \cup {-1}

\* The fragments that still have bytes are one unbroken run that ends at the
\* newest fragment, and all of them belong to the current generation: neither
\* the ring's wrap-around nor the eviction loop (airtizen_video.c:145-154)
\* leaves a hole or lets bytes of an earlier stream survive clear_locked().
LiveWindow ==
  \A s \in Resident(parts) :
    /\ parts[s].data = generation
    /\ \A n \in parts[s].seq .. latest : Holds(n)

\* "all advertised bytes must exist" (airtizen_video.c:188): the manifest checks
\* only the first group it advertises, yet every group in it is complete.
AdvertisedBytesExist ==
  \A g \in Advertised : GroupWhole(g) /\ GroupLast(g) <= latest

\* The running total the eviction loop trusts is the size of what is resident,
\* is within the budget, and making room never costs the new fragment itself;
\* so a segment read never exceeds TOTAL_LIMIT (airtizen_video.c:146-153, 219).
BudgetKept ==
  /\ total_size = BytesOf(parts, Resident(parts))
  /\ total_size <= TotalLimit
  /\ latest # 0 => Holds(latest)
  /\ \A g \in Advertised : SegmentServed(generation, g)

\* When the status says video is available, a player that starts at `start'
\* finds the initialization segment, a key frame there, every fragment from
\* there to `latest', and no later key frame (airtizen_video.c:155-157).
StartPlayable ==
  start # 0 =>
    /\ mux
    /\ parts[Slot(start)].key
    /\ \A n \in start .. latest : Holds(n)
    /\ \A k \in KeySeqs(parts) : k <= start

\* Fragment times advance with their numbers, so no EXTINF of a playlist is
\* computed by an unsigned subtraction that wraps (airtizen_video.c:197, 204).
TimesAdvance ==
  /\ \A s, t \in Resident(parts) :
       parts[s].seq < parts[t].seq => parts[s].pts < parts[t].pts
  /\ \A g \in Advertised : GroupDuration(g) >= 0

\* One generation and number name the same bytes for ever: a step either moves
\* to a later generation, or never hands out a number twice, changes no fragment it
\* leaves readable and revives none that was gone (airtizen_video.c:59-82, 145-163).
SameNameSameBytes ==
  [][\/ generation' > generation
     \/ /\ generation' = generation
        /\ latest' >= latest
        /\ \A s \in Slots :
             parts'[s].data # 0 => \/ parts'[s] = parts[s]
                                   \/ parts'[s].seq > latest]_vars

-----------------------------------------------------------------------------
(* The inductive invariant behind these properties. *)

\* Every number still in the ring's reach is in its own slot and nothing else
\* is in the ring.
RingPlaced ==
  /\ \A s \in Slots : parts[s].seq # 0 =>
       /\ Slot(parts[s].seq) = s
       /\ latest - PartCount < parts[s].seq
       /\ parts[s].seq <= latest
  /\ \A n \in 1 .. latest : latest - PartCount < n => parts[Slot(n)].seq = n

\* Bytes belong to a numbered fragment of this generation, and a fragment newer
\* than one with bytes has bytes too.
SuffixResident ==
  /\ \A s \in Slots : parts[s].data # 0 => parts[s].seq # 0 /\ parts[s].data = generation
  /\ \A s, t \in Slots :
       parts[s].data # 0 /\ parts[s].seq < parts[t].seq => parts[t].data # 0

\* The clock: last_pts bounds every stored time, and times follow numbers.
ClockKept ==
  /\ last_pts = -1 => latest = 0
  /\ last_pts # -1 => first_pts <= last_pts
  /\ \A s \in Slots : parts[s].seq # 0 => first_pts + parts[s].pts <= last_pts
  /\ \A s, t \in Slots :
       parts[s].seq # 0 /\ parts[s].seq < parts[t].seq => parts[s].pts < parts[t].pts

\* start is 0 or the newest resident key frame.
StartKept ==
  /\ start # 0 => \E s \in Slots : parts[s].data # 0 /\ parts[s].key /\ parts[s].seq = start
  /\ \A s \in Slots : parts[s].data # 0 /\ parts[s].key => parts[s].seq <= start

\* A configured store has left generation 0, and fragments need a muxer.
LifeKept == (config => generation # 0) /\ (latest # 0 => mux)

\* What has no bytes counts none; the rest is BudgetKept, but for what a reader gets.
BytesKept ==
  /\ \A s \in Slots : parts[s].data = 0 => parts[s].size = 0
  /\ total_size = BytesOf(parts, Resident(parts))
  /\ total_size <= TotalLimit
  /\ latest # 0 => Holds(latest)

IInv == TypeOK /\ RingPlaced /\ SuffixResident /\ ClockKept /\ StartKept /\ LifeKept

=============================================================================
