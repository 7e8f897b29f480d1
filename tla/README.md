# AirTizen: a TLA+ model of the receiver

AirTizen is an AirPlay receiver that runs on a Samsung TV. A native receiver
(`native/`, C and C++, also built as a Tizen service and as a development
process) takes RAOP audio, mirrored screens, photos and film URLs from Apple
devices; a web application (`app/js/`) shows them. The two talk over a control
HTTP server on 127.0.0.1:45110 and, for the NaCl module, over messages.

This directory holds models of the parts that keep state between requests and
threads, the TLC runs that check them, and proofs, checked by TLAPS, of all of their
safety properties that hold, for every value of the constants. `PROJECT.json` maps each
definition to the source lines it stands for.

    tlc -workers 2 -config MCMirrorStream.cfg MCMirrorStream
    tlapm VideoStoreProofs.tla

## The system

| Component | State it keeps | Operations | Who calls it |
|---|---|---|---|
| Video store `airtizen_video.c` | ring of 256 MP4 fragments, byte budget, generation, start and newest number, clock | configure, frame, reset, status, copy, playlist, segment | mirroring thread; control HTTP thread; AirPlay HTTP thread (reset) |
| Photo cache `airtizen_photo.c` | four images, byte budget, image on screen, generation, session number | put (display, cacheOnly, displayCached), reset, copy, report | AirPlay HTTP thread; control HTTP thread; mirroring thread (reset) |
| Shared film `airtizen_playback.c` | URL session, rate, ready/failed, generation | play, stop, rate, seek, report | AirPlay HTTP thread; control HTTP thread |
| Mirror receive thread `airtizen_mirror_receive.inc` | running flag, channel, clock base | accept, read, configure, frame, stop and join | RTSP handlers |
| Receiver core `airtizen_core.c` | RAOP instance, session count, audio state, log ring | callbacks of the RAOP library, start, stop | RAOP threads; runtime |
| Audio queue `nacl/audio_queue.c` | ring of PCM frames | open, write, render, close | RAOP thread; PPAPI audio thread |
| Audio host `nacl/receiver_module.cc` | device, wanted and current format, waiters | Open, Write, Close, Configure, Shutdown | RAOP threads; main thread |
| Video host `nacl/video_host.h` | packet queue, hardware decoder, pictures | Enable, Configure, Frame, Reset, Pump and its callbacks | mirroring thread; main thread |
| Runtime `airtizen_runtime.c`, `airtizen_tizen_service.c` | started flag, name, profile, last error | start, stop, profile switch | owner thread; control HTTP thread |
| mDNS responder `airtizen_mdns.c` | socket, thread, published records | start, answer, announce, goodbye, stop | runtime; its own thread |
| Control HTTP server `airtizen_control_http.c` | socket, thread | one request after the other | web application |
| AirPlay HTTP `airtizen_airplay_http.h`, `airtizen_reverse.h`, vendored `httpd.c` | connections, reverse channel | /photo, /play, /rate, /stop, reverse events | senders |
| Players `app/js/video-mse.js`, `video.js`, `share.js`, `photo.js` | epoch, generation, media element | timers, requests, media events | browser event loop |
| App `app/js/app.js`, `native-bridge.js` | busy flag, timer, waiting control, saved profile | refresh, start, stop, profile choice, restore | remote control; browser event loop |
| RAOP sessions, vendored `raop.c`, `raop_rtp.c`, with `airtizen_raop_guard.h` | one object of two streams per connection, what waits for its audio thread | SETUP, TEARDOWN, FLUSH, SET_PARAMETER, audio packets | senders |
| Music metadata `airtizen_metadata.c` | title, progress, artwork and its number | parse, artwork, reset, snapshot, copy | RAOP threads; control HTTP thread |
| Codecs, cryptography, JSON | none to speak of | pure functions | all |

How they interact. Every store has one mutex, held from the beginning to the
end of each operation, so an operation on one store is atomic and anything that
needs two stores is not. The mirroring thread calls the core's callbacks, which
call the video store, the photo cache and the film state in turn; the AirPlay
HTTP thread does the same in another order. Players see the stores through
`/status` and through numbered media URLs that may have become stale by the
time they are asked for. The NaCl host adds a main thread that alone may touch
devices, which other threads must wait for. Starting and stopping goes through
a runtime lock and joins threads, one of which may be the one that asked.

What is hard here: eviction and wrap-around while readers hold numbers;
several calls that together mean one thing; joins and waits between threads
that wait for each other; chains of callbacks that must neither break nor fork;
partial failures of a start; decoders that fail while something new arrives.
`PROJECT.json` lists these hazards one by one, at their lines.

What makes each component correct:

* stores: what is advertised exists, one name means one thing for ever, budgets
  hold and never cost the thing they make room for;
* mirror thread: no picture survives its channel, stops return;
* audio: what is written is played, in its own format, and nothing waits for ever;
* video host: frames reach the right decoder in order, no wakeup is lost, pictures
  go back, failure ends in the fallback;
* runtime: up altogether or down altogether, records describe what listens;
* arbitration: one medium at a time, a stop clears everything, senders are told;
* sessions: every stream is counted once, nothing of a sender outlives its last
  stream, and nobody else's track is cleared;
* app: one refresh chain, keys are not lost, the user's choice of profile wins;
* players: one pending callback, a gap-free feed, catching up.

## The modules

Each module begins with a comment on what it abstracts from. Threads are
modelled at the grain of lock sections; a handler that calls several stores is
a script of calls.

* **VideoStore.** The fragment store. `Configure`, `Reset`, `FrameStored`,
  `FrameFailed` and `FrameDropped` are the outcomes of the writing operations,
  with the eviction loop; `Copy`, `Advertised` and `SegmentServed` are what the
  readers get. Muxing and the H.264 conversion are a size, a time and a key flag.
* **PhotoCache.** The photo receiver: lookup, least-recently-used eviction,
  the display pin, generations and session numbers (with their width).
* **MirrorStream** (extends VideoStore). The receive thread on top of the store.
  Its frames go through the rebasing of the sender's clock, and a photo may
  dismiss the video at any moment (`Dismissed`).
* **VideoClient** (extends VideoStore). The MediaSource player against the
  store, with answers that are lost or overtaken.
* **AudioQueue**, **AudioFifo.** The PCM ring, and the bounded FIFO it is shown
  to implement (`ImplementsFifo`, by the refinement mapping `Queued`).
* **AudioHost.** The path from `cb_audio_process` to the device: two locks, the
  main thread, a device that may not start, stops from two threads.
* **VideoHost.** The hardware decoder of the NaCl module and the direct player
  of `app/js/video.js` that enables it and falls back to HLS.
* **Lifecycle.** Runtime, core, mDNS and control HTTP threads under the three
  programs that own them (`process`, `service`, `nacl`).
* **RemoteControl** (extends Lifecycle). The app's screen and its bridge as the
  client of the NaCl module: the chain of status requests, controls that wait,
  requests that are given up and carried out all the same, the restore of the
  saved profile, and a page that is unloaded. The two other owners keep the
  arbitrary clients of Lifecycle.
* **Sessions.** The connections of senders, their streams and threads, the
  callbacks of the core that they make, the track and the picture. The HTTP
  thread works off lists of calls (`todo`), an audio thread another (`hand`);
  each call is one lock section.
* **SharedMedia.** Photo, film and mirrored screen, which dismiss each other by
  separate calls of three threads; the reverse channel that tells a sender.
* **Overlays** (extends SharedMedia). The page's photo and film overlays, the
  poll of `/status` that drives both, and their reports, which may be lost or
  come late. A status reads film and photo under two locks (`StatusFilm`,
  `StatusPhoto`); pictures are served, loaded and shown in separate steps.
* **VideoStoreProofs** (VideoStore, MirrorStream, VideoClient),
  **PhotoCacheProofs**, **AudioQueueProofs**, **AudioHostProofs**,
  **VideoHostProofs**, **LifecycleProofs** (Lifecycle, RemoteControl),
  **OverlaysProofs** (SharedMedia, Overlays), **SessionsProofs.** Theorems.
* **MC\*.** Instances for TLC. Definitions whose comment begins with *Mutant*
  are faulty variants of the definition that follows; no specification uses
  them. They are there to show that the property can fail.

## The runs

| Run | Checks | Bounds, and why they are enough |
|---|---|---|
| `mirror_store` | LiveWindow, AdvertisedBytesExist, BudgetKept, StartPlayable, TimesAdvance, SameNameSameBytes, EndedChannelShowsNothing, StopReturns | ring of 4, 6 fragments (wraps), budget 6 with sizes 1 and 3 (the ring or the budget may bind first), HLS groups of 2, six generations, times that repeat or go back; a stop in every state of the thread, several channels |
| `photo_cache` | RoomForEveryPhoto, DisplayPinned, GenerationNamesOneImage, SessionsTellApart | two large images fill the budget, four small ones the slots (that any further upload then finds one is RoomForEveryPhoto; the step that takes it is beyond the four uses of the bound and left to the proofs), session numbers wrap at 3 |
| `audio_queue` | ImplementsFifo | ring of 3, blocks of up to 4: every alignment, overfull writes, underruns; two distinct frames |
| `audio_host` | WritesInOwnFormat, ShutdownIsFinal, CoreStopReturns | two threads, two rates, two channel counts, a queue of one frame with blocks of two |
| `video_host` | OneOfEachCall, PicturesReturn, NoLostWakeup, FramesInOrder, FallbackTakesOver | queue of one packet (overflows), two configurations, three frames (one painted, one waiting, one coming), one stop, reset (in time or late), shutdown or failing call at any moment, starts not counted |
| `remote_control` | RecordsDescribeReceiver, AllOrNothing, OneRefreshChain, ChoiceStands, OwnerEnds, PressIsHandled | all three owners, both profiles, either of them saved, two starts of the core (one restart), three keys, each pressed once, two connections that wait: enough for a choice made before, during and after a restore that was given up, and for a key that waits behind another's control while the third goes first |
| `sessions` | SessionsCounted, NobodyLeft, NumberNamesPicture, OthersKeepTrack, SetIsTaken | two senders, three objects (one may be left behind), six requests and packets: two full sessions that overlap, or one with a stop and a new start |
| `video_client` | OneChain, FedInOrder, CatchesUp | ring of 2 so that fragments vanish between requests, two generations, four fragments, three disturbances |
| `overlays` | PhotoAlone, StopClears, VideoStateTold, ReportsAreCurrent, ScreenFollows | two senders, one of them with the reverse channel, three requests, configurations, stops or bad answers, one report on its way: any two handlers overlap while a status, a picture and a report about something older are under way |
| `mirror_clock`, `lifecycle_stale`, `shared_stop` | violated, see below | as their passing siblings |

Each module has a type invariant, `TypeOK` (`PlayerOK` in VideoClient), where its
variables have more shape than their initial values show; they are proved, by
themselves or as part of an inductive invariant, and no run spends a property on
them. The inductive invariants were checked with TLC under the runs' bounds before
they were proved. Runs that switch the deadlock check off are bounded (a counter that ends the
behaviour) or model something that really stops (a program that has ended).

What the less obvious properties say:

* `LiveWindow`: fragments with bytes are one unbroken run up to the newest, all
  of the current generation. `AdvertisedBytesExist` follows although the
  playlist looks at one group only.
* `SameNameSameBytes`: generation and number together never name two things.
* `RoomForEveryPhoto`: with a budget of two largest images the pinned image can
  never cause a refusal: neither 503 under the lock can happen.
* `WritesInOwnFormat`: with two senders of different formats, a block is only
  written to a queue and device opened for its own format.
* `NoLostWakeup`: `posted_` merges calls of `Pump()`; a packet that could be
  decoded is never left without a call on its way.
* `FramesInOrder`: frames of one configuration never reach the decoder of
  another, and none is skipped or repeated.
* `FallbackTakesOver`: after a failure of the decoder the page is on HLS and the
  decoder off, or the page was stopped meanwhile.
* `RecordsDescribeReceiver`: what mDNS listeners have been told is true of the
  receiver that listens, at every step of a start, stop or switch.
* `NobodyLeft`: when the last stream's disconnect is carried out, no thread with
  a packet or an event in hand sets anything again. `SessionsCounted` is why the
  receiver knows which disconnect is the last.
* `OthersKeepTrack`: `cb_disconnected()` decides under one lock and clears under
  two others; no session that goes on is cleared by it, because starts and stops
  of streams are made by one thread.
* `NumberNamesPicture`: the number of an artwork goes on counting over resets, so
  a page that asks late gets its picture or none.
* `ChoiceStands`: a restore that was given up and is carried out late never
  follows a choice that was carried out: one thread takes connections in order.
* `PressIsHandled`: a press that waits is begun, or a later press waits in its
  place. What is pressed directly may overtake it: `control()` leaves alone what
  waits, and only a status begins it. The runs' keys are finitely many; a user who
  presses one after every answer could keep the first waiting for ever.
* `PhotoAlone`: once all handlers are done, a photo is on screen alone, in
  whatever order their calls met.
* `ScreenFollows`: the page never stays behind the receiver, although statuses
  are old, lost or no statuses, and pictures are gone when they are asked for.
  It depends on the reset forgetting the generation. `ReportsAreCurrent`: a late
  report never ends the film, or fails the photo, that came after the one it is about.
* `OneChain`: the player waits for exactly one callback; `FedInOrder`: its
  decoder gets one generation, from a key frame on, without a gap.

### Fairness

* MirrorStream: the thread polls `running` every 250 ms and finishes a packet it
  has; a stop that has begun goes on. Nothing is assumed of senders.
* AudioHost: a thread goes on with a call it has begun, and the main thread's
  loop runs what was posted to it. The waits are guards, not fairness.
* VideoHost: the main thread does not stand still with something to do, the
  platform's answers included; messages reach the page. Weak fairness of the
  whole thread is enough, as every kind of work is finite.
* Lifecycle: calls go on; socket reads and writes have timeouts, so a thread
  that is told to stop looks at its pipe; a thread waiting for `g_lock` gets it
  (strong fairness), since the other caller reads a request between two calls.
* RemoteControl: that of Lifecycle; timers of the page fire, and a request ends,
  by its answer or by the 1.8 s timeout; the HTTP thread goes on with a request
  it has taken. Nothing is assumed of answers.
* Sessions: the HTTP thread and a stop go on with what they have begun; an audio
  thread wakes every millisecond (`raop_rtp.c`, `select()`) and goes on with its
  calls. Nothing is assumed of senders.
* VideoClient: timers fire and requests end (`xhr.timeout`).
* SharedMedia: `httpd_thread` polls the reverse channel at least every 50 ms;
  an event that is not answered ends its channel after ten seconds.
* Overlays: that of SharedMedia; polls follow each other for ever, and not all
  their answers are lost (if all are, the page cannot know anything); the control
  server accepts connections in order, so a picture asked for between two polls
  is served (strong fairness), or is missing. Nothing is assumed of reports, and
  answers that are no status are among the counted events.

### Where code and documents disagree

* `mirror_clock` / `RestartedClipShown`: the receive thread rebases a clock that
  goes back ("A new clip may restart its timestamp clock without ending RTSP"),
  but the store drops the frames, whose times are not later than the last one.
* `lifecycle_stale` / `NoStaleRecord`: the NaCl destructor (and the Tizen
  service) stops the runtime before the HTTP server; a `/start` between the two
  leaves announced records behind ("no stale duplicate after stop").
* `shared_stop` / `PhotoStopTold`: a photo session that ends and comes back
  between two polls of the reverse channel is overwritten there, and its
  `photo/stopped` event is never sent.

Five behaviours have no sentence of a document against them and are recorded as
hazards only. A second SETUP with keys on a connection replaces its object
without stopping the first, whose threads are then never joined and whose
sessions stay counted; `Sessions` has such objects (`LeftBehind`), and its
properties are about receivers without them (`AllOwned`). `Pump()` of the video
host reads its work in two lock sections: a configuration between them goes to
the old decoder, and the new one starts without SPS and PPS. A failure that
`Pump()` has read but not yet reported cancels a configuration that arrives in
between. Enabling the decoder in the middle of a stream fills the queue without a
decoder until it overflows. So does `airtizen_video_reset()` on another thread
(a photo that is put), which clears the store under its lock and the video host
after it: a stream configured in between goes on without a decoder. The model has
these four; what is checked is that a decoder that fails, or a queue that
overflows, ends in the HLS fallback or a stop. Whether a fallback was needed is
not: one that follows from a stale failure or message satisfies FallbackTakesOver.

## The proofs

All proof modules follow one plan: an inductive invariant, stated at the end of
the component's module (`IInv`, and `ClientInv` or `PageInv` for the modules that
extend another); `Init => IInv`; one lemma per action, or per kind of action, that
it preserves `IInv`; `Spec => []IInv`; then each property from it. The theorems
hold for all values of the constants that satisfy the named assumptions, which
say that bounds are natural numbers, that sets are not empty where the code
indexes them, and what is mentioned below. A specification's fairness is not used.

**VideoStoreProofs** proves TypeOK, LiveWindow, AdvertisedBytesExist, BudgetKept,
StartPlayable, TimesAdvance and SameNameSameBytes. Assumptions: a ring of at
least one slot, a non-empty HLS group, natural times, and fragments that fit
the budget by themselves. None of the properties is inductive: LiveWindow says
nothing of slots without bytes, which later fragments overwrite. `RingPlaced`
adds that every number in reach is in its own slot and nothing else is in the
ring; `SuffixResident` that bytes are a suffix; `ClockKept` that `last_pts`
bounds all stored times; `StartKept` that `start` is the newest resident key
frame; `LifeKept` that fragments need a muxer. The arithmetic of slots
(`SlotDistinct`, `SlotPeriod`) and of groups (`GroupOrder`, `GroupEnd`) is in
lemmas of its own; `FrameEffect` describes what a stored frame does to every
slot, so that the invariant is proved from that and not from the eviction loop.

BudgetKept is about a sum over the slots that the community modules define by
recursion. What a step does to such a sum (`SumUnfolds`, `SumRemoves`, `SumParts`) is
proved by the smallest counterexample: were two ways of adding up a finite set to
differ, they would differ on a set with the fewest elements (`Fewest`, from the
well-foundedness of the natural numbers), and without one of its elements they would
not. `BytesKept` then says that `total_size` is the sum of the bytes held, and the
eviction stops before it exceeds the budget because a fragment fits by itself.

In the same module, of MirrorStream: all of this again for the receive thread's
specification, and EndedChannelShowsNothing. A step of the thread is one operation
of the store or none (`StoreOperation`), whatever its clock base makes of the
sender's times, so the store's invariant carries over, and MirrorStream implements
the store (`MirrorImplementsStore`); `MirrorKept` adds where the thread may be when
there is something in the store. Of VideoClient: OneChain and
FedInOrder. The player is fed from answers that are out of date when they come, and
neither property says why that does no harm. `Startable` does: if the store still
has the generation an answer named, the start it named is at most the newest number
and still a key frame, if it is held at all. `RequestKept` says what a request on
its way promises, `FeedKept` how `next` and the state of the MediaSource fit what
was fed.

**PhotoCacheProofs** proves TypeOK, DisplayPinned, OneImagePerName (which no run
repeats),
RoomForEveryPhoto, GenerationNamesOneImage and SessionsTellApart. Assumptions:
the empty key is no key, images are within the limit, two largest ones fit the
budget, at least three session numbers. `IInv` adds `AssetsKept` (empty slots
count nothing; ages do not exceed the counter), the budget, and `IdCurrent`
(the session on screen has the last number handed out), without which a wrapped
counter could repeat a number. `RoomForEveryPhoto` needs that a least-recently
used slot exists among four (`LeastOfFour`, `TargetExists`, `RoomExists`).

**AudioQueueProofs** proves that the ring implements AudioFifo (`ImplementsFifo`),
for every capacity and block: initial states map to initial states, and each of
open, write, render and close maps to that step of the queue. The work is modular
arithmetic: `FilledAt` and `IndexAt` say which slot is the i-th queued frame before
and after.

**AudioHostProofs** proves WritesInOwnFormat and ShutdownIsFinal for any number of
threads. `RequestKept` ties the one call of `Configure()` on the main thread to the
one thread that waits for it under `g_audio_lock`; `DeviceKept` says that the device
follows `rate_` when nobody waits; `ClosingKept` what the destructor has done so far.

**VideoHostProofs** proves TypeOK with the limit of the queue, OneOfEachCall,
PicturesReturn, NoLostWakeup and FramesInOrder. OneOfEachCall needs to know which
flags go together in a decoder that is being made, fails or is gone (`CallsKept`);
PicturesReturn counts pictures also while a failure is not yet reported (`HeldKept`); NoLostWakeup
needs that `posted_` is never set without a call queued (`PostKept`). FramesInOrder is
about what a decoder was given; `OrderKept` adds what waits: the queue goes on where the
decoder is, or begins the configuration its successor is for, and the sender goes on
where the queue ends, unless frames are refused until the queue is emptied. Between
the two sections of `Pump()` a new configuration may empty the queue; what is taken
then is the configuration, never a frame of it, as `config_` is looked at first.

**LifecycleProofs** proves RecordsDescribeReceiver and AllOrNothing, of Lifecycle for
any owners and of RemoteControl with the app as a client, OneRefreshChain and
ChoiceStands.
`LockKept` says that at most one call is past `g_lock`; `StagesKept` how far up the
receiver is at each step of a call, failed starts included; `RecordsKept` that the
name, profile and key of announced records are changed only after the goodbye.
`ChoiceKept` follows the requests themselves: no restore waits behind a choice, none is
left when a choice is carried out, and a page that has made a choice sends no restore
any more. From the kinds of the requests that wait, RemoteControl implements Lifecycle
(`RemoteImplementsLifecycle`, with the reading of a status as the one call that Lifecycle
leaves out), so that Lifecycle's clients stand for the app.

**OverlaysProofs** proves PhotoAlone and StopClears, of SharedMedia and of SharedMedia
with the page, and ReportsAreCurrent. PhotoAlone is about handlers that are done; the
invariant is about those that are not: whoever shows something still owes the calls
that dismiss the rest (`Owed`, `AloneKept`, `ScriptsKept`). `FilmKept`, `PictureKept`
and `PostsKept` say what the page, and a report on its way, may still claim.

**SessionsProofs** proves SessionsCounted, NobodyLeft, NumberNamesPicture and
OthersKeepTrack, for any connections and number of objects. `CallsKept` describes the
lists that the HTTP thread works off: only a joined stream is reported disconnected,
and a stream is started or an object freed by the last call of a list, when nothing
runs in it. With it each report changes the count and the set of live streams
together; `ClearedKept` says that the clearing calls are ahead while anything is left
to clear, and only while nothing runs. What is left behind stays so (`LeftStays`).

Only model-checked:

* every liveness property: fairness is out of the provers' reach;
* what the three runs with a violation show.

## Not modelled

* Byte formats and codecs (H.264, AAC, ALAC, FairPlay and RSA, DMAP, JSON, the
  DNS packet encoder and question parser): pure functions of bytes, which the
  repository's unit tests cover and TLC does not reach. Where they can fail, the
  models have both outcomes.
* Parsing and authorization of HTTP requests: no state follows from them.
* Of the vendored RAOP library: pairing, decryption, the resend buffer and the
  timing thread. Of the core: gain, codec text, pairing flag and log ring.
* The HLS player of `video.js`, which leaves playback to the television's own
  HLS engine. Of the film overlay: play, pause and seek, which are between the
  viewer and the browser's element; a report says anything of them.
* Screens, focus and texts of the app, and the loading of its module.
* Build and packaging.

`PROJECT.json` gives the reason for each part.

## Plan

The order was: the stores that everything reads (VideoStore, PhotoCache, with
proofs); what feeds and reads them (MirrorStream, VideoClient); devices
(AudioQueue, AudioHost, VideoHost); start and stop (Lifecycle); arbitration
(SharedMedia); sessions and metadata (Sessions); the page as a client
(RemoteControl, Overlays). What is left:

1. The HLS player as a second reader of VideoStore, once the behaviour of the
   television's HLS engine is known.
