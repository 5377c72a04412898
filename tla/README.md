# Subtitle translation: TLA+ models

This directory models the core of the subtitle translation service in `src/`
(one Go package, `src/services`): the job that translates a subtitle file, the
job that follows a live transcoder session, the source and the document it
reads, the registry that runs the jobs, the translator that cuts a batch up, the
lock and the records several replicas share, and the HTTP handler's polls. TLC
checks the models on small instances, and TLAPS proves the central results for
every value of the constants.

Paths below are relative to `src/services/` unless they say otherwise.

## The system

A player polls one URL per subtitle track and target language. The handler
hashes it to an *artifact key*, answers with what has been translated so far,
and makes sure that a background job for the key is running. Replicas share a
store (Redis and S3, or an in-memory twin for one process) that holds, per key,
a progress record, the final artifact, a lock with a token and an expiry, and
the viewer's playhead.

| component | code | state | operations |
|---|---|---|---|
| File job | `job.go` run, runBatch, translateChunk, writeFinal | the record in memory, the batch's context | check final, lock, load, register, batches, final, unlock |
| Job runner | `job.go` NewRunner, Ensure, Touch, Close | running jobs, live sources, idle marks, two slot pools | Ensure, Touch, LiveSource, Wait, Close |
| Store and lock | `store.go`, `redis_store.go` | record, artifact, lock token with its expiry, playhead | Get/Put/Drop, TryLock, RefreshLock, Unlock |
| Live source | `live_source.go` | the document, seen segments, strikes, ended / contiguous / runEnded / gone / retired, current run, a one-token channel | Refresh, RefreshIfStale, Retire, MarkRunEnded, SetURL |
| Live document | `live_doc.go` | cues in append order, keys seen | AddSegment, Snapshot |
| Progress alignment | `live_job.go` collectKnown, lookup, alignLines, syncLive | the record's keys and lines | one alignment per tick |
| Playlist parser | `hls_playlist.go` | none | ParseMediaPlaylist |
| Live job | `live_job.go` runLive and helpers | the record in memory, last run, batch, watcher | poll, sync, order, translate, retarget, publish, finish, stop |
| Live handler | `web.go` liveFor, liveRefresh, ServeHTTP | one cache entry per key: current source, retired sessions | lookup, swap, refresh, second look, Ensure, answer |
| File handler | `web.go` docFor, ServeHTTP | document cache | fetch once, Ensure, PutPos, ranges |
| Snapshots | `job.go`, `live_job.go` Snapshot, Progress, LiveSnapshot, liveFrontier | none | what a poll is answered with |
| Translator, providers | `translator.go`, `provider.go`, `anthropic.go`, `openai.go`, `prompt.go`, `job.go` translateChunk | none | one batch of lines to one reply, retried or cut in half |
| WebVTT | `vtt.go` | none | parse, normalise, render |

How they interact. `ServeHTTP` calls `Ensure`, which starts at most one
goroutine per key and process; across processes only the store's lock keeps two
workers apart, and it can expire under a worker that is slow. A live job and all
the polls of its key read one `LiveSource`: `refreshMu` serialises whole reads,
`mu` only single fields, so everything else runs between the fetches of two
segments. A new transcoder run wakes the job through a channel of capacity one,
which the job's loop and the watcher of its batch both receive from. The handler
swaps a key's source when a viewer turns up with another session, retires the
old one, and relies on the job to notice.

What is hard about it: jobs of two replicas interleaving between any two store
calls; a write that is applied although its caller saw an error; a crash or a
failed unlock that leaks the lock; a deadline measured from the batch's start
against a lease measured from its last refresh; decisions a live tick takes from
a snapshot while the handler's reads add to the document; a seek that makes
cues arrive out of movie-time order; a segment that never answers in front of
others that would; viewers of two sessions polling the same key; a cache that
evicts what a job still follows. `PROJECT.json` lists these hazards, each at its
line, with the properties aimed at it or the reason there is none yet.

What makes each component correct:

- *File job*: an artifact is complete, since it is served for good; the lock is
  given back on every path; HEAD never falls back to 0/0 under a running batch;
  a polled key ends final; Close drains.
- *Job runner*: one job per key and process; no slot is lost; a mark goes with its
  entry; file jobs do not queue behind films; an abandoned live job ends; after
  Close nothing runs.
- *Translator*: a cue's line is made from its own text however a batch is cut up;
  a batch that is done leaves none empty, one that fails a proper prefix; the
  calls it costs are bounded.
- *Store and lock*: a lease is only ended by its owner or by time.
- *Live source*: contiguous and ended means the whole film; ended means every
  segment was read or given up on; a dead segment delays nothing for ever.
- *Live document and alignment*: a line of the film is in the document once and
  paid for once, whatever runs it was read in; nothing of a run is dropped; a
  line stays with its cue, and the record keeps what it ever held.
- *Live job*: the artifact holds the film; no write takes a translation away; no
  wake-up is lost; a status is a verdict on the record it is in; every cue that
  was read is translated.
- *File handler*: "complete" is said only of a complete track; a poll never counts
  backwards except just before the artifact; a HEAD never causes a fetch nobody
  asked for; a client that hangs up takes nobody's fetch along.
- *Live handler*: no swap storm; a replaced source is retired; a 404 is evidence
  of a dead session; the key moves to the session that lives.

## Modules

| module | models |
|---|---|
| `Lease` | abstract specification: what `Store.TryLock` promises (`store.go:45-47`) |
| `FileJob` | the file job on several replicas over one store; implements `Lease`, and `Artifact` for one document and one writer |
| `LiveSource` | one transcoder session and the source that reads it |
| `Artifact` | abstract specification: what the readers of a key are promised (`live_job.go:299-316`, `864-866`) |
| `LiveJob` | the live job over `LiveSource` (EXTENDS it; every source step is a step of the composition); implements `Artifact` |
| `LiveHandler` | the polls, the cache entry and the job registry of one live key |
| `Runner` | the registry of one replica's jobs, several keys of both kinds |
| `Chunk` | one batch on its way through translateChunk and translateBatch |
| `LiveDoc` | a live document in movie time, and the record lined up with it |
| `FilePoll` | the polls of one file track and the fetch they share |
| `MCFileJob`, `MCLiveSource`, `MCLiveJob`, `MCLiveHandler`, `MCParts` | values of the constants for TLC; `MCParts` puts the last four side by side |
| `FileJobProofs`, `LiveSourceProofs`, `LiveJobProofs`, `LiveHandlerProofs`, `RunnerProofs`, `ChunkProofs`, `FilePollProofs`, `LiveDocProofs` | theorems and proofs |

How they fit. `LiveJob` is composed with `LiveSource`. The others meet at a
narrow place each, where one takes for granted what another shows: `FileJob` and
`LiveJob` let a batch fill all of its cues or a proper prefix of them, which is
`Chunk`'s `PrefixKept`; they start a job when they please, and `Runner` shows
that a key has one of them; `LiveSource` and `LiveJob` identify a cue by its place
in the film, `LiveDoc` looks at how the code recognises it, and `DocumentIsByPlace`
and `RecordIsByPlace` prove that the two agree for a film that repeats no line
within the tolerance; `FilePoll` reduces the job to
what it does to record and artifact, which `FileJob` has in full.

A definition that `Next` does not use, placed right before the one it is a
faulty form of (`ResumedAnySize` before `Resumed`), is a plausible bug;
`PROJECT.json` ("mutants") names for every property one whose substitution makes
it fail.

### FileJob

`pc[r]` is the store or upstream call at which replica r's job stands, and every
such call is one action with one or more failing twins: `TryLockFails` may have
taken the lock (its owner is then `Orphan`, a token nobody holds),
`RegisterFails` and `StoreBatchFails` may have written (`MaybeWritten`),
`PutFinalFails` too, `UnlockFails` leaks the lock, `TranslatePanics` is the
recover in `Ensure`, `KeepPartial` the PutProgress of a failed batch on a fresh
context. `Tick` is one unit of wall-clock time: it runs down the lease and the
batch deadlines; `DeadlineExceeded` cancels the batch whose deadline is over.
`ReadPos` takes any playhead, for the polls may have put it at any moment.
`Crash`, `Close` and `RecordExpires` come from outside. A line of the
record is told apart only as empty or not (`lines` is the set of non-empty
ones). `Docs` are the documents a fetch may have given a job: two replicas may
disagree on the cue count, which is what `Resumed` has to guard.

Everything that can go wrong takes one of `MaxFaults`. `SlowStore` says whether
time may pass in the store calls made between two batches.

### LiveSource

The film has cues 1..Cues in movie time; a run starts at an offset and writes
one segment per cue behind it. A read (`reading`) takes the playlist once
(`BeginRead`), deals with the unseen segments one at a time (`FetchSegment`,
`SegmentFails`, `SkipSegment` on the last strike, `Abort` on a transient
failure) and settles the flags at its end (`EndRead`), exactly in the order of
`refresh`; a read may instead meet a retired source, a dead session or a
failure. Segments are identified by offset and number, as in the code's `seen`.
The transcoder (`Write`, `EndList`, `Seek`, `Reap`) runs between any two steps.

### LiveJob

One tick of runLive is `Wake`, `Poll` (and the source's read), `LookOk` or one
of its siblings, `Sync`, `Select`, then `StartBatch` or `NoBatch`, the batch
(`Translate`, `StoreBatch`, `RefreshLock`), `Publish`, and `GoOn`, `Finish` or
`KeepAlive`. `Retarget` is the watcher cancelling a batch, `PutBack` the token it
gives back; `RenderFails` ends a job whose last text does not render, with
its run not marked over. `HandlerReads` is a viewer's RefreshIfStale. `tr[c]` is the cue whose
*text* the translation filed under cue c was made from, which is what makes a
misfiled translation visible. The batch-wait timer, the idle timer and the
age of a run are choices.

What a reader of the key is given (`TextNow`) is the artifact's text, or the
record's if there is no artifact. `Artifact` says of it, without runs, batches or
records, that lines are only added, each for good, and that one step fills all
that are left and ends the story; `ArtifactKept` is that specification with
`TextNow` put in, so a DropProgress that came before its PutFinal, a record
started over, or a second artifact would each show.

### LiveHandler

A request walks through `lookup` (the cache), `settle` (the switch of liveFor
under the entry's mutex), `refresh` and `reading` (RefreshIfStale), once more
through `lookup` if its source is gone, and `ensure`. `sources` and `entries`
keep everything ever built, so that a request may hold an entry the cache has
dropped. The job is the source it follows; `JobFindsGone` and `JobEnds` are its
ways out, and LiveJob says when they happen.

### Runner

`Ensure` is one critical section: closed, already running and "this run is
over" are its early returns, and entry and idle mark appear together. A
goroutine is queued, takes a slot of its kind's pool, works, and undoes its
deferred calls one by one (`ReleaseSlot`, `Unregister`, `Exit`), since another
key's Ensure, a poll's `Touch` and `Close` can come between any two of them.
`EndWork` stands for every way `run` comes back, a recovered panic included.
`Close` is three steps: no new job, cancel, wait for the wait group.

### Chunk

`todo` is the recursion of translateChunk as the sequence of chunks not answered
yet. Each action is one upstream call with one verdict: as many lines as asked
for, a mismatch (once more with a reminder, then the source text), a refusal, a
truncated reply (cut in half, or the source text if it is one line), or an
error, which passes through every level at once.

### LiveDoc

Here cues have times. A run reports the film's cues shifted by up to a keyframe
and clipped where it starts (`InRun`); AddSegment drops a cue it has by key, or
by text and one end within the tolerance if it came from another run. Seeks
change the run, `NewDoc` is another session or another replica with an empty
document over the same stored record. `Sync` is syncLive: keys and lines of the
new document, lines matched exactly and then by tolerance, and what the document
does not have parked behind; `ParkedOf[n]` is what the parking loop
(`live_job.go:332`) has appended after n rounds.

### FilePoll

A GET reads the artifact, waits for the document, calls Ensure, and then reads
artifact and record again in two calls; a HEAD reads the record, and with a
position in the query the document too. `BeginFetch`, `JoinFetch`, `FetchOk` and
`FetchFails` are the one fetch that all polls share, `HangUp` a client that goes
away anywhere. `told` is what the last step answered.

The source may answer each fetch with another document, told apart by its number
of cues as the code does (`job.go:332`): a job that finds the record of another
one starts it over (`StartsOver`), and a poll may count with one document over the
record of another, shorter or longer. `renewed` are the polls that lived through a
start-over and `floor` is the record each began with; what a poll may answer is
measured against them. The job here is the one worker the lock admits. A worker
that lost its lease may write an older record back (`job.go:413-419`); that is
`FileJob`'s to show, and `FilePoll` has no such step.

## Runs

Every run is exhaustive within its bounds.

| run | shows | instance |
|---|---|---|
| `file` | the artifact is complete, the lock follows its owner, HEAD keeps its count, the jobs implement `Lease`, with a prompt store no two batches overlap; a polled key ends final, Close drains | two replicas, documents of 1 and 3 cues (one without text), batches of one, TTL of two ticks, a moving playhead, two faults, prompt store |
| `file_slow_store` | **violated**: one worker at a time | one document of 3 cues, otherwise as `file`, with time in the store calls |
| `source` | contiguous and ended is whole, ended was read, nothing freezes | three cues, three offsets, one segment that never answers, one seek, two failures |
| `live_safety` | the artifact holds the film, the job implements `Artifact`, statuses, wake-ups | two cues, two offsets, a handler reading, one seek or new session, one fault |
| `live_liveness` | the film ends as an artifact, no cue starves | two cues, batches of two, a run from either offset, one fault, no seek |
| `live_text` | **violated**: a batch carries its cues' text | two cues, one seek |
| `live_mark` | **violated**: a source marked over has no work | two cues, one seek |
| `live_window` | **violated**: a stale batch is dropped | two cues, one seek |
| `handler_safety` | no swap storm, replaced sources are retired | two sessions, two polls at once, one eviction, one dead session, one stray 503, eight sources |
| `handler_moves` | the key moves to the live session | two sessions, two polls at once, one dead session |
| `handler_evicted` | **violated**: a 404 is evidence | two sessions, two polls, one eviction |
| `parts` | `Runner`, `Chunk`, `LiveDoc` and `FilePoll`, all their properties | three keys, one slot per pool, three goroutines; a batch of five; a film of four cues (one repeated at once, one without text), runs at three offsets drifting by a second either way, two seeks or new documents; a GET and a HEAD with or without a position, documents of two and of three cues with one text each |

In a behaviour of `parts` one of the four moves and the others stay in their
initial states. Its states are therefore those of the four added up, and no
property of one gains or loses anything by the presence of the others.

The type invariants of `LiveSource` and `LiveHandler` and `RegisteredIsMarked` of
`Runner` are proved and in no run; every other invariant is checked by one, those
of the parts' types together in `PartsTypeOK`.

Why the bounds are enough. Two replicas are what a lock can keep apart, and a
third adds no kind of overlap. Two faults let a second failure hit the recovery
from the first (a leaked lock, then a failed write). Two cues and two offsets
give a seek back and a seek forward, a batch ahead of the viewer and one behind,
and an append order that differs from movie time; the third cue of the source's
instance leaves something behind a broken segment. Two strikes give a first and
a last one. Eight sources in `handler_safety`, and five in `handler_moves`, are
more than those instances can build, so that bound never stops a request. Two
sessions already swap back and forth; with a third one there is a further way
to a wrong 404 (hazard at `web.go:478`). In `parts`, three goroutines are one
for every key, so a slot is waited for in the file pool and a live job can hold
its own; a batch of five is halved unevenly and down to single lines; three
offsets give a run that repeats, overtakes and falls behind another, at both
signs of the drift; a GET and a HEAD are what can share a fetch and ask with
different knowledge, and of documents of two and three cues each is shorter than
the other's record in turn, with its text at a place the other has not.

Deadlock is checked except in `file`, `file_slow_store` and `parts`: a replica
that is closed with every fault spent, a batch that is done, and a document at
the end of its film with its moves used up have nothing left to do.

Symmetry is used for replicas, sessions and polls, only where no liveness is
checked.

`live_safety` explores about four million states and `handler_safety` about
five, a few minutes each; `file` about 290,000 and `parts` about as many; the
rest take seconds to a minute.

## Fairness

- `FileJob`: polls keep coming, so `Ensure` is weakly fair; a call returns,
  with an answer, an error or at its deadline, so a job at a call moves on; time
  passes. No fairness on anything that fails or comes from outside. A key is
  promised its artifact because faults are bounded.
- `LiveSource`: every reader reads again (the job's ticker, the viewers' polls)
  and the read in flight goes on.
- `LiveJob`: as above, and strong fairness for `StartBatch`, since a partial
  batch starts when the batch-wait timer, a choice here, runs out, and for
  `Poll`, which competes with the handler for `refreshMu` and is granted it
  sooner or later. The transcoder goes on writing.
- `LiveHandler`: the viewers of every session keep polling, some polls are GETs,
  a request makes its way, the job's ticker runs. Strong fairness on a read that
  is not skipped, and on a dead playlist saying so, because the staleness gate
  and transient failures pass. Strong fairness on `Ensure`: some GET gets its job
  in the end. That assumes of the live session what `LiveJob` knows and this module
  does not: its run is not over (`job.go:205-215`), the lock is not held by another
  replica for ever (`job.go:304`), and nobody closes the server.

- `Runner`: deferred calls run, queued goroutines of a cancelled runner leave,
  idle marks age, Close goes on. Work ends if it must (`MustEnd`): a file job by
  its document and its deadlines, any job when it is cancelled, a live one when
  its tick finds the mark old; a live job that is watched may go on for ever.
  Strong fairness on `TakeSlot`, since a Go channel serves the goroutines that
  wait to send on it in the order they came.

## Proofs

`FileJobProofs` holds for any replicas, documents, batch size, lock TTL and
number of faults, from `FileJobAssumption` (constants have their types, a
document's cues with text are cues of it, the two lock owners that are no
replica differ).

- `Typed`: the type invariant. It needs `JobInv`, the part that knows what each
  job's record is.
- `FinalIsComplete`: the artifact has a line for every cue with text.
  `FinalComplete` alone is not inductive: the step that writes it says nothing
  of the record. `JobInv` adds that from "register" on a job's record is sized
  for the job's own document, and that it is full at "final"; the lemmas
  `FilledRecord` and `NothingPending` carry both through a batch and out of the
  loop. Only `PutFinal` and its failing twin write the artifact (`FinalStep`).
- `OwnerAlwaysHolds`: with `LockInv`, the key exists exactly while its lease has
  time left, and its owner is between TryLock and Unlock.
- `LeaseImplemented`: every step of the jobs is a step of `Lease` or leaves the
  lock alone (`LeaseStep`).
- `WorkIsPublished`: while a replica translates, the key has a record or the
  artifact. `KnownInv` adds that this holds from a job's registration on, and that
  a job that is about to drop the record has put the artifact.
- `OneWorkerWithPromptStore`: assuming `SlowStore = FALSE`, the batch deadline
  does keep a second worker out. `CoverInv` says that the lease is whole when a
  batch starts and never shorter than the deadline afterwards. The assumption is
  needed: `file_slow_store` is the counterexample without it.
- `TrackImplemented`: what the readers of a file key are given (`TextHeld`: the
  lines of the artifact, else of the record) implements `Artifact`. Under the
  hypotheses a job that has its record in hand has at least the lines of the stored
  one (`GrowInv`), so every write adds lines, a half-applied one included
  (`RecordGrows`, `RecordWrites`); a new job resumes the stored record
  (`LoadResumes`); the artifact holds the track (`ArtifactHoldsTrack`). There are
  three hypotheses, and TLC finds a counterexample without any one of them. All
  fetches give one document: `Resumed` starts over if the cue count differs. One job
  at a time has a record in hand: an older one is written over a newer one
  otherwise (`job.go:413-419`), with a prompt store too, since a job whose batch is
  cut off by its deadline still writes what it has on a fresh context, when the
  lease may be another's. No record expires, as `Artifact` itself assumes.

`LiveSourceProofs` holds for any film, offsets, broken segments, readers, caps
and strike limit, and also for a source on its own (`SourceSpec`).

- `SourceTyped`: the type invariant.
- `ContiguousSourceIsWhole`: a contiguous and ended source holds the film. The
  strengthening `WholeInv` says that, while the source is contiguous, what is
  seen is in the document (`SeenIsRead`); that a playlist with ENDLIST lists up
  to the last cue (`ListIsWhole`); and that both marks together need every
  segment of the run from the start of the film (`StartWasRead`).

- `EndedSourceWasRead`: an ended source has read or given up on every segment of
  some run to the end; `ListIsWhole` says it of the read that is about to set
  the mark.

`LiveJobProofs` holds for any film, offsets, batch size, lead-in and number of
faults and seeks. A record in hand is a sequence of cues and a line for each cue
of the film; the difficulty is that cues are filed by their places in append
order.

- The operators first: the places of a document without repeats are one-to-one
  and hence onto (`EveryPlaceTaken`), so that a text is the text of a cue
  (`TextIsACue`), the earliest k of some places are k of them (`EarliestTakes`)
  and a batch fills lines and takes none away (`FilledKeeps`).
- `SourceSide`: seen from the source, every step of the composition is one of
  its own, touches what no read depends on, or puts a new session in its place.
  This is what carries `LiveSourceProofs` over to `LiveJob`.
- `JobTyped` and `StatusIsAVerdict` from `JobInv`: the record in hand is lined up
  with its document, a batch fits the record, a status goes with the step that
  writes it (`StatusFits`), and what the store has, the record in hand has too
  (`LinesAgree`).
- `ArtifactImplemented`: every step of the job is a step of `Artifact` or leaves
  alone what readers are given. A write of the record adds lines by `LinesAgree`;
  the artifact takes them all over because it is made of the record in hand, and
  has a text everywhere by `FilmInv` below; that no job writes again once there is
  one is `FinalRests`: with an artifact in the store, a job is before its look for
  it, or about to drop the record, or gone.
- `ArtifactIsTheFilm` from `FilmInv` on top of the source's `WholeInv`: a read of
  the job's that returned "ended" on a source still contiguous saw the film
  (`ReadWhole`), so did the snapshot taken after it, whatever viewers' reads came
  in between (`SnapWhole`), and a job that is to write the artifact has a record
  of that snapshot with nothing pending (`FinalWhole`).
- `NoWakeUpIsLost` from `WakeInv`: between two reads the token of a run is in the
  channel or with the watcher, and a watcher holds it only inside a batch.
- `WatchedBatchIsDropped`, `TextsAreOwnInOrder` and `TextsAreOwnWithoutSeeks` say
  how far two claims of the code hold that `live_window` and `live_text` refute as
  they stand. A batch ordered for the very run its watcher started from is dropped
  when a run comes that it does not serve: `DropInv` follows the token from the
  read that put it into the channel, the job's or a viewer's, to the watcher. The
  hypothesis `order = watch.off` is exactly the gap of finding 4. A batch carries
  its own cues' text as long as the document is in movie-time order (`InOrder`),
  since then the place of a cue in the snapshot is its index (`PlaceInOrder`,
  `TextInOrder`); without seeks and new sessions it always is, because the only
  run is read front to back (`OneRun`, `PrefixRead`). The hypotheses are needed:
  one seek is all that `live_text` uses.
- `RunEndsWithoutWork` does the same for `live_mark`: as long as the job alone reads
  the playlist, a source is marked over only with every cue that was read
  translated. `AloneInv` follows the document from the job's read to its mark: no
  step in between adds a cue to it (`AloneReads`, `AloneSnap`), and what is stored at
  the mark has nothing pending of it (`AloneLines`, `AloneMark`). Seeks, new
  sessions and failures are all allowed; a viewer's read is the only way to
  finding 3.

`LiveHandlerProofs` holds for any sessions, any number of polls at once and any
number of evictions, dead sessions and stray failures.

- `HandlerTyped`: the type invariant. Inductively it needs `ReqInv`: a request
  that settles holds an entry, and one that is past it a source. Every step
  either leaves the lists of sources and entries alone or lengthens them
  (`Grows`), so that the ids of the requests that do not move stay ids.
- `ReplacedSourceIsRetired`: on top of the types it is inductive by itself. Only
  `Miss` and `Swap` touch an entry or build a source (`OthersKeepMarks`); a miss
  adds an entry that has what it took up or built (`MissKeeps`), a swap retires
  what its entry lets go of (`SwapKeeps`).
- `NoSwapStorm`, for finitely many sessions. A bound on the number of sources is
  not inductive by itself. What is: the sources an entry left behind without their
  session having said that it was over are no more than the pairs of an entry and
  a session it gave up and does not follow (`LeftIsGivenUp`): a swap away from a
  source that is not gone adds one to both, and a swap back to a session that was
  given up is only made from a source that is gone. Every other source is the
  current one of an entry or gone, which gives the bound by counting.
- `NotFoundIsRealForTwo`: with at most two sessions and no eviction, a 404 is
  evidence of a session that is over. `KeyMovesOn` says that the entry follows the
  newest source, and that of those before it all but the first are gone;
  `RequestsKnow` what a request has seen by its second look. Both assumptions are
  needed: `handler_evicted` is the counterexample with an eviction, and a third
  session can move the key between the two looks (hazard at `web.go:478`).

`RunnerProofs` holds for any keys, slot counts and number of goroutines:
`OneJobPerKey`, `NoSlotLost`, `JobsAreMarked`, `QuietAfterClose` and the types are
inductive together (`RunnerInv`). The slots are counted as the goroutines that
work, so a step that takes or returns one changes a set by one element, and every
other step leaves that set alone (`BalanceKept`).

`ChunkProofs` holds for a batch of any size. `Tiling` says that the chunks to be
asked for lie end to end up to the batch's last cue, `Spread` that they carry the
texts of their own cues, `Filling` that what is in front of them is filled, and
`Paid` that two calls for each chunk still possible cover what may be spent.

`FilePollProofs` holds for any documents and number of polls. A step of the job
adds lines to the record, starts it over, or has put the artifact in its place
(`StoreGrows`), so that what a poll read when it began, and what a HEAD holds while
it waits for the document, stays a part of what is there unless the record was
started over meanwhile (`FloorKept`, `KnownKept`); every answer is a count of such
a record (`Honest`).

`LiveDocProofs` holds for any film, runs and shifts within the tolerance: a line
that is there already is recognised, by its key in its own run and by its end in
another one (`Recognised`), because a run clips starts only. `OneRunLosesNothing`
assumes that no run gives two cues of the film the same times and text, which
the key could not tell apart. On top of the document come

- `LinesAreFiledRight` and `RecordIsKept`, from `RecordInv`: the record's keys
  differ and every line is a translation of its key's text. One alignment keeps
  every line there is: the line of a cue in the document is found by its key
  (`KnownFacts`), any other is parked (`ParkedFacts`).
- `LinesArePaidOnce`, from `PaidInv`: a line that was paid for is in the record,
  and a cue of the document without a line was not paid for. A later document
  finds it by its key or by its end, by `Recognised` again.
- `LiveDocIsTyped`, the type invariant.
- `DocumentIsByPlace` and `RecordIsByPlace`: counted by places in the film, the
  document takes every place with a text that is read, once and in the order they
  are first read, and a lined-up record gives each place the line that was bought for
  it and no other. These are the document of `LiveSource` and the map `tr` of
  `LiveJob`. What carries them is `OwnLines`, that every line lies under a key its
  own cue has in a run that plays it. They assume `Apart`, that two cues with one
  text are never within the tolerance of each other in runs that play them, which is
  what the comment on cueMatchTolerance takes for granted of dialogue. It is needed:
  with the repeated line of the `parts` instance TLC refutes both, while
  `StoredOnce`, `RightLine` and `PaidOnce` hold there too. A cue without a text may
  be stored again by another run; the films of `LiveSource` and `LiveJob` have none.

The parking loop is a recursive function over the record, which would ask for
induction over its length. The proofs go by the least round at which a claim about
`ParkedOf` would be false (`LeastNat`, from the well-foundedness of < on Nat, as a
set and not an operator), whose predecessor refutes it.

Only model-checked: all liveness, which is out of the prover's reach with fairness
and ENABLED (`EventuallyFinal`, `EveryCueTranslated`, `NeverFrozen`, `MovesToLive`,
`CloseDrains`, `FileJobsGetASlot`, `AbandonedJobEnds`); and `PartsTypeOK`, which
puts the type invariants of the four parts together, each of them a theorem of its
part. The properties of the violation runs are not theorems as they stand; the
conditional ones above say when they hold. No module with theorems uses a
RECURSIVE operator.

## Findings

Each is a claim of a comment in the code that its run violates; `PROJECT.json`
quotes the comments.

1. **A batch's deadline can outlive its lease** (`job.go:402`, run
   `file_slow_store`). The deadline is one TTL from the batch's start; the lease
   was taken before GetProgress, PutProgress and GetPos.
2. **A batch carries other cues' text after a seek back** (`live_job.go:423`,
   run `live_text`). Indexes in append order are used on the snapshot in
   movie-time order. That order is all there is to it (`TextsAreOwnInOrder`).
3. **A source can be marked over with work left** (`live_job.go:886`, run
   `live_mark`). The mark is decided from an earlier snapshot; a handler's read
   in between adds cues. Without such reads it does not happen
   (`RunEndsWithoutWork`).
4. **A stale batch is kept** (`live_job.go:687`, run `live_window`). The run a
   batch is ordered for and the run its watcher starts from are read at two
   moments. There is no other way (`WatchedBatchIsDropped`).
5. **A retired source becomes current again** (`web.go:396`, run
   `handler_evicted`). A cache miss takes up the running job's source, retired
   or not, and polls of a session that is alive are answered 404.

Also met, without a run:

- A viewer's read that adds cues to a source already marked over, and then fails
  on a later segment, returns before it clears the mark (`live_source.go:433`); the
  next read adds nothing, so the mark stays over pending cues. `live_mark` has no
  faults, since finding 3 is a shorter way to the same state.
- The terminal status of an earlier run is cleared in memory only when a job
  re-arms the record (`live_job.go:544`), and is what readers see until the first
  write, against `store.go:31-32`.
- An idle mark set by a HEAD of a live key that never gets a job, or by a GET
  whose Ensure starts nothing, is never dropped (`web.go:559`); `Runner` reaches
  the state.
- The two headers that describe a live run, X-Subtitle-Session-Offset and
  X-Subtitle-Pending-From, are computed from the source's offset at two moments
  (`live_job.go:175`), against "the run the pending-from answer describes"
  (`web.go:796-798`).
- An eviction between liveFor and Ensure lets the cache build a second source for
  the session while the job follows the first (`web.go:643`): a cost, not a wrong
  answer.
- The tolerance is not transitive: a run that begins between two near repeats of
  a line, followed by a seek back, drops the earlier repeat as the later one's
  twin (`live_doc.go:141`). It cannot reach an artifact, since such a source is
  not contiguous. `StoredOnce` is about the other direction.

## Not modelled

- *Texts*: parsing, normalising and rendering WebVTT, prompts, the format of
  replies (ParseReply), HTTP calls of the providers. A job sees of them:
  translated, short, refused, truncated, failed.
- *Byte caps and a cue cap that bites*: they end a read as `toolarge` does; the
  instances keep the cap above the film.
- *Live readers*: LiveSnapshot, LiveProgress, liveFrontier and pendingFrom, which
  compute response headers and write nothing.
- *HTTP*: ranges, ETag, caching headers, the `sof` hint, the position's transport
  and the staleness clock of RefreshIfStale (a read may or may not happen).
- *MemoryStore's clock at the very instant of an expiry* (`store.go:150`), against
  Redis's; the lease is modelled in ticks.
- *Two live jobs of two replicas on one key*: `LiveJob` has one job, and a lease
  lost to another replica ends it; `FileJob` models the lock with its clock.
- *Two live sources racing inside `LiveJob`*: `NewSession` replaces the source
  the job reads; the swap as such is `LiveHandler`'s.
- *Languages, metrics, configuration, main*: no behaviour of their own.

## Plan

Done, in this order: `Lease` and `FileJob` with their proofs, `LiveSource` with
its proofs, `LiveJob`, `LiveHandler` with its proofs; then `Runner`, `Chunk`,
`LiveDoc` and `FilePoll` with theirs, the proofs about `LiveJob`; then `Artifact`
and what `LiveJob` keeps of it, the record and its price in `LiveDocProofs`, the
bounds on swaps and 404s in `LiveHandlerProofs`; then `FileJob` against `Artifact`,
the mark of a run in `LiveJobProofs`, and what `LiveDoc` is when cues are counted by
their places.

Left, by what it would add:

1. `LiveView`: LiveSnapshot and LiveProgress as the separate reads they are, and
   liveFrontier against a reference definition.
2. The cue cap of `LiveSource` biting, with the overshoot it allows.
3. `live_liveness` with a seek, on an instance cut down to afford it.
