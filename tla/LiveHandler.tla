---------------------------- MODULE LiveHandler ----------------------------
(***************************************************************************)
(* One live artifact key on one replica: which source its polls and its    *)
(* job follow (services/web.go liveFor, liveRefresh and the live branch of *)
(* ServeHTTP; the registry of services/job.go).                            *)
(*                                                                         *)
(* The key outlives transcoder sessions, so viewers of different sessions  *)
(* poll it at once.  The cache holds an entry for the key: the current     *)
(* source and the sessions it gave up on.  A poll looks the entry up,      *)
(* settles on a source, refreshes it, asks once more if that one is gone,  *)
(* and may start the job; polls interleave between these steps, the cache  *)
(* may evict the entry, sessions end, and the job goes on by itself.       *)
(*                                                                         *)
(* What a source reads is LiveSource's, why a job ends by itself and when  *)
(* a finished run keeps Ensure from starting one LiveJob's.                *)
(* A definition that nothing uses, placed before the one it is a faulty    *)
(* form of, is what PROJECT.json substitutes to see a property fail.       *)
(***************************************************************************)
EXTENDS Integers, Sequences, FiniteSets

CONSTANTS
  Sessions,      \* the transcoder sessions whose playlists viewers poll
  Requests,      \* the polls that may be served at once
  MaxSources,    \* bound: sources built
  MaxEvictions,  \* bound: how often the cache drops the key's entry
  MaxReaps,      \* bound: sessions that end
  MaxBlips       \* bound: 503s of a session that has not ended

ASSUME LiveHandlerAssumption ==
  /\ MaxSources \in Nat \ {0}
  /\ MaxEvictions \in Nat /\ MaxReaps \in Nat /\ MaxBlips \in Nat

VARIABLES
  alive,      \* which sessions' playlists still answer
  sources,    \* every LiveSource built: its session, retired, gone
  entries,    \* every liveEntry built: its current source, the sessions retired
  cached,     \* the entry in the cache, 0 without one
  job,        \* the source the running job follows (Runner.liveSrc), 0 without one
  req,        \* the requests
  evictions, reaps, blips   \* what is left of the bounds

keyVars == <<sources, entries, cached>>
bounds == <<evictions, reaps, blips>>
vars == <<alive, keyVars, job, req, bounds>>

-----------------------------------------------------------------------------
NewSource(s) == [of |-> s, retired |-> FALSE, gone |-> FALSE]

\* Where a request is, its session, the entry it looked up, the source it
\* settled on, the one it found gone, and how it was answered.
Unasked(s) == [at |-> "idle", of |-> s, entry |-> 0, src |-> 0, first |-> 0, answer |-> "none"]

Init == /\ alive = [s \in Sessions |-> TRUE]
        /\ sources = <<>> /\ entries = <<>> /\ cached = 0 /\ job = 0
        /\ \E s \in Sessions : req = [r \in Requests |-> Unasked(s)]
        /\ evictions = MaxEvictions /\ reaps = MaxReaps /\ blips = MaxBlips

At(r, step) == req[r].at = step

Answer(r, answer) == req' = [req EXCEPT ![r].at = "idle", ![r].answer = answer]

Room == Len(sources) < MaxSources

-----------------------------------------------------------------------------
(* A poll.                                                                 *)

Arrive(r, s) == /\ At(r, "idle")
                /\ req' = [req EXCEPT ![r] = [Unasked(s) EXCEPT !.at = "lookup"]]
                /\ UNCHANGED <<alive, keyVars, job, bounds>>

LookedUp(r, e) == req' = [req EXCEPT ![r].at = "settle", ![r].entry = e]

Hit(r) == /\ At(r, "lookup") /\ cached # 0
          /\ LookedUp(r, cached)
          /\ UNCHANGED <<alive, keyVars, job, bounds>>

\* A miss takes up the source of the running job, if there is one.
AdoptsJob(s) == IF job # 0 THEN sources ELSE Append(sources, NewSource(s))

Miss(r) == /\ At(r, "lookup") /\ cached = 0
           /\ job # 0 \/ Room
           /\ sources' = AdoptsJob(req[r].of)
           /\ entries' = Append(entries,
                [cur |-> IF sources' = sources THEN job ELSE Len(sources'), given |-> {}])
           /\ cached' = Len(entries')
           /\ LookedUp(r, cached')
           /\ UNCHANGED <<alive, job, bounds>>

StragglerSwaps(s, e) == FALSE

StragglerForEver(s, e) == s \in e.given

\* A session the entry gave up on, while the one it moved to has not ended.
Straggler(s, e) == s \in e.given /\ ~sources[e.cur].gone

\* A source that is gone and still this entry's is the answer; any other is
\* refreshed.
SettledOn(r, src) ==
  IF src = req[r].first
    THEN Answer(r, "notfound")
    ELSE req' = [req EXCEPT ![r].at = "refresh", ![r].src = src]

\* The current source serves the request: it is its session's, or the request
\* is a straggler.
Stay(r) == LET e == entries[req[r].entry] IN
  /\ At(r, "settle")
  /\ sources[e.cur].of = req[r].of \/ Straggler(req[r].of, e)
  /\ SettledOn(r, e.cur)
  /\ UNCHANGED <<alive, keyVars, job, bounds>>

ReplacesOnly(old, s) == Append(sources, NewSource(s))

\* The old source is retired before it is replaced.
Retires(old, s) == Append([sources EXCEPT ![old].retired = TRUE], NewSource(s))

\* A new session, or the straggler's when the current one has ended.
Swap(r) == LET e == entries[req[r].entry] IN
  /\ At(r, "settle") /\ Room
  /\ sources[e.cur].of # req[r].of /\ ~Straggler(req[r].of, e)
  /\ sources' = Retires(e.cur, req[r].of)
  /\ entries' = [entries EXCEPT ![req[r].entry] =
                   [cur |-> Len(sources'), given |-> @.given \cup {sources[e.cur].of}]]
  /\ SettledOn(r, Len(sources'))
  /\ UNCHANGED <<alive, cached, job, bounds>>

\* RefreshIfStale reads nothing if another read is in flight or recent.
RefreshSkipped(r) == /\ At(r, "refresh")
                     /\ req' = [req EXCEPT ![r].at = "ensure"]
                     /\ UNCHANGED <<alive, keyVars, job, bounds>>

\* Otherwise a source that is not retired asks for its playlist.
BeginRead(r) == /\ At(r, "refresh") /\ ~sources[req[r].src].retired
                /\ req' = [req EXCEPT ![r].at = "reading"]
                /\ UNCHANGED <<alive, keyVars, job, bounds>>

\* It answers, or fails in a way that says nothing about the session.
ReadOk(r) == /\ At(r, "reading")
             /\ req' = [req EXCEPT ![r].at = "ensure"]
             /\ UNCHANGED <<alive, keyVars, job, bounds>>

\* The playlist answers 404 or 503, also to a read a Retire overtook.
PlaylistGone(src) == /\ \/ ~alive[sources[src].of] /\ UNCHANGED blips
                        \/ blips > 0 /\ blips' = blips - 1
                     /\ sources' = [sources EXCEPT ![src].gone = TRUE]

\* ErrSourceGone: the key is asked for its source once more.
FoundGone(r) == IF req[r].first = 0
                  THEN req' = [req EXCEPT ![r].at = "lookup", ![r].first = req[r].src]
                  ELSE Answer(r, "notfound")

RefreshRetired(r) == /\ At(r, "refresh") /\ sources[req[r].src].retired
                     /\ FoundGone(r)
                     /\ UNCHANGED <<alive, keyVars, job, bounds>>

ReadGone(r) == /\ At(r, "reading")
               /\ PlaylistGone(req[r].src)
               /\ FoundGone(r)
               /\ UNCHANGED <<alive, entries, cached, job, evictions, reaps>>

\* A GET starts the job unless one is running.
Ensure(r) == /\ At(r, "ensure")
             /\ job' = IF job = 0 THEN req[r].src ELSE job
             /\ Answer(r, "ok")
             /\ UNCHANGED <<alive, keyVars, bounds>>

\* A HEAD never starts it, nor does a GET whose source has nothing left to
\* translate (job.go, Ensure) or that comes during Close.  A job whose lock is
\* held elsewhere is started and ends: Ensure, then JobEnds.
HeadOnly(r) == /\ At(r, "ensure")
               /\ Answer(r, "ok")
               /\ UNCHANGED <<alive, keyVars, job, bounds>>

-----------------------------------------------------------------------------
(* The job, the cache and the sessions.                                     *)

\* Its next read is turned away, or tells that the session is over: the job
\* stops and leaves the registry.
JobFindsGone == /\ job # 0
                /\ \/ sources[job].retired /\ UNCHANGED <<sources, blips>>
                   \/ ~sources[job].retired /\ PlaylistGone(job)
                /\ job' = 0
                /\ UNCHANGED <<alive, entries, cached, req, evictions, reaps>>

\* Its viewers are gone, its batch failed, it lost the lock, its run ended.
JobEnds == /\ job # 0
           /\ job' = 0
           /\ UNCHANGED <<alive, keyVars, req, bounds>>

\* Sixteen other keys are polled, or nobody polls this one for the idle time.
Evict == /\ cached # 0 /\ evictions > 0
         /\ cached' = 0
         /\ evictions' = evictions - 1
         /\ UNCHANGED <<alive, sources, entries, job, req, reaps, blips>>

Reap(s) == /\ alive[s] /\ reaps > 0
           /\ alive' = [alive EXCEPT ![s] = FALSE]
           /\ reaps' = reaps - 1
           /\ UNCHANGED <<keyVars, job, req, evictions, blips>>

-----------------------------------------------------------------------------
Refresh(r) == \/ RefreshSkipped(r) \/ RefreshRetired(r)
              \/ BeginRead(r) \/ ReadOk(r) \/ ReadGone(r)

Serve(r) == \/ Hit(r) \/ Miss(r) \/ Stay(r) \/ Swap(r)
            \/ Refresh(r) \/ Ensure(r) \/ HeadOnly(r)

Next == \/ \E r \in Requests : \/ \E s \in Sessions : Arrive(r, s)
                               \/ Serve(r)
        \/ JobFindsGone \/ JobEnds \/ Evict
        \/ \E s \in Sessions : Reap(s)

Spec == Init /\ [][Next]_vars

(* The viewers of every session keep polling, with a GET now and then (the   *)
(* player reloads its track), a request makes its way, the job's ticker runs,*)
(* and neither the staleness gate nor a transient failure hides for ever     *)
(* that a source is gone.                                                    *)
Fairness == /\ \A s \in Sessions : SF_vars(\E r \in Requests : Arrive(r, s))
            /\ \A r \in Requests : /\ WF_vars(Serve(r))
                                  /\ SF_vars(RefreshRetired(r) \/ BeginRead(r))
                                  /\ SF_vars(ReadGone(r))
            /\ SF_vars(\E r \in Requests : Ensure(r))
            /\ WF_vars(JobFindsGone)

FairSpec == Spec /\ Fairness

-----------------------------------------------------------------------------
SourceIds == 0..Len(sources)

\* The type invariant: ids are those of sources and entries that exist.
TypeOK ==
  /\ alive \in [Sessions -> BOOLEAN]
  /\ sources \in Seq([of : Sessions, retired : BOOLEAN, gone : BOOLEAN])
  /\ Len(sources) <= MaxSources
  /\ entries \in Seq([cur : SourceIds \ {0}, given : SUBSET Sessions])
  /\ cached \in 0..Len(entries)
  /\ job \in SourceIds
  /\ req \in [Requests -> [at : {"idle", "lookup", "settle", "refresh", "reading", "ensure"},
                           of : Sessions, entry : 0..Len(entries), src : SourceIds,
                           first : SourceIds, answer : {"none", "ok", "notfound"}]]
  /\ evictions \in 0..MaxEvictions /\ reaps \in 0..MaxReaps /\ blips \in 0..MaxBlips

\* No swap storm: two viewers of two live sessions do not retire each other's
\* source on every poll.  An entry builds a source for each session once, and
\* beyond that one for each source whose session told it that it was over (the
\* comment on liveFor: "killing its job and re-downloading every segment").
SwapsBounded ==
  Len(sources) <= Cardinality(Sessions) * Len(entries)
                    + Cardinality({i \in DOMAIN sources : sources[i].gone})

\* A client may take a 404 as final, so it is only given when a session said
\* so: never for a source this process merely retired (the comments on
\* liveRefresh and LiveSource.gone).  It fails when the entry can be evicted,
\* and when the key is moved twice, by two other sessions, during one poll.
NotFoundIsReal ==
  \A r \in Requests : req[r].answer = "notfound" => sources[req[r].src].gone

\* Nobody follows a source the key was moved away from for long: every source
\* that is not some entry's current one is turned away at its next read.
ReplacedIsRetired ==
  \A i \in DOMAIN sources : sources[i].retired \/ \E e \in DOMAIN entries : entries[e].cur = i

Only(s) == \A t \in Sessions : alive[t] <=> t = s

Follows(src, s) == src # 0 /\ sources[src].of = s /\ ~sources[src].retired

\* The key moves to the session that lives: once it is the only one left, its
\* viewers' polls end up with a job on it, whatever requests for the dead
\* sessions keep coming in and whatever job they had.  It asks that the cache
\* keeps the entry (NotFoundIsReal tells what an eviction can do).
MovesToLive ==
  \A s \in Sessions : <>[]Only(s) => []<>Follows(job, s)

=============================================================================
