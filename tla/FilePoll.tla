------------------------------ MODULE FilePoll ------------------------------
(***************************************************************************)
(* The polls of one file track on one replica (services/web.go ServeHTTP,  *)
(* docFor, fetchDoc; services/job.go Snapshot): each reads the store in    *)
(* several calls while the job writes, and shares the replica's one fetch  *)
(* of the source with the polls that come at the same time.                *)
(*                                                                         *)
(* The job is reduced to what a poll can see of it: it registers a record, *)
(* fills it, puts the artifact in its place, or stops on the way; FileJob  *)
(* has the rest.  The source may answer a later fetch with another         *)
(* document, so that job, record and poll may each go by another one.  A   *)
(* document is told by its number of cues, as the code tells it.           *)
(*                                                                         *)
(* A definition that nothing uses, placed before the one it is a faulty    *)
(* form of, is what PROJECT.json substitutes to see a property fail.       *)
(***************************************************************************)
EXTENDS Integers, FiniteSets

CONSTANTS
  Polls,      \* bound: requests in the handler at once
  Methods,    \* bound: what each of them may be: GET, HEAD, HEAD with a position
  Sizes,      \* len(doc.Cues) of each document that the source may answer
  TextCues    \* the cues with text after Normalize, of each of them

ASSUME FilePollAssumption ==
  /\ Sizes \subseteq Nat
  /\ TextCues \in [Sizes -> SUBSET Nat]
  /\ \A n \in Sizes : TextCues[n] \subseteq 1..n
  /\ IsFiniteSet(Polls)
  /\ Methods \in [Polls -> SUBSET {"GET", "HEAD", "HEADpos"}]

VARIABLES
  artifact,  \* whether the final artifact is stored
  stored,    \* the progress record: its total and its non-empty lines, or NoProgress
  job,       \* where the job is, "none" without one
  jobDoc,    \* the document of the job, or 0
  docCache,  \* the document in the cache: "none", "fetching" or "parsed"
  parsed,    \* which document it is, or 0
  call,      \* the call each poll is at
  method,    \* GET, HEAD, or HEAD with the viewer's position
  given,     \* the document that docFor has given the poll, or 0
  known,     \* the record a HEAD has read
  floor,     \* history: the record when the poll began, if it had lines
  renewed,   \* history: the polls during which the record was started over
  told,      \* the answers that the last step gave, and what their polls knew
  gets,      \* whether a GET has reached Ensure
  refused    \* whether the last step was a poll's call that failed

storeOf == <<artifact, stored>>
jobOf == <<job, jobDoc>>
cacheOf == <<docCache, parsed>>
localsOf == <<call, method, given, known, floor>>
pollVars == <<storeOf, jobOf, cacheOf, localsOf, renewed, told, gets, refused>>

\* No progress record; there is no cue 0.
NoProgress == [total |-> 0, lines |-> {0}]

Fresh(n) == [total |-> n, lines |-> {}]
Records == {NoProgress} \cup UNION {[total : {n}, lines : SUBSET TextCues[n]] : n \in Sizes}

FinalAnswer == [kind |-> "final", done |-> 100, total |-> 100]
ErrorAnswer == [kind |-> "error", done |-> 0, total |-> 0]
Partial(done, total) == [kind |-> "partial", done |-> done, total |-> total]

FilePollInit == /\ artifact = FALSE
                /\ stored = NoProgress
                /\ job = "none" /\ jobDoc = 0
                /\ docCache = "none" /\ parsed = 0
                /\ call = [p \in Polls |-> "idle"]
                /\ method = [p \in Polls |-> "GET"]
                /\ given = [p \in Polls |-> 0]
                /\ known = [p \in Polls |-> NoProgress]
                /\ floor = [p \in Polls |-> NoProgress]
                /\ renewed = {}
                /\ told = {}
                /\ gets = FALSE
                /\ refused = FALSE

-----------------------------------------------------------------------------
(* Counting (countDoneByIndex, and HEAD's count without a document).        *)

Filled(record) == record.lines \ {0}

CountsWhole(n, record) ==
  Partial(Cardinality(Filled(record)) + n - Cardinality(TextCues[n]), n)

\* With a document at hand: its cues without text need no line, and a record that
\* is shorter or longer has lines only for some of them, or for others as well.
ByDocument(n, record) ==
  Partial(Cardinality({c \in 1..n : c \in TextCues[n] => c \in Filled(record)}), n)

\* Without it: the lines that are not empty, of the record's total.
ByRecord(record) == Partial(Cardinality(Filled(record)), record.total)

-----------------------------------------------------------------------------
(* The job.                                                                 *)

\* A step that answers nobody.
Quiet == told' = {} /\ refused' = FALSE /\ UNCHANGED <<localsOf, renewed>>

JobMoves(from, to) == job = from /\ job' = to /\ jobDoc' = IF to = "none" THEN 0 ELSE jobDoc

\* A record of another size is not this document's: it is started over.
StartsOver == stored # NoProgress /\ stored.total # jobDoc

Register == /\ JobMoves("queued", "filling") /\ ~artifact
            /\ stored' = IF stored = NoProgress \/ StartsOver THEN Fresh(jobDoc) ELSE stored
            /\ renewed' = IF StartsOver THEN {p \in Polls : call[p] # "idle"} ELSE renewed
            /\ told' = {} /\ refused' = FALSE
            /\ UNCHANGED <<artifact, cacheOf, localsOf, gets>>

FindsFinal == /\ JobMoves("queued", "none") /\ artifact
              /\ Quiet
              /\ UNCHANGED <<storeOf, cacheOf, gets>>

Fill == /\ JobMoves("filling", "filling")
        /\ \E c \in TextCues[jobDoc] \ stored.lines :
             stored' = [stored EXCEPT !.lines = @ \cup {c}]
        /\ Quiet
        /\ UNCHANGED <<artifact, cacheOf, gets>>

Ready == job = "filling" /\ stored.lines = TextCues[jobDoc]

\* writeFinal: the artifact first, and then the record it replaces.
PutFinal == /\ Ready /\ JobMoves("filling", "dropping") /\ artifact' = TRUE
            /\ Quiet
            /\ UNCHANGED <<stored, cacheOf, gets>>

DropsRecord == stored' = NoProgress

\* A refused PutFinal returns before DropProgress.
KeepsRecord == UNCHANGED stored

PutFinalFails == /\ Ready /\ JobMoves("filling", "none")
                 /\ KeepsRecord
                 /\ Quiet
                 /\ UNCHANGED <<artifact, cacheOf, gets>>

Drop == /\ JobMoves("dropping", "none")
        /\ stored' = NoProgress
        /\ Quiet
        /\ UNCHANGED <<artifact, cacheOf, gets>>

\* The error of DropProgress is ignored.
DropFails == /\ JobMoves("dropping", "none")
             /\ Quiet
             /\ UNCHANGED <<storeOf, cacheOf, gets>>

\* A store or upstream failure, a lost lock, a shutdown.
JobStops == /\ \E at \in {"queued", "filling"} : JobMoves(at, "none")
            /\ Quiet
            /\ UNCHANGED <<storeOf, cacheOf, gets>>

-----------------------------------------------------------------------------
(* The handler.                                                             *)

CallSucceeds == refused' = FALSE
CallFails == refused' = TRUE

\* The polls end, and their locals are gone.
End(polls) == /\ call' = [p \in Polls |-> IF p \in polls THEN "idle" ELSE call[p]]
              /\ method' = [p \in Polls |-> IF p \in polls THEN "GET" ELSE method[p]]
              /\ given' = [p \in Polls |-> IF p \in polls THEN 0 ELSE given[p]]
              /\ known' = [p \in Polls |-> IF p \in polls THEN NoProgress ELSE known[p]]
              /\ floor' = [p \in Polls |-> IF p \in polls THEN NoProgress ELSE floor[p]]
              /\ renewed' = renewed \ polls

\* An answer for the document of which the poll found a record says less than that.
SaysLess(p, answer) == /\ answer.total = floor[p].total
                       /\ answer.done < Cardinality(Filled(floor[p]))

Told(p, answer) ==
  [answer |-> answer, less |-> SaysLess(p, answer), renewed |-> p \in renewed]

Answer(p, answer) == End({p}) /\ told' = {Told(p, answer)}

Proceed(p, s) == /\ call' = [call EXCEPT ![p] = s]
                 /\ told' = {}
                 /\ UNCHANGED <<method, given, known, floor, renewed>>

\* A poll begins with GetFinal, the first call that reads the store.
Begin(p, m) == /\ call[p] = "idle" /\ ~artifact
               /\ call' = [call EXCEPT ![p] = IF m = "GET" THEN "document" ELSE "known"]
               /\ method' = [method EXCEPT ![p] = m]
               /\ floor' = [floor EXCEPT ![p] = IF Filled(stored) = {} THEN NoProgress ELSE stored]
               /\ told' = {}
               /\ CallSucceeds
               /\ UNCHANGED <<storeOf, jobOf, cacheOf, given, known, renewed, gets>>

BeginFinal(p) == /\ call[p] = "idle" /\ artifact
                 /\ Answer(p, FinalAnswer)
                 /\ CallSucceeds
                 /\ UNCHANGED <<storeOf, jobOf, cacheOf, gets>>

\* A store error is answered as one; only a HEAD takes it for no record.
StoreFails(p) == /\ call[p] \in {"idle", "snapshot", "record"}
                 /\ CallFails
                 /\ Answer(p, ErrorAnswer)
                 /\ UNCHANGED <<storeOf, jobOf, cacheOf, gets>>

FetchesAlways(p) == method[p] = "HEADpos"

\* The frontier needs the document; a key without a record is not worth it.
WantsDocument(p) == method[p] = "HEADpos" /\ stored # NoProgress

ReadKnown(p) == /\ call[p] = "known"
                /\ IF WantsDocument(p)
                     THEN /\ call' = [call EXCEPT ![p] = "document"]
                          /\ known' = [known EXCEPT ![p] = stored]
                          /\ told' = {}
                          /\ UNCHANGED <<method, given, floor, renewed>>
                     ELSE Answer(p, ByRecord(stored))
                /\ CallSucceeds
                /\ UNCHANGED <<storeOf, jobOf, cacheOf, gets>>

KnownFails(p) == /\ call[p] = "known"
                 /\ CallFails
                 /\ Answer(p, ByRecord(NoProgress))
                 /\ UNCHANGED <<storeOf, jobOf, cacheOf, gets>>

\* What a poll does with the document it asked for.
WithDocument(p) == IF method[p] = "GET" THEN "ensure" ELSE "count"

\* docFor: a hit, a fetch of its own, or the fetch that is already on its way.
HitDocument(p) == /\ call[p] = "document" /\ docCache = "parsed"
                  /\ call' = [call EXCEPT ![p] = WithDocument(p)]
                  /\ given' = [given EXCEPT ![p] = parsed]
                  /\ told' = {}
                  /\ CallSucceeds
                  /\ UNCHANGED <<storeOf, jobOf, cacheOf, method, known, floor, renewed, gets>>

BeginFetch(p) == /\ call[p] = "document" /\ docCache = "none"
                 /\ docCache' = "fetching"
                 /\ Proceed(p, "fetching")
                 /\ CallSucceeds
                 /\ UNCHANGED <<storeOf, jobOf, parsed, gets>>

JoinFetch(p) == /\ call[p] = "document" /\ docCache = "fetching"
                /\ Proceed(p, "waiting")
                /\ CallSucceeds
                /\ UNCHANGED <<storeOf, jobOf, cacheOf, gets>>

\* The polls on a fetch: the one whose request began it, if it is still there, and
\* those that joined.
Waiting == {p \in Polls : call[p] \in {"fetching", "waiting"}}

\* The source may have changed since the last fetch.
FetchOk == /\ docCache = "fetching" /\ docCache' = "parsed"
           /\ parsed' \in Sizes
           /\ call' = [p \in Polls |-> IF p \in Waiting THEN WithDocument(p) ELSE call[p]]
           /\ given' = [p \in Polls |-> IF p \in Waiting THEN parsed' ELSE given[p]]
           /\ told' = {}
           /\ CallSucceeds
           /\ UNCHANGED <<storeOf, jobOf, method, known, floor, renewed, gets>>

\* A failure is not remembered; everyone who waited is told, a HEAD of what the
\* record says.
EndFetch == /\ docCache = "fetching" /\ docCache' = "none"
            /\ End(Waiting)
            /\ told' = {Told(p, IF method[p] = "GET" THEN ErrorAnswer ELSE ByRecord(known[p])) :
                           p \in Waiting}
            /\ UNCHANGED <<storeOf, jobOf, parsed, gets>>

FetchFails == /\ CallFails
              /\ EndFetch

Expire == /\ docCache = "parsed" /\ docCache' = "none" /\ parsed' = 0
          /\ Quiet
          /\ UNCHANGED <<storeOf, jobOf, gets>>

CountKnown(p) == /\ call[p] = "count"
                 /\ Answer(p, ByDocument(given[p], known[p]))
                 /\ CallSucceeds
                 /\ UNCHANGED <<storeOf, jobOf, cacheOf, gets>>

\* Ensure, which starts a job unless one is running.
PollEnsure(p) == /\ call[p] = "ensure"
                 /\ IF job = "none" THEN job' = "queued" /\ jobDoc' = given[p]
                    ELSE UNCHANGED jobOf
                 /\ gets' = TRUE
                 /\ Proceed(p, "snapshot")
                 /\ CallSucceeds
                 /\ UNCHANGED <<storeOf, cacheOf>>

\* Snapshot, first call.
SnapshotFinal(p) == /\ call[p] = "snapshot"
                    /\ IF artifact THEN Answer(p, FinalAnswer) ELSE Proceed(p, "record")
                    /\ CallSucceeds
                    /\ UNCHANGED <<storeOf, jobOf, cacheOf, gets>>

\* Snapshot, second call.
SnapshotRecord(p) == /\ call[p] = "record"
                     /\ Answer(p, ByDocument(given[p], stored))
                     /\ CallSucceeds
                     /\ UNCHANGED <<storeOf, jobOf, cacheOf, gets>>

DiesWithPoll(p) == call[p] = "fetching"

\* The shared fetch has a context without the request's cancellation.
TakesFetchAlong(p) == FALSE

\* The client goes away; its request is not answered.
HangUp(p) == /\ call[p] # "idle"
             /\ IF TakesFetchAlong(p) THEN EndFetch
                ELSE /\ End({p}) /\ told' = {}
                     /\ UNCHANGED <<storeOf, jobOf, cacheOf, gets>>
             /\ CallSucceeds

FilePollNext ==
  \/ Register \/ FindsFinal \/ Fill \/ PutFinal \/ PutFinalFails
  \/ Drop \/ DropFails \/ JobStops
  \/ FetchOk \/ FetchFails \/ Expire
  \/ \E p \in Polls :
       \/ \E m \in Methods[p] : Begin(p, m)
       \/ BeginFinal(p) \/ StoreFails(p) \/ ReadKnown(p) \/ KnownFails(p)
       \/ HitDocument(p) \/ BeginFetch(p) \/ JoinFetch(p) \/ CountKnown(p)
       \/ PollEnsure(p) \/ SnapshotFinal(p) \/ SnapshotRecord(p) \/ HangUp(p)

FilePollSpec == FilePollInit /\ [][FilePollNext]_pollVars

-----------------------------------------------------------------------------
\* The type invariant; a count never exceeds its total.
FilePollTypeOK ==
  /\ artifact \in BOOLEAN /\ stored \in Records
  /\ job \in {"none", "queued", "filling", "dropping"} /\ jobDoc \in Sizes \cup {0}
  /\ docCache \in {"none", "fetching", "parsed"} /\ parsed \in Sizes \cup {0}
  /\ call \in [Polls -> {"idle", "known", "document", "fetching", "waiting", "count",
                         "ensure", "snapshot", "record"}]
  /\ method \in [Polls -> {"GET", "HEAD", "HEADpos"}]
  /\ given \in [Polls -> Sizes \cup {0}]
  /\ known \in [Polls -> Records]
  /\ floor \in [Polls -> Records]
  /\ renewed \in SUBSET Polls
  /\ \A t \in told : /\ t.answer.kind \in {"partial", "final", "error"}
                    /\ t.answer.done \in 0..t.answer.total
                    /\ t.answer.kind = "partial" => t.answer.total \in Sizes \cup {0}
                    /\ t.less \in BOOLEAN /\ t.renewed \in BOOLEAN
  /\ gets \in BOOLEAN
  /\ refused \in BOOLEAN

\* A poll reads the artifact and the record in two calls.  Of a document of which it
\* found a record when it began, it reports less than was there only when the
\* artifact has taken the record's place, so that the next poll is answered with
\* it, or when a job for another document has started the record over, whatever
\* calls fail (Snapshot, writeFinal).
LessMeansFinal ==
  \A t \in told : t.answer.kind = "partial" /\ t.less => artifact \/ t.renewed

\* done = total, which the player takes for a finished track and stops polling,
\* is said only when every cue with text of the document it is said of has its
\* line (README.md:35), by a HEAD that has no document, and of a record that is
\* longer or shorter than the document too (sizedLines).  A HEAD with a document
\* may be overtaken by a job that starts the record over.
CompleteMeansComplete ==
  \A t \in told : /\ t.answer.kind = "partial" /\ t.answer.total > 0
                 /\ t.answer.done = t.answer.total
                 => artifact \/ t.renewed \/ TextCues[t.answer.total] \subseteq Filled(stored)

\* A HEAD's poll never turns into a source fetch that no GET has asked for (the
\* comment in ServeHTTP).
NoUnpaidFetch ==
  [][\A p \in Polls : method[p] # "GET" /\ BeginFetch(p) => gets]_pollVars

\* Nobody is told of an error because somebody else's connection went away: the
\* shared fetch has no request's cancellation (docFor).
ErrorsAreReal == \A t \in told : t.answer.kind = "error" => refused

=============================================================================
