----------------------------- MODULE LiveSource -----------------------------
(***************************************************************************)
(* One transcoder session and the source that follows its subtitle         *)
(* playlist (services/live_source.go, live_doc.go).                        *)
(*                                                                         *)
(* The film has cues 1..Cues in movie time; a run of the transcoder starts *)
(* at an offset and writes one segment per cue behind it, a seek starts    *)
(* another run.  The job's loop and the viewers' polls read the playlist   *)
(* into the same source: a read takes the playlist once, then fetches the  *)
(* segments it has not seen one by one, and only at its end settles the    *)
(* source's flags, so everything else can happen between two fetches.      *)
(*                                                                         *)
(* The byte cap is left to the cue cap, which ends a read the same way.    *)
(* A definition that nothing uses, placed before the one it is a faulty    *)
(* form of, is what PROJECT.json substitutes to see a property fail.       *)
(***************************************************************************)
EXTENDS Integers, Sequences, FiniteSets

CONSTANTS
  Cues,        \* the number of cues of the film
  Offsets,     \* where a run may start: offset o is followed by cue o + 1
  Broken,      \* the segments that are listed and can never be fetched
  Readers,     \* who reads the playlist: the job's loop, the handler
  MaxStrikes,  \* segmentMaxStrikes
  MaxCues,     \* --max-cues
  MaxSeeks,    \* bound: how often the viewer seeks or opens another session
  MaxFaults,   \* bound: failed playlist reads and segment fetches
  NoRead,      \* no read of the playlist is in flight
  NoRef        \* the job has no result of a read to look at

ASSUME LiveSourceAssumption ==
  /\ Cues \in Nat \ {0}
  /\ Offsets \subseteq 0..(Cues - 1) /\ 0 \in Offsets
  /\ Broken \subseteq Offsets \X (1..Cues)
  /\ Readers \subseteq {"job", "handler"}
  /\ MaxStrikes \in Nat \ {0}
  /\ MaxCues \in Nat /\ MaxSeeks \in Nat /\ MaxFaults \in Nat

VARIABLES
  run,          \* the transcoder: offset, last cue written, ENDLIST written
  alive,        \* whether the session still answers
  seeks,        \* seeks and new sessions that may still follow
  faults,       \* faults that may still happen
  reading,      \* the read that holds refreshMu, or NoRead
  doc,          \* LiveDoc: the cues, in the order they were appended
  seen,         \* segments never to be fetched again
  fails,        \* failed fetches of each segment not yet seen
  ended,        \* LiveSource.ended
  contiguous,   \* LiveSource.contiguous
  runEnded,     \* LiveSource.runEnded
  gone,         \* LiveSource.gone
  retired,      \* LiveSource.retired
  offset,       \* LiveSource.currentOffset
  offsetSeen,   \* LiveSource.offsetSeen
  runRead,      \* LiveSource.runSegments > 0
  fresh,        \* runStartedAt is younger than FreshRun
  runStarted,   \* whether the channel holds its one token
  ref           \* what the job's last read returned, until it looks at it

worldVars == <<run, alive, seeks>>
flagVars == <<ended, contiguous, runEnded, gone, retired>>
runVars == <<offset, offsetSeen, runRead, fresh>>
segVars == <<doc, seen, fails>>
sourceVars == <<worldVars, faults, reading, segVars, flagVars, runVars, runStarted, ref>>

Film == 1..Cues

Segments == Offsets \X Film

InDoc == {doc[i] : i \in DOMAIN doc}

-----------------------------------------------------------------------------
(* Results of Refresh.                                                     *)

Failed(err) == [err |-> err, ended |-> FALSE]

\* Only the job's loop looks at what a read returned.
Return(who, result) == ref' = IF who = "job" THEN result ELSE ref

Fault == faults > 0 /\ faults' = faults - 1

\* A fetch of a broken segment fails without further cause.
FetchFault(seg) == IF seg \in Broken THEN UNCHANGED faults ELSE Fault

-----------------------------------------------------------------------------
\* A run of the transcoder that starts at offset o.
StartAt(o) == [off |-> o, out |-> o, fin |-> FALSE]

SourceInit ==
  /\ \E o \in Offsets : run = StartAt(o)
  /\ alive = TRUE
  /\ seeks = MaxSeeks
  /\ faults = MaxFaults
  /\ reading = NoRead
  /\ doc = <<>> /\ seen = {} /\ fails = [s \in Segments |-> 0]
  /\ ended = FALSE /\ contiguous = TRUE /\ runEnded = FALSE
  /\ gone = FALSE /\ retired = FALSE
  /\ offset = 0 /\ offsetSeen = FALSE /\ runRead = FALSE /\ fresh = FALSE
  /\ runStarted = FALSE
  /\ ref = NoRef

-----------------------------------------------------------------------------
(* The transcoder and the viewer, external to this program.                *)

Write == /\ alive /\ run.out < Cues
         /\ run' = [run EXCEPT !.out = @ + 1]
         /\ UNCHANGED <<alive, seeks>>

EndList == /\ alive /\ run.out = Cues /\ ~run.fin
           /\ run' = [run EXCEPT !.fin = TRUE]
           /\ UNCHANGED <<alive, seeks>>

Seek == /\ alive /\ seeks > 0
        /\ \E o \in Offsets : run' = StartAt(o)
        /\ seeks' = seeks - 1
        /\ UNCHANGED alive

\* The session is reaped: the playlist answers 404 from now on.
Reap == /\ alive
        /\ alive' = FALSE
        /\ UNCHANGED <<run, seeks>>

World == /\ Write \/ EndList \/ Seek \/ Reap
         /\ UNCHANGED <<faults, reading, segVars, flagVars, runVars, runStarted, ref>>

\* FreshRun passes since the run was first seen.
Ages == /\ fresh
        /\ fresh' = FALSE
        /\ UNCHANGED <<worldVars, faults, reading, segVars, flagVars,
                       offset, offsetSeen, runRead, runStarted, ref>>

\* The handler replaces the source in its cache.
Retire == /\ ~retired
          /\ retired' = TRUE
          /\ UNCHANGED <<worldVars, faults, reading, segVars, ended, contiguous, runEnded,
                         gone, runVars, runStarted, ref>>

\* Another session, followed by a source of its own (NewLiveSource).
NewSource ==
  /\ seeks > 0 /\ seeks' = seeks - 1
  /\ \E o \in Offsets : run' = StartAt(o)
  /\ alive' = TRUE
  /\ reading' = NoRead
  /\ doc' = <<>> /\ seen' = {} /\ fails' = [s \in Segments |-> 0]
  /\ ended' = FALSE /\ contiguous' = TRUE /\ runEnded' = FALSE
  /\ gone' = FALSE /\ retired' = FALSE
  /\ offset' = 0 /\ offsetSeen' = FALSE /\ runRead' = FALSE /\ fresh' = FALSE
  /\ runStarted' = FALSE
  /\ ref' = NoRef

-----------------------------------------------------------------------------
(* refresh, under refreshMu.                                               *)

\* The playlist parsed: its header is settled before any segment is fetched,
\* and a run not seen before leaves a token for the job.
BeginRead(who) ==
  /\ reading = NoRead /\ ~retired /\ alive
  /\ reading' = [by |-> who, off |-> run.off, upto |-> run.out, fin |-> run.fin, added |-> 0]
  /\ LET newRun == ~offsetSeen \/ run.off # offset
     IN  /\ runStarted' = (runStarted \/ newRun)
         /\ fresh' = (fresh \/ newRun)
         /\ runRead' = (runRead /\ ~newRun)
  /\ offsetSeen' = TRUE
  /\ offset' = run.off
  /\ UNCHANGED <<worldVars, faults, segVars, flagVars, ref>>

\* A retired source is turned away before anything is fetched.
ReadRetired(who) == /\ reading = NoRead /\ retired
                    /\ Return(who, Failed("gone"))
                    /\ UNCHANGED <<worldVars, faults, reading, segVars, flagVars, runVars, runStarted>>

\* 404 or 503 on the playlist: the session is over.
ReadGone(who) == /\ reading = NoRead /\ ~retired /\ ~alive
                 /\ gone' = TRUE
                 /\ Return(who, Failed("gone"))
                 /\ UNCHANGED <<worldVars, faults, reading, segVars, ended, contiguous, runEnded,
                                retired, runVars, runStarted>>

\* Anything else: a timeout, a 5xx, a half-written playlist.
ReadFails(who) == /\ reading = NoRead /\ ~retired
                  /\ Fault
                  /\ Return(who, Failed("transient"))
                  /\ UNCHANGED <<worldVars, reading, segVars, flagVars, runVars, runStarted>>

\* Segments known by their name alone, whatever run they belong to.
LeftByName == {c \in (reading.off + 1)..reading.upto : ~\E o \in Offsets : <<o, c>> \in seen}

\* The segments the read still has to fetch, and the one it is at.
Left == {c \in (reading.off + 1)..reading.upto : <<reading.off, c>> \notin seen}

AtSegment(c) == /\ reading # NoRead
                /\ c \in Left /\ \A e \in Left : c <= e

Abort(err) == /\ reading' = NoRead
              /\ Return(reading.by, Failed(err))

Appended(c) == IF c \in InDoc THEN doc ELSE Append(doc, c)

Outgrown(n) == n > MaxCues

\* The segment is fetched and parsed; its cue is appended unless the document
\* has it, from this run or another one.
FetchSegment(c) ==
  /\ AtSegment(c)
  /\ <<reading.off, c>> \notin Broken
  /\ doc' = Appended(c)
  /\ IF Outgrown(Len(doc'))
       THEN /\ Abort("toolarge")
            /\ UNCHANGED <<seen, fails, runRead>>
       ELSE /\ seen' = seen \cup {<<reading.off, c>>}
            /\ fails' = [fails EXCEPT ![<<reading.off, c>>] = 0]
            /\ runRead' = TRUE
            /\ reading' = [reading EXCEPT !.added = @ + Len(doc') - Len(doc)]
            /\ UNCHANGED ref
  /\ UNCHANGED <<worldVars, faults, flagVars, offset, offsetSeen, fresh, runStarted>>

LastStrike(c) == fails[<<reading.off, c>>] + 1 >= MaxStrikes

NotStruck(c) == fails

\* One more consecutive failure of a segment.
Struck(c) == [fails EXCEPT ![<<reading.off, c>>] = @ + 1]

\* A failed fetch ends the read; the segment is retried by the next one.
SegmentFails(c) ==
  /\ AtSegment(c)
  /\ ~LastStrike(c)
  /\ FetchFault(<<reading.off, c>>)
  /\ fails' = Struck(c)
  /\ Abort("transient")
  /\ UNCHANGED <<worldVars, doc, seen, flagVars, runVars, runStarted>>

\* skipSegment: the last strike, the read goes on behind the segment.
SkipSegment(c) ==
  /\ AtSegment(c)
  /\ LastStrike(c)
  /\ FetchFault(<<reading.off, c>>)
  /\ seen' = seen \cup {<<reading.off, c>>}
  /\ fails' = [fails EXCEPT ![<<reading.off, c>>] = 0]
  /\ contiguous' = FALSE
  /\ UNCHANGED <<worldVars, reading, doc, ended, runEnded, gone, retired, runVars, runStarted, ref>>

ContiguousForever == contiguous

\* A run that does not start the film never makes a whole document.
ContiguousAfter == contiguous /\ reading.off = 0

EndedWithCues == reading.fin /\ reading.added > 0

\* ENDLIST sets the mark, new cues of a playlist without it take it back.
EndedAfter == reading.fin \/ (ended /\ reading.added = 0)

\* Every segment is dealt with: the flags follow from this read.
EndRead ==
  /\ reading # NoRead
  /\ Left = {}
  /\ contiguous' = ContiguousAfter
  /\ ended' = EndedAfter
  /\ runEnded' = (runEnded /\ reading.added = 0)
  /\ reading' = NoRead
  /\ Return(reading.by, [err |-> "none", ended |-> ended'])
  /\ UNCHANGED <<worldVars, faults, segVars, gone, retired, runVars, runStarted>>

Segment(c) == FetchSegment(c) \/ SegmentFails(c) \/ SkipSegment(c)

Read == \/ \E who \in Readers :
             BeginRead(who) \/ ReadRetired(who) \/ ReadGone(who) \/ ReadFails(who)
        \/ \E c \in Film : Segment(c)
        \/ EndRead

-----------------------------------------------------------------------------
(* The source on its own: nobody takes the token, nobody marks the run.     *)

SourceNext == World \/ Ages \/ Retire \/ Read

SourceSpec == SourceInit /\ [][SourceNext]_sourceVars

\* A read that started makes its way, and the playlist is polled for ever.
SourceFairness == /\ \A who \in Readers : WF_sourceVars(BeginRead(who))
                  /\ WF_sourceVars((\E c \in Film : Segment(c)) \/ EndRead)

FairSourceSpec == SourceSpec /\ SourceFairness

-----------------------------------------------------------------------------
Playlist == [off : Offsets, upto : 0..Cues, fin : BOOLEAN, by : Readers, added : Nat]

Result == [err : {"none", "gone", "toolarge", "transient"}, ended : BOOLEAN]

\* The type invariant of the source.
SourceTypeOK ==
  /\ run \in [off : Offsets, out : 0..Cues, fin : BOOLEAN]
  /\ alive \in BOOLEAN
  /\ seeks \in 0..MaxSeeks
  /\ faults \in 0..MaxFaults
  /\ reading \in Playlist \cup {NoRead}
  /\ doc \in Seq(Film)
  /\ seen \subseteq Segments
  /\ fails \in [Segments -> 0..(MaxStrikes - 1)]
  /\ ended \in BOOLEAN /\ contiguous \in BOOLEAN /\ runEnded \in BOOLEAN
  /\ gone \in BOOLEAN /\ retired \in BOOLEAN
  /\ offset \in Offsets /\ offsetSeen \in BOOLEAN
  /\ runRead \in BOOLEAN /\ fresh \in BOOLEAN
  /\ runStarted \in BOOLEAN
  /\ ref \in Result \cup {NoRef}

\* A source that says it is contiguous and ended holds the whole film.  This
\* is all finishLive asks before it writes an artifact that is served for
\* good: neither a segment given up on, nor a run that started in the middle,
\* nor a seek back, nor a read cut short may leave both marks set
\* (live_source.go refresh, skipSegment).
ContiguousIsWhole == contiguous /\ ended => InDoc = Film

\* The flags say nothing about segments nobody dealt with: a source is only
\* ended once every segment of some finished run was fetched or given up on.
EndedWasRead == ended => \E o \in Offsets : \A c \in (o + 1)..Cues : <<o, c>> \in seen

\* One segment never freezes the document: while a run goes on being polled,
\* every segment it lists is fetched or given up on, in spite of segments in
\* front of it that never answer (the comment on segmentMaxStrikes).
NeverFrozen ==
  \A o \in Offsets, c \in Film :
    <>[](run.off = o /\ o < c /\ c <= run.out /\ alive /\ ~retired) => <>(<<o, c>> \in seen)

=============================================================================
