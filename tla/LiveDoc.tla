------------------------------- MODULE LiveDoc -------------------------------
(***************************************************************************)
(* Movie time in a live session: the document that grows out of the runs   *)
(* of a transcoder (services/live_doc.go) and the progress record that is  *)
(* lined up with it (services/live_job.go collectKnown, lookup,            *)
(* alignLines, syncLive).                                                  *)
(*                                                                         *)
(* Every run has a timeline of its own, shifted against the film's by up   *)
(* to a keyframe interval, and clips the cue that its start cuts through.  *)
(* The same line of the film therefore comes back under other times after  *)
(* a seek, and documents of other sessions and replicas begin in mid-film  *)
(* while the record goes on.                                               *)
(*                                                                         *)
(* LiveSource and LiveJob identify a cue by its place in the film; here it *)
(* is found the way the code finds it (LiveDocProofs says when the two     *)
(* agree).                                                                 *)
(* A definition that nothing uses, placed before the one it is a faulty    *)
(* form of, is what PROJECT.json substitutes to see a property fail.       *)
(***************************************************************************)
EXTENDS Integers, Sequences, FiniteSets

CONSTANTS
  Film,        \* the cues of the film, as [start, end, text], in its order
  NoText,      \* the text of a cue that normalises to nothing
  Offsets,     \* the offsets a run can have
  Shift,       \* [Offsets -> Int]: a run's timeline against the film's
  Tolerance,   \* cueMatchTolerance
  MaxMoves     \* bound: seeks and documents begun anew

FilmCues == 1..Len(Film)

Gap(x, y) == IF x < y THEN y - x ELSE x - y

\* The shifts the tolerance is meant for (the comment on cueMatchTolerance).
ASSUME LiveDocAssumption ==
  /\ Film \in Seq([start : Nat, end : Nat, text : STRING])
  /\ Offsets \subseteq Nat /\ Shift \in [Offsets -> Int]
  /\ Tolerance \in Nat
  /\ \A o, p \in Offsets : Gap(Shift[o], Shift[p]) <= Tolerance
  /\ MaxMoves \in Nat

VARIABLES
  doc,      \* the document, in append order: cues with their run, and which
            \* cue of the film each one is
  run,      \* the offset of the current run
  next,     \* the film's cue the run's playlist goes on with
  record,   \* CueKeys and Lines: keys, each with the film's cue whose
            \* translation its line is, or 0
  synced,   \* how many of the document's cues the record is lined up with
  read,     \* what was read into this document: the film's cues, with the run
  bought,   \* how often each cue of the film was sent to the translator
  moves

docVars == <<doc, run, next, record, synced, read, bought, moves>>

Later(x, y) == IF x < y THEN y ELSE x

\* Cue f as run o reports it: shifted, and clipped to the run's start.
InRun(f, o) == [start |-> Later(Film[f].start + Shift[o], o),
                end |-> Film[f].end + Shift[o],
                text |-> Film[f].text]

\* The first cue of the film that ends after the run's start.
FirstOf(o) == CHOOSE f \in 1..(Len(Film) + 1) :
                /\ f \in FilmCues => InRun(f, o).end > o
                /\ \A g \in 1..(f - 1) : InRun(g, o).end <= o

\* The identity of a cue across runs and re-reads (CueKey).
KeyOf(entry) == [start |-> entry.start, end |-> entry.end, text |-> entry.text]

SameStart(a, b) == Gap(a.start, b.start) <= Tolerance

\* Either end is enough: a clipped cue keeps only one of them.
SameCue(a, b) == \/ Gap(a.start, b.start) <= Tolerance
                 \/ Gap(a.end, b.end) <= Tolerance

-----------------------------------------------------------------------------
LiveDocInit == /\ doc = <<>>
               /\ run \in Offsets
               /\ next = FirstOf(run)
               /\ record = <<>>
               /\ synced = 0
               /\ read = {}
               /\ bought = [f \in FilmCues |-> 0]
               /\ moves = 0

Held(cue) == \E i \in 1..Len(doc) : KeyOf(doc[i]) = cue

AnyRun(i, o) == TRUE

\* Two cues of one run are never the same cue.
OtherRun(i, o) == doc[i].run # o

DupWithin(cue, o) ==
  /\ cue.text # NoText
  /\ \E i \in 1..Len(doc) : /\ doc[i].text = cue.text
                            /\ OtherRun(i, o)
                            /\ SameCue(doc[i], cue)

\* AddSegment, for the next cue of the run's playlist.
AddCue == LET cue == InRun(next, run) IN
  /\ next \in FilmCues
  /\ doc' = IF Held(cue) \/ DupWithin(cue, run) THEN doc
            ELSE Append(doc, [start |-> cue.start, end |-> cue.end, text |-> cue.text,
                              run |-> run, film |-> next])
  /\ next' = next + 1
  /\ read' = read \cup {<<next, run>>}
  /\ UNCHANGED <<run, record, synced, bought, moves>>

\* Another run, or the same one again, whose playlist starts over.
Seek(o) == /\ moves < MaxMoves
           /\ moves' = moves + 1
           /\ run' = o
           /\ next' = FirstOf(o)
           /\ UNCHANGED <<doc, record, synced, read, bought>>

\* Another session or another replica's source: an empty document, and a job
\* that loads the record from the store.
NewDoc(o) == /\ moves < MaxMoves
             /\ moves' = moves + 1
             /\ doc' = <<>>
             /\ read' = {}
             /\ synced' = 0
             /\ run' = o
             /\ next' = FirstOf(o)
             /\ UNCHANGED <<record, bought>>

-----------------------------------------------------------------------------
(* Lining the record up with the document.                                 *)

\* The places of the record with a line for this cue: under its key, or else
\* under the same text within the tolerance.
Exact(cue) == {i \in 1..Len(record) : record[i].line # 0 /\ record[i].key = cue}

Near(cue) == {i \in 1..Len(record) : /\ record[i].line # 0 /\ cue.text # NoText
                                     /\ record[i].key.text = cue.text
                                     /\ SameCue(record[i].key, cue)}

FirstLine(places) ==
  IF places = {} THEN 0
  ELSE record[CHOOSE i \in places : \A j \in places : i <= j].line

KnownByKey(cue) == FirstLine(Exact(cue))

Known(cue) == FirstLine(IF Exact(cue) # {} THEN Exact(cue) ELSE Near(cue))

Positional(i) == [key |-> KeyOf(doc[i]),
                  line |-> IF i <= Len(record) THEN record[i].line ELSE 0]

Aligned(i) == [key |-> KeyOf(doc[i]), line |-> Known(KeyOf(doc[i]))]

ParkedInDoc(entry) == entry.line # 0

NeverParked(entry) == FALSE

\* A line the document has no cue for is parked behind the document's lines.
Parked(entry) == entry.line # 0 /\ ~Held(entry.key)

\* What the first n places of the record leave behind the document.
ParkedOf[n \in 0..Len(record)] ==
  IF n = 0 THEN <<>>
  ELSE IF Parked(record[n]) THEN Append(ParkedOf[n - 1], record[n])
  ELSE ParkedOf[n - 1]

LinedUp == [i \in 1..Len(doc) |-> Aligned(i)] \o ParkedOf[Len(record)]

\* syncLive, at the start of a tick.
Sync == /\ record' = LinedUp
        /\ synced' = Len(doc)
        /\ UNCHANGED <<doc, run, next, read, bought, moves>>

\* A cue of the record without a line is translated.  Which text was sent for
\* it is LiveJob's question.
Translate(i) == /\ i <= synced
                /\ record[i].line = 0 /\ doc[i].text # NoText
                /\ record' = [record EXCEPT ![i].line = doc[i].film]
                /\ bought' = [bought EXCEPT ![doc[i].film] = @ + 1]
                /\ UNCHANGED <<doc, run, next, synced, read, moves>>

LiveDocNext == \/ AddCue
               \/ \E o \in Offsets : Seek(o) \/ NewDoc(o)
               \/ Sync
               \/ \E i \in 1..Len(doc) : Translate(i)

LiveDocSpec == LiveDocInit /\ [][LiveDocNext]_docVars

-----------------------------------------------------------------------------
KeySet == [start : Int, end : Int, text : {Film[f].text : f \in FilmCues}]

\* Each key appears once (the comment on syncLive): collectKnown would let a
\* second entry's line win over the first one's.
EachKeyOnce == \A i, j \in 1..Len(record) : record[i].key = record[j].key => i = j

\* The type invariant; the record is a map from keys to lines, the document's
\* keys first.
LiveDocTypeOK ==
  /\ \A i \in 1..Len(doc) : /\ KeyOf(doc[i]) \in KeySet
                            /\ doc[i].run \in Offsets /\ doc[i].film \in FilmCues
  /\ run \in Offsets /\ next \in 1..(Len(Film) + 1)
  /\ \A i \in 1..Len(record) : record[i].key \in KeySet /\ record[i].line \in FilmCues \cup {0}
  /\ synced \in 0..Len(doc) /\ synced <= Len(record)
  /\ \A i \in 1..synced : record[i].key = KeyOf(doc[i])
  /\ EachKeyOnce
  /\ read \subseteq FilmCues \X Offsets
  /\ bought \in [FilmCues -> Nat]

\* A line of the film is in the document once, whatever runs it was read in:
\* stored twice it would be translated twice and rendered twice, one over the
\* other (the comment on cueMatchTolerance).
StoredOnce == \A i, j \in 1..Len(doc) :
                doc[i].film = doc[j].film /\ doc[i].text # NoText => i = j

\* As long as all was read in one run, every cue that was read is in the
\* document: inside a run a line repeated 1.5 s later is a line repeated 1.5 s
\* later, and dropping it loses a line the viewer was meant to read (dupWithin,
\* TestLiveDocKeepsARepeatedLineWithinOneRun).
OneRunIsWhole ==
  \A o \in Offsets : read \subseteq FilmCues \X {o} =>
    \A r \in read : \E i \in 1..Len(doc) : doc[i].film = r[1]

\* A line is filed under a cue with the text it is a translation of, also when
\* a seek or another document has renumbered the cues.
RightLine == \A i \in 1..Len(record) :
               record[i].line # 0 => Film[record[i].line].text = record[i].key.text

\* A line of the film is paid for once, whatever runs and documents it is read
\* in (the comments on lookup and syncLive).
PaidOnce == \A f \in FilmCues : bought[f] <= 1

HeldLines == {record[i] : i \in {j \in 1..Len(record) : record[j].line # 0}}

\* The record keeps every translation it ever held, whatever order the
\* documents arrive in (the comment on syncLive).
RecordKeepsAll == [][HeldLines \subseteq HeldLines']_docVars

=============================================================================
