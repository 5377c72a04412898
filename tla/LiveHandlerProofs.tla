------------------------- MODULE LiveHandlerProofs -------------------------
(***************************************************************************)
(* What LiveHandler keeps for any sessions, any number of polls at once    *)
(* and any number of evictions, dead sessions and stray failures.          *)
(***************************************************************************)
EXTENDS LiveHandler, FiniteSetTheorems, TLAPS

SourceRec == [of : Sessions, retired : BOOLEAN, gone : BOOLEAN]

\* The entries that n sources allow.
EntryRec(n) == [cur : 1..n, given : SUBSET Sessions]

\* The requests that e entries and n sources allow.
RequestRec(e, n) ==
  [at : {"idle", "lookup", "settle", "refresh", "reading", "ensure"},
   of : Sessions, entry : 0..e, src : 0..n, first : 0..n, answer : {"none", "ok", "notfound"}]

ReqRec == RequestRec(Len(entries), Len(sources))

\* A request that settles has an entry, one that got past it has a source.
ReqInv == \A r \in Requests :
            /\ At(r, "settle") => req[r].entry # 0
            /\ req[r].at \in {"refresh", "reading", "ensure"} => req[r].src # 0

\* A new source lengthens the list by one and is a source.
LEMMA NewSourceTyped ==
  ASSUME NEW S \in Seq(SourceRec), NEW s \in Sessions
  PROVE  /\ Append(S, NewSource(s)) \in Seq(SourceRec)
         /\ Len(Append(S, NewSource(s))) = Len(S) + 1
BY DEF NewSource, SourceRec

\* Marking a source leaves the list as long as it was.
LEMMA MarkTyped ==
  ASSUME NEW S \in Seq(SourceRec), NEW i \in 1..Len(S)
  PROVE  /\ [S EXCEPT ![i].retired = TRUE] \in Seq(SourceRec)
         /\ [S EXCEPT ![i].gone = TRUE] \in Seq(SourceRec)
         /\ Len([S EXCEPT ![i].retired = TRUE]) = Len(S)
         /\ Len([S EXCEPT ![i].gone = TRUE]) = Len(S)
<1>1. S[i] \in SourceRec
  OBVIOUS
<1>2. /\ [S[i] EXCEPT !.retired = TRUE] \in SourceRec
      /\ [S[i] EXCEPT !.gone = TRUE] \in SourceRec
  BY <1>1 DEF SourceRec
<1> QED
  BY <1>2

\* A source marked retired is.
LEMMA MarkRetires ==
  ASSUME NEW S \in Seq(SourceRec), NEW i \in 1..Len(S)
  PROVE  [S EXCEPT ![i].retired = TRUE][i].retired
<1>1. S[i] \in SourceRec /\ i \in DOMAIN S
  OBVIOUS
<1> QED
  BY <1>1, Zenon DEF SourceRec

\* It is still a source of its session, gone if it was.
LEMMA MarkKeepsRest ==
  ASSUME NEW S \in Seq(SourceRec), NEW i \in 1..Len(S), NEW j \in 1..Len(S)
  PROVE  /\ [S EXCEPT ![i].retired = TRUE][j].gone = S[j].gone
         /\ [S EXCEPT ![i].retired = TRUE][j].of = S[j].of
<1>1. S[j] \in SourceRec /\ j \in DOMAIN S
  OBVIOUS
<1> QED
  BY <1>1 DEF SourceRec

\* A source marked gone is.
LEMMA MarkGoes ==
  ASSUME NEW S \in Seq(SourceRec), NEW i \in 1..Len(S)
  PROVE  [S EXCEPT ![i].gone = TRUE][i].gone
<1>1. S[i] \in SourceRec /\ i \in DOMAIN S
  OBVIOUS
<1> QED
  BY <1>1, Zenon DEF SourceRec

\* Entries stay entries when sources are added.
LEMMA EntriesStay ==
  ASSUME NEW n \in Nat, NEW m \in Nat, n <= m, NEW E \in Seq(EntryRec(n))
  PROVE  E \in Seq(EntryRec(m))
<1>1. EntryRec(n) \subseteq EntryRec(m)
  BY DEF EntryRec
<1> QED
  BY <1>1

-----------------------------------------------------------------------------
(* Typing.  The sources, the entries and what is picked from them first;    *)
(* then the requests, whose ids must stay inside lists that only grow.      *)

WorldOK == /\ alive \in [Sessions -> BOOLEAN]
           /\ sources \in Seq(SourceRec) /\ Len(sources) <= MaxSources
           /\ entries \in Seq(EntryRec(Len(sources)))
           /\ cached \in 0..Len(entries)
           /\ job \in 0..Len(sources)
           /\ evictions \in 0..MaxEvictions /\ reaps \in 0..MaxReaps /\ blips \in 0..MaxBlips

RequestsOK == req \in [Requests -> ReqRec] /\ ReqInv

Grows == Len(sources) <= Len(sources') /\ Len(entries) <= Len(entries')

\* The two parts are the type invariant and what a request's step knows.
LEMMA TypeParts == WorldOK /\ RequestsOK <=> TypeOK /\ ReqInv
<1>1. \A n \in Nat : EntryRec(n) = [cur : (0..n) \ {0}, given : SUBSET Sessions]
  <2>1. \A n \in Nat : (0..n) \ {0} = 1..n
    OBVIOUS
  <2> QED
    BY <2>1 DEF EntryRec
<1>2. sources \in Seq(SourceRec) => Len(sources) \in Nat
  OBVIOUS
<1> QED
  BY <1>1, <1>2 DEF WorldOK, RequestsOK, TypeOK, SourceRec, ReqRec, RequestRec, SourceIds

\* The ids a request may hold stay ids.
LEMMA RequestIdsStay ==
  ASSUME WorldOK, WorldOK', Grows
  PROVE  ReqRec \subseteq ReqRec'
<1>1. \A e, f, n, m \in Nat : e <= f /\ n <= m => RequestRec(e, n) \subseteq RequestRec(f, m)
  BY DEF RequestRec
<1>2. /\ Len(entries) \in Nat /\ Len(sources) \in Nat
      /\ Len(entries') \in Nat /\ Len(sources') \in Nat
  BY SMTT(30) DEF WorldOK
<1> QED
  BY <1>1, <1>2 DEF Grows, ReqRec

\* A step of one request, to a record that is typed, keeps the requests typed.
LEMMA OneRequest ==
  ASSUME WorldOK, WorldOK', Grows, RequestsOK, NEW r \in Requests,
         req' = [req EXCEPT ![r] = req'[r]], req'[r] \in ReqRec',
         req'[r].at = "settle" => req'[r].entry # 0,
         req'[r].at \in {"refresh", "reading", "ensure"} => req'[r].src # 0
  PROVE  RequestsOK'
<1>1. ReqRec \subseteq ReqRec'
  BY RequestIdsStay
<1>2. req' \in [Requests -> ReqRec']
  BY <1>1 DEF RequestsOK
<1>3. \A q \in Requests : q # r => req'[q] = req[q]
  BY DEF RequestsOK
<1> QED
  BY <1>2, <1>3 DEF RequestsOK, ReqInv, At

\* Requests that do not move stay typed while the lists grow.
LEMMA NoRequest ==
  ASSUME WorldOK, WorldOK', Grows, RequestsOK, UNCHANGED req
  PROVE  RequestsOK'
<1>1. ReqRec \subseteq ReqRec'
  BY RequestIdsStay
<1> QED
  BY <1>1 DEF RequestsOK, ReqInv, At

\* Nothing but a request moves.
LEMMA QuietWorld ==
  ASSUME WorldOK, UNCHANGED <<alive, keyVars, job, bounds>>
  PROVE  WorldOK' /\ Grows
BY DEF WorldOK, Grows, keyVars, bounds, EntryRec

\* A source is marked gone, at the cost of a blip or of none.
LEMMA GoneWorld ==
  ASSUME WorldOK, NEW src \in 1..Len(sources), PlaylistGone(src),
         UNCHANGED <<alive, entries, cached, evictions, reaps>>, job' \in {job, 0}
  PROVE  WorldOK' /\ Grows
<1>1. sources' \in Seq(SourceRec) /\ Len(sources') = Len(sources)
  BY MarkTyped DEF PlaylistGone, WorldOK
<1>2. blips' \in 0..MaxBlips
  BY LiveHandlerAssumption DEF PlaylistGone, WorldOK
<1> QED
  BY <1>1, <1>2 DEF WorldOK, Grows

\* Where a request moves to when it settles on a source.
LEMMA SettleRequest ==
  ASSUME WorldOK, WorldOK', Grows, RequestsOK, NEW r \in Requests,
         NEW src \in 1..Len(sources'), SettledOn(r, src)
  PROVE  RequestsOK'
<1>1. req[r] \in ReqRec'
  BY RequestIdsStay DEF RequestsOK
<1>2. CASE src = req[r].first
  <2>1. /\ req' = [req EXCEPT ![r] = req'[r]]
        /\ req'[r] = [req[r] EXCEPT !.at = "idle", !.answer = "notfound"]
    BY <1>2 DEF SettledOn, Answer, RequestsOK
  <2>2. req'[r] \in ReqRec' /\ req'[r].at = "idle"
    BY <1>1, <2>1 DEF ReqRec, RequestRec
  <2> QED
    BY <2>1, <2>2, OneRequest
<1>3. CASE src # req[r].first
  <2>1. /\ req' = [req EXCEPT ![r] = req'[r]]
        /\ req'[r] = [req[r] EXCEPT !.at = "refresh", !.src = src]
    BY <1>3 DEF SettledOn, RequestsOK
  <2>2. src \in 0..Len(sources') /\ src # 0
    BY DEF WorldOK
  <2>3. req'[r] \in ReqRec' /\ req'[r].at = "refresh" /\ req'[r].src # 0
    BY <1>1, <2>1, <2>2 DEF ReqRec, RequestRec
  <2> QED
    BY <2>1, <2>3, OneRequest
<1> QED
  BY <1>2, <1>3

\* Where a request moves to when its source is gone.
LEMMA GoneRequest ==
  ASSUME WorldOK, WorldOK', Grows, RequestsOK, NEW r \in Requests, FoundGone(r)
  PROVE  RequestsOK'
<1>1. req[r] \in ReqRec'
  BY RequestIdsStay DEF RequestsOK
<1>2. CASE req[r].first = 0
  <2>1. /\ req' = [req EXCEPT ![r] = req'[r]]
        /\ req'[r] = [req[r] EXCEPT !.at = "lookup", !.first = req[r].src]
    BY <1>2 DEF FoundGone, RequestsOK
  <2>2. req'[r] \in ReqRec' /\ req'[r].at = "lookup"
    BY <1>1, <2>1 DEF ReqRec, RequestRec
  <2> QED
    BY <2>1, <2>2, OneRequest
<1>3. CASE req[r].first # 0
  <2>1. /\ req' = [req EXCEPT ![r] = req'[r]]
        /\ req'[r] = [req[r] EXCEPT !.at = "idle", !.answer = "notfound"]
    BY <1>3 DEF FoundGone, Answer, RequestsOK
  <2>2. req'[r] \in ReqRec' /\ req'[r].at = "idle"
    BY <1>1, <2>1 DEF ReqRec, RequestRec
  <2> QED
    BY <2>1, <2>2, OneRequest
<1> QED
  BY <1>2, <1>3

\* A request that asks keeps the types.
LEMMA LookupStep ==
  ASSUME WorldOK, RequestsOK, NEW r \in Requests,
         (\E s \in Sessions : Arrive(r, s)) \/ Hit(r) \/ Miss(r)
  PROVE  WorldOK' /\ RequestsOK'
<1>1. req[r] \in ReqRec
  BY DEF RequestsOK
<1>2. ASSUME NEW s \in Sessions, Arrive(r, s)
      PROVE  WorldOK' /\ RequestsOK'
  <2>1. WorldOK' /\ Grows
    BY <1>2, QuietWorld DEF Arrive
  <2>2. /\ req' = [req EXCEPT ![r] = req'[r]]
        /\ req'[r] = [Unasked(s) EXCEPT !.at = "lookup"]
    BY <1>2 DEF Arrive, RequestsOK
  <2>3. Len(sources') \in Nat /\ Len(entries') \in Nat
    BY SMTT(30), <2>1 DEF WorldOK
  <2>4. req'[r] \in ReqRec' /\ req'[r].at = "lookup"
    BY <2>2, <2>3 DEF Unasked, ReqRec, RequestRec
  <2> QED
    BY <2>1, <2>2, <2>4, OneRequest
<1>3. ASSUME WorldOK', Grows, LookedUp(r, cached'), cached' # 0
      PROVE  RequestsOK'
  <2>1. /\ req' = [req EXCEPT ![r] = req'[r]]
        /\ req'[r] = [req[r] EXCEPT !.at = "settle", !.entry = cached']
    BY <1>3 DEF LookedUp, RequestsOK
  <2>2. req[r] \in ReqRec' /\ cached' \in 0..Len(entries')
    BY <1>1, <1>3, RequestIdsStay DEF WorldOK
  <2>3. req'[r] \in ReqRec' /\ req'[r].at = "settle" /\ req'[r].entry # 0
    BY <1>3, <2>1, <2>2 DEF ReqRec, RequestRec
  <2> QED
    BY <1>3, <2>1, <2>3, OneRequest
<1>4. CASE Hit(r)
  <2>1. WorldOK' /\ Grows /\ cached' = cached
    BY <1>4, QuietWorld DEF Hit, keyVars
  <2> QED
    BY <1>3, <1>4, <2>1 DEF Hit
<1>5. CASE Miss(r)
  <2>1. req[r].of \in Sessions
    BY <1>1 DEF ReqRec, RequestRec
  <2>2. /\ sources' \in Seq(SourceRec) /\ Len(sources') <= MaxSources
        /\ Len(sources) <= Len(sources')
        /\ (IF sources' = sources THEN job ELSE Len(sources')) \in 1..Len(sources')
    <3>1. CASE job # 0
      BY <1>5, <3>1 DEF Miss, AdoptsJob, WorldOK
    <3>2. CASE job = 0
      <4>1. sources' = Append(sources, NewSource(req[r].of)) /\ Len(sources) < MaxSources
        BY <1>5, <3>2 DEF Miss, AdoptsJob, Room
      <4>2. sources' \in Seq(SourceRec) /\ Len(sources') = Len(sources) + 1
        BY <2>1, <4>1, NewSourceTyped DEF WorldOK
      <4> QED
        BY <4>1, <4>2, LiveHandlerAssumption DEF WorldOK
    <3> QED
      BY <3>1, <3>2
  <2>3. Len(sources) \in Nat /\ Len(sources') \in Nat
    BY <2>2 DEF WorldOK
  <2>4. entries \in Seq(EntryRec(Len(sources')))
    BY <2>2, <2>3, EntriesStay DEF WorldOK
  <2>5. [cur |-> IF sources' = sources THEN job ELSE Len(sources'), given |-> {}]
           \in EntryRec(Len(sources'))
    BY <2>2 DEF EntryRec
  <2>6. /\ entries' \in Seq(EntryRec(Len(sources')))
        /\ Len(entries') = Len(entries) + 1
    BY <1>5, <2>4, <2>5 DEF Miss
  <2>7. cached' = Len(entries') /\ cached' # 0 /\ cached' \in 0..Len(entries')
    BY <1>5, <2>6 DEF Miss, WorldOK
  <2>8. WorldOK'
    BY <1>5, <2>2, <2>3, <2>6, <2>7 DEF Miss, WorldOK, bounds
  <2>9. Grows
    BY <2>2, <2>6 DEF Grows, WorldOK
  <2> QED
    BY <1>3, <1>5, <2>7, <2>8, <2>9 DEF Miss
<1> QED
  BY <1>2, <1>4, <1>5

\* A request that settles holds an entry, whose current source exists.
LEMMA SettlingIds ==
  ASSUME WorldOK, RequestsOK, NEW r \in Requests, At(r, "settle")
  PROVE  /\ req[r].entry \in 1..Len(entries) /\ req[r].of \in Sessions
         /\ entries[req[r].entry] \in EntryRec(Len(sources))
         /\ entries[req[r].entry].cur \in 1..Len(sources)
         /\ sources[entries[req[r].entry].cur] \in SourceRec
<1>1. req[r] \in ReqRec /\ req[r].entry # 0
  BY DEF RequestsOK, ReqInv
<1>2. req[r].entry \in 1..Len(entries) /\ req[r].of \in Sessions
  BY <1>1 DEF ReqRec, RequestRec, WorldOK
<1>3. entries[req[r].entry] \in EntryRec(Len(sources))
  BY <1>2 DEF WorldOK
<1>4. entries[req[r].entry].cur \in 1..Len(sources)
  BY <1>3 DEF EntryRec
<1> QED
  BY <1>2, <1>3, <1>4 DEF WorldOK

\* Settling on a source, the current one or a new one, keeps the types.
LEMMA SettleStep ==
  ASSUME WorldOK, RequestsOK, NEW r \in Requests, Stay(r) \/ Swap(r)
  PROVE  WorldOK' /\ RequestsOK'
<1> DEFINE e == entries[req[r].entry]
<1>1. req[r].entry \in 1..Len(entries) /\ req[r].of \in Sessions
  BY SettlingIds DEF Stay, Swap
<1>2. e \in EntryRec(Len(sources))
  BY SettlingIds DEF Stay, Swap
<1>3. e.cur \in 1..Len(sources) /\ sources[e.cur].of \in Sessions
  BY SettlingIds DEF Stay, Swap, SourceRec
<1>4. CASE Stay(r)
  <2>1. WorldOK' /\ Grows /\ sources' = sources
    BY <1>4, QuietWorld DEF Stay, keyVars
  <2>2. SettledOn(r, e.cur) /\ e.cur \in 1..Len(sources')
    BY <1>3, <1>4, <2>1 DEF Stay
  <2> QED
    BY <2>1, <2>2, SettleRequest
<1>5. CASE Swap(r)
  <2>1. /\ sources' \in Seq(SourceRec) /\ Len(sources') = Len(sources) + 1
        /\ Len(sources') <= MaxSources
    <3>1. sources' = Append([sources EXCEPT ![e.cur].retired = TRUE], NewSource(req[r].of))
      BY <1>5 DEF Swap, Retires
    <3>2. /\ [sources EXCEPT ![e.cur].retired = TRUE] \in Seq(SourceRec)
          /\ Len([sources EXCEPT ![e.cur].retired = TRUE]) = Len(sources)
      BY <1>3, MarkTyped DEF WorldOK
    <3>3. sources' \in Seq(SourceRec) /\ Len(sources') = Len(sources) + 1
      BY <1>1, <3>1, <3>2, NewSourceTyped
    <3>4. Len(sources) < MaxSources
      BY <1>5 DEF Swap, Room
    <3>5. Len(sources) \in Nat
      BY DEF WorldOK
    <3> QED
      BY <3>3, <3>4, <3>5, LiveHandlerAssumption
  <2>2. Len(sources') \in 1..Len(sources') /\ Len(sources) \in Nat
    BY <2>1 DEF WorldOK
  <2>3. entries \in Seq(EntryRec(Len(sources')))
    BY <2>1, <2>2, EntriesStay DEF WorldOK
  <2>4. [cur |-> Len(sources'), given |-> e.given \cup {sources[e.cur].of}]
           \in EntryRec(Len(sources'))
    BY <1>2, <1>3, <2>2 DEF EntryRec
  <2>5. entries' = [entries EXCEPT ![req[r].entry] =
                      [cur |-> Len(sources'), given |-> e.given \cup {sources[e.cur].of}]]
    BY <1>5 DEF Swap
  <2>6. entries' \in Seq(EntryRec(Len(sources'))) /\ Len(entries') = Len(entries)
    BY <1>1, <2>3, <2>4, <2>5
  <2>7. WorldOK' /\ Grows
    <3>1. UNCHANGED <<alive, cached, job, evictions, reaps, blips>>
      BY <1>5 DEF Swap, bounds
    <3>2. Len(sources) \in Nat /\ Len(entries) \in Nat
      BY DEF WorldOK
    <3>3. cached' \in 0..Len(entries') /\ job' \in 0..Len(sources')
      BY <2>1, <2>6, <3>1, <3>2 DEF WorldOK
    <3>4. /\ alive' \in [Sessions -> BOOLEAN]
          /\ evictions' \in 0..MaxEvictions /\ reaps' \in 0..MaxReaps /\ blips' \in 0..MaxBlips
      BY <3>1 DEF WorldOK
    <3>5. Grows
      BY <2>1, <2>6, <3>2 DEF Grows
    <3>6. WorldOK'
      BY <2>1, <2>6, <3>3, <3>4, Zenon DEF WorldOK
    <3> QED
      BY <3>5, <3>6
  <2> QED
    BY <1>5, <2>2, <2>7, SettleRequest DEF Swap
<1> QED
  BY <1>4, <1>5

\* Reading the playlist and what follows it keeps the types.
LEMMA RefreshStep ==
  ASSUME WorldOK, RequestsOK, NEW r \in Requests,
         Refresh(r) \/ Ensure(r) \/ HeadOnly(r)
  PROVE  WorldOK' /\ RequestsOK'
<1>1. req[r] \in ReqRec
  BY DEF RequestsOK
<1>2. ASSUME WorldOK', Grows, NEW at \in {"reading", "ensure"}, req[r].src # 0,
             req' = [req EXCEPT ![r].at = at]
      PROVE  RequestsOK'
  <2>1. /\ req' = [req EXCEPT ![r] = req'[r]]
        /\ req'[r] = [req[r] EXCEPT !.at = at]
    BY <1>2 DEF RequestsOK
  <2>2. req[r] \in ReqRec'
    BY <1>1, <1>2, RequestIdsStay
  <2>3. req'[r] \in ReqRec' /\ req'[r].at = at /\ req'[r].src # 0
    BY <1>2, <2>1, <2>2 DEF ReqRec, RequestRec
  <2> QED
    BY <1>2, <2>1, <2>3, OneRequest
<1>3. ASSUME WorldOK', Grows, Answer(r, "ok")
      PROVE  RequestsOK'
  <2>1. /\ req' = [req EXCEPT ![r] = req'[r]]
        /\ req'[r] = [req[r] EXCEPT !.at = "idle", !.answer = "ok"]
    BY <1>3 DEF Answer, RequestsOK
  <2>2. req[r] \in ReqRec'
    BY <1>1, <1>3, RequestIdsStay
  <2>3. req'[r] \in ReqRec' /\ req'[r].at = "idle"
    BY <2>1, <2>2 DEF ReqRec, RequestRec
  <2> QED
    BY <1>3, <2>1, <2>3, OneRequest
<1>4. CASE RefreshSkipped(r) \/ BeginRead(r) \/ ReadOk(r)
  <2>1. WorldOK' /\ Grows
    BY <1>4, QuietWorld DEF RefreshSkipped, BeginRead, ReadOk
  <2>2. \E at \in {"reading", "ensure"} : req' = [req EXCEPT ![r].at = at]
    BY <1>4 DEF RefreshSkipped, BeginRead, ReadOk
  <2>3. req[r].src # 0
    BY <1>4 DEF RefreshSkipped, BeginRead, ReadOk, At, RequestsOK, ReqInv
  <2> QED
    BY <1>2, <2>1, <2>2, <2>3
<1>5. CASE RefreshRetired(r)
  <2>1. WorldOK' /\ Grows
    BY <1>5, QuietWorld DEF RefreshRetired
  <2> QED
    BY <1>5, <2>1, GoneRequest DEF RefreshRetired
<1>6. CASE ReadGone(r)
  <2>1. req[r].src \in 1..Len(sources)
    <3>1. req[r].src # 0
      BY <1>6 DEF ReadGone, At, RequestsOK, ReqInv
    <3> QED
      BY <1>1, <3>1 DEF ReqRec, RequestRec, WorldOK
  <2>2. WorldOK' /\ Grows
    BY <1>6, <2>1, GoneWorld DEF ReadGone
  <2> QED
    BY <1>6, <2>2, GoneRequest DEF ReadGone
<1>7. CASE Ensure(r)
  <2>1. job' \in 0..Len(sources)
    BY <1>1, <1>7 DEF Ensure, ReqRec, RequestRec, WorldOK
  <2>2. WorldOK' /\ Grows
    BY <1>7, <2>1 DEF Ensure, WorldOK, Grows, keyVars, bounds
  <2> QED
    BY <1>3, <1>7, <2>2 DEF Ensure
<1>8. CASE HeadOnly(r)
  <2>1. WorldOK' /\ Grows
    BY <1>8, QuietWorld DEF HeadOnly
  <2> QED
    BY <1>3, <1>8, <2>1 DEF HeadOnly
<1> QED
  BY <1>4, <1>5, <1>6, <1>7, <1>8 DEF Refresh

\* What happens beside the requests keeps the types.
LEMMA BesideStep ==
  ASSUME WorldOK, RequestsOK,
         JobFindsGone \/ JobEnds \/ Evict \/ \E s \in Sessions : Reap(s)
  PROVE  WorldOK' /\ RequestsOK'
<1>1. WorldOK' /\ Grows
  <2>1. CASE JobFindsGone
    <3>1. CASE UNCHANGED <<sources, blips>>
      BY <2>1, <3>1 DEF JobFindsGone, WorldOK, Grows
    <3>2. CASE PlaylistGone(job)
      <4>1. job \in 1..Len(sources)
        BY <2>1 DEF JobFindsGone, WorldOK
      <4> QED
        BY <2>1, <3>2, <4>1, GoneWorld DEF JobFindsGone
    <3> QED
      BY <2>1, <3>1, <3>2 DEF JobFindsGone
  <2>2. CASE JobEnds
    BY <2>2 DEF JobEnds, WorldOK, Grows, keyVars, bounds
  <2>3. CASE Evict
    BY <2>3, LiveHandlerAssumption DEF Evict, WorldOK, Grows
  <2>4. CASE \E s \in Sessions : Reap(s)
    BY <2>4, LiveHandlerAssumption DEF Reap, WorldOK, Grows, keyVars
  <2> QED
    BY <2>1, <2>2, <2>3, <2>4
<1>2. UNCHANGED req
  BY DEF JobFindsGone, JobEnds, Evict, Reap
<1> QED
  BY <1>1, <1>2, NoRequest

\* The types are inductive.
LEMMA TypeInductive == Spec => [](WorldOK /\ RequestsOK)
<1>1. Init => WorldOK /\ RequestsOK
  <2> SUFFICES ASSUME Init PROVE WorldOK /\ RequestsOK
    OBVIOUS
  <2>1. WorldOK
    BY LiveHandlerAssumption DEF Init, WorldOK
  <2>2. \A s \in Sessions : Unasked(s) \in ReqRec /\ Unasked(s).at = "idle"
    BY DEF Init, Unasked, ReqRec, RequestRec
  <2> QED
    BY <2>1, <2>2 DEF Init, RequestsOK, ReqInv, At
<1>2. WorldOK /\ RequestsOK /\ [Next]_vars => WorldOK' /\ RequestsOK'
  <2> SUFFICES ASSUME WorldOK, RequestsOK, [Next]_vars
               PROVE  WorldOK' /\ RequestsOK'
    OBVIOUS
  <2>1. CASE \E r \in Requests : (\E s \in Sessions : Arrive(r, s)) \/ Serve(r)
    BY <2>1, LookupStep, SettleStep, RefreshStep DEF Serve
  <2>2. CASE JobFindsGone \/ JobEnds \/ Evict \/ \E s \in Sessions : Reap(s)
    BY <2>2, BesideStep
  <2>3. CASE UNCHANGED vars
    <3>1. WorldOK' /\ Grows
      BY <2>3, QuietWorld DEF vars
    <3> QED
      BY <2>3, <3>1, NoRequest DEF vars
  <2> QED
    BY <2>1, <2>2, <2>3 DEF Next
<1> QED
  BY <1>1, <1>2, PTL DEF Spec

\* The type invariant (TypeOK): the ids a poll carries from step to step are
\* those of sources and entries that exist, whatever the cache and the other
\* polls did in between.
THEOREM HandlerTyped == Spec => []TypeOK
<1>1. WorldOK /\ RequestsOK => TypeOK
  BY TypeParts
<1> QED
  BY <1>1, TypeInductive, PTL

-----------------------------------------------------------------------------
(* A source that no entry has as its current one is retired.  An entry lets *)
(* go of a source only in Swap, which retires it, and a mark never goes.    *)

\* Steps that build no source and keep the entries keep the marks.
Marks == /\ Len(sources') = Len(sources)
         /\ \A i \in 1..Len(sources) : /\ sources'[i].retired = sources[i].retired
                                       /\ sources[i].gone => sources'[i].gone
                                       /\ sources'[i].of = sources[i].of
         /\ entries' = entries

\* Nothing but Miss and Swap touches the entries or makes a source.
LEMMA OthersKeepMarks ==
  ASSUME WorldOK, RequestsOK, [Next]_vars,
         ~\E r \in Requests : Miss(r) \/ Swap(r)
  PROVE  Marks
<1>1. CASE UNCHANGED <<sources, entries>>
  BY <1>1 DEF Marks
<1>2. ASSUME NEW src \in 1..Len(sources), PlaylistGone(src), entries' = entries
      PROVE  Marks
  <2>1. sources' = [sources EXCEPT ![src].gone = TRUE] /\ Len(sources') = Len(sources)
    BY <1>2, MarkTyped DEF PlaylistGone, WorldOK
  <2>2. ASSUME NEW i \in 1..Len(sources)
        PROVE  /\ sources'[i].retired = sources[i].retired /\ sources'[i].of = sources[i].of
               /\ sources[i].gone => sources'[i].gone
    <3>1. sources[i] \in SourceRec
      BY DEF WorldOK
    <3> QED
      BY <2>1, <3>1 DEF WorldOK, SourceRec
  <2> QED
    BY <1>2, <2>1, <2>2 DEF Marks
<1>3. ASSUME NEW r \in Requests, ReadGone(r)
      PROVE  Marks
  <2>1. req[r] \in ReqRec /\ req[r].src # 0
    BY <1>3 DEF ReadGone, At, RequestsOK, ReqInv
  <2>2. req[r].src \in 1..Len(sources)
    BY <2>1 DEF ReqRec, RequestRec, WorldOK
  <2> QED
    BY <1>2, <1>3, <2>2 DEF ReadGone
<1>4. CASE JobFindsGone
  <2>1. job \in 1..Len(sources) /\ entries' = entries
    BY <1>4 DEF JobFindsGone, WorldOK
  <2> QED
    BY <1>1, <1>2, <1>4, <2>1 DEF JobFindsGone
<1>5. ASSUME NEW r \in Requests,
             \/ \E s \in Sessions : Arrive(r, s)
             \/ Hit(r) \/ Stay(r) \/ RefreshSkipped(r) \/ RefreshRetired(r)
             \/ BeginRead(r) \/ ReadOk(r) \/ Ensure(r) \/ HeadOnly(r)
      PROVE  UNCHANGED <<sources, entries>>
  BY <1>5 DEF Arrive, Hit, Stay, RefreshSkipped, RefreshRetired, BeginRead, ReadOk, Ensure,
              HeadOnly, keyVars
<1>6. CASE JobEnds \/ Evict \/ (\E s \in Sessions : Reap(s)) \/ UNCHANGED vars
  BY <1>1, <1>6 DEF JobEnds, Evict, Reap, vars, keyVars
<1> QED
  BY <1>1, <1>3, <1>4, <1>5, <1>6 DEF Next, Serve, Refresh

\* A source a miss takes up or builds is its entry's, the others stay theirs.
LEMMA MissKeeps ==
  ASSUME WorldOK, RequestsOK, ReplacedIsRetired, NEW r \in Requests, Miss(r)
  PROVE  ReplacedIsRetired'
<1> DEFINE new == [cur |-> IF sources' = sources THEN job ELSE Len(sources'), given |-> {}]
<1>1. entries' = Append(entries, new)
  BY DEF Miss
<1>2. /\ Len(entries') = Len(entries) + 1 /\ entries'[Len(entries')] = new
      /\ \A e \in 1..Len(entries) : entries'[e] = entries[e]
  BY <1>1 DEF WorldOK
<1>3. ASSUME NEW i \in 1..Len(sources),
             sources[i].retired => sources'[i].retired
      PROVE  sources'[i].retired \/ \E e \in 1..Len(entries') : entries'[e].cur = i
  <2>1. CASE sources[i].retired
    BY <1>3, <2>1
  <2>2. CASE ~sources[i].retired
    <3>1. DOMAIN sources = 1..Len(sources) /\ DOMAIN entries = 1..Len(entries)
      BY DEF WorldOK
    <3>2. PICK e \in 1..Len(entries) : entries[e].cur = i
      BY <2>2, <3>1 DEF ReplacedIsRetired
    <3>3. e \in 1..Len(entries') /\ entries'[e].cur = i
      BY <1>2, <3>2 DEF WorldOK
    <3> QED
      BY <3>3
  <2> QED
    BY <2>1, <2>2
<1>4. CASE job # 0
  <2>1. sources' = sources
    BY <1>4 DEF Miss, AdoptsJob
  <2> QED
    BY <1>3, <2>1 DEF ReplacedIsRetired, WorldOK
<1>5. CASE job = 0
  <2>1. sources' = Append(sources, NewSource(req[r].of))
    BY <1>5 DEF Miss, AdoptsJob
  <2>2. /\ Len(sources') = Len(sources) + 1 /\ Len(sources) \in Nat
        /\ \A i \in 1..Len(sources) : sources'[i] = sources[i]
    BY <2>1 DEF WorldOK
  <2>3. sources' # sources
    BY <2>2
  <2>4. entries'[Len(entries')].cur = Len(sources') /\ Len(entries') \in 1..Len(entries')
    BY <1>2, <2>3 DEF WorldOK
  <2>5. ASSUME NEW i \in 1..Len(sources')
        PROVE  sources'[i].retired \/ \E e \in 1..Len(entries') : entries'[e].cur = i
    <3>1. CASE i = Len(sources')
      BY <2>4, <3>1
    <3>2. CASE i # Len(sources')
      <4>1. i \in 1..Len(sources)
        BY <2>2, <3>2
      <4> QED
        BY <1>3, <2>2, <4>1
    <3> QED
      BY <3>1, <3>2
  <2>6. DOMAIN sources' = 1..Len(sources') /\ DOMAIN entries' = 1..Len(entries')
    BY <1>1, <2>1 DEF WorldOK
  <2> QED
    BY <2>5, <2>6 DEF ReplacedIsRetired
<1> QED
  BY <1>4, <1>5

\* A swap retires the source its entry lets go of.
LEMMA SwapKeeps ==
  ASSUME WorldOK, RequestsOK, ReplacedIsRetired, NEW r \in Requests, Swap(r)
  PROVE  ReplacedIsRetired'
<1> DEFINE n == req[r].entry
           old == entries[n].cur
<1>1. /\ n \in 1..Len(entries) /\ old \in 1..Len(sources) /\ req[r].of \in Sessions
      /\ sources[old] \in SourceRec
  BY SettlingIds DEF Swap
<1>2. sources' = Append([sources EXCEPT ![old].retired = TRUE], NewSource(req[r].of))
  BY DEF Swap, Retires
<1>3. /\ [sources EXCEPT ![old].retired = TRUE] \in Seq(SourceRec)
      /\ Len([sources EXCEPT ![old].retired = TRUE]) = Len(sources)
  BY <1>1, MarkTyped DEF WorldOK
<1>4. /\ Len(sources') = Len(sources) + 1 /\ Len(sources) \in Nat
      /\ \A i \in 1..Len(sources) : sources'[i] = [sources EXCEPT ![old].retired = TRUE][i]
  <2> DEFINE marked == [sources EXCEPT ![old].retired = TRUE]
  <2>1. /\ marked \in Seq(SourceRec) /\ Len(marked) = Len(sources)
        /\ sources' = Append(marked, NewSource(req[r].of))
    BY <1>2, <1>3
  <2> HIDE DEF marked
  <2>2. Len(sources) \in Nat
    BY DEF WorldOK
  <2>3. /\ Len(sources') = Len(sources) + 1
        /\ \A i \in 1..Len(sources) : sources'[i] = marked[i]
    BY <2>1, <2>2
  <2> QED
    BY <2>2, <2>3 DEF marked
<1>5. sources'[old].retired
  <2>1. [sources EXCEPT ![old].retired = TRUE][old].retired
    BY <1>1, MarkRetires DEF WorldOK
  <2> QED
    BY <1>1, <1>4, <2>1
<1>6. \A i \in 1..Len(sources) : i # old => sources'[i] = sources[i]
  <2>1. DOMAIN sources = 1..Len(sources)
    BY DEF WorldOK
  <2> QED
    BY <1>4, <2>1, Zenon
<1>7. /\ DOMAIN entries' = DOMAIN entries /\ DOMAIN entries = 1..Len(entries)
      /\ entries'[n].cur = Len(sources')
      /\ \A e \in 1..Len(entries) : e # n => entries'[e] = entries[e]
  <2> DEFINE moved == [cur |-> Len(sources'), given |-> entries[n].given \cup {sources[old].of}]
  <2>1. entries' = [entries EXCEPT ![n] = moved]
    BY DEF Swap
  <2>2. DOMAIN entries = 1..Len(entries)
    BY DEF WorldOK
  <2>3. moved.cur = Len(sources')
    OBVIOUS
  <2> HIDE DEF moved, n, old
  <2>4. /\ DOMAIN entries' = DOMAIN entries
        /\ \A e \in DOMAIN entries : entries'[e] = IF e = n THEN moved ELSE entries[e]
    BY <2>1, Zenon
  <2> QED
    BY <1>1, <2>2, <2>3, <2>4
<1>8. ASSUME NEW i \in 1..Len(sources')
      PROVE  sources'[i].retired \/ \E e \in DOMAIN entries' : entries'[e].cur = i
  <2>1. CASE i = Len(sources')
    BY <1>1, <1>7, <2>1
  <2>2. CASE i = old
    BY <1>5, <2>2
  <2>3. CASE i # Len(sources') /\ i # old
    <3>1. i \in 1..Len(sources) /\ sources'[i] = sources[i]
      BY <1>4, <1>6, <2>3
    <3>2. sources[i].retired \/ \E e \in 1..Len(entries) : entries[e].cur = i
      BY <1>7, <3>1 DEF ReplacedIsRetired, WorldOK
    <3> QED
      BY <1>7, <2>3, <3>1, <3>2
  <2> QED
    BY <2>1, <2>2, <2>3
<1>9. DOMAIN sources' = 1..Len(sources')
  BY <1>2, <1>3
<1> QED
  BY <1>8, <1>9 DEF ReplacedIsRetired

\* Nobody follows a source the key was moved away from for long: a source
\* that is no entry's current one is retired, so its job is turned away at its
\* next read (liveFor, "Retire before replacing").
THEOREM ReplacedSourceIsRetired == Spec => []ReplacedIsRetired
<1>1. Init => ReplacedIsRetired
  BY DEF Init, ReplacedIsRetired
<1>2. WorldOK /\ RequestsOK /\ ReplacedIsRetired /\ [Next]_vars
        => ReplacedIsRetired'
  <2> SUFFICES ASSUME WorldOK, RequestsOK, ReplacedIsRetired, [Next]_vars
               PROVE  ReplacedIsRetired'
    OBVIOUS
  <2>1. CASE \E r \in Requests : Miss(r) \/ Swap(r)
    BY <2>1, MissKeeps, SwapKeeps
  <2>2. CASE ~\E r \in Requests : Miss(r) \/ Swap(r)
    <3>1. Marks
      BY <2>2, OthersKeepMarks
    <3>2. DOMAIN sources' = DOMAIN sources /\ DOMAIN sources = 1..Len(sources)
      BY <3>1 DEF Marks, WorldOK
    <3> QED
      BY <3>1, <3>2 DEF Marks, ReplacedIsRetired
  <2> QED
    BY <2>1, <2>2
<1> QED
  BY <1>1, <1>2, TypeInductive, PTL DEF Spec

-----------------------------------------------------------------------------
(* How many sources are built.  A source that is left behind, without having *)
(* told that its session is over, is paid for by a session that some entry   *)
(* has given up on since and does not follow: a swap back to such a session  *)
(* is only made from a source that is gone.                                  *)

\* The sources no entry follows any more that did not tell they were gone.
LeftBehind == {i \in 1..Len(sources) : /\ ~sources[i].gone
                                       /\ \A e \in 1..Len(entries) : entries[e].cur # i}

\* The sessions each entry gave up on, less the one it follows.
GivenUp == {g \in (1..Len(entries)) \X Sessions :
              /\ g[2] \in entries[g[1]].given
              /\ g[2] # sources[entries[g[1]].cur].of}

LeftIsGivenUp == Cardinality(LeftBehind) <= Cardinality(GivenUp)

\* Both are finite sets.
LEMMA CountsAreFinite ==
  ASSUME IsFiniteSet(Sessions), WorldOK
  PROVE  /\ IsFiniteSet(LeftBehind) /\ Cardinality(LeftBehind) \in Nat
         /\ IsFiniteSet(GivenUp) /\ Cardinality(GivenUp) \in Nat
<1>1. Len(sources) \in Nat /\ Len(entries) \in Nat
  BY DEF WorldOK
<1>2. IsFiniteSet(1..Len(sources)) /\ IsFiniteSet(1..Len(entries))
  BY <1>1, FS_Interval
<1>3. IsFiniteSet((1..Len(entries)) \X Sessions)
  BY <1>2, FS_Product
<1>4. /\ LeftBehind \in SUBSET (1..Len(sources))
      /\ GivenUp \in SUBSET ((1..Len(entries)) \X Sessions)
  BY DEF LeftBehind, GivenUp
<1>5. IsFiniteSet(LeftBehind) /\ IsFiniteSet(GivenUp)
  BY <1>2, <1>3, <1>4, FS_Subset
<1> QED
  BY <1>5, FS_CardinalityType

\* What an entry follows, and of which session.
LEMMA EntryFollows ==
  ASSUME WorldOK, NEW e \in 1..Len(entries)
  PROVE  /\ entries[e].cur \in 1..Len(sources) /\ entries[e].given \subseteq Sessions
         /\ sources[entries[e].cur].of \in Sessions
         /\ sources[entries[e].cur].gone \in BOOLEAN
<1>1. entries[e] \in EntryRec(Len(sources))
  BY DEF WorldOK
<1>2. entries[e].cur \in 1..Len(sources)
  BY <1>1 DEF EntryRec
<1>3. sources[entries[e].cur] \in SourceRec
  BY <1>2 DEF WorldOK
<1> QED
  BY <1>1, <1>2, <1>3 DEF EntryRec, SourceRec

\* The bound follows: a source is gone, left behind or followed, and the followed
\* ones have pairs of their own beside those given up.
LEMMA CountBoundsSwaps ==
  ASSUME IsFiniteSet(Sessions), WorldOK, LeftIsGivenUp
  PROVE  SwapsBounded
<1> DEFINE n == Len(sources)
           m == Len(entries)
           Gone == {i \in DOMAIN sources : sources[i].gone}
           Followed == {i \in 1..n : \E e \in 1..m : entries[e].cur = i}
           Following == {g \in (1..m) \X Sessions : g[2] = sources[entries[g[1]].cur].of}
           Pairs == (1..m) \X Sessions
<1>1. n \in Nat /\ m \in Nat /\ DOMAIN sources = 1..n
  BY DEF WorldOK
<1>2. /\ IsFiniteSet(1..n) /\ Cardinality(1..n) = n
      /\ IsFiniteSet(1..m) /\ Cardinality(1..m) = m
  <2>1. \A k \in Nat : IsFiniteSet(1..k) /\ Cardinality(1..k) = k
    <3> TAKE k \in Nat
    <3>1. 1 \in Int /\ k \in Int /\ (k < 1 => k = 0)
      OBVIOUS
    <3> QED
      BY <3>1, FS_Interval
  <2> HIDE DEF n, m
  <2> QED
    BY <1>1, <2>1
<1>3. /\ IsFiniteSet(Pairs) /\ Cardinality(Pairs) = m * Cardinality(Sessions)
      /\ Cardinality(Sessions) \in Nat
  BY <1>2, FS_Product, FS_CardinalityType
<1>4. /\ IsFiniteSet(Gone) /\ Cardinality(Gone) \in Nat
      /\ IsFiniteSet(Followed) /\ Cardinality(Followed) \in Nat
      /\ IsFiniteSet(Following) /\ Cardinality(Following) \in Nat
  <2>1. Gone \in SUBSET (1..n) /\ Followed \in SUBSET (1..n) /\ Following \in SUBSET Pairs
    BY <1>1
  <2>2. IsFiniteSet(Gone) /\ IsFiniteSet(Followed) /\ IsFiniteSet(Following)
    BY <1>2, <1>3, <2>1, FS_Subset
  <2> QED
    BY <2>2, FS_CardinalityType
<1>5. n <= Cardinality(Gone) + Cardinality(LeftBehind) + Cardinality(Followed)
  <2>1. 1..n = (Gone \cup LeftBehind) \cup Followed
    BY <1>1 DEF LeftBehind
  <2> HIDE DEF Gone, Followed
  <2>2. /\ IsFiniteSet(Gone \cup LeftBehind)
        /\ Cardinality(Gone \cup LeftBehind)
             = Cardinality(Gone) + Cardinality(LeftBehind) - Cardinality(Gone \cap LeftBehind)
    BY <1>4, CountsAreFinite, FS_Union
  <2>3. Cardinality((Gone \cup LeftBehind) \cup Followed)
          = Cardinality(Gone \cup LeftBehind) + Cardinality(Followed)
              - Cardinality((Gone \cup LeftBehind) \cap Followed)
    BY <1>4, <2>2, FS_Union
  <2>4. /\ Cardinality(Gone \cap LeftBehind) \in Nat
        /\ Cardinality((Gone \cup LeftBehind) \cap Followed) \in Nat
        /\ Cardinality(Gone \cup LeftBehind) \in Nat
    <3>1. /\ IsFiniteSet(Gone \cap LeftBehind)
          /\ IsFiniteSet((Gone \cup LeftBehind) \cap Followed)
      BY <1>4, <2>2, FS_Intersection
    <3> QED
      BY <2>2, <3>1, FS_CardinalityType
  <2>5. /\ n = Cardinality((Gone \cup LeftBehind) \cup Followed)
        /\ Cardinality(LeftBehind) \in Nat
    BY <1>2, <2>1, CountsAreFinite
  <2> HIDE DEF n
  <2> QED
    BY <1>4, <2>2, <2>3, <2>4, <2>5
<1>6. Cardinality(Followed) <= Cardinality(Following)
  <2> DEFINE entryOf == [i \in Followed |-> CHOOSE e \in 1..m : entries[e].cur = i]
             pairOf == [i \in Followed |-> <<entryOf[i], sources[i].of>>]
  <2>1. ASSUME NEW i \in Followed
        PROVE  /\ entryOf[i] \in 1..m /\ entries[entryOf[i]].cur = i
               /\ pairOf[i] = <<entryOf[i], sources[i].of>> /\ pairOf[i] \in Following
    <3>1. \E e \in 1..m : entries[e].cur = i
      OBVIOUS
    <3>2. entryOf[i] \in 1..m /\ entries[entryOf[i]].cur = i
      BY <3>1
    <3>3. sources[i].of \in Sessions
      BY <3>2, EntryFollows
    <3> QED
      BY <3>2, <3>3
  <2>2. pairOf \in [Followed -> Following]
    BY <2>1
  <2>3. ASSUME NEW i \in Followed, NEW j \in Followed, pairOf[i] = pairOf[j]
        PROVE  i = j
    <3>1. entryOf[i] = entryOf[j]
      BY <2>1, <2>3
    <3> QED
      BY <2>1, <3>1
  <2> HIDE DEF entryOf, pairOf, Followed, Following
  <2>4. pairOf \in Injection(Followed, Following)
    BY <2>2, <2>3 DEF Injection, IsInjective
  <2> QED
    BY <1>4, <2>4, FS_Injection
<1>7. Cardinality(GivenUp) + Cardinality(Following) <= Cardinality(Pairs)
  <2>1. GivenUp \cap Following = {} /\ (GivenUp \cup Following) \in SUBSET Pairs
    BY DEF GivenUp
  <2> HIDE DEF Following, Pairs
  <2>2. /\ Cardinality(GivenUp \cup Following)
             = Cardinality(GivenUp) + Cardinality(Following) - Cardinality(GivenUp \cap Following)
    BY <1>4, CountsAreFinite, FS_Union
  <2>3. Cardinality(GivenUp \cap Following) = 0
    BY <2>1, FS_EmptySet
  <2>4. Cardinality(GivenUp \cup Following) <= Cardinality(Pairs)
    BY <1>3, <2>1, FS_Subset
  <2> QED
    BY <1>4, <2>2, <2>3, <2>4, CountsAreFinite
<1> HIDE DEF n, m, Gone, Followed, Following, Pairs
<1>8. n <= m * Cardinality(Sessions) + Cardinality(Gone)
  <2>1. Cardinality(Followed) + Cardinality(LeftBehind) <= Cardinality(Pairs)
    <3>1. /\ Cardinality(LeftBehind) \in Nat /\ Cardinality(GivenUp) \in Nat
          /\ Cardinality(Pairs) \in Nat
      BY <1>3, CountsAreFinite, FS_CardinalityType
    <3> QED
      BY <1>4, <1>6, <1>7, <3>1 DEF LeftIsGivenUp
  <2>2. m * Cardinality(Sessions) \in Nat
    BY <1>1, <1>3
  <2> QED
    BY <1>1, <1>3, <1>4, <1>5, <2>1, <2>2, CountsAreFinite
<1> QED
  BY <1>1, <1>3, <1>8 DEF SwapsBounded, n, m, Gone

\* A step that leaves no source behind and gives no session up keeps the count.
LEMMA NothingLeft ==
  ASSUME IsFiniteSet(Sessions), WorldOK, LeftIsGivenUp,
         LeftBehind' \subseteq LeftBehind, GivenUp' = GivenUp
  PROVE  LeftIsGivenUp'
<1>1. Cardinality(LeftBehind') <= Cardinality(LeftBehind) /\ IsFiniteSet(LeftBehind')
  BY CountsAreFinite, FS_Subset
<1>2. Cardinality(LeftBehind') \in Nat
  BY <1>1, FS_CardinalityType
<1> QED
  BY <1>1, <1>2, CountsAreFinite DEF LeftIsGivenUp

\* A miss follows what it takes up or builds.
LEMMA MissLeavesNothing ==
  ASSUME WorldOK, WorldOK', NEW r \in Requests, Miss(r)
  PROVE  LeftBehind' \subseteq LeftBehind /\ GivenUp' = GivenUp
<1> DEFINE new == [cur |-> IF sources' = sources THEN job ELSE Len(sources'), given |-> {}]
<1>1. entries' = Append(entries, new)
  BY DEF Miss
<1>2. /\ Len(entries) \in Nat /\ Len(entries') = Len(entries) + 1
      /\ entries'[Len(entries')] = new
      /\ \A e \in 1..Len(entries) : entries'[e] = entries[e]
  BY SMTT(30), <1>1 DEF WorldOK
<1>3. /\ \A i \in 1..Len(sources) : sources'[i] = sources[i]
      /\ \/ sources' = sources
         \/ Len(sources') = Len(sources) + 1 /\ new.cur = Len(sources')
      /\ Len(sources) \in Nat
  <2>1. CASE job # 0
    BY <2>1 DEF Miss, AdoptsJob, WorldOK
  <2>2. CASE job = 0
    <3>1. sources' = Append(sources, NewSource(req[r].of))
      BY <2>2 DEF Miss, AdoptsJob
    <3>2. /\ Len(sources') = Len(sources) + 1 /\ Len(sources) \in Nat
          /\ \A i \in 1..Len(sources) : sources'[i] = sources[i]
      BY <3>1 DEF WorldOK
    <3> QED
      BY <3>2
  <2> QED
    BY <2>1, <2>2
<1>4. ASSUME NEW i \in LeftBehind'
      PROVE  i \in LeftBehind
  <2>1. /\ i \in 1..Len(sources') /\ ~sources'[i].gone
        /\ \A e \in 1..Len(entries') : entries'[e].cur # i
    BY DEF LeftBehind
  <2>2. Len(entries') \in 1..Len(entries') /\ 1..Len(entries) \subseteq 1..Len(entries')
    BY <1>2
  <2>3. i # new.cur
    BY <1>2, <2>1, <2>2
  <2>4. i \in 1..Len(sources)
    BY <1>3, <2>1, <2>3
  <2> QED
    BY <1>2, <1>3, <2>1, <2>2, <2>4 DEF LeftBehind
<1>5. \A e \in 1..Len(entries) : entries[e].cur \in 1..Len(sources)
  BY EntryFollows
<1>6. new.given = {} /\ 1..Len(entries') = (1..Len(entries)) \cup {Len(entries')}
  BY <1>2
<1> HIDE DEF new
<1>7. ASSUME NEW g \in (1..Len(entries')) \X Sessions
      PROVE  g \in GivenUp' <=> g \in GivenUp
  <2>1. CASE g[1] \in 1..Len(entries)
    <3>1. entries'[g[1]] = entries[g[1]] /\ sources'[entries[g[1]].cur] = sources[entries[g[1]].cur]
      BY <1>2, <1>3, <1>5, <2>1
    <3> QED
      BY <2>1, <3>1 DEF GivenUp
  <2>2. CASE g[1] = Len(entries')
    <3>1. g[1] \notin 1..Len(entries) /\ entries'[g[1]].given = {}
      BY <1>2, <1>6, <2>2
    <3> QED
      BY <3>1 DEF GivenUp
  <2> QED
    BY <1>6, <2>1, <2>2
<1>8. GivenUp \subseteq (1..Len(entries')) \X Sessions /\ GivenUp' \subseteq (1..Len(entries')) \X Sessions
  BY <1>6 DEF GivenUp
<1> QED
  BY <1>4, <1>7, <1>8

\* A swap that leaves a source behind which is not gone gives up a session its
\* entry had not given up; a swap back to one that it had leaves a source that is
\* gone, and only exchanges which session is given up.
LEMMA SwapPays ==
  ASSUME IsFiniteSet(Sessions), WorldOK, WorldOK', RequestsOK, LeftIsGivenUp,
         NEW r \in Requests, Swap(r)
  PROVE  LeftIsGivenUp'
<1> DEFINE n == req[r].entry
           old == entries[n].cur
           s == req[r].of
           u == sources[old].of
<1>1. /\ n \in 1..Len(entries) /\ old \in 1..Len(sources) /\ s \in Sessions
      /\ sources[old] \in SourceRec /\ u \in Sessions
  BY SettlingIds DEF Swap, SourceRec
<1>2. s # u /\ (s \in entries[n].given => sources[old].gone)
  BY DEF Swap, Straggler
<1> DEFINE marked == [sources EXCEPT ![old].retired = TRUE]
           moved == [cur |-> Len(sources'), given |-> entries[n].given \cup {u}]
<1>3. sources' = Append(marked, NewSource(s)) /\ entries' = [entries EXCEPT ![n] = moved]
  BY DEF Swap, Retires
<1>4. /\ marked \in Seq(SourceRec) /\ Len(marked) = Len(sources) /\ Len(sources) \in Nat
      /\ \A i \in 1..Len(sources) : marked[i].gone = sources[i].gone /\ marked[i].of = sources[i].of
  <2>1. sources \in Seq(SourceRec)
    BY DEF WorldOK
  <2>2. \A i \in 1..Len(sources) : marked[i].gone = sources[i].gone /\ marked[i].of = sources[i].of
    BY <1>1, <2>1, MarkKeepsRest
  <2>3. marked \in Seq(SourceRec) /\ Len(marked) = Len(sources)
    BY <1>1, <2>1, MarkTyped
  <2>4. Len(sources) \in Nat
    BY <2>1
  <2> HIDE DEF marked
  <2> QED
    BY <2>2, <2>3, <2>4
<1> HIDE DEF marked, n, old, s, u, moved
<1>5. /\ Len(sources') = Len(sources) + 1
      /\ \A i \in 1..Len(sources) : sources'[i] = marked[i]
      /\ sources'[Len(sources')] = NewSource(s)
  BY <1>3, <1>4
<1>6. /\ \A i \in 1..Len(sources) : sources'[i].gone = sources[i].gone /\ sources'[i].of = sources[i].of
      /\ sources'[Len(sources')].of = s
  BY <1>4, <1>5 DEF NewSource
<1>7. /\ Len(entries') = Len(entries) /\ Len(entries) \in Nat
      /\ entries'[n].cur = Len(sources') /\ entries'[n].given = entries[n].given \cup {u}
      /\ \A e \in 1..Len(entries) : e # n => entries'[e] = entries[e]
  <2>1. /\ Len(entries') = Len(entries) /\ Len(entries) \in Nat
        /\ entries'[n] = moved
        /\ \A e \in 1..Len(entries) : e # n => entries'[e] = entries[e]
    <3>1. entries \in Seq(EntryRec(Len(sources)))
      BY DEF WorldOK
    <3>2. DOMAIN entries = 1..Len(entries) /\ Len(entries) \in Nat
      BY <3>1
    <3>3. DOMAIN entries' = 1..Len(entries)
      BY <1>3, <3>2, Zenon
    <3>4. \A e \in 1..Len(entries) : entries'[e] = IF e = n THEN moved ELSE entries[e]
      BY <1>3, <3>2, Zenon
    <3>5. entries' \in Seq(EntryRec(Len(sources')))
      BY DEF WorldOK
    <3>6. Len(entries') = Len(entries)
      BY <3>2, <3>3, <3>5
    <3> QED
      BY <1>1, <3>2, <3>4, <3>6
  <2>2. moved.cur = Len(sources') /\ moved.given = entries[n].given \cup {u}
    BY DEF moved
  <2> QED
    BY <2>1, <2>2
<1>8. \A e \in 1..Len(entries) : entries[e].cur \in 1..Len(sources)
  BY EntryFollows
<1>9. GivenUp' = (GivenUp \ {<<n, s>>}) \cup {<<n, u>>}
  <2>1. ASSUME NEW e \in 1..Len(entries), NEW t \in Sessions
        PROVE  <<e, t>> \in GivenUp' <=> <<e, t>> \in (GivenUp \ {<<n, s>>}) \cup {<<n, u>>}
    <3>1. <<e, t>> \in GivenUp' <=> t \in entries'[e].given /\ t # sources'[entries'[e].cur].of
      BY <1>7 DEF GivenUp
    <3>2. <<e, t>> \in GivenUp <=> t \in entries[e].given /\ t # sources[entries[e].cur].of
      BY DEF GivenUp
    <3>3. CASE e # n
      BY <1>6, <1>7, <1>8, <3>1, <3>2, <3>3
    <3>4. CASE e = n
      <4>1. <<e, t>> \in GivenUp' <=> (t \in entries[n].given \/ t = u) /\ t # s
        BY <1>6, <1>7, <3>1, <3>4
      <4>2. <<e, t>> \in GivenUp <=> t \in entries[n].given /\ t # u
        BY <3>2, <3>4 DEF u, old
      <4> QED
        BY <1>2, <3>4, <4>1, <4>2
    <3> QED
      BY <3>3, <3>4
  <2>2. /\ GivenUp' \subseteq (1..Len(entries)) \X Sessions
        /\ (GivenUp \ {<<n, s>>}) \cup {<<n, u>>} \subseteq (1..Len(entries)) \X Sessions
    BY <1>1, <1>7 DEF GivenUp
  <2> QED
    BY <2>1, <2>2
<1>10. <<n, u>> \notin GivenUp
  BY DEF GivenUp, u, old
<1>11. LeftBehind' \subseteq LeftBehind \cup {old} /\ (sources[old].gone => LeftBehind' \subseteq LeftBehind)
  <2> SUFFICES ASSUME NEW i \in LeftBehind'
               PROVE  i \in LeftBehind \/ (i = old /\ ~sources[old].gone)
    OBVIOUS
  <2>1. /\ i \in 1..Len(sources') /\ ~sources'[i].gone
        /\ \A e \in 1..Len(entries) : entries'[e].cur # i
    BY <1>7 DEF LeftBehind
  <2>2. i # Len(sources')
    BY <1>1, <1>7, <2>1
  <2>3. i \in 1..Len(sources) /\ ~sources[i].gone
    BY <1>5, <1>6, <2>1, <2>2
  <2>4. i # old => \A e \in 1..Len(entries) : entries[e].cur # i
    BY <1>7, <2>1 DEF old
  <2> QED
    BY <2>3, <2>4 DEF LeftBehind
<1>12. /\ IsFiniteSet(GivenUp \ {<<n, s>>})
       /\ Cardinality(GivenUp \ {<<n, s>>})
            = IF <<n, s>> \in GivenUp THEN Cardinality(GivenUp) - 1 ELSE Cardinality(GivenUp)
  BY CountsAreFinite, FS_RemoveElement
<1>13. Cardinality(GivenUp') = Cardinality(GivenUp \ {<<n, s>>}) + 1
  BY <1>9, <1>10, <1>12, FS_AddElement
<1>14. CASE sources[old].gone
  <2>1. Cardinality(LeftBehind') <= Cardinality(LeftBehind) /\ IsFiniteSet(LeftBehind')
    BY <1>11, <1>14, CountsAreFinite, FS_Subset
  <2>2. Cardinality(LeftBehind') \in Nat
    BY <2>1, FS_CardinalityType
  <2>3. Cardinality(GivenUp') >= Cardinality(GivenUp)
    BY <1>12, <1>13, CountsAreFinite
  <2> QED
    BY <2>1, <2>2, <2>3, <1>12, <1>13, CountsAreFinite DEF LeftIsGivenUp
<1>15. CASE ~sources[old].gone
  <2>1. <<n, s>> \notin GivenUp
    BY <1>2, <1>15 DEF GivenUp
  <2>2. Cardinality(GivenUp') = Cardinality(GivenUp) + 1
    BY <1>12, <1>13, <2>1
  <2>3. /\ IsFiniteSet(LeftBehind \cup {old})
        /\ Cardinality(LeftBehind \cup {old}) <= Cardinality(LeftBehind) + 1
    <3>1. /\ IsFiniteSet(LeftBehind \cup {old})
          /\ Cardinality(LeftBehind \cup {old})
               = IF old \in LeftBehind THEN Cardinality(LeftBehind) ELSE Cardinality(LeftBehind) + 1
      BY CountsAreFinite, FS_AddElement
    <3> QED
      BY <3>1, CountsAreFinite
  <2>4. /\ Cardinality(LeftBehind') <= Cardinality(LeftBehind \cup {old})
        /\ IsFiniteSet(LeftBehind')
    BY <1>11, <2>3, FS_Subset
  <2>5. Cardinality(LeftBehind') \in Nat /\ Cardinality(LeftBehind \cup {old}) \in Nat
    BY <2>3, <2>4, FS_CardinalityType
  <2> QED
    BY <2>2, <2>3, <2>4, <2>5, CountsAreFinite DEF LeftIsGivenUp
<1> QED
  BY <1>14, <1>15

\* No swap storm: two viewers of two live sessions do not retire each other's
\* source on every poll.  An entry builds a source for each session once, and
\* beyond that one for each source whose session told it that it was over (the
\* comment on liveFor: "killing its job and re-downloading every segment").
THEOREM NoSwapStorm ==
  ASSUME IsFiniteSet(Sessions)
  PROVE  Spec => []SwapsBounded
<1>1. Init => LeftIsGivenUp
  <2> SUFFICES ASSUME Init PROVE LeftIsGivenUp
    OBVIOUS
  <2>1. LeftBehind = {} /\ GivenUp = {}
    BY DEF Init, LeftBehind, GivenUp
  <2> QED
    BY <2>1, FS_EmptySet DEF LeftIsGivenUp
<1>2. /\ WorldOK /\ RequestsOK /\ LeftIsGivenUp /\ [Next]_vars
      /\ WorldOK' /\ RequestsOK'
      => LeftIsGivenUp'
  <2> SUFFICES ASSUME WorldOK, RequestsOK, LeftIsGivenUp, [Next]_vars, WorldOK'
               PROVE  LeftIsGivenUp'
    OBVIOUS
  <2>1. ASSUME NEW r \in Requests, Miss(r) PROVE LeftIsGivenUp'
    BY <2>1, MissLeavesNothing, NothingLeft
  <2>2. ASSUME NEW r \in Requests, Swap(r) PROVE LeftIsGivenUp'
    BY <2>2, SwapPays
  <2>3. CASE ~\E r \in Requests : Miss(r) \/ Swap(r)
    <3>1. Marks
      BY <2>3, OthersKeepMarks
    <3>2. LeftBehind' \subseteq LeftBehind
      BY <3>1 DEF Marks, LeftBehind
    <3>3. GivenUp' = GivenUp
      <4>1. \A e \in 1..Len(entries) : entries[e].cur \in 1..Len(sources)
        BY EntryFollows
      <4>2. \A e \in 1..Len(entries) : sources'[entries[e].cur].of = sources[entries[e].cur].of
        BY <3>1, <4>1 DEF Marks
      <4> QED
        BY <3>1, <4>2 DEF Marks, GivenUp
    <3> QED
      BY <3>2, <3>3, NothingLeft
  <2> QED
    BY <2>1, <2>2, <2>3
<1>3. WorldOK /\ LeftIsGivenUp => SwapsBounded
  BY CountBoundsSwaps
<1> QED
  BY <1>1, <1>2, <1>3, TypeInductive, PTL DEF Spec

-----------------------------------------------------------------------------
(* What a 404 says.  NotFoundIsReal fails in two ways, both of them found by *)
(* TLC: an eviction makes a retired source current again, or two sessions    *)
(* move the key in turn under a poll of a third.  Without an eviction and     *)
(* with two sessions it holds: the key goes from one to the other once, and   *)
(* every further move is away from a source that is gone.                    *)

AtMostTwoSessions == \A s, t, u \in Sessions : s = t \/ t = u \/ s = u

\* The key's one entry follows the newest source, which is not retired; of those
\* before it all but the first are gone.
KeyMovesOn ==
  /\ evictions = 0 /\ Len(entries) <= 1 /\ cached = Len(entries)
  /\ Len(entries) = 0 => Len(sources) = 0
  /\ Len(entries) = 1 =>
       /\ entries[1].cur = Len(sources) /\ ~sources[Len(sources)].retired
       /\ \A i \in 2..(Len(sources) - 1) : sources[i].gone
       /\ Len(sources) > 1 => /\ sources[Len(sources) - 1].of \in entries[1].given
                              /\ sources[Len(sources) - 1].of # sources[Len(sources)].of

\* What a request knows of the sources S: the first it asked turned it away, the
\* second is a newer one, and a 404 comes from a source that is gone.
Knows(q, S) ==
  /\ q.first # 0 => S[q.first].retired \/ S[q.first].gone
  /\ q.at \in {"lookup", "settle"} /\ q.first # 0 => q.src = q.first
  /\ q.at \in {"refresh", "reading"} => q.first < q.src
  /\ q.answer = "notfound" => q.at = "idle" /\ q.src # 0 /\ S[q.src].gone

RequestsKnow == \A r \in Requests : Knows(req[r], sources)

\* A mark that was set stays.
MarksStay == /\ Len(sources) <= Len(sources')
             /\ \A i \in 1..Len(sources) : /\ sources[i].retired => sources'[i].retired
                                           /\ sources[i].gone => sources'[i].gone

\* What is known stays true.
LEMMA KnownStays ==
  ASSUME WorldOK, RequestsOK, MarksStay, NEW r \in Requests, Knows(req[r], sources)
  PROVE  Knows(req[r], sources')
<1>1. req[r].first \in 0..Len(sources) /\ req[r].src \in 0..Len(sources) /\ Len(sources) \in Nat
  BY DEF RequestsOK, ReqRec, RequestRec, WorldOK
<1>2. \A i \in 0..Len(sources) : i # 0 => i \in 1..Len(sources)
  BY <1>1
<1> QED
  BY <1>1, <1>2 DEF Knows, MarksStay

\* A step of one request that knows what it says afterwards.
LEMMA OneKnows ==
  ASSUME WorldOK, RequestsOK, MarksStay, RequestsKnow, NEW r \in Requests,
         req' = [req EXCEPT ![r] = req'[r]], Knows(req'[r], sources')
  PROVE  RequestsKnow'
<1>1. \A q \in Requests : q # r => req'[q] = req[q]
  BY DEF RequestsOK
<1>2. \A q \in Requests : Knows(req[q], sources')
  BY KnownStays DEF RequestsKnow
<1>3. \A q \in Requests : Knows(req'[q], sources')
  BY <1>1, <1>2
<1> QED
  BY <1>3 DEF RequestsKnow

\* The key moves on: a swap is away from the newest source, and back to a session
\* the entry gave up on only when that one is gone.
LEMMA SwapMovesOn ==
  ASSUME AtMostTwoSessions, WorldOK, RequestsOK, KeyMovesOn, NEW r \in Requests, Swap(r)
  PROVE  KeyMovesOn' /\ MarksStay /\ Len(sources') = Len(sources) + 1
<1> DEFINE n == req[r].entry
           old == entries[n].cur
           s == req[r].of
           u == sources[old].of
           marked == [sources EXCEPT ![old].retired = TRUE]
           moved == [cur |-> Len(sources'), given |-> entries[n].given \cup {u}]
<1>1. /\ n \in 1..Len(entries) /\ old \in 1..Len(sources) /\ s \in Sessions
      /\ sources[old] \in SourceRec /\ u \in Sessions
  BY SettlingIds DEF Swap, SourceRec
<1>2. s # u /\ (s \in entries[n].given => sources[old].gone)
  BY DEF Swap, Straggler
<1>3. /\ sources' = Append(marked, NewSource(s)) /\ entries' = [entries EXCEPT ![n] = moved]
      /\ UNCHANGED <<cached, evictions>>
  BY DEF Swap, Retires, bounds
<1>4. /\ marked \in Seq(SourceRec) /\ Len(marked) = Len(sources) /\ Len(sources) \in Nat
      /\ \A i \in 1..Len(sources) : marked[i].gone = sources[i].gone /\ marked[i].of = sources[i].of
      /\ \A i \in 1..Len(sources) : sources[i].retired => marked[i].retired
  <2>1. sources \in Seq(SourceRec)
    BY DEF WorldOK
  <2>2. \A i \in 1..Len(sources) : marked[i].gone = sources[i].gone /\ marked[i].of = sources[i].of
    BY <1>1, <2>1, MarkKeepsRest
  <2>3. marked \in Seq(SourceRec) /\ Len(marked) = Len(sources)
    BY <1>1, <2>1, MarkTyped
  <2>4. Len(sources) \in Nat
    BY <2>1
  <2>5. marked[old].retired
    BY <1>1, <2>1, MarkRetires
  <2>6. \A i \in 1..Len(sources) : i # old => marked[i] = sources[i]
    BY <2>1
  <2> HIDE DEF marked, old
  <2> QED
    BY <2>2, <2>3, <2>4, <2>5, <2>6
<1>5. /\ Len(entries) = 1 /\ n = 1 /\ old = Len(sources) /\ cached = 1 /\ evictions = 0
      /\ \A i \in 2..(Len(sources) - 1) : sources[i].gone
      /\ Len(sources) > 1 => /\ sources[Len(sources) - 1].of \in entries[1].given
                             /\ sources[Len(sources) - 1].of # u
  <2>1. Len(entries) \in Nat /\ Len(entries) <= 1
    BY DEF WorldOK, KeyMovesOn
  <2>2. Len(entries) = 1 /\ n = 1
    <3>1. \A l \in Nat : l <= 1 => \A k \in 1..l : l = 1 /\ k = 1
      OBVIOUS
    <3>2. n \in 1..Len(entries)
      BY <1>1
    <3> HIDE DEF n
    <3> QED
      BY <3>1, <3>2, <2>1
  <2> QED
    BY <2>2 DEF KeyMovesOn
<1>6. /\ entries'[1] = moved /\ Len(entries') = 1
  BY <1>1, <1>3, <1>5 DEF WorldOK
<1>7. moved.cur = Len(sources') /\ moved.given = entries[1].given \cup {u}
  BY <1>5
<1>8. \A i \in 1..Len(sources) : sources[i].of \in Sessions
  <2>1. \A i \in 1..Len(sources) : sources[i] \in SourceRec
    BY DEF WorldOK
  <2> QED
    BY <2>1 DEF SourceRec
<1>9. u = sources[old].of
  OBVIOUS
<1> HIDE DEF n, old, s, u, marked, moved
<1>10. /\ Len(sources') = Len(sources) + 1
       /\ \A i \in 1..Len(sources) : sources'[i] = marked[i]
       /\ sources'[Len(sources')] = NewSource(s)
  BY <1>3, <1>4
<1>11. ~sources'[Len(sources')].retired /\ sources'[Len(sources')].of = s
  BY <1>10 DEF NewSource
<1>12. MarksStay
  BY <1>4, <1>10 DEF MarksStay
<1>13. Len(sources) > 1 => sources[Len(sources)].gone
  <2> SUFFICES ASSUME Len(sources) > 1 PROVE sources[Len(sources)].gone
    OBVIOUS
  <2>1. Len(sources) - 1 \in 1..Len(sources)
    BY <1>4
  <2>2. sources[Len(sources) - 1].of = s
    BY <1>1, <1>2, <1>5, <1>8, <2>1 DEF AtMostTwoSessions
  <2> QED
    BY <1>2, <1>5, <2>2
<1>14. \A i \in 2..(Len(sources') - 1) : sources'[i].gone
  <2> TAKE i \in 2..(Len(sources') - 1)
  <2>1. i \in 1..Len(sources) /\ (i \in 2..(Len(sources) - 1) \/ (i = Len(sources) /\ Len(sources) > 1))
    BY <1>4, <1>10
  <2>2. sources'[i].gone = sources[i].gone
    BY <1>4, <1>10, <2>1
  <2> QED
    BY <1>5, <1>13, <2>1, <2>2
<1>15. sources'[Len(sources') - 1].of = u
  <2>1. Len(sources') - 1 = old /\ old \in 1..Len(sources)
    BY <1>1, <1>4, <1>5, <1>10
  <2> QED
    BY <1>4, <1>9, <1>10, <2>1
<1>16. KeyMovesOn'
  <2>1. evictions' = 0 /\ Len(entries') = 1 /\ cached' = 1
    BY <1>3, <1>5, <1>6
  <2>2. entries'[1].cur = Len(sources') /\ ~sources'[Len(sources')].retired
    BY <1>6, <1>7, <1>11
  <2>3. /\ sources'[Len(sources') - 1].of \in entries'[1].given
        /\ sources'[Len(sources') - 1].of # sources'[Len(sources')].of
    BY <1>2, <1>6, <1>7, <1>11, <1>15
  <2> QED
    BY <1>14, <2>1, <2>2, <2>3 DEF KeyMovesOn
<1> QED
  BY <1>10, <1>12, <1>16

\* The only miss is the key's first poll.
LEMMA MissMovesOn ==
  ASSUME WorldOK, RequestsOK, KeyMovesOn, NEW r \in Requests, Miss(r)
  PROVE  KeyMovesOn' /\ MarksStay
<1>1. /\ entries = <<>> /\ sources = <<>> /\ job = 0 /\ cached = 0 /\ evictions = 0
      /\ UNCHANGED evictions /\ cached' = Len(entries')
  <2>1. Len(entries) = 0 /\ Len(sources) = 0
    BY DEF Miss, KeyMovesOn
  <2>2. \A T : \A q \in Seq(T) : Len(q) = 0 => q = <<>>
    OBVIOUS
  <2>3. entries = <<>> /\ sources = <<>>
    BY <2>1, <2>2 DEF WorldOK
  <2>4. job = 0
    BY <2>1 DEF WorldOK
  <2> QED
    BY <2>3, <2>4 DEF Miss, KeyMovesOn, bounds
<1>2. sources' = Append(<<>>, NewSource(req[r].of))
  BY <1>1 DEF Miss, AdoptsJob
<1>3. Len(sources') = 1 /\ sources'[1] = NewSource(req[r].of) /\ sources' # sources
  BY <1>1, <1>2
<1>4. entries' = Append(<<>>, [cur |-> 1, given |-> {}])
  BY <1>1, <1>3 DEF Miss
<1>5. Len(entries') = 1 /\ entries'[1].cur = 1
  BY <1>4
<1>6. ~sources'[1].retired
  BY <1>3 DEF NewSource
<1> QED
  BY <1>1, <1>3, <1>5, <1>6 DEF KeyMovesOn, MarksStay

\* No other step moves the key.
LEMMA RestMovesOn ==
  ASSUME WorldOK, KeyMovesOn, Marks, evictions' = 0, cached' = cached
  PROVE  KeyMovesOn' /\ MarksStay
<1>1. Len(sources) \in Nat
  BY DEF WorldOK
<1>2. Len(entries) = 1 => Len(sources) \in 1..Len(sources)
  <2>1. Len(entries) = 1 => entries[1].cur \in 1..Len(sources)
    BY EntryFollows
  <2> QED
    BY <2>1 DEF KeyMovesOn
<1>3. MarksStay
  BY <1>1 DEF Marks, MarksStay
<1>4. Len(sources) > 1 => Len(sources) - 1 \in 1..Len(sources)
  BY <1>1
<1> QED
  BY <1>1, <1>2, <1>3, <1>4 DEF KeyMovesOn, Marks

\* A request that settles on the newest source, or on one still newer: only a
\* source that is gone can be the one that turned it away.
LEMMA SettledKnows ==
  ASSUME RequestsOK, RequestsKnow, MarksStay, WorldOK, WorldOK', NEW r \in Requests,
         At(r, "settle"), NEW src \in 1..Len(sources'), SettledOn(r, src),
         req[r].first <= src, req[r].first = src => sources'[src].gone
  PROVE  RequestsKnow'
<1>1. req[r] \in ReqRec /\ Knows(req[r], sources')
  BY KnownStays DEF RequestsOK, RequestsKnow
<1>2. /\ req[r].first \in Nat /\ src \in Nat /\ src # 0 /\ req[r].answer # "notfound"
      /\ req[r].first # 0 => req[r].src = req[r].first
      /\ req[r].first # 0 => sources'[req[r].first].retired \/ sources'[req[r].first].gone
  <2>1. Len(sources) \in Nat
    BY DEF WorldOK
  <2>2. req[r].first \in Nat /\ src \in Nat /\ src # 0
    BY <1>1, <2>1 DEF ReqRec, RequestRec
  <2> QED
    BY <1>1, <2>2 DEF Knows, At
<1>3. CASE src = req[r].first
  <2>1. /\ req' = [req EXCEPT ![r] = req'[r]]
        /\ req'[r] = [req[r] EXCEPT !.at = "idle", !.answer = "notfound"]
    BY <1>3 DEF SettledOn, Answer, RequestsOK
  <2>2. /\ req'[r].at = "idle" /\ req'[r].answer = "notfound"
        /\ req'[r].first = req[r].first /\ req'[r].src = req[r].src
    BY <1>1, <2>1 DEF ReqRec, RequestRec
  <2>3. Knows(req'[r], sources')
    BY <1>2, <1>3, <2>2 DEF Knows
  <2> QED
    BY <2>1, <2>3, OneKnows
<1>4. CASE src # req[r].first
  <2>1. /\ req' = [req EXCEPT ![r] = req'[r]]
        /\ req'[r] = [req[r] EXCEPT !.at = "refresh", !.src = src]
    BY <1>4 DEF SettledOn, RequestsOK
  <2>2. /\ req'[r].at = "refresh" /\ req'[r].answer = req[r].answer
        /\ req'[r].first = req[r].first /\ req'[r].src = src
    BY <1>1, <2>1 DEF ReqRec, RequestRec
  <2>3. req[r].first < src
    BY <1>2, <1>4
  <2>4. Knows(req'[r], sources')
    BY <1>2, <2>2, <2>3 DEF Knows
  <2> QED
    BY <2>1, <2>4, OneKnows
<1> QED
  BY <1>3, <1>4

\* A request turned away for the second time was at a source that is gone.
LEMMA FoundGoneKnows ==
  ASSUME RequestsOK, RequestsKnow, MarksStay, WorldOK, NEW r \in Requests,
         req[r].at \in {"refresh", "reading"}, FoundGone(r),
         sources'[req[r].src].retired \/ sources'[req[r].src].gone,
         req[r].first # 0 => sources'[req[r].src].gone
  PROVE  RequestsKnow'
<1>1. req[r] \in ReqRec /\ Knows(req[r], sources')
  BY KnownStays DEF RequestsOK, RequestsKnow
<1>2. /\ req[r].first \in Nat /\ req[r].src \in Nat /\ req[r].first < req[r].src
      /\ req[r].answer # "notfound"
      /\ req[r].first # 0 => sources'[req[r].first].retired \/ sources'[req[r].first].gone
  <2>1. Len(sources) \in Nat
    BY DEF WorldOK
  <2>2. req[r].first \in Nat /\ req[r].src \in Nat
    BY <1>1, <2>1 DEF ReqRec, RequestRec
  <2> QED
    BY <1>1, <2>2 DEF Knows
<1>3. CASE req[r].first = 0
  <2>1. /\ req' = [req EXCEPT ![r] = req'[r]]
        /\ req'[r] = [req[r] EXCEPT !.at = "lookup", !.first = req[r].src]
    BY <1>3 DEF FoundGone, RequestsOK
  <2>2. /\ req'[r].at = "lookup" /\ req'[r].answer = req[r].answer
        /\ req'[r].first = req[r].src /\ req'[r].src = req[r].src
    BY <1>1, <2>1 DEF ReqRec, RequestRec
  <2>3. Knows(req'[r], sources')
    BY <1>2, <2>2 DEF Knows
  <2> QED
    BY <2>1, <2>3, OneKnows
<1>4. CASE req[r].first # 0
  <2>1. /\ req' = [req EXCEPT ![r] = req'[r]]
        /\ req'[r] = [req[r] EXCEPT !.at = "idle", !.answer = "notfound"]
    BY <1>4 DEF FoundGone, Answer, RequestsOK
  <2>2. /\ req'[r].at = "idle" /\ req'[r].answer = "notfound"
        /\ req'[r].first = req[r].first /\ req'[r].src = req[r].src
    BY <1>1, <2>1 DEF ReqRec, RequestRec
  <2>3. Knows(req'[r], sources')
    BY <1>2, <1>4, <2>2 DEF Knows
  <2> QED
    BY <2>1, <2>3, OneKnows
<1> QED
  BY <1>3, <1>4

\* Its other steps: it asks, it looks up, it reads, it is served.
LEMMA PlainStepKnows ==
  ASSUME RequestsOK, RequestsKnow, MarksStay, WorldOK, NEW r \in Requests,
         \/ \E s \in Sessions : Arrive(r, s)
         \/ Hit(r) \/ Miss(r) \/ RefreshSkipped(r) \/ BeginRead(r) \/ ReadOk(r)
         \/ Ensure(r) \/ HeadOnly(r)
  PROVE  RequestsKnow'
<1>1. req[r] \in ReqRec /\ Knows(req[r], sources')
  BY KnownStays DEF RequestsOK, RequestsKnow
<1>2. CASE \E s \in Sessions : Arrive(r, s)
  <2>1. PICK s \in Sessions : Arrive(r, s)
    BY <1>2
  <2>2. /\ req' = [req EXCEPT ![r] = req'[r]]
        /\ req'[r] = [Unasked(s) EXCEPT !.at = "lookup"]
    BY <2>1 DEF Arrive, RequestsOK
  <2>3. Knows(req'[r], sources')
    BY <2>2 DEF Unasked, Knows
  <2> QED
    BY <2>2, <2>3, OneKnows
<1>3. CASE Hit(r) \/ Miss(r)
  <2>1. At(r, "lookup") /\ LookedUp(r, cached')
    BY <1>3 DEF Hit, Miss, keyVars
  <2>2. /\ req' = [req EXCEPT ![r] = req'[r]]
        /\ req'[r] = [req[r] EXCEPT !.at = "settle", !.entry = cached']
    BY <2>1 DEF LookedUp, RequestsOK
  <2>3. /\ req'[r].at = "settle" /\ req'[r].answer = req[r].answer
        /\ req'[r].first = req[r].first /\ req'[r].src = req[r].src
    BY <1>1, <2>2 DEF ReqRec, RequestRec
  <2>4. Knows(req'[r], sources')
    BY <1>1, <2>1, <2>3 DEF Knows, At
  <2> QED
    BY <2>2, <2>4, OneKnows
<1>4. CASE RefreshSkipped(r) \/ BeginRead(r) \/ ReadOk(r)
  <2>1. PICK at \in {"reading", "ensure"} : req' = [req EXCEPT ![r].at = at]
    BY <1>4 DEF RefreshSkipped, BeginRead, ReadOk
  <2>2. req[r].at \in {"refresh", "reading"}
    BY <1>4 DEF RefreshSkipped, BeginRead, ReadOk, At
  <2>3. /\ req' = [req EXCEPT ![r] = req'[r]]
        /\ req'[r] = [req[r] EXCEPT !.at = at]
    BY <2>1 DEF RequestsOK
  <2>4. /\ req'[r].at = at /\ req'[r].answer = req[r].answer
        /\ req'[r].first = req[r].first /\ req'[r].src = req[r].src
    BY <1>1, <2>3 DEF ReqRec, RequestRec
  <2>5. Knows(req'[r], sources')
    BY <1>1, <2>2, <2>4 DEF Knows
  <2> QED
    BY <2>3, <2>5, OneKnows
<1>5. CASE Ensure(r) \/ HeadOnly(r)
  <2>1. /\ req' = [req EXCEPT ![r] = req'[r]]
        /\ req'[r] = [req[r] EXCEPT !.at = "idle", !.answer = "ok"]
    BY <1>5 DEF Ensure, HeadOnly, Answer, RequestsOK
  <2>2. /\ req'[r].at = "idle" /\ req'[r].answer = "ok"
        /\ req'[r].first = req[r].first /\ req'[r].src = req[r].src
    BY <1>1, <2>1 DEF ReqRec, RequestRec
  <2>3. Knows(req'[r], sources')
    BY <1>1, <2>2 DEF Knows
  <2> QED
    BY <2>1, <2>3, OneKnows
<1> QED
  BY <1>2, <1>3, <1>4, <1>5

\* Where the key moves on as KeyMovesOn says, the newest source can turn a
\* request away twice only when it is gone, and so can any source but the first.
LEMMA RequestStepKnows ==
  ASSUME WorldOK, WorldOK', RequestsOK, KeyMovesOn, RequestsKnow, MarksStay,
         NEW r \in Requests, Swap(r) => Len(sources') = Len(sources) + 1,
         (\E s \in Sessions : Arrive(r, s)) \/ Serve(r)
  PROVE  RequestsKnow'
<1>1. /\ req[r] \in ReqRec /\ Knows(req[r], sources)
      /\ Len(sources) \in Nat /\ Len(sources') \in Nat
      /\ req[r].first \in 0..Len(sources) /\ req[r].src \in 0..Len(sources)
  <2>1. req[r] \in ReqRec /\ Knows(req[r], sources)
    BY DEF RequestsOK, RequestsKnow
  <2>2. Len(sources) \in Nat /\ Len(sources') \in Nat
    BY SMTT(30) DEF WorldOK
  <2> QED
    BY <2>1, <2>2 DEF ReqRec, RequestRec
<1>2. CASE Stay(r)
  <2> DEFINE src == entries[req[r].entry].cur
  <2>1. At(r, "settle") /\ SettledOn(r, src) /\ sources' = sources
    BY <1>2 DEF Stay, keyVars
  <2>2. src \in 1..Len(sources) /\ src = Len(sources) /\ ~sources[src].retired
    <3>1. req[r].entry \in 1..Len(entries) /\ src \in 1..Len(sources)
      BY <2>1, SettlingIds
    <3>2. Len(entries) <= 1 /\ Len(entries) \in Nat
      BY DEF KeyMovesOn, WorldOK
    <3>3. \A l \in Nat : l <= 1 => \A k \in 1..l : l = 1 /\ k = 1
      OBVIOUS
    <3>4. Len(entries) = 1 /\ req[r].entry = 1
      BY <3>1, <3>2, <3>3
    <3> QED
      BY <3>1, <3>4 DEF KeyMovesOn
  <2>3. req[r].first <= src
    BY <1>1, <2>2
  <2>4. req[r].first = src => sources[src].gone
    BY <1>1, <2>2 DEF Knows
  <2> HIDE DEF src
  <2> QED
    BY <2>1, <2>2, <2>3, <2>4, SettledKnows
<1>3. CASE Swap(r)
  <2> DEFINE src == Len(sources')
  <2>1. At(r, "settle") /\ SettledOn(r, src)
    BY <1>3 DEF Swap
  <2>2. src \in 1..Len(sources') /\ req[r].first < src
    BY <1>1, <1>3
  <2>3. req[r].first <= src /\ (req[r].first = src => sources'[src].gone)
    BY <1>1, <2>2
  <2> HIDE DEF src
  <2> QED
    BY <2>1, <2>2, <2>3, SettledKnows
<1>4. CASE RefreshRetired(r)
  <2>1. req[r].at = "refresh" /\ FoundGone(r) /\ sources' = sources /\ sources[req[r].src].retired
    BY <1>4 DEF RefreshRetired, At, keyVars
  <2>2. req[r].first # 0 => sources[req[r].src].gone
    <3> SUFFICES ASSUME req[r].first # 0 PROVE sources[req[r].src].gone
      OBVIOUS
    <3>1. req[r].first < req[r].src
      BY <1>1, <2>1 DEF Knows
    <3>2. Len(entries) = 1
      <4>1. Len(entries) \in Nat /\ Len(entries) <= 1
        BY DEF WorldOK, KeyMovesOn
      <4>2. Len(sources) # 0
        BY <1>1, <3>1
      <4> QED
        BY <4>1, <4>2 DEF KeyMovesOn
    <3>3. req[r].src # Len(sources)
      BY <2>1, <3>2 DEF KeyMovesOn
    <3>4. req[r].src \in 2..(Len(sources) - 1)
      BY <1>1, <3>1, <3>3
    <3> QED
      BY <3>2, <3>4 DEF KeyMovesOn
  <2> QED
    BY <2>1, <2>2, FoundGoneKnows
<1>5. CASE ReadGone(r)
  <2>1. req[r].at = "reading" /\ FoundGone(r)
        /\ sources' = [sources EXCEPT ![req[r].src].gone = TRUE]
    BY <1>5 DEF ReadGone, At, PlaylistGone
  <2>2. req[r].src \in 1..Len(sources)
    <3>1. req[r].src # 0
      BY <2>1 DEF RequestsOK, ReqInv
    <3> QED
      BY <1>1, <3>1
  <2>3. sources'[req[r].src].gone
    BY <2>1, <2>2, MarkGoes DEF WorldOK
  <2> QED
    BY <2>1, <2>3, FoundGoneKnows
<1>6. CASE ~(Stay(r) \/ Swap(r) \/ RefreshRetired(r) \/ ReadGone(r))
  BY <1>6, PlainStepKnows DEF Serve, Refresh
<1> QED
  BY <1>2, <1>3, <1>4, <1>5, <1>6

\* A 404 is final (NotFoundIsReal), where TLC shows how it may not be: with the
\* cache too large to drop the key and no third session to move it under a poll,
\* a client is told so only when a session said that it was over (the comments
\* on liveRefresh and on LiveSource.gone).
THEOREM NotFoundIsRealForTwo ==
  ASSUME AtMostTwoSessions, MaxEvictions = 0
  PROVE  Spec => []NotFoundIsReal
<1>1. Init => KeyMovesOn /\ RequestsKnow
  <2> SUFFICES ASSUME Init PROVE KeyMovesOn /\ RequestsKnow
    OBVIOUS
  <2>1. KeyMovesOn
    BY DEF Init, KeyMovesOn
  <2>2. RequestsKnow
    BY DEF Init, Unasked, RequestsKnow, Knows
  <2> QED
    BY <2>1, <2>2
<1>2. /\ WorldOK /\ RequestsOK /\ KeyMovesOn /\ RequestsKnow /\ [Next]_vars
      /\ WorldOK' /\ RequestsOK'
      => KeyMovesOn' /\ RequestsKnow'
  <2> SUFFICES ASSUME WorldOK, RequestsOK, KeyMovesOn, RequestsKnow, [Next]_vars, WorldOK'
               PROVE  KeyMovesOn' /\ RequestsKnow'
    OBVIOUS
  <2>1. ASSUME NEW r \in Requests, Miss(r) PROVE KeyMovesOn' /\ RequestsKnow'
    <3>1. KeyMovesOn' /\ MarksStay
      BY <2>1, MissMovesOn
    <3> QED
      BY <2>1, <3>1, PlainStepKnows
  <2>2. ASSUME NEW r \in Requests, Swap(r) PROVE KeyMovesOn' /\ RequestsKnow'
    <3>1. KeyMovesOn' /\ MarksStay /\ Len(sources') = Len(sources) + 1
      BY <2>2, SwapMovesOn
    <3> QED
      BY <2>2, <3>1, RequestStepKnows DEF Serve
  <2>3. CASE ~\E r \in Requests : Miss(r) \/ Swap(r)
    <3>1. Marks
      BY <2>3, OthersKeepMarks
    <3>2. evictions' = 0 /\ cached' = cached
      <4>1. evictions = 0
        BY DEF KeyMovesOn
      <4>2. ASSUME NEW r \in Requests,
                   \/ \E s \in Sessions : Arrive(r, s)
                   \/ Hit(r) \/ Stay(r) \/ RefreshSkipped(r) \/ RefreshRetired(r)
                   \/ BeginRead(r) \/ ReadOk(r) \/ Ensure(r) \/ HeadOnly(r)
            PROVE  UNCHANGED <<evictions, cached>>
        BY <4>2 DEF Arrive, Hit, Stay, RefreshSkipped, RefreshRetired, BeginRead, ReadOk,
                    Ensure, HeadOnly, keyVars, bounds
      <4>3. (\E r \in Requests : ReadGone(r)) \/ JobFindsGone => UNCHANGED <<evictions, cached>>
        BY DEF ReadGone, JobFindsGone
      <4>4. JobEnds \/ Evict \/ (\E s \in Sessions : Reap(s)) \/ UNCHANGED vars
              => UNCHANGED <<evictions, cached>>
        BY <4>1 DEF JobEnds, Evict, Reap, vars, keyVars, bounds
      <4> QED
        BY <4>1, <4>2, <4>3, <4>4, <2>3 DEF Next, Serve, Refresh
    <3>3. KeyMovesOn' /\ MarksStay
      BY <3>1, <3>2, RestMovesOn
    <3>4. CASE \E r \in Requests : (\E s \in Sessions : Arrive(r, s)) \/ Serve(r)
      BY <2>3, <3>3, <3>4, RequestStepKnows
    <3>5. CASE UNCHANGED req
      BY <3>3, <3>5, KnownStays DEF RequestsKnow
    <3>6. CASE JobFindsGone \/ JobEnds \/ Evict \/ \E s \in Sessions : Reap(s)
      BY <3>5, <3>6 DEF JobFindsGone, JobEnds, Evict, Reap
    <3> QED
      BY <3>3, <3>4, <3>5, <3>6 DEF Next, vars
  <2> QED
    BY <2>1, <2>2, <2>3
<1>3. RequestsKnow => NotFoundIsReal
  BY DEF RequestsKnow, Knows, NotFoundIsReal
<1> QED
  BY <1>1, <1>2, <1>3, TypeInductive, PTL DEF Spec

=============================================================================
