----------------------- MODULE CandidateRecords_proofs -----------------------
(* Proofs about CandidateRecords.                                          *)
EXTENDS CandidateRecords, FiniteSetTheorems, SequenceTheorems, TLAPS

StoreIsSeq == revs \in Seq({revs[i] : i \in Ids})

Runs == [status : {"pending", "succeeded", "failed"}, cut : Nat, done : Nat]

Shape ==
    /\ StoreIsSeq /\ DOMAIN writer = Writers
    /\ run \in Runs /\ (run.status # "pending" => run.cut \in Times /\ run.done \in Times)

(* What the command that wrote a record saw to, per kind of record.         *)
SeriesFits(r) == r.kind = "series" => \E i \in Ids : Is(i, "instrument") /\ r.uses = {i}

PriceFits(r) ==
    r.kind = "price" =>
        /\ run.status # "pending" /\ run.cut <= r.cut /\ run.done <= r.at
        /\ \E s \in r.uses : Has(s, "series", "accepted")
        /\ \A i, j \in Pick(r.uses, "instrument") : i = j

AssessmentFits(r) == r.kind \in {"context", "valuation"} => EligibilityFits(r.state, r.uses)

MetricFits(r) ==
    r.kind = "metric" =>
        \E p, e \in r.uses :
            /\ Is(p, "price") /\ p \in revs[e].uses
            /\ Pick(r.uses, "instrument") \subseteq revs[p].uses
            /\ r.state = "calculated" => Has(p, "price", "accepted") /\ Has(e, "valuation", "eligible")

ComparisonFits(r) ==
    r.kind = "peers" =>
        /\ \A m, n \in r.members : m.company = n.company => m = n
        /\ \A m \in r.members : PeerFits(m)

SnapshotFits(r) ==
    r.kind = "snapshot" =>
        \A m \in r.members : MemberFits(m, r.cut, r.at) /\ (m.chosen => Rankable(m))

Sound(r) ==
    /\ IsRevision(r) /\ Within(r, r.uses)
    /\ SeriesFits(r) /\ PriceFits(r) /\ AssessmentFits(r)
    /\ MetricFits(r) /\ ComparisonFits(r) /\ SnapshotFits(r)

AllSound ==
    /\ \A i \in Ids : Sound(revs[i])
    /\ \A w \in Writers : writer[w] # Idle => Sound(writer[w])

(* A chain has its first revision; a command that follows a revision holds  *)
(* it, and nobody else follows it.                                         *)
Begun == \A j \in Ids : \E i \in Ids : Named(i, revs[j].kind, revs[j].name) /\ revs[i].no = 1

FollowsNewest(r) ==
    \E i \in Revisions(r.kind, r.name) :
        IsNewest(i, Revisions(r.kind, r.name)) /\ r.no = revs[i].no + 1 /\ Follows(r, i)

Later(w) == writer[w] # Idle /\ writer[w].no # 1

Queued == \A w \in Writers : Later(w) => FollowsNewest(writer[w])

OneQueued ==
    \A v, w \in Writers : v # w /\ Later(v) /\ Later(w) =>
        writer[v].kind # writer[w].kind \/ writer[v].name # writer[w].name

Base == Shape /\ AllSound

Inv == Base /\ Begun /\ Queued /\ OneQueued /\ ChainsAreLinear

---------------------------------------------------------------------------
(* Records stand.                                                          *)

(* How the store changes: records are added, and the run settles.          *)
Grown ==
    /\ Ids \subseteq Ids' /\ \A i \in Ids : revs'[i] = revs[i]
    /\ run.status # "pending" => run'.status # "pending" /\ run'.cut = run.cut /\ run'.done = run.done

LEMMA Appended ==
    ASSUME Shape, NEW w \in Writers, Insert(w)
    PROVE  /\ StoreIsSeq' /\ Len(revs) \in Nat /\ Ids = 1..Len(revs) /\ Ids' = 1..(Len(revs) + 1)
           /\ \A i \in Ids : revs'[i] = revs[i]
           /\ revs'[Len(revs) + 1] = writer[w]
  <1>1. PICK S : S = {revs[i] : i \in Ids} \union {writer[w]}
    OBVIOUS
  <1>2. revs \in Seq(S)
    BY <1>1, SeqMonotonic DEF Shape, StoreIsSeq
  <1>3. revs' = Append(revs, writer[w]) /\ writer[w] \in S
    BY <1>1 DEF Insert
  <1>4. /\ revs' \in Seq(S) /\ Len(revs') = Len(revs) + 1
        /\ \A i \in 1..Len(revs) : revs'[i] = revs[i]
        /\ revs'[Len(revs) + 1] = writer[w]
    BY <1>2, <1>3, AppendProperties
  <1>5. Len(revs) \in Nat /\ Ids = 1..Len(revs)
    BY <1>2, LenProperties DEF Ids
  <1>6. DOMAIN revs' = 1..Len(revs')
    BY <1>4, LenProperties
  <1>7. revs' \in [DOMAIN revs' -> {revs'[i] : i \in DOMAIN revs'}]
    BY <1>4, LenProperties
  <1>8. StoreIsSeq'
    BY <1>4, <1>5, <1>6, <1>7, SeqDef DEF StoreIsSeq, Ids
  <1> QED
    BY <1>4, <1>5, <1>6, <1>8 DEF Ids

(* Which records the commands write.                                       *)
LEMMA StoreSteps ==
    ASSUME [Next]_vars
    PROVE  \/ UNCHANGED vars
           \/ \E w \in Writers, at \in Times : \E cut \in 1..at :
                  CheckPrices(w, cut, at) \/ CheckValuations(w, cut, at) \/ CheckCandidates(w, cut, at)
           \/ \E w \in Writers : Insert(w) \/ Conflict(w) \/ Abandon(w)
           \/ \E s \in {"succeeded", "failed"}, cut, done \in Times : RunSettles(s, cut, done)
           \/ RunMarkedFailed
  BY DEF Next

LEMMA ChecksAreChecks ==
    ASSUME NEW w \in Writers, NEW cut, NEW at,
           CheckPrices(w, cut, at) \/ CheckValuations(w, cut, at) \/ CheckCandidates(w, cut, at)
    PROVE  \E r : Check(w, r)
  <1>1. CASE CheckPrices(w, cut, at)
    BY <1>1, Zenon DEF CheckPrices, RecordListedInstrument, RecordSeries, RecordPrice, RecordEligibility
  <1>2. CASE CheckValuations(w, cut, at)
    BY <1>2, Zenon DEF CheckValuations, RecordObservation, RecordMetric, RecordExpectationGap, RecordComparison
  <1>3. CASE CheckCandidates(w, cut, at)
    BY <1>3, Zenon DEF CheckCandidates, RecordResearch, RecordComponent, RecordSnapshot
  <1> QED
    BY <1>1, <1>2, <1>3

LEMMA StoreGrows ==
    ASSUME Shape, [Next]_vars
    PROVE  Grown /\ Shape'
  <1>1. CASE UNCHANGED vars
    BY <1>1 DEF vars, Grown, Ids, Shape, StoreIsSeq
  <1>2. ASSUME NEW w \in Writers, NEW r, Check(w, r)
        PROVE  Grown /\ Shape'
    BY <1>2 DEF Check, Grown, Ids, Shape, StoreIsSeq
  <1>3. ASSUME NEW w \in Writers, Insert(w)
        PROVE  Grown /\ Shape'
    <2>1. Grown
      <3>1. PICK n \in Nat : n = Len(revs)
        BY <1>3, Appended
      <3>2. Ids = 1..n /\ Ids' = 1..(n + 1)
        BY <1>3, <3>1, Appended
      <3>3. Ids \subseteq Ids'
        BY <3>2
      <3>4. run' = run
        BY <1>3 DEF Insert
      <3> QED
        BY <1>3, <3>3, <3>4, Appended DEF Grown
    <2>2. StoreIsSeq'
      BY <1>3, Appended
    <2> QED
      BY <1>3, <2>1, <2>2 DEF Insert, Shape
  <1>4. ASSUME NEW w \in Writers, Conflict(w) \/ Abandon(w)
        PROVE  Grown /\ Shape'
    BY <1>4 DEF Conflict, Abandon, Grown, Ids, Shape, StoreIsSeq
  <1>5. ASSUME NEW s \in {"succeeded", "failed"}, NEW cut \in Times, NEW done \in Times, RunSettles(s, cut, done)
        PROVE  Grown /\ Shape'
    <2>1. cut \in Nat /\ done \in Nat
      BY DEF Times
    <2> QED
      BY <1>5, <2>1 DEF RunSettles, Grown, Ids, Shape, StoreIsSeq, Runs, Times
  <1>6. CASE RunMarkedFailed
    BY <1>6 DEF RunMarkedFailed, Grown, Ids, Shape, StoreIsSeq, Runs, Times
  <1> QED
    BY <1>1, <1>2, <1>3, <1>4, <1>5, <1>6, StoreSteps, ChecksAreChecks

LEMMA PicksKept ==
    ASSUME Grown, NEW ids \in SUBSET Ids
    PROVE  /\ \A kind : Pick(ids, kind)' = Pick(ids, kind)
           /\ NamesOf(ids)' = NamesOf(ids) /\ Components(ids)' = Components(ids)
           /\ PricePair(ids)' = PricePair(ids)
  BY DEF Grown, Pick, Is, NamesOf, Components, PricePair

LEMMA MemberKept ==
    ASSUME Base, Grown, NEW m, m.of \subseteq Ids, NEW cut, NEW at
    PROVE  /\ PeerFits(m) => PeerFits(m)'
           /\ Rankable(m) => Rankable(m)'
           /\ MemberFits(m, cut, at) => MemberFits(m, cut, at)'
  <1>1. \A i \in Ids : revs'[i] = revs[i] /\ revs[i].uses \subseteq Ids
    BY DEF Base, AllSound, Sound, IsRevision, Grown
  <1>2. PeerFits(m) => PeerFits(m)'
    BY <1>1 DEF PeerFits, Named, Is, BindsShare, Has
  <1>3. Rankable(m) => Rankable(m)'
    BY <1>1 DEF Rankable, Has, Is
  <1>4. PICK ids : ids = m.of
    OBVIOUS
  <1>5. /\ \A kind : Pick(ids, kind)' = Pick(ids, kind)
        /\ Components(ids)' = Components(ids) /\ PricePair(ids)' = PricePair(ids)
    BY <1>4, PicksKept
  <1>6. PICK research : research = Pick(ids, "research")
    OBVIOUS
  <1>7. research \subseteq Ids
    BY <1>4, <1>6 DEF Pick
  <1>8. NamesOf(research)' = NamesOf(research)
    BY <1>7, PicksKept
  <1>9. ASSUME NEW i \in Ids
        PROVE  /\ Pick(revs[i].uses, "price")' = Pick(revs[i].uses, "price")
               /\ Pick(revs[i].uses, "series")' = Pick(revs[i].uses, "series")
               /\ PricePair(revs[i].uses)' = PricePair(revs[i].uses)
    <2>1. PICK uses \in SUBSET Ids : uses = revs[i].uses /\ revs'[i].uses = uses
      BY <1>1
    <2> QED
      BY <2>1, PicksKept
  <1>10. \A p, e \in Ids : PriceGraph(p, e, cut, at)' = PriceGraph(p, e, cut, at)
    <2> SUFFICES ASSUME NEW p \in Ids, NEW e \in Ids
                 PROVE  PriceGraph(p, e, cut, at)' = PriceGraph(p, e, cut, at)
      OBVIOUS
    <2>1. Pick(revs[p].uses, "series")' = Pick(revs[p].uses, "series")
      BY <1>9
    <2>2. Pick(revs[p].uses, "series") \subseteq Ids
      BY <1>1 DEF Pick
    <2> QED
      BY <1>1, <2>1, <2>2 DEF PriceGraph, Has, Is, Visible
  <1>11. OwnPrices(m)' = OwnPrices(m)
    <2>1. Components(m.of) \subseteq Ids
      BY DEF Components
    <2> QED
      BY <1>1, <1>4, <1>5, <1>9, <2>1 DEF OwnPrices, Has, Is
  <1>12. MemberFits(m, cut, at) => MemberFits(m, cut, at)'
    <2>1. Components(ids) \subseteq Ids
      BY <1>4 DEF Components
    <2> QED
      BY <1>1, <1>4, <1>5, <1>6, <1>8, <1>10, <1>11, <2>1 DEF MemberFits
  <1> QED
    BY <1>2, <1>3, <1>12

LEMMA SoundKept ==
    ASSUME Base, Grown, NEW r, Sound(r)
    PROVE  Sound(r)'
  <1>1. \A i \in Ids : revs'[i] = revs[i] /\ revs[i].uses \subseteq Ids
    BY DEF Base, AllSound, Sound, IsRevision, Grown
  <1>2. r.uses \subseteq Ids /\ Ids \subseteq Ids' /\ IsRevision(r)
    BY DEF Sound, IsRevision, Grown
  <1>3. IsRevision(r)'
    BY <1>2 DEF IsRevision
  <1>4. Within(r, r.uses)'
    BY <1>1, <1>2 DEF Sound, Within, Visible
  <1>5. SeriesFits(r)'
    BY <1>1, <1>2 DEF Sound, SeriesFits, Is
  <1>6. PriceFits(r)'
    <2>1. Pick(r.uses, "instrument")' = Pick(r.uses, "instrument")
      BY <1>2, PicksKept
    <2> QED
      BY <1>1, <1>2, <2>1 DEF Sound, PriceFits, Has, Is, Grown
  <1>7. AssessmentFits(r)'
    BY <1>1, <1>2 DEF Sound, AssessmentFits, EligibilityFits, Has, Is
  <1>8. MetricFits(r)'
    <2>1. Pick(r.uses, "instrument")' = Pick(r.uses, "instrument")
      BY <1>2, PicksKept
    <2> QED
      BY <1>1, <1>2, <2>1 DEF Sound, MetricFits, Has, Is
  <1>9. \A m \in r.members : m.of \subseteq Ids
    BY <1>2 DEF IsRevision, Members
  <1>10. ComparisonFits(r)'
    BY <1>9, MemberKept DEF Sound, ComparisonFits
  <1>11. SnapshotFits(r)'
    BY <1>9, MemberKept DEF Sound, SnapshotFits
  <1> QED
    BY <1>3, <1>4, <1>5, <1>6, <1>7, <1>8, <1>10, <1>11 DEF Sound
---------------------------------------------------------------------------
(* What the commands write is sound.                                       *)

(* The first form of a record, before its number.                          *)
Draft(r) == IsRevision(r) /\ r.no = 1 /\ SeriesFits(r) /\ PriceFits(r) /\ AssessmentFits(r)
            /\ MetricFits(r) /\ ComparisonFits(r) /\ SnapshotFits(r)

LEMMA RevisionFields ==
    ASSUME NEW kind, NEW name, NEW state, NEW stock, NEW uses, NEW members, NEW cut, NEW at, NEW r,
           r = Revision(kind, name, state, stock, uses, members, cut, at)
    PROVE  /\ r.kind = kind /\ r.name = name /\ r.no = 1 /\ r.state = state /\ r.stock = stock
           /\ r.uses = uses /\ r.members = members /\ r.cut = cut /\ r.at = at
           /\ DOMAIN r = {"kind", "name", "no", "state", "stock", "uses", "members", "cut", "at"}
  BY DEF Revision

LEMMA RevisionIsOne ==
    ASSUME NEW kind \in Kinds, NEW name, NEW state, NEW stock, NEW uses \in SUBSET Ids,
           NEW members \in SUBSET Members(uses), NEW at \in Times, NEW cut \in 1..at, NEW r,
           r = Revision(kind, name, state, stock, uses, members, cut, at)
    PROVE  IsRevision(r)
  <1>1. cut \in Times
    BY CandidateAssumption DEF CandidateAssumption, Times
  <1>2. at \in Nat /\ cut <= at
    BY DEF Times
  <1> QED
    BY <1>1, <1>2, RevisionFields DEF IsRevision

LEMMA PlainRevision ==
    ASSUME NEW kind \in Kinds, NEW name, NEW state, NEW stock, NEW uses, uses \subseteq Ids,
           NEW at \in Times, NEW cut \in 1..at, NEW r,
           r = Revision(kind, name, state, stock, uses, {}, cut, at)
    PROVE  /\ IsRevision(r)
           /\ r.kind = kind /\ r.no = 1 /\ r.state = state /\ r.uses = uses /\ r.cut = cut /\ r.at = at
  <1>1. {} \in SUBSET Members(uses) /\ uses \in SUBSET Ids
    OBVIOUS
  <1> QED
    BY <1>1, RevisionIsOne, RevisionFields

LEMMA CodesApart ==
    ASSUME NEW code \in Codes
    PROVE  /\ code \in Kinds /\ code \notin PriceKinds
           /\ code \notin {"research", "observation", "metric", "gap", "peers", "snapshot"}
           /\ code \notin {"series", "price", "context", "valuation", "instrument"}
  BY CandidateAssumption DEF CandidateAssumption, PriceKinds, OtherKinds, Kinds

LEMMA InstrumentDraft ==
    ASSUME NEW w \in Writers, NEW name, NEW symbol, NEW at \in Times, NEW cut \in 1..at,
           RecordListedInstrument(w, name, symbol, cut, at)
    PROVE  \E r : Check(w, r) /\ Draft(r)
  <1>1. PICK r : r = Revision("instrument", name, "listed", symbol, {}, {}, cut, at)
    OBVIOUS
  <1>2. "instrument" \in Kinds
    BY DEF Kinds, PriceKinds
  <1>3. IsRevision(r) /\ r.kind = "instrument" /\ r.no = 1
    BY <1>1, <1>2, PlainRevision
  <1> QED
    BY <1>1, <1>3 DEF RecordListedInstrument, Draft, SeriesFits, PriceFits, AssessmentFits, MetricFits,
                      ComparisonFits, SnapshotFits

LEMMA ResearchDraft ==
    ASSUME NEW w \in Writers, NEW company, NEW at \in Times, NEW cut \in 1..at,
           RecordResearch(w, company, cut, at)
    PROVE  \E r : Check(w, r) /\ Draft(r)
  <1>1. PICK r : r = Revision("research", company, "current", NoStock, {}, {}, cut, at)
    OBVIOUS
  <1>2. "research" \in Kinds
    BY DEF Kinds, OtherKinds
  <1>3. IsRevision(r) /\ r.kind = "research" /\ r.no = 1
    BY <1>1, <1>2, PlainRevision
  <1> QED
    BY <1>1, <1>3 DEF RecordResearch, Draft, SeriesFits, PriceFits, AssessmentFits, MetricFits,
                      ComparisonFits, SnapshotFits

LEMMA SeriesDraft ==
    ASSUME NEW w \in Writers, NEW name, NEW i \in Ids, NEW state, NEW at \in Times, NEW cut \in 1..at,
           RecordSeries(w, name, i, state, cut, at)
    PROVE  \E r : Check(w, r) /\ Draft(r)
  <1>1. PICK r : r = Revision("series", name, state, NoStock, {i}, {}, cut, at)
    OBVIOUS
  <1>2. "series" \in Kinds
    BY DEF Kinds, PriceKinds
  <1>3. IsRevision(r) /\ r.kind = "series" /\ r.no = 1 /\ r.uses = {i}
    BY <1>1, <1>2, PlainRevision
  <1>4. SeriesFits(r)
    BY <1>3 DEF RecordSeries, SeriesFits
  <1> QED
    BY <1>1, <1>3, <1>4 DEF RecordSeries, Draft, PriceFits, AssessmentFits, MetricFits,
                      ComparisonFits, SnapshotFits

LEMMA PriceDraft ==
    ASSUME Base, NEW w \in Writers, NEW s \in Ids, NEW state, NEW at \in Times, NEW cut \in 1..at,
           RecordPrice(w, s, state, cut, at)
    PROVE  \E r : Check(w, r) /\ Draft(r)
  <1>1. PICK uses : uses = {s} \cup revs[s].uses
    OBVIOUS
  <1>2. PICK r : r = Revision("price", revs[s].name, state, NoStock, uses, {}, cut, at)
    OBVIOUS
  <1>3. "price" \in Kinds
    BY DEF Kinds, PriceKinds
  <1>4. Has(s, "series", "accepted") /\ run.status = "succeeded" /\ run.cut <= cut /\ run.done <= at
        /\ Check(w, r)
    BY <1>1, <1>2 DEF RecordPrice
  <1>5. PICK i \in Ids : Is(i, "instrument") /\ revs[s].uses = {i}
    BY <1>4 DEF Base, AllSound, Sound, SeriesFits, Has, Is
  <1>6. uses \in SUBSET Ids
    BY <1>1, <1>5
  <1>7. IsRevision(r) /\ r.kind = "price" /\ r.no = 1 /\ r.uses = uses /\ r.cut = cut /\ r.at = at
    BY <1>2, <1>3, <1>6, PlainRevision
  <1>8. Pick(uses, "instrument") = {i}
    BY <1>1, <1>4, <1>5 DEF Pick, Is, Has
  <1>9. PriceFits(r)
    BY <1>1, <1>4, <1>7, <1>8 DEF PriceFits
  <1> QED
    BY <1>4, <1>7, <1>9 DEF Draft, SeriesFits, AssessmentFits, MetricFits, ComparisonFits, SnapshotFits

LEMMA AssessmentDraft ==
    ASSUME NEW w \in Writers, NEW purpose \in {"context", "valuation"}, NEW name, NEW state,
           NEW prices \in SUBSET Ids, NEW at \in Times, NEW cut \in 1..at,
           RecordEligibility(w, purpose, name, state, prices, cut, at)
    PROVE  \E r : Check(w, r) /\ Draft(r)
  <1>1. PICK r : r = Revision(purpose, name, state, NoStock, prices, {}, cut, at)
    OBVIOUS
  <1>2. purpose \in Kinds
    BY DEF Kinds, PriceKinds
  <1>3. IsRevision(r) /\ r.kind = purpose /\ r.no = 1 /\ r.uses = prices /\ r.state = state
    BY <1>1, <1>2, PlainRevision
  <1>4. AssessmentFits(r)
    BY <1>3 DEF RecordEligibility, AssessmentFits
  <1> QED
    BY <1>1, <1>3, <1>4 DEF RecordEligibility, Draft, SeriesFits, PriceFits, MetricFits,
                      ComparisonFits, SnapshotFits

LEMMA ObservationDraft ==
    ASSUME NEW w \in Writers, NEW name, NEW i \in Ids, NEW j \in Ids, NEW state,
           NEW at \in Times, NEW cut \in 1..at, RecordObservation(w, name, i, j, state, cut, at)
    PROVE  \E r : Check(w, r) /\ Draft(r)
  <1>1. PICK r : r = Revision("observation", name, state, NoStock, {i, j}, {}, cut, at)
    OBVIOUS
  <1>2. "observation" \in Kinds
    BY DEF Kinds, OtherKinds
  <1>3. IsRevision(r) /\ r.kind = "observation" /\ r.no = 1
    BY <1>1, <1>2, PlainRevision
  <1> QED
    BY <1>1, <1>3 DEF RecordObservation, Draft, SeriesFits, PriceFits, AssessmentFits, MetricFits,
                      ComparisonFits, SnapshotFits

LEMMA MetricDraft ==
    ASSUME Base, NEW w \in Writers, NEW name, NEW p \in Ids, NEW e \in Ids, NEW os \in SUBSET Ids, NEW state,
           NEW at \in Times, NEW cut \in 1..at, RecordMetric(w, name, p, e, os, state, cut, at)
    PROVE  \E r : Check(w, r) /\ Draft(r)
  <1>1. PICK uses : uses = {p, e} \cup os \cup Pick(revs[p].uses, "instrument")
    OBVIOUS
  <1>2. PICK r : r = Revision("metric", name, state, NoStock, uses, {}, cut, at)
    OBVIOUS
  <1>3. "metric" \in Kinds
    BY DEF Kinds, OtherKinds
  <1>4. /\ PricedBy(p, e) /\ ObservedFor(p, os) /\ (state = "calculated" => Calculable(p, e, os))
        /\ Check(w, r)
    BY <1>1, <1>2 DEF RecordMetric
  <1>5. uses \in SUBSET Ids
    BY <1>1 DEF Pick, Base, AllSound, Sound, IsRevision
  <1>6. IsRevision(r) /\ r.kind = "metric" /\ r.no = 1 /\ r.uses = uses /\ r.state = state
    BY <1>2, <1>3, <1>5, PlainRevision
  <1>7. Pick(uses, "instrument") \subseteq revs[p].uses
    <2>1. ~Is(p, "instrument") /\ ~Is(e, "instrument") /\ \A o \in os : ~Is(o, "instrument")
      BY <1>4 DEF PricedBy, ObservedFor, Is
    <2> QED
      BY <1>1, <2>1 DEF Pick
  <1>8. MetricFits(r)
    BY <1>1, <1>4, <1>6, <1>7 DEF MetricFits, PricedBy, Calculable
  <1> QED
    BY <1>4, <1>6, <1>8 DEF Draft, SeriesFits, PriceFits, AssessmentFits, ComparisonFits, SnapshotFits

LEMMA GapDraft ==
    ASSUME NEW w \in Writers, NEW name, NEW i \in Ids, NEW j \in Ids, NEW o \in Ids, NEW p \in Ids, NEW state,
           NEW at \in Times, NEW cut \in 1..at, RecordExpectationGap(w, name, i, j, o, p, state, cut, at)
    PROVE  \E r : Check(w, r) /\ Draft(r)
  <1>1. PICK r : r = Revision("gap", name, state, NoStock, {i, j, o, p}, {}, cut, at)
    OBVIOUS
  <1>2. "gap" \in Kinds
    BY DEF Kinds, OtherKinds
  <1>3. IsRevision(r) /\ r.kind = "gap" /\ r.no = 1
    BY <1>1, <1>2, PlainRevision
  <1> QED
    BY <1>1, <1>3 DEF RecordExpectationGap, Draft, SeriesFits, PriceFits, AssessmentFits, MetricFits,
                      ComparisonFits, SnapshotFits

LEMMA ComponentDraft ==
    ASSUME NEW w \in Writers, NEW code \in Codes, NEW i \in Ids, NEW inputs \in SUBSET Ids, NEW state,
           NEW at \in Times, NEW cut \in 1..at, RecordComponent(w, code, i, inputs, state, cut, at)
    PROVE  \E r : Check(w, r) /\ Draft(r)
  <1>1. PICK r : r = Revision(code, revs[i].name, state, NoStock, {i} \cup inputs, {}, cut, at)
    OBVIOUS
  <1>2. code \in Kinds /\ {i} \cup inputs \subseteq Ids
    BY CodesApart
  <1>3. IsRevision(r) /\ r.kind = code /\ r.no = 1
    BY <1>1, <1>2, PlainRevision
  <1>4. Check(w, r)
    BY <1>1 DEF RecordComponent
  <1> QED
    BY <1>3, <1>4, CodesApart
       DEF Draft, SeriesFits, PriceFits, AssessmentFits, MetricFits, ComparisonFits, SnapshotFits

LEMMA ComparisonDraft ==
    ASSUME Base, NEW w \in Writers, NEW subject, NEW companies \in SUBSET Companies, subject \in companies,
           NEW at \in Times, NEW cut \in 1..at, RecordComparison(w, subject, companies, cut, at)
    PROVE  \E r : Check(w, r) /\ Draft(r)
  <1>1. PICK peer \in OneEach(companies, UNION {Peers(c) : c \in companies}) :
            Check(w, Revision("peers", subject, ComparisonState(peer[subject], {peer[c] : c \in companies}), NoStock,
                              UNION {m.of : m \in {peer[c] : c \in companies}}, {peer[c] : c \in companies}, cut, at))
    BY DEF RecordComparison
  <1>2. PICK members, state : members = {peer[c] : c \in companies}
                              /\ state = ComparisonState(peer[subject], members)
    OBVIOUS
  <1>3. PICK uses : uses = UNION {m.of : m \in members}
    OBVIOUS
  <1>4. PICK r : r = Revision("peers", subject, state, NoStock, uses, members, cut, at)
    OBVIOUS
  <1>5. Check(w, r)
    BY <1>1, <1>2, <1>3, <1>4
  <1>6. \A c \in companies : peer[c].company = c /\ \E d \in companies : peer[c] \in Peers(d)
    BY DEF OneEach
  <1>7. ASSUME NEW m \in members
        PROVE  m.company \in Companies /\ m.of \subseteq Ids /\ PeerFits(m)
               /\ m = [company |-> m.company, of |-> m.of, chosen |-> m.chosen] /\ m.chosen \in BOOLEAN
    <2>1. PICK c \in companies : m = peer[c] /\ m.company = c
      BY <1>2, <1>6
    <2>2. PICK d \in companies : m \in Peers(d)
      BY <1>6, <2>1
    <2>3. PICK i \in Revisions("research", d), j \in Pick(Ids, "instrument"), k \in Optional(Pick(Ids, "metric")), b \in BOOLEAN :
              m = [company |-> d, of |-> {i, j} \cup k, chosen |-> b] /\ PeerFits(m)
      BY <2>2 DEF Peers, Rows
    <2>4. {i, j} \cup k \subseteq Ids
      BY DEF Revisions, Pick, Optional
    <2> QED
      BY <2>1, <2>3, <2>4
  <1>8. uses \in SUBSET Ids /\ \A m \in members : m.of \in SUBSET uses
    BY <1>3, <1>7
  <1>9. members \in SUBSET Members(uses)
    BY <1>7, <1>8 DEF Members
  <1>10. "peers" \in Kinds
    BY DEF Kinds, OtherKinds
  <1>11. IsRevision(r)
    BY <1>4, <1>8, <1>9, <1>10, RevisionIsOne
  <1>12. r.kind = "peers" /\ r.no = 1 /\ r.members = members
    BY <1>4, RevisionFields
  <1>13. \A m, n \in members : m.company = n.company => m = n
    BY <1>2, <1>6
  <1>14. ComparisonFits(r)
    BY <1>7, <1>12, <1>13 DEF ComparisonFits
  <1> QED
    BY <1>5, <1>11, <1>12, <1>14 DEF Draft, SeriesFits, PriceFits, AssessmentFits, MetricFits, SnapshotFits

LEMMA SnapshotDraft ==
    ASSUME Base, NEW w \in Writers, NEW name, NEW at \in Times, NEW cut \in 1..at, RecordSnapshot(w, name, cut, at)
    PROVE  \E r : Check(w, r) /\ Draft(r)
  <1>1. PICK member \in OneEach(Companies, UNION {Candidates(c, cut, at) : c \in Companies}) :
            Check(w, Revision("snapshot", name, "recorded", NoStock, UNION {member[c].of : c \in Companies},
                              {member[c] : c \in Companies}, cut, at))
    BY DEF RecordSnapshot
  <1>2. PICK members : members = {member[c] : c \in Companies}
    OBVIOUS
  <1>3. PICK uses : uses = UNION {member[c].of : c \in Companies}
    OBVIOUS
  <1>4. PICK r : r = Revision("snapshot", name, "recorded", NoStock, uses, members, cut, at)
    OBVIOUS
  <1>5. Check(w, r)
    BY <1>1, <1>2, <1>3, <1>4
  <1>6. ASSUME NEW c \in Companies
        PROVE  /\ member[c].company = c /\ member[c].of \subseteq Ids /\ member[c].chosen \in BOOLEAN
               /\ member[c] = [company |-> c, of |-> member[c].of, chosen |-> member[c].chosen]
               /\ MemberFits(member[c], cut, at) /\ (member[c].chosen => Rankable(member[c]))
    <2>1. PICK m : m = member[c]
      OBVIOUS
    <2>2. m.company = c /\ \E d \in Companies : m \in Candidates(d, cut, at)
      BY <2>1 DEF OneEach
    <2>3. PICK d \in Companies : m \in Candidates(d, cut, at)
      BY <2>2
    <2> DEFINE researches == Optional(Revisions("research", d))
               codes == SUBSET {i \in Components(Ids) : revs[i].name = d}
               pairs == {{}} \cup {{p, e} : p \in Pick(Ids, "price"), e \in Pick(Ids, "context")}
               ofs == {re \cup cs \cup pe : re \in researches, cs \in codes, pe \in pairs}
    <2>4. PICK of \in ofs, b \in BOOLEAN : /\ m = [company |-> d, of |-> of, chosen |-> b]
                                          /\ MemberFits(m, cut, at) /\ (m.chosen => Rankable(m))
      <3>1. m \in Rows(d, ofs) /\ MemberFits(m, cut, at) /\ (m.chosen => Rankable(m))
        BY <2>3 DEF Candidates
      <3> HIDE DEF ofs
      <3> QED
        BY <3>1 DEF Rows
    <2>5. of \subseteq Ids
      <3>1. \A re \in researches : re \subseteq Ids
        BY DEF Optional, Revisions
      <3>2. \A cs \in codes : cs \subseteq Ids
        BY DEF Components
      <3>3. \A pe \in pairs : pe \subseteq Ids
        BY DEF Pick
      <3> HIDE DEF researches, codes, pairs
      <3> QED
        BY <3>1, <3>2, <3>3
    <2> QED
      BY <2>1, <2>2, <2>4, <2>5
  <1>7. uses \in SUBSET Ids /\ \A m \in members : m.of \in SUBSET uses
    <2>1. \A c \in Companies : member[c].of \subseteq Ids
      BY <1>6
    <2>2. \A c \in Companies : member[c].of \in SUBSET uses
      BY <1>3
    <2> QED
      BY <1>2, <1>3, <2>1, <2>2
  <1>8. \A m \in members : /\ m.company \in Companies /\ m.chosen \in BOOLEAN
                           /\ m = [company |-> m.company, of |-> m.of, chosen |-> m.chosen]
                           /\ MemberFits(m, cut, at) /\ (m.chosen => Rankable(m))
    <2> SUFFICES ASSUME NEW m \in members
                 PROVE  /\ m.company \in Companies /\ m.chosen \in BOOLEAN
                        /\ m = [company |-> m.company, of |-> m.of, chosen |-> m.chosen]
                        /\ MemberFits(m, cut, at) /\ (m.chosen => Rankable(m))
      OBVIOUS
    <2>1. PICK c \in Companies : m = member[c]
      BY <1>2
    <2> QED
      BY <1>6, <2>1
  <1>9. members \in SUBSET Members(uses)
    BY <1>7, <1>8 DEF Members
  <1>10. "snapshot" \in Kinds
    BY DEF Kinds, OtherKinds
  <1>11. IsRevision(r)
    BY <1>4, <1>7, <1>9, <1>10, RevisionIsOne
  <1>12. r.kind = "snapshot" /\ r.no = 1 /\ r.members = members /\ r.cut = cut /\ r.at = at
    BY <1>4, RevisionFields
  <1>13. SnapshotFits(r)
    BY <1>8, <1>12 DEF SnapshotFits
  <1> QED
    BY <1>5, <1>11, <1>12, <1>13 DEF Draft, SeriesFits, PriceFits, AssessmentFits, MetricFits, ComparisonFits

LEMMA Drafts ==
    ASSUME Base, NEW w \in Writers, NEW at \in Times, NEW cut \in 1..at,
           CheckPrices(w, cut, at) \/ CheckValuations(w, cut, at) \/ CheckCandidates(w, cut, at)
    PROVE  \E r : Check(w, r) /\ Draft(r)
  <1>1. \A kind : Pick(Ids, kind) \subseteq Ids /\ PricePair(Ids) \subseteq Ids
    BY DEF Pick, PricePair
  <1>2. CASE CheckPrices(w, cut, at)
    BY <1>1, <1>2, InstrumentDraft, SeriesDraft, PriceDraft, AssessmentDraft DEF CheckPrices
  <1>3. CASE CheckValuations(w, cut, at)
    BY <1>1, <1>3, ObservationDraft, MetricDraft, GapDraft, ComparisonDraft DEF CheckValuations
  <1>4. CASE CheckCandidates(w, cut, at)
    BY <1>1, <1>4, ResearchDraft, ComponentDraft, SnapshotDraft DEF CheckCandidates
  <1> QED
    BY <1>2, <1>3, <1>4

LEMMA NumberedIsSound ==
    ASSUME NEW r, Draft(r), Within(r, r.uses), NEW n \in Nat \ {0}, NEW s, s = [r EXCEPT !.no = n]
    PROVE  /\ Sound(s) /\ s.no = n /\ s.kind = r.kind /\ s.name = r.name /\ s.cut = r.cut /\ s.at = r.at
           /\ s.uses = r.uses /\ s.members = r.members
  <1>1. /\ s.no = n /\ s.kind = r.kind /\ s.name = r.name /\ s.cut = r.cut /\ s.at = r.at
        /\ s.uses = r.uses /\ s.members = r.members /\ s.state = r.state /\ s.stock = r.stock
        /\ DOMAIN s = {"kind", "name", "no", "state", "stock", "uses", "members", "cut", "at"}
    BY DEF Draft, IsRevision
  <1>2. IsRevision(s)
    BY <1>1 DEF Draft, IsRevision
  <1>3. Within(s, s.uses)
    BY <1>1 DEF Within
  <1>4. SeriesFits(s) /\ PriceFits(s)
    BY <1>1 DEF Draft, SeriesFits, PriceFits
  <1>5. AssessmentFits(s) /\ MetricFits(s)
    BY <1>1 DEF Draft, AssessmentFits, MetricFits
  <1>6. ComparisonFits(s) /\ SnapshotFits(s)
    BY <1>1 DEF Draft, ComparisonFits, SnapshotFits
  <1> QED
    BY <1>1, <1>2, <1>3, <1>4, <1>5, <1>6 DEF Sound

(* What a passed check leaves in the hands of its command.                 *)
LEMMA Prepared ==
    ASSUME Base, NEW w \in Writers, NEW r, Check(w, r), Draft(r)
    PROVE  \E s : /\ writer' = [writer EXCEPT ![w] = s] /\ Sound(s)
                  /\ s.kind = r.kind /\ s.name = r.name
                  /\ \/ s.no = 1 /\ Revisions(s.kind, s.name) = {}
                     \/ s.no # 1 /\ FollowsNewest(s) /\ ~Held(s.kind, s.name)
  <1>1. Within(r, r.uses)
    BY DEF Check
  <1>2. CASE Revisions(r.kind, r.name) = {} /\ writer' = [writer EXCEPT ![w] = r]
    BY <1>1, <1>2 DEF Draft, Sound
  <1>3. CASE \E i \in Revisions(r.kind, r.name) :
                 /\ IsNewest(i, Revisions(r.kind, r.name)) /\ ~Held(r.kind, r.name) /\ Follows(r, i)
                 /\ writer' = [writer EXCEPT ![w] = [r EXCEPT !.no = revs[i].no + 1]]
    <2>1. PICK i \in Revisions(r.kind, r.name) :
                 /\ IsNewest(i, Revisions(r.kind, r.name)) /\ ~Held(r.kind, r.name) /\ Follows(r, i)
                 /\ writer' = [writer EXCEPT ![w] = [r EXCEPT !.no = revs[i].no + 1]]
      BY <1>3
    <2>2. revs[i].no \in Nat \ {0}
      BY DEF Base, AllSound, Sound, IsRevision, Revisions
    <2>3. PICK s : s = [r EXCEPT !.no = revs[i].no + 1]
      OBVIOUS
    <2>4. /\ Sound(s) /\ s.no = revs[i].no + 1 /\ s.kind = r.kind /\ s.name = r.name /\ s.cut = r.cut
          /\ s.at = r.at /\ s.uses = r.uses /\ s.members = r.members
      BY <1>1, <2>2, <2>3, NumberedIsSound
    <2>5. Bound(s) = Bound(r)
      BY <2>4 DEF Bound, Binding
    <2>6. Follows(s, i)
      BY <2>1, <2>4, <2>5 DEF Follows
    <2>7. FollowsNewest(s)
      BY <2>1, <2>4, <2>6 DEF FollowsNewest
    <2>8. s.no # 1 /\ writer' = [writer EXCEPT ![w] = s] /\ ~Held(s.kind, s.name)
      BY <2>1, <2>2, <2>3, <2>4
    <2> QED
      BY <2>4, <2>7, <2>8
  <1> QED
    BY <1>2, <1>3 DEF Check

LEMMA BaseStep ==
    ASSUME Base, [Next]_vars
    PROVE  Base'
  <1>1. Grown /\ Shape'
    BY StoreGrows DEF Base
  <1>2. \A i \in Ids : Sound(revs[i])'
    <2> SUFFICES ASSUME NEW i \in Ids
                 PROVE  Sound(revs[i])'
      OBVIOUS
    <2>1. PICK r : r = revs[i]
      OBVIOUS
    <2>2. Sound(r)'
      BY <1>1, <2>1, SoundKept DEF Base, AllSound
    <2> QED
      BY <1>1, <2>1, <2>2 DEF Grown
  <1>3. ASSUME NEW v \in Writers, writer[v] # Idle, writer'[v] = writer[v]
        PROVE  Sound(writer[v])'
    <2>1. PICK r : r = writer[v]
      OBVIOUS
    <2>2. Sound(r)'
      BY <1>1, <1>3, <2>1, SoundKept DEF Base, AllSound
    <2> QED
      BY <1>3, <2>1, <2>2
  <1>4. ASSUME Ids' = Ids, writer' = writer
        PROVE  AllSound'
    BY <1>1, <1>2, <1>3, <1>4 DEF AllSound, Grown
  <1>5. ASSUME NEW w \in Writers, NEW r, Check(w, r), Draft(r)
        PROVE  AllSound'
    <2>1. PICK s : writer' = [writer EXCEPT ![w] = s] /\ Sound(s)
      BY <1>5, Prepared
    <2>2. Sound(s)'
      BY <1>1, <2>1, SoundKept
    <2>3. writer'[w] = s /\ \A v \in Writers \ {w} : writer'[v] = writer[v]
      BY <2>1 DEF Base, Shape
    <2>4. Ids' = Ids
      BY <1>5 DEF Check, Ids
    <2> QED
      BY <1>1, <1>2, <1>3, <2>2, <2>3, <2>4 DEF AllSound, Grown
  <1>6. ASSUME NEW w \in Writers, Insert(w)
        PROVE  AllSound'
    <2>1. PICK r : r = writer[w] /\ r # Idle
      BY <1>6 DEF Insert
    <2>2. Sound(r)'
      BY <1>1, <2>1, SoundKept DEF Base, AllSound
    <2>3. PICK n \in Nat : n = Len(revs) /\ Ids = 1..n /\ Ids' = 1..(n + 1) /\ revs'[n + 1] = r
      BY <1>6, <2>1, Appended DEF Base
    <2>4. \A i \in Ids' : i \in Ids \/ i = n + 1
      BY <2>3
    <2>5. \A i \in Ids' : Sound(revs[i])'
      BY <1>1, <1>2, <2>2, <2>3, <2>4 DEF Grown
    <2>6. writer'[w] = Idle /\ \A v \in Writers \ {w} : writer'[v] = writer[v]
      BY <1>6 DEF Insert, Base, Shape
    <2> QED
      BY <1>3, <2>5, <2>6 DEF AllSound
  <1>7. ASSUME NEW w \in Writers, Conflict(w) \/ Abandon(w)
        PROVE  AllSound'
    <2>1. writer'[w] = Idle /\ \A v \in Writers \ {w} : writer'[v] = writer[v]
      BY <1>7 DEF Conflict, Abandon, Base, Shape
    <2>2. Ids' = Ids
      BY <1>7 DEF Conflict, Abandon, Ids
    <2> QED
      BY <1>1, <1>2, <1>3, <2>1, <2>2 DEF AllSound, Grown
  <1>8. ASSUME RunMarkedFailed \/ UNCHANGED vars
               \/ \E s \in {"succeeded", "failed"}, cut, done \in Times : RunSettles(s, cut, done)
        PROVE  AllSound'
    BY <1>4, <1>8 DEF RunMarkedFailed, RunSettles, vars, Ids
  <1> QED
    BY <1>1, <1>5, <1>6, <1>7, <1>8, StoreSteps, Drafts DEF Base
---------------------------------------------------------------------------
(* Chains.                                                                 *)

LEMMA BoundKept ==
    ASSUME Base, Grown, NEW r, IsRevision(r)
    PROVE  Bound(r)' = Bound(r)
  <1>1. Binding(r) \subseteq Ids
    <2>1. r.uses \subseteq Ids /\ \A m \in r.members : m.of \subseteq r.uses
      BY DEF IsRevision, Members
    <2> QED
      BY <2>1 DEF Binding
  <1>2. \A i \in Ids : revs'[i] = revs[i]
    BY DEF Grown
  <1>3. PICK used : used = Binding(r)
    OBVIOUS
  <1>4. {i \in used : revs'[i].kind \in Fixed(r.kind)} = {i \in used : revs[i].kind \in Fixed(r.kind)}
    BY <1>1, <1>2, <1>3
  <1>5. Bound(r) = {<<revs[i].kind, revs[i].name>> : i \in {j \in used : revs[j].kind \in Fixed(r.kind)}}
    BY <1>3 DEF Bound
  <1>6. Bound(r)' = {<<revs'[i].kind, revs'[i].name>> : i \in {j \in used : revs'[j].kind \in Fixed(r.kind)}}
    BY <1>3 DEF Bound, Binding
  <1> QED
    BY <1>1, <1>2, <1>3, <1>4, <1>5, <1>6

LEMMA RevisionTypes ==
    ASSUME Base, NEW i \in Ids
    PROVE  /\ revs[i].no \in Nat \ {0} /\ revs[i].cut \in Nat /\ revs[i].at \in Nat /\ IsRevision(revs[i])
           /\ revs[i].kind \in Kinds
  BY DEF Base, AllSound, Sound, IsRevision, Times

LEMMA NewestKept ==
    ASSUME Base, Grown, NEW r, IsRevision(r), FollowsNewest(r),
           Revisions(r.kind, r.name)' = Revisions(r.kind, r.name)
    PROVE  FollowsNewest(r)'
  <1>1. PICK i \in Revisions(r.kind, r.name) :
            IsNewest(i, Revisions(r.kind, r.name)) /\ r.no = revs[i].no + 1 /\ Follows(r, i)
    BY DEF FollowsNewest
  <1>2. i \in Ids /\ \A j \in Revisions(r.kind, r.name) : j \in Ids /\ revs'[j] = revs[j]
    BY DEF Revisions, Grown
  <1>3. PICK s : s = revs[i]
    OBVIOUS
  <1>4. revs'[i] = s /\ Bound(s)' = Bound(s) /\ Bound(r)' = Bound(r)
    BY <1>1, <1>2, <1>3, BoundKept, RevisionTypes
  <1>5. Follows(r, i)'
    BY <1>1, <1>3, <1>4 DEF Follows
  <1>6. IsNewest(i, Revisions(r.kind, r.name))'
    BY <1>1, <1>2 DEF IsNewest
  <1> QED
    BY <1>1, <1>2, <1>5, <1>6 DEF FollowsNewest

(* What an insert adds, and that it comes last in its chain.               *)
LEMMA Inserted ==
    ASSUME Inv, NEW w \in Writers, Insert(w), NEW r, r = writer[w]
    PROVE  /\ Sound(r) /\ Len(revs) \in Nat /\ Ids = 1..Len(revs) /\ Ids' = 1..(Len(revs) + 1)
           /\ revs'[Len(revs) + 1] = r
           /\ \A i \in Ids : revs'[i] = revs[i]
           /\ \/ r.no = 1 /\ Revisions(r.kind, r.name) = {}
              \/ r.no # 1 /\ FollowsNewest(r)
           /\ \A v \in Writers \ {w} : Later(v) => writer[v].kind # r.kind \/ writer[v].name # r.name
  <1>1. r # Idle /\ ~Taken(r)
    BY DEF Insert
  <1>2. Sound(r)
    BY <1>1 DEF Inv, Base, AllSound
  <1>3. r.no = 1 => Revisions(r.kind, r.name) = {}
    <2> SUFFICES ASSUME r.no = 1, NEW j \in Revisions(r.kind, r.name)
                 PROVE  FALSE
      OBVIOUS
    <2>1. j \in Ids /\ revs[j].kind = r.kind /\ revs[j].name = r.name
      BY DEF Revisions, Named, Is
    <2>2. PICK i \in Ids : Named(i, r.kind, r.name) /\ revs[i].no = 1
      BY <2>1 DEF Inv, Begun
    <2> QED
      BY <1>1, <2>2 DEF Taken, Revisions
  <1>4. r.no # 1 => FollowsNewest(r)
    BY <1>1 DEF Inv, Queued, Later
  <1>5. ASSUME NEW v \in Writers \ {w}, Later(v), writer[v].kind = r.kind, writer[v].name = r.name
        PROVE  FALSE
    <2>1. FollowsNewest(writer[v])
      BY <1>5 DEF Inv, Queued
    <2>2. Revisions(r.kind, r.name) # {}
      BY <1>5, <2>1 DEF FollowsNewest
    <2>3. r.no # 1
      BY <1>3, <2>2
    <2> QED
      BY <1>1, <1>5, <2>3 DEF Inv, OneQueued, Later
  <1> QED
    BY <1>2, <1>3, <1>4, <1>5, Appended DEF Inv, Base

LEMMA ChainStep ==
    ASSUME Inv, NEW w \in Writers, Insert(w), [Next]_vars
    PROVE  ChainsAreLinear'
  <1>1. PICK r : r = writer[w]
    OBVIOUS
  <1>2. PICK n \in Nat : n = Len(revs)
    BY Appended DEF Inv, Base
  <1>3. /\ Sound(r) /\ Ids = 1..n /\ Ids' = 1..(n + 1) /\ revs'[n + 1] = r
        /\ \A i \in Ids : revs'[i] = revs[i]
        /\ \/ r.no = 1 /\ Revisions(r.kind, r.name) = {}
           \/ r.no # 1 /\ FollowsNewest(r)
    BY <1>1, <1>2, Inserted
  <1>4. Grown
    BY StoreGrows DEF Inv, Base
  <1>5. \A i \in Ids : Bound(revs[i])' = Bound(revs[i])
    <2> SUFFICES ASSUME NEW i \in Ids
                 PROVE  Bound(revs[i])' = Bound(revs[i])
      OBVIOUS
    <2>1. PICK s : s = revs[i]
      OBVIOUS
    <2>2. Bound(s)' = Bound(s)
      BY <1>4, <2>1, BoundKept, RevisionTypes DEF Inv
    <2> QED
      BY <1>3, <2>1, <2>2
  <1>6. Bound(r)' = Bound(r)
    BY <1>3, <1>4, BoundKept DEF Inv, Sound
  <1>7. ASSUME NEW j \in Ids
        PROVE  /\ revs'[j].no = 1 \/ \E i \in Ids' : Named(i, revs[j].kind, revs[j].name)'
                                                     /\ revs'[i].no = revs'[j].no - 1
               /\ \A i \in Ids' : Named(i, revs[j].kind, revs[j].name)' /\ i < j =>
                      /\ revs'[i].no < revs'[j].no
                      /\ revs'[i].cut <= revs'[j].cut /\ revs'[i].at <= revs'[j].at
                      /\ revs'[j].kind \notin PriceKinds => revs'[i].at < revs'[j].at
                      /\ Bound(revs[i])' = Bound(revs[j])'
    <2>1. j \in 1..n /\ \A i \in Ids' : i < j => i \in Ids
      BY <1>3
    <2>2. Ids \subseteq Ids'
      BY <1>4 DEF Grown
    <2>3. /\ revs[j].no = 1 \/ \E i \in Ids : Named(i, revs[j].kind, revs[j].name) /\ revs[i].no = revs[j].no - 1
          /\ \A i \in Ids : Named(i, revs[j].kind, revs[j].name) /\ i < j =>
                 /\ revs[i].no < revs[j].no
                 /\ revs[i].cut <= revs[j].cut /\ revs[i].at <= revs[j].at
                 /\ revs[j].kind \notin PriceKinds => revs[i].at < revs[j].at
                 /\ Bound(revs[i]) = Bound(revs[j])
      BY DEF Inv, ChainsAreLinear
    <2>4. revs'[j] = revs[j] /\ \A i \in Ids : /\ revs'[i] = revs[i]
                                               /\ Named(i, revs[j].kind, revs[j].name)' <=> Named(i, revs[j].kind, revs[j].name)
      BY <1>3 DEF Named, Is
    <2>5. revs'[j].no = 1 \/ \E i \in Ids' : Named(i, revs[j].kind, revs[j].name)' /\ revs'[i].no = revs'[j].no - 1
      BY <2>2, <2>3, <2>4
    <2>6. ASSUME NEW i \in Ids', Named(i, revs[j].kind, revs[j].name)', i < j
          PROVE  /\ revs'[i].no < revs'[j].no
                 /\ revs'[i].cut <= revs'[j].cut /\ revs'[i].at <= revs'[j].at
                 /\ revs'[j].kind \notin PriceKinds => revs'[i].at < revs'[j].at
                 /\ Bound(revs[i])' = Bound(revs[j])'
      <3>1. i \in Ids
        BY <2>1, <2>6
      <3>2. Bound(revs[i])' = Bound(revs[i]) /\ Bound(revs[j])' = Bound(revs[j])
        BY <1>5, <3>1
      <3> QED
        BY <2>3, <2>4, <2>6, <3>1, <3>2
    <2> QED
      BY <2>5, <2>6
  <1>8. ASSUME NEW i \in Ids, Named(i, r.kind, r.name)
        PROVE  /\ r.no # 1 /\ revs[i].no < r.no
               /\ revs[i].cut <= r.cut /\ revs[i].at <= r.at
               /\ r.kind \notin PriceKinds => revs[i].at < r.at
               /\ Bound(revs[i]) = Bound(r)
    <2>1. i \in Revisions(r.kind, r.name)
      BY <1>8 DEF Revisions
    <2>2. PICK k \in Revisions(r.kind, r.name) :
              IsNewest(k, Revisions(r.kind, r.name)) /\ r.no = revs[k].no + 1 /\ Follows(r, k)
      BY <1>3, <2>1 DEF FollowsNewest
    <2>3. /\ revs[i].no \in Nat \ {0} /\ revs[i].cut \in Nat /\ revs[i].at \in Nat
          /\ revs[k].no \in Nat \ {0} /\ revs[k].cut \in Nat /\ revs[k].at \in Nat /\ k \in Ids
          /\ r.cut \in Nat /\ r.at \in Nat /\ k \in Nat /\ i \in Nat
      BY <1>3, RevisionTypes DEF Inv, Revisions, Sound, IsRevision, Times
    <2>4. revs[i].no <= revs[k].no
      BY <2>1, <2>2 DEF IsNewest
    <2>5. revs[k].cut <= r.cut /\ revs[k].at <= r.at /\ (r.kind \notin PriceKinds => revs[k].at < r.at)
          /\ Bound(revs[k]) = Bound(r)
      BY <2>2, <2>3 DEF Follows
    <2>6. revs[i].kind = r.kind /\ revs[i].name = r.name /\ Named(k, r.kind, r.name) /\ revs[k].kind = r.kind
          /\ revs[k].name = r.name
      BY <1>8 DEF Named, Is, Revisions
    <2>7. ~(k < i)
      BY <2>3, <2>4, <2>6 DEF Inv, ChainsAreLinear
    <2>8. i < k => revs[i].cut <= revs[k].cut /\ revs[i].at <= revs[k].at /\ Bound(revs[i]) = Bound(revs[k])
      BY <1>8, <2>3, <2>6 DEF Inv, ChainsAreLinear
    <2>9. i = k \/ i < k
      BY <2>3, <2>7
    <2> QED
      BY <2>2, <2>3, <2>4, <2>5, <2>8, <2>9
  <1>9. r.no = 1 \/ \E i \in Ids : Named(i, r.kind, r.name) /\ revs[i].no = r.no - 1
    <2>1. CASE r.no # 1
      <3>1. PICK k \in Revisions(r.kind, r.name) : r.no = revs[k].no + 1
        BY <1>3, <2>1 DEF FollowsNewest
      <3>2. k \in Ids /\ Named(k, r.kind, r.name) /\ revs[k].no \in Nat
        BY RevisionTypes DEF Inv, Revisions
      <3> QED
        BY <3>1, <3>2
    <2> QED
      BY <2>1
  <1>10. ASSUME NEW j \in Ids', j \notin Ids
         PROVE  /\ revs'[j].no = 1 \/ \E i \in Ids' : Named(i, revs[j].kind, revs[j].name)'
                                                      /\ revs'[i].no = revs'[j].no - 1
                /\ \A i \in Ids' : Named(i, revs[j].kind, revs[j].name)' /\ i < j =>
                       /\ revs'[i].no < revs'[j].no
                       /\ revs'[i].cut <= revs'[j].cut /\ revs'[i].at <= revs'[j].at
                       /\ revs'[j].kind \notin PriceKinds => revs'[i].at < revs'[j].at
                       /\ Bound(revs[i])' = Bound(revs[j])'
    <2>1. j = n + 1 /\ revs'[j] = r /\ Ids \subseteq Ids' /\ \A i \in Ids' : i < j => i \in Ids
      BY <1>3, <1>4, <1>10 DEF Grown
    <2>2. \A i \in Ids : revs'[i] = revs[i]
                         /\ (Named(i, revs[j].kind, revs[j].name)' <=> Named(i, r.kind, r.name))
      BY <1>3, <2>1 DEF Named, Is
    <2>3. Bound(revs[j])' = Bound(r)
      BY <1>6, <2>1
    <2>4. revs'[j].no = 1 \/ \E i \in Ids' : Named(i, revs[j].kind, revs[j].name)' /\ revs'[i].no = revs'[j].no - 1
      BY <1>9, <2>1, <2>2
    <2>5. ASSUME NEW i \in Ids', Named(i, revs[j].kind, revs[j].name)', i < j
          PROVE  /\ revs'[i].no < revs'[j].no
                 /\ revs'[i].cut <= revs'[j].cut /\ revs'[i].at <= revs'[j].at
                 /\ revs'[j].kind \notin PriceKinds => revs'[i].at < revs'[j].at
                 /\ Bound(revs[i])' = Bound(revs[j])'
      <3>1. i \in Ids /\ Named(i, r.kind, r.name)
        BY <2>1, <2>2, <2>5
      <3>2. Bound(revs[i])' = Bound(revs[i])
        BY <1>5, <3>1
      <3> QED
        BY <1>8, <2>1, <2>2, <2>3, <3>1, <3>2
    <2> QED
      BY <2>4, <2>5
  <1> QED
    BY <1>7, <1>10 DEF ChainsAreLinear

LEMMA QueueStep ==
    ASSUME Inv, NEW w \in Writers, Insert(w), [Next]_vars
    PROVE  Begun' /\ Queued' /\ OneQueued'
  <1>1. PICK r : r = writer[w]
    OBVIOUS
  <1>2. PICK n \in Nat : n = Len(revs)
    BY Appended DEF Inv, Base
  <1>3. /\ Sound(r) /\ Ids = 1..n /\ Ids' = 1..(n + 1) /\ revs'[n + 1] = r
        /\ \A i \in Ids : revs'[i] = revs[i]
        /\ \/ r.no = 1 /\ Revisions(r.kind, r.name) = {}
           \/ r.no # 1 /\ FollowsNewest(r)
        /\ \A v \in Writers \ {w} : Later(v) => writer[v].kind # r.kind \/ writer[v].name # r.name
    BY <1>1, <1>2, Inserted
  <1>4. Grown
    BY StoreGrows DEF Inv, Base
  <1>5. writer'[w] = Idle /\ \A v \in Writers \ {w} : writer'[v] = writer[v]
    BY DEF Insert, Inv, Base, Shape
  <1>6. \A i \in Ids' : i \in Ids \/ i = n + 1
    BY <1>3
  <1>7. Begun'
    <2> SUFFICES ASSUME NEW j \in Ids'
                 PROVE  \E i \in Ids' : Named(i, revs[j].kind, revs[j].name)' /\ revs'[i].no = 1
      BY DEF Begun
    <2>1. CASE j \in Ids
      <3>1. PICK i \in Ids : Named(i, revs[j].kind, revs[j].name) /\ revs[i].no = 1
        BY <2>1 DEF Inv, Begun
      <3> QED
        BY <1>3, <1>4, <2>1, <3>1 DEF Grown, Named, Is
    <2>2. CASE j = n + 1 /\ r.no = 1
      BY <1>3, <2>2 DEF Named, Is
    <2>3. CASE j = n + 1 /\ r.no # 1
      <3>1. PICK k \in Ids : revs[k].kind = r.kind /\ revs[k].name = r.name
        BY <1>3, <2>3 DEF FollowsNewest, Revisions, Named, Is
      <3>2. PICK i \in Ids : Named(i, revs[k].kind, revs[k].name) /\ revs[i].no = 1
        BY DEF Inv, Begun
      <3> QED
        BY <1>3, <1>4, <2>3, <3>1, <3>2 DEF Grown, Named, Is
    <2> QED
      BY <1>6, <2>1, <2>2, <2>3
  <1>8. Queued'
    <2> SUFFICES ASSUME NEW v \in Writers, Later(v)'
                 PROVE  FollowsNewest(writer[v])'
      BY DEF Queued
    <2>1. v # w /\ writer'[v] = writer[v] /\ Later(v)
      BY <1>5 DEF Later
    <2>2. PICK s : s = writer[v]
      OBVIOUS
    <2>3. FollowsNewest(s) /\ IsRevision(s) /\ (s.kind # r.kind \/ s.name # r.name)
      BY <1>3, <2>1, <2>2 DEF Inv, Queued, Later, Base, AllSound, Sound
    <2>4. Revisions(s.kind, s.name)' = Revisions(s.kind, s.name)
      BY <1>3, <1>4, <1>6, <2>3 DEF Revisions, Named, Is, Grown
    <2>5. FollowsNewest(s)'
      BY <1>4, <2>3, <2>4, NewestKept DEF Inv
    <2> QED
      BY <2>1, <2>2, <2>5
  <1>9. OneQueued'
    BY <1>5 DEF Inv, OneQueued, Later
  <1> QED
    BY <1>7, <1>8, <1>9

(* A step that inserts nothing.                                            *)
LEMMA StoreStays ==
    ASSUME Inv, revs' = revs
    PROVE  /\ Begun' /\ ChainsAreLinear'
           /\ \A r : FollowsNewest(r) => FollowsNewest(r)'
  <1>1. Ids' = Ids
    BY DEF Ids
  <1>2. \A i, kind, name : Named(i, kind, name)' <=> Named(i, kind, name)
    BY DEF Named, Is
  <1>3. \A r : Bound(r)' = Bound(r)
    BY DEF Bound, Binding
  <1>4. \A i : Bound(revs[i])' = Bound(revs[i])
    <2> SUFFICES ASSUME NEW i
                 PROVE  Bound(revs[i])' = Bound(revs[i])
      OBVIOUS
    <2>1. PICK r : r = revs[i]
      OBVIOUS
    <2> QED
      BY <1>3, <2>1
  <1>5. Begun'
    <2> SUFFICES ASSUME NEW j \in Ids
                 PROVE  (\E i \in Ids : Named(i, revs[j].kind, revs[j].name) /\ revs[i].no = 1)'
      BY <1>1 DEF Begun
    <2>1. PICK i \in Ids : Named(i, revs[j].kind, revs[j].name) /\ revs[i].no = 1
      BY DEF Inv, Begun
    <2> QED
      BY <1>1, <2>1 DEF Named, Is
  <1>6. ChainsAreLinear'
    <2>1. ASSUME NEW j \in Ids
          PROVE  (revs[j].no = 1 \/ \E i \in Ids : Named(i, revs[j].kind, revs[j].name)
                                                /\ revs[i].no = revs[j].no - 1)'
      <3>1. revs[j].no = 1 \/ \E i \in Ids : Named(i, revs[j].kind, revs[j].name)
                                            /\ revs[i].no = revs[j].no - 1
        BY DEF Inv, ChainsAreLinear
      <3> QED
        BY <1>1, <3>1 DEF Named, Is
    <2>2. ASSUME NEW j \in Ids, NEW i \in Ids, Named(i, revs[j].kind, revs[j].name)', i < j
          PROVE  (/\ revs[i].no < revs[j].no
                  /\ revs[i].cut <= revs[j].cut /\ revs[i].at <= revs[j].at
                  /\ revs[j].kind \notin PriceKinds => revs[i].at < revs[j].at
                  /\ Bound(revs[i]) = Bound(revs[j]))'
      <3>1. Named(i, revs[j].kind, revs[j].name)
        BY <2>2 DEF Named, Is
      <3>2. /\ revs[i].no < revs[j].no
            /\ revs[i].cut <= revs[j].cut /\ revs[i].at <= revs[j].at
            /\ revs[j].kind \notin PriceKinds => revs[i].at < revs[j].at
            /\ Bound(revs[i]) = Bound(revs[j])
        BY <2>2, <3>1 DEF Inv, ChainsAreLinear
      <3> QED
        BY <1>4, <3>2
    <2> QED
      BY <1>1, <2>1, <2>2 DEF ChainsAreLinear
  <1>7. ASSUME NEW r, FollowsNewest(r)
        PROVE  FollowsNewest(r)'
    <2>1. PICK i \in Revisions(r.kind, r.name) :
              IsNewest(i, Revisions(r.kind, r.name)) /\ r.no = revs[i].no + 1 /\ Follows(r, i)
      BY <1>7 DEF FollowsNewest
    <2>2. Revisions(r.kind, r.name)' = Revisions(r.kind, r.name)
      BY <1>1, <1>2 DEF Revisions
    <2>3. IsNewest(i, Revisions(r.kind, r.name))'
      BY <2>1, <2>2 DEF IsNewest
    <2>4. Follows(r, i)'
      BY <1>3, <1>4, <2>1 DEF Follows
    <2> QED
      BY <2>1, <2>2, <2>3, <2>4 DEF FollowsNewest
  <1> QED
    BY <1>5, <1>6, <1>7

LEMMA InvStep ==
    ASSUME Inv, [Next]_vars
    PROVE  Inv'
  <1>1. Base'
    BY BaseStep DEF Inv
  <1>2. ASSUME revs' = revs, \A v \in Writers : writer'[v] = writer[v] \/ writer'[v] = Idle
        PROVE  Inv'
    <2>1. \A v \in Writers : Later(v)' => Later(v) /\ writer'[v] = writer[v]
      BY <1>2 DEF Later
    <2>2. Queued'
      BY <1>2, <2>1, StoreStays DEF Inv, Queued
    <2>3. OneQueued'
      BY <2>1 DEF Inv, OneQueued
    <2> QED
      BY <1>1, <1>2, <2>2, <2>3, StoreStays DEF Inv
  <1>3. ASSUME NEW w \in Writers, NEW r, Check(w, r), Draft(r)
        PROVE  Inv'
    <2>1. PICK s : /\ writer' = [writer EXCEPT ![w] = s] /\ Sound(s)
                   /\ \/ s.no = 1
                      \/ s.no # 1 /\ FollowsNewest(s) /\ ~Held(s.kind, s.name)
      BY <1>3, Prepared DEF Inv
    <2>2. revs' = revs
      BY <1>3 DEF Check
    <2>3. writer'[w] = s /\ \A v \in Writers \ {w} : writer'[v] = writer[v]
      BY <2>1 DEF Inv, Base, Shape
    <2>4. Queued'
      <3>1. ASSUME NEW v \in Writers, Later(v)'
            PROVE  FollowsNewest(writer[v])'
        <4>1. CASE v = w
          BY <2>1, <2>2, <2>3, <3>1, <4>1, StoreStays DEF Later
        <4>2. CASE v # w
          <5>1. writer'[v] = writer[v] /\ FollowsNewest(writer[v])
            BY <2>3, <3>1, <4>2 DEF Later, Inv, Queued
          <5> QED
            BY <2>2, <5>1, StoreStays
        <4> QED
          BY <4>1, <4>2
      <3> QED
        BY <3>1 DEF Queued
    <2>5. ASSUME NEW v \in Writers \ {w}, Later(v), s.no # 1
          PROVE  writer[v].kind # s.kind \/ writer[v].name # s.name
      <3>1. writer[v].no \in Nat \ {0} /\ writer[v] # Idle /\ writer[v].no # 1
        BY <2>5 DEF Later, Inv, Base, AllSound, Sound, IsRevision
      <3>2. writer[v].no > 1
        BY <3>1
      <3> QED
        BY <2>1, <2>5, <3>1, <3>2 DEF Held
    <2>6. OneQueued'
      BY <2>3, <2>5 DEF Inv, OneQueued, Later
    <2> QED
      BY <1>1, <2>2, <2>4, <2>6, StoreStays DEF Inv
  <1>4. ASSUME NEW w \in Writers, Insert(w)
        PROVE  Inv'
    BY <1>1, <1>4, ChainStep, QueueStep DEF Inv
  <1>5. ASSUME NEW w \in Writers, Conflict(w) \/ Abandon(w)
        PROVE  Inv'
    <2>1. revs' = revs /\ \A v \in Writers : writer'[v] = writer[v] \/ writer'[v] = Idle
      BY <1>5 DEF Conflict, Abandon, Inv, Base, Shape
    <2> QED
      BY <1>2, <2>1
  <1>6. ASSUME RunMarkedFailed \/ UNCHANGED vars
               \/ \E s \in {"succeeded", "failed"}, cut, done \in Times : RunSettles(s, cut, done)
        PROVE  Inv'
    BY <1>2, <1>6 DEF RunMarkedFailed, RunSettles, vars
  <1> QED
    BY <1>3, <1>4, <1>5, <1>6, StoreSteps, Drafts DEF Inv

LEMMA InvBegins ==
    ASSUME Init
    PROVE  Inv
  <1>1. revs = << >> /\ Ids = {}
    BY DEF Init, Ids
  <1>2. StoreIsSeq
    <2>1. << >> \in Seq({revs[i] : i \in Ids})
      BY EmptySeq
    <2> QED
      BY <1>1, <2>1 DEF StoreIsSeq
  <1>3. Shape
    BY <1>2 DEF Init, Shape, Runs
  <1>4. \A w \in Writers : writer[w] = Idle
    BY DEF Init
  <1> QED
    BY <1>1, <1>3, <1>4 DEF Inv, Base, AllSound, Begun, Queued, OneQueued, Later, ChainsAreLinear

(* What the commands checked of a record stays true as the store grows, and *)
(* a command that follows a revision is alone with it until it ends: the    *)
(* lock on the identity row and its newest revision (canonical_price.py,    *)
(* _latest).                                                                *)
THEOREM Records == Spec => []Inv
  <1>1. Init => Inv
    BY InvBegins
  <1>2. Inv /\ [Next]_vars => Inv'
    BY InvStep
  <1> QED
    BY <1>1, <1>2, PTL DEF Spec

(* The numbers of an identity count up from 1 in the order of insertion,    *)
(* its dates never go back and it keeps its instrument and research,        *)
(* whatever commands run at once (canonical_price.py, _latest and          *)
(* _chronology).                                                           *)
THEOREM ChainsHold == Spec => []ChainsAreLinear
  <1>1. Inv => ChainsAreLinear
    BY DEF Inv
  <1> QED
    BY <1>1, Records, PTL

---------------------------------------------------------------------------
(* Reads.                                                                  *)

LEMMA SettledStands ==
    ASSUME Inv, Inv', [Next]_vars, NEW i \in Ids, NEW cut \in Times, NEW at \in Times, Settles(i, cut, at)
    PROVE  AsOf(revs[i].kind, revs[i].name, cut, at)' = AsOf(revs[i].kind, revs[i].name, cut, at)
  <1>1. Grown
    BY StoreGrows DEF Inv, Base
  <1>2. PICK kind, name : kind = revs[i].kind /\ name = revs[i].name
    OBVIOUS
  <1>3. PICK seen : seen = {j \in Revisions(kind, name) : Visible(j, cut, at)}
    OBVIOUS
  <1>4. seen \subseteq Ids /\ \A j \in Ids : revs'[j] = revs[j]
    BY <1>1, <1>3 DEF Revisions, Grown
  <1>5. ASSUME NEW w \in Writers, Insert(w), NEW j \in Ids', j \notin Ids, Named(j, kind, name)'
        PROVE  ~Visible(j, cut, at)'
    <2>1. i < j
      <3>1. PICK n \in Nat : n = Len(revs)
        BY <1>5, Appended DEF Inv, Base
      <3>2. Ids = 1..n /\ Ids' = 1..(n + 1)
        BY <1>5, <3>1, Appended DEF Inv, Base
      <3> QED
        BY <1>5, <3>2
    <2>2. i \in Ids' /\ revs'[i] = revs[i]
      BY <1>1 DEF Grown
    <2>3. revs'[j].kind = kind /\ revs'[j].name = name /\ Named(i, revs[j].kind, revs[j].name)'
      BY <1>2, <1>5, <2>2 DEF Named, Is
    <2>4. /\ revs'[i].cut <= revs'[j].cut /\ revs'[i].at <= revs'[j].at
          /\ revs'[j].kind \notin PriceKinds => revs'[i].at < revs'[j].at
      BY <1>5, <2>1, <2>2, <2>3 DEF Inv, ChainsAreLinear
    <2>5. /\ revs[i].cut \in Nat /\ revs[i].at \in Nat /\ revs'[j].cut \in Nat /\ revs'[j].at \in Nat
          /\ cut \in Nat /\ at \in Nat
      BY <1>5, RevisionTypes DEF Inv, Base, AllSound, Sound, IsRevision, Times
    <2> QED
      BY <1>2, <2>2, <2>3, <2>4, <2>5 DEF Settles, Visible
  <1>6. {j \in Revisions(kind, name) : Visible(j, cut, at)}' = seen
    <2>1. \A j \in Ids : /\ Named(j, kind, name)' <=> Named(j, kind, name)
                         /\ Visible(j, cut, at)' <=> Visible(j, cut, at)
      BY <1>4 DEF Named, Is, Visible
    <2>2. CASE Ids' = Ids
      BY <1>3, <2>1, <2>2 DEF Revisions
    <2>3. CASE \E w \in Writers : Insert(w)
      BY <1>1, <1>3, <1>5, <2>1, <2>3 DEF Revisions, Grown
    <2>4. Ids' = Ids \/ \E w \in Writers : Insert(w)
      BY StoreSteps, ChecksAreChecks DEF Check, Conflict, Abandon, RunMarkedFailed, RunSettles, vars, Ids
    <2> QED
      BY <2>2, <2>3, <2>4
  <1>7. \A j \in seen : (\A k \in seen : revs'[k].no <= revs'[j].no) <=> (\A k \in seen : revs[k].no <= revs[j].no)
    BY <1>4
  <1>8. PICK before : before = CHOOSE j \in seen : j \in seen /\ \A k \in seen : revs[k].no <= revs[j].no
    OBVIOUS
  <1>9. AsOf(kind, name, cut, at) = IF seen = {} THEN 0 ELSE before
    BY <1>3, <1>8 DEF AsOf, IsNewest
  <1>10. AsOf(kind, name, cut, at)' = IF seen = {} THEN 0 ELSE before
    <2>1. PICK after : after = CHOOSE j \in seen : j \in seen /\ \A k \in seen : revs'[k].no <= revs'[j].no
      OBVIOUS
    <2>2. AsOf(kind, name, cut, at)' =
            LET now == {j \in Revisions(kind, name) : Visible(j, cut, at)}'
            IN  IF now = {} THEN 0 ELSE CHOOSE j \in now : j \in now /\ \A k \in now : revs'[k].no <= revs'[j].no
      BY DEF AsOf, IsNewest
    <2>3. AsOf(kind, name, cut, at)' = IF seen = {} THEN 0 ELSE after
      BY <1>6, <2>1, <2>2
    <2>4. after = before
      BY <1>7, <1>8, <2>1
    <2> QED
      BY <2>3, <2>4
  <1>11. AsOf(kind, name, cut, at)' = AsOf(kind, name, cut, at)
    BY <1>9, <1>10
  <1> QED
    BY <1>2, <1>4, <1>11

(* What a read before a revision of an identity shows of that identity      *)
(* stays what it is, whatever past dates later commands are given.          *)
THEOREM ReadsHold == Spec => ReadsRepeat
  <1>1. Inv /\ Inv' /\ [Next]_vars =>
            [\A i \in Ids, cut, at \in Times :
                 Settles(i, cut, at) =>
                     AsOf(revs[i].kind, revs[i].name, cut, at)' = AsOf(revs[i].kind, revs[i].name, cut, at)]_vars
    BY SettledStands
  <1> QED
    BY <1>1, Records, PTL DEF Spec, ReadsRepeat
(* What the commands checked keeps the readers from an inconsistent graph.  *)
LEMMA AnswersFollow ==
    ASSUME Base
    PROVE  ReadsAnswer
  <1> SUFFICES ASSUME NEW i \in Ids, NEW cut \in Times, NEW at \in Times, Visible(i, cut, at)
               PROVE  \/ Read(i, cut, at) = "answer"
                      \/ Is(i, "price") /\ run.status = "failed"
                      \/ Has(i, "valuation", "not_applicable")
    BY DEF ReadsAnswer
  <1>1. Sound(revs[i]) /\ revs[i].uses \subseteq Ids /\ cut \in Nat /\ at \in Nat
    BY DEF Base, AllSound, Sound, IsRevision, Times
  <1>2. \A u \in revs[i].uses : Visible(u, cut, at)
    <2> SUFFICES ASSUME NEW u \in revs[i].uses
                 PROVE  Visible(u, cut, at)
      OBVIOUS
    <2>1. /\ revs[u].cut \in Nat /\ revs[u].at \in Nat /\ revs[i].cut \in Nat /\ revs[i].at \in Nat
      BY <1>1, RevisionTypes
    <2>2. revs[u].cut <= revs[i].cut /\ revs[u].at <= revs[i].at
      BY <1>1 DEF Sound, Within, Visible
    <2> QED
      BY <1>1, <2>1, <2>2 DEF Visible
  <1>3. CASE Is(i, "price")
    <2>1. run.status # "pending" /\ run.cut <= revs[i].cut /\ run.done <= revs[i].at
      BY <1>1, <1>3 DEF Sound, PriceFits, Is
    <2>2. /\ run.cut \in Nat /\ run.done \in Nat /\ revs[i].cut \in Nat /\ revs[i].at \in Nat
          /\ run.status \in {"pending", "succeeded", "failed"}
      BY RevisionTypes DEF Base, Shape, Runs
    <2>3. run.cut <= cut /\ run.done <= at
      BY <1>1, <2>1, <2>2 DEF Visible
    <2>4. run.status = "succeeded" => PriceRead(i, cut, at) = "answer"
      BY <1>1, <1>2, <2>1, <2>2, <2>3 DEF PriceRead, Sound
    <2>5. Read(i, cut, at) = PriceRead(i, cut, at)
      BY <1>3 DEF Read, Is
    <2> QED
      BY <1>3, <2>1, <2>2, <2>4, <2>5
  <1>4. ASSUME Is(i, "context") \/ Is(i, "valuation")
        PROVE  ContextRead(i, cut, at) = "answer"
    BY <1>1, <1>2, <1>4 DEF ContextRead, Sound, AssessmentFits, Is
  <1>5. CASE Is(i, "context")
    <2>1. Read(i, cut, at) = ContextRead(i, cut, at)
      BY <1>5 DEF Read, Is
    <2> QED
      BY <1>4, <1>5, <2>1
  <1>6. CASE Is(i, "valuation")
    <2>1. Read(i, cut, at) = ValuationRead(i, cut, at)
      BY <1>6 DEF Read, Is
    <2> QED
      BY <1>4, <1>6, <2>1 DEF ValuationRead, Has
  <1>7. CASE Is(i, "snapshot")
    <2>1. Read(i, cut, at) = SnapshotRead(i, cut, at)
      BY <1>7 DEF Read, Is
    <2> QED
      BY <1>2, <2>1 DEF SnapshotRead, Components
  <1>8. CASE ~(Is(i, "price") \/ Is(i, "context") \/ Is(i, "valuation") \/ Is(i, "snapshot"))
    BY <1>8 DEF Read, RecordRead
  <1> QED
    BY <1>3, <1>5, <1>6, <1>7, <1>8

LEMMA SnapshotsGrounded ==
    ASSUME Base, NEW i \in Pick(Ids, "snapshot"), NEW m \in revs[i].members, m.chosen
    PROVE  \E v \in Pick(m.of, "valuation_context"), r \in Pick(m.of, "research"),
              p \in Pick(m.of, "price"), e \in Pick(m.of, "context") :
               /\ Has(v, "valuation_context", "supported")
               /\ PricePair(revs[v].uses) = {p, e} /\ PricePair(m.of) = {p, e}
               /\ Has(p, "price", "accepted") /\ Has(e, "context", "eligible")
               /\ p \in revs[e].uses
               /\ \E s \in revs[p].uses : Has(s, "series", "accepted")
               /\ run.done \in 1 .. revs[i].at
               /\ \A k \in Components(m.of) : r \in revs[k].uses
  <1>1. i \in Ids /\ Sound(revs[i]) /\ revs[i].kind = "snapshot"
    BY DEF Pick, Is, Base, AllSound
  <1>2. m.of \subseteq Ids
    BY <1>1 DEF Sound, IsRevision, Members
  <1>3. MemberFits(m, revs[i].cut, revs[i].at) /\ Rankable(m)
    BY <1>1 DEF Sound, SnapshotFits
  <1>4. PICK v \in m.of : Has(v, "valuation_context", "supported")
    BY <1>3, CandidateAssumption DEF Rankable, CandidateAssumption
  <1>5. v \in Components(m.of) /\ v \in Pick(m.of, "valuation_context")
    BY <1>4, CandidateAssumption DEF Components, Pick, Has, Is, CandidateAssumption
  <1>6. PICK r \in Pick(m.of, "research") : TRUE
    BY <1>3, <1>5 DEF MemberFits
  <1>7. \A k \in Components(m.of) : r \in revs[k].uses
    BY <1>3, <1>6 DEF MemberFits
  <1>8. Cardinality(Pick(revs[v].uses, "price")) = 1 /\ PricePair(revs[v].uses) = PricePair(m.of)
    BY <1>3, <1>4, <1>5 DEF MemberFits, OwnPrices
  <1>9. PricePair(m.of) # {}
    <2>1. Pick(revs[v].uses, "price") # {}
      BY <1>8, FS_EmptySet
    <2> QED
      BY <1>8, <2>1 DEF PricePair
  <1>10. PICK p \in m.of, e \in m.of : PricePair(m.of) = {p, e} /\ PriceGraph(p, e, revs[i].cut, revs[i].at)
    BY <1>3, <1>9 DEF MemberFits
  <1>11. /\ Has(p, "price", "accepted") /\ Has(e, "context", "eligible") /\ p \in revs[e].uses
         /\ Visible(p, revs[i].cut, revs[i].at)
    BY <1>10 DEF PriceGraph
  <1>12. p \in Pick(m.of, "price") /\ e \in Pick(m.of, "context")
    BY <1>11 DEF Pick, Has
  <1>13. PriceFits(revs[p]) /\ revs[p].kind = "price" /\ p \in Ids
    BY <1>2, <1>11 DEF Base, AllSound, Sound, Has, Is
  <1>14. \E s \in revs[p].uses : Has(s, "series", "accepted")
    BY <1>13 DEF PriceFits
  <1>15. run.done \in 1 .. revs[i].at
    <2>1. run.done \in Times /\ run.done <= revs[p].at
      BY <1>13 DEF PriceFits, Base, Shape
    <2>2. revs[p].at \in Nat /\ revs[i].at \in Nat /\ revs[p].at <= revs[i].at
      BY <1>1, <1>11, <1>13, RevisionTypes DEF Visible
    <2> QED
      BY <2>1, <2>2 DEF Times
  <1> QED
    BY <1>4, <1>5, <1>6, <1>7, <1>8, <1>10, <1>11, <1>12, <1>14, <1>15

LEMMA PeersGrounded ==
    ASSUME Base, NEW i \in Pick(Ids, "peers"), NEW m \in revs[i].members, m.chosen
    PROVE  \E k \in m.of :
               /\ Has(k, "metric", "calculated")
               /\ \E p, e \in revs[k].uses :
                      /\ Has(p, "price", "accepted") /\ Has(e, "valuation", "eligible")
                      /\ p \in revs[e].uses
                      /\ \A j \in Pick(revs[p].uses, "instrument") : revs[j].stock = m.company
  <1>1. i \in Ids /\ Sound(revs[i]) /\ revs[i].kind = "peers"
    BY DEF Pick, Is, Base, AllSound
  <1>2. m.of \subseteq Ids
    BY <1>1 DEF Sound, IsRevision, Members
  <1>3. PeerFits(m)
    BY <1>1 DEF Sound, ComparisonFits
  <1>4. PICK k \in m.of : Has(k, "metric", "calculated")
    BY <1>3 DEF PeerFits
  <1>5. PICK j \in m.of : /\ Is(j, "instrument") /\ revs[j].stock = m.company
                          /\ \E q \in m.of : /\ Is(q, "research")
                                             /\ \A l \in m.of \ {q, j} : BindsShare(l, j)
    BY <1>3 DEF PeerFits, Named
  <1>6. j \in Pick(revs[k].uses, "instrument")
    BY <1>4, <1>5 DEF Pick, BindsShare, Has, Is
  <1>7. k \in Ids /\ Sound(revs[k]) /\ revs[k].kind = "metric" /\ revs[k].state = "calculated"
    BY <1>2, <1>4 DEF Base, AllSound, Has, Is
  <1>8. PICK p \in revs[k].uses, e \in revs[k].uses :
            /\ p \in revs[e].uses /\ Pick(revs[k].uses, "instrument") \subseteq revs[p].uses
            /\ Has(p, "price", "accepted") /\ Has(e, "valuation", "eligible")
    BY <1>7 DEF Sound, MetricFits
  <1>9. p \in Ids /\ Sound(revs[p]) /\ revs[p].kind = "price"
    BY <1>7, <1>8 DEF Base, AllSound, Sound, IsRevision, Has, Is
  <1>10. j \in Pick(revs[p].uses, "instrument")
    BY <1>5, <1>6, <1>8 DEF Pick
  <1>11. \A l \in Pick(revs[p].uses, "instrument") : l = j
    BY <1>9, <1>10 DEF Sound, PriceFits
  <1> QED
    BY <1>4, <1>5, <1>8, <1>11

LEMMA GroundsFollow ==
    ASSUME Base
    PROVE  RanksAreGrounded
  <1>1. ASSUME NEW i \in Pick(Ids, "peers"), NEW m \in revs[i].members, NEW n \in revs[i].members,
               m.company = n.company
        PROVE  m = n
    BY <1>1 DEF Pick, Is, Base, AllSound, Sound, ComparisonFits
  <1> QED
    BY <1>1, SnapshotsGrounded, PeersGrounded DEF RanksAreGrounded

LEMMA TypesFollow ==
    ASSUME Base
    PROVE  TypeOK
  <1>1. DOMAIN revs = 1 .. Len(revs)
    BY LenProperties DEF Base, Shape, StoreIsSeq
  <1> QED
    BY <1>1 DEF TypeOK, Base, Shape, Runs, AllSound, Sound

(* Every record the commands store or prepare binds stored records only and *)
(* has a number and dates in their ranges.                                  *)
THEOREM RecordTypes == Spec => []TypeOK
  <1>1. Inv => TypeOK
    BY TypesFollow DEF Inv
  <1> QED
    BY <1>1, Records, PTL

(* A record that a read at a boundary names can be read there, unless the   *)
(* importer took back its run or the general command filed an assessment    *)
(* that the valuation reader does not know: the checks the commands ran     *)
(* still hold however the store has grown since.                            *)
THEOREM ReadsSucceed == Spec => []ReadsAnswer
  <1>1. Inv => ReadsAnswer
    BY AnswersFollow DEF Inv
  <1> QED
    BY <1>1, Records, PTL

(* A ranked candidate rests on one accepted, eligible price of an import    *)
(* that had succeeded and on components of one research revision, and the   *)
(* eligible peers of a comparison each on a price of their own share.       *)
THEOREM RanksHold == Spec => []RanksAreGrounded
  <1>1. Inv => RanksAreGrounded
    BY GroundsFollow DEF Inv
  <1> QED
    BY <1>1, Records, PTL

=============================================================================
