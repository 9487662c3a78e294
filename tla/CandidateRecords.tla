-------------------------- MODULE CandidateRecords --------------------------
(***************************************************************************)
(* The append-only records that lead from a listed instrument to a ranked   *)
(* investment candidate: instruments, price series contracts, canonical     *)
(* prices and comparison eligibility (backend/database/canonical_price.py), *)
(* financial observations, valuation metrics, expectation gaps and peer     *)
(* comparisons (industry_alpha/normalized_*.py) and the component           *)
(* assessments and snapshots of the candidates                              *)
(* (industry_alpha/investment_candidate_commands.py).                       *)
(*                                                                          *)
(* Every record is a revision of an identity, <<kind, name>>.  A command    *)
(* checks its inputs in one transaction and inserts the next revision in    *)
(* the same one; several processes run commands at once, and the identity   *)
(* row is locked only when it exists already.  All the tables are one       *)
(* sequence here, in the order of insertion: an id is a position in it.     *)
(* Cutoff dates and recorded times share one scale of Times; both are       *)
(* chosen by the caller of the command.                                     *)
(***************************************************************************)
EXTENDS Naturals, FiniteSets, Sequences

CONSTANTS Companies,    \* stock codes; a company has one Stage 2 research
          Names,        \* the caller's keys for the other identities
          MaxTime,      \* the last date and time a caller chooses
          MaxRevisions, \* bound on the length of the store
          MinPeers,     \* eligible members a calculated comparison needs
          Codes,        \* the component codes, "valuation_context" is one
          Writers       \* processes that run commands

PriceKinds == {"instrument", "series", "price", "context", "valuation"}
OtherKinds == {"research", "observation", "metric", "gap", "peers", "snapshot"}
Kinds == PriceKinds \cup OtherKinds \cup Codes

ASSUME CandidateAssumption ==
    /\ MaxTime \in Nat /\ MaxRevisions \in Nat /\ MinPeers \in Nat \ {0}
    /\ "valuation_context" \in Codes /\ Codes \cap (PriceKinds \cup OtherKinds) = {}

VARIABLES revs,    \* the revisions stored so far
          writer,  \* what a process is about to insert
          run      \* the ingestion run behind the daily price rows

vars == <<revs, writer, run>>

Times == 1 .. MaxTime
Idle == [kind |-> "none"]
NoStock == ""   \* only an instrument has a stock

\* Identity rows whose first revision may not be rebound: the kinds of the
\* upstream records that an identity of each kind fixes for ever.
FixedBy == [series |-> {"instrument"}, observation |-> {"research", "instrument"},
            metric |-> {"instrument"}, gap |-> {"research", "instrument"},
            peers |-> {"research", "instrument"}]
Fixed(kind) == IF kind \in DOMAIN FixedBy THEN FixedBy[kind] ELSE {}

\* One revision.  uses holds the ids of the exact revisions it binds; members
\* the rows of a comparison or a snapshot, each a company, a set of ids and the
\* outcome (eligible there, ranked here); stock is the symbol of an instrument.
Members(ids) == [company : Companies, of : SUBSET ids, chosen : BOOLEAN]

Revision(kind, name, state, stock, uses, members, cut, at) ==
    [kind |-> kind, name |-> name, no |-> 1, state |-> state, stock |-> stock,
     uses |-> uses, members |-> members, cut |-> cut, at |-> at]

Ids == DOMAIN revs
Is(i, kind) == revs[i].kind = kind
Named(i, kind, name) == Is(i, kind) /\ revs[i].name = name
Has(i, kind, state) == Is(i, kind) /\ revs[i].state = state
Pick(ids, kind) == {i \in ids : Is(i, kind)}
NamesOf(ids) == {revs[i].name : i \in ids}

Revisions(kind, name) == {i \in Ids : Named(i, kind, name)}
IsNewest(i, ids) == i \in ids /\ \A j \in ids : revs[j].no <= revs[i].no

\* A comparison is bound by its subject's row, the others by all they use.
Binding(r) ==
    IF r.kind = "peers" THEN UNION {m.of : m \in {n \in r.members : n.company = r.name}}
    ELSE r.uses
Bound(r) == {<<revs[i].kind, revs[i].name>> :
                 i \in {j \in Binding(r) : revs[j].kind \in Fixed(r.kind)}}

Visible(i, cut, at) == revs[i].cut <= cut /\ revs[i].at <= at
WithinDates(r, ids) == \A i \in ids : revs[i].cut <= r.cut
Within(r, ids) == \A i \in ids : Visible(i, r.cut, r.at)

\* The rows a caller may put together for a comparison or a snapshot.
Rows(company, ofs) ==
    {[company |-> company, of |-> ids, chosen |-> c] : ids \in ofs, c \in BOOLEAN}
Optional(ids) == {{}} \cup {{i} : i \in ids}
OneEach(companies, rows) ==
    {f \in [companies -> rows] : \A c \in companies : f[c].company = c}

-----------------------------------------------------------------------------
(* The commands' common frame.                                              *)

FollowsInTime(r, i) ==
    /\ IF r.kind \in PriceKinds THEN revs[i].at <= r.at ELSE revs[i].at < r.at
    /\ Bound(revs[i]) = Bound(r)

\* A revision may follow the newest one when neither its cutoff nor its time
\* goes back; the canonical price tables let the time stand still.
Follows(r, i) ==
    /\ revs[i].cut <= r.cut
    /\ IF r.kind \in PriceKinds THEN revs[i].at <= r.at ELSE revs[i].at < r.at
    /\ Bound(revs[i]) = Bound(r)

\* FOR UPDATE holds the identity and its newest revision from the check to the
\* end of the transaction, when there is one to hold.
Held(kind, name) ==
    \E w \in Writers : /\ writer[w] # Idle
                       /\ writer[w].kind = kind /\ writer[w].name = name
                       /\ writer[w].no > 1

Pending == Cardinality({w \in Writers : writer[w] # Idle})
Room(w) == writer[w] = Idle /\ Len(revs) + Pending < MaxRevisions

\* The checks of a command; a command that fails one of them, or that names
\* another latest revision than the stored one, changes nothing.
Check(w, r) ==
    /\ Room(w)
    /\ r.cut <= r.at
    /\ Within(r, r.uses)
    /\ LET earlier == Revisions(r.kind, r.name)
       IN  \/ /\ earlier = {}
              /\ writer' = [writer EXCEPT ![w] = r]
           \/ \E i \in earlier :
                  /\ IsNewest(i, earlier) /\ ~ Held(r.kind, r.name) /\ Follows(r, i)
                  /\ writer' = [writer EXCEPT ![w] = [r EXCEPT !.no = revs[i].no + 1]]
    /\ UNCHANGED <<revs, run>>

TakenOnDate(r) ==
    \E i \in Revisions(r.kind, r.name) : revs[i].no = r.no /\ revs[i].cut = r.cut

\* The unique constraint on (identity, revision_no).
Taken(r) == \E i \in Revisions(r.kind, r.name) : revs[i].no = r.no

Insert(w) ==
    /\ writer[w] # Idle /\ ~ Taken(writer[w])
    /\ revs' = Append(revs, writer[w])
    /\ writer' = [writer EXCEPT ![w] = Idle]
    /\ UNCHANGED run

Conflict(w) ==
    /\ writer[w] # Idle /\ Taken(writer[w])
    /\ writer' = [writer EXCEPT ![w] = Idle]
    /\ UNCHANGED <<revs, run>>

\* A dry run ends after the checks; a process may also die before the commit.
Abandon(w) ==
    /\ writer[w] # Idle
    /\ writer' = [writer EXCEPT ![w] = Idle]
    /\ UNCHANGED <<revs, run>>

-----------------------------------------------------------------------------
(* Canonical prices and eligibility.                                        *)

RecordListedInstrument(w, name, symbol, cut, at) ==
    Check(w, Revision("instrument", name, "listed", symbol, {}, {}, cut, at))

RecordSeries(w, name, instrument, state, cut, at) ==
    /\ Is(instrument, "instrument")
    /\ Check(w, Revision("series", name, state, NoStock, {instrument}, {}, cut, at))

\* A price quotes a row of a run that has succeeded by then, under an accepted
\* contract, whether or not a later revision retired that contract.
RecordPrice(w, series, state, cut, at) ==
    /\ Has(series, "series", "accepted")
    /\ run.status = "succeeded" /\ run.cut <= cut /\ run.done <= at
    /\ Check(w, Revision("price", revs[series].name, state, NoStock,
                         {series} \cup revs[series].uses, {}, cut, at))

EligibilityFits(state, prices) ==
    /\ \A p \in prices : Is(p, "price")
    /\ state = "eligible" =>
           prices # {} /\ \A p \in prices : Has(p, "price", "accepted")
    /\ state \in {"missing", "not_applicable"} => prices = {}

RecordEligibility(w, purpose, name, state, prices, cut, at) ==
    /\ EligibilityFits(state, prices)
    /\ Check(w, Revision(purpose, name, state, NoStock, prices, {}, cut, at))

-----------------------------------------------------------------------------
(* Normalized valuation.                                                    *)

RecordObservation(w, name, research, instrument, state, cut, at) ==
    /\ Is(research, "research") /\ Is(instrument, "instrument")
    /\ Check(w, Revision("observation", name, state, NoStock,
                         {research, instrument}, {}, cut, at))

InstrumentsOf(i) == NamesOf(Pick(revs[i].uses, "instrument"))
ResearchesOf(i) == NamesOf(Pick(revs[i].uses, "research"))

\* A metric quotes a price that the assessment lists, whatever its purpose and
\* state, and observations of one research about the price's instrument.
PricedBy(price, assessment) ==
    /\ Is(price, "price") /\ revs[assessment].kind \in {"context", "valuation"}
    /\ price \in revs[assessment].uses

ObservedFor(price, observations) ==
    /\ observations # {}
    /\ \A o \in observations : /\ Is(o, "observation")
                               /\ InstrumentsOf(o) = InstrumentsOf(price)
    /\ Cardinality(UNION {ResearchesOf(o) : o \in observations}) = 1

\* The rule calculates only from an accepted price that is eligible for
\* valuation and supported observations; dates and units may block it too.
Calculable(price, assessment, observations) ==
    /\ Has(price, "price", "accepted") /\ Has(assessment, "valuation", "eligible")
    /\ \A o \in observations : Has(o, "observation", "supported")

RecordMetric(w, name, price, assessment, observations, state, cut, at) ==
    /\ PricedBy(price, assessment) /\ ObservedFor(price, observations)
    /\ state = "calculated" => Calculable(price, assessment, observations)
    /\ Check(w, Revision("metric", name, state, NoStock,
                         {price, assessment} \cup observations
                             \cup Pick(revs[price].uses, "instrument"), {}, cut, at))

ObservedOf(o, research, instrument) ==
    /\ Is(o, "observation")
    /\ ResearchesOf(o) = NamesOf({research}) /\ InstrumentsOf(o) = NamesOf({instrument})

GapCalculable(expected, actual) ==
    \A o \in {expected, actual} : Has(o, "observation", "supported")

RecordExpectationGap(w, name, research, instrument, expected, actual, state, cut, at) ==
    /\ Is(research, "research") /\ Is(instrument, "instrument")
    /\ \A o \in {expected, actual} : ObservedOf(o, research, instrument)
    /\ state = "calculated" => GapCalculable(expected, actual)
    /\ Check(w, Revision("gap", name, state, NoStock,
                         {research, instrument, expected, actual}, {}, cut, at))

BindsShare(metric, instrument) == Is(metric, "metric") /\ instrument \in revs[metric].uses

\* A peer binds one research and one instrument revision of the same stock, and
\* at most one metric, of that very instrument revision.  It is eligible only
\* with a calculated metric.
PeerFits(m) ==
    /\ \E i, j \in m.of : /\ Named(i, "research", m.company) /\ Is(j, "instrument")
                          /\ revs[j].stock = m.company
                          /\ \A k \in m.of \ {i, j} : BindsShare(k, j)
    /\ Cardinality(m.of) <= 3
    /\ m.chosen => \E k \in m.of : Has(k, "metric", "calculated")

Peers(company) ==
    {m \in Rows(company, {{i, j} \cup k : i \in Revisions("research", company),
                                         j \in Pick(Ids, "instrument"),
                                         k \in Optional(Pick(Ids, "metric"))}) : PeerFits(m)}

ComparisonState(row, members) ==
    IF row.chosen /\ Cardinality({m \in members : m.chosen}) >= MinPeers
    THEN "calculated" ELSE "insufficient"

\* The comparison of a company, whose own member has a metric, with peers: other
\* companies, each with an instrument of its own.
RecordComparison(w, subject, companies, cut, at) ==
    \E peer \in OneEach(companies, UNION {Peers(c) : c \in companies}) :
        LET members == {peer[c] : c \in companies}
            state == ComparisonState(peer[subject], members)
        IN  /\ Pick(peer[subject].of, "metric") # {}
            /\ \A c, d \in companies : c # d =>
                   NamesOf(Pick(peer[c].of, "instrument"))
                       \cap NamesOf(Pick(peer[d].of, "instrument")) = {}
            /\ Check(w, Revision("peers", subject, state, NoStock,
                                 UNION {m.of : m \in members}, members, cut, at))

-----------------------------------------------------------------------------
(* Components and snapshots.                                                *)

PriceGraph(price, assessment, cut, at) ==
    /\ Has(price, "price", "accepted") /\ Has(assessment, "context", "eligible")
    /\ price \in revs[assessment].uses
    /\ \A i \in {price, assessment} : Visible(i, cut, at)
    /\ \A s \in Pick(revs[price].uses, "series") :
           Has(s, "series", "accepted") /\ Visible(s, cut, at)

\* Inputs beside the research revision: accepted prices and eligible
\* assessments.  Only the first pair of a supported valuation is matched.
RecordComponent(w, code, research, inputs, state, cut, at) ==
    /\ Is(research, "research")
    /\ \A i \in inputs : \/ Has(i, "price", "accepted")
                         \/ Has(i, "context", "eligible") \/ Has(i, "valuation", "eligible")
    /\ code = "valuation_context" /\ state = "supported" =>
           \E p, e \in inputs : PriceGraph(p, e, cut, at)
    /\ Check(w, Revision(code, revs[research].name, state, NoStock,
                         {research} \cup inputs, {}, cut, at))

Components(ids) == {i \in ids : revs[i].kind \in Codes}
PricePair(ids) == Pick(ids, "price") \cup Pick(ids, "context") \cup Pick(ids, "valuation")

AnyPrices(m) ==
    \A i \in Components(m.of) :
        Has(i, "valuation_context", "supported") =>
            Cardinality(Pick(revs[i].uses, "price")) = 1

\* The pair of a member is that of its supported valuation component.
OwnPrices(m) ==
    \A i \in Components(m.of) :
        Has(i, "valuation_context", "supported") =>
            /\ Cardinality(Pick(revs[i].uses, "price")) = 1
            /\ PricePair(revs[i].uses) = PricePair(m.of)

\* One member of a snapshot: at most one research revision of the company, at
\* most one component of each code, all of that revision, and no price or an
\* exact pair.
MemberFits(m, cut, at) ==
    /\ Cardinality(Pick(m.of, "research")) <= 1
    /\ NamesOf(Pick(m.of, "research")) \subseteq {m.company}
    /\ \A i \in Components(m.of) :
           /\ Pick(m.of, "research") # {} /\ Pick(m.of, "research") \subseteq revs[i].uses
           /\ \A j \in Components(m.of) : revs[i].kind = revs[j].kind => i = j
    /\ \/ PricePair(m.of) = {}
       \/ \E p, e \in m.of : PricePair(m.of) = {p, e} /\ PriceGraph(p, e, cut, at)
    /\ OwnPrices(m)

\* The rules rank a member only with a supported component of every code; the
\* scores decide the rest.
Rankable(m) == \A code \in Codes : \E i \in m.of : Has(i, code, "supported")

Candidates(company, cut, at) ==
    LET research == Optional(Revisions("research", company))
        codes == SUBSET {i \in Components(Ids) : revs[i].name = company}
        pairs == {{}} \cup {{p, e} : p \in Pick(Ids, "price"), e \in Pick(Ids, "context")}
    IN  {m \in Rows(company, {r \cup cs \cup pe : r \in research, cs \in codes, pe \in pairs}) :
             MemberFits(m, cut, at) /\ (m.chosen => Rankable(m))}

\* A snapshot prepares one member for every company of the pool, and no other.
RecordSnapshot(w, name, cut, at) ==
    \E member \in OneEach(Companies, UNION {Candidates(c, cut, at) : c \in Companies}) :
        Check(w, Revision("snapshot", name, "recorded", NoStock,
                          UNION {member[c].of : c \in Companies},
                          {member[c] : c \in Companies}, cut, at))

-----------------------------------------------------------------------------
(* What the rest of the program writes.                                     *)

\* Stage 2 appends a revision of a company's research.
RecordResearch(w, company, cut, at) ==
    Check(w, Revision("research", company, "current", NoStock, {}, {}, cut, at))

\* The import behind the price rows succeeds, or fails.  When the answer to the
\* commit of a success is lost, the importer marks the committed run failed.
RunSettles(status, cut, done) ==
    /\ run.status = "pending" /\ cut <= done
    /\ run' = [status |-> status, cut |-> cut, done |-> done]
    /\ UNCHANGED <<revs, writer>>

RunMarkedFailed ==
    /\ run.status = "succeeded"
    /\ run' = [run EXCEPT !.status = "failed"]
    /\ UNCHANGED <<revs, writer>>

-----------------------------------------------------------------------------
Init ==
    /\ revs = << >>
    /\ writer = [w \in Writers |-> Idle]
    /\ run = [status |-> "pending", cut |-> 0, done |-> 0]

CheckPrices(w, cut, at) ==
    \/ \E name \in Names, symbol \in Companies : RecordListedInstrument(w, name, symbol, cut, at)
    \/ \E name \in Names, i \in Ids, s \in {"accepted", "retired"} :
           RecordSeries(w, name, i, s, cut, at)
    \/ \E i \in Ids, s \in {"accepted", "rejected"} : RecordPrice(w, i, s, cut, at)
    \/ \E name \in Names, ps \in SUBSET Pick(Ids, "price") :
           \/ \E s \in {"eligible", "ineligible", "missing"}, k \in {"context", "valuation"} :
                  RecordEligibility(w, k, name, s, ps, cut, at)
           \* the general command, given the purpose it does not know
           \/ RecordEligibility(w, "valuation", name, "not_applicable", ps, cut, at)

CheckValuations(w, cut, at) ==
    \/ \E name \in Names, i, j \in Ids, s \in {"supported", "missing"} :
           RecordObservation(w, name, i, j, s, cut, at)
    \/ \E name \in Names, p, e \in PricePair(Ids), s \in {"calculated", "blocked"} :
           \E os \in SUBSET Pick(Ids, "observation") :
               RecordMetric(w, name, p, e, os, s, cut, at)
    \/ \E name \in Names, i, j \in Ids, s \in {"calculated", "blocked"} :
           \E o, p \in Pick(Ids, "observation") :
               RecordExpectationGap(w, name, i, j, o, p, s, cut, at)
    \/ \E companies \in SUBSET Companies : \E subject \in companies :
           RecordComparison(w, subject, companies, cut, at)

CheckCandidates(w, cut, at) ==
    \/ \E company \in Companies : RecordResearch(w, company, cut, at)
    \/ \E code \in Codes, i \in Ids, s \in {"supported", "disputed"} :
           \E inputs \in SUBSET PricePair(Ids) :
               RecordComponent(w, code, i, inputs, s, cut, at)
    \/ RecordSnapshot(w, "pool", cut, at)

Next ==
    \/ \E w \in Writers :
           \/ Room(w) /\ \E at \in Times : \E cut \in 1 .. at :
                  \/ CheckPrices(w, cut, at)
                  \/ CheckValuations(w, cut, at)
                  \/ CheckCandidates(w, cut, at)
           \/ Insert(w) \/ Conflict(w) \/ Abandon(w)
    \/ \E s \in {"succeeded", "failed"}, cut, done \in Times : RunSettles(s, cut, done)
    \/ RunMarkedFailed

Spec == Init /\ [][Next]_vars

-----------------------------------------------------------------------------
(* Reads as of a cutoff and a time.                                         *)

\* The newest visible revision of an identity, or 0.
AsOf(kind, name, cut, at) ==
    LET seen == {i \in Revisions(kind, name) : Visible(i, cut, at)}
    IN  IF seen = {} THEN 0 ELSE CHOOSE i \in seen : IsNewest(i, seen)

PriceRead(i, cut, at) ==
    LET upstream == revs[i].uses
    IN  IF run.status # "succeeded" THEN "inconsistent"
        ELSE IF \E u \in upstream : ~ Visible(u, cut, at) THEN "not visible"
        ELSE IF ~ Within(revs[i], upstream) THEN "inconsistent"
        ELSE IF run.cut > revs[i].cut \/ run.done > revs[i].at \/ run.cut > cut \/ run.done > at
             THEN "not visible" ELSE "answer"

\* The readers of assessments look at the prices, at the read's boundary and at
\* the revision's own, and judge the stored state again; each purpose has a
\* reader of its own, and only the general command records "not_applicable".
ContextRead(i, cut, at) ==
    IF /\ \A p \in revs[i].uses : Visible(p, cut, at)
       /\ Within(revs[i], revs[i].uses)
       /\ EligibilityFits(revs[i].state, revs[i].uses)
    THEN "answer" ELSE "inconsistent"

ValuationRead(i, cut, at) ==
    IF revs[i].state # "not_applicable" THEN ContextRead(i, cut, at) ELSE "inconsistent"

\* A snapshot shows its components; the readers of components and of financial
\* records name the revisions they bind and open none of them.
SnapshotRead(i, cut, at) ==
    IF \A u \in Components(revs[i].uses) : Visible(u, cut, at)
    THEN "answer" ELSE "inconsistent"

RecordRead(i, cut, at) == "answer"

Read(i, cut, at) ==
    CASE Is(i, "price") -> PriceRead(i, cut, at)
      [] Is(i, "context") -> ContextRead(i, cut, at)
      [] Is(i, "valuation") -> ValuationRead(i, cut, at)
      [] Is(i, "snapshot") -> SnapshotRead(i, cut, at)
      [] OTHER -> RecordRead(i, cut, at)

-----------------------------------------------------------------------------
(* Properties.                                                              *)

\* Every stored or prepared revision binds stored revisions only, and numbers,
\* dates and the import run have their ranges.
IsRevision(r) ==
    /\ DOMAIN r = {"kind", "name", "no", "state", "stock", "uses", "members", "cut", "at"}
    /\ r.kind \in Kinds /\ r.no \in Nat \ {0} /\ r.uses \subseteq Ids
    /\ r.members \subseteq Members(r.uses)
    /\ r.cut \in Times /\ r.at \in Times /\ r.cut <= r.at

TypeOK ==
    /\ DOMAIN revs = 1 .. Len(revs) /\ \A i \in Ids : IsRevision(revs[i])
    /\ \A w \in Writers : writer[w] # Idle => IsRevision(writer[w])
    /\ run.status \in {"pending", "succeeded", "failed"}

\* The history of an identity is one chain however its writers interleave: the
\* numbers count up from 1 in the order of insertion, neither boundary goes
\* back (canonical_price.py:413, normalized_valuation_command_utils.py:152),
\* and the identity never moves to another instrument or research.
ChainsAreLinear ==
    \A j \in Ids :
        /\ revs[j].no = 1 \/ \E i \in Ids : Named(i, revs[j].kind, revs[j].name)
                                           /\ revs[i].no = revs[j].no - 1
        /\ \A i \in Ids : Named(i, revs[j].kind, revs[j].name) /\ i < j =>
               /\ revs[i].no < revs[j].no
               /\ revs[i].cut <= revs[j].cut /\ revs[i].at <= revs[j].at
               /\ revs[j].kind \notin PriceKinds => revs[i].at < revs[j].at
               /\ Bound(revs[i]) = Bound(revs[j])

\* Once an identity has a revision later than the boundary of a read, no later
\* command changes what that read shows, whatever past dates its caller gives.
Settles(i, cut, at) ==
    \/ revs[i].cut > cut \/ revs[i].at > at
    \/ revs[i].kind \notin PriceKinds /\ revs[i].at = at
ReadsRepeat ==
    [][\A i \in Ids, cut, at \in Times :
           Settles(i, cut, at) =>
               AsOf(revs[i].kind, revs[i].name, cut, at)' = AsOf(revs[i].kind, revs[i].name, cut, at)]_vars

\* A revision that is visible at a boundary can be read there: no reader meets an
\* inconsistent graph, or a hidden part of one, unless the importer took back
\* its run or the general command filed an assessment under the purpose of the
\* valuation reader (canonical_price.py:264, :324, investment_candidate_query.py:131).
ReadsAnswer ==
    \A i \in Ids, cut, at \in Times :
        Visible(i, cut, at) =>
            \/ Read(i, cut, at) = "answer"
            \/ Is(i, "price") /\ run.status = "failed"
            \/ Has(i, "valuation", "not_applicable")

\* A ranked candidate stands on one accepted price, eligible for the context of
\* a company, under an accepted contract, from an import that had succeeded by
\* then, and on components that all judge one research revision of the company.
\* The values set against each other in a comparison are of different companies,
\* and each comes from an eligible accepted price of a share of its own company.
RanksAreGrounded ==
    /\ \A i \in Pick(Ids, "snapshot") : \A m \in {n \in revs[i].members : n.chosen} :
           \E v \in Pick(m.of, "valuation_context"), r \in Pick(m.of, "research"),
              p \in Pick(m.of, "price"), e \in Pick(m.of, "context") :
               /\ Has(v, "valuation_context", "supported")
               /\ PricePair(revs[v].uses) = {p, e} /\ PricePair(m.of) = {p, e}
               /\ Has(p, "price", "accepted") /\ Has(e, "context", "eligible")
               /\ p \in revs[e].uses
               /\ \E s \in revs[p].uses : Has(s, "series", "accepted")
               /\ run.done \in 1 .. revs[i].at
               /\ \A k \in Components(m.of) : r \in revs[k].uses
    /\ \A i \in Pick(Ids, "peers") :
           LET eligible == {m \in revs[i].members : m.chosen} IN
           /\ \A m, n \in eligible : m.company = n.company => m = n
           /\ \A m \in eligible : \E k \in m.of :
                  /\ Has(k, "metric", "calculated")
                  /\ \E p, e \in revs[k].uses :
                         /\ Has(p, "price", "accepted") /\ Has(e, "valuation", "eligible")
                         /\ p \in revs[e].uses
                         /\ \A j \in Pick(revs[p].uses, "instrument") :
                                revs[j].stock = m.company
=============================================================================
