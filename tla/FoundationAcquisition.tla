------------------------ MODULE FoundationAcquisition ------------------------
(***************************************************************************)
(* Acquiring a daily-market foundation from the structured provider         *)
(* (src/datasource/ths_structured_provider) and storing it through two      *)
(* import services, the market's and the benchmark's, whose protocol is     *)
(* IngestionRuns.                                                           *)
(*                                                                         *)
(* Four components are selected, planned within a budget, fetched with      *)
(* bounded attempts and validated, all without a trace in the database: one *)
(* input is what came of that, and an acquirer starts with a prepared one.  *)
(* It imports the market and then the benchmark, each in the transactions   *)
(* of its own service, next to other acquirers and importers, and ends in a *)
(* receipt, in an error that names the market run it leaves behind, or in   *)
(* nothing.                                                                 *)
(*                                                                         *)
(* Days are numbers and an identity is its code.  Prices are an edition of  *)
(* the daily rows.  A batch is the hash of its bundle, an input that of its *)
(* plans and responses.  Credentials, hosts and policy versions are         *)
(* constants of the code and left out.                                      *)
(***************************************************************************)
EXTENDS IngestionRuns

CONSTANTS
    Inputs,        \* fingerprints of what acquirers may have gathered
    InputOf,       \* what they are fingerprints of
    BundleOf,      \* the bundle of each batch
    Others,        \* batches that other importers bring
    Indices,       \* index codes the benchmark tables can hold: six digits
    Horizon,       \* days the provider's history reaches back
    MaxSessions,   \* sessions of one request, 10 in the code
    MaxAttempts,   \* attempts of one operation, 1 to 3
    NoJob          \* an idle acquirer

Role == {"listed", "calendar", "daily", "benchmark"}

(* CAPABILITY_PLANNING_REGISTRY: budgeted fields per row, and the           *)
(* capabilities that take one request per identity.                         *)
FieldsOf == [listed |-> 6, calendar |-> 3, daily |-> 11, adjusted |-> 11, benchmark |-> 10]
PerIdentity == {"daily", "adjusted", "benchmark"}

ASSUME AcquisitionAssumption ==
    /\ Others \subseteq Batches /\ Horizon \in Nat
    /\ MaxSessions \in Nat \ {0} /\ MaxAttempts \in 1..3
    /\ DOMAIN InputOf = Inputs /\ DOMAIN BundleOf = Batches
    /\ \A a, b \in Batches : BundleOf[a] = BundleOf[b] => a = b
    /\ \A b \in Batches :
           SeriesOf[b] = BundleOf[b].owner /\ CutoffOf[b] = BundleOf[b].cutoff

(* The days of a request are a sorted tuple: they have a last one.          *)
ASSUME DaysAssumption ==
    \A f \in Inputs :
        LET days == InputOf[f].selector["daily"].sessions
        IN  /\ days \subseteq Nat /\ InputOf[f].cutoff \in Nat
            /\ days = {} \/ \E d \in days : \A e \in days : e <= d

VARIABLES
    job,       \* per caller: the input being stored and the market run so far
    outcomes   \* receipts, and the errors that name a market run

acquisitionVars == <<vars, job, outcomes>>

Latest(S) == CHOOSE d \in S : \A e \in S : e <= d

-----------------------------------------------------------------------------
(* One component                                                           *)

WithinHorizon(d, reference) == reference - Horizon <= d /\ d <= reference

ValidSessions(s) ==
    /\ s.sessions # {} /\ \A d \in s.sessions : WithinHorizon(d, s.reference)
    /\ s.capability \in PerIdentity => Cardinality(s.sessions) <= MaxSessions

(* A selector lists the observations it expects; none may be left to guess. *)
ValidObservations(s) ==
    /\ \A o \in s.expected : o[1] \in s.ids /\ o[2] \in s.sessions
    /\ s.ids = {o[1] : o \in s.expected} /\ s.sessions = {o[2] : o \in s.expected}

ValidSelector(s) ==
    /\ ValidSessions(s)
    /\ s.capability # "calendar" => s.ids # {}
    /\ s.capability \in PerIdentity => ValidObservations(s)

(* The keys of the rows that answer a selector.                             *)
Keys(s) == CASE s.capability = "listed"   -> s.ids
             [] s.capability = "calendar" -> s.sessions
             [] OTHER                     -> s.expected

PlannedCalls(s) == IF s.capability \in PerIdentity THEN Cardinality(s.ids) ELSE 1
EstimatedCells(s) == Cardinality(Keys(s)) * FieldsOf[s.capability]

(* Each plan is held against the whole of what remains.                     *)
Affordable(s, budget) ==
    PlannedCalls(s) <= budget.calls /\ EstimatedCells(s) <= budget.cells

(* What the executor does at each attempt; only timeouts and transient      *)
(* failures are tried again.                                                *)
Retried == {"timeout", "transient"}

Delivered(attempts) ==
    \E n \in 1..MaxAttempts :
        attempts[n] = "payload" /\ \A m \in 1..(n - 1) : attempts[m] \in Retried

(* A response has a row for each key, once, and no other.                   *)
ValidResponse(s, a) == a.wellFormed /\ a.keys = Keys(s)

CoveredSessions(s, a) ==
    CASE s.capability = "listed"   -> s.sessions
      [] s.capability = "calendar" -> a.keys
      [] OTHER                     -> {k[2] : k \in a.keys}

Gathered(i) ==
    \A r \in Role :
        LET s == i.selector[r]  a == i.answer[r]
        IN  /\ ValidSelector(s) /\ Affordable(s, i.budget)
            /\ Delivered(a.attempts) /\ ValidResponse(s, a)
            /\ CoveredSessions(s, a) = s.sessions

-----------------------------------------------------------------------------
(* The four together                                                       *)

Sessions(i) == i.selector["daily"].sessions

(* Mistake: the benchmark may reach over other sessions.                    *)
SameSessionsOfMarket(i) == i.selector["calendar"].sessions = Sessions(i)

SameSessions(i) ==
    /\ i.selector["calendar"].sessions = Sessions(i)
    /\ i.selector["benchmark"].sessions = Sessions(i)

Prepared(i) ==
    /\ \A r \in Role : i.selector[r].capability = r
    /\ i.selector["listed"].sessions = {i.cutoff}
    /\ \A r \in Role : i.selector[r].reference = i.cutoff
    /\ i.selector["listed"].ids = i.selector["daily"].ids
    /\ SameSessions(i)
    /\ i.answer["calendar"].closed = {}
    /\ i.selector["benchmark"].ids \subseteq Indices

(* The two bundles, one for each service.                                   *)
Market(i) ==
    [owner |-> "market", cutoff |-> i.cutoff, listed |-> i.answer["listed"].keys,
     open |-> i.answer["calendar"].keys \ i.answer["calendar"].closed,
     rows |-> i.answer["daily"].keys, edition |-> i.answer["daily"].edition]

Benchmark(i) ==
    [owner |-> "benchmark", cutoff |-> i.cutoff, listed |-> {}, open |-> {},
     rows |-> i.answer["benchmark"].keys, edition |-> i.answer["benchmark"].edition]

Batch(bundle) == CHOOSE b \in Batches : BundleOf[b] = bundle

Ready == {f \in Inputs : Gathered(InputOf[f]) /\ Prepared(InputOf[f])}

(* Every bundle an acquirer may import has its hash among the batches.      *)
ASSUME BundleAssumption ==
    \A f \in Ready :
        {Market(InputOf[f]), Benchmark(InputOf[f])} \subseteq {BundleOf[b] : b \in Batches}

-----------------------------------------------------------------------------
(* Storing it                                                              *)

AcquisitionInit ==
    /\ Init
    /\ job = [c \in Callers |-> NoJob]
    /\ outcomes = {}

Outcome(f, market, benchmark) == [input |-> f, market |-> market, benchmark |-> benchmark]

ASSUME JobAssumption ==
    \A f \in Inputs, m, n \in RunId \cup {NoRun} : NoJob # Outcome(f, m, n)

(* persist_foundation up to the market's import, which checks its bundle    *)
(* again and never finds it wanting.                                        *)
PersistFoundation(c, f) ==
    /\ job[c] = NoJob /\ f \in Ready
    /\ IngestBundle(c, Batch(Market(InputOf[f])))
    /\ job' = [job EXCEPT ![c] = Outcome(f, NoRun, NoRun)]
    /\ UNCHANGED outcomes

Answered(c) == job[c] # NoJob /\ pc[c] = "idle"
Stored(c)   == answer[c] \in {"new", "idempotent"}

(* The market is stored, by this call or before it.                         *)
PersistBenchmark(c) ==
    /\ Answered(c) /\ Stored(c) /\ job[c].market = NoRun
    /\ IngestBundle(c, Batch(Benchmark(InputOf[job[c].input])))
    /\ job' = [job EXCEPT ![c].market = named[c]]
    /\ UNCHANGED outcomes

Receipt(c) ==
    /\ Answered(c) /\ Stored(c) /\ job[c].market # NoRun
    /\ outcomes' = outcomes \cup {Outcome(job[c].input, job[c].market, named[c])}
    /\ job' = [job EXCEPT ![c] = NoJob]
    /\ UNCHANGED vars

(* An import failed: a market run stored before the benchmark's failure is  *)
(* named in the error and stays.  A crash tells nobody.                     *)
GiveUp(c) ==
    /\ Answered(c) /\ ~Stored(c)
    /\ outcomes' = IF answer[c] = "crashed" \/ job[c].market = NoRun THEN outcomes
                   ELSE outcomes \cup {Outcome(job[c].input, job[c].market, NoRun)}
    /\ job' = [job EXCEPT ![c] = NoJob]
    /\ UNCHANGED vars

(* Everybody else, and what goes on inside the two services.                *)
Import(c) == job[c] = NoJob /\ \E b \in Others : IngestBundle(c, b)

OthersGoOn ==
    /\ (\E c \in Callers : Import(c) \/ Step(c) \/ FaultyStep(c)) \/ Tick
    /\ UNCHANGED <<job, outcomes>>

Exhausted == Finished /\ UNCHANGED <<job, outcomes>>

AcquisitionNext ==
    \/ \E c \in Callers, f \in Inputs : PersistFoundation(c, f)
    \/ \E c \in Callers : PersistBenchmark(c) \/ Receipt(c) \/ GiveUp(c)
    \/ OthersGoOn
    \/ Exhausted

AcquisitionSpec == AcquisitionInit /\ [][AcquisitionNext]_acquisitionVars

-----------------------------------------------------------------------------
(* Handing a receipt on to Today Market                                    *)

(* A request for a live hand-off: its cutoff is its latest session.         *)
(* Mistake: it is not asked to be.                                          *)
AnyRequest(q) == q.sessions # {}

ValidRequest(q) == q.sessions # {} /\ q.cutoff = Latest(q.sessions)

(* project_live_foundation_receipt: the receipt is the one expected, covers *)
(* exactly what is asked for and has two components of that cutoff.         *)
Projects(q, o) ==
    /\ ValidRequest(q)
    /\ q.sessions = Sessions(InputOf[o.input]) /\ q.cutoff = InputOf[o.input].cutoff
    /\ o.market # o.benchmark
    /\ \A r \in {o.market, o.benchmark} : CutoffOf[batch[r]] = q.cutoff

-----------------------------------------------------------------------------
(* Properties                                                              *)

Receipts == {o \in outcomes : o.benchmark # NoRun}

(* What an acquirer is told of stands in the database, whoever stored it,   *)
(* whatever failed between the two imports: a named run is a success with   *)
(* what was acquired, unless its own commit was reported as an error, and   *)
(* the two runs of a receipt are of one cutoff and cover the same open      *)
(* sessions for exactly the stocks listed.                                  *)
OutcomesStand ==
    /\ \A o \in outcomes :
           o.market \notin lost =>
               Succeeded(o.market) /\ BundleOf[batch[o.market]] = Market(InputOf[o.input])
    /\ \A o \in Receipts :
           LET m == BundleOf[batch[o.market]]  n == BundleOf[batch[o.benchmark]]
           IN  /\ o.benchmark \notin lost =>
                      Succeeded(o.benchmark) /\ n = Benchmark(InputOf[o.input])
               /\ m.cutoff = n.cutoff
               /\ {k[2] : k \in m.rows} = m.open /\ {k[2] : k \in n.rows} = m.open
               /\ {k[1] : k \in m.rows} = m.listed

(* A receipt can be handed on exactly if its sessions reach its cutoff: one *)
(* for a cutoff without a session of its own is complete, stored, and of no *)
(* use to Today Market.                                                     *)
CompleteCanBeHandedOn ==
    \A o \in Receipts :
        LET i == InputOf[o.input]
        IN  Projects([sessions |-> Sessions(i), cutoff |-> i.cutoff], o)
                <=> i.cutoff \in Sessions(i)
=============================================================================
