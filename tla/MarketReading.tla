---------------------------- MODULE MarketReading ----------------------------
(***************************************************************************)
(* Reading Today Market while imports go on.                                *)
(*                                                                         *)
(* A reader fixes an information cutoff, a recorded-at boundary and a       *)
(* selection of series, and asks for the catalog of local series, the       *)
(* snapshot, the runtime status, a refresh or the read model.  None of the  *)
(* last four is one read: the snapshot takes one query per family, status   *)
(* and refresh select the run of every family again in a second session to  *)
(* name what was shown, and the read model selects the equity run a third   *)
(* time for its volume rules.  Every query sees the commits made so far.    *)
(*                                                                         *)
(* Imports are reduced to what such readers can tell apart (IngestionRuns   *)
(* has the whole protocol): a run stamps imported_at when it begins and     *)
(* completed_at before it commits, and a run whose commit went through      *)
(* unacknowledged is marked failed afterwards.  There is one series per     *)
(* family.  What the coordinator does with concurrent commands is in        *)
(* RefreshCoordinator; here an attempt that is let through runs at once.    *)
(***************************************************************************)
EXTENDS MarketContent, DemoRefresh, Sequences

CONSTANTS
    Bundles,    \* what an import may bring
    Beginnings, \* the runs the database may hold at first
    Asks,       \* the boundaries and selections a reader may fix
    MaxRuns,    \* bound: runs in the database
    MaxTime     \* bound: the clock

RunStatus == {"pending", "succeeded", "failed"}
RunRecord == [bundle : Bundles, imported : Nat, stamp : Nat, completed : Nat,
              status : RunStatus, doubtful : BOOLEAN]

(* Days and times are numbers.                                              *)
ASSUME BundleAssumption ==
    \A b \in Bundles : b.cutoff \in Nat /\ b.open \subseteq Nat
ASSUME BeginningAssumption ==
    \A g \in Beginnings :
        /\ g \in Seq(RunRecord) /\ Len(g) <= MaxRuns
        /\ \A r \in 1..Len(g) : Normalizes(g[r].bundle) /\ g[r].imported = 1
ASSUME AskAssumption ==
    \A q \in Asks : /\ "equity" \in q.keys /\ q.keys \subseteq Family
                    /\ q.cutoff \in Nat /\ q.recorded \in Nat
ASSUME ReadingBoundAssumption == MaxRuns \in Nat /\ MaxTime \in Nat \ {0}

VARIABLES
    now,        \* the wall clock
    runs,       \* ingestion_runs with their rows, by id
    ask,        \* the reader's boundaries and selected families
    op,         \* what is being asked, "idle" between requests
    todo,       \* the queries and checks the handler still has to make
    seen,       \* per family: the run the snapshot was built from
    named,      \* per family: the run the second session selected
    ruled,      \* the run the rules were computed from
    calm,       \* the boundary was settled when the request began
    listed,     \* the catalog of the boundary once it was settled
    confirmed,  \* the last status reply before the current request
    answer      \* the reply to the current request

dbVars     == <<now, runs>>
readerVars == <<ask, op, todo, seen, named, ruled, calm, listed, confirmed, answer>>
marketVars == <<dbVars, readerVars>>

Run(b, t, status) == [bundle |-> b, imported |-> t, stamp |-> t,
                      completed |-> t, status |-> status, doubtful |-> FALSE]
NoRun   == 0
NoRuns  == [f \in Family |-> NoRun]
RunIds  == 1..Len(runs)
NoReply == [op |-> "idle", outcome |-> "none", runs |-> NoRuns, content |-> {},
            anomalies |-> {}, demo |-> NoBatch]

Ops        == {"snapshot", "status", "refresh", "read_model"}
Identified == {"status", "refresh", "read_model"}

ReadingTypeOK ==
    /\ now \in 1..MaxTime /\ runs \in Seq(RunRecord) /\ Len(runs) <= MaxRuns
    /\ \A r \in RunIds : Normalizes(runs[r].bundle) /\ runs[r].imported \in 1..now
    /\ ask \in Asks /\ op \in Ops \cup {"idle"}
    /\ {seen, named} \subseteq [Family -> RunIds \cup {NoRun}]
    /\ ruled \in RunIds \cup {NoRun}

ReadingInit ==
    /\ now = 1 /\ runs \in Beginnings
    /\ ask \in Asks /\ op = "idle" /\ todo = <<>> /\ calm = FALSE
    /\ seen = NoRuns /\ named = NoRuns /\ ruled = NoRun
    /\ listed = [runs |-> NoRuns, calm |-> FALSE]
    /\ confirmed = NoReply /\ answer = NoReply

-----------------------------------------------------------------------------
(* Imports                                                                 *)

Tick == /\ now < MaxTime /\ now' = now + 1
        /\ UNCHANGED <<runs, readerVars>>

Begin(b) ==
    /\ Len(runs) < MaxRuns /\ Normalizes(b)
    /\ runs' = Append(runs, [Run(b, now, "pending") EXCEPT !.stamp = 0, !.completed = 0])
    /\ UNCHANGED <<now, readerVars>>

(* completed_at is sampled while the rows are being flushed.                *)
Stamp(r) ==
    /\ runs[r].status = "pending" /\ runs[r].stamp = 0
    /\ runs' = [runs EXCEPT ![r].stamp = now]
    /\ UNCHANGED <<now, readerVars>>

(* The commit; the importer may not learn that it went through.             *)
Commit(r, acknowledged) ==
    /\ runs[r].status = "pending" /\ runs[r].stamp # 0
    /\ runs' = [runs EXCEPT ![r].status = "succeeded",
                            ![r].completed = runs[r].stamp,
                            ![r].doubtful = ~acknowledged]
    /\ UNCHANGED <<now, readerVars>>

(* _mark_failed: after a failed attempt, or one that only seemed to fail.   *)
MarkFailed(r) ==
    /\ runs[r].status = "pending" \/ runs[r].doubtful
    /\ runs' = [runs EXCEPT ![r].status = "failed", ![r].completed = now,
                            ![r].doubtful = FALSE]
    /\ UNCHANGED <<now, readerVars>>

-----------------------------------------------------------------------------
(* Which run a query selects                                               *)

Recorded(r) == /\ runs[r].imported <= ask.recorded
               /\ runs[r].completed # 0 /\ runs[r].completed <= ask.recorded

Readable(f) == {r \in RunIds : /\ runs[r].status = "succeeded"
                               /\ runs[r].bundle.family = f
                               /\ runs[r].bundle.cutoff <= ask.cutoff}

(* ORDER BY information_cutoff_date DESC, completed_at DESC, id DESC.       *)
Newer(r, q) ==
    LET cr == runs[r].bundle.cutoff   cq == runs[q].bundle.cutoff
        tr == runs[r].completed       tq == runs[q].completed
    IN  cr > cq \/ (cr = cq /\ (tr > tq \/ (tr = tq /\ r > q)))

Newest(S) == IF S = {} THEN NoRun
             ELSE CHOOSE r \in S : \A q \in S \ {r} : Newer(r, q)

(* load_snapshot of the three repositories, bound to the recorded time.     *)
Loaded(f) == Newest({r \in Readable(f) : Recorded(r)})

(* _authoritative_component: the run a component of the identity names.     *)
AuthoritativeRun(f) == Newest({r \in Readable(f) : Recorded(r)})

RuleSourceUnbound == Newest(Readable("equity"))

(* The equity run whose volumes the read model's rules look at.             *)
RuleSource == Newest({r \in Readable("equity") : Recorded(r)})

(* _build_catalog: the first run of each series, in the same order.         *)
Listed(f) == Newest({r \in Readable(f) : Recorded(r)})

-----------------------------------------------------------------------------
(* What a reply shows, as a function of the runs that were selected         *)

BundleOf(r) == runs[r].bundle

Refusal(f, s) ==
    IF s[f] = NoRun THEN "not_visible"
    ELSE IF f # "equity" THEN ContextRefusal(BundleOf(s[f]), BundleOf(s.equity), ask.cutoff)
    ELSE IF Sessions(BundleOf(s.equity), ask.cutoff) = {} THEN "incompatible" ELSE "none"

Through(s) == Effective(BundleOf(s.equity), ask.cutoff)

Content(s) ==
    LET e == BundleOf(s.equity)
    IN  {[equity   |-> EquityContent(e, ask.cutoff),
          contexts |-> [f \in ask.keys \cap Contexts |->
                          ContextContent(BundleOf(s[f]), e, ask.cutoff)]]}

NamedRun(f, s, n) == n[f] # NoRun

(* _bind_component_to_service: the run named is the run that was shown.     *)
SameRun(f, s, n) == n[f] = s[f]

Bound(s, n) ==
    \A f \in ask.keys :
        /\ SameRun(f, s, n)
        /\ f \in Contexts =>
             ContextSession(BundleOf(s[f]), BundleOf(s.equity), ask.cutoff) # 0

Reply(o, outcome) == [NoReply EXCEPT !.op = o, !.outcome = outcome]

(* A reply built from the snapshot of s, named as n, with rules from r.     *)
Shown(o, s, n, r) ==
    [Reply(o, "shown") EXCEPT
        !.runs      = IF o \in Identified THEN n ELSE NoRuns,
        !.content   = Content(s),
        !.anomalies = IF o = "read_model" THEN {Anomalies(BundleOf(r), Through(s))}
                      ELSE {}]

(* _compare_command_scope: the prior snapshot is still the one confirmed.   *)
StillCurrent(s, n) == n = confirmed.runs /\ Content(s) = confirmed.content

-----------------------------------------------------------------------------
(* The handlers                                                            *)

Families3 == <<"equity", "benchmark", "sector">>

(* The equity series is always selected.                                    *)
Selects(kind) ==
    <<<<kind, "equity">>>>
    \o (IF "benchmark" \in ask.keys THEN <<<<kind, "benchmark">>>> ELSE <<>>)
    \o (IF "sector" \in ask.keys THEN <<<<kind, "sector">>>> ELSE <<>>)

Work(o) == Selects("show")
           \o (IF o \in Identified THEN Selects("name") \o <<<<"bind", "equity">>>>
               ELSE <<>>)
           \o (IF o = "read_model" THEN <<<<"rule", "equity">>>> ELSE <<>>)

(* Nothing recorded by the boundary can still appear, change or go.         *)
Settled ==
    /\ ask.recorded < now
    /\ \A r \in RunIds : runs[r].imported <= ask.recorded =>
                            runs[r].status # "pending" /\ ~runs[r].doubtful

(* A catalog of a boundary that is not settled promises nothing.            *)
List ==
    /\ op = "idle" /\ Settled
    /\ listed' = [runs |-> [f \in Family |-> Listed(f)], calm |-> TRUE]
    /\ UNCHANGED <<dbVars, ask, op, todo, seen, named, ruled, calm, confirmed, answer>>

(* A request; a refresh carries the identity the last status reply named.   *)
Request(o) ==
    LET latest == IF answer.outcome = "shown" /\ answer.op = "status"
                  THEN answer ELSE confirmed
    IN  /\ op = "idle"
        /\ o = "refresh" => latest # NoReply
        /\ op' = o /\ todo' = Work(o) /\ calm' = Settled
        /\ confirmed' = latest /\ answer' = NoReply
        /\ seen' = NoRuns /\ named' = NoRuns /\ ruled' = NoRun
        /\ UNCHANGED <<dbVars, ask, listed>>

Doing(kind, f) == todo # <<>> /\ Head(todo) = <<kind, f>>

Go == /\ todo' = Tail(todo) /\ UNCHANGED <<op, answer>>

Fail(why) == /\ todo' = <<>> /\ op' = "idle" /\ answer' = Reply(op, why)

(* One family of build_snapshot: its query, and what is computed from it.   *)
Show(f) ==
    /\ Doing("show", f)
    /\ LET s == [seen EXCEPT ![f] = Loaded(f)]
       IN  /\ seen' = s
           /\ IF Refusal(f, s) = "none" THEN Go ELSE Fail(Refusal(f, s))
    /\ UNCHANGED <<dbVars, ask, named, ruled, calm, listed, confirmed>>

(* One family of the second session of build_prior_snapshot_context.        *)
Name(f) ==
    /\ Doing("name", f)
    /\ named' = [named EXCEPT ![f] = AuthoritativeRun(f)]
    /\ IF AuthoritativeRun(f) # NoRun THEN Go ELSE Fail("identity_conflict")
    /\ UNCHANGED <<dbVars, ask, seen, ruled, calm, listed, confirmed>>

Bind ==
    /\ Doing("bind", "equity")
    /\ IF Bound(seen, named) THEN Go ELSE Fail("identity_conflict")
    /\ UNCHANGED <<dbVars, ask, seen, named, ruled, calm, listed, confirmed>>

(* _ordinary_user_rule_inputs: a session of its own; nothing catches that   *)
(* the run is no longer there.                                              *)
Rule ==
    /\ Doing("rule", "equity")
    /\ ruled' = RuleSource
    /\ IF RuleSource # NoRun THEN Go ELSE Fail("error")
    /\ UNCHANGED <<dbVars, ask, seen, named, calm, listed, confirmed>>

Deliver ==
    /\ op \in Ops \ {"refresh"} /\ todo = <<>>
    /\ op' = "idle" /\ answer' = Shown(op, seen, named, ruled)
    /\ UNCHANGED <<dbVars, ask, todo, seen, named, ruled, calm, listed, confirmed>>

(* A refresh let through is planned from the rebuilt prior snapshot.        *)
Attempt(scenario) ==
    LET result == Refresh(Through(seen), ask.cutoff, scenario)
    IN  /\ op = "refresh" /\ todo = <<>> /\ StillCurrent(seen, named)
        /\ op' = "idle"
        /\ answer' = [Reply("refresh", result.phase) EXCEPT
                        !.runs = named, !.content = Content(seen), !.demo = result.demo]
        /\ UNCHANGED <<dbVars, ask, todo, seen, named, ruled, calm, listed, confirmed>>

RefuseMoved ==
    /\ op = "refresh" /\ todo = <<>> /\ ~StillCurrent(seen, named)
    /\ Fail("moved")
    /\ UNCHANGED <<dbVars, ask, seen, named, ruled, calm, listed, confirmed>>

ReadingNext ==
    \/ Tick
    \/ \E b \in Bundles : Begin(b)
    \/ \E r \in RunIds : Stamp(r) \/ MarkFailed(r)
    \/ \E r \in RunIds, acknowledged \in BOOLEAN : Commit(r, acknowledged)
    \/ List
    \/ \E o \in Ops : Request(o)
    \/ \E f \in Family : Show(f) \/ Name(f)
    \/ Bind \/ Rule \/ Deliver \/ RefuseMoved
    \/ \E s \in Scenarios : Attempt(s)

ReadingSpec == ReadingInit /\ [][ReadingNext]_marketVars

-----------------------------------------------------------------------------
(* Properties                                                              *)

(* What a request would be answered if all of it were one read of the       *)
(* database as it is now.                                                   *)
AtOnce(o) ==
    LET s == [f \in Family |-> IF f \in ask.keys THEN Loaded(f) ELSE NoRun]
        refused == {i \in 1..3 : /\ Families3[i] \in ask.keys
                                 /\ \A j \in 1..(i - 1) :
                                        Families3[j] \in ask.keys =>
                                            Refusal(Families3[j], s) = "none"
                                 /\ Refusal(Families3[i], s) # "none"}
    IN  IF refused # {} THEN Reply(o, Refusal(Families3[Min(refused)], s))
        ELSE IF o \in Identified /\ ~Bound(s, s) THEN Reply(o, "identity_conflict")
        ELSE Shown(o, s, s, s.equity)

(* A reply about a settled boundary is one reading of the database, however *)
(* many sessions the handler used and whatever was imported meanwhile; and  *)
(* the catalog's option of that boundary is the run that opens under it:    *)
(* the queries of the catalog, the repositories and the components, written *)
(* three times, choose alike, and an equity option always opens.            *)
SettledIsOneReading ==
    /\ calm /\ answer.op \in {"snapshot", "status", "read_model"} =>
           answer = AtOnce(answer.op)
    /\ listed.calm /\ calm =>
           /\ answer.outcome = "shown" => \A f \in ask.keys : seen[f] = listed.runs[f]
           /\ answer.outcome = "not_visible" /\ ask.keys = {"equity"} =>
                 listed.runs.equity = NoRun

(* Two replies under one snapshot identity show the same content: what an   *)
(* identity names is what was read, also when a run commits between the     *)
(* session that reads and the one that names.                               *)
IdentityNamesContent ==
    answer.runs # NoRuns /\ answer.runs = confirmed.runs =>
        answer.content = confirmed.content

(* A refresh answers for the gap behind the snapshot its client was shown:  *)
(* a demo covers, in every required family, exactly the weekdays missing    *)
(* after it, and is neither run without a gap nor for one above the ceiling.*)
RefreshFillsTheGap ==
    LET shown == CHOOSE c \in confirmed.content : TRUE
        gap   == {d \in Weekdays : shown.equity.through < d /\ d <= ask.cutoff}
    IN  answer.op = "refresh" =>
          /\ answer.outcome = "no_refresh_needed" => gap = {}
          /\ answer.outcome = "manual_catchup_required" => Cardinality(gap) > Ceiling
          /\ answer.outcome = "failed_retained_prior" =>
                Cardinality(gap) \in 1..Ceiling /\ answer.demo = NoBatch
          /\ answer.outcome = "demo_published" =>
                /\ Cardinality(gap) \in 1..Ceiling
                /\ answer.demo.covered = [f \in Capabilities |-> gap]
=============================================================================
