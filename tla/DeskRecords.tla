---------------------------- MODULE DeskRecords ----------------------------
(***************************************************************************)
(* What the research desk's HTTP API reads and writes: session revisions,  *)
(* candidate revisions, reviewed plans, accepted outputs and the Stage 1   *)
(* rows an acceptance binds (src/backend/api/industry_analysis*.py and the *)
(* industry_thesis_*workbench and *_query services below them).            *)
(*                                                                         *)
(* Every row carries the time it was recorded at, and every read takes a   *)
(* boundary: it sees the rows recorded by then, but asks for the latest    *)
(* revision number of a session as it is now.  A command is one step here; *)
(* ThesisSession shows that its transactions behave so.  Information        *)
(* cutoffs, evidence, semantic profiles and the map's assertions are left   *)
(* out: one cutoff, one frozen map with one frozen pool, complete links.    *)
(***************************************************************************)
EXTENDS Naturals, FiniteSets

CONSTANTS Company,       \* companies a scope may name
          Pooled,        \* members of the frozen pool of the one map
          Status,        \* assessments a Stage 1 revision may carry
          Beginning,     \* the histories the desk may find
          MaxSessions, MaxOwned, MaxTime   \* bounds for TLC

ASSUME DeskAssumption ==
    /\ IsFiniteSet(Company) /\ Pooled \subseteq Company
    /\ Status \subseteq {"draft", "supported", "disputed", "rejected"}
    /\ Beginning \subseteq {"empty", "ready", "built", "legacy", "reviewed", "known"}
    /\ MaxSessions \in Nat /\ MaxOwned \in Nat /\ MaxTime \in Nat

VARIABLES revs,     \* session revisions
          cands,    \* candidate revisions, bound to a session revision
          plans,    \* reviewed plans, by session revision
          outputs,  \* accepted outputs
          owners,   \* Stage 1 beneficiary revisions
          pools,    \* Stage 1 pool revisions written for acceptances
          now       \* the latest time anything was recorded at

rows == <<revs, cands, plans, outputs, owners, pools, now>>

Greatest(S) == IF S = {} THEN 0 ELSE CHOOSE n \in S : \A m \in S : m <= n

---------------------------------------------------------------------------
(* Reads.                                                                  *)

Visible(row, b) == row.at <= b

Revisions(s) == {r \in revs : r.session = s}
LatestNo(s) == Greatest({r.no : r \in Revisions(s)})
Exact(s, n) == {r \in Revisions(s) : r.no = n}

Ok(body) == [ok |-> TRUE, body |-> body]
Fail(why) == [ok |-> FALSE, why |-> why]

Path(page, s, n, b) == [page |-> page, session |-> s, no |-> n, at |-> b]

(* The history lists the latest visible revision of every session.         *)
Listing(b) ==
    {r \in revs : Visible(r, b) /\ \A q \in Revisions(r.session) : Visible(q, b) => q.no <= r.no}

(* Where the API sends the reader of a listed revision, at the boundary at *)
(* which that revision was recorded.                                       *)
Surface(workflow) ==
    CASE workflow = "draft" -> "scope"
      [] workflow = "ready" -> "review"
      [] workflow = "reviewed" -> "result"
      [] workflow = "accepted" -> "accepted"

Continuation(r) == Path(Surface(r.workflow), r.session, r.no, r.at)

(* One revision, if the boundary lets it be seen.                          *)
ExactRevision(s, n, b) == {r \in Exact(s, n) : Visible(r, b)}

ReadRevision(s, n, b) ==
    IF ExactRevision(s, n, b) = {} THEN Fail("hidden")
    ELSE Ok(CHOOSE r \in ExactRevision(s, n, b) : TRUE)

(* What a candidate build can draw on: the seeds of the scope, and the     *)
(* frozen pool of the map it names.                                        *)
CompanySeeds(r) == r.scope.seeds
EligiblePools(r) == IF r.scope.map THEN {Pooled} \ {{}} ELSE {}
MapOptions(r) == EligiblePools(r)

SourceOptions(s, n, b) ==
    IF ExactRevision(s, n, b) = {} THEN Fail("hidden")
    ELSE LET r == CHOOSE x \in ExactRevision(s, n, b) : TRUE
         IN Ok([no |-> n, workflow |-> r.workflow,
                latest |-> LatestNo(s) = n,
                allowed |-> LatestNo(s) = n /\ r.workflow = "ready",
                seeds |-> CompanySeeds(r), pools |-> MapOptions(r)])

(* A seed's candidate belongs to the revision that names the seed; a pool  *)
(* member's candidate is the same in every revision.                       *)
SeedProposal(n, c) == [source |-> "seed", of |-> n, company |-> c]
PoolMembers(pool) == {[source |-> "pool", of |-> 0, company |-> c] : c \in pool}
Proposals(options, chosen) ==
    {SeedProposal(options.no, c) : c \in options.seeds} \union UNION {PoolMembers(p) : p \in chosen}

(* A build names the exact latest revision, eligible pools, at most one of *)
(* a map, and at least one candidate.                                      *)
OneOfAMap(chosen) == Cardinality(chosen) <= 1

ComposeBuild(s, n, b, expected, chosen) ==
    LET options == SourceOptions(s, n, b)
    IN IF ~options.ok THEN options
       ELSE IF ~options.body.allowed \/ expected # n THEN Fail("conflict")
       ELSE IF ~(chosen \subseteq options.body.pools) \/ ~OneOfAMap(chosen)
               \/ Proposals(options.body, chosen) = {}
            THEN Fail("invalid")
       ELSE Ok(Proposals(options.body, chosen))

(* The candidates bound to a revision that the boundary lets be seen.      *)
Universe(s, n, b) == {c \in cands : c.session = s /\ c.bound = n /\ Visible(c, b)}

ReadUniverse(s, n, b) ==
    IF ExactRevision(s, n, b) = {} THEN Fail("hidden") ELSE Ok(Universe(s, n, b))

Candidates(s) == {c.key : c \in {x \in cands : x.session = s}}
LatestOf(s, k) == Greatest({c.no : c \in {x \in cands : x.session = s /\ x.key = k}})

(* A review sees every candidate of the session in its latest revision,    *)
(* proposed in this very session revision.                                 *)
ReviewView(s, n, b) ==
    LET universe == Universe(s, n, b)
    IN IF ExactRevision(s, n, b) = {} THEN Fail("hidden")
       ELSE IF LatestNo(s) # n THEN Fail("conflict")
       ELSE IF \A r \in Exact(s, n) : r.workflow # "ready" THEN Fail("invalid")
       ELSE IF \/ Cardinality(Candidates(s)) # Cardinality(universe)
               \/ \E c \in universe : c.no # LatestOf(s, c.key) \/ c.state # "proposed"
            THEN Fail("stale")
       ELSE Ok(universe)

PlanOf(s, n) == {p \in plans : p.session = s /\ p.no = n}

(* A reviewed plan is read with all of its candidates or not at all; they  *)
(* were recorded after the revision that carries it.                       *)
ReviewedPlan(s, n, b) ==
    IF \/ {r \in ExactRevision(s, n, b) : r.workflow = "reviewed"} = {}
       \/ \E c \in {x \in cands : x.session = s /\ x.bound = n} : ~Visible(c, b)
    THEN Fail("hidden")
    ELSE Ok(CHOOSE p \in PlanOf(s, n) : TRUE)

(* Its context names a map revision; a plan of the first version has none. *)
Legacy(plan) == plan.version = 1

ResultView(s, n, b) == ReviewedPlan(s, n, b)

---------------------------------------------------------------------------
(* What an acceptance can bind.                                            *)

OwnersOf(c) == {o \in owners : o.company = c}
OnOffer(c, b) == {o \in OwnersOf(c) : o.status # "rejected" /\ Visible(o, b)}
LatestOffer(c, b) == Greatest({o.no : o \in OnOffer(c, b)})

ReuseOptions(c, b) == {[op |-> "reuse", no |-> o.no, status |-> o.status] : o \in OnOffer(c, b)}
Authored(op, no) == {[op |-> op, no |-> no, status |-> v] : v \in Status \ {"rejected"}}

(* What a new company is grounded in is drawn from the companies on offer.  *)
Grounds(b) == UNION {OnOffer(c, b) : c \in Company}

(* A company is appended to at its latest visible revision, and created    *)
(* only when none is visible.                                              *)
MemberOptions(c, b) ==
    IF OnOffer(c, b) # {} THEN ReuseOptions(c, b) \union Authored("append", LatestOffer(c, b))
    ELSE IF Grounds(b) # {} THEN Authored("create", 0) ELSE {}

VisiblePools(b) == {p \in pools : Visible(p, b)}
LatestPools(b) == {p \in VisiblePools(b) : \A q \in VisiblePools(b) : q.id = p.id => q.no <= p.no}

PoolOption(op, p) == [op |-> op, id |-> p.id, no |-> p.no, members |-> p.members]
PoolOptions(b) ==
    {PoolOption("reuse", p) : p \in VisiblePools(b)} \union {PoolOption("append", p) : p \in LatestPools(b)}

AnyPool == [id |-> <<0, 0>>, no |-> 0, members |-> {}]
NoPool == PoolOption("none", AnyPool)
NewPool == PoolOption("create", AnyPool)

(* The view of a reviewed plan that is still its session's latest, with a  *)
(* context and something selected.                                         *)
AcceptanceView(s, n, b) ==
    LET read == ReviewedPlan(s, n, b)
    IN IF ~read.ok THEN read
       ELSE IF Legacy(read.body) THEN Fail("notready")
       ELSE IF LatestNo(s) # n THEN Fail("stale")
       ELSE IF read.body.selected = {} THEN Fail("invalid")
       ELSE Ok([members |-> [k \in read.body.selected |-> MemberOptions(k.company, b)],
                pools |-> PoolOptions(b)])

(* An output is read with everything it binds, within the boundary.        *)
OutputOf(s, n) == {o \in outputs : o.session = s /\ o.accepted = n}

Binds(k, i) == <<k.company, IF i.op = "reuse" THEN i.no ELSE i.no + 1>>

Bound(output) ==
    {o \in owners : \E k \in DOMAIN output.plan.bindings :
        Binds(k, output.plan.bindings[k]) = <<o.company, o.no>>}

Readable(output, b) == Visible(output, b)

OutputGraph(output, b) ==
    /\ \A o \in Bound(output) : Visible(o, b)
    /\ Cardinality(Bound(output)) = Cardinality({k.company : k \in DOMAIN output.plan.bindings})

AcceptedView(s, n, b) ==
    IF \E o \in OutputOf(s, n) : ExactRevision(s, n, b) # {} /\ Readable(o, b) /\ OutputGraph(o, b)
    THEN Ok(CHOOSE o \in OutputOf(s, n) : TRUE) ELSE Fail("incomplete")
---------------------------------------------------------------------------
(* Commands.  An answer is what the caller is told, and where it is sent    *)
(* next; the rows of a command that is not answered "ok" are rolled back.   *)

Sessions == {r.session : r \in revs}
NextSession == Cardinality(Sessions) + 1

(* The boundary an answer carries lets all that the command wrote be seen.  *)
SettledAtOnce(c) == now + 1
Settled(c) == IF c.kind = "review" THEN now + 2 ELSE now + 1

RevisionRow(s, n, workflow, scope) ==
    [session |-> s, no |-> n, workflow |-> workflow, scope |-> scope, at |-> now + 1]

ScopeOf(s, n) == (CHOOSE r \in Exact(s, n) : TRUE).scope

(* A scope is saved as a draft, in a session of its own or as the next      *)
(* revision of one, which has to change something.                          *)
SaveAnswer(c) ==
    IF c.no = 0 THEN Ok(Path("scope", NextSession, 1, Settled(c)))
    ELSE IF LatestNo(c.session) # c.no THEN Fail("conflict")
    ELSE IF \E r \in Exact(c.session, c.no) : r.workflow = "draft" /\ r.scope = c.scope THEN Fail("unchanged")
    ELSE Ok(Path("scope", c.session, c.no + 1, Settled(c)))

SaveRows(c) ==
    /\ revs' = revs \union
           {RevisionRow(IF c.no = 0 THEN NextSession ELSE c.session, c.no + 1, "draft", c.scope)}
    /\ now' = now + 1
    /\ UNCHANGED <<cands, plans, outputs, owners, pools>>

(* Preparing a scope for candidates is a revision, too.                     *)
PrepareAnswer(c) ==
    IF LatestNo(c.session) # c.no THEN Fail("conflict")
    ELSE Ok(Path("review", c.session, c.no + 1, Settled(c)))

PrepareRows(c) ==
    /\ revs' = revs \union {RevisionRow(c.session, c.no + 1, "ready", ScopeOf(c.session, c.no))}
    /\ now' = now + 1
    /\ UNCHANGED <<cands, plans, outputs, owners, pools>>

(* A candidate of a map is looked up again in its frozen pool.              *)
Sourced(k) == k.source = "pool" => k.company \in Pooled

(* A build over HTTP names no revision of a candidate that exists.          *)
BuildAnswer(c) ==
    IF LatestNo(c.session) # c.no \/ c.proposals \intersect Candidates(c.session) # {}
    THEN Fail("conflict")
    ELSE IF \E k \in c.proposals : ~Sourced(k) THEN Fail("invalid")
    ELSE Ok(Path("review", c.session, c.no, Settled(c)))

BuildRows(c) ==
    /\ cands' = cands \union
           {[session |-> c.session, key |-> k, no |-> 1, bound |-> c.no, state |-> "proposed", at |-> now + 1] :
               k \in c.proposals}
    /\ now' = now + 1
    /\ UNCHANGED <<revs, plans, outputs, owners, pools>>

(* What a review has to decide: all a review view shows, or all that a plan *)
(* of the first version covers.                                            *)
ToDecide(s, n, b) ==
    LET view == ReviewView(s, n, b)
        read == ReviewedPlan(s, n, b)
    IN IF view.ok THEN view
       ELSE IF read.ok THEN (IF Legacy(read.body) THEN Ok(Universe(s, n, b)) ELSE view)
       ELSE read

ComposeReview(c) ==
    LET decide == ToDecide(c.session, c.no, c.at)
    IN IF c.version # 2 THEN Fail("unsupported")
       ELSE IF ~decide.ok THEN decide
       ELSE IF c.decided # {x.key : x \in decide.body} THEN Fail("incomplete")
       ELSE Ok(c.decided)

OneEach(keys) == \A j, k \in keys : j.company = k.company => j = k

Outputs(s, n) == {o \in outputs : o.session = s /\ o.reviewed = n}

Reviewable(s, n) ==
    \E r \in Exact(s, n) :
        \/ r.workflow = "ready"
        \/ r.workflow = "reviewed" /\ (\E p \in PlanOf(s, n) : Legacy(p)) /\ Outputs(s, n) = {}

LatestBound(s, n) == \A c \in cands : c.session = s /\ c.no = LatestOf(s, c.key) => c.bound = n

ReviewAnswer(c) ==
    IF LatestNo(c.session) # c.no THEN Fail("conflict")
    ELSE IF ~Reviewable(c.session, c.no) THEN Fail("invalid")
    ELSE IF ~LatestBound(c.session, c.no) THEN Fail("stale")
    ELSE IF c.decided # Candidates(c.session) THEN Fail("incomplete")
    ELSE IF ~OneEach(c.selected) THEN Fail("conflict")
    ELSE Ok(Path("result", c.session, c.no + 1, Settled(c)))

(* The reviewed candidates are recorded just after the reviewed revision.   *)
ReviewRows(c) ==
    /\ revs' = revs \union {RevisionRow(c.session, c.no + 1, "reviewed", ScopeOf(c.session, c.no))}
    /\ cands' = cands \union
           {[session |-> c.session, key |-> k, no |-> LatestOf(c.session, k) + 1, bound |-> c.no + 1,
             state |-> IF k \in c.selected THEN "selected" ELSE "rejected", at |-> now + 2] :
               k \in c.decided}
    /\ plans' = plans \union
           {[session |-> c.session, no |-> c.no + 1, version |-> 2, selected |-> c.selected]}
    /\ now' = now + 2
    /\ UNCHANGED <<outputs, owners, pools>>

(* A plan of acceptance has to be one the view at the caller's boundary     *)
(* offers, and the view has to be the one the caller was shown.             *)
ComposeAccept(c) ==
    LET view == AcceptanceView(c.session, c.no, c.at)
    IN IF ~view.ok THEN view
       ELSE IF c.view # view.body THEN Fail("mismatch")
       ELSE IF \/ DOMAIN c.plan.bindings # DOMAIN view.body.members
               \/ \E k \in DOMAIN c.plan.bindings : c.plan.bindings[k] \notin view.body.members[k]
               \/ c.plan.pool \notin view.body.pools \union {NoPool, NewPool}
            THEN Fail("outside")
       ELSE Ok(c.plan)

(* The revisions a pool takes on from a plan.                               *)
Supported(bindings) ==
    {Binds(k, bindings[k]) : k \in {x \in DOMAIN bindings : bindings[x].status = "supported"}}

(* A company is created once, appended to at its latest revision, and reused *)
(* at a revision it has.                                                    *)
UnmovedIfKnown(company, i) ==
    CASE i.op = "create" -> OwnersOf(company) = {}
      [] i.op # "create" -> \E o \in OwnersOf(company) : o.no = i.no

Unmoved(company, i) ==
    CASE i.op = "create" -> OwnersOf(company) = {}
      [] i.op = "append" -> Greatest({o.no : o \in OwnersOf(company)}) = i.no
      [] i.op = "reuse" -> \E o \in OwnersOf(company) : o.no = i.no

LatestPoolNo(id) == Greatest({p.no : p \in {x \in pools : x.id = id}})

PoolAllowedIfKnown(plan) ==
    /\ \A k \in DOMAIN plan.bindings : Unmoved(k.company, plan.bindings[k])
    /\ plan.pool.op = "none" <=> Supported(plan.bindings) = {}
    /\ plan.pool.op = "append" => LatestPoolNo(plan.pool.id) >= plan.pool.no
    /\ plan.pool.op = "reuse" =>
           \E p \in pools : p.id = plan.pool.id /\ p.no = plan.pool.no /\ p.members = Supported(plan.bindings)

OwnersAllow(plan) ==
    /\ \A k \in DOMAIN plan.bindings : Unmoved(k.company, plan.bindings[k])
    /\ plan.pool.op = "none" <=> Supported(plan.bindings) = {}
    /\ plan.pool.op = "append" => LatestPoolNo(plan.pool.id) = plan.pool.no
    /\ plan.pool.op = "reuse" =>
           \E p \in pools : p.id = plan.pool.id /\ p.no = plan.pool.no /\ p.members = Supported(plan.bindings)

(* What is accepted is all that a plan with a context selects.              *)
InContext(c) == \E p \in PlanOf(c.session, c.no) : ~Legacy(p) /\ DOMAIN c.plan.bindings = p.selected

(* The Stage 1 rows a plan builds on: every revision of the companies it     *)
(* creates or appends to, and of the pool it appends to; of what it reuses,  *)
(* the revision it names.                                                  *)
Underlying(plan) ==
    [owners |-> {o \in owners : \E k \in DOMAIN plan.bindings :
                    /\ k.company = o.company
                    /\ plan.bindings[k].op = "reuse" => o.no = plan.bindings[k].no},
     pools |-> {p \in pools : plan.pool.op \in {"append", "reuse"} /\ p.id = plan.pool.id
                               /\ (plan.pool.op = "reuse" => p.no = plan.pool.no)}]

NoPlan == [bindings |-> <<>>, pool |-> NoPool]

(* A preview runs the acceptance and rolls it back; what the owners refuse  *)
(* is answered, as not ready and with no fingerprint of the plan.  The page  *)
(* it was for and the rows it found are kept along for CommitWasShown.       *)
PreviewAnswer(c) ==
    LET ready == /\ LatestNo(c.session) = c.no /\ Outputs(c.session, c.no) = {}
                 /\ InContext(c) /\ OwnersAllow(c.plan)
    IN Ok([ready |-> ready, plan |-> IF ready THEN c.plan ELSE NoPlan,
           of |-> Path("acceptance", c.session, c.no, c.at), found |-> Underlying(c.plan)])

NoPreview ==
    [ready |-> FALSE, plan |-> NoPlan, of |-> Path("none", 0, 0, 0), found |-> [owners |-> {}, pools |-> {}]]

AcceptAnswer(c) ==
    LET before == Outputs(c.session, c.no)
    IN IF c.shown.plan # c.plan THEN Fail("stale")
       ELSE IF \E o \in before : o.plan = c.plan
            THEN LET o == CHOOSE x \in before : TRUE IN Ok(Path("accepted", c.session, o.accepted, o.at))
       ELSE IF before # {} THEN Fail("conflict")
       ELSE IF LatestNo(c.session) # c.no THEN Fail("stale")
       ELSE IF ~InContext(c) THEN Fail("notready")
       ELSE IF ~OwnersAllow(c.plan) THEN Fail("conflict")
       ELSE Ok(Path("accepted", c.session, c.no + 1, Settled(c)))

PoolRow(id, no, members, at) == [id |-> id, no |-> no, members |-> members, at |-> at]

PoolWritten(c) ==
    CASE c.plan.pool.op = "create" -> {PoolRow(<<c.session, c.no>>, 1, Supported(c.plan.bindings), now + 1)}
      [] c.plan.pool.op = "append" ->
             {PoolRow(c.plan.pool.id, c.plan.pool.no + 1, Supported(c.plan.bindings), now + 1)}
      [] OTHER -> {}

(* An output that exists already is answered and not written again.  What    *)
(* its reader was shown and as of when is kept with it.                     *)
AcceptRows(c) ==
    IF Outputs(c.session, c.no) # {} THEN UNCHANGED rows
    ELSE /\ revs' = revs \union {RevisionRow(c.session, c.no + 1, "accepted", ScopeOf(c.session, c.no))}
         /\ owners' = owners \union
                {[company |-> k.company, no |-> c.plan.bindings[k].no + 1,
                  status |-> c.plan.bindings[k].status, at |-> now + 1] :
                    k \in {x \in DOMAIN c.plan.bindings : c.plan.bindings[x].op # "reuse"}}
         /\ pools' = pools \union PoolWritten(c)
         /\ outputs' = outputs \union
                {[session |-> c.session, reviewed |-> c.no, accepted |-> c.no + 1,
                  plan |-> c.plan, shown |-> c.shown, seen |-> c.at, at |-> now + 1]}
         /\ now' = now + 1
         /\ UNCHANGED <<cands, plans>>

(* Stage 1 commands of others.  Two commands may fall on one time.          *)
OwnedRoom(at) == at <= MaxTime /\ Cardinality(owners) + Cardinality(pools) < MaxOwned

AssessRows(company, status, at) ==
    /\ OwnedRoom(at)
    /\ owners' = owners \union
           {[company |-> company, no |-> Greatest({o.no : o \in OwnersOf(company)}) + 1,
             status |-> status, at |-> at]}
    /\ now' = at
    /\ UNCHANGED <<revs, cands, plans, outputs, pools>>

PoolRows(id, at) ==
    /\ OwnedRoom(at)
    /\ LET members == {<<o.company, o.no>> : o \in {x \in owners : x.status = "supported"}}
       IN pools' = pools \union {PoolRow(id, LatestPoolNo(id) + 1, members, at)}
    /\ now' = at
    /\ UNCHANGED <<revs, cands, plans, outputs, owners>>

Room(c) ==
    /\ Settled(c) <= MaxTime
    /\ c.kind = "save" /\ c.no = 0 => NextSession <= MaxSessions

---------------------------------------------------------------------------
(* The histories.  "ready" and "built" have one ready revision, without     *)
(* and with candidates, "legacy" a plan of the first version, "reviewed"    *)
(* one of the second.  Companies outside of the map's pool were assessed    *)
(* before; in "known" its own were, and are in a pool of Stage 1.           *)
FirstScope == [seeds |-> {}, map |-> TRUE]
FirstKeys == PoolMembers(Pooled)

FirstRevision(n, workflow, at) ==
    [session |-> 1, no |-> n, workflow |-> workflow, scope |-> FirstScope, at |-> at]

FirstCandidates(n, bound, state, at) ==
    {[session |-> 1, key |-> k, no |-> n, bound |-> bound, state |-> state, at |-> at] : k \in FirstKeys}

Reviewed(h) == h \in {"legacy", "reviewed", "known"}

RowsInit(h) ==
    /\ revs = (IF h = "empty" THEN {} ELSE {FirstRevision(1, "ready", 1)})
              \union (IF Reviewed(h) THEN {FirstRevision(2, "reviewed", 3)} ELSE {})
    /\ cands = (IF h \in {"empty", "ready"} THEN {} ELSE FirstCandidates(1, 1, "proposed", 2))
               \union (IF Reviewed(h) THEN FirstCandidates(2, 2, "selected", 4) ELSE {})
    /\ plans = IF Reviewed(h)
               THEN {[session |-> 1, no |-> 2, version |-> IF h = "legacy" THEN 1 ELSE 2, selected |-> FirstKeys]}
               ELSE {}
    /\ owners = {[company |-> c, no |-> 1, status |-> IF c \in Pooled THEN "supported" ELSE "draft", at |-> 1] :
                     c \in IF h = "known" THEN Pooled ELSE Company \ Pooled}
    /\ pools = IF h = "known" THEN {PoolRow(<<0, 1>>, 1, {<<c, 1>> : c \in Pooled}, 1)} ELSE {}
    /\ outputs = {}
    /\ now = 4

=============================================================================
