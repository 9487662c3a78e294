--------------------------- MODULE ResearchLedger ---------------------------
(***************************************************************************)
(* The append-only research ledger of industry_alpha: claim revisions with *)
(* their evidence links (commands.py), assertions of an industry map with  *)
(* their claim bindings and the map revisions that freeze them             *)
(* (chain_map_commands.py), beneficiary revisions and candidate pools      *)
(* (stage1_commands.py), the semantic profiles of beneficiaries            *)
(* (beneficiary_semantics_commands.py), and the as-of views of them.       *)
(*                                                                         *)
(* A command is one database transaction at READ COMMITTED.  It locks the  *)
(* rows it names one SELECT ... FOR UPDATE at a time, checks what is       *)
(* committed by then, and inserts all of its rows at commit.  Recorded     *)
(* times are given by the caller or read from the clock before the locks   *)
(* are taken, so their order is not the order of commits: a command may    *)
(* carry any time.  The process-local lock that several commands take in   *)
(* front of their identity row covers the same key and is not modelled     *)
(* apart from it.  Nor are the rows that an insert shares through its      *)
(* foreign keys: they delay commands, and may end one more in a deadlock.   *)
(***************************************************************************)
EXTENDS Naturals, FiniteSets

CONSTANTS Worker,          \* threads and processes that run commands
          Claim,           \* claim revisions, numbered in the order of their ids
          IdentityOf,      \* the claim each of them revises
          ClaimStatus,     \* "draft" (or rejected), "supported" or "disputed"
          Evidence,        \* evidence items
          RelationOf,      \* "supports" (grade A to C), "contradicts" or "context"
          Assertion,       \* assertion revisions, numbered in lock order
          AssertionStatus,
          Beneficiary,     \* beneficiary identities of the map
          Clock,           \* recorded times
          SeedLinks, SeedBindings,  \* what is recorded at first
          Command,         \* the commands callers give
          History,         \* freezes and beneficiary revisions a run may begin with
          MaxCommands, MaxFaults    \* bounds for TLC

Statuses == {"draft", "supported", "disputed"}
Link == [claim : Claim, evidence : Evidence, at : Clock]
Binding == [assertion : Assertion, claim : Claim, at : Clock]
SemanticStates == {"supported", "disputed", "missing", "not_applicable"}
Semantic == [state : SemanticStates, supports : SUBSET Claim, contradicts : SUBSET Claim,
             context : SUBSET Claim]

ASSUME LedgerAssumption ==
    /\ Claim \subseteq Nat \ {0} /\ Assertion \subseteq Nat \ {0}
    /\ \E n \in Claim \union {0} : \A c \in Claim : c <= n
    /\ Clock \subseteq Nat \ {0} /\ 1 \in Clock
    /\ ClaimStatus \in [Claim -> Statuses]
    /\ AssertionStatus \in [Assertion -> Statuses]
    /\ RelationOf \in [Evidence -> {"supports", "contradicts", "context"}]
    /\ SeedLinks \subseteq Link /\ SeedBindings \subseteq Binding
    /\ \A b, d \in SeedBindings : b.assertion = d.assertion /\ b.claim # d.claim
                                    => IdentityOf[b.claim] # IdentityOf[d.claim]
    /\ \A l \in SeedLinks : ClaimStatus[l.claim] = "supported" => RelationOf[l.evidence] # "contradicts"
    /\ MaxCommands \in Nat /\ MaxFaults \in Nat

VARIABLES claimAt,     \* when each claim revision was recorded, 0: not yet
          links,       \* claim_evidence_links
          assertionAt, \* when each assertion revision was recorded, 0: not yet
          bindings,    \* industry_map_assertion_claim_links
          maps,        \* map revisions with their frozen members
          benefits,    \* beneficiary revisions with their bindings
          pools,       \* candidate-pool revisions with their members
          cases,       \* case revisions with a conclusion and its claims
          profiles,    \* semantic profile revisions of beneficiaries
          pc, cmd,     \* per worker: the step, the command
          todo, holds, \* per worker: rows still to lock, rows locked
          prior,       \* per worker: the latest revision number it read
          commands, faults

rows == <<claimAt, links, assertionAt, bindings, maps, benefits, pools, cases, profiles>>
vars == <<rows, pc, cmd, todo, holds, prior, commands, faults>>

---------------------------------------------------------------------------
(* What a reader, or a check, sees of a claim or an assertion at a time.    *)

LinksOf(c, at) == {l \in links : l.claim = c /\ l.at <= at}

HasConflict(c, at) == \E l \in LinksOf(c, at) : RelationOf[l.evidence] = "contradicts"
HasSupport(c, at) == \E l \in LinksOf(c, at) : RelationOf[l.evidence] = "supports"

BoundTo(a, at) == {b.claim : b \in {x \in bindings : x.assertion = a /\ x.at <= at}}

(* The status of an assertion or a beneficiary against its claims.         *)
StatusHolds(status, claims, at) ==
    /\ claims # {}
    /\ status = "supported" =>
           /\ \A c \in claims : ~HasConflict(c, at)
           /\ \E c \in claims : ClaimStatus[c] = "supported" /\ HasSupport(c, at)
    /\ status = "disputed" =>
           \E c \in claims : ClaimStatus[c] = "disputed" \/ HasConflict(c, at)

(* The status of a claim revision against the evidence linked to it.       *)
ClaimStatusHolds(status, evidence) ==
    LET Some(relation) == \E e \in evidence : RelationOf[e] = relation
    IN /\ status = "supported" => Some("supports") /\ ~Some("contradicts")
       /\ status = "disputed" => Some("contradicts")

DistinctIdentities(claims) ==
    \A c, d \in claims : c # d => IdentityOf[c] # IdentityOf[d]

(* What is shown of an assertion at a time.                                *)
AssertionView(a, at) ==
    [assertion |-> a, claims |-> BoundTo(a, at), evidence |-> UNION {LinksOf(c, at) : c \in BoundTo(a, at)}]

(* The frozen snapshot of a map revision: assertion links and evidence up   *)
(* to the revision's own recorded time.                                    *)
MapView(m) == {AssertionView(a, m.at) : a \in m.members}

BenefitView(b) == [claims |-> b.claims, evidence |-> UNION {LinksOf(c, b.at) : c \in b.claims}]

---------------------------------------------------------------------------
(* Commands, their rows and the order in which they lock them.             *)

LinkCommand == [kind : {"link"}, claim : Claim, evidence : Evidence, at : Clock]
ClaimCommand == [kind : {"claim"}, claim : Claim, evidence : SUBSET Evidence, at : Clock]
BindCommand == [kind : {"bind"}, assertion : Assertion, claim : Claim, at : Clock]
AssertCommand == [kind : {"assert"}, assertion : Assertion, claims : SUBSET Claim, at : Clock]
FreezeCommand == [kind : {"freeze"}, members : SUBSET Assertion, at : Clock]
BenefitCommand == [kind : {"benefit"}, beneficiary : Beneficiary, map : Nat, status : Statuses,
                   assertions : SUBSET Assertion, claims : SUBSET Claim, at : Clock]
PoolCommand == [kind : {"pool"}, map : Nat, members : SUBSET (Beneficiary \X Nat), at : Clock]
ProfileCommand == [kind : {"profile"}, beneficiary : Beneficiary, revision : Nat, expected : Nat,
                   status : Statuses, drivers : SUBSET Assertion, assertions : SUBSET Semantic, at : Clock]
CaseCommand == [kind : {"case"}, conclusion : Statuses, claims : SUBSET Claim, at : Clock]
NoCommand == [kind |-> "none"]

ASSUME CommandAssumption ==
    Command \subseteq LinkCommand \union ClaimCommand \union BindCommand \union AssertCommand
                       \union FreezeCommand \union BenefitCommand \union PoolCommand \union CaseCommand
                       \union ProfileCommand

ASSUME HistoryAssumption ==
    \A h \in History : /\ h \subseteq FreezeCommand \union BenefitCommand
                       /\ \A c, d \in h : c.kind = d.kind => c = d

Row(kind, id) == <<kind, id>>

(* The revisions of the identity a command appends to.                     *)
Chain(c) ==
    CASE c.kind = "freeze" -> maps
      [] c.kind = "benefit" -> {b \in benefits : b.beneficiary = c.beneficiary}
      [] c.kind = "pool" -> pools
      [] c.kind = "case" -> cases
      [] c.kind = "profile" -> {p \in profiles : p.beneficiary = c.beneficiary}
      [] OTHER -> {}

IdentityRow(c) ==
    CASE c.kind = "benefit" -> Row("beneficiary", c.beneficiary)
      [] c.kind = "profile" -> Row("profile", c.beneficiary)
      [] c.kind = "claim" -> Row("identity", IdentityOf[c.claim])
      [] OTHER -> Row(c.kind, 0)

(* A command that creates its identity has no row to lock yet.              *)
Creates(c) ==
    IF c.kind = "claim" THEN \A d \in Claim : IdentityOf[d] = IdentityOf[c.claim] => claimAt[d] = 0
                        ELSE c.kind \in {"link", "bind", "assert"} \/ Chain(c) = {}

(* Mistake: binding a claim does not lock the assertion.                    *)
BindWithoutLock(c) ==
    (IF Creates(c) THEN {} ELSE {[rank |-> 0, row |-> IdentityRow(c)]})
    \union CASE c.kind = "freeze" -> {[rank |-> a, row |-> Row("assertion", a)] : a \in c.members}
             [] c.kind = "benefit" -> {[rank |-> 1, row |-> Row("company", c.beneficiary)]}
             [] OTHER -> {}

(* First the identity, then the assertions a map revision freezes (nodes,  *)
(* relationships, observations, each in order of id) or the company row.   *)
IdentityLocks(c) ==
    (IF Creates(c) THEN {} ELSE {[rank |-> 0, row |-> IdentityRow(c)]})
    \union CASE c.kind = "freeze" -> {[rank |-> a, row |-> Row("assertion", a)] : a \in c.members}
             [] c.kind = "bind" -> {[rank |-> 1, row |-> Row("assertion", c.assertion)]}
             [] c.kind = "benefit" -> {[rank |-> 1, row |-> Row("company", c.beneficiary)]}
             [] OTHER -> {}

LastClaim == CHOOSE n \in Claim : \A c \in Claim : c <= n

(* Mistake: a freeze does not lock the claims it freezes.                   *)
FreezeWithoutClaimLocks(c) ==
    CASE c.kind = "link" -> {[rank |-> 0, row |-> Row("claim", c.claim)]}
      [] c.kind = "benefit" -> {[rank |-> k, row |-> Row("claim", k)] : k \in c.claims}
      [] OTHER -> {}

(* Then claim revisions.  A freeze locks those of one assertion after the  *)
(* other, sorted only within each assertion.                               *)
ClaimLocks(c) ==
    CASE c.kind = "link" -> {[rank |-> 0, row |-> Row("claim", c.claim)]}
      [] c.kind = "benefit" -> {[rank |-> k, row |-> Row("claim", k)] : k \in c.claims}
      [] c.kind = "freeze" -> {[rank |-> b.assertion * (LastClaim + 1) + b.claim, row |-> Row("claim", b.claim)] :
                                  b \in {x \in bindings : x.assertion \in c.members}}
      [] OTHER -> {}

---------------------------------------------------------------------------
(* The checks of each command against what is committed.                   *)

(* A frozen binding of the claim may not be given evidence of its past.    *)
AfterMapFreezes(c, at) ==
    \A m \in maps, b \in bindings :
        b.assertion \in m.members /\ b.claim = c /\ b.at <= m.at => at > m.at

(* Mistake: evidence may still enter at the time of the revision.          *)
FromBeneficiaryOn(c, at) == \A b \in benefits : c \in b.claims => at >= b.at

AfterBeneficiaryFreezes(c, at) == \A b \in benefits : c \in b.claims => at > b.at

LinkAllowed(c) ==
    /\ claimAt[c.claim] # 0 /\ claimAt[c.claim] <= c.at
    /\ AfterMapFreezes(c.claim, c.at)
    /\ AfterBeneficiaryFreezes(c.claim, c.at)
    /\ ClaimStatusHolds(ClaimStatus[c.claim],
           {c.evidence} \union {l.evidence : l \in {x \in links : x.claim = c.claim}})

ClaimAllowed(c) ==
    /\ \A d \in Claim : IdentityOf[d] = IdentityOf[c.claim] => claimAt[d] <= c.at
    /\ ClaimStatusHolds(ClaimStatus[c.claim], c.evidence)

BindAllowed(c) ==
    LET bound == {b \in bindings : b.assertion = c.assertion}
        linked == {b.claim : b \in bound}
    IN /\ assertionAt[c.assertion] # 0 /\ assertionAt[c.assertion] <= c.at
       /\ claimAt[c.claim] # 0 /\ claimAt[c.claim] <= c.at
       /\ \A m \in maps : c.assertion \in m.members => c.at > m.at
       /\ \A b \in bound : b.at <= c.at
       /\ \A d \in linked : IdentityOf[d] # IdentityOf[c.claim]
       /\ StatusHolds(AssertionStatus[c.assertion], linked \union {c.claim}, c.at)

AssertAllowed(c) ==
    /\ \A k \in c.claims : claimAt[k] # 0 /\ claimAt[k] <= c.at
    /\ DistinctIdentities(c.claims)
    /\ StatusHolds(AssertionStatus[c.assertion], c.claims, c.at)

(* Mistake: an assertion's status is trusted once it was recorded.          *)
FreezeTrustsStatus(c) ==
    /\ \A m \in maps : m.at <= c.at
    /\ \A a \in c.members :
           /\ assertionAt[a] # 0 /\ assertionAt[a] <= c.at
           /\ \A b \in bindings : b.assertion = a => b.at <= c.at

FreezeAllowed(c) ==
    /\ \A m \in maps : m.at <= c.at
    /\ \A a \in c.members :
           /\ assertionAt[a] # 0 /\ assertionAt[a] <= c.at
           /\ \A b \in bindings : b.assertion = a => b.at <= c.at
           /\ StatusHolds(AssertionStatus[a], {b.claim : b \in {x \in bindings : x.assertion = a}}, c.at)

BenefitAllowed(c) ==
    /\ \A b \in benefits : b.beneficiary = c.beneficiary => b.at <= c.at
    /\ \E m \in maps : m.no = c.map /\ m.at <= c.at
                       /\ c.assertions # {} /\ c.assertions \subseteq m.members
    /\ \A k \in c.claims : claimAt[k] # 0 /\ claimAt[k] <= c.at
    /\ DistinctIdentities(c.claims)
    /\ StatusHolds(c.status, c.claims, c.at)

PoolAllowed(c) ==
    LET Named(m) == {b \in benefits : b.beneficiary = m[1] /\ b.no = m[2]}
    IN /\ \A p \in pools : p.at <= c.at
       /\ c.members # {}
       /\ \A m, n \in c.members : m[1] = n[1] => m = n
       /\ \A m \in c.members : \E b \in Named(m) :
              b.map = c.map /\ b.status = "supported" /\ b.at <= c.at

CaseAllowed(c) ==
    /\ \A v \in cases : v.at <= c.at
    /\ \A k \in c.claims : claimAt[k] # 0 /\ claimAt[k] <= c.at
    /\ c.conclusion = "supported" =>
           /\ c.claims # {}
           /\ \A k \in c.claims : ClaimStatus[k] = "supported" /\ HasSupport(k, c.at)
                                  /\ ~HasConflict(k, c.at)
    /\ c.conclusion = "disputed" => \E k \in c.claims : HasConflict(k, c.at)

(* What an assertion of a profile says needs of the claims it names.        *)
Names(s) == s.supports \union s.contradicts \union s.context

AssertionShape(s) ==
    /\ s.state = "supported" => s.supports # {} /\ s.contradicts = {}
    /\ s.state = "disputed" => s.supports # {} /\ s.contradicts # {}
    /\ s.state = "missing" => Names(s) = {}
    /\ s.state = "not_applicable" => s.supports \union s.context # {}

EvidencePaths(s, at) ==
    s.state \in {"supported", "disputed"} =>
        /\ \E k \in s.supports : HasSupport(k, at)
        /\ s.state = "supported" => \A k \in s.supports : ~HasConflict(k, at)
        /\ s.state = "disputed" => \E k \in s.contradicts : HasConflict(k, at)

OverallStatus(status, assertions) ==
    LET Some(state) == \E s \in assertions : s.state = state
    IN /\ status = "supported" => Some("supported") /\ ~Some("disputed")
       /\ status = "disputed" => Some("disputed")

(* A profile names only what its beneficiary revision froze.               *)
FrozenBy(c, b) ==
    /\ b.beneficiary = c.beneficiary /\ b.no = c.revision /\ b.at <= c.at
    /\ c.drivers \subseteq b.assertions
    /\ \A s \in c.assertions : Names(s) \subseteq b.claims

(* The caller names the latest revision, which may not be newer.           *)
Expected(c) ==
    \/ Chain(c) = {} /\ c.expected = 0
    \/ \E r \in Chain(c) : /\ r.no = c.expected /\ r.at <= c.at
                          /\ \A q \in Chain(c) : q.no <= r.no

(* The code reads all but the latest revision before it locks the profile:  *)
(* evidence linked while it waits is as evidence linked after this check.  *)
ProfileAllowed(c) ==
    /\ \E b \in benefits : FrozenBy(c, b)
    /\ c.drivers # {}
    /\ \A a \in c.drivers : assertionAt[a] <= c.at
    /\ \A s \in c.assertions :
           /\ AssertionShape(s) /\ EvidencePaths(s, c.at)
           /\ \A k \in Names(s) : claimAt[k] <= c.at
    /\ OverallStatus(c.status, c.assertions)
    /\ Expected(c)

Allowed(c) ==
    CASE c.kind = "link" -> LinkAllowed(c)
      [] c.kind = "claim" -> ClaimAllowed(c)
      [] c.kind = "bind" -> BindAllowed(c)
      [] c.kind = "assert" -> AssertAllowed(c)
      [] c.kind = "freeze" -> FreezeAllowed(c)
      [] c.kind = "benefit" -> BenefitAllowed(c)
      [] c.kind = "pool" -> PoolAllowed(c)
      [] c.kind = "case" -> CaseAllowed(c)
      [] c.kind = "profile" -> ProfileAllowed(c)

LatestNumber(chain) ==
    IF chain = {} THEN 0 ELSE CHOOSE n \in {r.no : r \in chain} : \A r \in chain : r.no <= n

(* The unique constraint that remains the final guard of a command.        *)
Duplicate(w) ==
    LET c == cmd[w]
    IN CASE c.kind = "link" -> \E l \in links : l.claim = c.claim /\ l.evidence = c.evidence
         [] c.kind = "claim" -> claimAt[c.claim] # 0
         [] c.kind = "bind" -> \E b \in bindings : b.assertion = c.assertion /\ b.claim = c.claim
         [] c.kind = "assert" -> assertionAt[c.assertion] # 0
         [] OTHER -> \E r \in Chain(c) : r.no = prior[w] + 1

---------------------------------------------------------------------------
MapRow(c, no) == [no |-> no, at |-> c.at, members |-> c.members]

BenefitRow(c, no) ==
    [beneficiary |-> c.beneficiary, no |-> no, at |-> c.at, map |-> c.map,
     assertions |-> c.assertions, claims |-> c.claims, status |-> c.status]

ProfileRow(c, no) ==
    [beneficiary |-> c.beneficiary, no |-> no, at |-> c.at, revision |-> c.revision,
     drivers |-> c.drivers, assertions |-> c.assertions, status |-> c.status]

(* A run begins with the first revision of the map, frozen empty, or with  *)
(* what an allowed freeze and beneficiary revision have recorded since.    *)
Init ==
    /\ claimAt = [c \in Claim |-> IF \E s \in SeedLinks \union SeedBindings : s.claim = c THEN 1 ELSE 0]
    /\ links = SeedLinks
    /\ assertionAt = [a \in Assertion |-> IF \E b \in SeedBindings : b.assertion = a THEN 1 ELSE 0]
    /\ bindings = SeedBindings
    /\ \E h \in History :
           /\ maps = {[no |-> 1, at |-> 1, members |-> {}]} \union {MapRow(c, 2) : c \in {x \in h : x.kind = "freeze"}}
           /\ benefits = {BenefitRow(c, 1) : c \in {x \in h : x.kind = "benefit"}}
           /\ \A c \in h : Allowed(c)
    /\ pools = {} /\ profiles = {}
    /\ cases = {[no |-> 1, at |-> 1, conclusion |-> "draft", claims |-> {}]}
    /\ pc = [w \in Worker |-> "idle"]
    /\ cmd = [w \in Worker |-> NoCommand]
    /\ todo = [w \in Worker |-> {}]
    /\ holds = [w \in Worker |-> {}]
    /\ prior = [w \in Worker |-> 0]
    /\ commands = 0 /\ faults = 0

Start(w, c) ==
    /\ pc[w] = "idle" /\ commands < MaxCommands
    /\ commands' = commands + 1
    /\ cmd' = [cmd EXCEPT ![w] = c]
    /\ todo' = [todo EXCEPT ![w] = IdentityLocks(c)]
    /\ pc' = [pc EXCEPT ![w] = "identities"]
    /\ UNCHANGED <<rows, holds, prior, faults>>

NextLock(w) == CHOOSE s \in todo[w] : \A t \in todo[w] : s.rank <= t.rank

Locking(w) == pc[w] \in {"identities", "claims"} /\ todo[w] # {}

Waits(w, v) == w # v /\ Locking(w) /\ NextLock(w).row \in holds[v]

(* SELECT ... FOR UPDATE of a row that is not there finds nothing.          *)
Missing(row) ==
    \/ row[1] = "assertion" /\ assertionAt[row[2]] = 0
    \/ row[1] = "claim" /\ claimAt[row[2]] = 0

Lock(w) ==
    /\ Locking(w) /\ ~Missing(NextLock(w).row)
    /\ \A v \in Worker : ~Waits(w, v)
    /\ holds' = [holds EXCEPT ![w] = @ \union {NextLock(w).row}]
    /\ todo' = [todo EXCEPT ![w] = @ \ {NextLock(w)}]
    /\ UNCHANGED <<rows, pc, cmd, prior, commands, faults>>

(* The bindings are read once the assertions are locked.                   *)
ResolveClaims(w) ==
    /\ pc[w] = "identities" /\ todo[w] = {}
    /\ todo' = [todo EXCEPT ![w] = ClaimLocks(cmd[w])]
    /\ pc' = [pc EXCEPT ![w] = "claims"]
    /\ UNCHANGED <<rows, cmd, holds, prior, commands, faults>>

(* The end of a transaction: its locks are released.                       *)
End(w) ==
    /\ pc' = [pc EXCEPT ![w] = "idle"]
    /\ cmd' = [cmd EXCEPT ![w] = NoCommand]
    /\ todo' = [todo EXCEPT ![w] = {}]
    /\ holds' = [holds EXCEPT ![w] = {}]
    /\ prior' = [prior EXCEPT ![w] = 0]
    /\ UNCHANGED commands

Check(w) ==
    /\ pc[w] = "claims" /\ todo[w] = {}
    /\ Allowed(cmd[w])
    /\ prior' = [prior EXCEPT ![w] =
                     IF IdentityRow(cmd[w]) \in holds[w] THEN LatestNumber(Chain(cmd[w])) ELSE 0]
    /\ pc' = [pc EXCEPT ![w] = "write"]
    /\ UNCHANGED <<rows, cmd, todo, holds, commands, faults>>

(* Mistake: a rejected command is tried again at once.                      *)
RejectRetried(w) ==
    /\ \/ Locking(w) /\ Missing(NextLock(w).row)
       \/ pc[w] = "claims" /\ todo[w] = {} /\ ~Allowed(cmd[w])
    /\ pc' = [pc EXCEPT ![w] = "identities"]
    /\ todo' = [todo EXCEPT ![w] = IdentityLocks(cmd[w])]
    /\ holds' = [holds EXCEPT ![w] = {}]
    /\ UNCHANGED <<rows, cmd, prior, commands, faults>>

Reject(w) ==
    /\ \/ Locking(w) /\ Missing(NextLock(w).row)
       \/ pc[w] = "claims" /\ todo[w] = {} /\ ~Allowed(cmd[w])
    /\ End(w)
    /\ UNCHANGED <<rows, faults>>

Conflict(w) ==
    /\ pc[w] = "write" /\ Duplicate(w)
    /\ End(w)
    /\ UNCHANGED <<rows, faults>>

(* One commit makes every row of the command visible.                      *)
Committing(w, kind) == pc[w] = "write" /\ cmd[w].kind = kind /\ ~Duplicate(w) /\ End(w)

LinkEvidence(w) ==
    /\ Committing(w, "link")
    /\ links' = links \union {[claim |-> cmd[w].claim, evidence |-> cmd[w].evidence, at |-> cmd[w].at]}
    /\ UNCHANGED <<claimAt, assertionAt, bindings, maps, benefits, pools, cases, profiles, faults>>

AppendClaimRevision(w) ==
    /\ Committing(w, "claim")
    /\ claimAt' = [claimAt EXCEPT ![cmd[w].claim] = cmd[w].at]
    /\ links' = links \union {[claim |-> cmd[w].claim, evidence |-> e, at |-> cmd[w].at] :
                                  e \in cmd[w].evidence}
    /\ UNCHANGED <<assertionAt, bindings, maps, benefits, pools, cases, profiles, faults>>

LinkClaimRevision(w) ==
    /\ Committing(w, "bind")
    /\ bindings' = bindings \union
           {[assertion |-> cmd[w].assertion, claim |-> cmd[w].claim, at |-> cmd[w].at]}
    /\ UNCHANGED <<claimAt, links, assertionAt, maps, benefits, pools, cases, profiles, faults>>

AppendAssertionRevision(w) ==
    /\ Committing(w, "assert")
    /\ assertionAt' = [assertionAt EXCEPT ![cmd[w].assertion] = cmd[w].at]
    /\ bindings' = bindings \union
           {[assertion |-> cmd[w].assertion, claim |-> k, at |-> cmd[w].at] : k \in cmd[w].claims}
    /\ UNCHANGED <<claimAt, links, maps, benefits, pools, cases, profiles, faults>>

AppendMapRevision(w) ==
    /\ Committing(w, "freeze")
    /\ maps' = maps \union {MapRow(cmd[w], prior[w] + 1)}
    /\ UNCHANGED <<claimAt, links, assertionAt, bindings, benefits, pools, cases, profiles, faults>>

AppendBeneficiaryRevision(w) ==
    /\ Committing(w, "benefit")
    /\ benefits' = benefits \union {BenefitRow(cmd[w], prior[w] + 1)}
    /\ UNCHANGED <<claimAt, links, assertionAt, bindings, maps, pools, cases, profiles, faults>>

AppendCandidatePoolRevision(w) ==
    /\ Committing(w, "pool")
    /\ pools' = pools \union {[no |-> prior[w] + 1, at |-> cmd[w].at, map |-> cmd[w].map,
                               members |-> cmd[w].members]}
    /\ UNCHANGED <<claimAt, links, assertionAt, bindings, maps, benefits, cases, profiles, faults>>

AppendCaseRevision(w) ==
    /\ Committing(w, "case")
    /\ cases' = cases \union {[no |-> prior[w] + 1, at |-> cmd[w].at,
                               conclusion |-> cmd[w].conclusion, claims |-> cmd[w].claims]}
    /\ UNCHANGED <<claimAt, links, assertionAt, bindings, maps, benefits, pools, profiles, faults>>

AppendProfileRevision(w) ==
    /\ Committing(w, "profile")
    /\ profiles' = profiles \union {ProfileRow(cmd[w], prior[w] + 1)}
    /\ UNCHANGED <<claimAt, links, assertionAt, bindings, maps, benefits, pools, cases, faults>>

Commit(w) ==
    \/ LinkEvidence(w) \/ AppendClaimRevision(w)
    \/ LinkClaimRevision(w) \/ AppendAssertionRevision(w) \/ AppendMapRevision(w)
    \/ AppendBeneficiaryRevision(w) \/ AppendCandidatePoolRevision(w) \/ AppendCaseRevision(w)
    \/ AppendProfileRevision(w)

(* PostgreSQL's detector ends one member of a set of workers that wait for *)
(* each other.                                                             *)
Deadlocked(S) == S # {} /\ \A w \in S : \E v \in S : Waits(w, v)

DeadlockVictim(w) ==
    /\ \E S \in SUBSET Worker : w \in S /\ Deadlocked(S)
    /\ End(w)
    /\ UNCHANGED <<rows, faults>>

(* A statement fails, or the process dies: the transaction rolls back.     *)
Fail(w) ==
    /\ pc[w] # "idle" /\ faults < MaxFaults
    /\ faults' = faults + 1
    /\ End(w)
    /\ UNCHANGED rows

(* The bound on commands is used up.                                       *)
Finished == commands = MaxCommands /\ (\A w \in Worker : pc[w] = "idle") /\ UNCHANGED vars

Step(w) == Lock(w) \/ ResolveClaims(w) \/ Check(w) \/ Reject(w) \/ Conflict(w) \/ Commit(w)
           \/ DeadlockVictim(w)

Next ==
    \/ \E w \in Worker : Step(w) \/ Fail(w) \/ \E c \in Command : Start(w, c)
    \/ Finished

Spec == Init /\ [][Next]_vars

(* A worker in a transaction keeps executing its statements; the database   *)
(* grants a lock once it is free and ends deadlocks.                       *)
FairSpec == Spec /\ \A w \in Worker : WF_vars(Step(w))

---------------------------------------------------------------------------
TypeOK ==
    /\ claimAt \in [Claim -> Clock \union {0}] /\ assertionAt \in [Assertion -> Clock \union {0}]
    /\ links \subseteq Link /\ bindings \subseteq Binding
    /\ \A m \in maps : m.at \in Clock /\ m.members \subseteq Assertion
    /\ \A b \in benefits : b.beneficiary \in Beneficiary /\ b.at \in Clock
                         /\ b.assertions \subseteq Assertion /\ b.claims \subseteq Claim
    /\ \A p \in pools : p.at \in Clock
    /\ \A v \in cases : v.at \in Clock /\ v.claims \subseteq Claim
    /\ \A p \in profiles : p.beneficiary \in Beneficiary /\ p.at \in Clock /\ p.drivers \subseteq Assertion
                           /\ p.assertions \subseteq Semantic
    /\ pc \in [Worker -> {"idle", "identities", "claims", "write"}]
    /\ cmd \in [Worker -> Command \union {NoCommand}]
    /\ \A w \in Worker : cmd[w] = NoCommand <=> pc[w] = "idle"
    /\ \A w \in Worker : pc[w] = "idle" => todo[w] = {} /\ holds[w] = {}
    /\ commands \in 0..MaxCommands /\ faults \in 0..MaxFaults

(* The view of a map revision, once frozen, is the same ever after, and so  *)
(* is the evidence a beneficiary revision was judged by: no binding or      *)
(* evidence link enters their past, whoever commits in between.             *)
FrozenNeverRewritten ==
    [][/\ \A m \in maps : MapView(m)' = MapView(m)
       /\ \A b \in benefits : BenefitView(b)' = BenefitView(b)]_vars

(* What is shown as supported is supported by what is shown with it, at     *)
(* the revision's own time: in map revisions, beneficiaries and cases.      *)
ShownSupportIsReal ==
    /\ \A m \in maps : \A a \in m.members :
           StatusHolds(AssertionStatus[a], BoundTo(a, m.at), m.at)
    /\ \A b \in benefits : StatusHolds(b.status, b.claims, b.at)
    /\ \A v \in cases : v.conclusion = "supported" =>
           \A k \in v.claims : HasSupport(k, v.at) /\ ~HasConflict(k, v.at)

(* An assertion is bound to one revision of a claim at most.                *)
OneRevisionPerClaim ==
    \A b, d \in bindings : b.assertion = d.assertion /\ b.claim # d.claim
                               => IdentityOf[b.claim] # IdentityOf[d.claim]

(* The profile revisions of a beneficiary follow each other without a gap   *)
(* and not back in time, each on a revision of the beneficiary and on a map *)
(* revision that froze its drivers; and what it shows as supported has      *)
(* support, and no contradiction dated before that beneficiary revision,    *)
(* whatever is linked to its claims while it is recorded or later.          *)
ProfilesRestOnFrozen ==
    \A p \in profiles :
        /\ \A q \in profiles : q.beneficiary = p.beneficiary /\ q.no = p.no => q = p
        /\ p.no > 1 => \E q \in profiles : q.beneficiary = p.beneficiary /\ q.no + 1 = p.no /\ q.at <= p.at
        /\ \E b \in benefits, m \in maps :
               /\ FrozenBy(p, b) /\ m.no = b.map /\ m.at <= b.at /\ p.drivers \subseteq m.members
               /\ \A s \in p.assertions : s.state = "supported" =>
                      /\ \E k \in s.supports : HasSupport(k, p.at)
                      /\ \A k \in s.supports : ~HasConflict(k, b.at)

(* Commands that wait for each other in a cycle include a freeze: it alone  *)
(* locks claims in an order other than that of their ids (rows shared      *)
(* through foreign keys apart).                                            *)
CyclesNeedFreeze == \A S \in SUBSET Worker : Deadlocked(S) => \E w \in S : cmd[w].kind = "freeze"

(* Every command ends.                                                      *)
CommandsReturn == \A w \in Worker : pc[w] # "idle" ~> pc[w] = "idle"

=============================================================================
