--------------------------- MODULE ThesisSession ---------------------------
(***************************************************************************)
(* One industry-thesis session: revisions and candidate builds             *)
(* (industry_thesis_commands.py), proposal review                          *)
(* (industry_thesis_review.py) and owner acceptance                        *)
(* (industry_thesis_owner_acceptance.py) with the beneficiary and pool     *)
(* revisions it writes through stage1_owner_port.py, next to the commands  *)
(* that write those directly.                                              *)
(*                                                                         *)
(* A command is one transaction at READ COMMITTED.  It locks rows stage by *)
(* stage, checks what is committed after each stage, and commits all of    *)
(* its rows at once.  A caller names revisions by number and may send any  *)
(* command again at any time, because its answer was lost or because it    *)
(* never learned of a later revision.  Semantic profiles follow their      *)
(* beneficiary and are not modelled apart from it; the claim rows an       *)
(* assessment locks are those of ResearchLedger.                           *)
(***************************************************************************)
EXTENDS Naturals, FiniteSets, Sequences

CONSTANTS Worker,     \* threads and processes that run commands
          Key,        \* candidates, each of a company of its own, in owner-lock order
          Command,    \* the commands callers give
          History,    \* the histories a session may begin with
          Seed,       \* the candidates it has by then
          MaxCommands, MaxFaults   \* bounds for TLC

Workflow == {"draft", "open", "reviewed", "accepted"}

(* An owner plan says for every selected candidate what becomes of its     *)
(* beneficiary, seen at revision "at", and what becomes of the pool.       *)
OwnerItem == [key : Key, op : {"create", "append", "reuse"}, at : Nat, supported : BOOLEAN]
PoolItem == [op : {"none", "create", "append", "reuse"}, at : Nat]

ReviseCommand == [kind : {"revise"}, no : Nat, workflow : Workflow]
BuildCommand == [kind : {"build"}, no : Nat, proposals : SUBSET (Key \X Nat)]
ReviewCommand == [kind : {"review"}, no : Nat, decided : SUBSET (Key \X Nat), selected : SUBSET Key]
AcceptCommand == [kind : {"accept"}, no : Nat, owners : SUBSET OwnerItem, pool : PoolItem]
AssessCommand == [kind : {"assess"}, key : Key, op : {"create", "append"}, supported : BOOLEAN]
PoolCommand == [kind : {"pool"}, op : {"create", "append"}, members : SUBSET (Key \X Nat)]
NoCommand == [kind |-> "none"]

Plan == {c \in Command : c.kind = "accept"}

Histories == {"open", "planned", "accepted", "reviewed"}

ASSUME SessionAssumption ==
    /\ Key \subseteq Nat \ {0} /\ \E k \in Key : \A j \in Key : j <= k
    /\ Command \subseteq ReviseCommand \union BuildCommand \union ReviewCommand
                         \union AcceptCommand \union AssessCommand \union PoolCommand
    /\ History \subseteq Histories /\ Seed \subseteq Key
    /\ MaxCommands \in Nat /\ MaxFaults \in Nat

VARIABLES revisions,      \* session revisions
          latest,         \* latest_revision_number of the session
          candidates,     \* candidate revisions, each bound to a session revision
          outputs,        \* output links with the plan they executed
          beneficiaries,  \* Stage 1 beneficiary revisions and the acceptance, or 0, they are of
          pools,          \* revisions of the candidate pool, likewise
          pc, cmd,        \* per worker: the step, the command
          todo, holds,    \* per worker: rows still to lock, rows locked
          reply,          \* per worker: the answer to its command
          commands, faults

rows == <<revisions, latest, candidates, outputs, beneficiaries, pools>>
vars == <<rows, pc, cmd, todo, holds, reply, commands, faults>>

---------------------------------------------------------------------------
Numbered(set, n) == {r \in set : r.no = n}
Of(set, k) == {r \in set : r.key = k}

LatestNumber(chain) ==
    IF chain = {} THEN 0 ELSE CHOOSE n \in {r.no : r \in chain} : \A r \in chain : r.no <= n

LatestOf(k) == LatestNumber(Of(candidates, k))

(* The latest revision of every candidate of the session.                  *)
Universe == {c \in candidates : c.no = LatestOf(c.key)}

NoPlan == [version |-> 0, of |-> 0, covers |-> {}, selected |-> {}]

(* The rows commands lock.                                                  *)
Session == <<"session", 0>>
Revision(n) == <<"revision", n>>
Beneficiary(k) == <<"beneficiary", k>>
Pool == <<"pool", 0>>

At(rank, row) == [rank |-> rank, row |-> row]

LastKey == CHOOSE k \in Key : \A j \in Key : j <= k

Existing(op) == op \in {"append", "reuse"}

(* Sorted beneficiaries, then the pool; what is created has no row yet.     *)
OwnerLocks(c) ==
    CASE c.kind = "accept" ->
             {At(i.key, Beneficiary(i.key)) : i \in {x \in c.owners : Existing(x.op)}}
             \union (IF Existing(c.pool.op) THEN {At(LastKey + 1, Pool)} ELSE {})
      [] c.kind = "assess" -> IF Existing(c.op) THEN {At(0, Beneficiary(c.key))} ELSE {}
      [] c.kind = "pool" -> IF Existing(c.op) THEN {At(0, Pool)} ELSE {}

(* Mistake: a build reads the session without locking it.                   *)
BuildUnlocked(c) ==
    CASE c.kind = "revise" -> {At(0, Session)}
      [] c.kind = "build" -> {}
      [] c.kind = "review" -> {At(0, Revision(c.no)), At(1, Session)}
      [] c.kind = "accept" -> {At(0, Session), At(1, Revision(c.no))}

(* Mistake: an acceptance begins with the revision it accepts.              *)
AcceptRevisionFirst(c) ==
    CASE c.kind \in {"revise", "build"} -> {At(0, Session)}
      [] c.kind = "review" -> {At(0, Revision(c.no)), At(1, Session)}
      [] c.kind = "accept" -> {At(1, Session), At(0, Revision(c.no))}

(* Revise, build and accept begin with the session, a review begins with    *)
(* the revision it reviews.                                                *)
SessionLocks(c) ==
    CASE c.kind \in {"revise", "build"} -> {At(0, Session)}
      [] c.kind = "review" -> {At(0, Revision(c.no)), At(1, Session)}
      [] c.kind = "accept" -> {At(0, Session), At(1, Revision(c.no))}

(* The row of the latest revision; a build takes it for the foreign key of *)
(* its candidate revisions.                                                *)
RevisionLocks(c) ==
    CASE c.kind \in {"revise", "build"} -> {At(0, Revision(c.no))}
      [] c.kind = "accept" -> {At(0, Revision(latest))}

Missing(row) ==
    \/ row[1] = "revision" /\ Numbered(revisions, row[2]) = {}
    \/ row[1] = "beneficiary" /\ Of(beneficiaries, row[2]) = {}
    \/ row[1] = "pool" /\ pools = {}

---------------------------------------------------------------------------
(* The checks of each command.                                             *)

ExpectsLatest(c) == c.no = latest

(* A proposal names the latest revision of its candidate, 0 for a new one.  *)
BuildAllowed(c) ==
    /\ ExpectsLatest(c)
    /\ c.proposals # {}
    /\ \A p, q \in c.proposals : p[1] = q[1] => p = q
    /\ \A p \in c.proposals : p[2] = LatestOf(p[1])

(* A plan of today's version, or one that was accepted, is not reviewed     *)
(* again.                                                                  *)
Reviewable(r) ==
    \/ r.workflow = "open"
    \/ /\ r.workflow = "reviewed" /\ r.plan.version = 1
       /\ \A o \in outputs : o.reviewed # r.no

ReviewAllowed(c) ==
    /\ ExpectsLatest(c)
    /\ \E r \in Numbered(revisions, c.no) : Reviewable(r)
    /\ Universe # {}
    /\ \A u \in Universe : u.on = c.no
    /\ c.decided = {<<u.key, u.no>> : u \in Universe}
    /\ c.selected \subseteq {d[1] : d \in c.decided}

(* The reviewed revision is the latest, or its acceptance is.              *)
Current(c) ==
    \/ latest = c.no
    \/ \E r \in Numbered(revisions, latest) : r.workflow = "accepted" /\ r.base = c.no

(* It carries a plan made for itself, not one copied by a later revision.  *)
Planned(c) ==
    \E r \in Numbered(revisions, c.no) : r.workflow = "reviewed" /\ r.plan.of = c.no

ExistingOutputs(c) == {o \in outputs : o.reviewed = c.no}

(* What a new acceptance needs beyond that.                                *)
AcceptAllowed(c) ==
    /\ ExpectsLatest(c)
    /\ \E r \in Numbered(revisions, c.no) :
           r.plan.version = 2 /\ r.plan.selected = {i.key : i \in c.owners}
    /\ \A i, j \in c.owners : i.key = j.key => i = j

(* The beneficiary revision that results from an item of a plan.           *)
Written(i, no) == [key |-> i.key, no |-> IF i.op = "create" THEN 1 ELSE i.at + 1,
                   supported |-> i.supported, by |-> no]

Reused(i) == {b \in Of(beneficiaries, i.key) : b.no = i.at}

Results(c) ==
    {Written(i, c.no) : i \in {x \in c.owners : x.op # "reuse"}}
    \union UNION {Reused(i) : i \in {x \in c.owners : x.op = "reuse"}}

Supported(c) == {<<b.key, b.no>> : b \in {x \in Results(c) : x.supported}}

(* The owners' own checks: an append expects the latest revision, a reuse   *)
(* an existing one.                                                        *)
OwnersAllow(c) ==
    /\ \A i \in c.owners :
           CASE i.op = "create" -> Of(beneficiaries, i.key) = {}
             [] i.op = "append" -> LatestNumber(Of(beneficiaries, i.key)) = i.at
             [] i.op = "reuse" -> Reused(i) # {}
    /\ c.pool.op = "none" <=> Supported(c) = {}
    /\ c.pool.op = "create" => pools = {}
    /\ c.pool.op = "append" => LatestNumber(pools) = c.pool.at
    /\ c.pool.op = "reuse" => \E p \in Numbered(pools, c.pool.at) : p.members = Supported(c)

MembersExist(c) ==
    /\ c.members # {}
    /\ \A m \in c.members : \E b \in Of(beneficiaries, m[1]) : b.no = m[2] /\ b.supported

(* Mistake: an acceptance trusts that its plan is still the latest.         *)
PassesUnaware(c, stage) ==
    CASE stage = "session" /\ c.kind = "revise" -> ExpectsLatest(c)
      [] stage = "session" /\ c.kind = "build" -> BuildAllowed(c)
      [] stage = "session" /\ c.kind = "review" -> ReviewAllowed(c)
      [] stage = "revisions" /\ c.kind = "accept" -> Planned(c)
      [] stage = "owners" /\ c.kind = "accept" -> OwnersAllow(c)
      [] stage = "owners" /\ c.kind = "pool" -> MembersExist(c)
      [] OTHER -> TRUE

(* The checks a command makes when it has locked the rows of a stage.       *)
Passes(c, stage) ==
    CASE stage = "session" /\ c.kind = "revise" -> ExpectsLatest(c)
      [] stage = "session" /\ c.kind = "build" -> BuildAllowed(c)
      [] stage = "session" /\ c.kind = "review" -> ReviewAllowed(c)
      [] stage = "revisions" /\ c.kind = "accept" ->
             Current(c) /\ Planned(c) /\ ExistingOutputs(c) = {} /\ AcceptAllowed(c)
      [] stage = "owners" /\ c.kind = "accept" -> OwnersAllow(c)
      [] stage = "owners" /\ c.kind = "pool" -> MembersExist(c)
      [] OTHER -> TRUE

(* The answer of a command that does not pass.                             *)
Refusal(c, stage) ==
    IF stage = "revisions" /\ c.kind = "accept"
    THEN CASE ~Current(c) -> "stale"
           [] Current(c) /\ Planned(c) /\ ExistingOutputs(c) # {} -> "conflict"
           [] OTHER -> "refused"
    ELSE "refused"

(* Mistake: any acceptance of the same review counts as this one.           *)
ReplaysAnyPlan(c) ==
    c.kind = "accept" /\ Current(c) /\ Planned(c) /\ \E o \in outputs : o.reviewed = c.no

(* A plan that was executed is recognised before anything else is checked.  *)
Replays(c) ==
    c.kind = "accept" /\ Current(c) /\ Planned(c) /\ \E o \in outputs : o.plan = c

FirstStage(c) == IF c.kind \in {"assess", "pool"} THEN "owners" ELSE "session"

NextStage(c, stage) ==
    CASE stage = "session" -> IF c.kind = "review" THEN "write" ELSE "revisions"
      [] stage = "revisions" -> IF c.kind = "accept" THEN "owners" ELSE "write"
      [] OTHER -> "write"

Locks(c, stage) ==
    CASE stage = "session" -> SessionLocks(c)
      [] stage = "revisions" -> RevisionLocks(c)
      [] stage = "owners" -> OwnerLocks(c)
      [] OTHER -> {}

Stages == {"session", "revisions", "owners"}

---------------------------------------------------------------------------
(* The histories a session begins with.  Revision 2 is open, or holds a     *)
(* plan of the first version, not accepted or accepted; or it was reviewed  *)
(* in revision 3, of a company whose beneficiary and pool exist already.    *)
PlanMade(version, no) == [version |-> version, of |-> no, covers |-> {<<k, 1>> : k \in Seed}, selected |-> Seed]

FirstRevision(no, workflow, plan) == [no |-> no, base |-> no - 1, workflow |-> workflow, plan |-> plan]

FirstRevisions(h) ==
    {FirstRevision(1, "open", NoPlan)} \union
    CASE h = "open" -> {FirstRevision(2, "open", NoPlan)}
      [] h = "planned" -> {FirstRevision(2, "reviewed", PlanMade(1, 2))}
      [] h = "accepted" -> {FirstRevision(2, "reviewed", PlanMade(1, 2)), FirstRevision(3, "accepted", NoPlan)}
      [] h = "reviewed" -> {FirstRevision(2, "open", NoPlan), FirstRevision(3, "reviewed", PlanMade(2, 3))}

FirstLatest(h) == IF h \in {"accepted", "reviewed"} THEN 3 ELSE 2

FirstCandidates(h) ==
    LET Built(no, on) == {[key |-> k, no |-> no, on |-> on] : k \in Seed}
    IN CASE h = "open" -> Built(1, 2)
         [] h = "reviewed" -> Built(1, 2) \union Built(2, 3)
         [] OTHER -> Built(1, 1) \union Built(2, 2)

IsLegacy(c) ==
    /\ c.no = 2 /\ c.pool.op = "none"
    /\ {i.key : i \in c.owners} = Seed
    /\ \A i, j \in c.owners : i.key = j.key => i = j
    /\ \A i \in c.owners : i.op = "create" /\ ~i.supported

FirstOutputs(h) ==
    IF h = "accepted"
    THEN {{[reviewed |-> 2, accepted |-> 3, plan |-> c, owned |-> {<<k, 1>> : k \in Seed}, pool |-> 0]} :
             c \in {x \in Plan : IsLegacy(x)}}
    ELSE {{}}

FirstBeneficiaries(h) ==
    {[key |-> k, no |-> 1, supported |-> h = "reviewed", by |-> IF h = "reviewed" THEN 0 ELSE 2] :
        k \in IF h \in {"accepted", "reviewed"} THEN Seed ELSE {}}

FirstPools(h) ==
    IF h = "reviewed" THEN {[no |-> 1, members |-> {<<k, 1>> : k \in Seed}, by |-> 0]} ELSE {}

Init ==
    /\ \E h \in History :
           /\ revisions = FirstRevisions(h) /\ latest = FirstLatest(h)
           /\ candidates = FirstCandidates(h)
           /\ outputs \in FirstOutputs(h)
           /\ beneficiaries = FirstBeneficiaries(h) /\ pools = FirstPools(h)
    /\ pc = [w \in Worker |-> "idle"]
    /\ cmd = [w \in Worker |-> NoCommand]
    /\ todo = [w \in Worker |-> {}]
    /\ holds = [w \in Worker |-> {}]
    /\ reply = [w \in Worker |-> "none"]
    /\ commands = 0 /\ faults = 0

Start(w, c) ==
    /\ pc[w] = "idle" /\ commands < MaxCommands
    /\ commands' = commands + 1
    /\ cmd' = [cmd EXCEPT ![w] = c]
    /\ pc' = [pc EXCEPT ![w] = FirstStage(c)]
    /\ todo' = [todo EXCEPT ![w] = Locks(c, FirstStage(c))]
    /\ reply' = [reply EXCEPT ![w] = "none"]
    /\ UNCHANGED <<rows, holds, faults>>

NextLock(w) == CHOOSE s \in todo[w] : \A t \in todo[w] : s.rank <= t.rank

Locking(w) == pc[w] \in Stages /\ todo[w] # {}

Locked(w) == pc[w] \in Stages /\ todo[w] = {}

Waits(w, v) == w # v /\ Locking(w) /\ NextLock(w).row \in holds[v]

Lock(w) ==
    /\ Locking(w) /\ ~Missing(NextLock(w).row)
    /\ \A v \in Worker : ~Waits(w, v)
    /\ holds' = [holds EXCEPT ![w] = @ \union {NextLock(w).row}]
    /\ todo' = [todo EXCEPT ![w] = @ \ {NextLock(w)}]
    /\ UNCHANGED <<rows, pc, cmd, reply, commands, faults>>

Proceed(w) ==
    /\ Locked(w) /\ Passes(cmd[w], pc[w]) /\ ~(pc[w] = "revisions" /\ Replays(cmd[w]))
    /\ pc' = [pc EXCEPT ![w] = NextStage(cmd[w], pc[w])]
    /\ todo' = [todo EXCEPT ![w] = Locks(cmd[w], NextStage(cmd[w], pc[w]))]
    /\ UNCHANGED <<rows, cmd, holds, reply, commands, faults>>

(* The end of a transaction: its locks are released and it is answered.     *)
End(w, answer) ==
    /\ pc' = [pc EXCEPT ![w] = "idle"]
    /\ todo' = [todo EXCEPT ![w] = {}]
    /\ holds' = [holds EXCEPT ![w] = {}]
    /\ reply' = [reply EXCEPT ![w] = answer]
    /\ UNCHANGED <<cmd, commands>>

Refuse(w) ==
    /\ \/ /\ Locking(w) /\ Missing(NextLock(w).row)
          /\ End(w, "refused")
       \/ /\ Locked(w) /\ ~Passes(cmd[w], pc[w]) /\ ~(pc[w] = "revisions" /\ Replays(cmd[w]))
          /\ End(w, Refusal(cmd[w], pc[w]))
    /\ UNCHANGED <<rows, faults>>

Replay(w) ==
    /\ Locked(w) /\ pc[w] = "revisions" /\ Replays(cmd[w])
    /\ End(w, "replayed")
    /\ UNCHANGED <<rows, faults>>

(* Unique constraints: a number of a chain, a created identity.            *)
NextNumber(c) == IF c.kind = "accept" THEN latest + 1 ELSE c.no + 1

RevisionTaken(c) == Numbered(revisions, NextNumber(c)) # {}

CandidateTaken(named) == \E n \in named, d \in candidates : d.key = n[1] /\ d.no = n[2] + 1

OwnerTaken(c) ==
    \/ \E i \in c.owners : i.op = "create" /\ Of(beneficiaries, i.key) # {}
    \/ c.pool.op = "create" /\ pools # {}

Duplicate(c) ==
    CASE c.kind = "revise" -> RevisionTaken(c)
      [] c.kind = "build" -> CandidateTaken(c.proposals)
      [] c.kind = "review" -> RevisionTaken(c) \/ CandidateTaken(c.decided)
      [] c.kind = "accept" -> RevisionTaken(c) \/ OwnerTaken(c)
      [] c.kind = "assess" -> c.op = "create" /\ Of(beneficiaries, c.key) # {}
      [] c.kind = "pool" -> c.op = "create" /\ pools # {}

Conflict(w) ==
    /\ pc[w] = "write" /\ Duplicate(cmd[w])
    /\ End(w, "conflict")
    /\ UNCHANGED <<rows, faults>>

Committing(w, kind) ==
    pc[w] = "write" /\ cmd[w].kind = kind /\ ~Duplicate(cmd[w]) /\ End(w, "done")

AppendRevision(c, workflow, plan) ==
    /\ revisions' = revisions \union
           {[no |-> NextNumber(c), base |-> c.no, workflow |-> workflow, plan |-> plan]}
    /\ latest' = NextNumber(c)

(* A revision keeps what its command does not change, a plan included.      *)
PlanOf(n) == (CHOOSE r \in revisions : r.no = n).plan

ReviseSession(w) ==
    /\ Committing(w, "revise")
    /\ AppendRevision(cmd[w], cmd[w].workflow, PlanOf(cmd[w].no))
    /\ UNCHANGED <<candidates, outputs, beneficiaries, pools, faults>>

BuildCandidates(w) ==
    /\ Committing(w, "build")
    /\ candidates' = candidates \union
           {[key |-> p[1], no |-> p[2] + 1, on |-> cmd[w].no] : p \in cmd[w].proposals}
    /\ UNCHANGED <<revisions, latest, outputs, beneficiaries, pools, faults>>

ReviewCandidates(w) ==
    LET c == cmd[w]
    IN /\ Committing(w, "review")
       /\ AppendRevision(c, "reviewed", [version |-> 2, of |-> c.no + 1, covers |-> c.decided,
                                            selected |-> c.selected])
       /\ candidates' = candidates \union
              {[key |-> d[1], no |-> d[2] + 1, on |-> c.no + 1] : d \in c.decided}
       /\ UNCHANGED <<outputs, beneficiaries, pools, faults>>

PoolWritten(c) ==
    IF c.pool.op \in {"create", "append"}
    THEN {[no |-> IF c.pool.op = "create" THEN 1 ELSE c.pool.at + 1, members |-> Supported(c),
           by |-> c.no]}
    ELSE {}

AcceptedPool(c) ==
    CASE c.pool.op = "none" -> 0
      [] c.pool.op = "create" -> 1
      [] c.pool.op = "append" -> c.pool.at + 1
      [] c.pool.op = "reuse" -> c.pool.at

AcceptOutputs(w) ==
    LET c == cmd[w]
    IN /\ Committing(w, "accept")
       /\ AppendRevision(c, "accepted", NoPlan)
       /\ beneficiaries' = beneficiaries \union Results(c)
       /\ pools' = pools \union PoolWritten(c)
       /\ outputs' = outputs \union
              {[reviewed |-> c.no, accepted |-> latest + 1, plan |-> c,
                owned |-> {<<b.key, b.no>> : b \in Results(c)}, pool |-> AcceptedPool(c)]}
       /\ UNCHANGED <<candidates, faults>>

(* A beneficiary assessed and a pool revised outside of any acceptance.     *)
AssessBeneficiary(w) ==
    /\ Committing(w, "assess")
    /\ beneficiaries' = beneficiaries \union
           {[key |-> cmd[w].key, no |-> LatestNumber(Of(beneficiaries, cmd[w].key)) + 1,
             supported |-> cmd[w].supported, by |-> 0]}
    /\ UNCHANGED <<revisions, latest, candidates, outputs, pools, faults>>

RevisePool(w) ==
    /\ Committing(w, "pool")
    /\ pools' = pools \union {[no |-> LatestNumber(pools) + 1, members |-> cmd[w].members, by |-> 0]}
    /\ UNCHANGED <<revisions, latest, candidates, outputs, beneficiaries, faults>>

Commit(w) ==
    \/ ReviseSession(w) \/ BuildCandidates(w) \/ ReviewCandidates(w) \/ AcceptOutputs(w)
    \/ AssessBeneficiary(w) \/ RevisePool(w)

(* PostgreSQL's detector ends one member of a set of workers that wait for *)
(* each other.                                                             *)
Deadlocked(S) == S # {} /\ \A w \in S : \E v \in S : Waits(w, v)

DeadlockVictim(w) ==
    /\ \E S \in SUBSET Worker : w \in S /\ Deadlocked(S)
    /\ End(w, "failed")
    /\ UNCHANGED <<rows, faults>>

(* Mistake: the owners' rows are committed on their own.                    *)
RollBackKeepingOwners(w) ==
    /\ pc[w] # "idle" /\ faults < MaxFaults
    /\ faults' = faults + 1
    /\ End(w, "failed")
    /\ beneficiaries' = IF pc[w] = "write" /\ cmd[w].kind = "accept"
                        THEN beneficiaries \union Results(cmd[w]) ELSE beneficiaries
    /\ UNCHANGED <<revisions, latest, candidates, outputs, pools>>

(* A statement fails, the process dies, or the command was a dry run: the   *)
(* transaction rolls back.                                                 *)
RollBack(w) ==
    /\ pc[w] # "idle" /\ faults < MaxFaults
    /\ faults' = faults + 1
    /\ End(w, "failed")
    /\ UNCHANGED rows

(* The bound on commands is used up.                                       *)
Finished == commands = MaxCommands /\ (\A w \in Worker : pc[w] = "idle") /\ UNCHANGED vars

Step(w) == Lock(w) \/ Proceed(w) \/ Refuse(w) \/ Replay(w) \/ Conflict(w) \/ Commit(w)
           \/ DeadlockVictim(w)

Next ==
    \/ \E w \in Worker : Step(w) \/ RollBack(w) \/ \E c \in Command : Start(w, c)
    \/ Finished

Spec == Init /\ [][Next]_vars

---------------------------------------------------------------------------
TypeOK ==
    /\ latest \in Nat /\ \A r \in revisions : r.no \in Nat /\ r.base \in Nat /\ r.workflow \in Workflow
    /\ \A c \in candidates : c.key \in Key /\ c.no \in Nat /\ c.on \in Nat
    /\ \A o \in outputs : o.plan \in Plan
    /\ \A b \in beneficiaries : b.key \in Key /\ b.no \in Nat
    /\ pc \in [Worker -> Stages \union {"idle", "write"}]
    /\ cmd \in [Worker -> Command \union {NoCommand}]
    /\ \A w \in Worker : pc[w] = "idle" => todo[w] = {} /\ holds[w] = {}
    /\ reply \in [Worker -> {"none", "done", "replayed", "stale", "conflict", "refused", "failed"}]
    /\ commands \in 0..MaxCommands /\ faults \in 0..MaxFaults

(* A plan covers what the session had when it was reviewed: the latest       *)
(* revision of every candidate, all of them built on the reviewed revision.  *)
(* No build slips in between (industry_thesis_review.py, stale_universe).    *)
PlanCoversUniverse ==
    \A r \in revisions : r.plan.version = 2 /\ r.plan.of = r.no =>
        LET before == {c \in candidates : c.on < r.no}
        IN /\ r.plan.covers = {<<c.key, LatestNumber(Of(before, c.key))>> : c \in before}
           /\ \A c \in before : <<c.key, c.no>> \in r.plan.covers => c.on = r.base

(* An acceptance happens once, whatever plans are sent, and is all or        *)
(* nothing: its revision follows the reviewed one, its beneficiaries exist,  *)
(* its pool holds exactly the supported ones of them, and none were written  *)
(* for an acceptance that is not there.                                     *)
AcceptanceIsWhole ==
    /\ \A o, p \in outputs : o.reviewed = p.reviewed => o = p
    /\ \A o \in outputs :
           /\ \E r \in Numbered(revisions, o.accepted) :
                  r.workflow = "accepted" /\ r.base = o.reviewed /\ r.no = o.reviewed + 1
           /\ \A m \in o.owned : \E b \in Of(beneficiaries, m[1]) : b.no = m[2]
           /\ LET supported == {m \in o.owned :
                                   \E b \in beneficiaries : <<b.key, b.no>> = m /\ b.supported}
              IN IF o.pool = 0 THEN supported = {}
                 ELSE \E p \in Numbered(pools, o.pool) : p.members = supported
    /\ \A b \in beneficiaries : b.by # 0 =>
           \E o \in outputs : o.reviewed = b.by /\ <<b.key, b.no>> \in o.owned
    /\ \A p \in pools : p.by # 0 => \E o \in outputs : o.reviewed = p.by /\ o.pool = p.no

(* An accepted or replayed plan has an output of its own, and of commands    *)
(* built on one revision at most one is told that it was done.               *)
AnswersAreTrue ==
    \A w \in Worker :
        /\ cmd[w].kind = "accept" /\ reply[w] \in {"done", "replayed"} =>
               \E o \in outputs : o.plan = cmd[w]
        /\ \A v \in Worker \ {w} :
               LET Extends(u) == cmd[u].kind \in {"revise", "review", "accept"} /\ reply[u] = "done"
               IN Extends(v) /\ Extends(w) => cmd[v].no # cmd[w].no

(* Commands block each other for good only when one of them is a review,     *)
(* which locks its revision before the session.                              *)
CyclesNeedReview ==
    \A S \in SUBSET Worker : Deadlocked(S) => \E w \in S : cmd[w].kind = "review"

(* The session is a log in which an acceptance takes one step.               *)
Log == [n \in 1..latest |->
           LET r == CHOOSE x \in revisions : x.no = n IN [workflow |-> r.workflow, seen |-> r.base]]

Accepted == {[reviewed |-> o.reviewed, plan |-> o.plan] : o \in outputs}

FirstLogs ==
    UNION {{[log |-> [n \in 1..FirstLatest(h) |->
                         [workflow |-> (CHOOSE r \in FirstRevisions(h) : r.no = n).workflow, seen |-> n - 1]],
             accepted |-> {[reviewed |-> o.reviewed, plan |-> o.plan] : o \in made}] :
               made \in FirstOutputs(h)} : h \in History}

Promise == INSTANCE ThesisLog WITH Workflow <- Workflow, Plan <- Plan, First <- FirstLogs,
                                   log <- Log, accepted <- Accepted

ImplementsThesisLog == Promise!Spec

=============================================================================
