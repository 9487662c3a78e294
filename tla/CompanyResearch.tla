--------------------------- MODULE CompanyResearch ---------------------------
(***************************************************************************)
(* Company research files (Stage 2): the handoff of a candidate, financial  *)
(* hypotheses, and the layers built on them, each of which freezes what it  *)
(* rests on (stage2_commands.py, stage2_expectations_commands.py,           *)
(* stage2_assessments_commands.py, stage2_judgments_commands.py,            *)
(* stage2_boundary.py).                                                     *)
(*                                                                         *)
(* Expectations and valuations are one layer, "snapshot", catalysts and     *)
(* risks are "assessment", industry and company judgments are "judgment":   *)
(* the commands of a layer take the same locks and make the same checks.    *)
(* Every command is one transaction at READ COMMITTED.  A row that only     *)
(* commands of one file lock is left out, since they lock the file too.     *)
(* Cutoff dates follow the recorded times and are left out, and so are      *)
(* evidence grades, verification items and the errors that refuse a command.*)
(***************************************************************************)
EXTENDS Naturals, FiniteSets

CONSTANTS Worker,         \* threads and processes that run commands
          File,           \* memberships of candidate pools, one file each
          PoolOf,         \* the pool revision of a membership
          Key,            \* keys of identities within a file
          Claim,          \* claim revisions, in the order of their ids
          ClaimStatus,    \* their status
          HandoffClaims,  \* those of the beneficiary revision handed off
          HandoffAt,      \* when it was recorded
          Evidence,       \* evidence items
          RelationOf,     \* what an item says of the claims it is linked to
          SeedLinks,      \* evidence linked before
          Clock,          \* recorded times
          Command,        \* the commands callers give
          History,        \* the histories a run may begin with
          MaxCommands, MaxFaults   \* bounds for TLC

Layers == {"hypothesis", "snapshot", "assessment", "judgment"}

Ref == [kind : Layers \union {"research"}, file : File, key : Key \union {0}, no : Nat \ {0}]
Link == [claim : Claim, evidence : Evidence, at : Clock]

OpenCommand == [kind : {"open"}, file : File, at : Clock]
ResearchCommand == [kind : {"research"}, file : File, rests : SUBSET Ref,
                    status : {"insufficient", "supported", "disputed"},
                    completed : BOOLEAN, at : Clock]
LayerCommand == [kind : Layers, create : BOOLEAN, file : File, key : Key, rests : SUBSET Ref,
                 claims : SUBSET Claim, at : Clock,
                 status : {"draft", "supported", "disputed", "insufficient"}]
LinkCommand == [kind : {"link"}, claim : Claim, evidence : Evidence, at : Clock]
NoCommand == [kind |-> "none"]

(* What the revisions named by a command of a layer may be.                 *)
Below(kind) ==
    CASE kind = "hypothesis" -> {}
      [] kind = "snapshot" -> {"research", "hypothesis"}
      [] kind = "assessment" -> {"research", "hypothesis", "snapshot"}
      [] kind = "judgment" -> {"research", "hypothesis", "snapshot", "assessment"}

Histories == {"empty", "opened", "assessed"}

ASSUME CompanyAssumption ==
    /\ IsFiniteSet(Claim) /\ Claim = 1..Cardinality(Claim) /\ Key \subseteq Nat \ {0} /\ Clock \subseteq Nat \ {0}
    /\ HandoffClaims \subseteq Claim /\ HandoffClaims # {} /\ HandoffAt \in Clock
    /\ SeedLinks \subseteq Link /\ History \subseteq Histories
    /\ RelationOf \in [Evidence -> {"supports", "contradicts"}]
    /\ ClaimStatus \in [Claim -> {"draft", "supported", "disputed"}]
    /\ Command \subseteq OpenCommand \union ResearchCommand \union LayerCommand \union LinkCommand
    /\ \A c \in Command : c.kind \in Layers => \A r \in c.rests : r.kind \in Below(c.kind)
    /\ MaxCommands \in Nat /\ MaxFaults \in Nat

VARIABLES links,        \* evidence linked to claims: [claim, evidence, at]
          files,        \* research files with the evidence handed off
          revisions,    \* revisions of files and of the identities in them
          pc, cmd,      \* per worker: the step, the command
          todo, holds,  \* per worker: locks still to take, locks held
          seen,         \* per worker: the evidence it read
          commands, faults

rows == <<links, files, revisions>>
vars == <<rows, pc, cmd, todo, holds, seen, commands, faults>>

---------------------------------------------------------------------------
Opened(f) == \E x \in files : x.file = f

OpenedAt(f) == (CHOOSE x \in files : x.file = f).at

RefOf(r) == [kind |-> r.kind, file |-> r.file, key |-> r.key, no |-> r.no]

Revisions(refs) == {r \in revisions : RefOf(r) \in refs}

RevisionsOf(kind, f, key) == {r \in revisions : r.kind = kind /\ r.file = f /\ r.key = key}

(* Set times are never decreasing: the latest revision has the latest time. *)
NextNumber(kind, f, key) == Cardinality(RevisionsOf(kind, f, key)) + 1

NotBefore(at, set) == \A r \in set : r.at <= at

Part(refs, kind) == {r \in Revisions(refs) : r.kind = kind}

Visible(claims, at) == {l \in links : l.claim \in claims /\ l.at <= at}

Supports(evidence) ==
    \E l \in evidence : ClaimStatus[l.claim] = "supported" /\ RelationOf[l.evidence] = "supports"

Contradicts(evidence) == \E l \in evidence : RelationOf[l.evidence] = "contradicts"

(* What the status of a revision says of the evidence it freezes.           *)
Earned(status, claims, evidence) ==
    /\ status = "supported" => Supports(evidence) /\ ~Contradicts(evidence)
    /\ status = "disputed" => Contradicts(evidence) \/ \E c \in claims : ClaimStatus[c] = "disputed"
    /\ status = "insufficient" => ~Supports(evidence)

Accepted(r) == r.status \in {"supported", "disputed"}

---------------------------------------------------------------------------
(* Locks: rows selected FOR UPDATE, in the order of the statements, and rows *)
(* shared by the foreign keys of what is inserted.                          *)
At(rank, row) == [rank |-> rank, row |-> row, shared |-> FALSE]
Share(rank, row) == [rank |-> rank, row |-> row, shared |-> TRUE]

PoolRow(f) == <<"pool", PoolOf[f]>>
FileRow(f) == <<"file", f>>
IdentityRow(kind, f, key) == <<kind, f, key>>
ClaimRow(c) == <<"claim", c>>

(* The identity that is revised; a new one is not locked.                  *)
IdentityLocks(c) ==
    IF c.kind \in Layers /\ ~c.create THEN {At(0, IdentityRow(c.kind, c.file, c.key))} ELSE {}

ClaimLocks(claims) == {At(c, ClaimRow(c)) : c \in claims}

(* The links of a handoff are flushed before its claims are locked: each is  *)
(* shared first.                                                            *)
HandoffLocks ==
    {Share(c, ClaimRow(c)) : c \in HandoffClaims}
        \union {At(Cardinality(Claim) + c, ClaimRow(c)) : c \in HandoffClaims}

FrozenHypotheses(c) == {Share(0, IdentityRow("hypothesis", r.file, r.key)) : r \in c.rests}

(* Mistake: the claims whose evidence is frozen are not locked.             *)
ClaimsUnlocked(c, stage) ==
    CASE stage = "file" /\ c.kind = "open" -> {At(0, PoolRow(c.file))}
      [] stage = "file" /\ c.kind # "open" -> IdentityLocks(c) \union {At(1, FileRow(c.file))}
      [] stage = "claims" /\ c.kind = "link" -> {At(c.claim, ClaimRow(c.claim))}
      [] stage = "write" /\ c.kind = "open" -> HandoffLocks
      [] stage = "write" /\ c.kind = "research" -> FrozenHypotheses(c)
      [] OTHER -> {}

(* Mistake: the claims of a layer are locked in no order.                   *)
ClaimsUnordered(c, stage) ==
    CASE stage = "file" /\ c.kind = "open" -> {At(0, PoolRow(c.file))}
      [] stage = "file" /\ c.kind # "open" -> IdentityLocks(c) \union {At(1, FileRow(c.file))}
      [] stage = "claims" /\ c.kind = "link" -> {At(c.claim, ClaimRow(c.claim))}
      [] stage = "claims" /\ c.kind # "link" -> {At((IF c.kind = "snapshot" THEN Cardinality(Claim) - k ELSE k), ClaimRow(k)) : k \in c.claims}
      [] stage = "write" /\ c.kind = "open" -> HandoffLocks
      [] stage = "write" /\ c.kind = "research" -> FrozenHypotheses(c)
      [] OTHER -> {}

Locks(c, stage) ==
    CASE stage = "file" /\ c.kind = "open" -> {At(0, PoolRow(c.file))}
      [] stage = "file" /\ c.kind # "open" -> IdentityLocks(c) \union {At(1, FileRow(c.file))}
      [] stage = "claims" /\ c.kind = "link" -> {At(c.claim, ClaimRow(c.claim))}
      [] stage = "claims" /\ c.kind # "link" -> ClaimLocks(c.claims)
      [] stage = "write" /\ c.kind = "open" -> HandoffLocks
      [] stage = "write" /\ c.kind = "research" -> FrozenHypotheses(c)
      [] OTHER -> {}

---------------------------------------------------------------------------
(* The checks of each command.                                             *)

(* What a layer rests on exists, in its own file, and is not newer.         *)
RestsInFile(c) ==
    /\ {RefOf(r) : r \in Revisions(c.rests)} = c.rests
    /\ \A r \in Revisions(c.rests) : r.file = c.file /\ r.at <= c.at

OneBase(c) == Cardinality(Part(c.rests, "research")) = 1

BaseOf(c) == CHOOSE r \in Part(c.rests, "research") : TRUE

(* Hypotheses frozen by the base, each supported or disputed.               *)
HypothesesFrozen(c) ==
    /\ Part(c.rests, "hypothesis") # {}
    /\ \A h \in Part(c.rests, "hypothesis") : Accepted(h) /\ RefOf(h) \in BaseOf(c).rests

(* Snapshots of the same base, whose hypotheses are exactly these.          *)
SnapshotsMatch(c) ==
    /\ Part(c.rests, "snapshot") # {}
    /\ \A s \in Part(c.rests, "snapshot") : Accepted(s) /\ RefOf(BaseOf(c)) \in s.rests
    /\ UNION {Part(s.rests, "hypothesis") : s \in Part(c.rests, "snapshot")} = Part(c.rests, "hypothesis")

ClaimsOf(set) == UNION {r.claims : r \in set}

(* The evidence a layer freezes: hypotheses and snapshots read the ledger,   *)
(* the others what their snapshots froze.                                   *)
EvidenceFor(c) ==
    IF c.kind \in {"hypothesis", "snapshot"} THEN Visible(c.claims, c.at)
    ELSE {l \in UNION {s.evidence : s \in Part(c.rests, "snapshot")} : l.claim \in c.claims /\ l.at <= c.at}

(* Mistake: an assessment need only share the claims of the judgment.        *)
AssessmentsOverlap(c) ==
    /\ Part(c.rests, "assessment") # {}
    /\ \A a \in Part(c.rests, "assessment") : Accepted(a) /\ a.claims \intersect c.claims # {}

(* An assessment of a judgment rests on exactly what the judgment does.      *)
AssessmentsMatch(c) ==
    /\ Part(c.rests, "assessment") # {}
    /\ \A a \in Part(c.rests, "assessment") :
           /\ Accepted(a)
           /\ a.rests = {r \in c.rests : r.kind # "assessment"}
           /\ a.claims = c.claims /\ a.evidence = EvidenceFor(c)

(* Checked once the claims are locked.                                      *)
LayerAllowed(c) ==
    /\ c.claims # {}
    /\ c.kind = "hypothesis" => NotBefore(c.at, RevisionsOf("research", c.file, 0))
    /\ c.kind = "snapshot" => c.claims \subseteq ClaimsOf(Part(c.rests, "hypothesis"))
    /\ c.kind \in {"assessment", "judgment"} => c.claims \subseteq ClaimsOf(Part(c.rests, "snapshot"))
    /\ c.kind = "judgment" => AssessmentsMatch(c)
    /\ Earned(c.status, c.claims, EvidenceFor(c))
    /\ c.at >= OpenedAt(c.file) /\ NotBefore(c.at, RevisionsOf(c.kind, c.file, c.key))

(* link_evidence: never at or before the time of a beneficiary revision that *)
(* froze the claim, and never against the status of the claim.              *)
LinkAllowed(c) ==
    LET said == {RelationOf[l.evidence] : l \in {x \in links : x.claim = c.claim}} \union {RelationOf[c.evidence]}
    IN /\ c.claim \in HandoffClaims => c.at > HandoffAt
       /\ ClaimStatus[c.claim] = "supported" => said = {"supports"}
       /\ ClaimStatus[c.claim] = "disputed" => "contradicts" \in said

MissingEvidence(h) == \E c \in h.claims : \A l \in h.evidence : l.claim # c

(* A revision of the file: one revision of each hypothesis, and a conclusion *)
(* they bear out.  The follow-up list of a completed one is left out.        *)
ResearchAllowed(c) ==
    LET hypotheses == Revisions(c.rests)
        Some(status) == \E h \in hypotheses : h.status = status
    IN /\ RestsInFile(c) /\ \A h \in hypotheses : h.kind = "hypothesis"
       /\ \A g, h \in hypotheses : g.key = h.key => g = h
       /\ c.completed => (\E h \in hypotheses : Accepted(h)) /\ \A h \in hypotheses : ~MissingEvidence(h)
       /\ c.status = "supported" =>
              Some("supported") /\ ~Some("disputed") /\ \A h \in hypotheses : ~MissingEvidence(h)
       /\ c.status = "disputed" => Some("disputed")
       /\ c.at >= OpenedAt(c.file) /\ NotBefore(c.at, RevisionsOf("research", c.file, 0))

(* A layer above the hypotheses names its base and what it rests on.        *)
BoundaryAllowed(c) ==
    c.kind # "hypothesis" =>
        /\ RestsInFile(c) /\ OneBase(c) /\ HypothesesFrozen(c)
        /\ c.kind \in {"assessment", "judgment"} => SnapshotsMatch(c)

(* A unique constraint finds what exists already.                           *)
Exists(c) ==
    CASE c.kind = "open" -> Opened(c.file)
      [] c.kind = "link" -> \E l \in links : l.claim = c.claim /\ l.evidence = c.evidence
      [] OTHER -> RevisionsOf(c.kind, c.file, c.key) # {}

Passes(c, stage) ==
    CASE stage = "file" /\ c.kind = "open" -> c.at >= HandoffAt /\ ~Exists(c)
      [] stage = "file" /\ c.kind = "research" -> Opened(c.file) /\ ResearchAllowed(c)
      [] stage = "file" /\ c.kind \in Layers -> Opened(c.file) /\ Exists(c) = ~c.create /\ BoundaryAllowed(c)
      [] stage = "claims" /\ c.kind = "link" -> LinkAllowed(c) /\ ~Exists(c)
      [] stage = "claims" /\ c.kind \in Layers -> LayerAllowed(c)

FirstStage(c) == IF c.kind = "link" THEN "claims" ELSE "file"

NextStage(c, stage) == IF stage = "file" /\ c.kind \in Layers THEN "claims" ELSE "write"

---------------------------------------------------------------------------
(* The histories: nothing; every file opened; or one of them taken as far as *)
(* an assessment, resting on a snapshot, a hypothesis and a second revision  *)
(* of the file that froze it.                                              *)
HandedOff == Visible(HandoffClaims, HandoffAt)

FirstFile(f, at) == [file |-> f, at |-> at, evidence |-> HandedOff]

ResearchRevision(f, no, rests, status, at) ==
    [kind |-> "research", file |-> f, key |-> 0, no |-> no, status |-> status, at |-> at,
     rests |-> rests, claims |-> {}, evidence |-> {}]

FirstLayer(kind, f, key, rests) ==
    [kind |-> kind, file |-> f, key |-> key, no |-> 1, status |-> "supported", at |-> HandoffAt,
     rests |-> rests, claims |-> HandoffClaims, evidence |-> HandedOff]

FirstRevisions(h) == {ResearchRevision(f, 1, {}, "insufficient", HandoffAt) : f \in IF h = "empty" THEN {} ELSE File}

AssessedRevisions(f, key) ==
    LET hypothesis == FirstLayer("hypothesis", f, key, {})
        base == ResearchRevision(f, 2, {RefOf(hypothesis)}, "supported", HandoffAt)
        snapshot == FirstLayer("snapshot", f, key, {RefOf(hypothesis), RefOf(base)})
    IN {hypothesis, base, snapshot,
        FirstLayer("assessment", f, key, {RefOf(hypothesis), RefOf(base), RefOf(snapshot)})}

Init ==
    /\ links = SeedLinks
    /\ \E h \in History :
           /\ files = {FirstFile(f, HandoffAt) : f \in IF h = "empty" THEN {} ELSE File}
           /\ \E f \in File, key \in Key :
                  revisions = FirstRevisions(h) \union
                                  IF h = "assessed" THEN AssessedRevisions(f, key) ELSE {}
           /\ h = "assessed" => Earned("supported", HandoffClaims, HandedOff)
    /\ pc = [w \in Worker |-> "idle"]
    /\ cmd = [w \in Worker |-> NoCommand]
    /\ todo = [w \in Worker |-> {}]
    /\ holds = [w \in Worker |-> {}]
    /\ seen = [w \in Worker |-> {}]
    /\ commands = 0 /\ faults = 0

Start(w, c) ==
    /\ pc[w] = "idle" /\ commands < MaxCommands
    /\ commands' = commands + 1
    /\ cmd' = [cmd EXCEPT ![w] = c]
    /\ pc' = [pc EXCEPT ![w] = FirstStage(c)]
    /\ todo' = [todo EXCEPT ![w] = Locks(c, FirstStage(c))]
    /\ UNCHANGED <<rows, holds, seen, faults>>

NextLock(w) == CHOOSE l \in todo[w] : \A m \in todo[w] : l.rank <= m.rank

Waits(w, v) ==
    /\ w # v /\ todo[w] # {}
    /\ \E l \in holds[v] : l.row = NextLock(w).row /\ ~(l.shared /\ NextLock(w).shared)

Lock(w) ==
    /\ todo[w] # {}
    /\ \A v \in Worker : ~Waits(w, v)
    /\ holds' = [holds EXCEPT ![w] = @ \union {NextLock(w)}]
    /\ todo' = [todo EXCEPT ![w] = @ \ {NextLock(w)}]
    /\ UNCHANGED <<rows, pc, cmd, seen, commands, faults>>

Locked(w) == pc[w] \in {"file", "claims"} /\ todo[w] = {}

(* The evidence to freeze is read with the claims, and written later.        *)
Proceed(w) ==
    LET c == cmd[w]
    IN /\ Locked(w) /\ Passes(c, pc[w])
       /\ seen' = [seen EXCEPT ![w] = IF pc[w] = "claims" /\ c.kind \in Layers THEN EvidenceFor(c) ELSE {}]
       /\ pc' = [pc EXCEPT ![w] = NextStage(c, pc[w])]
       /\ todo' = [todo EXCEPT ![w] = Locks(c, NextStage(c, pc[w]))]
       /\ UNCHANGED <<rows, cmd, holds, commands, faults>>

(* The end of a command: its locks are released.                            *)
End(w) ==
    /\ pc' = [pc EXCEPT ![w] = "idle"]
    /\ cmd' = [cmd EXCEPT ![w] = NoCommand]
    /\ todo' = [todo EXCEPT ![w] = {}]
    /\ holds' = [holds EXCEPT ![w] = {}]
    /\ seen' = [seen EXCEPT ![w] = {}]
    /\ UNCHANGED commands

Refuse(w) ==
    /\ Locked(w) /\ ~Passes(cmd[w], pc[w])
    /\ End(w) /\ UNCHANGED <<rows, faults>>

---------------------------------------------------------------------------
(* The writes.                                                             *)

Writing(w, kinds) == pc[w] = "write" /\ todo[w] = {} /\ cmd[w].kind \in kinds

(* The file, what was handed off to it, and its first revision.             *)
CreateCompanyResearch(w) ==
    LET c == cmd[w]
    IN /\ Writing(w, {"open"}) /\ End(w)
       /\ files' = files \union {FirstFile(c.file, c.at)}
       /\ revisions' = revisions \union {ResearchRevision(c.file, 1, {}, "insufficient", c.at)}
       /\ UNCHANGED <<links, faults>>

AppendResearchRevision(w) ==
    LET c == cmd[w]
    IN /\ Writing(w, {"research"}) /\ End(w)
       /\ revisions' = revisions \union
              {ResearchRevision(c.file, NextNumber("research", c.file, 0), c.rests, c.status, c.at)}
       /\ UNCHANGED <<links, files, faults>>

InsertLayer(w) ==
    LET c == cmd[w]
    IN /\ Writing(w, Layers) /\ End(w)
       /\ revisions' = revisions \union
              {[kind |-> c.kind, file |-> c.file, key |-> c.key, no |-> NextNumber(c.kind, c.file, c.key),
                status |-> c.status, at |-> c.at, rests |-> c.rests, claims |-> c.claims, evidence |-> seen[w]]}
       /\ UNCHANGED <<links, files, faults>>

LinkEvidence(w) ==
    LET c == cmd[w]
    IN /\ Writing(w, {"link"}) /\ End(w)
       /\ links' = links \union {[claim |-> c.claim, evidence |-> c.evidence, at |-> c.at]}
       /\ UNCHANGED <<files, revisions, faults>>

Deadlocked(S) == S # {} /\ \A w \in S : \E v \in S : Waits(w, v)

DeadlockVictim(w) ==
    /\ \E S \in SUBSET Worker : w \in S /\ Deadlocked(S)
    /\ End(w) /\ UNCHANGED <<rows, faults>>

(* A statement fails or the process dies.                                   *)
RollBack(w) ==
    /\ pc[w] # "idle" /\ faults < MaxFaults
    /\ faults' = faults + 1
    /\ End(w) /\ UNCHANGED rows

Step(w) ==
    \/ Lock(w) \/ Proceed(w) \/ Refuse(w) \/ DeadlockVictim(w)
    \/ CreateCompanyResearch(w) \/ AppendResearchRevision(w) \/ InsertLayer(w) \/ LinkEvidence(w)

(* The bound on commands is used up.                                       *)
Finished == commands = MaxCommands /\ (\A w \in Worker : pc[w] = "idle") /\ UNCHANGED vars

Next ==
    \/ \E w \in Worker : Step(w) \/ RollBack(w) \/ \E c \in Command : Start(w, c)
    \/ Finished

Spec == Init /\ [][Next]_vars

---------------------------------------------------------------------------
TypeOK ==
    /\ SeedLinks \subseteq links /\ links \subseteq Link
    /\ \A x \in files : x.file \in File /\ x.at \in Clock /\ x.evidence \subseteq links
    /\ \A r \in revisions : RefOf(r) \in Ref /\ r.rests \subseteq Ref /\ r.evidence \subseteq links
    /\ pc \in [Worker -> {"idle", "file", "claims", "write"}]
    /\ cmd \in [Worker -> Command \union {NoCommand}]
    /\ \A w \in Worker : pc[w] = "idle" => todo[w] = {} /\ holds[w] = {} /\ seen[w] = {}
    /\ commands \in 0..MaxCommands /\ faults \in 0..MaxFaults

(* Commands wait for each other in a cycle only when two files are opened    *)
(* with the same claims, which both share before either locks them, or when  *)
(* a hypothesis is revised (it locks the hypothesis, then the file) while a  *)
(* revision of its file freezes it (which locks them the other way round).   *)
CyclesAreKnown ==
    LET Is(w, kind, stage) == cmd[w].kind = kind /\ pc[w] = stage
    IN \A S \in SUBSET Worker : Deadlocked(S) =>
           \E v, w \in S : v # w /\
               \/ Is(v, "open", "write") /\ Is(w, "open", "write")
               \/ Is(v, "hypothesis", "file") /\ Is(w, "research", "write") /\ cmd[v].file = cmd[w].file

(* Whatever is linked meanwhile, no freeze misses evidence it should have.   *)
(* When it is committed, a hypothesis has all that the ledger has of its     *)
(* claims at its time, and a snapshot all that its hypotheses froze of its   *)
(* claims and nothing from after its time; the status of each says what its  *)
(* evidence does.  And ever after, files, hypotheses and snapshots have all  *)
(* that is recorded of the claims handed off up to the beneficiary revision, *)
(* links recorded later with an earlier time included.  Links that the       *)
(* ledger got between a hypothesis and its snapshot, or between the          *)
(* beneficiary revision and the opening of a file, may be in or not.         *)
FreezesAreComplete ==
    [][/\ \A r \in revisions' \ revisions :
             r.kind \in {"hypothesis", "snapshot"} =>
                 /\ r.kind = "hypothesis" => r.evidence = Visible(r.claims, r.at)
                 /\ {l \in UNION {h.evidence : h \in Part(r.rests, "hypothesis")} : l.claim \in r.claims}
                        \subseteq r.evidence
                 /\ r.evidence \subseteq Visible(r.claims, r.at)
                 /\ Earned(r.status, r.claims, r.evidence)
       /\ \A x \in files' : HandedOff' \subseteq x.evidence /\ x.evidence \subseteq Visible(HandoffClaims, x.at)'
       /\ \A r \in revisions' :
             r.kind \in {"hypothesis", "snapshot"} => {l \in HandedOff' : l.claim \in r.claims} \subseteq r.evidence]_vars

(* A layer rests on accepted revisions of its own file that are not newer,   *)
(* all frozen by one revision of the file, and its claims and its evidence   *)
(* are among those of what it rests on, whatever was appended meanwhile; a   *)
(* judgment has every claim and all the evidence of its assessments.         *)
ChainsAreAccepted ==
    \A r \in revisions :
        LET below == Revisions(r.rests) \ Part(r.rests, "research")
            Lower(kinds) == {q \in below : q.kind \in kinds}
        IN /\ \A q \in below : q.file = r.file /\ q.at <= r.at
           /\ r.kind \in {"snapshot", "assessment", "judgment"} =>
                  /\ \A q \in below : Accepted(q)
                  /\ \E base \in Revisions(r.rests) :
                         /\ base.kind = "research" /\ base.file = r.file /\ base.at <= r.at
                         /\ {RefOf(q) : q \in Lower({"hypothesis"})} \subseteq base.rests
                         /\ \A q \in Lower({"snapshot", "assessment"}) : RefOf(base) \in q.rests
                  /\ r.claims \subseteq ClaimsOf(Lower({"hypothesis"}))
           /\ r.kind \in {"assessment", "judgment"} =>
                  r.evidence \subseteq UNION {q.evidence : q \in Lower({"snapshot"})}
           /\ \A a \in Lower({"assessment"}) : r.claims = a.claims /\ r.evidence = a.evidence
=============================================================================
