------------------------ MODULE ThesisSession_proofs ------------------------
(* Proofs about ThesisSession.                                             *)
EXTENDS ThesisSession, SequenceTheorems, WellFoundedInduction, TLAPS

SessionKinds == {"revise", "build", "review", "accept"}
Extending == {"revise", "review", "accept"}

(* Every command is at a step of its kind, and idle workers hold nothing.   *)
StepsFit ==
    \A w \in Worker :
        /\ pc[w] # "idle" => cmd[w] \in Command
        /\ pc[w] = "session" => cmd[w].kind \in SessionKinds
        /\ pc[w] = "revisions" => cmd[w].kind \in {"revise", "build", "accept"}
        /\ pc[w] = "owners" => cmd[w].kind \in {"accept", "assess", "pool"}

Shape == TypeOK /\ DOMAIN todo = Worker /\ DOMAIN holds = Worker /\ StepsFit

Exclusive == \A v, w \in Worker : v # w => holds[v] \intersect holds[w] = {}

Secured(w, s) == s \in todo[w] \/ s.row \in holds[w]

(* From the checks of the session on a command holds the session, and the   *)
(* owners' rows it depends on from the checks of the owners on.             *)
LocksTaken ==
    \A w \in Worker :
        /\ pc[w] = "session" => \A s \in SessionLocks(cmd[w]) : Secured(w, s)
        /\ pc[w] = "owners" => \A s \in OwnerLocks(cmd[w]) : Secured(w, s)
        /\ pc[w] \in {"revisions", "owners", "write"} /\ cmd[w].kind \in SessionKinds => Session \in holds[w]
        /\ pc[w] = "write" /\ cmd[w].kind \notin {"revise", "build", "review"} =>
               \A s \in OwnerLocks(cmd[w]) : s.row \in holds[w]

HeldExist == \A w \in Worker : \A k \in Key : Beneficiary(k) \in holds[w] => Of(beneficiaries, k) # {}

LockInv == Exclusive /\ LocksTaken /\ HeldExist

(* The numbers of the session's revisions are 1..latest, each used once; no *)
(* plan was made for a later revision.                                      *)
RevisionChain ==
    /\ latest \in Nat \ {0}
    /\ \A n \in 1..latest : Numbered(revisions, n) # {}
    /\ \A r, s \in revisions : r.no = s.no => r = s
    /\ \A r \in revisions : r.no \in 1..latest /\ r.plan.of \in 0..r.no

(* What has revisions has a latest one.                                     *)
Tops(chain) ==
    \A c \in chain : c.no \in Nat /\
        \E u \in chain : u.key = c.key /\ \A d \in chain : d.key = c.key => d.no <= u.no

CandidateChain == Tops(candidates) /\ \A c \in candidates : c.on \in 0..latest

OwnerChains ==
    /\ Tops(beneficiaries)
    /\ \A b, d \in beneficiaries : b.key = d.key /\ b.no = d.no => b = d
    /\ \A p \in pools : p.no \in Nat \ {0} /\ \E t \in pools : \A q \in pools : q.no <= t.no

Chains == RevisionChain /\ CandidateChain /\ OwnerChains

(* What the checks of the owners found holds until the command commits.     *)
OwnersSettled(c) ==
    /\ \A i \in c.owners :
           /\ i.op = "append" => LatestNumber(Of(beneficiaries, i.key)) = i.at
           /\ i.op = "reuse" => Reused(i) # {}
    /\ c.pool.op = "none" <=> Supported(c) = {}
    /\ c.pool.op = "reuse" => \E p \in Numbered(pools, c.pool.at) : p.members = Supported(c)

(* The checks of a command still hold at every later step of it.            *)
Checked(w) ==
    /\ pc[w] \in {"revisions", "write"} /\ cmd[w].kind = "revise" => ExpectsLatest(cmd[w])
    /\ pc[w] \in {"revisions", "write"} /\ cmd[w].kind = "build" => BuildAllowed(cmd[w])
    /\ pc[w] = "write" /\ cmd[w].kind = "review" => ReviewAllowed(cmd[w])
    /\ pc[w] \in {"owners", "write"} /\ cmd[w].kind = "accept" =>
           Planned(cmd[w]) /\ ExistingOutputs(cmd[w]) = {} /\ AcceptAllowed(cmd[w])
    /\ pc[w] = "write" /\ cmd[w].kind = "accept" => OwnersSettled(cmd[w])

StillChecked == \A w \in Worker : Checked(w)

(* A command that was done has extended the log.                            *)
DoneIsPast ==
    \A w \in Worker : cmd[w].kind \in Extending /\ reply[w] = "done" => cmd[w].no < latest

Base == Shape /\ LockInv /\ Chains /\ StillChecked

---------------------------------------------------------------------------
(* Numbers of revisions.                                                   *)

LEMMA LatestIsTop ==
    ASSUME NEW chain, NEW t \in chain, \A r \in chain : r.no \in Nat /\ r.no <= t.no
    PROVE  LatestNumber(chain) = t.no
  <1>1. t.no \in {r.no : r \in chain} /\ \A r \in chain : r.no <= t.no
    OBVIOUS
  <1>2. \A n \in {r.no : r \in chain} : (\A r \in chain : r.no <= n) => n = t.no
    OBVIOUS
  <1>3. chain # {}
    OBVIOUS
  <1> QED
    BY <1>1, <1>2, <1>3, Zenon DEF LatestNumber

LEMMA LatestBounds ==
    ASSUME NEW chain, Tops(chain), NEW k
    PROVE  /\ LatestNumber(Of(chain, k)) \in Nat
           /\ \A d \in Of(chain, k) : d.no \in Nat /\ d.no <= LatestNumber(Of(chain, k))
           /\ Of(chain, k) # {} => \E u \in Of(chain, k) : u.no = LatestNumber(Of(chain, k))
           /\ Of(chain, k) = {} => LatestNumber(Of(chain, k)) = 0
  <1>1. CASE Of(chain, k) = {}
    BY <1>1 DEF LatestNumber
  <1>2. CASE Of(chain, k) # {}
    <2>1. PICK u \in Of(chain, k) : \A d \in Of(chain, k) : d.no \in Nat /\ d.no <= u.no
      BY <1>2 DEF Tops, Of
    <2>2. LatestNumber(Of(chain, k)) = u.no
      BY <2>1, LatestIsTop
    <2> QED
      BY <1>2, <2>1, <2>2
  <1> QED
    BY <1>1, <1>2

(* A chain grows by at most one revision of everything in it, numbered      *)
(* after the latest.                                                       *)
LEMMA TopsGrow ==
    ASSUME NEW chain, Tops(chain), NEW more,
           \A x, y \in more : x.key = y.key => x = y,
           \A x \in more : x.no = LatestNumber(Of(chain, x.key)) + 1
    PROVE  /\ Tops(chain \union more)
           /\ \A x \in more : \A d \in chain : d.key = x.key => d.no < x.no
  <1>1. \A x \in more : x.no \in Nat /\ \A d \in chain : d.key = x.key => d.no \in Nat /\ d.no < x.no
    <2> SUFFICES ASSUME NEW x \in more
                 PROVE  x.no \in Nat /\ \A d \in chain : d.key = x.key => d.no \in Nat /\ d.no < x.no
      OBVIOUS
    <2>1. LatestNumber(Of(chain, x.key)) \in Nat
          /\ \A d \in Of(chain, x.key) : d.no \in Nat /\ d.no <= LatestNumber(Of(chain, x.key))
      BY LatestBounds, Zenon
    <2>2. x.no = LatestNumber(Of(chain, x.key)) + 1
      OBVIOUS
    <2> QED
      BY <2>1, <2>2 DEF Of
  <1>2. ASSUME NEW c \in chain \union more
        PROVE  c.no \in Nat /\ \E u \in chain \union more :
                   u.key = c.key /\ \A d \in chain \union more : d.key = c.key => d.no <= u.no
    <2>1. CASE \E x \in more : x.key = c.key
      BY <1>1, <2>1 DEF Tops
    <2>2. CASE ~\E x \in more : x.key = c.key
      BY <2>2 DEF Tops
    <2> QED
      BY <2>1, <2>2
  <1> QED
    BY <1>1, <1>2 DEF Tops

---------------------------------------------------------------------------
(* The locks.                                                              *)

LEMMA Rows ==
    ASSUME [Next]_vars
    PROVE  UNCHANGED rows \/ \E w \in Worker : Commit(w)
  BY DEF Next, Step, Lock, Proceed, Refuse, Replay, Conflict, DeadlockVictim, RollBack, Start, Finished,
         vars, rows

LEMMA CommandKinds ==
    ASSUME NEW c \in Command
    PROVE  /\ c.kind \in {"revise", "build", "review", "accept", "assess", "pool"}
           /\ c.kind \in SessionKinds => c.no \in Nat
           /\ c.kind = "revise" => c.workflow \in Workflow
           /\ c.kind = "build" => c.proposals \in SUBSET (Key \X Nat)
           /\ c.kind = "review" => c.decided \in SUBSET (Key \X Nat)
           /\ c.kind = "accept" => c.owners \in SUBSET OwnerItem /\ c.pool \in PoolItem /\ c \in Plan
           /\ c.kind = "assess" => c.key \in Key /\ c.op \in {"create", "append"}
  <1>1. c \in ReviseCommand \/ c \in BuildCommand \/ c \in ReviewCommand \/ c \in AcceptCommand
        \/ c \in AssessCommand \/ c \in PoolCommand
    BY SessionAssumption DEF SessionAssumption
  <1> QED
    BY <1>1 DEF ReviseCommand, BuildCommand, ReviewCommand, AcceptCommand, AssessCommand, PoolCommand,
                SessionKinds, Plan

Replies == {"none", "done", "replayed", "stale", "conflict", "refused", "failed"}

Workers ==
    /\ pc \in [Worker -> Stages \union {"idle", "write"}]
    /\ cmd \in [Worker -> Command \union {NoCommand}]
    /\ \A w \in Worker : pc[w] = "idle" => todo[w] = {} /\ holds[w] = {}
    /\ reply \in [Worker -> Replies]
    /\ commands \in 0..MaxCommands /\ faults \in 0..MaxFaults
    /\ DOMAIN todo = Worker /\ DOMAIN holds = Worker /\ StepsFit

LEMMA EndKeepsWorkers ==
    ASSUME Workers, NEW w \in Worker, NEW answer \in Replies, End(w, answer), faults' \in 0..MaxFaults
    PROVE  Workers'
  BY DEF Workers, End, StepsFit, Stages

LEMMA Answers ==
    ASSUME NEW w \in Worker, Step(w) \/ RollBack(w)
    PROVE  Lock(w) \/ Proceed(w) \/ \E answer \in Replies \ {"none"} : End(w, answer)
  <1>1. CASE Commit(w)
    BY <1>1, Zenon DEF Commit, ReviseSession, BuildCandidates, ReviewCandidates, AcceptOutputs, AssessBeneficiary,
              RevisePool, Committing, Replies
  <1>2. CASE Refuse(w)
    <2>1. Refusal(cmd[w], pc[w]) \in Replies \ {"none"}
      BY DEF Refusal, Replies
    <2> QED
      BY <1>2, <2>1, Zenon DEF Refuse, Replies
  <1>3. CASE Replay(w) \/ Conflict(w) \/ DeadlockVictim(w) \/ RollBack(w)
    BY <1>3, Zenon DEF Replay, Conflict, DeadlockVictim, RollBack, Replies
  <1> QED
    BY <1>1, <1>2, <1>3 DEF Step

LEMMA StepFaults ==
    ASSUME NEW w \in Worker, Step(w) \/ RollBack(w), faults \in 0..MaxFaults
    PROVE  faults' \in 0..MaxFaults
  BY SessionAssumption DEF SessionAssumption, Step, Lock, Proceed, Refuse, Replay, Conflict, DeadlockVictim,
     RollBack, Commit, ReviseSession, BuildCandidates, ReviewCandidates, AcceptOutputs, AssessBeneficiary,
     RevisePool

LEMMA WorkersStep ==
    ASSUME Workers, [Next]_vars
    PROVE  Workers'
  <1>1. CASE UNCHANGED vars
    BY <1>1 DEF vars, rows, Workers, StepsFit
  <1>2. ASSUME NEW w \in Worker, NEW c \in Command, Start(w, c)
        PROVE  Workers'
    <2>1. /\ c.kind \in {"assess", "pool"} => FirstStage(c) = "owners"
          /\ c.kind \notin {"assess", "pool"} => FirstStage(c) = "session" /\ c.kind \in SessionKinds
      BY CommandKinds DEF FirstStage, SessionKinds
    <2>2. commands' \in 0..MaxCommands /\ faults' = faults
      BY <1>2, SessionAssumption DEF Workers, Start, SessionAssumption
    <2> QED
      BY <1>2, <2>1, <2>2 DEF Start, Workers, StepsFit, Stages, Replies
  <1>3. ASSUME NEW w \in Worker, Lock(w)
        PROVE  Workers'
    BY <1>3 DEF Lock, Locking, Workers, StepsFit, Stages
  <1>4. ASSUME NEW w \in Worker, Proceed(w)
        PROVE  Workers'
    <2>1. NextStage(cmd[w], pc[w]) \in {"revisions", "owners", "write"}
          /\ (NextStage(cmd[w], pc[w]) = "revisions" => cmd[w].kind \in {"revise", "build", "accept"})
          /\ (NextStage(cmd[w], pc[w]) = "owners" => cmd[w].kind = "accept")
      BY <1>4 DEF Proceed, Locked, NextStage, Workers, StepsFit, Stages, SessionKinds
    <2> QED
      BY <1>4, <2>1 DEF Proceed, Locked, Workers, StepsFit, Stages
  <1>5. ASSUME NEW w \in Worker, NEW answer \in Replies, End(w, answer), Step(w) \/ RollBack(w)
        PROVE  Workers'
    BY <1>5, EndKeepsWorkers, StepFaults DEF Workers
  <1>6. ASSUME NEW w \in Worker, Step(w) \/ RollBack(w)
        PROVE  Workers'
    BY <1>3, <1>4, <1>5, <1>6, Answers
  <1> QED
    BY <1>1, <1>2, <1>6 DEF Next, Finished

LEMMA NothingLost ==
    ASSUME [Next]_vars
    PROVE  /\ revisions \subseteq revisions' /\ candidates \subseteq candidates' /\ outputs \subseteq outputs'
           /\ beneficiaries \subseteq beneficiaries' /\ pools \subseteq pools'
  <1>1. CASE UNCHANGED rows
    BY <1>1 DEF rows
  <1>2. ASSUME NEW w \in Worker, Commit(w)
        PROVE  /\ revisions \subseteq revisions' /\ candidates \subseteq candidates' /\ outputs \subseteq outputs'
               /\ beneficiaries \subseteq beneficiaries' /\ pools \subseteq pools'
    BY <1>2 DEF Commit, ReviseSession, BuildCandidates, ReviewCandidates, AcceptOutputs, AssessBeneficiary,
                RevisePool, AppendRevision
  <1> QED
    BY <1>1, <1>2, Rows

LEMMA ExclusiveStep ==
    ASSUME Shape, Exclusive, [Next]_vars
    PROVE  Exclusive'
  <1>1. CASE UNCHANGED vars
    BY <1>1 DEF vars, Exclusive
  <1>2. ASSUME NEW w \in Worker, NEW c \in Command, Start(w, c)
        PROVE  Exclusive'
    BY <1>2 DEF Start, Exclusive
  <1>3. ASSUME NEW w \in Worker, Lock(w)
        PROVE  Exclusive'
    <2>1. \A v \in Worker \ {w} : NextLock(w).row \notin holds[v]
      BY <1>3 DEF Lock, Waits
    <2>2. holds' = [holds EXCEPT ![w] = @ \union {NextLock(w).row}]
      BY <1>3 DEF Lock
    <2> QED
      BY <2>1, <2>2 DEF Exclusive, Shape
  <1>4. ASSUME NEW w \in Worker, Proceed(w)
        PROVE  Exclusive'
    BY <1>4 DEF Proceed, Exclusive
  <1>5. ASSUME NEW w \in Worker, NEW answer, End(w, answer)
        PROVE  Exclusive'
    BY <1>5 DEF End, Exclusive, Shape
  <1> QED
    BY <1>1, <1>2, <1>3, <1>4, <1>5, Answers DEF Next, Finished

LEMMA SessionIsLocked ==
    ASSUME NEW c, c.kind \in SessionKinds
    PROVE  \E s \in SessionLocks(c) : s.row = Session
  BY DEF SessionLocks, SessionKinds, At

LEMMA LocksTakenStep ==
    ASSUME Shape, LocksTaken, [Next]_vars
    PROVE  LocksTaken'
  <1>1. CASE UNCHANGED vars
    BY <1>1 DEF vars, LocksTaken, Secured, SessionLocks, OwnerLocks
  <1>2. ASSUME NEW w \in Worker, NEW c \in Command, Start(w, c)
        PROVE  LocksTaken'
    <2>1. FirstStage(c) \in {"session", "owners"}
      BY DEF FirstStage
    <2>2. todo'[w] = Locks(c, FirstStage(c)) /\ pc'[w] = FirstStage(c) /\ cmd'[w] = c
      BY <1>2 DEF Start, Shape, TypeOK
    <2>3. (pc'[w] = "session" => todo'[w] = SessionLocks(c)) /\ (pc'[w] = "owners" => todo'[w] = OwnerLocks(c))
      BY <2>2 DEF Locks
    <2>4. c.kind \in SessionKinds => FirstStage(c) = "session"
      BY DEF FirstStage, SessionKinds
    <2>5. \A v \in Worker \ {w} : pc'[v] = pc[v] /\ cmd'[v] = cmd[v] /\ todo'[v] = todo[v] /\ holds'[v] = holds[v]
      BY <1>2 DEF Start, Shape, TypeOK
    <2> QED
      BY <2>1, <2>2, <2>3, <2>4, <2>5 DEF LocksTaken, Secured, SessionLocks, OwnerLocks
  <1>3. ASSUME NEW w \in Worker, Lock(w)
        PROVE  LocksTaken'
    <2>1. PICK s : s = NextLock(w)
      OBVIOUS
    <2>2. /\ holds' = [holds EXCEPT ![w] = @ \union {s.row}] /\ todo' = [todo EXCEPT ![w] = @ \ {s}]
          /\ pc' = pc /\ cmd' = cmd /\ pc[w] \in Stages
      BY <1>3, <2>1 DEF Lock, Locking
    <2>3. \A v \in Worker : \A x : Secured(v, x) => Secured(v, x)'
      BY <2>2 DEF Secured, Shape
    <2>4. \A v \in Worker : holds[v] \subseteq holds'[v]
      BY <2>2 DEF Shape
    <2> QED
      BY <2>2, <2>3, <2>4 DEF LocksTaken, SessionLocks, OwnerLocks
  <1>4. ASSUME NEW w \in Worker, Proceed(w)
        PROVE  LocksTaken'
    <2>1. PICK next : next = NextStage(cmd[w], pc[w])
      OBVIOUS
    <2>2. /\ pc' = [pc EXCEPT ![w] = next] /\ todo' = [todo EXCEPT ![w] = Locks(cmd[w], next)]
          /\ cmd' = cmd /\ holds' = holds /\ pc[w] \in Stages /\ todo[w] = {}
      BY <1>4, <2>1 DEF Proceed, Locked
    <2>3. /\ pc[w] = "session" => next \in {"revisions", "write"} /\ cmd[w].kind \in SessionKinds
          /\ pc[w] = "session" /\ next = "write" => cmd[w].kind = "review"
          /\ pc[w] = "revisions" => next \in {"owners", "write"} /\ cmd[w].kind \in SessionKinds
          /\ pc[w] = "revisions" /\ next = "write" => cmd[w].kind # "accept"
          /\ pc[w] = "owners" => next = "write"
      BY <2>1, <2>2 DEF NextStage, Shape, StepsFit, Stages, SessionKinds
    <2>4. next = "owners" => Locks(cmd[w], next) = OwnerLocks(cmd[w])
      BY DEF Locks
    <2>5. pc[w] = "session" => Session \in holds[w]
      BY <2>2, <2>3, SessionIsLocked DEF LocksTaken, Secured
    <2>6. pc[w] = "revisions" => Session \in holds[w] /\ cmd[w].kind \in {"revise", "build", "accept"}
      BY <2>2, <2>3 DEF LocksTaken, Shape, StepsFit
    <2>7. pc[w] = "owners" => /\ \A s \in OwnerLocks(cmd[w]) : s.row \in holds[w]
                              /\ cmd[w].kind \in SessionKinds => Session \in holds[w]
      BY <2>2 DEF LocksTaken, Secured
    <2>8. \A v \in Worker \ {w} : pc'[v] = pc[v] /\ todo'[v] = todo[v]
      BY <2>2 DEF Shape, TypeOK
    <2>9. pc'[w] = next /\ todo'[w] = Locks(cmd[w], next)
      BY <2>2 DEF Shape, TypeOK
    <2>10. ASSUME NEW v \in Worker
           PROVE  /\ pc'[v] = "session" => \A s \in SessionLocks(cmd[v]) : Secured(v, s)'
                  /\ pc'[v] = "owners" => \A s \in OwnerLocks(cmd[v]) : Secured(v, s)'
                  /\ pc'[v] \in {"revisions", "owners", "write"} /\ cmd[v].kind \in SessionKinds
                         => Session \in holds[v]
                  /\ pc'[v] = "write" /\ cmd[v].kind \notin {"revise", "build", "review"} =>
                         \A s \in OwnerLocks(cmd[v]) : s.row \in holds[v]
      <3>1. CASE v = w
        BY <3>1, <2>2, <2>3, <2>4, <2>5, <2>6, <2>7, <2>9 DEF Secured, Stages
      <3>2. CASE v # w
        BY <3>2, <2>2, <2>8 DEF LocksTaken, Secured
      <3> QED
        BY <3>1, <3>2
    <2> QED
      BY <2>2, <2>10 DEF LocksTaken, SessionLocks, OwnerLocks
  <1>5. ASSUME NEW w \in Worker, NEW answer, End(w, answer)
        PROVE  LocksTaken'
    <2>1. pc'[w] = "idle" /\ cmd' = cmd
          /\ \A v \in Worker \ {w} : pc'[v] = pc[v] /\ todo'[v] = todo[v] /\ holds'[v] = holds[v]
      BY <1>5 DEF End, Shape, TypeOK
    <2> QED
      BY <2>1 DEF LocksTaken, Secured, SessionLocks, OwnerLocks
  <1> QED
    BY <1>1, <1>2, <1>3, <1>4, <1>5, Answers DEF Next, Finished

LEMMA HeldExistStep ==
    ASSUME Shape, HeldExist, [Next]_vars
    PROVE  HeldExist'
  <1>1. \A k \in Key : Of(beneficiaries, k) # {} => Of(beneficiaries', k) # {}
    BY NothingLost DEF Of
  <1>2. ASSUME NEW w \in Worker, Lock(w)
        PROVE  HeldExist'
    <2>1. \A k \in Key : NextLock(w).row = Beneficiary(k) => Of(beneficiaries, k) # {}
      BY <1>2 DEF Lock, Missing, Beneficiary
    <2>2. holds' = [holds EXCEPT ![w] = @ \union {NextLock(w).row}] /\ beneficiaries' = beneficiaries
      BY <1>2 DEF Lock, rows
    <2> QED
      BY <2>1, <2>2 DEF HeldExist, Shape, Of, Beneficiary
  <1>3. ASSUME \A w \in Worker : holds'[w] \subseteq holds[w]
        PROVE  HeldExist'
    BY <1>1, <1>3 DEF HeldExist, Of, Beneficiary
  <1>4. ASSUME NEW w \in Worker, NEW answer, End(w, answer)
        PROVE  \A v \in Worker : holds'[v] \subseteq holds[v]
    BY <1>4 DEF End, Shape
  <1>5. ASSUME NEW w \in Worker, Proceed(w) \/ \E c \in Command : Start(w, c)
        PROVE  \A v \in Worker : holds'[v] \subseteq holds[v]
    BY <1>5 DEF Proceed, Start
  <1>6. CASE UNCHANGED vars
    BY <1>3, <1>6 DEF vars
  <1> QED
    BY <1>2, <1>3, <1>4, <1>5, <1>6, Answers DEF Next, Finished

LEMMA LockStep ==
    ASSUME Shape, LockInv, [Next]_vars
    PROVE  LockInv'
  BY ExclusiveStep, LocksTakenStep, HeldExistStep DEF LockInv

---------------------------------------------------------------------------
(* The rows.                                                               *)

LEMMA OneSession ==
    ASSUME LockInv, NEW v \in Worker, NEW w \in Worker, v # w, pc[w] = "write", cmd[w].kind \in SessionKinds
    PROVE  ~(pc[v] \in {"revisions", "owners", "write"} /\ cmd[v].kind \in SessionKinds)
  BY DEF LockInv, Exclusive, LocksTaken

LEMMA AtLatest ==
    ASSUME Base, NEW w \in Worker, pc[w] = "write", cmd[w].kind \in SessionKinds
    PROVE  cmd[w].no = latest /\ cmd[w] \in Command
  BY DEF Base, Shape, StepsFit, StillChecked, Checked, BuildAllowed, ReviewAllowed, AcceptAllowed, ExpectsLatest, SessionKinds

(* The revisions an acceptance writes itself.                              *)
Made(c) == {Written(i, c.no) : i \in {x \in c.owners : x.op # "reuse"}}

LEMMA Reuses ==
    ASSUME NEW c
    PROVE  /\ Made(c) \subseteq Results(c)
           /\ Results(c) \subseteq Made(c) \union beneficiaries
           /\ \A b \in Results(c) : b \notin Made(c) => \E i \in c.owners : i.op = "reuse" /\ b \in Reused(i)
           /\ \A i \in c.owners : i.op = "reuse" => Reused(i) \subseteq Results(c)
  BY DEF Results, Made, Reused, Of

LEMMA MadeIsNext ==
    ASSUME Base, NEW w \in Worker, pc[w] = "write", cmd[w].kind = "accept", ~Duplicate(cmd[w])
    PROVE  /\ \A x \in Made(cmd[w]) : /\ x.key \in Key /\ x.no = LatestNumber(Of(beneficiaries, x.key)) + 1
                                      /\ x.by = cmd[w].no
           /\ \A x, y \in Made(cmd[w]) : x.key = y.key => x = y
  <1>1. PICK c : c = cmd[w]
    OBVIOUS
  <1>2. /\ c.owners \in SUBSET OwnerItem /\ \A i, j \in c.owners : i.key = j.key => i = j
        /\ \A i \in c.owners : i.op = "append" => LatestNumber(Of(beneficiaries, i.key)) = i.at
    BY <1>1, CommandKinds DEF Base, Shape, StepsFit, StillChecked, Checked, AcceptAllowed, OwnersSettled
  <1>3. \A i \in c.owners : i.op = "create" => Of(beneficiaries, i.key) = {}
    BY <1>1 DEF Duplicate, OwnerTaken
  <1>4. ASSUME NEW i \in c.owners, i.op # "reuse"
        PROVE  /\ Written(i, c.no).key = i.key /\ i.key \in Key /\ Written(i, c.no).by = c.no
               /\ Written(i, c.no).no = LatestNumber(Of(beneficiaries, i.key)) + 1
    <2>1. i.op \in {"create", "append"} /\ i.key \in Key
      BY <1>2, <1>4 DEF OwnerItem
    <2>2. CASE i.op = "create"
      <3>1. Of(beneficiaries, i.key) = {}
        BY <1>3, <2>2
      <3>2. LatestNumber(Of(beneficiaries, i.key)) = 0
        BY <3>1 DEF LatestNumber
      <3> QED
        BY <2>1, <2>2, <3>2 DEF Written
    <2>3. CASE i.op = "append"
      BY <1>2, <2>1, <2>3 DEF Written
    <2> QED
      BY <2>1, <2>2, <2>3
  <1> QED
    BY <1>1, <1>2, <1>4 DEF Made

LEMMA RowTypes ==
    ASSUME Base, [Next]_vars
    PROVE  /\ latest' \in Nat /\ \A r \in revisions' : r.no \in Nat /\ r.base \in Nat /\ r.workflow \in Workflow
           /\ \A c \in candidates' : c.key \in Key /\ c.no \in Nat /\ c.on \in Nat
           /\ \A o \in outputs' : o.plan \in Plan
           /\ \A b \in beneficiaries' : b.key \in Key /\ b.no \in Nat
  <1> USE DEF Shape, TypeOK
  <1>1. CASE UNCHANGED rows
    BY <1>1 DEF rows, Base
  <1>2. ASSUME NEW w \in Worker, Commit(w)
        PROVE  /\ latest' \in Nat /\ \A r \in revisions' : r.no \in Nat /\ r.base \in Nat /\ r.workflow \in Workflow
               /\ \A c \in candidates' : c.key \in Key /\ c.no \in Nat /\ c.on \in Nat
               /\ \A o \in outputs' : o.plan \in Plan
               /\ \A b \in beneficiaries' : b.key \in Key /\ b.no \in Nat
    <2>1. pc[w] = "write" /\ cmd[w] \in Command /\ ~Duplicate(cmd[w])
      BY <1>2 DEF Commit, ReviseSession, BuildCandidates, ReviewCandidates, AcceptOutputs, AssessBeneficiary,
                  RevisePool, Committing, Base, StepsFit
    <2>2. CASE ReviseSession(w)
      BY <2>1, <2>2, CommandKinds DEF ReviseSession, Committing, AppendRevision, NextNumber, SessionKinds, Base
    <2>3. CASE BuildCandidates(w)
      BY <2>1, <2>3, CommandKinds DEF BuildCandidates, Committing, SessionKinds, Base
    <2>4. CASE ReviewCandidates(w)
      <3>1. cmd[w].no \in Nat /\ cmd[w].decided \in SUBSET (Key \X Nat) /\ NextNumber(cmd[w]) = cmd[w].no + 1
        BY <2>1, <2>4, CommandKinds DEF ReviewCandidates, Committing, SessionKinds, NextNumber
      <3> QED
        BY <2>4, <3>1 DEF ReviewCandidates, AppendRevision, Workflow, Base
    <2>5. CASE AcceptOutputs(w)
      <3>1. cmd[w].kind = "accept" /\ cmd[w].no \in Nat /\ cmd[w] \in Plan /\ NextNumber(cmd[w]) = latest + 1
        BY <2>1, <2>5, CommandKinds DEF AcceptOutputs, Committing, SessionKinds, NextNumber
      <3>2. \A b \in Made(cmd[w]) : b.key \in Key /\ b.no \in Nat
        BY <2>1, <3>1, MadeIsNext, LatestBounds DEF Base, Chains, OwnerChains
      <3>3. \A b \in Results(cmd[w]) : b.key \in Key /\ b.no \in Nat
        BY <3>2, Reuses DEF Base
      <3>4. beneficiaries' = beneficiaries \union Results(cmd[w])
        BY <2>5 DEF AcceptOutputs
      <3>5. \A o \in outputs' : o \in outputs \/ o.plan = cmd[w]
        BY <2>5 DEF AcceptOutputs
      <3>6. /\ latest' \in Nat /\ candidates' = candidates
            /\ \A r \in revisions' : r.no \in Nat /\ r.base \in Nat /\ r.workflow \in Workflow
        BY <2>5, <3>1 DEF AcceptOutputs, AppendRevision, Workflow, Base
      <3> QED
        BY <3>1, <3>3, <3>4, <3>5, <3>6 DEF Base
    <2>6. CASE AssessBeneficiary(w)
      <3>1. cmd[w].key \in Key
        BY <2>1, <2>6, CommandKinds DEF AssessBeneficiary, Committing
      <3>2. LatestNumber(Of(beneficiaries, cmd[w].key)) \in Nat
        BY LatestBounds DEF Base, Chains, OwnerChains
      <3> QED
        BY <2>6, <3>1, <3>2 DEF AssessBeneficiary, Base
    <2>7. CASE RevisePool(w)
      BY <2>7 DEF RevisePool, Base
    <2> QED
      BY <1>2, <2>2, <2>3, <2>4, <2>5, <2>6, <2>7 DEF Commit
  <1> QED
    BY <1>1, <1>2, Rows

LEMMA ShapeStep ==
    ASSUME Base, [Next]_vars
    PROVE  Shape'
  <1>1. Workers
    BY DEF Base, Shape, TypeOK, Workers, Replies
  <1>2. Workers'
    BY <1>1, WorkersStep
  <1> QED
    BY <1>2, RowTypes DEF Workers, Replies, Shape, TypeOK

LEMMA Appended ==
    ASSUME Base, NEW w \in Worker, pc[w] = "write", cmd[w].kind \in Extending, NEW workflow, NEW plan,
           AppendRevision(cmd[w], workflow, plan), plan.of \in 0..(latest + 1)
    PROVE  /\ RevisionChain' /\ latest' = latest + 1
           /\ revisions' = revisions \union
                  {[no |-> latest + 1, base |-> latest, workflow |-> workflow, plan |-> plan]}
  <1>1. cmd[w].no = latest /\ latest \in Nat \ {0}
    BY AtLatest DEF Extending, SessionKinds, Base, Chains, RevisionChain
  <1>2. NextNumber(cmd[w]) = latest + 1
    BY <1>1 DEF NextNumber
  <1>3. latest' = latest + 1 /\ revisions' = revisions \union
            {[no |-> latest + 1, base |-> latest, workflow |-> workflow, plan |-> plan]}
    BY <1>1, <1>2 DEF AppendRevision
  <1>4. ASSUME NEW n \in 1..latest'
        PROVE  Numbered(revisions', n) # {}
    <2>1. CASE n = latest + 1
      <3>1. PICK r : r = [no |-> latest + 1, base |-> latest, workflow |-> workflow, plan |-> plan]
        OBVIOUS
      <3>2. r \in revisions' /\ r.no = n
        BY <1>3, <2>1, <3>1
      <3> QED
        BY <3>2 DEF Numbered
    <2>2. CASE n # latest + 1
      <3>1. n \in 1..latest
        BY <1>1, <1>3, <2>2
      <3>2. Numbered(revisions, n) # {}
        BY <3>1 DEF Base, Chains, RevisionChain
      <3> QED
        BY <1>3, <3>2 DEF Numbered
    <2> QED
      BY <2>1, <2>2
  <1>5. \A r \in revisions' : r.no \in 1..latest' /\ r.plan.of \in 0..r.no
    BY <1>1, <1>3 DEF Base, Chains, RevisionChain
  <1>6. \A r, s \in revisions' : r.no = s.no => r = s
    BY <1>1, <1>3 DEF Base, Chains, RevisionChain
  <1> QED
    BY <1>1, <1>3, <1>4, <1>5, <1>6 DEF RevisionChain, Numbered

LEMMA PlanKept ==
    ASSUME Base
    PROVE  \E r \in revisions : r.no = latest /\ PlanOf(latest) = r.plan
  BY DEF Base, Chains, RevisionChain, Numbered, PlanOf

(* Which revision a command appends, and what it says.                     *)
LEMMA Extends ==
    ASSUME Base, NEW w \in Worker, ReviseSession(w) \/ ReviewCandidates(w) \/ AcceptOutputs(w)
    PROVE  /\ RevisionChain' /\ latest' = latest + 1 /\ cmd[w].no = latest
           /\ \E workflow \in Workflow : \E plan :
                  /\ revisions' = revisions \union
                         {[no |-> latest + 1, base |-> latest, workflow |-> workflow, plan |-> plan]}
                  /\ ReviseSession(w) \/ AcceptOutputs(w) => plan.of \in 0..latest
                  /\ ReviewCandidates(w) => plan.covers = cmd[w].decided
                  /\ AcceptOutputs(w) => workflow = "accepted"
  <1>1. pc[w] = "write" /\ cmd[w].kind \in Extending
    BY DEF ReviseSession, ReviewCandidates, AcceptOutputs, Committing, Extending
  <1>2. cmd[w].no = latest /\ cmd[w] \in Command /\ latest \in Nat \ {0}
    BY <1>1, AtLatest DEF Extending, SessionKinds, Base, Chains, RevisionChain
  <1>3. CASE ReviseSession(w)
    <2>1. AppendRevision(cmd[w], cmd[w].workflow, PlanOf(cmd[w].no)) /\ cmd[w].kind = "revise"
      BY <1>3 DEF ReviseSession, Committing
    <2>2. PlanOf(cmd[w].no).of \in 0..latest
      BY <1>2, PlanKept DEF Base, Chains, RevisionChain
    <2>3. cmd[w].workflow \in Workflow
      BY <1>2, <2>1, CommandKinds
    <2>4. ~ReviewCandidates(w) /\ ~AcceptOutputs(w)
      BY <2>1 DEF ReviewCandidates, AcceptOutputs, Committing
    <2>5. PlanOf(cmd[w].no).of \in 0..(latest + 1)
      BY <1>2, <2>2
    <2> QED
      BY <1>1, <1>2, <2>1, <2>2, <2>3, <2>4, <2>5, Appended
  <1>4. CASE ReviewCandidates(w)
    <2>0. PICK plan : plan = [version |-> 2, of |-> cmd[w].no + 1, covers |-> cmd[w].decided,
                              selected |-> cmd[w].selected]
      OBVIOUS
    <2>1. AppendRevision(cmd[w], "reviewed", plan) /\ cmd[w].kind = "review"
      BY <1>4, <2>0 DEF ReviewCandidates, Committing
    <2>2. plan.of \in 0..(latest + 1) /\ plan.covers = cmd[w].decided /\ "reviewed" \in Workflow
      BY <1>2, <2>0 DEF Workflow
    <2>3. ~ReviseSession(w) /\ ~AcceptOutputs(w)
      BY <2>1 DEF ReviseSession, AcceptOutputs, Committing
    <2>4. /\ RevisionChain' /\ latest' = latest + 1
          /\ revisions' = revisions \union
                 {[no |-> latest + 1, base |-> latest, workflow |-> "reviewed", plan |-> plan]}
      BY <1>1, <2>1, <2>2, Appended
    <2> QED
      BY <1>2, <2>2, <2>3, <2>4
  <1>5. CASE AcceptOutputs(w)
    <2>1. AppendRevision(cmd[w], "accepted", NoPlan) /\ cmd[w].kind = "accept"
      BY <1>5 DEF AcceptOutputs, Committing
    <2>2. NoPlan.of \in 0..(latest + 1) /\ NoPlan.of \in 0..latest /\ "accepted" \in Workflow
      BY <1>2 DEF NoPlan, Workflow
    <2>3. ~ReviseSession(w) /\ ~ReviewCandidates(w)
      BY <2>1 DEF ReviewCandidates, ReviseSession, Committing
    <2> QED
      BY <1>1, <1>2, <2>1, <2>2, <2>3, Appended
  <1> QED
    BY <1>3, <1>4, <1>5

LEMMA ProposalsFollow ==
    ASSUME Base, NEW w \in Worker, BuildCandidates(w) \/ ReviewCandidates(w)
    PROVE  \E more : /\ candidates' = candidates \union more
                     /\ \A x, y \in more : x.key = y.key => x = y
                     /\ \A x \in more : x.no = LatestNumber(Of(candidates, x.key)) + 1
                     /\ BuildCandidates(w) => \A x \in more : x.on = latest
                     /\ ReviewCandidates(w) => \A x \in more : x.on = latest + 1
  <1>1. pc[w] = "write" /\ cmd[w].kind \in SessionKinds
    BY DEF BuildCandidates, ReviewCandidates, Committing, SessionKinds
  <1>2. cmd[w].no = latest
    BY <1>1, AtLatest
  <1>3. CASE BuildCandidates(w)
    <2>1. BuildAllowed(cmd[w]) /\ ~ReviewCandidates(w)
      BY <1>3 DEF BuildCandidates, ReviewCandidates, Committing, Base, StillChecked, Checked
    <2>2. candidates' = candidates \union {[key |-> p[1], no |-> p[2] + 1, on |-> cmd[w].no] : p \in cmd[w].proposals}
      BY <1>3 DEF BuildCandidates
    <2>3. PICK more : more = {[key |-> p[1], no |-> p[2] + 1, on |-> cmd[w].no] : p \in cmd[w].proposals}
      OBVIOUS
    <2>4. \A x \in more : \E p \in cmd[w].proposals : x = [key |-> p[1], no |-> p[2] + 1, on |-> cmd[w].no]
      BY <2>3
    <2>5. \A x, y \in more : x.key = y.key => x = y
      BY <2>1, <2>4 DEF BuildAllowed
    <2>6. \A x \in more : x.no = LatestNumber(Of(candidates, x.key)) + 1 /\ x.on = latest
      BY <1>2, <2>1, <2>4 DEF BuildAllowed, LatestOf
    <2> QED
      BY <2>1, <2>2, <2>3, <2>5, <2>6
  <1>4. CASE ReviewCandidates(w)
    <2>1. ReviewAllowed(cmd[w]) /\ ~BuildCandidates(w)
      BY <1>4 DEF BuildCandidates, ReviewCandidates, Committing, Base, StillChecked, Checked
    <2>2. candidates' = candidates \union {[key |-> d[1], no |-> d[2] + 1, on |-> cmd[w].no + 1] : d \in cmd[w].decided}
      BY <1>4 DEF ReviewCandidates
    <2>3. PICK more : more = {[key |-> d[1], no |-> d[2] + 1, on |-> cmd[w].no + 1] : d \in cmd[w].decided}
      OBVIOUS
    <2>4. \A d \in cmd[w].decided : d[2] = LatestOf(d[1])
      BY <2>1 DEF ReviewAllowed, Universe
    <2>5. \A d, e \in cmd[w].decided : d[1] = e[1] => d = e
      BY <2>1 DEF ReviewAllowed, Universe
    <2>6. \A x \in more : \E d \in cmd[w].decided : x = [key |-> d[1], no |-> d[2] + 1, on |-> cmd[w].no + 1]
      BY <2>3
    <2>7. \A x, y \in more : x.key = y.key => x = y
      BY <2>5, <2>6
    <2>8. \A x \in more : x.no = LatestNumber(Of(candidates, x.key)) + 1 /\ x.on = latest + 1
      BY <1>2, <2>4, <2>6 DEF LatestOf
    <2> QED
      BY <2>1, <2>2, <2>3, <2>7, <2>8
  <1> QED
    BY <1>3, <1>4

LEMMA UniqueGrow ==
    ASSUME NEW chain, NEW more, \A b, d \in chain : b.key = d.key /\ b.no = d.no => b = d,
           \A x, y \in more : x.key = y.key => x = y,
           \A c \in chain : c.no \in Nat,
           \A x \in more : x.no \in Nat /\ \A d \in chain : d.key = x.key => d.no < x.no
    PROVE  \A b, d \in chain \union more : b.key = d.key /\ b.no = d.no => b = d
  OBVIOUS

(* The beneficiary revisions a command adds follow those there are.        *)
LEMMA OwnersFollow ==
    ASSUME Base, NEW w \in Worker, AcceptOutputs(w) \/ AssessBeneficiary(w)
    PROVE  \E more : /\ beneficiaries' = beneficiaries \union more
                     /\ \A x, y \in more : x.key = y.key => x = y
                     /\ \A x \in more : x.no = LatestNumber(Of(beneficiaries, x.key)) + 1
                     /\ \A x \in more : /\ AcceptOutputs(w) => x \in Made(cmd[w])
                                        /\ AssessBeneficiary(w) => x.by = 0 /\ x.key = cmd[w].key
  <1>1. CASE AcceptOutputs(w)
    <2>1. pc[w] = "write" /\ cmd[w].kind = "accept" /\ ~Duplicate(cmd[w])
          /\ beneficiaries' = beneficiaries \union Results(cmd[w])
      BY <1>1 DEF AcceptOutputs, Committing
    <2>2. beneficiaries' = beneficiaries \union Made(cmd[w])
      BY <2>1, Reuses
    <2>3. ~AssessBeneficiary(w)
      BY <2>1 DEF AssessBeneficiary, Committing
    <2> QED
      BY <2>1, <2>2, <2>3, MadeIsNext
  <1>2. CASE AssessBeneficiary(w)
    <2>1. PICK x : x = [key |-> cmd[w].key, no |-> LatestNumber(Of(beneficiaries, cmd[w].key)) + 1,
                        supported |-> cmd[w].supported, by |-> 0]
      OBVIOUS
    <2>2. PICK more : more = {x}
      OBVIOUS
    <2>3. beneficiaries' = beneficiaries \union more /\ ~AcceptOutputs(w)
      BY <1>2, <2>1, <2>2 DEF AssessBeneficiary, AcceptOutputs, Committing
    <2>4. x.key = cmd[w].key /\ x.no = LatestNumber(Of(beneficiaries, x.key)) + 1 /\ x.by = 0
      BY <2>1
    <2>5. \A y \in more : y = x
      BY <2>2
    <2> QED
      BY <2>3, <2>4, <2>5
  <1> QED
    BY <1>1, <1>2

LEMMA PoolsGrow ==
    ASSUME NEW set, NEW x, x.no \in Nat \ {0},
           \A p \in set : p.no \in Nat \ {0} /\ \E t \in set : \A q \in set : q.no <= t.no
    PROVE  \A p \in set \union {x} :
               p.no \in Nat \ {0} /\ \E t \in set \union {x} : \A q \in set \union {x} : q.no <= t.no
  <1>1. CASE set = {}
    BY <1>1
  <1>2. CASE set # {}
    <2>1. PICK t \in set : \A q \in set : q.no <= t.no
      BY <1>2
    <2>2. CASE t.no <= x.no
      BY <2>1, <2>2
    <2>3. CASE x.no <= t.no
      BY <2>1, <2>3
    <2> QED
      BY <2>1, <2>2, <2>3
  <1> QED
    BY <1>1, <1>2

LEMMA OwnerChainsStep ==
    ASSUME Base, NEW w \in Worker, AcceptOutputs(w) \/ AssessBeneficiary(w) \/ RevisePool(w)
    PROVE  OwnerChains'
  <1>0. \A p \in pools : p.no \in Nat \ {0} /\ \E t \in pools : \A q \in pools : q.no <= t.no
    BY DEF Base, Chains, OwnerChains
  <1>1. CASE AcceptOutputs(w) \/ AssessBeneficiary(w)
    <2>1. PICK more : /\ beneficiaries' = beneficiaries \union more
                      /\ \A x, y \in more : x.key = y.key => x = y
                      /\ \A x \in more : x.no = LatestNumber(Of(beneficiaries, x.key)) + 1
      BY <1>1, OwnersFollow
    <2>2. Tops(beneficiaries)
      BY DEF Base, Chains, OwnerChains
    <2>3. Tops(beneficiaries \union more)
          /\ \A x \in more : \A d \in beneficiaries : d.key = x.key => d.no < x.no
      BY <2>1, <2>2, TopsGrow
    <2>4. \A x \in beneficiaries \union more : x.no \in Nat
      BY <2>3 DEF Tops
    <2>5. \A b, d \in beneficiaries \union more : b.key = d.key /\ b.no = d.no => b = d
      BY <2>1, <2>3, <2>4, UniqueGrow DEF Base, Chains, OwnerChains
    <2>6. \A p \in pools' : p.no \in Nat \ {0} /\ \E t \in pools' : \A q \in pools' : q.no <= t.no
      <3>1. CASE AssessBeneficiary(w)
        BY <3>1 DEF AssessBeneficiary, Base, Chains, OwnerChains
      <3>2. CASE AcceptOutputs(w)
        <4>1. pools' = pools \union PoolWritten(cmd[w]) /\ cmd[w] \in Command /\ cmd[w].kind = "accept"
          BY <3>2 DEF AcceptOutputs, Committing, Base, Shape, StepsFit
        <4>2. PoolWritten(cmd[w]) = {} \/ \E p : p.no \in Nat \ {0} /\ PoolWritten(cmd[w]) = {p}
          BY <4>1, CommandKinds DEF PoolWritten, PoolItem
        <4>3. CASE PoolWritten(cmd[w]) = {}
          BY <1>0, <4>1, <4>3
        <4>4. ASSUME NEW p, p.no \in Nat \ {0}, PoolWritten(cmd[w]) = {p}
              PROVE  \A q \in pools' : q.no \in Nat \ {0} /\ \E t \in pools' : \A r \in pools' : r.no <= t.no
          <5>1. pools' = pools \union {p}
            BY <4>1, <4>4
          <5>2. \A q \in pools \union {p} : q.no \in Nat \ {0}
                    /\ \E t \in pools \union {p} : \A r \in pools \union {p} : r.no <= t.no
            BY <1>0, <4>4, PoolsGrow
          <5> QED
            BY <5>1, <5>2
        <4> QED
          BY <4>2, <4>3, <4>4
      <3> QED
        BY <1>1, <3>1, <3>2
    <2> QED
      BY <2>1, <2>3, <2>5, <2>6 DEF OwnerChains
  <1>2. CASE RevisePool(w)
    <2>1. LatestNumber(pools) \in Nat
      <3>1. CASE pools = {}
        BY <3>1 DEF LatestNumber
      <3>2. CASE pools # {}
        BY <3>2, LatestIsTop DEF Base, Chains, OwnerChains
      <3> QED
        BY <3>1, <3>2
    <2>2. PICK p : p = [no |-> LatestNumber(pools) + 1, members |-> cmd[w].members, by |-> 0]
      OBVIOUS
    <2>3. pools' = pools \union {p} /\ beneficiaries' = beneficiaries
      BY <1>2, <2>2 DEF RevisePool
    <2>5. p.no \in Nat \ {0}
      BY <2>1, <2>2
    <2>4. \A q \in pools \union {p} : q.no \in Nat \ {0}
              /\ \E t \in pools \union {p} : \A r \in pools \union {p} : r.no <= t.no
      BY <1>0, <2>5, PoolsGrow
    <2> QED
      BY <2>3, <2>4 DEF OwnerChains, Base, Chains, Tops
  <1> QED
    BY <1>1, <1>2

LEMMA ChainsStep ==
    ASSUME Base, [Next]_vars
    PROVE  Chains'
  <1>1. CASE UNCHANGED rows
    BY <1>1 DEF rows, Base, Chains, RevisionChain, CandidateChain, OwnerChains, Tops, Numbered
  <1>2. ASSUME NEW w \in Worker, ReviseSession(w) \/ ReviewCandidates(w) \/ AcceptOutputs(w)
        PROVE  RevisionChain' /\ latest' = latest + 1
    BY <1>2, Extends
  <1>3. ASSUME NEW w \in Worker, BuildCandidates(w) \/ AssessBeneficiary(w) \/ RevisePool(w)
        PROVE  RevisionChain' /\ latest' = latest
    BY <1>3 DEF BuildCandidates, AssessBeneficiary, RevisePool, Base, Chains, RevisionChain, Numbered
  <1>4. ASSUME NEW w \in Worker, BuildCandidates(w) \/ ReviewCandidates(w)
        PROVE  CandidateChain'
    <2>1. PICK more : /\ candidates' = candidates \union more
                      /\ \A x, y \in more : x.key = y.key => x = y
                      /\ \A x \in more : x.no = LatestNumber(Of(candidates, x.key)) + 1
                      /\ BuildCandidates(w) => \A x \in more : x.on = latest
                      /\ ReviewCandidates(w) => \A x \in more : x.on = latest + 1
      BY <1>4, ProposalsFollow
    <2>2. Tops(candidates \union more)
      BY <2>1, TopsGrow DEF Base, Chains, CandidateChain
    <2>3. /\ BuildCandidates(w) => latest' = latest
          /\ ReviewCandidates(w) => latest' = latest + 1
      BY <1>2, <1>3
    <2>4. latest \in Nat /\ \A c \in candidates : c.on \in 0..latest
      BY DEF Base, Chains, RevisionChain, CandidateChain
    <2> QED
      BY <1>4, <2>1, <2>2, <2>3, <2>4 DEF CandidateChain
  <1>5. ASSUME candidates' = candidates, latest' \in {latest, latest + 1}
        PROVE  CandidateChain'
    BY <1>5 DEF Base, Chains, RevisionChain, CandidateChain, Tops
  <1>6. ASSUME beneficiaries' = beneficiaries, pools' = pools
        PROVE  OwnerChains'
    BY <1>6 DEF Base, Chains, OwnerChains, Tops
  <1>7. ASSUME NEW w \in Worker, ReviseSession(w) \/ AcceptOutputs(w) \/ AssessBeneficiary(w) \/ RevisePool(w)
        PROVE  candidates' = candidates
    BY <1>7 DEF ReviseSession, AcceptOutputs, AssessBeneficiary, RevisePool
  <1>8. ASSUME NEW w \in Worker, ReviseSession(w) \/ BuildCandidates(w) \/ ReviewCandidates(w)
        PROVE  beneficiaries' = beneficiaries /\ pools' = pools
    BY <1>8 DEF ReviseSession, BuildCandidates, ReviewCandidates
  <1> QED
    BY <1>1, <1>2, <1>3, <1>4, <1>5, <1>6, <1>7, <1>8, OwnerChainsStep, Rows DEF Chains, Commit

(* The checks.                                                             *)
LEMMA PassedNow ==
    ASSUME Base, NEW w \in Worker, Proceed(w)
    PROVE  LET next == NextStage(cmd[w], pc[w])
           IN /\ next \in {"revisions", "write"} /\ cmd[w].kind = "revise" => ExpectsLatest(cmd[w])
              /\ next \in {"revisions", "write"} /\ cmd[w].kind = "build" => BuildAllowed(cmd[w])
              /\ next = "write" /\ cmd[w].kind = "review" => ReviewAllowed(cmd[w])
              /\ next \in {"owners", "write"} /\ cmd[w].kind = "accept" =>
                     Planned(cmd[w]) /\ ExistingOutputs(cmd[w]) = {} /\ AcceptAllowed(cmd[w])
              /\ next = "write" /\ cmd[w].kind = "accept" => OwnersSettled(cmd[w])
  <1>1. Passes(cmd[w], pc[w]) /\ pc[w] \in Stages
    BY DEF Proceed, Locked
  <1>2. CASE pc[w] = "session"
    BY <1>1, <1>2 DEF Passes, NextStage, Base, Shape, StepsFit, SessionKinds
  <1>3. CASE pc[w] = "revisions"
    BY <1>1, <1>3 DEF Passes, NextStage, Base, Shape, StepsFit, StillChecked, Checked
  <1>4. CASE pc[w] = "owners"
    <2>1. cmd[w].kind = "accept" => OwnersAllow(cmd[w])
      BY <1>1, <1>4 DEF Passes
    <2>2. OwnersAllow(cmd[w]) => OwnersSettled(cmd[w])
      BY DEF OwnersAllow, OwnersSettled
    <2> QED
      BY <1>4, <2>1, <2>2 DEF Base, Shape, StepsFit, StillChecked, Checked
  <1> QED
    BY <1>1, <1>2, <1>3, <1>4 DEF Stages

LEMMA SettledKept ==
    ASSUME Base, NEW v \in Worker, NEW w \in Worker, v # w, AssessBeneficiary(w) \/ RevisePool(w),
           pc[v] = "write", cmd[v].kind = "accept"
    PROVE  OwnersSettled(cmd[v])'
  <1>1. PICK c : c = cmd[v]
    OBVIOUS
  <1>2. cmd' = cmd
    BY DEF AssessBeneficiary, RevisePool, Committing, End
  <1>3. c \in Command /\ c.kind = "accept" /\ c.owners \in SUBSET OwnerItem /\ OwnersSettled(c)
    BY <1>1, CommandKinds DEF Base, Shape, StepsFit, StillChecked, Checked
  <1>4. CASE AssessBeneficiary(w)
    <2>1. pc[w] = "write" /\ cmd[w].kind = "assess" /\ ~Duplicate(cmd[w]) /\ cmd[w] \in Command
      BY <1>4 DEF AssessBeneficiary, Committing, Base, Shape, StepsFit
    <2>2. PICK k : k = cmd[w].key
      OBVIOUS
    <2>0. PICK x : x = [key |-> cmd[w].key, no |-> LatestNumber(Of(beneficiaries, cmd[w].key)) + 1,
                        supported |-> cmd[w].supported, by |-> 0]
      OBVIOUS
    <2>3. /\ beneficiaries' = beneficiaries \union {x} /\ x.key = k
          /\ x.no = LatestNumber(Of(beneficiaries, k)) + 1
      BY <1>4, <2>0, <2>2 DEF AssessBeneficiary
    <2>4. \A i \in c.owners : i.op = "append" => i.key # k
      <3> SUFFICES ASSUME NEW i \in c.owners, i.op = "append", i.key = k
                   PROVE  FALSE
        OBVIOUS
      <3>1. Beneficiary(k) \in holds[v]
        <4>1. At(k, Beneficiary(k)) \in OwnerLocks(c)
          BY <1>3 DEF OwnerLocks, Existing
        <4>2. At(k, Beneficiary(k)).row = Beneficiary(k)
          BY DEF At
        <4> QED
          BY <1>1, <1>3, <4>1, <4>2 DEF Base, LockInv, LocksTaken
      <3>2. CASE cmd[w].op = "append"
        <4>1. At(0, Beneficiary(k)) \in OwnerLocks(cmd[w])
          BY <2>1, <2>2, <3>2 DEF OwnerLocks, Existing
        <4>2. At(0, Beneficiary(k)).row = Beneficiary(k)
          BY DEF At
        <4>3. Beneficiary(k) \in holds[w]
          BY <2>1, <4>1, <4>2 DEF Base, LockInv, LocksTaken
        <4> QED
          BY <3>1, <4>3 DEF Base, LockInv, Exclusive
      <3>3. CASE cmd[w].op = "create"
        <4>1. Of(beneficiaries, k) = {} /\ k \in Key
          BY <2>1, <2>2, <3>3, CommandKinds DEF Duplicate
        <4> QED
          BY <3>1, <4>1 DEF Base, LockInv, HeldExist
      <3> QED
        BY <2>1, <3>2, <3>3, CommandKinds
    <2>5. ASSUME NEW i \in c.owners, i.op = "append"
          PROVE  Of(beneficiaries', i.key) = Of(beneficiaries, i.key)
      BY <2>3, <2>4, <2>5 DEF Of
    <2>6. ASSUME NEW i \in c.owners, i.op = "reuse"
          PROVE  Reused(i)' = Reused(i)
      <3>1. PICK b \in beneficiaries : b.key = i.key /\ b.no = i.at
        BY <1>3, <2>6 DEF OwnersSettled, Reused, Of
      <3>2. i.key = k => b.no \in Nat /\ b.no < x.no
        <4>1. i.key = k => b \in Of(beneficiaries, k)
          BY <3>1 DEF Of
        <4>2. /\ LatestNumber(Of(beneficiaries, k)) \in Nat
              /\ \A d \in Of(beneficiaries, k) : d.no \in Nat /\ d.no <= LatestNumber(Of(beneficiaries, k))
          BY LatestBounds DEF Base, Chains, OwnerChains
        <4> QED
          BY <2>3, <4>1, <4>2
      <3> QED
        BY <2>3, <3>1, <3>2 DEF Reused, Of
    <2>7. Results(c)' = Results(c)
      BY <2>6 DEF Results, Written
    <2>8. Supported(c)' = Supported(c)
      BY <2>7 DEF Supported
    <2>9. pools' = pools
      BY <1>4 DEF AssessBeneficiary
    <2>10. OwnersSettled(c)'
      BY <1>3, <2>5, <2>6, <2>8, <2>9 DEF OwnersSettled, Numbered
    <2> QED
      BY <1>1, <1>2, <2>10 DEF OwnersSettled, Numbered, Reused, Supported, Results, Written
  <1>5. CASE RevisePool(w)
    <2>1. beneficiaries' = beneficiaries /\ pools \subseteq pools'
      BY <1>5 DEF RevisePool
    <2>2. Supported(c)' = Supported(c) /\ \A i : Reused(i)' = Reused(i)
      BY <2>1 DEF Supported, Results, Written, Reused
    <2> QED
      BY <1>1, <1>2, <1>3, <2>1, <2>2 DEF OwnersSettled, Numbered
  <1> QED
    BY <1>4, <1>5

LEMMA CheckedKept ==
    ASSUME Base, NEW v \in Worker, UNCHANGED rows, pc'[v] = pc[v], cmd'[v] = cmd[v]
    PROVE  Checked(v)'
  <1>1. PICK c : c = cmd[v]
    OBVIOUS
  <1>2. /\ ExpectsLatest(c)' <=> ExpectsLatest(c)
        /\ Planned(c)' <=> Planned(c)
        /\ ExistingOutputs(c)' = ExistingOutputs(c)
    BY DEF rows, ExpectsLatest, Planned, ExistingOutputs, Numbered
  <1>3. (BuildAllowed(c)' <=> BuildAllowed(c)) /\ (AcceptAllowed(c)' <=> AcceptAllowed(c))
    BY DEF rows, ExpectsLatest, BuildAllowed, LatestOf, AcceptAllowed, Numbered
  <1>4. ReviewAllowed(c)' <=> ReviewAllowed(c)
    BY DEF rows, ExpectsLatest, ReviewAllowed, Reviewable, Universe, LatestOf, Numbered
  <1>5. OwnersSettled(c)' <=> OwnersSettled(c)
    <2>1. Supported(c)' = Supported(c) /\ \A i : Reused(i)' = Reused(i)
      BY DEF rows, Supported, Results, Written, Reused
    <2> QED
      BY <2>1 DEF rows, OwnersSettled, Numbered
  <1>6. /\ ExpectsLatest(cmd[v])' <=> ExpectsLatest(c)'
        /\ Planned(cmd[v])' <=> Planned(c)'
        /\ ExistingOutputs(cmd[v])' = ExistingOutputs(c)'
        /\ BuildAllowed(cmd[v])' <=> BuildAllowed(c)'
        /\ AcceptAllowed(cmd[v])' <=> AcceptAllowed(c)'
        /\ ReviewAllowed(cmd[v])' <=> ReviewAllowed(c)'
        /\ OwnersSettled(cmd[v])' <=> OwnersSettled(c)'
    BY <1>1
  <1>7. Checked(v)
    BY DEF Base, StillChecked
  <1> QED
    BY <1>1, <1>2, <1>3, <1>4, <1>5, <1>6, <1>7 DEF Checked

LEMMA StillCheckedStep ==
    ASSUME Base, [Next]_vars
    PROVE  StillChecked'
  <1>1. CASE UNCHANGED vars
    BY <1>1, CheckedKept DEF vars, StillChecked
  <1>2. ASSUME NEW v \in Worker, pc'[v] \in {"idle", "session"} \/ (pc'[v] = "owners" /\ cmd'[v].kind # "accept")
        PROVE  Checked(v)'
    BY <1>2 DEF Checked
  <1>3. ASSUME NEW w \in Worker, NEW c \in Command, Start(w, c)
        PROVE  StillChecked'
    <2>1. /\ pc'[w] = FirstStage(c) /\ cmd'[w] = c /\ UNCHANGED rows
          /\ \A v \in Worker \ {w} : pc'[v] = pc[v] /\ cmd'[v] = cmd[v]
      BY <1>3 DEF Start, Base, Shape, TypeOK
    <2>2. FirstStage(c) = "session" \/ (FirstStage(c) = "owners" /\ c.kind # "accept")
      BY DEF FirstStage
    <2> QED
      BY <1>2, <2>1, <2>2, CheckedKept DEF StillChecked
  <1>4. ASSUME NEW w \in Worker, Lock(w)
        PROVE  StillChecked'
    BY <1>4, CheckedKept DEF Lock, StillChecked
  <1>5. ASSUME NEW w \in Worker, Proceed(w)
        PROVE  StillChecked'
    <2>1. PICK next : next = NextStage(cmd[w], pc[w])
      OBVIOUS
    <2>2. /\ pc'[w] = next /\ cmd' = cmd /\ UNCHANGED rows
          /\ \A v \in Worker \ {w} : pc'[v] = pc[v]
      BY <1>5, <2>1 DEF Proceed, Base, Shape, TypeOK
    <2>3. Checked(w)'
      BY <1>5, <2>1, <2>2, PassedNow
         DEF Checked, rows, ExpectsLatest, BuildAllowed, LatestOf, ReviewAllowed, Reviewable, Universe,
             Planned, ExistingOutputs, AcceptAllowed, OwnersSettled, Reused, Supported, Results, Written, Numbered
    <2> QED
      BY <2>2, <2>3, CheckedKept DEF StillChecked
  <1>6. ASSUME NEW w \in Worker, NEW answer, End(w, answer), UNCHANGED rows
        PROVE  StillChecked'
    <2>1. pc'[w] = "idle" /\ cmd' = cmd /\ \A v \in Worker \ {w} : pc'[v] = pc[v]
      BY <1>6 DEF End, Base, Shape, TypeOK
    <2> QED
      BY <1>2, <1>6, <2>1, CheckedKept DEF StillChecked
  <1>7. ASSUME NEW w \in Worker, Commit(w)
        PROVE  StillChecked'
    <2>1. pc[w] = "write" /\ \E answer : End(w, answer)
      BY <1>7 DEF Commit, ReviseSession, BuildCandidates, ReviewCandidates, AcceptOutputs, AssessBeneficiary,
                  RevisePool, Committing
    <2>2. pc'[w] = "idle" /\ cmd' = cmd /\ \A v \in Worker \ {w} : pc'[v] = pc[v]
      BY <2>1 DEF End, Base, Shape, TypeOK
    <2>3. CASE cmd[w].kind \in SessionKinds
      <3>1. ASSUME NEW v \in Worker \ {w}
            PROVE  Checked(v)'
        <4>1. ~(pc[v] \in {"revisions", "owners", "write"} /\ cmd[v].kind \in SessionKinds)
          BY <2>1, <2>3, OneSession DEF Base
        <4> QED
          BY <2>2, <4>1 DEF Checked, SessionKinds
      <3> QED
        BY <1>2, <2>2, <3>1 DEF StillChecked
    <2>4. CASE cmd[w].kind \notin SessionKinds
      <3>1. AssessBeneficiary(w) \/ RevisePool(w)
        BY <1>7, <2>4 DEF Commit, ReviseSession, BuildCandidates, ReviewCandidates, AcceptOutputs, Committing,
                         SessionKinds
      <3>2. UNCHANGED <<revisions, latest, candidates, outputs>>
        BY <3>1 DEF AssessBeneficiary, RevisePool
      <3>3. ASSUME NEW v \in Worker \ {w}
            PROVE  Checked(v)'
        <4>1. pc[v] = "write" /\ cmd[v].kind = "accept" => OwnersSettled(cmd[v])'
          BY <3>1, SettledKept
        <4>2. Checked(v) /\ pc'[v] = pc[v] /\ cmd'[v] = cmd[v]
          BY <2>2 DEF Base, StillChecked
        <4> QED
          BY <3>2, <4>1, <4>2 DEF Checked, ExpectsLatest, BuildAllowed, LatestOf, ReviewAllowed, Reviewable,
                                  Universe, Planned, ExistingOutputs, AcceptAllowed, Numbered
      <3> QED
        BY <1>2, <2>2, <3>3 DEF StillChecked
    <2> QED
      BY <2>3, <2>4
  <1>8. ASSUME NEW w \in Worker, Step(w) \/ RollBack(w)
        PROVE  StillChecked'
    <2>1. CASE Refuse(w) \/ Replay(w) \/ Conflict(w) \/ DeadlockVictim(w) \/ RollBack(w)
      BY <1>6, <2>1 DEF Refuse, Replay, Conflict, DeadlockVictim, RollBack
    <2> QED
      BY <1>4, <1>5, <1>7, <1>8, <2>1 DEF Step
  <1> QED
    BY <1>1, <1>3, <1>8 DEF Next, Finished

LEMMA BaseStep ==
    ASSUME Base, [Next]_vars
    PROVE  Base'
  BY ShapeStep, LockStep, ChainsStep, StillCheckedStep DEF Base

---------------------------------------------------------------------------
(* The beginning.                                                          *)

LEMMA BaseBegins ==
    ASSUME Init
    PROVE  Base
  <1>1. PICK h \in History : /\ revisions = FirstRevisions(h) /\ latest = FirstLatest(h)
                             /\ candidates = FirstCandidates(h) /\ outputs \in FirstOutputs(h)
                             /\ beneficiaries = FirstBeneficiaries(h) /\ pools = FirstPools(h)
    BY DEF Init
  <1>2. h \in {"open", "planned", "accepted", "reviewed"} /\ Seed \subseteq Key
    BY SessionAssumption DEF SessionAssumption, Histories
  <1>3. /\ latest \in {2, 3}
        /\ \A r \in revisions : /\ r.no \in 1..latest /\ r.base = r.no - 1 /\ r.workflow \in Workflow
                                /\ r.plan.of \in 0..r.no
        /\ \A n \in 1..latest : \E r \in revisions : r.no = n
        /\ \A r, s \in revisions : r.no = s.no => r = s
    <2>0. NoPlan.of = 0 /\ PlanMade(1, 2).of = 2 /\ PlanMade(2, 3).of = 3
      BY DEF NoPlan, PlanMade
    <2>1. CASE h = "open"
      <3>1. latest = 2 /\ revisions = {FirstRevision(1, "open", NoPlan),
                                     FirstRevision(2, "open", NoPlan)}
        BY <1>1, <2>1 DEF FirstRevisions, FirstLatest
      <3> QED
        BY <2>0, <3>1 DEF FirstRevision, Workflow
    <2>2. CASE h = "planned"
      <3>1. latest = 2 /\ revisions = {FirstRevision(1, "open", NoPlan),
                                     FirstRevision(2, "reviewed", PlanMade(1, 2))}
        BY <1>1, <2>2 DEF FirstRevisions, FirstLatest
      <3> QED
        BY <2>0, <3>1 DEF FirstRevision, Workflow
    <2>3. CASE h = "accepted"
      <3>1. latest = 3 /\ revisions = {FirstRevision(1, "open", NoPlan),
                                     FirstRevision(2, "reviewed", PlanMade(1, 2)),
                                     FirstRevision(3, "accepted", NoPlan)}
        BY <1>1, <2>3 DEF FirstRevisions, FirstLatest
      <3> QED
        BY <2>0, <3>1 DEF FirstRevision, Workflow
    <2>4. CASE h = "reviewed"
      <3>1. latest = 3 /\ revisions = {FirstRevision(1, "open", NoPlan),
                                     FirstRevision(2, "open", NoPlan),
                                     FirstRevision(3, "reviewed", PlanMade(2, 3))}
        BY <1>1, <2>4 DEF FirstRevisions, FirstLatest
      <3> QED
        BY <2>0, <3>1 DEF FirstRevision, Workflow
    <2> QED
      BY <1>2, <2>1, <2>2, <2>3, <2>4
  <1>4. RevisionChain
    BY <1>3 DEF RevisionChain, Numbered
  <1>5. /\ \A c \in candidates : c.key \in Key /\ c.no \in {1, 2} /\ c.on \in 1..latest
        /\ Tops(candidates)
    <2>1. CASE h = "open"
      <3>1. candidates = {[key |-> k, no |-> 1, on |-> 2] : k \in Seed} /\ latest = 2
        BY <1>1, <2>1 DEF FirstCandidates, FirstLatest
      <3> QED
        BY <1>2, <3>1 DEF Tops
    <2>2. CASE h = "reviewed"
      <3>1. candidates = {[key |-> k, no |-> 1, on |-> 2] : k \in Seed} \union {[key |-> k, no |-> 2, on |-> 3] : k \in Seed}
            /\ latest = 3
        BY <1>1, <2>2 DEF FirstCandidates, FirstLatest
      <3> QED
        BY <1>2, <3>1 DEF Tops
    <2>3. CASE h \in {"planned", "accepted"}
      <3>1. candidates = {[key |-> k, no |-> 1, on |-> 1] : k \in Seed} \union {[key |-> k, no |-> 2, on |-> 2] : k \in Seed}
            /\ latest \in {2, 3}
        BY <1>1, <1>3, <2>3 DEF FirstCandidates
      <3> QED
        BY <1>2, <3>1 DEF Tops
    <2> QED
      BY <1>2, <2>1, <2>2, <2>3
  <1>6. CandidateChain
    BY <1>3, <1>5 DEF CandidateChain
  <1>7. \A b \in beneficiaries : b.key \in Key /\ b.no = 1
    BY <1>1, <1>2 DEF FirstBeneficiaries
  <1>8. OwnerChains
    <2>1. \A b, d \in beneficiaries : b.key = d.key /\ b.no = d.no => b = d
      BY <1>1 DEF FirstBeneficiaries
    <2>2. \A p \in pools : p.no = 1
      BY <1>1 DEF FirstPools
    <2> QED
      BY <1>7, <2>1, <2>2 DEF OwnerChains, Tops
  <1>9. \A o \in outputs : o.plan \in Plan
    BY <1>1 DEF FirstOutputs
  <1>10. Shape
    BY <1>3, <1>5, <1>7, <1>9, SessionAssumption
       DEF Init, Shape, TypeOK, StepsFit, SessionAssumption, Stages
  <1>11. LockInv
    BY DEF Init, LockInv, Exclusive, LocksTaken, HeldExist
  <1>12. StillChecked
    BY DEF Init, StillChecked, Checked
  <1> QED
    BY <1>4, <1>6, <1>8, <1>10, <1>11, <1>12 DEF Base, Chains

(* Rows, steps and commands keep their types, and the checks a command made *)
(* under its locks hold until its transaction ends.                         *)
THEOREM SessionTypeCorrect == Spec => []Base
  <1>1. Init => Base
    BY BaseBegins
  <1>2. Base /\ [Next]_vars => Base'
    BY BaseStep
  <1> QED
    BY <1>1, <1>2, PTL DEF Spec

---------------------------------------------------------------------------
(* Plans cover the universe.                                               *)

(* Revisions and candidates only grow past the latest revision.            *)
LEMMA BeforeIsKept ==
    ASSUME Base, [Next]_vars, NEW n \in 0..latest
    PROVE  {c \in candidates' : c.on < n} = {c \in candidates : c.on < n}
  <1>1. CASE candidates' = candidates
    BY <1>1
  <1>2. ASSUME NEW w \in Worker, BuildCandidates(w) \/ ReviewCandidates(w)
        PROVE  {c \in candidates' : c.on < n} = {c \in candidates : c.on < n}
    <2>1. PICK more : /\ candidates' = candidates \union more
                      /\ BuildCandidates(w) => \A x \in more : x.on = latest
                      /\ ReviewCandidates(w) => \A x \in more : x.on = latest + 1
      BY <1>2, ProposalsFollow
    <2>2. \A x \in more : x.on \in {latest, latest + 1}
      BY <1>2, <2>1
    <2>3. latest \in Nat
      BY DEF Base, Chains, RevisionChain
    <2> QED
      BY <2>1, <2>2, <2>3
  <1>3. ASSUME NEW w \in Worker, ReviseSession(w) \/ AcceptOutputs(w) \/ AssessBeneficiary(w) \/ RevisePool(w)
        PROVE  candidates' = candidates
    BY <1>3 DEF ReviseSession, AcceptOutputs, AssessBeneficiary, RevisePool
  <1> QED
    BY <1>1, <1>2, <1>3, Rows DEF rows, Commit

LEMMA ReviewCovers ==
    ASSUME Base, NEW w \in Worker, ReviewCandidates(w)
    PROVE  /\ cmd[w].decided = {<<c.key, LatestNumber(Of(candidates, c.key))>> : c \in candidates}
           /\ \A c \in candidates : <<c.key, c.no>> \in cmd[w].decided => c.on = latest
  <1>1. ReviewAllowed(cmd[w]) /\ cmd[w].no = latest
    BY AtLatest DEF ReviewCandidates, Committing, Base, StillChecked, Checked, SessionKinds
  <1>2. cmd[w].decided = {<<u.key, u.no>> : u \in Universe} /\ \A u \in Universe : u.on = latest
    BY <1>1 DEF ReviewAllowed
  <1>3. \A c \in candidates : \E u \in Universe : u.key = c.key /\ u.no = LatestNumber(Of(candidates, c.key))
    <2> SUFFICES ASSUME NEW c \in candidates
                 PROVE  \E u \in Universe : u.key = c.key /\ u.no = LatestNumber(Of(candidates, c.key))
      OBVIOUS
    <2>1. c \in Of(candidates, c.key)
      BY DEF Of
    <2>2. PICK u \in Of(candidates, c.key) : u.no = LatestNumber(Of(candidates, c.key))
      BY <2>1, LatestBounds DEF Base, Chains, CandidateChain
    <2> QED
      BY <2>2 DEF Universe, Of, LatestOf
  <1>4. \A u \in Universe : u \in candidates /\ u.no = LatestNumber(Of(candidates, u.key))
    BY DEF Universe, LatestOf
  <1>5. cmd[w].decided \subseteq {<<c.key, LatestNumber(Of(candidates, c.key))>> : c \in candidates}
    BY <1>2, <1>4
  <1>6. {<<c.key, LatestNumber(Of(candidates, c.key))>> : c \in candidates} \subseteq cmd[w].decided
    BY <1>2, <1>3
  <1>7. ASSUME NEW c \in candidates, <<c.key, c.no>> \in cmd[w].decided
        PROVE  c.on = latest
    <2>1. PICK u \in Universe : u.key = c.key /\ u.no = c.no
      BY <1>2, <1>7
    <2>2. c \in Universe
      BY <2>1 DEF Universe, LatestOf
    <2> QED
      BY <1>2, <2>2
  <1> QED
    BY <1>5, <1>6, <1>7

LEMMA CoverStep ==
    ASSUME Base, PlanCoversUniverse, [Next]_vars
    PROVE  PlanCoversUniverse'
  <1> DEFINE Before(set, r) == {c \in set : c.on < r.no}
             Covers(set, r) == /\ r.plan.covers = {<<c.key, LatestNumber(Of(Before(set, r), c.key))>> : c \in Before(set, r)}
                               /\ \A c \in Before(set, r) : <<c.key, c.no>> \in r.plan.covers => c.on = r.base
  <1>1. ASSUME NEW r \in revisions, r.plan.version = 2, r.plan.of = r.no
        PROVE  Covers(candidates', r)
    <2>1. Before(candidates', r) = Before(candidates, r)
      BY BeforeIsKept DEF Base, Chains, RevisionChain
    <2>2. Covers(candidates, r)
      BY <1>1 DEF PlanCoversUniverse
    <2> QED
      BY <2>1, <2>2
  <1>2. ASSUME NEW w \in Worker, ReviewCandidates(w), NEW r \in revisions' \ revisions
        PROVE  Covers(candidates', r)
    <2>1. r.no = latest + 1 /\ r.base = latest /\ r.plan.covers = cmd[w].decided
      BY <1>2, Extends
    <2>2. PICK more : candidates' = candidates \union more /\ \A x \in more : x.on = latest + 1
      BY <1>2, ProposalsFollow
    <2>3. latest \in Nat /\ \A c \in candidates : c.on \in 0..latest
      BY DEF Base, Chains, RevisionChain, CandidateChain
    <2>4. Before(candidates', r) = candidates
      BY <2>1, <2>2, <2>3
    <2>5. /\ r.plan.covers = {<<c.key, LatestNumber(Of(candidates, c.key))>> : c \in candidates}
          /\ \A c \in candidates : <<c.key, c.no>> \in r.plan.covers => c.on = r.base
      BY <1>2, <2>1, ReviewCovers
    <2> QED
      BY <2>4, <2>5
  <1>3. ASSUME NEW w \in Worker, ReviseSession(w) \/ AcceptOutputs(w), NEW r \in revisions' \ revisions
        PROVE  r.plan.of # r.no
    <2>1. r.no = latest + 1 /\ r.plan.of \in 0..latest
      BY <1>3, Extends
    <2> QED
      BY <2>1 DEF Base, Chains, RevisionChain
  <1>4. ASSUME NEW w \in Worker, BuildCandidates(w) \/ AssessBeneficiary(w) \/ RevisePool(w)
        PROVE  revisions' = revisions
    BY <1>4 DEF BuildCandidates, AssessBeneficiary, RevisePool
  <1>5. \A r \in revisions' : r.plan.version = 2 /\ r.plan.of = r.no => Covers(candidates', r)
    BY <1>1, <1>2, <1>3, <1>4, Rows DEF rows, Commit
  <1> QED
    BY <1>5 DEF PlanCoversUniverse

LEMMA CoverBegins ==
    ASSUME Init
    PROVE  PlanCoversUniverse
  <1>1. PICK h \in History : revisions = FirstRevisions(h) /\ candidates = FirstCandidates(h)
    BY DEF Init
  <1>2. SUFFICES ASSUME NEW r \in revisions, r.plan.version = 2
                 PROVE  LET before == {c \in candidates : c.on < r.no}
                        IN /\ r.plan.covers = {<<c.key, LatestNumber(Of(before, c.key))>> : c \in before}
                           /\ \A c \in before : <<c.key, c.no>> \in r.plan.covers => c.on = r.base
    BY DEF PlanCoversUniverse
  <1>3. h \in {"open", "planned", "accepted", "reviewed"}
    BY SessionAssumption DEF SessionAssumption, Histories
  <1>4. h = "reviewed" /\ r = FirstRevision(3, "reviewed", PlanMade(2, 3))
    <2>1. NoPlan.version = 0 /\ PlanMade(1, 2).version = 1 /\ \A n, s, p : FirstRevision(n, s, p).plan = p
      BY DEF NoPlan, PlanMade, FirstRevision
    <2> QED
      BY <1>1, <1>2, <1>3, <2>1 DEF FirstRevisions
  <1>5. r.no = 3 /\ r.base = 2 /\ r.plan.covers = {<<k, 1>> : k \in Seed}
    BY <1>4 DEF FirstRevision, PlanMade
  <1>6. PICK old : old = {[key |-> k, no |-> 1, on |-> 2] : k \in Seed}
    OBVIOUS
  <1>7. candidates = old \union {[key |-> k, no |-> 2, on |-> 3] : k \in Seed}
    BY <1>1, <1>4, <1>6 DEF FirstCandidates
  <1>8. {c \in candidates : c.on < r.no} = old
    BY <1>5, <1>6, <1>7
  <1>9. \A c \in old : c.key \in Seed /\ c.no = 1 /\ c.on = 2 /\ LatestNumber(Of(old, c.key)) = 1
    <2> SUFFICES ASSUME NEW c \in old
                 PROVE  c.key \in Seed /\ c.no = 1 /\ c.on = 2 /\ LatestNumber(Of(old, c.key)) = 1
      OBVIOUS
    <2>1. c.key \in Seed /\ c.no = 1 /\ c.on = 2 /\ c \in Of(old, c.key)
      BY <1>6 DEF Of
    <2>2. \A d \in Of(old, c.key) : d.no \in Nat /\ d.no <= c.no
      BY <1>6, <2>1 DEF Of
    <2> QED
      BY <2>1, <2>2, LatestIsTop
  <1>10. {<<c.key, LatestNumber(Of(old, c.key))>> : c \in old} = {<<c.key, 1>> : c \in old}
    BY <1>9
  <1>11. {<<c.key, 1>> : c \in old} = {<<k, 1>> : k \in Seed}
    <2>1. ASSUME NEW k \in Seed
          PROVE  \E c \in old : c.key = k
      <3>1. PICK c : c = [key |-> k, no |-> 1, on |-> 2]
        OBVIOUS
      <3> QED
        BY <1>6, <3>1
    <2> QED
      BY <1>9, <2>1
  <1> QED
    BY <1>5, <1>8, <1>9, <1>10, <1>11

(* A plan of the current version covers the latest revision of every        *)
(* candidate the session had when it was reviewed, all of them built on     *)
(* the reviewed revision, whatever was built or revised next to the review. *)
THEOREM PlansCover == Spec => []PlanCoversUniverse
  <1>1. Init => Base /\ PlanCoversUniverse
    BY BaseBegins, CoverBegins
  <1>2. Base /\ PlanCoversUniverse /\ [Next]_vars => Base' /\ PlanCoversUniverse'
    BY BaseStep, CoverStep
  <1> QED
    BY <1>1, <1>2, PTL DEF Spec

---------------------------------------------------------------------------
(* Acceptances.                                                            *)

(* The parts of AcceptanceIsWhole, per output and per owner's row.          *)
Once == \A o, p \in outputs : o.reviewed = p.reviewed => o = p

Follows(o) ==
    \E r \in Numbered(revisions, o.accepted) :
        r.workflow = "accepted" /\ r.base = o.reviewed /\ r.no = o.reviewed + 1

OwnedExist(o) == \A m \in o.owned : \E b \in Of(beneficiaries, m[1]) : b.no = m[2]

SupportedOf(o) == {m \in o.owned : \E b \in beneficiaries : <<b.key, b.no>> = m /\ b.supported}

PoolFits(o) ==
    IF o.pool = 0 THEN SupportedOf(o) = {} ELSE \E p \in Numbered(pools, o.pool) : p.members = SupportedOf(o)

Grounded(b) == b.by # 0 => \E o \in outputs : o.reviewed = b.by /\ <<b.key, b.no>> \in o.owned

PoolGrounded(p) == p.by # 0 => \E o \in outputs : o.reviewed = p.by /\ o.pool = p.no

LEMMA WholeParts ==
    AcceptanceIsWhole <=> /\ Once
                          /\ \A o \in outputs : Follows(o) /\ OwnedExist(o) /\ PoolFits(o)
                          /\ \A b \in beneficiaries : Grounded(b)
                          /\ \A p \in pools : PoolGrounded(p)
  BY DEF AcceptanceIsWhole, Once, Follows, OwnedExist, PoolFits, SupportedOf, Grounded, PoolGrounded

(* The numbers of beneficiary revisions are used once, for good.           *)
LEMMA NumbersStand ==
    ASSUME Base, [Next]_vars, NEW b \in beneficiaries', NEW d \in beneficiaries, b.key = d.key, b.no = d.no
    PROVE  b = d
  <1>1. beneficiaries \subseteq beneficiaries'
    BY NothingLost
  <1>2. OwnerChains'
    BY ChainsStep DEF Chains
  <1> QED
    BY <1>1, <1>2 DEF OwnerChains

LEMMA OutputKept ==
    ASSUME Base, [Next]_vars, NEW o \in outputs, Follows(o), OwnedExist(o), PoolFits(o)
    PROVE  Follows(o)' /\ OwnedExist(o)' /\ PoolFits(o)'
  <1>1. revisions \subseteq revisions' /\ beneficiaries \subseteq beneficiaries' /\ pools \subseteq pools'
    BY NothingLost
  <1>2. Follows(o)'
    BY <1>1 DEF Follows, Numbered
  <1>3. OwnedExist(o)'
    BY <1>1 DEF OwnedExist, Of
  <1>4. SupportedOf(o)' = SupportedOf(o)
    <2>1. ASSUME NEW m \in o.owned, NEW b \in beneficiaries', <<b.key, b.no>> = m
          PROVE  b \in beneficiaries
      <3>1. PICK d \in beneficiaries : d.key = m[1] /\ d.no = m[2]
        BY DEF OwnedExist, Of
      <3>2. b.key = m[1] /\ b.no = m[2]
        BY <2>1
      <3> QED
        BY <3>1, <3>2, NumbersStand
    <2> QED
      BY <1>1, <2>1 DEF SupportedOf
  <1>5. PoolFits(o)'
    BY <1>1, <1>4 DEF PoolFits, Numbered
  <1> QED
    BY <1>2, <1>3, <1>5

(* What an acceptance knows when it commits.                               *)
LEMMA AcceptKnows ==
    ASSUME Base, NEW w \in Worker, AcceptOutputs(w)
    PROVE  /\ cmd[w] \in Command /\ cmd[w].kind = "accept" /\ cmd[w].no = latest
           /\ pc[w] = "write" /\ ~Duplicate(cmd[w])
           /\ ExistingOutputs(cmd[w]) = {} /\ Planned(cmd[w]) /\ OwnersSettled(cmd[w])
           /\ beneficiaries' = beneficiaries \union Results(cmd[w])
           /\ pools' = pools \union PoolWritten(cmd[w])
           /\ outputs' = outputs \union
                  {[reviewed |-> cmd[w].no, accepted |-> latest + 1, plan |-> cmd[w],
                    owned |-> {<<b.key, b.no>> : b \in Results(cmd[w])}, pool |-> AcceptedPool(cmd[w])]}
  <1>1. pc[w] = "write" /\ cmd[w].kind = "accept" /\ ~Duplicate(cmd[w])
    BY DEF AcceptOutputs, Committing
  <1>2. cmd[w] \in Command /\ cmd[w].no = latest
    BY <1>1, AtLatest DEF SessionKinds
  <1> QED
    BY <1>1, <1>2 DEF AcceptOutputs, Base, StillChecked, Checked

LEMMA NewOutput ==
    ASSUME Base, [Next]_vars, NEW w \in Worker, AcceptOutputs(w), NEW o \in outputs',
           o = [reviewed |-> cmd[w].no, accepted |-> latest + 1, plan |-> cmd[w],
                owned |-> {<<b.key, b.no>> : b \in Results(cmd[w])}, pool |-> AcceptedPool(cmd[w])]
    PROVE  Follows(o)' /\ OwnedExist(o)' /\ PoolFits(o)'
  <1>1. PICK c : c = cmd[w]
    OBVIOUS
  <1>2. /\ c \in Command /\ c.kind = "accept" /\ c.no = latest /\ OwnersSettled(c)
        /\ beneficiaries' = beneficiaries \union Results(c) /\ pools' = pools \union PoolWritten(c)
    BY <1>1, AcceptKnows
  <1>3. latest \in Nat \ {0}
    BY DEF Base, Chains, RevisionChain
  <1>4. PICK results : results = Results(c)
    OBVIOUS
  <1>5. o.reviewed = latest /\ o.accepted = latest + 1 /\ o.pool = AcceptedPool(c)
        /\ o.owned = {<<b.key, b.no>> : b \in results}
    BY <1>1, <1>2, <1>4
  <1>6. Follows(o)'
    <2>1. PICK workflow, plan :
              revisions' = revisions \union {[no |-> latest + 1, base |-> latest, workflow |-> workflow, plan |-> plan]}
              /\ workflow = "accepted"
      BY Extends
    <2>2. PICK r : r = [no |-> latest + 1, base |-> latest, workflow |-> workflow, plan |-> plan]
      OBVIOUS
    <2>3. r \in revisions' /\ r.no = latest + 1 /\ r.base = latest /\ r.workflow = "accepted"
      BY <2>1, <2>2
    <2> QED
      BY <1>5, <2>3 DEF Follows, Numbered
  <1>7. OwnedExist(o)'
    BY <1>2, <1>4, <1>5 DEF OwnedExist, Of
  <1>8. SupportedOf(o)' = Supported(c)
    <2>1. ASSUME NEW b \in results, NEW d \in beneficiaries', d.key = b.key, d.no = b.no
          PROVE  d = b
      <3>1. OwnerChains'
        BY ChainsStep DEF Chains
      <3>2. b \in beneficiaries'
        BY <1>2, <1>4
      <3> QED
        BY <2>1, <3>1, <3>2 DEF OwnerChains
    <2>2. results \subseteq beneficiaries'
      BY <1>2, <1>4
    <2>3. Supported(c) = {<<b.key, b.no>> : b \in {x \in results : x.supported}}
      BY <1>4 DEF Supported
    <2>4. ASSUME NEW m \in Supported(c)
          PROVE  m \in o.owned /\ \E b \in beneficiaries' : <<b.key, b.no>> = m /\ b.supported
      BY <1>5, <2>2, <2>3
    <2>5. ASSUME NEW m \in o.owned, NEW d \in beneficiaries', <<d.key, d.no>> = m, d.supported
          PROVE  m \in Supported(c)
      <3>1. PICK b \in results : <<b.key, b.no>> = m
        BY <1>5
      <3>2. d = b
        BY <2>1, <2>5, <3>1
      <3> QED
        BY <2>3, <2>5, <3>1, <3>2
    <2> QED
      BY <2>4, <2>5 DEF SupportedOf
  <1>9. PoolFits(o)'
    <2>1. c.pool \in PoolItem /\ (c.pool.op = "none" <=> Supported(c) = {})
      BY <1>2, CommandKinds DEF OwnersSettled
    <2>2. CASE c.pool.op = "none"
      <3>1. AcceptedPool(c) = 0
        BY <2>2 DEF AcceptedPool
      <3> QED
        BY <1>5, <1>8, <2>1, <2>2, <3>1 DEF PoolFits
    <2>3. CASE c.pool.op \in {"create", "append"}
      <3>1. PoolWritten(c) = {[no |-> AcceptedPool(c), members |-> Supported(c), by |-> c.no]}
        BY <2>3 DEF PoolWritten, AcceptedPool
      <3>2. AcceptedPool(c) \in Nat \ {0}
        BY <2>1, <2>3 DEF AcceptedPool, PoolItem
      <3> DEFINE written == [no |-> AcceptedPool(c), members |-> Supported(c), by |-> c.no]
      <3>3. written \in pools' /\ written.no = AcceptedPool(c) /\ written.members = Supported(c)
        BY <1>2, <3>1
      <3>4. \E p \in pools' : p.no = AcceptedPool(c) /\ p.members = Supported(c)
        BY <3>3
      <3> QED
        BY <1>5, <1>8, <3>2, <3>4 DEF PoolFits, Numbered
    <2>4. CASE c.pool.op = "reuse"
      <3>1. AcceptedPool(c) = c.pool.at
        BY <2>4 DEF AcceptedPool
      <3>2. PICK p \in pools : p.no = c.pool.at /\ p.members = Supported(c)
        BY <1>2, <2>4 DEF OwnersSettled, Numbered
      <3>3. p.no # 0
        BY DEF Base, Chains, OwnerChains
      <3> QED
        BY <1>2, <1>5, <1>8, <3>1, <3>2, <3>3 DEF PoolFits, Numbered
    <2> QED
      BY <2>1, <2>2, <2>3, <2>4 DEF PoolItem
  <1> QED
    BY <1>6, <1>7, <1>9

LEMMA WholeStep ==
    ASSUME Base, AcceptanceIsWhole, [Next]_vars
    PROVE  AcceptanceIsWhole'
  <1>1. /\ Once
        /\ \A o \in outputs : Follows(o) /\ OwnedExist(o) /\ PoolFits(o)
        /\ \A b \in beneficiaries : Grounded(b)
        /\ \A p \in pools : PoolGrounded(p)
    BY WholeParts
  <1>2. \A o \in outputs : Follows(o)' /\ OwnedExist(o)' /\ PoolFits(o)'
    BY <1>1, OutputKept
  <1>3. outputs \subseteq outputs'
    BY NothingLost
  <1>4. /\ \A b \in beneficiaries : Grounded(b)'
        /\ \A p \in pools : PoolGrounded(p)'
    BY <1>1, <1>3 DEF Grounded, PoolGrounded
  <1>5. ASSUME NEW w \in Worker, AcceptOutputs(w)
        PROVE  AcceptanceIsWhole'
    <2>1. PICK c : c = cmd[w]
      OBVIOUS
    <2>2. PICK o : o = [reviewed |-> c.no, accepted |-> latest + 1, plan |-> c,
                        owned |-> {<<b.key, b.no>> : b \in Results(c)}, pool |-> AcceptedPool(c)]
      OBVIOUS
    <2>3. /\ outputs' = outputs \union {o} /\ ExistingOutputs(c) = {}
          /\ beneficiaries' = beneficiaries \union Results(c) /\ pools' = pools \union PoolWritten(c)
      BY <1>5, <2>1, <2>2, AcceptKnows
    <2>4. Follows(o)' /\ OwnedExist(o)' /\ PoolFits(o)'
      BY <1>5, <2>1, <2>2, <2>3, NewOutput
    <2>5. Once'
      <3>1. \A p \in outputs : p.reviewed # o.reviewed
        BY <2>2, <2>3 DEF ExistingOutputs
      <3> QED
        BY <1>1, <2>3, <3>1 DEF Once
    <2>6. \A b \in beneficiaries' \ beneficiaries : Grounded(b)'
      <3> SUFFICES ASSUME NEW b \in beneficiaries' \ beneficiaries
                   PROVE  Grounded(b)'
        OBVIOUS
      <3>1. b \in Results(c) /\ b \in Made(c)
        BY <2>3, Reuses
      <3>2. b.by = c.no
        BY <1>5, <2>1, <3>1, AcceptKnows, MadeIsNext
      <3>3. <<b.key, b.no>> \in o.owned /\ o.reviewed = c.no
        BY <2>2, <3>1
      <3> QED
        BY <2>3, <3>2, <3>3 DEF Grounded
    <2>7. \A p \in PoolWritten(c) : PoolGrounded(p)'
      <3>1. \A p \in PoolWritten(c) : p.by = o.reviewed /\ p.no = o.pool
        BY <2>2 DEF PoolWritten, AcceptedPool
      <3> QED
        BY <2>3, <3>1 DEF PoolGrounded
    <2>8. /\ \A p \in outputs' : Follows(p)' /\ OwnedExist(p)' /\ PoolFits(p)'
          /\ \A b \in beneficiaries' : Grounded(b)'
          /\ \A p \in pools' : PoolGrounded(p)'
      BY <1>2, <1>4, <2>3, <2>4, <2>6, <2>7
    <2> QED
      BY <2>5, <2>8
         DEF AcceptanceIsWhole, Once, Follows, OwnedExist, PoolFits, SupportedOf, Grounded, PoolGrounded
  <1>6. ASSUME outputs' = outputs, \A b \in beneficiaries' \ beneficiaries : b.by = 0,
               \A p \in pools' \ pools : p.by = 0
        PROVE  AcceptanceIsWhole'
    <2>1. Once'
      BY <1>1, <1>6 DEF Once
    <2>2. /\ \A b \in beneficiaries' : Grounded(b)'
          /\ \A p \in pools' : PoolGrounded(p)'
      BY <1>4, <1>6 DEF Grounded, PoolGrounded
    <2> QED
      BY <1>2, <1>6, <2>1, <2>2
         DEF AcceptanceIsWhole, Once, Follows, OwnedExist, PoolFits, SupportedOf, Grounded, PoolGrounded
  <1>7. CASE UNCHANGED rows
    BY <1>6, <1>7 DEF rows
  <1>8. ASSUME NEW w \in Worker, ReviseSession(w) \/ BuildCandidates(w) \/ ReviewCandidates(w)
                                 \/ AssessBeneficiary(w) \/ RevisePool(w)
        PROVE  AcceptanceIsWhole'
    BY <1>6, <1>8 DEF ReviseSession, BuildCandidates, ReviewCandidates, AssessBeneficiary, RevisePool
  <1> QED
    BY <1>5, <1>7, <1>8, Rows DEF Commit
LEMMA WholeBegins ==
    ASSUME Init
    PROVE  AcceptanceIsWhole
  <1>1. PICK h \in History : /\ revisions = FirstRevisions(h) /\ outputs \in FirstOutputs(h)
                             /\ beneficiaries = FirstBeneficiaries(h) /\ pools = FirstPools(h)
    BY DEF Init
  <1>2. CASE h = "accepted"
    <2>1. PICK c \in Plan : outputs = {[reviewed |-> 2, accepted |-> 3, plan |-> c,
                                        owned |-> {<<k, 1>> : k \in Seed}, pool |-> 0]}
      BY <1>1, <1>2 DEF FirstOutputs
    <2>2. PICK o : o = [reviewed |-> 2, accepted |-> 3, plan |-> c, owned |-> {<<k, 1>> : k \in Seed}, pool |-> 0]
      OBVIOUS
    <2>3. outputs = {o} /\ o.reviewed = 2 /\ o.accepted = 3 /\ o.owned = {<<k, 1>> : k \in Seed} /\ o.pool = 0
      BY <2>1, <2>2
    <2>4. beneficiaries = {[key |-> k, no |-> 1, supported |-> FALSE, by |-> 2] : k \in Seed} /\ pools = {}
      BY <1>1, <1>2 DEF FirstBeneficiaries, FirstPools
    <2>5. \A b \in beneficiaries : b.key \in Seed /\ b.no = 1 /\ ~b.supported /\ b.by = 2
      BY <2>4
    <2>6. \A k \in Seed : \E b \in beneficiaries : b.key = k /\ b.no = 1
      <3> SUFFICES ASSUME NEW k \in Seed
                   PROVE  \E b \in beneficiaries : b.key = k /\ b.no = 1
        OBVIOUS
      <3>1. PICK b : b = [key |-> k, no |-> 1, supported |-> FALSE, by |-> 2]
        OBVIOUS
      <3> QED
        BY <2>4, <3>1
    <2>7. Follows(o)
      <3>1. PICK r : r = FirstRevision(3, "accepted", NoPlan)
        OBVIOUS
      <3>2. r \in revisions
        BY <1>1, <1>2, <3>1 DEF FirstRevisions
      <3>3. r.no = 3 /\ r.base = 2 /\ r.workflow = "accepted"
        BY <3>1 DEF FirstRevision
      <3> QED
        BY <2>3, <3>2, <3>3 DEF Follows, Numbered
    <2>8. OwnedExist(o)
      BY <2>3, <2>6 DEF OwnedExist, Of
    <2>9. PoolFits(o)
      BY <2>3, <2>5 DEF PoolFits, SupportedOf
    <2>10. \A b \in beneficiaries : Grounded(b)
      BY <2>3, <2>5 DEF Grounded
    <2> QED
      BY <2>3, <2>4, <2>7, <2>8, <2>9, <2>10, WholeParts DEF Once, PoolGrounded
  <1>3. CASE h # "accepted"
    <2>1. outputs = {}
      BY <1>1, <1>3 DEF FirstOutputs
    <2>2. \A b \in beneficiaries : b.by = 0
      BY <1>1, <1>3 DEF FirstBeneficiaries
    <2>3. \A p \in pools : p.by = 0
      BY <1>1 DEF FirstPools
    <2> QED
      BY <2>1, <2>2, <2>3, WholeParts DEF Once, Grounded, PoolGrounded
  <1> QED
    BY <1>2, <1>3

(* An acceptance happens once and whole: its revision follows the reviewed  *)
(* one, its beneficiaries and its pool are there, and no beneficiary or     *)
(* pool revision was written for an acceptance that is not (owner           *)
(* acceptance, _accept and _owner_tuple).                                  *)
THEOREM AcceptancesAreWhole == Spec => []AcceptanceIsWhole
  <1>1. Init => Base /\ AcceptanceIsWhole
    BY BaseBegins, WholeBegins
  <1>2. Base /\ AcceptanceIsWhole /\ [Next]_vars => Base' /\ AcceptanceIsWhole'
    BY BaseStep, WholeStep
  <1> QED
    BY <1>1, <1>2, PTL DEF Spec

---------------------------------------------------------------------------
(* Answers.                                                                *)

LEMMA CommitReplies ==
    ASSUME Base, NEW w \in Worker, Commit(w)
    PROVE  /\ reply' = [reply EXCEPT ![w] = "done"] /\ cmd' = cmd
           /\ cmd[w].kind \in Extending =>
                  latest \in Nat /\ cmd[w].no = latest /\ latest' = latest + 1
           /\ cmd[w].kind = "accept" => \E o \in outputs' : o.plan = cmd[w]
  <1>1. reply' = [reply EXCEPT ![w] = "done"] /\ cmd' = cmd
    BY DEF Commit, ReviseSession, BuildCandidates, ReviewCandidates, AcceptOutputs, AssessBeneficiary,
           RevisePool, Committing, End
  <1>2. ASSUME cmd[w].kind \in Extending
        PROVE  latest \in Nat /\ cmd[w].no = latest /\ latest' = latest + 1
    <2>1. ReviseSession(w) \/ ReviewCandidates(w) \/ AcceptOutputs(w)
      BY <1>2 DEF Commit, BuildCandidates, AssessBeneficiary, RevisePool, Committing, Extending
    <2> QED
      BY <2>1, Extends DEF Base, Chains, RevisionChain
  <1>3. ASSUME cmd[w].kind = "accept"
        PROVE  \E o \in outputs' : o.plan = cmd[w]
    <2>1. AcceptOutputs(w)
      BY <1>3 DEF Commit, ReviseSession, BuildCandidates, ReviewCandidates, AssessBeneficiary,
                  RevisePool, Committing
    <2>2. PICK o : o = [reviewed |-> cmd[w].no, accepted |-> latest + 1, plan |-> cmd[w],
                        owned |-> {<<b.key, b.no>> : b \in Results(cmd[w])}, pool |-> AcceptedPool(cmd[w])]
      OBVIOUS
    <2> QED
      BY <2>1, <2>2, AcceptKnows
  <1> QED
    BY <1>1, <1>2, <1>3

(* Only a commit answers that something was done, only a replay that it had *)
(* been.                                                                   *)
LEMMA OtherReplies ==
    ASSUME Base, [Next]_vars, NEW u \in Worker, reply'[u] \in {"done", "replayed"}
    PROVE  \/ cmd'[u] = cmd[u] /\ reply'[u] = reply[u]
           \/ cmd'[u] = cmd[u] /\ reply'[u] = "done" /\ Commit(u)
           \/ cmd'[u] = cmd[u] /\ reply'[u] = "replayed" /\ Replay(u)
  <1>0. reply \in [Worker -> Replies] /\ cmd \in [Worker -> Command \union {NoCommand}]
    BY DEF Base, Shape, TypeOK, Replies
  <1>1. CASE UNCHANGED vars
    BY <1>1 DEF vars
  <1>2. ASSUME NEW w \in Worker, NEW c \in Command, Start(w, c)
        PROVE  cmd'[u] = cmd[u] /\ reply'[u] = reply[u]
    BY <1>0, <1>2 DEF Start
  <1>3. ASSUME NEW w \in Worker, Lock(w) \/ Proceed(w)
        PROVE  cmd'[u] = cmd[u] /\ reply'[u] = reply[u]
    BY <1>3 DEF Lock, Proceed
  <1>4. ASSUME NEW w \in Worker, NEW answer, End(w, answer)
        PROVE  cmd'[u] = cmd[u] /\ (u # w => reply'[u] = reply[u]) /\ (u = w => reply'[u] = answer)
    BY <1>0, <1>4 DEF End
  <1>5. ASSUME NEW w \in Worker, Conflict(w) \/ DeadlockVictim(w) \/ RollBack(w)
        PROVE  cmd'[u] = cmd[u] /\ reply'[u] = reply[u]
    <2>1. PICK answer \in {"conflict", "failed"} : End(w, answer)
      BY <1>5 DEF Conflict, DeadlockVictim, RollBack
    <2> QED
      BY <1>4, <2>1
  <1>6. ASSUME NEW w \in Worker, Refuse(w)
        PROVE  cmd'[u] = cmd[u] /\ reply'[u] = reply[u]
    <2>1. PICK answer \in {"refused", "stale", "conflict"} : End(w, answer)
      <3>1. Refusal(cmd[w], pc[w]) \in {"refused", "stale", "conflict"}
        BY DEF Refusal
      <3> QED
        BY <1>6, <3>1 DEF Refuse
    <2> QED
      BY <1>4, <2>1
  <1>7. ASSUME NEW w \in Worker, Replay(w)
        PROVE  cmd'[u] = cmd[u] /\ (reply'[u] = reply[u] \/ (reply'[u] = "replayed" /\ u = w))
    <2>1. End(w, "replayed")
      BY <1>7 DEF Replay
    <2>2. cmd'[u] = cmd[u] /\ (u # w => reply'[u] = reply[u]) /\ (u = w => reply'[u] = "replayed")
      BY <1>4, <2>1
    <2> QED
      BY <2>2
  <1>8. ASSUME NEW w \in Worker, Commit(w)
        PROVE  cmd'[u] = cmd[u] /\ (reply'[u] = reply[u] \/ (reply'[u] = "done" /\ u = w))
    <2>1. reply' = [reply EXCEPT ![w] = "done"] /\ cmd' = cmd
      BY <1>8, CommitReplies
    <2> QED
      BY <1>0, <2>1
  <1> QED
    BY <1>1, <1>2, <1>3, <1>5, <1>6, <1>7, <1>8 DEF Next, Step, Finished

LEMMA AnswersStep ==
    ASSUME Base, DoneIsPast, AnswersAreTrue, [Next]_vars
    PROVE  DoneIsPast' /\ AnswersAreTrue'
  <1> DEFINE Told(u) == cmd[u].kind \in Extending /\ reply[u] = "done"
  <1>1. latest \in Nat /\ latest' \in Nat /\ latest <= latest'
    <2>1. CASE latest' = latest
      BY <2>1 DEF Base, Chains, RevisionChain
    <2>2. ASSUME NEW w \in Worker, ReviseSession(w) \/ ReviewCandidates(w) \/ AcceptOutputs(w)
          PROVE  latest \in Nat /\ latest' = latest + 1
      BY <2>2, Extends DEF Base, Chains, RevisionChain
    <2> QED
      BY <2>1, <2>2, Rows DEF rows, Commit, BuildCandidates, AssessBeneficiary, RevisePool
  <1>2. ASSUME NEW u \in Worker, Told(u)'
        PROVE  cmd'[u] = cmd[u] /\ (Told(u) \/ Commit(u))
    BY <1>2, OtherReplies
  <1>3. \A u \in Worker : Told(u) => cmd[u].no < latest
    BY DEF DoneIsPast
  <1>4. \A u \in Worker : Commit(u) /\ Told(u)' => cmd[u].no = latest /\ latest' = latest + 1
    BY <1>2, CommitReplies
  <1>5. \A u \in Worker : Told(u)' => cmd'[u].no < latest'
    <2> SUFFICES ASSUME NEW u \in Worker, Told(u)'
                 PROVE  cmd'[u].no < latest'
      OBVIOUS
    <2>1. CASE Commit(u)
      BY <1>1, <1>2, <1>4, <2>1
    <2>2. CASE Told(u)
      <3>1. cmd[u] \in Command /\ cmd[u].kind \in SessionKinds
        BY <2>2 DEF Base, Shape, TypeOK, NoCommand, Extending, SessionKinds
      <3>2. cmd[u].no \in Nat
        BY <3>1, CommandKinds
      <3> QED
        BY <1>1, <1>2, <1>3, <2>2, <3>2
    <2> QED
      BY <1>2, <2>1, <2>2
  <1>6. ASSUME NEW v \in Worker, NEW w \in Worker, v # w, Told(v)', Told(w)'
        PROVE  cmd'[v].no # cmd'[w].no
    <2>1. \A u \in Worker \ {v} : Commit(v) => ~Commit(u)
      <3>1. ASSUME NEW u \in Worker, Commit(v), Commit(u), u # v
            PROVE  FALSE
        <4>1. pc'[v] = "idle" /\ pc' = [pc EXCEPT ![u] = "idle"] /\ pc[v] = "write"
          BY <3>1 DEF Commit, ReviseSession, BuildCandidates, ReviewCandidates, AcceptOutputs,
                      AssessBeneficiary, RevisePool, Committing, End, Base, Shape, TypeOK
        <4> QED
          BY <3>1, <4>1 DEF Base, Shape, TypeOK
      <3> QED
        BY <3>1
    <2>2. CASE Told(v) /\ Told(w)
      BY <1>2, <1>6, <2>2 DEF AnswersAreTrue, Extending
    <2>3. CASE Told(v) /\ Commit(w)
      BY <1>1, <1>2, <1>3, <1>4, <1>6, <2>3
    <2>4. CASE Commit(v) /\ Told(w)
      BY <1>1, <1>2, <1>3, <1>4, <1>6, <2>4
    <2> QED
      BY <1>2, <1>6, <2>1, <2>2, <2>3, <2>4
  <1>7. ASSUME NEW w \in Worker, cmd'[w].kind = "accept", reply'[w] \in {"done", "replayed"}
        PROVE  \E o \in outputs' : o.plan = cmd'[w]
    <2>1. CASE cmd'[w] = cmd[w] /\ reply'[w] = reply[w]
      BY <1>7, <2>1, NothingLost DEF AnswersAreTrue
    <2>2. CASE cmd'[w] = cmd[w] /\ Commit(w)
      BY <1>7, <2>2, CommitReplies
    <2>3. CASE cmd'[w] = cmd[w] /\ Replay(w)
      BY <1>7, <2>3, NothingLost DEF Replay, Replays
    <2> QED
      BY <1>7, <2>1, <2>2, <2>3, OtherReplies
  <1>8. DoneIsPast'
    BY <1>5 DEF DoneIsPast
  <1>9. AnswersAreTrue'
    BY <1>6, <1>7 DEF AnswersAreTrue, Extending
  <1> QED
    BY <1>8, <1>9

(* A caller told that its acceptance was done or is a replay finds exactly   *)
(* the plan it sent executed, and of the commands that extend the session    *)
(* from one revision one at most is told that it was done.                  *)
THEOREM AnswersHold == Spec => []AnswersAreTrue
  <1>1. Init => Base /\ DoneIsPast /\ AnswersAreTrue
    <2>1. Init => DoneIsPast /\ AnswersAreTrue
      BY DEF Init, DoneIsPast, AnswersAreTrue
    <2> QED
      BY <2>1, BaseBegins
  <1>2. Base /\ DoneIsPast /\ AnswersAreTrue /\ [Next]_vars => Base' /\ DoneIsPast' /\ AnswersAreTrue'
    BY BaseStep, AnswersStep
  <1> QED
    BY <1>1, <1>2, PTL DEF Spec
---------------------------------------------------------------------------
(* The session implements the log it promises.                             *)
EntryOf(r) == [workflow |-> r.workflow, seen |-> r.base]

Entry == [workflow : Workflow, seen : Nat]

LogReads ==
    /\ Log \in Seq(Entry) /\ Len(Log) = latest /\ DOMAIN Log = 1..latest
    /\ \A r \in revisions : r.no \in 1..latest /\ Log[r.no] = EntryOf(r)

LEMMA LogEntries == Base => LogReads
  <1> SUFFICES ASSUME Base
               PROVE  LogReads
    OBVIOUS
  <1>1. /\ latest \in Nat
        /\ \A n \in 1..latest : \E r \in revisions : r.no = n
        /\ \A r, s \in revisions : r.no = s.no => r = s
        /\ \A r \in revisions : r.no \in 1..latest
    BY DEF Base, Chains, RevisionChain, Numbered
  <1>2. \A r \in revisions : EntryOf(r) \in Entry
    BY DEF Base, Shape, TypeOK, EntryOf, Entry
  <1>3. \A r \in revisions : (CHOOSE x \in revisions : x.no = r.no) = r
    BY <1>1
  <1>4. Log = [n \in 1..latest |-> EntryOf(CHOOSE x \in revisions : x.no = n)]
    BY DEF Log, EntryOf
  <1>5. \A r \in revisions : r.no \in 1..latest /\ Log[r.no] = EntryOf(r)
    BY <1>1, <1>3, <1>4
  <1>6. \A n \in 1..latest : Log[n] \in Entry
    BY <1>1, <1>2, <1>5
  <1>7. Log \in [1..latest -> Entry]
    BY <1>4, <1>6
  <1>8. Log \in Seq(Entry)
    BY <1>1, <1>7, SeqDef
  <1>9. Len(Log) \in Nat /\ DOMAIN Log = 1..Len(Log)
    BY <1>8, LenProperties
  <1>10. Len(Log) = latest
    BY <1>1, <1>7, <1>9
  <1> QED
    BY <1>5, <1>7, <1>8, <1>10 DEF LogReads

(* A revision that is appended to the session is appended to its log.       *)
LEMMA LogGrows ==
    ASSUME Base, Base', NEW r \in revisions', revisions' = revisions \union {r},
           r.no = latest + 1, latest' = latest + 1
    PROVE  Log' = Append(Log, EntryOf(r))
  <1>1. /\ Log \in Seq(Entry) /\ Len(Log) = latest
        /\ \A s \in revisions : s.no \in 1..latest /\ Log[s.no] = EntryOf(s)
    BY LogEntries DEF LogReads
  <1>2. /\ Log' \in Seq(Entry) /\ Len(Log)' = latest'
        /\ \A s \in revisions' : Log'[s.no] = EntryOf(s)
    <2>1. LogReads'
      BY LogEntries, PTL
    <2> QED
      BY <2>1 DEF LogReads, EntryOf
  <1>3. EntryOf(r) \in Entry
    BY DEF Base, Shape, TypeOK, EntryOf, Entry
  <1>4. PICK log, next, entry : log = Log /\ next = Log' /\ entry = EntryOf(r)
    OBVIOUS
  <1>5. /\ log \in Seq(Entry) /\ Len(log) = latest /\ entry \in Entry
        /\ next \in Seq(Entry) /\ Len(next) = latest + 1
    BY <1>1, <1>2, <1>3, <1>4
  <1>6. /\ Append(log, entry) \in Seq(Entry) /\ Len(Append(log, entry)) = Len(log) + 1
        /\ \A i \in 1..Len(log) : Append(log, entry)[i] = log[i]
        /\ Append(log, entry)[Len(log) + 1] = entry
    BY <1>5, AppendProperties
  <1>7. \A i \in 1..(latest + 1) : next[i] = Append(log, entry)[i]
    <2> SUFFICES ASSUME NEW i \in 1..(latest + 1)
                 PROVE  next[i] = Append(log, entry)[i]
      OBVIOUS
    <2>1. CASE i = latest + 1
      BY <1>2, <1>4, <1>5, <1>6, <2>1
    <2>2. CASE i # latest + 1
      <3>1. i \in 1..latest
        BY <2>2 DEF Base, Chains, RevisionChain
      <3>2. PICK s \in revisions : s.no = i
        BY <3>1 DEF Base, Chains, RevisionChain, Numbered
      <3> QED
        BY <1>1, <1>2, <1>4, <1>5, <1>6, <3>1, <3>2
    <2> QED
      BY <2>1, <2>2
  <1>8. next = Append(log, entry)
    BY <1>5, <1>6, <1>7, SeqEqual
  <1> QED
    BY <1>4, <1>8

LEMMA StepRefines ==
    ASSUME Base, Base', [Next]_vars
    PROVE  [Promise!Next]_(Promise!vars)
  <1>1. Len(Log) = latest /\ DOMAIN Log = 1..latest /\ latest \in Nat \ {0}
    BY LogEntries DEF LogReads, Base, Chains, RevisionChain
  <1>2. ASSUME revisions' = revisions, latest' = latest, outputs' = outputs
        PROVE  UNCHANGED Promise!vars
    BY <1>2 DEF Promise!vars, Log, Accepted
  <1>3. ASSUME NEW w \in Worker, ReviseSession(w) \/ ReviewCandidates(w) \/ AcceptOutputs(w)
        PROVE  /\ \E workflow \in Workflow : Promise!Write(workflow)
               /\ AcceptOutputs(w) => Promise!Write("accepted")
    <2>1. PICK workflow, plan :
              /\ workflow \in Workflow
              /\ revisions' = revisions \union
                     {[no |-> latest + 1, base |-> latest, workflow |-> workflow, plan |-> plan]}
              /\ AcceptOutputs(w) => workflow = "accepted"
      BY <1>3, Extends
    <2>2. latest' = latest + 1
      BY <1>3, Extends
    <2>3. PICK r : r = [no |-> latest + 1, base |-> latest, workflow |-> workflow, plan |-> plan]
      OBVIOUS
    <2>4. /\ r \in revisions' /\ revisions' = revisions \union {r} /\ r.no = latest + 1
          /\ EntryOf(r) = [workflow |-> workflow, seen |-> latest]
      BY <2>1, <2>3 DEF EntryOf
    <2>5. Log' = Append(Log, [workflow |-> workflow, seen |-> Len(Log)])
      BY <1>1, <2>2, <2>4, LogGrows
    <2> QED
      BY <2>1, <2>5 DEF Promise!Write
  <1>4. ASSUME NEW w \in Worker, ReviseSession(w) \/ ReviewCandidates(w)
        PROVE  Promise!Revise
    <2>1. UNCHANGED Accepted
      BY <1>4 DEF ReviseSession, ReviewCandidates, Accepted
    <2> QED
      BY <1>3, <1>4, <2>1 DEF Promise!Revise
  <1>5. ASSUME NEW w \in Worker, AcceptOutputs(w)
        PROVE  \E plan \in Plan : Promise!Accept(plan)
    <2>1. PICK c : c = cmd[w]
      OBVIOUS
    <2>2. PICK o : o = [reviewed |-> c.no, accepted |-> latest + 1, plan |-> c,
                        owned |-> {<<b.key, b.no>> : b \in Results(c)}, pool |-> AcceptedPool(c)]
      OBVIOUS
    <2>3. /\ c \in Plan /\ c.no = latest /\ ExistingOutputs(c) = {} /\ Planned(c)
          /\ outputs' = outputs \union {o}
      BY <1>5, <2>1, <2>2, AcceptKnows, CommandKinds
    <2>4. Accepted' = Accepted \union {[reviewed |-> Len(Log), plan |-> c]}
      <3>1. o.reviewed = Len(Log) /\ o.plan = c
        BY <1>1, <2>2, <2>3
      <3>2. [reviewed |-> o.reviewed, plan |-> o.plan] = [reviewed |-> Len(Log), plan |-> c]
        BY <3>1
      <3> QED
        BY <2>3, <3>2 DEF Accepted
    <2>5. \A a \in Accepted : a.reviewed # Len(Log)
      BY <1>1, <2>3 DEF Accepted, ExistingOutputs
    <2>6. Log # <<>> /\ Log[Len(Log)].workflow = "reviewed"
      <3>1. PICK r \in revisions : r.no = latest /\ r.workflow = "reviewed"
        BY <2>3 DEF Planned, Numbered
      <3>2. Log[latest] = EntryOf(r)
        BY <3>1, LogEntries DEF LogReads
      <3>3. Log # <<>>
        BY <1>1
      <3> QED
        BY <1>1, <3>1, <3>2, <3>3 DEF EntryOf
    <2> QED
      BY <1>3, <1>5, <2>3, <2>4, <2>5, <2>6 DEF Promise!Accept
  <1>6. ASSUME NEW w \in Worker, BuildCandidates(w) \/ AssessBeneficiary(w) \/ RevisePool(w)
        PROVE  UNCHANGED Promise!vars
    BY <1>2, <1>6 DEF BuildCandidates, AssessBeneficiary, RevisePool
  <1> QED
    BY <1>2, <1>4, <1>5, <1>6, Rows DEF rows, Commit, Promise!Next

LEMMA InitRefines ==
    ASSUME Init
    PROVE  Promise!Init
  <1>1. PICK h \in History : /\ revisions = FirstRevisions(h) /\ latest = FirstLatest(h)
                             /\ outputs \in FirstOutputs(h)
    BY DEF Init
  <1>2. PICK first : first = [log |-> [n \in 1..FirstLatest(h) |->
                                 [workflow |-> (CHOOSE r \in FirstRevisions(h) : r.no = n).workflow, seen |-> n - 1]],
                              accepted |-> {[reviewed |-> o.reviewed, plan |-> o.plan] : o \in outputs}]
    OBVIOUS
  <1>3. first \in FirstLogs
    <2> DEFINE LogOf(k) == [n \in 1..FirstLatest(k) |->
                               [workflow |-> (CHOOSE r \in FirstRevisions(k) : r.no = n).workflow, seen |-> n - 1]]
               AcceptedOf(made) == {[reviewed |-> o.reviewed, plan |-> o.plan] : o \in made}
    <2>1. first \in {[log |-> LogOf(h), accepted |-> AcceptedOf(made)] : made \in FirstOutputs(h)}
      BY <1>1, <1>2
    <2>2. FirstLogs = UNION {{[log |-> LogOf(k), accepted |-> AcceptedOf(made)] : made \in FirstOutputs(k)} : k \in History}
      BY DEF FirstLogs
    <2> HIDE DEF LogOf, AcceptedOf
    <2> QED
      BY <2>1, <2>2
  <1>4. \A n \in 1..latest : (CHOOSE r \in revisions : r.no = n).base = n - 1
    <2> SUFFICES ASSUME NEW n \in 1..latest
                 PROVE  (CHOOSE r \in revisions : r.no = n).base = n - 1
      OBVIOUS
    <2>1. \E r \in revisions : r.no = n
      BY BaseBegins DEF Base, Chains, RevisionChain, Numbered
    <2>2. \A r \in revisions : r.base = r.no - 1
      <3>1. h \in {"open", "planned", "accepted", "reviewed"}
        BY SessionAssumption DEF SessionAssumption, Histories
      <3>2. \A no \in {1, 2, 3} : \A workflow, plan : FirstRevision(no, workflow, plan).no = no
                /\ FirstRevision(no, workflow, plan).base = no - 1
        BY DEF FirstRevision
      <3>3. \A r \in revisions : \E no \in {1, 2, 3} : \E workflow, plan : r = FirstRevision(no, workflow, plan)
        BY <1>1, <3>1 DEF FirstRevisions
      <3> QED
        BY <3>2, <3>3
    <2> QED
      BY <2>1, <2>2
  <1>5. Log = first.log
    BY <1>1, <1>2, <1>4 DEF Log
  <1>6. Accepted = first.accepted
    BY <1>2 DEF Accepted
  <1> QED
    BY <1>3, <1>5, <1>6 DEF Promise!Init

(* The session is a log to which every revision is appended by somebody who *)
(* had seen all of it, and in which the last revision, when it is reviewed, *)
(* is accepted once, by one step that also appends the accepted revision.   *)
THEOREM SessionRefines == Spec => ImplementsThesisLog
  <1>1. Init => Base /\ Promise!Init
    BY BaseBegins, InitRefines
  <1>2. Base /\ [Next]_vars => Base'
    BY BaseStep
  <1>3. Base /\ Base' /\ [Next]_vars => [Promise!Next]_(Promise!vars)
    BY StepRefines
  <1> QED
    BY <1>1, <1>2, <1>3, PTL DEF Spec, ImplementsThesisLog, Promise!Spec
---------------------------------------------------------------------------
(* The order in which rows are locked.                                     *)
IsOwner(row) == row[1] \in {"beneficiary", "pool"}

Rank(row) == IF row[1] = "pool" THEN LastKey + 1 ELSE row[2]

(* A command locks the session and its revisions before any owner's row,    *)
(* and owners' rows upwards; unless it is a review, it holds the session    *)
(* when it holds a revision.                                               *)
InOrder(w) ==
    /\ pc[w] = "session" => todo[w] \subseteq SessionLocks(cmd[w])
    /\ pc[w] = "revisions" => \A s \in todo[w] : s.row[1] = "revision" /\ s.rank = 0
    /\ pc[w] = "owners" => todo[w] \subseteq OwnerLocks(cmd[w])
    /\ pc[w] \in {"session", "revisions"} => \A row \in holds[w] : ~IsOwner(row)
    /\ pc[w] = "owners" => \A row \in holds[w] : \A s \in todo[w] : IsOwner(row) => Rank(row) < Rank(s.row)
    /\ cmd[w].kind # "review" => \A row \in holds[w] : row[1] = "revision" => Session \in holds[w]

Ordered == \A w \in Worker : InOrder(w)

LEMMA LastKeyIsLast == LastKey \in Key /\ LastKey \in Nat /\ \A j \in Key : j \in Nat /\ j <= LastKey
  BY SessionAssumption DEF SessionAssumption, LastKey

(* A set of numbers has a least one.                                       *)
LEMMA LeastNumber ==
    ASSUME NEW T, T \subseteq Nat, T # {}
    PROVE  \E x \in T : \A y \in T : x <= y
  <1>1. PICK x \in T : \A y \in T : <<y, x>> \notin OpToRel(<, Nat)
    <2>1. PICK R : R = OpToRel(<, Nat) /\ IsWellFoundedOn(R, Nat)
      BY NatLessThanWellFounded
    <2>2. \E x \in T : \A y \in T : ~(<<y, x>> \in R)
      BY <2>1, WFMin
    <2> QED
      BY <2>1, <2>2
  <1>2. ASSUME NEW y \in T
        PROVE  x <= y
    <2>1. ~(y < x)
      BY <1>1 DEF OpToRel
    <2> QED
      BY <2>1
  <1> QED
    BY <1>2

LEMMA OwnersInOrder ==
    ASSUME NEW c \in Command, c.kind \in {"accept", "assess", "pool"}
    PROVE  /\ \A s \in OwnerLocks(c) : s.rank \in Nat /\ IsOwner(s.row) /\ Rank(s.row) \in 0..(LastKey + 1)
           /\ \A s, t \in OwnerLocks(c) : s.rank <= t.rank /\ s # t => Rank(s.row) < Rank(t.row)
  <1>1. ASSUME c.kind \in {"assess", "pool"}
        PROVE  \A s, t \in OwnerLocks(c) : s = t
    BY <1>1 DEF OwnerLocks
  <1>2. ASSUME NEW k \in Key, NEW n
        PROVE  LET s == At(n, Beneficiary(k))
               IN s.rank = n /\ IsOwner(s.row) /\ Rank(s.row) = k /\ Rank(s.row) \in 0..(LastKey + 1)
    BY LastKeyIsLast DEF At, Beneficiary, IsOwner, Rank
  <1>3. ASSUME NEW n
        PROVE  LET s == At(n, Pool)
               IN s.rank = n /\ IsOwner(s.row) /\ Rank(s.row) = LastKey + 1 /\ Rank(s.row) \in 0..(LastKey + 1)
    BY LastKeyIsLast DEF At, Pool, IsOwner, Rank
  <1>4. CASE c.kind = "accept"
    <2>1. \A i \in c.owners : i.key \in Key
      BY <1>4, CommandKinds DEF OwnerItem
    <2>2. \A s \in OwnerLocks(c) : (\E k \in Key : s = At(k, Beneficiary(k))) \/ s = At(LastKey + 1, Pool)
      BY <1>4, <2>1 DEF OwnerLocks
    <2>3. \A s \in OwnerLocks(c) : s.rank = Rank(s.row) /\ s.rank \in Nat /\ IsOwner(s.row)
                                   /\ Rank(s.row) \in 0..(LastKey + 1)
      BY <1>2, <1>3, <2>2, LastKeyIsLast
    <2>4. \A s, t \in OwnerLocks(c) : s.rank = t.rank => s = t
      BY <1>2, <1>3, <2>2, LastKeyIsLast
    <2> QED
      BY <2>3, <2>4
  <1>5. CASE c.kind = "assess"
    <2>1. c.key \in Key
      BY <1>5, CommandKinds
    <2>2. \A s \in OwnerLocks(c) : s = At(0, Beneficiary(c.key))
      BY <1>5 DEF OwnerLocks
    <2> QED
      BY <1>1, <1>2, <1>5, <2>1, <2>2
  <1>6. CASE c.kind = "pool"
    <2>1. \A s \in OwnerLocks(c) : s = At(0, Pool)
      BY <1>6 DEF OwnerLocks
    <2> QED
      BY <1>1, <1>3, <1>6, <2>1
  <1> QED
    BY <1>4, <1>5, <1>6

LEMMA SessionInOrder ==
    ASSUME NEW c, c.kind \in SessionKinds, NEW s \in SessionLocks(c)
    PROVE  /\ s.rank \in Nat /\ ~IsOwner(s.row) /\ (s.row = Session \/ s.row[1] = "revision")
           /\ c.kind # "review" => At(0, Session) \in SessionLocks(c) /\ (s = At(0, Session) \/ s.rank = 1)
  BY DEF SessionLocks, SessionKinds, At, Session, Revision, IsOwner

LEMMA RanksHaveLeast ==
    ASSUME NEW w \in Worker, todo[w] # {}, \A t \in todo[w] : t.rank \in Nat
    PROVE  NextLock(w) \in todo[w] /\ \A t \in todo[w] : NextLock(w).rank <= t.rank
  <1> DEFINE ranks == {t.rank : t \in todo[w]}
  <1>1. ranks \subseteq Nat /\ ranks # {}
    OBVIOUS
  <1>2. PICK n \in ranks : \A m \in ranks : n <= m
    BY <1>1, LeastNumber
  <1>3. \E s \in todo[w] : \A t \in todo[w] : s.rank <= t.rank
    BY <1>2
  <1> QED
    BY <1>3 DEF NextLock

LEMMA NextLockIsNext ==
    ASSUME Base, Ordered, NEW w \in Worker, Locking(w)
    PROVE  NextLock(w) \in todo[w] /\ \A t \in todo[w] : NextLock(w).rank <= t.rank
  <1>1. pc[w] \in Stages /\ todo[w] # {} /\ cmd[w] \in Command
    BY DEF Locking, Base, Shape, StepsFit, Stages
  <1>2. CASE pc[w] = "session"
    <2>1. \A t \in todo[w] : t.rank \in Nat
      BY <1>2, SessionInOrder DEF Ordered, InOrder, Base, Shape, StepsFit
    <2> QED
      BY <1>1, <2>1, RanksHaveLeast
  <1>3. CASE pc[w] = "revisions"
    <2>1. \A t \in todo[w] : t.rank \in Nat
      BY <1>3 DEF Ordered, InOrder
    <2> QED
      BY <1>1, <2>1, RanksHaveLeast
  <1>4. CASE pc[w] = "owners"
    <2>1. \A t \in todo[w] : t.rank \in Nat
      BY <1>1, <1>4, OwnersInOrder DEF Ordered, InOrder, Base, Shape, StepsFit
    <2> QED
      BY <1>1, <2>1, RanksHaveLeast
  <1> QED
    BY <1>1, <1>2, <1>3, <1>4 DEF Stages

LEMMA OrderedStep ==
    ASSUME Base, Ordered, [Next]_vars
    PROVE  Ordered'
  <1>0. StepsFit /\ DOMAIN todo = Worker /\ DOMAIN holds = Worker
        /\ pc \in [Worker -> Stages \union {"idle", "write"}] /\ cmd \in [Worker -> Command \union {NoCommand}]
    BY DEF Base, Shape, TypeOK
  <1>1. ASSUME NEW v \in Worker, pc'[v] = pc[v], cmd'[v] = cmd[v], todo'[v] = todo[v], holds'[v] = holds[v]
        PROVE  InOrder(v)'
    BY <1>1 DEF Ordered, InOrder, SessionLocks, OwnerLocks, Rank
  <1>2. CASE UNCHANGED vars
    BY <1>1, <1>2 DEF Ordered, vars
  <1>3. ASSUME NEW w \in Worker, NEW c \in Command, Start(w, c)
        PROVE  Ordered'
    <2>1. /\ pc'[w] = FirstStage(c) /\ cmd'[w] = c /\ todo'[w] = Locks(c, FirstStage(c)) /\ holds'[w] = {}
      BY <1>0, <1>3 DEF Start, Base, Shape, TypeOK
    <2>2. FirstStage(c) \in {"session", "owners"} /\ (FirstStage(c) = "session" => Locks(c, FirstStage(c)) = SessionLocks(c))
          /\ (FirstStage(c) = "owners" => Locks(c, FirstStage(c)) = OwnerLocks(c))
      BY DEF FirstStage, Locks
    <2>3. InOrder(w)'
      BY <2>1, <2>2 DEF InOrder, SessionLocks, OwnerLocks
    <2>4. \A v \in Worker \ {w} : pc'[v] = pc[v] /\ cmd'[v] = cmd[v] /\ todo'[v] = todo[v] /\ holds'[v] = holds[v]
      BY <1>0, <1>3 DEF Start
    <2> QED
      BY <1>1, <2>3, <2>4 DEF Ordered
  <1>4. ASSUME NEW w \in Worker, Lock(w)
        PROVE  Ordered'
    <2>1. PICK s : s = NextLock(w)
      OBVIOUS
    <2>2. s \in todo[w] /\ \A t \in todo[w] : s.rank <= t.rank
      BY <1>4, <2>1, NextLockIsNext DEF Lock
    <2>3. /\ holds'[w] = holds[w] \union {s.row} /\ todo'[w] = todo[w] \ {s}
          /\ pc'[w] = pc[w] /\ cmd'[w] = cmd[w] /\ pc[w] \in Stages
      BY <1>0, <1>4, <2>1 DEF Lock, Locking
    <2>4. CASE pc[w] = "session"
      <3>1. cmd[w].kind \in SessionKinds /\ s \in SessionLocks(cmd[w])
        BY <1>0, <2>2, <2>4 DEF StepsFit, Ordered, InOrder
      <3>2. ~IsOwner(s.row)
        BY <3>1, SessionInOrder
      <3>3. ASSUME cmd[w].kind # "review", NEW row \in holds'[w], row[1] = "revision"
            PROVE  Session \in holds'[w]
        <4>1. CASE row \in holds[w]
          BY <2>3, <3>3, <4>1 DEF Ordered, InOrder
        <4>2. CASE row = s.row
          <5>1. At(0, Session) \in SessionLocks(cmd[w]) /\ s # At(0, Session) /\ s.rank = 1
            BY <3>1, <3>3, <4>2, SessionInOrder DEF At, Session
          <5>2. At(0, Session) \notin todo[w]
            BY <2>2, <5>1 DEF At
          <5>3. At(0, Session).row \in holds[w]
            BY <2>4, <5>1, <5>2 DEF Base, LockInv, LocksTaken, Secured
          <5> QED
            BY <2>3, <5>3 DEF At
        <4> QED
          BY <2>3, <3>3, <4>1, <4>2
      <3>4. InOrder(w)'
        BY <2>3, <2>4, <3>2, <3>3 DEF Ordered, InOrder, SessionLocks, OwnerLocks, IsOwner
      <3> QED
        BY <1>0, <1>1, <1>4, <3>4 DEF Ordered, Lock
    <2>5. CASE pc[w] = "revisions"
      <3>1. s.row[1] = "revision" /\ Session \in holds[w]
        BY <1>0, <2>2, <2>5 DEF Ordered, InOrder, Base, LockInv, LocksTaken, StepsFit, SessionKinds
      <3>2. InOrder(w)'
        BY <2>3, <2>5, <3>1 DEF Ordered, InOrder, SessionLocks, OwnerLocks, IsOwner
      <3> QED
        BY <1>0, <1>1, <1>4, <3>2 DEF Ordered, Lock
    <2>6. CASE pc[w] = "owners"
      <3>1. cmd[w] \in Command /\ cmd[w].kind \in {"accept", "assess", "pool"} /\ todo[w] \subseteq OwnerLocks(cmd[w])
        BY <1>0, <2>6 DEF StepsFit, Ordered, InOrder
      <3>2. IsOwner(s.row) /\ \A t \in todo[w] \ {s} : Rank(s.row) < Rank(t.row)
        BY <2>2, <3>1, OwnersInOrder
      <3>3. \A row \in holds[w] : \A t \in todo[w] : IsOwner(row) => Rank(row) < Rank(t.row)
        BY <2>6 DEF Ordered, InOrder
      <3>4. \A row \in holds'[w] : \A t \in todo'[w] : IsOwner(row) => Rank(row) < Rank(t.row)
        BY <2>3, <3>2, <3>3
      <3>5. cmd[w].kind # "review" => \A row \in holds'[w] : row[1] = "revision" => Session \in holds'[w]
        BY <2>3, <3>2 DEF Ordered, InOrder, IsOwner
      <3>6. todo'[w] \subseteq OwnerLocks(cmd[w])
        BY <2>3, <3>1
      <3>7. InOrder(w)'
        BY <2>3, <2>6, <3>4, <3>5, <3>6 DEF InOrder, SessionLocks, OwnerLocks, IsOwner, Rank
      <3> QED
        BY <1>0, <1>1, <1>4, <3>7 DEF Ordered, Lock
    <2> QED
      BY <2>3, <2>4, <2>5, <2>6 DEF Stages
  <1>5. ASSUME NEW w \in Worker, Proceed(w)
        PROVE  Ordered'
    <2>1. PICK next : next = NextStage(cmd[w], pc[w])
      OBVIOUS
    <2>2. /\ pc'[w] = next /\ todo'[w] = Locks(cmd[w], next) /\ cmd'[w] = cmd[w] /\ holds'[w] = holds[w]
          /\ pc[w] \in Stages
      BY <1>0, <1>5, <2>1 DEF Proceed, Locked
    <2>3. /\ pc[w] = "session" => next \in {"revisions", "write"}
          /\ pc[w] = "revisions" => next \in {"owners", "write"}
          /\ pc[w] = "owners" => next = "write"
          /\ next = "revisions" => cmd[w].kind \in {"revise", "build", "accept"}
      BY <1>0, <2>1, <2>2 DEF NextStage, StepsFit, Stages, SessionKinds
    <2>4. next = "revisions" => \A s \in todo'[w] : s.row[1] = "revision" /\ s.rank = 0
      BY <2>2, <2>3 DEF Locks, RevisionLocks, At, Revision
    <2>5. next = "owners" => todo'[w] = OwnerLocks(cmd[w]) /\ \A row \in holds[w] : ~IsOwner(row)
      BY <2>2, <2>3 DEF Locks, Ordered, InOrder, Stages
    <2>6. next = "revisions" => \A row \in holds[w] : ~IsOwner(row)
      BY <2>2, <2>3 DEF Ordered, InOrder, Stages
    <2>7. InOrder(w)'
      BY <2>2, <2>3, <2>4, <2>5, <2>6 DEF Ordered, InOrder, OwnerLocks, IsOwner, Stages
    <2> QED
      BY <1>0, <1>1, <1>5, <2>7 DEF Ordered, Proceed
  <1>6. ASSUME NEW w \in Worker, NEW answer, End(w, answer)
        PROVE  Ordered'
    <2>1. pc'[w] = "idle" /\ holds'[w] = {}
      BY <1>0, <1>6 DEF End
    <2>2. InOrder(w)'
      BY <2>1 DEF InOrder
    <2> QED
      BY <1>0, <1>1, <1>6, <2>2 DEF Ordered, End
  <1> QED
    BY <1>2, <1>3, <1>4, <1>5, <1>6, Answers DEF Next, Finished

(* Without a review the waits lead upwards, and there is a last row.       *)
LEMMA OrderBreaksCycles ==
    ASSUME Base, Ordered
    PROVE  CyclesNeedReview
  <1> SUFFICES ASSUME NEW S \in SUBSET Worker, Deadlocked(S), \A w \in S : cmd[w].kind # "review"
               PROVE  FALSE
    BY DEF CyclesNeedReview
  <1> DEFINE wanted(w) == NextLock(w).row
  <1>1. ASSUME NEW w \in S
        PROVE  /\ \E v \in S : v # w /\ wanted(w) \in holds[v]
               /\ pc[w] \in Stages /\ cmd[w] \in Command /\ NextLock(w) \in todo[w]
               /\ pc[w] = "session" => cmd[w].kind \in SessionKinds /\ NextLock(w) \in SessionLocks(cmd[w])
               /\ pc[w] = "owners" => cmd[w].kind \in {"accept", "assess", "pool"}
                                      /\ NextLock(w) \in OwnerLocks(cmd[w])
    BY NextLockIsNext DEF Deadlocked, Waits, Locking, Base, Shape, StepsFit, Stages, Ordered, InOrder
  <1>2. \A v, w \in S : v # w /\ Session \in holds[v] => Session \notin holds[w]
    BY DEF Base, LockInv, Exclusive
  <1>3. ASSUME NEW w \in S, wanted(w)[1] = "revision"
        PROVE  FALSE
    <2>1. PICK v \in S : v # w /\ wanted(w) \in holds[v]
      BY <1>1
    <2>2. Session \in holds[v]
      BY <1>3, <2>1 DEF Ordered, InOrder
    <2>3. CASE pc[w] = "session"
      <3>1. NextLock(w) \in SessionLocks(cmd[w]) /\ cmd[w].kind \in SessionKinds /\ cmd[w].kind # "review"
        BY <1>1, <2>3
      <3>2. At(0, Session) \in SessionLocks(cmd[w]) /\ NextLock(w).rank = 1
        BY <1>3, <3>1, SessionInOrder DEF At, Session
      <3>3. \A t \in todo[w] : NextLock(w).rank <= t.rank
        BY <1>1, NextLockIsNext DEF Locking
      <3>4. At(0, Session) \notin todo[w]
        BY <3>2, <3>3 DEF At
      <3>5. At(0, Session).row \in holds[w]
        BY <2>3, <3>2, <3>4 DEF Base, LockInv, LocksTaken, Secured
      <3> QED
        BY <1>2, <2>1, <2>2, <3>5 DEF At
    <2>4. CASE pc[w] = "revisions"
      <3>1. Session \in holds[w]
        BY <2>4 DEF Base, Shape, StepsFit, LockInv, LocksTaken, SessionKinds
      <3> QED
        BY <1>2, <2>1, <2>2, <3>1
    <2>5. CASE pc[w] = "owners"
      <3>1. IsOwner(wanted(w))
        BY <1>1, <2>5, OwnersInOrder
      <3> QED
        BY <1>3, <3>1 DEF IsOwner
    <2> QED
      BY <1>1, <2>3, <2>4, <2>5 DEF Stages
  <1>4. ASSUME NEW w \in S
        PROVE  wanted(w) = Session \/ (pc[w] = "owners" /\ IsOwner(wanted(w)) /\ Rank(wanted(w)) \in 0..(LastKey + 1))
    <2>1. CASE pc[w] = "session"
      BY <1>1, <1>3, <2>1, SessionInOrder
    <2>2. CASE pc[w] = "revisions"
      <3>1. wanted(w)[1] = "revision"
        BY <1>1, <2>2 DEF Ordered, InOrder
      <3> QED
        BY <1>3, <3>1
    <2>3. CASE pc[w] = "owners"
      BY <1>1, <2>3, OwnersInOrder
    <2> QED
      BY <1>1, <2>1, <2>2, <2>3 DEF Stages
  <1>5. \E w \in S : wanted(w) # Session
    <2>1. PICK w \in S : TRUE
      BY DEF Deadlocked
    <2>2. PICK v \in S : v # w /\ wanted(w) \in holds[v]
      BY <1>1
    <2>3. CASE wanted(w) = Session
      <3>1. PICK u \in S : u # v /\ wanted(v) \in holds[u]
        BY <1>1
      <3> QED
        BY <1>2, <2>2, <2>3, <3>1
    <2> QED
      BY <2>3
  <1> DEFINE T == {w \in S : wanted(w) # Session}
             room(w) == LastKey + 1 - Rank(wanted(w))
             R == {room(w) : w \in T}
  <1>6. \A w \in T : pc[w] = "owners" /\ IsOwner(wanted(w)) /\ Rank(wanted(w)) \in 0..(LastKey + 1) /\ room(w) \in Nat
    BY <1>4, LastKeyIsLast
  <1>7. R \subseteq Nat /\ R # {}
    BY <1>5, <1>6
  <1>8. PICK w \in T : \A v \in T : room(w) <= room(v)
    <2>1. PICK n \in R : \A m \in R : n <= m
      BY <1>7, LeastNumber
    <2> QED
      BY <2>1
  <1>9. PICK v \in S : wanted(w) \in holds[v]
    BY <1>1, <1>8
  <1>10. IsOwner(wanted(w))
    BY <1>6, <1>8
  <1>11. pc[v] = "owners"
    BY <1>1, <1>9, <1>10 DEF Ordered, InOrder, Stages
  <1>12. Rank(wanted(w)) < Rank(wanted(v))
    BY <1>1, <1>9, <1>10, <1>11 DEF Ordered, InOrder
  <1>13. IsOwner(wanted(v))
    BY <1>1, <1>11, OwnersInOrder
  <1>14. v \in T
    BY <1>13 DEF IsOwner, Session
  <1> QED
    BY <1>6, <1>8, <1>12, <1>14, LastKeyIsLast

(* Commands that wait for each other, each for a row another one holds, are *)
(* never all revisions, builds, acceptances, assessments and pool           *)
(* revisions: these lock the session first, then its revisions, then        *)
(* beneficiaries in their order, then the pool.                            *)
THEOREM CyclesHaveReview == Spec => []CyclesNeedReview
  <1>1. Init => Base /\ Ordered
    <2>1. Init => Ordered
      BY DEF Init, Ordered, InOrder
    <2> QED
      BY <2>1, BaseBegins
  <1>2. Base /\ Ordered /\ [Next]_vars => Base' /\ Ordered'
    BY BaseStep, OrderedStep
  <1>3. Base /\ Ordered => CyclesNeedReview
    BY OrderBreaksCycles
  <1> QED
    BY <1>1, <1>2, <1>3, PTL DEF Spec

=============================================================================
