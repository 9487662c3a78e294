----------------------- MODULE CompanyResearch_proofs -----------------------
(* Proofs about CompanyResearch.                                           *)
EXTENDS CompanyResearch, FiniteSetTheorems, NaturalsInduction, WellFoundedInduction, TLAPS

(* The rows.                                                               *)
Revision ==
    [kind : Layers \union {"research"}, file : File, key : Key \union {0}, no : Nat \ {0},
     status : {"draft", "supported", "disputed", "insufficient"}, at : Clock, rests : SUBSET Ref,
     claims : SUBSET Claim, evidence : SUBSET Link]

FilesOK ==
    /\ files \subseteq [file : File, at : Clock, evidence : SUBSET Link]
    /\ \A x, y \in files : x.file = y.file => x = y
    /\ \A x \in files : x.evidence = HandedOff
    /\ \A r \in revisions : Opened(r.file)

(* Revisions are numbered, and what they rest on is there.                 *)
NumbersOK ==
    \A r \in revisions :
        LET same == RevisionsOf(r.kind, r.file, r.key)
        IN IsFiniteSet(same) /\ r.no <= Cardinality(same)

Refs == {RefOf(q) : q \in revisions}

RevisionsOK ==
    /\ revisions \subseteq Revision
    /\ \A r \in revisions : r.kind = "research" => r.key = 0
    /\ \A r \in revisions : r.rests \subseteq Refs
    /\ \A r \in revisions : r.evidence \subseteq links

RowsOK ==
    /\ SeedLinks \subseteq links /\ links \subseteq Link
    /\ FilesOK /\ NumbersOK /\ RevisionsOK /\ ChainsAreAccepted

(* The workers: where a command of each kind may be, and its locks.         *)
Places(kind) ==
    CASE kind \in {"open", "research"} -> {"file", "write"}
      [] kind \in Layers -> {"file", "claims", "write"}
      [] kind = "link" -> {"claims", "write"}
      [] OTHER -> {}

WorkersOK ==
    /\ pc \in [Worker -> {"idle", "file", "claims", "write"}]
    /\ cmd \in [Worker -> Command \union {NoCommand}]
    /\ DOMAIN todo = Worker /\ DOMAIN holds = Worker /\ DOMAIN seen = Worker
    /\ \A w \in Worker : pc[w] = "idle" => todo[w] = {} /\ holds[w] = {} /\ seen[w] = {}
    /\ \A w \in Worker : pc[w] # "idle" => cmd[w] \in Command /\ pc[w] \in Places(cmd[w].kind)
    /\ commands \in 0..MaxCommands /\ faults \in 0..MaxFaults

(* The locks of the stages before.                                         *)
Earlier(c, stage) ==
    CASE stage = "claims" /\ c.kind \in Layers -> Locks(c, "file")
      [] stage = "write" /\ c.kind \in Layers -> Locks(c, "file") \union Locks(c, "claims")
      [] stage = "write" /\ c.kind = "link" -> Locks(c, "claims")
      [] stage = "write" /\ c.kind \in {"open", "research"} -> Locks(c, "file")
      [] OTHER -> {}

(* The locks of a stage are taken in the order of their ranks, on top of     *)
(* all those of the stages before.                                         *)
LocksTaken ==
    \A w \in Worker : pc[w] # "idle" =>
        LET now == Locks(cmd[w], pc[w])
        IN /\ todo[w] \subseteq now
           /\ holds[w] = Earlier(cmd[w], pc[w]) \union (now \ todo[w])
           /\ \A l \in now \ todo[w], m \in todo[w] : l.rank <= m.rank

Exclusive ==
    \A v, w \in Worker : \A l \in holds[v], m \in holds[w] :
        v # w /\ l.row = m.row => l.shared /\ m.shared

(* What a command has seen so far is still so.                             *)
Checked(w) ==
    LET c == cmd[w]
    IN /\ pc[w] = "write" /\ c.kind \in {"open", "research"} => Passes(c, "file")
       /\ pc[w] \in {"claims", "write"} /\ c.kind \in Layers => Passes(c, "file")
       /\ pc[w] = "write" /\ c.kind \in Layers \union {"link"} => Passes(c, "claims")
       /\ pc[w] = "write" /\ c.kind \in Layers => seen[w] = EvidenceFor(c)

StillChecked == \A w \in Worker : Checked(w)

Inv == RowsOK /\ WorkersOK /\ LocksTaken /\ Exclusive /\ StillChecked
---------------------------------------------------------------------------
(* Commands and locks.                                                     *)

LEMMA CommandTypes ==
    ASSUME NEW c \in Command
    PROVE  /\ c.kind \in {"open", "research", "link"} \union Layers
           /\ c.kind = "open" => c \in OpenCommand
           /\ c.kind = "research" => c \in ResearchCommand
           /\ c.kind = "link" => c \in LinkCommand
           /\ c.kind \in Layers => c \in LayerCommand
           /\ c.kind \in Layers => \A r \in c.rests : r.kind \in Below(c.kind)
  BY CompanyAssumption DEF CompanyAssumption, OpenCommand, ResearchCommand, LayerCommand, LinkCommand, Layers

LEMMA ClaimNumbers ==
    /\ Claim \subseteq Nat /\ Cardinality(Claim) \in Nat
    /\ \A k \in Claim : 1 <= k /\ k <= Cardinality(Claim)
  <1>1. Cardinality(Claim) \in Nat
    BY CompanyAssumption, FS_CardinalityType DEF CompanyAssumption
  <1> QED
    BY <1>1, CompanyAssumption DEF CompanyAssumption

LEMMA LocksOf ==
    ASSUME NEW c \in Command
    PROVE  /\ c.kind = "open" => /\ Locks(c, "file") = {At(0, PoolRow(c.file))}
                                 /\ Locks(c, "write") = HandoffLocks
           /\ c.kind = "research" => /\ Locks(c, "file") = {At(1, FileRow(c.file))}
                                     /\ Locks(c, "write") = FrozenHypotheses(c)
           /\ c.kind \in Layers => /\ Locks(c, "file") = IdentityLocks(c) \union {At(1, FileRow(c.file))}
                                   /\ Locks(c, "claims") = ClaimLocks(c.claims)
                                   /\ Locks(c, "write") = {}
           /\ c.kind = "link" => /\ Locks(c, "claims") = {At(c.claim, ClaimRow(c.claim))}
                                 /\ Locks(c, "write") = {}
  <1>1. CASE c.kind = "open"
    BY <1>1 DEF Locks, Layers
  <1>2. CASE c.kind = "research"
    BY <1>2 DEF Locks, IdentityLocks, Layers
  <1>3. CASE c.kind \in Layers
    BY <1>3 DEF Locks, Layers
  <1>4. CASE c.kind = "link"
    BY <1>4 DEF Locks, Layers
  <1> QED
    BY <1>1, <1>2, <1>3, <1>4, CommandTypes DEF Layers

LEMMA RanksAreNumbers ==
    ASSUME NEW c \in Command, NEW stage \in Places(c.kind), NEW l \in Locks(c, stage)
    PROVE  l.rank \in Nat
  <1>1. CASE c.kind = "open"
    <2>1. HandoffClaims \subseteq Nat /\ Cardinality(Claim) \in Nat
      BY ClaimNumbers, CompanyAssumption DEF CompanyAssumption
    <2>2. \A k \in HandoffClaims : Share(k, ClaimRow(k)).rank \in Nat
      BY <2>1 DEF Share
    <2>3. \A k \in HandoffClaims : At(Cardinality(Claim) + k, ClaimRow(k)).rank \in Nat
      BY <2>1 DEF At
    <2>4. \A m \in HandoffLocks : m.rank \in Nat
      BY <2>2, <2>3 DEF HandoffLocks
    <2>5. stage \in {"file", "write"}
      BY <1>1 DEF Places, Layers
    <2>6. At(0, PoolRow(c.file)).rank = 0
      BY DEF At
    <2> QED
      BY <1>1, <2>4, <2>5, <2>6, LocksOf
  <1>2. CASE c.kind = "research"
    <2>1. stage \in {"file", "write"}
      BY <1>2 DEF Places, Layers
    <2>2. \A m \in FrozenHypotheses(c) : m.rank = 0
      BY DEF FrozenHypotheses, Share
    <2>3. At(1, FileRow(c.file)).rank = 1
      BY DEF At
    <2> QED
      BY <1>2, <2>1, <2>2, <2>3, LocksOf
  <1>3. CASE c.kind \in Layers
    <2>1. c.claims \subseteq Nat
      BY <1>3, CommandTypes, ClaimNumbers DEF LayerCommand
    <2> QED
      BY <1>3, <2>1, LocksOf DEF Places, At, IdentityLocks, ClaimLocks, Layers
  <1>4. CASE c.kind = "link"
    <2>1. c.claim \in Nat
      BY <1>4, CommandTypes, ClaimNumbers DEF LinkCommand
    <2> QED
      BY <1>4, <2>1, LocksOf DEF Places, At, Layers
  <1> QED
    BY <1>1, <1>2, <1>3, <1>4, CommandTypes

LEMMA LeastNumber ==
    ASSUME NEW T, T \subseteq Nat, T # {}
    PROVE  \E x \in T : \A y \in T : x <= y
  <1>1. PICK x \in T : \A y \in T : <<y, x>> \notin OpToRel(<, Nat)
    <2>1. PICK R : R = OpToRel(<, Nat) /\ IsWellFoundedOn(R, Nat)
      BY NatLessThanWellFounded
    <2>2. \E x \in T : \A y \in T : ~(<<y, x>> \in R)
      BY <2>1, WFMin
    <2> QED
      BY <2>1, <2>2
  <1>2. ASSUME NEW y \in T
        PROVE  x <= y
    <2>1. ~(y < x)
      BY <1>1 DEF OpToRel
    <2> QED
      BY <2>1
  <1> QED
    BY <1>2

LEMMA NextIsTodo ==
    ASSUME WorkersOK, LocksTaken, NEW w \in Worker, todo[w] # {}
    PROVE  /\ NextLock(w) \in todo[w] /\ \A m \in todo[w] : NextLock(w).rank <= m.rank
           /\ pc[w] # "idle" /\ cmd[w] \in Command /\ pc[w] \in Places(cmd[w].kind)
           /\ \A m \in todo[w] : m \in Locks(cmd[w], pc[w]) /\ m.rank \in Nat
  <1>1. pc[w] # "idle" /\ cmd[w] \in Command /\ pc[w] \in Places(cmd[w].kind)
    BY DEF WorkersOK
  <1>2. todo[w] \subseteq Locks(cmd[w], pc[w])
    BY <1>1 DEF LocksTaken
  <1>3. \A m \in todo[w] : m \in Locks(cmd[w], pc[w]) /\ m.rank \in Nat
    BY <1>1, <1>2, RanksAreNumbers
  <1>4. \E l \in todo[w] : \A m \in todo[w] : l.rank <= m.rank
    <2> DEFINE T == {m.rank : m \in todo[w]}
    <2>1. T \subseteq Nat /\ T # {}
      BY <1>3
    <2>2. \E x \in T : \A y \in T : x <= y
      <3> HIDE DEF T
      <3> QED
        BY <2>1, LeastNumber
    <2> QED
      BY <2>2
  <1>5. NextLock(w) \in todo[w] /\ \A m \in todo[w] : NextLock(w).rank <= m.rank
    BY <1>4 DEF NextLock
  <1> QED
    BY <1>1, <1>3, <1>5

(* The steps of a worker.                                                  *)
Writes(w) == CreateCompanyResearch(w) \/ AppendResearchRevision(w) \/ InsertLayer(w) \/ LinkEvidence(w)

Moves(w) ==
    \/ \E c \in Command : Start(w, c)
    \/ Lock(w) \/ Proceed(w) \/ Writes(w) \/ Refuse(w) \/ DeadlockVictim(w) \/ RollBack(w)

LEMMA Steps ==
    ASSUME [Next]_vars
    PROVE  UNCHANGED vars \/ \E w \in Worker : Moves(w)
  BY DEF Next, Step, Finished, Moves, Writes

(* Only the worker that takes a step moves.                                *)
Stands(v) ==
    pc'[v] = pc[v] /\ cmd'[v] = cmd[v] /\ todo'[v] = todo[v] /\ holds'[v] = holds[v] /\ seen'[v] = seen[v]

LEMMA Endings ==
    ASSUME NEW w \in Worker
    PROVE  /\ Refuse(w) \/ DeadlockVictim(w) \/ RollBack(w) => End(w) /\ UNCHANGED rows
           /\ Writes(w) => /\ End(w) /\ pc[w] = "write" /\ todo[w] = {} /\ faults' = faults
                           /\ cmd[w].kind \in {"open", "research", "link"} \union Layers
  BY DEF Writes, Refuse, DeadlockVictim, RollBack, CreateCompanyResearch, AppendResearchRevision, InsertLayer,
         LinkEvidence, Writing

LEMMA OthersStand ==
    ASSUME WorkersOK, NEW w \in Worker, Moves(w), NEW v \in Worker \ {w}
    PROVE  Stands(v)
  <1>1. End(w) => Stands(v)
    BY DEF WorkersOK, End, Stands
  <1>2. ASSUME NEW c \in Command, Start(w, c)
        PROVE  Stands(v)
    BY <1>2 DEF WorkersOK, Start, Stands
  <1>3. Lock(w) => Stands(v)
    BY DEF WorkersOK, Lock, Stands
  <1>4. Proceed(w) => Stands(v)
    BY DEF WorkersOK, Proceed, Stands
  <1> QED
    BY <1>1, <1>2, <1>3, <1>4, Endings DEF Moves

LEMMA StagesFit ==
    ASSUME NEW c \in Command
    PROVE  /\ FirstStage(c) \in Places(c.kind) /\ FirstStage(c) # "write" /\ FirstStage(c) # "idle"
           /\ Earlier(c, FirstStage(c)) = {}
           /\ \A stage \in Places(c.kind) \ {"write"} :
                  /\ stage \in {"file", "claims"} /\ NextStage(c, stage) \in Places(c.kind)
                  /\ NextStage(c, stage) \in {"claims", "write"}
                  /\ Earlier(c, NextStage(c, stage)) = Earlier(c, stage) \union Locks(c, stage)
           /\ Places(c.kind) \subseteq {"file", "claims", "write"}
  <1>1. CASE c.kind \in {"open", "research"}
    BY <1>1 DEF Places, FirstStage, NextStage, Earlier, Layers
  <1>2. CASE c.kind \in Layers
    BY <1>2 DEF Places, FirstStage, NextStage, Earlier, Layers
  <1>3. CASE c.kind = "link"
    BY <1>3 DEF Places, FirstStage, NextStage, Earlier, Layers
  <1> QED
    BY <1>1, <1>2, <1>3, CommandTypes

---------------------------------------------------------------------------
(* The workers.                                                            *)

LEMMA WorkersKept ==
    ASSUME WorkersOK, LocksTaken, NEW w \in Worker, Moves(w)
    PROVE  WorkersOK'
  <1>1. ASSUME End(w), faults' \in 0..MaxFaults
        PROVE  WorkersOK'
    <2>1. \A v \in Worker : pc'[v] = "idle" => todo'[v] = {} /\ holds'[v] = {} /\ seen'[v] = {}
      BY <1>1 DEF End, WorkersOK
    <2>2. \A v \in Worker : pc'[v] # "idle" => cmd'[v] \in Command /\ pc'[v] \in Places(cmd'[v].kind)
      <3> TAKE v \in Worker
      <3>1. pc'[v] # "idle" => v # w /\ pc'[v] = pc[v] /\ cmd'[v] = cmd[v]
        BY <1>1 DEF End, WorkersOK
      <3> QED
        BY <3>1 DEF WorkersOK
    <2> QED
      BY <1>1, <2>1, <2>2 DEF End, WorkersOK
  <1>2. ASSUME NEW c \in Command, Start(w, c)
        PROVE  WorkersOK'
    <2>1. FirstStage(c) \in {"file", "claims"} /\ FirstStage(c) \in Places(c.kind)
      BY StagesFit DEF FirstStage
    <2>2. \A v \in Worker : pc'[v] # "idle" => cmd'[v] \in Command /\ pc'[v] \in Places(cmd'[v].kind)
      <3> TAKE v \in Worker
      <3>1. CASE v = w
        BY <1>2, <2>1, <3>1 DEF Start, WorkersOK
      <3>2. CASE v # w
        <4>1. pc'[v] = pc[v] /\ cmd'[v] = cmd[v]
          BY <1>2, <3>2 DEF Start, WorkersOK
        <4> QED
          BY <4>1 DEF WorkersOK
      <3> QED
        BY <3>1, <3>2
    <2>3. \A v \in Worker : pc'[v] = "idle" => todo'[v] = {} /\ holds'[v] = {} /\ seen'[v] = {}
      BY <1>2, <2>1 DEF Start, WorkersOK
    <2>4. commands' \in 0..MaxCommands /\ faults' \in 0..MaxFaults
      BY <1>2, CompanyAssumption DEF Start, WorkersOK, CompanyAssumption
    <2>5. pc' \in [Worker -> {"idle", "file", "claims", "write"}] /\ cmd' \in [Worker -> Command \union {NoCommand}]
      BY <1>2, <2>1 DEF Start, WorkersOK
    <2>6. DOMAIN todo' = Worker /\ DOMAIN holds' = Worker /\ DOMAIN seen' = Worker
      BY <1>2 DEF Start, WorkersOK
    <2> QED
      BY <2>2, <2>3, <2>4, <2>5, <2>6 DEF WorkersOK
  <1>3. CASE Lock(w)
    <2>1. pc[w] # "idle"
      BY <1>3, NextIsTodo DEF Lock
    <2>2. \A v \in Worker : pc[v] = "idle" => todo'[v] = {} /\ holds'[v] = {} /\ seen'[v] = {}
      BY <1>3, <2>1 DEF Lock, WorkersOK
    <2>3. DOMAIN todo' = Worker /\ DOMAIN holds' = Worker /\ UNCHANGED <<pc, cmd, seen, commands, faults>>
      BY <1>3 DEF Lock, WorkersOK
    <2> QED
      BY <2>2, <2>3 DEF WorkersOK
  <1>4. CASE Proceed(w)
    <2>1. pc[w] \in {"file", "claims"} /\ cmd[w] \in Command /\ pc[w] \in Places(cmd[w].kind)
      BY <1>4 DEF Proceed, Locked, WorkersOK
    <2>2. PICK next : next = NextStage(cmd[w], pc[w])
      OBVIOUS
    <2>3. next \in {"claims", "write"} /\ next \in Places(cmd[w].kind)
      BY <2>1, <2>2, StagesFit
    <2>4. pc' = [pc EXCEPT ![w] = next] /\ cmd' = cmd
      BY <1>4, <2>2 DEF Proceed
    <2>5. \A v \in Worker : pc'[v] # "idle" => cmd'[v] \in Command /\ pc'[v] \in Places(cmd'[v].kind)
      BY <2>1, <2>3, <2>4 DEF WorkersOK
    <2>6. \A v \in Worker : pc'[v] = "idle" => todo'[v] = {} /\ holds'[v] = {} /\ seen'[v] = {}
      <3> TAKE v \in Worker
      <3>1. CASE v = w
        BY <2>3, <2>4, <3>1 DEF WorkersOK
      <3>2. CASE v # w
        <4>1. Stands(v)
          BY <3>2, OthersStand
        <4> QED
          BY <4>1 DEF Stands, WorkersOK
      <3> QED
        BY <3>1, <3>2
    <2>7. DOMAIN todo' = Worker /\ DOMAIN holds' = Worker /\ DOMAIN seen' = Worker
          /\ UNCHANGED <<commands, faults>>
      BY <1>4 DEF Proceed, WorkersOK
    <2>8. pc' \in [Worker -> {"idle", "file", "claims", "write"}]
      BY <2>3, <2>4 DEF WorkersOK
    <2> QED
      BY <2>4, <2>5, <2>6, <2>7, <2>8 DEF WorkersOK
  <1>5. Writes(w) \/ Refuse(w) \/ DeadlockVictim(w) => faults' \in 0..MaxFaults
    BY Endings DEF WorkersOK, Refuse, DeadlockVictim
  <1>6. RollBack(w) => faults' \in 0..MaxFaults
    BY CompanyAssumption DEF CompanyAssumption, WorkersOK, RollBack
  <1> QED
    BY <1>1, <1>2, <1>3, <1>4, <1>5, <1>6, Endings DEF Moves

LEMMA LocksKept ==
    ASSUME WorkersOK, LocksTaken, NEW w \in Worker, Moves(w)
    PROVE  LocksTaken'
  <1> SUFFICES ASSUME NEW v \in Worker, pc'[v] # "idle"
               PROVE  LET now == Locks(cmd'[v], pc'[v])
                      IN /\ todo'[v] \subseteq now
                         /\ holds'[v] = Earlier(cmd'[v], pc'[v]) \union (now \ todo'[v])
                         /\ \A l \in now \ todo'[v], m \in todo'[v] : l.rank <= m.rank
    BY Zenon DEF LocksTaken
  <1>1. CASE v # w
    <2>1. Stands(v)
      BY <1>1, OthersStand
    <2> QED
      BY <2>1 DEF Stands, LocksTaken
  <1>2. ASSUME v = w, NEW c \in Command, Start(w, c)
        PROVE  LET now == Locks(cmd'[v], pc'[v])
               IN /\ todo'[v] \subseteq now
                  /\ holds'[v] = Earlier(cmd'[v], pc'[v]) \union (now \ todo'[v])
                  /\ \A l \in now \ todo'[v], m \in todo'[v] : l.rank <= m.rank
    <2>1. /\ cmd'[w] = c /\ pc'[w] = FirstStage(c) /\ todo'[w] = Locks(c, FirstStage(c))
          /\ holds'[w] = {}
      BY <1>2 DEF Start, WorkersOK
    <2>2. Earlier(c, FirstStage(c)) = {}
      BY StagesFit
    <2> QED
      BY <1>2, <2>1, <2>2
  <1>3. CASE v = w /\ Lock(w)
    <2>1. PICK l : l = NextLock(w)
      OBVIOUS
    <2>2. l \in todo[w] /\ \A m \in todo[w] : l.rank <= m.rank
      BY <1>3, <2>1, NextIsTodo DEF Lock
    <2>3. /\ cmd'[w] = cmd[w] /\ pc'[w] = pc[w]
          /\ todo'[w] = todo[w] \ {l} /\ holds'[w] = holds[w] \union {l}
      BY <1>3, <2>1 DEF Lock, WorkersOK
    <2> QED
      BY <1>3, <2>2, <2>3 DEF LocksTaken
  <1>4. CASE v = w /\ Proceed(w)
    <2>1. PICK next : next = NextStage(cmd[w], pc[w])
      OBVIOUS
    <2>2. cmd'[w] = cmd[w] /\ pc'[w] = next /\ todo'[w] = Locks(cmd[w], next) /\ holds'[w] = holds[w]
      BY <1>4, <2>1 DEF Proceed, WorkersOK
    <2>3. pc[w] \in {"file", "claims"} /\ cmd[w] \in Command /\ pc[w] \in Places(cmd[w].kind) /\ todo[w] = {}
      BY <1>4 DEF Proceed, Locked, WorkersOK
    <2>4. Earlier(cmd[w], next) = Earlier(cmd[w], pc[w]) \union Locks(cmd[w], pc[w])
      BY <2>1, <2>3, StagesFit
    <2>5. holds[w] = Earlier(cmd[w], next)
      BY <2>3, <2>4 DEF LocksTaken
    <2> QED
      BY <1>4, <2>2, <2>5
  <1>5. CASE v = w /\ End(w)
    BY <1>5 DEF End, WorkersOK
  <1> QED
    BY <1>1, <1>2, <1>3, <1>4, <1>5, Endings DEF Moves

LEMMA ExclusiveKept ==
    ASSUME WorkersOK, LocksTaken, Exclusive, NEW w \in Worker, Moves(w)
    PROVE  Exclusive'
  <1>1. CASE Lock(w)
    <2>1. PICK k : k = NextLock(w)
      OBVIOUS
    <2>2. \A v \in Worker : holds'[v] = IF v = w THEN holds[w] \union {k} ELSE holds[v]
      BY <1>1, <2>1 DEF Lock, WorkersOK
    <2>3. \A v \in Worker : \A l \in holds[v] : v # w /\ l.row = k.row => l.shared /\ k.shared
      BY <1>1, <2>1 DEF Lock, Waits
    <2> QED
      BY <2>2, <2>3 DEF Exclusive
  <1>2. ASSUME \A v \in Worker : holds'[v] \subseteq holds[v]
        PROVE  Exclusive'
    BY <1>2 DEF Exclusive
  <1>3. ~Lock(w) => \A v \in Worker : holds'[v] \subseteq holds[v]
    <2>1. End(w) => \A v \in Worker : holds'[v] \subseteq holds[v]
      BY DEF End, WorkersOK
    <2>2. Proceed(w) \/ (\E c \in Command : Start(w, c)) => holds' = holds
      BY DEF Proceed, Start
    <2> QED
      BY <2>1, <2>2, Endings DEF Moves
  <1> QED
    BY <1>1, <1>2, <1>3

---------------------------------------------------------------------------
(* What a command may count on.                                            *)

LEMMA Holding ==
    ASSUME WorkersOK, LocksTaken, NEW w \in Worker, NEW c \in Command, cmd[w] = c, pc[w] # "idle"
    PROVE  /\ c.kind = "open" /\ pc[w] = "write" => At(0, PoolRow(c.file)) \in holds[w]
           /\ c.kind = "research" /\ pc[w] = "write" => At(1, FileRow(c.file)) \in holds[w]
           /\ c.kind \in Layers /\ pc[w] \in {"claims", "write"} => At(1, FileRow(c.file)) \in holds[w]
           /\ c.kind \in Layers /\ pc[w] = "write" => \A k \in c.claims : At(k, ClaimRow(k)) \in holds[w]
           /\ c.kind = "link" /\ pc[w] = "write" => At(c.claim, ClaimRow(c.claim)) \in holds[w]
  <1>1. Earlier(c, pc[w]) \subseteq holds[w]
    BY DEF LocksTaken
  <1>2. CASE c.kind = "open"
    BY <1>1, <1>2, LocksOf DEF Earlier, Layers
  <1>3. CASE c.kind = "research"
    BY <1>1, <1>3, LocksOf DEF Earlier, Layers
  <1>4. CASE c.kind \in Layers
    BY <1>1, <1>4, LocksOf DEF Earlier, Layers, ClaimLocks
  <1>5. CASE c.kind = "link"
    BY <1>1, <1>5, LocksOf DEF Earlier, Layers
  <1> QED
    BY <1>2, <1>3, <1>4, <1>5

LEMMA NotBoth ==
    ASSUME Exclusive, NEW v \in Worker, NEW w \in Worker, v # w, NEW a, NEW b, NEW row,
           At(a, row) \in holds[v], At(b, row) \in holds[w]
    PROVE  FALSE
  BY DEF Exclusive, At

LEMMA FileRows ==
    ASSUME NEW f, NEW g, FileRow(f) = FileRow(g) \/ ClaimRow(f) = ClaimRow(g)
    PROVE  f = g
  BY DEF FileRow, ClaimRow

LEMMA SameFinite ==
    ASSUME NumbersOK, NEW kind, NEW f, NEW key
    PROVE  IsFiniteSet(RevisionsOf(kind, f, key)) /\ Cardinality(RevisionsOf(kind, f, key)) \in Nat
  <1>1. IsFiniteSet(RevisionsOf(kind, f, key))
    <2>1. CASE RevisionsOf(kind, f, key) = {}
      BY <2>1, FS_EmptySet
    <2>2. ASSUME NEW r \in RevisionsOf(kind, f, key)
          PROVE  IsFiniteSet(RevisionsOf(kind, f, key))
      <3>1. r \in revisions /\ r.kind = kind /\ r.file = f /\ r.key = key
        BY <2>2 DEF RevisionsOf
      <3> QED
        BY <3>1 DEF NumbersOK
    <2> QED
      BY <2>1, <2>2
  <1> QED
    BY <1>1, FS_CardinalityType

(* The revision that a command adds.                                       *)
NewRevision(w) ==
    LET c == cmd[w]
    IN IF c.kind = "open" THEN ResearchRevision(c.file, 1, {}, "insufficient", c.at)
       ELSE IF c.kind = "research"
       THEN ResearchRevision(c.file, NextNumber("research", c.file, 0), c.rests, c.status, c.at)
       ELSE [kind |-> c.kind, file |-> c.file, key |-> c.key, no |-> NextNumber(c.kind, c.file, c.key),
             status |-> c.status, at |-> c.at, rests |-> c.rests, claims |-> c.claims, evidence |-> seen[w]]

Adds(w) == CreateCompanyResearch(w) \/ AppendResearchRevision(w) \/ InsertLayer(w)

LEMMA Adding ==
    ASSUME NEW w \in Worker, Adds(w)
    PROVE  /\ revisions' = revisions \union {NewRevision(w)} /\ links' = links /\ pc[w] = "write"
           /\ cmd[w].kind \in {"open", "research"} \union Layers
           /\ cmd[w].kind # "open" => files' = files
           /\ cmd[w].kind = "open" => files' = files \union {FirstFile(cmd[w].file, cmd[w].at)}
  <1>1. CASE CreateCompanyResearch(w)
    BY <1>1 DEF CreateCompanyResearch, Writing, NewRevision
  <1>2. CASE AppendResearchRevision(w)
    BY <1>2 DEF AppendResearchRevision, Writing, NewRevision
  <1>3. CASE InsertLayer(w)
    BY <1>3 DEF InsertLayer, Writing, NewRevision, Layers
  <1> QED
    BY <1>1, <1>2, <1>3 DEF Adds

LEMMA EvidenceIsLinked ==
    ASSUME RevisionsOK, links \subseteq Link, NEW c \in Command, c.kind \in Layers
    PROVE  EvidenceFor(c) \subseteq links
  <1>1. \A claims, at : Visible(claims, at) \subseteq links
    BY DEF Visible
  <1>2. \A s \in Part(c.rests, "snapshot") : s.evidence \subseteq links
    BY DEF Part, Revisions, RevisionsOK
  <1> QED
    BY <1>1, <1>2 DEF EvidenceFor

(* What the checks of the command say of it.                               *)
LEMMA NewIsSound ==
    ASSUME RowsOK, WorkersOK, StillChecked, NEW w \in Worker, Adds(w), NEW r, r = NewRevision(w)
    PROVE  /\ r \in Revision /\ r.file = cmd[w].file /\ r.rests \subseteq Refs /\ r.evidence \subseteq links
           /\ r.kind = "research" => r.key = 0
           /\ r.no = Cardinality(RevisionsOf(r.kind, r.file, r.key)) + 1
           /\ \A q \in revisions : RefOf(q) # RefOf(r)
           /\ cmd[w].kind = "open" <=> ~Opened(r.file)
  <1>1. PICK c \in Command : c = cmd[w]
    BY Adding DEF WorkersOK
  <1>2. pc[w] = "write" /\ c.kind \in {"open", "research"} \union Layers
    BY <1>1, Adding
  <1>3. /\ r \in Revision /\ r.file = c.file /\ r.rests \subseteq Refs /\ r.evidence \subseteq links
        /\ r.kind = "research" => r.key = 0
        /\ r.no = Cardinality(RevisionsOf(r.kind, r.file, r.key)) + 1 /\ (c.kind = "open" <=> ~Opened(c.file))
    <2>1. CASE c.kind = "open"
      <3>1. ~Opened(c.file) /\ c \in OpenCommand
        BY <1>1, <1>2, <2>1, CommandTypes DEF StillChecked, Checked, Passes, Exists, Layers
      <3>2. r = ResearchRevision(c.file, 1, {}, "insufficient", c.at)
        BY <1>1, <2>1 DEF NewRevision
      <3>3. r \in Revision /\ r.file = c.file /\ r.rests = {} /\ r.evidence = {} /\ r.no = 1 /\ r.key = 0
        BY <3>1, <3>2 DEF Revision, ResearchRevision, OpenCommand
      <3>4. RevisionsOf(r.kind, r.file, r.key) = {}
        BY <3>1, <3>3 DEF RevisionsOf, RowsOK, FilesOK
      <3> QED
        BY <2>1, <3>1, <3>3, <3>4, FS_EmptySet
    <2>2. CASE c.kind = "research"
      <3>1. Opened(c.file) /\ RestsInFile(c) /\ c \in ResearchCommand
        BY <1>1, <1>2, <2>2, CommandTypes DEF StillChecked, Checked, Passes, ResearchAllowed, Layers
      <3>2. PICK n : n = NextNumber("research", c.file, 0)
        OBVIOUS
      <3>3. n = Cardinality(RevisionsOf("research", c.file, 0)) + 1 /\ n \in Nat \ {0}
        BY <3>2, SameFinite DEF NextNumber, RowsOK
      <3>4. r = ResearchRevision(c.file, n, c.rests, c.status, c.at)
        BY <1>1, <2>2, <3>2 DEF NewRevision
      <3>5. r \in Revision
        BY <3>1, <3>3, <3>4 DEF Revision, ResearchRevision, ResearchCommand
      <3>6. r.file = c.file /\ r.rests = c.rests /\ r.evidence = {} /\ r.no = n /\ r.kind = "research" /\ r.key = 0
        BY <3>4 DEF ResearchRevision
      <3>7. c.rests \subseteq Refs
        BY <3>1 DEF RestsInFile, Revisions, Refs
      <3> QED
        BY <2>2, <3>1, <3>3, <3>5, <3>6, <3>7
    <2>3. CASE c.kind \in Layers
      <3>1. Opened(c.file) /\ BoundaryAllowed(c) /\ c \in LayerCommand /\ c.kind \in Layers
        BY <1>1, <1>2, <2>3, CommandTypes DEF StillChecked, Checked, Passes, Layers
      <3>2. PICK n : n = NextNumber(c.kind, c.file, c.key)
        OBVIOUS
      <3>3. n = Cardinality(RevisionsOf(c.kind, c.file, c.key)) + 1 /\ n \in Nat \ {0}
        BY <3>2, SameFinite DEF NextNumber, RowsOK
      <3>4. PICK e : e = seen[w]
        OBVIOUS
      <3>5. e \subseteq links /\ e \subseteq Link
        BY <1>1, <1>2, <2>3, <3>4, EvidenceIsLinked DEF StillChecked, Checked, RowsOK
      <3>6. r = [kind |-> c.kind, file |-> c.file, key |-> c.key, no |-> n, status |-> c.status, at |-> c.at,
                 rests |-> c.rests, claims |-> c.claims, evidence |-> e]
        BY <1>1, <2>3, <3>2, <3>4 DEF NewRevision, Layers
      <3>7. r \in Revision
        BY <3>1, <3>3, <3>5, <3>6 DEF Revision, LayerCommand
      <3>8. c.rests \subseteq Refs
        <4>1. CASE c.kind = "hypothesis"
          <5>1. \A q \in c.rests : q.kind \in {}
            BY <2>3, <4>1, CommandTypes DEF Below
          <5> QED
            BY <5>1
        <4>2. CASE c.kind # "hypothesis"
          BY <3>1, <4>2 DEF BoundaryAllowed, RestsInFile, Revisions, Refs
        <4> QED
          BY <4>1, <4>2
      <3>9. c.kind # "open"
        BY <2>3 DEF Layers
      <3>10. r.kind # "research"
        BY <2>3, <3>6 DEF Layers
      <3> QED
        BY <3>1, <3>3, <3>5, <3>6, <3>7, <3>8, <3>9, <3>10
    <2> QED
      BY <1>2, <2>1, <2>2, <2>3
  <1>4. ASSUME NEW q \in revisions, RefOf(q) = RefOf(r)
        PROVE  FALSE
    <2>1. q.kind = r.kind /\ q.file = r.file /\ q.key = r.key /\ q.no = r.no
      BY <1>4 DEF RefOf
    <2>2. q.no <= Cardinality(RevisionsOf(r.kind, r.file, r.key))
      BY <2>1 DEF RowsOK, NumbersOK
    <2>3. Cardinality(RevisionsOf(r.kind, r.file, r.key)) \in Nat
      BY SameFinite DEF RowsOK
    <2> QED
      BY <1>3, <2>1, <2>2, <2>3
  <1> QED
    BY <1>1, <1>3, <1>4

---------------------------------------------------------------------------
(* What a step leaves as it was.                                           *)

Grows(r) == r \in Revision /\ revisions' = revisions \union {r} /\ \A q \in revisions : RefOf(q) # RefOf(r)

LEMMA RevisionsGrow ==
    ASSUME RowsOK, WorkersOK, StillChecked, NEW w \in Worker, Moves(w)
    PROVE  revisions' = revisions \/ \E r : Grows(r)
  <1>1. CASE Adds(w)
    <2>1. PICK r : r = NewRevision(w)
      OBVIOUS
    <2> QED
      BY <1>1, <2>1, Adding, NewIsSound DEF Grows
  <1>2. ~Adds(w) => revisions' = revisions
    BY Endings DEF Moves, Writes, Adds, Start, Lock, Proceed, LinkEvidence, rows
  <1> QED
    BY <1>1, <1>2

(* Rows that are named stay the ones they are.                             *)
LEMMA NamedStay ==
    ASSUME revisions' = revisions \/ \E r : Grows(r), NEW refs, refs \subseteq Refs
    PROVE  Revisions(refs)' = Revisions(refs) /\ refs \subseteq Refs'
  <1>1. CASE revisions' = revisions
    BY <1>1 DEF Revisions, Refs
  <1>2. ASSUME NEW r, Grows(r)
        PROVE  Revisions(refs)' = Revisions(refs) /\ refs \subseteq Refs'
    <2>1. RefOf(r) \notin refs
      BY <1>2 DEF Grows, Refs
    <2>2. Revisions(refs)' = {q \in revisions' : RefOf(q) \in refs}
      BY DEF Revisions, RefOf
    <2>3. Revisions(refs)' = Revisions(refs)
      BY <1>2, <2>1, <2>2 DEF Grows, Revisions
    <2>4. Refs' = {RefOf(q) : q \in revisions'}
      BY DEF Refs, RefOf
    <2> QED
      BY <1>2, <2>3, <2>4 DEF Grows, Refs
  <1> QED
    BY <1>1, <1>2

LEMMA PartsStay ==
    ASSUME NEW refs, Revisions(refs)' = Revisions(refs)
    PROVE  \A kind : Part(refs, kind)' = Part(refs, kind)
  BY DEF Part

(* The rows of a file stay while another command holds the file.            *)
LEMMA FilesStay ==
    ASSUME RowsOK, WorkersOK, LocksTaken, Exclusive, StillChecked, NEW w \in Worker, Moves(w),
           NEW v \in Worker, v # w, NEW f, At(1, FileRow(f)) \in holds[v], Opened(f)
    PROVE  /\ \A x : x.file = f => (x \in files' <=> x \in files)
           /\ \A r : r.file = f => (r \in revisions' <=> r \in revisions)
  <1>1. CASE Adds(w)
    <2>1. PICK c \in Command : c = cmd[w]
      BY <1>1, Adding DEF WorkersOK
    <2>2. PICK r : r = NewRevision(w)
      OBVIOUS
    <2>3. /\ revisions' = revisions \union {r} /\ r.file = c.file /\ (c.kind = "open" <=> ~Opened(c.file))
          /\ c.kind \in {"open", "research"} \union Layers /\ pc[w] = "write"
          /\ c.kind # "open" => files' = files
          /\ c.kind = "open" => files' = files \union {FirstFile(c.file, c.at)}
      BY <1>1, <2>1, <2>2, Adding, NewIsSound
    <2>4. c.file # f
      <3>1. CASE c.kind = "open"
        BY <2>3, <3>1
      <3>2. CASE c.kind # "open"
        <4>1. At(1, FileRow(c.file)) \in holds[w]
          BY <2>1, <2>3, <3>2, Holding
        <4> QED
          BY <4>1, NotBoth
      <3> QED
        BY <3>1, <3>2
    <2>5. FirstFile(c.file, c.at).file = c.file
      BY DEF FirstFile
    <2> QED
      BY <2>3, <2>4, <2>5
  <1>2. ~Adds(w) => files' = files /\ revisions' = revisions
    BY Endings DEF Moves, Writes, Adds, Start, Lock, Proceed, LinkEvidence, rows
  <1> QED
    BY <1>1, <1>2

(* And the links of a claim while another command holds the claim.          *)
LEMMA LinksStay ==
    ASSUME WorkersOK, LocksTaken, Exclusive, NEW w \in Worker, Moves(w),
           NEW v \in Worker, v # w, NEW k, At(k, ClaimRow(k)) \in holds[v]
    PROVE  \A l : l.claim = k => (l \in links' <=> l \in links)
  <1>1. CASE LinkEvidence(w)
    <2>1. PICK c \in Command : c = cmd[w]
      BY <1>1 DEF LinkEvidence, Writing, WorkersOK
    <2>2. c.kind = "link" /\ pc[w] = "write"
          /\ links' = links \union {[claim |-> c.claim, evidence |-> c.evidence, at |-> c.at]}
      BY <1>1, <2>1 DEF LinkEvidence, Writing
    <2>3. At(c.claim, ClaimRow(c.claim)) \in holds[w]
      BY <2>1, <2>2, Holding
    <2>4. c.claim # k
      BY <2>3, NotBoth
    <2> QED
      BY <2>2, <2>4
  <1>2. ~LinkEvidence(w) => links' = links
    BY Endings, Adding DEF Moves, Writes, Adds, Start, Lock, Proceed, rows
  <1> QED
    BY <1>1, <1>2

(* What was handed off was frozen: no evidence is linked at or before it.    *)
LEMMA HandedOffStays ==
    ASSUME WorkersOK, StillChecked, NEW w \in Worker, Moves(w)
    PROVE  HandedOff' = HandedOff
  <1>1. CASE LinkEvidence(w)
    <2>1. PICK c \in Command : c = cmd[w]
      BY <1>1 DEF LinkEvidence, Writing, WorkersOK
    <2>2. c.kind = "link" /\ pc[w] = "write"
          /\ links' = links \union {[claim |-> c.claim, evidence |-> c.evidence, at |-> c.at]}
      BY <1>1, <2>1 DEF LinkEvidence, Writing
    <2>3. LinkAllowed(c)
      BY <2>1, <2>2 DEF StillChecked, Checked, Passes, Layers
    <2>4. c.claim \in HandoffClaims => ~(c.at <= HandoffAt)
      <3>1. c.at \in Nat /\ HandoffAt \in Nat
        BY <2>2, CommandTypes, CompanyAssumption DEF LinkCommand, CompanyAssumption
      <3> QED
        BY <2>3, <3>1 DEF LinkAllowed
    <2> QED
      BY <2>2, <2>4 DEF HandedOff, Visible
  <1>2. ~LinkEvidence(w) => links' = links
    BY Endings, Adding DEF Moves, Writes, Adds, Start, Lock, Proceed, rows
  <1>3. links' = links => HandedOff' = HandedOff
    BY DEF HandedOff, Visible
  <1> QED
    BY <1>1, <1>2, <1>3

---------------------------------------------------------------------------
(* The chains of what rests on what.                                       *)

Layered(r) == r.kind \in {"snapshot", "assessment", "judgment"}

ChainOK(r) ==
    /\ \A q \in Revisions(r.rests) : q.kind # "research" => q.file = r.file /\ q.at <= r.at
    /\ Layered(r) =>
           /\ \A q \in Revisions(r.rests) : q.kind # "research" => Accepted(q)
           /\ \E base \in Revisions(r.rests) :
                  /\ base.kind = "research" /\ base.file = r.file /\ base.at <= r.at
                  /\ \A q \in Part(r.rests, "hypothesis") : RefOf(q) \in base.rests
                  /\ \A q \in Part(r.rests, "snapshot") \union Part(r.rests, "assessment") : RefOf(base) \in q.rests
           /\ r.claims \subseteq ClaimsOf(Part(r.rests, "hypothesis"))
    /\ r.kind \in {"assessment", "judgment"} =>
           r.evidence \subseteq UNION {q.evidence : q \in Part(r.rests, "snapshot")}
    /\ \A a \in Part(r.rests, "assessment") : r.claims = a.claims /\ r.evidence = a.evidence

AllChains == \A r \in revisions : ChainOK(r)

LEMMA ChainsInParts == ChainsAreAccepted <=> AllChains
  <1> DEFINE below(r) == Revisions(r.rests) \ Part(r.rests, "research")
             Lower(r, kinds) == {q \in below(r) : q.kind \in kinds}
  <1>1. ASSUME NEW r
        PROVE  /\ Lower(r, {"hypothesis"}) = Part(r.rests, "hypothesis")
               /\ Lower(r, {"snapshot"}) = Part(r.rests, "snapshot")
               /\ Lower(r, {"assessment"}) = Part(r.rests, "assessment")
               /\ Lower(r, {"snapshot", "assessment"}) = Part(r.rests, "snapshot") \union Part(r.rests, "assessment")
               /\ \A q : q \in below(r) <=> q \in Revisions(r.rests) /\ q.kind # "research"
    BY DEF Part
  <1>2. ChainsAreAccepted <=>
          \A r \in revisions :
             /\ \A q \in below(r) : q.file = r.file /\ q.at <= r.at
             /\ r.kind \in {"snapshot", "assessment", "judgment"} =>
                    /\ \A q \in below(r) : Accepted(q)
                    /\ \E base \in Revisions(r.rests) :
                           /\ base.kind = "research" /\ base.file = r.file /\ base.at <= r.at
                           /\ {RefOf(q) : q \in Lower(r, {"hypothesis"})} \subseteq base.rests
                           /\ \A q \in Lower(r, {"snapshot", "assessment"}) : RefOf(base) \in q.rests
                    /\ r.claims \subseteq ClaimsOf(Lower(r, {"hypothesis"}))
             /\ r.kind \in {"assessment", "judgment"} =>
                    r.evidence \subseteq UNION {q.evidence : q \in Lower(r, {"snapshot"})}
             /\ \A a \in Lower(r, {"assessment"}) : r.claims = a.claims /\ r.evidence = a.evidence
    BY Zenon DEF ChainsAreAccepted
  <1> HIDE DEF below, Lower
  <1>3. ASSUME NEW r
        PROVE  /\ (\A q \in below(r) : q.file = r.file /\ q.at <= r.at)
                      <=> \A q \in Revisions(r.rests) : q.kind # "research" => q.file = r.file /\ q.at <= r.at
               /\ (\A q \in below(r) : Accepted(q))
                      <=> \A q \in Revisions(r.rests) : q.kind # "research" => Accepted(q)
               /\ \A base : {RefOf(q) : q \in Lower(r, {"hypothesis"})} \subseteq base.rests
                      <=> \A q \in Part(r.rests, "hypothesis") : RefOf(q) \in base.rests
    BY <1>1
  <1>4. ASSUME NEW r
        PROVE  /\ ClaimsOf(Lower(r, {"hypothesis"})) = ClaimsOf(Part(r.rests, "hypothesis"))
               /\ UNION {q.evidence : q \in Lower(r, {"snapshot"})} = UNION {q.evidence : q \in Part(r.rests, "snapshot")}
    BY <1>1
  <1>5. ASSUME NEW r
        PROVE  (\E base \in Revisions(r.rests) :
                    /\ base.kind = "research" /\ base.file = r.file /\ base.at <= r.at
                    /\ {RefOf(q) : q \in Lower(r, {"hypothesis"})} \subseteq base.rests
                    /\ \A q \in Lower(r, {"snapshot", "assessment"}) : RefOf(base) \in q.rests)
               <=> \E base \in Revisions(r.rests) :
                    /\ base.kind = "research" /\ base.file = r.file /\ base.at <= r.at
                    /\ \A q \in Part(r.rests, "hypothesis") : RefOf(q) \in base.rests
                    /\ \A q \in Part(r.rests, "snapshot") \union Part(r.rests, "assessment") : RefOf(base) \in q.rests
    BY Zenon, <1>1, <1>3
  <1>6. ASSUME NEW r
        PROVE  (\A a \in Lower(r, {"assessment"}) : r.claims = a.claims /\ r.evidence = a.evidence)
               <=> \A a \in Part(r.rests, "assessment") : r.claims = a.claims /\ r.evidence = a.evidence
    BY <1>1
  <1> QED
    BY Zenon, <1>2, <1>3, <1>4, <1>5, <1>6 DEF AllChains, ChainOK, Layered

LEMMA ChainStays ==
    ASSUME NEW r, Revisions(r.rests)' = Revisions(r.rests), ChainOK(r)
    PROVE  ChainOK(r)'
  <1>1. \A kind : Part(r.rests, kind)' = Part(r.rests, kind)
    BY PartsStay
  <1> QED
    BY <1>1 DEF ChainOK, Layered, Accepted, ClaimsOf, RefOf

LEMMA BaseIsOne ==
    ASSUME RowsOK, NEW c, RestsInFile(c), OneBase(c)
    PROVE  \E b : Part(c.rests, "research") = {b} /\ BaseOf(c) = b
  <1>1. Part(c.rests, "research") \subseteq RevisionsOf("research", c.file, 0)
    BY DEF Part, Revisions, RevisionsOf, RestsInFile, RowsOK, RevisionsOK
  <1>2. IsFiniteSet(Part(c.rests, "research"))
    BY <1>1, SameFinite, FS_Subset DEF RowsOK
  <1>3. PICK b : Part(c.rests, "research") = {b}
    BY <1>2, FS_Singleton DEF OneBase
  <1>4. BaseOf(c) = b
    BY <1>3 DEF BaseOf
  <1> QED
    BY <1>3, <1>4

LEMMA NewChain ==
    ASSUME RowsOK, WorkersOK, StillChecked, NEW w \in Worker, Adds(w), NEW r, r = NewRevision(w)
    PROVE  ChainOK(r)
  <1>1. PICK c \in Command : c = cmd[w]
    BY Adding DEF WorkersOK
  <1>2. pc[w] = "write" /\ c.kind \in {"open", "research"} \union Layers
    BY <1>1, Adding
  <1>3. CASE c.kind = "open"
    <2>1. r.rests = {} /\ r.kind = "research"
      BY <1>1, <1>3 DEF NewRevision, ResearchRevision
    <2>2. Revisions(r.rests) = {}
      BY <2>1 DEF Revisions
    <2> QED
      BY <2>1, <2>2 DEF ChainOK, Layered, Part
  <1>4. CASE c.kind = "research"
    <2>1. r.rests = c.rests /\ r.kind = "research" /\ r.file = c.file /\ r.at = c.at
      BY <1>1, <1>4 DEF NewRevision, ResearchRevision
    <2>2. ResearchAllowed(c)
      BY <1>1, <1>2, <1>4 DEF StillChecked, Checked, Passes, Layers
    <2>3. \A q \in Revisions(c.rests) : q.file = c.file /\ q.at <= c.at /\ q.kind = "hypothesis"
      BY <2>2 DEF ResearchAllowed, RestsInFile
    <2>4. Part(r.rests, "assessment") = {}
      BY <2>1, <2>3 DEF Part
    <2> QED
      BY <2>1, <2>3, <2>4 DEF ChainOK, Layered
  <1>5. CASE c.kind \in Layers
    <2>1. /\ r.rests = c.rests /\ r.kind = c.kind /\ r.file = c.file /\ r.at = c.at /\ r.claims = c.claims
          /\ r.evidence = seen[w]
      BY <1>1, <1>5 DEF NewRevision, Layers
    <2>2. BoundaryAllowed(c) /\ LayerAllowed(c) /\ r.evidence = EvidenceFor(c)
      BY <1>1, <1>2, <1>5, <2>1 DEF StillChecked, Checked, Passes, Layers
    <2>3. \A q \in Revisions(c.rests) : q.kind \in Below(c.kind)
      BY <1>5, CommandTypes DEF Revisions, RefOf
    <2>4. CASE c.kind = "hypothesis"
      <3>1. Revisions(c.rests) = {}
        BY <2>3, <2>4 DEF Below
      <3> QED
        BY <2>1, <2>4, <3>1 DEF ChainOK, Layered, Part
    <2>5. CASE c.kind # "hypothesis"
      <3>1. RestsInFile(c) /\ OneBase(c) /\ HypothesesFrozen(c)
            /\ (c.kind \in {"assessment", "judgment"} => SnapshotsMatch(c))
        BY <2>2, <2>5 DEF BoundaryAllowed
      <3>2. PICK b : Part(c.rests, "research") = {b} /\ BaseOf(c) = b
        BY <3>1, BaseIsOne
      <3>3. b \in Revisions(c.rests) /\ b.kind = "research" /\ RefOf(b) \in c.rests
        BY <3>2 DEF Part, Revisions
      <3>4. \A q \in Revisions(c.rests) : q.file = c.file /\ q.at <= c.at
        BY <3>1 DEF RestsInFile
      <3>5. \A h \in Part(c.rests, "hypothesis") : Accepted(h) /\ RefOf(h) \in b.rests
        BY <3>1, <3>2 DEF HypothesesFrozen
      <3>6. c.kind = "snapshot" => Part(c.rests, "snapshot") = {} /\ Part(c.rests, "assessment") = {}
        BY <2>3 DEF Below, Part
      <3>7. c.kind = "assessment" => Part(c.rests, "assessment") = {}
        BY <2>3 DEF Below, Part
      <3>8. \A s \in Part(c.rests, "snapshot") : Accepted(s) /\ RefOf(b) \in s.rests
        BY <1>5, <2>5, <3>1, <3>2, <3>6 DEF SnapshotsMatch, Layers
      <3>9. \A a \in Part(c.rests, "assessment") :
                /\ Accepted(a) /\ a.rests = {q \in c.rests : q.kind # "assessment"}
                /\ a.claims = c.claims /\ a.evidence = EvidenceFor(c)
        BY <1>5, <2>2, <2>5, <3>6, <3>7 DEF LayerAllowed, AssessmentsMatch, Layers
      <3>10. \A a \in Part(c.rests, "assessment") : RefOf(b) \in a.rests
        BY <3>3, <3>9 DEF RefOf
      <3>11. \A q \in Revisions(c.rests) : q.kind # "research" => Accepted(q)
        <4>1. \A q \in Revisions(c.rests) : q.kind \in {"research", "hypothesis", "snapshot", "assessment"}
          BY <1>5, <2>3 DEF Below, Layers
        <4> QED
          BY <3>5, <3>8, <3>9, <4>1 DEF Part
      <3>12. c.claims \subseteq ClaimsOf(Part(c.rests, "hypothesis"))
        <4>1. CASE c.kind = "snapshot"
          BY <2>2, <4>1 DEF LayerAllowed
        <4>2. CASE c.kind \in {"assessment", "judgment"}
          <5>1. c.claims \subseteq ClaimsOf(Part(c.rests, "snapshot"))
            BY <2>2, <4>2 DEF LayerAllowed
          <5>2. UNION {Part(s.rests, "hypothesis") : s \in Part(c.rests, "snapshot")} = Part(c.rests, "hypothesis")
            BY <3>1, <4>2 DEF SnapshotsMatch
          <5>3. ASSUME NEW k \in c.claims
                PROVE  k \in ClaimsOf(Part(c.rests, "hypothesis"))
            <6>1. PICK s \in Part(c.rests, "snapshot") : k \in s.claims
              BY <5>1 DEF ClaimsOf
            <6>2. s \in revisions /\ s.kind = "snapshot"
              BY DEF Part, Revisions
            <6>3. s.claims \subseteq ClaimsOf(Part(s.rests, "hypothesis"))
              BY <6>2, ChainsInParts DEF RowsOK, AllChains, ChainOK, Layered
            <6>4. PICK h \in Part(s.rests, "hypothesis") : k \in h.claims
              BY <6>1, <6>3 DEF ClaimsOf
            <6>5. h \in Part(c.rests, "hypothesis")
              BY <5>2
            <6> QED
              BY <6>4, <6>5 DEF ClaimsOf
          <5> QED
            BY <5>3
        <4> QED
          BY <1>5, <2>5, <4>1, <4>2 DEF Layers
      <3>13. c.kind \in {"assessment", "judgment"} =>
                 r.evidence \subseteq UNION {q.evidence : q \in Part(c.rests, "snapshot")}
        BY <2>2 DEF EvidenceFor
      <3> QED
        BY <2>1, <2>2, <3>3, <3>4, <3>5, <3>8, <3>9, <3>10, <3>11, <3>12, <3>13 DEF ChainOK
    <2> QED
      BY <2>4, <2>5
  <1> QED
    BY <1>2, <1>3, <1>4, <1>5

---------------------------------------------------------------------------
(* The rows.                                                               *)

LEMMA NumbersGrow ==
    ASSUME RowsOK, NEW r, Grows(r), r.no = Cardinality(RevisionsOf(r.kind, r.file, r.key)) + 1
    PROVE  NumbersOK'
  <1> SUFFICES ASSUME NEW q \in revisions'
               PROVE  /\ IsFiniteSet(RevisionsOf(q.kind, q.file, q.key)')
                      /\ q.no <= Cardinality(RevisionsOf(q.kind, q.file, q.key)')
    BY DEF NumbersOK, RevisionsOf
  <1>1. PICK S : S = RevisionsOf(q.kind, q.file, q.key)
    OBVIOUS
  <1>2. IsFiniteSet(S) /\ Cardinality(S) \in Nat
    BY <1>1, SameFinite DEF RowsOK
  <1>3. CASE r.kind = q.kind /\ r.file = q.file /\ r.key = q.key
    <2>1. RevisionsOf(q.kind, q.file, q.key)' = S \union {r}
      BY <1>1, <1>3 DEF RevisionsOf, Grows
    <2>2. r \notin S
      BY <1>1 DEF Grows, RevisionsOf
    <2>3. IsFiniteSet(S \union {r}) /\ Cardinality(S \union {r}) = Cardinality(S) + 1
      BY <1>2, <2>2, FS_AddElement
    <2>4. r.no = Cardinality(S) + 1
      BY <1>1, <1>3
    <2>5. q = r \/ (q \in revisions /\ q.no <= Cardinality(S) /\ q.no \in Nat)
      BY <1>1 DEF Grows, RowsOK, NumbersOK, RevisionsOK, Revision
    <2> QED
      BY <1>2, <2>1, <2>3, <2>4, <2>5
  <1>4. CASE ~(r.kind = q.kind /\ r.file = q.file /\ r.key = q.key)
    <2>1. RevisionsOf(q.kind, q.file, q.key)' = S
      BY <1>1, <1>4 DEF RevisionsOf, Grows
    <2>2. q \in revisions
      BY <1>4 DEF Grows
    <2>3. q.no <= Cardinality(S)
      BY <1>1, <2>2 DEF RowsOK, NumbersOK
    <2> QED
      BY <1>2, <2>1, <2>3
  <1> QED
    BY <1>3, <1>4

LEMMA LinksKept ==
    ASSUME RowsOK, WorkersOK, NEW w \in Worker, Moves(w)
    PROVE  links \subseteq links' /\ links' \subseteq Link
  <1>1. CASE LinkEvidence(w)
    <2>1. PICK c \in Command : c = cmd[w]
      BY <1>1 DEF LinkEvidence, Writing, WorkersOK
    <2>2. c \in LinkCommand
      BY <1>1, <2>1, CommandTypes DEF LinkEvidence, Writing
    <2>3. links' = links \union {[claim |-> c.claim, evidence |-> c.evidence, at |-> c.at]}
      BY <1>1, <2>1 DEF LinkEvidence
    <2>4. [claim |-> c.claim, evidence |-> c.evidence, at |-> c.at] \in Link
      BY <2>2 DEF Link, LinkCommand
    <2> QED
      BY <2>3, <2>4 DEF RowsOK
  <1>2. ~LinkEvidence(w) => links' = links
    BY Endings, Adding DEF Moves, Writes, Adds, Start, Lock, Proceed, rows
  <1> QED
    BY <1>1, <1>2 DEF RowsOK

LEMMA FilesKept ==
    ASSUME RowsOK, WorkersOK, StillChecked, NEW w \in Worker, Moves(w)
    PROVE  FilesOK'
  <1>1. HandedOff' = HandedOff
    BY HandedOffStays
  <1>2. CASE Adds(w)
    <2>1. PICK c \in Command : c = cmd[w]
      BY <1>2, Adding DEF WorkersOK
    <2>2. PICK r : r = NewRevision(w)
      OBVIOUS
    <2>3. /\ revisions' = revisions \union {r} /\ r.file = c.file /\ (c.kind = "open" <=> ~Opened(c.file))
          /\ c.kind # "open" => files' = files
          /\ c.kind = "open" => files' = files \union {FirstFile(c.file, c.at)}
      BY <1>2, <2>1, <2>2, Adding, NewIsSound
    <2>4. CASE c.kind = "open"
      <3>1. PICK x : x = FirstFile(c.file, c.at)
        OBVIOUS
      <3>2. HandedOff \subseteq Link
        BY DEF RowsOK, HandedOff, Visible
      <3>3. x = [file |-> c.file, at |-> c.at, evidence |-> HandedOff]
        BY <3>1 DEF FirstFile
      <3>4. x \in [file : File, at : Clock, evidence : SUBSET Link] /\ x.evidence = HandedOff /\ x.file = c.file
        BY <2>4, <3>2, <3>3, CommandTypes DEF OpenCommand
      <3>5. files' = files \union {x} /\ \A y \in files : y.file # x.file
        BY <2>3, <2>4, <3>1, <3>4 DEF Opened
      <3>6. \A q \in revisions' : \E y \in files' : y.file = q.file
        BY <2>3, <3>4, <3>5 DEF RowsOK, FilesOK, Opened
      <3> QED
        BY <1>1, <3>4, <3>5, <3>6 DEF RowsOK, FilesOK, Opened
    <2>5. CASE c.kind # "open"
      BY <1>1, <2>3, <2>5 DEF RowsOK, FilesOK, Opened
    <2> QED
      BY <2>4, <2>5
  <1>3. CASE ~Adds(w)
    <2>1. files' = files /\ revisions' = revisions
      BY <1>3, Endings DEF Moves, Writes, Adds, Start, Lock, Proceed, LinkEvidence, rows
    <2> QED
      BY <1>1, <2>1 DEF RowsOK, FilesOK, Opened
  <1> QED
    BY <1>2, <1>3

LEMMA RowsKept ==
    ASSUME RowsOK, WorkersOK, StillChecked, NEW w \in Worker, Moves(w)
    PROVE  RowsOK'
  <1>1. SeedLinks \subseteq links' /\ links' \subseteq Link /\ links \subseteq links'
    BY LinksKept DEF RowsOK
  <1>2. FilesOK'
    BY FilesKept
  <1>3. revisions' = revisions \/ \E r : Grows(r)
    BY RevisionsGrow
  <1>4. \A r \in revisions : Revisions(r.rests)' = Revisions(r.rests) /\ r.rests \subseteq Refs'
    BY <1>3, NamedStay DEF RowsOK, RevisionsOK
  <1>5. \A r \in revisions : ChainOK(r)'
    BY <1>4, ChainStays, ChainsInParts DEF RowsOK, AllChains
  <1>6. CASE Adds(w)
    <2>1. PICK r : r = NewRevision(w)
      OBVIOUS
    <2>2. /\ Grows(r) /\ r.rests \subseteq Refs /\ r.evidence \subseteq links /\ (r.kind = "research" => r.key = 0)
          /\ r.no = Cardinality(RevisionsOf(r.kind, r.file, r.key)) + 1
      BY <1>6, <2>1, Adding, NewIsSound DEF Grows
    <2>3. NumbersOK'
      BY <2>2, NumbersGrow
    <2>4. Revisions(r.rests)' = Revisions(r.rests) /\ r.rests \subseteq Refs'
      BY <2>2, NamedStay
    <2>5. ChainOK(r)'
      BY <1>6, <2>1, <2>4, NewChain, ChainStays
    <2>6. RevisionsOK'
      BY <1>1, <1>4, <2>2, <2>4 DEF RowsOK, RevisionsOK, Grows
    <2>7. AllChains'
      BY <1>5, <2>2, <2>5 DEF Grows, AllChains
    <2>8. ChainsAreAccepted'
      BY <2>7, ChainsInParts, PTL
    <2> QED
      BY <1>1, <1>2, <2>3, <2>6, <2>8 DEF RowsOK
  <1>7. CASE ~Adds(w)
    <2>1. revisions' = revisions
      BY <1>7, Endings DEF Moves, Writes, Adds, Start, Lock, Proceed, LinkEvidence, rows
    <2>2. NumbersOK'
      BY <2>1 DEF RowsOK, NumbersOK, RevisionsOf
    <2>3. RevisionsOK'
      BY <1>1, <1>4, <2>1 DEF RowsOK, RevisionsOK
    <2>4. AllChains'
      BY <1>5, <2>1 DEF AllChains
    <2>5. ChainsAreAccepted'
      BY <2>4, ChainsInParts, PTL
    <2> QED
      BY <1>1, <1>2, <2>2, <2>3, <2>5 DEF RowsOK
  <1> QED
    BY <1>6, <1>7

---------------------------------------------------------------------------
(* The checks.                                                             *)

LEMMA BoundaryStays ==
    ASSUME RowsOK, RowsOK', revisions' = revisions \/ \E r : Grows(r), NEW c, c.rests \subseteq Refs,
           BoundaryAllowed(c)
    PROVE  BoundaryAllowed(c)'
  <1>1. CASE c.kind = "hypothesis"
    BY <1>1 DEF BoundaryAllowed
  <1>2. CASE c.kind # "hypothesis"
    <2>1. Revisions(c.rests)' = Revisions(c.rests)
      BY NamedStay
    <2>2. \A kind : Part(c.rests, kind)' = Part(c.rests, kind)
      BY <2>1, PartsStay
    <2>3. \A s \in Part(c.rests, "snapshot") : Part(s.rests, "hypothesis")' = Part(s.rests, "hypothesis")
      <3> TAKE s \in Part(c.rests, "snapshot")
      <3>1. s.rests \subseteq Refs
        BY DEF Part, Revisions, RowsOK, RevisionsOK
      <3> QED
        BY <3>1, NamedStay, PartsStay
    <2>4. RestsInFile(c) /\ OneBase(c) /\ HypothesesFrozen(c)
          /\ (c.kind \in {"assessment", "judgment"} => SnapshotsMatch(c))
      BY <1>2 DEF BoundaryAllowed
    <2>5. RestsInFile(c)' /\ OneBase(c)'
      BY <2>1, <2>2, <2>4 DEF RestsInFile, OneBase, RefOf
    <2>6. BaseOf(c)' = BaseOf(c)
      <3>1. PICK b : Part(c.rests, "research") = {b} /\ BaseOf(c) = b
        BY <2>4, BaseIsOne
      <3>2. Part(c.rests, "research")' = {b}
        BY <2>2, <3>1
      <3>3. BaseOf(c)' = b
        BY <3>2 DEF BaseOf
      <3> QED
        BY <3>1, <3>3
    <2>7. HypothesesFrozen(c)'
      BY <2>2, <2>4, <2>6 DEF HypothesesFrozen, Accepted, RefOf
    <2>8. c.kind \in {"assessment", "judgment"} => SnapshotsMatch(c)'
      BY <2>2, <2>3, <2>4, <2>6 DEF SnapshotsMatch, Accepted, RefOf
    <2> QED
      BY <2>5, <2>7, <2>8 DEF BoundaryAllowed
  <1> QED
    BY <1>1, <1>2

LEMMA RestsAreThere ==
    ASSUME NEW c \in Command, c.kind \in Layers, BoundaryAllowed(c)
    PROVE  c.rests \subseteq Refs
  <1>1. CASE c.kind = "hypothesis"
    <2>1. \A q \in c.rests : q.kind \in {}
      BY <1>1, CommandTypes DEF Below, Layers
    <2> QED
      BY <2>1
  <1>2. CASE c.kind # "hypothesis"
    BY <1>2 DEF BoundaryAllowed, RestsInFile, Revisions, Refs
  <1> QED
    BY <1>1, <1>2

LEMMA VisibleStays ==
    ASSUME NEW claims, NEW at, \A l : l.claim \in claims => (l \in links' <=> l \in links)
    PROVE  Visible(claims, at)' = Visible(claims, at)
  BY DEF Visible

LEMMA OpenedAtStays ==
    ASSUME FilesOK, FilesOK', NEW f, Opened(f), \A x : x.file = f => (x \in files' <=> x \in files)
    PROVE  Opened(f)' /\ OpenedAt(f)' = OpenedAt(f)
  <1>1. PICK x \in files : x.file = f
    BY DEF Opened
  <1>2. x \in files'
    BY <1>1
  <1>3. OpenedAt(f) = x.at
    <2>1. (CHOOSE y \in files : y.file = f) = x
      BY <1>1 DEF FilesOK
    <2> QED
      BY <2>1 DEF OpenedAt
  <1>4. OpenedAt(f)' = x.at
    <2>1. \A y \in files' : y.file = f => y = x
      BY <1>1, <1>2 DEF FilesOK
    <2>2. (CHOOSE y \in files' : y.file = f) = x
      BY <1>1, <1>2, <2>1
    <2> QED
      BY <2>2 DEF OpenedAt
  <1> QED
    BY <1>1, <1>2, <1>3, <1>4 DEF Opened

LEMMA OthersChecked ==
    ASSUME Inv, RowsOK', NEW w \in Worker, Moves(w), NEW v \in Worker, v # w
    PROVE  Checked(v)'
  <1>1. PICK c : c = cmd[v]
    OBVIOUS
  <1>2. PICK stage : stage = pc[v]
    OBVIOUS
  <1>3. Stands(v)
    BY OthersStand DEF Inv
  <1>4. CASE stage = "idle"
    BY <1>2, <1>3, <1>4 DEF Stands, Checked
  <1>5. CASE stage # "idle"
    <2>1. c \in Command /\ stage \in Places(c.kind) /\ Checked(v)
      BY <1>1, <1>2, <1>5 DEF Inv, WorkersOK, StillChecked
    <2>2. revisions' = revisions \/ \E r : Grows(r)
      BY RevisionsGrow DEF Inv
    <2>3. CASE c.kind = "open"
      <3>1. stage = "write" => Passes(c, "file")'
        <4> SUFFICES ASSUME stage = "write"
                     PROVE  Passes(c, "file")'
          OBVIOUS
        <4>1. c.at >= HandoffAt /\ ~Opened(c.file) /\ At(0, PoolRow(c.file)) \in holds[v]
          BY <1>1, <1>2, <2>1, <2>3, Holding DEF Checked, Passes, Exists, Layers, Inv
        <4>2. ~Opened(c.file)'
          <5>1. CASE Adds(w)
            <6>1. PICK d \in Command : d = cmd[w]
              BY <5>1, Adding DEF WorkersOK, Inv
            <6>2. d.kind = "open" => d.file # c.file
              <7>1. d.kind = "open" => At(0, PoolRow(d.file)) \in holds[w]
                BY <5>1, <6>1, Adding, Holding DEF Inv
              <7> QED
                BY <4>1, <7>1, NotBoth DEF Inv
            <6>3. d.kind = "open" => files' = files \union {FirstFile(d.file, d.at)}
              BY <5>1, <6>1, Adding
            <6>4. d.kind # "open" => files' = files
              BY <5>1, <6>1, Adding
            <6> QED
              BY <4>1, <6>2, <6>3, <6>4 DEF Opened, FirstFile
          <5>2. ~Adds(w) => files' = files
            BY Endings DEF Moves, Writes, Adds, Start, Lock, Proceed, LinkEvidence, rows
          <5> QED
            BY <4>1, <5>1, <5>2 DEF Opened
        <4> QED
          BY <2>3, <4>1, <4>2 DEF Passes, Exists, Layers
      <3> QED
        BY <1>1, <1>2, <1>3, <2>3, <3>1 DEF Stands, Checked, Layers
    <2>4. CASE c.kind = "research"
      <3>1. stage = "write" => Passes(c, "file")'
        <4> SUFFICES ASSUME stage = "write"
                     PROVE  Passes(c, "file")'
          OBVIOUS
        <4>1. Opened(c.file) /\ ResearchAllowed(c) /\ At(1, FileRow(c.file)) \in holds[v]
          BY <1>1, <1>2, <2>1, <2>4, Holding DEF Checked, Passes, Layers, Inv
        <4>2. /\ \A x : x.file = c.file => (x \in files' <=> x \in files)
              /\ \A r : r.file = c.file => (r \in revisions' <=> r \in revisions)
          BY <4>1, FilesStay DEF Inv
        <4>3. Opened(c.file)' /\ OpenedAt(c.file)' = OpenedAt(c.file)
          BY <4>1, <4>2, OpenedAtStays DEF Inv, RowsOK
        <4>4. RevisionsOf("research", c.file, 0)' = RevisionsOf("research", c.file, 0)
          BY <4>2 DEF RevisionsOf
        <4>5. c.rests \subseteq Refs
          BY <4>1 DEF ResearchAllowed, RestsInFile, Revisions, Refs
        <4>6. Revisions(c.rests)' = Revisions(c.rests)
          BY <2>2, <4>5, NamedStay
        <4>7. RestsInFile(c)'
          BY <4>1, <4>6 DEF ResearchAllowed, RestsInFile, RefOf
        <4>8. ResearchAllowed(c)'
          BY <4>1, <4>3, <4>4, <4>6, <4>7 DEF ResearchAllowed, Accepted, MissingEvidence, NotBefore
        <4> QED
          BY <2>4, <4>3, <4>8 DEF Passes, Layers
      <3> QED
        BY <1>1, <1>2, <1>3, <2>4, <3>1 DEF Stands, Checked, Layers
    <2>5. CASE c.kind = "link"
      <3>1. stage = "write" => Passes(c, "claims")'
        <4> SUFFICES ASSUME stage = "write"
                     PROVE  Passes(c, "claims")'
          OBVIOUS
        <4>1. LinkAllowed(c) /\ ~Exists(c) /\ At(c.claim, ClaimRow(c.claim)) \in holds[v]
          BY <1>1, <1>2, <2>1, <2>5, Holding DEF Checked, Passes, Layers, Inv
        <4>2. \A l : l.claim = c.claim => (l \in links' <=> l \in links)
          BY <4>1, LinksStay DEF Inv
        <4>3. {x \in links : x.claim = c.claim}' = {x \in links : x.claim = c.claim}
          BY <4>2
        <4>4. LinkAllowed(c)'
          BY <4>1, <4>3 DEF LinkAllowed
        <4>5. ~Exists(c)'
          BY <2>5, <4>1, <4>2 DEF Exists
        <4> QED
          BY <2>5, <4>4, <4>5 DEF Passes, Layers
      <3> QED
        BY <1>1, <1>2, <1>3, <2>5, <3>1 DEF Stands, Checked, Layers
    <2>6. CASE c.kind \in Layers
      <3>1. stage \in {"claims", "write"} =>
                /\ Opened(c.file) /\ Exists(c) = ~c.create /\ BoundaryAllowed(c) /\ At(1, FileRow(c.file)) \in holds[v]
        BY <1>1, <1>2, <2>1, <2>6, Holding DEF Checked, Passes, Layers, Inv
      <3>2. ASSUME stage \in {"claims", "write"}
            PROVE  Passes(c, "file")'
        <4>1. /\ \A x : x.file = c.file => (x \in files' <=> x \in files)
              /\ \A r : r.file = c.file => (r \in revisions' <=> r \in revisions)
          BY <3>1, <3>2, FilesStay DEF Inv
        <4>2. Opened(c.file)'
          BY <3>1, <3>2, <4>1, OpenedAtStays DEF Inv, RowsOK
        <4>3. RevisionsOf(c.kind, c.file, c.key)' = RevisionsOf(c.kind, c.file, c.key)
          BY <4>1 DEF RevisionsOf
        <4>4. Exists(c)' = Exists(c)
          BY <2>6, <4>3 DEF Exists, Layers
        <4>5. BoundaryAllowed(c)'
          BY <2>1, <2>2, <2>6, <3>1, <3>2, RestsAreThere, BoundaryStays DEF Inv
        <4> QED
          BY <2>6, <3>1, <3>2, <4>2, <4>4, <4>5 DEF Passes, Layers
      <3>3. ASSUME stage = "write"
            PROVE  Passes(c, "claims")' /\ seen[v] = EvidenceFor(c)'
        <4>1. LayerAllowed(c) /\ seen[v] = EvidenceFor(c) /\ \A k \in c.claims : At(k, ClaimRow(k)) \in holds[v]
          BY <1>1, <1>2, <2>1, <2>6, <3>3, Holding DEF Checked, Passes, Layers, Inv
        <4>2. \A l : l.claim \in c.claims => (l \in links' <=> l \in links)
          BY <4>1, LinksStay DEF Inv
        <4>3. Visible(c.claims, c.at)' = Visible(c.claims, c.at)
          BY <4>2, VisibleStays
        <4>4. /\ \A x : x.file = c.file => (x \in files' <=> x \in files)
              /\ \A r : r.file = c.file => (r \in revisions' <=> r \in revisions)
          BY <3>1, <3>3, FilesStay DEF Inv
        <4>5. OpenedAt(c.file)' = OpenedAt(c.file)
          BY <3>1, <3>3, <4>4, OpenedAtStays DEF Inv, RowsOK
        <4>6. \A kind, key : RevisionsOf(kind, c.file, key)' = RevisionsOf(kind, c.file, key)
          BY <4>4 DEF RevisionsOf
        <4>7. \A kind : Part(c.rests, kind)' = Part(c.rests, kind)
          BY <2>1, <2>2, <2>6, <3>1, <3>3, RestsAreThere, NamedStay, PartsStay
        <4>8. EvidenceFor(c)' = EvidenceFor(c)
          BY <4>3, <4>7 DEF EvidenceFor
        <4>9. AssessmentsMatch(c) => AssessmentsMatch(c)'
          BY <4>7, <4>8 DEF AssessmentsMatch, Accepted
        <4>10. Earned(c.status, c.claims, EvidenceFor(c))'
          <5>1. Earned(c.status, c.claims, EvidenceFor(c))
            BY <4>1 DEF LayerAllowed
          <5> QED
            BY <4>8, <5>1 DEF Earned, Supports, Contradicts
        <4>11. /\ c.claims # {}
               /\ c.kind = "hypothesis" => NotBefore(c.at, RevisionsOf("research", c.file, 0))
               /\ c.kind = "snapshot" => c.claims \subseteq ClaimsOf(Part(c.rests, "hypothesis"))
               /\ c.kind \in {"assessment", "judgment"} => c.claims \subseteq ClaimsOf(Part(c.rests, "snapshot"))
               /\ c.kind = "judgment" => AssessmentsMatch(c)
               /\ c.at >= OpenedAt(c.file) /\ NotBefore(c.at, RevisionsOf(c.kind, c.file, c.key))
          BY <4>1 DEF LayerAllowed
        <4>12. LayerAllowed(c)'
          BY <4>5, <4>6, <4>7, <4>9, <4>10, <4>11 DEF LayerAllowed, NotBefore, ClaimsOf
        <4> QED
          BY <2>6, <4>1, <4>8, <4>12 DEF Passes, Layers
      <3> QED
        BY <1>1, <1>2, <1>3, <2>6, <3>2, <3>3 DEF Stands, Checked, Layers
    <2> QED
      BY <2>1, <2>3, <2>4, <2>5, <2>6, CommandTypes
  <1> QED
    BY <1>4, <1>5

LEMMA ChecksRepeat ==
    ASSUME UNCHANGED rows, NEW c, NEW stage
    PROVE  Passes(c, stage)' = Passes(c, stage) /\ EvidenceFor(c)' = EvidenceFor(c)
  <1>1. links' = links /\ files' = files /\ revisions' = revisions
    BY DEF rows
  <1>2. \A refs : Revisions(refs)' = Revisions(refs)
    BY <1>1 DEF Revisions, RefOf
  <1>3. \A refs, kind : Part(refs, kind)' = Part(refs, kind)
    BY <1>2 DEF Part
  <1>4. \A kind, f, key : RevisionsOf(kind, f, key)' = RevisionsOf(kind, f, key)
    BY <1>1 DEF RevisionsOf
  <1>5. \A claims, at : Visible(claims, at)' = Visible(claims, at)
    BY <1>1 DEF Visible
  <1>6. BaseOf(c)' = BaseOf(c)
    BY <1>3 DEF BaseOf
  <1>7. EvidenceFor(c)' = EvidenceFor(c)
    BY <1>3, <1>5 DEF EvidenceFor
  <1>8. Opened(c.file)' = Opened(c.file) /\ OpenedAt(c.file)' = OpenedAt(c.file)
    BY <1>1 DEF Opened, OpenedAt
  <1>9. RestsInFile(c)' = RestsInFile(c) /\ OneBase(c)' = OneBase(c)
    BY <1>2, <1>3 DEF RestsInFile, OneBase, RefOf
  <1>10. HypothesesFrozen(c)' = HypothesesFrozen(c) /\ SnapshotsMatch(c)' = SnapshotsMatch(c)
    BY <1>3, <1>6 DEF HypothesesFrozen, SnapshotsMatch, Accepted, RefOf
  <1>11. BoundaryAllowed(c)' = BoundaryAllowed(c)
    BY <1>9, <1>10 DEF BoundaryAllowed
  <1>12. ResearchAllowed(c)' = ResearchAllowed(c)
    BY <1>2, <1>4, <1>8, <1>9 DEF ResearchAllowed, Accepted, MissingEvidence, NotBefore
  <1>13. AssessmentsMatch(c)' = AssessmentsMatch(c)
    BY <1>3, <1>7 DEF AssessmentsMatch, Accepted
  <1>14. Earned(c.status, c.claims, EvidenceFor(c))' = Earned(c.status, c.claims, EvidenceFor(c))
    BY <1>7 DEF Earned, Supports, Contradicts
  <1>15. LayerAllowed(c)' = LayerAllowed(c)
    BY <1>3, <1>4, <1>8, <1>13, <1>14 DEF LayerAllowed, NotBefore, ClaimsOf
  <1>16. LinkAllowed(c)' = LinkAllowed(c)
    BY <1>1 DEF LinkAllowed
  <1>17. Exists(c)' = Exists(c)
    BY <1>1, <1>4, <1>8 DEF Exists
  <1>18. Passes(c, stage)' = Passes(c, stage)
    BY <1>8, <1>11, <1>12, <1>15, <1>16, <1>17 DEF Passes
  <1> QED
    BY <1>7, <1>18

LEMMA MoverChecked ==
    ASSUME Inv, NEW w \in Worker, Moves(w)
    PROVE  Checked(w)'
  <1>1. CASE End(w)
    <2>1. pc'[w] = "idle"
      BY <1>1 DEF End, Inv, WorkersOK
    <2> QED
      BY <2>1 DEF Checked
  <1>2. ASSUME NEW c \in Command, Start(w, c)
        PROVE  Checked(w)'
    <2>1. cmd'[w] = c /\ pc'[w] = FirstStage(c)
      BY <1>2 DEF Start, Inv, WorkersOK
    <2>2. FirstStage(c) # "write" /\ (c.kind \in Layers => FirstStage(c) = "file")
      BY DEF FirstStage, Layers
    <2> QED
      BY <2>1, <2>2 DEF Checked
  <1>3. CASE Lock(w)
    <2>1. UNCHANGED rows /\ UNCHANGED <<pc, cmd, seen>>
      BY <1>3 DEF Lock
    <2>2. Checked(w)
      BY DEF Inv, StillChecked
    <2> QED
      BY <2>1, <2>2, ChecksRepeat DEF Checked
  <1>4. CASE Proceed(w)
    <2>1. PICK c : c = cmd[w]
      OBVIOUS
    <2>2. PICK stage : stage = pc[w]
      OBVIOUS
    <2>3. PICK e : e = IF stage = "claims" /\ c.kind \in Layers THEN EvidenceFor(c) ELSE {}
      OBVIOUS
    <2>4. /\ c \in Command /\ stage \in Places(c.kind) \ {"write"} /\ stage \in {"file", "claims"}
          /\ Passes(c, stage) /\ Checked(w)
      BY <1>4, <2>1, <2>2 DEF Proceed, Locked, Inv, WorkersOK, StillChecked
    <2>5. cmd'[w] = c /\ pc'[w] = NextStage(c, stage) /\ seen'[w] = e /\ UNCHANGED rows
      BY <1>4, <2>1, <2>2, <2>3 DEF Proceed, Inv, WorkersOK
    <2>6. Passes(c, stage)'
      BY <2>4, <2>5, ChecksRepeat
    <2>7. stage = "claims" /\ c.kind \in Layers => Passes(c, "file")
      BY <2>1, <2>2, <2>4 DEF Checked
    <2>8. stage = "claims" /\ c.kind \in Layers => Passes(c, "file")'
      BY <2>5, <2>7, ChecksRepeat
    <2>9. EvidenceFor(c)' = EvidenceFor(c)
      BY <2>5, ChecksRepeat
    <2>10. CASE c.kind \in {"open", "research"}
      BY <2>4, <2>5, <2>6, <2>10 DEF Checked, NextStage, Places, Layers
    <2>11. CASE c.kind = "link"
      BY <2>4, <2>5, <2>6, <2>11 DEF Checked, NextStage, Places, Layers
    <2>12. CASE c.kind \in Layers
      BY <2>3, <2>4, <2>5, <2>6, <2>8, <2>9, <2>12 DEF Checked, NextStage, Places, Layers
    <2> QED
      BY <2>4, <2>10, <2>11, <2>12, CommandTypes
  <1> QED
    BY <1>1, <1>2, <1>3, <1>4, Endings DEF Moves

---------------------------------------------------------------------------
(* The invariant.                                                          *)

LEMMA InvKept ==
    ASSUME Inv, [Next]_vars
    PROVE  Inv'
  <1>1. CASE UNCHANGED vars
    <2>1. UNCHANGED <<links, files, revisions, pc, cmd, todo, holds, seen, commands, faults>>
      BY <1>1 DEF vars, rows
    <2>2. RowsOK'
      <3>1. \A refs : Revisions(refs)' = Revisions(refs)
        BY <2>1 DEF Revisions, RefOf
      <3>2. AllChains'
        BY <2>1, <3>1, ChainStays, ChainsInParts DEF Inv, RowsOK, AllChains
      <3>3. ChainsAreAccepted'
        BY <3>2, ChainsInParts, PTL
      <3> QED
        BY <2>1, <3>3 DEF Inv, RowsOK, FilesOK, NumbersOK, RevisionsOK, HandedOff, Visible, Opened, RevisionsOf, Refs, RefOf
    <2>3. WorkersOK' /\ LocksTaken' /\ Exclusive'
      BY <2>1 DEF Inv, WorkersOK, LocksTaken, Exclusive
    <2>4. StillChecked'
      BY <2>1, ChecksRepeat DEF Inv, StillChecked, Checked, rows
    <2> QED
      BY <2>2, <2>3, <2>4 DEF Inv
  <1>2. ASSUME NEW w \in Worker, Moves(w)
        PROVE  Inv'
    <2>1. RowsOK'
      BY <1>2, RowsKept DEF Inv
    <2>2. WorkersOK' /\ LocksTaken' /\ Exclusive'
      BY <1>2, WorkersKept, LocksKept, ExclusiveKept DEF Inv
    <2>3. \A v \in Worker : Checked(v)'
      BY <1>2, <2>1, OthersChecked, MoverChecked
    <2> QED
      BY <2>1, <2>2, <2>3 DEF Inv, StillChecked
  <1> QED
    BY <1>1, <1>2, Steps

---------------------------------------------------------------------------
(* The histories.                                                          *)

LEMMA SmallSets ==
    ASSUME NEW a, NEW b, NEW c, NEW d, NEW e
    PROVE  IsFiniteSet({a, b, c, d, e})
  <1>1. IsFiniteSet({})
    BY FS_EmptySet
  <1>2. IsFiniteSet({} \union {a})
    BY <1>1, FS_AddElement
  <1>3. IsFiniteSet({} \union {a} \union {b})
    BY <1>2, FS_AddElement
  <1>4. IsFiniteSet({} \union {a} \union {b} \union {c})
    BY <1>3, FS_AddElement
  <1>5. IsFiniteSet({} \union {a} \union {b} \union {c} \union {d})
    BY <1>4, FS_AddElement
  <1>6. IsFiniteSet({} \union {a} \union {b} \union {c} \union {d} \union {e})
    BY <1>5, FS_AddElement
  <1>7. {} \union {a} \union {b} \union {c} \union {d} \union {e} = {a, b, c, d, e}
    OBVIOUS
  <1> QED
    BY <1>6, <1>7

LEMMA SetsCount ==
    ASSUME NEW S, IsFiniteSet(S), NEW x \in S
    PROVE  /\ 1 <= Cardinality(S)
           /\ \A y \in S : x # y => 2 <= Cardinality(S)
  <1>1. Cardinality({x}) = 1 /\ IsFiniteSet({x})
    BY FS_Singleton
  <1>2. \A T : T \subseteq S => Cardinality(T) <= Cardinality(S)
    BY FS_Subset
  <1>3. Cardinality(S) \in Nat
    BY FS_CardinalityType
  <1>4. ASSUME NEW y \in S, x # y
        PROVE  2 <= Cardinality(S)
    <2>1. Cardinality({x} \union {y}) = 2
      BY <1>1, <1>4, FS_AddElement
    <2> QED
      BY <1>2, <2>1
  <1> QED
    BY <1>1, <1>2, <1>4

(* The rows of a history: the first revision of every file, and four more.   *)
LEMMA HistoryRows ==
    ASSUME Init
    PROVE  RowsOK
  <1>1. PICK h \in History :
            /\ files = {FirstFile(f, HandoffAt) : f \in IF h = "empty" THEN {} ELSE File}
            /\ \E f \in File, key \in Key :
                   revisions = FirstRevisions(h) \union IF h = "assessed" THEN AssessedRevisions(f, key) ELSE {}
    BY DEF Init
  <1>2. PICK f \in File, key \in Key :
            revisions = FirstRevisions(h) \union IF h = "assessed" THEN AssessedRevisions(f, key) ELSE {}
    BY <1>1
  <1>3. PICK Fs : Fs = IF h = "empty" THEN {} ELSE File
    OBVIOUS
  <1>4. PICK handed : handed = HandedOff
    OBVIOUS
  <1>5. links = SeedLinks /\ SeedLinks \subseteq Link /\ handed \subseteq links /\ handed \subseteq Link
    BY <1>4, CompanyAssumption DEF Init, CompanyAssumption, HandedOff, Visible
  <1>6. HandoffAt \in Clock /\ HandoffAt \in Nat /\ HandoffClaims \subseteq Claim /\ key \in Nat \ {0}
    BY CompanyAssumption DEF CompanyAssumption
  <1>7. files = {[file |-> g, at |-> HandoffAt, evidence |-> handed] : g \in Fs}
    BY <1>1, <1>3, <1>4 DEF FirstFile
  <1> DEFINE first(g) == [kind |-> "research", file |-> g, key |-> 0, no |-> 1, status |-> "insufficient",
                          at |-> HandoffAt, rests |-> {}, claims |-> {}, evidence |-> {}]
             ref(kind, k, n) == [kind |-> kind, file |-> f, key |-> k, no |-> n]
  <1>8. PICK hypothesis : hypothesis = [kind |-> "hypothesis", file |-> f, key |-> key, no |-> 1, status |-> "supported",
            at |-> HandoffAt, rests |-> {}, claims |-> HandoffClaims, evidence |-> handed]
    OBVIOUS
  <1>9. PICK base : base = [kind |-> "research", file |-> f, key |-> 0, no |-> 2, status |-> "supported",
            at |-> HandoffAt, rests |-> {ref("hypothesis", key, 1)}, claims |-> {}, evidence |-> {}]
    OBVIOUS
  <1>10. PICK snapshot : snapshot = [kind |-> "snapshot", file |-> f, key |-> key, no |-> 1, status |-> "supported",
            at |-> HandoffAt, rests |-> {ref("hypothesis", key, 1), ref("research", 0, 2)},
            claims |-> HandoffClaims, evidence |-> handed]
    OBVIOUS
  <1>11. PICK assessment : assessment = [kind |-> "assessment", file |-> f, key |-> key, no |-> 1,
            status |-> "supported", at |-> HandoffAt,
            rests |-> {ref("hypothesis", key, 1), ref("research", 0, 2), ref("snapshot", key, 1)},
            claims |-> HandoffClaims, evidence |-> handed]
    OBVIOUS
  <1>12. PICK More : More = IF h = "assessed" THEN {hypothesis, base, snapshot, assessment} ELSE {}
    OBVIOUS
  <1>13. revisions = {first(g) : g \in Fs} \union More
    <2>1. FirstRevisions(h) = {first(g) : g \in Fs}
      BY <1>3 DEF FirstRevisions, ResearchRevision
    <2>2. AssessedRevisions(f, key) = {hypothesis, base, snapshot, assessment}
      BY <1>4, <1>8, <1>9, <1>10, <1>11 DEF AssessedRevisions, FirstLayer, ResearchRevision, RefOf
    <2> QED
      BY <1>2, <1>12, <2>1, <2>2
  <1>14. /\ RefOf(hypothesis) = ref("hypothesis", key, 1) /\ RefOf(base) = ref("research", 0, 2)
         /\ RefOf(snapshot) = ref("snapshot", key, 1) /\ RefOf(assessment) = ref("assessment", key, 1)
         /\ \A g : RefOf(first(g)) = [kind |-> "research", file |-> g, key |-> 0, no |-> 1]
    BY <1>8, <1>9, <1>10, <1>11 DEF RefOf
  <1>15. /\ ref("hypothesis", key, 1) \in Ref /\ ref("research", 0, 2) \in Ref /\ ref("snapshot", key, 1) \in Ref
    BY DEF Ref, Layers
  <1>16. More \subseteq Revision /\ \A g \in File : first(g) \in Revision
    BY <1>5, <1>6, <1>8, <1>9, <1>10, <1>11, <1>12, <1>15 DEF Revision, Layers
  <1>17. Fs \subseteq File /\ (More # {} => Fs = File)
    BY <1>3, <1>12
  <1>18. FilesOK
    <2>1. \A x \in files : x.evidence = handed /\ x \in [file : File, at : Clock, evidence : SUBSET Link]
      BY <1>5, <1>6, <1>7, <1>17
    <2>2. \A x, y \in files : x.file = y.file => x = y
      BY <1>7
    <2>3. ASSUME NEW g \in Fs
          PROVE  Opened(g)
      <3>1. PICK x : x = [file |-> g, at |-> HandoffAt, evidence |-> handed]
        OBVIOUS
      <3>2. x \in files /\ x.file = g
        BY <1>7, <3>1
      <3> QED
        BY <3>2 DEF Opened
    <2>4. \A r \in revisions : r.file \in Fs
      BY <1>8, <1>9, <1>10, <1>11, <1>12, <1>13, <1>17
    <2> QED
      BY <1>4, <2>1, <2>2, <2>3, <2>4 DEF FilesOK
  <1>19. NumbersOK
    <2> SUFFICES ASSUME NEW r \in revisions
                 PROVE  /\ IsFiniteSet(RevisionsOf(r.kind, r.file, r.key))
                        /\ r.no <= Cardinality(RevisionsOf(r.kind, r.file, r.key))
      BY DEF NumbersOK
    <2>1. PICK S : S = RevisionsOf(r.kind, r.file, r.key)
      OBVIOUS
    <2>2. r \in S
      BY <2>1 DEF RevisionsOf
    <2>3. S \subseteq {first(r.file), hypothesis, base, snapshot, assessment}
      BY <1>12, <1>13, <2>1 DEF RevisionsOf
    <2>4. IsFiniteSet(S)
      <3>1. IsFiniteSet({first(r.file), hypothesis, base, snapshot, assessment})
        BY SmallSets
      <3> QED
        BY <2>3, <3>1, FS_Subset
    <2>5. CASE r = base
      <3>1. first(f) \in S
        <4>1. f \in Fs
          BY <1>8, <1>9, <1>10, <1>11, <1>12, <1>13, <1>17, <2>5
        <4> QED
          BY <1>9, <1>13, <2>1, <2>5, <4>1 DEF RevisionsOf
      <3>2. first(f) # r /\ r.no = 2
        BY <1>9, <2>5
      <3>3. 2 <= Cardinality(S)
        BY <2>2, <2>4, <3>1, <3>2, SetsCount
      <3> QED
        BY <2>1, <2>4, <3>2, <3>3
    <2>6. CASE r # base
      <3>1. r.no = 1
        BY <1>8, <1>10, <1>11, <1>12, <1>13, <2>6
      <3>2. 1 <= Cardinality(S)
        BY <2>2, <2>4, SetsCount
      <3> QED
        BY <2>1, <2>4, <3>1, <3>2
    <2> QED
      BY <2>5, <2>6
  <1>20. RevisionsOK
    <2>1. revisions \subseteq Revision
      BY <1>13, <1>16, <1>17
    <2>2. \A r \in revisions : r.kind = "research" => r.key = 0
      BY <1>8, <1>9, <1>10, <1>11, <1>12, <1>13
    <2>3. \A r \in revisions : r.evidence \subseteq links
      BY <1>5, <1>8, <1>9, <1>10, <1>11, <1>12, <1>13
    <2>4. \A r \in More : r.rests \subseteq {RefOf(q) : q \in More}
      BY <1>8, <1>9, <1>10, <1>11, <1>12, <1>14
    <2>5. \A r \in revisions : r.rests \subseteq Refs
      BY <1>13, <2>4 DEF Refs
    <2> QED
      BY <2>1, <2>2, <2>3, <2>5 DEF RevisionsOK
  <1>21. AllChains
    <2> SUFFICES ASSUME NEW r \in revisions
                 PROVE  ChainOK(r)
      BY DEF AllChains
    <2>1. CASE r.rests = {}
      <3>1. Revisions(r.rests) = {}
        BY <2>1 DEF Revisions
      <3>2. r.kind \in {"research", "hypothesis"}
        <4>1. base.rests # {} /\ snapshot.rests # {} /\ assessment.rests # {}
          BY <1>9, <1>10, <1>11
        <4>2. r \in More => r = hypothesis
          BY <1>12, <2>1, <4>1
        <4>3. r \in {first(g) : g \in Fs} => r.kind = "research"
          OBVIOUS
        <4> QED
          BY <1>8, <1>13, <4>2, <4>3
      <3> QED
        BY <3>1, <3>2 DEF ChainOK, Layered, Part
    <2>2. CASE r.rests # {}
      <3>1. r \in {base, snapshot, assessment} /\ h = "assessed"
        BY <1>8, <1>12, <1>13, <2>2
      <3>2. revisions = {first(g) : g \in Fs} \union {hypothesis, base, snapshot, assessment}
        BY <1>12, <1>13, <3>1
      <3>3. /\ \A q \in revisions : RefOf(q) = ref("hypothesis", key, 1) <=> q = hypothesis
            /\ \A q \in revisions : RefOf(q) = ref("research", 0, 2) <=> q = base
            /\ \A q \in revisions : RefOf(q) = ref("snapshot", key, 1) <=> q = snapshot
        <4>1. \A q \in revisions : q \in {hypothesis, base, snapshot, assessment} \/ \E g : q = first(g)
          BY <3>2
        <4>2. \A g : /\ RefOf(first(g)) # ref("hypothesis", key, 1)
                     /\ RefOf(first(g)) # ref("research", 0, 2)
                     /\ RefOf(first(g)) # ref("snapshot", key, 1)
          <5>1. ASSUME NEW g
                PROVE  RefOf(first(g)).kind = "research" /\ RefOf(first(g)).no = 1
            BY DEF RefOf
          <5>2. ref("hypothesis", key, 1).kind = "hypothesis" /\ ref("research", 0, 2).no = 2
                /\ ref("snapshot", key, 1).kind = "snapshot"
            OBVIOUS
          <5> HIDE DEF ref, first
          <5> QED
            BY <5>1, <5>2
        <4>3. /\ ref("hypothesis", key, 1) # ref("research", 0, 2) /\ ref("hypothesis", key, 1) # ref("snapshot", key, 1)
              /\ ref("hypothesis", key, 1) # ref("assessment", key, 1) /\ ref("research", 0, 2) # ref("snapshot", key, 1)
              /\ ref("research", 0, 2) # ref("assessment", key, 1) /\ ref("snapshot", key, 1) # ref("assessment", key, 1)
          OBVIOUS
        <4> HIDE DEF ref, first
        <4> QED
          BY <1>14, <4>1, <4>2, <4>3
      <3>4. r = base => Revisions(r.rests) = {hypothesis}
        BY <1>9, <3>2, <3>3 DEF Revisions
      <3>5. r = snapshot => Revisions(r.rests) = {hypothesis, base}
        BY <1>10, <3>2, <3>3 DEF Revisions
      <3>6. r = assessment => Revisions(r.rests) = {hypothesis, base, snapshot}
        BY <1>11, <3>2, <3>3 DEF Revisions
      <3>7. CASE r = base
        <4>1. r.kind = "research" /\ hypothesis.file = r.file /\ hypothesis.at <= r.at /\ hypothesis.kind = "hypothesis"
          BY <1>6, <1>8, <1>9, <3>7
        <4>2. Part(r.rests, "assessment") = {}
          BY <3>4, <3>7, <4>1 DEF Part
        <4> QED
          BY <3>4, <3>7, <4>1, <4>2 DEF ChainOK, Layered
      <3>8. CASE r = snapshot
        <4>1. Part(r.rests, "hypothesis") = {hypothesis} /\ Part(r.rests, "snapshot") = {} /\ Part(r.rests, "assessment") = {}
          BY <1>8, <1>9, <3>5, <3>8 DEF Part
        <4>2. Accepted(hypothesis)
          BY <1>8 DEF Accepted
        <4>3. base.kind = "research" /\ base.file = r.file /\ base.at <= r.at /\ RefOf(hypothesis) \in base.rests
              /\ hypothesis.file = r.file /\ hypothesis.at <= r.at /\ r.claims = hypothesis.claims /\ r.kind = "snapshot"
          BY <1>6, <1>8, <1>9, <1>10, <1>14, <3>8
        <4> QED
          BY <3>5, <3>8, <4>1, <4>2, <4>3 DEF ChainOK, ClaimsOf
      <3>9. CASE r = assessment
        <4>1. Part(r.rests, "hypothesis") = {hypothesis} /\ Part(r.rests, "snapshot") = {snapshot}
              /\ Part(r.rests, "assessment") = {}
          BY <1>8, <1>9, <1>10, <3>6, <3>9 DEF Part
        <4>2. Accepted(hypothesis) /\ Accepted(snapshot)
          BY <1>8, <1>10 DEF Accepted
        <4>3. base.kind = "research" /\ base.file = r.file /\ base.at <= r.at /\ RefOf(hypothesis) \in base.rests
              /\ hypothesis.file = r.file /\ hypothesis.at <= r.at /\ r.claims = hypothesis.claims
              /\ r.kind = "assessment"
          BY <1>6, <1>8, <1>9, <1>11, <1>14, <3>9
        <4>4. snapshot.file = r.file /\ snapshot.at <= r.at /\ RefOf(base) \in snapshot.rests
              /\ r.evidence = snapshot.evidence
          BY <1>6, <1>10, <1>11, <1>14, <3>9
        <4> QED
          BY <3>6, <3>9, <4>1, <4>2, <4>3, <4>4 DEF ChainOK, ClaimsOf
      <3> QED
        BY <3>1, <3>7, <3>8, <3>9
    <2> QED
      BY <2>1, <2>2
  <1> QED
    BY <1>5, <1>18, <1>19, <1>20, <1>21, ChainsInParts DEF RowsOK

LEMMA InitInv == Init => Inv
  <1> SUFFICES ASSUME Init
               PROVE  Inv
    OBVIOUS
  <1>1. RowsOK
    BY HistoryRows
  <1>2. WorkersOK
    BY CompanyAssumption DEF Init, WorkersOK, CompanyAssumption
  <1>3. LocksTaken /\ Exclusive
    BY DEF Init, LocksTaken, Exclusive
  <1>4. StillChecked
    BY DEF Init, StillChecked, Checked
  <1> QED
    BY <1>1, <1>2, <1>3, <1>4 DEF Inv

---------------------------------------------------------------------------
(* The order of the locks: pools, identities, files, claims.                *)

Level(row) ==
    CASE row[1] = "pool" -> 0
      [] row[1] = "file" -> 2
      [] row[1] = "claim" -> 2 + row[2]
      [] OTHER -> 1

LEMMA Levels ==
    /\ \A f \in File : Level(PoolRow(f)) = 0 /\ Level(FileRow(f)) = 2
    /\ \A k \in Claim : Level(ClaimRow(k)) = 2 + k
    /\ \A kind \in Layers, f \in File : \A key : Level(IdentityRow(kind, f, key)) = 1
  <1>1. \A f \in File : Level(PoolRow(f)) = 0 /\ Level(FileRow(f)) = 2
    BY DEF Level, PoolRow, FileRow
  <1>2. \A k \in Claim : Level(ClaimRow(k)) = 2 + k
    BY DEF Level, ClaimRow
  <1>3. \A kind \in Layers, f \in File : \A key : Level(IdentityRow(kind, f, key)) = 1
    BY DEF Level, IdentityRow, Layers
  <1> QED
    BY <1>1, <1>2, <1>3

Upgrades(w) == cmd[w].kind = "open" /\ pc[w] = "write" /\ ~NextLock(w).shared

Freezes(w) == cmd[w].kind = "research" /\ pc[w] = "write"

LEMMA ClaimsInOrder ==
    ASSUME NEW claims, claims \subseteq Claim, NEW m \in ClaimLocks(claims), NEW l \in ClaimLocks(claims),
           l.rank <= m.rank, l # m
    PROVE  Level(l.row) < Level(m.row)
  <1>1. PICK j \in claims : l = At(j, ClaimRow(j))
    BY DEF ClaimLocks
  <1>2. PICK k \in claims : m = At(k, ClaimRow(k))
    BY DEF ClaimLocks
  <1>3. j <= k /\ j # k /\ l.row = ClaimRow(j) /\ m.row = ClaimRow(k)
    BY <1>1, <1>2 DEF At
  <1> QED
    BY <1>3, Levels, ClaimNumbers

(* All but two kinds of steps wait for a row above all those they hold.      *)
LEMMA HoldsBelow ==
    ASSUME WorkersOK, LocksTaken, NEW w \in Worker, todo[w] # {}, ~Upgrades(w), ~Freezes(w)
    PROVE  /\ Level(NextLock(w).row) \in 0..(Cardinality(Claim) + 2)
           /\ \A l \in holds[w] : Level(l.row) < Level(NextLock(w).row)
  <1>1. PICK c \in Command : c = cmd[w]
    BY NextIsTodo
  <1>2. PICK stage : stage = pc[w]
    OBVIOUS
  <1>3. PICK n : n = NextLock(w)
    OBVIOUS
  <1>4. n \in todo[w] /\ n \in Locks(c, stage) /\ stage \in Places(c.kind) /\ stage # "idle"
    BY <1>1, <1>2, <1>3, NextIsTodo
  <1>5. /\ holds[w] = Earlier(c, stage) \union (Locks(c, stage) \ todo[w])
        /\ \A l \in Locks(c, stage) \ todo[w] : l.rank <= n.rank /\ l # n
    BY <1>1, <1>2, <1>4 DEF LocksTaken
  <1>6. CASE c.kind = "open" /\ stage = "file"
    <2>1. n = At(0, PoolRow(c.file)) /\ holds[w] = {} /\ c.file \in File
      BY <1>4, <1>5, <1>6, LocksOf, CommandTypes DEF Earlier, Layers, OpenCommand
    <2> QED
      BY <1>3, <2>1, Levels, ClaimNumbers DEF At
  <1>7. CASE c.kind = "open" /\ stage = "write"
    <2>1. n.shared /\ n \in HandoffLocks /\ c.file \in File
      BY <1>1, <1>2, <1>3, <1>4, <1>7, LocksOf, CommandTypes DEF Upgrades, OpenCommand
    <2>2. PICK k \in HandoffClaims : n = Share(k, ClaimRow(k))
      BY <2>1 DEF HandoffLocks, At
    <2>3. k \in Claim /\ k \in Nat /\ 1 <= k /\ k <= Cardinality(Claim) /\ Cardinality(Claim) \in Nat
      BY ClaimNumbers, CompanyAssumption DEF CompanyAssumption
    <2>4. Level(n.row) = 2 + k /\ n.rank = k
      BY <2>2, <2>3, Levels DEF Share
    <2>5. ASSUME NEW l \in HandoffLocks, l.rank <= n.rank, l # n
          PROVE  Level(l.row) < Level(n.row)
      <3>1. CASE \E j \in HandoffClaims : l = Share(j, ClaimRow(j))
        <4>1. PICK j \in HandoffClaims : l = Share(j, ClaimRow(j))
          BY <3>1
        <4>2. j <= k /\ j # k /\ j \in Claim /\ j \in Nat
          BY <2>2, <2>4, <2>5, <4>1, ClaimNumbers, CompanyAssumption DEF Share, CompanyAssumption
        <4>3. Level(l.row) = 2 + j
          BY <4>1, <4>2, Levels DEF Share
        <4> QED
          BY <2>3, <2>4, <4>2, <4>3
      <3>2. CASE \E j \in HandoffClaims : l = At(Cardinality(Claim) + j, ClaimRow(j))
        <4>1. PICK j \in HandoffClaims : l = At(Cardinality(Claim) + j, ClaimRow(j))
          BY <3>2
        <4>2. j \in Nat /\ 1 <= j /\ l.rank = Cardinality(Claim) + j
          BY <4>1, ClaimNumbers, CompanyAssumption DEF At, CompanyAssumption
        <4> QED
          BY <2>3, <2>4, <2>5, <4>2
      <3> QED
        BY <3>1, <3>2 DEF HandoffLocks
    <2>6. Earlier(c, stage) = {At(0, PoolRow(c.file))}
      BY <1>7, LocksOf DEF Earlier, Layers
    <2>7. Locks(c, stage) = HandoffLocks
      BY <1>7, LocksOf
    <2>8. Level(At(0, PoolRow(c.file)).row) = 0
      BY <2>1, Levels DEF At
    <2>9. \A l \in holds[w] : Level(l.row) < Level(n.row)
      BY <1>5, <2>3, <2>4, <2>5, <2>6, <2>7, <2>8
    <2> QED
      BY <1>3, <2>3, <2>4, <2>9
  <1>8. CASE c.kind = "research"
    <2>1. stage = "file"
      BY <1>1, <1>2, <1>4, <1>8 DEF Freezes, Places, Layers
    <2>2. n = At(1, FileRow(c.file)) /\ holds[w] = {} /\ c.file \in File
      BY <1>4, <1>5, <1>8, <2>1, LocksOf, CommandTypes DEF Earlier, Layers, ResearchCommand
    <2> QED
      BY <1>3, <2>2, Levels, ClaimNumbers DEF At
  <1>9. CASE c.kind \in Layers /\ stage = "file"
    <2>1. c.file \in File
      BY <1>9, CommandTypes DEF LayerCommand
    <2>2. n \in IdentityLocks(c) \union {At(1, FileRow(c.file))} /\ Earlier(c, stage) = {}
      BY <1>4, <1>9, LocksOf DEF Earlier
    <2>3. \A l \in IdentityLocks(c) : l = At(0, IdentityRow(c.kind, c.file, c.key))
      BY DEF IdentityLocks
    <2>4. /\ At(0, IdentityRow(c.kind, c.file, c.key)).rank = 0 /\ At(1, FileRow(c.file)).rank = 1
          /\ Level(At(0, IdentityRow(c.kind, c.file, c.key)).row) = 1 /\ Level(At(1, FileRow(c.file)).row) = 2
      BY <1>9, <2>1, Levels DEF At
    <2>5. \A l \in holds[w] : l \in IdentityLocks(c) \union {At(1, FileRow(c.file))} /\ l.rank <= n.rank /\ l # n
      BY <1>5, <1>9, <2>2, LocksOf
    <2>6. \A l \in holds[w] : Level(l.row) < Level(n.row)
      BY <2>2, <2>3, <2>4, <2>5
    <2> QED
      BY <1>3, <2>2, <2>3, <2>4, <2>6, ClaimNumbers
  <1>10. CASE c.kind \in Layers /\ stage = "claims"
    <2>1. c.file \in File /\ c.claims \subseteq Claim
      BY <1>10, CommandTypes DEF LayerCommand
    <2>2. n \in ClaimLocks(c.claims) /\ Locks(c, stage) = ClaimLocks(c.claims)
          /\ Earlier(c, stage) = IdentityLocks(c) \union {At(1, FileRow(c.file))}
      BY <1>4, <1>10, LocksOf DEF Earlier
    <2>3. PICK k \in c.claims : n = At(k, ClaimRow(k))
      BY <2>2 DEF ClaimLocks
    <2>4. k \in Nat /\ 1 <= k /\ k <= Cardinality(Claim) /\ Level(n.row) = 2 + k /\ Cardinality(Claim) \in Nat
      BY <2>1, <2>3, Levels, ClaimNumbers DEF At
    <2>5. \A l \in Earlier(c, stage) : Level(l.row) \in {1, 2}
      BY <1>10, <2>1, <2>2, Levels DEF IdentityLocks, At
    <2>6. \A l \in ClaimLocks(c.claims) \ todo[w] : Level(l.row) < Level(n.row)
      BY <1>5, <2>1, <2>2, ClaimsInOrder
    <2>7. \A l \in holds[w] : Level(l.row) < Level(n.row)
      BY <1>5, <2>2, <2>4, <2>5, <2>6
    <2> QED
      BY <1>3, <2>4, <2>7
  <1>11. CASE c.kind \in Layers /\ stage = "write"
    BY <1>4, <1>11, LocksOf
  <1>12. CASE c.kind = "link"
    <2>1. stage = "claims"
      BY <1>4, <1>12, LocksOf DEF Places, Layers
    <2>2. n = At(c.claim, ClaimRow(c.claim)) /\ holds[w] = {} /\ c.claim \in Claim
      BY <1>4, <1>5, <1>12, <2>1, LocksOf, CommandTypes DEF Earlier, Layers, LinkCommand
    <2> QED
      BY <1>3, <2>2, Levels, ClaimNumbers DEF At
  <1>13. c.kind = "open" => stage \in {"file", "write"}
    BY <1>4 DEF Places, Layers
  <1>14. c.kind \in Layers => stage \in {"file", "claims", "write"}
    BY <1>4, StagesFit
  <1> QED
    BY <1>6, <1>7, <1>8, <1>9, <1>10, <1>11, <1>12, <1>13, <1>14, CommandTypes

(* Only a file that is opened shares claims, and only a hypothesis that is   *)
(* revised locks a hypothesis.                                             *)
LEMMA Holders ==
    ASSUME WorkersOK, LocksTaken, NEW w \in Worker, NEW l \in holds[w]
    PROVE  /\ l.shared /\ l.row[1] = "claim" => cmd[w].kind = "open" /\ pc[w] = "write"
           /\ \A f, key : ~l.shared /\ l.row = IdentityRow("hypothesis", f, key) =>
                  cmd[w].kind = "hypothesis" /\ cmd[w].file = f
  <1>1. PICK c \in Command : c = cmd[w] /\ pc[w] # "idle"
    BY DEF WorkersOK
  <1>2. PICK stage : stage = pc[w]
    OBVIOUS
  <1>3. stage \in Places(c.kind) /\ l \in Earlier(c, stage) \union Locks(c, stage)
    BY <1>1, <1>2 DEF WorkersOK, LocksTaken
  <1>4. \A a, row : At(a, row).shared = FALSE /\ At(a, row).row = row /\ Share(a, row).shared = TRUE /\ Share(a, row).row = row
    BY DEF At, Share
  <1>5. /\ \A f : PoolRow(f)[1] = "pool" /\ FileRow(f)[1] = "file" /\ ClaimRow(f)[1] = "claim"
        /\ \A kind, f, key : IdentityRow(kind, f, key)[1] = kind /\ IdentityRow(kind, f, key)[2] = f
    BY DEF PoolRow, FileRow, ClaimRow, IdentityRow
  <1>6. CASE c.kind = "open"
    <2>1. stage \in {"file", "write"}
      BY <1>3, <1>6 DEF Places, Layers
    <2>2. l = At(0, PoolRow(c.file)) \/ (stage = "write" /\ l \in HandoffLocks)
      BY <1>3, <1>6, <2>1, LocksOf DEF Earlier, Layers
    <2>3. l \in HandoffLocks => l.row[1] = "claim"
      BY <1>4, <1>5 DEF HandoffLocks
    <2>4. \A f, key : l.row # IdentityRow("hypothesis", f, key)
      BY <1>4, <1>5, <2>2, <2>3
    <2>5. l.shared => stage = "write"
      BY <1>4, <2>2
    <2> QED
      BY <1>1, <1>2, <1>6, <2>4, <2>5
  <1>7. CASE c.kind = "research"
    <2>1. stage \in {"file", "write"}
      BY <1>3, <1>7 DEF Places, Layers
    <2>2. l = At(1, FileRow(c.file)) \/ l \in FrozenHypotheses(c)
      BY <1>3, <1>7, <2>1, LocksOf DEF Earlier, Layers
    <2>3. l \in FrozenHypotheses(c) => l.shared /\ l.row[1] = "hypothesis"
      BY <1>4, <1>5 DEF FrozenHypotheses
    <2> QED
      BY <1>4, <1>5, <2>2, <2>3
  <1>8. CASE c.kind \in Layers
    <2>1. stage \in {"file", "claims", "write"}
      BY <1>3, StagesFit
    <2>2. l \in IdentityLocks(c) \union {At(1, FileRow(c.file))} \union ClaimLocks(c.claims)
      BY <1>3, <1>8, <2>1, LocksOf DEF Earlier
    <2>3. l \in IdentityLocks(c) => ~l.shared /\ l.row = IdentityRow(c.kind, c.file, c.key)
      BY <1>4 DEF IdentityLocks
    <2>4. l \in ClaimLocks(c.claims) => ~l.shared /\ l.row[1] = "claim"
      BY <1>4, <1>5 DEF ClaimLocks
    <2>5. ~l.shared
      BY <1>4, <2>2, <2>3, <2>4
    <2>6. ASSUME NEW f, NEW key, l.row = IdentityRow("hypothesis", f, key)
          PROVE  c.kind = "hypothesis" /\ c.file = f
      BY <1>4, <1>5, <2>2, <2>3, <2>4, <2>6
    <2> QED
      BY <1>1, <2>5, <2>6
  <1>9. CASE c.kind = "link"
    <2>1. l = At(c.claim, ClaimRow(c.claim))
      BY <1>3, <1>9, LocksOf DEF Earlier, Places, Layers
    <2> QED
      BY <1>4, <1>5, <2>1
  <1> QED
    BY <1>6, <1>7, <1>8, <1>9, CommandTypes

LEMMA KnownCycles ==
    ASSUME Inv
    PROVE  CyclesAreKnown
  <1> SUFFICES ASSUME NEW S \in SUBSET Worker, Deadlocked(S)
               PROVE  \E v, w \in S : v # w /\
                          \/ /\ cmd[v].kind = "open" /\ pc[v] = "write"
                             /\ cmd[w].kind = "open" /\ pc[w] = "write"
                          \/ /\ cmd[v].kind = "hypothesis" /\ pc[v] = "file"
                             /\ cmd[w].kind = "research" /\ pc[w] = "write" /\ cmd[v].file = cmd[w].file
    BY DEF CyclesAreKnown
  <1>1. S # {} /\ \A w \in S : w \in Worker /\ todo[w] # {} /\ \E v \in S : Waits(w, v)
    BY DEF Deadlocked, Waits
  <1>2. \A w \in S : NextLock(w) \in todo[w] /\ \A m \in todo[w] : NextLock(w).rank <= m.rank
    BY <1>1, NextIsTodo DEF Inv
  <1>3. CASE \E v \in S : Upgrades(v)
    <2>1. PICK v \in S : Upgrades(v)
      BY <1>3
    <2>2. PICK n : n = NextLock(v)
      OBVIOUS
    <2>3. cmd[v].kind = "open" /\ pc[v] = "write" /\ ~n.shared /\ n \in todo[v] /\ todo[v] \subseteq HandoffLocks
          /\ HandoffLocks \ todo[v] \subseteq holds[v]
      <3>1. cmd[v] \in Command /\ cmd[v].kind = "open" /\ pc[v] = "write" /\ ~n.shared /\ n \in todo[v]
        BY <1>1, <1>2, <2>1, <2>2, NextIsTodo DEF Upgrades, Inv
      <3>2. Locks(cmd[v], pc[v]) = HandoffLocks
        BY <3>1, LocksOf
      <3> QED
        BY <1>1, <3>1, <3>2 DEF Inv, LocksTaken
    <2>4. PICK k \in HandoffClaims : n = At(Cardinality(Claim) + k, ClaimRow(k))
      BY <2>3 DEF HandoffLocks, Share
    <2>5. k \in Nat /\ 1 <= k /\ k <= Cardinality(Claim) /\ Cardinality(Claim) \in Nat
      BY ClaimNumbers, CompanyAssumption DEF CompanyAssumption
    <2>6. Share(k, ClaimRow(k)) \in holds[v]
      <3>1. Share(k, ClaimRow(k)) \in HandoffLocks
        BY DEF HandoffLocks
      <3>2. Share(k, ClaimRow(k)).rank = k /\ n.rank = Cardinality(Claim) + k
        BY <2>4 DEF Share, At
      <3>3. Share(k, ClaimRow(k)) \in todo[v] => Cardinality(Claim) + k <= k
        BY <1>2, <2>2, <3>2
      <3> QED
        BY <2>3, <2>5, <3>1, <3>3
    <2>7. PICK u \in S : Waits(v, u)
      BY <1>1
    <2>8. PICK l \in holds[u] : l.row = n.row /\ ~(l.shared /\ n.shared)
      BY <2>2, <2>7 DEF Waits
    <2>9. v # u /\ l.row = ClaimRow(k)
      BY <2>4, <2>7, <2>8 DEF Waits, At
    <2>10. l.shared
      <3>1. Share(k, ClaimRow(k)).row = ClaimRow(k)
        BY DEF Share
      <3> QED
        BY <1>1, <2>6, <2>8, <2>9, <3>1 DEF Inv, Exclusive
    <2>11. cmd[u].kind = "open" /\ pc[u] = "write"
      <3>1. l.row[1] = "claim"
        BY <2>9 DEF ClaimRow
      <3> QED
        BY <1>1, <2>10, <3>1, Holders DEF Inv
    <2> QED
      BY <2>3, <2>9, <2>11
  <1>4. CASE \E w \in S : Freezes(w)
    <2>1. PICK w \in S : Freezes(w)
      BY <1>4
    <2>2. PICK c \in Command : c = cmd[w]
      BY <1>1, <2>1, NextIsTodo DEF Inv
    <2>3. PICK n : n = NextLock(w)
      OBVIOUS
    <2>4. c.kind = "research" /\ pc[w] = "write" /\ n \in todo[w] /\ At(1, FileRow(c.file)) \in holds[w]
      BY <1>1, <1>2, <2>1, <2>2, <2>3, Holding DEF Freezes, Inv
    <2>5. n \in FrozenHypotheses(c) /\ ResearchAllowed(c)
      <3>1. todo[w] \subseteq FrozenHypotheses(c)
        BY <1>1, <2>2, <2>4, LocksOf DEF Inv, LocksTaken
      <3>2. Passes(c, "file")
        BY <1>1, <2>2, <2>4 DEF Inv, StillChecked, Checked
      <3> QED
        BY <2>4, <3>1, <3>2 DEF Passes, Layers
    <2>6. PICK r \in c.rests : n = Share(0, IdentityRow("hypothesis", r.file, r.key))
      BY <2>5 DEF FrozenHypotheses
    <2>7. r.file = c.file
      <3>1. PICK q \in Revisions(c.rests) : r = RefOf(q)
        BY <2>5 DEF ResearchAllowed, RestsInFile
      <3> QED
        BY <2>5, <3>1 DEF ResearchAllowed, RestsInFile, RefOf
    <2>8. PICK v \in S : Waits(w, v)
      BY <1>1
    <2>9. PICK l \in holds[v] : l.row = n.row /\ ~(l.shared /\ n.shared)
      BY <2>3, <2>8 DEF Waits
    <2>10. ~l.shared /\ l.row = IdentityRow("hypothesis", c.file, r.key)
      BY <2>6, <2>7, <2>9 DEF Share
    <2>11. cmd[v].kind = "hypothesis" /\ cmd[v].file = c.file
      BY <1>1, <2>10, Holders DEF Inv
    <2>12. pc[v] = "file"
      <3>1. PICK d \in Command : d = cmd[v]
        BY <1>1, NextIsTodo DEF Inv
      <3>2. pc[v] \in {"file", "claims", "write"} /\ pc[v] # "idle" /\ todo[v] \subseteq Locks(d, pc[v])
        BY <1>1, <3>1, NextIsTodo, StagesFit DEF Inv
      <3>3. pc[v] # "write"
        BY <1>1, <2>11, <3>1, <3>2, LocksOf DEF Layers
      <3>4. pc[v] # "claims"
        <4>1. pc[v] = "claims" => At(1, FileRow(c.file)) \in holds[v]
          BY <1>1, <2>11, <3>1, Holding DEF Inv, Layers
        <4> QED
          BY <1>1, <2>4, <2>8, <4>1, NotBoth DEF Inv, Waits
      <3> QED
        BY <3>2, <3>3, <3>4
    <2> QED
      BY <2>2, <2>4, <2>8, <2>11, <2>12 DEF Waits
  <1>5. CASE (\A w \in S : ~Upgrades(w)) /\ (\A w \in S : ~Freezes(w))
    <2>1. \A w \in S : /\ Level(NextLock(w).row) \in 0..(Cardinality(Claim) + 2)
                       /\ \A l \in holds[w] : Level(l.row) < Level(NextLock(w).row)
      BY <1>1, <1>5, HoldsBelow DEF Inv
    <2> DEFINE T == {Cardinality(Claim) + 2 - Level(NextLock(w).row) : w \in S}
    <2>2. T \subseteq Nat /\ T # {}
      BY <1>1, <2>1, ClaimNumbers
    <2>3. \E x \in T : \A y \in T : x <= y
      <3> HIDE DEF T
      <3> QED
        BY <2>2, LeastNumber
    <2>4. PICK w \in S : \A v \in S :
              Cardinality(Claim) + 2 - Level(NextLock(w).row) <= Cardinality(Claim) + 2 - Level(NextLock(v).row)
      BY <2>3
    <2>5. PICK v \in S : Waits(w, v)
      BY <1>1
    <2>6. PICK l \in holds[v] : l.row = NextLock(w).row
      BY <2>5 DEF Waits
    <2>7. Level(NextLock(w).row) < Level(NextLock(v).row)
      BY <2>1, <2>6
    <2> QED
      BY <2>1, <2>4, <2>7, ClaimNumbers
  <1> QED
    BY <1>3, <1>4, <1>5

---------------------------------------------------------------------------
(* The theorems.                                                           *)

LEMMA InvHolds == Spec => []Inv
  <1>1. Init => Inv
    BY InitInv
  <1>2. Inv /\ [Next]_vars => Inv'
    BY InvKept
  <1> QED
    BY <1>1, <1>2, PTL DEF Spec

(* Rows have the types of their tables, and no evidence is frozen that was   *)
(* not linked; a command holds locks only while it runs.                    *)
THEOREM CompanyTypeCorrect == Spec => []TypeOK
  <1>1. Inv => TypeOK
    <2> SUFFICES ASSUME Inv
                 PROVE  TypeOK
      OBVIOUS
    <2>1. \A x \in files : x.file \in File /\ x.at \in Clock /\ x.evidence \subseteq links
      BY DEF Inv, RowsOK, FilesOK, HandedOff, Visible
    <2>2. \A r \in revisions : RefOf(r) \in Ref /\ r.rests \subseteq Ref /\ r.evidence \subseteq links
      BY DEF Inv, RowsOK, RevisionsOK, Revision, RefOf, Ref
    <2>3. WorkersOK
      BY DEF Inv
    <2> QED
      BY <2>1, <2>2, <2>3 DEF TypeOK, WorkersOK, Inv, RowsOK
  <1> QED
    BY <1>1, InvHolds, PTL

(* The locks a command takes keep what it checked: when it writes, all that  *)
(* it was allowed by still holds, and the evidence it read is still what     *)
(* there is, whatever the others committed meanwhile.                       *)
THEOREM ChecksHold == Spec => []StillChecked
  <1>1. Inv => StillChecked
    BY DEF Inv
  <1> QED
    BY <1>1, InvHolds, PTL

(* Whatever was appended meanwhile, a layer rests on accepted revisions of   *)
(* its own file, all frozen by one revision of the file, and claims and      *)
(* freezes nothing beyond them (stage2_boundary.py).                        *)
THEOREM ChainsHold == Spec => []ChainsAreAccepted
  <1>1. Inv => ChainsAreAccepted
    BY DEF Inv, RowsOK
  <1> QED
    BY <1>1, InvHolds, PTL

(* What is frozen.                                                         *)
Freezing(r) == r.kind \in {"hypothesis", "snapshot"}

OfHypotheses(r) == {l \in UNION {h.evidence : h \in Part(r.rests, "hypothesis")} : l.claim \in r.claims}

FrozenFits(r) ==
    {l \in HandedOff : l.claim \in r.claims} \subseteq r.evidence /\ r.evidence \subseteq Visible(r.claims, r.at)

Frozen ==
    /\ \A x \in files : HandoffAt <= x.at
    /\ \A r \in revisions : Freezing(r) => FrozenFits(r)

LEMMA FrozenInit == Init => Frozen
  <1> SUFFICES ASSUME Init
               PROVE  Frozen
    OBVIOUS
  <1>1. HandoffAt \in Nat
    BY CompanyAssumption DEF CompanyAssumption
  <1>2. PICK h \in History, f \in File, key \in Key :
            /\ files = {FirstFile(g, HandoffAt) : g \in IF h = "empty" THEN {} ELSE File}
            /\ revisions = FirstRevisions(h) \union IF h = "assessed" THEN AssessedRevisions(f, key) ELSE {}
    BY DEF Init
  <1>3. \A x \in files : HandoffAt <= x.at
    <2>1. \A g : FirstFile(g, HandoffAt).at = HandoffAt
      BY DEF FirstFile
    <2> QED
      BY <1>1, <1>2, <2>1
  <1>4. ASSUME NEW r \in revisions, Freezing(r)
        PROVE  FrozenFits(r)
    <2>1. \A q \in FirstRevisions(h) : q.kind = "research"
      BY DEF FirstRevisions, ResearchRevision
    <2>2. r \in AssessedRevisions(f, key)
      BY <1>2, <1>4, <2>1 DEF Freezing
    <2>3. r.claims = HandoffClaims /\ r.at = HandoffAt /\ r.evidence = HandedOff
      BY <1>4, <2>2 DEF AssessedRevisions, FirstLayer, ResearchRevision, Freezing
    <2> QED
      BY <2>3 DEF FrozenFits, HandedOff
  <1> QED
    BY <1>3, <1>4 DEF Frozen

(* A hypothesis or a snapshot that is written reads the ledger at its time,  *)
(* which is no earlier than those of its file and of its hypotheses.         *)
LEMMA NewFreeze ==
    ASSUME Inv, Frozen, NEW w \in Worker, Adds(w), NEW r, r = NewRevision(w), Freezing(r)
    PROVE  /\ r.evidence = Visible(r.claims, r.at) /\ Earned(r.status, r.claims, r.evidence)
           /\ FrozenFits(r) /\ OfHypotheses(r) \subseteq r.evidence
  <1>1. PICK c \in Command : c = cmd[w]
    BY Adding DEF Inv, WorkersOK
  <1>2. pc[w] = "write" /\ (c.kind = "open" => r.kind = "research")
    BY <1>1, Adding DEF NewRevision, ResearchRevision
  <1>3. /\ c.kind = r.kind /\ r.evidence = seen[w] /\ r.claims = c.claims /\ r.at = c.at /\ r.status = c.status
        /\ r.rests = c.rests /\ c.kind \in {"hypothesis", "snapshot"} /\ c.kind \in Layers
    BY <1>1 DEF NewRevision, ResearchRevision, Freezing, Layers
  <1>4. LayerAllowed(c) /\ r.evidence = EvidenceFor(c) /\ Opened(c.file) /\ BoundaryAllowed(c)
    BY <1>1, <1>2, <1>3 DEF Inv, StillChecked, Checked, Passes, Layers
  <1>5. EvidenceFor(c) = Visible(c.claims, c.at)
    BY <1>3 DEF EvidenceFor
  <1>6. r.evidence = Visible(r.claims, r.at) /\ Earned(r.status, r.claims, r.evidence)
    BY <1>3, <1>4, <1>5 DEF LayerAllowed
  <1>7. c \in LayerCommand /\ c.at \in Nat /\ HandoffAt \in Nat
    BY <1>3, CommandTypes, CompanyAssumption DEF LayerCommand, CompanyAssumption
  <1>8. links \subseteq Link /\ \A l \in links : l.at \in Nat
    BY CompanyAssumption DEF Inv, RowsOK, Link, CompanyAssumption
  <1>9. FrozenFits(r)
    <2>1. PICK x \in files : x = (CHOOSE y \in files : y.file = c.file)
      BY <1>4 DEF Opened
    <2>2. OpenedAt(c.file) = x.at /\ x.at \in Nat /\ HandoffAt <= x.at
      BY <2>1, CompanyAssumption DEF OpenedAt, Frozen, Inv, RowsOK, FilesOK, CompanyAssumption
    <2>3. HandoffAt <= r.at
      BY <1>3, <1>4, <1>7, <2>2 DEF LayerAllowed
    <2>4. \A l \in HandedOff : l \in links /\ l.at <= r.at
      BY <1>3, <1>7, <1>8, <2>3 DEF HandedOff, Visible
    <2> QED
      BY <1>6, <2>4 DEF FrozenFits, Visible
  <1>10. ASSUME NEW l \in OfHypotheses(r)
         PROVE  l \in r.evidence
    <2>1. PICK h \in Part(r.rests, "hypothesis") : l \in h.evidence /\ l.claim \in r.claims
      BY <1>10 DEF OfHypotheses
    <2>2. h \in revisions /\ h \in Revisions(c.rests) /\ Freezing(h) /\ RefOf(h) \in c.rests
      BY <1>3, <2>1 DEF Part, Revisions, Freezing
    <2>3. c.kind # "hypothesis"
      <3>1. RefOf(h).kind = "hypothesis"
        BY <2>1 DEF Part, RefOf
      <3> QED
        BY <1>3, <2>2, <3>1, CommandTypes DEF Below
    <2>4. h.at <= c.at
      BY <1>4, <2>2, <2>3 DEF BoundaryAllowed, RestsInFile
    <2>5. l \in links /\ l.at <= h.at /\ h.at \in Nat
      BY <2>1, <2>2, CompanyAssumption
         DEF Frozen, FrozenFits, Visible, Inv, RowsOK, RevisionsOK, Revision, CompanyAssumption
    <2>6. l.at <= r.at
      BY <1>3, <1>7, <1>8, <2>4, <2>5
    <2> QED
      BY <1>6, <2>1, <2>5, <2>6 DEF Visible
  <1> QED
    BY <1>6, <1>9, <1>10

LEMMA FrozenKept ==
    ASSUME Inv, Frozen, [Next]_vars
    PROVE  Frozen'
  <1>1. CASE UNCHANGED vars
    BY <1>1 DEF Frozen, Freezing, FrozenFits, HandedOff, Visible, vars, rows
  <1>2. ASSUME NEW w \in Worker, Moves(w)
        PROVE  Frozen'
    <2>1. HandedOff' = HandedOff /\ links \subseteq links'
      BY <1>2, HandedOffStays, LinksKept DEF Inv
    <2>2. ASSUME NEW r, FrozenFits(r)
          PROVE  FrozenFits(r)'
      BY <2>1, <2>2 DEF FrozenFits, Visible
    <2>3. CASE Adds(w)
      <3>1. PICK c \in Command : c = cmd[w]
        BY <2>3, Adding DEF Inv, WorkersOK
      <3>2. PICK r : r = NewRevision(w)
        OBVIOUS
      <3>3. /\ revisions' = revisions \union {r} /\ pc[w] = "write"
            /\ c.kind # "open" => files' = files
            /\ c.kind = "open" => files' = files \union {FirstFile(c.file, c.at)}
        BY <2>3, <3>1, <3>2, Adding
      <3>4. Freezing(r) => FrozenFits(r)
        BY <2>3, <3>2, NewFreeze
      <3>5. \A x \in files' : HandoffAt <= x.at
        <4>1. c.kind = "open" => HandoffAt <= c.at
          <5>1. c.kind = "open" => Passes(c, "file")
            BY <3>1, <3>3 DEF Inv, StillChecked, Checked
          <5>2. c.kind = "open" => c.at >= HandoffAt /\ c.at \in Nat /\ HandoffAt \in Nat
            BY <5>1, CommandTypes, CompanyAssumption DEF Passes, OpenCommand, CompanyAssumption, Layers
          <5> QED
            BY <5>2
        <4>2. FirstFile(c.file, c.at).at = c.at
          BY DEF FirstFile
        <4> QED
          BY <3>3, <4>1, <4>2 DEF Frozen
      <3>6. \A q \in revisions' : Freezing(q) => FrozenFits(q)'
        BY <2>2, <3>3, <3>4 DEF Frozen
      <3> QED
        BY <3>5, <3>6 DEF Frozen, Freezing
    <2>4. CASE ~Adds(w)
      <3>1. files' = files /\ revisions' = revisions
        BY <1>2, <2>4, Endings DEF Moves, Writes, Adds, Start, Lock, Proceed, LinkEvidence, rows
      <3> QED
        BY <2>2, <3>1 DEF Frozen, Freezing
    <2> QED
      BY <2>3, <2>4
  <1> QED
    BY <1>1, <1>2, Steps

(* No freeze misses evidence it should have: what a hypothesis or a snapshot *)
(* freezes is in the ledger at its time, all of it for a hypothesis and all  *)
(* that its hypotheses froze for a snapshot, and its status follows from it; *)
(* and no link recorded later, with whatever time, belongs to what was       *)
(* handed off and is missing from a file, a hypothesis or a snapshot.        *)
THEOREM FreezesHold == Spec => FreezesAreComplete
  <1>1. ASSUME Inv, Inv', Frozen, Frozen', [Next]_vars
        PROVE  /\ \A r \in revisions' \ revisions :
                      r.kind \in {"hypothesis", "snapshot"} =>
                          /\ r.kind = "hypothesis" => r.evidence = Visible(r.claims, r.at)
                          /\ {l \in UNION {h.evidence : h \in Part(r.rests, "hypothesis")} : l.claim \in r.claims}
                                 \subseteq r.evidence
                          /\ r.evidence \subseteq Visible(r.claims, r.at)
                          /\ Earned(r.status, r.claims, r.evidence)
               /\ \A x \in files' :
                      HandedOff' \subseteq x.evidence /\ x.evidence \subseteq Visible(HandoffClaims, x.at)'
               /\ \A r \in revisions' :
                      r.kind \in {"hypothesis", "snapshot"} =>
                          {l \in HandedOff' : l.claim \in r.claims} \subseteq r.evidence
    <2>1. ASSUME NEW r \in revisions' \ revisions, Freezing(r)
          PROVE  /\ r.evidence = Visible(r.claims, r.at) /\ Earned(r.status, r.claims, r.evidence)
                 /\ OfHypotheses(r) \subseteq r.evidence
      <3>1. PICK w \in Worker : Moves(w)
        BY <1>1, <2>1, Steps DEF vars, rows
      <3>2. Adds(w)
        BY <2>1, <3>1, Endings DEF Moves, Writes, Adds, Start, Lock, Proceed, LinkEvidence, rows
      <3>3. r = NewRevision(w)
        BY <2>1, <3>2, Adding
      <3> QED
        BY <1>1, <2>1, <3>2, <3>3, NewFreeze
    <2>2. ASSUME NEW x \in files'
          PROVE  HandedOff' \subseteq x.evidence /\ x.evidence \subseteq Visible(HandoffClaims, x.at)'
      <3>1. x.evidence = HandedOff' /\ x.at \in Nat /\ HandoffAt <= x.at
        BY <1>1, CompanyAssumption DEF Inv, RowsOK, FilesOK, Frozen, CompanyAssumption
      <3>2. HandoffAt \in Nat /\ \A l \in links' : l.at \in Nat
        BY <1>1, CompanyAssumption DEF Inv, RowsOK, Link, CompanyAssumption
      <3>3. \A l \in HandedOff' : l \in links' /\ l.claim \in HandoffClaims /\ l.at <= x.at
        BY <3>1, <3>2 DEF HandedOff, Visible
      <3> QED
        BY <3>1, <3>3 DEF Visible
    <2>3. \A r \in revisions' : Freezing(r) => {l \in HandedOff' : l.claim \in r.claims} \subseteq r.evidence
      BY <1>1 DEF Frozen, Freezing, FrozenFits
    <2> QED
      BY <2>1, <2>2, <2>3 DEF Freezing, OfHypotheses
  <1>2. Inv /\ Frozen /\ [Next]_vars => Frozen'
    BY FrozenKept
  <1> QED
    BY <1>1, <1>2, FrozenInit, InvHolds, PTL DEF Spec, FreezesAreComplete

(* Locks are taken in one order, pools, identities, files, claims, but for   *)
(* two steps: a file that is opened shares the claims handed off before it   *)
(* locks them, and a revision of a file shares the hypotheses it freezes     *)
(* when it holds the file.  Every cycle of waiting commands has one of them. *)
THEOREM CyclesHold == Spec => []CyclesAreKnown
  <1>1. Inv => CyclesAreKnown
    BY KnownCycles
  <1> QED
    BY <1>1, InvHolds, PTL

=============================================================================
