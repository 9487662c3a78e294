----------------------- MODULE ResearchLedger_proofs -----------------------
(* Proofs about ResearchLedger.                                            *)
EXTENDS ResearchLedger, WellFoundedInduction, TLAPS

(* Rows a worker has locked or will have locked before it reads on.        *)
Ahead(w) == holds[w] \union {s.row : s \in todo[w]}

NeedsAssertion(w, a) ==
    \/ cmd[w].kind = "freeze" /\ a \in cmd[w].members
    \/ cmd[w].kind = "bind" /\ a = cmd[w].assertion

NeedsClaim(w, k) ==
    \/ cmd[w].kind = "link" /\ k = cmd[w].claim
    \/ cmd[w].kind = "benefit" /\ k \in cmd[w].claims
    \/ cmd[w].kind = "freeze" /\ \E b \in bindings : b.assertion \in cmd[w].members /\ b.claim = k

(* The tables are functions, the workers' locks too.                       *)
Shape ==
    /\ TypeOK
    /\ DOMAIN todo = Worker /\ DOMAIN holds = Worker /\ DOMAIN prior = Worker
    /\ \A w \in Worker : pc[w] = "write" => todo[w] = {}

Exclusive == \A v, w \in Worker : v # w => holds[v] \intersect holds[w] = {}

AssertionsLocked ==
    \A w \in Worker : \A a \in Assertion : NeedsAssertion(w, a) =>
        /\ pc[w] = "identities" => Row("assertion", a) \in Ahead(w)
        /\ pc[w] \in {"claims", "write"} => Row("assertion", a) \in holds[w]

ClaimsLocked ==
    \A w \in Worker : \A k \in Claim : NeedsClaim(w, k) =>
        /\ pc[w] = "claims" => Row("claim", k) \in Ahead(w)
        /\ pc[w] = "write" => Row("claim", k) \in holds[w]

(* What is referred to has been recorded.                                  *)
Recorded ==
    /\ \A m \in maps : \A a \in m.members : assertionAt[a] # 0
    /\ \A b \in bindings : claimAt[b.claim] # 0 /\ assertionAt[b.assertion] # 0
    /\ \A b \in benefits : \A k \in b.claims : claimAt[k] # 0

HeldAreRecorded ==
    \A w \in Worker : \A a \in Assertion :
        Row("assertion", a) \in holds[w] => assertionAt[a] # 0

(* The checks of a command still hold when it commits.                     *)
LinkApproved ==
    \A w \in Worker : pc[w] = "write" /\ cmd[w].kind = "link" =>
        /\ AfterMapFreezes(cmd[w].claim, cmd[w].at)
        /\ AfterBeneficiaryFreezes(cmd[w].claim, cmd[w].at)

BindApproved ==
    \A w \in Worker : pc[w] = "write" /\ cmd[w].kind = "bind" =>
        /\ claimAt[cmd[w].claim] # 0 /\ assertionAt[cmd[w].assertion] # 0
        /\ \A m \in maps : cmd[w].assertion \in m.members => cmd[w].at > m.at
        /\ \A b \in bindings : b.assertion = cmd[w].assertion =>
               IdentityOf[b.claim] # IdentityOf[cmd[w].claim]

AssertApproved ==
    \A w \in Worker : pc[w] = "write" /\ cmd[w].kind = "assert" =>
        /\ \A k \in cmd[w].claims : claimAt[k] # 0
        /\ DistinctIdentities(cmd[w].claims)

BenefitApproved ==
    \A w \in Worker : pc[w] = "write" /\ cmd[w].kind = "benefit" =>
        \A k \in cmd[w].claims : claimAt[k] # 0

IInv ==
    /\ Shape /\ Exclusive /\ AssertionsLocked /\ ClaimsLocked
    /\ Recorded /\ HeldAreRecorded
    /\ LinkApproved /\ BindApproved /\ AssertApproved /\ BenefitApproved
    /\ OneRevisionPerClaim

-----------------------------------------------------------------------------
(* The parameters of a command by its kind.                                *)
LEMMA Parameters ==
    ASSUME NEW c \in Command
    PROVE  /\ c # NoCommand /\ c.at \in Clock
           /\ c.kind # "none"
           /\ c.kind = "link" => c \in LinkCommand
           /\ c.kind = "claim" => c \in ClaimCommand
           /\ c.kind = "bind" => c \in BindCommand
           /\ c.kind = "assert" => c \in AssertCommand
           /\ c.kind = "freeze" => c \in FreezeCommand
           /\ c.kind = "benefit" => c \in BenefitCommand
           /\ c.kind = "pool" => c \in PoolCommand
           /\ c.kind = "case" => c \in CaseCommand
           /\ c.kind = "profile" => c \in ProfileCommand
    BY CommandAssumption DEF LinkCommand, ClaimCommand, BindCommand, AssertCommand, FreezeCommand,
        BenefitCommand, PoolCommand, CaseCommand, ProfileCommand, NoCommand

LEMMA RowKinds == \A a, k : Row("assertion", a) # Row("claim", k)
    BY DEF Row

(* The history a run begins with is typed, and refers to recorded rows.    *)
LEMMA Beginning ==
    ASSUME Init
    PROVE  /\ \A m \in maps : /\ m.no \in Nat /\ m.at \in Clock /\ m.members \subseteq Assertion
                               /\ \A a \in m.members : assertionAt[a] # 0
           /\ \A b \in benefits : /\ b.beneficiary \in Beneficiary /\ b.at \in Clock
                                   /\ b.assertions \subseteq Assertion /\ b.claims \subseteq Claim
                                   /\ \A k \in b.claims : claimAt[k] # 0
<1>1. PICK h \in History :
          /\ maps = {[no |-> 1, at |-> 1, members |-> {}]} \union {MapRow(c, 2) : c \in {x \in h : x.kind = "freeze"}}
          /\ benefits = {BenefitRow(c, 1) : c \in {x \in h : x.kind = "benefit"}}
          /\ \A c \in h : Allowed(c)
    BY DEF Init
<1>2. h \subseteq FreezeCommand \union BenefitCommand
    BY HistoryAssumption
<1>3. ASSUME NEW m \in maps
      PROVE  /\ m.no \in Nat /\ m.at \in Clock /\ m.members \subseteq Assertion
             /\ \A a \in m.members : assertionAt[a] # 0
    <2>1. CASE m = [no |-> 1, at |-> 1, members |-> {}]
        BY <2>1, LedgerAssumption
    <2>2. CASE \E c \in {x \in h : x.kind = "freeze"} : m = MapRow(c, 2)
        <3>1. PICK c \in h : c.kind = "freeze" /\ m = MapRow(c, 2)
            BY <2>2
        <3>2. c \in FreezeCommand /\ FreezeAllowed(c)
            BY <3>1, <1>1, <1>2 DEF Allowed, FreezeCommand, BenefitCommand
        <3>. QED
            BY <3>1, <3>2 DEF MapRow, FreezeCommand, FreezeAllowed
    <2>. QED
        BY <1>1, <2>1, <2>2
<1>4. ASSUME NEW b \in benefits
      PROVE  /\ b.beneficiary \in Beneficiary /\ b.at \in Clock
             /\ b.assertions \subseteq Assertion /\ b.claims \subseteq Claim
             /\ \A k \in b.claims : claimAt[k] # 0
    <2>1. PICK c \in h : c.kind = "benefit" /\ b = BenefitRow(c, 1)
        BY <1>1
    <2>2. c \in BenefitCommand /\ BenefitAllowed(c)
        BY <2>1, <1>1, <1>2 DEF Allowed, FreezeCommand, BenefitCommand
    <2>. QED
        BY <2>1, <2>2 DEF BenefitRow, BenefitCommand, BenefitAllowed
<1>. QED
    BY <1>3, <1>4

LEMMA InitInv == Init => IInv
<1> SUFFICES ASSUME Init PROVE IInv
    OBVIOUS
<1>1. /\ claimAt = [c \in Claim |-> IF \E s \in SeedLinks \union SeedBindings : s.claim = c THEN 1 ELSE 0]
      /\ assertionAt = [a \in Assertion |-> IF \E b \in SeedBindings : b.assertion = a THEN 1 ELSE 0]
      /\ links = SeedLinks /\ bindings = SeedBindings /\ pools = {} /\ profiles = {}
      /\ cases = {[no |-> 1, at |-> 1, conclusion |-> "draft", claims |-> {}]}
      /\ pc = [w \in Worker |-> "idle"] /\ cmd = [w \in Worker |-> NoCommand]
      /\ todo = [w \in Worker |-> {}] /\ holds = [w \in Worker |-> {}] /\ prior = [w \in Worker |-> 0]
      /\ commands = 0 /\ faults = 0
    BY DEF Init
<1>2. TypeOK
    <2>1. SeedLinks \subseteq Link /\ SeedBindings \subseteq Binding /\ 1 \in Clock
        BY LedgerAssumption
    <2>2. 0 \in 0..MaxCommands /\ 0 \in 0..MaxFaults
        BY LedgerAssumption
    <2>3. claimAt \in [Claim -> Clock \union {0}] /\ assertionAt \in [Assertion -> Clock \union {0}]
        BY <1>1, <2>1
    <2>. QED
        BY <1>1, <2>1, <2>2, <2>3, Beginning DEF TypeOK
<1>3. Shape
    BY <1>1, <1>2 DEF Shape
<1>4. Exclusive /\ AssertionsLocked /\ ClaimsLocked /\ HeldAreRecorded
    BY <1>1 DEF Exclusive, AssertionsLocked, ClaimsLocked, HeldAreRecorded
<1>5. Recorded
    BY <1>1, LedgerAssumption, Beginning DEF Recorded, Binding
<1>6. LinkApproved /\ BindApproved /\ AssertApproved /\ BenefitApproved
    BY <1>1 DEF LinkApproved, BindApproved, AssertApproved, BenefitApproved
<1>7. OneRevisionPerClaim
    BY <1>1, LedgerAssumption DEF OneRevisionPerClaim
<1>. QED
    BY <1>3, <1>4, <1>5, <1>6, <1>7 DEF IInv

-----------------------------------------------------------------------------
(* Steps that leave the rows alone                                         *)

LEMMA StartStep ==
    ASSUME IInv, NEW w \in Worker, NEW c \in Command, Start(w, c)
    PROVE  IInv'
<1> USE DEF IInv
<1>1. pc[w] = "idle" /\ todo[w] = {} /\ holds[w] = {}
    BY DEF Start, Shape, TypeOK
<1>2. /\ pc' = [pc EXCEPT ![w] = "identities"] /\ cmd' = [cmd EXCEPT ![w] = c]
      /\ todo' = [todo EXCEPT ![w] = IdentityLocks(c)] /\ holds' = holds /\ prior' = prior
      /\ UNCHANGED rows /\ faults' = faults /\ commands' = commands + 1 /\ commands < MaxCommands
    BY DEF Start
<1>3. /\ pc \in [Worker -> {"idle", "identities", "claims", "write"}]
      /\ cmd \in [Worker -> Command \union {NoCommand}] /\ DOMAIN todo = Worker
    BY DEF Shape, TypeOK
<1>4. \A v \in Worker \ {w} : pc'[v] = pc[v] /\ cmd'[v] = cmd[v] /\ todo'[v] = todo[v]
    BY <1>2, <1>3
<1>5. pc'[w] = "identities" /\ cmd'[w] = c /\ todo'[w] = IdentityLocks(c)
    BY <1>2, <1>3
<1>6. TypeOK'
    <2>1. commands' \in 0..MaxCommands
        BY <1>2, LedgerAssumption DEF Shape, TypeOK
    <2>2. \A v \in Worker : cmd'[v] = NoCommand <=> pc'[v] = "idle"
        BY <1>4, <1>5, Parameters DEF Shape, TypeOK
    <2>3. \A v \in Worker : pc'[v] = "idle" => todo'[v] = {} /\ holds'[v] = {}
        BY <1>2, <1>4, <1>5 DEF Shape, TypeOK
    <2>. QED
        BY <1>2, <2>1, <2>2, <2>3 DEF Shape, TypeOK, rows
<1>7. Shape'
    BY <1>2, <1>3, <1>4, <1>5, <1>6 DEF Shape
<1>8. Exclusive' /\ HeldAreRecorded' /\ Recorded'
    BY <1>2 DEF Exclusive, HeldAreRecorded, Recorded, rows
<1>9. AssertionsLocked'
    <2> SUFFICES ASSUME NEW v \in Worker, NEW a \in Assertion, NeedsAssertion(v, a)'
                 PROVE  /\ pc'[v] = "identities" => Row("assertion", a) \in Ahead(v)'
                        /\ pc'[v] \in {"claims", "write"} => Row("assertion", a) \in holds'[v]
        BY DEF AssertionsLocked
    <2>1. CASE v = w
        <3>1. \/ c.kind = "freeze" /\ a \in c.members
              \/ c.kind = "bind" /\ a = c.assertion
            BY <2>1, <1>5 DEF NeedsAssertion
        <3>2. \E r \in Nat : [rank |-> r, row |-> Row("assertion", a)] \in IdentityLocks(c)
            <4>1. CASE c.kind = "freeze" /\ a \in c.members
                <5>1. [rank |-> a, row |-> Row("assertion", a)] \in IdentityLocks(c)
                    BY <4>1 DEF IdentityLocks
                <5>. QED
                    BY <5>1, LedgerAssumption
            <4>2. CASE c.kind = "bind" /\ a = c.assertion
                <5>1. [rank |-> 1, row |-> Row("assertion", a)] \in IdentityLocks(c)
                    BY <4>2 DEF IdentityLocks
                <5>. QED
                    BY <5>1
            <4>. QED
                BY <3>1, <4>1, <4>2
        <3>3. \E s \in IdentityLocks(c) : s.row = Row("assertion", a)
            BY <3>2
        <3>. QED
            BY <2>1, <3>3, <1>5 DEF Ahead
    <2>2. CASE v # w
        BY <2>2, <1>2, <1>4 DEF AssertionsLocked, NeedsAssertion, Ahead
    <2>. QED
        BY <2>1, <2>2
<1>10. ClaimsLocked'
    BY <1>2, <1>4, <1>5 DEF ClaimsLocked, NeedsClaim, Ahead, rows
<1>11. LinkApproved'
    BY <1>2, <1>4, <1>5 DEF LinkApproved, AfterMapFreezes, AfterBeneficiaryFreezes, rows
<1>12. BindApproved' /\ AssertApproved' /\ BenefitApproved'
    BY <1>2, <1>4, <1>5 DEF BindApproved, AssertApproved, BenefitApproved, DistinctIdentities, rows
<1>13. OneRevisionPerClaim'
    BY <1>2 DEF OneRevisionPerClaim, rows
<1>. QED
    BY <1>7, <1>8, <1>9, <1>10, <1>11, <1>12, <1>13

LEMMA LockStep ==
    ASSUME IInv, NEW w \in Worker, Lock(w)
    PROVE  IInv'
<1> USE DEF IInv
<1> DEFINE s == NextLock(w)
<1>1. /\ pc[w] \in {"identities", "claims"} /\ ~Missing(s.row)
      /\ \A v \in Worker : v # w => s.row \notin holds[v]
      /\ holds' = [holds EXCEPT ![w] = holds[w] \union {s.row}]
      /\ todo' = [todo EXCEPT ![w] = todo[w] \ {s}]
      /\ pc' = pc /\ cmd' = cmd /\ prior' = prior /\ commands' = commands /\ faults' = faults
      /\ UNCHANGED rows
    BY DEF Lock, Waits, Locking
<1> HIDE DEF s
<1>2. /\ \A v \in Worker \ {w} : holds'[v] = holds[v] /\ todo'[v] = todo[v]
      /\ holds'[w] = holds[w] \union {s.row} /\ todo'[w] = todo[w] \ {s}
      /\ DOMAIN todo' = Worker /\ DOMAIN holds' = Worker
    BY <1>1 DEF Shape
<1>3. \A v \in Worker : Ahead(v) \subseteq Ahead(v)' /\ holds[v] \subseteq holds'[v]
    <2> SUFFICES ASSUME NEW v \in Worker
                 PROVE  Ahead(v) \subseteq Ahead(v)' /\ holds[v] \subseteq holds'[v]
        OBVIOUS
    <2>1. CASE v = w
        BY <2>1, <1>2 DEF Ahead
    <2>2. CASE v # w
        BY <2>2, <1>2 DEF Ahead
    <2>. QED
        BY <2>1, <2>2
<1>4. TypeOK'
    <2>1. \A v \in Worker : pc'[v] = "idle" => todo'[v] = {} /\ holds'[v] = {}
        BY <1>1, <1>2 DEF Shape, TypeOK
    <2>. QED
        BY <1>1, <2>1 DEF Shape, TypeOK, rows
<1>5. Shape'
    BY <1>1, <1>2, <1>4 DEF Shape
<1>6. Exclusive'
    BY <1>1, <1>2 DEF Exclusive
<1>7. HeldAreRecorded'
    <2> SUFFICES ASSUME NEW v \in Worker, NEW a \in Assertion, Row("assertion", a) \in holds'[v]
                 PROVE  assertionAt[a] # 0
        BY <1>1 DEF HeldAreRecorded, rows
    <2>1. CASE Row("assertion", a) \in holds[v]
        BY <2>1 DEF HeldAreRecorded
    <2>2. CASE Row("assertion", a) \notin holds[v]
        <3>1. Row("assertion", a) = s.row
            BY <2>2, <1>2
        <3>. QED
            BY <3>1, <1>1 DEF Missing, Row
    <2>. QED
        BY <2>1, <2>2
<1>8. AssertionsLocked'
    BY <1>1, <1>3 DEF AssertionsLocked, NeedsAssertion
<1>9. ClaimsLocked'
    BY <1>1, <1>3 DEF ClaimsLocked, NeedsClaim, rows
<1>10. Recorded' /\ OneRevisionPerClaim'
    BY <1>1 DEF Recorded, OneRevisionPerClaim, rows
<1>11. LinkApproved'
    BY <1>1 DEF LinkApproved, AfterMapFreezes, AfterBeneficiaryFreezes, rows
<1>12. BindApproved' /\ AssertApproved' /\ BenefitApproved'
    BY <1>1 DEF BindApproved, AssertApproved, BenefitApproved, DistinctIdentities, rows
<1>. QED
    BY <1>5, <1>6, <1>7, <1>8, <1>9, <1>10, <1>11, <1>12

LEMMA ResolveStep ==
    ASSUME IInv, NEW w \in Worker, ResolveClaims(w)
    PROVE  IInv'
<1> USE DEF IInv
<1>1. /\ pc[w] = "identities" /\ todo[w] = {}
      /\ todo' = [todo EXCEPT ![w] = ClaimLocks(cmd[w])] /\ pc' = [pc EXCEPT ![w] = "claims"]
      /\ holds' = holds /\ cmd' = cmd /\ prior' = prior /\ commands' = commands /\ faults' = faults
      /\ UNCHANGED rows
    BY DEF ResolveClaims
<1>2. /\ \A v \in Worker \ {w} : pc'[v] = pc[v] /\ todo'[v] = todo[v]
      /\ pc'[w] = "claims" /\ todo'[w] = ClaimLocks(cmd[w])
      /\ DOMAIN todo' = Worker
    BY <1>1 DEF Shape, TypeOK
<1>3. TypeOK'
    <2>1. \A v \in Worker : cmd'[v] = NoCommand <=> pc'[v] = "idle"
        BY <1>1, <1>2 DEF Shape, TypeOK
    <2>2. \A v \in Worker : pc'[v] = "idle" => todo'[v] = {} /\ holds'[v] = {}
        BY <1>1, <1>2 DEF Shape, TypeOK
    <2>. QED
        BY <1>1, <2>1, <2>2 DEF Shape, TypeOK, rows
<1>4. Shape'
    BY <1>1, <1>2, <1>3 DEF Shape
<1>5. Exclusive' /\ HeldAreRecorded' /\ Recorded' /\ OneRevisionPerClaim'
    BY <1>1 DEF Exclusive, HeldAreRecorded, Recorded, OneRevisionPerClaim, rows
<1>6. AssertionsLocked'
    <2> SUFFICES ASSUME NEW v \in Worker, NEW a \in Assertion, NeedsAssertion(v, a)'
                 PROVE  /\ pc'[v] = "identities" => Row("assertion", a) \in Ahead(v)'
                        /\ pc'[v] \in {"claims", "write"} => Row("assertion", a) \in holds'[v]
        BY DEF AssertionsLocked
    <2>1. NeedsAssertion(v, a)
        BY <1>1 DEF NeedsAssertion
    <2>2. CASE v = w
        BY <2>1, <2>2, <1>1, <1>2 DEF AssertionsLocked, Ahead
    <2>3. CASE v # w
        BY <2>1, <2>3, <1>1, <1>2 DEF AssertionsLocked, Ahead
    <2>. QED
        BY <2>2, <2>3
<1>7. ClaimsLocked'
    <2> SUFFICES ASSUME NEW v \in Worker, NEW k \in Claim, NeedsClaim(v, k)'
                 PROVE  /\ pc'[v] = "claims" => Row("claim", k) \in Ahead(v)'
                        /\ pc'[v] = "write" => Row("claim", k) \in holds'[v]
        BY DEF ClaimsLocked
    <2>1. NeedsClaim(v, k)
        BY <1>1 DEF NeedsClaim, rows
    <2>2. CASE v = w
        <3>1. \E s \in ClaimLocks(cmd[w]) : s.row = Row("claim", k)
            <4>1. CASE cmd[w].kind = "link" /\ k = cmd[w].claim
                <5>1. [rank |-> 0, row |-> Row("claim", k)] \in ClaimLocks(cmd[w])
                    BY <4>1 DEF ClaimLocks
                <5>. QED
                    BY <5>1
            <4>2. CASE cmd[w].kind = "benefit" /\ k \in cmd[w].claims
                <5>1. [rank |-> k, row |-> Row("claim", k)] \in ClaimLocks(cmd[w])
                    BY <4>2 DEF ClaimLocks
                <5>. QED
                    BY <5>1
            <4>3. CASE cmd[w].kind = "freeze" /\ \E b \in bindings : b.assertion \in cmd[w].members /\ b.claim = k
                <5>1. PICK b \in bindings : b.assertion \in cmd[w].members /\ b.claim = k
                    BY <4>3
                <5>2. [rank |-> b.assertion * (LastClaim + 1) + b.claim, row |-> Row("claim", b.claim)]
                          \in ClaimLocks(cmd[w])
                    BY <4>3, <5>1 DEF ClaimLocks
                <5>. QED
                    BY <5>1, <5>2
            <4>. QED
                BY <2>1, <2>2, <4>1, <4>2, <4>3 DEF NeedsClaim
        <3>. QED
            BY <2>2, <3>1, <1>2 DEF Ahead
    <2>3. CASE v # w
        BY <2>1, <2>3, <1>1, <1>2 DEF ClaimsLocked, Ahead
    <2>. QED
        BY <2>2, <2>3
<1>8. LinkApproved'
    BY <1>1, <1>2 DEF LinkApproved, AfterMapFreezes, AfterBeneficiaryFreezes, rows
<1>9. BindApproved' /\ AssertApproved' /\ BenefitApproved'
    BY <1>1, <1>2 DEF BindApproved, AssertApproved, BenefitApproved, DistinctIdentities, rows
<1>. QED
    BY <1>4, <1>5, <1>6, <1>7, <1>8, <1>9

LEMMA CheckStep ==
    ASSUME IInv, NEW w \in Worker, Check(w)
    PROVE  IInv'
<1> USE DEF IInv
<1>1. /\ pc[w] = "claims" /\ todo[w] = {} /\ Allowed(cmd[w])
      /\ pc' = [pc EXCEPT ![w] = "write"]
      /\ holds' = holds /\ todo' = todo /\ cmd' = cmd /\ commands' = commands /\ faults' = faults
      /\ UNCHANGED rows
    BY DEF Check
<1>2. /\ \A v \in Worker \ {w} : pc'[v] = pc[v]
      /\ pc'[w] = "write"
    BY <1>1 DEF Shape, TypeOK
<1>3. DOMAIN prior' = Worker
    BY DEF Check, Shape
<1>4. TypeOK'
    <2>1. \A v \in Worker : cmd'[v] = NoCommand <=> pc'[v] = "idle"
        BY <1>1, <1>2 DEF Shape, TypeOK
    <2>2. \A v \in Worker : pc'[v] = "idle" => todo'[v] = {} /\ holds'[v] = {}
        BY <1>1, <1>2 DEF Shape, TypeOK
    <2>. QED
        BY <1>1, <2>1, <2>2 DEF Shape, TypeOK, rows
<1>5. Shape'
    BY <1>1, <1>2, <1>3, <1>4 DEF Shape
<1>6. Exclusive' /\ HeldAreRecorded' /\ Recorded' /\ OneRevisionPerClaim'
    BY <1>1 DEF Exclusive, HeldAreRecorded, Recorded, OneRevisionPerClaim, rows
<1>7. AssertionsLocked'
    <2> SUFFICES ASSUME NEW v \in Worker, NEW a \in Assertion, NeedsAssertion(v, a)'
                 PROVE  /\ pc'[v] = "identities" => Row("assertion", a) \in Ahead(v)'
                        /\ pc'[v] \in {"claims", "write"} => Row("assertion", a) \in holds'[v]
        BY DEF AssertionsLocked
    <2>1. NeedsAssertion(v, a)
        BY <1>1 DEF NeedsAssertion
    <2>. QED
        BY <2>1, <1>1, <1>2 DEF AssertionsLocked, Ahead
<1>8. ClaimsLocked'
    <2> SUFFICES ASSUME NEW v \in Worker, NEW k \in Claim, NeedsClaim(v, k)'
                 PROVE  /\ pc'[v] = "claims" => Row("claim", k) \in Ahead(v)'
                        /\ pc'[v] = "write" => Row("claim", k) \in holds'[v]
        BY DEF ClaimsLocked
    <2>1. NeedsClaim(v, k)
        BY <1>1 DEF NeedsClaim, rows
    <2>. QED
        BY <2>1, <1>1, <1>2 DEF ClaimsLocked, Ahead
<1>9. LinkApproved'
    <2>1. cmd[w].kind = "link" => LinkAllowed(cmd[w])
        BY <1>1 DEF Allowed
    <2>. QED
        BY <2>1, <1>1, <1>2 DEF LinkApproved, LinkAllowed, AfterMapFreezes, AfterBeneficiaryFreezes, rows
<1>10. BindApproved'
    <2>1. cmd[w].kind = "bind" => BindAllowed(cmd[w])
        BY <1>1 DEF Allowed
    <2>. QED
        BY <2>1, <1>1, <1>2 DEF BindApproved, BindAllowed, rows
<1>11. AssertApproved'
    <2>1. cmd[w].kind = "assert" => AssertAllowed(cmd[w])
        BY <1>1 DEF Allowed
    <2>. QED
        BY <2>1, <1>1, <1>2 DEF AssertApproved, AssertAllowed, DistinctIdentities, rows
<1>12. BenefitApproved'
    <2>1. cmd[w].kind = "benefit" => BenefitAllowed(cmd[w])
        BY <1>1 DEF Allowed
    <2>. QED
        BY <2>1, <1>1, <1>2 DEF BenefitApproved, BenefitAllowed, rows
<1>. QED
    BY <1>5, <1>6, <1>7, <1>8, <1>9, <1>10, <1>11, <1>12

(* The end of a transaction that wrote nothing.                            *)
LEMMA EndStep ==
    ASSUME IInv, NEW w \in Worker, End(w), UNCHANGED rows, faults' \in 0..MaxFaults
    PROVE  IInv'
<1> USE DEF IInv
<1>1. /\ pc' = [pc EXCEPT ![w] = "idle"] /\ cmd' = [cmd EXCEPT ![w] = NoCommand]
      /\ todo' = [todo EXCEPT ![w] = {}] /\ holds' = [holds EXCEPT ![w] = {}]
      /\ prior' = [prior EXCEPT ![w] = 0] /\ commands' = commands
    BY DEF End
<1>2. /\ \A v \in Worker \ {w} :
             pc'[v] = pc[v] /\ cmd'[v] = cmd[v] /\ todo'[v] = todo[v] /\ holds'[v] = holds[v]
      /\ pc'[w] = "idle" /\ cmd'[w] = NoCommand /\ todo'[w] = {} /\ holds'[w] = {}
      /\ DOMAIN todo' = Worker /\ DOMAIN holds' = Worker /\ DOMAIN prior' = Worker
    BY <1>1 DEF Shape, TypeOK
<1>3. TypeOK'
    <2>1. \A v \in Worker : cmd'[v] = NoCommand <=> pc'[v] = "idle"
        BY <1>2 DEF Shape, TypeOK
    <2>2. \A v \in Worker : pc'[v] = "idle" => todo'[v] = {} /\ holds'[v] = {}
        BY <1>2 DEF Shape, TypeOK
    <2>. QED
        BY <1>1, <2>1, <2>2 DEF Shape, TypeOK, rows
<1>4. Shape'
    BY <1>2, <1>3 DEF Shape
<1>5. Exclusive'
    BY <1>2 DEF Exclusive
<1>6. HeldAreRecorded' /\ Recorded' /\ OneRevisionPerClaim'
    BY <1>2 DEF HeldAreRecorded, Recorded, OneRevisionPerClaim, rows
<1>7. AssertionsLocked'
    BY <1>2 DEF AssertionsLocked, NeedsAssertion, Ahead
<1>8. ClaimsLocked'
    BY <1>2 DEF ClaimsLocked, NeedsClaim, Ahead, rows
<1>9. LinkApproved'
    BY <1>2 DEF LinkApproved, AfterMapFreezes, AfterBeneficiaryFreezes, rows
<1>10. BindApproved' /\ AssertApproved' /\ BenefitApproved'
    BY <1>2 DEF BindApproved, AssertApproved, BenefitApproved, DistinctIdentities, rows
<1>. QED
    BY <1>4, <1>5, <1>6, <1>7, <1>8, <1>9, <1>10

-----------------------------------------------------------------------------
(* Commits                                                                 *)

(* Whatever a transaction wrote, its end concerns no other worker's locks. *)
LEMMA Ending ==
    ASSUME IInv, NEW w \in Worker, End(w)
    PROVE  /\ \A v \in Worker \ {w} : /\ pc'[v] = pc[v] /\ cmd'[v] = cmd[v]
                                      /\ todo'[v] = todo[v] /\ holds'[v] = holds[v]
           /\ pc'[w] = "idle" /\ cmd'[w] = NoCommand /\ todo'[w] = {} /\ holds'[w] = {}
           /\ pc' \in [Worker -> {"idle", "identities", "claims", "write"}]
           /\ cmd' \in [Worker -> Command \union {NoCommand}]
           /\ \A v \in Worker : cmd'[v] = NoCommand <=> pc'[v] = "idle"
           /\ \A v \in Worker : pc'[v] = "idle" => todo'[v] = {} /\ holds'[v] = {}
           /\ commands' \in 0..MaxCommands
           /\ DOMAIN todo' = Worker /\ DOMAIN holds' = Worker /\ DOMAIN prior' = Worker
           /\ \A v \in Worker : pc'[v] = "write" => todo'[v] = {}
           /\ Exclusive' /\ AssertionsLocked'
<1> USE DEF IInv
<1>1. /\ pc' = [pc EXCEPT ![w] = "idle"] /\ cmd' = [cmd EXCEPT ![w] = NoCommand]
      /\ todo' = [todo EXCEPT ![w] = {}] /\ holds' = [holds EXCEPT ![w] = {}]
      /\ prior' = [prior EXCEPT ![w] = 0] /\ commands' = commands
    BY DEF End
<1>2. /\ \A v \in Worker \ {w} :
             pc'[v] = pc[v] /\ cmd'[v] = cmd[v] /\ todo'[v] = todo[v] /\ holds'[v] = holds[v]
      /\ pc'[w] = "idle" /\ cmd'[w] = NoCommand /\ todo'[w] = {} /\ holds'[w] = {}
      /\ DOMAIN todo' = Worker /\ DOMAIN holds' = Worker /\ DOMAIN prior' = Worker
    BY <1>1 DEF Shape, TypeOK
<1>3. \A v \in Worker : cmd'[v] = NoCommand <=> pc'[v] = "idle"
    BY <1>2 DEF Shape, TypeOK
<1>4. \A v \in Worker : pc'[v] = "idle" => todo'[v] = {} /\ holds'[v] = {}
    BY <1>2 DEF Shape, TypeOK
<1>5. Exclusive'
    BY <1>2 DEF Exclusive
<1>6. AssertionsLocked'
    BY <1>2 DEF AssertionsLocked, NeedsAssertion, Ahead
<1>7. /\ pc' \in [Worker -> {"idle", "identities", "claims", "write"}]
      /\ cmd' \in [Worker -> Command \union {NoCommand}] /\ commands' \in 0..MaxCommands
    BY <1>1 DEF Shape, TypeOK
<1>8. \A v \in Worker : pc'[v] = "write" => todo'[v] = {}
    BY <1>2 DEF Shape
<1>. QED
    BY <1>2, <1>3, <1>4, <1>5, <1>6, <1>7, <1>8

(* The command of a worker about to commit.                                *)
LEMMA Committer ==
    ASSUME IInv, NEW w \in Worker, pc[w] = "write"
    PROVE  cmd[w] \in Command
    BY DEF IInv, Shape, TypeOK

(* Nobody else holds what a worker at its commit holds.                    *)
LEMMA Alone ==
    ASSUME IInv, NEW w \in Worker, NEW v \in Worker, v # w, pc[w] = "write"
    PROVE  /\ \A a \in Assertion : NeedsAssertion(w, a) => Row("assertion", a) \notin holds[v]
           /\ \A k \in Claim : NeedsClaim(w, k) => Row("claim", k) \notin holds[v]
           /\ \A a \in Assertion : NeedsAssertion(w, a) /\ NeedsAssertion(v, a)
                                       => pc[v] \notin {"claims", "write"}
           /\ \A k \in Claim : NeedsClaim(w, k) /\ NeedsClaim(v, k) => pc[v] # "write"
    BY DEF IInv, Exclusive, AssertionsLocked, ClaimsLocked

LEMMA LinkStep ==
    ASSUME IInv, NEW w \in Worker, LinkEvidence(w)
    PROVE  IInv'
<1> USE DEF IInv
<1> DEFINE new == [claim |-> cmd[w].claim, evidence |-> cmd[w].evidence, at |-> cmd[w].at]
<1>1. /\ End(w) /\ pc[w] = "write" /\ cmd[w].kind = "link"
      /\ links' = links \union {new}
      /\ UNCHANGED <<claimAt, assertionAt, bindings, maps, benefits, pools, cases, profiles, faults>>
    BY DEF LinkEvidence, Committing
<1>2. cmd[w] \in LinkCommand
    BY <1>1, Committer, Parameters
<1>3. new \in Link
    BY <1>2 DEF LinkCommand, Link
<1> HIDE DEF new
<1>4. TypeOK'
    BY <1>1, <1>3, Ending DEF Shape, TypeOK
<1>5. Shape' /\ Exclusive' /\ AssertionsLocked'
    BY <1>1, <1>4, Ending DEF Shape
<1>6. ClaimsLocked'
    BY <1>1, Ending DEF ClaimsLocked, NeedsClaim, Ahead
<1>7. Recorded' /\ HeldAreRecorded' /\ OneRevisionPerClaim'
    BY <1>1, Ending DEF Recorded, HeldAreRecorded, OneRevisionPerClaim
<1>8. LinkApproved'
    BY <1>1, Ending DEF LinkApproved, AfterMapFreezes, AfterBeneficiaryFreezes
<1>9. BindApproved' /\ AssertApproved' /\ BenefitApproved'
    BY <1>1, Ending DEF BindApproved, AssertApproved, BenefitApproved, DistinctIdentities
<1>. QED
    BY <1>5, <1>6, <1>7, <1>8, <1>9

LEMMA ClaimStep ==
    ASSUME IInv, NEW w \in Worker, AppendClaimRevision(w)
    PROVE  IInv'
<1> USE DEF IInv
<1> DEFINE new == {[claim |-> cmd[w].claim, evidence |-> e, at |-> cmd[w].at] : e \in cmd[w].evidence}
<1>1. /\ End(w) /\ pc[w] = "write" /\ cmd[w].kind = "claim"
      /\ claimAt' = [claimAt EXCEPT ![cmd[w].claim] = cmd[w].at]
      /\ links' = links \union new
      /\ UNCHANGED <<assertionAt, bindings, maps, benefits, pools, cases, profiles, faults>>
    BY DEF AppendClaimRevision, Committing
<1>2. cmd[w] \in ClaimCommand
    BY <1>1, Committer, Parameters
<1>3. new \subseteq Link
    BY <1>2 DEF ClaimCommand, Link
<1> HIDE DEF new
<1>4. TypeOK'
    <2>1. claimAt' \in [Claim -> Clock \union {0}]
        BY <1>1, <1>2 DEF Shape, TypeOK, ClaimCommand
    <2>. QED
        BY <2>1, <1>1, <1>3, Ending DEF Shape, TypeOK
<1>5. Shape' /\ Exclusive' /\ AssertionsLocked'
    BY <1>1, <1>4, Ending DEF Shape
<1>6. \A k \in Claim : claimAt[k] # 0 => claimAt'[k] # 0
    BY <1>1, <1>2, LedgerAssumption DEF Shape, TypeOK, ClaimCommand
<1>7. ClaimsLocked'
    BY <1>1, Ending DEF ClaimsLocked, NeedsClaim, Ahead
<1>8. Recorded' /\ HeldAreRecorded' /\ OneRevisionPerClaim'
    BY <1>1, <1>6, Ending DEF Recorded, HeldAreRecorded, OneRevisionPerClaim, Shape, TypeOK, Binding
<1>9. LinkApproved'
    BY <1>1, Ending DEF LinkApproved, AfterMapFreezes, AfterBeneficiaryFreezes
<1>10. BindApproved'
    <2>1. \A v \in Worker : pc[v] = "write" /\ cmd[v].kind = "bind" => cmd[v].claim \in Claim
        BY Committer, Parameters DEF BindCommand
    <2>. QED
        BY <2>1, <1>1, <1>6, Ending DEF BindApproved
<1>11. AssertApproved'
    <2>1. \A v \in Worker : pc[v] = "write" /\ cmd[v].kind = "assert" => cmd[v].claims \subseteq Claim
        BY Committer, Parameters DEF AssertCommand
    <2>. QED
        BY <2>1, <1>1, <1>6, Ending DEF AssertApproved, DistinctIdentities
<1>12. BenefitApproved'
    <2>1. \A v \in Worker : pc[v] = "write" /\ cmd[v].kind = "benefit" => cmd[v].claims \subseteq Claim
        BY Committer, Parameters DEF BenefitCommand
    <2>. QED
        BY <2>1, <1>1, <1>6, Ending DEF BenefitApproved
<1>. QED
    BY <1>5, <1>7, <1>8, <1>9, <1>10, <1>11, <1>12

LEMMA BindStep ==
    ASSUME IInv, NEW w \in Worker, LinkClaimRevision(w)
    PROVE  IInv'
<1> USE DEF IInv
<1> DEFINE new == [assertion |-> cmd[w].assertion, claim |-> cmd[w].claim, at |-> cmd[w].at]
<1>1. /\ End(w) /\ pc[w] = "write" /\ cmd[w].kind = "bind"
      /\ bindings' = bindings \union {new}
      /\ UNCHANGED <<claimAt, links, assertionAt, maps, benefits, pools, cases, profiles, faults>>
    BY DEF LinkClaimRevision, Committing
<1>2. cmd[w] \in BindCommand
    BY <1>1, Committer, Parameters
<1>3. /\ new \in Binding /\ new.assertion = cmd[w].assertion /\ new.claim = cmd[w].claim
      /\ new.at = cmd[w].at /\ new.assertion \in Assertion
    BY <1>2 DEF BindCommand, Binding
<1> HIDE DEF new
<1>4. TypeOK'
    BY <1>1, <1>3, Ending DEF Shape, TypeOK
<1>5. Shape' /\ Exclusive' /\ AssertionsLocked'
    BY <1>1, <1>4, Ending DEF Shape
<1>6. NeedsAssertion(w, new.assertion)
    BY <1>1, <1>3 DEF NeedsAssertion
<1>7. ClaimsLocked'
    <2> SUFFICES ASSUME NEW v \in Worker, NEW k \in Claim, NeedsClaim(v, k)', v # w
                 PROVE  /\ pc'[v] = "claims" => Row("claim", k) \in Ahead(v)'
                        /\ pc'[v] = "write" => Row("claim", k) \in holds'[v]
        BY <1>1, Ending DEF ClaimsLocked
    <2>1. CASE NeedsClaim(v, k)
        BY <2>1, <1>1, Ending DEF ClaimsLocked, Ahead
    <2>2. CASE ~NeedsClaim(v, k)
        <3>1. cmd[v].kind = "freeze" /\ new.assertion \in cmd[v].members
            BY <2>2, <1>1, Ending DEF NeedsClaim
        <3>2. NeedsAssertion(v, new.assertion)
            BY <3>1 DEF NeedsAssertion
        <3>3. pc[v] \notin {"claims", "write"}
            BY <3>2, <1>1, <1>3, <1>6, Alone
        <3>. QED
            BY <3>3, <1>1, Ending
    <2>. QED
        BY <2>1, <2>2
<1>8. Recorded' /\ HeldAreRecorded'
    BY <1>1, <1>3, Ending DEF Recorded, HeldAreRecorded, BindApproved
<1>9. LinkApproved'
    <2> SUFFICES ASSUME NEW v \in Worker, v # w, pc[v] = "write", cmd[v].kind = "link"
                 PROVE  /\ AfterMapFreezes(cmd[v].claim, cmd[v].at)'
                        /\ AfterBeneficiaryFreezes(cmd[v].claim, cmd[v].at)'
        BY <1>1, Ending DEF LinkApproved
    <2>1. AfterMapFreezes(cmd[v].claim, cmd[v].at) /\ AfterBeneficiaryFreezes(cmd[v].claim, cmd[v].at)
        BY DEF LinkApproved
    <2>2. \A m \in maps : new.assertion \in m.members => ~(new.at <= m.at)
        <3>1. \A m \in maps : m.at \in Nat
            BY LedgerAssumption DEF Shape, TypeOK
        <3>2. new.at \in Nat
            BY <1>3, LedgerAssumption DEF Binding
        <3>. QED
            BY <3>1, <3>2, <1>1, <1>3 DEF BindApproved
    <2>3. cmd'[v] = cmd[v]
        BY <1>1, Ending
    <2>. QED
        BY <2>1, <2>2, <2>3, <1>1 DEF AfterMapFreezes, AfterBeneficiaryFreezes
<1>10. BindApproved'
    <2> SUFFICES ASSUME NEW v \in Worker, v # w, pc[v] = "write", cmd[v].kind = "bind"
                 PROVE  /\ claimAt[cmd[v].claim] # 0 /\ assertionAt[cmd[v].assertion] # 0
                        /\ \A m \in maps : cmd[v].assertion \in m.members => cmd[v].at > m.at
                        /\ \A b \in bindings' : b.assertion = cmd[v].assertion =>
                               IdentityOf[b.claim] # IdentityOf[cmd[v].claim]
        BY <1>1, Ending DEF BindApproved
    <2>1. cmd[v].assertion # new.assertion
        BY <1>1, <1>3, <1>6, Alone DEF NeedsAssertion
    <2>. QED
        BY <2>1, <1>1 DEF BindApproved
<1>11. AssertApproved' /\ BenefitApproved'
    BY <1>1, Ending DEF AssertApproved, BenefitApproved, DistinctIdentities
<1>12. OneRevisionPerClaim'
    BY <1>1, <1>3 DEF OneRevisionPerClaim, BindApproved
<1>. QED
    BY <1>5, <1>7, <1>8, <1>9, <1>10, <1>11, <1>12

LEMMA AssertStep ==
    ASSUME IInv, NEW w \in Worker, AppendAssertionRevision(w)
    PROVE  IInv'
<1> USE DEF IInv
<1> DEFINE x == cmd[w].assertion
<1> DEFINE new == {[assertion |-> x, claim |-> k, at |-> cmd[w].at] : k \in cmd[w].claims}
<1>1. /\ End(w) /\ pc[w] = "write" /\ cmd[w].kind = "assert" /\ ~Duplicate(w)
      /\ assertionAt' = [assertionAt EXCEPT ![x] = cmd[w].at]
      /\ bindings' = bindings \union new
      /\ UNCHANGED <<claimAt, links, maps, benefits, pools, cases, profiles, faults>>
    BY DEF AppendAssertionRevision, Committing
<1>2. cmd[w] \in AssertCommand
    BY <1>1, Committer, Parameters
<1>3. assertionAt[x] = 0
    BY <1>1 DEF Duplicate
<1>4. /\ new \subseteq Binding
      /\ \A b \in new : b.assertion = x /\ b.claim \in cmd[w].claims
    BY <1>2 DEF AssertCommand, Binding
<1>5. x \in Assertion
    BY <1>2 DEF AssertCommand
<1>6. assertionAt' \in [Assertion -> Clock \union {0}]
    BY <1>1, <1>2 DEF Shape, TypeOK, AssertCommand
<1>7. \A a \in Assertion : assertionAt[a] # 0 => assertionAt'[a] = assertionAt[a]
    BY <1>1, <1>3 DEF Shape, TypeOK
<1>8. assertionAt'[x] # 0
    BY <1>1, <1>2, LedgerAssumption DEF Shape, TypeOK, AssertCommand
<1> HIDE DEF new, x
<1>9. TypeOK'
    BY <1>1, <1>4, <1>6, Ending DEF Shape, TypeOK
<1>10. Shape' /\ Exclusive' /\ AssertionsLocked'
    BY <1>1, <1>9, Ending DEF Shape
<1>11. /\ \A m \in maps : x \notin m.members
       /\ \A b \in bindings : b.assertion # x
       /\ \A v \in Worker : Row("assertion", x) \notin holds[v]
    BY <1>3, <1>5 DEF Recorded, HeldAreRecorded
<1>12. ClaimsLocked'
    <2> SUFFICES ASSUME NEW v \in Worker, NEW k \in Claim, NeedsClaim(v, k)', v # w
                 PROVE  /\ pc'[v] = "claims" => Row("claim", k) \in Ahead(v)'
                        /\ pc'[v] = "write" => Row("claim", k) \in holds'[v]
        BY <1>1, Ending DEF ClaimsLocked
    <2>1. CASE NeedsClaim(v, k)
        BY <2>1, <1>1, Ending DEF ClaimsLocked, Ahead
    <2>2. CASE ~NeedsClaim(v, k)
        <3>1. cmd[v].kind = "freeze" /\ x \in cmd[v].members
            BY <2>2, <1>1, <1>4, Ending DEF NeedsClaim
        <3>2. NeedsAssertion(v, x)
            BY <3>1 DEF NeedsAssertion
        <3>3. pc[v] \notin {"claims", "write"}
            BY <3>2, <1>5, <1>11 DEF AssertionsLocked
        <3>. QED
            BY <3>3, <1>1, Ending
    <2>. QED
        BY <2>1, <2>2
<1>13. Recorded'
    <2>1. \A k \in cmd[w].claims : claimAt[k] # 0
        BY <1>1 DEF AssertApproved
    <2>2. \A m \in maps : m.members \subseteq Assertion
        BY DEF Shape, TypeOK
    <2>3. \A b \in bindings : b.assertion \in Assertion
        BY DEF Shape, TypeOK, Binding
    <2>. QED
        BY <2>1, <2>2, <2>3, <1>1, <1>4, <1>7, <1>8 DEF Recorded
<1>14. HeldAreRecorded'
    BY <1>1, <1>7, Ending DEF HeldAreRecorded
<1>15. LinkApproved'
    <2> SUFFICES ASSUME NEW v \in Worker, v # w, pc[v] = "write", cmd[v].kind = "link"
                 PROVE  /\ AfterMapFreezes(cmd[v].claim, cmd[v].at)'
                        /\ AfterBeneficiaryFreezes(cmd[v].claim, cmd[v].at)'
        BY <1>1, Ending DEF LinkApproved
    <2>1. AfterMapFreezes(cmd[v].claim, cmd[v].at) /\ AfterBeneficiaryFreezes(cmd[v].claim, cmd[v].at)
        BY DEF LinkApproved
    <2>2. cmd'[v] = cmd[v]
        BY <1>1, Ending
    <2>. QED
        BY <2>1, <2>2, <1>1, <1>4, <1>11 DEF AfterMapFreezes, AfterBeneficiaryFreezes
<1>16. BindApproved'
    <2> SUFFICES ASSUME NEW v \in Worker, v # w, pc[v] = "write", cmd[v].kind = "bind"
                 PROVE  /\ claimAt[cmd[v].claim] # 0 /\ assertionAt'[cmd[v].assertion] # 0
                        /\ \A m \in maps : cmd[v].assertion \in m.members => cmd[v].at > m.at
                        /\ \A b \in bindings' : b.assertion = cmd[v].assertion =>
                               IdentityOf[b.claim] # IdentityOf[cmd[v].claim]
        BY <1>1, Ending DEF BindApproved
    <2>1. cmd[v].assertion \in Assertion
        BY Committer, Parameters DEF BindCommand
    <2>2. assertionAt[cmd[v].assertion] # 0 /\ cmd[v].assertion # x
        BY <1>3 DEF BindApproved
    <2>. QED
        BY <2>1, <2>2, <1>1, <1>4, <1>7 DEF BindApproved
<1>17. AssertApproved' /\ BenefitApproved'
    BY <1>1, Ending DEF AssertApproved, BenefitApproved, DistinctIdentities
<1>18. OneRevisionPerClaim'
    BY <1>1, <1>4, <1>11 DEF OneRevisionPerClaim, AssertApproved, DistinctIdentities
<1>. QED
    BY <1>10, <1>12, <1>13, <1>14, <1>15, <1>16, <1>17, <1>18

LEMMA FreezeStep ==
    ASSUME IInv, NEW w \in Worker, AppendMapRevision(w)
    PROVE  IInv'
<1> USE DEF IInv
<1> DEFINE new == MapRow(cmd[w], prior[w] + 1)
<1>1. /\ End(w) /\ pc[w] = "write" /\ cmd[w].kind = "freeze"
      /\ maps' = maps \union {new}
      /\ UNCHANGED <<claimAt, links, assertionAt, bindings, benefits, pools, cases, profiles, faults>>
    BY DEF AppendMapRevision, Committing
<1>2. cmd[w] \in FreezeCommand
    BY <1>1, Committer, Parameters
<1>3. new.at \in Clock /\ new.members = cmd[w].members /\ new.members \subseteq Assertion
    BY <1>2 DEF FreezeCommand, MapRow
<1> HIDE DEF new
<1>4. TypeOK'
    BY <1>1, <1>3, Ending DEF Shape, TypeOK
<1>5. Shape' /\ Exclusive' /\ AssertionsLocked'
    BY <1>1, <1>4, Ending DEF Shape
<1>6. ClaimsLocked'
    BY <1>1, Ending DEF ClaimsLocked, NeedsClaim, Ahead
<1>7. \A a \in new.members : NeedsAssertion(w, a) /\ a \in Assertion
    BY <1>1, <1>3 DEF NeedsAssertion
<1>8. \A a \in new.members : assertionAt[a] # 0
    BY <1>1, <1>7 DEF AssertionsLocked, HeldAreRecorded
<1>9. Recorded' /\ HeldAreRecorded' /\ OneRevisionPerClaim'
    BY <1>1, <1>8, Ending DEF Recorded, HeldAreRecorded, OneRevisionPerClaim
<1>10. LinkApproved'
    <2> SUFFICES ASSUME NEW v \in Worker, v # w, pc[v] = "write", cmd[v].kind = "link"
                 PROVE  /\ AfterMapFreezes(cmd[v].claim, cmd[v].at)'
                        /\ AfterBeneficiaryFreezes(cmd[v].claim, cmd[v].at)'
        BY <1>1, Ending DEF LinkApproved
    <2>1. AfterMapFreezes(cmd[v].claim, cmd[v].at) /\ AfterBeneficiaryFreezes(cmd[v].claim, cmd[v].at)
        BY DEF LinkApproved
    <2>2. cmd[v].claim \in Claim /\ NeedsClaim(v, cmd[v].claim)
        BY Committer, Parameters DEF LinkCommand, NeedsClaim
    <2>3. ~NeedsClaim(w, cmd[v].claim)
        BY <2>2, <1>1, Alone
    <2>4. \A b \in bindings : b.assertion \in new.members => b.claim # cmd[v].claim
        BY <2>3, <1>1, <1>3 DEF NeedsClaim
    <2>5. cmd'[v] = cmd[v]
        BY <1>1, Ending
    <2>. QED
        BY <2>1, <2>4, <2>5, <1>1 DEF AfterMapFreezes, AfterBeneficiaryFreezes
<1>11. BindApproved'
    <2> SUFFICES ASSUME NEW v \in Worker, v # w, pc[v] = "write", cmd[v].kind = "bind"
                 PROVE  /\ claimAt[cmd[v].claim] # 0 /\ assertionAt[cmd[v].assertion] # 0
                        /\ \A m \in maps' : cmd[v].assertion \in m.members => cmd[v].at > m.at
                        /\ \A b \in bindings : b.assertion = cmd[v].assertion =>
                               IdentityOf[b.claim] # IdentityOf[cmd[v].claim]
        BY <1>1, Ending DEF BindApproved
    <2>1. cmd[v].assertion \in Assertion /\ NeedsAssertion(v, cmd[v].assertion)
        BY Committer, Parameters DEF BindCommand, NeedsAssertion
    <2>2. cmd[v].assertion \notin new.members
        BY <2>1, <1>1, <1>7, Alone
    <2>. QED
        BY <2>2, <1>1 DEF BindApproved
<1>12. AssertApproved' /\ BenefitApproved'
    BY <1>1, Ending DEF AssertApproved, BenefitApproved, DistinctIdentities
<1>. QED
    BY <1>5, <1>6, <1>9, <1>10, <1>11, <1>12

LEMMA BenefitStep ==
    ASSUME IInv, NEW w \in Worker, AppendBeneficiaryRevision(w)
    PROVE  IInv'
<1> USE DEF IInv
<1> DEFINE new == BenefitRow(cmd[w], prior[w] + 1)
<1>1. /\ End(w) /\ pc[w] = "write" /\ cmd[w].kind = "benefit"
      /\ benefits' = benefits \union {new}
      /\ UNCHANGED <<claimAt, links, assertionAt, bindings, maps, pools, cases, profiles, faults>>
    BY DEF AppendBeneficiaryRevision, Committing
<1>2. cmd[w] \in BenefitCommand
    BY <1>1, Committer, Parameters
<1>3. /\ new.beneficiary \in Beneficiary /\ new.at \in Clock
      /\ new.claims = cmd[w].claims /\ new.claims \subseteq Claim /\ new.assertions \subseteq Assertion
    BY <1>2 DEF BenefitCommand, BenefitRow
<1> HIDE DEF new
<1>4. TypeOK'
    BY <1>1, <1>3, Ending DEF Shape, TypeOK
<1>5. Shape' /\ Exclusive' /\ AssertionsLocked'
    BY <1>1, <1>4, Ending DEF Shape
<1>6. ClaimsLocked'
    BY <1>1, Ending DEF ClaimsLocked, NeedsClaim, Ahead
<1>7. \A k \in new.claims : claimAt[k] # 0 /\ k \in Claim /\ NeedsClaim(w, k)
    BY <1>1, <1>3 DEF BenefitApproved, NeedsClaim
<1>8. Recorded' /\ HeldAreRecorded' /\ OneRevisionPerClaim'
    BY <1>1, <1>7, Ending DEF Recorded, HeldAreRecorded, OneRevisionPerClaim
<1>9. LinkApproved'
    <2> SUFFICES ASSUME NEW v \in Worker, v # w, pc[v] = "write", cmd[v].kind = "link"
                 PROVE  /\ AfterMapFreezes(cmd[v].claim, cmd[v].at)'
                        /\ AfterBeneficiaryFreezes(cmd[v].claim, cmd[v].at)'
        BY <1>1, Ending DEF LinkApproved
    <2>1. AfterMapFreezes(cmd[v].claim, cmd[v].at) /\ AfterBeneficiaryFreezes(cmd[v].claim, cmd[v].at)
        BY DEF LinkApproved
    <2>2. NeedsClaim(v, cmd[v].claim)
        BY DEF NeedsClaim
    <2>3. cmd[v].claim \notin new.claims
        BY <2>2, <1>1, <1>7, Alone
    <2>4. cmd'[v] = cmd[v]
        BY <1>1, Ending
    <2>. QED
        BY <2>1, <2>3, <2>4, <1>1 DEF AfterMapFreezes, AfterBeneficiaryFreezes
<1>10. BindApproved' /\ AssertApproved' /\ BenefitApproved'
    BY <1>1, Ending DEF BindApproved, AssertApproved, BenefitApproved, DistinctIdentities
<1>. QED
    BY <1>5, <1>6, <1>8, <1>9, <1>10

(* Pools, cases and profiles are referred to by nothing else.              *)
LEMMA OtherStep ==
    ASSUME IInv, NEW w \in Worker,
           AppendCandidatePoolRevision(w) \/ AppendCaseRevision(w) \/ AppendProfileRevision(w)
    PROVE  IInv'
<1> USE DEF IInv
<1>1. /\ End(w) /\ pc[w] = "write" /\ cmd[w].kind \in {"pool", "case", "profile"}
      /\ UNCHANGED <<claimAt, links, assertionAt, bindings, maps, benefits, faults>>
    BY DEF AppendCandidatePoolRevision, AppendCaseRevision, AppendProfileRevision, Committing
<1>2. cmd[w] \in Command
    BY <1>1, Committer
<1>3. /\ \A p \in pools' : p.at \in Clock
      /\ \A v \in cases' : v.at \in Clock /\ v.claims \subseteq Claim
      /\ \A p \in profiles' : p.beneficiary \in Beneficiary /\ p.at \in Clock /\ p.drivers \subseteq Assertion
                               /\ p.assertions \subseteq Semantic
    <2>1. CASE AppendCandidatePoolRevision(w)
        <3>1. cmd[w].at \in Clock
            BY <1>2, Parameters
        <3>. QED
            BY <2>1, <3>1 DEF AppendCandidatePoolRevision, Shape, TypeOK
    <2>2. CASE AppendCaseRevision(w)
        <3>1. cmd[w] \in CaseCommand
            BY <2>2, <1>2, Parameters DEF AppendCaseRevision, Committing
        <3>2. cmd[w].at \in Clock /\ cmd[w].claims \subseteq Claim
            BY <3>1 DEF CaseCommand
        <3>. QED
            BY <2>2, <3>2 DEF AppendCaseRevision, Shape, TypeOK
    <2>3. CASE AppendProfileRevision(w)
        <3>1. cmd[w] \in ProfileCommand
            BY <2>3, <1>2, Parameters DEF AppendProfileRevision, Committing
        <3>2. /\ cmd[w].beneficiary \in Beneficiary /\ cmd[w].at \in Clock
              /\ cmd[w].drivers \subseteq Assertion /\ cmd[w].assertions \subseteq Semantic
            BY <3>1 DEF ProfileCommand
        <3>. QED
            BY <2>3, <3>2 DEF AppendProfileRevision, ProfileRow, Shape, TypeOK
    <2>. QED
        BY <1>1, <2>1, <2>2, <2>3
<1>4. TypeOK'
    BY <1>1, <1>3, Ending DEF Shape, TypeOK
<1>5. Shape' /\ Exclusive' /\ AssertionsLocked'
    BY <1>1, <1>4, Ending DEF Shape
<1>6. ClaimsLocked'
    BY <1>1, Ending DEF ClaimsLocked, NeedsClaim, Ahead
<1>7. Recorded' /\ HeldAreRecorded' /\ OneRevisionPerClaim'
    BY <1>1, Ending DEF Recorded, HeldAreRecorded, OneRevisionPerClaim
<1>8. LinkApproved'
    BY <1>1, Ending DEF LinkApproved, AfterMapFreezes, AfterBeneficiaryFreezes
<1>9. BindApproved' /\ AssertApproved' /\ BenefitApproved'
    BY <1>1, Ending DEF BindApproved, AssertApproved, BenefitApproved, DistinctIdentities
<1>. QED
    BY <1>5, <1>6, <1>7, <1>8, <1>9

LEMMA CommitStep ==
    ASSUME IInv, NEW w \in Worker, Commit(w)
    PROVE  IInv'
    BY LinkStep, ClaimStep, BindStep, AssertStep, FreezeStep, BenefitStep, OtherStep DEF Commit

LEMMA StutterStep == IInv /\ UNCHANGED vars => IInv'
<1> SUFFICES ASSUME IInv, UNCHANGED vars PROVE IInv'
    OBVIOUS
<1> USE DEF IInv, vars, rows
<1>1. TypeOK'
    BY DEF Shape, TypeOK
<1>2. Shape' /\ Exclusive' /\ HeldAreRecorded' /\ Recorded' /\ OneRevisionPerClaim'
    BY <1>1 DEF Shape, Exclusive, HeldAreRecorded, Recorded, OneRevisionPerClaim
<1>3. AssertionsLocked' /\ ClaimsLocked'
    BY DEF AssertionsLocked, ClaimsLocked, NeedsAssertion, NeedsClaim, Ahead
<1>4. LinkApproved' /\ BindApproved' /\ AssertApproved' /\ BenefitApproved'
    BY DEF LinkApproved, BindApproved, AssertApproved, BenefitApproved, AfterMapFreezes,
        AfterBeneficiaryFreezes, DistinctIdentities
<1>. QED
    BY <1>2, <1>3, <1>4

LEMMA NextInv == IInv /\ [Next]_vars => IInv'
<1> SUFFICES ASSUME IInv, [Next]_vars PROVE IInv'
    OBVIOUS
<1>1. ASSUME NEW w \in Worker, NEW c \in Command, Start(w, c) PROVE IInv'
    BY <1>1, StartStep
<1>2. ASSUME NEW w \in Worker, Reject(w) \/ Conflict(w) \/ DeadlockVictim(w) PROVE IInv'
    <2>1. End(w) /\ UNCHANGED rows /\ faults' = faults
        BY <1>2 DEF Reject, Conflict, DeadlockVictim
    <2>2. faults' \in 0..MaxFaults
        BY <2>1 DEF IInv, Shape, TypeOK
    <2>. QED
        BY <2>1, <2>2, EndStep
<1>3. ASSUME NEW w \in Worker, Fail(w) PROVE IInv'
    <2>1. End(w) /\ UNCHANGED rows /\ faults' = faults + 1 /\ faults < MaxFaults
        BY <1>3 DEF Fail
    <2>2. faults' \in 0..MaxFaults
        BY <2>1, LedgerAssumption DEF IInv, Shape, TypeOK
    <2>. QED
        BY <2>1, <2>2, EndStep
<1>4. ASSUME NEW w \in Worker, Step(w) PROVE IInv'
    BY <1>2, <1>4, LockStep, ResolveStep, CheckStep, CommitStep DEF Step
<1>5. CASE UNCHANGED vars
    BY <1>5, StutterStep
<1>. QED
    BY <1>1, <1>3, <1>4, <1>5 DEF Next, Finished

LEMMA AlwaysInv == Spec => []IInv
    BY InitInv, NextInv, PTL DEF Spec

-----------------------------------------------------------------------------
(* Frozen views                                                            *)

(* A view is determined by its bindings and by the evidence of its claims. *)
LEMMA ViewKept ==
    ASSUME NEW m \in maps,
           \A a \in m.members : BoundTo(a, m.at)' = BoundTo(a, m.at),
           \A a \in m.members : \A k \in BoundTo(a, m.at) : LinksOf(k, m.at)' = LinksOf(k, m.at)
    PROVE  MapView(m)' = MapView(m)
<1> DEFINE E(a) == UNION {LinksOf(c, m.at) : c \in BoundTo(a, m.at)}
<1>1. \A a \in m.members : E(a)' = E(a)
    OBVIOUS
<1>2. MapView(m) = {[assertion |-> a, claims |-> BoundTo(a, m.at), evidence |-> E(a)] : a \in m.members}
    BY DEF MapView, AssertionView
<1>3. MapView(m)' = {[assertion |-> a, claims |-> BoundTo(a, m.at)', evidence |-> E(a)'] : a \in m.members}
    BY DEF MapView, AssertionView
<1> HIDE DEF E
<1>. QED
    BY <1>1, <1>2, <1>3

(* What is bound to an assertion by then, when only new bindings appear.   *)
LEMMA BoundKept ==
    ASSUME NEW a, NEW at, NEW new, bindings' = bindings \union new,
           \A b \in new : ~(b.assertion = a /\ b.at <= at)
    PROVE  BoundTo(a, at)' = BoundTo(a, at)
    BY DEF BoundTo

LEMMA EvidenceKept ==
    ASSUME NEW k, NEW at, NEW new, links' = links \union new,
           \A l \in new : ~(l.claim = k /\ l.at <= at)
    PROVE  LinksOf(k, at)' = LinksOf(k, at)
    BY DEF LinksOf

LEMMA BoundKeptByOne ==
    ASSUME NEW a, NEW at, NEW b, bindings' = bindings \union {b}, ~(b.assertion = a /\ b.at <= at)
    PROVE  BoundTo(a, at)' = BoundTo(a, at)
    BY DEF BoundTo

LEMMA EvidenceKeptByOne ==
    ASSUME NEW k, NEW at, NEW l, links' = links \union {l}, ~(l.claim = k /\ l.at <= at)
    PROVE  LinksOf(k, at)' = LinksOf(k, at)
    BY DEF LinksOf

LEMMA SameViews ==
    ASSUME links' = links, bindings' = bindings
    PROVE  /\ \A m \in maps : MapView(m)' = MapView(m)
           /\ \A b \in benefits : BenefitView(b)' = BenefitView(b)
    BY DEF MapView, AssertionView, BenefitView, BoundTo, LinksOf

LEMMA TimesAreNumbers ==
    ASSUME IInv
    PROVE  /\ \A m \in maps : m.at \in Nat
           /\ \A b \in benefits : b.at \in Nat
           /\ \A c \in Command : c.at \in Nat
    BY LedgerAssumption, Parameters DEF IInv, Shape, TypeOK

LEMMA LinkKeepsViews ==
    ASSUME IInv, NEW w \in Worker, LinkEvidence(w)
    PROVE  /\ \A m \in maps : MapView(m)' = MapView(m)
           /\ \A b \in benefits : BenefitView(b)' = BenefitView(b)
<1> DEFINE l == [claim |-> cmd[w].claim, evidence |-> cmd[w].evidence, at |-> cmd[w].at]
<1>1. /\ links' = links \union {l} /\ bindings' = bindings
      /\ pc[w] = "write" /\ cmd[w].kind = "link"
    BY DEF LinkEvidence, Committing
<1>2. /\ l.claim = cmd[w].claim /\ l.at = cmd[w].at
      /\ AfterMapFreezes(l.claim, l.at) /\ AfterBeneficiaryFreezes(l.claim, l.at) /\ l.at \in Nat
    BY <1>1, Committer, TimesAreNumbers DEF IInv, LinkApproved
<1> HIDE DEF l
<1>3. ASSUME NEW m \in maps PROVE MapView(m)' = MapView(m)
    <2>1. \A a \in m.members : BoundTo(a, m.at)' = BoundTo(a, m.at)
        BY <1>1 DEF BoundTo
    <2>2. ASSUME NEW a \in m.members, NEW k \in BoundTo(a, m.at)
          PROVE  LinksOf(k, m.at)' = LinksOf(k, m.at)
        <3>1. PICK b \in bindings : b.assertion = a /\ b.at <= m.at /\ b.claim = k
            BY <2>2 DEF BoundTo
        <3>2. ~(l.claim = k /\ l.at <= m.at)
            BY <3>1, <1>2, TimesAreNumbers DEF AfterMapFreezes
        <3>. QED
            BY <3>2, <1>1, EvidenceKeptByOne
    <2>. QED
        BY <2>1, <2>2, ViewKept
<1>4. ASSUME NEW b \in benefits PROVE BenefitView(b)' = BenefitView(b)
    <2>1. \A k \in b.claims : ~(l.claim = k /\ l.at <= b.at)
        BY <1>2, TimesAreNumbers DEF AfterBeneficiaryFreezes
    <2>2. ASSUME NEW k \in b.claims PROVE LinksOf(k, b.at)' = LinksOf(k, b.at)
        BY <2>1, <1>1, EvidenceKeptByOne
    <2>. QED
        BY <2>2 DEF BenefitView
<1>. QED
    BY <1>3, <1>4

LEMMA ClaimKeepsViews ==
    ASSUME IInv, NEW w \in Worker, AppendClaimRevision(w)
    PROVE  /\ \A m \in maps : MapView(m)' = MapView(m)
           /\ \A b \in benefits : BenefitView(b)' = BenefitView(b)
<1> DEFINE new == {[claim |-> cmd[w].claim, evidence |-> e, at |-> cmd[w].at] : e \in cmd[w].evidence}
<1>1. /\ links' = links \union new /\ bindings' = bindings
      /\ cmd[w].kind = "claim" /\ ~Duplicate(w)
    BY DEF AppendClaimRevision, Committing
<1>2. claimAt[cmd[w].claim] = 0 /\ \A l \in new : l.claim = cmd[w].claim
    BY <1>1 DEF Duplicate
<1> HIDE DEF new
<1>3. ASSUME NEW m \in maps PROVE MapView(m)' = MapView(m)
    <2>1. \A a \in m.members : BoundTo(a, m.at)' = BoundTo(a, m.at)
        BY <1>1 DEF BoundTo
    <2>2. ASSUME NEW a \in m.members, NEW k \in BoundTo(a, m.at)
          PROVE  LinksOf(k, m.at)' = LinksOf(k, m.at)
        <3>1. k # cmd[w].claim
            BY <2>2, <1>2 DEF BoundTo, IInv, Recorded
        <3>. QED
            BY <3>1, <1>1, <1>2, EvidenceKept
    <2>. QED
        BY <2>1, <2>2, ViewKept
<1>4. ASSUME NEW b \in benefits PROVE BenefitView(b)' = BenefitView(b)
    <2>1. \A k \in b.claims : k # cmd[w].claim
        BY <1>2 DEF IInv, Recorded
    <2>2. \A k \in b.claims : LinksOf(k, b.at)' = LinksOf(k, b.at)
        BY <2>1, <1>1, <1>2, EvidenceKept
    <2>. QED
        BY <2>2 DEF BenefitView
<1>. QED
    BY <1>3, <1>4

LEMMA BindingsKeepViews ==
    ASSUME IInv, NEW w \in Worker, LinkClaimRevision(w) \/ AppendAssertionRevision(w)
    PROVE  /\ \A m \in maps : MapView(m)' = MapView(m)
           /\ \A b \in benefits : BenefitView(b)' = BenefitView(b)
<1>1. links' = links
    BY DEF LinkClaimRevision, AppendAssertionRevision
<1>2. ASSUME NEW m \in maps PROVE MapView(m)' = MapView(m)
    <2>1. ASSUME NEW a \in m.members PROVE BoundTo(a, m.at)' = BoundTo(a, m.at)
        <3>1. CASE LinkClaimRevision(w)
            <4> DEFINE b == [assertion |-> cmd[w].assertion, claim |-> cmd[w].claim, at |-> cmd[w].at]
            <4>1. /\ bindings' = bindings \union {b} /\ pc[w] = "write" /\ cmd[w].kind = "bind"
                  /\ b.assertion = cmd[w].assertion /\ b.at = cmd[w].at
                BY <3>1 DEF LinkClaimRevision, Committing
            <4> HIDE DEF b
            <4>2. cmd[w].at \in Nat /\ m.at \in Nat
                BY <4>1, Committer, TimesAreNumbers
            <4>3. ~(b.assertion = a /\ b.at <= m.at)
                BY <4>1, <4>2 DEF IInv, BindApproved
            <4>. QED
                BY <4>1, <4>3, BoundKeptByOne
        <3>2. CASE AppendAssertionRevision(w)
            <4> DEFINE new == {[assertion |-> cmd[w].assertion, claim |-> k, at |-> cmd[w].at] :
                                   k \in cmd[w].claims}
            <4>1. /\ bindings' = bindings \union new /\ cmd[w].kind = "assert" /\ ~Duplicate(w)
                  /\ \A b \in new : b.assertion = cmd[w].assertion
                BY <3>2 DEF AppendAssertionRevision, Committing
            <4> HIDE DEF new
            <4>2. assertionAt[cmd[w].assertion] = 0
                BY <4>1 DEF Duplicate
            <4>3. cmd[w].assertion # a
                BY <4>2 DEF IInv, Recorded
            <4>. QED
                BY <4>1, <4>3, BoundKept
        <3>. QED
            BY <3>1, <3>2
    <2>2. \A k : LinksOf(k, m.at)' = LinksOf(k, m.at)
        BY <1>1 DEF LinksOf
    <2>. QED
        BY <2>1, <2>2, ViewKept
<1>3. \A b \in benefits : BenefitView(b)' = BenefitView(b)
    BY <1>1 DEF BenefitView, LinksOf
<1>. QED
    BY <1>2, <1>3

LEMMA ViewsStep ==
    ASSUME IInv, [Next]_vars
    PROVE  /\ \A m \in maps : MapView(m)' = MapView(m)
           /\ \A b \in benefits : BenefitView(b)' = BenefitView(b)
<1>1. ASSUME NEW w \in Worker, Commit(w)
      PROVE  \/ LinkEvidence(w) \/ AppendClaimRevision(w)
             \/ LinkClaimRevision(w) \/ AppendAssertionRevision(w)
             \/ (links' = links /\ bindings' = bindings)
    BY <1>1 DEF Commit, AppendMapRevision, AppendBeneficiaryRevision, AppendCandidatePoolRevision,
        AppendCaseRevision, AppendProfileRevision
<1>2. ASSUME NEW w \in Worker, Step(w)
      PROVE  Commit(w) \/ (links' = links /\ bindings' = bindings)
    <2>1. Lock(w) \/ ResolveClaims(w) \/ Check(w) => UNCHANGED rows
        BY DEF Lock, ResolveClaims, Check
    <2>2. Reject(w) \/ Conflict(w) \/ DeadlockVictim(w) => UNCHANGED rows
        BY DEF Reject, Conflict, DeadlockVictim
    <2>3. UNCHANGED rows => links' = links /\ bindings' = bindings
        BY DEF rows
    <2>. QED
        BY <1>2, <2>1, <2>2, <2>3 DEF Step
<1>3. ASSUME NEW w \in Worker, Fail(w) PROVE links' = links /\ bindings' = bindings
    BY <1>3 DEF Fail, rows
<1>4. ASSUME NEW w \in Worker, NEW c \in Command, Start(w, c)
      PROVE  links' = links /\ bindings' = bindings
    BY <1>4 DEF Start, rows
<1>5. CASE UNCHANGED vars
    BY <1>5, SameViews DEF vars, rows
<1>. QED
    BY <1>1, <1>2, <1>3, <1>4, <1>5, SameViews, LinkKeepsViews, ClaimKeepsViews, BindingsKeepViews
       DEF Next, Finished

-----------------------------------------------------------------------------
(* Supported views                                                         *)

(* What the check of a command found still holds when it commits: the      *)
(* locks keep the bindings and the evidence that were read, and a          *)
(* supported claim never receives contradicting evidence.                  *)
FreezeReady(c) ==
    \A a \in c.members :
        /\ \A b \in bindings : b.assertion = a => b.at <= c.at
        /\ StatusHolds(AssertionStatus[a], BoundTo(a, c.at), c.at)

BenefitReady(c) == StatusHolds(c.status, c.claims, c.at)

Grounded(conclusion, claims, at) ==
    conclusion = "supported" =>
        \A k \in claims : ClaimStatus[k] = "supported" /\ HasSupport(k, at)

Clean(k, e) == ClaimStatus[k] = "supported" => RelationOf[e] # "contradicts"

Ready(c) ==
    /\ c.kind = "freeze" => FreezeReady(c)
    /\ c.kind = "benefit" => BenefitReady(c)
    /\ c.kind = "case" => Grounded(c.conclusion, c.claims, c.at)
    /\ c.kind = "link" => Clean(c.claim, c.evidence)
    /\ c.kind = "claim" => \A e \in c.evidence : Clean(c.claim, e)

SupportInv ==
    /\ \A w \in Worker : pc[w] = "write" => Ready(cmd[w])
    /\ \A l \in links : Clean(l.claim, l.evidence)
    /\ \A m \in maps : \A a \in m.members :
           StatusHolds(AssertionStatus[a], BoundTo(a, m.at), m.at)
    /\ \A b \in benefits : StatusHolds(b.status, b.claims, b.at)
    /\ \A v \in cases : Grounded(v.conclusion, v.claims, v.at)

LEMMA AllowedReady ==
    ASSUME NEW c, Allowed(c)
    PROVE  Ready(c)
<1>1. CASE c.kind = "freeze"
    <2>1. FreezeAllowed(c)
        BY <1>1 DEF Allowed
    <2>2. ASSUME NEW a \in c.members
          PROVE  /\ \A b \in bindings : b.assertion = a => b.at <= c.at
                 /\ StatusHolds(AssertionStatus[a], BoundTo(a, c.at), c.at)
        <3>1. /\ \A b \in bindings : b.assertion = a => b.at <= c.at
              /\ StatusHolds(AssertionStatus[a], {b.claim : b \in {x \in bindings : x.assertion = a}}, c.at)
            BY <2>1 DEF FreezeAllowed
        <3>2. {x \in bindings : x.assertion = a} = {x \in bindings : x.assertion = a /\ x.at <= c.at}
            BY <3>1
        <3>3. BoundTo(a, c.at) = {b.claim : b \in {x \in bindings : x.assertion = a}}
            BY <3>2 DEF BoundTo
        <3>. QED
            BY <3>1, <3>3
    <2>. QED
        BY <1>1, <2>2 DEF Ready, FreezeReady
<1>2. CASE c.kind = "benefit"
    BY <1>2 DEF Allowed, BenefitAllowed, Ready, BenefitReady
<1>3. CASE c.kind = "case"
    BY <1>3 DEF Allowed, CaseAllowed, Ready, Grounded
<1>4. CASE c.kind = "link"
    BY <1>4 DEF Allowed, LinkAllowed, ClaimStatusHolds, Ready, Clean
<1>5. CASE c.kind = "claim"
    BY <1>5 DEF Allowed, ClaimAllowed, ClaimStatusHolds, Ready, Clean
<1>. QED
    BY <1>1, <1>2, <1>3, <1>4, <1>5 DEF Ready

LEMMA SupportInit == Init => SupportInv
<1> SUFFICES ASSUME Init PROVE SupportInv
    OBVIOUS
<1>1. PICK h \in History :
          /\ maps = {[no |-> 1, at |-> 1, members |-> {}]} \union {MapRow(c, 2) : c \in {x \in h : x.kind = "freeze"}}
          /\ benefits = {BenefitRow(c, 1) : c \in {x \in h : x.kind = "benefit"}}
          /\ \A c \in h : Allowed(c)
    BY DEF Init
<1>2. ASSUME NEW m \in maps, NEW a \in m.members
      PROVE  StatusHolds(AssertionStatus[a], BoundTo(a, m.at), m.at)
    <2>1. PICK c \in h : c.kind = "freeze" /\ m = MapRow(c, 2)
        BY <1>1, <1>2
    <2>. QED
        BY <1>1, <2>1, AllowedReady DEF Ready, FreezeReady, MapRow
<1>3. ASSUME NEW b \in benefits PROVE StatusHolds(b.status, b.claims, b.at)
    <2>1. PICK c \in h : c.kind = "benefit" /\ b = BenefitRow(c, 1)
        BY <1>1
    <2>. QED
        BY <1>1, <2>1, AllowedReady DEF Ready, BenefitReady, BenefitRow
<1>4. \A l \in links : Clean(l.claim, l.evidence)
    BY LedgerAssumption DEF Init, Clean
<1>5. /\ \A w \in Worker : pc[w] # "write"
      /\ \A v \in cases : Grounded(v.conclusion, v.claims, v.at)
    BY DEF Init, Grounded
<1>. QED
    BY <1>2, <1>3, <1>4, <1>5 DEF SupportInv

(* A step that changes a table is a commit.                                *)
LEMMA Writers ==
    ASSUME [Next]_vars
    PROVE  UNCHANGED rows \/ \E w \in Worker : Commit(w)
<1>1. ASSUME NEW w \in Worker, Step(w) PROVE Commit(w) \/ UNCHANGED rows
    BY <1>1 DEF Step, Lock, ResolveClaims, Check, Reject, Conflict, DeadlockVictim
<1>2. ASSUME NEW w \in Worker, Fail(w) PROVE UNCHANGED rows
    BY <1>2 DEF Fail
<1>3. ASSUME NEW w \in Worker, NEW c \in Command, Start(w, c) PROVE UNCHANGED rows
    BY <1>3 DEF Start
<1>. QED
    BY <1>1, <1>2, <1>3 DEF Next, Finished, vars

(* A worker at its commit was there before, or has just been checked.      *)
LEMMA ReachWrite ==
    ASSUME IInv, [Next]_vars, NEW v \in Worker, pc'[v] = "write"
    PROVE  \/ pc[v] = "write" /\ cmd'[v] = cmd[v] /\ holds'[v] = holds[v] /\ prior'[v] = prior[v]
           \/ Check(v)
<1> DEFINE Stays == pc[v] = "write" /\ cmd'[v] = cmd[v] /\ holds'[v] = holds[v] /\ prior'[v] = prior[v]
<1>1. /\ pc \in [Worker -> {"idle", "identities", "claims", "write"}]
      /\ cmd \in [Worker -> Command \union {NoCommand}]
      /\ DOMAIN holds = Worker /\ DOMAIN prior = Worker
    BY DEF IInv, Shape, TypeOK
<1>2. ASSUME NEW w \in Worker, End(w) PROVE Stays
    BY <1>1, <1>2 DEF End
<1>3. ASSUME NEW w \in Worker, Step(w) PROVE Stays \/ Check(v)
    <2>1. CASE Lock(w)
        BY <2>1, <1>1 DEF Lock, Locking
    <2>2. CASE ResolveClaims(w)
        BY <2>2, <1>1 DEF ResolveClaims
    <2>3. CASE Check(w)
        BY <2>3, <1>1 DEF Check
    <2>4. CASE Reject(w) \/ Conflict(w) \/ DeadlockVictim(w)
        BY <2>4, <1>2 DEF Reject, Conflict, DeadlockVictim
    <2>5. CASE Commit(w)
        BY <2>5, <1>2 DEF Commit, LinkEvidence, AppendClaimRevision, LinkClaimRevision,
            AppendAssertionRevision, AppendMapRevision, AppendBeneficiaryRevision,
            AppendCandidatePoolRevision, AppendCaseRevision, AppendProfileRevision, Committing
    <2>. QED
        BY <1>3, <2>1, <2>2, <2>3, <2>4, <2>5 DEF Step
<1>4. ASSUME NEW w \in Worker, Fail(w) PROVE Stays
    BY <1>4, <1>2 DEF Fail
<1>5. ASSUME NEW w \in Worker, NEW c \in Command, Start(w, c) PROVE Stays
    BY <1>5, <1>1 DEF Start
<1>. QED
    BY <1>3, <1>4, <1>5 DEF Next, Finished, vars

(* The status of an assertion or beneficiary is judged by evidence alone.  *)
LEMMA StatusKept ==
    ASSUME NEW status, NEW claims, NEW at, StatusHolds(status, claims, at),
           \A k \in claims : LinksOf(k, at)' = LinksOf(k, at)
    PROVE  StatusHolds(status, claims, at)'
<1>1. \A k \in claims : /\ HasConflict(k, at)' = HasConflict(k, at)
                        /\ HasSupport(k, at)' = HasSupport(k, at)
    BY DEF HasConflict, HasSupport
<1>. QED
    BY <1>1 DEF StatusHolds

LEMMA GroundedKept ==
    ASSUME NEW conclusion, NEW claims, NEW at, Grounded(conclusion, claims, at), links \subseteq links'
    PROVE  Grounded(conclusion, claims, at)'
    BY DEF Grounded, HasSupport, LinksOf

(* Evidence of a claim a worker has locked for its commit.                 *)
LEMMA LockedEvidence ==
    ASSUME IInv, NEW w \in Worker, Commit(w), NEW v \in Worker, v # w, pc[v] = "write",
           NEW k \in Claim, NeedsClaim(v, k), claimAt[k] # 0, NEW at
    PROVE  LinksOf(k, at)' = LinksOf(k, at)
<1>1. CASE LinkEvidence(w)
    <2> DEFINE l == [claim |-> cmd[w].claim, evidence |-> cmd[w].evidence, at |-> cmd[w].at]
    <2>1. /\ links' = links \union {l} /\ l.claim = cmd[w].claim
          /\ pc[w] = "write" /\ cmd[w].kind = "link"
        BY <1>1 DEF LinkEvidence, Committing
    <2> HIDE DEF l
    <2>2. k # cmd[w].claim
        BY <2>1, Alone DEF NeedsClaim
    <2>. QED
        BY <2>1, <2>2, EvidenceKeptByOne
<1>2. CASE AppendClaimRevision(w)
    <2> DEFINE new == {[claim |-> cmd[w].claim, evidence |-> e, at |-> cmd[w].at] : e \in cmd[w].evidence}
    <2>1. /\ links' = links \union new /\ cmd[w].kind = "claim" /\ ~Duplicate(w)
          /\ \A l \in new : l.claim = cmd[w].claim
        BY <1>2 DEF AppendClaimRevision, Committing
    <2> HIDE DEF new
    <2>2. claimAt[cmd[w].claim] = 0
        BY <2>1 DEF Duplicate
    <2>. QED
        BY <2>1, <2>2, EvidenceKept
<1>3. CASE ~LinkEvidence(w) /\ ~AppendClaimRevision(w)
    <2>1. links' = links
        BY <1>3 DEF Commit, LinkClaimRevision, AppendAssertionRevision, AppendMapRevision,
            AppendBeneficiaryRevision, AppendCandidatePoolRevision, AppendCaseRevision, AppendProfileRevision
    <2>. QED
        BY <2>1 DEF LinksOf
<1>. QED
    BY <1>1, <1>2, <1>3

(* Bindings of an assertion a worker has locked for its commit.            *)
LEMMA LockedBindings ==
    ASSUME IInv, NEW w \in Worker, Commit(w), NEW v \in Worker, v # w, pc[v] = "write",
           NEW a \in Assertion, NeedsAssertion(v, a)
    PROVE  {b \in bindings : b.assertion = a}' = {b \in bindings : b.assertion = a}
<1>1. CASE LinkClaimRevision(w)
    <2> DEFINE b == [assertion |-> cmd[w].assertion, claim |-> cmd[w].claim, at |-> cmd[w].at]
    <2>1. /\ bindings' = bindings \union {b} /\ b.assertion = cmd[w].assertion
          /\ pc[w] = "write" /\ cmd[w].kind = "bind"
        BY <1>1 DEF LinkClaimRevision, Committing
    <2> HIDE DEF b
    <2>2. a # cmd[w].assertion
        BY <2>1, Alone DEF NeedsAssertion
    <2>. QED
        BY <2>1, <2>2
<1>2. CASE AppendAssertionRevision(w)
    <2> DEFINE new == {[assertion |-> cmd[w].assertion, claim |-> k, at |-> cmd[w].at] : k \in cmd[w].claims}
    <2>1. /\ bindings' = bindings \union new /\ cmd[w].kind = "assert" /\ ~Duplicate(w)
          /\ \A b \in new : b.assertion = cmd[w].assertion
        BY <1>2 DEF AppendAssertionRevision, Committing
    <2> HIDE DEF new
    <2>2. assertionAt[cmd[w].assertion] = 0 /\ assertionAt[a] # 0
        BY <2>1 DEF Duplicate, IInv, AssertionsLocked, HeldAreRecorded
    <2>. QED
        BY <2>1, <2>2
<1>3. CASE ~LinkClaimRevision(w) /\ ~AppendAssertionRevision(w)
    <2>1. bindings' = bindings
        BY <1>3 DEF Commit, LinkEvidence, AppendClaimRevision, AppendMapRevision,
            AppendBeneficiaryRevision, AppendCandidatePoolRevision, AppendCaseRevision, AppendProfileRevision
    <2>. QED
        BY <2>1
<1>. QED
    BY <1>1, <1>2, <1>3

LEMMA LinksGrow ==
    ASSUME NEW w \in Worker, Commit(w)
    PROVE  links \subseteq links'
    BY DEF Commit, LinkEvidence, AppendClaimRevision, LinkClaimRevision, AppendAssertionRevision,
        AppendMapRevision, AppendBeneficiaryRevision, AppendCandidatePoolRevision, AppendCaseRevision, AppendProfileRevision

(* What a worker has checked survives the commits of all others.           *)
LEMMA ReadyKept ==
    ASSUME IInv, NEW w \in Worker, Commit(w), NEW v \in Worker, v # w, pc[v] = "write",
           NEW c \in Command, c = cmd[v], Ready(c)
    PROVE  Ready(c)'
<1>1. CASE c.kind = "freeze"
    <2>1. c \in FreezeCommand
        BY <1>1, Parameters
    <2>2. ASSUME NEW a \in c.members
          PROVE  /\ \A b \in bindings' : b.assertion = a => b.at <= c.at
                 /\ StatusHolds(AssertionStatus[a], BoundTo(a, c.at), c.at)'
        <3>1. a \in Assertion /\ NeedsAssertion(v, a)
            BY <1>1, <2>1 DEF NeedsAssertion, FreezeCommand
        <3>2. {b \in bindings : b.assertion = a}' = {b \in bindings : b.assertion = a}
            BY <3>1, LockedBindings
        <3>3. BoundTo(a, c.at)' = BoundTo(a, c.at)
            BY <3>2 DEF BoundTo
        <3>4. ASSUME NEW k \in BoundTo(a, c.at) PROVE LinksOf(k, c.at)' = LinksOf(k, c.at)
            <4>1. PICK b \in bindings : b.assertion = a /\ b.claim = k
                BY <3>4 DEF BoundTo
            <4>2. k \in Claim /\ claimAt[k] # 0
                BY <4>1 DEF IInv, Shape, TypeOK, Recorded, Binding
            <4>3. NeedsClaim(v, k)
                BY <1>1, <4>1, <2>2 DEF NeedsClaim
            <4>. QED
                BY <4>2, <4>3, LockedEvidence
        <3>5. /\ \A b \in bindings : b.assertion = a => b.at <= c.at
              /\ StatusHolds(AssertionStatus[a], BoundTo(a, c.at), c.at)
            BY <1>1 DEF Ready, FreezeReady
        <3>6. StatusHolds(AssertionStatus[a], BoundTo(a, c.at), c.at)'
            <4> DEFINE B == BoundTo(a, c.at)
            <4>1. PICK claims : claims = B
                OBVIOUS
            <4>2. /\ StatusHolds(AssertionStatus[a], claims, c.at)
                  /\ \A k \in claims : LinksOf(k, c.at)' = LinksOf(k, c.at)
                BY <3>4, <3>5, <4>1
            <4>3. StatusHolds(AssertionStatus[a], claims, c.at)'
                BY <4>2, StatusKept
            <4>. QED
                BY <4>3, <4>1, <3>3 DEF StatusHolds
        <3>. QED
            BY <3>2, <3>5, <3>6
    <2>. QED
        BY <1>1, <2>2 DEF Ready, FreezeReady
<1>2. CASE c.kind = "benefit"
    <2>1. c \in BenefitCommand
        BY <1>2, Parameters
    <2>2. ASSUME NEW k \in c.claims PROVE LinksOf(k, c.at)' = LinksOf(k, c.at)
        <3>1. k \in Claim /\ NeedsClaim(v, k) /\ claimAt[k] # 0
            BY <1>2, <2>1 DEF NeedsClaim, BenefitCommand, IInv, BenefitApproved
        <3>. QED
            BY <3>1, LockedEvidence
    <2>3. StatusHolds(c.status, c.claims, c.at)'
        BY <1>2, <2>2, StatusKept DEF Ready, BenefitReady
    <2>. QED
        BY <1>2, <2>3 DEF Ready, BenefitReady
<1>3. CASE c.kind = "case"
    BY <1>3, LinksGrow, GroundedKept DEF Ready
<1>4. CASE c.kind \notin {"freeze", "benefit", "case"}
    BY <1>4 DEF Ready, Clean
<1>. QED
    BY <1>1, <1>2, <1>3, <1>4

(* A frozen view keeps the status it shows.                                *)
LEMMA MapStatusKept ==
    ASSUME NEW m \in maps, NEW a \in m.members, MapView(m)' = MapView(m),
           StatusHolds(AssertionStatus[a], BoundTo(a, m.at), m.at)
    PROVE  StatusHolds(AssertionStatus[a], BoundTo(a, m.at), m.at)'
<1> DEFINE B == BoundTo(a, m.at)
           E == UNION {LinksOf(c, m.at) : c \in BoundTo(a, m.at)}
<1>1. [assertion |-> a, claims |-> B, evidence |-> E] \in MapView(m)
    BY DEF MapView, AssertionView
<1>2. PICK d \in m.members :
          [assertion |-> a, claims |-> B, evidence |-> E] = AssertionView(d, m.at)'
    BY <1>1 DEF MapView
<1>3. d = a /\ B' = B /\ E' = E
    <2>1. [assertion |-> a, claims |-> B, evidence |-> E]
              = [assertion |-> d, claims |-> BoundTo(d, m.at)',
                 evidence |-> UNION {LinksOf(c, m.at)' : c \in BoundTo(d, m.at)'}]
        BY <1>2 DEF AssertionView
    <2>2. d = a
        BY <2>1
    <2>. QED
        BY <2>1, <2>2
<1>4. ASSUME NEW k \in B PROVE LinksOf(k, m.at)' = LinksOf(k, m.at)
    <2>1. LinksOf(k, m.at) = {l \in E : l.claim = k}
        BY <1>4 DEF LinksOf
    <2>2. LinksOf(k, m.at)' = {l \in E' : l.claim = k}
        BY <1>3, <1>4 DEF LinksOf
    <2>. QED
        BY <1>3, <2>1, <2>2
<1> HIDE DEF B, E
<1>5. PICK claims : claims = B
    OBVIOUS
<1>6. StatusHolds(AssertionStatus[a], claims, m.at)
    BY <1>5 DEF B
<1>7. StatusHolds(AssertionStatus[a], claims, m.at)'
    BY <1>4, <1>5, <1>6, StatusKept
<1>8. claims = BoundTo(a, m.at)'
    BY <1>3, <1>5 DEF B
<1>. QED
    BY <1>7, <1>8 DEF StatusHolds

LEMMA BenefitEvidenceKept ==
    ASSUME NEW b \in benefits, BenefitView(b)' = BenefitView(b), NEW k \in b.claims
    PROVE  LinksOf(k, b.at)' = LinksOf(k, b.at)
<1> DEFINE E == UNION {LinksOf(c, b.at) : c \in b.claims}
<1>1. E' = E
    BY DEF BenefitView
<1>2. LinksOf(k, b.at) = {l \in E : l.claim = k}
    BY DEF LinksOf
<1>3. LinksOf(k, b.at)' = {l \in E' : l.claim = k}
    BY DEF LinksOf
<1>. QED
    BY <1>1, <1>2, <1>3

LEMMA BenefitStatusKept ==
    ASSUME NEW b \in benefits, BenefitView(b)' = BenefitView(b), StatusHolds(b.status, b.claims, b.at)
    PROVE  StatusHolds(b.status, b.claims, b.at)'
    BY BenefitEvidenceKept, StatusKept

(* The rows of one commit.                                                 *)
LEMMA SupportCommit ==
    ASSUME IInv, SupportInv, NEW w \in Worker, Commit(w), [Next]_vars
    PROVE  /\ \A l \in links' : Clean(l.claim, l.evidence)
           /\ \A m \in maps' : \A a \in m.members :
                  StatusHolds(AssertionStatus[a], BoundTo(a, m.at), m.at)'
           /\ \A b \in benefits' : StatusHolds(b.status, b.claims, b.at)'
           /\ \A v \in cases' : Grounded(v.conclusion, v.claims, v.at)'
<1>1. pc[w] = "write" /\ cmd[w] \in Command /\ Ready(cmd[w])
    <2>1. pc[w] = "write"
        BY DEF Commit, LinkEvidence, AppendClaimRevision, LinkClaimRevision,
            AppendAssertionRevision, AppendMapRevision, AppendBeneficiaryRevision,
            AppendCandidatePoolRevision, AppendCaseRevision, AppendProfileRevision, Committing
    <2>. QED
        BY <2>1, Committer DEF SupportInv
<1>2. PICK c \in Command : c = cmd[w]
    BY <1>1
<1>3. \A l \in links' : Clean(l.claim, l.evidence)
    <2>1. CASE LinkEvidence(w)
        BY <2>1, <1>1 DEF LinkEvidence, Committing, SupportInv, Ready
    <2>2. CASE AppendClaimRevision(w)
        BY <2>2, <1>1 DEF AppendClaimRevision, Committing, SupportInv, Ready
    <2>3. CASE ~LinkEvidence(w) /\ ~AppendClaimRevision(w)
        <3>1. links' = links
            BY <2>3 DEF Commit, LinkClaimRevision, AppendAssertionRevision, AppendMapRevision,
                AppendBeneficiaryRevision, AppendCandidatePoolRevision, AppendCaseRevision, AppendProfileRevision
        <3>. QED
            BY <3>1 DEF SupportInv
    <2>. QED
        BY <2>1, <2>2, <2>3
<1>4. ASSUME NEW m \in maps', NEW a \in m.members
      PROVE  StatusHolds(AssertionStatus[a], BoundTo(a, m.at), m.at)'
    <2>1. CASE m \in maps
        BY <2>1, ViewsStep, MapStatusKept DEF SupportInv
    <2>2. CASE m \notin maps
        <3>1. AppendMapRevision(w)
            BY <2>2 DEF Commit, LinkEvidence, AppendClaimRevision, LinkClaimRevision,
                AppendAssertionRevision, AppendBeneficiaryRevision,
                AppendCandidatePoolRevision, AppendCaseRevision, AppendProfileRevision
        <3>2. /\ m.at = c.at /\ m.members = c.members /\ c.kind = "freeze"
              /\ links' = links /\ bindings' = bindings
            BY <3>1, <2>2, <1>2 DEF AppendMapRevision, MapRow, Committing
        <3>3. StatusHolds(AssertionStatus[a], BoundTo(a, m.at), m.at)
            BY <3>2, <1>1, <1>2 DEF Ready, FreezeReady
        <3>. QED
            BY <3>2, <3>3 DEF StatusHolds, BoundTo, HasConflict, HasSupport, LinksOf
    <2>. QED
        BY <2>1, <2>2
<1>5. ASSUME NEW b \in benefits' PROVE StatusHolds(b.status, b.claims, b.at)'
    <2>1. CASE b \in benefits
        BY <2>1, ViewsStep, BenefitStatusKept DEF SupportInv
    <2>2. CASE b \notin benefits
        <3>1. AppendBeneficiaryRevision(w)
            BY <2>2 DEF Commit, LinkEvidence, AppendClaimRevision, LinkClaimRevision,
                AppendAssertionRevision, AppendMapRevision, AppendCandidatePoolRevision,
                AppendCaseRevision, AppendProfileRevision
        <3>2. /\ b.at = c.at /\ b.claims = c.claims /\ b.status = c.status /\ c.kind = "benefit"
              /\ links' = links
            BY <3>1, <2>2, <1>2 DEF AppendBeneficiaryRevision, BenefitRow, Committing
        <3>3. StatusHolds(b.status, b.claims, b.at)
            BY <3>2, <1>1, <1>2 DEF Ready, BenefitReady
        <3>. QED
            BY <3>2, <3>3 DEF StatusHolds, HasConflict, HasSupport, LinksOf
    <2>. QED
        BY <2>1, <2>2
<1>6. ASSUME NEW v \in cases' PROVE Grounded(v.conclusion, v.claims, v.at)'
    <2>1. CASE v \in cases
        BY <2>1, LinksGrow, GroundedKept DEF SupportInv
    <2>2. CASE v \notin cases
        <3>1. AppendCaseRevision(w)
            BY <2>2 DEF Commit, LinkEvidence, AppendClaimRevision, LinkClaimRevision,
                AppendAssertionRevision, AppendMapRevision, AppendBeneficiaryRevision,
                AppendCandidatePoolRevision, AppendProfileRevision
        <3>2. v.at = c.at /\ v.claims = c.claims /\ v.conclusion = c.conclusion /\ c.kind = "case"
            BY <3>1, <2>2, <1>2 DEF AppendCaseRevision, Committing
        <3>3. Grounded(v.conclusion, v.claims, v.at)
            BY <3>2, <1>1, <1>2 DEF Ready
        <3>. QED
            BY <3>3, LinksGrow, GroundedKept
    <2>. QED
        BY <2>1, <2>2
<1>. QED
    BY <1>3, <1>4, <1>5, <1>6

LEMMA SupportStep == IInv /\ SupportInv /\ [Next]_vars => SupportInv'
<1> SUFFICES ASSUME IInv, SupportInv, [Next]_vars PROVE SupportInv'
    OBVIOUS
<1>1. ASSUME NEW v \in Worker, pc'[v] = "write" PROVE Ready(cmd[v])'
    <2>1. CASE UNCHANGED rows
        <3>1. cmd'[v] = cmd[v] /\ Ready(cmd[v]) /\ cmd[v] \in Command
            <4>1. CASE pc[v] = "write" /\ cmd'[v] = cmd[v]
                BY <4>1, Committer DEF SupportInv
            <4>2. CASE Check(v)
                <5>1. cmd'[v] = cmd[v] /\ Allowed(cmd[v]) /\ pc[v] = "claims"
                    BY <4>2 DEF Check
                <5>2. cmd[v] \in Command
                    BY <5>1 DEF IInv, Shape, TypeOK
                <5>. QED
                    BY <5>1, <5>2, AllowedReady
            <4>. QED
                BY <1>1, <4>1, <4>2, ReachWrite
        <3>2. PICK c \in Command : c = cmd[v]
            BY <3>1
        <3>3. Ready(c) => Ready(c)'
            BY <2>1 DEF rows, Ready, FreezeReady, BenefitReady, Grounded, Clean, StatusHolds,
                BoundTo, HasConflict, HasSupport, LinksOf
        <3>4. Ready(c)' /\ c = cmd'[v]
            BY <3>1, <3>2, <3>3
        <3>. QED
            BY <3>4
    <2>2. CASE \E w \in Worker : Commit(w)
        <3>1. PICK w \in Worker : Commit(w)
            BY <2>2
        <3>2. End(w) /\ pc[w] = "write"
            BY <3>1 DEF Commit, LinkEvidence, AppendClaimRevision, LinkClaimRevision,
                AppendAssertionRevision, AppendMapRevision, AppendBeneficiaryRevision,
                AppendCandidatePoolRevision, AppendCaseRevision, AppendProfileRevision, Committing
        <3>3. v # w /\ pc[v] = "write" /\ cmd'[v] = cmd[v]
            BY <1>1, <3>2, Ending
        <3>4. cmd[v] \in Command /\ Ready(cmd[v])
            BY <3>3, Committer DEF SupportInv
        <3>5. PICK c \in Command : c = cmd[v]
            BY <3>4
        <3>6. Ready(c)'
            BY <3>1, <3>3, <3>4, <3>5, ReadyKept
        <3>7. c = cmd'[v]
            BY <3>3, <3>5
        <3>. QED
            BY <3>6, <3>7
    <2>. QED
        BY <2>1, <2>2, Writers
<1>2. CASE UNCHANGED rows
    <2>1. /\ \A l \in links' : Clean(l.claim, l.evidence)
          /\ \A m \in maps' : \A a \in m.members :
                 StatusHolds(AssertionStatus[a], BoundTo(a, m.at), m.at)'
          /\ \A b \in benefits' : StatusHolds(b.status, b.claims, b.at)'
          /\ \A v \in cases' : Grounded(v.conclusion, v.claims, v.at)'
        BY <1>2 DEF rows, SupportInv, Grounded, Clean, StatusHolds, BoundTo, HasConflict, HasSupport,
            LinksOf
    <2>. QED
        BY <1>1, <2>1 DEF SupportInv, Clean
<1>3. CASE \E w \in Worker : Commit(w)
    <2>1. PICK w \in Worker : Commit(w)
        BY <1>3
    <2>. QED
        BY <1>1, <2>1, SupportCommit DEF SupportInv, Clean
<1>. QED
    BY <1>2, <1>3, Writers

-----------------------------------------------------------------------------
(* Profiles                                                                *)

OnMap(number, at, assertions) ==
    \E m \in maps : m.no = number /\ m.at <= at /\ assertions \subseteq m.members

(* What a profile, or the command that records it, says of frozen claims.  *)
Supported(c, b) ==
    \A s \in c.assertions : s.state = "supported" =>
        /\ \E k \in s.supports : HasSupport(k, c.at)
        /\ \A k \in s.supports : ~HasConflict(k, b.at)

Rests(c) == \E b \in benefits : FrozenBy(c, b) /\ OnMap(b.map, b.at, c.drivers) /\ Supported(c, b)

ProfilesOf(x) == {p \in profiles : p.beneficiary = x}

(* The number a worker read is the latest, and its lock keeps it so; or it  *)
(* read none, and only a first revision may follow.                        *)
Placed(w) ==
    LET c == cmd[w]
    IN \/ prior[w] = 0
       \/ /\ Row("profile", c.beneficiary) \in holds[w]
          /\ \E r \in ProfilesOf(c.beneficiary) :
                 /\ r.no = prior[w] /\ r.at <= c.at
                 /\ \A q \in ProfilesOf(c.beneficiary) : q.no <= r.no

Linear(p) ==
    /\ p.no \in Nat \ {0}
    /\ \A q \in ProfilesOf(p.beneficiary) : q.no = p.no => q = p
    /\ \E q \in ProfilesOf(p.beneficiary) : q.no = 1
    /\ p.no > 1 => \E q \in ProfilesOf(p.beneficiary) : q.no + 1 = p.no /\ q.at <= p.at

ProfileInv ==
    /\ \A b \in benefits : OnMap(b.map, b.at, b.assertions)
    /\ \A p \in profiles : Linear(p) /\ Rests(p)
    /\ \A w \in Worker : pc[w] = "write" =>
           /\ cmd[w].kind = "benefit" => OnMap(cmd[w].map, cmd[w].at, cmd[w].assertions)
           /\ cmd[w].kind = "profile" => Rests(cmd[w]) /\ Placed(w)

LEMMA ProfileInit == Init => ProfileInv
<1> SUFFICES ASSUME Init PROVE ProfileInv
    OBVIOUS
<1>1. PICK h \in History :
          /\ benefits = {BenefitRow(c, 1) : c \in {x \in h : x.kind = "benefit"}}
          /\ \A c \in h : Allowed(c)
    BY DEF Init
<1>2. ASSUME NEW b \in benefits PROVE OnMap(b.map, b.at, b.assertions)
    <2>1. PICK c \in h : c.kind = "benefit" /\ b = BenefitRow(c, 1)
        BY <1>1
    <2>2. BenefitAllowed(c)
        BY <1>1, <2>1 DEF Allowed
    <2>. QED
        BY <2>1, <2>2 DEF BenefitAllowed, BenefitRow, OnMap
<1>. QED
    BY <1>2 DEF Init, ProfileInv

(* A check that passes leaves the command resting on what is frozen.       *)
LEMMA AllowedRests ==
    ASSUME IInv, ProfileInv, NEW c \in Command, c.kind = "profile", Allowed(c)
    PROVE  Rests(c)
<1>1. ProfileAllowed(c)
    BY DEF Allowed
<1>2. PICK b \in benefits : FrozenBy(c, b)
    BY <1>1 DEF ProfileAllowed
<1>3. OnMap(b.map, b.at, c.drivers)
    BY <1>2 DEF ProfileInv, OnMap, FrozenBy
<1>4. b.at \in Nat /\ c.at \in Nat /\ \A l \in links : l.at \in Nat
    BY TimesAreNumbers, LedgerAssumption DEF IInv, Shape, TypeOK, Link
<1>5. \A k : ~HasConflict(k, c.at) => ~HasConflict(k, b.at)
    <2>1. \A l \in links : l.at <= b.at => l.at <= c.at
        BY <1>2, <1>4 DEF FrozenBy
    <2>. QED
        BY <2>1 DEF HasConflict, LinksOf
<1>6. Supported(c, b)
    BY <1>1, <1>5 DEF ProfileAllowed, EvidencePaths, Supported
<1>. QED
    BY <1>2, <1>3, <1>6 DEF Rests

(* Rows are never taken back.                                              *)
LEMMA RowsGrow ==
    ASSUME [Next]_vars
    PROVE  links \subseteq links' /\ maps \subseteq maps' /\ benefits \subseteq benefits'
           /\ profiles \subseteq profiles'
<1>1. ASSUME NEW w \in Worker, Commit(w)
      PROVE  links \subseteq links' /\ maps \subseteq maps' /\ benefits \subseteq benefits'
             /\ profiles \subseteq profiles'
    BY <1>1 DEF Commit, LinkEvidence, AppendClaimRevision, LinkClaimRevision, AppendAssertionRevision,
        AppendMapRevision, AppendBeneficiaryRevision, AppendCandidatePoolRevision, AppendCaseRevision,
        AppendProfileRevision
<1>. QED
    BY <1>1, Writers DEF rows

LEMMA OnMapKept ==
    ASSUME NEW number, NEW at, NEW assertions, OnMap(number, at, assertions), maps \subseteq maps'
    PROVE  OnMap(number, at, assertions)'
    BY DEF OnMap

LEMMA RestsKept ==
    ASSUME IInv, [Next]_vars, NEW c, Rests(c)
    PROVE  Rests(c)'
<1>1. PICK b \in benefits : FrozenBy(c, b) /\ OnMap(b.map, b.at, c.drivers) /\ Supported(c, b)
    BY DEF Rests
<1>2. b \in benefits' /\ OnMap(b.map, b.at, c.drivers)'
    BY <1>1, RowsGrow, OnMapKept
<1>3. ASSUME NEW s \in c.assertions, s.state = "supported"
      PROVE  /\ \E k \in s.supports : HasSupport(k, c.at)'
             /\ \A k \in s.supports : ~HasConflict(k, b.at)'
    <2>1. PICK k \in s.supports : HasSupport(k, c.at)
        BY <1>1, <1>3 DEF Supported
    <2>2. HasSupport(k, c.at)'
        BY <2>1, RowsGrow DEF HasSupport, LinksOf
    <2>3. ASSUME NEW j \in s.supports PROVE ~HasConflict(j, b.at)'
        <3>1. j \in b.claims
            BY <1>1 DEF FrozenBy, Names
        <3>2. LinksOf(j, b.at)' = LinksOf(j, b.at)
            BY <3>1, ViewsStep, BenefitEvidenceKept
        <3>. QED
            BY <1>1, <1>3, <3>2 DEF Supported, HasConflict
    <2>. QED
        BY <2>2, <2>3
<1>4. Supported(c, b)'
    BY <1>3 DEF Supported
<1>. QED
    BY <1>1, <1>2, <1>4 DEF Rests, FrozenBy

(* The revision a profile command read, when it is checked.                *)
LEMMA CheckPlaces ==
    ASSUME IInv, ProfileInv, NEW v \in Worker, Check(v), cmd[v].kind = "profile"
    PROVE  Placed(v)'
<1> DEFINE c == cmd[v]
           chain == ProfilesOf(c.beneficiary)
<1>1. /\ cmd' = cmd /\ holds' = holds /\ profiles' = profiles /\ Expected(c)
      /\ prior'[v] = IF IdentityRow(c) \in holds[v] THEN LatestNumber(Chain(c)) ELSE 0
    BY DEF Check, rows, Allowed, ProfileAllowed, IInv, Shape
<1>2. Chain(c) = chain /\ IdentityRow(c) = Row("profile", c.beneficiary)
    BY DEF Chain, IdentityRow, ProfilesOf
<1>3. CASE Row("profile", c.beneficiary) \notin holds[v]
    BY <1>1, <1>2, <1>3 DEF Placed
<1>4. CASE chain = {}
    BY <1>1, <1>2, <1>4 DEF Placed, LatestNumber
<1>5. CASE Row("profile", c.beneficiary) \in holds[v] /\ chain # {}
    <2>1. PICK r \in chain : r.at <= c.at /\ \A q \in chain : q.no <= r.no
        BY <1>1, <1>2, <1>5 DEF Expected
    <2>2. \A q \in chain : q.no \in Nat
        BY DEF ProfileInv, Linear, ProfilesOf
    <2>3. LatestNumber(chain) = r.no
        <3>1. r.no \in {q.no : q \in chain} /\ \A q \in chain : q.no <= r.no
            BY <2>1
        <3>2. \A n \in {q.no : q \in chain} : (\A q \in chain : q.no <= n) => n = r.no
            BY <2>1, <2>2
        <3>. QED
            BY <1>5, <3>1, <3>2 DEF LatestNumber
    <2>. QED
        BY <1>1, <1>2, <1>5, <2>1, <2>3 DEF Placed, ProfilesOf
<1>. QED
    BY <1>3, <1>4, <1>5

(* Nobody else appends to the chain whose latest revision a worker locked. *)
LEMMA PlacedKept ==
    ASSUME IInv, ProfileInv, NEW w \in Worker, Commit(w), NEW v \in Worker, v # w,
           pc[v] = "write", cmd[v].kind = "profile", Placed(v),
           cmd'[v] = cmd[v], holds'[v] = holds[v], prior'[v] = prior[v]
    PROVE  Placed(v)'
<1> DEFINE x == cmd[v].beneficiary
<1>1. CASE prior[v] = 0
    BY <1>1 DEF Placed
<1>2. CASE prior[v] # 0
    <2>1. /\ Row("profile", x) \in holds[v] /\ ProfilesOf(x) # {}
          /\ \E r \in ProfilesOf(x) : /\ r.no = prior[v] /\ r.at <= cmd[v].at
                                      /\ \A q \in ProfilesOf(x) : q.no <= r.no
        BY <1>2 DEF Placed
    <2>2. ProfilesOf(x)' = ProfilesOf(x)
        <3>1. CASE AppendProfileRevision(w)
            <4> DEFINE y == cmd[w].beneficiary
            <4>1. pc[w] = "write" /\ cmd[w].kind = "profile" /\ ~Duplicate(w)
                BY <3>1 DEF AppendProfileRevision, Committing
            <4>2. y # x
                <5> SUFFICES ASSUME y = x PROVE FALSE
                    OBVIOUS
                <5>1. CASE prior[w] = 0
                    <6>1. PICK r \in ProfilesOf(x) : r.no = 1
                        BY <2>1 DEF ProfileInv, Linear, ProfilesOf
                    <6>2. r \in Chain(cmd[w]) /\ r.no = prior[w] + 1
                        BY <6>1, <5>1, <4>1 DEF Chain, ProfilesOf
                    <6>. QED
                        BY <6>2, <4>1 DEF Duplicate
                <5>2. CASE prior[w] # 0
                    <6>1. Row("profile", x) \in holds[w]
                        BY <5>2, <4>1 DEF ProfileInv, Placed
                    <6>. QED
                        BY <6>1, <2>1 DEF IInv, Exclusive
                <5>. QED
                    BY <5>1, <5>2
            <4>. QED
                BY <3>1, <4>2 DEF AppendProfileRevision, ProfileRow, ProfilesOf
        <3>2. CASE ~AppendProfileRevision(w)
            <4>1. profiles' = profiles
                BY <3>2 DEF Commit, LinkEvidence, AppendClaimRevision, LinkClaimRevision,
                    AppendAssertionRevision, AppendMapRevision, AppendBeneficiaryRevision,
                    AppendCandidatePoolRevision, AppendCaseRevision
            <4>. QED
                BY <4>1 DEF ProfilesOf
        <3>. QED
            BY <3>1, <3>2
    <2>. QED
        BY <2>1, <2>2 DEF Placed
<1>. QED
    BY <1>1, <1>2

(* The revision that follows the latest one.                               *)
LEMMA AppendLinear ==
    ASSUME IInv, ProfileInv, NEW w \in Worker, AppendProfileRevision(w), NEW p \in profiles'
    PROVE  Linear(p)'
<1> DEFINE c == cmd[w]
           new == ProfileRow(c, prior[w] + 1)
<1>1. /\ profiles' = profiles \union {new} /\ pc[w] = "write" /\ c.kind = "profile" /\ ~Duplicate(w)
    BY DEF AppendProfileRevision, Committing
<1>0. PICK x : x = cmd[w].beneficiary
    OBVIOUS
<1>2. /\ new.beneficiary = x /\ new.no = prior[w] + 1 /\ new.at = c.at
    BY <1>0 DEF ProfileRow
<1> HIDE DEF new
<1>3. \A q \in ProfilesOf(x) : q.no # new.no
    BY <1>0, <1>1, <1>2 DEF Duplicate, Chain, ProfilesOf
<1>4. /\ ProfilesOf(x)' = ProfilesOf(x) \union {new}
      /\ \A y : y # x => ProfilesOf(y)' = ProfilesOf(y)
    BY <1>1, <1>2 DEF ProfilesOf
<1>5. /\ new.no \in Nat \ {0}
      /\ new.no > 1 => \E q \in ProfilesOf(x) : q.no + 1 = new.no /\ q.at <= new.at
      /\ \E q \in ProfilesOf(x)' : q.no = 1
    <2>1. CASE prior[w] = 0
        BY <1>2, <1>4, <2>1
    <2>2. CASE prior[w] # 0
        <3>1. PICK r \in ProfilesOf(x) : r.no = prior[w] /\ r.at <= c.at
            BY <1>0, <1>1, <2>2 DEF ProfileInv, Placed
        <3>2. r.no \in Nat \ {0} /\ \E q \in ProfilesOf(x) : q.no = 1
            BY <3>1 DEF ProfileInv, Linear, ProfilesOf
        <3>. QED
            BY <1>2, <1>4, <3>1, <3>2
    <2>. QED
        BY <2>1, <2>2
<1>6. CASE p = new
    BY <1>2, <1>3, <1>4, <1>5, <1>6 DEF Linear
<1>7. CASE p \in profiles /\ p.beneficiary = x
    <2>1. Linear(p) /\ p \in ProfilesOf(x)
        BY <1>7 DEF ProfileInv, ProfilesOf
    <2>. QED
        BY <1>3, <1>4, <1>7, <2>1 DEF Linear
<1>8. CASE p \in profiles /\ p.beneficiary # x
    <2>1. Linear(p) /\ ProfilesOf(p.beneficiary)' = ProfilesOf(p.beneficiary)
        BY <1>4, <1>8 DEF ProfileInv
    <2>. QED
        BY <2>1 DEF Linear
<1>. QED
    BY <1>1, <1>6, <1>7, <1>8

LEMMA ProfileStep == IInv /\ ProfileInv /\ [Next]_vars => ProfileInv'
<1> SUFFICES ASSUME IInv, ProfileInv, [Next]_vars PROVE ProfileInv'
    OBVIOUS
<1>1. ASSUME NEW v \in Worker, pc'[v] = "write", cmd'[v].kind = "benefit"
      PROVE  OnMap(cmd[v].map, cmd[v].at, cmd[v].assertions)'
    <2>1. cmd'[v] = cmd[v] /\ OnMap(cmd[v].map, cmd[v].at, cmd[v].assertions)
        <3>1. CASE pc[v] = "write" /\ cmd'[v] = cmd[v]
            BY <3>1, <1>1 DEF ProfileInv
        <3>2. CASE Check(v)
            BY <3>2, <1>1 DEF Check, Allowed, BenefitAllowed, OnMap
        <3>. QED
            BY <1>1, <3>1, <3>2, ReachWrite
    <2>. QED
        BY <2>1, RowsGrow DEF OnMap
<1>2. ASSUME NEW v \in Worker, pc'[v] = "write", cmd'[v].kind = "profile"
      PROVE  Rests(cmd[v])' /\ Placed(v)'
    <2>1. CASE Check(v)
        <3>1. cmd' = cmd /\ Allowed(cmd[v]) /\ cmd[v].kind = "profile" /\ pc[v] = "claims"
            BY <2>1, <1>2 DEF Check
        <3>2. cmd[v] \in Command
            BY <3>1 DEF IInv, Shape, TypeOK
        <3>3. PICK c \in Command : c = cmd[v]
            BY <3>2
        <3>4. Rests(c)'
            BY <3>1, <3>3, AllowedRests, RestsKept
        <3>. QED
            BY <2>1, <3>1, <3>3, <3>4, CheckPlaces
    <2>2. CASE /\ pc[v] = "write" /\ cmd'[v] = cmd[v]
               /\ holds'[v] = holds[v] /\ prior'[v] = prior[v]
        <3>1. Rests(cmd[v]) /\ Placed(v)
            BY <2>2, <1>2 DEF ProfileInv
        <3>2. PICK c : c = cmd[v]
            OBVIOUS
        <3>3. Rests(c)'
            BY <3>1, <3>2, RestsKept
        <3>4. Placed(v)'
            <4>1. CASE UNCHANGED rows
                BY <4>1, <2>2, <3>1 DEF rows, Placed, ProfilesOf
            <4>2. CASE \E w \in Worker : Commit(w)
                <5>1. PICK w \in Worker : Commit(w)
                    BY <4>2
                <5>2. End(w)
                    BY <5>1 DEF Commit, LinkEvidence, AppendClaimRevision, LinkClaimRevision,
                        AppendAssertionRevision, AppendMapRevision, AppendBeneficiaryRevision,
                        AppendCandidatePoolRevision, AppendCaseRevision, AppendProfileRevision, Committing
                <5>3. v # w
                    BY <1>2, <5>2, Ending
                <5>. QED
                    BY <1>2, <2>2, <3>1, <5>1, <5>3, PlacedKept
            <4>. QED
                BY <4>1, <4>2, Writers
        <3>. QED
            BY <2>2, <3>2, <3>3, <3>4
    <2>. QED
        BY <1>2, <2>1, <2>2, ReachWrite
<1>3. ASSUME NEW b \in benefits' PROVE OnMap(b.map, b.at, b.assertions)'
    <2>1. CASE b \in benefits
        BY <2>1, RowsGrow, OnMapKept DEF ProfileInv
    <2>2. CASE b \notin benefits
        <3>1. PICK w \in Worker : AppendBeneficiaryRevision(w)
            BY <2>2, Writers DEF rows, Commit, LinkEvidence, AppendClaimRevision, LinkClaimRevision,
                AppendAssertionRevision, AppendMapRevision, AppendCandidatePoolRevision,
                AppendCaseRevision, AppendProfileRevision
        <3>2. /\ b.map = cmd[w].map /\ b.at = cmd[w].at /\ b.assertions = cmd[w].assertions
              /\ pc[w] = "write" /\ cmd[w].kind = "benefit"
            BY <2>2, <3>1 DEF AppendBeneficiaryRevision, BenefitRow, Committing
        <3>. QED
            BY <3>2, RowsGrow, OnMapKept DEF ProfileInv
    <2>. QED
        BY <2>1, <2>2
<1>4. ASSUME NEW p \in profiles' PROVE Linear(p)' /\ Rests(p)'
    <2>1. CASE \E w \in Worker : AppendProfileRevision(w)
        <3>1. PICK w \in Worker : AppendProfileRevision(w)
            BY <2>1
        <3>2. Linear(p)'
            BY <3>1, AppendLinear
        <3>3. CASE p \in profiles
            BY <3>2, <3>3, RestsKept DEF ProfileInv
        <3>4. CASE p \notin profiles
            <4>1. /\ p.beneficiary = cmd[w].beneficiary /\ p.at = cmd[w].at /\ p.revision = cmd[w].revision
                  /\ p.drivers = cmd[w].drivers /\ p.assertions = cmd[w].assertions
                  /\ pc[w] = "write" /\ cmd[w].kind = "profile"
                BY <3>1, <3>4 DEF AppendProfileRevision, ProfileRow, Committing
            <4>2. Rests(p)
                BY <4>1 DEF ProfileInv, Rests, FrozenBy, Supported
            <4>. QED
                BY <3>2, <4>2, RestsKept
        <3>. QED
            BY <3>3, <3>4
    <2>2. CASE ~\E w \in Worker : AppendProfileRevision(w)
        <3>1. profiles' = profiles
            BY <2>2, Writers DEF rows, Commit, LinkEvidence, AppendClaimRevision, LinkClaimRevision,
                AppendAssertionRevision, AppendMapRevision, AppendBeneficiaryRevision,
                AppendCandidatePoolRevision, AppendCaseRevision
        <3>. QED
            BY <3>1, RestsKept DEF ProfileInv, Linear, ProfilesOf
    <2>. QED
        BY <2>1, <2>2
<1>5. \A v \in Worker : pc'[v] = "write" =>
          /\ cmd'[v].kind = "benefit" => OnMap(cmd[v].map, cmd[v].at, cmd[v].assertions)'
          /\ cmd'[v].kind = "profile" => Rests(cmd[v])' /\ Placed(v)'
    BY <1>1, <1>2
<1>. QED
    BY <1>3, <1>4, <1>5 DEF ProfileInv

-----------------------------------------------------------------------------
(* The types of the tables and of the workers' states, and that a worker   *)
(* between commands holds no row.                                          *)
THEOREM LedgerTypeCorrect == Spec => []TypeOK
<1>1. IInv => TypeOK
    BY DEF IInv, Shape
<1>. QED
    BY <1>1, AlwaysInv, PTL

(* link_claim_revision and the creation of an assertion never bind two     *)
(* revisions of one claim to one assertion, however they interleave.       *)
THEOREM BindingsAreUnambiguous == Spec => []OneRevisionPerClaim
<1>1. IInv => OneRevisionPerClaim
    BY DEF IInv
<1>. QED
    BY <1>1, AlwaysInv, PTL

(* No command, concurrent or late, changes what a map revision froze or    *)
(* the evidence a beneficiary revision was judged by.                      *)
THEOREM FrozenStaysFrozen == Spec => FrozenNeverRewritten
<1>1. IInv /\ [Next]_vars => [/\ \A m \in maps : MapView(m)' = MapView(m)
                            /\ \A b \in benefits : BenefitView(b)' = BenefitView(b)]_vars
    BY ViewsStep
<1>. QED
    BY <1>1, AlwaysInv, PTL DEF Spec, FrozenNeverRewritten

(* Whatever map revisions, beneficiaries and cases show as supported is    *)
(* supported, without a contradiction, by the evidence shown with it: a     *)
(* concurrent evidence link or binding cannot slip between a command's      *)
(* check and its commit, nor enter the past of what was shown.             *)
THEOREM ShownSupportHolds == Spec => []ShownSupportIsReal
<1>1. SupportInv => ShownSupportIsReal
    BY DEF SupportInv, ShownSupportIsReal, Grounded, Clean, HasConflict, LinksOf
<1>2. Spec => []SupportInv
    BY AlwaysInv, SupportInit, SupportStep, PTL DEF Spec
<1>. QED
    BY <1>1, <1>2, PTL

(* The semantic profiles of a beneficiary are numbered without a gap and   *)
(* not back in time, each on a beneficiary revision and the map revision   *)
(* it was judged by; what is supported by the claims frozen with it was    *)
(* not contradicted by then and never will have been.                      *)
THEOREM ProfilesHold == Spec => []ProfilesRestOnFrozen
<1>1. ProfileInv => ProfilesRestOnFrozen
    <2> SUFFICES ASSUME ProfileInv, NEW p \in profiles
                 PROVE  /\ \A q \in profiles : q.beneficiary = p.beneficiary /\ q.no = p.no => q = p
                        /\ p.no > 1 => \E q \in profiles : q.beneficiary = p.beneficiary
                                                            /\ q.no + 1 = p.no /\ q.at <= p.at
                        /\ \E b \in benefits, m \in maps :
                               /\ FrozenBy(p, b) /\ m.no = b.map /\ m.at <= b.at /\ p.drivers \subseteq m.members
                               /\ \A s \in p.assertions : s.state = "supported" =>
                                      /\ \E k \in s.supports : HasSupport(k, p.at)
                                      /\ \A k \in s.supports : ~HasConflict(k, b.at)
        BY DEF ProfilesRestOnFrozen
    <2>1. Linear(p) /\ Rests(p)
        BY DEF ProfileInv
    <2>2. PICK b \in benefits : FrozenBy(p, b) /\ OnMap(b.map, b.at, p.drivers) /\ Supported(p, b)
        BY <2>1 DEF Rests
    <2>3. PICK m \in maps : m.no = b.map /\ m.at <= b.at /\ p.drivers \subseteq m.members
        BY <2>2 DEF OnMap
    <2>. QED
        BY <2>1, <2>2, <2>3 DEF Linear, ProfilesOf, Supported
<1>2. Spec => []ProfileInv
    BY AlwaysInv, ProfileInit, ProfileStep, PTL DEF Spec
<1>. QED
    BY <1>1, <1>2, PTL

-----------------------------------------------------------------------------
(* Deadlocks                                                               *)

(* The order in which every command but a freeze locks: what identifies its *)
(* chain, the assertion or the company row, claims in order of their ids.   *)
Level(row) ==
    IF row[1] = "claim" THEN row[2] + 2 ELSE IF row[1] \in {"assertion", "company"} THEN 1 ELSE 0

(* Locks of a command: ranked one after the other, upwards.                 *)
Upwards(locks) ==
    /\ \A s \in locks : s.rank \in Nat /\ Level(s.row) \in Nat
    /\ \A s, t \in locks : s # t => s.rank # t.rank
    /\ \A s, t \in locks : s.rank < t.rank => Level(s.row) < Level(t.row)

Above(locks, held) == \A s \in locks, r \in held : Level(r) < Level(s.row)

(* What a worker that freezes nothing still has to lock is above what it    *)
(* holds, and claims come after everything else.                           *)
InOrder(w) ==
    cmd[w].kind # "freeze" =>
        /\ Upwards(todo[w]) /\ Above(todo[w], holds[w])
        /\ \A s \in todo[w] : \E k \in Claim \union {0} : Level(s.row) <= k + 2
        /\ pc[w] = "identities" => /\ \A r \in holds[w] : Level(r) \in {0, 1}
                                   /\ \A s \in todo[w] : Level(s.row) \in {0, 1}

OrderInv == \A w \in Worker : InOrder(w)

(* A set of numbers with a bound has a greatest one.                        *)
LEMMA HighestExists ==
    ASSUME NEW T, T \subseteq Nat, T # {}, NEW n \in Nat, \A x \in T : x <= n
    PROVE  \E x \in T : \A y \in T : y <= x
<1> DEFINE U == {n - x : x \in T}
<1>1. \A x \in T : x \in Nat /\ n - x \in Nat
    OBVIOUS
<1>2. U \subseteq Nat /\ U # {}
    BY <1>1
<1>3. PICK R : R = OpToRel(<, Nat) /\ IsWellFoundedOn(R, Nat)
    BY NatLessThanWellFounded
<1>4. \E u \in U : \A v \in U : ~(<<v, u>> \in R)
    BY <1>2, <1>3, WFMin
<1>5. PICK x \in T : \A v \in U : ~(<<v, n - x>> \in R)
    BY <1>4
<1>6. ASSUME NEW y \in T
      PROVE  y <= x
    <2>1. n - y \in U /\ n - y \in Nat /\ n - x \in Nat
        OBVIOUS
    <2>2. ~(n - y < n - x)
        BY <1>3, <1>5, <2>1 DEF OpToRel
    <2>. QED
        BY <2>2
<1>. QED
    BY <1>6

(* The next lock of a worker is one it still has to take, of the least rank. *)
LEMMA LeastIsNext ==
    ASSUME NEW w \in Worker, Upwards(todo[w]), todo[w] # {}
    PROVE  NextLock(w) \in todo[w] /\ \A t \in todo[w] : NextLock(w).rank <= t.rank
<1> DEFINE T == {s.rank : s \in todo[w]}
<1>1. T \subseteq Nat /\ T # {}
    BY DEF Upwards
<1>2. PICK R : R = OpToRel(<, Nat) /\ IsWellFoundedOn(R, Nat)
    BY NatLessThanWellFounded
<1>3. \E u \in T : \A v \in T : ~(<<v, u>> \in R)
    BY <1>1, <1>2, WFMin
<1>4. PICK s \in todo[w] : \A v \in T : ~(<<v, s.rank>> \in R)
    BY <1>3
<1>5. \A t \in todo[w] : s.rank <= t.rank
    <2> SUFFICES ASSUME NEW t \in todo[w] PROVE s.rank <= t.rank
        OBVIOUS
    <2>1. t.rank \in T /\ t.rank \in Nat /\ s.rank \in Nat
        BY DEF Upwards
    <2>2. ~(t.rank < s.rank)
        BY <1>2, <1>4, <2>1 DEF OpToRel
    <2>. QED
        BY <2>1, <2>2
<1>. QED
    BY <1>4, <1>5 DEF NextLock

LEMMA IdentityLocksUpwards ==
    ASSUME NEW c \in Command, c.kind # "freeze"
    PROVE  Upwards(IdentityLocks(c)) /\ \A s \in IdentityLocks(c) : Level(s.row) \in {0, 1}
<1>1. Level(IdentityRow(c)) = 0
    <2>1. \A i : Level(Row("beneficiary", i)) = 0 /\ Level(Row("profile", i)) = 0 /\ Level(Row("identity", i)) = 0
        BY DEF Level, Row
    <2>2. c.kind \in {"link", "claim", "bind", "assert", "benefit", "pool", "case", "profile"}
        BY CommandAssumption DEF LinkCommand, ClaimCommand, BindCommand, AssertCommand, FreezeCommand,
            BenefitCommand, PoolCommand, CaseCommand, ProfileCommand
    <2>3. CASE c.kind \in {"benefit", "profile", "claim"}
        BY <2>1, <2>3 DEF IdentityRow
    <2>4. CASE c.kind \notin {"benefit", "profile", "claim"}
        <3>1. IdentityRow(c) = Row(c.kind, 0)
            BY <2>4 DEF IdentityRow
        <3>2. c.kind \notin {"claim", "assertion", "company"}
            BY <2>2, <2>4
        <3>. QED
            BY <3>1, <3>2 DEF Level, Row
    <2>. QED
        BY <2>3, <2>4
<1>2. \A a : Level(Row("assertion", a)) = 1 /\ Level(Row("company", a)) = 1
    BY DEF Level, Row
<1>3. PICK first : first = [rank |-> 0, row |-> IdentityRow(c)] /\ first.rank = 0 /\ Level(first.row) = 0
    <2>1. PICK x : x = [rank |-> 0, row |-> IdentityRow(c)]
        OBVIOUS
    <2>. QED
        BY <2>1, <1>1
<1>4. PICK second : second.rank = 1 /\ Level(second.row) = 1 /\ IdentityLocks(c) \subseteq {first, second}
    <2>1. CASE c.kind = "bind"
        <3>1. PICK x : x = [rank |-> 1, row |-> Row("assertion", c.assertion)]
            OBVIOUS
        <3>. QED
            BY <2>1, <3>1, <1>2, <1>3 DEF IdentityLocks
    <2>2. CASE c.kind # "bind"
        <3>1. PICK x : x = [rank |-> 1, row |-> Row("company", c.beneficiary)]
            OBVIOUS
        <3>. QED
            BY <2>2, <3>1, <1>2, <1>3 DEF IdentityLocks
    <2>. QED
        BY <2>1, <2>2
<1>. QED
    BY <1>3, <1>4 DEF Upwards

LEMMA ClaimLocksUpwards ==
    ASSUME NEW c \in Command, c.kind # "freeze"
    PROVE  /\ Upwards(ClaimLocks(c))
           /\ \A s \in ClaimLocks(c) : 1 < Level(s.row) /\ \E k \in Claim \union {0} : Level(s.row) <= k + 2
<1>1. \A k \in Claim : k \in Nat /\ k # 0 /\ Level(Row("claim", k)) = k + 2
    BY LedgerAssumption DEF Level, Row
<1>2. CASE c.kind = "link"
    <2>1. PICK s : s = [rank |-> 0, row |-> Row("claim", c.claim)] /\ ClaimLocks(c) = {s}
        BY <1>2 DEF ClaimLocks
    <2>2. c.claim \in Claim
        BY <1>2, Parameters DEF LinkCommand
    <2>3. s.rank = 0 /\ Level(s.row) = c.claim + 2 /\ c.claim \in Nat /\ c.claim # 0
        BY <2>1, <2>2, <1>1
    <2>. QED
        BY <2>1, <2>2, <2>3 DEF Upwards
<1>3. CASE c.kind = "benefit"
    <2>1. ClaimLocks(c) = {[rank |-> k, row |-> Row("claim", k)] : k \in c.claims} /\ c.claims \subseteq Claim
        BY <1>3, Parameters DEF ClaimLocks, BenefitCommand
    <2>2. \A s \in ClaimLocks(c) : s.rank \in Claim /\ s = [rank |-> s.rank, row |-> Row("claim", s.rank)]
        BY <2>1
    <2>3. \A s \in ClaimLocks(c) : s.rank \in Nat /\ s.rank # 0 /\ Level(s.row) = s.rank + 2
        BY <2>2, <1>1
    <2>. QED
        BY <2>2, <2>3 DEF Upwards
<1>4. CASE c.kind \notin {"link", "benefit"}
    <2>1. ClaimLocks(c) = {}
        BY <1>4 DEF ClaimLocks
    <2>. QED
        BY <2>1 DEF Upwards
<1>. QED
    BY <1>2, <1>3, <1>4

LEMMA OrderInit == Init => OrderInv
    BY DEF Init, OrderInv, InOrder, Upwards, Above, NoCommand

LEMMA OrderStep == IInv /\ OrderInv /\ [Next]_vars => OrderInv'
<1> SUFFICES ASSUME IInv, OrderInv, [Next]_vars PROVE OrderInv'
    OBVIOUS
<1>0. /\ pc \in [Worker -> {"idle", "identities", "claims", "write"}]
      /\ cmd \in [Worker -> Command \union {NoCommand}] /\ DOMAIN todo = Worker /\ DOMAIN holds = Worker
      /\ \A v \in Worker : InOrder(v)
    BY DEF IInv, Shape, TypeOK, OrderInv
<1>1. ASSUME NEW v \in Worker, cmd'[v] = cmd[v], todo'[v] = todo[v], holds'[v] = holds[v], 
             pc'[v] = pc[v] \/ pc'[v] # "identities"
      PROVE  InOrder(v)'
    BY <1>0, <1>1 DEF InOrder, Above
<1>2. ASSUME NEW v \in Worker, todo'[v] = {}, holds'[v] = {}
      PROVE  InOrder(v)'
    BY <1>2 DEF InOrder, Upwards, Above
<1>3. ASSUME NEW w \in Worker, NEW c \in Command, Start(w, c) PROVE OrderInv'
    <2>1. /\ cmd'[w] = c /\ todo'[w] = IdentityLocks(c) /\ holds'[w] = {}
          /\ \A v \in Worker \ {w} :
                 cmd'[v] = cmd[v] /\ todo'[v] = todo[v] /\ holds'[v] = holds[v] /\ pc'[v] = pc[v]
        BY <1>0, <1>3 DEF Start, IInv, Shape, TypeOK
    <2>2. PICK locks : locks = IdentityLocks(c)
        OBVIOUS
    <2>3. c.kind # "freeze" => Upwards(locks) /\ \A s \in locks : Level(s.row) \in {0, 1}
        BY <2>2, IdentityLocksUpwards DEF Upwards
    <2>4. InOrder(w)'
        BY <2>1, <2>2, <2>3 DEF InOrder, Above
    <2>. QED
        BY <2>1, <2>4, <1>1 DEF OrderInv
<1>4. ASSUME NEW w \in Worker, Lock(w) PROVE OrderInv'
    <2>1. PICK s : s = NextLock(w)
        OBVIOUS
    <2>2. /\ todo[w] # {} /\ pc' = pc /\ cmd' = cmd
          /\ todo'[w] = todo[w] \ {s} /\ holds'[w] = holds[w] \union {s.row}
          /\ \A v \in Worker \ {w} : todo'[v] = todo[v] /\ holds'[v] = holds[v]
        BY <1>0, <1>4, <2>1 DEF Lock, Locking
    <2>3. InOrder(w)'
        <3> SUFFICES ASSUME cmd[w].kind # "freeze" PROVE InOrder(w)'
            BY <2>2 DEF InOrder
        <3>1. Upwards(todo[w]) /\ Above(todo[w], holds[w])
            BY <1>0 DEF InOrder
        <3>2. s \in todo[w] /\ \A t \in todo[w] : s.rank <= t.rank
            BY <2>1, <2>2, <3>1, LeastIsNext
        <3>3. \A t \in todo[w] \ {s} : Level(s.row) < Level(t.row)
            BY <3>1, <3>2 DEF Upwards
        <3>4. Upwards(todo'[w]) /\ Above(todo'[w], holds'[w])
            BY <2>2, <3>1, <3>3 DEF Upwards, Above
        <3>5. /\ \A t \in todo[w] : \E k \in Claim \union {0} : Level(t.row) <= k + 2
              /\ pc[w] = "identities" => /\ \A r \in holds[w] : Level(r) \in {0, 1}
                                         /\ \A t \in todo[w] : Level(t.row) \in {0, 1}
            BY <1>0 DEF InOrder
        <3>. QED
            BY <2>2, <3>2, <3>4, <3>5 DEF InOrder
    <2>. QED
        BY <2>2, <2>3, <1>1 DEF OrderInv
<1>5. ASSUME NEW w \in Worker, ResolveClaims(w) PROVE OrderInv'
    <2>1. /\ pc[w] = "identities" /\ pc'[w] = "claims" /\ cmd' = cmd /\ holds' = holds
          /\ todo'[w] = ClaimLocks(cmd[w]) /\ cmd[w] \in Command
          /\ \A v \in Worker \ {w} : todo'[v] = todo[v] /\ pc'[v] = pc[v]
        BY <1>0, <1>5 DEF ResolveClaims, IInv, Shape, TypeOK
    <2>2. PICK locks : locks = ClaimLocks(cmd[w])
        OBVIOUS
    <2>3. cmd[w].kind # "freeze" =>
              /\ Upwards(locks)
              /\ \A s \in locks : 1 < Level(s.row) /\ \E k \in Claim \union {0} : Level(s.row) <= k + 2
        BY <2>1, <2>2, ClaimLocksUpwards
    <2>4. cmd[w].kind # "freeze" => \A r \in holds[w] : Level(r) \in {0, 1}
        BY <1>0, <2>1 DEF InOrder
    <2>5. cmd[w].kind # "freeze" => Above(locks, holds[w])
        BY <2>3, <2>4 DEF Above, Upwards
    <2>6. InOrder(w)'
        BY <2>1, <2>2, <2>3, <2>5 DEF InOrder, Above, Upwards
    <2>. QED
        BY <2>1, <2>6, <1>1 DEF OrderInv
<1>6. ASSUME NEW w \in Worker, Check(w) PROVE OrderInv'
    <2>1. /\ cmd' = cmd /\ todo' = todo /\ holds' = holds
          /\ \A v \in Worker : pc'[v] = pc[v] \/ pc'[v] # "identities"
        BY <1>0, <1>6 DEF Check
    <2>. QED
        BY <2>1, <1>1 DEF OrderInv
<1>7. ASSUME NEW w \in Worker, End(w) PROVE OrderInv'
    BY <1>1, <1>2, <1>7, Ending DEF OrderInv
<1>8. ASSUME NEW w \in Worker, Commit(w) PROVE OrderInv'
    <2>1. End(w)
        BY <1>8 DEF Commit, LinkEvidence, AppendClaimRevision, LinkClaimRevision,
            AppendAssertionRevision, AppendMapRevision, AppendBeneficiaryRevision,
            AppendCandidatePoolRevision, AppendCaseRevision, AppendProfileRevision, Committing
    <2>. QED
        BY <2>1, <1>7
<1>9. CASE UNCHANGED vars
    BY <1>1, <1>9 DEF vars, OrderInv
<1>10. ASSUME NEW w \in Worker, Step(w) \/ Fail(w) PROVE OrderInv'
    BY <1>4, <1>5, <1>6, <1>7, <1>8, <1>10 DEF Step, Fail, Reject, Conflict, DeadlockVictim
<1>. QED
    BY <1>3, <1>9, <1>10 DEF Next, Finished

(* Along a wait the awaited level rises, and there is a highest one.        *)
LEMMA NoCycleUpwards == OrderInv => CyclesNeedFreeze
<1> SUFFICES ASSUME OrderInv, NEW S \in SUBSET Worker, Deadlocked(S), \A w \in S : cmd[w].kind # "freeze"
             PROVE  FALSE
    BY DEF CyclesNeedFreeze
<1> DEFINE Awaited(w) == Level(NextLock(w).row)
<1>1. ASSUME NEW w \in S
      PROVE  /\ NextLock(w) \in todo[w] /\ Awaited(w) \in Nat
             /\ \E k \in Claim \union {0} : Awaited(w) <= k + 2
    <2>1. todo[w] # {} /\ InOrder(w) /\ cmd[w].kind # "freeze"
        BY DEF Deadlocked, Waits, Locking, OrderInv
    <2>2. Upwards(todo[w]) /\ \A s \in todo[w] : \E k \in Claim \union {0} : Level(s.row) <= k + 2
        BY <2>1 DEF InOrder
    <2>3. NextLock(w) \in todo[w]
        BY <2>1, <2>2, LeastIsNext
    <2>. QED
        BY <2>2, <2>3 DEF Upwards
<1>2. ASSUME NEW w \in S
      PROVE  \E v \in S : Awaited(w) < Awaited(v)
    <2>1. PICK v \in S : NextLock(w).row \in holds[v]
        BY DEF Deadlocked, Waits
    <2>2. Above(todo[v], holds[v])
        BY DEF OrderInv, InOrder
    <2>. QED
        BY <1>1, <2>1, <2>2 DEF Above
<1> DEFINE T == {Awaited(w) : w \in S}
<1>3. PICK n \in Claim \union {0} : \A k \in Claim : k <= n
    BY LedgerAssumption
<1>4. n + 2 \in Nat /\ \A k \in Claim \union {0} : k \in Nat /\ k <= n
    BY <1>3, LedgerAssumption
<1>5. \A w \in S : Awaited(w) <= n + 2
    BY <1>1, <1>4
<1>6. T \subseteq Nat /\ T # {} /\ \A x \in T : x <= n + 2
    BY <1>1, <1>5 DEF Deadlocked
<1> HIDE DEF Awaited
<1>7. \E x \in T : \A y \in T : y <= x
    <2>1. PICK U : U = T
        OBVIOUS
    <2>. QED
        BY <2>1, <1>4, <1>6, HighestExists
<1>8. PICK w \in S : \A v \in S : Awaited(v) <= Awaited(w)
    BY <1>7
<1>9. PICK v \in S : Awaited(w) < Awaited(v)
    BY <1>2
<1>. QED
    BY <1>1, <1>8, <1>9

(* Commands that lock the same rows wait for each other in a cycle only     *)
(* where one of them freezes a map, however many take part.                *)
THEOREM CyclesHaveFreeze == Spec => []CyclesNeedFreeze
<1>1. Spec => []OrderInv
    BY AlwaysInv, OrderInit, OrderStep, PTL DEF Spec
<1>. QED
    BY <1>1, NoCycleUpwards, PTL

=============================================================================
