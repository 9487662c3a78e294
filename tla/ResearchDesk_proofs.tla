------------------------ MODULE ResearchDesk_proofs -------------------------
(* Proofs about ResearchDesk and the records below it.                     *)
EXTENDS ResearchDesk, FiniteSetTheorems, WellFoundedInduction, TLAPS

---------------------------------------------------------------------------
(* Numbers.                                                                *)

LEMMA LeastNumber ==
    ASSUME NEW T, T \subseteq Nat, T # {}
    PROVE  \E x \in T : \A y \in T : x <= y
  <1>1. PICK x \in T : \A y \in T : <<y, x>> \notin OpToRel(<, Nat)
    <2>1. PICK R : R = OpToRel(<, Nat) /\ IsWellFoundedOn(R, Nat)
      BY NatLessThanWellFounded
    <2>2. \E x \in T : \A y \in T : ~(<<y, x>> \in R)
      BY <2>1, WFMin
    <2> QED
      BY <2>1, <2>2
  <1>2. ASSUME NEW y \in T
        PROVE  x <= y
    <2>1. ~(y < x)
      BY <1>1 DEF OpToRel
    <2> QED
      BY <2>1
  <1> QED
    BY <1>2

(* The greatest of some of the numbers up to n is one of them.             *)
LEMMA GreatestIsOne ==
    ASSUME NEW n \in Nat, NEW S, S \subseteq 1..n, S # {}
    PROVE  Greatest(S) \in S /\ \A m \in S : m <= Greatest(S)
  <1> DEFINE T == {n - m : m \in S}
  <1>1. T \subseteq Nat /\ T # {}
    <2>1. \A m \in S : n - m \in Nat
      OBVIOUS
    <2> QED
      BY <2>1
  <1>2. PICK x \in T : \A y \in T : x <= y
    BY <1>1, LeastNumber
  <1>3. PICK g \in S : x = n - g
    OBVIOUS
  <1>4. \A m \in S : m <= g
    BY <1>2, <1>3
  <1> QED
    BY <1>3, <1>4 DEF Greatest

(* A chain of revisions is numbered 1, 2, 3, ... .                          *)
Chained(numbers) == \E n \in Nat : numbers = 1..n

LEMMA GreatestOfChain ==
    ASSUME NEW n \in Nat
    PROVE  Greatest(1..n) = n
  <1>1. CASE n = 0
    BY <1>1 DEF Greatest
  <1>2. CASE n # 0
    <2>1. n \in 1..n /\ 1..n # {}
      BY <1>2
    <2>2. Greatest(1..n) \in 1..n /\ \A m \in 1..n : m <= Greatest(1..n)
      BY <2>1, GreatestIsOne
    <2> QED
      BY <2>1, <2>2
  <1> QED
    BY <1>1, <1>2

LEMMA ChainTop ==
    ASSUME NEW S, Chained(S)
    PROVE  /\ Greatest(S) \in Nat /\ S = 1..Greatest(S)
           /\ Greatest(S) # 0 => Greatest(S) \in S
           /\ Greatest(S) + 1 \notin S
           /\ Chained(S \union {Greatest(S) + 1})
  <1>1. PICK n \in Nat : S = 1..n
    BY DEF Chained
  <1>2. Greatest(S) = n
    BY <1>1, GreatestOfChain
  <1>3. 1..n \union {n + 1} = 1..(n + 1) /\ n + 1 \in Nat /\ n + 1 \notin 1..n
    BY <1>1
  <1> QED
    BY <1>1, <1>2, <1>3 DEF Chained

LEMMA ChainOfOne == Chained({}) /\ Chained({1})
  <1>1. {} = 1..0 /\ {1} = 1..1 /\ 0 \in Nat /\ 1 \in Nat
    OBVIOUS
  <1> QED
    BY <1>1 DEF Chained

---------------------------------------------------------------------------
(* The rows.                                                               *)

IsScope(x) == x.seeds \subseteq Company /\ x.map \in BOOLEAN

(* The numbers of the revisions of a company, and of a pool.                *)
OwnerNos(company) == {o.no : o \in OwnersOf(company)}
PoolNos(id) == {p.no : p \in {x \in pools : x.id = id}}
RevisionNos(s) == {r.no : r \in Revisions(s)}

RevsOK ==
    /\ Chained(Sessions) /\ \A s : Chained(RevisionNos(s))
    /\ \A r \in revs : r.at \in Nat /\ r.at <= now /\ IsScope(r.scope)
    /\ \A r, q \in revs : r.session = q.session /\ r.no = q.no => r = q

(* Every build of a revision proposes these candidates, or none at all.     *)
Starts(r) ==
    IF r.scope.seeds # {} THEN {SeedProposal(r.no, c) : c \in r.scope.seeds} ELSE PoolMembers(Pooled)

CandsOK ==
    /\ \A c \in cands : c.key.company \in Company
    /\ \A c \in cands : \E r \in revs : r.session = c.session /\ r.no = c.bound
    /\ \A c \in cands, r \in revs :
           c.session = r.session /\ c.bound = r.no /\ r.workflow = "ready"
               => Starts(r) \subseteq Candidates(r.session)

PlansOK ==
    \A p \in plans : ~Legacy(p) => OneEach(p.selected) /\ \A k \in p.selected : k.company \in Company

OwnersOK ==
    /\ \A c : Chained(OwnerNos(c))
    /\ \A o \in owners : o.at \in Nat /\ o.at <= now
    /\ \A o, x \in owners : o.company = x.company /\ o.no = x.no => o = x
    /\ \A o, x \in owners : o.company = x.company /\ o.no <= x.no => o.at <= x.at

PoolsOK ==
    /\ \A i : Chained(PoolNos(i))
    /\ \A p \in pools : p.at \in Nat /\ p.at <= now
    /\ \A p, q \in pools : p.id = q.id /\ p.no = q.no => p = q
    /\ \A p, q \in pools : p.id = q.id /\ p.no <= q.no => p.at <= q.at
    /\ \A p \in pools : p.id = <<0, 1>> \/ \E o \in outputs : p.id = <<o.session, o.reviewed>>

(* What an output binds is there, in one revision per company, and so is    *)
(* the pool revision after the one it appended to.                          *)
OutputFits(o) ==
    /\ o.at \in Nat
    /\ \E r \in revs : r.session = o.session /\ r.no = o.accepted /\ r.at <= o.at
    /\ OneEach(DOMAIN o.plan.bindings)
    /\ \A k \in DOMAIN o.plan.bindings :
           LET i == o.plan.bindings[k]
           IN /\ k.company \in Company
              /\ \E x \in OwnersOf(k.company) : Binds(k, i) = <<x.company, x.no>> /\ x.at <= o.at
              /\ i.op # "reuse" =>
                     i.no \in Nat /\ \A x \in OwnersOf(k.company) : x.no <= i.no => Visible(x, o.seen)
    /\ LET i == o.plan.pool
       IN i.op = "append" =>
              /\ i.no \in Nat /\ \E p \in pools : p.id = i.id /\ p.no = i.no + 1
              /\ \A p \in pools : p.id = i.id /\ p.no <= i.no => Visible(p, o.seen)

OutputsOK == \A o \in outputs : OutputFits(o)

RowsOK == now \in Nat /\ RevsOK /\ CandsOK /\ PlansOK /\ OwnersOK /\ PoolsOK /\ OutputsOK

---------------------------------------------------------------------------
(* Commands on their way.                                                  *)

(* What was found when a build or an acceptance was composed stays so.      *)
BuildComposed(c) ==
    /\ \A k \in c.proposals : k.company \in Company
    /\ \E r \in revs : /\ r.session = c.session /\ r.no = c.no /\ r.workflow = "ready"
                       /\ Starts(r) # {} /\ Starts(r) \subseteq c.proposals

AcceptComposed(c) ==
    /\ c.at \in Int
    /\ \E r \in revs : r.session = c.session /\ r.no = c.no
    /\ \A k \in DOMAIN c.plan.bindings :
           LET i == c.plan.bindings[k]
           IN /\ i.op \in {"reuse", "append", "create"} /\ i.no \in Nat
              /\ i.op = "create" => i.no = 0
              /\ i.op = "append" => \E o \in OwnersOf(k.company) : o.no = i.no /\ Visible(o, c.at)
    /\ LET i == c.plan.pool
       IN i.op = "append" => i.no \in Nat /\ \E p \in pools : p.id = i.id /\ p.no = i.no /\ Visible(p, c.at)

---------------------------------------------------------------------------
(* How rows are added.                                                     *)

LEMMA Revised ==
    ASSUME RowsOK, NEW s, LatestNo(s) # 0
    PROVE  s \in Sessions /\ \E r \in revs : r.session = s /\ r.no = LatestNo(s)
  <1>1. Chained(RevisionNos(s)) /\ LatestNo(s) = Greatest(RevisionNos(s))
    BY DEF RowsOK, RevsOK, LatestNo, RevisionNos
  <1>2. LatestNo(s) \in RevisionNos(s)
    BY <1>1, ChainTop
  <1> QED
    BY <1>2 DEF RevisionNos, Revisions, Sessions

LEMMA NumbersOfSession ==
    ASSUME RowsOK, NEW s \in Sessions
    PROVE  LatestNo(s) \in Nat \ {0} /\ \E r \in revs : r.session = s /\ r.no = LatestNo(s)
  <1>1. Chained(RevisionNos(s)) /\ LatestNo(s) = Greatest(RevisionNos(s))
    BY DEF RowsOK, RevsOK, LatestNo, RevisionNos
  <1>2. RevisionNos(s) # {}
    BY DEF RevisionNos, Revisions, Sessions
  <1>3. LatestNo(s) \in Nat /\ RevisionNos(s) = 1..LatestNo(s)
    BY <1>1, ChainTop
  <1>4. LatestNo(s) # 0
    BY <1>2, <1>3
  <1> QED
    BY <1>3, <1>4, Revised

LEMMA FreshSession ==
    ASSUME RowsOK
    PROVE  /\ NextSession \in Nat \ {0} /\ NextSession \notin Sessions
           /\ LatestNo(NextSession) = 0 /\ Chained(Sessions \union {NextSession})
  <1> DEFINE m == Greatest(Sessions)
  <1>1. m \in Nat /\ Sessions = 1..m /\ m + 1 \notin Sessions /\ Chained(Sessions \union {m + 1})
    BY ChainTop DEF RowsOK, RevsOK
  <1>2. Cardinality(Sessions) = m
    <2>1. m \in Int /\ 1 \in Int
      BY <1>1
    <2>2. Cardinality(1..m) = IF 1 > m THEN 0 ELSE m - 1 + 1
      BY <2>1, FS_Interval
    <2> QED
      BY <1>1, <2>2
  <1>3. NextSession = m + 1
    BY <1>2 DEF NextSession
  <1>4. {r.no : r \in Revisions(NextSession)} = {}
    BY <1>1, <1>3 DEF Revisions, Sessions
  <1>5. LatestNo(NextSession) = 0
    BY <1>4 DEF LatestNo, Greatest
  <1> QED
    BY <1>1, <1>3, <1>5

(* A revision follows the latest one of its session, or opens a session.    *)
Follows(s, n) == (s = NextSession /\ n = 0) \/ (s \in Sessions /\ LatestNo(s) = n)

LEMMA RevisionAdded ==
    ASSUME RowsOK, NEW s, NEW n, NEW w, NEW x, IsScope(x), Follows(s, n),
           revs' = revs \union {RevisionRow(s, n + 1, w, x)}, now' \in Nat, now + 1 <= now'
    PROVE  /\ RevsOK' /\ n \in Nat
           /\ \A r \in revs : ~(r.session = s /\ r.no = n + 1)
  <1> DEFINE row == RevisionRow(s, n + 1, w, x)
  <1>1. /\ row.session = s /\ row.no = n + 1 /\ row.at = now + 1 /\ row.scope = x /\ row.workflow = w
    BY DEF RevisionRow
  <1>2. now \in Nat
    BY DEF RowsOK
  <1>3. n = LatestNo(s) /\ n = Greatest(RevisionNos(s)) /\ Chained(RevisionNos(s))
    BY FreshSession DEF Follows, LatestNo, RevisionNos, RowsOK, RevsOK
  <1>4. n \in Nat /\ n + 1 \notin RevisionNos(s) /\ Chained(RevisionNos(s) \union {n + 1})
    BY <1>3, ChainTop
  <1>5. \A r \in revs : ~(r.session = s /\ r.no = n + 1)
    BY <1>4 DEF RevisionNos, Revisions
  <1>6. Sessions' = Sessions \union {s}
    BY <1>1 DEF Sessions
  <1>7. Chained(Sessions \union {s})
    <2>1. CASE s = NextSession
      BY <2>1, FreshSession
    <2>2. CASE s \in Sessions
      <3>1. Sessions \union {s} = Sessions
        BY <2>2
      <3> QED
        BY <3>1 DEF RowsOK, RevsOK
    <2> QED
      BY <2>1, <2>2 DEF Follows
  <1>8. Chained(Sessions)'
    BY <1>6, <1>7 DEF Chained
  <1>9. ASSUME NEW q PROVE Chained(RevisionNos(q))'
    <2>1. CASE q = s
      <3>1. RevisionNos(q)' = RevisionNos(s) \union {n + 1}
        BY <1>1, <2>1 DEF RevisionNos, Revisions
      <3> QED
        BY <3>1, <1>4 DEF Chained
    <2>2. CASE q # s
      <3>1. RevisionNos(q)' = RevisionNos(q)
        BY <1>1, <2>2 DEF RevisionNos, Revisions
      <3>2. Chained(RevisionNos(q))
        BY DEF RowsOK, RevsOK
      <3> QED
        BY <3>1, <3>2 DEF Chained
    <2> QED
      BY <2>1, <2>2
  <1>10. \A r \in revs' : r.at \in Nat /\ r.at <= now' /\ IsScope(r.scope)
    BY <1>1, <1>2 DEF RowsOK, RevsOK
  <1>11. \A r, q \in revs' : r.session = q.session /\ r.no = q.no => r = q
    BY <1>1, <1>5 DEF RowsOK, RevsOK
  <1> QED
    BY <1>4, <1>5, <1>8, <1>9, <1>10, <1>11 DEF RevsOK, IsScope

(* Nothing recorded is taken back, and what is added to a company or a pool *)
(* comes after what it has.  Candidates are added to a revision at once,    *)
(* either with it or when it is ready and has none.                         *)
Grown ==
    /\ revs \subseteq revs' /\ cands \subseteq cands' /\ plans \subseteq plans'
    /\ owners \subseteq owners' /\ pools \subseteq pools' /\ outputs \subseteq outputs'
    /\ now' \in Nat /\ now <= now'
    /\ (\A x \in owners' : x.no \in Nat) /\ (\A p \in pools' : p.no \in Nat)
    /\ \A x \in owners' \ owners, o \in owners : o.company = x.company => o.no < x.no
    /\ \A q \in pools' \ pools, p \in pools : p.id = q.id => p.no < q.no
    /\ \A c \in cands' \ cands, r \in revs :
           r.session = c.session /\ r.no = c.bound =>
               r.workflow = "ready" /\ \A d \in cands : ~(d.session = r.session /\ d.bound = r.no)

LEMMA NumbersAreNumbers ==
    ASSUME RowsOK
    PROVE  (\A o \in owners : o.no \in Nat \ {0}) /\ (\A p \in pools : p.no \in Nat \ {0})
  <1>1. ASSUME NEW o \in owners PROVE o.no \in Nat \ {0}
    <2>1. o.no \in OwnerNos(o.company) /\ Chained(OwnerNos(o.company))
      BY DEF RowsOK, OwnersOK, OwnerNos, OwnersOf
    <2> QED
      BY <2>1 DEF Chained
  <1>2. ASSUME NEW p \in pools PROVE p.no \in Nat \ {0}
    <2>1. p.no \in PoolNos(p.id) /\ Chained(PoolNos(p.id))
      BY DEF RowsOK, PoolsOK, PoolNos
    <2> QED
      BY <2>1 DEF Chained
  <1> QED
    BY <1>1, <1>2

LEMMA OutputKept ==
    ASSUME RowsOK, Grown, NEW o \in outputs
    PROVE  OutputFits(o)'
  <1>1. OutputFits(o)
    BY DEF RowsOK, OutputsOK
  <1>2. \E r \in revs' : r.session = o.session /\ r.no = o.accepted /\ r.at <= o.at
    BY <1>1 DEF OutputFits, Grown
  <1>3. ASSUME NEW k \in DOMAIN o.plan.bindings
        PROVE  LET i == o.plan.bindings[k]
               IN /\ \E x \in OwnersOf(k.company)' : Binds(k, i) = <<x.company, x.no>> /\ x.at <= o.at
                  /\ i.op # "reuse" =>
                       i.no \in Nat /\ \A x \in OwnersOf(k.company)' : x.no <= i.no => Visible(x, o.seen)
    <2> DEFINE i == o.plan.bindings[k]
    <2>1. PICK y \in OwnersOf(k.company) : Binds(k, i) = <<y.company, y.no>> /\ y.at <= o.at
      BY <1>1 DEF OutputFits
    <2>2. y \in OwnersOf(k.company)'
      BY <2>1 DEF OwnersOf, Grown
    <2>3. ASSUME i.op # "reuse", NEW x \in OwnersOf(k.company)', x.no <= i.no
          PROVE  Visible(x, o.seen)
      <3>1. y.no = i.no + 1 /\ i.no \in Nat
        BY <1>1, <2>1, <2>3 DEF OutputFits, Binds
      <3>2. CASE x \in owners
        BY <1>1, <2>3, <3>2 DEF OutputFits, OwnersOf
      <3>3. CASE x \notin owners
        <4>1. y \in owners /\ y.company = x.company /\ x \in owners' \ owners
          BY <2>1, <2>3, <3>3 DEF OwnersOf
        <4>2. y.no < x.no /\ x.no \in Nat
          BY <4>1 DEF Grown
        <4> QED
          BY <2>3, <3>1, <4>2
      <3> QED
        BY <3>2, <3>3
    <2>4. i.op # "reuse" => i.no \in Nat
      BY <1>1 DEF OutputFits
    <2> QED
      BY <2>1, <2>2, <2>3, <2>4
  <1>4. ASSUME o.plan.pool.op = "append"
        PROVE  LET i == o.plan.pool
               IN /\ i.no \in Nat /\ \E p \in pools' : p.id = i.id /\ p.no = i.no + 1
                  /\ \A p \in pools' : p.id = i.id /\ p.no <= i.no => Visible(p, o.seen)
    <2> DEFINE i == o.plan.pool
    <2>1. i.no \in Nat /\ \A p \in pools : p.id = i.id /\ p.no <= i.no => Visible(p, o.seen)
      BY <1>1, <1>4 DEF OutputFits
    <2>2. PICK q \in pools : q.id = i.id /\ q.no = i.no + 1
      BY <1>1, <1>4 DEF OutputFits
    <2>3. ASSUME NEW p \in pools', p.id = i.id, p.no <= i.no PROVE Visible(p, o.seen)
      <3>1. CASE p \in pools
        BY <2>1, <2>3, <3>1
      <3>2. CASE p \notin pools
        <4>1. q.no < p.no /\ p.no \in Nat
          BY <2>2, <2>3, <3>2 DEF Grown
        <4> QED
          BY <2>1, <2>2, <2>3, <4>1
      <3> QED
        BY <3>1, <3>2
    <2>4. q \in pools'
      BY DEF Grown
    <2> QED
      BY <2>1, <2>2, <2>3, <2>4
  <1> QED
    BY <1>1, <1>2, <1>3, <1>4 DEF OutputFits, Visible

LEMMA SameOwners ==
    ASSUME RowsOK, owners' = owners, now' \in Nat, now <= now'
    PROVE  OwnersOK'
  <1>1. now \in Nat /\ OwnersOK
    BY DEF RowsOK
  <1> QED
    BY <1>1 DEF OwnersOK, OwnerNos, OwnersOf, Chained

LEMMA SamePools ==
    ASSUME RowsOK, pools' = pools, outputs \subseteq outputs', now' \in Nat, now <= now'
    PROVE  PoolsOK'
  <1>1. now \in Nat /\ PoolsOK
    BY DEF RowsOK
  <1>2. \A p \in pools' : p.id = <<0, 1>> \/ \E o \in outputs' : p.id = <<o.session, o.reviewed>>
    BY <1>1 DEF PoolsOK
  <1>3. \A i : Chained(PoolNos(i))'
    BY <1>1 DEF PoolsOK, PoolNos, Chained
  <1>4. \A p \in pools' : p.at \in Nat /\ p.at <= now'
    BY <1>1 DEF PoolsOK
  <1>5. /\ \A p, q \in pools' : p.id = q.id /\ p.no = q.no => p = q
        /\ \A p, q \in pools' : p.id = q.id /\ p.no <= q.no => p.at <= q.at
    BY <1>1 DEF PoolsOK
  <1> QED
    BY <1>2, <1>3, <1>4, <1>5 DEF PoolsOK

LEMMA SameOutputs ==
    ASSUME RowsOK, Grown, outputs' = outputs
    PROVE  OutputsOK'
  BY OutputKept DEF OutputsOK

LEMMA SameRevs ==
    ASSUME RowsOK, revs' = revs, now' \in Nat, now <= now'
    PROVE  RevsOK'
  <1>1. now \in Nat /\ RevsOK
    BY DEF RowsOK
  <1>2. \A r \in revs' : r.at \in Nat /\ r.at <= now' /\ IsScope(r.scope)'
    BY <1>1 DEF RevsOK, IsScope
  <1>3. Chained(Sessions)' /\ (\A s : Chained(RevisionNos(s))')
    BY <1>1 DEF RevsOK, Sessions, RevisionNos, Revisions, Chained
  <1>4. \A r, q \in revs' : r.session = q.session /\ r.no = q.no => r = q
    BY <1>1 DEF RevsOK
  <1> QED
    BY <1>2, <1>3, <1>4 DEF RevsOK

LEMMA SamePlans ==
    ASSUME RowsOK, plans' = plans
    PROVE  PlansOK'
  BY DEF RowsOK, PlansOK, Legacy, OneEach

LEMMA SameCands ==
    ASSUME RowsOK, cands' = cands, NEW row, revs' = revs \union {row},
           \A r \in revs : ~(r.session = row.session /\ r.no = row.no)
    PROVE  CandsOK'
  <1>1. CandsOK
    BY DEF RowsOK
  <1>2. \A c \in cands' : c.key.company \in Company /\ \E r \in revs' : r.session = c.session /\ r.no = c.bound
    BY <1>1 DEF CandsOK
  <1>3. ASSUME NEW c \in cands', NEW r \in revs', c.session = r.session, c.bound = r.no, r.workflow = "ready"
        PROVE  Starts(r) \subseteq Candidates(r.session)'
    <2>1. r \in revs
      <3>1. PICK q \in revs : q.session = c.session /\ q.no = c.bound
        BY <1>1 DEF CandsOK
      <3> QED
        BY <1>3, <3>1
    <2>2. Starts(r) \subseteq Candidates(r.session)
      BY <1>1, <1>3, <2>1 DEF CandsOK
    <2> QED
      BY <2>2 DEF Candidates
  <1> QED
    BY <1>2, <1>3 DEF CandsOK, Starts, SeedProposal, PoolMembers

(* Saving and preparing add a revision and nothing else.                    *)
LEMMA OnlyRevised ==
    ASSUME RowsOK, NEW s, NEW n, NEW w, NEW x, IsScope(x), Follows(s, n),
           revs' = revs \union {RevisionRow(s, n + 1, w, x)}, now' = now + 1,
           UNCHANGED <<cands, plans, outputs, owners, pools>>
    PROVE  /\ RowsOK' /\ Grown
           /\ \E r \in revs' : r.session = s /\ r.no = n + 1 /\ r.at <= now + 1
  <1> DEFINE row == RevisionRow(s, n + 1, w, x)
  <1>1. now \in Nat /\ now' \in Nat /\ now <= now' /\ now + 1 <= now'
    BY DEF RowsOK
  <1>2. RevsOK' /\ \A r \in revs : ~(r.session = s /\ r.no = n + 1)
    BY <1>1, RevisionAdded
  <1>3. row.session = s /\ row.no = n + 1 /\ row.at = now + 1
    BY DEF RevisionRow
  <1>4. CandsOK'
    <2> HIDE DEF row
    <2> QED
      BY <1>2, <1>3, SameCands DEF row
  <1>5. Grown
    BY <1>1, NumbersAreNumbers DEF Grown
  <1>6. OwnersOK' /\ PoolsOK' /\ OutputsOK' /\ PlansOK'
    BY <1>1, <1>5, SameOwners, SamePools, SameOutputs, SamePlans
  <1>7. \E r \in revs' : r.session = s /\ r.no = n + 1 /\ r.at <= now + 1
    BY <1>1, <1>3
  <1> QED
    BY <1>1, <1>2, <1>4, <1>5, <1>6, <1>7 DEF RowsOK

(* That the answer to a command opens where it sends its caller, put so     *)
(* that later commands keep it.                                            *)
Opens(kind, p) ==
    /\ \E r \in revs : /\ r.session = p.session /\ r.no = p.no /\ Visible(r, p.at)
                       /\ kind = "build" => r.workflow = "ready"
                       /\ kind = "review" => r.workflow = "reviewed"
    /\ kind \in {"build", "review"} =>
           \A c \in cands : c.session = p.session /\ c.bound = p.no => Visible(c, p.at)
    /\ kind = "build" => \E c \in cands : c.session = p.session /\ c.bound = p.no
    /\ kind = "accept" =>
           \E o \in outputs : o.session = p.session /\ o.accepted = p.no /\ Visible(o, p.at)

LEMMA OpensKept ==
    ASSUME RowsOK, Grown, NEW kind, NEW p, Opens(kind, p)
    PROVE  Opens(kind, p)'
  <1>1. PICK r \in revs : /\ r.session = p.session /\ r.no = p.no /\ Visible(r, p.at)
                          /\ kind = "build" => r.workflow = "ready"
                          /\ kind = "review" => r.workflow = "reviewed"
    BY DEF Opens
  <1>2. r \in revs'
    BY DEF Grown
  <1>3. ASSUME kind \in {"build", "review"}, NEW c \in cands', c.session = p.session, c.bound = p.no
        PROVE  Visible(c, p.at)
    <2>1. CASE c \in cands
      BY <1>3, <2>1 DEF Opens
    <2>2. CASE c \notin cands
      <3>1. r.workflow = "ready" /\ \A d \in cands : ~(d.session = r.session /\ d.bound = r.no)
        BY <1>1, <1>3, <2>2 DEF Grown
      <3> QED
        BY <1>1, <1>3, <3>1 DEF Opens
    <2> QED
      BY <2>1, <2>2
  <1>4. kind = "build" => \E c \in cands' : c.session = p.session /\ c.bound = p.no
    BY DEF Opens, Grown
  <1>5. kind = "accept" => \E o \in outputs' : o.session = p.session /\ o.accepted = p.no /\ Visible(o, p.at)
    BY DEF Opens, Grown
  <1> QED
    BY <1>1, <1>2, <1>3, <1>4, <1>5 DEF Opens, Visible

---------------------------------------------------------------------------
(* One lemma per command.                                                  *)

LEMMA Saves ==
    ASSUME RowsOK, NEW c, c.kind = "save", IsScope(c.scope), SaveAnswer(c).ok, SaveRows(c),
           NEW p, p = SaveAnswer(c).body
    PROVE  RowsOK' /\ Grown /\ Opens("save", p)'
  <1> DEFINE s == IF c.no = 0 THEN NextSession ELSE c.session
  <1>1. Follows(s, c.no) /\ p.session = s /\ p.no = c.no + 1 /\ p.at = now + 1
    <2>1. CASE c.no = 0
      BY <2>1 DEF SaveAnswer, Ok, Path, Settled, Follows
    <2>2. CASE c.no # 0
      <3>1. LatestNo(c.session) = c.no
        BY <2>2 DEF SaveAnswer, Fail
      <3>2. c.session \in Sessions
        BY <2>2, <3>1, Revised
      <3>3. p = Path("scope", c.session, c.no + 1, Settled(c))
        BY <2>2 DEF SaveAnswer, Fail, Ok
      <3> QED
        BY <2>2, <3>1, <3>2, <3>3 DEF Path, Settled, Follows
    <2> QED
      BY <2>1, <2>2
  <1>2. /\ revs' = revs \union {RevisionRow(s, c.no + 1, "draft", c.scope)} /\ now' = now + 1
        /\ UNCHANGED <<cands, plans, outputs, owners, pools>>
    BY DEF SaveRows
  <1> HIDE DEF s
  <1>3. RowsOK' /\ Grown /\ \E r \in revs' : r.session = s /\ r.no = c.no + 1 /\ r.at <= now + 1
    BY <1>1, <1>2, OnlyRevised
  <1> QED
    BY <1>1, <1>3 DEF Opens, Visible

LEMMA ScopesKnown ==
    ASSUME RowsOK, NEW s, NEW n, NEW r \in revs, r.session = s, r.no = n
    PROVE  IsScope(ScopeOf(s, n))
  <1>1. \E x \in Exact(s, n) : TRUE
    BY DEF Exact, Revisions
  <1>2. (CHOOSE x \in Exact(s, n) : TRUE) \in revs
    BY <1>1 DEF Exact, Revisions
  <1> QED
    BY <1>2 DEF ScopeOf, RowsOK, RevsOK

LEMMA Prepares ==
    ASSUME RowsOK, NEW c, c.kind = "prepare", c.no # 0, PrepareAnswer(c).ok, PrepareRows(c),
           NEW p, p = PrepareAnswer(c).body
    PROVE  RowsOK' /\ Grown /\ Opens("prepare", p)'
  <1>1. LatestNo(c.session) = c.no
    BY DEF PrepareAnswer, Fail
  <1>2. c.session \in Sessions /\ \E r \in revs : r.session = c.session /\ r.no = c.no
    BY <1>1, Revised
  <1>3. Follows(c.session, c.no) /\ IsScope(ScopeOf(c.session, c.no))
    BY <1>1, <1>2, ScopesKnown DEF Follows
  <1>4. p.session = c.session /\ p.no = c.no + 1 /\ p.at = now + 1
    BY <1>1 DEF PrepareAnswer, Ok, Path, Settled
  <1>5. /\ revs' = revs \union {RevisionRow(c.session, c.no + 1, "ready", ScopeOf(c.session, c.no))}
        /\ now' = now + 1 /\ UNCHANGED <<cands, plans, outputs, owners, pools>>
    BY DEF PrepareRows
  <1>6. RowsOK' /\ Grown /\ \E r \in revs' : r.session = c.session /\ r.no = c.no + 1 /\ r.at <= now + 1
    BY <1>3, <1>5, OnlyRevised
  <1> QED
    BY <1>4, <1>6 DEF Opens, Visible

LEMMA Builds ==
    ASSUME RowsOK, NEW c, c.kind = "build", BuildComposed(c), BuildAnswer(c).ok, BuildRows(c),
           NEW p, p = BuildAnswer(c).body
    PROVE  RowsOK' /\ Grown /\ Opens("build", p)'
  <1> DEFINE New == {[session |-> c.session, key |-> k, no |-> 1, bound |-> c.no, state |-> "proposed",
                      at |-> now + 1] : k \in c.proposals}
  <1>1. cands' = cands \union New /\ now' = now + 1 /\ UNCHANGED <<revs, plans, outputs, owners, pools>>
    BY DEF BuildRows
  <1>2. /\ \A d \in New : /\ d.session = c.session /\ d.bound = c.no /\ d.at = now + 1
                          /\ d.key \in c.proposals
        /\ \A k \in c.proposals : \E d \in New : d.key = k
    <2>1. ASSUME NEW k \in c.proposals PROVE \E d \in New : d.key = k
      <3> DEFINE d == [session |-> c.session, key |-> k, no |-> 1, bound |-> c.no, state |-> "proposed",
                       at |-> now + 1]
      <3>1. d \in New /\ d.key = k
        OBVIOUS
      <3> QED
        BY <3>1
    <2> QED
      BY <2>1
  <1> HIDE DEF New
  <1>3. LatestNo(c.session) = c.no /\ c.proposals \intersect Candidates(c.session) = {}
    BY DEF BuildAnswer, Fail
  <1>4. p.session = c.session /\ p.no = c.no /\ p.at = now + 1
    BY <1>3 DEF BuildAnswer, Ok, Fail, Path, Settled
  <1>5. PICK r \in revs : /\ r.session = c.session /\ r.no = c.no /\ r.workflow = "ready"
                          /\ Starts(r) # {} /\ Starts(r) \subseteq c.proposals
    BY DEF BuildComposed
  <1>6. \A d \in cands : ~(d.session = c.session /\ d.bound = c.no)
    <2>1. ASSUME NEW d \in cands, d.session = c.session, d.bound = c.no PROVE FALSE
      <3>1. Starts(r) \subseteq Candidates(c.session)
        BY <2>1, <1>5 DEF RowsOK, CandsOK
      <3> QED
        BY <1>3, <1>5, <3>1
    <2> QED
      BY <2>1
  <1>7. now \in Nat /\ now' \in Nat /\ now <= now' /\ r.at <= now + 1
    BY <1>1, <1>5 DEF RowsOK, RevsOK
  <1>8. RevsOK'
    BY <1>1, <1>7, SameRevs
  <1>9. CandsOK'
    <2>1. \A d \in cands' : d.key.company \in Company /\ \E q \in revs' : q.session = d.session /\ q.no = d.bound
      BY <1>1, <1>2, <1>5 DEF RowsOK, CandsOK, BuildComposed
    <2>2. ASSUME NEW d \in cands', NEW q \in revs, d.session = q.session, d.bound = q.no, q.workflow = "ready"
          PROVE  Starts(q) \subseteq Candidates(q.session)'
      <3>1. CASE d \in cands
        <4>1. Starts(q) \subseteq Candidates(q.session)
          BY <2>2, <3>1 DEF RowsOK, CandsOK
        <4> QED
          BY <1>1, <4>1 DEF Candidates
      <3>2. CASE d \in New
        <4>1. q = r
          BY <1>2, <1>5, <2>2, <3>2 DEF RowsOK, RevsOK
        <4>2. c.proposals \subseteq Candidates(c.session)'
          BY <1>1, <1>2 DEF Candidates
        <4> QED
          BY <1>5, <4>1, <4>2
      <3> QED
        BY <1>1, <3>1, <3>2
    <2>3. \A q \in revs : Starts(q)' = Starts(q)
      BY DEF Starts, SeedProposal, PoolMembers
    <2> QED
      BY <1>1, <2>1, <2>2, <2>3 DEF CandsOK
  <1>10. Grown
    <2>1. \A d \in cands' \ cands, q \in revs : q.session = d.session /\ q.no = d.bound =>
              q.workflow = "ready" /\ \A e \in cands : ~(e.session = q.session /\ e.bound = q.no)
      BY <1>1, <1>2, <1>5, <1>6 DEF RowsOK, RevsOK
    <2> QED
      BY <1>1, <1>7, <2>1, NumbersAreNumbers DEF Grown
  <1>11. OwnersOK' /\ PoolsOK' /\ OutputsOK' /\ PlansOK'
    BY <1>1, <1>7, <1>10, SameOwners, SamePools, SameOutputs, SamePlans
  <1>12. Opens("build", p)'
    <2>1. \A d \in cands' : d.session = p.session /\ d.bound = p.no => d.at <= p.at
      BY <1>1, <1>2, <1>4, <1>6, <1>7
    <2>2. \E d \in cands' : d.session = p.session /\ d.bound = p.no
      BY <1>1, <1>2, <1>4, <1>5
    <2> QED
      BY <1>1, <1>4, <1>5, <1>7, <2>1, <2>2 DEF Opens, Visible
  <1> QED
    BY <1>7, <1>8, <1>9, <1>10, <1>11, <1>12 DEF RowsOK
LEMMA Reviews ==
    ASSUME RowsOK, NEW c, c.kind = "review", c.session \in Sessions, c.selected \subseteq Candidates(c.session),
           ReviewAnswer(c).ok, ReviewRows(c), NEW p, p = ReviewAnswer(c).body
    PROVE  RowsOK' /\ Grown /\ Opens("review", p)'
  <1> DEFINE New == {[session |-> c.session, key |-> k, no |-> LatestOf(c.session, k) + 1, bound |-> c.no + 1,
                      state |-> IF k \in c.selected THEN "selected" ELSE "rejected", at |-> now + 2] :
                        k \in c.decided}
             row == RevisionRow(c.session, c.no + 1, "reviewed", ScopeOf(c.session, c.no))
             plan == [session |-> c.session, no |-> c.no + 1, version |-> 2, selected |-> c.selected]
  <1>1. /\ revs' = revs \union {row} /\ cands' = cands \union New /\ plans' = plans \union {plan}
        /\ now' = now + 2 /\ UNCHANGED <<outputs, owners, pools>>
    BY DEF ReviewRows
  <1>2. /\ LatestNo(c.session) = c.no /\ c.decided = Candidates(c.session) /\ OneEach(c.selected)
        /\ p = Path("result", c.session, c.no + 1, Settled(c))
    BY DEF ReviewAnswer, Fail, Ok
  <1>3. p.session = c.session /\ p.no = c.no + 1 /\ p.at = now + 2
    BY <1>2 DEF Path, Settled
  <1>4. \A d \in New : d.session = c.session /\ d.bound = c.no + 1 /\ d.at = now + 2 /\ d.key \in c.decided
    OBVIOUS
  <1>5. /\ row.session = c.session /\ row.no = c.no + 1 /\ row.at = now + 1 /\ row.workflow = "reviewed"
        /\ plan.version = 2 /\ plan.selected = c.selected
    BY DEF RevisionRow
  <1>6. \A k \in Candidates(c.session) : k.company \in Company
    BY DEF Candidates, RowsOK, CandsOK
  <1>7. now \in Nat /\ now' \in Nat /\ now <= now' /\ now + 1 <= now'
    BY <1>1 DEF RowsOK
  <1>8. \E r \in revs : r.session = c.session /\ r.no = c.no
    BY <1>2, NumbersOfSession
  <1>9. RevsOK' /\ \A r \in revs : ~(r.session = c.session /\ r.no = c.no + 1)
    <2>1. Follows(c.session, c.no) /\ IsScope(ScopeOf(c.session, c.no))
      BY <1>2, <1>8, ScopesKnown DEF Follows
    <2> QED
      BY <2>1, <1>1, <1>7, RevisionAdded
  <1> HIDE DEF New, row, plan
  <1>10. \A d \in cands : ~(d.session = c.session /\ d.bound = c.no + 1)
    BY <1>9 DEF RowsOK, CandsOK
  <1>11. CandsOK'
    <2>1. ASSUME NEW d \in cands'
          PROVE  d.key.company \in Company /\ \E q \in revs' : q.session = d.session /\ q.no = d.bound
      <3>1. CASE d \in cands
        BY <1>1, <3>1 DEF RowsOK, CandsOK
      <3>2. CASE d \in New
        BY <1>1, <1>2, <1>4, <1>5, <1>6, <3>2
      <3> QED
        BY <1>1, <3>1, <3>2
    <2>2. ASSUME NEW d \in cands', NEW q \in revs', d.session = q.session, d.bound = q.no, q.workflow = "ready"
          PROVE  Starts(q) \subseteq Candidates(q.session)'
      <3>1. q \in revs /\ d \in cands
        BY <1>1, <1>4, <1>5, <1>9, <1>10, <2>2
      <3>2. Starts(q) \subseteq Candidates(q.session)
        BY <2>2, <3>1 DEF RowsOK, CandsOK
      <3> QED
        BY <1>1, <3>2 DEF Candidates
    <2>3. \A q : Starts(q)' = Starts(q)
      BY DEF Starts, SeedProposal, PoolMembers
    <2> QED
      BY <2>1, <2>2, <2>3 DEF CandsOK
  <1>12. PlansOK'
    BY <1>1, <1>2, <1>5, <1>6 DEF RowsOK, PlansOK, Legacy, OneEach
  <1>13. Grown
    <2>1. \A d \in cands' \ cands, q \in revs : ~(q.session = d.session /\ q.no = d.bound)
      BY <1>1, <1>4, <1>9
    <2> QED
      BY <1>1, <1>7, <2>1, NumbersAreNumbers DEF Grown
  <1>14. OwnersOK' /\ PoolsOK' /\ OutputsOK'
    BY <1>1, <1>7, <1>13, SameOwners, SamePools, SameOutputs
  <1>15. Opens("review", p)'
    <2>1. \A d \in cands' : d.session = p.session /\ d.bound = p.no => d.at <= p.at
      BY <1>1, <1>3, <1>4, <1>7, <1>10
    <2>2. row \in revs' /\ row.session = p.session /\ row.no = p.no /\ row.at <= p.at
      BY <1>1, <1>3, <1>5, <1>7
    <2> QED
      BY <2>1, <2>2, <1>5 DEF Opens, Visible
  <1> QED
    BY <1>7, <1>9, <1>11, <1>12, <1>13, <1>14, <1>15 DEF RowsOK
(* Companies get their next revisions.                                      *)
LEMMA OwnersAdded ==
    ASSUME RowsOK, NEW New, owners' = owners \union New, now' \in Nat, now <= now',
           \A x \in New : /\ x.no = Greatest(OwnerNos(x.company)) + 1
                          /\ x.at \in Nat /\ now <= x.at /\ x.at <= now',
           \A x, y \in New : x.company = y.company => x = y
    PROVE  /\ OwnersOK' /\ \A x \in owners' : x.no \in Nat
           /\ \A x \in owners' \ owners, o \in owners : o.company = x.company => o.no < x.no
  <1>1. now \in Nat /\ OwnersOK
    BY DEF RowsOK
  <1>2. ASSUME NEW x \in New
        PROVE  /\ x.no \in Nat /\ Chained(OwnerNos(x.company) \union {x.no})
               /\ \A o \in owners : o.company = x.company => o.no \in Nat /\ o.no < x.no
    <2> DEFINE S == OwnerNos(x.company)
    <2>1. /\ Greatest(S) \in Nat /\ S = 1..Greatest(S) /\ Chained(S \union {Greatest(S) + 1})
      BY <1>1, ChainTop DEF OwnersOK
    <2>2. x.no = Greatest(S) + 1
      OBVIOUS
    <2>3. \A o \in owners : o.company = x.company => o.no \in S
      BY DEF OwnerNos, OwnersOf
    <2> HIDE DEF S
    <2>4. \A o \in owners : o.company = x.company => o.no \in Nat /\ o.no < x.no
      BY <2>1, <2>2, <2>3
    <2> QED
      BY <2>1, <2>2, <2>4 DEF S
  <1>3. ASSUME NEW k PROVE Chained(OwnerNos(k))'
    <2>1. CASE \E x \in New : x.company = k
      <3>1. PICK x \in New : x.company = k
        BY <2>1
      <3>2. OwnerNos(k)' = OwnerNos(k) \union {x.no}
        BY <3>1 DEF OwnerNos, OwnersOf
      <3> QED
        BY <1>2, <3>1, <3>2 DEF Chained
    <2>2. CASE \A x \in New : x.company # k
      <3>1. OwnerNos(k)' = OwnerNos(k)
        BY <2>2 DEF OwnerNos, OwnersOf
      <3> QED
        BY <1>1, <3>1 DEF OwnersOK, Chained
    <2> QED
      BY <2>1, <2>2
  <1>old. \A o \in owners : o.at \in Nat /\ o.at <= now /\ o.at <= now' /\ o.no \in Nat
    BY <1>1, NumbersAreNumbers DEF OwnersOK
  <1>new. \A x \in New : x.at \in Nat /\ now <= x.at /\ x.at <= now' /\ x.no \in Nat
    BY <1>2
  <1>4. \A o \in owners' : o.at \in Nat /\ o.at <= now' /\ o.no \in Nat
    BY <1>old, <1>new
  <1>5. ASSUME NEW o \in owners, NEW x \in New, o.company = x.company
        PROVE  o.no < x.no /\ o.at <= x.at
    <2>1. o.no < x.no
      BY <1>2, <1>5
    <2>2. o.at <= x.at
      BY <1>1, <1>old, <1>new
    <2> QED
      BY <2>1, <2>2
  <1>6. ASSUME NEW o \in owners', NEW x \in owners', o.company = x.company
        PROVE  (o.no = x.no => o = x) /\ (o.no <= x.no => o.at <= x.at)
    <2>1. CASE o \in owners /\ x \in owners
      BY <1>1, <1>6, <2>1 DEF OwnersOK
    <2>2. CASE o \in owners /\ x \in New
      BY <1>4, <1>5, <1>6, <2>2
    <2>3. CASE o \in New /\ x \in owners
      BY <1>4, <1>5, <1>6, <2>3
    <2>4. CASE o \in New /\ x \in New
      BY <1>4, <1>6, <2>4
    <2> QED
      BY <2>1, <2>2, <2>3, <2>4
  <1> QED
    BY <1>3, <1>4, <1>5, <1>6 DEF OwnersOK

(* A pool gets its next revision.                                           *)
LEMMA PoolAdded ==
    ASSUME RowsOK, NEW x, pools' = pools \union {x}, now' \in Nat, now <= now',
           x.no = Greatest(PoolNos(x.id)) + 1, x.at \in Nat, now <= x.at, x.at <= now',
           outputs \subseteq outputs',
           x.id = <<0, 1>> \/ \E o \in outputs' : x.id = <<o.session, o.reviewed>>
    PROVE  /\ PoolsOK' /\ \A p \in pools' : p.no \in Nat
           /\ \A q \in pools' \ pools, p \in pools : p.id = q.id => p.no < q.no
  <1>1. now \in Nat /\ PoolsOK
    BY DEF RowsOK
  <1>2. /\ x.no \in Nat /\ Chained(PoolNos(x.id) \union {x.no})
        /\ \A p \in pools : p.id = x.id => p.no \in Nat /\ p.no < x.no
    <2> DEFINE S == PoolNos(x.id)
    <2>1. /\ Greatest(S) \in Nat /\ S = 1..Greatest(S) /\ Chained(S \union {Greatest(S) + 1})
      BY <1>1, ChainTop DEF PoolsOK
    <2>2. x.no = Greatest(S) + 1
      OBVIOUS
    <2>3. \A p \in pools : p.id = x.id => p.no \in S
      BY DEF PoolNos
    <2> HIDE DEF S
    <2>4. \A p \in pools : p.id = x.id => p.no \in Nat /\ p.no < x.no
      BY <2>1, <2>2, <2>3
    <2> QED
      BY <2>1, <2>2, <2>4 DEF S
  <1>3. ASSUME NEW i PROVE Chained(PoolNos(i))'
    <2>1. CASE x.id = i
      <3>1. PoolNos(i)' = PoolNos(i) \union {x.no}
        BY <2>1 DEF PoolNos
      <3> QED
        BY <1>2, <2>1, <3>1 DEF Chained
    <2>2. CASE x.id # i
      <3>1. PoolNos(i)' = PoolNos(i)
        BY <2>2 DEF PoolNos
      <3> QED
        BY <1>1, <3>1 DEF PoolsOK, Chained
    <2> QED
      BY <2>1, <2>2
  <1>4. \A p \in pools' : p.at \in Nat /\ p.at <= now' /\ p.no \in Nat
    BY <1>1, <1>2, NumbersAreNumbers DEF PoolsOK
  <1>5. \A p \in pools : p.id = x.id => p.no < x.no /\ p.at <= x.at
    BY <1>1, <1>2 DEF PoolsOK
  <1>6. ASSUME NEW p \in pools', NEW q \in pools', p.id = q.id
        PROVE  (p.no = q.no => p = q) /\ (p.no <= q.no => p.at <= q.at)
    <2>1. CASE p \in pools /\ q \in pools
      BY <1>1, <1>6, <2>1 DEF PoolsOK
    <2>2. CASE p \in pools /\ q = x
      BY <1>4, <1>5, <1>6, <2>2
    <2>3. CASE p = x /\ q \in pools
      BY <1>4, <1>5, <1>6, <2>3
    <2>4. CASE p = x /\ q = x
      BY <1>4, <2>4
    <2> QED
      BY <2>1, <2>2, <2>3, <2>4
  <1>7. \A p \in pools' : p.id = <<0, 1>> \/ \E o \in outputs' : p.id = <<o.session, o.reviewed>>
    BY <1>1 DEF PoolsOK
  <1> QED
    BY <1>3, <1>4, <1>5, <1>6, <1>7 DEF PoolsOK

(* Stage 1 commands of others.                                              *)
LEMMA Assesses ==
    ASSUME RowsOK, NEW at \in {now, now + 1}, NEW k, NEW v, AssessRows(k, v, at)
    PROVE  RowsOK' /\ Grown
  <1> DEFINE x == [company |-> k, no |-> Greatest({o.no : o \in OwnersOf(k)}) + 1, status |-> v, at |-> at]
  <1>1. /\ owners' = owners \union {x} /\ now' = at
        /\ UNCHANGED <<revs, cands, plans, outputs, pools>>
    BY DEF AssessRows
  <1>2. x.company = k /\ x.no = Greatest(OwnerNos(k)) + 1 /\ x.at = at
    BY DEF OwnerNos
  <1>3. now \in Nat /\ now' \in Nat /\ now <= now' /\ at \in Nat /\ now <= at /\ at <= now'
    BY <1>1 DEF RowsOK
  <1> HIDE DEF x
  <1>4. /\ OwnersOK' /\ \A y \in owners' : y.no \in Nat
        /\ \A y \in owners' \ owners, o \in owners : o.company = y.company => o.no < y.no
    <2>1. \A y \in {x} : /\ y.no = Greatest(OwnerNos(y.company)) + 1
                         /\ y.at \in Nat /\ now <= y.at /\ y.at <= now'
      BY <1>2, <1>3
    <2>2. \A y, z \in {x} : y.company = z.company => y = z
      OBVIOUS
    <2> QED
      BY <1>1, <1>3, <2>1, <2>2, OwnersAdded
  <1>5. Grown
    BY <1>1, <1>3, <1>4, NumbersAreNumbers DEF Grown
  <1>6. RevsOK' /\ PlansOK' /\ PoolsOK' /\ OutputsOK'
    BY <1>1, <1>3, <1>5, SameRevs, SamePlans, SamePools, SameOutputs
  <1>7. CandsOK'
    BY <1>1 DEF RowsOK, CandsOK, Candidates, Starts, SeedProposal, PoolMembers
  <1> QED
    BY <1>3, <1>4, <1>5, <1>6, <1>7 DEF RowsOK

LEMMA Pools ==
    ASSUME RowsOK, NEW at \in {now, now + 1}, NEW p \in pools, PoolRows(p.id, at)
    PROVE  RowsOK' /\ Grown
  <1> DEFINE x == PoolRow(p.id, LatestPoolNo(p.id) + 1,
                          {<<o.company, o.no>> : o \in {y \in owners : y.status = "supported"}}, at)
  <1>1. /\ pools' = pools \union {x} /\ now' = at
        /\ UNCHANGED <<revs, cands, plans, outputs, owners>>
    BY DEF PoolRows
  <1>2. x.id = p.id /\ x.no = Greatest(PoolNos(x.id)) + 1 /\ x.at = at
    BY DEF PoolNos, PoolRow, LatestPoolNo
  <1>3. now \in Nat /\ now' \in Nat /\ now <= now' /\ at \in Nat /\ now <= at /\ at <= now'
    BY <1>1 DEF RowsOK
  <1>4. x.id = <<0, 1>> \/ \E o \in outputs' : x.id = <<o.session, o.reviewed>>
    BY <1>1, <1>2 DEF RowsOK, PoolsOK
  <1> HIDE DEF x
  <1>5. /\ PoolsOK' /\ \A q \in pools' : q.no \in Nat
        /\ \A q \in pools' \ pools, r \in pools : r.id = q.id => r.no < q.no
    BY <1>1, <1>2, <1>3, <1>4, PoolAdded
  <1>6. Grown
    BY <1>1, <1>3, <1>5, NumbersAreNumbers DEF Grown
  <1>7. RevsOK' /\ PlansOK' /\ OwnersOK' /\ OutputsOK'
    BY <1>1, <1>3, <1>6, SameRevs, SamePlans, SameOwners, SameOutputs
  <1>8. CandsOK'
    BY <1>1 DEF RowsOK, CandsOK, Candidates, Starts, SeedProposal, PoolMembers
  <1> QED
    BY <1>3, <1>5, <1>6, <1>7, <1>8 DEF RowsOK
LEMMA NothingAdded ==
    ASSUME RowsOK, UNCHANGED rows
    PROVE  RowsOK' /\ Grown
  <1>1. now \in Nat /\ now' \in Nat /\ now <= now'
    BY DEF RowsOK, rows
  <1>2. Grown
    BY <1>1, NumbersAreNumbers DEF Grown, rows
  <1>3. RevsOK' /\ PlansOK' /\ OwnersOK' /\ PoolsOK' /\ OutputsOK'
    BY <1>1, <1>2, SameRevs, SamePlans, SameOwners, SamePools, SameOutputs DEF rows
  <1>4. CandsOK'
    BY DEF rows, RowsOK, CandsOK, Candidates, Starts, SeedProposal, PoolMembers
  <1> QED
    BY <1>1, <1>2, <1>3, <1>4 DEF RowsOK

(* What an acceptance writes.                                               *)
OwnersWritten(c) ==
    {[company |-> k.company, no |-> c.plan.bindings[k].no + 1,
      status |-> c.plan.bindings[k].status, at |-> now + 1] :
        k \in {x \in DOMAIN c.plan.bindings : c.plan.bindings[x].op # "reuse"}}

OutputWritten(c) ==
    [session |-> c.session, reviewed |-> c.no, accepted |-> c.no + 1,
     plan |-> c.plan, shown |-> c.shown, seen |-> c.at, at |-> now + 1]

(* Its plan names one candidate per company, and the owners allow it.       *)
Allowed(c) ==
    /\ LatestNo(c.session) = c.no /\ Outputs(c.session, c.no) = {}
    /\ c.shown.plan = c.plan /\ InContext(c) /\ OwnersAllow(c.plan)

LEMMA Selected ==
    ASSUME RowsOK, NEW c, InContext(c)
    PROVE  OneEach(DOMAIN c.plan.bindings) /\ \A k \in DOMAIN c.plan.bindings : k.company \in Company
  BY DEF RowsOK, PlansOK, InContext, PlanOf

LEMMA OwnersNext ==
    ASSUME RowsOK, NEW c, AcceptComposed(c), Allowed(c),
           owners' = owners \union OwnersWritten(c), now' = now + 1
    PROVE  /\ OwnersOK' /\ \A x \in owners' : x.no \in Nat
           /\ \A x \in owners' \ owners, o \in owners : o.company = x.company => o.no < x.no
  <1>1. now \in Nat /\ now' \in Nat /\ now <= now'
    BY DEF RowsOK
  <1>2. ASSUME NEW x \in OwnersWritten(c)
        PROVE  /\ x.no = Greatest(OwnerNos(x.company)) + 1
               /\ x.at \in Nat /\ now <= x.at /\ x.at <= now'
    <2>1. PICK k \in DOMAIN c.plan.bindings :
              /\ c.plan.bindings[k].op # "reuse" /\ x.company = k.company
              /\ x.no = c.plan.bindings[k].no + 1 /\ x.at = now + 1
      BY DEF OwnersWritten
    <2> DEFINE i == c.plan.bindings[k]
    <2>2. Unmoved(k.company, i)
      BY <2>1 DEF Allowed, OwnersAllow
    <2>3. i.op \in {"append", "create"} /\ (i.op = "create" => i.no = 0)
      BY <2>1 DEF AcceptComposed
    <2>4. CASE i.op = "append"
      BY <2>1, <2>2, <2>4, <1>1 DEF Unmoved, OwnerNos
    <2>5. CASE i.op = "create"
      <3>1. OwnersOf(k.company) = {}
        BY <2>2, <2>5 DEF Unmoved
      <3>2. Greatest(OwnerNos(k.company)) = 0
        BY <3>1 DEF OwnerNos, Greatest
      <3> QED
        BY <2>1, <2>3, <2>5, <3>2, <1>1
    <2> QED
      BY <2>3, <2>4, <2>5
  <1>3. \A x, y \in OwnersWritten(c) : x.company = y.company => x = y
    BY Selected DEF OwnersWritten, Allowed, OneEach
  <1> QED
    BY <1>1, <1>2, <1>3, OwnersAdded

LEMMA PoolsNext ==
    ASSUME RowsOK, NEW c, AcceptComposed(c), Allowed(c),
           pools' = pools \union PoolWritten(c), outputs' = outputs \union {OutputWritten(c)}, now' = now + 1
    PROVE  /\ PoolsOK' /\ \A p \in pools' : p.no \in Nat
           /\ \A q \in pools' \ pools, p \in pools : p.id = q.id => p.no < q.no
  <1> DEFINE i == c.plan.pool
  <1>1. now \in Nat /\ now' \in Nat /\ now <= now' /\ now + 1 \in Nat /\ now <= now + 1 /\ now + 1 <= now'
    BY DEF RowsOK
  <1>2. CASE i.op = "create"
    <2> DEFINE x == PoolRow(<<c.session, c.no>>, 1, Supported(c.plan.bindings), now + 1)
    <2>1. pools' = pools \union {x}
      BY <1>2 DEF PoolWritten
    <2>2. x.id = <<c.session, c.no>> /\ x.no = 1 /\ x.at = now + 1
      BY DEF PoolRow
    <2>3. c.session # 0
      <3>1. c.session \in Sessions
        BY DEF AcceptComposed, Sessions
      <3>2. Chained(Sessions)
        BY DEF RowsOK, RevsOK
      <3> QED
        BY <3>1, <3>2 DEF Chained
    <2>4. \A p \in pools : p.id # <<c.session, c.no>>
      BY <2>3 DEF RowsOK, PoolsOK, Allowed, Outputs
    <2>5. Greatest(PoolNos(x.id)) = 0
      <3>1. PoolNos(x.id) = {}
        BY <2>2, <2>4 DEF PoolNos
      <3> QED
        BY <3>1 DEF Greatest
    <2>6. OutputWritten(c) \in outputs' /\ x.id = <<OutputWritten(c).session, OutputWritten(c).reviewed>>
      BY <2>2 DEF OutputWritten
    <2>7. x.no = Greatest(PoolNos(x.id)) + 1
      BY <2>2, <2>5
    <2> HIDE DEF x
    <2> QED
      BY <2>1, <2>2, <2>6, <2>7, <1>1, PoolAdded
  <1>3. CASE i.op = "append"
    <2> DEFINE x == PoolRow(i.id, i.no + 1, Supported(c.plan.bindings), now + 1)
    <2>1. pools' = pools \union {x}
      BY <1>3 DEF PoolWritten
    <2>2. x.id = i.id /\ x.no = i.no + 1 /\ x.at = now + 1
      BY DEF PoolRow
    <2>3. LatestPoolNo(i.id) = i.no
      BY <1>3 DEF Allowed, OwnersAllow
    <2>4. PICK p \in pools : p.id = i.id
      BY <1>3 DEF AcceptComposed
    <2>5. x.id = <<0, 1>> \/ \E o \in outputs' : x.id = <<o.session, o.reviewed>>
      BY <2>2, <2>4 DEF RowsOK, PoolsOK
    <2>6. x.no = Greatest(PoolNos(x.id)) + 1
      BY <2>2, <2>3 DEF LatestPoolNo, PoolNos
    <2> HIDE DEF x
    <2> QED
      BY <2>1, <2>2, <2>5, <2>6, <1>1, PoolAdded
  <1>4. CASE i.op \notin {"create", "append"}
    <2>1. PoolWritten(c) = {}
      BY <1>4 DEF PoolWritten
    <2>2. pools' = pools
      BY <2>1
    <2> QED
      BY <1>1, <2>2, SamePools, NumbersAreNumbers
  <1> QED
    BY <1>2, <1>3, <1>4

LEMMA OutputFitsNext ==
    ASSUME RowsOK, NEW c, AcceptComposed(c), Allowed(c), now' = now + 1,
           owners' = owners \union OwnersWritten(c), pools' = pools \union PoolWritten(c),
           \E r \in revs' : r.session = c.session /\ r.no = c.no + 1 /\ r.at <= now + 1,
           NEW o, o = OutputWritten(c)
    PROVE  OutputFits(o)'
  <1>1. /\ o.session = c.session /\ o.accepted = c.no + 1 /\ o.plan = c.plan /\ o.shown = c.shown
        /\ o.seen = c.at /\ o.at = now + 1
    BY DEF OutputWritten
  <1>2. now \in Nat /\ now + 1 \in Nat /\ c.at \in Int
    BY DEF RowsOK, AcceptComposed
  <1>3. OneEach(DOMAIN c.plan.bindings) /\ \A k \in DOMAIN c.plan.bindings : k.company \in Company
    BY Selected DEF Allowed
  <1>4. ASSUME NEW k \in DOMAIN c.plan.bindings
        PROVE  LET i == c.plan.bindings[k]
               IN /\ \E x \in OwnersOf(k.company)' : Binds(k, i) = <<x.company, x.no>> /\ x.at <= now + 1
                  /\ i.op # "reuse" =>
                         i.no \in Nat /\ \A x \in OwnersOf(k.company)' : x.no <= i.no => x.at <= c.at
    <2> DEFINE i == c.plan.bindings[k]
    <2>1. /\ i.op \in {"reuse", "append", "create"} /\ i.no \in Nat
          /\ i.op = "append" => \E x \in OwnersOf(k.company) : x.no = i.no /\ Visible(x, c.at)
      BY DEF AcceptComposed
    <2>2. Unmoved(k.company, i)
      BY DEF Allowed, OwnersAllow
    <2>3. ASSUME i.op = "reuse"
          PROVE  \E x \in OwnersOf(k.company)' : Binds(k, i) = <<x.company, x.no>> /\ x.at <= now + 1
      <3>1. PICK x \in OwnersOf(k.company) : x.no = i.no
        BY <2>2, <2>3 DEF Unmoved
      <3>2. x \in OwnersOf(k.company)' /\ x.company = k.company
        BY DEF OwnersOf
      <3>3. x.at <= now + 1
        <4>1. x.at \in Nat /\ x.at <= now
          BY DEF OwnersOf, RowsOK, OwnersOK
        <4> QED
          BY <4>1, <1>2
      <3> QED
        BY <2>3, <3>1, <3>2, <3>3 DEF Binds
    <2>4. ASSUME i.op # "reuse"
          PROVE  \E x \in OwnersOf(k.company)' : Binds(k, i) = <<x.company, x.no>> /\ x.at <= now + 1
      <3> DEFINE x == [company |-> k.company, no |-> i.no + 1, status |-> i.status, at |-> now + 1]
      <3>1. x \in OwnersWritten(c)
        BY <2>4 DEF OwnersWritten
      <3>2. x.company = k.company /\ x.no = i.no + 1 /\ x.at = now + 1
        OBVIOUS
      <3> HIDE DEF x
      <3>3. x \in OwnersOf(k.company)'
        BY <3>1, <3>2 DEF OwnersOf
      <3> QED
        BY <2>4, <3>2, <3>3, <1>2 DEF Binds
    <2>5. ASSUME i.op # "reuse", NEW x \in OwnersOf(k.company)', x.no <= i.no
          PROVE  x.at <= c.at
      <3>1. x \in owners' /\ x.company = k.company
        BY <2>5 DEF OwnersOf
      <3>2. x \notin OwnersWritten(c)
        <4>1. ASSUME NEW j \in DOMAIN c.plan.bindings, j.company = x.company,
                     x.no = c.plan.bindings[j].no + 1
              PROVE  FALSE
          <5>1. j = k
            BY <1>3, <3>1, <4>1 DEF OneEach
          <5> QED
            BY <2>1, <2>5, <4>1, <5>1
        <4> QED
          BY <4>1 DEF OwnersWritten
      <3>3. x \in OwnersOf(k.company)
        BY <3>1, <3>2 DEF OwnersOf
      <3>4. i.op = "append"
        BY <2>1, <2>2, <2>5, <3>3 DEF Unmoved
      <3>5. PICK y \in OwnersOf(k.company) : y.no = i.no /\ y.at <= c.at
        BY <2>1, <3>4 DEF Visible
      <3>6. x \in owners /\ y \in owners /\ x.company = y.company
        BY <3>3 DEF OwnersOf
      <3>7. x.at \in Nat /\ y.at \in Nat /\ x.at <= y.at
        BY <2>5, <3>5, <3>6 DEF RowsOK, OwnersOK
      <3> QED
        BY <1>2, <3>5, <3>7
    <2> QED
      BY <2>1, <2>3, <2>4, <2>5
  <1>5. ASSUME c.plan.pool.op = "append"
        PROVE  LET i == c.plan.pool
               IN /\ i.no \in Nat /\ \E p \in pools' : p.id = i.id /\ p.no = i.no + 1
                  /\ \A p \in pools' : p.id = i.id /\ p.no <= i.no => p.at <= c.at
    <2> DEFINE i == c.plan.pool
               x == PoolRow(i.id, i.no + 1, Supported(c.plan.bindings), now + 1)
    <2>1. PICK q \in pools : q.id = i.id /\ q.no = i.no /\ q.at <= c.at
      BY <1>5 DEF AcceptComposed, Visible
    <2>2. i.no \in Nat
      BY <1>5 DEF AcceptComposed
    <2>3. pools' = pools \union {x}
      BY <1>5 DEF PoolWritten
    <2>4. x.id = i.id /\ x.no = i.no + 1
      BY DEF PoolRow
    <2> HIDE DEF x
    <2>5. ASSUME NEW p \in pools', p.id = i.id, p.no <= i.no
          PROVE  p.at <= c.at
      <3>1. p \in pools
        BY <2>2, <2>3, <2>4, <2>5
      <3>2. p.at \in Nat /\ q.at \in Nat /\ p.at <= q.at
        BY <2>1, <2>5, <3>1 DEF RowsOK, PoolsOK
      <3> QED
        BY <1>2, <2>1, <3>2
    <2> QED
      BY <2>2, <2>3, <2>4, <2>5
  <1> QED
    BY <1>1, <1>2, <1>3, <1>4, <1>5 DEF OutputFits, Visible, OneEach, Binds
LEMMA Accepts ==
    ASSUME RowsOK, NEW c, c.kind = "accept", AcceptComposed(c), AcceptAnswer(c).ok, AcceptRows(c),
           NEW p, p = AcceptAnswer(c).body
    PROVE  RowsOK' /\ Grown /\ Opens("accept", p)'
  <1>1. CASE Outputs(c.session, c.no) # {}
    <2>1. \E o \in Outputs(c.session, c.no) : o.plan = c.plan
      BY <1>1 DEF AcceptAnswer, Fail
    <2>2. c.shown.plan = c.plan
      BY DEF AcceptAnswer, Fail
    <2>3. PICK o : o = (CHOOSE x \in Outputs(c.session, c.no) : TRUE)
      OBVIOUS
    <2>4. o \in Outputs(c.session, c.no)
      BY <1>1, <2>3
    <2>5. p = Path("accepted", c.session, o.accepted, o.at)
      BY <2>1, <2>2, <2>3 DEF AcceptAnswer, Ok
    <2>6. o \in outputs /\ o.session = c.session
      BY <2>4 DEF Outputs
    <2>7. p.session = o.session /\ p.no = o.accepted /\ p.at = o.at /\ o.at \in Nat
      BY <2>5, <2>6 DEF Path, RowsOK, OutputsOK, OutputFits
    <2>8. \E r \in revs : r.session = o.session /\ r.no = o.accepted /\ r.at <= o.at
      BY <2>6 DEF RowsOK, OutputsOK, OutputFits
    <2>9. Opens("accept", p)
      BY <2>6, <2>7, <2>8 DEF Opens, Visible
    <2>10. UNCHANGED rows
      BY <1>1 DEF AcceptRows
    <2> QED
      BY <2>9, <2>10, NothingAdded, OpensKept
  <1>2. CASE Outputs(c.session, c.no) = {}
    <2> DEFINE row == RevisionRow(c.session, c.no + 1, "accepted", ScopeOf(c.session, c.no))
    <2>1. /\ revs' = revs \union {row} /\ owners' = owners \union OwnersWritten(c)
          /\ pools' = pools \union PoolWritten(c) /\ outputs' = outputs \union {OutputWritten(c)}
          /\ now' = now + 1 /\ UNCHANGED <<cands, plans>>
      BY <1>2 DEF AcceptRows, OwnersWritten, OutputWritten
    <2>2. Allowed(c) /\ p = Path("accepted", c.session, c.no + 1, Settled(c))
      BY <1>2 DEF Allowed, AcceptAnswer, Fail, Ok
    <2>3. p.session = c.session /\ p.no = c.no + 1 /\ p.at = now + 1
      BY <2>2 DEF Path, Settled
    <2>4. now \in Nat /\ now' \in Nat /\ now <= now' /\ now + 1 <= now' /\ now + 1 <= now + 1
      BY <2>1 DEF RowsOK
    <2>5. \E r \in revs : r.session = c.session /\ r.no = c.no
      BY DEF AcceptComposed
    <2>6. Follows(c.session, c.no) /\ IsScope(ScopeOf(c.session, c.no))
      BY <2>2, <2>5, ScopesKnown DEF Follows, Sessions, Allowed
    <2>7. RevsOK' /\ \A r \in revs : ~(r.session = c.session /\ r.no = c.no + 1)
      BY <2>1, <2>4, <2>6, RevisionAdded
    <2>8. row.session = c.session /\ row.no = c.no + 1 /\ row.at = now + 1
      BY DEF RevisionRow
    <2> HIDE DEF row
    <2>9. CandsOK'
      BY <2>1, <2>7, <2>8, SameCands
    <2>10. PlansOK'
      BY <2>1, SamePlans
    <2>11. /\ OwnersOK' /\ \A x \in owners' : x.no \in Nat
           /\ \A x \in owners' \ owners, o \in owners : o.company = x.company => o.no < x.no
      BY <2>1, <2>2, OwnersNext
    <2>12. /\ PoolsOK' /\ \A q \in pools' : q.no \in Nat
           /\ \A q \in pools' \ pools, r \in pools : r.id = q.id => r.no < q.no
      BY <2>1, <2>2, PoolsNext
    <2>13. Grown
      BY <2>1, <2>4, <2>11, <2>12 DEF Grown
    <2>14. PICK o : o = OutputWritten(c)
      OBVIOUS
    <2>15. OutputFits(o)'
      <3>1. \E r \in revs' : r.session = c.session /\ r.no = c.no + 1 /\ r.at <= now + 1
        BY <2>1, <2>4, <2>8
      <3> QED
        BY <2>1, <2>2, <2>14, <3>1, OutputFitsNext
    <2>16. OutputsOK'
      BY <2>1, <2>13, <2>14, <2>15, OutputKept DEF OutputsOK
    <2>17. Opens("accept", p)'
      <3>1. o \in outputs' /\ o.session = p.session /\ o.accepted = p.no /\ o.at <= p.at
        BY <2>1, <2>3, <2>4, <2>14 DEF OutputWritten
      <3>2. row \in revs' /\ row.session = p.session /\ row.no = p.no /\ row.at <= p.at
        BY <2>1, <2>3, <2>4, <2>8
      <3> QED
        BY <3>1, <3>2 DEF Opens, Visible
    <2> QED
      BY <2>4, <2>7, <2>9, <2>10, <2>11, <2>12, <2>13, <2>16, <2>17 DEF RowsOK
  <1> QED
    BY <1>1, <1>2

---------------------------------------------------------------------------
(* The histories.                                                          *)

LEMMA HistoriesFit ==
    ASSUME NEW h \in Beginning, RowsInit(h)
    PROVE  RowsOK
  <1> USE DeskAssumption
  <1>1. now = 4 /\ outputs = {} /\ now \in Nat
    BY DEF RowsInit
  <1>2. IsScope(FirstScope) /\ FirstScope.seeds = {}
    BY DEF IsScope, FirstScope
  <1>3. /\ h = "empty" => revs = {}
        /\ h # "empty" /\ ~Reviewed(h) => revs = {FirstRevision(1, "ready", 1)}
        /\ Reviewed(h) => revs = {FirstRevision(1, "ready", 1), FirstRevision(2, "reviewed", 3)}
    BY DEF RowsInit, Reviewed
  <1>4. /\ FirstRevision(1, "ready", 1).session = 1 /\ FirstRevision(1, "ready", 1).no = 1
        /\ FirstRevision(1, "ready", 1).at = 1 /\ FirstRevision(1, "ready", 1).scope = FirstScope
        /\ FirstRevision(1, "ready", 1).workflow = "ready"
        /\ FirstRevision(2, "reviewed", 3).session = 1 /\ FirstRevision(2, "reviewed", 3).no = 2
        /\ FirstRevision(2, "reviewed", 3).at = 3 /\ FirstRevision(2, "reviewed", 3).scope = FirstScope
        /\ FirstRevision(2, "reviewed", 3).workflow = "reviewed"
    BY DEF FirstRevision
  <1>5. RevsOK
    <2>1. Chained({}) /\ Chained({1}) /\ Chained({1, 2})
      <3>1. {1, 2} = 1..2 /\ 2 \in Nat
        OBVIOUS
      <3> QED
        BY <3>1, ChainOfOne DEF Chained
    <2>2. Sessions = {} \/ Sessions = {1}
      BY <1>3, <1>4 DEF Sessions
    <2>3. ASSUME NEW s PROVE Chained(RevisionNos(s))
      <3>1. RevisionNos(s) = {} \/ RevisionNos(s) = {1} \/ RevisionNos(s) = {1, 2}
        <4>1. CASE s # 1
          BY <1>3, <1>4, <4>1 DEF RevisionNos, Revisions
        <4>2. CASE s = 1 /\ h = "empty"
          BY <1>3, <4>2 DEF RevisionNos, Revisions
        <4>3. CASE s = 1 /\ h # "empty" /\ ~Reviewed(h)
          BY <1>3, <1>4, <4>3 DEF RevisionNos, Revisions
        <4>4. CASE s = 1 /\ Reviewed(h)
          BY <1>3, <1>4, <4>4 DEF RevisionNos, Revisions
        <4> QED
          BY <4>1, <4>2, <4>3, <4>4
      <3> QED
        BY <2>1, <3>1
    <2>4. \A r \in revs : r.at \in Nat /\ r.at <= now /\ IsScope(r.scope)
      BY <1>1, <1>2, <1>3, <1>4
    <2>5. \A r, q \in revs : r.session = q.session /\ r.no = q.no => r = q
      BY <1>3, <1>4
    <2> QED
      BY <2>1, <2>2, <2>3, <2>4, <2>5 DEF RevsOK
  <1>6. \A k \in FirstKeys : k.company \in Pooled
    BY DEF FirstKeys, PoolMembers
  <1>7. CandsOK
    <2> DEFINE A == FirstCandidates(1, 1, "proposed", 2)
               B == FirstCandidates(2, 2, "selected", 4)
    <2>1. /\ \A c \in A : c.session = 1 /\ c.bound = 1 /\ c.key \in FirstKeys
          /\ \A c \in B : c.session = 1 /\ c.bound = 2 /\ c.key \in FirstKeys
      BY DEF FirstCandidates
    <2>2. /\ cands \subseteq A \union B
          /\ cands # {} => revs # {} /\ A \subseteq cands /\ h # "empty"
          /\ ~Reviewed(h) => cands \subseteq A
      BY <1>3, <1>4 DEF RowsInit, Reviewed
    <2>3. \A k \in FirstKeys : \E c \in A : c.key = k
      <3>1. ASSUME NEW k \in FirstKeys PROVE \E c \in A : c.key = k
        <4> DEFINE c == [session |-> 1, key |-> k, no |-> 1, bound |-> 1, state |-> "proposed", at |-> 2]
        <4>1. c \in A /\ c.key = k
          BY DEF FirstCandidates
        <4> QED
          BY <4>1
      <3> QED
        BY <3>1
    <2> HIDE DEF A, B
    <2>4. \A c \in cands : c.key.company \in Company
      BY <1>6, <2>1, <2>2
    <2>5. ASSUME NEW c \in cands PROVE \E r \in revs : r.session = c.session /\ r.no = c.bound
      <3>1. CASE Reviewed(h)
        BY <1>3, <1>4, <2>1, <2>2, <3>1
      <3>2. CASE ~Reviewed(h)
        BY <1>3, <1>4, <2>1, <2>2, <3>2
      <3> QED
        BY <3>1, <3>2
    <2>6. ASSUME NEW c \in cands, NEW r \in revs, r.workflow = "ready"
          PROVE  Starts(r) \subseteq Candidates(r.session)
      <3>1. r.scope.seeds = {} /\ r.session = 1
        BY <1>2, <1>3, <1>4
      <3>2. Starts(r) = FirstKeys
        BY <3>1 DEF Starts, FirstKeys
      <3>3. A \subseteq cands
        BY <2>2
      <3>4. FirstKeys \subseteq Candidates(1)
        BY <2>1, <2>3, <3>3 DEF Candidates
      <3> QED
        BY <3>1, <3>2, <3>4
    <2> QED
      BY <2>4, <2>5, <2>6 DEF CandsOK
  <1>8. PlansOK
    <2>1. \A p \in plans : p.selected = FirstKeys
      BY DEF RowsInit
    <2>2. OneEach(FirstKeys)
      BY DEF OneEach, FirstKeys, PoolMembers
    <2> QED
      BY <1>6, <2>1, <2>2 DEF PlansOK
  <1>9. OwnersOK
    <2>1. \A o \in owners : o.no = 1 /\ o.at = 1
      BY DEF RowsInit
    <2>2. \A o, x \in owners : o.company = x.company => o = x
      BY DEF RowsInit
    <2>3. ASSUME NEW k PROVE Chained(OwnerNos(k))
      <3>1. OwnerNos(k) = {} \/ OwnerNos(k) = {1}
        BY <2>1 DEF OwnerNos, OwnersOf
      <3> QED
        BY <3>1, ChainOfOne
    <2> QED
      BY <1>1, <2>1, <2>2, <2>3 DEF OwnersOK
  <1>10. PoolsOK
    <2>1. \A p \in pools : p.no = 1 /\ p.at = 1 /\ p.id = <<0, 1>>
      BY DEF RowsInit, PoolRow
    <2>2. \A p, q \in pools : p = q
      BY DEF RowsInit
    <2>3. ASSUME NEW i PROVE Chained(PoolNos(i))
      <3>1. PoolNos(i) = {} \/ PoolNos(i) = {1}
        BY <2>1 DEF PoolNos
      <3> QED
        BY <3>1, ChainOfOne
    <2> QED
      BY <1>1, <2>1, <2>2, <2>3 DEF PoolsOK
  <1> QED
    BY <1>1, <1>5, <1>7, <1>8, <1>9, <1>10 DEF RowsOK, OutputsOK
---------------------------------------------------------------------------
(* What composing a command has found, and that it stays so.                *)

LEMMA BuildIsComposed ==
    ASSUME RowsOK, NEW s, NEW n, NEW b, NEW chosen, ComposeBuild(s, n, b, n, chosen).ok,
           NEW c, c.session = s, c.no = n, c.proposals = ComposeBuild(s, n, b, n, chosen).body
    PROVE  BuildComposed(c)
  <1> USE DeskAssumption
  <1> DEFINE options == SourceOptions(s, n, b)
             r == CHOOSE x \in ExactRevision(s, n, b) : TRUE
  <1>1. /\ options.ok /\ options.body.allowed /\ chosen \subseteq options.body.pools
        /\ Proposals(options.body, chosen) # {} /\ c.proposals = Proposals(options.body, chosen)
    BY DEF ComposeBuild, Fail, Ok
  <1>2. ExactRevision(s, n, b) # {}
    BY <1>1 DEF SourceOptions, Fail
  <1>3. r \in revs /\ r.session = s /\ r.no = n
    BY <1>2 DEF ExactRevision, Exact, Revisions
  <1>4. /\ options.body.no = n /\ options.body.allowed = (LatestNo(s) = n /\ r.workflow = "ready")
        /\ options.body.seeds = r.scope.seeds /\ options.body.pools = EligiblePools(r)
    BY <1>2 DEF SourceOptions, Ok, CompanySeeds, MapOptions
  <1>5. IsScope(r.scope)
    BY <1>3 DEF RowsOK, RevsOK
  <1>6. chosen \subseteq {Pooled}
    BY <1>1, <1>4 DEF EligiblePools
  <1> HIDE DEF r, options
  <1>7. c.proposals = {SeedProposal(n, k) : k \in r.scope.seeds} \union UNION {PoolMembers(p) : p \in chosen}
    BY <1>1, <1>4 DEF Proposals
  <1>8. \A k \in c.proposals : k.company \in Company
    <2>1. \A k \in r.scope.seeds : SeedProposal(n, k).company \in Company
      BY <1>5 DEF IsScope, SeedProposal
    <2>2. \A k \in PoolMembers(Pooled) : k.company \in Company
      BY DEF PoolMembers
    <2> QED
      BY <1>6, <1>7, <2>1, <2>2
  <1>9. Starts(r) # {} /\ Starts(r) \subseteq c.proposals
    <2>1. CASE r.scope.seeds # {}
      BY <1>3, <1>7, <2>1 DEF Starts
    <2>2. CASE r.scope.seeds = {}
      <3>1. c.proposals = UNION {PoolMembers(p) : p \in chosen} /\ c.proposals # {}
        BY <1>1, <1>7, <2>2
      <3>2. chosen = {Pooled}
        BY <1>6, <3>1
      <3>3. c.proposals = PoolMembers(Pooled)
        BY <3>1, <3>2
      <3> QED
        BY <2>2, <3>1, <3>3 DEF Starts
    <2> QED
      BY <2>1, <2>2
  <1> QED
    BY <1>1, <1>3, <1>4, <1>8, <1>9 DEF BuildComposed

LEMMA AcceptIsComposed ==
    ASSUME RowsOK, NEW c, c.at \in Int, ComposeAccept(c).ok
    PROVE  AcceptComposed(c)
  <1> DEFINE view == AcceptanceView(c.session, c.no, c.at)
             read == ReviewedPlan(c.session, c.no, c.at)
  <1>1. /\ view.ok /\ DOMAIN c.plan.bindings = DOMAIN view.body.members
        /\ \A k \in DOMAIN c.plan.bindings : c.plan.bindings[k] \in view.body.members[k]
        /\ c.plan.pool \in view.body.pools \union {NoPool, NewPool}
    BY DEF ComposeAccept, Fail
  <1>2. /\ read.ok
        /\ view.body.members = [k \in read.body.selected |-> MemberOptions(k.company, c.at)]
        /\ view.body.pools = PoolOptions(c.at)
    BY <1>1 DEF AcceptanceView, Fail, Ok
  <1>3. \E r \in revs : r.session = c.session /\ r.no = c.no
    BY <1>2 DEF ReviewedPlan, Fail, ExactRevision, Exact, Revisions
  <1> HIDE DEF view, read
  <1>4. ASSUME NEW k \in DOMAIN c.plan.bindings
        PROVE  LET i == c.plan.bindings[k]
               IN /\ i.op \in {"reuse", "append", "create"} /\ i.no \in Nat
                  /\ i.op = "create" => i.no = 0
                  /\ i.op = "append" => \E o \in OwnersOf(k.company) : o.no = i.no /\ Visible(o, c.at)
    <2> DEFINE i == c.plan.bindings[k]
               S == {o.no : o \in OnOffer(k.company, c.at)}
    <2>1. i \in MemberOptions(k.company, c.at)
      BY <1>1, <1>2
    <2>2. OnOffer(k.company, c.at) # {} => LatestOffer(k.company, c.at) \in S
      <3>1. PICK n \in Nat : OwnerNos(k.company) = 1..n
        BY DEF RowsOK, OwnersOK, Chained
      <3>2. S \subseteq 1..n
        BY <3>1 DEF OwnerNos, OnOffer
      <3>3. OnOffer(k.company, c.at) # {} => S # {}
        OBVIOUS
      <3>4. LatestOffer(k.company, c.at) = Greatest(S)
        BY DEF LatestOffer
      <3> HIDE DEF S
      <3> QED
        BY <3>2, <3>3, <3>4, GreatestIsOne
    <2>3. \A o \in OnOffer(k.company, c.at) : o \in OwnersOf(k.company) /\ o \in owners /\ Visible(o, c.at)
      BY DEF OnOffer, OwnersOf
    <2>4. CASE i \in ReuseOptions(k.company, c.at)
      BY <2>3, <2>4, NumbersAreNumbers DEF ReuseOptions
    <2>5. CASE OnOffer(k.company, c.at) # {} /\ i \in Authored("append", LatestOffer(k.company, c.at))
      <3>1. i.op = "append" /\ i.no = LatestOffer(k.company, c.at)
        BY <2>5 DEF Authored
      <3>2. PICK o \in OnOffer(k.company, c.at) : o.no = i.no
        BY <2>2, <2>5, <3>1
      <3> QED
        BY <2>3, <3>1, <3>2, NumbersAreNumbers
    <2>6. CASE i \in Authored("create", 0)
      BY <2>6 DEF Authored
    <2> QED
      BY <2>1, <2>4, <2>5, <2>6 DEF MemberOptions
  <1>5. ASSUME c.plan.pool.op = "append"
        PROVE  LET i == c.plan.pool
               IN i.no \in Nat /\ \E p \in pools : p.id = i.id /\ p.no = i.no /\ Visible(p, c.at)
    <2>1. c.plan.pool \in PoolOptions(c.at)
      BY <1>1, <1>2, <1>5 DEF NoPool, NewPool, PoolOption
    <2>2. PICK p \in VisiblePools(c.at) : c.plan.pool = PoolOption("append", p)
      BY <1>5, <2>1 DEF PoolOptions, PoolOption, LatestPools
    <2> QED
      BY <2>2, NumbersAreNumbers DEF PoolOption, VisiblePools
  <1> QED
    BY <1>3, <1>4, <1>5 DEF AcceptComposed

LEMMA ComposedKept ==
    ASSUME RowsOK, Grown, NEW c
    PROVE  /\ BuildComposed(c) => BuildComposed(c)'
           /\ AcceptComposed(c) => AcceptComposed(c)'
  <1>1. ASSUME BuildComposed(c) PROVE BuildComposed(c)'
    <2>1. \A r : Starts(r)' = Starts(r)
      BY DEF Starts, SeedProposal, PoolMembers
    <2> QED
      BY <1>1, <2>1 DEF BuildComposed, Grown
  <1>2. ASSUME AcceptComposed(c) PROVE AcceptComposed(c)'
    <2>1. \A k : OwnersOf(k) \subseteq OwnersOf(k)'
      BY DEF OwnersOf, Grown
    <2> QED
      BY <1>2, <2>1 DEF AcceptComposed, Visible, Grown
  <1> QED
    BY <1>1, <1>2
(* The rows an output binds are one per company it selects: reading it      *)
(* finds all of them, and all were recorded before the answer.              *)
LEMMA GraphIsWhole ==
    ASSUME RowsOK, NEW o \in outputs, NEW b \in Int, o.at <= b
    PROVE  OutputGraph(o, b)
  <1> USE DeskAssumption
  <1> DEFINE keys == DOMAIN o.plan.bindings
             companies == {k.company : k \in keys}
             f == [x \in Bound(o) |-> x.company]
  <1>1. /\ o.at \in Nat /\ OneEach(keys)
        /\ \A k \in keys :
               /\ k.company \in Company
               /\ \E x \in OwnersOf(k.company) :
                      Binds(k, o.plan.bindings[k]) = <<x.company, x.no>> /\ x.at <= o.at
    BY DEF RowsOK, OutputsOK, OutputFits
  <1>2. \A x, y \in owners : x.company = y.company /\ x.no = y.no => x = y
    BY DEF RowsOK, OwnersOK
  <1>3. ASSUME NEW x \in Bound(o)
        PROVE  /\ x.at <= b /\ x.company \in companies /\ x \in owners
               /\ \E k \in keys : x.company = k.company /\ Binds(k, o.plan.bindings[k]) = <<x.company, x.no>>
    <2>1. PICK k \in keys : Binds(k, o.plan.bindings[k]) = <<x.company, x.no>>
      BY DEF Bound
    <2>2. x \in owners /\ x.company = k.company
      BY <2>1 DEF Bound, Binds
    <2>3. PICK y \in OwnersOf(k.company) :
              Binds(k, o.plan.bindings[k]) = <<y.company, y.no>> /\ y.at <= o.at
      BY <1>1
    <2>4. y = x
      BY <1>2, <2>1, <2>2, <2>3 DEF OwnersOf
    <2>5. x.at \in Nat
      BY <2>2 DEF RowsOK, OwnersOK
    <2> QED
      BY <1>1, <2>1, <2>2, <2>3, <2>4, <2>5
  <1>4. \A x, y \in Bound(o) : x.company = y.company => x = y
    <2>1. ASSUME NEW x \in Bound(o), NEW y \in Bound(o), x.company = y.company PROVE x = y
      <3>1. PICK j \in keys : x.company = j.company /\ Binds(j, o.plan.bindings[j]) = <<x.company, x.no>>
        BY <1>3
      <3>2. PICK k \in keys : y.company = k.company /\ Binds(k, o.plan.bindings[k]) = <<y.company, y.no>>
        BY <1>3
      <3>3. j = k
        BY <1>1, <2>1, <3>1, <3>2 DEF OneEach
      <3>4. x.no = y.no
        BY <3>1, <3>2, <3>3
      <3> QED
        BY <1>2, <1>3, <2>1, <3>4
    <2> QED
      BY <2>1
  <1>5. \A t \in companies : \E x \in Bound(o) : x.company = t
    <2>1. ASSUME NEW k \in keys PROVE \E x \in Bound(o) : x.company = k.company
      <3>1. PICK x \in OwnersOf(k.company) : Binds(k, o.plan.bindings[k]) = <<x.company, x.no>>
        BY <1>1
      <3> QED
        BY <3>1 DEF Bound, OwnersOf
    <2> QED
      BY <2>1
  <1>6. companies \subseteq Company
    BY <1>1
  <1>7. IsFiniteSet(companies)
    BY <1>6, FS_Subset
  <1> DEFINE g == [t \in companies |-> CHOOSE x \in Bound(o) : x.company = t]
  <1>8. \A t \in companies : g[t] \in Bound(o) /\ g[t].company = t
    BY <1>5
  <1>9. \A x \in Bound(o) : x.company \in companies
    BY <1>3
  <1> HIDE DEF companies, keys
  <1>10. g \in [companies -> Bound(o)]
    BY <1>8
  <1>11. \A x \in Bound(o) : g[x.company] = x
    BY <1>4, <1>8, <1>9
  <1> HIDE DEF g
  <1>12. g \in Bijection(companies, Bound(o))
    BY <1>8, <1>9, <1>10, <1>11 DEF Bijection, Injection, Surjection, IsInjective
  <1>13. Cardinality(Bound(o)) = Cardinality(companies)
    BY <1>7, <1>12, FS_Bijection DEF ExistsBijection
  <1> QED
    BY <1>3, <1>13 DEF OutputGraph, Visible, companies, keys

LEMMA OpensReopens ==
    ASSUME RowsOK, NEW kind \in {"save", "prepare", "build", "review", "accept"},
           NEW p, p.at \in Int, Opens(kind, p)
    PROVE  Reopens(kind, p)
  <1>1. PICK r \in revs : /\ r.session = p.session /\ r.no = p.no /\ Visible(r, p.at)
                          /\ kind = "build" => r.workflow = "ready"
                          /\ kind = "review" => r.workflow = "reviewed"
    BY DEF Opens
  <1>2. r \in ExactRevision(p.session, p.no, p.at)
    BY <1>1 DEF ExactRevision, Exact, Revisions
  <1>3. ExactRevision(p.session, p.no, p.at) # {}
    BY <1>2
  <1>4. CASE kind = "save"
    BY <1>3, <1>4 DEF Reopens, ReadRevision, Ok
  <1>5. CASE kind = "prepare"
    BY <1>3, <1>5 DEF Reopens, SourceOptions, Ok
  <1>6. CASE kind = "build"
    <2>1. ReadUniverse(p.session, p.no, p.at).ok
      BY <1>3 DEF ReadUniverse, Ok
    <2>2. {c \in cands : c.session = p.session /\ c.bound = p.no} \subseteq Universe(p.session, p.no, p.at)
      BY <1>6 DEF Opens, Universe
    <2> QED
      BY <1>6, <2>1, <2>2 DEF Reopens
  <1>7. CASE kind = "review"
    <2>1. {x \in ExactRevision(p.session, p.no, p.at) : x.workflow = "reviewed"} # {}
      BY <1>1, <1>2, <1>7
    <2>2. \A c \in {x \in cands : x.session = p.session /\ x.bound = p.no} : Visible(c, p.at)
      BY <1>7 DEF Opens
    <2> QED
      BY <1>7, <2>1, <2>2 DEF Reopens, ResultView, ReviewedPlan, Ok
  <1>8. CASE kind = "accept"
    <2>1. PICK o \in outputs : o.session = p.session /\ o.accepted = p.no /\ Visible(o, p.at)
      BY <1>8 DEF Opens
    <2>2. OutputGraph(o, p.at)
      BY <2>1, GraphIsWhole DEF Visible
    <2>3. o \in OutputOf(p.session, p.no) /\ Readable(o, p.at)
      BY <2>1 DEF OutputOf, Readable
    <2>4. \E x \in OutputOf(p.session, p.no) :
              ExactRevision(p.session, p.no, p.at) # {} /\ Readable(x, p.at) /\ OutputGraph(x, p.at)
      BY <1>3, <2>2, <2>3
    <2> QED
      BY <1>8, <2>4 DEF Reopens, AcceptedView, Ok
  <1> QED
    BY <1>4, <1>5, <1>6, <1>7, <1>8
---------------------------------------------------------------------------
(* Tabs, calls and links.                                                  *)

IsPath(p) == p = Path(p.page, p.session, p.no, p.at) /\ p.at \in Int

IsScopeForm(f) == f = ScopeForm(f.context, f.scope) /\ IsPath(f.context) /\ IsScope(f.scope)

IsReviewForm(f) ==
    /\ f = [no |-> f.no, workflow |-> f.workflow, allowed |-> f.allowed, pools |-> f.pools, cards |-> f.cards]
    /\ f.workflow = "draft" => f.no # 0

FormFits(page, f) == (page = "scope" => IsScopeForm(f)) /\ (page = "review" => IsReviewForm(f))

Commands == {"save", "prepare", "build", "review", "accept"}

IsTab(x) ==
    /\ x = [path |-> x.path, by |-> x.by, loaded |-> x.loaded, links |-> x.links, form |-> x.form]
    /\ IsPath(x.path) /\ \A p \in x.links : IsPath(p)
    /\ x.by \in Commands \union {"link"} /\ (x.by = "save" => x.path.page = "scope")
    /\ FormFits(x.path.page, x.form)

(* The page a command sent its caller to opens.                             *)
TabOpens(x) == x.by # "link" => Opens(x.by, IF x.by = "save" THEN x.form.context ELSE x.path)

PagesOK == tabs = [t \in Tab |-> tabs[t]] /\ \A t \in Tab : IsTab(tabs[t]) /\ TabOpens(tabs[t])

(* A plan of the first version is all that a page sends for review, so none *)
(* of these is ever composed.                                              *)
CallFields == {"tab", "kind", "session", "no", "at", "stage", "scope", "pools", "proposals", "version",
               "decided", "selected", "plan", "shown", "view"}

IsCall(c) ==
    /\ DOMAIN c = CallFields
    /\ c.tab \in Tab \union {Nobody} /\ c.kind \in Commands \union {"preview"}
    /\ c.stage = "sent" \/ (c.stage = "composed" /\ c.kind \in {"build", "accept"})
    /\ c.at \in Int /\ IsScope(c.scope)
    /\ c.kind = "prepare" => c.no # 0
    /\ c.kind = "review" => c.version = 1

CallKnown(c) ==
    c.stage = "composed" =>
        (c.kind = "build" => BuildComposed(c)) /\ (c.kind = "accept" => AcceptComposed(c))

(* A page that leaves takes its own answers with it.                        *)
CallPlaced(c) ==
    c.tab # Nobody =>
        (c.kind = "save" => On(c.tab, "scope")) /\ (c.kind = "preview" => On(c.tab, "acceptance"))

CallsOK == \A c \in calls : IsCall(c) /\ CallKnown(c) /\ CallPlaced(c)

HandedOK == \A h \in handed : h.kind \in {"build", "review"} /\ IsPath(h.path) /\ Opens(h.kind, h.path)

DeskInv == RowsOK /\ PagesOK /\ CallsOK /\ HandedOK

LEMMA PathFields ==
    ASSUME NEW page, NEW s, NEW n, NEW b \in Int
    PROVE  /\ Path(page, s, n, b).page = page /\ Path(page, s, n, b).session = s
           /\ Path(page, s, n, b).no = n /\ Path(page, s, n, b).at = b /\ IsPath(Path(page, s, n, b))
  BY DEF Path, IsPath

(* What a tab, a call or a link relies on is kept when rows are added.      *)
LEMMA TabKept ==
    ASSUME RowsOK, Grown, NEW x, TabOpens(x)
    PROVE  TabOpens(x)'
  <1>1. CASE x.by = "link"
    BY <1>1 DEF TabOpens
  <1>2. CASE x.by # "link"
    <2>1. PICK p : p = IF x.by = "save" THEN x.form.context ELSE x.path
      OBVIOUS
    <2>2. Opens(x.by, p)
      BY <1>2, <2>1 DEF TabOpens
    <2>3. Opens(x.by, p)'
      BY <2>2, OpensKept
    <2> QED
      BY <2>1, <2>3 DEF TabOpens
  <1> QED
    BY <1>1, <1>2

LEMMA CallKept ==
    ASSUME RowsOK, Grown, NEW c, CallKnown(c)
    PROVE  CallKnown(c)'
  BY ComposedKept DEF CallKnown

LEMMA HandedKept ==
    ASSUME RowsOK, Grown, HandedOK, handed' = handed
    PROVE  HandedOK'
  BY OpensKept DEF HandedOK

LEMMA TabsKept ==
    ASSUME RowsOK, Grown, PagesOK, tabs' = tabs
    PROVE  PagesOK'
  <1>1. ASSUME NEW t \in Tab PROVE IsTab(tabs'[t]) /\ TabOpens(tabs[t])'
    <2>1. PICK x : x = tabs[t]
      OBVIOUS
    <2>2. IsTab(x) /\ TabOpens(x)
      BY <2>1 DEF PagesOK
    <2>3. TabOpens(x)'
      BY <2>2, TabKept
    <2> QED
      BY <2>1, <2>2, <2>3
  <1> QED
    BY <1>1 DEF PagesOK

LEMMA TabMoves ==
    ASSUME RowsOK, Grown, PagesOK, NEW t \in Tab, NEW x, tabs' = [tabs EXCEPT ![t] = x],
           IsTab(x), TabOpens(x)'
    PROVE  PagesOK' /\ tabs'[t] = x /\ \A u \in Tab \ {t} : tabs'[u] = tabs[u]
  <1>1. /\ tabs' = [u \in Tab |-> tabs'[u]] /\ tabs'[t] = x
        /\ \A u \in Tab \ {t} : tabs'[u] = tabs[u]
    BY DEF PagesOK
  <1>2. ASSUME NEW u \in Tab PROVE IsTab(tabs'[u]) /\ TabOpens(tabs[u])'
    <2>1. CASE u = t
      BY <1>1, <2>1
    <2>2. CASE u # t
      <3>1. PICK y : y = tabs[u]
        OBVIOUS
      <3>2. IsTab(y) /\ TabOpens(y)
        BY <3>1 DEF PagesOK
      <3>3. TabOpens(y)' /\ tabs'[u] = y
        BY <1>1, <2>2, <3>1, <3>2, TabKept
      <3> QED
        BY <3>2, <3>3
    <2> QED
      BY <2>1, <2>2
  <1> QED
    BY <1>1, <1>2 DEF PagesOK

LEMMA CallsKept ==
    ASSUME RowsOK, Grown, CallsOK, calls' \subseteq calls,
           \A t \in Tab : tabs'[t].path = tabs[t].path
    PROVE  CallsOK'
  <1>1. ASSUME NEW c \in calls' PROVE IsCall(c) /\ CallKnown(c)' /\ CallPlaced(c)'
    <2>1. IsCall(c) /\ CallKnown(c) /\ CallPlaced(c)
      BY DEF CallsOK
    <2>2. c.tab # Nobody => c.tab \in Tab
      BY <2>1 DEF IsCall
    <2>3. CallPlaced(c)'
      BY <2>1, <2>2 DEF CallPlaced, On
    <2> QED
      BY <2>1, <2>3, CallKept
  <1> QED
    BY <1>1 DEF CallsOK
---------------------------------------------------------------------------
(* Moving.                                                                 *)

LEMMA Abandoned ==
    ASSUME CallsOK, NEW t \in Tab, NEW S, S \subseteq calls, NEW d \in Abandon(t, S)
    PROVE  /\ IsCall(d) /\ CallKnown(d)
           /\ d.tab = Nobody \/ (d \in calls /\ d.tab \in Tab \ {t})
  <1>1. CASE d \in S /\ d.tab # t
    BY <1>1 DEF CallsOK, IsCall
  <1>2. CASE \E c \in S : c.kind # "preview" /\ d = Orphan(c)
    <2>1. PICK c \in S : c.kind # "preview" /\ d = Orphan(c)
      BY <1>2
    <2>2. IsCall(c) /\ CallKnown(c)
      BY DEF CallsOK
    <2>3. IsCall(d) /\ d.tab = Nobody
      BY <2>1, <2>2 DEF Orphan, IsCall, CallFields
    <2>4. /\ d.kind = c.kind /\ d.stage = c.stage /\ d.session = c.session /\ d.no = c.no /\ d.at = c.at
          /\ d.plan = c.plan /\ d.proposals = c.proposals
      BY <2>1, <2>2 DEF Orphan, IsCall, CallFields
    <2>5. CallKnown(d)
      BY <2>2, <2>4 DEF CallKnown, BuildComposed, AcceptComposed
    <2> QED
      BY <2>3, <2>5
  <1> QED
    BY <1>1, <1>2 DEF Abandon

LEMMA CallsAbandoned ==
    ASSUME RowsOK, Grown, CallsOK, NEW t \in Tab, NEW S, S \subseteq calls, calls' = Abandon(t, S),
           \A u \in Tab \ {t} : tabs'[u] = tabs[u]
    PROVE  CallsOK'
  <1>1. ASSUME NEW d \in calls' PROVE IsCall(d) /\ CallKnown(d)' /\ CallPlaced(d)'
    <2>1. IsCall(d) /\ CallKnown(d) /\ (d.tab = Nobody \/ (d \in calls /\ d.tab \in Tab \ {t}))
      BY Abandoned
    <2>2. CallKnown(d)'
      BY <2>1, CallKept
    <2>3. CallPlaced(d)'
      <3>1. CASE d.tab = Nobody
        BY <3>1 DEF CallPlaced
      <3>2. CASE d \in calls /\ d.tab \in Tab \ {t}
        BY <3>2 DEF CallsOK, CallPlaced, On
      <3> QED
        BY <2>1, <3>1, <3>2
    <2> QED
      BY <2>1, <2>2, <2>3
  <1> QED
    BY <1>1 DEF CallsOK

LEMMA FreshPage ==
    ASSUME NEW p, IsPath(p)
    PROVE  /\ IsTab(Page(p)) /\ Page(p).by = "link" /\ Page(p).path = p
           /\ Page(p).links = {} /\ FormFits(p.page, Form(p.page))
  <1> USE PageAssumption
  <1>1. AnyScope \in Scopes /\ IsScope(AnyScope)
    BY DEF AnyScope, IsScope
  <1>2. IsPath(Nowhere)
    BY PathFields DEF Nowhere
  <1>3. IsScopeForm(ScopeForm(Nowhere, AnyScope))
    BY <1>1, <1>2 DEF IsScopeForm, ScopeForm
  <1>4. IsReviewForm(ReviewForm)
    BY DEF IsReviewForm, ReviewForm
  <1>5. FormFits(p.page, Form(p.page))
    BY <1>3, <1>4 DEF FormFits, Form
  <1> QED
    BY <1>5 DEF IsTab, Page, Commands

LEMMA Visits ==
    ASSUME DeskInv, NEW t \in Tab, NEW p, IsPath(p), Visit(t, p)
    PROVE  DeskInv'
  <1> DEFINE x == Page(p)
  <1>1. /\ tabs' = [tabs EXCEPT ![t] = x] /\ calls' = Abandon(t, calls)
        /\ UNCHANGED rows /\ handed' = handed
    BY DEF Visit
  <1>2. RowsOK' /\ Grown
    BY <1>1, NothingAdded DEF DeskInv
  <1>3. IsTab(x) /\ x.by = "link"
    BY FreshPage
  <1> HIDE DEF x
  <1>4. TabOpens(x)'
    BY <1>3 DEF TabOpens
  <1>5. PagesOK' /\ \A u \in Tab \ {t} : tabs'[u] = tabs[u]
    BY <1>1, <1>2, <1>3, <1>4, TabMoves DEF DeskInv
  <1>6. CallsOK'
    BY <1>1, <1>2, <1>5, CallsAbandoned DEF DeskInv
  <1>7. HandedOK'
    BY <1>1, <1>2, HandedKept DEF DeskInv
  <1> QED
    BY <1>2, <1>5, <1>6, <1>7 DEF DeskInv

LEMMA Moves ==
    ASSUME DeskInv, NEW t \in Tab, OpenHistory(t) \/ Follow(t) \/ OpenHanded(t)
    PROVE  DeskInv'
  <1>1. CASE OpenHistory(t)
    <2>1. now \in Nat /\ Lookback \in Nat
      BY PageAssumption DEF DeskInv, RowsOK
    <2>2. PICK b \in (now - Lookback)..now : Visit(t, Path("history", 0, 0, b))
      BY <1>1 DEF OpenHistory
    <2>3. b \in Int
      BY <2>1, <2>2
    <2>4. IsPath(Path("history", 0, 0, b))
      BY <2>3, PathFields
    <2> QED
      BY <2>2, <2>4, Visits
  <1>2. CASE Follow(t)
    <2>1. PICK p \in tabs[t].links : Visit(t, p)
      BY <1>2 DEF Follow
    <2>2. IsPath(p)
      BY DEF DeskInv, PagesOK, IsTab
    <2> QED
      BY <2>1, <2>2, Visits
  <1>3. CASE OpenHanded(t)
    <2>1. PICK h \in handed : Visit(t, h.path)
      BY <1>3 DEF OpenHanded
    <2>2. IsPath(h.path)
      BY DEF DeskInv, HandedOK
    <2> QED
      BY <2>1, <2>2, Visits
  <1> QED
    BY <1>1, <1>2, <1>3

---------------------------------------------------------------------------
(* Loading and editing: a tab changes in place.                            *)

LEMMA InPlace ==
    ASSUME DeskInv, NEW t \in Tab, NEW n, NEW links, NEW form,
           \A p \in links : IsPath(p), FormFits(tabs[t].path.page, form),
           tabs[t].by = "save" => Opens("save", form.context),
           tabs' = [tabs EXCEPT ![t] = [path |-> tabs[t].path, by |-> tabs[t].by, loaded |-> n,
                                        links |-> links, form |-> form]],
           calls' \subseteq calls, UNCHANGED <<rows, handed>>
    PROVE  DeskInv'
  <1>1. PICK x : x = [path |-> tabs[t].path, by |-> tabs[t].by, loaded |-> n, links |-> links, form |-> form]
    OBVIOUS
  <1>2. /\ x.path = tabs[t].path /\ x.by = tabs[t].by /\ x.links = links /\ x.form = form /\ x.loaded = n
    BY <1>1
  <1>3. RowsOK' /\ Grown
    BY NothingAdded DEF DeskInv
  <1>4. IsTab(tabs[t]) /\ TabOpens(tabs[t])
    BY DEF DeskInv, PagesOK
  <1>5. IsTab(x)
    BY <1>1, <1>2, <1>4 DEF IsTab
  <1>6. TabOpens(x)
    <2>1. CASE x.by = "save"
      BY <1>2, <2>1 DEF TabOpens
    <2>2. CASE x.by # "save"
      BY <1>2, <1>4, <2>2 DEF TabOpens
    <2> QED
      BY <2>1, <2>2
  <1>7. TabOpens(x)'
    BY <1>3, <1>6, TabKept DEF DeskInv
  <1>8. PagesOK' /\ tabs'[t] = x /\ \A u \in Tab \ {t} : tabs'[u] = tabs[u]
    BY <1>1, <1>3, <1>5, <1>7, TabMoves DEF DeskInv
  <1>9. \A u \in Tab : tabs'[u].path = tabs[u].path
    BY <1>2, <1>8
  <1>10. CallsOK' /\ HandedOK'
    BY <1>3, <1>9, CallsKept, HandedKept DEF DeskInv
  <1> QED
    BY <1>3, <1>8, <1>10 DEF DeskInv

LEMMA LoadedTab ==
    ASSUME DeskInv, NEW t \in Tab, NEW n, NEW links, NEW form, Loaded(t, n, links, form)
    PROVE  tabs' = [tabs EXCEPT ![t] = [path |-> tabs[t].path, by |-> tabs[t].by, loaded |-> n,
                                        links |-> links, form |-> form]]
  <1>1. tabs = [u \in Tab |-> tabs[u]] /\ IsTab(tabs[t])
    BY DEF DeskInv, PagesOK
  <1>2. tabs[t] = [path |-> tabs[t].path, by |-> tabs[t].by, loaded |-> tabs[t].loaded,
                   links |-> tabs[t].links, form |-> tabs[t].form]
    BY <1>1 DEF IsTab
  <1>3. tabs' = [tabs EXCEPT ![t] = [[[tabs[t] EXCEPT !.loaded = n] EXCEPT !.links = links] EXCEPT !.form = form]]
    BY <1>1 DEF Loaded
  <1>4. [[[tabs[t] EXCEPT !.loaded = n] EXCEPT !.links = links] EXCEPT !.form = form]
            = [path |-> tabs[t].path, by |-> tabs[t].by, loaded |-> n, links |-> links, form |-> form]
    <2>1. PICK p, b, m, k, f :
              /\ tabs[t] = [path |-> p, by |-> b, loaded |-> m, links |-> k, form |-> f]
              /\ p = tabs[t].path /\ b = tabs[t].by
      BY <1>2, Zenon
    <2>2. [[[[path |-> p, by |-> b, loaded |-> m, links |-> k, form |-> f]
                 EXCEPT !.loaded = n] EXCEPT !.links = links] EXCEPT !.form = form]
              = [path |-> p, by |-> b, loaded |-> n, links |-> links, form |-> form]
      <3>1. [[path |-> p, by |-> b, loaded |-> m, links |-> k, form |-> f] EXCEPT !.loaded = n]
                = [path |-> p, by |-> b, loaded |-> n, links |-> k, form |-> f]
        OBVIOUS
      <3>2. [[path |-> p, by |-> b, loaded |-> n, links |-> k, form |-> f] EXCEPT !.links = links]
                = [path |-> p, by |-> b, loaded |-> n, links |-> links, form |-> f]
        OBVIOUS
      <3>3. [[path |-> p, by |-> b, loaded |-> n, links |-> links, form |-> f] EXCEPT !.form = form]
                = [path |-> p, by |-> b, loaded |-> n, links |-> links, form |-> form]
        OBVIOUS
      <3> QED
        BY <3>1, <3>2, <3>3, Zenon
    <2> QED
      BY <2>1, <2>2, Zenon
  <1> QED
    BY <1>3, <1>4

LEMMA Loads ==
    ASSUME DeskInv, NEW t \in Tab, NEW n, NEW links, NEW form, Loaded(t, n, links, form),
           \A p \in links : IsPath(p), FormFits(tabs[t].path.page, form),
           tabs[t].by = "save" => Opens("save", form.context)
    PROVE  DeskInv'
  <1>1. calls' \subseteq calls /\ UNCHANGED <<rows, handed>>
    BY DEF Loaded
  <1> QED
    BY <1>1, LoadedTab, InPlace

LEMMA KeptTab ==
    ASSUME DeskInv, NEW t \in Tab, NEW form, Keep(t, form)
    PROVE  tabs' = [tabs EXCEPT ![t] = [path |-> tabs[t].path, by |-> tabs[t].by, loaded |-> tabs[t].loaded,
                                        links |-> tabs[t].links, form |-> form]]
  <1>1. tabs = [u \in Tab |-> tabs[u]] /\ IsTab(tabs[t])
    BY DEF DeskInv, PagesOK
  <1>2. [tabs[t] EXCEPT !.form = form] =
            [path |-> tabs[t].path, by |-> tabs[t].by, loaded |-> tabs[t].loaded,
             links |-> tabs[t].links, form |-> form]
    BY <1>1 DEF IsTab
  <1>3. tabs' = [tabs EXCEPT ![t] = [tabs[t] EXCEPT !.form = form]]
    BY <1>1 DEF Keep
  <1> QED
    BY <1>2, <1>3

LEMMA Keeps ==
    ASSUME DeskInv, NEW t \in Tab, NEW form, Keep(t, form), FormFits(tabs[t].path.page, form),
           tabs[t].by = "save" => Opens("save", form.context), calls' \subseteq calls, UNCHANGED <<rows, handed>>
    PROVE  DeskInv'
  <1>1. \A p \in tabs[t].links : IsPath(p)
    BY DEF DeskInv, PagesOK, IsTab
  <1> QED
    BY <1>1, KeptTab, InPlace

LEMMA TabFacts ==
    ASSUME DeskInv, NEW t \in Tab
    PROVE  /\ IsPath(tabs[t].path) /\ FormFits(tabs[t].path.page, tabs[t].form)
           /\ \A p \in tabs[t].links : IsPath(p)
           /\ tabs[t].by = "save" => Opens("save", tabs[t].form.context) /\ tabs[t].path.page = "scope"
           /\ RowsOK
  BY DEF DeskInv, PagesOK, IsTab, TabOpens

LEMMA RevisionNumbers ==
    ASSUME RowsOK, NEW r \in revs
    PROVE  r.no \in Nat \ {0}
  <1>1. r.no \in RevisionNos(r.session) /\ Chained(RevisionNos(r.session))
    BY DEF RowsOK, RevsOK, RevisionNos, Revisions
  <1> QED
    BY <1>1 DEF Chained

LEMMA LoadsHistory ==
    ASSUME DeskInv, NEW t \in Tab, LoadHistory(t)
    PROVE  DeskInv'
  <1> DEFINE links == {Continuation(r) : r \in Listing(Url(t).at)} \union {NewScope}
  <1>1. tabs[t].path.page = "history" /\ Loaded(t, 1, links, tabs[t].form)
    BY DEF LoadHistory, On
  <1>2. \A p \in links : IsPath(p)
    <2>1. ASSUME NEW r \in Listing(Url(t).at) PROVE IsPath(Continuation(r))
      <3>1. r.at \in Int
        BY TabFacts DEF Listing, RowsOK, RevsOK
      <3> QED
        BY <3>1, PathFields DEF Continuation
    <2>2. IsPath(NewScope)
      BY PathFields DEF NewScope
    <2> QED
      BY <2>1, <2>2
  <1> HIDE DEF links
  <1> QED
    BY <1>1, <1>2, TabFacts, Loads

LEMMA LoadsScope ==
    ASSUME DeskInv, NEW t \in Tab, LoadScope(t)
    PROVE  DeskInv'
  <1> DEFINE u == tabs[t].path
             read == ReadRevision(u.session, u.no, u.at)
             form == [tabs[t].form EXCEPT !.context = u, !.scope = read.body.scope]
  <1>1. /\ u.page = "scope"
        /\ IF read.ok /\ read.body.workflow = "draft"
           THEN Loaded(t, 1, tabs[t].links, form) ELSE GiveUp(t, tabs[t].form)
    BY DEF LoadScope, On, Url
  <1>2. IsPath(u) /\ IsScopeForm(tabs[t].form)
    BY <1>1, TabFacts DEF FormFits
  <1>3. CASE read.ok /\ read.body.workflow = "draft"
    <2>1. ExactRevision(u.session, u.no, u.at) # {}
      BY <1>3 DEF ReadRevision, Fail
    <2>2. PICK r : r = CHOOSE x \in ExactRevision(u.session, u.no, u.at) : TRUE
      OBVIOUS
    <2>3. r \in ExactRevision(u.session, u.no, u.at) /\ read.body = r
      BY <2>1, <2>2 DEF ReadRevision, Ok
    <2>4. r \in revs /\ r.session = u.session /\ r.no = u.no /\ Visible(r, u.at)
      BY <2>3 DEF ExactRevision, Exact, Revisions
    <2>5. Opens("save", u) /\ IsScope(r.scope)
      BY <2>4, TabFacts DEF Opens, RowsOK, RevsOK
    <2>6. form = ScopeForm(u, r.scope) /\ form.context = u /\ form.scope = r.scope
      <3>1. PICK a, b : tabs[t].form = ScopeForm(a, b)
        BY <1>2, Zenon DEF IsScopeForm
      <3>2. form = ScopeForm(u, r.scope)
        <4>1. [ScopeForm(a, b) EXCEPT !.context = u] = ScopeForm(u, b)
          BY DEF ScopeForm
        <4>2. [ScopeForm(u, b) EXCEPT !.scope = r.scope] = ScopeForm(u, r.scope)
          BY DEF ScopeForm
        <4> QED
          BY <2>3, <3>1, <4>1, <4>2, Zenon
      <3> HIDE DEF form
      <3> QED
        BY <3>2 DEF ScopeForm
    <2>7. IsScopeForm(form)
      BY <1>2, <2>5, <2>6 DEF IsScopeForm
    <2>8. FormFits(u.page, form) /\ Opens("save", form.context)
      BY <1>1, <2>5, <2>6, <2>7 DEF FormFits
    <2>9. Loaded(t, 1, tabs[t].links, form)
      BY <1>1, <1>3
    <2> HIDE DEF form, read
    <2> QED
      BY <2>8, <2>9, TabFacts, Loads
  <1>4. CASE ~(read.ok /\ read.body.workflow = "draft")
    <2>1. Loaded(t, Failed, {}, tabs[t].form)
      BY <1>1, <1>4 DEF GiveUp
    <2> QED
      BY <2>1, TabFacts, Loads
  <1> QED
    BY <1>3, <1>4

LEMMA LoadsSourceOptions ==
    ASSUME DeskInv, NEW t \in Tab, LoadSourceOptions(t)
    PROVE  DeskInv'
  <1> DEFINE u == tabs[t].path
             read == SourceOptions(u.session, u.no, u.at)
             form == [ReviewForm EXCEPT !.no = read.body.no, !.workflow = read.body.workflow,
                                        !.allowed = read.body.allowed, !.pools = read.body.pools]
  <1>1. /\ u.page = "review"
        /\ IF ~read.ok THEN GiveUp(t, ReviewForm)
           ELSE IF ~read.body.latest THEN GiveUp(t, form) ELSE Loaded(t, 1, {}, form)
    BY DEF LoadSourceOptions, On, Url
  <1>2. tabs[t].by # "save"
    BY <1>1, TabFacts
  <1>3. CASE ~read.ok
    <2>1. Loaded(t, Failed, {}, ReviewForm)
      BY <1>1, <1>3 DEF GiveUp
    <2>2. FormFits(u.page, ReviewForm)
      BY <1>1 DEF FormFits, IsReviewForm, ReviewForm
    <2> QED
      BY <1>2, <2>1, <2>2, Loads
  <1>4. CASE read.ok
    <2>1. \E n : Loaded(t, n, {}, form)
      BY <1>1, <1>4 DEF GiveUp
    <2>2. ExactRevision(u.session, u.no, u.at) # {}
      BY <1>4 DEF SourceOptions, Fail
    <2>3. \E r \in revs : r.no = u.no
      BY <2>2 DEF ExactRevision, Exact, Revisions
    <2>4. read.body.no = u.no /\ u.no # 0
      BY <2>2, <2>3, TabFacts, RevisionNumbers DEF SourceOptions, Ok
    <2> HIDE DEF read
    <2>5. IsReviewForm(form)
      <3> DEFINE R(n, w, x, y) == [no |-> n, workflow |-> w, allowed |-> x, pools |-> y, cards |-> {}]
      <3>1. PICK n, w, x, y, o : /\ n = read.body.no /\ w = read.body.workflow /\ x = read.body.allowed
                                 /\ y = read.body.pools /\ o = FALSE
        BY Zenon
      <3>2. ReviewForm = R(0, "none", o, {})
        BY <3>1, Zenon DEF ReviewForm
      <3>3. [R(0, "none", o, {}) EXCEPT !.no = n] = R(n, "none", o, {})
        OBVIOUS
      <3>4. [R(n, "none", o, {}) EXCEPT !.workflow = w] = R(n, w, o, {})
        OBVIOUS
      <3>5. [R(n, w, o, {}) EXCEPT !.allowed = x] = R(n, w, x, {})
        OBVIOUS
      <3>6. [R(n, w, x, {}) EXCEPT !.pools = y] = R(n, w, x, y)
        OBVIOUS
      <3> HIDE DEF R
      <3>7. form = R(n, w, x, y)
        <4>1. [ReviewForm EXCEPT !.no = n, !.workflow = w] = R(n, w, o, {})
          BY <3>2, <3>3, <3>4, Zenon
        <4>2. [ReviewForm EXCEPT !.no = n, !.workflow = w, !.allowed = x] = R(n, w, x, {})
          BY <4>1, <3>5, Zenon
        <4>3. [ReviewForm EXCEPT !.no = n, !.workflow = w, !.allowed = x, !.pools = y] = R(n, w, x, y)
          BY <4>2, <3>6, Zenon
        <4> QED
          BY <4>3, <3>1, Zenon
      <3> HIDE DEF form
      <3> QED
        BY <2>4, <3>1, <3>7 DEF IsReviewForm, R
    <2> HIDE DEF form
    <2>6. FormFits(u.page, form)
      BY <1>1, <2>5 DEF FormFits
    <2> QED
      BY <1>2, <2>1, <2>6, Loads
  <1> QED
    BY <1>3, <1>4

LEMMA LoadsReview ==
    ASSUME DeskInv, NEW t \in Tab, LoadUniverse(t) \/ LoadReviewView(t)
    PROVE  DeskInv'
  <1> DEFINE f == tabs[t].form
  <1>1. tabs[t].path.page = "review" /\ IsReviewForm(f)
    BY TabFacts DEF LoadUniverse, LoadReviewView, On, FormFits
  <1>2. tabs[t].by # "save"
    BY <1>1, TabFacts
  <1>3. \E n, form : Loaded(t, n, {}, form) /\ IsReviewForm(form)
    <2>1. CASE LoadUniverse(t)
      <3>1. IsReviewForm([f EXCEPT !.workflow = "none", !.allowed = FALSE])
        <4> DEFINE R(a, w, x, c, d) == [no |-> a, workflow |-> w, allowed |-> x, pools |-> c, cards |-> d]
        <4>1. PICK a, w, x, c, d : f = R(a, w, x, c, d)
          BY <1>1, Zenon DEF IsReviewForm
        <4>2. [R(a, w, x, c, d) EXCEPT !.workflow = "none"] = R(a, "none", x, c, d)
          OBVIOUS
        <4>3. PICK o : o = FALSE
          BY Zenon
        <4>4. [R(a, "none", x, c, d) EXCEPT !.allowed = o] = R(a, "none", o, c, d)
          OBVIOUS
        <4>5. IsReviewForm(R(a, "none", o, c, d))
          BY DEF IsReviewForm
        <4> HIDE DEF R, f
        <4>6. [f EXCEPT !.workflow = "none", !.allowed = FALSE] = R(a, "none", o, c, d)
          BY <4>1, <4>2, <4>3, <4>4, Zenon
        <4> QED
          BY <4>5, <4>6, Zenon
      <3>2. Loaded(t, 2, {}, [f EXCEPT !.workflow = "none", !.allowed = FALSE]) \/ Loaded(t, 3, {}, f)
        BY <2>1 DEF LoadUniverse
      <3> QED
        BY <1>1, <3>1, <3>2
    <2>2. CASE LoadReviewView(t)
      <3>1. \A cards : IsReviewForm([f EXCEPT !.cards = cards])
        BY <1>1 DEF IsReviewForm
      <3>2. (\E cards : Loaded(t, 3, {}, [f EXCEPT !.cards = cards])) \/ Loaded(t, Failed, {}, f)
        BY <2>2, Zenon DEF LoadReviewView, GiveUp
      <3> QED
        BY <1>1, <3>1, <3>2
    <2> QED
      BY <2>1, <2>2
  <1>4. PICK n, form : Loaded(t, n, {}, form) /\ IsReviewForm(form)
    BY <1>3
  <1>5. FormFits(tabs[t].path.page, form)
    BY <1>1, <1>4 DEF FormFits
  <1> QED
    BY <1>2, <1>4, <1>5, Loads

LEMMA LoadsOthers ==
    ASSUME DeskInv, NEW t \in Tab, LoadResult(t) \/ LoadAcceptance(t) \/ LoadAccepted(t)
    PROVE  DeskInv'
  <1> DEFINE u == tabs[t].path
             next == [u EXCEPT !.page = "acceptance"]
  <1>1. u.page \in {"result", "acceptance", "accepted"}
    BY DEF LoadResult, LoadAcceptance, LoadAccepted, On
  <1>2. tabs[t].by # "save" /\ IsPath(u)
    BY <1>1, TabFacts
  <1>3. IsPath(next)
    BY <1>2 DEF IsPath, Path
  <1>4. \A f : FormFits(u.page, f)
    BY <1>1 DEF FormFits
  <1>5. \E n, form : Loaded(t, n, {}, form) \/ Loaded(t, n, {next}, form)
    <2>1. CASE LoadResult(t)
      BY <2>1 DEF LoadResult, GiveUp, Url
    <2>2. CASE LoadAcceptance(t)
      BY <2>2 DEF LoadAcceptance, GiveUp
    <2>3. CASE LoadAccepted(t)
      BY <2>3 DEF LoadAccepted
    <2> QED
      BY <2>1, <2>2, <2>3
  <1> HIDE DEF next, u
  <1>6. PICK n, form, links : Loaded(t, n, links, form) /\ \A p \in links : IsPath(p)
    <2>1. PICK n, form : Loaded(t, n, {}, form) \/ Loaded(t, n, {next}, form)
      BY <1>5
    <2>2. (\A p \in {} : IsPath(p)) /\ \A p \in {next} : IsPath(p)
      BY <1>3
    <2> QED
      BY <2>1, <2>2
  <1>7. FormFits(tabs[t].path.page, form)
    BY <1>4 DEF u
  <1> QED
    BY <1>2, <1>6, <1>7, Loads
---------------------------------------------------------------------------
(* What readers do.                                                        *)

LEMMA Sends ==
    ASSUME DeskInv, NEW c, Send(c), IsCall(c), c.stage = "sent", CallPlaced(c)
    PROVE  DeskInv'
  <1>1. calls' = calls \union {c} /\ tabs' = tabs /\ handed' = handed /\ UNCHANGED rows
    BY DEF Send
  <1>2. RowsOK' /\ Grown
    BY <1>1, NothingAdded DEF DeskInv
  <1>3. PagesOK' /\ HandedOK'
    BY <1>1, <1>2, TabsKept, HandedKept DEF DeskInv
  <1>4. ASSUME NEW d \in calls' PROVE IsCall(d) /\ CallKnown(d)' /\ CallPlaced(d)'
    <2>1. IsCall(d) /\ CallKnown(d) /\ CallPlaced(d)
      <3>1. CallKnown(c)
        BY DEF CallKnown
      <3> QED
        BY <1>1, <3>1 DEF DeskInv, CallsOK
    <2>2. CallKnown(d)'
      BY <1>2, <2>1, CallKept DEF DeskInv
    <2>3. CallPlaced(d)'
      BY <1>1, <2>1 DEF CallPlaced, On
    <2> QED
      BY <2>1, <2>2, <2>3
  <1> QED
    BY <1>2, <1>3, <1>4 DEF DeskInv, CallsOK

LEMMA NewCall ==
    ASSUME NEW t, NEW kind, NEW u, NEW d, d = Call(t, kind, u)
    PROVE  /\ DOMAIN d = CallFields /\ d.tab = t /\ d.kind = kind /\ d.session = u.session
           /\ d.no = u.no /\ d.at = u.at /\ d.stage = "sent" /\ IsScope(d.scope)
  <1>1. IsScope(AnyScope)
    BY PageAssumption DEF AnyScope, IsScope
  <1> QED
    BY <1>1 DEF Call, CallFields

LEMMA SavesSent ==
    ASSUME DeskInv, NEW t \in Tab, SaveScope(t)
    PROVE  DeskInv'
  <1> DEFINE u == tabs[t].form.context
             c == [Call(t, "save", u) EXCEPT !.scope = tabs[t].form.scope]
  <1>1. On(t, "scope") /\ Send(c)
    BY DEF SaveScope
  <1>2. u.at \in Int /\ IsScope(tabs[t].form.scope)
    BY <1>1, TabFacts DEF On, FormFits, IsScopeForm, IsPath
  <1>3. /\ DOMAIN c = CallFields /\ c.tab = t /\ c.kind = "save" /\ c.at \in Int /\ c.stage = "sent"
        /\ c.scope = tabs[t].form.scope
    <2>1. PICK d : d = Call(t, "save", u)
      OBVIOUS
    <2>2. /\ DOMAIN d = CallFields /\ d.tab = t /\ d.kind = "save" /\ d.at \in Int /\ d.stage = "sent"
      BY <1>2, <2>1, NewCall
    <2>3. c = [d EXCEPT !.scope = tabs[t].form.scope]
      BY <2>1, Zenon
    <2> QED
      BY <2>2, <2>3 DEF CallFields
  <1> HIDE DEF c, u
  <1>4. IsCall(c)
    BY <1>2, <1>3 DEF IsCall, Commands
  <1>5. CallPlaced(c)
    BY <1>1, <1>3 DEF CallPlaced
  <1> QED
    BY <1>1, <1>3, <1>4, <1>5, Sends

LEMMA ReviewsSent ==
    ASSUME DeskInv, NEW t \in Tab, Prepare(t) \/ Build(t) \/ SubmitReview(t)
    PROVE  DeskInv'
  <1>1. On(t, "review") /\ Url(t).at \in Int /\ IsReviewForm(tabs[t].form)
    BY TabFacts DEF Prepare, Build, SubmitReview, Free, On, FormFits, IsPath, Url
  <1>2. PICK c : /\ Send(c) /\ DOMAIN c = CallFields /\ c.tab = t /\ c.at \in Int /\ c.stage = "sent"
                 /\ IsScope(c.scope) /\ c.kind \in {"prepare", "build", "review"}
                 /\ c.kind = "prepare" => c.no # 0
                 /\ c.kind = "review" => c.version = 1
    <2>1. CASE Prepare(t)
      <3> DEFINE c == [Call(t, "prepare", Url(t)) EXCEPT !.no = tabs[t].form.no]
      <3>1. Send(c) /\ tabs[t].form.no # 0
        BY <1>1, <2>1 DEF Prepare, IsReviewForm
      <3>2. /\ DOMAIN c = CallFields /\ c.tab = t /\ c.at \in Int /\ c.stage = "sent"
            /\ IsScope(c.scope) /\ c.kind = "prepare" /\ c.no = tabs[t].form.no
        <4>1. PICK d : d = Call(t, "prepare", Url(t))
          OBVIOUS
        <4>2. /\ DOMAIN d = CallFields /\ d.tab = t /\ d.kind = "prepare" /\ d.at \in Int /\ d.stage = "sent"
              /\ IsScope(d.scope)
          BY <1>1, <4>1, NewCall
        <4>3. c = [d EXCEPT !.no = tabs[t].form.no]
          BY <4>1, Zenon
        <4> QED
          BY <4>2, <4>3 DEF CallFields
      <3> HIDE DEF c
      <3> QED
        BY <3>1, <3>2
    <2>2. CASE Build(t)
      <3>1. PICK some : Send([Call(t, "build", Url(t)) EXCEPT !.pools = some])
        BY <2>2 DEF Build
      <3> DEFINE c == [Call(t, "build", Url(t)) EXCEPT !.pools = some]
      <3>2. /\ DOMAIN c = CallFields /\ c.tab = t /\ c.at \in Int /\ c.stage = "sent"
            /\ IsScope(c.scope) /\ c.kind = "build"
        <4>1. PICK d : d = Call(t, "build", Url(t))
          OBVIOUS
        <4>2. /\ DOMAIN d = CallFields /\ d.tab = t /\ d.kind = "build" /\ d.at \in Int /\ d.stage = "sent"
              /\ IsScope(d.scope)
          BY <1>1, <4>1, NewCall
        <4>3. c = [d EXCEPT !.pools = some]
          BY <4>1, Zenon
        <4> QED
          BY <4>2, <4>3 DEF CallFields
      <3>3. Send(c)
        BY <3>1
      <3> HIDE DEF c
      <3> QED
        BY <3>2, <3>3
    <2>3. CASE SubmitReview(t)
      <3> DEFINE c == [Call(t, "review", Url(t)) EXCEPT !.version = 1, !.decided = tabs[t].form.cards]
      <3>1. Send(c)
        BY <2>3 DEF SubmitReview
      <3>2. /\ DOMAIN c = CallFields /\ c.tab = t /\ c.at \in Int /\ c.stage = "sent"
            /\ IsScope(c.scope) /\ c.kind = "review" /\ c.version = 1
        <4>1. PICK d : d = Call(t, "review", Url(t))
          OBVIOUS
        <4>2. /\ DOMAIN d = CallFields /\ d.tab = t /\ d.kind = "review" /\ d.at \in Int /\ d.stage = "sent"
              /\ IsScope(d.scope)
          BY <1>1, <4>1, NewCall
        <4>3. c = [d EXCEPT !.version = 1, !.decided = tabs[t].form.cards]
          BY <4>1, Zenon
        <4> QED
          BY <4>2, <4>3 DEF CallFields
      <3> HIDE DEF c
      <3> QED
        BY <3>1, <3>2
    <2> QED
      BY <2>1, <2>2, <2>3
  <1>3. IsCall(c)
    BY <1>2 DEF IsCall, Commands
  <1>4. CallPlaced(c)
    BY <1>2 DEF CallPlaced
  <1> QED
    BY <1>2, <1>3, <1>4, Sends
(* What a page proposes names the page, and a commit what it has shown.     *)
LEMMA PlanSent ==
    ASSUME DeskInv, NEW t \in Tab, SubmitPreview(t) \/ Commit(t)
    PROVE  \E c : /\ Send(c) /\ IsCall(c) /\ c.stage = "sent" /\ c.tab = t /\ On(t, "acceptance")
                  /\ c.session = Url(t).session /\ c.no = Url(t).no /\ c.at = Url(t).at
                  /\ \/ c.kind = "preview"
                     \/ c.kind = "accept" /\ c.shown = tabs[t].form.preview /\ c.shown.ready
  <1>1. On(t, "acceptance") /\ Url(t).at \in Int
    BY TabFacts DEF SubmitPreview, Commit, Accepting, IsPath, Url
  <1>2. PICK kind, d : d = Call(t, kind, Url(t)) /\
            \/ /\ kind = "preview"
               /\ Send([d EXCEPT !.plan = tabs[t].form.plan, !.view = tabs[t].form.view])
            \/ /\ kind = "accept" /\ tabs[t].form.preview.ready
               /\ Send([[d EXCEPT !.plan = tabs[t].form.plan, !.view = tabs[t].form.view]
                           EXCEPT !.shown = tabs[t].form.preview])
    <2>1. CASE SubmitPreview(t)
      BY <2>1 DEF SubmitPreview, Proposed
    <2>2. CASE Commit(t)
      BY <2>2 DEF Commit, Proposed
    <2> QED
      BY <2>1, <2>2
  <1>3. /\ DOMAIN d = CallFields /\ d.tab = t /\ d.kind = kind /\ d.at \in Int /\ d.stage = "sent"
        /\ IsScope(d.scope) /\ d.session = Url(t).session /\ d.no = Url(t).no /\ d.at = Url(t).at
    BY <1>1, <1>2, NewCall
  <1>4. PICK e : /\ e = [d EXCEPT !.plan = tabs[t].form.plan, !.view = tabs[t].form.view]
                 /\ \/ kind = "preview" /\ Send(e)
                    \/ /\ kind = "accept" /\ tabs[t].form.preview.ready
                       /\ Send([e EXCEPT !.shown = tabs[t].form.preview])
    BY <1>2, Zenon
  <1>5. /\ DOMAIN e = CallFields /\ e.tab = t /\ e.kind = kind /\ e.at \in Int /\ e.stage = "sent"
        /\ IsScope(e.scope) /\ e.session = Url(t).session /\ e.no = Url(t).no /\ e.at = Url(t).at
    BY <1>3, <1>4 DEF CallFields
  <1>6. CASE kind = "preview" /\ Send(e)
    <2>1. IsCall(e)
      BY <1>5, <1>6 DEF IsCall, Commands
    <2> QED
      BY <1>1, <1>5, <1>6, <2>1
  <1>7. CASE /\ kind = "accept" /\ tabs[t].form.preview.ready
             /\ Send([e EXCEPT !.shown = tabs[t].form.preview])
    <2>1. PICK shown, c : shown = tabs[t].form.preview /\ c = [e EXCEPT !.shown = shown]
      OBVIOUS
    <2>2. /\ DOMAIN c = CallFields /\ c.tab = t /\ c.kind = kind /\ c.at \in Int
          /\ c.stage = "sent" /\ IsScope(c.scope) /\ c.shown = shown
          /\ c.session = Url(t).session /\ c.no = Url(t).no /\ c.at = Url(t).at
      BY <1>5, <2>1 DEF CallFields
    <2>3. Send(c)
      BY <1>7, <2>1, Zenon
    <2>4. IsCall(c)
      BY <1>7, <2>2 DEF IsCall, Commands
    <2>5. c.shown.ready
      BY <1>7, <2>1, <2>2
    <2> QED
      BY <1>1, <1>7, <2>1, <2>2, <2>3, <2>4, <2>5
  <1> QED
    BY <1>4, <1>6, <1>7

LEMMA PlansSent ==
    ASSUME DeskInv, NEW t \in Tab, SubmitPreview(t) \/ Commit(t)
    PROVE  DeskInv'
  <1>1. PICK c : /\ Send(c) /\ IsCall(c) /\ c.stage = "sent" /\ c.tab = t /\ On(t, "acceptance")
                 /\ c.kind \in {"preview", "accept"}
    BY PlanSent
  <1>2. CallPlaced(c)
    BY <1>1 DEF CallPlaced
  <1> QED
    BY <1>1, <1>2, Sends

LEMMA Edits ==
    ASSUME DeskInv, NEW t \in Tab, EditScope(t) \/ EditPlan(t)
    PROVE  DeskInv'
  <1>1. CASE EditScope(t)
    <2>1. PICK x \in Scopes : Keep(t, [tabs[t].form EXCEPT !.scope = x])
      BY <1>1 DEF EditScope
    <2>2. tabs[t].path.page = "scope" /\ calls' \subseteq calls /\ UNCHANGED <<rows, handed>>
      BY <1>1 DEF EditScope, On
    <2>3. PICK a, b : tabs[t].form = ScopeForm(a, b) /\ a = tabs[t].form.context /\ IsPath(a)
      BY <2>2, TabFacts, Zenon DEF FormFits, IsScopeForm
    <2>4. [ScopeForm(a, b) EXCEPT !.scope = x] = ScopeForm(a, x)
      BY DEF ScopeForm
    <2>5. Keep(t, ScopeForm(a, x))
      BY <2>1, <2>3, <2>4, Zenon
    <2>6. IsScope(x)
      BY PageAssumption DEF IsScope
    <2>7. IsScopeForm(ScopeForm(a, x)) /\ ScopeForm(a, x).context = a
      BY <2>3, <2>6 DEF IsScopeForm, ScopeForm
    <2>8. FormFits(tabs[t].path.page, ScopeForm(a, x))
      BY <2>2, <2>7 DEF FormFits
    <2>9. tabs[t].by = "save" => Opens("save", ScopeForm(a, x).context)
      BY <2>3, <2>7, TabFacts
    <2> QED
      BY <2>2, <2>5, <2>8, <2>9, Keeps
  <1>2. CASE EditPlan(t)
    <2>1. PICK form : Keep(t, form)
      BY <1>2 DEF EditPlan
    <2>2. tabs[t].path.page = "acceptance" /\ calls' \subseteq calls /\ UNCHANGED <<rows, handed>>
      BY <1>2 DEF EditPlan, Accepting, On
    <2>3. tabs[t].by # "save" /\ FormFits(tabs[t].path.page, form)
      BY <2>2, TabFacts DEF FormFits
    <2> QED
      BY <2>1, <2>2, <2>3, Keeps
  <1> QED
    BY <1>1, <1>2

LEMMA ActsKeep ==
    ASSUME DeskInv, NEW t \in Tab, Act(t) \/ Load(t)
    PROVE  DeskInv'
  BY LoadsHistory, LoadsScope, LoadsSourceOptions, LoadsReview, LoadsOthers,
     Edits, SavesSent, ReviewsSent, PlansSent DEF Act, Load

---------------------------------------------------------------------------
(* Serving.                                                                *)

LEMMA Losing ==
    ASSUME DeskInv, RowsOK', Grown, calls' \subseteq calls, tabs' = tabs, handed' = handed
    PROVE  DeskInv'
  BY TabsKept, CallsKept, HandedKept DEF DeskInv

LEMMA Composes ==
    ASSUME DeskInv, NEW c \in calls, Compose(c)
    PROVE  DeskInv'
  <1>1. /\ c.stage = "sent" /\ c.kind \in {"build", "review", "accept"} /\ UNCHANGED <<rows, tabs, handed>>
        /\ IF Composed(c).ok
           THEN calls' = (calls \ {c}) \union
                    {[c EXCEPT !.stage = "composed",
                               !.proposals = IF c.kind = "build" THEN Composed(c).body ELSE {}]}
           ELSE Drop(c)
    BY DEF Compose
  <1>2. RowsOK /\ CallsOK /\ IsCall(c) /\ CallPlaced(c)
    BY DEF DeskInv, CallsOK
  <1>3. RowsOK' /\ Grown
    BY <1>1, <1>2, NothingAdded
  <1>4. CASE ~Composed(c).ok
    <2>1. calls' \subseteq calls
      BY <1>1, <1>4 DEF Drop
    <2> QED
      BY <1>1, <1>3, <2>1, Losing
  <1>5. CASE Composed(c).ok
    <2>1. c.kind # "review"
      <3>1. ASSUME c.kind = "review" PROVE FALSE
        <4>1. c.version = 1
          BY <1>2, <3>1 DEF IsCall
        <4>2. ~ComposeReview(c).ok
          BY <4>1 DEF ComposeReview, Fail
        <4> QED
          BY <1>5, <3>1, <4>2 DEF Composed
      <3> QED
        BY <3>1
    <2>2. PICK d : d = [c EXCEPT !.stage = "composed",
                                 !.proposals = IF c.kind = "build" THEN Composed(c).body ELSE {}]
      OBVIOUS
    <2>3. calls' = (calls \ {c}) \union {d}
      BY <1>1, <1>5, <2>2, Zenon
    <2>4. /\ DOMAIN d = CallFields /\ d.tab = c.tab /\ d.kind = c.kind /\ d.session = c.session /\ d.no = c.no
          /\ d.at = c.at /\ d.stage = "composed" /\ d.scope = c.scope /\ d.plan = c.plan
          /\ d.kind = "build" => d.proposals = Composed(c).body
      BY <1>2, <2>2 DEF IsCall, CallFields
    <2>5. IsCall(d)
      BY <1>1, <1>2, <2>1, <2>4 DEF IsCall
    <2>6. CallKnown(d)
      <3>1. CASE c.kind = "build"
        <4>1. ComposeBuild(c.session, c.no, c.at, c.no, c.pools).ok
              /\ d.proposals = ComposeBuild(c.session, c.no, c.at, c.no, c.pools).body
          BY <1>5, <2>4, <3>1 DEF Composed
        <4>2. BuildComposed(d)
          BY <1>2, <2>4, <4>1, BuildIsComposed
        <4> QED
          BY <2>4, <3>1, <4>2 DEF CallKnown
      <3>2. CASE c.kind = "accept"
        <4>1. ComposeAccept(c).ok
          BY <1>5, <3>2 DEF Composed
        <4>2. AcceptComposed(c)
          BY <1>2, <4>1, AcceptIsComposed DEF IsCall
        <4>3. AcceptComposed(d)
          BY <2>4, <4>2 DEF AcceptComposed
        <4> QED
          BY <2>4, <3>2, <4>3 DEF CallKnown
      <3> QED
        BY <1>1, <2>1, <3>1, <3>2
    <2>7. CallPlaced(d)
      BY <1>1, <2>1, <2>4 DEF CallPlaced
    <2>8. ASSUME NEW e \in calls' PROVE IsCall(e) /\ CallKnown(e)' /\ CallPlaced(e)'
      <3>1. IsCall(e) /\ CallKnown(e) /\ CallPlaced(e)
        BY <2>3, <2>5, <2>6, <2>7 DEF DeskInv, CallsOK
      <3>2. CallKnown(e)'
        BY <1>2, <1>3, <3>1, CallKept
      <3>3. CallPlaced(e)'
        BY <1>1, <3>1 DEF CallPlaced, On
      <3> QED
        BY <3>1, <3>2, <3>3
    <2>9. PagesOK' /\ HandedOK'
      BY <1>1, <1>3, TabsKept, HandedKept DEF DeskInv
    <2> QED
      BY <1>3, <2>8, <2>9 DEF DeskInv, CallsOK
  <1> QED
    BY <1>4, <1>5

(* A preview that is awaited is kept by the page that it was sent from.     *)
LEMMA PreviewKept ==
    ASSUME DeskInv, NEW c \in calls, Preview(c), tabs' # tabs
    PROVE  /\ c.tab \in Tab /\ tabs[c.tab].path.page = "acceptance" /\ c.tab # Nobody /\ Composed(c).ok
           /\ \E form : /\ form = [tabs[c.tab].form EXCEPT !.preview = PreviewAnswer(c).body]
                        /\ Keep(c.tab, form)
  <1> DEFINE t == c.tab
  <1>1. t \in Tab /\ tabs[t].path.page = "acceptance" /\ t # Nobody /\ Composed(c).ok
    BY DEF Preview, DeskInv, CallsOK, IsCall, CallPlaced, On
  <1>2. PICK body : body = PreviewAnswer(c).body
    OBVIOUS
  <1>3. tabs' = [tabs EXCEPT ![t].form.preview = body]
    BY <1>2 DEF Preview
  <1>4. tabs = [u \in Tab |-> tabs[u]] /\ IsTab(tabs[t])
    BY <1>1 DEF DeskInv, PagesOK
  <1>5. PICK p, b, m, k, f :
            tabs[t] = [path |-> p, by |-> b, loaded |-> m, links |-> k, form |-> f] /\ f = tabs[t].form
    BY <1>4, Zenon DEF IsTab
  <1>6. PICK form : form = [f EXCEPT !.preview = body]
    OBVIOUS
  <1>7. tabs' = [tabs EXCEPT ![t].form = form]
    BY <1>1, <1>3, <1>4, <1>5, <1>6
  <1> QED
    BY <1>1, <1>2, <1>5, <1>6, <1>7 DEF Keep

LEMMA Previews ==
    ASSUME DeskInv, NEW c \in calls, Preview(c)
    PROVE  DeskInv'
  <1>1. calls' \subseteq calls /\ UNCHANGED <<rows, handed>>
    BY DEF Preview, Drop
  <1>2. CASE tabs' = tabs
    BY <1>1, <1>2, NothingAdded, Losing DEF DeskInv
  <1>3. CASE tabs' # tabs
    <2>1. PICK t \in Tab : tabs[t].path.page = "acceptance" /\ \E form : Keep(t, form)
      BY <1>3, PreviewKept
    <2>2. PICK form : Keep(t, form)
      BY <2>1
    <2>3. tabs[t].by # "save" /\ FormFits(tabs[t].path.page, form)
      BY <2>1, TabFacts DEF FormFits
    <2> QED
      BY <1>1, <2>2, <2>3, Keeps
  <1> QED
    BY <1>2, <1>3

LEMMA AnswersArePaths ==
    ASSUME RowsOK, NEW c, c.kind \in Commands, Answer(c).ok, NEW p, p = Answer(c).body
    PROVE  IsPath(p)
  <1>1. Settled(c) \in Int
    BY DEF Settled, RowsOK
  <1>2. \A page, s, n : IsPath(Path(page, s, n, Settled(c)))
    BY <1>1, PathFields
  <1>3. CASE c.kind = "save"
    BY <1>2, <1>3 DEF Answer, SaveAnswer, Fail, Ok
  <1>4. CASE c.kind = "prepare"
    BY <1>2, <1>4 DEF Answer, PrepareAnswer, Fail, Ok
  <1>5. CASE c.kind = "build"
    BY <1>2, <1>5 DEF Answer, BuildAnswer, Fail, Ok
  <1>6. CASE c.kind = "review"
    BY <1>2, <1>6 DEF Answer, ReviewAnswer, Fail, Ok
  <1>7. CASE c.kind = "accept"
    <2>1. PICK o : o = CHOOSE x \in Outputs(c.session, c.no) : TRUE
      OBVIOUS
    <2>2. \/ Outputs(c.session, c.no) # {} /\ p = Path("accepted", c.session, o.accepted, o.at)
          \/ p = Path("accepted", c.session, c.no + 1, Settled(c))
      BY <1>7, <2>1 DEF Answer, AcceptAnswer, Fail, Ok
    <2>3. Outputs(c.session, c.no) # {} => o.at \in Int
      BY <2>1 DEF Outputs, RowsOK, OutputsOK, OutputFits
    <2> QED
      BY <1>2, <2>2, <2>3, PathFields
  <1> QED
    BY <1>3, <1>4, <1>5, <1>6, <1>7 DEF Commands

LEMMA Writes ==
    ASSUME DeskInv, NEW c \in calls, Ready(c), Answer(c).ok, Write(c), NEW p, p = Answer(c).body
    PROVE  c.kind \in Commands /\ RowsOK' /\ Grown /\ Opens(c.kind, p)' /\ IsPath(p)
  <1>1. RowsOK /\ IsCall(c) /\ CallKnown(c)
    BY DEF DeskInv, CallsOK
  <1>2. \/ c.kind \in {"save", "prepare"}
        \/ c.kind \in {"build", "accept"} /\ c.stage = "composed"
    BY <1>1 DEF Ready, IsCall
  <1>7. c.kind \in Commands
    BY <1>2 DEF Commands
  <1>8. IsPath(p)
    BY <1>1, <1>7, AnswersArePaths
  <1>3. CASE c.kind = "save"
    <2>1. SaveAnswer(c).ok /\ SaveRows(c) /\ p = SaveAnswer(c).body
      BY <1>3 DEF Answer, Write
    <2>2. IsScope(c.scope)
      BY <1>1, <1>2, <1>3 DEF IsCall
    <2>3. RowsOK' /\ Grown /\ Opens("save", p)'
      BY <1>1, <1>3, <2>1, <2>2, Saves
    <2> QED
      BY <1>3, <1>7, <1>8, <2>3
  <1>4. CASE c.kind = "prepare"
    <2>1. PrepareAnswer(c).ok /\ PrepareRows(c) /\ p = PrepareAnswer(c).body
      BY <1>4 DEF Answer, Write
    <2>2. c.no # 0
      BY <1>1, <1>2, <1>4 DEF IsCall
    <2>3. RowsOK' /\ Grown /\ Opens("prepare", p)'
      BY <1>1, <1>4, <2>1, <2>2, Prepares
    <2> QED
      BY <1>4, <1>7, <1>8, <2>3
  <1>5. CASE c.kind = "build"
    <2>1. BuildAnswer(c).ok /\ BuildRows(c) /\ p = BuildAnswer(c).body
      BY <1>5 DEF Answer, Write
    <2>2. BuildComposed(c)
      BY <1>1, <1>2, <1>5 DEF CallKnown
    <2>3. RowsOK' /\ Grown /\ Opens("build", p)'
      BY <1>1, <1>5, <2>1, <2>2, Builds
    <2> QED
      BY <1>5, <1>7, <1>8, <2>3
  <1>6. CASE c.kind = "accept"
    <2>1. AcceptAnswer(c).ok /\ AcceptRows(c) /\ p = AcceptAnswer(c).body
      BY <1>6 DEF Answer, Write
    <2>2. AcceptComposed(c)
      BY <1>1, <1>2, <1>6 DEF CallKnown
    <2>3. RowsOK' /\ Grown /\ Opens("accept", p)'
      BY <1>1, <1>6, <2>1, <2>2, Accepts
    <2> QED
      BY <1>6, <1>7, <1>8, <2>3
  <1> QED
    BY <1>2, <1>3, <1>4, <1>5, <1>6

LEMMA LosesAnswer ==
    ASSUME DeskInv, NEW c \in calls, LoseAnswer(c)
    PROVE  DeskInv'
  <1>1. /\ Ready(c) /\ Answer(c).ok /\ Write(c) /\ calls' \subseteq calls
        /\ tabs' = tabs /\ handed' = handed
    BY DEF LoseAnswer, Drop
  <1>2. RowsOK' /\ Grown
    BY <1>1, Writes
  <1> QED
    BY <1>1, <1>2, Losing

LEMMA LosesRequest ==
    ASSUME DeskInv, NEW c \in calls, LoseRequest(c)
    PROVE  DeskInv'
  <1>1. calls' \subseteq calls /\ tabs' = tabs /\ handed' = handed /\ UNCHANGED rows
    BY DEF LoseRequest, Drop
  <1> QED
    BY <1>1, NothingAdded, Losing DEF DeskInv

(* A saved scope is edited further: its tab keeps its path.                 *)
SavedIn(t, p) == [tabs EXCEPT ![t].form.context = p, ![t].by = "save",
                              ![t].links = {p, [p EXCEPT !.page = "review"]}]

LEMMA SavedTab ==
    ASSUME PagesOK, NEW t \in Tab, On(t, "scope"), NEW p, IsPath(p), tabs' = SavedIn(t, p)
    PROVE  \E x : /\ tabs' = [tabs EXCEPT ![t] = x] /\ IsTab(x)
                  /\ x.by = "save" /\ x.form.context = p /\ x.path = tabs[t].path
  <1>1. tabs = [u \in Tab |-> tabs[u]] /\ IsTab(tabs[t]) /\ tabs[t].path.page = "scope"
    BY DEF PagesOK, On
  <1>2. PICK path, b, m, k, f :
            /\ tabs[t] = [path |-> path, by |-> b, loaded |-> m, links |-> k, form |-> f]
            /\ path = tabs[t].path /\ IsPath(path) /\ path.page = "scope" /\ IsScopeForm(f)
    <2>1. IsPath(tabs[t].path) /\ IsScopeForm(tabs[t].form)
      BY <1>1 DEF IsTab, FormFits
    <2> QED
      BY <1>1, <2>1, Zenon DEF IsTab
  <1>3. PICK a, s : f = ScopeForm(a, s) /\ IsScope(s)
    BY <1>2, Zenon DEF IsScopeForm
  <1>4. PICK links : links = {p, [p EXCEPT !.page = "review"]}
    OBVIOUS
  <1> DEFINE T(b_, k_, f_) == [path |-> path, by |-> b_, loaded |-> m, links |-> k_, form |-> f_]
             x == T("save", links, ScopeForm(p, s))
  <1>5. tabs' = [tabs EXCEPT ![t] = x]
    <2>1. [ScopeForm(a, s) EXCEPT !.context = p] = ScopeForm(p, s)
      BY DEF ScopeForm
    <2>2. [T(b, k, f) EXCEPT !.form = ScopeForm(p, s)] = T(b, k, ScopeForm(p, s))
      OBVIOUS
    <2>3. [T(b, k, ScopeForm(p, s)) EXCEPT !.by = "save"] = T("save", k, ScopeForm(p, s))
      OBVIOUS
    <2>4. [T("save", k, ScopeForm(p, s)) EXCEPT !.links = links] = x
      OBVIOUS
    <2>5. tabs[t] = T(b, k, f) /\ f = ScopeForm(a, s) /\ T(b, k, f).form = f
      BY <1>2, <1>3
    <2> HIDE DEF T
    <2>6. [tabs EXCEPT ![t].form.context = p] = [tabs EXCEPT ![t] = T(b, k, ScopeForm(p, s))]
      <3>1. [tabs[t] EXCEPT !.form.context = p] = T(b, k, ScopeForm(p, s))
        BY <2>1, <2>2, <2>5, Zenon
      <3> QED
        BY <1>1, <3>1
    <2>7. \A y, z : [[tabs EXCEPT ![t] = y] EXCEPT ![t] = z] = [tabs EXCEPT ![t] = z]
      BY <1>1
    <2>8. [[tabs EXCEPT ![t].form.context = p] EXCEPT ![t].by = "save"]
              = [tabs EXCEPT ![t] = T("save", k, ScopeForm(p, s))]
      BY <1>1, <2>3, <2>6, <2>7
    <2>9. [[tabs EXCEPT ![t].form.context = p, ![t].by = "save"] EXCEPT ![t].links = links]
              = [tabs EXCEPT ![t] = x]
      BY <1>1, <2>4, <2>7, <2>8
    <2> QED
      BY <1>4, <2>9, Zenon DEF SavedIn
  <1>6. IsTab(x)
    <2>1. IsPath([p EXCEPT !.page = "review"])
      BY DEF IsPath, Path
    <2>2. \A q \in links : IsPath(q)
      BY <1>4, <2>1
    <2>3. IsScopeForm(ScopeForm(p, s))
      BY <1>3 DEF IsScopeForm, ScopeForm
    <2>4. /\ x.path = path /\ x.by = "save" /\ x.loaded = m /\ x.links = links
          /\ x.form = ScopeForm(p, s)
      OBVIOUS
    <2>5. x = [path |-> x.path, by |-> x.by, loaded |-> x.loaded, links |-> x.links, form |-> x.form]
      OBVIOUS
    <2> HIDE DEF x
    <2>6. FormFits(x.path.page, x.form)
      BY <1>2, <2>3, <2>4 DEF FormFits
    <2> QED
      BY <1>2, <2>2, <2>4, <2>5, <2>6 DEF IsTab, Commands
  <1>7. x.by = "save" /\ x.form.context = p /\ x.path = tabs[t].path
    BY <1>2 DEF ScopeForm
  <1> HIDE DEF x
  <1> QED
    BY <1>5, <1>6, <1>7

LEMMA Runs ==
    ASSUME DeskInv, NEW c \in calls, Run(c)
    PROVE  DeskInv'
  <1>1. /\ Ready(c) /\ handed' = handed
        /\ IF Answer(c).ok THEN Write(c) ELSE UNCHANGED rows
        /\ IF c.tab # Nobody /\ Answer(c).ok
           THEN /\ tabs' = Sent(c, Answer(c).body)
                /\ calls' = IF c.kind = "save" THEN calls \ {c} ELSE Abandon(c.tab, calls \ {c})
           ELSE calls' = calls \ {c} /\ tabs' = tabs
    BY DEF Run, Drop
  <1>2. RowsOK /\ PagesOK /\ CallsOK /\ HandedOK /\ IsCall(c) /\ CallPlaced(c)
    BY DEF DeskInv, CallsOK
  <1>3. RowsOK' /\ Grown
    BY <1>1, <1>2, NothingAdded, Writes
  <1>4. CASE ~(c.tab # Nobody /\ Answer(c).ok)
    <2>1. calls' \subseteq calls /\ tabs' = tabs /\ handed' = handed
      BY <1>1, <1>4
    <2> QED
      BY <1>3, <2>1, Losing
  <1>5. CASE c.tab # Nobody /\ Answer(c).ok
    <2>1. PICK p, t : p = Answer(c).body /\ t = c.tab /\ t \in Tab
      BY <1>2, <1>5 DEF IsCall
    <2>2. c.kind \in Commands /\ Opens(c.kind, p)' /\ IsPath(p)
      BY <1>1, <1>5, <2>1, Writes
    <2>3. CASE c.kind = "save"
      <3>1. tabs' = SavedIn(t, p)
        BY <1>1, <1>5, <2>1, <2>3 DEF Sent, SavedIn
      <3>2. On(t, "scope")
        BY <1>2, <1>5, <2>1, <2>3 DEF CallPlaced
      <3>3. PICK x : /\ tabs' = [tabs EXCEPT ![t] = x] /\ IsTab(x)
                     /\ x.by = "save" /\ x.form.context = p /\ x.path = tabs[t].path
        <4>1. PagesOK /\ t \in Tab /\ IsPath(p)
          BY <1>2, <2>1, <2>2
        <4> QED
          BY <3>1, <3>2, <4>1, SavedTab
      <3>4. TabOpens(x)'
        BY <2>2, <2>3, <3>3 DEF TabOpens
      <3>5. PagesOK' /\ tabs'[t] = x /\ \A u \in Tab \ {t} : tabs'[u] = tabs[u]
        BY <1>2, <1>3, <2>1, <3>3, <3>4, TabMoves
      <3>6. calls' \subseteq calls /\ \A u \in Tab : tabs'[u].path = tabs[u].path
        BY <1>1, <1>5, <2>3, <3>3, <3>5
      <3>7. CallsOK' /\ HandedOK'
        BY <1>1, <1>2, <1>3, <3>6, CallsKept, HandedKept
      <3> QED
        BY <1>3, <3>5, <3>7 DEF DeskInv
    <2>4. CASE c.kind # "save"
      <3> DEFINE x == [Page(p) EXCEPT !.by = c.kind]
      <3>1. tabs' = [tabs EXCEPT ![t] = x] /\ calls' = Abandon(t, calls \ {c})
        BY <1>1, <1>5, <2>1, <2>4 DEF Sent
      <3>2. x = [path |-> p, by |-> c.kind, loaded |-> 0, links |-> {}, form |-> Form(p.page)]
        BY DEF Page
      <3> HIDE DEF x
      <3>3. IsTab(x) /\ x.by = c.kind /\ x.path = p
        BY <2>2, <2>4, <3>2, FreshPage DEF IsTab
      <3>4. TabOpens(x)'
        BY <2>2, <2>4, <3>3 DEF TabOpens
      <3>5. PagesOK' /\ \A u \in Tab \ {t} : tabs'[u] = tabs[u]
        BY <1>2, <1>3, <2>1, <3>1, <3>3, <3>4, TabMoves
      <3>6. CallsOK' /\ HandedOK'
        <4>1. calls \ {c} \subseteq calls
          OBVIOUS
        <4> QED
          BY <1>1, <1>2, <1>3, <2>1, <3>1, <3>5, <4>1, CallsAbandoned, HandedKept
      <3> QED
        BY <1>3, <3>5, <3>6 DEF DeskInv
    <2> QED
      BY <2>3, <2>4
  <1> QED
    BY <1>4, <1>5
---------------------------------------------------------------------------
(* Others.                                                                 *)

LEMMA Posted ==
    ASSUME DeskInv, NEW c, c.kind \in Commands, Posts(c), RowsOK', Grown,
           NEW p, p = Answer(c).body, Opens(c.kind, p)'
    PROVE  DeskInv'
  <1>1. /\ tabs' = tabs /\ calls' = calls /\ Answer(c).ok
        /\ handed' = handed \union (IF c.kind \in {"build", "review"} THEN {Link(c.kind, p)} ELSE {})
    BY DEF Posts
  <1>2. PagesOK' /\ CallsOK'
    BY <1>1, TabsKept, CallsKept DEF DeskInv
  <1>3. IsPath(p)
    BY <1>1, AnswersArePaths DEF DeskInv
  <1>4. ASSUME NEW h \in handed'
        PROVE  h.kind \in {"build", "review"} /\ IsPath(h.path) /\ Opens(h.kind, h.path)'
    <2>1. CASE h \in handed
      BY <2>1, OpensKept DEF DeskInv, HandedOK
    <2>2. CASE h \notin handed
      <3>1. c.kind \in {"build", "review"} /\ h = Link(c.kind, p)
        BY <1>1, <2>2
      <3>2. h.kind = c.kind /\ h.path = p
        BY <3>1 DEF Link
      <3> QED
        BY <1>3, <3>1, <3>2
    <2> QED
      BY <2>1, <2>2
  <1>5. HandedOK'
    BY <1>4 DEF HandedOK
  <1> QED
    BY <1>2, <1>5 DEF DeskInv

LEMMA OthersSaveOrPrepare ==
    ASSUME DeskInv, NEW s \in Sessions, OthersSave(s) \/ OthersPrepare(s)
    PROVE  DeskInv' /\ Grown /\ outputs' = outputs
  <1>1. RowsOK /\ LatestNo(s) # 0 /\ \E r \in revs : r.session = s /\ r.no = LatestNo(s)
    BY NumbersOfSession DEF DeskInv
  <1>2. CASE OthersSave(s)
    <2>1. PICK d : d = OthersCall("save", s, LatestNo(s))
      OBVIOUS
    <2>2. PICK c : c = [d EXCEPT !.scope = ScopeOf(s, LatestNo(s))]
      OBVIOUS
    <2>3. Posts(c)
      BY <1>2, <2>1, <2>2, Zenon DEF OthersSave
    <2>4. DOMAIN d = CallFields /\ d.kind = "save"
      BY <2>1, NewCall DEF OthersCall
    <2>5. c.kind = "save" /\ c.scope = ScopeOf(s, LatestNo(s))
      BY <2>2, <2>4 DEF CallFields
    <2>6. IsScope(c.scope)
      BY <1>1, <2>5, ScopesKnown
    <2>7. PICK p : p = Answer(c).body
      OBVIOUS
    <2>8. SaveAnswer(c).ok /\ SaveRows(c) /\ p = SaveAnswer(c).body
      BY <2>3, <2>5, <2>7 DEF Posts, Answer, Write
    <2>9. RowsOK' /\ Grown /\ Opens("save", p)'
      BY <1>1, <2>5, <2>6, <2>8, Saves
    <2>10. outputs' = outputs
      BY <2>8 DEF SaveRows
    <2> QED
      BY <2>3, <2>5, <2>7, <2>9, <2>10, Posted DEF Commands
  <1>3. CASE OthersPrepare(s)
    <2>1. PICK c : c = OthersCall("prepare", s, LatestNo(s))
      OBVIOUS
    <2>2. Posts(c)
      BY <1>3, <2>1 DEF OthersPrepare
    <2>3. c.kind = "prepare" /\ c.no = LatestNo(s)
      BY <2>1, NewCall DEF OthersCall, Path
    <2>4. PICK p : p = Answer(c).body
      OBVIOUS
    <2>5. PrepareAnswer(c).ok /\ PrepareRows(c) /\ p = PrepareAnswer(c).body
      BY <2>2, <2>3, <2>4 DEF Posts, Answer, Write
    <2>6. RowsOK' /\ Grown /\ Opens("prepare", p)'
      BY <1>1, <2>3, <2>5, Prepares
    <2>7. outputs' = outputs
      BY <2>5 DEF PrepareRows
    <2> QED
      BY <2>2, <2>3, <2>4, <2>6, <2>7, Posted DEF Commands
  <1> QED
    BY <1>2, <1>3

LEMMA OthersBuildOrReview ==
    ASSUME DeskInv, NEW s \in Sessions, OthersBuild(s) \/ OthersReview(s)
    PROVE  DeskInv' /\ Grown /\ outputs' = outputs
  <1>1. RowsOK
    BY DEF DeskInv
  <1>2. CASE OthersBuild(s)
    <2>1. PICK chosen, composed :
              /\ composed = ComposeBuild(s, LatestNo(s), now, LatestNo(s), chosen) /\ composed.ok
              /\ Posts([OthersCall("build", s, LatestNo(s)) EXCEPT !.proposals = composed.body])
      BY <1>2 DEF OthersBuild
    <2>2. PICK d : d = OthersCall("build", s, LatestNo(s))
      OBVIOUS
    <2>3. PICK c : c = [d EXCEPT !.proposals = composed.body]
      OBVIOUS
    <2>4. Posts(c)
      BY <2>1, <2>2, <2>3, Zenon
    <2>5. DOMAIN d = CallFields /\ d.kind = "build" /\ d.session = s /\ d.no = LatestNo(s)
      BY <2>2, NewCall DEF OthersCall, Path
    <2>6. c.kind = "build" /\ c.session = s /\ c.no = LatestNo(s) /\ c.proposals = composed.body
      BY <2>3, <2>5 DEF CallFields
    <2>7. BuildComposed(c)
      BY <1>1, <2>1, <2>6, BuildIsComposed
    <2>8. PICK p : p = Answer(c).body
      OBVIOUS
    <2>9. BuildAnswer(c).ok /\ BuildRows(c) /\ p = BuildAnswer(c).body
      BY <2>4, <2>6, <2>8 DEF Posts, Answer, Write
    <2>10. RowsOK' /\ Grown /\ Opens("build", p)'
      BY <1>1, <2>6, <2>7, <2>9, Builds
    <2>11. outputs' = outputs
      BY <2>9 DEF BuildRows
    <2> QED
      BY <2>4, <2>6, <2>8, <2>10, <2>11, Posted DEF Commands
  <1>3. CASE OthersReview(s)
    <2>1. PICK selected \in SUBSET Candidates(s) :
              Posts([OthersCall("review", s, LatestNo(s)) EXCEPT !.version = 2, !.decided = Candidates(s),
                                                                 !.selected = selected])
      BY <1>3 DEF OthersReview
    <2>2. PICK d : d = OthersCall("review", s, LatestNo(s))
      OBVIOUS
    <2>3. PICK c : c = [d EXCEPT !.version = 2, !.decided = Candidates(s), !.selected = selected]
      OBVIOUS
    <2>4. Posts(c)
      BY <2>1, <2>2, <2>3, Zenon
    <2>5. DOMAIN d = CallFields /\ d.kind = "review" /\ d.session = s
      BY <2>2, NewCall DEF OthersCall, Path
    <2>6. c.kind = "review" /\ c.session = s /\ c.selected = selected
      BY <2>3, <2>5 DEF CallFields
    <2>7. PICK p : p = Answer(c).body
      OBVIOUS
    <2>8. ReviewAnswer(c).ok /\ ReviewRows(c) /\ p = ReviewAnswer(c).body
      BY <2>4, <2>6, <2>7 DEF Posts, Answer, Write
    <2>9. RowsOK' /\ Grown /\ Opens("review", p)'
      BY <1>1, <2>6, <2>8, Reviews
    <2>10. outputs' = outputs
      BY <2>8 DEF ReviewRows
    <2> QED
      BY <2>4, <2>6, <2>7, <2>9, <2>10, Posted DEF Commands
  <1> QED
    BY <1>2, <1>3

LEMMA OthersKeep ==
    ASSUME DeskInv, Others
    PROVE  DeskInv' /\ Grown /\ outputs' = outputs
  <1>1. CASE OthersAssess
    <2>1. PICK at \in {now, now + 1} :
              \/ \E c \in Pooled, v \in Status : AssessRows(c, v, at)
              \/ \E p \in pools : PoolRows(p.id, at)
      BY <1>1 DEF OthersAssess
    <2>2. RowsOK' /\ Grown /\ outputs' = outputs
      BY <2>1, Assesses, Pools DEF DeskInv, AssessRows, PoolRows
    <2>3. calls' \subseteq calls /\ tabs' = tabs /\ handed' = handed
      BY <1>1 DEF OthersAssess
    <2> QED
      BY <2>2, <2>3, Losing
  <1>2. CASE \E s \in Sessions : OthersSave(s) \/ OthersPrepare(s) \/ OthersBuild(s) \/ OthersReview(s)
    BY <1>2, OthersSaveOrPrepare, OthersBuildOrReview
  <1> QED
    BY <1>1, <1>2 DEF Others

---------------------------------------------------------------------------
(* The desk.                                                               *)

LEMMA DeskStarts == Init => DeskInv
  <1> SUFFICES ASSUME Init PROVE DeskInv
    OBVIOUS
  <1>1. PICK h \in Beginning : RowsInit(h)
    BY DEF Init
  <1>2. RowsOK /\ now = 4
    BY <1>1, HistoriesFit DEF RowsInit
  <1>3. PagesOK
    <2>1. PICK p : p = Path("history", 0, 0, now)
      OBVIOUS
    <2>2. IsPath(p)
      BY <1>2, <2>1, PathFields
    <2>3. IsTab(Page(p)) /\ Page(p).by = "link"
      BY <2>2, FreshPage
    <2>4. tabs = [t \in Tab |-> Page(p)]
      BY <2>1 DEF Init
    <2> QED
      BY <2>3, <2>4 DEF PagesOK, TabOpens
  <1>4. CallsOK
    BY DEF Init, CallsOK
  <1>5. ASSUME NEW x \in handed
        PROVE  x.kind \in {"build", "review"} /\ IsPath(x.path) /\ Opens(x.kind, x.path)
    <2>1. PICK c \in cands :
              x = IF c.state = "proposed" THEN Link("build", Path("review", c.session, c.bound, c.at))
                  ELSE Link("review", Path("result", c.session, c.bound, c.at))
      BY DEF Init
    <2>2. /\ \A d \in cands : \/ d.state = "proposed" /\ d.session = 1 /\ d.bound = 1 /\ d.at = 2
                              \/ d.state = "selected" /\ d.session = 1 /\ d.bound = 2 /\ d.at = 4 /\ Reviewed(h)
          /\ h # "empty"
      <3>1. /\ \A d \in FirstCandidates(1, 1, "proposed", 2) :
                   d.state = "proposed" /\ d.session = 1 /\ d.bound = 1 /\ d.at = 2
            /\ \A d \in FirstCandidates(2, 2, "selected", 4) :
                   d.state = "selected" /\ d.session = 1 /\ d.bound = 2 /\ d.at = 4
        BY DEF FirstCandidates
      <3>2. /\ h \in {"empty", "ready"} /\ ~Reviewed(h) => cands = {}
            /\ Reviewed(h) \/ cands \subseteq FirstCandidates(1, 1, "proposed", 2)
            /\ cands \subseteq FirstCandidates(1, 1, "proposed", 2) \union FirstCandidates(2, 2, "selected", 4)
        BY <1>1 DEF RowsInit
      <3>3. h \in {"empty", "ready"} => ~Reviewed(h)
        BY DEF Reviewed
      <3> QED
        BY <3>1, <3>2, <3>3
    <2>3. /\ \E r \in revs : r.session = 1 /\ r.no = 1 /\ r.at = 1 /\ r.workflow = "ready"
          /\ Reviewed(h) => \E r \in revs : r.session = 1 /\ r.no = 2 /\ r.at = 3 /\ r.workflow = "reviewed"
      <3>1. FirstRevision(1, "ready", 1) \in revs /\ (Reviewed(h) => FirstRevision(2, "reviewed", 3) \in revs)
        <4>1. h # "empty" /\ RowsInit(h)
          BY <1>1, <2>2
        <4>2. revs = {FirstRevision(1, "ready", 1)}
                     \union (IF Reviewed(h) THEN {FirstRevision(2, "reviewed", 3)} ELSE {})
          BY <4>1 DEF RowsInit
        <4> QED
          BY <4>2
      <3>2. \A n, w, b : /\ FirstRevision(n, w, b).session = 1 /\ FirstRevision(n, w, b).no = n
                         /\ FirstRevision(n, w, b).workflow = w /\ FirstRevision(n, w, b).at = b
        BY DEF FirstRevision
      <3> QED
        BY <3>1, <3>2
    <2>4. CASE c.state = "proposed"
      <3>1. PICK p : p = Path("review", 1, 1, 2)
        OBVIOUS
      <3>2. p.session = 1 /\ p.no = 1 /\ p.at = 2 /\ IsPath(p)
        BY <3>1, PathFields
      <3>3. x.kind = "build" /\ x.path = p
        BY <2>1, <2>2, <2>4, <3>1 DEF Link
      <3>4. \A d \in cands : d.session = 1 /\ d.bound = 1 => d.at = 2
        BY <2>2
      <3>5. c.session = 1 /\ c.bound = 1
        BY <2>2, <2>4
      <3>6. Opens("build", p)
        BY <2>3, <3>2, <3>4, <3>5 DEF Opens, Visible
      <3> QED
        BY <3>2, <3>3, <3>6
    <2>5. CASE c.state # "proposed"
      <3>1. PICK p : p = Path("result", 1, 2, 4)
        OBVIOUS
      <3>2. p.session = 1 /\ p.no = 2 /\ p.at = 4 /\ IsPath(p)
        BY <3>1, PathFields
      <3>3. x.kind = "review" /\ x.path = p /\ Reviewed(h)
        BY <2>1, <2>2, <2>5, <3>1 DEF Link
      <3>4. \A d \in cands : d.session = 1 /\ d.bound = 2 => d.at = 4
        BY <2>2
      <3>5. Opens("review", p)
        BY <2>3, <3>2, <3>3, <3>4 DEF Opens, Visible
      <3> QED
        BY <3>2, <3>3, <3>5
    <2> QED
      BY <2>4, <2>5
  <1> QED
    BY <1>2, <1>3, <1>4, <1>5 DEF DeskInv, HandedOK

LEMMA DeskSteps == DeskInv /\ [Next]_vars => DeskInv'
  <1> SUFFICES ASSUME DeskInv, [Next]_vars PROVE DeskInv'
    OBVIOUS
  <1>1. CASE Next
    <2>1. CASE \E t \in Tab : OpenHistory(t) \/ Follow(t) \/ OpenHanded(t) \/ Load(t) \/ Act(t)
      BY <2>1, Moves, ActsKeep
    <2>2. CASE \E c \in calls : Serve(c)
      BY <2>2, Composes, Previews, Runs, LosesRequest, LosesAnswer DEF Serve
    <2>3. CASE Others
      BY <2>3, OthersKeep
    <2> QED
      BY <1>1, <2>1, <2>2, <2>3 DEF Next
  <1>2. CASE UNCHANGED vars
    <2>1. UNCHANGED rows /\ tabs' = tabs /\ calls' \subseteq calls /\ handed' = handed
      BY <1>2 DEF vars
    <2> QED
      BY <2>1, NothingAdded, Losing DEF DeskInv
  <1> QED
    BY <1>1, <1>2
---------------------------------------------------------------------------
(* What was shown.  A preview's rows stay known by their numbers: of a       *)
(* company or a pool that is built on, the revisions up to the one the plan  *)
(* names, and of one that is reused, that one.  Rows that are added later    *)
(* have greater numbers.                                                   *)

Named(i, x) == IF i.op = "reuse" THEN x.no = i.no ELSE x.no <= i.no

OwnersUpTo(plan) ==
    {o \in owners : \E k \in DOMAIN plan.bindings : k.company = o.company /\ Named(plan.bindings[k], o)}
PoolsUpTo(plan) ==
    {p \in pools : plan.pool.op \in {"append", "reuse"} /\ p.id = plan.pool.id /\ Named(plan.pool, p)}
UpTo(plan) == [owners |-> OwnersUpTo(plan), pools |-> PoolsUpTo(plan)]

(* The plan names revisions that there are.                                 *)
OwnersStand(plan) ==
    \A k \in DOMAIN plan.bindings :
        /\ plan.bindings[k].no \in Nat
        /\ plan.bindings[k].no = 0 \/ \E o \in OwnersOf(k.company) : o.no = plan.bindings[k].no
PoolStands(plan) ==
    plan.pool.op \in {"append", "reuse"} =>
        plan.pool.no \in Nat /\ \E p \in pools : p.id = plan.pool.id /\ p.no = plan.pool.no
Stands(plan) == OwnersStand(plan) /\ PoolStands(plan)

LEMMA StandsKept ==
    ASSUME RowsOK, RowsOK', Grown, NEW plan, Stands(plan)
    PROVE  Stands(plan)' /\ UpTo(plan)' = UpTo(plan)
  <1>1. \A k : OwnersOf(k) \subseteq OwnersOf(k)'
    BY DEF OwnersOf, Grown
  <1>2. Stands(plan)'
    BY <1>1 DEF Stands, OwnersStand, PoolStands, Grown
  <1>3. ASSUME NEW x \in owners' \ owners, NEW k \in DOMAIN plan.bindings, k.company = x.company
        PROVE  ~Named(plan.bindings[k], x)
    <2>1. PICK i : i = plan.bindings[k]
      OBVIOUS
    <2>2. i.no \in Nat /\ (i.no = 0 \/ \E o \in OwnersOf(k.company) : o.no = i.no)
      BY <2>1 DEF Stands, OwnersStand
    <2>3. x.no \in Nat \ {0}
      <3>1. x.no \in OwnerNos(x.company)'
        BY DEF OwnerNos, OwnersOf
      <3>2. Chained(OwnerNos(x.company))'
        BY DEF RowsOK, OwnersOK
      <3> QED
        BY <3>1, <3>2 DEF Chained
    <2>4. i.no < x.no
      BY <1>3, <2>2, <2>3 DEF OwnersOf, Grown
    <2> QED
      BY <2>1, <2>2, <2>3, <2>4 DEF Named
  <1>4. OwnersUpTo(plan)' = OwnersUpTo(plan)
    BY <1>3 DEF OwnersUpTo, Grown
  <1>5. ASSUME NEW q \in pools' \ pools, plan.pool.op \in {"append", "reuse"}, q.id = plan.pool.id
        PROVE  ~Named(plan.pool, q)
    <2>1. plan.pool.no \in Nat /\ plan.pool.no < q.no /\ q.no \in Nat
      BY <1>5 DEF Stands, PoolStands, Grown
    <2> QED
      BY <2>1 DEF Named
  <1>6. PoolsUpTo(plan)' = PoolsUpTo(plan)
    BY <1>5 DEF PoolsUpTo, Grown
  <1> QED
    BY <1>2, <1>4, <1>6 DEF UpTo

(* A plan that the owners allow builds on just these rows.                  *)
LEMMA AllowedStands ==
    ASSUME RowsOK, NEW c, AcceptComposed(c), OwnersAllow(c.plan)
    PROVE  Stands(c.plan) /\ Underlying(c.plan) = UpTo(c.plan)
  <1>1. PICK plan : plan = c.plan
    OBVIOUS
  <1>2. ASSUME NEW k \in DOMAIN plan.bindings
        PROVE  /\ plan.bindings[k].no \in Nat
               /\ plan.bindings[k].no = 0 \/ \E o \in OwnersOf(k.company) : o.no = plan.bindings[k].no
               /\ \A o \in OwnersOf(k.company) :
                      Named(plan.bindings[k], o) <=> (plan.bindings[k].op = "reuse" => o.no = plan.bindings[k].no)
    <2>1. PICK i : i = plan.bindings[k]
      OBVIOUS
    <2>2. /\ i.op \in {"reuse", "append", "create"} /\ i.no \in Nat /\ (i.op = "create" => i.no = 0)
          /\ i.op = "append" => \E o \in OwnersOf(k.company) : o.no = i.no
          /\ Unmoved(k.company, i)
      BY <1>1, <2>1 DEF AcceptComposed, OwnersAllow
    <2>3. CASE i.op = "create"
      <3>1. OwnersOf(k.company) = {}
        BY <2>2, <2>3 DEF Unmoved
      <3> QED
        BY <2>1, <2>2, <2>3, <3>1
    <2>4. CASE i.op = "append"
      <3>1. Greatest(OwnerNos(k.company)) = i.no
        BY <2>2, <2>4 DEF Unmoved, OwnerNos
      <3>2. Chained(OwnerNos(k.company))
        BY DEF RowsOK, OwnersOK
      <3>3. \A n \in OwnerNos(k.company) : n <= i.no
        <4>1. OwnerNos(k.company) = 1..i.no
          BY <3>1, <3>2, ChainTop
        <4> QED
          BY <4>1, <2>2
      <3>4. \A o \in OwnersOf(k.company) : o.no <= i.no
        BY <3>3 DEF OwnerNos
      <3> QED
        BY <2>1, <2>2, <2>4, <3>4 DEF Named
    <2>5. CASE i.op = "reuse"
      BY <2>1, <2>2, <2>5 DEF Unmoved, Named
    <2> QED
      BY <2>2, <2>3, <2>4, <2>5
  <1>3. OwnersUpTo(plan) = Underlying(plan).owners
    BY <1>2 DEF OwnersUpTo, Underlying, OwnersOf
  <1>4. PoolStands(plan) /\ \A p \in pools :
            plan.pool.op \in {"append", "reuse"} /\ p.id = plan.pool.id =>
                (Named(plan.pool, p) <=> (plan.pool.op = "reuse" => p.no = plan.pool.no))
    <2>1. PICK i : i = plan.pool
      OBVIOUS
    <2>2. /\ i.op = "append" => i.no \in Nat /\ \E p \in pools : p.id = i.id /\ p.no = i.no
          /\ i.op = "append" => Greatest(PoolNos(i.id)) = i.no
          /\ i.op = "reuse" => \E p \in pools : p.id = i.id /\ p.no = i.no
      BY <1>1, <2>1 DEF AcceptComposed, OwnersAllow, LatestPoolNo, PoolNos
    <2>3. CASE i.op = "append"
      <3>1. Chained(PoolNos(i.id))
        BY DEF RowsOK, PoolsOK
      <3>2. \A n \in PoolNos(i.id) : n <= i.no
        <4>1. PoolNos(i.id) = 1..i.no
          BY <2>2, <2>3, <3>1, ChainTop
        <4> QED
          BY <4>1, <2>2, <2>3
      <3>3. \A p \in pools : p.id = i.id => p.no <= i.no
        BY <3>2 DEF PoolNos
      <3> QED
        BY <2>1, <2>2, <2>3, <3>3 DEF PoolStands, Named
    <2>4. CASE i.op # "append"
      BY <2>1, <2>2, <2>4, NumbersAreNumbers DEF PoolStands, Named
    <2> QED
      BY <2>3, <2>4
  <1>5. PoolsUpTo(plan) = Underlying(plan).pools
    BY <1>4 DEF PoolsUpTo, Underlying
  <1>6. Underlying(plan) = [owners |-> Underlying(plan).owners, pools |-> Underlying(plan).pools]
    BY DEF Underlying
  <1>7. OwnersStand(plan)
    BY <1>2 DEF OwnersStand
  <1> QED
    BY <1>1, <1>3, <1>4, <1>5, <1>6, <1>7 DEF Stands, UpTo

(* A ready preview is of the page u that it is shown on, or named by.       *)
ShownFits(p, u) ==
    p.ready =>
        /\ p.of = Path("acceptance", u.session, u.no, u.at)
        /\ Stands(p.plan) /\ p.found = UpTo(p.plan)

TabShows(x) ==
    x.path.page = "acceptance" => "preview" \in DOMAIN x.form /\ ShownFits(x.form.preview, x.path)

(* A preview under way is the page's that awaits it.                        *)
CallShows(c) == c.kind = "accept" => c.shown.ready /\ ShownFits(c.shown, c)
CallOf(c, u) == c.session = u.session /\ c.no = u.no /\ c.at = u.at
CallPaged(c) == c.kind = "preview" /\ c.tab # Nobody => CallOf(c, Url(c.tab))

TabsShow == \A t \in Tab : TabShows(tabs[t])
CallsShow == \A c \in calls : CallShows(c) /\ CallPaged(c)
ShownOK == TabsShow /\ CallsShow

LEMMA ShownKept ==
    ASSUME RowsOK, RowsOK', Grown
    PROVE  /\ \A p, u : ShownFits(p, u) => ShownFits(p, u)'
           /\ \A x : TabShows(x) => TabShows(x)'
           /\ \A c : CallShows(c) => CallShows(c)'
  <1>1. ASSUME NEW p, NEW u, ShownFits(p, u) PROVE ShownFits(p, u)'
    <2>1. CASE ~p.ready
      BY <2>1 DEF ShownFits
    <2>2. CASE p.ready
      <3>1. PICK plan : plan = p.plan
        OBVIOUS
      <3>2. Stands(plan) /\ p.found = UpTo(plan) /\ p.of = Path("acceptance", u.session, u.no, u.at)
        BY <1>1, <2>2, <3>1 DEF ShownFits
      <3>3. Stands(plan)' /\ UpTo(plan)' = UpTo(plan)
        BY <3>2, StandsKept
      <3>4. Stands(p.plan)' /\ p.found = UpTo(p.plan)'
        BY <3>1, <3>2, <3>3
      <3> QED
        BY <3>2, <3>4 DEF ShownFits, Path
    <2> QED
      BY <2>1, <2>2
  <1>2. ASSUME NEW x, TabShows(x) PROVE TabShows(x)'
    BY <1>1, <1>2 DEF TabShows
  <1>3. ASSUME NEW c, CallShows(c) PROVE CallShows(c)'
    BY <1>1, <1>3 DEF CallShows
  <1> QED
    BY <1>1, <1>2, <1>3

(* The calls of a step: some stay, others are left by the page of t, and     *)
(* new ones fit.                                                            *)
LEMMA SamePages ==
    ASSUME RowsOK, RowsOK', Grown, ShownOK, tabs' = tabs,
           \A c \in calls' : c \in calls \/ (CallShows(c) /\ CallPaged(c))
    PROVE  ShownOK'
  <1>1. ASSUME NEW t \in Tab PROVE TabShows(tabs[t])'
    <2>1. PICK x : x = tabs[t]
      OBVIOUS
    <2>2. TabShows(x)'
      BY <2>1, ShownKept DEF ShownOK, TabsShow
    <2> QED
      BY <2>1, <2>2
  <1>2. ASSUME NEW c \in calls' PROVE CallShows(c)' /\ CallPaged(c)'
    <2>1. CallShows(c) /\ CallPaged(c)
      BY DEF ShownOK, CallsShow
    <2>2. CallShows(c)'
      BY <2>1, ShownKept
    <2>3. CallPaged(c)'
      BY <2>1 DEF CallPaged, CallOf, Url
    <2> QED
      BY <2>2, <2>3
  <1> QED
    BY <1>1, <1>2 DEF ShownOK, TabsShow, CallsShow

(* One page changes, in place or for another.                               *)
LEMMA OnePage ==
    ASSUME RowsOK, RowsOK', Grown, DeskInv, ShownOK, NEW t \in Tab, NEW x, TabShows(x)',
           tabs' = [tabs EXCEPT ![t] = x],
           \/ x.path = tabs[t].path /\ calls' \subseteq calls
           \/ \E S \in SUBSET calls : calls' = Abandon(t, S)
    PROVE  ShownOK'
  <1>1. tabs'[t] = x /\ \A u \in Tab \ {t} : tabs'[u] = tabs[u]
    BY DEF DeskInv, PagesOK
  <1>2. ASSUME NEW u \in Tab PROVE TabShows(tabs[u])'
    <2>1. CASE u = t
      BY <1>1, <2>1
    <2>2. CASE u # t
      <3>1. PICK y : y = tabs[u]
        OBVIOUS
      <3>2. TabShows(y)' /\ tabs'[u] = y
        BY <1>1, <2>2, <3>1, ShownKept DEF ShownOK, TabsShow
      <3> QED
        BY <3>2
    <2> QED
      BY <2>1, <2>2
  <1>3. ASSUME NEW d \in calls' PROVE CallShows(d)' /\ CallPaged(d)'
    <2>1. CASE x.path = tabs[t].path /\ calls' \subseteq calls
      <3>1. CallShows(d) /\ CallPaged(d) /\ IsCall(d)
        BY <2>1 DEF ShownOK, CallsShow, DeskInv, CallsOK
      <3>2. d.tab # Nobody => tabs'[d.tab].path = tabs[d.tab].path
        BY <1>1, <2>1, <3>1 DEF IsCall
      <3>3. CallPaged(d)'
        BY <3>1, <3>2 DEF CallPaged, CallOf, Url
      <3> QED
        BY <3>1, <3>3, ShownKept
    <2>2. CASE \E S \in SUBSET calls : calls' = Abandon(t, S)
      <3>1. PICK S \in SUBSET calls : calls' = Abandon(t, S)
        BY <2>2
      <3>2. CASE d \in S /\ d.tab # t
        <4>1. CallShows(d) /\ CallPaged(d) /\ IsCall(d)
          BY <3>2 DEF ShownOK, CallsShow, DeskInv, CallsOK
        <4>2. d.tab # Nobody => tabs'[d.tab] = tabs[d.tab]
          BY <1>1, <3>2, <4>1 DEF IsCall
        <4>3. CallPaged(d)'
          BY <4>1, <4>2 DEF CallPaged, CallOf, Url
        <4> QED
          BY <4>1, <4>3, ShownKept
      <3>3. CASE \E c \in S : d = Orphan(c)
        <4>1. PICK c \in S : d = Orphan(c)
          BY <3>3
        <4>2. CallShows(c) /\ IsCall(c)
          BY DEF ShownOK, CallsShow, DeskInv, CallsOK
        <4>3. /\ d.tab = Nobody /\ d.kind = c.kind /\ d.session = c.session /\ d.no = c.no
              /\ d.at = c.at /\ d.shown = c.shown
          BY <4>1, <4>2 DEF Orphan, IsCall, CallFields
        <4>4. CallShows(d) /\ CallPaged(d)'
          BY <4>2, <4>3 DEF CallShows, ShownFits, CallPaged
        <4> QED
          BY <4>4, ShownKept
      <3> QED
        BY <3>1, <3>2, <3>3 DEF Abandon
    <2> QED
      BY <2>1, <2>2
  <1> QED
    BY <1>2, <1>3 DEF ShownOK, TabsShow, CallsShow

(* A page that has just been opened shows no preview.                       *)
LEMMA FreshShows ==
    ASSUME NEW p, NEW x, x.path = p, x.form = Form(p.page)
    PROVE  TabShows(x)'
  <1>1. Form("acceptance").preview = NoPreview /\ "preview" \in DOMAIN Form("acceptance")
    BY DEF Form, AcceptanceForm
  <1>2. ~NoPreview.ready
    BY DEF NoPreview
  <1> QED
    BY <1>1, <1>2 DEF TabShows, ShownFits

---------------------------------------------------------------------------
(* Every step keeps what was shown.                                         *)

LEMMA VisitsShow ==
    ASSUME DeskInv, ShownOK, NEW t \in Tab, OpenHistory(t) \/ Follow(t) \/ OpenHanded(t)
    PROVE  ShownOK' /\ UNCHANGED rows
  <1>1. PICK p : Visit(t, p)
    BY DEF OpenHistory, Follow, OpenHanded
  <1>2. PICK x : x = Page(p)
    OBVIOUS
  <1>3. x.path = p /\ x.form = Form(p.page)
    BY <1>2 DEF Page
  <1>4. tabs' = [tabs EXCEPT ![t] = x] /\ calls' = Abandon(t, calls) /\ UNCHANGED rows
    BY <1>1, <1>2 DEF Visit
  <1>5. RowsOK /\ RowsOK' /\ Grown
    BY <1>4, NothingAdded DEF DeskInv
  <1>6. TabShows(x)'
    BY <1>3, FreshShows
  <1>7. \E S \in SUBSET calls : calls' = Abandon(t, S)
    BY <1>4
  <1> QED
    BY <1>4, <1>5, <1>6, <1>7, OnePage

(* A page that loads shows no other preview than before.                    *)
LEMMA LoadsShow ==
    ASSUME DeskInv, ShownOK, NEW t \in Tab, Load(t)
    PROVE  ShownOK' /\ UNCHANGED rows
  <1>1. PICK n, links, form :
            /\ Loaded(t, n, links, form)
            /\ On(t, "acceptance") =>
                   form = tabs[t].form \/ \E view : form = AcceptanceForm(view, NoPlan)
    <2>1. CASE LoadHistory(t)
      BY <2>1 DEF LoadHistory
    <2>2. CASE LoadScope(t)
      BY <2>2 DEF LoadScope, GiveUp, On
    <2>3. CASE LoadSourceOptions(t)
      BY <2>3 DEF LoadSourceOptions, GiveUp, On
    <2>4. CASE LoadUniverse(t)
      BY <2>4 DEF LoadUniverse, On
    <2>5. CASE LoadReviewView(t)
      BY <2>5 DEF LoadReviewView, GiveUp, On
    <2>6. CASE LoadResult(t)
      BY <2>6 DEF LoadResult, GiveUp, On
    <2>7. CASE LoadAcceptance(t)
      BY <2>7 DEF LoadAcceptance, GiveUp
    <2>8. CASE LoadAccepted(t)
      BY <2>8 DEF LoadAccepted, On
    <2> QED
      BY <2>1, <2>2, <2>3, <2>4, <2>5, <2>6, <2>7, <2>8 DEF Load
  <1>2. PICK x : x = [path |-> tabs[t].path, by |-> tabs[t].by, loaded |-> n, links |-> links, form |-> form]
    OBVIOUS
  <1>3. tabs' = [tabs EXCEPT ![t] = x] /\ x.path = tabs[t].path /\ x.form = form
    BY <1>1, <1>2, LoadedTab
  <1>4. calls' = calls /\ UNCHANGED rows
    BY <1>1 DEF Loaded
  <1>5. RowsOK /\ RowsOK' /\ Grown
    BY <1>4, NothingAdded DEF DeskInv
  <1>6. TabShows(x)
    <2>1. CASE x.path.page # "acceptance"
      BY <2>1 DEF TabShows
    <2>2. CASE form = tabs[t].form
      BY <1>3, <2>2 DEF ShownOK, TabsShow, TabShows
    <2>3. CASE \E view : form = AcceptanceForm(view, NoPlan)
      <3>1. form.preview = NoPreview /\ "preview" \in DOMAIN form
        BY <2>3 DEF AcceptanceForm
      <3> QED
        BY <1>3, <3>1 DEF TabShows, ShownFits, NoPreview
    <2> QED
      BY <1>1, <1>3, <2>1, <2>2, <2>3 DEF On
  <1>7. TabShows(x)'
    BY <1>5, <1>6, ShownKept
  <1> QED
    BY <1>3, <1>4, <1>5, <1>7, OnePage

LEMMA EditsShow ==
    ASSUME DeskInv, ShownOK, NEW t \in Tab, EditScope(t) \/ EditPlan(t)
    PROVE  ShownOK' /\ UNCHANGED rows
  <1>1. PICK form : /\ Keep(t, form)
                    /\ On(t, "acceptance") => \E view, plan : form = AcceptanceForm(view, plan)
    BY DEF EditScope, EditPlan, On
  <1>2. calls' = calls /\ UNCHANGED rows
    BY DEF EditScope, EditPlan
  <1>3. PICK x : x = [path |-> tabs[t].path, by |-> tabs[t].by, loaded |-> tabs[t].loaded,
                      links |-> tabs[t].links, form |-> form]
    OBVIOUS
  <1>4. tabs' = [tabs EXCEPT ![t] = x] /\ x.path = tabs[t].path /\ x.form = form
    BY <1>1, <1>3, KeptTab
  <1>5. RowsOK /\ RowsOK' /\ Grown
    BY <1>2, NothingAdded DEF DeskInv
  <1>6. TabShows(x)
    <2>1. CASE ~On(t, "acceptance")
      BY <1>4, <2>1 DEF TabShows, On
    <2>2. CASE \E view, plan : form = AcceptanceForm(view, plan)
      <3>1. form.preview = NoPreview /\ "preview" \in DOMAIN form
        BY <2>2 DEF AcceptanceForm
      <3> QED
        BY <1>4, <3>1 DEF TabShows, ShownFits, NoPreview
    <2> QED
      BY <1>1, <2>1, <2>2
  <1>7. TabShows(x)'
    BY <1>5, <1>6, ShownKept
  <1> QED
    BY <1>2, <1>4, <1>5, <1>7, OnePage

(* What is sent is no commit, or one of a preview that is shown as ready.   *)
LEMMA SendsShow ==
    ASSUME DeskInv, ShownOK, NEW t \in Tab,
           \/ SaveScope(t) \/ Prepare(t) \/ Build(t) \/ SubmitReview(t) \/ SubmitPreview(t) \/ Commit(t)
    PROVE  ShownOK' /\ UNCHANGED rows
  <1>1. PICK c : Send(c) /\ CallShows(c) /\ CallPaged(c)
    <2>1. CASE SaveScope(t) \/ Prepare(t) \/ Build(t) \/ SubmitReview(t)
      <3>1. PICK c : Send(c) /\ c.kind \in {"save", "prepare", "build", "review"}
        <4>1. CASE SaveScope(t)
          BY <4>1 DEF SaveScope, Call
        <4>2. CASE Prepare(t)
          BY <4>2 DEF Prepare, Call
        <4>3. CASE Build(t)
          BY <4>3 DEF Build, Call
        <4>4. CASE SubmitReview(t)
          <5>1. PICK d : d = [Call(t, "review", Url(t)) EXCEPT !.version = 1]
            OBVIOUS
          <5>2. PICK c : c = [d EXCEPT !.decided = tabs[t].form.cards]
            OBVIOUS
          <5>3. c.kind = "review"
            BY <5>1, <5>2 DEF Call
          <5>4. Send(c)
            BY <4>4, <5>1, <5>2, Zenon DEF SubmitReview
          <5> QED
            BY <5>3, <5>4
        <4> QED
          BY <2>1, <4>1, <4>2, <4>3, <4>4
      <3> QED
        BY <3>1 DEF CallShows, CallPaged
    <2>2. CASE SubmitPreview(t) \/ Commit(t)
      <3>1. PICK c : /\ Send(c) /\ c.tab = t /\ On(t, "acceptance")
                     /\ c.session = Url(t).session /\ c.no = Url(t).no /\ c.at = Url(t).at
                     /\ \/ c.kind = "preview"
                        \/ c.kind = "accept" /\ c.shown = tabs[t].form.preview /\ c.shown.ready
        BY <2>2, PlanSent
      <3>2. CallPaged(c)
        BY <3>1 DEF CallPaged, CallOf
      <3>3. CallShows(c)
        <4>1. CASE c.kind = "preview"
          BY <4>1 DEF CallShows
        <4>2. CASE c.kind = "accept" /\ c.shown = tabs[t].form.preview /\ c.shown.ready
          <5>1. ShownFits(tabs[t].form.preview, tabs[t].path)
            BY <3>1 DEF ShownOK, TabsShow, TabShows, On
          <5>2. ShownFits(c.shown, c)
            BY <3>1, <4>2, <5>1 DEF ShownFits, Url
          <5> QED
            BY <4>2, <5>2 DEF CallShows
        <4> QED
          BY <3>1, <4>1, <4>2
      <3> QED
        BY <3>1, <3>2, <3>3
    <2> QED
      BY <2>1, <2>2
  <1>2. calls' = calls \union {c} /\ tabs' = tabs /\ UNCHANGED rows
    BY <1>1 DEF Send
  <1>3. RowsOK /\ RowsOK' /\ Grown
    BY <1>2, NothingAdded DEF DeskInv
  <1> QED
    BY <1>1, <1>2, <1>3, SamePages

LEMMA ComposesShow ==
    ASSUME DeskInv, ShownOK, NEW c \in calls, Compose(c)
    PROVE  ShownOK' /\ UNCHANGED rows
  <1>1. UNCHANGED <<rows, tabs>> /\ c.kind # "preview"
    BY DEF Compose
  <1>2. PICK d : /\ d = [c EXCEPT !.stage = "composed",
                                  !.proposals = IF c.kind = "build" THEN Composed(c).body ELSE {}]
                 /\ calls' \subseteq calls \union {d}
    BY Zenon DEF Compose, Drop
  <1>3. /\ d.kind = c.kind /\ d.session = c.session /\ d.no = c.no /\ d.at = c.at
        /\ d.shown = c.shown
    BY <1>2 DEF DeskInv, CallsOK, IsCall, CallFields
  <1>4. CallShows(d) /\ CallPaged(d)
    BY <1>1, <1>3 DEF ShownOK, CallsShow, CallShows, CallPaged, ShownFits
  <1>5. RowsOK /\ RowsOK' /\ Grown
    BY <1>1, NothingAdded DEF DeskInv
  <1> QED
    BY <1>1, <1>2, <1>4, <1>5, SamePages

(* A preview that was answered as ready found what it says.                 *)
LEMMA PreviewsShow ==
    ASSUME DeskInv, ShownOK, NEW c \in calls, Preview(c)
    PROVE  ShownOK' /\ UNCHANGED rows
  <1>1. calls' \subseteq calls /\ UNCHANGED rows /\ c.kind = "preview"
    BY DEF Preview, Drop
  <1>2. RowsOK /\ RowsOK' /\ Grown
    BY <1>1, NothingAdded DEF DeskInv
  <1>3. CASE tabs' = tabs
    BY <1>1, <1>2, <1>3, SamePages
  <1>4. CASE tabs' # tabs
    <2>1. PICK t, body : t = c.tab /\ body = PreviewAnswer(c).body
      OBVIOUS
    <2>2. /\ t \in Tab /\ tabs[t].path.page = "acceptance" /\ t # Nobody /\ Composed(c).ok
          /\ \E form : form = [tabs[t].form EXCEPT !.preview = body] /\ Keep(t, form)
      BY <1>4, <2>1, PreviewKept
    <2>3. PICK form : form = [tabs[t].form EXCEPT !.preview = body] /\ Keep(t, form)
      BY <2>2
    <2>4. PICK x : x = [path |-> tabs[t].path, by |-> tabs[t].by, loaded |-> tabs[t].loaded,
                        links |-> tabs[t].links, form |-> form]
      OBVIOUS
    <2>5. tabs' = [tabs EXCEPT ![t] = x] /\ x.path = tabs[t].path /\ x.form = form
      BY <2>2, <2>3, <2>4, KeptTab
    <2>6. form.preview = body /\ "preview" \in DOMAIN form
      BY <2>2, <2>3 DEF ShownOK, TabsShow, TabShows
    <2>7. ShownFits(body, tabs[t].path)
      <3> SUFFICES ASSUME body.ready PROVE ShownFits(body, tabs[t].path)
        BY DEF ShownFits
      <3>1. /\ OwnersAllow(c.plan) /\ body.plan = c.plan /\ body.found = Underlying(c.plan)
            /\ body.of = Path("acceptance", c.session, c.no, c.at)
        BY <2>1 DEF PreviewAnswer, Ok
      <3>2. ComposeAccept(c).ok /\ c.at \in Int
        BY <1>1, <2>2 DEF Composed, DeskInv, CallsOK, IsCall
      <3>3. AcceptComposed(c)
        BY <1>2, <3>2, AcceptIsComposed
      <3>4. Stands(c.plan) /\ Underlying(c.plan) = UpTo(c.plan)
        BY <1>2, <3>1, <3>3, AllowedStands
      <3>5. CallOf(c, tabs[t].path)
        BY <1>1, <2>1, <2>2 DEF ShownOK, CallsShow, CallPaged, Url
      <3> QED
        BY <3>1, <3>4, <3>5 DEF ShownFits, CallOf
    <2>8. TabShows(x)
      BY <2>5, <2>6, <2>7 DEF TabShows
    <2>9. TabShows(x)'
      BY <1>2, <2>8, ShownKept
    <2> QED
      BY <1>1, <1>2, <2>2, <2>5, <2>9, OnePage
  <1> QED
    BY <1>3, <1>4

LEMMA RunsShow ==
    ASSUME DeskInv, ShownOK, NEW c \in calls, Run(c)
    PROVE  ShownOK' /\ Grown /\ RowsOK'
  <1>1. /\ Ready(c)
        /\ IF Answer(c).ok THEN Write(c) ELSE UNCHANGED rows
        /\ IF c.tab # Nobody /\ Answer(c).ok
           THEN /\ tabs' = Sent(c, Answer(c).body)
                /\ calls' = IF c.kind = "save" THEN calls \ {c} ELSE Abandon(c.tab, calls \ {c})
           ELSE calls' = calls \ {c} /\ tabs' = tabs
    BY DEF Run, Drop
  <1>2. RowsOK /\ PagesOK /\ IsCall(c) /\ CallPlaced(c)
    BY DEF DeskInv, CallsOK
  <1>3. RowsOK' /\ Grown
    BY <1>1, <1>2, NothingAdded, Writes
  <1>4. CASE ~(c.tab # Nobody /\ Answer(c).ok)
    <2>1. tabs' = tabs /\ calls' \subseteq calls
      BY <1>1, <1>4
    <2> QED
      BY <1>2, <1>3, <2>1, SamePages
  <1>5. CASE c.tab # Nobody /\ Answer(c).ok
    <2>1. PICK p, t : p = Answer(c).body /\ t = c.tab /\ t \in Tab
      BY <1>2, <1>5 DEF IsCall
    <2>2. IsPath(p)
      BY <1>1, <1>5, <2>1, Writes
    <2>3. CASE c.kind = "save"
      <3>1. tabs' = SavedIn(t, p) /\ calls' \subseteq calls
        BY <1>1, <1>5, <2>1, <2>3 DEF Sent, SavedIn
      <3>2. On(t, "scope") /\ PagesOK
        BY <1>2, <1>5, <2>1, <2>3 DEF CallPlaced
      <3>3. PICK x : tabs' = [tabs EXCEPT ![t] = x] /\ x.path = tabs[t].path
        BY <2>1, <2>2, <3>1, <3>2, SavedTab
      <3>4. TabShows(x)'
        BY <3>2, <3>3 DEF TabShows, On
      <3> QED
        BY <1>2, <1>3, <2>1, <3>1, <3>3, <3>4, OnePage
    <2>4. CASE c.kind # "save"
      <3>1. PICK x : x = [Page(p) EXCEPT !.by = c.kind]
        OBVIOUS
      <3>2. tabs' = [tabs EXCEPT ![t] = x] /\ calls' = Abandon(t, calls \ {c})
        BY <1>1, <1>5, <2>1, <2>4, <3>1 DEF Sent
      <3>3. x.path = p /\ x.form = Form(p.page)
        BY <3>1 DEF Page
      <3>4. TabShows(x)'
        BY <3>3, FreshShows
      <3>5. \E S \in SUBSET calls : calls' = Abandon(t, S)
        BY <3>2
      <3> QED
        BY <1>2, <1>3, <2>1, <3>2, <3>4, <3>5, OnePage
    <2> QED
      BY <2>3, <2>4
  <1> QED
    BY <1>3, <1>4, <1>5

LEMMA ShownStarts == Init => ShownOK
  <1> SUFFICES ASSUME Init PROVE ShownOK
    OBVIOUS
  <1>1. calls = {} /\ \A t \in Tab : tabs[t].path.page = "history"
    BY DEF Init, Page, Path
  <1> QED
    BY <1>1 DEF ShownOK, TabsShow, CallsShow, TabShows

(* A step adds an output only by the acceptance that writes it.             *)
NewOutput(c) ==
    /\ c.kind = "accept" /\ Ready(c) /\ AcceptAnswer(c).ok /\ Outputs(c.session, c.no) = {}
    /\ outputs' = outputs \union {OutputWritten(c)}

LEMMA Written ==
    ASSUME DeskInv, NEW c \in calls, Ready(c), Answer(c).ok, Write(c)
    PROVE  outputs' = outputs \/ NewOutput(c)
  <1>1. c.kind \in Commands
    BY Writes
  <1>2. CASE c.kind = "accept"
    BY <1>2 DEF Answer, Write, AcceptRows, NewOutput, OutputWritten, rows
  <1>3. CASE c.kind # "accept"
    BY <1>1, <1>3 DEF Commands, Write, SaveRows, PrepareRows, BuildRows, ReviewRows
  <1> QED
    BY <1>2, <1>3

LEMMA ShownSteps ==
    ASSUME DeskInv, ShownOK, [Next]_vars
    PROVE  ShownOK' /\ (outputs' = outputs \/ \E c \in calls : NewOutput(c))
  <1>1. CASE \E t \in Tab : OpenHistory(t) \/ Follow(t) \/ OpenHanded(t) \/ Load(t) \/ Act(t)
    <2>1. ShownOK' /\ UNCHANGED rows
      BY <1>1, VisitsShow, LoadsShow, EditsShow, SendsShow DEF Act
    <2> QED
      BY <2>1 DEF rows
  <1>2. CASE \E c \in calls : Serve(c)
    <2>1. PICK c \in calls : Serve(c)
      BY <1>2
    <2>2. CASE Compose(c) \/ Preview(c)
      BY <2>2, ComposesShow, PreviewsShow DEF rows
    <2>3. CASE Run(c)
      <3>1. outputs' = outputs \/ (Ready(c) /\ Answer(c).ok /\ Write(c))
        BY <2>3 DEF Run, rows
      <3> QED
        BY <2>3, <3>1, RunsShow, Written
    <2>4. CASE LoseRequest(c)
      <3>1. tabs' = tabs /\ calls' \subseteq calls /\ UNCHANGED rows
        BY <2>4 DEF LoseRequest, Drop
      <3>2. RowsOK /\ RowsOK' /\ Grown
        BY <3>1, NothingAdded DEF DeskInv
      <3> QED
        BY <3>1, <3>2, SamePages DEF rows
    <2>5. CASE LoseAnswer(c)
      <3>1. tabs' = tabs /\ calls' \subseteq calls /\ Ready(c) /\ Answer(c).ok /\ Write(c)
        BY <2>5 DEF LoseAnswer, Drop
      <3>2. RowsOK /\ RowsOK' /\ Grown
        BY <3>1, Writes DEF DeskInv
      <3> QED
        BY <3>1, <3>2, SamePages, Written
    <2> QED
      BY <2>1, <2>2, <2>3, <2>4, <2>5 DEF Serve
  <1>3. CASE Others
    <2>1. DeskInv' /\ Grown /\ outputs' = outputs
      BY <1>3, OthersKeep
    <2>2. tabs' = tabs /\ calls' = calls
      BY <1>3 DEF Others, OthersSave, OthersPrepare, OthersBuild, OthersReview, Posts, OthersAssess
    <2>3. RowsOK /\ RowsOK'
      BY <2>1 DEF DeskInv
    <2> QED
      BY <2>1, <2>2, <2>3, SamePages
  <1>4. CASE UNCHANGED vars
    <2>1. tabs' = tabs /\ calls' = calls /\ UNCHANGED rows
      BY <1>4 DEF vars
    <2>2. RowsOK /\ RowsOK' /\ Grown
      BY <2>1, NothingAdded DEF DeskInv
    <2> QED
      BY <2>1, <2>2, SamePages DEF rows
  <1> QED
    BY <1>1, <1>2, <1>3, <1>4 DEF Next

(* What an acceptance writes was answered as ready to a preview of the very  *)
(* page that sent it, to the letter, and on the Stage 1 rows that are there  *)
(* when it writes: nothing recorded since, and no answer to another form or  *)
(* page, gets in (owner_acceptance.js, renderPreview, invalidatePreview and  *)
(* commit; _preview_or_commit).                                             *)
THEOREM AcceptedAsShown == Spec => CommitWasShown
  <1> DEFINE AsShown(o) == /\ o.shown.ready /\ o.shown.plan = o.plan
                           /\ o.shown.of = Path("acceptance", o.session, o.reviewed, o.seen)
                           /\ o.shown.found = Underlying(o.plan)
  <1>1. ASSUME DeskInv, ShownOK, [Next]_vars, NEW o \in outputs' \ outputs PROVE AsShown(o)
    <2>1. PICK c \in calls : NewOutput(c)
      BY <1>1, ShownSteps
    <2>2. o = OutputWritten(c)
      BY <2>1 DEF NewOutput
    <2>3. /\ o.session = c.session /\ o.reviewed = c.no /\ o.seen = c.at /\ o.plan = c.plan
          /\ o.shown = c.shown
      BY <2>2 DEF OutputWritten
    <2>4. c.shown.plan = c.plan /\ OwnersAllow(c.plan)
      BY <2>1 DEF NewOutput, AcceptAnswer, Fail
    <2>5. RowsOK /\ AcceptComposed(c)
      BY <1>1, <2>1 DEF NewOutput, Ready, DeskInv, CallsOK, CallKnown
    <2>6. Underlying(c.plan) = UpTo(c.plan)
      BY <2>4, <2>5, AllowedStands
    <2>7. c.shown.ready /\ ShownFits(c.shown, c)
      BY <1>1, <2>1 DEF ShownOK, CallsShow, CallShows, NewOutput
    <2>8. c.shown.of = Path("acceptance", c.session, c.no, c.at) /\ c.shown.found = UpTo(c.shown.plan)
      BY <2>7 DEF ShownFits
    <2> QED
      BY <2>3, <2>4, <2>6, <2>7, <2>8
  <1>2. DeskInv /\ ShownOK /\ [Next]_vars => [\A o \in outputs' \ outputs : AsShown(o)]_vars
    BY <1>1
  <1>3. DeskInv /\ ShownOK /\ [Next]_vars => ShownOK'
    BY ShownSteps
  <1> QED
    BY <1>2, <1>3, DeskStarts, DeskSteps, ShownStarts, PTL DEF Spec, CommitWasShown, AsShown

(* An acceptance appends to what its reader's boundary could show, and      *)
(* every company and every pool has one revision of a number.               *)
THEOREM NothingComesInUnseen == Spec => []NothingUnseen
  <1>1. DeskInv => NothingUnseen
    <2> SUFFICES ASSUME DeskInv PROVE NothingUnseen
      OBVIOUS
    <2>1. \A o \in outputs : OutputFits(o)
      BY DEF DeskInv, RowsOK, OutputsOK
    <2>2. \A o \in outputs : \A k \in DOMAIN o.plan.bindings :
              LET i == o.plan.bindings[k]
              IN i.op # "reuse" => \A x \in OwnersOf(k.company) : x.no <= i.no => Visible(x, o.seen)
      BY <2>1 DEF OutputFits
    <2>3. \A o \in outputs : o.plan.pool.op = "append" =>
              \A p \in pools : p.id = o.plan.pool.id /\ p.no <= o.plan.pool.no => Visible(p, o.seen)
      BY <2>1 DEF OutputFits
    <2>4. /\ \A x, y \in owners : x.company = y.company /\ x.no = y.no => x = y
          /\ \A p, q \in pools : p.id = q.id /\ p.no = q.no => p = q
      BY DEF DeskInv, RowsOK, OwnersOK, PoolsOK
    <2> QED
      BY <2>2, <2>3, <2>4 DEF NothingUnseen
  <1> QED
    BY <1>1, DeskStarts, DeskSteps, PTL DEF Spec

(* Where an answered command sends its caller opens, whatever was written   *)
(* in between, and shows all that the command wrote: in the tab it was      *)
(* answered to, and through a link handed on to any other.                  *)
THEOREM AnsweredLinksOpen == Spec => []AnswersReopen
  <1>1. DeskInv => AnswersReopen
    <2> SUFFICES ASSUME DeskInv PROVE AnswersReopen
      OBVIOUS
    <2>1. ASSUME NEW h \in handed PROVE Reopens(h.kind, h.path)
      <3>1. h.kind \in {"build", "review"} /\ h.path.at \in Int /\ Opens(h.kind, h.path) /\ RowsOK
        BY DEF DeskInv, HandedOK, IsPath
      <3> QED
        BY <3>1, OpensReopens
    <2>2. ASSUME NEW t \in Tab, tabs[t].by # "link"
          PROVE  Reopens(tabs[t].by, IF tabs[t].by = "save" THEN tabs[t].form.context ELSE Url(t))
      <3>1. PICK p : p = IF tabs[t].by = "save" THEN tabs[t].form.context ELSE Url(t)
        OBVIOUS
      <3>2. IsTab(tabs[t]) /\ TabOpens(tabs[t]) /\ RowsOK
        BY DEF DeskInv, PagesOK
      <3>3. Opens(tabs[t].by, p) /\ tabs[t].by \in Commands
        BY <2>2, <3>1, <3>2 DEF TabOpens, IsTab, Url
      <3>4. p.at \in Int
        BY <3>1, <3>2 DEF IsTab, FormFits, IsScopeForm, IsPath, Url
      <3>5. Reopens(tabs[t].by, p)
        BY <3>2, <3>3, <3>4, OpensReopens DEF Commands
      <3> QED
        BY <3>1, <3>5
    <2> QED
      BY <2>1, <2>2 DEF AnswersReopen
  <1> QED
    BY <1>1, DeskStarts, DeskSteps, PTL DEF Spec

=============================================================================
