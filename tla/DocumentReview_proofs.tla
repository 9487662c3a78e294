------------------------ MODULE DocumentReview_proofs ------------------------
(* Proofs about DocumentReview.                                            *)
EXTENDS DocumentReview, FiniteSetTheorems, TLAPS

(* The rows.                                                               *)
AttemptsOK ==
    /\ IsFiniteSet(attempts)
    /\ \A a \in attempts : a.no \in 1..Cardinality(attempts) /\ a.file \in File /\ a.name \in Name
    /\ \A a, b \in attempts : a.no = b.no => a = b

SessionsOK ==
    /\ sessions \subseteq Session
    /\ \A s \in sessions : \E a \in attempts : a.no = s.attempt
    /\ candidates \subseteq [session : sessions, item : Item]

(* The revisions of a session are numbered 1, 2, 3, ... and only the last    *)
(* may be terminal.                                                        *)
RevisionsOK ==
    /\ revisions \subseteq [session : sessions, no : Nat \ {0}, decided : SUBSET Item, selected : SUBSET Item,
                           state : {"draft", "deferred", "rejected", "accepted"}]
    /\ \A s \in sessions : \E n \in Nat : {r.no : r \in Of(revisions, s)} = 1..n
    /\ \A q, r \in revisions : q.session = r.session /\ q.no = r.no => q = r
    /\ \A q, r \in revisions :
           q.session = r.session /\ q.no < r.no => q.state \notin {"rejected", "accepted"}

AcceptedBy(t, q, r) ==
    /\ q.session = t.request.session /\ r.session = t.request.session
    /\ q.no = t.request.no /\ r.no = t.request.no + 1 /\ r.state = "accepted"
    /\ r.decided = q.decided /\ r.selected = q.selected

FactsBy(s) == {l.fact : l \in {x \in ledger : x.by = s.attempt /\ x.case = s.case}}

ReceiptsOK ==
    /\ \A t \in receipts : t.request \in AcceptCommand /\ t.request.session \in sessions
    /\ \A t \in receipts : \E q, r \in revisions : AcceptedBy(t, q, r)
    /\ \A t \in receipts : t.request.selected = FactsBy(t.request.session)
    /\ \A r \in revisions : r.state = "accepted" => \E t \in receipts : t.request.session = r.session
    /\ \A l \in ledger : l.by # 0 =>
           \E t \in receipts : t.request.session = [attempt |-> l.by, case |-> l.case]

RowsOK == AttemptsOK /\ SessionsOK /\ RevisionsOK /\ ReceiptsOK /\ ContentStoredOnce

(* The workers: where a command of each kind may be, and its locks.         *)
Places(kind) ==
    CASE kind = "import" -> {"lookup", "extract", "admit", "write"}
      [] kind \in {"open", "add"} -> {"check", "write"}
      [] kind = "revise" -> {"session", "write"}
      [] kind = "accept" -> {"session", "case", "write"}
      [] kind = "record" -> {"write"}
      [] OTHER -> {}

WorkersOK ==
    /\ pc \in [Worker -> Stages \union {"idle", "lookup", "extract", "admit", "write"}]
    /\ cmd \in [Worker -> Command \union {NoCommand}]
    /\ DOMAIN todo = Worker /\ DOMAIN holds = Worker /\ DOMAIN reply = Worker /\ DOMAIN conflicting = Worker
    /\ \A w \in Worker : pc[w] = "idle" => todo[w] = {} /\ holds[w] = {}
    /\ \A w \in Worker : pc[w] # "idle" => cmd[w] \in Command /\ pc[w] \in Places(cmd[w].kind) /\ reply[w] = "none"
    /\ \A w \in Worker : \A l \in todo[w] : l.rank \in {0, 1}
    /\ commands \in 0..MaxCommands /\ faults \in 0..MaxFaults

Is(w, kind) == pc[w] # "idle" /\ cmd[w].kind = kind

LocksTaken ==
    \A w \in Worker :
        /\ Is(w, "revise") \/ Is(w, "accept") =>
               At(0, SessionRow(cmd[w].session)) \in IF pc[w] = "session" THEN todo[w] \union holds[w] ELSE holds[w]
        /\ Is(w, "accept") /\ pc[w] # "session" =>
               At(0, CaseRow(cmd[w].session.case)) \in IF pc[w] = "case" THEN todo[w] \union holds[w] ELSE holds[w]
        /\ Is(w, "add") /\ pc[w] = "write" => Share(1, SessionRow(cmd[w].session)) \in todo[w] \union holds[w]
        /\ Is(w, "record") => Share(1, CaseRow(cmd[w].case)) \in todo[w] \union holds[w]

Exclusive ==
    \A v, w \in Worker : \A l \in holds[v], m \in holds[w] :
        v # w /\ l.row = m.row => l.shared /\ m.shared

(* What a command has seen so far is still so.                             *)
Checked(w) ==
    /\ Is(w, "open") /\ pc[w] = "write" => OpenAllowed(cmd[w])
    /\ Is(w, "add") /\ pc[w] = "write" => cmd[w].session \in sessions
    /\ Is(w, "revise") /\ pc[w] = "write" => ReviseAllowed(cmd[w])
    /\ Is(w, "accept") /\ pc[w] # "session" => Receipt(cmd[w]) = {} /\ Acceptable(cmd[w])
    /\ Is(w, "accept") /\ pc[w] = "write" => AcceptAllowed(cmd[w])

StillChecked == \A w \in Worker : Checked(w)

Inv == RowsOK /\ WorkersOK /\ LocksTaken /\ Exclusive /\ StillChecked

---------------------------------------------------------------------------
(* Commands and locks.                                                     *)

LEMMA CommandTypes ==
    ASSUME NEW c \in Command
    PROVE  /\ c.kind \in {"import", "open", "add", "revise", "accept", "record"}
           /\ c.kind = "import" => c \in ImportCommand
           /\ c.kind = "open" => c \in OpenCommand
           /\ c.kind = "add" => c \in AddCommand
           /\ c.kind = "revise" => c \in ReviseCommand
           /\ c.kind = "accept" => c \in AcceptCommand
           /\ c.kind = "record" => c \in RecordCommand
  BY ReviewAssumption DEF ReviewAssumption, ImportCommand, OpenCommand, AddCommand, ReviseCommand,
                          AcceptCommand, RecordCommand

LEMMA LocksOf ==
    ASSUME NEW c \in Command
    PROVE  /\ Locks(c, "session") = {At(0, SessionRow(c.session))}
           /\ Locks(c, "case") = {At(0, CaseRow(c.session.case))}
           /\ Locks(c, "write") = Insertions(c)
           /\ \A stage : \A l \in Locks(c, stage) : l.rank \in {0, 1}
           /\ c.kind = "add" => Share(1, SessionRow(c.session)) \in Insertions(c)
           /\ c.kind = "record" => Share(1, CaseRow(c.case)) \in Insertions(c)
  <1>1. /\ Locks(c, "session") = {At(0, SessionRow(c.session))}
        /\ Locks(c, "case") = {At(0, CaseRow(c.session.case))}
        /\ Locks(c, "write") = Insertions(c)
    BY DEF Locks
  <1>2. \A l \in Insertions(c) : l.rank \in {0, 1}
    BY DEF Insertions, At, Share
  <1>3. \A stage : \A l \in Locks(c, stage) : l.rank \in {0, 1}
    BY <1>2 DEF Locks, At
  <1>4. c.kind = "add" => Share(1, SessionRow(c.session)) \in Insertions(c)
    BY DEF Insertions
  <1>5. c.kind = "record" => Share(1, CaseRow(c.case)) \in Insertions(c)
    BY DEF Insertions
  <1> QED
    BY <1>1, <1>3, <1>4, <1>5

LEMMA NextIsTodo ==
    ASSUME WorkersOK, NEW w \in Worker, todo[w] # {}
    PROVE  NextLock(w) \in todo[w]
  <1>1. \E l \in todo[w] : \A m \in todo[w] : l.rank <= m.rank
    <2>1. CASE \E l \in todo[w] : l.rank = 0
      BY <2>1 DEF WorkersOK
    <2>2. CASE ~\E l \in todo[w] : l.rank = 0
      BY <2>2 DEF WorkersOK
    <2> QED
      BY <2>1, <2>2
  <1> QED
    BY <1>1 DEF NextLock

(* The steps of a worker.                                                  *)
Uploads(w) == LookUpContent(w) \/ ExtractText(w) \/ AdmitContent(w)

Moves(w) ==
    \/ \E c \in Command : Start(w, c)
    \/ Lock(w) \/ Proceed(w) \/ Uploads(w) \/ Write(w)
    \/ Refuse(w) \/ Repeat(w) \/ Conflict(w) \/ DeadlockVictim(w) \/ RollBack(w)

LEMMA Steps ==
    ASSUME [Next]_vars
    PROVE  UNCHANGED vars \/ \E w \in Worker : Moves(w)
  BY DEF Next, Step, Uploads, Finished, Moves

(* Only the worker that takes a step moves.                                *)
Stands(v) ==
    /\ pc'[v] = pc[v] /\ cmd'[v] = cmd[v] /\ todo'[v] = todo[v] /\ holds'[v] = holds[v]
    /\ reply'[v] = reply[v]

Gone(w) ==
    /\ pc' = [pc EXCEPT ![w] = "idle"] /\ cmd' = cmd
    /\ todo' = [todo EXCEPT ![w] = {}] /\ holds' = [holds EXCEPT ![w] = {}]
    /\ DOMAIN reply' = DOMAIN reply /\ DOMAIN conflicting' = DOMAIN conflicting
    /\ \A v \in DOMAIN reply \ {w} : reply'[v] = reply[v]
    /\ commands' = commands

LEMMA Endings ==
    ASSUME NEW w \in Worker
    PROVE  /\ \A answer : End(w, answer) => Gone(w)
           /\ Refuse(w) \/ Repeat(w) \/ Conflict(w) \/ DeadlockVictim(w) \/ RollBack(w) =>
                  Gone(w) /\ UNCHANGED rows
           /\ Write(w) => Gone(w) /\ pc[w] = "write" /\ todo[w] = {} /\ faults' = faults
           /\ \A state : RecordAttempt(w, state) => Gone(w) /\ faults' = faults
  <1>1. \A answer : End(w, answer) => Gone(w)
    BY DEF End, Gone
  <1>2. Write(w) => (\E answer : End(w, answer)) /\ pc[w] = "write" /\ todo[w] = {} /\ faults' = faults
    BY Zenon DEF Write, StoreContent, RecordAttempt, CreateReviewSession, AddCandidate, AppendReviewRevision,
           AcceptDocument, AddEvidence, Writing
  <1>3. \A state : RecordAttempt(w, state) => (\E answer : End(w, answer)) /\ faults' = faults
    BY DEF RecordAttempt
  <1> QED
    BY <1>1, <1>2, <1>3 DEF Refuse, Repeat, Conflict, DeadlockVictim, RollBack

LEMMA OthersStand ==
    ASSUME WorkersOK, NEW w \in Worker, Moves(w), NEW v \in Worker \ {w}
    PROVE  Stands(v)
  <1>1. Gone(w) => Stands(v)
    BY DEF WorkersOK, Gone, Stands
  <1>2. ASSUME NEW stage, Advance(w, stage)
        PROVE  Stands(v)
    BY <1>2 DEF WorkersOK, Advance, Stands
  <1>3. ASSUME NEW c \in Command, Start(w, c)
        PROVE  Stands(v)
    BY <1>3 DEF WorkersOK, Start, Stands
  <1>4. Lock(w) => Stands(v)
    BY DEF WorkersOK, Lock, Stands
  <1>5. Proceed(w) => Stands(v)
    BY <1>2 DEF Proceed
  <1>6. Uploads(w) => Stands(v)
    BY <1>1, <1>2, Endings DEF Uploads, LookUpContent, ExtractText, AdmitContent
  <1> QED
    BY <1>1, <1>3, <1>4, <1>5, <1>6, Endings DEF Moves
LEMMA AcceptStages ==
    ASSUME NEW c \in Command
    PROVE  /\ FirstStage(c) \in Places(c.kind)
           /\ c.kind = "accept" => FirstStage(c) = "session"
           /\ c.kind = "revise" => FirstStage(c) = "session"
           /\ c.kind = "add" => FirstStage(c) = "check"
           /\ c.kind = "open" => FirstStage(c) = "check"
           /\ c.kind = "record" => FirstStage(c) = "write"
  BY CommandTypes DEF FirstStage, Places

LEMMA PlaceTypes ==
    ASSUME NEW kind
    PROVE  Places(kind) \subseteq (Stages \union {"lookup", "extract", "admit", "write"})
  BY DEF Places, Stages

(* The steps of a worker as its place, its locks and its answer see them.   *)
LEMMA WorkerMoves ==
    ASSUME WorkersOK, NEW w \in Worker, Moves(w)
    PROVE  \/ Gone(w) /\ faults' \in 0..MaxFaults
           \/ \E c \in Command : Start(w, c)
           \/ Lock(w)
           \/ \E stage \in Places(cmd[w].kind) :
                  /\ Advance(w, stage) /\ DOMAIN conflicting' = DOMAIN conflicting /\ pc[w] # "idle"
                  /\ \/ /\ pc[w] \in Stages /\ todo[w] = {} /\ stage = NextStage(cmd[w], pc[w])
                        /\ Passes(cmd[w], pc[w])
                     \/ cmd[w].kind = "import"
  <1>1. CASE Refuse(w) \/ Repeat(w) \/ Conflict(w) \/ DeadlockVictim(w) \/ RollBack(w)
    <2>1. faults' = faults \/ (faults < MaxFaults /\ faults' = faults + 1)
      BY <1>1 DEF Refuse, Repeat, Conflict, DeadlockVictim, RollBack
    <2>2. faults' \in 0..MaxFaults
      BY <2>1, ReviewAssumption DEF ReviewAssumption, WorkersOK
    <2> QED
      BY <1>1, <2>2, Endings
  <1>2. CASE Write(w)
    BY <1>2, Endings DEF WorkersOK
  <1>3. CASE Uploads(w)
    <2>1. pc[w] \in {"lookup", "extract", "admit"}
      BY <1>3 DEF Uploads, LookUpContent, ExtractText, AdmitContent
    <2>2. cmd[w] \in Command /\ pc[w] \in Places(cmd[w].kind)
      BY <2>1 DEF WorkersOK
    <2>3. cmd[w].kind = "import"
      BY <2>1, <2>2, CommandTypes DEF Places
    <2>4. Places(cmd[w].kind) = {"lookup", "extract", "admit", "write"}
      BY <2>3 DEF Places
    <2>5. \/ \E state : RecordAttempt(w, state)
          \/ \E stage \in {"extract", "admit", "write"} : Advance(w, stage) /\ DOMAIN conflicting' = DOMAIN conflicting
      BY <1>3 DEF Uploads, LookUpContent, ExtractText, AdmitContent
    <2> QED
      BY <2>1, <2>3, <2>4, <2>5, Endings DEF WorkersOK
  <1>4. CASE Proceed(w)
    <2>1. /\ pc[w] \in Stages /\ todo[w] = {} /\ Passes(cmd[w], pc[w]) /\ Advance(w, NextStage(cmd[w], pc[w]))
          /\ DOMAIN conflicting' = DOMAIN conflicting
      BY <1>4 DEF Proceed, Locked
    <2>2. pc[w] # "idle" /\ cmd[w] \in Command /\ pc[w] \in Places(cmd[w].kind)
      BY <2>1 DEF Stages, WorkersOK
    <2>3. NextStage(cmd[w], pc[w]) \in Places(cmd[w].kind)
      BY <2>1, <2>2, CommandTypes DEF NextStage, Places, Stages
    <2> QED
      BY <2>1, <2>2, <2>3
  <1>5. CASE (\E c \in Command : Start(w, c)) \/ Lock(w)
    BY <1>5
  <1> QED
    BY <1>1, <1>2, <1>3, <1>4, <1>5 DEF Moves

LEMMA WorkersStep ==
    ASSUME WorkersOK, NEW w \in Worker, Moves(w)
    PROVE  WorkersOK'
  <1>1. CASE Gone(w) /\ faults' \in 0..MaxFaults
    BY <1>1 DEF WorkersOK, Gone
  <1>2. ASSUME NEW c \in Command, Start(w, c)
        PROVE  WorkersOK'
    <2>1. /\ FirstStage(c) \in Places(c.kind) /\ \A l \in Locks(c, FirstStage(c)) : l.rank \in {0, 1}
          /\ FirstStage(c) \in Stages \union {"lookup", "extract", "admit", "write"} /\ FirstStage(c) # "idle"
      BY AcceptStages, LocksOf, PlaceTypes DEF Stages
    <2>2. commands' \in 0..MaxCommands
      BY <1>2, ReviewAssumption DEF Start, WorkersOK, ReviewAssumption
    <2> QED
      BY <1>2, <2>1, <2>2 DEF Start, WorkersOK
  <1>3. CASE Lock(w)
    <2>1. todo[w] # {} /\ pc[w] # "idle"
      BY <1>3 DEF Lock, Locking, Stages
    <2>2. todo'[w] \subseteq todo[w] /\ \A v \in Worker \ {w} : todo'[v] = todo[v]
      BY <1>3 DEF Lock, WorkersOK
    <2> QED
      BY <1>3, <2>1, <2>2 DEF Lock, WorkersOK
  <1>4. ASSUME NEW stage \in Places(cmd[w].kind), Advance(w, stage), DOMAIN conflicting' = DOMAIN conflicting,
               pc[w] # "idle"
        PROVE  WorkersOK'
    <2>1. cmd[w] \in Command
      BY <1>4 DEF WorkersOK
    <2>2. /\ \A l \in Locks(cmd[w], stage) : l.rank \in {0, 1}
          /\ stage \in Stages \union {"lookup", "extract", "admit", "write"} /\ stage # "idle"
      BY <2>1, LocksOf, PlaceTypes DEF Stages
    <2> QED
      BY <1>4, <2>1, <2>2 DEF Advance, WorkersOK
  <1> QED
    BY <1>1, <1>2, <1>3, <1>4, WorkerMoves

LEMMA LocksStep ==
    ASSUME WorkersOK, LocksTaken, Exclusive, NEW w \in Worker, Moves(w)
    PROVE  LocksTaken' /\ Exclusive'
  <1>1. CASE Gone(w)
    <2>1. /\ pc'[w] = "idle" /\ holds'[w] = {} /\ cmd' = cmd
          /\ \A v \in Worker \ {w} : pc'[v] = pc[v] /\ todo'[v] = todo[v] /\ holds'[v] = holds[v]
      BY <1>1 DEF Gone, WorkersOK
    <2>2. Exclusive'
      BY <2>1 DEF Exclusive
    <2>3. LocksTaken'
      BY <2>1, Zenon DEF LocksTaken, Is
    <2> QED
      BY <2>2, <2>3
  <1>2. ASSUME NEW c \in Command, Start(w, c)
        PROVE  LocksTaken' /\ Exclusive'
    <2>1. /\ pc'[w] = FirstStage(c) /\ cmd'[w] = c /\ todo'[w] = Locks(c, FirstStage(c)) /\ holds' = holds
          /\ \A v \in Worker \ {w} : pc'[v] = pc[v] /\ cmd'[v] = cmd[v] /\ todo'[v] = todo[v]
      BY <1>2 DEF Start, WorkersOK
    <2>2. /\ c.kind \in {"revise", "accept"} =>
                  FirstStage(c) = "session" /\ At(0, SessionRow(c.session)) \in Locks(c, FirstStage(c))
          /\ c.kind = "add" => FirstStage(c) # "write"
          /\ c.kind = "record" => Share(1, CaseRow(c.case)) \in Locks(c, FirstStage(c))
      BY AcceptStages, LocksOf
    <2> QED
      BY <2>1, <2>2 DEF LocksTaken, Exclusive, Is
  <1>3. CASE Lock(w)
    <2>1. PICK l : l = NextLock(w)
      OBVIOUS
    <2>2. l \in todo[w]
      BY <1>3, <2>1, NextIsTodo DEF Lock, Locking
    <2>3. /\ todo'[w] = todo[w] \ {l} /\ holds'[w] = holds[w] \union {l} /\ pc' = pc /\ cmd' = cmd
          /\ \A v \in Worker \ {w} : todo'[v] = todo[v] /\ holds'[v] = holds[v]
      BY <1>3, <2>1 DEF Lock, WorkersOK
    <2>4. \A v \in Worker \ {w} : \A m \in holds[v] : m.row = l.row => m.shared /\ l.shared
      BY <1>3, <2>1 DEF Lock, Waits
    <2>5. LocksTaken'
      BY <2>3 DEF LocksTaken, Is
    <2>6. Exclusive'
      BY <2>3, <2>4 DEF Exclusive
    <2> QED
      BY <2>5, <2>6
  <1>4. ASSUME NEW stage \in Places(cmd[w].kind), Advance(w, stage), pc[w] # "idle",
               \/ pc[w] \in Stages /\ todo[w] = {} /\ stage = NextStage(cmd[w], pc[w])
               \/ cmd[w].kind = "import"
        PROVE  LocksTaken' /\ Exclusive'
    <2>1. cmd[w] \in Command /\ pc[w] \in Places(cmd[w].kind)
      BY <1>4 DEF WorkersOK
    <2>2. /\ pc'[w] = stage /\ cmd' = cmd /\ todo'[w] = Locks(cmd[w], stage) /\ holds' = holds
          /\ \A v \in Worker \ {w} : pc'[v] = pc[v] /\ todo'[v] = todo[v]
      BY <1>4 DEF Advance, WorkersOK
    <2>3. Exclusive'
      BY <2>2 DEF Exclusive
    <2>4. CASE cmd[w].kind = "import"
      <3>1. cmd'[w].kind \notin {"revise", "accept", "add", "record"}
        BY <2>2, <2>4
      <3>2. ~Is(w, "revise")' /\ ~Is(w, "accept")' /\ ~Is(w, "add")' /\ ~Is(w, "record")'
        BY <3>1 DEF Is
      <3>3. LocksTaken'
        BY <2>2, <3>2, Zenon DEF LocksTaken, Is
      <3> QED
        BY <2>3, <3>3
    <2>5. CASE cmd[w].kind \in {"revise", "accept"}
      <3>1. cmd[w].kind = "revise" => pc[w] = "session" /\ stage = "write"
        BY <1>4, <2>1, <2>5 DEF Places, NextStage, Stages
      <3>2. cmd[w].kind = "accept" => \/ pc[w] = "session" /\ stage = "case"
                                      \/ pc[w] = "case" /\ stage = "write"
        BY <1>4, <2>1, <2>5 DEF Places, NextStage, Stages
      <3>3. At(0, SessionRow(cmd[w].session)) \in holds[w]
        BY <1>4, <2>5, <3>1, <3>2 DEF LocksTaken, Is
      <3>4. cmd[w].kind = "accept" /\ pc[w] = "case" => At(0, CaseRow(cmd[w].session.case)) \in holds[w]
        BY <1>4, <2>5 DEF LocksTaken, Is
      <3>5. cmd[w].kind = "accept" /\ stage = "case" => At(0, CaseRow(cmd[w].session.case)) \in todo'[w]
        BY <2>1, <2>2, LocksOf
      <3> QED
        BY <2>2, <2>3, <2>5, <3>1, <3>2, <3>3, <3>4, <3>5 DEF LocksTaken, Is
    <2>6. CASE cmd[w].kind \in {"open", "add", "record"}
      <3>1. stage = "write"
        BY <1>4, <2>1, <2>6 DEF Places, NextStage, Stages
      <3>2. /\ cmd[w].kind = "add" => Share(1, SessionRow(cmd[w].session)) \in todo'[w]
            /\ cmd[w].kind = "record" => Share(1, CaseRow(cmd[w].case)) \in todo'[w]
        BY <2>1, <2>2, <3>1, LocksOf
      <3> QED
        BY <2>2, <2>3, <2>6, <3>2 DEF LocksTaken, Is
    <2> QED
      BY <2>1, <2>4, <2>5, <2>6, CommandTypes
  <1> QED
    BY <1>1, <1>2, <1>3, <1>4, WorkerMoves
---------------------------------------------------------------------------
(* Attempts.                                                               *)

LEMMA AttemptAdded ==
    ASSUME AttemptsOK, ContentStoredOnce, NEW w \in Worker, NEW state, RecordAttempt(w, state),
           cmd[w] \in ImportCommand,
           \/ state = "rejected"
           \/ state = "duplicate" /\ Known(w)
           \/ state \in {"admitted", "name_conflict"} /\ ~Known(w)
    PROVE  AttemptsOK' /\ ContentStoredOnce' /\ attempts \subseteq attempts'
  <1>1. PICK n \in Nat : n = Cardinality(attempts)
    BY FS_CardinalityType DEF AttemptsOK
  <1>2. PICK new : new = [no |-> n + 1, file |-> cmd[w].file, name |-> cmd[w].name, state |-> state]
    OBVIOUS
  <1>3. attempts' = attempts \union {new}
    BY <1>1, <1>2 DEF RecordAttempt
  <1>4. \A a \in attempts : a.no \in 1..n /\ a # new
    BY <1>1, <1>2 DEF AttemptsOK
  <1>5. IsFiniteSet(attempts') /\ Cardinality(attempts') = n + 1
    BY <1>1, <1>3, <1>4, FS_AddElement DEF AttemptsOK
  <1>6. new.no = n + 1 /\ new.file = cmd[w].file /\ new.name = cmd[w].name /\ new.state = state
        /\ new.file \in File /\ new.name \in Name
    BY <1>2 DEF ImportCommand
  <1>7. AttemptsOK'
    <2>1. \A a \in attempts' : a.no \in 1..(n + 1) /\ a.file \in File /\ a.name \in Name
      BY <1>3, <1>4, <1>6 DEF AttemptsOK
    <2>2. \A a, b \in attempts' : a.no = b.no => a = b
      BY <1>3, <1>4, <1>6 DEF AttemptsOK
    <2> QED
      BY <1>5, <2>1, <2>2 DEF AttemptsOK
  <1>8. Stored' = IF state \in {"admitted", "name_conflict"} THEN Stored \union {new} ELSE Stored
    BY <1>3, <1>6 DEF Stored
  <1>9. ContentStoredOnce'
    <2>1. ASSUME NEW a \in attempts', NEW b \in Stored', a \in Stored', b.file = a.file
          PROVE  b = a
      BY <1>3, <1>6, <1>8, <2>1 DEF ContentStoredOnce, Known, Stored
    <2>2. ASSUME NEW a \in attempts', a.state = "duplicate"
          PROVE  \E b \in Stored' : b.file = a.file /\ b.no < a.no
      <3>1. CASE a \in attempts
        BY <1>8, <2>2, <3>1 DEF ContentStoredOnce
      <3>2. CASE a = new
        <4>1. PICK b \in Stored : b.file = cmd[w].file
          BY <1>6, <2>2, <3>2 DEF Known
        <4>2. b.no < n + 1
          BY <1>1, <1>4, <4>1 DEF Stored
        <4> QED
          BY <1>6, <1>8, <3>2, <4>1, <4>2
      <3> QED
        BY <1>3, <2>2, <3>1, <3>2
    <2> QED
      BY <2>1, <2>2 DEF ContentStoredOnce
  <1> QED
    BY <1>3, <1>7, <1>9

LEMMA AttemptsStep ==
    ASSUME WorkersOK, AttemptsOK, ContentStoredOnce, NEW w \in Worker, Moves(w)
    PROVE  /\ AttemptsOK' /\ ContentStoredOnce' /\ attempts \subseteq attempts'
           /\ attempts' # attempts => UNCHANGED <<sessions, candidates, revisions, receipts, ledger>>
  <1>1. CASE attempts' = attempts
    BY <1>1 DEF AttemptsOK, ContentStoredOnce, Stored
  <1>2. ASSUME attempts' # attempts
        PROVE  \E state : /\ RecordAttempt(w, state) /\ pc[w] \in {"lookup", "extract", "admit", "write"}
                          /\ pc[w] = "write" => cmd[w].kind = "import"
                          /\ \/ state = "rejected"
                             \/ state = "duplicate" /\ Known(w)
                             \/ state \in {"admitted", "name_conflict"} /\ ~Known(w)
    <2>1. Uploads(w) \/ StoreContent(w)
      BY <1>2, Endings DEF Moves, Write, Start, Lock, Proceed, Advance, CreateReviewSession, AddCandidate,
                           AppendReviewRevision, AcceptDocument, AddEvidence, rows
    <2>2. CASE StoreContent(w)
      <3>1. cmd[w].kind = "import" /\ ~Known(w) /\ pc[w] = "write"
        BY <2>2 DEF StoreContent, Writing, Duplicate, Known
      <3> QED
        BY <2>2, <3>1 DEF StoreContent
    <2>3. CASE Uploads(w)
      BY <1>2, <2>3 DEF Uploads, LookUpContent, ExtractText, AdmitContent, Advance, rows
    <2> QED
      BY <2>1, <2>2, <2>3
  <1>3. ASSUME attempts' # attempts
        PROVE  AttemptsOK' /\ ContentStoredOnce' /\ attempts \subseteq attempts'
               /\ UNCHANGED <<sessions, candidates, revisions, receipts, ledger>>
    <2>1. PICK state : /\ RecordAttempt(w, state) /\ pc[w] \in {"lookup", "extract", "admit", "write"}
                       /\ pc[w] = "write" => cmd[w].kind = "import"
                       /\ \/ state = "rejected"
                          \/ state = "duplicate" /\ Known(w)
                          \/ state \in {"admitted", "name_conflict"} /\ ~Known(w)
      BY <1>2, <1>3
    <2>2. cmd[w] \in Command /\ pc[w] \in Places(cmd[w].kind)
      BY <2>1 DEF WorkersOK
    <2>3. cmd[w] \in ImportCommand
      BY <2>1, <2>2, CommandTypes DEF Places
    <2>4. UNCHANGED <<sessions, candidates, revisions, receipts, ledger>>
      BY <2>1 DEF RecordAttempt
    <2> QED
      BY <2>1, <2>3, <2>4, AttemptAdded
  <1> QED
    BY <1>1, <1>3

(* The file of a session stays what it is.                                 *)
LEMMA FilesStand ==
    ASSUME AttemptsOK, AttemptsOK', attempts \subseteq attempts', NEW s, \E a \in attempts : a.no = s.attempt
    PROVE  FileOf(s)' = FileOf(s)
  <1>1. PICK a \in attempts : a.no = s.attempt
    OBVIOUS
  <1>2. (CHOOSE b \in attempts : b.no = s.attempt) = a
    BY <1>1 DEF AttemptsOK
  <1>3. (CHOOSE b \in attempts' : b.no = s.attempt) = a
    BY <1>1 DEF AttemptsOK
  <1> QED
    BY <1>2, <1>3 DEF FileOf

---------------------------------------------------------------------------
(* What a step changes of a session and of a case is covered by its locks.  *)

Touches(w, row) == \E l \in holds[w] : l.row = row

FactsOf(k) == {x \in ledger : x.case = k}

LEMMA ChangesAreLocked ==
    ASSUME WorkersOK, RevisionsOK, LocksTaken, NEW w \in Worker, Moves(w)
    PROVE  /\ sessions \subseteq sessions'
           /\ \A s : ~Touches(w, SessionRow(s)) =>
                  /\ Of(revisions, s)' = Of(revisions, s)
                  /\ Of(candidates, s)' = Of(candidates, s)
                  /\ {t \in receipts : t.request.session = s}' = {t \in receipts : t.request.session = s}
           /\ \A k : ~Touches(w, CaseRow(k)) => FactsOf(k)' = FactsOf(k)
  <1>1. CASE Write(w)
    <2>1. pc[w] = "write" /\ todo[w] = {} /\ cmd[w] \in Command
      BY <1>1, Endings DEF WorkersOK
    <2>2. CASE StoreContent(w)
      BY <2>2 DEF StoreContent, RecordAttempt, Of, FactsOf
    <2>3. CASE CreateReviewSession(w)
      BY <2>3 DEF CreateReviewSession, Of, FactsOf
    <2>4. CASE AddCandidate(w)
      <3>1. Touches(w, SessionRow(cmd[w].session))
        BY <2>1, <2>4 DEF AddCandidate, Writing, LocksTaken, Is, Touches, Share
      <3>2. \A s : s # cmd[w].session => Of(candidates, s)' = Of(candidates, s)
        BY <2>4 DEF AddCandidate, Of
      <3>3. UNCHANGED <<sessions, revisions, receipts, ledger>>
        BY <2>4 DEF AddCandidate
      <3> QED
        BY <3>1, <3>2, <3>3 DEF Of, FactsOf
    <2>5. CASE AppendReviewRevision(w)
      <3>1. Touches(w, SessionRow(cmd[w].session))
        BY <2>1, <2>5 DEF AppendReviewRevision, Writing, LocksTaken, Is, Touches, At
      <3>2. \A s : s # cmd[w].session => Of(revisions, s)' = Of(revisions, s)
        BY <2>5 DEF AppendReviewRevision, Of
      <3>3. UNCHANGED <<sessions, candidates, receipts, ledger>>
        BY <2>5 DEF AppendReviewRevision
      <3> QED
        BY <3>1, <3>2, <3>3 DEF Of, FactsOf
    <2>6. CASE AcceptDocument(w)
      <3>1. cmd[w].kind = "accept"
        BY <2>6 DEF AcceptDocument, Writing
      <3>2. Touches(w, SessionRow(cmd[w].session)) /\ Touches(w, CaseRow(cmd[w].session.case))
        BY <2>1, <3>1 DEF LocksTaken, Is, Touches, At
      <3>3. \A r \in Latest(cmd[w].session) :
                r.session = cmd[w].session /\ [r EXCEPT !.no = cmd[w].no + 1, !.state = "accepted"].session = r.session
        BY DEF Latest, Of, RevisionsOK
      <3>4. \A s : s # cmd[w].session => Of(revisions, s)' = Of(revisions, s)
        <4> SUFFICES ASSUME NEW s, s # cmd[w].session
                     PROVE  Of(revisions, s)' = Of(revisions, s)
          OBVIOUS
        <4>1. PICK new : new = {[r EXCEPT !.no = cmd[w].no + 1, !.state = "accepted"] : r \in Latest(cmd[w].session)}
          OBVIOUS
        <4>2. revisions' = revisions \union new
          BY <2>6, <4>1 DEF AcceptDocument
        <4>3. \A r \in new : r.session = cmd[w].session
          BY <3>3, <4>1
        <4> QED
          BY <4>2, <4>3 DEF Of
      <3>5. \A s : s # cmd[w].session =>
                {t \in receipts : t.request.session = s}' = {t \in receipts : t.request.session = s}
        <4>1. PICK new : new = [request |-> cmd[w]]
          OBVIOUS
        <4>2. receipts' = receipts \union {new} /\ new.request = cmd[w]
          BY <2>6, <4>1 DEF AcceptDocument
        <4> QED
          BY <4>2
      <3>6. \A k : k # cmd[w].session.case => FactsOf(k)' = FactsOf(k)
        <4>1. PICK new : new = {[case |-> cmd[w].session.case, file |-> FileOf(cmd[w].session), fact |-> f,
                                 by |-> cmd[w].session.attempt] : f \in cmd[w].selected}
          OBVIOUS
        <4>2. ledger' = ledger \union new
          BY <2>6, <4>1 DEF AcceptDocument
        <4>3. \A x \in new : x.case = cmd[w].session.case
          BY <4>1
        <4> QED
          BY <4>2, <4>3 DEF FactsOf
      <3>7. UNCHANGED <<sessions, candidates>>
        BY <2>6 DEF AcceptDocument
      <3> QED
        BY <3>2, <3>4, <3>5, <3>6, <3>7 DEF Of
    <2>7. CASE AddEvidence(w)
      <3>1. Touches(w, CaseRow(cmd[w].case))
        BY <2>1, <2>7 DEF AddEvidence, Writing, LocksTaken, Is, Touches, Share
      <3>2. \A k : k # cmd[w].case => FactsOf(k)' = FactsOf(k)
        BY <2>7 DEF AddEvidence, FactsOf
      <3>3. UNCHANGED <<sessions, candidates, receipts, revisions>>
        BY <2>7 DEF AddEvidence
      <3> QED
        BY <3>1, <3>2, <3>3 DEF Of
    <2> QED
      BY <1>1, <2>2, <2>3, <2>4, <2>5, <2>6, <2>7 DEF Write
  <1>2. CASE ~Write(w)
    <2>1. UNCHANGED <<sessions, candidates, revisions, receipts, ledger>>
      BY <1>2, Endings DEF Moves, Uploads, Start, Lock, Proceed, LookUpContent, ExtractText, AdmitContent,
                           Advance, RecordAttempt, rows
    <2> QED
      BY <2>1 DEF Of, FactsOf
  <1> QED
    BY <1>1, <1>2
---------------------------------------------------------------------------
(* What a command has checked stays so until it writes.                     *)

LEMMA Numbers ==
    ASSUME RevisionsOK, NEW s \in sessions
    PROVE  /\ LatestNumber(s) \in Nat /\ {r.no : r \in Of(revisions, s)} = 1..LatestNumber(s)
           /\ \A r \in Of(revisions, s) : r.no \in 1..LatestNumber(s)
           /\ \A n \in 1..LatestNumber(s) : \E r \in Of(revisions, s) : r.no = n
  <1>1. PICK n \in Nat : {r.no : r \in Of(revisions, s)} = 1..n
    BY DEF RevisionsOK
  <1>2. PICK numbers : numbers = {r.no : r \in Of(revisions, s)} /\ numbers = 1..n
    BY <1>1
  <1>3. LatestNumber(s) = IF numbers = {} THEN 0 ELSE CHOOSE x \in numbers : \A m \in numbers : m <= x
    BY <1>2 DEF LatestNumber
  <1>4. CASE n = 0
    <2>1. 1..n = {}
      BY <1>4
    <2>2. numbers = {}
      BY <1>2, <2>1
    <2>3. LatestNumber(s) = 0 /\ Of(revisions, s) = {}
      BY <1>2, <1>3, <2>2
    <2> QED
      BY <1>2, <1>4, <2>1, <2>3
  <1>5. CASE n # 0
    <2>1. n \in numbers /\ numbers # {} /\ \A m \in numbers : m <= n
      BY <1>2, <1>5
    <2>2. \A x \in numbers : (\A m \in numbers : m <= x) => x = n
      BY <1>2, <2>1
    <2>3. LatestNumber(s) = n
      BY <1>3, <2>1, <2>2
    <2> QED
      BY <1>2, <2>3
  <1> QED
    BY <1>4, <1>5

LEMMA SessionKept ==
    ASSUME NEW s, Of(revisions, s)' = Of(revisions, s), Of(candidates, s)' = Of(candidates, s)
    PROVE  /\ LatestNumber(s)' = LatestNumber(s) /\ Latest(s)' = Latest(s)
           /\ Terminal(s)' <=> Terminal(s)
           /\ ItemsOf(s)' = ItemsOf(s)
  <1>1. LatestNumber(s)' = LatestNumber(s)
    BY DEF LatestNumber
  <1>2. Latest(s)' = Latest(s)
    BY <1>1 DEF Latest
  <1> QED
    BY <1>1, <1>2 DEF Terminal, ItemsOf

LEMMA OthersStillChecked ==
    ASSUME Inv, NEW w \in Worker, Moves(w), NEW v \in Worker \ {w}
    PROVE  Checked(v)'
  <1>1. Stands(v)
    BY OthersStand DEF Inv
  <1>2. PICK c : c = cmd[v] /\ cmd'[v] = c
    BY <1>1 DEF Stands
  <1>3. \A kind : Is(v, kind)' <=> Is(v, kind)
    BY <1>1 DEF Stands, Is
  <1>4. AttemptsOK' /\ attempts \subseteq attempts' /\ sessions \subseteq sessions'
    BY AttemptsStep, ChangesAreLocked DEF Inv, RowsOK
  <1>5. Is(v, "open") /\ pc[v] = "write" => OpenAllowed(c)'
    BY <1>2, <1>4 DEF Inv, StillChecked, Checked, OpenAllowed
  <1>6. Is(v, "add") /\ pc[v] = "write" => c.session \in sessions'
    BY <1>2, <1>4 DEF Inv, StillChecked, Checked
  <1>7. ASSUME At(0, SessionRow(c.session)) \in holds[v]
        PROVE  /\ Of(revisions, c.session)' = Of(revisions, c.session)
               /\ Of(candidates, c.session)' = Of(candidates, c.session)
               /\ {t \in receipts : t.request.session = c.session}' = {t \in receipts : t.request.session = c.session}
    <2>1. ~Touches(w, SessionRow(c.session))
      BY <1>7 DEF Inv, Exclusive, Touches, At
    <2> QED
      BY <2>1, ChangesAreLocked DEF Inv, RowsOK
  <1>8. Is(v, "revise") /\ pc[v] = "write" => ReviseAllowed(c)'
    <2> SUFFICES ASSUME Is(v, "revise"), pc[v] = "write"
                 PROVE  ReviseAllowed(c)'
      OBVIOUS
    <2>1. ReviseAllowed(c)
      BY <1>2 DEF Inv, StillChecked, Checked
    <2>2. At(0, SessionRow(c.session)) \in holds[v]
      BY <1>2 DEF Inv, LocksTaken
    <2>3. PICK s : s = c.session
      OBVIOUS
    <2>4. /\ LatestNumber(s)' = LatestNumber(s) /\ (Terminal(s)' <=> Terminal(s)) /\ ItemsOf(s)' = ItemsOf(s)
      BY <1>7, <2>2, <2>3, SessionKept
    <2> QED
      BY <1>4, <2>1, <2>3, <2>4 DEF ReviseAllowed
  <1>9. ASSUME Is(v, "accept"), pc[v] # "session"
        PROVE  (Receipt(c) = {})' /\ Acceptable(c)' /\ Latest(c.session)' = Latest(c.session)
               /\ ItemsOf(c.session)' = ItemsOf(c.session)
    <2>1. Receipt(c) = {} /\ Acceptable(c)
      BY <1>2, <1>9 DEF Inv, StillChecked, Checked
    <2>2. At(0, SessionRow(c.session)) \in holds[v]
      BY <1>2, <1>9 DEF Inv, LocksTaken
    <2>3. PICK s : s = c.session
      OBVIOUS
    <2>4. /\ LatestNumber(s)' = LatestNumber(s) /\ (Terminal(s)' <=> Terminal(s)) /\ ItemsOf(s)' = ItemsOf(s)
          /\ Latest(s)' = Latest(s)
      BY <1>7, <2>2, <2>3, SessionKept
    <2>5. Receipt(c)' = Receipt(c)
      BY <1>7, <2>2 DEF Receipt
    <2> QED
      BY <1>4, <2>1, <2>3, <2>4, <2>5 DEF Acceptable
  <1>10. Is(v, "accept") /\ pc[v] = "write" => AcceptAllowed(c)'
    <2> SUFFICES ASSUME Is(v, "accept"), pc[v] = "write"
                 PROVE  AcceptAllowed(c)'
      OBVIOUS
    <2>1. AcceptAllowed(c) /\ c.session \in sessions
      BY <1>2 DEF Inv, StillChecked, Checked, Acceptable
    <2>2. PICK s, k : s = c.session /\ k = s.case
      OBVIOUS
    <2>3. At(0, CaseRow(k)) \in holds[v]
      BY <1>2, <2>2 DEF Inv, LocksTaken
    <2>4. ~Touches(w, CaseRow(k))
      BY <2>3 DEF Inv, Exclusive, Touches, At
    <2>5. FactsOf(k)' = FactsOf(k)
      BY <2>4, ChangesAreLocked DEF Inv, RowsOK
    <2>6. FileOf(s)' = FileOf(s)
      BY <1>4, <2>1, <2>2, FilesStand DEF Inv, RowsOK, SessionsOK
    <2>7. Recorded(c) = {l.fact : l \in {x \in FactsOf(k) : x.file = FileOf(s)}}
      BY <2>2 DEF Recorded, FactsOf
    <2>8. Recorded(c)' = {l.fact : l \in {x \in FactsOf(k)' : x.file = FileOf(s)'}}
      BY <2>2 DEF Recorded, FactsOf
    <2>9. Recorded(c)' = Recorded(c)
      BY <2>5, <2>6, <2>7, <2>8
    <2>10. Latest(s)' = Latest(s) /\ ItemsOf(s)' = ItemsOf(s)
      BY <1>9, <2>2
    <2> QED
      BY <2>1, <2>2, <2>9, <2>10 DEF AcceptAllowed
  <1> QED
    BY <1>1, <1>2, <1>3, <1>5, <1>6, <1>8, <1>9, <1>10 DEF Checked, Stands

LEMMA ChecksRead ==
    ASSUME UNCHANGED rows
    PROVE  /\ \A c : OpenAllowed(c)' = OpenAllowed(c) /\ ReviseAllowed(c)' = ReviseAllowed(c)
                     /\ Receipt(c)' = Receipt(c) /\ Acceptable(c)' = Acceptable(c)
                     /\ AcceptAllowed(c)' = AcceptAllowed(c)
           /\ sessions' = sessions
  BY DEF rows, OpenAllowed, ReviseAllowed, Receipt, Acceptable, AcceptAllowed, Terminal, Latest,
         LatestNumber, Of, ItemsOf, Recorded, FileOf

LEMMA MoverChecked ==
    ASSUME Inv, NEW w \in Worker, Moves(w)
    PROVE  Checked(w)'
  <1>1. CASE Gone(w)
    <2>1. pc'[w] = "idle"
      BY <1>1 DEF Gone, Inv, WorkersOK
    <2> QED
      BY <2>1 DEF Checked, Is
  <1>2. ASSUME NEW c \in Command, Start(w, c)
        PROVE  Checked(w)'
    <2>1. pc'[w] = FirstStage(c) /\ cmd'[w] = c
      BY <1>2 DEF Start, Inv, WorkersOK
    <2> QED
      BY <2>1, AcceptStages DEF Checked, Is
  <1>3. UNCHANGED rows =>
            /\ \A c : OpenAllowed(c)' = OpenAllowed(c) /\ ReviseAllowed(c)' = ReviseAllowed(c)
                      /\ Receipt(c)' = Receipt(c) /\ Acceptable(c)' = Acceptable(c)
                      /\ AcceptAllowed(c)' = AcceptAllowed(c)
            /\ sessions' = sessions
    BY ChecksRead
  <1>4. CASE Lock(w)
    <2>1. PICK c : c = cmd[w] /\ cmd'[w] = c
      BY <1>4 DEF Lock
    <2>2. UNCHANGED rows /\ pc' = pc
      BY <1>4 DEF Lock
    <2>3. Checked(w)
      BY DEF Inv, StillChecked
    <2> QED
      BY <1>3, <2>1, <2>2, <2>3 DEF Checked, Is
  <1>5. ASSUME NEW stage \in Places(cmd[w].kind), Advance(w, stage), pc[w] # "idle",
               \/ pc[w] \in Stages /\ todo[w] = {} /\ stage = NextStage(cmd[w], pc[w]) /\ Passes(cmd[w], pc[w])
               \/ cmd[w].kind = "import"
        PROVE  Checked(w)'
    <2>1. PICK c \in Command : c = cmd[w] /\ cmd'[w] = c /\ pc[w] \in Places(c.kind)
      BY <1>5 DEF Advance, Inv, WorkersOK
    <2>2. UNCHANGED rows /\ pc'[w] = stage
      BY <1>5 DEF Advance, Inv, WorkersOK
    <2>3. Checked(w)
      BY DEF Inv, StillChecked
    <2>4. CASE c.kind = "import"
      BY <2>1, <2>4 DEF Checked, Is
    <2>5. CASE c.kind = "open"
      <3>1. pc[w] = "check" /\ OpenAllowed(c)
        BY <1>5, <2>1, <2>5 DEF Places, Passes, Stages
      <3> QED
        BY <1>3, <2>1, <2>2, <2>5, <3>1 DEF Checked, Is
    <2>6. CASE c.kind = "add"
      <3>1. pc[w] = "check" /\ c.session \in sessions
        BY <1>5, <2>1, <2>6 DEF Places, Passes, Stages, AddAllowed
      <3> QED
        BY <1>3, <2>1, <2>2, <2>6, <3>1 DEF Checked, Is
    <2>7. CASE c.kind = "revise"
      <3>1. pc[w] = "session" /\ ReviseAllowed(c)
        BY <1>5, <2>1, <2>7 DEF Places, Passes, Stages
      <3> QED
        BY <1>3, <2>1, <2>2, <2>7, <3>1 DEF Checked, Is
    <2>8. CASE c.kind = "accept"
      <3>1. \/ pc[w] = "session" /\ stage = "case" /\ Receipt(c) = {} /\ Acceptable(c)
            \/ pc[w] = "case" /\ stage = "write" /\ AcceptAllowed(c)
        BY <1>5, <2>1, <2>8 DEF Places, Passes, Stages, NextStage
      <3>2. Receipt(c) = {} /\ Acceptable(c)
        BY <1>5, <2>1, <2>3, <2>8, <3>1 DEF Checked, Is
      <3> QED
        BY <1>3, <2>1, <2>2, <2>8, <3>1, <3>2 DEF Checked, Is
    <2>9. CASE c.kind = "record"
      BY <2>1, <2>9 DEF Checked, Is
    <2> QED
      BY <2>4, <2>5, <2>6, <2>7, <2>8, <2>9, CommandTypes
  <1> QED
    BY <1>1, <1>2, <1>4, <1>5, WorkerMoves DEF Inv
---------------------------------------------------------------------------
(* The rows after a step.                                                   *)

LEMMA SessionsStep ==
    ASSUME Inv, NEW w \in Worker, Moves(w)
    PROVE  SessionsOK'
  <1>1. attempts \subseteq attempts'
    BY AttemptsStep DEF Inv, RowsOK
  <1>2. CASE UNCHANGED <<sessions, candidates>>
    BY <1>1, <1>2 DEF Inv, RowsOK, SessionsOK
  <1>3. CASE CreateReviewSession(w)
    <2>1. pc[w] = "write" /\ cmd[w].kind = "open" /\ cmd[w] \in Command
      BY <1>3 DEF CreateReviewSession, Writing, Inv, WorkersOK
    <2>2. OpenAllowed(cmd[w])
      BY <2>1 DEF Inv, StillChecked, Checked, Is
    <2>3. cmd[w].session \in Session
      BY <2>1, CommandTypes DEF OpenCommand
    <2>4. PICK s : s = cmd[w].session /\ sessions' = sessions \union {s} /\ candidates' = candidates
      BY <1>3 DEF CreateReviewSession
    <2>5. \E a \in attempts' : a.no = s.attempt
      BY <1>1, <2>2, <2>4 DEF OpenAllowed
    <2> QED
      BY <1>1, <2>3, <2>4, <2>5 DEF Inv, RowsOK, SessionsOK
  <1>4. CASE AddCandidate(w)
    <2>1. pc[w] = "write" /\ cmd[w].kind = "add" /\ cmd[w] \in Command
      BY <1>4 DEF AddCandidate, Writing, Inv, WorkersOK
    <2>2. cmd[w].session \in sessions
      BY <2>1 DEF Inv, StillChecked, Checked, Is
    <2>3. cmd[w].item \in Item
      BY <2>1, CommandTypes DEF AddCommand
    <2>4. /\ sessions' = sessions
          /\ candidates' = candidates \union {[session |-> cmd[w].session, item |-> cmd[w].item]}
      BY <1>4 DEF AddCandidate
    <2> QED
      BY <1>1, <2>2, <2>3, <2>4 DEF Inv, RowsOK, SessionsOK
  <1>5. UNCHANGED <<sessions, candidates>> \/ CreateReviewSession(w) \/ AddCandidate(w)
    BY Endings DEF Moves, Uploads, Start, Lock, Proceed, LookUpContent, ExtractText, AdmitContent, Advance,
                   RecordAttempt, Write, StoreContent, AppendReviewRevision, AcceptDocument, AddEvidence, rows
  <1> QED
    BY <1>2, <1>3, <1>4, <1>5

LEMMA NotTerminal ==
    ASSUME RevisionsOK, NEW s \in sessions, ~Terminal(s)
    PROVE  \A r \in Of(revisions, s) : r.state \notin {"rejected", "accepted"}
  <1> SUFFICES ASSUME NEW r \in Of(revisions, s)
               PROVE  r.state \notin {"rejected", "accepted"}
    OBVIOUS
  <1>1. PICK n \in Nat : n = LatestNumber(s)
    BY Numbers
  <1>2. r.no \in 1..n /\ r \in revisions /\ r.session = s
    BY <1>1, Numbers DEF Of
  <1>3. CASE r.no = n
    BY <1>1, <1>3 DEF Terminal, Latest
  <1>4. CASE r.no < n
    <2>1. PICK q \in Of(revisions, s) : q.no = n
      BY <1>1, <1>2, Numbers
    <2> QED
      BY <1>2, <1>4, <2>1 DEF RevisionsOK, Of
  <1> QED
    BY <1>1, <1>2, <1>3, <1>4

LEMMA RevisionAdded ==
    ASSUME RevisionsOK, NEW s \in sessions, ~Terminal(s), sessions' = sessions,
           NEW new \in [session : sessions, no : Nat \ {0}, decided : SUBSET Item, selected : SUBSET Item,
                        state : {"draft", "deferred", "rejected", "accepted"}],
           new.session = s, new.no = LatestNumber(s) + 1, revisions' = revisions \union {new}
    PROVE  RevisionsOK'
  <1>1. PICK n \in Nat : n = LatestNumber(s)
    BY Numbers
  <1>2. /\ {r.no : r \in Of(revisions, s)} = 1..n /\ \A r \in Of(revisions, s) : r.no \in 1..n
        /\ new.no = n + 1
    BY <1>1, Numbers
  <1>3. Of(revisions, s)' = Of(revisions, s) \union {new}
    BY DEF Of
  <1>4. \A t \in sessions : t # s => Of(revisions, t)' = Of(revisions, t)
    BY DEF Of
  <1>5. \A t \in sessions : \E k \in Nat : {r.no : r \in Of(revisions, t)}' = 1..k
    <2>1. {r.no : r \in Of(revisions, s)}' = {r.no : r \in Of(revisions, s)} \union {n + 1}
      BY <1>2, <1>3
    <2>2. {r.no : r \in Of(revisions, s)}' = 1..(n + 1) /\ n + 1 \in Nat
      <3>1. 1..(n + 1) = 1..n \union {n + 1}
        OBVIOUS
      <3> QED
        BY <1>2, <2>1, <3>1
    <2>3. ASSUME NEW t \in sessions, t # s
          PROVE  \E k \in Nat : {r.no : r \in Of(revisions, t)}' = 1..k
      <3>1. PICK k \in Nat : {r.no : r \in Of(revisions, t)} = 1..k
        BY DEF RevisionsOK
      <3> QED
        BY <1>4, <2>3, <3>1
    <2> QED
      BY <2>2, <2>3
  <1>6. ASSUME NEW q \in revisions, q.session = s
        PROVE  q.no \in 1..n /\ q.state \notin {"rejected", "accepted"}
    BY <1>2, <1>6, NotTerminal DEF Of
  <1>7. \A q, r \in revisions' : q.session = r.session /\ q.no = r.no => q = r
    BY <1>2, <1>6 DEF RevisionsOK
  <1>8. \A q, r \in revisions' :
            q.session = r.session /\ q.no < r.no => q.state \notin {"rejected", "accepted"}
    BY <1>2, <1>6 DEF RevisionsOK
  <1> QED
    BY <1>5, <1>7, <1>8 DEF RevisionsOK

(* An acceptance copies the one latest revision.                            *)
LEMMA Accepts ==
    ASSUME Inv, NEW w \in Worker, AcceptDocument(w)
    PROVE  \E q \in revisions : \E r, t :
               /\ cmd[w] \in AcceptCommand /\ cmd[w].session \in sessions /\ ~Terminal(cmd[w].session)
               /\ sessions' = sessions /\ attempts' = attempts
               /\ q.session = cmd[w].session /\ q.no = cmd[w].no
               /\ r \in [session : sessions, no : Nat \ {0}, decided : SUBSET Item, selected : SUBSET Item,
                         state : {"draft", "deferred", "rejected", "accepted"}]
               /\ r.no = LatestNumber(cmd[w].session) + 1
               /\ t.request = cmd[w] /\ AcceptedBy(t, q, r)
               /\ revisions' = revisions \union {r} /\ receipts' = receipts \union {t}
  <1>1. pc[w] = "write" /\ cmd[w].kind = "accept" /\ cmd[w] \in Command
    BY DEF AcceptDocument, Writing, Inv, WorkersOK
  <1>2. Acceptable(cmd[w]) /\ cmd[w] \in AcceptCommand
    BY <1>1, CommandTypes DEF Inv, StillChecked, Checked, Is
  <1>3. PICK s : s = cmd[w].session
    OBVIOUS
  <1>4. PICK n \in Nat : n = cmd[w].no
    BY <1>2 DEF AcceptCommand
  <1>5. s \in sessions /\ LatestNumber(s) = n /\ n # 0 /\ ~Terminal(s)
    BY <1>2, <1>3, <1>4 DEF Acceptable
  <1>6. PICK q \in Of(revisions, s) : q.no = n
    BY <1>5, Numbers DEF Inv, RowsOK
  <1>7. Latest(s) = {q}
    BY <1>5, <1>6 DEF Latest, Of, Inv, RowsOK, RevisionsOK
  <1>8. PICK r : r = [q EXCEPT !.no = n + 1, !.state = "accepted"]
    OBVIOUS
  <1>9. q \in [session : sessions, no : Nat \ {0}, decided : SUBSET Item, selected : SUBSET Item,
               state : {"draft", "deferred", "rejected", "accepted"}] /\ q.session = s /\ q \in revisions
    BY <1>6 DEF Of, Inv, RowsOK, RevisionsOK
  <1>10. /\ r \in [session : sessions, no : Nat \ {0}, decided : SUBSET Item, selected : SUBSET Item,
                   state : {"draft", "deferred", "rejected", "accepted"}]
         /\ r.no = n + 1 /\ r.session = s /\ r.state = "accepted" /\ r.decided = q.decided /\ r.selected = q.selected
    <2>1. /\ r.no = n + 1 /\ r.session = s /\ r.state = "accepted"
          /\ r.decided = q.decided /\ r.selected = q.selected
      BY <1>8, <1>9
    <2>2. r = [session |-> q.session, no |-> n + 1, decided |-> q.decided, selected |-> q.selected,
               state |-> "accepted"]
      BY <1>8, <1>9
    <2>3. q.session \in sessions /\ q.decided \in SUBSET Item /\ q.selected \in SUBSET Item /\ n + 1 \in Nat \ {0}
      BY <1>9
    <2>4. r \in [session : sessions, no : Nat \ {0}, decided : SUBSET Item, selected : SUBSET Item,
                 state : {"draft", "deferred", "rejected", "accepted"}]
      BY <2>2, <2>3
    <2> QED
      BY <2>1, <2>4
  <1>11. PICK t : t = [request |-> cmd[w]]
    OBVIOUS
  <1>12. revisions' = revisions \union {r} /\ receipts' = receipts \union {t}
    BY <1>3, <1>4, <1>7, <1>8, <1>11 DEF AcceptDocument
  <1>13. AcceptedBy(t, q, r)
    BY <1>3, <1>4, <1>6, <1>9, <1>10, <1>11 DEF AcceptedBy
  <1>14. sessions' = sessions /\ attempts' = attempts
    BY DEF AcceptDocument
  <1> QED
    BY <1>2, <1>3, <1>4, <1>5, <1>6, <1>9, <1>10, <1>11, <1>12, <1>13, <1>14

LEMMA Revises ==
    ASSUME Inv, NEW w \in Worker, AppendReviewRevision(w)
    PROVE  \E r \in [session : sessions, no : Nat \ {0}, decided : SUBSET Item, selected : SUBSET Item,
                     state : {"draft", "deferred", "rejected", "accepted"}] :
               /\ cmd[w].session \in sessions /\ ~Terminal(cmd[w].session) /\ sessions' = sessions
               /\ r.session = cmd[w].session /\ r.no = LatestNumber(cmd[w].session) + 1
               /\ r.state # "accepted" /\ revisions' = revisions \union {r}
               /\ UNCHANGED <<attempts, receipts, ledger>>
  <1>1. pc[w] = "write" /\ cmd[w].kind = "revise" /\ cmd[w] \in Command
    BY DEF AppendReviewRevision, Writing, Inv, WorkersOK
  <1>2. ReviseAllowed(cmd[w]) /\ cmd[w] \in ReviseCommand
    BY <1>1, CommandTypes DEF Inv, StillChecked, Checked, Is
  <1>3. PICK c \in ReviseCommand : c = cmd[w]
    BY <1>2
  <1>4. c.session \in sessions /\ c.no = LatestNumber(c.session) /\ ~Terminal(c.session)
    BY <1>2, <1>3 DEF ReviseAllowed
  <1>5. c.no \in Nat /\ c.decided \in SUBSET Item /\ c.selected \in SUBSET Item
        /\ c.state \in {"draft", "deferred", "rejected"}
    BY DEF ReviseCommand
  <1>6. PICK r : r = [session |-> c.session, no |-> c.no + 1, state |-> c.state,
                      decided |-> c.decided, selected |-> c.selected]
    OBVIOUS
  <1>7. r \in [session : sessions, no : Nat \ {0}, decided : SUBSET Item, selected : SUBSET Item,
               state : {"draft", "deferred", "rejected", "accepted"}]
    BY <1>4, <1>5, <1>6
  <1>8. revisions' = revisions \union {r} /\ UNCHANGED <<attempts, sessions, receipts, ledger>>
    BY <1>3, <1>6 DEF AppendReviewRevision
  <1> QED
    BY <1>3, <1>4, <1>5, <1>6, <1>7, <1>8

LEMMA RevisionsStep ==
    ASSUME Inv, NEW w \in Worker, Moves(w)
    PROVE  RevisionsOK'
  <1>1. CASE AcceptDocument(w)
    <2>1. PICK r : \E q \in revisions, t \in receipts' :
               /\ cmd[w].session \in sessions /\ ~Terminal(cmd[w].session) /\ sessions' = sessions
               /\ r \in [session : sessions, no : Nat \ {0}, decided : SUBSET Item, selected : SUBSET Item,
                         state : {"draft", "deferred", "rejected", "accepted"}]
               /\ r.no = LatestNumber(cmd[w].session) + 1 /\ t.request = cmd[w] /\ AcceptedBy(t, q, r)
               /\ revisions' = revisions \union {r}
      BY <1>1, Accepts
    <2>2. PICK s \in sessions : s = cmd[w].session
      BY <2>1
    <2>3. r.session = s
      BY <2>1, <2>2 DEF AcceptedBy
    <2> QED
      BY <2>1, <2>2, <2>3, RevisionAdded DEF Inv, RowsOK
  <1>2. CASE AppendReviewRevision(w)
    <2>1. PICK r \in [session : sessions, no : Nat \ {0}, decided : SUBSET Item, selected : SUBSET Item,
                     state : {"draft", "deferred", "rejected", "accepted"}] :
               /\ cmd[w].session \in sessions /\ ~Terminal(cmd[w].session) /\ sessions' = sessions
               /\ r.session = cmd[w].session /\ r.no = LatestNumber(cmd[w].session) + 1
               /\ revisions' = revisions \union {r}
      BY <1>2, Revises
    <2>2. PICK s \in sessions : s = cmd[w].session
      BY <2>1
    <2> QED
      BY <2>1, <2>2, RevisionAdded DEF Inv, RowsOK
  <1>3. ASSUME revisions' = revisions, sessions \subseteq sessions'
        PROVE  RevisionsOK'
    <2>1. ASSUME NEW s \in sessions'
          PROVE  \E n \in Nat : {r.no : r \in Of(revisions, s)}' = 1..n
      <3>1. Of(revisions, s)' = Of(revisions, s)
        BY <1>3 DEF Of
      <3>2. CASE s \in sessions
        BY <3>1, <3>2 DEF Inv, RowsOK, RevisionsOK
      <3>3. CASE s \notin sessions
        <4>1. Of(revisions, s) = {}
          BY <3>3 DEF Of, Inv, RowsOK, RevisionsOK
        <4>2. {r.no : r \in Of(revisions, s)}' = 1..0 /\ 0 \in Nat
          BY <3>1, <4>1
        <4> QED
          BY <4>2
      <3> QED
        BY <3>2, <3>3
    <2>2. revisions' \subseteq [session : sessions', no : Nat \ {0}, decided : SUBSET Item, selected : SUBSET Item,
                                state : {"draft", "deferred", "rejected", "accepted"}]
      BY <1>3 DEF Inv, RowsOK, RevisionsOK
    <2> QED
      BY <1>3, <2>1, <2>2 DEF Inv, RowsOK, RevisionsOK
  <1>4. revisions' = revisions \/ AcceptDocument(w) \/ AppendReviewRevision(w)
    BY Endings DEF Moves, Uploads, Start, Lock, Proceed, LookUpContent, ExtractText, AdmitContent, Advance,
                   RecordAttempt, Write, StoreContent, CreateReviewSession, AddCandidate, AddEvidence, rows
  <1> QED
    BY <1>1, <1>2, <1>3, <1>4, ChangesAreLocked DEF Inv, RowsOK
LEMMA ReceiptsStep ==
    ASSUME Inv, NEW w \in Worker, Moves(w)
    PROVE  ReceiptsOK'
  <1>1. sessions \subseteq sessions'
    BY ChangesAreLocked DEF Inv, RowsOK
  <1>2. \A s \in sessions : s \in Session /\ s.attempt # 0
    <2> SUFFICES ASSUME NEW s \in sessions
                 PROVE  s \in Session /\ s.attempt # 0
      OBVIOUS
    <2>1. PICK a \in attempts : a.no = s.attempt
      BY DEF Inv, RowsOK, SessionsOK
    <2>2. PICK n \in Nat : n = Cardinality(attempts)
      BY FS_CardinalityType DEF Inv, RowsOK, AttemptsOK
    <2>3. a.no \in 1..n
      BY <2>2 DEF Inv, RowsOK, AttemptsOK
    <2>4. s.attempt # 0
      BY <2>1, <2>3
    <2> QED
      BY <2>4 DEF Inv, RowsOK, SessionsOK
  <1>3. CASE UNCHANGED <<revisions, receipts, ledger>>
    BY <1>1, <1>3 DEF Inv, RowsOK, ReceiptsOK, AcceptedBy, FactsBy
  <1>4. CASE AppendReviewRevision(w)
    <2>1. PICK r : /\ r.state # "accepted" /\ revisions' = revisions \union {r}
                   /\ UNCHANGED <<receipts, ledger>>
      BY <1>4, Revises
    <2> QED
      BY <1>1, <2>1 DEF Inv, RowsOK, ReceiptsOK, AcceptedBy, FactsBy
  <1>5. CASE AddEvidence(w)
    <2>1. PICK new : new = [case |-> cmd[w].case, file |-> cmd[w].file, fact |-> cmd[w].fact, by |-> 0]
      OBVIOUS
    <2>2. ledger' = ledger \union {new} /\ new.by = 0 /\ UNCHANGED <<revisions, receipts>>
      BY <1>5, <2>1 DEF AddEvidence
    <2>3. ASSUME NEW s \in sessions
          PROVE  FactsBy(s)' = FactsBy(s)
      <3>1. {x \in ledger' : x.by = s.attempt /\ x.case = s.case} = {x \in ledger : x.by = s.attempt /\ x.case = s.case}
        BY <1>2, <2>2
      <3> QED
        BY <3>1 DEF FactsBy
    <2> QED
      BY <1>1, <2>2, <2>3 DEF Inv, RowsOK, ReceiptsOK, AcceptedBy
  <1>6. CASE AcceptDocument(w)
    <2>1. PICK r, t : \E q \in revisions :
               /\ cmd[w] \in AcceptCommand /\ cmd[w].session \in sessions /\ ~Terminal(cmd[w].session)
               /\ t.request = cmd[w] /\ AcceptedBy(t, q, r)
               /\ revisions' = revisions \union {r} /\ receipts' = receipts \union {t}
      BY <1>6, Accepts
    <2>2. PICK s \in sessions : s = cmd[w].session
      BY <2>1
    <2>3. \A q \in revisions : q.session = s => q.state # "accepted"
      BY <2>1, <2>2, NotTerminal DEF Inv, RowsOK, Of
    <2>4. \A u \in receipts : u.request.session # s
      BY <2>3 DEF Inv, RowsOK, ReceiptsOK, AcceptedBy
    <2>5. PICK facts : facts = {[case |-> s.case, file |-> FileOf(s), fact |-> f, by |-> s.attempt] :
                                    f \in cmd[w].selected}
      OBVIOUS
    <2>6. ledger' = ledger \union facts
      BY <1>6, <2>2, <2>5 DEF AcceptDocument
    <2>7. \A l \in facts : l.case = s.case /\ l.by = s.attempt
      BY <2>5
    <2>8. \A x, y \in sessions : x.attempt = y.attempt /\ x.case = y.case => x = y
      BY <1>2 DEF Session
    <2>9. s = [attempt |-> s.attempt, case |-> s.case]
      BY <1>2 DEF Session
    <2>10. \A l \in ledger : ~(l.by = s.attempt /\ l.case = s.case)
      <3> SUFFICES ASSUME NEW l \in ledger, l.by = s.attempt, l.case = s.case
                   PROVE  FALSE
        OBVIOUS
      <3>1. PICK u \in receipts : u.request.session = [attempt |-> l.by, case |-> l.case]
        BY <1>2 DEF Inv, RowsOK, ReceiptsOK
      <3> QED
        BY <2>4, <2>9, <3>1
    <2>11. FactsBy(s)' = cmd[w].selected
      <3>1. {x \in ledger' : x.by = s.attempt /\ x.case = s.case} = facts
        BY <2>6, <2>7, <2>10
      <3>2. {l.fact : l \in facts} = cmd[w].selected
        <4>1. \A l \in facts : l.fact \in cmd[w].selected
          BY <2>5
        <4>2. ASSUME NEW f \in cmd[w].selected
              PROVE  \E l \in facts : l.fact = f
          <5>1. PICK l : l = [case |-> s.case, file |-> FileOf(s), fact |-> f, by |-> s.attempt]
            OBVIOUS
          <5>2. l \in facts
            BY <2>5, <5>1
          <5>3. l.fact = f
            BY <5>1
          <5> QED
            BY <5>2, <5>3
        <4> QED
          BY <4>1, <4>2
      <3> QED
        BY <3>1, <3>2 DEF FactsBy
    <2>12. ASSUME NEW u \in sessions, u # s
           PROVE  FactsBy(u)' = FactsBy(u)
      <3>1. {x \in ledger' : x.by = u.attempt /\ x.case = u.case} = {x \in ledger : x.by = u.attempt /\ x.case = u.case}
        BY <2>6, <2>7, <2>8, <2>12
      <3> QED
        BY <3>1 DEF FactsBy
    <2>13. \A u \in receipts' : u.request \in AcceptCommand /\ u.request.session \in sessions'
      BY <1>1, <2>1 DEF Inv, RowsOK, ReceiptsOK
    <2>14. \A u \in receipts' : \E q, v \in revisions' : AcceptedBy(u, q, v)
      BY <2>1 DEF Inv, RowsOK, ReceiptsOK
    <2>15. \A u \in receipts' : u.request.selected = FactsBy(u.request.session)'
      <3>1. t.request.selected = FactsBy(s)' /\ t.request.session = s
        BY <2>1, <2>2, <2>11
      <3>2. ASSUME NEW u \in receipts
            PROVE  u.request.selected = FactsBy(u.request.session)'
        <4>1. PICK v \in sessions : v = u.request.session /\ v # s
          BY <2>4 DEF Inv, RowsOK, ReceiptsOK
        <4>2. u.request.selected = FactsBy(v)
          BY <4>1 DEF Inv, RowsOK, ReceiptsOK
        <4> QED
          BY <2>12, <4>1, <4>2
      <3> QED
        BY <2>1, <3>1, <3>2
    <2>16. \A v \in revisions' : v.state = "accepted" => \E u \in receipts' : u.request.session = v.session
      <3>1. r.session = t.request.session
        BY <2>1 DEF AcceptedBy
      <3> QED
        BY <2>1, <3>1 DEF Inv, RowsOK, ReceiptsOK
    <2>17. \A l \in ledger' : l.by # 0 =>
               \E u \in receipts' : u.request.session = [attempt |-> l.by, case |-> l.case]
      <3>1. ASSUME NEW l \in ledger, l.by # 0
            PROVE  \E u \in receipts' : u.request.session = [attempt |-> l.by, case |-> l.case]
        BY <2>1, <3>1 DEF Inv, RowsOK, ReceiptsOK
      <3>2. ASSUME NEW l \in facts
            PROVE  \E u \in receipts' : u.request.session = [attempt |-> l.by, case |-> l.case]
        <4>1. t.request.session = s /\ t \in receipts'
          BY <2>1, <2>2
        <4> QED
          BY <2>7, <2>9, <3>2, <4>1
      <3> QED
        BY <2>6, <3>1, <3>2
    <2> QED
      BY <2>13, <2>14, <2>15, <2>16, <2>17 DEF ReceiptsOK
  <1>7. UNCHANGED <<revisions, receipts, ledger>> \/ AppendReviewRevision(w) \/ AcceptDocument(w) \/ AddEvidence(w)
    BY Endings DEF Moves, Uploads, Start, Lock, Proceed, LookUpContent, ExtractText, AdmitContent, Advance,
                   RecordAttempt, Write, StoreContent, CreateReviewSession, AddCandidate, rows
  <1> QED
    BY <1>3, <1>4, <1>5, <1>6, <1>7

LEMMA InvStep ==
    ASSUME Inv, [Next]_vars
    PROVE  Inv'
  <1>1. CASE UNCHANGED vars
    <2>1. /\ RowsOK' /\ WorkersOK'
      BY <1>1 DEF Inv, RowsOK, WorkersOK, vars, rows, AttemptsOK, SessionsOK, RevisionsOK, ReceiptsOK,
                  ContentStoredOnce, Stored, Of, AcceptedBy, FactsBy
    <2>2. LocksTaken' /\ Exclusive'
      BY <1>1 DEF Inv, LocksTaken, Exclusive, Is, vars
    <2>3. StillChecked'
      <3> SUFFICES ASSUME NEW w \in Worker
                   PROVE  Checked(w)'
        BY DEF StillChecked
      <3>1. PICK c : c = cmd[w] /\ cmd'[w] = c
        BY <1>1 DEF vars
      <3>2. Checked(w)
        BY DEF Inv, StillChecked
      <3> QED
        BY <1>1, <3>1, <3>2, ChecksRead DEF Checked, Is, vars, rows
    <2> QED
      BY <2>1, <2>2, <2>3 DEF Inv
  <1>2. ASSUME NEW w \in Worker, Moves(w)
        PROVE  Inv'
    <2>1. RowsOK'
      BY <1>2, AttemptsStep, SessionsStep, RevisionsStep, ReceiptsStep DEF Inv, RowsOK
    <2>2. WorkersOK' /\ LocksTaken' /\ Exclusive'
      BY <1>2, WorkersStep, LocksStep DEF Inv
    <2>3. StillChecked'
      BY <1>2, OthersStillChecked, MoverChecked DEF StillChecked
    <2> QED
      BY <2>1, <2>2, <2>3 DEF Inv
  <1> QED
    BY <1>1, <1>2, Steps
---------------------------------------------------------------------------
(* The histories.                                                          *)

LEMMA FirstRows ==
    ASSUME Init
    PROVE  RowsOK
  <1>1. PICK h \in History : \E items \in FirstItems(h) :
            /\ attempts \in FirstAttempts(h) /\ sessions \in FirstSessions(h)
            /\ candidates = [session : sessions, item : items]
            /\ revisions = {FirstRevision(s, items) : s \in sessions}
    BY DEF Init
  <1>0. PICK items \in FirstItems(h) :
            /\ attempts \in FirstAttempts(h) /\ sessions \in FirstSessions(h)
            /\ candidates = [session : sessions, item : items]
            /\ revisions = {FirstRevision(s, items) : s \in sessions}
    BY <1>1
  <1>2. receipts = {} /\ ledger = {}
    BY DEF Init
  <1>3. CASE h = "empty"
    <2>1. attempts = {} /\ sessions = {}
      BY <1>0, <1>3 DEF FirstAttempts, FirstSessions
    <2>2. candidates = {} /\ revisions = {}
      BY <1>0, <2>1
    <2>3. AttemptsOK /\ ContentStoredOnce
      BY <2>1, FS_EmptySet DEF AttemptsOK, ContentStoredOnce
    <2> QED
      BY <1>2, <2>1, <2>2, <2>3 DEF RowsOK, SessionsOK, RevisionsOK, ReceiptsOK
  <1>4. CASE h # "empty"
    <2>1. PICK f \in File, names \in {p \in Name \X Name : p[1] # p[2]} :
              attempts = {[no |-> 1, file |-> f, name |-> names[1], state |-> "admitted"],
                          [no |-> 2, file |-> f, name |-> names[2], state |-> "duplicate"]}
      BY <1>0, <1>4 DEF FirstAttempts
    <2>2. PICK a, b : /\ a = [no |-> 1, file |-> f, name |-> names[1], state |-> "admitted"]
                      /\ b = [no |-> 2, file |-> f, name |-> names[2], state |-> "duplicate"]
      OBVIOUS
    <2>3. /\ attempts = {a, b} /\ a.no = 1 /\ b.no = 2 /\ a.file = f /\ b.file = f
          /\ a.name \in Name /\ b.name \in Name /\ a.state = "admitted" /\ b.state = "duplicate"
      BY <2>1, <2>2
    <2>4. IsFiniteSet(attempts) /\ Cardinality(attempts) = 2
      <3>1. IsFiniteSet({}) /\ Cardinality({}) = 0
        BY FS_EmptySet
      <3>2. IsFiniteSet({a}) /\ Cardinality({a}) = 1
        BY FS_Singleton
      <3>3. b \notin {a} /\ attempts = {a} \union {b}
        BY <2>3
      <3>4. IsFiniteSet({a} \union {b}) /\ Cardinality({a} \union {b}) = 1 + 1
        BY <3>2, <3>3, FS_AddElement
      <3> QED
        BY <3>3, <3>4
    <2>5. AttemptsOK
      BY <2>3, <2>4 DEF AttemptsOK
    <2>6. Stored = {a}
      BY <2>3 DEF Stored
    <2>7. ContentStoredOnce
      BY <2>3, <2>6 DEF ContentStoredOnce
    <2>8. PICK c \in Case : sessions = [attempt : {1, 2}, case : {c}]
      BY <1>0, <1>4 DEF FirstSessions
    <2>9. sessions \subseteq Session /\ \A s \in sessions : s.attempt \in {1, 2}
      BY <2>8 DEF Session
    <2>10. items \subseteq Item
      BY <1>0, <1>4 DEF FirstItems, Item
    <2>11. SessionsOK
      <3>1. \A s \in sessions : \E x \in attempts : x.no = s.attempt
        BY <2>3, <2>9
      <3>2. candidates \subseteq [session : sessions, item : Item]
        BY <1>0, <2>10
      <3> QED
        BY <2>9, <3>1, <3>2 DEF SessionsOK
    <2>12. \A r \in revisions : /\ r.session \in sessions /\ r = FirstRevision(r.session, items)
                                /\ r.no = 1 /\ r.state = "draft"
      BY <1>0 DEF FirstRevision
    <2>13. ASSUME NEW s \in sessions
           PROVE  \E n \in Nat : {r.no : r \in Of(revisions, s)} = 1..n
      <3>1. PICK r : r = FirstRevision(s, items)
        OBVIOUS
      <3>2. r \in revisions /\ r.session = s /\ r.no = 1
        BY <1>0, <3>1 DEF FirstRevision
      <3>3. Of(revisions, s) = {r}
        BY <2>12, <3>1, <3>2 DEF Of
      <3>4. {q.no : q \in Of(revisions, s)} = 1..1 /\ 1 \in Nat
        BY <3>2, <3>3
      <3> QED
        BY <3>4
    <2>14. RevisionsOK
      <3>1. revisions \subseteq [session : sessions, no : Nat \ {0}, decided : SUBSET Item, selected : SUBSET Item,
                                 state : {"draft", "deferred", "rejected", "accepted"}]
        BY <2>10, <2>12 DEF FirstRevision
      <3>2. \A q, r \in revisions : q.session = r.session /\ q.no = r.no => q = r
        BY <2>12
      <3>3. \A q, r \in revisions : q.session = r.session /\ q.no < r.no => q.state \notin {"rejected", "accepted"}
        BY <2>12
      <3> QED
        BY <2>13, <3>1, <3>2, <3>3 DEF RevisionsOK
    <2>15. ReceiptsOK
      BY <1>2, <2>12 DEF ReceiptsOK
    <2> QED
      BY <2>5, <2>7, <2>11, <2>14, <2>15 DEF RowsOK
  <1> QED
    BY <1>3, <1>4

LEMMA InvBegins ==
    ASSUME Init
    PROVE  Inv
  <1>1. \A w \in Worker : pc[w] = "idle" /\ cmd[w] = NoCommand /\ todo[w] = {} /\ holds[w] = {}
    BY DEF Init
  <1>2. WorkersOK
    BY ReviewAssumption DEF Init, WorkersOK, ReviewAssumption
  <1>3. LocksTaken /\ Exclusive /\ StillChecked
    BY <1>1 DEF LocksTaken, Exclusive, StillChecked, Checked, Is
  <1> QED
    BY <1>2, <1>3, FirstRows DEF Inv

(* The rows keep their references, the revisions of a session are numbered   *)
(* 1, 2, 3, ... and only the last one may be terminal, and what a command    *)
(* has checked under its locks stays so until it writes                     *)
(* (document_import_commands.py).                                           *)
THEOREM ReviewRecords == Spec => []Inv
  <1>1. Init => Inv
    BY InvBegins
  <1>2. Inv /\ [Next]_vars => Inv'
    BY InvStep
  <1> QED
    BY <1>1, <1>2, PTL DEF Spec

(* What a revision or an acceptance was checked against is still so when it  *)
(* is written, however many commands of whatever kind run at once.          *)
THEOREM LocksSuffice == Spec => []LocksCoverChecks
  <1>1. Inv => LocksCoverChecks
    BY DEF Inv, StillChecked, Checked, LocksCoverChecks, Is
  <1> QED
    BY <1>1, ReviewRecords, PTL

(* An acceptance leaves its receipt, the accepted revision with the          *)
(* decisions of the one it accepts, and exactly the selected facts, or       *)
(* nothing, wherever it fails.                                              *)
THEOREM AcceptancesAreWhole == Spec => []AcceptanceIsWhole
  <1>1. ASSUME Inv
        PROVE  AcceptanceIsWhole
    <2>1. ASSUME NEW t \in receipts, NEW s, s = t.request.session,
                 NEW q \in {r \in Of(revisions, s) : r.no = t.request.no}
          PROVE  \E r \in {x \in Of(revisions, s) : x.no = t.request.no + 1} :
                     r.state = "accepted" /\ r.decided = q.decided /\ r.selected = q.selected
      <3>1. PICK p \in revisions, r \in revisions : AcceptedBy(t, p, r)
        BY <1>1 DEF Inv, RowsOK, ReceiptsOK
      <3>2. p = q
        BY <1>1, <2>1, <3>1 DEF Inv, RowsOK, RevisionsOK, Of, AcceptedBy
      <3> QED
        BY <2>1, <3>1, <3>2 DEF AcceptedBy, Of
    <2>2. \A t \in receipts :
              t.request.selected = {l.fact : l \in {x \in ledger : /\ x.by = t.request.session.attempt
                                                                  /\ x.case = t.request.session.case}}
      BY <1>1 DEF Inv, RowsOK, ReceiptsOK, FactsBy
    <2>3. /\ \A r \in revisions : r.state = "accepted" => \E t \in receipts : t.request.session = r.session
          /\ \A l \in ledger : l.by # 0 =>
                 \E t \in receipts : t.request.session = [attempt |-> l.by, case |-> l.case]
      BY <1>1 DEF Inv, RowsOK, ReceiptsOK
    <2> QED
      BY <2>1, <2>2, <2>3 DEF AcceptanceIsWhole
  <1>2. Inv => AcceptanceIsWhole
    BY <1>1
  <1> QED
    BY <1>2, ReviewRecords, PTL

(* A content is stored once and a duplicate refers to one stored before it,  *)
(* whatever is uploaded at the same time.                                   *)
THEOREM ContentsHold == Spec => []ContentStoredOnce
  <1>1. Inv => ContentStoredOnce
    BY DEF Inv, RowsOK
  <1> QED
    BY <1>1, ReviewRecords, PTL

(* An acceptance whose exact request has a receipt is never refused.         *)
THEOREM RequestsAnswered == Spec => RequestsConverge
  <1>1. ASSUME Inv, [Next]_vars, NEW w \in Worker, cmd[w].kind = "accept", pc[w] # "idle",
               reply'[w] \in {"refused", "conflict"}, NEW t \in receipts, t.request = cmd[w]
        PROVE  FALSE
    <2>1. reply[w] = "none" /\ pc[w] \in {"session", "case", "write"}
      BY <1>1 DEF Inv, WorkersOK, Places
    <2>2. t \in Receipt(cmd[w])
      BY <1>1 DEF Receipt
    <2>3. pc[w] = "session"
      BY <1>1, <2>1, <2>2 DEF Inv, StillChecked, Checked, Is
    <2>4. Moves(w)
      <3>1. reply' # reply
        BY <1>1, <2>1
      <3>2. PICK v \in Worker : Moves(v)
        BY <1>1, <3>1, Steps DEF vars
      <3>3. v # w => reply'[w] = reply[w]
        BY <1>1, <3>2, OthersStand DEF Stands, Inv
      <3> QED
        BY <1>1, <2>1, <3>2, <3>3
    <2>5. Replays(cmd[w]) /\ Repeats(cmd[w], "session")
      BY <1>1, <2>2 DEF Repeats, Replays
    <2>6. ~Refuse(w)
      BY <2>3, <2>5 DEF Refuse
    <2>7. ~Conflict(w) /\ ~Write(w)
      BY <2>3, Endings DEF Conflict
    <2>8. ~Uploads(w)
      BY <2>3 DEF Uploads, LookUpContent, ExtractText, AdmitContent
    <2>9. ~(\E c \in Command : Start(w, c))
      BY <1>1 DEF Start
    <2>10. Lock(w) \/ Proceed(w) => reply' = reply
      BY DEF Lock, Proceed, Advance
    <2>11. Repeat(w) \/ DeadlockVictim(w) \/ RollBack(w) => reply'[w] \in {"replayed", "failed"}
      BY <1>1 DEF Repeat, DeadlockVictim, RollBack, End, Inv, WorkersOK
    <2> QED
      BY <1>1, <2>1, <2>4, <2>6, <2>7, <2>8, <2>9, <2>10, <2>11 DEF Moves
  <1>2. Inv /\ [Next]_vars =>
            [\A w \in Worker :
                cmd[w].kind = "accept" /\ pc[w] # "idle" /\ reply'[w] \in {"refused", "conflict"} =>
                    \A t \in receipts : t.request # cmd[w]]_vars
    BY <1>1
  <1> QED
    BY <1>2, ReviewRecords, PTL DEF Spec, RequestsConverge

=============================================================================
