--------------------------- MODULE DocumentReview ---------------------------
(***************************************************************************)
(* Import of local PDF files, review of what they say, and acceptance of    *)
(* the reviewed facts into the evidence ledger                             *)
(* (document_import_commands.py, EvidenceLedgerCommandService.             *)
(* accept_reviewed_local_document).                                        *)
(*                                                                         *)
(* An upload is up to three transactions: it looks for its content, and     *)
(* extracts the text outside of any transaction, before it stores both.     *)
(* Every other command is one transaction at READ COMMITTED.  Besides the   *)
(* rows a command locks FOR UPDATE, an INSERT claims the keys of its unique *)
(* constraints and shares the rows its foreign keys name: adding a          *)
(* candidate locks nothing itself, but cannot pass a command that holds its *)
(* session.  Chronology and citations are checked against immutable rows    *)
(* and left out; the document and company identity of a review are one      *)
(* candidate, Identity.                                                     *)
(***************************************************************************)
EXTENDS Naturals, FiniteSets

CONSTANTS Worker,       \* threads and processes that run commands
          File, Name,   \* file contents, by their hash, and file names
          Case,         \* research cases
          Fact,         \* what can be said of a file: one fingerprint each
          Identity,     \* the identity candidate of a review
          Command,      \* the commands callers give
          History,      \* the histories a run may begin with
          MaxCandidates,
          MaxCommands, MaxFaults   \* bounds for TLC

Item == Fact \union {Identity}
Session == [attempt : Nat, case : Case]

ImportCommand == [kind : {"import"}, file : File, name : Name, media : {"pdf", "other"}]
OpenCommand == [kind : {"open"}, session : Session]
AddCommand == [kind : {"add"}, session : Session, item : Item]
ReviseCommand == [kind : {"revise"}, session : Session, no : Nat,
                  state : {"draft", "deferred", "rejected"},
                  decided : SUBSET Item, selected : SUBSET Item]
AcceptCommand == [kind : {"accept"}, session : Session, no : Nat, selected : SUBSET Fact, at : Nat]
RecordCommand == [kind : {"record"}, case : Case, file : File, fact : Fact]
NoCommand == [kind |-> "none"]

Histories == {"empty", "reviewed"}

ASSUME ReviewAssumption ==
    /\ Command \subseteq ImportCommand \union OpenCommand \union AddCommand
                         \union ReviseCommand \union AcceptCommand \union RecordCommand
    /\ Identity \notin Fact /\ History \subseteq Histories
    /\ MaxCandidates \in Nat /\ MaxCommands \in Nat /\ MaxFaults \in Nat

VARIABLES attempts,     \* import attempts, each with the content it refers to
          sessions,     \* review sessions
          candidates,   \* items of a session
          revisions,    \* review revisions with their decisions
          receipts,     \* acceptances with the request they executed
          ledger,       \* facts recorded in a case, by a session or by hand
          pc, cmd,      \* per worker: the step, the command
          todo, holds,  \* per worker: locks still to take, locks held
          conflicting,  \* per worker: its upload has the name of another file
          reply,        \* per worker: the answer to its command
          commands, faults

rows == <<attempts, sessions, candidates, revisions, receipts, ledger>>
vars == <<rows, pc, cmd, todo, holds, conflicting, reply, commands, faults>>

---------------------------------------------------------------------------
Stored == {a \in attempts : a.state \in {"admitted", "name_conflict"}}

Of(set, s) == {r \in set : r.session = s}

ItemsOf(s) == {c.item : c \in Of(candidates, s)}

LatestNumber(s) ==
    LET numbers == {r.no : r \in Of(revisions, s)}
    IN IF numbers = {} THEN 0 ELSE CHOOSE n \in numbers : \A m \in numbers : m <= n

Latest(s) == {r \in Of(revisions, s) : r.no = LatestNumber(s)}

Terminal(s) == \E r \in Latest(s) : r.state \in {"rejected", "accepted"}

FileOf(s) == (CHOOSE a \in attempts : a.no = s.attempt).file

Recorded(c) == {l.fact : l \in {x \in ledger : x.case = c.session.case /\ x.file = FileOf(c.session)}}

Receipt(c) == {t \in receipts : t.request.session = c.session /\ t.request.no = c.no}

(* The locks of a command: rows it selects FOR UPDATE, keys it inserts, and *)
(* rows its foreign keys share.                                            *)
At(rank, row) == [rank |-> rank, row |-> row, shared |-> FALSE]
Share(rank, row) == [rank |-> rank, row |-> row, shared |-> TRUE]

SessionRow(s) == <<"session", s>>
CaseRow(c) == <<"case", c>>
ContentKey(f) == <<"content", f>>
TargetKey(s) == <<"target", s>>
CandidateKey(s, i) == <<"candidate", s, i>>
EvidenceKey(c, f, fact) == <<"evidence", c, f, fact>>

Insertions(c) ==
    CASE c.kind = "import" -> {At(0, ContentKey(c.file))}
      [] c.kind = "open" -> {At(0, TargetKey(c.session)), Share(1, CaseRow(c.session.case))}
      [] c.kind = "add" -> {At(0, CandidateKey(c.session, c.item)), Share(1, SessionRow(c.session))}
      [] c.kind = "accept" -> {At(0, EvidenceKey(c.session.case, FileOf(c.session), f)) : f \in c.selected}
      [] c.kind = "record" -> {At(0, EvidenceKey(c.case, c.file, c.fact)), Share(1, CaseRow(c.case))}
      [] OTHER -> {}

(* Mistake: an acceptance leaves its case unlocked.                         *)
CaseUnlocked(c, stage) ==
    CASE stage = "session" -> {At(0, SessionRow(c.session))}
      [] stage = "write" -> Insertions(c)
      [] OTHER -> {}

Locks(c, stage) ==
    CASE stage = "session" -> {At(0, SessionRow(c.session))}
      [] stage = "case" -> {At(0, CaseRow(c.session.case))}
      [] stage = "write" -> Insertions(c)
      [] OTHER -> {}

---------------------------------------------------------------------------
(* The checks of each command.                                             *)

OpenAllowed(c) == \E a \in attempts : a.no = c.session.attempt /\ a.state # "rejected"

(* Nothing is locked when this is read.                                     *)
AddAllowed(c) ==
    /\ c.session \in sessions
    /\ ~Terminal(c.session)
    /\ Cardinality(Of(candidates, c.session)) < MaxCandidates

ReviseAllowed(c) ==
    /\ c.session \in sessions
    /\ c.no = LatestNumber(c.session) /\ ~Terminal(c.session)
    /\ c.decided = ItemsOf(c.session)
    /\ Identity \in c.selected /\ c.selected \subseteq c.decided

(* An acceptance names the latest revision, not yet terminal.               *)
Acceptable(c) ==
    c.session \in sessions /\ LatestNumber(c.session) = c.no /\ c.no # 0 /\ ~Terminal(c.session)

(* Every candidate is decided, the request selects what its revision does,  *)
(* and none of it is recorded in the case.                                 *)
AcceptAllowed(c) ==
    /\ \E r \in Latest(c.session) : r.decided = ItemsOf(c.session) /\ r.selected \intersect Fact = c.selected
    /\ c.selected # {}
    /\ c.selected \intersect Recorded(c) = {}

(* Mistake: an acceptance looks at the latest revision before its receipt.  *)
ReplaysLatest(c) == Acceptable(c) /\ \E t \in Receipt(c) : t.request = c

(* The exact request of a receipt is answered with it.                      *)
Replays(c) == \E t \in Receipt(c) : t.request = c

Passes(c, stage) ==
    CASE stage = "check" /\ c.kind = "open" -> OpenAllowed(c) /\ c.session \notin sessions
      [] stage = "check" /\ c.kind = "add" -> AddAllowed(c)
      [] stage = "session" /\ c.kind = "revise" -> ReviseAllowed(c)
      [] stage = "session" /\ c.kind = "accept" -> Receipt(c) = {} /\ Acceptable(c)
      [] stage = "case" -> AcceptAllowed(c)
      [] OTHER -> FALSE

(* A session that exists is returned, and so is an acceptance.              *)
Repeats(c, stage) ==
    \/ c.kind = "open" /\ stage = "check" /\ OpenAllowed(c) /\ c.session \in sessions
    \/ c.kind = "accept" /\ stage = "session" /\ Replays(c)

Refusal(c, stage) == IF c.kind = "accept" /\ stage = "session" /\ Receipt(c) # {} THEN "conflict" ELSE "refused"

FirstStage(c) ==
    CASE c.kind = "import" -> "lookup"
      [] c.kind \in {"open", "add"} -> "check"
      [] c.kind \in {"revise", "accept"} -> "session"
      [] c.kind = "record" -> "write"

NextStage(c, stage) == IF c.kind = "accept" /\ stage = "session" THEN "case" ELSE "write"

Stages == {"check", "session", "case"}

---------------------------------------------------------------------------
(* The histories: nothing at all, or a file imported under two names, each  *)
(* reviewed for the same case, with the same facts selected.                *)
FirstAttempts(h) ==
    IF h = "empty" THEN {{}}
    ELSE {{[no |-> 1, file |-> f, name |-> names[1], state |-> "admitted"],
           [no |-> 2, file |-> f, name |-> names[2], state |-> "duplicate"]} :
              f \in File, names \in {p \in Name \X Name : p[1] # p[2]}}

FirstSessions(h) == IF h = "empty" THEN {{}} ELSE {[attempt : {1, 2}, case : {c}] : c \in Case}

FirstItems(h) == IF h = "empty" THEN {{}} ELSE {{Identity, f} : f \in Fact}

FirstRevision(s, items) ==
    [session |-> s, no |-> 1, state |-> "draft", decided |-> items, selected |-> items]

Init ==
    /\ \E h \in History : \E items \in FirstItems(h) :
           /\ attempts \in FirstAttempts(h)
           /\ sessions \in FirstSessions(h)
           /\ candidates = [session : sessions, item : items]
           /\ revisions = {FirstRevision(s, items) : s \in sessions}
    /\ receipts = {} /\ ledger = {}
    /\ pc = [w \in Worker |-> "idle"]
    /\ cmd = [w \in Worker |-> NoCommand]
    /\ todo = [w \in Worker |-> {}]
    /\ holds = [w \in Worker |-> {}]
    /\ conflicting = [w \in Worker |-> FALSE]
    /\ reply = [w \in Worker |-> "none"]
    /\ commands = 0 /\ faults = 0

Start(w, c) ==
    /\ pc[w] = "idle" /\ commands < MaxCommands
    /\ commands' = commands + 1
    /\ cmd' = [cmd EXCEPT ![w] = c]
    /\ pc' = [pc EXCEPT ![w] = FirstStage(c)]
    /\ todo' = [todo EXCEPT ![w] = Locks(c, FirstStage(c))]
    /\ reply' = [reply EXCEPT ![w] = "none"]
    /\ UNCHANGED <<rows, holds, conflicting, faults>>

NextLock(w) == CHOOSE l \in todo[w] : \A m \in todo[w] : l.rank <= m.rank

Locking(w) == pc[w] \in Stages \union {"write"} /\ todo[w] # {}
Locked(w) == pc[w] \in Stages /\ todo[w] = {}

Waits(w, v) ==
    /\ w # v /\ Locking(w)
    /\ \E l \in holds[v] : l.row = NextLock(w).row /\ ~(l.shared /\ NextLock(w).shared)

Lock(w) ==
    /\ Locking(w)
    /\ \A v \in Worker : ~Waits(w, v)
    /\ holds' = [holds EXCEPT ![w] = @ \union {NextLock(w)}]
    /\ todo' = [todo EXCEPT ![w] = @ \ {NextLock(w)}]
    /\ UNCHANGED <<rows, pc, cmd, conflicting, reply, commands, faults>>

Advance(w, stage) ==
    /\ pc' = [pc EXCEPT ![w] = stage]
    /\ todo' = [todo EXCEPT ![w] = Locks(cmd[w], stage)]
    /\ UNCHANGED <<rows, cmd, holds, reply, commands, faults>>

Proceed(w) ==
    /\ Locked(w) /\ Passes(cmd[w], pc[w])
    /\ Advance(w, NextStage(cmd[w], pc[w]))
    /\ UNCHANGED conflicting

(* The end of a command: its locks are released and it is answered.         *)
End(w, answer) ==
    /\ pc' = [pc EXCEPT ![w] = "idle"]
    /\ todo' = [todo EXCEPT ![w] = {}]
    /\ holds' = [holds EXCEPT ![w] = {}]
    /\ reply' = [reply EXCEPT ![w] = answer]
    /\ conflicting' = [conflicting EXCEPT ![w] = FALSE]
    /\ UNCHANGED <<cmd, commands>>

Refuse(w) ==
    /\ Locked(w) /\ ~Passes(cmd[w], pc[w]) /\ ~Repeats(cmd[w], pc[w])
    /\ End(w, Refusal(cmd[w], pc[w]))
    /\ UNCHANGED <<rows, faults>>

Repeat(w) ==
    /\ Locked(w) /\ Repeats(cmd[w], pc[w])
    /\ End(w, "replayed")
    /\ UNCHANGED <<rows, faults>>

---------------------------------------------------------------------------
(* The steps of an upload.                                                  *)

RecordAttempt(w, state) ==
    /\ attempts' = attempts \union {[no |-> Cardinality(attempts) + 1, file |-> cmd[w].file,
                                     name |-> cmd[w].name, state |-> state]}
    /\ End(w, state)
    /\ UNCHANGED <<sessions, candidates, revisions, receipts, ledger, faults>>

Known(w) == \E a \in Stored : a.file = cmd[w].file

(* A transaction of its own: content that is stored already is not          *)
(* extracted again, nor looked for if the media type is wrong.              *)
LookUpContent(w) ==
    /\ pc[w] = "lookup"
    /\ \/ cmd[w].media = "other" /\ RecordAttempt(w, "rejected")
       \/ cmd[w].media = "pdf" /\ Known(w) /\ RecordAttempt(w, "duplicate")
       \/ cmd[w].media = "pdf" /\ ~Known(w) /\ Advance(w, "extract") /\ UNCHANGED conflicting

(* The extractor answers, or refuses the file, breaks or runs out of time.  *)
ExtractText(w) ==
    /\ pc[w] = "extract"
    /\ \/ Advance(w, "admit") /\ UNCHANGED conflicting
       \/ RecordAttempt(w, "rejected")

(* The second look for the content, and for the name of another one.        *)
AdmitContent(w) ==
    /\ pc[w] = "admit"
    /\ \/ Known(w) /\ RecordAttempt(w, "duplicate")
       \/ /\ ~Known(w)
          /\ conflicting' = [conflicting EXCEPT ![w] =
                 \E a \in attempts : a.name = cmd[w].name /\ a.file # cmd[w].file /\ a.state # "rejected"]
          /\ Advance(w, "write")

(* Mistake: the same content may be stored twice.                           *)
SameContent(c) ==
    CASE c.kind = "open" -> c.session \in sessions
      [] c.kind = "add" -> [session |-> c.session, item |-> c.item] \in candidates
      [] c.kind = "record" ->
             \E l \in ledger : l.case = c.case /\ l.file = c.file /\ l.fact = c.fact
      [] OTHER -> FALSE

(* Unique constraints.  A revision or an acceptance cannot meet one: see     *)
(* LocksCoverChecks.                                                        *)
Duplicate(c) ==
    CASE c.kind = "import" -> \E a \in Stored : a.file = c.file
      [] c.kind = "open" -> c.session \in sessions
      [] c.kind = "add" -> [session |-> c.session, item |-> c.item] \in candidates
      [] c.kind = "record" ->
             \E l \in ledger : l.case = c.case /\ l.file = c.file /\ l.fact = c.fact
      [] OTHER -> FALSE

(* The ledger answers with a conflict; the import service does not handle   *)
(* the error.                                                              *)
Conflict(w) ==
    /\ pc[w] = "write" /\ todo[w] = {} /\ Duplicate(cmd[w])
    /\ End(w, IF cmd[w].kind = "record" THEN "conflict" ELSE "integrity_error")
    /\ UNCHANGED <<rows, faults>>

Writing(w, kind) == pc[w] = "write" /\ todo[w] = {} /\ cmd[w].kind = kind /\ ~Duplicate(cmd[w])

StoreContent(w) ==
    /\ Writing(w, "import")
    /\ RecordAttempt(w, IF conflicting[w] THEN "name_conflict" ELSE "admitted")

CreateReviewSession(w) ==
    /\ Writing(w, "open") /\ End(w, "done")
    /\ sessions' = sessions \union {cmd[w].session}
    /\ UNCHANGED <<attempts, candidates, revisions, receipts, ledger, faults>>

AddCandidate(w) ==
    /\ Writing(w, "add") /\ End(w, "done")
    /\ candidates' = candidates \union {[session |-> cmd[w].session, item |-> cmd[w].item]}
    /\ UNCHANGED <<attempts, sessions, revisions, receipts, ledger, faults>>

AppendReviewRevision(w) ==
    LET c == cmd[w]
    IN /\ Writing(w, "revise") /\ End(w, "done")
       /\ revisions' = revisions \union
              {[session |-> c.session, no |-> c.no + 1, state |-> c.state,
                decided |-> c.decided, selected |-> c.selected]}
       /\ UNCHANGED <<attempts, sessions, candidates, receipts, ledger, faults>>

(* The decisions of the accepted revision are copied.                       *)
AcceptDocument(w) ==
    LET c == cmd[w]
    IN /\ Writing(w, "accept") /\ End(w, "done")
       /\ revisions' = revisions \union {[r EXCEPT !.no = c.no + 1, !.state = "accepted"] : r \in Latest(c.session)}
       /\ receipts' = receipts \union {[request |-> c]}
       /\ ledger' = ledger \union
              {[case |-> c.session.case, file |-> FileOf(c.session), fact |-> f, by |-> c.session.attempt] :
                   f \in c.selected}
       /\ UNCHANGED <<attempts, sessions, candidates, faults>>

(* Evidence recorded by hand with the fingerprint of a fact.                *)
AddEvidence(w) ==
    /\ Writing(w, "record") /\ End(w, "done")
    /\ ledger' = ledger \union
           {[case |-> cmd[w].case, file |-> cmd[w].file, fact |-> cmd[w].fact, by |-> 0]}
    /\ UNCHANGED <<attempts, sessions, candidates, revisions, receipts, faults>>

Write(w) ==
    \/ StoreContent(w) \/ CreateReviewSession(w) \/ AddCandidate(w)
    \/ AppendReviewRevision(w) \/ AcceptDocument(w) \/ AddEvidence(w)

Deadlocked(S) == S # {} /\ \A w \in S : \E v \in S : Waits(w, v)

DeadlockVictim(w) ==
    /\ \E S \in SUBSET Worker : w \in S /\ Deadlocked(S)
    /\ End(w, "failed")
    /\ UNCHANGED <<rows, faults>>

(* Mistake: the accepted facts are committed before the receipt.            *)
RollBackKeepingFacts(w) ==
    /\ pc[w] # "idle" /\ faults < MaxFaults
    /\ faults' = faults + 1
    /\ End(w, "failed")
    /\ ledger' = ledger \union
           {[case |-> cmd[w].session.case, file |-> FileOf(cmd[w].session), fact |-> f,
             by |-> cmd[w].session.attempt] :
                f \in IF pc[w] = "write" /\ cmd[w].kind = "accept" THEN cmd[w].selected ELSE {}}
    /\ UNCHANGED <<attempts, sessions, candidates, revisions, receipts>>

(* A statement fails or the process dies: the open transaction, if any, is   *)
(* rolled back.                                                            *)
RollBack(w) ==
    /\ pc[w] # "idle" /\ faults < MaxFaults
    /\ faults' = faults + 1
    /\ End(w, "failed")
    /\ UNCHANGED rows

Step(w) ==
    \/ Lock(w) \/ Proceed(w) \/ Refuse(w) \/ Repeat(w)
    \/ LookUpContent(w) \/ ExtractText(w) \/ AdmitContent(w)
    \/ Conflict(w) \/ Write(w) \/ DeadlockVictim(w)

(* The bound on commands is used up.                                       *)
Finished == commands = MaxCommands /\ (\A w \in Worker : pc[w] = "idle") /\ UNCHANGED vars

Next ==
    \/ \E w \in Worker : Step(w) \/ RollBack(w) \/ \E c \in Command : Start(w, c)
    \/ Finished

Spec == Init /\ [][Next]_vars

---------------------------------------------------------------------------
TypeOK ==
    /\ \A a \in attempts : a.no \in 1..Cardinality(attempts) /\ a.file \in File /\ a.name \in Name
    /\ sessions \subseteq Session
    /\ candidates \subseteq [session : sessions, item : Item]
    /\ \A r \in revisions : r.session \in sessions /\ r.no \in Nat \ {0}
    /\ \A t \in receipts : t.request \in AcceptCommand
    /\ pc \in [Worker -> Stages \union {"idle", "lookup", "extract", "admit", "write"}]
    /\ cmd \in [Worker -> Command \union {NoCommand}]
    /\ \A w \in Worker : pc[w] = "idle" => todo[w] = {} /\ holds[w] = {}
    /\ commands \in 0..MaxCommands /\ faults \in 0..MaxFaults

(* What a revision or an acceptance was checked against is still so when it  *)
(* is written: no candidate was added, no revision appended and no fact      *)
(* recorded in between, so that no unique constraint is left to decide.      *)
LocksCoverChecks ==
    \A w \in Worker : pc[w] = "write" =>
        /\ cmd[w].kind = "revise" => ReviseAllowed(cmd[w])
        /\ cmd[w].kind = "accept" =>
               Receipt(cmd[w]) = {} /\ Acceptable(cmd[w]) /\ AcceptAllowed(cmd[w])

(* An acceptance is all or nothing: the receipt, the accepted revision with  *)
(* the decisions of the one it accepts, and exactly the selected facts.      *)
AcceptanceIsWhole ==
    /\ \A t \in receipts :
           LET s == t.request.session
               After(n) == {r \in Of(revisions, s) : r.no = n}
           IN /\ \A q \in After(t.request.no) : \E r \in After(t.request.no + 1) :
                     r.state = "accepted" /\ r.decided = q.decided /\ r.selected = q.selected
              /\ t.request.selected = {l.fact : l \in {x \in ledger : x.by = s.attempt /\ x.case = s.case}}
    /\ \A r \in revisions : r.state = "accepted" => \E t \in receipts : t.request.session = r.session
    /\ \A l \in ledger : l.by # 0 =>
           \E t \in receipts : t.request.session = [attempt |-> l.by, case |-> l.case]

(* Whatever is uploaded at the same time, a content is stored once, and a    *)
(* duplicate refers to one stored before it.                                *)
ContentStoredOnce ==
    \A a \in attempts :
        /\ \A b \in Stored : a \in Stored /\ b.file = a.file => b = a
        /\ a.state = "duplicate" => \E b \in Stored : b.file = a.file /\ b.no < a.no

(* A request whose receipt exists is answered with it, however it was        *)
(* repeated and whatever happened since.                                    *)
RequestsConverge ==
    [][\A w \in Worker :
          cmd[w].kind = "accept" /\ pc[w] # "idle" /\ reply'[w] \in {"refused", "conflict"} =>
              \A t \in receipts : t.request # cmd[w]]_vars
=============================================================================
