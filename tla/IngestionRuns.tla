---------------------------- MODULE IngestionRuns ----------------------------
(***************************************************************************)
(* Idempotent import of complete market snapshots.                         *)
(*                                                                         *)
(* MarketDataPersistenceService.ingest_bundle (and its benchmark and       *)
(* sector twins, which follow the same protocol) uses one database         *)
(* transaction for each of: looking for an earlier success, recording a    *)
(* pending attempt, writing the rows together with the "succeeded" mark,   *)
(* recording a failure, reading the attempt back.  Nothing locks the whole *)
(* call, so concurrent calls interleave between any two transactions and   *)
(* converge only through the partial unique index on successful attempts.  *)
(*                                                                         *)
(* A batch is a (batch_identifier, series_key) pair; a snapshot's rows are *)
(* abstracted to the presence of its run in "rows", since they are         *)
(* inserted, and never again touched, by one transaction.                  *)
(***************************************************************************)
EXTENDS Naturals, FiniteSets

CONSTANTS
    Callers,      \* processes or threads that call the persistence service
    Batches,      \* (batch_identifier, series_key) pairs
    Rejected,     \* the batches whose bundle does not survive normalization
    Series,       \* snapshot series
    SeriesOf,     \* the series of each batch
    CutoffOf,     \* the information cutoff hashed into each batch
    FaultKinds,   \* which faults the database connection and host may show
    MaxCalls,     \* bound: calls made in a behaviour
    MaxFaults,    \* bound: faults in a behaviour
    MaxClock      \* bound: ticks of the wall clock

AllFaults == {"error", "lost_ack", "crash"}

ASSUME BatchAssumption ==
    /\ Batches # {} /\ Rejected \subseteq Batches
    /\ SeriesOf \in [Batches -> Series]
    /\ CutoffOf \in [Batches -> Nat]

ASSUME BoundAssumption ==
    /\ FaultKinds \subseteq AllFaults
    /\ MaxCalls \in Nat /\ MaxFaults \in Nat /\ MaxClock \in Nat

RunId == 1..MaxCalls
NoRun == 0
None  == "none"

VARIABLES
    batch,     \* ingestion_runs: (batch_identifier, series_key) of each run
    status,    \* ingestion_runs: status of each run
    imported,  \* ingestion_runs: imported_at of each run
    completed, \* ingestion_runs: completed_at of each run, 0 for NULL
    rows,      \* the runs that own snapshot rows
    lastRun,   \* the identity column's last value
    clock,     \* wall clock that imported_at and completed_at are read from
    pc,        \* per caller: the transaction it is about to run
    want,      \* per caller: the batch it imports
    mine,      \* per caller: the attempt it created
    stamp,     \* per caller: completed_at sampled inside the open transaction
    answer,    \* per caller: how its latest call ended, as far as decided
    named,     \* per caller: the run its answer names
    calls,     \* number of calls made
    faults,    \* number of faults so far
    lost       \* runs whose commit succeeded but was reported as an error

dbVars   == <<batch, status, imported, completed, rows, lastRun>>
callVars == <<pc, want, mine, stamp, answer, named, calls>>
vars     == <<dbVars, callVars, clock, faults, lost>>

Status  == {"absent", "pending", "succeeded", "failed"}
PC      == {"idle", "find", "create", "persist", "flush", "commit",
            "resolve", "fail", "read"}
InTxn   == {"flush", "commit"}
Kinds   == {None, "new", "idempotent", "recorded", "error", "integrity", "crashed"}

(* Fills the places of runs and requests that do not exist yet.            *)
AnyBatch == CHOOSE b \in Batches : TRUE

TypeOK ==
    /\ batch \in [RunId -> Batches]
    /\ status \in [RunId -> Status]
    /\ imported \in [RunId -> Nat]
    /\ completed \in [RunId -> Nat]
    /\ rows \subseteq RunId
    /\ lastRun \in 0..MaxCalls
    /\ clock \in 0..MaxClock
    /\ pc \in [Callers -> PC]
    /\ want \in [Callers -> Batches]
    /\ mine \in [Callers -> RunId \cup {NoRun}]
    /\ stamp \in [Callers -> Nat]
    /\ answer \in [Callers -> Kinds]
    /\ named \in [Callers -> RunId \cup {NoRun}]
    /\ calls \in 0..MaxCalls
    /\ faults \in 0..MaxFaults
    /\ lost \subseteq RunId

Init ==
    /\ batch = [r \in RunId |-> AnyBatch]
    /\ status = [r \in RunId |-> "absent"]
    /\ imported = [r \in RunId |-> 0]
    /\ completed = [r \in RunId |-> 0]
    /\ want = [c \in Callers |-> AnyBatch]
    /\ rows = {} /\ lastRun = 0 /\ clock = 0
    /\ pc = [c \in Callers |-> "idle"]
    /\ mine = [c \in Callers |-> NoRun]
    /\ stamp = [c \in Callers |-> 0]
    /\ answer = [c \in Callers |-> None]
    /\ named = [c \in Callers |-> NoRun]
    /\ calls = 0 /\ faults = 0 /\ lost = {}

-----------------------------------------------------------------------------
(* Queries                                                                 *)

Succeeded(r) == status[r] = "succeeded"

(* The rows of _find_successful_run: the unique index makes it at most one. *)
Winners(b) == {r \in RunId : Succeeded(r) /\ batch[r] = b}

(* Runs that an as-of read bounded by a cutoff and a recorded time may pick. *)
Eligible(s, cutoff, recorded) ==
    {r \in RunId : /\ Succeeded(r)
                   /\ SeriesOf[batch[r]] = s
                   /\ CutoffOf[batch[r]] <= cutoff
                   /\ imported[r] <= recorded
                   /\ completed[r] <= recorded}

(* ORDER BY information_cutoff_date DESC, completed_at DESC, id DESC.      *)
Outranks(r, q) ==
    LET cr == CutoffOf[batch[r]]   cq == CutoffOf[batch[q]]
        tr == completed[r]         tq == completed[q]
    IN  cr > cq \/ (cr = cq /\ (tr > tq \/ (tr = tq /\ r >= q)))

(* The runs a snapshot read selects: the first in that order, or none.     *)
Selected(s, cutoff, recorded) ==
    LET E == Eligible(s, cutoff, recorded)
    IN  {r \in E : \A q \in E : Outranks(r, q)}

-----------------------------------------------------------------------------
(* A call                                                                  *)

Goto(c, step)   == pc' = [pc EXCEPT ![c] = step]
Answer(c, k, r) ==
    /\ answer' = [answer EXCEPT ![c] = k]
    /\ named' = [named EXCEPT ![c] = r]

(* ingest_bundle and record_failed_attempt up to their first transaction.  *)
Call(c, b, first, kind) ==
    /\ pc[c] = "idle" /\ calls < MaxCalls
    /\ calls' = calls + 1
    /\ want' = [want EXCEPT ![c] = b]
    /\ mine' = [mine EXCEPT ![c] = NoRun]
    /\ stamp' = [stamp EXCEPT ![c] = 0]
    /\ Answer(c, kind, NoRun)
    /\ Goto(c, first)
    /\ UNCHANGED <<dbVars, clock, faults, lost>>

IngestBundle(c, b) ==
    Call(c, b, IF b \in Rejected THEN "create" ELSE "find", None)

RecordFailedAttempt(c, b) == b \in Rejected /\ Call(c, b, "create", "recorded")

(* An earlier success ends the call: nothing is written.                   *)
FindSuccessfulRun(c) ==
    /\ pc[c] = "find"
    /\ \/ /\ Winners(want[c]) = {}
          /\ Goto(c, "create")
          /\ UNCHANGED <<answer, named>>
       \/ \E w \in Winners(want[c]) : Answer(c, "idempotent", w) /\ Goto(c, "idle")
    /\ UNCHANGED <<dbVars, clock, want, mine, stamp, calls, faults, lost>>

NewPendingRun(b) ==
    /\ lastRun < MaxCalls
    /\ lastRun' = lastRun + 1
    /\ batch' = [batch EXCEPT ![lastRun + 1] = b]
    /\ status' = [status EXCEPT ![lastRun + 1] = "pending"]
    /\ imported' = [imported EXCEPT ![lastRun + 1] = clock]
    /\ UNCHANGED <<completed, rows>>

CreatePendingRun(c) ==
    /\ pc[c] = "create"
    /\ NewPendingRun(want[c])
    /\ mine' = [mine EXCEPT ![c] = lastRun + 1]
    /\ \/ /\ want[c] \notin Rejected
          /\ Goto(c, "persist")
          /\ UNCHANGED <<answer, named>>
       \/ /\ want[c] \in Rejected
          /\ Goto(c, "fail")
          /\ IF answer[c] = "recorded" THEN Answer(c, "recorded", lastRun + 1)
                                       ELSE Answer(c, "error", NoRun)
    /\ UNCHANGED <<clock, want, stamp, calls, faults, lost>>

(* Mistake: the rows are written outside the snapshot transaction.         *)
PersistOutsideTransaction(c) ==
    /\ pc[c] = "persist"
    /\ stamp' = [stamp EXCEPT ![c] = clock]
    /\ rows' = rows \cup {mine[c]}
    /\ Goto(c, "flush")
    /\ UNCHANGED <<batch, status, imported, completed, lastRun, clock, want, mine,
                   answer, named, calls, faults, lost>>

(* Mistake: the completion time is the time the attempt was created.       *)
PersistWithCreationTime(c) ==
    /\ pc[c] = "persist"
    /\ stamp' = [stamp EXCEPT ![c] = imported[mine[c]]]
    /\ Goto(c, "flush")
    /\ UNCHANGED <<dbVars, clock, want, mine, answer, named, calls, faults, lost>>

(* Open the transaction, lock the attempt, insert the rows, sample the     *)
(* completion time.  Nothing is visible to the others yet.                 *)
PersistSnapshot(c) ==
    /\ pc[c] = "persist"
    /\ stamp' = [stamp EXCEPT ![c] = clock]
    /\ Goto(c, "flush")
    /\ UNCHANGED <<dbVars, clock, want, mine, answer, named, calls, faults, lost>>

(* The UPDATE that marks the attempt succeeded enters it in the partial    *)
(* unique index: it waits while another open transaction holds an entry of *)
(* the same batch and is refused once such an entry is committed.          *)
IndexHeld(c) == \E d \in Callers \ {c} : pc[d] = "commit" /\ want[d] = want[c]

(* Mistake: there is no unique index on successful attempts.               *)
FlushUnindexed(c) ==
    /\ pc[c] = "flush"
    /\ Goto(c, "commit")
    /\ UNCHANGED <<dbVars, clock, want, mine, stamp, answer, named, calls, faults, lost>>

(* Mistake: a refused UPDATE is tried again.                               *)
FlushUntilAccepted(c) ==
    /\ pc[c] = "flush"
    /\ ~IndexHeld(c)
    /\ Goto(c, IF Winners(want[c]) = {} THEN "commit" ELSE "flush")
    /\ UNCHANGED <<dbVars, clock, want, mine, stamp, answer, named, calls, faults, lost>>

FlushSuccess(c) ==
    /\ pc[c] = "flush"
    /\ ~IndexHeld(c)
    /\ Goto(c, IF Winners(want[c]) = {} THEN "commit" ELSE "resolve")
    /\ UNCHANGED <<dbVars, clock, want, mine, stamp, answer, named, calls, faults, lost>>

(* What the commit of the snapshot transaction makes visible.              *)
PublishSnapshot(c) ==
    /\ status' = [status EXCEPT ![mine[c]] = "succeeded"]
    /\ completed' = [completed EXCEPT ![mine[c]] = stamp[c]]
    /\ rows' = rows \cup {mine[c]}
    /\ UNCHANGED <<batch, imported, lastRun>>

CommitSuccess(c) ==
    /\ pc[c] = "commit"
    /\ PublishSnapshot(c)
    /\ Goto(c, "read")
    /\ UNCHANGED <<clock, want, mine, stamp, answer, named, calls, faults, lost>>

(* Mistakes: the loser answers with its own attempt, or raises the         *)
(* unique-key error although there is a winner.                            *)
ResolveToOwnRun(c) ==
    /\ pc[c] = "resolve"
    /\ Answer(c, "idempotent", mine[c])
    /\ Goto(c, "fail")
    /\ UNCHANGED <<dbVars, clock, want, mine, stamp, calls, faults, lost>>

ResolveByRaising(c) ==
    /\ pc[c] = "resolve"
    /\ Answer(c, "integrity", NoRun)
    /\ Goto(c, "fail")
    /\ UNCHANGED <<dbVars, clock, want, mine, stamp, calls, faults, lost>>

(* The IntegrityError handler: the winner becomes the answer; without one  *)
(* the error is re-raised.  Both paths first mark the own attempt failed.  *)
ResolveConflict(c) ==
    /\ pc[c] = "resolve"
    /\ \/ Winners(want[c]) = {} /\ Answer(c, "integrity", NoRun)
       \/ \E w \in Winners(want[c]) : Answer(c, "idempotent", w)
    /\ Goto(c, "fail")
    /\ UNCHANGED <<dbVars, clock, want, mine, stamp, calls, faults, lost>>

(* _mark_failed overwrites whatever the attempt's status is.               *)
WriteFailure(r) ==
    /\ status' = [status EXCEPT ![r] = "failed"]
    /\ completed' = [completed EXCEPT ![r] = clock]
    /\ UNCHANGED <<batch, imported, rows, lastRun>>

MarkFailed(c) ==
    /\ pc[c] = "fail"
    /\ WriteFailure(mine[c])
    /\ Goto(c, "idle")
    /\ UNCHANGED <<clock, want, mine, stamp, answer, named, calls, faults, lost>>

ReadBack(c) ==
    /\ pc[c] = "read"
    /\ Answer(c, "new", mine[c])
    /\ Goto(c, "idle")
    /\ UNCHANGED <<dbVars, clock, want, mine, stamp, calls, faults, lost>>

-----------------------------------------------------------------------------
(* Faults                                                                  *)

Fault(kind) == kind \in FaultKinds /\ faults < MaxFaults /\ faults' = faults + 1

(* The database reports an error and did nothing.  Inside the snapshot     *)
(* transaction the handler marks the attempt failed; anywhere else the     *)
(* exception leaves the call.                                              *)
StatementFails(c) ==
    /\ pc[c] # "idle"
    /\ Fault("error")
    /\ Goto(c, IF pc[c] \in InTxn \cup {"persist"} THEN "fail" ELSE "idle")
    /\ Answer(c, "error", NoRun)
    /\ UNCHANGED <<dbVars, clock, want, mine, stamp, calls, lost>>

(* The commit took effect, its acknowledgement did not arrive.             *)
CreateAckLost(c) ==
    /\ pc[c] = "create"
    /\ Fault("lost_ack")
    /\ NewPendingRun(want[c])
    /\ Goto(c, "idle") /\ Answer(c, "error", NoRun)
    /\ UNCHANGED <<clock, want, mine, stamp, calls, lost>>

CommitAckLost(c) ==
    /\ pc[c] = "commit"
    /\ Fault("lost_ack")
    /\ PublishSnapshot(c)
    /\ lost' = lost \cup {mine[c]}
    /\ Goto(c, "fail") /\ Answer(c, "error", NoRun)
    /\ UNCHANGED <<clock, want, mine, stamp, calls>>

FailureAckLost(c) ==
    /\ pc[c] = "fail"
    /\ Fault("lost_ack")
    /\ WriteFailure(mine[c])
    /\ Goto(c, "idle") /\ Answer(c, "error", NoRun)
    /\ UNCHANGED <<clock, want, mine, stamp, calls, lost>>

(* The process dies; the database rolls its open transaction back.         *)
Crash(c) ==
    /\ pc[c] # "idle"
    /\ Fault("crash")
    /\ Goto(c, "idle") /\ Answer(c, "crashed", NoRun)
    /\ UNCHANGED <<dbVars, clock, want, mine, stamp, calls, lost>>

Tick ==
    /\ clock < MaxClock
    /\ clock' = clock + 1
    /\ UNCHANGED <<dbVars, callVars, faults, lost>>

(* The bound on calls is used up and every call has returned.              *)
Finished ==
    /\ calls = MaxCalls /\ \A c \in Callers : pc[c] = "idle"
    /\ UNCHANGED vars

Step(c) ==
    \/ FindSuccessfulRun(c) \/ CreatePendingRun(c) \/ PersistSnapshot(c)
    \/ FlushSuccess(c) \/ CommitSuccess(c) \/ ResolveConflict(c)
    \/ MarkFailed(c) \/ ReadBack(c)

FaultyStep(c) ==
    \/ StatementFails(c) \/ CreateAckLost(c) \/ CommitAckLost(c)
    \/ FailureAckLost(c) \/ Crash(c)

Next ==
    \/ \E c \in Callers, b \in Batches :
           IngestBundle(c, b) \/ RecordFailedAttempt(c, b)
    \/ \E c \in Callers : Step(c) \/ FaultyStep(c)
    \/ Tick
    \/ Finished

Spec == Init /\ [][Next]_vars

(* A caller is a running thread: it keeps executing its own transactions.  *)
FairSpec == Spec /\ \A c \in Callers : WF_vars(Step(c))

-----------------------------------------------------------------------------
(* Properties                                                              *)

(* At most one attempt per (batch_identifier, series_key) is successful,   *)
(* however calls, retries and faults interleave: the lookup before the     *)
(* write is stale by then and only the index decides.                      *)
OneSuccessPerBatch ==
    \A q, r \in RunId :
        Succeeded(q) /\ Succeeded(r) /\ batch[q] = batch[r] => q = r

(* Snapshot rows belong to a successful attempt, and every successful      *)
(* attempt has its rows; the only failed attempts that keep rows are those *)
(* whose commit was reported as an error.                                  *)
RowsBelongToSuccess ==
    /\ \A r \in rows : Succeeded(r) \/ (r \in lost /\ status[r] = "failed")
    /\ \A r \in RunId : Succeeded(r) => r \in rows

(* A call that answers with a run, new or converged on, names a successful *)
(* attempt of the batch it was given, for as long as the answer stands.    *)
RepliesNameSuccess ==
    \A c \in Callers :
        answer[c] \in {"new", "idempotent"} =>
            /\ named[c] \in RunId \ lost =>
                   Succeeded(named[c]) /\ batch[named[c]] = want[c]
            /\ named[c] # NoRun

(* Losing the race for the index never reaches the caller: a unique-key    *)
(* error is raised only if the winner was undone by its own lost commit.   *)
UniqueErrorNeedsLostCommit ==
    \A c \in Callers :
        answer[c] = "integrity" => \E r \in lost : batch[r] = want[c]

(* Attempts are immutable once finished: failed stays failed, and a        *)
(* success is undone only by its own caller after a lost commit.           *)
AttemptsImmutable ==
    [][\A r \in RunId :
          /\ status[r] = "failed" => status'[r] = "failed"
          /\ Succeeded(r) /\ r \notin lost =>
                 status'[r] = "succeeded" /\ completed'[r] = completed[r]]_vars

(* A dual-as-of read whose recorded boundary lies before the start of      *)
(* every snapshot transaction still open is repeatable: nothing that       *)
(* happens later changes which run it selects.                             *)
Settled(recorded) ==
    /\ recorded < clock
    /\ \A c \in Callers : pc[c] \in InTxn => stamp[c] > recorded

SettledReadsRepeat ==
    [][\A s \in Series, cutoff \in {CutoffOf[b] : b \in Batches}, t \in 0..MaxClock :
          Settled(t) /\ Selected(s, cutoff, t) \cap lost = {} =>
              Settled(t)' /\ Selected(s, cutoff, t)' = Selected(s, cutoff, t)]_vars

(* Every call returns, although a flush may have to wait for another       *)
(* caller's transaction and callers may crash at any point.                *)
CallsReturn == \A c \in Callers : pc[c] # "idle" ~> pc[c] = "idle"

(* The promise ImportOnce, with the attempts table read as the set of      *)
(* batches that have a successful attempt.                                 *)
StoredBatches == {batch[r] : r \in {q \in RunId : Succeeded(q)}}

Phase(c) == CASE pc[c] = "idle" -> "idle"
              [] pc[c] = "read" -> "stored"
              [] OTHER -> "asked"

FinalAnswer(c) ==
    IF pc[c] # "idle" THEN None
    ELSE CASE answer[c] \in {"error", "recorded", "crashed"} -> "failed"
           [] OTHER -> answer[c]

Promise == INSTANCE ImportOnce
               WITH stored <- StoredBatches,
                    asked  <- want,
                    phase  <- [c \in Callers |-> Phase(c)],
                    answer <- [c \in Callers |-> FinalAnswer(c)]

(* Until a commit that went through is reported as an error, callers       *)
(* cannot tell the protocol from a store that imports a batch in one       *)
(* atomic step, at most once, and reports a unique-key conflict to nobody. *)
ImplementsImportOnce == Promise!Init /\ [][Promise!Next \/ lost' # {}]_(Promise!avars)

=============================================================================
