--------------------- MODULE FoundationAcquisition_proofs ---------------------
(***************************************************************************)
(* Proofs about IngestionRuns for any number of callers, batches, series,  *)
(* calls and faults of any kind, and, on top of them, about                *)
(* FoundationAcquisition for any number of acquirers, other importers and  *)
(* inputs.                                                                 *)
(***************************************************************************)
EXTENDS FoundationAcquisition, TLAPS

---------------------------------------------------------------------------
(* One import.                                                             *)

(* A caller in one of these steps has created its attempt.                 *)
Working == {"persist", "flush", "commit", "resolve", "fail", "read"}

(* Identifiers are handed out in order and never taken back.               *)
Allocated == \A r \in RunId : status[r] = "absent" <=> r > lastRun

(* A working caller owns an attempt of its batch, and no other does.       *)
Owned ==
    /\ \A c \in Callers : pc[c] \in Working =>
           mine[c] \in RunId /\ batch[mine[c]] = want[c]
    /\ \A c, d \in Callers :
           pc[c] \in Working /\ pc[d] \in Working /\ mine[c] = mine[d] => c = d

(* Where the own attempt stands at each step of the protocol.              *)
Staged == \A c \in Callers :
    /\ pc[c] \in {"persist", "flush", "commit", "resolve"} =>
           status[mine[c]] = "pending"
    /\ pc[c] = "read" => Succeeded(mine[c])
    /\ pc[c] = "fail" => status[mine[c]] = "pending" \/ mine[c] \in lost

(* Holding the index entry excludes both committed and open rivals.        *)
IndexExclusive ==
    /\ \A c \in Callers, r \in RunId :
           pc[c] = "commit" /\ Succeeded(r) => batch[r] # want[c]
    /\ \A c, d \in Callers :
           pc[c] = "commit" /\ pc[d] = "commit" /\ want[c] = want[d] => c = d

(* A refused caller had a winner, which can only have been undone since.   *)
Contested == \A c \in Callers : pc[c] = "resolve" =>
    \E r \in RunId : batch[r] = want[c] /\ (Succeeded(r) \/ r \in lost)

LostWasCommitted == \A r \in lost : status[r] \in {"succeeded", "failed"}

IInv ==
    /\ TypeOK
    /\ Allocated
    /\ Owned
    /\ Staged
    /\ IndexExclusive
    /\ Contested
    /\ LostWasCommitted
    /\ OneSuccessPerBatch
    /\ RowsBelongToSuccess
    /\ RepliesNameSuccess
    /\ UniqueErrorNeedsLostCommit

-----------------------------------------------------------------------------
(* Init and each action establish the invariant.                           *)

LEMMA InitIInv == Init => IInv
<1> SUFFICES ASSUME Init PROVE IInv
    OBVIOUS
<1> USE BatchAssumption, BoundAssumption
<1>1. AnyBatch \in Batches
    BY DEF AnyBatch
<1>2. TypeOK
    BY <1>1 DEF Init, TypeOK, Status, PC, Kinds, None, NoRun, RunId
<1>3. QED
    BY <1>2 DEF Init, IInv, Allocated, Owned, Staged, IndexExclusive, Contested, LostWasCommitted,
        OneSuccessPerBatch, RowsBelongToSuccess, RepliesNameSuccess, UniqueErrorNeedsLostCommit,
        Working, Succeeded, None, RunId

LEMMA CallStep ==
    ASSUME IInv, NEW c \in Callers, NEW b \in Batches, NEW first \in {"find", "create"}, NEW kind \in {None, "recorded"},
                 Call(c, b, first, kind)
    PROVE  IInv'
<1> USE DEF IInv
<1>1. TypeOK'
    BY BoundAssumption DEF Call, Goto, Answer, dbVars, TypeOK, PC, Kinds, Owned, Working
<1>2. Allocated' /\ LostWasCommitted'
    BY DEF Call, Goto, Answer, dbVars, TypeOK, Allocated, LostWasCommitted, Owned, Staged, Working, Succeeded
<1>3. Owned' /\ Staged'
    BY DEF Call, Goto, Answer, dbVars, TypeOK, Owned, Staged, Working, Succeeded, LostWasCommitted
<1>4. IndexExclusive'
    BY DEF Call, Goto, Answer, dbVars, TypeOK, IndexExclusive, Owned, Staged, Working, Succeeded
<1>5. OneSuccessPerBatch'
    BY DEF Call, Goto, Answer, dbVars, TypeOK, Owned, Staged, Working, IndexExclusive, OneSuccessPerBatch, Succeeded
<1>6. Contested'
    BY DEF Call, Goto, Answer, dbVars, TypeOK, Owned, Staged, Working, Contested, Succeeded
<1>7. UniqueErrorNeedsLostCommit'
    BY DEF Call, Goto, Answer, dbVars, TypeOK, Owned, Staged, Working, Contested, UniqueErrorNeedsLostCommit, Succeeded, None
<1>8. RowsBelongToSuccess'
    BY DEF Call, Goto, Answer, dbVars, TypeOK, Owned, Staged, Working, RowsBelongToSuccess, LostWasCommitted, Succeeded
<1>9. RepliesNameSuccess'
    BY DEF Call, Goto, Answer, dbVars, TypeOK, Owned, Staged, Working, RepliesNameSuccess, Succeeded, None, NoRun
<1>10. QED
    BY <1>1, <1>2, <1>3, <1>4, <1>5, <1>6, <1>7, <1>8, <1>9

LEMMA FindSuccessfulRunStep ==
    ASSUME IInv, NEW c \in Callers, FindSuccessfulRun(c)
    PROVE  IInv'
<1> USE DEF IInv
<1>0. NoRun \notin RunId
    BY DEF NoRun, RunId
<1>1. TypeOK'
    BY BoundAssumption DEF FindSuccessfulRun, Goto, Answer, dbVars, Winners, TypeOK, PC, Kinds, Owned, Working
<1>2. Allocated' /\ LostWasCommitted'
    BY DEF FindSuccessfulRun, Goto, Answer, dbVars, Winners, TypeOK, Allocated, LostWasCommitted, Owned, Staged, Working, Succeeded
<1>3. Owned' /\ Staged'
    BY DEF FindSuccessfulRun, Goto, Answer, dbVars, Winners, TypeOK, Owned, Staged, Working, Succeeded, LostWasCommitted
<1>4. IndexExclusive'
    BY DEF FindSuccessfulRun, Goto, Answer, dbVars, Winners, TypeOK, IndexExclusive, Owned, Staged, Working, Succeeded
<1>5. OneSuccessPerBatch'
    BY DEF FindSuccessfulRun, Goto, Answer, dbVars, Winners, TypeOK, Owned, Staged, Working, IndexExclusive, OneSuccessPerBatch, Succeeded
<1>6. Contested'
    BY DEF FindSuccessfulRun, Goto, Answer, dbVars, Winners, TypeOK, Owned, Staged, Working, Contested, Succeeded
<1>7. UniqueErrorNeedsLostCommit'
    BY DEF FindSuccessfulRun, Goto, Answer, dbVars, Winners, TypeOK, Owned, Staged, Working, Contested, UniqueErrorNeedsLostCommit, Succeeded, None
<1>8. RowsBelongToSuccess'
    BY DEF FindSuccessfulRun, Goto, Answer, dbVars, Winners, TypeOK, Owned, Staged, Working, RowsBelongToSuccess, LostWasCommitted, Succeeded
<1>9. RepliesNameSuccess'
    BY <1>0 DEF FindSuccessfulRun, Goto, Answer, dbVars, Winners, TypeOK, Owned, Staged, Working, RepliesNameSuccess, Succeeded, None
<1>10. QED
    BY <1>1, <1>2, <1>3, <1>4, <1>5, <1>6, <1>7, <1>8, <1>9

LEMMA CreatePendingRunStep ==
    ASSUME IInv, NEW c \in Callers, CreatePendingRun(c)
    PROVE  IInv'
<1> USE DEF IInv
<1>0. /\ lastRun + 1 \in RunId /\ status[lastRun + 1] = "absent"
      /\ lastRun' \in 0..MaxCalls
    BY BoundAssumption DEF CreatePendingRun, NewPendingRun, Goto, Answer, TypeOK, Allocated, RunId
<1>1. TypeOK'
    BY BoundAssumption, <1>0 DEF CreatePendingRun, NewPendingRun, Goto, Answer, TypeOK, PC, Kinds, Owned, Working, Status
<1>2. Allocated' /\ LostWasCommitted'
    BY <1>0 DEF CreatePendingRun, NewPendingRun, Goto, Answer, TypeOK, Allocated, LostWasCommitted, Owned, Staged, Working, Succeeded, RunId
<1>3. Owned' /\ Staged'
    BY <1>0 DEF CreatePendingRun, NewPendingRun, Goto, Answer, TypeOK, Owned, Staged, Working, Succeeded, LostWasCommitted
<1>4. IndexExclusive'
    BY <1>0 DEF CreatePendingRun, NewPendingRun, Goto, Answer, TypeOK, IndexExclusive, Owned, Staged, Working, Succeeded
<1>5. OneSuccessPerBatch'
    BY <1>0 DEF CreatePendingRun, NewPendingRun, Goto, Answer, TypeOK, Owned, Staged, Working, IndexExclusive, OneSuccessPerBatch, Succeeded
<1>6. Contested'
    BY <1>0 DEF CreatePendingRun, NewPendingRun, Goto, Answer, TypeOK, Owned, Staged, Working, Contested, Succeeded, LostWasCommitted
<1>7. UniqueErrorNeedsLostCommit'
    BY <1>0 DEF CreatePendingRun, NewPendingRun, Goto, Answer, TypeOK, Owned, Staged, Working, Contested, UniqueErrorNeedsLostCommit, Succeeded, None, LostWasCommitted
<1>8. RowsBelongToSuccess'
    BY <1>0 DEF CreatePendingRun, NewPendingRun, Goto, Answer, TypeOK, Owned, Staged, Working, RowsBelongToSuccess, LostWasCommitted, Succeeded
<1>9. RepliesNameSuccess'
    BY <1>0 DEF CreatePendingRun, NewPendingRun, Goto, Answer, TypeOK, Owned, Staged, Working, RepliesNameSuccess, Succeeded, None, NoRun
<1>10. QED
    BY <1>1, <1>2, <1>3, <1>4, <1>5, <1>6, <1>7, <1>8, <1>9

LEMMA PersistSnapshotStep ==
    ASSUME IInv, NEW c \in Callers, PersistSnapshot(c)
    PROVE  IInv'
<1> USE DEF IInv
<1>1. TypeOK'
    BY BoundAssumption DEF PersistSnapshot, Goto, dbVars, TypeOK, PC, Kinds, Owned, Working
<1>2. Allocated' /\ LostWasCommitted'
    BY DEF PersistSnapshot, Goto, dbVars, TypeOK, Allocated, LostWasCommitted, Owned, Staged, Working, Succeeded
<1>3. Owned' /\ Staged'
    BY DEF PersistSnapshot, Goto, dbVars, TypeOK, Owned, Staged, Working, Succeeded, LostWasCommitted
<1>4. IndexExclusive'
    BY DEF PersistSnapshot, Goto, dbVars, TypeOK, IndexExclusive, Owned, Staged, Working, Succeeded
<1>5. OneSuccessPerBatch'
    BY DEF PersistSnapshot, Goto, dbVars, TypeOK, Owned, Staged, Working, IndexExclusive, OneSuccessPerBatch, Succeeded
<1>6. Contested'
    BY DEF PersistSnapshot, Goto, dbVars, TypeOK, Owned, Staged, Working, Contested, Succeeded
<1>7. UniqueErrorNeedsLostCommit'
    BY DEF PersistSnapshot, Goto, dbVars, TypeOK, Owned, Staged, Working, Contested, UniqueErrorNeedsLostCommit, Succeeded, None
<1>8. RowsBelongToSuccess'
    BY DEF PersistSnapshot, Goto, dbVars, TypeOK, Owned, Staged, Working, RowsBelongToSuccess, LostWasCommitted, Succeeded
<1>9. RepliesNameSuccess'
    BY DEF PersistSnapshot, Goto, dbVars, TypeOK, Owned, Staged, Working, RepliesNameSuccess, Succeeded, None, NoRun
<1>10. QED
    BY <1>1, <1>2, <1>3, <1>4, <1>5, <1>6, <1>7, <1>8, <1>9

LEMMA FlushSuccessStep ==
    ASSUME IInv, NEW c \in Callers, FlushSuccess(c)
    PROVE  IInv'
<1> USE DEF IInv
<1>1. TypeOK'
    BY BoundAssumption DEF FlushSuccess, IndexHeld, Winners, Goto, dbVars, TypeOK, PC, Kinds, Owned, Working
<1>2. Allocated' /\ LostWasCommitted'
    BY DEF FlushSuccess, IndexHeld, Winners, Goto, dbVars, TypeOK, Allocated, LostWasCommitted, Owned, Staged, Working, Succeeded
<1>3. Owned' /\ Staged'
    BY DEF FlushSuccess, IndexHeld, Winners, Goto, dbVars, TypeOK, Owned, Staged, Working, Succeeded, LostWasCommitted
<1>4. IndexExclusive'
    BY DEF FlushSuccess, IndexHeld, Winners, Goto, dbVars, TypeOK, IndexExclusive, Owned, Staged, Working, Succeeded
<1>5. OneSuccessPerBatch'
    BY DEF FlushSuccess, IndexHeld, Winners, Goto, dbVars, TypeOK, Owned, Staged, Working, IndexExclusive, OneSuccessPerBatch, Succeeded
<1>6. Contested'
    BY DEF FlushSuccess, IndexHeld, Winners, Goto, dbVars, TypeOK, Owned, Staged, Working, Contested, Succeeded
<1>7. UniqueErrorNeedsLostCommit'
    BY DEF FlushSuccess, IndexHeld, Winners, Goto, dbVars, TypeOK, Owned, Staged, Working, Contested, UniqueErrorNeedsLostCommit, Succeeded, None
<1>8. RowsBelongToSuccess'
    BY DEF FlushSuccess, IndexHeld, Winners, Goto, dbVars, TypeOK, Owned, Staged, Working, RowsBelongToSuccess, LostWasCommitted, Succeeded
<1>9. RepliesNameSuccess'
    BY DEF FlushSuccess, IndexHeld, Winners, Goto, dbVars, TypeOK, Owned, Staged, Working, RepliesNameSuccess, Succeeded, None, NoRun
<1>10. QED
    BY <1>1, <1>2, <1>3, <1>4, <1>5, <1>6, <1>7, <1>8, <1>9

LEMMA CommitSuccessStep ==
    ASSUME IInv, NEW c \in Callers, CommitSuccess(c)
    PROVE  IInv'
<1> USE DEF IInv
<1>1. TypeOK'
    BY BoundAssumption DEF CommitSuccess, PublishSnapshot, Goto, TypeOK, PC, Kinds, Owned, Working, Status
<1>2. Allocated' /\ LostWasCommitted'
    BY DEF CommitSuccess, PublishSnapshot, Goto, TypeOK, Allocated, LostWasCommitted, Owned, Staged, Working, Succeeded
<1>3. Owned' /\ Staged'
    BY DEF CommitSuccess, PublishSnapshot, Goto, TypeOK, Owned, Staged, Working, Succeeded, LostWasCommitted
<1>4. IndexExclusive'
    BY DEF CommitSuccess, PublishSnapshot, Goto, TypeOK, IndexExclusive, Owned, Staged, Working, Succeeded
<1>5. OneSuccessPerBatch'
    BY DEF CommitSuccess, PublishSnapshot, Goto, TypeOK, Owned, Staged, Working, IndexExclusive, OneSuccessPerBatch, Succeeded
<1>6. Contested'
    BY DEF CommitSuccess, PublishSnapshot, Goto, TypeOK, Owned, Staged, Working, Contested, Succeeded
<1>7. UniqueErrorNeedsLostCommit'
    BY DEF CommitSuccess, PublishSnapshot, Goto, TypeOK, Owned, Staged, Working, Contested, UniqueErrorNeedsLostCommit, Succeeded, None
<1>8. RowsBelongToSuccess'
    BY DEF CommitSuccess, PublishSnapshot, Goto, TypeOK, Owned, Staged, Working, RowsBelongToSuccess, LostWasCommitted, Succeeded
<1>9. RepliesNameSuccess'
    BY DEF CommitSuccess, PublishSnapshot, Goto, TypeOK, Owned, Staged, Working, RepliesNameSuccess, Succeeded, None, NoRun
<1>10. QED
    BY <1>1, <1>2, <1>3, <1>4, <1>5, <1>6, <1>7, <1>8, <1>9

LEMMA ResolveConflictStep ==
    ASSUME IInv, NEW c \in Callers, ResolveConflict(c)
    PROVE  IInv'
<1> USE DEF IInv
<1>0. NoRun \notin RunId
    BY DEF NoRun, RunId
<1>1. TypeOK'
    BY BoundAssumption DEF ResolveConflict, Winners, Goto, Answer, dbVars, TypeOK, PC, Kinds, Owned, Working
<1>2. Allocated' /\ LostWasCommitted'
    BY DEF ResolveConflict, Winners, Goto, Answer, dbVars, TypeOK, Allocated, LostWasCommitted, Owned, Staged, Working, Succeeded
<1>3. Owned' /\ Staged'
    BY DEF ResolveConflict, Winners, Goto, Answer, dbVars, TypeOK, Owned, Staged, Working, Succeeded, LostWasCommitted
<1>4. IndexExclusive'
    BY DEF ResolveConflict, Winners, Goto, Answer, dbVars, TypeOK, IndexExclusive, Owned, Staged, Working, Succeeded
<1>5. OneSuccessPerBatch'
    BY DEF ResolveConflict, Winners, Goto, Answer, dbVars, TypeOK, Owned, Staged, Working, IndexExclusive, OneSuccessPerBatch, Succeeded
<1>6. Contested'
    BY DEF ResolveConflict, Winners, Goto, Answer, dbVars, TypeOK, Owned, Staged, Working, Contested, Succeeded
<1>7. UniqueErrorNeedsLostCommit'
    BY DEF ResolveConflict, Winners, Goto, Answer, dbVars, TypeOK, Owned, Staged, Working, Contested, UniqueErrorNeedsLostCommit, Succeeded, None
<1>8. RowsBelongToSuccess'
    BY DEF ResolveConflict, Winners, Goto, Answer, dbVars, TypeOK, Owned, Staged, Working, RowsBelongToSuccess, LostWasCommitted, Succeeded
<1>9. RepliesNameSuccess'
    BY <1>0 DEF ResolveConflict, Winners, Goto, Answer, dbVars, TypeOK, Owned, Staged, Working, RepliesNameSuccess, Succeeded, None
<1>10. QED
    BY <1>1, <1>2, <1>3, <1>4, <1>5, <1>6, <1>7, <1>8, <1>9

LEMMA MarkFailedStep ==
    ASSUME IInv, NEW c \in Callers, MarkFailed(c)
    PROVE  IInv'
<1> USE DEF IInv
<1>1. TypeOK'
    BY BoundAssumption DEF MarkFailed, WriteFailure, Goto, TypeOK, PC, Kinds, Owned, Working, Status
<1>2. Allocated' /\ LostWasCommitted'
    BY DEF MarkFailed, WriteFailure, Goto, TypeOK, Allocated, LostWasCommitted, Owned, Staged, Working, Succeeded
<1>3. Owned' /\ Staged'
    BY DEF MarkFailed, WriteFailure, Goto, TypeOK, Owned, Staged, Working, Succeeded, LostWasCommitted
<1>4. IndexExclusive'
    BY DEF MarkFailed, WriteFailure, Goto, TypeOK, IndexExclusive, Owned, Staged, Working, Succeeded
<1>5. OneSuccessPerBatch'
    BY DEF MarkFailed, WriteFailure, Goto, TypeOK, Owned, Staged, Working, IndexExclusive, OneSuccessPerBatch, Succeeded
<1>6. Contested'
    BY DEF MarkFailed, WriteFailure, Goto, TypeOK, Owned, Staged, Working, Contested, Succeeded
<1>7. UniqueErrorNeedsLostCommit'
    BY DEF MarkFailed, WriteFailure, Goto, TypeOK, Owned, Staged, Working, Contested, UniqueErrorNeedsLostCommit, Succeeded, None
<1>8. RowsBelongToSuccess'
    BY DEF MarkFailed, WriteFailure, Goto, TypeOK, Owned, Staged, Working, RowsBelongToSuccess, LostWasCommitted, Succeeded
<1>9. RepliesNameSuccess'
    BY DEF MarkFailed, WriteFailure, Goto, TypeOK, Owned, Staged, Working, RepliesNameSuccess, Succeeded, None, NoRun
<1>10. QED
    BY <1>1, <1>2, <1>3, <1>4, <1>5, <1>6, <1>7, <1>8, <1>9

LEMMA ReadBackStep ==
    ASSUME IInv, NEW c \in Callers, ReadBack(c)
    PROVE  IInv'
<1> USE DEF IInv
<1>0. NoRun \notin RunId
    BY DEF NoRun, RunId
<1>1. TypeOK'
    BY BoundAssumption DEF ReadBack, Goto, Answer, dbVars, TypeOK, PC, Kinds, Owned, Working
<1>2. Allocated' /\ LostWasCommitted'
    BY DEF ReadBack, Goto, Answer, dbVars, TypeOK, Allocated, LostWasCommitted, Owned, Staged, Working, Succeeded
<1>3. Owned' /\ Staged'
    BY DEF ReadBack, Goto, Answer, dbVars, TypeOK, Owned, Staged, Working, Succeeded, LostWasCommitted
<1>4. IndexExclusive'
    BY DEF ReadBack, Goto, Answer, dbVars, TypeOK, IndexExclusive, Owned, Staged, Working, Succeeded
<1>5. OneSuccessPerBatch'
    BY DEF ReadBack, Goto, Answer, dbVars, TypeOK, Owned, Staged, Working, IndexExclusive, OneSuccessPerBatch, Succeeded
<1>6. Contested'
    BY DEF ReadBack, Goto, Answer, dbVars, TypeOK, Owned, Staged, Working, Contested, Succeeded
<1>7. UniqueErrorNeedsLostCommit'
    BY DEF ReadBack, Goto, Answer, dbVars, TypeOK, Owned, Staged, Working, Contested, UniqueErrorNeedsLostCommit, Succeeded, None
<1>8. RowsBelongToSuccess'
    BY DEF ReadBack, Goto, Answer, dbVars, TypeOK, Owned, Staged, Working, RowsBelongToSuccess, LostWasCommitted, Succeeded
<1>9. RepliesNameSuccess'
    BY <1>0 DEF ReadBack, Goto, Answer, dbVars, TypeOK, Owned, Staged, Working, RepliesNameSuccess, Succeeded, None
<1>10. QED
    BY <1>1, <1>2, <1>3, <1>4, <1>5, <1>6, <1>7, <1>8, <1>9

LEMMA StatementFailsStep ==
    ASSUME IInv, NEW c \in Callers, StatementFails(c)
    PROVE  IInv'
<1> USE DEF IInv
<1>1. TypeOK'
    BY BoundAssumption DEF StatementFails, Fault, Goto, Answer, dbVars, InTxn, TypeOK, PC, Kinds, Owned, Working
<1>2. Allocated' /\ LostWasCommitted'
    BY DEF StatementFails, Fault, Goto, Answer, dbVars, InTxn, TypeOK, Allocated, LostWasCommitted, Owned, Staged, Working, Succeeded
<1>3. Owned' /\ Staged'
    BY DEF StatementFails, Fault, Goto, Answer, dbVars, InTxn, TypeOK, Owned, Staged, Working, Succeeded, LostWasCommitted
<1>4. IndexExclusive'
    BY DEF StatementFails, Fault, Goto, Answer, dbVars, InTxn, TypeOK, IndexExclusive, Owned, Staged, Working, Succeeded
<1>5. OneSuccessPerBatch'
    BY DEF StatementFails, Fault, Goto, Answer, dbVars, InTxn, TypeOK, Owned, Staged, Working, IndexExclusive, OneSuccessPerBatch, Succeeded
<1>6. Contested'
    BY DEF StatementFails, Fault, Goto, Answer, dbVars, InTxn, TypeOK, Owned, Staged, Working, Contested, Succeeded
<1>7. UniqueErrorNeedsLostCommit'
    BY DEF StatementFails, Fault, Goto, Answer, dbVars, InTxn, TypeOK, Owned, Staged, Working, Contested, UniqueErrorNeedsLostCommit, Succeeded, None
<1>8. RowsBelongToSuccess'
    BY DEF StatementFails, Fault, Goto, Answer, dbVars, InTxn, TypeOK, Owned, Staged, Working, RowsBelongToSuccess, LostWasCommitted, Succeeded
<1>9. RepliesNameSuccess'
    BY DEF StatementFails, Fault, Goto, Answer, dbVars, InTxn, TypeOK, Owned, Staged, Working, RepliesNameSuccess, Succeeded, None, NoRun
<1>10. QED
    BY <1>1, <1>2, <1>3, <1>4, <1>5, <1>6, <1>7, <1>8, <1>9

LEMMA CreateAckLostStep ==
    ASSUME IInv, NEW c \in Callers, CreateAckLost(c)
    PROVE  IInv'
<1> USE DEF IInv
<1>0. /\ lastRun + 1 \in RunId /\ status[lastRun + 1] = "absent"
      /\ lastRun' \in 0..MaxCalls
    BY BoundAssumption DEF CreateAckLost, Fault, NewPendingRun, Goto, Answer, TypeOK, Allocated, RunId
<1>1. TypeOK'
    BY BoundAssumption, <1>0 DEF CreateAckLost, Fault, NewPendingRun, Goto, Answer, TypeOK, PC, Kinds, Owned, Working, Status
<1>2. Allocated' /\ LostWasCommitted'
    BY <1>0 DEF CreateAckLost, Fault, NewPendingRun, Goto, Answer, TypeOK, Allocated, LostWasCommitted, Owned, Staged, Working, Succeeded, RunId
<1>3. Owned' /\ Staged'
    BY <1>0 DEF CreateAckLost, Fault, NewPendingRun, Goto, Answer, TypeOK, Owned, Staged, Working, Succeeded, LostWasCommitted
<1>4. IndexExclusive'
    BY <1>0 DEF CreateAckLost, Fault, NewPendingRun, Goto, Answer, TypeOK, IndexExclusive, Owned, Staged, Working, Succeeded
<1>5. OneSuccessPerBatch'
    BY <1>0 DEF CreateAckLost, Fault, NewPendingRun, Goto, Answer, TypeOK, Owned, Staged, Working, IndexExclusive, OneSuccessPerBatch, Succeeded
<1>6. Contested'
    BY <1>0 DEF CreateAckLost, Fault, NewPendingRun, Goto, Answer, TypeOK, Owned, Staged, Working, Contested, Succeeded, LostWasCommitted
<1>7. UniqueErrorNeedsLostCommit'
    BY <1>0 DEF CreateAckLost, Fault, NewPendingRun, Goto, Answer, TypeOK, Owned, Staged, Working, Contested, UniqueErrorNeedsLostCommit, Succeeded, None, LostWasCommitted
<1>8. RowsBelongToSuccess'
    BY <1>0 DEF CreateAckLost, Fault, NewPendingRun, Goto, Answer, TypeOK, Owned, Staged, Working, RowsBelongToSuccess, LostWasCommitted, Succeeded
<1>9. RepliesNameSuccess'
    BY <1>0 DEF CreateAckLost, Fault, NewPendingRun, Goto, Answer, TypeOK, Owned, Staged, Working, RepliesNameSuccess, Succeeded, None, NoRun
<1>10. QED
    BY <1>1, <1>2, <1>3, <1>4, <1>5, <1>6, <1>7, <1>8, <1>9

LEMMA CommitAckLostStep ==
    ASSUME IInv, NEW c \in Callers, CommitAckLost(c)
    PROVE  IInv'
<1> USE DEF IInv
<1>1. TypeOK'
    BY BoundAssumption DEF CommitAckLost, Fault, PublishSnapshot, Goto, Answer, TypeOK, PC, Kinds, Owned, Working, Status
<1>2. Allocated' /\ LostWasCommitted'
    BY DEF CommitAckLost, Fault, PublishSnapshot, Goto, Answer, TypeOK, Allocated, LostWasCommitted, Owned, Staged, Working, Succeeded
<1>3. Owned' /\ Staged'
    BY DEF CommitAckLost, Fault, PublishSnapshot, Goto, Answer, TypeOK, Owned, Staged, Working, Succeeded, LostWasCommitted
<1>4. IndexExclusive'
    BY DEF CommitAckLost, Fault, PublishSnapshot, Goto, Answer, TypeOK, IndexExclusive, Owned, Staged, Working, Succeeded
<1>5. OneSuccessPerBatch'
    BY DEF CommitAckLost, Fault, PublishSnapshot, Goto, Answer, TypeOK, Owned, Staged, Working, IndexExclusive, OneSuccessPerBatch, Succeeded
<1>6. Contested'
    BY DEF CommitAckLost, Fault, PublishSnapshot, Goto, Answer, TypeOK, Owned, Staged, Working, Contested, Succeeded
<1>7. UniqueErrorNeedsLostCommit'
    BY DEF CommitAckLost, Fault, PublishSnapshot, Goto, Answer, TypeOK, Owned, Staged, Working, Contested, UniqueErrorNeedsLostCommit, Succeeded, None
<1>8. RowsBelongToSuccess'
    BY DEF CommitAckLost, Fault, PublishSnapshot, Goto, Answer, TypeOK, Owned, Staged, Working, RowsBelongToSuccess, LostWasCommitted, Succeeded
<1>9. RepliesNameSuccess'
    BY DEF CommitAckLost, Fault, PublishSnapshot, Goto, Answer, TypeOK, Owned, Staged, Working, RepliesNameSuccess, Succeeded, None, NoRun
<1>10. QED
    BY <1>1, <1>2, <1>3, <1>4, <1>5, <1>6, <1>7, <1>8, <1>9

LEMMA FailureAckLostStep ==
    ASSUME IInv, NEW c \in Callers, FailureAckLost(c)
    PROVE  IInv'
<1> USE DEF IInv
<1>1. TypeOK'
    BY BoundAssumption DEF FailureAckLost, Fault, WriteFailure, Goto, Answer, TypeOK, PC, Kinds, Owned, Working, Status
<1>2. Allocated' /\ LostWasCommitted'
    BY DEF FailureAckLost, Fault, WriteFailure, Goto, Answer, TypeOK, Allocated, LostWasCommitted, Owned, Staged, Working, Succeeded
<1>3. Owned' /\ Staged'
    BY DEF FailureAckLost, Fault, WriteFailure, Goto, Answer, TypeOK, Owned, Staged, Working, Succeeded, LostWasCommitted
<1>4. IndexExclusive'
    BY DEF FailureAckLost, Fault, WriteFailure, Goto, Answer, TypeOK, IndexExclusive, Owned, Staged, Working, Succeeded
<1>5. OneSuccessPerBatch'
    BY DEF FailureAckLost, Fault, WriteFailure, Goto, Answer, TypeOK, Owned, Staged, Working, IndexExclusive, OneSuccessPerBatch, Succeeded
<1>6. Contested'
    BY DEF FailureAckLost, Fault, WriteFailure, Goto, Answer, TypeOK, Owned, Staged, Working, Contested, Succeeded
<1>7. UniqueErrorNeedsLostCommit'
    BY DEF FailureAckLost, Fault, WriteFailure, Goto, Answer, TypeOK, Owned, Staged, Working, Contested, UniqueErrorNeedsLostCommit, Succeeded, None
<1>8. RowsBelongToSuccess'
    BY DEF FailureAckLost, Fault, WriteFailure, Goto, Answer, TypeOK, Owned, Staged, Working, RowsBelongToSuccess, LostWasCommitted, Succeeded
<1>9. RepliesNameSuccess'
    BY DEF FailureAckLost, Fault, WriteFailure, Goto, Answer, TypeOK, Owned, Staged, Working, RepliesNameSuccess, Succeeded, None, NoRun
<1>10. QED
    BY <1>1, <1>2, <1>3, <1>4, <1>5, <1>6, <1>7, <1>8, <1>9

LEMMA CrashStep ==
    ASSUME IInv, NEW c \in Callers, Crash(c)
    PROVE  IInv'
<1> USE DEF IInv
<1>1. TypeOK'
    BY BoundAssumption DEF Crash, Fault, Goto, Answer, dbVars, TypeOK, PC, Kinds, Owned, Working
<1>2. Allocated' /\ LostWasCommitted'
    BY DEF Crash, Fault, Goto, Answer, dbVars, TypeOK, Allocated, LostWasCommitted, Owned, Staged, Working, Succeeded
<1>3. Owned' /\ Staged'
    BY DEF Crash, Fault, Goto, Answer, dbVars, TypeOK, Owned, Staged, Working, Succeeded, LostWasCommitted
<1>4. IndexExclusive'
    BY DEF Crash, Fault, Goto, Answer, dbVars, TypeOK, IndexExclusive, Owned, Staged, Working, Succeeded
<1>5. OneSuccessPerBatch'
    BY DEF Crash, Fault, Goto, Answer, dbVars, TypeOK, Owned, Staged, Working, IndexExclusive, OneSuccessPerBatch, Succeeded
<1>6. Contested'
    BY DEF Crash, Fault, Goto, Answer, dbVars, TypeOK, Owned, Staged, Working, Contested, Succeeded
<1>7. UniqueErrorNeedsLostCommit'
    BY DEF Crash, Fault, Goto, Answer, dbVars, TypeOK, Owned, Staged, Working, Contested, UniqueErrorNeedsLostCommit, Succeeded, None
<1>8. RowsBelongToSuccess'
    BY DEF Crash, Fault, Goto, Answer, dbVars, TypeOK, Owned, Staged, Working, RowsBelongToSuccess, LostWasCommitted, Succeeded
<1>9. RepliesNameSuccess'
    BY DEF Crash, Fault, Goto, Answer, dbVars, TypeOK, Owned, Staged, Working, RepliesNameSuccess, Succeeded, None, NoRun
<1>10. QED
    BY <1>1, <1>2, <1>3, <1>4, <1>5, <1>6, <1>7, <1>8, <1>9

LEMMA TickStep == IInv /\ Tick => IInv'
<1> SUFFICES ASSUME IInv, Tick PROVE IInv'
    OBVIOUS
<1>1. TypeOK'
    BY BoundAssumption DEF IInv, Tick, dbVars, callVars, TypeOK
<1>2. QED
    BY <1>1 DEF IInv, Tick, dbVars, callVars, Allocated, Owned, Staged, IndexExclusive, Contested,
        LostWasCommitted, OneSuccessPerBatch, RowsBelongToSuccess, RepliesNameSuccess,
        UniqueErrorNeedsLostCommit, Succeeded

LEMMA StutterStep == IInv /\ UNCHANGED vars => IInv'
BY DEF IInv, vars, dbVars, callVars, TypeOK, Allocated, Owned, Staged, IndexExclusive, Contested,
    LostWasCommitted, OneSuccessPerBatch, RowsBelongToSuccess, RepliesNameSuccess,
    UniqueErrorNeedsLostCommit, Succeeded

LEMMA NextIInv == IInv /\ [Next]_vars => IInv'
<1> SUFFICES ASSUME IInv, [Next]_vars PROVE IInv'
    OBVIOUS
<1>1. ASSUME NEW c \in Callers, NEW b \in Batches, IngestBundle(c, b) PROVE IInv'
    BY <1>1, CallStep DEF IngestBundle
<1>2. ASSUME NEW c \in Callers, NEW b \in Batches, RecordFailedAttempt(c, b) PROVE IInv'
    BY <1>2, CallStep DEF RecordFailedAttempt
<1>3. ASSUME NEW c \in Callers, Step(c) PROVE IInv'
    BY <1>3, FindSuccessfulRunStep, CreatePendingRunStep, PersistSnapshotStep, FlushSuccessStep,
       CommitSuccessStep, ResolveConflictStep, MarkFailedStep, ReadBackStep DEF Step
<1>4. ASSUME NEW c \in Callers, FaultyStep(c) PROVE IInv'
    BY <1>4, StatementFailsStep, CreateAckLostStep, CommitAckLostStep, FailureAckLostStep,
       CrashStep DEF FaultyStep
<1>5. CASE Tick
    BY <1>5, TickStep
<1>6. CASE UNCHANGED vars
    BY <1>6, StutterStep
<1>7. QED
    BY <1>1, <1>2, <1>3, <1>4, <1>5, <1>6 DEF Next, Finished

-----------------------------------------------------------------------------
(* Every reachable state satisfies the inductive invariant.                *)
THEOREM Invariance == Spec => []IInv
<1>1. Init => IInv
    BY InitIInv
<1>2. IInv /\ [Next]_vars => IInv'
    BY NextIInv
<1>3. QED
    BY <1>1, <1>2, PTL DEF Spec

(* Type correctness of the attempts table and of the calls.                *)
THEOREM TypeCorrect == Spec => []TypeOK
<1>1. IInv => TypeOK
    BY DEF IInv
<1>2. QED
    BY <1>1, Invariance, PTL

(* The partial unique index and the protocol around it admit at most one   *)
(* successful attempt per batch, for any number of concurrent callers.     *)
THEOREM UniqueSuccess == Spec => []OneSuccessPerBatch
<1>1. IInv => OneSuccessPerBatch
    BY DEF IInv
<1>2. QED
    BY <1>1, Invariance, PTL

(* Snapshot rows and successful attempts go together, whatever fails, but  *)
(* for the attempts whose commit was reported as an error.                 *)
THEOREM RowOwnership == Spec => []RowsBelongToSuccess
<1>1. IInv => RowsBelongToSuccess
    BY DEF IInv
<1>2. QED
    BY <1>1, Invariance, PTL

(* A call that reports an import names a successful attempt of its batch.  *)
THEOREM TruthfulReplies == Spec => []RepliesNameSuccess
<1>1. IInv => RepliesNameSuccess
    BY DEF IInv
<1>2. QED
    BY <1>1, Invariance, PTL

(* A unique-key error reaches a caller only after a lost commit.           *)
THEOREM ConflictsConverge == Spec => []UniqueErrorNeedsLostCommit
<1>1. IInv => UniqueErrorNeedsLostCommit
    BY DEF IInv
<1>2. QED
    BY <1>1, Invariance, PTL

-----------------------------------------------------------------------------
(* What a single step may do to a finished attempt.                        *)
AttemptKept(r) ==
    /\ status[r] = "failed" => status'[r] = "failed"
    /\ Succeeded(r) /\ r \notin lost =>
           status'[r] = "succeeded" /\ completed'[r] = completed[r]

LEMMA StepKeepsAttempts ==
    ASSUME IInv, [Next]_vars, NEW r \in RunId
    PROVE  AttemptKept(r)
<1> USE DEF AttemptKept, Succeeded
<1>1. CASE UNCHANGED <<status, completed>>
    BY <1>1
<1>2. ASSUME NEW b \in Batches, NewPendingRun(b) PROVE AttemptKept(r)
  <2>1. lastRun + 1 \in RunId /\ status[lastRun + 1] = "absent"
    BY <1>2, BoundAssumption DEF NewPendingRun, IInv, TypeOK, Allocated, RunId
  <2>2. QED
    BY <1>2, <2>1 DEF NewPendingRun, IInv, TypeOK
<1>3. ASSUME NEW c \in Callers, pc[c] = "commit", PublishSnapshot(c) PROVE AttemptKept(r)
    BY <1>3 DEF PublishSnapshot, IInv, TypeOK, Owned, Staged, Working
<1>4. ASSUME NEW c \in Callers, pc[c] = "fail", WriteFailure(mine[c]) PROVE AttemptKept(r)
    BY <1>4 DEF WriteFailure, IInv, TypeOK, Owned, Staged, Working
<1>5. ASSUME NEW c \in Callers, Step(c) \/ FaultyStep(c) PROVE AttemptKept(r)
  <2>1. \/ UNCHANGED <<status, completed>>
        \/ NewPendingRun(want[c])
        \/ pc[c] = "commit" /\ PublishSnapshot(c)
        \/ pc[c] = "fail" /\ WriteFailure(mine[c])
    BY <1>5 DEF Step, FaultyStep, FindSuccessfulRun, CreatePendingRun, PersistSnapshot,
        FlushSuccess, CommitSuccess, ResolveConflict, MarkFailed, ReadBack, StatementFails,
        CreateAckLost, CommitAckLost, FailureAckLost, Crash, dbVars
  <2>2. want[c] \in Batches
    BY DEF IInv, TypeOK
  <2>3. QED
    BY <2>1, <2>2, <1>1, <1>2, <1>3, <1>4
<1>6. QED
    BY <1>1, <1>5 DEF Next, IngestBundle, RecordFailedAttempt, Call, Tick, Finished, vars, dbVars

(* Finished attempts are immutable: no step of any caller takes a failed   *)
(* attempt back or touches a success, unless its own commit was lost.      *)
THEOREM Immutability == Spec => AttemptsImmutable
<1>1. IInv /\ [Next]_vars => [\A r \in RunId : AttemptKept(r)]_vars
    BY StepKeepsAttempts
<1>2. QED
    BY <1>1, Invariance, PTL DEF Spec, AttemptsImmutable, AttemptKept

-----------------------------------------------------------------------------
(* The protocol implements ImportOnce until a commit's acknowledgement is  *)
(* lost.                                                                   *)

(* What the refinement needs besides IInv: rejected bundles never reach    *)
(* the snapshot transaction, and the failure mark follows an answer that   *)
(* is already decided.                                                     *)
RInv ==
    \A c \in Callers :
           /\ pc[c] \in {"find", "persist", "flush", "commit", "resolve"} => want[c] \notin Rejected
           /\ pc[c] = "fail" => answer[c] \in {"idempotent", "recorded", "error", "integrity"}
           /\ pc[c] = "find" => answer[c] = None
           /\ pc[c] = "create" => answer[c] \in {None, "recorded"}

LEMMA InitRInv == Init => RInv
BY DEF Init, RInv

LEMMA NextRInv ==
    ASSUME TypeOK, RInv, [Next]_vars
    PROVE  RInv'
<1> USE DEF RInv
<1>1. ASSUME NEW c \in Callers, NEW b \in Batches, IngestBundle(c, b) PROVE RInv'
    BY <1>1 DEF IngestBundle, Call, Goto, Answer, TypeOK
<1>2. ASSUME NEW c \in Callers, NEW b \in Batches, RecordFailedAttempt(c, b) PROVE RInv'
    BY <1>2 DEF RecordFailedAttempt, Call, Goto, Answer, TypeOK
<1>3. ASSUME NEW c \in Callers, Step(c) PROVE RInv'
  <2>1. CASE FindSuccessfulRun(c)
    BY <2>1 DEF FindSuccessfulRun, Goto, Answer, TypeOK
  <2>2. CASE CreatePendingRun(c)
    BY <2>2 DEF CreatePendingRun, Goto, Answer, TypeOK
  <2>3. CASE PersistSnapshot(c)
    BY <2>3 DEF PersistSnapshot, Goto, TypeOK
  <2>4. CASE FlushSuccess(c)
    BY <2>4 DEF FlushSuccess, Goto, TypeOK
  <2>5. CASE CommitSuccess(c)
    BY <2>5 DEF CommitSuccess, Goto, TypeOK
  <2>6. CASE ResolveConflict(c)
    BY <2>6 DEF ResolveConflict, Goto, Answer, TypeOK
  <2>7. CASE MarkFailed(c)
    BY <2>7 DEF MarkFailed, Goto, TypeOK
  <2>8. CASE ReadBack(c)
    BY <2>8 DEF ReadBack, Goto, Answer, TypeOK
  <2>9. QED
    BY <1>3, <2>1, <2>2, <2>3, <2>4, <2>5, <2>6, <2>7, <2>8 DEF Step
<1>4. ASSUME NEW c \in Callers, FaultyStep(c) PROVE RInv'
  <2>1. CASE StatementFails(c)
    BY <2>1 DEF StatementFails, Goto, Answer, TypeOK, InTxn
  <2>2. CASE Crash(c)
    BY <2>2 DEF Crash, Goto, Answer, TypeOK
  <2>3. CASE CreateAckLost(c)
    BY <2>3 DEF CreateAckLost, Goto, Answer, TypeOK
  <2>4. CASE CommitAckLost(c)
    BY <2>4 DEF CommitAckLost, Goto, Answer, TypeOK
  <2>5. CASE FailureAckLost(c)
    BY <2>5 DEF FailureAckLost, Goto, Answer, TypeOK
  <2>6. QED
    BY <1>4, <2>1, <2>2, <2>3, <2>4, <2>5 DEF FaultyStep
<1>5. CASE Tick
    BY <1>5 DEF Tick, callVars
<1>6. CASE UNCHANGED vars
    BY <1>6 DEF vars, callVars
<1>7. QED
    BY <1>1, <1>2, <1>3, <1>4, <1>5, <1>6 DEF Next, Finished

(* How the mapped state reacts to the two kinds of change a step can make. *)
LEMMA SameStatusSameStore ==
    ASSUME UNCHANGED <<batch, status>>
    PROVE  StoredBatches' = StoredBatches
BY DEF StoredBatches, Succeeded

LEMMA InitRefines == Init => Promise!Init
<1> SUFFICES ASSUME Init PROVE Promise!Init
    OBVIOUS
<1>1. StoredBatches = {}
    BY DEF Init, StoredBatches, Succeeded
<1>2. want \in [Callers -> Batches]
    BY BatchAssumption DEF Init, AnyBatch
<1>3. \A c \in Callers : Phase(c) = "idle" /\ FinalAnswer(c) = "none"
    BY DEF Init, Phase, FinalAnswer, None
<1>4. QED
    BY <1>1, <1>2, <1>3 DEF Promise!Init

Unmoved(d) == Phase(d)' = Phase(d) /\ FinalAnswer(d)' = FinalAnswer(d)

LEMMA OthersUnmoved ==
    ASSUME TypeOK, NEW c \in Callers, NEW step, Goto(c, step),
           \/ UNCHANGED answer
           \/ \E k, r : Answer(c, k, r)
    PROVE  \A d \in Callers \ {c} : Unmoved(d)
<1> SUFFICES ASSUME NEW d \in Callers \ {c} PROVE Unmoved(d)
    OBVIOUS
<1>1. pc'[d] = pc[d] /\ answer'[d] = answer[d]
    BY DEF Goto, Answer, TypeOK
<1>2. QED
    BY <1>1 DEF Unmoved, Phase, FinalAnswer

LEMMA MapStutter ==
    ASSUME want' = want, StoredBatches' = StoredBatches, \A d \in Callers : Unmoved(d)
    PROVE  UNCHANGED Promise!avars
BY DEF Promise!avars, Unmoved

LEMMA MapReply ==
    ASSUME NEW c \in Callers, NEW kind, want' = want, StoredBatches' = StoredBatches,
           \A d \in Callers \ {c} : Unmoved(d),
           Phase(c)' = "idle", FinalAnswer(c)' = kind
    PROVE  Promise!Reply(c, kind)
BY DEF Promise!Reply, Unmoved

MapsToPromise == Promise!Next \/ UNCHANGED Promise!avars

LEMMA CallRefines ==
    ASSUME TypeOK, NEW c \in Callers, NEW b \in Batches, NEW first \in {"find", "create"},
           NEW kind \in {None, "recorded"}, Call(c, b, first, kind)
    PROVE  MapsToPromise
<1>1. Goto(c, first) /\ Answer(c, kind, NoRun) /\ want' = [want EXCEPT ![c] = b] /\ pc[c] = "idle"
    BY DEF Call
<1>2. \A d \in Callers \ {c} : Unmoved(d)
    BY <1>1, OthersUnmoved
<1>3. StoredBatches' = StoredBatches
    BY SameStatusSameStore DEF Call, dbVars
<1>4. Phase(c) = "idle" /\ Phase(c)' = "asked" /\ FinalAnswer(c)' = "none"
    BY <1>1 DEF Goto, TypeOK, Phase, FinalAnswer, None
<1>5. Promise!Ask(c, b)
    BY <1>1, <1>2, <1>3, <1>4 DEF Promise!Ask, Unmoved
<1>6. QED
    BY <1>5 DEF MapsToPromise, Promise!Next

(* Steps that neither publish nor end the call leave the promise's state   *)
(* alone.                                                                  *)
LEMMA InnerRefines ==
    ASSUME TypeOK, NEW c \in Callers, NEW step \in PC \ {"idle", "read"}, Goto(c, step),
           pc[c] \notin {"idle", "read"},
           \/ UNCHANGED answer
           \/ \E k, r : Answer(c, k, r),
           want' = want, StoredBatches' = StoredBatches
    PROVE  MapsToPromise
<1>1. \A d \in Callers \ {c} : Unmoved(d)
    BY OthersUnmoved
<1>2. Unmoved(c)
    BY DEF Goto, TypeOK, Unmoved, Phase, FinalAnswer
<1>3. UNCHANGED Promise!avars
    BY <1>1, <1>2, MapStutter
<1>4. QED
    BY <1>3 DEF MapsToPromise

LEMMA CreatedStoresNothing ==
    ASSUME TypeOK, Allocated, NEW b \in Batches, NewPendingRun(b)
    PROVE  StoredBatches' = StoredBatches
<1>1. lastRun + 1 \in RunId /\ status[lastRun + 1] = "absent"
    BY BoundAssumption DEF NewPendingRun, TypeOK, Allocated, RunId
<1>2. \A r \in RunId : /\ Succeeded(r)' <=> Succeeded(r)
                       /\ Succeeded(r) => batch'[r] = batch[r]
    BY <1>1 DEF NewPendingRun, TypeOK, Succeeded
<1>3. QED
    BY <1>2 DEF StoredBatches

LEMMA FailureStoresNothing ==
    ASSUME TypeOK, NEW q \in RunId, ~Succeeded(q), WriteFailure(q)
    PROVE  StoredBatches' = StoredBatches
<1>1. \A r \in RunId : (Succeeded(r)' <=> Succeeded(r)) /\ batch'[r] = batch[r]
    BY DEF WriteFailure, TypeOK, Succeeded
<1>2. QED
    BY <1>1 DEF StoredBatches

LEMMA PublishStores ==
    ASSUME TypeOK, NEW c \in Callers, mine[c] \in RunId, batch[mine[c]] = want[c],
           PublishSnapshot(c)
    PROVE  StoredBatches' = StoredBatches \cup {want[c]}
<1>1. \A r \in RunId : /\ Succeeded(r)' <=> Succeeded(r) \/ r = mine[c]
                       /\ batch'[r] = batch[r]
    BY DEF PublishSnapshot, TypeOK, Succeeded
<1>2. QED
    BY <1>1 DEF StoredBatches

(* A call ends with an answer the promise allows: "new" after a store,     *)
(* "idempotent" for a stored batch, "failed" at any time.                  *)
LEMMA ReturnRefines ==
    ASSUME TypeOK, NEW c \in Callers, Goto(c, "idle"), pc[c] # "idle",
           \/ UNCHANGED answer
           \/ \E k, r : Answer(c, k, r),
           want' = want, StoredBatches' = StoredBatches,
           \/ answer'[c] \in {"error", "recorded", "crashed"}
           \/ answer'[c] = "new" /\ pc[c] = "read"
           \/ answer'[c] = "idempotent" /\ pc[c] # "read" /\ want[c] \in StoredBatches
    PROVE  MapsToPromise
<1>1. \A d \in Callers \ {c} : Unmoved(d)
    BY OthersUnmoved
<1>2. pc'[c] = "idle"
    BY DEF Goto, TypeOK
<1>3. CASE answer'[c] \in {"error", "recorded", "crashed"}
  <2>1. Phase(c)' = "idle" /\ FinalAnswer(c)' = "failed" /\ Phase(c) # "idle"
    BY <1>2, <1>3 DEF Phase, FinalAnswer
  <2>2. Promise!ReplyFailed(c)
    BY <2>1, <1>1, MapReply DEF Promise!ReplyFailed
  <2>3. QED
    BY <2>2 DEF MapsToPromise, Promise!Next
<1>4. CASE answer'[c] = "new" /\ pc[c] = "read"
  <2>1. Phase(c)' = "idle" /\ FinalAnswer(c)' = "new" /\ Phase(c) = "stored"
    BY <1>2, <1>4 DEF Phase, FinalAnswer
  <2>2. Promise!ReplyNew(c)
    BY <2>1, <1>1, MapReply DEF Promise!ReplyNew
  <2>3. QED
    BY <2>2 DEF MapsToPromise, Promise!Next
<1>5. CASE answer'[c] = "idempotent" /\ pc[c] # "read" /\ want[c] \in StoredBatches
  <2>1. Phase(c)' = "idle" /\ FinalAnswer(c)' = "idempotent" /\ Phase(c) = "asked"
    BY <1>2, <1>5 DEF Phase, FinalAnswer
  <2>2. Promise!ReplyIdempotent(c)
    BY <2>1, <1>1, <1>5, MapReply DEF Promise!ReplyIdempotent
  <2>3. QED
    BY <2>2 DEF MapsToPromise, Promise!Next
<1>6. QED
    BY <1>3, <1>4, <1>5

LEMMA CommitRefines ==
    ASSUME IInv, RInv, lost = {}, NEW c \in Callers, CommitSuccess(c)
    PROVE  MapsToPromise
<1>1. TypeOK /\ Goto(c, "read") /\ PublishSnapshot(c) /\ pc[c] = "commit" /\ want' = want /\ answer' = answer
    BY DEF IInv, CommitSuccess
<1>2. \A d \in Callers \ {c} : Unmoved(d)
    BY <1>1, OthersUnmoved
<1>3. mine[c] \in RunId /\ batch[mine[c]] = want[c]
    BY <1>1 DEF IInv, Owned, Working
<1>4. StoredBatches' = StoredBatches \cup {want[c]}
    BY <1>1, <1>3, PublishStores
<1>5. want[c] \notin StoredBatches \cup Rejected
    BY <1>1 DEF IInv, IndexExclusive, RInv, StoredBatches
<1>6. Phase(c) = "asked" /\ Phase(c)' = "stored" /\ FinalAnswer(c)' = FinalAnswer(c)
    BY <1>1 DEF Goto, TypeOK, Phase, FinalAnswer
<1>7. Promise!Store(c)
    BY <1>1, <1>2, <1>4, <1>5, <1>6 DEF Promise!Store, Unmoved
<1>8. QED
    BY <1>7 DEF MapsToPromise, Promise!Next

LEMMA StepRefines ==
    ASSUME IInv, RInv, lost = {}, NEW c \in Callers, Step(c)
    PROVE  MapsToPromise
<1>0. TypeOK
    BY DEF IInv
<1>1. CASE FindSuccessfulRun(c)
  <2>1. pc[c] = "find" /\ want' = want /\ StoredBatches' = StoredBatches
    BY <1>1, SameStatusSameStore DEF FindSuccessfulRun, dbVars
  <2>2. CASE Goto(c, "create") /\ UNCHANGED answer
    BY <2>1, <2>2, <1>0, InnerRefines DEF PC
  <2>3. ASSUME NEW w \in Winners(want[c]), Answer(c, "idempotent", w), Goto(c, "idle")
        PROVE  MapsToPromise
    <3>1. want[c] \in StoredBatches
      BY DEF Winners, StoredBatches
    <3>2. answer'[c] = "idempotent"
      BY <2>3, <1>0 DEF Answer, TypeOK
    <3>3. QED
      BY <3>1, <3>2, <2>1, <2>3, <1>0, ReturnRefines
  <2>4. QED
    BY <1>1, <2>2, <2>3 DEF FindSuccessfulRun
<1>2. CASE CreatePendingRun(c)
  <2>1. pc[c] = "create" /\ want' = want /\ want[c] \in Batches /\ NewPendingRun(want[c])
    BY <1>2, <1>0 DEF CreatePendingRun, TypeOK
  <2>2. StoredBatches' = StoredBatches
    BY <2>1, <1>0, CreatedStoresNothing DEF IInv
  <2>3. \E step \in {"persist", "fail"} : Goto(c, step)
    BY <1>2 DEF CreatePendingRun
  <2>4. UNCHANGED answer \/ \E k, r : Answer(c, k, r)
    BY <1>2 DEF CreatePendingRun
  <2>5. QED
    BY <2>1, <2>2, <2>3, <2>4, <1>0, InnerRefines DEF PC
<1>3. CASE PersistSnapshot(c) \/ FlushSuccess(c) \/ ResolveConflict(c)
  <2>1. pc[c] \in {"persist", "flush", "resolve"} /\ want' = want /\ UNCHANGED <<batch, status>>
    BY <1>3 DEF PersistSnapshot, FlushSuccess, ResolveConflict, dbVars
  <2>2. \E step \in {"flush", "commit", "resolve", "fail"} : Goto(c, step)
    BY <1>3 DEF PersistSnapshot, FlushSuccess, ResolveConflict
  <2>3. UNCHANGED answer \/ \E k, r : Answer(c, k, r)
    BY <1>3 DEF PersistSnapshot, FlushSuccess, ResolveConflict
  <2>4. QED
    BY <2>1, <2>2, <2>3, <1>0, SameStatusSameStore, InnerRefines DEF PC
<1>4. CASE CommitSuccess(c)
    BY <1>4, CommitRefines
<1>5. CASE MarkFailed(c)
  <2>1. pc[c] = "fail" /\ WriteFailure(mine[c]) /\ Goto(c, "idle") /\ want' = want /\ answer' = answer
    BY <1>5 DEF MarkFailed
  <2>2. mine[c] \in RunId /\ ~Succeeded(mine[c])
    BY <2>1 DEF IInv, Owned, Staged, Working, RInv, Succeeded
  <2>3. StoredBatches' = StoredBatches
    BY <2>1, <2>2, <1>0, FailureStoresNothing
  <2>4. answer[c] \in {"idempotent", "recorded", "error"}
    BY <2>1 DEF RInv, IInv, UniqueErrorNeedsLostCommit
  <2>5. answer[c] = "idempotent" => want[c] \in StoredBatches
    BY DEF IInv, RInv, RepliesNameSuccess, StoredBatches, TypeOK
  <2>6. QED
    BY <2>1, <2>3, <2>4, <2>5, <1>0, ReturnRefines
<1>6. CASE ReadBack(c)
  <2>1. pc[c] = "read" /\ Answer(c, "new", mine[c]) /\ Goto(c, "idle") /\ want' = want
    BY <1>6 DEF ReadBack
  <2>2. StoredBatches' = StoredBatches
    BY <1>6, SameStatusSameStore DEF ReadBack, dbVars
  <2>3. answer'[c] = "new"
    BY <2>1, <1>0 DEF Answer, TypeOK
  <2>4. QED
    BY <2>1, <2>2, <2>3, <1>0, ReturnRefines
<1>7. QED
    BY <1>1, <1>2, <1>3, <1>4, <1>5, <1>6 DEF Step

LEMMA FaultRefines ==
    ASSUME IInv, RInv, lost' = {}, lost = {}, NEW c \in Callers, FaultyStep(c)
    PROVE  MapsToPromise
<1>0. TypeOK
    BY DEF IInv
<1>1. CASE StatementFails(c) \/ Crash(c)
  <2>1. pc[c] # "idle" /\ want' = want /\ StoredBatches' = StoredBatches
    BY <1>1, SameStatusSameStore DEF StatementFails, Crash, dbVars
  <2>2. \E k \in {"error", "crashed"} : Answer(c, k, NoRun)
    BY <1>1 DEF StatementFails, Crash
  <2>3. CASE Goto(c, "idle")
    <3>1. answer'[c] \in {"error", "crashed"}
      BY <2>2, <1>0 DEF Answer, TypeOK
    <3>2. QED
      BY <2>3, <2>1, <2>2, <3>1, <1>0, ReturnRefines
  <2>4. CASE Goto(c, "fail") /\ pc[c] \in {"persist", "flush", "commit"}
    BY <2>4, <2>1, <2>2, <1>0, InnerRefines DEF PC
  <2>5. QED
    BY <1>1, <2>3, <2>4 DEF StatementFails, Crash, InTxn
<1>2. CASE CreateAckLost(c) \/ FailureAckLost(c)
  <2>1. pc[c] # "idle" /\ Goto(c, "idle") /\ want' = want /\ Answer(c, "error", NoRun)
    BY <1>2 DEF CreateAckLost, FailureAckLost
  <2>2. StoredBatches' = StoredBatches
    <3>1. CASE CreateAckLost(c)
      <4>1. want[c] \in Batches /\ NewPendingRun(want[c])
        BY <3>1, <1>0 DEF CreateAckLost, TypeOK
      <4>2. QED
        BY <4>1, <1>0, CreatedStoresNothing DEF IInv
    <3>2. CASE FailureAckLost(c)
      <4>1. pc[c] = "fail" /\ WriteFailure(mine[c])
        BY <3>2 DEF FailureAckLost
      <4>2. mine[c] \in RunId /\ ~Succeeded(mine[c])
        BY <4>1 DEF IInv, Owned, Staged, Working, Succeeded
      <4>3. QED
        BY <4>1, <4>2, <1>0, FailureStoresNothing
    <3>3. QED
      BY <1>2, <3>1, <3>2
  <2>3. answer'[c] = "error"
    BY <2>1, <1>0 DEF Answer, TypeOK
  <2>4. QED
    BY <2>1, <2>2, <2>3, <1>0, ReturnRefines
<1>3. CASE CommitAckLost(c)
    BY <1>3 DEF CommitAckLost
<1>4. QED
    BY <1>1, <1>2, <1>3 DEF FaultyStep

LEMMA NextRefines ==
    ASSUME IInv, RInv, lost' = {}, [Next]_vars
    PROVE  MapsToPromise
<1>0. TypeOK
    BY DEF IInv
<1>1. ASSUME NEW c \in Callers, NEW b \in Batches, IngestBundle(c, b) \/ RecordFailedAttempt(c, b)
      PROVE  MapsToPromise
    BY <1>1, <1>0, CallRefines DEF IngestBundle, RecordFailedAttempt
<1>2. ASSUME NEW c \in Callers, Step(c) \/ FaultyStep(c) PROVE MapsToPromise
  <2>1. lost \subseteq lost'
    BY <1>2 DEF Step, FindSuccessfulRun, CreatePendingRun, PersistSnapshot, FlushSuccess,
                CommitSuccess, ResolveConflict, MarkFailed, ReadBack, FaultyStep,
                StatementFails, CreateAckLost, CommitAckLost, FailureAckLost, Crash
  <2>2. lost = {}
    BY <2>1
  <2>3. QED
    BY <1>2, <2>2, StepRefines, FaultRefines
<1>3. CASE Tick \/ UNCHANGED vars
  <2>1. UNCHANGED <<batch, status, pc, want, answer>>
    BY <1>3 DEF Tick, vars, dbVars, callVars
  <2>2. \A d \in Callers : Unmoved(d)
    BY <2>1 DEF Unmoved, Phase, FinalAnswer
  <2>3. UNCHANGED Promise!avars
    BY <2>1, <2>2, SameStatusSameStore, MapStutter
  <2>4. QED
    BY <2>3 DEF MapsToPromise
<1>4. QED
    BY <1>1, <1>2, <1>3 DEF Next, Finished

(* Until a commit that went through is reported as an error, the whole     *)
(* protocol, whatever its interleavings, errors and crashes, is            *)
(* indistinguishable for its callers from a store that imports each batch  *)
(* atomically and at most once.                                            *)
THEOREM Refinement == Spec => ImplementsImportOnce
<1>1. Init => RInv
    BY InitRInv
<1>2. TypeOK /\ RInv /\ [Next]_vars => RInv'
    BY NextRInv
<1>3. Init => Promise!Init
    BY InitRefines
<1>4. IInv /\ RInv /\ [Next]_vars => [Promise!Next \/ lost' # {}]_(Promise!avars)
    BY NextRefines DEF MapsToPromise
<1>5. IInv => TypeOK
    BY DEF IInv
<1>6. QED
    BY <1>1, <1>2, <1>3, <1>4, <1>5, Invariance, PTL DEF Spec, ImplementsImportOnce

-----------------------------------------------------------------------------
(* Reads bounded by a settled recorded time.                               *)

(* A step takes at most one run away from those a settled read may pick,   *)
(* and only one whose commit was lost; it adds none and moves none.        *)
OnlyLostLeaves(s, cutoff, t) ==
    \E m \in RunId \cup {NoRun} :
        /\ m \in Eligible(s, cutoff, t) => m \in lost
        /\ Eligible(s, cutoff, t)' = Eligible(s, cutoff, t) \ {m}
        /\ \A r \in Eligible(s, cutoff, t) \ {m} :
               batch'[r] = batch[r] /\ completed'[r] = completed[r]

LEMMA EligibleOnlyShrinks ==
    ASSUME IInv, [Next]_vars, NEW s, NEW cutoff \in Nat, NEW t \in Nat, Settled(t)
    PROVE  OnlyLostLeaves(s, cutoff, t)
<1> DEFINE E == Eligible(s, cutoff, t)
<1> USE DEF Succeeded
<1>1. ASSUME UNCHANGED <<batch, status, imported, completed>>
      PROVE  OnlyLostLeaves(s, cutoff, t)
  <2>1. E' = E \ {NoRun} /\ NoRun \notin E
    BY <1>1 DEF Eligible, NoRun, RunId
  <2>2. QED
    BY <1>1, <2>1 DEF OnlyLostLeaves
<1>2. ASSUME NEW b \in Batches, NewPendingRun(b) PROVE OnlyLostLeaves(s, cutoff, t)
  <2> DEFINE n == lastRun + 1
  <2>1. n \in RunId /\ status[n] = "absent" /\ status'[n] = "pending"
    BY <1>2, BoundAssumption DEF NewPendingRun, IInv, TypeOK, Allocated, RunId
  <2>2. \A r \in RunId \ {n} : /\ status'[r] = status[r] /\ batch'[r] = batch[r]
                               /\ imported'[r] = imported[r] /\ completed'[r] = completed[r]
    BY <1>2 DEF NewPendingRun, IInv, TypeOK
  <2>3. n \notin E /\ E' = E \ {n}
    BY <2>1, <2>2 DEF Eligible
  <2>4. \A r \in E \ {n} : batch'[r] = batch[r] /\ completed'[r] = completed[r]
    BY <2>2 DEF Eligible
  <2>5. QED
    BY <2>1, <2>3, <2>4 DEF OnlyLostLeaves
<1>3. ASSUME NEW c \in Callers, pc[c] = "commit", PublishSnapshot(c)
      PROVE  OnlyLostLeaves(s, cutoff, t)
  <2> DEFINE m == mine[c]
  <2>1. m \in RunId /\ status[m] = "pending"
    BY <1>3 DEF IInv, Owned, Staged, Working
  <2>2. completed'[m] = stamp[c] /\ stamp[c] > t /\ stamp[c] \in Nat
    BY <1>3, <2>1 DEF PublishSnapshot, IInv, TypeOK, Settled, InTxn
  <2>3. \A r \in RunId \ {m} : /\ status'[r] = status[r] /\ batch'[r] = batch[r]
                               /\ imported'[r] = imported[r] /\ completed'[r] = completed[r]
    BY <1>3 DEF PublishSnapshot, IInv, TypeOK
  <2>4. m \notin E /\ ~(completed'[m] <= t)
    BY <2>1, <2>2 DEF Eligible
  <2>5. E' = E \ {m}
    BY <2>3, <2>4 DEF Eligible
  <2>6. \A r \in E \ {m} : batch'[r] = batch[r] /\ completed'[r] = completed[r]
    BY <2>3 DEF Eligible
  <2>7. QED
    BY <2>1, <2>4, <2>5, <2>6 DEF OnlyLostLeaves
<1>4. ASSUME NEW c \in Callers, pc[c] = "fail", WriteFailure(mine[c])
      PROVE  OnlyLostLeaves(s, cutoff, t)
  <2> DEFINE m == mine[c]
  <2>1. m \in RunId /\ (status[m] = "pending" \/ m \in lost) /\ status'[m] = "failed"
    BY <1>4 DEF IInv, TypeOK, Owned, Staged, Working, WriteFailure
  <2>2. \A r \in RunId \ {m} : /\ status'[r] = status[r] /\ batch'[r] = batch[r]
                               /\ imported'[r] = imported[r] /\ completed'[r] = completed[r]
    BY <1>4 DEF WriteFailure, IInv, TypeOK
  <2>3. (m \in E => m \in lost) /\ E' = E \ {m}
    BY <2>1, <2>2 DEF Eligible
  <2>4. \A r \in E \ {m} : batch'[r] = batch[r] /\ completed'[r] = completed[r]
    BY <2>2 DEF Eligible
  <2>5. QED
    BY <2>1, <2>3, <2>4 DEF OnlyLostLeaves
<1>5. ASSUME NEW c \in Callers, Step(c) \/ FaultyStep(c) PROVE OnlyLostLeaves(s, cutoff, t)
  <2>1. \/ UNCHANGED <<batch, status, imported, completed>>
        \/ NewPendingRun(want[c])
        \/ pc[c] = "commit" /\ PublishSnapshot(c)
        \/ pc[c] = "fail" /\ WriteFailure(mine[c])
    BY <1>5 DEF Step, FaultyStep, FindSuccessfulRun, CreatePendingRun, PersistSnapshot,
        FlushSuccess, CommitSuccess, ResolveConflict, MarkFailed, ReadBack, StatementFails,
        CreateAckLost, CommitAckLost, FailureAckLost, Crash, dbVars
  <2>2. want[c] \in Batches
    BY DEF IInv, TypeOK
  <2>3. QED
    BY <2>1, <2>2, <1>1, <1>2, <1>3, <1>4
<1>6. QED
    BY <1>1, <1>5 DEF Next, IngestBundle, RecordFailedAttempt, Call, Tick, Finished, vars, dbVars

(* A settled time stays settled: a transaction opened later samples a      *)
(* later completion time.                                                  *)
LEMMA SettledStays ==
    ASSUME IInv, [Next]_vars, NEW t \in Nat, Settled(t)
    PROVE  Settled(t)'
<1> USE DEF Settled, InTxn
<1>1. clock \in Nat /\ clock' \in Nat /\ clock <= clock'
    BY BoundAssumption DEF IInv, TypeOK, Next, IngestBundle, RecordFailedAttempt, Call, Tick,
        Finished, vars, Step, FaultyStep, FindSuccessfulRun, CreatePendingRun, PersistSnapshot,
        FlushSuccess, CommitSuccess, ResolveConflict, MarkFailed, ReadBack, StatementFails,
        CreateAckLost, CommitAckLost, FailureAckLost, Crash
<1>2. ASSUME NEW d \in Callers, pc'[d] \in InTxn PROVE stamp'[d] > t
  <2>1. CASE pc'[d] = pc[d] /\ stamp'[d] = stamp[d]
    BY <2>1, <1>2
  <2>2. CASE pc[d] = "persist" /\ stamp'[d] = clock
    BY <2>2, <1>1
  <2>3. CASE pc[d] = "flush" /\ stamp'[d] = stamp[d]
    BY <2>3
  <2>4. ASSUME NEW c \in Callers, Step(c) \/ FaultyStep(c), c # d
        PROVE  pc'[d] = pc[d] /\ stamp'[d] = stamp[d]
    BY <2>4 DEF IInv, TypeOK, Step, FaultyStep, FindSuccessfulRun, CreatePendingRun,
        PersistSnapshot, FlushSuccess, CommitSuccess, ResolveConflict, MarkFailed, ReadBack,
        StatementFails, CreateAckLost, CommitAckLost, FailureAckLost, Crash, Goto
  <2>5. ASSUME Step(d)
        PROVE  \/ pc[d] = "persist" /\ stamp'[d] = clock
               \/ pc[d] = "flush" /\ stamp'[d] = stamp[d]
    BY <2>5, <1>2 DEF IInv, TypeOK, Step, FindSuccessfulRun, CreatePendingRun,
        PersistSnapshot, FlushSuccess, CommitSuccess, ResolveConflict, MarkFailed, ReadBack, Goto
  <2>6. ASSUME FaultyStep(d) PROVE FALSE
    BY <2>6, <1>2 DEF IInv, TypeOK, FaultyStep, StatementFails, CreateAckLost, CommitAckLost,
        FailureAckLost, Crash, Goto
  <2>7. ASSUME NEW c \in Callers, NEW b \in Batches, IngestBundle(c, b) \/ RecordFailedAttempt(c, b)
        PROVE  pc'[d] = pc[d] /\ stamp'[d] = stamp[d]
    BY <2>7, <1>2 DEF IInv, TypeOK, IngestBundle, RecordFailedAttempt, Call, Goto
  <2>8. CASE Tick \/ UNCHANGED vars
    BY <2>8, <2>1 DEF Tick, vars, callVars
  <2>9. QED
    BY <2>1, <2>2, <2>3, <2>4, <2>5, <2>6, <2>7, <2>8 DEF Next, Finished
<1>3. QED
    BY <1>1, <1>2

(* Taking away a run that is not selected selects the same run: whatever   *)
(* stood above it still does.                                              *)
LEMMA SelectionStays ==
    ASSUME IInv, NEW s, NEW cutoff \in Nat, NEW t \in Nat, OnlyLostLeaves(s, cutoff, t),
           Selected(s, cutoff, t) \cap lost = {}
    PROVE  Selected(s, cutoff, t)' = Selected(s, cutoff, t)
<1> DEFINE E == Eligible(s, cutoff, t)
<1>1. PICK m \in RunId \cup {NoRun} :
          /\ m \in E => m \in lost
          /\ E' = E \ {m}
          /\ \A r \in E \ {m} : batch'[r] = batch[r] /\ completed'[r] = completed[r]
    BY DEF OnlyLostLeaves
<1>2. \A r \in E : CutoffOf[batch[r]] \in Nat /\ completed[r] \in Nat /\ r \in Nat
  <2>1. \A r \in E : r \in RunId
    BY DEF Eligible
  <2>2. \A r \in RunId : batch[r] \in Batches /\ completed[r] \in Nat /\ r \in Nat
    BY BoundAssumption DEF IInv, TypeOK, RunId
  <2>3. QED
    BY <2>1, <2>2, BatchAssumption
<1>3. \A r, q \in E : Outranks(r, q) \/ Outranks(q, r)
    BY <1>2 DEF Outranks
<1>4. \A p, q, r \in E : Outranks(p, q) /\ Outranks(q, r) => Outranks(p, r)
    BY <1>2 DEF Outranks
<1>5. \A r, q \in E \ {m} : Outranks(r, q)' <=> Outranks(r, q)
    BY <1>1 DEF Outranks
<1>6. Selected(s, cutoff, t) = {r \in E : \A q \in E : Outranks(r, q)}
    BY DEF Selected
<1>7. Selected(s, cutoff, t)' = {r \in E \ {m} : \A q \in E \ {m} : Outranks(r, q)}
    BY <1>1, <1>5 DEF Selected
<1>8. CASE m \in E
  <2>1. PICK above \in E : ~Outranks(m, above)
    BY <1>1, <1>6, <1>8
  <2>2. above # m /\ Outranks(above, m)
    BY <1>3, <1>8, <2>1
  <2>3. ASSUME NEW r \in E \ {m}, \A q \in E \ {m} : Outranks(r, q)
        PROVE  \A q \in E : Outranks(r, q)
    BY <1>4, <1>8, <2>2, <2>3
  <2>4. m \notin Selected(s, cutoff, t)
    BY <1>6, <2>1
  <2>5. QED
    BY <1>6, <1>7, <2>3, <2>4
<1>9. CASE m \notin E
  <2>1. E \ {m} = E
    BY <1>9
  <2>2. QED
    BY <1>6, <1>7, <2>1
<1>10. QED
    BY <1>8, <1>9

ReadRepeats(s, cutoff, t) ==
    Settled(t) /\ Selected(s, cutoff, t) \cap lost = {} =>
        Settled(t)' /\ Selected(s, cutoff, t)' = Selected(s, cutoff, t)

LEMMA StepRepeatsReads ==
    ASSUME IInv, [Next]_vars,
           NEW s \in Series, NEW cutoff \in {CutoffOf[b] : b \in Batches}, NEW t \in 0..MaxClock
    PROVE  ReadRepeats(s, cutoff, t)
<1>1. cutoff \in Nat /\ t \in Nat
    BY BatchAssumption, BoundAssumption
<1>2. QED
    BY <1>1, EligibleOnlyShrinks, SettledStays, SelectionStays DEF ReadRepeats

(* A read as of a settled time is repeatable: no later step of any caller, *)
(* and no fault, changes which run it selects.                             *)
THEOREM ReadsAreRepeatable == Spec => SettledReadsRepeat
<1>1. IInv /\ [Next]_vars =>
          [\A s \in Series, cutoff \in {CutoffOf[b] : b \in Batches}, t \in 0..MaxClock :
              ReadRepeats(s, cutoff, t)]_vars
    BY StepRepeatsReads
<1>2. QED
    BY <1>1, Invariance, PTL DEF Spec, SettledReadsRepeat, ReadRepeats

---------------------------------------------------------------------------
(* The acquisition, a market import followed by a benchmark import.        *)

(* A run that was created for a bundle, and stands unless its commit was    *)
(* reported as an error.                                                    *)
Stands(r, bundle) ==
    /\ r \in RunId /\ status[r] # "absent" /\ batch[r] = Batch(bundle)
    /\ r \notin lost => Succeeded(r)

(* An answer names a run of the batch asked for.                            *)
AnswersFit ==
    \A c \in Callers :
        answer[c] \in {"new", "idempotent"} =>
            named[c] \in RunId /\ status[named[c]] # "absent" /\ batch[named[c]] = want[c]

(* What a working acquirer is importing, and the market run it has.         *)
JobFits(c) ==
    /\ job[c].input \in Ready
    /\ job[c].market \in RunId \cup {NoRun}
    /\ job[c] = Outcome(job[c].input, job[c].market, NoRun)
    /\ job[c].market = NoRun => want[c] = Batch(Market(InputOf[job[c].input]))
    /\ job[c].market # NoRun =>
           /\ want[c] = Batch(Benchmark(InputOf[job[c].input]))
           /\ Stands(job[c].market, Market(InputOf[job[c].input]))

JobsFit == job = [c \in Callers |-> job[c]] /\ \A c \in Callers : job[c] # NoJob => JobFits(c)

OutcomeFits(o) ==
    /\ o.input \in Ready
    /\ Stands(o.market, Market(InputOf[o.input]))
    /\ o.benchmark # NoRun => Stands(o.benchmark, Benchmark(InputOf[o.input]))

OutcomesFit == \A o \in outcomes : OutcomeFits(o)

JInv == IInv /\ AnswersFit /\ JobsFit /\ OutcomesFit

-----------------------------------------------------------------------------
(* Acquirers are callers of the two services and nothing else.              *)

LEMMA BatchesKnown ==
    ASSUME NEW f \in Ready
    PROVE  /\ Batch(Market(InputOf[f])) \in Batches
           /\ BundleOf[Batch(Market(InputOf[f]))] = Market(InputOf[f])
           /\ Batch(Benchmark(InputOf[f])) \in Batches
           /\ BundleOf[Batch(Benchmark(InputOf[f]))] = Benchmark(InputOf[f])
<1>1. ASSUME NEW bundle \in {BundleOf[b] : b \in Batches}
      PROVE  Batch(bundle) \in Batches /\ BundleOf[Batch(bundle)] = bundle
    BY DEF Batch
<1>2. /\ Market(InputOf[f]) \in {BundleOf[b] : b \in Batches}
      /\ Benchmark(InputOf[f]) \in {BundleOf[b] : b \in Batches}
    BY BundleAssumption
<1>3. QED
    BY <1>1, <1>2

LEMMA NextImports ==
    ASSUME JInv, [AcquisitionNext]_acquisitionVars
    PROVE  [Next]_vars
<1>1. ASSUME NEW c \in Callers, NEW f \in Inputs, PersistFoundation(c, f) PROVE Next
    BY <1>1, BatchesKnown DEF PersistFoundation, Next
<1>2. ASSUME NEW c \in Callers, PersistBenchmark(c) PROVE Next
  <2>1. job[c].input \in Ready
    BY <1>2 DEF PersistBenchmark, Answered, JInv, JobsFit, JobFits
  <2>2. QED
    BY <1>2, <2>1, BatchesKnown DEF PersistBenchmark, Next
<1>3. ASSUME NEW c \in Callers, Receipt(c) \/ GiveUp(c) PROVE UNCHANGED vars
    BY <1>3 DEF Receipt, GiveUp
<1>4. CASE OthersGoOn
    BY <1>4, AcquisitionAssumption DEF OthersGoOn, Import, Next
<1>5. CASE Exhausted
    BY <1>5 DEF Exhausted, Next
<1>6. CASE UNCHANGED acquisitionVars
    BY <1>6 DEF acquisitionVars
<1>7. QED
    BY <1>1, <1>2, <1>3, <1>4, <1>5, <1>6 DEF AcquisitionNext

-----------------------------------------------------------------------------
(* What a step of the services leaves as it is                             *)

(* The batch of a run is never rewritten and a lost commit never found.     *)
LEMMA RunsStay ==
    ASSUME IInv, [Next]_vars
    PROVE  /\ lost \subseteq lost'
           /\ \A r \in RunId : status[r] # "absent" => status'[r] # "absent" /\ batch'[r] = batch[r]
<1>1. ASSUME NEW c \in Callers, Step(c) \/ FaultyStep(c)
      PROVE  /\ lost \subseteq lost'
             /\ \/ UNCHANGED <<batch, status>>
                \/ NewPendingRun(want[c])
                \/ pc[c] = "commit" /\ PublishSnapshot(c)
                \/ pc[c] = "fail" /\ WriteFailure(mine[c])
    BY <1>1 DEF Step, FaultyStep, FindSuccessfulRun, CreatePendingRun, PersistSnapshot,
        FlushSuccess, CommitSuccess, ResolveConflict, MarkFailed, ReadBack, StatementFails,
        CreateAckLost, CommitAckLost, FailureAckLost, Crash, dbVars
<1> DEFINE Kept == \A r \in RunId : status[r] # "absent" =>
                       status'[r] # "absent" /\ batch'[r] = batch[r]
<1>2. ASSUME UNCHANGED <<batch, status>> PROVE Kept
    BY <1>2
<1>3. ASSUME NEW c \in Callers, NewPendingRun(want[c]) PROVE Kept
  <2>1. lastRun + 1 \in RunId /\ status[lastRun + 1] = "absent"
    BY <1>3, BoundAssumption DEF NewPendingRun, IInv, TypeOK, Allocated, RunId
  <2>2. QED
    BY <1>3, <2>1 DEF NewPendingRun, IInv, TypeOK
<1>4. ASSUME NEW c \in Callers, pc[c] = "commit", PublishSnapshot(c) PROVE Kept
    BY <1>4 DEF PublishSnapshot, IInv, TypeOK, Owned, Working
<1>5. ASSUME NEW c \in Callers, pc[c] = "fail", WriteFailure(mine[c]) PROVE Kept
    BY <1>5 DEF WriteFailure, IInv, TypeOK, Owned, Working
<1>6. ASSUME NEW c \in Callers, Step(c) \/ FaultyStep(c) PROVE lost \subseteq lost' /\ Kept
    BY <1>6, <1>1, <1>2, <1>3, <1>4, <1>5
<1>7. QED
    BY <1>2, <1>6 DEF Next, IngestBundle, RecordFailedAttempt, Call, Tick, Finished, vars, dbVars

LEMMA StandsStays ==
    ASSUME IInv, [Next]_vars, NEW r, NEW bundle, Stands(r, bundle)
    PROVE  Stands(r, bundle)'
<1>1. r \in RunId
    BY DEF Stands
<1>2. AttemptKept(r)
    BY <1>1, StepKeepsAttempts
<1>3. QED
    BY <1>1, <1>2, RunsStay DEF Stands, AttemptKept, Succeeded, Batch

(* How a step of a service changes the answer of a caller.                  *)
LEMMA AnswersChange ==
    ASSUME IInv, NEW c \in Callers, Step(c) \/ FaultyStep(c)
    PROVE  /\ want' = want
           /\ \/ UNCHANGED <<answer, named>>
              \/ \E w \in Winners(want[c]) : Answer(c, "idempotent", w)
              \/ Succeeded(mine[c]) /\ mine[c] \in RunId /\ batch[mine[c]] = want[c]
                 /\ Answer(c, "new", mine[c])
              \/ \E k \in {"error", "recorded", "integrity", "crashed"}, r \in Nat : Answer(c, k, r)
<1>1. NoRun \in Nat /\ lastRun + 1 \in Nat
    BY BoundAssumption DEF NoRun, IInv, TypeOK
<1>2. CASE ReadBack(c)
    BY <1>2 DEF ReadBack, IInv, Owned, Staged, Working
<1>3. CASE FindSuccessfulRun(c) \/ ResolveConflict(c)
    BY <1>1, <1>3 DEF FindSuccessfulRun, ResolveConflict
<1>4. CASE CreatePendingRun(c)
    BY <1>1, <1>4 DEF CreatePendingRun
<1>5. CASE PersistSnapshot(c) \/ FlushSuccess(c) \/ CommitSuccess(c) \/ MarkFailed(c)
    BY <1>5 DEF PersistSnapshot, FlushSuccess, CommitSuccess, MarkFailed
<1>6. CASE FaultyStep(c)
    BY <1>1, <1>6 DEF FaultyStep, StatementFails, CreateAckLost, CommitAckLost, FailureAckLost, Crash
<1>7. QED
    BY <1>2, <1>3, <1>4, <1>5, <1>6 DEF Step

LEMMA AnswersStay ==
    ASSUME IInv, AnswersFit, [Next]_vars
    PROVE  AnswersFit'
<1> SUFFICES ASSUME NEW d \in Callers, (answer[d] \in {"new", "idempotent"})'
             PROVE  (named[d] \in RunId /\ status[named[d]] # "absent" /\ batch[named[d]] = want[d])'
    BY DEF AnswersFit
<1> DEFINE Fits == named[d] \in RunId /\ status[named[d]] # "absent" /\ batch[named[d]] = want[d]
<1>1. answer \in [Callers -> Kinds] /\ named \in [Callers -> RunId \cup {NoRun}]
    BY DEF IInv, TypeOK
<1>2. CASE answer'[d] = answer[d] /\ named'[d] = named[d] /\ want'[d] = want[d]
    BY <1>2, RunsStay DEF AnswersFit
<1>3. ASSUME NEW c \in Callers, NEW b, NEW first, NEW kind \in {None, "recorded"}, Call(c, b, first, kind)
      PROVE  Fits'
  <2>1. d # c
    BY <1>1, <1>3 DEF Call, Answer, None
  <2>2. QED
    BY <1>1, <1>2, <1>3, <2>1 DEF Call, Answer, IInv, TypeOK
<1>4. ASSUME NEW c \in Callers, Step(c) \/ FaultyStep(c) PROVE Fits'
  <2>1. CASE d # c
    BY <1>1, <1>2, <1>4, <2>1, AnswersChange DEF Answer
  <2>2. CASE d = c /\ UNCHANGED <<answer, named>>
    BY <1>2, <1>4, <2>2, AnswersChange
  <2>3. ASSUME d = c, NEW w \in Winners(want[c]), Answer(c, "idempotent", w) PROVE Fits'
    BY <1>1, <1>4, <2>3, AnswersChange, RunsStay DEF Answer, Winners, Succeeded
  <2>4. CASE d = c /\ Succeeded(mine[c]) /\ mine[c] \in RunId /\ batch[mine[c]] = want[c]
             /\ Answer(c, "new", mine[c])
    BY <1>1, <1>4, <2>4, AnswersChange, RunsStay DEF Answer, Succeeded
  <2>5. ASSUME d = c, NEW k \in {"error", "recorded", "integrity", "crashed"}, NEW r \in Nat,
               Answer(c, k, r)
        PROVE  FALSE
    BY <1>1, <2>5 DEF Answer
  <2>6. QED
    BY <1>4, <2>1, <2>2, <2>3, <2>4, <2>5, AnswersChange
<1>5. CASE Tick \/ Finished \/ UNCHANGED vars
    BY <1>2, <1>5 DEF Tick, Finished, vars, callVars
<1>6. QED
    BY <1>3, <1>4, <1>5 DEF Next, IngestBundle, RecordFailedAttempt

-----------------------------------------------------------------------------
(* Acquirers                                                               *)

LEMMA InitJInv == AcquisitionInit => JInv
<1> SUFFICES ASSUME AcquisitionInit PROVE JInv
    OBVIOUS
<1>1. IInv
    BY InitIInv DEF AcquisitionInit
<1>2. AnswersFit
    BY DEF AcquisitionInit, Init, AnswersFit, None
<1>3. JobsFit /\ OutcomesFit
    BY DEF AcquisitionInit, JobsFit, OutcomesFit
<1>4. QED
    BY <1>1, <1>2, <1>3 DEF JInv

(* The other acquirers' jobs, and what came of earlier ones.                *)
LEMMA JobStays ==
    ASSUME JInv, [Next]_vars, NEW c \in Callers, job[c] # NoJob,
           job'[c] = job[c], want'[c] = want[c]
    PROVE  JobFits(c)'
<1>1. JobFits(c)
    BY DEF JInv, JobsFit
<1>2. PICK f \in Ready, m \in RunId \cup {NoRun} : job[c].input = f /\ job[c].market = m
    BY <1>1 DEF JobFits
<1>3. m # NoRun => Stands(m, Market(InputOf[f]))'
    BY <1>1, <1>2, StandsStays DEF JInv, JobFits
<1>4. QED
    BY <1>1, <1>2, <1>3 DEF JobFits

LEMMA OutcomeStays ==
    ASSUME JInv, [Next]_vars, NEW o \in outcomes
    PROVE  OutcomeFits(o)'
<1>1. OutcomeFits(o)
    BY DEF JInv, OutcomesFit
<1>2. QED
    BY <1>1, StandsStays DEF JInv, OutcomeFits

(* A run that an acquirer is answered with stands for what it asked for.    *)
LEMMA AnswerStands ==
    ASSUME JInv, NEW c \in Callers, NEW bundle, Stored(c), want[c] = Batch(bundle)
    PROVE  Stands(named[c], bundle) /\ named[c] # NoRun
<1>1. named[c] \in RunId /\ status[named[c]] # "absent" /\ batch[named[c]] = want[c]
    BY DEF JInv, AnswersFit, Stored
<1>2. named[c] \notin lost => Succeeded(named[c])
    BY <1>1 DEF JInv, IInv, RepliesNameSuccess, Stored
<1>3. QED
    BY <1>1, <1>2 DEF Stands, RunId, NoRun

LEMMA PersistFoundationStep ==
    ASSUME JInv, [Next]_vars, NEW c \in Callers, NEW f \in Inputs, PersistFoundation(c, f)
    PROVE  JobsFit' /\ OutcomesFit'
<1>1. /\ f \in Ready /\ job' = [job EXCEPT ![c] = Outcome(f, NoRun, NoRun)]
      /\ want' = [want EXCEPT ![c] = Batch(Market(InputOf[f]))]
      /\ outcomes' = outcomes
    BY DEF PersistFoundation, IngestBundle, Call
<1>2. job'[c] = Outcome(f, NoRun, NoRun) /\ want'[c] = Batch(Market(InputOf[f]))
    BY <1>1 DEF JInv, JobsFit, IInv, TypeOK
<1>3. JobFits(c)'
    BY <1>1, <1>2 DEF JobFits, Outcome
<1>4. ASSUME NEW d \in Callers, d # c, job'[d] # NoJob PROVE JobFits(d)'
    BY <1>1, <1>4, JobStays DEF JInv, JobsFit, IInv, TypeOK
<1>5. QED
    BY <1>1, <1>3, <1>4, OutcomeStays DEF JInv, JobsFit, OutcomesFit

LEMMA PersistBenchmarkStep ==
    ASSUME JInv, [Next]_vars, NEW c \in Callers, PersistBenchmark(c)
    PROVE  JobsFit' /\ OutcomesFit'
<1>1. JobFits(c) /\ job[c].market = NoRun /\ Stored(c)
    BY DEF PersistBenchmark, Answered, JInv, JobsFit
<1>2. PICK f \in Ready, m \in RunId : job[c].input = f /\ named[c] = m
    BY <1>1 DEF JobFits, Stored, JInv, AnswersFit
<1>3. /\ job' = [job EXCEPT ![c].market = m]
      /\ want' = [want EXCEPT ![c] = Batch(Benchmark(InputOf[f]))]
      /\ outcomes' = outcomes
    BY <1>2 DEF PersistBenchmark, IngestBundle, Call
<1>4. job'[c] = Outcome(f, m, NoRun) /\ want'[c] = Batch(Benchmark(InputOf[f]))
    BY <1>1, <1>2, <1>3 DEF JInv, JobsFit, JobFits, Outcome, IInv, TypeOK
<1>5. Stands(m, Market(InputOf[f])) /\ m # NoRun
    BY <1>1, <1>2, AnswerStands DEF JobFits
<1>6. Stands(m, Market(InputOf[f]))'
    BY <1>5, StandsStays DEF JInv
<1>7. JobFits(c)'
    BY <1>4, <1>5, <1>6 DEF JobFits, Outcome
<1>8. ASSUME NEW d \in Callers, d # c, job'[d] # NoJob PROVE JobFits(d)'
    BY <1>3, <1>8, JobStays DEF JInv, JobsFit, IInv, TypeOK
<1>9. QED
    BY <1>3, <1>7, <1>8, OutcomeStays DEF JInv, JobsFit, OutcomesFit

(* A receipt, or an error that names a market run: both runs stand.         *)
LEMMA EndStep ==
    ASSUME JInv, [Next]_vars, NEW c \in Callers, Receipt(c) \/ GiveUp(c)
    PROVE  JobsFit' /\ OutcomesFit'
<1>1. JobFits(c) /\ job' = [job EXCEPT ![c] = NoJob] /\ want' = want
    BY DEF Receipt, GiveUp, Answered, JInv, JobsFit, vars, callVars
<1>2. ASSUME NEW d \in Callers, job'[d] # NoJob PROVE JobFits(d)'
    BY <1>1, <1>2, JobStays DEF JInv, JobsFit, IInv, TypeOK
<1>3. PICK f \in Ready, m \in RunId \cup {NoRun}, n \in RunId \cup {NoRun} :
          job[c].input = f /\ job[c].market = m /\ named[c] = n
    BY <1>1 DEF JobFits, JInv, IInv, TypeOK
<1>4. m # NoRun => Stands(m, Market(InputOf[f]))'
    BY <1>1, <1>3, StandsStays DEF JInv, JobFits
<1>5. ASSUME Receipt(c) PROVE OutcomeFits(Outcome(f, m, n))'
  <2>1. Stored(c) /\ m # NoRun /\ want[c] = Batch(Benchmark(InputOf[f]))
    BY <1>1, <1>3, <1>5 DEF Receipt, JobFits
  <2>2. Stands(n, Benchmark(InputOf[f]))
    BY <1>3, <2>1, AnswerStands
  <2>3. Stands(n, Benchmark(InputOf[f]))'
    BY <2>2, StandsStays DEF JInv
  <2>4. QED
    BY <1>4, <2>1, <2>3 DEF OutcomeFits, Outcome
<1>6. ASSUME m # NoRun PROVE OutcomeFits(Outcome(f, m, NoRun))'
    BY <1>4, <1>6 DEF OutcomeFits, Outcome
<1>7. \/ outcomes' = outcomes
      \/ Receipt(c) /\ outcomes' = outcomes \cup {Outcome(f, m, n)}
      \/ m # NoRun /\ outcomes' = outcomes \cup {Outcome(f, m, NoRun)}
    BY <1>3 DEF Receipt, GiveUp
<1>8. \A o \in outcomes : OutcomeFits(o)'
    BY OutcomeStays
<1>9. OutcomesFit'
    BY <1>5, <1>6, <1>7, <1>8 DEF OutcomesFit
<1>10. QED
    BY <1>1, <1>2, <1>9 DEF JInv, JobsFit

(* The other steps leave the jobs alone and what they want.                 *)
LEMMA OthersStep ==
    ASSUME JInv, [Next]_vars, OthersGoOn \/ Exhausted \/ UNCHANGED acquisitionVars
    PROVE  JobsFit' /\ OutcomesFit'
<1>1. job' = job /\ outcomes' = outcomes
    BY DEF OthersGoOn, Exhausted, acquisitionVars
<1>2. ASSUME NEW d \in Callers, job[d] # NoJob PROVE want'[d] = want[d]
  <2>1. CASE OthersGoOn
    <3>1. ASSUME NEW c \in Callers, Import(c) PROVE want'[d] = want[d]
        BY <1>2, <3>1 DEF Import, IngestBundle, Call, JInv, IInv, TypeOK
    <3>2. ASSUME NEW c \in Callers, Step(c) \/ FaultyStep(c) PROVE want'[d] = want[d]
        BY <3>2, AnswersChange DEF JInv
    <3>3. QED
        BY <2>1, <3>1, <3>2 DEF OthersGoOn, Tick, callVars
  <2>2. CASE Exhausted \/ UNCHANGED acquisitionVars
    BY <2>2 DEF Exhausted, Finished, acquisitionVars, vars, callVars
  <2>3. QED
    BY <2>1, <2>2
<1>3. ASSUME NEW d \in Callers, job'[d] # NoJob PROVE JobFits(d)'
    BY <1>1, <1>2, <1>3, JobStays
<1>4. QED
    BY <1>1, <1>3, OutcomeStays DEF JInv, JobsFit, OutcomesFit

LEMMA NextJInv == JInv /\ [AcquisitionNext]_acquisitionVars => JInv'
<1> SUFFICES ASSUME JInv, [AcquisitionNext]_acquisitionVars PROVE JInv'
    OBVIOUS
<1>1. [Next]_vars
    BY NextImports
<1>2. IInv' /\ AnswersFit'
    BY <1>1, NextIInv, AnswersStay DEF JInv
<1>3. JobsFit' /\ OutcomesFit'
    BY <1>1, PersistFoundationStep, PersistBenchmarkStep, EndStep, OthersStep DEF AcquisitionNext
<1>4. QED
    BY <1>2, <1>3 DEF JInv

LEMMA AlwaysJInv == AcquisitionSpec => []JInv
    BY InitJInv, NextJInv, PTL DEF AcquisitionSpec

-----------------------------------------------------------------------------
(* Theorems                                                                *)

(* Acquirers and whoever imports next to them run the import protocol: all  *)
(* that is proved of it holds while they do.                                *)
THEOREM AcquirersImport == AcquisitionSpec => Spec
<1>1. AcquisitionInit => Init
    BY DEF AcquisitionInit
<1>2. JInv /\ [AcquisitionNext]_acquisitionVars => [Next]_vars
    BY NextImports
<1>3. QED
    BY <1>1, <1>2, AlwaysJInv, PTL DEF AcquisitionSpec, Spec

(* The bundles of a prepared input agree: open sessions, stocks and cutoff. *)
LEMMA BundlesAgree ==
    ASSUME NEW f \in Ready
    PROVE  LET i == InputOf[f]  m == Market(i)  n == Benchmark(i)
           IN  /\ m.cutoff = i.cutoff /\ n.cutoff = i.cutoff /\ m # n
               /\ m.open = Sessions(i)
               /\ {k[2] : k \in m.rows} = m.open /\ {k[2] : k \in n.rows} = m.open
               /\ {k[1] : k \in m.rows} = m.listed
<1> DEFINE i == InputOf[f]
           s(r) == i.selector[r]
<1>1. /\ Gathered(i) /\ Prepared(i)
      /\ {"listed", "calendar", "daily", "benchmark"} = Role
    BY DEF Ready, Role
<1>2. \A r \in Role : s(r).capability = r /\ ValidSelector(s(r)) /\ i.answer[r].keys = Keys(s(r))
    BY <1>1 DEF Gathered, Prepared, ValidResponse
<1>3. /\ i.answer["listed"].keys = s("listed").ids
      /\ i.answer["calendar"].keys = s("calendar").sessions
      /\ i.answer["daily"].keys = s("daily").expected
      /\ i.answer["benchmark"].keys = s("benchmark").expected
    BY <1>1, <1>2 DEF Keys
<1>4. /\ s("daily").ids = {o[1] : o \in s("daily").expected}
      /\ s("daily").sessions = {o[2] : o \in s("daily").expected}
      /\ s("benchmark").sessions = {o[2] : o \in s("benchmark").expected}
    BY <1>1, <1>2 DEF ValidSelector, ValidObservations, PerIdentity
<1>5. /\ i.answer["calendar"].closed = {} /\ s("listed").ids = s("daily").ids
      /\ s("calendar").sessions = Sessions(i) /\ s("benchmark").sessions = Sessions(i)
    BY <1>1 DEF Prepared, SameSessions
<1>6. /\ Market(i).open = Sessions(i) /\ Market(i).rows = s("daily").expected
      /\ Market(i).listed = s("daily").ids /\ Benchmark(i).rows = s("benchmark").expected
      /\ Market(i).cutoff = i.cutoff /\ Benchmark(i).cutoff = i.cutoff
    BY <1>3, <1>5 DEF Market, Benchmark
<1>7. Market(i).owner # Benchmark(i).owner
    BY DEF Market, Benchmark
<1>8. QED
    BY <1>4, <1>5, <1>6, <1>7 DEF Sessions

LEMMA FitStands == JInv => OutcomesStand
<1> SUFFICES ASSUME JInv, NEW o \in outcomes
             PROVE  /\ o.market \notin lost =>
                          Succeeded(o.market) /\ BundleOf[batch[o.market]] = Market(InputOf[o.input])
                    /\ o \in Receipts =>
                         LET m == BundleOf[batch[o.market]]  n == BundleOf[batch[o.benchmark]]
                         IN  /\ o.benchmark \notin lost =>
                                    Succeeded(o.benchmark) /\ n = Benchmark(InputOf[o.input])
                             /\ m.cutoff = n.cutoff
                             /\ {k[2] : k \in m.rows} = m.open /\ {k[2] : k \in n.rows} = m.open
                             /\ {k[1] : k \in m.rows} = m.listed
    BY DEF OutcomesStand, Receipts
<1>1. OutcomeFits(o)
    BY DEF JInv, OutcomesFit
<1>2. /\ BundleOf[batch[o.market]] = Market(InputOf[o.input])
      /\ o.benchmark # NoRun => BundleOf[batch[o.benchmark]] = Benchmark(InputOf[o.input])
    BY <1>1, BatchesKnown DEF OutcomeFits, Stands
<1>3. /\ o.market \notin lost => Succeeded(o.market)
      /\ o.benchmark # NoRun /\ o.benchmark \notin lost => Succeeded(o.benchmark)
    BY <1>1 DEF OutcomeFits, Stands
<1>4. QED
    BY <1>1, <1>2, <1>3, BundlesAgree DEF OutcomeFits, Receipts

(* However acquirers and importers interleave and fail, a receipt and an    *)
(* error that names a market run tell the truth about the database.         *)
THEOREM OutcomesHold == AcquisitionSpec => []OutcomesStand
    BY FitStands, AlwaysJInv, PTL

(* The last of the days of a prepared input, if its cutoff is one of them.  *)
LEMMA CutoffIsLatest ==
    ASSUME NEW f \in Ready
    PROVE  /\ Sessions(InputOf[f]) # {}
           /\ InputOf[f].cutoff = Latest(Sessions(InputOf[f]))
                  <=> InputOf[f].cutoff \in Sessions(InputOf[f])
<1> DEFINE i == InputOf[f]
           S == Sessions(i)
<1>1. Gathered(i) /\ Prepared(i) /\ f \in Inputs /\ "daily" \in Role
    BY DEF Ready, Role
<1>2. S # {} /\ \A d \in S : WithinHorizon(d, i.cutoff)
    BY <1>1 DEF Gathered, Prepared, ValidSelector, ValidSessions, Sessions
<1>3. S \subseteq Nat /\ i.cutoff \in Nat /\ \E d \in S : \A e \in S : e <= d
    BY <1>1, <1>2, DaysAssumption DEF Sessions
<1>4. Latest(S) \in S /\ \A e \in S : e <= Latest(S)
    BY <1>3 DEF Latest
<1>5. \A d \in S : d <= i.cutoff
    BY <1>2 DEF WithinHorizon
<1>6. i.cutoff \in S => i.cutoff = Latest(S)
    BY <1>3, <1>4, <1>5
<1>7. QED
    BY <1>2, <1>4, <1>6

LEMMA FitHandsOn == JInv => CompleteCanBeHandedOn
<1> SUFFICES ASSUME JInv, NEW o \in Receipts
             PROVE  Projects([sessions |-> Sessions(InputOf[o.input]), cutoff |-> InputOf[o.input].cutoff], o)
                        <=> InputOf[o.input].cutoff \in Sessions(InputOf[o.input])
    BY DEF CompleteCanBeHandedOn
<1> DEFINE i == InputOf[o.input]
           q == [sessions |-> Sessions(i), cutoff |-> i.cutoff]
<1>1. OutcomeFits(o) /\ o.benchmark # NoRun
    BY DEF JInv, OutcomesFit, Receipts
<1>2. /\ batch[o.market] = Batch(Market(i)) /\ batch[o.benchmark] = Batch(Benchmark(i))
      /\ o.input \in Ready
    BY <1>1 DEF OutcomeFits, Stands
<1>3. \A r \in {o.market, o.benchmark} : CutoffOf[batch[r]] = i.cutoff
    BY <1>2, BatchesKnown, BundlesAgree, AcquisitionAssumption
<1>4. o.market # o.benchmark
    BY <1>2, BatchesKnown, BundlesAgree
<1>5. ValidRequest(q) <=> i.cutoff \in Sessions(i)
    BY <1>2, CutoffIsLatest DEF ValidRequest
<1>6. QED
    BY <1>3, <1>4, <1>5 DEF Projects

(* A receipt can be handed on to Today Market exactly if its sessions reach *)
(* its cutoff.                                                              *)
THEOREM ReceiptsHandOn == AcquisitionSpec => []CompleteCanBeHandedOn
    BY FitHandsOn, AlwaysJInv, PTL
=============================================================================
