-------------------------- MODULE RefreshCoordinator --------------------------
(***************************************************************************)
(* The Today Market refresh coordinator and the two HTTP handlers above it. *)
(*                                                                         *)
(* One process holds, per runtime scope, a status that moves through        *)
(* generations.  A command names the status its client saw; under one lock  *)
(* the coordinator compares it with the current one, claims the scope and   *)
(* lets go of the lock for the acquisition, then takes it again to publish  *)
(* the outcome.  The handlers work outside the lock: they resolve the scope *)
(* from the database before, and fetch the status for a 409 after.          *)
(*                                                                         *)
(* A scope is a selection together with the generation of the local         *)
(* snapshot it resolves to.  The status fingerprint is abstracted to the    *)
(* fields that tell two statuses of a scope apart; attempt and plan         *)
(* identities, the candidate and the failure are functions of these.        *)
(***************************************************************************)
EXTENDS Naturals, FiniteSets

CONSTANTS
    Selections,   \* as-of boundaries and series keys a client can ask for
    Unbounded,    \* the selections whose cutoff is the calendar's last date
    Requests,     \* the HTTP requests of a behaviour
    MaxMoves,     \* bound: times the snapshot of a selection moves
    MaxRestarts   \* bound: process restarts

ASSUME SelectionAssumption == Selections # {}
ASSUME MoveAssumption == MaxMoves \in Nat /\ MaxRestarts \in Nat

Scope == Selections \X (0..MaxMoves)

Outcomes  == {"no_refresh_needed", "manual_catchup_required",
              "demo_published", "failed_retained_prior"}
Terminal  == Outcomes \cup {"not_initialized", "cancelled_retained_prior"}
Retryable == {"failed_retained_prior", "cancelled_retained_prior"}
Phases    == Terminal \cup {"none", "prior_snapshot_ready", "mock_not_enabled",
                            "refresh_in_progress"}
Triggers  == {"first_today_market_entry", "explicit_user_retry"}
NoTrigger == "read"    \* a GET of the status carries no trigger

Status == [scope : Scope, revision : Nat, phase : Phases, automatic : BOOLEAN]
Command == Status \X (Triggers \cup {NoTrigger})

AnyScope  == <<CHOOSE x \in Selections : TRUE, 0>>
NoStatus  == [scope |-> AnyScope, revision |-> 0, phase |-> "none", automatic |-> FALSE]
NoCommand == <<NoStatus, NoTrigger>>

VARIABLES
    enabled,      \* mock_enabled of the installed configuration
    moved,        \* per selection: how often its authoritative snapshot moved
    phase,        \* per scope: _RuntimeState.phase
    revision,     \* per scope: runtime_status_revision
    automatic,    \* per scope: automatic_attempt_state is "attempted"
    lastCommand,  \* per scope: last_command_key
    activeScopes, \* _active_scopes
    epoch,        \* number of process restarts
    pc,           \* per request: the next step of its handler
    target,       \* per request: the scope it asks for, then the one resolved
    expected,     \* per request: the status whose fingerprint it carries
    trigger,      \* per request: its trigger, NoTrigger for a GET
    reply,        \* per request: how it was answered
    shows,        \* per request: the status in the answer
    ranIn,        \* per request: the epoch its command was executed in
    started       \* requests that started an acquisition in this epoch

stateVars   == <<phase, revision, automatic, lastCommand, activeScopes>>
requestVars == <<pc, target, expected, trigger, reply, shows, ranIn>>
coordVars   == <<enabled, moved, stateVars, epoch, requestVars, started>>

PC      == {"unsent", "resolve", "execute", "acquire", "conflict", "answered"}
Replies == {"none", "status", "done", "replay", "conflict", "stale_scope",
            "unavailable", "disabled", "refused", "error", "lost"}

CoordTypeOK ==
    /\ enabled \in BOOLEAN
    /\ moved \in [Selections -> 0..MaxMoves]
    /\ phase \in [Scope -> Phases]
    /\ revision \in [Scope -> Nat]
    /\ automatic \in [Scope -> BOOLEAN]
    /\ lastCommand \in [Scope -> Command]
    /\ activeScopes \subseteq Scope
    /\ epoch \in 0..MaxRestarts
    /\ pc \in [Requests -> PC]
    /\ target \in [Requests -> Scope]
    /\ expected \in [Requests -> Status]
    /\ trigger \in [Requests -> Triggers \cup {NoTrigger}]
    /\ reply \in [Requests -> Replies]
    /\ shows \in [Requests -> Status]
    /\ ranIn \in [Requests -> 0..MaxRestarts]
    /\ started \subseteq Requests

FirstPhase == IF enabled THEN "prior_snapshot_ready" ELSE "mock_not_enabled"

CoordInit ==
    /\ enabled \in BOOLEAN
    /\ moved = [x \in Selections |-> 0]
    /\ phase = [s \in Scope |-> FirstPhase]
    /\ revision = [s \in Scope |-> 0]
    /\ automatic = [s \in Scope |-> FALSE]
    /\ lastCommand = [s \in Scope |-> NoCommand]
    /\ activeScopes = {} /\ epoch = 0 /\ started = {}
    /\ pc = [r \in Requests |-> "unsent"]
    /\ target = [r \in Requests |-> AnyScope]
    /\ expected = [r \in Requests |-> NoStatus]
    /\ trigger = [r \in Requests |-> NoTrigger]
    /\ reply = [r \in Requests |-> "none"]
    /\ shows = [r \in Requests |-> NoStatus]
    /\ ranIn = [r \in Requests |-> 0]

-----------------------------------------------------------------------------
(* Helpers                                                                 *)

(* _status_dict: what a client is given, and what the fingerprint covers.  *)
StatusOf(s) == [scope |-> s, revision |-> revision[s], phase |-> phase[s],
                automatic |-> automatic[s]]

AllowsRetry(st) == st.phase \in Retryable

(* The key that makes a resent command recognizable.                       *)
CommandKey(r) == <<expected[r], trigger[r]>>

(* The scope the database currently resolves a selection to.               *)
Authoritative(x) == <<x, moved[x]>>

HasStatus(r) ==
    pc[r] = "answered" /\ reply[r] \in {"status", "done", "replay", "conflict"}

Goto(r, step)    == pc' = [pc EXCEPT ![r] = step]
Answer(r, k, st) == /\ Goto(r, "answered")
                    /\ reply' = [reply EXCEPT ![r] = k]
                    /\ shows' = [shows EXCEPT ![r] = st]

-----------------------------------------------------------------------------
(* Sending                                                                 *)

Send(r, s, st, t) ==
    /\ pc[r] = "unsent"
    /\ Goto(r, "resolve")
    /\ target' = [target EXCEPT ![r] = s]
    /\ expected' = [expected EXCEPT ![r] = st]
    /\ trigger' = [trigger EXCEPT ![r] = t]
    /\ UNCHANGED <<enabled, moved, stateVars, epoch, reply, shows, ranIn, started>>

SendGet(r, x) == Send(r, <<x, 0>>, NoStatus, NoTrigger)

SendPost(r, st, t) == t \in Triggers /\ Send(r, st.scope, st, t)

-----------------------------------------------------------------------------
(* The handlers                                                            *)

(* build_prior_snapshot_context and build_runtime_scope; a command for     *)
(* another scope than the one resolved ends here (_compare_command_scope), *)
(* and so does a request whose snapshot cannot be read, or was read        *)
(* differently by the two sessions that read it.                           *)
Resolve(r) ==
    /\ pc[r] = "resolve"
    /\ LET now == Authoritative(target[r][1])
       IN  \/ /\ trigger[r] = NoTrigger \/ target[r] = now
              /\ target' = [target EXCEPT ![r] = now]
              /\ Goto(r, "execute")
              /\ UNCHANGED <<reply, shows>>
           \/ /\ trigger[r] # NoTrigger /\ target[r] # now
              /\ Answer(r, "stale_scope", NoStatus)
              /\ UNCHANGED target
           \/ /\ Answer(r, "unavailable", NoStatus)
              /\ UNCHANGED target
    /\ UNCHANGED <<enabled, moved, stateVars, epoch, expected, trigger, ranIn, started>>

(* get_status for the GET handler.                                         *)
GetStatus(r) ==
    /\ pc[r] = "execute" /\ trigger[r] = NoTrigger
    /\ Answer(r, "status", StatusOf(target[r]))
    /\ ranIn' = [ranIn EXCEPT ![r] = epoch]
    /\ UNCHANGED <<enabled, moved, stateVars, epoch, target, expected, trigger, started>>

Replays(r) ==
    lastCommand[target[r]] = CommandKey(r) /\ phase[target[r]] \in Terminal

Conflicts(r) ==
    \/ StatusOf(target[r]) # expected[r]
    \/ target[r] \in activeScopes

Spent(r) ==
    trigger[r] = "first_today_market_entry" /\ automatic[target[r]]

(* The first locked block of execute, in the order of its checks.          *)
AnswerReplay(r) ==
    /\ Replays(r)
    /\ Answer(r, "replay", StatusOf(target[r]))
    /\ UNCHANGED <<stateVars, started>>

RejectCommand(r) ==
    /\ ~Replays(r)
    /\ \/ /\ Conflicts(r) \/ (enabled /\ Spent(r))
          /\ Goto(r, "conflict")
          /\ UNCHANGED <<reply, shows>>
       \/ /\ ~Conflicts(r) /\ ~enabled
          /\ Answer(r, "disabled", NoStatus)
       \/ /\ ~Conflicts(r) /\ enabled
          /\ trigger[r] = "explicit_user_retry" /\ phase[target[r]] \notin Retryable
          /\ Answer(r, "refused", NoStatus)
    /\ UNCHANGED <<stateVars, started>>

Accepts(r) ==
    /\ ~Replays(r) /\ ~Conflicts(r) /\ enabled /\ ~Spent(r)
    /\ trigger[r] = "explicit_user_retry" => phase[target[r]] \in Retryable

(* A command that passes the checks claims its scope.                      *)
ClaimScope(r) ==
    LET s == target[r]
    IN  /\ Accepts(r)
        /\ revision' = [revision EXCEPT ![s] = @ + 1]
        /\ phase' = [phase EXCEPT ![s] = "refresh_in_progress"]
        /\ automatic' = [automatic EXCEPT ![s] = @ \/ trigger[r] = "first_today_market_entry"]
        /\ activeScopes' = activeScopes \cup {s}
        /\ UNCHANGED lastCommand

StartAttempt(r) ==
    /\ target[r][1] \notin Unbounded
    /\ ClaimScope(r)
    /\ started' = started \cup {r}
    /\ Goto(r, "acquire")
    /\ UNCHANGED <<reply, shows>>

(* _expected_completed_sessions steps one day past the cutoff: after the    *)
(* last date it raises, and the claim was made outside the "try".          *)
AbandonClaim(r) ==
    /\ target[r][1] \in Unbounded
    /\ ClaimScope(r)
    /\ Answer(r, "error", NoStatus)
    /\ UNCHANGED started

Execute(r) ==
    /\ pc[r] = "execute" /\ trigger[r] # NoTrigger
    /\ \/ AnswerReplay(r) \/ RejectCommand(r)
       \/ StartAttempt(r) \/ AbandonClaim(r)
    /\ ranIn' = [ranIn EXCEPT ![r] = epoch]
    /\ UNCHANGED <<enabled, moved, epoch, target, expected, trigger>>

(* The second locked block: the acquisition returned an outcome, or raised *)
(* and the caller gets the exception after the failure is recorded.        *)
Conclude(r, outcome, k) ==
    LET s == target[r]
    IN  /\ pc[r] = "acquire"
        /\ phase' = [phase EXCEPT ![s] = outcome]
        /\ revision' = [revision EXCEPT ![s] = @ + 1]
        /\ lastCommand' = [lastCommand EXCEPT ![s] = CommandKey(r)]
        /\ activeScopes' = activeScopes \ {s}
        /\ Answer(r, k, IF k = "done"
                        THEN [StatusOf(s) EXCEPT !.phase = outcome, !.revision = @ + 1]
                        ELSE NoStatus)
        /\ UNCHANGED <<enabled, moved, automatic, epoch, target, expected,
                       trigger, ranIn, started>>

Finish(r) == \E outcome \in Outcomes : Conclude(r, outcome, "done")

(* Mistakes: an exception leaves the claim, rolls the status back to what  *)
(* it was before the attempt, or leaves everything as it is.               *)
RaiseKeepingClaim(r) ==
    LET s == target[r]
    IN  /\ pc[r] = "acquire"
        /\ phase' = [phase EXCEPT ![s] = "failed_retained_prior"]
        /\ revision' = [revision EXCEPT ![s] = @ + 1]
        /\ lastCommand' = [lastCommand EXCEPT ![s] = CommandKey(r)]
        /\ Answer(r, "error", NoStatus)
        /\ UNCHANGED <<enabled, moved, automatic, activeScopes, epoch, target, expected,
                       trigger, ranIn, started>>

RaiseRollingBack(r) ==
    LET s == target[r]
    IN  /\ pc[r] = "acquire"
        /\ phase' = [phase EXCEPT ![s] = expected[r].phase]
        /\ revision' = [revision EXCEPT ![s] = @ - 1]
        /\ automatic' = [automatic EXCEPT ![s] = expected[r].automatic]
        /\ activeScopes' = activeScopes \ {s}
        /\ Answer(r, "error", NoStatus)
        /\ UNCHANGED <<enabled, moved, lastCommand, epoch, target, expected,
                       trigger, ranIn, started>>

RaiseUnrecorded(r) ==
    /\ pc[r] = "acquire"
    /\ Answer(r, "error", NoStatus)
    /\ UNCHANGED <<enabled, moved, stateVars, epoch, target, expected,
                   trigger, ranIn, started>>

Raise(r) == Conclude(r, "failed_retained_prior", "error")

(* Mistake: the 409 answer echoes what the command carried.                *)
ConflictEcho(r) ==
    /\ pc[r] = "conflict"
    /\ Answer(r, "conflict", expected[r])
    /\ UNCHANGED <<enabled, moved, stateVars, epoch, target, expected,
                   trigger, ranIn, started>>

(* The 409 answer is built after the lock was released.                    *)
ConflictStatus(r) ==
    /\ pc[r] = "conflict"
    /\ Answer(r, "conflict", StatusOf(target[r]))
    /\ UNCHANGED <<enabled, moved, stateVars, epoch, target, expected,
                   trigger, ranIn, started>>

-----------------------------------------------------------------------------
(* The environment                                                         *)

(* An import makes another snapshot the authoritative one.                 *)
MoveSnapshot(x) ==
    /\ moved[x] < MaxMoves
    /\ moved' = [moved EXCEPT ![x] = @ + 1]
    /\ UNCHANGED <<enabled, stateVars, epoch, requestVars, started>>

(* Coordinator state and running handlers go with the process.             *)
Restart ==
    /\ epoch < MaxRestarts
    /\ epoch' = epoch + 1
    /\ phase' = [s \in Scope |-> FirstPhase]
    /\ revision' = [s \in Scope |-> 0]
    /\ automatic' = [s \in Scope |-> FALSE]
    /\ lastCommand' = [s \in Scope |-> NoCommand]
    /\ activeScopes' = {} /\ started' = {}
    /\ pc' = [r \in Requests |-> IF pc[r] = "unsent" THEN "unsent" ELSE "answered"]
    /\ reply' = [r \in Requests |-> IF pc[r] \in {"unsent", "answered"}
                                    THEN reply[r] ELSE "lost"]
    /\ UNCHANGED <<enabled, moved, target, expected, trigger, shows, ranIn>>

Serve(r) ==
    \/ Resolve(r) \/ GetStatus(r) \/ Execute(r)
    \/ Finish(r) \/ Raise(r) \/ ConflictStatus(r)

(* Any client: it asks for the status, and posts a command that carries a  *)
(* status some answer gave.                                                *)
ClientSends(r) ==
    \/ \E x \in Selections : SendGet(r, x)
    \/ \E q \in Requests, t \in Triggers : HasStatus(q) /\ SendPost(r, shows[q], t)

Drained == (\A r \in Requests : pc[r] = "answered") /\ UNCHANGED coordVars

CoordNext ==
    \/ \E r \in Requests : ClientSends(r) \/ Serve(r)
    \/ \E x \in Selections : MoveSnapshot(x)
    \/ Restart
    \/ Drained

CoordSpec == CoordInit /\ [][CoordNext]_coordVars

(* Handlers run on server threads, and the deterministic port returns.     *)
CoordFairSpec == CoordSpec /\ \A r \in Requests : WF_coordVars(Serve(r))

-----------------------------------------------------------------------------
(* Properties                                                              *)

(* At most one acquisition runs for a scope, whatever requests race.       *)
SingleFlight ==
    \A q, r \in Requests :
        pc[q] = "acquire" /\ pc[r] = "acquire" /\ target[q] = target[r] => q = r

(* A scope says "refresh_in_progress" exactly while it is claimed, and     *)
(* exactly while a handler is acquiring for it, unless it is one whose     *)
(* claim gets abandoned.                                                   *)
ProgressHasOwner ==
    \A s \in Scope :
        /\ phase[s] = "refresh_in_progress" <=> s \in activeScopes
        /\ \A r \in Requests :
               pc[r] = "acquire" /\ target[r] = s => s \in activeScopes
        /\ s \in activeScopes /\ s[1] \notin Unbounded =>
               \E r \in Requests : pc[r] = "acquire" /\ target[r] = s

(* A generation of a scope starts at most one attempt in a process: a      *)
(* command sent again while it runs or after it ended, or another one      *)
(* built on the same status, acquires nothing.                             *)
OneAttemptPerGeneration ==
    \A q, r \in started : expected[q] = expected[r] => q = r

(* A process makes at most one automatic attempt for a scope, whatever     *)
(* number of pages enters it.                                              *)
AutomaticOnce ==
    \A q, r \in started :
        /\ trigger[q] = "first_today_market_entry"
        /\ trigger[r] = "first_today_market_entry"
        /\ target[q] = target[r]
        => q = r

(* A completed command reports its own attempt: the status in the answer   *)
(* is two generations after the one the client saw, so that no other       *)
(* transition of the scope happened in between.                            *)
AnswerIsOwnAttempt ==
    \A r \in Requests :
        pc[r] = "answered" /\ reply[r] = "done" =>
            /\ shows[r].scope = expected[r].scope
            /\ shows[r].revision = expected[r].revision + 2
            /\ shows[r].phase \in Outcomes

(* Replaying a completed command gives the answer it was given the first   *)
(* time (tests/test_today_market_runtime_integration.py:227-239).          *)
ReplayRepeatsAnswer ==
    \A q, r \in Requests :
        /\ pc[q] = "answered" /\ reply[q] = "done"
        /\ pc[r] = "answered" /\ reply[r] = "replay"
        /\ CommandKey(q) = CommandKey(r) /\ ranIn[q] = ranIn[r]
        => shows[q] = shows[r]

(* A 409 hands out a newer status than the command carried, so that the    *)
(* client can go on from it; the same one only if the command asked for a  *)
(* second automatic attempt or was built on a refresh in progress.         *)
ConflictIsNews ==
    \A r \in Requests :
        epoch = 0 /\ pc[r] = "answered" /\ reply[r] = "conflict" =>
            \/ shows[r].revision > expected[r].revision
            \/ /\ shows[r] = expected[r]
               /\ \/ trigger[r] = "first_today_market_entry" /\ expected[r].automatic
                  \/ expected[r].phase = "refresh_in_progress"

(* Within a process the generations of a scope only move forward, so no    *)
(* earlier fingerprint becomes valid again.                                *)
GenerationsAdvance ==
    [][epoch' = epoch =>
          \A s \in Scope :
              StatusOf(s)' = StatusOf(s) \/ revision'[s] > revision[s]]_coordVars

(* Every refresh in progress comes to an end, even across a restart, unless *)
(* its claim was abandoned.                                                *)
RefreshEnds ==
    \A s \in Scope :
        s[1] \notin Unbounded =>
            (phase[s] = "refresh_in_progress" ~> phase[s] # "refresh_in_progress")

=============================================================================
