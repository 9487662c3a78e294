---------------------------- MODULE TodayMarketPage ----------------------------
(***************************************************************************)
(* The runtime panel of the Today Market page, above RefreshCoordinator.   *)
(*                                                                         *)
(* A page is an event loop: fetches are sent and answered in any order, and *)
(* a response is rendered only if runtimeRequestVersion still has the value *)
(* it had when the fetch was issued.  Reading the status of a scope nobody  *)
(* refreshed sends the automatic command; a failure offers a retry.        *)
(*                                                                         *)
(* Reading the catalog and the snapshot itself is abstracted to its effect *)
(* on the panel: the snapshot becomes visible, is read again, or is hidden. *)
(***************************************************************************)
EXTENDS RefreshCoordinator

CONSTANTS
    Pages,        \* open browser pages
    MaxVersion    \* bound: the events of a page

ASSUME PageAssumption == MaxVersion \in Nat

VARIABLES
    selected,     \* per page: the boundaries and series chosen
    visible,      \* per page: the snapshot, and the panel in it, is shown
    version,      \* per page: runtimeRequestVersion
    label,        \* per page: the phase the panel names
    current,      \* per page: currentRuntimeStatus
    retry,        \* per page: the retry button is shown
    ordinary,     \* per page: the ordinary view's action is the retry
    autoScopes,   \* per page: automaticScopes
    page,         \* per request: the page that sent it
    issued,       \* per request: the version it was issued under
    settled       \* requests whose fetch has resolved or failed

panelVars == <<label, current, retry>>
pageVars  == <<selected, visible, version, panelVars, ordinary, autoScopes,
               page, issued, settled>>
vars      == <<coordVars, pageVars>>

Init ==
    /\ CoordInit
    /\ selected \in [Pages -> Selections]
    /\ visible = [p \in Pages |-> FALSE]
    /\ version = [p \in Pages |-> 0]
    /\ label = [p \in Pages |-> "hidden"]
    /\ current = [p \in Pages |-> NoStatus]
    /\ retry = [p \in Pages |-> FALSE]
    /\ ordinary = [p \in Pages |-> FALSE]
    /\ autoScopes = [p \in Pages |-> {}]
    /\ page = [r \in Requests |-> CHOOSE p \in Pages : TRUE]
    /\ issued = [r \in Requests |-> 0]
    /\ settled = {}

-----------------------------------------------------------------------------
(* Helpers                                                                 *)

(* ++runtimeRequestVersion: responses issued before it are ignored.        *)
NextVersion(p) ==
    /\ version[p] < MaxVersion
    /\ version' = [version EXCEPT ![p] = @ + 1]

Issue(p, r) ==
    /\ page' = [page EXCEPT ![r] = p]
    /\ issued' = [issued EXCEPT ![r] = version'[p]]

(* renderRuntimeStatus, called with a status under its own or another      *)
(* phase.                                                                  *)
Render(p, st, name) ==
    /\ label' = [label EXCEPT ![p] = name]
    /\ current' = [current EXCEPT ![p] = st]
    /\ retry' = [retry EXCEPT ![p] = AllowsRetry(st)]

(* executeRuntime: the panel says "in progress" while the command travels. *)
ExecuteRuntime(p, r, st, t) ==
    /\ NextVersion(p)
    /\ Issue(p, r)
    /\ SendPost(r, st, t)
    /\ Render(p, st, "refresh_in_progress")

-----------------------------------------------------------------------------
(* Events of the page                                                      *)

(* The snapshot becomes visible: the observer calls loadRuntimeStatus.     *)
ShowSnapshot(p, r) ==
    /\ ~visible[p]
    /\ visible' = [visible EXCEPT ![p] = TRUE]
    /\ NextVersion(p)
    /\ Issue(p, r)
    /\ SendGet(r, selected[p])
    /\ UNCHANGED <<selected, panelVars, ordinary, autoScopes, settled>>

(* Reading a visible snapshot again changes no attribute, so the observer  *)
(* does not run.                                                           *)
RereadSnapshot(p) ==
    /\ visible[p]
    /\ NextVersion(p)
    /\ UNCHANGED <<coordVars, selected, visible, panelVars, ordinary,
                   autoScopes, page, issued, settled>>

(* Another selection or boundary hides the snapshot and its panel.         *)
ChangeSelection(p, x) ==
    /\ NextVersion(p)
    /\ selected' = [selected EXCEPT ![p] = x]
    /\ visible' = [visible EXCEPT ![p] = FALSE]
    /\ UNCHANGED <<coordVars, panelVars, ordinary, autoScopes, page, issued, settled>>

(* A new document starts over; fetches of the old one resolve to nobody.   *)
ReloadPage(p) ==
    /\ NextVersion(p)
    /\ visible' = [visible EXCEPT ![p] = FALSE]
    /\ label' = [label EXCEPT ![p] = "hidden"]
    /\ current' = [current EXCEPT ![p] = NoStatus]
    /\ retry' = [retry EXCEPT ![p] = FALSE]
    /\ ordinary' = [ordinary EXCEPT ![p] = FALSE]
    /\ autoScopes' = [autoScopes EXCEPT ![p] = {}]
    /\ UNCHANGED <<coordVars, selected, page, issued, settled>>

(* loadReadModel: the primary action it renders may be the retry; if the   *)
(* read fails, it is reading the snapshot again.                           *)
LoadReadModel(p) ==
    /\ visible[p]
    /\ \E offered \in {FALSE, AllowsRetry(StatusOf(Authoritative(selected[p])))} :
           ordinary' = [ordinary EXCEPT ![p] = offered]
    /\ UNCHANGED <<coordVars, selected, visible, version, panelVars,
                   autoScopes, page, issued, settled>>

(* The retry button, or the ordinary action that clicks it; either needs a *)
(* status to build the command from.                                       *)
ClickRetry(p, r) ==
    /\ visible[p] /\ (retry[p] \/ ordinary[p])
    /\ current[p] # NoStatus
    /\ ExecuteRuntime(p, r, current[p], "explicit_user_retry")
    /\ UNCHANGED <<selected, visible, ordinary, autoScopes, settled>>

(* A response that is no longer awaited.                                   *)
DropResponse(r) ==
    /\ pc[r] = "answered" /\ r \notin settled
    /\ issued[r] # version[page[r]]
    /\ settled' = settled \cup {r}
    /\ UNCHANGED <<coordVars, selected, visible, version, panelVars,
                   ordinary, autoScopes, page, issued>>

(* Mistake: a response is rendered whatever happened since its request.    *)
AwaitedForever(r) == r \notin settled /\ visible[page[r]]

Awaited(r) == r \notin settled /\ issued[r] = version[page[r]] /\ visible[page[r]]

(* loadRuntimeStatus shows the status, and the page's first sight of a     *)
(* scope that was never refreshed sends the automatic command.             *)
ShouldAttempt(p, st) ==
    enabled /\ ~st.automatic /\ st.scope \notin autoScopes[p]

StatusArrives(r) ==
    LET p == page[r]   st == shows[r]
    IN  /\ pc[r] = "answered" /\ Awaited(r) /\ reply[r] = "status"
        /\ settled' = settled \cup {r}
        /\ \/ /\ ~ShouldAttempt(p, st)
              /\ Render(p, st, st.phase)
              /\ UNCHANGED <<coordVars, version, autoScopes, page, issued>>
           \/ /\ ShouldAttempt(p, st)
              /\ autoScopes' = [autoScopes EXCEPT ![p] = @ \cup {st.scope}]
              /\ \E q \in Requests :
                     ExecuteRuntime(p, q, st, "first_today_market_entry")
        /\ UNCHANGED <<selected, visible, ordinary>>

OutcomeArrives(r) ==
    /\ pc[r] = "answered" /\ Awaited(r)
    /\ reply[r] \in {"done", "replay", "conflict"}
    /\ settled' = settled \cup {r}
    /\ Render(page[r], shows[r], shows[r].phase)
    /\ UNCHANGED <<coordVars, selected, visible, version, ordinary, autoScopes,
                   page, issued>>

(* An error without a current status, or no response at all: the network   *)
(* may give up on a request at any stage of its handling.                  *)
FetchFails(r) ==
    LET p == page[r]
    IN  /\ pc[r] # "unsent" /\ Awaited(r)
        /\ settled' = settled \cup {r}
        /\ \/ /\ trigger[r] = NoTrigger
              /\ label' = [label EXCEPT ![p] = "unavailable"]
              /\ retry' = [retry EXCEPT ![p] = FALSE]
              /\ UNCHANGED current
           \/ /\ trigger[r] # NoTrigger
              /\ Render(p, expected[r], "scope_stale")
        /\ UNCHANGED <<coordVars, selected, visible, version, ordinary,
                       autoScopes, page, issued>>

ServerStep ==
    /\ \/ \E r \in Requests : Serve(r)
       \/ \E x \in Selections : MoveSnapshot(x)
       \/ Restart
    /\ UNCHANGED pageVars

Next ==
    \/ \E p \in Pages, r \in Requests : ShowSnapshot(p, r) \/ ClickRetry(p, r)
    \/ \E p \in Pages : RereadSnapshot(p) \/ ReloadPage(p) \/ LoadReadModel(p)
    \/ \E p \in Pages, x \in Selections : ChangeSelection(p, x)
    \/ \E r \in Requests : \/ DropResponse(r) \/ StatusArrives(r)
                           \/ OutcomeArrives(r) \/ FetchFails(r)
    \/ ServerStep

Spec == Init /\ [][Next]_vars

-----------------------------------------------------------------------------
(* Properties                                                              *)

(* What a page shows of a scope never goes back to an earlier generation:  *)
(* late responses and answers to abandoned requests do not overwrite it.   *)
(* (A restart of the process starts the generations over.)                 *)
ShownNeverOlder ==
    [][epoch' = 0 =>
          \A p \in Pages :
              /\ NoStatus \notin {current[p], current'[p]}
              /\ current'[p].scope = current[p].scope
              => current'[p].revision >= current[p].revision]_vars
=============================================================================
