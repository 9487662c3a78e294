------------------------------ MODULE ThesisLog ------------------------------
(***************************************************************************)
(* What a research session promises its users: one log of revisions, each  *)
(* written by somebody who had seen the whole log before it, in which a     *)
(* reviewed revision at the end may be accepted, once, together with the   *)
(* revision that records the acceptance.                                   *)
(***************************************************************************)
EXTENDS Naturals, Sequences

CONSTANTS Workflow,    \* workflow states of a revision
          Plan,        \* owner plans
          First        \* [log, accepted]: the histories a session begins with

VARIABLES log,         \* the revisions in order
          accepted     \* which reviewed revision was accepted with which plan

vars == <<log, accepted>>

Init == \E f \in First : log = f.log /\ accepted = f.accepted

Write(workflow) == log' = Append(log, [workflow |-> workflow, seen |-> Len(log)])

Revise == (\E workflow \in Workflow : Write(workflow)) /\ UNCHANGED accepted

Accept(plan) ==
    /\ log # <<>> /\ log[Len(log)].workflow = "reviewed"
    /\ \A a \in accepted : a.reviewed # Len(log)
    /\ Write("accepted")
    /\ accepted' = accepted \union {[reviewed |-> Len(log), plan |-> plan]}

Next == Revise \/ \E plan \in Plan : Accept(plan)

Spec == Init /\ [][Next]_vars
=============================================================================
