-------------------------- MODULE MCResearchDesk --------------------------
(* Small instance of ResearchDesk for TLC.                                 *)
EXTENDS ResearchDesk

CONSTANTS c1, c2, t1

ScopesMC == {[seeds |-> {}, map |-> TRUE], [seeds |-> {c1}, map |-> TRUE]}
=============================================================================
