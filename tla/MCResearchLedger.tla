--------------------------- MODULE MCResearchLedger ---------------------------
(* An instance of ResearchLedger for TLC.                                  *)
EXTENDS ResearchLedger, TLC

CONSTANTS w1, w2, good, bad

(* Claim revision 1 is supported; 2 is a draft of another claim, and 3 will *)
(* revise the claim of 2.  Assertion 1 is a draft bound to 2, assertion 2   *)
(* is supported and bound to 1, assertion 3 comes later.                   *)
MCIdentity == [c \in Claim |-> IF c = 1 THEN 1 ELSE 2]
MCClaimStatus == [c \in Claim |-> IF c = 1 THEN "supported" ELSE "draft"]
MCAssertionStatus == [a \in Assertion |-> IF a = 2 THEN "supported" ELSE "draft"]
MCRelation == [e \in Evidence |-> IF e = good THEN "supports" ELSE "contradicts"]
MCSeedLinks == {[claim |-> 1, evidence |-> good, at |-> 1], [claim |-> 2, evidence |-> good, at |-> 1]}
MCSeedBindings == {[assertion |-> 1, claim |-> 2, at |-> 1], [assertion |-> 2, claim |-> 1, at |-> 1]}

Freeze(members, at) == [kind |-> "freeze", members |-> members, at |-> at]
Benefit(claims, at) ==
    [kind |-> "benefit", beneficiary |-> 1, map |-> 2, status |-> "supported",
     assertions |-> {2}, claims |-> claims, at |-> at]

Says(state, supports, contradicts) ==
    [state |-> state, supports |-> supports, contradicts |-> contradicts, context |-> {}]

Profile(expected, says) ==
    [kind |-> "profile", beneficiary |-> 1, revision |-> 1, expected |-> expected,
     status |-> "draft", drivers |-> {2}, assertions |-> {says}, at |-> 3]

(* A run begins with a frozen map and a beneficiary judged by it.           *)
MCHistory == {{Freeze({1, 2}, 1), Benefit({1, 2}, 2)}}

MCCommands ==
    [kind : {"link"}, claim : {1, 2}, evidence : {bad}, at : Clock \ {1}]
    \union [kind : {"claim"}, claim : {3}, evidence : {{}}, at : {2}]
    \union [kind : {"bind"}, assertion : {1, 2}, claim : {2, 3}, at : {2}]
    \union [kind : {"assert"}, assertion : {3}, claims : {{1, 2}, {2, 3}}, at : {2}]
    \union [kind : {"freeze"}, members : {{1, 2}, {2, 3}}, at : Clock \ {1}]
    \union {Benefit({1, 2}, 2), Benefit({1, 2}, 3), [Benefit({1, 2}, 3) EXCEPT !.beneficiary = 2]}
    \union [kind : {"pool"}, map : {2}, members : {{<<1, 1>>}}, at : {3}]
    \union {Profile(0, Says("supported", {2}, {})), Profile(0, Says("disputed", {1}, {2})),
            Profile(1, Says("supported", {1}, {}))}
    \union [kind : {"case"}, conclusion : {"supported"}, claims : {{1}}, at : {2}]

=============================================================================
