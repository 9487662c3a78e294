-------------------------- MODULE MCCompanyResearch --------------------------
(* An instance of CompanyResearch for TLC.                                  *)
EXTENDS CompanyResearch, TLC

CONSTANTS w1, w2, f1, f2, good, bad

MCPoolOf == (f1 :> "p1") @@ (f2 :> "p2")
MCClaimStatus == (1 :> "supported") @@ (2 :> "draft") @@ (3 :> "draft")
MCRelationOf == (good :> "supports") @@ (bad :> "contradicts")
MCSeedLinks == {[claim |-> c, evidence |-> good, at |-> 1] : c \in {1, 2}}

Named(kind, file, no) == [kind |-> kind, file |-> file, key |-> IF kind = "research" THEN 0 ELSE 1, no |-> no]

Base == {Named("research", f1, 2), Named("hypothesis", f1, 1)}
Valued == Base \union {Named("snapshot", f1, 1)}
Assessed == Valued \union {Named("assessment", f1, 1)}

Open(file, at) == [kind |-> "open", file |-> file, at |-> at]
Research(rests, status, completed, at) ==
    [kind |-> "research", file |-> f1, rests |-> rests, status |-> status, completed |-> completed, at |-> at]
Layer(kind, create, file, rests, claims, status, at) ==
    [kind |-> kind, create |-> create, file |-> file, key |-> 1, rests |-> rests,
     claims |-> claims, status |-> status, at |-> at]
Linked(claim, evidence, at) == [kind |-> "link", claim |-> claim, evidence |-> evidence, at |-> at]

(* Claims 1 and 2 are handed off, claim 3 is not; each may be contradicted.        *)
MCCommands ==
    {Open(f1, 1), Open(f2, 2),
     Research({Named("hypothesis", f1, 1)}, "supported", TRUE, 2),
     Research({Named("hypothesis", f1, 2)}, "disputed", FALSE, 2),
     Layer("hypothesis", TRUE, f1, {}, {1, 2}, "supported", 1),
     Layer("hypothesis", FALSE, f1, {}, {1, 3}, "supported", 2),
     Layer("hypothesis", FALSE, f1, {}, {1, 3}, "disputed", 2),
     Layer("hypothesis", TRUE, f2, {}, {1, 2}, "draft", 2),
     Layer("snapshot", FALSE, f1, Base, {1, 2}, "supported", 2),
     Layer("snapshot", FALSE, f1, {Named("research", f1, 3), Named("hypothesis", f1, 2)}, {1, 3}, "disputed", 2),
     Layer("assessment", FALSE, f1, Valued, {1, 2}, "supported", 2),
     Layer("assessment", FALSE, f1, Base \union {Named("snapshot", f1, 2)}, {1, 2}, "supported", 2),
     Layer("judgment", TRUE, f1, Assessed, {1, 2}, "supported", 2),
     Layer("judgment", TRUE, f1, Assessed, {1}, "supported", 2),
     Layer("judgment", TRUE, f1, Base \union {Named("snapshot", f1, 2), Named("assessment", f1, 1)},
           {1, 2}, "supported", 2),
     Linked(1, good, 1), Linked(1, bad, 2), Linked(2, bad, 1), Linked(3, bad, 1), Linked(3, good, 2)}

=============================================================================
