--------------------------- MODULE MCDocumentReview ---------------------------
(* An instance of DocumentReview for TLC.                                   *)
EXTENDS DocumentReview, TLC

CONSTANTS w1, w2, f1, f2, n1, n2, c1, a, b, id

First == [attempt |-> 1, case |-> c1]
Second == [attempt |-> 2, case |-> c1]

Upload(file, name, media) == [kind |-> "import", file |-> file, name |-> name, media |-> media]
Accept(session, no, selected, at) ==
    [kind |-> "accept", session |-> session, no |-> no, selected |-> selected, at |-> at]
Revise(no, state, decided, selected) ==
    [kind |-> "revise", session |-> First, no |-> no, state |-> state,
     decided |-> decided, selected |-> selected]

(* One file may come under two names and another under one of them; its two *)
(* reviews select the same fact, and a second fact may be added to one.      *)
MCCommands ==
    {Upload(f1, n1, "pdf"), Upload(f1, n2, "pdf"), Upload(f2, n1, "pdf"), Upload(f1, n1, "other"),
     [kind |-> "open", session |-> First], [kind |-> "open", session |-> Second],
     [kind |-> "add", session |-> First, item |-> b], [kind |-> "add", session |-> First, item |-> id],
     Revise(1, "rejected", {id, a}, {id, a}), Revise(1, "draft", {id, a, b}, {id, b}),
     Revise(2, "deferred", {id, a}, {id}),
     Accept(First, 1, {a}, 1), Accept(First, 1, {a}, 2), Accept(Second, 1, {a}, 1), Accept(First, 2, {b}, 1),
     [kind |-> "record", case |-> c1, file |-> f1, fact |-> a]}

=============================================================================
