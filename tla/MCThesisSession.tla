--------------------------- MODULE MCThesisSession ---------------------------
(* An instance of ThesisSession for TLC.                                   *)
EXTENDS ThesisSession, TLC

CONSTANTS w1, w2

Item(op, at, supported) == [key |-> 1, op |-> op, at |-> at, supported |-> supported]
NoPool == [op |-> "none", at |-> 0]

(* Candidate 1 is there from the beginning, candidate 2 may be built.       *)
MCCommands ==
    {[kind |-> "revise", no |-> 2, workflow |-> "open"], [kind |-> "revise", no |-> 3, workflow |-> "accepted"],
     [kind |-> "revise", no |-> 4, workflow |-> "open"]}
    \union [kind : {"build"}, no : {2}, proposals : {{<<2, 0>>}, {<<1, 1>>}}]
    \union [kind : {"review"}, no : {2}, decided : {{<<1, 1>>}, {<<1, 2>>}, {<<1, 1>>, <<2, 1>>}}, selected : {{1}}]
    \union {[kind |-> "accept", no |-> 2, owners |-> {Item("create", 0, FALSE)}, pool |-> NoPool],
            [kind |-> "accept", no |-> 3, owners |-> {Item("create", 0, TRUE)}, pool |-> [op |-> "create", at |-> 0]],
            [kind |-> "accept", no |-> 3, owners |-> {Item("append", 1, TRUE)}, pool |-> [op |-> "reuse", at |-> 1]],
            [kind |-> "accept", no |-> 3, owners |-> {Item("append", 1, TRUE)}, pool |-> [op |-> "append", at |-> 1]],
            [kind |-> "accept", no |-> 3, owners |-> {Item("reuse", 1, TRUE)}, pool |-> [op |-> "reuse", at |-> 1]]}
    \union {[kind |-> "assess", key |-> 1, op |-> "append", supported |-> FALSE],
            [kind |-> "assess", key |-> 1, op |-> "create", supported |-> TRUE]}
    \union [kind : {"pool"}, op : {"create", "append"}, members : {{<<1, 1>>}}]

=============================================================================
