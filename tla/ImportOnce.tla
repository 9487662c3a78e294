----------------------------- MODULE ImportOnce -----------------------------
(***************************************************************************)
(* What the import service promises its callers: a store of batches in     *)
(* which a batch is imported by one atomic step, at most once and forever. *)
(* A caller that asks for a batch somebody stored is told so; a caller may *)
(* also be told "failed", which says nothing about whether its batch was   *)
(* stored, but nobody is ever told of a conflict between two imports.      *)
(***************************************************************************)
CONSTANTS Callers, Batches, Rejected

VARIABLES
    stored,    \* the imported batches
    asked,     \* per caller: the batch of its latest request
    phase,     \* per caller: "idle", "asked" or "stored"
    answer     \* per caller: the answer to its latest request

avars == <<stored, asked, phase, answer>>

Init ==
    /\ stored = {}
    /\ asked \in [Callers -> Batches]
    /\ phase = [c \in Callers |-> "idle"]
    /\ answer = [c \in Callers |-> "none"]

Ask(c, b) ==
    /\ phase[c] = "idle"
    /\ asked' = [asked EXCEPT ![c] = b]
    /\ phase' = [phase EXCEPT ![c] = "asked"]
    /\ answer' = [answer EXCEPT ![c] = "none"]
    /\ UNCHANGED stored

Store(c) ==
    /\ phase[c] = "asked"
    /\ asked[c] \notin stored \cup Rejected
    /\ stored' = stored \cup {asked[c]}
    /\ phase' = [phase EXCEPT ![c] = "stored"]
    /\ UNCHANGED <<asked, answer>>

Reply(c, kind) ==
    /\ phase' = [phase EXCEPT ![c] = "idle"]
    /\ answer' = [answer EXCEPT ![c] = kind]
    /\ UNCHANGED <<stored, asked>>

ReplyNew(c)        == phase[c] = "stored" /\ Reply(c, "new")
ReplyIdempotent(c) == phase[c] = "asked" /\ asked[c] \in stored /\ Reply(c, "idempotent")
ReplyFailed(c)     == phase[c] # "idle" /\ Reply(c, "failed")

Next ==
    \E c \in Callers :
        \/ \E b \in Batches : Ask(c, b)
        \/ Store(c) \/ ReplyNew(c) \/ ReplyIdempotent(c) \/ ReplyFailed(c)

Spec == Init /\ [][Next]_avars

=============================================================================
