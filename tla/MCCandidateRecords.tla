------------------------- MODULE MCCandidateRecords -------------------------
(***************************************************************************)
(* Instances of CandidateRecords for TLC.  The checks begin at a store that  *)
(* commands can have built, so that the interesting commands are within the *)
(* bound: one where most chains have yet to begin, one with what a          *)
(* comparison of two companies needs, one with what a snapshot needs.                         *)
(***************************************************************************)
EXTENDS CandidateRecords, TLC

Stored(kind, name, no, state, stock, uses, cut, at) ==
    [Revision(kind, name, state, stock, uses, {}, cut, at) EXCEPT !.no = no]

Row(company, of, chosen) == [company |-> company, of |-> of, chosen |-> chosen]
Grouped(kind, name, state, cut, at, members) ==
    [Revision(kind, name, state, "", UNION {m.of : m \in members}, members, cut, at)
        EXCEPT !.no = 1]

\* Two companies, each with a share, its price, an observation and a metric, and
\* a first comparison of the two.
Comparable == <<
    Stored("research", "a", 1, "current", "", {}, 1, 1),
    Stored("research", "b", 1, "current", "", {}, 1, 1),
    Stored("instrument", "x", 1, "listed", "a", {}, 1, 1),
    Stored("instrument", "y", 1, "listed", "b", {}, 1, 1),
    Stored("series", "x", 1, "accepted", "", {3}, 1, 1),
    Stored("series", "y", 1, "accepted", "", {4}, 1, 1),
    Stored("price", "x", 1, "accepted", "", {3, 5}, 1, 1),
    Stored("price", "y", 1, "accepted", "", {4, 6}, 1, 1),
    Stored("valuation", "x", 1, "eligible", "", {7, 8}, 1, 1),
    Stored("observation", "x", 1, "supported", "", {1, 3}, 1, 1),
    Stored("metric", "x", 1, "calculated", "", {3, 7, 9, 10}, 1, 1),
    Stored("observation", "y", 1, "supported", "", {2, 4}, 1, 1),
    Stored("metric", "y", 1, "calculated", "", {4, 8, 9, 12}, 1, 1),
    Grouped("peers", "a", "calculated", 1, 1,
            {Row("a", {1, 3, 11}, TRUE), Row("b", {2, 4, 13}, TRUE)})>>

\* A company with an accepted price and its components, then another revision of
\* each of them, and a first snapshot; the other company has research alone.
Rankings == <<
    Stored("research", "a", 1, "current", "", {}, 1, 1),
    Stored("research", "b", 1, "current", "", {}, 1, 1),
    Stored("instrument", "x", 1, "listed", "a", {}, 1, 1),
    Stored("series", "x", 1, "accepted", "", {3}, 1, 1),
    Stored("price", "x", 1, "accepted", "", {3, 4}, 1, 1),
    Stored("context", "x", 1, "eligible", "", {5}, 1, 1),
    Stored("valuation_context", "a", 1, "supported", "", {1, 5, 6}, 1, 1),
    Stored("risk_penalty", "a", 1, "supported", "", {1}, 1, 1),
    Stored("research", "a", 2, "current", "", {}, 1, 2),
    Stored("instrument", "x", 2, "listed", "a", {}, 1, 2),
    Stored("series", "x", 2, "retired", "", {10}, 1, 2),
    Stored("price", "x", 2, "rejected", "", {3, 4}, 1, 2),
    Stored("valuation_context", "a", 2, "disputed", "", {9}, 2, 2),
    Grouped("snapshot", "pool", "recorded", 1, 1,
            {Row("a", {1, 5, 6, 7, 8}, TRUE), Row("b", {2}, FALSE)})>>

\* A share with a series contract that was retired again and again: two
\* commands may follow, so that chains of other records begin here.
Beginnings ==
    <<Stored("instrument", "x", 1, "listed", "a", {}, 1, 1)>>
        \o [n \in 1 .. 12 |-> Stored("series", "x", n, "retired", "", {1}, 1, 1)]

MCInit ==
    /\ revs \in {Beginnings, Comparable, Rankings}
    /\ writer = [w \in Writers |-> Idle]
    /\ run \in {[status |-> "pending", cut |-> 0, done |-> 0],
                [status |-> "succeeded", cut |-> 1, done |-> 1]}
    /\ revs # Beginnings => run.status = "succeeded"

MCSpec == MCInit /\ [][Next]_vars
Perms == Permutations(Writers)
=============================================================================
