---------------------------- MODULE MarketContent ----------------------------
(***************************************************************************)
(* What the imported market rows say: the normalization a bundle has to     *)
(* survive to be stored, and the calculators that turn the rows of one      *)
(* equity run, and of a benchmark and a sector run beside it, into the      *)
(* sessions, coverage, alignment and volume anomalies a reader is shown.    *)
(*                                                                         *)
(* A bundle is abstracted to the days of its rows per code, the open days   *)
(* of its calendar (equity only), the stock-days without trade and those    *)
(* whose volume is at least twice the median of the window before.  What is *)
(* computed from prices and amounts is abstracted to the stocks that enter  *)
(* it: a figure over n sessions takes the stocks traded in each of them.    *)
(* Values, names, providers and adjustment types are left out, and with     *)
(* them the warnings and rankings.  Dates are numbered days.                *)
(***************************************************************************)
EXTENDS Naturals, FiniteSets, FiniteSetsExt

CONSTANTS
    Stocks, Indices, Sectors,  \* the exact code scope of each series
    EndOf,                     \* requested_end_date of each family's series
    Short, Medium, Long        \* sessions of the windows, 5, 20 and 60 in the code

Family   == {"equity", "benchmark", "sector"}
Contexts == {"benchmark", "sector"}

ASSUME ContentAssumption ==
    /\ EndOf \in [Family -> Nat \ {0}] /\ {Short, Medium, Long} \subseteq Nat \ {0}
    /\ Stocks # {} /\ Indices # {} /\ Sectors # {}

-----------------------------------------------------------------------------
(* Normalization                                                           *)

Reach(b) == Min({b.cutoff, EndOf[b.family]})

RowsInReach(b) ==
    \A c \in DOMAIN b.rows : b.rows[c] # {} /\ \A d \in b.rows[c] : d <= Reach(b)

NormalizesEquity(b) ==
    /\ b.family = "equity" /\ DOMAIN b.rows = Stocks /\ RowsInReach(b)
    /\ \A d \in b.open : d <= Reach(b)
    /\ UNION {b.rows[c] : c \in Stocks} \subseteq b.open

NormalizesBenchmark(b) ==
    b.family = "benchmark" /\ DOMAIN b.rows = Indices /\ RowsInReach(b)

NormalizesSector(b) ==
    b.family = "sector" /\ DOMAIN b.rows = Sectors /\ RowsInReach(b)

Normalizes(b) ==
    NormalizesEquity(b) \/ NormalizesBenchmark(b) \/ NormalizesSector(b)

-----------------------------------------------------------------------------
(* The equity snapshot                                                     *)

Upto(b, cutoff) == Min({Reach(b), cutoff})

Sessions(b, cutoff) == {d \in b.open : d <= Upto(b, cutoff)}

(* effective_as_of_session: the last open session within all bounds.        *)
Effective(b, cutoff) == Max(Sessions(b, cutoff))

(* The last n of some sessions, none when there are fewer.                  *)
Last(sessions, n) ==
    IF Cardinality(sessions) < n THEN {}
    ELSE {d \in sessions : Cardinality({x \in sessions : x >= d}) <= n}

Traded(b, c) == {d \in b.rows[c] : <<c, d>> \notin b.idle}

(* The stocks traded in each of the last n open sessions.                   *)
Cohort(b, cutoff, n) ==
    LET window == Last(Sessions(b, cutoff), n)
    IN  {c \in Stocks : window # {} /\ window \subseteq Traded(b, c)}

(* The stocks with a latest return.                                         *)
Available(b, cutoff) == Cohort(b, cutoff, 2)

(* What keeps the others from one: the later of the two sessions that it    *)
(* was not traded in, and when it was traded last before; 0 stands for none.*)
LatestIssues(b, cutoff) ==
    LET window == Last(Sessions(b, cutoff), 2)
        Issue(c) ==
            LET blocking == Max({0} \cup (window \ Traded(b, c)))
            IN  [session |-> blocking,
                 no_trade |-> <<c, blocking>> \in b.idle,
                 last |-> Max({0} \cup {d \in Traded(b, c) \cap Sessions(b, cutoff) :
                                           d < blocking})]
    IN  [c \in Stocks \ Available(b, cutoff) |-> Issue(c)]

Breadth(b, cutoff) == [n \in {Medium, Long} |-> Cohort(b, cutoff, n)]

Participation(b, cutoff) == Cohort(b, cutoff, Medium + 1)

(* The sessions of the risk window with a return of the whole universe.     *)
RiskSessions(b, cutoff) ==
    LET window == Last(Sessions(b, cutoff), Medium + 1)
        All(d) == \A c \in Stocks : d \in Traded(b, c)
    IN  IF window = {} THEN Cardinality(Sessions(b, cutoff)) - 1
        ELSE Cardinality({d \in window \ {Min(window)} :
                             All(d) /\ All(Max({x \in window : x < d}))})

CalculationStatus(b, cutoff) ==
    IF Available(b, cutoff) = {} THEN "insufficient_data"
    ELSE IF /\ Available(b, cutoff) = Stocks
            /\ \A n \in {Medium, Long} : Breadth(b, cutoff)[n] = Stocks
            /\ Participation(b, cutoff) = Stocks
            /\ RiskSessions(b, cutoff) = Medium
         THEN "ready" ELSE "partial"

Graded(whole, some) ==
    IF whole THEN "complete" ELSE IF some THEN "partial" ELSE "unavailable"

(* The amount of the effective session, and activity against the median of  *)
(* the sessions before.                                                     *)
Activity(b, cutoff) == [n \in {Short, Medium} |-> Cohort(b, cutoff, n + 1)]

Liquidity(b, cutoff) ==
    LET latest   == Cohort(b, cutoff, 1)
        activity == Activity(b, cutoff)
    IN  [latest   |-> latest,
         activity |-> activity,
         status   |-> Graded(/\ latest = Stocks
                             /\ \A n \in DOMAIN activity : activity[n] = Stocks,
                             latest # {})]

Momentum(b, cutoff) == [n \in {Medium, Long} |-> Cohort(b, cutoff, n + 1)]

Volatility(b, cutoff) == Cohort(b, cutoff, Medium + 1)

Matched(b, cutoff) ==
    {c \in Volatility(b, cutoff) :
        \A n \in {Medium, Long} : c \in Momentum(b, cutoff)[n]}

PriceBehavior(b, cutoff) ==
    LET momentum   == Momentum(b, cutoff)
        volatility == Volatility(b, cutoff)
        cohorts    == {momentum[n] : n \in DOMAIN momentum} \cup {volatility}
    IN  [momentum   |-> momentum,
         volatility |-> volatility,
         matched    |-> Matched(b, cutoff),
         status     |-> Graded(Matched(b, cutoff) = Stocks, \E x \in cohorts : x # {})]

(* _snapshot_state of a snapshot whose overall status build_snapshot sets   *)
(* to "partial" whenever it is not insufficient.                            *)
SnapshotState(b, cutoff) ==
    IF CalculationStatus(b, cutoff) = "insufficient_data" THEN "insufficient_data"
    ELSE "partial_selected_scope"

EquityContent(b, cutoff) ==
    [through       |-> Effective(b, cutoff),
     state         |-> SnapshotState(b, cutoff),
     calculation   |-> CalculationStatus(b, cutoff),
     available     |-> Available(b, cutoff),
     issues        |-> LatestIssues(b, cutoff),
     breadth       |-> Breadth(b, cutoff),
     participation |-> Participation(b, cutoff),
     risk          |-> RiskSessions(b, cutoff),
     liquidity     |-> Liquidity(b, cutoff),
     behavior      |-> PriceBehavior(b, cutoff)]

-----------------------------------------------------------------------------
(* Benchmark and sector contexts, read beside equity bundle e               *)

(* The rows a repository returns: none after the equity's session.          *)
RowsOf(b, c, e, cutoff) ==
    {d \in b.rows[c] : d <= Min({Upto(b, cutoff), Effective(e, cutoff)})}

(* Open sessions of the equity's calendar that the context may cover.       *)
ExpectedSessions(b, e, cutoff) ==
    {d \in Sessions(e, cutoff) : d <= Reach(b) /\ d <= Effective(e, cutoff)}

(* The latest session of each code, 0 when it has none.                     *)
LatestOf(b, e, cutoff) ==
    [c \in DOMAIN b.rows |->
        Max({0} \cup (RowsOf(b, c, e, cutoff) \cap ExpectedSessions(b, e, cutoff)))]

Alignment(b, e, cutoff) ==
    LET latest == LatestOf(b, e, cutoff)
        at     == {latest[c] : c \in DOMAIN latest}
    IN  IF 0 \in at \/ Cardinality(at) > 1 THEN "partial"
        ELSE IF at # {Effective(e, cutoff)} THEN "different_session"
        ELSE IF b.cutoff # e.cutoff THEN "different_cutoff" ELSE "aligned"

(* The effective session of a context, 0 when no code has one.              *)
ContextSession(b, e, cutoff) ==
    LET latest == LatestOf(b, e, cutoff) IN Max({latest[c] : c \in DOMAIN latest})

(* Why a figure over n sessions up to the latest of a code is, or is not,   *)
(* there: all its sessions need a row.                                      *)
WindowReason(b, c, e, cutoff, n) ==
    LET latest == LatestOf(b, e, cutoff)[c]
        upto   == {d \in ExpectedSessions(b, e, cutoff) : d <= latest}
    IN  IF Cardinality(upto) < n THEN "insufficient_history"
        ELSE IF Last(upto, n) \subseteq RowsOf(b, c, e, cutoff) THEN "available"
        ELSE "missing_expected_session"

WindowsOf(family) ==
    IF family = "benchmark" THEN {2, Medium, Long, Medium + 1}
    ELSE {2, Short + 1, Medium + 1, Medium}

ContextContent(b, e, cutoff) ==
    [alignment |-> Alignment(b, e, cutoff),
     latest    |-> LatestOf(b, e, cutoff),
     windows   |-> [c \in DOMAIN b.rows |->
                      [n \in WindowsOf(b.family) |-> WindowReason(b, c, e, cutoff, n)]]]

(* Why a context cannot be shown beside e, "none" when it can.  A sector    *)
(* series needs a visible row of every code, a benchmark series of any.     *)
ContextRefusal(b, e, cutoff) ==
    LET silent == {c \in DOMAIN b.rows : RowsOf(b, c, e, cutoff) = {}}
    IN  IF silent = DOMAIN b.rows THEN "not_visible"
        ELSE IF (b.family = "sector" /\ silent # {})
                \/ ExpectedSessions(b, e, cutoff) = {} THEN "incompatible"
        ELSE "none"

-----------------------------------------------------------------------------
(* Volume anomalies of bundle b at the session "through"                    *)

(* The open sessions that end with "through" and fill the window, none when *)
(* the calendar does not have them.                                         *)
VolumeWindow(b, through) ==
    LET upto == {d \in b.open : d <= through}
    IN  IF through \in upto THEN Last(upto, Medium + 1) ELSE {}

(* Each stock's rule result: unavailable unless traded in every session.    *)
Anomalies(b, through) ==
    LET window == VolumeWindow(b, through)
    IN  [c \in Stocks |->
            IF window = {} \/ ~(window \subseteq Traded(b, c)) THEN "unavailable"
            ELSE IF <<c, through>> \in b.heavy THEN "unusual_volume" ELSE "quiet"]
=============================================================================
