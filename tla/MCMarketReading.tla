--------------------------- MODULE MCMarketReading ---------------------------
(*****************************************************************************)
(* Two stocks, one index, two sectors and seven days, the fourth a weekend.  *)
(* The database holds a run of each family, or three equity runs; one more   *)
(* import begins, stamps, commits or fails while one reader asks.            *)
(*****************************************************************************)
EXTENDS MarketReading, TLC

CONSTANTS s1, s2, i1, k1, k2

MCStocks  == {s1, s2}
MCIndices == {i1}
MCSectors == {k1, k2}
MCEndOf   == [equity |-> 6, benchmark |-> 7, sector |-> 7]

MCWeekdays == {1, 2, 3, 5, 6, 7}
MCCapabilities == {"calendar", "indices", "ladder"}

Equity(cutoff, open, rows, idle, heavy) ==
    [family |-> "equity", cutoff |-> cutoff, open |-> open, rows |-> rows,
     idle |-> idle, heavy |-> heavy]
Context(family, cutoff, rows) ==
    [family |-> family, cutoff |-> cutoff, open |-> {}, rows |-> rows,
     idle |-> {}, heavy |-> {}]

First     == Equity(3, {1, 2, 3}, s1 :> {1, 2, 3} @@ s2 :> {1, 2, 3}, {}, {<<s1, 3>>})
Corrected == Equity(3, {1, 2, 3}, s1 :> {1, 2, 3} @@ s2 :> {1, 2}, {<<s1, 1>>}, {})
Later     == Equity(6, {1, 2, 3, 5, 6}, s1 :> {1, 2, 3, 5, 6} @@ s2 :> {3, 5, 6},
                    {<<s1, 5>>}, {<<s2, 6>>})
Overdrawn == Equity(3, {1, 2, 3, 5}, s1 :> {1, 5} @@ s2 :> {1}, {}, {})

IndexFirst == Context("benchmark", 3, i1 :> {1, 2, 3})
IndexLater == Context("benchmark", 6, i1 :> {1, 3, 4})
IndexAhead == Context("benchmark", 6, i1 :> {5, 6})

SectorFirst == Context("sector", 3, k1 :> {1, 2, 3} @@ k2 :> {1, 2, 3})
SectorAhead == Context("sector", 6, k1 :> {3, 6} @@ k2 :> {5, 6})
SectorShort == Context("sector", 6, k1 :> {1, 2})

MCBundles == {First, Corrected, Later, Overdrawn, IndexFirst, IndexLater,
              IndexAhead, SectorFirst, SectorAhead, SectorShort}

Held(b) == Run(b, 1, "succeeded")

MCBeginnings == {<<Held(First), Held(IndexFirst), Held(SectorFirst)>>,
                 <<Run(First, 1, "failed"), Held(IndexLater), Held(SectorAhead)>>,
                 <<Held(Later), Held(First), Held(Corrected)>>}

MCAsks == [cutoff : {4, 6, 7}, recorded : {1},
           keys : {{"equity"}, Family}]
=============================================================================
