----------------------- MODULE MCFoundationAcquisition -----------------------
(* Instances of FoundationAcquisition for TLC: one stock, one index, two    *)
(* sessions.                                                                *)
EXTENDS FoundationAcquisition, TLC, Sequences, FiniteSetsExt

CONSTANTS c1, c2, stock, index, wide

Select(role, cutoff, days) ==
    LET ids == CASE role = "calendar" -> {} [] role = "benchmark" -> {index} [] OTHER -> {stock}
    IN  [capability |-> role, reference |-> cutoff, ids |-> ids,
         sessions |-> IF role = "listed" THEN {cutoff} ELSE days,
         expected |-> ids \X days]

Served(s, edition) ==
    [attempts |-> <<"timeout", "payload">>, wellFormed |-> TRUE, keys |-> Keys(s),
     closed |-> {}, edition |-> edition]

Input(cutoff, days, edition) ==
    LET s == [r \in Role |-> Select(r, cutoff, days)]
    IN  [cutoff |-> cutoff, budget |-> [calls |-> 1, cells |-> 22], selector |-> s,
         answer |-> [r \in Role |-> Served(s[r], IF r = "daily" THEN edition ELSE 1)]]

(* A foundation, its next edition for a cutoff without a session of its     *)
(* own, and inputs that one check each refuses.                             *)
First == Input(2, {1, 2}, 1)
Faulty ==
    LET bench == [First EXCEPT !.selector["benchmark"] = Select("benchmark", 2, {2}),
                               !.answer["benchmark"].keys = {index} \X {2}]
    IN  {bench,
         [First EXCEPT !.answer["calendar"].closed = {2}],
         [First EXCEPT !.answer["daily"].keys = {<<stock, 2>>}],
         [First EXCEPT !.answer["daily"].attempts = <<"timeout", "timeout">>],
         [First EXCEPT !.answer["listed"].attempts = <<"denied", "payload">>],
         [First EXCEPT !.selector["daily"].capability = "adjusted"],
         [First EXCEPT !.budget.cells = 21],
         [Input(1, {1}, 1) EXCEPT !.selector["benchmark"].ids = {wide},
                                  !.selector["benchmark"].expected = {<<wide, 1>>},
                                  !.answer["benchmark"].keys = {<<wide, 1>>}]}

Enumerate(S) == FoldSet(LAMBDA x, seq : Append(seq, x), <<>>, S)

Gatherings == {First, Input(3, {1, 2}, 2)} \cup Faulty
MCInputOf == Enumerate(Gatherings)
MCInputs == DOMAIN MCInputOf

MCBundleOf == Enumerate({Market(i) : i \in Gatherings} \cup {Benchmark(i) : i \in Gatherings})
MCBatches == DOMAIN MCBundleOf
MCSeriesOf == [b \in MCBatches |-> MCBundleOf[b].owner]
MCCutoffOf == [b \in MCBatches |-> MCBundleOf[b].cutoff]

(* Another importer brings the first market.                                *)
MCOthers == {b \in MCBatches : MCBundleOf[b] = Market(First)}

CallerSymmetry == Permutations(Callers)
=============================================================================
