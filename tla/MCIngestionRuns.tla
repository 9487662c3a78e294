--------------------------- MODULE MCIngestionRuns ---------------------------
(* Small instances of IngestionRuns for TLC.                               *)
EXTENDS IngestionRuns, TLC

CONSTANTS c1, c2, c3, b1, b2, bad, s1

(* Two clean batches of one series, the second with a later cutoff, and a  *)
(* bundle that normalization rejects.                                      *)
MCSeriesOf == [b \in Batches |-> s1]
MCCutoffOf == [b \in Batches |-> IF b = b2 THEN 2 ELSE 1]

=============================================================================
