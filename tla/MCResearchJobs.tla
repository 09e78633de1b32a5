--------------------------- MODULE MCResearchJobs ---------------------------
(* Instances of ResearchJobs for TLC.                                         *)
EXTENDS ResearchJobs, TLC

CONSTANTS j1, j2, w1, w2

\* Both holdouts end with the newest candle; the first starts earlier.
Overlapping == (j1 :> {1, 2}) @@ (j2 :> {2})
=============================================================================
