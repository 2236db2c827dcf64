--------------------------- MODULE MCSealPipeline ---------------------------
(* The scenarios of the runs of SealPipeline.                              *)
EXTENDS SealPipeline

CONSTANTS p1, p2  \* two nodes that poll

\* The pollers of two nodes overlap on one sector; two sectors share batches
\* under one poller; trees are thrown away under one poller.
AllScenarios ==
    {[sectors |-> {1}, done |-> {}, pollers |-> {p1, p2}, kinds |-> {"stale", "gas"}],
     [sectors |-> {1, 2}, done |-> BySupraseal, pollers |-> {p1}, kinds |-> {"expired", "late"}],
     [sectors |-> {1}, done |-> {}, pollers |-> {p1}, kinds |-> {"reset", "crash", "error", "simulate"}]}

DryRunFails == {[sectors |-> {1, 2}, done |-> BySupraseal, pollers |-> {p1}, kinds |-> {"simulate"}]}
=============================================================================
