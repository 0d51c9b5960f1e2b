----------------------------- MODULE MCJobQueue -----------------------------
(* JobQueue with the small sets TLC needs.  Model values come from the .cfg. *)
EXTENDS JobQueue, TLC

CONSTANTS w1, w2

\* Every worker claims every type (the default of claim_next_job).
MCServes == [w \in Worker |-> Kind]
MCNoPriority == {0}
MCPriorities == {0, 1}
MCNow == {0}
MCLater == {0, 1}

\* The workers are interchangeable: no property names one of them.
MCSymmetry == Permutations(Worker)
=============================================================================
