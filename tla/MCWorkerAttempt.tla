--------------------------- MODULE MCWorkerAttempt ---------------------------
(* WorkerAttempt with the small sets TLC needs. *)
EXTENDS WorkerAttempt, TLC

CONSTANTS w1, w2

MCServes == [w \in Worker |-> Kind]
MCNoPriority == {0}
MCNow == {0}
MCSymmetry == Permutations(Worker)
=============================================================================
