----------------------------- MODULE MCRetention -----------------------------
(* Retention with the small sets TLC needs. *)
EXTENDS Retention, TLC

CONSTANTS j1, j2, p1, p2

Policy(kept, failed, audit, batch) ==
    [jobs |-> [s \in TerminalStatus |-> IF s = "failed" THEN failed ELSE kept],
     audit_events |-> audit, batch_limit |-> batch]

\* Equal windows and small batches, a policy that keeps failures longer, and one that is refused.
MCDocuments == {Policy(2, 2, 2, 1), Policy(1, 3, 3, 2), Policy(1, 3, 2, 2)}
MCSymmetry == Permutations(Jobs) \cup Permutations(Purges)
=============================================================================
