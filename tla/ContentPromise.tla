---------------------------- MODULE ContentPromise ----------------------------
(***************************************************************************)
(* What snapshots and reports promise to their readers, whatever the       *)
(* number of jobs, attempts and crashes behind them: a fingerprint of the  *)
(* source files is sealed by at most one snapshot, what is sealed is       *)
(* reported by at most one run, and neither is changed or withdrawn.       *)
(***************************************************************************)
CONSTANTS
    Contents,   \* the fingerprints of what the source files may hold
    Ids         \* identifiers of snapshots and of runs

VARIABLES
    sealed,     \* the sealed snapshots, with their fingerprint
    reported    \* the reported runs, with the fingerprint of their snapshot

promiseVars == <<sealed, reported>>

Init == sealed = {} /\ reported = {}

Seal(i, c) ==
    /\ \A s \in sealed : s[2] # c
    /\ sealed' = sealed \cup {<<i, c>>}
    /\ UNCHANGED reported

Report(i, c) ==
    /\ \E s \in sealed : s[2] = c
    /\ \A r \in reported : r[2] # c
    /\ reported' = reported \cup {<<i, c>>}
    /\ UNCHANGED sealed

Next == \E i \in Ids, c \in Contents : Seal(i, c) \/ Report(i, c)

Spec == Init /\ [][Next]_promiseVars
=============================================================================
