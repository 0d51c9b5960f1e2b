----------------------------- MODULE JobPromise -----------------------------
(***************************************************************************)
(* What the job queue promises to the code that uses it, with no table, no *)
(* lease and no clock: a submitted job is handed to one worker at a time,  *)
(* a bounded number of times; only the worker it is handed to may publish  *)
(* a result; the verdict on a job is pronounced once and is final.         *)
(*                                                                         *)
(* JobQueue is shown to implement this module.                             *)
(***************************************************************************)
EXTENDS Naturals

CONSTANTS Job,          \* the jobs that may ever be submitted
          Worker,       \* the processes that execute jobs
          Nobody,       \* the value of "right" when no worker holds the job
          MaxAttempts   \* no job is handed out more often than this

VARIABLES right,        \* right[j]: the worker that may publish on j, or Nobody
          spent,        \* spent[j]: how many times j was handed out
          verdict       \* verdict[j]: "unknown", "open", a verdict, "forgotten"

promiseVars == <<right, spent, verdict>>

Verdict == {"succeeded", "failed", "cancelled"}

PromiseInit ==
    /\ right = [j \in Job |-> Nobody]
    /\ spent = [j \in Job |-> 0]
    /\ verdict = [j \in Job |-> "unknown"]

(* The steps of one job. *)

Submit(j) ==
    /\ verdict[j] = "unknown" /\ verdict'[j] = "open"
    /\ right'[j] = right[j] /\ spent'[j] = spent[j]

Grant(j, w) ==
    /\ verdict[j] = "open" /\ right[j] = Nobody /\ spent[j] < MaxAttempts
    /\ right'[j] = w /\ spent'[j] = spent[j] + 1
    /\ verdict'[j] = "open"

\* The attempt ends without a verdict: given back, failed for now, or taken away.
Revoke(j) ==
    /\ verdict[j] = "open" /\ right[j] # Nobody
    /\ right'[j] = Nobody
    /\ verdict'[j] = "open" /\ spent'[j] = spent[j]

Decide(j, v) ==
    /\ verdict[j] = "open" /\ right[j] # Nobody
    /\ v \in {"succeeded", "failed"}
    /\ verdict'[j] = v /\ right'[j] = Nobody /\ spent'[j] = spent[j]

Withdraw(j) ==
    /\ verdict[j] = "open" /\ right[j] = Nobody
    /\ verdict'[j] = "cancelled"
    /\ right'[j] = right[j] /\ spent'[j] = spent[j]

Forget(j) ==
    /\ verdict[j] \in Verdict /\ verdict'[j] = "forgotten"
    /\ right'[j] = Nobody /\ spent'[j] = spent[j]

Rest(j) ==
    right'[j] = right[j] /\ spent'[j] = spent[j] /\ verdict'[j] = verdict[j]

JobStep(j) ==
    \/ Submit(j)
    \/ \E w \in Worker : Grant(j, w)
    \/ Revoke(j)
    \/ \E v \in Verdict : Decide(j, v)
    \/ Withdraw(j)
    \/ Forget(j)
    \/ Rest(j)

\* Recovery and purge move several jobs in one transaction, so a step of the
\* promise moves any set of jobs, each by at most one of its own steps.
PromiseNext == \A j \in Job : JobStep(j)

PromiseSpec == PromiseInit /\ [][PromiseNext]_promiseVars
=============================================================================
