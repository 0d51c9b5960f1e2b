------------------------------ MODULE Retention ------------------------------
(***************************************************************************)
(* Retention: purge jobs that delete finished rows of "jobs" and then old  *)
(* rows of "audit_events", by the policy of their payload, with a worker's *)
(* clock that may disagree with the database's, several at a time and      *)
(* failing between any two of their transactions, while jobs are created   *)
(* and finish.                                                             *)
(*                                                                         *)
(* Of a job's trail the last event is kept, the one that tells its end,    *)
(* written by the transaction that ends the row.  now() is the start of a  *)
(* transaction, clock_timestamp() an instant of it: the rows of one        *)
(* transaction, or of two, may bear the same instant.  Days are ticks of   *)
(* the clock.                                                              *)
(***************************************************************************)
EXTENDS Integers, FiniteSets

CONSTANTS
    Jobs,           \* the jobs of one organization
    Purges,         \* the attempts of purge jobs
    MaxClock,       \* bound: the last instant
    MaxSkew,        \* how far a worker's clock may be from the database's
    MaxTransaction, \* how long a transaction that writes a row may last
    Documents,      \* the retentions that the payloads of purge jobs ask for
    AUDIT_FLOOR_DAYS,   \* no younger event may be deleted (0005)
    PURGE_FLOOR         \* no younger finished job may be deleted (0004)

ASSUME RetentionAssumption ==
    /\ IsFiniteSet(Jobs)
    /\ MaxClock \in Nat /\ MaxSkew \in Nat /\ MaxTransaction \in Nat
    /\ \A d \in Documents : /\ d.audit_events \in Nat /\ d.batch_limit \in Nat
                            /\ \A s \in {"succeeded", "failed", "cancelled"} : d.jobs[s] \in Nat
    /\ AUDIT_FLOOR_DAYS \in Nat /\ PURGE_FLOOR \in Nat
    \* The floors are 30 days and one hour: clocks may be 29 days apart, and a transaction
    \* that ends a job may last an hour.
    /\ MaxTransaction <= PURGE_FLOOR
    /\ MaxSkew + PURGE_FLOOR <= AUDIT_FLOOR_DAYS

VARIABLES
    clock,          \* now() of the database
    status,         \* status[j]: "absent", "live" (queued or running), or how job j ended
    finished_at,    \* finished_at[j]: when the job ended, or Never
    created_at,     \* created_at[j]: the instant of the event of its end, or Never
    purgedJobs,     \* the jobs whose row is deleted
    purgedEvents,   \* the jobs whose event is deleted
    purges          \* purges[p]: the policy, the instant and the next step of an attempt

rows == <<status, finished_at, created_at>>
vars == <<clock, status, finished_at, created_at, purgedJobs, purgedEvents, purges>>

TerminalStatus == {"succeeded", "failed", "cancelled"}
Never == -1

\* __post_init__, without the comparison with the job retentions (LeftByAFullBatch).
ValidPolicyFaulty(p) ==
    /\ \A s \in TerminalStatus : p.jobs[s] >= 1
    /\ p.audit_events >= AUDIT_FLOOR_DAYS
    /\ p.batch_limit \in 1 .. 1000

\* RetentionPolicy.__post_init__; any other document fails the purge job for good.
ValidPolicy(p) ==
    /\ \A s \in TerminalStatus : p.jobs[s] >= 1
    /\ p.audit_events >= AUDIT_FLOOR_DAYS
    /\ \A s \in TerminalStatus : p.audit_events >= p.jobs[s]
    /\ p.batch_limit \in 1 .. 1000

\* The categories in the order of job_cutoffs, then the audit log.
NextStep(step) ==
    CASE step = "succeeded" -> "failed"
      [] step = "failed" -> "cancelled"
      [] step = "cancelled" -> "audit"
      [] step = "audit" -> "done"

Idle == [step |-> "idle"]

Init ==
    /\ clock = 0
    /\ status = [j \in Jobs |-> "absent"]
    /\ finished_at = [j \in Jobs |-> Never]
    /\ created_at = [j \in Jobs |-> Never]
    /\ purgedJobs = {}
    /\ purgedEvents = {}
    /\ purges = [p \in Purges |-> Idle]

-----------------------------------------------------------------------------
(* The rows *)

Tick ==
    /\ clock < MaxClock
    /\ clock' = clock + 1
    /\ UNCHANGED <<rows, purgedJobs, purgedEvents, purges>>

\* When a transaction that commits now may have begun.
Start == {t \in 0 .. clock : clock - t <= MaxTransaction}

Enqueue(j) ==
    /\ status[j] = "absent"
    /\ status' = [status EXCEPT ![j] = "live"]
    /\ UNCHANGED <<clock, finished_at, created_at, purgedJobs, purgedEvents, purges>>

\* finished_at is now(), or clock_timestamp() for a cancellation.
EndsAt(s, now) == IF s = "cancelled" THEN now .. clock ELSE {now}

\* A job succeeds, fails, is cancelled or is failed by the recovery, and is traced:
\* created_at is DEFAULT now().
Finish(j, s) ==
    /\ status[j] = "live"
    /\ status' = [status EXCEPT ![j] = s]
    /\ \E now \in Start : \E t \in EndsAt(s, now) :
            /\ finished_at' = [finished_at EXCEPT ![j] = t]
            /\ created_at' = [created_at EXCEPT ![j] = now]
    /\ UNCHANGED <<clock, purgedJobs, purgedEvents, purges>>

-----------------------------------------------------------------------------
(* The purge *)

\* The clock of the worker is read once, when the handler starts.
BeginPurge(p, policy, skew) ==
    /\ purges[p].step = "idle"
    /\ ValidPolicy(policy)
    /\ purges' = [purges EXCEPT ![p] =
            [step |-> "succeeded", policy |-> policy, now |-> clock + skew]]
    /\ UNCHANGED <<clock, rows, purgedJobs, purgedEvents>>

\* LogIsASuffix: a selection without ORDER BY.
OldestFaulty(S, at, n) ==
    {T \in SUBSET S : Cardinality(T) = n \/ (T = S /\ Cardinality(S) < n)}

\* ORDER BY instant, id LIMIT n: n members of S, or all of them, such that none is left that
\* is older than one of them.  The ids are random, and break ties in any way.
Oldest(S, at, n) ==
    {T \in SUBSET S :
        /\ Cardinality(T) = n \/ (T = S /\ Cardinality(S) < n)
        /\ \A x \in T, y \in S \ T : at[x] <= at[y]}

\* What the statements of an attempt may select.  One that waits for that of another purge
\* has selected rows that are gone when it deletes them: what it saw counts in its limit.
ExpiredJobs(q, seen) ==
    {j \in (Jobs \ purgedJobs) \cup seen :
        status[j] = q.step /\ finished_at[j] < q.now - q.policy.jobs[q.step]}

ExpiredEvents(q, seen) ==
    {j \in (Jobs \ purgedEvents) \cup seen :
        created_at[j] # Never /\ created_at[j] < q.now - q.policy.audit_events}

\* purge_terminal_jobs; jobs_purge_terminal_only lets go what finished before the floor.
PurgeJobs(p) ==
    /\ purges[p].step \in TerminalStatus
    /\ \E seen \in SUBSET purgedJobs :
       \E chosen \in Oldest(ExpiredJobs(purges[p], seen), finished_at,
                            purges[p].policy.batch_limit) :
            purgedJobs' = purgedJobs \cup {j \in chosen : finished_at[j] < clock - PURGE_FLOOR}
    /\ purges' = [purges EXCEPT ![p].step = NextStep(purges[p].step)]
    /\ UNCHANGED <<clock, rows, purgedEvents>>

\* purge_expired_events; audit_events_retention_floor admits what is older than the floor.
\* Other events take a part of the limit: any smaller limit may apply.
PurgeEvents(p) ==
    /\ purges[p].step = "audit"
    /\ \E seen \in SUBSET purgedEvents, limit \in 0 .. purges[p].policy.batch_limit :
       \E chosen \in Oldest(ExpiredEvents(purges[p], seen), created_at, limit) :
            purgedEvents' = purgedEvents \cup
                {j \in chosen : created_at[j] < clock - AUDIT_FLOOR_DAYS}
    /\ purges' = [purges EXCEPT ![p].step = NextStep(purges[p].step)]
    /\ UNCHANGED <<clock, rows, purgedJobs>>

\* purge.completed is traced, or an exception or a crash ends the attempt before that;
\* the job is attempted again from the start, or another one comes.
EndPurge(p) ==
    /\ purges[p].step # "idle"
    /\ purges' = [purges EXCEPT ![p] = Idle]
    /\ UNCHANGED <<clock, rows, purgedJobs, purgedEvents>>

Next ==
    \/ Tick
    \/ \E j \in Jobs : Enqueue(j)
    \/ \E j \in Jobs, s \in TerminalStatus : Finish(j, s)
    \/ \E p \in Purges, policy \in Documents, skew \in -MaxSkew .. MaxSkew :
            BeginPurge(p, policy, skew)
    \/ \E p \in Purges : PurgeJobs(p) \/ PurgeEvents(p) \/ EndPurge(p)

Spec == Init /\ [][Next]_vars

-----------------------------------------------------------------------------
(* Properties *)

\* What the tables and the attempts hold; a row that is deleted was there before.
RetentionTypeOK ==
    /\ clock \in 0 .. MaxClock
    /\ status \in [Jobs -> {"absent", "live"} \cup TerminalStatus]
    /\ finished_at \in [Jobs -> Never .. MaxClock]
    /\ created_at \in [Jobs -> Never .. MaxClock]
    /\ \A j \in Jobs : finished_at[j] # Never <=> status[j] \in TerminalStatus
    /\ \A j \in Jobs : created_at[j] # Never <=> status[j] \in TerminalStatus
    /\ purgedJobs \subseteq {j \in Jobs : status[j] \in TerminalStatus}
    /\ purgedEvents \subseteq {j \in Jobs : status[j] \in TerminalStatus}
    /\ \A p \in Purges : purges[p].step # "idle" => ValidPolicy(purges[p].policy)

\* The audit log misses no event between two it shows: what was deleted is no younger than
\* anything that is left, and so it is for the finished jobs of each status.
LogIsASuffix ==
    /\ \A i \in purgedEvents, j \in Jobs :
            created_at[j] # Never /\ created_at[j] < created_at[i] => j \in purgedEvents
    /\ \A i \in purgedJobs, j \in Jobs :
            status[j] = status[i] /\ finished_at[j] < finished_at[i] => j \in purgedJobs

\* When the event that tells how a job ended is gone and the row of the job is still there,
\* a purge deleted a whole batch of jobs that ended no later than it, in the same way: only
\* a backlog, or a tie at the end of a batch, leaves a row without its history, although
\* rows and events go by different statements, limits and cut-offs, of purges that overlap
\* and stop half way.  A cancellation is dated after its event, and may fall between the
\* two cut-offs if they are the same day.
LeftByAFullBatch ==
    \A j \in Jobs \ purgedJobs :
        /\ j \in purgedEvents
        /\ finished_at[j] = created_at[j]
        => \E d \in Documents :
                /\ ValidPolicy(d)
                /\ Cardinality({i \in purgedJobs : /\ status[i] = status[j]
                                                 /\ finished_at[i] <= finished_at[j]}) >= d.batch_limit
=============================================================================
