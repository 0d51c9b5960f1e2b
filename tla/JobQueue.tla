------------------------------ MODULE JobQueue ------------------------------
(***************************************************************************)
(* The durable job queue: the rows of one organization in the table "jobs",*)
(* the functions of persistence/jobs.py that change them, and the records  *)
(* (JobRecord) those functions hand to workers.                            *)
(*                                                                         *)
(* Every function of jobs.py changes the table in one transaction, by      *)
(* statements whose WHERE clause is evaluated under the row lock, so each  *)
(* is one action.  Enqueueing a known key is the exception: its INSERT and *)
(* its SELECT are two statements under READ COMMITTED, hence two actions.  *)
(*                                                                         *)
(* Workers are the most general clients: a worker may use any record it    *)
(* ever received, at any time and any number of times.  That covers a      *)
(* stalled process that wakes up, a call retried after a lost answer, two  *)
(* threads of one process, and a crash (a record never used again).        *)
(*                                                                         *)
(* Instants are kept as durations relative to the database clock, so that  *)
(* the clock needs no bound: "lease" is lease_expires_at - now(), "wait"   *)
(* is available_at - now(), "age" is now() - finished_at.  They saturate   *)
(* where no code distinguishes larger values.                              *)
(*                                                                         *)
(* An operator whose name ends in Faulty, Partly or Untraced is not part   *)
(* of the model: it is a plausible mistake in the operator that follows,   *)
(* kept to show that the property named beside it would catch the mistake. *)
(***************************************************************************)
EXTENDS Integers, FiniteSets, Sequences

CONSTANTS
    MaxJobs,        \* bound: rows ever inserted; a job is named by its creation rank
    Worker,         \* worker identities (locked_by)
    Nobody,         \* SQL NULL in locked_by
    Kind,           \* job types
    Serves,         \* Serves[w]: the job types worker w claims
    Key,            \* idempotency keys; a key stands for the pair (job_type, key)
    NoKey,          \* SQL NULL in idempotency_key
    Priority,       \* the priorities jobs are enqueued with
    MaxAttempts,    \* the largest max_attempts a job is enqueued with
    StartDelays,    \* the delays (available_at - now()) jobs are enqueued with
    Lease,          \* lease_seconds, in clock ticks
    MaxLease,       \* MAX_LEASE_SECONDS, one day, in clock ticks
    BackoffBase, BackoffCap,    \* in clock ticks
    PurgeFloor,     \* the hour before which no finished row may be deleted
    MaxLocked       \* bound: eligible rows other transactions hold locked at a claim

Job == 1 .. MaxJobs

ASSUME QueueAssumption ==
    /\ MaxJobs \in Nat \ {0}
    /\ Nobody \notin Worker
    /\ NoKey \notin Key
    /\ Priority \subseteq Int
    /\ Serves \in [Worker -> SUBSET Kind]
    /\ MaxAttempts \in Nat \ {0}
    /\ StartDelays \subseteq Nat
    /\ Lease \in Nat \ {0} /\ MaxLease \in Nat /\ Lease <= MaxLease
    /\ BackoffBase \in Nat \ {0}
    /\ BackoffCap \in Nat /\ BackoffCap >= BackoffBase
    /\ PurgeFloor \in Nat
    /\ MaxLocked \in Nat

VARIABLES
    jobs,       \* jobs[j]: the columns of row j that an UPDATE may change
    request,    \* request[j]: the columns of row j that only the INSERT writes
    records,    \* the JobRecords claims handed to workers
    trail,      \* trail[j]: the audit events of job j, oldest first
    replays     \* keys whose INSERT met a conflict and whose SELECT is to come

queueVars == <<jobs, request, records, trail, replays>>

-----------------------------------------------------------------------------
(* Rows *)

TERMINAL_STATUSES == {"succeeded", "failed", "cancelled"}

\* "absent": not inserted yet; "purged": deleted.  Neither is a row of the table.
Status == {"absent", "queued", "running", "purged"} \cup TERMINAL_STATUSES
Present(row) == row.status \notin {"absent", "purged"}

ErrorCode == {"none", "handler_error", "lease_expired", "worker_shutdown"}

Row == [status : Status, attempts : Nat, locked_by : Worker \cup {Nobody},
        lease : Int, wait : Int, age : Nat, code : ErrorCode]

\* "lease", "wait" and "age" are 0 while the status gives them no meaning.
NoRow(status, attempts) ==
    [status |-> status, attempts |-> attempts, locked_by |-> Nobody,
     lease |-> 0, wait |-> 0, age |-> 0, code |-> "none"]

Request == [kind : Kind \cup {Nobody}, key : Key \cup {NoKey}, priority : Int,
            max_attempts : Nat]

NoRequest == [kind |-> Nobody, key |-> NoKey, priority |-> 0, max_attempts |-> 0]

Absent == NoRow("absent", 0)

\* A JobRecord as its holder keeps it: the attempt is (locked_by, attempts).
JobRecord == [job : Job, by : Worker, attempts : Nat, max_attempts : Nat]

Event == [act : {"enqueued", "claimed", "succeeded", "failed", "requeued", "recovered",
                 "cancelled"},
          attempts : Nat, to : Status, by : Worker \cup {Nobody}]

\* The event a TransitionHook writes in the transaction that produced "row".
EventOf(act, row, w) == [act |-> act, attempts |-> row.attempts, to |-> row.status, by |-> w]

Init ==
    /\ jobs = [j \in Job |-> Absent]
    /\ request = [j \in Job |-> NoRequest]
    /\ records = {}
    /\ trail = [j \in Job |-> <<>>]
    /\ replays = {}

-----------------------------------------------------------------------------
(* Enqueueing *)

KeyTaken(k) == \E j \in Job : Present(jobs[j]) /\ request[j].key = k

QueuedRow(d) == [Absent EXCEPT !.status = "queued", !.wait = d]

\* TableConstraints: the conflict clause is forgotten.
EnqueueJobFaulty(kind, k, p, m, d) ==
    /\ \E j \in Job :
        /\ jobs[j].status = "absent"
        /\ \A i \in 1 .. (j - 1) : jobs[i].status # "absent"
        /\ jobs' = [jobs EXCEPT ![j] = QueuedRow(d)]
        /\ request' = [request EXCEPT ![j] = [kind |-> kind, key |-> k, priority |-> p,
                                               max_attempts |-> m]]
        /\ trail' = [trail EXCEPT ![j] = Append(@, EventOf("enqueued", QueuedRow(d), Nobody))]
    /\ UNCHANGED <<records, replays>>

\* INSERT ... ON CONFLICT DO NOTHING inserts the next row, and the hook traces it.
EnqueueJob(kind, k, p, m, d) ==
    /\ k # NoKey => ~KeyTaken(k)
    /\ \E j \in Job :
        /\ jobs[j].status = "absent"
        /\ \A i \in 1 .. (j - 1) : jobs[i].status # "absent"
        /\ jobs' = [jobs EXCEPT ![j] = QueuedRow(d)]
        /\ request' = [request EXCEPT ![j] = [kind |-> kind, key |-> k, priority |-> p,
                                               max_attempts |-> m]]
        /\ trail' = [trail EXCEPT ![j] = Append(@, EventOf("enqueued", QueuedRow(d), Nobody))]
    /\ UNCHANGED <<records, replays>>

\* The INSERT meets the unique index: nothing is written, the SELECT comes next.
EnqueueConflict(k) ==
    /\ k \notin replays
    /\ KeyTaken(k)
    /\ replays' = replays \cup {k}
    /\ UNCHANGED <<jobs, request, records, trail>>

\* The SELECT answers with the existing row (or raises when there is none).
EnqueueReplay(k) ==
    /\ k \in replays
    /\ replays' = replays \ {k}
    /\ UNCHANGED <<jobs, request, records, trail>>

-----------------------------------------------------------------------------
(* Claiming *)

Claimable(j, w) ==
    /\ jobs[j].status = "queued"
    /\ jobs[j].wait = 0
    /\ request[j].kind \in Serves[w]
    /\ jobs[j].attempts < request[j].max_attempts

\* ORDER BY priority DESC, created_at ASC
Before(i, j) ==
    \/ request[i].priority > request[j].priority
    \/ request[i].priority = request[j].priority /\ i < j

Locked(row, w, lease) == [row EXCEPT !.locked_by = w, !.lease = lease]

ClaimedRow(row, w) == [Locked(row, w, Lease) EXCEPT !.status = "running", !.attempts = @ + 1]

\* FOR UPDATE SKIP LOCKED LIMIT 1: the first eligible row no other transaction holds.
ClaimNextJob(w) ==
    \E j \in Job :
        /\ Claimable(j, w)
        /\ Cardinality({i \in Job : Claimable(i, w) /\ Before(i, j)}) <= MaxLocked
        /\ LET row == ClaimedRow(jobs[j], w)
           IN  /\ jobs' = [jobs EXCEPT ![j] = row]
               /\ records' = records \cup {[job |-> j, by |-> w, attempts |-> row.attempts,
                                            max_attempts |-> request[j].max_attempts]}
               /\ trail' = [trail EXCEPT ![j] = Append(@, EventOf("claimed", row, w))]
        /\ UNCHANGED <<request, replays>>

-----------------------------------------------------------------------------
(* What the bearer of a record may do *)

\* StaleRecordsAreFenced: the holder is checked, the attempt is not.
OwnsFaulty(c) ==
    /\ jobs[c.job].status = "running"
    /\ jobs[c.job].locked_by = c.by

\* WHERE status = 'running' AND locked_by = holder AND attempts = job.attempts
Owns(c) ==
    /\ jobs[c.job].status = "running"
    /\ jobs[c.job].locked_by = c.by
    /\ jobs[c.job].attempts = c.attempts

Larger(a, b) == IF a >= b THEN a ELSE b
Smaller(a, b) == IF a <= b THEN a ELSE b

RenewedRow(row) == [row EXCEPT !.lease = Larger(@, Lease)]

\* A lease that has run out is never renewed; a renewal is not audited.
RenewLease(c) ==
    /\ Owns(c)
    /\ jobs[c.job].lease > 0
    /\ jobs' = [jobs EXCEPT ![c.job] = RenewedRow(@)]
    /\ UNCHANGED <<request, records, trail, replays>>

\* Common to every statement that ends an attempt.
Unlocked(row) == Locked(row, Nobody, 0)

SucceededRow(row) ==
    [Unlocked(row) EXCEPT !.status = "succeeded", !.code = "none"]

FailedRow(row, code) == [Unlocked(row) EXCEPT !.status = "failed", !.code = code]

RequeuedRow(row, delay, code) ==
    [Unlocked(row) EXCEPT !.status = "queued", !.wait = delay, !.code = code]

\* The UPDATE of one row and its audit event.
Write(j, row, act, w) ==
    /\ jobs' = [jobs EXCEPT ![j] = row]
    /\ trail' = [trail EXCEPT ![j] = Append(@, EventOf(act, row, w))]
    /\ UNCHANGED <<request, records, replays>>

MarkSucceeded(c) ==
    /\ Owns(c)
    /\ Write(c.job, SucceededRow(jobs[c.job]), "succeeded", c.by)

backoff_seconds(n) == Smaller(BackoffCap, BackoffBase * 2^(n - 1))

Requeue(c, delay, code) ==
    /\ Owns(c)
    /\ Write(c.job, RequeuedRow(jobs[c.job], delay, code), "requeued", c.by)

\* StrandedOnlyByForcedStop: a retryable failure is requeued on the last attempt too.
MarkFailedFaulty(c, retryable) ==
    IF retryable
    THEN Requeue(c, backoff_seconds(c.attempts), "handler_error")
    ELSE /\ Owns(c)
         /\ Write(c.job, FailedRow(jobs[c.job], "handler_error"), "failed", c.by)

\* The attempts left are read from the caller's record, not from the row.
MarkFailed(c, retryable) ==
    IF retryable /\ c.attempts < c.max_attempts
    THEN Requeue(c, backoff_seconds(c.attempts), "handler_error")
    ELSE /\ Owns(c)
         /\ Write(c.job, FailedRow(jobs[c.job], "handler_error"), "failed", c.by)

\* The forced stop of a worker: LeaseKeeper.release calls requeue with no delay.
ForceRelease(c) == Requeue(c, 0, "worker_shutdown")

-----------------------------------------------------------------------------
(* Cancellation, recovery, purge, time *)

CancelledRow(row) == [row EXCEPT !.status = "cancelled"]

\* KeepsPromise: a running job can be cancelled under its holder.
CancelJobFaulty(j) ==
    /\ jobs[j].status \in {"queued", "running"}
    /\ Write(j, CancelledRow(jobs[j]), "cancelled", Nobody)

CancelJob(j) ==
    /\ jobs[j].status = "queued"
    /\ Write(j, CancelledRow(jobs[j]), "cancelled", Nobody)

\* LeaseProtectsHolder: a lease ends one instant too early.
ExpiredFaulty(row) == row.status = "running" /\ row.lease <= 0

\* lease_expires_at < now()
Expired(row) == row.status = "running" /\ row.lease < 0

\* TriggerAccepts: the exhausted job keeps the code of its last failure.
RecoveredRowFaulty(row, budget) ==
    IF row.attempts < budget
    THEN RequeuedRow(row, 0, "lease_expired")
    ELSE FailedRow(row, row.code)

RecoveredRow(row, budget) ==
    IF row.attempts < budget
    THEN RequeuedRow(row, 0, "lease_expired")
    ELSE FailedRow(row, "lease_expired")

Recovered(j) == RecoveredRow(jobs[j], request[j].max_attempts)

\* EveryJobEnds (WorkerAttempt): the jobs without attempts left are not recovered.
RecoverStaleJobsPartly ==
    \E S \in SUBSET {j \in Job : Expired(jobs[j])
                                /\ jobs[j].attempts < request[j].max_attempts} :
        /\ S # {}
        /\ jobs' = [j \in Job |-> IF j \in S THEN Recovered(j) ELSE jobs[j]]
        /\ trail' = [j \in Job |->
                        IF j \in S
                        THEN Append(trail[j], EventOf("recovered", Recovered(j), Nobody))
                        ELSE trail[j]]
        /\ UNCHANGED <<request, records, replays>>

\* TrailTellsTheStory: the recovery is not traced in its transaction.
RecoverStaleJobsUntraced ==
    \E S \in SUBSET {j \in Job : Expired(jobs[j])} :
        /\ S # {}
        /\ jobs' = [j \in Job |-> IF j \in S THEN Recovered(j) ELSE jobs[j]]
        /\ UNCHANGED <<request, records, trail, replays>>

\* One transaction recovers the expired rows that its LIMIT admits and that no
\* other transaction holds locked: any non-empty set of them.
RecoverStaleJobs ==
    \E S \in SUBSET {j \in Job : Expired(jobs[j])} :
        /\ S # {}
        /\ jobs' = [j \in Job |-> IF j \in S THEN Recovered(j) ELSE jobs[j]]
        /\ trail' = [j \in Job |->
                        IF j \in S
                        THEN Append(trail[j], EventOf("recovered", Recovered(j), Nobody))
                        ELSE trail[j]]
        /\ UNCHANGED <<request, records, replays>>

Purgeable(row) == row.status \in TERMINAL_STATUSES /\ row.age > PurgeFloor

\* The caller's statuses, its cut-off and the batch limit select the rows; the
\* restrictive policy jobs_purge_terminal_only bounds what they can select.
PurgeTerminalJobs ==
    \E S \in SUBSET {j \in Job : Purgeable(jobs[j])} :
        /\ S # {}
        /\ jobs' = [j \in Job |-> IF j \in S THEN NoRow("purged", jobs[j].attempts) ELSE jobs[j]]
        /\ request' = [j \in Job |-> IF j \in S THEN NoRequest ELSE request[j]]
        /\ UNCHANGED <<records, trail, replays>>

Older(row) ==
    [row EXCEPT !.lease = IF row.status = "running" THEN Larger(@ - 1, -1) ELSE @,
                !.wait = IF row.status = "queued" THEN Larger(@ - 1, 0) ELSE @,
                !.age = IF row.status \in TERMINAL_STATUSES THEN Smaller(@ + 1, PurgeFloor + 1)
                        ELSE @]

Tick ==
    /\ jobs' = [j \in Job |-> Older(jobs[j])]
    /\ UNCHANGED <<request, records, trail, replays>>

-----------------------------------------------------------------------------
Enqueue ==
    \/ \E kind \in Kind, k \in Key \cup {NoKey}, p \in Priority, m \in 1 .. MaxAttempts,
          d \in StartDelays : EnqueueJob(kind, k, p, m, d)
    \/ \E k \in Key : EnqueueConflict(k)
    \/ \E k \in Key : EnqueueReplay(k)

UseRecord(c) ==
    \/ RenewLease(c)
    \/ MarkSucceeded(c)
    \/ \E retryable \in BOOLEAN : MarkFailed(c, retryable)
    \/ ForceRelease(c)

Next ==
    \/ Enqueue
    \/ \E w \in Worker : ClaimNextJob(w)
    \/ \E c \in records : UseRecord(c)
    \/ \E j \in Job : CancelJob(j)
    \/ RecoverStaleJobs
    \/ PurgeTerminalJobs
    \/ Tick

Spec == Init /\ [][Next]_queueVars

-----------------------------------------------------------------------------
(* The trigger jobs_guard_transition, as revision 0006 leaves it.  It is a  *)
(* second line of defence: jobs.py declares a token, or the instant of a    *)
(* recovery, and the trigger refuses an UPDATE they do not justify.  The    *)
(* actions above do not consult it; TriggerAccepts says they need not.  The *)
(* columns it calls the identity of a job are those of "request".           *)

NoToken == <<0, Nobody>>
TokenOf(c) == <<c.attempts, c.by>>

GuardTransition(old, new, token, recovering) ==
    /\ \/ old.status = "queued" /\ new.status \in {"queued", "running", "cancelled"}
       \/ old.status = "running" /\ new.status \in {"running", "succeeded", "failed", "queued"}
    /\ IF old.status = "queued" /\ new.status = "running"
       THEN new.attempts = old.attempts + 1 /\ new.lease > 0
       ELSE new.attempts = old.attempts
    /\ old.status = "running" =>
        LET holder == token = <<old.attempts, old.locked_by>>
        IN  IF new.status = "running"
            THEN /\ holder
                 /\ new = [old EXCEPT !.lease = new.lease]
                 /\ old.lease > 0
                 /\ new.lease >= old.lease
                 /\ new.lease <= Larger(old.lease, MaxLease)
            ELSE holder \/ /\ recovering /\ old.lease < 0
                           /\ new.status # "succeeded" /\ new.code = "lease_expired"

-----------------------------------------------------------------------------
(* Properties *)

TypeOK ==
    /\ jobs \in [Job -> Row]
    /\ request \in [Job -> Request]
    /\ records \in SUBSET JobRecord
    /\ trail \in [Job -> Seq(Event)]
    /\ replays \in SUBSET Key

\* No reachable row breaks a CHECK or UNIQUE constraint of migration 0004, so no
\* statement of jobs.py is ever refused by one: attempts stay within the budget,
\* a row is locked exactly while it runs, and a key names one row.
TableConstraints ==
    /\ \A j \in Job : Present(jobs[j]) =>
        /\ request[j].max_attempts \in 1 .. MaxAttempts
        /\ jobs[j].attempts <= request[j].max_attempts
    /\ \A j \in Job :
        /\ jobs[j].status = "running" <=> jobs[j].locked_by # Nobody
        /\ jobs[j].lease <= Lease
    /\ \A i, j \in Job :
        Present(jobs[i]) /\ Present(jobs[j]) /\ request[i].key = request[j].key /\ request[i].key # NoKey
            => i = j

\* Fencing.  However many records of a job are still in the hands of workers, also
\* of one worker that claimed the job twice, at most one of them can change the
\* row, and it is the record of the latest claim.
StaleRecordsAreFenced ==
    \A c, d \in records :
        Owns(c) /\ d.job = c.job /\ d # c => ~Owns(d) /\ d.attempts < c.attempts

\* What may follow an event in the audit trail of a job: a claim is closed once, by
\* the worker that made it or by a recovery, and nothing follows a verdict.
Follows(e, f) ==
    \/ /\ e.to = "queued" /\ f.act = "claimed" /\ f.to = "running"
       /\ f.attempts = e.attempts + 1
    \/ /\ e.to = "queued" /\ f.act = "cancelled" /\ f.to = "cancelled"
       /\ f.attempts = e.attempts
    \/ /\ e.to = "running" /\ f.attempts = e.attempts
       /\ \/ f.act \in {"succeeded", "failed"} /\ f.to = f.act /\ f.by = e.by
          \/ f.act = "requeued" /\ f.to = "queued" /\ f.by = e.by
          \/ f.act = "recovered" /\ f.to \in {"queued", "failed"} /\ f.by = Nobody

Latest(j) == trail[j][Len(trail[j])]

\* The audit trail, written in the transactions that change the rows, is a complete
\* and legal history of every job, and its last event describes the row.
TrailTellsTheStory ==
    \A j \in Job :
        /\ trail[j] = <<>> <=> jobs[j].status = "absent"
        /\ \A i \in 1 .. (Len(trail[j]) - 1) : Follows(trail[j][i], trail[j][i + 1])
        /\ trail[j] # <<>> => trail[j][1].act = "enqueued" /\ trail[j][1].attempts = 0
        /\ Present(jobs[j]) =>
            /\ Latest(j).to = jobs[j].status
            /\ Latest(j).attempts = jobs[j].attempts
            /\ jobs[j].status = "running" => Latest(j).by = jobs[j].locked_by
        /\ jobs[j].status = "purged" => Latest(j).to \in TERMINAL_STATUSES

\* The two descriptions of the state machine agree: whatever the WHERE clauses of
\* jobs.py let through, the trigger of revision 0006 accepts.
TriggerAccepts ==
    /\ \A j \in Job, w \in Worker : Claimable(j, w) =>
        GuardTransition(jobs[j], ClaimedRow(jobs[j], w), NoToken, FALSE)
    /\ \A j \in Job : jobs[j].status = "queued" =>
        GuardTransition(jobs[j], CancelledRow(jobs[j]), NoToken, FALSE)
    /\ \A j \in Job : Expired(jobs[j]) =>
        GuardTransition(jobs[j], Recovered(j), NoToken, TRUE)
    /\ \A c \in records : Owns(c) =>
        LET old == jobs[c.job]
        IN  /\ old.lease > 0 => GuardTransition(old, RenewedRow(old), TokenOf(c), FALSE)
            /\ GuardTransition(old, SucceededRow(old), TokenOf(c), FALSE)
            /\ GuardTransition(old, FailedRow(old, "handler_error"), TokenOf(c), FALSE)
            /\ \A d \in {0, BackoffCap}, code \in {"handler_error", "worker_shutdown"} :
                GuardTransition(old, RequeuedRow(old, d, code), TokenOf(c), FALSE)

\* While its lease has not run out, nobody but the holder ends an attempt.
LeaseProtectsHolder ==
    [][\A j \in Job :
        jobs[j].status = "running" /\ jobs[j].lease >= 0 /\ jobs'[j].status # "running"
            => trail'[j][Len(trail'[j])].by = jobs[j].locked_by]_queueVars

\* A queued job that no worker can claim any more has been given back, on its last
\* attempt, by a worker that was forced to stop; no other path leads there.
Stranded(j) ==
    jobs[j].status = "queued" /\ jobs[j].attempts >= request[j].max_attempts

StrandedOnlyByForcedStop == \A j \in Job : Stranded(j) => jobs[j].code = "worker_shutdown"

\* A running job goes back to the queue with attempts left (documented table of
\* transitions); the code does not keep this on a forced stop.
RequeuedWithAttemptsLeft == \A j \in Job : ~Stranded(j)

\* A conflicting key always names a visible row; a purge between the two statements
\* of enqueue_job breaks this.
ReplayFindsItsJob == \A k \in replays : KeyTaken(k)

\* The queue implements the promise: the lock is the right to publish.
Promise == INSTANCE JobPromise WITH
    right <- [j \in Job |-> jobs[j].locked_by],
    spent <- [j \in Job |-> jobs[j].attempts],
    verdict <- [j \in Job |->
        CASE jobs[j].status = "absent" -> "unknown"
          [] jobs[j].status \in {"queued", "running"} -> "open"
          [] jobs[j].status = "purged" -> "forgotten"
          [] OTHER -> jobs[j].status]

KeepsPromise == Promise!PromiseSpec
=============================================================================
