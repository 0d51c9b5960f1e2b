--------------------------- MODULE JobQueueProofs ---------------------------
(***************************************************************************)
(* What holds of the job queue for any number of jobs, workers and keys,   *)
(* any lease and any back-off, with the most general client; then what     *)
(* holds of the worker processes.  They use the table only through the     *)
(* functions of persistence/jobs.py, so what is proved of the queue holds  *)
(* of them too; beyond that, a worker's local deadline never outlives its  *)
(* lease, and it reports no publication that is not in the audit trail.    *)
(***************************************************************************)
EXTENDS WorkerAttempt, TLAPS

-----------------------------------------------------------------------------
(* Rows: their types, and what each statement of jobs.py does to one. *)

\* The type of each column of a row.
LEMMA ColumnTypes ==
    ASSUME NEW row \in Row
    PROVE  /\ row.status \in Status /\ row.attempts \in Nat
           /\ row.locked_by \in Worker \cup {Nobody}
           /\ row.lease \in Int /\ row.wait \in Int /\ row.age \in Nat
           /\ row.code \in ErrorCode
BY DEF Row

\* Setting the holder and the lease of a row keeps it a row.
LEMMA LockedType ==
    ASSUME NEW row \in Row, NEW w \in Worker \cup {Nobody}, NEW l \in Int
    PROVE  Locked(row, w, l) \in Row
BY DEF Row, Locked

\* So does every other assignment of columns that the statements make.
LEMMA UpdateTypes ==
    ASSUME NEW row \in Row
    PROVE  /\ \A s \in Status : [row EXCEPT !.status = s] \in Row
           /\ \A s \in Status, n \in Nat : [row EXCEPT !.status = s, !.attempts = n] \in Row
           /\ \A s \in Status, i \in Int : [row EXCEPT !.status = s, !.wait = i] \in Row
           /\ \A l \in Int : [row EXCEPT !.lease = l] \in Row
           /\ \A s \in Status, c \in ErrorCode :
                 [row EXCEPT !.status = s, !.code = c] \in Row
           /\ \A s \in Status, i \in Int, c \in ErrorCode :
                 [row EXCEPT !.status = s, !.wait = i, !.code = c] \in Row
           /\ \A l \in Int, i \in Int, a \in Nat :
                 [row EXCEPT !.lease = l, !.wait = i, !.age = a] \in Row
BY DEF Row

\* The exponential back-off is an integer whatever the attempt.
LEMMA BackoffType == ASSUME NEW n \in Nat PROVE backoff_seconds(n) \in Int
BY QueueAssumption DEF backoff_seconds, Smaller

\* An inserted row is a row; so are the place of a row not inserted, and its request.
LEMMA InsertTypes ==
    ASSUME NEW kind \in Kind, NEW k \in Key \cup {NoKey}, NEW p \in Priority,
           NEW m \in 1 .. MaxAttempts, NEW d \in StartDelays
    PROVE  /\ QueuedRow(d) \in Row
           /\ [kind |-> kind, key |-> k, priority |-> p, max_attempts |-> m] \in Request
<1>1. Absent \in Row /\ d \in Int /\ "queued" \in Status
  BY QueueAssumption DEF Absent, NoRow, Row, Status, ErrorCode
<1>2. QueuedRow(d) \in Row
  BY <1>1, UpdateTypes DEF QueuedRow
<1>3. QED
  BY <1>2, QueueAssumption DEF Request

\* What claim_next_job and the heartbeat write.
LEMMA HeldRows ==
    ASSUME NEW row \in Row, NEW w \in Worker
    PROVE  /\ ClaimedRow(row, w) \in Row
           /\ ClaimedRow(row, w).status = "running"
           /\ ClaimedRow(row, w).attempts = row.attempts + 1
           /\ ClaimedRow(row, w).locked_by = w
           /\ ClaimedRow(row, w).lease = Lease
           /\ RenewedRow(row) \in Row
           /\ RenewedRow(row) = [row EXCEPT !.lease = Larger(row.lease, Lease)]
<1>1. Lease \in Int /\ "running" \in Status
  BY QueueAssumption DEF Status
<1>2. Locked(row, w, Lease) \in Row
  BY <1>1, LockedType
<1>3. Locked(row, w, Lease).attempts + 1 \in Nat
  BY <1>2, ColumnTypes
<1>4. ClaimedRow(row, w) \in Row
  BY <1>1, <1>2, <1>3, UpdateTypes DEF ClaimedRow
<1>5. /\ ClaimedRow(row, w).status = "running"
      /\ ClaimedRow(row, w).attempts = row.attempts + 1
      /\ ClaimedRow(row, w).locked_by = w
      /\ ClaimedRow(row, w).lease = Lease
  BY DEF ClaimedRow, Locked, Row
<1>6. Larger(row.lease, Lease) \in Int
  BY <1>1, ColumnTypes DEF Larger
<1>7. RenewedRow(row) = [row EXCEPT !.lease = Larger(row.lease, Lease)]
  BY DEF RenewedRow, Row
<1>8. RenewedRow(row) \in Row
  BY <1>6, <1>7, UpdateTypes
<1>9. QED
  BY <1>4, <1>5, <1>7, <1>8

\* What a row is after a statement that releases it or keeps it free: an attempt that
\* ends, a cancellation, a recovery.  "free" names the facts the proofs below need.
Free(row, new, code) ==
    /\ new \in Row
    /\ new.attempts = row.attempts
    /\ new.locked_by = Nobody
    /\ new.lease = 0
    /\ new.code = code

\* What the three functions that end an attempt write.
LEMMA FreedRows ==
    ASSUME NEW row \in Row, NEW code \in ErrorCode, NEW d \in Int
    PROVE  /\ Free(row, SucceededRow(row), "none") /\ SucceededRow(row).status = "succeeded"
           /\ Free(row, FailedRow(row, code), code) /\ FailedRow(row, code).status = "failed"
           /\ Free(row, RequeuedRow(row, d, code), code)
           /\ RequeuedRow(row, d, code).status = "queued"
<1>1. Unlocked(row) \in Row
  BY LockedType DEF Unlocked
<1>2. /\ Unlocked(row).attempts = row.attempts
      /\ Unlocked(row).locked_by = Nobody
      /\ Unlocked(row).lease = 0
  BY DEF Unlocked, Locked, Row
<1>3. "none" \in ErrorCode /\ {"succeeded", "failed", "queued"} \subseteq Status
  BY DEF ErrorCode, Status, TERMINAL_STATUSES
<1>4. /\ SucceededRow(row) \in Row
      /\ FailedRow(row, code) \in Row
      /\ RequeuedRow(row, d, code) \in Row
  BY <1>1, <1>3, UpdateTypes DEF SucceededRow, FailedRow, RequeuedRow
<1>5. Free(row, SucceededRow(row), "none") /\ SucceededRow(row).status = "succeeded"
  BY <1>1, <1>2, <1>4 DEF SucceededRow, Free, Row
<1>6. Free(row, FailedRow(row, code), code) /\ FailedRow(row, code).status = "failed"
  BY <1>1, <1>2, <1>4 DEF FailedRow, Free, Row
<1>7. /\ Free(row, RequeuedRow(row, d, code), code)
      /\ RequeuedRow(row, d, code).status = "queued"
  BY <1>1, <1>2, <1>4 DEF RequeuedRow, Free, Row
<1>8. QED
  BY <1>5, <1>6, <1>7

\* A recovery gives the row back, or fails it when its attempts are spent.
LEMMA RecoveredRows ==
    ASSUME NEW row \in Row, NEW budget \in Nat
    PROVE  /\ Free(row, RecoveredRow(row, budget), "lease_expired")
           /\ RecoveredRow(row, budget).status =
                IF row.attempts < budget THEN "queued" ELSE "failed"
<1>1. "lease_expired" \in ErrorCode
  BY DEF ErrorCode
<1>2. CASE row.attempts < budget
  BY <1>1, <1>2, FreedRows DEF RecoveredRow
<1>3. CASE ~(row.attempts < budget)
  BY <1>1, <1>3, FreedRows DEF RecoveredRow
<1>4. QED
  BY <1>2, <1>3

\* A cancellation changes the status and nothing else; so does a purge, but for the
\* attempts, which stay; the clock changes none of the columns below.
LEMMA OtherRows ==
    ASSUME NEW row \in Row
    PROVE  /\ CancelledRow(row) \in Row
           /\ CancelledRow(row) = [row EXCEPT !.status = "cancelled"]
           /\ NoRow("purged", row.attempts) \in Row
           /\ Older(row) \in Row
           /\ Older(row).status = row.status /\ Older(row).attempts = row.attempts
           /\ Older(row).locked_by = row.locked_by /\ Older(row).code = row.code
           /\ Older(row).lease <= row.lease \/ Older(row).lease = -1
<1>1. CancelledRow(row) \in Row
  BY UpdateTypes DEF CancelledRow, Status, TERMINAL_STATUSES
<1>2. NoRow("purged", row.attempts) \in Row
  BY DEF NoRow, Row, Status, ErrorCode
<1>3. /\ Larger(row.lease - 1, -1) \in Int
      /\ Larger(row.lease - 1, -1) <= row.lease \/ Larger(row.lease - 1, -1) = -1
      /\ Larger(row.wait - 1, 0) \in Int
      /\ Smaller(row.age + 1, PurgeFloor + 1) \in Nat
  BY QueueAssumption, ColumnTypes DEF Larger, Smaller
<1> DEFINE lease == IF row.status = "running" THEN Larger(row.lease - 1, -1) ELSE row.lease
           wait == IF row.status = "queued" THEN Larger(row.wait - 1, 0) ELSE row.wait
           age == IF row.status \in TERMINAL_STATUSES
                  THEN Smaller(row.age + 1, PurgeFloor + 1) ELSE row.age
<1>4. lease \in Int /\ wait \in Int /\ age \in Nat /\ (lease <= row.lease \/ lease = -1)
  BY <1>3, ColumnTypes
<1>5. Older(row) = [row EXCEPT !.lease = lease, !.wait = wait, !.age = age]
  BY DEF Older, Row
<1> HIDE DEF lease, wait, age
<1>6. Older(row) \in Row
  <2>1. [row EXCEPT !.lease = lease, !.wait = wait, !.age = age] \in Row
    BY <1>4, UpdateTypes
  <2>2. QED
    BY <1>5, <2>1, Zenon
<1>7. /\ Older(row).status = row.status /\ Older(row).attempts = row.attempts
      /\ Older(row).locked_by = row.locked_by /\ Older(row).code = row.code
      /\ Older(row).lease = lease
  BY <1>5 DEF Row
<1>8. QED
  BY <1>1, <1>2, <1>4, <1>6, <1>7 DEF CancelledRow

-----------------------------------------------------------------------------
(* Type correctness. *)

Acts == {"enqueued", "claimed", "succeeded", "failed", "requeued", "recovered", "cancelled"}

\* What a TransitionHook appends to the trail of a job leaves a trail.
LEMMA TrailType ==
    ASSUME TypeOK, NEW j \in Job, NEW row \in Row, NEW w \in Worker \cup {Nobody},
           NEW act \in Acts
    PROVE  Append(trail[j], EventOf(act, row, w)) \in Seq(Event)
<1>1. EventOf(act, row, w) \in Event
  BY ColumnTypes DEF EventOf, Event, Acts
<1>2. QED
  BY <1>1 DEF TypeOK

\* The UPDATE of one row, with its event, keeps the types.
LEMMA WriteType ==
    ASSUME TypeOK, NEW j \in Job, NEW row \in Row, NEW w \in Worker \cup {Nobody},
           NEW act \in Acts, Write(j, row, act, w)
    PROVE  TypeOK'
<1>1. Append(trail[j], EventOf(act, row, w)) \in Seq(Event)
  BY TrailType
<1>2. jobs' \in [Job -> Row] /\ trail' \in [Job -> Seq(Event)]
  BY <1>1 DEF TypeOK, Write
<1>3. QED
  BY <1>2 DEF TypeOK, Write

\* What a step that ends an attempt writes: the worker that owns the row frees it.
Ended(c, act, new) ==
    /\ Owns(c)
    /\ \/ act = "succeeded" /\ new.status = "succeeded" /\ Free(jobs[c.job], new, "none")
       \/ act = "failed" /\ new.status = "failed" /\ Free(jobs[c.job], new, "handler_error")
       \/ /\ act = "requeued" /\ new.status = "queued"
          /\ \/ Free(jobs[c.job], new, "handler_error") /\ c.attempts < c.max_attempts
             \/ Free(jobs[c.job], new, "worker_shutdown")
    /\ Write(c.job, new, act, c.by)

\* The three functions that end an attempt, and the forced stop, are such steps.
LEMMA EndedSteps ==
    ASSUME TypeOK, NEW c \in records
    PROVE  MarkSucceeded(c) \/ (\E r \in BOOLEAN : MarkFailed(c, r)) \/ ForceRelease(c)
             => \E act \in Acts, new \in Row : Ended(c, act, new)
<1> DEFINE row == jobs[c.job]
<1>0. c \in JobRecord /\ c.job \in Job /\ c.attempts \in Nat /\ row \in Row
  BY DEF TypeOK, JobRecord
<1> DEFINE d == backoff_seconds(c.attempts)
<1>1. d \in Int /\ 0 \in Int
  BY <1>0, BackoffType
<1>2. {"succeeded", "failed", "requeued"} \subseteq Acts
  BY DEF Acts
<1>3. {"handler_error", "worker_shutdown", "none"} \subseteq ErrorCode
  BY DEF ErrorCode
<1> HIDE DEF d, row
<1>4. /\ Free(row, SucceededRow(row), "none") /\ SucceededRow(row).status = "succeeded"
      /\ Free(row, FailedRow(row, "handler_error"), "handler_error")
      /\ FailedRow(row, "handler_error").status = "failed"
      /\ Free(row, RequeuedRow(row, d, "handler_error"), "handler_error")
      /\ RequeuedRow(row, d, "handler_error").status = "queued"
      /\ Free(row, RequeuedRow(row, 0, "worker_shutdown"), "worker_shutdown")
      /\ RequeuedRow(row, 0, "worker_shutdown").status = "queued"
  BY <1>0, <1>1, <1>3, FreedRows
<1>5. /\ SucceededRow(row) \in Row /\ FailedRow(row, "handler_error") \in Row
      /\ RequeuedRow(row, d, "handler_error") \in Row
      /\ RequeuedRow(row, 0, "worker_shutdown") \in Row
  BY <1>4 DEF Free
<1>6. MarkSucceeded(c) => Ended(c, "succeeded", SucceededRow(row))
  BY <1>4 DEF MarkSucceeded, Ended, row
<1>7. ForceRelease(c) => Ended(c, "requeued", RequeuedRow(row, 0, "worker_shutdown"))
  BY <1>4 DEF ForceRelease, Requeue, Ended, row
<1>8. ASSUME NEW r \in BOOLEAN, MarkFailed(c, r)
      PROVE  \/ Ended(c, "requeued", RequeuedRow(row, d, "handler_error"))
             \/ Ended(c, "failed", FailedRow(row, "handler_error"))
  <2>1. CASE r /\ c.attempts < c.max_attempts
    BY <1>4, <1>8, <2>1 DEF MarkFailed, Requeue, Ended, row, d
  <2>2. CASE ~(r /\ c.attempts < c.max_attempts)
    BY <1>4, <1>8, <2>2 DEF MarkFailed, Ended, row
  <2>3. QED
    BY <2>1, <2>2
<1>9. QED
  BY <1>2, <1>5, <1>6, <1>7, <1>8

\* Every state of the queue is well typed.
LEMMA TypingStep == TypeOK /\ [Next]_queueVars => TypeOK'
<1> SUFFICES ASSUME TypeOK, [Next]_queueVars PROVE TypeOK'
  OBVIOUS
<1>1. ASSUME NEW kind \in Kind, NEW k \in Key \cup {NoKey}, NEW p \in Priority,
             NEW m \in 1 .. MaxAttempts, NEW d \in StartDelays, EnqueueJob(kind, k, p, m, d)
      PROVE  TypeOK'
  <2>1. PICK j \in Job :
          /\ jobs' = [jobs EXCEPT ![j] = QueuedRow(d)]
          /\ request' = [request EXCEPT ![j] = [kind |-> kind, key |-> k, priority |-> p,
                                                 max_attempts |-> m]]
          /\ trail' = [trail EXCEPT ![j] = Append(trail[j], EventOf("enqueued", QueuedRow(d), Nobody))]
    BY <1>1 DEF EnqueueJob
  <2>2. /\ QueuedRow(d) \in Row
        /\ [kind |-> kind, key |-> k, priority |-> p, max_attempts |-> m] \in Request
    BY InsertTypes
  <2>3. Append(trail[j], EventOf("enqueued", QueuedRow(d), Nobody)) \in Seq(Event)
    BY <2>2, TrailType DEF Acts
  <2>4. jobs' \in [Job -> Row] /\ request' \in [Job -> Request] /\ trail' \in [Job -> Seq(Event)]
    BY <2>1, <2>2, <2>3 DEF TypeOK
  <2>5. QED
    BY <1>1, <2>4 DEF TypeOK, EnqueueJob
<1>2. ASSUME NEW k \in Key, EnqueueConflict(k) \/ EnqueueReplay(k) PROVE TypeOK'
  BY <1>2 DEF TypeOK, EnqueueConflict, EnqueueReplay
<1>3. ASSUME NEW w \in Worker, ClaimNextJob(w) PROVE TypeOK'
  <2>1. PICK j \in Job :
          LET row == ClaimedRow(jobs[j], w)
          IN  /\ jobs' = [jobs EXCEPT ![j] = row]
              /\ records' = records \cup {[job |-> j, by |-> w, attempts |-> row.attempts,
                                           max_attempts |-> request[j].max_attempts]}
              /\ trail' = [trail EXCEPT ![j] = Append(trail[j], EventOf("claimed", row, w))]
    BY <1>3 DEF ClaimNextJob
  <2>2. jobs[j] \in Row /\ ClaimedRow(jobs[j], w) \in Row
    BY HeldRows DEF TypeOK
  <2>3. Append(trail[j], EventOf("claimed", ClaimedRow(jobs[j], w), w)) \in Seq(Event)
    BY <2>2, TrailType DEF Acts
  <2>4. ClaimedRow(jobs[j], w).attempts \in Nat
    BY <2>2, ColumnTypes
  <2>5. request[j].max_attempts \in Nat
    BY DEF TypeOK, Request
  <2>6. [job |-> j, by |-> w, attempts |-> ClaimedRow(jobs[j], w).attempts,
         max_attempts |-> request[j].max_attempts] \in JobRecord
    BY <2>4, <2>5 DEF JobRecord
  <2>7. /\ jobs' \in [Job -> Row] /\ records' \in SUBSET JobRecord
        /\ trail' \in [Job -> Seq(Event)]
    BY <2>1, <2>2, <2>3, <2>6 DEF TypeOK
  <2>8. QED
    BY <1>3, <2>7 DEF TypeOK, ClaimNextJob
<1>4. ASSUME NEW c \in records, RenewLease(c) PROVE TypeOK'
  <2>1. c.job \in Job /\ jobs[c.job] \in Row
    BY DEF TypeOK, JobRecord
  <2>2. RenewedRow(jobs[c.job]) \in Row
    BY <1>4, <2>1, HeldRows DEF TypeOK, JobRecord
  <2>3. QED
    BY <1>4, <2>1, <2>2 DEF TypeOK, RenewLease
<1>5. ASSUME NEW c \in records,
             MarkSucceeded(c) \/ (\E r \in BOOLEAN : MarkFailed(c, r)) \/ ForceRelease(c)
      PROVE  TypeOK'
  <2>1. PICK act \in Acts, new \in Row : Ended(c, act, new)
    BY <1>5, EndedSteps
  <2>2. c.job \in Job /\ c.by \in Worker /\ Write(c.job, new, act, c.by)
    BY <2>1 DEF TypeOK, JobRecord, Ended
  <2>3. QED
    BY <2>2, WriteType
<1>6. ASSUME NEW j \in Job, CancelJob(j) PROVE TypeOK'
  <2>1. CancelledRow(jobs[j]) \in Row
    BY OtherRows DEF TypeOK
  <2>2. QED
    BY <1>6, <2>1, WriteType DEF CancelJob, Acts
<1>7. CASE RecoverStaleJobs
  <2>1. PICK S \in SUBSET Job :
          /\ jobs' = [j \in Job |-> IF j \in S THEN Recovered(j) ELSE jobs[j]]
          /\ trail' = [j \in Job |->
                IF j \in S
                THEN Append(trail[j], EventOf("recovered", Recovered(j), Nobody))
                ELSE trail[j]]
    BY <1>7 DEF RecoverStaleJobs
  <2>2. ASSUME NEW j \in Job
        PROVE  /\ Recovered(j) \in Row
               /\ Append(trail[j], EventOf("recovered", Recovered(j), Nobody)) \in Seq(Event)
    <3>1. jobs[j] \in Row /\ request[j].max_attempts \in Nat
      BY DEF TypeOK, Request
    <3>2. Recovered(j) \in Row
      BY <3>1, RecoveredRows DEF Recovered, Free
    <3>3. QED
      BY <3>2, TrailType DEF Acts
  <2>3. jobs' \in [Job -> Row] /\ trail' \in [Job -> Seq(Event)]
    BY <2>1, <2>2 DEF TypeOK
  <2>4. QED
    BY <1>7, <2>3 DEF TypeOK, RecoverStaleJobs
<1>8. CASE PurgeTerminalJobs
  <2>1. PICK S \in SUBSET Job :
          /\ jobs' = [j \in Job |-> IF j \in S THEN NoRow("purged", jobs[j].attempts)
                                               ELSE jobs[j]]
          /\ request' = [j \in Job |-> IF j \in S THEN NoRequest ELSE request[j]]
    BY <1>8 DEF PurgeTerminalJobs
  <2>2. NoRequest \in Request
    BY DEF NoRequest, Request
  <2>3. \A j \in Job : NoRow("purged", jobs[j].attempts) \in Row
    BY OtherRows DEF TypeOK
  <2>4. jobs' \in [Job -> Row] /\ request' \in [Job -> Request]
    BY <2>1, <2>2, <2>3 DEF TypeOK
  <2>5. QED
    BY <1>8, <2>4 DEF TypeOK, PurgeTerminalJobs
<1>9. CASE Tick
  <2>1. \A j \in Job : Older(jobs[j]) \in Row
    BY OtherRows DEF TypeOK
  <2>2. QED
    BY <1>9, <2>1 DEF TypeOK, Tick
<1>10. CASE UNCHANGED queueVars
  BY <1>10 DEF TypeOK, queueVars
<1>11. QED
  BY <1>1, <1>2, <1>3, <1>4, <1>5, <1>6, <1>7, <1>8, <1>9, <1>10
  DEF Next, Enqueue, UseRecord

\* The initial state is well typed.
LEMMA TypingInit == Init => TypeOK
<1>1. Absent \in Row /\ NoRequest \in Request
  BY DEF Absent, NoRow, Row, Status, ErrorCode, Request, NoRequest
<1>2. QED
  BY <1>1 DEF Init, TypeOK

\* Whatever the clients do and however their calls interleave, rows, records, audit
\* events and pending replays keep their types: statuses outside the CHECK of the
\* column, negative attempts or an unknown error code are never written.
THEOREM Typing == Spec => []TypeOK
<1>1. QED
  BY TypingInit, TypingStep, PTL DEF Spec

-----------------------------------------------------------------------------
(* The inductive invariant behind the fencing and the budget.               *)

\* What is invariant of one row: its attempts are within the budget, it is locked
\* exactly while it runs, and only a forced stop leaves it queued without attempts.
RowKept(row, req) ==
    /\ Present(row) => /\ req.max_attempts \in 1 .. MaxAttempts
                       /\ row.attempts <= req.max_attempts
    /\ row.status = "running" <=> row.locked_by # Nobody
    /\ row.lease <= Lease
    /\ row.status = "queued" /\ row.attempts >= req.max_attempts
          => row.code = "worker_shutdown"

RowsKept == \A j \in Job : RowKept(jobs[j], request[j])

KeysUnique ==
    \A i, j \in Job :
        Present(jobs[i]) /\ Present(jobs[j]) /\ request[i].key = request[j].key
            /\ request[i].key # NoKey
        => i = j

\* A record names an attempt its row has made, and remembers the budget of the row.
RecordKept(c) ==
    /\ jobs[c.job].status # "absent"
    /\ c.attempts <= jobs[c.job].attempts
    /\ Present(jobs[c.job]) => c.max_attempts = request[c.job].max_attempts

\* No attempt was ever handed to two workers, nor twice to one.
RecordsKept ==
    /\ \A c \in records : RecordKept(c)
    /\ \A c, d \in records : c.job = d.job /\ c.attempts = d.attempts => c = d

QueueInv == TypeOK /\ RowsKept /\ KeysUnique /\ RecordsKept

\* When a step leaves every row present that was, with the request it had and no
\* fewer attempts, records and keys cannot go wrong.
LEMMA Unmoved ==
    ASSUME QueueInv, TypeOK', UNCHANGED <<request, records>>,
           \A j \in Job : /\ Present(jobs'[j]) <=> Present(jobs[j])
                          /\ jobs[j].status # "absent" => jobs'[j].status # "absent"
                          /\ jobs'[j].attempts = jobs[j].attempts
    PROVE  KeysUnique' /\ RecordsKept'
<1>1. KeysUnique'
  BY DEF QueueInv, KeysUnique
<1>2. \A c \in records : c.job \in Job
  BY DEF QueueInv, TypeOK, JobRecord
<1>3. \A c \in records : RecordKept(c)'
  BY <1>2 DEF QueueInv, RecordsKept, RecordKept
<1>4. QED
  BY <1>1, <1>3 DEF QueueInv, RecordsKept

\* A write that frees a present row and leaves it present keeps the invariant.
LEMMA FreeingKeeps ==
    ASSUME QueueInv, TypeOK', NEW j \in Job, NEW new, NEW code, NEW act, NEW w,
           Write(j, new, act, w), Free(jobs[j], new, code), Present(jobs[j]),
           new.status \in {"queued", "succeeded", "failed"},
           new.status = "queued" =>
                code = "worker_shutdown" \/ jobs[j].attempts < request[j].max_attempts
    PROVE  QueueInv'
<1>1. jobs[j].attempts \in Nat /\ request[j].max_attempts \in Nat /\ new.attempts \in Nat
  BY ColumnTypes DEF QueueInv, TypeOK, Request, Free
<1>2. Lease >= 0 /\ Present(new)
  BY QueueAssumption DEF Present
<1>3. jobs' = [jobs EXCEPT ![j] = new] /\ request' = request /\ records' = records
      /\ jobs'[j] = new /\ jobs \in [Job -> Row]
  BY DEF Write, QueueInv, TypeOK
<1>4. RowKept(new, request[j])
  BY <1>1, <1>2 DEF RowKept, Free, QueueInv, RowsKept
<1>5. RowsKept'
  BY <1>3, <1>4 DEF QueueInv, RowsKept
<1>6. KeysUnique' /\ RecordsKept'
  <2>1. ASSUME NEW i \in Job
        PROVE  /\ Present(jobs'[i]) <=> Present(jobs[i])
               /\ jobs[i].status # "absent" => jobs'[i].status # "absent"
               /\ jobs'[i].attempts = jobs[i].attempts
    <3>1. CASE i = j
      BY <1>2, <1>3, <3>1 DEF Free, Present
    <3>2. CASE i # j
      BY <1>3, <3>2
    <3>3. QED
      BY <3>1, <3>2
  <2>2. QED
    BY <1>3, <2>1, Unmoved
<1>7. QED
  BY <1>5, <1>6 DEF QueueInv

\* An insertion creates a row nobody has a record of, under a key no row has.
LEMMA EnqueueKeeps ==
    ASSUME QueueInv, TypeOK', NEW kind \in Kind, NEW k \in Key \cup {NoKey},
           NEW p \in Priority, NEW m \in 1 .. MaxAttempts, NEW d \in StartDelays,
           EnqueueJob(kind, k, p, m, d)
    PROVE  QueueInv'
<1> DEFINE req == [kind |-> kind, key |-> k, priority |-> p, max_attempts |-> m]
<1>1. PICK j \in Job :
        /\ jobs[j].status = "absent"
        /\ jobs' = [jobs EXCEPT ![j] = QueuedRow(d)]
        /\ request' = [request EXCEPT ![j] = req]
  BY DEF EnqueueJob
<1>2. req.max_attempts = m /\ req.key = k
  OBVIOUS
<1> HIDE DEF req
<1>3. /\ jobs'[j] = QueuedRow(d) /\ request'[j] = req /\ records' = records
      /\ \A i \in Job \ {j} : jobs'[i] = jobs[i] /\ request'[i] = request[i]
  BY <1>1 DEF QueueInv, TypeOK, EnqueueJob
<1>4. /\ QueuedRow(d).status = "queued" /\ QueuedRow(d).attempts = 0
      /\ QueuedRow(d).locked_by = Nobody /\ QueuedRow(d).lease = 0
  BY DEF QueuedRow, Absent, NoRow
<1>5. RowsKept'
  <2>1. RowKept(QueuedRow(d), req)
    BY <1>2, <1>4, QueueAssumption DEF RowKept
  <2>2. QED
    BY <1>3, <2>1 DEF QueueInv, RowsKept
<1>6. KeysUnique'
  <2>1. k # NoKey => \A i \in Job : Present(jobs[i]) => request[i].key # k
    BY DEF EnqueueJob, KeyTaken
  <2>2. QED
    BY <1>2, <1>3, <2>1 DEF QueueInv, KeysUnique
<1>7. RecordsKept'
  <2>1. \A c \in records : c.job \in Job \ {j}
    BY <1>1 DEF QueueInv, TypeOK, JobRecord, RecordsKept, RecordKept
  <2>2. \A c \in records : RecordKept(c)'
    BY <1>3, <2>1 DEF QueueInv, RecordsKept, RecordKept
  <2>3. QED
    BY <1>3, <2>2 DEF QueueInv, RecordsKept
<1>8. QED
  BY <1>5, <1>6, <1>7 DEF QueueInv

\* A claim makes an attempt no record names yet, within the budget of the row.
LEMMA ClaimKeeps ==
    ASSUME QueueInv, TypeOK', NEW w \in Worker, ClaimNextJob(w)
    PROVE  QueueInv'
<1>1. PICK j \in Job :
        /\ Claimable(j, w)
        /\ jobs' = [jobs EXCEPT ![j] = ClaimedRow(jobs[j], w)]
        /\ records' = records \cup {[job |-> j, by |-> w,
                                     attempts |-> ClaimedRow(jobs[j], w).attempts,
                                     max_attempts |-> request[j].max_attempts]}
  BY DEF ClaimNextJob
<1> DEFINE new == ClaimedRow(jobs[j], w)
<1>2. /\ jobs[j] \in Row /\ jobs[j].attempts \in Nat /\ request[j].max_attempts \in Nat
  BY ColumnTypes DEF QueueInv, TypeOK, Request
<1>3. /\ new.status = "running" /\ new.attempts = jobs[j].attempts + 1
      /\ new.locked_by = w /\ new.lease = Lease
  BY <1>2, HeldRows
<1>4. PICK rec : /\ rec.job = j /\ rec.attempts = jobs[j].attempts + 1
                 /\ rec.max_attempts = request[j].max_attempts
                 /\ records' = records \cup {rec}
  BY <1>1, <1>3
<1>5. records' = records \cup {rec}
  BY <1>4
<1> HIDE DEF new
<1>6. /\ jobs'[j] = new /\ request' = request
      /\ \A i \in Job \ {j} : jobs'[i] = jobs[i]
  BY <1>1 DEF QueueInv, TypeOK, ClaimNextJob, new
<1>7. /\ jobs[j].status = "queued" /\ jobs[j].attempts < request[j].max_attempts
      /\ Present(jobs[j]) /\ Present(new)
  BY <1>1, <1>3 DEF Claimable, Present
<1>8. RowsKept'
  <2>1. RowKept(new, request[j])
    BY <1>2, <1>3, <1>7, QueueAssumption DEF RowKept, QueueInv, RowsKept
  <2>2. QED
    BY <1>6, <2>1 DEF QueueInv, RowsKept
<1>9. KeysUnique'
  BY <1>6, <1>7 DEF QueueInv, KeysUnique
<1>10. RecordsKept'
  <2>1. \A c \in records : c.job \in Job /\ c.attempts \in Nat
    BY DEF QueueInv, TypeOK, JobRecord
  <2>2. RecordKept(rec)'
    BY <1>2, <1>3, <1>4, <1>6 DEF RecordKept
  <2>3. ASSUME NEW c \in records PROVE RecordKept(c)'
    <3>1. RecordKept(c)
      BY DEF QueueInv, RecordsKept
    <3>2. CASE c.job = j
      BY <1>2, <1>3, <1>6, <1>7, <2>1, <3>1, <3>2 DEF RecordKept
    <3>3. CASE c.job # j
      BY <1>6, <2>1, <3>1, <3>3 DEF RecordKept
    <3>4. QED
      BY <3>2, <3>3
  <2>4. \A c \in records : c.job = j => c.attempts < rec.attempts
    BY <1>2, <1>4, <2>1 DEF QueueInv, RecordsKept, RecordKept
  <2>5. \A c, d \in records' : c.job = d.job /\ c.attempts = d.attempts => c = d
    BY <1>4, <1>5, <2>1, <2>4 DEF QueueInv, RecordsKept
  <2>6. QED
    BY <1>5, <2>2, <2>3, <2>5 DEF RecordsKept
<1>11. QED
  BY <1>8, <1>9, <1>10 DEF QueueInv

\* Every action keeps the invariant.
LEMMA QueueStep == QueueInv /\ [Next]_queueVars => QueueInv'
<1> SUFFICES ASSUME QueueInv, [Next]_queueVars PROVE QueueInv'
  OBVIOUS
<1>0. TypeOK' /\ TypeOK
  BY TypingStep DEF QueueInv
<1>1. ASSUME NEW kind \in Kind, NEW k \in Key \cup {NoKey}, NEW p \in Priority,
             NEW m \in 1 .. MaxAttempts, NEW d \in StartDelays, EnqueueJob(kind, k, p, m, d)
      PROVE  QueueInv'
  BY <1>0, <1>1, EnqueueKeeps
<1>2. ASSUME NEW k \in Key, EnqueueConflict(k) \/ EnqueueReplay(k) PROVE QueueInv'
  <2>1. UNCHANGED <<jobs, request, records>>
    BY <1>2 DEF EnqueueConflict, EnqueueReplay
  <2>2. QED
    BY <1>0, <2>1
    DEF QueueInv, RowsKept, KeysUnique, RecordsKept, RecordKept
<1>3. ASSUME NEW w \in Worker, ClaimNextJob(w) PROVE QueueInv'
  BY <1>0, <1>3, ClaimKeeps
<1>4. ASSUME NEW c \in records, RenewLease(c) PROVE QueueInv'
  <2> DEFINE j == c.job
  <2>1. j \in Job /\ jobs[j] \in Row /\ jobs[j].lease \in Int
    BY <1>0, ColumnTypes DEF TypeOK, JobRecord
  <2>2. RenewedRow(jobs[j]) = [jobs[j] EXCEPT !.lease = Larger(jobs[j].lease, Lease)]
    BY <1>0, <2>1, HeldRows DEF TypeOK, JobRecord
  <2>3. /\ jobs'[j] = [jobs[j] EXCEPT !.lease = Larger(jobs[j].lease, Lease)]
        /\ \A i \in Job \ {j} : jobs'[i] = jobs[i]
        /\ request' = request /\ records' = records
    BY <1>0, <1>4, <2>1, <2>2 DEF RenewLease, TypeOK
  <2>4. /\ jobs'[j].status = jobs[j].status /\ jobs'[j].attempts = jobs[j].attempts
        /\ jobs'[j].locked_by = jobs[j].locked_by /\ jobs'[j].code = jobs[j].code
        /\ jobs'[j].lease = Larger(jobs[j].lease, Lease)
    BY <2>1, <2>3 DEF Row
  <2>5. RowKept(jobs[j], request[j])
    BY <2>1 DEF QueueInv, RowsKept
  <2>6. Larger(jobs[j].lease, Lease) <= Lease
    BY <2>1, <2>5, QueueAssumption DEF Larger, RowKept
  <2>7. RowsKept'
    <3>1. RowKept(jobs'[j], request[j])
      BY <2>4, <2>5, <2>6 DEF RowKept, Present
    <3>2. QED
      BY <2>3, <3>1 DEF QueueInv, RowsKept
  <2>8. ASSUME NEW i \in Job
        PROVE  /\ Present(jobs'[i]) <=> Present(jobs[i])
               /\ jobs[i].status # "absent" => jobs'[i].status # "absent"
               /\ jobs'[i].attempts = jobs[i].attempts
    BY <2>3, <2>4 DEF Present
  <2>9. KeysUnique' /\ RecordsKept'
    BY <1>0, <2>3, <2>8, Unmoved
  <2>10. QED
    BY <1>0, <2>7, <2>9 DEF QueueInv
<1>5. ASSUME NEW c \in records,
             MarkSucceeded(c) \/ (\E r \in BOOLEAN : MarkFailed(c, r)) \/ ForceRelease(c)
      PROVE  QueueInv'
  <2>1. PICK act \in Acts, new \in Row : Ended(c, act, new)
    BY <1>0, <1>5, EndedSteps
  <2>2. c.job \in Job /\ Present(jobs[c.job]) /\ jobs[c.job].attempts = c.attempts
    BY <1>0, <2>1 DEF TypeOK, JobRecord, Ended, Owns, Present
  <2>3. c.max_attempts = request[c.job].max_attempts
    BY <2>2 DEF QueueInv, RecordsKept, RecordKept
  <2>4. PICK code : /\ Free(jobs[c.job], new, code)
                    /\ new.status \in {"queued", "succeeded", "failed"}
                    /\ new.status = "queued" =>
                          code = "worker_shutdown"
                            \/ jobs[c.job].attempts < request[c.job].max_attempts
    BY <2>1, <2>2, <2>3 DEF Ended
  <2>5. Write(c.job, new, act, c.by)
    BY <2>1 DEF Ended
  <2>6. QED
    BY <1>0, <2>2, <2>4, <2>5, FreeingKeeps
<1>6. ASSUME NEW j \in Job, CancelJob(j) PROVE QueueInv'
  <2>1. jobs[j] \in Row /\ CancelledRow(jobs[j]) = [jobs[j] EXCEPT !.status = "cancelled"]
    BY <1>0, OtherRows DEF TypeOK
  <2>2. /\ jobs'[j] = [jobs[j] EXCEPT !.status = "cancelled"]
        /\ \A i \in Job \ {j} : jobs'[i] = jobs[i]
        /\ request' = request /\ records' = records /\ jobs[j].status = "queued"
    BY <1>0, <1>6, <2>1 DEF CancelJob, Write, TypeOK
  <2>3. /\ jobs'[j].status = "cancelled" /\ jobs'[j].attempts = jobs[j].attempts
        /\ jobs'[j].locked_by = jobs[j].locked_by /\ jobs'[j].lease = jobs[j].lease
    BY <2>1, <2>2 DEF Row
  <2>4. RowsKept'
    <3>1. RowKept(jobs'[j], request[j])
      BY <2>2, <2>3 DEF RowKept, Present, QueueInv, RowsKept
    <3>2. QED
      BY <2>2, <3>1 DEF QueueInv, RowsKept
  <2>5. ASSUME NEW i \in Job
        PROVE  /\ Present(jobs'[i]) <=> Present(jobs[i])
               /\ jobs[i].status # "absent" => jobs'[i].status # "absent"
               /\ jobs'[i].attempts = jobs[i].attempts
    BY <2>2, <2>3 DEF Present
  <2>6. KeysUnique' /\ RecordsKept'
    BY <1>0, <2>2, <2>5, Unmoved
  <2>7. QED
    BY <1>0, <2>4, <2>6 DEF QueueInv
<1>7. CASE RecoverStaleJobs
  <2>1. PICK S \in SUBSET {j \in Job : Expired(jobs[j])} :
          jobs' = [j \in Job |-> IF j \in S THEN Recovered(j) ELSE jobs[j]]
    BY <1>7 DEF RecoverStaleJobs
  <2>2. request' = request /\ records' = records
    BY <1>7 DEF RecoverStaleJobs
  <2>3. ASSUME NEW j \in S
        PROVE  /\ j \in Job /\ jobs[j].status = "running" /\ jobs'[j] = Recovered(j)
               /\ Free(jobs[j], Recovered(j), "lease_expired")
               /\ Recovered(j).status =
                    IF jobs[j].attempts < request[j].max_attempts THEN "queued" ELSE "failed"
    <3>1. j \in Job /\ jobs[j].status = "running" /\ jobs'[j] = Recovered(j)
      BY <2>1 DEF Expired
    <3>2. jobs[j] \in Row /\ request[j].max_attempts \in Nat
      BY <1>0, <3>1 DEF TypeOK, Request
    <3>3. QED
      BY <3>1, <3>2, RecoveredRows DEF Recovered
  <2>4. ASSUME NEW j \in S PROVE RowKept(Recovered(j), request[j])
    <3>1. jobs[j].attempts \in Nat /\ request[j].max_attempts \in Nat
      BY <1>0, <2>3, ColumnTypes DEF TypeOK, Request
    <3>2. RowKept(jobs[j], request[j]) /\ Present(jobs[j])
      BY <2>3 DEF QueueInv, RowsKept, Present
    <3>3. QED
      BY <2>3, <3>1, <3>2, QueueAssumption DEF RowKept, Free
  <2>5. RowsKept'
    BY <2>1, <2>2, <2>4 DEF QueueInv, RowsKept
  <2>6. ASSUME NEW i \in Job
        PROVE  /\ Present(jobs'[i]) <=> Present(jobs[i])
               /\ jobs[i].status # "absent" => jobs'[i].status # "absent"
               /\ jobs'[i].attempts = jobs[i].attempts
    <3>1. CASE i \in S
      BY <2>3, <3>1 DEF Present, Free
    <3>2. CASE i \notin S
      BY <2>1, <3>2
    <3>3. QED
      BY <3>1, <3>2
  <2>7. KeysUnique' /\ RecordsKept'
    BY <1>0, <2>2, <2>6, Unmoved
  <2>8. QED
    BY <1>0, <2>5, <2>7 DEF QueueInv
<1>8. CASE PurgeTerminalJobs
  <2>1. PICK S \in SUBSET Job :
          /\ jobs' = [j \in Job |-> IF j \in S THEN NoRow("purged", jobs[j].attempts)
                                               ELSE jobs[j]]
          /\ request' = [j \in Job |-> IF j \in S THEN NoRequest ELSE request[j]]
    BY <1>8 DEF PurgeTerminalJobs
  <2>2. records' = records
    BY <1>8 DEF PurgeTerminalJobs
  <2>3. ASSUME NEW j \in S
        PROVE  /\ jobs'[j].status = "purged" /\ jobs'[j].attempts = jobs[j].attempts
               /\ jobs'[j].locked_by = Nobody /\ jobs'[j].lease = 0
    BY <2>1 DEF NoRow
  <2>4. \A j \in Job \ S : jobs'[j] = jobs[j] /\ request'[j] = request[j]
    BY <2>1
  <2>5. RowsKept'
    <3>1. ASSUME NEW j \in S PROVE RowKept(jobs'[j], request'[j])
      BY <2>3, QueueAssumption DEF RowKept, Present
    <3>2. QED
      BY <2>4, <3>1 DEF QueueInv, RowsKept
  <2>6. KeysUnique'
    BY <2>3, <2>4 DEF QueueInv, KeysUnique, Present
  <2>7. RecordsKept'
    <3>1. ASSUME NEW c \in records PROVE RecordKept(c)'
      <4>1. c.job \in Job /\ RecordKept(c)
        BY <1>0 DEF TypeOK, JobRecord, QueueInv, RecordsKept
      <4>2. CASE c.job \in S
        BY <2>3, <4>1, <4>2 DEF RecordKept, Present
      <4>3. CASE c.job \notin S
        BY <2>4, <4>1, <4>3 DEF RecordKept
      <4>4. QED
        BY <4>2, <4>3
    <3>2. QED
      BY <2>2, <3>1 DEF QueueInv, RecordsKept
  <2>8. QED
    BY <1>0, <2>5, <2>6, <2>7 DEF QueueInv
<1>9. CASE Tick
  <2>1. /\ jobs' = [j \in Job |-> Older(jobs[j])]
        /\ request' = request /\ records' = records
    BY <1>9 DEF Tick
  <2>2. ASSUME NEW j \in Job
        PROVE  /\ jobs'[j].status = jobs[j].status /\ jobs'[j].attempts = jobs[j].attempts
               /\ jobs'[j].locked_by = jobs[j].locked_by /\ jobs'[j].code = jobs[j].code
               /\ jobs'[j].lease <= jobs[j].lease \/ jobs'[j].lease = -1
    BY <1>0, <2>1, OtherRows DEF TypeOK
  <2>3. ASSUME NEW j \in Job PROVE RowKept(jobs'[j], request[j])
    <3>1. jobs[j].lease \in Int /\ jobs'[j].lease \in Int
      BY <1>0, ColumnTypes DEF TypeOK
    <3>2. RowKept(jobs[j], request[j])
      BY DEF QueueInv, RowsKept
    <3>3. QED
      BY <2>2, <3>1, <3>2, QueueAssumption DEF RowKept, Present
  <2>4. RowsKept'
    BY <2>1, <2>3 DEF RowsKept
  <2>5. \A i \in Job : /\ Present(jobs'[i]) <=> Present(jobs[i])
                       /\ jobs[i].status # "absent" => jobs'[i].status # "absent"
                       /\ jobs'[i].attempts = jobs[i].attempts
    BY <2>2 DEF Present
  <2>6. KeysUnique' /\ RecordsKept'
    BY <1>0, <2>1, <2>5, Unmoved
  <2>7. QED
    BY <1>0, <2>4, <2>6 DEF QueueInv
<1>10. CASE UNCHANGED queueVars
  BY <1>0, <1>10
  DEF queueVars, QueueInv, RowsKept, KeysUnique, RecordsKept, RecordKept
<1>11. QED
  BY <1>1, <1>2, <1>3, <1>4, <1>5, <1>6, <1>7, <1>8, <1>9, <1>10
  DEF Next, Enqueue, UseRecord

\* The empty table satisfies it.
LEMMA QueueStart == Init => QueueInv
<1> SUFFICES ASSUME Init PROVE QueueInv
  OBVIOUS
<1>1. TypeOK
  BY TypingInit
<1>2. \A j \in Job : /\ jobs[j].status = "absent" /\ jobs[j].locked_by = Nobody
                     /\ jobs[j].lease = 0
  BY DEF Init, Absent, NoRow
<1>3. RowsKept
  BY <1>2, QueueAssumption DEF RowsKept, RowKept, Present
<1>4. KeysUnique /\ RecordsKept
  BY <1>2 DEF Init, KeysUnique, RecordsKept, Present
<1>5. QED
  BY <1>1, <1>3, <1>4 DEF QueueInv

\* So it holds of every state.
LEMMA QueueInvariant == Spec => []QueueInv
<1>1. QED
  BY QueueStart, QueueStep, PTL DEF Spec

-----------------------------------------------------------------------------
(* What follows from the invariant. *)

\* Fencing, for any number of workers, attempts and records: of all the records of a
\* job that were ever handed out, only that of the latest claim can change the row.
THEOREM Fencing == Spec => []StaleRecordsAreFenced
<1>1. QueueInv => StaleRecordsAreFenced
  <2> SUFFICES ASSUME QueueInv, NEW c \in records, NEW d \in records,
                      Owns(c), d.job = c.job, d # c
               PROVE  ~Owns(d) /\ d.attempts < c.attempts
    BY DEF StaleRecordsAreFenced
  <2>1. d.attempts # c.attempts /\ d.attempts <= jobs[c.job].attempts
    BY DEF QueueInv, RecordsKept, RecordKept
  <2>2. c.attempts \in Nat /\ d.attempts \in Nat
    BY DEF QueueInv, TypeOK, JobRecord
  <2>3. jobs[c.job].attempts = c.attempts
    BY DEF Owns
  <2>4. QED
    BY <2>1, <2>2, <2>3 DEF Owns
<1>2. QED
  BY <1>1, QueueInvariant, PTL

\* No statement of jobs.py ever meets a CHECK or UNIQUE constraint of the table.
THEOREM Constraints == Spec => []TableConstraints
<1>1. QueueInv => TableConstraints
  BY DEF QueueInv, RowsKept, RowKept, KeysUnique, TableConstraints
<1>2. QED
  BY <1>1, QueueInvariant, PTL

\* A queued job without attempts left can only come from a forced stop: neither a
\* retried failure nor a recovery strands a job, whatever the budgets.
THEOREM Stranding == Spec => []StrandedOnlyByForcedStop
<1>1. QueueInv => StrandedOnlyByForcedStop
  BY DEF QueueInv, RowsKept, RowKept, StrandedOnlyByForcedStop, Stranded
<1>2. QED
  BY <1>1, QueueInvariant, PTL

-----------------------------------------------------------------------------
(* What one transaction does to one job, whichever statement it runs. *)

\* The hook of the transaction appends one event to the trail of the job.
Traced(j, act, w) == trail'[j] = Append(trail[j], EventOf(act, jobs'[j], w))

Rests(j) ==
    /\ jobs'[j].status = jobs[j].status /\ jobs'[j].attempts = jobs[j].attempts
    /\ jobs'[j].locked_by = jobs[j].locked_by
    /\ trail'[j] = trail[j]

Enters(j) ==
    /\ jobs[j].status = "absent"
    /\ jobs'[j].status = "queued" /\ jobs'[j].attempts = 0 /\ jobs'[j].locked_by = Nobody
    /\ Traced(j, "enqueued", Nobody)

Starts(j, w) ==
    /\ jobs[j].status = "queued" /\ jobs[j].attempts < request[j].max_attempts
    /\ jobs'[j].status = "running" /\ jobs'[j].attempts = jobs[j].attempts + 1
    /\ jobs'[j].locked_by = w
    /\ Traced(j, "claimed", w)

\* The attempt ends: by its holder, or by a recovery when its lease has run out.
Stops(j) ==
    /\ jobs[j].status = "running"
    /\ jobs'[j].attempts = jobs[j].attempts /\ jobs'[j].locked_by = Nobody
    /\ \/ /\ jobs'[j].status \in {"succeeded", "failed"}
          /\ Traced(j, jobs'[j].status, jobs[j].locked_by)
       \/ jobs'[j].status = "queued" /\ Traced(j, "requeued", jobs[j].locked_by)
       \/ /\ jobs[j].lease < 0 /\ jobs'[j].status \in {"queued", "failed"}
          /\ Traced(j, "recovered", Nobody)

Leaves(j) ==
    /\ jobs[j].status = "queued" /\ jobs'[j].status = "cancelled"
    /\ jobs'[j].attempts = jobs[j].attempts /\ jobs'[j].locked_by = jobs[j].locked_by
    /\ Traced(j, "cancelled", Nobody)

IsPurged(j) ==
    /\ jobs[j].status \in TERMINAL_STATUSES /\ jobs'[j].status = "purged"
    /\ jobs'[j].attempts = jobs[j].attempts /\ jobs'[j].locked_by = Nobody
    /\ trail'[j] = trail[j]

Moves(j) ==
    \/ Rests(j)
    \/ Enters(j)
    \/ \E w \in Worker : Starts(j, w)
    \/ Stops(j)
    \/ Leaves(j)
    \/ IsPurged(j)

\* A write to one row leaves the other jobs at rest.
LEMMA WriteMovesOne ==
    ASSUME TypeOK, NEW j \in Job, NEW row, NEW act, NEW w, Write(j, row, act, w)
    PROVE  /\ jobs'[j] = row /\ Traced(j, act, w)
           /\ \A i \in Job \ {j} : Rests(i)
BY DEF TypeOK, Write, Traced, Rests

\* Every transaction moves every job by one of these moves, or not at all.
LEMMA EveryJobMoves ==
    ASSUME TypeOK, [Next]_queueVars, NEW j \in Job PROVE Moves(j)
<1>0. jobs[j] \in Row
  BY DEF TypeOK
<1>1. ASSUME NEW kind, NEW k, NEW p, NEW m, NEW d, EnqueueJob(kind, k, p, m, d)
      PROVE  Moves(j)
  <2>1. PICK i \in Job :
          /\ jobs[i].status = "absent"
          /\ jobs' = [jobs EXCEPT ![i] = QueuedRow(d)]
          /\ trail' = [trail EXCEPT ![i] = Append(trail[i], EventOf("enqueued", QueuedRow(d), Nobody))]
    BY <1>1 DEF EnqueueJob
  <2>2. /\ QueuedRow(d).status = "queued" /\ QueuedRow(d).attempts = 0
        /\ QueuedRow(d).locked_by = Nobody
    BY DEF QueuedRow, Absent, NoRow
  <2>3. CASE i = j
    BY <2>1, <2>2, <2>3 DEF TypeOK, Moves, Enters, Traced
  <2>4. CASE i # j
    BY <2>1, <2>4 DEF TypeOK, Moves, Rests
  <2>5. QED
    BY <2>3, <2>4
<1>2. ASSUME NEW k, EnqueueConflict(k) \/ EnqueueReplay(k) PROVE Moves(j)
  BY <1>2 DEF EnqueueConflict, EnqueueReplay, Moves, Rests
<1>3. ASSUME NEW w \in Worker, ClaimNextJob(w) PROVE Moves(j)
  <2>1. PICK i \in Job :
          /\ Claimable(i, w)
          /\ jobs' = [jobs EXCEPT ![i] = ClaimedRow(jobs[i], w)]
          /\ trail' = [trail EXCEPT ![i] =
                          Append(trail[i], EventOf("claimed", ClaimedRow(jobs[i], w), w))]
    BY <1>3 DEF ClaimNextJob
  <2>2. CASE i = j
    <3>1. /\ ClaimedRow(jobs[j], w).status = "running"
          /\ ClaimedRow(jobs[j], w).attempts = jobs[j].attempts + 1
          /\ ClaimedRow(jobs[j], w).locked_by = w
      BY <1>0, HeldRows
    <3>2. /\ jobs'[j] = ClaimedRow(jobs[j], w)
          /\ trail'[j] = Append(trail[j], EventOf("claimed", ClaimedRow(jobs[j], w), w))
      BY <2>1, <2>2 DEF TypeOK
    <3>3. Starts(j, w)
      BY <2>1, <2>2, <3>1, <3>2 DEF Starts, Traced, Claimable
    <3>4. QED
      BY <3>3 DEF Moves
  <2>3. CASE i # j
    BY <2>1, <2>3 DEF TypeOK, Moves, Rests
  <2>4. QED
    BY <2>2, <2>3
<1>4. ASSUME NEW c \in records, RenewLease(c) PROVE Moves(j)
  <2>1. c.job \in Job
    BY DEF TypeOK, JobRecord
  <2>2. /\ RenewedRow(jobs[j]).status = jobs[j].status
        /\ RenewedRow(jobs[j]).attempts = jobs[j].attempts
        /\ RenewedRow(jobs[j]).locked_by = jobs[j].locked_by
    BY <1>0 DEF RenewedRow, Row
  <2>3. jobs'[j] = IF j = c.job THEN RenewedRow(jobs[j]) ELSE jobs[j]
    BY <1>4, <2>1 DEF RenewLease, TypeOK
  <2>4. QED
    BY <1>4, <2>2, <2>3 DEF RenewLease, Moves, Rests
<1>5. ASSUME NEW c \in records,
             MarkSucceeded(c) \/ (\E r \in BOOLEAN : MarkFailed(c, r)) \/ ForceRelease(c)
      PROVE  Moves(j)
  <2>1. PICK act \in Acts, new \in Row : Ended(c, act, new)
    BY <1>5, EndedSteps
  <2>2. c.job \in Job /\ Write(c.job, new, act, c.by) /\ Owns(c)
    BY <2>1 DEF Ended, TypeOK, JobRecord
  <2>3. CASE c.job = j
    <3>1. jobs'[j] = new /\ Traced(j, act, c.by)
      BY <2>2, <2>3, WriteMovesOne
    <3>2. new.attempts = jobs[j].attempts /\ new.locked_by = Nobody
      BY <2>1, <2>3 DEF Ended, Free
    <3>3. jobs[j].status = "running" /\ jobs[j].locked_by = c.by
      BY <2>2, <2>3 DEF Owns
    <3>4. \/ act = "succeeded" /\ new.status = "succeeded"
          \/ act = "failed" /\ new.status = "failed"
          \/ act = "requeued" /\ new.status = "queued"
      BY <2>1 DEF Ended
    <3>5. \/ jobs'[j].status \in {"succeeded", "failed"} /\ act = jobs'[j].status
          \/ jobs'[j].status = "queued" /\ act = "requeued"
      BY <3>1, <3>4
    <3>6. \/ jobs'[j].status \in {"succeeded", "failed"}
               /\ Traced(j, jobs'[j].status, jobs[j].locked_by)
          \/ jobs'[j].status = "queued" /\ Traced(j, "requeued", jobs[j].locked_by)
      BY <3>1, <3>3, <3>5, Zenon
    <3>7. Stops(j)
      BY <3>1, <3>2, <3>3, <3>6 DEF Stops
    <3>8. QED
      BY <3>7 DEF Moves
  <2>4. CASE c.job # j
    BY <2>2, <2>4, WriteMovesOne DEF Moves
  <2>5. QED
    BY <2>3, <2>4
<1>6. ASSUME NEW i \in Job, CancelJob(i) PROVE Moves(j)
  <2>1. Write(i, CancelledRow(jobs[i]), "cancelled", Nobody) /\ jobs[i].status = "queued"
    BY <1>6 DEF CancelJob
  <2>2. CASE i = j
    <3>1. jobs'[j] = [jobs[j] EXCEPT !.status = "cancelled"] /\ Traced(j, "cancelled", Nobody)
      BY <2>1, <2>2, WriteMovesOne DEF CancelledRow
    <3>2. /\ jobs'[j].status = "cancelled" /\ jobs'[j].attempts = jobs[j].attempts
          /\ jobs'[j].locked_by = jobs[j].locked_by
      BY <1>0, <3>1 DEF Row
    <3>3. QED
      BY <2>1, <2>2, <3>1, <3>2 DEF Moves, Leaves
  <2>3. CASE i # j
    BY <2>1, <2>3, WriteMovesOne DEF Moves
  <2>4. QED
    BY <2>2, <2>3
<1>7. CASE RecoverStaleJobs
  <2>1. PICK S \in SUBSET {i \in Job : Expired(jobs[i])} :
          /\ jobs' = [i \in Job |-> IF i \in S THEN Recovered(i) ELSE jobs[i]]
          /\ trail' = [i \in Job |->
                IF i \in S
                THEN Append(trail[i], EventOf("recovered", Recovered(i), Nobody))
                ELSE trail[i]]
    BY <1>7 DEF RecoverStaleJobs
  <2>2. CASE j \in S
    <3>1. jobs[j].status = "running" /\ jobs[j].lease < 0
      BY <2>2 DEF Expired
    <3>2. request[j].max_attempts \in Nat
      BY DEF TypeOK, Request
    <3>3. /\ Recovered(j).attempts = jobs[j].attempts /\ Recovered(j).locked_by = Nobody
          /\ Recovered(j).status \in {"queued", "failed"}
      BY <1>0, <3>2, RecoveredRows DEF Recovered, Free
    <3>4. jobs'[j] = Recovered(j) /\ Traced(j, "recovered", Nobody)
      BY <2>1, <2>2 DEF Traced
    <3>5. QED
      BY <3>1, <3>3, <3>4 DEF Moves, Stops
  <2>3. CASE j \notin S
    BY <2>1, <2>3 DEF Moves, Rests
  <2>4. QED
    BY <2>2, <2>3
<1>8. CASE PurgeTerminalJobs
  <2>1. PICK S \in SUBSET {i \in Job : Purgeable(jobs[i])} :
          jobs' = [i \in Job |-> IF i \in S THEN NoRow("purged", jobs[i].attempts)
                                            ELSE jobs[i]]
    BY <1>8 DEF PurgeTerminalJobs
  <2>2. CASE j \in S
    BY <1>8, <2>1, <2>2 DEF PurgeTerminalJobs, Purgeable, NoRow, Moves, IsPurged
  <2>3. CASE j \notin S
    BY <1>8, <2>1, <2>3 DEF PurgeTerminalJobs, Moves, Rests
  <2>4. QED
    BY <2>2, <2>3
<1>9. CASE Tick
  BY <1>0, <1>9, OtherRows DEF Tick, Moves, Rests
<1>10. CASE UNCHANGED queueVars
  BY <1>10 DEF queueVars, Moves, Rests
<1>11. QED
  BY <1>1, <1>2, <1>3, <1>4, <1>5, <1>6, <1>7, <1>8, <1>9, <1>10
  DEF Next, Enqueue, UseRecord

\* The lease protects the holder against everybody: recovery, purge, cancellation
\* and the bearers of older records.
THEOREM Protection == Spec => LeaseProtectsHolder
<1> DEFINE Guarded(j) == jobs[j].status = "running" /\ jobs[j].lease >= 0
                           /\ jobs'[j].status # "running"
                         => trail'[j][Len(trail'[j])].by = jobs[j].locked_by
<1>1. ASSUME QueueInv, [Next]_queueVars, NEW j \in Job PROVE Guarded(j)
  <2> SUFFICES ASSUME jobs[j].status = "running", jobs[j].lease >= 0,
                      jobs'[j].status # "running"
               PROVE  trail'[j][Len(trail'[j])].by = jobs[j].locked_by
    OBVIOUS
  <2>1. /\ jobs[j].lease \in Int /\ trail[j] \in Seq(Event)
        /\ Stops(j)
    BY <1>1, ColumnTypes, EveryJobMoves
    DEF QueueInv, TypeOK, Moves, Rests, Enters, Starts, Leaves, IsPurged, TERMINAL_STATUSES
  <2>2. PICK act : Traced(j, act, jobs[j].locked_by)
    BY <2>1 DEF Stops
  <2>3. trail'[j][Len(trail'[j])] = EventOf(act, jobs'[j], jobs[j].locked_by)
    BY <2>1, <2>2 DEF Traced
  <2>4. QED
    BY <2>3 DEF EventOf
<1>2. QueueInv /\ [Next]_queueVars => [\A j \in Job : Guarded(j)]_queueVars
  BY <1>1
<1>3. QED
  BY <1>2, QueueInvariant, PTL DEF Spec, LeaseProtectsHolder

-----------------------------------------------------------------------------
(* The audit trail. *)

\* The story of one job, and that a row which is not inserted has made no attempt.
Told(j) ==
    /\ trail[j] = <<>> <=> jobs[j].status = "absent"
    /\ \A i \in 1 .. (Len(trail[j]) - 1) : Follows(trail[j][i], trail[j][i + 1])
    /\ trail[j] # <<>> => trail[j][1].act = "enqueued" /\ trail[j][1].attempts = 0
    /\ Present(jobs[j]) =>
        /\ Latest(j).to = jobs[j].status
        /\ Latest(j).attempts = jobs[j].attempts
        /\ jobs[j].status = "running" => Latest(j).by = jobs[j].locked_by
    /\ jobs[j].status = "purged" => Latest(j).to \in TERMINAL_STATUSES

Untouched(j) == jobs[j].status = "absent" => jobs[j].attempts = 0

StoryInv == \A j \in Job : Told(j) /\ Untouched(j)

\* Appending to a sequence one element that may follow its last keeps a chain a chain.
LEMMA ChainGrows ==
    ASSUME NEW s \in Seq(Event), NEW e \in Event,
           \A i \in 1 .. (Len(s) - 1) : Follows(s[i], s[i + 1]),
           s # <<>> => Follows(s[Len(s)], e)
    PROVE  /\ \A i \in 1 .. (Len(Append(s, e)) - 1) :
                  Follows(Append(s, e)[i], Append(s, e)[i + 1])
           /\ Append(s, e) # <<>>
           /\ Append(s, e)[Len(Append(s, e))] = e
           /\ Append(s, e)[1] = IF s = <<>> THEN e ELSE s[1]
<1> DEFINE t == Append(s, e)
<1>1. /\ Len(s) \in Nat /\ Len(t) = Len(s) + 1 /\ t[Len(s) + 1] = e
      /\ \A i \in 1 .. Len(s) : t[i] = s[i]
      /\ s = <<>> <=> Len(s) = 0
  OBVIOUS
<1>2. t # <<>> /\ t[Len(t)] = e /\ t[1] = IF s = <<>> THEN e ELSE s[1]
  BY <1>1
<1> HIDE DEF t
<1>3. ASSUME NEW i \in 1 .. (Len(t) - 1) PROVE Follows(t[i], t[i + 1])
  <2>1. CASE i = Len(s)
    <3>1. t[i] = s[Len(s)] /\ t[i + 1] = e /\ s # <<>>
      BY <1>1, <2>1
    <3>2. QED
      BY <3>1
  <2>2. CASE i # Len(s)
    <3>1. i \in 1 .. (Len(s) - 1) /\ t[i] = s[i] /\ t[i + 1] = s[i + 1]
      BY <1>1, <1>3, <2>2
    <3>2. QED
      BY <3>1
  <2>3. QED
    BY <2>1, <2>2
<1>4. QED
  BY <1>2, <1>3 DEF t

\* What Told(j)' is when the transaction appended an event that may follow.
LEMMA TracedTells ==
    ASSUME TypeOK, TypeOK', NEW j \in Job, Told(j), NEW act \in Acts,
           NEW w \in Worker \cup {Nobody}, Traced(j, act, w),
           trail[j] # <<>> => Follows(Latest(j), EventOf(act, jobs'[j], w)),
           trail[j] = <<>> => act = "enqueued" /\ jobs'[j].attempts = 0,
           jobs'[j].status \notin {"absent", "purged"},
           jobs'[j].status = "running" => jobs'[j].locked_by = w
    PROVE  Told(j)'
<1> DEFINE e == EventOf(act, jobs'[j], w)
<1>1. trail[j] \in Seq(Event) /\ jobs'[j] \in Row
  BY DEF TypeOK
<1>2. /\ e \in Event
      /\ e.act = act /\ e.attempts = jobs'[j].attempts
      /\ e.to = jobs'[j].status /\ e.by = w
  BY <1>1, ColumnTypes DEF EventOf, Event, Acts
<1>3. trail'[j] = Append(trail[j], e)
  BY DEF Traced
<1> HIDE DEF e
<1>4. trail[j] # <<>> => Follows(trail[j][Len(trail[j])], e)
  BY DEF Latest, e
<1>5. \A i \in 1 .. (Len(trail[j]) - 1) : Follows(trail[j][i], trail[j][i + 1])
  BY DEF Told
<1>6. /\ \A i \in 1 .. (Len(trail'[j]) - 1) : Follows(trail'[j][i], trail'[j][i + 1])
      /\ trail'[j] # <<>>
      /\ trail'[j][Len(trail'[j])] = e
      /\ trail'[j][1] = IF trail[j] = <<>> THEN e ELSE trail[j][1]
  <2> DEFINE s == trail[j]
  <2>1. /\ \A i \in 1 .. (Len(Append(s, e)) - 1) : Follows(Append(s, e)[i], Append(s, e)[i + 1])
        /\ Append(s, e) # <<>>
        /\ Append(s, e)[Len(Append(s, e))] = e
        /\ Append(s, e)[1] = IF s = <<>> THEN e ELSE s[1]
    <3>1. s \in Seq(Event) /\ e \in Event
      BY <1>1, <1>2
    <3> HIDE DEF s
    <3>2. QED
      BY <1>4, <1>5, <3>1, ChainGrows, Zenon DEF s
  <2>2. QED
    BY <1>3, <2>1
<1>7. trail'[j][1].act = "enqueued" /\ trail'[j][1].attempts = 0
  BY <1>2, <1>6 DEF Told
<1>8. Latest(j)' = e
  BY <1>6 DEF Latest
<1>9. QED
  BY <1>2, <1>6, <1>7, <1>8 DEF Told

\* Every transaction continues the story of every job.
LEMMA StoryStep == QueueInv /\ StoryInv /\ [Next]_queueVars => StoryInv'
<1> SUFFICES ASSUME QueueInv, StoryInv, [Next]_queueVars, NEW j \in Job
             PROVE  Told(j)' /\ Untouched(j)'
  BY DEF StoryInv
<1>1. TypeOK /\ TypeOK' /\ Told(j) /\ Untouched(j) /\ Moves(j)
  BY TypingStep, EveryJobMoves DEF QueueInv, StoryInv
<1>2. /\ jobs[j] \in Row /\ jobs[j].attempts \in Nat
      /\ jobs[j].locked_by \in Worker \cup {Nobody}
  BY <1>1, ColumnTypes DEF TypeOK
<1>3. CASE Rests(j)
  BY <1>1, <1>3 DEF Rests, Told, Untouched, Latest, Present
<1>4. CASE Enters(j)
  <2>1. trail[j] = <<>> /\ "enqueued" \in Acts
    BY <1>1, <1>4 DEF Told, Enters, Acts
  <2>2. Told(j)'
    BY <1>1, <1>4, <2>1, TracedTells DEF Enters
  <2>3. QED
    BY <1>4, <2>2 DEF Enters, Untouched
<1>5. ASSUME NEW w \in Worker, Starts(j, w) PROVE Told(j)' /\ Untouched(j)'
  <2>1. /\ trail[j] # <<>> /\ Latest(j).to = "queued"
        /\ Latest(j).attempts = jobs[j].attempts
    BY <1>1, <1>5 DEF Told, Starts, Present
  <2>2. Follows(Latest(j), EventOf("claimed", jobs'[j], w))
    BY <1>5, <2>1 DEF Follows, EventOf, Starts
  <2>3. Told(j)'
    BY <1>1, <1>5, <2>1, <2>2, TracedTells DEF Starts, Acts
  <2>4. QED
    BY <1>5, <2>3 DEF Starts, Untouched
<1>6. CASE Stops(j)
  <2>1. /\ trail[j] # <<>> /\ Latest(j).to = "running"
        /\ Latest(j).attempts = jobs'[j].attempts /\ Latest(j).by = jobs[j].locked_by
    BY <1>1, <1>6 DEF Told, Stops, Present
  <2>2. jobs'[j].status \in {"queued", "succeeded", "failed"}
    BY <1>6 DEF Stops
  <2> DEFINE Legal == \E act \in Acts, w \in Worker \cup {Nobody} :
                        Traced(j, act, w) /\ Follows(Latest(j), EventOf(act, jobs'[j], w))
  <2>3. Legal
    <3>1. ASSUME jobs'[j].status \in {"succeeded", "failed"},
                 Traced(j, jobs'[j].status, jobs[j].locked_by)
          PROVE  Legal
      BY <1>2, <2>1, <3>1 DEF Follows, EventOf, Acts
    <3>2. ASSUME jobs'[j].status = "queued", Traced(j, "requeued", jobs[j].locked_by)
          PROVE  Legal
      BY <1>2, <2>1, <3>2 DEF Follows, EventOf, Acts
    <3>3. ASSUME jobs'[j].status \in {"queued", "failed"}, Traced(j, "recovered", Nobody)
          PROVE  Legal
      BY <1>2, <2>1, <3>3 DEF Follows, EventOf, Acts
    <3>4. QED
      BY <1>6, <3>1, <3>2, <3>3 DEF Stops
  <2>4. Told(j)'
    <3>1. PICK act \in Acts, w \in Worker \cup {Nobody} :
            Traced(j, act, w) /\ Follows(Latest(j), EventOf(act, jobs'[j], w))
      BY <2>3
    <3>2. QED
      BY <1>1, <2>1, <2>2, <3>1, TracedTells
  <2>5. QED
    BY <2>2, <2>4 DEF Untouched
<1>7. CASE Leaves(j)
  <2>1. /\ trail[j] # <<>> /\ Latest(j).to = "queued"
        /\ Latest(j).attempts = jobs[j].attempts
    BY <1>1, <1>7 DEF Told, Leaves, Present
  <2>2. Follows(Latest(j), EventOf("cancelled", jobs'[j], Nobody))
    BY <1>7, <2>1 DEF Follows, EventOf, Leaves
  <2>3. Told(j)'
    BY <1>1, <1>7, <2>1, <2>2, TracedTells DEF Leaves, Acts
  <2>4. QED
    BY <1>7, <2>3 DEF Leaves, Untouched
<1>8. CASE IsPurged(j)
  <2>1. Present(jobs[j]) /\ jobs[j].status # "absent" /\ jobs'[j].status = "purged"
        /\ ~Present(jobs'[j]) /\ trail'[j] = trail[j]
    BY <1>8 DEF IsPurged, Present, TERMINAL_STATUSES
  <2>2. Latest(j)' = Latest(j) /\ Latest(j).to \in TERMINAL_STATUSES
    BY <1>1, <1>8, <2>1 DEF Told, Latest, IsPurged
  <2>3. QED
    BY <1>1, <2>1, <2>2 DEF Told, Untouched
<1>9. QED
  BY <1>1, <1>3, <1>4, <1>5, <1>6, <1>7, <1>8 DEF Moves

\* At first there is nothing to tell,
LEMMA StoryStart == Init => StoryInv
BY DEF Init, StoryInv, Told, Untouched, Absent, NoRow, Present

\* and every state has the story that its rows call for.
LEMMA StoryInvariant == Spec => []StoryInv
<1>1. QED
  BY QueueInvariant, StoryStart, StoryStep, PTL DEF Spec

\* The audit trail is a complete and legal history of every job, whatever the number
\* of jobs, workers and attempts: no transition of a row goes untraced, no two claims
\* follow each other without an end, and nothing follows a verdict.
THEOREM Story == Spec => []TrailTellsTheStory
<1>1. StoryInv => TrailTellsTheStory
  BY DEF StoryInv, Told, TrailTellsTheStory
<1>2. QED
  BY <1>1, StoryInvariant, PTL

-----------------------------------------------------------------------------
(* The trigger. *)

\* The statements of jobs.py never meet the exception of jobs_guard_transition.
THEOREM Trigger == Spec => []TriggerAccepts
<1> SUFFICES ASSUME QueueInv PROVE TriggerAccepts
  <2>1. QueueInv => TriggerAccepts
    BY DEF TriggerAccepts
  <2>2. QED
    BY <2>1, QueueInvariant, PTL
<1>0. \A j \in Job : jobs[j] \in Row /\ request[j].max_attempts \in Nat
  BY DEF QueueInv, TypeOK, Request
<1>1. ASSUME NEW j \in Job, NEW w \in Worker, Claimable(j, w)
      PROVE  GuardTransition(jobs[j], ClaimedRow(jobs[j], w), NoToken, FALSE)
  <2>1. jobs[j].status = "queued" /\ jobs[j] \in Row
    BY <1>0, <1>1 DEF Claimable
  <2>2. QED
    BY <2>1, HeldRows, QueueAssumption DEF GuardTransition
<1>2. ASSUME NEW j \in Job, jobs[j].status = "queued"
      PROVE  GuardTransition(jobs[j], CancelledRow(jobs[j]), NoToken, FALSE)
  <2>1. /\ CancelledRow(jobs[j]).status = "cancelled"
        /\ CancelledRow(jobs[j]).attempts = jobs[j].attempts
    BY <1>0 DEF CancelledRow, Row
  <2>2. QED
    BY <1>2, <2>1 DEF GuardTransition
<1>3. ASSUME NEW j \in Job, Expired(jobs[j])
      PROVE  GuardTransition(jobs[j], Recovered(j), NoToken, TRUE)
  <2>1. Free(jobs[j], Recovered(j), "lease_expired") /\ Recovered(j).status \in {"queued", "failed"}
    BY <1>0, RecoveredRows DEF Recovered
  <2>2. QED
    BY <1>3, <2>1 DEF GuardTransition, Expired, Free
<1>4. ASSUME NEW c \in records, Owns(c)
      PROVE  LET old == jobs[c.job]
             IN  /\ old.lease > 0 => GuardTransition(old, RenewedRow(old), TokenOf(c), FALSE)
                 /\ GuardTransition(old, SucceededRow(old), TokenOf(c), FALSE)
                 /\ GuardTransition(old, FailedRow(old, "handler_error"), TokenOf(c), FALSE)
                 /\ \A d \in {0, BackoffCap}, code \in {"handler_error", "worker_shutdown"} :
                     GuardTransition(old, RequeuedRow(old, d, code), TokenOf(c), FALSE)
  <2> DEFINE old == jobs[c.job]
  <2>1. c.job \in Job /\ c \in JobRecord
    BY DEF QueueInv, TypeOK, JobRecord
  <2>2. /\ old \in Row /\ old.status = "running" /\ old.lease \in Int
        /\ TokenOf(c) = <<old.attempts, old.locked_by>> /\ old.lease <= Lease
    BY <1>0, <1>4, <2>1, ColumnTypes DEF Owns, TokenOf, QueueInv, RowsKept, RowKept
  <2> HIDE DEF old
  <2>3. ASSUME NEW new, NEW code,
               Free(old, new, code), new.status \in {"succeeded", "failed", "queued"}
        PROVE  GuardTransition(old, new, TokenOf(c), FALSE)
    BY <2>2, <2>3 DEF GuardTransition, Free
  <2>4. ASSUME old.lease > 0
        PROVE  GuardTransition(old, RenewedRow(old), TokenOf(c), FALSE)
    <3>1. Larger(old.lease, Lease) = Lease
      BY <2>2, QueueAssumption DEF Larger
    <3>2. RenewedRow(old) = [old EXCEPT !.lease = Lease]
      BY <2>2, <3>1 DEF RenewedRow, Row
    <3>3. /\ RenewedRow(old).status = "running" /\ RenewedRow(old).attempts = old.attempts
          /\ RenewedRow(old).lease = Lease
      BY <2>2, <3>2 DEF Row
    <3>4. Lease <= Larger(old.lease, MaxLease)
      BY <2>2, QueueAssumption DEF Larger
    <3>5. QED
      BY <2>2, <2>4, <3>2, <3>3, <3>4 DEF GuardTransition
  <2>5. GuardTransition(old, SucceededRow(old), TokenOf(c), FALSE)
    BY <2>2, <2>3, FreedRows DEF ErrorCode
  <2>6. GuardTransition(old, FailedRow(old, "handler_error"), TokenOf(c), FALSE)
    BY <2>2, <2>3, FreedRows DEF ErrorCode
  <2>7. ASSUME NEW d \in {0, BackoffCap}, NEW code \in {"handler_error", "worker_shutdown"}
        PROVE  GuardTransition(old, RequeuedRow(old, d, code), TokenOf(c), FALSE)
    <3>1. d \in Int /\ code \in ErrorCode
      BY QueueAssumption DEF ErrorCode
    <3>2. QED
      BY <2>2, <2>3, <3>1, FreedRows
  <2>8. QED
    BY <2>4, <2>5, <2>6, <2>7 DEF old
<1>5. QED
  BY <1>1, <1>2, <1>3, <1>4 DEF TriggerAccepts

-----------------------------------------------------------------------------
(* The refinement. *)

\* The queue keeps its promise for any number of jobs and workers.
THEOREM Promised == Spec => KeepsPromise
<1> DEFINE Meaning(row) ==
             CASE row.status = "absent" -> "unknown"
               [] row.status \in {"queued", "running"} -> "open"
               [] row.status = "purged" -> "forgotten"
               [] OTHER -> row.status
<1>1. Init => Promise!PromiseInit
  <2> SUFFICES ASSUME Init PROVE Promise!PromiseInit
    OBVIOUS
  <2>1. \A j \in Job : /\ jobs[j].locked_by = Nobody /\ jobs[j].attempts = 0
                       /\ jobs[j].status = "absent"
    BY DEF Init, Absent, NoRow
  <2>2. \A j \in Job : Meaning(jobs[j]) = "unknown"
    BY <2>1
  <2>3. QED
    BY <2>1, <2>2 DEF Promise!PromiseInit
<1>2. ASSUME QueueInv, StoryInv, [Next]_queueVars PROVE [Promise!PromiseNext]_(Promise!promiseVars)
  <2> SUFFICES ASSUME NEW j \in Job PROVE Promise!JobStep(j)
    BY DEF Promise!PromiseNext
  <2>0. Moves(j) /\ Untouched(j) /\ RowKept(jobs[j], request[j])
    BY <1>2, EveryJobMoves DEF QueueInv, StoryInv, RowsKept
  <2>1. /\ jobs[j].status = "absent" => Meaning(jobs[j]) = "unknown"
        /\ jobs[j].status \in {"queued", "running"} => Meaning(jobs[j]) = "open"
        /\ jobs[j].status = "purged" => Meaning(jobs[j]) = "forgotten"
        /\ jobs[j].status \in TERMINAL_STATUSES => Meaning(jobs[j]) = jobs[j].status
    BY DEF TERMINAL_STATUSES
  <2>2. /\ jobs'[j].status = "absent" => Meaning(jobs'[j]) = "unknown"
        /\ jobs'[j].status \in {"queued", "running"} => Meaning(jobs'[j]) = "open"
        /\ jobs'[j].status = "purged" => Meaning(jobs'[j]) = "forgotten"
        /\ jobs'[j].status \in TERMINAL_STATUSES => Meaning(jobs'[j]) = jobs'[j].status
    BY DEF TERMINAL_STATUSES
  <2>3. CASE Rests(j)
    BY <2>3 DEF Rests, Promise!JobStep, Promise!Rest
  <2>4. CASE Enters(j)
    <3>1. Promise!Submit(j)
      BY <2>0, <2>1, <2>2, <2>4 DEF Enters, Untouched, RowKept, Promise!Submit
    <3>2. QED
      BY <3>1 DEF Promise!JobStep
  <2>5. ASSUME NEW w \in Worker, Starts(j, w) PROVE Promise!JobStep(j)
    <3>1. jobs[j].attempts \in Nat /\ request[j].max_attempts \in Nat
      BY <1>2, ColumnTypes DEF QueueInv, TypeOK, Request
    <3>2. jobs[j].attempts < MaxAttempts
      BY <2>0, <2>5, <3>1, QueueAssumption DEF Starts, RowKept, Present
    <3>3. Promise!Grant(j, w)
      BY <2>0, <2>1, <2>2, <2>5, <3>2 DEF Starts, RowKept, Promise!Grant
    <3>4. QED
      BY <3>3 DEF Promise!JobStep
  <2>6. CASE Stops(j)
    <3>1. CASE jobs'[j].status = "queued"
      <4>1. Promise!Revoke(j)
        BY <2>0, <2>1, <2>2, <2>6, <3>1 DEF Stops, RowKept, Promise!Revoke
      <4>2. QED
        BY <4>1 DEF Promise!JobStep
    <3>2. ASSUME NEW v \in {"succeeded", "failed"}, jobs'[j].status = v
          PROVE  Promise!JobStep(j)
      <4>1. Promise!Decide(j, v)
        BY <2>0, <2>1, <2>2, <2>6, <3>2 DEF Stops, RowKept, Promise!Decide, TERMINAL_STATUSES
      <4>2. QED
        BY <4>1 DEF Promise!JobStep, Promise!Verdict
    <3>3. QED
      BY <2>6, <3>1, <3>2 DEF Stops
  <2>7. CASE Leaves(j)
    <3>1. Promise!Withdraw(j)
      BY <2>0, <2>1, <2>2, <2>7 DEF Leaves, RowKept, Promise!Withdraw, TERMINAL_STATUSES
    <3>2. QED
      BY <3>1 DEF Promise!JobStep
  <2>8. CASE IsPurged(j)
    <3>1. Promise!Forget(j)
      BY <2>0, <2>1, <2>2, <2>8
      DEF IsPurged, RowKept, Promise!Forget, Promise!Verdict, TERMINAL_STATUSES
    <3>2. QED
      BY <3>1 DEF Promise!JobStep
  <2>9. QED
    BY <2>0, <2>3, <2>4, <2>5, <2>6, <2>7, <2>8 DEF Moves
<1>3. QED
  BY <1>1, <1>2, QueueInvariant, StoryInvariant, PTL DEF Spec, KeepsPromise, Promise!PromiseSpec

-----------------------------------------------------------------------------
(* Every record a process works with was handed out by a claim. *)

HandsKnown == \A w \in Worker : Active(w) \/ At(w, "claimed") => Hand(w) \in records

\* No step forgets a record.
LEMMA RecordsGrow == [Next]_queueVars => records \subseteq records'
BY DEF Next, Enqueue, UseRecord, EnqueueJob, EnqueueConflict, EnqueueReplay, ClaimNextJob,
       RenewLease, MarkSucceeded, MarkFailed, ForceRelease, Requeue, Write, CancelJob,
       RecoverStaleJobs, PurgeTerminalJobs, Tick, queueVars

\* A step of a worker, of the clock or of a client is a step of the queue, or leaves
\* the table alone.
LEMMA StepIsQueueStep ==
    ASSUME HandsKnown, [AttemptNext]_allVars
    PROVE  [Next]_queueVars
<1>1. ASSUME NEW w \in Worker, MainStep(w) PROVE [Next]_queueVars
  <2>1. CASE ClaimCommits(w)
    BY <2>1 DEF ClaimCommits, Next
  <2>2. CASE PublicationCommits(w)
    <3>1. Hand(w) \in records
      BY <2>2 DEF PublicationCommits, HandsKnown, Active, At
    <3>2. UseRecord(Hand(w))
      BY <2>2 DEF PublicationCommits, UseRecord
    <3>3. QED
      BY <3>1, <3>2 DEF Next
  <2>3. CASE ~ClaimCommits(w) /\ ~PublicationCommits(w)
    BY <1>1, <2>3 DEF MainStep, SendClaim, ClaimAnswered, ClaimFindsNothing, HandlerEnds,
                      JudgeAttempt, PublicationAnswered, PublicationRefused
  <2>4. QED
    BY <2>1, <2>2, <2>3
<1>2. ASSUME NEW w \in Worker, KeeperStep(w) PROVE [Next]_queueVars
  <2>1. CASE RenewalCommits(w)
    <3>1. Hand(w) \in records
      BY <2>1 DEF RenewalCommits, HandsKnown
    <3>2. UseRecord(Hand(w))
      BY <2>1 DEF RenewalCommits, UseRecord
    <3>3. QED
      BY <3>1, <3>2 DEF Next
  <2>2. CASE ~RenewalCommits(w)
    BY <1>2, <2>2 DEF KeeperStep, KeeperExpires, SendRenewal, RenewalRefused, RenewalAnswered
  <2>3. QED
    BY <2>1, <2>2
<1>3. ASSUME NEW w \in Worker, ControlStep(w) PROVE [Next]_queueVars
  <2>1. CASE ReleaseCommits(w)
    <3>1. Hand(w) \in records
      BY <2>1 DEF ReleaseCommits, HandsKnown
    <3>2. UseRecord(Hand(w))
      BY <2>1 DEF ReleaseCommits, UseRecord
    <3>3. QED
      BY <3>1, <3>2 DEF Next
  <2>2. CASE ~ReleaseCommits(w)
    BY <1>3, <2>2 DEF ControlStep, ForceStop, ReleaseAnswered, ReleaseFails
  <2>3. QED
    BY <2>1, <2>2
<1>4. ASSUME NEW w \in Worker, FaultStep(w) PROVE [Next]_queueVars
  BY <1>4 DEF FaultStep, ClaimBreaks, RenewalBreaks, PublicationBreaks, Dies
<1>5. CASE WorkerRecovers
  BY <1>5 DEF WorkerRecovers, Next
<1>6. CASE TimePasses
  BY <1>6 DEF TimePasses, Next
<1>7. CASE Client
  BY <1>7 DEF Client, Next, Enqueue
<1>8. CASE UNCHANGED allVars
  BY <1>8 DEF allVars, queueVars
<1>9. QED
  BY <1>1, <1>2, <1>3, <1>4, <1>5, <1>6, <1>7, <1>8 DEF AttemptNext

\* A process only ever holds the record its last claim returned.
LEMMA HandsStep ==
    ASSUME HandsKnown, worker \in [Worker -> Process], [AttemptNext]_allVars
    PROVE  HandsKnown'
<1>1. records \subseteq records'
  BY StepIsQueueStep, RecordsGrow
<1> DEFINE Holds(p) == p.at \in {"working", "ended", "publishing", "answer", "claimed"}
<1>2. SUFFICES ASSUME NEW v \in Worker, Holds(worker'[v]) PROVE worker'[v].rec \in records'
  BY DEF HandsKnown, Hand, Active, At
<1>3. Holds(worker[v]) => worker[v].rec \in records'
  BY <1>1 DEF HandsKnown, Hand, Active, At
<1>4. ASSUME NEW w \in Worker, MainStep(w) PROVE worker'[v].rec \in records'
  <2>1. CASE SendClaim(w)
    BY <1>2, <1>3, <2>1 DEF SendClaim, Idle, Process
  <2>2. CASE ClaimCommits(w)
    BY <1>2, <1>3, <2>2 DEF ClaimCommits, Process
  <2>3. CASE ClaimAnswered(w)
    BY <1>2, <1>3, <2>3 DEF ClaimAnswered, Process, At
  <2>4. CASE ClaimFindsNothing(w)
    BY <1>2, <1>3, <2>4 DEF ClaimFindsNothing, BackToIdle, Idle
  <2>5. ASSUME NEW r, HandlerEnds(w, r) PROVE worker'[v].rec \in records'
    BY <1>2, <1>3, <2>5 DEF HandlerEnds, Process, At
  <2>6. CASE JudgeAttempt(w)
    BY <1>2, <1>3, <2>6 DEF JudgeAttempt, Process, At, BackToIdle, Idle
  <2>7. CASE PublicationCommits(w)
    BY <1>2, <1>3, <2>7 DEF PublicationCommits, Process, At
  <2>8. CASE PublicationAnswered(w) \/ PublicationRefused(w)
    BY <1>2, <1>3, <2>8 DEF PublicationAnswered, PublicationRefused, Verdict, BackToIdle, Idle
  <2>9. QED
    BY <1>4, <2>1, <2>2, <2>3, <2>4, <2>5, <2>6, <2>7, <2>8 DEF MainStep
<1>5. ASSUME NEW w \in Worker, KeeperStep(w) PROVE worker'[v].rec \in records'
  BY <1>2, <1>3, <1>5
  DEF KeeperStep, KeeperExpires, SendRenewal, RenewalCommits, RenewalRefused,
      RenewalAnswered, Process
<1>6. ASSUME NEW w \in Worker, ControlStep(w) PROVE worker'[v].rec \in records'
  BY <1>2, <1>3, <1>6
  DEF ControlStep, ForceStop, ReleaseCommits, ReleaseAnswered, ReleaseFails, Process
<1>7. ASSUME NEW w \in Worker, FaultStep(w) PROVE worker'[v].rec \in records'
  <2>1. CASE ClaimBreaks(w) \/ Dies(w)
    BY <1>2, <1>3, <2>1 DEF ClaimBreaks, Dies, BackToIdle, Idle
  <2>2. CASE RenewalBreaks(w)
    BY <1>2, <1>3, <2>2 DEF RenewalBreaks, Process
  <2>3. CASE PublicationBreaks(w)
    BY <1>2, <1>3, <2>3 DEF PublicationBreaks, Verdict, BackToIdle, Idle, Process
  <2>4. QED
    BY <1>7, <2>1, <2>2, <2>3 DEF FaultStep
<1>8. CASE WorkerRecovers \/ Client
  BY <1>2, <1>3, <1>8 DEF WorkerRecovers, Client, attemptVars
<1>9. CASE TimePasses
  <2> DEFINE l == Larger(worker[v].left - 1, 0)
             o == Larger(worker[v].offer - 1, 0)
  <2>1. worker'[v] = [worker[v] EXCEPT !.left = l, !.offer = o]
    BY <1>2, <1>9 DEF TimePasses
  <2> HIDE DEF l, o
  <2>2. worker'[v].at = worker[v].at /\ worker'[v].rec = worker[v].rec
    BY <1>2, <2>1 DEF Process
  <2>3. QED
    BY <1>2, <1>3, <2>2
<1>10. CASE UNCHANGED allVars
  BY <1>2, <1>3, <1>10 DEF allVars
<1>11. QED
  BY <1>4, <1>5, <1>6, <1>7, <1>8, <1>9, <1>10 DEF AttemptNext

-----------------------------------------------------------------------------
(* What the processes know is well typed.                                   *)

\* Setting the fields of a process keeps it a process.
LEMMA FieldTypes ==
    ASSUME NEW p \in Process
    PROVE  /\ \A a \in {"claimed", "working", "ended", "publishing", "answer"} :
                 [p EXCEPT !.at = a] \in Process
           /\ \A c \in JobRecord : [p EXCEPT !.at = "claimed", !.rec = c] \in Process
           /\ \A r \in Result : [p EXCEPT !.at = "ended", !.result = r] \in Process
           /\ \A x \in {"lease_lost", "lease_expired", "worker_shutdown"} :
                 [p EXCEPT !.lost = x] \in Process
           /\ \A n \in {"none", "done"} : [p EXCEPT !.renewal = n] \in Process
           /\ \A o \in 0 .. Lease : [p EXCEPT !.renewal = "sent", !.offer = o] \in Process
           /\ [p EXCEPT !.renewal = "none", !.lost = "lease_lost"] \in Process
           /\ \A l \in 0 .. Lease : [p EXCEPT !.renewal = "none", !.left = l] \in Process
           /\ [p EXCEPT !.release = "done"] \in Process
           /\ [p EXCEPT !.release = "none", !.lost = "worker_shutdown"] \in Process
           /\ [p EXCEPT !.forced = TRUE] \in Process
           /\ \A l, o \in 0 .. Lease : [p EXCEPT !.left = l, !.offer = o] \in Process
<1>1. \A a \in {"claimed", "working", "ended", "publishing", "answer"} :
                 [p EXCEPT !.at = a] \in Process
  BY DEF Process
<1>2. \A c \in JobRecord : [p EXCEPT !.at = "claimed", !.rec = c] \in Process
  BY DEF Process
<1>3. \A r \in Result : [p EXCEPT !.at = "ended", !.result = r] \in Process
  BY DEF Process
<1>4. \A x \in {"lease_lost", "lease_expired", "worker_shutdown"} :
                 [p EXCEPT !.lost = x] \in Process
  BY DEF Process
<1>5. \A n \in {"none", "done"} : [p EXCEPT !.renewal = n] \in Process
  BY DEF Process
<1>6. \A o \in 0 .. Lease : [p EXCEPT !.renewal = "sent", !.offer = o] \in Process
  BY DEF Process
<1>7. [p EXCEPT !.renewal = "none", !.lost = "lease_lost"] \in Process
  BY DEF Process
<1>8. \A l \in 0 .. Lease : [p EXCEPT !.renewal = "none", !.left = l] \in Process
  BY DEF Process
<1>9. [p EXCEPT !.release = "done"] \in Process
  BY DEF Process
<1>10. [p EXCEPT !.release = "none", !.lost = "worker_shutdown"] \in Process
  BY DEF Process
<1>11. [p EXCEPT !.forced = TRUE] \in Process
  BY DEF Process
<1>12. \A l, o \in 0 .. Lease : [p EXCEPT !.left = l, !.offer = o] \in Process
  BY DEF Process
<1>13. QED
  BY <1>1, <1>2, <1>3, <1>4, <1>5, <1>6, <1>7, <1>8, <1>9, <1>10, <1>11, <1>12

\* The states of a process between two attempts.
LEMMA IdleTypes ==
    /\ Idle \in Process
    /\ [Idle EXCEPT !.at = "dead"] \in Process
    /\ [Idle EXCEPT !.at = "claiming", !.left = Lease] \in Process
    /\ \A f \in BOOLEAN : [Idle EXCEPT !.forced = f] \in Process
<1>1. Lease \in 0 .. Lease /\ 0 \in 0 .. Lease
  BY QueueAssumption
<1>2. Idle \in Process
  BY <1>1 DEF Idle, Process, Result
<1>3. \A l \in 0 .. Lease : [Idle EXCEPT !.at = "claiming", !.left = l] \in Process
  BY <1>2 DEF Process
<1>4. \A f \in BOOLEAN : [Idle EXCEPT !.forced = f] \in Process
  BY <1>2 DEF Process
<1>5. [Idle EXCEPT !.at = "dead"] \in Process
  BY <1>2 DEF Process
<1>6. QED
  BY <1>1, <1>2, <1>3, <1>4, <1>5

\* Every step keeps the processes well typed.
LEMMA ProcessStep ==
    ASSUME TypeOK', worker \in [Worker -> Process], [AttemptNext]_allVars
    PROVE  worker' \in [Worker -> Process]
<1>1. ASSUME NEW w \in Worker PROVE BackToIdle(w) \in Process
  <2>1. worker[w].forced \in BOOLEAN
    BY DEF Process
  <2>2. QED
    BY <2>1, IdleTypes DEF BackToIdle
<1>2. ASSUME NEW w \in Worker, MainStep(w) PROVE worker' \in [Worker -> Process]
  <2>1. CASE SendClaim(w)
    BY <2>1, IdleTypes DEF SendClaim
  <2>2. CASE ClaimCommits(w)
    <3>1. PICK c \in records' : worker' = [worker EXCEPT ![w].at = "claimed", ![w].rec = c]
      BY <2>2 DEF ClaimCommits
    <3>2. c \in JobRecord
      BY <3>1 DEF TypeOK
    <3>3. QED
      BY <3>1, <3>2, FieldTypes
  <2>3. CASE ClaimAnswered(w)
    BY <2>3, FieldTypes DEF ClaimAnswered
  <2>4. CASE ClaimFindsNothing(w)
    BY <1>1, <2>4 DEF ClaimFindsNothing
  <2>5. ASSUME NEW r \in Result, HandlerEnds(w, r) PROVE worker' \in [Worker -> Process]
    BY <2>5, FieldTypes DEF HandlerEnds
  <2>6. CASE JudgeAttempt(w)
    BY <1>1, <2>6, FieldTypes DEF JudgeAttempt
  <2>7. CASE PublicationCommits(w)
    BY <2>7, FieldTypes DEF PublicationCommits
  <2>8. CASE PublicationAnswered(w) \/ PublicationRefused(w)
    BY <1>1, <2>8 DEF PublicationAnswered, PublicationRefused, Verdict
  <2>9. QED
    BY <1>2, <2>1, <2>2, <2>3, <2>4, <2>5, <2>6, <2>7, <2>8 DEF MainStep
<1>3. ASSUME NEW w \in Worker, KeeperStep(w) PROVE worker' \in [Worker -> Process]
  <2>1. CASE KeeperExpires(w)
    BY <2>1, FieldTypes DEF KeeperExpires
  <2>2. CASE SendRenewal(w)
    <3>1. Lease \in 0 .. Lease
      BY QueueAssumption
    <3>2. QED
      BY <2>2, <3>1, FieldTypes DEF SendRenewal
  <2>3. CASE RenewalCommits(w)
    BY <2>3, FieldTypes DEF RenewalCommits
  <2>4. CASE RenewalRefused(w)
    BY <2>4, FieldTypes DEF RenewalRefused
  <2>5. CASE RenewalAnswered(w)
    <3>1. worker[w].offer \in 0 .. Lease
      BY DEF Process
    <3>2. CASE worker' = [worker EXCEPT ![w].renewal = "none", ![w].left = worker[w].offer]
      BY <3>1, <3>2, FieldTypes
    <3>3. CASE worker' = [worker EXCEPT ![w].renewal = "none"]
      BY <3>3, FieldTypes
    <3>4. QED
      BY <2>5, <3>2, <3>3 DEF RenewalAnswered
  <2>6. QED
    BY <1>3, <2>1, <2>2, <2>3, <2>4, <2>5 DEF KeeperStep
<1>4. ASSUME NEW w \in Worker, ControlStep(w) PROVE worker' \in [Worker -> Process]
  <2>1. CASE ForceStop(w)
    BY <2>1, FieldTypes DEF ForceStop
  <2>2. CASE ReleaseCommits(w)
    BY <2>2, FieldTypes DEF ReleaseCommits
  <2>3. CASE ReleaseAnswered(w)
    BY <2>3, FieldTypes DEF ReleaseAnswered
  <2>4. CASE ReleaseFails(w)
    <3>1. /\ [worker[w] EXCEPT !.lost = "lease_lost"] \in Process
          /\ [worker[w] EXCEPT !.lost = "worker_shutdown"] \in Process
      BY FieldTypes
    <3>2. \/ worker' = [worker EXCEPT ![w].lost = "lease_lost"]
          \/ worker' = [worker EXCEPT ![w].lost = "worker_shutdown"]
      BY <2>4 DEF ReleaseFails
    <3>3. QED
      BY <3>1, <3>2
  <2>5. QED
    BY <1>4, <2>1, <2>2, <2>3, <2>4 DEF ControlStep
<1>5. ASSUME NEW w \in Worker, FaultStep(w) PROVE worker' \in [Worker -> Process]
  <2>1. CASE ClaimBreaks(w)
    BY <1>1, <2>1 DEF ClaimBreaks
  <2>2. CASE RenewalBreaks(w)
    BY <2>2, FieldTypes DEF RenewalBreaks
  <2>3. CASE PublicationBreaks(w)
    <3>1. [worker[w] EXCEPT !.at = "publishing"] \in Process
      BY FieldTypes
    <3>2. \/ worker' = [worker EXCEPT ![w].at = "publishing"]
          \/ worker' = [worker EXCEPT ![w] = BackToIdle(w)]
      BY <2>3 DEF PublicationBreaks, Verdict
    <3>3. QED
      BY <1>1, <3>1, <3>2
  <2>4. CASE Dies(w)
    BY <2>4, IdleTypes DEF Dies
  <2>5. QED
    BY <1>5, <2>1, <2>2, <2>3, <2>4 DEF FaultStep
<1>6. CASE WorkerRecovers \/ Client
  BY <1>6 DEF WorkerRecovers, Client, attemptVars
<1>7. CASE TimePasses
  <2>1. ASSUME NEW w \in Worker
        PROVE  [worker[w] EXCEPT !.left = Larger(worker[w].left - 1, 0),
                                 !.offer = Larger(worker[w].offer - 1, 0)] \in Process
    <3>1. worker[w].left \in 0 .. Lease /\ worker[w].offer \in 0 .. Lease
      BY DEF Process
    <3>2. /\ Larger(worker[w].left - 1, 0) \in 0 .. Lease
          /\ Larger(worker[w].offer - 1, 0) \in 0 .. Lease
      BY <3>1, QueueAssumption DEF Larger
    <3>3. QED
      BY <3>2, FieldTypes
  <2>2. worker' = [w \in Worker |->
                     [worker[w] EXCEPT !.left = Larger(worker[w].left - 1, 0),
                                       !.offer = Larger(worker[w].offer - 1, 0)]]
    BY <1>7 DEF TimePasses
  <2>3. QED
    BY <2>1, <2>2
<1>8. CASE UNCHANGED allVars
  BY <1>8 DEF allVars
<1>9. QED
  BY <1>2, <1>3, <1>4, <1>5, <1>6, <1>7, <1>8 DEF AttemptNext

-----------------------------------------------------------------------------
(* The workers implement the most general client of the queue.              *)

AttemptInv == QueueInv /\ worker \in [Worker -> Process] /\ HandsKnown

\* The invariant holds at first, and every step that keeps it is one of the queue.
LEMMA AttemptInvariant ==
    /\ AttemptInit => AttemptInv
    /\ AttemptInv /\ [AttemptNext]_allVars => AttemptInv' /\ [Next]_queueVars
<1>1. AttemptInit => AttemptInv
  <2> SUFFICES ASSUME AttemptInit PROVE AttemptInv
    OBVIOUS
  <2>1. QueueInv
    BY QueueStart DEF AttemptInit
  <2>2. worker \in [Worker -> Process]
    BY IdleTypes DEF AttemptInit
  <2>3. HandsKnown
    BY DEF AttemptInit, HandsKnown, Active, At, Idle
  <2>4. QED
    BY <2>1, <2>2, <2>3 DEF AttemptInv
<1>2. ASSUME AttemptInv, [AttemptNext]_allVars PROVE AttemptInv' /\ [Next]_queueVars
  <2>1. [Next]_queueVars
    BY <1>2, StepIsQueueStep DEF AttemptInv
  <2>2. QueueInv'
    BY <1>2, <2>1, QueueStep DEF AttemptInv
  <2>3. worker' \in [Worker -> Process]
    BY <1>2, <2>2, ProcessStep DEF AttemptInv, QueueInv
  <2>4. HandsKnown'
    BY <1>2, HandsStep DEF AttemptInv
  <2>5. QED
    BY <2>1, <2>2, <2>3, <2>4 DEF AttemptInv
<1>3. QED
  BY <1>1, <1>2

\* Whatever the threads, crashes, lost answers and forced stops of the workers do to
\* the table, functions of jobs.py called with records of claims could have done.
THEOREM WorkersUseTheQueue == AttemptSpec => UsesTheQueue
<1>1. AttemptInit => Init
  BY DEF AttemptInit
<1>2. QED
  BY <1>1, AttemptInvariant, PTL DEF AttemptSpec, UsesTheQueue, Spec

\* So no two executions of a job can both write its result, whatever the workers know.
THEOREM WorkersAreFenced == AttemptSpec => []StaleRecordsAreFenced
<1>1. QED
  BY WorkersUseTheQueue, Fencing, PTL DEF UsesTheQueue

-----------------------------------------------------------------------------
(* The local deadline.  What a process may trust: until its deadline, and until the *)
(* deadline that an answered renewal will give it, the row is under its record.     *)

\* The process has the record of an attempt; it has heard of no loss of its lease.
Holding(p) == p.at \in {"claimed", "working", "ended", "publishing", "answer"}
Trusting(p) ==
    /\ p.at \in {"claimed", "working", "ended"}
    /\ p.lost = "no" /\ p.release = "none"

Covered(c, span) == span > 0 => Owns(c) /\ jobs[c.job].lease >= span

LeaseKept(w, p) ==
    /\ Holding(p) => p.rec.by = w
    /\ p.at = "claiming" => p.renewal = "none"
    /\ Trusting(p) => /\ Covered(p.rec, p.left)
                      /\ p.renewal = "done" => Covered(p.rec, p.offer)

LeasesKept == \A w \in Worker : LeaseKept(w, worker[w])

\* The transactions that cannot take the row from the bearer of record c while its
\* lease runs: all but the end of its own attempt and the passage of time.
Elsewhere(c) ==
    \/ Enqueue
    \/ \E w \in Worker : ClaimNextJob(w)
    \/ RenewLease(c)
    \/ \E d \in records \ {c} : UseRecord(d)
    \/ \E j \in Job : CancelJob(j)
    \/ RecoverStaleJobs
    \/ PurgeTerminalJobs
    \/ UNCHANGED queueVars

\* They leave it the row, and at least as much time.
LEMMA OwnerIsSafe ==
    ASSUME QueueInv, NEW c \in records, Elsewhere(c), Owns(c), jobs[c.job].lease > 0
    PROVE  Owns(c)' /\ jobs'[c.job].lease >= jobs[c.job].lease
<1> DEFINE j == c.job
<1>0. /\ j \in Job /\ jobs[j] \in Row /\ jobs[j].lease \in Int
      /\ jobs \in [Job -> Row]
      /\ jobs[j].status = "running" /\ TypeOK
  BY ColumnTypes DEF QueueInv, TypeOK, JobRecord, Owns
<1>1. SUFFICES \/ jobs'[j] = jobs[j]
               \/ jobs'[j] = RenewedRow(jobs[j])
  <2>1. CASE jobs'[j] = jobs[j]
    BY <1>0, <2>1 DEF Owns
  <2>2. CASE jobs'[j] = RenewedRow(jobs[j])
    <3>1. /\ jobs'[j].status = jobs[j].status /\ jobs'[j].locked_by = jobs[j].locked_by
          /\ jobs'[j].attempts = jobs[j].attempts
          /\ jobs'[j].lease = Larger(jobs[j].lease, Lease)
      BY <1>0, <2>2 DEF RenewedRow, Row
    <3>2. Larger(jobs[j].lease, Lease) >= jobs[j].lease
      BY <1>0, QueueAssumption DEF Larger
    <3>3. QED
      BY <3>1, <3>2 DEF Owns
  <2>3. QED
    BY <1>1, <2>1, <2>2
<1>2. CASE Enqueue
  BY <1>0, <1>2 DEF Enqueue, EnqueueJob, EnqueueConflict, EnqueueReplay
<1>3. ASSUME NEW w \in Worker, ClaimNextJob(w) PROVE jobs'[j] = jobs[j]
  BY <1>0, <1>3 DEF ClaimNextJob, Claimable
<1>4. CASE RenewLease(c)
  BY <1>0, <1>4 DEF RenewLease
<1>5. ASSUME NEW d \in records \ {c}, UseRecord(d) PROVE jobs'[j] = jobs[j]
  <2>1. d.job \in Job
    BY DEF QueueInv, TypeOK, JobRecord
  <2>2. ~(d.job = j /\ Owns(d))
    <3>1. d.job = c.job /\ d.attempts = c.attempts => d = c
      BY DEF QueueInv, RecordsKept
    <3>2. QED
      BY <1>5, <3>1 DEF Owns
  <2>3. CASE RenewLease(d)
    BY <1>0, <2>1, <2>2, <2>3 DEF RenewLease
  <2>4. CASE MarkSucceeded(d) \/ (\E r \in BOOLEAN : MarkFailed(d, r)) \/ ForceRelease(d)
    <3>1. PICK act \in Acts, new \in Row : Ended(d, act, new)
      BY <1>0, <1>5, <2>4, EndedSteps
    <3>2. QED
      BY <1>0, <2>1, <2>2, <3>1 DEF Ended, Write
  <2>5. QED
    BY <1>5, <2>3, <2>4 DEF UseRecord
<1>6. ASSUME NEW i \in Job, CancelJob(i) PROVE jobs'[j] = jobs[j]
  BY <1>0, <1>6 DEF CancelJob, Write
<1>7. CASE RecoverStaleJobs
  BY <1>0, <1>7 DEF RecoverStaleJobs, Expired
<1>8. CASE PurgeTerminalJobs
  BY <1>0, <1>8 DEF PurgeTerminalJobs, Purgeable, TERMINAL_STATUSES
<1>9. CASE UNCHANGED queueVars
  BY <1>9 DEF queueVars
<1>10. QED
  BY <1>2, <1>3, <1>4, <1>5, <1>6, <1>7, <1>8, <1>9 DEF Elsewhere

\* A span that is covered stays covered by them.
LEMMA CoverLasts ==
    ASSUME QueueInv, NEW c \in records, Elsewhere(c), NEW span \in Nat, Covered(c, span)
    PROVE  Covered(c, span)'
<1> SUFFICES ASSUME span > 0 PROVE Owns(c)' /\ jobs'[c.job].lease >= span
  BY DEF Covered
<1>1. Owns(c) /\ jobs[c.job].lease >= span
  BY DEF Covered
<1>2. jobs[c.job].lease \in Int /\ jobs'[c.job].lease \in Int
  <2>1. c.job \in Job
    BY DEF QueueInv, TypeOK, JobRecord
  <2>2. [Next]_queueVars
    BY DEF Elsewhere, Next, UseRecord
  <2>3. jobs[c.job] \in Row /\ jobs'[c.job] \in Row
    BY <2>1, <2>2, TypingStep DEF QueueInv, TypeOK
  <2>4. QED
    BY <2>3, ColumnTypes
<1>3. Owns(c)' /\ jobs'[c.job].lease >= jobs[c.job].lease
  BY <1>1, <1>2, OwnerIsSafe
<1>4. QED
  BY <1>1, <1>2, <1>3

\* The clock takes one tick from a lease that runs.
LEMMA RunningOut ==
    ASSUME NEW row \in Row, row.status = "running"
    PROVE  Older(row).lease = Larger(row.lease - 1, -1)
BY DEF Older, Row

\* The clock takes as much from the span as from the lease.
LEMMA CoverAges ==
    ASSUME QueueInv, NEW c \in records, Tick, NEW span \in Nat, Covered(c, span)
    PROVE  Covered(c, Larger(span - 1, 0))'
<1>0. c.job \in Job /\ jobs[c.job] \in Row /\ jobs[c.job].lease \in Int
  BY ColumnTypes DEF QueueInv, TypeOK, JobRecord
<1> DEFINE row == jobs[c.job]
           rest == Larger(span - 1, 0)
<1>1. rest > 0 => span > 1 /\ rest = span - 1
  BY DEF Larger
<1>2. jobs'[c.job] = Older(row)
  BY <1>0 DEF Tick
<1>3. /\ Older(row).status = row.status /\ Older(row).attempts = row.attempts
      /\ Older(row).locked_by = row.locked_by
      /\ row.status = "running" => Older(row).lease = Larger(row.lease - 1, -1)
  BY <1>0, OtherRows, RunningOut
<1>4. ASSUME rest > 0 PROVE Owns(c)' /\ jobs'[c.job].lease >= rest
  <2>1. Owns(c) /\ row.lease >= span
    BY <1>1, <1>4 DEF Covered
  <2>2. row.status = "running" /\ row.lease > 0
    BY <1>0, <2>1, <1>1, <1>4 DEF Owns
  <2>3. Larger(row.lease - 1, -1) = row.lease - 1
    BY <1>0, <2>2 DEF Larger
  <2>4. /\ jobs'[c.job].status = row.status /\ jobs'[c.job].locked_by = row.locked_by
        /\ jobs'[c.job].attempts = row.attempts /\ jobs'[c.job].lease = row.lease - 1
    BY <1>2, <1>3, <2>2, <2>3
  <2>5. QED
    BY <1>0, <1>1, <1>4, <2>1, <2>4 DEF Owns
<1>5. QED
  BY <1>4 DEF Covered

\* What a step may do to a process that still trusts its lease afterwards: it trusted
\* it before, for the same record, and its deadline is the old one or the offered one.
Carried(p, q) ==
    /\ q.at = "claiming" => q.renewal = "none"
    /\ Holding(q) => Holding(p) /\ q.rec = p.rec
    /\ Trusting(q) =>
        /\ Trusting(p)
        /\ q.left = p.left \/ (p.renewal = "done" /\ q.left = p.offer)
        /\ q.renewal = "done" => p.renewal = "done" /\ q.offer = p.offer

\* The steps of a process whose transaction, if any, is not one of its own record.
Quietly(v) ==
    \/ SendClaim(v) \/ ClaimAnswered(v) \/ ClaimFindsNothing(v)
    \/ \E r \in Result : HandlerEnds(v, r)
    \/ JudgeAttempt(v) \/ PublicationAnswered(v) \/ PublicationRefused(v)
    \/ KeeperExpires(v) \/ SendRenewal(v) \/ RenewalRefused(v) \/ RenewalAnswered(v)
    \/ ForceStop(v) \/ ReleaseAnswered(v) \/ ReleaseFails(v)
    \/ FaultStep(v)

\* The assignments of fields that those steps make, one by one.
LEMMA FieldCarried ==
    ASSUME NEW p \in Process, p.at = "claiming" => p.renewal = "none"
    PROVE  /\ p.at = "claimed" =>
                 Carried(p, [p EXCEPT !.at = "working"])
           /\ p.at = "working" =>
                 \A r \in Result : Carried(p, [p EXCEPT !.at = "ended", !.result = r])
           /\ p.at \in {"ended", "publishing", "answer"} =>
                 Carried(p, [p EXCEPT !.at = "publishing"])
           /\ p.at = "working" =>
                 Carried(p, [p EXCEPT !.renewal = "sent", !.offer = Lease])
           /\ p.at # "claiming" =>
                 \A x \in {"lease_lost", "lease_expired", "worker_shutdown"} :
                 Carried(p, [p EXCEPT !.lost = x])
           /\ p.at # "claiming" =>
                 Carried(p, [p EXCEPT !.renewal = "none", !.lost = "lease_lost"])
           /\ p.at # "claiming" =>
                 Carried(p, [p EXCEPT !.release = "none", !.lost = "worker_shutdown"])
           /\ p.at # "claiming" /\ p.renewal = "done" =>
                 Carried(p, [p EXCEPT !.renewal = "none", !.left = p.offer])
           /\ p.at # "claiming" =>
                 Carried(p, [p EXCEPT !.renewal = "none"])
           /\ Carried(p, [p EXCEPT !.forced = TRUE])
<1>1. ASSUME p.at = "claimed" PROVE Carried(p, [p EXCEPT !.at = "working"])
  BY <1>1 DEF Process, Carried, Holding, Trusting
<1>2. ASSUME p.at = "working", NEW r \in Result
      PROVE  Carried(p, [p EXCEPT !.at = "ended", !.result = r])
  BY <1>2 DEF Process, Carried, Holding, Trusting
<1>3. p.at \in {"ended", "publishing", "answer"} =>
                 Carried(p, [p EXCEPT !.at = "publishing"])
  BY DEF Process, Carried, Holding, Trusting
<1>4. ASSUME p.at = "working"
      PROVE  Carried(p, [p EXCEPT !.renewal = "sent", !.offer = Lease])
  BY <1>4 DEF Process, Carried, Holding, Trusting
<1>5. p.at # "claiming" =>
                 \A x \in {"lease_lost", "lease_expired", "worker_shutdown"} :
                 Carried(p, [p EXCEPT !.lost = x])
  BY DEF Process, Carried, Holding, Trusting
<1>6. p.at # "claiming" =>
                 Carried(p, [p EXCEPT !.renewal = "none", !.lost = "lease_lost"])
  BY DEF Process, Carried, Holding, Trusting
<1>7. p.at # "claiming" =>
                 Carried(p, [p EXCEPT !.release = "none", !.lost = "worker_shutdown"])
  BY DEF Process, Carried, Holding, Trusting
<1>8. p.at # "claiming" /\ p.renewal = "done" =>
                 Carried(p, [p EXCEPT !.renewal = "none", !.left = p.offer])
  BY DEF Process, Carried, Holding, Trusting
<1>9. ASSUME p.at # "claiming" PROVE Carried(p, [p EXCEPT !.renewal = "none"])
  BY <1>9 DEF Process, Carried, Holding, Trusting
<1>10. Carried(p, [p EXCEPT !.forced = TRUE])
  BY DEF Process, Carried, Holding, Trusting
<1>11. QED
  BY <1>1, <1>2, <1>3, <1>4, <1>5, <1>6, <1>7, <1>8, <1>9, <1>10

\* They leave the table alone, and carry the process over as above.
LEMMA QuietSteps ==
    ASSUME worker \in [Worker -> Process], NEW v \in Worker, Quietly(v),
           worker[v].at = "claiming" => worker[v].renewal = "none"
    PROVE  /\ UNCHANGED queueVars
           /\ \A u \in Worker \ {v} : worker'[u] = worker[u]
           /\ Carried(worker[v], worker'[v])
<1>1. UNCHANGED queueVars
  BY DEF Quietly, SendClaim, ClaimAnswered, ClaimFindsNothing, HandlerEnds, JudgeAttempt,
         PublicationAnswered, PublicationRefused, KeeperExpires, SendRenewal,
         RenewalRefused, RenewalAnswered, ForceStop, ReleaseAnswered, ReleaseFails,
         FaultStep, ClaimBreaks, RenewalBreaks, PublicationBreaks, Dies
<1>2. \A u \in Worker \ {v} : worker'[u] = worker[u]
  BY DEF Quietly, SendClaim, ClaimAnswered, ClaimFindsNothing, HandlerEnds, JudgeAttempt,
         PublicationAnswered, PublicationRefused, KeeperExpires, SendRenewal,
         RenewalRefused, RenewalAnswered, ForceStop, ReleaseAnswered, ReleaseFails,
         FaultStep, ClaimBreaks, RenewalBreaks, PublicationBreaks, Dies, Verdict
<1> DEFINE p == worker[v]
           q == worker'[v]
<1>0. p \in Process
  OBVIOUS
<1>3. q.at \in {"idle", "dead"} => Carried(p, q)
  BY DEF Carried, Holding, Trusting
<1>4. BackToIdle(v).at = "idle"
  BY DEF BackToIdle, Idle
<1>20. SUFFICES Carried(p, q)
  BY <1>1, <1>2
<1>5. CASE SendClaim(v)
  <2>1. q = [Idle EXCEPT !.at = "claiming", !.left = Lease]
    BY <1>5 DEF SendClaim
  <2>2. q.at = "claiming" /\ q.renewal = "none"
    BY <2>1 DEF Idle
  <2>3. QED
    BY <2>2 DEF Carried, Holding, Trusting
<1>6. CASE ClaimAnswered(v)
  BY <1>0, <1>6, FieldCarried DEF ClaimAnswered, At
<1>7. CASE ClaimFindsNothing(v) \/ PublicationAnswered(v) \/ PublicationRefused(v)
           \/ ClaimBreaks(v) \/ Dies(v)
  <2>1. q = BackToIdle(v) \/ q = [Idle EXCEPT !.at = "dead"]
    BY <1>7
    DEF ClaimFindsNothing, PublicationAnswered, PublicationRefused, ClaimBreaks, Dies, Verdict
  <2>2. QED
    BY <1>3, <1>4, <2>1 DEF Idle
<1>8. ASSUME NEW r \in Result, HandlerEnds(v, r) PROVE Carried(p, q)
  BY <1>0, <1>8, FieldCarried DEF HandlerEnds, At
<1>9. CASE JudgeAttempt(v)
  BY <1>0, <1>3, <1>4, <1>9, FieldCarried DEF JudgeAttempt, At
<1>10. CASE KeeperExpires(v) \/ RenewalRefused(v) \/ ReleaseAnswered(v) \/ ReleaseFails(v)
  <2>1. p.at # "claiming"
    BY <1>10 DEF KeeperExpires, RenewalRefused, ReleaseAnswered, ReleaseFails, Active, At
  <2>2. \/ \E x \in {"lease_lost", "lease_expired", "worker_shutdown"} : q = [p EXCEPT !.lost = x]
        \/ q = [p EXCEPT !.renewal = "none", !.lost = "lease_lost"]
        \/ q = [p EXCEPT !.release = "none", !.lost = "worker_shutdown"]
    BY <1>10 DEF KeeperExpires, RenewalRefused, ReleaseAnswered, ReleaseFails
  <2>3. QED
    BY <1>0, <2>1, <2>2, FieldCarried
<1>11. CASE SendRenewal(v)
  BY <1>0, <1>11, FieldCarried DEF SendRenewal, At
<1>12. CASE RenewalAnswered(v)
  <2>1. p.at # "claiming" /\ p.renewal = "done"
    BY <1>12 DEF RenewalAnswered, Active
  <2>2. \/ q = [p EXCEPT !.renewal = "none", !.left = p.offer]
        \/ q = [p EXCEPT !.renewal = "none"]
    BY <1>12 DEF RenewalAnswered
  <2>3. QED
    BY <1>0, <2>1, <2>2, FieldCarried
<1>13. CASE RenewalBreaks(v)
  BY <1>0, <1>13, FieldCarried DEF RenewalBreaks, Active
<1>14. CASE PublicationBreaks(v)
  <2>1. q = BackToIdle(v) \/ q = [p EXCEPT !.at = "publishing"]
    BY <1>14 DEF PublicationBreaks, Verdict
  <2>2. p.at \in {"publishing", "answer"}
    BY <1>14 DEF PublicationBreaks
  <2>3. QED
    BY <1>0, <1>3, <1>4, <2>1, <2>2, FieldCarried
<1>15. CASE ForceStop(v)
  BY <1>0, <1>15, FieldCarried DEF ForceStop
<1>16. QED
  BY <1>1, <1>2, <1>5, <1>6, <1>7, <1>8, <1>9, <1>10, <1>11, <1>12, <1>13, <1>14, <1>15
  DEF Quietly, FaultStep

\* A process that is carried over by a transaction elsewhere keeps what it may trust.
LEMMA CarriedKeeps ==
    ASSUME QueueInv, HandsKnown, NEW v \in Worker, worker \in [Worker -> Process],
           LeaseKept(v, worker[v]), Carried(worker[v], worker'[v]),
           NEW c, c = worker[v].rec,
           Holding(worker[v]) => Elsewhere(c)
    PROVE  LeaseKept(v, worker[v])'
<1> DEFINE p == worker[v]
<1>1. PICK q : q = worker'[v]
  OBVIOUS
<1>0. p.left \in Nat /\ p.offer \in Nat
  BY QueueAssumption DEF Process
<1>2. Carried(p, q) /\ LeaseKept(v, p)
  BY <1>1
<1>3. Holding(p) => c \in records
  BY DEF HandsKnown, Holding, Active, At, Hand
<1>4. Trusting(p) => Holding(p)
  BY DEF Trusting, Holding
<1>5. ASSUME Trusting(q)
      PROVE  Covered(c, q.left)' /\ (q.renewal = "done" => Covered(c, q.offer)')
  <2>1. Trusting(p) /\ Elsewhere(c) /\ c \in records
    BY <1>2, <1>3, <1>4, <1>5 DEF Carried
  <2>2. Covered(c, p.left) /\ (p.renewal = "done" => Covered(c, p.offer))
    BY <1>2, <2>1 DEF LeaseKept
  <2>3. PICK l \in Nat, o \in Nat : l = p.left /\ o = p.offer
    BY <1>0
  <2>4. Covered(c, l)' /\ (p.renewal = "done" => Covered(c, o)')
    BY <2>1, <2>2, <2>3, CoverLasts
  <2>5. /\ q.left = l \/ (p.renewal = "done" /\ q.left = o)
        /\ q.renewal = "done" => p.renewal = "done" /\ q.offer = o
    BY <1>2, <1>5, <2>3 DEF Carried
  <2>6. QED
    BY <2>4, <2>5
<1>6. LeaseKept(v, q)'
  <2>1. Holding(q) => q.rec = c /\ q.rec.by = v
    BY <1>2 DEF Carried, LeaseKept
  <2>2. Trusting(q) => Holding(q)
    BY DEF Trusting, Holding
  <2>3. QED
    BY <1>2, <1>5, <2>1, <2>2 DEF LeaseKept, Carried
<1>7. QED
  BY <1>1, <1>6

\* No transaction of another process uses the record in v's hands.
LEMMA OthersAreElsewhere ==
    ASSUME AttemptInv, LeasesKept, NEW v \in Worker, NEW w \in Worker \ {v},
           Holding(worker[v]), NEW c, c = worker[v].rec,
           ClaimCommits(w) \/ RenewalCommits(w) \/ PublicationCommits(w) \/ ReleaseCommits(w)
    PROVE  Elsewhere(c)
<1>1. CASE ClaimCommits(w)
  BY <1>1 DEF ClaimCommits, Elsewhere
<1>2. CASE ~ClaimCommits(w)
  <2>1. PICK d : d = Hand(w)
    OBVIOUS
  <2>2. Active(w)
    BY <1>2 DEF RenewalCommits, PublicationCommits, ReleaseCommits, Active, At
  <2>3. d \in records /\ d.by = w
    BY <2>1, <2>2
    DEF AttemptInv, HandsKnown, LeasesKept, LeaseKept, Holding, Active, Hand
  <2>4. c.by = v
    BY DEF LeasesKept, LeaseKept
  <2>5. UseRecord(d)
    BY <1>2, <2>1
    DEF RenewalCommits, PublicationCommits, ReleaseCommits, UseRecord
  <2>6. QED
    BY <2>3, <2>4, <2>5 DEF Elsewhere
<1>3. QED
  BY <1>1, <1>2

\* What a process may trust after one of its own transactions.
LEMMA OwnTransactions ==
    ASSUME AttemptInv, AttemptInv', NEW v \in Worker, LeaseKept(v, worker[v]),
           ClaimCommits(v) \/ RenewalCommits(v) \/ PublicationCommits(v) \/ ReleaseCommits(v)
    PROVE  LeaseKept(v, worker[v])'
<1>1. PICK p \in Process, q \in {worker'[v]} : p = worker[v] /\ q = worker'[v]
  BY DEF AttemptInv
<1>2. LeaseKept(v, p)
  BY <1>1
<1>3. p.left \in Nat /\ p.offer \in Nat /\ p.left <= Lease /\ p.offer <= Lease
  BY <1>1, QueueAssumption DEF Process
<1>4. SUFFICES LeaseKept(v, q)'
  BY <1>1
<1>5. CASE ClaimCommits(v)
  <2>1. PICK j \in Job :
          /\ jobs' = [jobs EXCEPT ![j] = ClaimedRow(jobs[j], v)]
          /\ records' = records \cup {[job |-> j, by |-> v,
                                       attempts |-> ClaimedRow(jobs[j], v).attempts,
                                       max_attempts |-> request[j].max_attempts]}
    BY <1>5 DEF ClaimCommits, ClaimNextJob
  <2>2. PICK c \in records' \ records : q = [p EXCEPT !.at = "claimed", !.rec = c]
    BY <1>1, <1>5 DEF ClaimCommits, AttemptInv
  <2>3. c = [job |-> j, by |-> v, attempts |-> ClaimedRow(jobs[j], v).attempts,
             max_attempts |-> request[j].max_attempts]
    BY <2>1, <2>2
  <2>4. /\ q.at = "claimed" /\ q.rec = c /\ q.left = p.left /\ q.renewal = p.renewal
    BY <2>2 DEF Process
  <2>5. q.renewal = "none"
    BY <1>1, <1>2, <1>5, <2>4 DEF ClaimCommits, At, LeaseKept
  <2>6. jobs[j] \in Row
    BY DEF AttemptInv, QueueInv, TypeOK
  <2>7. /\ jobs'[j].status = "running" /\ jobs'[j].locked_by = v
        /\ jobs'[j].attempts = ClaimedRow(jobs[j], v).attempts /\ jobs'[j].lease = Lease
    BY <2>1, <2>6, HeldRows DEF AttemptInv, QueueInv, TypeOK
  <2>8. Owns(c)' /\ jobs'[c.job].lease = Lease /\ c.by = v
    BY <2>3, <2>7 DEF Owns
  <2>9. Covered(c, q.left)'
    BY <1>3, <2>4, <2>8, QueueAssumption DEF Covered
  <2>10. QED
    BY <2>4, <2>5, <2>8, <2>9 DEF LeaseKept, Holding, Trusting
<1>6. CASE RenewalCommits(v)
  <2>1. PICK c \in records : c = p.rec
    BY <1>1, <1>6 DEF RenewalCommits, AttemptInv, HandsKnown, Hand
  <2>2. q = [p EXCEPT !.renewal = "done"]
    BY <1>1, <1>6 DEF RenewalCommits, AttemptInv
  <2>3. /\ q.at = p.at /\ q.rec = p.rec /\ q.left = p.left /\ q.offer = p.offer
        /\ q.lost = p.lost /\ q.release = p.release
    BY <2>2 DEF Process
  <2>4. p.at # "claiming" /\ (Trusting(q) => Trusting(p)) /\ (Holding(q) => Holding(p))
    BY <1>1, <1>6, <2>3 DEF RenewalCommits, Active, Trusting, Holding
  <2>5. RenewLease(c)
    BY <1>1, <1>6, <2>1 DEF RenewalCommits, Hand
  <2>6. Covered(c, p.left) => Covered(c, p.left)'
    BY <1>3, <2>5, CoverLasts DEF AttemptInv, Elsewhere
  <2>7. Covered(c, q.offer)'
    <3>1. /\ c.job \in Job /\ jobs[c.job] \in Row /\ jobs[c.job].lease \in Int
          /\ jobs \in [Job -> Row]
      BY ColumnTypes DEF AttemptInv, QueueInv, TypeOK, JobRecord
    <3>2. Owns(c)' /\ jobs'[c.job].lease >= jobs[c.job].lease
      BY <2>5, OwnerIsSafe DEF AttemptInv, Elsewhere, RenewLease
    <3>3. jobs'[c.job] = RenewedRow(jobs[c.job])
      BY <2>5, <3>1 DEF RenewLease
    <3>4. jobs'[c.job].lease = Larger(jobs[c.job].lease, Lease)
      BY <3>1, <3>3 DEF RenewedRow, Row
    <3>5. Larger(jobs[c.job].lease, Lease) >= Lease /\ Larger(jobs[c.job].lease, Lease) \in Int
      BY <3>1, QueueAssumption DEF Larger
    <3>6. jobs'[c.job].lease >= p.offer
      BY <1>3, <3>4, <3>5, QueueAssumption
    <3>7. QED
      BY <2>3, <3>2, <3>6 DEF Covered
  <2>8. QED
    BY <1>2, <2>1, <2>3, <2>4, <2>6, <2>7 DEF LeaseKept
<1>7. CASE PublicationCommits(v)
  <2>1. q = [p EXCEPT !.at = "answer"] /\ p.at = "publishing"
    BY <1>1, <1>7 DEF PublicationCommits, AttemptInv, At
  <2>2. q.at = "answer" /\ q.rec = p.rec
    BY <2>1 DEF Process
  <2>3. QED
    BY <1>2, <2>1, <2>2 DEF LeaseKept, Holding, Trusting
<1>8. CASE ReleaseCommits(v)
  <2>1. q = [p EXCEPT !.release = "done"]
    BY <1>1, <1>8 DEF ReleaseCommits, AttemptInv
  <2>2. q.at = p.at /\ q.rec = p.rec /\ q.release = "done"
    BY <2>1 DEF Process
  <2>3. p.at # "claiming"
    BY <1>1, <1>8 DEF ReleaseCommits, Active
  <2>4. QED
    BY <1>2, <2>2, <2>3 DEF LeaseKept, Holding, Trusting
<1>9. QED
  BY <1>5, <1>6, <1>7, <1>8

\* The clock runs as fast for the processes as for the rows.
LEMMA AgedKeeps ==
    ASSUME AttemptInv, NEW v \in Worker, LeaseKept(v, worker[v]), TimePasses
    PROVE  LeaseKept(v, worker[v])'
<1>1. PICK p \in Process, q \in {worker'[v]} : p = worker[v] /\ q = worker'[v]
  BY DEF AttemptInv
<1>2. LeaseKept(v, p)
  BY <1>1
<1>3. PICK left \in Nat, offer \in Nat : left = p.left /\ offer = p.offer
  BY QueueAssumption DEF Process
<1>4. PICK l, o : l = Larger(left - 1, 0) /\ o = Larger(offer - 1, 0)
  OBVIOUS
<1>5. q = [p EXCEPT !.left = l, !.offer = o]
  BY <1>1, <1>3, <1>4 DEF TimePasses
<1>6. /\ q.at = p.at /\ q.rec = p.rec /\ q.renewal = p.renewal /\ q.lost = p.lost
      /\ q.release = p.release /\ q.left = l /\ q.offer = o
  BY <1>5 DEF Process
<1>7. PICK c : c = p.rec
  OBVIOUS
<1>8. Trusting(p) => c \in records
  BY <1>1, <1>7 DEF AttemptInv, HandsKnown, Active, At, Hand, Trusting
<1>9. ASSUME Trusting(p)
      PROVE  Covered(c, l)' /\ (p.renewal = "done" => Covered(c, o)')
  <2>1. Tick
    BY DEF TimePasses
  <2>2. Covered(c, left) /\ (p.renewal = "done" => Covered(c, offer))
    BY <1>2, <1>3, <1>7, <1>9 DEF LeaseKept
  <2>3. Covered(c, Larger(left - 1, 0))'
    BY <1>8, <1>9, <2>1, <2>2, CoverAges DEF AttemptInv
  <2>4. p.renewal = "done" => Covered(c, Larger(offer - 1, 0))'
    BY <1>8, <1>9, <2>1, <2>2, CoverAges DEF AttemptInv
  <2>5. QED
    BY <1>4, <2>3, <2>4
<1>10. Trusting(q) <=> Trusting(p)
  BY <1>6 DEF Trusting
<1>11. LeaseKept(v, q)'
  BY <1>2, <1>6, <1>7, <1>9, <1>10 DEF LeaseKept, Holding
<1>12. QED
  BY <1>1, <1>11

\* Every step keeps what every process may trust.
LEMMA LeaseStep ==
    ASSUME AttemptInv, AttemptInv', LeasesKept, [AttemptNext]_allVars
    PROVE  LeasesKept'
<1> SUFFICES ASSUME NEW v \in Worker PROVE LeaseKept(v, worker[v])'
  BY DEF LeasesKept
<1>0. /\ worker \in [Worker -> Process] /\ QueueInv /\ HandsKnown
      /\ LeaseKept(v, worker[v])
      /\ worker[v].at = "claiming" => worker[v].renewal = "none"
  BY DEF AttemptInv, LeasesKept, LeaseKept
<1>1. PICK c : c = worker[v].rec
  OBVIOUS
<1>2. Carried(worker[v], worker[v])
  BY <1>0 DEF Carried
<1>3. ASSUME worker'[v] = worker[v], Holding(worker[v]) => Elsewhere(c)
      PROVE  LeaseKept(v, worker[v])'
  <2>1. Carried(worker[v], worker'[v])
    BY <1>2, <1>3
  <2>2. QED
    BY <1>0, <1>1, <1>3, <2>1, CarriedKeeps
<1>4. ASSUME NEW w \in Worker, Quietly(w) PROVE LeaseKept(v, worker[v])'
  <2>1. /\ UNCHANGED queueVars
        /\ \A u \in Worker \ {w} : worker'[u] = worker[u]
        /\ Carried(worker[w], worker'[w])
    BY <1>0, <1>4, QuietSteps DEF LeasesKept, LeaseKept
  <2>2. Elsewhere(c)
    BY <2>1 DEF Elsewhere
  <2>3. CASE w = v
    BY <1>0, <1>1, <2>1, <2>2, <2>3, CarriedKeeps
  <2>4. CASE w # v
    BY <1>3, <2>1, <2>2, <2>4
  <2>5. QED
    BY <2>3, <2>4
<1>5. ASSUME NEW w \in Worker,
             ClaimCommits(w) \/ RenewalCommits(w) \/ PublicationCommits(w) \/ ReleaseCommits(w)
      PROVE  LeaseKept(v, worker[v])'
  <2>1. CASE w = v
    BY <1>0, <1>5, <2>1, OwnTransactions
  <2>2. CASE w # v
    <3>1. worker'[v] = worker[v]
      BY <1>0, <1>5, <2>2
      DEF ClaimCommits, RenewalCommits, PublicationCommits, ReleaseCommits
    <3>2. Holding(worker[v]) => Elsewhere(c)
      BY <1>1, <1>5, <2>2, OthersAreElsewhere
    <3>3. QED
      BY <1>3, <3>1, <3>2
  <2>3. QED
    BY <2>1, <2>2
<1>6. CASE WorkerRecovers \/ Client \/ UNCHANGED allVars
  <2>1. Elsewhere(c)
    BY <1>6 DEF WorkerRecovers, Client, Enqueue, Elsewhere, allVars, queueVars
  <2>2. worker' = worker
    BY <1>6 DEF WorkerRecovers, Client, attemptVars, allVars
  <2>3. QED
    BY <1>3, <2>1, <2>2
<1>7. CASE TimePasses
  BY <1>0, <1>7, AgedKeeps
<1>8. QED
  BY <1>4, <1>5, <1>6, <1>7
  DEF AttemptNext, MainStep, KeeperStep, ControlStep, Quietly

\* In every state every process keeps what it may trust.
LEMMA LeaseInvariant == AttemptSpec => [](AttemptInv /\ LeasesKept)
<1>1. AttemptInit => AttemptInv /\ LeasesKept
  <2> SUFFICES ASSUME AttemptInit PROVE AttemptInv /\ LeasesKept
    OBVIOUS
  <2>1. \A w \in Worker : worker[w].at = "idle"
    BY DEF AttemptInit, Idle
  <2>2. QED
    BY <2>1, AttemptInvariant DEF LeasesKept, LeaseKept, Holding, Trusting
<1>2. AttemptInv /\ LeasesKept /\ [AttemptNext]_allVars => (AttemptInv /\ LeasesKept)'
  BY AttemptInvariant, LeaseStep
<1>3. QED
  BY <1>1, <1>2, PTL DEF AttemptSpec

\* The local deadline of workers/lease.py never outlives the lease: as long as a worker
\* was told of no loss and its own clock leaves it time, no one else has the job, however
\* many renewals were lost or answered late.
THEOREM Pessimistic == AttemptSpec => []LocalDeadlineIsPessimistic
<1>1. AttemptInv /\ LeasesKept => LocalDeadlineIsPessimistic
  BY DEF LeasesKept, LeaseKept, Trusting, Covered, Hand, LocalDeadlineIsPessimistic
<1>2. QED
  BY <1>1, LeaseInvariant, PTL

-----------------------------------------------------------------------------
(* What a worker reports.  An outcome is reported from an answer, and the answer to a *)
(* publication is sent when its event is in the trail.                                *)

\* The trail of the job of record c holds event "what" of that attempt, by w.
Recorded(c, what, w) ==
    \E i \in DOMAIN trail[c.job] :
        /\ trail[c.job][i].act = what
        /\ trail[c.job][i].by = w
        /\ trail[c.job][i].attempts = c.attempts

\* What the publication of process p's result is called.
Called(p) ==
    CASE p.result = "ok" -> "succeeded"
      [] p.result = "retryable" /\ p.rec.attempts < p.rec.max_attempts -> "requeued"
      [] OTHER -> "failed"

Reported(w, o) ==
    o.what \in Published => o.rec \in records /\ Recorded(o.rec, o.what, w)

OutcomesKept ==
    \A w \in Worker :
        /\ At(w, "answer") => Recorded(worker[w].rec, Called(worker[w]), w)
        /\ Reported(w, outcome[w])

\* Events are never taken from a trail.
LEMMA RecordedLasts ==
    ASSUME QueueInv, [Next]_queueVars, NEW c \in records, NEW what, NEW w,
           Recorded(c, what, w)
    PROVE  Recorded(c, what, w)' /\ c \in records'
<1>1. c.job \in Job /\ trail[c.job] \in Seq(Event)
  BY DEF QueueInv, TypeOK, JobRecord
<1>2. \/ trail'[c.job] = trail[c.job]
      \/ \E e : trail'[c.job] = Append(trail[c.job], e)
  BY <1>1, EveryJobMoves
  DEF QueueInv, Moves, Rests, Enters, Starts, Stops, Leaves, IsPurged, Traced
<1>3. \A i \in DOMAIN trail[c.job] :
        i \in DOMAIN trail'[c.job] /\ trail'[c.job][i] = trail[c.job][i]
  BY <1>1, <1>2
<1>4. QED
  BY <1>3, RecordsGrow DEF Recorded

\* A publication that commits writes the event its answer will be taken for.
LEMMA PublicationRecords ==
    ASSUME AttemptInv, LeasesKept, NEW v \in Worker, PublicationCommits(v)
    PROVE  Recorded(worker[v].rec, Called(worker[v]), v)'
<1>1. PICK p \in Process, q \in {worker'[v]} : p = worker[v] /\ q = worker'[v]
  BY DEF AttemptInv
<1>2. /\ p.at = "publishing" /\ q = [p EXCEPT !.at = "answer"]
  BY <1>1 DEF PublicationCommits, At, AttemptInv
<1>3. q.rec = p.rec /\ q.result = p.result
  BY <1>2 DEF Process
<1>4. PICK c \in records : c = p.rec
  BY <1>1, <1>2 DEF AttemptInv, HandsKnown, Active, At, Hand
<1>5. c.by = v
  BY <1>1, <1>2, <1>4 DEF LeasesKept, LeaseKept, Holding
<1>6. /\ c.job \in Job /\ jobs[c.job] \in Row /\ c.attempts \in Nat
      /\ trail[c.job] \in Seq(Event) /\ trail \in [Job -> Seq(Event)]
  BY DEF AttemptInv, QueueInv, TypeOK, JobRecord
<1>7. \E row : /\ Owns(c) /\ Write(c.job, row, Called(q), c.by)
               /\ row.attempts = jobs[c.job].attempts
  <2> DEFINE row == jobs[c.job]
             d == backoff_seconds(c.attempts)
  <2>1. d \in Int /\ "handler_error" \in ErrorCode
    BY <1>6, BackoffType DEF ErrorCode
  <2>2. /\ SucceededRow(row).attempts = row.attempts
        /\ FailedRow(row, "handler_error").attempts = row.attempts
        /\ RequeuedRow(row, d, "handler_error").attempts = row.attempts
    <3> HIDE DEF d, row
    <3>1. row \in Row
      BY <1>6 DEF row
    <3>2. /\ Free(row, SucceededRow(row), "none")
          /\ Free(row, FailedRow(row, "handler_error"), "handler_error")
          /\ Free(row, RequeuedRow(row, d, "handler_error"), "handler_error")
      BY <2>1, <3>1, FreedRows
    <3>3. QED
      BY <3>2 DEF Free
  <2>3. CASE p.result = "ok" /\ MarkSucceeded(c)
    BY <1>3, <2>2, <2>3 DEF MarkSucceeded, Called
  <2>4. CASE p.result = "retryable" /\ MarkFailed(c, TRUE)
    <3>1. CASE c.attempts < c.max_attempts
      <4>1. Called(q) = "requeued"
        BY <1>3, <1>4, <2>4, <3>1 DEF Called
      <4>2. QED
        BY <2>2, <2>4, <3>1, <4>1 DEF MarkFailed, Requeue
    <3>2. CASE ~(c.attempts < c.max_attempts)
      <4>1. Called(q) = "failed"
        BY <1>3, <1>4, <2>4, <3>2 DEF Called
      <4>2. QED
        BY <2>2, <2>4, <3>2, <4>1 DEF MarkFailed
    <3>3. QED
      BY <3>1, <3>2
  <2>5. CASE p.result = "permanent" /\ MarkFailed(c, FALSE)
    <3>1. Called(q) = "failed"
      BY <1>3, <2>5 DEF Called
    <3>2. QED
      BY <2>2, <2>5, <3>1 DEF MarkFailed
  <2>6. QED
    BY <1>1, <1>4, <2>3, <2>4, <2>5 DEF PublicationCommits, Hand
<1>8. PICK row : /\ Owns(c) /\ Write(c.job, row, Called(q), c.by)
                 /\ row.attempts = jobs[c.job].attempts
  BY <1>7
<1>9. PICK e : /\ trail' = [trail EXCEPT ![c.job] = Append(trail[c.job], e)]
               /\ e.act = Called(q) /\ e.by = v /\ e.attempts = c.attempts
  <2> DEFINE e == EventOf(Called(q), row, c.by)
  <2>1. e.act = Called(q) /\ e.by = v /\ e.attempts = c.attempts
    BY <1>5, <1>8 DEF EventOf, Owns
  <2>2. trail' = [trail EXCEPT ![c.job] = Append(trail[c.job], e)]
    BY <1>8 DEF Write
  <2> HIDE DEF e
  <2>3. QED
    BY <2>1, <2>2
<1>10. trail'[c.job] = Append(trail[c.job], e)
  BY <1>6, <1>9
<1>11. /\ Len(trail[c.job]) + 1 \in DOMAIN trail'[c.job]
       /\ trail'[c.job][Len(trail[c.job]) + 1] = e
  BY <1>6, <1>10
<1>12. Recorded(c, Called(q), v)'
  BY <1>9, <1>11 DEF Recorded
<1>13. worker'[v].rec = c /\ Called(worker[v])' = Called(q)
  BY <1>1, <1>3, <1>4 DEF Called
<1>14. PICK what : what = Called(q)
  OBVIOUS
<1>15. Recorded(c, what, v)' /\ Called(worker[v])' = what /\ worker'[v].rec = c
  BY <1>12, <1>13, <1>14
<1>16. QED
  BY <1>15 DEF Recorded

\* What a step may do to what is reported, but for the commit of a publication: a
\* process that waits for the answer to one was waiting for it, and a new report of a
\* publication is what the process was waiting for.
Waits(p, q) ==
    q.at = "answer" => p.at = "answer" /\ q.rec = p.rec /\ q.result = p.result

Reports(p, old, new) ==
    \/ new = old
    \/ new.what \notin Published
    \/ p.at = "answer" /\ new = [what |-> Called(p), rec |-> p.rec]

\* The assignments of fields that these steps make.
LEMMA FieldWaits ==
    ASSUME NEW p \in Process, NEW q,
           \/ \E a \in {"working", "publishing"} : q = [p EXCEPT !.at = a]
           \/ \E r : q = [p EXCEPT !.at = "ended", !.result = r]
           \/ \E c : q = [p EXCEPT !.at = "claimed", !.rec = c]
           \/ \E x : q = [p EXCEPT !.lost = x]
           \/ \E n : q = [p EXCEPT !.renewal = n]
           \/ \E n, o : q = [p EXCEPT !.renewal = n, !.offer = o]
           \/ \E n, x : q = [p EXCEPT !.renewal = n, !.lost = x]
           \/ \E n, l : q = [p EXCEPT !.renewal = n, !.left = l]
           \/ \E n : q = [p EXCEPT !.release = n]
           \/ \E n, x : q = [p EXCEPT !.release = n, !.lost = x]
           \/ q = [p EXCEPT !.forced = TRUE]
           \/ \E l, o : q = [p EXCEPT !.left = l, !.offer = o]
    PROVE  Waits(p, q)
BY DEF Process, Waits

Outcome ==
    [what : Published \cup {"none", "lease_lost", "unrecorded"},
     rec : JobRecord \cup {NoRecord}]

\* The steps of one process, in the order of AttemptNext.
StepOf(w) == MainStep(w) \/ KeeperStep(w) \/ ControlStep(w) \/ FaultStep(w)

\* A step of a process concerns no other.
LEMMA OthersStay ==
    ASSUME worker \in [Worker -> Process], outcome \in [Worker -> Outcome],
           NEW w \in Worker, NEW v \in Worker \ {w}, StepOf(w)
    PROVE  worker'[v] = worker[v] /\ outcome'[v] = outcome[v]
<1>1. CASE MainStep(w)
  BY <1>1
  DEF MainStep, SendClaim, ClaimCommits, ClaimAnswered, ClaimFindsNothing, HandlerEnds,
      JudgeAttempt, PublicationCommits, PublicationAnswered, PublicationRefused, Verdict
<1>2. CASE KeeperStep(w)
  BY <1>2
  DEF KeeperStep, KeeperExpires, SendRenewal, RenewalCommits, RenewalRefused, RenewalAnswered
<1>3. CASE ControlStep(w)
  BY <1>3 DEF ControlStep, ForceStop, ReleaseCommits, ReleaseAnswered, ReleaseFails
<1>4. CASE FaultStep(w)
  BY <1>4
  DEF FaultStep, ClaimBreaks, RenewalBreaks, PublicationBreaks, Dies, Verdict
<1>5. QED
  BY <1>1, <1>2, <1>3, <1>4 DEF StepOf

\* Every step of a process but the commit of its publication leaves its report standing.
LEMMA OwnReport ==
    ASSUME worker \in [Worker -> Process], outcome \in [Worker -> Outcome],
           NEW v \in Worker, StepOf(v), ~PublicationCommits(v)
    PROVE  /\ Waits(worker[v], worker'[v])
           /\ Reports(worker[v], outcome[v], outcome'[v])
<1> DEFINE p == worker[v]
           q == worker'[v]
<1>0. p \in Process
  OBVIOUS
<1>1. BackToIdle(v).at = "idle" /\ "lease_lost" \notin Published /\ "unrecorded" \notin Published
  BY DEF BackToIdle, Idle, Published
<1>2. Waits(p, BackToIdle(v)) /\ Waits(p, p)
  BY <1>1 DEF Waits
<1>3. CASE MainStep(v)
  <2>1. CASE SendClaim(v)
    <3>1. q = [Idle EXCEPT !.at = "claiming", !.left = Lease] /\ outcome' = outcome
      BY <2>1 DEF SendClaim
    <3>2. q.at = "claiming"
      BY <3>1 DEF Idle
    <3>3. QED
      BY <3>1, <3>2 DEF Waits, Reports
  <2>2. CASE ClaimCommits(v)
    <3>1. (\E c : q = [p EXCEPT !.at = "claimed", !.rec = c]) /\ outcome' = outcome
      BY <2>2 DEF ClaimCommits
    <3>2. Waits(p, q)
      BY <1>0, <3>1, FieldWaits
    <3>3. QED
      BY <3>1, <3>2 DEF Reports
  <2>3. CASE ClaimAnswered(v)
    <3>1. q = [p EXCEPT !.at = "working"] /\ outcome' = outcome
      BY <2>3 DEF ClaimAnswered
    <3>2. Waits(p, q)
      BY <1>0, <3>1, FieldWaits
    <3>3. QED
      BY <3>1, <3>2 DEF Reports
  <2>4. CASE ClaimFindsNothing(v)
    BY <1>2, <2>4 DEF ClaimFindsNothing, Reports
  <2>5. ASSUME NEW r, HandlerEnds(v, r) PROVE Waits(p, q) /\ Reports(p, outcome[v], outcome'[v])
    BY <1>0, <2>5, FieldWaits DEF HandlerEnds, Reports
  <2>6. CASE JudgeAttempt(v)
    <3>1. (q = BackToIdle(v) \/ q = [p EXCEPT !.at = "publishing"]) /\ outcome' = outcome
      BY <2>6 DEF JudgeAttempt
    <3>2. Waits(p, q)
      BY <1>0, <1>2, <3>1, FieldWaits
    <3>3. QED
      BY <3>1, <3>2 DEF Reports
  <2>7. CASE PublicationAnswered(v)
    <3>1. /\ q = BackToIdle(v) /\ p.at = "answer"
          /\ outcome'[v] = [what |-> Claimed(v), rec |-> Hand(v)]
      BY <2>7 DEF PublicationAnswered, Verdict, At
    <3>2. Claimed(v) = Called(p) /\ Hand(v) = p.rec
      BY DEF Claimed, Called, Hand
    <3>3. QED
      BY <1>2, <3>1, <3>2 DEF Reports
  <2>8. CASE PublicationRefused(v)
    BY <1>1, <1>2, <2>8 DEF PublicationRefused, Verdict, Reports
  <2>9. QED
    BY <1>3, <2>1, <2>2, <2>3, <2>4, <2>5, <2>6, <2>7, <2>8 DEF MainStep
<1>4. CASE KeeperStep(v)
  <2>1. outcome' = outcome
    BY <1>4
    DEF KeeperStep, KeeperExpires, SendRenewal, RenewalCommits, RenewalRefused, RenewalAnswered
  <2>2. \/ \E x : q = [p EXCEPT !.lost = x]
        \/ \E n, o : q = [p EXCEPT !.renewal = n, !.offer = o]
        \/ \E n : q = [p EXCEPT !.renewal = n]
        \/ \E n, x : q = [p EXCEPT !.renewal = n, !.lost = x]
        \/ \E n, l : q = [p EXCEPT !.renewal = n, !.left = l]
    <3>1. CASE KeeperExpires(v)
      BY <3>1 DEF KeeperExpires
    <3>2. CASE SendRenewal(v)
      BY <3>2 DEF SendRenewal
    <3>3. CASE RenewalCommits(v)
      BY <3>3 DEF RenewalCommits
    <3>4. CASE RenewalRefused(v)
      BY <3>4 DEF RenewalRefused
    <3>5. CASE RenewalAnswered(v)
      <4>1. \/ q = [p EXCEPT !.renewal = "none", !.left = worker[v].offer]
            \/ q = [p EXCEPT !.renewal = "none"]
        BY <3>5 DEF RenewalAnswered
      <4>2. QED
        BY <4>1, Zenon
    <3>6. QED
      BY <1>4, <3>1, <3>2, <3>3, <3>4, <3>5 DEF KeeperStep
  <2>3. Waits(p, q)
    BY <1>0, <2>2, FieldWaits
  <2>4. QED
    BY <2>1, <2>3 DEF Reports
<1>5. CASE ControlStep(v)
  <2>1. outcome' = outcome
    BY <1>5 DEF ControlStep, ForceStop, ReleaseCommits, ReleaseAnswered, ReleaseFails
  <2>2. \/ q = [p EXCEPT !.forced = TRUE]
        \/ \E n : q = [p EXCEPT !.release = n]
        \/ \E n, x : q = [p EXCEPT !.release = n, !.lost = x]
        \/ \E x : q = [p EXCEPT !.lost = x]
    <3>1. CASE ForceStop(v)
      BY <3>1 DEF ForceStop
    <3>2. CASE ReleaseCommits(v)
      BY <3>2 DEF ReleaseCommits
    <3>3. CASE ReleaseAnswered(v)
      BY <3>3 DEF ReleaseAnswered
    <3>4. CASE ReleaseFails(v)
      BY <3>4 DEF ReleaseFails
    <3>5. QED
      BY <1>5, <3>1, <3>2, <3>3, <3>4 DEF ControlStep
  <2>3. Waits(p, q)
    BY <1>0, <2>2, FieldWaits
  <2>4. QED
    BY <2>1, <2>3 DEF Reports
<1>6. CASE FaultStep(v)
  <2>1. CASE ClaimBreaks(v)
    BY <1>2, <2>1 DEF ClaimBreaks, Reports
  <2>2. CASE RenewalBreaks(v)
    BY <1>0, <2>2, FieldWaits DEF RenewalBreaks, Reports
  <2>3. CASE PublicationBreaks(v)
    <3>1. \/ q = [p EXCEPT !.at = "publishing"] /\ outcome' = outcome
          \/ q = BackToIdle(v) /\ outcome'[v].what = "unrecorded"
      BY <2>3 DEF PublicationBreaks, Verdict
    <3>2. Waits(p, q)
      BY <1>0, <1>2, <3>1, FieldWaits
    <3>3. QED
      BY <1>1, <3>1, <3>2 DEF Reports
  <2>4. CASE Dies(v)
    <3>1. q = [Idle EXCEPT !.at = "dead"] /\ outcome' = outcome
      BY <2>4 DEF Dies
    <3>2. q.at = "dead"
      BY <3>1 DEF Idle
    <3>3. QED
      BY <3>1, <3>2 DEF Waits, Reports
  <2>5. QED
    BY <1>6, <2>1, <2>2, <2>3, <2>4 DEF FaultStep
<1>7. QED
  BY <1>3, <1>4, <1>5, <1>6 DEF StepOf

\* A report is typed.
LEMMA OutcomeTypes ==
    ASSUME AttemptInv, outcome \in [Worker -> Outcome], [AttemptNext]_allVars
    PROVE  outcome' \in [Worker -> Outcome]
<1>1. ASSUME NEW w \in Worker,
             \E what \in {Called(worker[w]), "lease_lost", "unrecorded"} : Verdict(w, what)
      PROVE  outcome' \in [Worker -> Outcome]
  <2>1. worker[w].rec \in JobRecord \cup {NoRecord}
    BY DEF AttemptInv, Process
  <2>2. Called(worker[w]) \in Published
    BY DEF Called, Published
  <2>3. PICK what \in Published \cup {"lease_lost", "unrecorded"} : Verdict(w, what)
    BY <1>1, <2>2
  <2>4. [what |-> what, rec |-> worker[w].rec] \in Outcome
    BY <2>1, <2>3 DEF Outcome
  <2>5. outcome' = [outcome EXCEPT ![w] = [what |-> what, rec |-> worker[w].rec]]
    BY <2>3 DEF Verdict, Hand
  <2>6. QED
    BY <2>4, <2>5
<1>2. ASSUME NEW w \in Worker, MainStep(w) PROVE outcome' \in [Worker -> Outcome]
  <2>1. CASE PublicationAnswered(w)
    BY <1>1, <2>1 DEF PublicationAnswered, Claimed, Called, Hand
  <2>2. CASE PublicationRefused(w)
    BY <1>1, <2>2 DEF PublicationRefused
  <2>3. CASE ~PublicationAnswered(w) /\ ~PublicationRefused(w)
    BY <1>2, <2>3
    DEF MainStep, SendClaim, ClaimCommits, ClaimAnswered, ClaimFindsNothing, HandlerEnds,
        JudgeAttempt, PublicationCommits
  <2>4. QED
    BY <2>1, <2>2, <2>3
<1>3. ASSUME NEW w \in Worker, KeeperStep(w) \/ ControlStep(w)
      PROVE  outcome' \in [Worker -> Outcome]
  BY <1>3
  DEF KeeperStep, KeeperExpires, SendRenewal, RenewalCommits, RenewalRefused,
      RenewalAnswered, ControlStep, ForceStop, ReleaseCommits, ReleaseAnswered, ReleaseFails
<1>4. ASSUME NEW w \in Worker, FaultStep(w) PROVE outcome' \in [Worker -> Outcome]
  <2>1. outcome' = outcome \/ Verdict(w, "unrecorded")
    BY <1>4 DEF FaultStep, ClaimBreaks, RenewalBreaks, PublicationBreaks, Dies
  <2>2. QED
    BY <1>1, <2>1
<1>5. CASE WorkerRecovers \/ TimePasses \/ Client \/ UNCHANGED allVars
  BY <1>5 DEF WorkerRecovers, TimePasses, Client, attemptVars, allVars
<1>6. QED
  BY <1>2, <1>3, <1>4, <1>5 DEF AttemptNext

\* What a process waits for and what it has reported after any step of the system.
LEMMA EveryReport ==
    ASSUME worker \in [Worker -> Process], outcome \in [Worker -> Outcome],
           NEW v \in Worker, [AttemptNext]_allVars, ~PublicationCommits(v)
    PROVE  /\ Waits(worker[v], worker'[v])
           /\ Reports(worker[v], outcome[v], outcome'[v])
<1>1. ASSUME NEW w \in Worker, StepOf(w)
      PROVE  /\ Waits(worker[v], worker'[v])
             /\ Reports(worker[v], outcome[v], outcome'[v])
  <2>1. CASE w = v
    BY <1>1, <2>1, OwnReport
  <2>2. CASE w # v
    BY <1>1, <2>2, OthersStay DEF Waits, Reports
  <2>3. QED
    BY <2>1, <2>2
<1>2. CASE WorkerRecovers \/ Client \/ UNCHANGED allVars
  BY <1>2 DEF WorkerRecovers, Client, attemptVars, allVars, Waits, Reports
<1>3. CASE TimePasses
  <2>1. \E l, o : worker'[v] = [worker[v] EXCEPT !.left = l, !.offer = o]
    BY <1>3 DEF TimePasses
  <2>2. Waits(worker[v], worker'[v])
    BY <2>1, FieldWaits
  <2>3. QED
    BY <1>3, <2>2 DEF TimePasses, Reports
<1>4. QED
  BY <1>1, <1>2, <1>3 DEF AttemptNext, StepOf

\* Every step keeps every report, made or to be made, in the trail.
LEMMA OutcomeStep ==
    ASSUME AttemptInv, LeasesKept, outcome \in [Worker -> Outcome], OutcomesKept,
           [AttemptNext]_allVars
    PROVE  OutcomesKept'
<1>0. /\ worker \in [Worker -> Process] /\ QueueInv /\ [Next]_queueVars
  BY AttemptInvariant DEF AttemptInv
<1> SUFFICES ASSUME NEW v \in Worker
             PROVE  /\ worker'[v].at = "answer"
                         => Recorded(worker[v].rec, Called(worker[v]), v)'
                    /\ Reported(v, outcome[v])'
  BY DEF OutcomesKept, At
<1>1. PICK p \in Process, q \in {worker'[v]} : p = worker[v] /\ q = worker'[v]
  BY <1>0
<1>2. PICK old \in Outcome, new \in {outcome'[v]} : old = outcome[v] /\ new = outcome'[v]
  OBVIOUS
<1>3. /\ p.at = "answer" => p.rec \in records /\ Recorded(p.rec, Called(p), v)
      /\ Reported(v, old)
  BY <1>1, <1>2 DEF OutcomesKept, AttemptInv, HandsKnown, Active, At, Hand
<1>4. p.at = "answer" => p.rec \in records' /\ Recorded(p.rec, Called(p), v)'
  BY <1>0, <1>3, RecordedLasts
<1>5. Reported(v, old)'
  BY <1>0, <1>3, RecordedLasts DEF Reported
<1>6. CASE PublicationCommits(v)
  <2>1. Recorded(worker[v].rec, Called(worker[v]), v)'
    BY <1>6, PublicationRecords
  <2>2. new = old
    BY <1>2, <1>6 DEF PublicationCommits
  <2>3. QED
    BY <1>2, <1>5, <2>1, <2>2
<1>7. CASE ~PublicationCommits(v)
  <2>1. Waits(p, q) /\ Reports(p, old, new)
    BY <1>0, <1>1, <1>2, <1>7, EveryReport
  <2>2. ASSUME q.at = "answer" PROVE Recorded(worker[v].rec, Called(worker[v]), v)'
    <3>1. p.at = "answer" /\ q.rec = p.rec /\ Called(q) = Called(p)
      BY <2>1, <2>2 DEF Waits, Called
    <3>2. PICK c, what : c = p.rec /\ what = Called(p)
      OBVIOUS
    <3>3. Recorded(c, what, v)'
      BY <1>4, <3>1, <3>2
    <3>4. worker'[v].rec = c /\ Called(worker[v])' = what
      BY <1>1, <3>1, <3>2 DEF Called
    <3>5. QED
      BY <3>3, <3>4 DEF Recorded
  <2>3. Reported(v, new)'
    <3>1. CASE new = old
      BY <1>5, <3>1
    <3>2. CASE new.what \notin Published
      BY <3>2 DEF Reported
    <3>3. CASE p.at = "answer" /\ new = [what |-> Called(p), rec |-> p.rec]
      <4>1. new.what = Called(p) /\ new.rec = p.rec
        BY <3>3
      <4>2. QED
        BY <1>4, <3>3, <4>1 DEF Reported
    <3>4. QED
      BY <2>1, <3>1, <3>2, <3>3 DEF Reports
  <2>4. QED
    BY <1>1, <1>2, <2>2, <2>3
<1>8. QED
  BY <1>6, <1>7

ReportsKept == outcome \in [Worker -> Outcome] /\ OutcomesKept

\* The invariant behind the reports, and the one behind the leases it needs: the bearer
\* of a record is the worker that publishes under it.
LEMMA OutcomeInvariant ==
    AttemptSpec => [](AttemptInv /\ LeasesKept /\ ReportsKept)
<1>1. AttemptInit => ReportsKept
  <2> SUFFICES ASSUME AttemptInit PROVE ReportsKept
    OBVIOUS
  <2>1. NoOutcome \in Outcome /\ NoOutcome.what \notin Published
    BY DEF NoOutcome, Outcome, Published
  <2>2. /\ outcome = [w \in Worker |-> NoOutcome]
        /\ \A w \in Worker : worker[w].at = "idle"
    BY DEF AttemptInit, Idle
  <2>3. QED
    BY <2>1, <2>2 DEF ReportsKept, OutcomesKept, Reported, At
<1>2. AttemptInv /\ LeasesKept /\ ReportsKept /\ [AttemptNext]_allVars => ReportsKept'
  BY OutcomeTypes, OutcomeStep DEF ReportsKept
<1>3. QED
  BY <1>1, <1>2, LeaseInvariant, PTL DEF AttemptSpec

\* A worker never reports a publication it did not make: whatever answers are lost and
\* whatever it tries again, the event of that attempt is in the audit trail.
THEOREM OutcomesAreTrue == AttemptSpec => []OutcomeIsTrue
<1>1. ReportsKept => OutcomeIsTrue
  BY DEF ReportsKept, OutcomesKept, Reported, Recorded, OutcomeIsTrue
<1>2. QED
  BY <1>1, OutcomeInvariant, PTL

=============================================================================
