---------------------------- MODULE WorkerAttempt ----------------------------
(***************************************************************************)
(* Worker processes executing jobs: the claim, the handler, the keeper     *)
(* thread that renews the lease of the attempt (workers/lease.py), the     *)
(* publication of the result (workers/worker.py) and the forced release,   *)
(* all against the table of JobQueue.                                      *)
(*                                                                         *)
(* A call to the database is three steps: it is sent, it commits (or is    *)
(* refused), its answer arrives or is lost.  Time passes, and the other    *)
(* threads and workers run, between any two of them.  A worker knows only  *)
(* its own clock: "left" is the time to its local deadline, counted from   *)
(* the sending of the claim or of the last renewal that was answered.      *)
(*                                                                         *)
(* Every step either is an action of JobQueue or leaves the table alone.   *)
(***************************************************************************)
EXTENDS JobQueue

CONSTANTS Margin,       \* PUBLISH_MARGIN_SECONDS, in clock ticks
          MaxFaults     \* bound: crashes, forced stops and database failures

ASSUME AttemptAssumption == Margin \in Nat /\ MaxFaults \in Nat

VARIABLES worker,       \* worker[w]: what process w knows, see Process
          outcome,      \* outcome[w]: the last JobOutcome of w that claims a publication
          faults        \* how many faults have happened

attemptVars == <<worker, outcome, faults>>
allVars == <<jobs, request, records, trail, replays, worker, outcome, faults>>

NoRecord == [job |-> 0, by |-> Nobody, attempts |-> 0, max_attempts |-> 0]

Result == {"none", "ok", "retryable", "permanent"}
Published == {"succeeded", "failed", "requeued"}

Process ==
    [at : {"idle", "claiming", "claimed", "working", "ended", "publishing", "answer", "dead"},
     rec : JobRecord \cup {NoRecord},
     left : 0 .. Lease,                          \* LeaseKeeper._deadline - now
     renewal : {"none", "sent", "done"},         \* the renewal in flight
     offer : 0 .. Lease,                         \* sent_at + lease_seconds - now
     release : {"none", "done"},                 \* the forced release in flight
     lost : {"no", "lease_lost", "lease_expired", "worker_shutdown"},
     result : Result,                            \* what the handler did
     forced : BOOLEAN]                           \* a forced stop was requested

Idle == [at |-> "idle", rec |-> NoRecord, left |-> 0, renewal |-> "none", offer |-> 0,
         release |-> "none", lost |-> "no", result |-> "none", forced |-> FALSE]

NoOutcome == [what |-> "none", rec |-> NoRecord]

AttemptInit ==
    /\ Init
    /\ worker = [w \in Worker |-> Idle]
    /\ outcome = [w \in Worker |-> NoOutcome]
    /\ faults = 0

At(w, place) == worker[w].at = place
Hand(w) == worker[w].rec

\* Worker._active: a keeper exists from the start of the handler to the outcome.
Active(w) == worker[w].at \in {"working", "ended", "publishing", "answer"}

Fault == faults < MaxFaults /\ faults' = faults + 1

-----------------------------------------------------------------------------
(* The main thread: claim *)

\* run_once: "started" is read before the claim is sent.
SendClaim(w) ==
    /\ At(w, "idle")
    /\ ~worker[w].forced
    /\ worker' = [worker EXCEPT ![w] = [Idle EXCEPT !.at = "claiming", !.left = Lease]]
    /\ UNCHANGED <<queueVars, outcome, faults>>

ClaimCommits(w) ==
    /\ At(w, "claiming")
    /\ ClaimNextJob(w)
    /\ \E c \in records' \ records :
        worker' = [worker EXCEPT ![w].at = "claimed", ![w].rec = c]
    /\ UNCHANGED <<outcome, faults>>

\* A worker forced to stop while it claims is not told: it still works on the job.
ClaimAnswered(w) ==
    /\ At(w, "claimed")
    /\ worker' = [worker EXCEPT ![w].at = "working"]
    /\ UNCHANGED <<queueVars, outcome, faults>>

BackToIdle(w) == [Idle EXCEPT !.forced = worker[w].forced]

ClaimFindsNothing(w) ==
    /\ At(w, "claiming")
    /\ \A j \in Job : ~Claimable(j, w)
    /\ worker' = [worker EXCEPT ![w] = BackToIdle(w)]
    /\ UNCHANGED <<queueVars, outcome, faults>>

\* The connection breaks before the commit, or after it: then the job is left
\* running under a worker that does not know of it.
ClaimBreaks(w) ==
    /\ worker[w].at \in {"claiming", "claimed"}
    /\ Fault
    /\ worker' = [worker EXCEPT ![w] = BackToIdle(w)]
    /\ UNCHANGED <<queueVars, outcome>>

-----------------------------------------------------------------------------
(* The keeper thread.  Renewals, losses and releases exclude each other (_lock). *)

KeeperFree(w) == worker[w].renewal = "none" /\ worker[w].release = "none"

\* The keeper notices the deadline at some moment after it has passed.
KeeperExpires(w) ==
    /\ At(w, "working")
    /\ KeeperFree(w)
    /\ worker[w].lost = "no"
    /\ worker[w].left = 0
    /\ worker' = [worker EXCEPT ![w].lost = "lease_expired"]
    /\ UNCHANGED <<queueVars, outcome, faults>>

\* How early before the deadline renewals are sent is left open.
SendRenewal(w) ==
    /\ At(w, "working")
    /\ KeeperFree(w)
    /\ worker[w].lost = "no"
    /\ worker[w].left > 0
    /\ worker' = [worker EXCEPT ![w].renewal = "sent", ![w].offer = Lease]
    /\ UNCHANGED <<queueVars, outcome, faults>>

RenewalCommits(w) ==
    /\ Active(w)
    /\ worker[w].renewal = "sent"
    /\ RenewLease(Hand(w))
    /\ worker' = [worker EXCEPT ![w].renewal = "done"]
    /\ UNCHANGED <<outcome, faults>>

RenewalRefused(w) ==
    /\ Active(w)
    /\ worker[w].renewal = "sent"
    /\ ~(Owns(Hand(w)) /\ jobs[Hand(w).job].lease > 0)
    /\ worker' = [worker EXCEPT ![w].renewal = "none", ![w].lost = "lease_lost"]
    /\ UNCHANGED <<queueVars, outcome, faults>>

\* LocalDeadlineIsPessimistic: the deadline is counted from the answer.
RenewalAnsweredFaulty(w) ==
    /\ Active(w)
    /\ worker[w].renewal = "done"
    /\ worker' = [worker EXCEPT ![w].renewal = "none", ![w].left = Lease]
    /\ UNCHANGED <<queueVars, outcome, faults>>

\* The new deadline is counted from the sending, not from the answer.  A publication
\* has read the deadline already: the answer to a stuck keeper does not move it.
RenewalAnswered(w) ==
    /\ Active(w)
    /\ worker[w].renewal = "done"
    /\ \/ /\ worker[w].at \in {"working", "ended"}
          /\ worker' = [worker EXCEPT ![w].renewal = "none", ![w].left = worker[w].offer]
       \/ /\ worker[w].at \in {"publishing", "answer"}
          /\ worker' = [worker EXCEPT ![w].renewal = "none"]
    /\ UNCHANGED <<queueVars, outcome, faults>>

\* An error, or a commit whose answer is lost: the deadline does not move.
RenewalBreaks(w) ==
    /\ Active(w)
    /\ worker[w].renewal # "none"
    /\ Fault
    /\ worker' = [worker EXCEPT ![w].renewal = "none"]
    /\ UNCHANGED <<queueVars, outcome>>

-----------------------------------------------------------------------------
(* The main thread: the handler and the publication of its result *)

HandlerEnds(w, r) ==
    /\ At(w, "working")
    /\ worker' = [worker EXCEPT ![w].at = "ended", ![w].result = r]
    /\ UNCHANGED <<queueVars, outcome, faults>>

\* keeper.stop() has returned (the thread ended, or the join timed out): a lost
\* attempt publishes nothing, the others publish their result.
JudgeAttempt(w) ==
    /\ At(w, "ended")
    /\ worker' = [worker EXCEPT ![w] =
                    IF @.lost # "no" THEN BackToIdle(w) ELSE [@ EXCEPT !.at = "publishing"]]
    /\ UNCHANGED <<queueVars, outcome, faults>>

Verdict(w, what) ==
    /\ worker' = [worker EXCEPT ![w] = BackToIdle(w)]
    /\ outcome' = [outcome EXCEPT ![w] = [what |-> what, rec |-> Hand(w)]]

PublicationCommits(w) ==
    /\ At(w, "publishing")
    /\ \/ worker[w].result = "ok" /\ MarkSucceeded(Hand(w))
       \/ worker[w].result = "retryable" /\ MarkFailed(Hand(w), TRUE)
       \/ worker[w].result = "permanent" /\ MarkFailed(Hand(w), FALSE)
    /\ worker' = [worker EXCEPT ![w].at = "answer"]
    /\ UNCHANGED <<outcome, faults>>

\* What the publication of w's result is called in JobOutcome.
Claimed(w) ==
    CASE worker[w].result = "ok" -> "succeeded"
      [] worker[w].result = "retryable" /\ Hand(w).attempts < Hand(w).max_attempts -> "requeued"
      [] OTHER -> "failed"

PublicationAnswered(w) ==
    /\ At(w, "answer")
    /\ Verdict(w, Claimed(w))
    /\ UNCHANGED <<queueVars, faults>>

\* OutcomeIsTrue: a refused publication is taken for one that was already made.
PublicationRefusedFaulty(w) ==
    /\ At(w, "publishing")
    /\ ~Owns(Hand(w))
    /\ Verdict(w, Claimed(w))
    /\ UNCHANGED <<queueVars, faults>>

\* JobLeaseLost: the outcome is "lease_lost", whatever made the row change hands.
PublicationRefused(w) ==
    /\ At(w, "publishing")
    /\ ~Owns(Hand(w))
    /\ Verdict(w, "lease_lost")
    /\ UNCHANGED <<queueVars, faults>>

\* A broken connection is retried while the local deadline allows it.  Before the
\* commit or after it: the caller cannot tell.
PublicationBreaks(w) ==
    /\ worker[w].at \in {"publishing", "answer"}
    /\ Fault
    /\ \/ /\ worker[w].left > Margin
          /\ worker' = [worker EXCEPT ![w].at = "publishing"]
          /\ UNCHANGED outcome
       \/ Verdict(w, "unrecorded")
    /\ UNCHANGED queueVars

-----------------------------------------------------------------------------
(* The control thread, crashes, time, and the rest of the system *)

\* Bound: one worker survives, for nothing happens to the queue when none does.
Survivor(w) == \E v \in Worker \ {w} : ~At(v, "dead") /\ ~worker[v].forced

\* _force: no claim follows; a running attempt may be released.
ForceStop(w) ==
    /\ ~At(w, "dead")
    /\ ~worker[w].forced
    /\ Survivor(w)
    /\ Fault
    /\ worker' = [worker EXCEPT ![w].forced = TRUE]
    /\ UNCHANGED <<queueVars, outcome>>

\* UsesTheQueue: the release names the job but not the attempt.
ReleaseCommitsFaulty(w) ==
    /\ Active(w)
    /\ worker[w].forced
    /\ KeeperFree(w)
    /\ worker[w].lost = "no"
    /\ Write(Hand(w).job, RequeuedRow(jobs[Hand(w).job], 0, "worker_shutdown"), "requeued", w)
    /\ worker' = [worker EXCEPT ![w].release = "done"]
    /\ UNCHANGED <<outcome, faults>>

ReleaseCommits(w) ==
    /\ Active(w)
    /\ worker[w].forced
    /\ KeeperFree(w)
    /\ worker[w].lost = "no"
    /\ ForceRelease(Hand(w))
    /\ worker' = [worker EXCEPT ![w].release = "done"]
    /\ UNCHANGED <<outcome, faults>>

ReleaseAnswered(w) ==
    /\ Active(w)
    /\ worker[w].release = "done"
    /\ worker' = [worker EXCEPT ![w].release = "none", ![w].lost = "worker_shutdown"]
    /\ UNCHANGED <<queueVars, outcome, faults>>

\* The release is refused (the attempt is over) or fails: lost in both cases.
ReleaseFails(w) ==
    /\ Active(w)
    /\ worker[w].forced
    /\ KeeperFree(w)
    /\ worker[w].lost = "no"
    /\ \/ /\ ~Owns(Hand(w))
          /\ worker' = [worker EXCEPT ![w].lost = "lease_lost"]
          /\ UNCHANGED faults
       \/ /\ Fault
          /\ worker' = [worker EXCEPT ![w].lost = "worker_shutdown"]
    /\ UNCHANGED <<queueVars, outcome>>

\* The process disappears: a crash, or the exit of a forced stop.
Dies(w) ==
    /\ ~At(w, "dead")
    /\ \/ At(w, "idle") /\ worker[w].forced /\ UNCHANGED faults
       \/ Active(w) /\ worker[w].forced /\ UNCHANGED faults
       \/ Survivor(w) /\ Fault
    /\ worker' = [worker EXCEPT ![w] = [Idle EXCEPT !.at = "dead"]]
    /\ UNCHANGED <<queueVars, outcome>>

\* Recovery belongs to the main loop of a worker: an idle one.
WorkerRecovers ==
    /\ \E w \in Worker : At(w, "idle") /\ ~worker[w].forced
    /\ RecoverStaleJobs
    /\ UNCHANGED attemptVars

TimePasses ==
    /\ Tick
    /\ worker' = [w \in Worker |-> [worker[w] EXCEPT !.left = Larger(@ - 1, 0),
                                                     !.offer = Larger(@ - 1, 0)]]
    /\ UNCHANGED <<outcome, faults>>

Client ==
    /\ \/ \E kind \in Kind, p \in Priority, m \in 1 .. MaxAttempts, d \in StartDelays :
            EnqueueJob(kind, NoKey, p, m, d)
       \/ \E j \in Job : CancelJob(j)
       \/ PurgeTerminalJobs
    /\ UNCHANGED attemptVars

MainStep(w) ==
    \/ SendClaim(w) \/ ClaimCommits(w) \/ ClaimAnswered(w) \/ ClaimFindsNothing(w)
    \/ \E r \in Result \ {"none"} : HandlerEnds(w, r)
    \/ JudgeAttempt(w)
    \/ PublicationCommits(w) \/ PublicationAnswered(w) \/ PublicationRefused(w)

KeeperStep(w) ==
    \/ KeeperExpires(w) \/ SendRenewal(w) \/ RenewalCommits(w) \/ RenewalRefused(w)
    \/ RenewalAnswered(w)

ControlStep(w) == ForceStop(w) \/ ReleaseCommits(w) \/ ReleaseAnswered(w) \/ ReleaseFails(w)

FaultStep(w) == ClaimBreaks(w) \/ RenewalBreaks(w) \/ PublicationBreaks(w) \/ Dies(w)

AttemptNext ==
    \/ \E w \in Worker : MainStep(w) \/ KeeperStep(w) \/ ControlStep(w) \/ FaultStep(w)
    \/ WorkerRecovers
    \/ TimePasses
    \/ Client

AttemptSpec == AttemptInit /\ [][AttemptNext]_allVars

\* The threads of a live process run and its handlers end; the clock advances; the
\* main loop recovers expired leases every recovery_interval_seconds, so it does not
\* poll for ever without doing so (strong fairness).  Clients, faults, renewals and
\* releases are not required to happen.
Fairness ==
    /\ \A w \in Worker : WF_allVars(MainStep(w))
    /\ SF_allVars(WorkerRecovers)
    /\ WF_allVars(TimePasses)

FairSpec == AttemptSpec /\ Fairness

-----------------------------------------------------------------------------
(* Properties *)

\* Until its local deadline, a worker that was told of no loss really holds the row,
\* and the database counts at least as much time as the worker does.  Hence two
\* workers that both trust their leases never execute the same job.
LocalDeadlineIsPessimistic ==
    \A w \in Worker :
        /\ worker[w].at \in {"claimed", "working", "ended"}
        /\ worker[w].lost = "no" /\ worker[w].release = "none" /\ worker[w].left > 0
        => Owns(Hand(w)) /\ jobs[Hand(w).job].lease >= worker[w].left

\* What a worker reports as published was published, by it, for that attempt: lost
\* answers and retries never make it report a result the table does not hold.
OutcomeIsTrue ==
    \A w \in Worker :
        outcome[w].what \in Published =>
            \E i \in DOMAIN trail[outcome[w].rec.job] :
                LET e == trail[outcome[w].rec.job][i]
                IN  /\ e.act = outcome[w].what
                    /\ e.by = w
                    /\ e.attempts = outcome[w].rec.attempts

\* The workers only use the table through the functions of jobs.py: whatever holds of
\* JobQueue holds here.
UsesTheQueue == Spec

\* No work is lost: whatever crashes, answers lost and leases expired, a job that was
\* queued or running ends, unless a forced stop stranded it.
EveryJobEnds ==
    \A j \in Job :
        jobs[j].status \in {"queued", "running"}
            ~> jobs[j].status \in TERMINAL_STATUSES \cup {"purged"} \/ Stranded(j)
=============================================================================
