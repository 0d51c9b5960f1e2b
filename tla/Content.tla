------------------------------- MODULE Content -------------------------------
(***************************************************************************)
(* Snapshots, analyses and reports: the use cases import_csv_snapshot and  *)
(* analyze_snapshot as the worker's handlers run them, at least once per   *)
(* job, over source files that may change, a connection that may be        *)
(* revoked, transactions that may fail and attempts that may die, or go on *)
(* after their lease was taken from them.                                  *)
(*                                                                         *)
(* An attempt is a pair <<job, rank>>.  It writes at most one row in       *)
(* data_snapshots, one in analysis_runs and one in reports, so the tables  *)
(* are functions of the attempt, and an attempt names its rows.  A         *)
(* transaction is one step, except that write_snapshot reads the           *)
(* connection when it opens and meets the unique index when it commits.    *)
(*                                                                         *)
(* One store, one connection, one set of source files, one configuration:  *)
(* two imports always compete, and so do two analyses of a snapshot.       *)
(* The files may be edited between any two reads, and may come back to the *)
(* bytes they had; a read takes all of them at once.                       *)
(***************************************************************************)
EXTENDS Integers, Sequences

CONSTANTS
    ImportJob, AnalysisJob,     \* the jobs that may be enqueued
    Budget,         \* Budget[j]: max_attempts
    MaxVersion,     \* bound: the contents the files may have
    MaxEdits,       \* bound: the times the files change
    Invalid,        \* the contents validate_many finds unusable
    Unreadable,     \* the contents load_dataset raises on
    Foreign,        \* the contents in another currency than the store's
    Insufficient,   \* the contents whose history is too short for the engine
    Together,       \* bound: the sets of jobs enqueued in one behaviour
    MaxFaults,      \* bound: crashes, leases lost alive, exceptions, lost answers
    Nothing         \* SQL NULL, or no row found

Job == ImportJob \cup AnalysisJob
Version == 1 .. MaxVersion
Attempt == UNION {{<<j, n>> : n \in 1 .. Budget[j]} : j \in Job}

ASSUME ContentAssumption ==
    /\ ImportJob \cap AnalysisJob = {}
    /\ Budget \in [Job -> Nat \ {0}]
    /\ MaxVersion \in Nat \ {0}
    /\ MaxEdits \in Nat
    /\ MaxFaults \in Nat
    /\ Together \subseteq SUBSET Job
    /\ Nothing \notin Attempt

VARIABLES
    history,    \* the contents of the source files, the last of them being there
    revoked,    \* is the connection revoked?
    jobs,       \* jobs[j]: the columns of a job the handlers depend on
    at,         \* at[a]: the next step of attempt a
    local,      \* local[a]: what attempt a holds in its variables
    snapshots,  \* snapshots[a]: the row attempt a wrote in data_snapshots
    runs,       \* runs[a]: the row attempt a wrote in analysis_runs
    reports,    \* reports[a]: the content the report of run a is about, or 0
    trail,      \* the events import.succeeded and analysis.succeeded
    faults

tables == <<snapshots, runs, reports>>
world == <<history, revoked>>
vars == <<history, revoked, jobs, at, local, snapshots, runs, reports, trail, faults>>

-----------------------------------------------------------------------------
(* Rows *)

Code == {"none", "validation_failed", "ingestion_failed", "source_changed_during_import",
         "connection_revoked", "currency_mismatch_with_store", "insufficient_data",
         "internal_error", "report_persistence_failed", "raised", "sqlstate_23505",
         "lease_expired"}

\* "snapshot": the snapshot an analysis job names; "result": the snapshot or the run
\* its success names.
JobRow == [status : {"absent", "queued", "running", "succeeded", "failed"},
           attempts : Nat, snapshot : Attempt \cup {Nothing},
           result : Attempt \cup {Nothing}, code : Code]

\* "rows": the content of the canonical rows, all inserted by the transaction that seals.
SnapshotRecord == [status : {"none", "failed", "completed"}, inputs_sha256 : 0 .. MaxVersion,
                   rows : 0 .. MaxVersion, failure_code : Code]

AnalysisRunRecord == [status : {"none", "running", "failed", "completed"},
                      snapshot : Attempt \cup {Nothing}, failure_code : Code]

\* "sources": the hashes taken first; "dataset": what load_dataset read; "out": the
\* snapshot or the run to return; "code", "retryable": the failure to report.
Local == [sources : 0 .. MaxVersion, dataset : 0 .. MaxVersion,
          out : Attempt \cup {Nothing}, code : Code, retryable : BOOLEAN]

Step == {"idle", "begin", "validate", "find", "load", "rehash", "open", "commit",
         "reject", "lookup", "start", "engine", "publish", "abandon",
         "trace", "refuse", "succeed", "fail", "over"}

NoLocal == [sources |-> 0, dataset |-> 0, out |-> Nothing, code |-> "none",
            retryable |-> FALSE]

NoSnapshot == [status |-> "none", inputs_sha256 |-> 0, rows |-> 0, failure_code |-> "none"]
NoRun == [status |-> "none", snapshot |-> Nothing, failure_code |-> "none"]

Init ==
    /\ history = <<1>>
    /\ revoked = FALSE
    /\ jobs = [j \in Job |-> [status |-> "absent", attempts |-> 0, snapshot |-> Nothing,
                              result |-> Nothing, code |-> "none"]]
    /\ at = [a \in Attempt |-> "idle"]
    /\ local = [a \in Attempt |-> NoLocal]
    /\ snapshots = [a \in Attempt |-> NoSnapshot]
    /\ runs = [a \in Attempt |-> NoRun]
    /\ reports = [a \in Attempt |-> 0]
    /\ trail = {}
    /\ faults = 0

-----------------------------------------------------------------------------
(* The files, the connection and the queue *)

files == history[Len(history)]

EditFiles ==
    /\ Len(history) <= MaxEdits
    /\ \E c \in Version \ {files} : history' = Append(history, c)
    /\ UNCHANGED <<revoked, jobs, at, local, tables, trail, faults>>

RevokeConnection ==
    /\ ~revoked
    /\ revoked' = TRUE
    /\ UNCHANGED <<history, jobs, at, local, tables, trail, faults>>

MayEnqueue(j) ==
    /\ jobs[j].status = "absent"
    /\ \E w \in Together : {j} \cup {i \in Job : jobs[i].status # "absent"} \subseteq w

EnqueueImport(j) ==
    /\ j \in ImportJob
    /\ MayEnqueue(j)
    /\ jobs' = [jobs EXCEPT ![j].status = "queued"]
    /\ UNCHANGED <<world, at, local, tables, trail, faults>>

\* enqueue_analysis refuses a snapshot that is not completed.
EnqueueAnalysis(j, s) ==
    /\ j \in AnalysisJob
    /\ MayEnqueue(j)
    /\ snapshots[s].status = "completed"
    /\ jobs' = [jobs EXCEPT ![j].status = "queued", ![j].snapshot = s]
    /\ UNCHANGED <<world, at, local, tables, trail, faults>>

Claim(j) ==
    LET a == <<j, jobs[j].attempts + 1>>
    IN  /\ jobs[j].status = "queued"
        /\ jobs' = [jobs EXCEPT ![j].status = "running", ![j].attempts = a[2]]
        /\ at' = [at EXCEPT ![a] = "begin"]
        /\ UNCHANGED <<world, local, tables, trail, faults>>

Owner(a) == jobs[a[1]].status = "running" /\ jobs[a[1]].attempts = a[2]

\* The row after an attempt that did not succeed: back in the queue, or failed.
Ended(j, again, code) ==
    IF again /\ jobs[j].attempts < Budget[j]
    THEN [jobs[j] EXCEPT !.status = "queued"]
    ELSE [jobs[j] EXCEPT !.status = "failed", !.code = code]

\* A lease runs out when its attempt is over, or while a stalled attempt still runs.
RecoverJob(j) ==
    /\ jobs[j].status = "running"
    /\ IF at[<<j, jobs[j].attempts>>] = "over"
       THEN UNCHANGED faults
       ELSE faults < MaxFaults /\ faults' = faults + 1
    /\ jobs' = [jobs EXCEPT ![j] = Ended(j, TRUE, "lease_expired")]
    /\ UNCHANGED <<world, at, local, tables, trail>>

-----------------------------------------------------------------------------
(* Steps of an attempt *)

\* What may be raised: the request is at fault; the server does not answer; it answers with
\* an SQLSTATE that another try may not meet, or that it will; or nobody knows.
Cause == {"request", "unanswered", "transient", "constraint", "unknown"}

\* classify and retryable_database_error; of the unknown, max_attempts has the last word.
Retryable(cause) == cause \in {"unanswered", "transient", "unknown"}

Goes(a, step) == at' = [at EXCEPT ![a] = step]

Stops(a) == Goes(a, "over") /\ local' = [local EXCEPT ![a] = NoLocal]

\* checkpoint() reads the flag of the lease keeper, never the row: the attempt stops if the
\* keeper found out that the row is lost, and goes on as long as it did not.
LossIsKnown(a) == ~Owner(a) /\ Stops(a)

Checkpoint(a, step) ==
    \/ Goes(a, step) /\ UNCHANGED local
    \/ LossIsKnown(a)

Holds(a, step, l) == Goes(a, step) /\ local' = [local EXCEPT ![a] = l]

Fails(a, step, code, retryable) ==
    Holds(a, step, [local[a] EXCEPT !.sources = 0, !.code = code, !.retryable = retryable])

\* The use case is over: the handler keeps what it returned.
Returns(a, out) == Holds(a, "trace", [NoLocal EXCEPT !.out = out])

\* The event import.started behind a checkpoint, the permission, and the first hashes.
BeginImport(a) ==
    /\ at[a] = "begin" /\ a[1] \in ImportJob
    /\ \/ Holds(a, "validate", [local[a] EXCEPT !.sources = files])
       \/ LossIsKnown(a)
    /\ UNCHANGED <<world, jobs, tables, trail, faults>>

ValidateFiles(a) ==
    /\ at[a] = "validate"
    /\ IF files \in Invalid
       THEN Fails(a, "reject", "validation_failed", FALSE)
       ELSE Goes(a, "find") /\ UNCHANGED local
    /\ UNCHANGED <<world, jobs, tables, trail, faults>>

Sealed(s, c) == snapshots[s].status = "completed" /\ snapshots[s].inputs_sha256 = c

find_completed_snapshot(c) ==
    IF \E s \in Attempt : Sealed(s, c)
    THEN CHOOSE s \in Attempt : Sealed(s, c)
    ELSE Nothing

\* "reused", or the sources are loaded.
FindSnapshot(a) ==
    /\ at[a] = "find"
    /\ LET s == find_completed_snapshot(local[a].sources)
       IN  IF s = Nothing THEN Goes(a, "load") /\ UNCHANGED local ELSE Returns(a, s)
    /\ UNCHANGED <<world, jobs, tables, trail, faults>>

LoadSources(a) ==
    /\ at[a] = "load"
    /\ IF files \in Unreadable
       THEN Fails(a, "reject", "ingestion_failed", FALSE)
       ELSE Holds(a, "rehash", [local[a] EXCEPT !.dataset = files])
    /\ UNCHANGED <<world, jobs, tables, trail, faults>>

\* LoadedBetweenItsHashes: the files are not hashed a second time.
HashAgainFaulty(a) ==
    /\ at[a] = "rehash"
    /\ Goes(a, "open") /\ UNCHANGED local
    /\ UNCHANGED <<world, jobs, tables, trail, faults>>

HashAgain(a) ==
    /\ at[a] = "rehash"
    /\ IF files # local[a].sources
       THEN Fails(a, "reject", "source_changed_during_import", TRUE)
       ELSE Goes(a, "open") /\ UNCHANGED local
    /\ UNCHANGED <<world, jobs, tables, trail, faults>>

\* The transaction of write_snapshot opens: it reads the connection and the store.
OpenSnapshot(a) ==
    /\ at[a] = "open"
    /\ CASE revoked -> Fails(a, "reject", "connection_revoked", FALSE)
         [] ~revoked /\ local[a].dataset \in Foreign ->
                Fails(a, "reject", "currency_mismatch_with_store", FALSE)
         [] OTHER -> Goes(a, "commit") /\ UNCHANGED local
    /\ UNCHANGED <<world, jobs, tables, trail, faults>>

CompletedSnapshot(a) ==
    [status |-> "completed", inputs_sha256 |-> local[a].sources, rows |-> local[a].dataset,
     failure_code |-> "none"]

\* An answer may be lost after the commit: the caller sees a retryable error.
Answered(a, answered) ==
    IF answered
    THEN Returns(a, a) /\ UNCHANGED faults
    ELSE /\ faults < MaxFaults /\ faults' = faults + 1
         /\ Fails(a, IF a[1] \in AnalysisJob THEN "abandon" ELSE "fail",
                  "raised", Retryable("unanswered"))

\* Refines: data_snapshots_inputs_uniq is missing.
SealSnapshotFaulty(a, answered) ==
    /\ at[a] = "commit"
    /\ snapshots' = [snapshots EXCEPT ![a] = CompletedSnapshot(a)]
    /\ Answered(a, answered)
    /\ UNCHANGED <<world, jobs, runs, reports, trail>>

\* The UPDATE to 'completed' meets no row of the unique index, and commits.
SealSnapshot(a, answered) ==
    /\ at[a] = "commit"
    /\ ~\E s \in Attempt : Sealed(s, local[a].sources)
    /\ snapshots' = [snapshots EXCEPT ![a] = CompletedSnapshot(a)]
    /\ Answered(a, answered)
    /\ UNCHANGED <<world, jobs, runs, reports, trail>>

\* UniqueViolation: the rows are rolled back and the winner's snapshot is looked up,
\* in another transaction, but a sealed snapshot does not change in between.
SealConflict(a) ==
    /\ at[a] = "commit"
    /\ \E s \in Attempt : Sealed(s, local[a].sources)
    /\ Returns(a, find_completed_snapshot(local[a].sources))
    /\ UNCHANGED <<world, jobs, tables, trail, faults>>

record_failed_snapshot(a) ==
    /\ at[a] = "reject"
    /\ snapshots' = [snapshots EXCEPT ![a] =
            [NoSnapshot EXCEPT !.status = "failed", !.failure_code = local[a].code]]
    /\ Goes(a, "refuse")
    /\ UNCHANGED <<world, jobs, local, runs, reports, trail, faults>>

BeginAnalysis(a) ==
    /\ at[a] = "begin" /\ a[1] \in AnalysisJob
    /\ Checkpoint(a, "lookup")
    /\ UNCHANGED <<world, jobs, tables, trail, faults>>

Completed(r, s) == runs[r].status = "completed" /\ runs[r].snapshot = s

\* SuccessIsBacked: a run that is still running is taken for the answer.
find_completed_run_Faulty(s) ==
    IF \E r \in Attempt : runs[r].snapshot = s
    THEN CHOOSE r \in Attempt : runs[r].snapshot = s
    ELSE Nothing

find_completed_run(s) ==
    IF \E r \in Attempt : Completed(r, s)
    THEN CHOOSE r \in Attempt : Completed(r, s)
    ELSE Nothing

\* "reused" with the report of that run, or a run is started.
FindRun(a) ==
    /\ at[a] = "lookup"
    /\ LET r == find_completed_run(jobs[a[1]].snapshot)
       IN  IF r = Nothing THEN Goes(a, "start") /\ UNCHANGED local ELSE Returns(a, r)
    /\ UNCHANGED <<world, jobs, tables, trail, faults>>

\* The trigger analysis_runs_require_sealed_snapshot.
RequiresSealedSnapshot(s) == snapshots[s].status = "completed"

start_run(a) ==
    /\ at[a] = "start"
    /\ RequiresSealedSnapshot(jobs[a[1]].snapshot)
    /\ runs' = [runs EXCEPT ![a] = [NoRun EXCEPT !.status = "running",
                                                 !.snapshot = jobs[a[1]].snapshot]]
    /\ Goes(a, "engine")
    /\ UNCHANGED <<world, jobs, local, snapshots, reports, trail, faults>>

\* load_dataset rebuilds the content; the engine reports on it, or the history is short.
RunEngine(a) ==
    /\ at[a] = "engine"
    /\ LET c == snapshots[runs[a].snapshot].rows
       IN  IF c \in Insufficient
           THEN Fails(a, "abandon", "insufficient_data", FALSE)
           ELSE Holds(a, "publish", [local[a] EXCEPT !.dataset = c])
    /\ UNCHANGED <<world, jobs, tables, trail, faults>>

\* A run changes while it is running, and never after: the UPDATE says so, and so does the
\* trigger analysis_runs_guard_finished.
MayChange(r) == runs[r].status = "running"

\* The report and the end of the run are one transaction, under the unique index.
complete_run(a, answered) ==
    /\ at[a] = "publish"
    /\ MayChange(a)
    /\ ~\E r \in Attempt : Completed(r, runs[a].snapshot)
    /\ runs' = [runs EXCEPT ![a].status = "completed"]
    /\ reports' = [reports EXCEPT ![a] = local[a].dataset]
    /\ Answered(a, answered)
    /\ UNCHANGED <<world, jobs, snapshots, trail>>

\* UniqueViolation: the run is failed quietly and the exception goes up.
CompleteConflict(a) ==
    /\ at[a] = "publish"
    /\ \E r \in Attempt : Completed(r, runs[a].snapshot)
    /\ Fails(a, "abandon", "sqlstate_23505", Retryable("constraint"))
    /\ UNCHANGED <<world, jobs, tables, trail, faults>>

\* "insufficient_data" stands for "analysis_failed" too: both end the job for good.
FailedRun(a) ==
    [runs[a] EXCEPT !.status = "failed",
        !.failure_code = CASE local[a].code = "insufficient_data" -> "insufficient_data"
                           [] local[a].code # "insufficient_data" /\ local[a].dataset = 0 ->
                                  "internal_error"
                           [] OTHER -> "report_persistence_failed"]

\* Anchored: the run is failed whatever its status.
fail_run_Faulty(a) ==
    /\ at[a] = "abandon"
    /\ runs' = [runs EXCEPT ![a] = FailedRun(a)]
    /\ Goes(a, IF local[a].code = "insufficient_data" THEN "refuse" ELSE "fail")
    /\ UNCHANGED <<world, jobs, local, snapshots, reports, trail, faults>>

\* Only a running run fails; _fail_quietly swallows the refusal of a completed one.
fail_run(a) ==
    /\ at[a] = "abandon"
    /\ runs' = IF MayChange(a) THEN [runs EXCEPT ![a] = FailedRun(a)] ELSE runs
    /\ Goes(a, IF local[a].code = "insufficient_data" THEN "refuse" ELSE "fail")
    /\ UNCHANGED <<world, jobs, local, snapshots, reports, trail, faults>>

-----------------------------------------------------------------------------
(* How a handler ends *)

\* checkpoint, then the event *.succeeded.
TraceSuccess(a) ==
    /\ at[a] = "trace"
    /\ \/ /\ Goes(a, "succeed") /\ UNCHANGED local
          /\ trail' = trail \cup {<<a, local[a].out>>}
       \/ LossIsKnown(a) /\ UNCHANGED trail
    /\ UNCHANGED <<world, jobs, tables, faults>>

\* checkpoint, then the event *.failed and a JobExecutionError.
TraceRefusal(a) ==
    /\ at[a] = "refuse"
    /\ Checkpoint(a, "fail")
    /\ UNCHANGED <<world, jobs, tables, trail, faults>>

MarkSucceeded(a) ==
    /\ at[a] = "succeed"
    /\ jobs' = IF Owner(a)
               THEN [jobs EXCEPT ![a[1]].status = "succeeded", ![a[1]].result = local[a].out]
               ELSE jobs
    /\ Stops(a)
    /\ UNCHANGED <<world, tables, trail, faults>>

MarkFailed(a) ==
    /\ at[a] = "fail"
    /\ jobs' = IF Owner(a)
               THEN [jobs EXCEPT ![a[1]] = Ended(a[1], local[a].retryable, local[a].code)]
               ELSE jobs
    /\ Stops(a)
    /\ UNCHANGED <<world, tables, trail, faults>>

Alive(a) == at[a] \notin {"idle", "over"}

\* Any transaction or read may raise.  An exception between start_run and complete_run
\* fails the run on its way.
Raise(a, cause) ==
    /\ faults < MaxFaults /\ faults' = faults + 1
    /\ Alive(a) /\ at[a] \notin {"succeed", "fail"}
    /\ CASE at[a] \in {"engine", "publish"} -> Fails(a, "abandon", "raised", Retryable(cause))
         [] at[a] = "abandon" /\ local[a].code # "insufficient_data" ->
                Goes(a, "fail") /\ UNCHANGED local
         [] OTHER -> Fails(a, "fail", "raised", Retryable(cause))
    /\ UNCHANGED <<world, jobs, tables, trail>>

Crash(a) ==
    /\ faults < MaxFaults /\ faults' = faults + 1
    /\ Alive(a)
    /\ Stops(a)
    /\ UNCHANGED <<world, jobs, tables, trail>>

ImportStep(a) ==
    \/ BeginImport(a) \/ ValidateFiles(a) \/ FindSnapshot(a)
    \/ LoadSources(a) \/ HashAgain(a) \/ OpenSnapshot(a)
    \/ \E answered \in BOOLEAN : SealSnapshot(a, answered)
    \/ SealConflict(a) \/ record_failed_snapshot(a)

AnalysisStep(a) ==
    \/ BeginAnalysis(a) \/ FindRun(a) \/ start_run(a) \/ RunEngine(a)
    \/ \E answered \in BOOLEAN : complete_run(a, answered)
    \/ CompleteConflict(a) \/ fail_run(a)

AttemptStep(a) ==
    \/ ImportStep(a) \/ AnalysisStep(a)
    \/ TraceSuccess(a) \/ TraceRefusal(a) \/ MarkSucceeded(a) \/ MarkFailed(a)

Next ==
    \/ EditFiles \/ RevokeConnection
    \/ \E j \in Job : EnqueueImport(j) \/ Claim(j) \/ RecoverJob(j)
    \/ \E j \in Job, s \in Attempt : EnqueueAnalysis(j, s)
    \/ \E a \in Attempt : AttemptStep(a) \/ Crash(a)
    \/ \E a \in Attempt, cause \in Cause : Raise(a, cause)

Spec == Init /\ [][Next]_vars

-----------------------------------------------------------------------------
(* Properties *)

\* The tables hold what their columns admit, and an attempt that is not in a handler
\* holds nothing.
ContentTypeOK ==
    /\ history \in Seq(Version) /\ Len(history) \in 1 .. MaxEdits + 1 /\ revoked \in BOOLEAN /\ faults \in 0 .. MaxFaults
    /\ jobs \in [Job -> JobRow]
    /\ at \in [Attempt -> Step]
    /\ local \in [Attempt -> Local]
    /\ snapshots \in [Attempt -> SnapshotRecord]
    /\ runs \in [Attempt -> AnalysisRunRecord]
    /\ reports \in [Attempt -> 0 .. MaxVersion]
    /\ trail \subseteq Attempt \X Attempt

\* The rows of a sealed snapshot were loaded from files that had the content of its
\* fingerprint before and again after: they are the rows of that content, unless the files
\* were replaced and put back between the two hashes, which no hash can tell.
LoadedBetweenItsHashes ==
    \A s \in Attempt : snapshots[s].status = "completed" =>
        \E before, loaded, after \in DOMAIN history :
            /\ before <= loaded /\ loaded <= after
            /\ history[before] = snapshots[s].inputs_sha256
            /\ history[loaded] = snapshots[s].rows
            /\ history[after] = snapshots[s].inputs_sha256

\* A report belongs to a completed run over a sealed snapshot and is about its rows; a
\* completed run has its report, whatever answers were lost around the commit.
Anchored ==
    \A r \in Attempt :
        /\ runs[r].status = "completed" <=> reports[r] # 0
        /\ runs[r].status # "none" => snapshots[runs[r].snapshot].status = "completed"
        /\ reports[r] # 0 => reports[r] = snapshots[runs[r].snapshot].rows

\* A job that succeeded names a sealed snapshot or a reported run, and the attempt that
\* ended it traced that very resource.
SuccessIsBacked ==
    \A j \in Job : jobs[j].status = "succeeded" =>
        /\ <<<<j, jobs[j].attempts>>, jobs[j].result>> \in trail
        /\ j \in ImportJob => snapshots[jobs[j].result].status = "completed"
        /\ j \in AnalysisJob => /\ reports[jobs[j].result] # 0
                                /\ runs[jobs[j].result].snapshot = jobs[j].snapshot

\* What is sealed, failed, completed or reported is never changed, even by an attempt
\* that lost its lease long ago.
FinishedIsFinal ==
    [][\A a \in Attempt :
        /\ snapshots[a].status # "none" => snapshots'[a] = snapshots[a]
        /\ runs[a].status \in {"failed", "completed"} => runs'[a] = runs[a]
        /\ reports[a] # 0 => reports'[a] = reports[a]]_vars

\* The abstract view: fingerprints are sealed and reported once each.
Promise == INSTANCE ContentPromise WITH
    Contents <- Version,
    Ids <- Attempt,
    sealed <- {<<s, snapshots[s].inputs_sha256>> :
                    s \in {a \in Attempt : snapshots[a].status = "completed"}},
    reported <- {<<r, snapshots[runs[r].snapshot].inputs_sha256>> :
                    r \in {a \in Attempt : reports[a] # 0}}

Refines == Promise!Spec

\* workers/handlers.py says that a replayed analysis returns "reused" and the same
\* identifier, thanks to analysis_runs_completed_uniq.  An analysis that overlaps an
\* identical one meets that index when it completes, and its job fails for good.
DuplicateIsReused ==
    \A j \in AnalysisJob : ~(jobs[j].status = "failed" /\ jobs[j].code = "sqlstate_23505")
=============================================================================
