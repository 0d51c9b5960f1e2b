# A formal model of mervio

mervio turns the exports of a shop (orders, products, payments, advertising) into a report
on its activity. Around that engine stand a multi-tenant persistence layer on PostgreSQL, a
queue of jobs with background workers, commands that administer the organizations, and a
layer that has a language model explain a report. This directory models them in TLA+,
checks the models with TLC and proves part of what they show with TLAPS.

Paths below are relative to the root of the repository; `mervio/` stands for
`src/mervio/`. `PROJECT.json` lists every component with its status, every run, the lines
each definition models, and the hazards one by one.

## 1. Inventory

### Components, their state and their operations

| Component | State | Operations | Interacts through |
|---|---|---|---|
| Job queue (`mervio/persistence/jobs.py`, migrations 0004, 0006) | table `jobs`: status, attempts, lock, lease, delay | enqueue, claim, renew, mark succeeded / failed, requeue, cancel, recover, purge | transactions; `TransitionHook` writes the audit event in the same one; a trigger checks every UPDATE again |
| Worker (`mervio/workers/worker.py`) and lease keeper (`lease.py`) | attempt in hand, local deadline, loss, pending organizations | claim, execute, publish, release, recover; renew from a second thread | the queue; callbacks to the process; a second connection for the keeper |
| Worker process (`runtime.py`, `lifecycle.py`) | lifecycle, `_stop`, `_forced`, timers | connect, loop, stop, force, exit | signals (one thread each), two timers, the worker, the health file |
| Health file (`mervio/observability/health.py`) | one JSON document per worker | publish a state, beat, read, judge | written by three threads, read by the container probe |
| Dispatch and service identity (`dispatch.py`, `service.py`, 0007) | cursor, authorizations | next organizations, authorize, revoke, delegated session | the queue of every organization, membership |
| Handlers (`handlers.py`, `errors.py`) | none of their own | import, analysis, purge; classification of errors | snapshots, analyses, audit, queue |
| Snapshots (`snapshots.py`, `persisted_analysis.py`, 0002) | immutable snapshots, sealed in one transaction | import, find, load | unique fingerprint per store, connections that may be revoked |
| Analyses (`analyses.py`, 0003) | runs and reports | start, complete, fail, find | snapshots; unique completed run |
| Retention (`retention.py`, `handlers.py`) | none of its own | purge of jobs, then of events | the queue and the audit log, by two cut-offs |
| Tenancy, stores (`tenancy.py`, `stores.py`, 0001, 0009) | users, memberships, stores, connections | provision, add, remove, revoke | every transaction reads the role again |
| Audit (`audit.py`, 0005, 0008) | append-only events with a floor of retention | record, list, purge | hooks of the other components |
| Administration (`mervio/admin`) | none | idempotent commands, each a sequence of short transactions | all the above, under advisory locks |
| Ingestion (`mervio/ingestion`, `domain`) | none | read four exports line by line into a dataset and its quality | called by the handlers and by the command line |
| Analytics (`mervio/analytics`) | none | periods, metrics, profitability, anomalies, causes, insights, score, report | a dataset, read from files or loaded from a snapshot |
| Language model layer (`mervio/llm`) | the thread of a provider's call | build and fit a context, call with a delay and retries, validate the answer | after a report |

Reporting, synthetic data, logging, the parsing of settings and arguments, and the
deployment files keep no state that another component depends on.

### What is hard, and what makes each part correct

* **Queue.** Two workers claim at once; a stalled worker comes back with an old record;
  recovery races with the holder; a request is replayed while its row is purged. Correct
  when at most one attempt can change a row, a lease protects its holder, attempts stay
  within the budget, the trigger accepts what the code does, and the audit trail tells
  the history that happened.
* **Worker.** Every answer of the database can be lost, before or after the commit; three
  threads share an attempt; processes die anywhere. Correct when a worker never trusts a
  lease the table no longer grants, never reports a publication that did not happen, and
  every job ends.
* **Process.** Signals, timers and outages interleave with the main thread at every
  point. Correct when a stop ends the process, in a terminal state, and when nothing but
  a second signal or the grace delay forces it.
* **Dispatch.** Authorizations change between listing and claiming; rotation must not
  starve an organization.
* **Imports and analyses.** A job is executed at least once, so the same import or
  analysis runs twice, concurrently too, over files that change between the reads that
  hash, validate and load them; failures are traced outside the transaction that failed.
  Correct when a content is sealed once and reported once, what is sealed was read between
  two readings of what was hashed, and what a job announces is there.
* **Retention.** Jobs and their events are purged by different statements and cut-offs,
  with the clock of a worker; purges overlap, and one may stop half way. Correct when only
  the oldest rows go, and when a finished job outlives the event of its end only behind a
  batch that was full.
* **Administration.** What "create once" means is kept by a lock around a lookup and a
  creation that are two transactions. Correct when a name has one row, as far as the lookup
  reads, and a change one event, wherever commands die, and when an answer is true.
* **Reading and analysing.** The order of day and month is guessed from a column, an order
  spans several lines, costs are unknown for some sales, a refund is only known between
  bounds, and a dataset goes through the tables of a snapshot and back. Correct when a
  figure is given only when it is whole, nothing counts twice, and no alarm is lost.
* **Explanation.** A context over its limit is cut section by section while its parts refer
  to each other; a call that timed out may answer during the next; the text may quote what
  the report does not hold. Correct when references stay true, late answers are ignored,
  and what is handed over says nothing the report does not.

## 2. Modules

| Module | What it models |
|---|---|
| `JobPromise` | what the queue promises: a job is handed to one worker at a time, a bounded number of times, and its verdict is pronounced once |
| `JobQueue` | the rows of one organization, one action per function of `jobs.py`, the trigger of revision 0006 |
| `WorkerAttempt` | worker processes: claim, handler, keeper, publication, forced release, crashes; extends `JobQueue` and changes the table through its actions only |
| `WorkerRuntime` | one process: main thread, signal threads, timers, lifecycle, published state |
| `Dispatcher` | several organizations and the workers of one service: lists, cursor, claims and recoveries in each organization, authorizations granted and revoked at any moment |
| `DispatcherTurns` | `Dispatcher` with variables that only observe: who overtakes whom, what a claim has missed |
| `ContentPromise` | what snapshots and reports promise: a content is sealed once, reported once, and neither is withdrawn |
| `Content` | imports and analyses as the handlers run them, attempt by attempt: two runs, a unique index each, traces, refusals, lost answers |
| `Retention` | purge jobs of any policy, several at a time, over jobs that are created and finish |
| `Administration` | commands as sequences of transactions, their locks, roles, answers and events, and services that write for the members who asked |
| `Calendar`, `Ingestion` | days, periods and date cells; the reading of four exports one line at a time |
| `SnapshotRows` | a dataset as the rows of a snapshot, the unique keys they must not break, and back |
| `Metrics`, `Signals` | the figures of a period; anomalies, causes, insights, the score and the report |
| `Engine` | the composition of the five above: read, then analyse, or store, load and analyse |
| `Lists` | what sorting, filtering, joining, adding up and dropping repetitions make of a list |
| `LlmContext`, `LlmResponse` | the context built of a report and cut to its limits; what is accepted of an answer |
| `Explanation` | one explanation: the context, the threads of the provider, delay, retries, fallbacks |
| `...Proofs` | theorems about the module they are named after; `JobQueueProofs` also about `WorkerAttempt`, `DispatcherProofs` about `DispatcherTurns` |
| `MC...` | small sets, and symmetry, for TLC |

Operators named `...Faulty`, `...Partly` or `...Untraced` are not part of the model: each
is a plausible mistake in the operator that follows it, kept to show that the property
named beside it would catch the mistake.

### JobQueue

`jobs[j]` holds the columns of a row an UPDATE may change, `request[j]` those only the
INSERT writes (a job is named by the rank of its creation, which is also the last key of
the claim's ORDER BY). A transaction of `jobs.py` is one action: its WHERE clause is
evaluated under the row lock. `enqueue_job` is the exception: INSERT ... ON CONFLICT and
the SELECT of a replay are two statements with two snapshots under READ COMMITTED, hence
`EnqueueConflict` and `EnqueueReplay`.

Workers are the most general clients: `records` keeps every `JobRecord` ever returned and
any of them may be used at any time. Leases, delays and ages are durations relative to
the database clock that `Tick` changes, saturated where nothing distinguishes more, so
the clock needs no bound. `MaxLocked` stands for SKIP LOCKED: as many eligible rows may
be locked by other transactions at a claim. `trail` is the audit log of the jobs, as the
hooks write it. `GuardTransition` is the trigger; the actions do not consult it, and
`TriggerAccepts` says they need not.

Left out: payloads, results and messages (no transition reads them), the parameter
`job_id` of `claim_next_job` (no caller in the program), the parameter `now` (only tests
pass a clock), tenant isolation (one organization; `Dispatcher` has several).

### WorkerAttempt

A call to the database is three steps: sent, committed or refused, answered or lost.
`left` is the time to the keeper's deadline, counted on the worker's clock from the
sending of the claim or of the last renewal that was answered; `offer` is the deadline a
renewal in flight would give. A worker whose process died (`dead`) keeps nothing, and its
row stays `running` until the lease ends. A worker told to stop by force is modelled even
between the claim and the start of its keeper, where the code finds nothing to release.

Both clocks advance together (`TimePasses`): the model assumes that they run at the same
rate, not that they agree.

### WorkerRuntime

Each read or write of shared state is one step, in the order of the code; a lifecycle
change and its publication are one step, as its lock makes them. `main` and `control` say
where each thread is. Delays of seconds run out only while the main thread is somewhere
it may spend seconds (`Waiting`): that excludes counterexamples in which half a minute
passes between two assignments. What the job does to the queue is abstracted to `attempt`.

### Dispatcher

`worker[w]` holds what `Worker` and its `Dispatcher` remember (`pending`, `cursor`) and the
local state of the call under way (`at`, `fetched`, `sweep`, the rows its open transaction
has changed). Every statement that sees another state of the tables is a step of its own:
the two queries of `next_organizations` (`ListReady`, `ListFromStart`), the UPDATE of a
claim (`LocksJob`) and the insertion of its audit event with the commit (`ClaimCommits`),
which the policy of the table refuses once the authorization is gone (`ClaimRefused`); and
likewise in a recovery. `Page` states what ORDER BY and LIMIT answer, so that proofs can
use it.

Jobs are counted, not named: `ready[o]` and `stale[o]` are the rows that a claim and a
recovery may lock, `leased[o]` those that run under nobody. The list sees the rows that
an open transaction has changed as they were (`LockedBy`).

Left out: the filter by job type (the list ignores it in the code too, and the deployment
sets none), the rotation over an explicit list of sessions, the lease of a holder that is
alive (`WorkerAttempt`).

### Content

An attempt is a pair of a job and a rank. It writes at most one snapshot, one run and one
report, so the tables are functions of the attempt, and a row is named by the attempt that
wrote it. `at[a]` is the next step of an attempt and `local[a]` its local variables. Each
read of the files is a step, since they may be edited between two; each transaction is a
step, except `write_snapshot`, which reads the connection when it opens (`OpenSnapshot`)
and meets the unique index when it commits (`SealSnapshot`). A commit whose answer is lost
leaves the row and tells the caller it failed. A checkpoint tests what the keeper has
learnt (`lease.py:96`), and not the row: an attempt that lost its lease passes its checkpoints,
and writes, until its keeper knows.

`history` is what the files contained, one content after another, and a content may come
back. `import_csv_snapshot` reads the files to hash them, to load them and to hash them
again: files that are replaced for the load and put back before the second hash are not
noticed, and the model has that. What the code does promise is `LoadedBetweenItsHashes`. A
read takes all the files at once; a reading that mixes two contents would be a third.

Contents are numbers: one store, one connection, one set of files and one configuration,
which is where attempts compete. The queue is reduced to what the handlers see of it.

### Retention

Of a job's trail the last event is kept, written by the transaction that ends the row; the
other events of the log only take their part of the limit of a deletion, which may be any
number below it. Days are ticks of the database's clock, the worker's may be `MaxSkew` away
from it. Both dates are written by one transaction, but not alike: the event bears its start
(`DEFAULT now()`, `0005_audit.py:61`), and so does the row, except for a cancellation, which
bears `clock_timestamp()` (`jobs.py:433`), up to `MaxTransaction` later. Rows may bear the same
instant (`recover_stale_jobs` ends a batch in one transaction), and the identifiers that break
the ties of the two ORDER BY are random, so `Oldest` breaks them in any way. A statement that
waits for the one of another purge may have selected rows that are gone (`seen`), which count
in its limit.

The floors of the code are 30 days for events and one hour for jobs. The assumptions are that
a transaction which ends a job lasts at most that hour (`MaxTransaction <= PURGE_FLOOR`), and
that clocks disagree by less than what is left of the 30 days (`MaxSkew + PURGE_FLOOR <=
AUDIT_FLOOR_DAYS`), say by 29 days.

### Administration

`rows` is every row ever inserted, named by its rank; a row that was deleted or revoked is
no longer `live`. A command is a script of requests, `step[p]` its place in the current
one. Each transaction is a step, and so is each statement that sees another state of the
tables: the list of the organizations of a user and the role in each of them, the INSERT
of an authorization and the SELECT that follows a conflict. `locks[p]` is the advisory lock
of the session of a process, which outlives its transactions and not its connection.
A service opens a transaction on behalf of the member who asked for a job
(`DelegateOpens`), and each later statement is judged by the policies anew
(`DelegateWrites`).

A connection is looked up in one store (`fetch_store`, which may find none), among its first
`PAGE_LIMIT` active connections (1000 in the code, `operations.py:476`). `Overlooked` says
which ones came after that many others of the store, and may be past the page; two of those
may bear one label, and two commands be told of different ones. The run has a page of one, and
a store whose page is full from the start.

### Engine

`Ingestion` reads one line per step: a line is a record of the cells the code reads, and a
cell is a token. `Metrics` and `Signals` are pure operators; `Report` applies them to a
dataset, a grain and a reference day. What the abstraction does:

* an instant is its UTC day (windows are cut at midnight);
* amounts are integers, quotients are fractions, scores are tenths, truncated; logarithms
  are only ever compared, so they are compared on the ratios;
* the confidence of a decline of the revenue, which nothing compares, is fixed;
* one reading stands for the two of the code (`validate_many`, then the load);
* currencies, titles, e-mails and identifiers are tokens; the sentences of a report are
  left out, and with them what only they hold;
* of a payment, the amount and the net are read, since an unreadable one refuses the line,
  and not kept.

A ratio is compared as the code compares it, whatever the sign of what it divides by
(`Reaches`): prices may be negative, and so may the revenue of the articles. The revenues of
the products that have a margin may cancel out, in which case the analysis fails
(`CancelOut`, a division by zero at `health.py:204`).

### Explanation

`BuildContext` and `FitContext` are the two halves of `context.py`; one round of
truncation is one step. `box[k]` is what the thread of attempt `k` left in its
queue, `Running` until it answers, and it may answer at any time, or never. A text is what
the regular expressions of `response.py` find in it: the numbers, metrics, marks and
currencies of each sentence, and the taints of the whole. Sizes are counted in items and
references instead of bytes; the delay between attempts is stuttering; masking, labels
and periods are left out, and so are the entries of the truncation about the lists inside an
item (contributors, quality). A context that cannot be built and one that is not valid are
refused by two codes, and a text that cannot be examined is given up (`validation_error`).

`Lists` says, for `Engine` too, what the lists of the program become by the places of their
elements (a sorted list puts each element at its rank, a filter picks places, a sum is the
last of the sums up to each place), where the folds of the community
modules would do as well, because TLAPS can reason about places and not about an operator
that is folded.

## 3. Runs

| Run | Bounds | Shows |
|---|---|---|
| `queue_jobs` | 2 jobs, 2 attempts, 2 workers, 2 priorities, 1 key, 1 locked row | fencing, constraints, audit trail, agreement with the trigger, batches of recovery and purge, lease protection, refinement of `JobPromise` |
| `attempt_faults` | 1 job, 2 attempts, 2 workers, lease of 2 ticks, 1 fault | local deadlines, truth of outcomes, refinement of `JobQueue`, `EveryJobEnds` |
| `runtime_stop` | 2 signals, 2 outages, 2 jobs | terminal states, one late claim, `StopEndsTheProcess` |
| `dispatch_turns` | 3 organizations, lists of 2, 1 job each, 1 fault | lists that wrap, `OvertakenTwiceAtMost`, `NoneWasClaimable`, `NoStarvation`, `EveryLeaseRecovered` |
| `content_jobs` | 2 imports that compete, or one and 2 analyses; 2 contents, 2 faults | rows read between two readings of their fingerprint, anchored reports, backed successes, refinement of `ContentPromise` |
| `retention_purges` | 2 jobs, 2 purges that may overlap, 3 policies of which one is refused, clock of 5 ticks, skew of 1, transactions of 1 | `LogIsASuffix`, `LeftByAFullBatch` |
| `admin_commands` | 3 processes, 16 scripts, 1 death, 1 service, a page of 1 connection | names, trail, answers |
| `engine_reports` | five families of small exports, 2 grains, 2 reference days | dates, orders, snapshots, sums over periods, costs, refunds, alarms |
| `explanation_answers` | 5 reports, 5 limits, 30 answers, 1 retry | references, truncation, late answers, grounding, `ExplanationEnds` |
| `queue_stranded`, `dispatch_revoked`, `content_duplicate` | as above, smaller | disagreements with the documentation, section 5 |

Why these bounds are enough to be interesting.

* Fencing needs a record of an attempt that was recovered and claimed again, hence two
  workers and two attempts. The batches of recovery and purge and the duplicate
  key need two rows, not three: each statement treats rows independently or compares two. Three attempts of one job were checked apart, and proved for any number.
* A lease of two ticks distinguishes a renewal from a first lease, a lease about to end, one
  that ended this instant (neither renewable nor recoverable) and one that expired. One
  fault is a lost answer, a crash or a forced stop at any step; two were checked apart, for
  the safety properties.
* In `WorkerRuntime` a third signal repeats the second (`_force` returns at once; checked
  apart), and two jobs let a job follow a late one.
* A rotation is interesting when a list is shorter than the number of organizations; three
  organizations and lists of two let a list wrap around and its two queries overlap.
  `OvertakenTwiceAtMost` allows two turns, once from a list made before the other had work
  and once from the next list, and two more for each fault, since a call that breaks has
  already taken the organization off the list. With three organizations one fault brings
  the count to three; five organizations and lists of three, checked apart, bring it to
  four, so the bound that is proved is the one that can be reached. Two jobs per
  organization were checked apart.
* Two imports compete for the fingerprint and two analyses for the completed run; the first
  of each has a second attempt, which may overlap the first. The second content is also one
  whose history is too short for the engine. The contents that validation, loading and the
  store's currency refuse fail one step earlier or later, and were checked apart, one at a
  time, in the place of it.
* A purge has two limits and two cut-offs, and with two jobs and batches of one a first
  batch leaves one behind. Two purges may interleave in any order, and one of them be run
  again. The scripts of `admin_commands` make every pair of commands that take one lock,
  that race without one, or of which one ends what the other made.
* The families of `engine_reports` isolate what may go wrong: columns of three dates, four
  lines of seven kinds, amounts around zero, costs that are missing, five periods of
  orders and clicks. The most recent day of the orders is a Sunday where a family is not
  about periods, so that the week is complete.
* The answers of `explanation_answers` are right, or wrong in one place; two wrong places
  are refused by the first of them.

Symmetry is used in `queue_jobs` and `retention_purges`, which check no liveness. Deadlock
is checked in the runs of the queue, the workers and the dispatcher; the others end.

### Fairness

* `attempt_faults`: weak fairness of the main thread of each live worker (the operating
  system schedules it and handlers end), of time, and strong fairness of recovery: the
  loop of `runtime.py` recovers every `recovery_interval_seconds`, whatever it claims in
  between. Nothing is assumed of keepers, clients, releases or faults. The bound
  `Survivor` keeps one worker alive: nothing happens to a queue without workers
  (the deployment declares `restart: "no"`).
* `dispatch_turns`: weak fairness of a poll and of a sweep once begun (the loop runs,
  handlers end) and of the expiry of leases; strong fairness of the start of a sweep, which
  the loop makes every `recovery_interval_seconds` whatever it claims in between, and which
  finds something to do only while a lease is expired. Nothing is assumed of clients and
  owners. `EveryLeaseRecovered` is checked with a page (`ExpiredBatch`) that holds every
  organization. With a smaller one it fails, for lack of a cursor: the organizations of the
  first page may lose jobs for ever and have their authorization revoked at each sweep.
* `runtime_stop`: weak fairness of each thread and timer, and of the end of the handler.
* `explanation_answers`: weak fairness of the caller's own steps, which include the end of
  the delay. Nothing is assumed of the provider.

## 4. Proofs

| Module | Theorems, each for every value of the constants |
|---|---|
| `JobQueueProofs` | `Typing`, `Fencing`, `Constraints`, `Stranding`, `Protection`, `Story`, `Trigger`, `Promised` (refinement); of the workers `WorkersUseTheQueue` (refinement), `WorkersAreFenced`, `Pessimistic`, `OutcomesAreTrue` |
| `WorkerRuntimeProofs` | `RuntimeTypes`, `EndsAreTerminal`, `OneLateClaim`, `ForcedOnDemand` |
| `DispatcherProofs` | `NoOrganizationTwice`, `Patience`, `NothingMissed` |
| `ContentProofs` | `ContentTypes`, `SealedContent`, `ReportsAreAnchored`, `SuccessesAreBacked`, `FinishedStays`, `ContentKeepsItsPromise` (refinement) |
| `RetentionProofs` | `LeftOnlyByAFullBatch`, `SuffixIsKept`, `RetentionTypes` |
| `AdministrationProofs` | `LocksReleased`, `NamesUnique`, `Trail`, `AnswersTrue` |
| `EngineProofs` | `BookOnce`, `Dated`, `Files`, `Snapshots`, `Costed`, `Refunded`, `Alarmed`, `Added` |
| `ExplanationProofs` | `OwnAnswers`, `TruncationToldAlways`, `ReferencesAlwaysTrue`, `AlwaysGrounded` |

They assume the ASSUMEs of the modules they are about, and nothing else.

**Queue.** Everything follows from one inductive invariant, `QueueInv`, the conjunction of
`TypeOK` and of three named parts: `RowsKept` (the lock, the lease and the attempts of a row
agree with its status and its budget), `KeysUnique` (a key names one present row) and
`RecordsKept` (a record was made for an attempt the row has reached, with the budget of the
row, and two records of one attempt are the same). Fencing is not inductive as it stands:
that two records cannot both own the row follows from the last part, which a claim preserves
because it increments the attempts past every record made before. `Stranding` needs the
agreement of the record's budget with the row's, since `mark_failed` reads the record.

`Protection`, `Story` and `Promised` rest on one lemma, `EveryJobMoves`: whatever the
transaction, each job enters, starts, stops, leaves, is purged or rests (`Moves`). The
invariant of the trail, `StoryInv`, adds to the property that the last event agrees with the
row and that a row not yet inserted has no attempt. The refinement maps a job that runs to
its holder; that a second worker is never handed it while the first has it follows from
`RowsKept`. `Trigger` goes the other way round: it takes each statement of `jobs.py` and
shows that the row it leaves is one that `GuardTransition` lets through, which for the
statements that use a record needs that the record is the one of the row.

**Workers.** A worker only uses records the queue gave it, and every step is a step of
`JobQueue` or leaves the table alone. Hence `WorkersAreFenced`, and likewise every other
theorem about the queue.

The local deadline is not inductive. `LeasesKept` says what a process may trust: the row is
under its record, with a lease at least as long as its deadline, and, once a renewal was
accepted whose answer is still to come, as long as the deadline that answer will give.
A transaction of another process (`Elsewhere`) cannot shorten the lease of a record that owns
its row, and the clock takes as much from both. `ReportsKept` says the same of reports: a
process that waits for the answer of its publication, or has reported one, finds its event
in the trail, from which nothing is taken.

**Process.** `RInv` adds three parts to the types: `LateOK` (after a late claim the event is
set and the main thread is past its last test), `EndOK` (where the main thread is,
the states it may be in, so that the last transitions, which are only tried, leave a
terminal one) and `StopOK` (before a second request or the end of the grace delay nothing
that forces has begun). `Arrows` lists the transitions once.

**Dispatch.** `Inv` is the types and, for each process, `Sound`: an open transaction and a
job in hand name an organization, and what is left of a list is a list without repetition
that fits in one batch. A wrapped list is one because the second query is filtered by the
first and cut to what is left of the batch (`WrappedIsTurn`), whatever the tables were at
each.

The theorems about turns need the order of the lists. `Chances` counts the claims in one
organization that a process may still make before it serves the other: one if the first
comes before it in the list at hand, one more if the list to come, made from the cursor on,
may have it first. `Turns` says that what was counted and what may come make two at most,
and two more per failure: serving an organization spends a chance (`DueTail`), a new list
brings only those that were due (`FirstPage`, `WrappedPage`), because a page that leaves an
organization out is full of smaller ones. The same lemmas give `NothingMissed`: a list with
room to spare has every organization that could be claimed at both of its queries. The
proof set the bound right: two turns per failure and not one, which three organizations do
not show.

**Content.** `IInv` is the types, `TablesOK` (the files
had the fingerprint of a sealed snapshot, then its rows, then the fingerprint again; one sealed
snapshot per content and one completed run per snapshot; a completed run has its report),
`JobOK` for each job and `AttemptOK` for each attempt: what its local variables promise at
each step, for instance that its two hashes frame the dataset it is about to seal. The
last is kept by the steps of the others because of `Grows`, what no step takes back.
The refinement sorts the steps: those that seal, those that report, and the quiet ones
(`StepsNoticed`).

**Retention.** `HadItsTurn` says of each purge under way: once the jobs of one status have
had their turn, one that is left, and whose end its deletion of events could reach, is left by
a full batch of jobs that ended no later, in the same way. It rests on the purge of jobs taking
the oldest first, and on the policies, whose limits for events are longer; it stays true
whatever the other purges delete, because `PurgedWith` only grows, and whatever ends meanwhile,
because a row that ends now bears an instant that no cut-off reaches (`AttemptReach`, from the
two assumptions). `Aged` is why `LogIsASuffix` holds: what is deleted was older than its floor,
hence than anything a transaction under way may still write. `OldestIsClosed` is the step of
both deletions.

**Administration.** `LockOK` says that a command which holds a lock holds that of its
current request, at a step where it may, and that only the requests that take a lock reach
those steps: the write of an authorization is followed by a statement outside them.

`AdminInv` adds what the tables and the commands rely on. `TableInv`: a name has one live
row, connections past the page apart, and an organization belongs to the one whose membership says owner. `Ready(p)`: what the
lookup of a command did not find is not there, or past the page, as long as it holds its lock
(`PageIsSearched`: what a page leaves out are its later rows; and a row that is overlooked
stays so, since none is taken from the table). This is kept by
the others for one reason (`InsertingSpares`, `EstablishingSpares`): a command about to create
the same row would hold the same lock; and a command that creates a row without a lock inserts
it with a unique index. `Truth` and `Distinct` are about answers, `Logged` about events.
Rows change in four ways (`Adds`, `Founds`, `Ends`, or not
at all), and each part of the invariant is shown for the four rather than for every action.

`AdministrationAssumption` names what is taken of the inputs: the names in use include the
roles and the services, scripts are sequences of requests, and the rows there are before
(`Founding`) already have unique names and owners.

**Reading and snapshots.** `EngineProofs` is about any exports: any number of lines, in any
order, with any cells. `ReadInv` says that each order, payment, refund and row of the
advertising is in the book once, and that its day is one its line says (`BookKept`). A day
read under the convention of its column is the day of its cell under every convention the
column allows (`ReadSays`); a sort only permutes a list, because the ranks of a strict order
are its places (`RanksArePlaces`, `SortingPermutes`): `Dated` follows.

`Files` compares two ways to read one file, line by line and as a whole. `OrdersInv` carries
the whole along the lines: while the file is read, the orders are those the lines so far
tell (`OrdersTold`). A line is taken in two steps, the order it may open, then its article,
which is why `OrdersTold` counts the lines that open orders apart from those whose articles
have been taken. At the end, a list without repetition is counted by its length
(`DistinctAreCounted`).

`Snapshots` adds the shape of the quality report (`QualityKept`). A list comes back from its
numbered rows (`RankedBack`), the orders from their rows and those of their articles
(`OrdersBack`), the report from its document (`QualityBack`). The unique keys hold because
`BookKept` has each thing once (`KeysAreOnce`). An amount the columns cannot hold never
reaches the rows: `Storable` refuses the dataset before.

`IngestionAssumption` is what a file is: a list of lines, in which a date cell is one of the
three forms a date may have, a quantity an amount, and a campaign a number. A line is
otherwise free: no amount, price or name is constrained.

`AmountAssumption` adds what the reports need: an amount cell holds a number, nothing, or what
is not a number, and totals are compared to within some number of cents, maybe none.

**Reports.** The properties of a report compare it with the data it was made of, so the
invariant that carries them, `ReportInv`, says which data: the dataset analysed is the one
that was read, once and with amounts that are numbers, and the report is what `Report` makes
of it in some period (`ReportSays`), whether it was made of the files or of the snapshot.
Everything else is about the operators, for any dataset.

Sums are the difficulty, since what `Total` computes is defined by recursion and induction
over data is not available. `Least` takes its place here too (the least number of elements
at which two sums would disagree): a sum is characterised by the numbers that precede it
(`TotalIs`), and from this follow the few facts that are used, that sums split with a filter
(`TotalSplits`) and that a sum of parts is bounded by the sum of the bounds
(`PartsAreBounded`). `Costed` splits the revenue of the articles, whose total may be
negative, into those with a cost and those without. `Refunded` bounds each part of a split by what its order leaves to the
products and to the rest, and adds these up. `Alarmed` follows an anomaly through the
insights: one that is attached to a decline of the revenue is among the evidence of each
alarm on the revenue, and one of these leads the sorted list, because a decline of the
revenue precedes every insight of another type and places break ties (`SortedFirst`); any
other has an insight of its own, which its assessment makes a warning or a critical issue.

`Added` is about the periods themselves. `PeriodAt` numbers those of a grain, and a series is
consecutive numbers, each period ending where the next one starts (`SeriesIs`). Over two
spans side by side the revenue adds up (`EarnedAdds`), and so do the new customers, since a
customer has one first order (`NewcomersAdd`); `Telescope` carries this to any number of
periods. `CountInv` adds to `ReportInv` that what is in the book comes of a file that was
supplied, so that its days are dates. Two assumptions keep the periods inside the calendar
of the model, which has the months of 2022 to 2024: `CalendarAssumption`, that dates are of
2023 or 2024, and `LookbackAssumption`, that a report looks back on 2 to 12 periods, at least
what `AnalyticsConfig` accepts (`config.py:81`) and at most its default (`config.py:69`). The
weeks need neither.

**Explanation.** `CallInv` counts: each attempt has one box, each attempt before the one
under way has failed, transiently and by what its own thread answered or by the delay, and
an answer that was taken belongs to the last. A late answer changes the box of an earlier
attempt, whose failure was the delay, and nothing else.

The other three properties relate a context that was bounded, then halved any number of
times, to the report it was built of. None is inductive: a halved list is not the beginning
of the report's section that its limit gives, and between two rounds a reference may name
what has just been cut. `ContextInv` says what every round keeps (`SectionKept`): a section
is the first items of the whole one but for references that were dropped, and the count
announced is the length it has; what is shown beside the sections is what the report says.
From the end of the rounds on, `NoneDangles` adds that references name what is there. An
answer that was accepted (`Accepted`) was accepted against that context.

What remains is what the whole sections hold, for any report: `Evidence` has as many items
as the report has (`MissingAreShown` and its neighbours), each hypothesis is backed by those
that say it, and no recommendation takes the finding of another (`KeptPlaces`). This is
reasoning about lists of any length. The library's induction takes an operator as a
parameter, which the provers cannot instantiate; `Least` takes its place: of a set of
numbers there is a least one, so if a filter, a sort or a join failed at a place it would
fail at a first one, which the place before it excludes.

`ReportsAssumption` is what the engine gives: lists, changes of products and campaigns that
are numbers, and a profit wherever it says that the costs are complete. `AnswersAssumption`
is that the regular expression of numbers finds one in every mark "n/100".

What some properties leave out. `OutcomesAreTrue` says that a publication that was reported
took place; it does not say that an attempt reported as `lease_lost` did not publish, which
the code cannot know when the answer was lost. `RefundPartIsBounded` is about the windows
whose refunds can each be split between an order's products and the rest; it says nothing
when one exceeds its order. `AlarmsAreTold` takes an anomaly for told when its metric is among
the evidence of an alarm: the missing metric `refunds` of `profit.missing` bears the same name
as an anomaly of the refunds. `DispatcherTypes`, on which the theorems about turns rest, is
about counts of rows; that a row is handed to one worker is `Fencing`, of the queue.

Model-checked only: `EveryJobEnds`, `StopEndsTheProcess`, `NoStarvation`,
`EveryLeaseRecovered` and `ExplanationEnds`, which are liveness under fairness; it is out of
the prover's reach, as is ENABLED.

Every other property of the passing runs is a theorem.

## 5. Where the code and its documentation disagree

Three runs exhibit one each:

| Run | What happens |
|---|---|
| `queue_stranded` | a forced stop during the last attempt puts the job back in the queue with no attempt left: no claim and no recovery will ever select it (`jobs.py:398`) |
| `dispatch_revoked` | a revocation inside a claim or a recovery, between its UPDATE and its audit event, ends the worker with code 1 for all the organizations it serves; the code skips the organization only if the revocation comes before the transaction (`worker.py:166`) |
| `content_duplicate` | an analysis replayed while its first attempt still runs meets the unique index when it completes, which is classified as final: the job fails although the report it was asked for exists (`persisted_analysis.py:154`) |

Others that the models show; the formula named, where there is one, is stated in its module
and TLC finds it violated:

* A purge between the two statements of `enqueue_job` makes it raise the error its comment
  calls impossible (`jobs.py:253`; `ReplayFindsItsJob`).
* A signal just before the transition to READY makes the worker crash with code 1
  (`runtime.py:279`; `StopIsNotAnError`), and a grace delay that ends during a claim is
  spent, so that the job claimed then is not bounded by it (`runtime.py:161`;
  `GraceBoundsTheStop`). A signal between the test of `_stop` and the claim lets one more
  job in while DRAINING (`runtime.py:312`); `AtMostOneLateClaim` says it is never two.
* The first job after an outage runs in the state DEGRADED, from which BUSY cannot be
  reached (`runtime.py:327`), although `lifecycle.py:16` says "aucun travail pris".
* With more organizations than a list holds, `run_once` may answer None ("la file est vide",
  `worker.py:197`) although one past the list had work throughout, which is why
  `NoneWasClaimable` excepts full lists.
* A revocation between the two statements of `authorize_service` leaves it without a row,
  and a TypeError is raised (`service.py:181`), although it is "Idempotent"
  (`service.py:168`; `AuthorizeIsIdempotent`). Likewise `add_member` looks up the row it
  has just added in a list read after its lock is released (`operations.py:419`).
* "L'audit d'un travail lui survit donc toujours" (`handlers.py:236`). A row outlives the event
  of its end when more jobs than a batch holds ended before it, or in the same transaction
  (the identifiers that break ties are random); and, with windows of the same length, when
  the cut-offs fall between the start of the transaction that cancelled it, which dates the
  event (`0005_audit.py:61`), and `clock_timestamp()`, which dates the row (`jobs.py:433`).
  `LeftByAFullBatch` says that there is no other case. Events other than the last, such as
  `job.enqueued`, may be gone before the job in any case.
* Refusals are traced when a file is "modifié pendant l'import"
  (`docs/MISSION_004_1_PERSISTENCE.md:186`). Files that are replaced before the load
  (`persisted_analysis.py:100`) and put back before the second hash (`:103`) are not seen to
  be modified: the rows that were loaded are sealed under the fingerprint of the others.
* The cost of the goods is "complet" although an article that was sold has no cost, when a
  negative price brings the covered share of the revenue to 0.999 or more
  (`profitability.py:109`); and the analysis raises a ZeroDivisionError when the revenues of
  the products with a margin cancel out (`health.py:204`).
* "Idempotent par libelle parmi les connexions ACTIVES" (`operations.py:470`) holds for the
  first 1000 of a store: a label past them is created again, and two connections bear it
  (`operations.py:476`).
* Costs of products may be called reliable when fewer than 95 % of the products have one,
  if the file repeats lines: `shopify.py:31` counts lines, not products (`CostsAreKnown`).
* `docs/LLM_CONTRACT.md:16` says the explanation never raises; a thread that raises another
  exception than the declared ones, or a malformed usage, makes it raise (`Raise`). When
  the list of unavailable metrics is itself cut, a figure for one past the cut is accepted.
  A number "n/100" is accepted only if 100 is a number of the report. Lists cut by `_texts`
  are not counted in the truncation.
* `last_complete_period` steps back once (`docs/ANALYTICS_ENGINE.md:82`); an unreadable
  optional file rejects the whole analysis; an upward anomaly of the revenue yields no
  insight.
* `remove_member` and `revoke_connection` leave no event.

## 6. Not modelled, and why

* `Health file`: its ages and the verdict of the probe. No other component reads them; a
  model would restate three comparisons.
* `database.py`: the opening and the verification of a connection. The other modules take a
  lost connection and a refused statement as actions; which error is worth another try
  (`retry.py`, `classify`) is `Retryable` of `Content`.
* Reporting, logging, redaction, the prompt and the mock provider: formatting of texts.
* The commands that only list, the reading functions of stores and of the audit log.
* Inspection of a file, detection of sensitive columns and the local workspace: they read
  characters, which the models abstract to tokens.
* Synthetic data, provenance documents, migrations as such, container images and scripts.
* The rotation of a worker over an explicit list of sessions, which the deployment does not
  use.

## 7. Plan

Modelled: everything in section 2. Next, in order of importance:

1. Proofs: the counts of `Ingestion` (the accepted lines and the coverage of each field
   against the lines of the file), along `OrdersInv`.
2. `HealthProbe`: the ages of the health file against the verdict of the probe, composed
   with `WorkerRuntime`, if the probe comes to drive restarts.
