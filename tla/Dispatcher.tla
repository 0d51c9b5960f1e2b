----------------------------- MODULE Dispatcher -----------------------------
(***************************************************************************)
(* The service that serves several organizations: the rotation of          *)
(* Dispatcher and Worker.claim over the organizations that authorize it    *)
(* and have work, the recovery of expired leases in each of them, and the  *)
(* owners who grant and revoke the authorization at any moment.            *)
(*                                                                         *)
(* A statement is filtered by the authorization of that instant (row level *)
(* security, revision 0007), so each statement that may see another one is *)
(* a step of its own.  Organizations are numbered in the order of their    *)
(* identifiers.  The rows of a job are the subject of JobQueue: here they  *)
(* are counted.                                                            *)
(***************************************************************************)
EXTENDS Naturals, FiniteSets, Sequences, SequencesExt

CONSTANTS Organizations,    \* how many organizations there are
          Worker,           \* the worker processes of the service
          Batch,            \* Dispatcher.batch
          ExpiredBatch,     \* the limit of expired_lease_organizations
          MaxJobs,          \* bound: unfinished jobs of one organization
          MaxFaults         \* bound: crashes and database failures

ASSUME DispatcherAssumption ==
    /\ Organizations \in Nat /\ MaxJobs \in Nat /\ MaxFaults \in Nat
    /\ Batch \in Nat \ {0} /\ ExpiredBatch \in Nat \ {0}
    /\ IsFiniteSet(Worker)

VARIABLES ready,        \* ready[o]: rows a claim may select, not locked by a transaction
          leased,       \* leased[o]: running rows that no worker holds any more
          stale,        \* stale[o]: those whose lease has expired, not locked either
          authorized,   \* the organizations that authorize the service
          worker,       \* worker[w]: see Process
          faults        \* how many faults have happened

vars == <<ready, leased, stale, authorized, worker, faults>>

Org == 1 .. Organizations
NoOrg == 0

Process ==
    [at : {"idle", "choosing", "wrapping", "claiming", "holding", "sweeping", "recovering", "crashed"},
     org : Org \cup {NoOrg},    \* the organization of the open transaction or of the job in hand
     rows : Nat,                \* the rows that transaction has locked and changed
     pending : Seq(Org),        \* Worker._pending; the list under construction while wrapping
     cursor : Org \cup {NoOrg}, \* Dispatcher._cursor
     fetched : BOOLEAN,         \* the local variable of Worker.claim
     sweep : Seq(Org)]          \* the sessions Worker.recover_stale has left

Started == [at |-> "idle", org |-> NoOrg, rows |-> 0, pending |-> <<>>, cursor |-> NoOrg,
            fetched |-> FALSE, sweep |-> <<>>]

Crashed == [Started EXCEPT !.at = "crashed"]

Init ==
    /\ ready = [o \in Org |-> 0]
    /\ leased = [o \in Org |-> 0]
    /\ stale = [o \in Org |-> 0]
    /\ authorized \in SUBSET Org
    /\ worker = [w \in Worker |-> Started]
    /\ faults = 0

At(w, place) == worker[w].at = place

\* Rows that a transaction has locked are skipped by the others, who see them unchanged.
LockedBy(place, o) == \E w \in Worker : At(w, place) /\ worker[w].org = o

Unfinished(o) ==
    ready[o] + leased[o] + stale[o]
        + MapThenSumSet(LAMBDA w : worker[w].rows, {w \in Worker : worker[w].org = o})

Fault == faults < MaxFaults /\ faults' = faults + 1
Tables == <<ready, leased, stale, authorized>>

-----------------------------------------------------------------------------
(* Worker.claim *)

\* The answer to SELECT ... ORDER BY organization_id LIMIT n over the set S (one element).
Page(n, S) ==
    {s \in SeqOf(S, n) :
        /\ \A i, j \in 1 .. Len(s) : i < j => s[i] < s[j]
        /\ \A o \in S \ Range(s) : Len(s) = n /\ \A i \in 1 .. n : s[i] < o}

Ready == {o \in authorized : ready[o] > 0 \/ LockedBy("claiming", o)}

\* OvertakenTwiceAtMost, NoStarvation: every list begins with the first organization.
TakeFaulty(w, found) ==
    [worker[w] EXCEPT !.at = "choosing", !.fetched = TRUE, !.pending = found]

\* Worker._pending and Dispatcher._cursor once a list is complete.
Take(w, found) ==
    [worker[w] EXCEPT !.at = "choosing", !.fetched = TRUE, !.pending = found,
                      !.cursor = IF found = <<>> THEN NoOrg ELSE Last(found)]

\* Worker._pending and the cursor outlive a poll, the rest does not.
BackToIdle(w) == [Started EXCEPT !.pending = worker[w].pending, !.cursor = worker[w].cursor]

StartClaim(w) ==
    /\ At(w, "idle")
    /\ worker' = [worker EXCEPT ![w].at = "choosing"]
    /\ UNCHANGED <<Tables, faults>>

\* NoneWasClaimable: the list ends with the last organization.
ListReadyFaulty(w) ==
    /\ At(w, "choosing") /\ worker[w].pending = <<>> /\ ~worker[w].fetched
    /\ \E found \in Page(Batch, {o \in Ready : o > worker[w].cursor}) :
        worker' = [worker EXCEPT ![w] = Take(w, found)]
    /\ UNCHANGED <<Tables, faults>>

\* The first query of next_organizations: from the cursor on.
ListReady(w) ==
    /\ At(w, "choosing") /\ worker[w].pending = <<>> /\ ~worker[w].fetched
    /\ \E found \in Page(Batch, {o \in Ready : o > worker[w].cursor}) :
        worker' = [worker EXCEPT ![w] =
            IF Len(found) < Batch /\ worker[w].cursor # NoOrg
            THEN [@ EXCEPT !.at = "wrapping", !.pending = found]
            ELSE Take(w, found)]
    /\ UNCHANGED <<Tables, faults>>

\* NoTurnTwice: the second query does not look at what the first has found.
NewFaulty(wrapped, found) == Range(wrapped)

New(wrapped, found) == Range(wrapped) \ Range(found)

\* The second query: from the start, in a transaction of its own.
ListFromStart(w) ==
    /\ At(w, "wrapping")
    /\ LET found == worker[w].pending
       IN  \E wrapped \in Page(Batch, Ready) :
           \E others \in Page(Batch - Len(found), New(wrapped, found)) :
               worker' = [worker EXCEPT ![w] = Take(w, found \o others)]
    /\ UNCHANGED <<Tables, faults>>

\* The claim answers None: the list just fetched is exhausted.
ClaimsNothing(w) ==
    /\ At(w, "choosing") /\ worker[w].pending = <<>> /\ worker[w].fetched
    /\ worker' = [worker EXCEPT ![w] = BackToIdle(w)]
    /\ UNCHANGED <<Tables, faults>>

Choosing(w) == At(w, "choosing") /\ worker[w].pending # <<>>
Chosen(w) == Head(worker[w].pending)

\* The session is refused, or the claim selects no row.
SkipsOrganization(w) ==
    /\ Choosing(w)
    /\ Chosen(w) \notin authorized \/ ready[Chosen(w)] = 0
    /\ worker' = [worker EXCEPT ![w].pending = Tail(@)]
    /\ UNCHANGED <<Tables, faults>>

\* The UPDATE of the claim, not committed yet.
LocksJob(w) ==
    /\ Choosing(w)
    /\ Chosen(w) \in authorized /\ ready[Chosen(w)] > 0
    /\ ready' = [ready EXCEPT ![Chosen(w)] = @ - 1]
    /\ worker' = [worker EXCEPT ![w].pending = Tail(@), ![w].at = "claiming",
                                ![w].org = Chosen(w), ![w].rows = 1]
    /\ UNCHANGED <<leased, stale, authorized, faults>>

\* The audit event of the hook is inserted, and the claim commits.
ClaimCommits(w) ==
    /\ At(w, "claiming")
    /\ worker[w].org \in authorized
    /\ worker' = [worker EXCEPT ![w].at = "holding", ![w].fetched = FALSE]
    /\ UNCHANGED <<Tables, faults>>

\* An open transaction is undone.
RollBack(w) ==
    LET o == worker[w].org
    IN  /\ ready' = IF At(w, "claiming") THEN [ready EXCEPT ![o] = @ + 1] ELSE ready
        /\ stale' = IF At(w, "recovering") THEN [stale EXCEPT ![o] = @ + worker[w].rows] ELSE stale

\* The insertion is refused by the policy of audit_events: the exception is neither
\* TenantAccessDenied, which claim skips, nor transient, which the loop survives.
ClaimRefused(w) ==
    /\ At(w, "claiming")
    /\ worker[w].org \notin authorized
    /\ RollBack(w)
    /\ worker' = [worker EXCEPT ![w] = Crashed]
    /\ UNCHANGED <<leased, authorized, faults>>

-----------------------------------------------------------------------------
(* The job in hand, and the recovery *)

\* The result is published; or it is refused because the authorization is gone, or the
\* database fails until the lease is nearly over: then the worker forgets the job
\* (JobOutcome "unrecorded") and its row stays running.
JobPublished(w) ==
    /\ At(w, "holding")
    /\ worker[w].org \in authorized
    /\ \E again \in {0, 1} : ready' = [ready EXCEPT ![worker[w].org] = @ + again]
    /\ worker' = [worker EXCEPT ![w] = BackToIdle(w)]
    /\ UNCHANGED <<leased, stale, authorized, faults>>

JobUnrecorded(w) ==
    /\ At(w, "holding")
    /\ \/ worker[w].org \notin authorized /\ UNCHANGED faults
       \/ Fault
    /\ leased' = [leased EXCEPT ![worker[w].org] = @ + 1]
    /\ worker' = [worker EXCEPT ![w] = BackToIdle(w)]
    /\ UNCHANGED <<ready, stale, authorized>>

StartSweep(w) ==
    /\ At(w, "idle")
    /\ \E found \in Page(ExpiredBatch, {o \in authorized : stale[o] > 0 \/ LockedBy("recovering", o)}) :
        found # <<>> /\ worker' = [worker EXCEPT ![w].at = "sweeping", ![w].sweep = found]
    /\ UNCHANGED <<Tables, faults>>

\* The same turn of the loop goes on with run_once.
EndSweep(w) ==
    /\ At(w, "sweeping") /\ worker[w].sweep = <<>>
    /\ worker' = [worker EXCEPT ![w].at = "choosing"]
    /\ UNCHANGED <<Tables, faults>>

Sweeping(w) == At(w, "sweeping") /\ worker[w].sweep # <<>>
Swept(w) == Head(worker[w].sweep)

\* EveryLeaseRecovered: an organization out of reach ends the recovery of all.
SkipsRecoveryFaulty(w) ==
    /\ Sweeping(w)
    /\ Swept(w) \notin authorized \/ stale[Swept(w)] = 0
    /\ worker' = [worker EXCEPT ![w].sweep = <<>>]
    /\ UNCHANGED <<Tables, faults>>

SkipsRecovery(w) ==
    /\ Sweeping(w)
    /\ Swept(w) \notin authorized \/ stale[Swept(w)] = 0
    /\ worker' = [worker EXCEPT ![w].sweep = Tail(@)]
    /\ UNCHANGED <<Tables, faults>>

\* SELECT ... FOR UPDATE SKIP LOCKED: every expired row (its limit exceeds MaxJobs).
LocksExpired(w) ==
    /\ Sweeping(w)
    /\ Swept(w) \in authorized /\ stale[Swept(w)] > 0
    /\ stale' = [stale EXCEPT ![Swept(w)] = 0]
    /\ worker' = [worker EXCEPT ![w].sweep = Tail(@), ![w].at = "recovering",
                                ![w].org = Swept(w), ![w].rows = stale[Swept(w)]]
    /\ UNCHANGED <<ready, leased, authorized, faults>>

\* n rows are recovered; those with attempts left are ready again.
Recover(w, n) ==
    LET o == worker[w].org
    IN  /\ stale' = [stale EXCEPT ![o] = @ + (worker[w].rows - n)]
        /\ \E again \in 0 .. n : ready' = [ready EXCEPT ![o] = @ + again]
        /\ worker' = [worker EXCEPT ![w].at = "sweeping", ![w].org = NoOrg, ![w].rows = 0]
        /\ UNCHANGED <<leased, authorized, faults>>

RecoveryCommits(w) ==
    /\ At(w, "recovering")
    /\ worker[w].org \in authorized
    /\ Recover(w, worker[w].rows)

\* Revoked between two rows: the next UPDATE finds nothing, what was done commits.
RecoveryCutShort(w) ==
    /\ At(w, "recovering")
    /\ worker[w].org \notin authorized
    /\ \E n \in 0 .. worker[w].rows : Recover(w, n)

\* Revoked between the UPDATE of a row and its audit event.
RecoveryRefused(w) ==
    /\ At(w, "recovering")
    /\ worker[w].org \notin authorized
    /\ RollBack(w)
    /\ worker' = [worker EXCEPT ![w] = Crashed]
    /\ UNCHANGED <<leased, authorized, faults>>

-----------------------------------------------------------------------------
(* Database failures and crashes *)

\* An unreachable database: the loop starts again, a transaction is rolled back.
\* An organization taken from the list has lost its turn.
CallBreaks(w) ==
    /\ worker[w].at \in {"choosing", "wrapping", "claiming", "sweeping", "recovering"}
    /\ Fault
    /\ RollBack(w)
    /\ worker' = [worker EXCEPT ![w] =
           [BackToIdle(w) EXCEPT !.pending =
               IF At(w, "wrapping") THEN <<>> ELSE IF Choosing(w) THEN Tail(@) ELSE @]]
    /\ UNCHANGED <<leased, authorized>>

\* The claim commits and its answer is lost: the row runs under a worker that does
\* not know of it.
ClaimAnswerLost(w) ==
    /\ At(w, "claiming")
    /\ worker[w].org \in authorized
    /\ Fault
    /\ leased' = [leased EXCEPT ![worker[w].org] = @ + 1]
    /\ worker' = [worker EXCEPT ![w] = BackToIdle(w)]
    /\ UNCHANGED <<ready, stale, authorized>>

Dies(w) ==
    /\ ~At(w, "crashed")
    /\ Fault
    /\ RollBack(w)
    /\ leased' = IF At(w, "holding") THEN [leased EXCEPT ![worker[w].org] = @ + 1] ELSE leased
    /\ worker' = [worker EXCEPT ![w] = Crashed]
    /\ UNCHANGED authorized

-----------------------------------------------------------------------------
(* The rest of the system *)

LeaseExpires(o) ==
    /\ leased[o] > 0
    /\ leased' = [leased EXCEPT ![o] = @ - 1]
    /\ stale' = [stale EXCEPT ![o] = @ + 1]
    /\ UNCHANGED <<ready, authorized, worker, faults>>

\* A job is enqueued, or the delay of a queued one ends.
JobBecomesReady(o) ==
    /\ Unfinished(o) < MaxJobs
    /\ ready' = [ready EXCEPT ![o] = @ + 1]
    /\ UNCHANGED <<leased, stale, authorized, worker, faults>>

\* cancel_job, or a worker of another service that the organization authorizes.
JobTakenElsewhere(o) ==
    /\ ready[o] > 0
    /\ ready' = [ready EXCEPT ![o] = @ - 1]
    /\ UNCHANGED <<leased, stale, authorized, worker, faults>>

authorize_service(o) ==
    /\ o \notin authorized
    /\ authorized' = authorized \cup {o}
    /\ UNCHANGED <<ready, leased, stale, worker, faults>>

revoke_service(o) ==
    /\ o \in authorized
    /\ authorized' = authorized \ {o}
    /\ UNCHANGED <<ready, leased, stale, worker, faults>>

-----------------------------------------------------------------------------
Poll(w) ==
    \/ ListReady(w) \/ ListFromStart(w) \/ ClaimsNothing(w)
    \/ SkipsOrganization(w) \/ LocksJob(w) \/ ClaimCommits(w) \/ ClaimRefused(w)
    \/ JobPublished(w) \/ JobUnrecorded(w)

Sweep(w) ==
    \/ EndSweep(w) \/ SkipsRecovery(w) \/ LocksExpired(w)
    \/ RecoveryCommits(w) \/ RecoveryCutShort(w) \/ RecoveryRefused(w)

Fails(w) == CallBreaks(w) \/ ClaimAnswerLost(w) \/ Dies(w)

Elsewhere(o) ==
    \/ LeaseExpires(o) \/ JobBecomesReady(o) \/ JobTakenElsewhere(o)
    \/ authorize_service(o) \/ revoke_service(o)

Next ==
    \/ \E w \in Worker : StartClaim(w) \/ Poll(w) \/ StartSweep(w) \/ Sweep(w) \/ Fails(w)
    \/ \E o \in Org : Elsewhere(o)

Spec == Init /\ [][Next]_vars

\* The loop of the process polls for ever and recovers every
\* recovery_interval_seconds; handlers end and clocks advance.
Fairness ==
    /\ \A w \in Worker : WF_vars(StartClaim(w) \/ Poll(w) \/ Sweep(w)) /\ SF_vars(StartSweep(w))
    /\ \A o \in Org : WF_vars(LeaseExpires(o))

FairSpec == Spec /\ Fairness

-----------------------------------------------------------------------------
(* Properties *)

\* Rows are counted without going below zero: no row is taken twice, by claims that
\* run at once or by recoveries; and what a worker remembers has the types of
\* worker.py and dispatch.py.
DispatcherTypeOK ==
    /\ ready \in [Org -> Nat]
    /\ leased \in [Org -> Nat]
    /\ stale \in [Org -> Nat]
    /\ authorized \in SUBSET Org
    /\ worker \in [Worker -> Process]
    /\ faults \in 0 .. MaxFaults

\* No list serves an organization twice, although its two queries see the tables at
\* two moments, and no list exceeds the batch (dispatch.py, next_organizations).
NoTurnTwice ==
    \A w \in Worker :
        /\ IsInjective(worker[w].pending)
        /\ Len(worker[w].pending) <= Batch

Serving(o) == \E w \in Worker : worker[w].at \in {"claiming", "holding"} /\ worker[w].org = o
SomeoneRuns == \E w \in Worker : ~At(w, "crashed")

\* An organization that stays authorized and keeps work ready is served again and
\* again, whatever the others have (docs: "aucune famine"), while a worker runs.
NoStarvation ==
    \A o \in Org : ~ <>[](o \in authorized /\ ready[o] > 0 /\ ~Serving(o) /\ SomeoneRuns)

\* A job whose holder is gone is recovered, if its organization stays authorized,
\* even when others lose jobs for ever.
EveryLeaseRecovered ==
    \A o \in Org : ~ <>[](o \in authorized /\ leased[o] + stale[o] > 0 /\ SomeoneRuns)

\* What worker.py says where it catches TenantAccessDenied: an authorization revoked
\* between the list and the claim puts the organization out of reach, no more.
RevocationOnlySkips == \A w \in Worker : faults = 0 => ~At(w, "crashed")
=============================================================================
