---------------------------- MODULE RetentionProofs ----------------------------
(***************************************************************************)
(* What holds of the purge for any number of jobs, of purges at once, any  *)
(* policies, any clocks that disagree by less than the floors do, and      *)
(* transactions no longer than the floor of the jobs.                      *)
(***************************************************************************)
EXTENDS Retention, FiniteSetTheorems, TLAPS

-----------------------------------------------------------------------------
(* The invariant *)

Attempt ==
    [step : TerminalStatus \cup {"audit", "done"},
     policy : {d \in Documents : ValidPolicy(d)}, now : Int]

\* What the tables and the attempts hold.  No row bears an instant that is still to come,
\* and no attempt had a clock further ahead than MaxSkew when it began.
Held ==
    /\ RetentionTypeOK
    /\ \A j \in Jobs : created_at[j] <= clock /\ finished_at[j] <= clock
    /\ purges \in [Purges -> Attempt \cup {Idle}]
    /\ \A p \in Purges : purges[p].step # "idle" => purges[p].now <= clock + MaxSkew

\* What is deleted was older than its floor.
Aged ==
    /\ \A j \in purgedJobs : finished_at[j] < clock - PURGE_FLOOR
    /\ \A j \in purgedEvents : created_at[j] < clock - AUDIT_FLOOR_DAYS

\* The jobs that are deleted and ended like job j, no later.
PurgedWith(j) == {i \in purgedJobs : status[i] = status[j] /\ finished_at[i] <= finished_at[j]}

\* When the jobs that ended with status s have had their turn in an attempt, those that are
\* left and whose event it could reach are left by a full batch.
HadItsTurn(q, s) ==
    \A j \in Jobs \ purgedJobs :
        status[j] = s /\ finished_at[j] < q.now - q.policy.audit_events
            => Cardinality(PurgedWith(j)) >= q.policy.batch_limit

\* The categories that have had their turn when an attempt is at a step.
Before(step) ==
    CASE step = "failed" -> {"succeeded"}
      [] step = "cancelled" -> {"succeeded", "failed"}
      [] step = "audit" -> TerminalStatus
      [] OTHER -> {}

Turns == \A p \in Purges : \A s \in Before(purges[p].step) : HadItsTurn(purges[p], s)

IInv ==
    /\ Held
    /\ Aged
    /\ Turns
    /\ LogIsASuffix
    /\ LeftByAFullBatch

-----------------------------------------------------------------------------
(* The facts that its steps rest on *)

\* The rows bear integers, and what is deleted has ended.
LEMMA RowsHeld ==
    ASSUME Held
    PROVE  /\ clock \in Nat
           /\ \A j \in Jobs : /\ finished_at[j] \in Int /\ created_at[j] \in Int
                              /\ created_at[j] # Never => status[j] \in TerminalStatus
                              /\ status[j] \in TerminalStatus => created_at[j] # Never
           /\ \A j \in purgedJobs : j \in Jobs /\ status[j] \in TerminalStatus
           /\ \A j \in purgedEvents : j \in Jobs /\ status[j] \in TerminalStatus
BY RetentionAssumption DEF Held, RetentionTypeOK, Never

\* An attempt of a purge: its policy covers the floors, and reaches no recent event.
LEMMA AttemptReach ==
    ASSUME Held, NEW p \in Purges, purges[p].step # "idle"
    PROVE  /\ purges[p] \in Attempt
           /\ purges[p].now \in Int
           /\ purges[p].policy \in Documents /\ ValidPolicy(purges[p].policy)
           /\ purges[p].policy.audit_events \in Nat
           /\ purges[p].policy.batch_limit \in Nat
           /\ \A s \in TerminalStatus : /\ purges[p].policy.jobs[s] \in Nat
                                        /\ purges[p].policy.jobs[s] <= purges[p].policy.audit_events
           /\ purges[p].now - purges[p].policy.audit_events <= clock - PURGE_FLOOR
<1> DEFINE q == purges[p]
<1>1. q \in Attempt /\ q.now <= clock + MaxSkew
  BY DEF Held, Idle
<1>2. q.now \in Int /\ q.policy \in Documents /\ ValidPolicy(q.policy)
  BY <1>1 DEF Attempt
<1>3. /\ q.policy.audit_events \in Nat /\ q.policy.batch_limit \in Nat
      /\ \A s \in TerminalStatus : q.policy.jobs[s] \in Nat
  BY <1>2, RetentionAssumption DEF TerminalStatus
<1>4. /\ \A s \in TerminalStatus : q.policy.jobs[s] <= q.policy.audit_events
      /\ q.policy.audit_events >= AUDIT_FLOOR_DAYS
  BY <1>2, <1>3 DEF ValidPolicy
<1> HIDE DEF q
<1>5. q.now - q.policy.audit_events <= clock - PURGE_FLOOR
  BY <1>1, <1>2, <1>3, <1>4, RowsHeld, RetentionAssumption
<1>6. QED
  BY <1>1, <1>2, <1>3, <1>4, <1>5 DEF q

\* Deletions only add to what was deleted with a job.
LEMMA PurgedWithGrows ==
    ASSUME Held, Held', purgedJobs \subseteq purgedJobs', NEW j \in Jobs,
           \A i \in purgedJobs : status'[i] = status[i] /\ finished_at'[i] = finished_at[i],
           status'[j] = status[j], finished_at'[j] = finished_at[j]
    PROVE  /\ Cardinality(PurgedWith(j)) <= Cardinality(PurgedWith(j)')
           /\ Cardinality(PurgedWith(j)) \in Nat /\ Cardinality(PurgedWith(j)') \in Nat
<1>1. PurgedWith(j) \subseteq PurgedWith(j)'
  BY DEF PurgedWith
<1>2. PurgedWith(j)' \subseteq Jobs
  BY DEF PurgedWith, Held, RetentionTypeOK
<1>3. IsFiniteSet(PurgedWith(j)')
  BY <1>2, FS_Subset, RetentionAssumption
<1>4. QED
  BY <1>1, <1>3, FS_Subset, FS_CardinalityType

\* So a job that is left by a full batch stays so.
LEMMA LeftStays ==
    ASSUME Held, Held', LeftByAFullBatch, purgedJobs \subseteq purgedJobs',
           \A i \in purgedJobs : status'[i] = status[i] /\ finished_at'[i] = finished_at[i],
           NEW j \in Jobs \ purgedJobs', j \in purgedEvents,
           status'[j] = status[j], finished_at'[j] = finished_at[j], created_at'[j] = created_at[j],
           finished_at[j] = created_at[j]
    PROVE  \E d \in Documents : /\ ValidPolicy(d)
                                /\ Cardinality(PurgedWith(j)') >= d.batch_limit
<1>1. PICK d \in Documents : ValidPolicy(d) /\ Cardinality(PurgedWith(j)) >= d.batch_limit
  BY DEF LeftByAFullBatch, PurgedWith
<1>2. d.batch_limit \in Nat
  BY RetentionAssumption
<1>3. QED
  BY <1>1, <1>2, PurgedWithGrows

\* What a step leaves unchanged keeps what the rows are left by.
LEMMA LeftUnchanged ==
    ASSUME LeftByAFullBatch,
           UNCHANGED <<status, finished_at, created_at, purgedJobs, purgedEvents>>
    PROVE  LeftByAFullBatch'
<1>1. \A d : ValidPolicy(d)' = ValidPolicy(d)
  BY DEF ValidPolicy
<1> SUFFICES ASSUME NEW j \in Jobs \ purgedJobs, j \in purgedEvents,
                    finished_at[j] = created_at[j]
             PROVE  \E d \in Documents : /\ ValidPolicy(d)'
                                         /\ Cardinality(PurgedWith(j)) >= d.batch_limit
  BY Zenon DEF LeftByAFullBatch, PurgedWith
<1>2. QED
  BY <1>1, Zenon DEF LeftByAFullBatch, PurgedWith

\* Of what is selected oldest first, the elders are selected too.
LEMMA OldestIsClosed ==
    ASSUME NEW S, NEW at, \A x \in S : at[x] \in Int, NEW n, NEW T \in Oldest(S, at, n),
           NEW x \in T, NEW y \in S, at[y] < at[x]
    PROVE  y \in T
<1>1. T \subseteq S /\ \A v \in T, w \in S \ T : at[v] <= at[w]
  BY DEF Oldest
<1>2. QED
  BY <1>1

-----------------------------------------------------------------------------
(* The steps of the rows *)

RowStep ==
    \/ Tick
    \/ \E j \in Jobs : Enqueue(j)
    \/ \E j \in Jobs, s \in TerminalStatus : Finish(j, s)

\* An end is written once, with instants of the transaction that writes it.
WrittenOnce(j) ==
    \/ /\ status'[j] = status[j] /\ finished_at'[j] = finished_at[j]
       /\ created_at'[j] = created_at[j]
    \/ /\ status[j] \notin TerminalStatus
       /\ status'[j] \in TerminalStatus =>
            /\ finished_at'[j] >= clock - MaxTransaction /\ finished_at'[j] <= clock
            /\ created_at'[j] >= clock - MaxTransaction /\ created_at'[j] <= clock
            /\ finished_at'[j] \in 0 .. MaxClock /\ created_at'[j] \in 0 .. MaxClock

LEMMA RowsAreWrittenOnce ==
    ASSUME Held, RowStep
    PROVE  /\ Held' /\ clock' \in {clock, clock + 1}
           /\ UNCHANGED <<purgedJobs, purgedEvents, purges>>
           /\ \A j \in Jobs : WrittenOnce(j)
<1>1. /\ clock \in Nat /\ MaxClock \in Nat /\ clock <= MaxClock /\ MaxTransaction \in Nat
      /\ MaxSkew \in Nat
  BY RetentionAssumption DEF Held, RetentionTypeOK
<1>2. \A p \in Purges : purges[p].step # "idle" => purges[p].now \in Int
  BY AttemptReach
<1>3. CASE Tick
  <2>1. /\ clock' = clock + 1 /\ clock' \in 0 .. MaxClock
        /\ UNCHANGED <<status, finished_at, created_at, purgedJobs, purgedEvents, purges>>
    BY <1>1, <1>3 DEF Tick, rows
  <2>2. RetentionTypeOK'
    BY <2>1 DEF Held, RetentionTypeOK
  <2>3. \A j \in Jobs : created_at'[j] <= clock' /\ finished_at'[j] <= clock'
    BY <2>1, <1>1, RowsHeld DEF Held
  <2>4. \A p \in Purges : purges'[p].step # "idle" => purges'[p].now <= clock' + MaxSkew
    BY <2>1, <1>1, <1>2 DEF Held
  <2>5. QED
    BY <2>1, <2>2, <2>3, <2>4 DEF Held, WrittenOnce
<1>4. ASSUME NEW j \in Jobs, Enqueue(j)
      PROVE  /\ Held' /\ clock' = clock
             /\ UNCHANGED <<purgedJobs, purgedEvents, purges>>
             /\ \A i \in Jobs : WrittenOnce(i)
  <2>1. /\ status[j] = "absent" /\ status' = [status EXCEPT ![j] = "live"]
        /\ UNCHANGED <<clock, finished_at, created_at, purgedJobs, purgedEvents, purges>>
    BY <1>4 DEF Enqueue
  <2>2. RetentionTypeOK'
    BY <2>1 DEF Held, RetentionTypeOK, TerminalStatus
  <2>3. \A i \in Jobs : WrittenOnce(i)
    BY <2>1 DEF WrittenOnce, Held, RetentionTypeOK, TerminalStatus
  <2>4. QED
    BY <2>1, <2>2, <2>3 DEF Held
<1>5. ASSUME NEW j \in Jobs, NEW s \in TerminalStatus, Finish(j, s)
      PROVE  /\ Held' /\ clock' = clock
             /\ UNCHANGED <<purgedJobs, purgedEvents, purges>>
             /\ \A i \in Jobs : WrittenOnce(i)
  <2>1. /\ status[j] = "live" /\ status' = [status EXCEPT ![j] = s]
        /\ UNCHANGED <<clock, purgedJobs, purgedEvents, purges>>
    BY <1>5 DEF Finish
  <2>0. PICK now \in Start : \E t \in EndsAt(s, now) :
            /\ finished_at' = [finished_at EXCEPT ![j] = t]
            /\ created_at' = [created_at EXCEPT ![j] = now]
    BY <1>5 DEF Finish
  <2>2. PICK t \in EndsAt(s, now) :
            /\ finished_at' = [finished_at EXCEPT ![j] = t]
            /\ created_at' = [created_at EXCEPT ![j] = now]
    BY <2>0
  <2>3. now \in 0 .. clock /\ now >= clock - MaxTransaction
    BY <1>1 DEF Start
  <2>4. t \in 0 .. clock /\ t >= clock - MaxTransaction
    BY <1>1, <2>3 DEF EndsAt
  <2>5. now \in 0 .. MaxClock /\ t \in 0 .. MaxClock /\ now # Never /\ t # Never
    BY <2>3, <2>4, <1>1 DEF Never
  <2>6. RetentionTypeOK'
    <3>1. /\ finished_at' \in [Jobs -> Never .. MaxClock]
          /\ created_at' \in [Jobs -> Never .. MaxClock]
      <4>1. now \in Never .. MaxClock /\ t \in Never .. MaxClock
        BY <2>5 DEF Never
      <4>2. QED
        BY <4>1, <2>2 DEF Held, RetentionTypeOK
    <3>2. status' \in [Jobs -> {"absent", "live"} \cup TerminalStatus]
      BY <2>1 DEF Held, RetentionTypeOK
    <3>3. \A i \in Jobs : /\ finished_at'[i] # Never <=> status'[i] \in TerminalStatus
                          /\ created_at'[i] # Never <=> status'[i] \in TerminalStatus
      BY <2>1, <2>2, <2>5 DEF Held, RetentionTypeOK
    <3>4. QED
      BY <3>1, <3>2, <3>3, <2>1 DEF Held, RetentionTypeOK, TerminalStatus
  <2>7. \A i \in Jobs : created_at'[i] <= clock /\ finished_at'[i] <= clock
    BY <2>2, <2>3, <2>4, RowsHeld DEF Held, RetentionTypeOK
  <2>8. \A i \in Jobs : WrittenOnce(i)
    <3>1. WrittenOnce(j)
      BY <2>1, <2>2, <2>3, <2>4, <2>5 DEF WrittenOnce, Held, RetentionTypeOK, TerminalStatus
    <3>2. \A i \in Jobs \ {j} : WrittenOnce(i)
      BY <2>1, <2>2 DEF WrittenOnce, Held, RetentionTypeOK
    <3>3. QED
      BY <3>1, <3>2
  <2>9. QED
    BY <2>1, <2>6, <2>7, <2>8 DEF Held
<1>6. QED
  BY <1>3, <1>4, <1>5 DEF RowStep

\* What ends is more recent than all that is deleted and all that an attempt reaches.
LEMMA RowStepsKeepIt ==
    ASSUME IInv, RowStep
    PROVE  IInv'
<1>1. /\ Held /\ Held' /\ clock' >= clock /\ clock \in Nat /\ clock' \in Nat
      /\ UNCHANGED <<purgedJobs, purgedEvents, purges>>
  <2>1. Held /\ Held' /\ clock' \in {clock, clock + 1} /\ clock \in Nat
    BY RowsAreWrittenOnce, RowsHeld DEF IInv
  <2>2. QED
    BY <2>1, RowsAreWrittenOnce DEF IInv
<1>2. \A j \in Jobs : WrittenOnce(j)
  BY RowsAreWrittenOnce DEF IInv
<1>3. \A j \in Jobs : status[j] \in TerminalStatus =>
            /\ status'[j] = status[j] /\ finished_at'[j] = finished_at[j]
            /\ created_at'[j] = created_at[j]
  BY <1>2 DEF WrittenOnce
<1>4. \A j \in Jobs : /\ finished_at[j] \in Int /\ created_at[j] \in Int
                      /\ finished_at'[j] \in Int /\ created_at'[j] \in Int
  BY <1>1, RowsHeld DEF Held, RetentionTypeOK, Never
<1>5. /\ PURGE_FLOOR \in Nat /\ AUDIT_FLOOR_DAYS \in Nat /\ MaxTransaction \in Nat
      /\ MaxTransaction <= PURGE_FLOOR /\ MaxTransaction <= AUDIT_FLOOR_DAYS
  BY RetentionAssumption
<1>6. /\ \A j \in purgedJobs : j \in Jobs /\ status[j] \in TerminalStatus
      /\ \A j \in purgedEvents : j \in Jobs /\ status[j] \in TerminalStatus
  BY <1>1, RowsHeld
<1>7. Aged'
  <2>1. \A j \in purgedJobs : finished_at'[j] < clock' - PURGE_FLOOR
    BY <1>1, <1>3, <1>4, <1>5, <1>6 DEF IInv, Aged
  <2>2. \A j \in purgedEvents : created_at'[j] < clock' - AUDIT_FLOOR_DAYS
    BY <1>1, <1>3, <1>4, <1>5, <1>6 DEF IInv, Aged
  <2>3. QED
    BY <2>1, <2>2, <1>1 DEF Aged
\* An end before clock - MaxTransaction was there already.
<1>8. ASSUME NEW j \in Jobs, status'[j] \in TerminalStatus,
             finished_at'[j] < clock - MaxTransaction \/ created_at'[j] < clock - MaxTransaction
      PROVE  /\ status'[j] = status[j] /\ finished_at'[j] = finished_at[j]
             /\ created_at'[j] = created_at[j]
  BY <1>1, <1>2, <1>4, <1>5, <1>8 DEF WrittenOnce
<1>9. Turns'
  <2> SUFFICES ASSUME NEW p \in Purges, NEW s \in Before(purges[p].step),
                      NEW j \in Jobs \ purgedJobs, status'[j] = s,
                      finished_at'[j] < purges[p].now - purges[p].policy.audit_events
               PROVE  Cardinality(PurgedWith(j)') >= purges[p].policy.batch_limit
    BY <1>1 DEF Turns, HadItsTurn, Before
  <2>1. s \in TerminalStatus /\ purges[p].step # "idle"
    BY DEF Before, TerminalStatus
  <2>2. /\ purges[p].now \in Int /\ purges[p].policy.audit_events \in Nat
        /\ purges[p].policy.batch_limit \in Nat
        /\ purges[p].now - purges[p].policy.audit_events <= clock - PURGE_FLOOR
    BY <1>1, <2>1, AttemptReach
  <2>3. finished_at'[j] < clock - MaxTransaction
    BY <1>1, <1>4, <1>5, <2>2
  <2>4. /\ status'[j] = status[j] /\ finished_at'[j] = finished_at[j]
    BY <1>8, <2>1, <2>3
  <2>5. Cardinality(PurgedWith(j)) >= purges[p].policy.batch_limit
    BY <2>4 DEF IInv, Turns, HadItsTurn
  <2>6. /\ Cardinality(PurgedWith(j)) <= Cardinality(PurgedWith(j)')
        /\ Cardinality(PurgedWith(j)) \in Nat /\ Cardinality(PurgedWith(j)') \in Nat
    BY <1>1, <1>3, <1>6, <2>4, PurgedWithGrows
  <2>7. QED
    BY <2>2, <2>5, <2>6
<1>10. LogIsASuffix'
  <2>1. ASSUME NEW i \in purgedEvents, NEW j \in Jobs,
               created_at'[j] # Never, created_at'[j] < created_at'[i]
        PROVE  j \in purgedEvents
    <3>1. created_at'[i] = created_at[i] /\ created_at[i] < clock - AUDIT_FLOOR_DAYS /\ i \in Jobs
      BY <1>3, <1>6 DEF IInv, Aged
    <3>2. created_at'[j] < clock - MaxTransaction
      BY <3>1, <2>1, <1>1, <1>4, <1>5
    <3>3. status'[j] \in TerminalStatus
      BY <2>1, <1>1 DEF Held, RetentionTypeOK
    <3>4. created_at'[j] = created_at[j]
      BY <3>2, <3>3, <1>8
    <3>5. QED
      BY <3>1, <3>4, <2>1 DEF IInv, LogIsASuffix
  <2>2. ASSUME NEW i \in purgedJobs, NEW j \in Jobs,
               status'[j] = status'[i], finished_at'[j] < finished_at'[i]
        PROVE  j \in purgedJobs
    <3>1. /\ finished_at'[i] = finished_at[i] /\ status'[i] = status[i]
          /\ finished_at[i] < clock - PURGE_FLOOR /\ i \in Jobs /\ status[i] \in TerminalStatus
      BY <1>3, <1>6 DEF IInv, Aged
    <3>2. finished_at'[j] < clock - MaxTransaction
      BY <3>1, <2>2, <1>1, <1>4, <1>5
    <3>3. status'[j] = status[j] /\ finished_at'[j] = finished_at[j]
      BY <3>1, <3>2, <2>2, <1>8
    <3>4. QED
      BY <3>1, <3>3, <2>2 DEF IInv, LogIsASuffix
  <2>3. QED
    BY <2>1, <2>2, <1>1 DEF LogIsASuffix
<1>11. LeftByAFullBatch'
  <2> SUFFICES ASSUME NEW j \in Jobs \ purgedJobs, j \in purgedEvents,
                      finished_at'[j] = created_at'[j]
               PROVE  \E d \in Documents : /\ ValidPolicy(d)
                                           /\ Cardinality(PurgedWith(j)') >= d.batch_limit
    BY <1>1 DEF LeftByAFullBatch, PurgedWith, ValidPolicy
  <2>1. /\ status'[j] = status[j] /\ finished_at'[j] = finished_at[j]
        /\ created_at'[j] = created_at[j]
    BY <1>3, <1>6
  <2>2. \A i \in purgedJobs : status'[i] = status[i] /\ finished_at'[i] = finished_at[i]
    BY <1>3, <1>6
  <2>3. QED
    BY <1>1, <2>1, <2>2, LeftStays DEF IInv
<1>12. QED
  BY <1>1, <1>7, <1>9, <1>10, <1>11 DEF IInv

-----------------------------------------------------------------------------
(* The steps of the purges *)

\* The typing of the attempts through their steps.
LEMMA PurgeStepsKeepHeld ==
    ASSUME Held, NEW p \in Purges,
           \/ PurgeJobs(p) \/ PurgeEvents(p) \/ EndPurge(p)
           \/ \E policy \in Documents, skew \in -MaxSkew .. MaxSkew : BeginPurge(p, policy, skew)
    PROVE  Held'
<1>1. /\ UNCHANGED <<clock, status, finished_at, created_at>>
      /\ purges \in [Purges -> Attempt \cup {Idle}] /\ clock \in Nat /\ MaxSkew \in Nat
  BY RowsHeld, RetentionAssumption DEF Held, rows, PurgeJobs, PurgeEvents, EndPurge, BeginPurge
<1>2. /\ purgedJobs' \subseteq {j \in Jobs : status[j] \in TerminalStatus}
      /\ purgedEvents' \subseteq {j \in Jobs : status[j] \in TerminalStatus}
  <2>1. /\ purgedJobs \subseteq {j \in Jobs : status[j] \in TerminalStatus}
        /\ purgedEvents \subseteq {j \in Jobs : status[j] \in TerminalStatus}
    BY DEF Held, RetentionTypeOK
  <2>2. CASE PurgeJobs(p)
    BY <2>1, <2>2, RowsHeld DEF PurgeJobs, Oldest, ExpiredJobs
  <2>3. CASE PurgeEvents(p)
    BY <2>1, <2>3, RowsHeld DEF PurgeEvents, Oldest, ExpiredEvents
  <2>4. CASE EndPurge(p) \/ \E policy \in Documents, skew \in -MaxSkew .. MaxSkew :
                                BeginPurge(p, policy, skew)
    BY <2>1, <2>4 DEF EndPurge, BeginPurge
  <2>5. QED
    BY <2>2, <2>3, <2>4
<1>3. /\ purges' \in [Purges -> Attempt \cup {Idle}]
      /\ \A o \in Purges : purges'[o].step # "idle" => purges'[o].now <= clock + MaxSkew
  <2>1. \A o \in Purges : purges[o].step # "idle" => purges[o].now <= clock + MaxSkew
    BY DEF Held
  <2>2. CASE PurgeJobs(p) \/ PurgeEvents(p)
    <3>1. purges' = [purges EXCEPT ![p].step = NextStep(purges[p].step)]
          /\ purges[p].step \in TerminalStatus \cup {"audit"}
      BY <2>2 DEF PurgeJobs, PurgeEvents
    <3>2. NextStep(purges[p].step) \in TerminalStatus \cup {"audit", "done"}
      BY <3>1 DEF NextStep, TerminalStatus
    <3>3. purges[p] \in Attempt
      BY <1>1, <3>1 DEF Idle, TerminalStatus
    <3>4. [purges[p] EXCEPT !.step = NextStep(purges[p].step)] \in Attempt
          /\ [purges[p] EXCEPT !.step = NextStep(purges[p].step)].now = purges[p].now
      BY <3>2, <3>3 DEF Attempt
    <3>5. QED
      BY <3>1, <3>3, <3>4, <1>1, <2>1 DEF Idle, TerminalStatus
  <2>3. CASE EndPurge(p)
    BY <2>1, <2>3, <1>1 DEF EndPurge, Idle
  <2>4. ASSUME NEW policy \in Documents, NEW skew \in -MaxSkew .. MaxSkew,
               BeginPurge(p, policy, skew)
        PROVE  /\ purges' \in [Purges -> Attempt \cup {Idle}]
               /\ \A o \in Purges : purges'[o].step # "idle" => purges'[o].now <= clock + MaxSkew
    <3> DEFINE new == [step |-> "succeeded", policy |-> policy, now |-> clock + skew]
    <3>1. purges' = [purges EXCEPT ![p] = new] /\ ValidPolicy(policy)
      BY <2>4 DEF BeginPurge
    <3>2. new \in Attempt /\ new.now <= clock + MaxSkew
      BY <3>1, <1>1 DEF Attempt, TerminalStatus
    <3> HIDE DEF new
    <3>3. purges' \in [Purges -> Attempt \cup {Idle}]
      BY <3>1, <3>2, <1>1
    <3>4. purges'[p] = new /\ \A o \in Purges \ {p} : purges'[o] = purges[o]
      BY <3>1, <1>1
    <3>5. QED
      BY <3>2, <3>3, <3>4, <2>1
  <2>5. QED
    BY <2>2, <2>3, <2>4
<1>4. \A o \in Purges : purges'[o].step # "idle" => ValidPolicy(purges'[o].policy)
  BY <1>3 DEF Attempt, Idle
<1>5. RetentionTypeOK'
  <2>1. /\ clock' \in 0 .. MaxClock
        /\ status' \in [Jobs -> {"absent", "live"} \cup TerminalStatus]
        /\ finished_at' \in [Jobs -> Never .. MaxClock]
        /\ created_at' \in [Jobs -> Never .. MaxClock]
        /\ \A j \in Jobs : finished_at'[j] # Never <=> status'[j] \in TerminalStatus
        /\ \A j \in Jobs : created_at'[j] # Never <=> status'[j] \in TerminalStatus
    BY <1>1 DEF Held, RetentionTypeOK
  <2>2. QED
    BY <1>1, <1>2, <1>4, <2>1 DEF RetentionTypeOK, ValidPolicy
<1>6. \A j \in Jobs : created_at'[j] <= clock' /\ finished_at'[j] <= clock'
  BY <1>1 DEF Held
<1>7. QED
  BY <1>1, <1>3, <1>5, <1>6 DEF Held

\* The step of the jobs of a status gives them their turn: those that it does not reach are
\* left by a full batch,
LEMMA JobsHaveTheirTurn ==
    ASSUME IInv, NEW p \in Purges, PurgeJobs(p), NEW j \in Jobs \ purgedJobs',
           status[j] = purges[p].step,
           finished_at[j] < purges[p].now - purges[p].policy.audit_events
    PROVE  Cardinality(PurgedWith(j)') >= purges[p].policy.batch_limit
<1> DEFINE q == purges[p]
           n == q.policy.batch_limit
<1>1. PICK seen \in SUBSET purgedJobs :
        \E chosen \in Oldest(ExpiredJobs(q, seen), finished_at, n) :
            purgedJobs' = purgedJobs \cup {i \in chosen : finished_at[i] < clock - PURGE_FLOOR}
  BY DEF PurgeJobs
<1>2. PICK chosen \in Oldest(ExpiredJobs(q, seen), finished_at, n) :
            purgedJobs' = purgedJobs \cup {i \in chosen : finished_at[i] < clock - PURGE_FLOOR}
  BY <1>1
<1>3. q.step \in TerminalStatus /\ q.step # "idle" /\ UNCHANGED <<status, finished_at>>
  BY DEF PurgeJobs, TerminalStatus, rows
<1>4. /\ q.now \in Int /\ q.policy.audit_events \in Nat /\ q.policy.jobs[q.step] \in Nat
      /\ q.policy.jobs[q.step] <= q.policy.audit_events /\ n \in Nat
      /\ q.now - q.policy.audit_events <= clock - PURGE_FLOOR
      /\ clock \in Nat /\ PURGE_FLOOR \in Nat
  BY <1>3, AttemptReach, RowsHeld, RetentionAssumption DEF IInv
<1>5. \A i \in Jobs : finished_at[i] \in Int
  BY RowsHeld DEF IInv
<1>6. /\ finished_at[j] < q.now - q.policy.jobs[q.step]
      /\ finished_at[j] < clock - PURGE_FLOOR
  BY <1>4, <1>5
<1> HIDE DEF q, n
<1>7. j \in ExpiredJobs(q, seen) /\ j \notin chosen
  BY <1>2, <1>6 DEF ExpiredJobs, q
<1>8. /\ chosen \subseteq ExpiredJobs(q, seen) /\ Cardinality(chosen) = n
      /\ \A i \in chosen : finished_at[i] <= finished_at[j]
  BY <1>7 DEF Oldest
<1>9. chosen \subseteq Jobs /\ \A i \in chosen : status[i] = q.step
  BY <1>8, RowsHeld DEF ExpiredJobs, IInv
<1>10. chosen \subseteq PurgedWith(j)'
  <2> SUFFICES ASSUME NEW i \in chosen PROVE i \in PurgedWith(j)'
    OBVIOUS
  <2>1. i \in Jobs /\ status[i] = status[j] /\ finished_at[i] <= finished_at[j]
    BY <1>8, <1>9 DEF q
  <2>2. finished_at[i] < clock - PURGE_FLOOR
    BY <2>1, <1>4, <1>5, <1>6
  <2>3. i \in purgedJobs'
    BY <2>2, <1>2
  <2>4. QED
    BY <2>1, <2>3, <1>3 DEF PurgedWith
<1>11. IsFiniteSet(PurgedWith(j)')
  <2>1. Held'
    BY PurgeStepsKeepHeld DEF IInv
  <2>2. PurgedWith(j)' \subseteq Jobs
    BY <2>1 DEF PurgedWith, Held, RetentionTypeOK
  <2>3. QED
    BY <2>2, FS_Subset, RetentionAssumption
<1>12. QED
  BY <1>8, <1>10, <1>11, FS_Subset, FS_CardinalityType DEF n, q

\* and what is left of them is no older than what goes.
LEMMA PurgeJobsKeepsIt ==
    ASSUME IInv, NEW p \in Purges, PurgeJobs(p)
    PROVE  IInv'
<1>1. /\ Held /\ Held' /\ clock \in Nat /\ PURGE_FLOOR \in Nat
      /\ UNCHANGED <<clock, status, finished_at, created_at, purgedEvents>>
      /\ purgedJobs \subseteq purgedJobs'
  BY PurgeStepsKeepHeld, RowsHeld, RetentionAssumption DEF IInv, PurgeJobs, rows
<1>2. \A i \in Jobs : finished_at[i] \in Int
  BY <1>1, RowsHeld
<1>3. PICK seen \in SUBSET purgedJobs :
        \E chosen \in Oldest(ExpiredJobs(purges[p], seen), finished_at, purges[p].policy.batch_limit) :
            purgedJobs' = purgedJobs \cup {i \in chosen : finished_at[i] < clock - PURGE_FLOOR}
  BY DEF PurgeJobs
<1> DEFINE S == ExpiredJobs(purges[p], seen)
           n == purges[p].policy.batch_limit
<1>4. PICK chosen \in Oldest(S, finished_at, n) :
            purgedJobs' = purgedJobs \cup {i \in chosen : finished_at[i] < clock - PURGE_FLOOR}
  BY <1>3
<1>5. /\ purges[p].step \in TerminalStatus /\ purges[p].step # "idle"
      /\ purges' = [purges EXCEPT ![p].step = NextStep(purges[p].step)]
  BY DEF PurgeJobs, TerminalStatus
<1>6. Aged'
  BY <1>1, <1>4 DEF IInv, Aged
<1>7. Turns'
  <2> SUFFICES ASSUME NEW o \in Purges, NEW s \in Before(purges'[o].step),
                      NEW j \in Jobs \ purgedJobs', status[j] = s,
                      finished_at[j] < purges'[o].now - purges'[o].policy.audit_events
               PROVE  Cardinality(PurgedWith(j)') >= purges'[o].policy.batch_limit
    BY <1>1 DEF Turns, HadItsTurn, Before
  <2>1. /\ purges \in [Purges -> Attempt \cup {Idle}]
    BY <1>1 DEF Held
  <2>2. CASE o = p /\ s = purges[p].step
    <3>1. purges[p] \in Attempt
      BY <2>1, <1>5 DEF Idle
    <3>2. purges'[p].now = purges[p].now /\ purges'[p].policy = purges[p].policy
      BY <3>1, <2>1, <1>5 DEF Attempt
    <3>3. QED
      BY <2>2, <3>2, JobsHaveTheirTurn
  <2>3. CASE ~(o = p /\ s = purges[p].step)
    <3>1. /\ purges'[o].now = purges[o].now /\ purges'[o].policy = purges[o].policy
          /\ s \in Before(purges[o].step)
      <4>1. CASE o # p
        BY <4>1, <2>1, <1>5
      <4>2. CASE o = p
        <5>1. purges[p] \in Attempt
          BY <2>1, <1>5 DEF Idle
        <5>2. /\ purges'[p].now = purges[p].now /\ purges'[p].policy = purges[p].policy
              /\ purges'[p].step = NextStep(purges[p].step)
          BY <5>1, <2>1, <1>5 DEF Attempt
        <5>3. s \in Before(NextStep(purges[p].step)) /\ s # purges[p].step
          BY <4>2, <5>2, <2>3
        <5>4. s \in Before(purges[p].step)
          BY <5>3, <1>5 DEF Before, NextStep, TerminalStatus
        <5>5. QED
          BY <4>2, <5>2, <5>4
      <4>3. QED
        BY <4>1, <4>2
    <3>2. Cardinality(PurgedWith(j)) >= purges[o].policy.batch_limit
      BY <3>1, <1>1 DEF IInv, Turns, HadItsTurn
    <3>3. /\ Cardinality(PurgedWith(j)) <= Cardinality(PurgedWith(j)')
          /\ Cardinality(PurgedWith(j)) \in Nat /\ Cardinality(PurgedWith(j)') \in Nat
      BY <1>1, PurgedWithGrows
    <3>4. purges[o].policy.batch_limit \in Nat
      BY <3>1, <1>1, AttemptReach DEF Before
    <3>5. QED
      BY <3>1, <3>2, <3>3, <3>4
  <2>4. QED
    BY <2>2, <2>3
<1>8. LogIsASuffix'
  <2> SUFFICES ASSUME NEW i \in purgedJobs', NEW j \in Jobs,
                      status[j] = status[i], finished_at[j] < finished_at[i]
               PROVE  j \in purgedJobs'
    BY <1>1 DEF IInv, LogIsASuffix
  <2>1. CASE i \in purgedJobs
    BY <2>1, <1>1 DEF IInv, LogIsASuffix
  <2>2. CASE i \in chosen /\ finished_at[i] < clock - PURGE_FLOOR /\ j \notin purgedJobs
    <3>1. i \in S /\ \A x \in S : finished_at[x] \in Int
      BY <2>2, <1>2, RowsHeld, <1>1 DEF Oldest, ExpiredJobs
    <3>2. purges[p].now - purges[p].policy.jobs[purges[p].step] \in Int
      BY <1>1, <1>5, AttemptReach
    <3>3. i \in Jobs
      BY <3>1, RowsHeld, <1>1 DEF ExpiredJobs
    <3>4. j \in S /\ finished_at[j] < clock - PURGE_FLOOR
      BY <3>1, <3>2, <3>3, <2>2, <1>1, <1>2 DEF ExpiredJobs
    <3> HIDE DEF S, n
    <3>5. j \in chosen
      BY <2>2, <3>1, <3>4, OldestIsClosed
    <3>6. QED
      BY <3>4, <3>5, <1>4
  <2>3. QED
    BY <2>1, <2>2, <1>1, <1>4
<1>9. LeftByAFullBatch'
  <2> SUFFICES ASSUME NEW j \in Jobs \ purgedJobs', j \in purgedEvents,
                      finished_at[j] = created_at[j]
               PROVE  \E d \in Documents : /\ ValidPolicy(d)
                                           /\ Cardinality(PurgedWith(j)') >= d.batch_limit
    BY <1>1 DEF LeftByAFullBatch, PurgedWith, ValidPolicy
  <2>1. QED
    BY <1>1, LeftStays DEF IInv
<1>10. QED
  BY <1>1, <1>6, <1>7, <1>8, <1>9 DEF IInv

\* The step of the audit log takes the oldest events, and those of jobs that are left were
\* left by a full batch.
LEMMA PurgeEventsKeepsIt ==
    ASSUME IInv, NEW p \in Purges, PurgeEvents(p)
    PROVE  IInv'
<1>1. /\ Held /\ Held' /\ clock \in Nat /\ AUDIT_FLOOR_DAYS \in Nat
      /\ UNCHANGED <<clock, status, finished_at, created_at, purgedJobs>>
      /\ purgedEvents \subseteq purgedEvents'
  BY PurgeStepsKeepHeld, RowsHeld, RetentionAssumption DEF IInv, PurgeEvents, rows
<1>2. \A i \in Jobs : finished_at[i] \in Int /\ created_at[i] \in Int
  BY <1>1, RowsHeld
<1>3. PICK seen \in SUBSET purgedEvents, limit \in 0 .. purges[p].policy.batch_limit :
        \E chosen \in Oldest(ExpiredEvents(purges[p], seen), created_at, limit) :
            purgedEvents' = purgedEvents \cup {i \in chosen : created_at[i] < clock - AUDIT_FLOOR_DAYS}
  BY DEF PurgeEvents
<1> DEFINE S == ExpiredEvents(purges[p], seen)
<1>4. PICK chosen \in Oldest(S, created_at, limit) :
            purgedEvents' = purgedEvents \cup {i \in chosen : created_at[i] < clock - AUDIT_FLOOR_DAYS}
  BY <1>3
<1>5. /\ purges[p].step = "audit" /\ purges[p] \in Attempt
      /\ purges' = [purges EXCEPT ![p].step = NextStep(purges[p].step)]
  BY <1>1, AttemptReach DEF PurgeEvents
<1>6. /\ purges[p].policy \in Documents /\ ValidPolicy(purges[p].policy)
      /\ purges[p].now - purges[p].policy.audit_events \in Int
  BY <1>1, <1>5, AttemptReach
<1>7. Aged'
  BY <1>1, <1>4 DEF IInv, Aged
<1>8. Turns'
  <2>1. Before(purges'[p].step) = {}
    <3>1. purges'[p].step = "done"
      BY <1>1, <1>5 DEF Held, NextStep, Attempt
    <3>2. QED
      BY <3>1 DEF Before
  <2>2. \A o \in Purges \ {p} : purges'[o] = purges[o]
    BY <1>1, <1>5 DEF Held
  <2>3. QED
    BY <2>1, <2>2, <1>1 DEF IInv, Turns, HadItsTurn, PurgedWith, Before
<1>9. LogIsASuffix'
  <2> SUFFICES ASSUME NEW i \in purgedEvents', NEW j \in Jobs,
                      created_at[j] # Never, created_at[j] < created_at[i]
               PROVE  j \in purgedEvents'
    BY <1>1 DEF IInv, LogIsASuffix
  <2>1. CASE i \in purgedEvents
    BY <2>1, <1>1 DEF IInv, LogIsASuffix
  <2>2. CASE i \in chosen /\ created_at[i] < clock - AUDIT_FLOOR_DAYS /\ j \notin purgedEvents
    <3>1. i \in S /\ \A x \in S : x \in Jobs /\ created_at[x] \in Int
      BY <2>2, <1>2, RowsHeld, <1>1 DEF Oldest, ExpiredEvents
    <3>2. j \in S /\ created_at[j] < clock - AUDIT_FLOOR_DAYS
      BY <3>1, <2>2, <1>1, <1>2, <1>6 DEF ExpiredEvents
    <3> HIDE DEF S
    <3>3. j \in chosen
      BY <2>2, <3>1, <3>2, OldestIsClosed
    <3>4. QED
      BY <3>2, <3>3, <1>4
  <2>3. QED
    BY <2>1, <2>2, <1>1, <1>4
<1>10. LeftByAFullBatch'
  <2> SUFFICES ASSUME NEW j \in Jobs \ purgedJobs, j \in purgedEvents',
                      finished_at[j] = created_at[j]
               PROVE  \E d \in Documents : /\ ValidPolicy(d)
                                           /\ Cardinality(PurgedWith(j)) >= d.batch_limit
    BY <1>1 DEF LeftByAFullBatch, PurgedWith, ValidPolicy
  <2>1. CASE j \in purgedEvents
    BY <2>1 DEF IInv, LeftByAFullBatch, PurgedWith
  <2>2. CASE j \notin purgedEvents
    <3>1. created_at[j] # Never /\ created_at[j] < purges[p].now - purges[p].policy.audit_events
      BY <2>2, <1>4 DEF Oldest, ExpiredEvents
    <3>2. status[j] \in Before(purges[p].step)
      BY <3>1, <1>1, <1>5, RowsHeld DEF Before
    <3>3. Cardinality(PurgedWith(j)) >= purges[p].policy.batch_limit
      BY <3>1, <3>2 DEF IInv, Turns, HadItsTurn
    <3>4. QED
      BY <3>3, <1>6
  <2>3. QED
    BY <2>1, <2>2
<1>11. QED
  BY <1>1, <1>7, <1>8, <1>9, <1>10 DEF IInv

\* An attempt that begins or ends moves no row.
LEMMA AttemptsKeepIt ==
    ASSUME IInv, NEW p \in Purges,
           EndPurge(p) \/ \E policy \in Documents, skew \in -MaxSkew .. MaxSkew :
                                BeginPurge(p, policy, skew)
    PROVE  IInv'
<1>1. /\ Held /\ Held'
      /\ UNCHANGED <<clock, status, finished_at, created_at, purgedJobs, purgedEvents>>
  BY PurgeStepsKeepHeld DEF IInv, EndPurge, BeginPurge, rows
<1>2. /\ purges'[p].step \in {"idle", "succeeded"}
      /\ \A o \in Purges \ {p} : purges'[o] = purges[o]
  BY <1>1 DEF EndPurge, BeginPurge, Idle, Held
<1>3. Turns'
  <2> SUFFICES ASSUME NEW o \in Purges, NEW s \in Before(purges'[o].step)
               PROVE  purges'[o] = purges[o]
    BY <1>1 DEF IInv, Turns, HadItsTurn, PurgedWith, Before
  <2>1. QED
    BY <1>2 DEF Before
<1>4. Aged' /\ LogIsASuffix'
  BY <1>1 DEF IInv, Aged, LogIsASuffix
<1>5. LeftByAFullBatch'
  BY <1>1, LeftUnchanged DEF IInv
<1>6. QED
  BY <1>1, <1>3, <1>4, <1>5 DEF IInv

-----------------------------------------------------------------------------
(* Theorems *)

\* So the invariant holds of every state.
LEMMA IInvHolds == Spec => []IInv
<1>1. Init => IInv
  <2> SUFFICES ASSUME Init PROVE IInv
    OBVIOUS
  <2>1. Held
    BY RetentionAssumption DEF Init, Held, RetentionTypeOK, TerminalStatus, Never, Idle
  <2>2. Turns
    BY DEF Init, Turns, Before, Idle
  <2>3. Aged /\ LogIsASuffix /\ LeftByAFullBatch
    BY DEF Init, Aged, LogIsASuffix, LeftByAFullBatch
  <2>4. QED
    BY <2>1, <2>2, <2>3 DEF IInv
<1>2. IInv /\ [Next]_vars => IInv'
  <2> SUFFICES ASSUME IInv, [Next]_vars PROVE IInv'
    OBVIOUS
  <2>1. CASE RowStep
    BY <2>1, RowStepsKeepIt
  <2>2. ASSUME NEW p \in Purges, PurgeJobs(p) PROVE IInv'
    BY <2>2, PurgeJobsKeepsIt
  <2>3. ASSUME NEW p \in Purges, PurgeEvents(p) PROVE IInv'
    BY <2>3, PurgeEventsKeepsIt
  <2>4. ASSUME NEW p \in Purges,
               EndPurge(p) \/ \E policy \in Documents, skew \in -MaxSkew .. MaxSkew :
                                    BeginPurge(p, policy, skew)
        PROVE  IInv'
    BY <2>4, AttemptsKeepIt
  <2>5. CASE UNCHANGED vars
    <3>1. UNCHANGED <<clock, status, finished_at, created_at, purgedJobs, purgedEvents, purges>>
      BY <2>5 DEF vars, rows
    <3>2. RetentionTypeOK'
      BY <3>1 DEF IInv, Held, RetentionTypeOK, ValidPolicy
    <3>5. Held' /\ Aged' /\ LogIsASuffix'
      BY <3>1, <3>2 DEF IInv, Held, Aged, LogIsASuffix
    <3>3. LeftByAFullBatch'
      BY <3>1, LeftUnchanged DEF IInv
    <3>4. Turns'
      BY <3>1 DEF IInv, Turns, HadItsTurn, PurgedWith, Before
    <3>6. QED
      BY <3>3, <3>4, <3>5 DEF IInv
  <2>6. QED
    BY <2>1, <2>2, <2>3, <2>4, <2>5 DEF Next, RowStep
<1>3. QED
  BY <1>1, <1>2, PTL DEF Spec

\* A row whose ending is gone from the audit log was left by a full batch of jobs that ended
\* no later than it: for any number of jobs, of purges at once, any policies, batches and
\* interruptions, as long as the clocks of the workers are off by less than the floors are
\* apart and no transaction outlasts the floor of the jobs.
THEOREM LeftOnlyByAFullBatch == Spec => []LeftByAFullBatch
<1>1. IInv => LeftByAFullBatch
  BY DEF IInv
<1>2. QED
  BY <1>1, IInvHolds, PTL

\* What is deleted is no younger than what is left: the log misses no event between two that
\* it shows, and so it is for the finished jobs of each status, whatever the number of
\* purges at once, their policies, their clocks and their interruptions.
THEOREM SuffixIsKept == Spec => []LogIsASuffix
<1>1. IInv => LogIsASuffix
  BY DEF IInv
<1>2. QED
  BY <1>1, IInvHolds, PTL

\* The tables hold what their columns admit, a row that is deleted was there before, and an
\* attempt goes by a policy that RetentionPolicy accepts.
THEOREM RetentionTypes == Spec => []RetentionTypeOK
<1>1. IInv => RetentionTypeOK
  BY DEF IInv, Held
<1>2. QED
  BY <1>1, IInvHolds, PTL
=============================================================================
