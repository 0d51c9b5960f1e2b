----------------------------- MODULE ContentProofs -----------------------------
(***************************************************************************)
(* What holds of snapshots, runs and reports for any number of jobs, of    *)
(* attempts, of contents of the files and of faults.                       *)
(***************************************************************************)
EXTENDS Content, TLAPS

-----------------------------------------------------------------------------
(* The invariant *)

Importing == {"validate", "find", "load", "rehash", "open", "commit", "reject"}
Analysing == {"lookup", "start", "engine", "publish", "abandon"}

\* The files had content c; then d; and then c again.
HistoryOK == history \in Seq(Version) /\ Len(history) >= 1
Had(c) == \E i \in DOMAIN history : history[i] = c
HadThen(c, d) == \E i, j \in DOMAIN history : i <= j /\ history[i] = c /\ history[j] = d
Framed(c, d) ==
    \E before, loaded, after \in DOMAIN history :
        /\ before <= loaded /\ loaded <= after
        /\ history[before] = c
        /\ history[loaded] = d
        /\ history[after] = c

\* The resource that job j may name as its result.
Backed(j, x) ==
    /\ x \in Attempt
    /\ j \in ImportJob => snapshots[x].status = "completed"
    /\ j \in AnalysisJob => runs[x].status = "completed" /\ runs[x].snapshot = jobs[j].snapshot

\* An attempt that is at a step with some variables.  Until it has written its rows there
\* are none; its two hashes frame what it loaded; what it publishes is what it read.
AttemptOK(a, step, l) ==
    /\ step \in Step
    /\ l \in Local
    /\ step # "idle" => a[2] <= jobs[a[1]].attempts
    /\ step \in Importing => a[1] \in ImportJob
    /\ step \in Analysing => a[1] \in AnalysisJob
    /\ step \in {"idle", "begin"} \cup Importing => snapshots[a].status = "none"
    /\ step \in {"idle", "begin", "lookup", "start"} => runs[a].status = "none"
    /\ step \in Importing \ {"reject"} => l.sources \in Version /\ Had(l.sources)
    /\ step = "rehash" => l.dataset \in Version /\ HadThen(l.sources, l.dataset)
    /\ step \in {"open", "commit"} => l.dataset \in Version /\ Framed(l.sources, l.dataset)
    /\ step \in {"engine", "publish"} =>
            runs[a].status # "none" /\ runs[a].snapshot = jobs[a[1]].snapshot
    /\ step = "publish" => l.dataset = snapshots[runs[a].snapshot].rows
    /\ step \in {"trace", "succeed"} => Backed(a[1], l.out)
    /\ step = "succeed" => <<a, l.out>> \in trail

JobOK(j) ==
    /\ jobs[j] \in JobRow
    /\ jobs[j].attempts <= Budget[j]
    /\ jobs[j].status = "absent" => jobs[j].attempts = 0
    /\ jobs[j].status = "queued" => jobs[j].attempts < Budget[j]
    /\ j \in AnalysisJob /\ jobs[j].status # "absent" =>
            jobs[j].snapshot \in Attempt /\ snapshots[jobs[j].snapshot].status = "completed"
    /\ jobs[j].status = "succeeded" =>
            Backed(j, jobs[j].result) /\ <<<<j, jobs[j].attempts>>, jobs[j].result>> \in trail

\* The tables: the hashes of a sealed snapshot frame its rows, and no other bears them.
TablesOK ==
    /\ snapshots \in [Attempt -> SnapshotRecord]
    /\ runs \in [Attempt -> AnalysisRunRecord]
    /\ reports \in [Attempt -> 0 .. MaxVersion]
    /\ \A s \in Attempt : snapshots[s].status = "completed" =>
            /\ snapshots[s].inputs_sha256 \in Version /\ snapshots[s].rows \in Version
            /\ Framed(snapshots[s].inputs_sha256, snapshots[s].rows)
    /\ \A s, t \in Attempt :
            /\ snapshots[s].status = "completed" /\ snapshots[t].status = "completed"
            /\ snapshots[s].inputs_sha256 = snapshots[t].inputs_sha256
            => s = t
    /\ \A r \in Attempt : runs[r].status # "none" =>
            runs[r].snapshot \in Attempt /\ snapshots[runs[r].snapshot].status = "completed"
    /\ \A r, q \in Attempt :
            /\ runs[r].status = "completed" /\ runs[q].status = "completed"
            /\ runs[r].snapshot = runs[q].snapshot
            => r = q
    /\ \A r \in Attempt : /\ runs[r].status # "completed" => reports[r] = 0
                          /\ runs[r].status = "completed" =>
                                reports[r] = snapshots[runs[r].snapshot].rows

IInv ==
    /\ HistoryOK
    /\ at \in [Attempt -> Step]
    /\ local \in [Attempt -> Local]
    /\ jobs \in [Job -> JobRow]
    /\ TablesOK
    /\ \A j \in Job : JobOK(j)
    /\ \A a \in Attempt : AttemptOK(a, at[a], local[a])

\* What no step takes back.
Grows ==
    /\ HistoryOK'
    /\ \A i \in DOMAIN history : i \in DOMAIN history' /\ history'[i] = history[i]
    /\ trail \subseteq trail'
    /\ \A s \in Attempt : snapshots[s].status = "completed" => snapshots'[s] = snapshots[s]
    /\ \A r \in Attempt : runs[r].status # "none" =>
            runs'[r].status # "none" /\ runs'[r].snapshot = runs[r].snapshot
    /\ \A r \in Attempt : runs[r].status = "completed" => runs'[r].status = "completed"
    /\ \A j \in Job : /\ jobs[j].attempts <= jobs'[j].attempts
                      /\ jobs'[j] \in JobRow
                      /\ jobs[j].status # "absent" => jobs'[j].snapshot = jobs[j].snapshot

-----------------------------------------------------------------------------
(* Facts about attempts *)

\* An attempt is a job and a rank within its budget.
LEMMA AttemptParts ==
    /\ \A a \in Attempt : a[1] \in Job /\ a[2] \in 1 .. Budget[a[1]] /\ a = <<a[1], a[2]>>
    /\ \A j \in Job, n \in Nat : 1 <= n /\ n <= Budget[j] => <<j, n>> \in Attempt
<1>1. ASSUME NEW a \in Attempt
      PROVE  a[1] \in Job /\ a[2] \in 1 .. Budget[a[1]] /\ a = <<a[1], a[2]>>
  <2>1. PICK j \in Job : a \in {<<j, n>> : n \in 1 .. Budget[j]}
    BY DEF Attempt
  <2>2. PICK n \in 1 .. Budget[j] : a = <<j, n>>
    BY <2>1
  <2>3. QED
    BY <2>2
<1>2. ASSUME NEW j \in Job, NEW n \in Nat, 1 <= n, n <= Budget[j]
      PROVE  <<j, n>> \in Attempt
  <2>1. Budget[j] \in Nat
    BY ContentAssumption
  <2>2. <<j, n>> \in {<<j, k>> : k \in 1 .. Budget[j]}
    BY <1>2, <2>1
  <2>3. QED
    BY <2>2 DEF Attempt
<1>3. QED
  BY <1>1, <1>2

\* An attempt that began belongs to a job that is there.
LEMMA Present ==
    ASSUME IInv, NEW a \in Attempt, at[a] # "idle"
    PROVE  jobs[a[1]].status # "absent" /\ jobs[a[1]] \in JobRow
<1>1. a[1] \in Job /\ a[2] \in Nat /\ a[2] >= 1
  BY AttemptParts, ContentAssumption
<1>2. a[2] <= jobs[a[1]].attempts /\ JobOK(a[1])
  BY <1>1 DEF IInv, AttemptOK
<1>3. QED
  BY <1>1, <1>2 DEF JobOK, JobRow

\* The content of the files is one of their history,
LEMMA FilesThere ==
    ASSUME HistoryOK
    PROVE  /\ Len(history) \in DOMAIN history /\ files \in Version /\ files \in 0 .. MaxVersion
           /\ \A i \in DOMAIN history : i <= Len(history) /\ i \in Nat
           /\ Had(files)
<1>1. Len(history) \in DOMAIN history /\ history[Len(history)] \in Version
  BY DEF HistoryOK
<1>2. \A i \in DOMAIN history : i <= Len(history) /\ i \in Nat
  BY DEF HistoryOK
<1>3. files \in Version /\ Had(files)
  BY <1>1 DEF files, Had
<1>4. QED
  BY <1>1, <1>2, <1>3, ContentAssumption DEF Version

\* a read of it comes after what was there before,
LEMMA ReadNow ==
    ASSUME HistoryOK, NEW c, NEW d
    PROVE  /\ Had(c) => HadThen(c, files)
           /\ HadThen(c, d) /\ files = c => Framed(c, d)
<1>1. Len(history) \in DOMAIN history /\ \A i \in DOMAIN history : i <= Len(history)
  BY FilesThere
<1>2. ASSUME Had(c) PROVE HadThen(c, files)
  BY <1>1, <1>2 DEF Had, HadThen, files
<1>3. ASSUME HadThen(c, d), files = c PROVE Framed(c, d)
  <2>1. PICK i, j \in DOMAIN history : i <= j /\ history[i] = c /\ history[j] = d
    BY <1>3 DEF HadThen
  <2>2. j <= Len(history) /\ history[Len(history)] = c
    BY <1>1, <1>3 DEF files
  <2>3. QED
    BY <2>1, <2>2, <1>1 DEF Framed
<1>4. QED
  BY <1>2, <1>3

\* and the past does not change.
LEMMA PastStays ==
    ASSUME Grows, NEW c, NEW d
    PROVE  /\ Had(c) => Had(c)'
           /\ HadThen(c, d) => HadThen(c, d)'
           /\ Framed(c, d) => Framed(c, d)'
<1>1. \A i \in DOMAIN history : i \in DOMAIN history' /\ history'[i] = history[i]
  BY DEF Grows
<1>2. ASSUME Had(c) PROVE Had(c)'
  BY <1>1, <1>2 DEF Had
<1>3. ASSUME HadThen(c, d) PROVE HadThen(c, d)'
  BY <1>1, <1>3 DEF HadThen
<1>4. ASSUME Framed(c, d) PROVE Framed(c, d)'
  <2>1. PICK i, j, k \in DOMAIN history : /\ i <= j /\ j <= k
                                          /\ history[i] = c /\ history[j] = d /\ history[k] = c
    BY <1>4 DEF Framed
  <2>2. /\ i \in DOMAIN history' /\ j \in DOMAIN history' /\ k \in DOMAIN history'
        /\ history'[i] = c /\ history'[j] = d /\ history'[k] = c
    BY <2>1, <1>1
  <2>3. QED
    BY <2>1, <2>2 DEF Framed
<1>5. QED
  BY <1>2, <1>3, <1>4

\* A result stays backed.
LEMMA StaysBacked ==
    ASSUME IInv, Grows, NEW j \in Job, jobs[j].status # "absent", NEW x, Backed(j, x)
    PROVE  Backed(j, x)'
BY DEF Grows, Backed

\* The variables of an attempt that a step changes.
LEMMA LocalChanges ==
    /\ NoLocal \in Local
    /\ \A l \in Local, c \in Code, b \in BOOLEAN :
            /\ [l EXCEPT !.sources = 0, !.code = c, !.retryable = b] \in Local
            /\ [l EXCEPT !.sources = 0, !.code = c, !.retryable = b].out = l.out
    /\ \A l \in Local, v \in 0 .. MaxVersion :
            /\ [l EXCEPT !.sources = v] \in Local
            /\ [l EXCEPT !.sources = v].sources = v
            /\ [l EXCEPT !.dataset = v] \in Local
            /\ [l EXCEPT !.dataset = v].dataset = v
            /\ [l EXCEPT !.dataset = v].sources = l.sources
    /\ \A x \in Attempt \cup {Nothing} :
            [NoLocal EXCEPT !.out = x] \in Local /\ [NoLocal EXCEPT !.out = x].out = x
<1>1. NoLocal \in Local
  BY ContentAssumption DEF NoLocal, Local, Code
<1>2. 0 \in 0 .. MaxVersion
  BY ContentAssumption
<1>3. QED
  BY <1>1, <1>2 DEF Local

\* An attempt that a step does not concern.
LEMMA OthersStay ==
    ASSUME IInv, Grows, NEW a \in Attempt, at'[a] = at[a], local'[a] = local[a],
           snapshots'[a] = snapshots[a], runs'[a] = runs[a]
    PROVE  AttemptOK(a, at[a], local[a])'
<1>1. AttemptOK(a, at[a], local[a])
  BY DEF IInv
<1>2. a[1] \in Job /\ a[2] \in Nat
  BY AttemptParts, ContentAssumption
<1>3. at[a] # "idle" => a[2] <= jobs'[a[1]].attempts
  BY <1>1, <1>2 DEF AttemptOK, Grows, IInv, JobRow
<1>4. at[a] \in {"trace", "succeed"} => Backed(a[1], local[a].out)'
  BY <1>1, <1>2, Present, StaysBacked DEF AttemptOK
<1>5. at[a] \in Importing \ {"reject"} => Had(local[a].sources)'
  BY <1>1, PastStays DEF AttemptOK
<1>6. /\ at[a] = "rehash" => HadThen(local[a].sources, local[a].dataset)'
      /\ at[a] \in {"open", "commit"} => Framed(local[a].sources, local[a].dataset)'
  BY <1>1, PastStays DEF AttemptOK
<1>7. at[a] = "publish" => local[a].dataset = snapshots'[runs'[a].snapshot].rows
  <2>1. at[a] = "publish" => /\ local[a].dataset = snapshots[runs[a].snapshot].rows
                             /\ runs[a].snapshot \in Attempt
                             /\ snapshots[runs[a].snapshot].status = "completed"
    BY <1>1 DEF AttemptOK, IInv, TablesOK
  <2>2. QED
    BY <2>1 DEF Grows
<1>8. at[a] = "succeed" => <<a, local[a].out>> \in trail'
  BY <1>1 DEF AttemptOK, Grows
<1>9. at[a] \in {"engine", "publish"} => runs'[a].snapshot = jobs'[a[1]].snapshot
  BY <1>1, <1>2, Present DEF AttemptOK, Grows
<1> HIDE DEF Importing, Analysing
<1>10. QED
  BY <1>1, <1>3, <1>4, <1>5, <1>6, <1>7, <1>8, <1>9 DEF AttemptOK

\* A job that a step does not concern.
LEMMA JobsStay ==
    ASSUME IInv, Grows, NEW j \in Job, jobs'[j] = jobs[j]
    PROVE  JobOK(j)'
<1>1. JobOK(j)
  BY DEF IInv
<1>2. jobs[j].status = "succeeded" => Backed(j, jobs[j].result)'
  BY <1>1, StaysBacked DEF JobOK
<1>3. QED
  BY <1>1, <1>2 DEF JobOK, Grows

-----------------------------------------------------------------------------
(* Steps that only move an attempt on *)

\* A step that only moves attempt a, to a place whose promises hold, keeps the invariant;
LEMMA MoveKeepsIt ==
    ASSUME IInv, UNCHANGED <<world, jobs, tables>>, trail \subseteq trail',
           NEW a \in Attempt, NEW step, NEW l,
           at' = [at EXCEPT ![a] = step], local' = [local EXCEPT ![a] = l],
           AttemptOK(a, step, l)'
    PROVE  IInv'
<1>1. /\ UNCHANGED <<history, jobs, snapshots, runs, reports>>
      /\ step \in Step /\ l \in Local
  BY DEF world, tables, AttemptOK
<1>2. Grows
  BY <1>1 DEF Grows, IInv, HistoryOK, JobRow
<1>3. \A j \in Job : JobOK(j)'
  BY <1>1, <1>2, JobsStay
<1>4. ASSUME NEW b \in Attempt PROVE AttemptOK(b, at[b], local[b])'
  <2>1. CASE b = a
    BY <2>1 DEF IInv
  <2>2. CASE b # a
    <3>1. at'[b] = at[b] /\ local'[b] = local[b]
      BY <2>2 DEF IInv
    <3>2. QED
      BY <3>1, <1>1, <1>2, OthersStay
  <2>3. QED
    BY <2>1, <2>2
<1>5. TablesOK'
  BY <1>1 DEF IInv, TablesOK, Framed
<1>6. /\ HistoryOK' /\ jobs' \in [Job -> JobRow]
      /\ at' \in [Attempt -> Step] /\ local' \in [Attempt -> Local]
  BY <1>1 DEF IInv, HistoryOK
<1>7. QED
  BY <1>3, <1>4, <1>5, <1>6 DEF IInv

\* Where an attempt may always go on to, whatever it holds.
LEMMA WaysOut ==
    ASSUME IInv, UNCHANGED <<world, jobs, tables>>, NEW a \in Attempt, at[a] # "idle", NEW l \in Local
    PROVE  /\ AttemptOK(a, "over", l)' /\ AttemptOK(a, "fail", l)' /\ AttemptOK(a, "refuse", l)'
           /\ at[a] \in Importing => AttemptOK(a, "reject", l)'
           /\ at[a] \in Analysing => AttemptOK(a, "abandon", l)'
<1>1. AttemptOK(a, at[a], local[a]) /\ UNCHANGED <<history, jobs, snapshots, runs, reports>>
  BY DEF IInv, world, tables
<1>2. QED
  BY <1>1 DEF AttemptOK, Importing, Analysing, Step

\* so does one that ends the attempt.
LEMMA StopKeepsIt ==
    ASSUME IInv, UNCHANGED <<world, jobs, tables>>, trail \subseteq trail',
           NEW a \in Attempt, at[a] # "idle", Stops(a)
    PROVE  IInv'
BY WaysOut, MoveKeepsIt, LocalChanges DEF Stops, Goes

\* The snapshot found is one that is sealed, and none is found only if there is none.
LEMMA FoundSnapshot ==
    ASSUME NEW c
    PROVE  \/ find_completed_snapshot(c) = Nothing /\ ~\E s \in Attempt : Sealed(s, c)
           \/ find_completed_snapshot(c) \in Attempt /\ Sealed(find_completed_snapshot(c), c)
<1>1. CASE \E s \in Attempt : Sealed(s, c)
  <2> DEFINE P(s) == Sealed(s, c)
             x == CHOOSE s \in Attempt : P(s)
  <2>1. x \in Attempt /\ P(x)
    <3> HIDE DEF P
    <3> QED
      BY <1>1 DEF P
  <2>2. QED
    BY <1>1, <2>1 DEF find_completed_snapshot
<1>2. QED
  BY <1>1 DEF find_completed_snapshot

\* The same of a completed run.
LEMMA FoundRun ==
    ASSUME NEW s
    PROVE  \/ find_completed_run(s) = Nothing /\ ~\E r \in Attempt : Completed(r, s)
           \/ find_completed_run(s) \in Attempt /\ Completed(find_completed_run(s), s)
<1>1. CASE \E r \in Attempt : Completed(r, s)
  <2> DEFINE P(r) == Completed(r, s)
             x == CHOOSE r \in Attempt : P(r)
  <2>1. x \in Attempt /\ P(x)
    <3> HIDE DEF P
    <3> QED
      BY <1>1 DEF P
  <2>2. QED
    BY <1>1, <2>1 DEF find_completed_run
<1>2. QED
  BY <1>1 DEF find_completed_run

\* The reads of an import, up to its transaction.
ImportMove(a) ==
    \/ BeginImport(a) \/ ValidateFiles(a) \/ FindSnapshot(a) \/ LoadSources(a)
    \/ HashAgain(a) \/ OpenSnapshot(a) \/ SealConflict(a)

\* The steps of an import that touch no table,
LEMMA ImportMovesKeepIt ==
    ASSUME IInv, NEW a \in Attempt, ImportMove(a)
    PROVE  IInv'
<1>0. PICK l : l = local[a]
  OBVIOUS
<1> USE <1>0
<1>1. /\ AttemptOK(a, at[a], l) /\ l \in Local
      /\ HistoryOK /\ files \in Version /\ files \in 0 .. MaxVersion
      /\ a[1] \in Job
  BY AttemptParts, FilesThere DEF IInv
<1>2. /\ UNCHANGED <<world, jobs, tables>> /\ trail \subseteq trail'
      /\ UNCHANGED <<history, jobs, snapshots, runs, reports, trail>>
      /\ at[a] # "idle"
  BY DEF ImportMove, BeginImport, ValidateFiles, FindSnapshot, LoadSources, HashAgain,
         OpenSnapshot, SealConflict, world, tables
<1>3. CASE BeginImport(a)
  <2>1. CASE Holds(a, "validate", [l EXCEPT !.sources = files])
    <3>1. PICK m : m = [l EXCEPT !.sources = files]
      OBVIOUS
    <3>2. m \in Local /\ m.sources = files
      BY <3>1, <1>1, LocalChanges
    <3>3. Holds(a, "validate", m)
      BY <3>1, <2>1
    <3>4. m.sources \in Version /\ Had(m.sources)'
      BY <3>2, <1>1, <1>2, FilesThere DEF Had
    <3>5. at[a] = "begin" /\ a[1] \in ImportJob
      BY <1>3 DEF BeginImport
    <3>6. AttemptOK(a, "validate", m)'
      BY <3>2, <3>4, <3>5, <1>1, <1>2 DEF AttemptOK, Importing, Analysing, Step
    <3>7. QED
      BY <3>3, <3>6, <1>2, MoveKeepsIt DEF Holds, Goes
  <2>2. CASE LossIsKnown(a)
    BY <2>2, <1>2, StopKeepsIt DEF LossIsKnown
  <2>3. QED
    BY <2>1, <2>2, <1>3 DEF BeginImport
<1>4. ASSUME NEW step, NEW code \in Code, NEW b \in BOOLEAN,
             step = "reject", at[a] \in Importing, Fails(a, step, code, b)
      PROVE  IInv'
  <2>1. PICK m : m = [l EXCEPT !.sources = 0, !.code = code, !.retryable = b]
    OBVIOUS
  <2>2. m \in Local /\ Holds(a, "reject", m)
    BY <2>1, <1>1, <1>4, LocalChanges DEF Fails
  <2>3. QED
    BY <2>2, <1>2, <1>4, WaysOut, MoveKeepsIt DEF Holds, Goes
<1>5. ASSUME NEW m \in Local, NEW step, Holds(a, step, m), AttemptOK(a, step, m)' PROVE IInv'
  BY <1>5, <1>2, MoveKeepsIt DEF Holds, Goes
<1>6. ASSUME NEW step, Goes(a, step), UNCHANGED local, AttemptOK(a, step, l)' PROVE IInv'
  <2>1. local' = [local EXCEPT ![a] = l]
    BY <1>6 DEF IInv
  <2>2. QED
    BY <2>1, <1>2, <1>6, MoveKeepsIt DEF Goes
<1>7. CASE ValidateFiles(a)
  <2>1. at[a] = "validate"
    BY <1>7 DEF ValidateFiles
  <2>2. AttemptOK(a, "find", l)'
    BY <2>1, <1>1, <1>2 DEF AttemptOK, Importing, Analysing, Step, Had
  <2>3. QED
    BY <2>1, <2>2, <1>4, <1>6, <1>7 DEF ValidateFiles, Importing, Code
<1>8. ASSUME NEW x \in Attempt, at[a] \in {"find", "commit"}, snapshots[x].status = "completed",
             Returns(a, x)
      PROVE  IInv'
  <2> HIDE <1>0
  <2>1. PICK m : m = [NoLocal EXCEPT !.out = x]
    OBVIOUS
  <2>2. m \in Local /\ m.out = x
    BY <2>1, LocalChanges
  <2>3. a[1] \in ImportJob /\ a[1] \notin AnalysisJob
    BY <1>1, <1>8, ContentAssumption DEF AttemptOK, Importing
  <2>4. AttemptOK(a, "trace", m)'
    BY <2>2, <2>3, <1>1, <1>2, <1>8 DEF AttemptOK, Backed, Importing, Analysing, Step
  <2>5. QED
    BY <2>1, <2>2, <2>4, <1>5, <1>8 DEF Returns
<1>9. CASE FindSnapshot(a)
  <2> DEFINE x == find_completed_snapshot(l.sources)
  <2>1. /\ at[a] = "find"
        /\ IF x = Nothing THEN Goes(a, "load") /\ UNCHANGED local ELSE Returns(a, x)
    BY <1>9 DEF FindSnapshot
  <2>2. CASE x = Nothing
    <3>1. AttemptOK(a, "load", l)'
      BY <2>1, <1>1, <1>2 DEF AttemptOK, Importing, Analysing, Step, Had
    <3>2. QED
      BY <3>1, <2>1, <2>2, <1>6
  <2>3. CASE x # Nothing
    <3>1. x \in Attempt /\ snapshots[x].status = "completed"
      BY <2>3, FoundSnapshot DEF Sealed
    <3> HIDE DEF x
    <3>2. QED
      BY <3>1, <2>1, <2>3, <1>8
  <2>4. QED
    BY <2>2, <2>3
<1>10. CASE SealConflict(a)
  <2> DEFINE x == find_completed_snapshot(l.sources)
  <2>1. at[a] = "commit" /\ Returns(a, x)
    BY <1>10 DEF SealConflict
  <2>2. x \in Attempt /\ snapshots[x].status = "completed"
    BY <1>10, FoundSnapshot DEF SealConflict, Sealed
  <2> HIDE DEF x
  <2>3. QED
    BY <2>1, <2>2, <1>8
<1>11. CASE LoadSources(a)
  <2>1. at[a] = "load"
    BY <1>11 DEF LoadSources
  <2>2. CASE files \in Unreadable
    BY <2>1, <2>2, <1>4, <1>11 DEF LoadSources, Importing, Code
  <2>3. CASE files \notin Unreadable
    <3>1. PICK m : m = [l EXCEPT !.dataset = files]
      OBVIOUS
    <3>2. m \in Local /\ m.dataset = files /\ m.sources = l.sources
      BY <3>1, <1>1, LocalChanges
    <3>3. AttemptOK(a, "rehash", m)'
      <4>1. l.sources \in Version /\ Had(l.sources)
        BY <2>1, <1>1 DEF AttemptOK, Importing
      <4>2. Had(m.sources)' /\ HadThen(m.sources, m.dataset)'
        BY <4>1, <3>2, <1>1, <1>2, ReadNow DEF Had, HadThen
      <4>3. QED
        BY <4>1, <4>2, <3>2, <2>1, <1>1, <1>2 DEF AttemptOK, Importing, Analysing, Step
    <3>4. Holds(a, "rehash", m)
      BY <3>1, <2>3, <1>11 DEF LoadSources
    <3>5. QED
      BY <3>2, <3>3, <3>4, <1>5
  <2>4. QED
    BY <2>2, <2>3
<1>12. CASE HashAgain(a)
  <2>1. at[a] = "rehash"
    BY <1>12 DEF HashAgain
  <2>2. CASE files # l.sources
    BY <2>1, <2>2, <1>4, <1>12 DEF HashAgain, Importing, Code
  <2>3. CASE files = l.sources
    \* What was loaded lies between two hashes that are the same.
    <3>1. Framed(l.sources, l.dataset)' /\ Had(l.sources)' /\ l.dataset \in Version
      BY <2>1, <2>3, <1>1, <1>2, ReadNow DEF AttemptOK, Importing, Framed, Had
    <3>2. AttemptOK(a, "open", l)'
      BY <3>1, <2>1, <1>1, <1>2 DEF AttemptOK, Importing, Analysing, Step
    <3>3. QED
      BY <3>2, <2>3, <1>6, <1>12 DEF HashAgain
  <2>4. QED
    BY <2>2, <2>3
<1>13. CASE OpenSnapshot(a)
  <2>1. at[a] = "open"
    BY <1>13 DEF OpenSnapshot
  <2>2. AttemptOK(a, "commit", l)'
    BY <2>1, <1>1, <1>2 DEF AttemptOK, Importing, Analysing, Step, Had, Framed
  <2>3. \/ Fails(a, "reject", "connection_revoked", FALSE)
        \/ Fails(a, "reject", "currency_mismatch_with_store", FALSE)
        \/ Goes(a, "commit") /\ UNCHANGED local
    BY <1>13 DEF OpenSnapshot
  <2>4. QED
    BY <2>1, <2>2, <2>3, <1>4, <1>6 DEF Importing, Code
<1>14. QED
  BY <1>3, <1>7, <1>9, <1>10, <1>11, <1>12, <1>13 DEF ImportMove

\* An error is worth another try or it is not.
LEMMA RetryableIsBoolean ==
    ASSUME NEW cause
    PROVE  Retryable(cause) \in BOOLEAN
<1>1. CASE cause \in {"unanswered", "transient", "unknown"}
  <2>1. Retryable(cause) = TRUE
    BY <1>1 DEF Retryable
  <2>2. QED
    BY <2>1
<1>2. CASE cause \notin {"unanswered", "transient", "unknown"}
  <2>1. Retryable(cause) = FALSE
    BY <1>2 DEF Retryable
  <2>2. QED
    BY <2>1
<1>3. QED
  BY <1>1, <1>2

\* The reads of an analysis, the checkpoints at the end of a handler, exceptions, crashes.
OtherMove(a) ==
    \/ BeginAnalysis(a) \/ FindRun(a) \/ RunEngine(a) \/ CompleteConflict(a)
    \/ TraceSuccess(a) \/ TraceRefusal(a) \/ Crash(a)
    \/ \E cause \in Cause : Raise(a, cause)

\* and those of an analysis, traces, errors and crashes.
LEMMA OtherMovesKeepIt ==
    ASSUME IInv, NEW a \in Attempt, OtherMove(a)
    PROVE  IInv'
<1>0. PICK l : l = local[a]
  OBVIOUS
<1>1. /\ AttemptOK(a, at[a], l) /\ l \in Local
      /\ a[1] \in Job
  BY <1>0, AttemptParts, ContentAssumption DEF IInv
<1>2. /\ UNCHANGED <<world, jobs, tables>> /\ trail \subseteq trail'
      /\ UNCHANGED <<history, jobs, snapshots, runs, reports>>
      /\ at[a] # "idle"
  BY DEF OtherMove, BeginAnalysis, FindRun, RunEngine, CompleteConflict, TraceSuccess, TraceRefusal,
         Crash, Raise, Alive, world, tables
<1>3. ASSUME NEW m \in Local, NEW step, Holds(a, step, m), AttemptOK(a, step, m)' PROVE IInv'
  BY <1>3, <1>2, MoveKeepsIt DEF Holds, Goes
<1>4. ASSUME NEW step, Goes(a, step), UNCHANGED local, AttemptOK(a, step, l)' PROVE IInv'
  <2>1. local' = [local EXCEPT ![a] = l]
    BY <1>0, <1>4 DEF IInv
  <2>2. QED
    BY <2>1, <1>2, <1>4, MoveKeepsIt DEF Goes
<1>5. CASE Stops(a)
  BY <1>2, <1>5, StopKeepsIt
<1>6. ASSUME NEW step, NEW code \in Code, NEW b \in BOOLEAN,
             step = "fail" \/ (step = "abandon" /\ at[a] \in Analysing), Fails(a, step, code, b)
      PROVE  IInv'
  <2>1. PICK m : m = [l EXCEPT !.sources = 0, !.code = code, !.retryable = b]
    OBVIOUS
  <2>2. m \in Local
    BY <2>1, <1>1, LocalChanges
  <2>3. Holds(a, step, m)
    BY <2>1, <1>0, <1>6 DEF Fails
  <2>4. AttemptOK(a, step, m)'
    BY <2>2, <1>2, <1>6, WaysOut
  <2>5. QED
    BY <2>2, <2>3, <2>4, <1>3
<1>7. CASE BeginAnalysis(a)
  <2>1. at[a] = "begin" /\ a[1] \in AnalysisJob
    BY <1>7 DEF BeginAnalysis
  <2>2. AttemptOK(a, "lookup", l)'
    BY <2>1, <1>1, <1>2 DEF AttemptOK, Importing, Analysing, Step
  <2>3. QED
    BY <2>2, <1>4, <1>5, <1>7 DEF BeginAnalysis, Checkpoint, LossIsKnown
<1>8. CASE FindRun(a)
  <2> DEFINE x == find_completed_run(jobs[a[1]].snapshot)
  <2>1. /\ at[a] = "lookup"
        /\ IF x = Nothing THEN Goes(a, "start") /\ UNCHANGED local ELSE Returns(a, x)
    BY <1>8 DEF FindRun
  <2>2. x \in Attempt \cup {Nothing}
        /\ (x # Nothing => runs[x].status = "completed" /\ runs[x].snapshot = jobs[a[1]].snapshot)
    BY FoundRun DEF Completed
  <2> HIDE DEF x
  <2>3. CASE x = Nothing
    <3>1. AttemptOK(a, "start", l)'
      BY <2>1, <1>1, <1>2 DEF AttemptOK, Importing, Analysing, Step
    <3>2. QED
      BY <3>1, <2>1, <2>3, <1>4
  <2>4. CASE x # Nothing
    <3>1. PICK m : m = [NoLocal EXCEPT !.out = x]
      OBVIOUS
    <3>2. m \in Local /\ m.out = x
      BY <3>1, <2>2, LocalChanges
    <3>3. a[1] \in AnalysisJob /\ a[1] \notin ImportJob
      BY <2>1, <1>1, ContentAssumption DEF AttemptOK, Analysing
    <3>4. Backed(a[1], m.out)'
      BY <3>2, <3>3, <2>2, <2>4, <1>2 DEF Backed
    <3>5. AttemptOK(a, "trace", m)'
      BY <3>2, <3>4, <2>1, <1>1, <1>2 DEF AttemptOK, Importing, Analysing, Step
    <3>6. QED
      BY <3>1, <3>2, <3>5, <2>1, <2>4, <1>3 DEF Returns
  <2>5. QED
    BY <2>3, <2>4
<1>9. CASE RunEngine(a)
  <2>1. PICK c : c = snapshots[runs[a].snapshot].rows
    OBVIOUS
  <2>2. at[a] = "engine" /\ runs[a].status # "none"
    BY <1>1, <1>9 DEF RunEngine, AttemptOK
  <2>3. c \in Version /\ c \in 0 .. MaxVersion
    BY <2>1, <2>2 DEF IInv, TablesOK, Version
  <2>4. CASE c \in Insufficient
    BY <2>1, <2>2, <2>4, <1>6, <1>9 DEF RunEngine, Code, Analysing
  <2>5. CASE c \notin Insufficient
    <3>1. PICK m : m = [l EXCEPT !.dataset = c]
      OBVIOUS
    <3>2. m \in Local /\ m.dataset = c
      BY <3>1, <2>3, <1>1, LocalChanges
    <3>3. Holds(a, "publish", m)
      BY <3>1, <2>1, <2>5, <1>0, <1>9 DEF RunEngine
    <3>4. AttemptOK(a, "publish", m)'
      BY <3>2, <2>1, <2>2, <1>1, <1>2 DEF AttemptOK, Importing, Analysing, Step
    <3>5. QED
      BY <3>2, <3>3, <3>4, <1>3
  <2>6. QED
    BY <2>4, <2>5
<1>10. CASE CompleteConflict(a)
  <2>1. at[a] = "publish" /\ Fails(a, "abandon", "sqlstate_23505", Retryable("constraint"))
    BY <1>10 DEF CompleteConflict
  <2>2. "sqlstate_23505" \in Code /\ Retryable("constraint") \in BOOLEAN /\ at[a] \in Analysing
    BY <2>1, RetryableIsBoolean DEF Code, Analysing
  <2>3. QED
    BY <2>1, <2>2, <1>6
<1>11. CASE TraceSuccess(a)
  <2>1. CASE Goes(a, "succeed") /\ UNCHANGED local /\ trail' = trail \cup {<<a, local[a].out>>}
    <3>1. at[a] = "trace" /\ <<a, l.out>> \in trail'
      BY <2>1, <1>0, <1>11 DEF TraceSuccess
    <3>2. Backed(a[1], l.out)'
      BY <3>1, <1>1, <1>2 DEF AttemptOK, Backed
    <3>3. AttemptOK(a, "succeed", l)'
      BY <3>1, <3>2, <1>1, <1>2 DEF AttemptOK, Importing, Analysing, Step
    <3>4. QED
      BY <3>3, <2>1, <1>4
  <2>2. CASE LossIsKnown(a)
    BY <2>2, <1>5 DEF LossIsKnown
  <2>3. QED
    BY <2>1, <2>2, <1>11 DEF TraceSuccess
<1>12. CASE TraceRefusal(a)
  <2>1. AttemptOK(a, "fail", l)'
    BY <1>1, <1>2, WaysOut
  <2>2. QED
    BY <2>1, <1>4, <1>5, <1>12 DEF TraceRefusal, Checkpoint, LossIsKnown
<1>13. CASE Crash(a)
  BY <1>5, <1>13 DEF Crash
<1>14. ASSUME NEW retryable \in BOOLEAN,
              \/ at[a] \in {"engine", "publish"} /\ Fails(a, "abandon", "raised", retryable)
              \/ Goes(a, "fail") /\ UNCHANGED local
              \/ Fails(a, "fail", "raised", retryable),
              at[a] \notin {"idle", "over"}
       PROVE  IInv'
  <2>1. AttemptOK(a, "fail", l)'
    BY <1>1, <1>2, WaysOut
  <2>3. "raised" \in Code
    BY DEF Code
  <2>4. CASE at[a] \in {"engine", "publish"} /\ Fails(a, "abandon", "raised", retryable)
    BY <2>3, <2>4, <1>6 DEF Analysing
  <2>5. CASE Goes(a, "fail") /\ UNCHANGED local
    BY <2>1, <2>5, <1>4
  <2>6. CASE Fails(a, "fail", "raised", retryable)
    <3>1. PICK m : m = [l EXCEPT !.sources = 0, !.code = "raised", !.retryable = retryable]
      OBVIOUS
    <3>2. m \in Local
      BY <3>1, <2>3, <1>1, LocalChanges
    <3>3. Holds(a, "fail", m)
      BY <3>1, <2>6, <1>0 DEF Fails
    <3>4. AttemptOK(a, "fail", m)'
      BY <3>2, <1>2, WaysOut
    <3>5. QED
      BY <3>2, <3>3, <3>4, <1>3
  <2>7. QED
    BY <1>14, <2>4, <2>5, <2>6
<1>15. ASSUME NEW cause \in Cause, Raise(a, cause) PROVE IInv'
  <2>1. \/ at[a] \in {"engine", "publish"} /\ Fails(a, "abandon", "raised", Retryable(cause))
        \/ Goes(a, "fail") /\ UNCHANGED local
        \/ Fails(a, "fail", "raised", Retryable(cause))
    BY <1>15 DEF Raise
  <2>2. at[a] \notin {"idle", "over"}
    BY <1>15 DEF Raise, Alive
  <2>3. Retryable(cause) \in BOOLEAN
    BY RetryableIsBoolean
  <2>4. QED
    BY <2>1, <2>2, <2>3, <1>14
<1>16. QED
  BY <1>7, <1>8, <1>9, <1>10, <1>11, <1>12, <1>13, <1>15 DEF OtherMove

-----------------------------------------------------------------------------
(* Steps that write a job *)

\* The row of one job changes; its attempts move on as they may.
LEMMA RowKeepsIt ==
    ASSUME IInv, Grows, UNCHANGED <<world, tables, trail>>, NEW j \in Job,
           \A i \in Job \ {j} : jobs'[i] = jobs[i],
           jobs' \in [Job -> JobRow], JobOK(j)',
           NEW a \in Attempt, \A b \in Attempt \ {a} : at'[b] = at[b] /\ local'[b] = local[b],
           at' \in [Attempt -> Step], local' \in [Attempt -> Local],
           AttemptOK(a, at[a], local[a])'
    PROVE  IInv'
<1>1. UNCHANGED <<history, snapshots, runs, reports>>
  BY DEF world, tables
<1>2. \A i \in Job : JobOK(i)'
  BY JobsStay
<1>3. ASSUME NEW b \in Attempt PROVE AttemptOK(b, at[b], local[b])'
  <2>1. CASE b = a
    BY <2>1
  <2>2. CASE b # a
    <3>1. at'[b] = at[b] /\ local'[b] = local[b]
      BY <2>2
    <3>2. QED
      BY <3>1, <1>1, OthersStay
  <2>3. QED
    BY <2>1, <2>2
<1>4. TablesOK'
  BY <1>1 DEF IInv, TablesOK, Framed
<1>5. HistoryOK'
  BY <1>1 DEF IInv, HistoryOK
<1>6. QED
  BY <1>1, <1>2, <1>3, <1>4, <1>5 DEF IInv

\* A row that is back in the queue, or failed, keeps what Grows asks of it.
LEMMA EndedRow ==
    ASSUME IInv, NEW j \in Job, jobs[j].status = "running", NEW again, NEW code \in Code
    PROVE  LET row == Ended(j, again, code)
           IN  /\ row \in JobRow
               /\ row.attempts = jobs[j].attempts
               /\ row.snapshot = jobs[j].snapshot
               /\ row.status \in {"queued", "failed"}
               /\ row.status = "queued" => jobs[j].attempts < Budget[j]
<1>1. jobs[j] \in JobRow
  BY DEF IInv
<1>2. QED
  BY <1>1 DEF Ended, JobRow

\* Attempt a stops, or no attempt moves.
StopsOrStays(a) == UNCHANGED <<at, local>> \/ (Stops(a) /\ at[a] # "idle")

\* One job ends an attempt without success, and one attempt may stop.
LEMMA EndingKeepsIt ==
    ASSUME IInv, UNCHANGED <<world, tables, trail>>, NEW j \in Job, jobs[j].status = "running",
           NEW again, NEW code \in Code, jobs' = [jobs EXCEPT ![j] = Ended(j, again, code)],
           NEW a \in Attempt, StopsOrStays(a)
    PROVE  IInv'
<1>1. PICK row : row = Ended(j, again, code)
  OBVIOUS
<1>2. /\ row \in JobRow
      /\ row.attempts = jobs[j].attempts
      /\ row.snapshot = jobs[j].snapshot
      /\ row.status \in {"queued", "failed"}
      /\ row.status = "queued" => jobs[j].attempts < Budget[j]
  BY <1>1, EndedRow
<1>3. jobs' = [jobs EXCEPT ![j] = row]
  BY <1>1
<1>4. jobs \in [Job -> JobRow] /\ jobs'[j] = row /\ \A i \in Job \ {j} : jobs'[i] = jobs[i]
  BY <1>3 DEF IInv
<1>5. UNCHANGED <<history, snapshots, runs, reports, trail>> /\ HistoryOK
  BY DEF world, tables, IInv
<1>6. Grows
  BY <1>2, <1>4, <1>5 DEF Grows, HistoryOK, JobRow
<1>7. JobOK(j)'
  BY <1>2, <1>4, <1>5 DEF IInv, JobOK
<1>8. jobs' \in [Job -> JobRow]
  BY <1>2, <1>3, <1>4
<1>9. CASE UNCHANGED <<at, local>>
  <2>1. AttemptOK(a, at[a], local[a])'
    BY <1>5, <1>6, <1>9, OthersStay
  <2>2. QED
    BY <2>1, <1>4, <1>6, <1>7, <1>8, <1>9, RowKeepsIt DEF IInv
<1>10. CASE Stops(a) /\ at[a] # "idle"
  <2>1. /\ at' = [at EXCEPT ![a] = "over"] /\ local' = [local EXCEPT ![a] = NoLocal]
        /\ at \in [Attempt -> Step] /\ local \in [Attempt -> Local]
        /\ "over" \in Step /\ NoLocal \in Local
    BY <1>10, LocalChanges DEF Stops, Goes, IInv, Step
  <2>2. a[2] <= jobs[a[1]].attempts /\ a[1] \in Job
    BY <1>10, AttemptParts DEF IInv, AttemptOK
  <2>3. a[2] <= jobs'[a[1]].attempts
    BY <2>2, <1>2, <1>4
  <2>4. AttemptOK(a, "over", NoLocal)'
    BY <2>1, <2>3 DEF AttemptOK, Importing, Analysing
  <2>5. at'[a] = "over" /\ local'[a] = NoLocal
    BY <2>1
  <2>6. AttemptOK(a, at[a], local[a])'
    BY <2>4, <2>5
  <2>7. QED
    BY <2>1, <2>6, <1>4, <1>6, <1>7, <1>8, RowKeepsIt
<1>11. QED
  BY <1>9, <1>10 DEF StopsOrStays

\* The recovery of a job whose lease ended: its attempt goes on unaware.
LEMMA RecoverJobKeepsIt ==
    ASSUME IInv, NEW j \in Job, RecoverJob(j)
    PROVE  IInv'
<1>1. "lease_expired" \in Code /\ <<j, 1>> \in Attempt
  BY AttemptParts, ContentAssumption DEF Code
<1>2. PICK again : again = TRUE
  OBVIOUS
<1>3. PICK code : code = "lease_expired"
  OBVIOUS
<1>4. jobs' = [jobs EXCEPT ![j] = Ended(j, again, code)]
  BY <1>2, <1>3 DEF RecoverJob
<1>5. /\ UNCHANGED <<world, tables, trail>> /\ UNCHANGED <<at, local>>
      /\ jobs[j].status = "running"
  BY DEF RecoverJob
<1>6. PICK a \in Attempt : a = <<j, 1>>
  BY <1>1
<1>7. code \in Code /\ StopsOrStays(a)
  BY <1>1, <1>3, <1>5 DEF StopsOrStays
<1>8. QED
  BY <1>4, <1>5, <1>6, <1>7, EndingKeepsIt

\* A failure that is published,
LEMMA MarkFailedKeepsIt ==
    ASSUME IInv, NEW a \in Attempt, MarkFailed(a)
    PROVE  IInv'
<1>1. at[a] = "fail" /\ Stops(a) /\ UNCHANGED <<world, tables, trail>>
  BY DEF MarkFailed
<1>2. CASE Owner(a)
  <2>1. PICK code : code = local[a].code
    OBVIOUS
  <2>2. PICK again : again = local[a].retryable
    OBVIOUS
  <2>3. code \in Code /\ a[1] \in Job
    BY <2>1, AttemptParts DEF IInv, Local
  <2>4. jobs' = [jobs EXCEPT ![a[1]] = Ended(a[1], again, code)] /\ jobs[a[1]].status = "running"
    BY <2>1, <2>2, <1>2 DEF MarkFailed, Owner
  <2>5. StopsOrStays(a)
    BY <1>1 DEF StopsOrStays
  <2>6. QED
    BY <2>3, <2>4, <2>5, <1>1, EndingKeepsIt
<1>3. CASE ~Owner(a)
  BY <1>1, <1>3, StopKeepsIt DEF MarkFailed
<1>4. QED
  BY <1>2, <1>3

\* and a success: what it names is there.
LEMMA MarkSucceededKeepsIt ==
    ASSUME IInv, NEW a \in Attempt, MarkSucceeded(a)
    PROVE  IInv'
<1>1. /\ at[a] = "succeed" /\ Stops(a) /\ UNCHANGED <<world, tables, trail>>
      /\ UNCHANGED <<history, snapshots, runs, reports, trail>> /\ HistoryOK
  BY DEF MarkSucceeded, world, tables, IInv
<1>2. CASE Owner(a)
  <2>1. PICK x : x = local[a].out
    OBVIOUS
  <2>2. PICK j : j = a[1]
    OBVIOUS
  <2>3. j \in Job /\ a = <<j, a[2]>> /\ jobs[j] \in JobRow
    BY <2>2, AttemptParts DEF IInv
  <2>4. x \in Attempt /\ Backed(j, x) /\ <<a, x>> \in trail
    BY <2>1, <2>2, <1>1 DEF IInv, AttemptOK, Backed
  <2>5. jobs[j].status = "running" /\ jobs[j].attempts = a[2]
    BY <2>2, <1>2 DEF Owner
  <2>6. PICK row : row = [jobs[j] EXCEPT !.status = "succeeded", !.result = x]
    OBVIOUS
  <2>7. /\ row \in JobRow /\ row.status = "succeeded" /\ row.result = x
        /\ row.attempts = jobs[j].attempts /\ row.snapshot = jobs[j].snapshot
    BY <2>3, <2>4, <2>6 DEF JobRow
  <2>8. jobs' = [jobs EXCEPT ![j] = row]
    BY <2>1, <2>2, <2>3, <2>6, <1>2 DEF MarkSucceeded, IInv
  <2>9. /\ jobs'[j] = row /\ \A i \in Job \ {j} : jobs'[i] = jobs[i]
        /\ jobs' \in [Job -> JobRow]
    BY <2>3, <2>7, <2>8 DEF IInv
  <2>10. Grows
    <3>1. HistoryOK'
      BY <1>1 DEF IInv, HistoryOK
    <3>2. \A i \in Job : /\ jobs[i].attempts <= jobs'[i].attempts
                        /\ jobs'[i].snapshot = jobs[i].snapshot
      BY <2>7, <2>9 DEF IInv, JobRow
    <3>3. QED
      BY <3>1, <3>2, <2>9, <1>1 DEF Grows
  <2>11. Backed(j, x)'
    BY <2>3, <2>4, <2>5, <2>10, StaysBacked
  <2>12. JobOK(j)
    BY <2>3 DEF IInv
  <2>13. <<<<j, row.attempts>>, x>> \in trail'
    BY <2>3, <2>4, <2>5, <2>7, <1>1
  <2>14. JobOK(j)'
    BY <2>5, <2>7, <2>9, <2>11, <2>12, <2>13, <1>1 DEF JobOK
  <2>15. /\ at' = [at EXCEPT ![a] = "over"] /\ local' = [local EXCEPT ![a] = NoLocal]
         /\ at \in [Attempt -> Step] /\ local \in [Attempt -> Local]
         /\ "over" \in Step /\ NoLocal \in Local
    BY <1>1, LocalChanges DEF Stops, Goes, IInv, Step
  <2>16. a[2] <= jobs'[a[1]].attempts
    BY <2>2, <2>3, <2>5, <2>7, <2>9 DEF JobRow
  <2>20. AttemptOK(a, "over", NoLocal)'
    BY <2>15, <2>16 DEF AttemptOK, Importing, Analysing
  <2>17. at'[a] = "over" /\ local'[a] = NoLocal
    BY <2>15
  <2>18. AttemptOK(a, at[a], local[a])'
    BY <2>20, <2>17
  <2>19. QED
    BY <2>3, <2>9, <2>10, <2>14, <2>15, <2>18, <1>1, RowKeepsIt
<1>3. CASE ~Owner(a)
  BY <1>1, <1>3, StopKeepsIt DEF MarkSucceeded
<1>4. QED
  BY <1>2, <1>3

\* A claim begins an attempt that had not begun.
LEMMA ClaimKeepsIt ==
    ASSUME IInv, NEW j \in Job, Claim(j)
    PROVE  IInv'
<1>1. PICK n : n = jobs[j].attempts + 1
  OBVIOUS
<1>2. PICK a : a = <<j, n>>
  OBVIOUS
<1>3. jobs[j] \in JobRow /\ jobs[j].status = "queued" /\ JobOK(j) /\ jobs[j].attempts \in Nat
  BY DEF Claim, IInv, JobRow
<1>4. n \in Nat /\ 1 <= n /\ n <= Budget[j]
  BY <1>1, <1>3, ContentAssumption DEF JobOK
<1>5. a \in Attempt /\ a[1] = j /\ a[2] = n
  BY <1>2, <1>4, AttemptParts
<1>6. at[a] = "idle" /\ local[a] \in Local
  <2>1. at[a] # "idle" => a[2] <= jobs[a[1]].attempts
    BY <1>5 DEF IInv, AttemptOK
  <2>2. QED
    BY <2>1, <1>1, <1>3, <1>5 DEF IInv
<1>7. PICK row : row = [jobs[j] EXCEPT !.status = "running", !.attempts = n]
  OBVIOUS
<1>8. /\ row \in JobRow /\ row.status = "running"
      /\ row.attempts = n /\ row.snapshot = jobs[j].snapshot
  BY <1>3, <1>4, <1>7 DEF JobRow
<1>9. jobs' = [jobs EXCEPT ![j] = row] /\ at' = [at EXCEPT ![a] = "begin"] /\ UNCHANGED local
  BY <1>1, <1>2, <1>5, <1>7 DEF Claim, IInv
<1>10. /\ jobs'[j] = row /\ \A i \in Job \ {j} : jobs'[i] = jobs[i]
       /\ jobs' \in [Job -> JobRow] /\ at'[a] = "begin"
       /\ at' \in [Attempt -> Step] /\ local' \in [Attempt -> Local]
       /\ \A b \in Attempt \ {a} : at'[b] = at[b] /\ local'[b] = local[b]
  BY <1>5, <1>8, <1>9 DEF IInv, Step
<1>11. UNCHANGED <<world, tables, trail>> /\ UNCHANGED <<history, snapshots, runs, reports>>
  BY DEF Claim, world, tables
<1>12. Grows
  <2>1. \A i \in Job : /\ jobs[i].attempts <= jobs'[i].attempts
                      /\ jobs'[i].snapshot = jobs[i].snapshot
    BY <1>1, <1>3, <1>8, <1>10 DEF IInv, JobRow
  <2>2. HistoryOK'
    BY <1>11 DEF IInv, HistoryOK
  <2>3. QED
    BY <2>1, <2>2, <1>10, <1>11 DEF Grows
<1>13. JobOK(j)'
  BY <1>3, <1>4, <1>8, <1>10, <1>11 DEF JobOK
<1>14. AttemptOK(a, at[a], local[a])'
  <2>1. a[2] <= jobs'[a[1]].attempts
    BY <1>4, <1>5, <1>8, <1>10
  <2>2. snapshots[a].status = "none" /\ runs[a].status = "none"
    BY <1>5, <1>6 DEF IInv, AttemptOK
  <2>3. at'[a] = "begin" /\ local'[a] \in Local
    BY <1>5, <1>10
  <2>4. QED
    BY <2>1, <2>2, <2>3, <1>11 DEF AttemptOK, Importing, Analysing, Step
<1>15. QED
  BY <1>5, <1>10, <1>11, <1>12, <1>13, <1>14, RowKeepsIt

-----------------------------------------------------------------------------
(* Steps of the world, and enqueueing *)

\* Edits of the files and revocations change no row.
LEMMA WorldKeepsIt ==
    ASSUME IInv, EditFiles \/ RevokeConnection
    PROVE  IInv'
<1>1. UNCHANGED <<jobs, at, local, tables, trail>> /\ UNCHANGED <<snapshots, runs, reports>>
  BY DEF EditFiles, RevokeConnection, tables
<1>2. /\ HistoryOK'
      /\ \A i \in DOMAIN history : i \in DOMAIN history' /\ history'[i] = history[i]
  <2>1. HistoryOK
    BY DEF IInv
  <2>2. CASE EditFiles
    <3>1. PICK c \in Version : history' = Append(history, c)
      BY <2>2 DEF EditFiles
    <3>2. QED
      BY <3>1, <2>1 DEF HistoryOK
  <2>3. CASE RevokeConnection
    BY <2>1, <2>3 DEF RevokeConnection, HistoryOK
  <2>4. QED
    BY <2>2, <2>3
<1>3. Grows
  BY <1>1, <1>2 DEF Grows, IInv, JobRow
<1>4. \A j \in Job : JobOK(j)'
  BY <1>1, <1>3, JobsStay
<1>5. \A a \in Attempt : AttemptOK(a, at[a], local[a])'
  BY <1>1, <1>3, OthersStay
<1>6. TablesOK'
  <2>1. TablesOK
    BY DEF IInv
  <2>2. \A s \in Attempt : snapshots[s].status = "completed" =>
            Framed(snapshots[s].inputs_sha256, snapshots[s].rows)'
    BY <2>1, <1>1, <1>3, PastStays DEF TablesOK
  <2>3. QED
    BY <2>1, <2>2, <1>1 DEF TablesOK
<1>7. QED
  BY <1>1, <1>2, <1>4, <1>5, <1>6 DEF IInv

\* A job that was absent is enqueued, with or without a snapshot.
LEMMA EnqueueKeepsIt ==
    ASSUME IInv, UNCHANGED <<world, at, local, tables, trail>>, NEW j \in Job,
           jobs[j].status = "absent", NEW row \in JobRow, row.status = "queued",
           row.attempts = jobs[j].attempts,
           j \in AnalysisJob => row.snapshot \in Attempt
                                /\ snapshots[row.snapshot].status = "completed",
           jobs' = [jobs EXCEPT ![j] = row]
    PROVE  IInv'
<1>1. UNCHANGED <<history, snapshots, runs, reports, trail, at, local>> /\ HistoryOK
  BY DEF world, tables, IInv
<1>2. jobs'[j] = row /\ jobs' \in [Job -> JobRow] /\ \A i \in Job \ {j} : jobs'[i] = jobs[i]
  BY DEF IInv
<1>3. Grows
  BY <1>1, <1>2 DEF Grows, HistoryOK, JobRow, IInv
<1>4. JobOK(j) /\ Budget[j] \in Nat \ {0} /\ jobs[j].attempts = 0
  BY ContentAssumption DEF IInv, JobOK
<1>5. JobOK(j)'
  <2>1. j \in AnalysisJob => row.snapshot \in Attempt
                             /\ snapshots'[row.snapshot].status = "completed"
    BY <1>1
  <2>2. row.attempts = 0 /\ row.attempts < Budget[j] /\ row.attempts <= Budget[j]
    BY <1>4
  <2>3. row \in JobRow /\ row.status = "queued"
    OBVIOUS
  <2>4. QED
    BY <2>1, <2>2, <2>3, <1>2 DEF JobOK
<1>6. PICK a \in Attempt : a = <<j, 1>>
  <2>1. <<j, 1>> \in Attempt
    BY AttemptParts, ContentAssumption
  <2>2. QED
    BY <2>1
<1>7. AttemptOK(a, at[a], local[a])'
  BY <1>1, <1>3, OthersStay
<1>8. QED
  BY <1>1, <1>2, <1>3, <1>5, <1>7, RowKeepsIt DEF IInv

\* A new job has made no attempt.
LEMMA EnqueueImportKeepsIt ==
    ASSUME IInv, NEW j \in Job, EnqueueImport(j)
    PROVE  IInv'
<1>1. PICK row : row = [jobs[j] EXCEPT !.status = "queued"]
  OBVIOUS
<1>2. jobs[j] \in JobRow /\ jobs[j].status = "absent" /\ j \notin AnalysisJob
  BY ContentAssumption DEF IInv, EnqueueImport, MayEnqueue
<1>3. row \in JobRow /\ row.status = "queued" /\ row.attempts = jobs[j].attempts
  BY <1>1, <1>2 DEF JobRow
<1>4. jobs' = [jobs EXCEPT ![j] = row]
  BY <1>1 DEF EnqueueImport
<1>5. UNCHANGED <<world, at, local, tables, trail>>
  BY DEF EnqueueImport
<1>6. QED
  BY <1>2, <1>3, <1>4, <1>5, EnqueueKeepsIt

\* The snapshot a new analysis is about is sealed.
LEMMA EnqueueAnalysisKeepsIt ==
    ASSUME IInv, NEW j \in Job, NEW s \in Attempt, EnqueueAnalysis(j, s)
    PROVE  IInv'
<1>1. PICK row : row = [jobs[j] EXCEPT !.status = "queued", !.snapshot = s]
  OBVIOUS
<1>2. jobs[j] \in JobRow /\ jobs[j].status = "absent" /\ snapshots[s].status = "completed"
  BY DEF IInv, EnqueueAnalysis, MayEnqueue
<1>3. /\ row \in JobRow /\ row.status = "queued"
      /\ row.attempts = jobs[j].attempts /\ row.snapshot = s
  BY <1>1, <1>2 DEF JobRow
<1>4. jobs' = [jobs EXCEPT ![j] = row]
  BY <1>1 DEF EnqueueAnalysis, IInv
<1>5. UNCHANGED <<world, at, local, tables, trail>>
  BY DEF EnqueueAnalysis
<1>6. QED
  BY <1>2, <1>3, <1>4, <1>5, EnqueueKeepsIt

-----------------------------------------------------------------------------
(* Steps that write the tables *)

\* A step of attempt a that writes its own rows and takes nothing back.
LEMMA WriteKeepsIt ==
    ASSUME IInv, Grows, TablesOK', UNCHANGED <<history, jobs, trail>>,
           NEW a \in Attempt, NEW step, NEW l, Holds(a, step, l), AttemptOK(a, step, l)',
           \A b \in Attempt \ {a} : snapshots'[b] = snapshots[b] /\ runs'[b] = runs[b]
    PROVE  IInv'
<1>1. /\ at' = [at EXCEPT ![a] = step] /\ local' = [local EXCEPT ![a] = l]
      /\ step \in Step /\ l \in Local
      /\ at \in [Attempt -> Step] /\ local \in [Attempt -> Local]
  BY DEF Holds, Goes, AttemptOK, IInv
<1>2. \A j \in Job : JobOK(j)'
  BY JobsStay
<1>3. ASSUME NEW b \in Attempt PROVE AttemptOK(b, at[b], local[b])'
  <2>1. CASE b = a
    BY <2>1, <1>1
  <2>2. CASE b # a
    <3>1. at'[b] = at[b] /\ local'[b] = local[b]
      BY <2>2, <1>1
    <3>2. QED
      BY <3>1, <2>2, OthersStay
  <2>3. QED
    BY <2>1, <2>2
<1>4. QED
  BY <1>1, <1>2, <1>3 DEF IInv, HistoryOK

\* After a write, the answer comes back or is lost.
LEMMA AnsweredOrLost ==
    ASSUME NEW a \in Attempt, local[a] \in Local, NEW answered, Answered(a, answered)
    PROVE  \E step \in {"trace", "fail", "abandon"}, m \in Local :
              /\ Holds(a, step, m)
              /\ step = "trace" => m.out = a
              /\ step = "abandon" => a[1] \in AnalysisJob
<1>1. CASE answered
  <2>1. PICK m : m = [NoLocal EXCEPT !.out = a]
    OBVIOUS
  <2>2. m \in Local /\ m.out = a
    BY <2>1, LocalChanges
  <2>3. Holds(a, "trace", m)
    BY <2>1, <1>1 DEF Answered, Returns
  <2>4. QED
    BY <2>2, <2>3
<1>2. CASE ~answered
  <2>1. PICK step : step = IF a[1] \in AnalysisJob THEN "abandon" ELSE "fail"
    OBVIOUS
  <2>2. PICK m : m = [local[a] EXCEPT !.sources = 0, !.code = "raised", !.retryable = TRUE]
    OBVIOUS
  <2>3. m \in Local
    BY <2>2, LocalChanges DEF Code
  <2>4. Holds(a, step, m)
    BY <2>1, <2>2, <1>2 DEF Answered, Fails, Retryable
  <2>5. step \in {"trace", "fail", "abandon"} /\ step # "trace"
        /\ (step = "abandon" => a[1] \in AnalysisJob)
    BY <2>1
  <2>6. QED
    BY <2>3, <2>4, <2>5
<1>3. QED
  BY <1>1, <1>2

\* What SealSnapshot writes.
LEMMA Seals ==
    ASSUME IInv, NEW a \in Attempt, NEW answered, SealSnapshot(a, answered)
    PROVE  \E row \in SnapshotRecord :
              /\ row.status = "completed" /\ row.inputs_sha256 \in Version
              /\ row.rows \in Version /\ Framed(row.inputs_sha256, row.rows)
              /\ snapshots[a].status = "none"
              /\ \A s \in Attempt : ~Sealed(s, row.inputs_sha256)
              /\ snapshots' = [snapshots EXCEPT ![a] = row]
              /\ UNCHANGED <<history, jobs, runs, reports, trail>>
              /\ a[1] \in ImportJob
<1>1. PICK l : l = local[a]
  OBVIOUS
<1>2. AttemptOK(a, "commit", l) /\ l \in Local /\ HistoryOK
  BY <1>1 DEF SealSnapshot, IInv
<1>3. /\ l.sources \in Version /\ l.dataset \in Version /\ Framed(l.sources, l.dataset)
      /\ a[1] \in ImportJob /\ snapshots[a].status = "none"
  BY <1>2 DEF AttemptOK, Importing
<1>4. PICK row : row = CompletedSnapshot(a)
  OBVIOUS
<1>5. /\ row.status = "completed" /\ row.inputs_sha256 = l.sources /\ row.rows = l.dataset
      /\ row \in SnapshotRecord
  BY <1>1, <1>2, <1>4 DEF CompletedSnapshot, SnapshotRecord, Code, Local
<1>6. QED
  BY <1>1, <1>3, <1>4, <1>5 DEF SealSnapshot, world

\* The unique index lets one snapshot of a fingerprint be sealed.
LEMMA SealKeepsIt ==
    ASSUME IInv, NEW a \in Attempt, NEW answered, SealSnapshot(a, answered)
    PROVE  IInv'
<1>1. PICK row \in SnapshotRecord :
              /\ row.status = "completed" /\ row.inputs_sha256 \in Version
              /\ row.rows \in Version /\ Framed(row.inputs_sha256, row.rows)
              /\ snapshots[a].status = "none"
              /\ \A s \in Attempt : ~Sealed(s, row.inputs_sha256)
              /\ snapshots' = [snapshots EXCEPT ![a] = row]
              /\ UNCHANGED <<history, jobs, runs, reports, trail>>
              /\ a[1] \in ImportJob
  BY Seals
<1>2. /\ snapshots'[a] = row /\ \A s \in Attempt \ {a} : snapshots'[s] = snapshots[s]
      /\ snapshots' \in [Attempt -> SnapshotRecord]
  BY <1>1 DEF IInv, TablesOK
<1>3. \A s \in Attempt : snapshots[s].status = "completed" => snapshots'[s] = snapshots[s]
  BY <1>1, <1>2
<1>4. Grows
  BY <1>1, <1>3 DEF Grows, IInv, HistoryOK, JobRow
<1>5. TablesOK'
  <2>1. TablesOK
    BY DEF IInv
  <2>2. \A s \in Attempt : snapshots'[s].status = "completed" =>
            /\ snapshots'[s].inputs_sha256 \in Version /\ snapshots'[s].rows \in Version
            /\ Framed(snapshots'[s].inputs_sha256, snapshots'[s].rows)
    BY <2>1, <1>1, <1>2 DEF TablesOK
  <2>3. \A s, t \in Attempt :
            /\ snapshots'[s].status = "completed" /\ snapshots'[t].status = "completed"
            /\ snapshots'[s].inputs_sha256 = snapshots'[t].inputs_sha256
            => s = t
    BY <2>1, <1>1, <1>2 DEF TablesOK, Sealed
  <2>4. \A r \in Attempt : runs[r].status # "none" =>
            /\ runs[r].snapshot \in Attempt
            /\ snapshots[runs[r].snapshot].status = "completed"
            /\ snapshots'[runs[r].snapshot] = snapshots[runs[r].snapshot]
    BY <2>1, <1>3 DEF TablesOK
  <2>5. \A s \in Attempt : snapshots'[s].status = "completed" =>
            Framed(snapshots[s].inputs_sha256, snapshots[s].rows)'
    BY <2>2, <1>1 DEF Framed
  <2>6. QED
    BY <2>1, <2>2, <2>3, <2>4, <2>5, <1>1, <1>2 DEF TablesOK
<1>6. local[a] \in Local /\ AttemptOK(a, "commit", local[a]) /\ Answered(a, answered)
  BY DEF SealSnapshot, IInv
<1>7. PICK step \in {"trace", "fail", "abandon"}, m \in Local :
              /\ Holds(a, step, m)
              /\ step = "trace" => m.out = a
              /\ step = "abandon" => a[1] \in AnalysisJob
  BY <1>6, AnsweredOrLost
<1>8. step # "abandon" /\ a[1] \notin AnalysisJob
  BY <1>1, <1>7, ContentAssumption
<1>9. step = "trace" => Backed(a[1], m.out)'
  BY <1>1, <1>2, <1>7, <1>8 DEF Backed
<1>10. AttemptOK(a, step, m)'
  BY <1>1, <1>6, <1>7, <1>8, <1>9 DEF AttemptOK, Importing, Analysing, Step
<1>11. QED
  BY <1>1, <1>2, <1>4, <1>5, <1>7, <1>10, WriteKeepsIt

\* The trace of a refusal is a row of its own.
LEMMA RejectKeepsIt ==
    ASSUME IInv, NEW a \in Attempt, record_failed_snapshot(a)
    PROVE  IInv'
<1>1. PICK l : l = local[a]
  OBVIOUS
<1>2. PICK row : row = [NoSnapshot EXCEPT !.status = "failed", !.failure_code = l.code]
  OBVIOUS
<1>3. AttemptOK(a, "reject", l) /\ l \in Local /\ TablesOK /\ HistoryOK
  BY <1>1 DEF record_failed_snapshot, IInv
<1>4. row \in SnapshotRecord /\ row.status = "failed" /\ snapshots[a].status = "none"
  <2>1. l.code \in Code /\ 0 \in 0 .. MaxVersion
    BY <1>3, ContentAssumption DEF Local
  <2>2. row = [status |-> "failed", inputs_sha256 |-> 0, rows |-> 0, failure_code |-> l.code]
    BY <1>2 DEF NoSnapshot
  <2>3. snapshots[a].status = "none"
    BY <1>3 DEF AttemptOK, Importing
  <2>4. QED
    BY <2>1, <2>2, <2>3 DEF SnapshotRecord
<1>5. /\ snapshots' = [snapshots EXCEPT ![a] = row] /\ UNCHANGED <<history, jobs, runs, reports, trail>>
      /\ Goes(a, "refuse") /\ UNCHANGED local
  BY <1>1, <1>2 DEF record_failed_snapshot, world
<1>6. /\ snapshots'[a] = row /\ \A s \in Attempt \ {a} : snapshots'[s] = snapshots[s]
      /\ snapshots' \in [Attempt -> SnapshotRecord]
  BY <1>3, <1>4, <1>5 DEF TablesOK
<1>7. \A s \in Attempt :
          /\ snapshots[s].status = "completed" => snapshots'[s] = snapshots[s]
          /\ snapshots'[s].status = "completed" => snapshots'[s] = snapshots[s]
  BY <1>4, <1>6
<1>8. Grows
  BY <1>3, <1>5, <1>7 DEF Grows, IInv, HistoryOK, JobRow
<1>9. TablesOK'
  BY <1>3, <1>5, <1>6, <1>7 DEF TablesOK, Framed
<1>10. AttemptOK(a, "refuse", l)'
  BY <1>3, <1>5 DEF AttemptOK, Importing, Analysing, Step
<1>11. Holds(a, "refuse", l)
  BY <1>1, <1>5 DEF Holds, IInv
<1>12. QED
  BY <1>5, <1>6, <1>8, <1>9, <1>10, <1>11, WriteKeepsIt

\* A run that starts is of a sealed snapshot.
LEMMA StartKeepsIt ==
    ASSUME IInv, NEW a \in Attempt, start_run(a)
    PROVE  IInv'
<1>1. PICK l : l = local[a]
  OBVIOUS
<1>2. PICK s : s = jobs[a[1]].snapshot
  OBVIOUS
<1>3. PICK row : row = [NoRun EXCEPT !.status = "running", !.snapshot = s]
  OBVIOUS
<1>4. /\ AttemptOK(a, "start", l) /\ l \in Local /\ TablesOK /\ HistoryOK
      /\ at[a] # "idle" /\ snapshots[s].status = "completed"
  BY <1>1, <1>2 DEF start_run, RequiresSealedSnapshot, IInv
<1>5. a[1] \in AnalysisJob /\ a[1] \in Job /\ runs[a].status = "none"
  BY <1>4, AttemptParts DEF AttemptOK, Analysing
<1>6. s \in Attempt
  BY <1>2, <1>4, <1>5, Present DEF IInv, JobOK
<1>7. row \in AnalysisRunRecord /\ row.status = "running" /\ row.snapshot = s
  BY <1>3, <1>6 DEF NoRun, AnalysisRunRecord, Code
<1>8. /\ runs' = [runs EXCEPT ![a] = row] /\ UNCHANGED <<history, jobs, snapshots, reports, trail>>
      /\ Goes(a, "engine") /\ UNCHANGED local
  BY <1>2, <1>3 DEF start_run, world
<1>9. /\ runs'[a] = row /\ \A r \in Attempt \ {a} : runs'[r] = runs[r]
      /\ runs' \in [Attempt -> AnalysisRunRecord]
  BY <1>4, <1>7, <1>8 DEF TablesOK
<1>10. Grows
  BY <1>4, <1>5, <1>8, <1>9 DEF Grows, IInv, HistoryOK, JobRow
<1>11. TablesOK'
  <2>1. \A r \in Attempt : runs'[r].status # "none" =>
            runs'[r].snapshot \in Attempt /\ snapshots'[runs'[r].snapshot].status = "completed"
    BY <1>4, <1>6, <1>7, <1>8, <1>9 DEF TablesOK
  <2>2. \A r \in Attempt :
            /\ (runs'[r].status = "completed") => (r # a /\ runs'[r] = runs[r])
            /\ (runs[r].status = "completed") => (runs'[r] = runs[r])
    BY <1>5, <1>7, <1>9
  <2>3. QED
    BY <2>1, <2>2, <1>4, <1>8, <1>9 DEF TablesOK, Framed
<1>12. AttemptOK(a, "engine", l)'
  BY <1>2, <1>4, <1>5, <1>7, <1>8, <1>9 DEF AttemptOK, Importing, Analysing, Step
<1>13. Holds(a, "engine", l)
  BY <1>1, <1>8 DEF Holds, IInv
<1>14. QED
  BY <1>8, <1>9, <1>10, <1>11, <1>12, <1>13, WriteKeepsIt

\* What complete_run writes: a report about the rows of a snapshot that no run reported on.
LEMMA Reports ==
    ASSUME IInv, NEW a \in Attempt, NEW answered, complete_run(a, answered)
    PROVE  \E row \in AnalysisRunRecord, c \in Version :
              /\ row.status = "completed" /\ row.snapshot = runs[a].snapshot
              /\ runs[a].status = "running" /\ reports[a] = 0
              /\ row.snapshot \in Attempt /\ snapshots[row.snapshot].status = "completed"
              /\ c = snapshots[row.snapshot].rows
              /\ row.snapshot = jobs[a[1]].snapshot
              /\ \A r \in Attempt : ~Completed(r, row.snapshot)
              /\ runs' = [runs EXCEPT ![a] = row]
              /\ reports' = [reports EXCEPT ![a] = c]
              /\ UNCHANGED <<history, jobs, snapshots, trail>>
              /\ a[1] \in AnalysisJob
<1>1. PICK l : l = local[a]
  OBVIOUS
<1>2. AttemptOK(a, "publish", l) /\ TablesOK /\ runs[a].status = "running"
  BY <1>1 DEF complete_run, MayChange, IInv
<1>3. PICK row : row = [runs[a] EXCEPT !.status = "completed"]
  OBVIOUS
<1>4. runs[a] \in AnalysisRunRecord
  BY <1>2 DEF TablesOK
<1>5. /\ row \in AnalysisRunRecord /\ row.status = "completed"
      /\ row.snapshot = runs[a].snapshot
  BY <1>3, <1>4 DEF AnalysisRunRecord
<1>6. /\ row.snapshot \in Attempt /\ snapshots[row.snapshot].status = "completed"
      /\ reports[a] = 0
  BY <1>2, <1>5 DEF TablesOK
<1>7. PICK c : c = snapshots[row.snapshot].rows
  OBVIOUS
<1>8. c \in Version
  BY <1>2, <1>6, <1>7 DEF TablesOK
<1>9. l.dataset = c /\ row.snapshot = jobs[a[1]].snapshot /\ a[1] \in AnalysisJob
  BY <1>2, <1>5, <1>7 DEF AttemptOK, Analysing
<1>10. runs' = [runs EXCEPT ![a] = row] /\ reports' = [reports EXCEPT ![a] = c]
  BY <1>1, <1>2, <1>3, <1>9 DEF complete_run, TablesOK
<1>11. UNCHANGED <<history, jobs, snapshots, trail>> /\ \A r \in Attempt : ~Completed(r, row.snapshot)
  BY <1>5 DEF complete_run, world
<1>12. QED
  BY <1>2, <1>5, <1>6, <1>7, <1>8, <1>9, <1>10, <1>11

\* The unique index lets one run of a snapshot complete, with its report.
LEMMA CompleteKeepsIt ==
    ASSUME IInv, NEW a \in Attempt, NEW answered, complete_run(a, answered)
    PROVE  IInv'
<1>1. PICK row \in AnalysisRunRecord, c \in Version :
              /\ row.status = "completed" /\ row.snapshot = runs[a].snapshot
              /\ runs[a].status = "running" /\ reports[a] = 0
              /\ row.snapshot \in Attempt /\ snapshots[row.snapshot].status = "completed"
              /\ c = snapshots[row.snapshot].rows
              /\ row.snapshot = jobs[a[1]].snapshot
              /\ \A r \in Attempt : ~Completed(r, row.snapshot)
              /\ runs' = [runs EXCEPT ![a] = row]
              /\ reports' = [reports EXCEPT ![a] = c]
              /\ UNCHANGED <<history, jobs, snapshots, trail>>
              /\ a[1] \in AnalysisJob
  BY Reports
<1>2. TablesOK /\ c \in 0 .. MaxVersion
  BY <1>1 DEF IInv, Version
<1>3. /\ runs'[a] = row /\ \A r \in Attempt \ {a} : runs'[r] = runs[r]
      /\ reports'[a] = c /\ \A r \in Attempt \ {a} : reports'[r] = reports[r]
      /\ runs' \in [Attempt -> AnalysisRunRecord] /\ reports' \in [Attempt -> 0 .. MaxVersion]
  BY <1>1, <1>2 DEF TablesOK
<1>4. Grows
  <2>1. \A r \in Attempt :
            /\ runs'[r].snapshot = runs[r].snapshot
            /\ (runs[r].status # "none") => (runs'[r].status # "none")
            /\ (runs[r].status = "completed") => (runs'[r].status = "completed")
    BY <1>1, <1>3
  <2>2. QED
    BY <2>1, <1>1 DEF Grows, IInv, HistoryOK, JobRow
<1>5. TablesOK'
  <2>1. \A r \in Attempt : runs'[r].status # "none" =>
            runs'[r].snapshot \in Attempt /\ snapshots'[runs'[r].snapshot].status = "completed"
    BY <1>1, <1>2, <1>3 DEF TablesOK
  <2>2. \A r, q \in Attempt :
            /\ runs'[r].status = "completed" /\ runs'[q].status = "completed"
            /\ runs'[r].snapshot = runs'[q].snapshot
            => r = q
    BY <1>1, <1>2, <1>3 DEF TablesOK, Completed
  <2>3. \A r \in Attempt :
            /\ (runs'[r].status # "completed") => (reports'[r] = 0)
            /\ (runs'[r].status = "completed") => (reports'[r] = snapshots'[runs'[r].snapshot].rows)
    BY <1>1, <1>2, <1>3 DEF TablesOK
  <2>4. QED
    BY <2>1, <2>2, <2>3, <1>1, <1>2, <1>3 DEF TablesOK, Framed
<1>6. local[a] \in Local /\ AttemptOK(a, "publish", local[a]) /\ Answered(a, answered)
  BY DEF complete_run, MayChange, IInv
<1>7. PICK step \in {"trace", "fail", "abandon"}, m \in Local :
              /\ Holds(a, step, m)
              /\ step = "trace" => m.out = a
              /\ step = "abandon" => a[1] \in AnalysisJob
  BY <1>6, AnsweredOrLost
<1>8. a[1] \notin ImportJob
  BY <1>1, ContentAssumption
<1>9. step = "trace" => Backed(a[1], m.out)'
  BY <1>1, <1>3, <1>7, <1>8 DEF Backed
<1>10. AttemptOK(a, step, m)'
  BY <1>1, <1>6, <1>7, <1>8, <1>9 DEF AttemptOK, Importing, Analysing, Step
<1>11. QED
  BY <1>1, <1>3, <1>4, <1>5, <1>7, <1>10, WriteKeepsIt

\* A run that fails has no report.
LEMMA FailKeepsIt ==
    ASSUME IInv, NEW a \in Attempt, fail_run(a)
    PROVE  IInv'
<1>1. PICK l : l = local[a]
  OBVIOUS
<1>2. PICK step : step = IF l.code = "insufficient_data" THEN "refuse" ELSE "fail"
  OBVIOUS
<1>3. /\ AttemptOK(a, "abandon", l) /\ l \in Local /\ TablesOK /\ HistoryOK
      /\ UNCHANGED <<history, jobs, snapshots, reports, trail>> /\ UNCHANGED local
      /\ Goes(a, step) /\ step \in {"refuse", "fail"}
  BY <1>1, <1>2 DEF fail_run, IInv, world
<1>4. Holds(a, step, l)
  BY <1>1, <1>3 DEF Holds, IInv
<1>5. PICK row : row = IF runs[a].status = "running" THEN FailedRun(a) ELSE runs[a]
  OBVIOUS
<1>6. runs' = [runs EXCEPT ![a] = row]
  BY <1>3, <1>5 DEF fail_run, MayChange, TablesOK
<1>7. /\ row \in AnalysisRunRecord /\ row.snapshot = runs[a].snapshot
      /\ row = runs[a] \/ (runs[a].status = "running" /\ row.status = "failed")
  BY <1>3, <1>5 DEF TablesOK, FailedRun, AnalysisRunRecord, Code
<1>8. /\ runs'[a] = row /\ \A r \in Attempt \ {a} : runs'[r] = runs[r]
      /\ runs' \in [Attempt -> AnalysisRunRecord]
  BY <1>3, <1>6, <1>7 DEF TablesOK
<1>9. \A r \in Attempt :
          /\ runs'[r].status = "completed" <=> runs[r].status = "completed"
          /\ runs'[r].status = "none" <=> runs[r].status = "none"
          /\ runs'[r].snapshot = runs[r].snapshot
  BY <1>7, <1>8
<1>10. Grows
  BY <1>3, <1>9 DEF Grows, IInv, HistoryOK, JobRow
<1>11. TablesOK'
  BY <1>3, <1>8, <1>9 DEF TablesOK, Framed
<1>12. AttemptOK(a, step, l)'
  BY <1>3 DEF AttemptOK, Importing, Analysing, Step
<1>13. QED
  BY <1>3, <1>4, <1>8, <1>10, <1>11, <1>12, WriteKeepsIt

-----------------------------------------------------------------------------
(* The invariant holds *)

\* Nothing is written at first.
LEMMA InitInv == Init => IInv
<1> SUFFICES ASSUME Init PROVE IInv
  OBVIOUS
<1>1. NoSnapshot \in SnapshotRecord /\ NoRun \in AnalysisRunRecord /\ NoLocal \in Local
  <2>1. "none" \in Code /\ 0 \in 0 .. MaxVersion
    BY ContentAssumption DEF Code
  <2>2. NoSnapshot \in SnapshotRecord
    BY <2>1 DEF NoSnapshot, SnapshotRecord
  <2>3. NoRun \in AnalysisRunRecord
    BY <2>1 DEF NoRun, AnalysisRunRecord
  <2>4. QED
    BY <2>2, <2>3, LocalChanges
<1>2. \A a \in Attempt : snapshots[a].status = "none" /\ runs[a].status = "none"
  BY DEF Init, NoSnapshot, NoRun
<1>3. TablesOK
  BY <1>1, <1>2, ContentAssumption DEF Init, TablesOK
<1>4. jobs \in [Job -> JobRow] /\ \A j \in Job : jobs[j].status = "absent" /\ jobs[j].attempts = 0
  BY DEF Init, JobRow, Code
<1>5. \A j \in Job : JobOK(j)
  <2>1. \A j \in Job : Budget[j] \in Nat
    BY ContentAssumption
  <2>2. QED
    BY <2>1, <1>4 DEF JobOK
<1>6. \A a \in Attempt : AttemptOK(a, at[a], local[a])
  BY <1>1, <1>2 DEF Init, AttemptOK, Importing, Analysing, Step
<1>7. QED
  BY <1>1, <1>3, <1>4, <1>5, <1>6, ContentAssumption DEF Init, IInv, HistoryOK, Version, Step

\* A step that changes nothing.
LEMMA StutterKeepsIt ==
    ASSUME IInv, UNCHANGED vars
    PROVE  IInv'
<1>1. UNCHANGED <<history, jobs, at, local, snapshots, runs, reports, trail>>
  BY DEF vars
<1>2. UNCHANGED <<world, jobs, tables>> /\ trail \subseteq trail'
  BY DEF vars, world, tables
<1>3. Grows
  BY <1>1 DEF Grows, IInv, HistoryOK, JobRow
<1>4. \A j \in Job : JobOK(j)'
  BY <1>1, <1>3, JobsStay
<1>5. \A a \in Attempt : AttemptOK(a, at[a], local[a])'
  BY <1>1, <1>3, OthersStay
<1>6. TablesOK'
  BY <1>1 DEF IInv, TablesOK, Framed
<1>7. QED
  BY <1>1, <1>4, <1>5, <1>6 DEF IInv, HistoryOK

\* Every step keeps the invariant.
LEMMA NextInv == IInv /\ [Next]_vars => IInv'
<1> SUFFICES ASSUME IInv, [Next]_vars PROVE IInv'
  OBVIOUS
<1>1. CASE EditFiles \/ RevokeConnection
  BY <1>1, WorldKeepsIt
<1>2. ASSUME NEW j \in Job, EnqueueImport(j) \/ Claim(j) \/ RecoverJob(j) PROVE IInv'
  BY <1>2, EnqueueImportKeepsIt, ClaimKeepsIt, RecoverJobKeepsIt
<1>3. ASSUME NEW j \in Job, NEW s \in Attempt, EnqueueAnalysis(j, s) PROVE IInv'
  BY <1>3, EnqueueAnalysisKeepsIt
<1>4. ASSUME NEW a \in Attempt, ImportStep(a) PROVE IInv'
  <2>1. CASE ImportMove(a)
    BY <2>1, ImportMovesKeepIt
  <2>2. CASE \E answered \in BOOLEAN : SealSnapshot(a, answered)
    BY <2>2, SealKeepsIt
  <2>3. CASE record_failed_snapshot(a)
    BY <2>3, RejectKeepsIt
  <2>4. QED
    BY <1>4, <2>1, <2>2, <2>3 DEF ImportStep, ImportMove
<1>5. ASSUME NEW a \in Attempt, AnalysisStep(a) PROVE IInv'
  <2>1. CASE OtherMove(a)
    BY <2>1, OtherMovesKeepIt
  <2>2. CASE start_run(a)
    BY <2>2, StartKeepsIt
  <2>3. CASE \E answered \in BOOLEAN : complete_run(a, answered)
    BY <2>3, CompleteKeepsIt
  <2>4. CASE fail_run(a)
    BY <2>4, FailKeepsIt
  <2>5. QED
    BY <1>5, <2>1, <2>2, <2>3, <2>4 DEF AnalysisStep, OtherMove
<1>6. ASSUME NEW a \in Attempt, AttemptStep(a) \/ Crash(a) PROVE IInv'
  <2>1. CASE MarkSucceeded(a) \/ MarkFailed(a)
    BY <2>1, MarkSucceededKeepsIt, MarkFailedKeepsIt
  <2>2. CASE OtherMove(a)
    BY <2>2, OtherMovesKeepIt
  <2>3. QED
    BY <1>4, <1>5, <1>6, <2>1, <2>2 DEF AttemptStep, OtherMove
<1>7. ASSUME NEW a \in Attempt, NEW cause \in Cause, Raise(a, cause) PROVE IInv'
  <2>1. OtherMove(a)
    BY <1>7 DEF OtherMove
  <2>2. QED
    BY <2>1, OtherMovesKeepIt
<1>8. CASE UNCHANGED vars
  BY <1>8, StutterKeepsIt
<1>9. QED
  BY <1>1, <1>2, <1>3, <1>6, <1>7, <1>8 DEF Next

\* It holds of every state.
LEMMA InvHolds == Spec => []IInv
<1>1. QED
  BY InitInv, NextInv, PTL DEF Spec

\* What the invariant of the tables leaves aside.
RestOK ==
    /\ Len(history) <= MaxEdits + 1
    /\ revoked \in BOOLEAN /\ faults \in 0 .. MaxFaults /\ trail \subseteq Attempt \X Attempt

\* The types that the invariant does not need, and that need the invariant.
LEMMA RestKept ==
    ASSUME IInv, RestOK, [Next]_vars
    PROVE  RestOK'
<1>1. MaxFaults \in Nat
  BY ContentAssumption
<1>2. ASSUME UNCHANGED trail, (UNCHANGED revoked) \/ revoked' = TRUE,
             (UNCHANGED faults) \/ (faults < MaxFaults /\ faults' = faults + 1),
             UNCHANGED history
      PROVE  RestOK'
  <2>1. revoked' \in BOOLEAN
    BY <1>2 DEF RestOK
  <2>2. faults' \in 0 .. MaxFaults
    BY <1>1, <1>2 DEF RestOK
  <2>3. QED
    BY <2>1, <2>2, <1>2 DEF RestOK
<1>6. CASE EditFiles
  <2>1. MaxEdits \in Nat /\ HistoryOK
    BY ContentAssumption DEF IInv
  <2>2. PICK c \in Version : history' = Append(history, c)
    BY <1>6 DEF EditFiles
  <2>3. Len(history') = Len(history) + 1
    BY <2>1, <2>2 DEF HistoryOK
  <2>4. Len(history) <= MaxEdits /\ Len(history) \in Nat
    BY <1>6, <2>1 DEF EditFiles, HistoryOK
  <2>5. QED
    BY <1>6, <2>1, <2>3, <2>4 DEF EditFiles, RestOK
<1>3. CASE \/ UNCHANGED vars \/ RevokeConnection
           \/ \E j \in Job : EnqueueImport(j) \/ Claim(j) \/ RecoverJob(j)
           \/ \E j \in Job, s \in Attempt : EnqueueAnalysis(j, s)
  BY <1>2, <1>3 DEF vars, RevokeConnection, EnqueueImport, Claim, RecoverJob,
     EnqueueAnalysis, world
<1>4. ASSUME NEW a \in Attempt,
             \/ AttemptStep(a) /\ ~TraceSuccess(a)
             \/ Crash(a)
             \/ \E cause \in Cause : Raise(a, cause)
      PROVE  RestOK'
  BY <1>2, <1>4 DEF AttemptStep, ImportStep, AnalysisStep, BeginImport, ValidateFiles, FindSnapshot,
     LoadSources, HashAgain, OpenSnapshot, SealSnapshot, SealConflict, record_failed_snapshot,
     BeginAnalysis, FindRun, start_run, RunEngine, complete_run, CompleteConflict, fail_run,
     TraceRefusal, MarkSucceeded, MarkFailed, Answered, Crash, Raise, world
<1>5. ASSUME NEW a \in Attempt, TraceSuccess(a) PROVE RestOK'
  <2>1. local[a].out \in Attempt
    BY <1>5 DEF TraceSuccess, IInv, AttemptOK, Backed
  <2>2. UNCHANGED <<history, revoked, faults>> /\ trail' \subseteq trail \cup {<<a, local[a].out>>}
    BY <1>5 DEF TraceSuccess, world
  <2>3. QED
    BY <2>1, <2>2 DEF RestOK
<1>7. QED
  BY <1>3, <1>4, <1>5, <1>6 DEF Next, AttemptStep

\* The tables hold what their columns admit, and every step finds the attempt's variables
\* and the counters within their bounds.
THEOREM ContentTypes == Spec => []ContentTypeOK
<1>1. Init => RestOK
  <2>1. 0 \in 0 .. MaxFaults /\ FALSE \in BOOLEAN
    BY ContentAssumption
  <2>2. MaxEdits \in Nat /\ Len(<<1>>) = 1
    BY ContentAssumption
  <2>3. ASSUME Init PROVE Len(history) = 1
    <3>1. history = <<1>>
      BY <2>3 DEF Init
    <3>2. QED
      BY <3>1, <2>2
  <2>4. ASSUME Init PROVE Len(history) <= MaxEdits + 1
    BY <2>2, <2>3, <2>4
  <2>5. ASSUME Init
        PROVE  revoked \in BOOLEAN /\ faults \in 0 .. MaxFaults /\ trail \subseteq Attempt \X Attempt
    BY <2>1, <2>5 DEF Init
  <2>6. QED
    BY <2>4, <2>5 DEF RestOK
<1>2. ASSUME IInv, RestOK PROVE ContentTypeOK
  <2>1. Len(history) \in 1 .. MaxEdits + 1
    BY <1>2, ContentAssumption DEF IInv, HistoryOK, RestOK
  <2>2. history \in Seq(Version)
    BY <1>2 DEF IInv, HistoryOK
  <2>3. /\ snapshots \in [Attempt -> SnapshotRecord] /\ runs \in [Attempt -> AnalysisRunRecord]
        /\ reports \in [Attempt -> 0 .. MaxVersion]
    BY <1>2 DEF IInv, TablesOK
  <2>4. /\ jobs \in [Job -> JobRow] /\ at \in [Attempt -> Step] /\ local \in [Attempt -> Local]
    BY <1>2 DEF IInv
  <2>5. QED
    BY <1>2, <2>1, <2>2, <2>3, <2>4 DEF RestOK, ContentTypeOK
<1>3. IInv /\ RestOK /\ [Next]_vars => RestOK'
  BY RestKept
<1>4. QED
  BY <1>1, <1>2, <1>3, InvHolds, PTL DEF Spec

\* The rows of a sealed snapshot were loaded between two moments at which the files had the
\* content of its fingerprint, for any number of contents, of edits, which may come back to
\* an earlier content, and of attempts that read the files meanwhile.
THEOREM SealedContent == Spec => []LoadedBetweenItsHashes
<1>1. IInv => LoadedBetweenItsHashes
  BY DEF IInv, TablesOK, Framed, LoadedBetweenItsHashes
<1>2. QED
  BY <1>1, InvHolds, PTL

\* A completed run has the report of its snapshot's rows, and no other run has one.
THEOREM ReportsAreAnchored == Spec => []Anchored
<1>1. ASSUME IInv, NEW r \in Attempt
      PROVE  /\ runs[r].status = "completed" <=> reports[r] # 0
             /\ runs[r].status # "none" => snapshots[runs[r].snapshot].status = "completed"
             /\ reports[r] # 0 => reports[r] = snapshots[runs[r].snapshot].rows
  <2>1. TablesOK
    BY <1>1 DEF IInv
  <2>2. runs[r].status # "none" => /\ runs[r].snapshot \in Attempt
                                  /\ snapshots[runs[r].snapshot].status = "completed"
                                  /\ snapshots[runs[r].snapshot].rows \in Version
    BY <2>1 DEF TablesOK
  <2>3. 0 \notin Version
    BY DEF Version
  <2>4. QED
    BY <2>1, <2>2, <2>3 DEF TablesOK
<1>2. IInv => Anchored
  BY <1>1 DEF Anchored
<1>3. QED
  BY <1>2, InvHolds, PTL

\* A job that succeeded names what its last attempt sealed, reported or found, and traced.
THEOREM SuccessesAreBacked == Spec => []SuccessIsBacked
<1>1. ASSUME IInv, NEW j \in Job, jobs[j].status = "succeeded"
      PROVE  /\ <<<<j, jobs[j].attempts>>, jobs[j].result>> \in trail
             /\ j \in ImportJob => snapshots[jobs[j].result].status = "completed"
             /\ j \in AnalysisJob => /\ reports[jobs[j].result] # 0
                                     /\ runs[jobs[j].result].snapshot = jobs[j].snapshot
  <2>1. PICK x : x = jobs[j].result
    OBVIOUS
  <2>2. <<<<j, jobs[j].attempts>>, x>> \in trail /\ Backed(j, x) /\ TablesOK
    BY <2>1, <1>1 DEF IInv, JobOK
  <2>3. (runs[x].status = "completed") => (reports[x] # 0)
    <3>1. runs[x].status = "completed" => /\ reports[x] = snapshots[runs[x].snapshot].rows
                                         /\ snapshots[runs[x].snapshot].rows \in Version
      BY <2>2 DEF TablesOK, Backed
    <3>2. QED
      BY <3>1 DEF Version
  <2>4. QED
    BY <2>1, <2>2, <2>3 DEF Backed
<1>2. IInv => SuccessIsBacked
  BY <1>1 DEF SuccessIsBacked
<1>3. QED
  BY <1>2, InvHolds, PTL

-----------------------------------------------------------------------------
(* Steps that readers notice *)

\* Nothing is sealed or reported, and what is keeps its content.
Quiet ==
    /\ \A s \in Attempt :
            /\ (snapshots'[s].status = "completed") <=> (snapshots[s].status = "completed")
            /\ (snapshots[s].status = "completed") => (snapshots'[s] = snapshots[s])
    /\ reports' = reports

\* A finished row is not written again.
Final ==
    \A a \in Attempt :
        /\ snapshots[a].status # "none" => snapshots'[a] = snapshots[a]
        /\ runs[a].status \in {"failed", "completed"} => runs'[a] = runs[a]
        /\ reports[a] # 0 => reports'[a] = reports[a]

\* Steps that write no table seal and report nothing;
LEMMA TablesUntouched ==
    ASSUME UNCHANGED tables
    PROVE  Quiet /\ Final
BY DEF tables, Quiet, Final

\* neither does the trace of a refusal,
LEMMA RejectIsQuiet ==
    ASSUME IInv, NEW a \in Attempt, record_failed_snapshot(a)
    PROVE  Quiet /\ Final
<1>1. TablesOK /\ AttemptOK(a, "reject", local[a]) /\ UNCHANGED <<runs, reports>>
  BY DEF IInv, record_failed_snapshot
<1>2. snapshots[a].status = "none"
  BY <1>1 DEF AttemptOK, Importing
<1>3. snapshots'[a].status = "failed" /\ \A s \in Attempt \ {a} : snapshots'[s] = snapshots[s]
  BY <1>1 DEF record_failed_snapshot, TablesOK, NoSnapshot
<1>4. QED
  BY <1>1, <1>2, <1>3 DEF Quiet, Final

\* nor a run that starts or fails.
LEMMA RunsAreQuiet ==
    ASSUME IInv, NEW a \in Attempt, start_run(a) \/ fail_run(a)
    PROVE  Quiet /\ Final
<1>1. TablesOK /\ UNCHANGED <<snapshots, reports>>
  BY DEF IInv, start_run, fail_run
<1>2. \A r \in Attempt \ {a} : runs'[r] = runs[r]
  BY <1>1 DEF start_run, fail_run, MayChange, TablesOK
<1>3. runs[a].status \in {"failed", "completed"} => runs'[a] = runs[a]
  <2>1. CASE start_run(a)
    BY <2>1 DEF start_run, IInv, AttemptOK
  <2>2. CASE fail_run(a)
    BY <2>2 DEF fail_run, MayChange
  <2>3. QED
    BY <2>1, <2>2
<1>4. QED
  BY <1>1, <1>2, <1>3 DEF Quiet, Final

\* To seal changes no row that is sealed or failed,
LEMMA SealIsFinal ==
    ASSUME IInv, NEW a \in Attempt, NEW answered, SealSnapshot(a, answered)
    PROVE  Final
<1>1. \E row : /\ snapshots[a].status = "none" /\ snapshots' = [snapshots EXCEPT ![a] = row]
               /\ UNCHANGED <<runs, reports>>
  BY Seals
<1>2. snapshots \in [Attempt -> SnapshotRecord]
  BY DEF IInv, TablesOK
<1>3. QED
  BY <1>1, <1>2 DEF Final

\* nor does to complete a run.
LEMMA CompleteIsFinal ==
    ASSUME IInv, NEW a \in Attempt, NEW answered, complete_run(a, answered)
    PROVE  Final
<1>1. \E row, c : /\ runs[a].status = "running" /\ reports[a] = 0
                  /\ runs' = [runs EXCEPT ![a] = row]
                  /\ reports' = [reports EXCEPT ![a] = c]
                  /\ UNCHANGED snapshots
  BY Reports
<1>2. runs \in [Attempt -> AnalysisRunRecord] /\ reports \in [Attempt -> 0 .. MaxVersion]
  BY DEF IInv, TablesOK
<1>3. QED
  BY <1>1, <1>2 DEF Final

\* Every other step is quiet.
LEMMA StepsNoticed ==
    ASSUME IInv, [Next]_vars
    PROVE  \/ Quiet /\ Final
           \/ \E a \in Attempt, answered \in BOOLEAN :
                 SealSnapshot(a, answered) \/ complete_run(a, answered)
<1>1. CASE UNCHANGED vars
  <2>1. UNCHANGED tables
    BY <1>1 DEF vars, tables
  <2>2. QED
    BY <2>1, TablesUntouched
<1>2. CASE \/ EditFiles \/ RevokeConnection
           \/ \E j \in Job : EnqueueImport(j) \/ Claim(j) \/ RecoverJob(j)
           \/ \E j \in Job, s \in Attempt : EnqueueAnalysis(j, s)
  <2>1. UNCHANGED tables
    BY <1>2 DEF EditFiles, RevokeConnection, EnqueueImport, Claim, RecoverJob, EnqueueAnalysis
  <2>2. QED
    BY <2>1, TablesUntouched
<1>3. ASSUME NEW a \in Attempt, ImportMove(a) \/ OtherMove(a) \/ MarkSucceeded(a) \/ MarkFailed(a)
      PROVE  Quiet /\ Final
  <2>1. UNCHANGED tables
    BY <1>3 DEF ImportMove, BeginImport, ValidateFiles, FindSnapshot, LoadSources, HashAgain,
         OpenSnapshot, SealConflict, OtherMove, BeginAnalysis, FindRun, RunEngine,
         CompleteConflict, TraceSuccess, TraceRefusal, Crash, Raise, MarkSucceeded, MarkFailed
  <2>2. QED
    BY <2>1, TablesUntouched
<1>4. ASSUME NEW a \in Attempt, AttemptStep(a) \/ Crash(a)
      PROVE  \/ Quiet /\ Final
             \/ \E answered \in BOOLEAN : SealSnapshot(a, answered) \/ complete_run(a, answered)
  <2>1. CASE record_failed_snapshot(a) \/ start_run(a) \/ fail_run(a)
    BY <2>1, RejectIsQuiet, RunsAreQuiet
  <2>2. CASE ImportMove(a) \/ OtherMove(a) \/ MarkSucceeded(a) \/ MarkFailed(a)
    BY <2>2, <1>3
  <2>3. QED
    BY <1>4, <2>1, <2>2 DEF AttemptStep, ImportStep, AnalysisStep, ImportMove, OtherMove
<1>5. ASSUME NEW a \in Attempt, NEW cause \in Cause, Raise(a, cause)
      PROVE  Quiet /\ Final
  <2>1. OtherMove(a)
    BY <1>5 DEF OtherMove
  <2>2. QED
    BY <2>1, <1>3
<1>6. QED
  BY <1>1, <1>2, <1>4, <1>5 DEF Next

\* What is sealed, failed, completed or reported stays as it is, whichever attempt writes
\* and however long ago it lost its lease.
THEOREM FinishedStays == Spec => FinishedIsFinal
<1>1. IInv /\ [Next]_vars => Final
  BY StepsNoticed, SealIsFinal, CompleteIsFinal
<1>2. IInv /\ [Next]_vars => [Final]_vars
  BY <1>1
<1>3. Spec => [][Final]_vars
  BY <1>2, InvHolds, PTL DEF Spec
<1>4. QED
  BY <1>3, PTL DEF Final, FinishedIsFinal

-----------------------------------------------------------------------------
(* The promise to the readers of snapshots and reports *)

SealedNow == {<<s, snapshots[s].inputs_sha256>> :
                s \in {a \in Attempt : snapshots[a].status = "completed"}}
Reported(r) == snapshots[runs[r].snapshot].inputs_sha256
ReportedNow == {<<r, Reported(r)>> : r \in {a \in Attempt : reports[a] # 0}}

\* At first nothing is promised;
LEMMA PromiseStarts == Init => Promise!Init
<1> SUFFICES ASSUME Init PROVE Promise!Init
  OBVIOUS
<1>1. \A a \in Attempt : snapshots[a].status = "none" /\ reports[a] = 0
  BY DEF Init, NoSnapshot
<1>2. QED
  BY <1>1 DEF Promise!Init

\* what is reported stays under its fingerprint;
LEMMA ReportedStays ==
    ASSUME IInv, Final, NEW r \in Attempt, reports[r] # 0
    PROVE  Reported(r)' = Reported(r)
<1>1. TablesOK
  BY DEF IInv
<1>2. PICK s : s = runs[r].snapshot
  OBVIOUS
<1>3. runs[r].status = "completed" /\ s \in Attempt /\ snapshots[s].status = "completed"
  BY <1>1, <1>2 DEF TablesOK
<1>4. runs'[r] = runs[r] /\ snapshots'[s] = snapshots[s]
  BY <1>3 DEF Final
<1>5. QED
  BY <1>2, <1>4 DEF Reported

\* quiet steps promise nothing more;
LEMMA QuietStutters ==
    ASSUME IInv, Quiet, Final
    PROVE  UNCHANGED <<SealedNow, ReportedNow>>
<1>1. SealedNow' = SealedNow
  <2>1. ASSUME NEW e PROVE e \in SealedNow' <=> e \in SealedNow
    BY DEF Quiet, SealedNow
  <2>2. QED
    BY <2>1
<1>2. ReportedNow' = ReportedNow
  <2>1. reports' = reports
    BY DEF Quiet
  <2>2. ASSUME NEW e PROVE e \in ReportedNow' <=> e \in ReportedNow
    BY <2>1, ReportedStays DEF ReportedNow
  <2>3. QED
    BY <2>2
<1>3. QED
  BY <1>1, <1>2

\* to seal is to promise a content once,
LEMMA SealIsPromised ==
    ASSUME IInv, NEW a \in Attempt, NEW answered, SealSnapshot(a, answered)
    PROVE  \E c \in Version :
              /\ \A s \in SealedNow : s[2] # c
              /\ SealedNow' = SealedNow \cup {<<a, c>>}
              /\ UNCHANGED ReportedNow
<1>1. PICK row \in SnapshotRecord :
              /\ row.status = "completed" /\ row.inputs_sha256 \in Version
              /\ row.rows \in Version /\ Framed(row.inputs_sha256, row.rows)
              /\ snapshots[a].status = "none"
              /\ \A s \in Attempt : ~Sealed(s, row.inputs_sha256)
              /\ snapshots' = [snapshots EXCEPT ![a] = row]
              /\ UNCHANGED <<history, jobs, runs, reports, trail>>
              /\ a[1] \in ImportJob
  BY Seals
<1>2. PICK c : c = row.inputs_sha256
  OBVIOUS
<1>3. /\ snapshots'[a] = row /\ \A s \in Attempt \ {a} : snapshots'[s] = snapshots[s]
  BY <1>1 DEF IInv, TablesOK
<1>4. \A s \in SealedNow : s[2] # c
  BY <1>1, <1>2 DEF SealedNow, Sealed
<1>5. SealedNow' = SealedNow \cup {<<a, c>>}
  <2>1. ASSUME NEW e PROVE e \in SealedNow' <=> e \in SealedNow \cup {<<a, c>>}
    BY <1>1, <1>2, <1>3 DEF SealedNow
  <2>2. QED
    BY <2>1
<1>6. UNCHANGED ReportedNow
  <2>1. reports' = reports /\ Final
    BY <1>1, SealIsFinal
  <2>2. ASSUME NEW e PROVE e \in ReportedNow' <=> e \in ReportedNow
    BY <2>1, ReportedStays DEF ReportedNow
  <2>3. QED
    BY <2>2
<1>7. QED
  BY <1>1, <1>2, <1>4, <1>5, <1>6

\* and to complete a run, its report.
LEMMA ReportIsPromised ==
    ASSUME IInv, NEW a \in Attempt, NEW answered, complete_run(a, answered)
    PROVE  \E c \in Version :
              /\ \E s \in SealedNow : s[2] = c
              /\ \A r \in ReportedNow : r[2] # c
              /\ ReportedNow' = ReportedNow \cup {<<a, c>>}
              /\ UNCHANGED SealedNow
<1>1. PICK row \in AnalysisRunRecord, d \in Version :
              /\ row.status = "completed" /\ row.snapshot = runs[a].snapshot
              /\ runs[a].status = "running" /\ reports[a] = 0
              /\ row.snapshot \in Attempt /\ snapshots[row.snapshot].status = "completed"
              /\ d = snapshots[row.snapshot].rows
              /\ row.snapshot = jobs[a[1]].snapshot
              /\ \A r \in Attempt : ~Completed(r, row.snapshot)
              /\ runs' = [runs EXCEPT ![a] = row]
              /\ reports' = [reports EXCEPT ![a] = d]
              /\ UNCHANGED <<history, jobs, snapshots, trail>>
              /\ a[1] \in AnalysisJob
  BY Reports
<1>2. TablesOK /\ Final
  BY CompleteIsFinal DEF IInv
<1>3. PICK c : c = snapshots[row.snapshot].inputs_sha256
  OBVIOUS
<1>4. c \in Version /\ <<row.snapshot, c>> \in SealedNow
  BY <1>1, <1>2, <1>3 DEF TablesOK, SealedNow
\* A run reported under c would be over the same snapshot.
<1>5. ASSUME NEW r \in Attempt, reports[r] # 0, Reported(r) = c PROVE FALSE
  <2>1. /\ runs[r].status = "completed" /\ runs[r].snapshot \in Attempt
        /\ snapshots[runs[r].snapshot].status = "completed"
    BY <1>2, <1>5 DEF TablesOK
  <2>2. runs[r].snapshot = row.snapshot
    <3>1. PICK s \in Attempt : s = runs[r].snapshot
      BY <2>1
    <3>2. PICK t \in Attempt : t = row.snapshot
      BY <1>1
    <3>3. /\ snapshots[s].status = "completed" /\ snapshots[t].status = "completed"
          /\ snapshots[s].inputs_sha256 = snapshots[t].inputs_sha256
      BY <3>1, <3>2, <2>1, <1>1, <1>3, <1>5 DEF Reported
    <3>4. s = t
      BY <3>3, <1>2 DEF TablesOK
    <3>5. QED
      BY <3>1, <3>2, <3>4
  <2>3. QED
    BY <2>1, <2>2, <1>1 DEF Completed
<1>6. \A r \in ReportedNow : r[2] # c
  BY <1>5 DEF ReportedNow
<1>7. /\ reports'[a] # 0 /\ \A r \in Attempt \ {a} : reports'[r] = reports[r]
      /\ Reported(a)' = c
  <2>1. reports'[a] = d /\ \A r \in Attempt \ {a} : reports'[r] = reports[r]
    BY <1>1, <1>2 DEF TablesOK
  <2>2. runs'[a].snapshot = row.snapshot
    BY <1>1, <1>2 DEF TablesOK
  <2>3. QED
    BY <2>1, <2>2, <1>1, <1>3 DEF Reported, Version
<1>8. ReportedNow' = ReportedNow \cup {<<a, c>>}
  <2>1. \A r \in Attempt : reports'[r] # 0 <=> r = a \/ reports[r] # 0
    BY <1>1, <1>7
  <2>2. \A r \in Attempt : reports[r] # 0 => Reported(r)' = Reported(r)
    BY <1>2, ReportedStays
  <2>3. ASSUME NEW e PROVE e \in ReportedNow' <=> e \in ReportedNow \cup {<<a, c>>}
    BY <2>1, <2>2, <1>1, <1>7 DEF ReportedNow
  <2>4. QED
    BY <2>3
<1>9. UNCHANGED SealedNow
  BY <1>1 DEF SealedNow
<1>10. QED
  BY <1>1, <1>4, <1>6, <1>8, <1>9

\* So each step is one of the promise, or changes nothing in it.
LEMMA StepIsPromised ==
    ASSUME IInv, [Next]_vars
    PROVE  Promise!Next \/ UNCHANGED Promise!promiseVars
<1> USE DEF Promise!Next, Promise!Seal, Promise!Report, Promise!promiseVars
<1>1. CASE Quiet /\ Final
  BY <1>1, QuietStutters DEF SealedNow, ReportedNow, Reported
<1>2. ASSUME NEW a \in Attempt, NEW answered \in BOOLEAN, SealSnapshot(a, answered)
      PROVE  Promise!Next
  <2>1. PICK c \in Version :
              /\ \A s \in SealedNow : s[2] # c
              /\ SealedNow' = SealedNow \cup {<<a, c>>}
              /\ UNCHANGED ReportedNow
    BY <1>2, SealIsPromised
  <2>2. Promise!Seal(a, c)
    BY <2>1 DEF SealedNow, ReportedNow, Reported
  <2>3. QED
    BY <2>2
<1>3. ASSUME NEW a \in Attempt, NEW answered \in BOOLEAN, complete_run(a, answered)
      PROVE  Promise!Next
  <2>1. PICK c \in Version :
              /\ \E s \in SealedNow : s[2] = c
              /\ \A r \in ReportedNow : r[2] # c
              /\ ReportedNow' = ReportedNow \cup {<<a, c>>}
              /\ UNCHANGED SealedNow
    BY <1>3, ReportIsPromised
  <2>2. Promise!Report(a, c)
    BY <2>1 DEF SealedNow, ReportedNow, Reported
  <2>3. QED
    BY <2>2
<1>4. QED
  BY <1>1, <1>2, <1>3, StepsNoticed

\* Behind any number of jobs, attempts, crashes and lost answers, a fingerprint is sealed once,
\* reported once, and neither is withdrawn: Content implements ContentPromise.
THEOREM ContentKeepsItsPromise == Spec => Refines
<1>1. Init => Promise!Init
  BY PromiseStarts
<1>2. IInv /\ [Next]_vars => [Promise!Next]_Promise!promiseVars
  BY StepIsPromised
<1>3. QED
  BY <1>1, <1>2, InvHolds, PTL DEF Spec, Refines, Promise!Spec
=============================================================================
