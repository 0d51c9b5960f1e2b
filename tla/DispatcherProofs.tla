--------------------------- MODULE DispatcherProofs ---------------------------
(***************************************************************************)
(* What holds of the dispatcher for any number of organizations, workers   *)
(* and jobs, and any size of its lists: no row and no turn is taken twice, *)
(* and, with the observation of DispatcherTurns, how often an organization *)
(* that waits is overtaken, and that a claim passes over none.             *)
(***************************************************************************)
EXTENDS DispatcherTurns, FiniteSetTheorems, TLAPS

-----------------------------------------------------------------------------
(* Lists of organizations *)

\* A list that serves no organization twice and fits in one batch.
Turn(s) == s \in Seq(Org) /\ IsInjective(s) /\ Len(s) <= Batch

\* A page is a list of elements of its set, no longer than its limit, without repetition.
LEMMA PageIsList ==
    ASSUME NEW n \in Nat, NEW S \in SUBSET Org, NEW s \in Page(n, S)
    PROVE  /\ s \in Seq(Org) /\ Len(s) <= n /\ IsInjective(s)
           /\ Range(s) \subseteq S
<1>1. PICK m \in 0 .. n : s \in [1 .. m -> S]
  BY DEF Page, SeqOf
<1>2. s \in Seq(Org) /\ Len(s) = m /\ DOMAIN s = 1 .. m
  BY <1>1
<1>3. Range(s) \subseteq S
  BY <1>1 DEF Range
<1>4. IsInjective(s)
  <2> SUFFICES ASSUME NEW i \in 1 .. m, NEW j \in 1 .. m, s[i] = s[j] PROVE i = j
    BY <1>2 DEF IsInjective
  <2>1. s[i] \in Nat /\ s[j] \in Nat
    <3>1. s[i] \in S /\ s[j] \in S
      BY <1>1
    <3>2. S \subseteq Nat
      BY DispatcherAssumption DEF Org
    <3>3. QED
      BY <3>1, <3>2
  <2>2. /\ i < j => s[i] < s[j]
        /\ j < i => s[j] < s[i]
    BY <1>2 DEF Page
  <2>3. QED
    BY <2>1, <2>2
<1>5. QED
  BY <1>1, <1>2, <1>3, <1>4

\* Serving the first organization of a list leaves a list.
LEMMA TailIsTurn ==
    ASSUME NEW s, Turn(s), s # <<>>
    PROVE  Turn(Tail(s)) /\ Head(s) \in Org
<1>1. /\ s \in Seq(Org) /\ Len(s) \in Nat \ {0} /\ DOMAIN s = 1 .. Len(s)
      /\ Tail(s) \in Seq(Org) /\ Len(Tail(s)) = Len(s) - 1 /\ Head(s) \in Org
  BY DEF Turn
<1>2. \A i \in 1 .. Len(Tail(s)) : Tail(s)[i] = s[i + 1]
  BY <1>1
<1>3. IsInjective(Tail(s))
  <2> SUFFICES ASSUME NEW i \in 1 .. Len(Tail(s)), NEW j \in 1 .. Len(Tail(s)), Tail(s)[i] = Tail(s)[j]
               PROVE  i = j
    BY <1>1 DEF IsInjective
  <2>1. i + 1 \in DOMAIN s /\ j + 1 \in DOMAIN s /\ s[i + 1] = s[j + 1]
    BY <1>1, <1>2
  <2>2. i + 1 = j + 1
    BY <2>1 DEF Turn, IsInjective
  <2>3. QED
    BY <2>2
<1>4. QED
  BY <1>1, <1>3, DispatcherAssumption DEF Turn

\* The two queries of a wrapped list make one list.
LEMMA WrappedIsTurn ==
    ASSUME NEW s, Turn(s), NEW S \in SUBSET Org,
           NEW t \in Page(Batch - Len(s), S \ Range(s))
    PROVE  Turn(s \o t)
<1>1. s \in Seq(Org) /\ Len(s) \in Nat /\ Batch - Len(s) \in Nat
  BY DispatcherAssumption DEF Turn
<1>2. /\ t \in Seq(Org) /\ Len(t) \in Nat /\ Len(t) <= Batch - Len(s) /\ IsInjective(t)
      /\ Range(t) \subseteq S \ Range(s)
  BY <1>1, PageIsList
<1>3. /\ s \o t \in Seq(Org) /\ Len(s \o t) = Len(s) + Len(t) /\ Len(s \o t) <= Batch
      /\ \A i \in 1 .. Len(s) : (s \o t)[i] = s[i]
      /\ \A i \in Len(s) + 1 .. Len(s) + Len(t) : (s \o t)[i] = t[i - Len(s)]
  BY <1>1, <1>2, DispatcherAssumption
<1>4. \A i \in 1 .. Len(s), j \in 1 .. Len(t) : s[i] # t[j]
  BY <1>1, <1>2 DEF Range
<1>5. IsInjective(s \o t)
  <2> SUFFICES ASSUME NEW i \in 1 .. Len(s) + Len(t), NEW j \in 1 .. Len(s) + Len(t),
                      (s \o t)[i] = (s \o t)[j]
               PROVE  i = j
    <3>1. DOMAIN (s \o t) = 1 .. Len(s) + Len(t)
      BY <1>3
    <3>2. QED
      BY <3>1 DEF IsInjective
  <2>1. CASE i <= Len(s) /\ j <= Len(s)
    BY <2>1, <1>1, <1>3 DEF Turn, IsInjective
  <2>2. CASE i > Len(s) /\ j > Len(s)
    <3>1. i - Len(s) \in 1 .. Len(t) /\ j - Len(s) \in 1 .. Len(t) /\ t[i - Len(s)] = t[j - Len(s)]
      BY <2>2, <1>1, <1>2, <1>3
    <3>2. i - Len(s) = j - Len(s)
      BY <3>1, <1>2 DEF IsInjective
    <3>3. QED
      BY <3>2, <1>1, <1>2
  <2>3. CASE i <= Len(s) /\ j > Len(s)
    <3>1. j - Len(s) \in 1 .. Len(t) /\ i \in 1 .. Len(s) /\ s[i] = t[j - Len(s)]
      BY <2>3, <1>1, <1>2, <1>3
    <3>2. QED
      BY <3>1, <1>4
  <2>4. CASE i > Len(s) /\ j <= Len(s)
    <3>1. i - Len(s) \in 1 .. Len(t) /\ j \in 1 .. Len(s) /\ s[j] = t[i - Len(s)]
      BY <2>4, <1>1, <1>2, <1>3
    <3>2. QED
      BY <3>1, <1>4
  <2>5. QED
    BY <2>1, <2>2, <2>3, <2>4, <1>1, <1>2
<1>6. QED
  BY <1>3, <1>5 DEF Turn

-----------------------------------------------------------------------------
(* Processes *)

Places == {"idle", "choosing", "wrapping", "claiming", "holding", "sweeping", "recovering", "crashed"}
InHand == {"claiming", "holding", "recovering"}

\* The strengthening of both properties, for one process: an open transaction and a
\* job in hand belong to an organization, and what is left of a list is a list.
Sound(p) ==
    /\ p \in Process
    /\ Turn(p.pending)
    /\ p.at \in InHand => p.org \in Org

\* The empty list is one.
LEMMA NoTurn == Turn(<<>>)
<1>1. <<>> \in Seq(Org) /\ Len(<<>>) = 0
  OBVIOUS
<1>2. IsInjective(<<>>)
  BY DEF IsInjective
<1>3. QED
  BY <1>1, <1>2, DispatcherAssumption DEF Turn

\* A process that starts, or that has ended, has nothing in hand.
LEMMA StartedIsSound == Sound(Started) /\ Sound(Crashed)
<1>1. Started \in Process /\ Started.at = "idle" /\ Started.pending = <<>>
  BY DEF Started, Process
<1>2. \A p \in Process : [p EXCEPT !.at = "crashed"] \in Process
  BY DEF Process
<1>3. Crashed \in Process /\ Crashed.at = "crashed" /\ Crashed.pending = <<>>
  BY <1>1, <1>2 DEF Crashed, Started
<1>4. QED
  BY <1>1, <1>3, NoTurn DEF Sound, InHand

\* The fields of a process that a step changes.
LEMMA ProcessChanges ==
    ASSUME NEW p \in Process
    PROVE  /\ \A a \in Places : [p EXCEPT !.at = a] \in Process
           /\ \A s \in Seq(Org) : [p EXCEPT !.pending = s] \in Process
           /\ \A s \in Seq(Org) : [p EXCEPT !.sweep = s] \in Process
           /\ \A a \in Places, s \in Seq(Org) : [p EXCEPT !.at = a, !.sweep = s] \in Process
           /\ \A a \in Places, s \in Seq(Org) : [p EXCEPT !.at = a, !.pending = s] \in Process
           /\ \A a \in Places, b \in BOOLEAN : [p EXCEPT !.at = a, !.fetched = b] \in Process
           /\ \A a \in Places, n \in Nat : [p EXCEPT !.at = a, !.org = NoOrg, !.rows = n] \in Process
           /\ \A a \in Places, b \in BOOLEAN, s \in Seq(Org), o \in Org \cup {NoOrg} :
                  [p EXCEPT !.at = a, !.fetched = b, !.pending = s, !.cursor = o] \in Process
           /\ \A a \in Places, n \in Nat, s \in Seq(Org), o \in Org :
                  [p EXCEPT !.pending = s, !.at = a, !.org = o, !.rows = n] \in Process
           /\ \A a \in Places, n \in Nat, s \in Seq(Org), o \in Org :
                  [p EXCEPT !.sweep = s, !.at = a, !.org = o, !.rows = n] \in Process
           /\ \A s \in Seq(Org), o \in Org \cup {NoOrg} :
                  [p EXCEPT !.pending = s, !.cursor = o] \in Process
<1>1. /\ \A a \in Places : [p EXCEPT !.at = a] \in Process
      /\ \A s \in Seq(Org) : [p EXCEPT !.pending = s] \in Process
      /\ \A s \in Seq(Org) : [p EXCEPT !.sweep = s] \in Process
  BY DEF Process, Places
<1>2. \A a \in Places, s \in Seq(Org) : [p EXCEPT !.at = a, !.sweep = s] \in Process
  BY DEF Process, Places
<1>3. \A a \in Places, s \in Seq(Org) : [p EXCEPT !.at = a, !.pending = s] \in Process
  BY DEF Process, Places
<1>4. \A a \in Places, n \in Nat : [p EXCEPT !.at = a, !.org = NoOrg, !.rows = n] \in Process
  BY DEF Process, Places
<1>5. \A a \in Places, b \in BOOLEAN : [p EXCEPT !.at = a, !.fetched = b] \in Process
  BY DEF Process, Places
<1>6. \A a \in Places, b \in BOOLEAN, s \in Seq(Org), o \in Org \cup {NoOrg} :
          [p EXCEPT !.at = a, !.fetched = b, !.pending = s, !.cursor = o] \in Process
  BY DEF Process, Places
<1>7. \A a \in Places, n \in Nat, s \in Seq(Org), o \in Org :
          [p EXCEPT !.pending = s, !.at = a, !.org = o, !.rows = n] \in Process
  BY DEF Process, Places
<1>8. \A a \in Places, n \in Nat, s \in Seq(Org), o \in Org :
          [p EXCEPT !.sweep = s, !.at = a, !.org = o, !.rows = n] \in Process
  BY DEF Process, Places
<1>9. \A s \in Seq(Org), o \in Org \cup {NoOrg} : [p EXCEPT !.pending = s, !.cursor = o] \in Process
  BY DEF Process, Places
<1>10. QED
  BY <1>1, <1>2, <1>3, <1>4, <1>5, <1>6, <1>7, <1>8, <1>9, Zenon

-----------------------------------------------------------------------------
(* The steps *)

Inv ==
    /\ DispatcherTypeOK
    /\ \A w \in Worker : Sound(worker[w])

\* What every step does to the processes: at most one of them changes, and soundly.
Advances ==
    \/ UNCHANGED worker
    \/ \E w \in Worker, p \in Process : Sound(p) /\ worker' = [worker EXCEPT ![w] = p]

\* If one process advances soundly and the counters keep their types, so does the system.
LEMMA AdvancesSuffices ==
    ASSUME Inv, Advances,
           ready' \in [Org -> Nat], leased' \in [Org -> Nat], stale' \in [Org -> Nat],
           authorized' \in SUBSET Org, faults' \in 0 .. MaxFaults
    PROVE  Inv'
<1>1. CASE UNCHANGED worker
  BY <1>1 DEF Inv, DispatcherTypeOK
<1>2. CASE \E w \in Worker, p \in Process : Sound(p) /\ worker' = [worker EXCEPT ![w] = p]
  <2>1. PICK w \in Worker, p \in Process : Sound(p) /\ worker' = [worker EXCEPT ![w] = p]
    BY <1>2
  <2>2. worker' \in [Worker -> Process]
    BY <2>1 DEF Inv, DispatcherTypeOK
  <2>3. \A v \in Worker : Sound(worker'[v])
    BY <2>1 DEF Inv, DispatcherTypeOK
  <2>4. QED
    BY <2>2, <2>3 DEF Inv, DispatcherTypeOK
<1>3. QED
  BY <1>1, <1>2 DEF Advances

\* One table of counters changes by a number that keeps it natural.
LEMMA CountersStayNatural ==
    ASSUME NEW f \in [Org -> Nat], NEW o \in Org, NEW n \in Nat
    PROVE  [f EXCEPT ![o] = n] \in [Org -> Nat]
OBVIOUS

\* A process that ends its call keeps its list, and nothing else.
LEMMA BackToIdleIsSound ==
    ASSUME Inv, NEW w \in Worker
    PROVE  /\ Sound(BackToIdle(w))
           /\ BackToIdle(w).at = "idle"
           /\ BackToIdle(w).pending = worker[w].pending
<1>1. worker[w] \in Process /\ Turn(worker[w].pending)
  BY DEF Inv, DispatcherTypeOK, Sound
<1>2. worker[w].pending \in Seq(Org) /\ worker[w].cursor \in Org \cup {NoOrg}
  BY <1>1 DEF Process
<1>3. BackToIdle(w) \in Process
  BY <1>2, StartedIsSound, ProcessChanges DEF BackToIdle, Sound
<1>4. BackToIdle(w).at = "idle" /\ BackToIdle(w).pending = worker[w].pending
  BY DEF BackToIdle, Started
<1>5. QED
  BY <1>1, <1>3, <1>4 DEF Sound, InHand

\* A list that has just been made.
LEMMA TakeIsSound ==
    ASSUME Inv, NEW w \in Worker, NEW found, Turn(found)
    PROVE  Sound(Take(w, found))
<1>1. worker[w] \in Process /\ found \in Seq(Org)
  BY DEF Inv, DispatcherTypeOK, Turn
<1>2. (IF found = <<>> THEN NoOrg ELSE Last(found)) \in Org \cup {NoOrg}
  BY <1>1 DEF Last
<1>3. Take(w, found) \in Process
  BY <1>1, <1>2, ProcessChanges DEF Take, Places
<1>4. Take(w, found).at = "choosing" /\ Take(w, found).pending = found
  BY <1>1 DEF Take, Process
<1>5. QED
  BY <1>3, <1>4 DEF Sound, InHand

\* One worker moves, the tables and the count of faults stay.
LEMMA MoveSuffices ==
    ASSUME Inv, UNCHANGED <<Tables, faults>>,
           NEW w \in Worker, NEW p, Sound(p), worker' = [worker EXCEPT ![w] = p]
    PROVE  Inv'
<1>1. Advances
  BY DEF Advances, Sound
<1>2. QED
  BY <1>1, AdvancesSuffices DEF Inv, DispatcherTypeOK, Tables

\* The making of a list.
LEMMA ListsKeepInv ==
    ASSUME Inv, NEW w \in Worker, StartClaim(w) \/ ListReady(w) \/ ListFromStart(w) \/ ClaimsNothing(w)
    PROVE  Inv'
<1> DEFINE q == worker[w]
<1>1. q \in Process /\ Turn(q.pending) /\ authorized \in SUBSET Org
  BY DEF Inv, DispatcherTypeOK, Sound
<1>2. Ready \in SUBSET Org
  BY <1>1 DEF Ready
<1>3. Batch \in Nat
  BY DispatcherAssumption
<1>4. CASE StartClaim(w)
  <2>1. worker' = [worker EXCEPT ![w] = [q EXCEPT !.at = "choosing"]]
    BY <1>4 DEF StartClaim
  <2>2. [q EXCEPT !.at = "choosing"] \in Process
    BY <1>1, ProcessChanges DEF Places
  <2>3. Sound([q EXCEPT !.at = "choosing"])
    BY <1>1, <2>2 DEF Sound, InHand, Process
  <2>4. QED
    BY <1>4, <2>1, <2>3, MoveSuffices DEF StartClaim
<1>5. CASE ListReady(w)
  <2>1. PICK found \in Page(Batch, {o \in Ready : o > q.cursor}) :
            worker' = [worker EXCEPT ![w] =
                IF Len(found) < Batch /\ q.cursor # NoOrg
                THEN [q EXCEPT !.at = "wrapping", !.pending = found]
                ELSE Take(w, found)]
    BY <1>5, <1>1 DEF ListReady, Inv, DispatcherTypeOK
  <2>2. Turn(found)
    BY <1>2, <1>3, PageIsList DEF Turn
  <2>3. Sound(Take(w, found))
    BY <2>2, TakeIsSound
  <2>4. [q EXCEPT !.at = "wrapping", !.pending = found] \in Process
    BY <1>1, <2>2, ProcessChanges DEF Places, Turn
  <2>5. Sound([q EXCEPT !.at = "wrapping", !.pending = found])
    BY <1>1, <2>2, <2>4 DEF Sound, InHand, Process
  <2>6. UNCHANGED <<Tables, faults>>
    BY <1>5 DEF ListReady
  <2>7. CASE Len(found) < Batch /\ q.cursor # NoOrg
    BY <2>1, <2>5, <2>6, <2>7, MoveSuffices
  <2>8. CASE ~(Len(found) < Batch /\ q.cursor # NoOrg)
    BY <2>1, <2>3, <2>6, <2>8, MoveSuffices
  <2>9. QED
    BY <2>7, <2>8
<1>6. CASE ListFromStart(w)
  <2>1. PICK wrapped \in Page(Batch, Ready) :
            \E others \in Page(Batch - Len(q.pending), New(wrapped, q.pending)) :
                worker' = [worker EXCEPT ![w] = Take(w, q.pending \o others)]
    BY <1>6 DEF ListFromStart
  <2>2. PICK others \in Page(Batch - Len(q.pending), New(wrapped, q.pending)) :
            worker' = [worker EXCEPT ![w] = Take(w, q.pending \o others)]
    BY <2>1
  <2>3. Range(wrapped) \in SUBSET Org
    BY <1>2, <1>3, PageIsList
  <2>4. Turn(q.pending \o others)
    BY <1>1, <2>2, <2>3, WrappedIsTurn DEF New
  <2>5. Sound(Take(w, q.pending \o others))
    BY <2>4, TakeIsSound
  <2>6. QED
    BY <1>6, <2>2, <2>5, MoveSuffices DEF ListFromStart
<1>7. CASE ClaimsNothing(w)
  BY <1>7, BackToIdleIsSound, MoveSuffices DEF ClaimsNothing
<1>8. QED
  BY <1>4, <1>5, <1>6, <1>7

\* A claim takes a row that no open transaction holds.
LEMMA ClaimKeepsInv ==
    ASSUME Inv, NEW w \in Worker, SkipsOrganization(w) \/ LocksJob(w) \/ ClaimCommits(w)
    PROVE  Inv'
<1> DEFINE q == worker[w]
<1>1. q \in Process /\ Turn(q.pending) /\ (q.at \in InHand => q.org \in Org)
  BY DEF Inv, DispatcherTypeOK, Sound
<1>2. CASE SkipsOrganization(w)
  <2>1. Turn(Tail(q.pending))
    BY <1>1, <1>2, TailIsTurn DEF SkipsOrganization, Choosing
  <2>2. worker' = [worker EXCEPT ![w] = [q EXCEPT !.pending = Tail(q.pending)]] /\ q.at = "choosing"
    BY <1>2, <1>1 DEF SkipsOrganization, Choosing, At
  <2>3. [q EXCEPT !.pending = Tail(q.pending)] \in Process
    BY <1>1, <2>1, ProcessChanges DEF Turn
  <2>4. Sound([q EXCEPT !.pending = Tail(q.pending)])
    BY <1>1, <2>1, <2>2, <2>3 DEF Sound, InHand, Process
  <2>5. QED
    BY <1>2, <2>2, <2>4, MoveSuffices DEF SkipsOrganization
<1>3. CASE LocksJob(w)
  <2> DEFINE o == Head(q.pending)
             p == [q EXCEPT !.pending = Tail(q.pending), !.at = "claiming", !.org = o, !.rows = 1]
  <2>1. Turn(Tail(q.pending)) /\ o \in Org
    BY <1>1, <1>3, TailIsTurn DEF LocksJob, Choosing
  <2>2. worker' = [worker EXCEPT ![w] = p]
    BY <1>3, <1>1 DEF LocksJob, Chosen, Inv, DispatcherTypeOK
  <2>3. p \in Process
    BY <1>1, <2>1, ProcessChanges DEF Places, Turn
  <2>4. Sound(p)
    <3>1. p.pending = Tail(q.pending) /\ p.at = "claiming" /\ p.org = o
      BY <1>1 DEF Process
    <3> HIDE DEF p, o
    <3>2. QED
      BY <2>1, <2>3, <3>1 DEF Sound
  <2>5. Advances
    BY <2>2, <2>3, <2>4 DEF Advances
  <2>6. ready' = [ready EXCEPT ![o] = ready[o] - 1] /\ ready[o] > 0
    BY <1>3 DEF LocksJob, Chosen
  <2>7. ready' \in [Org -> Nat]
    BY <2>1, <2>6 DEF Inv, DispatcherTypeOK
  <2>8. QED
    BY <1>3, <2>5, <2>7, AdvancesSuffices DEF LocksJob, Inv, DispatcherTypeOK
<1>4. CASE ClaimCommits(w)
  <2> DEFINE p == [q EXCEPT !.at = "holding", !.fetched = FALSE]
  <2>1. worker' = [worker EXCEPT ![w] = p] /\ q.at = "claiming"
    BY <1>4 DEF ClaimCommits, At
  <2>2. p \in Process
    BY <1>1, ProcessChanges DEF Places
  <2>3. Sound(p)
    BY <1>1, <2>1, <2>2 DEF Sound, InHand, Process
  <2>4. QED
    BY <1>4, <2>1, <2>3, MoveSuffices DEF ClaimCommits
<1>5. QED
  BY <1>2, <1>3, <1>4

\* A transaction that rolls back gives its rows back.
LEMMA RollBackKeepsCounters ==
    ASSUME Inv, NEW w \in Worker, RollBack(w)
    PROVE  ready' \in [Org -> Nat] /\ stale' \in [Org -> Nat]
<1>1. /\ worker[w].rows \in Nat
      /\ worker[w].at \in InHand => worker[w].org \in Org
  BY DEF Inv, DispatcherTypeOK, Sound, Process
<1>2. ready' \in [Org -> Nat]
  <2>1. CASE At(w, "claiming")
    BY <1>1, <2>1, CountersStayNatural DEF RollBack, At, InHand, Inv, DispatcherTypeOK
  <2>2. CASE ~At(w, "claiming")
    BY <2>2 DEF RollBack, Inv, DispatcherTypeOK
  <2>3. QED
    BY <2>1, <2>2
<1>3. stale' \in [Org -> Nat]
  <2>1. CASE At(w, "recovering")
    BY <1>1, <2>1, CountersStayNatural DEF RollBack, At, InHand, Inv, DispatcherTypeOK
  <2>2. CASE ~At(w, "recovering")
    BY <2>2 DEF RollBack, Inv, DispatcherTypeOK
  <2>3. QED
    BY <2>1, <2>2
<1>4. QED
  BY <1>2, <1>3

\* A refusal of the policies rolls back and ends the process.
LEMMA RefusalKeepsInv ==
    ASSUME Inv, NEW w \in Worker, ClaimRefused(w) \/ RecoveryRefused(w)
    PROVE  Inv'
<1>1. RollBack(w) /\ worker' = [worker EXCEPT ![w] = Crashed] /\ UNCHANGED <<leased, authorized, faults>>
  BY DEF ClaimRefused, RecoveryRefused
<1>2. Advances
  BY <1>1, StartedIsSound DEF Advances, Sound
<1>3. QED
  BY <1>1, <1>2, RollBackKeepsCounters, AdvancesSuffices DEF Inv, DispatcherTypeOK

\* The end of a job.
LEMMA JobKeepsInv ==
    ASSUME Inv, NEW w \in Worker, JobPublished(w) \/ JobUnrecorded(w)
    PROVE  Inv'
<1>1. worker[w].org \in Org
  BY DEF JobPublished, JobUnrecorded, At, Inv, Sound, InHand
<1>2. Advances
  BY BackToIdleIsSound DEF JobPublished, JobUnrecorded, Advances, Sound
<1>3. ready' \in [Org -> Nat] /\ leased' \in [Org -> Nat]
  BY <1>1 DEF JobPublished, JobUnrecorded, Inv, DispatcherTypeOK
<1>4. UNCHANGED <<stale, authorized>>
  BY DEF JobPublished, JobUnrecorded
<1>5. faults' \in 0 .. MaxFaults
  BY DispatcherAssumption DEF JobPublished, JobUnrecorded, Fault, Inv, DispatcherTypeOK
<1>6. QED
  BY <1>2, <1>3, <1>4, <1>5, AdvancesSuffices DEF Inv, DispatcherTypeOK

\* The steps of a recovery up to its UPDATE,
LEMMA SweepKeepsInv ==
    ASSUME Inv, NEW w \in Worker, StartSweep(w) \/ EndSweep(w) \/ SkipsRecovery(w) \/ LocksExpired(w)
    PROVE  Inv'
<1> DEFINE q == worker[w]
<1>1. q \in Process /\ Turn(q.pending) /\ q.sweep \in Seq(Org)
  BY DEF Inv, DispatcherTypeOK, Sound, Process
<1>2. CASE StartSweep(w)
  <2> DEFINE Lost == {o \in authorized : stale[o] > 0 \/ LockedBy("recovering", o)}
  <2>1. PICK found \in Page(ExpiredBatch, Lost) :
            worker' = [worker EXCEPT ![w] = [q EXCEPT !.at = "sweeping", !.sweep = found]]
    BY <1>2, <1>1 DEF StartSweep, Inv, DispatcherTypeOK
  <2>2. Lost \in SUBSET Org /\ ExpiredBatch \in Nat
    BY DispatcherAssumption DEF Inv, DispatcherTypeOK
  <2>3. found \in Seq(Org)
    <3> HIDE DEF Lost
    <3>1. QED
      BY <2>2, PageIsList
  <2>4. [q EXCEPT !.at = "sweeping", !.sweep = found] \in Process
    BY <1>1, <2>3, ProcessChanges DEF Places
  <2>5. Sound([q EXCEPT !.at = "sweeping", !.sweep = found])
    BY <1>1, <2>4 DEF Sound, InHand, Process
  <2>6. QED
    BY <1>2, <2>1, <2>5, MoveSuffices DEF StartSweep
<1>3. CASE EndSweep(w)
  <2>1. worker' = [worker EXCEPT ![w] = [q EXCEPT !.at = "choosing"]]
    BY <1>3 DEF EndSweep
  <2>2. [q EXCEPT !.at = "choosing"] \in Process
    BY <1>1, ProcessChanges DEF Places
  <2>3. Sound([q EXCEPT !.at = "choosing"])
    BY <1>1, <2>2 DEF Sound, InHand, Process
  <2>4. QED
    BY <1>3, <2>1, <2>3, MoveSuffices DEF EndSweep
<1>4. CASE SkipsRecovery(w)
  <2>1. Tail(q.sweep) \in Seq(Org) /\ q.at = "sweeping"
    BY <1>1, <1>4 DEF SkipsRecovery, Sweeping, At
  <2>2. worker' = [worker EXCEPT ![w] = [q EXCEPT !.sweep = Tail(q.sweep)]]
    BY <1>4 DEF SkipsRecovery
  <2>3. [q EXCEPT !.sweep = Tail(q.sweep)] \in Process
    BY <1>1, <2>1, ProcessChanges
  <2>4. Sound([q EXCEPT !.sweep = Tail(q.sweep)])
    BY <1>1, <2>1, <2>3 DEF Sound, InHand, Process
  <2>5. QED
    BY <1>4, <2>2, <2>4, MoveSuffices DEF SkipsRecovery
<1>5. CASE LocksExpired(w)
  <2> DEFINE o == Head(q.sweep)
             n == stale[o]
             p == [q EXCEPT !.sweep = Tail(q.sweep), !.at = "recovering", !.org = o, !.rows = n]
  <2>1. Tail(q.sweep) \in Seq(Org) /\ o \in Org
    BY <1>1, <1>5 DEF LocksExpired, Sweeping
  <2>2. n \in Nat
    BY <2>1 DEF Inv, DispatcherTypeOK
  <2>3. worker' = [worker EXCEPT ![w] = p]
    BY <1>5, <1>1 DEF LocksExpired, Swept, Inv, DispatcherTypeOK
  <2>4. p \in Process
    <3> HIDE DEF n, o
    <3>1. QED
      BY <1>1, <2>1, <2>2, ProcessChanges DEF Places
  <2>5. Sound(p)
    <3>1. p.pending = q.pending /\ p.at = "recovering" /\ p.org = o
      BY <1>1 DEF Process
    <3> HIDE DEF p, o
    <3>2. QED
      BY <1>1, <2>1, <2>4, <3>1 DEF Sound
  <2>6. Advances
    BY <2>3, <2>4, <2>5 DEF Advances
  <2>7. stale' \in [Org -> Nat]
    BY <1>5, <2>1 DEF LocksExpired, Swept, Inv, DispatcherTypeOK
  <2>8. QED
    BY <1>5, <2>6, <2>7, AdvancesSuffices DEF LocksExpired, Inv, DispatcherTypeOK
<1>6. QED
  BY <1>2, <1>3, <1>4, <1>5

\* and its end, whole or cut short.
LEMMA RecoveryKeepsInv ==
    ASSUME Inv, NEW w \in Worker, RecoveryCommits(w) \/ RecoveryCutShort(w)
    PROVE  Inv'
<1> DEFINE q == worker[w]
           o == q.org
           p == [q EXCEPT !.at = "sweeping", !.org = NoOrg, !.rows = 0]
<1>1. q \in Process /\ Turn(q.pending) /\ q.rows \in Nat /\ o \in Org
  BY DEF RecoveryCommits, RecoveryCutShort, At, Inv, DispatcherTypeOK, Sound, Process, InHand
<1>2. PICK n \in 0 .. q.rows : Recover(w, n)
  BY <1>1 DEF RecoveryCommits, RecoveryCutShort
<1>3. p \in Process
  BY <1>1, ProcessChanges DEF Places
<1>4. Sound(p)
  BY <1>1, <1>3 DEF Sound, InHand, Process
<1>5. worker' = [worker EXCEPT ![w] = p]
  BY <1>1, <1>2 DEF Recover, Inv, DispatcherTypeOK
<1>6. Advances
  BY <1>3, <1>4, <1>5 DEF Advances
<1>7. stale' \in [Org -> Nat]
  <2>1. stale' = [stale EXCEPT ![o] = stale[o] + (q.rows - n)] /\ stale[o] + (q.rows - n) \in Nat
    BY <1>1, <1>2 DEF Recover, Inv, DispatcherTypeOK
  <2>2. QED
    BY <1>1, <2>1, CountersStayNatural DEF Inv, DispatcherTypeOK
<1>8. ready' \in [Org -> Nat]
  <2>1. PICK again \in 0 .. n : ready' = [ready EXCEPT ![o] = ready[o] + again]
    BY <1>2 DEF Recover
  <2>2. ready[o] + again \in Nat
    BY <1>1 DEF Inv, DispatcherTypeOK
  <2>3. QED
    BY <1>1, <2>1, <2>2, CountersStayNatural DEF Inv, DispatcherTypeOK
<1>9. QED
  BY <1>2, <1>6, <1>7, <1>8, AdvancesSuffices DEF Recover, Inv, DispatcherTypeOK

\* A failure of the database rolls back too.
LEMMA FailureKeepsInv ==
    ASSUME Inv, NEW w \in Worker, Fails(w)
    PROVE  Inv'
<1> DEFINE q == worker[w]
<1>1. q \in Process /\ Turn(q.pending) /\ (q.at \in InHand => q.org \in Org)
  BY DEF Inv, DispatcherTypeOK, Sound
<1>2. faults' \in 0 .. MaxFaults
  BY DispatcherAssumption DEF Fails, CallBreaks, ClaimAnswerLost, Dies, Fault, Inv, DispatcherTypeOK
<1>3. CASE CallBreaks(w)
  <2> DEFINE b == BackToIdle(w)
             s == IF At(w, "wrapping") THEN <<>> ELSE IF Choosing(w) THEN Tail(q.pending) ELSE q.pending
             p == [b EXCEPT !.pending = s]
  <2>1. worker' = [worker EXCEPT ![w] = p]
    BY <1>3, BackToIdleIsSound DEF CallBreaks
  <2>2. Turn(s)
    BY <1>1, TailIsTurn, NoTurn DEF Choosing
  <2>3. Sound(p)
    <3>1. b \in Process /\ b.at = "idle"
      BY BackToIdleIsSound DEF Sound
    <3>2. s \in Seq(Org)
      BY <2>2 DEF Turn
    <3> HIDE DEF b, s
    <3>3. p \in Process
      BY <3>1, <3>2, ProcessChanges
    <3>4. p.pending = s /\ p.at = "idle"
      BY <3>1 DEF Process
    <3> HIDE DEF p
    <3>5. QED
      BY <2>2, <3>3, <3>4 DEF Sound, InHand
  <2>4. Advances
    BY <2>1, <2>3 DEF Advances, Sound
  <2>5. QED
    BY <1>2, <1>3, <2>4, RollBackKeepsCounters, AdvancesSuffices DEF CallBreaks, Inv, DispatcherTypeOK
<1>4. CASE ClaimAnswerLost(w)
  <2>1. q.org \in Org
    BY <1>1, <1>4 DEF ClaimAnswerLost, At, InHand
  <2>2. Advances
    BY <1>4, BackToIdleIsSound DEF ClaimAnswerLost, Advances, Sound
  <2>3. leased' \in [Org -> Nat]
    BY <1>4, <2>1, CountersStayNatural DEF ClaimAnswerLost, Inv, DispatcherTypeOK
  <2>4. QED
    BY <1>2, <1>4, <2>2, <2>3, AdvancesSuffices DEF ClaimAnswerLost, Inv, DispatcherTypeOK
<1>5. CASE Dies(w)
  <2>1. Advances
    BY <1>5, StartedIsSound DEF Dies, Advances, Sound
  <2>2. leased' \in [Org -> Nat]
    <3>1. CASE At(w, "holding")
      BY <1>1, <1>5, <3>1, CountersStayNatural DEF Dies, At, InHand, Inv, DispatcherTypeOK
    <3>2. CASE ~At(w, "holding")
      BY <1>5, <3>2 DEF Dies, Inv, DispatcherTypeOK
    <3>3. QED
      BY <3>1, <3>2
  <2>3. QED
    BY <1>2, <1>5, <2>1, <2>2, RollBackKeepsCounters, AdvancesSuffices DEF Dies, Inv, DispatcherTypeOK
<1>6. QED
  BY <1>3, <1>4, <1>5 DEF Fails

\* What clients, owners and the clock do to one organization.
LEMMA ElsewhereKeepsInv ==
    ASSUME Inv, NEW o \in Org, Elsewhere(o)
    PROVE  Inv'
<1>1. Advances /\ UNCHANGED faults
  BY DEF Advances, Elsewhere, LeaseExpires, JobBecomesReady, JobTakenElsewhere, authorize_service,
         revoke_service
<1>2. ready \in [Org -> Nat] /\ leased \in [Org -> Nat] /\ stale \in [Org -> Nat] /\ authorized \in SUBSET Org
  BY DEF Inv, DispatcherTypeOK
<1>3. CASE LeaseExpires(o)
  BY <1>1, <1>2, <1>3, AdvancesSuffices DEF LeaseExpires, Inv, DispatcherTypeOK
<1>4. CASE JobBecomesReady(o) \/ JobTakenElsewhere(o)
  <2>1. ready' \in [Org -> Nat]
    BY <1>2, <1>4 DEF JobBecomesReady, JobTakenElsewhere
  <2>2. QED
    BY <1>1, <1>2, <1>4, <2>1, AdvancesSuffices DEF JobBecomesReady, JobTakenElsewhere, Inv, DispatcherTypeOK
<1>5. CASE authorize_service(o) \/ revoke_service(o)
  BY <1>1, <1>2, <1>5, AdvancesSuffices DEF authorize_service, revoke_service, Inv, DispatcherTypeOK
<1>6. QED
  BY <1>3, <1>4, <1>5 DEF Elsewhere

-----------------------------------------------------------------------------
(* The theorems *)

\* The invariant holds at the start, and every step keeps it.
LEMMA InvStarts == Init => Inv
<1> SUFFICES ASSUME Init PROVE Inv
  OBVIOUS
<1>1. DispatcherTypeOK
  BY StartedIsSound, DispatcherAssumption DEF Init, DispatcherTypeOK, Sound
<1>2. QED
  BY <1>1, StartedIsSound DEF Init, Inv

\* Every step keeps the invariant.
LEMMA InvGoesOn == Inv /\ [Next]_vars => Inv'
<1> SUFFICES ASSUME Inv, [Next]_vars PROVE Inv'
  OBVIOUS
<1>1. CASE Next
  <2>1. CASE \E w \in Worker : StartClaim(w) \/ Poll(w) \/ StartSweep(w) \/ Sweep(w) \/ Fails(w)
    <3>1. PICK w \in Worker : StartClaim(w) \/ Poll(w) \/ StartSweep(w) \/ Sweep(w) \/ Fails(w)
      BY <2>1
    <3>2. CASE StartClaim(w) \/ Poll(w)
      BY <3>2, ListsKeepInv, ClaimKeepsInv, RefusalKeepsInv, JobKeepsInv DEF Poll
    <3>3. CASE StartSweep(w) \/ Sweep(w)
      BY <3>3, SweepKeepsInv, RecoveryKeepsInv, RefusalKeepsInv DEF Sweep
    <3>4. CASE Fails(w)
      BY <3>4, FailureKeepsInv
    <3>5. QED
      BY <3>1, <3>2, <3>3, <3>4
  <2>2. CASE \E o \in Org : Elsewhere(o)
    BY <2>2, ElsewhereKeepsInv
  <2>3. QED
    BY <1>1, <2>1, <2>2 DEF Next
<1>2. CASE UNCHANGED vars
  BY <1>2 DEF vars, Inv, DispatcherTypeOK, Sound
<1>3. QED
  BY <1>1, <1>2

\* The two together.
LEMMA InvHolds == Spec => []Inv
BY InvStarts, InvGoesOn, PTL DEF Spec

\* The types of the rotation: its lists, its cursor and its counts of rows, with any number
\* of organizations and workers (workers/dispatch.py).
THEOREM DispatcherTypes == Spec => []DispatcherTypeOK
BY InvHolds, PTL DEF Inv

\* A list never serves an organization twice and never exceeds the batch, whatever
\* happens between its two queries (dispatch.py, next_organizations).
THEOREM NoOrganizationTwice == Spec => []NoTurnTwice
<1>1. Inv => NoTurnTwice
  BY DEF Inv, Sound, Turn, NoTurnTwice
<1>2. QED
  BY <1>1, InvHolds, PTL

-----------------------------------------------------------------------------
(* Turns.  "of" waits: it could be claimed all the time.  How often may "by" be *)
(* claimed in before "of" is?                                                   *)

Bit(b) == IF b THEN 1 ELSE 0

\* Going round from the organization after cu, "by" comes before "of".
Ahead(cu) == IF of > cu THEN cu < by /\ by < of ELSE by > cu \/ by < of

\* "by" is in the list, and "of" is not before it.
First(s) == \E i \in 1 .. Len(s) : s[i] = by /\ \A j \in 1 .. i : s[j] # of

\* The claims in "by" that a list in hand and the lists to come, made from cursor cu on,
\* may bring: once a list has "of", nothing after it counts.
Due(s, cu) == Bit(First(s)) + Bit(of \notin Range(s) /\ Ahead(cu))

\* A list in the order of the identifiers, from the cursor on.
Ascending(s, cu) ==
    /\ \A i \in 1 .. Len(s) : s[i] > cu
    /\ \A i, j \in 1 .. Len(s) : i < j => s[i] < s[j]

\* A page is in order, and what it leaves out comes after a full page.
LEMMA PageOrder ==
    ASSUME NEW n \in Nat, NEW S \in SUBSET Org, NEW s \in Page(n, S)
    PROVE  /\ \A i, j \in 1 .. Len(s) : i < j => s[i] < s[j]
           /\ \A i \in 1 .. Len(s) : s[i] \in S
           /\ \A o \in S \ Range(s) : Len(s) = n /\ \A i \in 1 .. n : s[i] < o
<1>1. s \in Seq(Org) /\ Range(s) \subseteq S
  BY PageIsList
<1>2. \A i \in 1 .. Len(s) : s[i] \in S
  BY <1>1 DEF Range
<1>3. QED
  BY <1>2 DEF Page

\* Serving the first organization of a list leaves the others in it.
LEMMA TailKeeps ==
    ASSUME NEW s \in Seq(Org), s # <<>>, NEW o, o # Head(s)
    PROVE  o \in Range(Tail(s)) <=> o \in Range(s)
<1> DEFINE m == Len(s)
           t == Tail(s)
<1>1. /\ m \in Nat \ {0} /\ DOMAIN s = 1 .. m /\ DOMAIN t = 1 .. m - 1
      /\ \A i \in 1 .. m - 1 : t[i] = s[i + 1]
      /\ Head(s) = s[1]
  OBVIOUS
<1> HIDE DEF m, t
<1>2. ASSUME o \in Range(t) PROVE o \in Range(s)
  <2>1. PICK i \in 1 .. m - 1 : t[i] = o
    BY <1>1, <1>2 DEF Range
  <2>2. i + 1 \in 1 .. m /\ s[i + 1] = o
    BY <1>1, <2>1
  <2>3. QED
    BY <1>1, <2>2 DEF Range
<1>3. ASSUME o \in Range(s) PROVE o \in Range(t)
  <2>1. PICK i \in 1 .. m : s[i] = o
    BY <1>1, <1>3 DEF Range
  <2>2. i - 1 \in 1 .. m - 1 /\ i - 1 + 1 = i
    BY <1>1, <2>1
  <2>3. t[i - 1] = o
    BY <1>1, <2>1, <2>2
  <2>4. QED
    BY <1>1, <2>2, <2>3 DEF Range
<1>4. QED
  BY <1>2, <1>3 DEF t

\* The organization served is not in the rest of the list.
LEMMA HeadIsServedOnce ==
    ASSUME NEW s, Turn(s), s # <<>>
    PROVE  Head(s) \notin Range(Tail(s))
<1> SUFFICES ASSUME NEW i \in DOMAIN Tail(s), Tail(s)[i] = Head(s) PROVE FALSE
  BY DEF Range
<1>1. s \in Seq(Org) /\ IsInjective(s)
  BY DEF Turn
<1>2. i + 1 \in DOMAIN s /\ 1 \in DOMAIN s /\ s[i + 1] = s[1] /\ i + 1 # 1
  BY <1>1
<1>3. QED
  BY <1>1, <1>2 DEF IsInjective

\* Serving the first organization of a list, when it is not "of", takes its claim from
\* what the list may bring.
LEMMA DueTail ==
    ASSUME NEW s, Turn(s), s # <<>>, NEW cu, by # of, Head(s) # of
    PROVE  Due(Tail(s), cu) + Bit(Head(s) = by) <= Due(s, cu)
<1>1. /\ s \in Seq(Org) /\ Len(s) \in Nat \ {0} /\ Head(s) = s[1]
      /\ Len(Tail(s)) = Len(s) - 1 /\ Tail(s) \in Seq(Org)
      /\ \A i \in 1 .. Len(s) - 1 : Tail(s)[i] = s[i + 1]
  BY DEF Turn
<1> DEFINE t == Tail(s)
           m == Len(s)
<1>2. /\ m \in Nat \ {0} /\ Len(t) = m - 1 /\ t \in Seq(Org) /\ s[1] # of
      /\ \A i \in 1 .. m - 1 : t[i] = s[i + 1]
      /\ DOMAIN s = 1 .. m /\ DOMAIN t = 1 .. m - 1
  BY <1>1
<1> HIDE DEF t, m
<1>3. of \in Range(t) <=> of \in Range(s)
  BY <1>1, TailKeeps DEF t
<1>4. ASSUME First(t) PROVE First(s) /\ s[1] # by
  <2>1. PICK i \in 1 .. m - 1 : t[i] = by /\ \A j \in 1 .. i : t[j] # of
    BY <1>2, <1>4 DEF First
  <2>2. i + 1 \in 1 .. m /\ 1 \in 1 .. m /\ i + 1 # 1 /\ s[i + 1] = by
    BY <1>2, <2>1
  <2>3. ASSUME NEW j \in 1 .. i + 1 PROVE s[j] # of
    <3>1. CASE j = 1
      BY <1>2, <3>1
    <3>2. CASE j # 1
      <4>1. j - 1 \in 1 .. i /\ j - 1 \in 1 .. m - 1 /\ j - 1 + 1 = j
        BY <1>2, <2>1, <3>2
      <4>2. t[j - 1] = s[j]
        BY <1>2, <4>1
      <4>3. QED
        BY <2>1, <4>1, <4>2
    <3>3. QED
      BY <3>1, <3>2
  <2>4. First(s)
    BY <2>2, <2>3 DEF First, m
  <2>5. s[1] # by
    BY <1>2, <2>2 DEF Turn, IsInjective
  <2>6. QED
    BY <2>4, <2>5
<1>5. s[1] = by => First(s)
  <2>1. 1 \in 1 .. m /\ \A j \in 1 .. 1 : j = 1
    BY <1>2
  <2>2. QED
    BY <1>2, <2>1 DEF First, m
<1>6. Due(t, cu) + Bit(s[1] = by) <= Due(s, cu)
  BY <1>3, <1>4, <1>5 DEF Due, Bit
<1>7. QED
  BY <1>1, <1>6 DEF t

\* The list of one query, made while "of" could be claimed: with the lists to come it
\* brings no more claims in "by" than were to come before.
LEMMA FirstPage ==
    ASSUME NEW S \in SUBSET Org, of \in S, by \in Org, by # of,
           NEW cu \in Org \cup {NoOrg},
           NEW s \in Page(Batch, {o \in S : o > cu}),
           ~(Len(s) < Batch /\ cu # NoOrg)
    PROVE  Due(s, IF s = <<>> THEN NoOrg ELSE Last(s)) <= Bit(Ahead(cu))
<1> DEFINE T == {o \in S : o > cu}
           m == Len(s)
           l == IF s = <<>> THEN NoOrg ELSE Last(s)
<1>0. T \in SUBSET Org /\ Batch \in Nat \ {0} /\ of \in Org
  BY DispatcherAssumption
<1>1. T \in SUBSET Org /\ Batch \in Nat \ {0} /\ cu \in Nat /\ of \in Nat \ {0} /\ by \in Nat \ {0}
  <2> HIDE DEF T
  <2>1. QED
    BY <1>0, DispatcherAssumption DEF Org, NoOrg
<1>2. /\ \A i, j \in 1 .. m : i < j => s[i] < s[j]
      /\ \A i \in 1 .. m : s[i] \in T
      /\ \A o \in T \ Range(s) : m = Batch /\ \A i \in 1 .. Batch : s[i] < o
  <2>1. s \in Page(Batch, T)
    OBVIOUS
  <2> HIDE DEF T
  <2>2. Batch \in Nat
    BY <1>1
  <2>3. QED
    BY <1>1, <2>1, <2>2, PageOrder
<1>3. s \in Seq(Org) /\ m \in Nat /\ DOMAIN s = 1 .. m /\ m <= Batch
  <2>1. s \in Seq(Org) /\ Len(s) <= Batch
    <3> HIDE DEF T
    <3>1. QED
      BY <1>1, PageIsList
  <2>2. QED
    BY <2>1
<1>4. \A i \in 1 .. m : s[i] \in Nat /\ s[i] > cu
  BY <1>1, <1>2 DEF Org
<1>5. CASE of \in Range(s)
  <2>1. PICK k \in 1 .. m : s[k] = of
    BY <1>3, <1>5 DEF Range
  <2>2. ASSUME First(s) PROVE Ahead(cu)
    <3>1. PICK i \in 1 .. m : s[i] = by /\ \A j \in 1 .. i : s[j] # of
      BY <2>2 DEF First
    <3>2. i < k
      BY <1>3, <2>1, <3>1
    <3>3. by < of /\ by > cu /\ of > cu
      BY <1>2, <1>4, <2>1, <3>1, <3>2
    <3>4. QED
      BY <3>3 DEF Ahead
  <2>3. QED
    BY <1>5, <2>2 DEF Due, Bit
<1>6. CASE of \notin Range(s)
  <2>1. of > cu => m = Batch /\ \A i \in 1 .. m : s[i] < of
    BY <1>2, <1>6
  <2>2. m = Batch
    <3>1. cu = NoOrg => of > cu
      BY <1>1 DEF NoOrg
    <3>2. m \in Nat /\ Batch \in Nat /\ m <= Batch /\ ~(m < Batch /\ cu # NoOrg)
      BY <1>1, <1>3
    <3> HIDE DEF m
    <3>3. QED
      BY <2>1, <3>1, <3>2
  <2>3. s # <<>> /\ m \in 1 .. m /\ l = s[m]
    BY <1>1, <1>3, <2>2 DEF Last
  <2> HIDE DEF l
  <2>4. \A i \in 1 .. m : s[i] <= l
    <3> SUFFICES ASSUME NEW i \in 1 .. m PROVE s[i] <= l
      OBVIOUS
    <3> HIDE DEF m
    <3>1. i = m \/ i < m
      BY <1>3
    <3>2. QED
      BY <1>2, <1>4, <2>3, <3>1
  <2>5. l \in Nat /\ l > cu
    BY <1>4, <2>3
  <2>6. ASSUME First(s) PROVE Ahead(cu) /\ ~Ahead(l)
    <3>1. by > cu /\ by <= l /\ (of > cu => by < of /\ l < of)
      BY <1>4, <2>1, <2>3, <2>4, <2>6 DEF First
    <3>2. QED
      BY <1>1, <2>5, <3>1 DEF Ahead
  <2>7. Ahead(l) => Ahead(cu)
    <3>1. of > cu => l < of
      BY <2>1, <2>3
    <3>2. QED
      BY <1>1, <2>5, <3>1 DEF Ahead
  <2>8. Due(s, l) <= Bit(Ahead(cu))
    BY <2>6, <2>7 DEF Due, Bit
  <2>9. QED
    BY <2>8 DEF l
<1>7. QED
  BY <1>5, <1>6


\* Two lists, one after the other.
LEMMA Concatenated ==
    ASSUME NEW s \in Seq(Org), NEW t \in Seq(Org)
    PROVE  /\ s \o t \in Seq(Org) /\ Len(s \o t) = Len(s) + Len(t)
           /\ DOMAIN (s \o t) = 1 .. Len(s) + Len(t)
           /\ \A i \in 1 .. Len(s) : (s \o t)[i] = s[i] /\ i \in 1 .. Len(s) + Len(t)
           /\ \A i \in 1 .. Len(t) :
                  (s \o t)[Len(s) + i] = t[i] /\ Len(s) + i \in 1 .. Len(s) + Len(t)
           /\ \A i \in 1 .. Len(s) + Len(t) :
                  i \in 1 .. Len(s) \/ \E k \in 1 .. Len(t) : i = Len(s) + k
           /\ Range(s \o t) = Range(s) \cup Range(t)
<1> DEFINE n == Len(s)
           m == Len(t)
           u == s \o t
<1>1. /\ n \in Nat /\ m \in Nat /\ DOMAIN s = 1 .. n /\ DOMAIN t = 1 .. m
      /\ u \in Seq(Org) /\ Len(u) = n + m
      /\ \A i \in 1 .. n + m : u[i] = IF i <= n THEN s[i] ELSE t[i - n]
  OBVIOUS
<1>2. DOMAIN u = 1 .. n + m
  BY <1>1
<1> HIDE DEF n, m, u
<1>3. ASSUME NEW i \in 1 .. n PROVE u[i] = s[i] /\ i \in 1 .. n + m
  <2>1. i \in 1 .. n + m /\ i <= n
    BY <1>1
  <2>2. QED
    BY <1>1, <2>1
<1>4. ASSUME NEW i \in 1 .. m PROVE u[n + i] = t[i] /\ n + i \in 1 .. n + m
  <2>1. n + i \in 1 .. n + m /\ ~(n + i <= n) /\ n + i - n = i
    BY <1>1
  <2>2. QED
    BY <1>1, <2>1
<1>5. ASSUME NEW i \in 1 .. n + m PROVE i \in 1 .. n \/ \E k \in 1 .. m : i = n + k
  <2>1. CASE i <= n
    BY <2>1, <1>1
  <2>2. CASE ~(i <= n)
    <3>1. i - n \in 1 .. m /\ i = n + (i - n)
      BY <2>2, <1>1
    <3>2. QED
      BY <3>1
  <2>3. QED
    BY <2>1, <2>2
<1>6. Range(u) = Range(s) \cup Range(t)
  <2>1. ASSUME NEW o \in Range(u) PROVE o \in Range(s) \cup Range(t)
    <3>1. PICK i \in 1 .. n + m : u[i] = o
      BY <1>2 DEF Range
    <3>2. CASE i \in 1 .. n
      BY <1>1, <1>3, <3>1, <3>2 DEF Range
    <3>3. CASE \E k \in 1 .. m : i = n + k
      BY <1>1, <1>4, <3>1, <3>3 DEF Range
    <3>4. QED
      BY <1>5, <3>2, <3>3
  <2>2. ASSUME NEW o \in Range(s) PROVE o \in Range(u)
    <3>1. PICK i \in 1 .. n : s[i] = o
      BY <1>1, <2>2 DEF Range
    <3>2. u[i] = o /\ i \in DOMAIN u
      BY <1>2, <1>3, <3>1
    <3>3. QED
      BY <3>2 DEF Range
  <2>3. ASSUME NEW o \in Range(t) PROVE o \in Range(u)
    <3>1. PICK i \in 1 .. m : t[i] = o
      BY <1>1, <2>3 DEF Range
    <3>2. u[n + i] = o /\ n + i \in DOMAIN u
      BY <1>2, <1>4, <3>1
    <3>3. QED
      BY <3>2 DEF Range
  <2>4. QED
    BY <2>1, <2>2, <2>3
<1>7. QED
  BY <1>1, <1>2, <1>3, <1>4, <1>5, <1>6 DEF n, m, u

\* The list of two queries, of which the first has found "of" unless its turn comes
\* before the cursor: what it brings is no more than was to come, and "of" is in it,
\* unless it is full.
LEMMA WrappedPage ==
    ASSUME NEW S \in SUBSET Org, of \in S, by \in Org, by # of,
           NEW cu \in Org \cup {NoOrg},
           NEW found, Turn(found), Ascending(found, cu), Len(found) < Batch,
           of > cu => of \in Range(found),
           NEW wrapped \in Page(Batch, S),
           NEW others \in Page(Batch - Len(found), New(wrapped, found)),
           NEW list, list = found \o others
    PROVE  /\ Due(list, IF list = <<>> THEN NoOrg ELSE Last(list)) <= Bit(Ahead(cu))
           /\ Len(list) < Batch => of \in Range(list)
<1> DEFINE n == Len(found)
           m == Len(others)
           l == IF list = <<>> THEN NoOrg ELSE Last(list)
<1>1. /\ found \in Seq(Org) /\ n \in Nat /\ DOMAIN found = 1 .. n /\ Batch \in Nat \ {0}
      /\ Batch - n \in Nat \ {0} /\ n < Batch
      /\ cu \in Nat /\ of \in Nat \ {0} /\ by \in Nat \ {0}
  <2>1. of \in Org /\ found \in Seq(Org)
    BY DEF Turn
  <2>2. n \in Nat /\ DOMAIN found = 1 .. n /\ n < Batch
    BY <2>1
  <2>3. Batch \in Nat \ {0} /\ cu \in Nat /\ of \in Nat \ {0} /\ by \in Nat \ {0}
    BY <2>1, DispatcherAssumption DEF Org, NoOrg
  <2> HIDE DEF n
  <2>4. Batch - n \in Nat \ {0}
    BY <2>2, <2>3
  <2>5. QED
    BY <2>1, <2>2, <2>3, <2>4
<1>2. /\ wrapped \in Seq(Org) /\ Range(wrapped) \subseteq S /\ Len(wrapped) \in Nat
      /\ DOMAIN wrapped = 1 .. Len(wrapped) /\ IsInjective(wrapped)
      /\ \A o \in S \ Range(wrapped) : Len(wrapped) = Batch /\ \A i \in 1 .. Batch : wrapped[i] < o
  <2>1. Batch \in Nat
    BY DispatcherAssumption
  <2>2. wrapped \in Seq(Org)
    BY <2>1, PageIsList
  <2>3. QED
    BY <2>1, <2>2, PageIsList, PageOrder
<1>3. New(wrapped, found) \in SUBSET Org /\ New(wrapped, found) = Range(wrapped) \ Range(found)
  BY <1>2 DEF New
<1>4. /\ others \in Seq(Org) /\ m \in Nat /\ DOMAIN others = 1 .. m /\ m <= Batch - n
      /\ \A i, j \in 1 .. m : i < j => others[i] < others[j]
      /\ \A i \in 1 .. m : others[i] \in New(wrapped, found)
      /\ \A o \in New(wrapped, found) \ Range(others) : m = Batch - n /\ \A i \in 1 .. m : others[i] < o
  <2>1. Batch - n \in Nat
    BY <1>1
  <2>2. others \in Seq(Org) /\ m <= Batch - n
    <3> DEFINE k == Batch - n
               T == New(wrapped, found)
    <3>1. k \in Nat /\ T \in SUBSET Org /\ others \in Page(k, T)
      BY <1>3, <2>1
    <3> HIDE DEF k, T
    <3>2. others \in Seq(Org) /\ Len(others) <= k
      BY <3>1, PageIsList
    <3>3. QED
      BY <3>2 DEF k
  <2>3. m \in Nat /\ DOMAIN others = 1 .. m
    BY <2>2
  <2>4. /\ \A i, j \in 1 .. m : i < j => others[i] < others[j]
        /\ \A i \in 1 .. m : others[i] \in New(wrapped, found)
        /\ \A o \in New(wrapped, found) \ Range(others) :
               m = Batch - n /\ \A i \in 1 .. Batch - n : others[i] < o
    BY <2>1, <1>3, PageOrder
  <2> HIDE DEF n, m
  <2>5. QED
    BY <2>2, <2>3, <2>4
<1>5. \A i \in 1 .. n : found[i] \in Nat /\ found[i] > cu
  <2>1. ASSUME NEW i \in 1 .. n PROVE found[i] \in Org
    BY DEF Turn
  <2>2. QED
    BY <2>1 DEF Ascending, Org
<1>6. \A i, j \in 1 .. n : i < j => found[i] < found[j]
  BY DEF Ascending
<1>7. \A i \in 1 .. m : others[i] \in Nat
  <2>1. ASSUME NEW i \in 1 .. m PROVE others[i] \in Org
    BY <1>4
  <2>2. QED
    BY <2>1 DEF Org
<1>8. /\ list \in Seq(Org) /\ Len(list) = n + m /\ DOMAIN list = 1 .. n + m
      /\ \A i \in 1 .. n : list[i] = found[i] /\ i \in 1 .. n + m
      /\ \A i \in 1 .. m : list[n + i] = others[i] /\ n + i \in 1 .. n + m
      /\ \A i \in 1 .. n + m : i \in 1 .. n \/ \E k \in 1 .. m : i = n + k
      /\ Range(list) = Range(found) \cup Range(others)
  <2> DEFINE u == found \o others
  <2>1. found \in Seq(Org) /\ others \in Seq(Org) /\ list = u
    BY <1>1, <1>4
  <2>2. /\ u \in Seq(Org) /\ Len(u) = Len(found) + Len(others) /\ DOMAIN u = 1 .. Len(found) + Len(others)
        /\ \A i \in 1 .. Len(found) : u[i] = found[i] /\ i \in 1 .. Len(found) + Len(others)
        /\ \A i \in 1 .. Len(others) :
               u[Len(found) + i] = others[i] /\ Len(found) + i \in 1 .. Len(found) + Len(others)
        /\ \A i \in 1 .. Len(found) + Len(others) :
               i \in 1 .. Len(found) \/ \E k \in 1 .. Len(others) : i = Len(found) + k
        /\ Range(u) = Range(found) \cup Range(others)
    BY <2>1, Concatenated, Zenon
  <2> HIDE DEF u
  <2>3. QED
    BY <2>1, <2>2, Zenon
\* The numbers alone, for the arithmetic.
<1>0. cu \in Nat /\ of \in Nat /\ by \in Nat
  BY <1>1
<1>9. CASE of \in Range(found)
  <2>1. PICK k \in 1 .. n : found[k] = of
    BY <1>1, <1>9 DEF Range
  <2>2. ASSUME First(list) PROVE Ahead(cu)
    <3>1. PICK i \in 1 .. n + m : list[i] = by /\ \A j \in 1 .. i : list[j] # of
      BY <1>8, <2>2 DEF First
    <3>2. i \in 1 .. n /\ i < k
      <4> HIDE DEF n, m
      <4>1. ~(k \in 1 .. i)
        BY <1>8, <2>1, <3>1
      <4>2. QED
        BY <1>1, <1>4, <2>1, <4>1
    <3>3. found[i] = by
      BY <1>8, <3>1, <3>2
    <3>4. by < of /\ by > cu /\ of > cu
      BY <1>5, <1>6, <2>1, <3>2, <3>3
    <3>5. QED
      BY <3>4 DEF Ahead
  <2>3. of \in Range(list)
    BY <1>8, <1>9
  <2>4. QED
    BY <2>2, <2>3 DEF Due, Bit
<1>10. CASE of \notin Range(found)
  <2>1. of <= cu
    BY <1>0, <1>10
  <2>2. CASE of \in Range(others)
    <3>1. PICK k \in 1 .. m : others[k] = of
      BY <1>4, <2>2 DEF Range
    <3>2. ASSUME First(list) PROVE Ahead(cu)
      <4>1. PICK i \in 1 .. n + m : list[i] = by /\ \A j \in 1 .. i : list[j] # of
        BY <1>8, <3>2 DEF First
      <4>2. CASE i \in 1 .. n
        <5>1. by > cu
          BY <1>5, <1>8, <4>1, <4>2
        <5>2. QED
          BY <1>0, <2>1, <5>1 DEF Ahead
      <4>3. CASE \E j \in 1 .. m : i = n + j
        <5>1. PICK j \in 1 .. m : i = n + j
          BY <4>3
        <5>2. others[j] = by
          BY <1>8, <4>1, <5>1
        <5>3. j < k
          <6> HIDE DEF n, m
          <6>1. ~(n + k \in 1 .. i)
            BY <1>8, <3>1, <4>1
          <6>2. QED
            BY <1>1, <1>4, <3>1, <5>1, <6>1
        <5>4. by < of
          BY <1>4, <3>1, <5>2, <5>3
        <5>5. QED
          BY <1>0, <2>1, <5>4 DEF Ahead
      <4>4. QED
        BY <1>8, <4>2, <4>3
    <3>3. of \in Range(list)
      BY <1>8, <2>2
    <3>4. QED
      BY <3>2, <3>3 DEF Due, Bit
  <2>3. CASE of \notin Range(others)
    <3>1. of \in Range(wrapped) => of \in New(wrapped, found) \ Range(others)
      BY <1>3, <1>10, <2>3
    <3>2. of \notin Range(wrapped) => Len(wrapped) = Batch /\ \A i \in 1 .. Batch : wrapped[i] < of
      BY <1>2
    <3>3. of \notin Range(wrapped) => Range(wrapped) \cap Range(found) = {}
      <4> SUFFICES ASSUME of \notin Range(wrapped), NEW i \in 1 .. Batch, NEW j \in 1 .. n,
                          wrapped[i] = found[j]
                   PROVE  FALSE
        BY <1>1, <1>2, <3>2 DEF Range
      <4>1. found[j] \in Nat /\ found[j] > cu /\ found[j] < of
        BY <1>5, <3>2
      <4>2. QED
        BY <1>0, <2>1, <4>1
    <3>4. \A i \in 1 .. m : others[i] < of
      <4>1. CASE of \in Range(wrapped)
        BY <1>4, <3>1, <4>1
      <4>2. CASE of \notin Range(wrapped)
        <5> SUFFICES ASSUME NEW i \in 1 .. m PROVE others[i] < of
          OBVIOUS
        <5>1. others[i] \in Range(wrapped)
          BY <1>3, <1>4
        <5>2. QED
          BY <1>2, <3>2, <4>2, <5>1 DEF Range
      <4>3. QED
        BY <4>1, <4>2
    <3>5. m = Batch - n
      <4>1. CASE of \in Range(wrapped)
        BY <1>4, <3>1, <4>1
      <4>2. CASE of \notin Range(wrapped)
        <5> SUFFICES ASSUME m # Batch - n PROVE FALSE
          OBVIOUS
        <5>1. \A i \in 1 .. Batch : \E k \in 1 .. m : others[k] = wrapped[i]
          <6> SUFFICES ASSUME NEW i \in 1 .. Batch PROVE \E k \in 1 .. m : others[k] = wrapped[i]
            OBVIOUS
          <6>1. wrapped[i] \in Range(wrapped)
            BY <1>2, <3>2, <4>2 DEF Range
          <6>2. wrapped[i] \in New(wrapped, found)
            BY <1>3, <3>3, <4>2, <6>1
          <6>3. wrapped[i] \in Range(others)
            BY <1>4, <6>2
          <6>4. QED
            BY <1>4, <6>3 DEF Range
        <5> DEFINE f == [i \in 1 .. Batch |-> CHOOSE k \in 1 .. m : others[k] = wrapped[i]]
        <5>2. \A i \in 1 .. Batch : f[i] \in 1 .. m /\ others[f[i]] = wrapped[i]
          BY <5>1
        <5>3. f \in [1 .. Batch -> 1 .. m]
          BY <5>2
        <5> HIDE DEF f, m, n
        <5>4. IsFiniteSet(1 .. Batch) /\ Cardinality(1 .. Batch) = Batch
          <6>1. 1 \in Int /\ Batch \in Int /\ Batch >= 1
            BY <1>1
          <6>2. QED
            BY <6>1, FS_Interval
        <5>5. IsFiniteSet(1 .. m) /\ Cardinality(1 .. m) = m
          <6>1. 1 \in Int /\ m \in Int /\ m >= 0
            BY <1>4
          <6>2. QED
            BY <6>1, FS_Interval
        <5>6. m < Batch
          BY <1>1, <1>4
        <5>7. PICK i \in 1 .. Batch, j \in 1 .. Batch : i # j /\ f[i] = f[j]
          BY <5>3, <5>4, <5>5, <5>6, FS_PigeonHole
        <5>8. wrapped[i] = wrapped[j]
          BY <5>2, <5>7
        <5>9. QED
          BY <1>2, <3>2, <4>2, <5>7, <5>8 DEF IsInjective
      <4>3. QED
        BY <4>1, <4>2
    <3>6. m \in 1 .. m /\ list # <<>> /\ l = others[m]
      <4>1. m \in Nat \ {0}
        BY <1>1, <3>5
      <4>2. Len(list) = n + m /\ Len(list) \in Nat \ {0}
        <5> HIDE DEF n, m
        <5>1. QED
          BY <1>1, <1>8, <4>1
      <4>3. list # <<>> /\ l = list[n + m]
        BY <4>2 DEF Last
      <4> HIDE DEF n, m, l
      <4>4. m \in 1 .. m
        BY <4>1
      <4>5. QED
        BY <1>8, <4>3, <4>4
    <3> HIDE DEF l
    <3>7. \A i \in 1 .. m : others[i] <= l
      <4> SUFFICES ASSUME NEW i \in 1 .. m PROVE others[i] <= l
        OBVIOUS
      <4> HIDE DEF m
      <4>1. i = m \/ i < m
        BY <1>4
      <4>2. QED
        BY <1>4, <1>7, <3>6, <4>1
    <3>8. l \in Nat /\ l < of
      BY <1>7, <3>4, <3>6
    <3>9. ASSUME First(list) PROVE Ahead(cu) /\ ~Ahead(l)
      <4>1. PICK i \in 1 .. n + m : list[i] = by
        BY <1>8, <3>9 DEF First
      <4>2. CASE i \in 1 .. n
        <5>1. by > cu
          BY <1>5, <1>8, <4>1, <4>2
        <5>2. QED
          BY <1>0, <2>1, <3>8, <5>1 DEF Ahead
      <4>3. CASE \E j \in 1 .. m : i = n + j
        <5>1. by < of /\ by <= l
          BY <1>8, <3>4, <3>7, <4>1, <4>3
        <5>2. QED
          BY <1>0, <2>1, <3>8, <5>1 DEF Ahead
      <4>4. QED
        BY <1>8, <4>2, <4>3
    <3>10. Ahead(l) => Ahead(cu)
      BY <1>0, <2>1, <3>8 DEF Ahead
    <3>11. Due(list, l) <= Bit(Ahead(cu))
      BY <3>9, <3>10 DEF Due, Bit
    <3>12. ~(Len(list) < Batch)
      <4>1. Len(list) = n + m
        BY <1>8
      <4> HIDE DEF n, m
      <4>2. QED
        BY <1>1, <3>5, <4>1
    <3>13. QED
      BY <3>11, <3>12 DEF l
  <2>4. QED
    BY <2>2, <2>3
<1>11. QED
  BY <1>9, <1>10

\* The claims in "by" that process p may still make before it serves "of".
Chances(p) ==
    IF p.at = "crashed" \/ (p.at = "claiming" /\ p.org = of) THEN 0
    ELSE IF p.at = "wrapping"
    THEN IF of > p.cursor /\ of \notin Range(p.pending) THEN 2 ELSE Bit(Ahead(p.cursor))
    ELSE Bit(p.at = "claiming" /\ p.org = by) + Due(p.pending, p.cursor)

\* What a process remembers between two statements: an organization in hand has left
\* the list, the first of two queries went from the cursor on and did not fill its list,
\* and a list counts as fetched for one claim only.
Remembers(p) ==
    /\ p.at = "claiming" => p.org \notin Range(p.pending)
    /\ p.at = "wrapping" => Ascending(p.pending, p.cursor) /\ Len(p.pending) < Batch
    /\ p.fetched => p.at \in {"choosing", "claiming"}

\* A claim that has not passed over "of": it has its list yet to make, or to go through.
Sees(p) ==
    \/ p.at = "choosing" /\ (p.fetched => of \in Range(p.pending))
    \/ p.at = "wrapping" /\ (of > p.cursor => of \in Range(p.pending))

\* A step that takes process p to q claims in "by" at most as often as p might.
Spends(p, q) ==
    Bit(p.at = "claiming" /\ q.at = "holding" /\ p.org = by) + Chances(q) <= Chances(p)

\* A step that takes process p to q does not pass over "of", unless its list is full.
Watches(p, q) ==
    \/ q.at \notin {"choosing", "wrapping"}
    \/ p.at \in {"choosing", "wrapping"} /\ ~Sees(p)
    \/ ~p.fetched /\ q.fetched /\ Len(q.pending) = Batch
    \/ Sees(q)

\* Two organizations that are not the same.
Two == by \in Org /\ of \in Org /\ by # of

\* A process may claim in "by" twice at most before it serves "of".
LEMMA ChancesAreFew ==
    ASSUME NEW p, Turn(p.pending), Remembers(p)
    PROVE  Chances(p) \in 0 .. 2
<1>1. p.at = "claiming" /\ p.org = by => ~First(p.pending)
  <2> SUFFICES ASSUME p.at = "claiming", p.org = by, First(p.pending), by \notin Range(p.pending)
               PROVE  FALSE
    BY DEF Remembers
  <2>1. PICK i \in 1 .. Len(p.pending) : p.pending[i] = by
    BY DEF First
  <2>2. p.pending \in Seq(Org)
    BY DEF Turn
  <2>3. QED
    BY <2>1, <2>2 DEF Range
<1>2. QED
  BY <1>1 DEF Chances, Due, Bit

\* A step that neither makes nor uses the list.
LEMMA PlainStep ==
    ASSUME NEW p \in Process, NEW q \in Process, Remembers(p),
           q.pending = p.pending, q.cursor = p.cursor, ~q.fetched,
           p.at \notin {"wrapping", "claiming", "crashed"},
           q.at \notin {"wrapping", "claiming", "crashed"}
    PROVE  Spends(p, q) /\ Watches(p, q) /\ Remembers(q)
<1>1. Due(p.pending, p.cursor) \in Nat
  BY DEF Due, Bit
<1>2. Chances(q) = Due(p.pending, p.cursor) /\ Chances(p) = Due(p.pending, p.cursor)
  BY <1>1 DEF Chances, Bit
<1>3. Spends(p, q)
  BY <1>1, <1>2 DEF Spends, Bit
<1>4. QED
  BY <1>3 DEF Watches, Sees, Remembers

\* The first organization of the list is refused, or has no work.
LEMMA SkipStep ==
    ASSUME NEW p \in Process, NEW q \in Process, Two, Turn(p.pending), p.pending # <<>>,
           p.at = "choosing", Head(p.pending) # of,
           q.at = "choosing", q.pending = Tail(p.pending), q.cursor = p.cursor, q.fetched = p.fetched
    PROVE  Spends(p, q) /\ Watches(p, q)
<1>1. Due(q.pending, p.cursor) + Bit(Head(p.pending) = by) <= Due(p.pending, p.cursor)
  BY DueTail DEF Two
<1>2. Due(q.pending, p.cursor) \in Nat /\ Due(p.pending, p.cursor) \in Nat
  BY DEF Due, Bit
<1>3. Spends(p, q)
  BY <1>1, <1>2 DEF Spends, Chances, Bit
<1>4. of \in Range(p.pending) => of \in Range(q.pending)
  <2>1. p.pending \in Seq(Org)
    BY DEF Turn
  <2>2. QED
    BY <2>1, TailKeeps
<1>5. Watches(p, q)
  BY <1>4 DEF Watches, Sees
<1>6. QED
  BY <1>3, <1>5

\* A job of the first organization of the list is locked.
LEMMA LockStep ==
    ASSUME NEW p \in Process, NEW q \in Process, Two, Turn(p.pending), p.pending # <<>>,
           p.at = "choosing",
           q.at = "claiming", q.org = Head(p.pending), q.pending = Tail(p.pending), q.cursor = p.cursor
    PROVE  Spends(p, q) /\ Watches(p, q)
<1>1. Watches(p, q)
  BY DEF Watches
<1>2. Due(q.pending, p.cursor) \in Nat /\ Due(p.pending, p.cursor) \in Nat
  BY DEF Due, Bit
<1>3. CASE q.org = of
  <2>1. Chances(q) = 0 /\ Chances(p) \in Nat
    BY <1>2, <1>3 DEF Chances, Bit
  <2>2. QED
    BY <1>1, <2>1 DEF Spends, Bit
<1>4. CASE q.org # of
  <2>1. Due(q.pending, p.cursor) + Bit(q.org = by) <= Due(p.pending, p.cursor)
    BY <1>4, DueTail DEF Two
  <2>2. Chances(q) = Bit(q.org = by) + Due(q.pending, p.cursor)
    BY <1>4 DEF Chances
  <2>3. Chances(p) = Due(p.pending, p.cursor)
    BY <1>2 DEF Chances, Bit
  <2>4. QED
    BY <1>1, <1>2, <2>1, <2>2, <2>3 DEF Spends, Bit
<1>5. QED
  BY <1>1, <1>3, <1>4

\* A claim commits.
LEMMA CommitStep ==
    ASSUME NEW p \in Process, NEW q \in Process, p.at = "claiming", p.org # of,
           q.at = "holding", q.pending = p.pending, q.cursor = p.cursor
    PROVE  Spends(p, q) /\ Watches(p, q)
<1>1. Due(p.pending, p.cursor) \in Nat
  BY DEF Due, Bit
<1>2. Chances(q) = Due(p.pending, p.cursor)
  BY <1>1 DEF Chances, Bit
<1>3. Chances(p) = Bit(p.org = by) + Due(p.pending, p.cursor)
  BY DEF Chances
<1>4. QED
  BY <1>1, <1>2, <1>3 DEF Spends, Bit, Watches

\* The first query.
LEMMA ListStep ==
    ASSUME NEW p \in Process, NEW q \in Process, Two,
           p.at = "choosing", p.pending = <<>>, ~p.fetched,
           NEW S \in SUBSET Org, of \in S,
           NEW found \in Page(Batch, {o \in S : o > p.cursor}),
           q.pending = found,
           IF Len(found) < Batch /\ p.cursor # NoOrg
           THEN q.at = "wrapping" /\ q.cursor = p.cursor
           ELSE /\ q.at = "choosing" /\ q.fetched
                /\ q.cursor = IF found = <<>> THEN NoOrg ELSE Last(found)
    PROVE  Spends(p, q) /\ Watches(p, q)
<1>1. p.cursor \in Org \cup {NoOrg} /\ Batch \in Nat /\ p.cursor \in Nat /\ of \in Nat \ {0}
  <2>1. p.cursor \in Org \cup {NoOrg} /\ Batch \in Nat
    BY DispatcherAssumption DEF Process
  <2>2. QED
    BY <2>1, DispatcherAssumption DEF Two, Org, NoOrg
<1> DEFINE T == {o \in S : o > p.cursor}
<1>2. T \in SUBSET Org /\ found \in Page(Batch, T) /\ (of > p.cursor => of \in T)
  OBVIOUS
<1>3. /\ found \in Seq(Org) /\ Len(found) \in Nat /\ Len(found) <= Batch
      /\ of > p.cursor /\ of \notin Range(found) => Len(found) = Batch
  <2> HIDE DEF T
  <2>1. found \in Seq(Org) /\ Len(found) <= Batch
    BY <1>1, <1>2, PageIsList
  <2>2. \A o \in T \ Range(found) : Len(found) = Batch
    BY <1>1, <1>2, PageOrder
  <2>3. QED
    BY <1>2, <2>1, <2>2
<1> HIDE DEF T
<1>4. Chances(p) = Bit(Ahead(p.cursor))
  <2>1. ~First(<<>>) /\ Range(<<>>) = {}
    BY DEF First, Range
  <2>2. QED
    BY <2>1 DEF Chances, Due, Bit
<1>5. CASE Len(found) < Batch /\ p.cursor # NoOrg
  <2>1. of > p.cursor => of \in Range(found)
    BY <1>3, <1>5
  <2>2. Chances(q) = Bit(Ahead(p.cursor))
    BY <1>5, <2>1 DEF Chances
  <2>3. Sees(q)
    BY <1>5, <2>1 DEF Sees
  <2>4. QED
    BY <1>4, <2>2, <2>3 DEF Spends, Bit, Watches
<1>6. CASE ~(Len(found) < Batch /\ p.cursor # NoOrg)
  <2>1. Due(found, q.cursor) <= Bit(Ahead(p.cursor))
    BY <1>1, <1>6, FirstPage DEF Two
  <2>2. Chances(q) = Due(found, q.cursor) /\ Due(found, q.cursor) \in Nat
    BY <1>6 DEF Chances, Due, Bit
  <2>3. Spends(p, q)
    BY <1>4, <2>1, <2>2 DEF Spends, Bit
  <2>4. Len(found) < Batch => of \in Range(found)
    BY <1>1, <1>3, <1>6 DEF NoOrg
  <2>5. Len(q.pending) # Batch => Sees(q)
    BY <1>1, <1>3, <1>6, <2>4 DEF Sees
  <2>6. QED
    BY <1>6, <2>3, <2>5 DEF Watches
<1>7. QED
  BY <1>5, <1>6

\* The second query.
LEMMA WrapStep ==
    ASSUME NEW p \in Process, NEW q \in Process, Two, Remembers(p),
           p.at = "wrapping", Turn(p.pending),
           NEW S \in SUBSET Org, of \in S,
           NEW wrapped \in Page(Batch, S),
           NEW others \in Page(Batch - Len(p.pending), New(wrapped, p.pending)),
           Turn(q.pending), q.pending = p.pending \o others,
           q.at = "choosing", q.fetched,
           q.cursor = IF q.pending = <<>> THEN NoOrg ELSE Last(q.pending)
    PROVE  Spends(p, q) /\ Watches(p, q)
<1>1. /\ p.cursor \in Org \cup {NoOrg} /\ ~p.fetched
      /\ Ascending(p.pending, p.cursor) /\ Len(p.pending) < Batch
  BY DEF Process, Remembers
<1>2. Chances(q) = Due(q.pending, q.cursor) /\ Due(q.pending, q.cursor) \in 0 .. 2
  BY DEF Chances, Due, Bit
<1>3. CASE of > p.cursor => of \in Range(p.pending)
  <2>1. /\ Due(q.pending, q.cursor) <= Bit(Ahead(p.cursor))
        /\ Len(q.pending) < Batch => of \in Range(q.pending)
    <3> DEFINE cu == p.cursor
               found == p.pending
               list == q.pending
    <3>1. of \in S /\ by \in Org /\ by # of /\ cu \in Org \cup {NoOrg}
      BY <1>1 DEF Two
    <3>2. Turn(found) /\ Ascending(found, cu) /\ Len(found) < Batch /\ (of > cu => of \in Range(found))
      BY <1>1, <1>3
    <3>3. others \in Page(Batch - Len(found), New(wrapped, found)) /\ list = found \o others
      OBVIOUS
    <3>4. q.cursor = IF list = <<>> THEN NoOrg ELSE Last(list)
      OBVIOUS
    <3> HIDE DEF cu, found, list
    <3>5. /\ Due(list, IF list = <<>> THEN NoOrg ELSE Last(list)) <= Bit(Ahead(cu))
          /\ Len(list) < Batch => of \in Range(list)
      BY <3>1, <3>2, <3>3, WrappedPage
    <3>6. QED
      BY <3>4, <3>5 DEF cu, list
  <2>2. Chances(p) = Bit(Ahead(p.cursor))
    BY <1>3 DEF Chances
  <2>3. Spends(p, q)
    BY <1>2, <2>1, <2>2 DEF Spends, Bit
  <2>4. Len(q.pending) \in Nat /\ Len(q.pending) <= Batch /\ Batch \in Nat
    BY DispatcherAssumption DEF Turn
  <2>5. Watches(p, q)
    <3>1. Len(q.pending) # Batch => of \in Range(q.pending)
      <4> DEFINE n == Len(q.pending)
      <4>1. n \in Nat /\ n <= Batch /\ Batch \in Nat /\ (n < Batch => of \in Range(q.pending))
        BY <2>1, <2>4
      <4> HIDE DEF n
      <4>2. n # Batch => of \in Range(q.pending)
        BY <4>1
      <4>3. QED
        BY <4>2 DEF n
    <3>2. QED
      BY <1>1, <3>1 DEF Watches, Sees
  <2>6. QED
    BY <2>3, <2>5
<1>4. CASE ~(of > p.cursor => of \in Range(p.pending))
  <2>1. Chances(p) = 2
    BY <1>4 DEF Chances
  <2>2. ~Sees(p)
    BY <1>4 DEF Sees
  <2>3. QED
    BY <1>2, <2>1, <2>2 DEF Spends, Bit, Watches
<1>5. QED
  BY <1>3, <1>4

\* What any step that takes process p to q does: one that is no claim in "of" and no
\* failure spends chances only, and one that claims leaves the tables as they are.
Goes(p, q) ==
    /\ Remembers(q)
    /\ Claimable(of) \/ p.at \notin {"choosing", "wrapping"} => Watches(p, q)
    /\ p.at = "claiming" /\ q.at = "holding" => UNCHANGED Tables
    /\ \/ UNCHANGED faults /\ (Claimable(of) => Spends(p, q))
       \/ UNCHANGED faults /\ p.at = "claiming" /\ q.at = "holding" /\ p.org = of
       \/ faults' = faults + 1 /\ q.at # "holding"

Steps(w) ==
    /\ Goes(worker[w], worker'[w])
    /\ \A v \in Worker \ {w} : worker'[v] = worker[v]

\* What a step finds.
Before(w) == Inv /\ Two /\ Remembers(worker[w])

\* Where the step takes the process is all there is to show.
LEMMA StepsWhere ==
    ASSUME NEW w \in Worker, Before(w), NEW q, worker' = [worker EXCEPT ![w] = q], Goes(worker[w], q)
    PROVE  Steps(w)
BY DEF Before, Inv, DispatcherTypeOK, Steps

\* The process a poll leaves behind, and one that has crashed.
LEMMA Resting ==
    ASSUME NEW w \in Worker, Before(w)
    PROVE  /\ BackToIdle(w) \in Process /\ BackToIdle(w).at = "idle" /\ ~BackToIdle(w).fetched
           /\ BackToIdle(w).pending = worker[w].pending /\ BackToIdle(w).cursor = worker[w].cursor
           /\ Crashed \in Process /\ Crashed.at = "crashed" /\ ~Crashed.fetched
<1>1. BackToIdle(w) \in Process
  BY BackToIdleIsSound DEF Before, Sound
<1>2. /\ BackToIdle(w).at = "idle" /\ ~BackToIdle(w).fetched
      /\ BackToIdle(w).pending = worker[w].pending /\ BackToIdle(w).cursor = worker[w].cursor
  BY DEF BackToIdle, Started
<1>3. Crashed \in Process /\ Crashed.at = "crashed" /\ ~Crashed.fetched
  BY StartedIsSound DEF Sound, Crashed, Started
<1>4. QED
  BY <1>1, <1>2, <1>3

\* A process that ends has no chance left.
LEMMA CrashGoes ==
    ASSUME NEW w \in Worker, Before(w), worker' = [worker EXCEPT ![w] = Crashed],
           UNCHANGED faults \/ faults' = faults + 1
    PROVE  Steps(w)
<1>1. Turn(worker[w].pending) /\ Remembers(worker[w])
  BY DEF Before, Inv, Sound
<1>2. Crashed.at = "crashed" /\ ~Crashed.fetched
  BY Resting
<1> HIDE DEF Crashed
<1>3. Chances(Crashed) = 0
  BY <1>2 DEF Chances
<1>4. Chances(worker[w]) \in 0 .. 2
  BY <1>1, ChancesAreFew
<1>5. Spends(worker[w], Crashed) /\ Watches(worker[w], Crashed) /\ Remembers(Crashed)
  BY <1>2, <1>3, <1>4 DEF Spends, Watches, Remembers, Bit
<1>6. Goes(worker[w], Crashed)
  BY <1>2, <1>5 DEF Goes
<1>7. QED
  BY <1>6, StepsWhere

\* A step that neither makes nor uses the list.
LEMMA PlainGoes ==
    ASSUME NEW w \in Worker, Before(w), NEW q \in Process, worker' = [worker EXCEPT ![w] = q],
           UNCHANGED faults, q.pending = worker[w].pending, q.cursor = worker[w].cursor, ~q.fetched,
           worker[w].at \notin {"wrapping", "claiming", "crashed"},
           q.at \notin {"wrapping", "claiming", "crashed"}
    PROVE  Steps(w)
<1>1. worker[w] \in Process /\ Remembers(worker[w])
  BY DEF Before, Inv, DispatcherTypeOK
<1>2. Spends(worker[w], q) /\ Watches(worker[w], q) /\ Remembers(q)
  BY <1>1, PlainStep
<1>3. Goes(worker[w], q)
  BY <1>2 DEF Goes
<1>4. QED
  BY <1>3, StepsWhere

\* The steps that neither make a list nor claim.
LEMMA RestGoes ==
    ASSUME NEW w \in Worker, Before(w),
           StartClaim(w) \/ ClaimsNothing(w) \/ JobPublished(w) \/ StartSweep(w) \/ EndSweep(w)
               \/ SkipsRecovery(w) \/ LocksExpired(w) \/ RecoveryCommits(w) \/ RecoveryCutShort(w)
    PROVE  Steps(w)
<1> DEFINE p == worker[w]
<1>1. p \in Process /\ worker \in [Worker -> Process] /\ Remembers(p) /\ stale \in [Org -> Nat]
  BY DEF Before, Inv, DispatcherTypeOK
<1>2. p.at \in {"idle", "sweeping", "recovering"} => ~p.fetched
  BY <1>1 DEF Remembers
<1>3. CASE StartClaim(w) \/ EndSweep(w)
  <2>1. worker' = [worker EXCEPT ![w] = [p EXCEPT !.at = "choosing"]] /\ p.at \in {"idle", "sweeping"}
    BY <1>3 DEF StartClaim, EndSweep, At
  <2> DEFINE q == [p EXCEPT !.at = "choosing"]
  <2>2. /\ q \in Process /\ q.at = "choosing" /\ q.pending = p.pending /\ q.cursor = p.cursor
        /\ q.fetched = p.fetched
    BY <1>1 DEF Process
  <2>3. UNCHANGED faults
    BY <1>3 DEF StartClaim, EndSweep
  <2> HIDE DEF q
  <2>4. QED
    BY <1>2, <2>1, <2>2, <2>3, PlainGoes DEF q
<1>4. CASE ClaimsNothing(w) \/ JobPublished(w)
  <2>1. /\ worker' = [worker EXCEPT ![w] = BackToIdle(w)] /\ p.at \in {"choosing", "holding"}
        /\ UNCHANGED faults
    BY <1>4 DEF ClaimsNothing, JobPublished, At
  <2>2. QED
    BY <2>1, Resting, PlainGoes
<1>5. CASE StartSweep(w)
  <2>1. PICK found : worker' = [worker EXCEPT ![w] = [p EXCEPT !.at = "sweeping", !.sweep = found]]
    BY <1>1, <1>5 DEF StartSweep
  <2>2. p.at = "idle" /\ UNCHANGED faults
    BY <1>5 DEF StartSweep, At
  <2> DEFINE q == [p EXCEPT !.at = "sweeping", !.sweep = found]
  <2>3. q.at = "sweeping" /\ q.pending = p.pending /\ q.cursor = p.cursor /\ q.fetched = p.fetched
    BY <1>1 DEF Process
  <2>4. Inv'
    BY <1>5, SweepKeepsInv DEF Before
  <2>5. worker'[w] = q
    BY <1>1, <2>1
  <2>6. q \in Process
    BY <2>4, <2>5 DEF Inv, DispatcherTypeOK
  <2> HIDE DEF q
  <2>7. QED
    BY <1>2, <2>1, <2>2, <2>3, <2>6, PlainGoes DEF q
<1>6. CASE SkipsRecovery(w)
  <2> DEFINE q == [p EXCEPT !.sweep = Tail(p.sweep)]
  <2>1. worker' = [worker EXCEPT ![w] = q] /\ p.at = "sweeping" /\ UNCHANGED faults
    BY <1>1, <1>6 DEF SkipsRecovery, Sweeping, At
  <2>2. q.at = p.at /\ q.pending = p.pending /\ q.cursor = p.cursor /\ q.fetched = p.fetched
    BY <1>1 DEF Process
  <2>3. Inv'
    BY <1>6, SweepKeepsInv DEF Before
  <2>4. worker'[w] = q
    BY <1>1, <2>1
  <2>5. q \in Process
    <3>1. worker' \in [Worker -> Process]
      BY <2>3 DEF Inv, DispatcherTypeOK
    <3>2. QED
      BY <2>4, <3>1
  <2> HIDE DEF q
  <2>6. QED
    BY <1>2, <2>1, <2>2, <2>5, PlainGoes
<1>7. CASE LocksExpired(w)
  <2> DEFINE q == [p EXCEPT !.sweep = Tail(p.sweep), !.at = "recovering", !.org = Head(p.sweep),
                            !.rows = stale[Head(p.sweep)]]
  <2>1. worker' = [worker EXCEPT ![w] = q] /\ p.at = "sweeping" /\ UNCHANGED faults
    BY <1>1, <1>7 DEF LocksExpired, Sweeping, At, Swept
  <2>2. q.at = "recovering" /\ q.pending = p.pending /\ q.cursor = p.cursor /\ q.fetched = p.fetched
    BY <1>1 DEF Process
  <2>3. Inv'
    BY <1>7, SweepKeepsInv DEF Before
  <2>4. worker'[w] = q
    BY <1>1, <2>1
  <2>5. q \in Process
    BY <2>3, <2>4 DEF Inv, DispatcherTypeOK
  <2> HIDE DEF q
  <2>6. QED
    BY <1>2, <2>1, <2>2, <2>5, PlainGoes
<1>8. CASE RecoveryCommits(w) \/ RecoveryCutShort(w)
  <2> DEFINE q == [p EXCEPT !.at = "sweeping", !.org = NoOrg, !.rows = 0]
  <2>1. worker' = [worker EXCEPT ![w] = q] /\ p.at = "recovering" /\ UNCHANGED faults
    BY <1>1, <1>8 DEF RecoveryCommits, RecoveryCutShort, Recover, At
  <2>2. q.at = "sweeping" /\ q.pending = p.pending /\ q.cursor = p.cursor /\ q.fetched = p.fetched
    BY <1>1 DEF Process
  <2>3. Inv'
    BY <1>8, RecoveryKeepsInv DEF Before
  <2>4. worker'[w] = q
    BY <1>1, <2>1
  <2>5. q \in Process
    BY <2>3, <2>4 DEF Inv, DispatcherTypeOK
  <2> HIDE DEF q
  <2>6. QED
    BY <1>2, <2>1, <2>2, <2>5, PlainGoes
<1>9. QED
  BY <1>3, <1>4, <1>5, <1>6, <1>7, <1>8

\* A failure costs "of" its turn, or the worker its job or its life.
LEMMA FailureGoes ==
    ASSUME NEW w \in Worker, Before(w), Fails(w) \/ JobUnrecorded(w)
    PROVE  Steps(w)
<1> DEFINE p == worker[w]
<1>1. p \in Process /\ worker \in [Worker -> Process] /\ Remembers(p)
  BY DEF Before, Inv, DispatcherTypeOK
<1>2. CASE Dies(w)
  BY <1>2, CrashGoes DEF Dies, Fault
<1>3. CASE JobUnrecorded(w) /\ UNCHANGED faults
  <2>1. worker' = [worker EXCEPT ![w] = BackToIdle(w)] /\ p.at = "holding"
    BY <1>3 DEF JobUnrecorded, At
  <2>2. QED
    BY <1>3, <2>1, Resting, PlainGoes
<1>4. ASSUME NEW q, worker' = [worker EXCEPT ![w] = q], q.at = "idle", ~q.fetched, faults' = faults + 1
      PROVE  Steps(w)
  <2>1. Goes(p, q)
    BY <1>4 DEF Goes, Remembers, Watches
  <2>2. QED
    BY <1>4, <2>1, StepsWhere
<1>5. CASE ClaimAnswerLost(w) \/ (JobUnrecorded(w) /\ Fault)
  <2>1. worker' = [worker EXCEPT ![w] = BackToIdle(w)] /\ faults' = faults + 1
    BY <1>5 DEF ClaimAnswerLost, JobUnrecorded, Fault
  <2>2. QED
    BY <1>4, <2>1, Resting
<1>6. CASE CallBreaks(w)
  <2> DEFINE b == BackToIdle(w)
             s == IF At(w, "wrapping") THEN <<>> ELSE IF Choosing(w) THEN Tail(b.pending) ELSE b.pending
             q == [b EXCEPT !.pending = s]
  <2>1. worker' = [worker EXCEPT ![w] = q] /\ faults' = faults + 1
    BY <1>6 DEF CallBreaks, Fault
  <2>2. b \in Process /\ b.at = "idle" /\ ~b.fetched
    BY Resting
  <2> HIDE DEF b, s
  <2>3. q.at = "idle" /\ ~q.fetched
    BY <2>2 DEF Process
  <2> HIDE DEF q
  <2>4. QED
    BY <1>4, <2>1, <2>3
<1>7. QED
  BY <1>2, <1>3, <1>5, <1>6 DEF Fails, JobUnrecorded

\* A refusal ends the process.
LEMMA RefusalGoes ==
    ASSUME NEW w \in Worker, Before(w), ClaimRefused(w) \/ RecoveryRefused(w)
    PROVE  Steps(w)
BY CrashGoes DEF ClaimRefused, RecoveryRefused

\* Going through the list: an organization that can be claimed is not skipped.
LEMMA ClaimGoes ==
    ASSUME NEW w \in Worker, Before(w), SkipsOrganization(w) \/ LocksJob(w) \/ ClaimCommits(w)
    PROVE  Steps(w)
<1> DEFINE p == worker[w]
<1>1. /\ p \in Process /\ worker \in [Worker -> Process] /\ Remembers(p) /\ Turn(p.pending) /\ Two
      /\ ready \in [Org -> Nat]
  BY DEF Before, Inv, DispatcherTypeOK, Sound
<1>2. Inv'
  BY ClaimKeepsInv DEF Before
<1>3. CASE SkipsOrganization(w)
  <2> DEFINE q == [p EXCEPT !.pending = Tail(p.pending)]
  <2>1. /\ worker' = [worker EXCEPT ![w] = q] /\ p.at = "choosing" /\ p.pending # <<>>
        /\ UNCHANGED faults
    BY <1>1, <1>3 DEF SkipsOrganization, Choosing, At
  <2>2. q.at = p.at /\ q.pending = Tail(p.pending) /\ q.cursor = p.cursor /\ q.fetched = p.fetched
    BY <1>1 DEF Process
  <2>3. q \in Process
    BY <1>1, <1>2, <2>1 DEF Inv, DispatcherTypeOK
  <2> HIDE DEF q
  <2>4. Claimable(of) => Head(p.pending) # of
    BY <1>1, <1>3 DEF SkipsOrganization, Chosen, Claimable, Two
  <2>5. Claimable(of) => Spends(p, q) /\ Watches(p, q)
    BY <1>1, <2>1, <2>2, <2>3, <2>4, SkipStep
  <2>6. Remembers(q)
    BY <2>1, <2>2 DEF Remembers
  <2>7. Goes(p, q)
    BY <2>1, <2>5, <2>6 DEF Goes
  <2>8. QED
    BY <2>1, <2>7, StepsWhere
<1>4. CASE LocksJob(w)
  <2> DEFINE q == [p EXCEPT !.pending = Tail(p.pending), !.at = "claiming", !.org = Head(p.pending),
                            !.rows = 1]
  <2>1. /\ worker' = [worker EXCEPT ![w] = q] /\ p.at = "choosing" /\ p.pending # <<>>
        /\ UNCHANGED faults
    BY <1>1, <1>4 DEF LocksJob, Choosing, Chosen, At
  <2>2. /\ q.at = "claiming" /\ q.org = Head(p.pending) /\ q.pending = Tail(p.pending)
        /\ q.cursor = p.cursor /\ q.fetched = p.fetched
    BY <1>1 DEF Process
  <2>3. q \in Process
    BY <1>1, <1>2, <2>1 DEF Inv, DispatcherTypeOK
  <2> HIDE DEF q
  <2>4. Spends(p, q) /\ Watches(p, q)
    BY <1>1, <2>1, <2>2, <2>3, LockStep
  <2>5. Remembers(q)
    <3>1. Head(p.pending) \notin Range(Tail(p.pending))
      BY <1>1, <2>1, HeadIsServedOnce
    <3>2. QED
      BY <2>2, <3>1 DEF Remembers
  <2>6. Goes(p, q)
    BY <2>1, <2>4, <2>5 DEF Goes
  <2>7. QED
    BY <2>1, <2>6, StepsWhere
<1>5. CASE ClaimCommits(w)
  <2> DEFINE q == [p EXCEPT !.at = "holding", !.fetched = FALSE]
  <2>1. worker' = [worker EXCEPT ![w] = q] /\ p.at = "claiming" /\ UNCHANGED <<Tables, faults>>
    BY <1>1, <1>5 DEF ClaimCommits, At
  <2>2. q.at = "holding" /\ q.pending = p.pending /\ q.cursor = p.cursor /\ q.fetched = FALSE
    BY <1>1 DEF Process
  <2>3. q \in Process
    BY <1>1, <1>2, <2>1 DEF Inv, DispatcherTypeOK
  <2> HIDE DEF q
  <2>4. p.org # of => Spends(p, q)
    BY <1>1, <2>1, <2>2, <2>3, CommitStep
  <2>5. Remembers(q) /\ Watches(p, q)
    BY <2>2 DEF Remembers, Watches
  <2>6. Goes(p, q)
    <3>1. UNCHANGED Tables /\ UNCHANGED faults
      BY <2>1
    <3>2. QED
      BY <2>1, <2>2, <2>4, <2>5, <3>1 DEF Goes
  <2>7. QED
    BY <2>1, <2>6, StepsWhere
<1>6. QED
  BY <1>3, <1>4, <1>5

\* Making the list.
LEMMA ListGoes ==
    ASSUME NEW w \in Worker, Before(w), ListReady(w) \/ ListFromStart(w)
    PROVE  Steps(w)
<1> DEFINE p == worker[w]
<1>1. /\ p \in Process /\ worker \in [Worker -> Process] /\ Remembers(p) /\ Turn(p.pending) /\ Two
      /\ Ready \in SUBSET Org /\ (Claimable(of) => of \in Ready)
  BY DEF Before, Inv, DispatcherTypeOK, Sound, Ready, Claimable
<1>2. Inv'
  BY ListsKeepInv DEF Before
<1>3. CASE ListReady(w)
  <2>1. p.at = "choosing" /\ p.pending = <<>> /\ ~p.fetched /\ UNCHANGED faults
    BY <1>3 DEF ListReady, At
  <2>2. PICK found \in Page(Batch, {o \in Ready : o > p.cursor}) :
            worker' = [worker EXCEPT ![w] =
                IF Len(found) < Batch /\ p.cursor # NoOrg
                THEN [p EXCEPT !.at = "wrapping", !.pending = found]
                ELSE Take(w, found)]
    BY <1>1, <1>3 DEF ListReady
  <2> DEFINE q == IF Len(found) < Batch /\ p.cursor # NoOrg
                  THEN [p EXCEPT !.at = "wrapping", !.pending = found]
                  ELSE Take(w, found)
  <2>3. worker' = [worker EXCEPT ![w] = q]
    BY <2>2
  <2>4. /\ q.pending = found
        /\ IF Len(found) < Batch /\ p.cursor # NoOrg
           THEN q.at = "wrapping" /\ q.cursor = p.cursor /\ q.fetched = p.fetched
           ELSE /\ q.at = "choosing" /\ q.fetched
                /\ q.cursor = IF found = <<>> THEN NoOrg ELSE Last(found)
    <3>1. CASE Len(found) < Batch /\ p.cursor # NoOrg
      BY <1>1, <3>1 DEF Process
    <3>2. CASE ~(Len(found) < Batch /\ p.cursor # NoOrg)
      <4>1. q = Take(w, found)
        BY <3>2
      <4> HIDE DEF q
      <4>2. /\ q.pending = found /\ q.at = "choosing" /\ q.fetched
            /\ q.cursor = IF found = <<>> THEN NoOrg ELSE Last(found)
        BY <1>1, <4>1 DEF Take, Process
      <4>3. QED
        BY <3>2, <4>2
    <3>3. QED
      BY <3>1, <3>2
  <2>5. q \in Process
    BY <1>1, <1>2, <2>3 DEF Inv, DispatcherTypeOK
  <2> HIDE DEF q
  <2>6. Claimable(of) => Spends(p, q) /\ Watches(p, q)
    BY <1>1, <2>1, <2>4, <2>5, ListStep
  <2>7. Remembers(q)
    <3>1. CASE Len(found) < Batch /\ p.cursor # NoOrg
      <4>1. Ascending(found, p.cursor)
        <5> DEFINE T == {o \in Ready : o > p.cursor}
        <5>1. T \in SUBSET Org /\ found \in Page(Batch, T) /\ (\A o \in T : o > p.cursor)
          BY <1>1
        <5> HIDE DEF T
        <5>2. Batch \in Nat
          BY DispatcherAssumption
        <5>3. /\ \A i \in 1 .. Len(found) : found[i] \in T
              /\ \A i, j \in 1 .. Len(found) : i < j => found[i] < found[j]
          BY <5>1, <5>2, PageOrder
        <5>4. QED
          BY <5>1, <5>3 DEF Ascending
      <4>2. QED
        BY <2>1, <2>4, <3>1, <4>1 DEF Remembers
    <3>2. CASE ~(Len(found) < Batch /\ p.cursor # NoOrg)
      BY <2>4, <3>2 DEF Remembers
    <3>3. QED
      BY <3>1, <3>2
  <2>8. Goes(p, q)
    BY <2>1, <2>6, <2>7 DEF Goes
  <2>9. QED
    BY <2>3, <2>8, StepsWhere
<1>4. CASE ListFromStart(w)
  <2>1. p.at = "wrapping" /\ UNCHANGED faults
    BY <1>4 DEF ListFromStart, At
  <2>2. PICK wrapped \in Page(Batch, Ready) :
            \E others \in Page(Batch - Len(p.pending), New(wrapped, p.pending)) :
                worker' = [worker EXCEPT ![w] = Take(w, p.pending \o others)]
    BY <1>4 DEF ListFromStart
  <2>3. PICK others \in Page(Batch - Len(p.pending), New(wrapped, p.pending)) :
            worker' = [worker EXCEPT ![w] = Take(w, p.pending \o others)]
    BY <2>2
  <2>4. PICK list : list = p.pending \o others
    OBVIOUS
  <2> DEFINE q == Take(w, list)
  <2>5. worker' = [worker EXCEPT ![w] = q]
    BY <2>3, <2>4
  <2>6. /\ q.pending = list /\ q.at = "choosing" /\ q.fetched
        /\ q.cursor = IF list = <<>> THEN NoOrg ELSE Last(list)
    BY <1>1 DEF Take, Process
  <2>7. q \in Process /\ Turn(q.pending)
    BY <1>1, <1>2, <2>5 DEF Inv, DispatcherTypeOK, Sound
  <2> HIDE DEF q
  <2>8. Claimable(of) => Spends(p, q) /\ Watches(p, q)
    BY <1>1, <2>1, <2>4, <2>6, <2>7, WrapStep
  <2>9. Remembers(q)
    BY <2>6 DEF Remembers
  <2>10. Goes(p, q)
    BY <2>1, <2>6, <2>8, <2>9 DEF Goes
  <2>11. QED
    BY <2>5, <2>10, StepsWhere
<1>5. QED
  BY <1>3, <1>4

-----------------------------------------------------------------------------
(* The invariant of the turns *)

\* The claims in "by" so far and those to come: two, and two for each failure.
Patient(w) ==
    /\ overtakes[w] + Chances(worker[w]) <= 2 + 2 * faults
    /\ ~Claimable(of) => overtakes[w] = 0

Unmissed(w) == missed[w] => Claimable(of) /\ Sees(worker[w])

Turns ==
    /\ Inv
    /\ Two
    /\ overtakes \in [Worker -> Nat]
    /\ missed \in [Worker -> BOOLEAN]
    /\ \A w \in Worker : Remembers(worker[w]) /\ Patient(w) /\ Unmissed(w)

\* Every step is one of a process, or leaves all processes as they are.
LEMMA EveryStep ==
    ASSUME Turns, [Next]_vars
    PROVE  (UNCHANGED <<worker, faults>>) \/ \E w \in Worker : Steps(w)
<1>1. \A w \in Worker : Before(w)
  BY DEF Turns, Before
<1>2. CASE \E w \in Worker : StartClaim(w) \/ Poll(w) \/ StartSweep(w) \/ Sweep(w) \/ Fails(w)
  <2>1. PICK w \in Worker : StartClaim(w) \/ Poll(w) \/ StartSweep(w) \/ Sweep(w) \/ Fails(w)
    BY <1>2
  <2>2. CASE StartClaim(w) \/ Poll(w)
    BY <1>1, <2>2, RestGoes, ListGoes, ClaimGoes, RefusalGoes, FailureGoes DEF Poll
  <2>3. CASE StartSweep(w) \/ Sweep(w)
    BY <1>1, <2>3, RestGoes, RefusalGoes DEF Sweep
  <2>4. CASE Fails(w)
    BY <1>1, <2>4, FailureGoes
  <2>5. QED
    BY <2>1, <2>2, <2>3, <2>4
<1>3. CASE \E o \in Org : Elsewhere(o)
  BY <1>3 DEF Elsewhere, LeaseExpires, JobBecomesReady, JobTakenElsewhere, authorize_service,
              revoke_service
<1>4. CASE UNCHANGED vars
  BY <1>4 DEF vars
<1>5. QED
  BY <1>2, <1>3, <1>4 DEF Next

\* The organizations observed stay the same, so what is said of a process before a step
\* means the same after it.
LEMMA SameMeaning ==
    ASSUME by' = by, of' = of, NEW w \in Worker
    PROVE  /\ Chances(worker[w])' = Chances(worker'[w])
           /\ Sees(worker[w])' <=> Sees(worker'[w])
           /\ Remembers(worker[w])' <=> Remembers(worker'[w])
<1>1. PICK q : q = worker'[w]
  OBVIOUS
<1>2. First(worker[w].pending)' <=> First(q.pending)
  BY <1>1 DEF First
<1>3. Ahead(worker[w].cursor)' <=> Ahead(q.cursor)
  BY <1>1 DEF Ahead
<1>4. Due(worker[w].pending, worker[w].cursor)' = Due(q.pending, q.cursor)
  <2>1. (of \notin Range(worker[w].pending))' <=> of \notin Range(q.pending)
    BY <1>1
  <2>2. QED
    BY <1>2, <1>3, <2>1 DEF Due, Bit
<1>5. Chances(worker[w])' = Chances(q)
  <2>1. /\ (worker[w].at)' = q.at /\ (worker[w].org)' = q.org /\ (worker[w].cursor)' = q.cursor
        /\ (worker[w].pending)' = q.pending
    BY <1>1
  <2>2. Bit(Ahead(worker[w].cursor))' = Bit(Ahead(q.cursor))
    BY <1>3 DEF Bit
  <2>3. Bit(worker[w].at = "claiming" /\ worker[w].org = by)' = Bit(q.at = "claiming" /\ q.org = by)
    BY <2>1 DEF Bit
  <2>4. QED
    BY <1>4, <2>1, <2>2, <2>3 DEF Chances
<1>6. Sees(worker[w])' <=> Sees(q)
  BY <1>1 DEF Sees
<1>7. Remembers(worker[w])' <=> Remembers(q)
  BY <1>1 DEF Remembers, Ascending
<1>8. QED
  BY <1>1, <1>5, <1>6, <1>7

\* Nothing was overtaken or missed at first,
LEMMA TurnsStart == TurnInit => Turns
<1> SUFFICES ASSUME TurnInit PROVE Turns
  OBVIOUS
<1>1. Init /\ Inv /\ Two
  BY InvStarts DEF TurnInit, Two
<1>2. overtakes \in [Worker -> Nat] /\ missed \in [Worker -> BOOLEAN]
  BY DEF TurnInit
<1>3. ASSUME NEW w \in Worker PROVE Remembers(worker[w]) /\ Patient(w) /\ Unmissed(w)
  <2>1. worker[w] = Started
    BY <1>1 DEF Init
  <2>2. Started.at = "idle" /\ ~Started.fetched
    BY DEF Started
  <2>3. Remembers(worker[w])
    BY <2>1, <2>2 DEF Remembers
  <2>4. overtakes[w] = 0 /\ ~missed[w] /\ faults = 0
    BY <1>1 DEF TurnInit, Init
  <2>5. Turn(worker[w].pending)
    BY <1>1 DEF Inv, Sound
  <2>6. Chances(worker[w]) \in 0 .. 2
    BY <2>3, <2>5, ChancesAreFew
  <2>7. QED
    BY <2>3, <2>4, <2>6 DEF Patient, Unmissed
<1>4. QED
  BY <1>1, <1>2, <1>3 DEF Turns

\* and every step keeps the count: what is spent was a chance, and a failure gives two back.
LEMMA TurnsGoOn == Turns /\ [TurnNext]_turnVars => Turns'
<1> SUFFICES ASSUME Turns, [TurnNext]_turnVars PROVE Turns'
  OBVIOUS
<1>1. CASE UNCHANGED turnVars
  <2>1. UNCHANGED vars /\ by' = by /\ of' = of /\ overtakes' = overtakes /\ missed' = missed
    BY <1>1 DEF turnVars, vars
  <2>2. Inv'
    BY <2>1, InvGoesOn DEF Turns
  <2>3. UNCHANGED <<worker, faults, authorized, ready>>
    BY <2>1 DEF vars
  <2>4. Claimable(of)' <=> Claimable(of)
    BY <2>1, <2>3 DEF Claimable
  <2>5. ASSUME NEW w \in Worker PROVE (Remembers(worker[w]) /\ Patient(w) /\ Unmissed(w))'
    <3>1. Remembers(worker[w]) /\ Patient(w) /\ Unmissed(w)
      BY DEF Turns
    <3>2. /\ Chances(worker[w])' = Chances(worker[w])
          /\ Sees(worker[w])' <=> Sees(worker[w])
          /\ Remembers(worker[w])' <=> Remembers(worker[w])
      BY <2>1, <2>3, SameMeaning
    <3>3. QED
      BY <2>1, <2>3, <2>4, <3>1, <3>2 DEF Patient, Unmissed
  <2>6. QED
    BY <2>1, <2>2, <2>5 DEF Turns, Two
<1>2. CASE TurnNext
  <2>1. Next /\ Observe /\ by' = by /\ of' = of
    BY <1>2 DEF TurnNext, Observe
  <2>2. Inv'
    BY <2>1, InvGoesOn DEF Turns
  <2>3. (UNCHANGED <<worker, faults>>) \/ \E w \in Worker : Steps(w)
    BY <2>1, EveryStep
  <2>4. faults \in Nat /\ faults' \in {faults, faults + 1}
    BY <2>3 DEF Steps, Goes, Turns, Inv, DispatcherTypeOK
  <2>5. ASSUME NEW v \in Worker
        PROVE  worker'[v] = worker[v] \/ Goes(worker[v], worker'[v])
    BY <2>3 DEF Steps
  <2>6. overtakes' \in [Worker -> Nat] /\ missed' \in [Worker -> BOOLEAN]
    BY <2>1 DEF Observe, Turns
  <2>7. ASSUME NEW v \in Worker PROVE (Remembers(worker[v]) /\ Patient(v) /\ Unmissed(v))'
    <3>1. PICK p, q : p = worker[v] /\ q = worker'[v]
      OBVIOUS
    <3>2. /\ Remembers(p) /\ overtakes[v] \in Nat /\ overtakes[v] + Chances(p) <= 2 + 2 * faults
          /\ ~Claimable(of) => overtakes[v] = 0
          /\ missed[v] => Claimable(of) /\ Sees(p)
          /\ Turn(p.pending)
      BY <3>1 DEF Turns, Patient, Unmissed, Inv, Sound
    <3>3. q = p \/ Goes(p, q)
      BY <2>5, <3>1
    <3>4. Remembers(q) /\ Turn(q.pending)
      <4>1. Turn(q.pending)
        BY <2>2, <3>1 DEF Inv, Sound, Turn
      <4>2. QED
        BY <3>2, <3>3, <4>1 DEF Goes
    <3>5. Chances(p) \in 0 .. 2 /\ Chances(q) \in 0 .. 2
      BY <3>2, <3>4, ChancesAreFew
    <3> DEFINE claims == p.at = "claiming" /\ q.at = "holding"
    <3>6. /\ overtakes'[v] \in {0, overtakes[v], overtakes[v] + 1}
          /\ overtakes'[v] = overtakes[v] + 1 /\ overtakes'[v] # 0
                => claims /\ p.org = by /\ Claimable(of)' /\ p.org # of
          /\ claims /\ p.org = of => overtakes'[v] = 0
          /\ ~Claimable(of)' => overtakes'[v] = 0
      BY <2>1, <3>1, <3>2 DEF Observe, ClaimsIn, At
    <3>7. Patient(v)'
      <4>1. overtakes'[v] + Chances(q) <= 2 + 2 * faults'
        <5>1. CASE overtakes'[v] = 0
          BY <2>4, <3>5, <5>1
        <5>2. CASE overtakes'[v] # 0 /\ q = p
          BY <2>4, <3>2, <3>5, <3>6, <5>2
        <5>3. CASE overtakes'[v] # 0 /\ Goes(p, q)
          <6>1. ~(claims /\ p.org = of)
            BY <3>6, <5>3
          <6>2. CASE q.at # "holding" /\ faults' = faults + 1
            BY <2>4, <3>2, <3>5, <3>6, <5>3, <6>2
          <6>3. CASE UNCHANGED faults /\ Claimable(of) /\ Spends(p, q)
            BY <2>4, <3>2, <3>5, <3>6, <5>3, <6>3 DEF Spends, Bit
          <6>4. CASE UNCHANGED faults /\ ~Claimable(of)
            <7>1. claims => (Claimable(of)' <=> Claimable(of))
              BY <2>1, <5>3 DEF Goes, Tables, Claimable
            <7>2. ~(overtakes'[v] = overtakes[v] + 1)
              BY <3>6, <5>3, <6>4, <7>1
            <7>3. overtakes'[v] = 0
              BY <3>2, <3>6, <6>4, <7>2
            <7>4. QED
              BY <5>3, <7>3
          <6>5. QED
            BY <5>3, <6>1, <6>2, <6>3, <6>4 DEF Goes
        <5>4. QED
          BY <3>3, <5>1, <5>2, <5>3
      <4>2. Chances(worker[v])' = Chances(q)
        BY <2>1, <3>1, SameMeaning
      <4>3. QED
        BY <3>6, <4>1, <4>2 DEF Patient
    <3>8. Unmissed(v)'
      <4> SUFFICES ASSUME missed'[v] PROVE Claimable(of)' /\ Sees(q)
        BY <2>1, <3>1, SameMeaning DEF Unmissed
      <4>1. /\ Claimable(of)' /\ q.at \in {"choosing", "wrapping"}
            /\ p.at \in {"choosing", "wrapping"} => missed[v]
            /\ ~(~p.fetched /\ q.fetched /\ Len(q.pending) = Batch)
        BY <2>1, <3>1 DEF Observe, At, ListsAsManyAsAllowed
      <4>2. CASE q = p
        BY <3>2, <4>1, <4>2
      <4>3. CASE Goes(p, q) /\ p.at \in {"choosing", "wrapping"}
        <5>1. Claimable(of) /\ Sees(p)
          BY <3>2, <4>1, <4>3
        <5>2. QED
          BY <4>1, <4>3, <5>1 DEF Goes, Watches
      <4>4. CASE Goes(p, q) /\ p.at \notin {"choosing", "wrapping"}
        BY <4>1, <4>4 DEF Goes, Watches
      <4>5. QED
        BY <3>3, <4>2, <4>3, <4>4
    <3>9. QED
      BY <2>1, <3>1, <3>4, <3>7, <3>8, SameMeaning
  <2>8. QED
    BY <2>1, <2>2, <2>6, <2>7 DEF Turns, Two
<1>3. QED
  BY <1>1, <1>2

\* The observation only observes, and what it counts keeps to the invariant.
LEMMA TurnsHold == TurnSpec => []Turns
BY TurnsStart, TurnsGoOn, PTL DEF TurnSpec

\* While one organization waits, no other is claimed in a third time by the same
\* worker, whatever the size of the lists and wherever the two stand in the order,
\* but for failures: each costs the one that waits at most two turns (dispatch.py:
\* the rotation from the cursor on and the second query from the start).
THEOREM Patience == TurnSpec => []OvertakenTwiceAtMost
<1>1. Turns => OvertakenTwiceAtMost
  <2> SUFFICES ASSUME Turns, NEW w \in Worker PROVE overtakes[w] <= 2 + 2 * faults
    BY DEF OvertakenTwiceAtMost
  <2>1. overtakes[w] \in Nat /\ faults \in Nat /\ overtakes[w] + Chances(worker[w]) <= 2 + 2 * faults
    BY DEF Turns, Patient, Inv, DispatcherTypeOK
  <2>2. Chances(worker[w]) \in 0 .. 2
    BY ChancesAreFew DEF Turns, Inv, Sound
  <2>3. QED
    BY <2>1, <2>2
<1>2. QED
  BY <1>1, TurnsHold, PTL

\* A claim that answers None has missed nothing: an organization that could be claimed
\* from its start to its end was in its list, unless the list was full (worker.py,
\* Worker.claim).
THEOREM NothingMissed == TurnSpec => []NoneWasClaimable
<1>1. Turns => NoneWasClaimable
  <2> SUFFICES ASSUME Turns, NEW w \in Worker, Exhausted(w), missed[w] PROVE FALSE
    BY DEF NoneWasClaimable
  <2>1. Sees(worker[w])
    BY DEF Turns, Unmissed
  <2>2. of \in Range(<<>>)
    BY <2>1 DEF Sees, Exhausted, At
  <2>3. QED
    BY <2>2 DEF Range
<1>2. QED
  BY <1>1, TurnsHold, PTL
=============================================================================
