-------------------------- MODULE AdministrationProofs --------------------------
(***************************************************************************)
(* What holds of the administration for any number of commands, services,  *)
(* scripts, names and deaths.  The locks come first: who holds which, and  *)
(* when.  Then the tables and what a command relies on between two of its  *)
(* transactions, which the lock of its scope keeps true; the truth of what *)
(* is answered; and the log, with the rows that services add.              *)
(***************************************************************************)
EXTENDS Administration, FiniteSetTheorems, SequenceTheorems, TLAPS

-----------------------------------------------------------------------------
(* The invariant of the locks *)

\* The steps during which a command may hold its lock.
Locked == {"lookup", "roles", "check", "write", "leave"}

\* A command that holds a lock holds that of its current request, which does not change
\* until it is given back; between the lock and the decision it holds one.  No other request
\* than those of Locking takes one: an authorization goes on after its write without.
LockOK(p) ==
    /\ locks[p] # Free => step[p] \in Locked
    /\ locks[p] # Free => locks[p] = Scope(p)
    /\ step[p] \in {"lookup", "roles"} => locks[p] # Free
    /\ locks[p] # Free \/ step[p] = "lock" => Current(p).op \in Locking

LocksInv ==
    /\ DOMAIN locks = Processes
    /\ DOMAIN step = Processes
    /\ DOMAIN todo = Processes
    /\ DOMAIN org = Processes
    /\ \A p \in Processes : LockOK(p)
    /\ \A p, q \in Processes : p # q => locks[p] = Free \/ locks[p] # locks[q]

\* The name of a lock is never that of no lock.
LEMMA ScopesAreLocks ==
    ASSUME NEW p \in Processes
    PROVE  Scope(p) # Free
<1> DEFINE r == Current(p)
<1>1. /\ <<r.op, None, r.key>> # <<>>
      /\ <<r.op, None, r.as>> # <<>>
      /\ <<r.op, org[p], "">> # <<>>
  OBVIOUS
<1>2. CASE r.op = "user"
  BY <1>1, <1>2 DEF Scope, Free
<1>3. CASE r.op # "user" /\ r.op = "organization"
  BY <1>1, <1>3 DEF Scope, Free
<1>4. CASE r.op # "user" /\ r.op # "organization"
  BY <1>1, <1>4 DEF Scope, Free
<1>5. QED
  BY <1>2, <1>3, <1>4

-----------------------------------------------------------------------------
(* What a step may do to the lock of its process *)

\* A step of p to the next one, which holds no lock it did not hold.
Advances(p) ==
    /\ UNCHANGED <<locks, todo, org>>
    /\ \E next : /\ step' = [step EXCEPT ![p] = next]
                 /\ locks[p] # Free => next \in Locked
                 /\ next \in {"lookup", "roles"} => locks[p] # Free
                 /\ next = "lock" => Current(p).op \in Locking

\* A step of p after which it holds no lock.
LetsGo(p) ==
    /\ DOMAIN locks' = DOMAIN locks
    /\ locks'[p] = Free
    /\ \A q \in Processes \ {p} : locks'[q] = locks[q]
    /\ \E next : step' = [step EXCEPT ![p] = next] /\ next \notin {"lock", "lookup", "roles"}
    /\ DOMAIN todo' = DOMAIN todo /\ \A q \in Processes \ {p} : todo'[q] = todo[q]
    /\ DOMAIN org' = DOMAIN org /\ \A q \in Processes \ {p} : org'[q] = org[q]

\* A step to the next keeps the invariant of the locks,
LEMMA AdvancingKeepsLocks ==
    ASSUME LocksInv, NEW p \in Processes, Advances(p)
    PROVE  LocksInv'
<1>1. PICK next :
         /\ step' = [step EXCEPT ![p] = next]
         /\ locks[p] # Free => next \in Locked
         /\ next \in {"lookup", "roles"} => locks[p] # Free
         /\ next = "lock" => Current(p).op \in Locking
  BY DEF Advances
<1>2. /\ UNCHANGED <<locks, todo, org>>
      /\ DOMAIN step' = Processes
      /\ step'[p] = next /\ \A q \in Processes \ {p} : step'[q] = step[q]
  BY <1>1 DEF LocksInv, Advances
<1>3. ASSUME NEW q \in Processes PROVE LockOK(q)'
  <2>1. LockOK(q)
    BY DEF LocksInv
  <2>2. Scope(q)' = Scope(q) /\ Current(q)' = Current(q)
    BY <1>2 DEF Scope, Current
  <2>3. CASE q = p
    BY <2>1, <2>2, <2>3, <1>1, <1>2 DEF LockOK, Free
  <2>4. CASE q # p
    BY <2>1, <2>2, <2>4, <1>2 DEF LockOK, Free
  <2>5. QED
    BY <2>3, <2>4
<1>4. QED
  BY <1>2, <1>3 DEF LocksInv, Free

\* and so does a step that ends with no lock.
LEMMA LettingGoKeepsLocks ==
    ASSUME LocksInv, NEW p \in Processes, LetsGo(p)
    PROVE  LocksInv'
<1>1. PICK next : step' = [step EXCEPT ![p] = next] /\ next \notin {"lock", "lookup", "roles"}
  BY DEF LetsGo
<1>2. /\ DOMAIN step' = Processes /\ DOMAIN locks' = Processes
      /\ step'[p] = next /\ locks'[p] = Free
      /\ \A q \in Processes \ {p} : step'[q] = step[q] /\ locks'[q] = locks[q]
  BY <1>1 DEF LocksInv, LetsGo
<1>3. ASSUME NEW q \in Processes PROVE LockOK(q)'
  <2>1. CASE q = p
    BY <2>1, <1>1, <1>2 DEF LockOK, Free
  <2>2. CASE q # p
    <3>1. LockOK(q) /\ Scope(q)' = Scope(q) /\ Current(q)' = Current(q)
      BY <2>2 DEF LocksInv, LetsGo, Scope, Current
    <3>2. QED
      BY <3>1, <2>2, <1>2 DEF LockOK, Free
  <2>3. QED
    BY <2>1, <2>2
<1>4. DOMAIN todo' = Processes /\ DOMAIN org' = Processes
  BY DEF LocksInv, LetsGo
<1>5. \A q, s \in Processes : q # s => locks'[q] = Free \/ locks'[q] # locks'[s]
  BY <1>2 DEF LocksInv
<1>6. QED
  BY <1>2, <1>3, <1>4, <1>5 DEF LocksInv, Free

-----------------------------------------------------------------------------
(* What each action does to it *)

\* The command goes on,
LEMMA GoingAdvances ==
    ASSUME NEW p \in Processes, NEW next, Goes(p, next),
           locks[p] # Free => next \in Locked,
           next \in {"lookup", "roles"} => locks[p] # Free,
           next = "lock" => Current(p).op \in Locking
    PROVE  Advances(p)
BY DEF Goes, Advances

\* decides,
LEMMA DecidingAdvances ==
    ASSUME NEW p \in Processes, NEW status, NEW row, Decides(p, status, row)
    PROVE  Advances(p)
<1>1. step' = [step EXCEPT ![p] = "leave"] /\ UNCHANGED <<locks, todo, org>>
  BY DEF Decides
<1>2. "leave" \in Locked /\ "leave" \notin {"lock", "lookup", "roles"}
  BY DEF Locked
<1>3. QED
  BY <1>1, <1>2 DEF Advances

\* or settles what its lookup found.
LEMMA SettlingAdvances ==
    ASSUME NEW p \in Processes, NEW matches, Settle(p, matches)
    PROVE  Advances(p)
<1>1. CASE matches = {}
  <2>1. \E next \in {"write", "check"} : Goes(p, next)
    BY <1>1 DEF Settle
  <2>2. QED
    BY <2>1, GoingAdvances DEF Locked
<1>2. CASE matches # {}
  <2>1. \E status, row : Decides(p, status, row)
    BY <1>2 DEF Settle
  <2>2. QED
    BY <2>1, DecidingAdvances
<1>3. QED
  BY <1>1, <1>2

\* Before the lock nothing is held, so any step but one under the lock may come next.
LEMMA StepsBeforeTheLock ==
    ASSUME LocksInv, NEW p \in Processes, Resolve(p) \/ Require(p) \/ Find(p)
    PROVE  Advances(p)
<1>1. locks[p] = Free
  BY DEF LocksInv, LockOK, Locked, Resolve, Require, Find
<1>2. \/ \E next \in {"require", "check", "find"} : Goes(p, next)
      \/ Goes(p, "lock") /\ Current(p).op \in Locking
      \/ \E status, row : Decides(p, status, row)
  <2>1. CASE Resolve(p)
    BY <2>1 DEF Resolve, Locking
  <2>2. CASE Require(p)
    BY <2>2 DEF Require, Opens
  <2>3. CASE Find(p)
    BY <2>3 DEF Find
  <2>4. QED
    BY <2>1, <2>2, <2>3
<1>3. QED
  BY <1>1, <1>2, GoingAdvances, DecidingAdvances

\* Under the lock it is kept.
LEMMA StepsUnderTheLock ==
    ASSUME LocksInv, NEW p \in Processes,
           Lookup(p) \/ ListOrganizations(p) \/ ReadRoles(p) \/ Check(p)
    PROVE  Advances(p)
<1>1. CASE Lookup(p)
  <2>1. \/ \E status, row : Decides(p, status, row)
        \/ \E matches : Settle(p, matches)
    BY <1>1 DEF Lookup
  <2>2. QED
    BY <2>1, DecidingAdvances, SettlingAdvances
<1>2. CASE ListOrganizations(p)
  <2>1. locks[p] # Free /\ Goes(p, "roles")
    BY <1>2 DEF ListOrganizations, LocksInv, LockOK
  <2>2. QED
    BY <2>1, GoingAdvances DEF Locked
<1>3. CASE ReadRoles(p)
  <2>1. \/ \E status, row : Decides(p, status, row)
        \/ \E matches : Settle(p, matches)
    BY <1>3 DEF ReadRoles
  <2>2. QED
    BY <2>1, DecidingAdvances, SettlingAdvances
<1>4. CASE Check(p)
  <2>1. \/ \E status, row : Decides(p, status, row)
        \/ Goes(p, "write")
    BY <1>4 DEF Check, Opens
  <2>2. QED
    BY <2>1, DecidingAdvances, GoingAdvances DEF Locked
<1>5. QED
  BY <1>1, <1>2, <1>3, <1>4

\* Only an authorization goes on after its write, and it holds no lock.
LEMMA WritingAdvances ==
    ASSUME LocksInv, NEW p \in Processes, Write(p)
    PROVE  Advances(p)
<1>1. ASSUME \E status, row : Decides(p, status, row) PROVE Advances(p)
  BY <1>1, DecidingAdvances
<1>2. ASSUME NEW kind, NEW o, NEW traced, Insert(p, kind, o, traced) PROVE Advances(p)
  BY <1>1, <1>2 DEF Insert
<1>3. ASSUME NEW kind, NEW o, NEW traced, NEW status, InsertOnce(p, kind, o, traced, status)
      PROVE  Advances(p)
  BY <1>1, <1>2, <1>3 DEF InsertOnce
<1>4. ASSUME NEW ended, NEW traced, NEW status, End(p, ended, traced, status) PROVE Advances(p)
  BY <1>1, <1>4 DEF End
<1>5. CASE CreateOrganization(p)
  BY <1>1, <1>5 DEF CreateOrganization
<1>6. CASE Current(p).op = "authorize" /\ Authorize(p)
  <2>1. locks[p] = Free
    BY <1>6 DEF LocksInv, LockOK, Locking
  <2>2. CASE Goes(p, "reread")
    BY <2>1, <2>2, GoingAdvances
  <2>3. QED
    BY <1>2, <1>6, <2>2 DEF Authorize
<1>7. QED
  BY <1>2, <1>3, <1>4, <1>5, <1>6 DEF Write

\* Neither of these takes a lock.
LEMMA LastSteps ==
    ASSUME LocksInv, NEW p \in Processes, Reread(p) \/ Confirm(p)
    PROVE  Advances(p)
<1>1. \/ \E status, row : Decides(p, status, row)
      \/ Goes(p, "leave")
  BY DEF Reread, Confirm
<1>2. QED
  BY <1>1, DecidingAdvances, GoingAdvances DEF Locked

\* The lock is given back, and only that of the command.
LEMMA ReleasingLetsGo ==
    ASSUME LocksInv, NEW p \in Processes, locks' = [locks EXCEPT ![p] = Free],
           NEW next \in {"done", "resolve", "confirm"}, step' = [step EXCEPT ![p] = next],
           UNCHANGED <<todo, org>> \/ Answers(p)
    PROVE  LetsGo(p)
<1>1. /\ DOMAIN locks' = DOMAIN locks /\ locks'[p] = Free
      /\ \A q \in Processes \ {p} : locks'[q] = locks[q]
  BY DEF LocksInv
<1>2. DOMAIN todo' = DOMAIN todo /\ \A q \in Processes \ {p} : todo'[q] = todo[q]
  BY DEF Answers, LocksInv
<1>3. DOMAIN org' = DOMAIN org /\ \A q \in Processes \ {p} : org'[q] = org[q]
  BY DEF Answers, LocksInv
<1>4. next \notin {"lock", "lookup", "roles"}
  OBVIOUS
<1>5. QED
  BY <1>1, <1>2, <1>3, <1>4 DEF LetsGo

\* The finally of provisioning_lock, and the death of the process.
LEMMA LeavingLetsGo ==
    ASSUME LocksInv, NEW p \in Processes, Leave(p) \/ Dies(p)
    PROVE  LetsGo(p)
<1>1. locks' = [locks EXCEPT ![p] = Free]
  BY DEF Leave, Dies
<1>2. CASE step' = [step EXCEPT ![p] = "confirm"] /\ UNCHANGED <<todo, org>>
  BY <1>1, <1>2, ReleasingLetsGo
<1>3. CASE Answers(p)
  <2>1. \E next \in {"done", "resolve"} : step' = [step EXCEPT ![p] = next]
    BY <1>3 DEF Answers
  <2>2. QED
    BY <1>1, <1>3, <2>1, ReleasingLetsGo
<1>4. CASE step' = [step EXCEPT ![p] = "done"] /\ UNCHANGED <<todo, org>>
  BY <1>1, <1>4, ReleasingLetsGo
<1>5. QED
  BY <1>2, <1>3, <1>4 DEF Leave, Dies

\* A process that has not begun holds nothing to let go.
LEMMA StartingLetsGo ==
    ASSUME LocksInv, NEW p \in Processes, Start(p)
    PROVE  LetsGo(p)
<1>1. locks' = locks /\ locks[p] = Free
  BY DEF Start, LocksInv, LockOK, Locked
<1>2. PICK script \in Scripts[p], o \in Ids :
         todo' = [todo EXCEPT ![p] = script] /\ org' = [org EXCEPT ![p] = o]
  BY DEF Start
<1>3. /\ DOMAIN todo' = DOMAIN todo /\ \A q \in Processes \ {p} : todo'[q] = todo[q]
      /\ DOMAIN org' = DOMAIN org /\ \A q \in Processes \ {p} : org'[q] = org[q]
  BY <1>2 DEF LocksInv
<1>4. step' = [step EXCEPT ![p] = "resolve"] /\ "resolve" \notin {"lock", "lookup", "roles"}
  BY DEF Start
<1>5. QED
  BY <1>1, <1>3, <1>4 DEF LetsGo

\* A lock is taken when nobody has it.
LEMMA LockingKeepsLocks ==
    ASSUME LocksInv, NEW p \in Processes, Lock(p)
    PROVE  LocksInv'
<1>1. /\ DOMAIN step' = Processes /\ DOMAIN locks' = Processes
      /\ step'[p] = "lookup" /\ locks'[p] = Scope(p)
      /\ \A q \in Processes \ {p} : step'[q] = step[q] /\ locks'[q] = locks[q]
      /\ UNCHANGED <<todo, org>>
      /\ step[p] = "lock"
      /\ \A q \in Processes : locks[q] # Scope(p)
  BY DEF Lock, LocksInv
<1>2. ASSUME NEW q \in Processes PROVE LockOK(q)'
  <2>1. LockOK(q) /\ Scope(q)' = Scope(q) /\ Current(q)' = Current(q)
    BY <1>1 DEF LocksInv, Scope, Current
  <2>2. CASE q = p
    BY <2>1, <2>2, <1>1, ScopesAreLocks DEF LockOK, Locked, Free
  <2>3. CASE q # p
    BY <2>1, <2>3, <1>1 DEF LockOK, Free
  <2>4. QED
    BY <2>2, <2>3
<1>3. \A q, s \in Processes : q # s => locks'[q] = Free \/ locks'[q] # locks'[s]
  BY <1>1 DEF LocksInv
<1>4. QED
  BY <1>1, <1>2, <1>3 DEF LocksInv, Free

-----------------------------------------------------------------------------
(* The locks are released *)

\* Nobody holds a lock at first,
LEMMA LocksAtFirst == Init => LocksInv
<1> SUFFICES ASSUME Init PROVE LocksInv
  OBVIOUS
<1>1. /\ DOMAIN locks = Processes /\ DOMAIN step = Processes
      /\ DOMAIN todo = Processes /\ DOMAIN org = Processes
  BY DEF Init
<1>2. \A p \in Processes : locks[p] = Free /\ step[p] = "idle"
  BY DEF Init
<1>3. QED
  BY <1>1, <1>2 DEF LocksInv, LockOK

\* and every step keeps the invariant.
LEMMA LocksKept == LocksInv /\ [Next]_vars => LocksInv'
<1> SUFFICES ASSUME LocksInv, [Next]_vars PROVE LocksInv'
  OBVIOUS
<1>1. ASSUME NEW p \in Processes, Start(p) PROVE LocksInv'
  BY <1>1, StartingLetsGo, LettingGoKeepsLocks
<1>2. ASSUME NEW p \in Processes, Acts(p) PROVE LocksInv'
  <2>1. CASE Lock(p)
    BY <2>1, LockingKeepsLocks
  <2>2. CASE Leave(p)
    BY <2>2, LeavingLetsGo, LettingGoKeepsLocks
  <2>3. CASE Resolve(p) \/ Require(p) \/ Find(p)
    BY <2>3, StepsBeforeTheLock, AdvancingKeepsLocks
  <2>4. CASE Lookup(p) \/ ListOrganizations(p) \/ ReadRoles(p) \/ Check(p)
    BY <2>4, StepsUnderTheLock, AdvancingKeepsLocks
  <2>5. CASE Write(p)
    BY <2>5, WritingAdvances, AdvancingKeepsLocks
  <2>6. CASE Reread(p) \/ Confirm(p)
    BY <2>6, LastSteps, AdvancingKeepsLocks
  <2>7. QED
    BY <1>2, <2>1, <2>2, <2>3, <2>4, <2>5, <2>6 DEF Acts
<1>3. ASSUME NEW p \in Processes, Dies(p) PROVE LocksInv'
  BY <1>3, LeavingLetsGo, LettingGoKeepsLocks
<1>4. ASSUME UNCHANGED <<locks, step, todo, org>> PROVE LocksInv'
  BY <1>4 DEF LocksInv, LockOK, Scope, Current, Free
<1>5. ASSUME NEW s \in Services,
             RegisterService(s) \/ DelegateWrites(s) \/ \E j \in Ids : DelegateOpens(s, j)
      PROVE  LocksInv'
  BY <1>4, <1>5 DEF RegisterService, DelegateWrites, DelegateOpens, control
<1>6. CASE UNCHANGED vars
  BY <1>4, <1>6 DEF vars
<1>7. QED
  BY <1>1, <1>2, <1>3, <1>5, <1>6 DEF Next

\* However its request ends, by an answer, an exception, a refusal or the death of the
\* process, a command gives its lock back before it ends or takes up its next request, holds
\* it all the way between its lookup and its creation, and shares it with no other: this is
\* the finally of provisioning_lock and the session to which the lock belongs.
THEOREM LocksReleased == Spec => []LocksAreReleased
<1>1. LocksInv => LocksAreReleased
  <2> SUFFICES ASSUME LocksInv, NEW p \in Processes
               PROVE  /\ locks[p] # Free => step[p] \in Locked
                      /\ step[p] \in {"lookup", "roles"} => locks[p] = Scope(p)
                      /\ \A q \in Processes \ {p} : locks[p] = locks[q] => locks[p] = Free
    BY DEF LocksAreReleased, Locked
  <2>1. QED
    BY DEF LocksInv, LockOK
<1>2. QED
  BY <1>1, LocksAtFirst, LocksKept, PTL DEF Spec

-----------------------------------------------------------------------------
(* The invariant of the tables and of the commands *)

Steps ==
    {"idle", "resolve", "require", "find", "lock", "lookup", "roles", "check", "write", "reread",
     "leave", "confirm", "done"}
Statuses ==
    {"undecided", "invalid", "not_found", "forbidden", "conflict", "ambiguous", "internal",
     "created", "existing", "revoked", "removed"}

Verdicts == [status : Statuses, row : Nat]
Told == [request : Requests, within : Nat, status : Statuses, row : Nat]
Events == [action : Operations, row : Nat, by : Names]

TableTypes == rows \in Seq(Rows) /\ trail \in Seq(Events)

ControlTypes ==
    /\ todo \in [Processes -> Seq(Requests)]
    /\ step \in [Processes -> Steps]
    /\ org \in [Processes -> Nat]
    /\ found \in [Processes -> SUBSET Nat]
    /\ verdict \in [Processes -> Verdicts]
    /\ answers \in [Processes -> Seq(Told)]

TableInv == NamedOnce(rows) /\ Owned(rows)

OwnedBy(subject) == {i \in Ids : rows[i].kind = "organization" /\ rows[i].by = subject}

\* What the row that a request is about is within: an organization, or a store.
PlaceOf(r, o) ==
    IF r.op \in {"user", "organization"} THEN None
    ELSE IF r.op = "connection" THEN r.store ELSE o
Place(p) == PlaceOf(Current(p), org[p])

\* No row bears the name but connections out of the page.
Clear(kind, o, key) == \A i \in Named(kind, o, key) : Overlooked(rows, i)

Valid(r) ==
    /\ r.op \in {"user", "member"} => r.key \notin Services
    /\ r.op = "member" => r.attr \in ASSIGNABLE_ROLES

\* What a command relies on between two of its transactions: its request is valid, and what
\* its lookup did not find is not there.
Ready(p) ==
    LET r == Current(p)
    IN  /\ step[p] \notin {"idle", "done"} => todo[p] # <<>>
        /\ step[p] = "idle" => verdict[p].status = "undecided"
        /\ step[p] \in {"require", "lock", "lookup", "check", "write"} => Valid(r)
        /\ step[p] = "find" => r.op \notin Locking
        /\ step[p] = "roles" => r.op = "organization" /\ OwnedBy(r.as) \subseteq found[p]
        /\ step[p] = "check" => r.op \notin {"user", "organization"}
        /\ step[p] \in {"check", "write"} /\ r.op \in {"user", "store", "connection"}
              => locks[p] # Free /\ Clear(r.op, Place(p), r.key)
        /\ step[p] \in {"check", "write"} /\ r.op = "connection" => StoreOf(org[p], r.store)
        /\ step[p] = "write" /\ r.op = "organization"
              => locks[p] # Free /\ \A i \in OwnedBy(r.as) : rows[i].key # r.key
        /\ step[p] = "reread" => r.op = "authorize"
        /\ org[p] <= Len(rows)
        /\ verdict[p].row <= Len(rows)

\* What the command answers of row i is so: it is the row that was asked for.
IsKind(op, kind) ==
    \/ op = kind /\ op \in Locking
    \/ op = "member" /\ kind = "membership"
    \/ op = "authorize" /\ kind = "authorization"
    \/ op = "import" /\ kind = "job"

IsTrue(r, o, status, i) ==
    status \in {"created", "existing"} =>
        /\ i \in Ids
        /\ IsKind(r.op, rows[i].kind) /\ rows[i].key = r.key
        /\ rows[i].within = PlaceOf(r, o)
        /\ r.op = "organization" \/ status = "created" => rows[i].by = r.as
        /\ r.op \in {"member", "store"} /\ r.attr # "" => rows[i].attr = r.attr

-----------------------------------------------------------------------------
(* The four ways in which a step changes the rows *)

\* No row is lost and none changes but for its end.
Kept ==
    /\ rows' \in Seq(Rows) /\ Len(rows) <= Len(rows')
    /\ \A i \in Ids :
        /\ rows'[i].kind = rows[i].kind /\ rows'[i].within = rows[i].within
        /\ rows'[i].key = rows[i].key /\ rows'[i].attr = rows[i].attr
        /\ rows'[i].by = rows[i].by
        /\ rows'[i].live => rows[i].live

\* A row under a name that no other bears.
Adds(row) ==
    /\ rows' = Append(rows, row)
    /\ row \in Rows /\ row.live /\ row.kind # "organization" /\ row.within <= Len(rows)
    /\ row.kind = "membership" => row.attr \in ASSIGNABLE_ROLES
    /\ row.kind = "data" \/ Clear(row.kind, row.within, row.key)

\* An organization and the membership of its owner.
Founds(key, by) ==
    /\ key \in Names /\ by \in Names
    /\ rows' = rows \o <<Row("organization", None, key, "", by),
                         Row("membership", Len(rows) + 1, by, "owner", by)>>
    /\ \A i \in OwnedBy(by) : rows[i].key # key

\* The end of a row that may end.
Ends(i) ==
    /\ i \in Ids /\ rows[i].live
    /\ rows[i].kind \in {"authorization", "connection", "membership"}
    /\ rows[i].kind = "membership" => rows[i].attr # "owner"
    /\ rows' = [rows EXCEPT ![i].live = FALSE]

\* The types of the fields of a row.
LEMMA RowTypes ==
    ASSUME NEW row \in Rows
    PROVE  /\ row.kind \in Kinds /\ row.within \in Nat /\ row.key \in Names
           /\ row.attr \in Names /\ row.by \in Names /\ row.live \in BOOLEAN
BY DEF Rows

\* What came before a connection in its store is not forgotten.
LEMMA OverlookedKept ==
    ASSUME rows \in Seq(Rows), Kept, NEW i \in Ids
    PROVE  Overlooked(rows', i) <=> Overlooked(rows, i)
<1>1. \A k \in 1 .. i - 1 : k \in Ids
  BY DEF Ids
<1>2. {k \in 1 .. i - 1 : rows'[k].kind = "connection" /\ rows'[k].within = rows'[i].within}
        = {k \in 1 .. i - 1 : rows[k].kind = "connection" /\ rows[k].within = rows[i].within}
  BY <1>1 DEF Kept
<1>3. rows'[i].kind = rows[i].kind
  BY DEF Kept
<1>4. QED
  BY <1>2, <1>3 DEF Overlooked

\* Whatever comes in a store after a connection past the page is past it too.
LEMMA OverlookedAfter ==
    ASSUME rows \in Seq(Rows), NEW i \in Ids, NEW j \in Ids, i < j, Overlooked(rows, i),
           rows[j].kind = rows[i].kind, rows[j].within = rows[i].within
    PROVE  Overlooked(rows, j)
<1> DEFINE Earlier(n) == {k \in 1 .. n - 1 : /\ rows[k].kind = "connection"
                                            /\ rows[k].within = rows[i].within}
<1>1. i \in Nat /\ j \in Nat
  BY DEF Ids
<1>2. Earlier(i) \subseteq Earlier(j)
  BY <1>1
<1>3. IsFiniteSet(1 .. j - 1)
  BY <1>1, FS_Interval
<1>4. IsFiniteSet(Earlier(j))
  BY <1>3, FS_Subset
<1>5. Cardinality(Earlier(i)) <= Cardinality(Earlier(j))
  BY <1>2, <1>4, FS_Subset
<1>6. Cardinality(Earlier(i)) \in Nat /\ Cardinality(Earlier(j)) \in Nat
  BY <1>2, <1>4, FS_Subset, FS_CardinalityType
<1>7. Cardinality(Earlier(i)) >= PAGE_LIMIT /\ rows[i].kind = "connection"
  BY DEF Overlooked
<1>8. Cardinality(Earlier(j)) >= PAGE_LIMIT
  <2> HIDE DEF Earlier
  <2>1. PAGE_LIMIT \in Nat
    BY AdministrationAssumption
  <2>2. QED
    BY <1>5, <1>6, <1>7, <2>1
<1>9. Earlier(j) = {k \in 1 .. j - 1 : /\ rows[k].kind = "connection"
                                      /\ rows[k].within = rows[j].within}
  <2>1. \A k : rows[k].within = rows[i].within <=> rows[k].within = rows[j].within
    OBVIOUS
  <2>2. QED
    BY <2>1, Zenon
<1> HIDE DEF Earlier
<1>10. rows[j].kind = "connection"
  BY <1>7
<1>11. QED
  BY <1>8, <1>9, <1>10 DEF Overlooked

\* Only connections are looked for on a page.
LEMMA ClearIsFree ==
    ASSUME NEW kind, NEW o, NEW key, kind # "connection"
    PROVE  Clear(kind, o, key) <=> Named(kind, o, key) = {}
BY DEF Clear, Overlooked, Named

\* A new row under a name that no live row bears leaves the tables sound,
LEMMA AddingKeeps ==
    ASSUME rows \in Seq(Rows), TableInv, NEW row, Adds(row)
    PROVE  /\ Kept /\ TableInv'
           /\ Len(rows') = Len(rows) + 1 /\ rows'[Len(rows) + 1] = row
           /\ \A i \in Ids : rows'[i] = rows[i]
<1> DEFINE n == Len(rows) + 1
<1>1. /\ Len(rows) \in Nat /\ Len(rows') = n /\ rows'[n] = row /\ row \in Rows
      /\ \A i \in Ids : rows'[i] = rows[i]
      /\ rows' \in Seq(Rows)
      /\ DOMAIN rows' = Ids \cup {n} /\ DOMAIN rows = Ids
      /\ n \notin Ids
  BY DEF Adds, Ids
<1>2. Kept
  BY <1>1 DEF Kept
<1>3. row.kind # "organization" /\ row.within <= Len(rows) /\ row.within \in Nat
  BY <1>1, RowTypes DEF Adds
<1>4. NamedOnce(rows')
  <2> DEFINE Same(table, i, j) ==
               /\ table[i].live /\ table[j].live
               /\ table[i].kind = table[j].kind /\ table[i].kind # "data"
               /\ table[i].within = table[j].within /\ table[i].key = table[j].key
               /\ table[i].kind = "organization" => table[i].by = table[j].by
  <2>1. \A i \in Ids : rows[i].live /\ rows[i].kind = row.kind /\ row.kind # "data"
                          /\ rows[i].within = row.within /\ rows[i].key = row.key
                       => Overlooked(rows, i)
    BY DEF Adds, Clear, Named
  <2>2. \A i \in Ids : Overlooked(rows', i) <=> Overlooked(rows, i)
    BY <1>2, OverlookedKept
  <2>3. \A i, j \in Ids : Same(rows', i, j) => i >= j \/ Overlooked(rows', i)
    BY <1>1, <2>2 DEF TableInv, NamedOnce
  <2>4. \A i \in Ids : Same(rows', i, n) => Overlooked(rows', i)
    BY <1>1, <2>1, <2>2
  <2>5. \A i \in DOMAIN rows' : n >= i
    BY <1>1 DEF Ids
  <2> HIDE DEF Same, n
  <2>6. \A i, j \in DOMAIN rows' : Same(rows', i, j) => i >= j \/ Overlooked(rows', i)
    BY <1>1, <2>3, <2>4, <2>5
  <2>7. QED
    BY <2>6, Zenon DEF NamedOnce, Same
<1>5. Owned(rows')
  <2> DEFINE Owner(table, i, m) ==
               /\ table[m].kind = "membership" /\ table[m].attr = "owner"
               /\ table[m].within = i /\ table[m].key = table[i].by
  <2>1. ASSUME NEW i \in Ids
        PROVE  /\ rows[i].within \in Nat
               /\ rows[i].within <= Len(rows)
               /\ rows[i].kind = "organization" => 
                    /\ rows[i].live /\ rows[i].within = None
                    /\ \E m \in Ids : Owner(rows, i, m)
               /\ rows[i].kind = "membership" => rows[i].attr \in Roles
               /\ rows[i].kind = "membership" /\ rows[i].attr = "owner" =>
                    /\ rows[i].live /\ rows[i].within # None
                    /\ rows[rows[i].within].kind = "organization"
                    /\ rows[rows[i].within].by = rows[i].key
    <3>1. rows[i].within \in Nat
      <4>1. rows[i] \in Rows
        BY <1>1
      <4>2. QED
        BY <4>1, RowTypes
    <3>2. Owned(rows) /\ DOMAIN rows = Ids
      BY <1>1 DEF TableInv
    <3>3. QED
      BY <3>1, <3>2 DEF Owned
  <2>2. \A i \in Ids : rows[i].within # None => rows[i].within \in Ids
    BY <1>1, <2>1 DEF None, Ids
  <2>3. row.kind = "membership" => row.attr \in Roles /\ row.attr # "owner"
    BY DEF Adds, ASSIGNABLE_ROLES, Roles
  <2>4. \A i \in Ids : \A m \in Ids : Owner(rows, i, m) => Owner(rows', i, m)
    BY <1>1
  <2>5. \A i \in Ids : rows[i].kind = "organization" => \E m \in Ids : Owner(rows', i, m)
    BY <2>1, <2>4
  <2>6. \A i \in Ids : rows[i].kind = "membership" /\ rows[i].attr = "owner" =>
            rows'[rows[i].within] = rows[rows[i].within]
    BY <1>1, <2>1, <2>2
  <2> HIDE DEF Owner
  <2>7. ASSUME NEW i \in DOMAIN rows'
        PROVE  /\ rows'[i].within <= Len(rows')
               /\ rows'[i].kind = "organization" => 
                    /\ rows'[i].live /\ rows'[i].within = None
                    /\ \E m \in DOMAIN rows' : Owner(rows', i, m)
               /\ rows'[i].kind = "membership" => rows'[i].attr \in Roles
               /\ rows'[i].kind = "membership" /\ rows'[i].attr = "owner" =>
                    /\ rows'[i].live /\ rows'[i].within # None
                    /\ rows'[rows'[i].within].kind = "organization"
                    /\ rows'[rows'[i].within].by = rows'[i].key
    <3>1. CASE i = n
      BY <1>1, <1>3, <2>3, <3>1
    <3>2. CASE i # n
      <4>1. i \in Ids /\ rows'[i] = rows[i]
        BY <1>1, <3>2
      <4>2. rows[i].within <= Len(rows')
        BY <1>1, <2>1, <4>1
      <4>3. QED
        BY <1>1, <2>1, <2>5, <2>6, <4>1, <4>2
    <3>3. QED
      BY <3>1, <3>2
  <2>8. QED
    BY <2>7 DEF Owned, Owner
<1>6. QED
  BY <1>1, <1>2, <1>4, <1>5 DEF TableInv

\* so does the end of a row,
LEMMA EndingKeeps ==
    ASSUME rows \in Seq(Rows), TableInv, NEW i, Ends(i)
    PROVE  /\ Kept /\ TableInv' /\ Len(rows') = Len(rows)
           /\ ~rows'[i].live
           /\ \A j \in Ids \ {i} : rows'[j] = rows[j]
<1>1. /\ rows' = [rows EXCEPT ![i].live = FALSE] /\ i \in 1 .. Len(rows)
      /\ Ids = 1 .. Len(rows) /\ DOMAIN rows = Ids
  BY DEF Ends, Ids
<1>2. PICK row \in Rows : row = rows[i]
  BY <1>1
<1>3. PICK ended : ended = [row EXCEPT !.live = FALSE]
  OBVIOUS
<1>11. /\ ended \in Rows
      /\ ended.kind = row.kind /\ ended.within = row.within /\ ended.key = row.key
      /\ ended.attr = row.attr /\ ended.by = row.by /\ ended.live = FALSE
  BY <1>3 DEF Rows
<1>12. rows' = [rows EXCEPT ![i] = ended]
  BY <1>1, <1>2, <1>3
<1>13. /\ rows' \in Seq(Rows) /\ Len(rows') = Len(rows) /\ DOMAIN rows' = Ids
      /\ rows'[i] = ended /\ \A j \in Ids \ {i} : rows'[j] = rows[j]
  <2>1. /\ [rows EXCEPT ![i] = ended] \in Seq(Rows)
        /\ Len([rows EXCEPT ![i] = ended]) = Len(rows)
        /\ \A j \in 1 .. Len(rows) :
              [rows EXCEPT ![i] = ended][j] = IF j = i THEN ended ELSE rows[j]
    BY <1>1, <1>11, ExceptSeq
  <2>2. DOMAIN rows' = DOMAIN rows
    BY <1>12
  <2>3. QED
    BY <1>1, <1>12, <2>1, <2>2
<1>4. \A j \in Ids :
        /\ rows'[j].kind = rows[j].kind /\ rows'[j].within = rows[j].within
        /\ rows'[j].key = rows[j].key /\ rows'[j].attr = rows[j].attr
        /\ rows'[j].by = rows[j].by
        /\ rows'[j].live => rows[j].live
        /\ j # i => rows'[j].live = rows[j].live
  BY <1>2, <1>11, <1>13
<1>5. Kept
  BY <1>13, <1>4 DEF Kept
<1>6. NamedOnce(rows')
  <2>1. \A j \in Ids : Overlooked(rows', j) <=> Overlooked(rows, j)
    BY <1>5, OverlookedKept
  <2> DEFINE Same(table, j, k) ==
               /\ table[j].live /\ table[k].live
               /\ table[j].kind = table[k].kind /\ table[j].kind # "data"
               /\ table[j].within = table[k].within /\ table[j].key = table[k].key
               /\ table[j].kind = "organization" => table[j].by = table[k].by
  <2>2. \A j, k \in Ids : Same(rows', j, k) => Same(rows, j, k)
    BY <1>4
  <2>3. \A j, k \in Ids : Same(rows, j, k) => j >= k \/ Overlooked(rows, j)
    BY <1>1, Zenon DEF TableInv, NamedOnce
  <2> HIDE DEF Same
  <2>4. \A j, k \in DOMAIN rows' : Same(rows', j, k) => j >= k \/ Overlooked(rows', j)
    BY <1>13, <2>1, <2>2, <2>3
  <2>5. QED
    BY <2>4, Zenon DEF NamedOnce, Same
<1>7. Owned(rows')
  <2>1. rows[i].kind # "organization"
         /\ ~(rows[i].kind = "membership" /\ rows[i].attr = "owner")
    BY DEF Ends
  <2>2. \A j \in Ids : rows[j].kind = "membership" /\ rows[j].attr = "owner" =>
                          rows[j].within \in Ids
    <3>1. Len(rows) \in Nat
      OBVIOUS
    <3>2. \A j \in Ids : rows[j].within \in Nat
      BY RowTypes DEF Ids
    <3>3. QED
      BY <1>1, <3>1, <3>2 DEF TableInv, Owned, None, Ids
  <2>3. QED
    BY <1>1, <1>13, <1>4, <2>1, <2>2 DEF TableInv, Owned
<1>8. QED
  BY <1>11, <1>13, <1>5, <1>6, <1>7 DEF TableInv

\* and so do an organization and the membership of its owner.
LEMMA FoundingKeeps ==
    ASSUME rows \in Seq(Rows), TableInv, NEW key, NEW by, Founds(key, by)
    PROVE  /\ Kept /\ TableInv' /\ Len(rows') = Len(rows) + 2
           /\ rows'[Len(rows) + 1].kind = "organization" /\ rows'[Len(rows) + 1].within = None
           /\ rows'[Len(rows) + 1].key = key /\ rows'[Len(rows) + 1].by = by
           /\ rows'[Len(rows) + 2].kind = "membership" /\ rows'[Len(rows) + 2].attr = "owner"
           /\ \A i \in Ids : rows'[i] = rows[i]
<1> DEFINE n == Len(rows) + 1
           o == Row("organization", None, key, "", by)
           m == Row("membership", n, by, "owner", by)
<1>1. /\ o.kind = "organization" /\ o.within = None /\ o.key = key /\ o.by = by /\ o.live
      /\ m.kind = "membership" /\ m.within = n /\ m.key = by /\ m.attr = "owner" /\ m.live
  BY DEF Row
<1>2. Len(rows) \in Nat /\ o \in Rows /\ m \in Rows
  <2>1. Len(rows) \in Nat /\ n \in Nat /\ None \in Nat
    BY DEF None
  <2>2. key \in Names /\ by \in Names /\ "" \in Names /\ "owner" \in Names
    BY AdministrationAssumption DEF Founds, Roles
  <2>3. {"organization", "membership"} \subseteq Kinds
    BY DEF Kinds
  <2> HIDE DEF n
  <2>4. QED
    BY <2>1, <2>2, <2>3 DEF Row, Rows
<1>3. rows' = rows \o <<o, m>>
  BY DEF Founds
<1> HIDE DEF o, m
<1>4. /\ Len(rows') = n + 1 /\ rows'[n] = o /\ rows'[n + 1] = m
      /\ \A i \in Ids : rows'[i] = rows[i]
      /\ rows' \in Seq(Rows)
      /\ DOMAIN rows' = Ids \cup {n, n + 1} /\ DOMAIN rows = Ids
      /\ n \notin Ids /\ n + 1 \notin Ids /\ n # n + 1 /\ n \in Nat
  BY <1>2, <1>3 DEF Ids
<1>5. Kept
  BY <1>4 DEF Kept
<1>6. \A i \in Ids : rows[i].within \in Nat /\ rows[i].within <= Len(rows) /\ rows[i].within # n
  <2>1. \A i \in Ids : rows[i].within \in Nat
    BY RowTypes DEF Ids
  <2>2. QED
    BY <1>2, <1>4, <2>1 DEF TableInv, Owned
<1>7. NamedOnce(rows')
  <2>1. \A i \in Ids : ~(rows[i].kind = "organization" /\ rows[i].by = by /\ rows[i].key = key)
    BY DEF Founds, OwnedBy
  <2> DEFINE Same(table, i, j) ==
               /\ table[i].live /\ table[j].live
               /\ table[i].kind = table[j].kind /\ table[i].kind # "data"
               /\ table[i].within = table[j].within /\ table[i].key = table[j].key
               /\ table[i].kind = "organization" => table[i].by = table[j].by
  <2>7. \A i \in Ids : Overlooked(rows', i) <=> Overlooked(rows, i)
    BY <1>5, OverlookedKept
  <2>2. \A i, j \in Ids : Same(rows', i, j) => i >= j \/ Overlooked(rows', i)
    BY <1>4, <2>7 DEF TableInv, NamedOnce
  <2>3. \A i \in Ids : ~Same(rows', i, n) /\ ~Same(rows', n, i)
    BY <1>1, <1>4, <2>1
  <2>4. \A i \in Ids : ~Same(rows', i, n + 1) /\ ~Same(rows', n + 1, i)
    BY <1>1, <1>4, <1>6
  <2>5. ~Same(rows', n, n + 1) /\ ~Same(rows', n + 1, n)
    BY <1>1, <1>4
  <2>8. n >= n /\ n + 1 >= n + 1
    BY <1>4
  <2> HIDE DEF Same, n
  <2>6. \A i, j \in DOMAIN rows' : Same(rows', i, j) => i >= j \/ Overlooked(rows', i)
    BY <1>4, <2>2, <2>3, <2>4, <2>5, <2>8
  <2>9. QED
    BY <2>6, Zenon DEF NamedOnce, Same
<1>8. Owned(rows')
  <2> DEFINE Owner(table, i, j) ==
               /\ table[j].kind = "membership" /\ table[j].attr = "owner"
               /\ table[j].within = i /\ table[j].key = table[i].by
             Good(table, i) ==
               /\ table[i].within <= Len(table)
               /\ table[i].kind = "organization" => 
                    /\ table[i].live /\ table[i].within = None
                    /\ \E j \in DOMAIN table : Owner(table, i, j)
               /\ table[i].kind = "membership" => table[i].attr \in Roles
               /\ table[i].kind = "membership" /\ table[i].attr = "owner" =>
                    /\ table[i].live /\ table[i].within # None
                    /\ table[table[i].within].kind = "organization"
                    /\ table[table[i].within].by = table[i].key
  <2>1. ASSUME NEW i \in Ids PROVE Good(rows', i)
    <3>1. Good(rows, i) /\ rows'[i] = rows[i]
      BY <1>4 DEF TableInv, Owned
    <3>2. \A j \in Ids : Owner(rows, i, j) => Owner(rows', i, j)
      BY <1>4
    <3>3. rows[i].within <= Len(rows')
      BY <1>2, <1>4, <1>6
    <3>4. rows[i].within # None => rows[i].within \in Ids
      BY <1>2, <1>6 DEF None, Ids
    <3>5. QED
      BY <1>4, <3>1, <3>2, <3>3, <3>4
  <2>2. Good(rows', n)
    <3>1. Owner(rows', n, n + 1)
      BY <1>1, <1>4
    <3>2. rows'[n].within <= Len(rows')
      BY <1>1, <1>4 DEF None
    <3>3. QED
      BY <1>1, <1>4, <3>1, <3>2
  <2>3. Good(rows', n + 1)
    <3>1. n # None /\ n <= Len(rows')
      BY <1>2, <1>4 DEF None
    <3>2. QED
      BY <1>1, <1>4, <3>1 DEF Roles
  <2> HIDE DEF Good
  <2>4. \A i \in DOMAIN rows' : Good(rows', i)
    BY <1>4, <2>1, <2>2, <2>3
  <2>5. QED
    BY <2>4 DEF Good, Owned
<1>9. Len(rows') = Len(rows) + 2 /\ n + 1 = Len(rows) + 2
  BY <1>2, <1>4
<1>10. QED
  BY <1>1, <1>4, <1>5, <1>7, <1>8, <1>9 DEF TableInv

-----------------------------------------------------------------------------
(* What a step of a command changes of the commands *)

\* Only its own part.
Own(p) ==
    /\ \A q \in Processes \ {p} :
        /\ locks'[q] = locks[q] /\ step'[q] = step[q] /\ todo'[q] = todo[q]
        /\ org'[q] = org[q] /\ found'[q] = found[q]
        /\ verdict'[q] = verdict[q] /\ answers'[q] = answers[q]
    /\ UNCHANGED work

\* To go on touches no other command,
LEMMA GoingIsOwn ==
    ASSUME LocksInv, ControlTypes, NEW p \in Processes, NEW next \in Steps, Goes(p, next),
           NEW F \in SUBSET Nat, found' = found \/ found' = [found EXCEPT ![p] = F]
    PROVE  Own(p) /\ ControlTypes'
BY DEF Goes, ControlTypes, Own

\* nor does a decision.
LEMMA DecidingIsOwn ==
    ASSUME LocksInv, ControlTypes, NEW p \in Processes, NEW status \in Statuses,
           NEW row \in Nat, Decides(p, status, row),
           NEW F \in SUBSET Nat, found' = found \/ found' = [found EXCEPT ![p] = F]
    PROVE  Own(p) /\ ControlTypes'
<1>1. [status |-> status, row |-> row] \in Verdicts
  BY DEF Verdicts
<1>2. "leave" \in Steps
  BY DEF Steps
<1>3. QED
  BY <1>1, <1>2 DEF Decides, ControlTypes, Own

\* A command in the middle of a request has one.
LEMMA CurrentType ==
    ASSUME ControlTypes, NEW p \in Processes, todo[p] # <<>>
    PROVE  /\ Current(p) \in Requests /\ Current(p).op \in Operations
           /\ Current(p).as \in Names /\ Current(p).key \in Names /\ Current(p).attr \in Names
           /\ Current(p).store \in Nat
<1>1. Current(p) \in Requests
  BY DEF ControlTypes, Current
<1>2. QED
  BY <1>1 DEF Requests

\* The answer that Settle chooses is one of the matches.
LEMMA SettlingDecides ==
    ASSUME NEW p \in Processes, NEW matches \in SUBSET Nat, Settle(p, matches)
    PROVE  \/ /\ matches = {}
              /\ Goes(p, IF Current(p).op \in {"user", "organization"} THEN "write" ELSE "check")
           \/ \E status \in {"ambiguous", "conflict"} : Decides(p, status, None)
           \/ \E i \in matches :
                /\ Decides(p, "existing", i)
                /\ Current(p).op # "user" /\ Current(p).attr # ""
                      => rows[i].attr = Current(p).attr
<1>1. CASE matches = {}
  BY <1>1 DEF Settle
<1>2. CASE matches # {}
  <2> DEFINE i == CHOOSE i \in matches : TRUE
  <2>1. i \in matches
    BY <1>2
  <2>2. \/ \E status \in {"ambiguous", "conflict"} : Decides(p, status, None)
        \/ /\ Decides(p, "existing", i)
           /\ ~ \E j \in matches : Current(p).attr # "" /\ Current(p).op # "user"
                                     /\ rows[j].attr # Current(p).attr
    BY <1>2 DEF Settle
  <2> HIDE DEF i
  <2>3. QED
    BY <2>1, <2>2
<1>3. QED
  BY <1>1, <1>2

\* The rows that bear a name are rows.
LEMMA NamedIds ==
    ASSUME NEW kind, NEW o, NEW key
    PROVE  Named(kind, o, key) \in SUBSET Nat /\ Named(kind, o, key) \subseteq Ids
BY DEF Named, Ids

\* A step that writes no table and creates nothing: the command goes on, waits, is refused,
\* is told of a row that is there, or dies.
Quiet(p) ==
    /\ Own(p) /\ ControlTypes' /\ UNCHANGED tables /\ Ready(p)'
    /\ todo'[p] = todo[p] /\ org'[p] = org[p] /\ answers'[p] = answers[p]
    /\ \/ verdict'[p] = verdict[p]
       \/ /\ verdict'[p].status # "created"
          /\ IsTrue(Current(p), org[p], verdict'[p].status, verdict'[p].row)

\* A refusal, or an answer about a row that is there.
LEMMA RefusingIsQuiet ==
    ASSUME LocksInv, ControlTypes, NEW p \in Processes, Ready(p), todo[p] # <<>>,
           UNCHANGED tables,
           NEW F \in SUBSET Nat, found' = found \/ found' = [found EXCEPT ![p] = F],
           NEW status \in Statuses \ {"created"}, NEW row \in Nat, Decides(p, status, row),
           row <= Len(rows), IsTrue(Current(p), org[p], status, row)
    PROVE  Quiet(p)
<1>1. Own(p) /\ ControlTypes'
  BY DecidingIsOwn
<1>2. /\ verdict'[p] = [status |-> status, row |-> row] /\ step'[p] = "leave"
      /\ UNCHANGED <<rows, todo, org, answers>>
  BY DEF Decides, ControlTypes, tables
<1>3. Ready(p)'
  BY <1>2 DEF Ready, Current
<1>4. QED
  BY <1>1, <1>2, <1>3 DEF Quiet

\* A refusal names no row, and is true.
LEMMA RefusedIsQuiet ==
    ASSUME LocksInv, ControlTypes, rows \in Seq(Rows), NEW p \in Processes, Ready(p),
           todo[p] # <<>>, UNCHANGED tables,
           NEW F \in SUBSET Nat, found' = found \/ found' = [found EXCEPT ![p] = F],
           NEW status \in Statuses \ {"created", "existing"}, Decides(p, status, None)
    PROVE  Quiet(p)
<1>1. None \in Nat /\ None <= Len(rows)
  BY DEF None
<1>2. IsTrue(Current(p), org[p], status, None)
  BY DEF IsTrue
<1>3. status \in Statuses \ {"created"}
  OBVIOUS
<1>4. QED
  BY <1>1, <1>2, <1>3, RefusingIsQuiet

\* A command that goes on keeps what its next step relies on.
LEMMA PassingIsQuiet ==
    ASSUME LocksInv, ControlTypes, NEW p \in Processes, Ready(p), todo[p] # <<>>,
           UNCHANGED tables,
           NEW F \in SUBSET Nat, found' = found \/ found' = [found EXCEPT ![p] = F],
           NEW next \in Steps \ {"idle"}, Goes(p, next),
           next \in {"require", "lock", "lookup", "check", "write"} => Valid(Current(p)),
           next = "find" => Current(p).op \notin Locking,
           next = "roles" => Current(p).op = "organization"
                                /\ OwnedBy(Current(p).as) \subseteq found'[p],
           next = "check" => Current(p).op \notin {"user", "organization"},
           next \in {"check", "write"} /\ Current(p).op \in {"user", "store", "connection"}
              => locks[p] # Free /\ Clear(Current(p).op, Place(p), Current(p).key),
           next \in {"check", "write"} /\ Current(p).op = "connection"
              => StoreOf(org[p], Current(p).store),
           next = "write" /\ Current(p).op = "organization"
              => locks[p] # Free /\ \A i \in OwnedBy(Current(p).as) : rows[i].key # Current(p).key,
           next = "reread" => Current(p).op = "authorize"
    PROVE  Quiet(p)
<1>1. Own(p) /\ ControlTypes'
  <2>1. next \in Steps
    OBVIOUS
  <2>2. QED
    BY <2>1, GoingIsOwn
<1>2. step'[p] = next /\ UNCHANGED <<rows, todo, org, verdict, answers, locks>>
  BY DEF Goes, ControlTypes, tables
<1>3. /\ Current(p)' = Current(p) /\ Place(p)' = Place(p)
      /\ OwnedBy(Current(p).as)' = OwnedBy(Current(p).as)
      /\ Clear(Current(p).op, Place(p), Current(p).key)' <=> Clear(Current(p).op, Place(p), Current(p).key)
      /\ StoreOf(org[p], Current(p).store)' <=> StoreOf(org[p], Current(p).store)
  BY <1>2 DEF Current, Place, PlaceOf, OwnedBy, Clear, StoreOf, Named, Ids
<1>4. Ready(p)'
  BY <1>2, <1>3 DEF Ready, Free
<1>5. QED
  BY <1>1, <1>2, <1>4 DEF Quiet

\* What the proofs about one command assume.
Before(p) ==
    /\ LocksInv /\ ControlTypes /\ TableTypes /\ TableInv /\ Ready(p)

\* A transaction opens or is refused in one of two ways.
LEMMA OpeningType ==
    ASSUME NEW subject, NEW o, NEW role
    PROVE  Opening(subject, o, role) \in {"granted", "not_found", "forbidden"}
BY DEF Opening

\* A row that bears a name in the tables.
LEMMA NamedRow ==
    ASSUME NEW kind, NEW o, NEW key, NEW i \in Named(kind, o, key)
    PROVE  /\ i \in Ids /\ i \in Nat /\ i <= Len(rows)
           /\ rows[i].kind = kind /\ rows[i].within = o /\ rows[i].key = key /\ rows[i].live
BY DEF Named, Ids

\* The inputs are judged, and the actor; no table is touched.
LEMMA ResolveIsQuiet ==
    ASSUME NEW p \in Processes, Before(p), Resolve(p)
    PROVE  Quiet(p)
<1> DEFINE r == Current(p)
<1>1. step[p] = "resolve" /\ UNCHANGED tables /\ found' = found
  BY DEF Resolve
<1>2. LocksInv /\ ControlTypes /\ rows \in Seq(Rows) /\ Ready(p) /\ todo[p] # <<>>
  BY <1>1 DEF Before, Ready, TableTypes
<1>3. r.op \in Operations
  BY <1>2, CurrentType
<1>4. ASSUME NEW status \in {"invalid", "not_found", "forbidden"}, Decides(p, status, None)
      PROVE  Quiet(p)
  BY <1>1, <1>2, <1>4, RefusedIsQuiet DEF Statuses
<1>5. ASSUME Valid(r), Goes(p, "lock") PROVE Quiet(p)
  BY <1>1, <1>2, <1>5, PassingIsQuiet DEF Steps
<1>6. ASSUME Valid(r), Goes(p, "require") PROVE Quiet(p)
  BY <1>1, <1>2, <1>6, PassingIsQuiet DEF Steps
<1>7. ASSUME Valid(r), r.op \notin Locking, Goes(p, "check") PROVE Quiet(p)
  <2>1. r.op \notin {"user", "organization", "store", "connection"}
    BY <1>7 DEF Locking
  <2>2. QED
    BY <1>1, <1>2, <1>7, <2>1, PassingIsQuiet DEF Steps
<1>8. \/ \E status \in {"invalid", "not_found", "forbidden"} : Decides(p, status, None)
      \/ Valid(r) /\ Goes(p, "lock")
      \/ Valid(r) /\ Goes(p, "require")
      \/ Valid(r) /\ r.op \notin Locking /\ Goes(p, "check")
  BY DEF Resolve, Valid, Locking
<1>9. QED
  BY <1>4, <1>5, <1>6, <1>7, <1>8

\* The role is required; no table is touched.
LEMMA RequireIsQuiet ==
    ASSUME NEW p \in Processes, Before(p), Require(p)
    PROVE  Quiet(p)
<1> DEFINE r == Current(p)
<1>1. step[p] = "require" /\ UNCHANGED tables /\ found' = found
  BY DEF Require, Opens
<1>2. /\ LocksInv /\ ControlTypes /\ rows \in Seq(Rows) /\ Ready(p) /\ todo[p] # <<>>
      /\ Valid(r)
  BY <1>1 DEF Before, Ready, TableTypes
<1>3. ASSUME NEW status \in {"not_found", "forbidden"}, Decides(p, status, None)
      PROVE  Quiet(p)
  BY <1>1, <1>2, <1>3, RefusedIsQuiet DEF Statuses
<1>4. ASSUME Goes(p, "lock") PROVE Quiet(p)
  BY <1>1, <1>2, <1>4, PassingIsQuiet DEF Steps
<1>5. ASSUME r.op \notin Locking, Goes(p, "find") PROVE Quiet(p)
  BY <1>1, <1>2, <1>5, PassingIsQuiet DEF Steps
<1>6. \/ \E status \in {"not_found", "forbidden"} : Decides(p, status, None)
      \/ Goes(p, "lock")
      \/ r.op \notin Locking /\ Goes(p, "find")
  <2>1. Opening(r.as, org[p], MinimumRole[r.op]) \in {"granted", "not_found", "forbidden"}
    BY OpeningType
  <2>2. QED
    BY <2>1 DEF Require, Opens
<1>7. QED
  BY <1>3, <1>4, <1>5, <1>6

\* The service or the connection is looked up; no table is touched.
LEMMA FindIsQuiet ==
    ASSUME NEW p \in Processes, Before(p), Find(p)
    PROVE  Quiet(p)
<1> DEFINE r == Current(p)
<1>1. step[p] = "find" /\ UNCHANGED tables /\ found' = found
  BY DEF Find
<1>2. /\ LocksInv /\ ControlTypes /\ rows \in Seq(Rows) /\ Ready(p) /\ todo[p] # <<>>
      /\ r.op \notin Locking
  BY <1>1 DEF Before, Ready, TableTypes
<1>3. ASSUME NEW status \in {"not_found", "conflict"}, Decides(p, status, None)
      PROVE  Quiet(p)
  BY <1>1, <1>2, <1>3, RefusedIsQuiet DEF Statuses
<1>4. ASSUME Goes(p, "check") PROVE Quiet(p)
  <2>1. /\ r.op \notin {"user", "organization", "store", "connection"}
        /\ Valid(r)
    BY <1>2 DEF Locking, Valid
  <2>2. QED
    BY <1>1, <1>2, <1>4, <2>1, PassingIsQuiet DEF Steps
<1>5. \/ \E status \in {"not_found", "conflict"} : Decides(p, status, None)
      \/ Goes(p, "check")
  BY DEF Find
<1>6. QED
  BY <1>3, <1>4, <1>5

\* A connection of a label that the page of its store does not have is out of the page.
LEMMA PageIsSearched ==
    ASSUME rows \in Seq(Rows), NEW s, NEW key
    PROVE  LET matches == {i \in Connections(s) : rows[i].key = key}
           IN  /\ matches \subseteq Named("connection", s, key)
               /\ matches = {} => Clear("connection", s, key)
<1> DEFINE active == {i \in Ids : rows[i].kind = "connection" /\ rows[i].within = s /\ rows[i].live}
           matches == {i \in Connections(s) : rows[i].key = key}
<1>1. Connections(s) = {i \in active : Cardinality({k \in active : k < i}) < PAGE_LIMIT}
  BY DEF Connections
<1>2. Named("connection", s, key) = {i \in active : rows[i].key = key}
  BY DEF Named
<1>3. ASSUME NEW i \in active, i \notin Connections(s) PROVE Overlooked(rows, i)
  <2> DEFINE earlier == {k \in active : k < i}
             before == {k \in 1 .. i - 1 : rows[k].kind = "connection" /\ rows[k].within = s}
  <2>1. i \in Nat /\ earlier \subseteq before /\ before \subseteq 1 .. i - 1
    BY DEF Ids
  <2>2. IsFiniteSet(1 .. i - 1)
    BY <2>1, FS_Interval
  <2>3. IsFiniteSet(before)
    BY <2>1, <2>2, FS_Subset
  <2>4. IsFiniteSet(earlier) /\ Cardinality(earlier) <= Cardinality(before)
    BY <2>1, <2>3, FS_Subset
  <2>5. Cardinality(earlier) \in Nat /\ Cardinality(before) \in Nat
    BY <2>3, <2>4, FS_CardinalityType
  <2>6. ~(Cardinality(earlier) < PAGE_LIMIT)
    BY <1>1, <1>3
  <2>7. PAGE_LIMIT \in Nat
    BY AdministrationAssumption
  <2>8. rows[i].kind = "connection" /\ rows[i].within = s
    OBVIOUS
  <2>9. Cardinality(before) >= PAGE_LIMIT
    <3> HIDE DEF earlier, before
    <3>1. QED
      BY <2>4, <2>5, <2>6, <2>7
  <2>10. QED
    BY <2>8, <2>9 DEF Overlooked
<1>4. matches \subseteq Named("connection", s, key)
  BY <1>1, <1>2
<1>5. ASSUME matches = {}, NEW i \in Named("connection", s, key) PROVE Overlooked(rows, i)
  <2>1. i \in active /\ i \notin Connections(s)
    BY <1>2, <1>5
  <2>2. QED
    BY <1>3, <2>1
<1>6. QED
  BY <1>4, <1>5 DEF Clear

\* What the lookup does not find under the lock is not there.
LEMMA LookupIsQuiet ==
    ASSUME NEW p \in Processes, Before(p), Lookup(p)
    PROVE  Quiet(p)
<1> DEFINE r == Current(p)
<1>1. step[p] = "lookup" /\ r.op # "organization" /\ UNCHANGED tables /\ found' = found
  BY DEF Lookup
<1>2. /\ LocksInv /\ ControlTypes /\ rows \in Seq(Rows) /\ Ready(p) /\ todo[p] # <<>>
      /\ Valid(r) /\ locks[p] # Free /\ r.op \in Locking
  BY <1>1 DEF Before, Ready, TableTypes, LocksInv, LockOK
<1>3. ASSUME NEW status \in {"not_found", "forbidden", "ambiguous", "conflict"},
             Decides(p, status, None)
      PROVE  Quiet(p)
  BY <1>1, <1>2, <1>3, RefusedIsQuiet DEF Statuses
<1>4. ASSUME NEW kind, NEW matches, matches \subseteq Named(kind, Place(p), r.key),
             matches = {} => Clear(kind, Place(p), r.key), Settle(p, matches),
             r.op = "connection" => StoreOf(org[p], r.store),
             IsKind(r.op, kind), r.op # "member" => kind = r.op
      PROVE  Quiet(p)
  <2>1. matches \in SUBSET Nat
    BY <1>4, NamedIds
  <2>2. CASE /\ matches = {}
             /\ Goes(p, IF r.op \in {"user", "organization"} THEN "write" ELSE "check")
    <3>1. CASE r.op = "user"
      <4>1. Goes(p, "write") /\ kind = r.op
        BY <1>4, <2>2, <3>1
      <4>2. QED
        BY <1>1, <1>2, <1>4, <2>2, <3>1, <4>1, PassingIsQuiet DEF Steps
    <3>2. CASE r.op # "user"
      <4>1. Goes(p, "check")
        BY <1>1, <2>2, <3>2
      <4>2. r.op \in {"store", "connection"} => kind = r.op
        BY <1>4
      <4>3. QED
        BY <1>1, <1>2, <1>4, <2>2, <3>2, <4>1, <4>2, PassingIsQuiet DEF Steps
    <3>3. QED
      BY <3>1, <3>2
  <2>3. ASSUME NEW i \in matches, Decides(p, "existing", i),
               r.op # "user" /\ r.attr # "" => rows[i].attr = r.attr
        PROVE  Quiet(p)
    <3>1. /\ i \in Ids /\ i \in Nat /\ i <= Len(rows)
          /\ rows[i].kind = kind /\ rows[i].within = Place(p) /\ rows[i].key = r.key
      <4>1. i \in Named(kind, Place(p), r.key)
        BY <1>4, <2>3
      <4>2. QED
        BY <4>1, NamedRow
    <3>2. IsTrue(r, org[p], "existing", i)
      BY <1>1, <1>4, <2>3, <3>1 DEF IsTrue, Place
    <3>3. "existing" \in Statuses \ {"created"}
      BY DEF Statuses
    <3>4. QED
      BY <1>1, <1>2, <2>3, <3>1, <3>2, <3>3, RefusingIsQuiet
  <2>4. QED
    BY <1>3, <1>4, <2>1, <2>2, <2>3, SettlingDecides
<1>5. ASSUME NEW kind, Settle(p, Named(kind, Place(p), r.key)), r.op # "connection",
             IsKind(r.op, kind), r.op # "member" => kind = r.op
      PROVE  Quiet(p)
  <2>1. Named(kind, Place(p), r.key) = {} => Clear(kind, Place(p), r.key)
    BY DEF Clear
  <2>2. QED
    BY <1>4, <1>5, <2>1
<1>6. CASE r.op = "user" /\ Settle(p, UserNamed(r.key))
  BY <1>5, <1>6 DEF UserNamed, Place, PlaceOf, IsKind, Locking
<1>7. CASE r.op = "member" /\ Settle(p, Named("membership", org[p], r.key))
  BY <1>5, <1>7 DEF Place, PlaceOf, IsKind, Locking
<1>8. CASE r.op = "store" /\ Settle(p, Named("store", org[p], r.key))
  BY <1>5, <1>8 DEF Place, PlaceOf, IsKind, Locking
<1>9. CASE /\ r.op = "connection" /\ StoreOf(org[p], r.store)
           /\ Settle(p, {i \in Connections(r.store) : rows[i].key = r.key})
  <2> DEFINE matches == {i \in Connections(r.store) : rows[i].key = r.key}
  <2>1. Place(p) = r.store /\ IsKind(r.op, r.op)
    BY <1>9 DEF Place, PlaceOf, IsKind, Locking
  <2>2. /\ matches \subseteq Named("connection", r.store, r.key)
        /\ matches = {} => Clear("connection", r.store, r.key)
    BY <1>2, PageIsSearched
  <2> HIDE DEF matches
  <2>3. QED
    BY <1>4, <1>9, <2>1, <2>2 DEF matches
<1>10. QED
  <2> DEFINE opening == IF r.op = "user" THEN "granted"
                        ELSE Opening(r.as, org[p], IF r.op = "member" THEN "owner" ELSE "viewer")
  <2>1. opening \in {"granted", "not_found", "forbidden"}
    BY OpeningType
  <2>2. r.op \in {"user", "member", "store", "connection"}
    BY <1>1, <1>2 DEF Locking
  <2>3. \/ opening # "granted" /\ Decides(p, opening, None)
        \/ Decides(p, "not_found", None)
        \/ r.op = "user" /\ Settle(p, UserNamed(r.key))
        \/ r.op = "member" /\ Settle(p, Named("membership", org[p], r.key))
        \/ r.op = "store" /\ Settle(p, Named("store", org[p], r.key))
        \/ /\ r.op = "connection" /\ StoreOf(org[p], r.store)
           /\ Settle(p, {i \in Connections(r.store) : rows[i].key = r.key})
    <3>1. CASE r.op = "user"
      BY <3>1 DEF Lookup
    <3>2. CASE r.op = "member"
      BY <3>2 DEF Lookup
    <3>3. CASE r.op = "store"
      BY <3>3 DEF Lookup
    <3>4. CASE r.op = "connection"
      BY <3>4 DEF Lookup
    <3>5. QED
      BY <2>2, <3>1, <3>2, <3>3, <3>4
  <2> HIDE DEF opening
  <2>4. QED
    BY <1>3, <1>6, <1>7, <1>8, <1>9, <2>1, <2>3

\* The owner of an organization has a membership there, and it is the one of its name.
LEMMA OwnersRole ==
    ASSUME rows \in Seq(Rows), TableInv, NEW i \in Ids, rows[i].kind = "organization"
    PROVE  /\ RoleIn(rows[i].by, i) = "owner"
           /\ \E m \in Ids : /\ rows[m].kind = "membership" /\ rows[m].live
                             /\ rows[m].within = i /\ rows[m].key = rows[i].by
<1>1. DOMAIN rows = Ids
  BY DEF Ids
<1>2. PICK m \in Ids : /\ rows[m].kind = "membership" /\ rows[m].attr = "owner"
                       /\ rows[m].within = i /\ rows[m].key = rows[i].by
  BY <1>1 DEF TableInv, Owned
<1>3. rows[m].live
  BY <1>1, <1>2 DEF TableInv, Owned
<1>4. Named("membership", i, rows[i].by) = {m}
  <2>1. m \in Named("membership", i, rows[i].by)
    BY <1>2, <1>3 DEF Named
  <2>2. ASSUME NEW k \in Named("membership", i, rows[i].by) PROVE k = m
    <3>1. /\ k \in Ids /\ rows[k].kind = "membership" /\ rows[k].live
          /\ rows[k].within = i /\ rows[k].key = rows[i].by
      BY <2>2, NamedRow
    <3>2. ~Overlooked(rows, k) /\ ~Overlooked(rows, m)
      BY <1>2, <3>1 DEF Overlooked
    <3>3. k >= m /\ m >= k
      BY <1>1, <1>2, <1>3, <3>1, <3>2 DEF TableInv, NamedOnce
    <3>4. QED
      BY <3>1, <3>3 DEF Ids
  <2>3. QED
    BY <2>1, <2>2
<1>5. QED
  BY <1>2, <1>3, <1>4 DEF RoleIn

\* Whoever has the role of an owner owns the organization.
LEMMA RoleOfOwner ==
    ASSUME rows \in Seq(Rows), TableInv, NEW subject, NEW o, RoleIn(subject, o) = "owner"
    PROVE  /\ o \in Ids /\ o \in Nat /\ o <= Len(rows)
           /\ rows[o].kind = "organization" /\ rows[o].by = subject /\ rows[o].within = None
<1>1. DOMAIN rows = Ids /\ Len(rows) \in Nat
  BY DEF Ids
<1>2. PICK m \in Named("membership", o, subject) : rows[m].attr = "owner"
  BY DEF RoleIn
<1>3. m \in Ids /\ rows[m].kind = "membership" /\ rows[m].within = o /\ rows[m].key = subject
  BY <1>2, NamedRow
<1>4. rows[m].within \in Nat
  BY <1>3, RowTypes DEF Ids
<1>5. /\ rows[m].within <= Len(rows) /\ rows[m].within # None
      /\ rows[rows[m].within].kind = "organization" /\ rows[rows[m].within].by = rows[m].key
  BY <1>1, <1>2, <1>3 DEF TableInv, Owned
<1>6. o \in Ids
  BY <1>1, <1>3, <1>4, <1>5 DEF None, Ids
<1>7. rows[o].within = None
  BY <1>1, <1>3, <1>5, <1>6 DEF TableInv, Owned
<1>8. QED
  BY <1>1, <1>3, <1>4, <1>5, <1>6, <1>7

\* The list has every organization of the owner,
LEMMA ListIsQuiet ==
    ASSUME NEW p \in Processes, Before(p), ListOrganizations(p)
    PROVE  Quiet(p)
<1> DEFINE r == Current(p)
           F == {rows[i].within : i \in
                    {m \in Ids : rows[m].kind = "membership" /\ rows[m].live /\ rows[m].key = r.as}}
<1>1. /\ step[p] = "lookup" /\ r.op = "organization" /\ UNCHANGED tables
      /\ found' = [found EXCEPT ![p] = F] /\ Goes(p, "roles")
  BY DEF ListOrganizations
<1>2. /\ LocksInv /\ ControlTypes /\ rows \in Seq(Rows) /\ TableInv /\ Ready(p) /\ todo[p] # <<>>
  BY <1>1 DEF Before, Ready, TableTypes
<1>3. F \in SUBSET Nat
  BY <1>2, RowTypes DEF Ids
<1>4. found'[p] = F
  BY <1>1, <1>2 DEF ControlTypes
<1>5. OwnedBy(r.as) \subseteq F
  BY <1>2, OwnersRole DEF OwnedBy
<1> HIDE DEF F
<1>6. QED
  BY <1>1, <1>2, <1>3, <1>4, <1>5, PassingIsQuiet DEF Steps

\* so that the name that none of them bears is free.
LEMMA ReadRolesIsQuiet ==
    ASSUME NEW p \in Processes, Before(p), ReadRoles(p)
    PROVE  Quiet(p)
<1> DEFINE r == Current(p)
           matches == {o \in found[p] : RoleIn(r.as, o) = "owner" /\ rows[o].key = r.key}
<1>1. step[p] = "roles" /\ UNCHANGED tables /\ found' = [found EXCEPT ![p] = {}]
  BY DEF ReadRoles
<1>2. /\ LocksInv /\ ControlTypes /\ rows \in Seq(Rows) /\ TableInv /\ Ready(p) /\ todo[p] # <<>>
      /\ r.op = "organization" /\ OwnedBy(r.as) \subseteq found[p] /\ locks[p] # Free
  BY <1>1 DEF Before, Ready, TableTypes, LocksInv, LockOK
<1>3. {} \in SUBSET Nat /\ matches \in SUBSET Nat
  BY <1>2 DEF ControlTypes
<1>4. ASSUME NEW status \in {"not_found", "ambiguous", "conflict"}, Decides(p, status, None)
      PROVE  Quiet(p)
  BY <1>1, <1>2, <1>3, <1>4, RefusedIsQuiet DEF Statuses
<1>5. ASSUME matches = {}, Goes(p, "write") PROVE Quiet(p)
  <2>1. \A i \in OwnedBy(r.as) : rows[i].key # r.key
    BY <1>2, <1>5, OwnersRole DEF OwnedBy
  <2>2. Valid(r)
    BY <1>2 DEF Valid
  <2>3. QED
    BY <1>1, <1>2, <1>3, <1>5, <2>1, <2>2, PassingIsQuiet DEF Steps
<1>6. ASSUME NEW i \in matches, Decides(p, "existing", i) PROVE Quiet(p)
  <2>1. RoleIn(r.as, i) = "owner" /\ rows[i].key = r.key
    BY <1>6
  <2>2. /\ i \in Ids /\ i \in Nat /\ i <= Len(rows)
        /\ rows[i].kind = "organization" /\ rows[i].by = r.as /\ rows[i].within = None
    BY <1>2, <2>1, RoleOfOwner
  <2>3. IsTrue(r, org[p], "existing", i)
    BY <1>2, <2>1, <2>2 DEF IsTrue, IsKind, PlaceOf, Locking
  <2>4. "existing" \in Statuses \ {"created"}
    BY DEF Statuses
  <2>5. QED
    BY <1>1, <1>2, <1>3, <1>6, <2>2, <2>3, <2>4, RefusingIsQuiet
<1>7. \/ Decides(p, "not_found", None)
      \/ Settle(p, matches)
  BY DEF ReadRoles
<1> HIDE DEF matches
<1>8. CASE Settle(p, matches)
  <2>1. \/ matches = {} /\ Goes(p, "write")
        \/ \E status \in {"ambiguous", "conflict"} : Decides(p, status, None)
        \/ \E i \in matches : Decides(p, "existing", i)
    <3>1. (IF r.op \in {"user", "organization"} THEN "write" ELSE "check") = "write"
      BY <1>2
    <3>2. QED
      BY <1>3, <1>8, <3>1, SettlingDecides
  <2>2. QED
    BY <1>4, <1>5, <1>6, <2>1
<1>9. QED
  BY <1>4, <1>7, <1>8

\* The transaction that writes opens; what was not found is still not there.
LEMMA CheckIsQuiet ==
    ASSUME NEW p \in Processes, Before(p), Check(p)
    PROVE  Quiet(p)
<1> DEFINE r == Current(p)
<1>1. step[p] = "check" /\ UNCHANGED tables /\ found' = found
  BY DEF Check, Opens
<1>2. /\ LocksInv /\ ControlTypes /\ rows \in Seq(Rows) /\ Ready(p) /\ todo[p] # <<>>
      /\ Valid(r) /\ r.op \notin {"user", "organization"}
      /\ r.op \in {"user", "store", "connection"}
              => locks[p] # Free /\ Clear(r.op, Place(p), r.key)
      /\ r.op = "connection" => StoreOf(org[p], r.store)
  BY <1>1 DEF Before, Ready, TableTypes
<1>3. ASSUME NEW status \in {"not_found", "forbidden"}, Decides(p, status, None)
      PROVE  Quiet(p)
  BY <1>1, <1>2, <1>3, RefusedIsQuiet DEF Statuses
<1>4. ASSUME Goes(p, "write") PROVE Quiet(p)
  BY <1>1, <1>2, <1>4, PassingIsQuiet DEF Steps
<1>5. \/ \E status \in {"not_found", "forbidden"} : Decides(p, status, None)
      \/ Goes(p, "write")
  BY OpeningType DEF Check, Opens
<1>6. QED
  BY <1>3, <1>4, <1>5

\* The row that is read again is the one that was asked for, if it is there.
LEMMA RereadIsQuiet ==
    ASSUME NEW p \in Processes, Before(p), Reread(p)
    PROVE  Quiet(p)
<1> DEFINE r == Current(p)
           there == Named("authorization", org[p], r.key)
           i == CHOOSE i \in there : TRUE
<1>1. step[p] = "reread" /\ UNCHANGED tables /\ found' = found
  BY DEF Reread
<1>2. /\ LocksInv /\ ControlTypes /\ rows \in Seq(Rows) /\ Ready(p) /\ todo[p] # <<>>
      /\ r.op = "authorize"
  BY <1>1 DEF Before, Ready, TableTypes
<1>3. CASE there = {}
  <2>1. Decides(p, "internal", None) /\ "internal" \in Statuses \ {"created", "existing"}
    BY <1>3 DEF Reread, Statuses
  <2>2. QED
    BY <1>1, <1>2, <2>1, RefusedIsQuiet
<1>4. CASE there # {}
  <2>1. Decides(p, "existing", i) /\ i \in there
    BY <1>4 DEF Reread
  <2>2. /\ i \in Ids /\ i \in Nat /\ i <= Len(rows)
        /\ rows[i].kind = "authorization" /\ rows[i].within = org[p] /\ rows[i].key = r.key
    BY <2>1, NamedRow
  <2> HIDE DEF i
  <2>3. IsTrue(r, org[p], "existing", i)
    BY <1>2, <2>2 DEF IsTrue, IsKind, PlaceOf
  <2>4. "existing" \in Statuses \ {"created"}
    BY DEF Statuses
  <2>5. QED
    BY <1>1, <1>2, <2>1, <2>2, <2>3, <2>4, RefusingIsQuiet
<1>5. QED
  BY <1>3, <1>4

\* The row of the member is read again; no table is touched.
LEMMA ConfirmIsQuiet ==
    ASSUME NEW p \in Processes, Before(p), Confirm(p)
    PROVE  Quiet(p)
<1>1. step[p] = "confirm" /\ UNCHANGED tables /\ found' = found
  BY DEF Confirm
<1>2. /\ LocksInv /\ ControlTypes /\ rows \in Seq(Rows) /\ Ready(p) /\ todo[p] # <<>>
  BY <1>1 DEF Before, Ready, TableTypes
<1>3. ASSUME NEW status \in {"not_found", "forbidden", "internal"}, Decides(p, status, None)
      PROVE  Quiet(p)
  BY <1>1, <1>2, <1>3, RefusedIsQuiet DEF Statuses
<1>4. ASSUME Goes(p, "leave") PROVE Quiet(p)
  BY <1>1, <1>2, <1>4, PassingIsQuiet DEF Steps
<1>5. \/ \E status \in {"not_found", "forbidden", "internal"} : Decides(p, status, None)
      \/ Goes(p, "leave")
  BY OpeningType DEF Confirm
<1>6. QED
  BY <1>3, <1>4, <1>5

\* To take the lock touches no table.
LEMMA LockIsQuiet ==
    ASSUME NEW p \in Processes, Before(p), Lock(p)
    PROVE  Quiet(p)
<1>1. /\ step[p] = "lock" /\ step' = [step EXCEPT ![p] = "lookup"]
      /\ locks' = [locks EXCEPT ![p] = Scope(p)]
      /\ UNCHANGED <<rows, trail, todo, org, found, verdict, answers, work>>
  BY DEF Lock, tables
<1>2. ControlTypes /\ LocksInv /\ Ready(p) /\ todo[p] # <<>> /\ Valid(Current(p))
  BY <1>1 DEF Before, Ready
<1>3. /\ step' \in [Processes -> Steps] /\ step'[p] = "lookup"
      /\ \A q \in Processes \ {p} : step'[q] = step[q] /\ locks'[q] = locks[q]
  BY <1>1, <1>2 DEF ControlTypes, LocksInv, Steps
<1>4. Own(p) /\ ControlTypes'
  BY <1>1, <1>2, <1>3 DEF Own, ControlTypes
<1>5. Ready(p)'
  BY <1>1, <1>2, <1>3 DEF Ready, Current
<1>6. QED
  BY <1>1, <1>4, <1>5 DEF Quiet, tables

\* The lock is given back before the row of a member is read again, or by a death.
LEMMA UnlockingIsQuiet ==
    ASSUME NEW p \in Processes, Before(p), step[p] \notin {"idle", "done"},
           NEW next \in {"confirm", "done"}, step' = [step EXCEPT ![p] = next],
           locks' = [locks EXCEPT ![p] = Free],
           UNCHANGED <<tables, todo, org, found, verdict, answers, work>>
    PROVE  Quiet(p)
<1>1. ControlTypes /\ LocksInv /\ Ready(p) /\ todo[p] # <<>> /\ UNCHANGED rows
  BY DEF Before, Ready, tables
<1>2. /\ step' \in [Processes -> Steps] /\ step'[p] = next
      /\ \A q \in Processes \ {p} : step'[q] = step[q] /\ locks'[q] = locks[q]
  BY <1>1 DEF ControlTypes, LocksInv, Steps
<1>3. Own(p) /\ ControlTypes'
  BY <1>1, <1>2 DEF Own, ControlTypes
<1>4. Ready(p)'
  BY <1>1, <1>2 DEF Ready, Current
<1>5. QED
  BY <1>3, <1>4 DEF Quiet

-----------------------------------------------------------------------------
(* The writes *)

\* The row a command inserts.
RowOf(p, kind) ==
    Row(kind, Place(p), Current(p).key, IF kind = "user" THEN "human" ELSE Current(p).attr,
        Current(p).as)

NewRow == Len(rows) + 1

Inserting(p) ==
    \E kind \in Kinds :
        /\ IsKind(Current(p).op, kind) /\ kind # "organization"
        /\ Adds(RowOf(p, kind))
        /\ trail' = IF kind = "user" THEN trail
                    ELSE Append(trail, Event(Current(p).op, NewRow, Current(p).as))
        /\ Decides(p, "created", NewRow)

Establishing(p) ==
    /\ Current(p).op = "organization"
    /\ Founds(Current(p).key, Current(p).as)
    /\ trail' = Append(trail, Event("organization", NewRow, Current(p).as))
    /\ Decides(p, "created", NewRow)

Ending(p) ==
    \E i \in Ids, status \in {"revoked", "removed"} :
        /\ Ends(i)
        /\ Current(p).op = "revoke" <=> rows[i].kind = "authorization"
        /\ trail' = IF Current(p).op = "revoke"
                    THEN Append(trail, Event("revoke", i, Current(p).as)) ELSE trail
        /\ Decides(p, status, i)

\* The row that a command inserts is a row.
LEMMA RowOfType ==
    ASSUME ControlTypes, NEW p \in Processes, todo[p] # <<>>, NEW kind \in Kinds
    PROVE  /\ RowOf(p, kind) \in Rows
           /\ RowOf(p, kind).kind = kind /\ RowOf(p, kind).within = Place(p)
           /\ RowOf(p, kind).key = Current(p).key /\ RowOf(p, kind).by = Current(p).as
           /\ RowOf(p, kind).live
           /\ kind # "user" => RowOf(p, kind).attr = Current(p).attr
<1>1. /\ Current(p).as \in Names /\ Current(p).key \in Names /\ Current(p).attr \in Names
      /\ "human" \in Names
  BY CurrentType, AdministrationAssumption
<1>2. Place(p) \in Nat
  BY CurrentType DEF ControlTypes, Place, PlaceOf, None
<1>3. QED
  BY <1>1, <1>2 DEF RowOf, Row, Rows

\* What is inserted when no row bears the name.
LEMMA InsertIsInserting ==
    ASSUME NEW p \in Processes, Before(p), todo[p] # <<>>, Valid(Current(p)),
           NEW kind \in Kinds, IsKind(Current(p).op, kind), kind # "organization",
           Clear(kind, Place(p), Current(p).key),
           Current(p).op = "connection" => StoreOf(org[p], Current(p).store),
           Insert(p, kind, Place(p), kind # "user")
    PROVE  Inserting(p)
<1>1. /\ RowOf(p, kind) \in Rows /\ RowOf(p, kind).live
      /\ RowOf(p, kind).kind = kind /\ RowOf(p, kind).within = Place(p)
      /\ RowOf(p, kind).key = Current(p).key
      /\ kind # "user" => RowOf(p, kind).attr = Current(p).attr
  BY RowOfType DEF Before
<1>2. /\ rows' = Append(rows, RowOf(p, kind))
      /\ trail' = IF kind = "user" THEN trail
                  ELSE Append(trail, Event(Current(p).op, NewRow, Current(p).as))
      /\ Decides(p, "created", NewRow)
  BY DEF Insert, RowOf, NewRow
<1>3. Place(p) <= Len(rows)
  BY DEF Before, TableTypes, Ready, Place, PlaceOf, StoreOf, Ids, None
<1>4. kind = "membership" => RowOf(p, kind).attr \in ASSIGNABLE_ROLES
  BY <1>1 DEF IsKind, Locking, Valid
<1>5. Adds(RowOf(p, kind))
  BY <1>1, <1>2, <1>3, <1>4 DEF Adds
<1>6. QED
  BY <1>2, <1>5 DEF Inserting

\* With a unique index the row is inserted or told of.
LEMMA InsertOnceSteps ==
    ASSUME NEW p \in Processes, Before(p), todo[p] # <<>>, Valid(Current(p)), found' = found,
           NEW kind \in Kinds, IsKind(Current(p).op, kind), kind # "organization",
           NEW status \in Statuses, InsertOnce(p, kind, Place(p), kind # "user", status),
           \/ status = "conflict"
           \/ status = "existing" /\ kind = "job"
           \/ Named(kind, Place(p), Current(p).key) = {},
           kind # "connection"
    PROVE  Inserting(p) \/ Quiet(p)
<1> DEFINE there == Named(kind, Place(p), Current(p).key)
           i == CHOOSE i \in there : TRUE
<1>1. CASE there = {}
  <2>1. Clear(kind, Place(p), Current(p).key) /\ Current(p).op # "connection"
    BY <1>1 DEF Clear, IsKind
  <2>2. QED
    BY <1>1, <2>1, InsertIsInserting DEF InsertOnce
<1>2. CASE there # {}
  <2>1. Decides(p, status, i) /\ UNCHANGED tables /\ i \in there
    BY <1>2 DEF InsertOnce
  <2>2. /\ i \in Ids /\ i \in Nat /\ i <= Len(rows)
        /\ rows[i].kind = kind /\ rows[i].within = Place(p) /\ rows[i].key = Current(p).key
    BY <2>1, NamedRow
  <2> HIDE DEF i
  <2>3. IsTrue(Current(p), org[p], status, i)
    <3>1. kind = "job" => Current(p).op = "import"
      BY DEF IsKind, Locking
    <3>2. CASE status = "conflict"
      BY <3>2 DEF IsTrue
    <3>3. CASE status = "existing" /\ kind = "job"
      BY <2>2, <3>1, <3>3 DEF IsTrue, Place, IsKind
    <3>4. QED
      BY <1>2, <3>2, <3>3
  <2>4. status # "created"
    BY <1>2
  <2>5. QED
    BY <2>1, <2>2, <2>3, <2>4, RefusingIsQuiet DEF Before
<1>3. QED
  BY <1>1, <1>2

\* Rows that may end do, or nothing is found.
LEMMA EndSteps ==
    ASSUME NEW p \in Processes, Before(p), todo[p] # <<>>, found' = found,
           NEW ended \in SUBSET Ids, NEW status \in {"revoked", "removed"},
           \A i \in ended :
                /\ rows[i].live
                /\ rows[i].kind \in {"authorization", "connection", "membership"}
                /\ rows[i].kind = "membership" => rows[i].attr # "owner"
                /\ rows[i].kind = "authorization" <=> Current(p).op = "revoke",
           End(p, ended, Current(p).op = "revoke", status)
    PROVE  Ending(p) \/ Quiet(p)
<1>1. CASE ended = {}
  <2>1. Decides(p, "not_found", None) /\ UNCHANGED tables
    BY <1>1 DEF End
  <2>2. QED
    BY <2>1, RefusedIsQuiet DEF Before, Statuses, TableTypes
<1>2. CASE ended # {}
  <2>1. PICK i \in ended :
          /\ rows' = [rows EXCEPT ![i].live = FALSE]
          /\ trail' = IF Current(p).op = "revoke"
                      THEN Append(trail, Event(Current(p).op, i, Current(p).as)) ELSE trail
          /\ Decides(p, status, i)
    BY <1>2 DEF End
  <2>2. Ends(i)
    BY <2>1 DEF Ends
  <2>3. QED
    BY <2>1, <2>2 DEF Ending
<1>3. QED
  BY <1>1, <1>2

\* Every write is one of these, or writes nothing.
LEMMA WriteSteps ==
    ASSUME NEW p \in Processes, Before(p), Write(p)
    PROVE  Inserting(p) \/ Establishing(p) \/ Ending(p) \/ Quiet(p)
<1> DEFINE r == Current(p)
<1>1. step[p] = "write" /\ found' = found
  BY DEF Write
<1>2. /\ LocksInv /\ ControlTypes /\ rows \in Seq(Rows) /\ Ready(p) /\ todo[p] # <<>> /\ Valid(r)
  BY <1>1 DEF Before, Ready, TableTypes
<1>3. CASE r.op = "user" /\ InsertOnce(p, "user", None, FALSE, "created")
  <2>1. Place(p) = None /\ IsKind(r.op, "user") /\ "user" \in Kinds /\ "created" \in Statuses
    BY <1>3 DEF Place, PlaceOf, IsKind, Locking, Kinds, Statuses
  <2>2. Named("user", Place(p), r.key) = {}
    BY <1>1, <1>2, <1>3, ClearIsFree DEF Ready
  <2>3. InsertOnce(p, "user", Place(p), "user" # "user", "created")
    BY <1>3, <2>1
  <2>4. QED
    BY <1>1, <1>2, <2>1, <2>2, <2>3, InsertOnceSteps
<1>4. CASE r.op = "organization" /\ CreateOrganization(p)
  <2>1. \A i \in OwnedBy(r.as) : rows[i].key # r.key
    BY <1>1, <1>2, <1>4 DEF Ready
  <2>2. r.as \in Names /\ r.key \in Names
    BY <1>2, CurrentType
  <2>3. Founds(r.key, r.as)
    BY <1>4, <2>1, <2>2 DEF CreateOrganization, Founds
  <2>4. QED
    BY <1>4, <2>3 DEF CreateOrganization, Establishing, NewRow
<1>5. CASE r.op = "member" /\ InsertOnce(p, "membership", org[p], TRUE, "conflict")
  <2>1. Place(p) = org[p] /\ IsKind(r.op, "membership") /\ "membership" \in Kinds
        /\ "conflict" \in Statuses
    BY <1>5 DEF Place, PlaceOf, IsKind, Kinds, Statuses
  <2>2. InsertOnce(p, "membership", Place(p), "membership" # "user", "conflict")
    BY <1>5, <2>1
  <2>3. QED
    BY <1>1, <1>2, <2>1, <2>2, InsertOnceSteps
<1>6. CASE \/ r.op = "store" /\ Insert(p, "store", org[p], TRUE)
           \/ r.op = "connection" /\ Insert(p, "connection", r.store, TRUE)
  <2>1. IsKind(r.op, r.op) /\ r.op \in Kinds /\ r.op # "organization"
    BY <1>6 DEF IsKind, Kinds, Locking
  <2>2. Clear(r.op, Place(p), r.key) /\ (r.op = "connection" => StoreOf(org[p], r.store))
    BY <1>1, <1>2, <1>6 DEF Ready
  <2>3. (r.op # "user") = TRUE
    BY <1>6
  <2>4. Insert(p, r.op, Place(p), r.op # "user")
    BY <1>6, <2>3 DEF Place, PlaceOf
  <2>5. QED
    BY <1>2, <2>1, <2>2, <2>4, InsertIsInserting
<1>7. CASE r.op = "authorize" /\ Authorize(p)
  <2>1. Place(p) = org[p] /\ IsKind(r.op, "authorization") /\ "authorization" \in Kinds
    BY <1>7 DEF Place, PlaceOf, IsKind, Kinds
  <2>2. CASE Named("authorization", org[p], r.key) = {}
    <3>1. Insert(p, "authorization", Place(p), "authorization" # "user")
      BY <1>7, <2>1, <2>2 DEF Authorize
    <3>2. Clear("authorization", Place(p), r.key)
      BY <2>1, <2>2 DEF Clear
    <3>3. QED
      BY <1>2, <1>7, <2>1, <3>1, <3>2, InsertIsInserting
  <2>3. CASE Named("authorization", org[p], r.key) # {}
    <3>1. Goes(p, "reread") /\ UNCHANGED tables
      BY <1>7, <2>3 DEF Authorize
    <3>2. QED
      BY <1>1, <1>2, <1>7, <3>1, PassingIsQuiet DEF Steps
  <2>4. QED
    BY <2>2, <2>3
<1>8. CASE r.op = "revoke" /\ End(p, Named("authorization", org[p], r.key), TRUE, "revoked")
  <2> DEFINE ended == Named("authorization", org[p], r.key)
  <2>1. (r.op = "revoke") = TRUE
    BY <1>8
  <2>2. ended \in SUBSET Ids
    BY NamedIds
  <2>3. \A i \in ended : rows[i].live /\ rows[i].kind = "authorization"
    BY NamedRow
  <2>4. End(p, ended, r.op = "revoke", "revoked")
    BY <1>8, <2>1
  <2> HIDE DEF ended
  <2>5. QED
    BY <1>1, <1>2, <1>8, <2>1, <2>2, <2>3, <2>4, EndSteps
<1>9. CASE r.op = "import" /\ InsertOnce(p, "job", org[p], TRUE, "existing")
  <2>1. Place(p) = org[p] /\ IsKind(r.op, "job") /\ "job" \in Kinds
        /\ "existing" \in Statuses
    BY <1>9 DEF Place, PlaceOf, IsKind, Kinds, Statuses
  <2>2. InsertOnce(p, "job", Place(p), "job" # "user", "existing")
    BY <1>9, <2>1
  <2>3. QED
    BY <1>1, <1>2, <2>1, <2>2, InsertOnceSteps
<1>10. CASE /\ r.op = "remove"
            /\ End(p, {i \in Named("membership", org[p], r.key) : rows[i].attr # "owner"}, FALSE,
                   "removed")
  <2> DEFINE members == {i \in Named("membership", org[p], r.key) : rows[i].attr # "owner"}
  <2>1. (r.op = "revoke") = FALSE
    BY <1>10
  <2>2. members \in SUBSET Ids
    BY NamedIds
  <2>3. \A i \in members : rows[i].live /\ rows[i].kind = "membership" /\ rows[i].attr # "owner"
    BY NamedRow
  <2>4. End(p, members, r.op = "revoke", "removed")
    BY <1>10, <2>1
  <2> HIDE DEF members
  <2>5. QED
    BY <1>1, <1>2, <1>10, <2>1, <2>2, <2>3, <2>4, EndSteps
<1>11. CASE /\ r.op = "disconnect"
            /\ End(p, {i \in Named("connection", r.store, r.key) : StoreOf(org[p], r.store)}, FALSE,
                   "revoked")
  <2> DEFINE ended == {i \in Named("connection", r.store, r.key) : StoreOf(org[p], r.store)}
  <2>1. (r.op = "revoke") = FALSE
    BY <1>11
  <2>2. ended \in SUBSET Ids
    BY NamedIds
  <2>3. \A i \in ended : rows[i].live /\ rows[i].kind = "connection"
    BY NamedRow
  <2>4. End(p, ended, r.op = "revoke", "revoked")
    BY <1>11, <2>1
  <2> HIDE DEF ended
  <2>5. QED
    BY <1>1, <1>2, <1>11, <2>1, <2>2, <2>3, <2>4, EndSteps
<1>12. QED
  BY <1>3, <1>4, <1>5, <1>6, <1>7, <1>8, <1>9, <1>10, <1>11 DEF Write

-----------------------------------------------------------------------------
(* What a step of one command leaves to the others *)

\* No row appears that the lookup of q did not find and that q is about to create.
Spares(q) ==
    \A i \in (DOMAIN rows') \ Ids :
        /\ step[q] \in {"check", "write"} /\ Current(q).op \in {"user", "store", "connection"}
              => ~ /\ rows'[i].kind = Current(q).op /\ rows'[i].within = Place(q)
                   /\ rows'[i].key = Current(q).key
        /\ step[q] \in {"roles", "write"} /\ Current(q).op = "organization"
              => ~(rows'[i].kind = "organization" /\ rows'[i].by = Current(q).as)

\* The command q has not moved.
Waits(q) ==
    /\ locks'[q] = locks[q] /\ step'[q] = step[q] /\ todo'[q] = todo[q]
    /\ org'[q] = org[q] /\ found'[q] = found[q] /\ verdict'[q] = verdict[q]

\* A command that waits may go on as if nothing had been written meanwhile.
LEMMA SparedIsReady ==
    ASSUME rows \in Seq(Rows), ControlTypes, NEW q \in Processes, Ready(q), Kept, Waits(q),
           Spares(q)
    PROVE  Ready(q)'
<1>1. /\ Current(q)' = Current(q) /\ Place(q)' = Place(q)
      /\ DOMAIN rows' = Ids' /\ DOMAIN rows = Ids
  BY DEF Waits, Current, Place, PlaceOf, Kept, Ids
<1>2. Len(rows) \in Nat /\ Len(rows') \in Nat /\ Len(rows) <= Len(rows')
  BY DEF Kept
<1>3. org[q] \in Nat /\ verdict[q].row \in Nat
  BY DEF ControlTypes, Verdicts
<1>4. /\ org'[q] <= Len(rows') /\ verdict'[q].row <= Len(rows')
  BY <1>2, <1>3 DEF Ready, Waits
<1>5. step[q] \in {"check", "write"} /\ Current(q).op \in {"user", "store", "connection"}
         => Clear(Current(q).op, Place(q), Current(q).key)'
  <2>1. SUFFICES ASSUME step[q] \in {"check", "write"},
                        Current(q).op \in {"user", "store", "connection"},
                        NEW i \in Named(Current(q).op, Place(q), Current(q).key)'
                 PROVE  Overlooked(rows', i)
    BY DEF Clear
  <2>2. i \in Ids
    BY <1>1, <2>1 DEF Spares, Named
  <2>3. i \in Named(Current(q).op, Place(q), Current(q).key)
    BY <1>1, <2>1, <2>2 DEF Named, Kept
  <2>4. Overlooked(rows, i)
    BY <2>1, <2>3 DEF Ready, Clear
  <2>5. QED
    BY <2>2, <2>4, OverlookedKept
<1>10. step[q] \in {"check", "write"} /\ Current(q).op = "connection"
          => StoreOf(org[q], Current(q).store)'
  <2>1. \A i \in Ids : i \in Ids'
    BY <1>2 DEF Ids
  <2>2. QED
    BY <1>1, <2>1 DEF Ready, StoreOf, Kept, Waits
<1>6. step[q] \in {"roles", "write"} /\ Current(q).op = "organization"
         => \A i \in Ids' : rows'[i].kind = "organization" /\ rows'[i].by = Current(q).as
               => i \in OwnedBy(Current(q).as) /\ rows'[i].key = rows[i].key
  BY <1>1 DEF Spares, Kept, OwnedBy
<1>7. step[q] = "roles" => Current(q).op = "organization" /\ OwnedBy(Current(q).as)' \subseteq found'[q]
  <2>1. CASE step[q] = "roles"
    <3>1. Current(q).op = "organization" /\ OwnedBy(Current(q).as) \subseteq found[q]
      BY <2>1 DEF Ready
    <3>2. QED
      BY <1>1, <1>6, <2>1, <3>1 DEF OwnedBy, Waits
  <2>2. QED
    BY <2>1
<1>8. step[q] = "write" /\ Current(q).op = "organization"
         => locks'[q] # Free /\ \A i \in OwnedBy(Current(q).as)' : rows'[i].key # Current(q).key
  <2>1. CASE step[q] = "write" /\ Current(q).op = "organization"
    <3>1. locks[q] # Free /\ \A i \in OwnedBy(Current(q).as) : rows[i].key # Current(q).key
      BY <2>1 DEF Ready
    <3>2. QED
      BY <1>1, <1>6, <2>1, <3>1 DEF OwnedBy, Waits
  <2>2. QED
    BY <2>1
<1>9. QED
  BY <1>1, <1>4, <1>5, <1>7, <1>8, <1>10 DEF Ready, Waits, Valid, Free, Locking, ASSIGNABLE_ROLES

\* A table without new rows spares everyone.
LEMMA NothingNewSpares ==
    ASSUME DOMAIN rows' \subseteq Ids, NEW q
    PROVE  Spares(q)
BY DEF Spares

\* The lock of a creation is that of every command that may create the same.
LEMMA SameScope ==
    ASSUME LocksInv, NEW p \in Processes, NEW q \in Processes, p # q,
           locks[p] # Free, locks[q] # Free, Current(p).op = Current(q).op,
           Current(p).op = "user" => Current(p).key = Current(q).key,
           Current(p).op = "organization" => Current(p).as = Current(q).as,
           Current(p).op \notin {"user", "organization"} => org[p] = org[q]
    PROVE  FALSE
<1>1. locks[p] = Scope(p) /\ locks[q] = Scope(q) /\ locks[p] # locks[q]
  BY DEF LocksInv, LockOK
<1>2. Scope(p) = Scope(q)
  BY DEF Scope
<1>3. QED
  BY <1>1, <1>2

\* A command inserts nothing that another, whose lookup is done, is about to insert:
\* it would hold the same lock.
LEMMA InsertingSpares ==
    ASSUME LocksInv, rows \in Seq(Rows), TableInv, ControlTypes, NEW p \in Processes, Ready(p),
           step[p] = "write", todo[p] # <<>>, Inserting(p), NEW q \in Processes \ {p}, Ready(q)
    PROVE  Spares(q)
<1>1. PICK kind \in Kinds :
        IsKind(Current(p).op, kind) /\ kind # "organization" /\ Adds(RowOf(p, kind))
  BY DEF Inserting
<1>2. /\ RowOf(p, kind).kind = kind /\ RowOf(p, kind).within = Place(p)
      /\ RowOf(p, kind).key = Current(p).key
  BY RowOfType
<1>3. (DOMAIN rows') \ Ids = {NewRow} /\ rows'[NewRow] = RowOf(p, kind)
  BY <1>1 DEF Adds, Ids, NewRow
<1>4. ASSUME step[q] \in {"check", "write"}, Current(q).op \in {"user", "store", "connection"},
             kind = Current(q).op, Place(p) = Place(q), Current(p).key = Current(q).key
      PROVE  FALSE
  <2>1. Current(p).op = kind
    BY <1>1, <1>4 DEF IsKind
  <2>2. locks[p] # Free /\ locks[q] # Free
    BY <1>4, <2>1 DEF Ready
  <2>3. Current(p).op \notin {"user", "organization"} => org[p] = org[q]
    <3>1. CASE Current(p).op = "connection"
      <4>1. Current(p).store = Current(q).store
        BY <1>4, <2>1, <3>1 DEF Place, PlaceOf
      <4>2. StoreOf(org[p], Current(p).store) /\ StoreOf(org[q], Current(q).store)
        BY <1>4, <2>1, <3>1 DEF Ready
      <4>3. QED
        BY <4>1, <4>2 DEF StoreOf
    <3>2. CASE Current(p).op # "connection"
      BY <1>4, <2>1, <3>2 DEF Place, PlaceOf
    <3>3. QED
      BY <3>1, <3>2
  <2>4. QED
    BY <1>4, <2>1, <2>2, <2>3, SameScope
<1>5. QED
  BY <1>1, <1>2, <1>3, <1>4 DEF Spares

\* The same of an organization.
LEMMA EstablishingSpares ==
    ASSUME LocksInv, rows \in Seq(Rows), TableInv, ControlTypes, NEW p \in Processes, Ready(p),
           step[p] = "write", todo[p] # <<>>, Establishing(p), NEW q \in Processes \ {p}, Ready(q)
    PROVE  Spares(q)
<1> DEFINE o == rows'[Len(rows) + 1]
           m == rows'[Len(rows) + 2]
<1>1. Founds(Current(p).key, Current(p).as) /\ Current(p).op = "organization"
  BY DEF Establishing
<1>2. /\ Len(rows') = Len(rows) + 2 /\ rows' \in Seq(Rows)
      /\ o.kind = "organization" /\ o.by = Current(p).as /\ m.kind = "membership"
  BY <1>1, FoundingKeeps DEF Kept
<1>3. ASSUME NEW i \in (DOMAIN rows') \ Ids
      PROVE  rows'[i] = o \/ rows'[i] = m
  <2>1. Len(rows) \in Nat /\ DOMAIN rows' = 1 .. (Len(rows) + 2)
    BY <1>2
  <2>2. i = Len(rows) + 1 \/ i = Len(rows) + 2
    BY <2>1, <1>3 DEF Ids
  <2>3. QED
    BY <2>2
<1> HIDE DEF o, m
<1>4. ASSUME step[q] \in {"roles", "write"}, Current(q).op = "organization",
             Current(p).as = Current(q).as
      PROVE  FALSE
  <2>1. locks[p] # Free
    BY <1>1 DEF Ready
  <2>2. locks[q] # Free
    BY <1>4 DEF Ready, LocksInv, LockOK
  <2>3. QED
    BY <1>1, <1>4, <2>1, <2>2, SameScope
<1>5. QED
  BY <1>2, <1>3, <1>4 DEF Spares

\* A service that registers takes no name that a command may create, and the data that a
\* worker writes have no name.
LEMMA ServicesSpare ==
    ASSUME rows \in Seq(Rows), NEW row, Adds(row),
           (row.kind = "user" /\ row.key \in Services) \/ row.kind = "data",
           NEW q \in Processes, Ready(q)
    PROVE  Spares(q)
<1>1. (DOMAIN rows') \ Ids = {NewRow} /\ rows'[NewRow] = row
  BY DEF Adds, Ids, NewRow
<1>2. step[q] \in {"check", "write"} /\ Current(q).op = "user" => Current(q).key \notin Services
  BY DEF Ready, Valid
<1>3. QED
  BY <1>1, <1>2 DEF Spares

-----------------------------------------------------------------------------
(* The answers *)

\* The answer that p is about to give, and those it gave, are true.
Truth(p) ==
    /\ IsTrue(Current(p), org[p], verdict[p].status, verdict[p].row)
    /\ \A k \in DOMAIN answers[p] :
            IsTrue(answers[p][k].request, answers[p][k].within, answers[p][k].status, answers[p][k].row)

\* The k-th answer of p, or the one it is about to give, says that it created row i.
Claims(p, k, i) ==
    \/ k = 0 /\ verdict[p].status = "created" /\ verdict[p].row = i
    \/ k \in DOMAIN answers[p] /\ answers[p][k].status = "created" /\ answers[p][k].row = i

Distinct ==
    \A p, q \in Processes : \A k, l, i \in Nat :
        Claims(p, k, i) /\ Claims(q, l, i) => p = q /\ k = l

\* Rows only end, so what was said of them stays true.
LEMMA TruthKept ==
    ASSUME rows \in Seq(Rows), Kept, NEW r, NEW o, NEW status, NEW i, IsTrue(r, o, status, i)
    PROVE  IsTrue(r, o, status, i)'
<1>1. \A j \in Ids : j \in Ids'
  BY DEF Kept, Ids
<1>2. QED
  BY <1>1 DEF IsTrue, Kept

\* An answer that was given stays true,
LEMMA AnswersStayTrue ==
    ASSUME rows \in Seq(Rows), Kept, NEW q, Truth(q), NEW k \in DOMAIN answers[q],
           answers'[q][k] = answers[q][k]
    PROVE  IsTrue(answers[q][k].request, answers[q][k].within, answers[q][k].status, answers[q][k].row)'
<1>1. PICK a : a = answers[q][k]
  OBVIOUS
<1>2. IsTrue(a.request, a.within, a.status, a.row)'
  BY <1>1, TruthKept DEF Truth
<1>3. a = answers'[q][k]
  BY <1>1
<1>4. QED
  BY <1>2, <1>3 DEF IsTrue

\* and so does the one to come.
LEMMA VerdictStaysTrue ==
    ASSUME rows \in Seq(Rows), Kept, NEW q \in Processes, Truth(q),
           todo'[q] = todo[q], org'[q] = org[q], verdict'[q] = verdict[q]
    PROVE  IsTrue(Current(q), org[q], verdict[q].status, verdict[q].row)'
<1>1. Current(q)' = Current(q)
  BY DEF Current
<1>2. PICK r, o, s, i : /\ r = Current(q) /\ o = org[q] /\ s = verdict[q].status
                        /\ i = verdict[q].row
  OBVIOUS
<1>3. IsTrue(r, o, s, i)'
  BY <1>2, TruthKept DEF Truth
<1>4. r = Current(q)' /\ o = org'[q] /\ s = verdict'[q].status /\ i = verdict'[q].row
  BY <1>1, <1>2
<1>5. QED
  BY <1>3, <1>4 DEF IsTrue

\* Whatever is written meanwhile, the answers of a command that waits stay true.
LEMMA WaitingKeepsTruth ==
    ASSUME rows \in Seq(Rows), Kept, NEW q \in Processes, Truth(q), Waits(q),
           answers'[q] = answers[q]
    PROVE  Truth(q)'
<1>1. IsTrue(Current(q), org[q], verdict[q].status, verdict[q].row)'
  BY VerdictStaysTrue DEF Waits
<1>2. ASSUME NEW k \in DOMAIN answers'[q]
      PROVE  IsTrue(answers[q][k].request, answers[q][k].within, answers[q][k].status, answers[q][k].row)'
  BY <1>2, AnswersStayTrue
<1>3. QED
  BY <1>1, <1>2 DEF Truth

\* A decision that is true, when the rows are those that it leaves.
LEMMA DecidingKeeps ==
    ASSUME NEW p \in Processes, Before(p), todo[p] # <<>>, Truth(p), Kept, found' = found,
           NEW status \in Statuses, NEW row \in Nat, Decides(p, status, row),
           row <= Len(rows'),
           \E r, o : r = Current(p) /\ o = org[p] /\ IsTrue(r, o, status, row)'
    PROVE  /\ Own(p) /\ ControlTypes' /\ Ready(p)' /\ Truth(p)'
           /\ verdict'[p] = [status |-> status, row |-> row] /\ answers'[p] = answers[p]
<1>1. LocksInv /\ ControlTypes /\ rows \in Seq(Rows) /\ Ready(p)
  BY DEF Before, TableTypes
<1>2. Own(p) /\ ControlTypes'
  <2>1. {} \in SUBSET Nat
    OBVIOUS
  <2>2. QED
    BY <1>1, <2>1, DecidingIsOwn
<1>3. /\ verdict'[p] = [status |-> status, row |-> row] /\ step'[p] = "leave"
      /\ UNCHANGED <<todo, org, answers>>
  BY <1>1 DEF Decides, ControlTypes
<1>4. Current(p)' = Current(p)
  BY <1>3 DEF Current
<1>5. Len(rows) \in Nat /\ Len(rows') \in Nat /\ Len(rows) <= Len(rows') /\ org[p] \in Nat
  BY <1>1 DEF Kept, ControlTypes
<1>6. Ready(p)'
  BY <1>1, <1>3, <1>4, <1>5 DEF Ready
<1>7. IsTrue(Current(p), org[p], verdict[p].status, verdict[p].row)'
  <2>1. PICK r, o : r = Current(p) /\ o = org[p] /\ IsTrue(r, o, status, row)'
    OBVIOUS
  <2>2. r = Current(p)' /\ o = org'[p] /\ status = verdict'[p].status /\ row = verdict'[p].row
    BY <1>3, <1>4, <2>1
  <2>3. IsTrue(r, o, status, row)'
    BY <2>1
  <2>4. QED
    BY <2>2, <2>3 DEF IsTrue
<1>8. ASSUME NEW k \in DOMAIN answers'[p]
      PROVE  IsTrue(answers[p][k].request, answers[p][k].within, answers[p][k].status, answers[p][k].row)'
  BY <1>1, <1>3, <1>8, AnswersStayTrue
<1>9. QED
  BY <1>2, <1>3, <1>6, <1>7, <1>8 DEF Truth

\* A quiet step decides nothing but what is true.
LEMMA QuietKeepsTruth ==
    ASSUME NEW p \in Processes, Before(p), Truth(p), Quiet(p)
    PROVE  Truth(p)'
<1>1. rows' = rows /\ rows \in Seq(Rows) /\ todo'[p] = todo[p] /\ org'[p] = org[p]
      /\ answers'[p] = answers[p]
  BY DEF Quiet, Before, TableTypes, tables
<1>2. Kept
  BY <1>1 DEF Kept
<1>3. Current(p)' = Current(p) /\ Ids' = Ids
  BY <1>1 DEF Current, Ids
<1>4. IsTrue(Current(p), org[p], verdict[p].status, verdict[p].row)'
  <2>1. CASE verdict'[p] = verdict[p]
    BY <1>1, <1>2, <2>1, VerdictStaysTrue
  <2>2. CASE IsTrue(Current(p), org[p], verdict'[p].status, verdict'[p].row)
    BY <1>1, <1>3, <2>2 DEF IsTrue
  <2>3. QED
    BY <2>1, <2>2 DEF Quiet
<1>5. ASSUME NEW k \in DOMAIN answers'[p]
      PROVE  IsTrue(answers[p][k].request, answers[p][k].within, answers[p][k].status, answers[p][k].row)'
  BY <1>1, <1>2, <1>5, AnswersStayTrue
<1>6. QED
  BY <1>4, <1>5 DEF Truth

\* What an insertion answers is true, and it touches no other command.
LEMMA InsertingIsSound ==
    ASSUME NEW p \in Processes, Before(p), todo[p] # <<>>, Truth(p), found' = found, Inserting(p)
    PROVE  /\ Kept /\ TableInv' /\ Own(p) /\ ControlTypes' /\ Ready(p)' /\ Truth(p)'
           /\ verdict'[p] = [status |-> "created", row |-> NewRow] /\ answers'[p] = answers[p]
<1>1. PICK kind \in Kinds :
        /\ IsKind(Current(p).op, kind) /\ kind # "organization" /\ Adds(RowOf(p, kind))
        /\ Decides(p, "created", NewRow)
  BY DEF Inserting
<1>2. /\ RowOf(p, kind).kind = kind /\ RowOf(p, kind).within = Place(p)
      /\ RowOf(p, kind).key = Current(p).key /\ RowOf(p, kind).by = Current(p).as
      /\ kind # "user" => RowOf(p, kind).attr = Current(p).attr
  BY RowOfType DEF Before
<1>3. /\ Kept /\ TableInv' /\ Len(rows') = NewRow /\ rows'[NewRow] = RowOf(p, kind)
      /\ NewRow \in Nat /\ NewRow \in Ids'
  <2>1. rows \in Seq(Rows) /\ TableInv
    BY DEF Before, TableTypes
  <2>2. /\ Kept /\ TableInv' /\ Len(rows') = Len(rows) + 1
        /\ rows'[Len(rows) + 1] = RowOf(p, kind)
    BY <1>1, <2>1, AddingKeeps
  <2>3. Len(rows) \in Nat
    BY <2>1
  <2>4. QED
    BY <2>2, <2>3 DEF NewRow, Ids
<1>4. PICK r, o, n : r = Current(p) /\ o = org[p] /\ n = NewRow
  OBVIOUS
<1>5. IsTrue(r, o, "created", n)'
  <2>1. kind = "user" <=> r.op = "user"
    BY <1>1, <1>4 DEF IsKind
  <2>2. r.op # "organization" /\ Place(p) = PlaceOf(r, o)
    BY <1>1, <1>4 DEF IsKind, Place
  <2>3. /\ n \in Ids' /\ rows'[n].kind = kind /\ rows'[n].key = r.key /\ rows'[n].by = r.as
        /\ rows'[n].within = PlaceOf(r, o)
        /\ r.op \in {"member", "store"} => rows'[n].attr = r.attr
    BY <1>2, <1>3, <1>4, <2>1, <2>2
  <2>4. IsKind(r.op, kind)
    BY <1>1, <1>4
  <2>5. QED
    BY <2>2, <2>3, <2>4 DEF IsTrue
<1>6. n \in Nat /\ n <= Len(rows') /\ Decides(p, "created", n)
  BY <1>1, <1>3, <1>4
<1>7. /\ Own(p) /\ ControlTypes' /\ Ready(p)' /\ Truth(p)'
      /\ verdict'[p] = [status |-> "created", row |-> n] /\ answers'[p] = answers[p]
  <2>1. \E s, u : s = Current(p) /\ u = org[p] /\ IsTrue(s, u, "created", n)'
    BY <1>4, <1>5
  <2>2. "created" \in Statuses
    BY DEF Statuses
  <2>3. QED
    BY <1>3, <1>6, <2>1, <2>2, DecidingKeeps
<1>8. QED
  BY <1>3, <1>4, <1>7

\* The same of an organization,
LEMMA EstablishingIsSound ==
    ASSUME NEW p \in Processes, Before(p), todo[p] # <<>>, Truth(p), found' = found, Establishing(p)
    PROVE  /\ Kept /\ TableInv' /\ Own(p) /\ ControlTypes' /\ Ready(p)' /\ Truth(p)'
           /\ verdict'[p] = [status |-> "created", row |-> NewRow] /\ answers'[p] = answers[p]
<1>1. /\ Current(p).op = "organization" /\ Founds(Current(p).key, Current(p).as)
      /\ Decides(p, "created", NewRow)
  BY DEF Establishing
<1>2. PICK r, o, n : r = Current(p) /\ o = org[p] /\ n = NewRow
  OBVIOUS
<1>3. /\ Kept /\ TableInv' /\ Len(rows') = n + 1
      /\ rows'[n].kind = "organization" /\ rows'[n].within = None /\ rows'[n].key = r.key
      /\ rows'[n].by = r.as
      /\ n \in Nat /\ n \in Ids'
  <2>1. rows \in Seq(Rows) /\ TableInv
    BY DEF Before, TableTypes
  <2>2. /\ Kept /\ TableInv' /\ Len(rows') = Len(rows) + 2
        /\ rows'[Len(rows) + 1].kind = "organization" /\ rows'[Len(rows) + 1].within = None
        /\ rows'[Len(rows) + 1].key = Current(p).key /\ rows'[Len(rows) + 1].by = Current(p).as
    BY <1>1, <2>1, FoundingKeeps
  <2>3. Len(rows) \in Nat
    BY <2>1
  <2>4. QED
    BY <1>2, <2>2, <2>3 DEF NewRow, Ids
<1>4. IsTrue(r, o, "created", n)'
  <2>2. r.op = "organization" /\ IsKind(r.op, "organization")
    BY <1>1, <1>2 DEF IsKind, Locking
  <2>3. QED
    BY <1>3, <2>2 DEF IsTrue, PlaceOf
<1>5. n \in Nat /\ n <= Len(rows') /\ Decides(p, "created", n)
  BY <1>1, <1>2, <1>3
<1>6. /\ Own(p) /\ ControlTypes' /\ Ready(p)' /\ Truth(p)'
      /\ verdict'[p] = [status |-> "created", row |-> n] /\ answers'[p] = answers[p]
  <2>1. \E s, u : s = Current(p) /\ u = org[p] /\ IsTrue(s, u, "created", n)'
    BY <1>2, <1>4
  <2>2. "created" \in Statuses
    BY DEF Statuses
  <2>3. QED
    BY <1>3, <1>5, <2>1, <2>2, DecidingKeeps
<1>7. QED
  BY <1>2, <1>3, <1>6

\* and of the end of a row.
LEMMA EndingIsSound ==
    ASSUME NEW p \in Processes, Before(p), todo[p] # <<>>, Truth(p), found' = found, Ending(p)
    PROVE  /\ Kept /\ TableInv' /\ Own(p) /\ ControlTypes' /\ Ready(p)' /\ Truth(p)'
           /\ verdict'[p].status # "created" /\ answers'[p] = answers[p]
           /\ DOMAIN rows' = Ids
<1>1. PICK i \in Ids, status \in {"revoked", "removed"} : Ends(i) /\ Decides(p, status, i)
  BY DEF Ending
<1>2. Kept /\ TableInv' /\ Len(rows') = Len(rows) /\ rows \in Seq(Rows)
  BY <1>1, EndingKeeps DEF Before, TableTypes
<1>3. /\ i \in Nat /\ i <= Len(rows') /\ DOMAIN rows' = Ids
  BY <1>1, <1>2 DEF Ids, Kept
<1>4. \E r, o : r = Current(p) /\ o = org[p] /\ IsTrue(r, o, status, i)'
  <2>1. PICK r, o : r = Current(p) /\ o = org[p]
    OBVIOUS
  <2>2. IsTrue(r, o, status, i)'
    BY DEF IsTrue
  <2>3. QED
    BY <2>1, <2>2
<1>5. /\ Own(p) /\ ControlTypes' /\ Ready(p)' /\ Truth(p)'
      /\ verdict'[p] = [status |-> status, row |-> i] /\ answers'[p] = answers[p]
  <2>1. status \in Statuses
    BY DEF Statuses
  <2>2. QED
    BY <1>1, <1>2, <1>3, <1>4, <2>1, DecidingKeeps
<1>6. QED
  BY <1>2, <1>3, <1>5

\* The next request of a script, or the first, finds nothing decided.
LEMMA StartingIsSound ==
    ASSUME NEW p \in Processes, Before(p), Truth(p), Start(p)
    PROVE  /\ rows' = rows /\ trail' = trail /\ Own(p) /\ ControlTypes' /\ Ready(p)' /\ Truth(p)'
           /\ verdict'[p] = verdict[p] /\ answers'[p] = answers[p]
<1>1. /\ step[p] = "idle" /\ step' = [step EXCEPT ![p] = "resolve"]
      /\ UNCHANGED <<rows, trail, locks, found, verdict, answers, work>>
  BY DEF Start, tables
<1>2. PICK script \in Scripts[p], o \in Ids :
         todo' = [todo EXCEPT ![p] = script] /\ org' = [org EXCEPT ![p] = o]
  BY DEF Start
<1>3. script \in Seq(Requests) /\ script # <<>>
  BY <1>2, AdministrationAssumption
<1>4. /\ LocksInv /\ ControlTypes /\ rows \in Seq(Rows) /\ Ready(p)
      /\ o \in Nat /\ o <= Len(rows)
  BY <1>2 DEF Before, TableTypes, Ids
<1>5. "resolve" \in Steps
  BY DEF Steps
<1>6. Own(p)
  BY <1>1, <1>2, <1>4 DEF Own, ControlTypes
<1>7. ControlTypes'
  BY <1>1, <1>2, <1>3, <1>4, <1>5 DEF ControlTypes
<1>8. step'[p] = "resolve" /\ todo'[p] = script /\ org'[p] = o
  BY <1>1, <1>2, <1>4 DEF ControlTypes
<1>9. Ready(p)'
  BY <1>1, <1>3, <1>4, <1>8 DEF Ready
<1>10. Truth(p)'
  <2>1. verdict'[p].status = "undecided"
    BY <1>1, <1>4 DEF Ready
  <2>2. IsTrue(Current(p), org[p], verdict[p].status, verdict[p].row)'
    BY <2>1 DEF IsTrue
  <2>3. Kept
    BY <1>1, <1>4 DEF Kept
  <2>4. ASSUME NEW k \in DOMAIN answers'[p]
        PROVE  IsTrue(answers[p][k].request, answers[p][k].within, answers[p][k].status, answers[p][k].row)'
    BY <1>1, <1>4, <2>3, <2>4, AnswersStayTrue
  <2>5. QED
    BY <2>2, <2>4 DEF Truth
<1>11. QED
  BY <1>1, <1>6, <1>7, <1>9, <1>10

\* The answer that is given.
GivenBy(p) ==
    [request |-> Current(p), within |-> org[p], status |-> verdict[p].status, row |-> verdict[p].row]

\* The verdict becomes an answer, and the next request begins with none.
LEMMA AnsweringIsSound ==
    ASSUME NEW p \in Processes, Before(p), Truth(p), step[p] = "leave", Answers(p),
           locks' = [locks EXCEPT ![p] = Free], UNCHANGED <<tables, work>>
    PROVE  /\ Own(p) /\ ControlTypes' /\ Ready(p)' /\ Truth(p)'
           /\ verdict'[p] = Undecided /\ answers'[p] = Append(answers[p], GivenBy(p))
<1> DEFINE r == Current(p)
           good == verdict[p].status \in Succeeded
           last == Len(todo[p]) = 1 \/ ~good
           newOrg == IF good /\ r.op = "organization" THEN verdict[p].row ELSE org[p]
           newTodo == IF last THEN <<>> ELSE Tail(todo[p])
           newFound == IF r.op = "connection" THEN {verdict[p].row} ELSE {}
           newStep == IF last THEN "done" ELSE "resolve"
<1>1. /\ LocksInv /\ ControlTypes /\ rows \in Seq(Rows) /\ Ready(p) /\ todo[p] # <<>>
      /\ rows' = rows
  BY DEF Before, TableTypes, Ready, tables
<1>2. /\ r \in Requests /\ verdict[p] \in Verdicts /\ verdict[p].row \in Nat
      /\ verdict[p].row <= Len(rows) /\ verdict[p].status \in Statuses
      /\ org[p] \in Nat /\ org[p] <= Len(rows) /\ Len(rows) \in Nat
  BY <1>1, CurrentType DEF ControlTypes, Verdicts, Ready
<1>3. newOrg \in Nat /\ newOrg <= Len(rows)
  BY <1>2
<1>4. newTodo \in Seq(Requests) /\ (newStep # "done" => newTodo # <<>>)
  <2>1. todo[p] \in Seq(Requests) /\ todo[p] # <<>> /\ Len(todo[p]) \in Nat
    BY <1>1 DEF ControlTypes
  <2>2. CASE last
    BY <2>2
  <2>3. CASE ~last
    <3>1. Len(todo[p]) # 1 /\ Len(todo[p]) # 0
      BY <2>1, <2>3
    <3>2. Tail(todo[p]) \in Seq(Requests) /\ Len(Tail(todo[p])) = Len(todo[p]) - 1
      BY <2>1
    <3>3. Tail(todo[p]) # <<>>
      <4>1. Len(Tail(todo[p])) # 0 /\ Len(<<>>) = 0
        BY <2>1, <3>1, <3>2
      <4>2. QED
        BY <4>1
    <3>4. QED
      BY <2>3, <3>2, <3>3
  <2>4. QED
    BY <2>2, <2>3
<1>5. newFound \in SUBSET Nat /\ newStep \in Steps /\ newStep \in {"done", "resolve"}
  BY <1>2 DEF Steps
<1>6. GivenBy(p) \in Told
  BY <1>2 DEF GivenBy, Told
<1>7. Undecided \in Verdicts
  BY DEF Undecided, Verdicts, Statuses, None
<1>8. /\ answers' = [answers EXCEPT ![p] = Append(@, GivenBy(p))]
      /\ org' = [org EXCEPT ![p] = newOrg]
      /\ found' = [found EXCEPT ![p] = newFound]
      /\ verdict' = [verdict EXCEPT ![p] = Undecided]
      /\ todo' = [todo EXCEPT ![p] = newTodo]
      /\ step' = [step EXCEPT ![p] = newStep]
  <2>1. org' = [org EXCEPT ![p] = newOrg]
    BY <1>1 DEF Answers, ControlTypes
  <2>2. todo' = [todo EXCEPT ![p] = newTodo]
    BY <1>1 DEF Answers, ControlTypes
  <2>3. QED
    BY <2>1, <2>2 DEF Answers, GivenBy
<1> HIDE DEF newOrg, newTodo, newFound, newStep
<1>9. Own(p) /\ ControlTypes'
  <2>1. Append(answers[p], GivenBy(p)) \in Seq(Told)
    BY <1>1, <1>6 DEF ControlTypes
  <2>2. QED
    BY <1>1, <1>3, <1>4, <1>5, <1>7, <1>8, <2>1 DEF Own, ControlTypes, LocksInv
<1>10. /\ answers'[p] = Append(answers[p], GivenBy(p)) /\ org'[p] = newOrg
       /\ verdict'[p] = Undecided /\ todo'[p] = newTodo /\ step'[p] = newStep
  BY <1>1, <1>8 DEF ControlTypes
<1>11. Ready(p)'
  <2>1. verdict'[p].row <= Len(rows') /\ verdict'[p].status = "undecided"
    BY <1>1, <1>2, <1>10 DEF Undecided, None
  <2>2. QED
    BY <1>1, <1>3, <1>4, <1>5, <1>10, <2>1 DEF Ready
<1>12. Truth(p)'
  <2>1. IsTrue(Current(p), org[p], verdict[p].status, verdict[p].row)'
    <3>1. verdict'[p].status = "undecided"
      BY <1>10 DEF Undecided
    <3>2. QED
      BY <3>1 DEF IsTrue
  <2>2. Kept
    BY <1>1 DEF Kept
  <2>3. ASSUME NEW k \in DOMAIN answers'[p]
        PROVE  IsTrue(answers[p][k].request, answers[p][k].within, answers[p][k].status, answers[p][k].row)'
    <3>1. answers[p] \in Seq(Told)
      BY <1>1 DEF ControlTypes
    <3>2. CASE k \in DOMAIN answers[p]
      <4>1. answers'[p][k] = answers[p][k]
        BY <1>10, <3>1, <3>2
      <4>2. QED
        BY <1>1, <2>2, <3>2, <4>1, AnswersStayTrue
    <3>3. CASE k \notin DOMAIN answers[p]
      <4>1. answers'[p][k] = GivenBy(p)
        BY <1>10, <2>3, <3>1, <3>3
      <4>2. PICK s, o, t, i : s = Current(p) /\ o = org[p] /\ t = verdict[p].status
                              /\ i = verdict[p].row
        OBVIOUS
      <4>3. IsTrue(s, o, t, i)'
        BY <1>1, <2>2, <4>2, TruthKept DEF Truth
      <4>4. PICK a : a = answers'[p][k]
        OBVIOUS
      <4>5. a.request = s /\ a.within = o /\ a.status = t /\ a.row = i
        BY <4>1, <4>2, <4>4 DEF GivenBy
      <4>6. QED
        BY <4>3, <4>4, <4>5 DEF IsTrue
    <3>4. QED
      BY <3>2, <3>3
  <2>4. QED
    BY <2>1, <2>3 DEF Truth
<1>13. QED
  BY <1>9, <1>10, <1>11, <1>12

-----------------------------------------------------------------------------
(* The log *)

\* The rows whose creation is told: all but those of users, of data and of owners.
Traced(row) ==
    /\ row.kind \notin {"user", "data"}
    /\ row.kind = "membership" => row.attr # "owner"

\* The row was live once.
Begun(i) == i \in DOMAIN Founding => Founding[i].live

Logged ==
    /\ Len(Founding) <= Len(rows)
    /\ \A i \in DOMAIN Founding : rows[i].live => Founding[i].live
    /\ \A k \in DOMAIN trail : trail[k].row \in Ids
    /\ \A k, l \in DOMAIN trail :
            trail[k].row = trail[l].row /\ trail[k].action = trail[l].action => k = l
    /\ \A k \in DOMAIN trail :
            IF trail[k].action = "revoke" THEN rows[trail[k].row].kind = "authorization"
            ELSE /\ trail[k].by = rows[trail[k].row].by
                 /\ trail[k].row > Len(Founding)
    /\ \A i \in Ids \ DOMAIN Founding :
            (\E k \in DOMAIN trail : trail[k].row = i /\ trail[k].action # "revoke")
                <=> Traced(rows[i])
    /\ \A i \in Ids :
            rows[i].kind = "authorization" /\ Begun(i)
                => (rows[i].live <=>
                        \A k \in DOMAIN trail : ~(trail[k].row = i /\ trail[k].action = "revoke"))

\* The trail with one more event, or none.
Grown(event) ==
    /\ trail' \in Seq(Events) /\ DOMAIN trail \subseteq DOMAIN trail'
    /\ \A k \in DOMAIN trail : trail'[k] = trail[k]
    /\ Len(trail) + 1 \notin DOMAIN trail
    /\ DOMAIN trail' = DOMAIN trail \cup {Len(trail) + 1} /\ trail'[Len(trail) + 1] = event

\* The fields of an event.
LEMMA EventType ==
    ASSUME NEW action \in Operations, NEW i \in Nat, NEW by \in Names
    PROVE  /\ Event(action, i, by) \in Events
           /\ Event(action, i, by).action = action /\ Event(action, i, by).row = i
           /\ Event(action, i, by).by = by
BY DEF Event, Events

\* The rows there are before are rows.
LEMMA FoundingType == Founding \in Seq(Rows)
BY AdministrationAssumption

\* An event is appended to what was told.
LEMMA AppendGrows ==
    ASSUME trail \in Seq(Events), NEW event \in Events, trail' = Append(trail, event)
    PROVE  Grown(event)
BY DEF Grown

\* A row and its event, or a row that has none, keep the log exact;
LEMMA AddingIsLogged ==
    ASSUME TableTypes, TableInv, Logged, NEW row, Adds(row), NEW action \in Operations \ {"revoke"},
           trail' = IF row.kind \in {"user", "data"} THEN trail
                    ELSE Append(trail, Event(action, NewRow, row.by))
    PROVE  TableTypes' /\ Logged'
<1>1. PICK n : n = NewRow
  OBVIOUS
<1>2. /\ Kept /\ rows' \in Seq(Rows) /\ Len(rows') = n /\ rows'[n] = row
      /\ \A i \in Ids : rows'[i] = rows[i]
  BY <1>1, AddingKeeps DEF TableTypes, NewRow, Kept
<1>3. /\ Len(rows) \in Nat /\ n \in Nat /\ n = Len(rows) + 1 /\ n \notin Ids /\ Ids' = Ids \cup {n}
      /\ Len(Founding) \in Nat /\ DOMAIN Founding = 1 .. Len(Founding)
      /\ Len(Founding) <= Len(rows) /\ n \notin DOMAIN Founding /\ DOMAIN Founding \subseteq Ids
      /\ n > Len(Founding)
  <2>1. /\ Len(rows) \in Nat /\ n \in Nat /\ n = Len(rows) + 1
        /\ Len(Founding) \in Nat /\ DOMAIN Founding = 1 .. Len(Founding)
        /\ Len(Founding) <= Len(rows)
    BY <1>1, FoundingType DEF TableTypes, Logged, NewRow
  <2>2. Ids = 1 .. Len(rows) /\ Ids' = 1 .. n
    BY <1>2 DEF Ids
  <2>3. n \notin Ids /\ Ids' = Ids \cup {n}
    BY <2>1, <2>2
  <2>4. n \notin DOMAIN Founding /\ DOMAIN Founding \subseteq Ids /\ n > Len(Founding)
    BY <2>1, <2>2
  <2>5. QED
    BY <2>1, <2>3, <2>4
<1>4. row \in Rows /\ row.by \in Names
  BY RowTypes DEF Adds
<1>5. row.kind = "membership" => row.attr # "owner"
  BY DEF Adds, ASSIGNABLE_ROLES
<1>6. row.live
  BY DEF Adds
<1>7. /\ \A i \in DOMAIN Founding : rows'[i].live => Founding[i].live
      /\ \A k \in DOMAIN trail : trail[k].row \in Ids /\ trail[k].row # n
      /\ \A k \in DOMAIN trail :
            IF trail[k].action = "revoke" THEN rows'[trail[k].row].kind = "authorization"
            ELSE /\ trail[k].by = rows'[trail[k].row].by
                 /\ trail[k].row > Len(Founding)
  BY <1>2, <1>3 DEF Logged
<1>8. ASSUME NEW i \in Ids
      PROVE  /\ i \notin DOMAIN Founding =>
                  ((\E k \in DOMAIN trail : trail[k].row = i /\ trail[k].action # "revoke")
                      <=> Traced(rows'[i]))
             /\ rows'[i].kind = "authorization" /\ Begun(i)
                  => (rows'[i].live <=>
                        \A k \in DOMAIN trail : ~(trail[k].row = i /\ trail[k].action = "revoke"))
  BY <1>2 DEF Logged
<1>9. CASE row.kind \in {"user", "data"} /\ trail' = trail
  <2>1. ~Traced(rows'[n]) /\ rows'[n].kind # "authorization"
    BY <1>2, <1>9 DEF Traced
  <2>2. TableTypes'
    BY <1>2, <1>9 DEF TableTypes
  <2>3. /\ Len(Founding) <= Len(rows')
        /\ \A k, l \in DOMAIN trail' :
              trail'[k].row = trail'[l].row /\ trail'[k].action = trail'[l].action => k = l
    BY <1>2, <1>3, <1>9 DEF Logged
  <2>4. \A k \in DOMAIN trail' : trail'[k].row \in Ids' /\ trail'[k].row # n
    BY <1>3, <1>7, <1>9
  <2>5. QED
    BY <1>3, <1>7, <1>8, <1>9, <2>1, <2>2, <2>3, <2>4 DEF Logged, Begun
<1>10. CASE row.kind \notin {"user", "data"} /\ trail' = Append(trail, Event(action, n, row.by))
  <2>1. PICK event \in Events :
          /\ event = Event(action, n, row.by)
          /\ event.action = action /\ event.row = n /\ event.by = row.by
    BY <1>3, <1>4, EventType
  <2>2. Grown(event)
    BY <1>10, <2>1, AppendGrows DEF TableTypes
  <2>3. PICK m : m = Len(trail) + 1
    OBVIOUS
  <2>4. /\ DOMAIN trail' = DOMAIN trail \cup {m} /\ trail'[m] = event /\ m \notin DOMAIN trail
        /\ \A k \in DOMAIN trail : trail'[k] = trail[k]
    BY <2>2, <2>3 DEF Grown
  <2>5. TableTypes'
    BY <1>2, <2>2 DEF TableTypes, Grown
  <2>6. Len(Founding) <= Len(rows')
    BY <1>2, <1>3
  <2>7. \A k, l \in DOMAIN trail' :
              trail'[k].row = trail'[l].row /\ trail'[k].action = trail'[l].action => k = l
    BY <1>7, <2>1, <2>4 DEF Logged
  <2>8. \A k \in DOMAIN trail' : trail'[k].row \in Ids'
    BY <1>3, <1>7, <2>1, <2>4
  <2>9. \A k \in DOMAIN trail' :
            IF trail'[k].action = "revoke" THEN rows'[trail'[k].row].kind = "authorization"
            ELSE /\ trail'[k].by = rows'[trail'[k].row].by
                 /\ trail'[k].row > Len(Founding)
    BY <1>2, <1>3, <1>7, <2>1, <2>4
  <2>10. \A i \in Ids' \ DOMAIN Founding :
            (\E k \in DOMAIN trail' : trail'[k].row = i /\ trail'[k].action # "revoke")
                <=> Traced(rows'[i])
    <3>1. Traced(rows'[n]) /\ trail'[m].row = n /\ trail'[m].action # "revoke"
      BY <1>2, <1>5, <1>10, <2>1, <2>4 DEF Traced
    <3>2. QED
      BY <1>3, <1>8, <2>1, <2>4, <3>1
  <2>11. \A i \in Ids' :
            rows'[i].kind = "authorization" /\ Begun(i)
                => (rows'[i].live <=>
                      \A k \in DOMAIN trail' : ~(trail'[k].row = i /\ trail'[k].action = "revoke"))
    <3>1. rows'[n].live /\ \A k \in DOMAIN trail' : ~(trail'[k].row = n /\ trail'[k].action = "revoke")
      BY <1>2, <1>6, <1>7, <2>1, <2>4
    <3>2. QED
      BY <1>3, <1>8, <2>1, <2>4, <3>1
  <2>12. QED
    BY <1>7, <2>5, <2>6, <2>7, <2>8, <2>9, <2>10, <2>11 DEF Logged, Begun
<1>11. QED
  BY <1>1, <1>9, <1>10

\* so do an organization and its event: the membership of its owner has none;
LEMMA EstablishingIsLogged ==
    ASSUME TableTypes, TableInv, Logged, NEW key, NEW by, Founds(key, by),
           trail' = Append(trail, Event("organization", NewRow, by))
    PROVE  TableTypes' /\ Logged'
<1>1. PICK n : n = NewRow
  OBVIOUS
<1>2. /\ Kept /\ rows' \in Seq(Rows) /\ Len(rows') = n + 1
      /\ rows'[n].kind = "organization" /\ rows'[n].by = by
      /\ rows'[n + 1].kind = "membership" /\ rows'[n + 1].attr = "owner"
      /\ \A i \in Ids : rows'[i] = rows[i]
  <2>1. Len(rows) \in Nat
    BY DEF TableTypes
  <2>2. /\ Kept /\ Len(rows') = Len(rows) + 2
        /\ rows'[Len(rows) + 1].kind = "organization" /\ rows'[Len(rows) + 1].by = by
        /\ rows'[Len(rows) + 2].kind = "membership" /\ rows'[Len(rows) + 2].attr = "owner"
        /\ \A i \in Ids : rows'[i] = rows[i]
    BY FoundingKeeps DEF TableTypes
  <2>3. n = Len(rows) + 1 /\ n + 1 = Len(rows) + 2
    BY <1>1, <2>1 DEF NewRow
  <2>4. QED
    BY <2>2, <2>3 DEF Kept
<1>3. /\ n \in Nat /\ n \notin Ids /\ n + 1 \notin Ids /\ Ids' = Ids \cup {n, n + 1}
      /\ Len(Founding) \in Nat /\ Len(Founding) <= Len(rows) /\ Len(Founding) <= Len(rows')
      /\ DOMAIN Founding \subseteq Ids /\ n > Len(Founding) /\ n + 1 # n
      /\ n \notin DOMAIN Founding /\ n + 1 \notin DOMAIN Founding
  <2>1. /\ Len(rows) \in Nat /\ n \in Nat /\ n = Len(rows) + 1
        /\ Len(Founding) \in Nat /\ DOMAIN Founding = 1 .. Len(Founding)
        /\ Len(Founding) <= Len(rows)
    BY <1>1, FoundingType DEF TableTypes, Logged, NewRow
  <2>2. Ids = 1 .. Len(rows) /\ Ids' = 1 .. (n + 1)
    BY <1>2 DEF Ids
  <2>3. n \notin Ids /\ n + 1 \notin Ids /\ Ids' = Ids \cup {n, n + 1}
    BY <2>1, <2>2
  <2>4. /\ n \notin DOMAIN Founding /\ n + 1 \notin DOMAIN Founding
        /\ DOMAIN Founding \subseteq Ids /\ n > Len(Founding) /\ n + 1 # n
        /\ Len(Founding) <= Len(rows')
    BY <1>2, <2>1, <2>2
  <2>5. QED
    BY <2>1, <2>3, <2>4
<1>4. /\ \A i \in DOMAIN Founding : rows'[i].live => Founding[i].live
      /\ \A k \in DOMAIN trail : trail[k].row \in Ids /\ trail[k].row # n /\ trail[k].row # n + 1
      /\ \A k \in DOMAIN trail :
            IF trail[k].action = "revoke" THEN rows'[trail[k].row].kind = "authorization"
            ELSE /\ trail[k].by = rows'[trail[k].row].by
                 /\ trail[k].row > Len(Founding)
  BY <1>2, <1>3 DEF Logged
<1>5. ASSUME NEW i \in Ids
      PROVE  /\ i \notin DOMAIN Founding =>
                  ((\E k \in DOMAIN trail : trail[k].row = i /\ trail[k].action # "revoke")
                      <=> Traced(rows'[i]))
             /\ rows'[i].kind = "authorization" /\ Begun(i)
                  => (rows'[i].live <=>
                        \A k \in DOMAIN trail : ~(trail[k].row = i /\ trail[k].action = "revoke"))
  BY <1>2 DEF Logged
<1>6. PICK event \in Events :
        event.action = "organization" /\ event.row = n /\ event.by = by /\ Grown(event)
  <2>1. by \in Names /\ "organization" \in Operations
    BY DEF Founds, Operations
  <2>2. PICK event \in Events :
          /\ event = Event("organization", n, by)
          /\ event.action = "organization" /\ event.row = n /\ event.by = by
    BY <1>3, <2>1, EventType
  <2>3. Grown(event)
    BY <1>1, <2>2, AppendGrows DEF TableTypes
  <2>4. QED
    BY <2>2, <2>3
<1>7. PICK m : m = Len(trail) + 1
  OBVIOUS
<1>8. /\ DOMAIN trail' = DOMAIN trail \cup {m} /\ trail'[m] = event /\ m \notin DOMAIN trail
      /\ \A k \in DOMAIN trail : trail'[k] = trail[k]
  BY <1>6, <1>7 DEF Grown
<1>9. TableTypes'
  BY <1>2, <1>6 DEF TableTypes, Grown
<1>10. /\ \A k, l \in DOMAIN trail' :
              trail'[k].row = trail'[l].row /\ trail'[k].action = trail'[l].action => k = l
       /\ \A k \in DOMAIN trail' : trail'[k].row \in Ids'
       /\ \A k \in DOMAIN trail' :
              IF trail'[k].action = "revoke" THEN rows'[trail'[k].row].kind = "authorization"
              ELSE /\ trail'[k].by = rows'[trail'[k].row].by
                   /\ trail'[k].row > Len(Founding)
  <2>1. \A k, l \in DOMAIN trail' :
              trail'[k].row = trail'[l].row /\ trail'[k].action = trail'[l].action => k = l
    BY <1>4, <1>6, <1>8 DEF Logged
  <2>2. \A k \in DOMAIN trail' : trail'[k].row \in Ids'
    BY <1>3, <1>4, <1>6, <1>8
  <2>3. \A k \in DOMAIN trail' :
              IF trail'[k].action = "revoke" THEN rows'[trail'[k].row].kind = "authorization"
              ELSE /\ trail'[k].by = rows'[trail'[k].row].by
                   /\ trail'[k].row > Len(Founding)
    BY <1>2, <1>3, <1>4, <1>6, <1>8
  <2>4. QED
    BY <2>1, <2>2, <2>3
<1>11. \A i \in Ids' \ DOMAIN Founding :
            (\E k \in DOMAIN trail' : trail'[k].row = i /\ trail'[k].action # "revoke")
                <=> Traced(rows'[i])
  <2>1. Traced(rows'[n]) /\ trail'[m].row = n /\ trail'[m].action # "revoke"
    BY <1>2, <1>6, <1>8 DEF Traced
  <2>2. ~Traced(rows'[n + 1]) /\ \A k \in DOMAIN trail' : trail'[k].row # n + 1
    BY <1>2, <1>3, <1>4, <1>6, <1>8 DEF Traced
  <2>3. QED
    BY <1>3, <1>5, <1>6, <1>8, <2>1, <2>2
<1>12. \A i \in Ids' :
            rows'[i].kind = "authorization" /\ Begun(i)
                => (rows'[i].live <=>
                      \A k \in DOMAIN trail' : ~(trail'[k].row = i /\ trail'[k].action = "revoke"))
  BY <1>2, <1>3, <1>5, <1>6, <1>8
<1>13. QED
  BY <1>3, <1>4, <1>9, <1>10, <1>11, <1>12 DEF Logged, Begun

\* and so does an end, which is told when it is that of an authorization.
LEMMA EndingIsLogged ==
    ASSUME TableTypes, TableInv, Logged, NEW i, Ends(i), NEW by \in Names,
           \/ rows[i].kind = "authorization" /\ trail' = Append(trail, Event("revoke", i, by))
           \/ rows[i].kind # "authorization" /\ trail' = trail
    PROVE  TableTypes' /\ Logged'
<1>1. /\ Kept /\ rows' \in Seq(Rows) /\ Len(rows') = Len(rows) /\ ~rows'[i].live
      /\ \A j \in Ids \ {i} : rows'[j] = rows[j]
      /\ i \in Ids /\ rows[i].live /\ Ids' = Ids
  BY EndingKeeps DEF TableTypes, Ends, Kept, Ids
<1>2. \A j \in Ids : Traced(rows'[j]) <=> Traced(rows[j])
  BY <1>1 DEF Traced, Kept
<1>3. DOMAIN Founding \subseteq Ids /\ i \in Nat
  <2>1. /\ Len(rows) \in Nat /\ Len(Founding) \in Nat /\ DOMAIN Founding = 1 .. Len(Founding)
        /\ Len(Founding) <= Len(rows)
    BY FoundingType DEF TableTypes, Logged
  <2>2. QED
    BY <1>1, <2>1 DEF Ids
<1>4. /\ Len(Founding) <= Len(rows')
      /\ \A j \in DOMAIN Founding : rows'[j].live => Founding[j].live
  BY <1>1, <1>3 DEF Logged, Kept
<1>5. \A k \in DOMAIN trail :
        /\ trail[k].row \in Ids'
        /\ IF trail[k].action = "revoke" THEN rows'[trail[k].row].kind = "authorization"
           ELSE /\ trail[k].by = rows'[trail[k].row].by
                /\ trail[k].row > Len(Founding)
  BY <1>1 DEF Logged, Kept
<1>6. CASE rows[i].kind # "authorization" /\ trail' = trail
  <2>1. TableTypes'
    BY <1>1, <1>6 DEF TableTypes
  <2>2. rows'[i].kind # "authorization"
    BY <1>1, <1>6 DEF Kept
  <2>3. \A j \in Ids' \ DOMAIN Founding :
            (\E k \in DOMAIN trail' : trail'[k].row = j /\ trail'[k].action # "revoke")
                <=> Traced(rows'[j])
    BY <1>1, <1>2, <1>6 DEF Logged
  <2>4. \A j \in Ids' :
            rows'[j].kind = "authorization" /\ Begun(j)
                => (rows'[j].live <=>
                      \A k \in DOMAIN trail' : ~(trail'[k].row = j /\ trail'[k].action = "revoke"))
    BY <1>1, <1>6, <2>2 DEF Logged
  <2>5. \A k, l \in DOMAIN trail' :
            trail'[k].row = trail'[l].row /\ trail'[k].action = trail'[l].action => k = l
    BY <1>6 DEF Logged
  <2>6. QED
    BY <1>4, <1>5, <1>6, <2>1, <2>3, <2>4, <2>5 DEF Logged, Begun
<1>7. CASE rows[i].kind = "authorization" /\ trail' = Append(trail, Event("revoke", i, by))
  <2>1. PICK event \in Events : event.action = "revoke" /\ event.row = i /\ Grown(event)
    <3>1. "revoke" \in Operations
      BY DEF Operations
    <3>2. PICK event \in Events :
            event = Event("revoke", i, by) /\ event.action = "revoke" /\ event.row = i
      BY <1>3, <3>1, EventType
    <3>3. Grown(event)
      BY <1>7, <3>2, AppendGrows DEF TableTypes
    <3>4. QED
      BY <3>2, <3>3
  <2>2. PICK m : m = Len(trail) + 1
    OBVIOUS
  <2>3. /\ DOMAIN trail' = DOMAIN trail \cup {m} /\ trail'[m] = event /\ m \notin DOMAIN trail
        /\ \A k \in DOMAIN trail : trail'[k] = trail[k]
    BY <2>1, <2>2 DEF Grown
  <2>4. TableTypes'
    BY <1>1, <2>1 DEF TableTypes, Grown
  <2>5. \A k \in DOMAIN trail : ~(trail[k].row = i /\ trail[k].action = "revoke")
    <3>1. Begun(i)
      BY <1>1 DEF Logged, Begun
    <3>2. QED
      BY <1>1, <1>7, <3>1 DEF Logged
  <2>6. \A k, l \in DOMAIN trail' :
            trail'[k].row = trail'[l].row /\ trail'[k].action = trail'[l].action => k = l
    BY <2>1, <2>3, <2>5 DEF Logged
  <2>7. \A k \in DOMAIN trail' :
          /\ trail'[k].row \in Ids'
          /\ IF trail'[k].action = "revoke" THEN rows'[trail'[k].row].kind = "authorization"
             ELSE /\ trail'[k].by = rows'[trail'[k].row].by
                  /\ trail'[k].row > Len(Founding)
    <3>1. rows'[i].kind = "authorization"
      BY <1>1, <1>7 DEF Kept
    <3>2. QED
      BY <1>1, <1>5, <2>1, <2>3, <3>1
  <2>8. \A j \in Ids' \ DOMAIN Founding :
            (\E k \in DOMAIN trail' : trail'[k].row = j /\ trail'[k].action # "revoke")
                <=> Traced(rows'[j])
    BY <1>1, <1>2, <2>1, <2>3 DEF Logged
  <2>9. \A j \in Ids' :
            rows'[j].kind = "authorization" /\ Begun(j)
                => (rows'[j].live <=>
                      \A k \in DOMAIN trail' : ~(trail'[k].row = j /\ trail'[k].action = "revoke"))
    <3>1. ASSUME NEW j \in Ids \ {i}, rows'[j].kind = "authorization", Begun(j)
          PROVE  rows'[j].live <=>
                      \A k \in DOMAIN trail' : ~(trail'[k].row = j /\ trail'[k].action = "revoke")
      <4>1. rows[j].live <=>
              \A k \in DOMAIN trail : ~(trail[k].row = j /\ trail[k].action = "revoke")
        BY <1>1, <3>1 DEF Logged
      <4>2. QED
        BY <1>1, <2>1, <2>3, <4>1
    <3>2. QED
      BY <1>1, <2>1, <2>3, <3>1
  <2>10. QED
    BY <1>4, <2>4, <2>6, <2>7, <2>8, <2>9 DEF Logged, Begun
<1>8. QED
  BY <1>6, <1>7

-----------------------------------------------------------------------------
(* The inductive invariant *)

WorkInv ==
    /\ work \in [Services -> Nat]
    /\ \A s \in Services : work[s] # None => work[s] \in Ids /\ rows[work[s]].kind = "job"

Commands == \A p \in Processes : Ready(p) /\ Truth(p)

AdminInv ==
    /\ LocksInv /\ ControlTypes /\ TableTypes /\ TableInv /\ Commands /\ Distinct
    /\ WorkInv /\ Logged

\* A row that is said to be created is there.
LEMMA ClaimedExists ==
    ASSUME Commands, NEW p \in Processes, NEW k, NEW i, Claims(p, k, i)
    PROVE  i \in Ids
<1>1. Truth(p)
  BY DEF Commands
<1>2. CASE verdict[p].status = "created" /\ verdict[p].row = i
  BY <1>1, <1>2 DEF Truth, IsTrue
<1>3. CASE k \in DOMAIN answers[p] /\ answers[p][k].status = "created" /\ answers[p][k].row = i
  BY <1>1, <1>3 DEF Truth, IsTrue
<1>4. QED
  BY <1>2, <1>3 DEF Claims

\* A step that claims nothing more.
LEMMA ClaimingNothing ==
    ASSUME Distinct, NEW p \in Processes, Own(p), answers'[p] = answers[p],
           verdict'[p] = verdict[p] \/ verdict'[p].status # "created"
    PROVE  Distinct'
<1>1. \A q \in Processes : \A k, i \in Nat : Claims(q, k, i)' => Claims(q, k, i)
  BY DEF Own, Claims
<1>2. QED
  BY <1>1 DEF Distinct

\* A step that claims a row that was not there.
LEMMA ClaimingANewRow ==
    ASSUME Commands, Distinct, ControlTypes, rows \in Seq(Rows), NEW p \in Processes, Own(p),
           answers'[p] = answers[p], verdict'[p] = [status |-> "created", row |-> NewRow]
    PROVE  Distinct'
<1>1. PICK n : n = NewRow
  OBVIOUS
<1>2. n \notin Ids /\ 0 \notin DOMAIN answers[p]
  <2>1. Len(rows) \in Nat /\ answers[p] \in Seq(Told)
    BY DEF ControlTypes
  <2>2. QED
    BY <1>1, <2>1 DEF NewRow, Ids
<1>3. \A q \in Processes : \A k, i \in Nat :
        Claims(q, k, i)' => (Claims(q, k, i) /\ ~(q = p /\ k = 0)) \/ (q = p /\ k = 0 /\ i = n)
  <2>1. SUFFICES ASSUME NEW q \in Processes, NEW k \in Nat, NEW i \in Nat, Claims(q, k, i)'
                 PROVE  (Claims(q, k, i) /\ ~(q = p /\ k = 0)) \/ (q = p /\ k = 0 /\ i = n)
    OBVIOUS
  <2>2. CASE q # p
    BY <2>1, <2>2 DEF Own, Claims
  <2>3. CASE q = p
    <3>1. verdict'[p].row = n
      BY <1>1
    <3>2. QED
      BY <1>2, <2>1, <2>3, <3>1 DEF Claims
  <2>4. QED
    BY <2>2, <2>3
<1>4. \A q \in Processes : \A k, i \in Nat : Claims(q, k, i) => i # n
  BY <1>2, ClaimedExists
<1>5. QED
  BY <1>3, <1>4 DEF Distinct

\* What was about to be answered is answered.
LEMMA ClaimingByAnswer ==
    ASSUME Distinct, ControlTypes, NEW p \in Processes, Own(p), verdict'[p] = Undecided,
           answers'[p] = Append(answers[p], GivenBy(p))
    PROVE  Distinct'
<1>1. PICK n : n = Len(answers[p]) + 1
  OBVIOUS
<1>2. /\ n \in Nat /\ n # 0 /\ n \notin DOMAIN answers[p] /\ 0 \notin DOMAIN answers'[p]
      /\ DOMAIN answers'[p] = DOMAIN answers[p] \cup {n} /\ answers'[p][n] = GivenBy(p)
      /\ \A k \in DOMAIN answers[p] : answers'[p][k] = answers[p][k] /\ k # 0
  <2>1. answers[p] \in Seq(Told)
    BY DEF ControlTypes
  <2>2. QED
    BY <1>1, <2>1
<1>3. GivenBy(p).status = verdict[p].status /\ GivenBy(p).row = verdict[p].row
  BY DEF GivenBy
<1>4. verdict'[p].status # "created"
  BY DEF Undecided
<1>5. \A q \in Processes : \A k, i \in Nat :
        Claims(q, k, i)' => \/ Claims(q, k, i) /\ ~(q = p /\ (k = 0 \/ k = n))
                            \/ q = p /\ k = n /\ Claims(p, 0, i)
  <2>1. SUFFICES ASSUME NEW q \in Processes, NEW k \in Nat, NEW i \in Nat, Claims(q, k, i)'
                 PROVE  \/ Claims(q, k, i) /\ ~(q = p /\ (k = 0 \/ k = n))
                        \/ q = p /\ k = n /\ Claims(p, 0, i)
    OBVIOUS
  <2>2. CASE q # p
    BY <2>1, <2>2 DEF Own, Claims
  <2>3. CASE q = p
    BY <1>2, <1>3, <1>4, <2>1, <2>3 DEF Claims
  <2>4. QED
    BY <2>2, <2>3
<1>6. QED
  BY <1>2, <1>5 DEF Distinct

\* What is to be shown of a step of command p.
LEMMA CommandSteps ==
    ASSUME AdminInv, NEW p \in Processes, Own(p), LocksInv', ControlTypes', Kept, TableTypes',
           TableInv', Logged', Distinct', Ready(p)', Truth(p)',
           \A q \in Processes \ {p} : Spares(q)
    PROVE  AdminInv'
<1>1. rows \in Seq(Rows) /\ ControlTypes /\ Commands /\ WorkInv
  BY DEF AdminInv, TableTypes
<1>2. Commands'
  <2>1. ASSUME NEW q \in Processes \ {p} PROVE Ready(q)' /\ Truth(q)'
    <3>1. Waits(q) /\ answers'[q] = answers[q] /\ Spares(q) /\ Ready(q) /\ Truth(q) /\ q \in Processes
      BY <1>1 DEF Own, Waits, Commands
    <3>2. QED
      BY <1>1, <3>1, SparedIsReady, WaitingKeepsTruth
  <2>2. QED
    BY <2>1 DEF Commands
<1>3. WorkInv'
  BY <1>1 DEF Own, WorkInv, Kept, Ids
<1>4. QED
  BY <1>2, <1>3 DEF AdminInv

\* Steps that write no table.
LEMMA QuietSteps ==
    ASSUME AdminInv, NEW p \in Processes, Quiet(p), LocksInv'
    PROVE  AdminInv'
<1>1. /\ Own(p) /\ ControlTypes' /\ rows' = rows /\ trail' = trail /\ Ready(p)'
      /\ answers'[p] = answers[p]
      /\ verdict'[p] = verdict[p] \/ verdict'[p].status # "created"
  BY DEF Quiet, tables
<1>2. Before(p) /\ Truth(p) /\ rows \in Seq(Rows) /\ Distinct
  BY DEF AdminInv, Before, Commands, TableTypes
<1>3. Kept
  BY <1>1, <1>2 DEF Kept
<1>4. TableTypes' /\ TableInv' /\ Logged'
  BY <1>1 DEF AdminInv, TableTypes, TableInv, Logged, Ids
<1>5. \A q \in Processes \ {p} : Spares(q)
  BY <1>1, <1>2, NothingNewSpares DEF Ids
<1>6. Truth(p)'
  BY <1>2, QuietKeepsTruth
<1>7. Distinct'
  BY <1>1, <1>2, ClaimingNothing
<1>8. QED
  BY <1>1, <1>3, <1>4, <1>5, <1>6, <1>7, CommandSteps

\* The first request of a script.
LEMMA StartSteps ==
    ASSUME AdminInv, NEW p \in Processes, Start(p), LocksInv'
    PROVE  AdminInv'
<1>1. Before(p) /\ Truth(p) /\ rows \in Seq(Rows) /\ Distinct
  BY DEF AdminInv, Before, Commands, TableTypes
<1>2. /\ rows' = rows /\ trail' = trail /\ Own(p) /\ ControlTypes' /\ Ready(p)' /\ Truth(p)'
      /\ verdict'[p] = verdict[p] /\ answers'[p] = answers[p]
  BY <1>1, StartingIsSound
<1>3. Kept
  BY <1>1, <1>2 DEF Kept
<1>4. TableTypes' /\ TableInv' /\ Logged'
  BY <1>2 DEF AdminInv, TableTypes, TableInv, Logged, Ids
<1>5. \A q \in Processes \ {p} : Spares(q)
  BY <1>1, <1>2, NothingNewSpares DEF Ids
<1>6. Distinct'
  BY <1>1, <1>2, ClaimingNothing
<1>7. QED
  BY <1>2, <1>3, <1>4, <1>5, <1>6, CommandSteps

\* The end of a request.
LEMMA LeaveSteps ==
    ASSUME AdminInv, NEW p \in Processes, Leave(p), LocksInv'
    PROVE  AdminInv'
<1>1. Before(p) /\ Truth(p) /\ rows \in Seq(Rows) /\ Distinct /\ ControlTypes
  BY DEF AdminInv, Before, Commands, TableTypes
<1>2. /\ step[p] = "leave" /\ locks' = [locks EXCEPT ![p] = Free] /\ UNCHANGED <<tables, work>>
  BY DEF Leave
<1>3. CASE /\ step' = [step EXCEPT ![p] = "confirm"]
           /\ UNCHANGED <<todo, org, found, verdict, answers>>
  BY <1>1, <1>2, <1>3, UnlockingIsQuiet, QuietSteps
<1>4. CASE Answers(p)
  <2>1. /\ Own(p) /\ ControlTypes' /\ Ready(p)' /\ Truth(p)'
        /\ verdict'[p] = Undecided /\ answers'[p] = Append(answers[p], GivenBy(p))
    BY <1>1, <1>2, <1>4, AnsweringIsSound
  <2>2. rows' = rows /\ trail' = trail
    BY <1>2 DEF tables
  <2>3. Kept
    BY <1>1, <2>2 DEF Kept
  <2>4. TableTypes' /\ TableInv' /\ Logged'
    BY <2>2 DEF AdminInv, TableTypes, TableInv, Logged, Ids
  <2>5. \A q \in Processes \ {p} : Spares(q)
    BY <1>1, <2>2, NothingNewSpares DEF Ids
  <2>6. Distinct'
    BY <1>1, <2>1, ClaimingByAnswer
  <2>7. QED
    BY <2>1, <2>3, <2>4, <2>5, <2>6, CommandSteps
<1>5. QED
  BY <1>3, <1>4 DEF Leave

\* The transaction that writes.
LEMMA WritingSteps ==
    ASSUME AdminInv, NEW p \in Processes, Write(p), LocksInv'
    PROVE  AdminInv'
<1>1. /\ Before(p) /\ Truth(p) /\ rows \in Seq(Rows) /\ Distinct /\ ControlTypes /\ Commands
      /\ LocksInv /\ TableTypes /\ TableInv /\ Logged /\ Ready(p)
      /\ \A q \in Processes : Ready(q)
  BY DEF AdminInv, Before, Commands, TableTypes
<1>2. step[p] = "write" /\ found' = found /\ todo[p] # <<>>
  BY <1>1 DEF Write, Ready
<1>3. Current(p).op \in Operations /\ Current(p).as \in Names
  BY <1>1, <1>2, CurrentType
<1>4. CASE Quiet(p)
  BY <1>4, QuietSteps
<1>5. CASE Inserting(p)
  <2>1. PICK kind \in Kinds :
          /\ IsKind(Current(p).op, kind) /\ Adds(RowOf(p, kind))
          /\ trail' = IF kind = "user" THEN trail
                      ELSE Append(trail, Event(Current(p).op, NewRow, Current(p).as))
    BY <1>5 DEF Inserting
  <2>2. RowOf(p, kind).kind = kind /\ RowOf(p, kind).by = Current(p).as
    BY <1>1, <1>2, RowOfType
  <2>3. kind # "data" /\ Current(p).op # "revoke"
    BY <2>1 DEF IsKind, Locking
  <2>4. TableTypes' /\ Logged'
    BY <1>1, <1>3, <2>1, <2>2, <2>3, AddingIsLogged
  <2>5. /\ Kept /\ TableInv' /\ Own(p) /\ ControlTypes' /\ Ready(p)' /\ Truth(p)'
        /\ verdict'[p] = [status |-> "created", row |-> NewRow] /\ answers'[p] = answers[p]
    BY <1>1, <1>2, <1>5, InsertingIsSound
  <2>6. Distinct'
    BY <1>1, <2>5, ClaimingANewRow
  <2>7. \A q \in Processes \ {p} : Spares(q)
    BY <1>1, <1>2, <1>5, InsertingSpares
  <2>8. QED
    BY <2>4, <2>5, <2>6, <2>7, CommandSteps
<1>6. CASE Establishing(p)
  <2>1. TableTypes' /\ Logged'
    BY <1>1, <1>6, EstablishingIsLogged DEF Establishing
  <2>2. /\ Kept /\ TableInv' /\ Own(p) /\ ControlTypes' /\ Ready(p)' /\ Truth(p)'
        /\ verdict'[p] = [status |-> "created", row |-> NewRow] /\ answers'[p] = answers[p]
    BY <1>1, <1>2, <1>6, EstablishingIsSound
  <2>3. Distinct'
    BY <1>1, <2>2, ClaimingANewRow
  <2>4. \A q \in Processes \ {p} : Spares(q)
    BY <1>1, <1>2, <1>6, EstablishingSpares
  <2>5. QED
    BY <2>1, <2>2, <2>3, <2>4, CommandSteps
<1>7. CASE Ending(p)
  <2>1. PICK i \in Ids :
          /\ Ends(i)
          /\ Current(p).op = "revoke" <=> rows[i].kind = "authorization"
          /\ trail' = IF Current(p).op = "revoke"
                      THEN Append(trail, Event("revoke", i, Current(p).as)) ELSE trail
    BY <1>7 DEF Ending
  <2>2. TableTypes' /\ Logged'
    BY <1>1, <1>3, <2>1, EndingIsLogged
  <2>3. /\ Kept /\ TableInv' /\ Own(p) /\ ControlTypes' /\ Ready(p)' /\ Truth(p)'
        /\ verdict'[p].status # "created" /\ answers'[p] = answers[p]
        /\ DOMAIN rows' = Ids
    BY <1>1, <1>2, <1>7, EndingIsSound
  <2>4. Distinct'
    BY <1>1, <2>3, ClaimingNothing
  <2>5. \A q \in Processes \ {p} : Spares(q)
    BY <2>3, NothingNewSpares
  <2>6. QED
    BY <2>2, <2>3, <2>4, <2>5, CommandSteps
<1>8. QED
  BY <1>1, <1>4, <1>5, <1>6, <1>7, WriteSteps

\* Every step of a command keeps the invariant.
LEMMA CommandActs ==
    ASSUME AdminInv, NEW p \in Processes, Start(p) \/ Acts(p) \/ Dies(p), LocksInv'
    PROVE  AdminInv'
<1>1. Before(p)
  BY DEF AdminInv, Before, Commands
<1>2. CASE Dies(p)
  BY <1>1, <1>2, UnlockingIsQuiet, QuietSteps DEF Dies
<1>3. CASE \/ Resolve(p) \/ Require(p) \/ Find(p) \/ Lock(p)
           \/ Lookup(p) \/ ListOrganizations(p) \/ ReadRoles(p) \/ Check(p)
           \/ Reread(p) \/ Confirm(p)
  BY <1>1, <1>3, ResolveIsQuiet, RequireIsQuiet, FindIsQuiet, LockIsQuiet, LookupIsQuiet,
     ListIsQuiet, ReadRolesIsQuiet, CheckIsQuiet, RereadIsQuiet, ConfirmIsQuiet, QuietSteps
<1>4. QED
  BY <1>2, <1>3, StartSteps, LeaveSteps, WritingSteps DEF Acts

\* The services answer nothing.
LEMMA NothingClaimed ==
    ASSUME Distinct, UNCHANGED <<verdict, answers>>
    PROVE  Distinct'
<1>1. \A q \in Processes : \A k, i \in Nat : Claims(q, k, i)' => Claims(q, k, i)
  BY DEF Claims
<1>2. QED
  BY <1>1 DEF Distinct

\* What is to be shown of a step of a service.
LEMMA ServiceSteps ==
    ASSUME AdminInv, UNCHANGED control, LocksInv', Kept, TableTypes', TableInv', Logged', WorkInv',
           \A q \in Processes : Spares(q)
    PROVE  AdminInv'
<1>1. /\ rows \in Seq(Rows) /\ ControlTypes /\ Commands /\ Distinct
      /\ UNCHANGED <<locks, step, todo, org, found, verdict, answers>>
  BY DEF AdminInv, TableTypes, control
<1>2. Commands'
  <2>1. ASSUME NEW q \in Processes PROVE Ready(q)' /\ Truth(q)'
    <3>1. Waits(q) /\ answers'[q] = answers[q] /\ Spares(q) /\ Ready(q) /\ Truth(q)
      BY <1>1 DEF Waits, Commands
    <3>2. QED
      BY <1>1, <3>1, SparedIsReady, WaitingKeepsTruth
  <2>2. QED
    BY <2>1 DEF Commands
<1>3. ControlTypes'
  BY <1>1 DEF ControlTypes
<1>4. Distinct'
  BY <1>1, NothingClaimed
<1>5. QED
  BY <1>2, <1>3, <1>4 DEF AdminInv

\* A row that a service adds.
LEMMA ServiceAdds ==
    ASSUME AdminInv, UNCHANGED control, LocksInv', NEW row, Adds(row), trail' = trail,
           (row.kind = "user" /\ row.key \in Services) \/ row.kind = "data",
           work' \in [Services -> Nat],
           \A s \in Services : work'[s] # None => work'[s] = work[s]
    PROVE  AdminInv'
<1>1. rows \in Seq(Rows) /\ TableTypes /\ TableInv /\ Logged /\ Commands /\ WorkInv
  BY DEF AdminInv, TableTypes
<1>2. Kept /\ TableInv'
  BY <1>1, AddingKeeps
<1>3. TableTypes' /\ Logged'
  <2>1. "user" \in Operations \ {"revoke"}
    BY DEF Operations
  <2>2. QED
    BY <1>1, <2>1, AddingIsLogged
<1>4. \A q \in Processes : Spares(q)
  BY <1>1, ServicesSpare DEF Commands
<1>5. WorkInv'
  BY <1>1, <1>2 DEF WorkInv, Kept, Ids
<1>6. QED
  BY <1>2, <1>3, <1>4, <1>5, ServiceSteps

\* What the names of the rows of services are.
LEMMA ServiceNames == \A s \in Services : s \in Names /\ "service" \in Names /\ "" \in Names
BY AdministrationAssumption

\* A service registers under a name that nobody bears.
LEMMA RegisteringAdds ==
    ASSUME AdminInv, NEW s \in Services, RegisterService(s)
    PROVE  \E row : Adds(row) /\ row.kind = "user" /\ row.key \in Services
<1>1. PICK row : row = Row("user", None, s, "service", s)
  OBVIOUS
<1>2. /\ row.kind = "user" /\ row.within = None /\ row.key = s /\ row.live
  BY <1>1 DEF Row
<1>3. row \in Rows
  <2>1. "user" \in Kinds /\ None \in Nat
    BY DEF Kinds, None
  <2>2. QED
    BY <1>1, <2>1, ServiceNames DEF Row, Rows
<1>4. Named("user", None, s) = {} /\ rows' = Append(rows, row)
  BY <1>1 DEF RegisterService, UserNamed
<1>5. None <= Len(rows)
  BY DEF AdminInv, TableTypes, None
<1>6. Adds(row)
  BY <1>2, <1>3, <1>4, <1>5 DEF Adds, Clear
<1>7. QED
  BY <1>2, <1>6

\* The row that a worker writes, for a job that is there.
LEMMA WritingAdds ==
    ASSUME AdminInv, NEW s \in Services, DelegateWrites(s), rows' # rows
    PROVE  \E row : Adds(row) /\ row.kind = "data"
<1>1. /\ rows \in Seq(Rows) /\ TableInv /\ WorkInv /\ work[s] # None
  BY DEF AdminInv, TableTypes, DelegateWrites
<1>2. PICK j \in Ids : j = work[s] /\ rows[j].kind = "job"
  BY <1>1 DEF WorkInv
<1>3. PICK e \in Names : e = ""
  BY ServiceNames
<1>4. PICK row : row = Row("data", rows[j].within, rows[j].key, e, s)
  OBVIOUS
<1>5. rows' = Append(rows, row)
  BY <1>2, <1>3, <1>4 DEF DelegateWrites
<1>6. /\ row.kind = "data" /\ row.within = rows[j].within /\ row.key = rows[j].key /\ row.live
  BY <1>4 DEF Row
<1>7. rows[j].within \in Nat /\ rows[j].key \in Names /\ rows[j].within <= Len(rows)
  BY <1>1, RowTypes DEF Ids, TableInv, Owned
<1>8. row \in Rows
  <2>1. "data" \in Kinds /\ s \in Names
    BY ServiceNames DEF Kinds
  <2>2. QED
    BY <1>4, <1>7, <2>1 DEF Row, Rows
<1>9. Adds(row)
  BY <1>5, <1>6, <1>7, <1>8 DEF Adds
<1>10. QED
  BY <1>6, <1>9

\* Every step of a service keeps the invariant.
LEMMA ServiceActs ==
    ASSUME AdminInv, NEW s \in Services, LocksInv',
           RegisterService(s) \/ DelegateWrites(s) \/ \E j \in Ids : DelegateOpens(s, j)
    PROVE  AdminInv'
<1>1. TableTypes /\ TableInv /\ Logged /\ WorkInv /\ rows \in Seq(Rows)
  BY DEF AdminInv, TableTypes
<1>2. ASSUME UNCHANGED <<rows, trail>>, UNCHANGED control, WorkInv' PROVE AdminInv'
  <2>1. Kept
    BY <1>1, <1>2 DEF Kept
  <2>2. TableTypes' /\ TableInv' /\ Logged'
    BY <1>1, <1>2 DEF TableTypes, TableInv, Logged, Ids
  <2>3. \A q \in Processes : Spares(q)
    BY <1>1, <1>2, NothingNewSpares DEF Ids
  <2>4. QED
    BY <1>2, <2>1, <2>2, <2>3, ServiceSteps
<1>3. CASE RegisterService(s)
  <2>1. PICK row : Adds(row) /\ row.kind = "user" /\ row.key \in Services
    BY <1>3, RegisteringAdds
  <2>2. UNCHANGED <<trail, control, work>> /\ work' \in [Services -> Nat]
    BY <1>1, <1>3 DEF RegisterService, WorkInv
  <2>3. QED
    BY <2>1, <2>2, ServiceAdds
<1>4. CASE DelegateWrites(s)
  <2>1. /\ work' = [work EXCEPT ![s] = None] /\ UNCHANGED control /\ trail' = trail
        /\ work' \in [Services -> Nat]
        /\ \A t \in Services : work'[t] # None => work'[t] = work[t]
    BY <1>1, <1>4 DEF DelegateWrites, WorkInv, None
  <2>2. CASE rows' = rows
    <3>1. WorkInv'
      BY <1>1, <2>1, <2>2 DEF WorkInv, Ids
    <3>2. QED
      BY <1>2, <2>1, <2>2, <3>1
  <2>3. CASE rows' # rows
    <3>1. PICK row : Adds(row) /\ row.kind = "data"
      BY <1>4, <2>3, WritingAdds
    <3>2. QED
      BY <2>1, <3>1, ServiceAdds
  <2>4. QED
    BY <2>2, <2>3
<1>5. ASSUME NEW j \in Ids, DelegateOpens(s, j) PROVE AdminInv'
  <2>1. /\ work' = [work EXCEPT ![s] = j] /\ rows[j].kind = "job"
        /\ UNCHANGED <<rows, trail>> /\ UNCHANGED control
    BY <1>5 DEF DelegateOpens, tables
  <2>2. WorkInv'
    BY <1>1, <2>1 DEF WorkInv, Ids
  <2>3. QED
    BY <1>2, <2>1, <2>2
<1>6. QED
  BY <1>3, <1>4, <1>5

-----------------------------------------------------------------------------
(* It holds of every state *)

\* The invariant holds at first,
LEMMA AdminAtFirst == Init => AdminInv
<1> SUFFICES ASSUME Init PROVE AdminInv
  OBVIOUS
<1>1. rows = Founding /\ trail = <<>>
  BY DEF Init
<1>2. TableTypes
  BY <1>1, FoundingType DEF TableTypes
<1>3. TableInv
  BY <1>1, AdministrationAssumption DEF TableInv
<1>4. /\ todo = [p \in Processes |-> <<>>] /\ step = [p \in Processes |-> "idle"]
      /\ org = [p \in Processes |-> None] /\ found = [p \in Processes |-> {}]
      /\ verdict = [p \in Processes |-> Undecided] /\ answers = [p \in Processes |-> <<>>]
      /\ work = [s \in Services |-> None]
  BY DEF Init
<1>5. ControlTypes
  <2>1. "idle" \in Steps /\ None \in Nat /\ Undecided \in Verdicts
    BY DEF Steps, None, Undecided, Verdicts, Statuses
  <2>2. QED
    BY <1>4, <2>1 DEF ControlTypes
<1>6. Commands
  <2>1. ASSUME NEW p \in Processes PROVE Ready(p) /\ Truth(p)
    <3>1. step[p] = "idle" /\ org[p] = None /\ verdict[p] = Undecided /\ answers[p] = <<>>
      BY <1>4
    <3>2. verdict[p].status = "undecided" /\ verdict[p].row = None
      BY <3>1 DEF Undecided
    <3>3. org[p] <= Len(rows) /\ verdict[p].row <= Len(rows)
      BY <1>2, <3>1, <3>2 DEF TableTypes, None
    <3>4. Ready(p)
      BY <3>1, <3>2, <3>3 DEF Ready
    <3>5. Truth(p)
      <4>1. IsTrue(Current(p), org[p], verdict[p].status, verdict[p].row)
        BY <3>2 DEF IsTrue
      <4>2. DOMAIN answers[p] = {}
        BY <3>1
      <4>3. QED
        BY <4>1, <4>2 DEF Truth
    <3>6. QED
      BY <3>4, <3>5
  <2>2. QED
    BY <2>1 DEF Commands
<1>7. Distinct
  <2>1. \A p \in Processes : verdict[p].status = "undecided" /\ DOMAIN answers[p] = {}
    BY <1>4 DEF Undecided
  <2>2. QED
    BY <2>1 DEF Distinct, Claims
<1>8. WorkInv
  BY <1>4 DEF WorkInv, None
<1>9. Logged
  <2>1. DOMAIN trail = {} /\ Ids = DOMAIN Founding /\ Len(Founding) <= Len(rows)
    BY <1>1, FoundingType DEF Ids
  <2>2. QED
    BY <1>1, <2>1 DEF Logged, Begun
<1>10. QED
  BY <1>2, <1>3, <1>5, <1>6, <1>7, <1>8, <1>9, LocksAtFirst DEF AdminInv

\* every step keeps it,
LEMMA AdminKept == AdminInv /\ [Next]_vars => AdminInv'
<1> SUFFICES ASSUME AdminInv, [Next]_vars PROVE AdminInv'
  OBVIOUS
<1>1. LocksInv'
  BY LocksKept DEF AdminInv
<1>2. ASSUME NEW p \in Processes, Start(p) \/ Acts(p) \/ Dies(p) PROVE AdminInv'
  BY <1>1, <1>2, CommandActs
<1>3. ASSUME NEW s \in Services,
             RegisterService(s) \/ DelegateWrites(s) \/ \E j \in Ids : DelegateOpens(s, j)
      PROVE  AdminInv'
  BY <1>1, <1>3, ServiceActs
<1>4. CASE UNCHANGED vars
  <2>1. /\ UNCHANGED <<rows, trail>> /\ UNCHANGED <<locks, step, todo, org, found, verdict, answers>>
        /\ UNCHANGED work
    BY <1>4 DEF vars
  <2>2. TableTypes /\ TableInv /\ Logged /\ WorkInv /\ rows \in Seq(Rows)
    BY DEF AdminInv, TableTypes
  <2>3. Kept
    BY <2>1, <2>2 DEF Kept
  <2>4. TableTypes' /\ TableInv' /\ Logged' /\ WorkInv'
    BY <2>1, <2>2 DEF TableTypes, TableInv, Logged, Ids, WorkInv
  <2>5. \A q \in Processes : Spares(q)
    BY <2>1, <2>2, NothingNewSpares DEF Ids
  <2>6. UNCHANGED control
    BY <2>1 DEF control
  <2>7. QED
    BY <1>1, <2>3, <2>4, <2>5, <2>6, ServiceSteps
<1>5. QED
  BY <1>2, <1>3, <1>4 DEF Next

\* so it holds of every state.
LEMMA AdminInvariant == Spec => []AdminInv
BY AdminAtFirst, AdminKept, PTL DEF Spec

-----------------------------------------------------------------------------
(* The theorems *)

\* No name is borne twice, although no index says so of organizations, of stores and of
\* connections: the advisory lock lasts from the lookup to the creation, commands that
\* create the same have the same lock, and a lookup that found nothing still finds nothing
\* when its command writes, whatever the others did and wherever one of them died.  The
\* exception is the connection that came after PAGE_LIMIT others of its store, which
\* list_connections may leave out of the page that is searched.
THEOREM NamesUnique == Spec => []NamesAreUnique
<1>1. AdminInv => NamesAreUnique
  BY DEF AdminInv, TableInv, NamesAreUnique
<1>2. QED
  BY <1>1, AdminInvariant, PTL

\* The log tells of every creation and of every revocation once, and of nothing else: an
\* event is appended by the transaction that writes the row, so that a replay, a refusal
\* and a death have none, and a revoked authorization cannot be revoked again.
THEOREM Trail == Spec => []TrailIsExact
<1>1. AdminInv => TrailIsExact
  <2> SUFFICES ASSUME AdminInv PROVE TrailIsExact
    OBVIOUS
  <2>1. Logged
    BY DEF AdminInv
  <2>2. ASSUME NEW k \in DOMAIN trail
        PROVE  Cardinality(EventsOf(trail[k].row, trail[k].action)) = 1
    <3>1. EventsOf(trail[k].row, trail[k].action) = {k}
      BY <2>1 DEF Logged, EventsOf
    <3>2. QED
      BY <3>1, FS_Singleton
  <2>3. ASSUME NEW k \in DOMAIN trail
        PROVE  IF trail[k].action = "revoke" THEN rows[trail[k].row].kind = "authorization"
               ELSE /\ trail[k].by = rows[trail[k].row].by
                    /\ trail[k].row > Len(Founding)
    BY <2>1 DEF Logged
  <2>4. ASSUME NEW i \in Ids \ DOMAIN Founding
        PROVE  (\E k \in DOMAIN trail : trail[k].row = i /\ trail[k].action # "revoke")
                 <=> /\ rows[i].kind \notin {"user", "data"}
                     /\ rows[i].kind = "membership" => rows[i].attr # "owner"
    BY <2>1 DEF Logged, Traced
  <2>5. ASSUME NEW i \in Ids, rows[i].kind = "authorization",
               i \in DOMAIN Founding => Founding[i].live
        PROVE  rows[i].live <=> EventsOf(i, "revoke") = {}
    <3>1. rows[i].live <=>
            \A k \in DOMAIN trail : ~(trail[k].row = i /\ trail[k].action = "revoke")
      BY <2>1, <2>5 DEF Logged, Begun
    <3>2. QED
      BY <3>1 DEF EventsOf
  <2>6. QED
    BY <2>2, <2>3, <2>4, <2>5 DEF TrailIsExact
<1>2. QED
  BY <1>1, AdminInvariant, PTL

\* What a command answers is so, and two commands are never told that they created the same
\* row: the row it names bears the name, the role and the currency that were asked for.  The
\* same request is told of the same row, but for one that ended meanwhile and for
\* connections that the page of list_connections leaves out.
THEOREM AnswersTrue == Spec => []AnswersAreTrue
<1>1. AdminInv => AnswersAreTrue
  <2> SUFFICES ASSUME AdminInv, NEW a \in Answered, NEW b \in Answered
               PROVE  LET x == Given(a)
                          y == Given(b)
                      IN  /\ x.status = "created" => rows[x.row].by = x.request.as
                          /\ /\ x.status \in {"created", "existing"}
                             /\ x.request.op \in {"member", "store"} /\ x.request.attr # ""
                             => rows[x.row].attr = x.request.attr
                          /\ a # b /\ x.status = "created" /\ y.status = "created"
                               => x.row # y.row
                          /\ /\ x.status \in {"created", "existing"}
                             /\ y.status \in {"created", "existing"}
                             /\ x.request = y.request /\ x.within = y.within
                             => \/ x.row = y.row
                                \/ ~rows[x.row].live \/ ~rows[y.row].live
                                \/ Overlooked(rows, x.row) /\ Overlooked(rows, y.row)
    BY DEF AnswersAreTrue
  <2> DEFINE x == Given(a)
             y == Given(b)
  <2>1. PICK p \in Processes, k \in 1 .. 8 : a = <<p, k>> /\ k \in DOMAIN answers[p]
    BY DEF Answered
  <2>2. PICK q \in Processes, l \in 1 .. 8 : b = <<q, l>> /\ l \in DOMAIN answers[q]
    BY DEF Answered
  <2>3. x = answers[p][k] /\ y = answers[q][l]
    BY <2>1, <2>2 DEF Given
  <2>4. /\ IsTrue(x.request, x.within, x.status, x.row)
        /\ IsTrue(y.request, y.within, y.status, y.row)
    BY <2>1, <2>2, <2>3 DEF AdminInv, Commands, Truth
  <2>5. x \in Told /\ y \in Told
    BY <2>1, <2>2, <2>3 DEF AdminInv, ControlTypes
  <2>6. x.row \in Nat /\ y.row \in Nat /\ x.request.op \in Operations
    BY <2>5 DEF Told, Requests
  <2> HIDE DEF x, y
  <2>7. x.status = "created" => rows[x.row].by = x.request.as
    BY <2>4 DEF IsTrue
  <2>8. /\ x.status \in {"created", "existing"}
        /\ x.request.op \in {"member", "store"} /\ x.request.attr # ""
        => rows[x.row].attr = x.request.attr
    BY <2>4 DEF IsTrue
  <2>9. a # b /\ x.status = "created" /\ y.status = "created" => x.row # y.row
    <3>1. SUFFICES ASSUME x.status = "created", y.status = "created", x.row = y.row
                   PROVE  a = b
      OBVIOUS
    <3>2. Claims(p, k, x.row) /\ Claims(q, l, x.row)
      BY <2>1, <2>2, <2>3, <3>1 DEF Claims
    <3>3. k \in Nat /\ l \in Nat
      OBVIOUS
    <3>4. p = q /\ k = l
      BY <2>6, <3>2, <3>3 DEF AdminInv, Distinct
    <3>5. QED
      BY <2>1, <2>2, <3>4
  <2>10. /\ x.status \in {"created", "existing"} /\ y.status \in {"created", "existing"}
         /\ x.request = y.request /\ x.within = y.within
         => \/ x.row = y.row
            \/ ~rows[x.row].live \/ ~rows[y.row].live
            \/ Overlooked(rows, x.row) /\ Overlooked(rows, y.row)
    <3>1. SUFFICES ASSUME x.status \in {"created", "existing"}, y.status \in {"created", "existing"},
                          x.request = y.request, x.within = y.within,
                          rows[x.row].live, rows[y.row].live,
                          ~(Overlooked(rows, x.row) /\ Overlooked(rows, y.row))
                   PROVE  x.row = y.row
      BY Zenon
    <3>2. PICK r, o, i, j : r = x.request /\ o = x.within /\ i = x.row /\ j = y.row
      OBVIOUS
    <3>3. /\ i \in Ids /\ j \in Ids /\ rows[i].live /\ rows[j].live
          /\ IsKind(r.op, rows[i].kind) /\ IsKind(r.op, rows[j].kind)
          /\ rows[i].key = r.key /\ rows[j].key = r.key
          /\ rows[i].within = rows[j].within
          /\ r.op = "organization" => rows[i].by = rows[j].by
      BY <2>4, <3>1, <3>2 DEF IsTrue
    <3>4. rows[i].kind = rows[j].kind /\ rows[i].kind # "data"
          /\ (rows[i].kind = "organization" => r.op = "organization")
      <4>1. rows[i].kind \in Kinds /\ rows[j].kind \in Kinds
        BY <3>3, RowTypes DEF AdminInv, TableTypes, Ids
      <4>2. QED
        BY <3>3, <4>1 DEF IsKind, Locking, Kinds
    <3>5. i = j
      <4>1. rows \in Seq(Rows) /\ ~(Overlooked(rows, i) /\ Overlooked(rows, j))
        BY <3>1, <3>2 DEF AdminInv, TableTypes
      <4>2. /\ i >= j \/ Overlooked(rows, i)
            /\ j >= i \/ Overlooked(rows, j)
        BY <3>3, <3>4 DEF AdminInv, TableInv, NamedOnce, Ids
      <4>3. i >= j
        BY <4>1, <4>2, <3>3, <3>4, OverlookedAfter DEF Ids
      <4>4. j >= i
        BY <4>1, <4>2, <3>3, <3>4, OverlookedAfter DEF Ids
      <4>5. QED
        BY <3>3, <4>3, <4>4 DEF Ids
    <3>6. QED
      BY <3>2, <3>5
  <2>11. QED
    BY <2>7, <2>8, <2>9, <2>10 DEF x, y
<1>2. QED
  BY <1>1, AdminInvariant, PTL

=============================================================================
