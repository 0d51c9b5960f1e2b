---------------------------- MODULE Administration ----------------------------
(***************************************************************************)
(* The administration of organizations: several commands at a time, each a *)
(* sequence of short transactions, create users, organizations, members,   *)
(* stores, connections and jobs, authorize and revoke services, and end    *)
(* memberships and connections, while workers write data on behalf of the  *)
(* members who asked for it.                                               *)
(*                                                                         *)
(* What "create once" means is kept by an advisory lock of the session     *)
(* around a lookup and a creation that are two transactions; the rest, by  *)
(* the unique indexes.  A role is read when a transaction opens, by the    *)
(* statement before the one that writes.  demo_provision is a command of   *)
(* several requests, each of which acts on what the one before answered.   *)
(***************************************************************************)
EXTENDS Integers, Sequences, FiniteSets

CONSTANTS
    Processes,      \* the processes that run a command each
    Names,          \* what rows and requests bear: subjects, slugs, labels, keys, roles, currencies
    Services,       \* the names of the services
    Scripts,        \* Scripts[p]: the sequences of requests that p may run
    Founding,       \* the rows there are before
    PAGE_LIMIT,     \* how many rows list_connections returns at most
    MaxFaults       \* bound: how many processes die

VARIABLES
    rows,       \* every row ever inserted, by identifier
    trail,      \* audit_events
    locks,      \* locks[p]: the scope whose advisory lock p holds, or Free
    step,       \* step[p]: where p is in its current request
    todo,       \* todo[p]: its current request and the next ones
    org,        \* org[p]: the organization its requests name
    found,      \* found[p]: identifiers it read
    verdict,    \* verdict[p]: the answer it is about to give
    answers,    \* answers[p]: the answers it gave
    work,       \* work[s]: the job for which service s has a transaction open, or None
    faults      \* how many processes died

tables == <<rows, trail>>
control == <<locks, step, todo, org, found, verdict, answers>>
vars == <<rows, trail, locks, step, todo, org, found, verdict, answers, work, faults>>

None == 0
Free == <<>>
Undecided == [status |-> "undecided", row |-> None]

Roles == {"viewer", "analyst", "admin", "owner"}
Kinds == {"user", "organization", "membership", "store", "connection", "authorization", "job", "data"}
\* A row is within an organization; a connection, within a store of it.
Rows == [kind : Kinds, within : Nat, key : Names, attr : Names, by : Names, live : BOOLEAN]

Operations == {"user", "organization", "member", "store", "connection", "authorize", "import",
               "revoke", "remove", "disconnect"}

\* A request: what to do, who asks, the name it is about, a role or a currency, and the
\* identifier of a store, if it names one.
Requests == [op : Operations, as : Names, key : Names, attr : Names, store : Nat]
Current(p) == Head(todo[p])

\* The connections of the store of connection i, revoked or not, that came before it, fill
\* the page of list_connections.
Overlooked(table, i) ==
    /\ table[i].kind = "connection"
    /\ Cardinality({k \in 1 .. i - 1 : /\ table[k].kind = "connection"
                                       /\ table[k].within = table[i].within}) >= PAGE_LIMIT

\* No two live rows of one kind bear one name in an organization, or in a store for the
\* connections of the page; the name of an organization is its owner's.
NamedOnce(table) ==
    \A i, j \in DOMAIN table :
        /\ table[i].live /\ table[j].live
        /\ table[i].kind = table[j].kind /\ table[i].kind # "data"
        /\ table[i].within = table[j].within /\ table[i].key = table[j].key
        /\ table[i].kind = "organization" => table[i].by = table[j].by
        => i >= j \/ Overlooked(table, i)

\* An organization has the membership of its owner, and nobody else is an owner there.
Owned(table) ==
    \A i \in DOMAIN table :
        /\ table[i].within <= Len(table)
        /\ table[i].kind = "organization" =>
            /\ table[i].live /\ table[i].within = None
            /\ \E m \in DOMAIN table :
                /\ table[m].kind = "membership" /\ table[m].attr = "owner"
                /\ table[m].within = i /\ table[m].key = table[i].by
        /\ table[i].kind = "membership" => table[i].attr \in Roles
        /\ table[i].kind = "membership" /\ table[i].attr = "owner" =>
            /\ table[i].live /\ table[i].within # None
            /\ table[table[i].within].kind = "organization"
            /\ table[table[i].within].by = table[i].key

ASSUME AdministrationAssumption ==
    /\ Services \cup Roles \cup {"", "human", "service"} \subseteq Names
    /\ \A p \in Processes : Scripts[p] \subseteq Seq(Requests) \ {<<>>}
    /\ PAGE_LIMIT \in Nat
    /\ Founding \in Seq(Rows) /\ NamedOnce(Founding) /\ Owned(Founding)

Ids == 1 .. Len(rows)

Row(kind, o, key, attr, by) ==
    [kind |-> kind, within |-> o, key |-> key, attr |-> attr, by |-> by, live |-> TRUE]

\* The rows that bear a name: that are neither deleted nor revoked.
Named(kind, o, key) ==
    {i \in Ids : /\ rows[i].kind = kind
                 /\ rows[i].within = o
                 /\ rows[i].key = key
                 /\ rows[i].live}

UserNamed(subject) == Named("user", None, subject)

\* fetch_store finds it: no store is deleted.
StoreOf(o, s) == s \in Ids /\ rows[s].kind = "store" /\ rows[s].within = o

\* list_connections: the active ones of a store, in the order of their creation.
Connections(s) ==
    LET active == {i \in Ids : /\ rows[i].kind = "connection"
                               /\ rows[i].within = s
                               /\ rows[i].live}
    IN  {i \in active : Cardinality({k \in active : k < i}) < PAGE_LIMIT}

-----------------------------------------------------------------------------
(* Rights *)

Rank == [none |-> -1, viewer |-> 0, analyst |-> 1, admin |-> 2, owner |-> 3]

\* MINIMUM_ROLE of the permission under which a request writes.
MinimumRole ==
    [member |-> "owner", remove |-> "owner", authorize |-> "owner", revoke |-> "owner",
     store |-> "admin", connection |-> "admin", disconnect |-> "admin", import |-> "analyst"]

RoleIn(subject, o) ==
    LET held == Named("membership", o, subject)
    IN  IF held = {} THEN "none" ELSE rows[CHOOSE i \in held : TRUE].attr

\* TenantSession.transaction: the answer to a refused transaction, or "granted".
Opening(subject, o, role) ==
    IF RoleIn(subject, o) = "none" THEN "not_found"
    ELSE IF Rank[RoleIn(subject, o)] >= Rank[role] THEN "granted" ELSE "forbidden"

Init ==
    /\ rows = Founding
    /\ trail = <<>>
    /\ locks = [p \in Processes |-> Free]
    /\ step = [p \in Processes |-> "idle"]
    /\ todo = [p \in Processes |-> <<>>]
    /\ org = [p \in Processes |-> None]
    /\ found = [p \in Processes |-> {}]
    /\ verdict = [p \in Processes |-> Undecided]
    /\ answers = [p \in Processes |-> <<>>]
    /\ work = [s \in Services |-> None]
    /\ faults = 0

-----------------------------------------------------------------------------
(* The steps of a request *)

Goes(p, next) ==
    /\ step' = [step EXCEPT ![p] = next]
    /\ UNCHANGED <<locks, todo, org, verdict, answers, work, faults>>

\* An answer or an exception; the finally of provisioning_lock comes next.
Decides(p, status, row) ==
    /\ verdict' = [verdict EXCEPT ![p] = [status |-> status, row |-> row]]
    /\ step' = [step EXCEPT ![p] = "leave"]
    /\ UNCHANGED <<locks, todo, org, answers, work, faults>>

\* A transaction opens: it is refused, or the process goes on.
Opens(p, role, next) ==
    LET opening == Opening(Current(p).as, org[p], role)
    IN  /\ UNCHANGED <<tables, found>>
        /\ IF opening = "granted" THEN Goes(p, next) ELSE Decides(p, opening, None)

Start(p) ==
    /\ step[p] = "idle"
    /\ \E script \in Scripts[p], o \in {i \in Ids : rows[i].kind = "organization"} :
            /\ todo' = [todo EXCEPT ![p] = script]
            /\ org' = [org EXCEPT ![p] = o]
    /\ step' = [step EXCEPT ![p] = "resolve"]
    /\ UNCHANGED <<tables, locks, found, verdict, answers, work, faults>>

Locking == {"user", "organization", "member", "store", "connection"}
Requiring == {"store", "connection", "authorize", "revoke", "import"}
ASSIGNABLE_ROLES == {"admin", "analyst", "viewer"}

\* The inputs are valid; the actor exists and is human.
Resolve(p) ==
    LET r == Current(p)
        valid == /\ r.op \in {"user", "member"} => r.key \notin Services
                 /\ r.op = "member" => r.attr \in ASSIGNABLE_ROLES
        actors == UserNamed(r.as)
        next == IF r.op \in Requiring THEN "require" ELSE IF r.op \in Locking THEN "lock" ELSE "check"
    IN  /\ step[p] = "resolve"
        /\ UNCHANGED <<tables, found>>
        /\ IF ~valid THEN Decides(p, "invalid", None)
           ELSE IF r.op = "user" THEN Goes(p, "lock")
           ELSE IF actors = {} THEN Decides(p, "not_found", None)
           ELSE IF \E i \in actors : rows[i].attr = "service" THEN Decides(p, "forbidden", None)
           ELSE Goes(p, next)

\* _require: membership and role, before anything else is told.
Require(p) ==
    /\ step[p] = "require"
    /\ Opens(p, MinimumRole[Current(p).op],
            IF Current(p).op \in Locking THEN "lock" ELSE "find")

\* find_service; get_connection, in a transaction of its own.
Find(p) ==
    LET r == Current(p)
        \* the connection is named by the identifier that was answered, and its store
        known == IF r.op = "import"
                 THEN {i \in found[p] : StoreOf(org[p], r.store) /\ rows[i].within = r.store}
                 ELSE UserNamed(r.key)
    IN  /\ step[p] = "find"
        /\ UNCHANGED <<tables, found>>
        /\ IF known = {} \/ (r.op = "import" /\ RoleIn(r.as, org[p]) = "none")
           THEN Decides(p, "not_found", None)
           ELSE IF \A i \in known : rows[i].live THEN Goes(p, "check")
           ELSE Decides(p, "conflict", None)

\* NamesAreUnique: a lock per actor.
ScopeFaulty(p) ==
    LET r == Current(p)
    IN  IF r.op = "user" THEN <<r.op, None, r.key>> ELSE <<r.op, None, r.as>>

\* The lock is per subject, per owner, or per organization and kind of row.
Scope(p) ==
    LET r == Current(p)
    IN  CASE r.op = "user" -> <<r.op, None, r.key>>
          [] r.op = "organization" -> <<r.op, None, r.as>>
          [] OTHER -> <<r.op, org[p], "">>

\* pg_advisory_lock waits for its turn.
Lock(p) ==
    /\ step[p] = "lock"
    /\ \A q \in Processes : locks[q] # Scope(p)
    /\ locks' = [locks EXCEPT ![p] = Scope(p)]
    /\ step' = [step EXCEPT ![p] = "lookup"]
    /\ UNCHANGED <<tables, todo, org, found, verdict, answers, work, faults>>

\* AnswersAreTrue: the role and the currency are not compared.
SettleFaulty(p, matches) ==
    LET next == IF Current(p).op \in {"user", "organization"} THEN "write" ELSE "check"
    IN  IF matches = {} THEN Goes(p, next)
        ELSE IF Cardinality(matches) > 1 THEN Decides(p, "ambiguous", None)
        ELSE Decides(p, "existing", CHOOSE i \in matches : TRUE)

\* What is there already decides: nothing, one that fits, one that differs, or several.
Settle(p, matches) ==
    LET r == Current(p)
        next == IF r.op \in {"user", "organization"} THEN "write" ELSE "check"
    IN  IF matches = {} THEN Goes(p, next)
        ELSE IF Cardinality(matches) > 1 THEN Decides(p, "ambiguous", None)
        ELSE IF \E i \in matches : r.attr # "" /\ r.op # "user" /\ rows[i].attr # r.attr
             THEN Decides(p, "conflict", None)
        ELSE Decides(p, "existing", CHOOSE i \in matches : TRUE)

\* find_user, list_members and find_user, find_stores_by_name, or list_connections.
Lookup(p) ==
    LET r == Current(p)
        opening == IF r.op = "user" THEN "granted"
                   ELSE Opening(r.as, org[p], IF r.op = "member" THEN "owner" ELSE "viewer")
    IN  /\ step[p] = "lookup"
        /\ r.op # "organization"
        /\ UNCHANGED <<tables, found>>
        /\ IF opening # "granted" THEN Decides(p, opening, None)
           ELSE IF r.op = "member" /\ UserNamed(r.key) = {} THEN Decides(p, "not_found", None)
           ELSE IF r.op = "connection" /\ ~StoreOf(org[p], r.store) THEN Decides(p, "not_found", None)
           ELSE Settle(p, CASE r.op = "user" -> UserNamed(r.key)
                            [] r.op = "member" -> Named("membership", org[p], r.key)
                            [] r.op = "store" -> Named("store", org[p], r.key)
                            [] r.op = "connection" -> {i \in Connections(r.store) : rows[i].key = r.key})

\* organizations_of: the list first,
ListOrganizations(p) ==
    /\ step[p] = "lookup"
    /\ Current(p).op = "organization"
    /\ found' = [found EXCEPT ![p] = {rows[i].within : i \in
            {m \in Ids : rows[m].kind = "membership" /\ rows[m].live /\ rows[m].key = Current(p).as}}]
    /\ Goes(p, "roles")
    /\ UNCHANGED tables

\* then the role in each of them; one that was left meanwhile is an error.
ReadRoles(p) ==
    LET r == Current(p)
    IN  /\ step[p] = "roles"
        /\ found' = [found EXCEPT ![p] = {}]
        /\ UNCHANGED tables
        /\ IF \E o \in found[p] : RoleIn(r.as, o) = "none" THEN Decides(p, "not_found", None)
           ELSE Settle(p, {o \in found[p] : RoleIn(r.as, o) = "owner" /\ rows[o].key = r.key})

\* The transaction that writes opens.
Check(p) ==
    /\ step[p] = "check"
    /\ Opens(p, MinimumRole[Current(p).op], "write")

-----------------------------------------------------------------------------
(* The writes; the audit event is written by the same transaction *)

Event(action, i, by) == [action |-> action, row |-> i, by |-> by]

\* A row and its event, unless its kind has none.
Insert(p, kind, o, traced) ==
    LET r == Current(p)
        i == Len(rows) + 1
    IN  /\ rows' = Append(rows, Row(kind, o, r.key, IF kind = "user" THEN "human" ELSE r.attr, r.as))
        /\ trail' = IF traced THEN Append(trail, Event(r.op, i, r.as)) ELSE trail
        /\ Decides(p, "created", i)

\* One row with this name at most: the unique index finds the other.
InsertOnce(p, kind, o, traced, status) ==
    LET there == Named(kind, o, Current(p).key)
    IN  IF there = {} THEN Insert(p, kind, o, traced)
        ELSE /\ Decides(p, status, CHOOSE i \in there : TRUE)
             /\ UNCHANGED tables

End(p, ended, traced, status) ==
    LET r == Current(p)
    IN  IF ended = {}
        THEN Decides(p, "not_found", None) /\ UNCHANGED tables
        ELSE \E i \in ended :
                /\ rows' = [rows EXCEPT ![i].live = FALSE]
                /\ trail' = IF traced THEN Append(trail, Event(r.op, i, r.as)) ELSE trail
                /\ Decides(p, status, i)

\* TrailIsExact: the hook is called although the authorization was there.
AuthorizeFaulty(p) ==
    LET there == Named("authorization", org[p], Current(p).key)
    IN  IF there = {} THEN Insert(p, "authorization", org[p], TRUE)
        ELSE /\ trail' = Append(trail, Event("authorize", CHOOSE i \in there : TRUE, Current(p).as))
             /\ Goes(p, "reread")
             /\ UNCHANGED rows

\* INSERT ... ON CONFLICT DO NOTHING: the row that was there is read by another statement.
Authorize(p) ==
    IF Named("authorization", org[p], Current(p).key) = {}
    THEN Insert(p, "authorization", org[p], TRUE)
    ELSE Goes(p, "reread") /\ UNCHANGED tables

\* The organization and the membership of its owner.
CreateOrganization(p) ==
    LET r == Current(p)
        i == Len(rows) + 1
    IN  /\ rows' = rows \o <<Row("organization", None, r.key, "", r.as),
                             Row("membership", i, r.as, "owner", r.as)>>
        /\ trail' = Append(trail, Event("organization", i, r.as))
        /\ Decides(p, "created", i)

Write(p) ==
    LET r == Current(p)
        members == {i \in Named("membership", org[p], r.key) : rows[i].attr # "owner"}
        connections == {i \in Named("connection", r.store, r.key) : StoreOf(org[p], r.store)}
    IN  /\ step[p] = "write"
        /\ UNCHANGED found
        /\ \/ r.op = "user" /\ InsertOnce(p, "user", None, FALSE, "created")
           \/ r.op = "organization" /\ CreateOrganization(p)
           \/ r.op = "member" /\ InsertOnce(p, "membership", org[p], TRUE, "conflict")
           \/ r.op = "store" /\ Insert(p, "store", org[p], TRUE)
           \/ r.op = "connection" /\ Insert(p, "connection", r.store, TRUE)
           \/ r.op = "authorize" /\ Authorize(p)
           \/ r.op = "revoke" /\ End(p, Named("authorization", org[p], r.key), TRUE, "revoked")
           \/ r.op = "import" /\ InsertOnce(p, "job", org[p], TRUE, "existing")
           \/ r.op = "remove" /\ End(p, members, FALSE, "removed")
           \/ r.op = "disconnect" /\ End(p, connections, FALSE, "revoked")

\* The SELECT that follows the INSERT in conflict; without a row, a TypeError.
Reread(p) ==
    LET there == Named("authorization", org[p], Current(p).key)
    IN  /\ step[p] = "reread"
        /\ UNCHANGED <<tables, found>>
        /\ IF there = {} THEN Decides(p, "internal", None)
           ELSE Decides(p, "existing", CHOOSE i \in there : TRUE)

Succeeded == {"created", "existing", "revoked", "removed"}

\* demo_provision goes on with the identifier that was answered, or stops.
Answers(p) ==
    LET r == Current(p)
        good == verdict[p].status \in Succeeded
        last == Len(todo[p]) = 1 \/ ~good
    IN  /\ answers' = [answers EXCEPT ![p] =
                Append(@, [request |-> r, within |-> org[p],
                           status |-> verdict[p].status, row |-> verdict[p].row])]
        /\ org' = IF good /\ r.op = "organization" THEN [org EXCEPT ![p] = verdict[p].row] ELSE org
        /\ found' = [found EXCEPT ![p] = IF r.op = "connection" THEN {verdict[p].row} ELSE {}]
        /\ verdict' = [verdict EXCEPT ![p] = Undecided]
        /\ todo' = [todo EXCEPT ![p] = IF last THEN <<>> ELSE Tail(@)]
        /\ step' = [step EXCEPT ![p] = IF last THEN "done" ELSE "resolve"]

\* pg_advisory_unlock, whatever happened; add_member then reads its row again.
Leave(p) ==
    /\ step[p] = "leave"
    /\ locks' = [locks EXCEPT ![p] = Free]
    /\ IF Current(p).op = "member" /\ verdict[p].status = "created" /\ locks[p] # Free
       THEN /\ step' = [step EXCEPT ![p] = "confirm"]
            /\ UNCHANGED <<todo, org, found, verdict, answers>>
       ELSE Answers(p)
    /\ UNCHANGED <<tables, work, faults>>

\* Without the lock: a row that is gone is a StopIteration.
Confirm(p) ==
    LET opening == Opening(Current(p).as, org[p], "owner")
    IN  /\ step[p] = "confirm"
        /\ UNCHANGED <<tables, found>>
        /\ IF opening # "granted" THEN Decides(p, opening, None)
           ELSE IF ~rows[verdict[p].row].live THEN Decides(p, "internal", None)
           ELSE Goes(p, "leave")

\* The process or its connection is lost; the database releases its lock.
Dies(p) ==
    /\ step[p] \notin {"idle", "done"}
    /\ faults < MaxFaults
    /\ faults' = faults + 1
    /\ locks' = [locks EXCEPT ![p] = Free]
    /\ step' = [step EXCEPT ![p] = "done"]
    /\ UNCHANGED <<tables, todo, org, found, verdict, answers, work>>

-----------------------------------------------------------------------------
(* The services *)

\* app_ensure_service_principal, at the first start of a worker.
RegisterService(s) ==
    /\ UserNamed(s) = {}
    /\ rows' = Append(rows, Row("user", None, s, "service", s))
    /\ UNCHANGED <<trail, control, work, faults>>

\* app_service_authorized
Authorized(s, o) == Named("authorization", o, s) # {}

\* delegated_session: a transaction of the requester of job j, by service s.
DelegateOpens(s, j) ==
    /\ work[s] = None
    /\ rows[j].kind = "job"
    /\ Named("data", rows[j].within, rows[j].key) = {}
    /\ Authorized(s, rows[j].within)
    /\ Opening(rows[j].by, rows[j].within, "analyst") = "granted"
    /\ work' = [work EXCEPT ![s] = j]
    /\ UNCHANGED <<tables, control, faults>>

\* The policies *_service_authorized and *_service_delegate_insert.
DelegateMayWrite(s, o, subject) ==
    /\ Authorized(s, o)
    /\ Rank[RoleIn(subject, o)] >= 1

\* A statement of that transaction, which the policies of the table judge anew.
DelegateWrites(s) ==
    /\ work[s] # None
    /\ work' = [work EXCEPT ![s] = None]
    /\ LET j == rows[work[s]]
       IN  rows' = IF DelegateMayWrite(s, j.within, j.by)
                   THEN Append(rows, Row("data", j.within, j.key, "", s)) ELSE rows
    /\ UNCHANGED <<trail, control, faults>>

Acts(p) ==
    \/ Resolve(p) \/ Require(p) \/ Find(p) \/ Lock(p)
    \/ Lookup(p) \/ ListOrganizations(p) \/ ReadRoles(p) \/ Check(p)
    \/ Write(p) \/ Reread(p) \/ Leave(p) \/ Confirm(p)

Next ==
    \/ \E p \in Processes : Start(p) \/ Acts(p) \/ Dies(p)
    \/ \E s \in Services : RegisterService(s) \/ DelegateWrites(s) \/ \E j \in Ids : DelegateOpens(s, j)

Spec == Init /\ [][Next]_vars

-----------------------------------------------------------------------------
(* Properties *)

\* However many commands create it at once, and wherever one dies, there is one user of a
\* subject, one organization of an owner and a name, one store of a name in an organization,
\* one active connection of a label in a store, one membership of a user, one active
\* authorization of a service and one job of a key.  No index says so of organizations,
\* stores and connections.  A connection is created again if it is not on the page that is
\* searched: the label of one that came after PAGE_LIMIT others of its store may be twice.
NamesAreUnique == NamedOnce(rows)

EventsOf(i, action) == {k \in DOMAIN trail : trail[k].row = i /\ trail[k].action = action}

\* The log has one event for each organization, member, store, connection, authorization and
\* job that was created, by whom it was, one for each authorization that was revoked, and no
\* other: a replay, a refusal and a command that died have none.
TrailIsExact ==
    /\ \A k \in DOMAIN trail :
            /\ Cardinality(EventsOf(trail[k].row, trail[k].action)) = 1
            /\ IF trail[k].action = "revoke" THEN rows[trail[k].row].kind = "authorization"
               ELSE /\ trail[k].by = rows[trail[k].row].by
                    /\ trail[k].row > Len(Founding)
    /\ \A i \in Ids \ DOMAIN Founding :
            (\E k \in DOMAIN trail : trail[k].row = i /\ trail[k].action # "revoke")
                <=> /\ rows[i].kind \notin {"user", "data"}
                    /\ rows[i].kind = "membership" => rows[i].attr # "owner"
    /\ \A i \in Ids :
            rows[i].kind = "authorization" /\ (i \in DOMAIN Founding => Founding[i].live)
                => (rows[i].live <=> EventsOf(i, "revoke") = {})

Answered == {a \in Processes \X (1 .. 8) : a[2] \in DOMAIN answers[a[1]]}
Given(a) == answers[a[1]][a[2]]

\* A row that is said to be created was created by that command alone; one that is said to
\* exist has the role or the currency that was asked for; and two commands that ask for the
\* same are told of the same row, unless one was ended, or they are connections out of the page.
AnswersAreTrue ==
    \A a, b \in Answered :
        LET x == Given(a)
            y == Given(b)
        IN  /\ x.status = "created" => rows[x.row].by = x.request.as
            /\ /\ x.status \in {"created", "existing"}
               /\ x.request.op \in {"member", "store"} /\ x.request.attr # ""
               => rows[x.row].attr = x.request.attr
            /\ a # b /\ x.status = "created" /\ y.status = "created" => x.row # y.row
            /\ /\ x.status \in {"created", "existing"} /\ y.status \in {"created", "existing"}
               /\ x.request = y.request /\ x.within = y.within
               => \/ x.row = y.row
                  \/ ~rows[x.row].live \/ ~rows[y.row].live
                  \/ Overlooked(rows, x.row) /\ Overlooked(rows, y.row)

\* No lock outlives its command, however it ends, and nobody waits for a lock with another in
\* hand, so that whoever holds one gets to release it.
LocksAreReleased ==
    \A p \in Processes :
        /\ locks[p] # Free => step[p] \in {"lookup", "roles", "check", "write", "leave"}
        /\ step[p] \in {"lookup", "roles"} => locks[p] = Scope(p)
        /\ \A q \in Processes \ {p} : locks[p] = locks[q] => locks[p] = Free

\* persistence/service.py: "Idempotent: renvoie l'autorisation active".  A revocation between
\* the two statements of the code leaves it without a row, and a TypeError is raised.
AuthorizeIsIdempotent ==
    \A p \in Processes : verdict[p].status = "internal" => Current(p).op # "authorize"
=============================================================================
