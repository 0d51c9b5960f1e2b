-------------------------- MODULE MCAdministration --------------------------
(* Administration with the small sets TLC needs. *)
EXTENDS Administration

CONSTANTS p1, p2, p3

Request(op, as, key, attr) == [op |-> op, as |-> as, key |-> key, attr |-> attr, store |-> 0]
At(store, request) == [request EXCEPT !.store = store]

MCNames ==
    Services \cup Roles
        \cup {"ann", "bob", "eve", "acme", "demo", "den", "shop", "annex", "csv", "old", "files", "EUR", "USD", "",
              "human", "service"}

\* ann owns an organization where bob is an admin.  A page holds one connection: that of the
\* annex, where whatever else is created is overlooked.
MCFounding ==
    <<Row("user", 0, "ann", "human", "ann"),
      Row("organization", 0, "acme", "", "ann"),
      Row("membership", 2, "ann", "owner", "ann"),
      Row("user", 0, "bob", "human", "bob"),
      Row("membership", 2, "bob", "admin", "ann"),
      Row("store", 2, "demo", "EUR", "ann"),
      Row("store", 2, "annex", "EUR", "ann"),
      Row("connection", 7, "old", "", "ann")>>

\* demo_provision, for ann, without the user and the store; an import alone.
Demo ==
    <<Request("organization", "ann", "acme", ""), At(6, Request("connection", "ann", "csv", "")),
      Request("authorize", "ann", "svc", ""), At(6, Request("import", "ann", "files", ""))>>

Import ==
    <<At(6, Request("connection", "ann", "csv", "")), At(6, Request("import", "bob", "files", ""))>>
Alone(op, as, key, attr) == <<Request(op, as, key, attr)>>
Annex == <<At(7, Request("connection", "ann", "csv", ""))>>

MCScripts ==
    [p \in Processes |->
        CASE p = p1 -> {Demo, Annex, Alone("store", "ann", "shop", "EUR"), Alone("member", "ann", "eve", "viewer"),
                        Alone("organization", "ann", "demo", "")}
          [] p = p2 -> {Import, Annex, Alone("authorize", "ann", "svc", ""), Alone("store", "ann", "shop", ""),
                        Alone("organization", "ann", "demo", ""), Alone("organization", "bob", "den", ""),
                        Alone("user", "eve", "eve", "")}
          [] p = p3 -> {Alone("remove", "ann", "bob", ""), Alone("revoke", "ann", "svc", ""),
                        <<At(6, Request("disconnect", "ann", "csv", ""))>>, Alone("user", "eve", "eve", ""),
                        Alone("member", "ann", "eve", "admin"), Alone("store", "bob", "shop", "USD")}]
==========================
