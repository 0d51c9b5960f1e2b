---------------------------- MODULE SnapshotRows ----------------------------
(***************************************************************************)
(* The rows of a sealed snapshot (persistence/snapshots.py _RowWriter and  *)
(* _RowReader, money.py, codec.py): a dataset becomes tables whose rows    *)
(* carry their rank, and the tables become a dataset again.                *)
(*                                                                         *)
(* Rows of a table have no order of their own: a table is a set, and       *)
(* reading it ORDER BY position is what puts the list back.                *)
(***************************************************************************)
EXTENDS Ingestion

CONSTANT Quantum    \* an amount is exact in numeric(19,4) when Quantum divides it

\* compute_customer_index(): the first day each customer ordered.
CustomerIndex(orders) ==
    [ c \in { orders[i].customer : i \in DOMAIN orders } |->
        Min({ orders[i].day : i \in { j \in DOMAIN orders : orders[j].customer = c } }) ]

\* What load_dataset() of the pipeline returns, the locals of the loops left behind.
DatasetOf(b) ==
    [ products |-> b.products, orders |-> b.orders, refunds |-> b.refunds, payments |-> b.payments,
      campaigns |-> b.campaigns, ads |-> b.ads, currency |-> b.currency,
      customer_first_order |-> CustomerIndex(b.orders) ]

\* money_to_db(): an amount the column cannot hold exactly is refused, never rounded.
Exact(amount) == amount = None \/ amount % Quantum = 0

Amounted(ds) ==
    Range(ds.products)
    \cup UNION { {o.subtotal, o.discount, o.shipping, o.tax, o.total} \cup { i.price : i \in ToSet(o.items) }
                 : o \in ToSet(ds.orders) }
    \cup { p.fee : p \in ToSet(ds.payments) } \cup { r.amount : r \in ToSet(ds.refunds) }
    \cup { a.spend : a \in ToSet(ds.ads) }

Storable(ds) == \A amount \in Amounted(ds) : Exact(amount)

Ranked(list) == { [position |-> i - 1, row |-> list[i]] : i \in DOMAIN list }

\* Mutant: the lines of the orders are ranked in their order, but not by order.
OrderLinesFaulty(orders) ==
    { [order_position |-> 0, position |-> p[2] - 1, row |-> orders[p[1]].items[p[2]]] :
        p \in { q \in (DOMAIN orders) \X (1..Max({0} \cup { Len(orders[j].items) : j \in DOMAIN orders })) :
                           q[2] \in DOMAIN orders[q[1]].items } }

\* _order_lines(): a line has no identity but its order's rank and its own.
OrderLines(orders) ==
    UNION { { [order_position |-> i - 1, position |-> k - 1, row |-> orders[i].items[k]] :
                k \in DOMAIN orders[i].items } : i \in DOMAIN orders }

\* quality_to_document(): dictionaries become lists of pairs.
QualityDocument(q) ==
    [ fields |-> { << f, q.fields[f] >> : f \in DOMAIN q.fields }, issues |-> q.issues,
      row_counts |-> { << s, q.rows[s] >> : s \in DOMAIN q.rows },
      observed_currencies |-> { << s, q.currencies[s] >> : s \in DOMAIN q.currencies } ]

FromPairs(pairs) == [ k \in { p[1] : p \in pairs } |-> (CHOOSE p \in pairs : p[1] = k)[2] ]

QualityFromDocument(doc) ==
    [ issues |-> doc.issues, fields |-> FromPairs(doc.fields), rows |-> FromPairs(doc.row_counts),
      currencies |-> FromPairs(doc.observed_currencies) ]

LineCount(orders) == MapThenSumSet(LAMBDA i : Len(orders[i].items), DOMAIN orders)

\* The counts a snapshot is sealed with, and those of what is read back.
RecordCounts(ds) ==
    << Cardinality(DOMAIN ds.products), Len(ds.orders), LineCount(ds.orders), Len(ds.payments),
       Len(ds.refunds), Cardinality(ds.campaigns), Len(ds.ads) >>

\* write_dataset(), with the counts the snapshot is sealed with.
Tables(ds, q) ==
    [ products |-> { << sku, ds.products[sku] >> : sku \in DOMAIN ds.products },
      orders |-> Ranked([ i \in DOMAIN ds.orders |-> [ds.orders[i] EXCEPT !.items = << >>] ]),
      order_lines |-> OrderLines(ds.orders),
      payments |-> Ranked(ds.payments), refunds |-> Ranked(ds.refunds),
      campaigns |-> ds.campaigns, ads |-> Ranked(ds.ads),
      currency |-> ds.currency, quality |-> QualityDocument(q),
      counts |-> RecordCounts(ds) ]

\* A table holds a key once: it has as many keys as rows.
OncePerKey(keys, rows) == Cardinality(keys) = Cardinality(rows)

\* The unique keys of the tables and the reference of a line to its order: a statement
\* that breaks one is refused, and the whole import with it.
KeysHold(t) ==
    /\ \A name \in {"orders", "payments", "refunds", "ads"} : OncePerKey({ r.position : r \in t[name] }, t[name])
    /\ OncePerKey({ r[1] : r \in t.products }, t.products)
    /\ OncePerKey({ r.row.id : r \in t.orders }, t.orders)
    /\ OncePerKey({ << r.order_position, r.position >> : r \in t.order_lines }, t.order_lines)
    /\ OncePerKey({ r.row.id : r \in t.payments }, t.payments)
    /\ OncePerKey({ << r.row.source, r.row.id >> : r \in t.refunds }, t.refunds)
    /\ OncePerKey({ << r.row.campaign, r.row.day >> : r \in t.ads }, t.ads)
    /\ { r.order_position : r \in t.order_lines } \subseteq { r.position : r \in t.orders }

\* SELECT ... ORDER BY position.
InOrder(rows) == [ i \in 1..Cardinality(rows) |-> (CHOOSE r \in rows : r.position = i - 1).row ]

\* orders(): the lines come back by order and rank, and join the order of that rank.
OrdersOf(tables) ==
    LET heads == InOrder(tables.orders)
        LinesOfOrder(i) == { l \in tables.order_lines : l.order_position = i - 1 }
    IN  [ i \in DOMAIN heads |-> [heads[i] EXCEPT !.items = InOrder(LinesOfOrder(i))] ]

\* load_dataset(): refused when what is read is not what was counted.
ReadTables(tables) ==
    [ products |-> FromPairs(tables.products), orders |-> OrdersOf(tables),
      refunds |-> InOrder(tables.refunds), payments |-> InOrder(tables.payments),
      campaigns |-> tables.campaigns, ads |-> InOrder(tables.ads), currency |-> tables.currency,
      customer_first_order |-> CustomerIndex(OrdersOf(tables)) ]
=============================================================================
