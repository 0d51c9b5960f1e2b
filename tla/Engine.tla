------------------------------ MODULE Engine ------------------------------
(***************************************************************************)
(* From the files of a merchant to a report (application/service.py,       *)
(* analytics/pipeline.py, persistence/snapshots.py): the files are read    *)
(* (Ingestion), then analysed at once, or stored as a snapshot, loaded     *)
(* back (SnapshotRows) and analysed (Metrics, Signals).                    *)
(***************************************************************************)
EXTENDS Signals

CONSTANTS
    Grains,        \* the grains an analysis may be asked for
    References     \* the reference days it may be given, or None

VARIABLES
    tables,        \* the rows of the sealed snapshot
    dataset,       \* the dataset analysed
    report         \* its report

engineVars == << export, source, line, book, quality, stage, tables, dataset, report >>

Init ==
    /\ ReadInit
    /\ tables = << >>
    /\ dataset = << >>
    /\ report = << >>

Read == ReadNext /\ UNCHANGED << tables, dataset, report >>

\* write_dataset() inside the transaction that seals the snapshot; one amount the column
\* cannot hold exactly (MoneyPrecisionError), or one key that is there twice, and the
\* import fails.
Store ==
    /\ stage = "read"
    /\ LET written == Tables(DatasetOf(book), quality)
       IN  CASE ~Storable(DatasetOf(book)) -> stage' = "unstorable" /\ UNCHANGED tables
             [] Storable(DatasetOf(book)) /\ ~KeysHold(written) -> stage' = "refused" /\ UNCHANGED tables
             [] OTHER -> stage' = "stored" /\ tables' = written
    /\ UNCHANGED << export, source, line, book, quality, dataset, report >>

\* load_dataset(): what is read back must be what was counted.
Load ==
    /\ stage = "stored"
    /\ LET read == ReadTables(tables)
       IN  IF RecordCounts(read) = tables.counts
           THEN dataset' = [read |-> read, quality |-> QualityFromDocument(tables.quality)]
                /\ stage' = "loaded"
           ELSE dataset' = dataset /\ stage' = "corrupt"
    /\ UNCHANGED << export, source, line, book, quality, tables, report >>

\* run_analysis(): the dataset just read, in memory.
AnalyseFiles ==
    /\ stage = "read"
    /\ dataset' = [read |-> DatasetOf(book), quality |-> quality]
    /\ stage' = "loaded"
    /\ UNCHANGED << export, source, line, book, quality, tables, report >>

\* analyze_loaded_dataset(): a report, or none when the score divides by zero.
Analyse ==
    /\ stage = "loaded"
    /\ \E grain \in Grains, reference \in References :
          IF CancelOut(ProductsSeen(dataset.read, grain, reference))
          THEN stage' = "failed" /\ UNCHANGED report
          ELSE /\ stage' = "reported"
               /\ report' = Report(dataset.read, dataset.quality, grain, reference)
    /\ UNCHANGED << export, source, line, book, quality, tables, dataset >>

Next == Read \/ Store \/ Load \/ AnalyseFiles \/ Analyse

Spec == Init /\ [][Next]_engineVars

-----------------------------------------------------------------------------
(* Reading.                                                                *)

Column(name) == [ i \in DOMAIN export[name] |-> export[name][i].date ]

\* The conventions no cell of a column contradicts.
Consistent(column) ==
    { order \in {DAY_FIRST, MONTH_FIRST} :
        \A i \in DOMAIN column : SlashDateOrder(column[i]) \in {order, "ambiguous", "silent", "invalid"} }

\* The cell says this day under every convention its column allows, and some allows it.
Says(cell, column, day) ==
    \/ cell.form = "iso" /\ cell.day = day
    \/ /\ cell.form = "slash"
       /\ Consistent(column) # {}
       /\ \A order \in Consistent(column) :
             LET d == IF order = DAY_FIRST THEN cell.first ELSE cell.second
                 m == IF order = DAY_FIRST THEN cell.second ELSE cell.first
             IN  IsDate(d, m) /\ DayOf(d, m) = day

\* No date is guessed: whatever is kept carries a day that some line of its file says,
\* and that every reading of the file's column agrees on (D-042).
DatesAreNeverGuessed ==
    /\ \A o \in ToSet(book.orders) : \E i \in DOMAIN export.shopify_orders :
          /\ export.shopify_orders[i].order = o.id
          /\ Says(Column("shopify_orders")[i], Column("shopify_orders"), o.day)
    /\ \A p \in ToSet(book.payments) : \E i \in DOMAIN export.stripe :
          export.stripe[i].id = p.id /\ Says(Column("stripe")[i], Column("stripe"), p.day)
    /\ \A a \in ToSet(book.ads) : \E i \in DOMAIN export.google_ads :
          export.google_ads[i].campaign = a.campaign /\ Says(Column("google_ads")[i], Column("google_ads"), a.day)

\* Reading line by line gives what the file says as a whole: an order is there once if
\* a line that names it has a readable date, it takes its amounts from the first such
\* line, and its articles are the distinct ones of the lines from there on.
OrdersAreTheFiles ==
    LET lines == export.shopify_orders
        order == DetectDateOrder(Column("shopify_orders"))
        Opens(i) == lines[i].order # None /\ ReadDate(lines[i].date, order) # {}
        ids == { lines[i].order : i \in { j \in DOMAIN lines : Opens(j) } }
        First(id) == Min({ i \in DOMAIN lines : lines[i].order = id /\ Opens(i) })
        Articles(id) == { Article(lines[i]) : i \in { j \in DOMAIN lines :
                            j >= First(id) /\ lines[j].order = id /\ OrZero(lines[j].quantity) > 0 } }
    IN  stage \notin {"reading", "rejected"} =>
          /\ Len(book.orders) = Cardinality(ids)
          /\ { o.id : o \in ToSet(book.orders) } = ids
          /\ \A o \in ToSet(book.orders) :
               /\ o.subtotal = OrZero(lines[First(o.id)].subtotal)
               /\ ToSet(o.items) = Articles(o.id)
               /\ Len(o.items) = Cardinality(Articles(o.id))

Most(some, all) == 100 * some >= 95 * all

\* The costs of the products are called reliable only when at least 95 % of the products
\* have one (quality.py: the user must never believe Mervio knows what it does not).  It
\* fails for a file that repeats a product: shopify.py counts its lines with a cost.
CostsAreKnown ==
    LET known == { sku \in DOMAIN book.products : book.products[sku] # None }
    IN  ("product_cogs" \in DOMAIN quality.fields /\ quality.fields["product_cogs"] = "reliable")
        => Most(Cardinality(known), Cardinality(DOMAIN book.products))

\* Whatever the files repeat, no dataset that was read is refused by the unique keys of the
\* tables, and a snapshot gives back the dataset it was sealed with, rank by rank and cent
\* by cent.
SnapshotsComeBack ==
    /\ stage \notin {"refused", "corrupt"}
    /\ dataset # << >> => dataset = [read |-> DatasetOf(book), quality |-> quality]

-----------------------------------------------------------------------------
(* Reporting.                                                              *)

Reported == stage = "reported"
Analysed == dataset.read

\* Over consecutive periods nothing is counted twice nor lost: their revenues add up to
\* that of the orders they span, and so do their new customers.
NothingCountsTwice ==
    Reported =>
      LET periods == PeriodSeries(report.period, Lookback)
          span == [start |-> periods[1].start, end |-> report.period.end]
          within == Window(Analysed, span)
      IN  /\ SumOf(periods, LAMBDA p : TotalRevenue(Window(Analysed, p))) = TotalRevenue(within)
          /\ SumOf(periods, LAMBDA p : NewCustomers(Window(Analysed, p), p)) = NewCustomers(within, span)

AtMostAThousandth(part, whole) ==
    IF whole > 0 THEN 1000 * part <= whole ELSE whole < 0 /\ 1000 * part >= whole

\* A cost is given only when it is whole: the articles sold without a known cost are at
\* most a thousandth of the revenue of all articles, a net one in which articles of a
\* negative price count against the others; the fees and the advertising only when some
\* file says them; and the profitability is scored on nothing less than the cost of the
\* goods and the split of every refund.
CostsAreWhole ==
    Reported =>
      LET window == Window(Analysed, report.period)
          costs == report.profitability.costs
          unpriced == SumOf(Filter(Sold(window), LAMBDA item : ~HasCost(window, item)), LineRevenue)
          sold == SumOf(Sold(window), LineRevenue)
      IN  /\ costs.cogs # None => AtMostAThousandth(unpriced, sold)
          /\ costs.payment_fees # None => \E p \in ToSet(window.payments) : p.fee # None
          /\ costs.advertising # None => window.ads # << >>
          /\ report.health.dimensions.profitability # None => costs.cogs # None /\ costs.refunds # None

\* The ways the refunds of a period may split between products and the rest.
Splits(window) ==
    LET refunds == Filter(window.refunds, LAMBDA r : r.source = "shopify")
        OrderOf(r) == CHOOSE o \in ToSet(window.orders) : o.id = r.order
        Possible(r, part) ==
            LET o == OrderOf(r) IN part <= o.subtotal /\ r.amount - part <= o.total - o.subtotal
    IN  { split \in [DOMAIN refunds -> 0..Max({0} \cup { r.amount : r \in ToSet(refunds) })] :
            \A i \in DOMAIN refunds : split[i] <= refunds[i].amount /\ Possible(refunds[i], split[i]) }

\* Whatever the split of the refunds, if each can be split between the products of its order
\* and the rest, their product part lies within the announced bounds, and the part announced
\* as known is within a rounding of it (D-047).
RefundPartIsBounded ==
    Reported =>
      LET window == Window(Analysed, report.period)
          part == RefundsOnRevenueBasis(window)
      IN  \A split \in Splits(window) :
            /\ part.low <= Total(split) /\ Total(split) <= part.high
            /\ part.value # None => part.value - Total(split) <= Len(split) * Tolerance

\* No unwelcome anomaly is silent: it is an alarm of its own, or evidence of the alarm
\* on the revenue, which then comes first of the critical issues.
AlarmsAreTold ==
    Reported =>
      LET alarms == ToSet(report.critical_issues) \cup ToSet(report.warnings)
      IN  \A a \in ToSet(report.anomalies) : a.assessment = "unfavorable" =>
            \E i \in alarms :
              /\ a.metric \in i.evidence
              /\ i.type[1] = "revenue_decline" => report.critical_issues[1] = i

=============================================================================
