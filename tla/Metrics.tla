------------------------------ MODULE Metrics ------------------------------
(***************************************************************************)
(* The figures of one period (analytics/kpi.py, profitability.py and       *)
(* timeseries.py): KPIs, costs, products, campaigns and comparisons, each  *)
(* with what it rests on.                                                  *)
(*                                                                         *)
(* A figure is None when it is not known, otherwise a reduced fraction     *)
(* [n |-> numerator, d |-> denominator > 0]: the floats of the code, of     *)
(* which only comparisons and exact sums matter here.                      *)
(***************************************************************************)
EXTENDS SnapshotRows

CONSTANT TopCustomers     \* how many customers the concentration looks at (5 in the code)

-----------------------------------------------------------------------------
(* Fractions.                                                              *)

Magnitude(n) == IF n < 0 THEN -n ELSE n

Over(n, d, by) == [n |-> n \div by, d |-> d \div by]
CommonDivisor(n, d) == Max({ k \in 1..Max({Magnitude(d), 1}) : n % k = 0 /\ d % k = 0 })
Fraction(n, d) == Over(n, d, IF d < 0 THEN -CommonDivisor(n, d) ELSE CommonDivisor(n, d))

Whole(n) == [n |-> n, d |-> 1]
Plus(a, b) == Fraction(a.n * b.d + b.n * a.d, a.d * b.d)
Minus(a, b) == Fraction(a.n * b.d - b.n * a.d, a.d * b.d)
Times(a, b) == Fraction(a.n * b.n, a.d * b.d)
AtMost(a, b) == a.n * b.d <= b.n * a.d
Below(a, b) == a.n * b.d < b.n * a.d
AbsOf(a) == [n |-> Magnitude(a.n), d |-> a.d]

\* A quotient of the code: None when there is nothing to divide by.
Quotient(a, b) == IF a = None \/ b = None THEN None
                  ELSE IF b.n = 0 THEN None ELSE Fraction(a.n * b.d, a.d * b.n)

FractionSum(list) == FoldSeq(Plus, Whole(0), list)

-----------------------------------------------------------------------------
(* Dataset.window(): the events of a period; the products, the campaigns    *)
(* and the index of customers are those of the whole history.              *)

Window(ds, period) ==
    LET Within(e) == InPeriod(e.day, period)
    IN  [ds EXCEPT !.orders = Filter(@, Within), !.payments = Filter(@, Within),
                   !.refunds = Filter(@, Within), !.ads = Filter(@, Within)]

TotalRevenue(ds) == SumOf(ds.orders, LAMBDA o : o.subtotal)
TotalRefunds(ds) == SumOf(ds.refunds, LAMBDA r : IF r.source = "shopify" THEN r.amount ELSE 0)
TotalSpend(ds) == SumOf(ds.ads, LAMBDA a : a.spend)
TotalClicks(ds) == SumOf(ds.ads, LAMBDA a : a.clicks)

\* total_payment_fees(): None unless some payment says its fee.
PaymentFees(ds) ==
    IF \A i \in DOMAIN ds.payments : ds.payments[i].fee = None THEN None
    ELSE SumOf(ds.payments, LAMBDA p : OrZero(p.fee))

LineRevenue(item) == item.quantity * item.price
SkuOf(item) == IF item.sku = None THEN "UNKNOWN" ELSE item.sku
HasCost(ds, item) == item.sku \in DOMAIN ds.products /\ ds.products[item.sku] # None

\* The articles sold, order after order.
Sold(ds) == Flatten([ i \in DOMAIN ds.orders |-> ds.orders[i].items ])
WithCost(ds, items) == Filter(items, LAMBDA item : HasCost(ds, item))
CostOf(ds, items) == SumOf(WithCost(ds, items), LAMBDA item : item.quantity * ds.products[item.sku])

\* known_cogs(): the cost known, the revenue it covers, the revenue of all articles.
KnownCogs(ds) ==
    [ cogs |-> CostOf(ds, Sold(ds)), covered |-> SumOf(WithCost(ds, Sold(ds)), LineRevenue),
      total |-> SumOf(Sold(ds), LineRevenue) ]

CustomersOf(ds) == { o.customer : o \in ToSet(ds.orders) }
OrdersOfCustomer(ds, c) == { i \in DOMAIN ds.orders : ds.orders[i].customer = c }
RevenueOf(ds, c) == MapThenSumSet(LAMBDA i : ds.orders[i].subtotal, OrdersOfCustomer(ds, c))

\* new_customers(): those whose first order ever falls in the period.
NewCustomers(ds, period) ==
    Cardinality({ c \in CustomersOf(ds) : InPeriod(ds.customer_first_order[c], period) })

TopRevenue(ds) ==
    LET ranked == SetToSortSeq({ << RevenueOf(ds, c), c >> : c \in CustomersOf(ds) },
                               LAMBDA a, b : a[1] > b[1])
    IN  MapThenSumSet(LAMBDA i : ranked[i][1], 1..Min({TopCustomers, Len(ranked)}))

-----------------------------------------------------------------------------
(* compute_kpis(): every figure with its status.                           *)

\* A part reaches a share, in thousandths, of a whole: their quotient does, which is zero
\* when there is no whole.  No sign is taken for granted: the price of an article may be
\* negative, and so may the revenue of all of them.
Reaches(part, whole, share) ==
    \/ whole > 0 /\ 1000 * part >= share * whole
    \/ whole < 0 /\ 1000 * part <= share * whole

Kpi(value, status) == [value |-> value, status |-> status]
KnownAs(value, status) == Kpi(value, IF value = None THEN "unavailable" ELSE status)
StatusOf(q, field) == IF field \in DOMAIN q.fields THEN q.fields[field] ELSE "unavailable"

Kpis(ds, q, period) ==
    LET kinds == { issue[2] : issue \in q.issues }
        revenue == Whole(TotalRevenue(ds))
        orders == Whole(Len(ds.orders))
        refunds == Whole(TotalRefunds(ds))
        spend == Whole(TotalSpend(ds))
        clicks == Whole(TotalClicks(ds))
        newcomers == Whole(NewCustomers(ds, period))
        known == KnownCogs(ds)
        covers == known.covered * known.total > 0
        margin == IF covers THEN Fraction(known.covered - known.cogs, known.covered) ELSE None
        coverage == IF ~covers THEN "unavailable"
                    ELSE IF Reaches(known.covered, known.total, 950) THEN "reliable" ELSE "incomplete"
        customers == CustomersOf(ds)
        repeat == { c \in customers : Cardinality(OrdersOfCustomer(ds, c)) > 1 }
        fees == PaymentFees(ds)
    IN  [ revenue |-> Kpi(revenue, IF revenue.n < 0 \/ "subtotal_convention_contradiction" \in kinds
                                   THEN "incomplete" ELSE "reliable"),
          orders |-> Kpi(orders, "reliable"),
          units |-> Kpi(Whole(SumOf(Sold(ds), LAMBDA item : item.quantity)), "reliable"),
          aov |-> KnownAs(Quotient(revenue, orders), "reliable"),
          refunds |-> Kpi(refunds, "reliable"),
          refund_rate |-> KnownAs(Quotient(refunds, Whole(SumOf(ds.orders, LAMBDA o : o.total))),
                                  IF "missing_order_total" \in kinds THEN "incomplete" ELSE "reliable"),
          ad_spend |-> Kpi(spend, "incomplete"),
          clicks |-> Kpi(clicks, "incomplete"),
          paid_conversion_rate |-> KnownAs(Quotient(orders, clicks), "incomplete"),
          new_customers |-> Kpi(newcomers, StatusOf(q, "customer_identity")),
          cac |-> KnownAs(IF ds.ads = << >> THEN None ELSE Quotient(spend, newcomers), "incomplete"),
          roas |-> KnownAs(Quotient(revenue, spend), "incomplete"),
          gross_margin |-> Kpi(margin, coverage),
          cogs |-> Kpi(IF covers THEN Whole(known.cogs) ELSE None, coverage),
          payment_fees |-> Kpi(IF fees = None THEN None ELSE Whole(fees), StatusOf(q, "payment_fees")),
          repeat_purchase_rate |->
              KnownAs(Quotient(Whole(Cardinality(repeat)), Whole(Cardinality(customers))), "incomplete"),
          customer_concentration_top5 |->
              Kpi(Quotient(Whole(TopRevenue(ds)), revenue), StatusOf(q, "customer_identity")) ]

-----------------------------------------------------------------------------
(* Products and campaigns.                                                 *)

ProductPerformance(ds) ==
    LET Of(sku) == Filter(Sold(ds), LAMBDA item : SkuOf(item) = sku)
    IN  [ sku \in { SkuOf(item) : item \in ToSet(Sold(ds)) } |->
            LET revenue == SumOf(Of(sku), LineRevenue)
                cogs == IF WithCost(ds, Of(sku)) = << >> THEN None ELSE CostOf(ds, Of(sku))
            IN  [ revenue |-> revenue, cogs |-> cogs,
                  gross_margin |-> IF cogs = None \/ revenue = 0 THEN None
                                   ELSE Fraction(revenue - cogs, revenue) ] ]

CampaignPerformance(ds) ==
    LET Of(c) == { i \in DOMAIN ds.ads : ds.ads[i].campaign = c }
    IN  [ c \in { a.campaign : a \in ToSet(ds.ads) } |->
            [ spend |-> MapThenSumSet(LAMBDA i : ds.ads[i].spend, Of(c)),
              conversions |-> MapThenSumSet(LAMBDA i : ds.ads[i].conversions, Of(c)) ] ]

-----------------------------------------------------------------------------
(* Profitability: what a refund takes back from the revenue is bounded by   *)
(* what was invoiced, and known only when the bounds meet.                 *)

\* A refund that its order cannot explain: unknown order, negative subtotal, total
\* below the subtotal or below the refund.
Incoherent(amount, subtotal, total) ==
    subtotal < 0 \/ total + Tolerance < subtotal \/ amount > total + Tolerance

\* Mutant: the whole refund is taken as a refund of products.
PartLowFaulty(amount, subtotal, total) == IF amount < subtotal THEN amount ELSE subtotal

PartLow(amount, subtotal, total) ==
    IF amount - (total - subtotal) > 0 THEN amount - (total - subtotal) ELSE 0
PartHigh(amount, subtotal) == IF amount < subtotal THEN amount ELSE subtotal

\* The bounds of one refund: [low, high], and whether they leave it undetermined.
RefundPart(ds, refund) ==
    LET orders == { o \in ToSet(ds.orders) : o.id = refund.order }
        order == CHOOSE o \in orders : TRUE
        low == PartLow(refund.amount, order.subtotal, order.total)
        high == PartHigh(refund.amount, order.subtotal)
    IN  IF orders = {} THEN [low |-> 0, high |-> refund.amount, open |-> TRUE]
        ELSE IF Incoherent(refund.amount, order.subtotal, order.total)
        THEN [low |-> 0, high |-> refund.amount, open |-> TRUE]
        ELSE [low |-> IF low < high THEN low ELSE high, high |-> high, open |-> high - low > Tolerance]

RefundsOnRevenueBasis(ds) ==
    LET refunds == Filter(ds.refunds, LAMBDA r : r.source = "shopify")
        low == SumOf(refunds, LAMBDA r : RefundPart(ds, r).low)
        high == SumOf(refunds, LAMBDA r : RefundPart(ds, r).high)
        open == { i \in DOMAIN refunds : RefundPart(ds, refunds[i]).open }
    IN  [ value |-> IF open = {} THEN high ELSE None, low |-> low, high |-> high ]

Components == {"cogs", "payment_fees", "advertising", "refunds", "shipping_cost"}

\* Mutant: a cost known for a part of the articles stands for all of them.
CogsComponentFaulty(known) == IF known.covered > 0 THEN known.cogs ELSE None

\* The cost of the goods is complete when it covers 99.9 % of the articles' revenue.
CogsComponent(known) == IF Reaches(known.covered, known.total, 999) THEN known.cogs ELSE None

\* The costs of a period; the carrier's cost is in no export.
Costs(ds) ==
    [ cogs |-> CogsComponent(KnownCogs(ds)), payment_fees |-> PaymentFees(ds),
      advertising |-> IF ds.ads = << >> THEN None ELSE TotalSpend(ds),
      refunds |-> RefundsOnRevenueBasis(ds).value, shipping_cost |-> None ]

\* What the known costs leave of the revenue.
MarginOn(revenue, costs, included) ==
    IF revenue = 0 \/ included = {} THEN None
    ELSE Fraction(revenue - MapThenSumSet(LAMBDA k : costs[k], included), revenue)

\* compute_profitability(): complete, or partial with what it leaves out, or nothing.
ProfitabilityFrom(revenue, costs, included) ==
    LET complete == included = Components /\ revenue # 0
        margin == MarginOn(revenue, costs, included)
    IN  [ costs |-> costs, missing |-> Components \ included, data_available |-> complete,
          contribution_margin |-> IF complete THEN margin ELSE None, partial_margin |-> margin ]

Known(costs) == { k \in Components : costs[k] # None }
ProfitabilityOf(revenue, costs) == ProfitabilityFrom(revenue, costs, Known(costs))
Profitability(ds) == ProfitabilityOf(TotalRevenue(ds), Costs(ds))

-----------------------------------------------------------------------------
(* Series and comparisons.                                                 *)

SeriesMetrics == {"revenue", "orders", "aov", "ad_spend", "paid_clicks",
                  "paid_conversion_rate", "roas", "refunds"}

MetricOf(ds, name) ==
    LET revenue == Whole(TotalRevenue(ds))
        orders == Whole(Len(ds.orders))
    IN  CASE name = "revenue" -> revenue
          [] name = "orders" -> orders
          [] name = "aov" -> Quotient(revenue, orders)
          [] name = "ad_spend" -> Whole(TotalSpend(ds))
          [] name = "paid_clicks" -> Whole(TotalClicks(ds))
          [] name = "paid_conversion_rate" -> Quotient(orders, Whole(TotalClicks(ds)))
          [] name = "roas" -> Quotient(revenue, Whole(TotalSpend(ds)))
          [] name = "refunds" -> Whole(TotalRefunds(ds))

Series(ds, latest, count, name) ==
    LET periods == PeriodSeries(latest, count)
    IN  [ i \in 1..count |-> MetricOf(Window(ds, periods[i]), name) ]

\* pct_change(): relative to the size of the earlier value.
PctChange(current, previous) ==
    IF current = None \/ previous = None THEN None ELSE Quotient(Minus(current, previous), AbsOf(previous))

\* compare(): nothing is compared with a period that has no order and no advertising.
Comparison(ds, period, reference, name) ==
    LET before == Window(ds, reference)
    IN  IF before.orders = << >> /\ before.ads = << >>
        THEN [available |-> FALSE, pct_change |-> None]
        ELSE [available |-> TRUE,
              pct_change |-> PctChange(MetricOf(Window(ds, period), name), MetricOf(before, name))]

\* compare_all(), for one metric: the period before, then the year before.
Comparisons(ds, period, name) ==
    << Comparison(ds, period, PreviousPeriod(period), name),
       Comparison(ds, period, YearOverYearPeriod(period), name) >>
=============================================================================
