------------------------------ MODULE Signals ------------------------------
(***************************************************************************)
(* What the figures say (analytics/anomaly.py, root_cause.py, insights.py, *)
(* health.py and report.py): anomalies against a rolling baseline, the     *)
(* decomposition of the revenue, the insights they become, the score, and  *)
(* the report that carries them.                                           *)
(*                                                                         *)
(* The sentences are left out: an insight is its type (with the metric of  *)
(* an anomaly), its severity, its category, the metrics it takes as        *)
(* evidence, and its confidence in hundredths; each recommends something.  *)
(* Logarithms are only ever compared: |ln a| <= |ln b| is       *)
(* decided on the ratios themselves.  The thresholds are those of          *)
(* AnomalyConfig and HealthConfig, in hundredths.                          *)
(***************************************************************************)
EXTENDS Metrics

CONSTANTS
    Lookback,            \* lookback_periods
    BaselineWindow,      \* baseline_window
    MinBaselinePeriods,  \* min_baseline_periods
    One                  \* the amount 1.0

\* A configuration asks for at least two periods; the calendar of the model has twelve months
\* before the first date, which is what lookback_periods is unless it is set.
ASSUME LookbackAssumption == Lookback \in 2..12

Percent(n) == [n |-> n, d |-> 100]

-----------------------------------------------------------------------------
(* detect_anomalies(): the last known point against the mean of those      *)
(* before it.                                                              *)

MeanOf(values) == Quotient(FractionSum(values), Whole(Len(values)))
Variance(values) ==
    Minus(MeanOf([ i \in DOMAIN values |-> Times(values[i], values[i]) ]),
          Times(MeanOf(values), MeanOf(values)))

\* A move is an anomaly from 8 % on when it is large, or far from the spread.
Rated(delta, expected, variance) ==
    LET ZAtLeast(z) == variance.n > 0 /\ AtMost(Times(Whole(z * z), variance), Times(delta, delta))
        PctAtLeast(p) == expected.n # 0 /\ AtMost(Percent(p), AbsOf(Fraction(delta.n * expected.d, delta.d * expected.n)))
    IN  IF PctAtLeast(8) /\ (PctAtLeast(15) \/ ZAtLeast(2))
        THEN << [ direction |-> IF delta.n < 0 THEN "down" ELSE "up",
                  severity |-> IF PctAtLeast(30) \/ ZAtLeast(3) THEN "high" ELSE "medium" ] >>
        ELSE << >>

Against(current, baseline, expected) ==
    Rated(Minus(current, expected), expected,
          IF Len(baseline) >= MinBaselinePeriods THEN Variance(baseline) ELSE Whole(0))

LastAgainst(current, baseline) == Against(current, baseline, MeanOf(baseline))

AnomalyAmong(values) ==
    LET n == Len(values)
    IN  IF n < 2 THEN << >>
        ELSE LastAgainst(values[n], SubSeq(values, Max({1, n - BaselineWindow}), n - 1))

AnomalyOf(points) == AnomalyAmong(Filter(points, LAMBDA v : v # None))

\* Which way of each metric is welcome.
Assessment(metric, direction) ==
    CASE metric \in {"ad_spend", "paid_clicks"} -> "neutral"
      [] metric = "refunds" -> IF direction = "down" THEN "favorable" ELSE "unfavorable"
      [] OTHER -> IF direction = "up" THEN "favorable" ELSE "unfavorable"

\* The order in which the metrics are watched (SERIES_METRICS).
Watched == << "revenue", "orders", "aov", "ad_spend", "paid_clicks",
              "paid_conversion_rate", "roas", "refunds" >>

Anomaly(metric, found) ==
    Mapped(found, LAMBDA k, a : [ metric |-> metric, direction |-> a.direction, severity |-> a.severity,
                                  assessment |-> Assessment(metric, a.direction) ])

Anomalies(ds, period) ==
    Flatten([ w \in DOMAIN Watched |-> Anomaly(Watched[w], AnomalyOf(Series(ds, period, Lookback, Watched[w]))) ])

-----------------------------------------------------------------------------
(* analyse_revenue_change(): which factor moved with the revenue the most.  *)

\* |ln r| as a ratio at least one.
Spread(r) == IF r.n >= r.d THEN r ELSE [n |-> r.d, d |-> r.n]

Factors == << "paid_traffic", "conversion_rate", "average_order_value" >>

FactorValue(ds, factor) ==
    MetricOf(ds, CASE factor = "paid_traffic" -> "paid_clicks"
                   [] factor = "conversion_rate" -> "paid_conversion_rate"
                   [] factor = "average_order_value" -> "aov")

\* The ratio of a factor between the periods; None when it cannot be evaluated.
RatioOf(v1, v0) ==
    IF v1 = None \/ v0 = None THEN None
    ELSE IF v1.n <= 0 \/ v0.n <= 0 THEN None ELSE Quotient(v1, v0)

FactorRatios(now, before) ==
    [ i \in DOMAIN Factors |-> RatioOf(FactorValue(now, Factors[i]), FactorValue(before, Factors[i])) ]

\* The factor that moved the most, the first of them when several did; a contribution is
\* a share of ln(r1 / r0): none when the revenue has not moved.
Leading(ratios, ranked) ==
    IF ranked = {} THEN "none"
    ELSE Factors[Min({ i \in ranked : \A j \in ranked : AtMost(Spread(ratios[j]), Spread(ratios[i])) })]
Primary(ratios) == Leading(ratios, { i \in DOMAIN Factors : ratios[i] # None })

CampaignDelta(now, before, c) ==
    LET Of(campaigns) == IF c \in DOMAIN campaigns THEN campaigns[c].conversions ELSE 0
    IN  Of(now) - Of(before)

CampaignDeltas(now, before) ==
    [ c \in DOMAIN now \cup DOMAIN before |-> CampaignDelta(now, before, c) ]

Explained(now, before, r1, r0) ==
    IF r0 > 0 /\ r1 > 0
    THEN [ available |-> TRUE,
           primary |-> IF r1 = r0 THEN "none" ELSE Primary(FactorRatios(now, before)),
           campaigns |-> CampaignDeltas(CampaignPerformance(now), CampaignPerformance(before)) ]
    ELSE [ available |-> FALSE, primary |-> "none", campaigns |-> << >> ]

CauseBetween(now, before) == Explained(now, before, TotalRevenue(now), TotalRevenue(before))
RootCause(ds, period) == CauseBetween(Window(ds, period), Window(ds, PreviousPeriod(period)))

-----------------------------------------------------------------------------
(* build_insights(): the anomalies become alarms, the revenue's first.     *)

Decomposition == {"orders", "aov", "paid_conversion_rate", "paid_clicks", "roas"}

Insight(type, severity, category, evidence, confidence) ==
    [ type |-> type, severity |-> severity, category |-> category,
      evidence |-> evidence, confidence |-> confidence ]

\* Mutant: the metrics of the decomposition are dropped whatever the revenue does.
AttachedFaulty(anomalies) == { i \in DOMAIN anomalies : anomalies[i].metric \in Decomposition }

\* The anomalies that become evidence of a decline of the revenue.
Attached(anomalies) ==
    { i \in DOMAIN anomalies :
        /\ anomalies[i].metric \in Decomposition
        /\ \E j \in DOMAIN anomalies : anomalies[j].metric = "revenue" /\ anomalies[j].direction = "down" }

\* The confidence of a decline is that of its cause, a logarithm; nothing compares it, since
\* a decline leads whatever it is, and 40 stands for it.
RevenueInsights(anomalies, cause) ==
    LET declines == Filter(anomalies, LAMBDA a : a.metric = "revenue" /\ a.direction = "down")
        evidence == {"revenue"} \cup { anomalies[i].metric : i \in Attached(anomalies) }
                    \cup ({cause.primary} \ {"none"})
    IN  Mapped(declines, LAMBDA i, a :
            Insight(<< "revenue_decline", "" >>, a.severity, "critical_issue", evidence, 40))

\* An anomaly of its own: welcome, neither good nor bad, or an alarm.
OwnInsight(a) ==
    CASE a.assessment = "favorable" -> Insight(<< "anomaly", a.metric >>, "info", "opportunity", {a.metric}, 45)
      [] a.assessment = "neutral" -> Insight(<< "anomaly", a.metric >>, "low", "warning", {a.metric}, 45)
      [] OTHER -> Insight(<< "anomaly", a.metric >>, a.severity,
                          IF a.severity = "high" THEN "critical_issue" ELSE "warning", {a.metric}, 45)

OtherInsights(anomalies) ==
    LET own == { i \in DOMAIN anomalies : i \notin Attached(anomalies) /\ anomalies[i].metric # "revenue" }
    IN  Mapped(Picked(anomalies, own), LAMBDA i, a : OwnInsight(a))

\* What the figures themselves say: missing costs, thin margins, few customers, a
\* campaign on the rise.
FigureInsights(kpis, profit, products, cause) ==
    LET thin == { sku \in DOMAIN products :
                    /\ products[sku].gross_margin # None
                    /\ Below(products[sku].gross_margin, Percent(20))
                    /\ products[sku].revenue > 0 }
        concentration == kpis.customer_concentration_top5.value
        rising == { c \in DOMAIN cause.campaigns : cause.campaigns[c] > 0 }
        concentrated == IF concentration = None THEN FALSE ELSE AtMost(Percent(40), concentration)
        When(condition, insight) == IF condition THEN << insight >> ELSE << >>
    IN  When(~profit.data_available,
             Insight(<< "profitability_unavailable", "" >>, "medium", "warning", profit.missing, 90))
        \o [ i \in 1..Cardinality(thin) |-> Insight(<< "low_margin_product", "" >>, "medium", "warning", {}, 70) ]
        \o When(concentrated, Insight(<< "customer_concentration", "" >>, "medium", "warning", {}, 60))
        \o When(rising # {}, Insight(<< "campaign_opportunity", "" >>, "info", "opportunity", {}, 40))

SeverityRank(i) == CASE i.severity = "high" -> 0 [] i.severity = "medium" -> 1
                     [] i.severity = "low" -> 2 [] OTHER -> 3

\* The decline of the revenue leads, then severity, then confidence; ties keep their order.
Insights(kpis, anomalies, cause, profit, products) ==
    LET all == RevenueInsights(anomalies, cause) \o OtherInsights(anomalies)
               \o FigureInsights(kpis, profit, products, cause)
        Key(i) == (IF all[i].type[1] = "revenue_decline" THEN 0 ELSE 100000)
                  + 10000 * SeverityRank(all[i]) + 10 * (100 - all[i].confidence)
    IN  Sorted(all, { p \in (DOMAIN all) \X (DOMAIN all) :
                        Key(p[1]) < Key(p[2]) \/ (Key(p[1]) = Key(p[2]) /\ p[1] < p[2]) })

-----------------------------------------------------------------------------
(* compute_business_health(): a dimension that cannot be computed is        *)
(* excluded, and its weight goes to the others.  Scores are in tenths of a  *)
(* point, truncated.                                                       *)

\* The thresholds, << value in hundredths, score >>.
Thresholds(dimension) ==
    CASE dimension = "revenue_growth" -> << <<-25, 0>>, <<-10, 40>>, <<0, 70>>, <<10, 100>> >>
      [] dimension = "profitability" -> << <<-5, 0>>, <<0, 20>>, <<5, 45>>, <<15, 75>>, <<25, 100>> >>
      [] dimension = "marketing_efficiency" -> << <<50, 0>>, <<100, 25>>, <<200, 55>>, <<300, 80>>, <<400, 100>> >>
      [] dimension = "customer_health" -> << <<0, 10>>, <<10, 45>>, <<20, 75>>, <<30, 100>> >>
      [] dimension = "product_health" -> << <<10, 0>>, <<25, 45>>, <<40, 75>>, <<55, 100>> >>

Weight(dimension) ==
    CASE dimension = "profitability" -> 25
      [] dimension \in {"revenue_growth", "marketing_efficiency"} -> 20
      [] dimension = "customer_health" -> 15
      [] dimension \in {"product_health", "data_quality"} -> 10

\* The line between the threshold k and the next one.
Between(value, t, k) ==
    10 * t[k][2] + (10 * (t[k + 1][2] - t[k][2]) * (100 * value.n - t[k][1] * value.d))
                   \div (value.d * (t[k + 1][1] - t[k][1]))

OnScale(value, t) ==
    IF AtMost(value, Percent(t[1][1])) THEN 10 * t[1][2]
    ELSE IF AtMost(Percent(t[Len(t)][1]), value) THEN 10 * t[Len(t)][2]
    ELSE Between(value, t, Min({ k \in 1..(Len(t) - 1) : AtMost(value, Percent(t[k + 1][1])) }))

ScoreOf(value, dimension) == IF value = None THEN None ELSE OnScale(value, Thresholds(dimension))

\* Not scored when a major cost is missing: it would reward the absence of data.
ProfitabilityValue(profit) ==
    IF profit.contribution_margin # None THEN profit.contribution_margin
    ELSE IF profit.missing \cap {"cogs", "refunds"} # {} THEN None ELSE profit.partial_margin

\* The products whose margin is known, and the revenue of some products.
WithMargin(products) == { sku \in DOMAIN products : products[sku].gross_margin # None }
RevenueOfProducts(products, some) == MapThenSumSet(LAMBDA sku : products[sku].revenue, some)

\* Revenues of both signs that cancel out: the weighted margin divides by zero, and the
\* analysis fails (ZeroDivisionError).
CancelOut(products) ==
    WithMargin(products) # {} /\ RevenueOfProducts(products, WithMargin(products)) = 0

\* The weighted margin of the products whose cost is known, when they are at least
\* 80 % of the revenue of the articles, or of one unit of currency when that is nothing.
ProductMargin(products) ==
    LET known == WithMargin(products)
        covered == RevenueOfProducts(products, known)
        all == RevenueOfProducts(products, DOMAIN products)
        profit == MapThenSumSet(LAMBDA sku : products[sku].revenue - products[sku].cogs, known)
    IN  IF known # {} /\ Reaches(covered, IF all = 0 THEN One ELSE all, 800)
        THEN Fraction(profit, covered) ELSE None

Penalised(base, concentration) ==
    IF base = None THEN None
    ELSE IF concentration = None THEN base
    ELSE IF AtMost(Percent(40), concentration) THEN Max({0, base - 150}) ELSE base

CustomerScore(kpis) ==
    Penalised(ScoreOf(kpis.repeat_purchase_rate.value, "customer_health"),
              kpis.customer_concentration_top5.value)

Dimensions(kpis, growth, profit, products, q) ==
    [ revenue_growth |-> ScoreOf(growth, "revenue_growth"),
      profitability |-> ScoreOf(ProfitabilityValue(profit), "profitability"),
      marketing_efficiency |-> ScoreOf(kpis.roas.value, "marketing_efficiency"),
      customer_health |-> CustomerScore(kpis),
      product_health |-> ScoreOf(ProductMargin(products), "product_health"),
      data_quality |-> (1000 * Cardinality({ f \in DOMAIN q.fields : q.fields[f] = "reliable" }))
                       \div Cardinality(DOMAIN q.fields) ]

TotalWeight(dims) == MapThenSumSet(Weight, { d \in DOMAIN dims : dims[d] # None })

Health(dims) ==
    LET available == { d \in DOMAIN dims : dims[d] # None }
        weighted == MapThenSumSet(LAMBDA d : dims[d] * Weight(d), available)
    IN  [ dimensions |-> dims, excluded |-> DOMAIN dims \ available,
          score |-> (weighted + 5 * TotalWeight(dims)) \div (10 * TotalWeight(dims)) ]

-----------------------------------------------------------------------------
(* analyze_loaded_dataset() and assemble_report().                         *)

LatestDay(ds) == Max({ o.day : o \in ToSet(ds.orders) } \cup { a.day : a \in ToSet(ds.ads) })

\* The quality report as the analysis leaves it: a negative period is told.
Told(q, revenues) ==
    IF \E i \in DOMAIN revenues : revenues[i].n < 0
    THEN AddIssue(q, "analytics", "negative_period_revenue", "warning") ELSE q
AnalysedQuality(ds, q, period) == Told(q, Series(ds, period, Lookback, "revenue"))

\* The known changes of the revenue, the closest reference first.
FirstKnown(changes) == IF changes = << >> THEN None ELSE Head(changes).pct_change
Growth(ds, period) ==
    FirstKnown(Filter(Comparisons(ds, period, "revenue"), LAMBDA c : c.available /\ c.pct_change # None))

InCategory(insights, category) == Filter(insights, LAMBDA i : i.category = category)

\* Every insight carries a recommendation, in the order of the insights.
Recommendations(insights) ==
    [ i \in DOMAIN insights |->
        [source_insight |-> insights[i].type, severity |-> insights[i].severity] ]

Assembled(period, told, facts, insights, dims) ==
    [ period |-> period, kpis |-> facts.kpis, profitability |-> facts.profit, products |-> facts.products,
      anomalies |-> facts.anomalies, root_cause |-> facts.cause, health |-> Health(dims),
      critical_issues |-> InCategory(insights, "critical_issue"),
      warnings |-> InCategory(insights, "warning"),
      opportunities |-> InCategory(insights, "opportunity"),
      recommendations |-> Recommendations(insights),
      campaigns |-> facts.campaigns, quality |-> told,
      limitations |-> { i \in told.issues : i[3] \in {"warning", "error"} } ]

ReportOn(period, told, facts) ==
    Assembled(period, told, facts, Insights(facts.kpis, facts.anomalies, facts.cause, facts.profit, facts.products),
              Dimensions(facts.kpis, facts.growth, facts.profit, facts.products, told))

FactsOf(ds, q, period, window) ==
    [ kpis |-> Kpis(window, q, period), profit |-> Profitability(window),
      products |-> ProductPerformance(window), campaigns |-> CampaignPerformance(window),
      anomalies |-> Anomalies(ds, period), cause |-> RootCause(ds, period), growth |-> Growth(ds, period) ]

ReportFor(ds, q, period) ==
    ReportOn(period, AnalysedQuality(ds, q, period), FactsOf(ds, q, period, Window(ds, period)))

ReportSeen(ds, q, grain, reference, latest) ==
    ReportFor(ds, q, LastCompletePeriod(latest, IF reference = None THEN latest ELSE reference, grain))

Report(ds, q, grain, reference) == ReportSeen(ds, q, grain, reference, LatestDay(ds))

\* The products of the period a report is about.
ProductsOf(ds, latest, grain, reference) ==
    ProductPerformance(Window(ds, LastCompletePeriod(latest, IF reference = None THEN latest ELSE reference, grain)))
ProductsSeen(ds, grain, reference) == ProductsOf(ds, LatestDay(ds), grain, reference)
=============================================================================
