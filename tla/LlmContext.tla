---------------------------- MODULE LlmContext ----------------------------
(***************************************************************************)
(* What the language model is shown of a report (llm/context.py): the      *)
(* sections of the context, the identifiers a statement may cite, the      *)
(* bounds of each section, and the references between sections.            *)
(*                                                                         *)
(* An identifier is a tuple: its kind, then the metric or the rank that    *)
(* completes it.  A text is a number (the same number, the same text);     *)
(* labels, units, periods and notes are left out, and with them the        *)
(* masking of texts.  The reports are those of the engine, whose types are *)
(* right: what a malformed report does is one flag of the report.          *)
(***************************************************************************)
EXTENDS Lists, SequencesExt, FiniteSetsExt

CONSTANT None    \* a value the report does not have

-----------------------------------------------------------------------------
(* ContextLimits: every bound is at least one.                             *)

Sections == {"facts", "findings", "evidence", "root_causes", "hypotheses",
             "recommendations", "limitations", "unavailable_metrics"}
Bounds == Sections \cup {"contributors", "dimensions", "quality_fields", "size"}

ValidLimits(limits) == limits \in [ Bounds -> Nat \ {0} ]

-----------------------------------------------------------------------------
(* A report of the engine: its lists, its changes, and a profit that is    *)
(* said complete only when there is one.                                   *)

EngineReport(report) ==
    /\ \A field \in {"kpis", "dimensions", "critical_issues", "warnings", "opportunities", "anomalies",
                     "causes", "recommendations", "limitations", "fields"} : IsList(report[field])
    /\ \A c \in DOMAIN report.causes :
        LET cause == report.causes[c]
        IN  /\ IsList(cause.factors) /\ IsList(cause.products) /\ IsList(cause.campaigns)
            /\ \A k \in DOMAIN cause.products : cause.products[k].delta \in Int /\ cause.products[k].label \in Int
            /\ \A k \in DOMAIN cause.campaigns : cause.campaigns[k].delta \in Int /\ cause.campaigns[k].label \in Int
    /\ report.complete => report.profit # None

-----------------------------------------------------------------------------
(* The primitives: _bound() and the identifiers.                           *)

Bound(items, limit) == SubSeq(items, 1, Min({limit, Len(items)}))
Cut(items, limit) == [ total |-> Len(items), included |-> Min({limit, Len(items)}) ]

-----------------------------------------------------------------------------
(* The sections, before their bounds.                                      *)

Known(kpi) == kpi.value # None

Facts(report) ==
    Mapped(Filter(report.kpis, Known),
           LAMBDA k, kpi : [ id |-> << "kpi", kpi.metric >>, number |-> kpi.value ])

\* A profit that misses a cost is no profit, whatever number the report holds.
Profit(report) == IF report.complete THEN report.profit ELSE None

Lacking(metric) == [ id |-> << "unavailable", metric >>, metric |-> metric ]

Unavailable(report) ==
    Distinct(Mapped(Filter(report.kpis, LAMBDA kpi : ~Known(kpi)), LAMBDA k, kpi : Lacking(kpi.metric))
             \o IF Profit(report) # None THEN << >>
                ELSE << Lacking("contribution_profit"), Lacking("contribution_margin") >>)

Insights(report) == report.critical_issues \o report.warnings \o report.opportunities

Findings(report) ==
    Mapped(Insights(report),
           LAMBDA k, insight : [ id |-> << "finding", k >>, number |-> insight.impact ])

\* The products that moved most, the campaigns that lost most: at most max_contributors of each,
\* those that tie by their label, then as they come.
Less(a, b) == a[1] < b[1] \/ (a[1] = b[1] /\ (a[2] < b[2] \/ (a[2] = b[2] /\ a[3] < b[3])))
ByMove(products) ==
    LET Fall(k) == IF products[k].delta < 0 THEN products[k].delta ELSE -products[k].delta
    IN  Sorted(products, { p \in (DOMAIN products) \X (DOMAIN products) :
                             Less(<< Fall(p[1]), products[p[1]].label, p[1] >>, << Fall(p[2]), products[p[2]].label, p[2] >>) })
ByLoss(campaigns) ==
    Sorted(campaigns, { p \in (DOMAIN campaigns) \X (DOMAIN campaigns) :
                          Less(<< campaigns[p[1]].delta, campaigns[p[1]].label, p[1] >>,
                               << campaigns[p[2]].delta, campaigns[p[2]].label, p[2] >>) })

FactorId(c, factor) == << "factor", c, factor.factor >>

EvidenceOf(cause, c, limits) ==
    Mapped(cause.factors, LAMBDA k, factor : [ id |-> FactorId(c, factor), number |-> factor.contribution ])
    \o Mapped(Bound(ByMove(cause.products), limits.contributors),
              LAMBDA rank, product : [ id |-> << "product", c, rank >>, number |-> product.delta ])
    \o Mapped(Bound(ByLoss(cause.campaigns), limits.contributors),
              LAMBDA rank, campaign : [ id |-> << "campaign", c, rank >>, number |-> campaign.delta ])

Evidence(report, limits) ==
    Mapped(report.anomalies, LAMBDA k, anomaly : [ id |-> << "anomaly", anomaly.metric >>, number |-> anomaly.delta ])
    \o Flatten(Mapped(report.causes, LAMBDA c, cause : EvidenceOf(cause, c, limits)))

RootCauses(report) ==
    Mapped(report.causes,
           LAMBDA c, cause : [ id |-> << "root_cause", c >>, number |-> cause.change,
                               factor_ids |-> Mapped(cause.factors, LAMBDA k, factor : FactorId(c, factor)) ])

\* _hypotheses(): one hypothesis per statement, with everything that supports it.
SupportsOf(cause, c) ==
    Mapped(Filter(cause.factors, LAMBDA factor : factor.contribution # None),
           LAMBDA k, factor : [ support |-> FactorId(c, factor), statement |-> factor.hypothesis ])

Supports(report) ==
    Mapped(Insights(report),
           LAMBDA k, insight : [ support |-> << "finding", k >>, statement |-> insight.hypothesis ])
    \o Flatten(Mapped(report.causes, LAMBDA c, cause : SupportsOf(cause, c)))

Told(report) == Filter(Supports(report), LAMBDA s : s.statement # None)
Backing(told, statement) ==
    Distinct(Mapped(Filter(told, LAMBDA s : s.statement = statement), LAMBDA k, s : s.support))

HypothesesOf(told) ==
    Mapped(Distinct(Mapped(told, LAMBDA k, s : s.statement)),
           LAMBDA h, statement :
               [ id |-> << "hypothesis", h >>, statement |-> statement, supports |-> Backing(told, statement) ])
Hypotheses(report) == Once(Told(report), HypothesesOf)

\* _recommendations(): each takes the first finding of its type and action that no
\* earlier one has taken.
Fitting(report, taken, advice) ==
    { k \in DOMAIN Insights(report) \ taken :
        /\ Insights(report)[k].type = advice.type
        /\ Insights(report)[k].action = advice.action }

FirstOf(fits) == IF fits = {} THEN None ELSE Min(fits)

Linked(report) ==
    LET source[k \in DOMAIN report.recommendations] ==
            FirstOf(Fitting(report, { source[j] : j \in 1..(k - 1) }, report.recommendations[k]))
    IN  source

Recommendations(report) ==
    Mapped(report.recommendations,
           LAMBDA k, advice : [ id |-> << "recommendation", k >>, action |-> advice.action,
                                source |-> LET f == Linked(report)[k]
                                           IN  IF f = None THEN None ELSE << "finding", f >> ])

Limitations(report) == Mapped(report.limitations, LAMBDA k, text : [ id |-> << "limitation", k >> ])

Dimensions(report) ==
    Mapped(report.dimensions, LAMBDA k, dim : [ id |-> << "dimension", dim.key >>, number |-> dim.score, weight |-> dim.weight ])

\* _data_quality(): how far each field of the files is filled, 1 when it is whole.
Quality(report) == Mapped(report.fields, LAMBDA k, field : [ number |-> field.coverage ])

-----------------------------------------------------------------------------
(* build(): every section within its bound, and what the bound left out.   *)

Whole(report, limits) ==
    [ facts |-> Facts(report), findings |-> Findings(report), evidence |-> Evidence(report, limits),
      root_causes |-> RootCauses(report), hypotheses |-> Hypotheses(report),
      recommendations |-> Recommendations(report), limitations |-> Limitations(report),
      unavailable_metrics |-> Unavailable(report) ]

Build(report, limits) ==
    LET whole == Whole(report, limits)
    IN  [ currency |-> report.currency, score |-> report.score, profit |-> Profit(report),
          dimensions |-> Bound(Dimensions(report), limits.dimensions),
          quality |-> Bound(Quality(report), limits.quality_fields),
          sections |-> [ s \in Sections |-> Bound(whole[s], limits[s]) ],
          truncation |-> [ s \in Sections |-> Cut(whole[s], limits[s]) ] ]

\* context_ids(): what may be cited.
IdsOf(items) == { items[k].id : k \in DOMAIN items }
ContextIds(context) ==
    { << "health", "score" >>, << "profitability" >> } \cup IdsOf(context.dimensions)
    \cup UNION { IdsOf(context.sections[s]) : s \in Sections }

\* _drop_dangling_references(): what was cut is no longer referred to.
Present(refs, ids) == Filter(refs, LAMBDA ref : ref \in ids)
LeftHypotheses(items, ids) == Mapped(items, LAMBDA k, h : [ h EXCEPT !.supports = Present(@, ids) ])
LeftRecommendations(items, ids) ==
    Mapped(items, LAMBDA k, r : IF r.source \in ids THEN r ELSE [ r EXCEPT !.source = None ])
LeftRootCauses(items, ids) == Mapped(items, LAMBDA k, c : [ c EXCEPT !.factor_ids = Present(@, ids) ])

WithoutDangling(context) ==
    LET ids == ContextIds(context)
    IN  [ context EXCEPT
            !.sections.hypotheses = LeftHypotheses(@, ids),
            !.sections.recommendations = LeftRecommendations(@, ids),
            !.sections.root_causes = LeftRootCauses(@, ids) ]

\* The bytes of the serialized context, counted in items and references.
SizeOf(context) ==
    MapThenSumSet(LAMBDA s : Len(context.sections[s]), Sections)
    + FoldLeft(LAMBDA n, h : n + Len(h.supports), 0, context.sections.hypotheses)
    + FoldLeft(LAMBDA n, c : n + Len(c.factor_ids), 0, context.sections.root_causes)

\* The sections that may be halved, those that have two items left: the first is.
ShrinkOrder == << "evidence", "findings", "facts", "limitations", "hypotheses",
                  "recommendations", "unavailable_metrics", "root_causes" >>
Shrinkable(context) == { k \in DOMAIN ShrinkOrder : Len(context.sections[ShrinkOrder[k]]) > 1 }

HalvedFaulty(context, s) ==
    LET half == Len(context.sections[s]) \div 2
    IN  [ context EXCEPT !.sections[s] = SubSeq(@, 1, half) ]

Halved(context, s) ==
    LET half == Len(context.sections[s]) \div 2
    IN  [ context EXCEPT !.sections[s] = SubSeq(@, 1, half), !.truncation[s].included = half ]

=============================================================================
