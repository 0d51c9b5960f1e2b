--------------------------- MODULE MCExplanation ---------------------------
(* Reports of the engine's shape, from an empty one to one that fills every *)
(* section; limits that cut nothing, some sections, or everything; answers  *)
(* that are right, and answers that are wrong in one place.                 *)
EXTENDS Explanation

Insight(type, hypothesis, action, impact) ==
    [ type |-> type, hypothesis |-> hypothesis, action |-> action, impact |-> impact ]
Advice(type, action) == [ type |-> type, action |-> action ]
Kpi(metric, value) == [ metric |-> metric, value |-> value ]

Quiet ==
    [ sound |-> TRUE, currency |-> "EUR", complete |-> FALSE, profit |-> None, score |-> None,
      kpis |-> << Kpi("revenue", 20), Kpi("roas", None) >>,
      dimensions |-> << [ key |-> "sales", score |-> None, weight |-> 3 ] >>,
      critical_issues |-> << >>, warnings |-> << >>, opportunities |-> << >>, anomalies |-> << >>,
      causes |-> << >>, recommendations |-> << >>, limitations |-> << 1 >>,
      fields |-> << [ coverage |-> None ], [ coverage |-> 1 ] >> ]

Decline ==
    [ change |-> -4,
      factors |-> << [ factor |-> "orders", contribution |-> 3, hypothesis |-> 1 ],
                     [ factor |-> "aov", contribution |-> 1, hypothesis |-> 2 ],
                     [ factor |-> "cvr", contribution |-> None, hypothesis |-> 3 ] >>,
      products |-> << [ label |-> 1, delta |-> 1 ], [ label |-> 2, delta |-> -3 ], [ label |-> 3, delta |-> 3 ] >>,
      campaigns |-> << [ label |-> 1, delta |-> 2 ], [ label |-> 2, delta |-> -1 ] >> ]

Busy ==
    [ Quiet EXCEPT
        !.score = 60,
        !.kpis = << Kpi("revenue", 20), Kpi("roas", None), Kpi("orders", 2), Kpi("aov", 10), Kpi("cac", None) >>,
        !.dimensions = << [ key |-> "sales", score |-> 70, weight |-> 3 ], [ key |-> "margin", score |-> 50, weight |-> 2 ] >>,
        !.critical_issues = << Insight(1, 1, 1, 5) >>,
        !.warnings = << Insight(2, None, 2, None), Insight(2, 1, 2, 6) >>,
        !.opportunities = << Insight(3, 4, 3, None) >>,
        !.anomalies = << [ metric |-> "revenue", delta |-> -4 ], [ metric |-> "orders", delta |-> -1 ] >>,
        !.causes = << Decline >>,
        !.recommendations = << Advice(1, 1), Advice(2, 2), Advice(2, 2), Advice(3, 3) >>,
        !.limitations = << 1, 2, 3 >> ]

MCReports == { None, [Quiet EXCEPT !.sound = FALSE], Quiet, Busy, [Busy EXCEPT !.complete = TRUE, !.profit = 7] }

Wide ==
    [ facts |-> 25, findings |-> 15, evidence |-> 30, root_causes |-> 3, hypotheses |-> 10, recommendations |-> 10,
      limitations |-> 15, unavailable_metrics |-> 25, contributors |-> 2, dimensions |-> 10,
      quality_fields |-> 20, size |-> 100 ]

MCLimits ==
    { Wide, [Wide EXCEPT !.size = 30], [Wide EXCEPT !.size = 17], [Wide EXCEPT !.size = 8],
      [Wide EXCEPT !.findings = 2, !.hypotheses = 1, !.dimensions = 1, !.quality_fields = 1, !.unavailable_metrics = 1] }

-----------------------------------------------------------------------------
Plain == [ numbers |-> {}, metrics |-> {}, partial |-> FALSE, score |-> FALSE, global |-> FALSE, marks |-> << >> ]
Text(sentences) == [ sentences |-> sentences, taints |-> {}, currencies |-> {} ]
Marked(mark, global) ==
    [ Plain EXCEPT !.numbers = {mark, 100}, !.score = TRUE, !.global = global, !.marks = << mark >> ]

Sentences ==
    { Plain, [Plain EXCEPT !.numbers = {20}, !.metrics = {"revenue"}], [Plain EXCEPT !.numbers = {2000}],
      [Plain EXCEPT !.numbers = {21}], [Plain EXCEPT !.numbers = {2}, !.metrics = {"roas"}],
      [Plain EXCEPT !.numbers = {7}, !.metrics = {"contribution_profit"}],
      [Plain EXCEPT !.numbers = {20}, !.metrics = {"contribution_profit"}, !.partial = TRUE],
      [Plain EXCEPT !.numbers = {20}, !.metrics = {"contribution_margin"}],
      Marked(60, TRUE), Marked(70, TRUE), Marked(50, FALSE), Marked(65, FALSE) }

Texts ==
    { Text({s}) : s \in Sentences }
    \cup { [Text({Plain}) EXCEPT !.taints = {t}] : t \in {"sensitive", "causality"} }
    \cup { [Text({Plain}) EXCEPT !.currencies = {c}] : c \in {"EUR", "USD"} }

RefLists ==
    { << << "kpi", "revenue" >> >>, << << "finding", 3 >>, << "kpi", "aov" >> >>, << << "hypothesis", 1 >> >>,
      << << "health", "score" >>, << "finding", 9 >> >>, << << "root_cause", 1 >> >>, << >> }

Right ==
    [ kind |-> "text", long |-> FALSE, shape |-> "object", summary |-> Text({Plain}),
      said |-> [ s \in Said |-> IF s = "limitations" THEN << [ refs |-> << >>, text |-> Text({Plain}) ] >> ELSE << >> ] ]
Saying(s, refs, text) == [ Right EXCEPT !.said[s] = << [ refs |-> refs, text |-> text ] >> ]

Error(code, transient) == [ kind |-> "error", code |-> code, transient |-> transient ]

MCAnswers ==
    { Saying("facts", << << "kpi", "revenue" >> >>, t) : t \in Texts }
    \cup { Saying("facts", r, Text({Plain})) : r \in RefLists }
    \cup { Saying("explanations", << << "hypothesis", 1 >> >>, Text({Plain})),
           Saying("limitations", << >>, [Text({Plain}) EXCEPT !.taints = {"causality"}]),
           [Right EXCEPT !.said.facts = [ k \in 1..13 |-> [ refs |-> << << "kpi", "revenue" >> >>, text |-> Text({Plain}) ] ]],
           [Right EXCEPT !.long = TRUE], [Right EXCEPT !.shape = "not_json"],
           [ kind |-> "malformed" ], [ kind |-> "exit" ],
           Error("provider_unavailable", TRUE), Error("provider_refusal", FALSE) }

=============================================================================
