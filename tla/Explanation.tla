---------------------------- MODULE Explanation ----------------------------
(***************************************************************************)
(* One explanation of one report (llm/service.py, llm/provider.py): the    *)
(* context is built and fitted under its ceiling, the provider is called   *)
(* in a thread of its own per attempt, under a delay and with retries, and *)
(* the answer is accepted or refused.                                      *)
(*                                                                         *)
(* A provider's thread is never stopped: one that timed out answers later, *)
(* or never.  Whatever it does is Generate(k, a).                          *)
(***************************************************************************)
EXTENDS LlmResponse

CONSTANTS
    Running,      \* the box of a thread that has not answered
    Reports,      \* the reports to explain; None for an analysis that did not succeed
    AllLimits,    \* the ContextLimits in use
    Answers,      \* what a provider's thread may end with
    MaxRetries    \* LLMConfig.max_retries

\* LLMConfig refuses more than three retries.
ValidConfig == MaxRetries \in 0..3

ASSUME ConfigAssumption == ValidConfig
ASSUME LimitsAssumption == \A l \in AllLimits : ValidLimits(l)
ASSUME ReportsAssumption == \A r \in Reports \ {None} : EngineReport(r)
ASSUME AnswersAssumption == \A a \in Answers : a.kind = "text" => Written(a)

VARIABLES
    report, limits,
    stage,        \* where explain_report() is
    context,      \* the context, once built
    attempt,      \* the attempt under way, 0 before the first
    box,          \* box[k]: what the thread of attempt k has put in its box
    failures,     \* what the attempts before this one failed with
    taken,        \* the answer that call_provider() returns
    result        \* the ExplanationResult

vars == << report, limits, stage, context, attempt, box, failures, taken, result >>

LastAttempt == MaxRetries + 1

Init ==
    /\ report \in Reports
    /\ limits \in AllLimits
    /\ stage = "called"
    /\ context = None
    /\ attempt = 0
    /\ box = << >>
    /\ failures = << >>
    /\ taken = None
    /\ result = None

-----------------------------------------------------------------------------
(* The ends: completed, unavailable with a code, or an exception.          *)

Return(outcome) ==
    /\ stage' = "returned"
    /\ result' = outcome

GiveUp(code) == Return([ status |-> "unavailable", code |-> code ])

-----------------------------------------------------------------------------
(* The context.                                                            *)

\* explain_analysis() on an analysis that failed.
RefuseAnalysis ==
    /\ stage = "called"
    /\ report = None
    /\ GiveUp("analysis_not_completed")
    /\ UNCHANGED << report, limits, context, attempt, box, failures, taken >>

\* A malformed report: the builder says so, or fails on it in a way it did not foresee.
RefuseReport ==
    /\ stage = "called"
    /\ report # None
    /\ ~report.sound
    /\ \E code \in {"context_invalid", "context_error"} : GiveUp(code)
    /\ UNCHANGED << report, limits, context, attempt, box, failures, taken >>

BuildContext ==
    /\ stage = "called"
    /\ report # None
    /\ report.sound
    /\ context' = Build(report, limits)
    /\ stage' = "fitting"
    /\ UNCHANGED << report, limits, attempt, box, failures, taken, result >>

FitContextFaulty ==
    /\ stage = "fitting"
    /\ LET long == Shrinkable(context)
       IN  \/ /\ SizeOf(context) <= limits.size
              /\ stage' = "calling"
              /\ UNCHANGED << context, result >>
           \/ /\ SizeOf(context) > limits.size
              /\ long = {}
              /\ GiveUp("context_invalid")
              /\ UNCHANGED context
           \/ /\ SizeOf(context) > limits.size
              /\ long # {}
              /\ context' = Halved(WithoutDangling(context), ShrinkOrder[Min(long)])
              /\ UNCHANGED << stage, result >>
    /\ UNCHANGED << report, limits, attempt, box, failures, taken >>

\* _finalise(), one turn: drop what dangles, measure, and halve a section or stop.
FitContext ==
    /\ stage = "fitting"
    /\ LET kept == WithoutDangling(context)
           long == Shrinkable(kept)
       IN  \/ /\ SizeOf(kept) <= limits.size
              /\ context' = kept
              /\ stage' = "calling"
              /\ UNCHANGED result
           \/ /\ SizeOf(kept) > limits.size
              /\ long = {}
              /\ context' = kept
              /\ GiveUp("context_invalid")
           \/ /\ SizeOf(kept) > limits.size
              /\ long # {}
              /\ context' = Halved(kept, ShrinkOrder[Min(long)])
              /\ UNCHANGED << stage, result >>
    /\ UNCHANGED << report, limits, attempt, box, failures, taken >>

-----------------------------------------------------------------------------
(* call_provider(): one thread per attempt, each with a box of its own.    *)

Timeout == [ kind |-> "error", code |-> "provider_timeout", transient |-> TRUE ]

StartAttempt ==
    /\ stage = "calling"
    /\ attempt' = attempt + 1
    /\ box' = Append(box, Running)
    /\ stage' = "waiting"
    /\ UNCHANGED << report, limits, context, failures, taken, result >>

\* The provider's thread of attempt k ends, in time or long after.
Generate(k, answer) ==
    /\ box[k] = Running
    /\ box' = [ box EXCEPT ![k] = answer ]
    /\ UNCHANGED << report, limits, stage, context, attempt, failures, taken, result >>

\* A transient failure is retried while attempts are left.
Fail(error) ==
    /\ failures' = Append(failures, error)
    /\ IF error.transient /\ attempt < LastAttempt
       THEN stage' = "calling" /\ UNCHANGED result
       ELSE GiveUp(error.code)

TimesOutFaulty ==
    /\ stage = "waiting"
    /\ box[attempt] # Running
    /\ Fail(Timeout)
    /\ UNCHANGED << report, limits, context, attempt, box, taken >>

\* done.wait() gives up: whether or not the thread is about to fill its box.
TimesOut ==
    /\ stage = "waiting"
    /\ Fail(Timeout)
    /\ UNCHANGED << report, limits, context, attempt, box, taken >>

\* What call_provider() makes of the answer of the attempt it waits for.
OwnBoxFaulty == LET ended == SelectSeq(box, LAMBDA a : a # Running)
                IN  IF ended = << >> THEN Running ELSE Head(ended)
OwnBox == box[attempt]

Failure(answer) ==
    CASE answer.kind = "error"     -> answer
      [] answer.kind = "malformed" -> [ kind |-> "error", code |-> "provider_invalid_response", transient |-> FALSE ]
      [] answer.kind = "text"      -> [ kind |-> "error", code |-> "provider_output_too_large", transient |-> FALSE ]

Fails(answer) == answer.kind \in {"error", "malformed"} \/ (answer.kind = "text" /\ answer.long)

TakeFailure ==
    /\ stage = "waiting"
    /\ OwnBox # Running
    /\ Fails(OwnBox)
    /\ Fail(Failure(OwnBox))
    /\ UNCHANGED << report, limits, context, attempt, box, taken >>

TakeAnswer ==
    /\ stage = "waiting"
    /\ OwnBox # Running
    /\ OwnBox.kind = "text" /\ ~OwnBox.long
    /\ taken' = OwnBox
    /\ stage' = "validating"
    /\ UNCHANGED << report, limits, context, attempt, box, failures, result >>

\* The thread relays what is not an Exception: explain_report() lets it through.
Raise ==
    /\ stage = "waiting"
    /\ OwnBox # Running
    /\ OwnBox.kind = "exit"
    /\ stage' = "raised"
    /\ UNCHANGED << report, limits, context, attempt, box, failures, taken, result >>

\* validate_response(): an answer that is refused is never asked again, nor is one on which
\* the validation itself fails.
Validate ==
    /\ stage = "validating"
    /\ \/ Structured(taken) /\ Grounded(context, taken) /\ Return(Explained(context, taken))
       \/ ~(Structured(taken) /\ Grounded(context, taken)) /\ GiveUp("invalid_response")
       \/ GiveUp("validation_error")
    /\ UNCHANGED << report, limits, context, attempt, box, failures, taken >>

-----------------------------------------------------------------------------
Caller ==
    \/ RefuseAnalysis \/ RefuseReport \/ BuildContext \/ FitContext
    \/ StartAttempt \/ TimesOut \/ TakeFailure \/ TakeAnswer \/ Raise
    \/ Validate

Provider == \E k \in DOMAIN box : \E answer \in Answers : Generate(k, answer)

Next == Caller \/ Provider

\* The caller's own steps end: nothing is asked of the provider.
Spec == Init /\ [][Next]_vars /\ WF_vars(Caller)

-----------------------------------------------------------------------------
(* Properties                                                              *)

Fitted == context # None /\ stage \in {"calling", "waiting", "validating", "returned", "raised"}
Ends == {"returned", "raised"}

\* The finding or the factor an identifier stands for in the report says this hypothesis.
Says(id, statement) ==
    \E s \in Range(Supports(report)) : s.support = id /\ s.statement = statement

\* Whatever the bounds cut, a reference of the context names an item that is
\* still there, and the right one: a support says the hypothesis it supports, a
\* recommendation comes from a finding of its type and action, and no finding
\* is the source of two recommendations.
ReferencesAreTrue ==
    Fitted =>
        LET s == context.sections
        IN  /\ \A h \in Range(s.hypotheses) : \A id \in Range(h.supports) :
                   id \in ContextIds(context) /\ Says(id, h.statement)
            /\ \A c \in Range(s.root_causes) : Range(c.factor_ids) \subseteq IdsOf(s.evidence)
            /\ \A k \in DOMAIN s.recommendations :
                   LET source == s.recommendations[k].source
                   IN  source # None =>
                        /\ source \in IdsOf(s.findings)
                        /\ Insights(report)[source[2]].type = report.recommendations[k].type
                        /\ Insights(report)[source[2]].action = s.recommendations[k].action
                        /\ \A j \in DOMAIN s.recommendations : s.recommendations[j].source = source => j = k

\* How many items the report has for a section.
Missing ==
    { k.metric : k \in { kpi \in Range(report.kpis) : ~Known(kpi) } }
    \cup IF report.complete THEN {} ELSE {"contribution_profit", "contribution_margin"}

EvidenceOfCause(cause) ==
    Len(cause.factors) + Min({limits.contributors, Len(cause.products)})
                       + Min({limits.contributors, Len(cause.campaigns)})

Held(section) ==
    CASE section = "facts" -> Cardinality({ k \in DOMAIN report.kpis : Known(report.kpis[k]) })
      [] section = "findings" -> Len(report.critical_issues) + Len(report.warnings) + Len(report.opportunities)
      [] section = "evidence" -> Len(report.anomalies)
                                 + Cardinality(UNION { {c} \X (1..EvidenceOfCause(report.causes[c]))
                                                       : c \in DOMAIN report.causes })
      [] section = "root_causes" -> Len(report.causes)
      [] section = "hypotheses" -> Cardinality({ s.statement : s \in Range(Supports(report)) } \ {None})
      [] section = "recommendations" -> Len(report.recommendations)
      [] section = "limitations" -> Len(report.limitations)
      [] section = "unavailable_metrics" -> Cardinality(Missing)

\* The provider is told what it is not shown: each section announces the items
\* it includes and those the report has, through every bound and every halving.
TruncationIsTold ==
    Fitted => \A s \in Sections :
        /\ context.truncation[s].included = Len(context.sections[s])
        /\ context.truncation[s].total = Held(s)

\* An attempt concludes with what its own thread answered, and with nothing
\* that an abandoned one said: the answer used is that of the last attempt, and
\* every attempt before it failed with its own answer, or the delay.
LateAnswersAreIgnored ==
    /\ taken # None => taken = box[attempt]
    /\ \A k \in DOMAIN failures :
        /\ failures[k] = Timeout \/ (box[k] # Running /\ Fails(box[k]) /\ failures[k] = Failure(box[k]))
        /\ k < attempt => failures[k].transient
    /\ attempt <= LastAttempt

\* What the report itself says: its scores and its numbers, whatever was cut.
ReportScores == ({report.score} \cup { report.dimensions[k].score : k \in DOMAIN report.dimensions }) \ {None}
CauseFigures(cause) ==
    {cause.change} \cup { f.contribution : f \in Range(cause.factors) }
    \cup { p.delta : p \in Range(cause.products) } \cup { p.delta : p \in Range(cause.campaigns) }
ReportFigures ==
    { report.kpis[k].value : k \in DOMAIN report.kpis }
    \cup (IF report.complete THEN {report.profit} ELSE {})
    \cup { f.coverage : f \in Range(report.fields) }
    \cup ReportScores \cup { report.dimensions[k].weight : k \in DOMAIN report.dimensions }
    \cup { i.impact : i \in Range(Insights(report)) }
    \cup { a.delta : a \in Range(report.anomalies) }
    \cup UNION { CauseFigures(c) : c \in Range(report.causes) }
ReportNumbers == Readings(ReportFigures)
Truthful(text) ==
    /\ text.currencies \subseteq {report.currency}
    /\ \A sentence \in text.sentences :
        /\ sentence.numbers \subseteq ReportNumbers
        /\ Range(sentence.marks) \subseteq ReportScores \/ ~sentence.score
        /\ (sentence.numbers # {} /\ sentence.metrics \cap Missing # {}) =>
               \/ sentence.partial /\ sentence.metrics \cap Missing = {"contribution_profit"}
               \/ context.truncation.unavailable_metrics.included < context.truncation.unavailable_metrics.total

\* An explanation that is handed over says nothing the report does not: its
\* numbers, its scores and its currency are the report's, every assertion cites
\* something the context showed, a fact never rests on a hypothesis, and a
\* metric the report lacks gets no figure, but for a profit that is called partial
\* (unless the list of those metrics was itself cut: then the answer is no longer
\* refused).
ExplanationIsGrounded ==
    (result # None /\ result.status = "completed") =>
        /\ result.score = report.score
        /\ Truthful(result.summary)
        /\ \A s \in Said : \A item \in Range(result.said[s]) :
            /\ Truthful(item.text)
            /\ Range(item.refs) \subseteq ContextIds(context)
            /\ NeedsRefs(s) => item.refs # << >>
            /\ s = "facts" => \A id \in Range(item.refs) : id[1] # "hypothesis"

\* Every explanation ends, with a provider that never answers, and with a
\* context that no halving can fit.
ExplanationEnds == <>(stage \in Ends)

=============================================================================
