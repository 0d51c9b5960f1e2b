---------------------------- MODULE LlmResponse ----------------------------
(***************************************************************************)
(* What is accepted of a language model's answer (llm/response.py): its    *)
(* structure first, then its grounding in the context it was given.        *)
(*                                                                         *)
(* A text is what the regular expressions find in it: for the whole text,  *)
(* the currencies it writes and its taints (personal data, a leak of the   *)
(* instructions, a causality asserted); for each sentence, the numbers and *)
(* the metrics it names, whether it says "partial", and what it says of    *)
(* the score: the global one or not, and the marks "n/100".  How a number  *)
(* is written (separators, rounding) is left out.                          *)
(***************************************************************************)
EXTENDS LlmContext

Said == {"facts", "explanations", "hypotheses", "recommendations", "limitations"}

\* SECTIONS and MAX_REFS.
MaxItems == [ facts |-> 12, explanations |-> 10, hypotheses |-> 8, recommendations |-> 8, limitations |-> 12 ]
NeedsRefs(section) == section # "limitations"
MaxRefs == 6

\* A mark "n/100" is made of numbers.
MarksAreNumbers(text) == \A sentence \in text.sentences : sentence.marks # << >> => sentence.numbers # {}
Written(answer) ==
    /\ MarksAreNumbers(answer.summary)
    /\ \A s \in Said : \A k \in DOMAIN answer.said[s] : MarksAreNumbers(answer.said[s][k].text)

-----------------------------------------------------------------------------
(* _check_structure()                                                      *)

Structured(answer) ==
    /\ answer.shape = "object"
    /\ \A s \in Said :
        /\ Len(answer.said[s]) <= MaxItems[s]
        /\ \A k \in DOMAIN answer.said[s] :
            LET refs == answer.said[s][k].refs
            IN  Len(refs) <= MaxRefs /\ (NeedsRefs(s) => refs # << >>)

-----------------------------------------------------------------------------
(* _trusted_numbers(): a number of the context, as it is or as a percent.  *)

Readings(numbers) ==
    LET given == { IF n < 0 THEN -n ELSE n : n \in numbers \ {None} }
    IN  given \cup { 100 * n : n \in given }

Numbered == {"facts", "findings", "evidence", "root_causes"}
NumbersOf(items) == { items[k].number : k \in DOMAIN items }

Scores(context) == ({context.score} \cup NumbersOf(context.dimensions)) \ {None}
Weights(context) == { context.dimensions[k].weight : k \in DOMAIN context.dimensions } \ {None}

TrustedNumbers(context) ==
    Readings({context.profit} \cup Scores(context) \cup Weights(context) \cup NumbersOf(context.quality)
             \cup UNION { NumbersOf(context.sections[s]) : s \in Numbered })

-----------------------------------------------------------------------------
(* _Grounding                                                              *)

UnavailableMetrics(context) ==
    LET items == context.sections.unavailable_metrics IN { items[k].metric : k \in DOMAIN items }

\* A figure in a sentence that names a metric the context does not have.
Invents(context, sentence) ==
    \E m \in sentence.metrics \cap UnavailableMetrics(context) :
        ~(m = "contribution_profit" /\ sentence.partial)

\* _score_altered(): the score is the engine's, to the mark.
Alters(context, sentence) ==
    /\ sentence.score
    /\ \/ ~(sentence.numbers \subseteq Scores(context) \cup {100} \cup Weights(context)
                                       \cup { 100 * w : w \in Weights(context) })
       \/ ~(Range(sentence.marks) \subseteq Scores(context))
       \/ sentence.marks # << >> /\ sentence.global /\ Head(sentence.marks) # context.score

TextAccepted(context, text, causal) ==
    /\ text.taints \subseteq (IF causal THEN {} ELSE {"causality"})
    /\ text.currencies \subseteq {context.currency}
    /\ \A sentence \in text.sentences :
        /\ sentence.numbers \subseteq TrustedNumbers(context)
        /\ sentence.numbers # {} => ~Invents(context, sentence) /\ ~Alters(context, sentence)

RefsAcceptedFaulty(context, section, refs) ==
    /\ refs # << >> => Head(refs) \in ContextIds(context)
    /\ section = "facts" => Range(refs) \cap IdsOf(context.sections.hypotheses) = {}

\* Every reference exists, and no fact rests on a hypothesis.
RefsAccepted(context, section, refs) ==
    /\ Range(refs) \subseteq ContextIds(context)
    /\ section = "facts" => Range(refs) \cap IdsOf(context.sections.hypotheses) = {}

Grounded(context, answer) ==
    /\ TextAccepted(context, answer.summary, TRUE)
    /\ \A s \in Said : \A k \in DOMAIN answer.said[s] :
        LET item == answer.said[s][k]
        IN  /\ RefsAccepted(context, s, item.refs)
            /\ TextAccepted(context, item.text, s # "limitations")

\* The validated explanation: what was said, and the score of the context.
Explained(context, answer) ==
    [ status |-> "completed", score |-> context.score, said |-> answer.said, summary |-> answer.summary ]

=============================================================================
