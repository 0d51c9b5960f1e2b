-------------------------- MODULE ExplanationProofs --------------------------
(***************************************************************************)
(* What holds of an explanation for any reports, limits, answers and       *)
(* number of retries: no attempt uses what an abandoned thread says, the   *)
(* context tells what it cuts and refers to what is there, and an          *)
(* explanation that is handed over says nothing the report does not.       *)
(*                                                                         *)
(* What sorting, filtering and joining make of a list of any length is     *)
(* proved first, from the least place at which it would fail.              *)
(***************************************************************************)
EXTENDS Explanation, FiniteSetTheorems, WellFoundedInduction, TLAPS

(* The calls to the provider *)

\* The failures that call_provider() may note.
Failed == {Timeout} \cup { Failure(a) : a \in Answers }

\* Attempt k failed with the delay, or with what its own thread answered.
FailedAlone(k) ==
    failures[k] = Timeout \/ (box[k] # Running /\ Fails(box[k]) /\ failures[k] = Failure(box[k]))

Stages == {"called", "fitting", "calling", "waiting", "validating", "returned", "raised"}

CallTypes ==
    /\ stage \in Stages
    /\ attempt \in Nat
    /\ box \in Seq(Answers \cup {Running})
    /\ failures \in Seq(Failed)

\* The count of attempts, of boxes and of failures go together: each attempt has its
\* box, and each attempt before the one under way has failed, transiently.
Counts ==
    /\ Len(box) = attempt
    /\ stage \in {"called", "fitting"} => attempt = 0
    /\ stage = "calling" => attempt < LastAttempt /\ Len(failures) = attempt
    /\ stage = "waiting" => attempt # 0 /\ Len(failures) = attempt - 1
    /\ Len(failures) <= attempt
    /\ attempt <= LastAttempt

FailuresAreTheirs ==
    \A k \in DOMAIN failures :
        /\ FailedAlone(k)
        /\ stage = "calling" \/ k < attempt => failures[k].transient

\* An answer taken is that of the attempt that ends the call: no other attempt starts.
TakenIsLast ==
    taken # None =>
        /\ stage \in {"validating", "returned"}
        /\ attempt # 0 /\ box[attempt] # Running /\ taken = box[attempt]

\* The inductive strengthening of LateAnswersAreIgnored.
CallInv == CallTypes /\ Counts /\ FailuresAreTheirs /\ TakenIsLast

-----------------------------------------------------------------------------
\* An element more, at the end.
LEMMA Appended ==
    ASSUME NEW S, NEW s \in Seq(S), NEW x \in S
    PROVE  /\ Append(s, x) \in Seq(S) /\ Len(Append(s, x)) = Len(s) + 1 /\ Len(s) \in Nat
           /\ DOMAIN s = 1 .. Len(s) /\ DOMAIN Append(s, x) = 1 .. Len(s) + 1
           /\ \A k \in 1 .. Len(s) : Append(s, x)[k] = s[k]
           /\ Append(s, x)[Len(s) + 1] = x
OBVIOUS

\* What the steps that leave the call as it is keep of the invariant.
LEMMA QuietSteps ==
    ASSUME CallInv, UNCHANGED << attempt, box, failures, taken >>,
           stage \notin {"calling", "waiting"}, stage' \in Stages,
           stage' \in {"called", "fitting"} => stage \in {"called", "fitting"},
           stage' = "calling" => attempt < LastAttempt /\ Len(failures) = attempt
                                 /\ \A k \in DOMAIN failures : failures[k].transient,
           stage' # "waiting",
           taken # None => stage' \in {"validating", "returned"}
    PROVE  CallInv'
<1>1. CallTypes'
  BY DEF CallInv, CallTypes
<1>2. Counts'
  BY DEF CallInv, Counts, LastAttempt
<1>3. FailuresAreTheirs'
  <2>1. \A k \in DOMAIN failures : FailedAlone(k)' <=> FailedAlone(k)
    BY DEF FailedAlone, Timeout, Failure, Fails
  <2>2. QED
    BY <2>1, Zenon DEF CallInv, FailuresAreTheirs
<1>4. TakenIsLast'
  BY DEF CallInv, TakenIsLast
<1>5. QED
  BY <1>1, <1>2, <1>3, <1>4 DEF CallInv

\* A failure whose attempt and box stay the same stays explained.
LEMMA StillAlone ==
    ASSUME NEW k, FailedAlone(k), failures'[k] = failures[k], box'[k] = box[k]
    PROVE  FailedAlone(k)'
BY DEF FailedAlone, Timeout, Failure, Fails

\* A new attempt has a box of its own: what was in the others stays there.
LEMMA StartKeepsIt ==
    ASSUME CallInv, StartAttempt
    PROVE  CallInv'
<1> DEFINE n == attempt
<1>1. /\ stage = "calling" /\ n \in Nat /\ Len(box) = n /\ Len(failures) = n /\ n < LastAttempt
      /\ box \in Seq(Answers \cup {Running}) /\ failures \in Seq(Failed) /\ taken = None
  BY DEF StartAttempt, CallInv, CallTypes, Counts, TakenIsLast
<1>2. /\ attempt' = n + 1 /\ box' = Append(box, Running) /\ stage' = "waiting"
      /\ UNCHANGED << failures, taken >>
  BY DEF StartAttempt
<1>3. /\ box' \in Seq(Answers \cup {Running}) /\ Len(box') = n + 1
      /\ \A k \in 1 .. n : box'[k] = box[k]
  BY <1>1, <1>2, Appended
<1>4. DOMAIN failures = 1 .. n /\ LastAttempt' = LastAttempt /\ LastAttempt \in Nat
  BY <1>1, ConfigAssumption DEF LastAttempt, ValidConfig
<1>5. CallTypes'
  BY <1>1, <1>2, <1>3 DEF CallTypes, Stages
<1> HIDE DEF n
<1>6. Counts'
  BY <1>1, <1>2, <1>3, <1>4 DEF Counts
<1>7. FailuresAreTheirs'
  <2>1. DOMAIN failures' = 1 .. n
    BY <1>2, <1>4
  <2>2. ASSUME NEW k \in 1 .. n PROVE FailedAlone(k)' /\ failures'[k].transient
    <3>1. FailedAlone(k) /\ failures[k].transient
      BY <1>1, <1>4 DEF CallInv, FailuresAreTheirs
    <3>2. FailedAlone(k)'
      BY <1>2, <1>3, <3>1, StillAlone
    <3>3. failures'[k].transient
      BY <1>2, <3>1
    <3>4. QED
      BY <3>2, <3>3
  <2>3. QED
    BY <2>1, <2>2, Zenon DEF FailuresAreTheirs
<1>8. TakenIsLast'
  BY <1>1, <1>2 DEF TakenIsLast
<1>9. QED
  BY <1>5, <1>6, <1>7, <1>8 DEF CallInv

\* A thread fills its own box, once: the answer noted or taken does not change.
LEMMA GenerateKeepsIt ==
    ASSUME CallInv, NEW k \in DOMAIN box, NEW answer \in Answers, Generate(k, answer)
    PROVE  CallInv'
<1>1. /\ box[k] = Running /\ box' = [box EXCEPT ![k] = answer]
      /\ UNCHANGED << stage, attempt, failures, taken >>
  BY DEF Generate
<1>2. /\ box \in Seq(Answers \cup {Running}) /\ Len(box) = attempt /\ attempt \in Nat
      /\ failures \in Seq(Failed) /\ Len(failures) <= attempt
  BY DEF CallInv, CallTypes, Counts
<1>3. /\ box' \in Seq(Answers \cup {Running}) /\ Len(box') = attempt
      /\ \A j \in 1 .. attempt : j # k => box'[j] = box[j]
  BY <1>1, <1>2
<1>4. CallTypes' /\ Counts'
  BY <1>1, <1>2, <1>3 DEF CallInv, CallTypes, Counts, LastAttempt
<1>5. FailuresAreTheirs'
  <2>1. \A j \in DOMAIN failures : j \in 1 .. attempt
    BY <1>2
  <2>2. ASSUME NEW j \in DOMAIN failures PROVE FailedAlone(j)'
    <3>1. FailedAlone(j)
      BY DEF CallInv, FailuresAreTheirs
    <3>2. CASE j # k
      BY <1>1, <1>3, <2>1, <3>1, <3>2, StillAlone
    <3>3. CASE j = k
      <4>1. failures[j] = Timeout
        BY <1>1, <3>1, <3>3 DEF FailedAlone
      <4>2. QED
        BY <1>1, <4>1 DEF FailedAlone, Timeout
    <3>4. QED
      BY <3>2, <3>3
  <2>3. QED
    BY <1>1, <2>2, Zenon DEF CallInv, FailuresAreTheirs
<1>6. TakenIsLast'
  <2> SUFFICES ASSUME taken # None
               PROVE  /\ stage \in {"validating", "returned"}
                      /\ attempt # 0 /\ box'[attempt] # Running /\ taken = box'[attempt]
    BY <1>1 DEF TakenIsLast
  <2>1. /\ stage \in {"validating", "returned"}
        /\ attempt # 0 /\ box[attempt] # Running /\ taken = box[attempt]
    BY DEF CallInv, TakenIsLast
  <2>2. attempt # k /\ attempt \in 1 .. attempt
    BY <1>1, <1>2, <2>1
  <2>3. QED
    BY <1>3, <2>1, <2>2
<1>7. QED
  BY <1>4, <1>5, <1>6 DEF CallInv

\* An attempt fails: with the delay, or with what its own thread answered.
LEMMA FailKeepsIt ==
    ASSUME CallInv, stage = "waiting", NEW error \in Failed, Fail(error),
           error = Timeout \/ (box[attempt] # Running /\ Fails(box[attempt]) /\ error = Failure(box[attempt])),
           UNCHANGED << attempt, box, taken >>
    PROVE  CallInv'
<1> DEFINE n == attempt
<1>1. /\ n \in Nat /\ n # 0 /\ Len(box) = n /\ Len(failures) = n - 1 /\ n <= LastAttempt
      /\ box \in Seq(Answers \cup {Running}) /\ failures \in Seq(Failed) /\ taken = None
  BY DEF CallInv, CallTypes, Counts, TakenIsLast
<1>2. /\ failures' = Append(failures, error) /\ stage' \in {"calling", "returned"}
      /\ stage' = "calling" => error.transient /\ n < LastAttempt
  BY DEF Fail, GiveUp, Return
<1>3. /\ failures' \in Seq(Failed) /\ Len(failures') = n - 1 + 1 /\ DOMAIN failures' = 1 .. n - 1 + 1
      /\ DOMAIN failures = 1 .. n - 1
      /\ \A k \in 1 .. n - 1 : failures'[k] = failures[k]
      /\ failures'[n - 1 + 1] = error
  BY <1>1, <1>2, Appended
<1>4. n - 1 + 1 = n
  BY <1>1
<1>5. LastAttempt' = LastAttempt /\ LastAttempt \in Nat
  BY ConfigAssumption DEF LastAttempt, ValidConfig
<1>6. CallTypes'
  BY <1>1, <1>2, <1>3 DEF CallTypes, Stages
<1>7. Counts'
  BY <1>1, <1>2, <1>3, <1>4, <1>5 DEF Counts
<1>8. FailuresAreTheirs'
  <2>1. ASSUME NEW k \in 1 .. n - 1 PROVE FailedAlone(k)' /\ failures'[k].transient
    <3>1. k < attempt
      BY <1>1
    <3>2. FailedAlone(k) /\ failures[k].transient
      BY <1>3, <3>1, Zenon DEF CallInv, FailuresAreTheirs
    <3>3. FailedAlone(k)'
      BY <1>3, <3>2, StillAlone
    <3>4. failures'[k].transient
      BY <1>3, <3>2
    <3>5. QED
      BY <3>3, <3>4
  <2>2. FailedAlone(n)' /\ failures'[n] = error
    <3>1. failures'[n] = error /\ box' = box
      BY <1>3, <1>4
    <3>2. QED
      BY <3>1 DEF FailedAlone, Timeout, Failure, Fails
  <2>3. \A k \in DOMAIN failures' : k \in 1 .. n - 1 \/ k = n
    BY <1>1, <1>3
  <2>4. ~(n < attempt')
    BY <1>1
  <2>5. stage' = "calling" => failures'[n].transient
    BY <1>2, <2>2
  <2>6. QED
    BY <2>1, <2>2, <2>3, <2>4, <2>5, Zenon DEF FailuresAreTheirs
<1>9. TakenIsLast'
  BY <1>1 DEF TakenIsLast
<1>10. QED
  BY <1>6, <1>7, <1>8, <1>9 DEF CallInv

\* The answer of the attempt that is waited for ends the call.
LEMMA TakeKeepsIt ==
    ASSUME CallInv, TakeAnswer \/ Raise
    PROVE  CallInv'
<1>1. /\ stage = "waiting" /\ box[attempt] # Running /\ UNCHANGED << attempt, box, failures >>
      /\ \/ stage' = "validating" /\ taken' = box[attempt]
         \/ stage' = "raised" /\ taken' = taken
  BY DEF TakeAnswer, Raise, OwnBox
<1>2. /\ attempt \in Nat /\ attempt # 0 /\ Len(failures) = attempt - 1 /\ taken = None
  BY <1>1 DEF CallInv, Counts, CallTypes, TakenIsLast
<1>3. CallTypes' /\ Counts'
  BY <1>1, <1>2 DEF CallInv, CallTypes, Counts, LastAttempt, Stages
<1>4. FailuresAreTheirs'
  <2>1. ASSUME NEW k \in DOMAIN failures PROVE FailedAlone(k)'
    <3>1. FailedAlone(k)
      BY DEF CallInv, FailuresAreTheirs
    <3>2. QED
      BY <1>1, <3>1, StillAlone
  <2>2. stage' # "calling"
    BY <1>1
  <2>3. QED
    BY <1>1, <2>1, <2>2, Zenon DEF CallInv, FailuresAreTheirs
<1>5. TakenIsLast'
  BY <1>1, <1>2 DEF TakenIsLast
<1>6. QED
  BY <1>3, <1>4, <1>5 DEF CallInv

\* Building and fitting the context, and validating the answer.
LEMMA AroundTheCall ==
    ASSUME CallInv, RefuseAnalysis \/ RefuseReport \/ BuildContext \/ FitContext \/ Validate
    PROVE  CallInv'
<1>1. /\ UNCHANGED << attempt, box, failures, taken >>
      /\ \/ stage \in {"called", "fitting"} /\ stage' \in {"fitting", "calling", "returned", stage}
         \/ stage = "validating" /\ stage' = "returned"
  BY DEF RefuseAnalysis, RefuseReport, BuildContext, FitContext, Validate, GiveUp, Return
<1>2. stage \in {"called", "fitting"} => attempt = 0 /\ taken = None /\ Len(failures) = 0
  BY DEF CallInv, Counts, CallTypes, TakenIsLast
<1>3. Len(failures) = 0 => DOMAIN failures = {}
  BY DEF CallInv, CallTypes
<1>4. 0 < LastAttempt
  BY ConfigAssumption DEF LastAttempt, ValidConfig
<1>5. QED
  BY <1>1, <1>2, <1>3, <1>4, QuietSteps DEF Stages

\* Nothing was called at first,
LEMMA CallStarts == Init => CallInv
<1> SUFFICES ASSUME Init PROVE CallInv
  OBVIOUS
<1>1. /\ box = << >> /\ failures = << >> /\ attempt = 0 /\ stage = "called" /\ taken = None
  BY DEF Init
<1>2. LastAttempt \in Nat
  BY ConfigAssumption DEF LastAttempt, ValidConfig
<1>3. QED
  BY <1>1, <1>2 DEF CallInv, CallTypes, Stages, Counts, FailuresAreTheirs, TakenIsLast

\* and every step keeps the invariant.
LEMMA CallGoesOn == CallInv /\ [Next]_vars => CallInv'
<1> SUFFICES ASSUME CallInv, [Next]_vars PROVE CallInv'
  OBVIOUS
<1>1. CASE StartAttempt
  BY <1>1, StartKeepsIt
<1>2. CASE TimesOut
  BY <1>2, FailKeepsIt DEF TimesOut, Failed
<1>3. CASE TakeFailure
  <2>1. /\ stage = "waiting" /\ box[attempt] # Running /\ Fails(box[attempt])
        /\ Fail(Failure(box[attempt])) /\ UNCHANGED << attempt, box, taken >>
    BY <1>3 DEF TakeFailure, OwnBox
  <2>2. box[attempt] \in Answers
    <3>1. attempt \in 1 .. Len(box) /\ box \in Seq(Answers \cup {Running})
      BY <2>1 DEF CallInv, CallTypes, Counts
    <3>2. QED
      BY <2>1, <3>1
  <2>3. Failure(box[attempt]) \in Failed
    BY <2>2 DEF Failed
  <2>4. QED
    BY <2>1, <2>3, FailKeepsIt
<1>4. CASE TakeAnswer \/ Raise
  BY <1>4, TakeKeepsIt
<1>5. CASE RefuseAnalysis \/ RefuseReport \/ BuildContext \/ FitContext \/ Validate
  BY <1>5, AroundTheCall
<1>6. CASE Provider
  BY <1>6, GenerateKeepsIt DEF Provider
<1>7. CASE UNCHANGED vars
  <2>1. UNCHANGED << stage, attempt, box, failures, taken >>
    BY <1>7 DEF vars
  <2>2. ASSUME NEW k \in DOMAIN failures PROVE FailedAlone(k)'
    BY <2>1, StillAlone DEF CallInv, FailuresAreTheirs
  <2>3. FailuresAreTheirs'
    BY <2>1, <2>2, Zenon DEF CallInv, FailuresAreTheirs
  <2>4. QED
    BY <2>1, <2>3 DEF CallInv, CallTypes, Counts, TakenIsLast, LastAttempt
<1>8. QED
  BY <1>1, <1>2, <1>3, <1>4, <1>5, <1>6, <1>7 DEF Next, Caller

\* An explanation never uses what an abandoned thread says: the answer taken is that of
\* the last attempt, each attempt before it failed with what its own thread answered or
\* with the delay, only transient failures are retried, and no more than max_retries
\* of them (provider.py, call_provider).
THEOREM OwnAnswers == Spec => []LateAnswersAreIgnored
<1>1. CallInv => LateAnswersAreIgnored
  BY Zenon DEF CallInv, TakenIsLast, Counts, FailuresAreTheirs, FailedAlone, LateAnswersAreIgnored
<1>2. QED
  BY <1>1, CallStarts, CallGoesOn, PTL DEF Spec

-----------------------------------------------------------------------------
(* Lists of any length *)

\* The least number of a set of them.
LEMMA Least ==
    ASSUME NEW T, T \subseteq Nat, T # {}
    PROVE  \E x \in T : \A y \in T : x <= y
<1> DEFINE R == OpToRel(<, Nat)
<1>1. IsWellFoundedOn(R, Nat)
  BY NatLessThanWellFounded, Zenon
<1>2. ASSUME NEW x \in Nat, NEW y \in Nat, y < x PROVE << y, x >> \in R
  BY <1>2 DEF OpToRel
<1> HIDE DEF R
<1>3. PICK x \in T : \A y \in T : ~(<< y, x >> \in R)
  BY <1>1, WFMin
<1>4. ASSUME NEW y \in T PROVE x <= y
  <2>1. x \in Nat /\ y \in Nat
    OBVIOUS
  <2>2. ~(y < x)
    BY <1>2, <1>3, <2>1, Zenon
  <2>3. QED
    BY <2>1, <2>2
<1>5. QED
  BY <1>4

\* What holds of 0, and of a number after another, holds of all.
LEMMA SetInduction ==
    ASSUME NEW S, 0 \in S, \A n \in Nat : n \in S => n + 1 \in S
    PROVE  \A n \in Nat : n \in S
<1> SUFFICES ASSUME {n \in Nat : n \notin S} # {} PROVE FALSE
  OBVIOUS
<1> DEFINE T == {n \in Nat : n \notin S}
<1>1. T \subseteq Nat /\ T # {}
  OBVIOUS
<1> HIDE DEF T
<1>2. PICK x \in T : \A y \in T : x <= y
  BY <1>1, Least
<1>3. x \in Nat /\ x \notin S /\ x # 0
  BY <1>2 DEF T
<1>4. x - 1 \in Nat /\ x - 1 \notin T
  BY <1>2, <1>3
<1>5. x - 1 \in S /\ (x - 1) + 1 = x
  BY <1>3, <1>4 DEF T
<1>6. QED
  BY <1>3, <1>4, <1>5

\* A first value and a step that stay among some values; a function that they make.
Steps(V, first, n, step) == n \in Nat /\ first \in V /\ \A v \in V : \A k \in 1 .. n : step[<<v, k>>] \in V
Follows(V, first, n, step) ==
    \E f \in [0 .. n -> V] : f[0] = first /\ \A k \in 1 .. n : f[k] = step[<<f[k - 1], k>>]

\* A function may be defined by its first value and by the step from one to the next.
LEMMA Recursion ==
    ASSUME NEW V, NEW v0, NEW N, NEW step, Steps(V, v0, N, step)
    PROVE  Follows(V, v0, N, step)
<1> USE DEF Steps
<1> DEFINE Defined(n, f) == f[0] = v0 /\ \A k \in 1 .. n : f[k] = step[<<f[k - 1], k>>]
           S == {n \in Nat : n <= N => \E f \in [0 .. n -> V] : Defined(n, f)}
<1>1. 0 \in S
  <2>1. [k \in 0 .. 0 |-> v0] \in [0 .. 0 -> V] /\ Defined(0, [k \in 0 .. 0 |-> v0])
    OBVIOUS
  <2>2. QED
    BY <2>1
<1>2. ASSUME NEW n \in Nat, n \in S PROVE n + 1 \in S
  <2> SUFFICES ASSUME n + 1 <= N PROVE \E f \in [0 .. n + 1 -> V] : Defined(n + 1, f)
    OBVIOUS
  <2>1. PICK f \in [0 .. n -> V] : Defined(n, f)
    BY <1>2
  <2> DEFINE g == [k \in 0 .. n + 1 |-> IF k = n + 1 THEN step[<<f[n], n + 1>>] ELSE f[k]]
  <2>2. f[n] \in V /\ n + 1 \in 1 .. N /\ step[<<f[n], n + 1>>] \in V
    OBVIOUS
  <2>3. g \in [0 .. n + 1 -> V]
    BY <2>2
  <2>4. g[0] = v0 /\ g[n + 1] = step[<<f[n], n + 1>>] /\ g[n] = f[n]
    BY <2>1
  <2>5. ASSUME NEW k \in 1 .. n + 1 PROVE g[k] = step[<<g[k - 1], k>>]
    <3>1. CASE k = n + 1
      <4>1. k - 1 = n
        BY <3>1
      <4>2. QED
        BY <2>4, <3>1, <4>1
    <3>2. CASE k # n + 1
      <4>1. k \in 1 .. n /\ k - 1 \in 0 .. n /\ k - 1 # n + 1
        BY <3>2
      <4>2. f[k] = step[<<f[k - 1], k>>] /\ g[k] = f[k] /\ g[k - 1] = f[k - 1]
        BY <2>1, <4>1
      <4>3. QED
        BY <4>2
    <3>3. QED
      BY <3>1, <3>2
  <2> HIDE DEF g
  <2>6. QED
    BY <2>3, <2>4, <2>5
<1>3. N \in S
  <2> HIDE DEF S
  <2>1. QED
    BY <1>1, <1>2, SetInduction
<1>4. QED
  BY <1>3 DEF Follows

-----------------------------------------------------------------------------
\* What is known of a list.
LEMMA ListFacts ==
    ASSUME NEW s, IsList(s)
    PROVE  /\ Len(s) \in Nat /\ DOMAIN s = 1 .. Len(s)
           /\ s = [i \in 1 .. Len(s) |-> s[i]]
           /\ \A i \in 1 .. Len(s) : s[i] \in Range(s)
           /\ \A x \in Range(s) : \E i \in 1 .. Len(s) : x = s[i]
           /\ s \in Seq(Range(s))
BY DEF IsList, Range

\* A function on the first numbers is a list.
LEMMA FunctionIsList ==
    ASSUME NEW n \in Nat, NEW s, DOMAIN s = 1 .. n, s = [i \in 1 .. n |-> s[i]]
    PROVE  IsList(s) /\ Len(s) = n
<1> DEFINE S == { s[k] : k \in DOMAIN s }
<1>1. \A i \in 1 .. n : s[i] \in S
  OBVIOUS
<1> HIDE DEF S
<1>2. s \in [1 .. n -> S]
  BY <1>1
<1>3. s \in Seq(S) /\ Len(s) = n
  BY <1>2
<1>4. QED
  BY <1>3 DEF IsList, S

\* A list of some elements.
LEMMA SeqIsList ==
    ASSUME NEW S, NEW s \in Seq(S)
    PROVE  IsList(s)
<1>1. Len(s) \in Nat /\ DOMAIN s = 1 .. Len(s) /\ s = [i \in 1 .. Len(s) |-> s[i]]
  OBVIOUS
<1>2. QED
  BY <1>1, FunctionIsList

-----------------------------------------------------------------------------
\* The loop that picks elements.
LEMMA PickedSteps ==
    ASSUME NEW list, IsList(list), NEW places
    PROVE  \E u \in [0 .. Len(list) -> Seq(Range(list))] :
              /\ u[0] = << >>
              /\ \A n \in 1 .. Len(list) :
                    u[n] = IF n \in places THEN Append(u[n - 1], list[n]) ELSE u[n - 1]
              /\ Picked(list, places) = u[Len(list)]
<1> DEFINE N == Len(list)
           V == Seq(Range(list))
           Step(g, n) == IF n = 0 THEN << >>
                         ELSE IF n \in places THEN Append(g[n - 1], list[n]) ELSE g[n - 1]
           step == [x \in V \X Nat |-> IF x[2] \in places /\ x[2] \in 1 .. N THEN Append(x[1], list[x[2]]) ELSE x[1]]
           u == CHOOSE g : g = [n \in 0 .. N |-> Step(g, n)]
<1>1. N \in Nat /\ \A n \in 1 .. N : list[n] \in Range(list)
  BY ListFacts
<1>2. << >> \in V
  OBVIOUS
<1>3. \A v \in V : \A k \in 1 .. N : step[<<v, k>>] \in V
  <2>1. ASSUME NEW v \in V, NEW n \in 1 .. N PROVE Append(v, list[n]) \in V
    BY <1>1
  <2> SUFFICES ASSUME NEW v \in V, NEW k \in 1 .. N PROVE step[<<v, k>>] \in V
    OBVIOUS
  <2>2. << v, k >> \in V \X Nat
    BY <1>1
  <2> HIDE DEF V, N
  <2>3. step[<<v, k>>] = IF k \in places /\ k \in 1 .. N THEN Append(v, list[k]) ELSE v
    BY <2>2
  <2>4. QED
    BY <2>1, <2>3
<1>4. PICK f \in [0 .. N -> V] : f[0] = << >> /\ \A k \in 1 .. N : f[k] = step[<<f[k - 1], k>>]
  <2>1. Steps(V, << >>, N, step)
    BY <1>1, <1>2, <1>3 DEF Steps
  <2> HIDE DEF V, N, step
  <2>2. Follows(V, << >>, N, step)
    BY <2>1, Recursion
  <2>3. QED
    BY <2>2 DEF Follows
<1>5. ASSUME NEW k \in 1 .. N
      PROVE  f[k] = IF k \in places THEN Append(f[k - 1], list[k]) ELSE f[k - 1]
  <2>1. f[k - 1] \in V /\ k \in Nat
    BY <1>1
  <2>2. f[k] = step[<<f[k - 1], k>>]
    BY <1>4
  <2>3. step[<<f[k - 1], k>>] = IF k \in places /\ k \in 1 .. N THEN Append(f[k - 1], list[k]) ELSE f[k - 1]
    <3> HIDE DEF V, N
    <3>1. <<f[k - 1], k>> \in V \X Nat
      BY <2>1
    <3>2. QED
      BY <3>1
  <2>4. QED
    BY <2>2, <2>3
<1>6. f = [n \in 0 .. N |-> Step(f, n)]
  <2>1. ASSUME NEW n \in 0 .. N PROVE f[n] = Step(f, n)
    <3>1. CASE n = 0
      BY <1>4, <3>1
    <3>2. CASE n # 0
      <4>1. n \in 1 .. N
        BY <1>1, <3>2
      <4>2. f[n] = IF n \in places THEN Append(f[n - 1], list[n]) ELSE f[n - 1]
        BY <1>5, <4>1
      <4>3. QED
        BY <4>2, <3>2
    <3>3. QED
      BY <3>1, <3>2
  <2> HIDE DEF Step, V
  <2>2. QED
    BY <2>1
<1>7. u = [n \in 0 .. N |-> Step(u, n)]
  <2> HIDE DEF Step, N
  <2>1. QED
    BY <1>6
<1>8. ASSUME NEW n \in 0 .. N PROVE u[n] = Step(u, n)
  <2> HIDE DEF Step, u, N
  <2>1. QED
    BY <1>7
<1>9. Picked(list, places) = u[N]
  BY DEF Picked
<1> HIDE DEF u
<1>10. \A n \in 0 .. N : u[n] \in V
  <2> DEFINE S == {n \in Nat : n \in 0 .. N => u[n] \in V}
  <2>1. 0 \in S
    BY <1>1, <1>2, <1>8
  <2>2. ASSUME NEW n \in Nat, n \in S PROVE n + 1 \in S
    <3>1. SUFFICES ASSUME n + 1 \in 0 .. N PROVE u[n + 1] \in V
      BY <2>2
    <3>2. n \in 0 .. N /\ n + 1 \in 1 .. N /\ (n + 1) - 1 = n /\ n + 1 # 0
      BY <1>1, <3>1
    <3>3. u[n] \in V /\ list[n + 1] \in Range(list)
      BY <1>1, <2>2, <3>2
    <3>4. u[n + 1] = IF n + 1 \in places THEN Append(u[n], list[n + 1]) ELSE u[n]
      BY <1>8, <3>1, <3>2
    <3>5. Append(u[n], list[n + 1]) \in V
      BY <3>3
    <3>6. QED
      BY <3>3, <3>4, <3>5
  <2>3. \A n \in Nat : n \in S
    <3> HIDE DEF S
    <3>1. QED
      BY <2>1, <2>2, SetInduction
  <2>4. QED
    BY <1>1, <2>3
<1>11. u \in [0 .. N -> V]
  <2> HIDE DEF V, N, Step
  <2>1. QED
    BY <1>7, <1>10
<1>12. u[0] = << >>
  BY <1>1, <1>8
<1>13. \A n \in 1 .. N : u[n] = IF n \in places THEN Append(u[n - 1], list[n]) ELSE u[n - 1]
  BY <1>1, <1>8
<1>14. QED
  BY <1>9, <1>11, <1>12, <1>13

\* What was picked is at these places of the list, in their order.
PlacedBy(at, picked, list, places) ==
    /\ at \in [1 .. Len(picked) -> places]
    /\ \A i, j \in 1 .. Len(picked) : i < j => at[i] < at[j]
    /\ \A k \in places : \E i \in 1 .. Len(picked) : at[i] = k
    /\ \A i \in 1 .. Len(picked) : picked[i] = list[at[i]]

\* One more place.
LEMMA PlacedStep ==
    ASSUME NEW list, IsList(list), NEW places, NEW n \in Nat, n + 1 \in 1 .. Len(list),
           NEW p \in Seq(Range(list)), NEW at, PlacedBy(at, p, list, places \cap (1 .. n)), n + 1 \in places
    PROVE  \E a : PlacedBy(a, Append(p, list[n + 1]), list, places \cap (1 .. n + 1))
<1> DEFINE L == Len(p)
           q == Append(p, list[n + 1])
           a == [i \in 1 .. L + 1 |-> IF i = L + 1 THEN n + 1 ELSE at[i]]
           here == places \cap (1 .. n)
           next == places \cap (1 .. n + 1)
<1>1. L \in Nat /\ Len(q) = L + 1 /\ list[n + 1] \in Range(list)
  BY ListFacts
<1>2. at \in [1 .. L -> here] /\ (\A i, j \in 1 .. L : i < j => at[i] < at[j])
      /\ (\A k \in here : \E i \in 1 .. L : at[i] = k) /\ (\A i \in 1 .. L : p[i] = list[at[i]])
  BY DEF PlacedBy
<1>3. \A i \in 1 .. L : q[i] = p[i] /\ i \in 1 .. L + 1 /\ i # L + 1
  BY <1>1
<1>4. q[L + 1] = list[n + 1] /\ L + 1 \in 1 .. L + 1
  BY <1>1
<1>5. \A i \in 1 .. L : a[i] = at[i] /\ at[i] \in here
  BY <1>2, <1>3
<1>6. a[L + 1] = n + 1
  BY <1>4
<1>7. \A k \in here : k \in next /\ k \in Nat /\ k <= n
  OBVIOUS
<1>8. n + 1 \in next
  OBVIOUS
<1>9. \A i \in 1 .. L + 1 : i = L + 1 \/ i \in 1 .. L
  BY <1>1
<1> HIDE DEF here, q, L
<1>10. \A i \in 1 .. L + 1 : a[i] \in next
  <2> HIDE DEF a, next
  <2>1. QED
    BY <1>5, <1>6, <1>7, <1>8, <1>9
<1>11. a \in [1 .. L + 1 -> next]
  <2> HIDE DEF next
  <2>1. QED
    BY <1>10
<1> HIDE DEF a
<1>12. ASSUME NEW i \in 1 .. L + 1, NEW j \in 1 .. L + 1, i < j PROVE a[i] < a[j]
  <2>1. i \in 1 .. L
    BY <1>1, <1>12, <1>9
  <2>2. CASE j \in 1 .. L
    BY <1>2, <1>5, <1>12, <2>1, <2>2
  <2>3. CASE j = L + 1
    BY <1>5, <1>6, <1>7, <2>1, <2>3
  <2>4. QED
    BY <1>9, <2>2, <2>3
<1>13. \A k \in next : k \in here \/ k = n + 1
  BY DEF next, here
<1>14. ASSUME NEW k \in next PROVE \E i \in 1 .. L + 1 : a[i] = k
  BY <1>2, <1>3, <1>4, <1>5, <1>6, <1>13
<1>15. \A i \in 1 .. L + 1 : q[i] = list[a[i]]
  BY <1>2, <1>3, <1>4, <1>5, <1>6, <1>9
<1>16. PlacedBy(a, q, list, next)
  BY <1>1, <1>11, <1>12, <1>14, <1>15 DEF PlacedBy
<1>17. QED
  BY <1>16 DEF q, next

\* What is picked from a list: its elements at these places, in their order.
LEMMA PickedFacts ==
    ASSUME NEW list, IsList(list), NEW places, places \subseteq DOMAIN list
    PROVE  /\ Picked(list, places) \in Seq(Range(list))
           /\ \E at : PlacedBy(at, Picked(list, places), list, places)
<1> DEFINE N == Len(list)
<1>1. PICK u \in [0 .. N -> Seq(Range(list))] :
              /\ u[0] = << >>
              /\ \A n \in 1 .. N : u[n] = IF n \in places THEN Append(u[n - 1], list[n]) ELSE u[n - 1]
              /\ Picked(list, places) = u[N]
  BY PickedSteps
<1>2. N \in Nat /\ DOMAIN list = 1 .. N
  BY ListFacts
<1> DEFINE Placed(n) == \E at : PlacedBy(at, u[n], list, places \cap (1 .. n))
           S == {n \in Nat : n <= N => Placed(n)}
<1>3. 0 \in S
  <2>1. u[0] = << >> /\ Len(u[0]) = 0 /\ 1 .. 0 = {}
    BY <1>1
  <2>2. PlacedBy(<< >>, u[0], list, places \cap (1 .. 0))
    BY <2>1 DEF PlacedBy
  <2>3. QED
    BY <2>2
<1>4. ASSUME NEW n \in Nat, n + 1 <= N, Placed(n) PROVE Placed(n + 1)
  <2>1. n + 1 \in 1 .. N /\ n \in 0 .. N /\ (n + 1) - 1 = n
    BY <1>2, <1>4
  <2>2. PICK at : PlacedBy(at, u[n], list, places \cap (1 .. n))
    BY <1>4
  <2>3. u[n] \in Seq(Range(list))
    BY <2>1
  <2>4. u[n + 1] = IF n + 1 \in places THEN Append(u[n], list[n + 1]) ELSE u[n]
    BY <1>1, <2>1
  <2>5. CASE n + 1 \in places
    <3>1. u[n + 1] = Append(u[n], list[n + 1])
      BY <2>4, <2>5
    <3>2. \E a : PlacedBy(a, Append(u[n], list[n + 1]), list, places \cap (1 .. n + 1))
      BY <2>1, <2>2, <2>3, <2>5, PlacedStep
    <3>3. QED
      BY <3>1, <3>2
  <2>6. CASE n + 1 \notin places
    <3>1. places \cap (1 .. n + 1) = places \cap (1 .. n)
      BY <2>6
    <3>2. QED
      BY <2>2, <2>4, <2>6, <3>1
  <2>7. QED
    BY <2>5, <2>6
<1>5. Placed(N)
  <2> HIDE DEF Placed
  <2>1. \A n \in Nat : n \in S => n + 1 \in S
    BY <1>2, <1>4
  <2> HIDE DEF S
  <2>2. \A n \in Nat : n \in S
    BY <1>3, <2>1, SetInduction
  <2>3. QED
    BY <1>2, <2>2 DEF S
<1>6. places \cap (1 .. N) = places
  BY <1>2
<1>7. \E at : PlacedBy(at, u[N], list, places)
  BY <1>5, <1>6
<1>8. u[N] \in Seq(Range(list))
  BY <1>2
<1>9. QED
  BY <1>1, <1>7, <1>8

\* The elements picked, and how many they are.
LEMMA PickedElements ==
    ASSUME NEW list, IsList(list), NEW places, places \subseteq DOMAIN list
    PROVE  /\ IsList(Picked(list, places))
           /\ \A k \in places : list[k] \in Range(Picked(list, places))
           /\ \A i \in DOMAIN Picked(list, places) : \E k \in places : Picked(list, places)[i] = list[k]
           /\ IsFiniteSet(places) /\ Len(Picked(list, places)) = Cardinality(places)
<1> DEFINE p == Picked(list, places)
           L == Len(p)
<1>1. p \in Seq(Range(list)) /\ \E at : PlacedBy(at, p, list, places)
  BY PickedFacts
<1>2. IsList(p)
  BY <1>1, SeqIsList
<1>3. L \in Nat /\ DOMAIN p = 1 .. L
  BY <1>2, ListFacts
<1>4. PICK at : PlacedBy(at, p, list, places)
  BY <1>1
<1> HIDE DEF p
<1>5. at \in [1 .. L -> places] /\ (\A i, j \in 1 .. L : i < j => at[i] < at[j])
      /\ (\A k \in places : \E i \in 1 .. L : at[i] = k) /\ (\A i \in 1 .. L : p[i] = list[at[i]])
  BY <1>4 DEF PlacedBy
<1>6. places \subseteq Nat
  BY ListFacts
<1>7. ASSUME NEW k \in places PROVE list[k] \in Range(p)
  BY <1>3, <1>5 DEF Range
<1>8. ASSUME NEW i \in DOMAIN p PROVE \E k \in places : p[i] = list[k]
  BY <1>3, <1>5
<1> HIDE DEF L
<1>9. \A i, j \in 1 .. L : at[i] = at[j] => i = j
  <2> SUFFICES ASSUME NEW i \in 1 .. L, NEW j \in 1 .. L, at[i] = at[j], i # j PROVE FALSE
    OBVIOUS
  <2>1. i < j \/ j < i
    BY <1>3
  <2>2. at[i] \in Nat /\ at[j] \in Nat
    BY <1>5, <1>6
  <2>3. QED
    BY <1>5, <2>1, <2>2
<1>10. IsFiniteSet(1 .. L) /\ Cardinality(1 .. L) = L
  <2>1. IsFiniteSet(1 .. L) /\ Cardinality(1 .. L) = IF 1 > L THEN 0 ELSE L - 1 + 1
    BY <1>3, FS_Interval
  <2>2. (IF 1 > L THEN 0 ELSE L - 1 + 1) = L
    BY <1>3
  <2>3. QED
    BY <2>1, <2>2
<1>11. at \in Bijection(1 .. L, places)
  BY <1>5, <1>9 DEF Bijection, Injection, Surjection, IsInjective
<1>12. ExistsBijection(1 .. L, places)
  BY <1>11 DEF ExistsBijection
<1>13. IsFiniteSet(places) /\ Cardinality(places) = Cardinality(1 .. L)
  BY <1>10, <1>12, FS_Bijection
<1>14. QED
  BY <1>2, <1>7, <1>8, <1>10, <1>13 DEF p, L

\* Each element, at its first place.
LEMMA DistinctFacts ==
    ASSUME NEW list, IsList(list)
    PROVE  /\ IsList(Distinct(list))
           /\ \A k \in DOMAIN list : list[k] \in Range(Distinct(list))
           /\ \A i \in DOMAIN Distinct(list) : \E k \in DOMAIN list : Distinct(list)[i] = list[k]
           /\ IsFiniteSet(Range(list)) /\ Len(Distinct(list)) = Cardinality(Range(list))
<1> DEFINE first == FirstPlaces(list)
<1>1. Distinct(list) = Picked(list, first)
  BY DEF Distinct, Once
<1>2. first \subseteq DOMAIN list /\ DOMAIN list \subseteq Nat
      /\ \A k \in first : \A j \in DOMAIN list : list[j] = list[k] => k <= j
  BY ListFacts DEF FirstPlaces
<1>3. ASSUME NEW k \in DOMAIN list PROVE \E f \in first : list[f] = list[k]
  <2> DEFINE T == {j \in DOMAIN list : list[j] = list[k]}
  <2>1. T \subseteq Nat /\ T # {}
    BY <1>2
  <2>2. \A j \in T : j \in DOMAIN list /\ list[j] = list[k]
    OBVIOUS
  <2>3. \A j \in DOMAIN list : list[j] = list[k] => j \in T
    OBVIOUS
  <2> HIDE DEF T
  <2>4. PICK f \in T : \A j \in T : f <= j
    BY <2>1, Least
  <2>5. f \in first
    BY <2>2, <2>3, <2>4 DEF FirstPlaces
  <2>6. QED
    BY <2>2, <2>5
<1> HIDE DEF first
<1>4. /\ IsList(Picked(list, first))
      /\ \A k \in first : list[k] \in Range(Picked(list, first))
      /\ \A i \in DOMAIN Picked(list, first) : \E k \in first : Picked(list, first)[i] = list[k]
      /\ IsFiniteSet(first) /\ Len(Picked(list, first)) = Cardinality(first)
  BY <1>2, PickedElements
<1> DEFINE one == [k \in first |-> list[k]]
<1>5. one \in Bijection(first, Range(list))
  <2>1. \A k \in first : one[k] = list[k] /\ one[k] \in Range(list)
    BY <1>2, ListFacts
  <2>2. \A j, k \in first : one[j] = one[k] => j = k
    BY <1>2
  <2>3. \A x \in Range(list) : \E k \in first : one[k] = x
    BY <1>3, ListFacts
  <2>4. one \in [first -> Range(list)]
    BY <2>1
  <2> HIDE DEF one
  <2>5. QED
    BY <2>2, <2>3, <2>4 DEF Bijection, Injection, Surjection, IsInjective
<1>6. ExistsBijection(first, Range(list))
  BY <1>5 DEF ExistsBijection
<1>7. IsFiniteSet(Range(list)) /\ Cardinality(Range(list)) = Cardinality(first)
  BY <1>4, <1>6, FS_Bijection
<1>8. ASSUME NEW k \in DOMAIN list PROVE list[k] \in Range(Picked(list, first))
  BY <1>3, <1>4
<1>9. \A i \in DOMAIN Picked(list, first) : \E k \in DOMAIN list : Picked(list, first)[i] = list[k]
  BY <1>2, <1>4
<1>10. QED
  BY <1>1, <1>4, <1>7, <1>8, <1>9

\* Each place of the lists that were joined, once: its list, and its place in that list.
JoinedBy(row, col, joined, lists, n) ==
    /\ DOMAIN row = 1 .. Len(joined) /\ DOMAIN col = 1 .. Len(joined)
    /\ \A i \in 1 .. Len(joined) : /\ row[i] \in 1 .. n /\ col[i] \in 1 .. Len(lists[row[i]])
                                   /\ joined[i] = lists[row[i]][col[i]]
    /\ \A i, j \in 1 .. Len(joined) : row[i] = row[j] /\ col[i] = col[j] => i = j
    /\ \A c \in 1 .. n : \A k \in 1 .. Len(lists[c]) : \E i \in 1 .. Len(joined) : row[i] = c /\ col[i] = k

\* One more list.
LEMMA JoinedStep ==
    ASSUME NEW lists, NEW n \in Nat, NEW V, NEW p \in Seq(V), NEW q \in Seq(V), lists[n + 1] = q,
           NEW row, NEW col, JoinedBy(row, col, p, lists, n)
    PROVE  \E r, c : JoinedBy(r, c, p \o q, lists, n + 1)
<1> DEFINE L == Len(p)
           K == Len(q)
           s == p \o q
           r == [i \in 1 .. L + K |-> IF i <= L THEN row[i] ELSE n + 1]
           c == [i \in 1 .. L + K |-> IF i <= L THEN col[i] ELSE i - L]
<1>1. L \in Nat /\ K \in Nat /\ Len(s) = L + K
  OBVIOUS
<1>2. \A i \in 1 .. L : s[i] = p[i] /\ i \in 1 .. L + K /\ i <= L
  OBVIOUS
<1>3. \A k \in 1 .. K : s[L + k] = q[k] /\ L + k \in 1 .. L + K /\ ~(L + k <= L) /\ (L + k) - L = k
  OBVIOUS
<1>4. \A i \in 1 .. L + K : i \in 1 .. L \/ (i - L \in 1 .. K /\ L + (i - L) = i /\ i \notin 1 .. L)
  BY <1>1
<1>5. /\ \A i \in 1 .. L : row[i] \in 1 .. n /\ col[i] \in 1 .. Len(lists[row[i]]) /\ p[i] = lists[row[i]][col[i]]
      /\ \A i, j \in 1 .. L : row[i] = row[j] /\ col[i] = col[j] => i = j
      /\ \A d \in 1 .. n : \A k \in 1 .. Len(lists[d]) : \E i \in 1 .. L : row[i] = d /\ col[i] = k
  BY DEF JoinedBy
<1>6. \A i \in 1 .. L : r[i] = row[i] /\ c[i] = col[i]
  BY <1>2
<1>7. \A k \in 1 .. K : r[L + k] = n + 1 /\ c[L + k] = k
  BY <1>3
<1>8. DOMAIN r = 1 .. L + K /\ DOMAIN c = 1 .. L + K
  OBVIOUS
<1>9. \A i \in 1 .. n : i \in 1 .. n + 1 /\ i # n + 1
  OBVIOUS
<1>10. n + 1 \in 1 .. n + 1 /\ \A i \in 1 .. n + 1 : i = n + 1 \/ i \in 1 .. n
  OBVIOUS
<1> HIDE DEF r, c, s, L, K
<1>11. ASSUME NEW i \in 1 .. L + K
       PROVE  r[i] \in 1 .. n + 1 /\ c[i] \in 1 .. Len(lists[r[i]]) /\ s[i] = lists[r[i]][c[i]]
  <2>1. CASE i \in 1 .. L
    BY <1>2, <1>5, <1>6, <1>9, <2>1
  <2>2. CASE i \notin 1 .. L
    <3>1. PICK k \in 1 .. K : i = L + k
      BY <1>4, <2>2
    <3>2. lists[r[i]] = q /\ c[i] = k /\ r[i] = n + 1
      BY <1>7, <3>1
    <3>3. QED
      BY <1>3, <1>10, <3>1, <3>2 DEF K
  <2>3. QED
    BY <2>1, <2>2
<1>12. ASSUME NEW i \in 1 .. L + K, NEW j \in 1 .. L + K, r[i] = r[j], c[i] = c[j]
       PROVE  i = j
  <2>1. \A x \in 1 .. L + K : x \in 1 .. L \/ r[x] = n + 1
    <3> TAKE x \in 1 .. L + K
    <3>1. CASE x \notin 1 .. L
      <4>1. PICK k \in 1 .. K : x = L + k
        BY <1>4, <3>1
      <4>2. QED
        BY <1>7, <4>1
    <3>2. QED
      BY <3>1
  <2>2. CASE i \in 1 .. L
    <3>1. r[i] # n + 1
      BY <1>5, <1>6, <1>9, <2>2
    <3>2. j \in 1 .. L
      BY <1>12, <2>1, <3>1
    <3>3. QED
      BY <1>5, <1>6, <1>12, <2>2, <3>2
  <2>3. CASE i \notin 1 .. L
    <3>1. r[i] = n + 1
      BY <2>1, <2>3
    <3>2. j \notin 1 .. L
      BY <1>5, <1>6, <1>9, <1>12, <3>1
    <3>3. PICK k \in 1 .. K : i = L + k
      BY <1>4, <2>3
    <3>4. PICK l \in 1 .. K : j = L + l
      BY <1>4, <3>2
    <3>5. c[i] = k /\ c[j] = l
      BY <1>7, <3>3, <3>4
    <3>6. QED
      BY <1>12, <3>3, <3>4, <3>5
  <2>4. QED
    BY <2>2, <2>3
<1>13. ASSUME NEW d \in 1 .. n + 1, NEW k \in 1 .. Len(lists[d])
       PROVE  \E i \in 1 .. L + K : r[i] = d /\ c[i] = k
  <2>1. CASE d \in 1 .. n
    <3>1. PICK i \in 1 .. L : row[i] = d /\ col[i] = k
      BY <1>5, <2>1
    <3>2. QED
      BY <1>2, <1>6, <3>1
  <2>2. CASE d = n + 1
    <3>1. k \in 1 .. K
      BY <2>2 DEF K
    <3>2. QED
      BY <1>3, <1>7, <2>2, <3>1
  <2>3. QED
    BY <1>10, <2>1, <2>2
<1>14. JoinedBy(r, c, s, lists, n + 1)
  <2> DEFINE T == 1 .. Len(s)
  <2>1. T = 1 .. L + K
    BY <1>1
  <2> HIDE DEF T
  <2>2. DOMAIN r = T /\ DOMAIN c = T
    BY <1>8, <2>1
  <2>3. \A i \in T : r[i] \in 1 .. n + 1 /\ c[i] \in 1 .. Len(lists[r[i]]) /\ s[i] = lists[r[i]][c[i]]
    BY <1>11, <2>1, Zenon
  <2>4. \A i, j \in T : r[i] = r[j] /\ c[i] = c[j] => i = j
    BY <1>12, <2>1, Zenon
  <2>5. \A d \in 1 .. n + 1 : \A k \in 1 .. Len(lists[d]) : \E i \in T : r[i] = d /\ c[i] = k
    BY <1>13, <2>1, Zenon
  <2>6. QED
    BY <2>2, <2>3, <2>4, <2>5, Zenon DEF JoinedBy, T
<1>15. QED
  BY <1>14 DEF s

\* The loop that joins lists.
LEMMA JoinedSteps ==
    ASSUME NEW V, NEW lists, IsList(lists), \A c \in DOMAIN lists : lists[c] \in Seq(V)
    PROVE  \E u \in [0 .. Len(lists) -> Seq(V)] :
              /\ u[0] = << >>
              /\ \A n \in 1 .. Len(lists) : u[n] = u[n - 1] \o lists[n]
              /\ Joined(lists) = u[Len(lists)]
<1> DEFINE N == Len(lists)
           W == Seq(V)
           Step(g, n) == IF n = 0 THEN << >> ELSE g[n - 1] \o lists[n]
           step == [x \in W \X Nat |-> IF x[2] \in 1 .. N THEN x[1] \o lists[x[2]] ELSE x[1]]
           u == CHOOSE g : g = [n \in 0 .. N |-> Step(g, n)]
<1>1. N \in Nat /\ \A n \in 1 .. N : lists[n] \in W
  BY ListFacts
<1>2. << >> \in W
  OBVIOUS
<1>3. \A v \in W : \A k \in 1 .. N : step[<<v, k>>] = v \o lists[k] /\ step[<<v, k>>] \in W
  <2> SUFFICES ASSUME NEW v \in W, NEW k \in 1 .. N
               PROVE  step[<<v, k>>] = v \o lists[k] /\ step[<<v, k>>] \in W
    OBVIOUS
  <2>1. v \o lists[k] \in W
    BY <1>1
  <2>2. << v, k >> \in W \X Nat
    BY <1>1
  <2> HIDE DEF W, N
  <2>3. step[<<v, k>>] = v \o lists[k]
    BY <2>2
  <2>4. QED
    BY <2>1, <2>3
<1>4. PICK f \in [0 .. N -> W] : f[0] = << >> /\ \A k \in 1 .. N : f[k] = step[<<f[k - 1], k>>]
  <2>1. Steps(W, << >>, N, step)
    BY <1>1, <1>2, <1>3 DEF Steps
  <2> HIDE DEF W, N, step
  <2>2. Follows(W, << >>, N, step)
    BY <2>1, Recursion
  <2>3. QED
    BY <2>2 DEF Follows
<1> HIDE DEF step
<1>5. ASSUME NEW k \in 1 .. N PROVE f[k] = f[k - 1] \o lists[k] /\ k # 0 /\ k - 1 \in 0 .. N
  <2> HIDE DEF W, N
  <2>1. k # 0 /\ k - 1 \in 0 .. N
    BY <1>1
  <2>2. f[k - 1] \in W
    BY <2>1
  <2>3. f[k] = step[<<f[k - 1], k>>]
    BY <1>4
  <2>4. QED
    BY <1>3, <2>1, <2>2, <2>3
<1>6. f = [n \in 0 .. N |-> Step(f, n)]
  <2>1. ASSUME NEW n \in 0 .. N PROVE f[n] = Step(f, n)
    <3>1. CASE n = 0
      BY <1>4, <3>1
    <3>2. CASE n # 0
      <4>1. n \in 1 .. N
        BY <1>1, <3>2
      <4>2. f[n] = f[n - 1] \o lists[n]
        BY <1>5, <4>1
      <4>3. QED
        BY <4>2, <3>2
    <3>3. QED
      BY <3>1, <3>2
  <2> HIDE DEF Step, W
  <2>2. QED
    BY <2>1
<1>7. u = [n \in 0 .. N |-> Step(u, n)]
  <2> HIDE DEF Step, N
  <2>1. QED
    BY <1>6
<1>8. ASSUME NEW n \in 0 .. N PROVE u[n] = Step(u, n)
  <2> HIDE DEF Step, u, N
  <2>1. QED
    BY <1>7
<1>9. Joined(lists) = u[N]
  BY DEF Joined
<1> HIDE DEF u
<1>10. u[0] = << >> /\ \A n \in 1 .. N : u[n] = u[n - 1] \o lists[n]
  <2>1. u[0] = << >>
    BY <1>1, <1>8
  <2>2. ASSUME NEW n \in 1 .. N PROVE u[n] = u[n - 1] \o lists[n]
    <3>1. n \in 0 .. N /\ n # 0
      BY <1>1
    <3>2. u[n] = Step(u, n)
      BY <1>8, <3>1
    <3>3. QED
      BY <3>1, <3>2
  <2>3. QED
    BY <2>1, <2>2
<1>11. \A n \in 0 .. N : u[n] \in W
  <2> DEFINE S == {n \in Nat : n \in 0 .. N => u[n] \in W}
  <2>1. 0 \in S
    BY <1>1, <1>2, <1>10
  <2>2. ASSUME NEW n \in Nat, n \in S PROVE n + 1 \in S
    <3>1. SUFFICES ASSUME n + 1 \in 0 .. N PROVE u[n + 1] \in W
      BY <2>2
    <3>2. n \in 0 .. N /\ n + 1 \in 1 .. N /\ (n + 1) - 1 = n
      BY <1>1, <3>1
    <3>3. u[n] \in W /\ lists[n + 1] \in W
      BY <1>1, <2>2, <3>2
    <3>4. u[n + 1] = u[n] \o lists[n + 1]
      BY <1>10, <3>2
    <3>5. u[n] \o lists[n + 1] \in W
      BY <3>3
    <3>6. QED
      BY <3>4, <3>5
  <2>3. \A n \in Nat : n \in S
    <3> HIDE DEF S
    <3>1. QED
      BY <2>1, <2>2, SetInduction
  <2>4. QED
    BY <1>1, <2>3
<1>12. u \in [0 .. N -> W]
  <2> HIDE DEF W, N, Step
  <2>1. QED
    BY <1>7, <1>11
<1>13. QED
  BY <1>9, <1>10, <1>12

\* The places of lists.
Spots(lists) == UNION { {c} \X (1 .. Len(lists[c])) : c \in DOMAIN lists }

\* What lists become that are joined: their elements, as many as their places.
LEMMA JoinedFacts ==
    ASSUME NEW V, NEW lists, IsList(lists), \A c \in DOMAIN lists : lists[c] \in Seq(V)
    PROVE  /\ Joined(lists) \in Seq(V) /\ IsList(Joined(lists))
           /\ \A c \in DOMAIN lists : \A k \in DOMAIN lists[c] : lists[c][k] \in Range(Joined(lists))
           /\ \A i \in DOMAIN Joined(lists) :
                 \E c \in DOMAIN lists : \E k \in DOMAIN lists[c] : Joined(lists)[i] = lists[c][k]
           /\ Len(Joined(lists)) = Cardinality(Spots(lists))
<1> DEFINE N == Len(lists)
           spots == UNION { {c} \X (1 .. Len(lists[c])) : c \in DOMAIN lists }
<1>1. PICK u \in [0 .. N -> Seq(V)] :
              /\ u[0] = << >>
              /\ \A n \in 1 .. N : u[n] = u[n - 1] \o lists[n]
              /\ Joined(lists) = u[N]
  BY JoinedSteps
<1>2. N \in Nat /\ DOMAIN lists = 1 .. N
  BY ListFacts
<1> DEFINE By(n) == \E r, c : JoinedBy(r, c, u[n], lists, n)
           S == {n \in Nat : n <= N => By(n)}
<1>3. 0 \in S
  <2>1. u[0] = << >> /\ Len(u[0]) = 0 /\ 1 .. 0 = {}
    BY <1>1
  <2>2. JoinedBy(<< >>, << >>, u[0], lists, 0)
    BY <2>1 DEF JoinedBy
  <2>3. QED
    BY <2>2
<1>4. ASSUME NEW n \in Nat, n + 1 <= N, By(n) PROVE By(n + 1)
  <2>1. n + 1 \in 1 .. N /\ n \in 0 .. N /\ (n + 1) - 1 = n
    BY <1>2, <1>4
  <2>2. PICK r, c : JoinedBy(r, c, u[n], lists, n)
    BY <1>4
  <2>3. u[n] \in Seq(V) /\ lists[n + 1] \in Seq(V)
    BY <1>2, <2>1
  <2>4. u[n + 1] = u[n] \o lists[n + 1]
    BY <1>1, <2>1
  <2>5. \E a, b : JoinedBy(a, b, u[n] \o lists[n + 1], lists, n + 1)
    BY <2>2, <2>3, JoinedStep
  <2>6. QED
    BY <2>4, <2>5
<1>5. By(N)
  <2> HIDE DEF By
  <2>1. \A n \in Nat : n \in S => n + 1 \in S
    BY <1>2, <1>4
  <2> HIDE DEF S
  <2>2. \A n \in Nat : n \in S
    BY <1>3, <2>1, SetInduction
  <2>3. QED
    BY <1>2, <2>2 DEF S
<1> DEFINE j == u[N]
           L == Len(j)
<1>6. j \in Seq(V) /\ Joined(lists) = j
  BY <1>1, <1>2
<1>7. PICK row, col : JoinedBy(row, col, j, lists, N)
  BY <1>5
<1> HIDE DEF j
<1>8. L \in Nat /\ DOMAIN j = 1 .. L
  BY <1>6
<1> HIDE DEF N
<1>9. /\ \A i \in 1 .. L : row[i] \in 1 .. N /\ col[i] \in 1 .. Len(lists[row[i]]) /\ j[i] = lists[row[i]][col[i]]
      /\ \A i, k \in 1 .. L : row[i] = row[k] /\ col[i] = col[k] => i = k
      /\ \A c \in 1 .. N : \A k \in 1 .. Len(lists[c]) : \E i \in 1 .. L : row[i] = c /\ col[i] = k
  BY <1>7 DEF JoinedBy
<1>10. \A c \in 1 .. N : DOMAIN lists[c] = 1 .. Len(lists[c])
  BY <1>2
<1>11. ASSUME NEW c \in DOMAIN lists, NEW k \in DOMAIN lists[c] PROVE lists[c][k] \in Range(j)
  <2>1. c \in 1 .. N /\ k \in 1 .. Len(lists[c])
    BY <1>2, <1>10
  <2>2. PICK i \in 1 .. L : row[i] = c /\ col[i] = k
    <3>1. \A m \in 1 .. Len(lists[c]) : \E i \in 1 .. L : row[i] = c /\ col[i] = m
      BY <1>9, <2>1, Zenon
    <3>2. QED
      BY <2>1, <3>1, Zenon
  <2>3. j[i] = lists[c][k] /\ i \in DOMAIN j
    BY <1>8, <1>9, <2>2
  <2>4. QED
    BY <2>3 DEF Range
<1>12. ASSUME NEW i \in DOMAIN j PROVE \E c \in DOMAIN lists : \E k \in DOMAIN lists[c] : j[i] = lists[c][k]
  <2>1. i \in 1 .. L
    BY <1>8
  <2>2. row[i] \in DOMAIN lists /\ row[i] \in 1 .. N
    BY <1>2, <1>9, <2>1
  <2>3. col[i] \in DOMAIN lists[row[i]]
    BY <1>9, <1>10, <2>1, <2>2
  <2>4. QED
    BY <1>9, <2>1, <2>2, <2>3
<1> HIDE DEF L
<1> DEFINE at == [i \in 1 .. L |-> << row[i], col[i] >>]
<1>13. ASSUME NEW c \in 1 .. N, NEW k \in 1 .. Len(lists[c]) PROVE << c, k >> \in spots
  <2>1. << c, k >> \in {c} \X (1 .. Len(lists[c]))
    OBVIOUS
  <2>2. c \in DOMAIN lists
    BY <1>2
  <2>3. QED
    BY <2>1, <2>2, Zenon
<1>14. \A x \in spots : \E c \in 1 .. N : \E k \in 1 .. Len(lists[c]) : x = << c, k >>
  BY <1>2
<1> HIDE DEF spots
<1>15. at \in Bijection(1 .. L, spots)
  <2>1. \A i \in 1 .. L : at[i] = << row[i], col[i] >> /\ at[i] \in spots
    BY <1>9, <1>13
  <2>2. at \in [1 .. L -> spots]
    BY <2>1
  <2> HIDE DEF at
  <2>3. ASSUME NEW i \in 1 .. L, NEW k \in 1 .. L, at[i] = at[k] PROVE i = k
    BY <1>9, <2>1, <2>3
  <2>4. ASSUME NEW x \in spots PROVE \E i \in 1 .. L : at[i] = x
    <3>0. PICK c \in 1 .. N : \E k \in 1 .. Len(lists[c]) : x = << c, k >>
      BY <1>14
    <3>1. PICK k \in 1 .. Len(lists[c]) : x = << c, k >>
      BY <3>0
    <3>2. PICK i \in 1 .. L : row[i] = c /\ col[i] = k
      BY <1>9, <3>1
    <3>3. QED
      BY <2>1, <3>1, <3>2
  <2>5. QED
    BY <2>2, <2>3, <2>4 DEF Bijection, Injection, Surjection, IsInjective
<1>16. ExistsBijection(1 .. L, spots)
  BY <1>15 DEF ExistsBijection
<1>17. IsFiniteSet(1 .. L) /\ Cardinality(1 .. L) = L
  <2>1. IsFiniteSet(1 .. L) /\ Cardinality(1 .. L) = IF 1 > L THEN 0 ELSE L - 1 + 1
    BY <1>8, FS_Interval
  <2>2. (IF 1 > L THEN 0 ELSE L - 1 + 1) = L
    BY <1>8
  <2>3. QED
    BY <2>1, <2>2
<1>18. Cardinality(spots) = L
  BY <1>16, <1>17, FS_Bijection
<1>19. IsList(j)
  BY <1>6, SeqIsList
<1>20. QED
  BY <1>6, <1>11, <1>12, <1>18, <1>19 DEF spots, L, Spots
-----------------------------------------------------------------------------
(* Sorted lists *)

\* The elements of a list, each once, in another order.
Permuted(s, t) ==
    \E places \in Bijection(DOMAIN s, DOMAIN s) : t = [p \in DOMAIN s |-> s[places[p]]]

\* A permuted list has the same elements, as often.
LEMMA PermutedFacts ==
    ASSUME NEW s, IsList(s), NEW t, Permuted(s, t)
    PROVE  /\ IsList(t) /\ Len(t) = Len(s) /\ DOMAIN t = DOMAIN s
           /\ \A i \in DOMAIN t : \E k \in DOMAIN s : t[i] = s[k]
<1>1. PICK places \in Bijection(DOMAIN s, DOMAIN s) : t = [p \in DOMAIN s |-> s[places[p]]]
  BY DEF Permuted
<1>2. Len(s) \in Nat /\ DOMAIN s = 1 .. Len(s)
  BY ListFacts
<1>3. /\ DOMAIN t = DOMAIN s
      /\ \A p \in DOMAIN s : t[p] = s[places[p]] /\ places[p] \in DOMAIN s
      /\ \A p, q \in DOMAIN s : p # q => places[p] # places[q]
      /\ \A k \in DOMAIN s : \E p \in DOMAIN s : places[p] = k
  BY <1>1 DEF Bijection, Injection, Surjection, IsInjective
<1>4. IsList(t) /\ Len(t) = Len(s)
  <2> DEFINE n == Len(s)
  <2>1. n \in Nat /\ DOMAIN t = 1 .. n
    BY <1>2, <1>3
  <2>2. t = [i \in DOMAIN t |-> t[i]]
    BY <1>1
  <2> HIDE DEF n
  <2>3. IsList(t) /\ Len(t) = n
    BY <2>1, <2>2, FunctionIsList
  <2>4. QED
    BY <2>3 DEF n
<1>5. QED
  BY <1>3, <1>4

\* In a strict order of the first n numbers, each has a rank, and no two the same.
LEMMA RanksArePlaces ==
    ASSUME NEW n \in Nat, NEW R,
           \A i \in 1 .. n : <<i, i>> \notin R,
           \A i, j, k \in 1 .. n : <<i, j>> \in R /\ <<j, k>> \in R => <<i, k>> \in R,
           \A i, j \in 1 .. n : i = j \/ <<i, j>> \in R \/ <<j, i>> \in R
    PROVE  Ranks(1 .. n, R) \in Bijection(1 .. n, 1 .. n)
<1> DEFINE N == 1 .. n
           rank == Ranks(1 .. n, R)
           Upto(k) == {j \in N : j = k \/ <<j, k>> \in R}
<1>1. IsFiniteSet(N) /\ Cardinality(N) = n
  <2>1. IsFiniteSet(N) /\ Cardinality(N) = IF 1 > n THEN 0 ELSE n - 1 + 1
    BY FS_Interval
  <2>2. (IF 1 > n THEN 0 ELSE n - 1 + 1) = n
    OBVIOUS
  <2>3. QED
    BY <2>1, <2>2
<1>2. ASSUME NEW k \in N
      PROVE  IsFiniteSet(Upto(k)) /\ rank[k] = Cardinality(Upto(k)) /\ rank[k] \in N
  <2>1. Upto(k) \in SUBSET N /\ k \in Upto(k)
    OBVIOUS
  <2>2. IsFiniteSet(Upto(k)) /\ Cardinality(Upto(k)) <= n
    <3>1. \A T \in SUBSET N : IsFiniteSet(T) /\ Cardinality(T) <= Cardinality(N)
      BY <1>1, FS_Subset
    <3> HIDE DEF N, Upto
    <3>2. QED
      BY <1>1, <2>1, <3>1
  <2>3. Cardinality(Upto(k)) # 0 /\ Cardinality(Upto(k)) \in Nat
    <3> HIDE DEF N, Upto
    <3>1. Upto(k) # {}
      BY <2>1
    <3>2. QED
      BY <2>2, <3>1, FS_EmptySet, FS_CardinalityType
  <2>4. rank[k] = Cardinality(Upto(k))
    BY DEF Ranks
  <2> HIDE DEF Upto
  <2>5. QED
    BY <2>2, <2>3, <2>4
<1>3. ASSUME NEW k \in N, NEW l \in N, <<k, l>> \in R PROVE rank[k] # rank[l]
  <2>1. Upto(k) \in SUBSET Upto(l) /\ l \in Upto(l) /\ l \notin Upto(k)
    <3>1. l \notin Upto(k)
      <4>1. ~(<<l, k>> \in R)
        BY <1>3
      <4>2. l # k
        BY <1>3
      <4>3. QED
        BY <4>1, <4>2
    <3>2. QED
      BY <1>3, <3>1
  <2>2. Upto(k) # Upto(l)
    BY <2>1
  <2> HIDE DEF Upto
  <2>3. Cardinality(Upto(l)) # Cardinality(Upto(k))
    BY <1>2, <2>1, <2>2, FS_Subset
  <2>4. QED
    BY <1>2, <2>3
<1>4. rank \in Injection(N, N)
  <2>1. rank \in [N -> N]
    BY <1>2 DEF Ranks
  <2>2. \A k, l \in N : rank[k] = rank[l] => k = l
    BY <1>3
  <2>3. QED
    BY <2>1, <2>2 DEF Injection, IsInjective
<1>5. rank \in Surjection(N, N)
  BY <1>1, <1>4, FS_Injection
<1>6. QED
  BY <1>4, <1>5 DEF Bijection

\* To put each element at its rank permutes a list.
LEMMA SortingPermutes ==
    ASSUME NEW s, NEW rank \in Bijection(DOMAIN s, DOMAIN s), NEW t,
           t = [p \in DOMAIN s |-> s[CHOOSE k \in DOMAIN s : rank[k] = p]]
    PROVE  Permuted(s, t)
<1> DEFINE D == DOMAIN s
           places == [p \in D |-> CHOOSE k \in D : rank[k] = p]
<1>1. /\ rank \in [D -> D]
      /\ \A k, l \in D : rank[k] = rank[l] => k = l
      /\ \A p \in D : \E k \in D : rank[k] = p
  BY DEF Bijection, Injection, Surjection, IsInjective
<1>2. \A p \in D : places[p] \in D /\ rank[places[p]] = p
  BY <1>1
<1>3. places \in Bijection(D, D)
  <2>1. places \in [D -> D]
    BY <1>2
  <2>2. \A p, q \in D : places[p] = places[q] => p = q
    BY <1>2
  <2>3. \A k \in D : \E p \in D : places[p] = k
    <3> TAKE k \in D
    <3>1. rank[k] \in D
      BY <1>1
    <3>2. rank[places[rank[k]]] = rank[k] /\ places[rank[k]] \in D
      BY <1>2, <3>1
    <3>3. places[rank[k]] = k
      BY <1>1, <3>2
    <3>4. QED
      BY <3>1, <3>3
  <2> HIDE DEF places
  <2>4. QED
    BY <2>1, <2>2, <2>3 DEF Bijection, Injection, Surjection, IsInjective
<1>4. t = [p \in D |-> s[places[p]]]
  OBVIOUS
<1> HIDE DEF places
<1>5. QED
  BY <1>3, <1>4 DEF Permuted

\* A list sorted by a strict order of its places is permuted.
LEMMA SortedIsPermuted ==
    ASSUME NEW s, IsList(s), NEW R,
           \A i \in DOMAIN s : <<i, i>> \notin R,
           \A i, j, k \in DOMAIN s : <<i, j>> \in R /\ <<j, k>> \in R => <<i, k>> \in R,
           \A i, j \in DOMAIN s : i = j \/ <<i, j>> \in R \/ <<j, i>> \in R
    PROVE  Permuted(s, Sorted(s, R))
<1> DEFINE n == Len(s)
           rank == Ranks(DOMAIN s, R)
<1>1. Sorted(s, R) = [p \in DOMAIN s |-> s[CHOOSE k \in DOMAIN s : rank[k] = p]]
  BY Zenon DEF Sorted
<1>2. n \in Nat /\ DOMAIN s = 1 .. n
  BY ListFacts
<1> HIDE DEF n
<1>3. rank \in Bijection(DOMAIN s, DOMAIN s)
  <2>1. /\ \A i \in 1 .. n : <<i, i>> \notin R
        /\ \A i, j, k \in 1 .. n : <<i, j>> \in R /\ <<j, k>> \in R => <<i, k>> \in R
        /\ \A i, j \in 1 .. n : i = j \/ <<i, j>> \in R \/ <<j, i>> \in R
    BY <1>2
  <2>2. Ranks(1 .. n, R) \in Bijection(1 .. n, 1 .. n)
    BY <1>2, <2>1, RanksArePlaces
  <2>3. QED
    BY <1>2, <2>2
<1> HIDE DEF rank
<1>4. QED
  BY <1>1, <1>3, SortingPermutes

-----------------------------------------------------------------------------
(* Lists that are joined, bounded and mapped *)

\* One list after another.
LEMMA ConcatFacts ==
    ASSUME NEW s, IsList(s), NEW t, IsList(t)
    PROVE  /\ IsList(s \o t) /\ Len(s \o t) = Len(s) + Len(t) /\ Len(s) \in Nat /\ Len(t) \in Nat
           /\ \A k \in DOMAIN (s \o t) : \/ k \in DOMAIN s /\ (s \o t)[k] = s[k]
                                         \/ k - Len(s) \in DOMAIN t /\ (s \o t)[k] = t[k - Len(s)]
           /\ \A k \in DOMAIN s : s[k] \in Range(s \o t)
           /\ \A k \in DOMAIN t : t[k] \in Range(s \o t)
<1> DEFINE V == Range(s) \cup Range(t)
           u == s \o t
<1>1. /\ Len(s) \in Nat /\ DOMAIN s = 1 .. Len(s) /\ Len(t) \in Nat /\ DOMAIN t = 1 .. Len(t)
  BY ListFacts
<1>2. s \in Seq(V) /\ t \in Seq(V)
  <2>1. s \in Seq(Range(s)) /\ t \in Seq(Range(t))
    BY ListFacts
  <2> DEFINE A == Range(s)
             B == Range(t)
  <2> HIDE DEF A, B
  <2>2. A \subseteq A \cup B /\ B \subseteq A \cup B
    OBVIOUS
  <2>3. s \in Seq(A \cup B) /\ t \in Seq(A \cup B)
    BY <2>1, <2>2 DEF A, B
  <2>4. QED
    BY <2>3 DEF A, B
<1> HIDE DEF V
<1>3. u \in Seq(V) /\ Len(u) = Len(s) + Len(t) /\ DOMAIN u = 1 .. Len(s) + Len(t)
  BY <1>2
<1>4. \A k \in 1 .. Len(s) : u[k] = s[k] /\ k \in DOMAIN u
  BY <1>1, <1>2, <1>3
<1>5. \A k \in 1 .. Len(t) : u[Len(s) + k] = t[k] /\ Len(s) + k \in DOMAIN u
  BY <1>1, <1>2, <1>3
<1>6. IsList(u)
  BY <1>3, SeqIsList
<1> HIDE DEF u
<1>7. ASSUME NEW k \in DOMAIN u
      PROVE  (k \in DOMAIN s /\ u[k] = s[k]) \/ (k - Len(s) \in DOMAIN t /\ u[k] = t[k - Len(s)])
  <2>1. CASE k <= Len(s)
    BY <1>1, <1>3, <1>4, <2>1
  <2>2. CASE ~(k <= Len(s))
    <3>1. k - Len(s) \in 1 .. Len(t) /\ Len(s) + (k - Len(s)) = k
      BY <1>1, <1>3, <2>2
    <3>2. QED
      BY <1>1, <1>5, <3>1
  <2>3. QED
    BY <2>1, <2>2
<1>8. \A k \in DOMAIN s : s[k] \in Range(u)
  BY <1>1, <1>4 DEF Range
<1>9. \A k \in DOMAIN t : t[k] \in Range(u)
  BY <1>1, <1>5 DEF Range
<1>10. QED
  BY <1>1, <1>3, <1>6, <1>7, <1>8, <1>9 DEF u

\* The least of two numbers.
LEMMA LeastOfTwo ==
    ASSUME NEW m \in Nat, NEW n \in Nat
    PROVE  Min({m, n}) = IF m <= n THEN m ELSE n
BY DEF Min

\* A list within a bound, and what is said of it.
LEMMA BoundFacts ==
    ASSUME NEW s, IsList(s), NEW n \in Nat
    PROVE  /\ IsList(Bound(s, n)) /\ Len(Bound(s, n)) = Min({n, Len(s)}) /\ Len(Bound(s, n)) <= Len(s)
           /\ \A k \in DOMAIN Bound(s, n) : k \in DOMAIN s /\ Bound(s, n)[k] = s[k]
           /\ Cut(s, n) = [ total |-> Len(s), included |-> Len(Bound(s, n)) ]
<1> DEFINE m == Min({n, Len(s)})
           b == SubSeq(s, 1, m)
<1>1. Len(s) \in Nat /\ DOMAIN s = 1 .. Len(s) /\ s \in Seq(Range(s))
  BY ListFacts
<1>2. m \in Nat /\ m <= Len(s)
  BY <1>1, LeastOfTwo
<1> HIDE DEF m
<1>3. b \in Seq(Range(s)) /\ Len(b) = m /\ DOMAIN b = 1 .. m /\ \A k \in 1 .. m : b[k] = s[k]
  BY <1>1, <1>2
<1>4. Bound(s, n) = b
  BY DEF Bound, m
<1>5. Cut(s, n) = [ total |-> Len(s), included |-> m ]
  BY DEF Cut, m
<1> HIDE DEF b
<1>6. IsList(b)
  BY <1>3, SeqIsList
<1>7. \A k \in DOMAIN b : k \in DOMAIN s /\ b[k] = s[k]
  BY <1>1, <1>2, <1>3
<1>8. QED
  BY <1>2, <1>3, <1>4, <1>5, <1>6, <1>7 DEF m

\* A function of the places of a list is a list as long.
LEMMA MappedIsList ==
    ASSUME NEW s, IsList(s), NEW t, DOMAIN t = DOMAIN s, t = [k \in DOMAIN t |-> t[k]]
    PROVE  IsList(t) /\ Len(t) = Len(s)
<1>1. Len(s) \in Nat /\ DOMAIN s = 1 .. Len(s)
  BY ListFacts
<1>2. QED
  BY <1>1, FunctionIsList

-----------------------------------------------------------------------------
(* The sections *)

\* The places of the metrics that have a value.
KnownPlaces(r) == {k \in DOMAIN r.kpis : Known(r.kpis[k])}

\* The facts are the metrics that have a value.
LEMMA FactsAre ==
    ASSUME NEW r
    PROVE  Facts(r) = [k \in DOMAIN Picked(r.kpis, KnownPlaces(r)) |->
              [ id |-> << "kpi", Picked(r.kpis, KnownPlaces(r))[k].metric >>,
                number |-> Picked(r.kpis, KnownPlaces(r))[k].value ]]
BY DEF Facts, Mapped, Filter, Once, KnownPlaces

\* The findings are the insights, each with its place for identifier.
LEMMA FindingsAre ==
    ASSUME NEW r
    PROVE  Findings(r) = [k \in DOMAIN Insights(r) |-> [ id |-> << "finding", k >>, number |-> Insights(r)[k].impact ]]
BY DEF Findings, Mapped, Once

\* The root causes are those of the report, each with the identifiers of its factors.
LEMMA CausesAre ==
    ASSUME NEW r
    PROVE  RootCauses(r) = [c \in DOMAIN r.causes |->
              [ id |-> << "root_cause", c >>, number |-> r.causes[c].change,
                factor_ids |-> [k \in DOMAIN r.causes[c].factors |-> FactorId(c, r.causes[c].factors[k])] ]]
BY DEF RootCauses, Mapped, Once

\* The recommendations are those of the report, each with the finding it is linked to.
LEMMA RecommendationsAre ==
    ASSUME NEW r
    PROVE  Recommendations(r) = [k \in DOMAIN r.recommendations |->
              [ id |-> << "recommendation", k >>, action |-> r.recommendations[k].action,
                source |-> IF Linked(r)[k] = None THEN None ELSE << "finding", Linked(r)[k] >> ]]
BY DEF Recommendations, Mapped, Once

\* The limitations are those of the report.
LEMMA LimitationsAre ==
    ASSUME NEW r
    PROVE  Limitations(r) = [k \in DOMAIN r.limitations |-> [ id |-> << "limitation", k >>]]
BY DEF Limitations, Mapped, Once

\* The dimensions are those of the report.
LEMMA DimensionsAre ==
    ASSUME NEW r
    PROVE  Dimensions(r) = [k \in DOMAIN r.dimensions |->
              [ id |-> << "dimension", r.dimensions[k].key >>, number |-> r.dimensions[k].score,
                weight |-> r.dimensions[k].weight ]]
BY DEF Dimensions, Mapped, Once

\* The quality is that of the fields of the files.
LEMMA QualityAre ==
    ASSUME NEW r
    PROVE  Quality(r) = [k \in DOMAIN r.fields |-> [ number |-> r.fields[k].coverage ]]
BY DEF Quality, Mapped, Once

\* What the anomalies, and what each cause, bring to the evidence.
AnomalyItems(r) == [k \in DOMAIN r.anomalies |-> [ id |-> << "anomaly", r.anomalies[k].metric >>, number |-> r.anomalies[k].delta ]]
CauseItems(r, l) == [c \in DOMAIN r.causes |-> EvidenceOf(r.causes[c], c, l)]

\* The evidence is the anomalies, then what each cause brings.
LEMMA EvidenceAre ==
    ASSUME NEW r, NEW l
    PROVE  Evidence(r, l) = AnomalyItems(r) \o Joined(CauseItems(r, l))
BY DEF Evidence, Mapped, Once, Flatten, AnomalyItems, CauseItems

FactorItems(cause, c) ==
    [k \in DOMAIN cause.factors |-> [ id |-> FactorId(c, cause.factors[k]), number |-> cause.factors[k].contribution ]]
ProductItems(cause, c, l) ==
    LET s == Bound(ByMove(cause.products), l.contributors)
    IN  [k \in DOMAIN s |-> [ id |-> << "product", c, k >>, number |-> s[k].delta ]]
CampaignItems(cause, c, l) ==
    LET s == Bound(ByLoss(cause.campaigns), l.contributors)
    IN  [k \in DOMAIN s |-> [ id |-> << "campaign", c, k >>, number |-> s[k].delta ]]

\* A cause brings its factors, the products that moved most and the campaigns that lost most.
LEMMA EvidenceOfIs ==
    ASSUME NEW cause, NEW c, NEW l
    PROVE  EvidenceOf(cause, c, l) = FactorItems(cause, c) \o ProductItems(cause, c, l) \o CampaignItems(cause, c, l)
BY DEF EvidenceOf, Mapped, Once, FactorItems, ProductItems, CampaignItems

\* What supports a hypothesis, of the insights and of each cause; the factors that were measured.
InsightSupports(r) ==
    [k \in DOMAIN Insights(r) |-> [ support |-> << "finding", k >>, statement |-> Insights(r)[k].hypothesis ]]
CauseSupports(r) == [c \in DOMAIN r.causes |-> SupportsOf(r.causes[c], c)]
Measured(cause) == Picked(cause.factors, {k \in DOMAIN cause.factors : cause.factors[k].contribution # None})

\* The insights support their hypotheses, then the factors of each cause.
LEMMA SupportsAre ==
    ASSUME NEW r
    PROVE  Supports(r) = InsightSupports(r) \o Joined(CauseSupports(r))
BY DEF Supports, Mapped, Once, Flatten, InsightSupports, CauseSupports

\* The factors of a cause that were measured support their hypotheses.
LEMMA SupportsOfAre ==
    ASSUME NEW cause, NEW c
    PROVE  SupportsOf(cause, c) = [k \in DOMAIN Measured(cause) |->
              [ support |-> FactorId(c, Measured(cause)[k]), statement |-> Measured(cause)[k].hypothesis ]]
<1> DEFINE kept == Filter(cause.factors, LAMBDA factor : factor.contribution # None)
<1>1. kept = Measured(cause)
  BY DEF Filter, Once, Measured
<1>2. SupportsOf(cause, c) = [k \in DOMAIN kept |->
          [ support |-> FactorId(c, kept[k]), statement |-> kept[k].hypothesis ]]
  BY DEF SupportsOf, Mapped, Once
<1> HIDE DEF kept
<1>3. QED
  BY <1>1, <1>2

\* The supports that state a hypothesis.
LEMMA ToldIs ==
    ASSUME NEW r
    PROVE  Told(r) = Picked(Supports(r), {k \in DOMAIN Supports(r) : Supports(r)[k].statement # None})
BY DEF Told, Filter, Once

\* The statements, each once, and what is behind one of them.
Statements(told) == Distinct([k \in DOMAIN told |-> told[k].statement])
Behind(told, statement) == Picked(told, {k \in DOMAIN told : told[k].statement = statement})

\* One hypothesis for each statement, with all that is behind it.
LEMMA HypothesesAre ==
    ASSUME NEW r
    PROVE  Hypotheses(r) = [h \in DOMAIN Statements(Told(r)) |->
              [ id |-> << "hypothesis", h >>, statement |-> Statements(Told(r))[h],
                supports |-> Backing(Told(r), Statements(Told(r))[h]) ]]
<1> DEFINE told == Told(r)
<1>1. Hypotheses(r) = HypothesesOf(told)
  BY DEF Hypotheses, Once
<1> HIDE DEF told
<1>2. HypothesesOf(told) = [h \in DOMAIN Statements(told) |->
          [ id |-> << "hypothesis", h >>, statement |-> Statements(told)[h],
            supports |-> Backing(told, Statements(told)[h]) ]]
  BY DEF HypothesesOf, Mapped, Once, Statements
<1>3. QED
  BY <1>1, <1>2 DEF told

\* What is behind a statement, each support once.
LEMMA BackingIs ==
    ASSUME NEW told, NEW statement
    PROVE  Backing(told, statement)
             = Distinct([k \in DOMAIN Behind(told, statement) |-> Behind(told, statement)[k].support])
<1> DEFINE F == Filter(told, LAMBDA s : s.statement = statement)
<1>1. F = Behind(told, statement)
  BY DEF Filter, Once, Behind
<1>2. Mapped(F, LAMBDA k, s : s.support) = [k \in DOMAIN F |-> F[k].support]
  BY DEF Mapped, Once
<1>3. Backing(told, statement) = Distinct(Mapped(F, LAMBDA k, s : s.support))
  BY Zenon DEF Backing
<1> HIDE DEF F
<1>4. QED
  BY <1>1, <1>2, <1>3

\* The metrics without a value, and the profit that misses a cost.
UnknownPlaces(r) == {k \in DOMAIN r.kpis : ~Known(r.kpis[k])}
Absent(r) == Picked(r.kpis, UnknownPlaces(r))
NoProfit(r) ==
    IF Profit(r) # None THEN << >> ELSE << Lacking("contribution_profit"), Lacking("contribution_margin") >>

\* The metrics without a value, then the profit that misses a cost, each metric once.
LEMMA UnavailableAre ==
    ASSUME NEW r
    PROVE  Unavailable(r) = Distinct([k \in DOMAIN Absent(r) |-> Lacking(Absent(r)[k].metric)] \o NoProfit(r))
BY DEF Unavailable, Mapped, Once, Filter, Absent, NoProfit, UnknownPlaces

\* Places ordered by two numbers, then as they come.
PlaceOrder(D, a, b) == { p \in D \X D : Less(<< a[p[1]], b[p[1]], p[1] >>, << a[p[2]], b[p[2]], p[2] >>) }

\* To sort a list so permutes it.
LEMMA OrderedPlaces ==
    ASSUME NEW s, IsList(s), NEW a, NEW b, \A k \in DOMAIN s : a[k] \in Int /\ b[k] \in Int
    PROVE  Permuted(s, Sorted(s, PlaceOrder(DOMAIN s, a, b)))
<1> DEFINE D == DOMAIN s
           R == PlaceOrder(D, a, b)
           Before(i, j) == a[i] < a[j] \/ (a[i] = a[j] /\ (b[i] < b[j] \/ (b[i] = b[j] /\ i < j)))
<1>1. \A i \in D : i \in Int /\ a[i] \in Int /\ b[i] \in Int
  BY ListFacts
<1>2. \A i, j \in D : << i, j >> \in R <=> Before(i, j)
  BY DEF Less, PlaceOrder
<1>3. ASSUME NEW i \in D PROVE ~Before(i, i)
  BY <1>1
<1>4. ASSUME NEW i \in D, NEW j \in D, NEW k \in D, Before(i, j), Before(j, k) PROVE Before(i, k)
  <2>1. i \in Int /\ a[i] \in Int /\ b[i] \in Int /\ j \in Int /\ a[j] \in Int /\ b[j] \in Int
        /\ k \in Int /\ a[k] \in Int /\ b[k] \in Int
    BY <1>1
  <2>2. QED
    BY <1>4, <2>1
<1>5. ASSUME NEW i \in D, NEW j \in D PROVE i = j \/ Before(i, j) \/ Before(j, i)
  <2>1. i \in Int /\ a[i] \in Int /\ b[i] \in Int /\ j \in Int /\ a[j] \in Int /\ b[j] \in Int
    BY <1>1
  <2>2. QED
    BY <2>1
<1> HIDE DEF Before, R
<1>6. \A i \in D : << i, i >> \notin R
  BY <1>2, <1>3
<1>7. \A i, j, k \in D : << i, j >> \in R /\ << j, k >> \in R => << i, k >> \in R
  BY <1>2, <1>4
<1>8. \A i, j \in D : i = j \/ << i, j >> \in R \/ << j, i >> \in R
  BY <1>2, <1>5
<1>9. Permuted(s, Sorted(s, R))
  BY <1>6, <1>7, <1>8, SortedIsPermuted
<1>10. QED
  BY <1>9 DEF R

\* The products that moved most first, the campaigns that lost most first: the same elements.
LEMMA RankedFacts ==
    ASSUME NEW s, IsList(s), \A k \in DOMAIN s : s[k].delta \in Int /\ s[k].label \in Int
    PROVE  /\ IsList(ByMove(s)) /\ Len(ByMove(s)) = Len(s)
           /\ \A i \in DOMAIN ByMove(s) : \E k \in DOMAIN s : ByMove(s)[i] = s[k]
           /\ IsList(ByLoss(s)) /\ Len(ByLoss(s)) = Len(s)
           /\ \A i \in DOMAIN ByLoss(s) : \E k \in DOMAIN s : ByLoss(s)[i] = s[k]
<1> DEFINE D == DOMAIN s
           fall == [k \in D |-> IF s[k].delta < 0 THEN s[k].delta ELSE -s[k].delta]
           loss == [k \in D |-> s[k].delta]
           label == [k \in D |-> s[k].label]
<1>1. \A k \in D : fall[k] \in Int /\ loss[k] \in Int /\ label[k] \in Int
  OBVIOUS
<1>2. ByMove(s) = Sorted(s, PlaceOrder(D, fall, label))
  BY DEF ByMove, PlaceOrder
<1>3. ByLoss(s) = Sorted(s, PlaceOrder(D, loss, label))
  BY DEF ByLoss, PlaceOrder
<1> HIDE DEF fall, loss, label
<1>4. Permuted(s, Sorted(s, PlaceOrder(D, fall, label)))
  BY <1>1, OrderedPlaces
<1>5. Permuted(s, Sorted(s, PlaceOrder(D, loss, label)))
  BY <1>1, OrderedPlaces
<1>6. Permuted(s, ByMove(s)) /\ Permuted(s, ByLoss(s))
  BY <1>2, <1>3, <1>4, <1>5
<1>7. QED
  BY <1>6, PermutedFacts

\* What the lists of a report are.
LEMMA ReportLists ==
    ASSUME EngineReport(report)
    PROVE  /\ IsList(report.kpis) /\ IsList(report.dimensions) /\ IsList(report.critical_issues)
           /\ IsList(report.warnings) /\ IsList(report.opportunities) /\ IsList(report.anomalies)
           /\ IsList(report.causes) /\ IsList(report.recommendations) /\ IsList(report.limitations)
           /\ IsList(report.fields)
BY DEF EngineReport

\* The lists of a cause.
LEMMA CauseLists ==
    ASSUME EngineReport(report), NEW c \in DOMAIN report.causes
    PROVE  LET cause == report.causes[c]
           IN  /\ IsList(cause.factors) /\ IsList(cause.products) /\ IsList(cause.campaigns)
               /\ \A k \in DOMAIN cause.products : cause.products[k].delta \in Int /\ cause.products[k].label \in Int
               /\ \A k \in DOMAIN cause.campaigns : cause.campaigns[k].delta \in Int /\ cause.campaigns[k].label \in Int
BY DEF EngineReport

\* The facts: the known KPIs.
LEMMA FactsHeld ==
    ASSUME EngineReport(report)
    PROVE  /\ IsList(Facts(report)) /\ Len(Facts(report)) = Held("facts")
           /\ \A k \in DOMAIN Facts(report) :
                 Facts(report)[k].id[1] = "kpi" /\ Facts(report)[k].number \in ReportFigures
<1> DEFINE places == KnownPlaces(report)
           p == Picked(report.kpis, places)
<1>1. places \subseteq DOMAIN report.kpis /\ IsList(report.kpis)
  BY ReportLists DEF KnownPlaces
<1>2. /\ IsList(p) /\ (\A i \in DOMAIN p : \E k \in places : p[i] = report.kpis[k])
      /\ Len(p) = Cardinality(places)
  <2> HIDE DEF places
  <2>1. QED
    BY <1>1, PickedElements
<1>3. Facts(report) = [k \in DOMAIN p |-> [id |-> <<"kpi", p[k].metric>>, number |-> p[k].value]]
  BY FactsAre
<1>4. Held("facts") = Cardinality(places)
  BY DEF Held, KnownPlaces
<1> HIDE DEF p
<1>5. IsList(Facts(report)) /\ Len(Facts(report)) = Len(p)
  BY <1>2, <1>3, MappedIsList
<1>6. ASSUME NEW k \in DOMAIN Facts(report)
      PROVE  Facts(report)[k].id[1] = "kpi" /\ Facts(report)[k].number \in ReportFigures
  <2>1. k \in DOMAIN p /\ Facts(report)[k] = [id |-> <<"kpi", p[k].metric>>, number |-> p[k].value]
    BY <1>3
  <2>2. PICK j \in DOMAIN report.kpis : p[k] = report.kpis[j]
    BY <1>1, <1>2, <2>1
  <2>3. Facts(report)[k].id[1] = "kpi" /\ Facts(report)[k].number = report.kpis[j].value
    BY <2>1, <2>2
  <2>4. report.kpis[j].value \in ReportFigures
    BY DEF ReportFigures
  <2>5. QED
    BY <2>3, <2>4
<1>7. QED
  BY <1>2, <1>4, <1>5, <1>6

\* The insights of a report.
LEMMA InsightsFacts ==
    ASSUME EngineReport(report)
    PROVE  IsList(Insights(report)) /\ Len(Insights(report)) = Held("findings")
<1> DEFINE a == report.critical_issues
           b == report.warnings
           c == report.opportunities
<1>1. IsList(a) /\ IsList(b) /\ IsList(c)
  BY ReportLists
<1>2. Insights(report) = (a \o b) \o c /\ Held("findings") = Len(a) + Len(b) + Len(c)
  BY DEF Insights, Held
<1> HIDE DEF a, b, c
<1>3. IsList(a \o b) /\ Len(a \o b) = Len(a) + Len(b)
  BY <1>1, ConcatFacts
<1>4. IsList((a \o b) \o c) /\ Len((a \o b) \o c) = Len(a \o b) + Len(c)
  BY <1>1, <1>3, ConcatFacts
<1>5. QED
  BY <1>2, <1>3, <1>4

\* The findings: one for each insight.
LEMMA FindingsHeld ==
    ASSUME EngineReport(report)
    PROVE  /\ IsList(Findings(report)) /\ Len(Findings(report)) = Held("findings")
           /\ DOMAIN Findings(report) = DOMAIN Insights(report)
           /\ \A k \in DOMAIN Findings(report) :
                 Findings(report)[k].id = << "finding", k >> /\ Findings(report)[k].number \in ReportFigures
<1> DEFINE s == Insights(report)
<1>1. IsList(s) /\ Len(s) = Held("findings")
  BY InsightsFacts
<1>2. Findings(report) = [k \in DOMAIN s |-> [ id |-> << "finding", k >>, number |-> s[k].impact ]]
  BY FindingsAre
<1>3. ASSUME NEW k \in DOMAIN s PROVE s[k].impact \in ReportFigures
  <2>1. s[k] \in Range(s)
    BY DEF Range
  <2>2. QED
    BY <2>1 DEF ReportFigures
<1> HIDE DEF s
<1>4. IsList(Findings(report)) /\ Len(Findings(report)) = Len(s)
  BY <1>1, <1>2, MappedIsList
<1>5. QED
  BY <1>1, <1>2, <1>3, <1>4 DEF s

\* The limitations of a report.
LEMMA LimitationsHeld ==
    ASSUME EngineReport(report)
    PROVE  /\ IsList(Limitations(report)) /\ Len(Limitations(report)) = Held("limitations")
           /\ \A k \in DOMAIN Limitations(report) : Limitations(report)[k].id[1] = "limitation"
<1> DEFINE s == report.limitations
<1>1. IsList(s) /\ Len(s) = Held("limitations")
  BY ReportLists DEF Held
<1>2. Limitations(report) = [k \in DOMAIN s |-> [ id |-> << "limitation", k >> ]]
  BY LimitationsAre
<1> HIDE DEF s
<1>3. IsList(Limitations(report)) /\ Len(Limitations(report)) = Len(s)
  BY <1>1, <1>2, MappedIsList
<1>4. QED
  BY <1>1, <1>2, <1>3

\* The dimensions of the score.
LEMMA DimensionsHeld ==
    ASSUME EngineReport(report)
    PROVE  /\ IsList(Dimensions(report))
           /\ \A k \in DOMAIN Dimensions(report) :
                 /\ Dimensions(report)[k].id[1] = "dimension"
                 /\ Dimensions(report)[k].number # None => Dimensions(report)[k].number \in ReportScores
                 /\ Dimensions(report)[k].weight \in ReportFigures
<1> DEFINE s == report.dimensions
<1>1. IsList(s)
  BY ReportLists
<1>2. Dimensions(report) = [k \in DOMAIN s |-> [ id |-> << "dimension", s[k].key >>, number |-> s[k].score, weight |-> s[k].weight ]]
  BY DimensionsAre
<1>3. \A k \in DOMAIN s : s[k].weight \in ReportFigures /\ (s[k].score # None => s[k].score \in ReportScores)
  BY DEF ReportFigures, ReportScores
<1> HIDE DEF s
<1>4. IsList(Dimensions(report))
  BY <1>1, <1>2, MappedIsList
<1>5. QED
  BY <1>2, <1>3, <1>4

\* How far the fields are filled.
LEMMA QualityHeld ==
    ASSUME EngineReport(report)
    PROVE  /\ IsList(Quality(report))
           /\ \A k \in DOMAIN Quality(report) : Quality(report)[k].number \in ReportFigures
<1> DEFINE s == report.fields
<1>1. IsList(s)
  BY ReportLists
<1>2. Quality(report) = [k \in DOMAIN s |-> [ number |-> s[k].coverage ]]
  BY QualityAre
<1>3. ASSUME NEW k \in DOMAIN s PROVE s[k].coverage \in ReportFigures
  <2>1. s[k] \in Range(s)
    BY DEF Range
  <2>2. QED
    BY <2>1 DEF ReportFigures
<1> HIDE DEF s
<1>4. IsList(Quality(report))
  BY <1>1, <1>2, MappedIsList
<1>5. QED
  BY <1>2, <1>3, <1>4

\* The figures of a cause are figures of the report.
LEMMA CauseSays ==
    ASSUME NEW c \in DOMAIN report.causes
    PROVE  LET cause == report.causes[c]
           IN  /\ cause.change \in ReportFigures
               /\ \A k \in DOMAIN cause.factors : cause.factors[k].contribution \in ReportFigures
               /\ \A k \in DOMAIN cause.products : cause.products[k].delta \in ReportFigures
               /\ \A k \in DOMAIN cause.campaigns : cause.campaigns[k].delta \in ReportFigures
<1> DEFINE cause == report.causes[c]
<1>1. cause \in Range(report.causes)
  BY DEF Range
<1>2. \A n \in CauseFigures(cause) : n \in ReportFigures
  BY <1>1 DEF ReportFigures
<1>3. /\ cause.change \in CauseFigures(cause)
      /\ \A k \in DOMAIN cause.factors : cause.factors[k].contribution \in CauseFigures(cause)
      /\ \A k \in DOMAIN cause.products : cause.products[k].delta \in CauseFigures(cause)
      /\ \A k \in DOMAIN cause.campaigns : cause.campaigns[k].delta \in CauseFigures(cause)
  BY DEF CauseFigures, Range
<1>4. QED
  BY <1>2, <1>3

\* The root causes, and the factors they refer to.
LEMMA RootCausesHeld ==
    ASSUME EngineReport(report)
    PROVE  /\ IsList(RootCauses(report)) /\ Len(RootCauses(report)) = Held("root_causes")
           /\ \A k \in DOMAIN RootCauses(report) :
                 LET item == RootCauses(report)[k]
                 IN  /\ item.id[1] = "root_cause" /\ item.number \in ReportFigures
                     /\ DOMAIN item = {"id", "number", "factor_ids"}
                     /\ IsList(item.factor_ids)
                     /\ \A j \in DOMAIN item.factor_ids : item.factor_ids[j][1] = "factor"
<1> DEFINE s == report.causes
           Ids(c) == [k \in DOMAIN s[c].factors |-> FactorId(c, s[c].factors[k])]
<1>1. IsList(s) /\ Len(s) = Held("root_causes")
  BY ReportLists DEF Held
<1>2. RootCauses(report) = [c \in DOMAIN s |-> [ id |-> << "root_cause", c >>, number |-> s[c].change, factor_ids |-> Ids(c) ]]
  BY CausesAre
<1>3. ASSUME NEW c \in DOMAIN s
      PROVE  s[c].change \in ReportFigures /\ IsList(Ids(c)) /\ \A j \in DOMAIN Ids(c) : Ids(c)[j][1] = "factor"
  <2>1. IsList(s[c].factors)
    BY CauseLists
  <2>2. IsList(Ids(c))
    BY <2>1, MappedIsList
  <2>3. s[c].change \in ReportFigures
    BY CauseSays
  <2>4. \A j \in DOMAIN Ids(c) : Ids(c)[j][1] = "factor"
    BY DEF FactorId
  <2>5. QED
    BY <2>2, <2>3, <2>4
<1> HIDE DEF s, Ids
<1>4. IsList(RootCauses(report)) /\ Len(RootCauses(report)) = Len(s)
  BY <1>1, <1>2, MappedIsList
<1>5. ASSUME NEW k \in DOMAIN RootCauses(report)
      PROVE  LET item == RootCauses(report)[k]
             IN  /\ item.id[1] = "root_cause" /\ item.number \in ReportFigures
                 /\ DOMAIN item = {"id", "number", "factor_ids"}
                 /\ IsList(item.factor_ids)
                 /\ \A j \in DOMAIN item.factor_ids : item.factor_ids[j][1] = "factor"
  <2>1. k \in DOMAIN s /\ RootCauses(report)[k] = [ id |-> << "root_cause", k >>, number |-> s[k].change, factor_ids |-> Ids(k) ]
    BY <1>2
  <2> DEFINE item == RootCauses(report)[k]
  <2> HIDE DEF item
  <2>2. item = [ id |-> << "root_cause", k >>, number |-> s[k].change, factor_ids |-> Ids(k) ]
    BY <2>1 DEF item
  <2>3. /\ item.id[1] = "root_cause" /\ item.number = s[k].change /\ item.factor_ids = Ids(k)
        /\ DOMAIN item = {"id", "number", "factor_ids"}
    BY <2>2
  <2>4. QED
    BY <1>3, <2>1, <2>3 DEF item
<1>6. QED
  BY <1>1, <1>4, <1>5

\* What a list of lists becomes that are joined.
LEMMA JoinedElements ==
    ASSUME NEW lists, IsList(lists), \A c \in DOMAIN lists : IsList(lists[c])
    PROVE  /\ IsList(Joined(lists))
           /\ \A c \in DOMAIN lists : \A k \in DOMAIN lists[c] : lists[c][k] \in Range(Joined(lists))
           /\ \A i \in DOMAIN Joined(lists) :
                 \E c \in DOMAIN lists : \E k \in DOMAIN lists[c] : Joined(lists)[i] = lists[c][k]
           /\ Len(Joined(lists)) = Cardinality(Spots(lists))
<1> DEFINE V == UNION { Range(lists[c]) : c \in DOMAIN lists }
<1>1. ASSUME NEW c \in DOMAIN lists PROVE lists[c] \in Seq(V)
  <2> DEFINE A == Range(lists[c])
  <2>1. lists[c] \in Seq(A)
    BY ListFacts
  <2>2. A \subseteq V
    OBVIOUS
  <2> HIDE DEF A, V
  <2>3. QED
    BY <2>1, <2>2
<1> HIDE DEF V
<1>2. QED
  BY <1>1, JoinedFacts

EvidenceKinds == {"anomaly", "factor", "product", "campaign"}

\* The evidence of a cause: its factors, and the products and campaigns that moved most.
LEMMA EvidenceOfHeld ==
    ASSUME EngineReport(report), ValidLimits(limits), NEW c \in DOMAIN report.causes
    PROVE  LET list == EvidenceOf(report.causes[c], c, limits)
           IN  /\ IsList(list) /\ Len(list) = EvidenceOfCause(report.causes[c])
               /\ \A k \in DOMAIN list : list[k].id[1] \in EvidenceKinds /\ list[k].number \in ReportFigures
<1> DEFINE cause == report.causes[c]
           n == limits.contributors
           F == FactorItems(cause, c)
           P == ProductItems(cause, c, limits)
           C == CampaignItems(cause, c, limits)
           moved == Bound(ByMove(cause.products), n)
           lost == Bound(ByLoss(cause.campaigns), n)
<1>1. n \in Nat
  BY DEF ValidLimits, Bounds
<1>2. /\ IsList(cause.factors) /\ IsList(cause.products) /\ IsList(cause.campaigns)
      /\ \A k \in DOMAIN cause.products : cause.products[k].delta \in Int /\ cause.products[k].label \in Int
      /\ \A k \in DOMAIN cause.campaigns : cause.campaigns[k].delta \in Int /\ cause.campaigns[k].label \in Int
  BY CauseLists
<1>3. /\ \A k \in DOMAIN cause.factors : cause.factors[k].contribution \in ReportFigures
      /\ \A k \in DOMAIN cause.products : cause.products[k].delta \in ReportFigures
      /\ \A k \in DOMAIN cause.campaigns : cause.campaigns[k].delta \in ReportFigures
  BY CauseSays
<1>4. EvidenceOf(cause, c, limits) = (F \o P) \o C
  BY EvidenceOfIs
<1>5. EvidenceOfCause(cause) = Len(cause.factors) + Min({n, Len(cause.products)}) + Min({n, Len(cause.campaigns)})
  BY DEF EvidenceOfCause
<1>6. F = [k \in DOMAIN cause.factors |-> [id |-> FactorId(c, cause.factors[k]), number |-> cause.factors[k].contribution]]
  BY DEF FactorItems
<1>7. P = [k \in DOMAIN moved |-> [ id |-> << "product", c, k >>, number |-> moved[k].delta ]]
  BY DEF ProductItems
<1>8. C = [k \in DOMAIN lost |-> [ id |-> << "campaign", c, k >>, number |-> lost[k].delta ]]
  BY DEF CampaignItems
<1> HIDE DEF cause, n, F, P, C
<1>9. /\ IsList(ByMove(cause.products)) /\ Len(ByMove(cause.products)) = Len(cause.products)
      /\ (\A i \in DOMAIN ByMove(cause.products) : \E k \in DOMAIN cause.products : ByMove(cause.products)[i] = cause.products[k])
      /\ IsList(ByLoss(cause.campaigns)) /\ Len(ByLoss(cause.campaigns)) = Len(cause.campaigns)
      /\ (\A i \in DOMAIN ByLoss(cause.campaigns) : \E k \in DOMAIN cause.campaigns : ByLoss(cause.campaigns)[i] = cause.campaigns[k])
  BY <1>2, RankedFacts
<1>10. /\ IsList(moved) /\ Len(moved) = Min({n, Len(cause.products)})
       /\ \A k \in DOMAIN moved : \E j \in DOMAIN cause.products : moved[k] = cause.products[j]
  <2>1. /\ IsList(moved) /\ Len(moved) = Min({n, Len(ByMove(cause.products))})
        /\ \A k \in DOMAIN moved : k \in DOMAIN ByMove(cause.products) /\ moved[k] = ByMove(cause.products)[k]
    BY <1>1, <1>9, BoundFacts
  <2> HIDE DEF moved
  <2>2. QED
    BY <1>9, <2>1
<1>11. /\ IsList(lost) /\ Len(lost) = Min({n, Len(cause.campaigns)})
       /\ \A k \in DOMAIN lost : \E j \in DOMAIN cause.campaigns : lost[k] = cause.campaigns[j]
  <2>1. /\ IsList(lost) /\ Len(lost) = Min({n, Len(ByLoss(cause.campaigns))})
        /\ \A k \in DOMAIN lost : k \in DOMAIN ByLoss(cause.campaigns) /\ lost[k] = ByLoss(cause.campaigns)[k]
    BY <1>1, <1>9, BoundFacts
  <2> HIDE DEF lost
  <2>2. QED
    BY <1>9, <2>1
<1> HIDE DEF moved, lost
<1>12. IsList(F) /\ Len(F) = Len(cause.factors)
  BY <1>2, <1>6, MappedIsList
<1>13. IsList(P) /\ Len(P) = Len(moved)
  BY <1>7, <1>10, MappedIsList
<1>14. IsList(C) /\ Len(C) = Len(lost)
  BY <1>8, <1>11, MappedIsList
<1>15. \A k \in DOMAIN F : F[k].id[1] = "factor" /\ F[k].number \in ReportFigures
  BY <1>3, <1>6 DEF FactorId
<1>16. \A k \in DOMAIN P : P[k].id[1] = "product" /\ P[k].number \in ReportFigures
  BY <1>3, <1>7, <1>10
<1>17. \A k \in DOMAIN C : C[k].id[1] = "campaign" /\ C[k].number \in ReportFigures
  BY <1>3, <1>8, <1>11
<1>18. /\ IsList(F \o P) /\ Len(F \o P) = Len(F) + Len(P)
       /\ \A k \in DOMAIN (F \o P) : \/ k \in DOMAIN F /\ (F \o P)[k] = F[k]
                                     \/ k - Len(F) \in DOMAIN P /\ (F \o P)[k] = P[k - Len(F)]
  BY <1>12, <1>13, ConcatFacts
<1> DEFINE G == F \o P
<1>19. IsList(G) /\ Len(G) = Len(F) + Len(P) /\ \A k \in DOMAIN G : G[k].id[1] \in EvidenceKinds /\ G[k].number \in ReportFigures
  BY <1>15, <1>16, <1>18 DEF EvidenceKinds
<1> HIDE DEF G
<1>20. /\ IsList(G \o C) /\ Len(G \o C) = Len(G) + Len(C)
       /\ \A k \in DOMAIN (G \o C) : \/ k \in DOMAIN G /\ (G \o C)[k] = G[k]
                                     \/ k - Len(G) \in DOMAIN C /\ (G \o C)[k] = C[k - Len(G)]
  BY <1>14, <1>19, ConcatFacts
<1> DEFINE H == G \o C
<1>21. IsList(H) /\ Len(H) = Len(G) + Len(C) /\ \A k \in DOMAIN H : H[k].id[1] \in EvidenceKinds /\ H[k].number \in ReportFigures
  BY <1>17, <1>19, <1>20 DEF EvidenceKinds
<1>22. EvidenceOf(cause, c, limits) = H
  BY <1>4 DEF G
<1> HIDE DEF H
<1>23. Len(H) = EvidenceOfCause(cause)
  BY <1>5, <1>10, <1>11, <1>12, <1>13, <1>14, <1>19, <1>21
<1>24. QED
  BY <1>21, <1>22, <1>23 DEF cause

\* The evidence of a report: its anomalies, then what each cause rests on.
LEMMA EvidenceHeld ==
    ASSUME EngineReport(report), ValidLimits(limits)
    PROVE  LET list == Evidence(report, limits)
           IN  /\ IsList(list) /\ Len(list) = Held("evidence")
               /\ \A k \in DOMAIN list : list[k].id[1] \in EvidenceKinds /\ list[k].number \in ReportFigures
<1> DEFINE A == AnomalyItems(report)
           lists == CauseItems(report, limits)
           J == Joined(lists)
           D == DOMAIN report.causes
<1>1. IsList(report.anomalies) /\ IsList(report.causes)
  BY ReportLists
<1>2. A = [k \in DOMAIN report.anomalies |-> [ id |-> << "anomaly", report.anomalies[k].metric >>, number |-> report.anomalies[k].delta]]
  BY DEF AnomalyItems
<1>3. lists = [c \in D |-> EvidenceOf(report.causes[c], c, limits)]
  BY DEF CauseItems
<1>4. Evidence(report, limits) = A \o J
  BY EvidenceAre
<1> HIDE DEF A, lists
<1>5. IsList(A) /\ Len(A) = Len(report.anomalies)
  BY <1>1, <1>2, MappedIsList
<1>6. ASSUME NEW k \in DOMAIN A PROVE A[k].id[1] \in EvidenceKinds /\ A[k].number \in ReportFigures
  <2>1. A[k].id[1] = "anomaly" /\ A[k].number = report.anomalies[k].delta /\ report.anomalies[k] \in Range(report.anomalies)
    BY <1>2 DEF Range
  <2>2. report.anomalies[k].delta \in ReportFigures
    BY <2>1 DEF ReportFigures
  <2>3. QED
    BY <2>1, <2>2 DEF EvidenceKinds
<1>7. IsList(lists) /\ DOMAIN lists = D
  BY <1>1, <1>3, MappedIsList
<1>8. ASSUME NEW c \in D
      PROVE  /\ IsList(lists[c]) /\ Len(lists[c]) = EvidenceOfCause(report.causes[c])
             /\ \A k \in DOMAIN lists[c] : lists[c][k].id[1] \in EvidenceKinds /\ lists[c][k].number \in ReportFigures
  BY <1>3, EvidenceOfHeld
<1>9. /\ IsList(J)
      /\ (\A i \in DOMAIN J : \E c \in D : \E k \in DOMAIN lists[c] : J[i] = lists[c][k])
      /\ Len(J) = Cardinality(Spots(lists))
  <2>1. \A c \in DOMAIN lists : IsList(lists[c])
    BY <1>7, <1>8
  <2> HIDE DEF D
  <2>2. QED
    BY <1>7, <2>1, JoinedElements
<1>10. Spots(lists) = UNION { {c} \X (1 .. EvidenceOfCause(report.causes[c])) : c \in D }
  BY <1>7, <1>8 DEF Spots
<1>11. Held("evidence") = Len(A) + Len(J)
  BY <1>5, <1>9, <1>10 DEF Held
<1>12. \A i \in DOMAIN J : J[i].id[1] \in EvidenceKinds /\ J[i].number \in ReportFigures
  BY <1>8, <1>9
<1> HIDE DEF J
<1>13. /\ IsList(A \o J) /\ Len(A \o J) = Len(A) + Len(J)
       /\ \A k \in DOMAIN (A \o J) : \/ k \in DOMAIN A /\ (A \o J)[k] = A[k]
                                     \/ k - Len(A) \in DOMAIN J /\ (A \o J)[k] = J[k - Len(A)]
  BY <1>5, <1>9, ConcatFacts
<1> DEFINE H == A \o J
<1>14. IsList(H) /\ Len(H) = Held("evidence") /\ \A k \in DOMAIN H : H[k].id[1] \in EvidenceKinds /\ H[k].number \in ReportFigures
  BY <1>6, <1>11, <1>12, <1>13
<1>15. Evidence(report, limits) = H
  BY <1>4
<1> HIDE DEF H
<1>16. QED
  BY <1>14, <1>15

\* What supports a statement, in the order of the report.
LEMMA SupportsFacts ==
    ASSUME EngineReport(report)
    PROVE  IsList(Supports(report))
<1> DEFINE A == InsightSupports(report)
           lists == CauseSupports(report)
           J == Joined(lists)
<1>1. IsList(Insights(report)) /\ IsList(report.causes)
  BY ReportLists, InsightsFacts
<1>2. IsList(A)
  BY <1>1, MappedIsList DEF InsightSupports
<1>3. IsList(lists) /\ DOMAIN lists = DOMAIN report.causes
  BY <1>1, MappedIsList DEF CauseSupports
<1>4. ASSUME NEW c \in DOMAIN report.causes PROVE IsList(lists[c])
  <2> DEFINE cause == report.causes[c]
             places == {k \in DOMAIN cause.factors : cause.factors[k].contribution # None}
             M == Measured(cause)
             S == SupportsOf(cause, c)
  <2>1. lists[c] = S
    BY DEF CauseSupports
  <2>2. IsList(cause.factors) /\ places \subseteq DOMAIN cause.factors
    BY CauseLists
  <2>3. M = Picked(cause.factors, places)
    BY DEF Measured
  <2>4. IsList(M)
    <3> HIDE DEF places, cause, M
    <3>1. QED
      BY <2>2, <2>3, PickedElements
  <2>5. S = [k \in DOMAIN M |-> [support |-> FactorId(c, M[k]), statement |-> M[k].hypothesis]]
    BY SupportsOfAre
  <2> HIDE DEF M, S
  <2>6. IsList(S)
    BY <2>4, <2>5, MappedIsList
  <2>7. QED
    BY <2>1, <2>6
<1>5. IsList(J)
  <2> HIDE DEF lists
  <2>1. QED
    BY <1>3, <1>4, JoinedElements
<1>6. Supports(report) = A \o J
  BY SupportsAre
<1> HIDE DEF A, J
<1>7. QED
  BY <1>2, <1>5, <1>6, ConcatFacts

\* The supports that say something.
LEMMA ToldFacts ==
    ASSUME EngineReport(report)
    PROVE  /\ IsList(Told(report))
           /\ \A k \in DOMAIN Told(report) : Told(report)[k] \in Range(Supports(report)) /\ Told(report)[k].statement # None
           /\ \A s \in Range(Supports(report)) : s.statement # None => s \in Range(Told(report))
<1> DEFINE S == Supports(report)
           places == {k \in DOMAIN S : S[k].statement # None}
           p == Picked(S, places)
<1>1. IsList(S) /\ places \subseteq DOMAIN S
  BY SupportsFacts
<1>2. Told(report) = p
  BY ToldIs
<1>3. \A k \in DOMAIN S : (k \in places <=> S[k].statement # None) /\ S[k] \in Range(S)
  BY DEF Range
<1>4. \A s \in Range(S) : \E k \in DOMAIN S : s = S[k]
  BY DEF Range
<1> HIDE DEF S, places
<1>5. /\ IsList(p) /\ (\A k \in places : S[k] \in Range(p))
      /\ \A i \in DOMAIN p : \E k \in places : p[i] = S[k]
  BY <1>1, PickedElements
<1> HIDE DEF p
<1>6. \A k \in DOMAIN p : p[k] \in Range(S) /\ p[k].statement # None
  BY <1>1, <1>3, <1>5
<1>7. \A s \in Range(S) : s.statement # None => s \in Range(p)
  BY <1>3, <1>4, <1>5
<1>8. QED
  BY <1>2, <1>5, <1>6, <1>7 DEF S

\* What backs a statement says it.
LEMMA BackingFacts ==
    ASSUME EngineReport(report), NEW statement
    PROVE  /\ IsList(Backing(Told(report), statement))
           /\ \A j \in DOMAIN Backing(Told(report), statement) : Says(Backing(Told(report), statement)[j], statement)
<1> DEFINE told == Told(report)
           places == {k \in DOMAIN told : told[k].statement = statement}
           B == Behind(told, statement)
           M == [k \in DOMAIN B |-> B[k].support]
<1>1. IsList(told) /\ \A k \in DOMAIN told : told[k] \in Range(Supports(report))
  BY ToldFacts
<1>2. B = Picked(told, places)
  BY DEF Behind
<1>3. Backing(told, statement) = Distinct(M)
  BY BackingIs
<1>4. \A k \in places : k \in DOMAIN told /\ told[k].statement = statement
  OBVIOUS
<1> HIDE DEF told, places
<1>5. IsList(B) /\ \A i \in DOMAIN B : \E k \in places : B[i] = told[k]
  <2>1. places \subseteq DOMAIN told
    BY <1>4
  <2>2. QED
    BY <1>1, <1>2, <2>1, PickedElements
<1> HIDE DEF B
<1>6. IsList(M)
  BY <1>5, MappedIsList
<1>7. \A k \in DOMAIN M : Says(M[k], statement)
  <2> TAKE k \in DOMAIN M
  <2>1. PICK j \in places : B[k] = told[j]
    BY <1>5
  <2>2. M[k] = told[j].support /\ told[j] \in Range(Supports(report)) /\ told[j].statement = statement
    BY <1>1, <1>4, <2>1
  <2>3. QED
    BY <2>2 DEF Says
<1> HIDE DEF M
<1>8. /\ IsList(Distinct(M)) /\ \A i \in DOMAIN Distinct(M) : \E k \in DOMAIN M : Distinct(M)[i] = M[k]
  BY <1>6, DistinctFacts
<1>9. QED
  BY <1>3, <1>7, <1>8 DEF told

\* The hypotheses: one for each statement, with what says it.
LEMMA HypothesesHeld ==
    ASSUME EngineReport(report)
    PROVE  /\ IsList(Hypotheses(report)) /\ Len(Hypotheses(report)) = Held("hypotheses")
           /\ \A k \in DOMAIN Hypotheses(report) :
                 LET item == Hypotheses(report)[k]
                 IN  /\ item.id[1] = "hypothesis" /\ DOMAIN item = {"id", "statement", "supports"}
                     /\ IsList(item.supports)
                     /\ \A j \in DOMAIN item.supports : Says(item.supports[j], item.statement)
<1> DEFINE told == Told(report)
           M == [k \in DOMAIN told |-> told[k].statement]
           S == Statements(told)
           said == { s.statement : s \in Range(Supports(report)) } \ {None}
<1>1. /\ IsList(told)
      /\ \A k \in DOMAIN told : told[k] \in Range(Supports(report)) /\ told[k].statement # None
      /\ \A s \in Range(Supports(report)) : s.statement # None => s \in Range(told)
  BY ToldFacts
<1>2. Hypotheses(report) = [h \in DOMAIN S |-> [ id |-> << "hypothesis", h >>, statement |-> S[h], supports |-> Backing(told, S[h]) ]]
  BY HypothesesAre
<1>3. S = Distinct(M)
  BY DEF Statements
<1>4. Held("hypotheses") = Cardinality(said)
  BY DEF Held
<1>5. \A statement : IsList(Backing(told, statement)) /\ \A j \in DOMAIN Backing(told, statement) : Says(Backing(told, statement)[j], statement)
  BY BackingFacts
<1> HIDE DEF told, S
<1>6. IsList(M)
  BY <1>1, MappedIsList
<1>7. Range(M) = said
  <2>1. ASSUME NEW x \in Range(M) PROVE x \in said
    <3>1. PICK k \in DOMAIN told : x = told[k].statement
      BY DEF Range
    <3>2. QED
      BY <1>1, <3>1
  <2>2. ASSUME NEW x \in said PROVE x \in Range(M)
    <3>1. PICK s \in Range(Supports(report)) : x = s.statement /\ x # None
      OBVIOUS
    <3>2. PICK k \in DOMAIN told : s = told[k]
      BY <1>1, <3>1 DEF Range
    <3>3. k \in DOMAIN M /\ M[k] = x
      BY <3>1, <3>2
    <3> HIDE DEF M
    <3>4. QED
      BY <3>3 DEF Range
  <2> HIDE DEF M, said
  <2>3. QED
    BY <2>1, <2>2
<1> HIDE DEF M, said
<1>8. IsList(S) /\ Len(S) = Cardinality(said)
  BY <1>3, <1>6, <1>7, DistinctFacts
<1>9. IsList(Hypotheses(report)) /\ Len(Hypotheses(report)) = Len(S)
  BY <1>2, <1>8, MappedIsList
<1>10. ASSUME NEW k \in DOMAIN Hypotheses(report)
       PROVE  LET item == Hypotheses(report)[k]
              IN  /\ item.id[1] = "hypothesis" /\ DOMAIN item = {"id", "statement", "supports"}
                  /\ IsList(item.supports)
                  /\ \A j \in DOMAIN item.supports : Says(item.supports[j], item.statement)
  <2> DEFINE item == Hypotheses(report)[k]
  <2>1. item = [ id |-> << "hypothesis", k >>, statement |-> S[k], supports |-> Backing(told, S[k]) ]
    BY <1>2
  <2> HIDE DEF item
  <2>2. /\ item.id[1] = "hypothesis" /\ DOMAIN item = {"id", "statement", "supports"}
        /\ item.statement = S[k] /\ item.supports = Backing(told, S[k])
    BY <2>1
  <2>3. IsList(item.supports) /\ \A j \in DOMAIN item.supports : Says(item.supports[j], item.statement)
    BY <1>5, <2>2
  <2>4. QED
    BY <2>2, <2>3 DEF item
<1>11. QED
  BY <1>4, <1>8, <1>9, <1>10

\* What the recommendations before the k-th have taken.
Before(g, k) == { g[j] : j \in 1 .. (k - 1) }

\* Each of the first n recommendations takes the first finding of its own that is left.
Takes(g, n) ==
    DOMAIN g = 1 .. n /\ g = [k \in 1 .. n |-> FirstOf(Fitting(report, Before(g, k), report.recommendations[k]))]

\* The sources of the recommendations, one after the other.
LEMMA LinkedSteps ==
    ASSUME EngineReport(report)
    PROVE  \A k \in DOMAIN report.recommendations :
               Linked(report)[k] = FirstOf(Fitting(report, Before(Linked(report), k), report.recommendations[k]))
<1> DEFINE D == DOMAIN report.recommendations
           N == Len(report.recommendations)
           First(g, k) == FirstOf(Fitting(report, Before(g, k), report.recommendations[k]))
           Some(n) == \E g : Takes(g, n)
           S == {n \in Nat : Some(n)}
<1>1. N \in Nat /\ D = 1 .. N
  BY ReportLists, ListFacts
<1>2. Some(0)
  <2>1. 1 .. 0 = {}
    OBVIOUS
  <2>2. Takes(<< >>, 0)
    BY <2>1 DEF Takes
  <2>3. QED
    BY <2>2
<1>3. ASSUME NEW n \in Nat, Some(n) PROVE Some(n + 1)
  <2>1. PICK g : Takes(g, n)
    BY <1>3
  <2> DEFINE new == First(g, n + 1)
             h == [k \in 1 .. n + 1 |-> IF k = n + 1 THEN new ELSE g[k]]
  <2>2. \A k \in 1 .. n : h[k] = g[k] /\ k \in 1 .. n + 1
    OBVIOUS
  <2>3. h[n + 1] = new /\ DOMAIN h = 1 .. n + 1
    OBVIOUS
  <2>4. \A k \in 1 .. n + 1 : k = n + 1 \/ k \in 1 .. n
    OBVIOUS
  <2>5. \A k \in 1 .. n : g[k] = First(g, k)
    BY <2>1 DEF Takes
  <2>6. h = [k \in 1 .. n + 1 |-> h[k]]
    OBVIOUS
  <2> HIDE DEF h, new, First
  <2>7. ASSUME NEW k \in 1 .. n + 1 PROVE h[k] = First(h, k)
    <3>1. \A j \in 1 .. (k - 1) : h[j] = g[j]
      BY <2>2, <2>7
    <3>2. Before(h, k) = Before(g, k)
      BY <3>1 DEF Before
    <3>3. First(h, k) = First(g, k)
      BY <3>2 DEF First
    <3>4. QED
      BY <2>2, <2>3, <2>4, <2>5, <3>3 DEF new
  <2>8. h = [k \in 1 .. n + 1 |-> First(h, k)]
    BY <2>6, <2>7
  <2>9. Takes(h, n + 1)
    BY <2>3, <2>8 DEF Takes, First
  <2>10. QED
    BY <2>9
<1>4. Some(N)
  <2> HIDE DEF Some, N
  <2>1. 0 \in S /\ \A n \in Nat : n \in S => n + 1 \in S
    BY <1>2, <1>3
  <2> HIDE DEF S
  <2>2. \A n \in Nat : n \in S
    BY <2>1, SetInduction
  <2>3. QED
    BY <1>1, <2>2 DEF S
<1>5. PICK g : Takes(g, N)
  BY <1>4
<1> DEFINE source == CHOOSE f : f = [k \in D |-> First(f, k)]
<1>6. g = [k \in D |-> First(g, k)]
  BY <1>1, <1>5 DEF Takes
<1>7. source = [k \in D |-> First(source, k)]
  <2> HIDE DEF First, D
  <2>1. QED
    BY <1>6
<1>8. Linked(report) = source
  BY DEF Linked, Before
<1> HIDE DEF source
<1>9. \A k \in D : source[k] = First(source, k)
  <2> HIDE DEF First
  <2>1. QED
    BY <1>7
<1>10. QED
  BY <1>8, <1>9

\* A recommendation that has a source has the first finding of its type and action that
\* no earlier one has.
LEMMA LinkedFacts ==
    ASSUME EngineReport(report), NEW k \in DOMAIN report.recommendations, Linked(report)[k] # None
    PROVE  LET f == Linked(report)[k]
           IN  /\ f \in DOMAIN Insights(report)
               /\ Insights(report)[f].type = report.recommendations[k].type
               /\ Insights(report)[f].action = report.recommendations[k].action
               /\ \A j \in DOMAIN report.recommendations : j < k => Linked(report)[j] # f
<1> DEFINE g == Linked(report)
           f == g[k]
           taken_ == Before(g, k)
           fits == Fitting(report, taken_, report.recommendations[k])
<1>1. f = FirstOf(fits)
  BY LinkedSteps
<1>2. fits # {} /\ f = Min(fits)
  BY <1>1 DEF FirstOf
<1>3. fits \subseteq Nat
  <2>1. DOMAIN Insights(report) \subseteq Nat
    BY InsightsFacts, ListFacts
  <2>2. QED
    BY <2>1 DEF Fitting
<1>4. f \in fits
  <2>1. \E x \in fits : \A y \in fits : x <= y
    <3> HIDE DEF fits
    <3>1. QED
      BY <1>2, <1>3, Least
  <2>2. QED
    BY <1>2, <2>1 DEF Min
<1>5. /\ f \in DOMAIN Insights(report) /\ f \notin taken_
      /\ Insights(report)[f].type = report.recommendations[k].type
      /\ Insights(report)[f].action = report.recommendations[k].action
  BY <1>4 DEF Fitting
<1>6. ASSUME NEW j \in DOMAIN report.recommendations, j < k PROVE g[j] # f
  <2> DEFINE n == Len(report.recommendations)
  <2>0. n \in Nat /\ DOMAIN report.recommendations = 1 .. n
    BY ReportLists, ListFacts
  <2> HIDE DEF n
  <2>1. j \in Nat /\ k \in Nat /\ 1 <= j
    BY <2>0
  <2>2. j \in 1 .. (k - 1)
    BY <1>6, <2>1
  <2>3. g[j] \in taken_
    BY <2>2 DEF Before
  <2>4. QED
    BY <1>5, <2>3
<1>7. QED
  BY <1>5, <1>6

\* The recommendations, and the findings they come from.
LEMMA RecommendationsHeld ==
    ASSUME EngineReport(report)
    PROVE  /\ IsList(Recommendations(report)) /\ Len(Recommendations(report)) = Held("recommendations")
           /\ DOMAIN Recommendations(report) = DOMAIN report.recommendations
           /\ \A k \in DOMAIN Recommendations(report) :
                 LET item == Recommendations(report)[k]
                 IN  /\ item.id[1] = "recommendation" /\ DOMAIN item = {"id", "action", "source"}
                     /\ item.action = report.recommendations[k].action
                     /\ item.source # None => /\ Linked(report)[k] # None
                                              /\ item.source = << "finding", Linked(report)[k] >>
<1> DEFINE s == report.recommendations
           g == Linked(report)
<1>1. IsList(s) /\ Len(s) = Held("recommendations")
  BY ReportLists DEF Held
<1>2. Recommendations(report) = [k \in DOMAIN s |-> [ id |-> << "recommendation", k >>, action |-> s[k].action,
                                      source |-> IF g[k] = None THEN None ELSE << "finding", g[k] >> ]]
  BY RecommendationsAre
<1> HIDE DEF s, g
<1>3. IsList(Recommendations(report)) /\ Len(Recommendations(report)) = Len(s)
  BY <1>1, <1>2, MappedIsList
<1>4. ASSUME NEW k \in DOMAIN s
      PROVE  LET item == Recommendations(report)[k]
             IN  /\ item.id[1] = "recommendation" /\ DOMAIN item = {"id", "action", "source"}
                 /\ item.action = s[k].action
                 /\ item.source # None => g[k] # None /\ item.source = << "finding", g[k] >>
  <2> DEFINE item == Recommendations(report)[k]
  <2>1. item = [ id |-> << "recommendation", k >>, action |-> s[k].action,
                 source |-> IF g[k] = None THEN None ELSE << "finding", g[k] >> ]
    BY <1>2
  <2> HIDE DEF item
  <2>2. /\ item.id[1] = "recommendation" /\ DOMAIN item = {"id", "action", "source"}
        /\ item.action = s[k].action /\ item.source = IF g[k] = None THEN None ELSE << "finding", g[k] >>
    BY <2>1
  <2>3. QED
    BY <2>2 DEF item
<1>5. QED
  BY <1>1, <1>2, <1>3, <1>4 DEF s, g

\* What the report lacks: a metric each, once.
LEMMA UnavailableHeld ==
    ASSUME EngineReport(report)
    PROVE  /\ IsList(Unavailable(report)) /\ Len(Unavailable(report)) = Held("unavailable_metrics")
           /\ \A k \in DOMAIN Unavailable(report) : Unavailable(report)[k].id[1] = "unavailable"
           /\ \A m \in Missing : \E k \in DOMAIN Unavailable(report) : Unavailable(report)[k].metric = m
<1> DEFINE places == UnknownPlaces(report)
           B == Absent(report)
           M == [k \in DOMAIN B |-> Lacking(B[k].metric)]
           P == NoProfit(report)
           U == M \o P
<1>1. IsList(report.kpis) /\ places \subseteq DOMAIN report.kpis
      /\ \A k \in DOMAIN report.kpis : k \in places <=> ~Known(report.kpis[k])
  BY ReportLists DEF UnknownPlaces
<1>2. B = Picked(report.kpis, places)
  BY DEF Absent
<1>3. Unavailable(report) = Distinct(U)
  BY UnavailableAre
<1> HIDE DEF places, B
<1>4. /\ IsList(B) /\ (\A k \in places : report.kpis[k] \in Range(B))
      /\ \A i \in DOMAIN B : \E k \in places : B[i] = report.kpis[k]
  BY <1>1, <1>2, PickedElements
<1>5. IsList(M)
  BY <1>4, MappedIsList
<1>6. IsList(P) /\ Range(P) = IF report.complete THEN {} ELSE {Lacking("contribution_profit"), Lacking("contribution_margin")}
  <2>1. Profit(report) # None <=> report.complete
    BY DEF Profit, EngineReport
  <2> DEFINE a == Lacking("contribution_profit")
             b == Lacking("contribution_margin")
  <2>2. P = IF Profit(report) # None THEN << >> ELSE << a, b >>
    BY DEF NoProfit
  <2> HIDE DEF a, b, P
  <2>3. IsList(<< >>) /\ Range(<< >>) = {}
    <3>1. << >> \in Seq({}) /\ DOMAIN << >> = {}
      OBVIOUS
    <3>2. QED
      BY <3>1, SeqIsList DEF Range
  <2>4. IsList(<< a, b >>) /\ Range(<< a, b >>) = {a, b}
    <3>1. << a, b >> \in Seq({a, b}) /\ DOMAIN << a, b >> = {1, 2} /\ << a, b >>[1] = a /\ << a, b >>[2] = b
      OBVIOUS
    <3>2. QED
      BY <3>1, SeqIsList DEF Range
  <2>5. QED
    BY <2>1, <2>2, <2>3, <2>4 DEF a, b
<1> DEFINE missing == { Lacking(m) : m \in Missing }
<1>7. ASSUME NEW m \in Missing
      PROVE  \/ \E k \in DOMAIN report.kpis : ~Known(report.kpis[k]) /\ m = report.kpis[k].metric
             \/ (~report.complete /\ m \in {"contribution_profit", "contribution_margin"})
  BY DEF Missing, Range
<1>8. /\ \A k \in DOMAIN report.kpis : ~Known(report.kpis[k]) => report.kpis[k].metric \in Missing
      /\ ~report.complete => "contribution_profit" \in Missing /\ "contribution_margin" \in Missing
  BY DEF Missing, Range
<1>9. \A x \in Range(M) : \E k \in DOMAIN B : x = Lacking(B[k].metric)
  BY DEF Range
<1>10. \A k \in DOMAIN B : Lacking(B[k].metric) \in Range(M)
  <2> TAKE k \in DOMAIN B
  <2>1. k \in DOMAIN M /\ M[k] = Lacking(B[k].metric)
    OBVIOUS
  <2> HIDE DEF M
  <2>2. QED
    BY <2>1 DEF Range
<1> HIDE DEF M, P
<1>11. /\ IsList(U)
       /\ (\A k \in DOMAIN U : (k \in DOMAIN M /\ U[k] = M[k]) \/ (k - Len(M) \in DOMAIN P /\ U[k] = P[k - Len(M)]))
       /\ (\A k \in DOMAIN M : M[k] \in Range(U)) /\ (\A k \in DOMAIN P : P[k] \in Range(U))
  BY <1>5, <1>6, ConcatFacts
<1> HIDE DEF U
<1>12. \A x \in Range(U) : x \in Range(M) \/ x \in Range(P)
  BY <1>11 DEF Range
<1>13. \A x : x \in Range(M) \/ x \in Range(P) => x \in Range(U)
  BY <1>11 DEF Range
<1>14. Range(U) = missing
  <2>1. ASSUME NEW x \in Range(U) PROVE x \in missing
    <3>1. CASE x \in Range(M)
      <4>1. PICK k \in DOMAIN B : x = Lacking(B[k].metric)
        BY <1>9, <3>1
      <4>2. PICK j \in places : B[k] = report.kpis[j]
        BY <1>4
      <4>3. B[k].metric \in Missing
        BY <1>1, <1>8, <4>2
      <4>4. QED
        BY <4>1, <4>3
    <3>2. CASE x \in Range(P)
      BY <1>6, <1>8, <3>2
    <3>3. QED
      BY <1>12, <3>1, <3>2
  <2>2. ASSUME NEW m \in Missing PROVE Lacking(m) \in Range(U)
    <3>1. CASE \E k \in DOMAIN report.kpis : ~Known(report.kpis[k]) /\ m = report.kpis[k].metric
      <4>1. PICK k \in DOMAIN report.kpis : ~Known(report.kpis[k]) /\ m = report.kpis[k].metric
        BY <3>1
      <4>2. PICK i \in DOMAIN B : B[i] = report.kpis[k]
        BY <1>1, <1>4, <4>1 DEF Range
      <4>3. Lacking(m) \in Range(M)
        BY <1>10, <4>1, <4>2
      <4>4. QED
        BY <1>13, <4>3
    <3>2. CASE ~report.complete /\ m \in {"contribution_profit", "contribution_margin"}
      <4>1. Lacking(m) \in Range(P)
        BY <1>6, <3>2
      <4>2. QED
        BY <1>13, <4>1
    <3>3. QED
      BY <1>7, <3>1, <3>2
  <2>3. QED
    BY <2>1, <2>2
<1>15. /\ IsList(Distinct(U)) /\ (\A k \in DOMAIN U : U[k] \in Range(Distinct(U)))
       /\ (\A i \in DOMAIN Distinct(U) : \E k \in DOMAIN U : Distinct(U)[i] = U[k])
       /\ IsFiniteSet(Range(U)) /\ Len(Distinct(U)) = Cardinality(Range(U))
  BY <1>11, DistinctFacts
<1>16. Cardinality(missing) = Cardinality(Missing)
  <2> DEFINE one == [x \in missing |-> x.metric]
  <2>1. \A x \in missing : \E m \in Missing : x = Lacking(m) /\ x.metric = m
    BY DEF Lacking
  <2>2. \A m \in Missing : Lacking(m) \in missing /\ Lacking(m).metric = m
    BY DEF Lacking
  <2> HIDE DEF missing
  <2>3. \A x \in missing : one[x] = x.metric
    OBVIOUS
  <2>4. one \in [missing -> Missing]
    BY <2>1
  <2> HIDE DEF one
  <2>5. \A x, y \in missing : one[x] = one[y] => x = y
    BY <2>1, <2>3
  <2>6. \A m \in Missing : \E x \in missing : one[x] = m
    BY <2>2, <2>3
  <2>7. one \in Bijection(missing, Missing)
    BY <2>4, <2>5, <2>6 DEF Bijection, Injection, Surjection, IsInjective
  <2>8. IsFiniteSet(missing) /\ ExistsBijection(missing, Missing)
    BY <1>14, <1>15, <2>7 DEF ExistsBijection
  <2>9. QED
    BY <2>8, FS_Bijection
<1>17. Held("unavailable_metrics") = Cardinality(Missing)
  BY DEF Held
<1>18. \A x \in missing : x.id[1] = "unavailable"
  BY DEF Lacking
<1>19. \A m \in Missing : Lacking(m) \in missing /\ Lacking(m).metric = m
  BY DEF Lacking
<1> HIDE DEF missing
<1>20. \A k \in DOMAIN U : U[k] \in missing
  BY <1>14 DEF Range
<1>21. \A m \in Missing : \E k \in DOMAIN Distinct(U) : Distinct(U)[k].metric = m
  <2> TAKE m \in Missing
  <2>1. PICK k \in DOMAIN U : U[k] = Lacking(m)
    BY <1>14, <1>19 DEF Range
  <2>2. PICK i \in DOMAIN Distinct(U) : Distinct(U)[i] = U[k]
    BY <1>15 DEF Range
  <2>3. QED
    BY <1>19, <2>1, <2>2
<1>22. QED
  BY <1>3, <1>14, <1>15, <1>16, <1>17, <1>18, <1>20, <1>21

-----------------------------------------------------------------------------
(* The whole context *)

\* The kind of the identifiers of a section.
Kinds == [ facts |-> {"kpi"}, findings |-> {"finding"}, evidence |-> EvidenceKinds, root_causes |-> {"root_cause"},
           hypotheses |-> {"hypothesis"}, recommendations |-> {"recommendation"}, limitations |-> {"limitation"},
           unavailable_metrics |-> {"unavailable"} ]

\* Each section is a list of what the report holds, with identifiers of its own kind.
LEMMA WholeFacts ==
    ASSUME EngineReport(report), ValidLimits(limits), NEW s \in Sections
    PROVE  LET list == Whole(report, limits)[s]
           IN  /\ IsList(list) /\ Len(list) = Held(s)
               /\ \A k \in DOMAIN list : list[k].id[1] \in Kinds[s]
<1> DEFINE W == Whole(report, limits)
<1>1. CASE s = "facts"
  <2>1. W[s] = Facts(report) /\ Kinds[s] = {"kpi"}
    BY <1>1 DEF Whole, Kinds
  <2>2. QED
    BY <1>1, <2>1, FactsHeld
<1>2. CASE s = "findings"
  <2>1. W[s] = Findings(report) /\ Kinds[s] = {"finding"}
    BY <1>2 DEF Whole, Kinds
  <2>2. QED
    BY <1>2, <2>1, FindingsHeld
<1>3. CASE s = "evidence"
  <2>1. W[s] = Evidence(report, limits) /\ Kinds[s] = EvidenceKinds
    BY <1>3 DEF Whole, Kinds
  <2>2. QED
    BY <1>3, <2>1, EvidenceHeld
<1>4. CASE s = "root_causes"
  <2>1. W[s] = RootCauses(report) /\ Kinds[s] = {"root_cause"}
    BY <1>4 DEF Whole, Kinds
  <2>2. QED
    BY <1>4, <2>1, RootCausesHeld
<1>5. CASE s = "hypotheses"
  <2>1. W[s] = Hypotheses(report) /\ Kinds[s] = {"hypothesis"}
    BY <1>5 DEF Whole, Kinds
  <2>2. QED
    BY <1>5, <2>1, HypothesesHeld
<1>6. CASE s = "recommendations"
  <2>1. W[s] = Recommendations(report) /\ Kinds[s] = {"recommendation"}
    BY <1>6 DEF Whole, Kinds
  <2>2. QED
    BY <1>6, <2>1, RecommendationsHeld
<1>7. CASE s = "limitations"
  <2>1. W[s] = Limitations(report) /\ Kinds[s] = {"limitation"}
    BY <1>7 DEF Whole, Kinds
  <2>2. QED
    BY <1>7, <2>1, LimitationsHeld
<1>8. CASE s = "unavailable_metrics"
  <2>1. W[s] = Unavailable(report) /\ Kinds[s] = {"unavailable"}
    BY <1>8 DEF Whole, Kinds
  <2>2. QED
    BY <1>8, <2>1, UnavailableHeld
<1>9. QED
  BY <1>1, <1>2, <1>3, <1>4, <1>5, <1>6, <1>7, <1>8 DEF Sections

-----------------------------------------------------------------------------
(* What is left of the context *)

\* What dropping references leaves of an item.
ItemKept(s, item, whole) ==
    /\ item.id = whole.id
    /\ s \notin {"hypotheses", "recommendations", "root_causes"} => item = whole
    /\ s = "hypotheses" =>
        /\ DOMAIN item = {"id", "statement", "supports"} /\ item.statement = whole.statement
        /\ IsList(item.supports) /\ Range(item.supports) \subseteq Range(whole.supports)
    /\ s = "recommendations" =>
        /\ DOMAIN item = {"id", "action", "source"} /\ item.action = whole.action
        /\ item.source \in {whole.source, None}
    /\ s = "root_causes" =>
        /\ DOMAIN item = {"id", "number", "factor_ids"} /\ item.number = whole.number
        /\ IsList(item.factor_ids) /\ Range(item.factor_ids) \subseteq Range(whole.factor_ids)

\* A section holds the first items of the whole one, and says how many it left out.
SectionKept(c, s, W) ==
    /\ IsList(c.sections[s]) /\ Len(c.sections[s]) <= Len(W[s])
    /\ c.truncation[s] = [ total |-> Len(W[s]), included |-> Len(c.sections[s]) ]
    /\ \A k \in DOMAIN c.sections[s] : ItemKept(s, c.sections[s][k], W[s][k])

Shaped(c) ==
    /\ DOMAIN c = {"currency", "score", "profit", "dimensions", "quality", "sections", "truncation"}
    /\ DOMAIN c.sections = Sections /\ DOMAIN c.truncation = Sections

Kept(c, W) == Shaped(c) /\ \A s \in Sections : SectionKept(c, s, W)

\* What is shown beside the sections.
Beside(c) == << c.currency, c.score, c.profit, c.dimensions, c.quality >>

\* The references between sections name what is there.
NoneDangles(c) ==
    /\ \A k \in DOMAIN c.sections.hypotheses : Range(c.sections.hypotheses[k].supports) \subseteq ContextIds(c)
    /\ \A k \in DOMAIN c.sections.root_causes : Range(c.sections.root_causes[k].factor_ids) \subseteq ContextIds(c)
    /\ \A k \in DOMAIN c.sections.recommendations :
        c.sections.recommendations[k].source # None => c.sections.recommendations[k].source \in ContextIds(c)

\* A list without the references that are gone.
LEMMA PresentFacts ==
    ASSUME NEW list, IsList(list), NEW ids
    PROVE  LET left == Present(list, ids)
           IN  IsList(left) /\ Range(left) \subseteq Range(list) /\ Range(left) \subseteq ids
<1> DEFINE places == {k \in DOMAIN list : list[k] \in ids}
           left == Picked(list, places)
<1>1. \A k \in places : k \in DOMAIN list /\ list[k] \in ids /\ list[k] \in Range(list)
  BY DEF Range
<1>0. Present(list, ids) = left
  BY DEF Present, Filter, Once
<1> HIDE DEF places
<1>2. IsList(left) /\ \A i \in DOMAIN left : \E k \in places : left[i] = list[k]
  <2>1. places \subseteq DOMAIN list
    BY <1>1
  <2>2. QED
    BY <2>1, PickedElements
<1> HIDE DEF left
<1>3. \A x \in Range(left) : \E i \in DOMAIN left : x = left[i]
  BY DEF Range
<1>4. QED
  BY <1>0, <1>1, <1>2, <1>3

\* A hypothesis keeps its statement, without the supports that are gone.
LEMMA LeftHypothesesAre ==
    ASSUME NEW items, NEW ids, \A k \in DOMAIN items : DOMAIN items[k] = {"id", "statement", "supports"}
    PROVE  LET new == LeftHypotheses(items, ids)
           IN  /\ DOMAIN new = DOMAIN items /\ new = [k \in DOMAIN new |-> new[k]]
               /\ \A k \in DOMAIN items :
                  /\ DOMAIN new[k] = {"id", "statement", "supports"}
                  /\ new[k].id = items[k].id
                  /\ new[k].statement = items[k].statement
                  /\ new[k].supports = Present(items[k].supports, ids)
<1> DEFINE new == LeftHypotheses(items, ids)
           Left(item) == [item EXCEPT !.supports = Present(@, ids)]
<1>1. new = [k \in DOMAIN items |-> Left(items[k])]
  BY DEF LeftHypotheses, Mapped, Once
<1>2. ASSUME NEW k \in DOMAIN items
      PROVE  /\ DOMAIN Left(items[k]) = {"id", "statement", "supports"}
             /\ Left(items[k]).id = items[k].id
             /\ Left(items[k]).statement = items[k].statement
             /\ Left(items[k]).supports = Present(items[k].supports, ids)
  OBVIOUS
<1> HIDE DEF new, Left
<1>3. QED
  BY <1>1, <1>2 DEF new

\* A recommendation keeps its action, without a source that is gone.
LEMMA LeftRecommendationsAre ==
    ASSUME NEW items, NEW ids, \A k \in DOMAIN items : DOMAIN items[k] = {"id", "action", "source"}
    PROVE  LET new == LeftRecommendations(items, ids)
           IN  /\ DOMAIN new = DOMAIN items /\ new = [k \in DOMAIN new |-> new[k]]
               /\ \A k \in DOMAIN items :
                  /\ DOMAIN new[k] = {"id", "action", "source"}
                  /\ new[k].id = items[k].id
                  /\ new[k].action = items[k].action
                  /\ new[k].source = IF items[k].source \in ids THEN items[k].source ELSE None
<1> DEFINE new == LeftRecommendations(items, ids)
           Left(item) == IF item.source \in ids THEN item ELSE [item EXCEPT !.source = None]
<1>1. new = [k \in DOMAIN items |-> Left(items[k])]
  BY DEF LeftRecommendations, Mapped, Once
<1>2. ASSUME NEW k \in DOMAIN items
      PROVE  /\ DOMAIN Left(items[k]) = {"id", "action", "source"}
             /\ Left(items[k]).id = items[k].id
             /\ Left(items[k]).action = items[k].action
             /\ Left(items[k]).source = IF items[k].source \in ids THEN items[k].source ELSE None
  OBVIOUS
<1> HIDE DEF new, Left
<1>3. QED
  BY <1>1, <1>2 DEF new

\* A cause keeps its number, without the factors that are gone.
LEMMA LeftRootCausesAre ==
    ASSUME NEW items, NEW ids, \A k \in DOMAIN items : DOMAIN items[k] = {"id", "number", "factor_ids"}
    PROVE  LET new == LeftRootCauses(items, ids)
           IN  /\ DOMAIN new = DOMAIN items /\ new = [k \in DOMAIN new |-> new[k]]
               /\ \A k \in DOMAIN items :
                  /\ DOMAIN new[k] = {"id", "number", "factor_ids"}
                  /\ new[k].id = items[k].id
                  /\ new[k].number = items[k].number
                  /\ new[k].factor_ids = Present(items[k].factor_ids, ids)
<1> DEFINE new == LeftRootCauses(items, ids)
           Left(item) == [item EXCEPT !.factor_ids = Present(@, ids)]
<1>1. new = [k \in DOMAIN items |-> Left(items[k])]
  BY DEF LeftRootCauses, Mapped, Once
<1>2. ASSUME NEW k \in DOMAIN items
      PROVE  /\ DOMAIN Left(items[k]) = {"id", "number", "factor_ids"}
             /\ Left(items[k]).id = items[k].id
             /\ Left(items[k]).number = items[k].number
             /\ Left(items[k]).factor_ids = Present(items[k].factor_ids, ids)
  OBVIOUS
<1> HIDE DEF new, Left
<1>3. QED
  BY <1>1, <1>2 DEF new

\* What dropping references changes of a context.
LEMMA DanglingFields ==
    ASSUME NEW c, Shaped(c)
    PROVE  LET d == WithoutDangling(c)
               ids == ContextIds(c)
           IN  /\ Shaped(d) /\ Beside(d) = Beside(c) /\ d.truncation = c.truncation
               /\ d.sections.hypotheses = LeftHypotheses(c.sections.hypotheses, ids)
               /\ d.sections.recommendations = LeftRecommendations(c.sections.recommendations, ids)
               /\ d.sections.root_causes = LeftRootCauses(c.sections.root_causes, ids)
               /\ \A s \in Sections \ {"hypotheses", "recommendations", "root_causes"} : d.sections[s] = c.sections[s]
<1> DEFINE d == WithoutDangling(c)
<1>1. DOMAIN c = {"currency", "score", "profit", "dimensions", "quality", "sections", "truncation"}
      /\ DOMAIN c.sections = Sections /\ DOMAIN c.truncation = Sections
  BY DEF Shaped
<1>2. /\ DOMAIN d = DOMAIN c /\ DOMAIN d.sections = DOMAIN c.sections /\ d.truncation = c.truncation
      /\ d.sections.hypotheses = LeftHypotheses(c.sections.hypotheses, ContextIds(c))
      /\ d.sections.recommendations = LeftRecommendations(c.sections.recommendations, ContextIds(c))
      /\ d.sections.root_causes = LeftRootCauses(c.sections.root_causes, ContextIds(c))
      /\ \A s \in Sections \ {"hypotheses", "recommendations", "root_causes"} : d.sections[s] = c.sections[s]
  BY <1>1 DEF WithoutDangling, Sections
<1>3. Beside(d) = Beside(c)
  BY <1>1 DEF WithoutDangling, Beside
<1>4. Shaped(d)
  BY <1>1, <1>2 DEF Shaped
<1>5. QED
  BY <1>2, <1>3, <1>4

\* Dropping references changes no identifier.
LEMMA SameIds ==
    ASSUME NEW c, NEW W, Kept(c, W)
    PROVE  /\ \A s \in Sections : IdsOf(WithoutDangling(c).sections[s]) = IdsOf(c.sections[s])
           /\ ContextIds(WithoutDangling(c)) = ContextIds(c)
<1> DEFINE d == WithoutDangling(c)
           ids == ContextIds(c)
<1>1. Shaped(c)
  BY DEF Kept
<1>2. /\ Beside(d) = Beside(c)
      /\ d.sections.hypotheses = LeftHypotheses(c.sections.hypotheses, ids)
      /\ d.sections.recommendations = LeftRecommendations(c.sections.recommendations, ids)
      /\ d.sections.root_causes = LeftRootCauses(c.sections.root_causes, ids)
      /\ \A s \in Sections \ {"hypotheses", "recommendations", "root_causes"} : d.sections[s] = c.sections[s]
  BY <1>1, DanglingFields
<1> HIDE DEF d, ids
<1>3. \A k \in DOMAIN c.sections.hypotheses : DOMAIN c.sections.hypotheses[k] = {"id", "statement", "supports"}
  BY DEF Kept, SectionKept, ItemKept, Sections
<1>4. \A k \in DOMAIN c.sections.recommendations : DOMAIN c.sections.recommendations[k] = {"id", "action", "source"}
  BY DEF Kept, SectionKept, ItemKept, Sections
<1>5. \A k \in DOMAIN c.sections.root_causes : DOMAIN c.sections.root_causes[k] = {"id", "number", "factor_ids"}
  BY DEF Kept, SectionKept, ItemKept, Sections
<1>6. /\ DOMAIN d.sections.hypotheses = DOMAIN c.sections.hypotheses
      /\ \A k \in DOMAIN c.sections.hypotheses : d.sections.hypotheses[k].id = c.sections.hypotheses[k].id
  <2> DEFINE old == c.sections.hypotheses
             new == d.sections.hypotheses
  <2>1. new = LeftHypotheses(old, ids)
    BY <1>2
  <2>2. \A k \in DOMAIN old : DOMAIN old[k] = {"id", "statement", "supports"}
    BY <1>3
  <2> HIDE DEF old, new
  <2>3. DOMAIN new = DOMAIN old /\ \A k \in DOMAIN old : new[k].id = old[k].id
    BY <2>1, <2>2, LeftHypothesesAre
  <2>4. QED
    BY <2>3 DEF old, new
<1>7. /\ DOMAIN d.sections.recommendations = DOMAIN c.sections.recommendations
      /\ \A k \in DOMAIN c.sections.recommendations : d.sections.recommendations[k].id = c.sections.recommendations[k].id
  <2> DEFINE old == c.sections.recommendations
             new == d.sections.recommendations
  <2>1. new = LeftRecommendations(old, ids)
    BY <1>2
  <2>2. \A k \in DOMAIN old : DOMAIN old[k] = {"id", "action", "source"}
    BY <1>4
  <2> HIDE DEF old, new
  <2>3. DOMAIN new = DOMAIN old /\ \A k \in DOMAIN old : new[k].id = old[k].id
    BY <2>1, <2>2, LeftRecommendationsAre
  <2>4. QED
    BY <2>3 DEF old, new
<1>8. /\ DOMAIN d.sections.root_causes = DOMAIN c.sections.root_causes
      /\ \A k \in DOMAIN c.sections.root_causes : d.sections.root_causes[k].id = c.sections.root_causes[k].id
  <2> DEFINE old == c.sections.root_causes
             new == d.sections.root_causes
  <2>1. new = LeftRootCauses(old, ids)
    BY <1>2
  <2>2. \A k \in DOMAIN old : DOMAIN old[k] = {"id", "number", "factor_ids"}
    BY <1>5
  <2> HIDE DEF old, new
  <2>3. DOMAIN new = DOMAIN old /\ \A k \in DOMAIN old : new[k].id = old[k].id
    BY <2>1, <2>2, LeftRootCausesAre
  <2>4. QED
    BY <2>3 DEF old, new
<1>9. /\ IdsOf(d.sections.hypotheses) = IdsOf(c.sections.hypotheses)
      /\ IdsOf(d.sections.recommendations) = IdsOf(c.sections.recommendations)
      /\ IdsOf(d.sections.root_causes) = IdsOf(c.sections.root_causes)
  BY <1>6, <1>7, <1>8 DEF IdsOf
<1>10. ASSUME NEW s \in Sections PROVE IdsOf(d.sections[s]) = IdsOf(c.sections[s])
  BY <1>2, <1>9
<1>11. d.dimensions = c.dimensions
  BY <1>2 DEF Beside
<1>12. ContextIds(d) = ContextIds(c)
  <2>1. { IdsOf(d.sections[s]) : s \in Sections } = { IdsOf(c.sections[s]) : s \in Sections }
    BY <1>10
  <2>2. QED
    BY <1>11, <2>1 DEF ContextIds
<1>13. QED
  BY <1>10, <1>12 DEF d

\* Dropping references keeps what is kept, and leaves none that dangles.
LEMMA DanglingKeeps ==
    ASSUME NEW c, NEW W, Kept(c, W)
    PROVE  /\ Kept(WithoutDangling(c), W) /\ NoneDangles(WithoutDangling(c))
           /\ Beside(WithoutDangling(c)) = Beside(c)
<1> DEFINE d == WithoutDangling(c)
           ids == ContextIds(c)
<1>1. Shaped(c) /\ \A s \in Sections : SectionKept(c, s, W)
  BY DEF Kept
<1>2. /\ Shaped(d) /\ Beside(d) = Beside(c) /\ d.truncation = c.truncation
      /\ d.sections.hypotheses = LeftHypotheses(c.sections.hypotheses, ids)
      /\ d.sections.recommendations = LeftRecommendations(c.sections.recommendations, ids)
      /\ d.sections.root_causes = LeftRootCauses(c.sections.root_causes, ids)
      /\ \A s \in Sections \ {"hypotheses", "recommendations", "root_causes"} : d.sections[s] = c.sections[s]
  BY <1>1, DanglingFields
<1>3. ContextIds(d) = ids
  BY SameIds
<1> HIDE DEF d, ids
<1>4. SectionKept(d, "hypotheses", W)
      /\ \A k \in DOMAIN d.sections.hypotheses : Range(d.sections.hypotheses[k].supports) \subseteq ids
  <2> DEFINE old == c.sections.hypotheses
             new == d.sections.hypotheses
  <2>1. IsList(old) /\ Len(old) <= Len(W["hypotheses"])
        /\ c.truncation["hypotheses"] = [ total |-> Len(W["hypotheses"]), included |-> Len(old) ]
        /\ \A k \in DOMAIN old : ItemKept("hypotheses", old[k], W["hypotheses"][k])
    BY <1>1 DEF SectionKept, Sections
  <2>0. new = LeftHypotheses(old, ids) /\ \A k \in DOMAIN old : DOMAIN old[k] = {"id", "statement", "supports"}
    BY <1>2, <2>1 DEF ItemKept
  <2> HIDE DEF old, new
  <2>2. /\ DOMAIN new = DOMAIN old /\ new = [k \in DOMAIN new |-> new[k]]
        /\ \A k \in DOMAIN old :
            /\ DOMAIN new[k] = {"id", "statement", "supports"}
            /\ new[k].id = old[k].id
            /\ new[k].statement = old[k].statement
            /\ new[k].supports = Present(old[k].supports, ids)
    BY <2>0, LeftHypothesesAre
  <2>3. IsList(new) /\ Len(new) = Len(old) /\ DOMAIN new = DOMAIN old
    BY <2>1, <2>2, MappedIsList
  <2>4. ASSUME NEW k \in DOMAIN old
        PROVE  ItemKept("hypotheses", new[k], W["hypotheses"][k]) /\ Range(new[k].supports) \subseteq ids
    <3>1. /\ DOMAIN old[k] = {"id", "statement", "supports"} /\ IsList(old[k].supports)
          /\ old[k].id = W["hypotheses"][k].id /\ old[k].statement = W["hypotheses"][k].statement
          /\ Range(old[k].supports) \subseteq Range(W["hypotheses"][k].supports)
      BY <2>1 DEF ItemKept
    <3>2. /\ DOMAIN new[k] = {"id", "statement", "supports"} /\ new[k].id = old[k].id
          /\ new[k].statement = old[k].statement /\ new[k].supports = Present(old[k].supports, ids)
      BY <2>2, <3>1
    <3>3. /\ IsList(new[k].supports) /\ Range(new[k].supports) \subseteq Range(old[k].supports)
          /\ Range(new[k].supports) \subseteq ids
      BY <3>1, <3>2, PresentFacts
    <3>4. QED
      BY <3>1, <3>2, <3>3 DEF ItemKept
  <2>5. /\ IsList(new) /\ Len(new) <= Len(W["hypotheses"])
        /\ d.truncation["hypotheses"] = [ total |-> Len(W["hypotheses"]), included |-> Len(new) ]
        /\ \A k \in DOMAIN new : ItemKept("hypotheses", new[k], W["hypotheses"][k])
    BY <1>2, <2>1, <2>3, <2>4
  <2>6. SectionKept(d, "hypotheses", W)
    BY <2>5 DEF SectionKept, new
  <2>7. QED
    BY <2>3, <2>4, <2>6 DEF new, old
<1>5. SectionKept(d, "root_causes", W)
      /\ \A k \in DOMAIN d.sections.root_causes : Range(d.sections.root_causes[k].factor_ids) \subseteq ids
  <2> DEFINE old == c.sections.root_causes
             new == d.sections.root_causes
  <2>1. IsList(old) /\ Len(old) <= Len(W["root_causes"])
        /\ c.truncation["root_causes"] = [ total |-> Len(W["root_causes"]), included |-> Len(old) ]
        /\ \A k \in DOMAIN old : ItemKept("root_causes", old[k], W["root_causes"][k])
    BY <1>1 DEF SectionKept, Sections
  <2>0. new = LeftRootCauses(old, ids) /\ \A k \in DOMAIN old : DOMAIN old[k] = {"id", "number", "factor_ids"}
    BY <1>2, <2>1 DEF ItemKept
  <2> HIDE DEF old, new
  <2>2. /\ DOMAIN new = DOMAIN old /\ new = [k \in DOMAIN new |-> new[k]]
        /\ \A k \in DOMAIN old :
            /\ DOMAIN new[k] = {"id", "number", "factor_ids"}
            /\ new[k].id = old[k].id
            /\ new[k].number = old[k].number
            /\ new[k].factor_ids = Present(old[k].factor_ids, ids)
    BY <2>0, LeftRootCausesAre
  <2>3. IsList(new) /\ Len(new) = Len(old) /\ DOMAIN new = DOMAIN old
    BY <2>1, <2>2, MappedIsList
  <2>4. ASSUME NEW k \in DOMAIN old
        PROVE  ItemKept("root_causes", new[k], W["root_causes"][k]) /\ Range(new[k].factor_ids) \subseteq ids
    <3>1. /\ DOMAIN old[k] = {"id", "number", "factor_ids"} /\ IsList(old[k].factor_ids)
          /\ old[k].id = W["root_causes"][k].id /\ old[k].number = W["root_causes"][k].number
          /\ Range(old[k].factor_ids) \subseteq Range(W["root_causes"][k].factor_ids)
      BY <2>1 DEF ItemKept
    <3>2. /\ DOMAIN new[k] = {"id", "number", "factor_ids"} /\ new[k].id = old[k].id
          /\ new[k].number = old[k].number /\ new[k].factor_ids = Present(old[k].factor_ids, ids)
      BY <2>2, <3>1
    <3>3. /\ IsList(new[k].factor_ids) /\ Range(new[k].factor_ids) \subseteq Range(old[k].factor_ids)
          /\ Range(new[k].factor_ids) \subseteq ids
      BY <3>1, <3>2, PresentFacts
    <3>4. QED
      BY <3>1, <3>2, <3>3 DEF ItemKept
  <2>5. /\ IsList(new) /\ Len(new) <= Len(W["root_causes"])
        /\ d.truncation["root_causes"] = [ total |-> Len(W["root_causes"]), included |-> Len(new) ]
        /\ \A k \in DOMAIN new : ItemKept("root_causes", new[k], W["root_causes"][k])
    BY <1>2, <2>1, <2>3, <2>4
  <2>6. SectionKept(d, "root_causes", W)
    BY <2>5 DEF SectionKept, new
  <2>7. QED
    BY <2>3, <2>4, <2>6 DEF new, old
<1>6. SectionKept(d, "recommendations", W)
      /\ \A k \in DOMAIN d.sections.recommendations :
            d.sections.recommendations[k].source # None => d.sections.recommendations[k].source \in ids
  <2> DEFINE old == c.sections.recommendations
             new == d.sections.recommendations
  <2>1. IsList(old) /\ Len(old) <= Len(W["recommendations"])
        /\ c.truncation["recommendations"] = [ total |-> Len(W["recommendations"]), included |-> Len(old) ]
        /\ \A k \in DOMAIN old : ItemKept("recommendations", old[k], W["recommendations"][k])
    BY <1>1 DEF SectionKept, Sections
  <2>0. new = LeftRecommendations(old, ids) /\ \A k \in DOMAIN old : DOMAIN old[k] = {"id", "action", "source"}
    BY <1>2, <2>1 DEF ItemKept
  <2> HIDE DEF old, new
  <2>2. /\ DOMAIN new = DOMAIN old /\ new = [k \in DOMAIN new |-> new[k]]
        /\ \A k \in DOMAIN old :
            /\ DOMAIN new[k] = {"id", "action", "source"}
            /\ new[k].id = old[k].id
            /\ new[k].action = old[k].action
            /\ new[k].source = IF old[k].source \in ids THEN old[k].source ELSE None
    BY <2>0, LeftRecommendationsAre
  <2>3. IsList(new) /\ Len(new) = Len(old) /\ DOMAIN new = DOMAIN old
    BY <2>1, <2>2, MappedIsList
  <2>4. ASSUME NEW k \in DOMAIN old
        PROVE  ItemKept("recommendations", new[k], W["recommendations"][k]) /\ (new[k].source # None => new[k].source \in ids)
    <3>1. /\ DOMAIN old[k] = {"id", "action", "source"}
          /\ old[k].id = W["recommendations"][k].id /\ old[k].action = W["recommendations"][k].action
          /\ old[k].source \in {W["recommendations"][k].source, None}
      BY <2>1 DEF ItemKept
    <3>2. /\ DOMAIN new[k] = {"id", "action", "source"} /\ new[k].id = old[k].id
          /\ new[k].action = old[k].action
          /\ new[k].source = IF old[k].source \in ids THEN old[k].source ELSE None
      BY <2>2, <3>1
    <3>3. QED
      BY <3>1, <3>2 DEF ItemKept
  <2>5. /\ IsList(new) /\ Len(new) <= Len(W["recommendations"])
        /\ d.truncation["recommendations"] = [ total |-> Len(W["recommendations"]), included |-> Len(new) ]
        /\ \A k \in DOMAIN new : ItemKept("recommendations", new[k], W["recommendations"][k])
    BY <1>2, <2>1, <2>3, <2>4
  <2>6. SectionKept(d, "recommendations", W)
    BY <2>5 DEF SectionKept, new
  <2>7. QED
    BY <2>3, <2>4, <2>6 DEF new, old
<1>7. ASSUME NEW s \in Sections \ {"hypotheses", "recommendations", "root_causes"} PROVE SectionKept(d, s, W)
  BY <1>1, <1>2 DEF SectionKept
<1>8. \A s \in Sections : SectionKept(d, s, W)
  BY <1>4, <1>5, <1>6, <1>7
<1>9. Kept(d, W)
  BY <1>2, <1>8 DEF Kept
<1>10. NoneDangles(d)
  BY <1>3, <1>4, <1>5, <1>6 DEF NoneDangles
<1>11. QED
  BY <1>2, <1>9, <1>10 DEF d

\* Halving a section keeps what is kept.
LEMMA HalvingKeeps ==
    ASSUME NEW c, NEW W, Kept(c, W), \A s \in Sections : IsList(W[s]), NEW s \in Sections
    PROVE  Kept(Halved(c, s), W) /\ Beside(Halved(c, s)) = Beside(c)
<1> DEFINE list == c.sections[s]
           half == Len(list) \div 2
           d == Halved(c, s)
<1>1. /\ DOMAIN c = {"currency", "score", "profit", "dimensions", "quality", "sections", "truncation"}
      /\ DOMAIN c.sections = Sections /\ DOMAIN c.truncation = Sections
      /\ \A t \in Sections : SectionKept(c, t, W)
  BY DEF Kept, Shaped
<1>2. /\ IsList(list) /\ Len(list) <= Len(W[s])
      /\ c.truncation[s] = [ total |-> Len(W[s]), included |-> Len(list) ]
      /\ \A k \in DOMAIN list : ItemKept(s, list[k], W[s][k])
  BY <1>1 DEF SectionKept
<1>3. Len(list) \in Nat /\ Len(W[s]) \in Nat /\ list \in Seq(Range(list)) /\ DOMAIN list = 1 .. Len(list)
  BY <1>2, ListFacts
<1>4. half \in Nat /\ half <= Len(list)
  <2>1. \A n \in Nat : n \div 2 \in Nat /\ n \div 2 <= n
    OBVIOUS
  <2> HIDE DEF list
  <2>2. QED
    BY <1>3, <2>1
<1> HIDE DEF half, list
<1>5. /\ Len(SubSeq(list, 1, half)) = half /\ SubSeq(list, 1, half) \in Seq(Range(list))
      /\ DOMAIN SubSeq(list, 1, half) = 1 .. half
      /\ \A k \in 1 .. half : SubSeq(list, 1, half)[k] = list[k]
  BY <1>3, <1>4
<1> USE DEF list, half
<1> DEFINE new == SubSeq(list, 1, half)
<1>6. IsList(new)
  BY <1>5, SeqIsList
<1>7. /\ DOMAIN d = DOMAIN c /\ DOMAIN d.sections = Sections /\ DOMAIN d.truncation = Sections
      /\ d.sections[s] = new
      /\ d.truncation[s] = [c.truncation[s] EXCEPT !.included = half]
      /\ \A t \in Sections \ {s} : d.sections[t] = c.sections[t] /\ d.truncation[t] = c.truncation[t]
      /\ Beside(d) = Beside(c)
  BY <1>1 DEF Halved, Beside
<1> HIDE DEF new, d, list
<1>8. d.truncation[s] = [ total |-> Len(W[s]), included |-> half ]
  BY <1>2, <1>7
<1> HIDE DEF half
<1>9. SectionKept(d, s, W)
  <2>1. half <= Len(W[s])
    BY <1>2, <1>3, <1>4
  <2>2. \A k \in DOMAIN new : ItemKept(s, new[k], W[s][k])
    BY <1>2, <1>3, <1>4, <1>5 DEF new
  <2>3. QED
    BY <1>5, <1>6, <1>7, <1>8, <2>1, <2>2 DEF SectionKept, new
<1>10. ASSUME NEW t \in Sections \ {s} PROVE SectionKept(d, t, W)
  BY <1>1, <1>7 DEF SectionKept
<1>11. Shaped(d)
  BY <1>1, <1>7 DEF Shaped
<1>12. Kept(d, W)
  BY <1>9, <1>10, <1>11 DEF Kept
<1>13. QED
  BY <1>7, <1>12 DEF d

\* An item of the whole section is kept as it is.
LEMMA WholeItems ==
    ASSUME EngineReport(report), ValidLimits(limits), NEW s \in Sections,
           NEW k \in DOMAIN Whole(report, limits)[s]
    PROVE  ItemKept(s, Whole(report, limits)[s][k], Whole(report, limits)[s][k])
<1> DEFINE item == Whole(report, limits)[s][k]
<1>1. CASE s = "hypotheses"
  <2>1. Whole(report, limits)[s] = Hypotheses(report)
    BY <1>1 DEF Whole
  <2>2. DOMAIN item = {"id", "statement", "supports"} /\ IsList(item.supports)
    BY <2>1, HypothesesHeld
  <2>3. QED
    BY <1>1, <2>2 DEF ItemKept
<1>2. CASE s = "recommendations"
  <2>1. Whole(report, limits)[s] = Recommendations(report)
    BY <1>2 DEF Whole
  <2>2. DOMAIN item = {"id", "action", "source"}
    BY <2>1, RecommendationsHeld
  <2>3. QED
    BY <1>2, <2>2 DEF ItemKept
<1>3. CASE s = "root_causes"
  <2>1. Whole(report, limits)[s] = RootCauses(report)
    BY <1>3 DEF Whole
  <2>2. DOMAIN item = {"id", "number", "factor_ids"} /\ IsList(item.factor_ids)
    BY <2>1, RootCausesHeld
  <2>3. QED
    BY <1>3, <2>2 DEF ItemKept
<1>4. CASE s \notin {"hypotheses", "recommendations", "root_causes"}
  BY <1>4 DEF ItemKept
<1>5. QED
  BY <1>1, <1>2, <1>3, <1>4

\* What is shown beside the sections is the report's.
Shown == << report.currency, report.score, Profit(report), Bound(Dimensions(report), limits.dimensions),
            Bound(Quality(report), limits.quality_fields) >>

\* The context, as it is built, keeps the first items of each section.
LEMMA BuildKeeps ==
    ASSUME EngineReport(report), ValidLimits(limits)
    PROVE  Kept(Build(report, limits), Whole(report, limits)) /\ Beside(Build(report, limits)) = Shown
<1> DEFINE c == Build(report, limits)
           W == Whole(report, limits)
<1>1. /\ DOMAIN c = {"currency", "score", "profit", "dimensions", "quality", "sections", "truncation"}
      /\ c.sections = [ s \in Sections |-> Bound(W[s], limits[s]) ]
      /\ c.truncation = [ s \in Sections |-> Cut(W[s], limits[s]) ]
      /\ Beside(c) = Shown
  BY DEF Build, Beside, Shown
<1>2. ASSUME NEW s \in Sections PROVE SectionKept(c, s, W)
  <2>1. c.sections[s] = Bound(W[s], limits[s]) /\ c.truncation[s] = Cut(W[s], limits[s])
    BY <1>1
  <2>2. limits[s] \in Nat
    BY DEF ValidLimits, Bounds
  <2>3. IsList(W[s])
    BY WholeFacts
  <2>4. \A k \in DOMAIN W[s] : ItemKept(s, W[s][k], W[s][k])
    BY WholeItems
  <2> HIDE DEF c, W
  <2>5. /\ IsList(Bound(W[s], limits[s])) /\ Len(Bound(W[s], limits[s])) <= Len(W[s])
        /\ \A k \in DOMAIN Bound(W[s], limits[s]) : k \in DOMAIN W[s] /\ Bound(W[s], limits[s])[k] = W[s][k]
        /\ Cut(W[s], limits[s]) = [ total |-> Len(W[s]), included |-> Len(Bound(W[s], limits[s])) ]
    BY <2>2, <2>3, BoundFacts
  <2>6. QED
    BY <2>1, <2>4, <2>5 DEF SectionKept
<1>3. Shaped(c)
  BY <1>1 DEF Shaped
<1>4. QED
  BY <1>1, <1>2, <1>3 DEF Kept

\* A section that may be halved is one of them.
LEMMA ShortSections ==
    ASSUME NEW c, Shrinkable(c) # {}
    PROVE  ShrinkOrder[Min(Shrinkable(c))] \in Sections
<1>1. Shrinkable(c) \subseteq 1 .. 8
  BY DEF Shrinkable, ShrinkOrder
<1>2. Min(Shrinkable(c)) \in Shrinkable(c)
  BY <1>1, Least DEF Min
<1>3. QED
  BY <1>1, <1>2 DEF ShrinkOrder, Sections

-----------------------------------------------------------------------------
(* The context along an explanation *)

\* A context is under way, or is there.
Shows == stage \in {"fitting", "calling", "waiting", "validating"} \/ context # None

ContextIsKept ==
    /\ report # None
    /\ Kept(context, Whole(report, limits))
    /\ Beside(context) = Shown

\* The answer that was accepted is one a thread gave, within the context of the report.
Accepted ==
    /\ ContextIsKept
    /\ \E answer \in Answers :
        /\ answer.kind = "text" /\ Structured(answer) /\ Grounded(context, answer)
        /\ result = Explained(context, answer)

\* The inductive strengthening of the properties of a context and of an explanation.
ContextInv ==
    /\ report # None => EngineReport(report)
    /\ ValidLimits(limits)
    /\ stage = "called" => context = None
    /\ Shows => ContextIsKept
    /\ Shows /\ stage # "fitting" => NoneDangles(context)
    /\ stage = "validating" => taken \in Answers /\ taken.kind = "text"
    /\ result # None => stage = "returned" /\ (result.status = "completed" => Accepted)

ExplanationInv == CallInv /\ ContextInv

\* A step that leaves the context alone, and hands over nothing, keeps it.
LEMMA ContextRests ==
    ASSUME ContextInv, UNCHANGED << report, limits, context >>,
           Shows' => Shows, stage' \notin {"called", "fitting"} \/ stage' = stage,
           stage' # "fitting" /\ Shows' => stage # "fitting",
           stage' = "validating" => taken' \in Answers /\ taken'.kind = "text",
           \/ result' = result /\ (result # None => stage' = stage)
           \/ stage' = "returned" /\ result'.status # "completed"
    PROVE  ContextInv'
<1>1. /\ report' # None => EngineReport(report')
      /\ ValidLimits(limits') /\ (stage' = "called" => context' = None)
      /\ (stage' = "validating" => taken' \in Answers /\ taken'.kind = "text")
  BY DEF ContextInv
<1>2. ContextIsKept' <=> ContextIsKept
  BY DEF ContextIsKept, Shown
<1>3. (Shows => ContextIsKept)'
  BY <1>2 DEF ContextInv
<1>4. (Shows /\ stage # "fitting" => NoneDangles(context))'
  BY DEF ContextInv
<1>5. (result # None => stage = "returned" /\ (result.status = "completed" => Accepted))'
  <2>1. CASE result' = result /\ (result # None => stage' = stage)
    <3>1. Accepted' <=> Accepted
      BY <1>2, <2>1 DEF Accepted
    <3>2. QED
      BY <2>1, <3>1 DEF ContextInv
  <2>2. CASE stage' = "returned" /\ result'.status # "completed"
    BY <2>2
  <2>3. QED
    BY <2>1, <2>2
<1>6. QED
  BY <1>1, <1>3, <1>4, <1>5 DEF ContextInv

\* The context is built.
LEMMA BuildingKeeps ==
    ASSUME ContextInv, BuildContext
    PROVE  ContextInv'
<1>1. /\ stage = "called" /\ report # None /\ EngineReport(report) /\ ValidLimits(limits) /\ result = None
      /\ context' = Build(report, limits) /\ stage' = "fitting"
      /\ UNCHANGED << report, limits, result >>
  BY DEF BuildContext, ContextInv
<1>2. Kept(context', Whole(report, limits)) /\ Beside(context') = Shown
  BY <1>1, BuildKeeps
<1>3. ContextIsKept'
  BY <1>1, <1>2 DEF ContextIsKept, Shown
<1>4. QED
  BY <1>1, <1>3 DEF ContextInv

\* A turn of _finalise() keeps the context, and lets none pass whose references dangle.
LEMMA FittingKeeps ==
    ASSUME ContextInv, FitContext
    PROVE  ContextInv'
<1> DEFINE kept == WithoutDangling(context)
           long == Shrinkable(kept)
           s == ShrinkOrder[Min(long)]
           W == Whole(report, limits)
<1>1. /\ stage = "fitting" /\ report # None /\ EngineReport(report) /\ ValidLimits(limits) /\ result = None
      /\ Kept(context, W) /\ Beside(context) = Shown
      /\ UNCHANGED << report, limits >>
  BY DEF FitContext, ContextInv, Shows, ContextIsKept
<1>2. \/ context' = kept /\ stage' = "calling" /\ result' = result
      \/ context' = kept /\ stage' = "returned" /\ result' = [ status |-> "unavailable", code |-> "context_invalid" ]
      \/ long # {} /\ context' = Halved(kept, s) /\ stage' = stage /\ result' = result
  BY DEF FitContext, GiveUp, Return
<1>3. Kept(kept, W) /\ NoneDangles(kept) /\ Beside(kept) = Shown
  BY <1>1, DanglingKeeps
<1>4. \A t \in Sections : IsList(W[t])
  BY <1>1, WholeFacts
<1>5. long # {} => s \in Sections
  BY ShortSections
<1> HIDE DEF kept, long, s, W
<1>6. long # {} => Kept(Halved(kept, s), W) /\ Beside(Halved(kept, s)) = Shown
  BY <1>3, <1>4, <1>5, HalvingKeeps
<1>7. Kept(context', W) /\ Beside(context') = Shown /\ (stage' # "fitting" => NoneDangles(context'))
  BY <1>1, <1>2, <1>3, <1>6
<1>8. ContextIsKept'
  BY <1>1, <1>7 DEF ContextIsKept, Shown, W
<1>9. (result # None => stage = "returned" /\ (result.status = "completed" => Accepted))'
  BY <1>1, <1>2
<1>10. stage' \notin {"called", "validating"}
  BY <1>1, <1>2
<1>11. (report # None => EngineReport(report))' /\ ValidLimits(limits)'
  BY <1>1
<1>12. QED
  BY <1>7, <1>8, <1>9, <1>10, <1>11 DEF ContextInv

\* The answer is accepted as it is grounded, or refused.
LEMMA ValidatingKeeps ==
    ASSUME ContextInv, Validate
    PROVE  ContextInv'
<1>1. /\ stage = "validating" /\ ContextIsKept /\ NoneDangles(context) /\ taken \in Answers /\ taken.kind = "text"
      /\ (report # None => EngineReport(report)) /\ ValidLimits(limits) /\ stage' = "returned"
      /\ UNCHANGED << report, limits, context, taken >>
  BY DEF Validate, ContextInv, Shows, GiveUp, Return
<1>2. ContextIsKept'
  BY <1>1 DEF ContextIsKept, Shown
<1>3. (result # None => stage = "returned" /\ (result.status = "completed" => Accepted))'
  <2>1. CASE Structured(taken) /\ Grounded(context, taken) /\ result' = Explained(context, taken)
    <3>1. result' = Explained(context, taken)
      BY <2>1
    <3>2. Accepted'
      BY <1>1, <1>2, <2>1, <3>1 DEF Accepted
    <3>3. QED
      BY <1>1, <3>2
  <2>2. CASE \E code \in {"invalid_response", "validation_error"} :
                 result' = [ status |-> "unavailable", code |-> code ]
    BY <1>1, <2>2
  <2>3. QED
    BY <2>1, <2>2, Zenon DEF Validate, GiveUp, Return
<1>4. QED
  BY <1>1, <1>2, <1>3 DEF ContextInv

\* Nothing is built at first,
LEMMA ContextStarts == Init => ContextInv
<1> SUFFICES ASSUME Init PROVE ContextInv
  OBVIOUS
<1>1. report \in Reports /\ limits \in AllLimits /\ stage = "called" /\ context = None /\ result = None
  BY DEF Init
<1>2. (report # None => EngineReport(report)) /\ ValidLimits(limits)
  BY <1>1, ReportsAssumption, LimitsAssumption
<1>3. QED
  BY <1>1, <1>2 DEF ContextInv, Shows

\* and every step keeps the invariant.
LEMMA ExplanationGoesOn == ExplanationInv /\ [Next]_vars => ExplanationInv'
<1> SUFFICES ASSUME CallInv, ContextInv, [Next]_vars PROVE CallInv' /\ ContextInv'
  BY DEF ExplanationInv
<1>1. CallInv'
  BY CallGoesOn
<1>2. CASE RefuseAnalysis \/ RefuseReport
  <2>1. /\ stage = "called" /\ context = None /\ stage' = "returned" /\ result'.status # "completed"
        /\ UNCHANGED << report, limits, context >>
    BY <1>2 DEF RefuseAnalysis, RefuseReport, GiveUp, Return, ContextInv
  <2>2. ~Shows'
    BY <2>1 DEF Shows
  <2>3. QED
    BY <1>1, <2>1, <2>2, ContextRests
<1>3. CASE BuildContext
  BY <1>1, <1>3, BuildingKeeps
<1>4. CASE FitContext
  BY <1>1, <1>4, FittingKeeps
<1>5. CASE StartAttempt
  <2>1. /\ stage = "calling" /\ stage' = "waiting" /\ UNCHANGED << report, limits, context, result >>
    BY <1>5 DEF StartAttempt
  <2>2. Shows
    BY <2>1 DEF Shows
  <2>3. result = None
    BY <2>1 DEF ContextInv
  <2>4. QED
    BY <1>1, <2>1, <2>2, <2>3, ContextRests
<1>6. CASE TimesOut \/ TakeFailure
  <2>1. /\ stage = "waiting" /\ UNCHANGED << report, limits, context >>
        /\ \/ stage' = "calling" /\ result' = result
           \/ stage' = "returned" /\ result'.status # "completed"
    BY <1>6 DEF TimesOut, TakeFailure, Fail, GiveUp, Return
  <2>2. Shows
    BY <2>1 DEF Shows
  <2>3. result = None
    BY <2>1 DEF ContextInv
  <2>4. QED
    BY <1>1, <2>1, <2>2, <2>3, ContextRests
<1>7. CASE TakeAnswer
  <2>1. /\ stage = "waiting" /\ stage' = "validating" /\ UNCHANGED << report, limits, context, result >>
        /\ taken' = box[attempt] /\ taken'.kind = "text" /\ box[attempt] # Running
    BY <1>7 DEF TakeAnswer, OwnBox
  <2>2. Shows
    BY <2>1 DEF Shows
  <2>3. result = None
    BY <2>1 DEF ContextInv
  <2>4. box[attempt] \in Answers
    <3>1. attempt \in 1 .. Len(box) /\ box \in Seq(Answers \cup {Running})
      BY <2>1 DEF CallInv, CallTypes, Counts
    <3>2. QED
      BY <2>1, <3>1
  <2>5. QED
    BY <1>1, <2>1, <2>2, <2>3, <2>4, ContextRests
<1>8. CASE Raise
  <2>1. /\ stage = "waiting" /\ stage' = "raised" /\ UNCHANGED << report, limits, context, result >>
    BY <1>8 DEF Raise
  <2>2. Shows
    BY <2>1 DEF Shows
  <2>3. result = None
    BY <2>1 DEF ContextInv
  <2>4. QED
    BY <1>1, <2>1, <2>2, <2>3, ContextRests
<1>9. CASE Validate
  BY <1>1, <1>9, ValidatingKeeps
<1>10. CASE Provider \/ UNCHANGED vars
  <2>1. UNCHANGED << report, limits, stage, context, taken, result >>
    BY <1>10 DEF Provider, Generate, vars
  <2>2. Shows' <=> Shows
    BY <2>1 DEF Shows
  <2>3. stage' = "validating" => taken' \in Answers /\ taken'.kind = "text"
    BY <2>1 DEF ContextInv
  <2>4. QED
    BY <1>1, <2>1, <2>2, <2>3, ContextRests
<1>11. QED
  BY <1>2, <1>3, <1>4, <1>5, <1>6, <1>7, <1>8, <1>9, <1>10 DEF Next, Caller

\* The invariant of an explanation, from its first step to its end.
LEMMA ExplanationKeepsIt == Spec => []ExplanationInv
<1>1. Init => ExplanationInv
  BY CallStarts, ContextStarts DEF ExplanationInv
<1>2. QED
  BY <1>1, ExplanationGoesOn, PTL DEF Spec

-----------------------------------------------------------------------------
(* What the provider is told, and what is handed over *)

\* Each section of a context announces the items it includes and those the report has,
\* through every bound and every halving (context.py, build and _finalise).
THEOREM TruncationToldAlways == Spec => []TruncationIsTold
<1>1. ContextInv => TruncationIsTold
  <2> SUFFICES ASSUME ContextInv, Fitted, NEW s \in Sections
               PROVE  /\ context.truncation[s].included = Len(context.sections[s])
                      /\ context.truncation[s].total = Held(s)
    BY DEF TruncationIsTold
  <2>1. /\ EngineReport(report) /\ ValidLimits(limits)
        /\ Kept(context, Whole(report, limits))
    BY DEF ContextInv, Fitted, Shows, ContextIsKept
  <2>2. context.truncation[s] = [ total |-> Len(Whole(report, limits)[s]), included |-> Len(context.sections[s]) ]
    BY <2>1 DEF Kept, SectionKept
  <2>3. Len(Whole(report, limits)[s]) = Held(s)
    BY <2>1, WholeFacts
  <2>4. QED
    BY <2>2, <2>3
<1>2. QED
  BY <1>1, ExplanationKeepsIt, PTL DEF ExplanationInv

\* An identifier that may be cited is that of an item of a section of its kind, or of
\* what is shown beside the sections.
LEMMA IdsHaveKinds ==
    ASSUME EngineReport(report), ValidLimits(limits), ContextIsKept, NEW id \in ContextIds(context),
           NEW s \in Sections, id[1] \in Kinds[s]
    PROVE  id \in IdsOf(context.sections[s])
<1> DEFINE W == Whole(report, limits)
<1>1. \A t \in Sections : SectionKept(context, t, W)
  BY DEF ContextIsKept, Kept
<1>2. \A t \in Sections : IsList(W[t]) /\ \A k \in DOMAIN W[t] : W[t][k].id[1] \in Kinds[t]
  BY WholeFacts
<1> HIDE DEF W
<1>3. ASSUME NEW t \in Sections, NEW x \in IdsOf(context.sections[t])
      PROVE  x[1] \in Kinds[t]
  <2>1. PICK k \in DOMAIN context.sections[t] : x = context.sections[t][k].id
    BY DEF IdsOf
  <2>2. /\ IsList(context.sections[t]) /\ Len(context.sections[t]) <= Len(W[t])
        /\ context.sections[t][k].id = W[t][k].id
    BY <1>1 DEF SectionKept, ItemKept
  <2>3. k \in DOMAIN W[t]
    <3>1. /\ Len(context.sections[t]) \in Nat /\ DOMAIN context.sections[t] = 1 .. Len(context.sections[t])
      BY <2>2, ListFacts
    <3>2. Len(W[t]) \in Nat /\ DOMAIN W[t] = 1 .. Len(W[t])
      BY <1>2, ListFacts
    <3>3. QED
      BY <2>1, <2>2, <3>1, <3>2
  <2>4. W[t][k].id[1] \in Kinds[t]
    BY <1>2, <2>3, Zenon
  <2>5. x = W[t][k].id
    BY <2>1, <2>2
  <2>6. QED
    BY <2>4, <2>5, Zenon
<1>4. \A t \in Sections : t # s => Kinds[t] \cap Kinds[s] = {}
  BY DEF Kinds, Sections, EvidenceKinds
<1>5. Kinds[s] \cap {"health", "profitability", "dimension"} = {}
  BY DEF Kinds, Sections, EvidenceKinds
<1>6. ASSUME NEW x \in IdsOf(context.dimensions) PROVE x[1] = "dimension"
  <2>1. context.dimensions = Bound(Dimensions(report), limits.dimensions)
    BY DEF ContextIsKept, Beside, Shown
  <2>2. IsList(Dimensions(report)) /\ \A k \in DOMAIN Dimensions(report) : Dimensions(report)[k].id[1] = "dimension"
    BY DimensionsHeld
  <2>3. limits.dimensions \in Nat
    BY DEF ValidLimits, Bounds
  <2>4. \A k \in DOMAIN context.dimensions : k \in DOMAIN Dimensions(report) /\ context.dimensions[k] = Dimensions(report)[k]
    <3> DEFINE w == Dimensions(report)
               n == limits.dimensions
    <3> HIDE DEF w, n
    <3>1. IsList(w) /\ n \in Nat
      BY <2>2, <2>3 DEF w, n
    <3>2. \A k \in DOMAIN Bound(w, n) : k \in DOMAIN w /\ Bound(w, n)[k] = w[k]
      BY <3>1, BoundFacts
    <3>3. QED
      BY <2>1, <3>2 DEF w, n
  <2>5. QED
    BY <2>2, <2>4 DEF IdsOf
<1>7. \/ id = << "health", "score" >> \/ id = << "profitability" >>
      \/ id \in IdsOf(context.dimensions)
      \/ \E t \in Sections : id \in IdsOf(context.sections[t])
  BY DEF ContextIds
<1>8. id[1] # "health" /\ id[1] # "profitability" /\ id[1] # "dimension"
  BY <1>5
<1>9. PICK t \in Sections : id \in IdsOf(context.sections[t])
  BY <1>6, <1>7, <1>8
<1>10. id[1] \in Kinds[t]
  BY <1>3, <1>9
<1>11. QED
  BY <1>4, <1>9, <1>10

\* The places of a section of the context are places of the whole one.
LEMMA KeptPlaces ==
    ASSUME EngineReport(report), ValidLimits(limits), ContextIsKept, NEW s \in Sections
    PROVE  \A k \in DOMAIN context.sections[s] :
              /\ k \in Nat /\ k \in DOMAIN Whole(report, limits)[s]
              /\ ItemKept(s, context.sections[s][k], Whole(report, limits)[s][k])
<1> DEFINE w == Whole(report, limits)[s]
           c == context.sections[s]
<1>1. IsList(c) /\ Len(c) <= Len(w) /\ \A k \in DOMAIN c : ItemKept(s, c[k], w[k])
  BY DEF ContextIsKept, Kept, SectionKept
<1>2. IsList(w)
  BY WholeFacts
<1> HIDE DEF c, w
<1>3. Len(c) \in Nat /\ DOMAIN c = 1 .. Len(c)
  BY <1>1, ListFacts
<1>4. Len(w) \in Nat /\ DOMAIN w = 1 .. Len(w)
  BY <1>2, ListFacts
<1>5. QED
  BY <1>1, <1>3, <1>4 DEF c, w

\* Whatever the bounds cut, a reference of the context names an item that is still there,
\* and the right one: a support says its hypothesis, a factor is in the evidence, and the
\* source of a recommendation is a finding of its type and action that no other has
\* (context.py, _recommendations and _drop_dangling_references).
THEOREM ReferencesAlwaysTrue == Spec => []ReferencesAreTrue
<1>1. ContextInv => ReferencesAreTrue
  <2> SUFFICES ASSUME ContextInv, Fitted PROVE ReferencesAreTrue
    BY DEF ReferencesAreTrue
  <2> DEFINE s == context.sections
             W == Whole(report, limits)
  <2>1. EngineReport(report) /\ ValidLimits(limits) /\ ContextIsKept /\ NoneDangles(context)
    BY DEF ContextInv, Fitted, Shows, ContextIsKept
  <2>2. ASSUME NEW k \in DOMAIN s.hypotheses, NEW id \in Range(s.hypotheses[k].supports)
        PROVE  id \in ContextIds(context) /\ Says(id, s.hypotheses[k].statement)
    <3>1. id \in ContextIds(context)
      BY <2>1 DEF NoneDangles
    <3>2. W["hypotheses"] = Hypotheses(report)
      BY DEF Whole
    <3>3. /\ k \in DOMAIN Hypotheses(report)
          /\ ItemKept("hypotheses", s.hypotheses[k], Hypotheses(report)[k])
      BY <2>1, <3>2, KeptPlaces DEF Sections
    <3>4. /\ s.hypotheses[k].statement = Hypotheses(report)[k].statement
          /\ id \in Range(Hypotheses(report)[k].supports)
      BY <3>3 DEF ItemKept
    <3>5. PICK j \in DOMAIN Hypotheses(report)[k].supports : id = Hypotheses(report)[k].supports[j]
      BY <3>4 DEF Range
    <3>6. Says(Hypotheses(report)[k].supports[j], Hypotheses(report)[k].statement)
      BY <2>1, <3>3, HypothesesHeld
    <3>7. QED
      BY <3>1, <3>4, <3>5, <3>6
  <2>3. ASSUME NEW k \in DOMAIN s.root_causes, NEW id \in Range(s.root_causes[k].factor_ids)
        PROVE  id \in IdsOf(s.evidence)
    <3>1. id \in ContextIds(context)
      BY <2>1 DEF NoneDangles
    <3>2. W["root_causes"] = RootCauses(report)
      BY DEF Whole
    <3>3. /\ k \in DOMAIN RootCauses(report)
          /\ ItemKept("root_causes", s.root_causes[k], RootCauses(report)[k])
      BY <2>1, <3>2, KeptPlaces DEF Sections
    <3>4. id \in Range(RootCauses(report)[k].factor_ids)
      BY <3>3 DEF ItemKept
    <3>5. id[1] = "factor"
      BY <2>1, <3>3, <3>4, RootCausesHeld DEF Range
    <3>6. id[1] \in Kinds["evidence"] /\ "evidence" \in Sections
      BY <3>5 DEF Kinds, EvidenceKinds, Sections
    <3>7. QED
      BY <2>1, <3>1, <3>6, IdsHaveKinds
  <2>4. ASSUME NEW k \in DOMAIN s.recommendations, s.recommendations[k].source # None
        PROVE  LET f == Linked(report)[k]
               IN  /\ k \in DOMAIN report.recommendations /\ k \in Nat
                   /\ s.recommendations[k].source = << "finding", f >> /\ f # None
                   /\ s.recommendations[k].source \in IdsOf(s.findings)
                   /\ s.recommendations[k].action = report.recommendations[k].action
    <3>1. W["recommendations"] = Recommendations(report)
      BY DEF Whole
    <3>2. /\ k \in Nat /\ k \in DOMAIN Recommendations(report)
          /\ ItemKept("recommendations", s.recommendations[k], Recommendations(report)[k])
      BY <2>1, <3>1, KeptPlaces DEF Sections
    <3>3. /\ s.recommendations[k].source = Recommendations(report)[k].source
          /\ s.recommendations[k].action = Recommendations(report)[k].action
      BY <2>4, <3>2 DEF ItemKept
    <3>4. /\ k \in DOMAIN report.recommendations /\ Linked(report)[k] # None
          /\ Recommendations(report)[k].source = << "finding", Linked(report)[k] >>
          /\ Recommendations(report)[k].action = report.recommendations[k].action
      BY <2>1, <2>4, <3>2, <3>3, RecommendationsHeld
    <3>5. s.recommendations[k].source \in ContextIds(context)
      BY <2>1, <2>4 DEF NoneDangles
    <3>6. s.recommendations[k].source[1] = "finding"
      BY <3>3, <3>4
    <3>7. s.recommendations[k].source[1] \in Kinds["findings"] /\ "findings" \in Sections
      BY <3>6 DEF Kinds, Sections
    <3>8. s.recommendations[k].source \in IdsOf(s.findings)
      BY <2>1, <3>5, <3>7, IdsHaveKinds
    <3>9. QED
      BY <3>2, <3>3, <3>4, <3>8
  <2>5. ASSUME NEW k \in DOMAIN s.recommendations, s.recommendations[k].source # None
        PROVE  LET source == s.recommendations[k].source
               IN  /\ source \in IdsOf(s.findings)
                   /\ Insights(report)[source[2]].type = report.recommendations[k].type
                   /\ Insights(report)[source[2]].action = s.recommendations[k].action
                   /\ \A j \in DOMAIN s.recommendations : s.recommendations[j].source = source => j = k
    <3> DEFINE f == Linked(report)[k]
    <3>1. /\ k \in DOMAIN report.recommendations /\ k \in Nat
          /\ s.recommendations[k].source = << "finding", f >> /\ f # None
          /\ s.recommendations[k].source \in IdsOf(s.findings)
          /\ s.recommendations[k].action = report.recommendations[k].action
      BY <2>4, <2>5
    <3>2. /\ Insights(report)[f].type = report.recommendations[k].type
          /\ Insights(report)[f].action = report.recommendations[k].action
          /\ \A j \in DOMAIN report.recommendations : j < k => Linked(report)[j] # f
      BY <2>1, <3>1, LinkedFacts
    <3>3. ASSUME NEW j \in DOMAIN s.recommendations, s.recommendations[j].source = s.recommendations[k].source
          PROVE  j = k
      <4>1. /\ j \in DOMAIN report.recommendations /\ j \in Nat
            /\ s.recommendations[j].source = << "finding", Linked(report)[j] >> /\ Linked(report)[j] # None
        BY <2>4, <2>5, <3>3
      <4>2. Linked(report)[j] = f
        BY <3>1, <3>3, <4>1
      <4>3. \A i \in DOMAIN report.recommendations : i < j => Linked(report)[i] # Linked(report)[j]
        BY <2>1, <4>1, LinkedFacts
      <4>4. ~(j < k) /\ ~(k < j)
        BY <3>1, <3>2, <4>1, <4>2, <4>3
      <4>5. QED
        BY <3>1, <4>1, <4>4
    <3>4. s.recommendations[k].source[2] = f
      BY <3>1
    <3>5. QED
      BY <3>1, <3>2, <3>3, <3>4
  <2>6. \A h \in Range(s.hypotheses) : \A id \in Range(h.supports) :
           id \in ContextIds(context) /\ Says(id, h.statement)
    BY <2>2 DEF Range
  <2>7. \A c \in Range(s.root_causes) : Range(c.factor_ids) \subseteq IdsOf(s.evidence)
    BY <2>3 DEF Range
  <2>8. QED
    BY <2>5, <2>6, <2>7 DEF ReferencesAreTrue
<1>2. QED
  BY <1>1, ExplanationKeepsIt, PTL DEF ExplanationInv

\* A number of more figures reads as more.
LEMMA MoreReadings ==
    ASSUME NEW A, NEW B, \A x \in A : x # None => x \in B
    PROVE  Readings(A) \subseteq Readings(B)
<1> DEFINE Size(n) == IF n < 0 THEN -n ELSE n
           a == { Size(n) : n \in A \ {None} }
           b == { Size(n) : n \in B \ {None} }
<1>1. a \subseteq b
  BY Zenon
<1>2. Readings(A) = a \cup { 100 * n : n \in a } /\ Readings(B) = b \cup { 100 * n : n \in b }
  BY DEF Readings
<1> HIDE DEF a, b
<1>3. QED
  BY <1>1, <1>2, Zenon

\* What is shown beside the sections, and the items of each section, say what the report says.
LEMMA ShownFigures ==
    ASSUME EngineReport(report), ValidLimits(limits), ContextIsKept
    PROVE  /\ context.currency = report.currency /\ context.score = report.score
           /\ Scores(context) \subseteq ReportScores
           /\ TrustedNumbers(context) \subseteq ReportNumbers
<1>1. /\ context.currency = report.currency /\ context.score = report.score /\ context.profit = Profit(report)
      /\ context.dimensions = Bound(Dimensions(report), limits.dimensions)
      /\ context.quality = Bound(Quality(report), limits.quality_fields)
  BY DEF ContextIsKept, Beside, Shown
<1>2. limits.dimensions \in Nat /\ limits.quality_fields \in Nat
  BY DEF ValidLimits, Bounds
<1>3. ASSUME NEW k \in DOMAIN context.dimensions
      PROVE  /\ context.dimensions[k].number # None => context.dimensions[k].number \in ReportScores
             /\ context.dimensions[k].weight \in ReportFigures
  <2>1. IsList(Dimensions(report))
    BY DimensionsHeld
  <2>2. k \in DOMAIN Dimensions(report) /\ context.dimensions[k] = Dimensions(report)[k]
    <3> DEFINE w == Dimensions(report)
               n == limits.dimensions
    <3> HIDE DEF w, n
    <3>1. IsList(w) /\ n \in Nat
      BY <1>2, <2>1 DEF w, n
    <3>2. \A i \in DOMAIN Bound(w, n) : i \in DOMAIN w /\ Bound(w, n)[i] = w[i]
      BY <3>1, BoundFacts
    <3>3. context.dimensions = Bound(w, n)
      BY <1>1 DEF w, n
    <3>4. QED
      BY <3>2, <3>3 DEF w
  <2>3. QED
    BY <2>2, DimensionsHeld
<1>4. ASSUME NEW k \in DOMAIN context.quality PROVE context.quality[k].number \in ReportFigures
  <2>1. IsList(Quality(report))
    BY QualityHeld
  <2>2. k \in DOMAIN Quality(report) /\ context.quality[k] = Quality(report)[k]
    <3> DEFINE w == Quality(report)
               n == limits.quality_fields
    <3> HIDE DEF w, n
    <3>1. IsList(w) /\ n \in Nat
      BY <1>2, <2>1 DEF w, n
    <3>2. \A i \in DOMAIN Bound(w, n) : i \in DOMAIN w /\ Bound(w, n)[i] = w[i]
      BY <3>1, BoundFacts
    <3>3. context.quality = Bound(w, n)
      BY <1>1 DEF w, n
    <3>4. QED
      BY <3>2, <3>3 DEF w
  <2>3. QED
    BY <2>2, QualityHeld
<1>5. Scores(context) \subseteq ReportScores
  <2>1. report.score # None => report.score \in ReportScores
    BY DEF ReportScores
  <2>2. QED
    BY <1>1, <1>3, <2>1 DEF Scores, NumbersOf
<1>6. ASSUME NEW x \in Weights(context) PROVE x \in ReportFigures
  BY <1>3, <1>6 DEF Weights
<1>7. context.profit # None => context.profit \in ReportFigures
  BY <1>1 DEF Profit, ReportFigures
<1>8. ASSUME NEW x \in NumbersOf(context.quality) PROVE x \in ReportFigures
  BY <1>4, <1>8 DEF NumbersOf
<1>9. ASSUME NEW s \in Numbered, NEW x \in NumbersOf(context.sections[s]) PROVE x \in ReportFigures
  <2>1. PICK k \in DOMAIN context.sections[s] : x = context.sections[s][k].number
    BY <1>9 DEF NumbersOf
  <2> DEFINE w == Whole(report, limits)[s]
  <2>2. s \in Sections
    BY DEF Numbered, Sections
  <2>3. k \in DOMAIN w /\ ItemKept(s, context.sections[s][k], w[k])
    BY <2>2, KeptPlaces
  <2>4. x = w[k].number
    BY <2>1, <2>3 DEF ItemKept, Numbered
  <2>5. CASE s = "facts"
    BY <2>3, <2>4, <2>5, FactsHeld DEF Whole
  <2>6. CASE s = "findings"
    BY <2>3, <2>4, <2>6, FindingsHeld DEF Whole
  <2>7. CASE s = "evidence"
    BY <2>3, <2>4, <2>7, EvidenceHeld DEF Whole
  <2>8. CASE s = "root_causes"
    BY <2>3, <2>4, <2>8, RootCausesHeld DEF Whole
  <2>9. QED
    BY <2>5, <2>6, <2>7, <2>8 DEF Numbered
<1>10. ReportScores \subseteq ReportFigures
  BY DEF ReportFigures
<1>11. TrustedNumbers(context) \subseteq ReportNumbers
  <2> DEFINE X == {context.profit} \cup Scores(context) \cup Weights(context) \cup NumbersOf(context.quality)
                  \cup UNION { NumbersOf(context.sections[s]) : s \in Numbered }
  <2>1. \A x \in X : x # None => x \in ReportFigures
    BY <1>5, <1>6, <1>7, <1>8, <1>9, <1>10
  <2>2. TrustedNumbers(context) = Readings(X)
    BY DEF TrustedNumbers
  <2> HIDE DEF X
  <2>3. QED
    BY <2>1, <2>2, MoreReadings DEF ReportNumbers
<1>12. QED
  BY <1>1, <1>5, <1>11

\* A section that is not cut says all of what the report has: every metric that is missing.
LEMMA MissingAreShown ==
    ASSUME EngineReport(report), ValidLimits(limits), ContextIsKept,
           ~(context.truncation.unavailable_metrics.included < context.truncation.unavailable_metrics.total)
    PROVE  Missing \subseteq UnavailableMetrics(context)
<1> DEFINE c == context.sections["unavailable_metrics"]
           w == Unavailable(report)
<1>1. Whole(report, limits)["unavailable_metrics"] = w /\ "unavailable_metrics" \in Sections
  BY DEF Whole, Sections
<1>2. /\ IsList(c) /\ Len(c) <= Len(w)
      /\ context.truncation["unavailable_metrics"] = [ total |-> Len(w), included |-> Len(c) ]
      /\ \A k \in DOMAIN c : c[k] = w[k]
  BY <1>1 DEF ContextIsKept, Kept, SectionKept, ItemKept
<1>3. IsList(w) /\ \A m \in Missing : \E k \in DOMAIN w : w[k].metric = m
  BY UnavailableHeld
<1>4. UnavailableMetrics(context) = { c[k].metric : k \in DOMAIN c }
  BY DEF UnavailableMetrics
<1>5. Len(c) <= Len(w) /\ ~(Len(c) < Len(w))
  BY <1>2
<1> HIDE DEF c, w
<1>6. Len(c) \in Nat /\ DOMAIN c = 1 .. Len(c)
  BY <1>2, ListFacts
<1>7. Len(w) \in Nat /\ DOMAIN w = 1 .. Len(w)
  BY <1>3, ListFacts
<1>8. DOMAIN w = DOMAIN c
  <2>1. Len(c) = Len(w)
    <3>1. \A m, n \in Nat : m <= n /\ ~(m < n) => m = n
      OBVIOUS
    <3>2. QED
      BY <1>5, <1>6, <1>7, <3>1, Zenon
  <2>2. QED
    BY <1>6, <1>7, <2>1
<1>9. QED
  BY <1>2, <1>3, <1>4, <1>8

\* A text that is accepted says nothing the report does not.
LEMMA AcceptedIsTruthful ==
    ASSUME EngineReport(report), ValidLimits(limits), ContextIsKept,
           NEW text, MarksAreNumbers(text), NEW causal \in BOOLEAN, TextAccepted(context, text, causal)
    PROVE  Truthful(text)
<1>1. /\ context.currency = report.currency /\ Scores(context) \subseteq ReportScores
      /\ TrustedNumbers(context) \subseteq ReportNumbers
  BY ShownFigures
<1>2. text.currencies \subseteq {report.currency}
  BY <1>1 DEF TextAccepted
<1>3. ASSUME NEW sentence \in text.sentences
      PROVE  /\ sentence.numbers \subseteq ReportNumbers
             /\ Range(sentence.marks) \subseteq ReportScores \/ ~sentence.score
             /\ (sentence.numbers # {} /\ sentence.metrics \cap Missing # {}) =>
                    \/ sentence.partial /\ sentence.metrics \cap Missing = {"contribution_profit"}
                    \/ context.truncation.unavailable_metrics.included < context.truncation.unavailable_metrics.total
  <2>1. /\ sentence.numbers \subseteq TrustedNumbers(context)
        /\ sentence.numbers # {} => ~Invents(context, sentence) /\ ~Alters(context, sentence)
        /\ sentence.marks # << >> => sentence.numbers # {}
    BY <1>3 DEF TextAccepted, MarksAreNumbers
  <2>2. sentence.numbers \subseteq ReportNumbers
    BY <1>1, <2>1
  <2>3. ASSUME sentence.score PROVE Range(sentence.marks) \subseteq ReportScores
    <3>1. CASE sentence.marks = << >>
      BY <3>1 DEF Range
    <3>2. CASE sentence.marks # << >>
      <4>1. Range(sentence.marks) \subseteq Scores(context)
        BY <2>1, <2>3, <3>2 DEF Alters
      <4>2. QED
        BY <1>1, <4>1
    <3>3. QED
      BY <3>1, <3>2
  <2>4. ASSUME sentence.numbers # {}, NEW m \in sentence.metrics \cap Missing,
               ~(context.truncation.unavailable_metrics.included < context.truncation.unavailable_metrics.total)
        PROVE  sentence.partial /\ m = "contribution_profit"
    <3>1. m \in UnavailableMetrics(context)
      BY <2>4, MissingAreShown
    <3>2. ~Invents(context, sentence)
      BY <2>1, <2>4
    <3>3. QED
      BY <3>1, <3>2, Zenon DEF Invents
  <2>5. ASSUME sentence.numbers # {}, sentence.metrics \cap Missing # {},
               ~(context.truncation.unavailable_metrics.included < context.truncation.unavailable_metrics.total)
        PROVE  sentence.partial /\ sentence.metrics \cap Missing = {"contribution_profit"}
    <3>1. \A m \in sentence.metrics \cap Missing : sentence.partial /\ m = "contribution_profit"
      BY <2>4, <2>5
    <3> HIDE DEF Missing
    <3>2. QED
      BY <2>5, <3>1
  <2>6. QED
    BY <2>2, <2>3, <2>5
<1>4. QED
  BY <1>2, <1>3 DEF Truthful

\* An explanation that is handed over says nothing the report does not: its score, its
\* numbers and its currency are the report's, every assertion cites what the context
\* showed, no fact rests on a hypothesis, and a metric that is missing gets no figure, but
\* for a profit called partial (response.py, validate_response).
THEOREM AlwaysGrounded == Spec => []ExplanationIsGrounded
<1>1. ContextInv => ExplanationIsGrounded
  <2> SUFFICES ASSUME ContextInv, result # None, result.status = "completed" PROVE
                 /\ result.score = report.score
                 /\ Truthful(result.summary)
                 /\ \A s \in Said : \A item \in Range(result.said[s]) :
                     /\ Truthful(item.text)
                     /\ Range(item.refs) \subseteq ContextIds(context)
                     /\ NeedsRefs(s) => item.refs # << >>
                     /\ s = "facts" => \A id \in Range(item.refs) : id[1] # "hypothesis"
    BY DEF ExplanationIsGrounded
  <2>1. ValidLimits(limits) /\ Accepted /\ (report # None => EngineReport(report))
    BY DEF ContextInv
  <2>2. ContextIsKept /\ EngineReport(report)
    BY <2>1 DEF Accepted, ContextIsKept
  <2>3. PICK answer \in Answers :
           answer.kind = "text" /\ Structured(answer) /\ Grounded(context, answer) /\ result = Explained(context, answer)
    BY <2>1 DEF Accepted
  <2>4. /\ result.score = context.score /\ result.said = answer.said /\ result.summary = answer.summary
    BY <2>3 DEF Explained
  <2>5. Written(answer)
    BY <2>3, AnswersAssumption
  <2>6. result.score = report.score
    BY <2>1, <2>2, <2>4, ShownFigures
  <2>7. Truthful(answer.summary)
    <3>1. MarksAreNumbers(answer.summary) /\ TextAccepted(context, answer.summary, TRUE)
      BY <2>3, <2>5 DEF Written, Grounded
    <3>2. QED
      BY <2>1, <2>2, <3>1, AcceptedIsTruthful
  <2>8. ASSUME NEW s \in Said, NEW k \in DOMAIN answer.said[s]
        PROVE  LET item == answer.said[s][k]
               IN  /\ Truthful(item.text)
                   /\ Range(item.refs) \subseteq ContextIds(context)
                   /\ NeedsRefs(s) => item.refs # << >>
                   /\ s = "facts" => \A id \in Range(item.refs) : id[1] # "hypothesis"
    <3> DEFINE item == answer.said[s][k]
    <3>1. RefsAccepted(context, s, item.refs) /\ TextAccepted(context, item.text, s # "limitations")
      BY <2>3 DEF Grounded
    <3>2. MarksAreNumbers(item.text)
      BY <2>5 DEF Written
    <3>3. Truthful(item.text)
      <4> DEFINE causal == s # "limitations"
      <4>1. causal \in BOOLEAN /\ TextAccepted(context, item.text, causal)
        BY <3>1
      <4> HIDE DEF causal, item
      <4>2. QED
        BY <2>1, <2>2, <3>2, <4>1, AcceptedIsTruthful
    <3>4. Range(item.refs) \subseteq ContextIds(context)
      BY <3>1 DEF RefsAccepted
    <3>5. NeedsRefs(s) => item.refs # << >>
      BY <2>3 DEF Structured
    <3>6. ASSUME s = "facts", NEW id \in Range(item.refs) PROVE id[1] # "hypothesis"
      <4>1. id \notin IdsOf(context.sections.hypotheses)
        BY <3>1, <3>6 DEF RefsAccepted
      <4>2. id[1] = "hypothesis" => id[1] \in Kinds["hypotheses"] /\ "hypotheses" \in Sections
        BY DEF Kinds, Sections
      <4>3. QED
        BY <2>1, <2>2, <3>4, <4>1, <4>2, IdsHaveKinds
    <3>7. QED
      BY <3>3, <3>4, <3>5, <3>6
  <2>9. QED
    BY <2>4, <2>6, <2>7, <2>8 DEF Range
<1>2. QED
  BY <1>1, ExplanationKeepsIt, PTL DEF ExplanationInv
=============================================================================
