--------------------------- MODULE DispatcherTurns ---------------------------
(***************************************************************************)
(* Dispatcher with what its promises are about: who is served while whom   *)
(* waits, and what a claim that answers None has missed.  The variables    *)
(* added here only observe.  "of" is one organization that waits and "by"  *)
(* one that is served, any two: the initial state chooses them.            *)
(***************************************************************************)
EXTENDS Dispatcher

CONSTANT MaxCount       \* bound of the counter, past what it may reach

VARIABLES by, of,       \* the two organizations observed
          overtakes,    \* overtakes[w]: how often w claimed in "by" while "of" waited
          missed        \* missed[w]: "of" could be claimed throughout the claim under way,
                        \* whose list, if any, had room for it

turnVars == <<ready, leased, stale, authorized, worker, faults, by, of, overtakes, missed>>

Claimable(o) == o \in authorized /\ ready[o] > 0

\* A list is complete, and full.
ListsAsManyAsAllowed(w) ==
    ~worker[w].fetched /\ worker'[w].fetched /\ Len(worker'[w].pending) = Batch

ClaimsIn(w, o) == At(w, "claiming") /\ worker'[w].at = "holding" /\ worker[w].org = o

TurnInit ==
    /\ Init
    /\ by \in Org /\ of \in Org /\ by # of
    /\ overtakes = [w \in Worker |-> 0]
    /\ missed = [w \in Worker |-> FALSE]

\* The count starts again when "of" is served, and when it has nothing to claim.
Observe ==
    /\ UNCHANGED <<by, of>>
    /\ overtakes' = [w \in Worker |->
           IF ~Claimable(of)' \/ ClaimsIn(w, of) THEN 0
           ELSE IF ClaimsIn(w, by) /\ overtakes[w] < MaxCount THEN overtakes[w] + 1
           ELSE overtakes[w]]
    /\ missed' = [w \in Worker |->
           /\ Claimable(of)'
           /\ worker'[w].at \in {"choosing", "wrapping"}
           /\ At(w, "choosing") \/ At(w, "wrapping") => missed[w]
           /\ ~ListsAsManyAsAllowed(w)]

TurnNext == Next /\ Observe
TurnSpec == TurnInit /\ [][TurnNext]_turnVars
FairTurnSpec == TurnSpec /\ Fairness

-----------------------------------------------------------------------------
(* Properties *)

\* An organization with a million jobs is not served more often than another
\* (dispatch.py): while one waits, no other is served a third time by the same worker.
\* Twice is possible: once from a list made before the first had work, once from the
\* next list.  A database failure may cost the first its turn, and so two more: the rest
\* of its list, and the next one.
OvertakenTwiceAtMost == \A w \in Worker : overtakes[w] <= 2 + 2 * faults

Exhausted(w) == At(w, "choosing") /\ worker[w].pending = <<>> /\ worker[w].fetched

\* A claim that answers None has missed nothing: no organization could be claimed from
\* its start to its end, unless its list was full (worker.py, Worker.claim; with more
\* organizations the answer may well be None while one of them has work).
NoneWasClaimable == \A w \in Worker : Exhausted(w) => ~missed[w]
=============================================================================
