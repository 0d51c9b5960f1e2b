-------------------------- MODULE WorkerRuntimeProofs --------------------------
(***************************************************************************)
(* What holds of a worker process for any number of signals, of outages    *)
(* and of jobs, in every interleaving of its threads and timers.           *)
(***************************************************************************)
EXTENDS WorkerRuntime, FiniteSetTheorems, TLAPS

-----------------------------------------------------------------------------
(* The invariant *)

Thread == Signal \cup Timer

\* The steps of a first request, and those of a forced stop.
Asking == {"drain", "stop", "arm"}
Forcing == {"force", "force_stop", "release", "force_state", "publish"}

\* The main thread before its first test of _stop in the loop, or past that test.
Unserved == {"connect", "connecting", "retry", "connected", "ready", "poll"}

Received == {t \in Signal : control[t] # "off"}

Types ==
    /\ state \in ProcessState /\ health \in ProcessState
    /\ stop \in BOOLEAN /\ forced \in BOOLEAN /\ published \in BOOLEAN
    /\ main \in Place
    /\ active \in BOOLEAN /\ attempt \in {"none", "held", "released"}
    /\ control \in [Thread -> Step]
    /\ exit \in EXIT_OK .. NoCode
    /\ outages \in 0 .. MaxOutages /\ claims \in 0 .. MaxJobs /\ late \in 0 .. claims
    /\ requests \in Nat
    /\ IsFiniteSet(Received) /\ requests = Cardinality(Received)

\* A job claimed after the event _stop is the last one.
LateOK ==
    /\ late <= 1
    /\ late = 1 => stop /\ main \notin Unserved

\* What the end of run finds, whatever the control threads did meanwhile.
EndOK ==
    /\ state = "stopped" => main = "returned"
    /\ main = "forced_end" => forced
    /\ main = "stop_end" => state \in {"draining", "forced"}
    /\ exit = EXIT_FORCED => main \in {"returned", "killed"}
    /\ main = "returned" => /\ state \in {"stopped", "forced"}
                            /\ exit = EXIT_FORCED => state = "forced" /\ forced

\* One thread serves the first request; the others, and the grace timer, may force.
StopOK ==
    /\ \A t, u \in Signal : control[t] \in Asking /\ control[u] \in Asking => t = u
    /\ \A t \in Signal : control[t] \in Asking => control["grace"] = "off" /\ requests >= 1
    /\ control["grace"] # "off" => requests >= 1
    /\ \A t \in Signal : control[t] \in Forcing => requests >= 2
    /\ control["hard"] # "off" => forced
    /\ control["grace"] \notin Asking /\ control["hard"] \in {"off", "armed", "due", "done"}
    /\ requests <= 1 /\ control["grace"] \in {"off", "armed", "due"} => ~forced
    /\ attempt = "released" => forced
    /\ main = "killed" => forced
    /\ \A t \in Signal \cup {"grace"} : control[t] \in Forcing \ {"force"} => forced

RInv == Types /\ LateOK /\ EndOK /\ StopOK

-----------------------------------------------------------------------------
(* The lifecycle *)

\* The transitions, state by state.
LEMMA Arrows ==
    /\ TRANSITIONS["starting"] = {"ready", "draining", "stopped", "forced"}
    /\ TRANSITIONS["ready"] = {"busy", "degraded", "draining", "forced"}
    /\ TRANSITIONS["busy"] = {"ready", "degraded", "draining", "forced"}
    /\ TRANSITIONS["degraded"] = {"ready", "draining", "forced"}
    /\ TRANSITIONS["draining"] = {"stopped", "forced"}
    /\ TRANSITIONS["stopped"] = {}
    /\ TRANSITIONS["forced"] = {}
BY DEF TRANSITIONS

\* What a transition that is only tried leaves behind.
LEMMA Tried ==
    ASSUME state \in ProcessState, health \in ProcessState, NEW target \in ProcessState,
           TransitionIfAllowed(target)
    PROVE  /\ state' \in {state, target} /\ health' \in {health, target}
           /\ state \in {"stopped", "forced"} => state' = state
           /\ (target = "stopped" /\ state = "draining") => state' = "stopped"
           /\ (target = "draining" /\ state # "stopped") => state' \in {"draining", "forced"}
           /\ (target = "forced" /\ state # "stopped") => state' = "forced"
           /\ (state = "draining" /\ target # "stopped") => state' \in {"draining", "forced"}
           /\ (target # "stopped" /\ state # "stopped") => state' # "stopped"
BY Arrows DEF TransitionIfAllowed, ProcessState

-----------------------------------------------------------------------------
(* The main thread *)

\* Its steps before the end of run, by the variables that they leave alone.
LoopStep ==
    \/ Connect \/ Connecting \/ ConnectAgain \/ Connected \/ BecomeReady
    \/ Loop \/ PollFindsJob \/ PollFindsNothing \/ PollFails
    \/ StartKeeper \/ JobStarted \/ JobEnds \/ JobEnded \/ BackToReady \/ Settle \/ Idle
    \/ DatabaseUnavailable \/ ReportOutage \/ Backoff

EndStep == Finally \/ Judge \/ ForcedEnd \/ DrainEnd \/ StopEnd

\* What the main thread does, up to its exit.
LEMMA LoopEffects ==
    ASSUME LoopStep
    PROVE  /\ UNCHANGED <<stop, forced, published, requests, control>>
           /\ \/ \E target \in {"ready", "busy", "degraded"} : TransitionIfAllowed(target)
              \/ state' = state /\ health' \in {health, "ready", "degraded"}
           /\ main' \in Place \ {"forced_end", "stop_end", "returned", "killed"}
           /\ active' \in {active, TRUE, FALSE} /\ attempt' \in {attempt, "none", "held"}
           /\ exit' = exit \/ exit' \in EXIT_OK .. EXIT_SCHEMA
           /\ outages' = outages \/ (outages < MaxOutages /\ outages' = outages + 1)
           /\ \/ PollFindsJob
              \/ /\ claims' = claims /\ late' = late
                 /\ (main \notin Unserved /\ stop) => main' \notin Unserved
<1> USE DEF LoopStep, Connect, Connecting, ConnectAgain, Connected, BecomeReady, Loop, PollFindsJob,
    PollFindsNothing, PollFails, StartKeeper, JobStarted, JobEnds, JobEnded, BackToReady, Settle, Idle,
    DatabaseUnavailable, ReportOutage, Backoff, Goto, End, flags, counts
<1>1. UNCHANGED <<stop, forced, published, requests, control>>
  OBVIOUS
<1>2. \/ \E target \in {"ready", "busy", "degraded"} : TransitionIfAllowed(target)
      \/ state' = state /\ health' \in {health, "ready", "degraded"}
  OBVIOUS
<1>3. main' \in Place \ {"forced_end", "stop_end", "returned", "killed"}
  BY DEF Place
<1>4. active' \in {active, TRUE, FALSE} /\ attempt' \in {attempt, "none", "held"}
  OBVIOUS
<1>5. exit' = exit \/ exit' \in EXIT_OK .. EXIT_SCHEMA
  BY DEF EXIT_OK, EXIT_INTERNAL, EXIT_CONFIG, EXIT_DATABASE, EXIT_SCHEMA
<1>6. outages' = outages \/ (outages < MaxOutages /\ outages' = outages + 1)
  OBVIOUS
<1>7. \/ PollFindsJob
      \/ /\ claims' = claims /\ late' = late
         /\ (main \notin Unserved /\ stop) => main' \notin Unserved
  BY DEF Unserved
<1> HIDE DEF LoopStep, PollFindsJob
<1>8. QED
  BY <1>1, <1>2, <1>3, <1>4, <1>5, <1>6, <1>7

\* It goes on,
LEMMA LoopKeepsIt ==
    ASSUME RInv, ~Gone, LoopStep
    PROVE  RInv'
<1>1. /\ Types /\ LateOK /\ StopOK
      /\ state # "stopped" /\ exit # EXIT_FORCED
      /\ UNCHANGED <<stop, forced, published, requests, control>>
  BY LoopEffects DEF RInv, EndOK, Gone
<1>2. state' \in ProcessState /\ health' \in ProcessState /\ state' # "stopped"
  <2>1. CASE \E target \in {"ready", "busy", "degraded"} : TransitionIfAllowed(target)
    BY <1>1, <2>1, Tried DEF Types, ProcessState
  <2>2. CASE state' = state /\ health' \in {health, "ready", "degraded"}
    BY <1>1, <2>2 DEF Types, ProcessState
  <2>3. QED
    BY <2>1, <2>2, LoopEffects
<1>3. main' \in Place \ {"forced_end", "stop_end", "returned", "killed"}
  BY LoopEffects
<1>4. exit' \in EXIT_OK .. NoCode /\ exit' # EXIT_FORCED
  BY <1>1, LoopEffects DEF Types, EXIT_OK, EXIT_SCHEMA, EXIT_FORCED, NoCode
<1>5. attempt' \in {"none", "held", "released"} /\ (attempt' = "released" => attempt = "released")
  BY <1>1, LoopEffects DEF Types
<1>6. outages' \in 0 .. MaxOutages /\ active' \in BOOLEAN
  <2>1. outages' \in 0 .. MaxOutages
    BY <1>1, LoopEffects, RuntimeAssumption DEF Types
  <2>2. active' \in BOOLEAN
    BY <1>1, LoopEffects DEF Types
  <2>3. QED
    BY <2>1, <2>2
<1>7. claims' \in 0 .. MaxJobs /\ late' \in 0 .. claims' /\ LateOK'
  <2>1. CASE PollFindsJob
    BY <2>1, <1>1, RuntimeAssumption DEF LateOK, Types, PollFindsJob, Goto, Unserved
  <2>2. CASE ~PollFindsJob
    BY <2>2, <1>1, LoopEffects DEF LateOK, Types
  <2>3. QED
    BY <2>1, <2>2
<1>8. Types'
  BY <1>1, <1>2, <1>3, <1>4, <1>5, <1>6, <1>7 DEF Types, Received
<1>9. EndOK'
  BY <1>2, <1>3, <1>4 DEF EndOK
<1>10. StopOK'
  BY <1>1, <1>3, <1>5 DEF StopOK
<1>11. QED
  BY <1>7, <1>8, <1>9, <1>10 DEF RInv

\* The end of run.  The timers that it cancels are not those of a stop under way.
LEMMA EndKeepsIt ==
    ASSUME RInv, ~Gone, EndStep
    PROVE  RInv'
<1> USE DEF EndStep, Finally, Judge, ForcedEnd, DrainEnd, StopEnd, Goto, flags, counts
<1>1. /\ Types /\ LateOK /\ StopOK /\ EndOK
      /\ state # "stopped" /\ exit # EXIT_FORCED /\ state \in ProcessState /\ health \in ProcessState
      /\ UNCHANGED <<stop, forced, published, requests, attempt, active, outages, claims, late>>
  BY DEF RInv, EndOK, Gone, Types
<1>2. \/ UNCHANGED <<state, health>>
      \/ \E target \in {"draining", "forced", "stopped"} : TransitionIfAllowed(target)
  OBVIOUS
<1>3. state' \in ProcessState /\ health' \in ProcessState
  BY <1>1, <1>2, Tried DEF ProcessState
<1>4. main' \in Place /\ main' \notin Unserved /\ main' # "killed"
  BY DEF Place, Unserved
<1>5. exit' \in EXIT_OK .. NoCode
  BY <1>1 DEF Types, EXIT_OK, EXIT_FORCED, NoCode
<1>6. control' \in [Thread -> Step] /\ \A t \in Thread :
          \/ control'[t] = control[t]
          \/ t \in Timer /\ control[t] \in {"armed", "due"} /\ control'[t] = "done"
  BY <1>1 DEF Types, Thread, Step
<1>7. EndOK'
  <2>1. CASE Finally \/ Judge
    BY <2>1, <1>1 DEF EndOK
  <2>2. CASE ForcedEnd
    <3>1. state' = "forced"
      BY <2>2, <1>1, Tried DEF ProcessState
    <3>2. QED
      BY <2>2, <3>1, <1>1 DEF EndOK
  <2>3. CASE DrainEnd
    <3>1. state' \in {"draining", "forced"}
      BY <2>3, <1>1, Tried DEF ProcessState
    <3>2. QED
      BY <2>3, <3>1, <1>1 DEF EndOK
  <2>4. CASE StopEnd
    <3>1. state' \in {"stopped", "forced"}
      BY <2>4, <1>1, Tried DEF ProcessState, EndOK
    <3>2. QED
      BY <2>4, <3>1, <1>1 DEF EndOK
  <2>5. QED
    BY <2>1, <2>2, <2>3, <2>4
<1>8. Received' = Received
  BY <1>6, RuntimeAssumption DEF Received, Thread, Timer
<1>9. Types'
  BY <1>1, <1>3, <1>4, <1>5, <1>6, <1>8 DEF Types
<1>10. LateOK'
  BY <1>1, <1>4 DEF LateOK
<1>11. StopOK'
  <2>1. \A t \in Signal : t \in Thread /\ control'[t] = control[t]
    BY <1>6, RuntimeAssumption DEF Thread, Timer
  <2>2. \A t \in Timer : \/ control'[t] = control[t]
                         \/ control[t] \in {"armed", "due"} /\ control'[t] = "done"
    BY <1>6 DEF Thread
  <2> HIDE DEF EndStep
  <2>3. QED
    BY <2>1, <2>2, <1>1, <1>4 DEF StopOK, Timer, Asking, Forcing
<1>12. QED
  BY <1>7, <1>9, <1>10, <1>11 DEF RInv

-----------------------------------------------------------------------------
(* The control threads and the timers *)

\* A step that leaves the main thread where it is, moves one thread on and keeps the rest
\* within its types.
LEMMA SideKeepsTypes ==
    ASSUME RInv, UNCHANGED <<main, exit, outages, claims, late, active>>,
           stop' \in {stop, TRUE}, forced' \in {forced, TRUE}, published' \in {published, TRUE},
           state' \in ProcessState, health' \in ProcessState,
           attempt' \in {"none", "held", "released"}, requests' = requests,
           control' \in [Thread -> Step],
           \A t \in Signal : control'[t] = "off" <=> control[t] = "off"
    PROVE  Types'
<1>1. Received' = Received
  BY DEF Received
<1>2. stop' \in BOOLEAN /\ forced' \in BOOLEAN /\ published' \in BOOLEAN
  BY DEF RInv, Types
<1>3. QED
  BY <1>1, <1>2 DEF RInv, Types

\* a signal asks it to stop,
LEMMA RequestKeepsIt ==
    ASSUME RInv, ~Gone, NEW t \in Signal, RequestStop(t)
    PROVE  RInv'
<1>1. /\ Types /\ LateOK /\ EndOK /\ StopOK /\ requests \in Nat /\ requests' = requests + 1
      /\ UNCHANGED <<state, health, stop, forced, published, main, active, attempt, exit, counts>>
      /\ UNCHANGED <<outages, claims, late>>
      /\ control[t] = "off"
  BY DEF RInv, Types, RequestStop, At, counts
<1>2. PICK s \in Step : s = IF requests' = 1 THEN "drain" ELSE "force"
  BY DEF Step
<1>3. control' = [control EXCEPT ![t] = s] /\ t \in Thread /\ s # "off" /\ t \notin Timer
  BY <1>2, RuntimeAssumption DEF RequestStop, Control, Thread, Timer
<1>4. /\ control' \in [Thread -> Step] /\ control'[t] = s
      /\ \A u \in Thread \ {t} : control'[u] = control[u]
      /\ control'["grace"] = control["grace"] /\ control'["hard"] = control["hard"]
  BY <1>1, <1>3 DEF Types, Thread, Timer
<1>5. IsFiniteSet(Received') /\ requests' = Cardinality(Received')
  <2>1. Received' = Received \cup {t} /\ t \notin Received
    BY <1>1, <1>3, <1>4 DEF Received, Thread
  <2>2. QED
    BY <2>1, <1>1, FS_AddElement DEF Types
<1>6. Types'
  BY <1>1, <1>4, <1>5 DEF Types
<1>7. LateOK' /\ EndOK'
  BY <1>1 DEF LateOK, EndOK, Unserved
<1>8. StopOK'
  <2>1. \A u \in Signal \ {t} : control'[u] = control[u]
    BY <1>4 DEF Thread
  <2>2. CASE requests = 0
    \* The first request: nobody asked before, so nobody forces either.
    <3>1. \A u \in Signal : control[u] \notin Asking \cup Forcing
      BY <2>2, <1>1 DEF StopOK
    <3>2. control["grace"] = "off" /\ s = "drain" /\ ~forced
      BY <2>2, <1>1, <1>2 DEF StopOK
    <3>3. QED
      BY <2>1, <2>2, <3>1, <3>2, <1>1, <1>4 DEF StopOK, Asking, Forcing
  <2>3. CASE requests # 0
    <3>1. s = "force" /\ requests' >= 2
      BY <2>3, <1>1, <1>2
    <3>2. QED
      BY <2>1, <2>3, <3>1, <1>1, <1>4 DEF StopOK, Asking, Forcing
  <2>4. QED
    BY <2>2, <2>3
<1>9. QED
  BY <1>6, <1>7, <1>8 DEF RInv

\* the thread of the signal tells it so,
LEMMA AskingKeepsIt ==
    ASSUME RInv, ~Gone, NEW t \in Signal \cup {"grace"}, Drain(t) \/ SetStop(t) \/ ArmGrace(t)
    PROVE  RInv'
<1>1. /\ Types /\ LateOK /\ EndOK /\ StopOK /\ control \in [Thread -> Step]
      /\ state # "stopped" /\ state \in ProcessState /\ health \in ProcessState
      /\ UNCHANGED <<forced, published, requests, main, active, attempt, exit>>
      /\ UNCHANGED <<outages, claims, late>> /\ stop' \in {stop, TRUE}
      /\ control[t] \in Asking /\ t \in Thread
  BY DEF RInv, Types, EndOK, Gone, Drain, SetStop, ArmGrace, At, counts, flags, Asking, Thread, Timer
<1>2. t \in Signal /\ t # "grace" /\ t # "hard" /\ control["grace"] = "off" /\ requests >= 1
  BY <1>1, RuntimeAssumption DEF StopOK
<1>3. /\ state' \in ProcessState /\ health' \in ProcessState /\ state' # "stopped"
      /\ state \in {"draining", "forced"} => state' \in {"draining", "forced"}
  <2>1. UNCHANGED <<state, health>> \/ TransitionIfAllowed("draining")
    BY DEF Drain, SetStop, ArmGrace
  <2>2. QED
    BY <2>1, <1>1, Tried DEF ProcessState
<1>4. /\ control' \in [Thread -> Step] /\ control'[t] \in {"stop", "arm", "done"}
      /\ control'["hard"] = control["hard"]
      /\ \A u \in Signal \ {t} : control'[u] = control[u]
      /\ \/ control'["grace"] = "off"
         \/ control'[t] = "done" /\ control'["grace"] = "armed"
  BY <1>1, <1>2, RuntimeAssumption DEF Drain, SetStop, ArmGrace, Control, Thread, Timer, Step
<1>5. Types'
  BY <1>1, <1>3, <1>4, SideKeepsTypes DEF Types, Asking
<1>6. LateOK' /\ EndOK'
  BY <1>1, <1>3 DEF LateOK, EndOK, Gone
<1>7. StopOK'
  BY <1>1, <1>2, <1>4 DEF StopOK, Asking, Forcing
<1>8. QED
  BY <1>5, <1>6, <1>7 DEF RInv

\* a thread forces the end,
LEMMA ForcingKeepsIt ==
    ASSUME RInv, ~Gone, NEW t \in Signal \cup {"grace"},
           ForceOnce(t) \/ ForceStops(t) \/ Release(t) \/ ForceState(t) \/ PublishForce(t)
    PROVE  RInv'
<1> USE DEF ForceOnce, ForceStops, Release, ForceState, PublishForce
<1>1. /\ Types /\ LateOK /\ EndOK /\ StopOK /\ control \in [Thread -> Step]
      /\ state # "stopped" /\ state \in ProcessState /\ health \in ProcessState
      /\ UNCHANGED <<requests, main, active, exit>>
      /\ UNCHANGED <<outages, claims, late>>
      /\ stop' \in {stop, TRUE} /\ published' \in {published, TRUE}
      /\ control[t] \in Forcing /\ t \in Thread /\ t # "hard"
  BY RuntimeAssumption DEF RInv, Types, EndOK, Gone, At, counts, flags, Forcing, Thread, Timer
<1>2. forced' = TRUE /\ (t \in Signal => requests >= 2)
  BY <1>1 DEF StopOK, At, Forcing, flags
<1>3. attempt' \in {"none", "held", "released"}
  BY <1>1 DEF Types
<1>4. /\ state' \in ProcessState /\ health' \in ProcessState /\ state' # "stopped"
      /\ state \in {"draining", "forced"} => state' \in {"draining", "forced"}
  <2>1. UNCHANGED <<state, health>> \/ TransitionIfAllowed("forced")
    OBVIOUS
  <2>2. QED
    BY <2>1, <1>1, Tried DEF ProcessState
<1>5. /\ control' \in [Thread -> Step] /\ control'[t] \in (Forcing \cup {"done"}) \ {"force"}
      /\ \A u \in Signal \ {t} : control'[u] = control[u]
      /\ t # "grace" => control'["grace"] = control["grace"]
      /\ control'["hard"] \in {control["hard"], "armed"}
  BY <1>1, RuntimeAssumption DEF Control, Thread, Timer, Step, Forcing
<1>6. Types'
  <2>1. forced' \in {forced, TRUE}
    BY <1>2
  <2>2. \A u \in Signal : control'[u] = "off" <=> control[u] = "off"
    BY <1>1, <1>5 DEF Forcing
  <2>3. QED
    BY <2>1, <2>2, <1>1, <1>3, <1>4, <1>5, SideKeepsTypes
<1>7. LateOK' /\ EndOK'
  BY <1>1, <1>2, <1>4 DEF LateOK, EndOK, Gone
<1> HIDE DEF ForceOnce, ForceStops, Release, ForceState, PublishForce
<1>8. StopOK'
  <2>1. forced' = TRUE /\ requests' = requests /\ control'["hard"] \in {"off", "armed", "due", "done"}
    BY <1>1, <1>2, <1>5 DEF StopOK
  <2>2. CASE t \in Signal
    <3>1. /\ requests >= 2 /\ requests \in Nat /\ t # "grace"
          /\ control'["grace"] = control["grace"]
      BY <2>2, <1>1, <1>2, <1>5, RuntimeAssumption DEF Types
    <3>2. QED
      BY <2>1, <2>2, <3>1, <1>1, <1>5 DEF StopOK, Asking, Forcing
  <2>3. CASE t = "grace" /\ t \notin Signal
    <3>1. \A u \in Signal : control'[u] = control[u] /\ control[u] \notin Asking
      BY <2>3, <1>1, <1>5 DEF StopOK, Forcing
    <3>2. control["grace"] # "off" /\ control'["grace"] \in (Forcing \cup {"done"}) \ {"force"}
      BY <2>3, <1>1, <1>5 DEF Forcing
    <3>3. QED
      BY <2>1, <2>3, <3>1, <3>2, <1>1 DEF StopOK, Asking, Forcing
  <2>4. QED
    BY <2>2, <2>3
<1>9. QED
  BY <1>6, <1>7, <1>8 DEF RInv

\* and timers run.
LEMMA TimersKeepIt ==
    ASSUME RInv, ~Gone, NEW timer \in Timer, TimerProgress(timer)
    PROVE  RInv'
<1> USE DEF TimerProgress, DelayEnds, GraceExpires, HardExit
<1>1. /\ Types /\ LateOK /\ EndOK /\ StopOK /\ control \in [Thread -> Step]
      /\ UNCHANGED <<state, health, flags, active, attempt, counts>>
      /\ UNCHANGED <<stop, forced, published, requests, outages, claims, late>>
      /\ timer \in Thread /\ timer \notin Signal
  BY RuntimeAssumption DEF RInv, Types, flags, counts, Thread, Timer
<1>2. /\ control' \in [Thread -> Step]
      /\ \A u \in Thread \ {timer} : control'[u] = control[u]
      /\ control[timer] \in {"armed", "due"} /\ control'[timer] \in {"due", "force", "done"}
      /\ timer = "hard" => control'[timer] # "force"
  BY <1>1 DEF At, Control, Step, Timer
<1>3. \A u \in Signal : control'[u] = control[u]
  BY <1>1, <1>2 DEF Thread
<1>4. \/ UNCHANGED <<main, exit>>
      \/ /\ timer = "hard" /\ control["hard"] # "off"
         /\ main' = "killed" /\ exit' = EXIT_FORCED
  BY DEF At
<1>5. Types'
  <2>1. Received' = Received
    BY <1>3 DEF Received
  <2>2. main' \in Place /\ exit' \in EXIT_OK .. NoCode
    BY <1>1, <1>4 DEF Types, Place, EXIT_OK, EXIT_FORCED, NoCode
  <2>3. QED
    BY <2>1, <2>2, <1>1, <1>2 DEF Types
<1>6. LateOK' /\ EndOK'
  BY <1>1, <1>4 DEF LateOK, EndOK, Unserved, Gone
<1> HIDE DEF TimerProgress
<1>7. StopOK'
  BY <1>1, <1>2, <1>3, <1>4 DEF StopOK, Asking, Forcing, Thread, Timer
<1>8. QED
  BY <1>5, <1>6, <1>7 DEF RInv

-----------------------------------------------------------------------------
(* The theorems *)

\* The invariant holds at first,
LEMMA RuntimeStarts == Init => RInv
<1> SUFFICES ASSUME Init PROVE RInv
  OBVIOUS
<1>1. Received = {}
  BY DEF Init, Received
<1>2. Types
  <2>1. IsFiniteSet(Received) /\ requests = Cardinality(Received) /\ requests \in Nat
    BY <1>1, FS_EmptySet DEF Init
  <2>2. control \in [Thread -> Step]
    BY DEF Init, Thread, Step
  <2>3. outages \in 0 .. MaxOutages /\ claims \in 0 .. MaxJobs /\ late \in 0 .. claims
    BY RuntimeAssumption DEF Init
  <2>4. exit \in EXIT_OK .. NoCode
    BY DEF Init, EXIT_OK, NoCode
  <2>5. /\ stop \in BOOLEAN /\ forced \in BOOLEAN /\ published \in BOOLEAN
        /\ active \in BOOLEAN
    BY DEF Init
  <2>6. QED
    BY <2>1, <2>2, <2>3, <2>4, <2>5 DEF Init, Types, ProcessState, Place
<1>3. LateOK /\ EndOK
  BY DEF Init, LateOK, EndOK, EXIT_FORCED, NoCode
<1>4. \A t \in Thread : control[t] = "off"
  BY DEF Init, Thread
<1>5. StopOK
  BY <1>4 DEF Init, StopOK, Asking, Forcing, Thread, Timer
<1>6. QED
  BY <1>2, <1>3, <1>5 DEF RInv

\* every step keeps it,
LEMMA RuntimeSteps == RInv /\ [Next]_vars => RInv'
<1> SUFFICES ASSUME RInv, [Next]_vars PROVE RInv'
  OBVIOUS
<1>1. CASE Next
  <2>1. ~Gone
    BY <1>1 DEF Next
  <2>2. CASE LoopStep
    BY <2>1, <2>2, LoopKeepsIt
  <2>3. CASE EndStep
    BY <2>1, <2>3, EndKeepsIt
  <2>4. ASSUME NEW t \in Signal, RequestStop(t) PROVE RInv'
    BY <2>1, <2>4, RequestKeepsIt
  <2>5. ASSUME NEW t \in Signal \cup {"grace"}, ControlProgress(t) PROVE RInv'
    BY <2>1, <2>5, AskingKeepsIt, ForcingKeepsIt DEF ControlProgress
  <2>6. ASSUME NEW timer \in Timer, TimerProgress(timer) PROVE RInv'
    BY <2>1, <2>6, TimersKeepIt
  <2>7. QED
    BY <1>1, <2>2, <2>3, <2>4, <2>5, <2>6 DEF Next, MainProgress, LoopStep, EndStep
<1>2. CASE UNCHANGED vars
  BY <1>2 DEF vars, RInv, Types, LateOK, EndOK, StopOK, Received, Gone
<1>3. QED
  BY <1>1, <1>2

\* so it holds of every state.
LEMMA RuntimeInv == RuntimeSpec => []RInv
BY RuntimeStarts, RuntimeSteps, PTL DEF RuntimeSpec

\* Every variable keeps its type; no more requests are counted than signals came.
THEOREM RuntimeTypes == RuntimeSpec => []RuntimeTypeOK
<1>1. RInv => RuntimeTypeOK
  <2> SUFFICES ASSUME RInv PROVE RuntimeTypeOK
    OBVIOUS
  <2>1. Received \subseteq Signal
    BY DEF Received
  <2>2. Cardinality(Received) <= Cardinality(Signal) /\ Cardinality(Signal) \in Nat
    BY <2>1, FS_Subset, FS_CardinalityType, RuntimeAssumption
  <2>3. requests \in 0 .. Cardinality(Signal)
    BY <2>2 DEF RInv, Types
  <2>4. late \in 0 .. MaxJobs
    BY RuntimeAssumption DEF RInv, Types
  <2>5. QED
    BY <2>3, <2>4 DEF RInv, Types, RuntimeTypeOK, Thread
<1>2. QED
  BY <1>1, RuntimeInv, PTL

\* run returns in a terminal state, and with code 5 only if it was forced, whatever the
\* number of signals and wherever they find it.
THEOREM EndsAreTerminal == RuntimeSpec => []ReturnsInTerminalState
<1>1. RInv => ReturnsInTerminalState
  BY Arrows DEF RInv, EndOK, ReturnsInTerminalState
<1>2. QED
  BY <1>1, RuntimeInv, PTL

\* At most one job is claimed after the event _stop, for any number of signals.
THEOREM OneLateClaim == RuntimeSpec => []AtMostOneLateClaim
<1>1. RInv => AtMostOneLateClaim
  BY DEF RInv, LateOK, AtMostOneLateClaim
<1>2. QED
  BY <1>1, RuntimeInv, PTL

\* Before a second signal or the end of the grace delay, no job is released or killed.
THEOREM ForcedOnDemand == RuntimeSpec => []ForcedOnlyOnDemand
<1>1. RInv => ForcedOnlyOnDemand
  BY DEF RInv, StopOK, ForcedOnlyOnDemand
<1>2. QED
  BY <1>1, RuntimeInv, PTL
=============================================================================
