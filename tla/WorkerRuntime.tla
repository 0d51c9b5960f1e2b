---------------------------- MODULE WorkerRuntime ----------------------------
(***************************************************************************)
(* One worker process from start to exit: the main thread (WorkerRuntime.  *)
(* run), the threads started by signals, the two timers of a stop, the     *)
(* lifecycle they share (Lifecycle) and the state published to the health  *)
(* file (HealthReporter).                                                  *)
(*                                                                         *)
(* Each read or write of shared state is a step of its own, in the order   *)
(* of the code; Lifecycle changes are atomic (its lock), and so is the     *)
(* publication of the new state, which its callback does under that lock.  *)
(* What the job does to the queue is the subject of WorkerAttempt: here a  *)
(* job is claimed, runs, and is published, released or left behind.        *)
(***************************************************************************)
EXTENDS Naturals, FiniteSets

CONSTANTS Signal,       \* bound: the signals the process receives
          MaxOutages,   \* bound: calls that fail because the database is unreachable
          MaxJobs       \* bound: jobs this process claims

ASSUME RuntimeAssumption ==
    /\ IsFiniteSet(Signal) /\ Signal \cap {"grace", "hard"} = {}
    /\ MaxOutages \in Nat /\ MaxJobs \in Nat

VARIABLES
    state,      \* Lifecycle._state
    health,     \* the state in the health file
    stop,       \* the event _stop
    forced,     \* the event _forced
    published,  \* the event _force_published
    requests,   \* _stop_requests
    main,       \* where the main thread is
    active,     \* Worker._active: a keeper holds an attempt
    attempt,    \* the job of this process: "none", "held", "released"
    control,    \* control[t]: where the thread of signal t, or of a timer, is
    exit,       \* the exit code, NoCode until it is known
    outages,    \* how many calls have failed
    claims,     \* how many jobs have been claimed
    late        \* how many of them after the event _stop

vars == <<state, health, stop, forced, published, requests, main, active, attempt, control,
          exit, outages, claims, late>>

ProcessState == {"starting", "ready", "busy", "degraded", "draining", "stopped", "forced"}

TRANSITIONS ==
    [starting |-> {"ready", "draining", "stopped", "forced"},
     ready    |-> {"busy", "degraded", "draining", "forced"},
     busy     |-> {"ready", "degraded", "draining", "forced"},
     degraded |-> {"ready", "draining", "forced"},
     draining |-> {"stopped", "forced"},
     stopped  |-> {},
     forced   |-> {}]

EXIT_OK == 0
EXIT_INTERNAL == 1
EXIT_CONFIG == 2
EXIT_DATABASE == 3
EXIT_SCHEMA == 4
EXIT_FORCED == 5
NoCode == 6

Timer == {"grace", "hard"}
Place == {"connect", "connecting", "retry", "connected", "ready", "loop", "poll", "claimed",
          "starting", "working", "closing", "back", "settle", "idle", "unavailable",
          "report", "backoff", "finally", "judge", "forced_end", "drain_end", "stop_end",
          "returned", "killed"}
Step == {"off", "drain", "stop", "arm", "force", "force_stop", "release", "force_state",
         "publish", "armed", "due", "done"}
\* Where the main thread may spend seconds; its other steps take no time to speak of.
Waiting == {"connecting", "retry", "poll", "working", "idle", "backoff", "forced_end"}

Init ==
    /\ state = "starting" /\ health = "starting"
    /\ stop = FALSE /\ forced = FALSE /\ published = FALSE
    /\ requests = 0
    /\ main = "connect"
    /\ active = FALSE /\ attempt = "none"
    /\ control = [t \in Signal \cup Timer |-> "off"]
    /\ exit = NoCode
    /\ outages = 0 /\ claims = 0 /\ late = 0

Gone == main \in {"returned", "killed"}

-----------------------------------------------------------------------------
(* Lifecycle.  A change is notified to the health file under the lock. *)

TransitionIfAllowed(target) ==
    IF target \in TRANSITIONS[state]
    THEN state' = target /\ health' = target
    ELSE UNCHANGED <<state, health>>

\* The main thread moves on; "rest" is the other state it leaves alone.
Goto(place) == main' = place

flags == <<stop, forced, published, requests>>
counts == <<outages, claims, late>>

\* Abort or end with a code: the "finally" of run comes next.
End(code) == main' = "finally" /\ exit' = code

-----------------------------------------------------------------------------
(* The main thread: connection *)

Connect ==
    /\ main = "connect"
    /\ IF stop THEN End(EXIT_OK) ELSE Goto("connecting") /\ UNCHANGED exit
    /\ UNCHANGED <<state, health, flags, active, attempt, control, counts>>

Connecting ==
    /\ main = "connecting"
    /\ \/ Goto("connected") /\ UNCHANGED <<exit, outages>>
       \/ /\ \E code \in {EXIT_CONFIG, EXIT_DATABASE, EXIT_SCHEMA} : End(code)
          /\ UNCHANGED outages
       \/ /\ outages < MaxOutages /\ outages' = outages + 1
          /\ Goto("retry") /\ UNCHANGED exit
    /\ UNCHANGED <<state, health, flags, active, attempt, control, claims, late>>

\* The wait between two tries ends by itself or is interrupted by a stop.
ConnectAgain ==
    /\ main = "retry"
    /\ IF stop THEN End(EXIT_OK) ELSE Goto("connect") /\ UNCHANGED exit
    /\ UNCHANGED <<state, health, flags, active, attempt, control, counts>>

Connected ==
    /\ main = "connected"
    /\ IF stop THEN Goto("finally") ELSE Goto("ready")
    /\ exit' = EXIT_OK
    /\ UNCHANGED <<state, health, flags, active, attempt, control, counts>>

\* Lifecycle.transition raises when a stop came first: the worker "crashes".
BecomeReady ==
    /\ main = "ready"
    /\ IF "ready" \in TRANSITIONS[state]
       THEN Goto("loop") /\ UNCHANGED exit
       ELSE End(EXIT_INTERNAL)
    /\ TransitionIfAllowed("ready")
    /\ UNCHANGED <<flags, active, attempt, control, counts>>

-----------------------------------------------------------------------------
(* The main thread: the loop *)

\* AtMostOneLateClaim, StopEndsTheProcess: the stop is tested between two waits only.
LoopFaulty ==
    /\ main = "loop"
    /\ Goto("poll")
    /\ UNCHANGED <<state, health, flags, active, attempt, control, exit, counts>>

Loop ==
    /\ main = "loop"
    /\ IF stop THEN Goto("finally") ELSE Goto("poll")
    /\ UNCHANGED <<state, health, flags, active, attempt, control, exit, counts>>

\* recover_stale, then run_once: a job, none, an outage, or an unexpected error.
PollFindsJob ==
    /\ main = "poll"
    /\ claims < MaxJobs
    /\ claims' = claims + 1
    /\ late' = IF stop THEN late + 1 ELSE late
    /\ attempt' = "held"
    /\ Goto("claimed")
    /\ UNCHANGED <<state, health, flags, active, control, exit, outages>>

PollFindsNothing ==
    /\ main = "poll"
    /\ Goto("settle")
    /\ UNCHANGED <<state, health, flags, active, attempt, control, exit, counts>>

PollFails ==
    /\ main = "poll"
    /\ \/ /\ outages < MaxOutages /\ outages' = outages + 1
          /\ Goto("unavailable") /\ UNCHANGED exit
       \/ End(EXIT_INTERNAL) /\ UNCHANGED outages
    /\ UNCHANGED <<state, health, flags, active, attempt, control, claims, late>>

StartKeeper ==
    /\ main = "claimed"
    /\ active' = TRUE
    /\ Goto("starting")
    /\ UNCHANGED <<state, health, flags, attempt, control, exit, counts>>

JobStarted ==
    /\ main = "starting"
    /\ TransitionIfAllowed("busy")
    /\ Goto("working")
    /\ UNCHANGED <<flags, active, attempt, control, exit, counts>>

\* The handler returns, the result is published unless the attempt was released, and
\* the keeper is dropped.
JobEnds ==
    /\ main = "working"
    /\ active' = FALSE
    /\ attempt' = "none"
    /\ Goto("closing")
    /\ UNCHANGED <<state, health, flags, control, exit, counts>>

\* _job_ended reads the state, then asks for the transition.
JobEnded ==
    /\ main = "closing"
    /\ IF state = "busy" THEN Goto("back") ELSE Goto("settle")
    /\ UNCHANGED <<state, health, flags, active, attempt, control, exit, counts>>

BackToReady ==
    /\ main = "back"
    /\ TransitionIfAllowed("ready")
    /\ Goto("settle")
    /\ UNCHANGED <<flags, active, attempt, control, exit, counts>>

\* After a successful call: a degraded worker is ready again.
Settle ==
    /\ main = "settle"
    /\ IF state = "degraded" THEN TransitionIfAllowed("ready") ELSE UNCHANGED <<state, health>>
    /\ Goto("idle")
    /\ UNCHANGED <<flags, active, attempt, control, exit, counts>>

\* database_ok, when it is called, then the wait; an interrupted wait ends the loop.
Idle ==
    /\ main = "idle"
    /\ health' \in {health, IF health = "degraded" THEN "ready" ELSE health}
    /\ Goto("loop")
    /\ UNCHANGED <<state, flags, active, attempt, control, exit, counts>>

DatabaseUnavailable ==
    /\ main = "unavailable"
    /\ TransitionIfAllowed("degraded")
    /\ IF state = "degraded" \/ "degraded" \in TRANSITIONS[state]
       THEN Goto("report") ELSE Goto("backoff")
    /\ UNCHANGED <<flags, active, attempt, control, exit, counts>>

ReportOutage ==
    /\ main = "report"
    /\ health' = "degraded"
    /\ Goto("backoff")
    /\ UNCHANGED <<state, flags, active, attempt, control, exit, counts>>

Backoff ==
    /\ main = "backoff"
    /\ IF stop THEN Goto("finally") ELSE Goto("loop")
    /\ UNCHANGED <<state, health, flags, active, attempt, control, exit, counts>>

-----------------------------------------------------------------------------
(* The main thread: the end of run *)

\* The timers that were armed are cancelled.
Finally ==
    /\ main = "finally"
    /\ control' = [t \in DOMAIN control |->
                     IF t \in Timer /\ control[t] \in {"armed", "due"} THEN "done" ELSE control[t]]
    /\ Goto("judge")
    /\ UNCHANGED <<state, health, flags, active, attempt, exit, counts>>

Judge ==
    /\ main = "judge"
    /\ IF forced THEN Goto("forced_end") ELSE Goto("drain_end")
    /\ UNCHANGED <<state, health, flags, active, attempt, control, exit, counts>>

\* The wait for _force_published has a time limit: it may end before the event.
ForcedEnd ==
    /\ main = "forced_end"
    /\ exit' = EXIT_FORCED
    /\ TransitionIfAllowed("forced")
    /\ Goto("returned")
    /\ UNCHANGED <<flags, active, attempt, control, counts>>

DrainEnd ==
    /\ main = "drain_end"
    /\ TransitionIfAllowed("draining")
    /\ Goto("stop_end")
    /\ UNCHANGED <<flags, active, attempt, control, exit, counts>>

\* ReturnsInTerminalState: the last transition is forgotten.
StopEndFaulty ==
    /\ main = "stop_end"
    /\ Goto("returned")
    /\ UNCHANGED <<state, health, flags, active, attempt, control, exit, counts>>

StopEnd ==
    /\ main = "stop_end"
    /\ TransitionIfAllowed("stopped")
    /\ Goto("returned")
    /\ UNCHANGED <<flags, active, attempt, control, exit, counts>>

-----------------------------------------------------------------------------
(* The control threads.  t is a signal's thread or the grace timer's. *)

At(t, step) == control[t] = step
Control(t, step) == control' = [control EXCEPT ![t] = step]

\* A signal starts a thread that runs request_stop.
RequestStop(t) ==
    /\ t \in Signal
    /\ At(t, "off")
    /\ requests' = requests + 1
    /\ Control(t, IF requests' = 1 THEN "drain" ELSE "force")
    /\ UNCHANGED <<state, health, stop, forced, published, main, active, attempt, exit, counts>>

Drain(t) ==
    /\ At(t, "drain")
    /\ TransitionIfAllowed("draining")
    /\ Control(t, "stop")
    /\ UNCHANGED <<flags, main, active, attempt, exit, counts>>

SetStop(t) ==
    /\ At(t, "stop")
    /\ stop' = TRUE
    /\ Control(t, "arm")
    /\ UNCHANGED <<state, health, forced, published, requests, main, active, attempt, exit, counts>>

ArmGrace(t) ==
    /\ At(t, "arm")
    /\ control' = [control EXCEPT ![t] = "done", !["grace"] = "armed"]
    /\ UNCHANGED <<state, health, flags, main, active, attempt, exit, counts>>

\* A delay of seconds runs out while the main thread waits for something.
DelayEnds(timer) ==
    /\ At(timer, "armed")
    /\ main \in Waiting
    /\ Control(timer, "due")
    /\ UNCHANGED <<state, health, flags, main, active, attempt, exit, counts>>

\* The grace delay ran out: a busy worker is forced to stop, an idle one is left alone.
GraceExpires ==
    /\ At("grace", "due")
    /\ Control("grace", IF active THEN "force" ELSE "done")
    /\ UNCHANGED <<state, health, flags, main, active, attempt, exit, counts>>

ForceOnce(t) ==
    /\ At(t, "force")
    /\ forced' = TRUE
    /\ Control(t, IF forced THEN "done" ELSE "force_stop")
    /\ UNCHANGED <<state, health, stop, published, requests, main, active, attempt, exit, counts>>

ForceStops(t) ==
    /\ At(t, "force_stop")
    /\ stop' = TRUE
    /\ Control(t, "release")
    /\ UNCHANGED <<state, health, forced, published, requests, main, active, attempt, exit, counts>>

\* force_release: without a keeper there is nothing to release.
Release(t) ==
    /\ At(t, "release")
    /\ attempt' = IF active /\ attempt = "held" THEN "released" ELSE attempt
    /\ Control(t, "force_state")
    /\ UNCHANGED <<state, health, flags, main, active, exit, counts>>

ForceState(t) ==
    /\ At(t, "force_state")
    /\ TransitionIfAllowed("forced")
    /\ Control(t, "publish")
    /\ UNCHANGED <<flags, main, active, attempt, exit, counts>>

PublishForce(t) ==
    /\ At(t, "publish")
    /\ published' = TRUE
    /\ control' = [control EXCEPT ![t] = "done", !["hard"] = "armed"]
    /\ UNCHANGED <<state, health, stop, forced, requests, main, active, attempt, exit, counts>>

\* _hard_exit_if_stuck: the process ends under the feet of its handler.
HardExit ==
    /\ At("hard", "due")
    /\ Control("hard", "done")
    /\ IF active THEN main' = "killed" /\ exit' = EXIT_FORCED ELSE UNCHANGED <<main, exit>>
    /\ UNCHANGED <<state, health, flags, active, attempt, counts>>

-----------------------------------------------------------------------------
MainProgress ==
    \/ Connect \/ Connecting \/ ConnectAgain \/ Connected \/ BecomeReady
    \/ Loop \/ PollFindsJob \/ PollFindsNothing \/ PollFails
    \/ StartKeeper \/ JobStarted \/ JobEnded \/ BackToReady \/ Settle \/ Idle
    \/ DatabaseUnavailable \/ ReportOutage \/ Backoff
    \/ Finally \/ Judge \/ ForcedEnd \/ DrainEnd \/ StopEnd

ControlProgress(t) ==
    \/ Drain(t) \/ SetStop(t) \/ ArmGrace(t)
    \/ ForceOnce(t) \/ ForceStops(t) \/ Release(t) \/ ForceState(t) \/ PublishForce(t)

TimerProgress(timer) ==
    \/ DelayEnds(timer)
    \/ timer = "grace" /\ GraceExpires
    \/ timer = "hard" /\ HardExit

Next ==
    /\ ~Gone
    /\ \/ MainProgress
       \/ JobEnds
       \/ \E t \in Signal : RequestStop(t)
       \/ \E t \in Signal \cup {"grace"} : ControlProgress(t)
       \/ \E timer \in Timer : TimerProgress(timer)

RuntimeSpec == Init /\ [][Next]_vars

\* Threads run and timers fire; nothing is assumed of the handler.
ThreadFairness ==
    /\ WF_vars(MainProgress /\ ~Gone)
    /\ \A t \in Signal \cup {"grace"} : WF_vars(ControlProgress(t) /\ ~Gone)
    /\ \A timer \in Timer : WF_vars(TimerProgress(timer) /\ ~Gone)

\* The handlers of mervio end.
HandlerFairness == WF_vars(JobEnds /\ ~Gone)

ThreadSpec == RuntimeSpec /\ ThreadFairness
FairSpec == ThreadSpec /\ HandlerFairness

-----------------------------------------------------------------------------
(* Properties *)

RuntimeTypeOK ==
    /\ state \in ProcessState /\ health \in ProcessState
    /\ stop \in BOOLEAN /\ forced \in BOOLEAN /\ published \in BOOLEAN
    /\ requests \in 0 .. Cardinality(Signal)
    /\ main \in Place
    /\ active \in BOOLEAN /\ attempt \in {"none", "held", "released"}
    /\ control \in [Signal \cup Timer -> Step]
    /\ exit \in EXIT_OK .. NoCode
    /\ outages \in 0 .. MaxOutages /\ claims \in 0 .. MaxJobs /\ late \in 0 .. MaxJobs

\* run returns in a terminal state of the lifecycle whatever raced with it, although
\* its last transitions are only tried; and code 5 is never given to another state.
ReturnsInTerminalState ==
    main = "returned" =>
        /\ TRANSITIONS[state] = {}
        /\ exit = EXIT_FORCED => state = "forced" /\ forced

\* A job that runs when the first signal comes is neither released nor killed before a
\* second signal or the end of the grace delay.
ForcedOnlyOnDemand ==
    requests <= 1 /\ control["grace"] \in {"off", "armed", "due"}
        => ~forced /\ attempt # "released" /\ main # "killed"

\* A stop that comes while the main thread is between its test of _stop and the claim
\* lets one job through, never two.
AtMostOneLateClaim == late <= 1

\* A stop ends the process: no interleaving of signals, timers and the main thread
\* leaves it waiting for ever, as long as handlers end.
StopEndsTheProcess == stop ~> Gone

\* "0 arret propre": a signal alone never makes the worker end with an internal error.
StopIsNotAnError == [][main = "ready" => exit' # EXIT_INTERNAL]_vars

\* "delai de grace depasse -> FORCED": once a stop was asked for, the process ends
\* even if the handler never returns.
GraceBoundsTheStop == stop ~> Gone
=============================================================================
