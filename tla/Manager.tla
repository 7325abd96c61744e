------------------------------ MODULE Manager ------------------------------
(***************************************************************************)
(* Manager.Run (internal/runner/manager.go): preflight, conditions,        *)
(* parallel or sequential startup with dependency gates, the monitor of    *)
(* infrastructure errors, the joins, and the error it returns.             *)
(*                                                                         *)
(* An instance is one Process; inside its Run it appears only as what the  *)
(* manager sees of it: that it starts, starts again, and is over with or   *)
(* without an error (module Process).  A gate is waitStarted (modules Gate *)
(* and StartGate).                                                         *)
(***************************************************************************)
EXTENDS Naturals, Sequences

CONSTANTS
    Order,          \* cfg.Run: the names, in order
    InstancesOf,    \* the instances of a name
    Modes,          \* start modes to consider
    CriticalSets,   \* sets of names that are critical, to consider
    DependsOn       \* functions from names to sequences of names, to consider

Names == {Order[i] : i \in 1..Len(Order)}
Insts == UNION {InstancesOf[n] : n \in Names}
NameOf(i) == CHOOSE n \in Names : i \in InstancesOf[n]
Position(n) == CHOOSE k \in 1..Len(Order) : Order[k] = n
Elements(s) == {s[k] : k \in 1..Len(s)}

\* What config.Validate accepts (module Validation): names are unique, instances
\* are their own, a name depends on names of the list, on earlier ones in
\* sequential mode, and there are no cycles.
ASSUME ConfigIsValid ==
    /\ Order \in Seq(Names)
    /\ \A j, k \in 1..Len(Order) : Order[j] = Order[k] => j = k
    /\ \A n \in Names : InstancesOf[n] # {}
    /\ \A n, m \in Names : n # m => InstancesOf[n] \cap InstancesOf[m] = {}
    /\ Modes \subseteq {"parallel", "sequential"}
    /\ CriticalSets \subseteq SUBSET Names
    /\ DependsOn \subseteq [Names -> Seq(Names)]
    /\ \A d \in DependsOn :
         /\ \A S \in SUBSET Names : S # {} => \E n \in S : Elements(d[n]) \cap S = {}
         /\ "sequential" \in Modes =>
              \A n \in Names : \A m \in Elements(d[n]) : Position(m) < Position(n)

VARIABLES
    mode, critical, deps,   \* the configuration, fixed in Init
    ctx,            \* is the context of Run done?  (its cancel on return is left out)
    shuttingDown,   \* m.shuttingDown
    mpc,            \* control point of Run
    idx,            \* position in cfg.Run of the conditions and launch loops
    g,              \* control point of the goroutine of every instance
    dep,            \* how many dependencies it has waited for
    state,          \* Process.state
    ready,          \* Process.readyCh is closed
    done,           \* Process.doneCh is closed
    monitor,        \* the error monitor: "off", "watch", "done"
    errors,         \* Service.Errors, a channel of capacity one
    failures,       \* the sources of the errors recorded
    err,            \* what Run returns
    reported,       \* history: an infrastructure error was reported in time
    cancelled       \* history: somebody outside cancelled the context

config  == <<mode, critical, deps>>
mainVars == <<mpc, idx>>
procVars == <<g, dep, state, ready, done>>
errVars == <<monitor, errors, failures, err, reported>>
vars == <<config, ctx, shuttingDown, mainVars, procVars, errVars, cancelled>>

Final == {"stopped", "failed", "skipped"}

TypeOK ==
    /\ mode \in Modes
    /\ critical \in CriticalSets
    /\ deps \in DependsOn
    /\ ctx \in BOOLEAN
    /\ shuttingDown \in BOOLEAN
    /\ mpc \in {"preflight", "reaper", "conditions", "evaluate", "launch", "gate", "wait",
                "join", "monitor", "drain", "cleanup", "returned"}
    /\ idx \in 1..(Len(Order) + 1)
    /\ g \in [Insts -> {"none", "deps", "unmet", "run", "failing", "ended", "broken", "over"}]
    /\ dep \in [Insts -> Nat]
    /\ state \in [Insts -> Final \cup {"pending", "starting", "running"}]
    /\ ready \in [Insts -> BOOLEAN]
    /\ done \in [Insts -> BOOLEAN]
    /\ monitor \in {"off", "watch", "done"}
    /\ errors \in 0..1
    /\ failures \in SUBSET (Insts \cup {"conditions", "service"})
    /\ err \in {"none", "ok", "failed"}
    /\ reported \in BOOLEAN
    /\ cancelled \in BOOLEAN

Init ==
    /\ mode \in Modes
    /\ critical \in CriticalSets
    /\ deps \in DependsOn
    /\ ctx = FALSE
    /\ shuttingDown = FALSE
    /\ mpc = "preflight"
    /\ idx = 1
    /\ g = [i \in Insts |-> "none"]
    /\ dep = [i \in Insts |-> 0]
    /\ state = [i \in Insts |-> "pending"]
    /\ ready = [i \in Insts |-> FALSE]
    /\ done = [i \in Insts |-> FALSE]
    /\ monitor = "off"
    /\ errors = 0
    /\ failures = {}
    /\ err = "none"
    /\ reported = FALSE
    /\ cancelled = FALSE

IsCritical(i) == NameOf(i) \in critical

\* The gate of a name, as its users see it.
GateOf(n) == INSTANCE Gate WITH Procs <- InstancesOf[n], result <- "none"

\* p.finish on every instance of a set.
Finish(S, s) ==
    /\ state' = [i \in Insts |-> IF i \in S THEN s ELSE state[i]]
    /\ done' = [i \in Insts |-> done[i] \/ i \in S]

\* Service.report: an error that does not fit into the channel is dropped.
Report == errors' = 1

-----------------------------------------------------------------------------
(* Run, up to the launch *)

\* prepare fails for one process: it is marked failed and Run returns.
Preflight ==
    /\ mpc = "preflight"
    /\ \/ mpc' = "reaper" /\ UNCHANGED <<state, done, err>>
       \/ \E i \in Insts :
            /\ Finish({i}, "failed")
            /\ err' = "failed"
            /\ mpc' = "cleanup"
    /\ UNCHANGED <<config, ctx, shuttingDown, idx, g, dep, ready, monitor, errors,
                   failures, reported, cancelled>>

\* StartReaper, then the error monitor and the shutdown flag are set up.
StartReaper ==
    /\ mpc = "reaper"
    /\ \/ mpc' = "conditions" /\ monitor' = "watch" /\ UNCHANGED err
       \/ mpc' = "cleanup" /\ err' = "failed" /\ UNCHANGED monitor
    /\ UNCHANGED <<config, ctx, shuttingDown, idx, procVars, errors, failures,
                   reported, cancelled>>

BeginLaunch == mpc' = "launch" /\ idx' = 1

\* The conditions loop is over, or stops because the context is done.
ConditionsEnd ==
    /\ mpc = "conditions"
    /\ ctx \/ idx > Len(Order)
    /\ BeginLaunch
    /\ UNCHANGED <<config, ctx, shuttingDown, procVars, errVars, cancelled>>

ConditionsBegin ==
    /\ mpc = "conditions"
    /\ ~ctx
    /\ idx <= Len(Order)
    /\ mpc' = "evaluate"
    /\ UNCHANGED <<config, ctx, shuttingDown, idx, procVars, errVars, cancelled>>

\* The conditions of a name hold, or do not and all its instances are skipped.
ConditionsDecide ==
    /\ mpc = "evaluate"
    /\ mpc' = "conditions"
    /\ idx' = idx + 1
    /\ \/ UNCHANGED <<state, done>>
       \/ Finish(InstancesOf[Order[idx]], "skipped")
    /\ UNCHANGED <<config, ctx, shuttingDown, g, dep, ready, errVars, cancelled>>

\* They cannot be evaluated, which is no error of theirs when the context is
\* done.  A probe reports a supervisor error to the channel, too.
ConditionsFail ==
    /\ mpc = "evaluate"
    /\ failures' = IF ctx THEN failures ELSE failures \cup {"conditions"}
    /\ ctx' = TRUE
    /\ \E rep \in BOOLEAN :
         /\ IF rep THEN Report ELSE UNCHANGED errors
         /\ reported' = (reported \/ rep)
    /\ BeginLaunch
    /\ UNCHANGED <<config, shuttingDown, procVars, monitor, err, cancelled>>

\* launch starts a goroutine for every instance that is not over.
LaunchAll(S) ==
    g' = [i \in Insts |-> IF i \in S /\ ~done[i] THEN "deps" ELSE g[i]]

\* The launch loops.  Parallel startup never waits; sequential startup goes
\* through the gate of a name before it launches the next.
Launch ==
    /\ mpc = "launch"
    /\ \/ mode = "parallel" /\ LaunchAll(Insts) /\ mpc' = "wait"
       \/ /\ mode = "sequential"
          /\ IF ctx \/ idx > Len(Order)
             THEN mpc' = "wait" /\ UNCHANGED g
             ELSE LaunchAll(InstancesOf[Order[idx]]) /\ mpc' = "gate"
    /\ UNCHANGED <<config, ctx, shuttingDown, idx, dep, state, ready, done, errVars, cancelled>>

NoGate(n) == TRUE
GateAnswers(n) == GateOf(n)!Open \/ GateOf(n)!Shut \/ ctx

SequentialGate ==
    /\ mpc = "gate"
    /\ GateAnswers(Order[idx])
    /\ idx' = idx + 1
    /\ mpc' = "launch"
    /\ UNCHANGED <<config, ctx, shuttingDown, procVars, errVars, cancelled>>

-----------------------------------------------------------------------------
(* The goroutine of an instance *)

NextDep(i) == deps[NameOf(i)][dep[i] + 1]
WaitsForDep(i) == g[i] = "deps" /\ dep[i] < Len(deps[NameOf(i)])

TerminatedWillDo(i) == \E j \in InstancesOf[NextDep(i)] : ready[j] \/ done[j]
DepStarted(i) == GateOf(NextDep(i))!Open

DepOpens(i) ==
    /\ WaitsForDep(i)
    /\ DepStarted(i)
    /\ dep' = [dep EXCEPT ![i] = @ + 1]
    /\ UNCHANGED <<config, ctx, shuttingDown, mainVars, g, state, ready, done, errVars,
                   cancelled>>

\* The context is done before the gate opens, or before Process.Run.
GivesUp(i) ==
    /\ g[i] = "deps"
    /\ ctx
    /\ Finish({i}, "stopped")
    /\ g' = [g EXCEPT ![i] = "over"]
    /\ UNCHANGED <<config, ctx, shuttingDown, mainVars, dep, ready, errVars, cancelled>>

CancelIfCritical(i) == ctx \/ IsCritical(i)

DepFailedItself(i) ==
    \A j \in InstancesOf[NextDep(i)] : state[j] = "failed" /\ ~ready[j]
DepNeverStarts(i) == GateOf(NextDep(i))!Shut

\* The dependency is over without ever having started.
DepFails(i) ==
    /\ WaitsForDep(i)
    /\ DepNeverStarts(i)
    /\ ~ctx
    /\ Finish({i}, IF IsCritical(i) THEN "failed" ELSE "skipped")
    /\ g' = [g EXCEPT ![i] = "unmet"]
    /\ UNCHANGED <<config, ctx, shuttingDown, mainVars, dep, ready, errVars, cancelled>>

\* Then the goroutine records that, and cancels for a critical process.
RecordsUnmet(i) ==
    /\ g[i] = "unmet"
    /\ failures' = failures \cup {i}
    /\ ctx' = CancelIfCritical(i)
    /\ g' = [g EXCEPT ![i] = "over"]
    /\ UNCHANGED <<config, shuttingDown, mainVars, dep, state, ready, done, monitor,
                   errors, err, reported, cancelled>>

RunBegins(i) ==
    /\ g[i] = "deps"
    /\ dep[i] = Len(deps[NameOf(i)])
    /\ ~ctx
    /\ g' = [g EXCEPT ![i] = "run"]
    /\ state' = [state EXCEPT ![i] = "starting"]
    /\ UNCHANGED <<config, ctx, shuttingDown, mainVars, dep, ready, done, errVars, cancelled>>

\* Inside Process.Run: a command starts, or is between two launches.
ProcessStarts(i) ==
    /\ g[i] = "run"
    /\ state[i] = "starting"
    /\ state' = [state EXCEPT ![i] = "running"]
    /\ ready' = [ready EXCEPT ![i] = TRUE]
    /\ UNCHANGED <<config, ctx, shuttingDown, mainVars, g, dep, done, errVars, cancelled>>

ProcessRestarts(i) ==
    /\ g[i] = "run"
    /\ state[i] = "running"
    /\ ~ctx
    /\ state' = [state EXCEPT ![i] = "starting"]
    /\ UNCHANGED <<config, ctx, shuttingDown, mainVars, g, dep, ready, done, errVars, cancelled>>

\* Process.Run returns nil: after a clean exit, or because it was cancelled.
ProcessStops(i) ==
    /\ g[i] = "run"
    /\ ready[i] \/ ctx
    /\ Finish({i}, "stopped")
    /\ g' = [g EXCEPT ![i] = "over"]
    /\ UNCHANGED <<config, ctx, shuttingDown, mainVars, dep, ready, errVars, cancelled>>

OnEveryExit(i) == TRUE
OnCriticalExit(i) == ctx \/ IsCritical(i)

\* p.fail: the state is stored before the context of a critical process is
\* cancelled.
ProcessFails(i) ==
    /\ g[i] = "run"
    /\ state' = [state EXCEPT ![i] = "failed"]
    /\ g' = [g EXCEPT ![i] = "failing"]
    /\ UNCHANGED <<config, ctx, shuttingDown, mainVars, dep, ready, done, errVars, cancelled>>

\* Process.Run returns the error, Done closed.  One that wraps a
\* SupervisorError may have been reported to the channel before.
ProcessReturns(i) ==
    /\ g[i] = "failing"
    /\ ctx' = OnCriticalExit(i)
    /\ done' = [done EXCEPT ![i] = TRUE]
    /\ \/ g' = [g EXCEPT ![i] = "ended"] /\ UNCHANGED <<errors, reported>>
       \/ /\ g' = [g EXCEPT ![i] = "broken"]
          /\ reported' = TRUE
          /\ Report \/ UNCHANGED errors
    /\ UNCHANGED <<config, shuttingDown, mainVars, dep, state, ready, monitor, failures, err,
                   cancelled>>

\* The goroutine records the error of Process.Run.
Records(i) ==
    /\ g[i] \in {"ended", "broken"}
    /\ failures' = failures \cup {i}
    /\ ctx' = (ctx \/ g[i] = "broken")
    /\ g' = [g EXCEPT ![i] = "over"]
    /\ UNCHANGED <<config, shuttingDown, mainVars, dep, state, ready, done, monitor,
                   errors, err, reported, cancelled>>

-----------------------------------------------------------------------------
(* Errors and the end of Run *)

\* Mutant: only the deferred join of the reaper is left.
ReaperRunsOn == mpc \notin {"preflight", "reaper", "returned"}
ReaperRuns == mpc \in {"conditions", "evaluate", "launch", "gate", "wait", "join"}

\* The reaper reports an error, as does, in the meantime, a command whose group
\* cannot be stopped.
ServiceReports ==
    /\ ReaperRuns
    /\ Report
    /\ reported' = TRUE
    /\ UNCHANGED <<config, ctx, shuttingDown, mainVars, procVars, monitor, failures, err,
                   cancelled>>

\* After its drain Run does not look at the channel any more.
InTime == mpc \notin {"cleanup", "returned"}

\* ForwardSignal runs in the goroutine of the signal handler, which Run does not
\* join.  That a signal could not be sent to a command is reported then, or when
\* the command, and even Run, is over.  (Of the instances that are over, some
\* have given up before they had one.)
ForwardReports ==
    /\ \E i \in Insts : g[i] \in {"run", "failing", "ended", "broken", "over"}
    /\ Report
    /\ reported' = (reported \/ InTime)
    /\ UNCHANGED <<config, ctx, shuttingDown, mainVars, procVars, monitor, failures, err,
                   cancelled>>

MonitorOnlyRecords == UNCHANGED ctx
MonitorCancels == ctx' = TRUE

MonitorTakes ==
    /\ monitor = "watch"
    /\ errors = 1
    /\ errors' = 0
    /\ failures' = failures \cup {"service"}
    /\ MonitorCancels
    /\ monitor' = "done"
    /\ UNCHANGED <<config, shuttingDown, mainVars, procVars, err, reported, cancelled>>

WaitForAll == \A i \in Insts : done[i]
\* wg counts the goroutines that were launched.
Joined == \A i \in Insts : g[i] \in {"none", "over"}

WaitGroup ==
    /\ mpc = "wait"
    /\ Joined
    /\ mpc' = "join"
    /\ UNCHANGED <<config, ctx, shuttingDown, idx, procVars, errVars, cancelled>>

JoinReaper ==
    /\ mpc = "join"
    /\ mpc' = "monitor"
    /\ UNCHANGED <<config, ctx, shuttingDown, idx, procVars, errVars, cancelled>>

\* stopMonitor: the monitor may still take an error that is there (that is
\* MonitorTakes), or see watchDone first.
StopMonitor ==
    /\ mpc = "monitor"
    /\ monitor' = "done"
    /\ mpc' = "drain"
    /\ UNCHANGED <<config, ctx, shuttingDown, idx, procVars, errors, failures, err,
                   reported, cancelled>>

LeaveErrors == failures' = failures /\ UNCHANGED errors
DrainErrors ==
    /\ failures' = IF errors = 1 THEN failures \cup {"service"} ELSE failures
    /\ errors' = 0

\* The last error is taken from the channel, then the failures are joined.
Result ==
    /\ mpc = "drain"
    /\ DrainErrors
    /\ err' = IF failures' = {} THEN "ok" ELSE "failed"
    /\ mpc' = "cleanup"
    /\ UNCHANGED <<config, ctx, shuttingDown, idx, procVars, monitor, reported, cancelled>>

LeaveUnlaunched == UNCHANGED <<state, done>>
FinishUnlaunched == Finish({i \in Insts : ~done[i]}, "stopped")

\* The deferred function.
Cleanup ==
    /\ mpc = "cleanup"
    /\ shuttingDown' = TRUE
    /\ FinishUnlaunched
    /\ mpc' = "returned"
    /\ UNCHANGED <<config, ctx, idx, g, dep, ready, errVars, cancelled>>

Cancel ==
    /\ ~ctx
    /\ mpc # "returned"
    /\ ctx' = TRUE
    /\ cancelled' = TRUE
    /\ UNCHANGED <<config, shuttingDown, mainVars, procVars, errVars>>

\* The AfterFunc, in its own goroutine, until Run stops it.
NoteShutdown ==
    /\ ctx
    /\ ~shuttingDown
    /\ mpc \in {"conditions", "evaluate", "launch", "gate", "wait", "join", "monitor",
                "drain"}
    /\ shuttingDown' = TRUE
    /\ UNCHANGED <<config, ctx, mainVars, procVars, errVars, cancelled>>

Main ==
    \/ Preflight
    \/ StartReaper
    \/ ConditionsEnd
    \/ ConditionsBegin
    \/ ConditionsDecide
    \/ ConditionsFail
    \/ Launch
    \/ SequentialGate
    \/ WaitGroup
    \/ JoinReaper
    \/ StopMonitor
    \/ Result
    \/ Cleanup

Ends(i) == ProcessStops(i) \/ ProcessFails(i)

Goroutine(i) ==
    \/ DepOpens(i)
    \/ GivesUp(i)
    \/ DepFails(i)
    \/ RecordsUnmet(i)
    \/ RunBegins(i)
    \/ ProcessStarts(i)
    \/ ProcessRestarts(i)
    \/ Ends(i)
    \/ ProcessReturns(i)
    \/ Records(i)

Next ==
    \/ Main
    \/ \E i \in Insts : Goroutine(i)
    \/ ServiceReports
    \/ ForwardReports
    \/ MonitorTakes
    \/ Cancel
    \/ NoteShutdown

(***************************************************************************)
(* Fairness.  Goroutines run; a gate answers when it can.  A process may   *)
(* run, or keep starting, for ever; it ends once the context is done (that *)
(* is CancelEnds in module Process, which excepts a command whose group    *)
(* cannot be stopped).                                                     *)
(***************************************************************************)
Fairness ==
    /\ WF_vars(Main)
    /\ WF_vars(MonitorTakes)
    /\ \A i \in Insts :
         /\ WF_vars(DepOpens(i) \/ GivesUp(i) \/ DepFails(i) \/ RunBegins(i))
         /\ WF_vars(RecordsUnmet(i) \/ ProcessReturns(i) \/ Records(i))
         /\ WF_vars(ctx /\ Ends(i))

Spec == Init /\ [][Next]_vars

FairSpec == Spec /\ Fairness

-----------------------------------------------------------------------------
(* Properties *)

\* How far the startup of a name has come.
Stage(n) ==
    IF \E i \in InstancesOf[n] : ready[i] THEN "open"
    ELSE IF \A i \in InstancesOf[n] : done[i] THEN "shut"
    ELSE IF \E i \in InstancesOf[n] : g[i] \in {"run", "failing"} THEN "begun"
    ELSE IF \E i \in InstancesOf[n] : g[i] # "none" THEN "launched"
    ELSE "pending"

LaunchOrdered == INSTANCE LaunchOrder WITH
    order <- Order, st <- [n \in Names |-> Stage(n)]

\* Startup, as the configuration orders it: an instance begins only after every
\* name it depends on has started once, and in sequential mode a name is
\* launched only when the gates of all earlier ones are settled; a gate that is
\* open stays open, whatever the instances do later.
ImplementsLaunchOrder == LaunchOrdered!Spec

\* "Permanent noncritical failures are collected without cancelling unrelated
\* work; critical and infrastructure failures cancel the context"
\* (docs/architecture.md).  By the time the goroutine of a critical process
\* that failed is over, and others can be waited for, the shutdown has begun;
\* and it begins only because somebody outside cancelled the context, a
\* critical process failed, a condition could not be evaluated, or there was an
\* infrastructure error.
ShutdownHasCause ==
    /\ \A i \in Insts : IsCritical(i) /\ state[i] = "failed" /\ g[i] = "over" => ctx
    /\ ctx => \/ cancelled
              \/ \E i \in Insts : IsCritical(i) /\ state[i] = "failed"
              \/ "conditions" \in failures
              \/ reported

\* "Every started lifecycle is joined before return" (docs/architecture.md):
\* when Run returns, no goroutine is left, and every instance is over.
ReturnsJoined ==
    mpc = "returned" =>
        \A i \in Insts : g[i] \in {"none", "over"} /\ done[i] /\ state[i] \in Final

\* The error Run returns leaves out no failed process, and no infrastructure
\* error that was reported before Run last looks at the channel
\* (manager.go:225): not even one that came when the monitor had already taken
\* another, or while the reaper made its last sweep.  What is lost is the error
\* of a signal that was being forwarded and is reported later than that:
\* "ForwardSignal ... reports failures to Run" (manager.go:360) does not hold
\* then, because nobody waits for that goroutine.
NoErrorLost ==
    mpc = "returned" /\ err = "ok" =>
        ~reported /\ \A i \in Insts : state[i] # "failed"

\* Cancelling the context leads to the return of Run.
CancelReturns == ctx ~> mpc = "returned"

\* An infrastructure error shuts the system down.
ReportShutsDown == reported ~> ctx \/ mpc = "returned"

\* Nobody waits for ever on a dependency that is over without having started.
DeadDependencyReleases ==
    \A i \in Insts :
        (WaitsForDep(i) /\ GateOf(NextDep(i))!Shut) ~> done[i]
=============================================================================
