------------------------------ MODULE Process ------------------------------
(***************************************************************************)
(* One supervised process of gonner: the lifecycle Process.Run goes        *)
(* through (internal/runner/process.go), the callbacks execution.Service   *)
(* makes into it while a command runs, and the restart requests management *)
(* clients send it (internal/runner/control.go).                           *)
(*                                                                         *)
(* Service.Run appears as its callers see it: each of its steps is a step  *)
(* of LaunchContract, which module Execution implements.  A generation is  *)
(* the number of the launch attempt that drew it: the code draws a random  *)
(* nonce, which never repeats either.                                      *)
(***************************************************************************)
EXTENDS Integers

CONSTANTS
    MaxAttempts,    \* bound on launch attempts
    RetryLimits     \* values of maxRetries to consider; 0 means no limit

ASSUME BoundsAreNatural ==
    /\ MaxAttempts \in Nat \ {0}
    /\ RetryLimits \subseteq Nat

NoCall == -1

VARIABLES
    cfg,                \* the ProcessConfig, fixed in Init
    pc,                 \* control point of Process.Run
    step,               \* commandsBefore completed so far
    exec,               \* the command of the Service.Run call under way
    stopped,            \* has this call begun to stop its group (stopOnce)?
    stopErr,            \* has stopping it failed, which is reported at once?
    result,             \* the Result of the last Service.Run call
    attempt,            \* launch attempts so far: the generation last drawn
    retries,            \* the local variable retries
    state,              \* p.state
    hasPid,             \* p.pid # 0
    generation,         \* p.generation, 0 for ""
    previousGeneration, \* p.previousGeneration, 0 for ""
    previousReaped,     \* p.previousReaped
    restartRequested,   \* p.restartRequested
    generationStop,     \* launch whose channel p.generationStop is, 0 for nil
    launches,           \* p.launches
    restarts,           \* p.restarts
    ready,              \* is p.readyCh closed?
    request,            \* the one request to this launch: "none", "sent" or "taken"
    held,               \* a descendant outside the group holds the output pipes
    ctx,                \* is the manager's context done?
    shuttingDown,       \* Manager.shuttingDown
    call,               \* generation named by a Manager.Restart call in progress
    accepted            \* history: generations whose restart was accepted

runVars   == <<pc, step, attempt, retries>>
execVars  == <<exec, stopped, stopErr, result>>
genVars   == <<generation, previousGeneration, previousReaped, generationStop>>
countVars == <<launches, restarts, ready>>
envVars   == <<ctx, shuttingDown, call, accepted, held>>
vars == <<cfg, runVars, execVars, state, hasPid, genVars, restartRequested,
          countVars, request, envVars>>

States == {"pending", "starting", "running", "stopping", "stopped", "failed"}

\* The call of Service.Run under way, as its contract has it.
Call == INSTANCE LaunchContract WITH
    phase <- exec,
    taken <- pc = "main" /\ request = "taken",
    confirm <- pc = "main" /\ cfg.controllable

Results == Call!Results

\* What config.Validate lets through (validation.go:99-104), as far as the
\* lifecycle depends on it; "before" is the commandsBefore list.
Configs ==
    {c \in [controllable : BOOLEAN, critical : BOOLEAN, autoRestart : BOOLEAN,
            restartOnSuccess : BOOLEAN, maxRetries : RetryLimits,
            before : {"none", "strict", "continueOnError"}] :
        /\ c.restartOnSuccess => c.autoRestart
        /\ c.controllable => c.autoRestart /\ ~c.critical}

Steps == IF cfg.before = "none" THEN 0 ELSE 1

TypeOK ==
    /\ cfg \in Configs
    /\ pc \in {"new", "before", "loop", "main", "decide", "backoff", "done"}
    /\ step \in 0..1
    /\ exec \in {"idle", "forked", "live", "exited"}
    /\ stopped \in BOOLEAN
    /\ stopErr \in BOOLEAN
    /\ result \in Results
    /\ attempt \in 0..MaxAttempts
    /\ retries \in 0..MaxAttempts
    /\ state \in States
    /\ hasPid \in BOOLEAN
    /\ generation \in 0..MaxAttempts
    /\ previousGeneration \in 0..MaxAttempts
    /\ previousReaped \in BOOLEAN
    /\ restartRequested \in BOOLEAN
    /\ generationStop \in 0..MaxAttempts
    /\ launches \in 0..MaxAttempts
    /\ restarts \in 0..(MaxAttempts - 1)
    /\ ready \in BOOLEAN
    /\ request \in {"none", "sent", "taken"}
    /\ held \in BOOLEAN
    /\ ctx \in BOOLEAN
    /\ shuttingDown \in BOOLEAN
    /\ call \in {NoCall} \cup 0..MaxAttempts
    /\ accepted \in SUBSET (1..MaxAttempts)

Init ==
    /\ cfg \in Configs
    /\ pc = "new"
    /\ step = 0
    /\ Call!Init
    /\ attempt = 0
    /\ retries = 0
    /\ state = "pending"
    /\ hasPid = FALSE
    /\ generation = 0
    /\ previousGeneration = 0
    /\ previousReaped = FALSE
    /\ restartRequested = FALSE
    /\ generationStop = 0
    /\ launches = 0
    /\ restarts = 0
    /\ ready = FALSE
    /\ request = "none"
    /\ held = FALSE
    /\ ctx = FALSE
    /\ shuttingDown = FALSE
    /\ call = NoCall
    /\ accepted = {}

(***************************************************************************)
(* How Process.Run ends.  The deferred doneOnce closes Done, which is pc = *)
(* "done".                                                                 *)
(***************************************************************************)
Finish(s) ==
    /\ state' = s
    /\ pc' = "done"

\* p.fail: a critical process cancels the manager's context.
Fail ==
    /\ Finish("failed")
    /\ ctx' = (ctx \/ cfg.critical)

Quit ==
    /\ Finish("stopped")
    /\ UNCHANGED ctx

Continue(next) ==
    /\ pc' = next
    /\ state' = "starting"
    /\ UNCHANGED ctx

-----------------------------------------------------------------------------
(* Process.Run before the first launch *)

\* prepare may reject the credential or the log file.
Begin ==
    /\ pc = "new"
    /\ Fail \/ Continue("before")
    /\ UNCHANGED <<cfg, step, attempt, retries, execVars, hasPid, genVars,
                   restartRequested, countVars, request, shuttingDown, call, accepted, held>>

\* The loop of runCommandsBefore between two commands.
BeforeNext ==
    /\ pc = "before"
    /\ exec = "idle"
    /\ \/ step = Steps /\ pc' = "loop" /\ UNCHANGED state
       \/ step < Steps /\ ctx /\ Finish("stopped")
    /\ UNCHANGED <<cfg, step, attempt, retries, execVars, hasPid, genVars,
                   restartRequested, countVars, request, envVars>>

\* A commandsBefore command has returned: line 262 and, for an error that
\* leaves the loop, line 154.
AfterBefore(r) ==
    LET fatal == r.cancelled \/ r.supervisor \/ (~r.ok /\ cfg.before = "strict")
    IN  \/ /\ fatal
           /\ IF r.supervisor \/ ~r.cancelled THEN Fail ELSE Quit
           /\ UNCHANGED step
        \/ /\ ~fatal
           /\ step' = step + 1
           /\ UNCHANGED <<pc, state, ctx>>

-----------------------------------------------------------------------------
(* The launch loop *)

\* Every launch makes a channel of its own for StopRequest.
OldChannel == UNCHANGED request
FreshChannel == request' = "none"

\* The head of the loop.
Launch ==
    /\ pc = "loop"
    /\ \/ ctx /\ Quit /\ UNCHANGED <<attempt, request>>
       \/ /\ ~ctx
          /\ attempt < MaxAttempts
          /\ attempt' = attempt + 1
          /\ FreshChannel
          /\ Continue("main")
    /\ UNCHANGED <<cfg, step, retries, execVars, hasPid, genVars, restartRequested,
                   countVars, shuttingDown, call, accepted, held>>

\* A clean exit ends the process, unless it is configured to start again or
\* a client has asked for a new generation.
CleanEndAlways == result.ok /\ ~cfg.restartOnSuccess
CleanEnd == result.ok /\ ~cfg.restartOnSuccess /\ ~restartRequested

NoMoreRetriesLate ==
    cfg.critical \/ ~cfg.autoRestart \/ (cfg.maxRetries > 0 /\ retries > cfg.maxRetries)
NoMoreRetries ==
    cfg.critical \/ ~cfg.autoRestart \/ (cfg.maxRetries > 0 /\ retries >= cfg.maxRetries)

\* What to do with the Result of a launch.
Decide ==
    /\ pc = "decide"
    /\ \/ result.supervisor /\ Fail
       \/ ~result.supervisor /\ result.cancelled /\ Quit
       \/ /\ ~result.supervisor /\ ~result.cancelled
          /\ \/ CleanEnd /\ Quit
             \/ ~CleanEnd /\ NoMoreRetries /\ Fail
             \/ ~CleanEnd /\ ~NoMoreRetries /\ Continue("backoff")
    /\ UNCHANGED <<cfg, step, attempt, retries, execVars, hasPid, genVars,
                   restartRequested, countVars, request, shuttingDown, call, accepted, held>>

\* backoff.Wait: the delay passes, or the context is done first.
Backoff ==
    /\ pc = "backoff"
    /\ \/ retries' = retries + 1 /\ pc' = "loop" /\ UNCHANGED state
       \/ ctx /\ Finish("stopped") /\ UNCHANGED retries
    /\ UNCHANGED <<cfg, step, attempt, execVars, hasPid, genVars,
                   restartRequested, countVars, request, envVars>>

-----------------------------------------------------------------------------
(* Service.Run and its callbacks; pc says for which command *)

MayRun == pc = "main" \/ (pc = "before" /\ step < Steps)

ExecStart ==
    /\ MayRun
    /\ Call!Start
    /\ UNCHANGED <<cfg, runVars, state, hasPid, genVars, restartRequested,
                   countVars, request, envVars>>

CountEveryLaunch == restarts' = restarts + 1
CountRestart == restarts' = IF launches > 0 THEN restarts + 1 ELSE restarts

\* OnStart of a launch (process.go:179), and of a commandsBefore command (258).
OnStart ==
    /\ Call!OnStart
    /\ hasPid' = TRUE
    /\ IF pc = "main"
       THEN /\ generation' = attempt
            /\ generationStop' = attempt
            /\ restartRequested' = FALSE
            /\ CountRestart
            /\ launches' = launches + 1
            /\ state' = "running"
            /\ ready' = TRUE
       ELSE UNCHANGED <<generation, generationStop, restartRequested, countVars, state>>
    /\ UNCHANGED <<cfg, runVars, previousGeneration, previousReaped, request, envVars>>

\* The watcher takes the request.  Once the child has been waited for, it may
\* never do so: its select finds the context or the end of the watch, too.
TakeRequest ==
    /\ pc = "main"
    /\ exec \in {"live", "exited"}
    /\ request = "sent"
    /\ request' = "taken"
    /\ UNCHANGED <<cfg, runVars, execVars, state, hasPid, genVars, restartRequested,
                   countVars, envVars>>

\* Whoever begins to stop the group calls OnStop, which is markStopping: the
\* watcher, woken by the context or a request, or the main goroutine after
\* OnExit, when there is no pid any more.
OnStop ==
    /\ Call!OnStop
    /\ state' = IF hasPid THEN "stopping" ELSE state
    /\ UNCHANGED <<cfg, runVars, hasPid, genVars, restartRequested, countVars, request,
                   envVars>>

StopFails ==
    /\ Call!StopFails
    /\ UNCHANGED <<cfg, runVars, state, hasPid, genVars, restartRequested, countVars,
                   request, envVars>>

ExitKeepsState == UNCHANGED state
ExitState == state' = IF pc = "main" THEN "stopping" ELSE "starting"

\* The child is dead and cmd.Wait returns: process.go:194 and 259.
OnExit ==
    /\ Call!OnExit
    /\ hasPid' = FALSE
    /\ ExitState
    /\ UNCHANGED <<cfg, runVars, genVars, restartRequested, countVars, request, envVars>>

\* The group is stopped, output drained, or its pipes closed, and the watcher
\* joined; Service.Run returns, and a launch publishes what became of it (process.go:203-210).
ExecReturn ==
    /\ Call!Return
    /\ IF pc = "main"
       THEN /\ previousGeneration' = attempt
            /\ previousReaped' = result'.reaped
            /\ generationStop' = 0
            /\ state' = "stopped"
            /\ pc' = "decide"
            /\ UNCHANGED <<step, ctx>>
       ELSE /\ AfterBefore(result')
            /\ UNCHANGED <<previousGeneration, previousReaped, generationStop>>
    /\ held' = FALSE
    /\ UNCHANGED <<cfg, attempt, retries, hasPid, generation, restartRequested,
                   countVars, request, shuttingDown, call, accepted>>

\* Service.Run returns without having started anything.
ExecRefused ==
    /\ MayRun
    /\ Call!Refuse
    /\ IF pc = "main"
       THEN /\ generationStop' = 0
            /\ state' = "stopped"
            /\ pc' = "decide"
            /\ UNCHANGED <<step, ctx>>
       ELSE AfterBefore(result') /\ UNCHANGED generationStop
    /\ UNCHANGED <<cfg, attempt, retries, hasPid, generation, previousGeneration,
                   previousReaped, restartRequested, countVars, request, shuttingDown,
                   call, accepted, held>>

\* A descendant of the command leaves the group and keeps the output pipes
\* open, until it ends.
Hold ==
    /\ exec \in {"live", "exited"}
    /\ held' = ~held
    /\ UNCHANGED <<cfg, runVars, execVars, state, hasPid, genVars, restartRequested,
                   countVars, request, ctx, shuttingDown, call, accepted>>

-----------------------------------------------------------------------------
(* The manager and the management clients *)

\* A signal, or another process, cancels the manager's context.
Cancel ==
    /\ ~ctx
    /\ ctx' = TRUE
    /\ UNCHANGED <<cfg, runVars, execVars, state, hasPid, genVars, restartRequested,
                   countVars, request, shuttingDown, call, accepted, held>>

\* context.AfterFunc runs in a goroutine of its own, after the cancellation.
NoteShutdown ==
    /\ ctx
    /\ ~shuttingDown
    /\ shuttingDown' = TRUE
    /\ UNCHANGED <<cfg, runVars, execVars, state, hasPid, genVars, restartRequested,
                   countVars, request, ctx, call, accepted, held>>

\* Manager.Restart has looked at shuttingDown; p.restart comes later.  A client
\* names a generation it has read, which by then may be an old one.
RestartCall(g) ==
    /\ call = NoCall
    /\ ~shuttingDown
    /\ call' = g
    /\ UNCHANGED <<cfg, runVars, execVars, state, hasPid, genVars, restartRequested,
                   countVars, request, ctx, shuttingDown, accepted, held>>

Restartable == state = "running" /\ hasPid /\ generationStop # 0

NamesCurrent(g) == cfg.controllable /\ g # 0 /\ g = generation

\* p.restart under p.mu; a refusal or a repeated request changes nothing.
Restart ==
    /\ call # NoCall
    /\ call' = NoCall
    /\ IF NamesCurrent(call) /\ ~restartRequested /\ Restartable
       THEN /\ restartRequested' = TRUE
            /\ state' = "stopping"
            /\ request' = "sent"
            /\ accepted' = accepted \cup {call}
       ELSE UNCHANGED <<restartRequested, state, request, accepted>>
    /\ UNCHANGED <<cfg, runVars, execVars, hasPid, genVars, countVars, ctx, shuttingDown,
                   held>>

Lifecycle ==
    \/ Begin
    \/ BeforeNext
    \/ Launch
    \/ Decide
    \/ Backoff
    \/ ExecStart
    \/ OnStart
    \/ ExecReturn
    \/ ExecRefused

Next ==
    \/ Lifecycle
    \/ TakeRequest
    \/ OnStop
    \/ StopFails
    \/ OnExit
    \/ Hold
    \/ Cancel
    \/ NoteShutdown
    \/ \E g \in 0..generation : RestartCall(g)
    \/ Restart

(***************************************************************************)
(* Fairness.  Goroutines run; backoff delays pass; while the command runs  *)
(* and nothing else has woken the watcher it takes the request, which it   *)
(* need not do any more after the exit.  A child may run for ever, but not *)
(* once its group is being stopped: after the stop timeout it is sent      *)
(* SIGKILL, unless stopGroup has failed, and that failure is reported to   *)
(* the manager, which cancels its context (ReportShutsDown of Manager).    *)
(* Service.Run returns from a command that is dead when Drained lets it:   *)
(* nothing makes a descendant give the output pipes back.                  *)
(***************************************************************************)
Fairness ==
    /\ WF_vars(Lifecycle)
    /\ WF_vars(exec = "live" /\ ~ctx /\ TakeRequest)
    /\ WF_vars(OnStop)
    /\ WF_vars(stopped /\ ~stopErr /\ OnExit)
    /\ WF_vars(stopErr /\ Cancel)

Spec == Init /\ [][Next]_vars

FairSpec == Spec /\ Fairness

-----------------------------------------------------------------------------
(* Properties *)

\* "A stale generation can never stop a replacement" (docs/management.md): a
\* stop request waiting for a launch was made by a client that named the
\* generation of that very launch.
StaleRequestNeverStops == request # "none" /\ pc = "main" => attempt \in accepted

\* "A new generation is never started for a controllable process if that check
\* fails" (docs/management.md): when a generation replaces another, the group
\* of the one before it has been seen to disappear.
ReplacementAfterReap ==
    [][cfg.controllable /\ generation # 0 /\ generation' # generation
        => previousReaped /\ previousGeneration = generation]_vars

\* What the status queries of module Status are told is the documented life of
\* a process: it is running only between a launch and its exit, restarts counts
\* every launch but the first, and when Done is closed nothing changes any more,
\* whatever callback or request comes late.
Published == INSTANCE PublishedState WITH
    Insts <- {0},
    state <- [i \in {0} |-> state],
    started <- [i \in {0} |-> ready],
    restarts <- [i \in {0} |-> restarts],
    over <- [i \in {0} |-> pc = "done"]

ImplementsPublishedState == Published!Spec

\* The retry budget counts launch attempts, whether a failure, a clean exit or
\* a client asked for them; restarts counts only successful launches after the
\* first (process.go:236).
RetryBudget ==
    /\ cfg.maxRetries > 0 => attempt <= cfg.maxRetries + 1
    /\ cfg.critical \/ ~cfg.autoRestart => attempt <= 1
    /\ restarts = IF launches = 0 THEN 0 ELSE launches - 1
    /\ launches <= attempt

\* What /ready and the management API call running is a command under the
\* current generation that still has a pid, and that a client can stop.
RunningIsCurrent ==
    state = "running" => /\ hasPid
                         /\ pc = "main" /\ exec = "live"
                         /\ generation = attempt
                         /\ generationStop = attempt

\* The watcher was woken by the end of the watch instead of the request
\* (service.go:181), so nothing bounds the wait for the output that a
\* descendant keeps open: the case of RequestReturns in module Execution.
Stranded == exec = "exited" /\ held /\ request = "sent"

\* The command runs on although stopGroup, which failed, is not tried again.
Unstoppable == exec = "live" /\ stopErr

\* An accepted restart leads to a new generation, unless shutdown, a failure
\* that ends the process, or the bound on attempts comes first.  A clean exit
\* that races the request does not make it forgotten (process.go:219).  But it
\* may leave the process stranded, and as long as it is, the restart does not
\* come about, against service.go:154.
RestartHonoured ==
    <>[]~Stranded =>
        \A g \in 1..MaxAttempts :
            (g \in accepted) ~> \/ generation > g
                                \/ ctx
                                \/ state = "failed"
                                \/ attempt = MaxAttempts /\ pc = "loop"

\* Cancelling the manager's context ends the process, wherever it is, also when
\* a descendant holds its output; but not while its command cannot be stopped.
CancelEnds == <>[]~Unstoppable => (ctx ~> pc = "done")
=============================================================================
