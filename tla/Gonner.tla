------------------------------- MODULE Gonner -------------------------------
(***************************************************************************)
(* The run command (cmd/gonner/cmd/run.go): it starts the signal handler   *)
(* (module Signals), the management socket (internal/control/server.go),   *)
(* the health endpoint (internal/health/server.go) and the manager around  *)
(* one context, and takes them down again with deferred calls, last first, *)
(* from wherever it stops.                                                 *)
(*                                                                         *)
(* The manager appears as its callers see it: Run returns with or without  *)
(* an error, and does so once the context is done (module Manager).        *)
(***************************************************************************)
EXTENDS Signals

VARIABLES
    use,        \* the parts that are configured, fixed in Init
    main,       \* control point of runRun
    mgr,        \* Manager.Run: "off", "running", "ok" or "failed"
    control,    \* the management server: "off", "serving" or "closed"
    serve,      \* the goroutine of the health server that serves: "off",
                \* "serving", "failed" (its error is sent) or "ended" (errors
                \* and serveDone are closed)
    broke,      \* did it fail?
    shutdown,   \* the one that shuts it down: "off", "watch", "closing", "done"
    watch,      \* the one that reads its errors: "off", "wait" or "done"
    healthErr,  \* healthErr # nil
    pidFile,    \* the PID file: "none", "written", "partial" or "stuck"
    exit        \* what runRun returns: "none", "ok" or "failed"

healthVars == <<serve, broke, shutdown, watch, healthErr>>
runVars == <<use, main, mgr, control, healthVars, pidFile, exit>>
gonnerVars == <<vars, runVars>>
signalVars == <<sigCh, hpc, closed, forwards, sent>>

Parts == {"control", "health", "pidFile"}

GonnerTypeOK ==
    /\ TypeOK
    /\ use \in SUBSET Parts
    /\ main \in {"control", "health", "pidFile", "manager", "cancel", "join",
                 "undoPidFile", "undoHealth", "undoControl", "undoSignals",
                 "returned"}
    /\ mgr \in {"off", "running", "ok", "failed"}
    /\ control \in {"off", "serving", "closed"}
    /\ serve \in {"off", "serving", "failed", "ended"}
    /\ broke \in BOOLEAN
    /\ shutdown \in {"off", "watch", "closing", "done"}
    /\ watch \in {"off", "wait", "done"}
    /\ healthErr \in BOOLEAN
    /\ pidFile \in {"none", "written", "partial", "stuck"}
    /\ exit \in {"none", "ok", "failed"}

\* The configuration is valid; the handler has been created and started.
GonnerInit ==
    /\ SignalsInit
    /\ use \in SUBSET Parts
    /\ main = "control"
    /\ mgr = "off"
    /\ control = "off"
    /\ serve = "off"
    /\ broke = FALSE
    /\ shutdown = "off"
    /\ watch = "off"
    /\ healthErr = FALSE
    /\ pidFile = "none"
    /\ exit = "none"

-----------------------------------------------------------------------------
(* runRun *)

Goto(m) == main' = m

\* An error return: the deferred calls registered so far are made.
FailFrom(m) == exit' = "failed" /\ main' = m

StartControl ==
    /\ main = "control"
    /\ \/ "control" \notin use /\ Goto("health") /\ UNCHANGED <<control, exit>>
       \/ "control" \in use /\ control' = "serving" /\ Goto("health") /\ UNCHANGED exit
       \/ "control" \in use /\ FailFrom("undoSignals") /\ UNCHANGED control
    /\ UNCHANGED <<vars, use, mgr, healthVars, pidFile>>

\* Server.Start fails when the context is done, or for reasons of its own.
StartHealth ==
    /\ main = "health"
    /\ \/ "health" \notin use /\ Goto("pidFile") /\ UNCHANGED <<serve, shutdown, watch, exit>>
       \/ /\ "health" \in use
          /\ ~ctx
          /\ serve' = "serving"
          /\ shutdown' = "watch"
          /\ watch' = "wait"
          /\ Goto("pidFile")
          /\ UNCHANGED exit
       \/ "health" \in use /\ FailFrom("undoControl") /\ UNCHANGED <<serve, shutdown, watch>>
    /\ UNCHANGED <<vars, use, mgr, control, broke, healthErr, pidFile>>

\* A PID file that was opened and could not be written stays.
WritePidFile ==
    /\ main = "pidFile"
    /\ \/ "pidFile" \notin use /\ Goto("manager") /\ UNCHANGED <<pidFile, exit>>
       \/ "pidFile" \in use /\ pidFile' = "written" /\ Goto("manager") /\ UNCHANGED exit
       \/ "pidFile" \in use /\ pidFile' \in {"none", "partial"} /\ FailFrom("undoHealth")
    /\ UNCHANGED <<vars, use, mgr, control, healthVars>>

ManagerRuns ==
    /\ main = "manager"
    /\ mgr = "off"
    /\ mgr' = "running"
    /\ UNCHANGED <<vars, use, main, control, healthVars, pidFile, exit>>

ManagerReturns ==
    /\ mgr = "running"
    /\ mgr' \in {"ok", "failed"}
    /\ Goto("cancel")
    /\ UNCHANGED <<vars, use, control, healthVars, pidFile, exit>>

CancelAll ==
    /\ main = "cancel"
    /\ ctx' = TRUE
    /\ Goto("join")
    /\ UNCHANGED <<signalVars, use, mgr, control, healthVars, pidFile, exit>>

ReadEarly == TRUE
\* <-healthDone
HealthWatched == "health" \in use => watch = "done"

\* The error of the health server is read when its watcher is over.
JoinHealth ==
    /\ main = "join"
    /\ HealthWatched
    /\ exit' = IF mgr = "failed" \/ healthErr THEN "failed" ELSE "ok"
    /\ Goto("undoPidFile")
    /\ UNCHANGED <<vars, use, mgr, control, healthVars, pidFile>>

\* That the file cannot be removed is ignored.
UndoPidFile ==
    /\ main = "undoPidFile"
    /\ pidFile' \in IF pidFile = "none" THEN {"none"} ELSE {"none", "stuck"}
    /\ Goto("undoHealth")
    /\ UNCHANGED <<vars, use, mgr, control, healthVars, exit>>

JoinOnly == UNCHANGED ctx
CancelFirst == ctx' = (ctx \/ "health" \in use)

NobodyAwaited == TRUE
\* <-healthSrv.Done(), <-healthDone
HealthOver == "health" \in use => shutdown = "done" /\ watch = "done"

\* cancel, then wait for the endpoint to be over and for the watcher.
UndoHealth ==
    /\ main = "undoHealth"
    /\ CancelFirst
    /\ IF HealthOver
       THEN Goto("undoControl")
       ELSE ~ctx /\ UNCHANGED main
    /\ UNCHANGED <<signalVars, use, mgr, control, healthVars, pidFile, exit>>

UndoControl ==
    /\ main = "undoControl"
    /\ control' = IF control = "serving" THEN "closed" ELSE control
    /\ Goto("undoSignals")
    /\ UNCHANGED <<vars, use, mgr, healthVars, pidFile, exit>>

\* SignalHandler.Stop, then cancel.
UndoSignals ==
    /\ main = "undoSignals"
    /\ Stop
    /\ ctx' = TRUE
    /\ Goto("returned")
    /\ UNCHANGED <<use, mgr, control, healthVars, pidFile, exit>>

-----------------------------------------------------------------------------
(* The servers *)

\* The management server closes when the context is done, or by itself.
ControlCloses ==
    /\ control = "serving"
    /\ control' = "closed"
    /\ UNCHANGED <<vars, use, main, mgr, healthVars, pidFile, exit>>

\* Serve fails; its error goes to a channel with room for it.
ServeFails ==
    /\ serve = "serving"
    /\ shutdown = "watch"
    /\ serve' = "failed"
    /\ broke' = TRUE
    /\ UNCHANGED <<vars, use, main, mgr, control, shutdown, watch, healthErr, pidFile, exit>>

\* Serve returns because of Shutdown, or the goroutine ends after a failure.
ServeEnds ==
    /\ \/ serve = "serving" /\ shutdown = "closing"
       \/ serve = "failed"
    /\ serve' = "ended"
    /\ UNCHANGED <<vars, use, main, mgr, control, broke, shutdown, watch, healthErr, pidFile,
                   exit>>

ShutdownDue == ctx \/ serve = "ended"

\* ctx.Done or serveDone; then Shutdown, and Close when that takes too long.
ShutdownBegins ==
    /\ shutdown = "watch"
    /\ ShutdownDue
    /\ shutdown' = "closing"
    /\ UNCHANGED <<vars, use, main, mgr, control, serve, broke, watch, healthErr, pidFile, exit>>

ShutdownEnds ==
    /\ shutdown = "closing"
    /\ serve = "ended"
    /\ shutdown' = "done"
    /\ UNCHANGED <<vars, use, main, mgr, control, serve, broke, watch, healthErr, pidFile, exit>>

RecordOnly == UNCHANGED ctx
CancelOnError == ctx' = (ctx \/ healthErr')

\* The error, or that there is none because the channel was closed.
WatchReads ==
    /\ watch = "wait"
    /\ serve \in {"failed", "ended"}
    /\ healthErr' = broke
    /\ CancelOnError
    /\ watch' = "done"
    /\ UNCHANGED <<signalVars, use, main, mgr, control, serve, broke, shutdown, pidFile, exit>>

Main ==
    \/ StartControl
    \/ StartHealth
    \/ WritePidFile
    \/ ManagerRuns
    \/ CancelAll
    \/ JoinHealth
    \/ UndoPidFile
    \/ UndoHealth
    \/ UndoControl
    \/ UndoSignals

HealthServer ==
    \/ ServeEnds
    \/ ShutdownBegins
    \/ ShutdownEnds
    \/ WatchReads

GonnerNext ==
    \/ Main
    \/ ManagerReturns
    \/ HealthServer
    \/ ServeFails
    \/ ControlCloses
    \/ SignalStep /\ UNCHANGED runVars

(***************************************************************************)
(* Fairness.  Goroutines run; http.Server.Shutdown or Close ends Serve;    *)
(* the manager returns once the context is done (CancelReturns in module   *)
(* Manager).  Nothing makes it return before, and nothing makes a server   *)
(* fail.                                                                   *)
(***************************************************************************)
GonnerFairness ==
    /\ WF_gonnerVars(Main)
    /\ WF_gonnerVars(ServeEnds)
    /\ WF_gonnerVars(ShutdownBegins \/ ShutdownEnds)
    /\ WF_gonnerVars(WatchReads)
    /\ WF_gonnerVars(ctx /\ ManagerReturns)
    /\ WF_gonnerVars(ctx /\ ControlCloses)
    /\ WF_gonnerVars(Handler /\ UNCHANGED runVars)

GonnerSpec == GonnerInit /\ [][GonnerNext]_gonnerVars

GonnerFairSpec == GonnerSpec /\ GonnerFairness

-----------------------------------------------------------------------------
(* Properties *)

\* From wherever runRun returns, it has left nothing running that it started
\* and joins: the health endpoint and its watcher are over, the management
\* socket and the signal handler are closed, and the PID file it wrote is gone,
\* unless it could not be removed, which is tried once and no error.
NothingLeftRunning ==
    main = "returned" =>
        /\ serve \in {"off", "ended"}
        /\ shutdown \in {"off", "done"}
        /\ watch \in {"off", "done"}
        /\ control # "serving"
        /\ closed
        /\ mgr # "running"
        /\ pidFile # "written"

\* "gonner exits 1 if any permanent or supervisor failure was recorded"
\* (docs/architecture.md): an error of the manager or of the health endpoint
\* reaches the exit status, even when the endpoint breaks while the manager is
\* returning by itself.
FailureReachesExit ==
    main = "returned" /\ exit = "ok" => mgr = "ok" /\ ~broke

\* A shutdown signal in the handler's channel, behind however many signals to
\* forward, ends gonner, in whatever state of its startup it finds it.
QueuedShutdownEnds ==
    (\E k \in 1..Len(sigCh) : sigCh[k] \in Shutdown) ~> main = "returned"

\* So does a health endpoint that stops serving, and so does an error return,
\* which joins the goroutines started before it without waiting for a signal.
FailureEnds == broke \/ exit = "failed" ~> main = "returned"

\* "Shutting down: 503 Service Unavailable with shutting_down"
\* (docs/operations.md:14): while the processes are being shut down, the health
\* endpoint is there to say so.
HealthAnswersShutdown ==
    mgr = "running" /\ "health" \in use /\ ctx /\ ~broke => serve = "serving"
=============================================================================
