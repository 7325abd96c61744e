----------------------------- MODULE Execution -----------------------------
(***************************************************************************)
(* One call of execution.Service.Run (internal/execution/service.go): the  *)
(* goroutine that starts the child and waits for it, the watcher goroutine *)
(* that turns a cancelled context or a stop request into a group shutdown, *)
(* and the end of output drainage.                                         *)
(*                                                                         *)
(* The child leads a process group.  The mate is a descendant that stays   *)
(* in the group; an escaped descendant has left it (setsid) but keeps the  *)
(* output pipes open, and no signal sent to the group reaches it.  Time is *)
(* only the freedom of timers to fire.  The registry lock around Start and *)
(* the deletion of the registry entry are in module Reaper.                *)
(***************************************************************************)
EXTENDS Naturals

VARIABLES
    confirm,    \* Spec.ConfirmReaped, fixed in Init
    leader,     \* the child
    mate,       \* a descendant in the child's group
    escaped,    \* an escaped descendant holds the pipes open
    killed,     \* SIGKILL has been sent to the group
    ctx,        \* is the context done?
    request,    \* the one request to this launch: "none", "sent" or "taken"
    pc,         \* control point of Run
    wpc,        \* control point of the watcher goroutine
    once,       \* stopOnce: "new", the goroutine that runs it, or "done"
    grp,        \* progress of the stopGroup call inside stopOnce
    stopErr,    \* stopErr # nil
    onStop,     \* calls of OnStop
    cutShort,   \* cancelDrain has been called; drainCtx is also done with ctx
    deadline,   \* shutdownDeadline: "none", "sent" or "used"
    drain,      \* output: "open", "eof", or "cut" when the pipes were closed
    limit,      \* what bounded the drain: "none", "given" or "fresh"
    result      \* the Result

groupVars == <<leader, mate, escaped, killed>>
stopVars  == <<once, grp, stopErr, onStop>>
drainVars == <<cutShort, deadline, drain, limit>>
vars == <<confirm, groupVars, ctx, request, pc, wpc, stopVars, drainVars, result>>

Callers == {"main", "watcher"}

Results == [started : BOOLEAN, cancelled : BOOLEAN, ok : BOOLEAN,
            supervisor : BOOLEAN, reaped : BOOLEAN]

TypeOK ==
    /\ confirm \in BOOLEAN
    /\ leader \in {"unborn", "live", "zombie", "gone"}
    /\ mate \in {"none", "live", "zombie", "gone"}
    /\ escaped \in BOOLEAN
    /\ killed \in BOOLEAN
    /\ ctx \in BOOLEAN
    /\ request \in {"none", "sent", "taken"}
    /\ pc \in {"start", "forked", "wait", "stop", "join", "drain", "bounded",
               "confirm", "done"}
    /\ wpc \in {"off", "new", "parked", "woken", "stop", "exited"}
    /\ once \in {"new", "done"} \cup Callers
    /\ grp \in {"idle", "signal", "poll", "tick"}
    /\ stopErr \in BOOLEAN
    /\ onStop \in 0..2
    /\ cutShort \in BOOLEAN
    /\ deadline \in {"none", "sent", "used"}
    /\ drain \in {"open", "eof", "cut"}
    /\ limit \in {"none", "given", "fresh"}
    /\ result \in Results

Init ==
    /\ confirm \in BOOLEAN
    /\ leader = "unborn"
    /\ mate = "none"
    /\ escaped = FALSE
    /\ killed = FALSE
    /\ ctx \in BOOLEAN
    /\ request = "none"
    /\ pc = "start"
    /\ wpc = "off"
    /\ once = "new"
    /\ grp = "idle"
    /\ stopErr = FALSE
    /\ onStop = 0
    /\ cutShort = FALSE
    /\ deadline = "none"
    /\ drain = "open"
    /\ limit = "none"
    /\ result = [started |-> FALSE, cancelled |-> FALSE, ok |-> FALSE,
                 supervisor |-> FALSE, reaped |-> FALSE]

-----------------------------------------------------------------------------
(* The process group, as the kernel and PID 1 run it *)

NoLiveMember == leader # "live" /\ mate # "live"
GroupGone == leader = "gone" /\ mate \in {"none", "gone"}

\* A member of the group forks; its child stays in the group or leaves it.
Spawn ==
    /\ ~NoLiveMember
    /\ ~killed
    /\ \/ mate = "none" /\ mate' = "live" /\ UNCHANGED escaped
       \/ ~escaped /\ escaped' = TRUE /\ UNCHANGED mate
    /\ UNCHANGED <<confirm, leader, killed, ctx, request, pc, wpc, stopVars,
                   drainVars, result>>

MemberDies ==
    /\ \/ leader = "live" /\ leader' = "zombie" /\ UNCHANGED mate
       \/ mate = "live" /\ mate' = "zombie" /\ UNCHANGED leader
    /\ UNCHANGED <<confirm, escaped, killed, ctx, request, pc, wpc, stopVars,
                   drainVars, result>>

\* By its parent, or by the reaper once its parent is dead.
MateReaped ==
    /\ mate = "zombie"
    /\ mate' = "gone"
    /\ UNCHANGED <<confirm, leader, escaped, killed, ctx, request, pc, wpc, stopVars,
                   drainVars, result>>

EscapedEnds ==
    /\ escaped
    /\ escaped' = FALSE
    /\ UNCHANGED <<confirm, leader, mate, killed, ctx, request, pc, wpc, stopVars,
                   drainVars, result>>

\* The Output callbacks read both pipes to their end.
OutputEnds ==
    /\ pc \notin {"start", "forked"}
    /\ drain = "open"
    /\ NoLiveMember
    /\ ~escaped
    /\ drain' = "eof"
    /\ UNCHANGED <<confirm, groupVars, ctx, request, pc, wpc, stopVars, cutShort,
                   deadline, limit, result>>

-----------------------------------------------------------------------------
(* The callers of Run *)

\* A goroutine parked in a select is woken by the first case that gets ready.
Cancel ==
    /\ ~ctx
    /\ ctx' = TRUE
    /\ wpc' = IF wpc = "parked" THEN "woken" ELSE wpc
    /\ UNCHANGED <<confirm, groupVars, request, pc, stopVars, drainVars, result>>

\* Process.restart accepts a request between OnStart and OnExit, and not after
\* OnStop has moved the process out of "running".
SendRequest ==
    /\ request = "none"
    /\ pc = "wait"
    /\ onStop = 0
    /\ IF wpc = "parked"
       THEN request' = "taken" /\ wpc' = "woken"
       ELSE request' = "sent" /\ UNCHANGED wpc
    /\ UNCHANGED <<confirm, groupVars, ctx, pc, stopVars, drainVars, result>>

-----------------------------------------------------------------------------
(* stop: the closure shared by the watcher and the main goroutine *)

FirstCallStops(c) == once = "new"

Calling(c) == IF c = "main" THEN pc = "stop" ELSE wpc = "stop"

\* stopOnce.Do: OnStop, then stopGroup.
StopBegins(c) ==
    /\ Calling(c)
    /\ FirstCallStops(c)
    /\ once' = c
    /\ grp' = "signal"
    /\ onStop' = onStop + 1
    /\ UNCHANGED <<confirm, groupVars, ctx, request, pc, wpc, stopErr, drainVars, result>>

\* SignalGroup(StopSignal).  A group that is gone is no error; one that cannot
\* be signalled is, and the error is reported and ends the call.
StopSignals(c) ==
    /\ once = c
    /\ grp = "signal"
    /\ \/ grp' = "poll" /\ UNCHANGED <<once, stopErr>>
       \/ ~GroupGone /\ grp' = "idle" /\ once' = "done" /\ stopErr' = TRUE
    /\ UNCHANGED <<confirm, groupVars, ctx, request, pc, wpc, onStop, drainVars, result>>

\* groupAlive, which does not count zombies and may fail.
StopPolls(c) ==
    /\ once = c
    /\ grp = "poll"
    /\ \/ ~NoLiveMember /\ grp' = "tick" /\ UNCHANGED <<once, stopErr>>
       \/ NoLiveMember /\ grp' = "idle" /\ once' = "done" /\ UNCHANGED stopErr
       \/ ~GroupGone /\ grp' = "idle" /\ once' = "done" /\ stopErr' = TRUE
    /\ UNCHANGED <<confirm, groupVars, ctx, request, pc, wpc, onStop, drainVars, result>>

StopTicks(c) ==
    /\ once = c
    /\ grp = "tick"
    /\ grp' = "poll"
    /\ UNCHANGED <<confirm, groupVars, ctx, request, pc, wpc, once, stopErr, onStop,
                   drainVars, result>>

SignalAgain == UNCHANGED <<killed, stopErr>>
\* The error of the second SignalGroup is that of stopGroup, too.
SendKill ==
    \/ killed' = TRUE /\ UNCHANGED stopErr
    \/ ~GroupGone /\ stopErr' = TRUE /\ UNCHANGED killed

\* The grace period is over: SIGKILL, whose success is not awaited.
StopTimesOut(c) ==
    /\ once = c
    /\ grp = "tick"
    /\ SendKill
    /\ grp' = "idle"
    /\ once' = "done"
    /\ UNCHANGED <<confirm, leader, mate, escaped, ctx, request, pc, wpc, onStop,
                   drainVars, result>>

Stopping(c) ==
    \/ StopBegins(c)
    \/ StopSignals(c)
    \/ StopPolls(c)
    \/ StopTicks(c)
    \/ StopTimesOut(c)

-----------------------------------------------------------------------------
(* The watcher goroutine *)

WatchClosed == pc \in {"join", "drain", "bounded", "confirm", "done"}

OnlyRequestReady == FALSE
ContextReady == ctx

\* The watcher reaches its select: it takes any case that is ready.
WatchSelect ==
    /\ wpc = "new"
    /\ \/ ContextReady /\ wpc' = "woken" /\ UNCHANGED request
       \/ request = "sent" /\ request' = "taken" /\ wpc' = "woken"
       \/ WatchClosed /\ wpc' = "exited" /\ UNCHANGED request
       \/ /\ ~ContextReady /\ request # "sent" /\ ~WatchClosed
          /\ wpc' = "parked"
          /\ UNCHANGED request
    /\ UNCHANGED <<confirm, groupVars, ctx, pc, stopVars, drainVars, result>>

\* interruptOnce: hand over the deadline, then cancel the drain.
WatchInterrupts ==
    /\ wpc = "woken"
    /\ deadline' = "sent"
    /\ cutShort' = TRUE
    /\ wpc' = "stop"
    /\ UNCHANGED <<confirm, groupVars, ctx, request, pc, stopVars, drain, limit, result>>

\* stop returns once stopOnce has been done, by whomever.
WatchEnds ==
    /\ wpc = "stop"
    /\ once = "done"
    /\ wpc' = "exited"
    /\ UNCHANGED <<confirm, groupVars, ctx, request, pc, stopVars, drainVars, result>>

-----------------------------------------------------------------------------
(* Run itself *)

\* The context is done before the start, or the start fails.
Refuse ==
    /\ pc = "start"
    /\ pc' = "done"
    /\ result' \in {[result EXCEPT !.cancelled = c] : c \in {FALSE, ctx}}
    /\ UNCHANGED <<confirm, groupVars, ctx, request, wpc, stopVars, drainVars>>

\* ctx.Err is checked again under the registry lock.
Start ==
    /\ pc = "start"
    /\ ~ctx
    /\ leader' = "live"
    /\ result' = [result EXCEPT !.started = TRUE]
    /\ pc' = "forked"
    /\ UNCHANGED <<confirm, mate, escaped, killed, ctx, request, wpc, stopVars,
                   drainVars>>

\* OnStart, then the output and watcher goroutines are created.
OnStart ==
    /\ pc = "forked"
    /\ pc' = "wait"
    /\ wpc' = "new"
    /\ UNCHANGED <<confirm, groupVars, ctx, request, stopVars, drainVars, result>>

\* cmd.Wait reaps the child; the context is sampled; OnExit is called.
Wait ==
    /\ pc = "wait"
    /\ leader = "zombie"
    /\ leader' = "gone"
    /\ \E ok \in BOOLEAN :
         result' = [result EXCEPT !.cancelled = ctx, !.ok = ok]
    /\ pc' = "stop"
    /\ UNCHANGED <<confirm, mate, escaped, killed, ctx, request, wpc, stopVars, drainVars>>

StopNotNeeded == TRUE
StopDone == once = "done"

\* After stop(StopTimeout, false), close(watchDone).
CloseWatch ==
    /\ pc = "stop"
    /\ StopDone
    /\ pc' = "join"
    /\ wpc' = IF wpc = "parked" THEN "exited" ELSE wpc
    /\ UNCHANGED <<confirm, groupVars, ctx, request, stopVars, drainVars, result>>

NoJoin == TRUE
WatcherJoined == wpc = "exited"

Join ==
    /\ pc = "join"
    /\ WatcherJoined
    /\ pc' = "drain"
    /\ UNCHANGED <<confirm, groupVars, ctx, request, wpc, stopVars, drainVars, result>>

DrainOnRequest == cutShort
DrainCancelled == ctx \/ cutShort

\* The outer select: output is complete, or the wait for it becomes bounded by
\* the deadline of the interruption, if there was one, else by a new one.
Drain ==
    /\ pc = "drain"
    /\ \/ drain = "eof" /\ pc' = "confirm" /\ UNCHANGED <<deadline, limit>>
       \/ /\ DrainCancelled
          /\ pc' = "bounded"
          /\ IF deadline = "sent"
             THEN limit' = "given" /\ deadline' = "used"
             ELSE limit' = "fresh" /\ UNCHANGED deadline
    /\ UNCHANGED <<confirm, groupVars, ctx, request, wpc, stopVars, cutShort, drain, result>>

\* The inner select: output is complete, or the timer closes the pipes.
DrainBounded ==
    /\ pc = "bounded"
    /\ pc' = "confirm"
    /\ \/ drain = "eof" /\ UNCHANGED drain
       \/ drain' = IF drain = "open" THEN "cut" ELSE drain
    /\ UNCHANGED <<confirm, groupVars, ctx, request, wpc, stopVars, cutShort, deadline,
                   limit, result>>

ConfirmNoLive == NoLiveMember
Confirmed == GroupGone

CancelledNow == ctx
CancelledThen == result.cancelled

\* waitGroupGone, then the errors are put together: those of stopGroup, of an
\* unconfirmed group, and of the output, which only an unclosed pipe can have.
Return ==
    /\ pc = "confirm"
    /\ pc' = "done"
    /\ \E outputErr \in {FALSE, drain = "eof"} :
         result' = [result EXCEPT
            !.cancelled  = CancelledThen,
            !.reaped     = confirm /\ Confirmed,
            !.supervisor = stopErr \/ outputErr \/ (confirm /\ ~Confirmed)]
    /\ UNCHANGED <<confirm, groupVars, ctx, request, wpc, stopVars, drainVars>>

Main ==
    \/ Refuse
    \/ Start
    \/ OnStart
    \/ Wait
    \/ CloseWatch
    \/ Join
    \/ Drain
    \/ DrainBounded
    \/ Return

Watcher ==
    \/ WatchSelect
    \/ WatchInterrupts
    \/ WatchEnds

Group ==
    \/ Spawn
    \/ MemberDies
    \/ MateReaped
    \/ EscapedEnds

Next ==
    \/ Main
    \/ Watcher
    \/ \E c \in Callers : Stopping(c)
    \/ OutputEnds
    \/ Cancel
    \/ SendRequest
    \/ Group

(***************************************************************************)
(* Fairness.  Goroutines run and timers fire; the stop deadline is one of  *)
(* two cases of a select that the ticker makes ready over and over, hence  *)
(* strong fairness.  SIGKILL is effective; a dead member of the group is   *)
(* reaped (module Reaper).  Children and escaped descendants are free to   *)
(* run for ever.                                                           *)
(***************************************************************************)
Fairness ==
    /\ WF_vars(Main)
    /\ WF_vars(Watcher)
    /\ \A c \in Callers :
         /\ WF_vars(Stopping(c))
         /\ SF_vars(StopTimesOut(c))
    /\ WF_vars(OutputEnds)
    /\ WF_vars(killed /\ MemberDies)
    /\ WF_vars(MateReaped)

Spec == Init /\ [][Next]_vars

FairSpec == Spec /\ Fairness

-----------------------------------------------------------------------------
(* Properties *)

\* Two goroutines may decide to stop the group, at any moment each, and OnStop
\* is called once.  "Any descendants left in that group when a command exits
\* normally are also stopped before the lifecycle advances"
\* (docs/architecture.md): when Run returns, every member of the group is dead
\* or has been sent SIGKILL, unless the group could not be signalled, which is
\* then an error.  Result.Reaped says more, and it stays true: no member is
\* left, zombies included, so that a replacement may start (service.go:279).
GroupStoppedAtReturn ==
    /\ onStop <= 1
    /\ pc = "done" /\ result.started =>
         /\ onStop = 1
         /\ \/ NoLiveMember
            \/ killed
            \/ stopErr /\ result.supervisor
         /\ result.reaped => GroupGone

\* "Ordinary completion always drains to EOF" (service.go:207): output is
\* truncated only when the run was cancelled or asked to stop.  And there is
\* one grace period, not two: when the watcher has set a deadline, that is the
\* one the drain is given, never a fresh one counted from the child's exit.
DrainBoundIsDue ==
    /\ drain = "cut" => ctx \/ request = "taken"
    /\ limit = "fresh" => deadline = "none"

\* What callers see of Run: the phases of LaunchContract.
Contract == INSTANCE LaunchContract WITH
    phase <- CASE pc \in {"start", "done"} -> "idle"
               [] pc = "forked" -> "forked"
               [] pc = "wait" -> "live"
               [] OTHER -> "exited",
    stopped <- onStop > 0,
    taken <- request = "taken",
    held <- escaped

\* Run keeps what Process relies on: callbacks in order, OnStop exactly once
\* and with a cause, no return before the group was stopped and, if asked for,
\* confirmed, nor while an escaped descendant holds the output of a run that
\* nobody interrupted; a failure to stop the group that is never left out of
\* the result; and a result that does not change its mind: a cancellation that
\* comes after the child's exit, while the group is stopped or output drained,
\* does not turn it into a cancelled one.
ImplementsContract == Contract!Spec

\* A run that is cancelled, or whose watcher has taken a stop request, returns,
\* even when an escaped descendant keeps the output pipes open for ever
\* ("Cancellation bounds even escaped descendants", service.go:206).  The
\* exception, here and below, is a group that cannot be signalled: stopGroup
\* gives up with an error, and Run goes on waiting for the child.
InterruptionReturns == ctx \/ request = "taken" ~> pc = "done" \/ stopErr

\* A child's exit leads to the return of Run once no escaped descendant holds
\* its output: a mate that ignores the stop signal cannot prevent it.
ExitReturns == <>[]~escaped => (leader = "zombie" ~> pc = "done" \/ stopErr)

\* "A request can race natural-exit cleanup.  It must still bound pipe drainage
\* even when another caller already owns group shutdown" (service.go:154): a
\* stop request that was accepted leads to the return of Run.
RequestReturns == request # "none" ~> pc = "done" \/ stopErr
=============================================================================
