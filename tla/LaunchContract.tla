--------------------------- MODULE LaunchContract ---------------------------
(***************************************************************************)
(* What execution.Service.Run (internal/execution/service.go) promises the *)
(* one who calls it: the order of its callbacks, what its Result may say,  *)
(* and why it would stop a command that still runs.  Execution implements  *)
(* it; the actions of Process by which a command runs are these.           *)
(***************************************************************************)
VARIABLES
    phase,      \* of the call: "idle", "forked", "live", "exited"
    stopped,    \* has OnStop been called?
    stopErr,    \* has stopGroup failed, which is reported at once?
    result,     \* the Result, of the last call when idle
    ctx,        \* is the context done?
    taken,      \* has the watcher taken a stop request?
    held,       \* does a descendant outside the group hold the output pipes?
    confirm     \* Spec.ConfirmReaped

vars == <<phase, stopped, stopErr, result>>

Results == [started : BOOLEAN, cancelled : BOOLEAN, ok : BOOLEAN,
            supervisor : BOOLEAN, reaped : BOOLEAN]

Nothing == [started |-> FALSE, cancelled |-> FALSE, ok |-> FALSE,
            supervisor |-> FALSE, reaped |-> FALSE]

Init ==
    /\ phase = "idle"
    /\ stopped = FALSE
    /\ stopErr = FALSE
    /\ result = Nothing

\* Nothing was started: the context is done, or the pipes or the command could
\* not be had, which is no cancellation even if the context is done by then.
Refuse ==
    /\ phase = "idle"
    /\ result' \in {Nothing, [Nothing EXCEPT !.cancelled = ctx]}
    /\ UNCHANGED <<phase, stopped, stopErr>>

\* A command is started only under a context that is not done.
Start ==
    /\ phase = "idle"
    /\ ~ctx
    /\ phase' = "forked"
    /\ stopped' = FALSE
    /\ stopErr' = FALSE
    /\ result' = [Nothing EXCEPT !.started = TRUE]

OnStart ==
    /\ phase = "forked"
    /\ phase' = "live"
    /\ UNCHANGED <<stopped, stopErr, result>>

WokenByRequest == taken
Woken == ctx \/ taken

\* While the command runs, its group is stopped only for the context or for a
\* request the watcher has taken; after its exit it always is.
OnStop ==
    /\ phase \in {"live", "exited"}
    /\ phase = "live" => Woken
    /\ ~stopped
    /\ stopped' = TRUE
    /\ UNCHANGED <<phase, stopErr, result>>

\* The group cannot be signalled or looked at: stopGroup gives up, and the
\* error goes to Spec.ReportError.
StopFails ==
    /\ phase \in {"live", "exited"}
    /\ stopped
    /\ stopErr' = TRUE
    /\ UNCHANGED <<phase, stopped, result>>

\* cmd.Wait returns and the context is sampled.
OnExit ==
    /\ phase = "live"
    /\ phase' = "exited"
    /\ \E ok \in BOOLEAN :
         result' = [result EXCEPT !.cancelled = ctx, !.ok = ok]
    /\ UNCHANGED <<stopped, stopErr>>

\* What the exit and the cancellation have settled stays.
SameExit(r) ==
    r.started = result.started /\ r.cancelled = result.cancelled /\ r.ok = result.ok

\* Mutant: a group not seen to disappear is no supervisor error.
UnconfirmedOK == {r \in Results : SameExit(r) /\ (r.reaped => confirm)}

\* What becomes known after the exit: any result may come with a supervisor
\* error (the group cannot be signalled, output cannot be drained); when it
\* is to be confirmed, that the group is not seen to disappear is one.
Outcomes ==
    {r \in Results :
        /\ SameExit(r)
        /\ stopErr => r.supervisor
        /\ IF confirm THEN r.reaped \/ r.supervisor ELSE ~r.reaped}

\* Run waits for the end of the output, unless the context is done or the
\* watcher has taken a request, which bound that wait.
DrainedByContext == ~held \/ ctx
Drained == ~held \/ ctx \/ taken

Return ==
    /\ phase = "exited"
    /\ stopped
    /\ Drained
    /\ phase' = "idle"
    /\ result' \in Outcomes
    /\ UNCHANGED <<stopped, stopErr>>

Next ==
    \/ Refuse
    \/ Start
    \/ OnStart
    \/ OnStop
    \/ StopFails
    \/ OnExit
    \/ Return

Spec == Init /\ [][Next]_vars
=============================================================================
