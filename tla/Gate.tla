------------------------------- MODULE Gate -------------------------------
(***************************************************************************)
(* What a start gate promises (internal/runner/manager.go:44): it opens    *)
(* when any instance of a group has ever started, and it is unavailable    *)
(* when the context is done, or when all instances are over and none of    *)
(* them has started.  StartGate implements it; Manager uses it for         *)
(* dependencies and for the order of sequential startup.                   *)
(***************************************************************************)
CONSTANT Procs      \* the instances of the group

VARIABLES
    ready,  \* Process.readyCh: closed at the first successful launch
    done,   \* Process.doneCh: closed when the lifecycle is over
    ctx,    \* is the context done?
    result  \* "none", "started" or "unavailable"

env  == <<ready, done, ctx>>
vars == <<ready, done, ctx, result>>

Open == \E p \in Procs : ready[p]
Shut == \A p \in Procs : done[p] /\ ~ready[p]

Init ==
    /\ ready = [p \in Procs |-> FALSE]
    /\ done = [p \in Procs |-> FALSE]
    /\ ctx = FALSE
    /\ result = "none"

\* An instance starts, if it does, before its lifecycle is over.
Starts(p) ==
    /\ ~done[p]
    /\ ready' = [ready EXCEPT ![p] = TRUE]
    /\ UNCHANGED <<done, ctx, result>>

Finishes(p) ==
    /\ done' = [done EXCEPT ![p] = TRUE]
    /\ UNCHANGED <<ready, ctx, result>>

Cancel ==
    /\ ctx' = TRUE
    /\ UNCHANGED <<ready, done, result>>

Answer ==
    /\ result = "none"
    /\ \/ Open /\ result' = "started"
       \/ (ctx \/ Shut) /\ result' = "unavailable"
    /\ UNCHANGED env

Environment == (\E p \in Procs : Starts(p) \/ Finishes(p)) \/ Cancel

Next == Environment \/ Answer

Spec == Init /\ [][Next]_vars

\* The gate answers once it can.
FairSpec == Spec /\ WF_vars(Answer)
=============================================================================
