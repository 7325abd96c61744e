----------------------------- MODULE StartGate -----------------------------
(***************************************************************************)
(* waitStarted (internal/runner/manager.go:46): a goroutine waits for any  *)
(* of several instances to start, with a select over the context and the   *)
(* Ready and Done channels of every instance.  A select takes any of the   *)
(* cases that are ready, so it may see that an instance is over before it  *)
(* sees that the same instance has started.                                *)
(***************************************************************************)
EXTENDS FiniteSets

CONSTANT Procs

ASSUME ProcsIsFinite == IsFiniteSet(Procs) /\ Procs # {}

VARIABLES
    ready, done, ctx, result,   \* as in Gate
    pc,                         \* "prefer", "select", "last" or "returned"
    left,                       \* instances a pass over the Ready channels has yet to look at
    cases                       \* instances whose Done case is still in the select

vars == <<ready, done, ctx, result, pc, left, cases>>

TypeOK ==
    /\ ready \in [Procs -> BOOLEAN]
    /\ done \in [Procs -> BOOLEAN]
    /\ ctx \in BOOLEAN
    /\ result \in {"none", "started", "unavailable"}
    /\ pc \in {"prefer", "select", "last", "returned"}
    /\ left \in SUBSET Procs
    /\ cases \in SUBSET Procs
    /\ result # "none" => pc = "returned"

Init ==
    /\ ready = [p \in Procs |-> FALSE]
    /\ done = [p \in Procs |-> FALSE]
    /\ ctx = FALSE
    /\ result = "none"
    /\ pc = "prefer"
    /\ left = Procs
    /\ cases = Procs

Return(r) ==
    /\ result' = r
    /\ pc' = "returned"

\* The passes over the Ready channels, before each select and after the last:
\* an instance is looked at without blocking.
Look(p) ==
    /\ pc \in {"prefer", "last"}
    /\ p \in left
    /\ IF ready[p]
       THEN Return("started") /\ UNCHANGED left
       ELSE left' = left \ {p} /\ UNCHANGED <<result, pc>>
    /\ UNCHANGED <<ready, done, ctx, cases>>

LookedAtAll ==
    /\ pc \in {"prefer", "last"}
    /\ left = {}
    /\ IF pc = "prefer"
       THEN pc' = "select" /\ UNCHANGED result
       ELSE Return("unavailable")
    /\ UNCHANGED <<ready, done, ctx, left, cases>>

SelectCtx ==
    /\ pc = "select"
    /\ ctx
    /\ Return("unavailable")
    /\ UNCHANGED <<ready, done, ctx, left, cases>>

SelectReady(p) ==
    /\ pc = "select"
    /\ ready[p]
    /\ Return("started")
    /\ UNCHANGED <<ready, done, ctx, left, cases>>

GiveUpWithoutLook ==
    /\ left' = Procs
    /\ IF cases' = {} THEN Return("unavailable") ELSE pc' = "prefer" /\ UNCHANGED result
\* After the last Done, look at the Ready channels once more.
LookAgain ==
    /\ pc' = IF cases' = {} THEN "last" ELSE "prefer"
    /\ left' = Procs
    /\ UNCHANGED result

KeepCase(p) == cases' = cases
\* The Done case of an instance is taken once.
DropCase(p) == cases' = cases \ {p}

SelectDone(p) ==
    /\ pc = "select"
    /\ p \in cases
    /\ done[p]
    /\ DropCase(p)
    /\ LookAgain
    /\ UNCHANGED <<ready, done, ctx>>

\* The instances and the context, as in Gate.
Starts(p) ==
    /\ ~done[p]
    /\ ready' = [ready EXCEPT ![p] = TRUE]
    /\ UNCHANGED <<done, ctx, result, pc, left, cases>>

Finishes(p) ==
    /\ done' = [done EXCEPT ![p] = TRUE]
    /\ UNCHANGED <<ready, ctx, result, pc, left, cases>>

Cancel ==
    /\ ctx' = TRUE
    /\ UNCHANGED <<ready, done, result, pc, left, cases>>

Step ==
    \/ \E p \in Procs : Look(p)
    \/ LookedAtAll
    \/ SelectCtx
    \/ \E p \in Procs : SelectReady(p)
    \/ \E p \in Procs : SelectDone(p)

Environment == (\E p \in Procs : Starts(p) \/ Finishes(p)) \/ Cancel

Next == Step \/ Environment

Spec == Init /\ [][Next]_vars

\* The goroutine runs.
FairSpec == Spec /\ WF_vars(Step)

-----------------------------------------------------------------------------
(* Properties *)

Abstract == INSTANCE Gate

\* The gate keeps its promise: it answers "started" only when an instance has
\* started, and "unavailable" only when the context is done or every instance
\* is over without having started, however the select orders what it sees.
ImplementsGate == Abstract!Spec

\* It answers whenever it must, under the fairness of the one goroutine.
AnswersInTime == WF_<<ready, done, ctx, result>>(Abstract!Answer)
=============================================================================
