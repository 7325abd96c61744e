------------------------------ MODULE Startup ------------------------------
(***************************************************************************)
(* From the configuration file to the start of the last process: what      *)
(* Validation accepts is taken through the conditions of every process     *)
(* (Conditions) and then launched (LaunchOrder), as Manager.Run does       *)
(* (internal/runner/manager.go).  What the instances of a name do is in    *)
(* module Manager, which implements LaunchOrder; here a name is launched,  *)
(* begins, and its gate opens or shuts.                                    *)
(***************************************************************************)
EXTENDS Validation, Conditions

VARIABLES
    spc,        \* control point: "validate", "conditions", "evaluate", "launch",
                \* "gate", "launched" or "refused"
    idx,        \* position in cfg.Run of the loop in progress
    st          \* LaunchOrder: how far the start of every name has come

startVars == <<spc, idx, st>>
allVars == <<vars, condVars, ctx, startVars>>

Order == [i \in Run |-> cfg.run[i].name]
Deps == [n \in Names |-> cfg.run[OrderOf(n)].dependsOn]
Launching == INSTANCE LaunchOrder WITH order <- Order, deps <- Deps, mode <- cfg.mode

\* The manager exists.
Managed == spc \notin {"validate", "refused"}

StartInit ==
    /\ Init
    /\ CondInit
    /\ ctx = FALSE
    /\ spc = "validate"
    /\ idx = 1
    /\ st = << >>

Validate ==
    /\ spc = "validate"
    /\ Next
    /\ UNCHANGED <<condVars, ctx, startVars>>

\* runRun gives up, or creates the manager and calls Run.
Validated ==
    /\ spc = "validate"
    /\ \/ vpc = "rejected" /\ spc' = "refused" /\ UNCHANGED st
       \/ /\ vpc = "accepted"
          /\ spc' = "conditions"
          /\ st' = [n \in Names |-> "pending"]
    /\ UNCHANGED <<vars, condVars, ctx, idx>>

\* The conditions loop of Manager.Run.
NextProcess ==
    /\ spc = "conditions"
    /\ IF ctx \/ idx > Len(Order)
       THEN /\ spc' = "launch"
            /\ idx' = 1
            /\ UNCHANGED condVars
       ELSE /\ ShouldRun(cfg.run[idx].whenAll, cfg.run[idx].whenAny)
            /\ spc' = "evaluate"
            /\ UNCHANGED idx
    /\ UNCHANGED <<vars, ctx, st>>

Evaluation ==
    /\ spc = "evaluate"
    /\ Evaluate
    /\ UNCHANGED <<vars, ctx, startVars>>

\* An error cancels the context and ends the loop; a skip finishes every
\* instance of the process.
Decided ==
    /\ spc = "evaluate"
    /\ answer # "none"
    /\ answer' = "none"
    /\ \/ answer = "error" /\ ctx' = TRUE /\ spc' = "launch" /\ idx' = 1 /\ UNCHANGED st
       \/ /\ answer # "error"
          /\ IF answer = "skip" THEN Launching!Shut({Order[idx]}) ELSE UNCHANGED st
          /\ spc' = "conditions"
          /\ idx' = idx + 1
          /\ UNCHANGED ctx
    /\ UNCHANGED <<vars, whenAll, whenAny, block, pos, probe, truth>>

Pending(S) == {n \in S : st[n] = "pending"}

\* The launch loops: all names at once, or one and then its gate.
Launch ==
    /\ spc = "launch"
    /\ IF cfg.mode = "parallel"
       THEN Launching!Launch(Pending(Names)) /\ spc' = "launched"
       ELSE IF ctx \/ idx > Len(Order)
       THEN spc' = "launched" /\ UNCHANGED st
       ELSE Launching!Launch(Pending({Order[idx]})) /\ spc' = "gate"
    /\ UNCHANGED <<vars, condVars, ctx, idx>>

GateAnswers ==
    /\ spc = "gate"
    /\ ctx \/ Launching!Settled(Order[idx])
    /\ idx' = idx + 1
    /\ spc' = "launch"
    /\ UNCHANGED <<vars, condVars, ctx, st>>

Begin(n) ==
    /\ Launching!Begin(n)
    /\ UNCHANGED <<vars, condVars, ctx, spc, idx>>

\* The first command of a name that has begun starts, or none ever does: its
\* precommands come to an end.
Settles(n) ==
    /\ st[n] = "begun"
    /\ Launching!Open(n) \/ Launching!Shut({n})
    /\ UNCHANGED <<vars, condVars, ctx, spc, idx>>

\* A launched name gives up: a dependency never starts, or the context is done.
GivesUp(n) ==
    /\ st[n] = "launched"
    /\ ctx \/ \E m \in Launching!Needs(n) : st[m] = "shut"
    /\ Launching!Shut({n})
    /\ UNCHANGED <<vars, condVars, ctx, spc, idx>>

\* The deferred function of Run finishes what was never launched.
Finish ==
    /\ spc = "launched"
    /\ \A n \in Names : st[n] = "pending" \/ Launching!Settled(n)
    /\ Pending(Names) # {}
    /\ Launching!Shut(Pending(Names))
    /\ UNCHANGED <<vars, condVars, ctx, spc, idx>>

\* A shutdown signal.
Cancel ==
    /\ ~ctx
    /\ Managed
    /\ ctx' = TRUE
    /\ UNCHANGED <<vars, condVars, startVars>>

Instances(n) == Managed /\ n \in Names /\ (Begin(n) \/ Settles(n) \/ GivesUp(n))

Steps ==
    \/ Validate
    \/ Validated
    \/ NextProcess
    \/ Evaluation
    \/ Decided
    \/ Launch
    \/ GateAnswers
    \/ Finish

StartNext ==
    \/ Steps
    \/ \E n \in Strings : Instances(n)
    \/ Cancel

(***************************************************************************)
(* Fairness.  Goroutines run; a condition is evaluated in bounded time (a  *)
(* dial and a command have timeouts); and what has begun starts or fails,  *)
(* which is the one thing the code leaves to the configured commands.      *)
(***************************************************************************)
Fairness ==
    /\ WF_allVars(Steps)
    /\ \A n \in Strings : WF_allVars(Instances(n))

StartSpec == StartInit /\ [][StartNext]_allVars

FairStartSpec == StartSpec /\ Fairness

-----------------------------------------------------------------------------
(* Properties *)

\* The decision on a process has its reason: it runs only if every condition of
\* whenAll held when it was looked at, and one of whenAny, if there are any; it
\* is skipped only if one of whenAll did not, or none of whenAny, or because the
\* shutdown has begun (a command condition that is cancelled after its command
\* has succeeded counts as false, commandsucceeds.go:38).
DecisionHasReason ==
    /\ answer = "run" =>
         /\ Len(truth.all) = Len(whenAll) /\ \A k \in 1..Len(whenAll) : truth.all[k]
         /\ whenAny # << >> => \E k \in 1..Len(truth.any) : truth.any[k]
    /\ answer = "skip" =>
         \/ ctx
         \/ \E k \in 1..Len(truth.all) : ~truth.all[k]
         \/ /\ whenAny # << >>
            /\ Len(truth.any) = Len(whenAny)
            /\ \A k \in 1..Len(whenAny) : ~truth.any[k]

\* Nothing that Validate accepts deadlocks at startup: in either mode every
\* process is eventually started, or known never to start.
AcceptedStarts ==
    vpc = "accepted" ~> spc = "launched" /\ \A n \in Names : Launching!Settled(n)
=============================================================================
