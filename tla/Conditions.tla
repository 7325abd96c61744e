----------------------------- MODULE Conditions -----------------------------
(***************************************************************************)
(* Evaluator.ShouldRun for one process (internal/condition/registry.go):   *)
(* whenAll, then whenAny, one condition after another under a context that *)
(* may be cancelled between any two steps, and what the four types of      *)
(* condition answer.                                                       *)
(***************************************************************************)
EXTENDS Naturals, Sequences, SequencesExt

VARIABLES
    whenAll, whenAny,   \* the conditions of the process, flattened
    block,              \* the list in evaluation: "idle", "all", "any"
    pos,                \* the condition in evaluation
    probe,              \* commandSucceeds: what Service.Run returned
    answer,             \* of ShouldRun: "none", "run", "skip" or "error"
    truth,              \* history: per list, what was found out about conditions
    ctx                 \* is the context done?

condVars == <<whenAll, whenAny, block, pos, probe, answer, truth>>

\* The keys of one object, sorted.  Validation lets no other types pass.
Key(t, keys) == IF t \in keys THEN <<t>> ELSE << >>
SortedKeys(keys) ==
    Key("commandSucceeds", keys) \o Key("env", keys)
        \o Key("fileExists", keys) \o Key("portOpen", keys)

\* Objects in order.
Flatten(conditions) ==
    FlattenSeq([k \in 1..Len(conditions) |-> SortedKeys(conditions[k])])

CondInit ==
    /\ whenAll = << >>
    /\ whenAny = << >>
    /\ block = "idle"
    /\ pos = 1
    /\ probe = "none"
    /\ answer = "none"
    /\ truth = [all |-> << >>, any |-> << >>]

List == IF block = "all" THEN whenAll ELSE whenAny

Answer(a) ==
    /\ answer' = a
    /\ block' = "idle"
    /\ UNCHANGED pos

\* whenAny is looked at only if there is something in it.
AfterAll ==
    IF whenAny = << >> THEN Answer("run")
    ELSE block' = "any" /\ pos' = 1 /\ UNCHANGED answer

\* ShouldRun is called for a process with these lists.
ShouldRun(all, any) ==
    /\ block = "idle"
    /\ answer = "none"
    /\ whenAll' = Flatten(all)
    /\ whenAny' = Flatten(any)
    /\ truth' = [all |-> << >>, any |-> << >>]
    /\ pos' = 1
    /\ IF ctx THEN answer' = "error" /\ UNCHANGED block
       ELSE block' = "all" /\ UNCHANGED answer
    /\ UNCHANGED probe

\* The head of both loops looks at the context; at their ends all conditions
\* held, or none did.
NextCondition ==
    /\ block # "idle"
    /\ probe = "none"
    /\ \/ pos <= Len(List) /\ ctx /\ Answer("error")
       \/ pos > Len(List) /\ IF block = "all" THEN AfterAll ELSE Answer("skip")
    /\ UNCHANGED <<whenAll, whenAny, probe, truth>>

AnyAsAll(ok) == block = "all" /\ ok
GoesOn(ok) == IF block = "all" THEN ok ELSE ~ok

\* Evaluate has returned (ok, nil).
Evaluated(ok) ==
    IF GoesOn(ok) THEN pos' = pos + 1 /\ UNCHANGED <<block, answer>>
    ELSE Answer(IF ok THEN "run" ELSE "skip")

Learned(ok) == truth' = [truth EXCEPT ![block] = Append(@, ok)]

Finds(ok) == Evaluated(ok) /\ Learned(ok)

Simple(type) ==
    /\ block # "idle"
    /\ pos <= Len(List)
    /\ List[pos] = type
    /\ ~ctx
    /\ UNCHANGED <<whenAll, whenAny, probe>>

EnvHolds == Simple("env") /\ \E ok \in BOOLEAN : Finds(ok)

\* A dial that fails or times out is no error ...
PortOpen == Simple("portOpen") /\ \E ok \in BOOLEAN : Finds(ok)

\* ... but a path that cannot be examined is.
FileExists ==
    /\ Simple("fileExists")
    /\ \/ \E ok \in BOOLEAN : Finds(ok)
       \/ Answer("error") /\ UNCHANGED truth

\* Service.Run under a context that also ends after ten seconds.
RunProbe ==
    /\ block # "idle"
    /\ probe = "none"
    /\ ~ctx
    /\ pos <= Len(List)
    /\ List[pos] = "commandSucceeds"
    /\ probe' = "running"
    /\ UNCHANGED <<whenAll, whenAny, block, pos, answer, truth>>

\* "late" is a command that was killed for the timeout.
ProbeReturns ==
    /\ probe = "running"
    /\ probe' \in {"ok", "failed", "late", "supervisor"}
                    \cup IF ctx THEN {"cancelled"} ELSE {}
    /\ UNCHANGED <<whenAll, whenAny, block, pos, answer, truth>>

\* A supervisor error is an error, and so is a parent that is done.
ProbeJudged ==
    /\ probe \in {"ok", "failed", "late", "supervisor", "cancelled"}
    /\ IF probe = "supervisor" \/ ctx
       THEN Answer("error") /\ probe' = "none"
       ELSE /\ probe' = IF probe = "ok" THEN "held" ELSE "not"
            /\ UNCHANGED <<block, pos, answer>>
    /\ UNCHANGED <<whenAll, whenAny, truth>>

\* Only then the context with the timeout is looked at.  It is also done when
\* the parent is by now, and a command that held counts as one that did not.
ProbeCounts ==
    /\ probe \in {"held", "not"}
    /\ probe' = "none"
    /\ \E inTime \in BOOLEAN :
         /\ Learned(probe = "held" /\ inTime)
         /\ Evaluated(probe = "held" /\ inTime /\ ~ctx)
    /\ UNCHANGED <<whenAll, whenAny>>

Evaluate ==
    \/ NextCondition
    \/ EnvHolds
    \/ PortOpen
    \/ FileExists
    \/ RunProbe
    \/ ProbeReturns
    \/ ProbeJudged
    \/ ProbeCounts
=============================================================================
