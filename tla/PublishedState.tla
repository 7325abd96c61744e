--------------------------- MODULE PublishedState ---------------------------
(***************************************************************************)
(* What the rest of gonner can see of its processes while they run: the    *)
(* state of each instance, whether it has ever started, its restart        *)
(* counter, and whether it is over (docs/configuration.md, "Lifecycle      *)
(* states").  Process implements it; Status reads it.                      *)
(***************************************************************************)
EXTENDS Naturals

CONSTANT Insts      \* the instances

VARIABLES
    state,          \* Process.state
    started,        \* has it been running?
    restarts,       \* Process.restarts
    over            \* Done is closed

published == <<state, started, restarts, over>>

Init ==
    /\ state = [i \in Insts |-> "pending"]
    /\ started = [i \in Insts |-> FALSE]
    /\ restarts = [i \in Insts |-> 0]
    /\ over = [i \in Insts |-> FALSE]

\* A command has been started under the process's name; only a launch from
\* starting is one, and only the first is no restart.
Runs(i) ==
    /\ ~over[i]
    /\ state[i] = "starting"
    /\ state' = [state EXCEPT ![i] = "running"]
    /\ started' = [started EXCEPT ![i] = TRUE]
    /\ restarts' = [restarts EXCEPT ![i] = IF started[i] THEN @ + 1 ELSE @]
    /\ UNCHANGED over

\* Changes that are no launch: running ends in stopping and stopped, stopped
\* may lead to another attempt, and a precommand that is stopped is stopping.
Follows ==
    [pending |-> {"starting"}, starting |-> {"stopping", "stopped"},
     running |-> {"stopping"}, stopping |-> {"starting", "stopped"},
     stopped |-> {"starting"}, failed |-> {}, skipped |-> {}]

Moves(i) ==
    /\ ~over[i]
    /\ \E s \in Follows[state[i]] : state' = [state EXCEPT ![i] = s]
    /\ UNCHANGED <<started, restarts, over>>

\* The last state, which never changes again: one that runs cannot be over
\* before it has stopped.
Ends(i) ==
    /\ ~over[i]
    /\ state[i] # "running"
    /\ over' = [over EXCEPT ![i] = TRUE]
    /\ \E s \in {"stopped", "failed", "skipped"} : state' = [state EXCEPT ![i] = s]
    /\ UNCHANGED <<started, restarts>>

Next == \E i \in Insts : Runs(i) \/ Moves(i) \/ Ends(i)

Spec == Init /\ [][Next]_published
=============================================================================
