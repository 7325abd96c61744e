---------------------------- MODULE LaunchOrder ----------------------------
(***************************************************************************)
(* What dependsOn and sequential mode promise about startup, name by name  *)
(* (docs/configuration.md, "Lifecycle states"): when a name is launched,   *)
(* when its commands may begin, and how its gate settles.  Manager         *)
(* implements it with instances, goroutines and gates; Startup runs a      *)
(* validated configuration through it.                                     *)
(***************************************************************************)
EXTENDS Naturals, Sequences

VARIABLES
    order,      \* cfg.Run: the names, in order
    deps,       \* the names each depends on, as a sequence
    mode,       \* "parallel" or "sequential"
    st          \* per name: "pending", "launched", "begun", "open" or "shut"

Listed == {order[k] : k \in 1..Len(order)}
Needs(n) == {deps[n][k] : k \in 1..Len(deps[n])}

\* The gate of a name: an instance has started, or none ever will.
Settled(n) == st[n] \in {"open", "shut"}

Init == st = [n \in Listed |-> "pending"]

Set(S, s) == st' = [n \in Listed |-> IF n \in S THEN s ELSE st[n]]

\* In sequential mode the gates of all earlier names are settled.
MayLaunch(n) ==
    mode = "sequential" =>
        \A k \in 1..Len(order) :
            order[k] = n => \A j \in 1..(k - 1) : Settled(order[j])

\* Goroutines are started for the instances of some names.
Launch(S) ==
    /\ \A n \in S : st[n] = "pending" /\ MayLaunch(n)
    /\ Set(S, "launched")

\* No command of an instance begins, precommands included, before every name
\* it depends on has started once.
Begin(n) ==
    /\ st[n] = "launched"
    /\ \A m \in Needs(n) : st[m] = "open"
    /\ Set({n}, "begun")

\* The only instance that had begun is over, others still wait.
FallBack(n) ==
    /\ st[n] = "begun"
    /\ Set({n}, "launched")

\* The first successful launch of an instance: the gate is open for good.
Open(n) ==
    /\ st[n] = "begun"
    /\ Set({n}, "open")

\* Every instance is over and none has started.
Shut(S) ==
    /\ \A n \in S : ~Settled(n)
    /\ Set(S, "shut")

Next ==
    \/ \E S \in SUBSET Listed : Launch(S) \/ Shut(S)
    \/ \E n \in Listed : Begin(n) \/ FallBack(n) \/ Open(n)

Spec == Init /\ [][Next]_st
=============================================================================
