----------------------------- MODULE Validation -----------------------------
(***************************************************************************)
(* The configuration between the parser and the manager: ApplyDefaults     *)
(* (internal/config/config.go), ValidateWithWarnings and detectCycle       *)
(* (internal/config/validation.go).                                        *)
(*                                                                         *)
(* A name is any string; "instances", the flags and the dependencies of an *)
(* entry are kept, a condition object is the set of its keys, and of every *)
(* other field only whether its value, once defaults are applied, passes   *)
(* its own check: "bad" holds the names of those that do not.              *)
(***************************************************************************)
EXTENDS Integers, Sequences, FiniteSets

CONSTANTS
    RawConfigs,     \* parsed configurations to consider
    Strings,        \* the names and dependencies that occur in them
    NoName,         \* ""
    SimpleNames,    \* those that match ^[A-Za-z0-9][A-Za-z0-9_-]{0,63}$
    CopyName(_, _)  \* "name/k"

\* startMode: absent, known or not known.
Modes == {"unset", "parallel", "sequential", "other"}

Types == {"env", "fileExists", "portOpen", "commandSucceeds"}
Fields == {"command", "backoff", "commandsBefore", "env", "stopSignal", "stopTimeout",
           "logFileMode", "logRotate", "group"}

\* What a key of a condition object can be: a known type, one that is not, or
\* one whose value is empty.
Keys == Types \cup {"unknown", "noValue"}

Entries == [name : Strings, dependsOn : Seq(Strings), instances : Int, maxRetries : Int,
            autoRestart : BOOLEAN, restartOnSuccess : BOOLEAN, controllable : BOOLEAN,
            critical : BOOLEAN, whenAll : Seq(SUBSET Keys), whenAny : Seq(SUBSET Keys),
            bad : SUBSET Fields]

ASSUME ConfigsAreParsed ==
    /\ RawConfigs \subseteq [mode : Modes, control : BOOLEAN, bad : BOOLEAN,
                             run : Seq(Entries)]
    /\ SimpleNames \subseteq Strings \ {NoName}

CopyNumbers == UNION {UNION {0..c.run[i].instances : i \in 1..Len(c.run)} : c \in RawConfigs}

\* A copy's name has a slash and ends in its number.
ASSUME CopiesAreNamed ==
    \A n, m \in SimpleNames : \A k, j \in CopyNumbers :
        /\ CopyName(n, k) \notin SimpleNames
        /\ CopyName(n, k) = CopyName(m, j) => n = m /\ k = j

VARIABLES
    cfg,        \* the Config
    vpc,        \* "parsed", "defaults", "cycle", then "accepted" or "rejected"
    flawed,     \* an error has been collected before the cycle check
    inDegree,   \* detectCycle: dependencies of each name not yet visited
    queue,      \* names whose in-degree has become zero, in no order
    visited     \* names taken from the queue

vars == <<cfg, vpc, flawed, inDegree, queue, visited>>

Run == 1..Len(cfg.run)
Names == {cfg.run[i].name : i \in Run}

\* One element for every entry of every dependsOn list, repetitions included.
Edges == UNION {{i} \X (1..Len(cfg.run[i].dependsOn)) : i \in Run}
Target(e) == cfg.run[e[1]].name
Source(e) == cfg.run[e[1]].dependsOn[e[2]]
Into(n) == {e \in Edges : Target(e) = n}
Between(m, n) == {e \in Edges : Source(e) = m /\ Target(e) = n}

Init ==
    /\ cfg \in RawConfigs
    /\ vpc = "parsed"
    /\ flawed = FALSE
    /\ inDegree = << >>
    /\ queue = {}
    /\ visited = {}

WithInstances(p) ==
    [p EXCEPT !.instances = IF p.instances <= 0 THEN 1 ELSE p.instances]

\* Of the fields that are kept, only an absent mode and instances that are not
\* positive have a default; Validate sees a negative number as 1.
ApplyDefaults ==
    /\ vpc = "parsed"
    /\ vpc' = "defaults"
    /\ cfg' = [cfg EXCEPT
         !.mode = IF cfg.mode = "unset" THEN "parallel" ELSE cfg.mode,
         !.run = [i \in Run |-> WithInstances(cfg.run[i])]]
    /\ UNCHANGED <<flawed, inDegree, queue, visited>>

-----------------------------------------------------------------------------
(* The checks of single fields and references *)

ConditionsFlawed(conditions) ==
    \E k \in 1..Len(conditions) :
        conditions[k] = {} \/ ~(conditions[k] \subseteq Types)

AnyName(p) == FALSE
NameRefused(p) == cfg.control /\ p.name \notin SimpleNames

EntryFlawed(i) ==
    LET p == cfg.run[i]
    IN  \/ p.name = NoName
        \/ NameRefused(p)
        \/ p.restartOnSuccess /\ ~p.autoRestart
        \/ p.controllable /\ (~cfg.control \/ ~p.autoRestart \/ p.critical)
        \/ \E j \in 1..(i - 1) : cfg.run[j].name = p.name
        \/ p.instances < 1
        \/ p.maxRetries < 0
        \/ p.bad # {}
        \/ ConditionsFlawed(p.whenAll)
        \/ ConditionsFlawed(p.whenAny)

\* order[name], which a later entry of the same name overwrites.
OrderOf(n) == CHOOSE i \in Run :
    cfg.run[i].name = n /\ \A j \in Run : cfg.run[j].name = n => j <= i

ForwardAllowed(e) == FALSE
Forward(e) ==
    cfg.mode = "sequential" /\ Source(e) \in Names /\ OrderOf(Source(e)) > OrderOf(Target(e))

EdgeFlawed(e) ==
    Forward(e) \/ Source(e) \notin Names \ {NoName} \/ Source(e) = Target(e)

\* Everything before the cycle check; then detectCycle counts dependencies.
Check ==
    /\ vpc = "defaults"
    /\ vpc' = "cycle"
    /\ flawed' = (\/ cfg.mode \notin {"parallel", "sequential"}
                  \/ cfg.bad
                  \/ cfg.run = << >>
                  \/ \E i \in Run : EntryFlawed(i)
                  \/ \E e \in Edges : EdgeFlawed(e))
    /\ inDegree' = [n \in Names |-> Cardinality(Into(n))]
    /\ queue' = {n \in Names : Into(n) = {}}
    /\ UNCHANGED <<cfg, visited>>

-----------------------------------------------------------------------------
(* detectCycle *)

OncePerName(m, n) == IF Between(m, n) = {} THEN 0 ELSE 1
\* graph[m] lists n as often as n names m, and each time lowers its in-degree.
Lowered(m, n) == Cardinality(Between(m, n))

Visit(m) ==
    /\ vpc = "cycle"
    /\ m \in queue
    /\ visited' = visited \cup {m}
    /\ inDegree' = [n \in Names |-> inDegree[n] - Lowered(m, n)]
    /\ queue' = (queue \ {m}) \cup
                {n \in Names : Between(m, n) # {} /\ inDegree'[n] = 0}
    /\ UNCHANGED <<cfg, vpc, flawed>>

Decide ==
    /\ vpc = "cycle"
    /\ queue = {}
    /\ vpc' = IF flawed \/ Cardinality(visited) < Cardinality(Names)
              THEN "rejected" ELSE "accepted"
    /\ UNCHANGED <<cfg, flawed, inDegree, queue, visited>>

Next == ApplyDefaults \/ Check \/ (\E m \in Names : Visit(m)) \/ Decide

Spec == Init /\ [][Next]_vars

-----------------------------------------------------------------------------
(* Properties *)

\* Names that could never start: each of them waits for another of them, or for
\* one that does not exist.
Stuck(S) ==
    /\ S # {}
    /\ \A n \in S : \E e \in Into(n) : Source(e) \in S \/ Source(e) \notin Names

\* The verdict on the dependencies is exact, for every graph, however a name
\* repeats a dependency or an entry repeats a name: a configuration in which
\* some names could never start is rejected, and one that passed the other
\* checks is rejected for nothing else.
VerdictExact ==
    /\ vpc = "accepted" => \A S \in SUBSET Names : ~Stuck(S)
    /\ vpc = "rejected" /\ ~flawed => \E S \in SUBSET Names : Stuck(S)

\* Process.Name: the id by which POST /v1/restart finds an instance.
Copies(i) == 0..(cfg.run[i].instances - 1)
InstanceId(i, k) ==
    IF cfg.run[i].instances > 1 THEN CopyName(cfg.run[i].name, k) ELSE cfg.run[i].name

\* Manager.Restart takes the first process with the id it is given, and the
\* comment on InstanceInfo says it describes "an individual launch, never an
\* aggregate" (control.go:10): where there is a management socket, no two
\* instances have the same id, not even if one is called "web/0".
IdsUnique ==
    vpc = "accepted" /\ cfg.control =>
        \A i, j \in Run : \A k \in Copies(i) : \A l \in Copies(j) :
            InstanceId(i, k) = InstanceId(j, l) => i = j /\ k = l
=============================================================================
