------------------------------- MODULE Status -------------------------------
(***************************************************************************)
(* The status queries: Manager.Ready and Manager.Processes                 *)
(* (internal/runner/manager.go), which the probes and /metrics of the      *)
(* health endpoint answer with (internal/health/handlers.go).  They read   *)
(* one process after another while all of them go on (PublishedState), so  *)
(* what is read may never have been true at one time.                      *)
(*                                                                         *)
(* Queries only read: one at a time is enough to see what each can answer. *)
(***************************************************************************)
EXTENDS PublishedState, Sequences, FiniteSetsExt

CONSTANTS
    Processes,      \* m.processes: the instances, in order
    Namings,        \* functions from instances to their names, to consider
    CriticalSets,   \* sets of names that are critical, to consider
    MaxRestarts     \* bound on the restarts of an instance

ASSUME ProcessesAreInstances ==
    /\ Processes \in Seq(Insts)
    /\ Insts = {Processes[k] : k \in 1..Len(Processes)}
    /\ Cardinality(Insts) = Len(Processes)
    /\ \A f \in Namings : DOMAIN f = Insts

VARIABLES
    nameOf,         \* the name of each instance, fixed in Init
    critical,       \* the names that are critical, fixed in Init
    shuttingDown,   \* Manager.shuttingDown
    query,          \* the one under way: "none", "ready" or "processes"
    pos,            \* the process to be read next
    seen, up,       \* Ready: criticalSeen and criticalRunning
    agg,            \* Processes: what has been added up, per name
    ran,            \* history: instances that have been running since it began
    base            \* history: the restart counters when it began

Names == {nameOf[i] : i \in Insts}
InstancesOf(n) == {i \in Insts : nameOf[i] = n}

config == <<nameOf, critical>>
queryVars == <<query, pos, seen, up, agg>>
statusVars == <<published, config, shuttingDown, queryVars, ran, base>>

Nothing == [instances |-> 0, running |-> 0, restarts |-> 0, status |-> "none"]

NoRestarts == [i \in Insts |-> 0]
Empty == [n \in Names |-> Nothing]

StatusInit ==
    /\ Init
    /\ nameOf \in Namings
    /\ critical \in CriticalSets
    /\ shuttingDown = FALSE
    /\ query = "none"
    /\ pos = 1
    /\ seen = {}
    /\ up = {}
    /\ agg = Empty
    /\ ran = {}
    /\ base = NoRestarts

RunningNow == {i \in Insts : state[i] = "running"}

-----------------------------------------------------------------------------
(* The processes, and the shutdown *)

ProcessStep ==
    /\ \E i \in Insts : Moves(i) \/ Ends(i) \/ (restarts[i] < MaxRestarts /\ Runs(i))
    /\ ran' = IF query = "none" THEN ran ELSE ran \cup RunningNow'
    /\ UNCHANGED <<config, shuttingDown, queryVars, base>>

ShutDown ==
    /\ ~shuttingDown
    /\ shuttingDown' = TRUE
    /\ UNCHANGED <<published, config, queryVars, ran, base>>

\* Ready answers at once when gonner is shutting down, and then no.
Asked(q) ==
    /\ query = "none"
    /\ q = "ready" => ~shuttingDown
    /\ query' = q
    /\ ran' = RunningNow
    /\ base' = restarts
    /\ UNCHANGED <<published, config, shuttingDown, pos, seen, up, agg>>

\* Every process has been read, and the query is answered.
AllRead == pos > Len(Processes)

Answered ==
    /\ query # "none"
    /\ AllRead
    /\ query' = "none"
    /\ pos' = 1
    /\ seen' = {}
    /\ up' = {}
    /\ agg' = Empty
    /\ ran' = {}
    /\ base' = NoRestarts
    /\ UNCHANGED <<published, config, shuttingDown>>

-----------------------------------------------------------------------------
(* Ready *)

SeenWhenUp(i) == nameOf[i] \in critical /\ state[i] = "running"
Seen(i) == nameOf[i] \in critical
Up(i) == nameOf[i] \in critical /\ state[i] = "running"

ReadyReads ==
    /\ query = "ready"
    /\ ~AllRead
    /\ LET i == Processes[pos]
       IN  /\ seen' = seen \cup {n \in {nameOf[i]} : Seen(i)}
           /\ up' = up \cup {n \in {nameOf[i]} : Up(i)}
    /\ pos' = pos + 1
    /\ UNCHANGED <<published, config, shuttingDown, query, agg, ran, base>>

Ready == seen \subseteq up

-----------------------------------------------------------------------------
(* Processes *)

LastStatus(old, s) == s
\* Running if any is, else failed if any is, else as the first.
WorstStatus(old, s) ==
    IF s = "running" \/ old = "none" \/ (old # "running" /\ s = "failed") THEN s ELSE old

\* Process.Info reads the state and the counter under the lock OnStart holds.
ProcessesReads ==
    /\ query = "processes"
    /\ ~AllRead
    /\ LET i == Processes[pos]
       IN  agg' = [agg EXCEPT ![nameOf[i]] =
             [instances |-> @.instances + 1,
              running |-> IF state[i] = "running" THEN @.running + 1 ELSE @.running,
              restarts |-> @.restarts + restarts[i],
              status |-> WorstStatus(@.status, state[i])]]
    /\ pos' = pos + 1
    /\ UNCHANGED <<published, config, shuttingDown, query, seen, up, ran, base>>

StatusNext ==
    \/ ProcessStep
    \/ ShutDown
    \/ \E q \in {"ready", "processes"} : Asked(q)
    \/ ReadyReads
    \/ ProcessesReads
    \/ Answered

-----------------------------------------------------------------------------
(* Properties *)

\* The restarts of a name, added up from the counters of its instances.
Restarts(counters, n) == MapThenSumSet(LAMBDA i : counters[i], InstancesOf(n))

\* Although no answer is a snapshot, each can be relied on for what it is used
\* for.  "200 only when gonner is not shutting down and every critical process
\* has a running instance" (docs/configuration.md:89): when Ready says so, one
\* instance of every critical name was running at some time during the query.
\* What /status and /metrics say of a name counts all its instances, says
\* running exactly if it counts a running one, counts no more of them than were
\* running during the query, and its restart counter lies between the true
\* value at the start and the true value now: it never falls from one scrape to
\* the next.
AnswersHoldDuring ==
    /\ query = "ready" /\ AllRead /\ Ready =>
         \A n \in critical \cap Names : InstancesOf(n) \cap ran # {}
    /\ query = "processes" /\ AllRead =>
         \A n \in Names :
            /\ agg[n].instances = Cardinality(InstancesOf(n))
            /\ (agg[n].status = "running") <=> (agg[n].running > 0)
            /\ agg[n].running <= Cardinality(InstancesOf(n) \cap ran)
            /\ Restarts(base, n) <= agg[n].restarts
            /\ agg[n].restarts <= Restarts(restarts, n)
=============================================================================
