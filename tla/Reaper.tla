------------------------------ MODULE Reaper ------------------------------
(***************************************************************************)
(* The orphan reaper of gonner running as PID 1, and the registry of       *)
(* managed children it shares with every execution.Service.Run             *)
(* (internal/execution/reaper_linux.go, and the parts of service.go that   *)
(* take the registry lock).                                                *)
(*                                                                         *)
(* Two parties wait for children of the same process: os/exec, once for    *)
(* each child that Run starts, and the reaper, for orphans that the kernel *)
(* reparents to PID 1.  The kernel hands a status to whoever asks first,   *)
(* and hands the pid out again as soon as the status has been taken, which *)
(* is before Run deletes its registry entry.                               *)
(*                                                                         *)
(* A pid stands for a process that is a child of PID 1, or is free.  A     *)
(* run is one call of Service.Run; the steps of Run that do not touch the  *)
(* registry or the child's status are in module Execution.                 *)
(***************************************************************************)
EXTENDS Naturals, FiniteSets

CONSTANTS
    Pids,       \* process ids the kernel may hand out
    Runs,       \* calls of Service.Run (children.managed holds their *exec.Cmd)
    Orphan,     \* owner of a process that was reparented to PID 1
    TheReaper,  \* the reaper goroutine, as a holder of the registry lock
    None

ASSUME ConstantsDiffer ==
    /\ {Orphan, TheReaper, None} \cap Runs = {}
    /\ Orphan # None
    /\ TheReaper # None

VARIABLES
    owner,      \* kernel: whose child a pid is, None when the pid is free
    zombie,     \* kernel: has the process exited without being waited for?
    managed,    \* children.managed: the run registered under a pid
    lock,       \* holder of the mutex in children
    pc,         \* control point of every run
    child,      \* the pid of cmd.Process, for a run that has started one
    status,     \* what cmd.Wait gave a run: its own child's status or ECHILD
    rpc,        \* control point of the reaper goroutine
    todo,       \* pids read by directChildren and not yet visited
    final,      \* is the sweep under way the one after ctx.Done?
    cancelled,  \* the join function has cancelled the reaper's context
    due,        \* history: orphan zombies that existed when join was called
    sig,        \* a SIGCHLD is waiting in the reaper's channel
    errors      \* Service.Errors, a channel of capacity one

kernel == <<owner, zombie>>
runVars == <<pc, child, status>>
reapVars == <<rpc, todo, final>>
vars == <<owner, zombie, managed, lock, pc, child, status, rpc, todo, final,
          cancelled, due, sig, errors>>

Parties == Runs \cup {TheReaper}

\* signal.Notify(SIGCHLD) is in force while the goroutine runs.
Listening == rpc \in {"sweep", "scan", "select"}

TypeOK ==
    /\ owner \in [Pids -> Runs \cup {Orphan, None}]
    /\ zombie \in [Pids -> BOOLEAN]
    /\ managed \in [Pids -> Runs \cup {None}]
    /\ lock \in Parties \cup {None}
    /\ pc \in [Runs -> {"idle", "locked", "forked", "wait", "waited", "done"}]
    /\ child \in [Runs -> Pids \cup {None}]
    /\ status \in [Runs -> {"none", "own", "lost"}]
    /\ rpc \in {"off", "refused", "sweep", "scan", "select", "stopped", "failed"}
    /\ todo \in SUBSET Pids
    /\ final \in BOOLEAN
    /\ cancelled \in BOOLEAN
    /\ due \in SUBSET Pids
    /\ sig \in BOOLEAN
    /\ errors \in 0..1

Init ==
    /\ owner = [p \in Pids |-> None]
    /\ zombie = [p \in Pids |-> FALSE]
    /\ managed = [p \in Pids |-> None]
    /\ lock = None
    /\ pc = [r \in Runs |-> "idle"]
    /\ child = [r \in Runs |-> None]
    /\ status = [r \in Runs |-> "none"]
    /\ rpc = "off"
    /\ todo = {}
    /\ final = FALSE
    /\ cancelled = FALSE
    /\ due = {}
    /\ sig = FALSE
    /\ errors = 0

(***************************************************************************)
(* The kernel.  A free pid can be taken again by a descendant that is      *)
(* later reparented to PID 1, alive or already dead; PID 1 gets a SIGCHLD  *)
(* for a child that exits and for a zombie it inherits.                    *)
(***************************************************************************)
Adopt(p) ==
    /\ owner[p] = None
    /\ owner' = [owner EXCEPT ![p] = Orphan]
    /\ \E dead \in BOOLEAN :
         /\ zombie' = [zombie EXCEPT ![p] = dead]
         /\ sig' = (sig \/ (dead /\ Listening))
    /\ UNCHANGED <<managed, lock, runVars, reapVars, cancelled, due, errors>>

Exit(p) ==
    /\ owner[p] # None
    /\ ~zombie[p]
    /\ zombie' = [zombie EXCEPT ![p] = TRUE]
    /\ sig' = (sig \/ Listening)
    /\ UNCHANGED <<owner, managed, lock, runVars, reapVars, cancelled, due, errors>>

\* The kernel forgets a child whose status has been taken; its pid is free.
Release(p) ==
    /\ owner' = [owner EXCEPT ![p] = None]
    /\ zombie' = [zombie EXCEPT ![p] = FALSE]

(***************************************************************************)
(* Service.Run.                                                            *)
(***************************************************************************)
RunLock(r) ==
    /\ pc[r] = "idle"
    /\ rpc \notin {"off", "refused"}
    /\ ~cancelled
    /\ lock = None
    /\ lock' = r
    /\ pc' = [pc EXCEPT ![r] = "locked"]
    /\ UNCHANGED <<kernel, managed, child, status, reapVars, cancelled, due, sig, errors>>

\* The context is done, or cmd.Start fails: nothing is registered.
RunAbort(r) ==
    /\ pc[r] = "locked"
    /\ lock' = None
    /\ pc' = [pc EXCEPT ![r] = "done"]
    /\ UNCHANGED <<kernel, managed, child, status, reapVars, cancelled, due, sig, errors>>

RunForkEarlyUnlock(r) ==
    /\ pc[r] = "locked"
    /\ \E p \in Pids :
         /\ owner[p] = None
         /\ owner' = [owner EXCEPT ![p] = r]
         /\ zombie' = [zombie EXCEPT ![p] = FALSE]
         /\ child' = [child EXCEPT ![r] = p]
    /\ lock' = None
    /\ pc' = [pc EXCEPT ![r] = "forked"]
    /\ UNCHANGED <<managed, status, reapVars, cancelled, due, sig, errors>>

\* cmd.Start: the child exists, and may exit, before it is registered.
RunFork(r) ==
    /\ pc[r] = "locked"
    /\ \E p \in Pids :
         /\ owner[p] = None
         /\ owner' = [owner EXCEPT ![p] = r]
         /\ zombie' = [zombie EXCEPT ![p] = FALSE]
         /\ child' = [child EXCEPT ![r] = p]
    /\ pc' = [pc EXCEPT ![r] = "forked"]
    /\ UNCHANGED <<managed, lock, status, reapVars, cancelled, due, sig, errors>>

RunRegister(r) ==
    /\ pc[r] = "forked"
    /\ managed' = [managed EXCEPT ![child[r]] = r]
    /\ lock' = None
    /\ pc' = [pc EXCEPT ![r] = "wait"]
    /\ UNCHANGED <<kernel, child, status, reapVars, cancelled, due, sig, errors>>

\* cmd.Wait takes the child's status without the registry lock.  Had somebody
\* else taken it, the kernel would answer ECHILD.
RunWait(r) ==
    LET p == child[r] IN
    /\ pc[r] = "wait"
    /\ owner[p] = r => zombie[p]
    /\ IF owner[p] = r THEN Release(p) ELSE UNCHANGED kernel
    /\ status' = [status EXCEPT ![r] = IF owner[p] = r THEN "own" ELSE "lost"]
    /\ pc' = [pc EXCEPT ![r] = "waited"]
    /\ UNCHANGED <<managed, lock, child, reapVars, cancelled, due, sig, errors>>

RunUnregisterBlindly(r) ==
    /\ pc[r] = "waited"
    /\ lock = None
    /\ managed' = [managed EXCEPT ![child[r]] = None]
    /\ pc' = [pc EXCEPT ![r] = "done"]
    /\ UNCHANGED <<kernel, lock, child, status, reapVars, cancelled, due, sig, errors>>

\* Delete the entry only if it is still this run's: the pid was free since
\* cmd.Wait returned, and another run may have started a child under it.
RunUnregister(r) ==
    /\ pc[r] = "waited"
    /\ lock = None
    /\ managed' = IF managed[child[r]] = r
                  THEN [managed EXCEPT ![child[r]] = None]
                  ELSE managed
    /\ pc' = [pc EXCEPT ![r] = "done"]
    /\ UNCHANGED <<kernel, lock, child, status, reapVars, cancelled, due, sig, errors>>

(***************************************************************************)
(* The reaper goroutine.                                                   *)
(***************************************************************************)
\* StartReaper refuses to start when the children of PID 1 cannot be listed;
\* Manager.Run then returns without starting anything.
StartReaper ==
    /\ rpc = "off"
    /\ rpc' \in {"sweep", "refused"}
    /\ UNCHANGED <<kernel, managed, lock, runVars, todo, final, cancelled, due, sig, errors>>

\* reapOrphans takes the lock and lists the children, dead or alive.
ReaperList ==
    /\ rpc = "sweep"
    /\ lock = None
    /\ lock' = TheReaper
    /\ todo' = {p \in Pids : owner[p] # None}
    /\ rpc' = "scan"
    /\ UNCHANGED <<kernel, managed, runVars, final, cancelled, due, sig, errors>>

ReaperFailLocked ==
    /\ rpc = "sweep"
    /\ lock = None
    /\ lock' = TheReaper
    /\ rpc' = "failed"
    /\ errors' = 1
    /\ UNCHANGED <<kernel, managed, runVars, todo, final, cancelled, due, sig>>

\* The list cannot be read: report it, unless an error is pending, and give up.
ReaperFail ==
    /\ rpc = "sweep"
    /\ lock = None
    /\ rpc' = "failed"
    /\ errors' = 1
    /\ UNCHANGED <<kernel, managed, lock, runVars, todo, final, cancelled, due, sig>>

\* Wait4(pid, WNOHANG) on a child that is not managed.
ReaperVisit(p) ==
    /\ rpc = "scan"
    /\ p \in todo
    /\ todo' = todo \ {p}
    /\ IF managed[p] = None /\ zombie[p]
       THEN Release(p) /\ due' = due \ {p}
       ELSE UNCHANGED <<kernel, due>>
    /\ UNCHANGED <<managed, lock, runVars, rpc, final, cancelled, sig, errors>>

ReaperUnlock ==
    /\ rpc = "scan"
    /\ todo = {}
    /\ lock' = None
    /\ rpc' = IF final THEN "stopped" ELSE "select"
    /\ UNCHANGED <<kernel, managed, runVars, todo, final, cancelled, due, sig, errors>>

ReaperSignalled ==
    /\ rpc = "select"
    /\ sig
    /\ sig' = FALSE
    /\ rpc' = "sweep"
    /\ UNCHANGED <<kernel, managed, lock, runVars, todo, final, cancelled, due, errors>>

ReaperTickOnSignal ==
    /\ rpc = "select"
    /\ sig
    /\ rpc' = "sweep"
    /\ UNCHANGED <<kernel, managed, lock, runVars, todo, final, cancelled, due, sig, errors>>

\* The one-second ticker.
ReaperTick ==
    /\ rpc = "select"
    /\ rpc' = "sweep"
    /\ UNCHANGED <<kernel, managed, lock, runVars, todo, final, cancelled, due, sig, errors>>

ReaperCancelledNoSweep ==
    /\ rpc = "select"
    /\ cancelled
    /\ final' = TRUE
    /\ rpc' = "stopped"
    /\ UNCHANGED <<kernel, managed, lock, runVars, todo, cancelled, due, sig, errors>>

\* ctx.Done: one more sweep, then the goroutine ends.
ReaperCancelled ==
    /\ rpc = "select"
    /\ cancelled
    /\ final' = TRUE
    /\ rpc' = "sweep"
    /\ UNCHANGED <<kernel, managed, lock, runVars, todo, cancelled, due, sig, errors>>

\* joinReaper: Manager.Run calls it when every run it started has returned.
\* It comes back when rpc is "stopped" or "failed" (the done channel).
JoinReaper ==
    /\ rpc \notin {"off", "refused"}
    /\ ~cancelled
    /\ \A r \in Runs : pc[r] \in {"idle", "done"}
    /\ cancelled' = TRUE
    /\ due' = {p \in Pids : owner[p] = Orphan /\ zombie[p]}
    /\ UNCHANGED <<kernel, managed, lock, runVars, reapVars, sig, errors>>

RunNext(r) ==
    \/ RunLock(r)
    \/ RunAbort(r)
    \/ RunFork(r)
    \/ RunRegister(r)
    \/ RunWait(r)
    \/ RunUnregister(r)

ReaperNext ==
    \/ StartReaper
    \/ ReaperList
    \/ ReaperFail
    \/ \E p \in Pids : ReaperVisit(p)
    \/ ReaperUnlock
    \/ ReaperSignalled
    \/ ReaperTick
    \/ ReaperCancelled

KernelNext == \E p \in Pids : Adopt(p) \/ Exit(p)

Next ==
    \/ \E r \in Runs : RunNext(r)
    \/ ReaperNext
    \/ JoinReaper
    \/ KernelNext

(***************************************************************************)
(* Fairness.  A goroutine that can run does run.  sync.Mutex hands the     *)
(* lock over after a millisecond of starvation, so a party that keeps      *)
(* asking for it gets it; Go's select picks at random among ready cases,   *)
(* so a case that stays ready is picked in the end.  Both are strong       *)
(* fairness.  Nothing is assumed of the processes: they may run for ever.  *)
(***************************************************************************)
Fairness ==
    /\ \A r \in Runs :
         /\ WF_vars(RunAbort(r) \/ RunFork(r))
         /\ WF_vars(RunRegister(r))
         /\ WF_vars(RunWait(r))
         /\ SF_vars(RunUnregister(r))
    /\ WF_vars(StartReaper)
    /\ SF_vars(ReaperList \/ ReaperFail)
    /\ \A p \in Pids : WF_vars(ReaperVisit(p))
    /\ WF_vars(ReaperUnlock)
    /\ WF_vars(ReaperSignalled \/ ReaperTick \/ ReaperCancelled)
    /\ SF_vars(ReaperCancelled)

Spec == Init /\ [][Next]_vars

FairSpec == Spec /\ Fairness

-----------------------------------------------------------------------------
(* Properties *)

\* "os/exec retains exclusive ownership of every managed child status"
\* (reaper_linux.go:68): cmd.Wait never finds that the reaper, or the wait of
\* another run whose pid was reused, has taken its child's status.
NoStolenStatus == \A r \in Runs : status[r] # "lost"

\* The registry mirrors the waits: a run that is about to wait, or is waiting,
\* is registered under its child's pid, although an earlier run of the same pid
\* may delete its own entry at any time (service.go:192), and an entry
\* disappears with its run: no pid stays masked from the reaper for ever.
RegistryMirrorsWaits ==
    /\ \A r \in Runs : pc[r] = "wait" => managed[child[r]] = r
    /\ \A p \in Pids : managed[p] # None =>
         /\ pc[managed[p]] \in {"wait", "waited"}
         /\ child[managed[p]] = p

\* When the join function comes back after a sweep that could read the list,
\* no orphan that was dead when join was called is left: the last sweep after
\* ctx.Done is what makes this so (reaper_linux.go:92).
JoinLeavesNoZombie == rpc = "stopped" => due = {}

\* A dead orphan does not stay a zombie while the reaper runs, even when it
\* died under a pid that a finished run had not yet taken out of the registry:
\* the sweep its SIGCHLD caused skips it, and only the ticker looks again.
OrphansReaped ==
    \A p \in Pids :
        (owner[p] = Orphan /\ zombie[p] /\ rpc \notin {"off", "refused"})
            ~> (owner[p] # Orphan \/ ~zombie[p] \/ rpc \in {"stopped", "failed"})

\* A run whose child has exited gets out of the registry: neither the reaper's
\* sweeps nor the other runs keep the lock from it.
ExitedRunLeaves ==
    \A r \in Runs :
        (pc[r] = "wait" /\ zombie[child[r]]) ~> pc[r] = "done"
=============================================================================
