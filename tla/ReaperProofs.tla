--------------------------- MODULE ReaperProofs ---------------------------
(***************************************************************************)
(* Proofs about Reaper, for any sets of pids and runs: type correctness,   *)
(* the exclusive ownership of managed children's statuses, the agreement   *)
(* of the registry with the waits, and the last sweep of the join.         *)
(***************************************************************************)
EXTENDS Reaper, TLAPS

\* The lock is held exactly where the code is between Lock and Unlock.
LockHeld ==
    /\ \A r \in Runs : lock = r <=> pc[r] \in {"locked", "forked"}
    /\ lock = TheReaper <=> rpc = "scan"

\* A run has a pid from cmd.Start on, and the kernel knows the child as the
\* run's own exactly until cmd.Wait.
ChildOwned ==
    \A r \in Runs :
        /\ pc[r] \in {"forked", "wait", "waited"} => child[r] \in Pids
        /\ pc[r] \in {"forked", "wait"} => owner[child[r]] = r
        /\ \A p \in Pids :
             owner[p] = r => child[r] = p /\ pc[r] \in {"forked", "wait"}

\* Once join has been called every run is over, and the zombies it must not
\* leave behind are still there, unmanaged, and on the list of the last sweep.
JoinProgress ==
    /\ cancelled => \A r \in Runs : pc[r] \in {"idle", "done"}
    /\ final \/ due # {} => cancelled
    /\ \A p \in due : owner[p] = Orphan /\ zombie[p]
    /\ final /\ rpc = "scan" => due \subseteq todo
    /\ rpc = "stopped" => final

IInv ==
    /\ TypeOK
    /\ LockHeld
    /\ ChildOwned
    /\ RegistryMirrorsWaits
    /\ NoStolenStatus
    /\ JoinProgress
    /\ JoinLeavesNoZombie

LEMMA InitIInv == Init => IInv
  <1> SUFFICES ASSUME Init PROVE IInv
    OBVIOUS
  <1>1. TypeOK
    <2>1. owner \in [Pids -> Runs \cup {Orphan, None}] /\ zombie \in [Pids -> BOOLEAN]
      BY DEF Init
    <2>2. managed \in [Pids -> Runs \cup {None}] /\ lock \in Parties \cup {None}
      BY DEF Init
    <2>3. child \in [Runs -> Pids \cup {None}]
      BY DEF Init
    <2>4. pc \in [Runs -> {"idle", "locked", "forked", "wait", "waited", "done"}]
      BY DEF Init
    <2>5. status \in [Runs -> {"none", "own", "lost"}]
      BY DEF Init
    <2>6. todo \in SUBSET Pids /\ due \in SUBSET Pids
      BY DEF Init
    <2>7. /\ rpc \in {"off", "refused", "sweep", "scan", "select", "stopped", "failed"}
          /\ final \in BOOLEAN
          /\ cancelled \in BOOLEAN
          /\ sig \in BOOLEAN
      BY DEF Init
    <2>8. errors \in 0..1
      BY DEF Init
    <2> QED
      BY <2>1, <2>2, <2>3, <2>4, <2>5, <2>6, <2>7, <2>8 DEF TypeOK
  <1>2. LockHeld
    BY ConstantsDiffer DEF Init, LockHeld
  <1>3. ChildOwned
    BY ConstantsDiffer DEF Init, ChildOwned
  <1>4. RegistryMirrorsWaits /\ NoStolenStatus /\ JoinProgress /\ JoinLeavesNoZombie
    BY DEF Init, RegistryMirrorsWaits, NoStolenStatus, JoinProgress, JoinLeavesNoZombie
  <1> QED
    BY <1>1, <1>2, <1>3, <1>4 DEF IInv

LEMMA AdoptStep ==
  ASSUME IInv, NEW p \in Pids, Adopt(p) PROVE IInv'
  <1> USE ConstantsDiffer DEF IInv, kernel, runVars, reapVars
  <1>1. TypeOK'
    BY DEF Adopt, TypeOK, ChildOwned, Parties, Listening
  <1>2. LockHeld'
    BY DEF Adopt, TypeOK, LockHeld, Listening
  <1>3. ChildOwned'
    BY DEF Adopt, TypeOK, LockHeld, ChildOwned, RegistryMirrorsWaits, Parties, Listening
  <1>4. RegistryMirrorsWaits'
    BY DEF Adopt, TypeOK, LockHeld, ChildOwned, RegistryMirrorsWaits, Listening
  <1>5. NoStolenStatus'
    BY DEF Adopt, TypeOK, ChildOwned, NoStolenStatus, Listening
  <1>6. JoinProgress'
    BY DEF Adopt, TypeOK, LockHeld, ChildOwned, RegistryMirrorsWaits, JoinProgress, Listening
  <1>7. JoinLeavesNoZombie'
    BY DEF Adopt, TypeOK, JoinProgress, JoinLeavesNoZombie, Listening
  <1> QED
    BY <1>1, <1>2, <1>3, <1>4, <1>5, <1>6, <1>7

LEMMA ExitStep ==
  ASSUME IInv, NEW p \in Pids, Exit(p) PROVE IInv'
  <1> USE ConstantsDiffer DEF IInv, kernel, runVars, reapVars
  <1>1. TypeOK'
    BY DEF Exit, TypeOK, ChildOwned, Parties, Listening
  <1>2. LockHeld'
    BY DEF Exit, TypeOK, LockHeld, Listening
  <1>3. ChildOwned'
    BY DEF Exit, TypeOK, LockHeld, ChildOwned, RegistryMirrorsWaits, Parties, Listening
  <1>4. RegistryMirrorsWaits'
    BY DEF Exit, TypeOK, LockHeld, ChildOwned, RegistryMirrorsWaits, Listening
  <1>5. NoStolenStatus'
    BY DEF Exit, TypeOK, ChildOwned, NoStolenStatus, Listening
  <1>6. JoinProgress'
    BY DEF Exit, TypeOK, LockHeld, ChildOwned, RegistryMirrorsWaits, JoinProgress, Listening
  <1>7. JoinLeavesNoZombie'
    BY DEF Exit, TypeOK, JoinProgress, JoinLeavesNoZombie, Listening
  <1> QED
    BY <1>1, <1>2, <1>3, <1>4, <1>5, <1>6, <1>7

LEMMA RunLockStep ==
  ASSUME IInv, NEW r \in Runs, RunLock(r) PROVE IInv'
  <1> USE ConstantsDiffer DEF IInv, kernel, runVars, reapVars
  <1>1. TypeOK'
    BY DEF RunLock, TypeOK, ChildOwned, Parties
  <1>2. LockHeld'
    BY DEF RunLock, TypeOK, LockHeld
  <1>3. ChildOwned'
    BY DEF RunLock, TypeOK, LockHeld, ChildOwned, RegistryMirrorsWaits, Parties
  <1>4. RegistryMirrorsWaits'
    BY DEF RunLock, TypeOK, LockHeld, ChildOwned, RegistryMirrorsWaits
  <1>5. NoStolenStatus'
    BY DEF RunLock, TypeOK, ChildOwned, NoStolenStatus
  <1>6. JoinProgress'
    BY DEF RunLock, TypeOK, LockHeld, ChildOwned, RegistryMirrorsWaits, JoinProgress
  <1>7. JoinLeavesNoZombie'
    BY DEF RunLock, TypeOK, JoinProgress, JoinLeavesNoZombie
  <1> QED
    BY <1>1, <1>2, <1>3, <1>4, <1>5, <1>6, <1>7

LEMMA RunAbortStep ==
  ASSUME IInv, NEW r \in Runs, RunAbort(r) PROVE IInv'
  <1> USE ConstantsDiffer DEF IInv, kernel, runVars, reapVars
  <1>1. TypeOK'
    BY DEF RunAbort, TypeOK, ChildOwned, Parties
  <1>2. LockHeld'
    BY DEF RunAbort, TypeOK, LockHeld
  <1>3. ChildOwned'
    BY DEF RunAbort, TypeOK, LockHeld, ChildOwned, RegistryMirrorsWaits, Parties
  <1>4. RegistryMirrorsWaits'
    BY DEF RunAbort, TypeOK, LockHeld, ChildOwned, RegistryMirrorsWaits
  <1>5. NoStolenStatus'
    BY DEF RunAbort, TypeOK, ChildOwned, NoStolenStatus
  <1>6. JoinProgress'
    BY DEF RunAbort, TypeOK, LockHeld, ChildOwned, RegistryMirrorsWaits, JoinProgress
  <1>7. JoinLeavesNoZombie'
    BY DEF RunAbort, TypeOK, JoinProgress, JoinLeavesNoZombie
  <1> QED
    BY <1>1, <1>2, <1>3, <1>4, <1>5, <1>6, <1>7

LEMMA RunForkStep ==
  ASSUME IInv, NEW r \in Runs, RunFork(r) PROVE IInv'
  <1> USE ConstantsDiffer DEF IInv, kernel, runVars, reapVars
  <1>1. TypeOK'
    BY DEF RunFork, TypeOK, ChildOwned, Parties
  <1>2. LockHeld'
    BY DEF RunFork, TypeOK, LockHeld
  <1>3. ChildOwned'
    BY DEF RunFork, TypeOK, LockHeld, ChildOwned, RegistryMirrorsWaits, Parties
  <1>4. RegistryMirrorsWaits'
    BY DEF RunFork, TypeOK, LockHeld, ChildOwned, RegistryMirrorsWaits
  <1>5. NoStolenStatus'
    BY DEF RunFork, TypeOK, ChildOwned, NoStolenStatus
  <1>6. JoinProgress'
    BY DEF RunFork, TypeOK, LockHeld, ChildOwned, RegistryMirrorsWaits, JoinProgress
  <1>7. JoinLeavesNoZombie'
    BY DEF RunFork, TypeOK, JoinProgress, JoinLeavesNoZombie
  <1> QED
    BY <1>1, <1>2, <1>3, <1>4, <1>5, <1>6, <1>7

LEMMA RunRegisterStep ==
  ASSUME IInv, NEW r \in Runs, RunRegister(r) PROVE IInv'
  <1> USE ConstantsDiffer DEF IInv, kernel, runVars, reapVars
  <1>1. TypeOK'
    BY DEF RunRegister, TypeOK, ChildOwned, Parties
  <1>2. LockHeld'
    BY DEF RunRegister, TypeOK, LockHeld
  <1>3. ChildOwned'
    BY DEF RunRegister, TypeOK, LockHeld, ChildOwned, RegistryMirrorsWaits, Parties
  <1>4. RegistryMirrorsWaits'
    BY DEF RunRegister, TypeOK, LockHeld, ChildOwned, RegistryMirrorsWaits
  <1>5. NoStolenStatus'
    BY DEF RunRegister, TypeOK, ChildOwned, NoStolenStatus
  <1>6. JoinProgress'
    BY DEF RunRegister, TypeOK, LockHeld, ChildOwned, RegistryMirrorsWaits, JoinProgress
  <1>7. JoinLeavesNoZombie'
    BY DEF RunRegister, TypeOK, JoinProgress, JoinLeavesNoZombie
  <1> QED
    BY <1>1, <1>2, <1>3, <1>4, <1>5, <1>6, <1>7

LEMMA RunWaitStep ==
  ASSUME IInv, NEW r \in Runs, RunWait(r) PROVE IInv'
  <1> USE ConstantsDiffer DEF IInv, kernel, runVars, reapVars
  <1>1. TypeOK'
    <2>1. owner' \in [Pids -> Runs \cup {Orphan, None}] /\ zombie' \in [Pids -> BOOLEAN]
      <3>1. CASE owner[child[r]] = r
        BY <3>1 DEF RunWait, Release, TypeOK
      <3>2. CASE ~(owner[child[r]] = r)
        BY <3>2 DEF RunWait, TypeOK
      <3> QED
        BY <3>1, <3>2
    <2>2. due' \in SUBSET Pids
      BY DEF RunWait, TypeOK
    <2> QED
      BY <2>1, <2>2 DEF RunWait, TypeOK, Parties
  <1>2. LockHeld'
    BY DEF RunWait, TypeOK, LockHeld, Release
  <1>3. ChildOwned'
    BY DEF RunWait, TypeOK, LockHeld, ChildOwned, RegistryMirrorsWaits, Parties, Release
  <1>4. RegistryMirrorsWaits'
    BY DEF RunWait, TypeOK, LockHeld, ChildOwned, RegistryMirrorsWaits, Release
  <1>5. NoStolenStatus'
    BY DEF RunWait, TypeOK, ChildOwned, NoStolenStatus, Release
  <1>6. JoinProgress'
    BY DEF RunWait, TypeOK, LockHeld, ChildOwned, RegistryMirrorsWaits, JoinProgress, Release
  <1>7. JoinLeavesNoZombie'
    BY DEF RunWait, TypeOK, JoinProgress, JoinLeavesNoZombie, Release
  <1> QED
    BY <1>1, <1>2, <1>3, <1>4, <1>5, <1>6, <1>7

LEMMA RunUnregisterStep ==
  ASSUME IInv, NEW r \in Runs, RunUnregister(r) PROVE IInv'
  <1> USE ConstantsDiffer DEF IInv, kernel, runVars, reapVars
  <1>1. TypeOK'
    BY DEF RunUnregister, TypeOK, ChildOwned, Parties
  <1>2. LockHeld'
    BY DEF RunUnregister, TypeOK, LockHeld
  <1>3. ChildOwned'
    BY DEF RunUnregister, TypeOK, LockHeld, ChildOwned, RegistryMirrorsWaits, Parties
  <1>4. RegistryMirrorsWaits'
    BY DEF RunUnregister, TypeOK, LockHeld, ChildOwned, RegistryMirrorsWaits
  <1>5. NoStolenStatus'
    BY DEF RunUnregister, TypeOK, ChildOwned, NoStolenStatus
  <1>6. JoinProgress'
    BY DEF RunUnregister, TypeOK, LockHeld, ChildOwned, RegistryMirrorsWaits, JoinProgress
  <1>7. JoinLeavesNoZombie'
    BY DEF RunUnregister, TypeOK, JoinProgress, JoinLeavesNoZombie
  <1> QED
    BY <1>1, <1>2, <1>3, <1>4, <1>5, <1>6, <1>7

LEMMA StartReaperStep ==
  ASSUME IInv, StartReaper PROVE IInv'
  <1> USE ConstantsDiffer DEF IInv, kernel, runVars, reapVars
  <1>1. TypeOK'
    BY DEF StartReaper, TypeOK, ChildOwned, Parties
  <1>2. LockHeld'
    BY DEF StartReaper, TypeOK, LockHeld
  <1>3. ChildOwned'
    BY DEF StartReaper, TypeOK, LockHeld, ChildOwned, RegistryMirrorsWaits, Parties
  <1>4. RegistryMirrorsWaits'
    BY DEF StartReaper, TypeOK, LockHeld, ChildOwned, RegistryMirrorsWaits
  <1>5. NoStolenStatus'
    BY DEF StartReaper, TypeOK, ChildOwned, NoStolenStatus
  <1>6. JoinProgress'
    BY DEF StartReaper, TypeOK, LockHeld, ChildOwned, RegistryMirrorsWaits, JoinProgress
  <1>7. JoinLeavesNoZombie'
    BY DEF StartReaper, TypeOK, JoinProgress, JoinLeavesNoZombie
  <1> QED
    BY <1>1, <1>2, <1>3, <1>4, <1>5, <1>6, <1>7

LEMMA ReaperListStep ==
  ASSUME IInv, ReaperList PROVE IInv'
  <1> USE ConstantsDiffer DEF IInv, kernel, runVars, reapVars
  <1>1. TypeOK'
    BY DEF ReaperList, TypeOK, ChildOwned, Parties
  <1>2. LockHeld'
    BY DEF ReaperList, TypeOK, LockHeld
  <1>3. ChildOwned'
    BY DEF ReaperList, TypeOK, LockHeld, ChildOwned, RegistryMirrorsWaits, Parties
  <1>4. RegistryMirrorsWaits'
    BY DEF ReaperList, TypeOK, LockHeld, ChildOwned, RegistryMirrorsWaits
  <1>5. NoStolenStatus'
    BY DEF ReaperList, TypeOK, ChildOwned, NoStolenStatus
  <1>6. JoinProgress'
    BY DEF ReaperList, TypeOK, LockHeld, ChildOwned, RegistryMirrorsWaits, JoinProgress
  <1>7. JoinLeavesNoZombie'
    BY DEF ReaperList, TypeOK, JoinProgress, JoinLeavesNoZombie
  <1> QED
    BY <1>1, <1>2, <1>3, <1>4, <1>5, <1>6, <1>7

LEMMA ReaperFailStep ==
  ASSUME IInv, ReaperFail PROVE IInv'
  <1> USE ConstantsDiffer DEF IInv, kernel, runVars, reapVars
  <1>1. TypeOK'
    BY DEF ReaperFail, TypeOK, ChildOwned, Parties
  <1>2. LockHeld'
    BY DEF ReaperFail, TypeOK, LockHeld
  <1>3. ChildOwned'
    BY DEF ReaperFail, TypeOK, LockHeld, ChildOwned, RegistryMirrorsWaits, Parties
  <1>4. RegistryMirrorsWaits'
    BY DEF ReaperFail, TypeOK, LockHeld, ChildOwned, RegistryMirrorsWaits
  <1>5. NoStolenStatus'
    BY DEF ReaperFail, TypeOK, ChildOwned, NoStolenStatus
  <1>6. JoinProgress'
    BY DEF ReaperFail, TypeOK, LockHeld, ChildOwned, RegistryMirrorsWaits, JoinProgress
  <1>7. JoinLeavesNoZombie'
    BY DEF ReaperFail, TypeOK, JoinProgress, JoinLeavesNoZombie
  <1> QED
    BY <1>1, <1>2, <1>3, <1>4, <1>5, <1>6, <1>7

LEMMA ReaperVisitStep ==
  ASSUME IInv, NEW p \in Pids, ReaperVisit(p) PROVE IInv'
  <1> USE ConstantsDiffer DEF IInv, kernel, runVars, reapVars
  <1>1. TypeOK'
    <2>1. owner' \in [Pids -> Runs \cup {Orphan, None}] /\ zombie' \in [Pids -> BOOLEAN]
      <3>1. CASE managed[p] = None /\ zombie[p]
        BY <3>1 DEF ReaperVisit, Release, TypeOK
      <3>2. CASE ~(managed[p] = None /\ zombie[p])
        BY <3>2 DEF ReaperVisit, TypeOK
      <3> QED
        BY <3>1, <3>2
    <2>2. due' \in SUBSET Pids
      BY DEF ReaperVisit, TypeOK
    <2> QED
      BY <2>1, <2>2 DEF ReaperVisit, TypeOK, Parties
  <1>2. LockHeld'
    BY DEF ReaperVisit, TypeOK, LockHeld, Release
  <1>3. ChildOwned'
    BY DEF ReaperVisit, TypeOK, LockHeld, ChildOwned, RegistryMirrorsWaits, Parties, Release
  <1>4. RegistryMirrorsWaits'
    BY DEF ReaperVisit, TypeOK, LockHeld, ChildOwned, RegistryMirrorsWaits, Release
  <1>5. NoStolenStatus'
    BY DEF ReaperVisit, TypeOK, ChildOwned, NoStolenStatus, Release
  <1>6. JoinProgress'
    BY DEF ReaperVisit, TypeOK, LockHeld, ChildOwned, RegistryMirrorsWaits, JoinProgress, Release
  <1>7. JoinLeavesNoZombie'
    BY DEF ReaperVisit, TypeOK, JoinProgress, JoinLeavesNoZombie, Release
  <1> QED
    BY <1>1, <1>2, <1>3, <1>4, <1>5, <1>6, <1>7

LEMMA ReaperUnlockStep ==
  ASSUME IInv, ReaperUnlock PROVE IInv'
  <1> USE ConstantsDiffer DEF IInv, kernel, runVars, reapVars
  <1>1. TypeOK'
    BY DEF ReaperUnlock, TypeOK, ChildOwned, Parties
  <1>2. LockHeld'
    BY DEF ReaperUnlock, TypeOK, LockHeld
  <1>3. ChildOwned'
    BY DEF ReaperUnlock, TypeOK, LockHeld, ChildOwned, RegistryMirrorsWaits, Parties
  <1>4. RegistryMirrorsWaits'
    BY DEF ReaperUnlock, TypeOK, LockHeld, ChildOwned, RegistryMirrorsWaits
  <1>5. NoStolenStatus'
    BY DEF ReaperUnlock, TypeOK, ChildOwned, NoStolenStatus
  <1>6. JoinProgress'
    BY DEF ReaperUnlock, TypeOK, LockHeld, ChildOwned, RegistryMirrorsWaits, JoinProgress
  <1>7. JoinLeavesNoZombie'
    BY DEF ReaperUnlock, TypeOK, JoinProgress, JoinLeavesNoZombie
  <1> QED
    BY <1>1, <1>2, <1>3, <1>4, <1>5, <1>6, <1>7

LEMMA ReaperWakeStep ==
  ASSUME IInv, ReaperSignalled \/ ReaperTick \/ ReaperCancelled PROVE IInv'
  <1> USE ConstantsDiffer DEF IInv, kernel, runVars, reapVars
  <1>1. TypeOK'
    <2>1. /\ rpc' = "sweep" /\ final' \in BOOLEAN /\ sig' \in BOOLEAN
          /\ UNCHANGED <<kernel, managed, lock, runVars, todo, cancelled, due, errors>>
      BY DEF ReaperSignalled, ReaperTick, ReaperCancelled, TypeOK
    <2> QED
      BY <2>1 DEF TypeOK
  <1>2. LockHeld'
    BY DEF ReaperSignalled, ReaperTick, ReaperCancelled, TypeOK, LockHeld
  <1>3. ChildOwned'
    BY DEF ReaperSignalled, ReaperTick, ReaperCancelled, TypeOK, LockHeld, ChildOwned, RegistryMirrorsWaits, Parties
  <1>4. RegistryMirrorsWaits'
    BY DEF ReaperSignalled, ReaperTick, ReaperCancelled, TypeOK, LockHeld, ChildOwned, RegistryMirrorsWaits
  <1>5. NoStolenStatus'
    BY DEF ReaperSignalled, ReaperTick, ReaperCancelled, TypeOK, ChildOwned, NoStolenStatus
  <1>6. JoinProgress'
    BY DEF ReaperSignalled, ReaperTick, ReaperCancelled, TypeOK, LockHeld, ChildOwned, RegistryMirrorsWaits, JoinProgress
  <1>7. JoinLeavesNoZombie'
    BY DEF ReaperSignalled, ReaperTick, ReaperCancelled, TypeOK, JoinProgress, JoinLeavesNoZombie
  <1> QED
    BY <1>1, <1>2, <1>3, <1>4, <1>5, <1>6, <1>7

LEMMA JoinReaperStep ==
  ASSUME IInv, JoinReaper PROVE IInv'
  <1> USE ConstantsDiffer DEF IInv, kernel, runVars, reapVars
  <1>1. TypeOK'
    BY DEF JoinReaper, TypeOK, ChildOwned, Parties
  <1>2. LockHeld'
    BY DEF JoinReaper, TypeOK, LockHeld
  <1>3. ChildOwned'
    BY DEF JoinReaper, TypeOK, LockHeld, ChildOwned, RegistryMirrorsWaits, Parties
  <1>4. RegistryMirrorsWaits'
    BY DEF JoinReaper, TypeOK, LockHeld, ChildOwned, RegistryMirrorsWaits
  <1>5. NoStolenStatus'
    BY DEF JoinReaper, TypeOK, ChildOwned, NoStolenStatus
  <1>6. JoinProgress'
    BY DEF JoinReaper, TypeOK, LockHeld, ChildOwned, RegistryMirrorsWaits, JoinProgress
  <1>7. JoinLeavesNoZombie'
    BY DEF JoinReaper, TypeOK, JoinProgress, JoinLeavesNoZombie
  <1> QED
    BY <1>1, <1>2, <1>3, <1>4, <1>5, <1>6, <1>7

LEMMA StutterStep ==
  ASSUME IInv, UNCHANGED vars PROVE IInv'
  BY DEF vars, IInv, TypeOK, LockHeld, ChildOwned, RegistryMirrorsWaits,
     NoStolenStatus, JoinProgress, JoinLeavesNoZombie

\* The strengthened invariant holds in every reachable state: one case for
\* each action of the specification.
THEOREM Inductive == Spec => []IInv
  <1>1. ASSUME IInv, [Next]_vars PROVE IInv'
    <2> USE <1>1
    <2>1. CASE \E r \in Runs : RunNext(r)
      BY <2>1, RunLockStep, RunAbortStep, RunForkStep, RunRegisterStep,
         RunWaitStep, RunUnregisterStep DEF RunNext
    <2>2. CASE ReaperNext
      BY <2>2, StartReaperStep, ReaperListStep, ReaperFailStep,
         ReaperVisitStep, ReaperUnlockStep, ReaperWakeStep DEF ReaperNext
    <2>3. CASE JoinReaper
      BY <2>3, JoinReaperStep
    <2>4. CASE KernelNext
      BY <2>4, AdoptStep, ExitStep DEF KernelNext
    <2>5. CASE UNCHANGED vars
      BY <2>5, StutterStep
    <2> QED
      BY <2>1, <2>2, <2>3, <2>4, <2>5 DEF Next
  <1> QED
    BY <1>1, InitIInv, PTL DEF Spec

\* Every variable keeps its type: in particular Service.Errors never holds
\* more than the one error its channel has room for (service.go:34).
THEOREM TypeCorrect == Spec => []TypeOK
  BY Inductive, PTL DEF IInv

\* For any number of runs and pids, cmd.Wait finds its own child: nobody else
\* has taken the status (reaper_linux.go:68).
THEOREM ExclusiveStatus == Spec => []NoStolenStatus
  BY Inductive, PTL DEF IInv

\* The registry names the waiting runs and masks no pid from the reaper once
\* its run is over, whatever pids the kernel reuses (service.go:192).
THEOREM RegistryAgrees == Spec => []RegistryMirrorsWaits
  BY Inductive, PTL DEF IInv

\* The join function leaves no orphan that was dead when it was called
\* (reaper_linux.go:92).
THEOREM JoinSweeps == Spec => []JoinLeavesNoZombie
  BY Inductive, PTL DEF IInv
=============================================================================
