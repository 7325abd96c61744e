--------------------------- MODULE ManagerProofs ---------------------------
(***************************************************************************)
(* Proofs about Manager, for any valid configuration: any number of names, *)
(* instances and dependencies, both start modes and any critical set.      *)
(***************************************************************************)
EXTENDS Manager, TLAPS

Early == {"preflight", "reaper", "conditions", "evaluate"}
Late == {"join", "monitor", "drain", "cleanup", "returned"}

\* Where an instance may be, seen from its goroutine.
LifeInv ==
    \A i \in Insts :
        /\ g[i] \in {"none", "deps"} /\ ~done[i] => state[i] = "pending"
        /\ g[i] = "run" => state[i] \in {"starting", "running"}
        /\ g[i] \in {"deps", "run", "failing"} => ~done[i]
        /\ g[i] \in {"unmet", "ended", "broken", "over"} => done[i]
        /\ done[i] => state[i] \in Final
        /\ g[i] \in {"failing", "ended", "broken"} => state[i] = "failed"
        /\ g[i] = "unmet" /\ IsCritical(i) => state[i] = "failed"

\* The instances of the names from position k on have not been launched.
NotLaunched(k) ==
    \A j \in k..Len(Order) : \A i \in InstancesOf[Order[j]] : g[i] = "none"

MainInv ==
    /\ mpc \in Early => \A i \in Insts : g[i] = "none" /\ state[i] # "failed"
    /\ mpc \in Late => Joined
    /\ mpc = "returned" => \A i \in Insts : done[i]
    /\ mpc \notin {"cleanup", "returned"} => err = "none"
    /\ mpc = "launch" => NotLaunched(idx)
    /\ mpc = "launch" /\ mode = "parallel" => idx = 1
    /\ mpc = "gate" => mode # "parallel" /\ idx <= Len(Order) /\ NotLaunched(idx + 1)
    /\ mpc = "evaluate" => idx <= Len(Order)

\* A cause is on record before the context is done.
CauseInv ==
    /\ \A i \in Insts : IsCritical(i) /\ g[i] \in {"ended", "broken"} => ctx
    /\ \A i \in Insts : g[i] = "broken" => reported
    /\ errors = 1 /\ InTime => reported
    /\ ShutdownHasCause

\* An error is on its way to the result until the result is there.
ErrorInv ==
    /\ \A i \in Insts :
         state[i] = "failed" => \/ i \in failures
                                \/ g[i] \notin {"none", "over"}
                                \/ err = "failed"
    /\ reported => \/ errors = 1
                   \/ failures # {}
                   \/ \E i \in Insts : g[i] = "broken"
    /\ mpc \in {"cleanup", "returned"} /\ err # "failed" =>
         ~reported /\ \A i \in Insts : state[i] # "failed"
    /\ mpc \in {"drain", "cleanup", "returned"} => monitor # "watch"
    /\ mpc \in {"preflight", "reaper"} => monitor = "off"

IInv == TypeOK /\ LifeInv /\ MainInv /\ CauseInv /\ ErrorInv

\* Names are at one position each, and instances in one name each.
LEMMA Layout ==
  /\ Len(Order) \in Nat
  /\ \A j \in 1..Len(Order) : InstancesOf[Order[j]] \subseteq Insts
  /\ \A i \in Insts : \E j \in 1..Len(Order) : i \in InstancesOf[Order[j]]
  /\ \A j, k \in 1..Len(Order) :
       j # k => InstancesOf[Order[j]] \cap InstancesOf[Order[k]] = {}
  <1>1. Len(Order) \in Nat
    BY ConfigIsValid DEF ConfigIsValid
  <1>2. \A j \in 1..Len(Order) : Order[j] \in Names
    BY DEF Names
  <1>3. \A j, k \in 1..Len(Order) : j # k => Order[j] # Order[k]
    BY ConfigIsValid DEF ConfigIsValid
  <1>4. \A n, m \in Names : n # m => InstancesOf[n] \cap InstancesOf[m] = {}
    BY ConfigIsValid DEF ConfigIsValid
  <1>5. \A i \in Insts : \E j \in 1..Len(Order) : i \in InstancesOf[Order[j]]
    BY DEF Insts, Names
  <1>6. \A j \in 1..Len(Order) : InstancesOf[Order[j]] \subseteq Insts
    BY <1>2 DEF Insts
  <1> QED
    BY <1>1, <1>2, <1>3, <1>4, <1>5, <1>6

LEMMA LaunchAllIs ==
  ASSUME NEW S, LaunchAll(S)
  PROVE  \A i \in Insts : g'[i] = IF i \in S /\ ~done[i] THEN "deps" ELSE g[i]
  BY DEF LaunchAll

LEMMA FinishIs ==
  ASSUME TypeOK, NEW S, NEW s \in Final, Finish(S, s)
  PROVE  /\ \A i \in Insts : /\ state'[i] = IF i \in S THEN s ELSE state[i]
                             /\ done'[i] <=> done[i] \/ i \in S
         /\ state' \in [Insts -> Final \cup {"pending", "starting", "running"}]
         /\ done' \in [Insts -> BOOLEAN]
  BY DEF Finish, TypeOK

\* An error reported in time is on record; one that is not leaves no trace but
\* in the channel.
LEMMA ReportsAre ==
  ASSUME TypeOK, ServiceReports \/ ForwardReports
  PROVE  /\ UNCHANGED <<config, ctx, shuttingDown, mainVars, procVars, monitor, failures, err,
                        cancelled>>
         /\ errors' = 1
         /\ reported' \in BOOLEAN
         /\ reported => reported'
         /\ InTime => reported'
         /\ ~InTime => reported' = reported
  <1>1. CASE ServiceReports
    <2>1. InTime
      BY <1>1 DEF ServiceReports, ReaperRuns, InTime
    <2> QED
      BY <1>1, <2>1 DEF ServiceReports, Report
  <1>2. CASE ForwardReports
    <2>1. reported \in BOOLEAN /\ InTime \in BOOLEAN
      BY DEF TypeOK, InTime
    <2>2. reported' = (reported \/ InTime)
      BY <1>2 DEF ForwardReports
    <2>3. /\ UNCHANGED <<config, ctx, shuttingDown, mainVars, procVars, monitor, failures, err,
                         cancelled>>
          /\ errors' = 1
      BY <1>2 DEF ForwardReports, Report
    <2> QED
      BY <2>1, <2>2, <2>3
  <1> QED
    BY <1>1, <1>2

LEMMA TypeStep ==
  ASSUME IInv, [Next]_vars
  PROVE  TypeOK'
  <1> USE DEF IInv, TypeOK, MainInv, Final, IsCritical, config, mainVars, procVars, errVars
  <1>1. ASSUME Preflight
        PROVE  TypeOK'
    <2>1. CASE mpc' = "reaper" /\ UNCHANGED <<state, done, err>>
      BY <1>1, <2>1 DEF Preflight
    <2>2. ASSUME NEW i \in Insts, Finish({i}, "failed"), err' = "failed", mpc' = "cleanup"
          PROVE  TypeOK'
      BY <1>1, <2>2 DEF Preflight, Finish
    <2> QED
      BY <1>1, <2>1, <2>2 DEF Preflight
  <1>2. ASSUME StartReaper
        PROVE  TypeOK'
    BY <1>2 DEF StartReaper
  <1>3. ASSUME ConditionsEnd
        PROVE  TypeOK'
    BY <1>3 DEF ConditionsEnd, BeginLaunch
  <1>4. ASSUME ConditionsBegin
        PROVE  TypeOK'
    BY <1>4 DEF ConditionsBegin
  <1>5. ASSUME ConditionsDecide
        PROVE  TypeOK'
    <2>1. /\ state' \in [Insts -> Final \cup {"pending", "starting", "running"}]
          /\ done' \in [Insts -> BOOLEAN]
      BY <1>5, FinishIs DEF ConditionsDecide
    <2> QED
      BY <1>5, <2>1, Layout DEF ConditionsDecide
  <1>6. ASSUME ConditionsFail
        PROVE  TypeOK'
    BY <1>6 DEF ConditionsFail, BeginLaunch, Report
  <1>7. ASSUME Launch
        PROVE  TypeOK'
    BY <1>7 DEF Launch, LaunchAll
  <1>8. ASSUME SequentialGate
        PROVE  TypeOK'
    BY <1>8 DEF SequentialGate
  <1>9. ASSUME WaitGroup
        PROVE  TypeOK'
    BY <1>9 DEF WaitGroup
  <1>10. ASSUME JoinReaper
        PROVE  TypeOK'
    BY <1>10 DEF JoinReaper
  <1>11. ASSUME StopMonitor
        PROVE  TypeOK'
    BY <1>11 DEF StopMonitor
  <1>12. ASSUME Result
        PROVE  TypeOK'
    BY <1>12 DEF Result, DrainErrors
  <1>13. ASSUME Cleanup
        PROVE  TypeOK'
    BY <1>13 DEF Cleanup, FinishUnlaunched, Finish
  <1>14. ASSUME NEW i \in Insts, DepOpens(i)
        PROVE  TypeOK'
    BY <1>14 DEF DepOpens
  <1>15. ASSUME NEW i \in Insts, GivesUp(i)
        PROVE  TypeOK'
    BY <1>15 DEF GivesUp, Finish
  <1>16. ASSUME NEW i \in Insts, DepFails(i)
        PROVE  TypeOK'
    BY <1>16 DEF DepFails, Finish, WaitsForDep
  <1>17. ASSUME NEW i \in Insts, RecordsUnmet(i)
        PROVE  TypeOK'
    BY <1>17 DEF RecordsUnmet, CancelIfCritical
  <1>18. ASSUME NEW i \in Insts, RunBegins(i)
        PROVE  TypeOK'
    BY <1>18 DEF RunBegins
  <1>19. ASSUME NEW i \in Insts, ProcessStarts(i)
        PROVE  TypeOK'
    BY <1>19 DEF ProcessStarts
  <1>20. ASSUME NEW i \in Insts, ProcessRestarts(i)
        PROVE  TypeOK'
    BY <1>20 DEF ProcessRestarts
  <1>21. ASSUME NEW i \in Insts, ProcessStops(i)
        PROVE  TypeOK'
    BY <1>21 DEF ProcessStops, Finish
  <1>22. ASSUME NEW i \in Insts, ProcessFails(i)
        PROVE  TypeOK'
    BY <1>22 DEF ProcessFails
  <1>23. ASSUME NEW i \in Insts, ProcessReturns(i)
        PROVE  TypeOK'
    <2>1. ctx' \in BOOLEAN
      BY <1>23 DEF ProcessReturns, OnCriticalExit
    <2>2. errors' \in 0..1 /\ reported' \in BOOLEAN
      <3>1. errors' \in 0..1
        <4>1. errors' = errors \/ errors' = 1
          BY <1>23 DEF ProcessReturns, Report
        <4> QED
          BY <4>1
      <3>2. reported' \in BOOLEAN
        BY <1>23 DEF ProcessReturns
      <3> QED
        BY <3>1, <3>2
    <2>3. g' \in [Insts -> {"none", "deps", "unmet", "run", "failing", "ended", "broken", "over"}]
          /\ done' \in [Insts -> BOOLEAN]
      BY <1>23 DEF ProcessReturns
    <2> QED
      BY <1>23, <2>1, <2>2, <2>3 DEF ProcessReturns
  <1>24. ASSUME NEW i \in Insts, Records(i)
        PROVE  TypeOK'
    BY <1>24 DEF Records
  <1>25. ASSUME ServiceReports \/ ForwardReports
        PROVE  TypeOK'
    BY <1>25, ReportsAre DEF InTime
  <1>26. ASSUME MonitorTakes
        PROVE  TypeOK'
    BY <1>26 DEF MonitorTakes, MonitorCancels
  <1>27. ASSUME Cancel
        PROVE  TypeOK'
    BY <1>27 DEF Cancel
  <1>28. ASSUME NoteShutdown
        PROVE  TypeOK'
    BY <1>28 DEF NoteShutdown
  <1>29. CASE UNCHANGED vars
    BY <1>29 DEF vars
  <1> QED
    BY <1>1, <1>2, <1>3, <1>4, <1>5, <1>6, <1>7, <1>8, <1>9, <1>10, <1>11, <1>12, <1>13,
       <1>14, <1>15, <1>16, <1>17, <1>18, <1>19, <1>20, <1>21, <1>22, <1>23, <1>24, <1>25,
       <1>26, <1>27, <1>28, <1>29 DEF Next, Main, Goroutine, Ends

LEMMA LaunchIs ==
  ASSUME IInv, Launch
  PROVE  \A i \in Insts : g'[i] = g[i] \/ (g[i] = "none" /\ ~done[i] /\ g'[i] = "deps")
  <1> USE DEF IInv, TypeOK, MainInv
  <1>1. CASE LaunchAll(Insts) /\ mode = "parallel"
    <2>1. \A i \in Insts : g[i] = "none"
      BY <1>1, Layout DEF Launch, NotLaunched
    <2> QED
      BY <1>1, <2>1, LaunchAllIs
  <1>2. CASE LaunchAll(InstancesOf[Order[idx]]) /\ idx <= Len(Order)
    <2>1. \A i \in InstancesOf[Order[idx]] : g[i] = "none"
      BY <1>2, Layout DEF Launch, NotLaunched
    <2> QED
      BY <1>2, <2>1, LaunchAllIs
  <1>3. CASE g' = g
    BY <1>3
  <1> QED
    BY <1>1, <1>2, <1>3, Layout DEF Launch

LEMMA LifeStep ==
  ASSUME IInv, [Next]_vars
  PROVE  LifeInv'
  <1> USE DEF IInv, TypeOK, LifeInv, MainInv, Final, Early, Late, Joined, IsCritical,
              config, mainVars, procVars, errVars
  <1>1. ASSUME Preflight
        PROVE  LifeInv'
    <2>1. CASE mpc' = "reaper" /\ UNCHANGED <<state, done, err>>
      BY <1>1, <2>1 DEF Preflight
    <2>2. ASSUME NEW i \in Insts, Finish({i}, "failed")
          PROVE  LifeInv'
      BY <1>1, <2>2 DEF Preflight, Finish
    <2> QED
      BY <1>1, <2>1, <2>2 DEF Preflight
  <1>2. ASSUME StartReaper
        PROVE  LifeInv'
    BY <1>2 DEF StartReaper
  <1>3. ASSUME ConditionsEnd
        PROVE  LifeInv'
    BY <1>3 DEF ConditionsEnd, BeginLaunch
  <1>4. ASSUME ConditionsBegin
        PROVE  LifeInv'
    BY <1>4 DEF ConditionsBegin
  <1>5. ASSUME ConditionsDecide
        PROVE  LifeInv'
    <2>1. \A i \in Insts : g[i] = "none" /\ g'[i] = "none"
      BY <1>5 DEF ConditionsDecide
    <2>2. \A i \in Insts : \/ state'[i] = state[i] /\ done'[i] = done[i]
                           \/ state'[i] = "skipped" /\ done'[i]
      BY <1>5, FinishIs DEF ConditionsDecide
    <2> QED
      BY <2>1, <2>2
  <1>6. ASSUME ConditionsFail
        PROVE  LifeInv'
    BY <1>6 DEF ConditionsFail, BeginLaunch, Report
  <1>7. ASSUME Launch
        PROVE  LifeInv'
    <2>1. \A i \in Insts : g'[i] = g[i] \/ (g[i] = "none" /\ ~done[i] /\ g'[i] = "deps")
      BY <1>7, LaunchIs
    <2>2. UNCHANGED <<critical, state, done>>
      BY <1>7 DEF Launch
    <2> QED
      BY <2>1, <2>2
  <1>8. ASSUME SequentialGate
        PROVE  LifeInv'
    BY <1>8 DEF SequentialGate
  <1>9. ASSUME WaitGroup
        PROVE  LifeInv'
    BY <1>9 DEF WaitGroup
  <1>10. ASSUME JoinReaper
        PROVE  LifeInv'
    BY <1>10 DEF JoinReaper
  <1>11. ASSUME StopMonitor
        PROVE  LifeInv'
    BY <1>11 DEF StopMonitor
  <1>12. ASSUME Result
        PROVE  LifeInv'
    BY <1>12 DEF Result, DrainErrors
  <1>13. ASSUME Cleanup
        PROVE  LifeInv'
    BY <1>13 DEF Cleanup, FinishUnlaunched, Finish
  <1>14. ASSUME NEW i \in Insts, DepOpens(i)
        PROVE  LifeInv'
    BY <1>14 DEF DepOpens
  <1>15. ASSUME NEW i \in Insts, GivesUp(i)
        PROVE  LifeInv'
    BY <1>15 DEF GivesUp, Finish
  <1>16. ASSUME NEW i \in Insts, DepFails(i)
        PROVE  LifeInv'
    BY <1>16 DEF DepFails, Finish, WaitsForDep
  <1>17. ASSUME NEW i \in Insts, RecordsUnmet(i)
        PROVE  LifeInv'
    BY <1>17 DEF RecordsUnmet, CancelIfCritical
  <1>18. ASSUME NEW i \in Insts, RunBegins(i)
        PROVE  LifeInv'
    BY <1>18 DEF RunBegins
  <1>19. ASSUME NEW i \in Insts, ProcessStarts(i)
        PROVE  LifeInv'
    BY <1>19 DEF ProcessStarts
  <1>20. ASSUME NEW i \in Insts, ProcessRestarts(i)
        PROVE  LifeInv'
    BY <1>20 DEF ProcessRestarts
  <1>21. ASSUME NEW i \in Insts, ProcessStops(i)
        PROVE  LifeInv'
    BY <1>21 DEF ProcessStops, Finish
  <1>22. ASSUME NEW i \in Insts, ProcessFails(i)
        PROVE  LifeInv'
    BY <1>22 DEF ProcessFails
  <1>23. ASSUME NEW i \in Insts, ProcessReturns(i)
        PROVE  LifeInv'
    BY <1>23 DEF ProcessReturns, OnCriticalExit, Report
  <1>24. ASSUME NEW i \in Insts, Records(i)
        PROVE  LifeInv'
    BY <1>24 DEF Records
  <1>25. ASSUME ServiceReports \/ ForwardReports
        PROVE  LifeInv'
    BY <1>25, ReportsAre DEF InTime
  <1>26. ASSUME MonitorTakes
        PROVE  LifeInv'
    BY <1>26 DEF MonitorTakes, MonitorCancels
  <1>27. ASSUME Cancel
        PROVE  LifeInv'
    BY <1>27 DEF Cancel
  <1>28. ASSUME NoteShutdown
        PROVE  LifeInv'
    BY <1>28 DEF NoteShutdown
  <1>29. CASE UNCHANGED vars
    BY <1>29 DEF vars
  <1> QED
    BY <1>1, <1>2, <1>3, <1>4, <1>5, <1>6, <1>7, <1>8, <1>9, <1>10, <1>11, <1>12, <1>13,
       <1>14, <1>15, <1>16, <1>17, <1>18, <1>19, <1>20, <1>21, <1>22, <1>23, <1>24, <1>25,
       <1>26, <1>27, <1>28, <1>29 DEF Next, Main, Goroutine, Ends

LEMMA MainStep ==
  ASSUME IInv, [Next]_vars
  PROVE  MainInv'
  <1> USE DEF IInv, TypeOK, LifeInv, MainInv, NotLaunched, Final, Early, Late, Joined,
              config, mainVars, procVars, errVars
  <1>1. ASSUME Preflight
        PROVE  MainInv'
    BY <1>1 DEF Preflight, Finish
  <1>2. ASSUME StartReaper
        PROVE  MainInv'
    BY <1>2 DEF StartReaper
  <1>3. ASSUME ConditionsEnd
        PROVE  MainInv'
    BY <1>3, Layout DEF ConditionsEnd, BeginLaunch
  <1>4. ASSUME ConditionsBegin
        PROVE  MainInv'
    BY <1>4 DEF ConditionsBegin
  <1>5. ASSUME ConditionsDecide
        PROVE  MainInv'
    BY <1>5 DEF ConditionsDecide, Finish
  <1>6. ASSUME ConditionsFail
        PROVE  MainInv'
    BY <1>6, Layout DEF ConditionsFail, BeginLaunch
  <1>7. ASSUME Launch
        PROVE  MainInv'
    <2>1. err = "none" /\ UNCHANGED <<err, mode, idx, done>> /\ mpc' \in {"wait", "gate"}
      BY <1>7 DEF Launch
    <2>2. CASE mpc' = "gate"
      <3>1. idx \in 1..Len(Order) /\ LaunchAll(InstancesOf[Order[idx]]) /\ NotLaunched(idx)
            /\ mode # "parallel"
        BY <1>7, <2>2, Layout DEF Launch
      <3>2. NotLaunched(idx + 1)'
        <4> SUFFICES ASSUME NEW j \in (idx + 1)..Len(Order), NEW i \in InstancesOf[Order[j]]
                     PROVE  g'[i] = "none"
          BY <2>1
        <4>1. i \in Insts /\ g[i] = "none" /\ i \notin InstancesOf[Order[idx]]
          <5>1. j \in 1..Len(Order) /\ j # idx /\ j \in idx..Len(Order)
            BY <3>1, Layout
          <5> QED
            BY <3>1, <5>1, Layout
        <4> QED
          BY <3>1, <4>1, LaunchAllIs
      <3> QED
        BY <2>1, <2>2, <3>1, <3>2
    <2> QED
      BY <2>1, <2>2
  <1>8. ASSUME SequentialGate
        PROVE  MainInv'
    <2>1. idx' = idx + 1 /\ mpc' = "launch" /\ UNCHANGED <<g, mode, err, done, state>>
          /\ idx <= Len(Order) /\ NotLaunched(idx + 1) /\ mode # "parallel" /\ err = "none"
      BY <1>8 DEF SequentialGate
    <2> QED
      BY <2>1
  <1>9. ASSUME WaitGroup
        PROVE  MainInv'
    BY <1>9 DEF WaitGroup
  <1>10. ASSUME JoinReaper
        PROVE  MainInv'
    BY <1>10 DEF JoinReaper
  <1>11. ASSUME StopMonitor
        PROVE  MainInv'
    BY <1>11 DEF StopMonitor
  <1>12. ASSUME Result
        PROVE  MainInv'
    BY <1>12 DEF Result, DrainErrors
  <1>13. ASSUME Cleanup
        PROVE  MainInv'
    BY <1>13 DEF Cleanup, FinishUnlaunched, Finish
  <1>14. ASSUME NEW i \in Insts, DepOpens(i)
        PROVE  MainInv'
    BY <1>14 DEF DepOpens
  <1>15. ASSUME NEW i \in Insts, GivesUp(i)
        PROVE  MainInv'
    BY <1>15 DEF GivesUp, Finish
  <1>16. ASSUME NEW i \in Insts, DepFails(i)
        PROVE  MainInv'
    BY <1>16 DEF DepFails, Finish, WaitsForDep
  <1>17. ASSUME NEW i \in Insts, RecordsUnmet(i)
        PROVE  MainInv'
    BY SMTT(20), <1>17 DEF RecordsUnmet, CancelIfCritical
  <1>18. ASSUME NEW i \in Insts, RunBegins(i)
        PROVE  MainInv'
    BY <1>18 DEF RunBegins
  <1>19. ASSUME NEW i \in Insts, ProcessStarts(i)
        PROVE  MainInv'
    BY <1>19 DEF ProcessStarts
  <1>20. ASSUME NEW i \in Insts, ProcessRestarts(i)
        PROVE  MainInv'
    BY <1>20 DEF ProcessRestarts
  <1>21. ASSUME NEW i \in Insts, ProcessStops(i)
        PROVE  MainInv'
    BY <1>21 DEF ProcessStops, Finish
  <1>22. ASSUME NEW i \in Insts, ProcessFails(i)
        PROVE  MainInv'
    BY <1>22 DEF ProcessFails
  <1>23. ASSUME NEW i \in Insts, ProcessReturns(i)
        PROVE  MainInv'
    <2>1. /\ UNCHANGED <<mode, mpc, idx, err, state>>
          /\ g[i] = "failing" /\ g' = [g EXCEPT ![i] = g'[i]] /\ g'[i] \in {"ended", "broken"}
          /\ done' = [done EXCEPT ![i] = TRUE]
      BY <1>23 DEF ProcessReturns
    <2>2. mpc \notin Early \cup Late
      BY <2>1
    <2>3. \A k \in Nat \ {0} : NotLaunched(k) => NotLaunched(k)'
      <3> SUFFICES ASSUME NEW k \in Nat \ {0}, NotLaunched(k), NEW j \in k..Len(Order),
                          NEW x \in InstancesOf[Order[j]]
                   PROVE  g'[x] = "none"
        OBVIOUS
      <3>1. x \in Insts /\ g[x] = "none" /\ x # i
        BY <2>1, Layout
      <3> QED
        BY <2>1, <3>1
    <2> QED
      BY <2>1, <2>2, <2>3, Layout
  <1>24. ASSUME NEW i \in Insts, Records(i)
        PROVE  MainInv'
    BY <1>24 DEF Records
  <1>25. ASSUME ServiceReports \/ ForwardReports
        PROVE  MainInv'
    BY <1>25, ReportsAre DEF InTime
  <1>26. ASSUME MonitorTakes
        PROVE  MainInv'
    BY <1>26 DEF MonitorTakes, MonitorCancels
  <1>27. ASSUME Cancel
        PROVE  MainInv'
    BY <1>27 DEF Cancel
  <1>28. ASSUME NoteShutdown
        PROVE  MainInv'
    BY <1>28 DEF NoteShutdown
  <1>29. CASE UNCHANGED vars
    BY <1>29 DEF vars
  <1> QED
    BY <1>1, <1>2, <1>3, <1>4, <1>5, <1>6, <1>7, <1>8, <1>9, <1>10, <1>11, <1>12, <1>13,
       <1>14, <1>15, <1>16, <1>17, <1>18, <1>19, <1>20, <1>21, <1>22, <1>23, <1>24, <1>25,
       <1>26, <1>27, <1>28, <1>29 DEF Next, Main, Goroutine, Ends

LEMMA CauseStep ==
  ASSUME IInv, [Next]_vars
  PROVE  CauseInv'
  <1> USE DEF IInv, TypeOK, LifeInv, MainInv, CauseInv, ShutdownHasCause, InTime, Final,
              Early, Late, Joined, IsCritical, config, mainVars, procVars, errVars
  <1>1. ASSUME Preflight
        PROVE  CauseInv'
    BY <1>1 DEF Preflight, Finish
  <1>2. ASSUME StartReaper
        PROVE  CauseInv'
    BY <1>2 DEF StartReaper
  <1>3. ASSUME ConditionsEnd
        PROVE  CauseInv'
    BY <1>3 DEF ConditionsEnd, BeginLaunch
  <1>4. ASSUME ConditionsBegin
        PROVE  CauseInv'
    BY <1>4 DEF ConditionsBegin
  <1>5. ASSUME ConditionsDecide
        PROVE  CauseInv'
    BY <1>5 DEF ConditionsDecide, Finish
  <1>6. ASSUME ConditionsFail
        PROVE  CauseInv'
    BY <1>6 DEF ConditionsFail, BeginLaunch, Report
  <1>7. ASSUME Launch
        PROVE  CauseInv'
    BY <1>7 DEF Launch, LaunchAll
  <1>8. ASSUME SequentialGate
        PROVE  CauseInv'
    BY <1>8 DEF SequentialGate
  <1>9. ASSUME WaitGroup
        PROVE  CauseInv'
    BY <1>9 DEF WaitGroup
  <1>10. ASSUME JoinReaper
        PROVE  CauseInv'
    BY <1>10 DEF JoinReaper
  <1>11. ASSUME StopMonitor
        PROVE  CauseInv'
    BY <1>11 DEF StopMonitor
  <1>12. ASSUME Result
        PROVE  CauseInv'
    BY <1>12 DEF Result, DrainErrors
  <1>13. ASSUME Cleanup
        PROVE  CauseInv'
    BY <1>13 DEF Cleanup, FinishUnlaunched, Finish
  <1>14. ASSUME NEW i \in Insts, DepOpens(i)
        PROVE  CauseInv'
    BY <1>14 DEF DepOpens
  <1>15. ASSUME NEW i \in Insts, GivesUp(i)
        PROVE  CauseInv'
    BY <1>15 DEF GivesUp, Finish
  <1>16. ASSUME NEW i \in Insts, DepFails(i)
        PROVE  CauseInv'
    BY <1>16 DEF DepFails, Finish, WaitsForDep
  <1>17. ASSUME NEW i \in Insts, RecordsUnmet(i)
        PROVE  CauseInv'
    BY <1>17 DEF RecordsUnmet, CancelIfCritical
  <1>18. ASSUME NEW i \in Insts, RunBegins(i)
        PROVE  CauseInv'
    BY <1>18 DEF RunBegins
  <1>19. ASSUME NEW i \in Insts, ProcessStarts(i)
        PROVE  CauseInv'
    BY <1>19 DEF ProcessStarts
  <1>20. ASSUME NEW i \in Insts, ProcessRestarts(i)
        PROVE  CauseInv'
    BY <1>20 DEF ProcessRestarts
  <1>21. ASSUME NEW i \in Insts, ProcessStops(i)
        PROVE  CauseInv'
    BY <1>21 DEF ProcessStops, Finish
  <1>22. ASSUME NEW i \in Insts, ProcessFails(i)
        PROVE  CauseInv'
    BY <1>22 DEF ProcessFails
  <1>23. ASSUME NEW i \in Insts, ProcessReturns(i)
        PROVE  CauseInv'
    <2>1. /\ UNCHANGED <<critical, state, failures, cancelled>>
          /\ g[i] = "failing" /\ g' = [g EXCEPT ![i] = g'[i]]
          /\ ctx' = (ctx \/ IsCritical(i))
          /\ \/ g'[i] = "ended" /\ UNCHANGED <<errors, reported>>
             \/ g'[i] = "broken" /\ reported'
      BY <1>23 DEF ProcessReturns, OnCriticalExit
    <2>2. \A j \in Insts : j # i => g'[j] = g[j]
      BY <2>1
    <2>3. reported => reported'
      BY <2>1
    <2> QED
      BY <2>1, <2>2, <2>3
  <1>24. ASSUME NEW i \in Insts, Records(i)
        PROVE  CauseInv'
    BY <1>24 DEF Records
  <1>25. ASSUME ServiceReports \/ ForwardReports
        PROVE  CauseInv'
    BY <1>25, ReportsAre DEF InTime
  <1>26. ASSUME MonitorTakes
        PROVE  CauseInv'
    <2>1. monitor = "watch"
      BY <1>26 DEF MonitorTakes
    <2>2. InTime
      BY <2>1 DEF ErrorInv
    <2> QED
      BY <1>26, <2>2 DEF MonitorTakes, MonitorCancels
  <1>27. ASSUME Cancel
        PROVE  CauseInv'
    BY <1>27 DEF Cancel
  <1>28. ASSUME NoteShutdown
        PROVE  CauseInv'
    BY <1>28 DEF NoteShutdown
  <1>29. CASE UNCHANGED vars
    BY <1>29 DEF vars
  <1> QED
    BY <1>1, <1>2, <1>3, <1>4, <1>5, <1>6, <1>7, <1>8, <1>9, <1>10, <1>11, <1>12, <1>13,
       <1>14, <1>15, <1>16, <1>17, <1>18, <1>19, <1>20, <1>21, <1>22, <1>23, <1>24, <1>25,
       <1>26, <1>27, <1>28, <1>29 DEF Next, Main, Goroutine, Ends

LEMMA ErrorStep ==
  ASSUME IInv, [Next]_vars
  PROVE  ErrorInv'
  <1> USE DEF IInv, TypeOK, LifeInv, MainInv, ErrorInv, Final, Early, Late, Joined, config,
              mainVars, procVars, errVars
  <1>1. ASSUME Preflight
        PROVE  ErrorInv'
    <2>1. CASE mpc' = "reaper" /\ UNCHANGED <<state, done, err>>
      BY <1>1, <2>1 DEF Preflight
    <2>2. ASSUME NEW i \in Insts, Finish({i}, "failed"), err' = "failed", mpc' = "cleanup"
          PROVE  ErrorInv'
      BY <1>1, <2>2 DEF Preflight, Finish
    <2> QED
      BY <1>1, <2>1, <2>2 DEF Preflight
  <1>2. ASSUME StartReaper
        PROVE  ErrorInv'
    BY <1>2 DEF StartReaper
  <1>3. ASSUME ConditionsEnd
        PROVE  ErrorInv'
    BY <1>3 DEF ConditionsEnd, BeginLaunch
  <1>4. ASSUME ConditionsBegin
        PROVE  ErrorInv'
    BY <1>4 DEF ConditionsBegin
  <1>5. ASSUME ConditionsDecide
        PROVE  ErrorInv'
    BY <1>5 DEF ConditionsDecide, Finish
  <1>6. ASSUME ConditionsFail
        PROVE  ErrorInv'
    BY <1>6 DEF ConditionsFail, BeginLaunch, Report
  <1>7. ASSUME Launch
        PROVE  ErrorInv'
    BY <1>7 DEF Launch, LaunchAll
  <1>8. ASSUME SequentialGate
        PROVE  ErrorInv'
    BY <1>8 DEF SequentialGate
  <1>9. ASSUME WaitGroup
        PROVE  ErrorInv'
    BY <1>9 DEF WaitGroup
  <1>10. ASSUME JoinReaper
        PROVE  ErrorInv'
    BY <1>10 DEF JoinReaper
  <1>11. ASSUME StopMonitor
        PROVE  ErrorInv'
    BY <1>11 DEF StopMonitor
  <1>12. ASSUME Result
        PROVE  ErrorInv'
    BY <1>12 DEF Result, DrainErrors
  <1>13. ASSUME Cleanup
        PROVE  ErrorInv'
    BY <1>13 DEF Cleanup, FinishUnlaunched, Finish
  <1>14. ASSUME NEW i \in Insts, DepOpens(i)
        PROVE  ErrorInv'
    BY <1>14 DEF DepOpens
  <1>15. ASSUME NEW i \in Insts, GivesUp(i)
        PROVE  ErrorInv'
    BY <1>15 DEF GivesUp, Finish
  <1>16. ASSUME NEW i \in Insts, DepFails(i)
        PROVE  ErrorInv'
    BY <1>16 DEF DepFails, Finish, WaitsForDep
  <1>17. ASSUME NEW i \in Insts, RecordsUnmet(i)
        PROVE  ErrorInv'
    BY <1>17 DEF RecordsUnmet, CancelIfCritical
  <1>18. ASSUME NEW i \in Insts, RunBegins(i)
        PROVE  ErrorInv'
    BY <1>18 DEF RunBegins
  <1>19. ASSUME NEW i \in Insts, ProcessStarts(i)
        PROVE  ErrorInv'
    BY <1>19 DEF ProcessStarts
  <1>20. ASSUME NEW i \in Insts, ProcessRestarts(i)
        PROVE  ErrorInv'
    BY <1>20 DEF ProcessRestarts
  <1>21. ASSUME NEW i \in Insts, ProcessStops(i)
        PROVE  ErrorInv'
    BY <1>21 DEF ProcessStops, Finish
  <1>22. ASSUME NEW i \in Insts, ProcessFails(i)
        PROVE  ErrorInv'
    BY <1>22 DEF ProcessFails
  <1>23. ASSUME NEW i \in Insts, ProcessReturns(i)
        PROVE  ErrorInv'
    BY <1>23 DEF ProcessReturns, OnCriticalExit, Report
  <1>24. ASSUME NEW i \in Insts, Records(i)
        PROVE  ErrorInv'
    BY <1>24 DEF Records
  <1>25. ASSUME ServiceReports \/ ForwardReports
        PROVE  ErrorInv'
    BY <1>25, ReportsAre DEF InTime
  <1>26. ASSUME MonitorTakes
        PROVE  ErrorInv'
    BY <1>26 DEF MonitorTakes, MonitorCancels
  <1>27. ASSUME Cancel
        PROVE  ErrorInv'
    BY <1>27 DEF Cancel
  <1>28. ASSUME NoteShutdown
        PROVE  ErrorInv'
    BY <1>28 DEF NoteShutdown
  <1>29. CASE UNCHANGED vars
    BY <1>29 DEF vars
  <1> QED
    BY <1>1, <1>2, <1>3, <1>4, <1>5, <1>6, <1>7, <1>8, <1>9, <1>10, <1>11, <1>12, <1>13,
       <1>14, <1>15, <1>16, <1>17, <1>18, <1>19, <1>20, <1>21, <1>22, <1>23, <1>24, <1>25,
       <1>26, <1>27, <1>28, <1>29 DEF Next, Main, Goroutine, Ends

LEMMA InitInv == Init => IInv
  <1> SUFFICES ASSUME Init PROVE IInv
    OBVIOUS
  <1> USE DEF Init
  <1>1. TypeOK
    <2>1. idx \in 1..(Len(Order) + 1)
      BY Layout
    <2>2. /\ g \in [Insts -> {"none", "deps", "unmet", "run", "failing", "ended", "broken", "over"}]
          /\ dep \in [Insts -> Nat]
          /\ state \in [Insts -> Final \cup {"pending", "starting", "running"}]
          /\ ready \in [Insts -> BOOLEAN]
          /\ done \in [Insts -> BOOLEAN]
      BY DEF Final
    <2>3. /\ ctx \in BOOLEAN /\ shuttingDown \in BOOLEAN /\ reported \in BOOLEAN
          /\ cancelled \in BOOLEAN /\ failures \in SUBSET (Insts \cup {"conditions", "service"})
      OBVIOUS
    <2> QED
      BY <2>1, <2>2, <2>3 DEF TypeOK
  <1>2. LifeInv /\ MainInv
    BY DEF LifeInv, MainInv, Early, Late, Final
  <1>3. CauseInv /\ ErrorInv
    BY DEF CauseInv, ErrorInv, ShutdownHasCause
  <1> QED
    BY <1>1, <1>2, <1>3 DEF IInv

LEMMA Invariance == Spec => []IInv
  <1>1. IInv /\ [Next]_vars => IInv'
    BY TypeStep, LifeStep, MainStep, CauseStep, ErrorStep DEF IInv
  <1> QED
    BY InitInv, <1>1, PTL DEF Spec

\* Every variable of the manager keeps its type.
THEOREM TypeCorrect == Spec => []TypeOK
  BY Invariance, PTL DEF IInv

\* The shutdown has begun when a critical process has failed and its goroutine
\* is over, and it never begins without one of its causes.
THEOREM ShutdownCaused == Spec => []ShutdownHasCause
  <1>1. IInv => ShutdownHasCause
    BY DEF IInv, CauseInv
  <1> QED
    BY Invariance, <1>1, PTL

\* When Run returns, no goroutine is left and every instance is over.
THEOREM EverythingJoined == Spec => []ReturnsJoined
  <1>1. IInv => ReturnsJoined
    BY DEF IInv, LifeInv, MainInv, Joined, Late, ReturnsJoined
  <1> QED
    BY Invariance, <1>1, PTL

\* Run returns no error only when no process has failed, and no infrastructure
\* error was reported before Run's last look at the channel (manager.go:225),
\* by whomever; the one that comes later, from a signal that is being forwarded
\* (manager.go:364), can be lost, and does no other harm.
THEOREM EveryErrorKept == Spec => []NoErrorLost
  <1>1. IInv => NoErrorLost
    BY DEF IInv, ErrorInv, NoErrorLost
  <1> QED
    BY Invariance, <1>1, PTL

-----------------------------------------------------------------------------
(* The order of startup *)

\* Dependencies are waited for one by one, and their gates stay open.
DepInv ==
    \A i \in Insts :
        /\ \A k \in 1..dep[i] : \E j \in InstancesOf[deps[NameOf(i)][k]] : ready[j]
        /\ g[i] \in {"none", "deps"} => ~ready[i]
        /\ ready[i] => g[i] # "unmet"

\* In sequential mode the loop has been through the gates of the earlier names.
GateInv ==
    mode = "sequential" /\ mpc \in {"launch", "gate"} /\ ~ctx =>
        \A j \in 1..(idx - 1) : Stage(Order[j]) \in {"open", "shut"}

OInv == IInv /\ DepInv /\ GateInv

LEMMA DepStep ==
  ASSUME OInv, [Next]_vars
  PROVE  DepInv'
  <1> USE DEF OInv, IInv, TypeOK, LifeInv, MainInv, DepInv, Early, Final, config, mainVars,
              procVars, errVars
  <1>1. ASSUME Preflight
        PROVE  DepInv'
    BY <1>1 DEF Preflight, Finish
  <1>2. ASSUME StartReaper
        PROVE  DepInv'
    BY <1>2 DEF StartReaper
  <1>3. ASSUME ConditionsEnd
        PROVE  DepInv'
    BY <1>3 DEF ConditionsEnd, BeginLaunch
  <1>4. ASSUME ConditionsBegin
        PROVE  DepInv'
    BY <1>4 DEF ConditionsBegin
  <1>5. ASSUME ConditionsDecide
        PROVE  DepInv'
    BY <1>5 DEF ConditionsDecide, Finish
  <1>6. ASSUME ConditionsFail
        PROVE  DepInv'
    BY <1>6 DEF ConditionsFail, BeginLaunch, Report
  <1>7. ASSUME Launch
        PROVE  DepInv'
    <2>2. \A i \in Insts : g'[i] \in {"none", "deps"} => g[i] \in {"none", "deps"}
      BY <1>7, LaunchIs
    <2>3. UNCHANGED <<dep, deps, ready>>
      BY <1>7 DEF Launch
    <2>4. \A i \in Insts : g'[i] = "unmet" => g[i] = "unmet"
      BY <1>7, LaunchIs
    <2> QED
      BY <2>2, <2>3, <2>4
  <1>8. ASSUME SequentialGate
        PROVE  DepInv'
    BY <1>8 DEF SequentialGate
  <1>9. ASSUME WaitGroup
        PROVE  DepInv'
    BY <1>9 DEF WaitGroup
  <1>10. ASSUME JoinReaper
        PROVE  DepInv'
    BY <1>10 DEF JoinReaper
  <1>11. ASSUME StopMonitor
        PROVE  DepInv'
    BY <1>11 DEF StopMonitor
  <1>12. ASSUME Result
        PROVE  DepInv'
    BY <1>12 DEF Result, DrainErrors
  <1>13. ASSUME Cleanup
        PROVE  DepInv'
    BY <1>13 DEF Cleanup, FinishUnlaunched, Finish
  <1>14. ASSUME NEW i \in Insts, DepOpens(i)
        PROVE  DepInv'
    <2>1. \E j \in InstancesOf[deps[NameOf(i)][dep[i] + 1]] : ready[j]
      BY <1>14 DEF DepOpens, DepStarted, NextDep, GateOf!Open
    <2>2. /\ UNCHANGED <<deps, g, ready>>
          /\ dep' = [dep EXCEPT ![i] = @ + 1]
      BY <1>14 DEF DepOpens
    <2> QED
      BY <2>1, <2>2
  <1>15. ASSUME NEW i \in Insts, GivesUp(i)
        PROVE  DepInv'
    BY <1>15 DEF GivesUp, Finish
  <1>16. ASSUME NEW i \in Insts, DepFails(i)
        PROVE  DepInv'
    BY <1>16 DEF DepFails, Finish, WaitsForDep
  <1>17. ASSUME NEW i \in Insts, RecordsUnmet(i)
        PROVE  DepInv'
    BY <1>17 DEF RecordsUnmet, CancelIfCritical
  <1>18. ASSUME NEW i \in Insts, RunBegins(i)
        PROVE  DepInv'
    BY <1>18 DEF RunBegins
  <1>19. ASSUME NEW i \in Insts, ProcessStarts(i)
        PROVE  DepInv'
    BY SMTT(20), <1>19 DEF ProcessStarts
  <1>20. ASSUME NEW i \in Insts, ProcessRestarts(i)
        PROVE  DepInv'
    BY <1>20 DEF ProcessRestarts
  <1>21. ASSUME NEW i \in Insts, ProcessStops(i)
        PROVE  DepInv'
    BY <1>21 DEF ProcessStops, Finish
  <1>22. ASSUME NEW i \in Insts, ProcessFails(i)
        PROVE  DepInv'
    BY <1>22 DEF ProcessFails
  <1>23. ASSUME NEW i \in Insts, ProcessReturns(i)
        PROVE  DepInv'
    BY <1>23 DEF ProcessReturns, OnCriticalExit, Report
  <1>24. ASSUME NEW i \in Insts, Records(i)
        PROVE  DepInv'
    BY <1>24 DEF Records
  <1>25. ASSUME ServiceReports \/ ForwardReports
        PROVE  DepInv'
    BY <1>25, ReportsAre DEF InTime
  <1>26. ASSUME MonitorTakes
        PROVE  DepInv'
    BY <1>26 DEF MonitorTakes, MonitorCancels
  <1>27. ASSUME Cancel
        PROVE  DepInv'
    BY <1>27 DEF Cancel
  <1>28. ASSUME NoteShutdown
        PROVE  DepInv'
    BY <1>28 DEF NoteShutdown
  <1>29. CASE UNCHANGED vars
    BY <1>29 DEF vars
  <1> QED
    BY <1>1, <1>2, <1>3, <1>4, <1>5, <1>6, <1>7, <1>8, <1>9, <1>10, <1>11, <1>12, <1>13,
       <1>14, <1>15, <1>16, <1>17, <1>18, <1>19, <1>20, <1>21, <1>22, <1>23, <1>24, <1>25,
       <1>26, <1>27, <1>28, <1>29 DEF Next, Main, Goroutine, Ends

\* What no step takes back.
Grows ==
    /\ \A i \in Insts : (ready[i] => ready'[i]) /\ (done[i] => done'[i])
    /\ ctx => ctx'
    /\ UNCHANGED config

LEMMA Monotone ==
  ASSUME TypeOK, [Next]_vars
  PROVE  Grows
  <1> USE DEF TypeOK, Grows, config, mainVars, procVars, errVars
  <1>1. ASSUME Preflight
        PROVE  Grows
    BY <1>1 DEF Preflight, Finish
  <1>2. ASSUME StartReaper
        PROVE  Grows
    BY <1>2 DEF StartReaper
  <1>3. ASSUME ConditionsEnd
        PROVE  Grows
    BY <1>3 DEF ConditionsEnd, BeginLaunch
  <1>4. ASSUME ConditionsBegin
        PROVE  Grows
    BY <1>4 DEF ConditionsBegin
  <1>5. ASSUME ConditionsDecide
        PROVE  Grows
    BY <1>5 DEF ConditionsDecide, Finish
  <1>6. ASSUME ConditionsFail
        PROVE  Grows
    BY <1>6 DEF ConditionsFail, BeginLaunch, Report
  <1>7. ASSUME Launch
        PROVE  Grows
    BY <1>7 DEF Launch, LaunchAll
  <1>8. ASSUME SequentialGate
        PROVE  Grows
    BY <1>8 DEF SequentialGate
  <1>9. ASSUME WaitGroup
        PROVE  Grows
    BY <1>9 DEF WaitGroup
  <1>10. ASSUME JoinReaper
        PROVE  Grows
    BY <1>10 DEF JoinReaper
  <1>11. ASSUME StopMonitor
        PROVE  Grows
    BY <1>11 DEF StopMonitor
  <1>12. ASSUME Result
        PROVE  Grows
    BY <1>12 DEF Result, DrainErrors
  <1>13. ASSUME Cleanup
        PROVE  Grows
    BY <1>13 DEF Cleanup, FinishUnlaunched, Finish
  <1>14. ASSUME NEW i \in Insts, DepOpens(i)
        PROVE  Grows
    BY <1>14 DEF DepOpens
  <1>15. ASSUME NEW i \in Insts, GivesUp(i)
        PROVE  Grows
    BY <1>15 DEF GivesUp, Finish
  <1>16. ASSUME NEW i \in Insts, DepFails(i)
        PROVE  Grows
    BY <1>16 DEF DepFails, Finish, WaitsForDep
  <1>17. ASSUME NEW i \in Insts, RecordsUnmet(i)
        PROVE  Grows
    BY <1>17 DEF RecordsUnmet, CancelIfCritical
  <1>18. ASSUME NEW i \in Insts, RunBegins(i)
        PROVE  Grows
    BY <1>18 DEF RunBegins
  <1>19. ASSUME NEW i \in Insts, ProcessStarts(i)
        PROVE  Grows
    BY <1>19 DEF ProcessStarts
  <1>20. ASSUME NEW i \in Insts, ProcessRestarts(i)
        PROVE  Grows
    BY <1>20 DEF ProcessRestarts
  <1>21. ASSUME NEW i \in Insts, ProcessStops(i)
        PROVE  Grows
    BY <1>21 DEF ProcessStops, Finish
  <1>22. ASSUME NEW i \in Insts, ProcessFails(i)
        PROVE  Grows
    BY <1>22 DEF ProcessFails
  <1>23. ASSUME NEW i \in Insts, ProcessReturns(i)
        PROVE  Grows
    BY <1>23 DEF ProcessReturns, OnCriticalExit, Report
  <1>24. ASSUME NEW i \in Insts, Records(i)
        PROVE  Grows
    BY <1>24 DEF Records
  <1>25. ASSUME ServiceReports \/ ForwardReports
        PROVE  Grows
    BY <1>25, ReportsAre DEF InTime
  <1>26. ASSUME MonitorTakes
        PROVE  Grows
    BY <1>26 DEF MonitorTakes, MonitorCancels
  <1>27. ASSUME Cancel
        PROVE  Grows
    BY <1>27 DEF Cancel
  <1>28. ASSUME NoteShutdown
        PROVE  Grows
    BY <1>28 DEF NoteShutdown
  <1>29. CASE UNCHANGED vars
    BY <1>29 DEF vars
  <1> HIDE DEF TypeOK, Grows, config, mainVars, procVars, errVars
  <1> QED
    BY <1>1, <1>2, <1>3, <1>4, <1>5, <1>6, <1>7, <1>8, <1>9, <1>10, <1>11, <1>12, <1>13,
       <1>14, <1>15, <1>16, <1>17, <1>18, <1>19, <1>20, <1>21, <1>22, <1>23, <1>24, <1>25,
       <1>26, <1>27, <1>28, <1>29 DEF Next, Main, Goroutine, Ends

LEMMA NameIs ==
  /\ \A n \in Names : \A i \in InstancesOf[n] : i \in Insts /\ NameOf(i) = n
  /\ \A i \in Insts : NameOf(i) \in Names /\ i \in InstancesOf[NameOf(i)]
  <1>1. \A i \in Insts : \E n \in Names : i \in InstancesOf[n]
    BY DEF Insts
  <1>2. \A n, m \in Names : n # m => InstancesOf[n] \cap InstancesOf[m] = {}
    BY ConfigIsValid DEF ConfigIsValid
  <1>3. \A i \in Insts : NameOf(i) \in Names /\ i \in InstancesOf[NameOf(i)]
    BY <1>1 DEF NameOf
  <1>4. \A n \in Names : \A i \in InstancesOf[n] : i \in Insts
    BY DEF Insts
  <1> QED
    BY <1>2, <1>3, <1>4

\* A step after which every instance of a name looks as it did.
LEMMA SameStage ==
  ASSUME NEW n \in Names,
         \A i \in InstancesOf[n] :
           /\ ready'[i] = ready[i] /\ done'[i] = done[i]
           /\ g'[i] \in {"run", "failing"} <=> g[i] \in {"run", "failing"}
           /\ g'[i] = "none" <=> g[i] = "none"
  PROVE  Stage(n)' = Stage(n)
  BY DEF Stage

LEMMA GateStep ==
  ASSUME OInv, [Next]_vars
  PROVE  GateInv'
  <1> USE DEF OInv, IInv, TypeOK, GateInv, config
  <1>0. \A j \in 1..Len(Order) : Order[j] \in Names
    BY DEF Names
  <1>1. ctx => ctx'
    BY Monotone DEF Grows
  <1>2. UNCHANGED <<mode, critical, deps>>
    BY Monotone DEF Grows
  <1>3. \A n \in Names : Stage(n) \in {"open", "shut"} => Stage(n)' \in {"open", "shut"}
    BY Monotone, NameIs DEF Grows, Stage
  <1>4. CASE mpc' = mpc /\ idx' = idx
    <2>1. \A j \in 1..(idx - 1) : j \in 1..Len(Order)
      BY Layout
    <2> QED
      BY <1>0, <1>1, <1>2, <1>3, <1>4, <2>1
  <1>5. CASE BeginLaunch
    BY <1>5 DEF BeginLaunch
  <1>6. CASE Launch
    <2>1. mpc = "launch" /\ idx' = idx
      BY <1>6 DEF Launch, mainVars
    <2> QED
      <3>1. \A j \in 1..(idx - 1) : j \in 1..Len(Order)
        BY Layout
      <3> QED
        BY <1>0, <1>1, <1>2, <1>3, <2>1, <3>1
  <1>7. CASE SequentialGate
    <2>1. mpc = "gate" /\ idx' = idx + 1 /\ idx <= Len(Order)
      BY <1>7 DEF SequentialGate, MainInv
    <2>2. Order[idx] \in Names
      BY <2>1, Layout DEF Names
    <2>3. ~ctx => Stage(Order[idx]) \in {"open", "shut"}
      BY <1>7 DEF SequentialGate, GateAnswers, GateOf!Open, GateOf!Shut, Stage
    <2>4. \A j \in 1..idx : j \in 1..(idx - 1) \/ j = idx
      OBVIOUS
    <2>5. ~ctx /\ mode = "sequential" =>
            \A j \in 1..idx : Order[j] \in Names /\ Stage(Order[j]) \in {"open", "shut"}
      BY <2>1, <2>2, <2>3, <2>4, Layout DEF Names
    <2> QED
      BY <1>1, <1>2, <1>3, <2>1, <2>5
  <1>8. CASE mpc' \notin {"launch", "gate"}
    BY <1>8
  <1>9. \/ mpc' = mpc /\ idx' = idx
        \/ BeginLaunch \/ Launch \/ SequentialGate
        \/ mpc' \notin {"launch", "gate"}
    BY DEF Next, Main, Goroutine, Ends, mainVars, vars, Preflight, StartReaper, ConditionsEnd,
           ConditionsBegin, ConditionsDecide, ConditionsFail, WaitGroup, JoinReaper,
           StopMonitor, Result, Cleanup, DepOpens, GivesUp, DepFails, RecordsUnmet, RunBegins,
           ProcessStarts, ProcessRestarts, ProcessStops, ProcessFails, ProcessReturns, Records,
           ServiceReports, ForwardReports, MonitorTakes, Cancel, NoteShutdown
  <1> QED
    BY <1>4, <1>5, <1>6, <1>7, <1>8, <1>9

-----------------------------------------------------------------------------
(* Steps of LaunchOrder *)

Stages == [n \in Names |-> Stage(n)]
OrderStep == [LaunchOrdered!Next]_[n \in Names |-> Stage(n)]

LEMMA ListedIsNames == LaunchOrdered!Listed = Names
  BY DEF LaunchOrdered!Listed, Names

LEMMA OneName ==
  ASSUME NEW n \in Names,
         \A m \in Names \ {n} : Stage(m)' = Stage(m),
         \/ Stage(n)' = Stage(n)
         \/ Stage(n) = "begun" /\ Stage(n)' \in {"open", "launched"}
         \/ Stage(n) \notin {"open", "shut"} /\ Stage(n)' = "shut"
         \/ /\ Stage(n) = "launched" /\ Stage(n)' = "begun"
            /\ \A m \in LaunchOrdered!Needs(n) : m \in Names /\ Stage(m) = "open"
  PROVE  OrderStep
  <1> USE ListedIsNames DEF OrderStep, LaunchOrdered!Next, LaunchOrdered!Set
  <1>1. CASE Stage(n)' = Stage(n)
    BY <1>1
  <1>2. CASE Stage(n) = "begun" /\ Stage(n)' = "open"
    <2>1. LaunchOrdered!Open(n)
      BY <1>2 DEF LaunchOrdered!Open
    <2> QED
      BY <2>1
  <1>3. CASE Stage(n) = "begun" /\ Stage(n)' = "launched"
    <2>1. LaunchOrdered!FallBack(n)
      BY <1>3 DEF LaunchOrdered!FallBack
    <2> QED
      BY <2>1
  <1>4. CASE Stage(n) \notin {"open", "shut"} /\ Stage(n)' = "shut"
    <2>1. LaunchOrdered!Shut({n})
      BY <1>4 DEF LaunchOrdered!Shut, LaunchOrdered!Settled
    <2> QED
      BY <2>1
  <1>5. CASE /\ Stage(n) = "launched" /\ Stage(n)' = "begun"
             /\ \A m \in LaunchOrdered!Needs(n) : m \in Names /\ Stage(m) = "open"
    <2>1. LaunchOrdered!Begin(n)
      BY <1>5 DEF LaunchOrdered!Begin
    <2> QED
      BY <2>1
  <1> QED
    BY <1>1, <1>2, <1>3, <1>4, <1>5

LEMMA NewlyShut ==
  ASSUME \A n \in Names : \/ Stage(n)' = Stage(n)
                          \/ Stage(n) \notin {"open", "shut"} /\ Stage(n)' = "shut"
  PROVE  OrderStep
  <1> DEFINE S == {n \in Names : Stage(n)' # Stage(n)}
  <1>1. LaunchOrdered!Shut(S)
    BY ListedIsNames DEF LaunchOrdered!Shut, LaunchOrdered!Set, LaunchOrdered!Settled
  <1> QED
    BY <1>1, ListedIsNames DEF OrderStep, LaunchOrdered!Next

LEMMA NewlyLaunched ==
  ASSUME \A n \in Names : \/ Stage(n)' = Stage(n)
                          \/ /\ Stage(n) = "pending" /\ Stage(n)' = "launched"
                             /\ LaunchOrdered!MayLaunch(n)
  PROVE  OrderStep
  <1> DEFINE S == {n \in Names : Stage(n)' # Stage(n)}
  <1>1. LaunchOrdered!Launch(S)
    BY ListedIsNames DEF LaunchOrdered!Launch, LaunchOrdered!Set
  <1> QED
    BY <1>1, ListedIsNames DEF OrderStep, LaunchOrdered!Next

LEMMA Quiet ==
  ASSUME \A i \in Insts :
           /\ ready'[i] = ready[i] /\ done'[i] = done[i]
           /\ g'[i] \in {"run", "failing"} <=> g[i] \in {"run", "failing"}
           /\ g'[i] = "none" <=> g[i] = "none"
  PROVE  OrderStep
  <1>1. \A n \in Names : Stage(n)' = Stage(n)
    BY SameStage, NameIs
  <1> QED
    BY <1>1 DEF OrderStep

\* Finish on some instances, none of which runs.
LEMMA Finishes ==
  ASSUME UNCHANGED <<ready, g>>, \A i \in Insts : done[i] => done'[i]
  PROVE  OrderStep
  <1>1. \A n \in Names : \/ Stage(n)' = Stage(n)
                         \/ Stage(n) \notin {"open", "shut"} /\ Stage(n)' = "shut"
    BY NameIs DEF Stage
  <1> QED
    BY <1>1, NewlyShut

\* Other names do not notice a step of one instance.
LEMMA Local ==
  ASSUME NEW i \in Insts,
         \A j \in Insts \ {i} : ready'[j] = ready[j] /\ done'[j] = done[j] /\ g'[j] = g[j]
  PROVE  \A m \in Names \ {NameOf(i)} : Stage(m)' = Stage(m)
  <1> SUFFICES ASSUME NEW m \in Names \ {NameOf(i)} PROVE Stage(m)' = Stage(m)
    OBVIOUS
  <1>1. \A j \in InstancesOf[m] : j \in Insts \ {i}
    BY NameIs
  <1> QED
    BY <1>1, SameStage

\* The lifecycle of an instance ends.
LEMMA Over ==
  ASSUME NEW i \in Insts, ~done[i], g[i] \in {"deps", "run", "failing"},
         UNCHANGED ready, done'[i],
         g'[i] \in {"unmet", "ended", "broken", "over"},
         \A j \in Insts \ {i} : done'[j] = done[j] /\ g'[j] = g[j]
  PROVE  OrderStep
  <1> DEFINE n == NameOf(i)
  <1>1. n \in Names /\ i \in InstancesOf[n] /\ \A j \in InstancesOf[n] : j \in Insts
    BY NameIs
  <1>2. \A m \in Names \ {n} : Stage(m)' = Stage(m)
    BY Local
  <1> HIDE DEF n
  <1>3. n' = n
    BY DEF n
  <1>4. CASE Stage(n) = "open"
    <2>1. Stage(n)' = "open"
      BY <1>3, <1>4 DEF Stage
    <2> QED
      BY <1>1, <1>2, <1>4, <2>1, OneName
  <1>5. CASE Stage(n) = "begun"
    <2>1. Stage(n)' \in {"shut", "begun", "launched"}
      BY <1>1, <1>3, <1>5 DEF Stage
    <2> QED
      BY <1>1, <1>2, <1>5, <2>1, OneName
  <1>6. CASE Stage(n) = "launched"
    <2>1. Stage(n)' \in {"shut", "launched"}
      BY <1>1, <1>3, <1>6 DEF Stage
    <2> QED
      BY <1>1, <1>2, <1>6, <2>1, OneName
  <1>7. Stage(n) \in {"open", "begun", "launched"}
    BY <1>1 DEF Stage
  <1> QED
    BY <1>4, <1>5, <1>6, <1>7

LEMMA LaunchRefines ==
  ASSUME OInv, Launch
  PROVE  OrderStep
  <1> USE DEF OInv, IInv
  <1>1. \A i \in Insts : g'[i] = g[i] \/ (g[i] = "none" /\ ~done[i] /\ g'[i] = "deps")
    BY LaunchIs
  <1>2. UNCHANGED <<ready, done>>
    BY DEF Launch
  <1>3. \A n \in Names : \/ Stage(n)' = Stage(n)
                         \/ /\ Stage(n) = "pending" /\ Stage(n)' = "launched"
                            /\ \E i \in InstancesOf[n] : g'[i] # g[i]
    <2> SUFFICES ASSUME NEW n \in Names
                 PROVE  \/ Stage(n)' = Stage(n)
                        \/ /\ Stage(n) = "pending" /\ Stage(n)' = "launched"
                           /\ \E i \in InstancesOf[n] : g'[i] # g[i]
      OBVIOUS
    <2>1. CASE \A i \in InstancesOf[n] : g'[i] = g[i]
      BY <1>2, <2>1, SameStage
    <2>2. CASE \E i \in InstancesOf[n] : g'[i] # g[i]
      BY <1>1, <1>2, <2>2, NameIs DEF Stage
    <2> QED
      BY <2>1, <2>2
  <1>4. ASSUME NEW n \in Names, NEW i \in InstancesOf[n], g'[i] # g[i]
        PROVE  LaunchOrdered!MayLaunch(n)
    <2>1. i \in Insts
      BY NameIs
    <2>2. CASE mode = "parallel"
      BY <2>2 DEF LaunchOrdered!MayLaunch
    <2>3. CASE /\ mode = "sequential" /\ ~ctx /\ idx <= Len(Order)
               /\ LaunchAll(InstancesOf[Order[idx]])
      <3>1. i \in InstancesOf[Order[idx]]
        BY <1>4, <2>1, <2>3, LaunchAllIs
      <3>2. idx \in 1..Len(Order) /\ Order[idx] \in Names
        BY <2>3, Layout DEF TypeOK, Names
      <3>3. n = Order[idx]
        BY <3>1, <3>2, NameIs
      <3>4. \A k \in 1..Len(Order) : Order[k] = n => k = idx
        BY <3>2, <3>3, ConfigIsValid DEF ConfigIsValid
      <3>5. \A j \in 1..(idx - 1) : Stage(Order[j]) \in {"open", "shut"}
        BY <2>3 DEF Launch, GateInv
      <3>6. \A j \in 1..(idx - 1) : Order[j] \in Names
        <4>1. \A j \in 1..Len(Order) : Order[j] \in Names
          BY DEF Names
        <4>2. Len(Order) \in Nat
          BY Layout
        <4>3. \A j \in 1..(idx - 1) : j \in 1..Len(Order)
          BY <3>2, <4>2
        <4> QED
          BY <4>1, <4>3
      <3> QED
        BY <3>4, <3>5, <3>6 DEF LaunchOrdered!MayLaunch, LaunchOrdered!Settled
    <2> QED
      <3>1. idx \in Nat /\ Len(Order) \in Nat /\ g'[i] # g[i]
        BY <1>4, Layout DEF TypeOK
      <3>2. mode = "parallel" \/ (mode = "sequential" /\ ~(ctx \/ idx > Len(Order))
                                  /\ LaunchAll(InstancesOf[Order[idx]]))
        BY <3>1 DEF Launch
      <3> QED
        BY <2>2, <2>3, <3>1, <3>2
  <1> QED
    BY <1>3, <1>4, NewlyLaunched

LEMMA RunBeginsRefines ==
  ASSUME OInv, NEW i \in Insts, RunBegins(i)
  PROVE  OrderStep
  <1> DEFINE n == NameOf(i)
  <1>1. n \in Names /\ i \in InstancesOf[n] /\ \A j \in InstancesOf[n] : j \in Insts
    BY NameIs
  <1>2. /\ g[i] = "deps" /\ g' = [g EXCEPT ![i] = "run"] /\ UNCHANGED <<ready, done>>
        /\ dep[i] = Len(deps[n])
    BY DEF RunBegins
  <1>3. \A j \in Insts \ {i} : g'[j] = g[j]
    BY <1>2 DEF OInv, IInv, TypeOK
  <1>4. \A m \in Names \ {n} : Stage(m)' = Stage(m)
    BY <1>2, <1>3, Local
  <1>5. g'[i] = "run" /\ ~done[i]
    BY <1>2 DEF OInv, IInv, TypeOK, LifeInv
  <1>6. deps[n] \in Seq(Names)
    BY <1>1, ConfigIsValid DEF OInv, IInv, TypeOK, ConfigIsValid
  <1>7. \A m \in LaunchOrdered!Needs(n) : m \in Names /\ Stage(m) = "open"
    BY <1>2, <1>6 DEF OInv, DepInv, LaunchOrdered!Needs, Stage
  <1> HIDE DEF n
  <1>8. n' = n
    BY DEF n
  <1>9. CASE Stage(n) \in {"open", "begun"}
    <2>1. Stage(n)' = Stage(n)
      BY <1>1, <1>2, <1>3, <1>5, <1>8, <1>9 DEF Stage
    <2> QED
      BY <1>1, <1>4, <2>1, OneName
  <1>10. CASE Stage(n) = "launched"
    <2>1. Stage(n)' = "begun"
      BY <1>1, <1>2, <1>3, <1>5, <1>8, <1>10 DEF Stage
    <2> QED
      BY <1>1, <1>4, <1>7, <1>10, <2>1, OneName
  <1>11. Stage(n) \in {"open", "begun", "launched"}
    BY <1>1, <1>2, <1>5 DEF Stage
  <1> QED
    BY <1>9, <1>10, <1>11

LEMMA ProcessStartsRefines ==
  ASSUME OInv, NEW i \in Insts, ProcessStarts(i)
  PROVE  OrderStep
  <1> DEFINE n == NameOf(i)
  <1>1. n \in Names /\ i \in InstancesOf[n] /\ \A j \in InstancesOf[n] : j \in Insts
    BY NameIs
  <1>2. g[i] = "run" /\ ready' = [ready EXCEPT ![i] = TRUE] /\ UNCHANGED <<g, done>>
    BY DEF ProcessStarts
  <1>3. ready'[i] /\ \A j \in Insts \ {i} : ready'[j] = ready[j]
    BY <1>2 DEF OInv, IInv, TypeOK
  <1>4. \A m \in Names \ {n} : Stage(m)' = Stage(m)
    BY <1>2, <1>3, Local
  <1>5. ~done[i]
    BY <1>2 DEF OInv, IInv, LifeInv
  <1> HIDE DEF n
  <1>6. n' = n
    BY DEF n
  <1>7. Stage(n)' = "open"
    BY <1>1, <1>3, <1>6 DEF Stage
  <1>8. Stage(n) \in {"open", "begun"}
    BY <1>1, <1>2, <1>5 DEF Stage
  <1> QED
    BY <1>1, <1>4, <1>7, <1>8, OneName

LEMMA OrderKept ==
  ASSUME OInv, [Next]_vars
  PROVE  OrderStep
  <1> USE DEF config, mainVars, procVars, errVars
  <1>0. TypeOK /\ LifeInv
    BY DEF OInv, IInv
  <1>1. CASE Preflight \/ ConditionsDecide \/ Cleanup
    <2>1. UNCHANGED <<ready, g>>
      BY <1>1 DEF Preflight, ConditionsDecide, Cleanup
    <2> QED
      BY <2>1, Finishes, Monotone, <1>0 DEF Grows
  <1>2. CASE Launch
    BY <1>2, LaunchRefines
  <1>3. CASE \/ StartReaper \/ ConditionsEnd \/ ConditionsBegin \/ ConditionsFail
             \/ SequentialGate \/ WaitGroup \/ JoinReaper \/ StopMonitor \/ Result
             \/ ServiceReports \/ ForwardReports \/ MonitorTakes \/ Cancel \/ NoteShutdown
             \/ UNCHANGED vars
    <2>1. UNCHANGED <<g, ready, done>>
      BY <1>3 DEF StartReaper, ConditionsEnd, ConditionsBegin, ConditionsFail, SequentialGate,
                  WaitGroup, JoinReaper, StopMonitor, Result, ServiceReports, ForwardReports,
                  MonitorTakes, Cancel, NoteShutdown, vars
    <2> QED
      BY <2>1, Quiet
  <1>4. ASSUME NEW i \in Insts, DepOpens(i) \/ ProcessRestarts(i)
        PROVE  OrderStep
    <2>1. UNCHANGED <<g, ready, done>>
      BY <1>4 DEF DepOpens, ProcessRestarts
    <2> QED
      BY <2>1, Quiet
  <1>5. ASSUME NEW i \in Insts, RecordsUnmet(i) \/ ProcessFails(i) \/ Records(i)
        PROVE  OrderStep
    <2>1. /\ UNCHANGED <<ready, done>>
          /\ \/ g[i] = "run" /\ g' = [g EXCEPT ![i] = "failing"]
             \/ g[i] \in {"unmet", "ended", "broken"} /\ g' = [g EXCEPT ![i] = "over"]
      BY <1>5 DEF RecordsUnmet, ProcessFails, Records
    <2>2. \A j \in Insts : /\ g'[j] \in {"run", "failing"} <=> g[j] \in {"run", "failing"}
                           /\ g'[j] = "none" <=> g[j] = "none"
      BY <1>0, <2>1 DEF TypeOK
    <2> QED
      BY <2>1, <2>2, Quiet
  <1>6. ASSUME NEW i \in Insts, GivesUp(i) \/ DepFails(i) \/ ProcessStops(i)
        PROVE  OrderStep
    <2>1. /\ UNCHANGED ready /\ g[i] \in {"deps", "run"}
          /\ g' = [g EXCEPT ![i] = g'[i]] /\ g'[i] \in {"unmet", "over"}
      BY <1>0, <1>6 DEF GivesUp, DepFails, ProcessStops, WaitsForDep, TypeOK
    <2>2. \E s \in Final : Finish({i}, s)
      BY <1>6 DEF GivesUp, DepFails, ProcessStops, Final
    <2>3. done' \in [Insts -> BOOLEAN] /\ \A j \in Insts : done'[j] <=> (done[j] \/ j = i)
      BY <1>0, <2>2, FinishIs
    <2>4. done'[i] /\ \A j \in Insts \ {i} : done'[j] = done[j]
      BY <1>0, <2>3 DEF TypeOK
    <2>5. ~done[i] /\ \A j \in Insts \ {i} : g'[j] = g[j]
      BY <1>0, <2>1 DEF LifeInv, TypeOK
    <2> QED
      BY <2>1, <2>4, <2>5, Over
  <1>7. ASSUME NEW i \in Insts, ProcessReturns(i)
        PROVE  OrderStep
    <2>1. /\ UNCHANGED ready /\ g[i] = "failing"
          /\ g' = [g EXCEPT ![i] = g'[i]] /\ g'[i] \in {"ended", "broken"}
          /\ done' = [done EXCEPT ![i] = TRUE]
      BY <1>0, <1>7 DEF ProcessReturns, TypeOK
    <2>2. ~done[i] /\ done'[i] /\ \A j \in Insts \ {i} : done'[j] = done[j] /\ g'[j] = g[j]
      BY <1>0, <2>1 DEF LifeInv, TypeOK
    <2> QED
      BY <2>1, <2>2, Over
  <1>8. ASSUME NEW i \in Insts, RunBegins(i) \/ ProcessStarts(i)
        PROVE  OrderStep
    BY <1>8, RunBeginsRefines, ProcessStartsRefines
  <1> QED
    BY <1>1, <1>2, <1>3, <1>4, <1>5, <1>6, <1>7, <1>8 DEF Next, Main, Goroutine, Ends

\* Startup follows LaunchOrder: no command begins before the names it depends on
\* have started, and in sequential mode no name is launched before the gates of
\* the earlier ones are settled, whatever fails, restarts or is cancelled.
THEOREM OrderImplemented == Spec => ImplementsLaunchOrder
  <1>1. Init => LaunchOrdered!Init
    <2> SUFFICES ASSUME Init PROVE LaunchOrdered!Init
      OBVIOUS
    <2>1. \A n \in Names : InstancesOf[n] # {} /\ \A i \in InstancesOf[n] : i \in Insts
      BY NameIs, ConfigIsValid DEF ConfigIsValid
    <2>2. \A n \in Names : Stage(n) = "pending"
      BY <2>1 DEF Init, Stage
    <2> QED
      BY <2>2, ListedIsNames DEF LaunchOrdered!Init
  <1>2. Init => OInv
    <2> SUFFICES ASSUME Init PROVE OInv
      OBVIOUS
    <2>1. DepInv /\ GateInv
      BY DEF Init, DepInv, GateInv
    <2> QED
      BY <2>1, InitInv DEF OInv
  <1>3. OInv /\ [Next]_vars => OInv'
    BY TypeStep, LifeStep, MainStep, CauseStep, ErrorStep, DepStep, GateStep DEF OInv, IInv
  <1>4. OInv /\ [Next]_vars => OrderStep
    BY OrderKept
  <1> QED
    BY <1>1, <1>2, <1>3, <1>4, PTL DEF Spec, ImplementsLaunchOrder, LaunchOrdered!Spec, OrderStep
=============================================================================
