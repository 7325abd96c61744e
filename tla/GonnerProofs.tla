---------------------------- MODULE GonnerProofs ----------------------------
(***************************************************************************)
(* Proofs about the program around the manager.                            *)
(*                                                                         *)
(* Gonner: from wherever runRun returns it has joined what it started, and *)
(* no failure is left out of its exit status.  Nothing is assumed of the   *)
(* signals: any number, and a channel of any capacity.                     *)
(*                                                                         *)
(* Management: the socket of a gonner that lives stays its own and its     *)
(* slots are exact, for any number of gonners, connections and slots; and  *)
(* the answers of the status queries can be relied on, for any number of   *)
(* instances, names and restarts.                                          *)
(***************************************************************************)
EXTENDS Gonner, Management, FiniteSetTheorems, SequenceTheorems,
        WellFoundedInduction, TLAPS

\* The goroutines of the health endpoint, as far as they tell about each
\* other: they start together, Shutdown ends after Serve, and the watcher is
\* over only when it has read what became of Serve.
HealthGoroutines ==
    /\ (serve = "off" <=> shutdown = "off") /\ (serve = "off" <=> watch = "off")
    /\ serve # "off" => "health" \in use
    /\ shutdown = "done" => serve = "ended"
    /\ watch \in {"off", "wait", "done"}
    /\ watch = "done" => serve \in {"failed", "ended"} /\ healthErr = broke
    /\ broke => serve # "off"

\* What runRun has started, and not yet taken down, at each of its points.
Progress ==
    /\ main = "control" => control = "off"
    /\ main \in {"control", "health"} => serve = "off"
    /\ mgr = "running" => main = "manager"
    /\ main \in {"cancel", "join"} => mgr \in {"ok", "failed"}
    /\ pidFile = "written" => main \in {"manager", "cancel", "join", "undoPidFile"}
    /\ main \in {"undoControl", "undoSignals", "returned"} =>
         serve = "off" \/ (shutdown = "done" /\ watch = "done")
    /\ main \in {"undoSignals", "returned"} => control # "serving"
    /\ main = "returned" => closed

\* The exit status is put together when the manager and the watcher are over.
ExitTold ==
    exit = "ok" => /\ mgr = "ok"
                   /\ ~broke
                   /\ serve # "serving"
                   /\ main \in {"undoPidFile", "undoHealth", "undoControl",
                                "undoSignals", "returned"}

IInv == HealthGoroutines /\ Progress /\ ExitTold

LEMMA InitIInv == GonnerInit => IInv
  BY DEF GonnerInit, SignalsInit, IInv, HealthGoroutines, Progress, ExitTold

LEMMA StartControlStep ==
  ASSUME IInv, StartControl PROVE IInv'
  <1> USE DEF IInv, StartControl, Goto, FailFrom, healthVars, vars, signalVars
  <1>1. HealthGoroutines'
    BY DEF HealthGoroutines, Progress
  <1>2. Progress'
    BY DEF HealthGoroutines, Progress
  <1>3. ExitTold'
    BY DEF HealthGoroutines, Progress, ExitTold
  <1> QED
    BY <1>1, <1>2, <1>3

LEMMA StartHealthStep ==
  ASSUME IInv, StartHealth PROVE IInv'
  <1> USE DEF IInv, StartHealth, Goto, FailFrom, vars, signalVars
  <1>1. HealthGoroutines'
    BY DEF HealthGoroutines, Progress
  <1>2. Progress'
    BY DEF HealthGoroutines, Progress
  <1>3. ExitTold'
    BY DEF HealthGoroutines, Progress, ExitTold
  <1> QED
    BY <1>1, <1>2, <1>3

LEMMA WritePidFileStep ==
  ASSUME IInv, WritePidFile PROVE IInv'
  <1> USE DEF IInv, WritePidFile, Goto, FailFrom, healthVars, vars, signalVars
  <1>1. HealthGoroutines'
    BY DEF HealthGoroutines, Progress
  <1>2. Progress'
    BY DEF HealthGoroutines, Progress
  <1>3. ExitTold'
    BY DEF HealthGoroutines, Progress, ExitTold
  <1> QED
    BY <1>1, <1>2, <1>3

LEMMA ManagerRunsStep ==
  ASSUME IInv, ManagerRuns PROVE IInv'
  <1> USE DEF IInv, ManagerRuns, healthVars, vars, signalVars
  <1>1. HealthGoroutines'
    BY DEF HealthGoroutines, Progress
  <1>2. Progress'
    BY DEF HealthGoroutines, Progress
  <1>3. ExitTold'
    BY DEF HealthGoroutines, Progress, ExitTold
  <1> QED
    BY <1>1, <1>2, <1>3

LEMMA ManagerReturnsStep ==
  ASSUME IInv, ManagerReturns PROVE IInv'
  <1> USE DEF IInv, ManagerReturns, Goto, healthVars, vars, signalVars
  <1>1. HealthGoroutines'
    BY DEF HealthGoroutines, Progress
  <1>2. Progress'
    BY DEF HealthGoroutines, Progress
  <1>3. ExitTold'
    BY DEF HealthGoroutines, Progress, ExitTold
  <1> QED
    BY <1>1, <1>2, <1>3

LEMMA CancelAllStep ==
  ASSUME IInv, CancelAll PROVE IInv'
  <1> USE DEF IInv, CancelAll, Goto, healthVars, vars, signalVars
  <1>1. HealthGoroutines'
    BY DEF HealthGoroutines, Progress
  <1>2. Progress'
    BY DEF HealthGoroutines, Progress
  <1>3. ExitTold'
    BY DEF HealthGoroutines, Progress, ExitTold
  <1> QED
    BY <1>1, <1>2, <1>3

LEMMA JoinHealthStep ==
  ASSUME IInv, JoinHealth PROVE IInv'
  <1> USE DEF IInv, JoinHealth, HealthWatched, Goto, healthVars, vars, signalVars
  <1>1. HealthGoroutines'
    BY DEF HealthGoroutines, Progress
  <1>2. Progress'
    BY DEF HealthGoroutines, Progress
  <1>3. ExitTold'
    BY DEF HealthGoroutines, Progress, ExitTold
  <1> QED
    BY <1>1, <1>2, <1>3

LEMMA UndoPidFileStep ==
  ASSUME IInv, UndoPidFile PROVE IInv'
  <1> USE DEF IInv, UndoPidFile, Goto, healthVars, vars, signalVars
  <1>1. HealthGoroutines'
    BY DEF HealthGoroutines, Progress
  <1>2. Progress'
    BY DEF HealthGoroutines, Progress
  <1>3. ExitTold'
    BY DEF HealthGoroutines, Progress, ExitTold
  <1> QED
    BY <1>1, <1>2, <1>3

LEMMA UndoHealthStep ==
  ASSUME IInv, UndoHealth PROVE IInv'
  <1> USE DEF IInv, UndoHealth, CancelFirst, HealthOver, Goto, healthVars, vars, signalVars
  <1>1. HealthGoroutines'
    BY DEF HealthGoroutines, Progress
  <1>2. Progress'
    BY DEF HealthGoroutines, Progress
  <1>3. ExitTold'
    BY DEF HealthGoroutines, Progress, ExitTold
  <1> QED
    BY <1>1, <1>2, <1>3

LEMMA UndoControlStep ==
  ASSUME IInv, UndoControl PROVE IInv'
  <1> USE DEF IInv, UndoControl, Goto, healthVars, vars, signalVars
  <1>1. HealthGoroutines'
    BY DEF HealthGoroutines, Progress
  <1>2. Progress'
    BY DEF HealthGoroutines, Progress
  <1>3. ExitTold'
    BY DEF HealthGoroutines, Progress, ExitTold
  <1> QED
    BY <1>1, <1>2, <1>3

LEMMA UndoSignalsStep ==
  ASSUME IInv, UndoSignals PROVE IInv'
  <1> USE DEF IInv, UndoSignals, Stop, Goto, healthVars, vars, signalVars
  <1>1. HealthGoroutines'
    BY DEF HealthGoroutines, Progress
  <1>2. Progress'
    BY DEF HealthGoroutines, Progress
  <1>3. ExitTold'
    BY DEF HealthGoroutines, Progress, ExitTold
  <1> QED
    BY <1>1, <1>2, <1>3

LEMMA ControlClosesStep ==
  ASSUME IInv, ControlCloses PROVE IInv'
  <1> USE DEF IInv, ControlCloses, healthVars, vars, signalVars
  <1>1. HealthGoroutines'
    BY DEF HealthGoroutines, Progress
  <1>2. Progress'
    BY DEF HealthGoroutines, Progress
  <1>3. ExitTold'
    BY DEF HealthGoroutines, Progress, ExitTold
  <1> QED
    BY <1>1, <1>2, <1>3

LEMMA ServeFailsStep ==
  ASSUME IInv, ServeFails PROVE IInv'
  <1> USE DEF IInv, ServeFails, vars, signalVars
  <1>1. HealthGoroutines'
    BY DEF HealthGoroutines, Progress
  <1>2. Progress'
    BY DEF HealthGoroutines, Progress
  <1>3. ExitTold'
    BY DEF HealthGoroutines, Progress, ExitTold
  <1> QED
    BY <1>1, <1>2, <1>3

LEMMA ServeEndsStep ==
  ASSUME IInv, ServeEnds PROVE IInv'
  <1> USE DEF IInv, ServeEnds, vars, signalVars
  <1>1. HealthGoroutines'
    BY DEF HealthGoroutines, Progress
  <1>2. Progress'
    BY DEF HealthGoroutines, Progress
  <1>3. ExitTold'
    BY DEF HealthGoroutines, Progress, ExitTold
  <1> QED
    BY <1>1, <1>2, <1>3

LEMMA ShutdownBeginsStep ==
  ASSUME IInv, ShutdownBegins PROVE IInv'
  <1> USE DEF IInv, ShutdownBegins, ShutdownDue, vars, signalVars
  <1>1. HealthGoroutines'
    BY DEF HealthGoroutines, Progress
  <1>2. Progress'
    BY DEF HealthGoroutines, Progress
  <1>3. ExitTold'
    BY DEF HealthGoroutines, Progress, ExitTold
  <1> QED
    BY <1>1, <1>2, <1>3

LEMMA ShutdownEndsStep ==
  ASSUME IInv, ShutdownEnds PROVE IInv'
  <1> USE DEF IInv, ShutdownEnds, vars, signalVars
  <1>1. HealthGoroutines'
    BY DEF HealthGoroutines, Progress
  <1>2. Progress'
    BY DEF HealthGoroutines, Progress
  <1>3. ExitTold'
    BY DEF HealthGoroutines, Progress, ExitTold
  <1> QED
    BY <1>1, <1>2, <1>3

LEMMA WatchReadsStep ==
  ASSUME IInv, WatchReads PROVE IInv'
  <1> USE DEF IInv, WatchReads, CancelOnError, vars, signalVars
  <1>1. HealthGoroutines'
    BY DEF HealthGoroutines, Progress
  <1>2. Progress'
    BY DEF HealthGoroutines, Progress
  <1>3. ExitTold'
    BY DEF HealthGoroutines, Progress, ExitTold
  <1> QED
    BY <1>1, <1>2, <1>3

\* The signal handler touches nothing the invariant speaks of: it closes
\* nothing, and the context may be cancelled at any time anyway.
LEMMA SignalsStep ==
  ASSUME IInv, SignalStep, UNCHANGED runVars PROVE IInv'
  <1>1. UNCHANGED closed
    BY DEF SignalStep, Handler, TakeShutdown, TakeForwarded, Forward, TakeDone, Deliver
  <1> QED
    BY <1>1 DEF IInv, HealthGoroutines, Progress, ExitTold, runVars, healthVars

LEMMA StutterStep ==
  ASSUME IInv, UNCHANGED gonnerVars PROVE IInv'
  BY DEF gonnerVars, vars, runVars, healthVars, IInv, HealthGoroutines, Progress, ExitTold

\* The invariant holds in every reachable state: the startup, the undoing of it
\* and the health goroutines each preserve it (run.go:68-151).
THEOREM Inductive == GonnerSpec => []IInv
  <1>1. ASSUME IInv, [GonnerNext]_gonnerVars PROVE IInv'
    <2> USE <1>1
    <2>1. CASE Main
      BY <2>1, StartControlStep, StartHealthStep, WritePidFileStep, ManagerRunsStep,
         CancelAllStep, JoinHealthStep, UndoPidFileStep, UndoHealthStep,
         UndoControlStep, UndoSignalsStep DEF Main
    <2>2. CASE HealthServer
      BY <2>2, ServeEndsStep, ShutdownBeginsStep, ShutdownEndsStep, WatchReadsStep
         DEF HealthServer
    <2>3. CASE SignalStep /\ UNCHANGED runVars
      BY <2>3, SignalsStep
    <2>4. CASE UNCHANGED gonnerVars
      BY <2>4, StutterStep
    <2> QED
      BY <2>1, <2>2, <2>3, <2>4, ManagerReturnsStep, ServeFailsStep, ControlClosesStep
         DEF GonnerNext
  <1> QED
    BY <1>1, InitIInv, PTL DEF GonnerSpec

\* Whatever part fails to start, breaks, or is interrupted, runRun returns only
\* when everything it started is joined, closed or removed (run.go:68-151).
THEOREM ReturnsClean == GonnerSpec => []NothingLeftRunning
  <1>1. IInv => NothingLeftRunning
    BY DEF IInv, HealthGoroutines, Progress, NothingLeftRunning
  <1> QED
    BY <1>1, Inductive, PTL

\* Exit status 0 means that neither the manager nor the health endpoint failed,
\* however their failures race (run.go:107, run.go:142).
THEOREM ExitIsTrue == GonnerSpec => []FailureReachesExit
  <1>1. IInv => FailureReachesExit
    BY DEF IInv, ExitTold, FailureReachesExit
  <1> QED
    BY <1>1, Inductive, PTL

-----------------------------------------------------------------------------
(* The management socket *)

\* The file at the path is that of the gonner that has bound it and has not
\* begun to close; one gonner starts at a time; and what is about to be removed
\* belongs to nobody who listens, or will.
Holds(g) == start[g] \in {"listen", "chmod", "serving"}

PathInv ==
    /\ \A g \in Gonners : Holds(g) => at = g
    /\ \A g \in Gonners : start[g] \in Starting \cup {"off", "serving"} => stops[g] = 0
    /\ \A g, h \in Gonners : start[g] \in Starting /\ start[h] \in Starting => g = h
    /\ \A g \in Gonners : start[g] = "remove" => \A h \in Gonners : at = h => ~Holds(h)
    /\ \A g \in Gonners : start[g] \in {"closing", "closed"} => stops[g] > 0

ServedBy(g) == {c \in Conns : conn[c] = "served" /\ to[c] = g}

SlotInv ==
    /\ \A c \in Conns : conn[c] \in {"waiting", "served"} => closes[c] = 0 /\ to[c] \in Gonners
    /\ \A c \in Conns : closes[c] > 0 => conn[c] = "closed" /\ to[c] \in Gonners
    /\ \A g \in Gonners : slots[g] = Cardinality(ServedBy(g))

SInv == ServerTypeOK /\ PathInv

CInv == ServerTypeOK /\ SlotInv

LEMMA InitPath == ServerInit => SInv
  BY ServerAssumption DEF ServerInit, SInv, ServerTypeOK, PathInv, Holds, Starting

LEMMA TypeStep ==
  ASSUME ServerTypeOK, [ServerNext]_<<serverVars, connVars>>
  PROVE  ServerTypeOK'
  <1> USE ServerAssumption DEF ServerTypeOK, Starting
  <1>1. ASSUME NEW g \in Gonners,
               Begin(g) \/ Lstat(g) \/ Dial(g) \/ Remove(g) \/ Bind(g) \/ Listen(g)
        PROVE  ServerTypeOK'
    BY <1>1 DEF Begin, Lstat, Dial, Remove, Bind, Listen, Enter, connVars
  <1>2. ASSUME NEW g \in Gonners, Chmod(g) \/ StopListener(g)
        PROVE  ServerTypeOK'
    BY <1>2 DEF Chmod, StopListener, UnlinkOnce, Enter, connVars
  <1>3. ASSUME NEW g \in Gonners, CloseFd(g) \/ Die(g)
        PROVE  ServerTypeOK'
    BY <1>3 DEF CloseFd, Die, Reset, Enter
  <1>4. ASSUME NEW c \in Conns, Connect(c) \/ Accept(c)
        PROVE  ServerTypeOK'
    BY <1>4 DEF Connect, Accept, serverVars
  <1>5. ASSUME NEW c \in Conns, CloseConn(c)
        PROVE  ServerTypeOK'
    <2>1. conn' \in [Conns -> {"none", "waiting", "served", "closed"}]
          /\ closes' \in [Conns -> Nat]
      BY <1>5 DEF CloseConn
    <2>2. slots' \in [Gonners -> Int]
      <3>1. slots' = slots \/ slots' = [slots EXCEPT ![to[c]] = @ - 1]
        BY <1>5 DEF CloseConn, ReleaseOnce
      <3>2. to[c] \in Gonners => slots[to[c]] - 1 \in Int
        OBVIOUS
      <3> QED
        BY <3>1, <3>2
    <2> QED
      BY <1>5, <2>1, <2>2 DEF CloseConn, serverVars
  <1>6. CASE UNCHANGED <<serverVars, connVars>>
    BY <1>6 DEF serverVars, connVars
  <1> QED
    BY <1>1, <1>2, <1>3, <1>4, <1>5, <1>6 DEF ServerNext

LEMMA PathStep ==
  ASSUME SInv, [ServerNext]_<<serverVars, connVars>>
  PROVE  PathInv'
  <1> USE ServerAssumption DEF SInv, ServerTypeOK, PathInv, Holds, Starting
  <1>1. ASSUME NEW g \in Gonners, Begin(g) \/ Lstat(g)
        PROVE  PathInv'
    BY <1>1 DEF Begin, Lstat, Enter
  <1>2. ASSUME NEW g \in Gonners, Dial(g)
        PROVE  PathInv'
    BY <1>2 DEF Dial, DialAnswers, Refused, Listening, Enter
  <1>3. ASSUME NEW g \in Gonners, Remove(g)
        PROVE  PathInv'
    <2>1. start[g] = "remove" /\ start' = [start EXCEPT ![g] = start'[g]]
          /\ start'[g] \in {"failed", "bind"} /\ UNCHANGED stops
      BY <1>3 DEF Remove, Enter
    <2>2. \A h \in Gonners \ {g} : start'[h] = start[h] /\ start[h] \notin Starting
      BY <2>1
    <2>3. \A h \in Gonners : Holds(h)' => at' = at /\ Holds(h)
      BY <1>3, <2>1, <2>2 DEF Remove, Enter
    <2> QED
      BY <2>1, <2>2, <2>3
  <1>8. ASSUME NEW g \in Gonners, Bind(g)
        PROVE  PathInv'
    <2>1. start[g] = "bind" /\ UNCHANGED stops
      BY <1>8 DEF Bind
    <2>2. \A h \in Gonners \ {g} : start'[h] = start[h] /\ start[h] \notin Starting
      BY <1>8, <2>1 DEF Bind, Enter
    <2>3. CASE at = NoSocket /\ at' = g /\ start' = [start EXCEPT ![g] = "listen"]
      <3>1. \A h \in Gonners \ {g} : ~Holds(h)'
        BY <2>2, <2>3
      <3> QED
        BY <2>1, <2>2, <2>3, <3>1
    <2>4. CASE at' = at /\ start' = [start EXCEPT ![g] = "failed"]
      BY <2>1, <2>2, <2>4
    <2> QED
      BY <1>8, <2>3, <2>4 DEF Bind, Enter
  <1>9. ASSUME NEW g \in Gonners, Listen(g)
        PROVE  PathInv'
    BY <1>9 DEF Listen, Enter
  <1>4. ASSUME NEW g \in Gonners, Chmod(g) \/ StopListener(g)
        PROVE  PathInv'
    BY <1>4 DEF Chmod, StopListener, UnlinkOnce, Enter
  <1>5. ASSUME NEW g \in Gonners, CloseFd(g) \/ Die(g)
        PROVE  PathInv'
    BY <1>5 DEF CloseFd, Die, Enter
  <1>6. ASSUME NEW c \in Conns, Connect(c) \/ Accept(c) \/ CloseConn(c)
        PROVE  PathInv'
    BY <1>6 DEF Connect, Accept, CloseConn, serverVars
  <1>7. CASE UNCHANGED <<serverVars, connVars>>
    BY <1>7 DEF serverVars
  <1> QED
    BY <1>1, <1>2, <1>3, <1>4, <1>5, <1>6, <1>7, <1>8, <1>9 DEF ServerNext

\* On the side of the socket Management is ControlServer.
LEMMA ServerPart == ManagementSpec => ServerSpec
  <1>1. ManagementInit => ServerInit
    BY DEF ManagementInit
  <1>2. [ManagementNext]_managementVars => [ServerNext]_<<serverVars, connVars>>
    BY DEF ManagementNext, managementVars, serverVars, connVars
  <1> QED
    BY <1>1, <1>2, PTL DEF ManagementSpec, ServerSpec

\* No start and no stop of another gonner takes the path from one that listens,
\* for any number of gonners that start one at a time and die at any step.
THEOREM SocketKept == ManagementSpec => []LiveSocketKept
  <1>1. SInv /\ [ServerNext]_<<serverVars, connVars>> => SInv'
    BY TypeStep, PathStep DEF SInv
  <1>2. SInv => LiveSocketKept
    BY DEF SInv, PathInv, Holds, LiveSocketKept, Listening
  <1> QED
    BY InitPath, <1>1, <1>2, ServerPart, PTL DEF ServerSpec

-----------------------------------------------------------------------------

LEMMA InitSlots == ServerInit => CInv
  <1> SUFFICES ASSUME ServerInit PROVE CInv
    OBVIOUS
  <1>1. \A g \in Gonners : ServedBy(g) = {}
    BY DEF ServerInit, ServedBy
  <1>2. SlotInv
    BY <1>1, FS_EmptySet DEF ServerInit, SlotInv
  <1> QED
    BY <1>2, InitPath DEF CInv, SInv

\* A step that leaves the served connections as they are.
LEMMA SameServed ==
  ASSUME ServerTypeOK, SlotInv, UNCHANGED <<to, closes, slots>>,
         conn' \in [Conns -> {"none", "waiting", "served", "closed"}],
         \A c \in Conns : /\ conn'[c] = "served" <=> conn[c] = "served"
                          /\ conn'[c] = "waiting" => conn[c] = "waiting"
                          /\ conn[c] = "closed" => conn'[c] = "closed"
  PROVE  SlotInv'
  <1>1. \A g \in Gonners : ServedBy(g)' = ServedBy(g)
    BY DEF ServedBy
  <1> QED
    BY <1>1 DEF SlotInv, ServerTypeOK

LEMMA SlotStep ==
  ASSUME CInv, [ServerNext]_<<serverVars, connVars>>
  PROVE  SlotInv'
  <1> USE DEF CInv
  <1>0. ServerTypeOK'
    BY TypeStep
  <1>1. ASSUME NEW g \in Gonners,
               \/ Begin(g) \/ Lstat(g) \/ Dial(g) \/ Remove(g) \/ Bind(g) \/ Listen(g)
               \/ Chmod(g) \/ StopListener(g)
        PROVE  SlotInv'
    <2>1. UNCHANGED connVars
      BY <1>1 DEF Begin, Lstat, Dial, Remove, Bind, Listen, Chmod, StopListener
    <2> QED
      BY <2>1, SameServed DEF connVars, ServerTypeOK
  <1>2. ASSUME NEW g \in Gonners, CloseFd(g)
        PROVE  SlotInv'
    BY <1>0, <1>2, SameServed DEF CloseFd, Reset, ServerTypeOK
  <1>3. ASSUME NEW g \in Gonners, Die(g)
        PROVE  SlotInv'
    <2>1. \A c \in Conns : conn'[c] = IF to[c] = g THEN "closed" ELSE conn[c]
      BY <1>3 DEF Die
    <2>2. ServedBy(g)' = {} /\ \A h \in Gonners \ {g} : ServedBy(h)' = ServedBy(h)
      BY <1>3, <2>1 DEF Die, ServedBy
    <2>3. slots'[g] = 0 /\ \A h \in Gonners \ {g} : slots'[h] = slots[h]
      BY <1>3 DEF Die, ServerTypeOK
    <2> QED
      <3>1. /\ \A c \in Conns : conn'[c] \in {"waiting", "served"} => conn'[c] = conn[c]
            /\ \A c \in Conns : conn[c] = "closed" => conn'[c] = "closed"
        BY <2>1
      <3>2. UNCHANGED <<to, closes>>
        BY <1>3 DEF Die
      <3>3. \A h \in Gonners : slots'[h] = Cardinality(ServedBy(h)')
        BY <2>2, <2>3, FS_EmptySet DEF SlotInv
      <3> QED
        BY <3>1, <3>2, <3>3 DEF SlotInv
  <1>4. ASSUME NEW c \in Conns, Connect(c)
        PROVE  SlotInv'
    <2>1. \A g \in Gonners : ServedBy(g)' = ServedBy(g)
      BY <1>4 DEF Connect, ServedBy, ServerTypeOK
    <2> QED
      BY <1>4, <2>1, ServerAssumption DEF Connect, SlotInv, ServerTypeOK, serverVars
  <1>5. ASSUME NEW c \in Conns, Accept(c)
        PROVE  SlotInv'
    <2>1. CASE conn' = [conn EXCEPT ![c] = "closed"] /\ UNCHANGED slots
      BY <1>0, <1>5, <2>1, SameServed DEF Accept, ServerTypeOK
    <2>2. CASE /\ conn' = [conn EXCEPT ![c] = "served"]
               /\ slots' = [slots EXCEPT ![to[c]] = @ + 1]
      <3>1. to[c] \in Gonners /\ c \notin ServedBy(to[c])
        BY <1>5 DEF Accept, SlotInv, ServedBy
      <3>2. /\ ServedBy(to[c])' = ServedBy(to[c]) \cup {c}
            /\ \A h \in Gonners \ {to[c]} : ServedBy(h)' = ServedBy(h)
        BY <1>5, <2>2 DEF Accept, ServedBy, ServerTypeOK
      <3>3. IsFiniteSet(ServedBy(to[c]))
        BY ServerAssumption, FS_Subset DEF ServedBy
      <3>4. Cardinality(ServedBy(to[c])') = Cardinality(ServedBy(to[c])) + 1
        BY <3>1, <3>2, <3>3, FS_AddElement
      <3>5. UNCHANGED <<to, closes>> /\ conn[c] = "waiting"
        BY <1>5 DEF Accept
      <3>6. /\ \A d \in Conns : conn'[d] \in {"waiting", "served"} =>
                                   conn[d] \in {"waiting", "served"}
            /\ \A d \in Conns : conn[d] = "closed" => conn'[d] = "closed"
        BY <2>2, <3>5 DEF ServerTypeOK
      <3>7. /\ slots'[to[c]] = slots[to[c]] + 1
            /\ \A h \in Gonners \ {to[c]} : slots'[h] = slots[h]
        BY <2>2, <3>1 DEF ServerTypeOK
      <3>8. \A h \in Gonners : slots'[h] = Cardinality(ServedBy(h)')
        <4> SUFFICES ASSUME NEW h \in Gonners PROVE slots'[h] = Cardinality(ServedBy(h)')
          OBVIOUS
        <4>1. slots[h] = Cardinality(ServedBy(h))
          BY DEF SlotInv
        <4>2. CASE h = to[c]
          BY <3>4, <3>5, <3>7, <4>1, <4>2
        <4>3. CASE h # to[c]
          BY <3>2, <3>7, <4>1, <4>3
        <4> QED
          BY <4>2, <4>3
      <3> QED
        BY <3>5, <3>6, <3>8 DEF SlotInv
    <2> QED
      BY <1>5, <2>1, <2>2 DEF Accept
  <1>6. ASSUME NEW c \in Conns, CloseConn(c)
        PROVE  SlotInv'
    <2>1. CASE conn[c] = "served"
      <3>1. to[c] \in Gonners /\ c \in ServedBy(to[c]) /\ closes[c] = 0
        BY <2>1 DEF SlotInv, ServedBy
      <3>2. /\ ServedBy(to[c])' = ServedBy(to[c]) \ {c}
            /\ \A h \in Gonners \ {to[c]} : ServedBy(h)' = ServedBy(h)
        BY <1>6 DEF CloseConn, ServedBy, ServerTypeOK
      <3>3. IsFiniteSet(ServedBy(to[c]))
        BY ServerAssumption, FS_Subset DEF ServedBy
      <3>4. Cardinality(ServedBy(to[c])') = Cardinality(ServedBy(to[c])) - 1
        BY <3>1, <3>2, <3>3, FS_RemoveElement
      <3>5. /\ slots'[to[c]] = slots[to[c]] - 1
            /\ \A h \in Gonners \ {to[c]} : slots'[h] = slots[h]
        BY <1>6, <3>1 DEF CloseConn, ReleaseOnce, ServerTypeOK
      <3> QED
        BY <1>6, <3>1, <3>2, <3>4, <3>5 DEF CloseConn, SlotInv, ServerTypeOK
    <2>2. CASE conn[c] = "closed" /\ closes[c] = 1
      <3>1. \A g \in Gonners : ServedBy(g)' = ServedBy(g)
        BY <1>6, <2>2 DEF CloseConn, ServedBy, ServerTypeOK
      <3> QED
        BY <1>6, <2>2, <3>1 DEF CloseConn, ReleaseOnce, SlotInv, ServerTypeOK
    <2> QED
      BY <1>6, <2>1, <2>2 DEF CloseConn
  <1>7. CASE UNCHANGED <<serverVars, connVars>>
    BY <1>7, SameServed DEF connVars, ServerTypeOK
  <1> QED
    BY <1>1, <1>2, <1>3, <1>4, <1>5, <1>6, <1>7 DEF ServerNext

\* The slot channel holds one token for each connection that is served, for any
\* number of connections, slots and repeated closes.
THEOREM SlotsCounted == ManagementSpec => []SlotsExact
  <1>1. CInv /\ [ServerNext]_<<serverVars, connVars>> => CInv'
    BY TypeStep, SlotStep DEF CInv
  <1>2. CInv => SlotsExact
    BY DEF CInv, SlotInv, ServedBy, SlotsExact
  <1> QED
    BY InitSlots, <1>1, <1>2, ServerPart, PTL DEF ServerSpec

-----------------------------------------------------------------------------
(* Sums of a function over a finite set *)

\* What MapThenSumSet adds up for Restarts.
Total(f, S) == MapThenSumSet(LAMBDA i : f[i], S)

\* The element MapThenSumSet takes first.
Pick(s) == CHOOSE x \in s : TRUE

\* h adds up f on every subset of S.
IsTotal(h, f, S) ==
    h = [s \in SUBSET S |-> IF s = {} THEN 0 ELSE f[Pick(s)] + h[s \ {Pick(s)}]]

\* MapThenSumSet takes the value at S of such a function, if there is one.
LEMMA TotalIsChosen ==
  ASSUME NEW f, NEW S PROVE Total(f, S) = (CHOOSE h : IsTotal(h, f, S))[S]
  BY DEF Total, MapThenSumSet, MapThenFoldSet, Pick, IsTotal

\* What stands in for induction: of the finite sets with a property, if there
\* are any, one has no proper subset with it.
LEMMA SmallestSubset ==
  ASSUME NEW S, IsFiniteSet(S), NEW T, T \subseteq SUBSET S, T # {}
  PROVE  \E s \in T : \A t \in T : ~(t \subseteq s /\ t # s)
  <1>1. IsWellFoundedOn(StrictSubsetOrdering(S), FiniteSubsetsOf(S))
    BY FS_StrictSubsetOrderingWellFounded
  <1>2. T \subseteq FiniteSubsetsOf(S)
    BY FS_FiniteSubsetsOfFinite
  <1>3. \E s \in T : \A t \in T : ~ (<<t, s>> \in StrictSubsetOrdering(S))
    BY <1>1, <1>2, WFMin
  <1> QED
    BY <1>3 DEF StrictSubsetOrdering

LEMMA PickIn == ASSUME NEW s, s # {} PROVE Pick(s) \in s
  BY DEF Pick

\* There is at most one such function on a finite set, and
LEMMA TotalUnique ==
  ASSUME NEW f, NEW S, IsFiniteSet(S), NEW g, NEW h, IsTotal(g, f, S), IsTotal(h, f, S)
  PROVE  g = h
  <1> DEFINE T == {s \in SUBSET S : g[s] # h[s]}
  <1>1. CASE T = {}
    BY <1>1 DEF IsTotal
  <1>2. CASE T # {}
    <2>1. PICK s \in T : \A t \in T : ~(t \subseteq s /\ t # s)
      <3>1. T \subseteq SUBSET S
        OBVIOUS
      <3> HIDE DEF T
      <3> QED
        BY <1>2, <3>1, SmallestSubset
    <2>2. s # {}
      BY DEF IsTotal
    <2>3. s \ {Pick(s)} \subseteq s /\ s \ {Pick(s)} # s
      BY <2>2, PickIn
    <2>4. g[s \ {Pick(s)}] = h[s \ {Pick(s)}]
      BY <2>1, <2>3
    <2> QED
      BY <2>2, <2>4 DEF IsTotal
  <1> QED
    BY <1>1, <1>2

\* A function that is the sum on the subsets of S is so on those of a subset.
LEMMA TotalRestricts ==
  ASSUME NEW f, NEW S, NEW h, IsTotal(h, f, S), NEW s \in SUBSET S
  PROVE  IsTotal([t \in SUBSET s |-> h[t]], f, s)
  <1> DEFINE r == [t \in SUBSET s |-> h[t]]
  <1>1. \A t \in SUBSET s : t # {} => h[t] = f[Pick(t)] + r[t \ {Pick(t)}]
    BY DEF IsTotal
  <1>2. \A t \in SUBSET s : t = {} => h[t] = 0
    BY DEF IsTotal
  <1> QED
    BY <1>1, <1>2 DEF IsTotal

\* A sum does not depend on the set it is computed as a part of.
LEMMA TotalOfSubset ==
  ASSUME NEW f, NEW S, IsFiniteSet(S), NEW h, IsTotal(h, f, S), NEW s \in SUBSET S
  PROVE  Total(f, s) = h[s]
  <1> DEFINE r == [t \in SUBSET s |-> h[t]]
  <1>1. IsTotal(r, f, s)
    BY TotalRestricts
  <1>2. IsFiniteSet(s)
    BY FS_Subset
  <1> HIDE DEF r
  <1>3. IsTotal((CHOOSE g : IsTotal(g, f, s)), f, s)
    BY <1>1
  <1>4. (CHOOSE g : IsTotal(g, f, s)) = r
    BY <1>1, <1>2, <1>3, TotalUnique
  <1> QED
    BY <1>4, TotalIsChosen DEF r

\* there is one: the sums of smaller sets give that of a set.
LEMMA TotalExists ==
  ASSUME NEW f, NEW S, IsFiniteSet(S) PROVE \E h : IsTotal(h, f, S)
  <1> DEFINE T == {s \in SUBSET S : ~ \E h : IsTotal(h, f, s)}
  <1>1. T \subseteq SUBSET S
    OBVIOUS
  <1>2. SUFFICES ASSUME T # {} PROVE FALSE
    BY <1>1
  <1>3. PICK s \in T : \A t \in T : ~(t \subseteq s /\ t # s)
    <2> HIDE DEF T
    <2> QED
      BY <1>1, <1>2, SmallestSubset
  <1>4. IsFiniteSet(s)
    BY FS_Subset
  <1>5. \A t \in SUBSET s : t # s => \E h : IsTotal(h, f, t)
    BY <1>3
  <1> DEFINE g == [t \in SUBSET s |-> IF t = {} THEN 0 ELSE f[Pick(t)] + Total(f, t \ {Pick(t)})]
  <1>6. ASSUME NEW t \in SUBSET s, t # s PROVE g[t] = Total(f, t)
    <2>1. PICK h : IsTotal(h, f, t)
      BY <1>5, <1>6
    <2>2. IsFiniteSet(t)
      BY <1>4, FS_Subset
    <2>3. Total(f, t) = h[t]
      BY <2>1, <2>2, TotalOfSubset
    <2>4. CASE t = {}
      BY <2>1, <2>3, <2>4 DEF IsTotal
    <2>5. CASE t # {}
      <3>1. t \ {Pick(t)} \in SUBSET t
        OBVIOUS
      <3>2. Total(f, t \ {Pick(t)}) = h[t \ {Pick(t)}]
        BY <2>1, <2>2, <3>1, TotalOfSubset
      <3>3. h[t] = f[Pick(t)] + h[t \ {Pick(t)}]
        BY <2>1, <2>5 DEF IsTotal
      <3> QED
        BY <2>3, <2>5, <3>2, <3>3
    <2> QED
      BY <2>4, <2>5
  <1>7. \A t \in SUBSET s : t # {} => t \ {Pick(t)} \in SUBSET s /\ t \ {Pick(t)} # s
    BY PickIn
  <1>8. IsTotal(g, f, s)
    <2>1. \A t \in SUBSET s : t # {} => g[t \ {Pick(t)}] = Total(f, t \ {Pick(t)})
      BY <1>6, <1>7
    <2>2. g = [t \in SUBSET s |-> IF t = {} THEN 0 ELSE f[Pick(t)] + g[t \ {Pick(t)}]]
      BY <2>1
    <2> QED
      BY <2>2 DEF IsTotal
  <1> QED
    BY <1>3, <1>8

LEMMA TotalEmpty == ASSUME NEW f PROVE Total(f, {}) = 0
  <1>1. IsFiniteSet({})
    BY FS_EmptySet
  <1>2. PICK h : IsTotal(h, f, {})
    BY <1>1, TotalExists
  <1>3. Total(f, {}) = h[{}]
    BY <1>1, <1>2, TotalOfSubset
  <1> QED
    BY <1>2, <1>3 DEF IsTotal

\* The equations of the sum.
LEMMA TotalPick ==
  ASSUME NEW f, NEW S, IsFiniteSet(S), S # {}
  PROVE  Total(f, S) = f[Pick(S)] + Total(f, S \ {Pick(S)})
  <1>1. PICK h : IsTotal(h, f, S)
    BY TotalExists
  <1>2. Total(f, S) = h[S]
    BY <1>1, TotalOfSubset
  <1>3. Total(f, S \ {Pick(S)}) = h[S \ {Pick(S)}]
    BY <1>1, TotalOfSubset
  <1> QED
    BY <1>1, <1>2, <1>3 DEF IsTotal

LEMMA TotalType ==
  ASSUME NEW S, IsFiniteSet(S), NEW f, \A x \in S : f[x] \in Nat
  PROVE  Total(f, S) \in Nat
  <1> DEFINE T == {s \in SUBSET S : Total(f, s) \notin Nat}
  <1>1. SUFFICES ASSUME T # {} PROVE FALSE
    OBVIOUS
  <1>2. PICK s \in T : \A t \in T : ~(t \subseteq s /\ t # s)
    <2>1. T \subseteq SUBSET S
      OBVIOUS
    <2> HIDE DEF T
    <2> QED
      BY <1>1, <2>1, SmallestSubset
  <1>3. s # {}
    BY TotalEmpty
  <1>4. Pick(s) \in s
    BY <1>3, PickIn
  <1>5. Total(f, s \ {Pick(s)}) \in Nat
    BY <1>2, <1>4
  <1>6. IsFiniteSet(s)
    BY FS_Subset
  <1>7. Total(f, s) = f[Pick(s)] + Total(f, s \ {Pick(s)})
    BY <1>3, <1>6, TotalPick
  <1> QED
    BY <1>4, <1>5, <1>7

\* The order does not matter: any element can be taken out first.
LEMMA TotalRemove ==
  ASSUME NEW S, IsFiniteSet(S), NEW f, \A x \in S : f[x] \in Nat, NEW x \in S
  PROVE  Total(f, S) = f[x] + Total(f, S \ {x})
  <1> DEFINE Splits(s) == \A y \in s : Total(f, s) = f[y] + Total(f, s \ {y})
             T == {s \in SUBSET S : ~Splits(s)}
  <1>1. SUFFICES ASSUME T # {} PROVE FALSE
    OBVIOUS
  <1>2. PICK s \in T : \A t \in T : ~(t \subseteq s /\ t # s)
    <2>1. T \subseteq SUBSET S
      OBVIOUS
    <2> HIDE DEF T
    <2> QED
      BY <1>1, <2>1, SmallestSubset
  <1>3. PICK y \in s : Total(f, s) # f[y] + Total(f, s \ {y})
    BY <1>2
  <1>4. \A t \in SUBSET s : t # s => Splits(t)
    BY <1>2
  <1>5. IsFiniteSet(s)
    BY FS_Subset
  <1> DEFINE p == Pick(s)
  <1>6. p \in s
    BY <1>3, PickIn
  <1> HIDE DEF p
  <1>7. Total(f, s) = f[p] + Total(f, s \ {p})
    BY <1>3, <1>5, TotalPick DEF p
  <1>8. p # y
    BY <1>3, <1>7
  <1>9. Total(f, s \ {p}) = f[y] + Total(f, (s \ {p}) \ {y})
    BY <1>4, <1>6, <1>8
  <1>10. Total(f, s \ {y}) = f[p] + Total(f, (s \ {y}) \ {p})
    BY <1>3, <1>4, <1>6, <1>8
  <1>11. (s \ {y}) \ {p} = (s \ {p}) \ {y}
    OBVIOUS
  <1>12. Total(f, (s \ {p}) \ {y}) \in Nat
    <2>1. (s \ {p}) \ {y} \in SUBSET S
      OBVIOUS
    <2>2. IsFiniteSet((s \ {p}) \ {y})
      BY <2>1, FS_Subset
    <2> QED
      BY <2>1, <2>2, TotalType
  <1>13. f[p] \in Nat /\ f[y] \in Nat
    BY <1>3, <1>6
  <1>14. Total(f, s) = f[y] + (f[p] + Total(f, (s \ {p}) \ {y}))
    BY <1>7, <1>9, <1>12, <1>13
  <1> QED
    BY <1>3, <1>10, <1>11, <1>14

\* Terms that grow make a sum that grows.
LEMMA TotalMonotone ==
  ASSUME NEW S, IsFiniteSet(S), NEW f, NEW g,
         \A x \in S : f[x] \in Nat /\ g[x] \in Nat /\ f[x] <= g[x]
  PROVE  Total(f, S) <= Total(g, S)
  <1> DEFINE T == {s \in SUBSET S : ~(Total(f, s) <= Total(g, s))}
  <1>1. SUFFICES ASSUME T # {} PROVE FALSE
    OBVIOUS
  <1>2. PICK s \in T : \A t \in T : ~(t \subseteq s /\ t # s)
    <2>1. T \subseteq SUBSET S
      OBVIOUS
    <2> HIDE DEF T
    <2> QED
      BY <1>1, <2>1, SmallestSubset
  <1>3. s # {}
    BY TotalEmpty
  <1>4. IsFiniteSet(s) /\ IsFiniteSet(s \ {Pick(s)})
    BY FS_Subset
  <1>5. Pick(s) \in s
    BY <1>3, PickIn
  <1>6. Total(f, s) = f[Pick(s)] + Total(f, s \ {Pick(s)})
        /\ Total(g, s) = g[Pick(s)] + Total(g, s \ {Pick(s)})
    BY <1>3, <1>4, TotalPick
  <1>7. Total(f, s \ {Pick(s)}) <= Total(g, s \ {Pick(s)})
    BY <1>2, <1>5
  <1>8. Total(f, s \ {Pick(s)}) \in Nat /\ Total(g, s \ {Pick(s)}) \in Nat
    BY <1>4, TotalType
  <1> QED
    BY <1>2, <1>5, <1>6, <1>7, <1>8

-----------------------------------------------------------------------------
(* The status queries *)

\* The instances read before position p, and those of a name read so far.
ReadBefore(p) == {Processes[k] : k \in 1..(p - 1)}
ReadOf(n) == {i \in ReadBefore(pos) : nameOf[i] = n}

\* What a query under way has gathered, of the instances it has read.
Gathered ==
    /\ query = "none" => pos = 1 /\ seen = {} /\ up = {} /\ agg = Empty
    /\ query # "none" => RunningNow \subseteq ran
    /\ \A i \in ReadBefore(pos) : query = "ready" /\ nameOf[i] \in critical => nameOf[i] \in seen
    /\ \A n \in up : InstancesOf(n) \cap ran # {}

\* Processes: a name counts the instances read, and of these no more running
\* than have been.
Counts(n) ==
    /\ agg[n].instances = Cardinality(ReadOf(n))
    /\ agg[n].running \in Nat
    /\ (agg[n].status = "running") <=> (agg[n].running > 0)
    /\ agg[n].running <= Cardinality(ReadOf(n) \cap ran)

\* Every counter read was between what it was at the start and what it is.
Added(n) ==
    /\ agg[n].restarts \in Nat
    /\ Total(base, ReadOf(n)) <= agg[n].restarts
    /\ agg[n].restarts <= Total(restarts, ReadOf(n))

StatusTypeOK ==
    /\ nameOf \in Namings
    /\ started \in [Insts -> BOOLEAN]
    /\ restarts \in [Insts -> Nat]
    /\ base \in [Insts -> Nat]
    /\ query # "none" => \A i \in Insts : base[i] <= restarts[i]
    /\ pos \in 1..(Len(Processes) + 1)
    /\ agg = [n \in Names |-> agg[n]]
    /\ query \in {"none", "ready", "processes"}

QueryInv ==
    /\ StatusTypeOK
    /\ Gathered
    /\ query = "processes" => \A n \in Names : Counts(n)
    /\ query = "processes" => \A n \in Names : Added(n)

\* The instances are as many as there are places in the list: none is twice.
LEMMA InstancesFinite ==
  /\ IsFiniteSet(Insts)
  /\ Len(Processes) \in Nat
  /\ \A k, l \in 1..Len(Processes) : Processes[k] = Processes[l] => k = l
  <1>1. /\ Len(Processes) \in Nat
        /\ Processes \in [1..Len(Processes) -> Insts]
    <2>1. Processes \in Seq(Insts)
      BY ProcessesAreInstances
    <2> QED
      BY <2>1, LenProperties
  <1>2. Processes \in Surjection(1..Len(Processes), Insts)
    <2>1. Insts = {Processes[k] : k \in 1..Len(Processes)}
      BY ProcessesAreInstances
    <2>2. \A i \in Insts : \E k \in 1..Len(Processes) : Processes[k] = i
      BY <2>1
    <2> QED
      BY <1>1, <2>2 DEF Surjection
  <1>3. /\ IsFiniteSet(1..Len(Processes))
        /\ Cardinality(1..Len(Processes)) = Len(Processes)
    BY <1>1, FS_Interval
  <1>4. /\ IsFiniteSet(Insts)
        /\ Processes \in Injection(1..Len(Processes), Insts)
    <2>1. Cardinality(Insts) = Cardinality(1..Len(Processes))
      BY <1>3, ProcessesAreInstances
    <2> QED
      BY <1>2, <1>3, <2>1, FS_Surjection
  <1> QED
    BY <1>1, <1>4 DEF Injection, IsInjective

\* The next instance to be read has not been read before.
LEMMA ReadNext ==
  ASSUME StatusTypeOK, ~AllRead, pos' = pos + 1
  PROVE  /\ Processes[pos] \in Insts
         /\ Processes[pos] \notin ReadBefore(pos)
         /\ ReadBefore(pos)' = ReadBefore(pos) \cup {Processes[pos]}
         /\ pos' \in 1..(Len(Processes) + 1)
  <1>1. pos \in 1..Len(Processes) /\ Len(Processes) \in Nat
    BY InstancesFinite DEF StatusTypeOK, AllRead
  <1>2. Processes[pos] \in Insts
    BY <1>1, ProcessesAreInstances
  <1>3. Processes[pos] \notin ReadBefore(pos)
    BY <1>1, InstancesFinite DEF ReadBefore
  <1>4. 1..(pos' - 1) = 1..(pos - 1) \cup {pos}
    BY <1>1
  <1>5. ReadBefore(pos)' = ReadBefore(pos) \cup {Processes[pos]}
    BY <1>4 DEF ReadBefore
  <1> QED
    BY <1>1, <1>2, <1>3, <1>5

LEMMA ReadIsInsts ==
  ASSUME StatusTypeOK
  PROVE  /\ ReadBefore(pos) \subseteq Insts
         /\ AllRead => ReadBefore(pos) = Insts
         /\ pos = 1 => ReadBefore(pos) = {}
  <1>1. pos \in 1..(Len(Processes) + 1) /\ Len(Processes) \in Nat
    BY InstancesFinite DEF StatusTypeOK
  <1>2. ReadBefore(pos) \subseteq Insts
    <2>1. \A k \in 1..(pos - 1) : k \in 1..Len(Processes)
      BY <1>1
    <2> QED
      BY <2>1, ProcessesAreInstances DEF ReadBefore
  <1>3. ASSUME AllRead PROVE ReadBefore(pos) = Insts
    <2>1. pos - 1 = Len(Processes)
      BY <1>1, <1>3 DEF AllRead
    <2> QED
      BY <2>1, ProcessesAreInstances DEF ReadBefore
  <1>4. ASSUME pos = 1 PROVE ReadBefore(pos) = {}
    BY <1>4 DEF ReadBefore
  <1> QED
    BY <1>2, <1>3, <1>4

\* When all is read, what has been gathered is the answer.
LEMMA QueryGivesAnswers == QueryInv => AnswersHoldDuring
  <1> SUFFICES ASSUME QueryInv PROVE AnswersHoldDuring
    OBVIOUS
  <1>1. ASSUME query = "ready", AllRead, Ready, NEW n \in critical \cap Names
        PROVE  InstancesOf(n) \cap ran # {}
    <2>1. PICK i \in Insts : nameOf[i] = n
      BY <1>1 DEF Names
    <2>2. i \in ReadBefore(pos)
      BY <1>1, ReadIsInsts DEF QueryInv
    <2>3. n \in seen
      BY <1>1, <2>1, <2>2 DEF QueryInv, Gathered
    <2> QED
      BY <1>1, <2>3 DEF Ready, QueryInv, Gathered
  <1>2. ASSUME query = "processes", AllRead, NEW n \in Names
        PROVE  /\ agg[n].instances = Cardinality(InstancesOf(n))
               /\ (agg[n].status = "running") <=> (agg[n].running > 0)
               /\ agg[n].running <= Cardinality(InstancesOf(n) \cap ran)
               /\ Restarts(base, n) <= agg[n].restarts
               /\ agg[n].restarts <= Restarts(restarts, n)
    <2>1. ReadOf(n) = InstancesOf(n)
      BY <1>2, ReadIsInsts DEF QueryInv, ReadOf, InstancesOf
    <2>2. /\ Restarts(base, n) = Total(base, InstancesOf(n))
          /\ Restarts(restarts, n) = Total(restarts, InstancesOf(n))
      BY DEF Restarts, Total
    <2> QED
      BY <1>2, <2>1, <2>2 DEF QueryInv, Counts, Added
  <1> QED
    BY <1>1, <1>2 DEF AnswersHoldDuring

LEMMA InitQuery == StatusInit => QueryInv
  <1> SUFFICES ASSUME StatusInit PROVE QueryInv
    OBVIOUS
  <1>1. Len(Processes) \in Nat
    BY InstancesFinite
  <1>2. ReadBefore(pos) = {}
    BY DEF StatusInit, ReadBefore
  <1>3. StatusTypeOK
    BY <1>1 DEF StatusInit, Init, StatusTypeOK, NoRestarts, Empty
  <1> QED
    BY <1>2, <1>3 DEF StatusInit, QueryInv, Gathered

\* What has been read of a name is a finite set of instances.
LEMMA ReadFinite ==
  ASSUME StatusTypeOK, NEW n
  PROVE  IsFiniteSet(ReadOf(n)) /\ ReadOf(n) \subseteq Insts
  <1>1. ReadOf(n) \subseteq Insts
    BY ReadIsInsts DEF ReadOf
  <1> QED
    BY <1>1, InstancesFinite, FS_Subset

\* A process that moves on during a query: what was running has been, and a
\* counter only grows.
LEMMA ProcessStepKeeps ==
  ASSUME QueryInv, ProcessStep PROVE QueryInv'
  <1> USE DEF QueryInv
  <1>1. /\ UNCHANGED <<nameOf, critical, query, pos, seen, up, agg, base>>
        /\ ran' = IF query = "none" THEN ran ELSE ran \cup RunningNow'
    BY DEF ProcessStep, config, queryVars
  <1>2. /\ started' \in [Insts -> BOOLEAN]
        /\ restarts' \in [Insts -> Nat]
        /\ \A i \in Insts : restarts[i] <= restarts'[i]
    <2>1. PICK i \in Insts : Moves(i) \/ Ends(i) \/ Runs(i)
      BY DEF ProcessStep
    <2>2. CASE UNCHANGED <<started, restarts>>
      BY <2>2 DEF StatusTypeOK
    <2>3. CASE Runs(i)
      BY <2>3 DEF Runs, StatusTypeOK
    <2> QED
      BY <2>1, <2>2, <2>3 DEF Moves, Ends
  <1>3. StatusTypeOK'
    <2>1. query' # "none" => \A i \in Insts : base'[i] <= restarts'[i]
      BY <1>1, <1>2 DEF StatusTypeOK
    <2> QED
      BY <1>1, <1>2, <2>1 DEF StatusTypeOK, Names
  <1>4. ReadBefore(pos)' = ReadBefore(pos) /\ \A n : ReadOf(n)' = ReadOf(n)
    BY <1>1 DEF ReadBefore, ReadOf
  <1>5. Gathered'
    BY <1>1, <1>4 DEF Gathered, InstancesOf, Empty, Names
  <1>6. ASSUME query' = "processes", NEW n \in Names' PROVE Counts(n)' /\ Added(n)'
    <2>1. query = "processes" /\ n \in Names
      BY <1>1, <1>6 DEF Names
    <2>2. Cardinality(ReadOf(n) \cap ran) \in Nat
          /\ Cardinality(ReadOf(n) \cap ran') \in Nat
          /\ Cardinality(ReadOf(n) \cap ran) <= Cardinality(ReadOf(n) \cap ran')
      <3>1. ReadOf(n) \cap ran \subseteq ReadOf(n) \cap ran'
        BY <1>1
      <3>2. IsFiniteSet(ReadOf(n) \cap ran')
        BY ReadFinite, FS_Subset
      <3>3. /\ IsFiniteSet(ReadOf(n) \cap ran)
            /\ Cardinality(ReadOf(n) \cap ran) <= Cardinality(ReadOf(n) \cap ran')
        BY <3>1, <3>2, FS_Subset
      <3> QED
        BY <3>2, <3>3, FS_CardinalityType
    <2>3. Counts(n)'
      BY <1>1, <1>4, <2>1, <2>2 DEF Counts
    <2>4. /\ Total(restarts, ReadOf(n)) <= Total(restarts', ReadOf(n))
          /\ Total(restarts, ReadOf(n)) \in Nat
          /\ Total(restarts', ReadOf(n)) \in Nat
      <3>1. \A i \in ReadOf(n) : restarts[i] \in Nat /\ restarts'[i] \in Nat
                                 /\ restarts[i] <= restarts'[i]
        BY <1>2, ReadFinite DEF StatusTypeOK
      <3> QED
        BY <3>1, ReadFinite, TotalMonotone, TotalType
    <2>5. Added(n)'
      BY <1>1, <1>4, <2>1, <2>4 DEF Added
    <2> QED
      BY <2>3, <2>5
  <1> QED
    BY <1>3, <1>5, <1>6

LEMMA AskedKeeps ==
  ASSUME QueryInv, NEW q \in {"ready", "processes"}, Asked(q) PROVE QueryInv'
  <1> USE DEF QueryInv
  <1>1. /\ UNCHANGED <<published, nameOf, critical, pos, seen, up, agg>>
        /\ pos = 1 /\ seen = {} /\ up = {} /\ agg = Empty
        /\ query' = q /\ ran' = RunningNow /\ base' = restarts
    BY DEF Asked, Gathered, config
  <1>2. StatusTypeOK'
    BY <1>1 DEF StatusTypeOK, Names, published
  <1>3. ReadBefore(pos)' = {} /\ \A n : ReadOf(n)' = {}
    BY <1>1, ReadIsInsts DEF ReadBefore, ReadOf
  <1>4. Gathered'
    BY <1>1, <1>3 DEF Gathered, RunningNow, published
  <1>5. ASSUME NEW n \in Names' PROVE Counts(n)' /\ Added(n)'
    <2>1. agg'[n] = Nothing
      BY <1>1, <1>5 DEF Empty, Names
    <2>2. Counts(n)'
      BY <1>3, <2>1, FS_EmptySet DEF Counts, Nothing
    <2>3. Total(base', {}) = 0 /\ Total(restarts', {}) = 0
      BY TotalEmpty
    <2>4. Added(n)'
      BY <1>3, <2>1, <2>3 DEF Added, Nothing
    <2> QED
      BY <2>2, <2>4
  <1> QED
    BY <1>2, <1>4, <1>5

LEMMA ReadyReadsKeeps ==
  ASSUME QueryInv, ReadyReads PROVE QueryInv'
  <1> USE DEF QueryInv
  <1> DEFINE i == Processes[pos]
  <1>1. /\ query = "ready" /\ ~AllRead /\ pos' = pos + 1
        /\ UNCHANGED <<state, started, restarts, over, nameOf, critical, query, agg, ran, base>>
        /\ seen' = seen \cup {n \in {nameOf[i]} : nameOf[i] \in critical}
        /\ up' = up \cup {n \in {nameOf[i]} : nameOf[i] \in critical /\ state[i] = "running"}
    BY DEF ReadyReads, Seen, Up, config, published
  <1>2. /\ i \in Insts
        /\ ReadBefore(pos)' = ReadBefore(pos) \cup {i}
        /\ pos' \in 1..(Len(Processes) + 1)
    BY <1>1, ReadNext
  <1> HIDE DEF i
  <1>3. StatusTypeOK'
    BY <1>1, <1>2 DEF StatusTypeOK, Names
  <1>4. \A j \in ReadBefore(pos)' : nameOf[j] \in critical => nameOf[j] \in seen'
    BY <1>1, <1>2 DEF Gathered
  <1>5. \A n \in up' : InstancesOf(n)' \cap ran' # {}
    <2>1. \A n : InstancesOf(n)' = InstancesOf(n)
      BY <1>1 DEF InstancesOf
    <2>2. state[i] = "running" => i \in ran /\ i \in InstancesOf(nameOf[i])
      BY <1>1, <1>2 DEF Gathered, RunningNow, InstancesOf
    <2> QED
      BY <1>1, <2>1, <2>2 DEF Gathered
  <1>6. RunningNow' \subseteq ran'
    BY <1>1 DEF Gathered, RunningNow
  <1> QED
    BY <1>1, <1>3, <1>4, <1>5, <1>6 DEF Gathered

\* One more instance is added to what is known of its name.
LEMMA ProcessesReadsKeeps ==
  ASSUME QueryInv, ProcessesReads PROVE QueryInv'
  <1> USE DEF QueryInv
  <1>0. PICK i, m : i = Processes[pos] /\ m = nameOf[i]
    OBVIOUS
  <1> DEFINE old == agg[m]
             new == [instances |-> old.instances + 1,
                     running |-> IF state[i] = "running" THEN old.running + 1 ELSE old.running,
                     restarts |-> old.restarts + restarts[i],
                     status |-> WorstStatus(old.status, state[i])]
  <1>1. /\ query = "processes" /\ ~AllRead /\ pos' = pos + 1
        /\ UNCHANGED <<state, started, restarts, over, nameOf, critical, query, seen, up, ran, base>>
        /\ agg' = [agg EXCEPT ![m] = new]
    BY <1>0 DEF ProcessesReads, config, published
  <1>2. /\ i \in Insts
        /\ i \notin ReadBefore(pos)
        /\ ReadBefore(pos)' = ReadBefore(pos) \cup {i}
        /\ pos' \in 1..(Len(Processes) + 1)
    BY <1>0, <1>1, ReadNext
  <1>3. m \in Names
    BY <1>0, <1>2 DEF Names
  <1> HIDE DEF old, new
  <1>4. /\ agg' = [n \in Names |-> agg'[n]]
        /\ agg'[m] = new
        /\ \A n \in Names \ {m} : agg'[n] = agg[n]
    BY <1>1, <1>3 DEF StatusTypeOK
  <1>5. StatusTypeOK'
    BY <1>1, <1>2, <1>4 DEF StatusTypeOK, Names
  <1>6. Gathered'
    <2>1. \A n : InstancesOf(n)' = InstancesOf(n)
      BY <1>1 DEF InstancesOf
    <2> QED
      BY <1>1, <2>1 DEF Gathered, RunningNow
  <1>7. /\ ReadOf(m)' = ReadOf(m) \cup {i} /\ i \notin ReadOf(m)
        /\ \A n \in Names \ {m} : ReadOf(n)' = ReadOf(n)
    BY <1>0, <1>1, <1>2 DEF ReadOf
  <1>8. ASSUME NEW n \in Names, n # m PROVE Counts(n)' /\ Added(n)'
    BY <1>1, <1>4, <1>7, <1>8 DEF Counts, Added
  <1>9. Counts(m)'
    <2>1. IsFiniteSet(ReadOf(m)) /\ IsFiniteSet(ReadOf(m) \cap ran)
      BY ReadFinite, FS_Subset
    <2>2. Cardinality(ReadOf(m)') = Cardinality(ReadOf(m)) + 1
      BY <1>7, <2>1, FS_AddElement
    <2>3. old.running \in Nat /\ old.running <= Cardinality(ReadOf(m) \cap ran)
          /\ old.instances = Cardinality(ReadOf(m))
          /\ (old.status = "running" <=> old.running > 0)
      BY <1>1, <1>3 DEF Counts, old
    <2>4. new.instances = Cardinality(ReadOf(m)')
      BY <2>2, <2>3 DEF new
    <2>5. Cardinality(ReadOf(m) \cap ran) \in Nat
      BY <2>1, FS_CardinalityType
    <2>6. CASE state[i] = "running"
      <3>1. i \in ran
        BY <1>1, <1>2, <2>6 DEF Gathered, RunningNow
      <3>2. ReadOf(m)' \cap ran' = (ReadOf(m) \cap ran) \cup {i} /\ i \notin ReadOf(m) \cap ran
        BY <1>1, <1>7, <3>1
      <3>3. Cardinality(ReadOf(m)' \cap ran') = Cardinality(ReadOf(m) \cap ran) + 1
        BY <2>1, <3>2, FS_AddElement
      <3>4. new.running = old.running + 1 /\ new.status = "running"
        BY <2>6 DEF new, WorstStatus
      <3> QED
        BY <1>4, <2>3, <2>4, <2>5, <3>3, <3>4 DEF Counts
    <2>7. CASE state[i] # "running"
      <3>1. Cardinality(ReadOf(m)' \cap ran') >= Cardinality(ReadOf(m) \cap ran)
            /\ Cardinality(ReadOf(m)' \cap ran') \in Nat
        <4>1. IsFiniteSet(ReadOf(m)' \cap ran')
          <5>1. IsFiniteSet(ReadOf(m)')
            BY <1>7, <2>1, FS_AddElement
          <5> QED
            BY <5>1, FS_Subset
        <4>2. ReadOf(m) \cap ran \subseteq ReadOf(m)' \cap ran'
          BY <1>1, <1>7
        <4> QED
          BY <4>1, <4>2, <2>5, FS_Subset, FS_CardinalityType
      <3>2. new.running = old.running /\ (new.status = "running" <=> old.status = "running")
        BY <2>7 DEF new, WorstStatus
      <3> QED
        BY <1>4, <2>3, <2>4, <2>5, <3>1, <3>2 DEF Counts
    <2> QED
      BY <2>6, <2>7
  <1>10. Added(m)'
    <2>1. IsFiniteSet(ReadOf(m)) /\ ReadOf(m) \subseteq Insts /\ IsFiniteSet(ReadOf(m)')
      BY <1>7, ReadFinite, FS_AddElement
    <2>2. ReadOf(m)' \ {i} = ReadOf(m) /\ i \in ReadOf(m)' /\ ReadOf(m)' \subseteq Insts
      BY <1>2, <1>7, <2>1
    <2>3. \A j \in Insts : base[j] \in Nat /\ restarts[j] \in Nat /\ base[j] <= restarts[j]
      BY <1>1 DEF StatusTypeOK
    <2>4. /\ Total(base, ReadOf(m)') = base[i] + Total(base, ReadOf(m))
          /\ Total(restarts, ReadOf(m)') = restarts[i] + Total(restarts, ReadOf(m))
      BY <2>1, <2>2, <2>3, TotalRemove
    <2>5. Total(base, ReadOf(m)) \in Nat /\ Total(restarts, ReadOf(m)) \in Nat
      BY <2>1, <2>3, TotalType
    <2>6. /\ old.restarts \in Nat
          /\ Total(base, ReadOf(m)) <= old.restarts
          /\ old.restarts <= Total(restarts, ReadOf(m))
      BY <1>1, <1>3 DEF Added, old
    <2>7. agg'[m].restarts = old.restarts + restarts[i]
      BY <1>4 DEF new
    <2>8. base[i] \in Nat /\ restarts[i] \in Nat /\ base[i] <= restarts[i]
      BY <1>2, <2>3
    <2>9. /\ agg'[m].restarts \in Nat
          /\ Total(base, ReadOf(m)') <= agg'[m].restarts
          /\ agg'[m].restarts <= Total(restarts, ReadOf(m)')
      BY <2>4, <2>5, <2>6, <2>7, <2>8
    <2> QED
      BY <1>1, <2>9 DEF Added
  <1>11. Names' = Names
    BY <1>1 DEF Names
  <1> QED
    BY <1>5, <1>6, <1>8, <1>9, <1>10, <1>11

LEMMA AnsweredKeeps ==
  ASSUME QueryInv, Answered PROVE QueryInv'
  <1>1. /\ UNCHANGED <<state, started, restarts, over, nameOf, critical>>
        /\ query' = "none" /\ pos' = 1 /\ seen' = {} /\ up' = {} /\ agg' = Empty
        /\ base' = NoRestarts
    BY DEF Answered, published, config
  <1>2. Empty' = Empty /\ Names' = Names
    BY <1>1 DEF Empty, Names
  <1>3. StatusTypeOK'
    BY <1>1, <1>2, InstancesFinite DEF QueryInv, StatusTypeOK, NoRestarts, Empty
  <1>4. ReadBefore(pos)' = {}
    BY <1>1 DEF ReadBefore
  <1> QED
    BY <1>1, <1>2, <1>3, <1>4 DEF QueryInv, Gathered

\* A step that leaves the instances and the query alone.
LEMMA SameQuery ==
  ASSUME QueryInv, UNCHANGED <<published, config, queryVars, ran, base>> PROVE QueryInv'
  <1>1. UNCHANGED <<state, started, restarts, nameOf, critical, query, pos, seen, up, agg,
                    ran, base>>
    BY DEF published, config, queryVars
  <1>2. /\ \A n : ReadOf(n)' = ReadOf(n) /\ InstancesOf(n)' = InstancesOf(n)
        /\ ReadBefore(pos)' = ReadBefore(pos) /\ Names' = Names /\ RunningNow' = RunningNow
    BY <1>1 DEF ReadOf, InstancesOf, ReadBefore, Names, RunningNow
  <1>3. StatusTypeOK' /\ Gathered'
    BY <1>1, <1>2 DEF QueryInv, StatusTypeOK, Gathered, Empty
  <1>4. \A n \in Names : (Counts(n) => Counts(n)') /\ (Added(n) => Added(n)')
    BY <1>1, <1>2 DEF Counts, Added
  <1> QED
    BY <1>1, <1>2, <1>3, <1>4 DEF QueryInv

LEMMA QueryStep ==
  ASSUME QueryInv, [StatusNext]_statusVars PROVE QueryInv'
  <1>1. CASE ShutDown
    BY <1>1, SameQuery DEF ShutDown
  <1>2. CASE UNCHANGED statusVars
    BY <1>2, SameQuery DEF statusVars
  <1> QED
    BY <1>1, <1>2, ProcessStepKeeps, AskedKeeps, ReadyReadsKeeps, ProcessesReadsKeeps, AnsweredKeeps
       DEF StatusNext

\* A query is answered one process at a time while all of them go on, and yet
\* no answer is a lie: ready only when each critical name has had a running
\* instance, counts of all instances, and restart counters that do not fall.
THEOREM AnswersHold == ManagementSpec => []AnswersHoldDuring
  <1>1. ManagementInit => QueryInv
    BY InitQuery DEF ManagementInit
  <1>2. QueryInv /\ [ManagementNext]_managementVars => QueryInv'
    BY QueryStep DEF ManagementNext, managementVars
  <1> QED
    BY <1>1, <1>2, QueryGivesAnswers, PTL DEF ManagementSpec
=============================================================================
