-------------------------- MODULE ExecutionProofs --------------------------
(***************************************************************************)
(* Proofs about Execution: one call of Service.Run stops its group once    *)
(* and leaves nothing alive, bounds its drain only with a cause, and does  *)
(* towards its caller what LaunchContract says.                            *)
(***************************************************************************)
EXTENDS Execution, TLAPS

\* Control points of Run: before the child exists, while it has one that has
\* not been waited for, after cmd.Wait, and after stop has returned.
Early == {"start", "forked"}
Live == {"forked", "wait"}
Waited == {"stop", "join", "drain", "bounded", "confirm"}
Stopped == {"join", "drain", "bounded", "confirm"}

NoResult == [started |-> FALSE, cancelled |-> FALSE, ok |-> FALSE,
             supervisor |-> FALSE, reaped |-> FALSE]

\* A call that was refused is over without having begun.
Returned == pc = "done" /\ result.started

\* stopOnce: OnStop is called by the one that enters it, which is in its call
\* of stop until stopGroup is over.
OnceInv ==
    /\ onStop = IF once = "new" THEN 0 ELSE 1
    /\ once \in Callers <=> grp # "idle"
    /\ pc \in Early => once = "new"
    /\ once = "main" => pc = "stop"
    /\ once = "watcher" => wpc = "stop"
    /\ stopErr => once = "done"
    /\ pc \in Stopped \/ Returned => once = "done"

\* Where Run and its watcher are, and what has become of the child.
RunInv ==
    /\ pc \in Early \/ (pc = "done" /\ ~result.started) <=> wpc = "off"
    /\ pc = "start" => leader = "unborn" /\ result = NoResult
    /\ pc \in Live \cup Waited => result.started
    /\ pc \in Live => leader \in {"live", "zombie"}
    /\ pc \in Waited \/ Returned => leader = "gone"
    /\ pc \in {"drain", "bounded", "confirm"} \/ Returned => wpc = "exited"
    /\ pc # "done" => ~result.reaped

\* What stopGroup leaves behind, and who has closed the output, stays as it is:
\* only a live member forks, and not when it has been killed.
GroupInv ==
    /\ once = "done" => NoLiveMember \/ killed \/ stopErr
    /\ drain = "eof" => NoLiveMember /\ ~escaped
    /\ Returned => /\ result.reaped => GroupGone
                   /\ stopErr => result.supervisor

\* Whoever bounds the drain has a cause, and the watcher's deadline is set
\* before the drain is bounded, or never.
DrainInv ==
    /\ wpc = "woken" \/ cutShort \/ drain = "cut" \/ pc = "bounded" =>
         ctx \/ request = "taken"
    /\ wpc = "stop" => cutShort
    /\ deadline = "used" => pc \in {"bounded", "confirm", "done"}
    /\ limit # "none" => pc \in {"bounded", "confirm", "done"}
    /\ limit = "fresh" => deadline = "none"
    /\ pc \in Early => drain = "open"
    /\ pc = "confirm" => drain = "eof" \/ ctx \/ request = "taken"

IInv == TypeOK /\ OnceInv /\ RunInv /\ GroupInv /\ DrainInv

\* The parts of TypeOK, which is proved part by part.
GroupTypes ==
    /\ leader \in {"unborn", "live", "zombie", "gone"}
    /\ mate \in {"none", "live", "zombie", "gone"}
    /\ escaped \in BOOLEAN
    /\ killed \in BOOLEAN

RunTypes ==
    /\ confirm \in BOOLEAN
    /\ ctx \in BOOLEAN
    /\ request \in {"none", "sent", "taken"}
    /\ pc \in {"start", "forked", "wait", "stop", "join", "drain", "bounded",
               "confirm", "done"}
    /\ wpc \in {"off", "new", "parked", "woken", "stop", "exited"}

StopTypes ==
    /\ once \in {"new", "done"} \cup Callers
    /\ grp \in {"idle", "signal", "poll", "tick"}
    /\ stopErr \in BOOLEAN
    /\ onStop \in 0..2

DrainTypes ==
    /\ cutShort \in BOOLEAN
    /\ deadline \in {"none", "sent", "used"}
    /\ drain \in {"open", "eof", "cut"}
    /\ limit \in {"none", "given", "fresh"}

LEMMA InitIInv == Init => IInv
  <1> SUFFICES ASSUME Init PROVE IInv
    OBVIOUS
  <1> USE DEF Init
  <1>1. TypeOK
    <2>1. GroupTypes /\ RunTypes
      BY DEF GroupTypes, RunTypes
    <2>2. StopTypes
      <3>1. once \in {"new", "done"} \cup Callers
        OBVIOUS
      <3>2. onStop \in 0..2
        BY SMT
      <3>3. stopErr \in BOOLEAN /\ grp \in {"idle", "signal", "poll", "tick"}
        OBVIOUS
      <3> QED
        BY <3>1, <3>2, <3>3 DEF StopTypes
    <2>3. DrainTypes
      BY DEF DrainTypes
    <2>4. result \in Results
      BY DEF Results
    <2> QED
      BY <2>1, <2>2, <2>3, <2>4 DEF TypeOK, GroupTypes, RunTypes, StopTypes, DrainTypes
  <1>2. OnceInv
    BY DEF OnceInv, Callers, Stopped, Returned
  <1>3. RunInv
    BY DEF RunInv, Early, Live, Waited, Returned, NoResult
  <1>4. GroupInv /\ DrainInv
    BY DEF GroupInv, DrainInv, Early, Returned
  <1> QED
    BY <1>1, <1>2, <1>3, <1>4 DEF IInv

LEMMA GroupTypeStep ==
  ASSUME TypeOK, [Next]_vars PROVE GroupTypes'
  <1> USE DEF TypeOK, GroupTypes, groupVars, stopVars, drainVars
  <1>1. CASE Main
    BY <1>1 DEF Main, Refuse, Start, OnStart, Wait, CloseWatch, Join, Drain,
       DrainBounded, Return
  <1>2. CASE Watcher
    BY <1>2 DEF Watcher, WatchSelect, WatchInterrupts, WatchEnds
  <1>3. ASSUME NEW c \in Callers, Stopping(c) PROVE GroupTypes'
    BY <1>3 DEF Stopping, StopBegins, StopSignals, StopPolls, StopTicks, StopTimesOut,
       SendKill
  <1>4. CASE OutputEnds \/ Cancel \/ SendRequest
    BY <1>4 DEF OutputEnds, Cancel, SendRequest
  <1>5. CASE Group
    BY <1>5 DEF Group, Spawn, MemberDies, MateReaped, EscapedEnds
  <1>6. CASE UNCHANGED vars
    BY <1>6 DEF vars
  <1> QED
    BY <1>1, <1>2, <1>3, <1>4, <1>5, <1>6 DEF Next

LEMMA RunTypeStep ==
  ASSUME TypeOK, [Next]_vars PROVE RunTypes'
  <1> USE DEF TypeOK, RunTypes, groupVars, stopVars, drainVars
  <1>1. CASE Main
    BY <1>1 DEF Main, Refuse, Start, OnStart, Wait, CloseWatch, Join, Drain,
       DrainBounded, Return
  <1>2. CASE Watcher
    BY <1>2 DEF Watcher, WatchSelect, WatchInterrupts, WatchEnds
  <1>3. ASSUME NEW c \in Callers, Stopping(c) PROVE RunTypes'
    BY <1>3 DEF Stopping, StopBegins, StopSignals, StopPolls, StopTicks, StopTimesOut
  <1>4. CASE OutputEnds \/ Cancel \/ SendRequest
    BY <1>4 DEF OutputEnds, Cancel, SendRequest
  <1>5. CASE Group
    BY <1>5 DEF Group, Spawn, MemberDies, MateReaped, EscapedEnds
  <1>6. CASE UNCHANGED vars
    BY <1>6 DEF vars
  <1> QED
    BY <1>1, <1>2, <1>3, <1>4, <1>5, <1>6 DEF Next

LEMMA StopTypeStep ==
  ASSUME TypeOK, OnceInv, [Next]_vars PROVE StopTypes'
  <1> USE DEF TypeOK, StopTypes, groupVars, stopVars, drainVars
  <1>1. CASE Main
    BY <1>1 DEF Main, Refuse, Start, OnStart, Wait, CloseWatch, Join, Drain,
       DrainBounded, Return
  <1>2. CASE Watcher
    BY <1>2 DEF Watcher, WatchSelect, WatchInterrupts, WatchEnds
  <1>3. ASSUME NEW c \in Callers, StopBegins(c) PROVE StopTypes'
    <2>1. onStop = 0
      BY <1>3 DEF StopBegins, FirstCallStops, OnceInv
    <2>2. onStop' = 1
      BY <1>3, <2>1 DEF StopBegins
    <2> QED
      BY <1>3, <2>2 DEF StopBegins
  <1>4. ASSUME NEW c \in Callers, StopSignals(c) PROVE StopTypes'
    BY <1>4 DEF StopSignals
  <1>5. ASSUME NEW c \in Callers, StopPolls(c) PROVE StopTypes'
    BY <1>5 DEF StopPolls
  <1>6. ASSUME NEW c \in Callers, StopTicks(c) PROVE StopTypes'
    BY <1>6 DEF StopTicks
  <1>7. ASSUME NEW c \in Callers, StopTimesOut(c) PROVE StopTypes'
    BY <1>7 DEF StopTimesOut, SendKill
  <1>8. CASE OutputEnds \/ Cancel \/ SendRequest
    BY <1>8 DEF OutputEnds, Cancel, SendRequest
  <1>9. CASE Group
    BY <1>9 DEF Group, Spawn, MemberDies, MateReaped, EscapedEnds
  <1>10. CASE UNCHANGED vars
    BY <1>10 DEF vars
  <1> QED
    BY <1>1, <1>2, <1>3, <1>4, <1>5, <1>6, <1>7, <1>8, <1>9, <1>10 DEF Next, Stopping

LEMMA DrainTypeStep ==
  ASSUME TypeOK, [Next]_vars PROVE DrainTypes'
  <1> USE DEF TypeOK, DrainTypes, groupVars, stopVars, drainVars
  <1>1. CASE Main
    BY <1>1 DEF Main, Refuse, Start, OnStart, Wait, CloseWatch, Join, Drain,
       DrainBounded, Return
  <1>2. CASE Watcher
    BY <1>2 DEF Watcher, WatchSelect, WatchInterrupts, WatchEnds
  <1>3. ASSUME NEW c \in Callers, Stopping(c) PROVE DrainTypes'
    BY <1>3 DEF Stopping, StopBegins, StopSignals, StopPolls, StopTicks, StopTimesOut
  <1>4. CASE OutputEnds \/ Cancel \/ SendRequest
    BY <1>4 DEF OutputEnds, Cancel, SendRequest
  <1>5. CASE Group
    BY <1>5 DEF Group, Spawn, MemberDies, MateReaped, EscapedEnds
  <1>6. CASE UNCHANGED vars
    BY <1>6 DEF vars
  <1> QED
    BY <1>1, <1>2, <1>3, <1>4, <1>5, <1>6 DEF Next

\* What the four actions that write the Result make of it.
LEMMA RefuseWrites ==
  ASSUME TypeOK, Refuse
  PROVE  /\ result' \in Results
         /\ \E c \in {FALSE, ctx} : result' = [result EXCEPT !.cancelled = c]
         /\ result'.started = result.started
         /\ result'.reaped = result.reaped
  <1>1. PICK c \in {FALSE, ctx} : result' = [result EXCEPT !.cancelled = c]
    BY DEF Refuse
  <1>2. c \in BOOLEAN /\ result \in Results
    BY DEF TypeOK
  <1> QED
    BY <1>1, <1>2 DEF Results

LEMMA StartWrites ==
  ASSUME TypeOK, Start
  PROVE  /\ result' \in Results
         /\ result'.started
         /\ result'.reaped = result.reaped
  BY DEF TypeOK, Start, Results

LEMMA WaitWrites ==
  ASSUME TypeOK, Wait
  PROVE  /\ result' \in Results
         /\ result'.started = result.started
         /\ result'.reaped = result.reaped
  BY DEF TypeOK, Wait, Results

LEMMA ReturnWrites ==
  ASSUME TypeOK, Return
  PROVE  /\ result' \in Results
         /\ result'.started = result.started
         /\ result'.cancelled = result.cancelled
         /\ result'.ok = result.ok
         /\ result'.reaped <=> confirm /\ GroupGone
         /\ stopErr => result'.supervisor
         /\ confirm /\ ~GroupGone => result'.supervisor
  <1> DEFINE gone == confirm /\ Confirmed
             failed(outputErr) == stopErr \/ outputErr \/ (confirm /\ ~Confirmed)
  <1>1. PICK outputErr \in {FALSE, drain = "eof"} :
          result' = [result EXCEPT !.cancelled = result.cancelled,
                                   !.reaped = gone,
                                   !.supervisor = failed(outputErr)]
    BY DEF Return, CancelledThen
  <1>2. /\ gone \in BOOLEAN
        /\ failed(outputErr) \in BOOLEAN
        /\ result \in Results
    BY DEF TypeOK
  <1>3. /\ gone <=> confirm /\ GroupGone
        /\ stopErr => failed(outputErr)
        /\ confirm /\ ~GroupGone => failed(outputErr)
    BY DEF Confirmed
  <1> HIDE DEF gone, failed
  <1>4. /\ result' \in Results
        /\ result'.started = result.started
        /\ result'.cancelled = result.cancelled
        /\ result'.ok = result.ok
        /\ result'.reaped = gone
        /\ result'.supervisor = failed(outputErr)
    BY <1>1, <1>2 DEF Results
  <1> QED
    BY <1>3, <1>4

LEMMA ResultStep ==
  ASSUME TypeOK, [Next]_vars PROVE result' \in Results
  <1>1. CASE Refuse \/ Start \/ Wait \/ Return
    BY <1>1, RefuseWrites, StartWrites, WaitWrites, ReturnWrites
  <1>2. CASE UNCHANGED result
    BY <1>2 DEF TypeOK
  <1>3. CASE Main
    BY <1>1, <1>2, <1>3 DEF Main, OnStart, CloseWatch, Join, Drain, DrainBounded
  <1>4. CASE Watcher
    BY <1>2, <1>4 DEF Watcher, WatchSelect, WatchInterrupts, WatchEnds
  <1>5. ASSUME NEW c \in Callers, Stopping(c) PROVE UNCHANGED result
    BY <1>5 DEF Stopping, StopBegins, StopSignals, StopPolls, StopTicks, StopTimesOut
  <1>6. CASE OutputEnds \/ Cancel \/ SendRequest \/ UNCHANGED vars
    BY <1>2, <1>6 DEF OutputEnds, Cancel, SendRequest, vars
  <1>7. CASE Group
    BY <1>2, <1>7 DEF Group, Spawn, MemberDies, MateReaped, EscapedEnds
  <1> QED
    BY <1>2, <1>3, <1>4, <1>5, <1>6, <1>7 DEF Next

LEMMA TypeStep ==
  ASSUME TypeOK, OnceInv, [Next]_vars PROVE TypeOK'
  BY GroupTypeStep, RunTypeStep, StopTypeStep, DrainTypeStep, ResultStep
     DEF TypeOK, GroupTypes, RunTypes, StopTypes, DrainTypes

LEMMA OnceStep ==
  ASSUME IInv, [Next]_vars PROVE OnceInv'
  <1> USE DEF IInv, TypeOK, OnceInv, RunInv, Callers, Early, Stopped, Waited, Live,
              Returned, groupVars, stopVars, drainVars
  <1>1. ASSUME Refuse PROVE OnceInv'
    <2>1. ~result'.started
      BY <1>1, RefuseWrites DEF Refuse, NoResult
    <2>2. pc = "start" /\ pc' = "done" /\ UNCHANGED <<groupVars, wpc, stopVars>>
      BY <1>1 DEF Refuse
    <2> QED
      BY <2>1, <2>2
  <1>2. ASSUME Start PROVE OnceInv'
    BY <1>2 DEF Start
  <1>3. ASSUME OnStart PROVE OnceInv'
    BY <1>3 DEF OnStart
  <1>4. ASSUME Wait PROVE OnceInv'
    BY <1>4 DEF Wait
  <1>5. ASSUME CloseWatch PROVE OnceInv'
    BY <1>5 DEF CloseWatch, StopDone
  <1>6. ASSUME Join PROVE OnceInv'
    BY <1>6 DEF Join, WatcherJoined
  <1>7. ASSUME Drain PROVE OnceInv'
    BY <1>7 DEF Drain, DrainCancelled
  <1>8. ASSUME DrainBounded PROVE OnceInv'
    BY <1>8 DEF DrainBounded
  <1>9. ASSUME Return PROVE OnceInv'
    BY <1>9 DEF Return, Confirmed, CancelledThen
  <1>10. ASSUME WatchSelect PROVE OnceInv'
    BY <1>10 DEF WatchSelect, ContextReady, WatchClosed
  <1>11. ASSUME WatchInterrupts PROVE OnceInv'
    BY <1>11 DEF WatchInterrupts
  <1>12. ASSUME WatchEnds PROVE OnceInv'
    BY <1>12 DEF WatchEnds
  <1>13. ASSUME NEW c \in Callers, StopBegins(c) PROVE OnceInv'
    BY <1>13 DEF StopBegins, Calling, FirstCallStops
  <1>14. ASSUME NEW c \in Callers, StopSignals(c) PROVE OnceInv'
    BY <1>14 DEF StopSignals
  <1>15. ASSUME NEW c \in Callers, StopPolls(c) PROVE OnceInv'
    BY <1>15 DEF StopPolls
  <1>16. ASSUME NEW c \in Callers, StopTicks(c) PROVE OnceInv'
    BY <1>16 DEF StopTicks
  <1>17. ASSUME NEW c \in Callers, StopTimesOut(c) PROVE OnceInv'
    BY <1>17 DEF StopTimesOut, SendKill
  <1>18. ASSUME OutputEnds PROVE OnceInv'
    BY <1>18 DEF OutputEnds
  <1>19. ASSUME Cancel PROVE OnceInv'
    BY <1>19 DEF Cancel
  <1>20. ASSUME SendRequest PROVE OnceInv'
    BY <1>20 DEF SendRequest
  <1>21. ASSUME Spawn PROVE OnceInv'
    BY <1>21 DEF Spawn
  <1>22. ASSUME MemberDies PROVE OnceInv'
    BY <1>22 DEF MemberDies
  <1>23. ASSUME MateReaped PROVE OnceInv'
    BY <1>23 DEF MateReaped
  <1>24. ASSUME EscapedEnds PROVE OnceInv'
    BY <1>24 DEF EscapedEnds
  <1>25. CASE UNCHANGED vars
    BY <1>25 DEF vars
  <1> QED
    BY <1>1, <1>2, <1>3, <1>4, <1>5, <1>6, <1>7, <1>8, <1>9, <1>10, <1>11, <1>12, <1>13,
       <1>14, <1>15, <1>16, <1>17, <1>18, <1>19, <1>20, <1>21, <1>22, <1>23, <1>24, <1>25
       DEF Next, Main, Watcher, Stopping, Group

LEMMA RunStep ==
  ASSUME IInv, [Next]_vars PROVE RunInv'
  <1> USE DEF IInv, TypeOK, OnceInv, RunInv, Callers, Early, Live, Waited, Stopped,
              Returned, NoResult, groupVars, stopVars, drainVars
  <1>1. ASSUME Refuse PROVE RunInv'
    BY <1>1 DEF Refuse
  <1>2. ASSUME Start PROVE RunInv'
    BY <1>2 DEF Start
  <1>3. ASSUME OnStart PROVE RunInv'
    BY <1>3 DEF OnStart
  <1>4. ASSUME Wait PROVE RunInv'
    BY <1>4 DEF Wait
  <1>5. ASSUME CloseWatch PROVE RunInv'
    BY <1>5 DEF CloseWatch, StopDone
  <1>6. ASSUME Join PROVE RunInv'
    BY <1>6 DEF Join, WatcherJoined
  <1>7. ASSUME Drain PROVE RunInv'
    BY <1>7 DEF Drain, DrainCancelled
  <1>8. ASSUME DrainBounded PROVE RunInv'
    BY <1>8 DEF DrainBounded
  <1>9. ASSUME Return PROVE RunInv'
    BY <1>9 DEF Return, Confirmed, CancelledThen
  <1>10. ASSUME WatchSelect PROVE RunInv'
    BY <1>10 DEF WatchSelect, ContextReady, WatchClosed
  <1>11. ASSUME WatchInterrupts PROVE RunInv'
    BY <1>11 DEF WatchInterrupts
  <1>12. ASSUME WatchEnds PROVE RunInv'
    BY <1>12 DEF WatchEnds
  <1>13. ASSUME NEW c \in Callers, StopBegins(c) PROVE RunInv'
    BY <1>13 DEF StopBegins, Calling, FirstCallStops
  <1>14. ASSUME NEW c \in Callers, StopSignals(c) PROVE RunInv'
    BY <1>14 DEF StopSignals
  <1>15. ASSUME NEW c \in Callers, StopPolls(c) PROVE RunInv'
    BY <1>15 DEF StopPolls
  <1>16. ASSUME NEW c \in Callers, StopTicks(c) PROVE RunInv'
    BY <1>16 DEF StopTicks
  <1>17. ASSUME NEW c \in Callers, StopTimesOut(c) PROVE RunInv'
    BY <1>17 DEF StopTimesOut, SendKill
  <1>18. ASSUME OutputEnds PROVE RunInv'
    BY <1>18 DEF OutputEnds
  <1>19. ASSUME Cancel PROVE RunInv'
    BY <1>19 DEF Cancel
  <1>20. ASSUME SendRequest PROVE RunInv'
    BY <1>20 DEF SendRequest
  <1>21. ASSUME Spawn PROVE RunInv'
    BY <1>21 DEF Spawn
  <1>22. ASSUME MemberDies PROVE RunInv'
    BY <1>22 DEF MemberDies
  <1>23. ASSUME MateReaped PROVE RunInv'
    BY <1>23 DEF MateReaped
  <1>24. ASSUME EscapedEnds PROVE RunInv'
    BY <1>24 DEF EscapedEnds
  <1>25. CASE UNCHANGED vars
    BY <1>25 DEF vars
  <1> QED
    BY <1>1, <1>2, <1>3, <1>4, <1>5, <1>6, <1>7, <1>8, <1>9, <1>10, <1>11, <1>12, <1>13,
       <1>14, <1>15, <1>16, <1>17, <1>18, <1>19, <1>20, <1>21, <1>22, <1>23, <1>24, <1>25
       DEF Next, Main, Watcher, Stopping, Group

LEMMA GroupStep ==
  ASSUME IInv, [Next]_vars PROVE GroupInv'
  <1> USE DEF IInv, TypeOK, OnceInv, RunInv, GroupInv, Callers, Early, Live, Waited,
              Stopped, Returned, NoLiveMember, GroupGone, groupVars, stopVars, drainVars
  <1>1. ASSUME Refuse PROVE GroupInv'
    <2>1. ~result'.started
      BY <1>1, RefuseWrites DEF Refuse, NoResult
    <2>2. pc = "start" /\ pc' = "done" /\ UNCHANGED <<groupVars, wpc, stopVars, drainVars>>
      BY <1>1 DEF Refuse
    <2> QED
      BY <2>1, <2>2
  <1>2. ASSUME Start PROVE GroupInv'
    <2>1. pc = "start" /\ pc' = "forked" /\ UNCHANGED <<stopVars, drainVars>>
      BY <1>2 DEF Start
    <2>2. drain' = "open"
      BY <2>1 DEF DrainInv
    <2> QED
      BY <2>1, <2>2
  <1>3. ASSUME OnStart PROVE GroupInv'
    BY <1>3 DEF OnStart
  <1>4. ASSUME Wait PROVE GroupInv'
    BY <1>4 DEF Wait
  <1>5. ASSUME CloseWatch PROVE GroupInv'
    BY <1>5 DEF CloseWatch, StopDone
  <1>6. ASSUME Join PROVE GroupInv'
    BY <1>6 DEF Join, WatcherJoined
  <1>7. ASSUME Drain PROVE GroupInv'
    BY <1>7 DEF Drain, DrainCancelled
  <1>8. ASSUME DrainBounded PROVE GroupInv'
    BY <1>8 DEF DrainBounded
  <1>9. ASSUME Return PROVE GroupInv'
    <2>1. pc = "confirm" /\ UNCHANGED <<groupVars, stopVars, drainVars>>
      BY <1>9 DEF Return
    <2> QED
      BY <1>9, <2>1, ReturnWrites
  <1>10. ASSUME WatchSelect PROVE GroupInv'
    BY <1>10 DEF WatchSelect, ContextReady, WatchClosed
  <1>11. ASSUME WatchInterrupts PROVE GroupInv'
    BY <1>11 DEF WatchInterrupts
  <1>12. ASSUME WatchEnds PROVE GroupInv'
    BY <1>12 DEF WatchEnds
  <1>13. ASSUME NEW c \in Callers, StopBegins(c) PROVE GroupInv'
    BY <1>13 DEF StopBegins, Calling, FirstCallStops
  <1>14. ASSUME NEW c \in Callers, StopSignals(c) PROVE GroupInv'
    BY <1>14 DEF StopSignals
  <1>15. ASSUME NEW c \in Callers, StopPolls(c) PROVE GroupInv'
    BY <1>15 DEF StopPolls
  <1>16. ASSUME NEW c \in Callers, StopTicks(c) PROVE GroupInv'
    BY <1>16 DEF StopTicks
  <1>17. ASSUME NEW c \in Callers, StopTimesOut(c) PROVE GroupInv'
    BY <1>17 DEF StopTimesOut, SendKill
  <1>18. ASSUME OutputEnds PROVE GroupInv'
    BY <1>18 DEF OutputEnds
  <1>19. ASSUME Cancel PROVE GroupInv'
    BY <1>19 DEF Cancel
  <1>20. ASSUME SendRequest PROVE GroupInv'
    BY <1>20 DEF SendRequest
  <1>21. ASSUME Spawn PROVE GroupInv'
    BY <1>21 DEF Spawn
  <1>22. ASSUME MemberDies PROVE GroupInv'
    BY <1>22 DEF MemberDies
  <1>23. ASSUME MateReaped PROVE GroupInv'
    BY <1>23 DEF MateReaped
  <1>24. ASSUME EscapedEnds PROVE GroupInv'
    BY <1>24 DEF EscapedEnds
  <1>25. CASE UNCHANGED vars
    BY <1>25 DEF vars
  <1> QED
    BY <1>1, <1>2, <1>3, <1>4, <1>5, <1>6, <1>7, <1>8, <1>9, <1>10, <1>11, <1>12, <1>13,
       <1>14, <1>15, <1>16, <1>17, <1>18, <1>19, <1>20, <1>21, <1>22, <1>23, <1>24, <1>25
       DEF Next, Main, Watcher, Stopping, Group

LEMMA DrainStep ==
  ASSUME IInv, [Next]_vars PROVE DrainInv'
  <1> USE DEF IInv, TypeOK, RunInv, DrainInv, Early, Live, Waited, Returned, groupVars,
              stopVars, drainVars
  <1>1. ASSUME Refuse PROVE DrainInv'
    BY <1>1 DEF Refuse
  <1>2. ASSUME Start PROVE DrainInv'
    BY <1>2 DEF Start
  <1>3. ASSUME OnStart PROVE DrainInv'
    BY <1>3 DEF OnStart
  <1>4. ASSUME Wait PROVE DrainInv'
    BY <1>4 DEF Wait
  <1>5. ASSUME CloseWatch PROVE DrainInv'
    BY <1>5 DEF CloseWatch, StopDone
  <1>6. ASSUME Join PROVE DrainInv'
    BY <1>6 DEF Join, WatcherJoined
  <1>7. ASSUME Drain PROVE DrainInv'
    BY <1>7 DEF Drain, DrainCancelled
  <1>8. ASSUME DrainBounded PROVE DrainInv'
    BY <1>8 DEF DrainBounded
  <1>9. ASSUME Return PROVE DrainInv'
    BY <1>9 DEF Return, Confirmed, CancelledThen
  <1>10. ASSUME WatchSelect PROVE DrainInv'
    BY <1>10 DEF WatchSelect, ContextReady, WatchClosed
  <1>11. ASSUME WatchInterrupts PROVE DrainInv'
    BY <1>11 DEF WatchInterrupts
  <1>12. ASSUME WatchEnds PROVE DrainInv'
    BY <1>12 DEF WatchEnds
  <1>13. ASSUME NEW c \in Callers, StopBegins(c) PROVE DrainInv'
    BY <1>13 DEF StopBegins, Calling, FirstCallStops
  <1>14. ASSUME NEW c \in Callers, StopSignals(c) PROVE DrainInv'
    BY <1>14 DEF StopSignals
  <1>15. ASSUME NEW c \in Callers, StopPolls(c) PROVE DrainInv'
    BY <1>15 DEF StopPolls
  <1>16. ASSUME NEW c \in Callers, StopTicks(c) PROVE DrainInv'
    BY <1>16 DEF StopTicks
  <1>17. ASSUME NEW c \in Callers, StopTimesOut(c) PROVE DrainInv'
    BY <1>17 DEF StopTimesOut, SendKill
  <1>18. ASSUME OutputEnds PROVE DrainInv'
    BY <1>18 DEF OutputEnds
  <1>19. ASSUME Cancel PROVE DrainInv'
    BY <1>19 DEF Cancel
  <1>20. ASSUME SendRequest PROVE DrainInv'
    BY <1>20 DEF SendRequest
  <1>21. ASSUME Spawn PROVE DrainInv'
    BY <1>21 DEF Spawn
  <1>22. ASSUME MemberDies PROVE DrainInv'
    BY <1>22 DEF MemberDies
  <1>23. ASSUME MateReaped PROVE DrainInv'
    BY <1>23 DEF MateReaped
  <1>24. ASSUME EscapedEnds PROVE DrainInv'
    BY <1>24 DEF EscapedEnds
  <1>25. CASE UNCHANGED vars
    BY <1>25 DEF vars
  <1> QED
    BY <1>1, <1>2, <1>3, <1>4, <1>5, <1>6, <1>7, <1>8, <1>9, <1>10, <1>11, <1>12, <1>13,
       <1>14, <1>15, <1>16, <1>17, <1>18, <1>19, <1>20, <1>21, <1>22, <1>23, <1>24, <1>25
       DEF Next, Main, Watcher, Stopping, Group

LEMMA Invariance == Spec => []IInv
  <1>1. IInv /\ [Next]_vars => IInv'
    BY TypeStep, OnceStep, RunStep, GroupStep, DrainStep DEF IInv
  <1> QED
    BY InitIInv, <1>1, PTL DEF Spec

\* Every variable keeps its type: OnStop is called at most twice, if only
\* because it is called once.
THEOREM TypeCorrect == Spec => []TypeOK
  BY Invariance, PTL DEF IInv

\* The two callers of stop share one OnStop, and what Run returns about the
\* group is true of it: stopped, killed or reported, and Reaped only when no
\* member is left.
THEOREM StoppedAtReturn == Spec => []GroupStoppedAtReturn
  <1>1. IInv => GroupStoppedAtReturn
    <2> SUFFICES ASSUME IInv PROVE GroupStoppedAtReturn
      OBVIOUS
    <2>1. onStop <= 1
      BY DEF IInv, OnceInv
    <2>2. ASSUME Returned
          PROVE  /\ onStop = 1
                 /\ NoLiveMember \/ killed \/ (stopErr /\ result.supervisor)
                 /\ result.reaped => GroupGone
      BY <2>2 DEF IInv, OnceInv, GroupInv
    <2> QED
      BY <2>1, <2>2 DEF GroupStoppedAtReturn, Returned
  <1> QED
    BY <1>1, Invariance, PTL

\* Output is cut, and a drain bounded afresh, only with a cause.
THEOREM BoundIsDue == Spec => []DrainBoundIsDue
  <1>1. IInv => DrainBoundIsDue
    BY DEF IInv, DrainInv, DrainBoundIsDue
  <1> QED
    BY <1>1, Invariance, PTL

\* The step of the contract that a step of Run is.
LEMMA ContractStep ==
  ASSUME IInv, [Next]_vars PROVE [Contract!Next]_Contract!vars
  <1> USE DEF Contract!vars, Contract!Next
  <1>1. CASE Refuse
    <2>1. PICK c \in {FALSE, ctx} : result' = [result EXCEPT !.cancelled = c]
      BY <1>1, RefuseWrites DEF IInv
    <2>2. result = Contract!Nothing
      BY <1>1 DEF Refuse, IInv, RunInv, NoResult, Contract!Nothing
    <2>3. result.cancelled = FALSE /\ result \in Results
      BY <2>2 DEF Contract!Nothing, IInv, TypeOK
    <2>5. [result EXCEPT !.cancelled = FALSE] = result
      BY <2>3 DEF Results
    <2>4. pc = "start" /\ pc' = "done" /\ UNCHANGED <<onStop, stopErr>>
      BY <1>1 DEF Refuse, stopVars
    <2> QED
      BY <2>1, <2>2, <2>4, <2>5 DEF Contract!Refuse
  <1>2. CASE Start
    <2>1. result = Contract!Nothing /\ onStop = 0 /\ stopErr = FALSE
      BY <1>2 DEF Start, IInv, TypeOK, RunInv, OnceInv, Early, NoResult, Contract!Nothing
    <2>2. /\ pc = "start" /\ pc' = "forked" /\ UNCHANGED <<onStop, stopErr>>
          /\ ~ctx /\ result' = [result EXCEPT !.started = TRUE]
      BY <1>2 DEF Start, stopVars
    <2> QED
      BY <2>1, <2>2 DEF Contract!Start
  <1>3. CASE OnStart
    BY <1>3 DEF OnStart, stopVars, Contract!OnStart
  <1>4. CASE Wait
    BY <1>4 DEF Wait, stopVars, Contract!OnExit
  <1>5. CASE Return
    <2>1. /\ pc = "confirm" /\ pc' = "done" /\ onStop = 1
          /\ UNCHANGED <<onStop, stopErr>>
      BY <1>5 DEF Return, stopVars, IInv, OnceInv, Stopped
    <2>2. ~result.reaped /\ result.started
      BY <2>1 DEF IInv, RunInv, Waited
    <2>3. result' \in Contract!Results
      BY <1>5, ReturnWrites DEF IInv, Results, Contract!Results
    <2>4. result' \in Contract!Outcomes
      BY <1>5, <2>3, ReturnWrites DEF IInv, TypeOK, Contract!Outcomes, Contract!SameExit
    <2>5. ~escaped \/ ctx \/ request = "taken"
      BY <2>1 DEF IInv, GroupInv, DrainInv
    <2> QED
      BY <2>1, <2>4, <2>5 DEF Contract!Return, Contract!Drained
  <1>6. ASSUME NEW c \in Callers, StopBegins(c) PROVE Contract!OnStop
    <2>1. /\ once = "new" /\ onStop = 0 /\ onStop' = 1
          /\ pc = "stop" \/ wpc = "stop"
          /\ UNCHANGED <<pc, stopErr, result>>
      BY <1>6 DEF StopBegins, Calling, FirstCallStops, IInv, OnceInv
    <2>2. pc \in {"wait", "stop"}
      BY <2>1 DEF IInv, TypeOK, OnceInv, RunInv, Early, Stopped, Returned
    <2>3. pc = "wait" => ctx \/ request = "taken"
      BY <2>1 DEF IInv, DrainInv
    <2> QED
      BY <2>1, <2>2, <2>3 DEF Contract!OnStop, Contract!Woken
  <1>7. ASSUME UNCHANGED <<onStop, stopErr, result>>,
               \/ UNCHANGED pc
               \/ pc \in Waited /\ pc' \in Waited
        PROVE  UNCHANGED Contract!vars
    BY <1>7 DEF Waited
  <1>8. CASE CloseWatch \/ Join \/ Drain \/ DrainBounded
    BY <1>7, <1>8 DEF CloseWatch, Join, Drain, DrainBounded, stopVars, Waited
  <1>9. CASE Watcher
    BY <1>7, <1>9 DEF Watcher, WatchSelect, WatchInterrupts, WatchEnds, stopVars
  <1>10. ASSUME NEW c \in Callers,
                StopSignals(c) \/ StopPolls(c) \/ StopTicks(c) \/ StopTimesOut(c)
         PROVE  [Contract!Next]_Contract!vars
    <2>1. once = c /\ UNCHANGED <<onStop, pc, result>> /\ stopErr' \in {stopErr, TRUE}
      BY <1>10 DEF StopSignals, StopPolls, StopTicks, StopTimesOut, SendKill
    <2>2. CASE UNCHANGED stopErr
      BY <1>7, <2>1, <2>2
    <2>3. CASE stopErr' = TRUE
      <3>1. onStop = 1 /\ pc \in {"wait", "stop"}
        BY <2>1 DEF IInv, TypeOK, OnceInv, RunInv, Callers, Early, Stopped, Returned
      <3>2. onStop' = 1 /\ pc' = pc /\ result' = result
        BY <2>1, <3>1
      <3>3. Contract!StopFails
        BY <2>3, <3>1, <3>2 DEF Contract!StopFails
      <3> QED
        BY <3>3
    <2> QED
      BY <2>1, <2>2, <2>3
  <1>11. CASE OutputEnds \/ Cancel \/ SendRequest
    BY <1>7, <1>11 DEF OutputEnds, Cancel, SendRequest, stopVars
  <1>12. CASE Group
    BY <1>7, <1>12 DEF Group, Spawn, MemberDies, MateReaped, EscapedEnds, stopVars
  <1>13. CASE UNCHANGED vars
    BY <1>7, <1>13 DEF vars, stopVars
  <1> QED
    BY <1>1, <1>2, <1>3, <1>4, <1>5, <1>6, <1>8, <1>9, <1>10, <1>11, <1>12, <1>13
       DEF Next, Main, Stopping

\* Run implements the contract that Process relies on.
THEOREM ContractKept == Spec => ImplementsContract
  <1>1. Init => Contract!Init
    BY DEF Init, Contract!Init, Contract!Nothing
  <1> QED
    BY <1>1, ContractStep, Invariance, PTL DEF Spec, ImplementsContract, Contract!Spec
=============================================================================
