---------------------------- MODULE ProcessProofs ----------------------------
(***************************************************************************)
(* Proofs about Process, for any bound on launch attempts and any retry    *)
(* limits: type correctness, the retry budget, what the published state    *)
(* and a waiting stop request say, when a generation may be replaced, and  *)
(* that what is published is an implementation of PublishedState.          *)
(***************************************************************************)
EXTENDS Process, TLAPS

\* Where a command can be under way, and what is known of it there.
Launched ==
    /\ pc \notin {"before", "main"} => exec = "idle"
    /\ pc = "main" /\ exec \in {"live", "exited"} =>
         generation = attempt /\ generationStop = attempt
    /\ pc \in {"new", "before"} => generation = 0 /\ attempt = 0
    /\ pc = "main" => attempt > 0
    /\ pc = "before" /\ exec # "idle" => step = 0

\* The local counter lags one behind the attempts inside the loop, and the
\* limit was looked at before it was raised.
Counted ==
    /\ launches <= attempt
    /\ pc = "main" /\ exec \in {"idle", "forked"} => launches < attempt
    /\ restarts = IF launches = 0 THEN 0 ELSE launches - 1
    /\ pc \in {"new", "before", "loop"} => attempt = retries
    /\ pc \in {"main", "decide", "backoff"} => attempt = retries + 1
    /\ pc # "done" /\ retries > 0 =>
         /\ ~cfg.critical /\ cfg.autoRestart
         /\ cfg.maxRetries = 0 \/ retries <= cfg.maxRetries
    /\ pc = "backoff" =>
         /\ ~cfg.critical /\ cfg.autoRestart
         /\ cfg.maxRetries = 0 \/ retries < cfg.maxRetries
    /\ cfg.maxRetries > 0 => attempt <= cfg.maxRetries + 1
    /\ cfg.critical \/ ~cfg.autoRestart => attempt <= 1

\* The group of the last generation is known to be gone.
Replaceable ==
    cfg.controllable /\ generation # 0 => previousReaped /\ previousGeneration = generation

\* A controllable process gets as far as the next launch only when it is.
ReplacedSafely ==
    /\ pc \in {"loop", "backoff"} => Replaceable
    /\ pc = "main" /\ exec \in {"idle", "forked"} => Replaceable
    /\ pc = "decide" /\ ~result.supervisor => Replaceable

IInv ==
    /\ TypeOK
    /\ Launched
    /\ Counted
    /\ ReplacedSafely
    /\ RunningIsCurrent
    /\ StaleRequestNeverStops

\* TypeOK in four parts, which the provers take one at a time.
RecordTypes == cfg \in Configs /\ result \in Results

ControlTypes ==
    /\ pc \in {"new", "before", "loop", "main", "decide", "backoff", "done"}
    /\ exec \in {"idle", "forked", "live", "exited"}
    /\ state \in States
    /\ request \in {"none", "sent", "taken"}

FlagTypes ==
    /\ stopped \in BOOLEAN /\ stopErr \in BOOLEAN /\ hasPid \in BOOLEAN
    /\ previousReaped \in BOOLEAN /\ restartRequested \in BOOLEAN /\ ready \in BOOLEAN
    /\ held \in BOOLEAN /\ ctx \in BOOLEAN /\ shuttingDown \in BOOLEAN

NumberTypes ==
    /\ step \in 0..1
    /\ attempt \in 0..MaxAttempts /\ retries \in 0..MaxAttempts
    /\ generation \in 0..MaxAttempts /\ previousGeneration \in 0..MaxAttempts
    /\ generationStop \in 0..MaxAttempts
    /\ launches \in 0..MaxAttempts /\ restarts \in 0..(MaxAttempts - 1)
    /\ call \in {NoCall} \cup 0..MaxAttempts
    /\ accepted \in SUBSET (1..MaxAttempts)

LEMMA TypeParts == TypeOK <=> RecordTypes /\ ControlTypes /\ FlagTypes /\ NumberTypes
  BY DEF TypeOK, RecordTypes, ControlTypes, FlagTypes, NumberTypes

LEMMA ConfigTypes ==
  ASSUME NEW c \in Configs
  PROVE  /\ c.controllable \in BOOLEAN /\ c.critical \in BOOLEAN
         /\ c.autoRestart \in BOOLEAN /\ c.restartOnSuccess \in BOOLEAN
         /\ c.maxRetries \in Nat
  BY BoundsAreNatural DEF Configs

LEMMA InitIInv == Init => IInv
  <1> SUFFICES ASSUME Init PROVE IInv
    OBVIOUS
  <1> USE BoundsAreNatural DEF Init, Call!Init, Call!Nothing
  <1>1. TypeOK
    <2>1. RecordTypes
      BY DEF RecordTypes, Results, Call!Results
    <2>2. ControlTypes /\ FlagTypes
      BY DEF ControlTypes, FlagTypes, States
    <2>3. NumberTypes
      BY DEF NumberTypes
    <2> QED
      BY <2>1, <2>2, <2>3, TypeParts
  <1>2. Launched /\ ReplacedSafely
    BY DEF Launched, ReplacedSafely, Replaceable
  <1>3. Counted
    <2>1. cfg.maxRetries \in Nat
      BY ConfigTypes
    <2> QED
      BY <2>1 DEF Counted
  <1>4. RunningIsCurrent /\ StaleRequestNeverStops
    BY DEF RunningIsCurrent, StaleRequestNeverStops
  <1> QED
    BY <1>1, <1>2, <1>3, <1>4 DEF IInv

LEMMA BeginStep ==
  ASSUME IInv, Begin PROVE IInv'
  <1> USE BoundsAreNatural DEF IInv, Begin, Fail, Continue, Finish, runVars, execVars, genVars,
     countVars, envVars
  <1>1. TypeOK'
    <2> USE TypeParts
    <2>1. RecordTypes'
      BY DEF RecordTypes, FlagTypes, Results, Call!Results
    <2>2. ControlTypes'
      BY DEF ControlTypes, States
    <2>3. FlagTypes'
      BY DEF FlagTypes, RecordTypes
    <2>4. NumberTypes'
      BY DEF NumberTypes, NoCall, Launched, Counted
    <2> QED
      BY <2>1, <2>2, <2>3, <2>4 DEF TypeOK, RecordTypes, ControlTypes, FlagTypes, NumberTypes
  <1>2. Launched'
    BY DEF TypeOK, Launched
  <1>3. Counted'
    BY ConfigTypes DEF TypeOK, Launched, Counted
  <1>4. ReplacedSafely'
    BY DEF TypeOK, Results, Call!Results, Launched, ReplacedSafely, Replaceable
  <1>5. RunningIsCurrent'
    BY DEF TypeOK, Launched, RunningIsCurrent
  <1>6. StaleRequestNeverStops'
    BY DEF TypeOK, Launched, RunningIsCurrent, StaleRequestNeverStops
  <1> QED
    BY <1>1, <1>2, <1>3, <1>4, <1>5, <1>6

LEMMA BeforeNextStep ==
  ASSUME IInv, BeforeNext PROVE IInv'
  <1> USE BoundsAreNatural DEF IInv, BeforeNext, Finish, Steps, runVars, execVars, genVars,
     countVars, envVars
  <1>1. TypeOK'
    <2> USE TypeParts
    <2>1. RecordTypes'
      BY DEF RecordTypes, FlagTypes, Results, Call!Results
    <2>2. ControlTypes'
      BY DEF ControlTypes, States
    <2>3. FlagTypes'
      BY DEF FlagTypes, RecordTypes
    <2>4. NumberTypes'
      BY DEF NumberTypes, NoCall, Launched, Counted
    <2> QED
      BY <2>1, <2>2, <2>3, <2>4 DEF TypeOK, RecordTypes, ControlTypes, FlagTypes, NumberTypes
  <1>2. Launched'
    BY DEF TypeOK, Launched
  <1>3. Counted'
    BY ConfigTypes DEF TypeOK, Launched, Counted
  <1>4. ReplacedSafely'
    BY DEF TypeOK, Results, Call!Results, Launched, ReplacedSafely, Replaceable
  <1>5. RunningIsCurrent'
    BY DEF TypeOK, Launched, RunningIsCurrent
  <1>6. StaleRequestNeverStops'
    BY DEF TypeOK, Launched, RunningIsCurrent, StaleRequestNeverStops
  <1> QED
    BY <1>1, <1>2, <1>3, <1>4, <1>5, <1>6

LEMMA LaunchStep ==
  ASSUME IInv, Launch PROVE IInv'
  <1> USE BoundsAreNatural DEF IInv, Launch, Quit, Continue, Finish, FreshChannel, runVars,
     execVars, genVars, countVars, envVars
  <1>1. TypeOK'
    <2> USE TypeParts
    <2>1. RecordTypes'
      BY DEF RecordTypes, FlagTypes, Results, Call!Results
    <2>2. ControlTypes'
      BY DEF ControlTypes, States
    <2>3. FlagTypes'
      BY DEF FlagTypes, RecordTypes
    <2>4. NumberTypes'
      BY DEF NumberTypes, NoCall, Launched, Counted
    <2> QED
      BY <2>1, <2>2, <2>3, <2>4 DEF TypeOK, RecordTypes, ControlTypes, FlagTypes, NumberTypes
  <1>2. Launched'
    BY DEF TypeOK, Launched
  <1>3. Counted'
    BY ConfigTypes DEF TypeOK, Launched, Counted
  <1>4. ReplacedSafely'
    BY DEF TypeOK, Results, Call!Results, Launched, ReplacedSafely, Replaceable
  <1>5. RunningIsCurrent'
    BY DEF TypeOK, Launched, RunningIsCurrent
  <1>6. StaleRequestNeverStops'
    BY DEF TypeOK, Launched, RunningIsCurrent, StaleRequestNeverStops
  <1> QED
    BY <1>1, <1>2, <1>3, <1>4, <1>5, <1>6

LEMMA DecideStep ==
  ASSUME IInv, Decide PROVE IInv'
  <1> USE BoundsAreNatural DEF IInv, Decide, Fail, Quit, Continue, Finish, CleanEnd,
     NoMoreRetries, runVars, execVars, genVars, countVars, envVars
  <1>1. TypeOK'
    <2> USE TypeParts
    <2>1. RecordTypes'
      BY DEF RecordTypes, FlagTypes, Results, Call!Results
    <2>2. ControlTypes'
      BY DEF ControlTypes, States
    <2>3. FlagTypes'
      BY DEF FlagTypes, RecordTypes
    <2>4. NumberTypes'
      BY DEF NumberTypes, NoCall, Launched, Counted
    <2> QED
      BY <2>1, <2>2, <2>3, <2>4 DEF TypeOK, RecordTypes, ControlTypes, FlagTypes, NumberTypes
  <1>2. Launched'
    BY DEF TypeOK, Launched
  <1>3. Counted'
    BY ConfigTypes DEF TypeOK, Launched, Counted
  <1>4. ReplacedSafely'
    BY DEF TypeOK, Results, Call!Results, Launched, ReplacedSafely, Replaceable
  <1>5. RunningIsCurrent'
    BY DEF TypeOK, Launched, RunningIsCurrent
  <1>6. StaleRequestNeverStops'
    BY DEF TypeOK, Launched, RunningIsCurrent, StaleRequestNeverStops
  <1> QED
    BY <1>1, <1>2, <1>3, <1>4, <1>5, <1>6

LEMMA BackoffStep ==
  ASSUME IInv, Backoff PROVE IInv'
  <1> USE BoundsAreNatural DEF IInv, Backoff, Finish, runVars, execVars, genVars, countVars,
     envVars
  <1>1. TypeOK'
    <2> USE TypeParts
    <2>1. RecordTypes'
      BY DEF RecordTypes, FlagTypes, Results, Call!Results
    <2>2. ControlTypes'
      BY DEF ControlTypes, States
    <2>3. FlagTypes'
      BY DEF FlagTypes, RecordTypes
    <2>4. NumberTypes'
      BY DEF NumberTypes, NoCall, Launched, Counted
    <2> QED
      BY <2>1, <2>2, <2>3, <2>4 DEF TypeOK, RecordTypes, ControlTypes, FlagTypes, NumberTypes
  <1>2. Launched'
    BY DEF TypeOK, Launched
  <1>3. Counted'
    BY ConfigTypes DEF TypeOK, Launched, Counted
  <1>4. ReplacedSafely'
    BY DEF TypeOK, Results, Call!Results, Launched, ReplacedSafely, Replaceable
  <1>5. RunningIsCurrent'
    BY DEF TypeOK, Launched, RunningIsCurrent
  <1>6. StaleRequestNeverStops'
    BY DEF TypeOK, Launched, RunningIsCurrent, StaleRequestNeverStops
  <1> QED
    BY <1>1, <1>2, <1>3, <1>4, <1>5, <1>6

LEMMA ExecStartStep ==
  ASSUME IInv, ExecStart PROVE IInv'
  <1> USE BoundsAreNatural DEF IInv, ExecStart, MayRun, Steps, Call!Start, Call!Nothing, runVars, execVars, genVars, countVars,
     envVars
  <1>1. TypeOK'
    <2> USE TypeParts
    <2>1. RecordTypes'
      BY DEF RecordTypes, FlagTypes, Results, Call!Results
    <2>2. ControlTypes'
      BY DEF ControlTypes, States
    <2>3. FlagTypes'
      BY DEF FlagTypes, RecordTypes
    <2>4. NumberTypes'
      BY DEF NumberTypes, NoCall, Launched, Counted
    <2> QED
      BY <2>1, <2>2, <2>3, <2>4 DEF TypeOK, RecordTypes, ControlTypes, FlagTypes, NumberTypes
  <1>2. Launched'
    BY DEF TypeOK, Launched
  <1>3. Counted'
    BY ConfigTypes DEF TypeOK, Launched, Counted
  <1>4. ReplacedSafely'
    BY DEF TypeOK, Results, Call!Results, Launched, ReplacedSafely, Replaceable
  <1>5. RunningIsCurrent'
    BY DEF TypeOK, Launched, RunningIsCurrent
  <1>6. StaleRequestNeverStops'
    BY DEF TypeOK, Launched, RunningIsCurrent, StaleRequestNeverStops
  <1> QED
    BY <1>1, <1>2, <1>3, <1>4, <1>5, <1>6

LEMMA OnStartStep ==
  ASSUME IInv, OnStart PROVE IInv'
  <1> USE BoundsAreNatural DEF IInv, OnStart, CountRestart, Call!OnStart, runVars, execVars, genVars,
     countVars, envVars
  <1>1. TypeOK'
    <2> USE TypeParts
    <2>1. RecordTypes'
      BY DEF RecordTypes, FlagTypes, Results, Call!Results
    <2>2. ControlTypes'
      BY DEF ControlTypes, States
    <2>3. FlagTypes'
      BY DEF FlagTypes, RecordTypes
    <2>4. NumberTypes'
      BY DEF NumberTypes, NoCall, Launched, Counted
    <2> QED
      BY <2>1, <2>2, <2>3, <2>4 DEF TypeOK, RecordTypes, ControlTypes, FlagTypes, NumberTypes
  <1>2. Launched'
    BY DEF TypeOK, Launched
  <1>3. Counted'
    BY ConfigTypes DEF TypeOK, Launched, Counted
  <1>4. ReplacedSafely'
    BY DEF TypeOK, Results, Call!Results, Launched, ReplacedSafely, Replaceable
  <1>5. RunningIsCurrent'
    BY DEF TypeOK, Launched, RunningIsCurrent
  <1>6. StaleRequestNeverStops'
    BY DEF TypeOK, Launched, RunningIsCurrent, StaleRequestNeverStops
  <1> QED
    BY <1>1, <1>2, <1>3, <1>4, <1>5, <1>6

LEMMA OnStopStep ==
  ASSUME IInv, OnStop PROVE IInv'
  <1> USE BoundsAreNatural DEF IInv, OnStop, Call!OnStop, Call!Woken, runVars, execVars, genVars,
     countVars, envVars
  <1>1. TypeOK'
    <2> USE TypeParts
    <2>1. RecordTypes'
      BY DEF RecordTypes, FlagTypes, Results, Call!Results
    <2>2. ControlTypes'
      BY DEF ControlTypes, States
    <2>3. FlagTypes'
      BY DEF FlagTypes, RecordTypes
    <2>4. NumberTypes'
      BY DEF NumberTypes, NoCall, Launched, Counted
    <2> QED
      BY <2>1, <2>2, <2>3, <2>4 DEF TypeOK, RecordTypes, ControlTypes, FlagTypes, NumberTypes
  <1>2. Launched'
    BY DEF TypeOK, Launched
  <1>3. Counted'
    BY ConfigTypes DEF TypeOK, Launched, Counted
  <1>4. ReplacedSafely'
    BY DEF TypeOK, Results, Call!Results, Launched, ReplacedSafely, Replaceable
  <1>5. RunningIsCurrent'
    BY DEF TypeOK, Launched, RunningIsCurrent
  <1>6. StaleRequestNeverStops'
    BY DEF TypeOK, Launched, RunningIsCurrent, StaleRequestNeverStops
  <1> QED
    BY <1>1, <1>2, <1>3, <1>4, <1>5, <1>6

LEMMA OnExitStep ==
  ASSUME IInv, OnExit PROVE IInv'
  <1> USE BoundsAreNatural DEF IInv, OnExit, ExitState, Call!OnExit, runVars, execVars, genVars, countVars,
     envVars
  <1>1. TypeOK'
    <2> USE TypeParts
    <2>1. RecordTypes'
      BY DEF RecordTypes, FlagTypes, Results, Call!Results
    <2>2. ControlTypes'
      BY DEF ControlTypes, States
    <2>3. FlagTypes'
      BY DEF FlagTypes, RecordTypes
    <2>4. NumberTypes'
      BY DEF NumberTypes, NoCall, Launched, Counted
    <2> QED
      BY <2>1, <2>2, <2>3, <2>4 DEF TypeOK, RecordTypes, ControlTypes, FlagTypes, NumberTypes
  <1>2. Launched'
    BY DEF TypeOK, Launched
  <1>3. Counted'
    BY ConfigTypes DEF TypeOK, Launched, Counted
  <1>4. ReplacedSafely'
    BY DEF TypeOK, Results, Call!Results, Launched, ReplacedSafely, Replaceable
  <1>5. RunningIsCurrent'
    BY DEF TypeOK, Launched, RunningIsCurrent
  <1>6. StaleRequestNeverStops'
    BY DEF TypeOK, Launched, RunningIsCurrent, StaleRequestNeverStops
  <1> QED
    BY <1>1, <1>2, <1>3, <1>4, <1>5, <1>6

\* A result that is not a supervisor error tells of a group that is gone.
LEMMA OutcomeReaped ==
  ASSUME NEW r \in Call!Outcomes
  PROVE  /\ r \in Results
         /\ pc = "main" /\ cfg.controllable /\ ~r.supervisor => r.reaped
  BY DEF Call!Outcomes, Results

LEMMA ExecReturnStep ==
  ASSUME IInv, ExecReturn PROVE IInv'
  <1> USE BoundsAreNatural DEF IInv, execVars, genVars, countVars, envVars
  <1>1. PICK r \in Call!Outcomes :
          /\ result' = r
          /\ IF pc = "main"
             THEN /\ previousGeneration' = attempt
                  /\ previousReaped' = r.reaped
                  /\ generationStop' = 0
                  /\ state' = "stopped"
                  /\ pc' = "decide"
                  /\ UNCHANGED <<step, ctx>>
             ELSE /\ AfterBefore(r)
                  /\ UNCHANGED <<previousGeneration, previousReaped, generationStop>>
    BY DEF ExecReturn, Call!Return
  <1>2. /\ exec = "exited" /\ exec' = "idle" /\ UNCHANGED <<stopped, stopErr>>
        /\ held' = FALSE
        /\ UNCHANGED <<cfg, attempt, retries, hasPid, generation, restartRequested,
                      countVars, request, shuttingDown, call, accepted>>
    BY DEF ExecReturn, Call!Return
  <1>3. pc \in {"before", "main"}
    BY <1>2 DEF Launched
  <1>4. /\ RecordTypes /\ ControlTypes /\ FlagTypes /\ NumberTypes
        /\ r \in Results
        /\ pc = "main" /\ cfg.controllable /\ ~r.supervisor => r.reaped
    BY TypeParts, OutcomeReaped
  <1>5. r.reaped \in BOOLEAN
    BY <1>4 DEF Results, Call!Results
  <1>6. CASE pc = "main"
    <2> USE <1>1, <1>2, <1>6
    <2>1. TypeOK'
      <3>1. RecordTypes'
        BY <1>4 DEF RecordTypes
      <3>2. ControlTypes' /\ FlagTypes'
        BY <1>4, <1>5 DEF ControlTypes, FlagTypes, States
      <3>3. NumberTypes'
        BY <1>4 DEF NumberTypes
      <3> QED
        BY <3>1, <3>2, <3>3 DEF TypeOK, RecordTypes, ControlTypes, FlagTypes, NumberTypes
    <2>2. Launched' /\ ReplacedSafely'
      BY <1>4 DEF Launched, ReplacedSafely, Replaceable
    <2>3. Counted'
      BY <1>4, ConfigTypes DEF Counted, RecordTypes, NumberTypes
    <2>4. RunningIsCurrent' /\ StaleRequestNeverStops'
      BY DEF RunningIsCurrent, StaleRequestNeverStops
    <2> QED
      BY <2>1, <2>2, <2>3, <2>4
  <1>7. CASE pc = "before"
    <2>a. /\ result' = r
          /\ AfterBefore(r)
          /\ UNCHANGED <<previousGeneration, previousReaped, generationStop>>
      BY <1>1, <1>7
    <2>b. step = 0 /\ ctx \in BOOLEAN
      BY <1>2, <1>4, <1>7 DEF Launched, FlagTypes
    <2>c. cfg.critical \in BOOLEAN
      BY <1>4, ConfigTypes DEF RecordTypes
    <2>1. /\ pc' \in {"before", "done"}
          /\ step' \in 0..1
          /\ state' \in {state, "failed", "stopped"}
          /\ ctx' \in BOOLEAN
      <3> DEFINE fatal == r.cancelled \/ r.supervisor \/ (~r.ok /\ cfg.before = "strict")
      <3>1. CASE fatal
        <4>1. (Fail \/ Quit) /\ UNCHANGED step
          BY <2>a, <3>1 DEF AfterBefore
        <4> QED
          BY <4>1, <2>b, <2>c DEF Fail, Quit, Finish
      <3>2. CASE ~fatal
        <4>1. step' = step + 1 /\ UNCHANGED <<pc, state, ctx>>
          BY <2>a, <3>2 DEF AfterBefore
        <4> QED
          BY <4>1, <2>b, <1>7
      <3> QED
        BY <3>1, <3>2
    <2> USE <1>2, <1>7, <2>a, <2>1
    <2>2. TypeOK'
      <3>1. RecordTypes'
        BY <1>4 DEF RecordTypes
      <3>2. ControlTypes' /\ FlagTypes'
        <4>1. ControlTypes'
          BY <1>4 DEF ControlTypes, States
        <4>2. FlagTypes'
          BY <1>4 DEF FlagTypes
        <4> QED
          BY <4>1, <4>2
      <3>3. NumberTypes'
        BY <1>4 DEF NumberTypes
      <3> QED
        BY <3>1, <3>2, <3>3 DEF TypeOK, RecordTypes, ControlTypes, FlagTypes, NumberTypes
    <2>3. Launched' /\ ReplacedSafely'
      BY DEF Launched, ReplacedSafely, Replaceable
    <2>4. Counted'
      BY <1>4, ConfigTypes DEF Counted, RecordTypes, NumberTypes
    <2>5. RunningIsCurrent' /\ StaleRequestNeverStops'
      BY DEF RunningIsCurrent, StaleRequestNeverStops
    <2> QED
      BY <2>2, <2>3, <2>4, <2>5
  <1> QED
    BY <1>3, <1>6, <1>7

LEMMA ExecRefusedStep ==
  ASSUME IInv, ExecRefused PROVE IInv'
  <1>r. result' \in Results
    <2>1. ctx \in BOOLEAN /\ Call!Refuse
      BY DEF IInv, TypeOK, ExecRefused
    <2>2. result' = Call!Nothing \/ result' = [Call!Nothing EXCEPT !.cancelled = ctx]
      BY <2>1 DEF Call!Refuse
    <2>3. /\ Call!Nothing \in Results
          /\ [Call!Nothing EXCEPT !.cancelled = ctx] \in Results
      <3>1. ctx \in BOOLEAN
        BY <2>1
      <3> QED
        BY <3>1 DEF Results, Call!Results, Call!Nothing
    <2> QED
      BY <2>2, <2>3
  <1> USE BoundsAreNatural DEF IInv, ExecRefused, MayRun, AfterBefore, Fail, Quit, Finish, Steps,
     Call!Refuse, Call!Nothing,
     runVars, execVars, genVars, countVars, envVars
  <1>1. TypeOK'
    <2> USE TypeParts
    <2>1. RecordTypes'
      BY <1>r DEF RecordTypes
    <2>2. ControlTypes'
      BY DEF ControlTypes, States
    <2>3. FlagTypes'
      BY DEF FlagTypes, RecordTypes
    <2>4. NumberTypes'
      BY DEF NumberTypes, NoCall, Launched, Counted
    <2> QED
      BY <2>1, <2>2, <2>3, <2>4 DEF TypeOK, RecordTypes, ControlTypes, FlagTypes, NumberTypes
  <1>2. Launched'
    BY DEF TypeOK, Launched
  <1>3. Counted'
    BY ConfigTypes DEF TypeOK, Launched, Counted
  <1>4. ReplacedSafely'
    BY DEF TypeOK, Results, Call!Results, Launched, ReplacedSafely, Replaceable
  <1>5. RunningIsCurrent'
    BY DEF TypeOK, Launched, RunningIsCurrent
  <1>6. StaleRequestNeverStops'
    BY DEF TypeOK, Launched, RunningIsCurrent, StaleRequestNeverStops
  <1> QED
    BY <1>1, <1>2, <1>3, <1>4, <1>5, <1>6

LEMMA CancelStep ==
  ASSUME IInv, Cancel PROVE IInv'
  <1> USE BoundsAreNatural DEF IInv, Cancel, runVars, execVars, genVars, countVars, envVars
  <1>1. TypeOK'
    <2> USE TypeParts
    <2>1. RecordTypes'
      BY DEF RecordTypes, FlagTypes, Results, Call!Results
    <2>2. ControlTypes'
      BY DEF ControlTypes, States
    <2>3. FlagTypes'
      BY DEF FlagTypes, RecordTypes
    <2>4. NumberTypes'
      BY DEF NumberTypes, NoCall, Launched, Counted
    <2> QED
      BY <2>1, <2>2, <2>3, <2>4 DEF TypeOK, RecordTypes, ControlTypes, FlagTypes, NumberTypes
  <1>2. Launched'
    BY DEF TypeOK, Launched
  <1>3. Counted'
    BY ConfigTypes DEF TypeOK, Launched, Counted
  <1>4. ReplacedSafely'
    BY DEF TypeOK, Results, Call!Results, Launched, ReplacedSafely, Replaceable
  <1>5. RunningIsCurrent'
    BY DEF TypeOK, Launched, RunningIsCurrent
  <1>6. StaleRequestNeverStops'
    BY DEF TypeOK, Launched, RunningIsCurrent, StaleRequestNeverStops
  <1> QED
    BY <1>1, <1>2, <1>3, <1>4, <1>5, <1>6

LEMMA NoteShutdownStep ==
  ASSUME IInv, NoteShutdown PROVE IInv'
  <1> USE BoundsAreNatural DEF IInv, NoteShutdown, runVars, execVars, genVars, countVars,
     envVars
  <1>1. TypeOK'
    <2> USE TypeParts
    <2>1. RecordTypes'
      BY DEF RecordTypes, FlagTypes, Results, Call!Results
    <2>2. ControlTypes'
      BY DEF ControlTypes, States
    <2>3. FlagTypes'
      BY DEF FlagTypes, RecordTypes
    <2>4. NumberTypes'
      BY DEF NumberTypes, NoCall, Launched, Counted
    <2> QED
      BY <2>1, <2>2, <2>3, <2>4 DEF TypeOK, RecordTypes, ControlTypes, FlagTypes, NumberTypes
  <1>2. Launched'
    BY DEF TypeOK, Launched
  <1>3. Counted'
    BY ConfigTypes DEF TypeOK, Launched, Counted
  <1>4. ReplacedSafely'
    BY DEF TypeOK, Results, Call!Results, Launched, ReplacedSafely, Replaceable
  <1>5. RunningIsCurrent'
    BY DEF TypeOK, Launched, RunningIsCurrent
  <1>6. StaleRequestNeverStops'
    BY DEF TypeOK, Launched, RunningIsCurrent, StaleRequestNeverStops
  <1> QED
    BY <1>1, <1>2, <1>3, <1>4, <1>5, <1>6

LEMMA RestartStep ==
  ASSUME IInv, Restart PROVE IInv'
  <1> USE BoundsAreNatural DEF IInv, Restart, NamesCurrent, Restartable, runVars, execVars,
     genVars, countVars, envVars
  <1>1. TypeOK'
    <2> USE TypeParts
    <2>1. RecordTypes'
      BY DEF RecordTypes, FlagTypes, Results, Call!Results
    <2>2. ControlTypes'
      BY DEF ControlTypes, States
    <2>3. FlagTypes'
      BY DEF FlagTypes, RecordTypes
    <2>4. NumberTypes'
      BY DEF NumberTypes, NoCall, Launched, Counted
    <2> QED
      BY <2>1, <2>2, <2>3, <2>4 DEF TypeOK, RecordTypes, ControlTypes, FlagTypes, NumberTypes
  <1>2. Launched'
    BY DEF TypeOK, Launched
  <1>3. Counted'
    BY ConfigTypes DEF TypeOK, Launched, Counted
  <1>4. ReplacedSafely'
    BY DEF TypeOK, Results, Call!Results, Launched, ReplacedSafely, Replaceable
  <1>5. RunningIsCurrent'
    BY DEF TypeOK, Launched, RunningIsCurrent
  <1>6. StaleRequestNeverStops'
    BY DEF TypeOK, Launched, RunningIsCurrent, StaleRequestNeverStops
  <1> QED
    BY <1>1, <1>2, <1>3, <1>4, <1>5, <1>6

LEMMA RestartCallStep ==
  ASSUME IInv, NEW g \in 0..generation, RestartCall(g) PROVE IInv'
  <1> USE BoundsAreNatural DEF IInv, RestartCall, runVars, execVars, genVars, countVars, envVars
  <1>1. TypeOK'
    <2> USE TypeParts
    <2>1. RecordTypes'
      BY DEF RecordTypes, FlagTypes, Results, Call!Results
    <2>2. ControlTypes'
      BY DEF ControlTypes, States
    <2>3. FlagTypes'
      BY DEF FlagTypes, RecordTypes
    <2>4. NumberTypes'
      BY DEF NumberTypes, NoCall, Launched, Counted
    <2> QED
      BY <2>1, <2>2, <2>3, <2>4 DEF TypeOK, RecordTypes, ControlTypes, FlagTypes, NumberTypes
  <1>2. Launched'
    BY DEF TypeOK, Launched
  <1>3. Counted'
    BY ConfigTypes DEF TypeOK, Launched, Counted
  <1>4. ReplacedSafely'
    BY DEF TypeOK, Results, Call!Results, Launched, ReplacedSafely, Replaceable
  <1>5. RunningIsCurrent'
    BY DEF TypeOK, Launched, RunningIsCurrent
  <1>6. StaleRequestNeverStops'
    BY DEF TypeOK, Launched, RunningIsCurrent, StaleRequestNeverStops
  <1> QED
    BY <1>1, <1>2, <1>3, <1>4, <1>5, <1>6

\* The watcher, a failing stopGroup and the descendants leave the lifecycle
\* alone until Service.Run returns.
LEMMA AsideStep ==
  ASSUME IInv, TakeRequest \/ StopFails \/ Hold PROVE IInv'
  <1> USE DEF runVars, execVars, genVars, countVars, envVars
  <1>1. /\ UNCHANGED <<cfg, runVars, exec, stopped, result, state, hasPid, genVars,
                       restartRequested, countVars, ctx, shuttingDown, call, accepted>>
        /\ \/ UNCHANGED request
           \/ request = "sent" /\ request' = "taken"
    BY DEF TakeRequest, StopFails, Hold, Call!StopFails
  <1>2. stopErr' \in BOOLEAN /\ held' \in BOOLEAN
    BY DEF TakeRequest, StopFails, Hold, Call!StopFails, IInv, TypeOK
  <1>3. TypeOK'
    BY <1>1, <1>2 DEF IInv, TypeOK
  <1>4. Launched' /\ Counted' /\ ReplacedSafely'
    BY <1>1 DEF IInv, Launched, Counted, ReplacedSafely, Replaceable
  <1>5. RunningIsCurrent' /\ StaleRequestNeverStops'
    BY <1>1 DEF IInv, RunningIsCurrent, StaleRequestNeverStops
  <1> QED
    BY <1>3, <1>4, <1>5 DEF IInv

LEMMA StutterStep ==
  ASSUME IInv, UNCHANGED vars PROVE IInv'
  BY DEF vars, runVars, execVars, genVars, countVars, envVars, IInv, TypeOK, Launched,
     Counted, ReplacedSafely, Replaceable, RunningIsCurrent, StaleRequestNeverStops

\* The invariant holds in every reachable state: each action preserves each of
\* its parts (process.go:103-268).
THEOREM Inductive == Spec => []IInv
  <1>1. ASSUME IInv, [Next]_vars PROVE IInv'
    <2> USE <1>1
    <2>1. CASE Lifecycle
      BY <2>1, BeginStep, BeforeNextStep, LaunchStep, DecideStep, BackoffStep,
         ExecStartStep, OnStartStep, ExecReturnStep, ExecRefusedStep DEF Lifecycle
    <2>2. CASE \E g \in 0..generation : RestartCall(g)
      BY <2>2, RestartCallStep
    <2>3. CASE UNCHANGED vars
      BY <2>3, StutterStep
    <2> QED
      BY <2>1, <2>2, <2>3, AsideStep, OnStopStep, OnExitStep, CancelStep, NoteShutdownStep,
         RestartStep DEF Next
  <1> QED
    BY <1>1, InitIInv, PTL DEF Spec

\* Every variable keeps its type, the two counters among them.
THEOREM TypeCorrect == Spec => []TypeOK
  BY Inductive, PTL DEF IInv

\* maxRetries bounds the launch attempts, and the public counter is one less
\* than the successful launches (process.go:227, process.go:186).
THEOREM BudgetKept == Spec => []RetryBudget
  <1>1. IInv => RetryBudget
    BY DEF IInv, Counted, RetryBudget
  <1> QED
    BY <1>1, Inductive, PTL

\* Running is published only of the current generation (process.go:192).
THEOREM StateIsTrue == Spec => []RunningIsCurrent
  BY Inductive, PTL DEF IInv

\* A stop request waits only for the generation its client named
\* (control.go:37, process.go:174).
THEOREM StaleRequestsHarmless == Spec => []StaleRequestNeverStops
  BY Inductive, PTL DEF IInv

\* A controllable process is replaced only after its group is gone
\* (process.go:206, service.go:228).
THEOREM ReplacedAfterReap == Spec => ReplacementAfterReap
  <1>1. ASSUME IInv, [Next]_vars
        PROVE cfg.controllable /\ generation # 0 /\ generation' # generation
                => previousReaped /\ previousGeneration = generation
    <2>1. generation' # generation => OnStart /\ pc = "main"
      BY <1>1 DEF Next, Lifecycle, Begin, BeforeNext, Launch, Decide, Backoff, ExecStart,
         OnStart, ExecReturn, ExecRefused, TakeRequest, OnStop, StopFails, OnExit, Hold,
         Cancel, NoteShutdown, RestartCall, Restart, Call!Start, Call!OnStart,
         Call!OnStop, Call!StopFails, Call!OnExit, Call!Return, Call!Refuse, vars, runVars, execVars, genVars, countVars, envVars
    <2> QED
      BY <1>1, <2>1 DEF IInv, ReplacedSafely, Replaceable, OnStart, Call!OnStart
  <1> QED
    BY <1>1, Inductive, PTL DEF Spec, ReplacementAfterReap

-----------------------------------------------------------------------------
(* The published state.  What is published follows from where Process.Run is *)
(* and from what its command is doing.                                       *)

Shown ==
    /\ ready <=> launches > 0
    /\ hasPid <=> exec = "live"
    /\ pc = "new" => state = "pending"
    /\ pc \in {"loop", "backoff"} => state = "starting"
    /\ pc = "decide" => state = "stopped"
    /\ pc = "before" => \/ state = "starting"
                        \/ state = "stopping" /\ exec = "live"
    /\ pc = "main" /\ exec \in {"idle", "forked"} => state = "starting"
    /\ pc = "main" /\ exec = "live" => state \in {"running", "stopping"}
    /\ pc = "main" /\ exec = "exited" => state = "stopping"

LEMMA InitShown == Init => Shown
  BY DEF Init, Shown, Call!Init

LEMMA ShownStep ==
  ASSUME IInv, Shown, [Next]_vars PROVE Shown'
  <1> USE DEF IInv, Shown, Launched, RunningIsCurrent, runVars, execVars, genVars, countVars,
     envVars
  <1>1. CASE Begin
    BY <1>1 DEF Begin, Fail, Continue, Finish
  <1>2. CASE BeforeNext
    BY <1>2 DEF BeforeNext, Finish
  <1>3. CASE Launch
    BY <1>3 DEF Launch, Quit, Continue, Finish
  <1>4. CASE Decide
    BY <1>4 DEF Decide, Fail, Quit, Continue, Finish
  <1>5. CASE Backoff
    BY <1>5 DEF Backoff, Finish
  <1>6. CASE ExecStart
    BY <1>6 DEF ExecStart, MayRun, Call!Start
  <1>7. CASE OnStart
    BY <1>7 DEF OnStart, Call!OnStart, TypeOK
  <1>8. CASE ExecReturn
    BY <1>8 DEF ExecReturn, AfterBefore, Fail, Quit, Finish, Call!Return
  <1>9. CASE ExecRefused
    BY <1>9 DEF ExecRefused, MayRun, AfterBefore, Fail, Quit, Finish, Call!Refuse
  <1>10. CASE OnStop
    BY <1>10 DEF OnStop, Call!OnStop
  <1>11. CASE OnExit
    BY <1>11 DEF OnExit, ExitState, Call!OnExit
  <1>12. CASE Restart
    BY <1>12 DEF Restart, Restartable
  <1>13. CASE Cancel \/ NoteShutdown \/ (\E n \in 0..generation : RestartCall(n))
    BY <1>13 DEF Cancel, NoteShutdown, RestartCall
  <1>15. CASE TakeRequest \/ StopFails \/ Hold
    BY <1>15 DEF TakeRequest, StopFails, Hold, Call!StopFails
  <1>14. CASE UNCHANGED vars
    BY <1>14 DEF vars
  <1> QED
    BY <1>1, <1>2, <1>3, <1>4, <1>5, <1>6, <1>7, <1>8, <1>9, <1>10, <1>11, <1>12, <1>13,
       <1>14, <1>15 DEF Next, Lifecycle

\* The four published variables, as the abstract module has them.
Unpublished == UNCHANGED <<state, ready, restarts>> /\ (pc' = "done" <=> pc = "done")

LEMMA Stutters ==
  ASSUME Unpublished PROVE UNCHANGED Published!published
  BY DEF Unpublished, Published!published

LEMMA Moves ==
  ASSUME pc # "done", pc' # "done", UNCHANGED <<ready, restarts>>,
         state' \in Published!Follows[state]
  PROVE  Published!Next
  <1>1. Published!Moves(0)
    BY DEF Published!Moves
  <1> QED
    BY <1>1 DEF Published!Next

LEMMA Ends ==
  ASSUME pc # "done", pc' = "done", UNCHANGED <<ready, restarts>>, state # "running",
         state' \in {"stopped", "failed"}
  PROVE  Published!Next
  <1>1. Published!Ends(0)
    BY DEF Published!Ends
  <1> QED
    BY <1>1 DEF Published!Next

LEMMA Runs ==
  ASSUME pc # "done", pc' # "done", state = "starting", state' = "running", ready',
         restarts' = IF ready THEN restarts + 1 ELSE restarts
  PROVE  Published!Next
  <1>1. Published!Runs(0)
    BY DEF Published!Runs
  <1> QED
    BY <1>1 DEF Published!Next

LEMMA PublishedStep ==
  ASSUME IInv, Shown, [Next]_vars PROVE [Published!Next]_(Published!published)
  <1> USE DEF IInv, Shown, Launched, RunningIsCurrent, runVars, execVars, genVars, countVars,
     envVars
  <1>0. \/ Unpublished
        \/ Published!Next
    <2>1. CASE Begin
      BY <2>1, Moves, Ends DEF Begin, Fail, Continue, Finish, Published!Follows
    <2>2. CASE BeforeNext
      BY <2>2, Ends DEF BeforeNext, Finish, Unpublished
    <2>3. CASE Launch
      BY <2>3, Ends DEF Launch, Quit, Continue, Finish, Unpublished
    <2>4. CASE Decide
      BY <2>4, Moves, Ends DEF Decide, Fail, Quit, Continue, Finish, Published!Follows
    <2>5. CASE Backoff
      BY <2>5, Ends DEF Backoff, Finish, Unpublished
    <2>6. CASE ExecStart
      BY <2>6 DEF ExecStart, Unpublished
    <2>7. CASE OnStart
      <3>1. CASE pc = "main"
        BY <2>7, <3>1, Runs DEF OnStart, CountRestart, Call!OnStart, TypeOK
      <3>2. CASE pc # "main"
        BY <2>7, <3>2 DEF OnStart, Unpublished
      <3> QED
        BY <3>1, <3>2
    <2>8. CASE ExecReturn
      BY <2>8, Moves, Ends DEF ExecReturn, AfterBefore, Fail, Quit, Finish, Call!Return,
         Unpublished, Published!Follows
    <2>9. CASE ExecRefused
      BY <2>9, Moves, Ends DEF ExecRefused, MayRun, AfterBefore, Fail, Quit, Finish, Call!Refuse,
         Unpublished, Published!Follows
    <2>10. CASE OnStop
      BY <2>10, Moves DEF OnStop, Call!OnStop, Unpublished, Published!Follows
    <2>11. CASE OnExit
      BY <2>11, Moves DEF OnExit, ExitState, Call!OnExit, Unpublished, Published!Follows
    <2>12. CASE Restart
      BY <2>12, Moves DEF Restart, Restartable, Unpublished, Published!Follows
    <2>13. CASE Cancel \/ NoteShutdown \/ (\E n \in 0..generation : RestartCall(n))
      BY <2>13 DEF Cancel, NoteShutdown, RestartCall, Unpublished
    <2>15. CASE TakeRequest \/ StopFails \/ Hold
      BY <2>15 DEF TakeRequest, StopFails, Hold, Unpublished
    <2>14. CASE UNCHANGED vars
      BY <2>14 DEF vars, Unpublished
    <2> QED
      BY <2>1, <2>2, <2>3, <2>4, <2>5, <2>6, <2>7, <2>8, <2>9, <2>10, <2>11, <2>12, <2>13,
         <2>14, <2>15 DEF Next, Lifecycle
  <1> QED
    BY <1>0, Stutters

\* Whatever callback or request comes late, the states that others read follow
\* the documented life of a process (process.go:25, process.go:241).
THEOREM StateIsPublished == Spec => ImplementsPublishedState
  <1>1. Init => Published!Init
    BY DEF Init, Published!Init
  <1>2. IInv /\ Shown /\ [Next]_vars => Shown'
    BY ShownStep
  <1>3. IInv /\ Shown /\ [Next]_vars => [Published!Next]_(Published!published)
    BY PublishedStep
  <1> QED
    BY <1>1, <1>2, <1>3, InitShown, Inductive, PTL
       DEF Spec, ImplementsPublishedState, Published!Spec
=============================================================================
