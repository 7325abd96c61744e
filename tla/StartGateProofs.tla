-------------------------- MODULE StartGateProofs --------------------------
(***************************************************************************)
(* waitStarted implements Gate, for any finite group of instances.         *)
(***************************************************************************)
EXTENDS StartGate, TLAPS

\* A case is dropped only for an instance that is over.  In the last pass all
\* instances are over, so that those already looked at will not start any more.
IInv ==
    /\ TypeOK
    /\ pc = "returned" => result # "none"
    /\ \A p \in Procs \ cases : done[p]
    /\ pc = "last" => cases = {} /\ \A p \in Procs \ left : ~ready[p]

LEMMA InitIInv == Init => IInv
  BY DEF Init, IInv, TypeOK

LEMMA LookStep ==
  ASSUME IInv, NEW p \in Procs, Look(p) PROVE IInv'
  BY DEF IInv, TypeOK, Look, Return

LEMMA LookedAtAllStep ==
  ASSUME IInv, LookedAtAll PROVE IInv'
  BY DEF IInv, TypeOK, LookedAtAll, Return

LEMMA SelectStep ==
  ASSUME IInv, NEW p \in Procs, SelectCtx \/ SelectReady(p) PROVE IInv'
  BY DEF IInv, TypeOK, SelectCtx, SelectReady, Return

LEMMA SelectDoneStep ==
  ASSUME IInv, NEW p \in Procs, SelectDone(p) PROVE IInv'
  BY DEF IInv, TypeOK, SelectDone, DropCase, LookAgain

LEMMA EnvironmentStep ==
  ASSUME IInv, Environment PROVE IInv'
  BY DEF IInv, TypeOK, Environment, Starts, Finishes, Cancel

\* The invariant of the gate: at most one answer, and what the last pass knows.
THEOREM Inductive == Spec => []IInv
  <1>1. ASSUME IInv, [Next]_vars PROVE IInv'
    <2> USE <1>1
    <2>1. CASE Step
      <3>1. CASE SelectCtx
        <4>1. PICK p \in Procs : TRUE
          BY ProcsIsFinite
        <4> QED
          BY <3>1, <4>1, SelectStep
      <3> QED
        BY <2>1, <3>1, LookStep, LookedAtAllStep, SelectStep, SelectDoneStep DEF Step
    <2>2. CASE Environment
      BY <2>2, EnvironmentStep
    <2>3. CASE UNCHANGED vars
      BY <2>3 DEF IInv, TypeOK, vars
    <2> QED
      BY <2>1, <2>2, <2>3 DEF Next
  <1> QED
    BY <1>1, InitIInv, PTL DEF Spec

\* waitStarted keeps the promise of Gate (manager.go:44): every step either
\* leaves what the gate's users see alone, or is a step Gate allows.
THEOREM Implements == Spec => ImplementsGate
  <1>1. Init => Abstract!Init
    BY DEF Init, Abstract!Init
  <1>2. ASSUME IInv, [Next]_vars PROVE [Abstract!Next]_Abstract!vars
    <2> USE <1>2 DEF Abstract!vars, Abstract!Next
    <2>1. ASSUME NEW p \in Procs, Look(p) PROVE Abstract!Answer \/ UNCHANGED Abstract!vars
      BY <2>1 DEF IInv, TypeOK, Look, Return, Abstract!Answer, Abstract!Open, Abstract!env
    <2>2. CASE LookedAtAll
      BY <2>2 DEF IInv, TypeOK, LookedAtAll, Return, Abstract!Answer, Abstract!Shut, Abstract!env
    <2>3. CASE SelectCtx
      BY <2>3 DEF IInv, TypeOK, SelectCtx, Return, Abstract!Answer, Abstract!env
    <2>4. ASSUME NEW p \in Procs, SelectReady(p) PROVE Abstract!Answer
      BY <2>4 DEF IInv, TypeOK, SelectReady, Return, Abstract!Answer, Abstract!Open, Abstract!env
    <2>5. ASSUME NEW p \in Procs, SelectDone(p) PROVE UNCHANGED Abstract!vars
      BY <2>5 DEF SelectDone, DropCase, LookAgain
    <2>6. CASE Environment
      BY <2>6 DEF Environment, Starts, Finishes, Cancel, Abstract!Environment,
         Abstract!Starts, Abstract!Finishes, Abstract!Cancel
    <2>7. CASE UNCHANGED vars
      BY <2>7 DEF vars
    <2> QED
      BY <2>1, <2>2, <2>3, <2>4, <2>5, <2>6, <2>7 DEF Next, Step
  <1> QED
    BY <1>1, <1>2, Inductive, PTL DEF Spec, ImplementsGate, Abstract!Spec
=============================================================================
