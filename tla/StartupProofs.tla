--------------------------- MODULE StartupProofs ---------------------------
(***************************************************************************)
(* Proofs about Startup, for any set of parsed configurations: any number  *)
(* of entries, repeated names and dependencies, cycles and missing names,  *)
(* lists of conditions of any length.  First Validation, then the          *)
(* evaluation of conditions.                                               *)
(***************************************************************************)
EXTENDS Startup, FiniteSetTheorems, SequenceTheorems, WellFoundedInduction, TLAPS

\* Whatever the phase, the entries are those of a parsed configuration.
CfgInv ==
    /\ cfg \in [mode : Modes, control : BOOLEAN, bad : BOOLEAN, run : Seq(Entries)]
    /\ \A i \in Run : cfg.run[i].instances > 1 =>
                         \A k \in 0..cfg.run[i].instances : k \in CopyNumbers

\* Dependencies of a name that have not been visited.
Waiting(n) == {e \in Into(n) : Source(e) \notin visited}

\* Kahn's algorithm: a name is visited, or may be, when all it depends on has
\* been; and no name that could never start ever gets there.
KahnInv ==
    /\ visited \subseteq Names /\ queue \subseteq Names /\ visited \cap queue = {}
    /\ inDegree \in [Names -> Int]
    /\ \A n \in Names : inDegree[n] = Cardinality(Waiting(n))
    /\ \A n \in Names : n \in visited \cup queue <=> Waiting(n) = {}
    /\ \A S \in SUBSET Names : Stuck(S) => S \cap (visited \cup queue) = {}

\* What has been decided, and on what grounds.
VerdictInv ==
    /\ vpc \in {"parsed", "defaults", "cycle", "accepted", "rejected"}
    /\ vpc \in {"parsed", "defaults"} => visited = {}
    /\ vpc \in {"cycle", "accepted", "rejected"} => KahnInv
    /\ vpc = "accepted" => ~flawed /\ Cardinality(visited) >= Cardinality(Names)
    /\ vpc = "rejected" /\ ~flawed => queue = {} /\ Cardinality(visited) < Cardinality(Names)
    /\ vpc \in {"cycle", "accepted"} /\ ~flawed =>
         /\ cfg.mode \in {"parallel", "sequential"}
         /\ \A i \in Run : ~EntryFlawed(i)
         /\ \A e \in Edges : ~EdgeFlawed(e)

VInv == CfgInv /\ VerdictInv

-----------------------------------------------------------------------------
(* The graph is finite *)

LEMMA RunFinite ==
  ASSUME CfgInv
  PROVE  /\ Len(cfg.run) \in Nat
         /\ IsFiniteSet(Run)
         /\ \A i \in Run : cfg.run[i] \in Entries /\ Len(cfg.run[i].dependsOn) \in Nat
  <1>1. Len(cfg.run) \in Nat /\ \A i \in Run : cfg.run[i] \in Entries
    BY LenProperties, ElementOfSeq DEF CfgInv, Run
  <1>2. IsFiniteSet(Run)
    BY <1>1, FS_Interval DEF Run
  <1>3. \A i \in Run : cfg.run[i].dependsOn \in Seq(Strings)
    BY <1>1 DEF Entries
  <1>4. \A i \in Run : Len(cfg.run[i].dependsOn) \in Nat
    BY <1>3, LenProperties
  <1> QED
    BY <1>1, <1>2, <1>4

LEMMA NamesFinite ==
  ASSUME CfgInv
  PROVE  IsFiniteSet(Names)
  <1> DEFINE f == [i \in Run |-> cfg.run[i].name]
  <1>1. f \in Surjection(Run, Names)
    BY DEF Surjection, Names
  <1> QED
    BY <1>1, RunFinite, FS_Surjection

LEMMA EdgesFinite ==
  ASSUME CfgInv
  PROVE  IsFiniteSet(Edges)
  <1> DEFINE Of(i) == {i} \X (1..Len(cfg.run[i].dependsOn))
             Lists == {Of(i) : i \in Run}
             f == [i \in Run |-> Of(i)]
  <1>1. f \in Surjection(Run, Lists)
    BY DEF Surjection
  <1>2. IsFiniteSet(Lists)
    BY <1>1, RunFinite, FS_Surjection
  <1>3. ASSUME NEW i \in Run PROVE IsFiniteSet(Of(i))
    <2>1. IsFiniteSet({i})
      BY FS_Singleton
    <2>2. IsFiniteSet(1..Len(cfg.run[i].dependsOn))
      <3>1. Len(cfg.run[i].dependsOn) \in Int
        BY RunFinite
      <3> QED
        BY <3>1, FS_Interval
    <2> QED
      BY <2>1, <2>2, FS_Product
  <1>4. \A T \in Lists : IsFiniteSet(T)
    BY <1>3
  <1>5. Edges = UNION Lists
    BY DEF Edges
  <1> QED
    BY <1>2, <1>4, <1>5, FS_UNION

LEMMA WaitingFinite ==
  ASSUME CfgInv, NEW n
  PROVE  /\ IsFiniteSet(Into(n)) /\ IsFiniteSet(Waiting(n))
         /\ Cardinality(Waiting(n)) \in Nat
         /\ Cardinality(Waiting(n)) = 0 <=> Waiting(n) = {}
  <1>1. Waiting(n) \subseteq Into(n) /\ Into(n) \subseteq Edges
    BY DEF Waiting, Into
  <1>2. IsFiniteSet(Into(n))
    BY <1>1, EdgesFinite, FS_Subset
  <1>3. IsFiniteSet(Waiting(n))
    BY <1>1, <1>2, FS_Subset
  <1> QED
    BY <1>2, <1>3, FS_CardinalityType, FS_EmptySet

-----------------------------------------------------------------------------
(* Before the cycle check *)

LEMMA InitV == Init => VInv
  <1> SUFFICES ASSUME Init PROVE VInv
    OBVIOUS
  <1>1. VerdictInv
    BY DEF Init, VerdictInv
  <1>2. cfg \in [mode : Modes, control : BOOLEAN, bad : BOOLEAN, run : Seq(Entries)]
    BY ConfigsAreParsed DEF Init, ConfigsAreParsed
  <1>3. \A i \in Run : \A k \in 0..cfg.run[i].instances : k \in CopyNumbers
    BY DEF Init, CopyNumbers, Run
  <1> QED
    BY <1>1, <1>2, <1>3 DEF VInv, CfgInv

LEMMA InstancesSet ==
  ASSUME NEW p \in Entries, NEW x \in Int
  PROVE  [p EXCEPT !.instances = x] \in Entries /\ [p EXCEPT !.instances = x].instances = x
  BY DEF Entries

LEMMA ConfigSet ==
  ASSUME NEW R, NEW c \in [mode : Modes, control : BOOLEAN, bad : BOOLEAN, run : R],
         NEW m \in Modes, NEW r \in R
  PROVE  /\ [c EXCEPT !.mode = m, !.run = r] \in
                [mode : Modes, control : BOOLEAN, bad : BOOLEAN, run : R]
         /\ [c EXCEPT !.mode = m, !.run = r].run = r
  OBVIOUS

LEMMA DefaultsStep ==
  ASSUME VInv, ApplyDefaults
  PROVE  VInv'
  <1> DEFINE m(i) == IF cfg.run[i].instances <= 0 THEN 1 ELSE cfg.run[i].instances
             e(i) == WithInstances(cfg.run[i])
  <1>1. Len(cfg.run) \in Nat /\ \A i \in Run : cfg.run[i] \in Entries
    BY RunFinite DEF VInv
  <1>2. \A i \in Run : e(i) \in Entries /\ e(i).instances = m(i)
    <2> SUFFICES ASSUME NEW i \in Run PROVE e(i) \in Entries /\ e(i).instances = m(i)
      OBVIOUS
    <2>1. cfg.run[i] \in Entries
      BY <1>1
    <2>2. m(i) \in Int
      BY <2>1 DEF Entries
    <2> QED
      BY <2>1, <2>2, InstancesSet DEF WithInstances
  <1> DEFINE entries == [i \in Run |-> e(i)]
             mode == IF cfg.mode = "unset" THEN "parallel" ELSE cfg.mode
  <1>3. cfg' = [cfg EXCEPT !.mode = mode, !.run = entries]
    BY DEF ApplyDefaults
  <1>9. entries \in Seq(Entries) /\ Len(entries) = Len(cfg.run)
    <2> HIDE DEF e, m
    <2> QED
      BY <1>1, <1>2 DEF Run
  <1>11. cfg \in [mode : Modes, control : BOOLEAN, bad : BOOLEAN, run : Seq(Entries)]
    BY DEF VInv, CfgInv
  <1>10. mode \in Modes
    BY <1>11 DEF Modes
  <1> HIDE DEF mode, entries
  <1>12. /\ cfg' \in [mode : Modes, control : BOOLEAN, bad : BOOLEAN, run : Seq(Entries)]
         /\ cfg'.run = entries
    BY <1>3, <1>9, <1>10, <1>11, ConfigSet
  <1>4. cfg'.run \in Seq(Entries) /\ Len(cfg'.run) = Len(cfg.run)
    BY <1>9, <1>12
  <1>5. Run' = Run
    BY <1>4 DEF Run
  <1>6. \A i \in Run : cfg'.run[i].instances = IF cfg.run[i].instances <= 0 THEN 1
                                              ELSE cfg.run[i].instances
    BY <1>2, <1>12 DEF entries
  <1>7. CfgInv'
    <2>2. CopyNumbers' = CopyNumbers
      BY DEF CopyNumbers
    <2>3. ASSUME NEW i \in Run, cfg'.run[i].instances > 1
          PROVE  cfg'.run[i].instances = cfg.run[i].instances /\ cfg.run[i].instances > 1
      <3>1. cfg.run[i].instances \in Int
        BY <1>1 DEF Entries
      <3> QED
        BY <1>6, <2>3, <3>1
    <2> QED
      BY <1>5, <1>12, <2>2, <2>3 DEF CfgInv, VInv
  <1>8. VerdictInv'
    BY DEF ApplyDefaults, VInv, VerdictInv
  <1> QED
    BY <1>7, <1>8 DEF VInv

\* What is wrong with an entry depends on the configuration only.
LEMMA FlawsKept ==
  ASSUME UNCHANGED cfg
  PROVE  /\ Run' = Run /\ Edges' = Edges
         /\ \A i : EntryFlawed(i)' = EntryFlawed(i)
         /\ \A e : EdgeFlawed(e)' = EdgeFlawed(e)
  <1>1. Run' = Run /\ Edges' = Edges /\ Names' = Names
    BY DEF Run, Edges, Names
  <1>2. \A i : EntryFlawed(i)' = EntryFlawed(i)
    BY DEF EntryFlawed, NameRefused, ConditionsFlawed
  <1>3. \A n : OrderOf(n)' = OrderOf(n)
    BY <1>1 DEF OrderOf
  <1>4. \A e : Source(e)' = Source(e) /\ Target(e)' = Target(e)
    BY DEF Source, Target
  <1>5. \A e : Forward(e)' = Forward(e)
    BY <1>1, <1>3, <1>4 DEF Forward
  <1>6. \A e : EdgeFlawed(e)' = EdgeFlawed(e)
    BY <1>1, <1>4, <1>5 DEF EdgeFlawed
  <1> QED
    BY <1>1, <1>2, <1>6

LEMMA CheckStep ==
  ASSUME VInv, Check
  PROVE  VInv'
  <1> USE DEF Check
  <1>1. UNCHANGED <<cfg, visited>> /\ visited = {} /\ vpc' = "cycle"
    BY DEF VInv, VerdictInv
  <1>2. CfgInv'
    BY <1>1 DEF VInv, CfgInv, Run
  <1>3. \A n \in Names : Waiting(n) = Into(n)
    BY <1>1 DEF Waiting
  <1>4. Names' = Names /\ \A n : Waiting(n)' = Waiting(n) /\ Into(n)' = Into(n)
    BY <1>1 DEF Names, Run, Waiting, Into, Edges, Target, Source
  <1>5. \A n \in Names : Cardinality(Into(n)) \in Nat
    BY WaitingFinite, FS_CardinalityType DEF VInv
  <1>6. inDegree' \in [Names -> Int] /\ \A n \in Names : inDegree'[n] = Cardinality(Into(n))
    BY <1>5
  <1>7. \A S \in SUBSET Names : Stuck(S)' => S \cap queue' = {}
    <2> SUFFICES ASSUME NEW S \in SUBSET Names, Stuck(S)', NEW n \in S, n \in queue'
                 PROVE  FALSE
      OBVIOUS
    <2>1. Into(n) = {}
      OBVIOUS
    <2>2. Into(n)' # {}
      BY DEF Stuck
    <2> QED
      BY <1>4, <2>1, <2>2
  <1>8. KahnInv'
    BY <1>1, <1>3, <1>4, <1>6, <1>7 DEF KahnInv
  <1>9. ~flawed' => /\ cfg.mode \in {"parallel", "sequential"}
                    /\ \A i \in Run : ~EntryFlawed(i)
                    /\ \A e \in Edges : ~EdgeFlawed(e)
    OBVIOUS
  <1>10. /\ Run' = Run /\ Edges' = Edges
         /\ \A i : EntryFlawed(i)' = EntryFlawed(i)
         /\ \A e : EdgeFlawed(e)' = EdgeFlawed(e)
    BY <1>1, FlawsKept
  <1> QED
    BY <1>1, <1>2, <1>8, <1>9, <1>10 DEF VInv, VerdictInv

-----------------------------------------------------------------------------
(* The cycle check *)

\* A visit lowers every in-degree by the number of edges it accounts for.
LEMMA VisitCounts ==
  ASSUME CfgInv, NEW n \in Names, NEW m, m \notin visited
  PROVE  LET rest == {e \in Into(n) : Source(e) \notin visited \cup {m}}
         IN  /\ Cardinality(rest) = Cardinality(Waiting(n)) - Cardinality(Between(m, n))
             /\ Between(m, n) = {} => rest = Waiting(n)
  <1> DEFINE rest == {e \in Into(n) : Source(e) \notin visited \cup {m}}
  <1>1. Waiting(n) = rest \cup Between(m, n) /\ rest \cap Between(m, n) = {}
    BY DEF Waiting, Into, Between
  <1>2. rest \subseteq Into(n) /\ Between(m, n) \subseteq Into(n)
    BY DEF Into, Between
  <1>3. IsFiniteSet(rest) /\ IsFiniteSet(Between(m, n))
    BY <1>2, WaitingFinite, FS_Subset
  <1> HIDE DEF rest
  <1>4. Cardinality(Waiting(n)) = Cardinality(rest) + Cardinality(Between(m, n)) - Cardinality({})
    BY <1>1, <1>3, FS_Union
  <1>5. Cardinality({}) = 0 /\ Cardinality(rest) \in Nat /\ Cardinality(Between(m, n)) \in Nat
    BY <1>3, FS_EmptySet, FS_CardinalityType
  <1>6. Cardinality(rest) = Cardinality(Waiting(n)) - Cardinality(Between(m, n))
    BY <1>4, <1>5
  <1>7. Between(m, n) = {} => rest = Waiting(n)
    BY <1>1
  <1> QED
    BY <1>6, <1>7 DEF rest

LEMMA VisitStep ==
  ASSUME VInv, NEW m \in Names, Visit(m)
  PROVE  VInv'
  <1> USE DEF Lowered
  <1>1. /\ UNCHANGED <<cfg, vpc, flawed>> /\ vpc = "cycle" /\ m \in queue
        /\ visited' = visited \cup {m}
        /\ inDegree' = [n \in Names |-> inDegree[n] - Cardinality(Between(m, n))]
        /\ queue' = (queue \ {m}) \cup {n \in Names : Between(m, n) # {} /\ inDegree'[n] = 0}
    BY DEF Visit
  <1>2. CfgInv /\ KahnInv
    BY <1>1 DEF VInv, VerdictInv
  <1>3. /\ Run' = Run /\ Names' = Names
        /\ \A n : Into(n)' = Into(n)
        /\ \A n : Stuck(n)' = Stuck(n)
        /\ CfgInv'
    BY <1>1, <1>2 DEF CfgInv, Run, Names, Into, Edges, Target, Source, Stuck, CopyNumbers
  <1>15. /\ Run' = Run /\ Edges' = Edges
         /\ \A i : EntryFlawed(i)' = EntryFlawed(i)
         /\ \A e : EdgeFlawed(e)' = EdgeFlawed(e)
    BY <1>1, FlawsKept
  <1>4. m \notin visited
    BY <1>1, <1>2 DEF KahnInv
  <1>5. \A n : Waiting(n)' = {e \in Into(n) : Source(e) \notin visited \cup {m}}
    BY <1>1, <1>3 DEF Waiting, Source
  <1>6. \A n \in Names : /\ Cardinality(Waiting(n)') =
                                Cardinality(Waiting(n)) - Cardinality(Between(m, n))
                         /\ Between(m, n) = {} => Waiting(n)' = Waiting(n)
    BY <1>2, <1>4, <1>5, VisitCounts
  <1>7. \A n \in Names : inDegree[n] = Cardinality(Waiting(n)) /\ inDegree[n] \in Int
    BY <1>2 DEF KahnInv
  <1>8. \A n \in Names : /\ inDegree'[n] = Cardinality(Waiting(n)')
                         /\ Cardinality(Waiting(n)') \in Nat
                         /\ Cardinality(Waiting(n)') = 0 <=> Waiting(n)' = {}
    <2> SUFFICES ASSUME NEW n \in Names
                 PROVE  /\ inDegree'[n] = Cardinality(Waiting(n)')
                        /\ Cardinality(Waiting(n)') \in Nat
                        /\ Cardinality(Waiting(n)') = 0 <=> Waiting(n)' = {}
      OBVIOUS
    <2>1. inDegree'[n] = Cardinality(Waiting(n)')
      BY <1>1, <1>6, <1>7
    <2>2. Waiting(n)' \subseteq Into(n) /\ IsFiniteSet(Into(n))
      BY <1>2, <1>5, WaitingFinite
    <2>3. IsFiniteSet(Waiting(n)')
      BY <2>2, FS_Subset
    <2> QED
      BY <2>1, <2>3, FS_CardinalityType, FS_EmptySet
  <1>9. \A n \in Names : n \in (visited \cup queue)' <=> Waiting(n)' = {}
    <2> SUFFICES ASSUME NEW n \in Names
                 PROVE  n \in visited' \cup queue' <=> Waiting(n)' = {}
      OBVIOUS
    <2>1. n \in visited \cup queue <=> Waiting(n) = {}
      BY <1>2 DEF KahnInv
    <2>2. Waiting(n)' \subseteq Waiting(n)
      BY <1>5 DEF Waiting
    <2>3. n \in visited' \cup queue' <=>
            n \in visited \cup queue \/ (Between(m, n) # {} /\ Waiting(n)' = {})
      BY <1>1, <1>8
    <2> QED
      BY <1>6, <2>1, <2>2, <2>3
  <1>10. \A n \in queue' : n \notin visited'
    <2> SUFFICES ASSUME NEW n \in queue' PROVE n \notin visited'
      OBVIOUS
    <2>1. CASE n \in queue \ {m}
      BY <1>1, <1>2, <2>1 DEF KahnInv
    <2>2. CASE n \in Names /\ Between(m, n) # {}
      <3>1. Waiting(n) # {}
        BY <1>4, <2>2 DEF Waiting, Between, Into
      <3>2. n \notin visited \cup queue
        BY <1>2, <2>2, <3>1 DEF KahnInv
      <3> QED
        BY <1>1, <3>2
    <2> QED
      BY <1>1, <2>1, <2>2
  <1>11. \A S \in SUBSET Names : Stuck(S) => S \cap (visited' \cup queue') = {}
    <2> SUFFICES ASSUME NEW S \in SUBSET Names, Stuck(S), NEW n \in S,
                        n \in visited' \cup queue'
                 PROVE  FALSE
      OBVIOUS
    <2>1. S \cap (visited \cup queue) = {}
      BY <1>2 DEF KahnInv
    <2>2. Waiting(n)' = {}
      BY <1>9
    <2>3. \A e \in Into(n) : Source(e) \in visited \cup {m}
      BY <1>5, <2>2
    <2>4. \A e \in Into(n) : Source(e) \in (visited \cup queue) /\ Source(e) \in Names
      BY <1>1, <1>2, <2>3 DEF KahnInv
    <2> QED
      BY <2>1, <2>4 DEF Stuck
  <1>12. visited' \subseteq Names /\ queue' \subseteq Names
    BY <1>1, <1>2 DEF KahnInv
  <1>13. inDegree' \in [Names -> Int]
    BY <1>1, <1>8
  <1>14. KahnInv'
    BY <1>3, <1>8, <1>9, <1>10, <1>11, <1>12, <1>13 DEF KahnInv
  <1> QED
    BY <1>1, <1>3, <1>14, <1>15 DEF VInv, VerdictInv

LEMMA DecideStep ==
  ASSUME VInv, Decide
  PROVE  VInv'
  <1>1. /\ UNCHANGED <<cfg, flawed, inDegree, queue, visited>> /\ vpc = "cycle" /\ queue = {}
        /\ vpc' = IF flawed \/ Cardinality(visited) < Cardinality(Names)
                  THEN "rejected" ELSE "accepted"
    BY DEF Decide
  <1>2. CfgInv /\ KahnInv
    BY <1>1 DEF VInv, VerdictInv
  <1>3. /\ Run' = Run /\ Names' = Names
        /\ \A n : Into(n)' = Into(n) /\ Waiting(n)' = Waiting(n)
        /\ \A n : Stuck(n)' = Stuck(n)
        /\ CfgInv'
    BY <1>1, <1>2 DEF CfgInv, Run, Names, Into, Waiting, Edges, Target, Source, Stuck,
                      CopyNumbers
  <1>6. /\ Run' = Run /\ Edges' = Edges
        /\ \A i : EntryFlawed(i)' = EntryFlawed(i)
        /\ \A e : EdgeFlawed(e)' = EdgeFlawed(e)
    BY <1>1, FlawsKept
  <1>4. KahnInv'
    BY <1>1, <1>2, <1>3 DEF KahnInv
  <1>5. Cardinality(visited) \in Nat /\ Cardinality(Names) \in Nat
    BY <1>2, NamesFinite, FS_Subset, FS_CardinalityType DEF KahnInv
  <1> QED
    BY <1>1, <1>3, <1>4, <1>5, <1>6 DEF VInv, VerdictInv

LEMMA VInvariance == Spec => []VInv
  <1>1. VInv /\ [Next]_vars => VInv'
    <2> SUFFICES ASSUME VInv, [Next]_vars PROVE VInv'
      OBVIOUS
    <2>1. CASE UNCHANGED vars
      <3>1. UNCHANGED <<cfg, vpc, flawed, inDegree, queue, visited>>
        BY <2>1 DEF vars
      <3>2. /\ Run' = Run /\ Names' = Names
            /\ \A n : Into(n)' = Into(n) /\ Waiting(n)' = Waiting(n)
            /\ \A n : Stuck(n)' = Stuck(n)
        BY <3>1 DEF Run, Names, Into, Waiting, Edges, Target, Source, Stuck
      <3>4. /\ Run' = Run /\ Edges' = Edges
            /\ \A i : EntryFlawed(i)' = EntryFlawed(i)
            /\ \A e : EdgeFlawed(e)' = EdgeFlawed(e)
        BY <3>1, FlawsKept
      <3>3. CfgInv' /\ (KahnInv => KahnInv')
        BY <3>1, <3>2 DEF VInv, CfgInv, KahnInv, CopyNumbers
      <3> QED
        BY <3>1, <3>2, <3>3, <3>4 DEF VInv, VerdictInv
    <2> QED
      BY <2>1, DefaultsStep, CheckStep, VisitStep, DecideStep DEF Next
  <1> QED
    BY InitV, <1>1, PTL DEF Spec

\* What Validate does is all that ever happens to a configuration.
LEMMA ValidationPart == StartSpec => Spec
  <1>1. StartInit => Init
    BY DEF StartInit
  <1>2. [StartNext]_allVars => [Next]_vars
    BY DEF StartNext, Steps, Validate, Validated, NextProcess, Evaluation, Decided, Launch,
           GateAnswers, Finish, Instances, Begin, Settles, GivesUp, Cancel, allVars
  <1> QED
    BY <1>1, <1>2, PTL DEF StartSpec, Spec

LEMMA AcceptedNotStuck ==
  ASSUME VInv, vpc = "accepted"
  PROVE  \A S \in SUBSET Names : ~Stuck(S)
  <1>1. KahnInv /\ CfgInv /\ Cardinality(visited) >= Cardinality(Names)
    BY DEF VInv, VerdictInv
  <1>2. visited \subseteq Names /\ IsFiniteSet(Names)
    BY <1>1, NamesFinite DEF KahnInv
  <1>3. /\ Cardinality(visited) <= Cardinality(Names)
        /\ Cardinality(Names) = Cardinality(visited) => Names = visited
        /\ Cardinality(visited) \in Nat /\ Cardinality(Names) \in Nat
    BY <1>2, FS_Subset, FS_CardinalityType
  <1>4. visited = Names
    BY <1>1, <1>3
  <1> QED
    BY <1>1, <1>4 DEF KahnInv, Stuck

\* For every configuration: it is accepted only if every name could start, and
\* one that passes the other checks is rejected only if some name never could.
THEOREM VerdictIsExact == StartSpec => []VerdictExact
  <1>1. VInv => VerdictExact
    <2> SUFFICES ASSUME VInv PROVE VerdictExact
      OBVIOUS
    <2>1. vpc = "accepted" => \A S \in SUBSET Names : ~Stuck(S)
      BY AcceptedNotStuck
    <2>2. ASSUME vpc = "rejected", ~flawed
          PROVE  \E S \in SUBSET Names : Stuck(S)
      <3>1. KahnInv /\ queue = {} /\ Cardinality(visited) < Cardinality(Names)
        BY <2>2 DEF VInv, VerdictInv
      <3> DEFINE S == Names \ visited
      <3>2. CfgInv /\ Cardinality(Names) \in Nat
        BY NamesFinite, FS_CardinalityType DEF VInv
      <3>3. S # {}
        BY <3>1, <3>2 DEF KahnInv
      <3>4. \A n \in S : Waiting(n) # {}
        BY <3>1 DEF KahnInv
      <3>5. Stuck(S)
        BY <3>3, <3>4 DEF Stuck, Waiting
      <3> QED
        BY <3>5
    <2> QED
      BY <2>1, <2>2 DEF VerdictExact
  <1> QED
    BY ValidationPart, VInvariance, <1>1, PTL

-----------------------------------------------------------------------------

\* Where there is a management socket, no two instances of an accepted
\* configuration have the same id.
THEOREM IdsAreUnique == StartSpec => []IdsUnique
  <1>1. VInv => IdsUnique
    <2> SUFFICES ASSUME VInv, vpc = "accepted", cfg.control,
                        NEW i \in Run, NEW j \in Run, NEW k \in Copies(i), NEW l \in Copies(j),
                        InstanceId(i, k) = InstanceId(j, l)
                 PROVE  i = j /\ k = l
      BY DEF IdsUnique
    <2>1. ~EntryFlawed(i) /\ ~EntryFlawed(j)
      BY DEF VInv, VerdictInv
    <2>2. cfg.run[i].name \in SimpleNames /\ cfg.run[j].name \in SimpleNames
      BY <2>1 DEF EntryFlawed, NameRefused
    <2>3. cfg.run[i].name = cfg.run[j].name => i = j
      <3>1. i \in Int /\ j \in Int /\ i >= 1 /\ j >= 1
        BY RunFinite DEF VInv, Run
      <3>2. i < j => cfg.run[i].name # cfg.run[j].name
        BY <2>1, <3>1 DEF EntryFlawed
      <3>3. j < i => cfg.run[i].name # cfg.run[j].name
        BY <2>1, <3>1 DEF EntryFlawed
      <3> QED
        BY <3>1, <3>2, <3>3
    <2>4. cfg.run[i].instances \in Int /\ cfg.run[j].instances \in Int
      BY RunFinite DEF VInv, Entries
    <2>5. /\ cfg.run[i].instances > 1 => k \in CopyNumbers
          /\ cfg.run[j].instances > 1 => l \in CopyNumbers
      BY <2>4 DEF VInv, CfgInv, Copies
    <2>6. /\ ~(cfg.run[i].instances > 1) => k = 0
          /\ ~(cfg.run[j].instances > 1) => l = 0
      BY <2>4 DEF Copies
    <2>7. \A n, m \in SimpleNames : \A x, y \in CopyNumbers :
             /\ CopyName(n, x) \notin SimpleNames
             /\ CopyName(n, x) = CopyName(m, y) => n = m /\ x = y
      BY CopiesAreNamed
    <2>8. CASE cfg.run[i].instances > 1 /\ cfg.run[j].instances > 1
      BY <2>2, <2>3, <2>5, <2>7, <2>8 DEF InstanceId
    <2>9. CASE ~(cfg.run[i].instances > 1) /\ ~(cfg.run[j].instances > 1)
      BY <2>2, <2>3, <2>6, <2>9 DEF InstanceId
    <2>10. CASE cfg.run[i].instances > 1 /\ ~(cfg.run[j].instances > 1)
      BY <2>2, <2>5, <2>7, <2>10 DEF InstanceId
    <2>11. CASE ~(cfg.run[i].instances > 1) /\ cfg.run[j].instances > 1
      BY <2>2, <2>5, <2>7, <2>11 DEF InstanceId
    <2> QED
      BY <2>8, <2>9, <2>10, <2>11
  <1> QED
    BY ValidationPart, VInvariance, <1>1, PTL

-----------------------------------------------------------------------------

\* ConfigIsValid, which module Manager assumes of its constants, said of cfg.
ManagerMayRely ==
    /\ cfg.mode \in {"parallel", "sequential"}
    /\ \A i, j \in Run : cfg.run[i].name = cfg.run[j].name => i = j
    /\ \A i \in Run : Copies(i) # {}
    /\ \A e \in Edges : Source(e) \in Names
    /\ \A S \in SUBSET Names : S # {} => \E n \in S : \A e \in Into(n) : Source(e) \notin S
    /\ cfg.mode = "sequential" =>
         \A e \in Edges : OrderOf(Source(e)) < OrderOf(Target(e))

\* What Validate accepts is what the manager relies on: every name is there
\* once, with at least one instance; it depends on names that are there, in
\* sequential mode on earlier ones; and there are no cycles.
THEOREM AcceptedIsValid == StartSpec => [](vpc = "accepted" => ManagerMayRely)
  <1>1. VInv /\ vpc = "accepted" => ManagerMayRely
    <2> SUFFICES ASSUME VInv, vpc = "accepted" PROVE ManagerMayRely
      OBVIOUS
    <2>1. /\ ~flawed /\ cfg.mode \in {"parallel", "sequential"}
          /\ \A i \in Run : ~EntryFlawed(i)
          /\ \A e \in Edges : ~EdgeFlawed(e)
      BY DEF VInv, VerdictInv
    <2>2. Len(cfg.run) \in Nat /\ \A i \in Run : cfg.run[i] \in Entries
      BY RunFinite DEF VInv
    <2>3. ASSUME NEW i \in Run, NEW j \in Run, i < j PROVE cfg.run[i].name # cfg.run[j].name
      <3>1. i \in 1..(j - 1)
        BY <2>2, <2>3 DEF Run
      <3> QED
        BY <2>1, <3>1 DEF EntryFlawed
    <2>4. \A i, j \in Run : cfg.run[i].name = cfg.run[j].name => i = j
      <3>1. \A i, j \in Run : i < j \/ j < i \/ i = j
        BY <2>2 DEF Run
      <3> QED
        BY <2>3, <3>1
    <2>5. \A i \in Run : Copies(i) # {}
      <3> SUFFICES ASSUME NEW i \in Run PROVE 0 \in Copies(i)
        OBVIOUS
      <3>1. cfg.run[i].instances \in Int
        BY <2>2 DEF Entries
      <3>2. ~(cfg.run[i].instances < 1)
        BY <2>1 DEF EntryFlawed
      <3> QED
        BY <3>1, <3>2 DEF Copies
    <2>6. \A e \in Edges : Source(e) \in Names /\ Source(e) # Target(e) /\ ~Forward(e)
      BY <2>1 DEF EdgeFlawed
    <2>7. \A S \in SUBSET Names : S # {} => \E n \in S : \A e \in Into(n) : Source(e) \notin S
      <3>1. \A S \in SUBSET Names : ~Stuck(S)
        BY AcceptedNotStuck
      <3>2. \A n : Into(n) \subseteq Edges
        BY DEF Into
      <3> QED
        BY <2>6, <3>1, <3>2 DEF Stuck
    <2>8. \A i \in Run : OrderOf(cfg.run[i].name) = i
      BY <2>2, <2>4 DEF OrderOf, Run
    <2>9. ASSUME cfg.mode = "sequential", NEW e \in Edges
          PROVE  OrderOf(Source(e)) < OrderOf(Target(e))
      <3>1. PICK i \in Run : Source(e) = cfg.run[i].name
        BY <2>6 DEF Names
      <3>2. PICK j \in Run : Target(e) = cfg.run[j].name
        BY DEF Edges, Target
      <3>3. i # j /\ OrderOf(Source(e)) = i /\ OrderOf(Target(e)) = j
        BY <2>6, <2>8, <3>1, <3>2
      <3>4. ~(i > j)
        BY <2>6, <2>9, <3>3 DEF Forward
      <3> QED
        BY <2>2, <3>3, <3>4 DEF Run
    <2> QED
      BY <2>1, <2>4, <2>5, <2>6, <2>7, <2>9 DEF ManagerMayRely
  <1> QED
    BY ValidationPart, VInvariance, <1>1, PTL

-----------------------------------------------------------------------------
(* FlattenSeq *)

\* What stands in for induction: a set of natural numbers has a least element.
LEMMA LeastOf ==
  ASSUME NEW T, T \subseteq Nat, T # {}
  PROVE  \E m \in T : \A k \in T : ~(k < m)
  <1>1. PICK n : n \in T
    OBVIOUS
  <1> DEFINE S == 0..n
             U == {u \in SUBSET S : \E k \in T : u = 0..k}
  <1>2. n \in Nat /\ IsFiniteSet(S)
    BY <1>1, FS_Interval
  <1>3. U # {} /\ U \subseteq SUBSET S
    BY <1>1, <1>2
  <1>4. PICK s \in U : \A t \in U : ~ (<<t, s>> \in StrictSubsetOrdering(S))
    <2> HIDE DEF U, S
    <2>1. IsWellFoundedOn(StrictSubsetOrdering(S), FiniteSubsetsOf(S))
      BY FS_StrictSubsetOrderingWellFounded
    <2>2. U \subseteq FiniteSubsetsOf(S)
      BY <1>2, <1>3, FS_FiniteSubsetsOfFinite
    <2> QED
      BY <1>3, <2>1, <2>2, WFMin
  <1>5. PICK m \in T : m <= n /\ s = 0..m
    BY <1>4
  <1>6. ASSUME NEW k \in T, k < m
        PROVE  FALSE
    <2>1. k \in Nat /\ m \in Nat /\ k <= n
      BY <1>1, <1>2, <1>5, <1>6
    <2>2. 0..k \in U /\ 0..k \subseteq s /\ s \subseteq S
      BY <1>5, <1>6, <2>1
    <2>3. 0..k # s
      <3>1. m \in s /\ m \notin 0..k
        BY <1>5, <1>6, <2>1
      <3> QED
        BY <3>1
    <2> HIDE DEF U, S
    <2>4. <<0..k, s>> \in StrictSubsetOrdering(S)
      BY <2>2, <2>3 DEF StrictSubsetOrdering
    <2> QED
      BY <1>4, <2>2, <2>4
  <1> QED
    BY <1>6

\* f joins the first k of the sequences in s.
Follows(f, s, k) == \A i \in 1..k : f[i] = IF i = 1 THEN s[i] ELSE f[i - 1] \o s[i]
Joins(f, s, k, T) == f \in [1..k -> Seq(T)] /\ Follows(f, s, k)

CanJoin(s, k, T) == \E f : Joins(f, s, k, T)

\* One more sequence is joined.
LEMMA JoinsExtends ==
  ASSUME NEW V, NEW s \in Seq(Seq(V)), NEW m \in Nat, m < Len(s),
         NEW f, Joins(f, s, m, V)
  PROVE  CanJoin(s, m + 1, V)
  <1> DEFINE e == IF m = 0 THEN s[1] ELSE f[m] \o s[m + 1]
             g == [i \in 1..(m + 1) |-> IF i = m + 1 THEN e ELSE f[i]]
  <1>1. Len(s) \in Nat
    BY LenProperties
  <1>2. s[m + 1] \in Seq(V)
    BY <1>1, ElementOfSeq
  <1>3. \A i \in 1..m : f[i] \in Seq(V)
    BY DEF Joins, Follows
  <1>4. e \in Seq(V)
    <2>1. CASE m = 0
      BY <1>2, <2>1
    <2>2. CASE m # 0
      <3>1. f[m] \in Seq(V)
        BY <1>3, <2>2
      <3> QED
        BY <1>2, <2>2, <3>1, ConcatProperties
    <2> QED
      BY <2>1, <2>2
  <1>5. e = IF m + 1 = 1 THEN s[m + 1] ELSE f[(m + 1) - 1] \o s[m + 1]
    <2>1. (m + 1) - 1 = m /\ (m + 1 = 1 <=> m = 0)
      OBVIOUS
    <2> QED
      BY <2>1
  <1> HIDE DEF e
  <1>6. /\ g[m + 1] = e
        /\ \A i \in 1..m : g[i] = f[i]
        /\ \A i \in 1..(m + 1) : i = m + 1 \/ i \in 1..m
    OBVIOUS
  <1>7. g \in [1..(m + 1) -> Seq(V)]
    BY <1>3, <1>4
  <1> HIDE DEF g
  <1>8. ASSUME NEW i \in 1..(m + 1)
        PROVE  g[i] = IF i = 1 THEN s[i] ELSE g[i - 1] \o s[i]
    <2>1. CASE i = m + 1
      <3>1. m # 0 => g[m] = f[m]
        <4>1. m # 0 => m \in 1..m
          OBVIOUS
        <4> QED
          BY <1>6, <4>1
      <3>2. (m + 1) - 1 = m /\ (m + 1 = 1 <=> m = 0)
        OBVIOUS
      <3> QED
        BY <1>5, <1>6, <2>1, <3>1, <3>2
    <2>2. CASE i \in 1..m
      <3>1. i # 1 => i - 1 \in 1..m /\ g[i - 1] = f[i - 1]
        BY <1>6, <2>2
      <3>2. f[i] = IF i = 1 THEN s[i] ELSE f[i - 1] \o s[i]
        BY <2>2 DEF Joins, Follows
      <3> QED
        BY <1>6, <2>2, <3>1, <3>2
    <2> QED
      BY <1>6, <2>1, <2>2
  <1> QED
    BY <1>7, <1>8 DEF CanJoin, Joins, Follows

LEMMA JoinsExists ==
  ASSUME NEW V, NEW s \in Seq(Seq(V)), NEW k \in Nat, k <= Len(s)
  PROVE  CanJoin(s, k, V)
  <1> DEFINE T == {j \in 0..k : ~CanJoin(s, j, V)}
  <1>0. Len(s) \in Nat /\ \A i \in 1..Len(s) : s[i] \in Seq(V)
    BY LenProperties, ElementOfSeq
  <1> SUFFICES ASSUME T # {} PROVE FALSE
    OBVIOUS
  <1>1. PICK m \in T : \A j \in T : ~(j < m)
    <2>1. T \subseteq Nat
      OBVIOUS
    <2> HIDE DEF T
    <2> QED
      BY <2>1, LeastOf
  <1>2. m # 0
    <2>1. Joins(<< >>, s, 0, V)
      BY DEF Joins, Follows
    <2> QED
      BY <2>1 DEF CanJoin
  <1>11. CanJoin(s, m - 1, V)
    BY <1>1, <1>2
  <1>3. PICK f : Joins(f, s, m - 1, V)
    BY <1>11 DEF CanJoin
  <1>4. m - 1 \in Nat /\ m - 1 < Len(s) /\ (m - 1) + 1 = m
    BY <1>1, <1>2
  <1>5. CanJoin(s, m, V)
    BY <1>3, <1>4, JoinsExtends
  <1> QED
    BY <1>1, <1>5

LEMMA JoinsUnique ==
  ASSUME NEW V, NEW s, NEW n \in Nat, NEW f, Joins(f, s, n, V),
         NEW g, Follows(g, s, n)
  PROVE  \A k \in 1..n : g[k] = f[k]
  <1> DEFINE T == {i \in 1..n : g[i] # f[i]}
  <1> SUFFICES ASSUME T # {} PROVE FALSE
    OBVIOUS
  <1>1. PICK m \in T : \A j \in T : ~(j < m)
    <2>1. T \subseteq Nat
      OBVIOUS
    <2> HIDE DEF T
    <2> QED
      BY <2>1, LeastOf
  <1>2. m # 1 => m - 1 \in 1..n /\ m - 1 < m
    OBVIOUS
  <1>3. m # 1 => g[m - 1] = f[m - 1]
    BY <1>1, <1>2
  <1>4. f[m] = IF m = 1 THEN s[m] ELSE f[m - 1] \o s[m]
    BY DEF Joins, Follows
  <1>5. g[m] = IF m = 1 THEN s[m] ELSE g[m - 1] \o s[m]
    BY DEF Follows
  <1> QED
    BY <1>3, <1>4, <1>5

\* What FlattenSeq returns has a length.
LEMMA FlattenSeqType ==
  ASSUME NEW V, NEW s \in Seq(Seq(V))
  PROVE  FlattenSeq(s) \in Seq(V)
  <1> DEFINE n == Len(s)
             Fn(f) == [i \in 1..n |-> IF i = 1 THEN s[i] ELSE f[i-1] \o s[i]]
             g == CHOOSE f : f = Fn(f)
  <1>0. n \in Nat
    BY LenProperties
  <1>1. FlattenSeq(s) = IF n = 0 THEN s ELSE g[n]
    BY DEF FlattenSeq
  <1>2. PICK f : Joins(f, s, n, V)
    BY <1>0, JoinsExists DEF CanJoin
  <1>3. f = Fn(f)
    BY <1>2 DEF Joins, Follows
  <1>4. g = Fn(g)
    <2> HIDE DEF Fn
    <2> QED
      BY <1>3
  <1>5. CASE n = 0
    BY <1>1, <1>5
  <1>6. CASE n # 0
    <2>1. Follows(g, s, n)
      <3> HIDE DEF g
      <3> QED
        BY <1>4 DEF Follows
    <2> HIDE DEF g
    <2>4. n \in 1..n
      BY <1>0, <1>6
    <2>2. g[n] = f[n]
      <3>1. \A k \in 1..n : g[k] = f[k]
        <4> HIDE DEF n, Fn, g
        <4>2. n \in Nat /\ Joins(f, s, n, V)
          BY <1>0, <1>2
        <4> QED
          BY <4>2, <2>1, JoinsUnique
      <3> QED
        BY <2>4, <3>1
    <2>3. f[n] \in Seq(V)
      BY <1>2, <2>4 DEF Joins, Follows
    <2> QED
      BY <1>1, <1>6, <2>2, <2>3
  <1> QED
    BY <1>5, <1>6

LEMMA KeyType ==
  ASSUME NEW type \in Types, NEW keys
  PROVE  Key(type, keys) \in Seq(Types)
  <1>1. << >> \in Seq(Types)
    BY EmptySeq
  <1>2. <<type>> \in Seq(Types)
    OBVIOUS
  <1> QED
    BY <1>1, <1>2 DEF Key

LEMMA SortedKeysType ==
  ASSUME NEW keys
  PROVE  SortedKeys(keys) \in Seq(Types)
  <1> DEFINE a == Key("commandSucceeds", keys)
             b == Key("env", keys)
             c == Key("fileExists", keys)
             d == Key("portOpen", keys)
  <1>1. a \in Seq(Types) /\ b \in Seq(Types) /\ c \in Seq(Types) /\ d \in Seq(Types)
    <2>1. \A t \in Types : Key(t, keys) \in Seq(Types)
      BY KeyType
    <2> QED
      BY <2>1 DEF Types
  <1>2. SortedKeys(keys) = a \o b \o c \o d
    BY DEF SortedKeys
  <1> HIDE DEF a, b, c, d
  <1>3. a \o b \in Seq(Types)
    BY <1>1, ConcatProperties
  <1>4. a \o b \o c \in Seq(Types)
    BY <1>1, <1>3, ConcatProperties
  <1>5. a \o b \o c \o d \in Seq(Types)
    BY <1>1, <1>4, ConcatProperties
  <1> QED
    BY <1>2, <1>5

LEMMA FlattenType ==
  ASSUME NEW c, Len(c) \in Nat
  PROVE  Flatten(c) \in Seq(Types)
  <1> DEFINE s == [k \in 1..Len(c) |-> SortedKeys(c[k])]
  <1>1. \A k \in 1..Len(c) : SortedKeys(c[k]) \in Seq(Types)
    BY SortedKeysType
  <1>2. s \in Seq(Seq(Types))
    BY <1>1
  <1> HIDE DEF s
  <1>3. FlattenSeq(s) \in Seq(Types)
    BY <1>2, FlattenSeqType
  <1> QED
    BY <1>3 DEF Flatten, s

-----------------------------------------------------------------------------
(* One evaluation of the conditions of a process *)

AllTrue(s) == \A k \in 1..Len(s) : s[k]
AllFalse(s) == \A k \in 1..Len(s) : ~s[k]

CondTypeOK ==
    /\ idx \in Nat \ {0}
    /\ whenAll \in Seq(Types) /\ whenAny \in Seq(Types)
    /\ block \in {"idle", "all", "any"}
    /\ pos \in Nat \ {0}
    /\ truth \in [all : Seq(BOOLEAN), any : Seq(BOOLEAN)]

\* In whenAll everything looked at so far held; in whenAny, which comes after
\* all of it and only if there is something in it, nothing did, unless the
\* context is done: then a command that held counts as one that did not.  A
\* command runs only for the condition in evaluation.
BlockInv ==
    /\ block # "idle" => answer = "none"
    /\ block = "all" =>
         /\ truth.any = << >>
         /\ Len(truth.all) = pos - 1 /\ pos - 1 <= Len(whenAll)
         /\ AllTrue(truth.all)
    /\ block = "any" =>
         /\ Len(truth.all) = Len(whenAll) /\ AllTrue(truth.all)
         /\ whenAny # << >>
         /\ Len(truth.any) = pos - 1 /\ pos - 1 <= Len(whenAny)
         /\ ctx \/ AllFalse(truth.any)
    /\ probe # "none" => /\ block # "idle"
                         /\ pos <= Len(List) /\ List[pos] = "commandSucceeds"

CondInv == CondTypeOK /\ BlockInv /\ DecisionHasReason

LEMMA Lengths ==
  ASSUME CondTypeOK
  PROVE  /\ Len(whenAll) \in Nat /\ Len(whenAny) \in Nat
         /\ Len(truth.all) \in Nat /\ Len(truth.any) \in Nat
         /\ truth.all \in Seq(BOOLEAN) /\ truth.any \in Seq(BOOLEAN)
  <1>1. truth.all \in Seq(BOOLEAN) /\ truth.any \in Seq(BOOLEAN)
    BY DEF CondTypeOK
  <1>2. whenAll \in Seq(Types) /\ whenAny \in Seq(Types)
    BY DEF CondTypeOK
  <1> QED
    BY <1>1, <1>2, LenProperties

LEMMA Appended ==
  ASSUME NEW s \in Seq(BOOLEAN), NEW ok \in BOOLEAN
  PROVE  /\ Append(s, ok) \in Seq(BOOLEAN)
         /\ Len(Append(s, ok)) = Len(s) + 1
         /\ Append(s, ok)[Len(s) + 1] = ok
         /\ AllTrue(s) /\ ok => AllTrue(Append(s, ok))
         /\ AllFalse(s) /\ ~ok => AllFalse(Append(s, ok))
  <1> DEFINE t == Append(s, ok)
  <1>1. /\ t \in Seq(BOOLEAN) /\ Len(t) = Len(s) + 1 /\ t[Len(s) + 1] = ok
        /\ \A k \in 1..Len(s) : t[k] = s[k]
    BY AppendProperties
  <1>2. Len(s) \in Nat
    BY LenProperties
  <1>3. \A k \in 1..Len(t) : k \in 1..Len(s) \/ k = Len(s) + 1
    BY <1>1, <1>2
  <1> HIDE DEF t
  <1>4. AllTrue(s) /\ ok => AllTrue(t)
    BY <1>1, <1>3 DEF AllTrue
  <1>5. AllFalse(s) /\ ~ok => AllFalse(t)
    BY <1>1, <1>3 DEF AllFalse
  <1> QED
    BY <1>1, <1>4, <1>5 DEF t

LEMMA TruthSet ==
  ASSUME NEW R, NEW t \in [all : R, any : R], NEW b \in {"all", "any"}, NEW x \in R
  PROVE  /\ [t EXCEPT ![b] = x] \in [all : R, any : R]
         /\ b = "all" => [t EXCEPT ![b] = x].all = x /\ [t EXCEPT ![b] = x].any = t.any
         /\ b = "any" => [t EXCEPT ![b] = x].any = x /\ [t EXCEPT ![b] = x].all = t.all
  OBVIOUS

\* A condition has been found to hold or not (ok), and counts as it was found,
\* or, under a context that is done, perhaps as one that did not hold.
LEMMA FindsStep ==
  ASSUME CondInv, block # "idle", pos <= Len(List),
         NEW ok \in BOOLEAN, NEW counts \in BOOLEAN,
         counts => ok, ok => counts \/ ctx,
         Learned(ok), Evaluated(counts),
         probe' = "none", UNCHANGED <<whenAll, whenAny, ctx, idx>>
  PROVE  CondInv'
  <1> DEFINE s == truth[block]
  <1>1. CondTypeOK /\ BlockInv /\ answer = "none" /\ block \in {"all", "any"}
    BY DEF CondInv, BlockInv, CondTypeOK
  <1>2. /\ Len(whenAll) \in Nat /\ Len(whenAny) \in Nat
        /\ Len(truth.all) \in Nat /\ Len(truth.any) \in Nat
        /\ truth.all \in Seq(BOOLEAN) /\ truth.any \in Seq(BOOLEAN)
    BY <1>1, Lengths
  <1>3. truth \in [all : Seq(BOOLEAN), any : Seq(BOOLEAN)] /\ s \in Seq(BOOLEAN)
    BY <1>1, <1>2 DEF CondTypeOK
  <1>4. /\ Append(s, ok) \in Seq(BOOLEAN)
        /\ Len(Append(s, ok)) = Len(s) + 1
        /\ Append(s, ok)[Len(s) + 1] = ok
        /\ AllTrue(s) /\ ok => AllTrue(Append(s, ok))
        /\ AllFalse(s) /\ ~ok => AllFalse(Append(s, ok))
    BY <1>3, Appended
  <1>5. truth' = [truth EXCEPT ![block] = Append(s, ok)]
    BY DEF Learned
  <1>6. /\ truth' \in [all : Seq(BOOLEAN), any : Seq(BOOLEAN)]
        /\ block = "all" => truth'.all = Append(s, ok) /\ truth'.any = truth.any
        /\ block = "any" => truth'.any = Append(s, ok) /\ truth'.all = truth.all
    <2> HIDE DEF s
    <2> QED
      BY <1>1, <1>3, <1>4, <1>5, TruthSet
  <1>7. /\ pos' \in {pos, pos + 1} /\ block' \in {block, "idle"} /\ pos \in Nat \ {0}
        /\ IF GoesOn(counts) THEN pos' = pos + 1 /\ block' = block /\ answer' = answer
           ELSE block' = "idle" /\ answer' = IF counts THEN "run" ELSE "skip"
    BY <1>1 DEF Evaluated, Answer, CondTypeOK
  <1>8. CondTypeOK'
    BY <1>1, <1>6, <1>7 DEF CondTypeOK
  <1>9. CASE block = "all"
    <2>1. /\ s = truth.all /\ truth.any = << >> /\ List = whenAll
          /\ Len(truth.all) = pos - 1 /\ AllTrue(truth.all) /\ pos <= Len(whenAll)
      BY <1>1, <1>9 DEF BlockInv, List
    <2>2. /\ truth'.all = Append(s, ok) /\ truth'.any = << >>
          /\ Len(truth'.all) = pos /\ truth'.all[pos] = ok
      <3>1. (pos - 1) + 1 = pos
        BY <1>7
      <3> QED
        BY <1>4, <1>6, <1>9, <2>1, <3>1
    <2>3. CASE counts
      <3>1. pos' = pos + 1 /\ block' = "all" /\ answer' = "none"
        BY <1>1, <1>7, <1>9, <2>3 DEF GoesOn
      <3>2. AllTrue(truth'.all)
        BY <1>4, <2>1, <2>2, <2>3
      <3>3. Len(truth'.all) = pos' - 1 /\ pos' - 1 <= Len(whenAll)
        BY <1>2, <1>7, <2>1, <2>2, <3>1
      <3> QED
        BY <1>8, <2>2, <3>1, <3>2, <3>3 DEF CondInv, BlockInv, DecisionHasReason
    <2>4. CASE ~counts
      <3>1. block' = "idle" /\ answer' = "skip"
        BY <1>7, <1>9, <2>4 DEF GoesOn
      <3>2. ctx \/ \E k \in 1..Len(truth'.all) : ~truth'.all[k]
        <4>1. pos \in 1..Len(truth'.all)
          BY <1>7, <2>2
        <4>2. ctx \/ ~ok
          BY <2>4
        <4> QED
          BY <2>2, <4>1, <4>2
      <3> QED
        BY <1>8, <3>1, <3>2 DEF CondInv, BlockInv, DecisionHasReason
    <2> QED
      BY <2>3, <2>4
  <1>10. CASE block = "any"
    <2>1. /\ s = truth.any /\ List = whenAny /\ whenAny # << >>
          /\ Len(truth.all) = Len(whenAll) /\ AllTrue(truth.all)
          /\ Len(truth.any) = pos - 1 /\ pos <= Len(whenAny)
          /\ ctx \/ AllFalse(truth.any)
      BY <1>1, <1>10 DEF BlockInv, List
    <2>2. /\ truth'.any = Append(s, ok) /\ truth'.all = truth.all
          /\ Len(truth'.any) = pos /\ truth'.any[pos] = ok
      <3>1. (pos - 1) + 1 = pos
        BY <1>7
      <3> QED
        BY <1>4, <1>6, <1>10, <2>1, <3>1
    <2>3. CASE counts
      <3>1. block' = "idle" /\ answer' = "run"
        BY <1>7, <1>10, <2>3 DEF GoesOn
      <3>2. \E k \in 1..Len(truth'.any) : truth'.any[k]
        <4>1. pos \in 1..Len(truth'.any)
          BY <1>7, <2>2
        <4> QED
          BY <2>2, <2>3, <4>1
      <3>3. Len(truth'.all) = Len(whenAll) /\ \A k \in 1..Len(whenAll) : truth'.all[k]
        BY <2>1, <2>2 DEF AllTrue
      <3> QED
        BY <1>8, <3>1, <3>2, <3>3 DEF CondInv, BlockInv, DecisionHasReason
    <2>4. CASE ~counts
      <3>1. pos' = pos + 1 /\ block' = "any" /\ answer' = "none"
        BY <1>1, <1>7, <1>10, <2>4 DEF GoesOn
      <3>2. ctx \/ AllFalse(truth'.any)
        BY <1>4, <2>1, <2>2, <2>4
      <3>3. Len(truth'.any) = pos' - 1 /\ pos' - 1 <= Len(whenAny)
        BY <1>2, <1>7, <2>1, <2>2, <3>1
      <3> QED
        BY <1>8, <2>1, <2>2, <3>1, <3>2, <3>3 DEF CondInv, BlockInv, DecisionHasReason
    <2> QED
      BY <2>3, <2>4
  <1> QED
    BY <1>1, <1>9, <1>10

\* A step that only moves on among the phases of a running command, or that
\* touches nothing here, and perhaps ends the context.
LEMMA KeepsCond ==
  ASSUME CondInv, UNCHANGED <<whenAll, whenAny, block, pos, truth>>, idx' \in Nat \ {0},
         answer' \in {answer, "none"}, ctx => ctx',
         probe' # "none" => /\ block # "idle"
                            /\ pos <= Len(List) /\ List[pos] = "commandSucceeds"
  PROVE  CondInv'
  <1>1. CondTypeOK' /\ List' = List
    BY DEF CondInv, CondTypeOK, List
  <1>2. BlockInv'
    BY <1>1 DEF CondInv, BlockInv, AllTrue, AllFalse
  <1>3. DecisionHasReason'
    BY DEF CondInv, DecisionHasReason
  <1> QED
    BY <1>1, <1>2, <1>3 DEF CondInv

\* An answer that needs no reason of its own.
LEMMA ErrorStep ==
  ASSUME CondInv, Answer("error"), probe' = "none",
         UNCHANGED <<whenAll, whenAny, truth, ctx, idx>>
  PROVE  CondInv'
  <1>1. block' = "idle" /\ pos' = pos /\ answer' = "error"
    BY DEF Answer
  <1> QED
    BY <1>1 DEF CondInv, CondTypeOK, BlockInv, DecisionHasReason

LEMMA NextConditionStep ==
  ASSUME CondInv, NextCondition, UNCHANGED <<ctx, idx>>
  PROVE  CondInv'
  <1>1. /\ CondTypeOK /\ BlockInv /\ block # "idle" /\ answer = "none" /\ probe = "none"
        /\ UNCHANGED <<whenAll, whenAny, probe, truth, ctx, idx>>
    BY DEF NextCondition, CondInv, BlockInv
  <1>2. /\ Len(whenAll) \in Nat /\ Len(whenAny) \in Nat
        /\ Len(truth.all) \in Nat /\ Len(truth.any) \in Nat /\ pos \in Nat
    BY <1>1, Lengths DEF CondTypeOK
  <1>3. CASE Answer("error")
    BY <1>1, <1>3, ErrorStep
  <1>4. CASE block = "all" /\ pos > Len(List) /\ AfterAll
    <2>1. /\ Len(truth.all) = Len(whenAll) /\ AllTrue(truth.all)
          /\ Len(truth.any) = 0 /\ truth.any = << >>
      BY <1>1, <1>2, <1>4 DEF BlockInv, List
    <2>2. CASE whenAny = << >> /\ Answer("run")
      BY <1>1, <2>1, <2>2 DEF Answer, CondInv, CondTypeOK, BlockInv, DecisionHasReason, AllTrue
    <2>3. CASE whenAny # << >> /\ block' = "any" /\ pos' = 1 /\ UNCHANGED answer
      <3>1. CondTypeOK'
        BY <1>1, <2>3 DEF CondTypeOK
      <3>2. AllFalse(truth.any)
        BY <2>1 DEF AllFalse
      <3>3. (AllTrue(truth.all) <=> AllTrue(truth.all)') /\ (AllFalse(truth.any) <=> AllFalse(truth.any)')
        BY <1>1
      <3>4. BlockInv'
        BY <1>1, <1>2, <2>1, <2>3, <3>2, <3>3 DEF BlockInv
      <3> QED
        BY <1>1, <2>3, <3>1, <3>4 DEF CondInv, DecisionHasReason
    <2> QED
      BY <1>4, <2>2, <2>3 DEF AfterAll
  <1>5. CASE block = "any" /\ pos > Len(List) /\ Answer("skip")
    <2>1. /\ Len(truth.any) = Len(whenAny) /\ whenAny # << >>
          /\ ctx \/ AllFalse(truth.any)
      BY <1>1, <1>2, <1>5 DEF BlockInv, List
    <2> QED
      BY <1>1, <1>5, <2>1 DEF Answer, CondInv, CondTypeOK, BlockInv, DecisionHasReason, AllFalse
  <1> QED
    BY <1>1, <1>3, <1>4, <1>5 DEF NextCondition, CondTypeOK

\* Every step of ShouldRun after its first.
LEMMA EvaluateStep ==
  ASSUME CondInv, Evaluate, UNCHANGED <<ctx, idx>>
  PROVE  CondInv'
  <1>1. CondTypeOK /\ BlockInv /\ idx' \in Nat \ {0}
    BY DEF CondInv, CondTypeOK
  <1>2. ASSUME NEW type \in {"env", "portOpen", "fileExists"}, Simple(type)
        PROVE  /\ block # "idle" /\ pos <= Len(List) /\ probe' = "none"
               /\ UNCHANGED <<whenAll, whenAny, ctx, idx>>
    BY <1>1, <1>2 DEF Simple, BlockInv
  <1>3. ASSUME NEW ok \in BOOLEAN, Finds(ok), probe' = "none",
               block # "idle", pos <= Len(List), UNCHANGED <<whenAll, whenAny, ctx, idx>>
        PROVE  CondInv'
    BY <1>3, FindsStep DEF Finds
  <1>4. CASE NextCondition
    BY <1>4, NextConditionStep
  <1>5. CASE EnvHolds
    BY <1>2, <1>3, <1>5 DEF EnvHolds
  <1>6. CASE PortOpen
    BY <1>2, <1>3, <1>6 DEF PortOpen
  <1>7. CASE FileExists
    BY <1>2, <1>3, <1>7, ErrorStep DEF FileExists
  <1>8. CASE RunProbe
    BY <1>1, <1>8, KeepsCond DEF RunProbe
  <1>9. CASE ProbeReturns
    <2>1. probe # "none" /\ UNCHANGED <<whenAll, whenAny, block, pos, answer, truth>>
      BY <1>9 DEF ProbeReturns
    <2> QED
      BY <1>1, <2>1, KeepsCond DEF BlockInv
  <1>10. CASE ProbeJudged
    <2>1. probe # "none" /\ UNCHANGED <<whenAll, whenAny, truth>>
      BY <1>10 DEF ProbeJudged
    <2>2. CASE Answer("error") /\ probe' = "none"
      BY <2>1, <2>2, ErrorStep
    <2>3. CASE UNCHANGED <<block, pos, answer>>
      BY <1>1, <2>1, <2>3, KeepsCond DEF BlockInv
    <2> QED
      BY <1>10, <2>2, <2>3 DEF ProbeJudged
  <1>11. CASE ProbeCounts
    <2>1. /\ probe # "none" /\ probe' = "none" /\ UNCHANGED <<whenAll, whenAny>>
          /\ block # "idle" /\ pos <= Len(List)
      BY <1>1, <1>11 DEF ProbeCounts, BlockInv
    <2>2. PICK inTime \in BOOLEAN :
            /\ Learned(probe = "held" /\ inTime)
            /\ Evaluated(probe = "held" /\ inTime /\ ~ctx)
      BY <1>11 DEF ProbeCounts
    <2> DEFINE ok == probe = "held" /\ inTime
               counts == probe = "held" /\ inTime /\ ~ctx
    <2>3. ok \in BOOLEAN /\ counts \in BOOLEAN /\ (counts => ok) /\ (ok => counts \/ ctx)
      OBVIOUS
    <2>4. Learned(ok) /\ Evaluated(counts)
      BY <2>2
    <2> HIDE DEF ok, counts
    <2> QED
      BY <2>1, <2>3, <2>4, FindsStep
  <1> QED
    BY <1>4, <1>5, <1>6, <1>7, <1>8, <1>9, <1>10, <1>11 DEF Evaluate

LEMMA ShouldRunStep ==
  ASSUME CondInv, NEW a, NEW b, Len(a) \in Nat, Len(b) \in Nat,
         ShouldRun(a, b), UNCHANGED <<ctx, idx>>
  PROVE  CondInv'
  <1>1. /\ block = "idle" /\ answer = "none" /\ UNCHANGED probe
        /\ whenAll' = Flatten(a) /\ whenAny' = Flatten(b)
        /\ truth' = [all |-> << >>, any |-> << >>] /\ pos' = 1
        /\ \/ answer' = "error" /\ block' = "idle"
           \/ block' = "all" /\ answer' = "none"
    BY DEF ShouldRun
  <1>2. whenAll' \in Seq(Types) /\ whenAny' \in Seq(Types)
    BY <1>1, FlattenType
  <1>3. /\ truth' \in [all : Seq(BOOLEAN), any : Seq(BOOLEAN)]
        /\ truth'.all = << >> /\ truth'.any = << >>
    BY <1>1, EmptySeq
  <1>4. CondTypeOK'
    BY <1>1, <1>2, <1>3 DEF CondInv, CondTypeOK
  <1>5. Len(whenAll') \in Nat
    BY <1>2, LenProperties
  <1>6. Len(truth'.all) = 0 /\ AllTrue(truth'.all)
    BY <1>3 DEF AllTrue
  <1>7. probe' = "none"
    BY <1>1 DEF CondInv, BlockInv
  <1>8. BlockInv'
    BY <1>1, <1>3, <1>5, <1>6, <1>7 DEF BlockInv
  <1>9. DecisionHasReason'
    BY <1>1 DEF DecisionHasReason
  <1> QED
    BY <1>4, <1>8, <1>9 DEF CondInv

-----------------------------------------------------------------------------
(* The startup *)

LEMMA CondInit0 == StartInit => CondInv
  <1> SUFFICES ASSUME StartInit PROVE CondInv
    OBVIOUS
  <1>1. << >> \in Seq(Types) /\ << >> \in Seq(BOOLEAN)
    BY EmptySeq
  <1>2. CondTypeOK
    BY <1>1 DEF StartInit, CondInit, CondTypeOK
  <1>3. BlockInv /\ DecisionHasReason
    BY DEF StartInit, CondInit, BlockInv, DecisionHasReason
  <1> QED
    BY <1>2, <1>3 DEF CondInv

LEMMA CondStep ==
  ASSUME CfgInv, CondInv, [StartNext]_allVars
  PROVE  CondInv'
  <1>1. idx \in Nat \ {0} /\ idx + 1 \in Nat \ {0} /\ 1 \in Nat \ {0}
    BY DEF CondInv, CondTypeOK
  <1>2. ASSUME UNCHANGED condVars, ctx => ctx', idx' \in {idx, idx + 1, 1}
        PROVE  CondInv'
    <2>1. /\ UNCHANGED <<whenAll, whenAny, block, pos, truth, probe, answer>>
          /\ idx' \in Nat \ {0}
      BY <1>1, <1>2 DEF condVars
    <2> QED
      BY <1>2, <2>1, KeepsCond DEF CondInv, BlockInv
  <1>3. CASE NextProcess
    <2>1. CASE ctx \/ idx > Len(Order)
      BY <1>2, <1>3, <2>1 DEF NextProcess
    <2>2. CASE ~(ctx \/ idx > Len(Order))
      <3>1. ShouldRun(cfg.run[idx].whenAll, cfg.run[idx].whenAny) /\ UNCHANGED <<ctx, idx>>
        BY <1>3, <2>2 DEF NextProcess
      <3>2. Len(Order) = Len(cfg.run)
        BY RunFinite DEF Order, Run
      <3>3. idx \in Run
        BY <1>1, <2>2, <3>2, RunFinite DEF Run
      <3>4. /\ cfg.run[idx].whenAll \in Seq(SUBSET Keys)
            /\ cfg.run[idx].whenAny \in Seq(SUBSET Keys)
        BY <3>3, RunFinite DEF Entries
      <3>5. Len(cfg.run[idx].whenAll) \in Nat /\ Len(cfg.run[idx].whenAny) \in Nat
        BY <3>4, LenProperties
      <3> QED
        BY <3>1, <3>5, ShouldRunStep
    <2> QED
      BY <2>1, <2>2
  <1>4. CASE Evaluation
    BY <1>4, EvaluateStep DEF Evaluation, startVars
  <1>5. CASE Decided
    <2>1. /\ answer' = "none" /\ UNCHANGED <<whenAll, whenAny, block, pos, probe, truth>>
          /\ ctx => ctx'
      BY <1>5 DEF Decided
    <2>2. idx' = 1 \/ idx' = idx + 1
      BY <1>5 DEF Decided
    <2>3. idx' \in Nat \ {0}
      BY <1>1, <2>2
    <2> QED
      BY <2>1, <2>3, KeepsCond DEF CondInv, BlockInv
  <1>6. CASE Validate \/ Validated \/ Launch \/ Finish \/ Cancel \/ UNCHANGED allVars
    BY <1>2, <1>6 DEF Validate, Validated, Launch, Finish, Cancel, allVars, startVars
  <1>7. CASE GateAnswers
    BY <1>2, <1>7 DEF GateAnswers
  <1>8. CASE \E n \in Strings : Instances(n)
    BY <1>2, <1>8 DEF Instances, Begin, Settles, GivesUp
  <1> QED
    BY <1>3, <1>4, <1>5, <1>6, <1>7, <1>8 DEF StartNext, Steps

\* For any configuration with any lists of conditions, whatever each of them
\* answers and whenever the shutdown begins: a process runs, or is skipped,
\* only for the reason that ShouldRun is to have.
THEOREM DecisionsHaveReasons == StartSpec => []DecisionHasReason
  <1>1. StartSpec => []CfgInv
    BY ValidationPart, VInvariance, PTL DEF VInv
  <1>2. CondInv => DecisionHasReason
    BY DEF CondInv
  <1> QED
    BY <1>1, <1>2, CondInit0, CondStep, PTL DEF StartSpec
=============================================================================
