---------------------------- MODULE MCManagement ----------------------------
(***************************************************************************)
(* An instance of Management for TLC: three gonners follow each other on   *)
(* one path, two connections and one slot; two instances, of one name or   *)
(* of two.                                                                 *)
(***************************************************************************)
EXTENDS Management, TLC

CONSTANTS i1, i2

MCProcesses == <<i1, i2>>
MCNamings == {(i1 :> "a") @@ (i2 :> x) : x \in {"a", "b"}}

MCSymmetry == Permutations(Gonners) \cup Permutations(Conns)
=============================================================================
