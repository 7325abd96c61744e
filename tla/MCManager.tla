----------------------------- MODULE MCManager -----------------------------
(***************************************************************************)
(* Instances of Manager for TLC: two names, of which the first has two     *)
(* instances and the second depends on it.                                 *)
(***************************************************************************)
EXTENDS Manager, TLC

CONSTANTS a, b, a0, a1, b0

MCOrder == <<a, b>>
MCInstances == (a :> {a0, a1}) @@ (b :> {b0})
MCDepends == {(a :> <<>>) @@ (b :> <<a>>)}
MCCritical == {{b}}
=============================================================================
