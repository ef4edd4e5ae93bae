----------------------------- MODULE MCSessions -----------------------------
(***************************************************************************)
(* Instances of Sessions for TLC.                                          *)
(***************************************************************************)
EXTENDS Sessions, TLC

CONSTANTS n1, n2

\* Every node hears every broadcast, its own included.
HearsAll == Node \X Node

\* The same, for one direction only: n1 hears n2 and n2 does not hear n1.
HearsOneWay == {<<n1, n2>>, <<n1, n1>>, <<n2, n2>>}

ConnSymmetry == Permutations(Conn)
=============================================================================
