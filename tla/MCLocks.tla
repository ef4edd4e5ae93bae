------------------------------ MODULE MCLocks ------------------------------
(***************************************************************************)
(* An instance of Locks for TLC: every queue holds one item.               *)
(***************************************************************************)
EXTENDS Locks, TLC

One == [q \in Queue |-> 1]
=============================================================================
