---------------------------- MODULE MCLineEditor ----------------------------
(***************************************************************************)
(* An instance of LineEditor for TLC: a letter, a space and a character of *)
(* several bytes.                                                          *)
(***************************************************************************)
EXTENDS LineEditor, TLC

CONSTANTS letter, wide, WideLen

Widths == [c \in Char |-> IF c = wide THEN WideLen ELSE 1]
=============================================================================
