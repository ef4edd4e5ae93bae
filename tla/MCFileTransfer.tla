--------------------------- MODULE MCFileTransfer ---------------------------
(***************************************************************************)
(* Instances of FileTransfer for TLC: chunks of two bytes.                 *)
(***************************************************************************)
EXTENDS FileTransfer, TLC

CONSTANTS t1, t2

\* A file of two chunks, the second one short, and a file of one short chunk.
ShortTails == (t1 :> 3) @@ (t2 :> 1)

\* Files of different names.
OwnName == [t \in Id |-> t]

\* A file that is a whole number of chunks.
WholeChunks == [t \in Id |-> 4]
=============================================================================
