------------------------ MODULE MCDocumentIngestion ------------------------
(* Three requests and two tasks over one workspace.  The contents make two  *)
(* chunks, one chunk and none.                                              *)
EXTENDS DocumentIngestion, TLC

CONSTANTS two, one, none, x, y

MCContent == {two, one, none}
MCName == {x, y}
MCChunkCount == [c \in MCContent |-> IF c = two THEN 2 ELSE IF c = one THEN 1 ELSE 0]
MCFile == {[name |-> x, content |-> two], [name |-> y, content |-> one],
           [name |-> x, content |-> none]}
MCSymmetry == Permutations(Request) \cup Permutations(Task)
=============================================================================
