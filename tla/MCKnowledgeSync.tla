--------------------------- MODULE MCKnowledgeSync ---------------------------
(* KnowledgeSync for TLC: what is parsed from the contents.                 *)
EXTENDS KnowledgeSync, TLC

CONSTANTS c1, c2, c3, x, y, p1, p2

\* c1 and c2 differ in their markup only.
MCText == [c \in Contents |-> IF c = c3 THEN y ELSE x]

OneFile == {[p \in Paths |-> IF p = p1 THEN c1 ELSE NoContent]}
=============================================================================
