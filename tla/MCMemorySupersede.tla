------------------------- MODULE MCMemorySupersede --------------------------
(* Two tasks at a time, two memories of one slot. *)
EXTENDS MemorySupersede

CONSTANTS d1, d2

MCInitial == {d1}
=============================================================================
