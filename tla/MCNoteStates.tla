--------------------------- MODULE MCNoteStates ---------------------------
(* NoteStates on small instances.                                          *)
EXTENDS NoteStates, TLC

Symmetry == Permutations(Reqs) \cup Permutations(Contents)
===========================================================================
