--------------------------- MODULE MCNoteService ---------------------------
(* NoteService on small instances: one owner, another member, an agent.     *)
EXTENDS NoteService, TLC

\* Sound where every slot is mortal or none is, and likewise for failing.
Symmetry == Permutations(Reqs) \cup Permutations(Contents)
============================================================================
