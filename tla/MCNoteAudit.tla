---------------------------- MODULE MCNoteAudit ----------------------------
(* NoteAudit on small instances.                                            *)
EXTENDS NoteAudit, TLC

Symmetry == Permutations(Reqs) \cup Permutations(Contents)
============================================================================
