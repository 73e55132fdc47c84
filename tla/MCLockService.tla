--------------------------- MODULE MCLockService ---------------------------
(* LockService for two editors, two calls in flight and a TTL of two ticks. *)
EXTENDS LockService, TLC

Symmetry == Permutations(Users) \cup Permutations(Calls)
============================================================================
