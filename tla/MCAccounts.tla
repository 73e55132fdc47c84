----------------------------- MODULE MCAccounts -----------------------------
(* AccountsAudit for a few people registering and administering             *)
(* concurrently.                                                            *)
EXTENDS AccountsAudit, TLC

\* Sound where every slot is mortal or none is, and no liveness is checked.
Symmetry == Permutations(Emails) \cup Permutations(Reqs)
============================================================================
