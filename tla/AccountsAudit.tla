---------------------------- MODULE AccountsAudit ----------------------------
(***************************************************************************)
(* Accounts watched by an auditor, who remembers which checks were still   *)
(* on their way to a commit while something they depend on was changing.   *)
(* What the guards of admin.py promise holds until then, and only then.    *)
(***************************************************************************)
EXTENDS Accounts

VARIABLES racedGuard,    \* two demotions were past the guard at once
          racedRemoval   \* a removal and a registration of one entry overlapped

auditVars == <<vars, racedGuard, racedRemoval>>

AuditInit == Init /\ racedGuard = FALSE /\ racedRemoval = FALSE

\* A change past the guard that takes the role or the access of an account
\* away, be it a plain member's when it was looked at.
Demoting(r) ==
    /\ At(r, "patch_commit")
    /\ \/ req[r].arg.role = "MEMBER" /\ req[r].cache.role = "ADMIN"
       \/ req[r].arg.status = "DISABLED" /\ req[r].cache.status = "ACTIVE"

\* A registration past its allowlist check, or still coming to it.
Entering(r, e) ==
    /\ req[r].step \in {"reg_bootstrap", "reg_lock", "reg_recheck", "reg_allow", "reg_insert"}
    /\ req[r].email = e
Removing(r, e) == At(r, "remove_commit") /\ req[r].email = e

GuardRaces == \E r, s \in Reqs : r # s /\ Demoting(r) /\ Demoting(s)
RemovalRaces == \E r, s \in Reqs, e \in Emails : Entering(r, e) /\ Removing(s, e)

AuditNext ==
    /\ Next
    /\ racedGuard' = (racedGuard \/ GuardRaces)
    /\ racedRemoval' = (racedRemoval \/ RemovalRaces)

AuditSpec == AuditInit /\ [][AuditNext]_auditVars
FairAuditSpec == AuditSpec /\ \A r \in Reqs : WF_auditVars(AuditNext /\ Continue(r))
                                           /\ SF_auditVars(AuditNext /\ RegLock(r))

(***************************************************************************)
(* An instance with an account has an active admin (FR-U5), whatever else  *)
(* runs at the same time, as long as no two requests that take away a     *)
(* role or an access are past the guard of patch_user at once.             *)
(***************************************************************************)
AdminUnlessRaced == racedGuard \/ AlwaysAnAdmin

(***************************************************************************)
(* Whoever has an account is on the allowlist or is the bootstrap admin,   *)
(* as long as no removal of their entry overlapped their registration      *)
(* (E7-S2: only pending entries can be removed).                           *)
(***************************************************************************)
StrandedOnlyByRace == racedRemoval \/ NoStrandedAccount
==============================================================================
