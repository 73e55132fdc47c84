----------------------------- MODULE EditLease -----------------------------
(***************************************************************************)
(* What the single-editor lock of a note promises, with no clock in it: at *)
(* most one holder, whose lease may lapse at any time, and which nobody    *)
(* else can take while it is fresh.  The columns of Note behind it are     *)
(* locked_by_id, locked_at and lock_expires_at (api/app/models.py); here   *)
(* they are only who holds the lease and whether it still counts.          *)
(*                                                                         *)
(* LockService implements this specification with the real timestamps, and *)
(* NoteService takes every step on the lock through the actions below.     *)
(***************************************************************************)
CONSTANTS Users,    \* the members of the instance, the agent identity included
          None      \* the SQL NULL: nobody

ASSUME NoneAssumption == None \notin Users

VARIABLES holder,   \* locked_by_id
          fresh     \* there is a holder and lock_expires_at is not past

leaseVars == <<holder, fresh>>

LeaseTypeOK ==
    /\ holder \in Users \cup {None}
    /\ fresh \in BOOLEAN

LeaseInit ==
    /\ holder = None
    /\ fresh = FALSE

Holds(u) == holder = u /\ fresh

\* The WHERE clause of the conditional UPDATE: free, stale, or already mine.
CanTake(u) == holder = None \/ ~fresh \/ holder = u

\* The UPDATE matched.  The caller read the clock before the statement ran, so
\* a grant delayed for longer than the TTL is already stale when it lands.
Take(u) ==
    /\ CanTake(u)
    /\ holder' = u
    /\ fresh' \in BOOLEAN

\* A holder, fresh or stale, lets go; nobody can let go for someone else.
Drop(u) ==
    /\ holder = u
    /\ holder' = None
    /\ fresh' = FALSE

\* The TTL passes without a heartbeat: the row keeps its holder.
Lapse ==
    /\ fresh
    /\ fresh' = FALSE
    /\ UNCHANGED holder

LeaseNext == Lapse \/ \E u \in Users : Take(u) \/ Drop(u)

LeaseSpec == LeaseInit /\ [][LeaseNext]_leaseVars
============================================================================
