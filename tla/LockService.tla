---------------------------- MODULE LockService ----------------------------
(***************************************************************************)
(* The lock service of one note (api/app/services/locks.py), with its      *)
(* timestamps.  A call reads the clock in Python and its conditional       *)
(* UPDATE runs later: the thread may be descheduled or wait for the row in *)
(* between, so the clock it compares with can be behind the real one by    *)
(* any amount.  Every UPDATE is atomic on the row, and its WHERE clause is *)
(* evaluated on the row as it is then.                                     *)
(***************************************************************************)
EXTENDS Integers

CONSTANTS Users,      \* who may call
          None,       \* SQL NULL
          Calls,      \* requests the threadpool can run at the same time
          TTL,        \* LOCK_TTL_SECONDS
          MaxTime     \* bound on the clock

ASSUME NoneAssumption == None \notin Users \cup Nat
ASSUME TimeAssumption == TTL \in Nat \ {0} /\ MaxTime \in Nat

VARIABLES now,        \* the server clock
          lock,       \* the three lock columns of the note's row
          call        \* what each running acquire() has read so far

vars == <<now, lock, call>>

Time == 0..MaxTime
NullLock == [by |-> None, at |-> None, exp |-> None]
Idle == [user |-> None, t |-> 0]

TypeOK ==
    /\ now \in Time
    /\ lock \in [by : Users \cup {None}, at : Nat \cup {None}, exp : Nat \cup {None}]
    /\ call \in [Calls -> [user : Users \cup {None}, t : Time]]

Init ==
    /\ now = 0
    /\ lock = NullLock
    /\ call = [c \in Calls |-> Idle]

----------------------------------------------------------------------------
\* A lock past its TTL no longer counts; one that expires right now still does.
IsStale(t) == lock.exp = None \/ lock.exp < t

HoldsValidLock(u, t) == lock.by = u /\ ~IsStale(t)

\* Mutants: a lock that expires right now is free; the wrong column is compared.
GrantableAtExpiry(u, t) ==
    lock.by = None \/ (lock.exp # None /\ lock.exp <= t) \/ lock.by = u
GrantableByAge(u, t) ==
    lock.by = None \/ (lock.at # None /\ lock.at < t) \/ lock.by = u

\* The WHERE clause of acquire(); a comparison with NULL is never true.
Grantable(u, t) ==
    \/ lock.by = None
    \/ lock.exp # None /\ lock.exp < t
    \/ lock.by = u

\* Mutant: whoever takes the lock inherits its start.
RenewingAnyHolder(u, t) == lock.at # None

\* A renewal, which keeps the start of the editing session.
Renewing(u, t) == lock.by = u /\ lock.exp # None /\ lock.exp >= t

Granted(u, t) ==
    [by |-> u, at |-> IF Renewing(u, t) THEN lock.at ELSE t, exp |-> t + TTL]

\* acquire(), first half: now = _utcnow().
ReadClock(c, u) ==
    /\ call[c] = Idle
    /\ call' = [call EXCEPT ![c] = [user |-> u, t |-> now]]
    /\ UNCHANGED <<now, lock>>

\* acquire(), second half: the conditional UPDATE and its commit; no row
\* matched means the caller lost.
Acquire(c) ==
    LET u == call[c].user
        t == call[c].t
    IN /\ u # None
       /\ lock' = IF Grantable(u, t) THEN Granted(u, t) ELSE lock
       /\ call' = [call EXCEPT ![c] = Idle]
       /\ UNCHANGED now

\* release() by a user whose row matches; by anyone else it changes nothing.
Release(u) ==
    /\ lock.by = u
    /\ lock' = NullLock
    /\ UNCHANGED <<now, call>>

Tick ==
    /\ now < MaxTime
    /\ now' = now + 1
    /\ UNCHANGED <<lock, call>>

Next ==
    \/ Tick
    \/ \E u \in Users : Release(u)
    \/ \E c \in Calls : Acquire(c) \/ \E u \in Users : ReadClock(c, u)

Spec == Init /\ [][Next]_vars

----------------------------------------------------------------------------
(***************************************************************************)
(* The lock columns are NULL together or set together, and a lock never    *)
(* outlives the moment it was last granted by more than the TTL, so that a *)
(* holder that died blocks the note for at most the TTL (the comment above *)
(* the columns in models.py, and locks.py on expiration).                  *)
(***************************************************************************)
LockWellFormed ==
    IF lock.by = None
    THEN lock = NullLock
    ELSE /\ lock.at \in Nat /\ lock.at <= now
         /\ lock.exp \in Nat /\ lock.exp <= now + TTL

(***************************************************************************)
(* A lock that is fresh by the real clock is never taken over: the next    *)
(* holder is the same user or nobody, however stale the clock a concurrent *)
(* acquire() compares with.                                                *)
(***************************************************************************)
FreshNeverTakenOver ==
    [][\A u \in Users : HoldsValidLock(u, now) => lock'.by \in {u, None}]_vars

(***************************************************************************)
(* A heartbeat on a fresh lock keeps locked_at, the start of the editing   *)
(* session, even when the clock it read is late.                           *)
(***************************************************************************)
RenewalKeepsSessionStart ==
    [][\A u \in Users :
         HoldsValidLock(u, now) /\ lock'.by = u => lock'.at = lock.at]_vars

(***************************************************************************)
(* Sessions of two holders do not overlap: one that takes over from        *)
(* another begins strictly after the lease it replaces had ended.          *)
(***************************************************************************)
SessionsDisjoint ==
    [][lock.by # None /\ lock'.by \notin {None, lock.by} => lock'.at > lock.exp]_vars

\* The lease this service implements, read off the columns and the clock.
Lease == INSTANCE EditLease WITH
           holder <- lock.by,
           fresh  <- lock.by # None /\ ~IsStale(now)

(***************************************************************************)
(* The service implements the abstract lease.                              *)
(***************************************************************************)
ImplementsLease == Lease!LeaseSpec
============================================================================
