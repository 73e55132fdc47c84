------------------------- MODULE LockService_proofs -------------------------
(***************************************************************************)
(* Proofs about LockService for any users, any number of concurrent calls, *)
(* any TTL and any clock bound.                                            *)
(***************************************************************************)
EXTENDS LockService, TLAPS

(***************************************************************************)
(* The inductive invariant: besides the types and the shape of the lock    *)
(* columns, the clock a call has read is never ahead of the real one.      *)
(***************************************************************************)
ClocksReadAreLate == \A c \in Calls : call[c].t <= now

IInv == TypeOK /\ LockWellFormed /\ ClocksReadAreLate

(***************************************************************************)
(* What a granted lock looks like: it belongs to the caller, starts no     *)
(* later than the clock read and ends one TTL after it.                    *)
(***************************************************************************)
LEMMA GrantedShape ==
  ASSUME IInv, NEW u \in Users, NEW t \in Time, t <= now
  PROVE  /\ Granted(u, t) \in [by : Users \cup {None}, at : Nat \cup {None},
                               exp : Nat \cup {None}]
         /\ Granted(u, t).by = u
         /\ Granted(u, t).at \in Nat /\ Granted(u, t).at <= now
         /\ Granted(u, t).exp = t + TTL
<1>1. t \in Nat /\ now \in Nat /\ TTL \in Nat
  BY TimeAssumption DEF IInv, TypeOK, Time
<1>2. CASE Renewing(u, t)
  <2>1. lock.by # None
    BY <1>2, NoneAssumption DEF Renewing
  <2>2. lock.at \in Nat /\ lock.at <= now
    BY <2>1 DEF IInv, LockWellFormed
  <2>3. QED
    BY <1>1, <1>2, <2>2 DEF Granted
<1>3. CASE ~Renewing(u, t)
  BY <1>1, <1>3 DEF Granted
<1>4. QED
  BY <1>2, <1>3

LEMMA Inductive == Spec => []IInv
<1>1. Init => IInv
  BY TimeAssumption, NoneAssumption
  DEF Init, IInv, TypeOK, LockWellFormed, ClocksReadAreLate, Time, NullLock, Idle
<1>2. IInv /\ [Next]_vars => IInv'
  <2> SUFFICES ASSUME IInv, [Next]_vars PROVE IInv'
    OBVIOUS
  <2> USE DEF IInv
  <2>1. CASE Tick
    BY <2>1, TimeAssumption DEF Tick, TypeOK, LockWellFormed, ClocksReadAreLate, Time
  <2>2. ASSUME NEW u \in Users, Release(u) PROVE IInv'
    BY <2>2 DEF Release, TypeOK, LockWellFormed, ClocksReadAreLate, NullLock
  <2>3. ASSUME NEW c \in Calls, NEW u \in Users, ReadClock(c, u) PROVE IInv'
    BY <2>3 DEF ReadClock, TypeOK, LockWellFormed, ClocksReadAreLate, Time
  <2>4. ASSUME NEW c \in Calls, Acquire(c) PROVE IInv'
    <3> DEFINE u == call[c].user
               t == call[c].t
    <3>1. u \in Users /\ t \in Time /\ t <= now /\ UNCHANGED now
      BY <2>4 DEF Acquire, TypeOK, ClocksReadAreLate
    <3>2. call' = [call EXCEPT ![c] = Idle] /\ 0 \in Time
      BY <2>4, TimeAssumption DEF Acquire, Time
    <3>3. TypeOK' /\ LockWellFormed'
      <4>1. CASE Grantable(u, t)
        <5>1. lock' = Granted(u, t)
          BY <2>4, <4>1 DEF Acquire
        <5>2. lock'.exp \in Nat /\ lock'.exp <= now + TTL /\ lock'.by # None
          BY <3>1, <5>1, GrantedShape, TimeAssumption, NoneAssumption DEF TypeOK, Time
        <5>3. LockWellFormed'
          BY <3>1, <5>1, <5>2, GrantedShape DEF LockWellFormed
        <5>4. TypeOK'
          BY <3>1, <3>2, <5>1, GrantedShape DEF TypeOK, Idle
        <5>5. QED
          BY <5>3, <5>4
      <4>2. CASE ~Grantable(u, t)
        BY <2>4, <3>1, <3>2, <4>2 DEF Acquire, TypeOK, LockWellFormed, Idle
      <4>3. QED
        BY <4>1, <4>2
    <3>4. ClocksReadAreLate'
      BY <3>1, <3>2 DEF ClocksReadAreLate, TypeOK, Idle, Time
    <3>5. QED
      BY <3>3, <3>4
  <2>5. CASE UNCHANGED vars
    BY <2>5 DEF vars, TypeOK, LockWellFormed, ClocksReadAreLate
  <2>6. QED
    BY <2>1, <2>2, <2>3, <2>4, <2>5 DEF Next
<1>3. QED
  BY <1>1, <1>2, PTL DEF Spec

(***************************************************************************)
(* The lock columns keep their types, are NULL together or set together,   *)
(* and a lock ends at most one TTL after the present.                      *)
(***************************************************************************)
THEOREM LockSafety == Spec => [](TypeOK /\ LockWellFormed)
<1>1. IInv => TypeOK /\ LockWellFormed
  BY DEF IInv
<1>2. QED
  BY <1>1, Inductive, PTL

(***************************************************************************)
(* A call that compares with a late clock finds a lock stale only if it is *)
(* stale by the real clock: this is why the delay between reading the      *)
(* clock and running the UPDATE is harmless to the holder.                 *)
(***************************************************************************)
LEMMA LateClockIsSafe ==
  ASSUME IInv, NEW u \in Users, HoldsValidLock(u, now), NEW c \in Calls, Acquire(c)
  PROVE  \/ lock' = lock
         \/ /\ call[c].user = u
            /\ lock'.by = u
            /\ lock'.at = lock.at
<1> DEFINE v == call[c].user
           t == call[c].t
<1>1. /\ v \in Users
      /\ t \in Nat /\ now \in Nat /\ t <= now
  BY TimeAssumption DEF Acquire, IInv, TypeOK, ClocksReadAreLate, Time
<1>2. /\ lock.by = u /\ lock.by # None
      /\ lock.exp \in Nat /\ lock.exp >= now
  BY <1>1, NoneAssumption DEF HoldsValidLock, IsStale, IInv, LockWellFormed
<1>3. lock.exp # None /\ lock.exp >= t /\ ~(lock.exp < t)
  BY <1>1, <1>2, NoneAssumption
<1>4. CASE v = u
  <2>1. lock' = Granted(u, t)
    BY <1>2, <1>4 DEF Acquire, Grantable
  <2>2. Renewing(u, t)
    BY <1>2, <1>3 DEF Renewing
  <2>3. QED
    BY <1>4, <2>1, <2>2 DEF Granted
<1>5. CASE v # u
  <2>1. ~Grantable(v, t)
    BY <1>2, <1>3, <1>5 DEF Grantable
  <2>2. QED
    BY <2>1 DEF Acquire
<1>6. QED
  BY <1>4, <1>5

(***************************************************************************)
(* A fresh lock is never taken over by another user, whatever the number   *)
(* of concurrent calls and however late the clocks they read.              *)
(***************************************************************************)
THEOREM NoTakeover == Spec => FreshNeverTakenOver
<1>1. ASSUME IInv, [Next]_vars, NEW u \in Users, HoldsValidLock(u, now)
      PROVE  lock'.by \in {u, None}
  <2>1. lock.by = u
    BY <1>1 DEF HoldsValidLock
  <2>2. ASSUME NEW c \in Calls, Acquire(c) PROVE lock'.by \in {u, None}
    <3>1. lock' = lock \/ lock'.by = u
      BY <1>1, <2>2, LateClockIsSafe
    <3>2. QED
      BY <2>1, <3>1
  <2>3. CASE \E v \in Users : Release(v)
    BY <2>3 DEF Release, NullLock
  <2>4. CASE UNCHANGED lock
    BY <2>1, <2>4
  <2>5. QED
    BY <1>1, <2>2, <2>3, <2>4 DEF Next, Tick, ReadClock, vars
<1>2. IInv /\ [Next]_vars
        => [\A u \in Users : HoldsValidLock(u, now) => lock'.by \in {u, None}]_vars
  BY <1>1
<1>3. QED
  BY <1>2, Inductive, PTL DEF Spec, FreshNeverTakenOver

(***************************************************************************)
(* A heartbeat on a fresh lock keeps the start of the editing session.     *)
(***************************************************************************)
THEOREM SessionStartKept == Spec => RenewalKeepsSessionStart
<1>1. ASSUME IInv, [Next]_vars, NEW u \in Users, HoldsValidLock(u, now), lock'.by = u
      PROVE  lock'.at = lock.at
  <2>1. CASE \E c \in Calls : Acquire(c)
    BY <1>1, <2>1, LateClockIsSafe
  <2>2. CASE \E v \in Users : Release(v)
    BY <1>1, <2>2, NoneAssumption DEF Release, NullLock
  <2>3. CASE UNCHANGED lock
    BY <2>3
  <2>4. QED
    BY <1>1, <2>1, <2>2, <2>3 DEF Next, Tick, ReadClock, vars
<1>2. IInv /\ [Next]_vars
        => [\A u \in Users :
              HoldsValidLock(u, now) /\ lock'.by = u => lock'.at = lock.at]_vars
  BY <1>1
<1>3. QED
  BY <1>2, Inductive, PTL DEF Spec, RenewalKeepsSessionStart

(***************************************************************************)
(* The sessions of two holders never overlap.                              *)
(***************************************************************************)
THEOREM Disjoint == Spec => SessionsDisjoint
<1>1. ASSUME IInv, [Next]_vars, lock.by # None, lock'.by \notin {None, lock.by}
      PROVE  lock'.at > lock.exp
  <2>1. ASSUME NEW c \in Calls, Acquire(c) PROVE lock'.at > lock.exp
    <3> DEFINE u == call[c].user
               t == call[c].t
    <3>1. Grantable(u, t) /\ lock' = Granted(u, t) /\ lock'.by = u
      BY <1>1, <2>1 DEF Acquire, Granted
    <3>2. u # lock.by /\ lock.exp < t
      BY <1>1, <3>1 DEF Grantable
    <3>3. lock'.at = t
      BY <3>1, <3>2 DEF Granted, Renewing
    <3>4. t \in Nat /\ lock.exp \in Nat
      BY <1>1, TimeAssumption DEF IInv, TypeOK, LockWellFormed, Time
    <3>5. QED
      BY <3>2, <3>3, <3>4
  <2>2. CASE \E v \in Users : Release(v)
    BY <1>1, <2>2 DEF Release, NullLock
  <2>3. CASE UNCHANGED lock
    BY <1>1, <2>3
  <2>4. QED
    BY <1>1, <2>1, <2>2, <2>3 DEF Next, Tick, ReadClock, vars
<1>2. IInv /\ [Next]_vars
        => [lock.by # None /\ lock'.by \notin {None, lock.by}
              => lock'.at > lock.exp]_vars
  BY <1>1
<1>3. QED
  BY <1>2, Inductive, PTL DEF Spec, SessionsDisjoint

(***************************************************************************)
(* The lock service implements the abstract lease.                         *)
(***************************************************************************)
THEOREM Refinement == Spec => ImplementsLease
<1> DEFINE isFresh == lock.by # None /\ ~IsStale(now)
<1>1. Init => Lease!LeaseInit
  BY DEF Init, NullLock, Lease!LeaseInit
<1>2. IInv /\ [Next]_vars => [Lease!LeaseNext]_(Lease!leaseVars)
  <2> SUFFICES ASSUME IInv, [Next]_vars
               PROVE  Lease!LeaseNext \/ UNCHANGED <<lock.by, isFresh>>
    BY DEF Lease!leaseVars
  <2>1. CASE Tick
    <3>1. lock' = lock /\ (isFresh' => isFresh)
      BY <2>1, TimeAssumption
      DEF Tick, IsStale, IInv, TypeOK, LockWellFormed, Time
    <3>2. QED
      BY <3>1 DEF Lease!LeaseNext, Lease!Lapse
  <2>2. ASSUME NEW u \in Users, Release(u) PROVE Lease!Drop(u)
    BY <2>2 DEF Release, NullLock, Lease!Drop
  <2>3. ASSUME NEW c \in Calls, Acquire(c), lock' # lock
        PROVE  \E u \in Users : Lease!Take(u)
    <3> DEFINE v == call[c].user
               t == call[c].t
    <3>1. v \in Users /\ t \in Nat /\ now \in Nat /\ t <= now
      BY <2>3, TimeAssumption DEF Acquire, IInv, TypeOK, ClocksReadAreLate, Time
    <3>2. Grantable(v, t) /\ lock'.by = v
      BY <2>3 DEF Acquire, Granted
    <3>3. lock.by # None => lock.exp \in Nat
      BY DEF IInv, LockWellFormed
    <3>4. lock.by = None \/ ~isFresh \/ lock.by = v
      BY <3>1, <3>2, <3>3 DEF Grantable, IsStale
    <3>5. isFresh' \in BOOLEAN
      OBVIOUS
    <3>6. Lease!Take(v)
      BY <3>2, <3>4, <3>5 DEF Lease!Take, Lease!CanTake
    <3>7. QED
      BY <3>1, <3>6
  <2>4. CASE UNCHANGED <<lock, now>>
    BY <2>4 DEF IsStale
  <2>5. QED
    BY <2>1, <2>2, <2>3, <2>4
    DEF Next, ReadClock, Acquire, vars, Lease!LeaseNext
<1>3. QED
  BY <1>1, <1>2, Inductive, PTL DEF Spec, ImplementsLease, Lease!LeaseSpec
============================================================================
