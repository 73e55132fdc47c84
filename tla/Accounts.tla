------------------------------ MODULE Accounts ------------------------------
(***************************************************************************)
(* Who may enter an instance, and who administers it: registration with    *)
(* its bootstrap admin (api/app/routers/auth.py), the allowlist and the    *)
(* roles and statuses admins set (api/app/routers/admin.py).               *)
(*                                                                         *)
(* As in NoteService a request is a sequence of statements at READ         *)
(* COMMITTED.  A request that is turned away before it changes anything is *)
(* left out, except by register, whose refusal gives back the advisory     *)
(* lock.  An account is its email: the unique index on user.email.         *)
(***************************************************************************)
EXTENDS FiniteSets, Naturals

CONSTANTS Emails,   \* the people who may turn up, by normalised email
          Reqs,     \* request slots of the threadpool
          Mortal,   \* those whose process may die half way
          None      \* no account, nobody

ASSUME EmailAssumption ==
    IsFiniteSet(Emails) /\ None \notin Emails \cup Reqs \cup {"MEMBER", "ADMIN"}
ASSUME MortalAssumption == Mortal \subseteq Reqs

VARIABLES users,         \* the user table
          allow,         \* the allowlist table
          advisory,      \* the request that has the advisory lock
          req,           \* the running requests
          bootstrapped   \* history variable: accounts created as bootstrap admin

vars == <<users, allow, advisory, req, bootstrapped>>

Account == [role : {"MEMBER", "ADMIN"}, status : {"ACTIVE", "DISABLED"}]
Admin == [role |-> "ADMIN", status |-> "ACTIVE"]
Member == [role |-> "MEMBER", status |-> "ACTIVE"]
NoAccount == [role |-> None, status |-> None]

Steps == {"idle", "reg_bootstrap", "reg_lock", "reg_recheck", "reg_allow",
          "reg_insert", "add_commit", "remove_commit", "patch_commit"}

\* cache: the account as read; arg: the account as it is to be.
Request == [step : Steps, email : Emails \cup {None},
            cache : Account \cup {NoAccount}, arg : Account \cup {NoAccount}]
Free == [step |-> "idle", email |-> None, cache |-> NoAccount, arg |-> NoAccount]

TypeOK ==
    /\ users \in [Emails -> Account \cup {NoAccount}]
    /\ allow \in SUBSET Emails
    /\ advisory \in Reqs \cup {None}
    /\ req \in [Reqs -> Request]
    /\ bootstrapped \in SUBSET Emails

Init ==
    /\ users = [e \in Emails |-> NoAccount]
    /\ allow = {}
    /\ advisory = None
    /\ req = [r \in Reqs |-> Free]
    /\ bootstrapped = {}

----------------------------------------------------------------------------
Registered(e) == users[e] # NoAccount
NoUserYet == \A e \in Emails : ~Registered(e)

ActiveAdmins == {e \in Emails : users[e] = Admin}
ActiveAdminCount == Cardinality(ActiveAdmins)

At(r, step) == req[r].step = step
Begin(r, step, e, cache, arg) ==
    /\ At(r, "idle")
    /\ req' = [req EXCEPT ![r] = [step |-> step, email |-> e, cache |-> cache, arg |-> arg]]
Goto(r, step) == req' = [req EXCEPT ![r].step = step]
Finish(r) == req' = [req EXCEPT ![r] = Free]

\* Mutant: a lock of the session, which outlives the transaction.
StillLocked(r) == advisory

\* The transaction ends, and with it the advisory lock it may hold.
Unlocked(r) == IF advisory = r THEN None ELSE advisory

----------------------------------------------------------------------------
\* register: the duplicate check.
Register(r, e) ==
    /\ ~Registered(e)
    /\ Begin(r, "reg_bootstrap", e, NoAccount, NoAccount)
    /\ UNCHANGED <<users, allow, advisory, bootstrapped>>

\* Is the table empty?  A first guess, outside the advisory lock.
RegBootstrap(r) ==
    /\ At(r, "reg_bootstrap")
    /\ Goto(r, IF NoUserYet THEN "reg_lock" ELSE "reg_allow")
    /\ UNCHANGED <<users, allow, advisory, bootstrapped>>

\* pg_advisory_xact_lock, held until the transaction ends.
RegLock(r) ==
    /\ At(r, "reg_lock")
    /\ advisory = None
    /\ advisory' = r
    /\ Goto(r, "reg_recheck")
    /\ UNCHANGED <<users, allow, bootstrapped>>

\* Mutant: the first look at the table is trusted.
RegRecheckTrusting(r) ==
    /\ At(r, "reg_recheck")
    /\ req' = [req EXCEPT ![r].step = "reg_insert", ![r].arg = Admin]
    /\ UNCHANGED <<users, allow, advisory, bootstrapped>>

RegRecheck(r) ==
    /\ At(r, "reg_recheck")
    /\ req' = [req EXCEPT ![r].step = IF NoUserYet THEN "reg_insert" ELSE "reg_allow",
                          ![r].arg = IF NoUserYet THEN Admin ELSE NoAccount]
    /\ UNCHANGED <<users, allow, advisory, bootstrapped>>

\* Mutant: the new member gets no status.
RegAllowNoStatus(r) ==
    /\ At(r, "reg_allow")
    /\ IF req[r].email \in allow
       THEN /\ req' = [req EXCEPT ![r].step = "reg_insert", ![r].arg = [Member EXCEPT !.status = None]]
            /\ UNCHANGED advisory
       ELSE /\ Finish(r)
            /\ advisory' = Unlocked(r)
    /\ UNCHANGED <<users, allow, bootstrapped>>

RegAllow(r) ==
    /\ At(r, "reg_allow")
    /\ IF req[r].email \in allow
       THEN /\ req' = [req EXCEPT ![r].step = "reg_insert", ![r].arg = Member]
            /\ UNCHANGED advisory
       ELSE /\ Finish(r)
            /\ advisory' = Unlocked(r)
    /\ UNCHANGED <<users, allow, bootstrapped>>

\* The unique index on the email is the real gate against a duplicate.
RegInsert(r) ==
    LET e == req[r].email
    IN /\ At(r, "reg_insert")
       /\ IF Registered(e)
          THEN UNCHANGED <<users, bootstrapped>>
          ELSE /\ users' = [users EXCEPT ![e] = req[r].arg]
               /\ bootstrapped' = IF req[r].arg = Admin THEN bootstrapped \cup {e}
                                  ELSE bootstrapped
       /\ advisory' = Unlocked(r)
       /\ Finish(r)
       /\ UNCHANGED allow

----------------------------------------------------------------------------
\* Every admin operation starts with a caller who is an active admin then.
AddEntry(r, e) ==
    /\ ActiveAdmins # {}
    /\ ~Registered(e) /\ e \notin allow
    /\ Begin(r, "add_commit", e, NoAccount, NoAccount)
    /\ UNCHANGED <<users, allow, advisory, bootstrapped>>

AddCommit(r) ==
    /\ At(r, "add_commit")
    /\ allow' = allow \cup {req[r].email}
    /\ Finish(r)
    /\ UNCHANGED <<users, advisory, bootstrapped>>

\* Mutant: registered entries can be removed too.
RemoveAnyEntry(r, e) ==
    /\ ActiveAdmins # {}
    /\ e \in allow
    /\ Begin(r, "remove_commit", e, NoAccount, NoAccount)
    /\ UNCHANGED <<users, allow, advisory, bootstrapped>>

\* Pending entries only, as far as this request can see.
RemoveEntry(r, e) ==
    /\ ActiveAdmins # {}
    /\ e \in allow /\ ~Registered(e)
    /\ Begin(r, "remove_commit", e, NoAccount, NoAccount)
    /\ UNCHANGED <<users, allow, advisory, bootstrapped>>

RemoveCommit(r) ==
    /\ At(r, "remove_commit")
    /\ allow' = allow \ {req[r].email}
    /\ Finish(r)
    /\ UNCHANGED <<users, advisory, bootstrapped>>

\* Mutant: the guard counts the account that is being demoted.
PatchUserCountingItself(r, e, new) ==
    /\ ActiveAdmins # {}
    /\ Registered(e)
    /\ users[e] = Admin /\ new # Admin => ActiveAdminCount >= 1
    /\ Begin(r, "patch_commit", e, users[e], new)
    /\ UNCHANGED <<users, allow, advisory, bootstrapped>>

\* patch_user: the last-admin guard counts the active admins ...  A body that
\* repeats a value as read stands for one that leaves the field out.
PatchUser(r, e, new) ==
    /\ ActiveAdmins # {}
    /\ Registered(e)
    /\ users[e] = Admin /\ new # Admin => ActiveAdminCount > 1
    /\ Begin(r, "patch_commit", e, users[e], new)
    /\ UNCHANGED <<users, allow, advisory, bootstrapped>>

\* ... and the UPDATE writes the columns that differ from what was read.
PatchCommit(r) ==
    LET e == req[r].email
        Write(column) == IF req[r].arg[column] = req[r].cache[column]
                         THEN users[e][column] ELSE req[r].arg[column]
    IN /\ At(r, "patch_commit")
       /\ users' = [users EXCEPT ![e] = [role   |-> Write("role"),
                                         status |-> Write("status")]]
       /\ Finish(r)
       /\ UNCHANGED <<allow, advisory, bootstrapped>>

----------------------------------------------------------------------------
\* The process dies: the database ends its transaction.
Crash(r) ==
    /\ r \in Mortal
    /\ ~At(r, "idle")
    /\ Finish(r)
    /\ advisory' = Unlocked(r)
    /\ UNCHANGED <<users, allow, bootstrapped>>

Start(r) ==
    \E e \in Emails :
      \/ Register(r, e) \/ AddEntry(r, e) \/ RemoveEntry(r, e)
      \/ \E new \in Account : PatchUser(r, e, new)

Continue(r) ==
    \/ RegBootstrap(r) \/ RegLock(r) \/ RegRecheck(r) \/ RegAllow(r) \/ RegInsert(r)
    \/ AddCommit(r) \/ RemoveCommit(r) \/ PatchCommit(r)

Next == \E r \in Reqs : Start(r) \/ Continue(r) \/ Crash(r)

Spec == Init /\ [][Next]_vars

\* A started request is scheduled, and PostgreSQL serves the waiters of an
\* advisory lock in turn.  Nothing says that a request ever starts.
Fairness == \A r \in Reqs : WF_vars(Continue(r)) /\ SF_vars(RegLock(r))

FairSpec == Spec /\ Fairness

----------------------------------------------------------------------------
(***************************************************************************)
(* However many first registrations race, one account at most is created   *)
(* as the bootstrap admin, past the allowlist (FR-A1; the advisory lock    *)
(* and the second look at the table in register).                          *)
(***************************************************************************)
OneBootstrapAdmin == Cardinality(bootstrapped) <= 1

(***************************************************************************)
(* One admin request at a time, an instance with an account always has an  *)
(* active admin (FR-U5, the last-admin guard).                             *)
(***************************************************************************)
AlwaysAnAdmin == NoUserYet \/ ActiveAdmins # {}

(***************************************************************************)
(* Only the bootstrap admin has an account without ever having been on the *)
(* allowlist; one request at a time the entry also is still there, since   *)
(* only pending entries can be removed (E7-S2).                            *)
(***************************************************************************)
NoStrandedAccount == \A e \in Emails : Registered(e) => e \in allow \cup bootstrapped

(***************************************************************************)
(* A registration that queues for the advisory lock gets its turn, even if *)
(* the requests ahead of it are refused, fail or die.                      *)
(***************************************************************************)
BootstrapQueueMoves ==
    \A r \in Reqs : At(r, "reg_lock") ~> ~At(r, "reg_lock")
============================================================================
