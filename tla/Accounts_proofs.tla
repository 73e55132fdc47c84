--------------------------- MODULE Accounts_proofs ---------------------------
(***************************************************************************)
(* Proofs about Accounts and AccountsAudit for any people, any number of   *)
(* concurrent requests and any of them dying at any step.                  *)
(***************************************************************************)
EXTENDS AccountsAudit, FiniteSetTheorems, TLAPS

----------------------------------------------------------------------------
(***************************************************************************)
(* The inductive invariant.  Nothing but a bootstrap insert can fill an    *)
(* empty user table, because every other way in needs an account first;    *)
(* and whoever is about to do one still has the advisory lock.             *)
(***************************************************************************)
\* An allowlist entry, or a request on its way to one, supposes an account.
SomebodyInvited ==
    /\ allow # {} => ~NoUserYet
    /\ \A r \in Reqs : At(r, "add_commit") => ~NoUserYet

\* What a request that is about to insert an account has found.
InsertsJustified ==
    \A r \in Reqs : At(r, "reg_insert") =>
      \/ req[r].arg = Member /\ ~NoUserYet
      \/ req[r].arg = Admin /\ advisory = r /\ NoUserYet

\* The second look at the table happens under the lock.
RechecksLocked == \A r \in Reqs : At(r, "reg_recheck") => advisory = r

\* What requests carry with them.
Carried ==
    \A r \in Reqs :
      /\ ~At(r, "idle") => req[r].email \in Emails
      /\ At(r, "patch_commit") =>
           /\ Registered(req[r].email)
           /\ req[r].cache \in Account /\ req[r].arg \in Account

AtMostOne ==
    /\ bootstrapped # {} => ~NoUserYet
    /\ \A d, e \in bootstrapped : d = e

IInv == TypeOK /\ SomebodyInvited /\ InsertsJustified /\ RechecksLocked
          /\ Carried /\ AtMostOne

LEMMA Distinct ==
  /\ Admin \in Account /\ Member \in Account /\ Admin # Member
  /\ NoAccount \notin Account
BY EmailAssumption DEF Admin, Member, Account, NoAccount

(***************************************************************************)
(* patch_user turns an account into an account, and touches no other.      *)
(***************************************************************************)
LEMMA PatchShape ==
  ASSUME IInv, NEW r \in Reqs, PatchCommit(r)
  PROVE  /\ req[r].email \in Emails
         /\ \E a \in Account : users' = [users EXCEPT ![req[r].email] = a]
<1> DEFINE e == req[r].email
           Write(column) == IF req[r].arg[column] = req[r].cache[column]
                            THEN users[e][column] ELSE req[r].arg[column]
           a == [role |-> Write("role"), status |-> Write("status")]
<1>1. At(r, "patch_commit") /\ e \in Emails
  BY DEF PatchCommit, IInv, Carried, At
<1>2. users[e] \in Account /\ req[r].arg \in Account
  BY <1>1 DEF IInv, Carried, TypeOK, Registered
<1>3. a \in Account
  BY <1>2 DEF Account
<1>4. users' = [users EXCEPT ![e] = a]
  BY DEF PatchCommit
<1>5. QED
  BY <1>1, <1>3, <1>4

(***************************************************************************)
(* The user table changes in two ways only: a registration adds one        *)
(* account, or patch_user replaces one.  Either way accounts stay.         *)
(***************************************************************************)
LEMMA UsersStep ==
  ASSUME IInv, [Next]_vars
  PROVE  /\ users' \in [Emails -> Account \cup {NoAccount}]
         /\ \A e \in Emails : Registered(e) => Registered(e)'
         /\ users' # users =>
              \/ NoUserYet' = NoUserYet
              \/ \E r \in Reqs : RegInsert(r) /\ ~Registered(req[r].email)
<1>1. ASSUME NEW r \in Reqs, RegInsert(r), users' # users
      PROVE  /\ req[r].email \in Emails /\ ~Registered(req[r].email)
             /\ \E a \in Account : users' = [users EXCEPT ![req[r].email] = a]
  BY <1>1, Distinct DEF RegInsert, IInv, InsertsJustified, Carried, At
<1>2. ASSUME NEW r \in Reqs, PatchCommit(r)
      PROVE  /\ req[r].email \in Emails /\ Registered(req[r].email)
             /\ \E a \in Account : users' = [users EXCEPT ![req[r].email] = a]
  BY <1>2, PatchShape DEF PatchCommit, IInv, Carried
<1>3. ASSUME NEW e \in Emails, NEW a \in Account, users' = [users EXCEPT ![e] = a]
      PROVE  /\ users' \in [Emails -> Account \cup {NoAccount}]
             /\ \A d \in Emails : Registered(d) => Registered(d)'
             /\ Registered(e) => NoUserYet' = NoUserYet
  BY <1>3, Distinct DEF IInv, TypeOK, Registered, NoUserYet
<1>4. CASE users' = users
  BY <1>4 DEF IInv, TypeOK, Registered
<1>5. CASE \E r \in Reqs : RegInsert(r) /\ users' # users
  BY <1>1, <1>3, <1>5
<1>6. CASE \E r \in Reqs : PatchCommit(r)
  BY <1>2, <1>3, <1>6
<1>7. QED
  BY <1>4, <1>5, <1>6
  DEF Next, vars, Start, Continue, Crash, Register, AddEntry, RemoveEntry, PatchUser,
      RegBootstrap, RegLock, RegRecheck, RegAllow, AddCommit, RemoveCommit

(***************************************************************************)
(* The inductive invariant holds of every behaviour.  A step that inserts  *)
(* the bootstrap admin holds the advisory lock, so no other request can    *)
(* have found the table empty under it.                                    *)
(***************************************************************************)
LEMMA Inductive == Spec => []IInv
<1>1. Init => IInv
  BY EmailAssumption DEF Init, IInv, TypeOK, SomebodyInvited, InsertsJustified,
     RechecksLocked, Carried, AtMostOne, NoUserYet, Registered, Free, Request, Steps, At
<1>2. ASSUME IInv, [Next]_vars PROVE IInv'
  <2> USE <1>2 DEF IInv
  <2>1. /\ users' \in [Emails -> Account \cup {NoAccount}]
        /\ \A e \in Emails : Registered(e) => Registered(e)'
        /\ ~NoUserYet => ~NoUserYet'
    BY UsersStep DEF NoUserYet
  <2>2. ASSUME NEW r \in Reqs, NEW e \in Emails, Register(r, e) PROVE IInv'
    BY <2>1, <2>2, EmailAssumption
    DEF Register, Begin, TypeOK, SomebodyInvited, InsertsJustified, RechecksLocked,
        Carried, AtMostOne, At, Request, Steps, NoUserYet, Registered
  <2>3. ASSUME NEW r \in Reqs, NEW e \in Emails,
               AddEntry(r, e) \/ RemoveEntry(r, e)
        PROVE  IInv'
    <3>1. ~NoUserYet
      BY <2>3, Distinct DEF AddEntry, RemoveEntry, ActiveAdmins, NoUserYet, Registered
    <3>2. CASE AddEntry(r, e)
      BY <2>1, <3>1, <3>2, EmailAssumption
      DEF AddEntry, Begin, TypeOK, SomebodyInvited, InsertsJustified, RechecksLocked,
          Carried, AtMostOne, At, Request, Steps, NoUserYet, Registered
    <3>3. CASE RemoveEntry(r, e)
      BY <2>1, <3>1, <3>3, EmailAssumption
      DEF RemoveEntry, Begin, TypeOK, SomebodyInvited, InsertsJustified, RechecksLocked,
          Carried, AtMostOne, At, Request, Steps, NoUserYet, Registered
    <3>4. QED
      BY <2>3, <3>2, <3>3
  <2>4. ASSUME NEW r \in Reqs, NEW e \in Emails, NEW new \in Account,
               PatchUser(r, e, new)
        PROVE  IInv'
    <3>1. users[e] \in Account
      BY <2>4 DEF PatchUser, Registered, TypeOK
    <3>2. QED
      BY <2>1, <2>4, <3>1, EmailAssumption
      DEF PatchUser, Begin, TypeOK, SomebodyInvited, InsertsJustified, RechecksLocked,
          Carried, AtMostOne, At, Request, Steps, NoUserYet, Registered
  <2>5. ASSUME NEW r \in Reqs, RegBootstrap(r) \/ RegLock(r) PROVE IInv'
    BY <2>1, <2>5, EmailAssumption
    DEF RegBootstrap, RegLock, Goto, TypeOK, SomebodyInvited, InsertsJustified,
        RechecksLocked, Carried, AtMostOne, At, Request, Steps, NoUserYet, Registered
  <2>6. ASSUME NEW r \in Reqs, RegRecheck(r) PROVE IInv'
    <3>1. /\ At(r, "reg_recheck") /\ advisory = r
          /\ UNCHANGED <<users, allow, advisory, bootstrapped>>
      BY <2>6 DEF RegRecheck, RechecksLocked
    <3>2. CASE NoUserYet
      <4>1. req' = [req EXCEPT ![r].step = "reg_insert", ![r].arg = Admin]
        BY <2>6, <3>2 DEF RegRecheck
      <4>2. InsertsJustified'
        BY <3>1, <3>2, <4>1 DEF InsertsJustified, At, TypeOK, Request, NoUserYet,
           Registered, Member, Admin
      <4>3. TypeOK'
        <5>1. [req[r] EXCEPT !.step = "reg_insert", !.arg = Admin] \in Request
          BY Distinct DEF TypeOK, Request, Steps
        <5>2. req' = [req EXCEPT ![r] = [req[r] EXCEPT !.step = "reg_insert", !.arg = Admin]]
          BY <4>1 DEF TypeOK, Request
        <5>3. QED
          BY <2>1, <3>1, <5>1, <5>2 DEF TypeOK
      <4>4. NoUserYet' = NoUserYet
        BY <3>1 DEF NoUserYet, Registered
      <4>5. SomebodyInvited' /\ AtMostOne'
        BY <3>1, <4>1, <4>4 DEF SomebodyInvited, AtMostOne, At, TypeOK, Request
      <4>6. RechecksLocked'
        BY <3>1, <4>1 DEF RechecksLocked, At, TypeOK, Request
      <4>7. Carried'
        BY <3>1, <4>1 DEF Carried, At, TypeOK, Request, Registered
      <4>8. QED
        BY <4>2, <4>3, <4>5, <4>6, <4>7
    <3>3. CASE ~NoUserYet
      <4>1. req' = [req EXCEPT ![r].step = "reg_allow", ![r].arg = NoAccount]
        BY <2>6, <3>3 DEF RegRecheck
      <4>2. InsertsJustified'
        BY <3>1, <3>3, <4>1 DEF InsertsJustified, At, TypeOK, Request, NoUserYet,
           Registered, Member, Admin
      <4>3. TypeOK'
        <5>1. [req[r] EXCEPT !.step = "reg_allow", !.arg = NoAccount] \in Request
          BY Distinct DEF TypeOK, Request, Steps
        <5>2. req' = [req EXCEPT ![r] = [req[r] EXCEPT !.step = "reg_allow", !.arg = NoAccount]]
          BY <4>1 DEF TypeOK, Request
        <5>3. QED
          BY <2>1, <3>1, <5>1, <5>2 DEF TypeOK
      <4>4. NoUserYet' = NoUserYet
        BY <3>1 DEF NoUserYet, Registered
      <4>5. SomebodyInvited' /\ AtMostOne'
        BY <3>1, <4>1, <4>4 DEF SomebodyInvited, AtMostOne, At, TypeOK, Request
      <4>6. RechecksLocked'
        BY <3>1, <4>1 DEF RechecksLocked, At, TypeOK, Request
      <4>7. Carried'
        BY <3>1, <4>1 DEF Carried, At, TypeOK, Request, Registered
      <4>8. QED
        BY <4>2, <4>3, <4>5, <4>6, <4>7
    <3>4. QED
      BY <3>2, <3>3
  <2>7. ASSUME NEW r \in Reqs, RegAllow(r) PROVE IInv'
    BY <2>1, <2>7, Distinct, EmailAssumption
    DEF RegAllow, Finish, Free, Unlocked, TypeOK, SomebodyInvited, InsertsJustified,
        RechecksLocked, Carried, AtMostOne, At, Request, Steps, NoUserYet, Registered
  <2>8. ASSUME NEW r \in Reqs, RegInsert(r) PROVE IInv'
    <3> DEFINE e == req[r].email
    <3>1. e \in Emails /\ At(r, "reg_insert")
      BY <2>8 DEF RegInsert, Carried, At
    <3>2. CASE Registered(e)
      BY <2>1, <2>8, <3>1, <3>2, EmailAssumption
      DEF RegInsert, Finish, Free, Unlocked, TypeOK, SomebodyInvited, InsertsJustified,
          RechecksLocked, Carried, AtMostOne, At, Request, Steps, NoUserYet, Registered
    <3>3. CASE ~Registered(e)
      <4>1. users' = [users EXCEPT ![e] = req[r].arg] /\ req[r].arg \in {Admin, Member}
        BY <2>8, <3>1, <3>3 DEF RegInsert, InsertsJustified
      <4>2. ~NoUserYet'
        BY <3>1, <4>1, Distinct DEF NoUserYet, Registered, TypeOK
      <4>3. \A q \in Reqs : At(q, "reg_insert") /\ q # r =>
              req[q].arg = Member \/ req[r].arg = Member
        BY <3>1 DEF InsertsJustified
      <4>4. req' = [req EXCEPT ![r] = Free] /\ allow' = allow
        BY <2>8 DEF RegInsert, Finish
      <4>5. InsertsJustified'
        <5>1. ASSUME NEW q \in Reqs, At(q, "reg_insert")', q # r
              PROVE  req[q].arg = Member
          BY <3>1, <4>3, <4>4, <5>1, Distinct DEF InsertsJustified, At, TypeOK
        <5>2. \A q \in Reqs : At(q, "reg_insert")' => q # r /\ req'[q] = req[q]
          BY <4>4 DEF At, Free, TypeOK
        <5>3. QED
          BY <4>2, <5>1, <5>2 DEF InsertsJustified, Member, Admin
      <4>6. RechecksLocked'
        BY <2>8, <4>4, EmailAssumption
        DEF RegInsert, RechecksLocked, Unlocked, At, Free, TypeOK
      <4>7. AtMostOne'
        <5>1. CASE req[r].arg = Admin
          <6>1. NoUserYet
            BY <3>1, <5>1, Distinct DEF InsertsJustified
          <6>2. bootstrapped' = {e}
            BY <2>8, <3>3, <5>1, <6>1 DEF RegInsert, AtMostOne
          <6>3. QED
            BY <4>2, <6>2 DEF AtMostOne
        <5>2. CASE req[r].arg # Admin
          <6>1. bootstrapped' = bootstrapped
            BY <2>8, <3>3, <5>2 DEF RegInsert
          <6>2. QED
            BY <4>2, <6>1 DEF AtMostOne
        <5>3. QED
          BY <5>1, <5>2
      <4>8. SomebodyInvited' /\ Carried'
        BY <2>1, <4>2, <4>4 DEF SomebodyInvited, Carried, At, Free, TypeOK
      <4>9. TypeOK'
        BY <2>1, <2>8, <3>1, <4>4, EmailAssumption
        DEF RegInsert, Unlocked, TypeOK, Free, Request, Steps
      <4>10. QED
        BY <4>5, <4>6, <4>7, <4>8, <4>9
    <3>4. QED
      BY <3>2, <3>3
  <2>9. ASSUME NEW r \in Reqs, AddCommit(r) \/ RemoveCommit(r) PROVE IInv'
    BY <2>1, <2>9, EmailAssumption
    DEF AddCommit, RemoveCommit, Finish, Free, TypeOK, SomebodyInvited, InsertsJustified,
        RechecksLocked, Carried, AtMostOne, At, Request, Steps, NoUserYet, Registered
  <2>10. ASSUME NEW r \in Reqs, PatchCommit(r) PROVE IInv'
    <3>1. /\ req' = [req EXCEPT ![r] = Free]
          /\ UNCHANGED <<allow, advisory, bootstrapped>>
      BY <2>10 DEF PatchCommit, Finish
    <3>2. NoUserYet' = NoUserYet
      BY <2>1, <2>10, PatchShape DEF PatchCommit, Carried, NoUserYet
    <3>3. TypeOK'
      BY <2>1, <3>1 DEF TypeOK, Free, Request, Steps
    <3>4. QED
      BY <2>1, <3>1, <3>2, <3>3
      DEF SomebodyInvited, InsertsJustified, RechecksLocked, Carried, AtMostOne, At, Free,
          TypeOK
  <2>11. ASSUME NEW r \in Reqs, Crash(r) PROVE IInv'
    BY <2>1, <2>11, EmailAssumption
    DEF Crash, Finish, Free, Unlocked, TypeOK, SomebodyInvited, InsertsJustified,
        RechecksLocked, Carried, AtMostOne, At, Request, Steps, NoUserYet, Registered
  <2>12. CASE UNCHANGED vars
    BY <2>12
    DEF vars, TypeOK, SomebodyInvited, InsertsJustified, RechecksLocked, Carried,
        AtMostOne, At, NoUserYet, Registered
  <2>13. QED
    BY <2>2, <2>3, <2>4, <2>5, <2>6, <2>7, <2>8, <2>9, <2>10, <2>11, <2>12
    DEF Next, Start, Continue
<1>3. QED
  BY <1>1, <1>2, PTL DEF Spec

(***************************************************************************)
(* At most one account ever becomes an admin past the allowlist.           *)
(***************************************************************************)
THEOREM BootstrapIsUnique == Spec => []OneBootstrapAdmin
<1>1. ASSUME IInv PROVE OneBootstrapAdmin
  <2>1. CASE bootstrapped = {}
    BY <2>1, FS_EmptySet DEF OneBootstrapAdmin
  <2>2. CASE bootstrapped # {}
    <3>1. PICK e : bootstrapped = {e}
      BY <1>1, <2>2 DEF IInv, AtMostOne
    <3>2. Cardinality({e}) = 1
      BY FS_Singleton
    <3>3. QED
      BY <3>1, <3>2 DEF OneBootstrapAdmin
  <2>3. QED
    BY <2>1, <2>2
<1>2. QED
  BY <1>1, Inductive, PTL

(***************************************************************************)
(* The tables and the running requests keep their types.                   *)
(***************************************************************************)
THEOREM TypesKept == Spec => []TypeOK
<1>1. IInv => TypeOK
  BY DEF IInv
<1>2. QED
  BY <1>1, Inductive, PTL

----------------------------------------------------------------------------
(***************************************************************************)
(* Under the auditor.  What the guards of admin.py found is carried to the *)
(* commit by the three facts below; each can only be broken by a request   *)
(* that overlaps, and the auditor remembers that one.                      *)
(***************************************************************************)
\* A demotion past the guard leaves somebody else to administer.
DemotionsSpare ==
    \A r \in Reqs : Demoting(r) => \E a \in ActiveAdmins : a # req[r].email

\* Who is about to be inserted as a member is still on the allowlist.
InsertsInvited ==
    \A r \in Reqs : At(r, "reg_insert") /\ req[r].arg # Admin => req[r].email \in allow

\* What is about to be removed is still pending.
RemovesPending == \A r \in Reqs : At(r, "remove_commit") => ~Registered(req[r].email)

GuardInv == racedGuard \/ (AlwaysAnAdmin /\ DemotionsSpare)
EntryInv == racedRemoval \/ (NoStrandedAccount /\ InsertsInvited /\ RemovesPending)

(***************************************************************************)
(* The guard of patch_user: of more than one, one is somebody else.        *)
(***************************************************************************)
LEMMA AnotherOne ==
  ASSUME ActiveAdminCount > 1, NEW e
  PROVE  \E a \in ActiveAdmins : a # e
<1> SUFFICES ASSUME \A a \in ActiveAdmins : a = e PROVE FALSE
  OBVIOUS
<1>1. ActiveAdmins = {} \/ ActiveAdmins = {e}
  OBVIOUS
<1>2. Cardinality({}) = 0 /\ Cardinality({e}) = 1
  BY FS_EmptySet, FS_Singleton
<1>3. QED
  BY <1>1, <1>2 DEF ActiveAdminCount

(***************************************************************************)
(* A patch that demotes nobody leaves the active admins what they are.     *)
(***************************************************************************)
LEMMA PromotionKeepsAdmins ==
  ASSUME IInv, NEW r \in Reqs, PatchCommit(r), ~Demoting(r)
  PROVE  ActiveAdmins \subseteq ActiveAdmins'
<1> DEFINE e == req[r].email
           Write(column) == IF req[r].arg[column] = req[r].cache[column]
                            THEN users[e][column] ELSE req[r].arg[column]
<1>1. At(r, "patch_commit") /\ req[r].arg \in Account /\ req[r].cache \in Account
  BY DEF PatchCommit, IInv, Carried
<1>2. req[r].arg.role # req[r].cache.role => req[r].arg.role = "ADMIN"
  BY <1>1 DEF Demoting, Account
<1>3. req[r].arg.status # req[r].cache.status => req[r].arg.status = "ACTIVE"
  BY <1>1 DEF Demoting, Account
<1>4. users' = [users EXCEPT ![e] = [role |-> Write("role"), status |-> Write("status")]]
  BY DEF PatchCommit
<1>5. ASSUME users[e] = Admin
      PROVE  Write("role") = "ADMIN" /\ Write("status") = "ACTIVE"
  BY <1>2, <1>3, <1>5 DEF Admin
<1>6. ASSUME NEW d \in Emails, users[d] = Admin PROVE users'[d] = Admin
  <2>1. CASE d = e
    BY <1>4, <1>5, <1>6, <2>1 DEF Admin, IInv, TypeOK
  <2>2. CASE d # e
    BY <1>4, <1>6, <2>2 DEF IInv, TypeOK
  <2>3. QED
    BY <2>1, <2>2
<1>7. QED
  BY <1>6 DEF ActiveAdmins

(***************************************************************************)
(* One demotion alone leaves an active admin, and any other step leaves    *)
(* them all.                                                               *)
(***************************************************************************)
LEMMA AdminsStep ==
  ASSUME IInv, [Next]_vars
  PROVE  \/ ActiveAdmins \subseteq ActiveAdmins'
         \/ \E r \in Reqs :
              /\ PatchCommit(r) /\ Demoting(r)
              /\ \A a \in ActiveAdmins : a # req[r].email => a \in ActiveAdmins'
<1>1. ASSUME NEW r \in Reqs, RegInsert(r) PROVE ActiveAdmins \subseteq ActiveAdmins'
  <2>1. ASSUME NEW d \in Emails, users[d] = Admin PROVE users'[d] = Admin
    BY <1>1, <2>1, Distinct DEF RegInsert, Registered, IInv, TypeOK
  <2>2. QED
    BY <2>1 DEF ActiveAdmins
<1>2. ASSUME NEW r \in Reqs, PatchCommit(r)
      PROVE  \A a \in ActiveAdmins : a # req[r].email => a \in ActiveAdmins'
  BY <1>2 DEF PatchCommit, ActiveAdmins, IInv, TypeOK
<1>3. CASE users' = users
  BY <1>3 DEF ActiveAdmins
<1>4. CASE \E r \in Reqs : RegInsert(r)
  BY <1>1, <1>4
<1>5. CASE \E r \in Reqs : PatchCommit(r)
  BY <1>2, <1>5, PromotionKeepsAdmins
<1>6. QED
  BY <1>3, <1>4, <1>5
  DEF Next, vars, Start, Continue, Crash, Register, AddEntry, RemoveEntry, PatchUser,
      RegBootstrap, RegLock, RegRecheck, RegAllow, AddCommit, RemoveCommit

(***************************************************************************)
(* The account that fills an empty table is an active admin's.             *)
(***************************************************************************)
LEMMA FirstIsAdmin ==
  ASSUME IInv, [Next]_vars, NoUserYet
  PROVE  NoUserYet' \/ ActiveAdmins' # {}
<1>1. CASE NoUserYet' = NoUserYet
  BY <1>1
<1>2. CASE users' = users
  BY <1>2 DEF NoUserYet, Registered
<1>3. ASSUME NEW r \in Reqs, RegInsert(r) PROVE ActiveAdmins' # {}
  <2>1. At(r, "reg_insert") /\ req[r].email \in Emails /\ req[r].arg = Admin
    BY <1>3 DEF RegInsert, IInv, InsertsJustified, Carried, At
  <2>2. users' = [users EXCEPT ![req[r].email] = Admin]
    BY <1>3, <2>1 DEF RegInsert, NoUserYet
  <2>3. QED
    BY <2>1, <2>2 DEF ActiveAdmins, IInv, TypeOK
<1>4. QED
  BY <1>1, <1>2, <1>3, UsersStep

(***************************************************************************)
(* A request that is past the guard after a step was past it before, or    *)
(* has just been let through by it.                                        *)
(***************************************************************************)
LEMMA DemotingStep ==
  ASSUME IInv, [Next]_vars, NEW r \in Reqs, Demoting(r)'
  PROVE  \/ Demoting(r) /\ req'[r] = req[r] /\ ~PatchCommit(r)
         \/ /\ users' = users
            /\ \E a \in ActiveAdmins : a # req'[r].email
<1> USE DEF IInv, TypeOK
<1>1. ASSUME NEW s \in Reqs, NEW e \in Emails, NEW new \in Account, PatchUser(s, e, new)
      PROVE  \/ Demoting(r) /\ req'[r] = req[r] /\ ~PatchCommit(r)
             \/ users' = users /\ \E a \in ActiveAdmins : a # req'[r].email
  <2>1. req' = [req EXCEPT ![s] = [step |-> "patch_commit", email |-> e,
                                   cache |-> users[e], arg |-> new]]
        /\ users' = users
    BY <1>1 DEF PatchUser, Begin
  <2>2. CASE r # s
    <3>1. req'[r] = req[r]
      BY <2>1, <2>2
    <3>2. Demoting(r)
      BY <3>1 DEF Demoting, At
    <3>3. ~PatchCommit(r)
      <4>1. req'[s].step = "patch_commit"
        BY <2>1
      <4>2. ASSUME PatchCommit(r) PROVE req'[r].step = "idle"
        BY <4>2 DEF PatchCommit, Finish, Free
      <4>3. QED
        BY <3>1, <3>2, <4>2 DEF Demoting, At
    <3>4. QED
      BY <3>1, <3>2, <3>3
  <2>3. CASE r = s
    <3>1. req'[r].email = e
      BY <2>1, <2>3
    <3>2. CASE users[e] = Admin
      <4>1. new # Admin
        BY <2>1, <2>3, <3>2 DEF Demoting, At, Admin
      <4>2. ActiveAdminCount > 1
        BY <1>1, <3>2, <4>1 DEF PatchUser
      <4>3. QED
        BY <2>1, <3>1, <4>2, AnotherOne
    <3>3. CASE users[e] # Admin
      <4>1. PICK a : a \in ActiveAdmins
        BY <1>1 DEF PatchUser
      <4>2. a # e
        BY <3>3, <4>1 DEF ActiveAdmins
      <4>3. QED
        BY <2>1, <3>1, <4>1, <4>2
    <3>4. QED
      BY <3>2, <3>3
  <2>4. QED
    BY <2>2, <2>3
<1>2. ASSUME \/ UNCHANGED vars
             \/ \E s \in Reqs : \/ Continue(s) \/ Crash(s)
                                \/ \E e \in Emails : \/ Register(s, e) \/ AddEntry(s, e)
                                                     \/ RemoveEntry(s, e)
      PROVE  Demoting(r) /\ req'[r] = req[r] /\ ~PatchCommit(r)
  <2>1. req'[r] = req[r]
    <3>1. ASSUME NEW s \in Reqs, Continue(s) \/ Crash(s) PROVE req'[r] = req[r]
      BY <3>1
      DEF Continue, Crash, RegBootstrap, RegLock, RegRecheck, RegAllow, RegInsert, AddCommit,
          RemoveCommit, PatchCommit, Goto, Finish, Free, Demoting, At, Request
    <3>2. ASSUME NEW s \in Reqs, NEW e \in Emails,
                 Register(s, e) \/ AddEntry(s, e) \/ RemoveEntry(s, e)
          PROVE  req'[r] = req[r]
      BY <3>2 DEF Register, AddEntry, RemoveEntry, Begin, Demoting, At
    <3>3. QED
      BY <1>2, <3>1, <3>2 DEF vars
  <2>2. Demoting(r)
    BY <2>1 DEF Demoting, At
  <2>3. ASSUME PatchCommit(r) PROVE req'[r].step = "idle"
    BY <2>3 DEF PatchCommit, Finish, Free
  <2>4. QED
    BY <2>1, <2>2, <2>3 DEF Demoting, At
<1>3. QED
  BY <1>1, <1>2 DEF Next, Start

(***************************************************************************)
(* The last-admin guard holds until the commit, unless two raced past it.  *)
(***************************************************************************)
LEMMA GuardStep ==
  ASSUME IInv, IInv', GuardInv, [AuditNext]_auditVars
  PROVE  GuardInv'
<1> SUFFICES ASSUME racedGuard' # TRUE PROVE AlwaysAnAdmin' /\ DemotionsSpare'
  BY DEF GuardInv
<1>1. [Next]_vars
  BY DEF AuditNext, auditVars
<1>2. AlwaysAnAdmin /\ DemotionsSpare
  BY DEF GuardInv, AuditNext, auditVars
<1>3. ASSUME NEW r \in Reqs, NEW s \in Reqs, PatchCommit(r), Demoting(r), Demoting(s)
      PROVE  s = r
  <2>1. At(r, "patch_commit") /\ req'[r] = Free
    BY <1>3 DEF PatchCommit, Finish, IInv, TypeOK
  <2>2. AuditNext
    BY <2>1 DEF auditVars, vars, At, Free
  <2>3. QED
    BY <1>3, <2>2 DEF AuditNext, GuardRaces
<1>4. AlwaysAnAdmin'
  <2>1. CASE ActiveAdmins \subseteq ActiveAdmins'
    <3>1. CASE ActiveAdmins # {}
      BY <2>1, <3>1 DEF AlwaysAnAdmin
    <3>2. CASE ActiveAdmins = {}
      <4>1. NoUserYet
        BY <1>2, <3>2 DEF AlwaysAnAdmin
      <4>2. QED
        BY <1>1, <4>1, FirstIsAdmin DEF AlwaysAnAdmin
    <3>3. QED
      BY <3>1, <3>2
  <2>2. ASSUME NEW r \in Reqs, PatchCommit(r), Demoting(r),
               \A a \in ActiveAdmins : a # req[r].email => a \in ActiveAdmins'
        PROVE  ActiveAdmins' # {}
    BY <1>2, <2>2 DEF DemotionsSpare
  <2>3. QED
    BY <1>1, <2>1, <2>2, AdminsStep DEF AlwaysAnAdmin
<1>5. ASSUME NEW r \in Reqs, Demoting(r)'
      PROVE  \E a \in ActiveAdmins' : a # req'[r].email
  <2>1. CASE Demoting(r) /\ req'[r] = req[r] /\ ~PatchCommit(r)
    <3>1. PICK a \in ActiveAdmins : a # req[r].email
      BY <1>2, <2>1 DEF DemotionsSpare
    <3>2. ActiveAdmins \subseteq ActiveAdmins'
      BY <1>1, <1>3, <2>1, AdminsStep
    <3>3. QED
      BY <2>1, <3>1, <3>2
  <2>2. CASE users' = users /\ \E a \in ActiveAdmins : a # req'[r].email
    BY <2>2 DEF ActiveAdmins
  <2>3. QED
    BY <1>1, <1>5, <2>1, <2>2, DemotingStep
<1>6. QED
  BY <1>4, <1>5 DEF DemotionsSpare

(***************************************************************************)
(* Who is about to be inserted, or what about to be removed, after a step  *)
(* was so before, or has just passed the check.                            *)
(***************************************************************************)
LEMMA EntriesStep ==
  ASSUME IInv, [Next]_vars, NEW r \in Reqs
  PROVE  /\ At(r, "reg_insert")' /\ req'[r].arg # Admin =>
              \/ At(r, "reg_insert") /\ req'[r] = req[r]
              \/ req'[r].email \in allow /\ allow' = allow
         /\ At(r, "remove_commit")' =>
              \/ At(r, "remove_commit") /\ req'[r] = req[r]
              \/ ~Registered(req'[r].email) /\ users' = users
<1> USE DEF IInv, TypeOK
<1> DEFINE Goal == /\ At(r, "reg_insert")' /\ req'[r].arg # Admin =>
                        \/ At(r, "reg_insert") /\ req'[r] = req[r]
                        \/ req'[r].email \in allow /\ allow' = allow
                   /\ At(r, "remove_commit")' =>
                        \/ At(r, "remove_commit") /\ req'[r] = req[r]
                        \/ ~Registered(req'[r].email) /\ users' = users
<1>1. ASSUME NEW s \in Reqs, NEW e \in Emails,
             \/ Register(s, e) \/ AddEntry(s, e) \/ RemoveEntry(s, e)
             \/ \E new \in Account : PatchUser(s, e, new)
      PROVE  Goal
  BY <1>1 DEF Register, AddEntry, RemoveEntry, PatchUser, Begin, At
<1>2. ASSUME NEW s \in Reqs, RegBootstrap(s) \/ RegLock(s) PROVE Goal
  BY <1>2 DEF RegBootstrap, RegLock, Goto, At, Request
<1>3. ASSUME NEW s \in Reqs, RegRecheck(s) PROVE Goal
  <2>1. CASE r = s
    BY <1>3, <2>1 DEF RegRecheck, At, Request
  <2>2. CASE r # s
    BY <1>3, <2>2 DEF RegRecheck, At
  <2>3. QED
    BY <2>1, <2>2
<1>4. ASSUME NEW s \in Reqs, RegAllow(s) PROVE Goal
  <2>1. CASE req[s].email \in allow
    BY <1>4, <2>1 DEF RegAllow, At, Request
  <2>2. CASE req[s].email \notin allow
    BY <1>4, <2>2 DEF RegAllow, Finish, Free, At
  <2>3. QED
    BY <2>1, <2>2
<1>5. ASSUME NEW s \in Reqs,
             \/ RegInsert(s) \/ AddCommit(s) \/ RemoveCommit(s) \/ PatchCommit(s)
             \/ Crash(s)
      PROVE  Goal
  BY <1>5 DEF RegInsert, AddCommit, RemoveCommit, PatchCommit, Crash, Finish, Free, At
<1>6. CASE UNCHANGED vars
  BY <1>6 DEF vars, At
<1>7. QED
  BY <1>1, <1>2, <1>3, <1>4, <1>5, <1>6 DEF Next, Start, Continue

(***************************************************************************)
(* An account that a step adds was about to be inserted, and an entry that *)
(* a step drops was about to be removed.                                   *)
(***************************************************************************)
LEMMA WhoEntersWhatLeaves ==
  ASSUME IInv, [Next]_vars, NEW e \in Emails
  PROVE  /\ Registered(e)' /\ ~Registered(e) =>
              \E r \in Reqs : /\ At(r, "reg_insert") /\ req[r].email = e
                              /\ req'[r] = Free /\ allow' = allow
                              /\ req[r].arg = Admin => e \in bootstrapped'
         /\ e \in allow /\ e \notin allow' =>
              \E r \in Reqs : /\ At(r, "remove_commit") /\ req[r].email = e
                              /\ req'[r] = Free /\ users' = users
         /\ e \in bootstrapped => e \in bootstrapped'
<1> USE DEF IInv, TypeOK
<1>1. ASSUME NEW r \in Reqs, RegInsert(r)
      PROVE  /\ Registered(e)' /\ ~Registered(e) =>
                  /\ At(r, "reg_insert") /\ req[r].email = e
                  /\ req'[r] = Free /\ allow' = allow
                  /\ req[r].arg = Admin => e \in bootstrapped'
             /\ allow' = allow
             /\ e \in bootstrapped => e \in bootstrapped'
  BY <1>1 DEF RegInsert, Finish, Registered
<1>2. ASSUME NEW r \in Reqs, PatchCommit(r)
      PROVE  /\ Registered(e)' => Registered(e)
             /\ allow' = allow /\ bootstrapped' = bootstrapped
  BY <1>2 DEF PatchCommit, Carried, Registered
<1>3. ASSUME NEW r \in Reqs, RemoveCommit(r)
      PROVE  /\ e \in allow /\ e \notin allow' =>
                  /\ At(r, "remove_commit") /\ req[r].email = e /\ req'[r] = Free
             /\ users' = users /\ bootstrapped' = bootstrapped
  BY <1>3 DEF RemoveCommit, Finish
<1>4. CASE /\ users' = users /\ bootstrapped' = bootstrapped
           /\ allow \subseteq allow'
  BY <1>4 DEF Registered
<1>5. CASE \E r \in Reqs : RegInsert(r)
  BY <1>1, <1>5
<1>6. CASE \E r \in Reqs : PatchCommit(r)
  BY <1>2, <1>6
<1>7. CASE \E r \in Reqs : RemoveCommit(r)
  BY <1>3, <1>7 DEF Registered
<1>8. QED
  BY <1>4, <1>5, <1>6, <1>7
  DEF Next, vars, Start, Continue, Crash, Register, AddEntry, RemoveEntry, PatchUser,
      RegBootstrap, RegLock, RegRecheck, RegAllow, AddCommit

(***************************************************************************)
(* What the allowlist check and the pending check found holds until the    *)
(* commit, unless a removal and a registration of the entry overlapped.    *)
(***************************************************************************)
LEMMA EntryStep ==
  ASSUME IInv, IInv', EntryInv, [AuditNext]_auditVars
  PROVE  EntryInv'
<1> SUFFICES ASSUME racedRemoval' # TRUE
             PROVE  NoStrandedAccount' /\ InsertsInvited' /\ RemovesPending'
  BY DEF EntryInv
<1>1. [Next]_vars
  BY DEF AuditNext, auditVars
<1>2. NoStrandedAccount /\ InsertsInvited /\ RemovesPending
  BY DEF EntryInv, AuditNext, auditVars
<1>3. ASSUME NEW r \in Reqs, NEW s \in Reqs, NEW e \in Emails,
             At(r, "reg_insert"), req[r].email = e, At(s, "remove_commit"), req[s].email = e
      PROVE  req' = req
  BY <1>3 DEF AuditNext, auditVars, vars, RemovalRaces, Entering, Removing, At
<1>4. ASSUME NEW r \in Reqs, At(r, "reg_insert") \/ At(r, "remove_commit")
      PROVE  req[r].email \in Emails /\ req[r] # Free
  BY <1>4 DEF IInv, Carried, At, Free
<1>5. InsertsInvited'
  <2> SUFFICES ASSUME NEW r \in Reqs, At(r, "reg_insert")', req'[r].arg # Admin
               PROVE  req'[r].email \in allow'
    BY DEF InsertsInvited
  <2>1. CASE At(r, "reg_insert") /\ req'[r] = req[r]
    <3>1. PICK e \in allow : e \in Emails /\ req[r].email = e
      BY <1>2, <1>4, <2>1 DEF InsertsInvited
    <3>2. ASSUME e \notin allow' PROVE FALSE
      <4>1. PICK s \in Reqs : At(s, "remove_commit") /\ req[s].email = e /\ req'[s] = Free
        BY <1>1, <3>1, <3>2, WhoEntersWhatLeaves
      <4>2. req' = req
        BY <1>3, <2>1, <3>1, <4>1
      <4>3. QED
        BY <1>4, <4>1, <4>2
    <3>3. QED
      BY <2>1, <3>1, <3>2
  <2>2. CASE req'[r].email \in allow /\ allow' = allow
    BY <2>2
  <2>3. QED
    BY <1>1, <2>1, <2>2, EntriesStep
<1>6. RemovesPending'
  <2> SUFFICES ASSUME NEW r \in Reqs, At(r, "remove_commit")'
               PROVE  users'[req'[r].email] = NoAccount
    BY DEF RemovesPending, Registered
  <2>1. CASE At(r, "remove_commit") /\ req'[r] = req[r]
    <3>1. PICK e \in Emails : req[r].email = e /\ ~Registered(e)
      BY <1>2, <1>4, <2>1 DEF RemovesPending
    <3>2. ASSUME Registered(e)' PROVE FALSE
      <4>1. PICK s \in Reqs : At(s, "reg_insert") /\ req[s].email = e /\ req'[s] = Free
        BY <1>1, <3>1, <3>2, WhoEntersWhatLeaves
      <4>2. req' = req
        BY <1>3, <2>1, <3>1, <4>1
      <4>3. QED
        BY <1>4, <4>1, <4>2
    <3>3. QED
      BY <2>1, <3>1, <3>2 DEF Registered
  <2>2. CASE ~Registered(req'[r].email) /\ users' = users
    BY <2>2 DEF Registered
  <2>3. QED
    BY <1>1, <2>1, <2>2, EntriesStep
<1>7. NoStrandedAccount'
  <2> SUFFICES ASSUME NEW e \in Emails, Registered(e)'
               PROVE  e \in allow' \cup bootstrapped'
    BY DEF NoStrandedAccount
  <2>1. CASE Registered(e)
    <3>1. CASE e \in bootstrapped
      BY <1>1, <3>1, WhoEntersWhatLeaves
    <3>2. CASE e \in allow
      <4>1. ASSUME NEW s \in Reqs, At(s, "remove_commit"), req[s].email = e PROVE FALSE
        BY <1>2, <2>1, <4>1 DEF RemovesPending
      <4>2. QED
        BY <1>1, <3>2, <4>1, WhoEntersWhatLeaves
    <3>3. QED
      BY <1>2, <2>1, <3>1, <3>2 DEF NoStrandedAccount
  <2>2. CASE ~Registered(e)
    <3>1. PICK r \in Reqs : /\ At(r, "reg_insert") /\ req[r].email = e /\ allow' = allow
                            /\ req[r].arg = Admin => e \in bootstrapped'
      BY <1>1, <2>2, WhoEntersWhatLeaves
    <3>2. QED
      BY <1>2, <3>1 DEF InsertsInvited
  <2>3. QED
    BY <2>1, <2>2
<1>8. QED
  BY <1>5, <1>6, <1>7

(***************************************************************************)
(* The auditor only watches, so what holds of Accounts holds under it, and *)
(* with it the two facts about guards that were not raced.                 *)
(***************************************************************************)
LEMMA AuditInductive == AuditSpec => [](IInv /\ GuardInv /\ EntryInv)
<1>1. AuditSpec => Spec
  <2>1. AuditInit => Init
    BY DEF AuditInit
  <2>2. [AuditNext]_auditVars => [Next]_vars
    BY DEF AuditNext, auditVars
  <2>3. QED
    BY <2>1, <2>2, PTL DEF AuditSpec, Spec
<1>2. AuditInit => GuardInv /\ EntryInv
  BY DEF AuditInit, Init, GuardInv, EntryInv, AlwaysAnAdmin, DemotionsSpare, Demoting,
     NoStrandedAccount, InsertsInvited, RemovesPending, NoUserYet, Registered, Free, At
<1>3. IInv /\ IInv' /\ GuardInv /\ EntryInv /\ [AuditNext]_auditVars => GuardInv' /\ EntryInv'
  BY GuardStep, EntryStep
<1>4. QED
  BY <1>1, <1>2, <1>3, Inductive, PTL DEF AuditSpec

(***************************************************************************)
(* An instance with an account has an active admin, for any people and any *)
(* number of requests, unless two demotions were past the guard at once.   *)
(***************************************************************************)
THEOREM LastAdminStays == AuditSpec => []AdminUnlessRaced
<1>1. GuardInv => AdminUnlessRaced
  BY DEF GuardInv, AdminUnlessRaced
<1>2. QED
  BY <1>1, AuditInductive, PTL

(***************************************************************************)
(* Whoever has an account is on the allowlist or is the bootstrap admin,   *)
(* unless a removal of the entry overlapped the registration.              *)
(***************************************************************************)
THEOREM EntriesOutliveAccounts == AuditSpec => []StrandedOnlyByRace
<1>1. EntryInv => StrandedOnlyByRace
  BY DEF EntryInv, StrandedOnlyByRace
<1>2. QED
  BY <1>1, AuditInductive, PTL
============================================================================
