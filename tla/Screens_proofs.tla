--------------------------- MODULE Screens_proofs ---------------------------
(***************************************************************************)
(* The administration, history and import pages, each on its own, then the *)
(* tab that shows one screen at a time: what the screens keep on their own *)
(* they keep on the tab, since a step of the tab is a step of the screen   *)
(* that is open or leaves that screen alone.                               *)
(***************************************************************************)
EXTENDS Screens, SequenceTheorems, TLAPS

(***************************************************************************)
(* The administration page.                                                *)
(* One administrator at the screen never leaves the instance without one   *)
(* (AdminsRemain), and no token lives whose secret was not shown           *)
(* (SecretsShown): for any accounts, tokens and calls in flight.           *)
(***************************************************************************)

Rows == [Emails -> Account] \cup {<<>>}
Left == [changes : Nat, tokens : Nat, lost : Nat, visits : Nat]
AdminMishaps == {"two menus", "left", "dropped", "closed", "lost"}
AdminState == [rows : Rows, menus : SUBSET Emails, busy : BOOLEAN, failed : BOOLEAN,
               dialog : {"closed", "form", "creating", "created"}, revoking : Pats \cup {NoOne},
               shown : Pats \cup {NoOne}, pats : SUBSET Pats, seen : SUBSET Pats,
               tab : {"members", "pending"}, mishaps : SUBSET AdminMishaps,
               left : Left]
AdminCalls == [op : {"none", "load", "add", "remove", "patch", "list", "create", "revoke"},
               at : {"idle", "sent", "checked", "ok", "refused"},
               arg : Emails \cup Pats \cup {NoOne}, change : Changes, rows : Rows,
               pats : SUBSET Pats, live : BOOLEAN]

\* What a call is about depends on what it asks for; one that nobody waits for is
\* a change the server has still to make.
Fitting(call) ==
    /\ call.op \in {"add", "remove", "patch"} => call.arg \in Emails
    /\ call.op = "load" => call.arg \in {self, NoOne}
    /\ call.op = "create" => /\ call.arg \in Pats \cup {NoOne}
                             /\ call.at = "ok" => call.arg \in Pats
    /\ call.op = "revoke" => call.arg \in Pats
    /\ ~call.live => call.op \notin {"load", "list"} /\ call.at \in {"sent", "checked"}

AdminTypes ==
    /\ accounts \in [Emails -> Account]
    /\ tokens \in [Pats -> {"none", "live", "revoked"}]
    /\ admin \in AdminState
    /\ adminCalls \in [AdminSlots -> AdminCalls]
    /\ \A s \in AdminSlots : Fitting(adminCalls[s])

\* One token is created at a time, under a dialog that waits for it, and only
\* its answer carries the secret.
Creating(s) == adminCalls[s].op = "create"
Secrets ==
    admin.mishaps \cap {"closed", "lost"} = {} =>
      /\ \A s \in AdminSlots : Creating(s) =>
           /\ admin.dialog = "creating" /\ adminCalls[s].live
           /\ adminCalls[s].at # "ok" => adminCalls[s].arg = NoOne
      /\ \A s, t \in AdminSlots : Creating(s) /\ Creating(t) => s = t
      /\ \A p \in Live : \/ p \in admin.seen
                         \/ \E s \in AdminSlots : Creating(s) /\ adminCalls[s].arg = p

\* One change that the screen waits for runs at a time, its load included, and
\* no menu is open meanwhile; the server changes no account that the screen does
\* not wait for; an administrator who was counted before a change is still there
\* to commit it.
Calm == admin.mishaps \cap {"two menus", "left", "dropped"} = {}
Changing(s) ==
    /\ adminCalls[s].live
    /\ \/ adminCalls[s].op \in {"add", "remove", "patch"}
       \/ adminCalls[s].op = "load" /\ adminCalls[s].arg = self
Remains(as, e, change) ==
    \E a \in Emails : /\ IsActiveAdmin(as[a])
                      /\ a # e \/ IsActiveAdmin(Changed(as[e], change))
OneChange ==
    Calm =>
      /\ \A s \in AdminSlots : Changing(s) => admin.busy
      /\ \A s, t \in AdminSlots : Changing(s) /\ Changing(t) => s = t
      /\ \A s \in AdminSlots : adminCalls[s].op = "patch" => adminCalls[s].live
      /\ admin.menus # {} => ~admin.busy
      /\ \A e, f \in admin.menus : e = f
      /\ \E a \in Emails : IsActiveAdmin(accounts[a])
      /\ \A s \in AdminSlots : adminCalls[s].op = "patch" /\ adminCalls[s].at = "checked" =>
           Remains(accounts, adminCalls[s].arg, adminCalls[s].change)

AdminInv == AdminTypes /\ Secrets /\ OneChange

----------------------------------------------------------------------------
\* Calls: one that is sent takes a free slot, an answered one frees its own.

LEMMA CallsTyped ==
  ASSUME NEW op \in {"load", "add", "remove", "patch", "list", "create", "revoke"},
         NEW arg \in Emails \cup Pats \cup {NoOne}
  PROVE  /\ NoAdminCall \in AdminCalls /\ AdminCall(op, arg) \in AdminCalls
         /\ AdminCall(op, arg).op = op /\ AdminCall(op, arg).arg = arg
         /\ AdminCall(op, arg).at = "sent" /\ AdminCall(op, arg).live
  BY DEF NoAdminCall, AdminCall, AdminCalls, Changes, Rows

LEMMA SentShape ==
  ASSUME NEW calls \in [AdminSlots -> AdminCalls], NEW call \in AdminCalls,
         \E s \in AdminSlots : calls[s].op = "none"
  PROVE  /\ Sent(calls, call) \in [AdminSlots -> AdminCalls]
         /\ \E s \in AdminSlots : /\ calls[s].op = "none" /\ Sent(calls, call)[s] = call
                                  /\ \A t \in AdminSlots : t # s => Sent(calls, call)[t] = calls[t]
<1> DEFINE free == {x \in AdminSlots : calls[x].op = "none"}
           s == CHOOSE x \in free : TRUE
<1>1. s \in free
  OBVIOUS
<1>2. Sent(calls, call) = [calls EXCEPT ![s] = call]
  BY DEF Sent
<1> HIDE DEF s
<1>3. QED
  BY <1>1, <1>2

LEMMA EndedShape ==
  ASSUME AdminTypes, NEW s \in AdminSlots
  PROVE  /\ Ended(s) \in [AdminSlots -> AdminCalls] /\ Ended(s)[s].op = "none" /\ Ended(s)[s].live
         /\ \A t \in AdminSlots : t # s => Ended(s)[t] = adminCalls[t]
<1>1. NoAdminCall \in AdminCalls /\ NoAdminCall.op = "none" /\ NoAdminCall.live
  BY DEF NoAdminCall, AdminCalls, Changes, Rows
<1>2. QED
  BY <1>1 DEF Ended, AdminTypes

\* What an answer may do to any call.
Heard(t) ==
    /\ Creating(t)' => Creating(t)
    /\ Creating(t) /\ adminCalls[t].live =>
         Creating(t)' /\ adminCalls'[t].live /\ adminCalls'[t].arg = adminCalls[t].arg
    /\ Changing(t)' => Changing(t)
    /\ adminCalls'[t].op = "patch" =>
         /\ adminCalls[t].op = "patch" /\ adminCalls'[t].live = adminCalls[t].live
         /\ adminCalls'[t].arg = adminCalls[t].arg
         /\ adminCalls'[t].change = adminCalls[t].change

LEMMA AnswerShape ==
  ASSUME AdminTypes, NEW s \in AdminSlots, NEW at \in {"checked", "ok", "refused"}, AnswerAt(s, at),
         at = "ok" => ~Creating(s)
  PROVE  /\ adminCalls' \in [AdminSlots -> AdminCalls]
         /\ \A t \in AdminSlots : Fitting(adminCalls'[t]) /\ Heard(t)
         /\ \A t \in AdminSlots : t # s => adminCalls'[t] = adminCalls[t]
         /\ at # "checked" => adminCalls'[s].at # "checked"
<1> DEFINE c == adminCalls[s]
           d == IF c.live \/ at = "checked" THEN [c EXCEPT !.at = at] ELSE NoAdminCall
<1>1. /\ adminCalls \in [AdminSlots -> AdminCalls] /\ c \in AdminCalls /\ Fitting(c)
      /\ adminCalls' = [adminCalls EXCEPT ![s] = d]
  BY DEF AdminTypes, AnswerAt
<1>2. /\ NoAdminCall \in AdminCalls /\ NoAdminCall.op = "none" /\ NoAdminCall.at = "idle"
      /\ NoAdminCall.live
  BY DEF NoAdminCall, AdminCalls, Changes, Rows
<1>3. CASE c.live \/ at = "checked"
  <2>1. /\ d \in AdminCalls /\ d.op = c.op /\ d.arg = c.arg /\ d.change = c.change
        /\ d.live = c.live /\ d.at = at
    BY <1>1, <1>3 DEF AdminCalls
  <2> HIDE DEF d
  <2>2. /\ adminCalls' \in [AdminSlots -> AdminCalls] /\ adminCalls'[s] = d
        /\ \A t \in AdminSlots : t # s => adminCalls'[t] = adminCalls[t]
    BY <1>1, <2>1
  <2>3. Fitting(d)
    BY <1>1, <1>3, <2>1 DEF Fitting, Creating
  <2>4. \A t \in AdminSlots : Fitting(adminCalls'[t])
    BY <2>2, <2>3 DEF AdminTypes
  <2>5. \A t \in AdminSlots : Heard(t)
    BY <2>1, <2>2 DEF Heard, Creating, Changing
  <2>6. QED
    BY <2>1, <2>2, <2>4, <2>5
<1>4. CASE ~c.live /\ at # "checked"
  <2>1. d = NoAdminCall
    BY <1>4
  <2> HIDE DEF d
  <2>2. /\ adminCalls' \in [AdminSlots -> AdminCalls] /\ adminCalls'[s] = NoAdminCall
        /\ \A t \in AdminSlots : t # s => adminCalls'[t] = adminCalls[t]
    BY <1>1, <1>2, <2>1
  <2>3. Fitting(NoAdminCall)
    BY <1>2 DEF Fitting
  <2>4. \A t \in AdminSlots : Fitting(adminCalls'[t])
    BY <2>2, <2>3 DEF AdminTypes
  <2>5. \A t \in AdminSlots : Heard(t)
    BY <1>2, <1>4, <2>2 DEF Heard, Creating, Changing
  <2>6. QED
    BY <1>2, <2>2, <2>4, <2>5
<1>5. QED
  BY <1>3, <1>4

\* The calls of a component that is unmounted are freed, or nobody waits for them.
LEMMA AbandonedShape ==
  ASSUME AdminTypes, NEW ops
  PROVE  /\ Abandoned(ops) \in [AdminSlots -> AdminCalls]
         /\ \A s \in AdminSlots :
              LET d == Abandoned(ops)[s]
              IN /\ Fitting(d)
                 /\ \/ d = adminCalls[s] /\ adminCalls[s].op \notin ops
                    \/ d.op = "none"
                    \/ /\ adminCalls[s].op \in ops /\ ServerSide(adminCalls[s])
                       /\ d.op = adminCalls[s].op /\ ~d.live
<1>1. /\ NoAdminCall \in AdminCalls /\ NoAdminCall.op = "none" /\ Fitting(NoAdminCall)
  BY DEF NoAdminCall, AdminCalls, Changes, Rows, Fitting
<1> DEFINE D(s) == CASE adminCalls[s].op \notin ops -> adminCalls[s]
                     [] adminCalls[s].op \in ops /\ ServerSide(adminCalls[s]) ->
                          [adminCalls[s] EXCEPT !.live = FALSE]
                     [] OTHER -> NoAdminCall
<1>2. ASSUME NEW s \in AdminSlots
      PROVE  /\ D(s) \in AdminCalls /\ Fitting(D(s))
             /\ \/ D(s) = adminCalls[s] /\ adminCalls[s].op \notin ops
                \/ D(s).op = "none"
                \/ /\ adminCalls[s].op \in ops /\ ServerSide(adminCalls[s])
                   /\ D(s).op = adminCalls[s].op /\ ~D(s).live
  <2>1. adminCalls[s] \in AdminCalls /\ Fitting(adminCalls[s])
    BY DEF AdminTypes
  <2>2. CASE adminCalls[s].op \notin ops
    BY <2>1, <2>2
  <2>3. CASE adminCalls[s].op \in ops /\ ServerSide(adminCalls[s])
    <3> DEFINE d == [adminCalls[s] EXCEPT !.live = FALSE]
    <3>1. D(s) = d
      BY <2>3
    <3>2. /\ d \in AdminCalls /\ d.op = adminCalls[s].op /\ d.arg = adminCalls[s].arg
          /\ d.at = adminCalls[s].at /\ ~d.live
      BY <2>1 DEF AdminCalls
    <3> HIDE DEF d
    <3>3. Fitting(d)
      BY <2>1, <2>3, <3>2 DEF Fitting, ServerSide
    <3> HIDE DEF D
    <3>4. QED
      BY <2>3, <3>1, <3>2, <3>3
  <2>4. CASE adminCalls[s].op \in ops /\ ~ServerSide(adminCalls[s])
    <3>1. D(s) = NoAdminCall
      BY <2>4
    <3> HIDE DEF D
    <3>2. QED
      BY <1>1, <3>1
  <2>5. QED
    BY <2>2, <2>3, <2>4
<1>3. Abandoned(ops) = [s \in AdminSlots |-> D(s)]
  BY DEF Abandoned
<1> HIDE DEF D
<1>4. QED
  BY <1>2, <1>3

LEMMA SpentShape ==
  ASSUME AdminTypes, NEW kind \in {"changes", "tokens", "lost", "visits"}, admin.left[kind] > 0
  PROVE  /\ Spent(kind) \in AdminState /\ Spent(kind).left \in Left
         /\ Spent(kind) = [admin EXCEPT !.left = Spent(kind).left]
<1>1. admin.left \in Left /\ admin.left[kind] \in Nat
  BY DEF AdminTypes, AdminState, Left
<1>2. admin.left[kind] - 1 \in Nat
  BY <1>1
<1>3. [admin.left EXCEPT ![kind] = admin.left[kind] - 1] \in Left
  BY <1>1, <1>2 DEF Left
<1>4. QED
  BY <1>3 DEF Spent, AdminTypes, AdminState

LEMMA NotedShape ==
  ASSUME NEW a \in AdminState, NEW mishap \in AdminMishaps, NEW cond \in BOOLEAN
  PROVE  LET b == AdminNoted(a, mishap, cond)
         IN /\ b \in AdminState /\ b = [a EXCEPT !.mishaps = b.mishaps]
            /\ b.mishaps = IF cond THEN a.mishaps \cup {mishap} ELSE a.mishaps
<1>1. CASE cond
  BY <1>1 DEF AdminNoted, AdminState
<1>2. CASE ~cond
  BY <1>2 DEF AdminNoted, AdminState
<1>3. QED
  BY <1>1, <1>2

----------------------------------------------------------------------------
\* What leaves each part of the invariant alone.

LEMMA SecretsFrame ==
  ASSUME Secrets, UNCHANGED tokens, admin'.seen = admin.seen,
         admin.mishaps \subseteq admin'.mishaps,
         \/ admin'.dialog = admin.dialog
         \/ admin.dialog # "creating"
         \/ "closed" \in admin'.mishaps,
         \A s \in AdminSlots :
           /\ Creating(s)' => Creating(s)
           /\ Creating(s) /\ adminCalls[s].live =>
                /\ Creating(s)' /\ adminCalls'[s].live /\ adminCalls'[s].arg = adminCalls[s].arg
                /\ adminCalls[s].at = "ok" =>
                     adminCalls'[s].at = "ok" \/ "lost" \in admin'.mishaps
  PROVE  Secrets'
<1> SUFFICES ASSUME admin'.mishaps \cap {"closed", "lost"} = {} PROVE Secrets'
  BY DEF Secrets
<1>1. admin.mishaps \cap {"closed", "lost"} = {} /\ Live' = Live
  BY DEF Live
<1>2. \A s \in AdminSlots : Creating(s)' => /\ admin'.dialog = "creating" /\ adminCalls'[s].live
                                            /\ adminCalls'[s].at # "ok" => adminCalls'[s].arg = NoOne
  BY <1>1 DEF Secrets
<1>3. \A p \in Live : \/ p \in admin'.seen
                      \/ \E s \in AdminSlots : Creating(s)' /\ adminCalls'[s].arg = p
  BY <1>1 DEF Secrets
<1>4. QED
  BY <1>1, <1>2, <1>3 DEF Secrets

\* With no dialog to wait for it, no token is being created.
LEMMA SecretsQuiet ==
  ASSUME Secrets, UNCHANGED tokens, admin'.seen = admin.seen,
         admin.mishaps \subseteq admin'.mishaps,
         admin.dialog # "creating" \/ "closed" \in admin'.mishaps,
         \A s \in AdminSlots : Creating(s)' => Creating(s)
  PROVE  Secrets'
<1> SUFFICES ASSUME admin'.mishaps \cap {"closed", "lost"} = {} PROVE Secrets'
  BY DEF Secrets
<1>1. Live' = Live /\ \A s \in AdminSlots : ~Creating(s)
  BY DEF Live, Secrets
<1>2. \A p \in Live : p \in admin'.seen
  BY <1>1 DEF Secrets
<1>3. QED
  BY <1>1, <1>2 DEF Secrets

LEMMA OneChangeFrame ==
  ASSUME OneChange, UNCHANGED accounts, admin.mishaps \subseteq admin'.mishaps,
         admin'.busy = admin.busy, admin'.menus \subseteq admin.menus,
         \A s \in AdminSlots :
           /\ Changing(s)' => Changing(s)
           /\ adminCalls'[s].op = "patch" =>
                /\ adminCalls[s].op = "patch" /\ adminCalls'[s].live = adminCalls[s].live
                /\ adminCalls'[s].at = "checked" => adminCalls'[s] = adminCalls[s]
  PROVE  OneChange'
<1> SUFFICES ASSUME Calm' PROVE OneChange'
  BY DEF OneChange
<1>1. Calm
  BY DEF Calm
<1>2. /\ \A s \in AdminSlots : Changing(s)' => admin'.busy
      /\ \A s, t \in AdminSlots : Changing(s)' /\ Changing(t)' => s = t
      /\ \A s \in AdminSlots : adminCalls'[s].op = "patch" => adminCalls'[s].live
  BY <1>1 DEF OneChange
<1>3. \A s \in AdminSlots : adminCalls'[s].op = "patch" /\ adminCalls'[s].at = "checked" =>
        Remains(accounts', adminCalls'[s].arg, adminCalls'[s].change)
  BY <1>1 DEF OneChange
<1>4. /\ admin'.menus # {} => ~admin'.busy
      /\ \A e, f \in admin'.menus : e = f
      /\ \E a \in Emails : IsActiveAdmin(accounts'[a])
  BY <1>1 DEF OneChange
<1>5. QED
  BY <1>2, <1>3, <1>4 DEF OneChange

\* The page alone moves.
LEMMA PageMoves ==
  ASSUME AdminInv, UNCHANGED <<accounts, tokens, adminCalls>>, admin' \in AdminState,
         admin'.seen = admin.seen, admin'.busy = admin.busy,
         admin.mishaps \subseteq admin'.mishaps,
         \/ admin'.dialog = admin.dialog
         \/ admin.dialog # "creating"
         \/ "closed" \in admin'.mishaps
  PROVE  /\ AdminTypes' /\ Secrets'
         /\ admin'.menus \subseteq admin.menus => OneChange'
<1>1. AdminTypes'
  BY DEF AdminInv, AdminTypes
<1>2. Secrets'
  BY SecretsFrame DEF AdminInv, Creating
<1>3. admin'.menus \subseteq admin.menus => OneChange'
  BY OneChangeFrame DEF AdminInv, Changing
<1>4. QED
  BY <1>1, <1>2, <1>3

LEMMA StepOfPage ==
  ASSUME AdminInv,
         \/ DoneCreating \/ CancelRevoke
         \/ \E p \in Pats : AskRevoke(p)
         \/ \E tab \in {"members", "pending"} : ShowTab(tab)
         \/ \E e \in Emails : CloseMenu(e)
  PROVE  AdminInv'
<1>0. admin \in AdminState
  BY DEF AdminInv, AdminTypes
<1>2. CASE DoneCreating
  <2>1. /\ admin' \in AdminState /\ admin'.mishaps = admin.mishaps /\ admin'.seen = admin.seen
        /\ admin'.busy = admin.busy /\ admin'.menus = admin.menus /\ admin.dialog # "creating"
        /\ UNCHANGED <<accounts, tokens, adminCalls>>
    BY <1>0, <1>2 DEF DoneCreating, AdminState
  <2>2. QED
    BY <2>1, PageMoves DEF AdminInv
<1>3. CASE CancelRevoke \/ \E p \in Pats : AskRevoke(p)
  <2>1. PICK p \in Pats \cup {NoOne} : admin' = [admin EXCEPT !.revoking = p]
    BY <1>3 DEF CancelRevoke, AskRevoke
  <2>2. UNCHANGED <<accounts, tokens, adminCalls>>
    BY <1>3 DEF CancelRevoke, AskRevoke
  <2>3. /\ admin' \in AdminState /\ admin'.mishaps = admin.mishaps /\ admin'.seen = admin.seen
        /\ admin'.busy = admin.busy /\ admin'.menus = admin.menus
        /\ admin'.dialog = admin.dialog
    BY <1>0, <2>1 DEF AdminState
  <2>4. QED
    BY <2>2, <2>3, PageMoves DEF AdminInv
<1>4. CASE \/ \E tab \in {"members", "pending"} : ShowTab(tab)
           \/ \E e \in Emails : CloseMenu(e)
  <2>1. PICK tab \in {"members", "pending"}, menus \in SUBSET admin.menus :
          /\ admin' = [admin EXCEPT !.tab = tab, !.menus = menus]
          /\ UNCHANGED <<accounts, tokens, adminCalls>>
    <3>1. ASSUME NEW tab \in {"members", "pending"}, ShowTab(tab)
          PROVE  /\ admin' = [admin EXCEPT !.tab = tab, !.menus = {}]
                 /\ UNCHANGED <<accounts, tokens, adminCalls>>
      BY <3>1 DEF ShowTab
    <3>2. ASSUME NEW e \in Emails, CloseMenu(e)
          PROVE  /\ admin' = [admin EXCEPT !.tab = admin.tab, !.menus = admin.menus \ {e}]
                 /\ UNCHANGED <<accounts, tokens, adminCalls>>
      BY <1>0, <3>2 DEF CloseMenu, AdminState
    <3>3. admin.tab \in {"members", "pending"}
      BY <1>0 DEF AdminState
    <3>4. QED
      BY <1>4, <3>1, <3>2, <3>3
  <2>2. /\ admin' \in AdminState /\ admin'.mishaps = admin.mishaps /\ admin'.seen = admin.seen
        /\ admin'.busy = admin.busy /\ admin'.menus = menus /\ admin'.dialog = admin.dialog
    BY <1>0, <2>1 DEF AdminState
  <2>3. QED
    BY <2>1, <2>2, PageMoves DEF AdminInv
<1>5. QED
  BY <1>2, <1>3, <1>4

\* The dialog goes, and with it those who wait for its calls.
LEMMA StepCloseTokens ==
  ASSUME AdminInv, CloseTokens
  PROVE  AdminInv'
<1> DEFINE mishaps == IF admin.dialog = "creating" THEN admin.mishaps \cup {"closed"}
                      ELSE admin.mishaps
           ops == {"list", "create", "revoke"}
<1>1. /\ admin' = [admin EXCEPT !.dialog = "closed", !.shown = NoOne, !.revoking = NoOne,
                                !.mishaps = mishaps]
      /\ UNCHANGED <<accounts, tokens>> /\ adminCalls' = Abandoned(ops)
  BY DEF CloseTokens
<1>2. AdminTypes /\ admin \in AdminState
  BY DEF AdminInv, AdminTypes
<1>3. /\ mishaps \in SUBSET AdminMishaps /\ admin.mishaps \subseteq mishaps
      /\ admin.dialog = "creating" => "closed" \in mishaps
  BY <1>2 DEF AdminState, AdminMishaps
<1> HIDE DEF mishaps
<1>4. /\ admin' \in AdminState /\ admin'.mishaps = mishaps /\ admin'.seen = admin.seen
      /\ admin'.busy = admin.busy /\ admin'.menus = admin.menus
  BY <1>1, <1>2, <1>3 DEF AdminState
<1>5. /\ adminCalls' \in [AdminSlots -> AdminCalls]
      /\ \A s \in AdminSlots :
           /\ Fitting(adminCalls'[s])
           /\ \/ adminCalls'[s] = adminCalls[s] /\ adminCalls[s].op \notin ops
              \/ adminCalls'[s].op = "none"
              \/ adminCalls[s].op \in ops /\ adminCalls'[s].op = adminCalls[s].op
  BY <1>1, <1>2, AbandonedShape
<1>6. AdminTypes'
  BY <1>1, <1>2, <1>4, <1>5 DEF AdminTypes
<1>7. Secrets'
  <2>1. \A s \in AdminSlots : Creating(s)' => Creating(s)
    BY <1>5 DEF Creating
  <2>2. QED
    BY <1>1, <1>3, <1>4, <2>1, SecretsQuiet DEF AdminInv
<1>8. OneChange'
  <2>1. \A s \in AdminSlots :
          /\ Changing(s)' => Changing(s)
          /\ adminCalls'[s].op = "patch" => adminCalls'[s] = adminCalls[s]
    BY <1>5 DEF Changing
  <2>2. QED
    BY <1>1, <1>3, <1>4, <2>1, OneChangeFrame DEF AdminInv
<1>9. QED
  BY <1>6, <1>7, <1>8 DEF AdminInv

LEMMA StepOpenMenu ==
  ASSUME AdminInv, NEW e \in Emails, OpenMenu(e)
  PROVE  AdminInv'
<1>1. PICK menus \in {{}, admin.menus \ {e}} :
        admin' = [admin EXCEPT !.menus = menus \cup {e},
                               !.mishaps = IF menus = {} THEN @ ELSE @ \cup {"two menus"}]
  BY DEF OpenMenu
<1> DEFINE mishaps == IF menus = {} THEN admin.mishaps ELSE admin.mishaps \cup {"two menus"}
<1>2. /\ admin \in AdminState /\ ~admin.busy /\ UNCHANGED <<accounts, tokens, adminCalls>>
  BY DEF AdminInv, AdminTypes, OpenMenu
<1>3. /\ menus \cup {e} \in SUBSET Emails /\ mishaps \in SUBSET AdminMishaps
      /\ admin.mishaps \subseteq mishaps
      /\ "two menus" \notin mishaps => menus = {}
  BY <1>2 DEF AdminState, AdminMishaps
<1>4. admin' = [admin EXCEPT !.menus = menus \cup {e}, !.mishaps = mishaps]
  BY <1>1
<1> HIDE DEF mishaps
<1>5. /\ admin' \in AdminState /\ admin'.mishaps = mishaps /\ admin'.seen = admin.seen
      /\ admin'.busy = admin.busy /\ admin'.menus = menus \cup {e}
      /\ admin'.dialog = admin.dialog
  BY <1>2, <1>3, <1>4 DEF AdminState
<1>6. AdminTypes' /\ Secrets'
  <2>1. admin.mishaps \subseteq admin'.mishaps /\ UNCHANGED <<accounts, tokens, adminCalls>>
    BY <1>2, <1>3, <1>5
  <2>2. QED
    BY <1>5, <2>1, PageMoves DEF AdminInv
<1>7. OneChange'
  <2>1. SUFFICES ASSUME Calm' PROVE OneChange'
    BY DEF OneChange
  <2>2. Calm /\ admin'.menus = {e} /\ ~admin'.busy
    BY <1>2, <1>3, <1>5, <2>1 DEF Calm
  <2>3. \A s \in AdminSlots : ~Changing(s)
    BY <1>2, <2>2 DEF AdminInv, OneChange
  <2>4. \A s \in AdminSlots : ~Changing(s)'
    BY <1>2, <2>3 DEF Changing
  <2>5. QED
    BY <1>2, <2>2, <2>4 DEF AdminInv, OneChange
<1>8. QED
  BY <1>6, <1>7 DEF AdminInv

----------------------------------------------------------------------------
\* A change is sent by a page that has none under way.
LEMMA Starts ==
  ASSUME AdminInv, NEW call \in AdminCalls, call.op \in {"add", "remove", "patch"},
         call.at = "sent", call.arg \in Emails, call.live, CanSend,
         adminCalls' = Sent(adminCalls, call), UNCHANGED <<accounts, tokens>>,
         admin' \in AdminState, admin'.busy, admin'.seen = admin.seen,
         admin'.dialog = admin.dialog, admin.mishaps \subseteq admin'.mishaps,
         Calm' => admin'.menus = {} /\ ~admin.busy
  PROVE  AdminInv'
<1>1. /\ adminCalls \in [AdminSlots -> AdminCalls]
      /\ \E s \in AdminSlots : adminCalls[s].op = "none"
  BY DEF AdminInv, AdminTypes, CanSend, FreeAdminSlots
<1>2. PICK s \in AdminSlots :
        /\ adminCalls[s].op = "none" /\ adminCalls'[s] = call
        /\ \A t \in AdminSlots : t # s => adminCalls'[t] = adminCalls[t]
  <2>1. \E s \in AdminSlots :
          /\ adminCalls[s].op = "none" /\ Sent(adminCalls, call)[s] = call
          /\ \A t \in AdminSlots : t # s => Sent(adminCalls, call)[t] = adminCalls[t]
    BY <1>1, SentShape
  <2>2. QED
    BY <2>1
<1>3. AdminTypes'
  <2>1. adminCalls' \in [AdminSlots -> AdminCalls]
    BY <1>1, SentShape
  <2>2. Fitting(call)
    BY DEF Fitting
  <2>3. QED
    BY <1>2, <2>1, <2>2, ZenonT(60) DEF AdminInv, AdminTypes
<1>4. Secrets'
  BY <1>2, SecretsFrame DEF AdminInv, Creating
<1>5. OneChange'
  <2>1. SUFFICES ASSUME Calm' PROVE OneChange'
    BY DEF OneChange
  <2>2. Calm /\ admin'.menus = {} /\ ~admin.busy
    BY <2>1 DEF Calm
  <2>3. \A t \in AdminSlots : ~Changing(t) /\ adminCalls[t].op # "patch"
    BY <2>2 DEF AdminInv, OneChange, Changing
  <2>4. \A t \in AdminSlots : t # s => ~Changing(t)' /\ adminCalls'[t].op # "patch"
    BY <1>2, <2>3 DEF Changing
  <2>5. adminCalls'[s].live /\ adminCalls'[s].at = "sent"
    BY <1>2
  <2>6. \E a \in Emails : IsActiveAdmin(accounts'[a])
    BY <2>2 DEF AdminInv, OneChange
  <2>7. \A t \in AdminSlots : adminCalls'[t].op = "patch" => t = s
    BY <2>4
  <2>8. QED
    BY <2>2, <2>4, <2>5, <2>6, <2>7 DEF OneChange
<1>6. QED
  BY <1>3, <1>4, <1>5 DEF AdminInv

LEMMA StepOnAdd ==
  ASSUME AdminInv, NEW e \in Emails, OnAdd(e)
  PROVE  AdminInv'
<1>1. PICK menus \in {{}, admin.menus} :
        Run([Spent("changes") EXCEPT !.menus = menus, !.mishaps =
               IF menus = {} THEN @ ELSE @ \cup {"two menus"}], AdminCall("add", e))
  BY DEF OnAdd
<1> DEFINE mishaps == IF menus = {} THEN admin.mishaps ELSE admin.mishaps \cup {"two menus"}
           left == Spent("changes").left
<1>2. /\ AdminTypes /\ admin \in AdminState /\ ~admin.busy /\ CanSend /\ left \in Left
      /\ Spent("changes") = [admin EXCEPT !.left = left]
  BY SpentShape DEF AdminInv, AdminTypes, OnAdd
<1>3. /\ menus \in SUBSET Emails /\ mishaps \in SUBSET AdminMishaps
      /\ admin.mishaps \subseteq mishaps
      /\ "two menus" \notin mishaps => menus = {}
  BY <1>2 DEF AdminState, AdminMishaps
<1>4. /\ admin' = [admin EXCEPT !.left = left, !.menus = menus, !.mishaps = mishaps, !.busy = TRUE]
      /\ adminCalls' = Sent(adminCalls, AdminCall("add", e)) /\ UNCHANGED <<accounts, tokens>>
  BY <1>1, <1>2 DEF Run, AdminState
<1> HIDE DEF mishaps, left
<1>5. /\ admin' \in AdminState /\ admin'.busy /\ admin'.seen = admin.seen
      /\ admin'.dialog = admin.dialog /\ admin'.mishaps = mishaps /\ admin'.menus = menus
  BY <1>2, <1>3, <1>4 DEF AdminState
<1>6. /\ AdminCall("add", e) \in AdminCalls /\ AdminCall("add", e).op = "add"
      /\ AdminCall("add", e).at = "sent" /\ AdminCall("add", e).arg = e
      /\ AdminCall("add", e).live
  BY CallsTyped
<1>7. /\ admin.mishaps \subseteq admin'.mishaps
      /\ Calm' => admin'.menus = {} /\ ~admin.busy
  BY <1>2, <1>3, <1>5 DEF Calm
<1>8. QED
  BY <1>2, <1>4, <1>5, <1>6, <1>7, Starts

LEMMA StepAct ==
  ASSUME AdminInv, NEW e \in Emails, NEW change \in Changes, Act(e, change)
  PROVE  AdminInv'
<1> DEFINE left == Spent("changes").left
           call == [AdminCall("patch", e) EXCEPT !.change = change]
<1>1. /\ admin \in AdminState /\ CanSend /\ left \in Left /\ e \in admin.menus
      /\ Spent("changes") = [admin EXCEPT !.left = left]
  BY SpentShape DEF AdminInv, AdminTypes, Act
<1>2. /\ admin' = [admin EXCEPT !.left = left, !.menus = @ \ {e}, !.busy = TRUE]
      /\ adminCalls' = Sent(adminCalls, call) /\ UNCHANGED <<accounts, tokens>>
  BY <1>1 DEF Act, Run, AdminState
<1>3. /\ call \in AdminCalls /\ call.op = "patch" /\ call.at = "sent" /\ call.arg = e /\ call.live
  BY CallsTyped DEF AdminCalls
<1> HIDE DEF call, left
<1>4. /\ admin' \in AdminState /\ admin'.busy /\ admin'.seen = admin.seen
      /\ admin'.dialog = admin.dialog /\ admin'.mishaps = admin.mishaps
      /\ admin'.menus = admin.menus \ {e}
  BY <1>1, <1>2 DEF AdminState
<1>5. Calm' => admin'.menus = {} /\ ~admin.busy
  BY <1>1, <1>4 DEF AdminInv, OneChange, Calm
<1>6. QED
  BY <1>1, <1>2, <1>3, <1>4, <1>5, Starts

LEMMA StepOnRemove ==
  ASSUME AdminInv, NEW e \in Emails, OnRemove(e)
  PROVE  AdminInv'
<1> DEFINE left == Spent("changes").left
<1>1. /\ admin \in AdminState /\ CanSend /\ left \in Left /\ ~admin.busy
      /\ Spent("changes") = [admin EXCEPT !.left = left]
  BY SpentShape DEF AdminInv, AdminTypes, OnRemove
<1>2. /\ admin' = [admin EXCEPT !.left = left, !.menus = {}, !.busy = TRUE]
      /\ adminCalls' = Sent(adminCalls, AdminCall("remove", e)) /\ UNCHANGED <<accounts, tokens>>
  BY <1>1 DEF OnRemove, Run, AdminState
<1> HIDE DEF left
<1>3. /\ admin' \in AdminState /\ admin'.busy /\ admin'.seen = admin.seen
      /\ admin'.dialog = admin.dialog /\ admin'.mishaps = admin.mishaps /\ admin'.menus = {}
  BY <1>1, <1>2 DEF AdminState
<1>4. /\ AdminCall("remove", e) \in AdminCalls /\ AdminCall("remove", e).op = "remove"
      /\ AdminCall("remove", e).at = "sent" /\ AdminCall("remove", e).arg = e
      /\ AdminCall("remove", e).live
  BY CallsTyped
<1>5. QED
  BY <1>1, <1>2, <1>3, <1>4, Starts

----------------------------------------------------------------------------
\* The dialog sends a call.

LEMMA Added ==
  ASSUME AdminTypes, NEW call \in AdminCalls, Fitting(call), CanSend,
         adminCalls' = Sent(adminCalls, call)
  PROVE  /\ adminCalls' \in [AdminSlots -> AdminCalls]
         /\ \A s \in AdminSlots : Fitting(adminCalls'[s])
         /\ \E s \in AdminSlots :
              /\ adminCalls[s].op = "none" /\ adminCalls'[s] = call
              /\ \A t \in AdminSlots : t # s => adminCalls'[t] = adminCalls[t]
<1>1. /\ adminCalls \in [AdminSlots -> AdminCalls]
      /\ \E s \in AdminSlots : adminCalls[s].op = "none"
  BY DEF AdminTypes, CanSend, FreeAdminSlots
<1>2. /\ Sent(adminCalls, call) \in [AdminSlots -> AdminCalls]
      /\ \E s \in AdminSlots :
           /\ adminCalls[s].op = "none" /\ Sent(adminCalls, call)[s] = call
           /\ \A t \in AdminSlots : t # s => Sent(adminCalls, call)[t] = adminCalls[t]
  BY <1>1, SentShape
<1>3. QED
  BY <1>2 DEF AdminTypes

LEMMA StepOfDialog ==
  ASSUME AdminInv, OpenTokens \/ ConfirmRevoke
  PROVE  AdminInv'
<1> DEFINE left == Spent("tokens").left
<1>1. /\ AdminTypes /\ admin \in AdminState /\ CanSend /\ left \in Left
      /\ Spent("tokens") = [admin EXCEPT !.left = left]
  BY SpentShape DEF AdminInv, AdminTypes, OpenTokens, ConfirmRevoke
<1> HIDE DEF left
<1>2. PICK call \in AdminCalls : /\ call.op \in {"list", "revoke"} /\ Fitting(call)
                                 /\ adminCalls' = Sent(adminCalls, call)
  <2>1. CASE OpenTokens
    BY <2>1, CallsTyped DEF OpenTokens, Fitting
  <2>2. CASE ConfirmRevoke
    <3>1. admin.revoking \in Pats /\ adminCalls' = Sent(adminCalls, AdminCall("revoke", admin.revoking))
      BY <1>1, <2>2 DEF ConfirmRevoke, AdminState
    <3>2. /\ AdminCall("revoke", admin.revoking) \in AdminCalls
          /\ AdminCall("revoke", admin.revoking).op = "revoke"
          /\ AdminCall("revoke", admin.revoking).arg = admin.revoking
          /\ AdminCall("revoke", admin.revoking).live
      BY <3>1, CallsTyped
    <3>3. QED
      BY <3>1, <3>2 DEF Fitting
  <2>3. QED
    BY <2>1, <2>2
<1>3. /\ admin' \in AdminState /\ admin'.seen = admin.seen /\ admin'.mishaps = admin.mishaps
      /\ admin'.busy = admin.busy /\ admin'.menus = admin.menus
      /\ admin'.dialog = admin.dialog \/ admin.dialog # "creating"
      /\ UNCHANGED <<accounts, tokens>>
  <2>1. CASE OpenTokens
    BY <1>1, <2>1 DEF OpenTokens, AdminState
  <2>2. CASE ConfirmRevoke
    BY <1>1, <2>2 DEF ConfirmRevoke, AdminState
  <2>3. QED
    BY <2>1, <2>2
<1>4. /\ adminCalls' \in [AdminSlots -> AdminCalls]
      /\ \A s \in AdminSlots : Fitting(adminCalls'[s])
      /\ \E s \in AdminSlots :
           /\ adminCalls[s].op = "none" /\ adminCalls'[s] = call
           /\ \A t \in AdminSlots : t # s => adminCalls'[t] = adminCalls[t]
  BY <1>1, <1>2, Added
<1>5. AdminTypes'
  BY <1>1, <1>3, <1>4 DEF AdminTypes
<1>6. Secrets'
  BY <1>2, <1>3, <1>4, SecretsFrame DEF AdminInv, Creating
<1>7. OneChange'
  BY <1>2, <1>3, <1>4, OneChangeFrame DEF AdminInv, Changing
<1>8. QED
  BY <1>5, <1>6, <1>7 DEF AdminInv

LEMMA StepGenerate ==
  ASSUME AdminInv, Generate
  PROVE  AdminInv'
<1> DEFINE left == Spent("tokens").left
           call == AdminCall("create", NoOne)
<1>1. /\ AdminTypes /\ admin \in AdminState /\ CanSend /\ left \in Left
      /\ Spent("tokens") = [admin EXCEPT !.left = left]
  BY SpentShape DEF AdminInv, AdminTypes, Generate
<1>2. /\ admin.dialog = "form" /\ admin' = [admin EXCEPT !.left = left, !.dialog = "creating"]
      /\ adminCalls' = Sent(adminCalls, call) /\ UNCHANGED <<accounts, tokens>>
  BY <1>1 DEF Generate, AdminState
<1>3. call \in AdminCalls /\ call.op = "create" /\ call.arg = NoOne /\ call.live /\ Fitting(call)
  BY CallsTyped DEF Fitting
<1> HIDE DEF left, call
<1>4. /\ admin' \in AdminState /\ admin'.seen = admin.seen /\ admin'.mishaps = admin.mishaps
      /\ admin'.busy = admin.busy /\ admin'.menus = admin.menus /\ admin'.dialog = "creating"
  BY <1>1, <1>2 DEF AdminState
<1>5. /\ adminCalls' \in [AdminSlots -> AdminCalls]
      /\ \A s \in AdminSlots : Fitting(adminCalls'[s])
      /\ \E s \in AdminSlots :
           /\ adminCalls[s].op = "none" /\ adminCalls'[s] = call
           /\ \A t \in AdminSlots : t # s => adminCalls'[t] = adminCalls[t]
  BY <1>1, <1>2, <1>3, Added
<1>6. AdminTypes'
  BY <1>1, <1>2, <1>4, <1>5 DEF AdminTypes
<1>7. Secrets'
  <2>1. SUFFICES ASSUME admin'.mishaps \cap {"closed", "lost"} = {} PROVE Secrets'
    BY DEF Secrets
  <2>2. \A t \in AdminSlots : ~Creating(t)
    BY <1>2, <1>4, <2>1 DEF AdminInv, Secrets
  <2>3. \A p \in Live' : p \in admin'.seen
    BY <1>2, <1>4, <2>1, <2>2 DEF AdminInv, Secrets, Live
  <2>4. PICK s \in AdminSlots :
          /\ adminCalls[s].op = "none" /\ adminCalls'[s] = call
          /\ \A t \in AdminSlots : t # s => adminCalls'[t] = adminCalls[t]
    BY <1>5
  <2>5. \A t \in AdminSlots : Creating(t)' => t = s
    BY <2>2, <2>4 DEF Creating
  <2>6. QED
    BY <1>3, <1>4, <2>3, <2>4, <2>5 DEF Secrets
<1>8. OneChange'
  BY <1>2, <1>3, <1>4, <1>5, OneChangeFrame DEF AdminInv, Changing
<1>9. QED
  BY <1>6, <1>7, <1>8 DEF AdminInv

----------------------------------------------------------------------------
\* An answer ends a call, and may send the load that follows it.

LEMMA Ends ==
  ASSUME AdminInv, NEW s \in AdminSlots, adminCalls' = Ended(s),
         UNCHANGED <<accounts, tokens>>, admin' \in AdminState, admin'.seen = admin.seen,
         admin'.mishaps = admin.mishaps, admin'.menus \subseteq admin.menus,
         Changing(s) => ~admin'.busy, ~Changing(s) => admin'.busy = admin.busy,
         Creating(s) => adminCalls[s].at # "ok", ~Creating(s) => admin'.dialog = admin.dialog
  PROVE  AdminInv'
<1>1. /\ adminCalls' \in [AdminSlots -> AdminCalls] /\ adminCalls'[s].op = "none"
      /\ adminCalls'[s].live
      /\ \A t \in AdminSlots : t # s => adminCalls'[t] = adminCalls[t]
  BY EndedShape DEF AdminInv
<1>2. AdminTypes'
  <2>1. \A t \in AdminSlots : Fitting(adminCalls'[t])
    BY <1>1 DEF AdminInv, AdminTypes, Fitting
  <2>2. QED
    BY <1>1, <2>1 DEF AdminInv, AdminTypes
<1>3. Secrets'
  <2>1. CASE ~Creating(s)
    BY <1>1, <2>1, SecretsFrame DEF AdminInv, Creating
  <2>2. CASE Creating(s)
    <3>1. SUFFICES ASSUME admin'.mishaps \cap {"closed", "lost"} = {} PROVE Secrets'
      BY DEF Secrets
    <3>2. \A t \in AdminSlots : ~Creating(t)'
      BY <1>1, <2>2, <3>1 DEF AdminInv, Secrets, Creating
    <3>3. adminCalls[s].arg = NoOne
      BY <2>2, <3>1 DEF AdminInv, Secrets
    <3>4. \A p \in Live : p \in admin.seen
      <4>1. SUFFICES ASSUME NEW p \in Live, p \notin admin.seen PROVE FALSE
        OBVIOUS
      <4>2. PICK t \in AdminSlots : Creating(t) /\ adminCalls[t].arg = p
        BY <3>1, <4>1 DEF AdminInv, Secrets
      <4>3. t = s /\ p \in Pats
        BY <2>2, <3>1, <4>1, <4>2 DEF AdminInv, Secrets, Live
      <4>4. QED
        BY <3>3, <4>2, <4>3, AdminAssumption
    <3>5. Live' = Live
      BY DEF Live
    <3>6. QED
      BY <3>2, <3>4, <3>5 DEF Secrets
  <2>3. QED
    BY <2>1, <2>2
<1>4. OneChange'
  <2>1. CASE ~Changing(s)
    BY <1>1, <2>1, OneChangeFrame DEF AdminInv, Changing
  <2>2. CASE Changing(s)
    <3>1. SUFFICES ASSUME Calm' PROVE OneChange'
      BY DEF OneChange
    <3>2. Calm /\ \A t \in AdminSlots : Changing(t) => t = s
      BY <2>2, <3>1 DEF AdminInv, OneChange, Calm
    <3>3. \A t \in AdminSlots : ~Changing(t)' /\ adminCalls'[t].op # "patch"
      <4>1. ASSUME NEW t \in AdminSlots, t # s
            PROVE  ~Changing(t)' /\ adminCalls'[t].op # "patch"
        BY <1>1, <3>2, <4>1 DEF AdminInv, OneChange, Changing
      <4>2. ~Changing(s)' /\ adminCalls'[s].op # "patch"
        BY <1>1 DEF Changing
      <4>3. QED
        BY <4>1, <4>2
    <3>4. QED
      BY <2>2, <3>1, <3>2, <3>3 DEF AdminInv, OneChange
  <2>3. QED
    BY <2>1, <2>2
<1>5. QED
  BY <1>2, <1>3, <1>4 DEF AdminInv

\* The call that follows takes a free slot, perhaps the one that was freed.
LEMMA Replaced ==
  ASSUME AdminTypes, NEW s \in AdminSlots, NEW call \in AdminCalls, Fitting(call),
         adminCalls' = Sent(Ended(s), call)
  PROVE  /\ adminCalls' \in [AdminSlots -> AdminCalls]
         /\ \A t \in AdminSlots : Fitting(adminCalls'[t])
         /\ \A u \in AdminSlots : \/ adminCalls'[u] = call
                                  \/ adminCalls'[u].op = "none"
                                  \/ adminCalls'[u] = adminCalls[u] /\ u # s
         /\ \E t \in AdminSlots :
              /\ t = s \/ adminCalls[t].op = "none"
              /\ adminCalls'[t] = call
              /\ t # s => adminCalls'[s].op = "none"
              /\ \A u \in AdminSlots \ {s, t} : adminCalls'[u] = adminCalls[u]
<1>1. /\ Ended(s) \in [AdminSlots -> AdminCalls] /\ Ended(s)[s].op = "none" /\ Ended(s)[s].live
      /\ \A t \in AdminSlots : t # s => Ended(s)[t] = adminCalls[t]
  BY EndedShape
<1>2. /\ Sent(Ended(s), call) \in [AdminSlots -> AdminCalls]
      /\ \E t \in AdminSlots :
           /\ Ended(s)[t].op = "none" /\ Sent(Ended(s), call)[t] = call
           /\ \A u \in AdminSlots : u # t => Sent(Ended(s), call)[u] = Ended(s)[u]
  <2>1. \E t \in AdminSlots : Ended(s)[t].op = "none"
    BY <1>1
  <2>2. QED
    BY <1>1, <2>1, SentShape
<1>3. PICK t \in AdminSlots :
        /\ Ended(s)[t].op = "none" /\ adminCalls'[t] = call
        /\ \A u \in AdminSlots : u # t => adminCalls'[u] = Ended(s)[u]
  BY <1>2
<1>4. \A u \in AdminSlots : Fitting(adminCalls'[u])
  <2>1. ASSUME NEW u \in AdminSlots PROVE Fitting(adminCalls'[u])
    <3>1. CASE u = t
      BY <1>3, <3>1
    <3>2. CASE u # t /\ u = s
      BY <1>1, <1>3, <3>2 DEF Fitting
    <3>3. CASE u # t /\ u # s
      BY <1>1, <1>3, <3>3 DEF AdminTypes
    <3>4. QED
      BY <3>1, <3>2, <3>3
  <2>2. QED
    BY <2>1
<1>5. \A u \in AdminSlots : \/ adminCalls'[u] = call
                            \/ adminCalls'[u].op = "none"
                            \/ adminCalls'[u] = adminCalls[u] /\ u # s
  <2>1. ASSUME NEW u \in AdminSlots, u # t, u = s PROVE adminCalls'[u].op = "none"
    BY <1>1, <1>3, <2>1
  <2>2. ASSUME NEW u \in AdminSlots, u # t, u # s PROVE adminCalls'[u] = adminCalls[u]
    BY <1>1, <1>3, <2>2
  <2>3. ASSUME NEW u \in AdminSlots, u = t PROVE adminCalls'[u] = call
    BY <1>3, <2>3
  <2>4. ASSUME NEW u \in AdminSlots
        PROVE  \/ adminCalls'[u] = call
               \/ adminCalls'[u].op = "none"
               \/ adminCalls'[u] = adminCalls[u] /\ u # s
    <3>1. CASE u = t
      BY <2>3, <3>1
    <3>2. CASE u # t /\ u = s
      BY <2>1, <3>2
    <3>3. CASE u # t /\ u # s
      BY <2>2, <3>3
    <3>4. QED
      BY <3>1, <3>2, <3>3
  <2>5. QED
    BY <2>4
<1>6. QED
  BY <1>1, <1>2, <1>3, <1>4, <1>5

\* The answer to the dialog's calls, and the list that follows it.
LEMMA Lists ==
  ASSUME AdminInv, NEW s \in AdminSlots, adminCalls[s].op \in {"create", "revoke"},
         adminCalls' = Sent(Ended(s), AdminCall("list", NoOne)),
         UNCHANGED <<accounts, tokens>>, admin' \in AdminState, admin'.busy = admin.busy,
         admin'.menus = admin.menus, admin'.mishaps = admin.mishaps,
         admin.seen \subseteq admin'.seen,
         ~Creating(s) => admin'.dialog = admin.dialog /\ admin'.seen = admin.seen,
         Creating(s) => adminCalls[s].arg \in admin'.seen
  PROVE  AdminInv'
<1> DEFINE call == AdminCall("list", NoOne)
<1>1. call \in AdminCalls /\ call.op = "list" /\ Fitting(call)
  BY CallsTyped DEF Fitting
<1> HIDE DEF call
<1>2. /\ adminCalls' \in [AdminSlots -> AdminCalls]
      /\ \A t \in AdminSlots : Fitting(adminCalls'[t])
      /\ \E t \in AdminSlots :
           /\ t = s \/ adminCalls[t].op = "none"
           /\ adminCalls'[t] = call
           /\ t # s => adminCalls'[s].op = "none"
           /\ \A u \in AdminSlots \ {s, t} : adminCalls'[u] = adminCalls[u]
  BY <1>1, Replaced DEF AdminInv, call
<1>3. PICK t \in AdminSlots :
        /\ t = s \/ adminCalls[t].op = "none"
        /\ adminCalls'[t] = call
        /\ t # s => adminCalls'[s].op = "none"
        /\ \A u \in AdminSlots \ {s, t} : adminCalls'[u] = adminCalls[u]
  BY <1>2
<1>4. AdminTypes'
  BY <1>2 DEF AdminInv, AdminTypes
<1>5. \A u \in AdminSlots : \/ adminCalls'[u].op \in {"none", "list"}
                            \/ adminCalls'[u] = adminCalls[u] /\ u # s
  <2>1. \A u \in AdminSlots : \/ adminCalls'[u] = call
                              \/ adminCalls'[u].op = "none"
                              \/ adminCalls'[u] = adminCalls[u] /\ u # s
    BY <1>1, Replaced DEF AdminInv, call
  <2>2. QED
    BY <1>1, <2>1
<1>6. OneChange'
  <2>1. \A u \in AdminSlots :
          /\ Changing(u)' => Changing(u)
          /\ adminCalls'[u].op = "patch" => adminCalls'[u] = adminCalls[u]
    BY <1>5 DEF Changing
  <2>2. QED
    BY <2>1, OneChangeFrame DEF AdminInv
<1>7. Secrets'
  <2>1. CASE ~Creating(s)
    <3>1. \A u \in AdminSlots : Creating(u) => adminCalls'[u] = adminCalls[u]
      BY <1>3, <2>1 DEF Creating
    <3>2. \A u \in AdminSlots : Creating(u)' <=> Creating(u)
      BY <1>5, <3>1 DEF Creating
    <3>3. QED
      BY <2>1, <3>1, <3>2, SecretsFrame DEF AdminInv
  <2>2. CASE Creating(s)
    <3>1. SUFFICES ASSUME admin'.mishaps \cap {"closed", "lost"} = {} PROVE Secrets'
      BY DEF Secrets
    <3>2. /\ admin.mishaps \cap {"closed", "lost"} = {} /\ admin.dialog = "creating"
          /\ \A u \in AdminSlots : Creating(u) => u = s
      BY <2>2, <3>1 DEF AdminInv, Secrets
    <3>3. \A u \in AdminSlots : ~Creating(u)'
      BY <1>5, <3>2 DEF Creating
    <3>4. \A p \in Live : p \in admin'.seen
      BY <2>2, <3>2 DEF AdminInv, Secrets
    <3>5. Live' = Live
      BY DEF Live
    <3>6. QED
      BY <3>3, <3>4, <3>5 DEF Secrets
  <2>3. QED
    BY <2>1, <2>2
<1>8. QED
  BY <1>4, <1>6, <1>7 DEF AdminInv

LEMMA StepOfAnswers ==
  ASSUME AdminInv, NEW s \in AdminSlots,
         CreateAnswered(s) \/ RevokeAnswered(s) \/ ListAnswered(s) \/ LoadAnswered(s)
  PROVE  AdminInv'
<1>0. /\ admin \in AdminState /\ adminCalls[s] \in AdminCalls /\ Fitting(adminCalls[s])
      /\ UNCHANGED <<accounts, tokens>>
  BY DEF AdminInv, AdminTypes, CreateAnswered, RevokeAnswered, ListAnswered, LoadAnswered
<1>1. CASE CreateAnswered(s)
  <2>1. Creating(s) /\ ~Changing(s)
    BY <1>1 DEF CreateAnswered, Creating, Changing
  <2>2. CASE adminCalls[s].at = "ok"
    <3>1. adminCalls[s].arg \in Pats /\ adminCalls' = Sent(Ended(s), AdminCall("list", NoOne))
      BY <1>0, <1>1, <2>1, <2>2 DEF CreateAnswered, Creating, Fitting
    <3>2. admin' = [admin EXCEPT !.dialog = "created", !.shown = adminCalls[s].arg,
                                 !.seen = admin.seen \cup {adminCalls[s].arg}]
      BY <1>1, <2>2 DEF CreateAnswered
    <3>3. /\ admin' \in AdminState /\ admin'.busy = admin.busy /\ admin'.menus = admin.menus
          /\ admin'.mishaps = admin.mishaps /\ admin'.seen = admin.seen \cup {adminCalls[s].arg}
      BY <1>0, <3>1, <3>2 DEF AdminState
    <3>4. QED
      BY <1>0, <2>1, <3>1, <3>3, Lists DEF Creating
  <2>3. CASE adminCalls[s].at # "ok"
    <3>1. /\ admin' \in AdminState /\ admin'.seen = admin.seen /\ admin'.mishaps = admin.mishaps
          /\ admin'.busy = admin.busy /\ admin'.menus = admin.menus
          /\ adminCalls' = Ended(s)
      BY <1>0, <1>1, <2>3, ZenonT(60) DEF CreateAnswered, AdminState
    <3>2. QED
      BY <1>0, <2>1, <2>3, <3>1, Ends DEF Creating
  <2>4. QED
    BY <2>2, <2>3
<1>2. CASE RevokeAnswered(s)
  <2>1. /\ adminCalls[s].op = "revoke" /\ ~Creating(s) /\ ~Changing(s)
        /\ admin' \in AdminState /\ admin'.seen = admin.seen /\ admin'.mishaps = admin.mishaps
        /\ admin'.busy = admin.busy /\ admin'.menus = admin.menus /\ admin'.dialog = admin.dialog
        /\ adminCalls' = Ended(s) \/ adminCalls' = Sent(Ended(s), AdminCall("list", NoOne))
    BY <1>0, <1>2 DEF RevokeAnswered, Creating, Changing
  <2>2. CASE adminCalls' = Ended(s)
    BY <1>0, <2>1, <2>2, Ends
  <2>3. CASE adminCalls' = Sent(Ended(s), AdminCall("list", NoOne))
    BY <1>0, <2>1, <2>3, Lists
  <2>4. QED
    BY <2>1, <2>2, <2>3
<1>3. CASE ListAnswered(s)
  <2>1. /\ adminCalls[s].op = "list" /\ ~Creating(s) /\ ~Changing(s) /\ adminCalls' = Ended(s)
    BY <1>3 DEF ListAnswered, Creating, Changing
  <2>2. /\ admin' \in AdminState /\ admin'.seen = admin.seen /\ admin'.mishaps = admin.mishaps
        /\ admin'.busy = admin.busy /\ admin'.menus = admin.menus /\ admin'.dialog = admin.dialog
    BY <1>0, <1>3 DEF ListAnswered, AdminState, AdminCalls
  <2>3. QED
    BY <1>0, <2>1, <2>2, Ends
<1>4. CASE LoadAnswered(s)
  <2>1. /\ adminCalls[s].op = "load" /\ adminCalls[s].arg \in {self, NoOne} /\ self # NoOne
        /\ admin.busy \in BOOLEAN /\ adminCalls[s].live
    BY <1>0, <1>4, AdminAssumption DEF LoadAnswered, Fitting, AdminState
  <2>2. Changing(s) <=> adminCalls[s].arg = self
    BY <2>1 DEF Changing
  <2>3. PICK busy \in BOOLEAN, failed \in BOOLEAN, rows \in Rows, menus \in SUBSET admin.menus :
          /\ admin' = [admin EXCEPT !.rows = rows, !.failed = failed, !.busy = busy,
                                    !.menus = menus]
          /\ Changing(s) => ~busy
          /\ ~Changing(s) => busy = admin.busy
    <3> DEFINE kept == {e \in admin.menus : adminCalls[s].rows[e].place = "member"}
               busy == admin.busy /\ adminCalls[s].arg = NoOne
    <3>1. /\ busy \in BOOLEAN
          /\ Changing(s) => ~busy
          /\ ~Changing(s) => busy = admin.busy
      BY <2>1, <2>2
    <3>2. CASE adminCalls[s].at = "ok"
      <4>1. admin' = [admin EXCEPT !.rows = adminCalls[s].rows, !.failed = FALSE, !.busy = busy,
                                   !.menus = kept]
        BY <1>4, <3>2 DEF LoadAnswered
      <4>2. adminCalls[s].rows \in Rows /\ kept \in SUBSET admin.menus
        BY <1>0 DEF AdminCalls
      <4> HIDE DEF busy, kept
      <4>3. QED
        BY <3>1, <4>1, <4>2
    <3>3. CASE adminCalls[s].at # "ok"
      <4>1. admin' = [admin EXCEPT !.rows = admin.rows, !.failed = TRUE, !.busy = busy,
                                   !.menus = {}]
        BY <1>0, <1>4, <3>3 DEF LoadAnswered, AdminState
      <4>2. admin.rows \in Rows /\ {} \in SUBSET admin.menus
        BY <1>0 DEF AdminState
      <4> HIDE DEF busy, kept
      <4>3. QED
        BY <3>1, <4>1, <4>2
    <3>4. QED
      BY <3>2, <3>3
  <2>4. /\ admin' \in AdminState /\ admin'.seen = admin.seen /\ admin'.mishaps = admin.mishaps
        /\ admin'.busy = busy /\ admin'.menus \subseteq admin.menus
        /\ admin'.dialog = admin.dialog
    BY <1>0, <2>3 DEF AdminState
  <2>5. /\ Changing(s) => ~admin'.busy
        /\ ~Changing(s) => admin'.busy = admin.busy
    BY <2>3, <2>4
  <2>6. ~Creating(s) /\ adminCalls' = Ended(s)
    BY <1>4, <2>1 DEF LoadAnswered, Creating
  <2>7. QED
    BY <1>0, <2>4, <2>5, <2>6, Ends
<1>5. QED
  BY <1>1, <1>2, <1>3, <1>4

\* The answer to a change: the load that follows belongs to it.
LEMMA StepRunAnswered ==
  ASSUME AdminInv, NEW s \in AdminSlots, RunAnswered(s)
  PROVE  AdminInv'
<1>0. /\ admin \in AdminState /\ UNCHANGED <<accounts, tokens>>
      /\ adminCalls[s].op \in {"add", "remove", "patch"} /\ Changing(s) /\ ~Creating(s)
  BY DEF AdminInv, AdminTypes, Fitting, RunAnswered, Changing, Creating
<1> DEFINE tab == IF adminCalls[s].op = "add" THEN "pending" ELSE admin.tab
<1>1. tab \in {"members", "pending"}
  BY <1>0 DEF AdminState
<1>2. CASE adminCalls[s].at = "ok"
  <2> DEFINE call == AdminCall("load", self)
  <2>1. admin' = [admin EXCEPT !.tab = tab] /\ adminCalls' = Sent(Ended(s), call)
    BY <1>2 DEF RunAnswered, RunMoved
  <2>2. /\ call \in AdminCalls /\ call.op = "load" /\ call.at = "sent" /\ call.live /\ Fitting(call)
    BY CallsTyped, AdminAssumption DEF Fitting
  <2> HIDE DEF tab, call
  <2>3. /\ admin' \in AdminState /\ admin'.seen = admin.seen /\ admin'.mishaps = admin.mishaps
        /\ admin'.busy = admin.busy /\ admin'.menus = admin.menus
        /\ admin'.dialog = admin.dialog
    BY <1>0, <1>1, <2>1 DEF AdminState
  <2>4. /\ adminCalls' \in [AdminSlots -> AdminCalls]
        /\ \A t \in AdminSlots : Fitting(adminCalls'[t])
        /\ \A u \in AdminSlots : \/ adminCalls'[u] = call
                                 \/ adminCalls'[u].op = "none"
                                 \/ adminCalls'[u] = adminCalls[u] /\ u # s
    BY <2>1, <2>2, Replaced DEF AdminInv
  <2>5. PICK t \in AdminSlots :
          /\ t = s \/ adminCalls[t].op = "none"
          /\ adminCalls'[t] = call
          /\ t # s => adminCalls'[s].op = "none"
          /\ \A u \in AdminSlots \ {s, t} : adminCalls'[u] = adminCalls[u]
    BY <2>1, <2>2, Replaced DEF AdminInv
  <2>6. AdminTypes'
    BY <1>0, <2>3, <2>4 DEF AdminInv, AdminTypes
  <2>7. Secrets'
    <3>1. \A u \in AdminSlots : Creating(u) => adminCalls'[u] = adminCalls[u]
      BY <1>0, <2>5 DEF Creating
    <3>2. \A u \in AdminSlots : Creating(u)' <=> Creating(u)
      BY <2>2, <2>4, <3>1 DEF Creating
    <3>3. QED
      BY <1>0, <2>3, <3>1, <3>2, SecretsFrame DEF AdminInv
  <2>8. OneChange'
    <3>1. SUFFICES ASSUME Calm' PROVE OneChange'
      BY DEF OneChange
    <3>2. Calm /\ admin.busy /\ \A u \in AdminSlots : Changing(u) => u = s
      BY <1>0, <2>3, <3>1 DEF AdminInv, OneChange, Calm
    <3>3. \A u \in AdminSlots : u # t => ~Changing(u)'
      <4>1. ASSUME NEW u \in AdminSlots, u # t, u = s PROVE ~Changing(u)'
        BY <2>5, <4>1 DEF Changing
      <4>2. ASSUME NEW u \in AdminSlots, u # t, u # s PROVE ~Changing(u)'
        BY <2>5, <3>2, <4>2 DEF Changing
      <4>3. QED
        BY <4>1, <4>2
    <3>4. \A u \in AdminSlots : adminCalls'[u].op # "patch"
      <4>1. ASSUME NEW u \in AdminSlots, adminCalls'[u].op = "patch", u # s PROVE FALSE
        <5>1. adminCalls'[u] = adminCalls[u]
          BY <2>2, <2>4, <4>1
        <5>2. Changing(u)
          BY <3>2, <4>1, <5>1 DEF AdminInv, OneChange, Changing
        <5>3. QED
          BY <3>2, <4>1, <5>2
      <4>2. adminCalls'[s].op # "patch"
        BY <2>2, <2>5
      <4>3. QED
        BY <4>1, <4>2
    <3>5. \E a \in Emails : IsActiveAdmin(accounts'[a])
      BY <1>0, <3>2 DEF AdminInv, OneChange
    <3>6. /\ admin'.busy /\ admin'.menus = {}
      BY <2>3, <3>2 DEF AdminInv, OneChange
    <3>7. QED
      BY <3>3, <3>4, <3>5, <3>6 DEF OneChange
  <2>9. QED
    BY <2>6, <2>7, <2>8 DEF AdminInv
<1>3. CASE adminCalls[s].at # "ok"
  <2>1. admin' = [admin EXCEPT !.tab = tab, !.busy = FALSE] /\ adminCalls' = Ended(s)
    BY <1>0, <1>3 DEF RunAnswered, RunMoved, RunFailed, AdminState
  <2> HIDE DEF tab
  <2>2. /\ admin' \in AdminState /\ admin'.seen = admin.seen /\ admin'.mishaps = admin.mishaps
        /\ ~admin'.busy /\ admin'.menus = admin.menus /\ admin'.dialog = admin.dialog
    BY <1>0, <1>1, <2>1 DEF AdminState
  <2>3. QED
    BY <1>0, <2>1, <2>2, Ends
<1>4. QED
  BY <1>2, <1>3

----------------------------------------------------------------------------
\* The server.

LEMMA StepReads ==
  ASSUME AdminInv, NEW s \in AdminSlots, ServeForbidden(s) \/ ServeAdminRead(s)
  PROVE  AdminInv'
<1>0. UNCHANGED <<accounts, tokens, admin>> /\ adminCalls[s].at = "sent" /\ AdminTypes
  BY DEF AdminInv, ServeForbidden, ServeAdminRead, MayServe
<1>1. /\ adminCalls' \in [AdminSlots -> AdminCalls]
      /\ \A t \in AdminSlots : Fitting(adminCalls'[t]) /\ Heard(t)
      /\ \A t \in AdminSlots : t # s => adminCalls'[t] = adminCalls[t]
      /\ adminCalls'[s].at # "checked"
  <2>1. CASE ServeForbidden(s)
    BY <1>0, <2>1, AnswerShape DEF ServeForbidden
  <2>2. CASE ServeAdminRead(s)
    <3>1. /\ accounts \in Rows /\ Live \in SUBSET Pats /\ adminCalls \in [AdminSlots -> AdminCalls]
      BY <1>0 DEF AdminTypes, Rows, Live
    <3>2. /\ adminCalls[s].op \in {"load", "list"}
          /\ adminCalls' = [adminCalls EXCEPT ![s].at = "ok", ![s].pats = Live, ![s].rows = accounts]
      BY <2>2 DEF ServeAdminRead, MayServe
    <3> DEFINE call == [adminCalls[s] EXCEPT !.at = "ok", !.pats = Live, !.rows = accounts]
    <3>3. /\ call \in AdminCalls /\ call.op = adminCalls[s].op /\ call.arg = adminCalls[s].arg
          /\ call.at = "ok" /\ call.live = adminCalls[s].live
      BY <3>1 DEF AdminCalls
    <3>4. adminCalls' = [adminCalls EXCEPT ![s] = call]
      BY <3>2
    <3> HIDE DEF call
    <3>5. /\ adminCalls' \in [AdminSlots -> AdminCalls] /\ adminCalls'[s] = call
          /\ \A t \in AdminSlots : t # s => adminCalls'[t] = adminCalls[t]
      BY <3>1, <3>3, <3>4
    <3>6. Fitting(call) /\ Heard(s)
      <4>1. Fitting(adminCalls[s])
        BY <1>0 DEF AdminTypes
      <4>2. Fitting(call)
        BY <3>2, <3>3, <4>1 DEF Fitting
      <4>3. Heard(s)
        BY <3>2, <3>3, <3>5 DEF Heard, Creating, Changing
      <4>4. QED
        BY <4>2, <4>3
    <3>7. ASSUME NEW t \in AdminSlots, t # s PROVE Fitting(adminCalls'[t]) /\ Heard(t)
      BY <1>0, <3>5, <3>7 DEF AdminTypes, Heard, Creating, Changing
    <3>8. adminCalls'[s].at # "checked" /\ Fitting(adminCalls'[s])
      BY <3>3, <3>5, <3>6
    <3>9. QED
      BY <3>5, <3>6, <3>7, <3>8
  <2>3. QED
    BY <2>1, <2>2
<1>2. AdminTypes'
  BY <1>0, <1>1 DEF AdminTypes
<1>3. Secrets'
  <2>1. \A t \in AdminSlots :
          /\ Creating(t)' => Creating(t)
          /\ Creating(t) /\ adminCalls[t].live =>
               /\ Creating(t)' /\ adminCalls'[t].live /\ adminCalls'[t].arg = adminCalls[t].arg
               /\ adminCalls[t].at = "ok" => adminCalls'[t].at = "ok"
    BY <1>0, <1>1 DEF Heard
  <2>2. QED
    BY <1>0, <2>1, SecretsFrame DEF AdminInv
<1>4. OneChange'
  <2>1. \A t \in AdminSlots :
          /\ Changing(t)' => Changing(t)
          /\ adminCalls'[t].op = "patch" =>
               /\ adminCalls[t].op = "patch" /\ adminCalls'[t].live = adminCalls[t].live
               /\ adminCalls'[t].at = "checked" => adminCalls'[t] = adminCalls[t]
    BY <1>1 DEF Heard
  <2>2. QED
    BY <1>0, <2>1, OneChangeFrame DEF AdminInv
<1>5. QED
  BY <1>2, <1>3, <1>4 DEF AdminInv

LEMMA StepLose ==
  ASSUME AdminInv, NEW s \in AdminSlots, LoseAdminCall(s)
  PROVE  AdminInv'
<1> DEFINE a == Spent("lost")
           create == adminCalls[s].op = "create"
<1>1. /\ AdminTypes /\ admin \in AdminState /\ a \in AdminState
      /\ a = [admin EXCEPT !.left = a.left] /\ create \in BOOLEAN
      /\ AnswerAt(s, "refused") /\ admin' = AdminNoted(a, "lost", create)
  BY SpentShape DEF AdminInv, AdminTypes, LoseAdminCall
<1>2. (create <=> Creating(s)) /\ UNCHANGED <<accounts, tokens>>
  BY DEF Creating, LoseAdminCall
<1> HIDE DEF a, create
<1>3. /\ a.seen = admin.seen /\ a.mishaps = admin.mishaps /\ a.busy = admin.busy
      /\ a.menus = admin.menus /\ a.dialog = admin.dialog
  BY <1>1 DEF AdminState
<1>4. /\ admin' \in AdminState /\ admin' = [a EXCEPT !.mishaps = admin'.mishaps]
      /\ admin'.mishaps = IF create THEN a.mishaps \cup {"lost"} ELSE a.mishaps
  <2>1. "lost" \in AdminMishaps
    BY DEF AdminMishaps
  <2>2. QED
    BY <1>1, <2>1, NotedShape
<1>5. /\ admin'.seen = admin.seen /\ admin'.busy = admin.busy /\ admin'.menus = admin.menus
      /\ admin'.dialog = admin.dialog
  BY <1>1, <1>3, <1>4 DEF AdminState
<1>6. /\ admin.mishaps \subseteq admin'.mishaps
      /\ Creating(s) => "lost" \in admin'.mishaps
  BY <1>2, <1>3, <1>4
<1>7. /\ adminCalls' \in [AdminSlots -> AdminCalls]
      /\ \A t \in AdminSlots : Fitting(adminCalls'[t]) /\ Heard(t)
      /\ \A t \in AdminSlots : t # s => adminCalls'[t] = adminCalls[t]
      /\ adminCalls'[s].at # "checked"
  BY <1>1, AnswerShape
<1>8. AdminTypes'
  BY <1>1, <1>2, <1>4, <1>7 DEF AdminTypes
<1>9. Secrets'
  <2>1. \A t \in AdminSlots :
          /\ Creating(t)' => Creating(t)
          /\ Creating(t) /\ adminCalls[t].live =>
               /\ Creating(t)' /\ adminCalls'[t].live /\ adminCalls'[t].arg = adminCalls[t].arg
               /\ adminCalls[t].at = "ok" =>
                    adminCalls'[t].at = "ok" \/ "lost" \in admin'.mishaps
    <3>1. ASSUME NEW t \in AdminSlots, Creating(t), adminCalls[t].at = "ok"
          PROVE  adminCalls'[t].at = "ok" \/ "lost" \in admin'.mishaps
      BY <1>6, <1>7, <3>1
    <3>2. QED
      BY <1>7, <3>1 DEF Heard
  <2>2. QED
    BY <1>2, <1>5, <1>6, <2>1, SecretsFrame DEF AdminInv
<1>10. OneChange'
  <2>1. \A t \in AdminSlots :
          /\ Changing(t)' => Changing(t)
          /\ adminCalls'[t].op = "patch" =>
               /\ adminCalls[t].op = "patch" /\ adminCalls'[t].live = adminCalls[t].live
               /\ adminCalls'[t].at = "checked" => adminCalls'[t] = adminCalls[t]
    BY <1>7 DEF Heard
  <2>2. QED
    BY <1>2, <1>5, <1>6, <2>1, OneChangeFrame DEF AdminInv
<1>11. QED
  BY <1>8, <1>9, <1>10 DEF AdminInv

\* The screen no longer waits for a call that the server is still at work on.
LEMMA StepDrop ==
  ASSUME AdminInv, NEW s \in AdminSlots, DropAdminCall(s)
  PROVE  AdminInv'
<1> DEFINE a == Spent("lost")
           create == adminCalls[s].op = "create"
           patch == adminCalls[s].op = "patch"
           b == AdminNoted(a, "lost", create)
           c == AdminNoted(b, "dropped", patch)
           run == adminCalls[s].op \in {"add", "remove", "patch"}
<1>1. /\ AdminTypes /\ admin \in AdminState /\ a \in AdminState
      /\ a = [admin EXCEPT !.left = a.left]
      /\ ServerSide(adminCalls[s]) /\ adminCalls[s].live /\ UNCHANGED <<accounts, tokens>>
  BY SpentShape DEF AdminInv, AdminTypes, DropAdminCall
<1>2. /\ admin' = CASE run -> RunFailed(c, s)
                    [] create -> [c EXCEPT !.dialog = "form"]
                    [] OTHER -> c
      /\ adminCalls' = [adminCalls EXCEPT ![s].live = FALSE]
  BY DEF DropAdminCall
<1>3. /\ create \in BOOLEAN /\ patch \in BOOLEAN /\ (create <=> Creating(s)) /\ (create => ~run)
      /\ "lost" \in AdminMishaps /\ "dropped" \in AdminMishaps
  BY DEF Creating, AdminMishaps
<1>4. /\ patch => run
      /\ run <=> Changing(s)
  <2>1. adminCalls[s].op # "load"
    BY <1>1 DEF ServerSide
  <2>2. QED
    BY <1>1, <2>1 DEF Changing
<1>5. patch <=> adminCalls[s].op = "patch"
  OBVIOUS
<1> DEFINE tab == IF adminCalls[s].op = "add" THEN "pending" ELSE c.tab
<1>6. RunFailed(c, s) = [[c EXCEPT !.tab = tab] EXCEPT !.busy = FALSE]
  BY DEF RunFailed, RunMoved
<1>7. c \in AdminState => tab \in {"members", "pending"}
  BY DEF AdminState
<1> HIDE DEF a, create, patch, run, tab
<1>8. /\ b \in AdminState /\ b = [a EXCEPT !.mishaps = b.mishaps]
      /\ b.mishaps = IF create THEN a.mishaps \cup {"lost"} ELSE a.mishaps
  BY <1>1, <1>3, NotedShape
<1> HIDE DEF b
<1>9. /\ c \in AdminState /\ c = [b EXCEPT !.mishaps = c.mishaps]
      /\ c.mishaps = IF patch THEN b.mishaps \cup {"dropped"} ELSE b.mishaps
  BY <1>3, <1>8, NotedShape
<1> HIDE DEF c
<1>10. /\ a.seen = admin.seen /\ a.mishaps = admin.mishaps /\ a.busy = admin.busy
       /\ a.menus = admin.menus /\ a.dialog = admin.dialog
  BY <1>1 DEF AdminState
<1>11. /\ b.seen = a.seen /\ b.busy = a.busy /\ b.menus = a.menus /\ b.dialog = a.dialog
  BY <1>1, <1>8 DEF AdminState
<1>12. /\ c.seen = admin.seen /\ c.busy = admin.busy /\ c.menus = admin.menus
       /\ c.dialog = admin.dialog
  BY <1>8, <1>9, <1>10, <1>11 DEF AdminState
<1>13. /\ admin.mishaps \subseteq c.mishaps
       /\ create => "lost" \in c.mishaps
       /\ patch => "dropped" \in c.mishaps
  BY <1>8, <1>9, <1>10
<1>14. /\ admin' \in AdminState /\ admin'.seen = admin.seen /\ admin'.menus = admin.menus
       /\ admin'.mishaps = c.mishaps
       /\ run => ~admin'.busy
       /\ ~run => admin'.busy = admin.busy
       /\ ~create => admin'.dialog = admin.dialog
  <2>1. CASE run
    <3>1. admin' = [[c EXCEPT !.tab = tab] EXCEPT !.busy = FALSE]
      BY <1>2, <1>3, <1>6, <2>1
    <3>2. QED
      BY <1>7, <1>9, <1>12, <2>1, <3>1 DEF AdminState
  <2>2. CASE create
    <3>1. admin' = [c EXCEPT !.dialog = "form"]
      BY <1>2, <1>3, <2>2
    <3>2. QED
      BY <1>3, <1>9, <1>12, <2>2, <3>1 DEF AdminState
  <2>3. CASE ~run /\ ~create
    <3>1. admin' = c
      BY <1>2, <2>3
    <3>2. QED
      BY <1>9, <1>12, <2>3, <3>1
  <2>4. QED
    BY <2>1, <2>2, <2>3
<1> DEFINE d == [adminCalls[s] EXCEPT !.live = FALSE]
<1>15. /\ adminCalls[s] \in AdminCalls /\ Fitting(adminCalls[s])
       /\ adminCalls \in [AdminSlots -> AdminCalls] /\ adminCalls' = [adminCalls EXCEPT ![s] = d]
  BY <1>1, <1>2 DEF AdminTypes
<1>16. /\ d \in AdminCalls /\ d.op = adminCalls[s].op /\ d.arg = adminCalls[s].arg
       /\ d.at = adminCalls[s].at /\ ~d.live
  BY <1>15 DEF AdminCalls
<1> HIDE DEF d
<1>17. /\ adminCalls' \in [AdminSlots -> AdminCalls] /\ adminCalls'[s] = d
       /\ \A t \in AdminSlots : t # s => adminCalls'[t] = adminCalls[t]
  BY <1>15, <1>16
<1>18. AdminTypes'
  <2>1. Fitting(d)
    BY <1>1, <1>15, <1>16 DEF Fitting, ServerSide
  <2>2. \A t \in AdminSlots : Fitting(adminCalls'[t])
    BY <1>1, <1>17, <2>1 DEF AdminTypes
  <2>3. QED
    BY <1>1, <1>14, <1>17, <2>2 DEF AdminTypes
<1>19. Secrets'
  <2>1. CASE create
    BY <1>13, <1>14, <2>1 DEF Secrets
  <2>2. CASE ~create
    <3>1. \A t \in AdminSlots :
            /\ Creating(t)' => Creating(t)
            /\ Creating(t) => adminCalls'[t] = adminCalls[t]
      BY <1>3, <1>16, <1>17, <2>2 DEF Creating
    <3>2. \A t \in AdminSlots : Creating(t) => Creating(t)'
      BY <3>1 DEF Creating
    <3>3. QED
      BY <1>1, <1>13, <1>14, <2>2, <3>1, <3>2, SecretsFrame DEF AdminInv
  <2>3. QED
    BY <2>1, <2>2
<1>20. OneChange'
  <2>1. ~Changing(s)' /\ \A t \in AdminSlots : t # s => (Changing(t)' <=> Changing(t))
    BY <1>16, <1>17 DEF Changing
  <2>2. CASE patch
    BY <1>13, <1>14, <2>2 DEF OneChange, Calm
  <2>3. CASE run /\ ~patch
    <3>1. SUFFICES ASSUME Calm' PROVE OneChange'
      BY DEF OneChange
    <3>2. Calm /\ \A t \in AdminSlots : Changing(t) => t = s
      BY <1>4, <1>13, <1>14, <2>3, <3>1 DEF AdminInv, OneChange, Calm
    <3>3. \A t \in AdminSlots : ~Changing(t)'
      BY <2>1, <3>2
    <3>4. \A t \in AdminSlots : adminCalls'[t].op # "patch"
      <4>1. adminCalls'[s].op # "patch"
        BY <1>5, <1>16, <1>17, <2>3
      <4>2. ASSUME NEW t \in AdminSlots, t # s PROVE adminCalls'[t].op # "patch"
        BY <1>17, <3>2, <4>2 DEF AdminInv, OneChange, Changing
      <4>3. QED
        BY <4>1, <4>2
    <3>5. QED
      BY <1>1, <1>14, <2>3, <3>2, <3>3, <3>4 DEF AdminInv, OneChange
  <2>4. CASE ~run
    <3>1. \A t \in AdminSlots :
            /\ Changing(t)' => Changing(t)
            /\ adminCalls'[t].op = "patch" => adminCalls'[t] = adminCalls[t]
      BY <1>4, <1>5, <1>16, <1>17, <2>1, <2>4
    <3>2. QED
      BY <1>1, <1>13, <1>14, <2>4, <3>1, OneChangeFrame DEF AdminInv
  <2>5. QED
    BY <2>2, <2>3, <2>4
<1>21. QED
  BY <1>18, <1>19, <1>20 DEF AdminInv

\* A page that is opened again has no change under way that could pass the guard.
LEMMA StepReopen ==
  ASSUME AdminInv, Reopen
  PROVE  AdminInv'
<1> DEFINE ops == {"load", "add", "remove", "patch", "list", "create", "revoke"}
           calls == Abandoned(ops)
           load == AdminCall("load", NoOne)
           patching == \E s \in AdminSlots : adminCalls[s].op = "patch" /\ ServerSide(adminCalls[s])
           closing == admin.dialog = "creating"
           a == Spent("visits")
           b == AdminNoted(a, "left", patching)
           c == AdminNoted(b, "closed", closing)
<1>1. /\ AdminTypes /\ admin \in AdminState /\ a \in AdminState
      /\ a = [admin EXCEPT !.left = a.left] /\ UNCHANGED <<accounts, tokens>>
  BY SpentShape DEF AdminInv, AdminTypes, Reopen
<1>2. /\ admin' = [c EXCEPT !.rows = <<>>, !.menus = {}, !.busy = FALSE, !.failed = FALSE,
                            !.tab = "members", !.dialog = "closed", !.revoking = NoOne,
                            !.shown = NoOne, !.pats = {}]
      /\ \E s \in AdminSlots : calls[s].op = "none"
      /\ adminCalls' = Sent(calls, load)
  BY DEF Reopen
<1>3. /\ patching \in BOOLEAN /\ closing \in BOOLEAN /\ (closing <=> admin.dialog = "creating")
      /\ "left" \in AdminMishaps /\ "closed" \in AdminMishaps
  BY DEF AdminMishaps
<1>4. ~patching => \A s \in AdminSlots : ~(adminCalls[s].op = "patch" /\ ServerSide(adminCalls[s]))
  OBVIOUS
<1> HIDE DEF a, patching, closing
<1>5. /\ b \in AdminState /\ b = [a EXCEPT !.mishaps = b.mishaps]
      /\ b.mishaps = IF patching THEN a.mishaps \cup {"left"} ELSE a.mishaps
  BY <1>1, <1>3, NotedShape
<1> HIDE DEF b
<1>6. /\ c \in AdminState /\ c = [b EXCEPT !.mishaps = c.mishaps]
      /\ c.mishaps = IF closing THEN b.mishaps \cup {"closed"} ELSE b.mishaps
  BY <1>3, <1>5, NotedShape
<1> HIDE DEF c
<1>7. a.seen = admin.seen /\ a.mishaps = admin.mishaps
  BY <1>1 DEF AdminState
<1>8. b.seen = admin.seen /\ c.seen = admin.seen
  <2>1. b.seen = admin.seen
    BY <1>1, <1>5, <1>7 DEF AdminState
  <2>2. QED
    BY <1>5, <1>6, <2>1 DEF AdminState
<1>9. /\ admin' \in AdminState /\ admin'.seen = admin.seen /\ ~admin'.busy /\ admin'.menus = {}
      /\ admin'.mishaps = c.mishaps
  BY <1>2, <1>6, <1>8 DEF AdminState, Rows
<1>10. /\ admin.mishaps \subseteq admin'.mishaps
       /\ patching => "left" \in admin'.mishaps
       /\ closing => "closed" \in admin'.mishaps
  BY <1>5, <1>6, <1>7, <1>9
<1>11. /\ load \in AdminCalls /\ load.op = "load" /\ load.arg = NoOne /\ Fitting(load)
  BY CallsTyped DEF Fitting
<1> HIDE DEF load
<1>12. /\ calls \in [AdminSlots -> AdminCalls]
       /\ \A s \in AdminSlots :
            /\ Fitting(calls[s])
            /\ \/ calls[s].op = "none"
               \/ calls[s].op \notin ops
               \/ /\ ServerSide(adminCalls[s]) /\ calls[s].op = adminCalls[s].op
                  /\ ~calls[s].live
  <2>1. \A s \in AdminSlots : LET d == Abandoned(ops)[s]
                              IN \/ d = adminCalls[s] /\ adminCalls[s].op \notin ops
                                 \/ d.op = "none"
                                 \/ /\ adminCalls[s].op \in ops /\ ServerSide(adminCalls[s])
                                    /\ d.op = adminCalls[s].op /\ ~d.live
    BY <1>1, AbandonedShape
  <2>2. /\ Abandoned(ops) \in [AdminSlots -> AdminCalls]
        /\ \A s \in AdminSlots : Fitting(Abandoned(ops)[s])
    BY <1>1, AbandonedShape
  <2>3. QED
    BY <2>1, <2>2
<1> HIDE DEF calls
<1>13. /\ adminCalls' \in [AdminSlots -> AdminCalls]
       /\ \A s \in AdminSlots : adminCalls'[s] = load \/ adminCalls'[s] = calls[s]
  <2>1. /\ Sent(calls, load) \in [AdminSlots -> AdminCalls]
        /\ \E s \in AdminSlots : /\ calls[s].op = "none" /\ Sent(calls, load)[s] = load
                                 /\ \A t \in AdminSlots : t # s => Sent(calls, load)[t] = calls[t]
    BY <1>2, <1>11, <1>12, SentShape
  <2>2. QED
    BY <1>2, <2>1
<1>14. AdminTypes'
  <2>1. \A s \in AdminSlots : Fitting(adminCalls'[s])
    BY <1>11, <1>12, <1>13
  <2>2. QED
    BY <1>1, <1>9, <1>13, <2>1 DEF AdminTypes
<1>15. Secrets'
  <2>1. \A s \in AdminSlots : Creating(s)' => Creating(s)
    BY <1>11, <1>12, <1>13 DEF Creating
  <2>2. admin.dialog # "creating" \/ "closed" \in admin'.mishaps
    BY <1>3, <1>10
  <2>3. QED
    BY <1>1, <1>9, <1>10, <2>1, <2>2, SecretsQuiet DEF AdminInv
<1>16. OneChange'
  <2>1. SUFFICES ASSUME Calm' PROVE OneChange'
    BY DEF OneChange
  <2>2. Calm /\ ~patching
    BY <1>10, <2>1 DEF Calm
  <2>3. \A s \in AdminSlots : ~Changing(s)'
    BY <1>11, <1>12, <1>13, AdminAssumption DEF Changing
  <2>4. \A s \in AdminSlots : adminCalls'[s].op # "patch"
    BY <1>4, <1>11, <1>12, <1>13, <2>2
  <2>5. \E e \in Emails : IsActiveAdmin(accounts'[e])
    BY <1>1, <2>2 DEF AdminInv, OneChange
  <2>6. QED
    BY <1>9, <2>3, <2>4, <2>5 DEF OneChange
<1>17. QED
  BY <1>14, <1>15, <1>16 DEF AdminInv

LEMMA StepServeToken ==
  ASSUME AdminInv, NEW s \in AdminSlots, ServeToken(s)
  PROVE  AdminInv'
<1>0. /\ AdminTypes /\ adminCalls[s] \in AdminCalls /\ adminCalls[s].at = "sent"
      /\ UNCHANGED <<accounts, admin>> /\ Fitting(adminCalls[s])
  BY DEF AdminInv, AdminTypes, ServeToken, MayServe
<1>1. CASE adminCalls[s].op = "create"
  <2> DEFINE c == adminCalls[s]
  <2>1. PICK p \in Pats :
          /\ tokens[p] = "none" /\ tokens' = [tokens EXCEPT ![p] = "live"]
          /\ adminCalls' = [adminCalls EXCEPT ![s] =
               IF @.live THEN [@ EXCEPT !.at = "ok", !.arg = p] ELSE NoAdminCall]
    BY <1>1 DEF ServeToken
  <2> DEFINE call == IF c.live THEN [c EXCEPT !.at = "ok", !.arg = p] ELSE NoAdminCall
  <2>2. /\ call \in AdminCalls /\ Fitting(call)
        /\ c.live => call.op = "create" /\ call.arg = p /\ call.at = "ok" /\ call.live
        /\ ~c.live => call.op = "none"
    <3>1. CASE c.live
      BY <1>0, <1>1, <3>1 DEF AdminCalls, Fitting
    <3>2. CASE ~c.live
      <4>1. /\ NoAdminCall \in AdminCalls /\ NoAdminCall.op = "none" /\ NoAdminCall.live
        BY DEF NoAdminCall, AdminCalls, Changes, Rows
      <4>2. call = NoAdminCall
        BY <3>2
      <4>3. Fitting(NoAdminCall)
        BY <4>1 DEF Fitting
      <4> HIDE DEF call
      <4>4. QED
        BY <3>2, <4>1, <4>2, <4>3
    <3>3. QED
      BY <3>1, <3>2
  <2>3. adminCalls' = [adminCalls EXCEPT ![s] = call]
    BY <2>1
  <2> HIDE DEF call
  <2>4. /\ adminCalls' \in [AdminSlots -> AdminCalls] /\ adminCalls'[s] = call
        /\ \A t \in AdminSlots : t # s => adminCalls'[t] = adminCalls[t]
    BY <1>0, <2>2, <2>3 DEF AdminTypes
  <2>5. AdminTypes'
    <3>1. tokens' \in [Pats -> {"none", "live", "revoked"}]
      BY <1>0, <2>1 DEF AdminTypes
    <3>2. \A t \in AdminSlots : Fitting(adminCalls'[t])
      BY <1>0, <2>2, <2>4 DEF AdminTypes
    <3>3. QED
      BY <1>0, <2>4, <3>1, <3>2 DEF AdminTypes
  <2>6. Secrets'
    <3>1. SUFFICES ASSUME admin.mishaps \cap {"closed", "lost"} = {} PROVE Secrets'
      BY <1>0 DEF Secrets
    <3>2. /\ admin.dialog = "creating" /\ c.live /\ c.arg = NoOne
          /\ \A t \in AdminSlots : Creating(t) => t = s
      BY <1>0, <1>1, <3>1 DEF AdminInv, Secrets, Creating
    <3>3. \A t \in AdminSlots : Creating(t)' <=> t = s
      BY <2>2, <2>4, <3>2 DEF Creating
    <3>4. \A q \in Live' : q \in admin.seen \/ q = p
      <4>1. SUFFICES ASSUME NEW q \in Live', q # p PROVE q \in admin.seen
        OBVIOUS
      <4>2. q \in Pats /\ tokens'[q] = "live"
        BY <4>1 DEF Live
      <4>3. tokens'[q] = tokens[q]
        BY <1>0, <2>1, <4>1, <4>2 DEF AdminTypes
      <4>4. q \in Live /\ q # NoOne
        BY <4>2, <4>3, AdminAssumption DEF Live
      <4>5. \A t \in AdminSlots : Creating(t) => adminCalls[t].arg # q
        BY <3>2, <4>4
      <4>6. QED
        BY <3>1, <4>4, <4>5 DEF AdminInv, Secrets
    <3>5. /\ Creating(s)' /\ adminCalls'[s].arg = p /\ adminCalls'[s].at = "ok"
          /\ adminCalls'[s].live
      BY <2>2, <2>4, <3>2 DEF Creating
    <3>6. QED
      BY <1>0, <3>2, <3>3, <3>4, <3>5 DEF Secrets
  <2>7. OneChange'
    <3>1. \A t \in AdminSlots :
            /\ Changing(t)' => Changing(t)
            /\ adminCalls'[t].op = "patch" => adminCalls'[t] = adminCalls[t]
      BY <1>1, <2>2, <2>4 DEF Changing
    <3>2. QED
      BY <1>0, <3>1, OneChangeFrame DEF AdminInv
  <2>8. QED
    BY <2>5, <2>6, <2>7 DEF AdminInv
<1>2. CASE adminCalls[s].op # "create"
  <2>1. /\ adminCalls[s].op = "revoke" /\ AnswerAt(s, "ok") /\ ~Creating(s)
        /\ tokens' = [tokens EXCEPT ![adminCalls[s].arg] = "revoked"]
    BY <1>2 DEF ServeToken, MayServe, Creating
  <2>2. /\ adminCalls' \in [AdminSlots -> AdminCalls]
        /\ \A t \in AdminSlots : Fitting(adminCalls'[t]) /\ Heard(t)
        /\ \A t \in AdminSlots : t # s => adminCalls'[t] = adminCalls[t]
    BY <1>0, <2>1, AnswerShape
  <2>3. AdminTypes'
    <3>1. tokens' \in [Pats -> {"none", "live", "revoked"}]
      BY <1>0, <2>1 DEF AdminTypes
    <3>2. QED
      BY <1>0, <2>2, <3>1 DEF AdminTypes
  <2>4. Secrets'
    <3>1. SUFFICES ASSUME admin.mishaps \cap {"closed", "lost"} = {} PROVE Secrets'
      BY <1>0 DEF Secrets
    <3>2. Live' \subseteq Live
      BY <1>0, <2>1 DEF Live, AdminTypes
    <3>3. ~Creating(s)'
      BY <2>1, <2>2 DEF Heard
    <3>4. \A t \in AdminSlots :
            /\ Creating(t)' <=> Creating(t)
            /\ Creating(t) => adminCalls'[t] = adminCalls[t]
      BY <2>1, <2>2, <3>3 DEF Creating
    <3>5. QED
      BY <1>0, <3>1, <3>2, <3>4 DEF AdminInv, Secrets
  <2>5. OneChange'
    <3>1. \A t \in AdminSlots :
            /\ Changing(t)' => Changing(t)
            /\ adminCalls'[t].op = "patch" => adminCalls'[t] = adminCalls[t]
      BY <2>1, <2>2 DEF Heard
    <3>2. QED
      BY <1>0, <3>1, OneChangeFrame DEF AdminInv
  <2>6. QED
    BY <2>3, <2>4, <2>5 DEF AdminInv
<1>3. QED
  BY <1>1, <1>2

LEMMA StepServeAllowlist ==
  ASSUME AdminInv, NEW s \in AdminSlots, ServeAllowlist(s)
  PROVE  AdminInv'
<1> DEFINE e == adminCalls[s].arg
<1>0. /\ AdminTypes /\ adminCalls[s].op \in {"add", "remove"} /\ ~Creating(s) /\ e \in Emails
      /\ adminCalls[s].at = "sent" /\ UNCHANGED <<tokens, admin>>
  BY DEF AdminInv, AdminTypes, Fitting, ServeAllowlist, MayServe, Creating
<1>1. PICK at \in {"ok", "refused"}, to \in {"absent", "pending"} :
        /\ AnswerAt(s, at)
        /\ \/ UNCHANGED accounts
           \/ /\ accounts[e].place # "member"
              /\ accounts' = [accounts EXCEPT ![e].place = to]
  BY <1>0 DEF ServeAllowlist
<1>2. /\ adminCalls' \in [AdminSlots -> AdminCalls]
      /\ \A t \in AdminSlots : Fitting(adminCalls'[t]) /\ Heard(t)
      /\ \A t \in AdminSlots : t # s => adminCalls'[t] = adminCalls[t]
  BY <1>0, <1>1, AnswerShape
<1> HIDE DEF e
<1>3. /\ accounts' \in [Emails -> Account]
      /\ \A a \in Emails : IsActiveAdmin(accounts[a]) => accounts'[a] = accounts[a]
  <2>1. CASE UNCHANGED accounts
    BY <1>0, <2>1 DEF AdminTypes
  <2>2. CASE /\ accounts[e].place # "member"
             /\ accounts' = [accounts EXCEPT ![e].place = to]
    <3>1. /\ accounts \in [Emails -> Account] /\ accounts[e] \in Account
      BY <1>0 DEF AdminTypes
    <3>2. accounts' \in [Emails -> Account]
      BY <2>2, <3>1 DEF Account
    <3>3. \A a \in Emails : a # e => accounts'[a] = accounts[a]
      BY <2>2, <3>1
    <3>4. ~IsActiveAdmin(accounts[e])
      BY <2>2 DEF IsActiveAdmin
    <3>5. QED
      BY <3>2, <3>3, <3>4
  <2>3. QED
    BY <1>1, <2>1, <2>2
<1>4. AdminTypes'
  BY <1>0, <1>2, <1>3 DEF AdminTypes
<1>5. Secrets'
  <2>1. ~Creating(s)'
    BY <1>0, <1>2 DEF Heard
  <2>2. \A t \in AdminSlots :
          /\ Creating(t)' <=> Creating(t)
          /\ Creating(t) => adminCalls'[t] = adminCalls[t]
    BY <1>0, <1>2, <2>1 DEF Creating
  <2>3. QED
    BY <1>0, <2>2, SecretsFrame DEF AdminInv
<1>6. OneChange'
  <2>1. SUFFICES ASSUME Calm' PROVE OneChange'
    BY DEF OneChange
  <2>2. Calm
    BY <1>0, <2>1 DEF Calm
  <2>3. \A t \in AdminSlots :
          /\ Changing(t)' => Changing(t)
          /\ adminCalls'[t].op = "patch" => adminCalls[t].op = "patch" /\ adminCalls'[t] = adminCalls[t]
    BY <1>0, <1>2 DEF Heard
  <2>4. /\ \A t \in AdminSlots : Changing(t)' => admin.busy
        /\ \A t, u \in AdminSlots : Changing(t)' /\ Changing(u)' => t = u
        /\ \A t \in AdminSlots : adminCalls'[t].op = "patch" => adminCalls'[t].live
    BY <2>2, <2>3 DEF AdminInv, OneChange
  <2>5. \E a \in Emails : IsActiveAdmin(accounts'[a])
    BY <1>3, <2>2 DEF AdminInv, OneChange
  <2>6. ASSUME NEW t \in AdminSlots, adminCalls'[t].op = "patch", adminCalls'[t].at = "checked"
        PROVE  Remains(accounts', adminCalls'[t].arg, adminCalls'[t].change)
    <3> DEFINE f == adminCalls[t].arg
               change == adminCalls[t].change
    <3>1. adminCalls'[t] = adminCalls[t] /\ Remains(accounts, f, change)
      BY <2>2, <2>3, <2>6 DEF AdminInv, OneChange
    <3> HIDE DEF f, change
    <3>2. PICK a \in Emails : /\ IsActiveAdmin(accounts[a])
                              /\ a # f \/ IsActiveAdmin(Changed(accounts[f], change))
      BY <3>1 DEF Remains
    <3>3. accounts'[a] = accounts[a]
      BY <1>3, <3>2
    <3>4. a # f \/ IsActiveAdmin(Changed(accounts'[f], change))
      BY <3>2, <3>3
    <3>5. Remains(accounts', f, change)
      BY <3>2, <3>3, <3>4 DEF Remains
    <3>6. QED
      BY <3>1, <3>5 DEF f, change
  <2>7. /\ admin'.menus # {} => ~admin'.busy
        /\ \A g, h \in admin'.menus : g = h
    BY <1>0, <2>2 DEF AdminInv, OneChange
  <2>8. QED
    BY <1>0, <2>4, <2>5, <2>6, <2>7 DEF OneChange
<1>7. QED
  BY <1>4, <1>5, <1>6 DEF AdminInv

\* The administrator whom the count found is still there when the change commits.
LEMMA StepCheckPatch ==
  ASSUME AdminInv, NEW s \in AdminSlots, CheckPatch(s)
  PROVE  AdminInv'
<1> DEFINE e == adminCalls[s].arg
           to == Changed(accounts[e], adminCalls[s].change)
           loses == IsActiveAdmin(accounts[e]) /\ ~IsActiveAdmin(to)
<1>0. /\ AdminTypes /\ adminCalls[s].op = "patch" /\ ~Creating(s) /\ e \in Emails
      /\ adminCalls[s].at = "sent" /\ UNCHANGED <<accounts, tokens, admin>>
  BY DEF AdminInv, AdminTypes, Fitting, CheckPatch, MayServe, Creating
<1>1. PICK at \in {"checked", "refused"} :
        /\ AnswerAt(s, at)
        /\ at = "checked" => ~(loses /\ ActiveAdmins(accounts) = {e})
  BY DEF CheckPatch
<1>2. /\ adminCalls' \in [AdminSlots -> AdminCalls]
      /\ \A t \in AdminSlots : Fitting(adminCalls'[t]) /\ Heard(t)
      /\ \A t \in AdminSlots : t # s => adminCalls'[t] = adminCalls[t]
      /\ at # "checked" => adminCalls'[s].at # "checked"
  BY <1>0, <1>1, AnswerShape
<1>4. AdminTypes'
  BY <1>0, <1>2 DEF AdminTypes
<1>5. Secrets'
  <2>1. ~Creating(s)'
    BY <1>0, <1>2 DEF Heard
  <2>2. \A t \in AdminSlots :
          /\ Creating(t)' <=> Creating(t)
          /\ Creating(t) => adminCalls'[t] = adminCalls[t]
    BY <1>0, <1>2, <2>1 DEF Creating
  <2>3. QED
    BY <1>0, <2>2, SecretsFrame DEF AdminInv
<1>6. OneChange'
  <2>1. SUFFICES ASSUME Calm' PROVE OneChange'
    BY DEF OneChange
  <2>2. Calm
    BY <1>0, <2>1 DEF Calm
  <2>3. \E a \in Emails : IsActiveAdmin(accounts[a])
    BY <2>2 DEF AdminInv, OneChange
  <2>4. at = "checked" => Remains(accounts, e, adminCalls[s].change)
    <3>1. ASSUME at = "checked" PROVE \E a \in Emails : /\ IsActiveAdmin(accounts[a])
                                                        /\ a # e \/ IsActiveAdmin(to)
      <4>1. CASE loses
        <5>1. ActiveAdmins(accounts) # {e} /\ e \in ActiveAdmins(accounts)
          BY <1>0, <1>1, <3>1, <4>1 DEF ActiveAdmins, AdminTypes
        <5>2. QED
          BY <1>0, <5>1 DEF ActiveAdmins, AdminTypes
      <4>2. CASE ~loses
        BY <2>3, <4>2
      <4>3. QED
        BY <4>1, <4>2
    <3>2. QED
      BY <3>1 DEF Remains
  <2>5. \A t \in AdminSlots : adminCalls'[t].op = "patch" /\ adminCalls'[t].at = "checked" =>
          Remains(accounts', adminCalls'[t].arg, adminCalls'[t].change)
    <3>1. ASSUME NEW t \in AdminSlots, t # s, adminCalls'[t].op = "patch",
                 adminCalls'[t].at = "checked"
          PROVE  Remains(accounts', adminCalls'[t].arg, adminCalls'[t].change)
      BY <1>0, <1>2, <2>2, <3>1 DEF AdminInv, OneChange
    <3>2. adminCalls'[s].op = "patch" /\ adminCalls'[s].at = "checked" =>
            Remains(accounts', adminCalls'[s].arg, adminCalls'[s].change)
      BY <1>0, <1>2, <2>4 DEF Heard
    <3>3. QED
      BY <3>1, <3>2
  <2>6. /\ \A t \in AdminSlots : Changing(t)' => admin.busy
        /\ \A t, u \in AdminSlots : Changing(t)' /\ Changing(u)' => t = u
        /\ \A t \in AdminSlots : adminCalls'[t].op = "patch" => adminCalls'[t].live
    BY <1>2, <2>2 DEF AdminInv, OneChange, Heard
  <2>7. /\ admin'.menus # {} => ~admin'.busy
        /\ \A g, h \in admin'.menus : g = h
    BY <1>0, <2>2 DEF AdminInv, OneChange
  <2>8. QED
    BY <1>0, <2>3, <2>5, <2>6, <2>7 DEF OneChange
<1>7. QED
  BY <1>4, <1>5, <1>6 DEF AdminInv

LEMMA StepCommitPatch ==
  ASSUME AdminInv, NEW s \in AdminSlots, CommitPatch(s)
  PROVE  AdminInv'
<1> DEFINE e == adminCalls[s].arg
           to == Changed(accounts[e], adminCalls[s].change)
<1>0. /\ AdminTypes /\ adminCalls[s].op = "patch" /\ ~Creating(s) /\ e \in Emails
      /\ adminCalls[s].at = "checked" /\ UNCHANGED <<tokens, admin>>
      /\ accounts' = [accounts EXCEPT ![e] = to] /\ AnswerAt(s, "ok")
  BY DEF AdminInv, AdminTypes, Fitting, CommitPatch, Creating
<1>1. accounts \in [Emails -> Account] /\ to \in Account
  BY <1>0 DEF AdminTypes, Changed, Account
<1>2. /\ adminCalls' \in [AdminSlots -> AdminCalls]
      /\ \A t \in AdminSlots : Fitting(adminCalls'[t]) /\ Heard(t)
      /\ \A t \in AdminSlots : t # s => adminCalls'[t] = adminCalls[t]
      /\ adminCalls'[s].at # "checked"
  BY <1>0, AnswerShape
<1>3. Calm => Remains(accounts, e, adminCalls[s].change)
  BY <1>0 DEF AdminInv, OneChange
<1>4. Calm => \E a \in Emails : IsActiveAdmin(accounts[a]) /\ (a # e \/ IsActiveAdmin(to))
  BY <1>3 DEF Remains
<1> HIDE DEF e, to
<1>5. /\ accounts' \in [Emails -> Account] /\ accounts'[e] = to
      /\ \A a \in Emails : a # e => accounts'[a] = accounts[a]
  BY <1>0, <1>1
<1>6. AdminTypes'
  BY <1>0, <1>2, <1>5 DEF AdminTypes
<1>7. Secrets'
  <2>1. ~Creating(s)'
    BY <1>0, <1>2 DEF Heard
  <2>2. \A t \in AdminSlots :
          /\ Creating(t)' <=> Creating(t)
          /\ Creating(t) => adminCalls'[t] = adminCalls[t]
    BY <1>0, <1>2, <2>1 DEF Creating
  <2>3. QED
    BY <1>0, <2>2, SecretsFrame DEF AdminInv
<1>8. OneChange'
  <2>1. SUFFICES ASSUME Calm' PROVE OneChange'
    BY DEF OneChange
  <2>2. Calm
    BY <1>0, <2>1 DEF Calm
  <2>3. \A t \in AdminSlots : adminCalls[t].op = "patch" => t = s
    BY <1>0, <2>2 DEF AdminInv, OneChange, Changing
  <2>4. \A t \in AdminSlots : ~(adminCalls'[t].op = "patch" /\ adminCalls'[t].at = "checked")
    BY <1>2, <2>3 DEF Heard
  <2>5. \E a \in Emails : IsActiveAdmin(accounts'[a])
    BY <1>0, <1>4, <1>5, <2>2
  <2>6. /\ \A t \in AdminSlots : Changing(t)' => admin.busy
        /\ \A t, u \in AdminSlots : Changing(t)' /\ Changing(u)' => t = u
        /\ \A t \in AdminSlots : adminCalls'[t].op = "patch" => adminCalls'[t].live
    BY <1>2, <2>2 DEF AdminInv, OneChange, Heard
  <2>7. /\ admin'.menus # {} => ~admin'.busy
        /\ \A g, h \in admin'.menus : g = h
    BY <1>0, <2>2 DEF AdminInv, OneChange
  <2>8. QED
    BY <1>0, <2>4, <2>5, <2>6, <2>7 DEF OneChange
<1>9. QED
  BY <1>6, <1>7, <1>8 DEF AdminInv

----------------------------------------------------------------------------
\* The invariant holds of the page as it opens, and every step keeps it.

LEMMA AdminInvInit ==
  ASSUME AdminInit
  PROVE  AdminInv
<1> DEFINE idle == [s \in AdminSlots |-> NoAdminCall]
           load == AdminCall("load", NoOne)
<1>1. PICK left \in AdminBudgets : admin = [rows |-> <<>>, menus |-> {}, busy |-> FALSE,
                failed |-> FALSE, dialog |-> "closed", revoking |-> NoOne, shown |-> NoOne,
                pats |-> {}, seen |-> {}, tab |-> "members", mishaps |-> {}, left |-> left]
  BY DEF AdminInit
<1>2. left \in Left
  BY AdminAssumption DEF Left
<1>3. admin \in AdminState
  BY <1>1, <1>2 DEF AdminState, Rows
<1>4. /\ tokens = [p \in Pats |-> "none"] /\ accounts \in [Emails -> Account]
      /\ IsActiveAdmin(accounts[self]) /\ self \in Emails
  <2>1. accounts \in InitialAccounts
    BY DEF AdminInit
  <2>2. {Nobody, Invited} \subseteq Account
    <3>1. Nobody \in Account
      BY DEF Nobody, Account
    <3>2. Invited \in Account
      BY <3>1 DEF Invited, Account
    <3>3. QED
      BY <3>1, <3>2
  <2>3. [place : {"member"}, admin : BOOLEAN, active : BOOLEAN] \subseteq Account
    BY DEF Account
  <2>4. QED
    BY <2>1, <2>2, <2>3, AdminAssumption DEF InitialAccounts, AdminInit
<1>5. idle \in [AdminSlots -> AdminCalls] /\ \A s \in AdminSlots : idle[s] = NoAdminCall
  BY CallsTyped
<1>6. /\ load \in AdminCalls /\ load.op = "load" /\ load.arg = NoOne /\ load.live
      /\ NoAdminCall.op = "none" /\ NoAdminCall.live
  BY CallsTyped DEF NoAdminCall
<1>7. adminCalls = Sent(idle, load)
  BY DEF AdminInit
<1> HIDE DEF idle, load
<1>8. \E s \in AdminSlots : idle[s].op = "none"
  BY <1>5, <1>6, AdminAssumption
<1>9. PICK s \in AdminSlots :
        /\ Sent(idle, load)[s] = load
        /\ \A t \in AdminSlots : t # s => Sent(idle, load)[t] = idle[t]
  BY <1>5, <1>6, <1>8, SentShape
<1>10. \A t \in AdminSlots : \/ adminCalls[t] = NoAdminCall
                             \/ adminCalls[t] = load
  BY <1>5, <1>7, <1>9
<1>11. AdminTypes
  <2>1. adminCalls \in [AdminSlots -> AdminCalls]
    BY <1>5, <1>6, <1>7, <1>8, SentShape
  <2>2. \A t \in AdminSlots : Fitting(adminCalls[t])
    BY <1>6, <1>10 DEF Fitting
  <2>3. QED
    BY <1>3, <1>4, <2>1, <2>2 DEF AdminTypes
<1>12. Secrets
  BY <1>4, <1>6, <1>10 DEF Secrets, Creating, Live
<1>13. OneChange
  <2>1. \A t \in AdminSlots : ~Changing(t) /\ adminCalls[t].op # "patch"
    BY <1>4, <1>6, <1>10, AdminAssumption DEF Changing
  <2>2. admin.menus = {}
    BY <1>1
  <2>3. QED
    BY <1>4, <2>1, <2>2 DEF OneChange
<1>14. QED
  BY <1>11, <1>12, <1>13 DEF AdminInv

LEMMA AdminInvStep ==
  ASSUME AdminInv, [AdminNext]_adminVars
  PROVE  AdminInv'
<1>1. CASE UNCHANGED adminVars
  <2>1. UNCHANGED <<accounts, tokens, admin, adminCalls>>
    BY <1>1 DEF adminVars
  <2>2. AdminTypes'
    BY <2>1 DEF AdminInv, AdminTypes
  <2>3. Secrets'
    BY <2>1 DEF AdminInv, Secrets, Creating, Live
  <2>4. OneChange'
    BY <2>1 DEF AdminInv, OneChange, Changing, Calm
  <2>5. QED
    BY <2>2, <2>3, <2>4 DEF AdminInv
<1>2. CASE AdminNext
  <2>1. CASE OpenTokens \/ ConfirmRevoke
    BY <2>1, StepOfDialog
  <2>2. CASE Generate
    BY <2>2, StepGenerate
  <2>7. CASE CloseTokens \/ Reopen
    BY <2>7, StepCloseTokens, StepReopen
  <2>3. CASE \/ DoneCreating \/ CancelRevoke
             \/ \E p \in Pats : AskRevoke(p)
             \/ \E tab \in {"members", "pending"} : ShowTab(tab)
             \/ \E e \in Emails : CloseMenu(e)
    BY <2>3, StepOfPage
  <2>4. ASSUME NEW e \in Emails,
               OnAdd(e) \/ OpenMenu(e) \/ OnRemove(e) \/ \E change \in Changes : Act(e, change)
        PROVE  AdminInv'
    BY <2>4, StepOnAdd, StepOpenMenu, StepOnRemove, StepAct
  <2>5. ASSUME NEW s \in AdminSlots,
               \/ LoadAnswered(s) \/ RunAnswered(s) \/ CreateAnswered(s) \/ RevokeAnswered(s)
               \/ ListAnswered(s) \/ ServeForbidden(s) \/ ServeAdminRead(s) \/ ServeAllowlist(s)
               \/ CheckPatch(s) \/ CommitPatch(s) \/ ServeToken(s) \/ LoseAdminCall(s)
               \/ DropAdminCall(s)
        PROVE  AdminInv'
    <3>1. CASE LoadAnswered(s) \/ CreateAnswered(s) \/ RevokeAnswered(s) \/ ListAnswered(s)
      BY <3>1, StepOfAnswers
    <3>2. CASE RunAnswered(s)
      BY <3>2, StepRunAnswered
    <3>3. CASE ServeForbidden(s) \/ ServeAdminRead(s)
      BY <3>3, StepReads
    <3>4. CASE ServeAllowlist(s) \/ CheckPatch(s) \/ CommitPatch(s)
      BY <3>4, StepServeAllowlist, StepCheckPatch, StepCommitPatch
    <3>5. CASE ServeToken(s) \/ LoseAdminCall(s) \/ DropAdminCall(s)
      BY <3>5, StepServeToken, StepLose, StepDrop
    <3>6. QED
      BY <2>5, <3>1, <3>2, <3>3, <3>4, <3>5
  <2>6. QED
    BY <1>2, <2>1, <2>2, <2>3, <2>4, <2>5, <2>7 DEF AdminNext
<1>3. QED
  BY <1>1, <1>2

LEMMA AdminInvGives ==
  ASSUME AdminInv
  PROVE  AdminsRemain /\ SecretsShown
<1>1. AdminsRemain
  BY DEF AdminInv, OneChange, Calm, AdminTypes, AdminsRemain, ActiveAdmins
<1>2. SecretsShown
  BY DEF AdminInv, Secrets, SecretsShown, Creating
<1>3. QED
  BY <1>1, <1>2

(***************************************************************************)
(* The invariant is kept by whatever the page and the server do.           *)
(***************************************************************************)
THEOREM AdminInvKept == AdminInit /\ [][AdminNext]_adminVars => []AdminInv
BY AdminInvInit, AdminInvStep, PTL

(***************************************************************************)
(* The administrator at this screen never leaves the instance without an   *)
(* active administrator: run() of the access manager lets one change run   *)
(* at a time, and the server counts the others before it commits.  Unless  *)
(* two menus were open at once, or the page was left or a connection broke *)
(* while the server was at work on a change.                               *)
(***************************************************************************)
THEOREM AnAdminStays == AdminInit /\ [][AdminNext]_adminVars => []AdminsRemain
BY AdminInvKept, AdminInvGives, PTL

(***************************************************************************)
(* No token lives whose secret was not on the screen, unless the dialog or *)
(* the page was left while it was created, or the answer was lost.         *)
(***************************************************************************)
THEOREM SecretsAreShown == AdminInit /\ [][AdminNext]_adminVars => []SecretsShown
BY AdminInvKept, AdminInvGives, PTL

-----------------------------------------------------------------------------

(***************************************************************************)
(* The history page.                                                       *)
(* A restored version stays (RestoreSticks), for any contents, any history *)
(* and any number of steps of the history page and the editor behind it.   *)
(***************************************************************************)

MaybeText == Texts \cup {NoText}
HistRestore == [at : CallAt, text : MaybeText, live : BOOLEAN]
Hist == [at : {"history", "editor"}, load : CallAt, answer : Seq(Texts), list : Seq(Texts),
         failed : BOOLEAN, selected : Nat, confirming : MaybeText, restoring : BOOLEAN,
         restore : HistRestore, opening : CallAt, draft : MaybeText, save : MaybeText,
         wanted : MaybeText, late : MaybeText, left : 0..HistoryBudget,
         mishaps : SUBSET {"left", "saving", "late"}]

\* The selection is a row of the list that is shown, or the first one of a list
\* still to come, and nothing replaces a list that is shown; what is being
\* restored is a content.
HistTypes ==
    /\ versions \in Seq(Texts) /\ versions # <<>>
    /\ note \in Texts
    /\ hist \in Hist
    /\ hist.selected # 1 => hist.selected \in DOMAIN hist.list
    /\ hist.list # <<>> => hist.load = "idle"
    /\ hist.restore.at = "sent" => hist.restore.text \in Texts

\* Before anything went wrong: no restore is still before the server that the page
\* has given up, a restore on its way keeps the member on the page
\* with nothing else under way, and after it whatever the editor shows or saves
\* is what was restored.
Undisturbed ==
    /\ hist.late = NoText
    /\ hist.restore.at # "idle" => hist.at = "history" /\ hist.save = NoText
    /\ hist.at = "history" => hist.draft = NoText /\ hist.opening = "idle"
    /\ hist.wanted # NoText => /\ note = hist.wanted
                               /\ hist.draft # NoText => hist.draft = hist.wanted
                               /\ hist.save # NoText => hist.save = hist.wanted

HistoryInv == HistTypes /\ (hist.mishaps = {} => Undisturbed)

LEMMA HistoryInvInit == HistoryInit => HistoryInv
<1> SUFFICES ASSUME HistoryInit PROVE HistoryInv
  OBVIOUS
<1>1. versions \in Seq(Texts) /\ versions # <<>> /\ versions[1] \in Texts
  <2>1. versions \in [1..3 -> Texts]
    BY DEF HistoryInit
  <2>2. versions \in Seq(Texts)
    BY <2>1, SeqDef
  <2>3. QED
    BY <2>1, <2>2
<1>2. PICK save \in {NoText, note} : hist = [Fresh EXCEPT !.save = save]
  BY DEF HistoryInit
<1>3. hist \in Hist
  <2>1. save \in MaybeText /\ NoText \in MaybeText
    BY <1>1, <1>2 DEF HistoryInit, MaybeText
  <2>2. NoRestore \in HistRestore
    BY <2>1 DEF NoRestore, HistRestore, CallAt
  <2>3. <<>> \in Seq(Texts) /\ HistoryBudget \in 0..HistoryBudget
    BY HistoryAssumption
  <2>4. Fresh \in Hist
    BY <2>1, <2>2, <2>3 DEF Fresh, Hist, CallAt
  <2>5. QED
    BY <1>2, <2>1, <2>4 DEF Hist
<1>4. QED
  BY <1>1, <1>2, <1>3
  DEF HistoryInit, HistoryInv, HistTypes, Undisturbed, Fresh, NoRestore

LEMMA MountShape ==
  ASSUME NEW h \in Hist, NEW at \in {"history", "editor"}
  PROVE  /\ Mount(h, at) \in Hist
         /\ Mount(h, at).at = at /\ Mount(h, at).selected = 1 /\ Mount(h, at).draft = NoText
         /\ Mount(h, at).list = <<>>
         /\ Mount(h, at).restore.at = h.restore.at /\ Mount(h, at).restore.text = h.restore.text
         /\ at = "history" => Mount(h, at).opening = "idle"
         /\ Mount(h, at).save = h.save /\ Mount(h, at).wanted = h.wanted
         /\ Mount(h, at).mishaps = h.mishaps /\ Mount(h, at).late = h.late
<1>1. [h.restore EXCEPT !.live = FALSE] \in HistRestore
  BY DEF Hist, HistRestore
<1>2. <<>> \in Seq(Texts)
  OBVIOUS
<1>3. QED
  BY <1>1, <1>2, ZenonT(60) DEF Mount, Hist, HistRestore, CallAt, MaybeText

----------------------------------------------------------------------------
LEMMA Countdown ==
  ASSUME hist \in Hist, hist.left > 0
  PROVE  hist.left - 1 \in 0..HistoryBudget
<1>1. hist.left \in 0..HistoryBudget
  BY DEF Hist
<1>2. QED
  BY <1>1, HistoryAssumption

LEMMA HistoryInvStep ==
  ASSUME HistoryInv, [HistoryNext]_histVars
  PROVE  HistoryInv'
<1> USE DEF HistoryInv, HistTypes
<1> USE DEF Undisturbed
<1>0. hist \in Hist
  OBVIOUS
<1>1. CASE HistoryAnswered
  <2>1. /\ hist' = [hist EXCEPT !.load = "idle", !.list = hist.answer,
                              !.failed = (hist.load = "failed")]
        /\ hist.load # "idle" /\ UNCHANGED <<versions, note>>
    BY <1>1 DEF HistoryAnswered
  <2>2. hist.list = <<>> /\ hist.selected = 1
    BY <2>1
  <2>3. (hist.load = "failed") \in BOOLEAN /\ hist.answer \in Seq(Texts)
    BY DEF Hist
  <2>4. hist' \in Hist
    BY <2>1, <2>3 DEF Hist, CallAt
  <2>5. /\ hist'.selected = 1 /\ hist'.load = "idle" /\ hist'.restore = hist.restore
        /\ hist'.at = hist.at /\ hist'.save = hist.save /\ hist'.draft = hist.draft
        /\ hist'.opening = hist.opening /\ hist'.wanted = hist.wanted
        /\ hist'.mishaps = hist.mishaps /\ hist'.late = hist.late
    BY <2>1, <2>2 DEF Hist
  <2>6. QED
    BY <2>1, <2>4, <2>5
<1>2. CASE AskRestore
  <2>1. /\ hist' = [hist EXCEPT !.confirming = hist.list[hist.selected]]
        /\ hist.selected # 1 /\ UNCHANGED <<versions, note>>
    BY <1>2 DEF AskRestore, IsCurrent
  <2>2. hist.list \in Seq(Texts) /\ hist.selected \in DOMAIN hist.list
    BY <2>1 DEF Hist
  <2>3. hist.list[hist.selected] \in MaybeText
    BY <2>2 DEF MaybeText
  <2>4. QED
    BY <2>1, <2>3 DEF Hist
<1>3. CASE CancelRestore
  BY <1>3 DEF CancelRestore, Hist, MaybeText
<1>4. CASE DoRestore
  <2> DEFINE call == [at |-> "sent", text |-> hist.confirming, live |-> TRUE]
             noted == HistNoted(hist, "saving", hist.save # NoText)
  <2>1. call \in HistRestore /\ hist.confirming \in Texts
    BY <1>4 DEF DoRestore, Hist, HistRestore, MaybeText, CallAt
  <2>2. noted \in Hist
    BY DEF HistNoted, Hist
  <2>3. hist.left - 1 \in 0..HistoryBudget
    BY <1>4, Countdown DEF DoRestore
  <2>4. hist' = [noted EXCEPT !.restoring = TRUE, !.left = @ - 1, !.restore = call]
    BY <1>4 DEF DoRestore
  <2>5. /\ hist' \in Hist /\ hist'.restore = call /\ hist'.at = hist.at
        /\ hist'.save = hist.save /\ hist'.wanted = hist.wanted /\ hist'.draft = hist.draft
        /\ hist'.opening = hist.opening /\ hist'.list = hist.list /\ hist'.load = hist.load
        /\ hist'.selected = hist.selected /\ hist'.late = hist.late
        /\ hist'.mishaps = {} => hist.mishaps = {} /\ hist.save = NoText
    BY <2>1, <2>2, <2>3, <2>4, ZenonT(60) DEF HistNoted, Hist
  <2>6. QED
    BY <1>4, <2>1, <2>5 DEF DoRestore, Shown
<1>5. CASE RestoreAnswered
  <2> DEFINE h == [hist EXCEPT !.restore = NoRestore]
  <2>1. NoRestore \in HistRestore /\ NoRestore.at = "idle"
    BY DEF HistRestore, NoRestore, MaybeText, CallAt
  <2>2. /\ h \in Hist /\ h.restore.at = "idle" /\ h.save = hist.save /\ h.at = hist.at
        /\ h.wanted = hist.wanted /\ h.mishaps = hist.mishaps /\ h.draft = hist.draft
        /\ h.opening = hist.opening /\ h.list = hist.list /\ h.load = hist.load
        /\ h.selected = hist.selected /\ h.late = hist.late
    BY <2>1 DEF Hist
  <2>3. /\ hist.restore.at \in {"ok", "failed"} /\ UNCHANGED <<versions, note>>
        /\ \/ hist' = Mount(h, "editor")
           \/ hist' = [h EXCEPT !.restoring = FALSE]
           \/ hist' = h
    BY <1>5 DEF RestoreAnswered
  <2> HIDE DEF h
  <2>4. CASE hist' = Mount(h, "editor")
    <3>1. /\ hist' \in Hist /\ hist'.at = "editor" /\ hist'.list = <<>> /\ hist'.selected = 1
          /\ hist'.draft = NoText /\ hist'.restore.at = "idle"
          /\ hist'.save = hist.save /\ hist'.wanted = hist.wanted
          /\ hist'.mishaps = hist.mishaps /\ hist'.late = hist.late
      BY <2>2, <2>4, MountShape
    <3>2. QED
      BY <2>3, <3>1
  <2>5. CASE \/ hist' = [h EXCEPT !.restoring = FALSE]
             \/ hist' = h
    <3>1. /\ hist' \in Hist /\ hist'.restore.at = "idle" /\ hist'.save = h.save
          /\ hist'.at = h.at /\ hist'.wanted = h.wanted /\ hist'.mishaps = h.mishaps
          /\ hist'.draft = h.draft /\ hist'.opening = h.opening /\ hist'.list = h.list
          /\ hist'.load = h.load /\ hist'.selected = h.selected /\ hist'.late = h.late
      BY <2>2, <2>5, ZenonT(60) DEF Hist
    <3>2. QED
      BY <2>2, <2>3, <3>1
  <2>6. QED
    BY <2>3, <2>4, <2>5
<1>6. CASE BackToEditor
  <2> DEFINE h == HistNoted(hist, "left", hist.restore.at # "idle")
  <2>1. /\ h \in Hist /\ h.restore = hist.restore /\ h.save = hist.save /\ h.wanted = hist.wanted
        /\ h.late = hist.late
        /\ h.mishaps = {} => hist.mishaps = {} /\ hist.restore.at = "idle"
    BY DEF HistNoted, Hist
  <2>2. /\ hist' = Mount(h, "editor") /\ UNCHANGED <<versions, note>> /\ hist.at = "history"
    BY <1>6 DEF BackToEditor
  <2> HIDE DEF h
  <2>3. /\ hist' \in Hist /\ hist'.at = "editor" /\ hist'.list = <<>> /\ hist'.selected = 1 /\ hist'.draft = NoText
        /\ hist'.restore.at = hist.restore.at /\ hist'.restore.text = hist.restore.text
        /\ hist'.save = hist.save /\ hist'.wanted = hist.wanted /\ hist'.late = hist.late
        /\ hist'.mishaps = {} => hist.mishaps = {} /\ hist.restore.at = "idle"
    BY <2>1, <2>2, MountShape
  <2>4. QED
    BY <2>2, <2>3
<1>7. CASE EditorOpened
  BY <1>7 DEF EditorOpened, Hist, CallAt
<1>8. CASE EditorSaves
  <2>1. hist.left - 1 \in 0..HistoryBudget /\ hist.draft \in MaybeText
    BY <1>8, Countdown DEF EditorSaves, Hist
  <2>2. /\ hist' \in Hist /\ hist'.save = hist.draft /\ hist'.at = hist.at
        /\ hist'.restore = hist.restore /\ hist'.draft = hist.draft
        /\ hist'.opening = hist.opening /\ hist'.wanted = hist.wanted
        /\ hist'.list = hist.list /\ hist'.load = hist.load
        /\ hist'.selected = hist.selected /\ hist'.mishaps = hist.mishaps
        /\ hist'.late = hist.late
    BY <1>8, <2>1 DEF EditorSaves, Hist
  <2>3. hist.at # "history" /\ hist.draft # NoText
    BY <1>8 DEF EditorSaves
  <2>4. UNCHANGED <<versions, note>>
    BY <1>8 DEF EditorSaves
  <2>5. QED
    BY <2>2, <2>3, <2>4
<1>9. CASE OpenHistory
  <2> DEFINE h == [hist EXCEPT !.left = @ - 1]
  <2>1. hist.left - 1 \in 0..HistoryBudget
    BY <1>9, Countdown DEF OpenHistory
  <2>2. /\ h \in Hist /\ h.restore = hist.restore /\ h.save = hist.save /\ h.wanted = hist.wanted
        /\ h.mishaps = hist.mishaps /\ h.late = hist.late
    BY <2>1 DEF Hist
  <2>3. hist' = Mount(h, "history") /\ UNCHANGED <<versions, note>> /\ hist.at = "editor"
    BY <1>9 DEF OpenHistory
  <2> HIDE DEF h
  <2>4. /\ hist' \in Hist /\ hist'.at = "history" /\ hist'.list = <<>> /\ hist'.selected = 1 /\ hist'.draft = NoText
        /\ hist'.restore.at = hist.restore.at /\ hist'.restore.text = hist.restore.text
        /\ hist'.opening = "idle" /\ hist'.save = hist.save /\ hist'.wanted = hist.wanted
        /\ hist'.mishaps = hist.mishaps /\ hist'.late = hist.late
    BY <2>2, <2>3, MountShape
  <2>5. QED
    BY <2>3, <2>4
<1>10. CASE ServeHistory
  BY <1>10 DEF ServeHistory, Hist, CallAt
<1>11. CASE ServeOpen
  BY <1>11 DEF ServeOpen, Hist, CallAt, MaybeText
<1>12. CASE ServeSave
  BY <1>12 DEF ServeSave, Hist, MaybeText
<1>13. CASE ServeRestore
  <2>1. [hist.restore EXCEPT !.at = "ok"] \in HistRestore /\ hist.restore.text \in Texts
    BY <1>13 DEF ServeRestore, Hist, HistRestore, CallAt
  <2>2. versions' \in Seq(Texts) /\ versions' # <<>>
    BY <1>13, <2>1 DEF ServeRestore, Restored
  <2>3. /\ hist' \in Hist /\ hist'.restore.at = "ok" /\ hist'.wanted = hist.restore.text
        /\ \A f \in DOMAIN hist \ {"restore", "wanted"} : hist'[f] = hist[f]
    BY <1>13, <2>1 DEF ServeRestore, Hist, HistRestore, MaybeText
  <2>4. QED
    BY <1>13, <2>1, <2>2, <2>3, HistoryAssumption DEF ServeRestore, Restored, Hist
<1>14. CASE FailCall
  <2>1. [hist.restore EXCEPT !.at = "failed"] \in HistRestore
    BY DEF Hist, HistRestore, CallAt
  <2>2. UNCHANGED <<versions, note>> /\ hist.left - 1 \in 0..HistoryBudget /\ <<>> \in Seq(Texts)
    BY <1>14, Countdown DEF FailCall
  <2>3. CASE /\ hist.load \in {"sent", "ok"}
             /\ hist' = [hist EXCEPT !.left = @ - 1, !.load = "failed", !.answer = <<>>]
    BY <2>2, <2>3 DEF Hist, CallAt
  <2>4. CASE /\ hist.restore.at \in {"sent", "ok"}
             /\ hist' = [hist EXCEPT !.left = @ - 1, !.restore.at = "failed"]
    BY <2>1, <2>2, <2>4 DEF Hist, HistRestore
  <2>5. CASE /\ hist.opening \in {"sent", "ok"}
             /\ hist' = [hist EXCEPT !.left = @ - 1, !.opening = "failed", !.draft = NoText]
    BY <2>2, <2>5 DEF Hist, CallAt, MaybeText
  <2>6. QED
    BY <1>14, <2>3, <2>4, <2>5 DEF FailCall
<1>15. ASSUME NEW i \in DOMAIN hist.list, Select(i) PROVE HistoryInv'
  <2>1. hist.list \in Seq(Texts)
    BY DEF Hist
  <2>2. i \in Nat /\ i \in DOMAIN hist.list
    BY <2>1
  <2>3. hist' = [hist EXCEPT !.selected = i] /\ UNCHANGED <<versions, note>> /\ Shown
    BY <1>15 DEF Select
  <2>4. hist' \in Hist
    BY <2>2, <2>3 DEF Hist
  <2>5. /\ hist'.selected = i /\ hist'.list = hist.list /\ hist'.load = hist.load
        /\ hist'.restore = hist.restore /\ hist'.at = hist.at /\ hist'.save = hist.save
        /\ hist'.draft = hist.draft /\ hist'.opening = hist.opening
        /\ hist'.wanted = hist.wanted /\ hist'.mishaps = hist.mishaps
        /\ hist'.late = hist.late
    BY <2>3 DEF Hist
  <2>6. QED
    BY <2>2, <2>3, <2>4, <2>5
<1>17. CASE DropRestore
  <2> DEFINE h == HistNoted(hist, "late", TRUE)
  <2>1. h \in Hist /\ h = [hist EXCEPT !.mishaps = hist.mishaps \cup {"late"}]
    BY DEF HistNoted, Hist
  <2>2. /\ hist' = [h EXCEPT !.left = @ - 1, !.restore.at = "failed", !.late = hist.restore.text]
        /\ hist.left - 1 \in 0..HistoryBudget /\ UNCHANGED <<versions, note>>
    BY <1>17, Countdown DEF DropRestore
  <2> HIDE DEF h
  <2>3. /\ h.left = hist.left /\ h.restore = hist.restore /\ hist.restore \in HistRestore
        /\ "late" \in h.mishaps /\ h.list = hist.list /\ h.load = hist.load
        /\ h.selected = hist.selected
    BY <2>1 DEF Hist
  <2> DEFINE r == [h.restore EXCEPT !.at = "failed"]
  <2>4. r \in HistRestore /\ r.at = "failed"
    BY <2>3 DEF HistRestore, CallAt
  <2>5. hist.restore.text \in MaybeText
    BY <2>3 DEF HistRestore
  <2>8. hist' = [h EXCEPT !.left = hist.left - 1, !.restore = r, !.late = hist.restore.text]
    BY <2>2, <2>3
  <2> HIDE DEF r
  <2> DEFINE g == [h EXCEPT !.restore = r]
             k == [g EXCEPT !.late = hist.restore.text]
  <2>9. hist' \in Hist
    <3>1. g \in Hist
      BY <2>1, <2>4 DEF Hist
    <3> HIDE DEF g
    <3>2. k \in Hist
      BY <2>5, <3>1 DEF Hist
    <3>3. hist' = [k EXCEPT !.left = hist.left - 1]
      BY <2>1, <2>8 DEF g, Hist
    <3> HIDE DEF k
    <3>4. QED
      BY <2>2, <3>2, <3>3 DEF Hist
  <2>6. /\ hist' \in Hist /\ "late" \in hist'.mishaps /\ hist'.restore.at = "failed"
        /\ hist'.list = hist.list /\ hist'.load = hist.load /\ hist'.selected = hist.selected
    BY <2>1, <2>3, <2>4, <2>8, <2>9 DEF Hist
  <2>7. QED
    BY <2>2, <2>6
<1>18. CASE ServeLate
  <2>1. /\ hist.late \in Texts
        /\ hist' = [hist EXCEPT !.late = NoText, !.wanted = hist.late]
    BY <1>18 DEF ServeLate, Hist, MaybeText
  <2>2. note' \in Texts /\ versions' \in Seq(Texts) /\ versions' # <<>>
    BY <1>18, <2>1 DEF ServeLate, Restored
  <2>3. /\ hist' \in Hist /\ hist'.mishaps = hist.mishaps
        /\ hist'.restore = hist.restore /\ hist'.list = hist.list /\ hist'.load = hist.load
        /\ hist'.selected = hist.selected
    BY <2>1 DEF Hist, MaybeText
  <2>4. hist.mishaps # {}
    BY <2>1, HistoryAssumption
  <2>5. QED
    BY <2>2, <2>3, <2>4
<1>16. CASE UNCHANGED histVars
  BY <1>16 DEF histVars
<1>19. QED
  BY <1>1, <1>2, <1>3, <1>4, <1>5, <1>6, <1>7, <1>8, <1>9, <1>10, <1>11, <1>12, <1>13, <1>14,
     <1>15, <1>16, <1>17, <1>18 DEF HistoryNext

----------------------------------------------------------------------------
LEMMA HistoryInvKept == HistoryInit /\ [][HistoryNext]_histVars => []HistoryInv
  BY HistoryInvInit, HistoryInvStep, PTL

\* A page that is open with nothing in its draft shows nothing of the note yet.
LEMMA HistoryInvSticks == HistoryInv => RestoreSticks
  BY DEF HistoryInv, Undisturbed, RestoreSticks

(***************************************************************************)
(* The history page and the editor behind it, on their own: as long as the *)
(* member neither leaves during a restore (onClose of HistoryPage.tsx) nor *)
(* opens the page with a save in flight, and no restore is served that the *)
(* page saw fail, nothing that is sent, lost or answered in any order      *)
(* brings the text before the restore back.                                *)
(***************************************************************************)
THEOREM RestoreStays == HistoryInit /\ [][HistoryNext]_histVars => []RestoreSticks
  BY HistoryInvKept, HistoryInvSticks, PTL

(***************************************************************************)
(* The import page.                                                        *)
(* What is imported is what was reviewed, once (ImportedAsReviewed), for   *)
(* any archives, any number of calls in flight and any number of visits.   *)
(***************************************************************************)

ImportPage == [step : {"upload", "review", "summary", "gone"}, file : Files \cup {NoFile},
               reviewed : Files \cup {NoFile}, selected : SUBSET Indices, busy : BOOLEAN,
               visit : Nat, approved : SUBSET Contents,
               mishaps : SUBSET {"other file"}, left : Nat]
ImportCall == [op : {"none", "preview", "import"}, at : {"idle", "sent", "late", "ok", "failed"},
               file : Files \cup {NoFile}, selected : SUBSET Indices, visit : Nat]

ImportTypes ==
    /\ imported \in [Contents -> Nat]
    /\ page \in ImportPage
    /\ importCalls \in [ImportSlots -> ImportCall]

Pending(s) == importCalls[s].op # "none"
Importing(s) == importCalls[s].op = "import"
\* The page still waits for the answer.
Current(s) == Pending(s) /\ importCalls[s].at # "late" /\ importCalls[s].visit = page.visit

\* A review is of a file, and so is every call; what comes late is an import.
Reviewing ==
    /\ page.step = "review" => /\ page.file \in Files /\ page.reviewed \in Files
                               /\ page.selected \subseteq DOMAIN Archives[page.reviewed]
    /\ \A s \in ImportSlots : /\ Pending(s) => importCalls[s].file \in Files
                              /\ importCalls[s].at = "late" => Importing(s)
                              /\ Current(s) => page.file \in Files

\* The file that is picked is the one that is analysed, and then reviewed.
OneFile ==
    "other file" \notin page.mishaps =>
      /\ page.step = "review" => page.reviewed = page.file
      /\ \A s \in ImportSlots : importCalls[s].op = "preview" /\ Current(s) =>
           importCalls[s].file = page.file

\* A page waits for one call at a time; those of an earlier visit are behind it.
OneAtATime ==
    /\ \A s \in ImportSlots : Pending(s) =>
         /\ importCalls[s].visit <= page.visit
         /\ page.step = "gone" => importCalls[s].visit < page.visit
    /\ \A s \in ImportSlots : Current(s) => page.busy
    /\ \A s, t \in ImportSlots : Current(s) /\ Current(t) => s = t

\* What is under way, and what was imported, was approved.
Approved ==
    "other file" \notin page.mishaps =>
      /\ \A s \in ImportSlots : Importing(s) =>
           \A i \in importCalls[s].selected :
             Archives[importCalls[s].file][i].content \in page.approved
      /\ \A c \in Contents : imported[c] > 0 => c \in page.approved

OnceOnly == \A c \in Contents : imported[c] <= 1

ImportInv == ImportTypes /\ Reviewing /\ OneFile /\ OneAtATime /\ Approved /\ OnceOnly

----------------------------------------------------------------------------
LEMMA NoCallTyped == NoImportCall \in ImportCall
  BY DEF NoImportCall, ImportCall

LEMMA ArchiveShape ==
  ASSUME NEW f \in Files
  PROVE  /\ DOMAIN Archives[f] \subseteq Indices
         /\ \A i \in DOMAIN Archives[f] : Archives[f][i].content \in Contents
  BY ImportAssumption DEF Indices

\* The little arithmetic there is, stated once for numbers that are fields.
LEMMA Counting ==
  ASSUME NEW n \in Nat
  PROVE  /\ n <= n /\ n + 1 \in Nat /\ (n > 0 => n - 1 \in Nat) /\ (n = 0 => n + 1 <= 1)
         /\ n > 0 /\ n <= 1 => n = 1
         /\ \A m \in Nat : /\ m <= n => m < n + 1
                           /\ m < n => m <= n /\ m # n
  OBVIOUS

LEMMA FieldsTyped ==
  ASSUME ImportTypes
  PROVE  /\ page.left \in Nat /\ page.visit \in Nat /\ page.file \in Files \cup {NoFile}
         /\ page.mishaps \in SUBSET {"other file"} /\ page.approved \in SUBSET Contents
         /\ \A s \in ImportSlots : importCalls[s].visit \in Nat
  BY DEF ImportTypes, ImportPage, ImportCall

LEMMA ImportInvInit == ImportInit => ImportInv
<1> SUFFICES ASSUME ImportInit PROVE ImportInv
  OBVIOUS
<1>1. page \in ImportPage
  BY ImportAssumption DEF ImportInit, Mounted, ImportPage
<1>2. ImportTypes
  BY <1>1, NoCallTyped DEF ImportInit, ImportTypes
<1>3. \A s \in ImportSlots : importCalls[s].op = "none"
  BY DEF ImportInit, NoImportCall
<1>4. QED
  BY <1>2, <1>3
  DEF ImportInit, Mounted, NoImportCall, ImportInv, Reviewing, OneFile, OneAtATime, Approved,
      OnceOnly, Pending, Importing, Current

\* A step that only puts something else on the page.
LEMMA PageOnly ==
  ASSUME ImportInv, page' \in ImportPage, UNCHANGED <<imported, importCalls>>,
         page'.visit = page.visit, page.mishaps \subseteq page'.mishaps,
         page'.approved = page.approved, page'.busy = page.busy, page'.step # "gone",
         Reviewing', OneFile'
  PROVE  ImportInv'
  BY DEF ImportInv, ImportTypes, OneAtATime, Approved, OnceOnly, Pending, Importing, Current

\* A page that waits for nothing sends a call.
LEMMA Sends ==
  ASSUME ImportInv, ~page.busy, page.step \in {"upload", "review"}, page.file \in Files,
         page' \in ImportPage, page'.step = page.step, page'.visit = page.visit, page'.busy,
         page'.file = page.file, page'.reviewed = page.reviewed,
         page'.selected = page.selected,
         page.approved \subseteq page'.approved, page'.mishaps = page.mishaps,
         NEW call \in ImportCall, call.op \in {"preview", "import"}, call.file = page.file,
         "other file" \notin page.mishaps /\ call.op = "import" =>
           \A i \in call.selected : Archives[call.file][i].content \in page'.approved,
         Send(call), UNCHANGED imported
  PROVE  ImportInv'
<1> USE DEF ImportInv, ImportTypes
<1> DEFINE sent == [call EXCEPT !.at = "sent", !.visit = page.visit]
<1>1. PICK s \in ImportSlots : /\ importCalls[s].op = "none"
                               /\ importCalls' = [importCalls EXCEPT ![s] = sent]
  BY DEF Send
<1>2. /\ sent \in ImportCall /\ sent.op = call.op /\ sent.file = call.file /\ sent.at = "sent"
      /\ sent.selected = call.selected /\ sent.visit = page.visit
  BY DEF ImportCall, ImportPage
<1> HIDE DEF sent
<1>3. /\ importCalls' \in [ImportSlots -> ImportCall] /\ importCalls'[s] = sent
      /\ \A t \in ImportSlots : t # s => importCalls'[t] = importCalls[t]
  BY <1>1, <1>2
<1>4. Reviewing'
  BY <1>2, <1>3 DEF Reviewing, Pending, Importing, Current
<1>9. OneFile'
  BY <1>2, <1>3 DEF OneFile, Pending, Current
<1>5. OneAtATime'
  <2>1. \A t \in ImportSlots : t # s => ~Current(t) /\ ~Current(t)'
    BY <1>3 DEF OneAtATime, Pending, Current
  <2>2. sent.visit <= page'.visit /\ page'.step # "gone"
    BY <1>2, FieldsTyped, Counting
  <2>3. \A t \in ImportSlots : Pending(t)' => importCalls'[t].visit <= page'.visit
    BY <1>3, <2>2 DEF OneAtATime, Pending
  <2>4. QED
    BY <2>1, <2>2, <2>3 DEF OneAtATime
<1>6. Approved'
  BY <1>2, <1>3, ZenonT(60) DEF Approved, Importing
<1>7. OnceOnly'
  BY DEF OnceOnly
<1>8. QED
  BY <1>3, <1>4, <1>5, <1>6, <1>7, <1>9

\* An answer is received: the slot is free again, and the page that was waiting
\* for it waits no more.
LEMMA Receives ==
  ASSUME ImportInv, NEW s \in ImportSlots, Pending(s), Received(s), UNCHANGED imported,
         page' \in ImportPage, page'.visit = page.visit, page'.mishaps = page.mishaps,
         page'.approved = page.approved, page'.file = page.file,
         page'.step = "gone" <=> page.step = "gone",
         page'.busy = page.busy \/ Current(s),
         page'.step = "review" =>
           \/ /\ page.step = "review" /\ page'.reviewed = page.reviewed
              /\ page'.selected = page.selected
           \/ /\ Current(s) /\ importCalls[s].op = "preview"
              /\ page'.reviewed = importCalls[s].file
              /\ page'.selected \subseteq DOMAIN Archives[page'.reviewed]
  PROVE  ImportInv'
<1> USE DEF ImportInv, ImportTypes
<1>1. /\ importCalls' \in [ImportSlots -> ImportCall] /\ importCalls'[s].op = "none"
      /\ importCalls'[s].at = "idle"
      /\ \A t \in ImportSlots : t # s => importCalls'[t] = importCalls[t]
  BY NoCallTyped DEF Received, NoImportCall
<1>2. \A t \in ImportSlots : Current(t)' => Current(t) /\ t # s
  BY <1>1 DEF Current, Pending
<1>3. Reviewing'
  BY <1>1, <1>2 DEF Reviewing, Pending, Importing, Current
<1>8. OneFile'
  <2>1. "other file" \notin page.mishaps /\ page'.step = "review" => page'.reviewed = page'.file
    BY DEF OneFile
  <2>2. QED
    BY <1>1, <1>2, <2>1 DEF OneFile
<1>4. OneAtATime'
  <2>1. \A t \in ImportSlots : Current(t)' => page'.busy
    BY <1>2 DEF OneAtATime
  <2>2. QED
    BY <1>1, <1>2, <2>1 DEF OneAtATime, Pending
<1>5. Approved'
  BY <1>1 DEF Approved, Importing
<1>6. OnceOnly'
  BY DEF OnceOnly
<1>7. QED
  BY <1>1, <1>3, <1>4, <1>5, <1>6, <1>8

----------------------------------------------------------------------------
LEMMA ImportInvStep ==
  ASSUME ImportInv, [ImportNext]_importVars
  PROVE  ImportInv'
<1> USE DEF ImportInv, ImportTypes
<1>1. CASE Continue
  <2> DEFINE call == [NoImportCall EXCEPT !.op = "preview", !.file = page.file]
  <2>1. /\ page.file \in Files /\ page.left - 1 \in Nat
        /\ page' = [page EXCEPT !.busy = TRUE, !.left = @ - 1]
    BY <1>1, FieldsTyped, Counting DEF Continue
  <2>2. call \in ImportCall /\ call.op = "preview" /\ call.file = page.file
    BY <2>1, NoCallTyped DEF ImportCall
  <2>3. page' \in ImportPage
    BY <2>1 DEF ImportPage
  <2>4. QED
    BY <1>1, <2>1, <2>2, <2>3, Sends DEF Continue, ImportPage
<1>2. CASE Import
  <2> DEFINE call == [NoImportCall EXCEPT !.op = "import", !.file = page.file,
                                          !.selected = page.selected]
             cards == {Archives[page.reviewed][i].content : i \in page.selected}
  <2>1. /\ page.step = "review" /\ page.file \in Files /\ page.left - 1 \in Nat
        /\ page.reviewed \in Files /\ page.selected \subseteq DOMAIN Archives[page.reviewed]
        /\ page' = [page EXCEPT !.busy = TRUE, !.left = @ - 1, !.approved = @ \cup cards]
    BY <1>2, FieldsTyped, Counting DEF Import, Reviewing
  <2>2. /\ call \in ImportCall /\ call.op = "import" /\ call.file = page.file
        /\ call.selected = page.selected
    BY <2>1, NoCallTyped DEF ImportCall, ImportPage
  <2>3. cards \in SUBSET Contents
    BY <2>1, ArchiveShape, ZenonT(60) DEF ImportPage
  <2> HIDE DEF call
  <2>4. /\ page' \in ImportPage /\ page'.step = "review" /\ page'.visit = page.visit
        /\ page'.busy /\ page'.file = page.file /\ page'.reviewed = page.reviewed
        /\ page'.selected = page.selected /\ page'.approved = page.approved \cup cards
        /\ page'.mishaps = page.mishaps
    BY <2>1, <2>3 DEF ImportPage
  <2>5. "other file" \notin page.mishaps =>
          \A i \in call.selected : Archives[call.file][i].content \in page'.approved
    BY <2>1, <2>2, <2>4 DEF OneFile
  <2>6. Send(call) /\ ~page.busy /\ UNCHANGED imported
    BY <1>2 DEF Import, call
  <2>7. QED
    <3>1. page.approved \subseteq page'.approved
      BY <2>4
    <3> HIDE DEF cards
    <3>2. QED
      BY <2>1, <2>2, <2>4, <2>5, <2>6, <3>1, Sends
<1>3. CASE CancelReview
  BY <1>3, PageOnly DEF CancelReview, ImportPage, Reviewing, OneFile, Pending, Importing, Current
<1>4. CASE LeaveImport
  <2>1. /\ page' \in ImportPage /\ page'.step = "gone" /\ page'.visit = page.visit + 1
        /\ page'.approved = page.approved /\ page'.mishaps = page.mishaps
        /\ UNCHANGED <<imported, importCalls>>
    <3>1. page.visit + 1 \in Nat
      BY FieldsTyped, Counting
    <3>2. QED
      BY <1>4, <3>1 DEF LeaveImport, ImportPage
  <2>3. \A s \in ImportSlots : Pending(s) => importCalls[s].visit < page'.visit
    <3>1. SUFFICES ASSUME NEW s \in ImportSlots, Pending(s)
                   PROVE  importCalls[s].visit < page.visit + 1
      BY <2>1
    <3>2. importCalls[s].visit <= page.visit
      BY <3>1 DEF OneAtATime
    <3>3. QED
      BY <3>2, FieldsTyped, Counting
  <2>4. \A s \in ImportSlots : ~Current(s)'
    <3>1. \A s \in ImportSlots : importCalls[s].visit < page'.visit =>
            importCalls[s].visit # page'.visit
      BY <2>1, FieldsTyped, Counting
    <3>2. QED
      BY <2>1, <2>3, <3>1 DEF Current, Pending
  <2>5. Reviewing' /\ OneFile'
    BY <2>1, <2>4 DEF Reviewing, OneFile, Pending, Importing
  <2>6. OneAtATime'
    <3>1. page'.visit \in Nat
      BY <2>1 DEF ImportPage
    <3>2. \A s \in ImportSlots : importCalls[s].visit < page'.visit =>
            importCalls[s].visit <= page'.visit
      <4>1. \A m, n \in Nat : m < n => m <= n
        OBVIOUS
      <4>2. \A s \in ImportSlots : importCalls[s].visit \in Nat
        BY FieldsTyped
      <4>3. QED
        BY <3>1, <4>1, <4>2
    <3>3. QED
      BY <2>1, <2>3, <2>4, <3>2 DEF OneAtATime, Pending
  <2>7. Approved' /\ OnceOnly'
    BY <2>1 DEF Approved, OnceOnly, Importing
  <2>8. QED
    BY <2>1, <2>5, <2>6, <2>7
<1>5. CASE Revisit
  <2>1. /\ page.step = "gone" /\ page' \in ImportPage /\ page'.step = "upload"
        /\ page'.visit = page.visit /\ page'.approved = page.approved
        /\ page'.mishaps = page.mishaps /\ UNCHANGED <<imported, importCalls>>
    BY <1>5 DEF Revisit, Mounted, ImportPage
  <2>2. \A s \in ImportSlots : ~Current(s)'
    <3>1. \A s \in ImportSlots : importCalls[s].visit < page.visit =>
            importCalls[s].visit # page.visit
      BY FieldsTyped, Counting
    <3>2. QED
      BY <2>1, <3>1 DEF OneAtATime, Current, Pending
  <2>3. QED
    BY <2>1, <2>2 DEF Reviewing, OneFile, OneAtATime, Approved, OnceOnly, Pending, Importing
<1>6. ASSUME NEW f \in Files, Pick(f) PROVE ImportInv'
  <2> DEFINE other == IF Analysing THEN page.mishaps \cup {"other file"} ELSE page.mishaps
  <2>1. /\ page.step = "upload" /\ page' = [page EXCEPT !.file = f, !.mishaps = other]
        /\ UNCHANGED <<imported, importCalls>>
    BY <1>6 DEF Pick
  <2>2. /\ other \in SUBSET {"other file"} /\ page.mishaps \subseteq other
        /\ "other file" \notin other => ~Analysing
    BY FieldsTyped
  <2> HIDE DEF other
  <2>3. /\ page' \in ImportPage /\ page'.step = "upload" /\ page'.visit = page.visit
        /\ page'.mishaps = other /\ page'.approved = page.approved
        /\ page'.busy = page.busy /\ page'.file = f
    BY <2>1, <2>2 DEF ImportPage
  <2>4. Reviewing'
    BY <2>1, <2>3 DEF Reviewing, Pending, Importing, Current
  <2>5. OneFile'
    BY <2>1, <2>2, <2>3 DEF OneFile, Analysing, Seen, Current, Pending
  <2>6. QED
    BY <2>1, <2>2, <2>3, <2>4, <2>5, PageOnly
<1>7. ASSUME NEW i \in Indices, Toggle(i) PROVE ImportInv'
  <2> DEFINE sel == IF i \in page.selected THEN page.selected \ {i} ELSE page.selected \cup {i}
  <2>1. /\ page.step = "review" /\ i \in DOMAIN Archives[page.reviewed]
        /\ page' = [page EXCEPT !.selected = sel] /\ UNCHANGED <<imported, importCalls>>
    BY <1>7 DEF Toggle
  <2>2. sel \in SUBSET Indices /\ sel \subseteq DOMAIN Archives[page.reviewed]
    BY <2>1 DEF Reviewing, ImportPage
  <2> HIDE DEF sel
  <2>3. QED
    BY <2>1, <2>2, PageOnly DEF ImportPage, Reviewing, OneFile, Pending, Importing, Current
<1>8. ASSUME NEW checked \in BOOLEAN, SelectAll(checked) PROVE ImportInv'
  <2> DEFINE sel == IF checked THEN DOMAIN Archives[page.reviewed] ELSE {}
  <2>1. /\ page.step = "review" /\ page.reviewed \in Files
        /\ page' = [page EXCEPT !.selected = sel] /\ UNCHANGED <<imported, importCalls>>
    BY <1>8 DEF SelectAll, Reviewing
  <2>2. sel \in SUBSET Indices /\ sel \subseteq DOMAIN Archives[page.reviewed]
    BY <2>1, ArchiveShape
  <2> HIDE DEF sel
  <2>3. QED
    BY <2>1, <2>2, PageOnly DEF ImportPage, Reviewing, OneFile, Pending, Importing, Current
<1>9. ASSUME NEW s \in ImportSlots, PreviewAnswered(s) PROVE ImportInv'
  <2> DEFINE f == importCalls[s].file
             sel == {i \in DOMAIN Archives[f] : ~Archives[f][i].trashed}
  <2>1. /\ Pending(s) /\ Received(s) /\ UNCHANGED imported /\ f \in Files
        /\ importCalls[s].op = "preview" /\ importCalls[s].at # "late"
    BY <1>9 DEF PreviewAnswered, Answered, Pending, Reviewing
  <2>2. sel \in SUBSET Indices /\ sel \subseteq DOMAIN Archives[f]
    BY <2>1, ArchiveShape
  <2>3. Seen(s) => Current(s) /\ page.step # "gone"
    BY <2>1 DEF Seen, Current
  <2>4. \/ page' = page
        \/ Seen(s) /\ page' = [page EXCEPT !.busy = FALSE, !.step = "review", !.reviewed = f,
                                           !.selected = sel]
        \/ Seen(s) /\ page' = [page EXCEPT !.busy = FALSE]
    BY <1>9 DEF PreviewAnswered
  <2> HIDE DEF sel
  <2>5. CASE page' = page
    <3>1. /\ page' \in ImportPage /\ page'.visit = page.visit /\ page'.mishaps = page.mishaps
          /\ page'.approved = page.approved /\ page'.file = page.file /\ page'.step = page.step
      BY <2>5
    <3>2. /\ page'.busy = page.busy /\ page'.reviewed = page.reviewed
          /\ page'.selected = page.selected
      BY <2>5
    <3>3. QED
      BY <2>1, <3>1, <3>2, Receives
  <2>6. CASE Seen(s) /\ page' = [page EXCEPT !.busy = FALSE, !.step = "review", !.reviewed = f,
                                             !.selected = sel]
    <3>1. /\ page' \in ImportPage /\ page'.visit = page.visit /\ page'.mishaps = page.mishaps
          /\ page'.approved = page.approved /\ page'.file = page.file /\ page'.step = "review"
          /\ page'.reviewed = f /\ page'.selected = sel
      BY <2>1, <2>2, <2>6 DEF ImportPage
    <3>2. QED
      BY <2>1, <2>2, <2>3, <2>6, <3>1, Receives
  <2>7. CASE Seen(s) /\ page' = [page EXCEPT !.busy = FALSE]
    <3>1. /\ page' \in ImportPage /\ page'.visit = page.visit /\ page'.mishaps = page.mishaps
          /\ page'.approved = page.approved /\ page'.file = page.file /\ page'.step = page.step
          /\ page'.reviewed = page.reviewed /\ page'.selected = page.selected
      BY <2>7 DEF ImportPage
    <3>2. QED
      BY <2>1, <2>3, <2>7, <3>1, Receives DEF Reviewing
  <2>8. QED
    BY <2>4, <2>5, <2>6, <2>7
<1>10. ASSUME NEW s \in ImportSlots, ImportAnswered(s) PROVE ImportInv'
  <2>1. Pending(s) /\ Received(s) /\ UNCHANGED imported /\ importCalls[s].at # "late"
    BY <1>10 DEF ImportAnswered, Answered, Pending
  <2>2. Seen(s) => Current(s) /\ page.step # "gone"
    BY <2>1 DEF Seen, Current
  <2>3. \/ page' = page
        \/ Seen(s) /\ page' = [page EXCEPT !.busy = FALSE, !.step = "summary"]
        \/ Seen(s) /\ page' = [page EXCEPT !.busy = FALSE]
    BY <1>10 DEF ImportAnswered
  <2>4. CASE page' = page
    <3>1. /\ page' \in ImportPage /\ page'.visit = page.visit /\ page'.mishaps = page.mishaps
          /\ page'.approved = page.approved /\ page'.file = page.file /\ page'.step = page.step
      BY <2>4
    <3>2. /\ page'.busy = page.busy /\ page'.reviewed = page.reviewed
          /\ page'.selected = page.selected
      BY <2>4
    <3>3. QED
      BY <2>1, <3>1, <3>2, Receives
  <2>5. CASE Seen(s) /\ page' \in {[page EXCEPT !.busy = FALSE, !.step = "summary"],
                                   [page EXCEPT !.busy = FALSE]}
    <3>1. /\ page' \in ImportPage /\ page'.visit = page.visit /\ page'.mishaps = page.mishaps
          /\ page'.approved = page.approved /\ page'.file = page.file
          /\ page'.step \in {page.step, "summary"}
          /\ page'.reviewed = page.reviewed /\ page'.selected = page.selected
      BY <2>5 DEF ImportPage
    <3>2. QED
      BY <2>1, <2>2, <2>5, <3>1, Receives DEF Reviewing
  <2>6. QED
    BY <2>3, <2>4, <2>5
<1>11. ASSUME NEW s \in ImportSlots, ServePreview(s) \/ LoseImportCall(s)
       PROVE  ImportInv'
  <2>1. /\ importCalls' \in [ImportSlots -> ImportCall]
        /\ importCalls[s].at # "late"
        /\ \E at \in {"ok", "failed"} : importCalls' = [importCalls EXCEPT ![s].at = at]
        /\ UNCHANGED imported
    BY <1>11 DEF ServePreview, LoseImportCall, ImportCall
  <2>2. \A t \in ImportSlots :
          /\ importCalls'[t].op = importCalls[t].op /\ importCalls'[t].file = importCalls[t].file
          /\ importCalls'[t].selected = importCalls[t].selected
          /\ importCalls'[t].visit = importCalls[t].visit
          /\ importCalls'[t].at = "late" <=> importCalls[t].at = "late"
    BY <2>1 DEF ImportCall
  <2>3. /\ page' \in ImportPage /\ page'.step = page.step /\ page'.file = page.file
        /\ page'.reviewed = page.reviewed /\ page'.selected = page.selected
        /\ page'.busy = page.busy /\ page'.visit = page.visit
        /\ page'.approved = page.approved /\ page'.mishaps = page.mishaps
    <3>1. CASE ServePreview(s)
      BY <3>1 DEF ServePreview
    <3>2. CASE LoseImportCall(s)
      <4>1. page.left - 1 \in Nat /\ page' = [page EXCEPT !.left = page.left - 1]
        BY <3>2, FieldsTyped, Counting DEF LoseImportCall
      <4>2. QED
        BY <4>1 DEF ImportPage
    <3>3. QED
      BY <1>11, <3>1, <3>2
  <2>4. \A t \in ImportSlots : Current(t)' <=> Current(t)
    BY <2>2, <2>3 DEF Current, Pending
  <2>5. Reviewing' /\ OneFile' /\ OneAtATime'
    <3>1. Reviewing'
      BY <2>2, <2>3, <2>4 DEF Reviewing, Pending, Importing
    <3>2. OneFile'
      BY <2>2, <2>3, <2>4 DEF OneFile, Pending
    <3>3. OneAtATime'
      BY <2>2, <2>3, <2>4 DEF OneAtATime, Pending, Importing
    <3>4. QED
      BY <3>1, <3>2, <3>3
  <2>6. Approved' /\ OnceOnly'
    BY <2>1, <2>2, <2>3 DEF Approved, OnceOnly, Importing
  <2>7. QED
    BY <2>1, <2>3, <2>5, <2>6
<1>14. ASSUME NEW s \in ImportSlots, ServeImport(s) PROVE ImportInv'
  <2> DEFINE new == {e.content : e \in {x \in Chosen(importCalls[s]) :
                                          ~x.trashed /\ imported[x.content] = 0}}
             call == IF importCalls[s].at = "late" THEN NoImportCall
                     ELSE [importCalls[s] EXCEPT !.at = "ok"]
  <2>1. /\ Importing(s) /\ UNCHANGED page /\ importCalls' = [importCalls EXCEPT ![s] = call]
        /\ imported' = [c \in Contents |-> IF c \in new THEN imported[c] + 1 ELSE imported[c]]
    BY <1>14 DEF ServeImport, Importing
  <2>2. importCalls[s].file \in Files
    BY <2>1 DEF Reviewing, Pending, Importing
  <2>3. /\ \A c \in new : imported[c] = 0
        /\ \A c \in new : \E i \in importCalls[s].selected :
             Archives[importCalls[s].file][i].content = c
    BY <2>2 DEF Chosen
  <2>4. /\ call \in ImportCall /\ call.at # "late"
        /\ call.op = "none" \/ /\ call.op = importCalls[s].op /\ call.file = importCalls[s].file
                               /\ call.selected = importCalls[s].selected
                               /\ call.visit = importCalls[s].visit
                               /\ importCalls[s].at # "late"
    BY NoCallTyped DEF NoImportCall, ImportCall
  <2> HIDE DEF new, call
  <2>5. /\ importCalls' \in [ImportSlots -> ImportCall] /\ importCalls'[s] = call
        /\ \A t \in ImportSlots : t # s => importCalls'[t] = importCalls[t]
    BY <2>1, <2>4
  <2>6. /\ \A t \in ImportSlots : Current(t)' => Current(t)
        /\ \A t \in ImportSlots : Pending(t)' =>
             /\ importCalls'[t].op = importCalls[t].op /\ importCalls'[t].file = importCalls[t].file
             /\ importCalls'[t].selected = importCalls[t].selected
             /\ importCalls'[t].visit = importCalls[t].visit
    BY <2>1, <2>4, <2>5 DEF Current, Pending
  <2>7. Reviewing'
    BY <2>1, <2>4, <2>5, <2>6 DEF Reviewing, Pending, Importing
  <2>8. OneFile'
    BY <2>1, <2>6 DEF OneFile, Pending, Current
  <2>9. OneAtATime'
    BY <2>1, <2>6 DEF OneAtATime, Pending
  <2>10. imported' \in [Contents -> Nat] /\ OnceOnly'
    BY <2>1, <2>3 DEF OnceOnly
  <2>11. Approved'
    <3>1. ASSUME "other file" \notin page.mishaps, NEW c \in Contents, imported'[c] > 0
          PROVE  c \in page.approved
      BY <2>1, <2>3, <3>1 DEF Approved
    <3>2. QED
      BY <2>1, <2>6, <3>1 DEF Approved, Importing, Pending
  <2>12. QED
    BY <2>1, <2>5, <2>7, <2>8, <2>9, <2>10, <2>11
<1>15. ASSUME NEW s \in ImportSlots, DropImportCall(s) PROVE ImportInv'
  <2> DEFINE busy == page.busy /\ ~Seen(s)
  <2>1. /\ Importing(s) /\ importCalls[s].at = "sent" /\ UNCHANGED imported
        /\ importCalls' = [importCalls EXCEPT ![s].at = "late"] /\ page.left - 1 \in Nat
        /\ page' = [page EXCEPT !.left = page.left - 1, !.busy = busy]
    BY <1>15, FieldsTyped, Counting DEF DropImportCall, Importing
  <2>2. busy \in BOOLEAN /\ (page.busy => busy \/ Seen(s))
    BY DEF ImportPage
  <2> HIDE DEF busy
  <2>3. /\ page' \in ImportPage /\ page'.step = page.step /\ page'.file = page.file
        /\ page'.reviewed = page.reviewed /\ page'.selected = page.selected
        /\ page'.busy = busy /\ page'.visit = page.visit
        /\ page'.approved = page.approved /\ page'.mishaps = page.mishaps
    BY <2>1, <2>2 DEF ImportPage
  <2>4. /\ importCalls' \in [ImportSlots -> ImportCall] /\ importCalls'[s].at = "late"
        /\ \A t \in ImportSlots :
             /\ importCalls'[t].op = importCalls[t].op /\ importCalls'[t].file = importCalls[t].file
             /\ importCalls'[t].selected = importCalls[t].selected
             /\ importCalls'[t].visit = importCalls[t].visit
             /\ t # s => importCalls'[t] = importCalls[t]
    BY <2>1 DEF ImportCall
  <2>5. \A t \in ImportSlots : Current(t)' => Current(t) /\ t # s
    BY <2>3, <2>4 DEF Current, Pending
  <2>6. Seen(s) => Current(s)
    BY <2>1 DEF Seen, Current, Pending, Importing
  <2>7. Reviewing' /\ OneFile'
    BY <2>1, <2>3, <2>4, <2>5 DEF Reviewing, OneFile, Pending, Importing
  <2>8. OneAtATime'
    <3>1. \A t \in ImportSlots : Current(t)' => page'.busy
      BY <2>2, <2>3, <2>5, <2>6 DEF OneAtATime
    <3>2. QED
      BY <2>3, <2>4, <2>5, <3>1 DEF OneAtATime, Pending
  <2>9. Approved' /\ OnceOnly'
    BY <2>1, <2>3, <2>4 DEF Approved, OnceOnly, Importing
  <2>10. QED
    BY <2>1, <2>3, <2>4, <2>7, <2>8, <2>9
<1>12. CASE UNCHANGED importVars
  BY <1>12
  DEF importVars, Reviewing, OneFile, OneAtATime, Approved, OnceOnly, Pending, Importing, Current
<1>13. QED
  BY <1>1, <1>2, <1>3, <1>4, <1>5, <1>6, <1>7, <1>8, <1>9, <1>10, <1>11, <1>12, <1>14, <1>15
  DEF ImportNext

----------------------------------------------------------------------------
LEMMA ImportInvKept == ImportInit /\ [][ImportNext]_importVars => []ImportInv
  BY ImportInvInit, ImportInvStep, PTL

LEMMA ImportInvReviewed == ImportInv => ImportedAsReviewed
<1> SUFFICES ASSUME ImportInv, NEW c \in Contents, imported[c] > 0
             PROVE  /\ c \in page.approved \/ "other file" \in page.mishaps
                    /\ imported[c] = 1
  BY DEF ImportedAsReviewed
<1>1. imported[c] \in Nat
  BY DEF ImportInv, ImportTypes
<1>2. c \in page.approved \/ "other file" \in page.mishaps
  BY DEF ImportInv, Approved
<1>3. imported[c] <= 1
  BY DEF ImportInv, OnceOnly
<1>4. QED
  BY <1>1, <1>2, <1>3, Counting

(***************************************************************************)
(* The import page on its own: whatever is lost, retried, cancelled, left  *)
(* behind or served after the page saw it fail, only approved cards become *)
(* notes, and each of them once (import_keep.py reads what is there and    *)
(* inserts in one go), unless another file was picked during an analysis.  *)
(***************************************************************************)
THEOREM ImportsTheReview == ImportInit /\ [][ImportNext]_importVars => []ImportedAsReviewed
  BY ImportInvKept, ImportInvReviewed, PTL

(***************************************************************************)
(* The tab.                                                                *)
(***************************************************************************)

LEMMA StepOfScreens ==
  ASSUME [Next]_vars
  PROVE  [AdminNext]_adminVars /\ [HistoryNext]_histVars /\ [ImportNext]_importVars
  BY DEF Next, vars

(***************************************************************************)
(* The numbers of the import page and of its calls, within their bounds.   *)
(***************************************************************************)
VisitsCounted == page.visit <= Visits /\ \A s \in ImportSlots : importCalls[s].visit <= Visits
Counted == VisitsCounted /\ page.left <= ImportBudget

\* The numbers among them.
LEMMA NumbersTyped ==
  ASSUME ImportTypes
  PROVE  /\ page.left \in Nat /\ page.visit \in Nat
         /\ \A s \in ImportSlots : importCalls[s].visit \in Nat
         /\ Visits \in Nat /\ ImportBudget \in Nat
BY FieldsTyped, ImportAssumption DEF ImportTypes

\* A step that spends of what is left, if anything, and numbers its calls as the
\* page or as one that was never made.
LEMMA FewerLeft ==
  ASSUME ImportTypes, Counted, page'.visit = page.visit, page'.left \in {page.left, page.left - 1},
         \A s \in ImportSlots : importCalls'[s].visit \in {importCalls[s].visit, page.visit, 0}
  PROVE  Counted'
<1>1. page'.left <= ImportBudget
  BY NumbersTyped DEF Counted
<1>2. \A s \in ImportSlots : importCalls'[s].visit <= Visits
  BY NumbersTyped DEF Counted, VisitsCounted
<1> QED
  BY <1>1, <1>2 DEF Counted, VisitsCounted

\* The page sends its calls from where it is.
LEMMA SentVisit ==
  ASSUME ImportTypes, NEW call \in ImportCall, Send(call)
  PROVE  \A s \in ImportSlots : importCalls'[s].visit \in {importCalls[s].visit, page.visit}
<1>1. PICK s \in ImportSlots :
        importCalls' = [importCalls EXCEPT ![s] = [call EXCEPT !.at = "sent", !.visit = page.visit]]
  BY DEF Send
<1>2. importCalls'[s].visit = page.visit
  BY <1>1 DEF ImportTypes, ImportCall
<1> QED
  BY <1>1, <1>2 DEF ImportTypes

\* Every step keeps the count.
LEMMA CountedStep ==
  ASSUME ImportTypes, Counted, [ImportNext]_importVars
  PROVE  Counted'
<1>0. page \in ImportPage /\ importCalls \in [ImportSlots -> ImportCall]
  BY DEF ImportTypes
<1>1. CASE Continue \/ Import
  <2>1. PICK call \in ImportCall : Send(call)
    BY <1>0, <1>1, NoCallTyped DEF Continue, Import, ImportCall, ImportPage
  <2>2. page'.visit = page.visit /\ page'.left = page.left - 1
    BY <1>0, <1>1 DEF Continue, Import, ImportPage
  <2> QED
    BY <2>1, <2>2, SentVisit, FewerLeft
<1>2. CASE LeaveImport
  <2>1. /\ page.visit < Visits /\ page'.left = page.left /\ page'.visit = page.visit + 1
        /\ importCalls' = importCalls
    BY <1>0, <1>2 DEF LeaveImport, ImportPage
  <2>2. page'.visit <= Visits
    BY <2>1, NumbersTyped
  <2> QED
    BY <2>1, <2>2 DEF Counted, VisitsCounted
<1>3. CASE \/ Revisit \/ CancelReview
           \/ \E f \in Files : Pick(f)
           \/ \E i \in Indices : Toggle(i)
           \/ \E checked \in BOOLEAN : SelectAll(checked)
  <2>1. importCalls' = importCalls
    BY <1>3 DEF Revisit, CancelReview, Pick, Toggle, SelectAll
  <2>2. page'.visit = page.visit /\ page'.left = page.left
    BY <1>0, <1>3 DEF Revisit, Mounted, CancelReview, Pick, Toggle, SelectAll, ImportPage
  <2> QED
    BY <2>1, <2>2, FewerLeft
<1>4. ASSUME NEW s \in ImportSlots,
             \/ PreviewAnswered(s) \/ ImportAnswered(s) \/ ServePreview(s)
             \/ ServeImport(s) \/ LoseImportCall(s) \/ DropImportCall(s)
      PROVE  Counted'
  <2>1. page'.visit = page.visit /\ page'.left \in {page.left, page.left - 1}
    BY <1>0, <1>4 DEF PreviewAnswered, ImportAnswered, ServePreview, ServeImport,
      LoseImportCall, DropImportCall, ImportPage
  <2>2. \E call : importCalls' = [importCalls EXCEPT ![s] = call]
                  /\ call.visit \in {importCalls[s].visit, 0}
    <3>1. CASE PreviewAnswered(s) \/ ImportAnswered(s)
      BY <3>1 DEF PreviewAnswered, ImportAnswered, Received, NoImportCall
    <3>2. CASE ServeImport(s)
      <4> DEFINE call == IF importCalls[s].at = "late" THEN NoImportCall
                         ELSE [importCalls[s] EXCEPT !.at = "ok"]
      <4>1. importCalls' = [importCalls EXCEPT ![s] = call]
        BY <3>2 DEF ServeImport
      <4>2. call.visit \in {importCalls[s].visit, 0}
        BY <1>0 DEF NoImportCall, ImportCall
      <4> QED
        BY <4>1, <4>2
    <3>3. CASE ServePreview(s) \/ LoseImportCall(s) \/ DropImportCall(s)
      <4>1. PICK at \in {"ok", "failed", "late"} :
              importCalls' = [importCalls EXCEPT ![s] = [importCalls[s] EXCEPT !.at = at]]
        BY <1>0, <3>3 DEF ServePreview, LoseImportCall, DropImportCall
      <4>2. [importCalls[s] EXCEPT !.at = at].visit = importCalls[s].visit
        BY <1>0 DEF ImportCall
      <4> QED
        BY <4>1, <4>2
    <3> QED
      BY <1>4, <3>1, <3>2, <3>3
  <2>3. \A t \in ImportSlots : importCalls'[t].visit \in {importCalls[t].visit, page.visit, 0}
    BY <1>0, <2>2
  <2> QED
    BY <2>1, <2>3, FewerLeft
<1>5. CASE UNCHANGED importVars
  BY <1>5 DEF importVars, Counted, VisitsCounted
<1> QED
  BY <1>1, <1>2, <1>3, <1>4, <1>5 DEF ImportNext

\* It starts with nothing under way.
LEMMA CountedInit ==
  ASSUME ImportInit
  PROVE  Counted
<1>1. page.visit = 0 /\ page.left = ImportBudget /\ \A s \in ImportSlots : importCalls[s].visit = 0
  BY DEF ImportInit, Mounted, NoImportCall
<1> QED
  BY <1>1, ImportAssumption DEF Counted, VisitsCounted

\* With the count the numbers stay within their bounds.
LEMMA CountedTypes ==
  ASSUME ImportTypes, Counted
  PROVE  ImportTypeOK
<1>1. page.left \in 0..ImportBudget
  BY NumbersTyped DEF Counted
<1>2. page.visit \in 0..Visits /\ \A s \in ImportSlots : importCalls[s].visit \in 0..Visits
  BY NumbersTyped DEF Counted, VisitsCounted
<1>3. importCalls \in [ImportSlots ->
         [op : {"none", "preview", "import"}, at : {"idle", "sent", "late", "ok", "failed"},
          file : Files \cup {NoFile}, selected : SUBSET Indices, visit : 0..Visits]]
  BY <1>2 DEF ImportTypes, ImportCall
<1> QED
  BY <1>1, <1>2, <1>3 DEF ImportTypes, ImportTypeOK, ImportPage

\* The types of the three screens, as the specification states them.
LEMMA AdminTyped ==
  ASSUME AdminTypes
  PROVE  AdminTypeOK
BY DEF AdminTypes, AdminTypeOK, AdminState, AdminCalls, AdminMishaps, Rows, Left, Fitting

LEMMA HistoryTyped ==
  ASSUME HistTypes
  PROVE  HistoryTypeOK
BY DEF HistTypes, HistoryTypeOK, Hist, HistRestore, MaybeText

(***************************************************************************)
(* The three screens keep their types, whatever their calls overlap with   *)
(* and whatever was left in flight (AccessManager.tsx, TokenManager.tsx,   *)
(* HistoryPage.tsx, ImportKeepPage.tsx and their handlers).                *)
(***************************************************************************)
THEOREM ScreensTyped == Spec => []TypeOK
<1> DEFINE Inv == /\ screen \in {"admin", "import", "history"}
                  /\ AdminInv /\ ImportInv /\ Counted /\ HistoryInv
<1>1. Init => Inv
  BY AdminInvInit, ImportInvInit, CountedInit, HistoryInvInit DEF Init
<1>2. Inv /\ [Next]_vars => Inv'
  <2> SUFFICES ASSUME Inv, [Next]_vars
               PROVE  Inv'
    OBVIOUS
  <2>1. [AdminNext]_adminVars /\ [HistoryNext]_histVars /\ [ImportNext]_importVars
    BY StepOfScreens
  <2>2. AdminInv' /\ ImportInv' /\ HistoryInv'
    BY <2>1, AdminInvStep, ImportInvStep, HistoryInvStep
  <2>3. Counted'
    BY <2>1, CountedStep DEF ImportInv
  <2>4. screen' = screen
    BY DEF Next, vars
  <2> QED
    BY <2>2, <2>3, <2>4
<1>3. Inv => TypeOK
  BY CountedTypes, AdminTyped, HistoryTyped DEF TypeOK, ImportInv, AdminInv, HistoryInv
<1> QED
  BY <1>1, <1>2, <1>3, PTL DEF Spec

(***************************************************************************)
(* A version that was restored stays (HistoryPage.tsx): whatever is sent,  *)
(* lost or answered in any order, except after the three mishaps that the  *)
(* property names.                                                         *)
(***************************************************************************)
THEOREM RestoreSticksOnTheTab == Spec => []RestoreSticks
<1>1. Init => HistoryInit
  BY DEF Init
<1>2. [Next]_vars => [HistoryNext]_histVars
  BY StepOfScreens
<1>3. QED
  BY <1>1, <1>2, RestoreStays, PTL DEF Spec

(***************************************************************************)
(* Only approved cards become notes, and each of them one note             *)
(* (ImportKeepPage.tsx, import_keep.py); another file that was picked      *)
(* during an analysis excuses the cards, and never the number.             *)
(***************************************************************************)
THEOREM ImportedAsReviewedOnTheTab == Spec => []ImportedAsReviewed
<1>1. Init => ImportInit
  BY DEF Init
<1>2. [Next]_vars => [ImportNext]_importVars
  BY StepOfScreens
<1>3. QED
  BY <1>1, <1>2, ImportsTheReview, PTL DEF Spec

(***************************************************************************)
(* The administrator of the tab never leaves the instance without one      *)
(* (AccessManager.tsx, users.py), except with two menus open, or after the *)
(* page was left or a connection broke with a change on the server.        *)
(***************************************************************************)
THEOREM AnAdminStaysOnTheTab == Spec => []AdminsRemain
<1>1. Init => AdminInit
  BY DEF Init
<1>2. [Next]_vars => [AdminNext]_adminVars
  BY StepOfScreens
<1>3. QED
  BY <1>1, <1>2, AnAdminStays, PTL DEF Spec

(***************************************************************************)
(* A token that lives had its secret shown (TokenManager.tsx), except      *)
(* after the mishaps that the property names.                              *)
(***************************************************************************)
THEOREM SecretsAreShownOnTheTab == Spec => []SecretsShown
<1>1. Init => AdminInit
  BY DEF Init
<1>2. [Next]_vars => [AdminNext]_adminVars
  BY StepOfScreens
<1>3. QED
  BY <1>1, <1>2, SecretsAreShown, PTL DEF Spec

=============================================================================
