---------------------------- MODULE AdminScreen ----------------------------
(***************************************************************************)
(* The administration page: the access manager (AccessManager, MemberRow,  *)
(* PendingRow) and the dialog of the agents' tokens (TokenManager), for    *)
(* one administrator in one tab, with the part of the server they rely on  *)
(* (Accounts has it in full).  Changing an account reads the number of     *)
(* administrators in one step and commits in a later one, as the API does. *)
(* A component that is unmounted, or that has seen its call fail, no       *)
(* longer hears of it; the server may serve it all the same.               *)
(***************************************************************************)
EXTENDS Naturals, FiniteSets

CONSTANTS Emails,       \* self is the administrator at this screen
          self,
          Pats,         \* the tokens that can be minted
          AdminSlots,   \* how many calls can be in flight at once
          AdminBudgets, \* how many changes, token calls, lost calls and visits there can be
          NoOne

ASSUME AdminAssumption ==
    /\ self \in Emails /\ NoOne \notin Emails \cup Pats /\ AdminSlots \subseteq Nat /\ AdminSlots # {}
    /\ AdminBudgets \subseteq [changes : Nat, tokens : Nat, lost : Nat, visits : Nat]

VARIABLES accounts,  \* what the database says of each e-mail
          tokens,    \* the agents' tokens: none yet, live or revoked
          admin,     \* the state of the two components, and of their history
          adminCalls

adminVars == <<accounts, tokens, admin, adminCalls>>

Account == [place : {"absent", "pending", "member"}, admin : BOOLEAN, active : BOOLEAN]
Nobody == [place |-> "absent", admin |-> FALSE, active |-> TRUE]
Invited == [Nobody EXCEPT !.place = "pending"]
Changes == {"promote", "demote", "disable", "enable"}
NoAdminCall == [op |-> "none", at |-> "idle", arg |-> NoOne, change |-> "enable", rows |-> <<>>,
                pats |-> {}, live |-> TRUE]

AdminTypeOK ==
    /\ accounts \in [Emails -> Account]
    /\ tokens \in [Pats -> {"none", "live", "revoked"}]
    /\ admin.rows \in [Emails -> Account] \cup {<<>>}
    /\ admin.menus \subseteq Emails
    /\ admin.busy \in BOOLEAN /\ admin.failed \in BOOLEAN
    /\ admin.dialog \in {"closed", "form", "creating", "created"}
    /\ admin.revoking \in Pats \cup {NoOne} /\ admin.shown \in Pats \cup {NoOne}
    /\ admin.pats \subseteq Pats /\ admin.seen \subseteq Pats
    /\ admin.tab \in {"members", "pending"}
    /\ admin.mishaps \subseteq {"two menus", "left", "dropped", "closed", "lost"}
    /\ admin.left \in [changes : Nat, tokens : Nat, lost : Nat, visits : Nat]
    /\ adminCalls \in [AdminSlots ->
          [op : {"none", "load", "add", "remove", "patch", "list", "create", "revoke"},
           at : {"idle", "sent", "checked", "ok", "refused"}, arg : Emails \cup Pats \cup {NoOne},
           change : Changes, rows : [Emails -> Account] \cup {<<>>},
           pats : SUBSET Pats, live : BOOLEAN]]
    /\ \A s \in AdminSlots : adminCalls[s].op = "revoke" => adminCalls[s].arg \in Pats

IsActiveAdmin(a) == a.place = "member" /\ a.admin /\ a.active
ActiveAdmins(as) == {e \in DOMAIN as : IsActiveAdmin(as[e])}

----------------------------------------------------------------------------
\* A slot for a call; where no slot is free the model stops.

FreeAdminSlots == {s \in AdminSlots : adminCalls[s].op = "none"}
AdminCall(op, arg) == [NoAdminCall EXCEPT !.op = op, !.at = "sent", !.arg = arg]
Sent(calls, call) ==
    LET free == {s \in AdminSlots : calls[s].op = "none"}
        s == CHOOSE x \in free : TRUE
    IN [calls EXCEPT ![s] = call]
Ended(s) == [adminCalls EXCEPT ![s] = NoAdminCall]
CanSend == FreeAdminSlots # {}

\* The calls ops are made by a component that is unmounted.  What their answers
\* would load goes nowhere and is left out.
ServerSide(call) == call.op \notin {"load", "list"} /\ call.at \in {"sent", "checked"}
Abandoned(ops) ==
    [s \in AdminSlots |->
       CASE adminCalls[s].op \notin ops -> adminCalls[s]
         [] adminCalls[s].op \in ops /\ ServerSide(adminCalls[s]) -> [adminCalls[s] EXCEPT !.live = FALSE]
         [] OTHER -> NoAdminCall]

InitialAccounts ==
    {as \in [Emails -> {Nobody, Invited} \cup [place : {"member"}, admin : BOOLEAN, active : BOOLEAN]] :
       IsActiveAdmin(as[self])}

AdminInit ==
    /\ accounts \in InitialAccounts
    /\ tokens = [p \in Pats |-> "none"]
    /\ \E left \in AdminBudgets : admin = [rows |-> <<>>, menus |-> {}, busy |-> FALSE, failed |-> FALSE,
                dialog |-> "closed", revoking |-> NoOne, shown |-> NoOne, pats |-> {},
                seen |-> {}, tab |-> "members", mishaps |-> {}, left |-> left]
    /\ adminCalls = Sent([s \in AdminSlots |-> NoAdminCall], AdminCall("load", NoOne))

Spent(kind) == [admin EXCEPT !.left[kind] = @ - 1]
AdminNoted(a, mishap, cond) == IF cond THEN [a EXCEPT !.mishaps = @ \cup {mishap}] ELSE a

----------------------------------------------------------------------------
\* The access manager.

RowsShown == ~admin.failed /\ admin.rows # <<>>
Members == {e \in Emails : admin.rows[e].place = "member"}
PendingEmails == {e \in Emails : admin.rows[e].place = "pending"}

\* run(): busy, the mutation, and then a load.
Run(a, call) ==
    /\ admin' = [a EXCEPT !.busy = TRUE]
    /\ adminCalls' = Sent(adminCalls, call)
    /\ UNCHANGED <<accounts, tokens>>

\* The input takes any address.  The keyboard submits it with a menu still open.
OnAdd(e) ==
    /\ ~admin.failed /\ ~admin.busy /\ CanSend /\ admin.left.changes > 0
    /\ \E menus \in {{}, admin.menus} :
         Run([Spent("changes") EXCEPT !.menus = menus, !.mishaps =
                IF menus = {} THEN @ ELSE @ \cup {"two menus"}], AdminCall("add", e))

\* Mutant: the button stays enabled while a change runs.
OpenMenuAnyTime(e) ==
    /\ RowsShown /\ admin.tab = "members" /\ e \in Members
    /\ admin.left.changes > 0
    /\ admin' = [admin EXCEPT !.menus = {e}]
    /\ UNCHANGED <<accounts, tokens, adminCalls>>

\* The button of a row.  A pointer closes the menus of the other rows, the
\* keyboard does not.
OpenMenu(e) ==
    /\ RowsShown /\ ~admin.busy /\ admin.tab = "members" /\ e \in Members
    /\ admin.left.changes > 0
    /\ \E menus \in {{}, admin.menus \ {e}} :
         admin' = [admin EXCEPT !.menus = menus \cup {e},
                                !.mishaps = IF menus = {} THEN @ ELSE @ \cup {"two menus"}]
    /\ UNCHANGED <<accounts, tokens, adminCalls>>

CloseMenu(e) ==
    /\ e \in admin.menus
    /\ admin' = [admin EXCEPT !.menus = @ \ {e}]
    /\ UNCHANGED <<accounts, tokens, adminCalls>>

\* The items of a menu: those that would take the last administrator away
\* from the list as it is shown are disabled.
Offered(row) ==
    LET isLastActiveAdmin == IsActiveAdmin(row) /\ Cardinality(ActiveAdmins(admin.rows)) <= 1
    IN {IF row.admin THEN "demote" ELSE "promote", IF row.active THEN "disable" ELSE "enable"}
         \ (IF isLastActiveAdmin THEN {"demote", "disable"} ELSE {})

Act(e, change) ==
    /\ RowsShown /\ e \in admin.menus /\ e \in Members /\ CanSend /\ admin.left.changes > 0
    /\ change \in Offered(admin.rows[e])
    /\ Run([Spent("changes") EXCEPT !.menus = @ \ {e}],
           [AdminCall("patch", e) EXCEPT !.change = change])

OnRemove(e) ==
    /\ RowsShown /\ ~admin.busy /\ admin.tab = "pending" /\ e \in PendingEmails
    /\ CanSend /\ admin.left.changes > 0
    /\ Run([Spent("changes") EXCEPT !.menus = {}], AdminCall("remove", e))

ShowTab(tab) ==
    /\ ~admin.failed /\ tab # admin.tab /\ admin.left.changes > 0
    /\ admin' = [admin EXCEPT !.tab = tab, !.menus = {}]
    /\ UNCHANGED <<accounts, tokens, adminCalls>>

\* A load answers: fetchMembers, whatever was loaded since.
LoadAnswered(s) ==
    /\ adminCalls[s].op = "load" /\ adminCalls[s].at \in {"ok", "refused"}
    /\ admin' = IF adminCalls[s].at = "ok"
                THEN [admin EXCEPT !.rows = adminCalls[s].rows, !.failed = FALSE,
                        !.busy = @ /\ adminCalls[s].arg = NoOne,
                        !.menus = {e \in @ : adminCalls[s].rows[e].place = "member"}]
                ELSE [admin EXCEPT !.failed = TRUE, !.busy = @ /\ adminCalls[s].arg = NoOne,
                        !.menus = {}]
    /\ adminCalls' = Ended(s)
    /\ UNCHANGED <<accounts, tokens>>

\* A mutation answers: its load starts (arg marks the one that ends run) or the
\* error shows.  onAdd's own .then runs in both cases; here it does not wait
\* for the load, which only moves the tab early.
RunMoved(a, s) == [a EXCEPT !.tab = IF adminCalls[s].op = "add" THEN "pending" ELSE @]
RunFailed(a, s) == [RunMoved(a, s) EXCEPT !.busy = FALSE]
RunAnswered(s) ==
    /\ adminCalls[s].op \in {"add", "remove", "patch"} /\ adminCalls[s].at \in {"ok", "refused"}
    /\ IF adminCalls[s].at = "ok"
       THEN /\ admin' = RunMoved(admin, s)
            /\ adminCalls' = Sent(Ended(s), AdminCall("load", self))
       ELSE /\ admin' = RunFailed(admin, s)
            /\ adminCalls' = Ended(s)
    /\ UNCHANGED <<accounts, tokens>>

----------------------------------------------------------------------------
\* The dialog of the tokens.  closed also stands for unmounted.

OpenTokens ==
    /\ admin.dialog = "closed" /\ CanSend /\ admin.left.tokens > 0
    /\ admin' = [Spent("tokens") EXCEPT !.dialog = "form", !.pats = {}]
    /\ adminCalls' = Sent(adminCalls, AdminCall("list", NoOne))
    /\ UNCHANGED <<accounts, tokens>>

\* Escape, the backdrop and the button close it, whatever it shows or waits for.
CloseTokens ==
    /\ admin.dialog # "closed"
    /\ admin' = [admin EXCEPT !.dialog = "closed", !.shown = NoOne, !.revoking = NoOne,
                   !.mishaps = IF admin.dialog = "creating" THEN @ \cup {"closed"} ELSE @]
    /\ adminCalls' = Abandoned({"list", "create", "revoke"})
    /\ UNCHANGED <<accounts, tokens>>

Generate ==
    /\ admin.dialog = "form" /\ CanSend /\ admin.left.tokens > 0
    /\ admin' = [Spent("tokens") EXCEPT !.dialog = "creating"]
    /\ adminCalls' = Sent(adminCalls, AdminCall("create", NoOne))
    /\ UNCHANGED <<accounts, tokens>>

\* Mutant: the list is loaded again, the secret is not put on the screen.
CreateUnseen(s) ==
    /\ adminCalls[s].op = "create" /\ adminCalls[s].at \in {"ok", "refused"}
    /\ admin' = [admin EXCEPT !.dialog = "form"]
    /\ adminCalls' = Ended(s)
    /\ UNCHANGED <<accounts, tokens>>

\* The secret is shown and the list loaded again, or the error is.
CreateAnswered(s) ==
    /\ adminCalls[s].op = "create" /\ adminCalls[s].at \in {"ok", "refused"}
    /\ IF adminCalls[s].at = "ok"
       THEN /\ admin' = [admin EXCEPT !.dialog = "created", !.shown = adminCalls[s].arg,
                                       !.seen = @ \cup {adminCalls[s].arg}]
            /\ adminCalls' = Sent(Ended(s), AdminCall("list", NoOne))
       ELSE /\ admin' = [admin EXCEPT !.dialog = "form"]
            /\ adminCalls' = Ended(s)
    /\ UNCHANGED <<accounts, tokens>>

DoneCreating ==
    /\ admin.dialog = "created"
    /\ admin' = [admin EXCEPT !.dialog = "form", !.shown = NoOne]
    /\ UNCHANGED <<accounts, tokens, adminCalls>>

AskRevoke(p) ==
    /\ admin.dialog # "closed" /\ p \in admin.pats /\ admin.revoking = NoOne
    /\ admin' = [admin EXCEPT !.revoking = p]
    /\ UNCHANGED <<accounts, tokens, adminCalls>>

CancelRevoke ==
    /\ admin.revoking # NoOne
    /\ admin' = [admin EXCEPT !.revoking = NoOne]
    /\ UNCHANGED <<accounts, tokens, adminCalls>>

\* Mutant: the token is read after the dialog has forgotten it.
ConfirmRevokeOfNone ==
    /\ admin.revoking # NoOne /\ CanSend /\ admin.left.tokens > 0
    /\ admin' = [Spent("tokens") EXCEPT !.revoking = NoOne]
    /\ adminCalls' = Sent(adminCalls, AdminCall("revoke", admin'.revoking))
    /\ UNCHANGED <<accounts, tokens>>

ConfirmRevoke ==
    /\ admin.revoking # NoOne /\ CanSend /\ admin.left.tokens > 0
    /\ admin' = [Spent("tokens") EXCEPT !.revoking = NoOne]
    /\ adminCalls' = Sent(adminCalls, AdminCall("revoke", admin.revoking))
    /\ UNCHANGED <<accounts, tokens>>

RevokeAnswered(s) ==
    /\ adminCalls[s].op = "revoke" /\ adminCalls[s].at \in {"ok", "refused"}
    /\ adminCalls' = IF adminCalls[s].at = "ok" THEN Sent(Ended(s), AdminCall("list", NoOne))
                     ELSE Ended(s)
    /\ UNCHANGED <<accounts, tokens, admin>>

\* setTokens: the last list to answer is the one that stays.
ListAnswered(s) ==
    /\ adminCalls[s].op = "list" /\ adminCalls[s].at \in {"ok", "refused"}
    /\ admin' = IF adminCalls[s].at = "ok"
                THEN [admin EXCEPT !.pats = adminCalls[s].pats] ELSE admin
    /\ adminCalls' = Ended(s)
    /\ UNCHANGED <<accounts, tokens>>

----------------------------------------------------------------------------
\* Back to the board and in again: both components start anew, whatever the
\* server still has to do.
Reopen ==
    /\ admin.left.visits > 0
    /\ LET patching == \E s \in AdminSlots : adminCalls[s].op = "patch" /\ ServerSide(adminCalls[s])
           a == AdminNoted(AdminNoted(Spent("visits"), "left", patching),
                           "closed", admin.dialog = "creating")
       IN admin' = [a EXCEPT !.rows = <<>>, !.menus = {}, !.busy = FALSE, !.failed = FALSE,
                      !.tab = "members", !.dialog = "closed", !.revoking = NoOne,
                      !.shown = NoOne, !.pats = {}]
    /\ LET calls == Abandoned({"load", "add", "remove", "patch", "list", "create", "revoke"})
       IN /\ \E s \in AdminSlots : calls[s].op = "none"
          /\ adminCalls' = Sent(calls, AdminCall("load", NoOne))
    /\ UNCHANGED <<accounts, tokens>>

----------------------------------------------------------------------------
\* The server.

MayServe(s, ops) ==
    /\ adminCalls[s].op \in ops /\ adminCalls[s].at = "sent"
    /\ IsActiveAdmin(accounts[self])
Live == {p \in Pats : tokens[p] = "live"}
AnswerAt(s, at) ==
    adminCalls' = [adminCalls EXCEPT ![s] =
                     IF @.live \/ at = "checked" THEN [@ EXCEPT !.at = at] ELSE NoAdminCall]

\* require_admin.
ServeForbidden(s) ==
    /\ adminCalls[s].at = "sent" /\ ~IsActiveAdmin(accounts[self])
    /\ AnswerAt(s, "refused")
    /\ UNCHANGED <<accounts, tokens, admin>>

ServeAdminRead(s) ==
    /\ MayServe(s, {"load", "list"})
    /\ adminCalls' = [adminCalls EXCEPT ![s].at = "ok", ![s].pats = Live,
                                                 ![s].rows = accounts]
    /\ UNCHANGED <<accounts, tokens, admin>>

ServeAllowlist(s) ==
    /\ MayServe(s, {"add", "remove"})
    /\ LET e == adminCalls[s].arg
           from == IF adminCalls[s].op = "add" THEN "absent" ELSE "pending"
           to == IF adminCalls[s].op = "add" THEN "pending" ELSE "absent"
       IN IF accounts[e].place = from
          THEN accounts' = [accounts EXCEPT ![e].place = to] /\ AnswerAt(s, "ok")
          ELSE UNCHANGED accounts /\ AnswerAt(s, "refused")
    /\ UNCHANGED <<tokens, admin>>

Changed(a, change) ==
    [a EXCEPT !.admin = IF change = "promote" THEN TRUE ELSE IF change = "demote" THEN FALSE ELSE @,
              !.active = IF change = "enable" THEN TRUE ELSE IF change = "disable" THEN FALSE ELSE @]

\* patch_user: is another active administrator left?
CheckPatch(s) ==
    /\ MayServe(s, {"patch"})
    /\ LET e == adminCalls[s].arg
           loses == IsActiveAdmin(accounts[e])
                      /\ ~IsActiveAdmin(Changed(accounts[e], adminCalls[s].change))
       IN AnswerAt(s, IF accounts[e].place # "member" \/ (loses /\ ActiveAdmins(accounts) = {e})
                      THEN "refused" ELSE "checked")
    /\ UNCHANGED <<accounts, tokens, admin>>

CommitPatch(s) ==
    /\ adminCalls[s].op = "patch" /\ adminCalls[s].at = "checked"
    /\ accounts' = [accounts EXCEPT ![adminCalls[s].arg] = Changed(@, adminCalls[s].change)]
    /\ AnswerAt(s, "ok")
    /\ UNCHANGED <<tokens, admin>>

ServeToken(s) ==
    /\ MayServe(s, {"create", "revoke"})
    /\ IF adminCalls[s].op = "create"
       THEN \E p \in Pats :
              /\ tokens[p] = "none"
              /\ tokens' = [tokens EXCEPT ![p] = "live"]
              /\ adminCalls' = [adminCalls EXCEPT ![s] =
                   IF @.live THEN [@ EXCEPT !.at = "ok", !.arg = p] ELSE NoAdminCall]
       ELSE /\ tokens' = [tokens EXCEPT ![adminCalls[s].arg] = "revoked"]
            /\ AnswerAt(s, "ok")
    /\ UNCHANGED <<accounts, admin>>

\* A call or its answer is lost: the client sees a failure.
LoseAdminCall(s) ==
    /\ adminCalls[s].at \in {"sent", "ok"} /\ admin.left.lost > 0
    /\ AnswerAt(s, "refused")
    /\ admin' = AdminNoted(Spent("lost"), "lost", adminCalls[s].op = "create")
    /\ UNCHANGED <<accounts, tokens>>

\* The connection breaks while the server is at work: the client sees a failure
\* at once, and the server goes on.
DropAdminCall(s) ==
    /\ ServerSide(adminCalls[s]) /\ adminCalls[s].live /\ admin.left.lost > 0
    /\ LET a == AdminNoted(AdminNoted(Spent("lost"), "lost", adminCalls[s].op = "create"),
                           "dropped", adminCalls[s].op = "patch")
       IN admin' = CASE adminCalls[s].op \in {"add", "remove", "patch"} -> RunFailed(a, s)
                     [] adminCalls[s].op = "create" -> [a EXCEPT !.dialog = "form"]
                     [] OTHER -> a
    /\ adminCalls' = [adminCalls EXCEPT ![s].live = FALSE]
    /\ UNCHANGED <<accounts, tokens>>

----------------------------------------------------------------------------
AdminNext ==
    \/ Reopen \/ OpenTokens \/ CloseTokens \/ Generate \/ DoneCreating \/ CancelRevoke \/ ConfirmRevoke
    \/ \E p \in Pats : AskRevoke(p)
    \/ \E tab \in {"members", "pending"} : ShowTab(tab)
    \/ \E e \in Emails : \/ OnAdd(e) \/ OpenMenu(e) \/ CloseMenu(e) \/ OnRemove(e)
                         \/ \E change \in Changes : Act(e, change)
    \/ \E s \in AdminSlots :
         \/ LoadAnswered(s) \/ RunAnswered(s) \/ CreateAnswered(s) \/ RevokeAnswered(s)
         \/ ListAnswered(s) \/ ServeForbidden(s) \/ ServeAdminRead(s) \/ ServeAllowlist(s)
         \/ CheckPatch(s) \/ CommitPatch(s) \/ ServeToken(s) \/ LoseAdminCall(s)
         \/ DropAdminCall(s)

----------------------------------------------------------------------------
(***************************************************************************)
(* One administrator at this screen never leaves the instance without an   *)
(* active administrator, although the server counts them in one step and   *)
(* commits in another: the screen lets one change run at a time and loads  *)
(* the list before the next.  Except when the keyboard left a menu open    *)
(* while another change was started; or when the page was left, or a       *)
(* connection broke, while the server was at work on a change: the screen  *)
(* then lets the next one run beside it.                                   *)
(***************************************************************************)
AdminsRemain ==
    ActiveAdmins(accounts) # {} \/ admin.mishaps \cap {"two menus", "left", "dropped"} # {}

(***************************************************************************)
(* "Shown exactly once": a token that lives has had its secret on the      *)
(* screen, or is on its way there.  Except when the dialog or the page was *)
(* left while it was being created, or the answer was lost.                *)
(***************************************************************************)
SecretsShown ==
    \A p \in Live :
      \/ p \in admin.seen
      \/ \E s \in AdminSlots : adminCalls[s].op = "create" /\ adminCalls[s].arg = p
                                 /\ adminCalls[s].live /\ admin.dialog = "creating"
      \/ admin.mishaps \cap {"closed", "lost"} # {}
=============================================================================
