---------------------------- MODULE BoardSession ----------------------------
(***************************************************************************)
(* One browser tab that the members of the instance use one after the      *)
(* other: signing in and out, expiring tokens, a disabled account, page    *)
(* loads; and the board with its cache, its optimistic changes and the     *)
(* trip to the editor and back (BoardPage.tsx, boardCache.ts, Composer,    *)
(* NoteCard).  The server's handlers are atomic.  A note is its place, its *)
(* pin and a revision that stands for its content.                         *)
(***************************************************************************)
EXTENDS SessionClient

CONSTANTS Notes,     \* some of them do not exist yet
          Budgets    \* what may happen in a behaviour

VARIABLES notes,   \* the database
          ended,   \* members whose account is disabled
          web,     \* the tab, see SessionClient
          budget   \* how many of each kind of step can still happen

vars == <<notes, ended, web, budget>>

Places == {"absent", "active", "archived"}
Note == [owner : Members \cup {None}, place : Places, pinned : BOOLEAN, rev : Nat]
Row == [id : Notes, pinned : BOOLEAN, rev : Nat]
List == [of : Members, rows : SUBSET Row]
Ops == {"none", "login", "signin", "hydrate", "profile", "list", "resync", "patch",
        "save", "delete", "create"}
At == {"idle", "sent", "ok", "refused", "denied", "disabled", "lost", "waiting", "failed"}
Patches == {"pin", "unpin", "archive", "unarchive"}
Mishaps == {"resync", "refresh", "profile", "patch", "delete", "blip", "unseen", "raced",
            "refresh lost", "early", "former", "slow", "stuck"}
Kinds == {"signin", "signout", "reload", "profile", "move", "create", "organize",
          "delete", "save", "fault", "expiry", "disable"}

ASSUME BoardAssumption == None \notin Notes \cup List /\ Budgets \subseteq [Kinds -> Nat]

Call == [op : Ops, at : At, token : Token \cup {None}, again : BOOLEAN, live : BOOLEAN,
         key : Keys, ids : SUBSET Notes, patch : Patches \cup {"none"},
         who : Members \cup {None}, rows : SUBSET Row]
Refreshing == [at : {"idle", "sent", "ok", "bad"}, who : Members \cup {None}]
Tab == [access : Token \cup {None}, refresh : Members \cup {None}, refreshing : Refreshing,
        stuck : BOOLEAN,   \* a refresh that failed at once is kept
        calls : [Slots -> Call], status : {"loading", "authenticated", "anonymous"},
        user : Members \cup {None}, lists : [Keys -> List \cup {None}],
        route : {"login", "board", "editor"}, key : Keys, retries : 0..2,
        submitting : BOOLEAN, composing : BOOLEAN, mishaps : SUBSET Mishaps]

TypeOK ==
    /\ notes \in [Notes -> Note]
    /\ ended \subseteq Members
    /\ web \in Tab
    /\ budget \in [Kinds -> Nat]

----------------------------------------------------------------------------
Blank == [access |-> None, refresh |-> None, refreshing |-> [at |-> "idle", who |-> None],
          stuck |-> FALSE, calls |-> [s \in Slots |-> NoCall], status |-> "anonymous", user |-> None,
          lists |-> [k \in Keys |-> None], route |-> "login", key |-> "mine",
          retries |-> 2, submitting |-> FALSE, composing |-> FALSE, mishaps |-> {}]

\* A tab is opened at the board, or at the sign-in page, with or without the
\* tokens of a member in the storage.
Init ==
    /\ \E u \in Members, made \in SUBSET Notes :
         notes = [n \in Notes |-> [owner |-> IF n \in made THEN u ELSE None,
                                   place |-> IF n \in made THEN "active" ELSE "absent",
                                   pinned |-> FALSE, rev |-> 0]]
    /\ ended = {}
    /\ budget \in Budgets
    /\ \/ web = Blank
       \/ \E u \in Members, route \in {"login", "board"} : web = Loaded(SetTokens(Blank, u), route)

May(kind) == budget[kind] > 0
Spend(kind) == budget' = [budget EXCEPT ![kind] = @ - 1]
Room == \E s \in Slots : web.calls[s].op = "none"

Signed == web.status = "authenticated"
OnBoard == Signed /\ web.route = "board"
Shown == IF web.lists[web.key] = None THEN {} ELSE web.lists[web.key].rows

\* A change that crosses a fetch of the board, or another change.
Fetching(w) == \E s \in Slots : w.calls[s].op \in {"list", "resync"}
Write(w, call) == Issue(Noting(w, "raced", Fetching(w) \/ Writing(w)), call)

----------------------------------------------------------------------------
\* The cache.  A list remembers whose it is (history).

SetCached(w, key, u, rows) == [w EXCEPT !.lists[key] = [of |-> u, rows |-> rows]]

\* Optimistic changes of the list on screen.
UpdateCached(w, key, rows) ==
    SetCached(w, key, IF w.lists[key] = None THEN w.user ELSE w.lists[key].of, rows)

\* The editor's note, in whatever list holds it.
Upserted(list, row) ==
    IF list # None /\ \E r \in list.rows : r.id = row.id
    THEN [list EXCEPT !.rows = {r \in @ : r.id # row.id} \cup {row}] ELSE list
UpsertCached(w, row) == [w EXCEPT !.lists = [k \in Keys |-> Upserted(@[k], row)]]

----------------------------------------------------------------------------
\* The member.

\* The form of LoginPage or RegisterPage, which does not wait for the tokens in
\* the storage to be checked.
Submit(u) ==
    /\ web.route = "login" /\ ~web.submitting /\ Room
    /\ May("signin") /\ Spend("signin")
    /\ web' = Issue(Noting([web EXCEPT !.submitting = TRUE], "early", web.status # "anonymous"),
                    [Request("login") EXCEPT !.who = u])
    /\ UNCHANGED <<notes, ended>>

SignOut ==
    /\ OnBoard
    /\ May("signout") /\ Spend("signout")
    /\ web' = SignedOut(web)
    /\ UNCHANGED <<notes, ended>>

Reload ==
    /\ May("reload") /\ Spend("reload")
    /\ web' = Loaded(web, web.route)
    /\ UNCHANGED <<notes, ended>>

\* A new name or language, through the account menu.
ChangeProfile ==
    /\ OnBoard /\ Room
    /\ May("profile") /\ Spend("profile")
    /\ web' = Issue(web, Request("profile"))
    /\ UNCHANGED <<notes, ended>>

\* The tabs, the archived view.
SwitchKey(key) ==
    /\ OnBoard /\ key # web.key /\ Room
    /\ May("move") /\ Spend("move")
    /\ web' = EnterBoard(Cancel(web, "list"), key)
    /\ UNCHANGED <<notes, ended>>

OpenNote ==
    /\ OnBoard /\ Shown # {}
    /\ May("move") /\ Spend("move")
    /\ web' = [Cancel(web, "list") EXCEPT !.route = "editor"]
    /\ UNCHANGED <<notes, ended>>

BackToBoard ==
    /\ Signed /\ web.route = "editor" /\ Room
    /\ web' = EnterBoard(web, web.key)
    /\ UNCHANGED <<notes, ended, budget>>

\* The composer: one creation at a time, then straight to the editor.
Compose ==
    /\ OnBoard /\ web.key # "archived" /\ ~web.composing /\ Room
    /\ May("create") /\ Spend("create")
    /\ web' = Write([web EXCEPT !.composing = TRUE], Request("create"))
    /\ UNCHANGED <<notes, ended>>

CanOrganize(n) == web.user # None /\ notes[n].owner = web.user

\* What a card's menu proposes, by the card as it is shown.
Proposed(row) ==
    IF web.key = "archived" THEN {"unarchive"}
    ELSE {"archive", IF row.pinned THEN "unpin" ELSE "pin"}

\* Pin in place, or move between the board and the archive.
Organize(row, patch) ==
    /\ OnBoard /\ Room /\ row \in Shown /\ CanOrganize(row.id)
    /\ patch \in Proposed(row)
    /\ May("organize") /\ Spend("organize")
    /\ LET changed == IF patch \in {"pin", "unpin"} THEN {[row EXCEPT !.pinned = patch = "pin"]}
                      ELSE {}
       IN web' = Write(UpdateCached(web, web.key, (Shown \ {row}) \cup changed),
                       [Request("patch") EXCEPT !.ids = {row.id}, !.patch = patch,
                                                !.key = web.key])
    /\ UNCHANGED <<notes, ended>>

\* A card's own delete.  In the archive also the selection, any part of what is
\* shown: what has gone when it is confirmed is not deleted.
CardDeletes == {{r.id} : r \in {x \in Shown : CanOrganize(x.id)}}
Selections == IF web.key = "archived" THEN (SUBSET {r.id : r \in Shown}) \ {{}} ELSE {}

Delete(ids) ==
    /\ OnBoard /\ Room /\ ids \in CardDeletes \cup Selections
    /\ May("delete") /\ Spend("delete")
    /\ web' = Write(UpdateCached(web, web.key, {r \in Shown : r.id \notin ids}),
                    [Request("delete") EXCEPT !.ids = ids, !.key = web.key])
    /\ UNCHANGED <<notes, ended>>

\* The editor saves; a save left in flight outlives it.
SaveNote(n) ==
    /\ Signed /\ web.route = "editor" /\ Room /\ notes[n].owner = web.user
    /\ ~InFlight(web, {"save"})
    /\ May("save") /\ Spend("save")
    /\ web' = Write(web, [Request("save") EXCEPT !.ids = {n}])
    /\ UNCHANGED <<notes, ended>>

----------------------------------------------------------------------------
\* The server.

RowOf(n) == [id |-> n, pinned |-> notes[n].pinned, rev |-> notes[n].rev]

\* Every note here is public as long as it is on the board.
Listing(u, key) ==
    {RowOf(n) : n \in {m \in Notes :
        CASE key = "mine" -> notes[m].owner = u /\ notes[m].place = "active"
          [] key = "archived" -> notes[m].owner = u /\ notes[m].place = "archived"
          [] OTHER -> notes[m].place = "active"}}

Answer(s, at) == web' = [web EXCEPT !.calls[s].at = at]
AnswerFrom(s, u, rows) ==
    web' = [web EXCEPT !.calls[s] = [@ EXCEPT !.at = "ok", !.who = u, !.rows = rows]]

Owned(u, ids) == \A n \in ids : notes[n].owner = u /\ notes[n].place # "absent"

ServeLogin(s) ==
    /\ web.calls[s].op = "login" /\ web.calls[s].at = "sent"
    /\ Answer(s, IF web.calls[s].who \in ended THEN "refused" ELSE "ok")
    /\ UNCHANGED <<notes, ended, budget>>

\* What the call may do with its token, and then does, as that token's member.
Rejected(c) ==
    CASE c.token = None -> "denied"
      [] c.token # None /\ c.token.old -> "denied"
      [] c.token # None /\ ~c.token.old /\ c.token.who \in ended -> "disabled"
      [] OTHER -> "no"

ServeRejected(s) ==
    /\ web.calls[s].op # "login" /\ web.calls[s].at = "sent"
    /\ Rejected(web.calls[s]) # "no"
    /\ Answer(s, Rejected(web.calls[s]))
    /\ UNCHANGED <<notes, ended, budget>>

Serving(s, ops) ==
    /\ web.calls[s].op \in ops /\ web.calls[s].at = "sent"
    /\ Rejected(web.calls[s]) = "no"

ServeRead(s) ==
    /\ Serving(s, {"hydrate", "signin", "profile", "list", "resync"})
    /\ LET c == web.calls[s]
       IN AnswerFrom(s, c.token.who,
                     IF c.op \in {"list", "resync"} THEN Listing(c.token.who, c.key) ELSE {})
    /\ UNCHANGED <<notes, ended, budget>>

Patched(note, patch) ==
    CASE patch \in {"pin", "unpin"} -> [note EXCEPT !.pinned = patch = "pin"]
      [] patch = "archive" -> [note EXCEPT !.place = "archived"]
      [] patch = "unarchive" -> [note EXCEPT !.place = "active"]
      [] OTHER -> [note EXCEPT !.rev = @ + 1]

ServePatch(s) ==
    /\ Serving(s, {"patch", "save"})
    /\ LET c == web.calls[s]
       IN IF Owned(c.token.who, c.ids)
          THEN /\ notes' = [n \in Notes |-> IF n \in c.ids THEN Patched(notes[n], c.patch)
                                            ELSE notes[n]]
               /\ web' = [web EXCEPT !.calls[s].at = "ok", !.calls[s].rows =
                            {[id |-> n, pinned |-> notes'[n].pinned, rev |-> notes'[n].rev] :
                               n \in c.ids}]
          ELSE Answer(s, "refused") /\ UNCHANGED notes
    /\ UNCHANGED <<ended, budget>>

\* One request per note, all of them settled before anyone looks.  Those that
\* are refused come last here, which makes no difference: they change nothing.
ServeDelete(s, n) ==
    /\ Serving(s, {"delete"}) /\ n \in web.calls[s].ids
    /\ LET c == web.calls[s]
       IN IF Owned(c.token.who, {n})
          THEN /\ notes' = [notes EXCEPT ![n].place = "absent", ![n].owner = None]
               /\ web' = [web EXCEPT !.calls[s].ids = @ \ {n},
                                     !.calls[s].at = IF c.ids = {n} THEN "ok" ELSE @]
          ELSE /\ ~\E m \in c.ids : Owned(c.token.who, {m})
               /\ Answer(s, "refused") /\ UNCHANGED notes
    /\ UNCHANGED <<ended, budget>>

ServeCreate(s) ==
    /\ Serving(s, {"create"})
    /\ \E n \in Notes :
         /\ notes[n].place = "absent"
         /\ notes' = [notes EXCEPT ![n] = [owner |-> web.calls[s].token.who,
                                           place |-> "active", pinned |-> FALSE, rev |-> 0]]
    /\ Answer(s, "ok")
    /\ UNCHANGED <<ended, budget>>

ServeRefresh ==
    /\ web.refreshing.at = "sent"
    /\ web' = [web EXCEPT !.refreshing.at = IF web.refreshing.who \in ended THEN "bad" ELSE "ok"]
    /\ UNCHANGED <<notes, ended, budget>>

\* Fetch rejects, or the server has a bad moment.
LoseCall(s) ==
    /\ web.calls[s].at \in {"sent", "ok"}
    /\ May("fault") /\ Spend("fault")
    /\ web' = Noting([web EXCEPT !.calls[s].at = "lost"], "unseen",
                     web.calls[s].op \in {"list", "resync", "create"})
    /\ UNCHANGED <<notes, ended>>

\* The refresh fails, or comes too late: the refresh token has expired as well.
LoseRefresh ==
    /\ web.refreshing.at \in {"sent", "ok"}
    /\ May("fault") /\ Spend("fault")
    /\ web' = Noting([web EXCEPT !.refreshing.at = "bad"], "refresh lost", TRUE)
    /\ UNCHANGED <<notes, ended>>

Aged(token) == IF token = None THEN None ELSE [token EXCEPT !.old = TRUE]
AgedCall(c) == [c EXCEPT !.token = Aged(@)]

\* The access tokens issued so far reach their expiry.
TokensExpire ==
    /\ May("expiry") /\ Spend("expiry")
    /\ web' = Noting([web EXCEPT !.access = Aged(@),
                                 !.calls = [s \in Slots |-> AgedCall(@[s])]],
                     "slow", \E s \in Slots : web.calls[s].again /\ web.calls[s].at = "sent")
    /\ UNCHANGED <<notes, ended>>

Disable(u) ==
    /\ May("disable") /\ Spend("disable")
    /\ ended' = ended \cup {u}
    /\ UNCHANGED <<notes, web>>

----------------------------------------------------------------------------
\* The answers.

Ended(s, ats) == web.calls[s].at \in ats
FailedAts == {"refused", "lost", "failed"}

Denied(s) ==
    /\ Ended(s, {"denied"})
    /\ web' = Unauthorized(web, s)
    /\ UNCHANGED <<notes, ended, budget>>

AccountDisabled(s) ==
    /\ Ended(s, {"disabled"})
    /\ web' = EndSession(Fail(Noting(web, "former", web.calls[s].token.who # web.refresh), s))
    /\ UNCHANGED <<notes, ended, budget>>

RefreshAnswered ==
    /\ web.refreshing.at \in {"ok", "bad"}
    /\ web' = Refreshed(web, web.refreshing.at = "ok")
    /\ UNCHANGED <<notes, ended, budget>>

Result(s, op) == web.calls[s].op = op /\ Ended(s, {"ok"} \cup FailedAts)
Ok(s) == web.calls[s].at = "ok"

LoginAnswered(s) ==
    /\ Result(s, "login")
    /\ web' = IF Ok(s) THEN SignIn(Done(web, s), web.calls[s].who)
              ELSE [Done(web, s) EXCEPT !.submitting = FALSE]
    /\ UNCHANGED <<notes, ended, budget>>

SignInAnswered(s) ==
    /\ Result(s, "signin")
    /\ web' = IF Ok(s) THEN SignedIn(Done(web, s), web.calls[s].who)
              ELSE SignInFailed(Done(web, s))
    /\ UNCHANGED <<notes, ended, budget>>

HydrateAnswered(s) ==
    /\ Result(s, "hydrate")
    /\ LET w == Done(web, s)
       IN web' = CASE ~web.calls[s].live -> w
                   [] web.calls[s].live /\ Ok(s) -> Authenticated(w, web.calls[s].who)
                   [] OTHER -> HydrationFailed(w, Ended(s, {"failed"}))
    /\ UNCHANGED <<notes, ended, budget>>

\* setUser(updated), whoever is there by now.
ProfileAnswered(s) ==
    /\ Result(s, "profile")
    /\ web' = IF Ok(s) THEN [Done(web, s) EXCEPT !.user = web.calls[s].who] ELSE Done(web, s)
    /\ UNCHANGED <<notes, ended, budget>>

\* Only the fetch of the effect is cancelled, not the resync.
ListAnswered(s) ==
    /\ Result(s, "list") \/ Result(s, "resync")
    /\ LET c == web.calls[s]
       IN web' = IF Ok(s) /\ (c.op = "list" => c.live)
                 THEN SetCached(Done(web, s), c.key, c.who, c.rows) ELSE Done(web, s)
    /\ UNCHANGED <<notes, ended, budget>>

\* Mutant: a change that failed stays on the screen.
WriteForgotten(s) ==
    /\ Result(s, "patch") \/ Result(s, "delete")
    /\ web' = Done(web, s)
    /\ UNCHANGED <<notes, ended, budget>>

\* A change that failed: the list is fetched again, wherever the member is.
WriteAnswered(s) ==
    /\ Result(s, "patch") \/ Result(s, "delete")
    /\ web' = IF Ok(s) THEN Done(web, s)
              ELSE Issue(Noting(Done(web, s), "raced", Writing(Done(web, s))),
                         [Request("resync") EXCEPT !.key = web.calls[s].key])
    /\ UNCHANGED <<notes, ended, budget>>

SaveAnswered(s) ==
    /\ Result(s, "save")
    /\ web' = IF Ok(s) THEN UpsertCached(Done(web, s), CHOOSE r \in web.calls[s].rows : TRUE)
              ELSE Done(web, s)
    /\ UNCHANGED <<notes, ended, budget>>

\* close(), then onCreated: the editor opens, wherever the member has gone.
CreateAnswered(s) ==
    /\ Result(s, "create")
    /\ LET w == [Done(web, s) EXCEPT !.composing = FALSE]
       IN web' = IF Ok(s) /\ Signed THEN [Cancel(w, "list") EXCEPT !.route = "editor"] ELSE w
    /\ UNCHANGED <<notes, ended, budget>>

----------------------------------------------------------------------------
Member ==
    \/ SignOut \/ Reload \/ ChangeProfile \/ OpenNote \/ BackToBoard \/ Compose
    \/ \E u \in Members : Submit(u)
    \/ \E key \in Keys : SwitchKey(key)
    \/ \E n \in Notes : SaveNote(n)
    \/ \E row \in Shown, patch \in Patches : Organize(row, patch)
    \/ \E ids \in SUBSET Notes : Delete(ids)

Server ==
    \/ ServeRefresh \/ LoseRefresh \/ TokensExpire
    \/ \E u \in Members : Disable(u)
    \/ \E s \in Slots :
         \/ ServeLogin(s) \/ ServeRejected(s) \/ ServeRead(s) \/ ServePatch(s) \/ ServeCreate(s)
         \/ LoseCall(s)
         \/ \E n \in Notes : ServeDelete(s, n)

Answered ==
    \/ RefreshAnswered
    \/ \E s \in Slots :
         \/ Denied(s) \/ AccountDisabled(s) \/ LoginAnswered(s) \/ SignInAnswered(s)
         \/ HydrateAnswered(s) \/ ProfileAnswered(s) \/ ListAnswered(s) \/ WriteAnswered(s)
         \/ SaveAnswered(s) \/ CreateAnswered(s)

Next == Member \/ Server \/ Answered

Spec == Init /\ [][Next]_vars
----------------------------------------------------------------------------
Unless(mishaps) == web.mishaps \cap mishaps # {}

(***************************************************************************)
(* "One member never sees another's cache": the lists in the tab are those *)
(* of the member who is signed in, and gone when nobody is. Except when a  *)
(* resync was in flight as the session ended, or a patch or a deletion,    *)
(* which may resync; when a refresh was, which stores its tokens all the   *)
(* same; when a change of the profile was, whose answer shows who had      *)
(* left; or when somebody signed in before the stored tokens were checked. *)
(***************************************************************************)
CacheIsOnlyMine ==
    \A k \in Keys : web.lists[k] # None =>
      \/ web.status = "authenticated" /\ web.lists[k].of = web.user
      \/ Unless({"resync", "patch", "delete", "refresh", "profile", "early"})

(***************************************************************************)
(* Requests go out in the name of the member the screen shows, and in      *)
(* nobody's once they have signed out. Except when a refresh or a change   *)
(* of the profile was in flight as the session ended, or somebody signed   *)
(* in before the stored tokens were checked. A network that failed that    *)
(* check shows nobody, and leaves the tokens.                              *)
(***************************************************************************)
ActsAsShown ==
    web.access # None /\ web.status # "loading" =>
      \/ web.status = "authenticated" /\ web.user = web.access.who
      \/ InFlight(web, {"signin"})
      \/ web.status = "anonymous" /\ Unless({"blip"})
      \/ Unless({"refresh", "profile", "early"})

(***************************************************************************)
(* Tokens that expire end no session, however many calls find out at once: *)
(* only signing out does, and a disabled account. Except when a refresh    *)
(* was lost, or one of the three mishaps above gave the tab the tokens of  *)
(* one member and the page of another; when a call left by a former        *)
(* member, disabled since, is what the 403 is about; when a call that was  *)
(* repeated with a fresh token was so slow that this one expired too; or   *)
(* when an earlier call was denied while there was no refresh token, which *)
(* left the tab a refresh that has failed until it is loaded again         *)
(* (ExpiredTokensAreSwapped).                                              *)
(***************************************************************************)
SessionSurvives ==
    [][web.status = "authenticated" /\ web'.status = "anonymous" =>
         \/ budget'.signout < budget.signout
         \/ web.user \in ended
         \/ Unless({"refresh lost", "refresh", "profile", "early", "stuck"})
         \/ web'.mishaps \cap {"former", "slow", "stuck"} # {}]_vars

(***************************************************************************)
(* When everything is answered the board shows what the server has, though *)
(* changes are shown before they are made and may then fail, and the       *)
(* member goes to the editor and back. Except when a change and a fetch or *)
(* another change were in flight together, or the answer to a fetch or a   *)
(* creation was lost.                                                      *)
(***************************************************************************)
BoardSettles ==
    (OnBoard /\ \A s \in Slots : web.calls[s].op = "none") =>
      \/ LET list == web.lists[web.key]
         IN list # None /\ list.rows = Listing(list.of, web.key)
      \/ Unless({"raced", "unseen"})

----------------------------------------------------------------------------
\* What the comments say and the code does not keep.

(***************************************************************************)
(* "Expired access token? Swap the refresh token for a new one and retry   *)
(* once" (client.ts): a call that is denied for the first time while there *)
(* is a refresh token waits for the refresh.  TLC refutes it.              *)
(***************************************************************************)
ExpiredTokensAreSwapped ==
    [][\A s \in Slots :
         /\ web.calls[s].at = "denied" /\ ~web.calls[s].again /\ web.refresh # None
         /\ web'.calls[s].at \notin {"denied", "idle"}
         => web'.calls[s].at = "waiting"]_vars
=============================================================================
