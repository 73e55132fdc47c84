--------------------------- MODULE SessionClient ---------------------------
(***************************************************************************)
(* The session of the single-page application, as functions on the state w *)
(* of one browser tab: the tokens in localStorage (auth/storage.ts), the   *)
(* request wrapper with its single-flight refresh (api/client.ts), and the *)
(* sign-in state (auth/AuthContext.tsx, RequireAuth.tsx).  BoardSession    *)
(* drives them.                                                            *)
(*                                                                         *)
(* A call occupies a slot of w.calls from the handler that makes it to the *)
(* one that gets its result.  Its field at says where it is: sent to the   *)
(* server, answered (ok, refused, denied = 401, disabled = the 403 of a    *)
(* disabled account, lost = fetch rejected or 5xx), waiting for a refresh, *)
(* or failed for good with the session.                                    *)
(***************************************************************************)
EXTENDS Naturals, FiniteSets

CONSTANTS Members, None,
          Slots            \* how many calls can be in flight at once

Keys == {"mine", "public", "archived"}
Token == [who : Members, old : BOOLEAN]   \* old: past its expiry

ASSUME SessionAssumption == None \notin Members \cup Token /\ Slots # {}

NoCall == [op |-> "none", at |-> "idle", token |-> None, again |-> FALSE,
           live |-> TRUE, key |-> "mine", ids |-> {}, patch |-> "none",
           who |-> None, rows |-> {}]

InFlight(w, ops) == \E s \in Slots : w.calls[s].op \in ops
Noting(w, mishap, cond) == IF cond THEN [w EXCEPT !.mishaps = @ \cup {mishap}] ELSE w

----------------------------------------------------------------------------
\* Tokens and requests.

SetAccess(w, u) == [w EXCEPT !.access = [who |-> u, old |-> FALSE]]
SetTokens(w, u) == [SetAccess(w, u) EXCEPT !.refresh = u]
\* A refresh may be in flight, which stores what it gets all the same.
ClearTokens(w) == Noting([w EXCEPT !.access = None, !.refresh = None],
                         "refresh", w.refreshing.at # "idle")

FreeSlot(w) == CHOOSE s \in Slots : w.calls[s].op = "none"

\* A request takes the access token that is stored when it is sent.
Issue(w, call) == [w EXCEPT !.calls[FreeSlot(w)] = [call EXCEPT !.at = "sent", !.token = w.access]]
Request(op) == [NoCall EXCEPT !.op = op]
Done(w, s) == [w EXCEPT !.calls[s] = NoCall]

ClearBoardCache(w) == [w EXCEPT !.lists = [k \in Keys |-> None]]

\* An effect's cleanup: what it awaits will not be used.
Cancel(w, op) ==
    [w EXCEPT !.calls = [s \in Slots |->
        IF @[s].op = op THEN [@[s] EXCEPT !.live = FALSE] ELSE @[s]]]

\* What the session leaves behind; the guard then shows the sign-in page.
Outlived(w) ==
    [w EXCEPT !.mishaps = @ \cup {op \in {"profile", "resync", "patch", "delete"} :
                                     InFlight(w, {op})}]

Anonymous(w) ==
    [Cancel(Cancel(w, "list"), "hydrate") EXCEPT
        !.status = "anonymous", !.user = None, !.route = "login", !.composing = FALSE]

\* keepou:session-expired and its listener.
OnExpired(w) == Anonymous(ClearBoardCache(Outlived(w)))
\* Mutant: the tokens stay in the storage.
EndSessionOnScreen(w) == OnExpired(w)
EndSession(w) == OnExpired(ClearTokens(w))

\* Mutant: the board's cache is kept.
SignedOutCached(w) == Anonymous(Outlived(ClearTokens(w)))
SignedOut(w) == Anonymous(ClearBoardCache(Outlived(ClearTokens(w))))

Fail(w, s) == [w EXCEPT !.calls[s].at = "failed"]

\* A 401 that finds no refresh token and no refresh in flight asks for one all
\* the same.  That attempt is over before it is stored, so it never clears
\* itself: later 401s find it, failed, until the page is loaded again, even if
\* there is a refresh token by then.
NoRefresh(w) == w.refreshing.at = "idle" /\ w.refresh = None
Stuck(w) == [Noting(w, "stuck", w.refresh # None) EXCEPT !.stuck = TRUE]

\* Mutant: the refresh is not shared by the calls that need it.
UnauthorizedAlone(w, s) ==
    CASE w.calls[s].again \/ w.refreshing.at # "idle" -> EndSession(Fail(w, s))
      [] ~w.calls[s].again /\ w.refreshing.at = "idle" /\ (w.stuck \/ NoRefresh(w)) ->
           EndSession(Fail(Stuck(w), s))
      [] OTHER -> [w EXCEPT !.calls[s].at = "waiting",
                            !.refreshing = [at |-> "sent", who |-> w.refresh]]

\* The answer to a request was 401.  The first time it waits for the refresh,
\* its own or the one in flight; if there is no refresh token, or it is
\* answered 401 again, the session is over.
Unauthorized(w, s) ==
    IF w.calls[s].again \/ w.stuck \/ NoRefresh(w)
    THEN EndSession(Fail(IF w.calls[s].again THEN w ELSE Stuck(w), s))
    ELSE [w EXCEPT !.calls[s].at = "waiting",
                   !.refreshing = IF @.at # "idle" THEN @ ELSE [at |-> "sent", who |-> w.refresh]]

\* The refresh comes back: everyone who waits for it sends again, or fails.
Refreshed(w, ok) ==
    LET waiting == {s \in Slots : w.calls[s].at = "waiting"}
        fresh == [who |-> w.refreshing.who, old |-> FALSE]
        resend(c) == [c EXCEPT !.at = "sent", !.again = TRUE, !.token = fresh]
        idle == [w EXCEPT !.refreshing = [at |-> "idle", who |-> None]]
    IN IF ok
       THEN [SetAccess(idle, fresh.who) EXCEPT
               !.calls = [s \in Slots |-> IF s \in waiting THEN resend(@[s]) ELSE @[s]]]
       ELSE EndSession([idle EXCEPT
               !.calls = [s \in Slots |-> IF s \in waiting THEN [@[s] EXCEPT !.at = "failed"] ELSE @[s]]])

----------------------------------------------------------------------------
\* The sign-in state.

\* The board mounts on a key: it shows what is cached and fetches.
Writing(w) == InFlight(w, {"patch", "delete", "save", "create"})
EnterBoard(w, key) ==
    Issue([Noting(w, "raced", Writing(w)) EXCEPT !.route = "board", !.key = key],
          [Request("list") EXCEPT !.key = key])

\* A page load: whatever ran is gone, what is stored is not.
Loaded(w, route) ==
    LET fresh == [w EXCEPT
            !.refreshing = [at |-> "idle", who |-> None], !.stuck = FALSE,
            !.calls = [s \in Slots |-> NoCall],
            !.lists = [k \in Keys |-> None],
            !.user = None, !.retries = 2, !.submitting = FALSE, !.composing = FALSE,
            !.key = "mine", !.mishaps = @ \ {"resync", "patch", "delete", "profile", "stuck"}]
    IN IF w.access = None /\ w.refresh = None
       THEN [fresh EXCEPT !.status = "anonymous", !.route = "login"]
       ELSE Issue([fresh EXCEPT !.status = "loading", !.route = route], Request("hydrate"))

\* me answered while the session was being checked: the guarded page renders.
Authenticated(w, u) ==
    LET in == [w EXCEPT !.status = "authenticated", !.user = u]
    IN IF w.route = "login" THEN in ELSE EnterBoard(in, "mine")

\* Mutant: the retries are not counted down to an end.
HydrationRetried(w, verdict) ==
    IF verdict THEN Anonymous(ClearTokens(w))
    ELSE Issue([w EXCEPT !.retries = @ - 1], Request("hydrate"))

\* Only a verdict about the session ends it; a network failure is retried twice
\* (after a while: the timer is not modelled) and then leaves the tokens alone.
HydrationFailed(w, verdict) ==
    CASE verdict -> Anonymous(ClearTokens(w))
      [] ~verdict /\ w.retries > 0 ->
           Issue([w EXCEPT !.retries = @ - 1], Request("hydrate"))
      [] OTHER -> Noting(Anonymous(w), "blip", TRUE)

\* signIn after login or register: me, with the new tokens.
SignIn(w, u) == Issue(SetTokens(w, u), [Request("signin") EXCEPT !.who = u])

\* setUser, setStatus, and the page that was asked for.
SignedIn(w, u) ==
    EnterBoard([Cancel(w, "hydrate") EXCEPT !.status = "authenticated", !.user = u,
                                            !.submitting = FALSE], "mine")
SignInFailed(w) == [Anonymous(ClearTokens(w)) EXCEPT !.submitting = FALSE]
=============================================================================
