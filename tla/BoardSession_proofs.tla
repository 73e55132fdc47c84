------------------------ MODULE BoardSession_proofs -------------------------
(***************************************************************************)
(* The session of a tab and its board cache, for any members, notes,       *)
(* calls and budgets. Known is what always holds of the tokens, the shown  *)
(* member, the calls under way and the cached lists; Settled adds what     *)
(* relates the lists to the notes of the server.                           *)
(***************************************************************************)
EXTENDS BoardSession, TLAPS

\* What a mishap does not spare, of the tab w.
Saw(w, mishaps) == w.mishaps \cap mishaps # {}

\* What a call is about, and what it brings back.
CallTyped(c) ==
    /\ c.op = "login" => c.who \in Members /\ c.at \notin {"waiting", "denied"}
    /\ c.op \in {"list", "resync"} /\ c.at = "ok" => c.who \in Members
    /\ c.op = "save" => c.ids # {} /\ (c.at = "ok" => c.rows # {})
    /\ c.op = "none" => c.at = "idle"

Typed(w) ==
    /\ w \in Tab
    /\ w.refreshing.at # "idle" => w.refreshing.who \in Members
    /\ \A s \in Slots : CallTyped(w.calls[s])

\* A call in the name of the member whose tokens are stored, and one in the name
\* of the member who is shown.
Carries(c, u) == /\ c.token # None => c.token.who = u
                 /\ c.at = "ok" => c.who = u

Entering(w, s) == w.calls[s].op \in {"login", "signin"}

\* The tokens in the storage are of one member, as is the refresh in flight.
TokensPaired(w) ==
    /\ w.access = None <=> w.refresh = None
    /\ w.access # None => w.access.who = w.refresh
    /\ w.refreshing.at # "idle" =>
         /\ w.refreshing.who = w.refresh
         /\ \E s \in Slots : w.calls[s].at = "waiting"

\* One member signs in at a time, while nobody is, in their own name.
OneSignIn(w) ==
    /\ \A s \in Slots : Entering(w, s) => w.submitting /\ w.status = "anonymous"
    /\ \A s, t \in Slots : Entering(w, s) /\ Entering(w, t) => s = t
    /\ \A s \in Slots : w.calls[s].op = "signin" =>
         /\ w.calls[s].token # None
         /\ w.refresh # None => Carries(w.calls[s], w.refresh)

\* While the tokens of a page load are checked nothing else is under way, and
\* tokens nobody signed in with are left by a check that could not be made.
NobodyYet(w) ==
    /\ w.status = "loading" =>
         /\ w.refresh # None
         /\ \A s \in Slots : w.calls[s].op \in {"none", "hydrate"}
         /\ \A s, t \in Slots : w.calls[s].op = "hydrate" /\ w.calls[t].op = "hydrate" => s = t
    /\ \A s \in Slots : w.calls[s].op = "hydrate" /\ w.calls[s].live =>
         w.status = "loading" /\ Carries(w.calls[s], w.refresh)
    /\ w.status = "anonymous" /\ w.refresh # None /\ ~InFlight(w, {"signin"}) =>
         "blip" \in w.mishaps /\ \A s \in Slots : w.calls[s].op \in {"none", "login"}

TokensAgree(w) ==
    ~Saw(w, {"refresh", "early"}) => TokensPaired(w) /\ OneSignIn(w) /\ NobodyYet(w)

Present(w) == w.status = "authenticated"
MemberAgrees(w) ==
    ~Saw(w, {"refresh", "early", "profile"}) =>
      /\ Present(w) /\ w.refresh # None => w.refresh = w.user
      /\ \A s \in Slots : w.calls[s].op = "profile" => Present(w) /\ Carries(w.calls[s], w.user)

\* Whose lists are kept, and whose are on their way.
CacheAgrees(w) ==
    ~Saw(w, {"refresh", "early", "profile", "resync", "patch", "delete"}) =>
      /\ \A k \in Keys : w.lists[k] # None => Present(w) /\ w.lists[k].of = w.user
      /\ \A s \in Slots :
           LET c == w.calls[s]
           IN /\ c.op = "resync" \/ (c.op = "list" /\ c.live) => Present(w) /\ Carries(c, w.user)
              /\ c.op \in {"patch", "delete"} => Present(w)

\* A call that was sent again has a fresh token; a verdict about a member is
\* one about a disabled account.
Verdict(c, w, over) ==
    /\ c.again /\ c.at = "sent" => c.token # None /\ (c.token.old => "slow" \in w.mishaps)
    /\ c.again /\ c.at = "denied" => "slow" \in w.mishaps
    /\ c.at = "disabled" => c.token # None /\ c.token.who \in over

Verdicts(w, over) ==
    /\ w.refreshing.at = "bad" => "refresh lost" \in w.mishaps \/ w.refreshing.who \in over
    /\ \A s \in Slots : Verdict(w.calls[s], w, over)

\* Without tokens only a member whose account is disabled is signed in, or will be.
Survivors(w, over) ==
    ~Saw(w, {"refresh lost", "refresh", "profile", "early", "former", "slow", "stuck"}) =>
      /\ Present(w) /\ w.refresh = None => w.user \in over
      /\ \A s \in Slots : w.calls[s].op = "signin" /\ w.refresh = None =>
           /\ w.calls[s].token.who \in over
           /\ w.calls[s].at = "ok" => w.calls[s].who \in over

SessionInv(w, over) == /\ Typed(w) /\ TokensAgree(w) /\ MemberAgrees(w) /\ CacheAgrees(w)
                       /\ Verdicts(w, over) /\ Survivors(w, over)

(***************************************************************************)
(* The shapes of the tab's own operations: what each leaves as it was, and *)
(* what of the tab and its calls it changes.                               *)
(***************************************************************************)

\* The tabs that agree with w in what a step does not touch.
SameTokens(v, w) == v.access = w.access /\ v.refresh = w.refresh /\ v.refreshing = w.refreshing
SameMember(v, w) == v.status = w.status /\ v.user = w.user
SamePage(v, w) == /\ v.route = w.route /\ v.key = w.key /\ v.retries = w.retries
                  /\ v.submitting = w.submitting /\ v.composing = w.composing

\* The call as it is sent, and a call whose result will not be used.
AsSent(w, call) == [call EXCEPT !.at = "sent", !.token = w.access]
Cut(c, ops) == IF c.op \in ops THEN [c EXCEPT !.live = FALSE] ELSE c

\* A mishap is noted, or not.
LEMMA NotingShape ==
  ASSUME NEW w \in Tab, NEW m \in Mishaps, NEW cond \in BOOLEAN
  PROVE  LET v == Noting(w, m, cond)
         IN /\ v \in Tab
            /\ SameTokens(v, w) /\ SameMember(v, w) /\ SamePage(v, w)
            /\ v.calls = w.calls /\ v.lists = w.lists
            /\ v.mishaps = IF cond THEN w.mishaps \cup {m} ELSE w.mishaps
BY DEF Tab, Noting, SameTokens, SameMember, SamePage

\* The answer of a call is handled.
LEMMA DoneShape ==
  ASSUME NEW w \in Tab, NEW s \in Slots
  PROVE  LET v == Done(w, s)
         IN /\ v \in Tab
            /\ SameTokens(v, w) /\ SameMember(v, w) /\ SamePage(v, w)
            /\ v.calls[s] = NoCall /\ \A t \in Slots \ {s} : v.calls[t] = w.calls[t]
            /\ v.lists = w.lists /\ v.mishaps = w.mishaps
<1>1. NoCall \in Call
  BY DEF NoCall, Call, Ops, At, Keys
<1> QED
  BY <1>1 DEF Tab, Done, SameTokens, SameMember, SamePage

\* The results of the calls op will not be used.
LEMMA CancelShape ==
  ASSUME NEW w \in Tab, NEW op
  PROVE  LET v == Cancel(w, op)
         IN /\ v \in Tab
            /\ SameTokens(v, w) /\ SameMember(v, w) /\ SamePage(v, w)
            /\ \A s \in Slots : v.calls[s] = Cut(w.calls[s], {op})
            /\ v.lists = w.lists /\ v.mishaps = w.mishaps
<1> DEFINE cs == [s \in Slots |-> Cut(w.calls[s], {op})]
<1>1. \A c \in Call : Cut(c, {op}) \in Call
  BY DEF Call, Cut
<1>2. cs \in [Slots -> Call] /\ \A s \in Slots : cs[s] = Cut(w.calls[s], {op})
  BY <1>1 DEF Tab
<1>3. Cancel(w, op) = [w EXCEPT !.calls = cs]
  BY DEF Cancel, Cut, Tab
<1> HIDE DEF cs
<1> QED
  BY <1>2, <1>3 DEF Tab, SameTokens, SameMember, SamePage

\* A call goes out with the token of the tab.
LEMMA IssueShape ==
  ASSUME NEW w \in Tab, NEW call \in Call, \E s \in Slots : w.calls[s].op = "none"
  PROVE  LET v == Issue(w, call)
         IN /\ v \in Tab
            /\ SameTokens(v, w) /\ SameMember(v, w) /\ SamePage(v, w)
            /\ \E s \in Slots : /\ w.calls[s].op = "none" /\ v.calls[s] = AsSent(w, call)
                                /\ \A t \in Slots \ {s} : v.calls[t] = w.calls[t]
            /\ v.lists = w.lists /\ v.mishaps = w.mishaps
<1> DEFINE f == FreeSlot(w)
<1>1. f \in Slots /\ w.calls[f].op = "none"
  BY DEF FreeSlot
<1>2. AsSent(w, call) \in Call
  BY DEF AsSent, Call, At, Tab
<1>3. Issue(w, call) = [w EXCEPT !.calls[f] = AsSent(w, call)]
  BY DEF Issue, AsSent
<1> HIDE DEF f
<1> QED
  BY <1>1, <1>2, <1>3 DEF Tab, SameTokens, SameMember, SamePage

\* A call fails.
LEMMA FailShape ==
  ASSUME NEW w \in Tab, NEW s \in Slots
  PROVE  LET v == Fail(w, s)
         IN /\ v \in Tab
            /\ SameTokens(v, w) /\ SameMember(v, w) /\ SamePage(v, w)
            /\ v.calls[s] = [w.calls[s] EXCEPT !.at = "failed"]
            /\ \A t \in Slots \ {s} : v.calls[t] = w.calls[t]
            /\ v.lists = w.lists /\ v.mishaps = w.mishaps
<1> DEFINE c == [w.calls[s] EXCEPT !.at = "failed"]
<1>1. c \in Call
  BY DEF Call, At, Tab
<1>2. Fail(w, s) = [w EXCEPT !.calls[s] = c]
  BY DEF Fail, Tab
<1> HIDE DEF c
<1>3. c = [w.calls[s] EXCEPT !.at = "failed"]
  BY DEF c
<1> QED
  BY <1>1, <1>2, <1>3 DEF Tab, SameTokens, SameMember, SamePage

\* A refresh has failed for good, and may be found so.
LEMMA StuckShape ==
  ASSUME NEW w \in Tab
  PROVE  LET v == Stuck(w)
         IN /\ v \in Tab
            /\ SameTokens(v, w) /\ SameMember(v, w) /\ SamePage(v, w)
            /\ v.calls = w.calls /\ v.lists = w.lists
            /\ v.mishaps = IF w.refresh # None THEN w.mishaps \cup {"stuck"} ELSE w.mishaps
<1> DEFINE cond == w.refresh # None
           v == Noting(w, "stuck", cond)
           u == [v EXCEPT !.stuck = TRUE]
<1>1. "stuck" \in Mishaps /\ cond \in BOOLEAN /\ (cond <=> w.refresh # None) /\ Stuck(w) = u
  BY DEF Mishaps, Stuck
<1> HIDE DEF cond
<1>2. /\ v \in Tab
      /\ SameTokens(v, w) /\ SameMember(v, w) /\ SamePage(v, w)
      /\ v.calls = w.calls /\ v.lists = w.lists
      /\ v.mishaps = IF cond THEN w.mishaps \cup {"stuck"} ELSE w.mishaps
  BY <1>1, NotingShape
<1> HIDE DEF v
<1>3. /\ u \in Tab
      /\ SameTokens(u, v) /\ SameMember(u, v) /\ SamePage(u, v)
      /\ u.calls = v.calls /\ u.lists = v.lists /\ u.mishaps = v.mishaps
  BY <1>2 DEF Tab, SameTokens, SameMember, SamePage
<1> HIDE DEF u
<1> QED
  BY <1>1, <1>2, <1>3 DEF SameTokens, SameMember, SamePage

\* What OnExpired and signOut leave: nobody, no cache, no fetch of the board; the
\* mishaps say what goes on without them.
LeftBy(v, w) ==
    /\ v \in Tab
    /\ v.refreshing = w.refreshing
    /\ v.status = "anonymous" /\ v.user = None /\ v.route = "login"
    /\ v.submitting = w.submitting /\ v.key = w.key
    /\ \A s \in Slots : v.calls[s] = Cut(w.calls[s], {"list", "hydrate"})
    /\ w.mishaps \subseteq v.mishaps

\* Nobody is signed in any more.
LEMMA AnonymousShape ==
  ASSUME NEW w \in Tab
  PROVE  LET v == Anonymous(w)
         IN /\ LeftBy(v, w)
            /\ v.access = w.access /\ v.refresh = w.refresh
            /\ v.lists = w.lists /\ v.mishaps = w.mishaps
<1> DEFINE x == Cancel(w, "list")
           y == Cancel(x, "hydrate")
<1>1. x \in Tab /\ SameTokens(x, w) /\ SameMember(x, w) /\ SamePage(x, w)
      /\ (\A s \in Slots : x.calls[s] = Cut(w.calls[s], {"list"}))
      /\ x.lists = w.lists /\ x.mishaps = w.mishaps
  BY CancelShape
<1> HIDE DEF x
<1>2. y \in Tab /\ SameTokens(y, x) /\ SameMember(y, x) /\ SamePage(y, x)
      /\ (\A s \in Slots : y.calls[s] = Cut(x.calls[s], {"hydrate"}))
      /\ y.lists = x.lists /\ y.mishaps = x.mishaps
  BY <1>1, CancelShape
<1>3. Anonymous(w) = [y EXCEPT !.status = "anonymous", !.user = None, !.route = "login",
                               !.composing = FALSE]
  BY DEF Anonymous, x, y
<1> HIDE DEF y
<1>4. ASSUME NEW s \in Slots
      PROVE  y.calls[s] = Cut(w.calls[s], {"list", "hydrate"})
  <2> DEFINE c == w.calls[s]
  <2>1. x.calls[s] = Cut(c, {"list"}) /\ y.calls[s] = Cut(x.calls[s], {"hydrate"}) /\ c \in Call
    BY <1>1, <1>2 DEF Tab
  <2> HIDE DEF c
  <2>2. CASE c.op = "list"
    BY <2>1, <2>2 DEF Cut, Call, c
  <2>3. CASE c.op # "list"
    BY <2>1, <2>3 DEF Cut, Call, c
  <2> QED
    BY <2>2, <2>3
<1> DEFINE v == [y EXCEPT !.status = "anonymous", !.user = None, !.route = "login",
                          !.composing = FALSE]
<1>5. v \in Tab
  BY <1>2 DEF Tab
<1>6. /\ v.access = y.access /\ v.refresh = y.refresh /\ v.refreshing = y.refreshing
      /\ v.calls = y.calls /\ v.lists = y.lists /\ v.mishaps = y.mishaps
      /\ v.submitting = y.submitting /\ v.key = y.key
      /\ v.status = "anonymous" /\ v.user = None /\ v.route = "login"
  BY <1>2 DEF Tab
<1> HIDE DEF v
<1>7. Anonymous(w) = v
  BY <1>3 DEF v
<1> QED
  BY <1>1, <1>2, <1>4, <1>5, <1>6, <1>7 DEF SameTokens, SameMember, SamePage, LeftBy

\* clearTokens of api/client.ts; a refresh in flight is a mishap.
LEMMA ClearTokensShape ==
  ASSUME NEW w \in Tab
  PROVE  LET v == ClearTokens(w)
         IN /\ v \in Tab
            /\ v.access = None /\ v.refresh = None /\ v.refreshing = w.refreshing
            /\ SameMember(v, w) /\ SamePage(v, w)
            /\ v.calls = w.calls /\ v.lists = w.lists
            /\ w.mishaps \subseteq v.mishaps
            /\ w.refreshing.at # "idle" => "refresh" \in v.mishaps
<1> DEFINE x == [w EXCEPT !.access = None, !.refresh = None]
<1>1. x \in Tab /\ x.access = None /\ x.refresh = None /\ x.refreshing = w.refreshing
      /\ SameMember(x, w) /\ SamePage(x, w)
      /\ x.calls = w.calls /\ x.lists = w.lists /\ x.mishaps = w.mishaps
  BY DEF Tab, SameMember, SamePage
<1>2. ClearTokens(w) = Noting(x, "refresh", w.refreshing.at # "idle")
  BY DEF ClearTokens
<1> HIDE DEF x
<1> DEFINE cond == w.refreshing.at # "idle"
<1>3. "refresh" \in Mishaps /\ cond \in BOOLEAN /\ ClearTokens(w) = Noting(x, "refresh", cond)
  BY <1>2 DEF Mishaps
<1>4. cond <=> w.refreshing.at # "idle"
  OBVIOUS
<1> HIDE DEF cond
<1> DEFINE v == Noting(x, "refresh", cond)
<1>5. /\ v \in Tab
      /\ SameTokens(v, x) /\ SameMember(v, x) /\ SamePage(v, x)
      /\ v.calls = x.calls /\ v.lists = x.lists
      /\ v.mishaps = IF cond THEN x.mishaps \cup {"refresh"} ELSE x.mishaps
  BY <1>1, <1>3, NotingShape
<1> HIDE DEF v
<1>6. v = ClearTokens(w)
  BY <1>3 DEF v
<1> QED
  BY <1>1, <1>4, <1>5, <1>6 DEF SameTokens, SameMember, SamePage

\* clearBoardCache of lib/boardCache.ts.
LEMMA ClearBoardCacheShape ==
  ASSUME NEW w \in Tab
  PROVE  LET v == ClearBoardCache(w)
         IN /\ v \in Tab
            /\ SameTokens(v, w) /\ SameMember(v, w) /\ SamePage(v, w)
            /\ v.calls = w.calls /\ v.mishaps = w.mishaps
            /\ \A k \in Keys : v.lists[k] = None
BY DEF Tab, ClearBoardCache, SameTokens, SameMember, SamePage

\* What a session leaves in flight is noted.
LEMMA OutlivedShape ==
  ASSUME NEW w \in Tab
  PROVE  LET v == Outlived(w)
         IN /\ v \in Tab
            /\ SameTokens(v, w) /\ SameMember(v, w) /\ SamePage(v, w)
            /\ v.calls = w.calls /\ v.lists = w.lists
            /\ v.mishaps = w.mishaps \cup {op \in {"profile", "resync", "patch", "delete"} :
                                                InFlight(w, {op})}
BY DEF Tab, Outlived, SameTokens, SameMember, SamePage, Mishaps

\* What the end of a session leaves.
EndedBy(v, w) ==
    /\ LeftBy(v, w)
    /\ v.access = None /\ v.refresh = None
    /\ \A k \in Keys : v.lists[k] = None
    /\ \A op \in {"profile", "resync", "patch", "delete"} : InFlight(w, {op}) => op \in v.mishaps
    /\ w.refreshing.at # "idle" => "refresh" \in v.mishaps

\* The session handler of auth/AuthContext.tsx.
LEMMA EndSessionShape ==
  ASSUME NEW w \in Tab
  PROVE  EndedBy(EndSession(w), w)
<1> DEFINE a == ClearTokens(w)
           b == Outlived(a)
           c == ClearBoardCache(b)
           v == Anonymous(c)
<1>1. /\ a \in Tab
      /\ a.access = None /\ a.refresh = None /\ a.refreshing = w.refreshing
      /\ SameMember(a, w) /\ SamePage(a, w)
      /\ a.calls = w.calls /\ a.lists = w.lists
      /\ w.mishaps \subseteq a.mishaps
      /\ w.refreshing.at # "idle" => "refresh" \in a.mishaps
  BY ClearTokensShape
<1> HIDE DEF a
<1>2. /\ b \in Tab
      /\ SameTokens(b, a) /\ SameMember(b, a) /\ SamePage(b, a)
      /\ b.calls = a.calls /\ b.lists = a.lists
      /\ b.mishaps = a.mishaps \cup {op \in {"profile", "resync", "patch", "delete"} :
                                         InFlight(a, {op})}
  BY <1>1, OutlivedShape
<1> HIDE DEF b
<1>3. /\ c \in Tab
      /\ SameTokens(c, b) /\ SameMember(c, b) /\ SamePage(c, b)
      /\ c.calls = b.calls /\ c.mishaps = b.mishaps
      /\ \A k \in Keys : c.lists[k] = None
  BY <1>2, ClearBoardCacheShape
<1> HIDE DEF c
<1>4. /\ LeftBy(v, c)
      /\ v.access = c.access /\ v.refresh = c.refresh
      /\ v.lists = c.lists /\ v.mishaps = c.mishaps
  BY <1>3, AnonymousShape
<1>5. v = EndSession(w)
  BY DEF EndSession, OnExpired, a, b, c
<1> HIDE DEF v
<1>6. \A op \in {"profile", "resync", "patch", "delete"} : InFlight(w, {op}) <=> InFlight(a, {op})
  BY <1>1 DEF InFlight
<1>7. v.mishaps = a.mishaps \cup {op \in {"profile", "resync", "patch", "delete"} :
                                     InFlight(a, {op})}
  BY <1>2, <1>3, <1>4
<1>8. LeftBy(v, w)
  BY <1>1, <1>2, <1>3, <1>4, <1>7 DEF LeftBy, SameTokens, SamePage
<1> QED
  BY <1>1, <1>2, <1>3, <1>4, <1>5, <1>6, <1>7, <1>8 DEF EndedBy, SameTokens

\* The same by the member: signOut.
LEMMA SignedOutShape ==
  ASSUME NEW w \in Tab
  PROVE  EndedBy(SignedOut(w), w)
<1>1. SignedOut(w) = EndSession(w)
  BY DEF SignedOut, EndSession, OnExpired
<1> QED
  BY <1>1, EndSessionShape

\* setTokens of api/client.ts.
LEMMA SetTokensShape ==
  ASSUME NEW w \in Tab, NEW u \in Members
  PROVE  LET v == SetTokens(w, u)
         IN /\ v \in Tab
            /\ v.access = [who |-> u, old |-> FALSE] /\ v.refresh = u
            /\ v.refreshing = w.refreshing
            /\ SameMember(v, w) /\ SamePage(v, w)
            /\ v.calls = w.calls /\ v.lists = w.lists /\ v.mishaps = w.mishaps
<1> DEFINE t == [who |-> u, old |-> FALSE]
<1>1. t \in Token
  BY DEF Token
<1>2. SetTokens(w, u) = [[w EXCEPT !.access = t] EXCEPT !.refresh = u]
  BY DEF SetTokens, SetAccess
<1> HIDE DEF t
<1>3. SetTokens(w, u).access = t /\ SetTokens(w, u) \in Tab
  BY <1>1, <1>2 DEF Tab
<1>4. SetTokens(w, u).access = [who |-> u, old |-> FALSE]
  BY <1>3 DEF t
<1> QED
  BY <1>2, <1>3, <1>4 DEF Tab, SameMember, SamePage

\* A request that is made, for the calls of v.
Issued(v, w, call) ==
    \E s \in Slots : /\ w.calls[s].op = "none" /\ v.calls[s] = AsSent(w, call)
                     /\ \A t \in Slots \ {s} : v.calls[t] = w.calls[t]

\* A request that nothing is said of yet.
LEMMA RequestTyped ==
  ASSUME NEW op \in Ops
  PROVE  Request(op) \in Call /\ Request(op).op = op /\ ~Request(op).again /\ Request(op).live
         /\ Request(op).key = "mine" /\ Request(op).who = None /\ Request(op).at = "idle"
         /\ Request(op).ids = {} /\ Request(op).rows = {} /\ Request(op).patch = "none"
BY DEF Request, NoCall, Call, At, Keys

\* The board mounts.
LEMMA EnterBoardShape ==
  ASSUME NEW w \in Tab, NEW key \in Keys, \E s \in Slots : w.calls[s].op = "none"
  PROVE  LET v == EnterBoard(w, key)
         IN /\ v \in Tab
            /\ SameTokens(v, w) /\ SameMember(v, w)
            /\ v.route = "board" /\ v.key = key /\ v.submitting = w.submitting
            /\ v.lists = w.lists
            /\ Issued(v, w, [Request("list") EXCEPT !.key = key])
            /\ v.mishaps = IF Writing(w) THEN w.mishaps \cup {"raced"} ELSE w.mishaps
<1> DEFINE cond == Writing(w)
           call == [Request("list") EXCEPT !.key = key]
           a == Noting(w, "raced", cond)
           b == [a EXCEPT !.route = "board", !.key = key]
           v == Issue(b, call)
<1>1. cond \in BOOLEAN /\ "raced" \in Mishaps /\ call \in Call
  BY RequestTyped DEF Writing, InFlight, Mishaps, Call, Ops
<1>2. v = EnterBoard(w, key) /\ (cond <=> Writing(w))
  BY DEF EnterBoard
<1> HIDE DEF cond
<1>3. /\ a \in Tab
      /\ SameTokens(a, w) /\ SameMember(a, w) /\ SamePage(a, w)
      /\ a.calls = w.calls /\ a.lists = w.lists
      /\ a.mishaps = IF cond THEN w.mishaps \cup {"raced"} ELSE w.mishaps
  BY <1>1, NotingShape
<1> HIDE DEF a
<1>4. /\ b \in Tab
      /\ SameTokens(b, a) /\ SameMember(b, a)
      /\ b.route = "board" /\ b.key = key /\ b.submitting = a.submitting
      /\ b.calls = a.calls /\ b.lists = a.lists /\ b.mishaps = a.mishaps
  BY <1>3 DEF Tab, SameTokens, SameMember
<1> HIDE DEF b
<1>5. \E s \in Slots : b.calls[s].op = "none"
  BY <1>3, <1>4
<1> HIDE DEF call
<1>6. /\ v \in Tab
      /\ SameTokens(v, b) /\ SameMember(v, b) /\ SamePage(v, b)
      /\ \E s \in Slots : /\ b.calls[s].op = "none" /\ v.calls[s] = AsSent(b, call)
                          /\ \A t \in Slots \ {s} : v.calls[t] = b.calls[t]
      /\ v.lists = b.lists /\ v.mishaps = b.mishaps
  BY <1>1, <1>4, <1>5, IssueShape
<1> HIDE DEF v
<1>7. AsSent(b, call) = AsSent(w, call)
  BY <1>3, <1>4 DEF AsSent, SameTokens
<1>8. Issued(v, w, call)
  BY <1>3, <1>4, <1>6, <1>7 DEF Issued
<1>9. Issued(v, w, [Request("list") EXCEPT !.key = key])
  BY <1>8 DEF call
<1> QED
  BY <1>2, <1>3, <1>4, <1>6, <1>9 DEF SameTokens, SameMember, SamePage

(***************************************************************************)
(* A step that takes nothing but from the session keeps its invariant:     *)
(* calls end, results are dropped, mishaps are noted. So do the ends and   *)
(* the beginnings of a session.                                            *)
(***************************************************************************)

\* Which tab it is on, and what is noted, is nothing to the session.
LEMMA PageKeeps ==
  ASSUME NEW w, NEW v, NEW over, SessionInv(w, over), v \in Tab,
         SameTokens(v, w), SameMember(v, w), v.submitting = w.submitting,
         v.calls = w.calls, v.lists = w.lists, w.mishaps \subseteq v.mishaps
  PROVE  SessionInv(v, over)
<1>1. Typed(v)
  BY DEF SessionInv, Typed, CallTyped, SameTokens
<1>2. \A ms : Saw(w, ms) => Saw(v, ms)
  BY DEF Saw
<1>3. TokensAgree(v)
  <2>1. TokensPaired(w) => TokensPaired(v)
    BY DEF TokensPaired, SameTokens
  <2>2. OneSignIn(w) => OneSignIn(v)
    BY DEF OneSignIn, SameTokens, SameMember, Entering, Carries
  <2>3. NobodyYet(w) => NobodyYet(v)
    BY DEF NobodyYet, SameTokens, SameMember, Carries, InFlight
  <2> QED
    BY <1>2, <2>1, <2>2, <2>3 DEF SessionInv, TokensAgree
<1>4. MemberAgrees(v)
  BY <1>2 DEF SessionInv, MemberAgrees, Present, SameTokens, SameMember
<1>5. CacheAgrees(v)
  BY <1>2 DEF SessionInv, CacheAgrees, Present, SameTokens, SameMember
<1>6. Verdicts(v, over)
  BY DEF SessionInv, Verdicts, Verdict, SameTokens
<1>7. Survivors(v, over)
  BY <1>2 DEF SessionInv, Survivors, Present, SameTokens, SameMember
<1> QED
  BY <1>1, <1>3, <1>4, <1>5, <1>6, <1>7 DEF SessionInv

\* A call that is over, or whose result will not be used.
Lesser(d, c) ==
    \/ d = c
    \/ d = NoCall /\ c.op # "signin" /\ c.at # "waiting"
    \/ d = [c EXCEPT !.live = FALSE]

\* A step that only takes from the calls keeps the session's invariant.
LEMMA LessKeeps ==
  ASSUME NEW w, NEW v, NEW over, SessionInv(w, over), v \in Tab,
         SameTokens(v, w), SameMember(v, w), v.submitting = w.submitting,
         \A s \in Slots : Lesser(v.calls[s], w.calls[s]),
         v.lists = w.lists, w.mishaps \subseteq v.mishaps
  PROVE  SessionInv(v, over)
<1>0. \A s \in Slots : v.calls[s] \in Call /\ w.calls[s] \in Call
  BY DEF SessionInv, Typed, CallTyped, Tab
<1>a. ASSUME NEW s \in Slots
      PROVE  \/ v.calls[s] = NoCall /\ w.calls[s].op # "signin" /\ w.calls[s].at # "waiting"
             \/ /\ v.calls[s].op = w.calls[s].op /\ v.calls[s].at = w.calls[s].at
                /\ v.calls[s].token = w.calls[s].token /\ v.calls[s].again = w.calls[s].again
                /\ v.calls[s].who = w.calls[s].who /\ v.calls[s].ids = w.calls[s].ids
                /\ v.calls[s].rows = w.calls[s].rows /\ (v.calls[s].live => w.calls[s].live)
  <2> DEFINE c == w.calls[s]
             d == v.calls[s]
  <2>1. Lesser(d, c) /\ c \in Call
    BY <1>0
  <2> SUFFICES \/ d = NoCall /\ c.op # "signin" /\ c.at # "waiting"
               \/ /\ d.op = c.op /\ d.at = c.at /\ d.token = c.token /\ d.again = c.again
                  /\ d.who = c.who /\ d.ids = c.ids /\ d.rows = c.rows /\ (d.live => c.live)
    OBVIOUS
  <2> HIDE DEF c, d
  <2> QED
    BY <2>1 DEF Lesser, Call
<1>b. /\ NoCall.op = "none" /\ NoCall.at = "idle" /\ ~NoCall.again /\ NoCall.token = None
  BY DEF NoCall
<1>1. Typed(v)
  BY <1>a, <1>b DEF SessionInv, Typed, CallTyped, SameTokens
<1>2. \A ms : Saw(w, ms) => Saw(v, ms)
  BY DEF Saw
<1>3. TokensAgree(v)
  <2>1. TokensPaired(w) => TokensPaired(v)
    BY <1>a, <1>b DEF TokensPaired, SameTokens
  <2>2. OneSignIn(w) => OneSignIn(v)
    BY <1>a, <1>b DEF OneSignIn, SameTokens, SameMember, Entering, Carries
  <2>3. InFlight(v, {"signin"}) <=> InFlight(w, {"signin"})
    BY <1>a, <1>b DEF InFlight
  <2>4. NobodyYet(w) => NobodyYet(v)
    BY <1>a, <1>b, <2>3 DEF NobodyYet, SameTokens, SameMember, Carries
  <2> QED
    BY <1>2, <2>1, <2>2, <2>4 DEF SessionInv, TokensAgree
<1>4. MemberAgrees(v)
  BY <1>2, <1>a, <1>b DEF SessionInv, MemberAgrees, Present, SameTokens, SameMember, Carries
<1>5. CacheAgrees(v)
  BY <1>2, <1>a, <1>b DEF SessionInv, CacheAgrees, Present, SameTokens, SameMember, Carries
<1>6. Verdicts(v, over)
  <2>1. v.refreshing.at = "bad" => "refresh lost" \in v.mishaps \/ v.refreshing.who \in over
    BY DEF SessionInv, Verdicts, Verdict, SameTokens
  <2>2. ASSUME NEW s \in Slots
        PROVE  Verdict(v.calls[s], v, over)
    <3>1. CASE v.calls[s] = NoCall
      BY <3>1, <1>b DEF Verdict
    <3>2. CASE v.calls[s] # NoCall
      BY <3>2, <1>a DEF SessionInv, Verdicts, Verdict
    <3> QED
      BY <3>1, <3>2
  <2> QED
    BY <2>1, <2>2 DEF Verdicts, Verdict
<1>7. Survivors(v, over)
  BY <1>2, <1>a, <1>b DEF SessionInv, Survivors, Present, SameTokens, SameMember
<1> QED
  BY <1>1, <1>3, <1>4, <1>5, <1>6, <1>7 DEF SessionInv

\* What a call brings back is about the member whose token it carried.
Brings(d, c, over) ==
    /\ d.op = c.op /\ d.token = c.token /\ d.again = c.again /\ d.live = c.live
    /\ d.at # "waiting" /\ c.at \in {"sent", "ok", "denied", "disabled"} /\ c.op # "none"
    /\ d.op = "login" => d.who = c.who /\ d.at # "denied"
    /\ d.at = "ok" /\ d.op \in {"signin", "hydrate", "profile", "list", "resync"} =>
         d.who = c.token.who /\ c.token # None
    /\ d.op = "save" => d.ids # {} /\ (d.at = "ok" => d.rows # {})
    /\ d.at = "sent" => c.at = "sent"
    /\ d.at = "denied" /\ d.again => c.token = None \/ c.token.old
    /\ d.at = "denied" => c.at = "sent"
    /\ d.at = "disabled" => c.token # None /\ c.token.who \in over

\* The server's steps, and the answers that get lost.
LEMMA ProgressKeeps ==
  ASSUME NEW w, NEW v, NEW over, SessionInv(w, over), v \in Tab,
         SameTokens(v, w), SameMember(v, w), v.submitting = w.submitting,
         v.lists = w.lists, w.mishaps \subseteq v.mishaps,
         NEW r \in Slots, Brings(v.calls[r], w.calls[r], over),
         \A s \in Slots \ {r} : v.calls[s] = w.calls[s]
  PROVE  SessionInv(v, over)
<1>0. \A s \in Slots : v.calls[s] \in Call /\ w.calls[s] \in Call
  BY DEF SessionInv, Typed, CallTyped, Tab
<1> DEFINE c == w.calls[r]
           d == v.calls[r]
<1>a. c \in Call /\ d \in Call /\ Brings(d, c, over)
  BY <1>0
<1>b. \A s \in Slots : v.calls[s].op = w.calls[s].op /\ v.calls[s].live = w.calls[s].live
                       /\ v.calls[s].token = w.calls[s].token
  BY DEF Brings
<1>1. Typed(v)
  <2>1. c.token # None => c.token.who \in Members
    BY <1>a DEF Call, Token
  <2>2. ASSUME NEW s \in Slots
        PROVE  CallTyped(v.calls[s])
    <3>1. CASE s = r
      BY <3>1, <1>a, <2>1 DEF SessionInv, Typed, CallTyped, Brings
    <3>2. CASE s # r
      BY <3>2 DEF SessionInv, Typed, CallTyped
    <3> QED
      BY <3>1, <3>2
  <2> QED
    BY <2>2 DEF SessionInv, Typed, CallTyped, SameTokens
<1>2. \A ms : Saw(w, ms) => Saw(v, ms)
  BY DEF Saw
<1>3. TokensAgree(v)
  <2>1. TokensPaired(w) => TokensPaired(v)
    BY <1>a DEF TokensPaired, SameTokens, Brings
  <2>2. OneSignIn(w) => OneSignIn(v)
    <3> SUFFICES ASSUME OneSignIn(w) PROVE OneSignIn(v)
      OBVIOUS
    <3>1. \A s \in Slots : Entering(v, s) <=> Entering(w, s)
      BY <1>b DEF Entering
    <3>2. ASSUME NEW s \in Slots, v.calls[s].op = "signin"
          PROVE  v.calls[s].token # None /\ (v.refresh # None => Carries(v.calls[s], v.refresh))
      <4>1. CASE s = r
        BY <4>1, <1>a, <3>2 DEF OneSignIn, SameTokens, Carries, Brings
      <4>2. CASE s # r
        BY <4>2, <3>2 DEF OneSignIn, SameTokens
      <4> QED
        BY <4>1, <4>2
    <3> QED
      BY <3>1, <3>2 DEF OneSignIn, SameMember
  <2>3. InFlight(v, {"signin"}) <=> InFlight(w, {"signin"})
    BY <1>b DEF InFlight
  <2>4. NobodyYet(w) => NobodyYet(v)
    <3> SUFFICES ASSUME NobodyYet(w) PROVE NobodyYet(v)
      OBVIOUS
    <3>1. ASSUME NEW s \in Slots, v.calls[s].op = "hydrate" /\ v.calls[s].live
          PROVE  v.status = "loading" /\ Carries(v.calls[s], v.refresh)
      <4>1. CASE s = r
        <5>1. c.op = "hydrate" /\ c.live => w.status = "loading" /\ Carries(c, w.refresh)
          BY DEF NobodyYet
        <5> QED
          BY <5>1, <4>1, <1>a, <3>1 DEF SameTokens, SameMember, Carries, Brings
      <4>2. CASE s # r
        BY <4>2, <3>1 DEF NobodyYet, SameTokens, SameMember
      <4> QED
        BY <4>1, <4>2
    <3> QED
      BY <1>b, <2>3, <3>1 DEF NobodyYet, SameTokens, SameMember
  <2> QED
    BY <1>2, <2>1, <2>2, <2>4 DEF SessionInv, TokensAgree
<1>c. ASSUME NEW s \in Slots, v.calls[s].op \in {"profile", "list", "resync"},
             Carries(w.calls[s], w.user)
      PROVE  Carries(v.calls[s], v.user)
  <2>1. CASE s = r
    BY <2>1, <1>a, <1>c DEF SameMember, Carries, Brings
  <2>2. CASE s # r
    BY <2>2, <1>c DEF SameMember
  <2> QED
    BY <2>1, <2>2
<1>4. MemberAgrees(v)
  BY <1>2, <1>b, <1>c DEF SessionInv, MemberAgrees, Present, SameTokens, SameMember
<1>5. CacheAgrees(v)
  BY <1>2, <1>b, <1>c DEF SessionInv, CacheAgrees, Present, SameTokens, SameMember
<1>6. Verdicts(v, over)
  <2>1. ASSUME NEW s \in Slots
        PROVE  Verdict(v.calls[s], v, over)
    <3>1. CASE s = r
      BY <3>1, <1>a DEF SessionInv, Verdicts, Verdict, Brings
    <3>2. CASE s # r
      BY <3>2 DEF SessionInv, Verdicts, Verdict
    <3> QED
      BY <3>1, <3>2
  <2> QED
    BY <2>1 DEF SessionInv, Verdicts, Verdict, SameTokens
<1>7. Survivors(v, over)
  <2> SUFFICES ASSUME ~Saw(v, {"refresh lost", "refresh", "profile", "early", "former", "slow", "stuck"})
               PROVE  /\ Present(v) /\ v.refresh = None => v.user \in over
                      /\ \A s \in Slots : v.calls[s].op = "signin" /\ v.refresh = None =>
                           /\ v.calls[s].token.who \in over
                           /\ v.calls[s].at = "ok" => v.calls[s].who \in over
    BY DEF Survivors
  <2>1. ~Saw(w, {"refresh lost", "refresh", "profile", "early", "former", "slow", "stuck"})
    BY <1>2
  <2>2. ASSUME NEW s \in Slots, v.calls[s].op = "signin", v.refresh = None
        PROVE  v.calls[s].token.who \in over /\ (v.calls[s].at = "ok" => v.calls[s].who \in over)
    <3>1. CASE s = r
      BY <3>1, <1>a, <2>1, <2>2 DEF SessionInv, Survivors, Brings, SameTokens
    <3>2. CASE s # r
      BY <3>2, <2>1, <2>2 DEF SessionInv, Survivors, SameTokens
    <3> QED
      BY <3>1, <3>2
  <2> QED
    BY <2>1, <2>2 DEF SessionInv, Survivors, Present, SameTokens, SameMember
<1> QED
  BY <1>1, <1>3, <1>4, <1>5, <1>6, <1>7 DEF SessionInv

\* A session ends; if nobody was shown its tokens were of a disabled member.
LEMMA EndKeeps ==
  ASSUME NEW w, NEW v, NEW over, SessionInv(w, over), EndedBy(v, w),
         /\ ~Saw(v, {"refresh lost", "refresh", "profile", "early", "former", "slow", "stuck"})
         /\ w.refresh # None /\ w.status = "anonymous"
         => w.refresh \in over
  PROVE  SessionInv(v, over)
<1>0. \A s \in Slots : w.calls[s] \in Call
  BY DEF SessionInv, Typed, CallTyped, Tab
<1>a. ASSUME NEW s \in Slots
      PROVE  /\ v.calls[s].op = w.calls[s].op /\ v.calls[s].at = w.calls[s].at
             /\ v.calls[s].token = w.calls[s].token /\ v.calls[s].again = w.calls[s].again
             /\ v.calls[s].who = w.calls[s].who /\ v.calls[s].ids = w.calls[s].ids
             /\ v.calls[s].rows = w.calls[s].rows
             /\ v.calls[s].op \in {"list", "hydrate"} => ~v.calls[s].live
  <2> DEFINE c == w.calls[s]
             d == v.calls[s]
  <2>1. d = Cut(c, {"list", "hydrate"}) /\ c \in Call
    BY <1>0 DEF EndedBy, LeftBy
  <2> SUFFICES /\ d.op = c.op /\ d.at = c.at /\ d.token = c.token /\ d.again = c.again
               /\ d.who = c.who /\ d.ids = c.ids /\ d.rows = c.rows
               /\ d.op \in {"list", "hydrate"} => ~d.live
    OBVIOUS
  <2> HIDE DEF c, d
  <2> QED
    BY <2>1 DEF Cut, Call
<1>b. /\ v \in Tab /\ v.access = None /\ v.refresh = None /\ v.refreshing = w.refreshing
      /\ v.status = "anonymous" /\ v.submitting = w.submitting
      /\ w.mishaps \subseteq v.mishaps
      /\ \A k \in Keys : v.lists[k] = None
      /\ w.refreshing.at # "idle" => "refresh" \in v.mishaps
  BY DEF EndedBy, LeftBy
<1>c. ASSUME NEW s \in Slots, v.calls[s].op \in {"profile", "resync", "patch", "delete"}
      PROVE  v.calls[s].op \in v.mishaps
  BY <1>c, <1>a DEF EndedBy, InFlight
<1>1. Typed(v)
  BY <1>a, <1>b DEF SessionInv, Typed, CallTyped
<1>2. \A ms : Saw(w, ms) => Saw(v, ms)
  BY <1>b DEF Saw
<1>3. TokensAgree(v)
  <2> SUFFICES ASSUME ~Saw(v, {"refresh", "early"})
               PROVE  TokensPaired(v) /\ OneSignIn(v) /\ NobodyYet(v)
    BY DEF TokensAgree
  <2>0. "refresh" \notin v.mishaps /\ OneSignIn(w)
    BY <1>2 DEF Saw, SessionInv, TokensAgree
  <2>1. TokensPaired(v)
    BY <1>b, <2>0 DEF TokensPaired
  <2>2. OneSignIn(v)
    BY <1>a, <1>b, <2>0 DEF OneSignIn, Entering
  <2>3. NobodyYet(v)
    BY <1>a, <1>b DEF NobodyYet
  <2> QED
    BY <2>1, <2>2, <2>3
<1>4. MemberAgrees(v)
  BY <1>b, <1>c DEF MemberAgrees, Present, Saw
<1>5. CacheAgrees(v)
  <2> SUFFICES ASSUME ~Saw(v, {"refresh", "early", "profile", "resync", "patch", "delete"})
               PROVE  \A s \in Slots :
                        LET c == v.calls[s]
                        IN /\ c.op = "resync" \/ (c.op = "list" /\ c.live)
                                => Present(v) /\ Carries(c, v.user)
                           /\ c.op \in {"patch", "delete"} => Present(v)
    BY <1>b DEF CacheAgrees
  <2> QED
    BY <1>a, <1>c DEF Saw
<1>6. Verdicts(v, over)
  <2>1. ASSUME NEW s \in Slots
        PROVE  Verdict(v.calls[s], v, over)
    BY <1>a, <1>b DEF SessionInv, Verdicts, Verdict
  <2> QED
    BY <2>1, <1>b DEF SessionInv, Verdicts
<1>7. Survivors(v, over)
  <2> SUFFICES ASSUME ~Saw(v, {"refresh lost", "refresh", "profile", "early", "former", "slow", "stuck"}),
                      NEW s \in Slots, v.calls[s].op = "signin"
               PROVE  /\ v.calls[s].token.who \in over
                      /\ v.calls[s].at = "ok" => v.calls[s].who \in over
    BY <1>b DEF Survivors, Present
  <2>1. ~Saw(w, {"refresh lost", "refresh", "profile", "early", "former", "slow", "stuck"})
        /\ ~Saw(w, {"refresh", "early"})
    BY <1>b DEF Saw
  <2>2. w.calls[s].op = "signin" /\ OneSignIn(w)
    BY <1>a, <2>1 DEF SessionInv, TokensAgree
  <2>3. CASE w.refresh = None
    BY <2>1, <2>2, <2>3, <1>a DEF SessionInv, Survivors
  <2>4. CASE w.refresh # None
    <3>1. w.status = "anonymous" /\ w.calls[s].token # None /\ Carries(w.calls[s], w.refresh)
      BY <2>2, <2>4 DEF OneSignIn, Entering
    <3> QED
      BY <3>1, <2>4, <1>a DEF Carries
  <2> QED
    BY <2>3, <2>4
<1> QED
  BY <1>1, <1>3, <1>4, <1>5, <1>6, <1>7 DEF SessionInv

\* A request of the page is in the name of the member it shows.
LEMMA IssueKeeps ==
  ASSUME NEW w, NEW v, NEW over, SessionInv(w, over), v \in Tab,
         SameTokens(v, w), SameMember(v, w), v.submitting = w.submitting,
         v.lists = w.lists, w.mishaps \subseteq v.mishaps,
         NEW call \in Call, Issued(v, w, call),
         call.op \in {"profile", "list", "resync", "patch", "delete", "save", "create"},
         ~call.again, call.op = "save" => call.ids # {},
         ~Saw(w, {"refresh", "early"}) =>
           /\ w.status # "loading"
           /\ w.status = "anonymous" /\ w.refresh # None => InFlight(w, {"signin"}),
         call.op = "profile" /\ ~Saw(w, {"refresh", "early", "profile"}) => Present(w),
         call.op # "profile" /\ ~Saw(w, {"refresh", "early", "profile", "resync", "patch", "delete"})
           => Present(w)
  PROVE  SessionInv(v, over)
<1> PICK r \in Slots : /\ w.calls[r].op = "none" /\ v.calls[r] = AsSent(w, call)
                       /\ \A t \in Slots \ {r} : v.calls[t] = w.calls[t]
  BY DEF Issued
<1> DEFINE d == v.calls[r]
<1>a. /\ d.op = call.op /\ d.at = "sent" /\ d.token = w.access /\ ~d.again /\ d.ids = call.ids
      /\ d.live = call.live
  BY DEF AsSent, Call
<1>b. /\ w \in Tab /\ w.calls[r].at = "idle" /\ w.calls[r].op = "none"
      /\ \A s \in Slots : s # r => v.calls[s] = w.calls[s]
  BY DEF SessionInv, Typed, CallTyped
<1> HIDE DEF d
<1>1. Typed(v)
  <2>1. ASSUME NEW s \in Slots
        PROVE  CallTyped(v.calls[s])
    <3>1. CASE s = r
      BY <3>1, <1>a DEF d, CallTyped
    <3>2. CASE s # r
      BY <3>2 DEF SessionInv, Typed, CallTyped
    <3> QED
      BY <3>1, <3>2
  <2> QED
    BY <2>1 DEF SessionInv, Typed, CallTyped, SameTokens
<1>2. \A ms : Saw(w, ms) => Saw(v, ms)
  BY DEF Saw
<1>c. InFlight(w, {"signin"}) => InFlight(v, {"signin"})
  BY <1>b DEF InFlight
<1>3. TokensAgree(v)
  <2> SUFFICES ASSUME ~Saw(v, {"refresh", "early"})
               PROVE  TokensPaired(v) /\ OneSignIn(v) /\ NobodyYet(v)
    BY DEF TokensAgree
  <2>0. /\ TokensPaired(w) /\ OneSignIn(w) /\ NobodyYet(w) /\ w.status # "loading"
        /\ w.status = "anonymous" /\ w.refresh # None => InFlight(w, {"signin"})
    BY <1>2 DEF SessionInv, TokensAgree
  <2>1. TokensPaired(v)
    BY <1>b, <2>0 DEF TokensPaired, SameTokens
  <2>2. \A s \in Slots : v.calls[s].op \in {"login", "signin", "hydrate"} => s # r
    BY <1>a DEF d
  <2>3. OneSignIn(v)
    BY <1>b, <2>0, <2>2 DEF OneSignIn, SameTokens, SameMember, Entering
  <2>4. NobodyYet(v)
    BY <1>b, <1>c, <2>0, <2>2 DEF NobodyYet, SameTokens, SameMember
  <2> QED
    BY <2>1, <2>3, <2>4
<1>d. ASSUME ~Saw(v, {"refresh", "early", "profile"}), Present(w)
      PROVE  Carries(d, w.user)
  <2>1. ~Saw(w, {"refresh", "early"}) /\ ~Saw(w, {"refresh", "early", "profile"})
    BY <1>d, <1>2 DEF Saw
  <2>2. TokensPaired(w) /\ (w.refresh # None => w.refresh = w.user)
    BY <2>1, <1>d DEF SessionInv, TokensAgree, MemberAgrees
  <2> QED
    BY <2>2, <1>a DEF TokensPaired, Carries
<1>4. MemberAgrees(v)
  <2> SUFFICES ASSUME ~Saw(v, {"refresh", "early", "profile"})
               PROVE  /\ Present(v) /\ v.refresh # None => v.refresh = v.user
                      /\ \A s \in Slots : v.calls[s].op = "profile" =>
                           Present(v) /\ Carries(v.calls[s], v.user)
    BY DEF MemberAgrees
  <2>1. ~Saw(w, {"refresh", "early", "profile"})
    BY <1>2
  <2>2. ASSUME NEW s \in Slots, v.calls[s].op = "profile"
        PROVE  Present(v) /\ Carries(v.calls[s], v.user)
    <3>1. CASE s = r
      BY <3>1, <2>1, <2>2, <1>a, <1>d DEF d, Present, SameMember
    <3>2. CASE s # r
      BY <3>2, <2>1, <2>2, <1>b DEF SessionInv, MemberAgrees, Present, SameMember
    <3> QED
      BY <3>1, <3>2
  <2> QED
    BY <2>1, <2>2 DEF SessionInv, MemberAgrees, Present, SameTokens, SameMember
<1>5. CacheAgrees(v)
  <2> SUFFICES ASSUME ~Saw(v, {"refresh", "early", "profile", "resync", "patch", "delete"})
               PROVE  /\ \A k \in Keys : v.lists[k] # None => Present(v) /\ v.lists[k].of = v.user
                      /\ \A s \in Slots :
                           LET c == v.calls[s]
                           IN /\ c.op = "resync" \/ (c.op = "list" /\ c.live)
                                   => Present(v) /\ Carries(c, v.user)
                              /\ c.op \in {"patch", "delete"} => Present(v)
    BY DEF CacheAgrees
  <2>1. ~Saw(w, {"refresh", "early", "profile", "resync", "patch", "delete"})
        /\ ~Saw(v, {"refresh", "early", "profile"})
    BY <1>2 DEF Saw
  <2>2. ASSUME NEW s \in Slots
        PROVE  LET c == v.calls[s]
               IN /\ c.op = "resync" \/ (c.op = "list" /\ c.live)
                       => Present(v) /\ Carries(c, v.user)
                  /\ c.op \in {"patch", "delete"} => Present(v)
    <3>1. CASE s = r
      BY <3>1, <2>1, <1>a, <1>d DEF d, Present, SameMember
    <3>2. CASE s # r
      BY <3>2, <2>1, <1>b DEF SessionInv, CacheAgrees, Present, SameMember
    <3> QED
      BY <3>1, <3>2
  <2> QED
    BY <2>1, <2>2 DEF SessionInv, CacheAgrees, Present, SameMember
<1>6. Verdicts(v, over)
  <2>1. ASSUME NEW s \in Slots
        PROVE  Verdict(v.calls[s], v, over)
    <3>1. CASE s = r
      BY <3>1, <1>a DEF d, Verdict
    <3>2. CASE s # r
      BY <3>2 DEF SessionInv, Verdicts, Verdict
    <3> QED
      BY <3>1, <3>2
  <2> QED
    BY <2>1 DEF SessionInv, Verdicts, Verdict, SameTokens
<1>7. Survivors(v, over)
  <2>1. \A s \in Slots : v.calls[s].op = "signin" => v.calls[s] = w.calls[s]
    BY <1>a, <1>b DEF d
  <2> QED
    BY <2>1, <1>2 DEF SessionInv, Survivors, Present, SameTokens, SameMember
<1> QED
  BY <1>1, <1>3, <1>4, <1>5, <1>6, <1>7 DEF SessionInv

Vacant(w) == \E s \in Slots : w.calls[s].op = "none"

\* The board mounts.
LEMMA EnterKeeps ==
  ASSUME NEW w, NEW over, SessionInv(w, over), NEW key \in Keys, Present(w), Vacant(w)
  PROVE  SessionInv(EnterBoard(w, key), over)
<1> DEFINE v == EnterBoard(w, key)
           call == [Request("list") EXCEPT !.key = key]
<1>1. w \in Tab
  BY DEF SessionInv, Typed
<1>2. /\ call \in Call /\ call.op = "list" /\ ~call.again
  BY RequestTyped DEF Ops, Call
<1>3. /\ v \in Tab
      /\ SameTokens(v, w) /\ SameMember(v, w)
      /\ v.submitting = w.submitting
      /\ v.lists = w.lists
      /\ Issued(v, w, call)
      /\ v.mishaps = IF Writing(w) THEN w.mishaps \cup {"raced"} ELSE w.mishaps
  BY <1>1, EnterBoardShape DEF Vacant
<1> HIDE DEF v, call
<1>4. SessionInv(v, over)
  BY <1>2, <1>3, IssueKeeps DEF Present
<1> QED
  BY <1>4 DEF v

\* An optimistic change of the list of the member on screen, or an answer to them.
LEMMA CacheKeeps ==
  ASSUME NEW w, NEW v, NEW over, SessionInv(w, over), v \in Tab,
         SameTokens(v, w), SameMember(v, w), v.submitting = w.submitting,
         v.calls = w.calls, w.mishaps \subseteq v.mishaps,
         ~Saw(v, {"refresh", "early", "profile", "resync", "patch", "delete"}) =>
           \A k \in Keys : v.lists[k] # None =>
             \/ Present(w) /\ v.lists[k].of = w.user
             \/ w.lists[k] # None /\ v.lists[k].of = w.lists[k].of
  PROVE  SessionInv(v, over)
<1> DEFINE x == [w EXCEPT !.mishaps = v.mishaps]
<1>1. /\ x \in Tab /\ SameTokens(x, w) /\ SameMember(x, w) /\ x.submitting = w.submitting
      /\ x.calls = w.calls /\ x.lists = w.lists /\ x.mishaps = v.mishaps
  BY DEF SessionInv, Typed, Tab, SameTokens, SameMember
<1> HIDE DEF x
<1>2. SessionInv(x, over)
  BY <1>1, PageKeeps
<1>3. /\ v.calls = x.calls /\ v.mishaps = x.mishaps /\ SameTokens(v, x) /\ SameMember(v, x)
      /\ v.submitting = x.submitting
  BY <1>1 DEF SameTokens, SameMember
<1>4. CacheAgrees(v)
  <2> SUFFICES ASSUME ~Saw(v, {"refresh", "early", "profile", "resync", "patch", "delete"})
               PROVE  /\ \A k \in Keys : v.lists[k] # None => Present(v) /\ v.lists[k].of = v.user
                      /\ \A s \in Slots :
                           LET c == v.calls[s]
                           IN /\ c.op = "resync" \/ (c.op = "list" /\ c.live)
                                   => Present(v) /\ Carries(c, v.user)
                              /\ c.op \in {"patch", "delete"} => Present(v)
    BY DEF CacheAgrees
  <2>1. ~Saw(x, {"refresh", "early", "profile", "resync", "patch", "delete"})
    BY <1>1 DEF Saw
  <2>2. /\ \A k \in Keys : w.lists[k] # None => Present(w) /\ w.lists[k].of = w.user
        /\ \A s \in Slots :
             LET c == v.calls[s]
             IN /\ c.op = "resync" \/ (c.op = "list" /\ c.live)
                     => Present(x) /\ Carries(c, x.user)
                /\ c.op \in {"patch", "delete"} => Present(x)
    BY <1>1, <1>2, <1>3, <2>1 DEF SessionInv, CacheAgrees, Present, SameMember
  <2> QED
    BY <1>3, <2>2 DEF Present, SameMember
<1>5. Typed(v) /\ Verdicts(v, over)
  BY <1>2, <1>3 DEF SessionInv, Typed, Verdicts, Verdict, SameTokens
<1>7. MemberAgrees(v)
  BY <1>2, <1>3 DEF SessionInv, MemberAgrees, Saw, SameTokens, SameMember, Present
<1>8. Survivors(v, over)
  BY <1>2, <1>3 DEF SessionInv, Survivors, Saw, SameTokens, SameMember, Present
<1>6. TokensAgree(v)
  <2>1. TokensPaired(x) => TokensPaired(v)
    BY <1>3 DEF TokensPaired, SameTokens
  <2>2. OneSignIn(x) => OneSignIn(v)
    BY <1>3 DEF OneSignIn, SameTokens, SameMember, Entering
  <2>3. NobodyYet(x) => NobodyYet(v)
    BY <1>3 DEF NobodyYet, SameTokens, SameMember, InFlight
  <2> QED
    BY <1>2, <1>3, <2>1, <2>2, <2>3 DEF SessionInv, TokensAgree, Saw
<1> QED
  BY <1>4, <1>5, <1>6, <1>7, <1>8 DEF SessionInv

\* A refresh that the server answers, or that gets lost.
LEMMA RefreshingKeeps ==
  ASSUME NEW w, NEW v, NEW over, SessionInv(w, over), v \in Tab,
         v.access = w.access, v.refresh = w.refresh, SameMember(v, w),
         v.submitting = w.submitting, v.calls = w.calls, v.lists = w.lists,
         w.mishaps \subseteq v.mishaps, w.refreshing.at # "idle",
         v.refreshing.who = w.refreshing.who,
         v.refreshing.at = "bad" => "refresh lost" \in v.mishaps \/ v.refreshing.who \in over
  PROVE  SessionInv(v, over)
<1>1. Typed(v)
  BY DEF SessionInv, Typed
<1>2. \A ms : Saw(w, ms) => Saw(v, ms)
  BY DEF Saw
<1>3. TokensAgree(v)
  <2>1. TokensPaired(w) => TokensPaired(v)
    BY DEF TokensPaired
  <2>2. OneSignIn(w) => OneSignIn(v)
    BY DEF OneSignIn, SameMember, Entering
  <2>3. NobodyYet(w) => NobodyYet(v)
    BY DEF NobodyYet, SameMember, InFlight
  <2> QED
    BY <1>2, <2>1, <2>2, <2>3 DEF SessionInv, TokensAgree
<1>4. MemberAgrees(v)
  BY <1>2 DEF SessionInv, MemberAgrees, Present, SameMember
<1>5. CacheAgrees(v)
  BY <1>2 DEF SessionInv, CacheAgrees, Present, SameMember
<1>6. Verdicts(v, over)
  BY DEF SessionInv, Verdicts, Verdict
<1>7. Survivors(v, over)
  BY <1>2 DEF SessionInv, Survivors, Present, SameMember
<1> QED
  BY <1>1, <1>3, <1>4, <1>5, <1>6, <1>7 DEF SessionInv

\* Another account is disabled.
LEMMA DisabledKeeps ==
  ASSUME NEW w, NEW over, NEW more, SessionInv(w, over), over \subseteq more
  PROVE  SessionInv(w, more)
<1>1. Verdicts(w, more)
  BY DEF SessionInv, Verdicts, Verdict
<1>2. Survivors(w, more)
  BY DEF SessionInv, Survivors
<1> QED
  BY <1>1, <1>2 DEF SessionInv

\* The tokens issued so far expire.
LEMMA ExpiryKeeps ==
  ASSUME NEW w, NEW v, NEW over, SessionInv(w, over), v \in Tab,
         v.access = Aged(w.access), v.refresh = w.refresh, v.refreshing = w.refreshing,
         SameMember(v, w), v.submitting = w.submitting, v.lists = w.lists,
         w.mishaps \subseteq v.mishaps,
         \A s \in Slots : v.calls[s] = AgedCall(w.calls[s]),
         \A s \in Slots : w.calls[s].again /\ w.calls[s].at = "sent" => "slow" \in v.mishaps
  PROVE  SessionInv(v, over)
<1>0. \A s \in Slots : w.calls[s] \in Call
  BY DEF SessionInv, Typed, Tab
<1>a. \A t \in Token \cup {None} : /\ Aged(t) # None <=> t # None
                                   /\ t # None => Aged(t).who = t.who
  BY SessionAssumption DEF Aged, Token
<1>b. ASSUME NEW s \in Slots
      PROVE  /\ v.calls[s].op = w.calls[s].op /\ v.calls[s].at = w.calls[s].at
             /\ v.calls[s].live = w.calls[s].live /\ v.calls[s].again = w.calls[s].again
             /\ v.calls[s].who = w.calls[s].who /\ v.calls[s].ids = w.calls[s].ids
             /\ v.calls[s].rows = w.calls[s].rows
             /\ v.calls[s].token # None <=> w.calls[s].token # None
             /\ w.calls[s].token # None => v.calls[s].token.who = w.calls[s].token.who
  <2> DEFINE c == w.calls[s]
             d == v.calls[s]
             t == Aged(c.token)
  <2>1. c \in Call /\ d = [c EXCEPT !.token = t]
    BY <1>0 DEF AgedCall
  <2>2. (t # None <=> c.token # None) /\ (c.token # None => t.who = c.token.who)
    BY <1>0, <1>a DEF Call
  <2> SUFFICES /\ d.op = c.op /\ d.at = c.at /\ d.live = c.live /\ d.again = c.again
               /\ d.who = c.who /\ d.ids = c.ids /\ d.rows = c.rows
               /\ d.token # None <=> c.token # None
               /\ c.token # None => d.token.who = c.token.who
    OBVIOUS
  <2> HIDE DEF c, d, t
  <2> QED
    BY <2>1, <2>2 DEF Call
<1>1. Typed(v)
  BY <1>b DEF SessionInv, Typed, CallTyped
<1>2. \A ms : Saw(w, ms) => Saw(v, ms)
  BY DEF Saw
<1>c. /\ w.access \in Token \cup {None}
      /\ v.access # None <=> w.access # None
      /\ w.access # None => v.access.who = w.access.who
  BY <1>a DEF SessionInv, Typed, Tab
<1>d. \A s \in Slots, u \in Members \cup {None} : Carries(w.calls[s], u) => Carries(v.calls[s], u)
  BY <1>b DEF Carries
<1>e. w.refresh \in Members \cup {None} /\ w.user \in Members \cup {None}
  BY DEF SessionInv, Typed, Tab
<1>3. TokensAgree(v)
  <2>1. TokensPaired(w) => TokensPaired(v)
    BY <1>b, <1>c DEF TokensPaired
  <2>2. OneSignIn(w) => OneSignIn(v)
    BY <1>b, <1>d, <1>e DEF OneSignIn, SameMember, Entering
  <2>3. InFlight(v, {"signin"}) <=> InFlight(w, {"signin"})
    BY <1>b DEF InFlight
  <2>4. NobodyYet(w) => NobodyYet(v)
    BY <1>b, <1>d, <1>e, <2>3 DEF NobodyYet, SameMember
  <2> QED
    BY <1>2, <2>1, <2>2, <2>4 DEF SessionInv, TokensAgree
<1>4. MemberAgrees(v)
  BY <1>2, <1>b, <1>d, <1>e DEF SessionInv, MemberAgrees, Present, SameMember
<1>5. CacheAgrees(v)
  BY <1>2, <1>b, <1>d, <1>e DEF SessionInv, CacheAgrees, Present, SameMember
<1>6. Verdicts(v, over)
  <2>1. ASSUME NEW s \in Slots
        PROVE  Verdict(v.calls[s], v, over)
    BY <1>b DEF SessionInv, Verdicts, Verdict
  <2> QED
    BY <2>1 DEF SessionInv, Verdicts
<1>7. Survivors(v, over)
  <2> SUFFICES ASSUME ~Saw(v, {"refresh lost", "refresh", "profile", "early", "former", "slow", "stuck"})
               PROVE  /\ Present(v) /\ v.refresh = None => v.user \in over
                      /\ \A s \in Slots : v.calls[s].op = "signin" /\ v.refresh = None =>
                           /\ v.calls[s].token.who \in over
                           /\ v.calls[s].at = "ok" => v.calls[s].who \in over
    BY DEF Survivors
  <2>1. ~Saw(w, {"refresh lost", "refresh", "profile", "early", "former", "slow", "stuck"})
        /\ ~Saw(w, {"refresh", "early"})
    BY <1>2 DEF Saw
  <2>2. \A s \in Slots : w.calls[s].op = "signin" => w.calls[s].token # None
    BY <2>1 DEF SessionInv, TokensAgree, OneSignIn
  <2> QED
    BY <2>1, <2>2, <1>b DEF SessionInv, Survivors, Present, SameMember
<1> QED
  BY <1>1, <1>3, <1>4, <1>5, <1>6, <1>7 DEF SessionInv

\* A call that is to wait for the refresh, in flight already or started for it.
LEMMA WaitKeeps ==
  ASSUME NEW w, NEW v, NEW over, SessionInv(w, over), v \in Tab,
         v.access = w.access, v.refresh = w.refresh, SameMember(v, w),
         v.submitting = w.submitting, v.lists = w.lists, v.mishaps = w.mishaps,
         NEW r \in Slots, w.calls[r].at = "denied",
         v.calls[r] = [w.calls[r] EXCEPT !.at = "waiting"],
         \A s \in Slots \ {r} : v.calls[s] = w.calls[s],
         \/ w.refreshing.at # "idle" /\ v.refreshing = w.refreshing
         \/ w.refresh # None /\ v.refreshing = [at |-> "sent", who |-> w.refresh]
  PROVE  SessionInv(v, over)
<1>0. w \in Tab /\ w.calls[r] \in Call /\ w.refresh \in Members \cup {None}
  BY DEF SessionInv, Typed, Tab
<1>a. ASSUME NEW s \in Slots
      PROVE  /\ v.calls[s].op = w.calls[s].op
             /\ v.calls[s].token = w.calls[s].token /\ v.calls[s].again = w.calls[s].again
             /\ v.calls[s].live = w.calls[s].live
             /\ v.calls[s].who = w.calls[s].who /\ v.calls[s].ids = w.calls[s].ids
             /\ v.calls[s].rows = w.calls[s].rows
             /\ v.calls[s].at = w.calls[s].at \/ v.calls[s].at = "waiting"
  <2>1. CASE s = r
    <3> DEFINE c == w.calls[r]
               d == v.calls[r]
    <3>1. c \in Call /\ d = [c EXCEPT !.at = "waiting"]
      BY <1>0
    <3> SUFFICES /\ d.op = c.op /\ d.token = c.token /\ d.again = c.again /\ d.live = c.live
                 /\ d.who = c.who /\ d.ids = c.ids /\ d.rows = c.rows /\ d.at = "waiting"
      BY <2>1
    <3> HIDE DEF c, d
    <3> QED
      BY <3>1 DEF Call
  <2>2. CASE s # r
    BY <2>2
  <2> QED
    BY <2>1, <2>2
<1>b. v.calls[r].at = "waiting" /\ w.calls[r].op \notin {"login", "none"}
  BY <1>0 DEF Call, SessionInv, Typed, CallTyped
<1>c. /\ v.refreshing.at # "idle" /\ v.refreshing.who \in Members
      /\ v.refreshing.at = "bad" => v.refreshing = w.refreshing
      /\ v.refreshing.who = w.refresh \/ (v.refreshing = w.refreshing /\ w.refreshing.at # "idle")
  <2>1. CASE w.refreshing.at # "idle" /\ v.refreshing = w.refreshing
    BY <2>1 DEF SessionInv, Typed
  <2>2. CASE w.refresh # None /\ v.refreshing = [at |-> "sent", who |-> w.refresh]
    BY <2>2, <1>0
  <2> QED
    BY <2>1, <2>2
<1>1. Typed(v)
  <2>1. ASSUME NEW s \in Slots
        PROVE  CallTyped(v.calls[s])
    <3>1. CASE s = r
      BY <3>1, <1>a, <1>b DEF SessionInv, Typed, CallTyped
    <3>2. CASE s # r
      BY <3>2 DEF SessionInv, Typed
    <3> QED
      BY <3>1, <3>2
  <2> QED
    BY <2>1, <1>c DEF Typed
<1>d. \A s \in Slots : \A u : Carries(w.calls[s], u) => Carries(v.calls[s], u)
  BY <1>a DEF Carries
<1>3. TokensAgree(v)
  <2>1. TokensPaired(w) => TokensPaired(v)
    BY <1>b, <1>c DEF TokensPaired
  <2>2. OneSignIn(w) => OneSignIn(v)
    BY <1>a, <1>d DEF OneSignIn, SameMember, Entering
  <2>3. InFlight(v, {"signin"}) <=> InFlight(w, {"signin"})
    BY <1>a DEF InFlight
  <2>4. NobodyYet(w) => NobodyYet(v)
    BY <1>a, <1>d, <2>3 DEF NobodyYet, SameMember
  <2> QED
    BY <2>1, <2>2, <2>4 DEF SessionInv, TokensAgree, Saw
<1>4. MemberAgrees(v)
  BY <1>a, <1>d DEF SessionInv, MemberAgrees, Present, SameMember, Saw
<1>5. CacheAgrees(v)
  BY <1>a, <1>d DEF SessionInv, CacheAgrees, Present, SameMember, Saw
<1>6. Verdicts(v, over)
  <2>1. ASSUME NEW s \in Slots
        PROVE  Verdict(v.calls[s], v, over)
    <3>1. Verdict(w.calls[s], w, over)
      BY DEF SessionInv, Verdicts
    <3> QED
      BY <3>1, <1>a DEF Verdict
  <2> QED
    BY <2>1, <1>c DEF SessionInv, Verdicts
<1>7. Survivors(v, over)
  <2>1. ASSUME NEW s \in Slots, v.calls[s].op = "signin", v.calls[s].at = "ok"
        PROVE  w.calls[s].at = "ok"
    BY <2>1, <1>a
  <2>2. \A ms : Saw(v, ms) <=> Saw(w, ms)
    BY DEF Saw
  <2>3. ASSUME ~Saw(v, {"refresh lost", "refresh", "profile", "early", "former", "slow", "stuck"}),
               NEW s \in Slots, v.calls[s].op = "signin", v.refresh = None
        PROVE  /\ v.calls[s].token.who \in over
               /\ v.calls[s].at = "ok" => v.calls[s].who \in over
    <3>1. /\ w.calls[s].token.who \in over
          /\ w.calls[s].at = "ok" => w.calls[s].who \in over
      BY <2>2, <2>3, <1>a DEF SessionInv, Survivors
    <3> QED
      BY <3>1, <2>1, <2>3, <1>a
  <2>4. Survivors(w, over)
    BY DEF SessionInv
  <2> QED
    BY <2>2, <2>3, <2>4 DEF Survivors, Present, SameMember
<1> QED
  BY <1>1, <1>3, <1>4, <1>5, <1>6, <1>7 DEF SessionInv

\* The refresh brings a token: whoever waits for it sends again.
LEMMA RefreshedShape ==
  ASSUME NEW w \in Tab, w.refreshing.who \in Members
  PROVE  LET v == Refreshed(w, TRUE)
         IN /\ v \in Tab
            /\ v.access = [who |-> w.refreshing.who, old |-> FALSE] /\ v.refresh = w.refresh
            /\ v.refreshing.at = "idle"
            /\ SameMember(v, w) /\ SamePage(v, w)
            /\ \A s \in Slots : v.calls[s] =
                 IF w.calls[s].at = "waiting"
                 THEN [w.calls[s] EXCEPT !.at = "sent", !.again = TRUE,
                                         !.token = [who |-> w.refreshing.who, old |-> FALSE]]
                 ELSE w.calls[s]
            /\ v.lists = w.lists /\ v.mishaps = w.mishaps
<1> DEFINE t == [who |-> w.refreshing.who, old |-> FALSE]
           d(c) == [c EXCEPT !.at = "sent", !.again = TRUE, !.token = t]
           cs == [s \in Slots |-> IF w.calls[s].at = "waiting" THEN d(w.calls[s]) ELSE w.calls[s]]
           r == [at |-> "idle", who |-> None]
           v == [[[w EXCEPT !.refreshing = r] EXCEPT !.access = t] EXCEPT !.calls = cs]
<1>1. t \in Token /\ r \in Refreshing
  BY DEF Token, Refreshing
<1>2. \A c \in Call : d(c) \in Call
  <2> HIDE DEF t
  <2> QED
    BY <1>1 DEF Call, At
<1>3. cs \in [Slots -> Call]
  <2> HIDE DEF d
  <2> QED
    BY <1>2 DEF Tab
<1>4. Refreshed(w, TRUE) = v
  BY DEF Refreshed, SetAccess
<1>5. \A s \in Slots : cs[s] = IF w.calls[s].at = "waiting" THEN d(w.calls[s]) ELSE w.calls[s]
  OBVIOUS
<1>6. r.at = "idle"
  OBVIOUS
<1> HIDE DEF t, d, cs, r
<1>7. /\ v \in Tab /\ v.access = t /\ v.refresh = w.refresh /\ v.refreshing = r
      /\ SameMember(v, w) /\ SamePage(v, w) /\ v.calls = cs
      /\ v.lists = w.lists /\ v.mishaps = w.mishaps
  BY <1>1, <1>3 DEF Tab, SameMember, SamePage
<1> HIDE DEF v
<1> QED
  BY <1>4, <1>5, <1>6, <1>7 DEF t, d

\* The waiting calls go on with fresh tokens.
LEMMA RefreshedKeeps ==
  ASSUME NEW w, NEW over, SessionInv(w, over), w.refreshing.at # "idle"
  PROVE  SessionInv(Refreshed(w, TRUE), over)
<1> DEFINE v == Refreshed(w, TRUE)
           u == w.refreshing.who
           t == [who |-> u, old |-> FALSE]
<1>0. w \in Tab /\ u \in Members /\ \A s \in Slots : w.calls[s] \in Call
  BY DEF SessionInv, Typed, Tab
<1>1. /\ v \in Tab
      /\ v.access = t /\ v.refresh = w.refresh
      /\ v.refreshing.at = "idle"
      /\ SameMember(v, w) /\ SamePage(v, w)
      /\ \A s \in Slots : v.calls[s] =
           IF w.calls[s].at = "waiting"
           THEN [w.calls[s] EXCEPT !.at = "sent", !.again = TRUE, !.token = t]
           ELSE w.calls[s]
      /\ v.lists = w.lists /\ v.mishaps = w.mishaps
  BY <1>0, RefreshedShape
<1> HIDE DEF v
<1>2. t \in Token /\ t # None /\ t.who = u /\ ~t.old /\ u # None
  <2>1. t \in Token
    BY <1>0 DEF Token
  <2>2. u # None /\ t # None
    BY <1>0, <2>1, SessionAssumption
  <2> QED
    BY <2>1, <2>2
<1> HIDE DEF t
<1>c. /\ v.access = t /\ v.refresh = w.refresh /\ v.refreshing.at = "idle"
      /\ v.status = w.status /\ v.user = w.user /\ v.submitting = w.submitting
      /\ v.lists = w.lists /\ v.mishaps = w.mishaps
  BY <1>1 DEF SameMember, SamePage
<1>a. ASSUME NEW s \in Slots
      PROVE  /\ v.calls[s].op = w.calls[s].op
             /\ v.calls[s].live = w.calls[s].live
             /\ v.calls[s].who = w.calls[s].who /\ v.calls[s].ids = w.calls[s].ids
             /\ v.calls[s].rows = w.calls[s].rows
             /\ \/ v.calls[s] = w.calls[s]
                \/ /\ v.calls[s].at = "sent" /\ v.calls[s].token = t /\ w.calls[s].at = "waiting"
  <2> DEFINE c == w.calls[s]
             d == v.calls[s]
  <2>1. c \in Call /\ d = IF c.at = "waiting" THEN [c EXCEPT !.at = "sent", !.again = TRUE, !.token = t]
                          ELSE c
    BY <1>0, <1>1
  <2> SUFFICES /\ d.op = c.op /\ d.live = c.live
               /\ d.who = c.who /\ d.ids = c.ids /\ d.rows = c.rows
               /\ d = c \/ (d.at = "sent" /\ d.token = t /\ c.at = "waiting")
    OBVIOUS
  <2> HIDE DEF c, d
  <2> QED
    BY <2>1 DEF Call
<1>3. Typed(v)
  <2>1. ASSUME NEW s \in Slots
        PROVE  CallTyped(v.calls[s])
    BY <1>a DEF SessionInv, Typed, CallTyped
  <2> QED
    BY <2>1, <1>1 DEF Typed
<1>b. ASSUME NEW s \in Slots, Carries(w.calls[s], u)
      PROVE  Carries(v.calls[s], u)
  BY <1>a, <1>b, <1>2 DEF Carries
<1>4. ASSUME ~Saw(v, {"refresh", "early"})
      PROVE  TokensPaired(w) /\ OneSignIn(w) /\ NobodyYet(w) /\ w.refresh = u
  BY <1>1, <1>4 DEF SessionInv, TokensAgree, TokensPaired, Saw
<1>5. TokensAgree(v)
  <2> SUFFICES ASSUME ~Saw(v, {"refresh", "early"})
               PROVE  TokensPaired(v) /\ OneSignIn(v) /\ NobodyYet(v)
    BY DEF TokensAgree
  <2>1. TokensPaired(v)
    BY <1>1, <1>2, <1>4 DEF TokensPaired
  <2>2. OneSignIn(v)
    <3>1. ASSUME NEW s \in Slots, v.calls[s].op = "signin"
          PROVE  v.calls[s].token # None /\ Carries(v.calls[s], v.refresh)
      <4>1. w.calls[s].op = "signin" /\ w.calls[s].token # None /\ Carries(w.calls[s], u)
        BY <3>1, <1>2, <1>4, <1>a DEF OneSignIn
      <4>2. Carries(v.calls[s], u)
        BY <4>1, <1>b
      <4> QED
        BY <4>1, <4>2, <1>2, <1>4, <1>a, <1>c
    <3>2. \A s \in Slots : Entering(v, s) <=> Entering(w, s)
      BY <1>a DEF Entering
    <3> QED
      BY <3>1, <3>2, <1>c, <1>4 DEF OneSignIn
  <2>3. InFlight(v, {"signin"}) <=> InFlight(w, {"signin"})
    BY <1>a DEF InFlight
  <2>4. NobodyYet(v)
    <3>1. ASSUME NEW s \in Slots, v.calls[s].op = "hydrate" /\ v.calls[s].live
          PROVE  v.status = "loading" /\ Carries(v.calls[s], v.refresh)
      <4>1. w.status = "loading" /\ Carries(w.calls[s], u)
        BY <3>1, <1>4, <1>a DEF NobodyYet
      <4>2. Carries(v.calls[s], u)
        BY <4>1, <1>b
      <4> QED
        BY <4>1, <4>2, <1>4, <1>c
    <3>2. \A s \in Slots : v.calls[s].op = w.calls[s].op
      BY <1>a
    <3> QED
      BY <3>1, <3>2, <1>c, <1>4, <2>3 DEF NobodyYet
  <2> QED
    BY <2>1, <2>2, <2>4
<1>6. MemberAgrees(v)
  <2> SUFFICES ASSUME ~Saw(v, {"refresh", "early", "profile"})
               PROVE  /\ Present(v) /\ v.refresh # None => v.refresh = v.user
                      /\ \A s \in Slots : v.calls[s].op = "profile" =>
                           Present(v) /\ Carries(v.calls[s], v.user)
    BY DEF MemberAgrees
  <2>1. ~Saw(w, {"refresh", "early", "profile"}) /\ ~Saw(v, {"refresh", "early"})
    BY <1>1 DEF Saw
  <2>2. /\ Present(w) => w.user = u
        /\ \A s \in Slots : w.calls[s].op = "profile" => Present(w) /\ Carries(w.calls[s], w.user)
    BY <2>1, <1>2, <1>4 DEF SessionInv, MemberAgrees
  <2> QED
    BY <2>1, <2>2, <1>c, <1>4, <1>a, <1>b DEF Present
<1>7. CacheAgrees(v)
  <2> SUFFICES ASSUME ~Saw(v, {"refresh", "early", "profile", "resync", "patch", "delete"})
               PROVE  /\ \A k \in Keys : v.lists[k] # None => Present(v) /\ v.lists[k].of = v.user
                      /\ \A s \in Slots :
                           LET c == v.calls[s]
                           IN /\ c.op = "resync" \/ (c.op = "list" /\ c.live)
                                   => Present(v) /\ Carries(c, v.user)
                              /\ c.op \in {"patch", "delete"} => Present(v)
    BY DEF CacheAgrees
  <2>1. /\ ~Saw(w, {"refresh", "early", "profile"}) /\ ~Saw(v, {"refresh", "early"})
        /\ ~Saw(w, {"refresh", "early", "profile", "resync", "patch", "delete"})
    BY <1>1 DEF Saw
  <2>2. Present(w) => w.user = u
    BY <2>1, <1>2, <1>4 DEF SessionInv, MemberAgrees
  <2>3. ASSUME NEW s \in Slots
        PROVE  LET c == v.calls[s]
               IN /\ c.op = "resync" \/ (c.op = "list" /\ c.live)
                       => Present(v) /\ Carries(c, v.user)
                  /\ c.op \in {"patch", "delete"} => Present(v)
    <3> DEFINE c == w.calls[s]
    <3>1. /\ c.op = "resync" \/ (c.op = "list" /\ c.live) => Present(w) /\ Carries(c, w.user)
          /\ c.op \in {"patch", "delete"} => Present(w)
      BY <2>1 DEF SessionInv, CacheAgrees
    <3> QED
      BY <3>1, <2>2, <1>c, <1>a, <1>b DEF Present
  <2> QED
    BY <2>1, <2>3, <1>1 DEF SessionInv, CacheAgrees, Present, SameMember
<1>8. Verdicts(v, over)
  <2>1. ASSUME NEW s \in Slots
        PROVE  Verdict(v.calls[s], v, over)
    <3>1. Verdict(w.calls[s], w, over)
      BY DEF SessionInv, Verdicts
    <3>2. v.calls[s] = w.calls[s] \/ (v.calls[s].at = "sent" /\ v.calls[s].token = t)
      BY <1>a
    <3> QED
      BY <3>1, <3>2, <1>2, <1>c DEF Verdict
  <2> QED
    BY <2>1, <1>1 DEF Verdicts
<1>9. Survivors(v, over)
  <2> SUFFICES ASSUME ~Saw(v, {"refresh lost", "refresh", "profile", "early", "former", "slow", "stuck"})
               PROVE  v.refresh # None
    BY DEF Survivors
  <2>1. ~Saw(v, {"refresh", "early"})
    BY DEF Saw
  <2> QED
    BY <2>1, <1>1, <1>2, <1>4
<1> QED
  BY <1>3, <1>5, <1>6, <1>7, <1>8, <1>9 DEF SessionInv, v

\* A refresh that failed: everyone who waits for it fails, and the session is over.
GivenUp(w) ==
    [w EXCEPT !.refreshing = [at |-> "idle", who |-> None],
              !.calls = [s \in Slots |->
                 IF w.calls[s].at = "waiting" THEN [w.calls[s] EXCEPT !.at = "failed"]
                 ELSE w.calls[s]]]

\* A refresh that failed: the waiting calls fail, the session ends.
LEMMA GivenUpShape ==
  ASSUME NEW w \in Tab
  PROVE  LET v == GivenUp(w)
         IN /\ Refreshed(w, FALSE) = EndSession(v)
            /\ v \in Tab
            /\ v.access = w.access /\ v.refresh = w.refresh /\ v.refreshing.at = "idle"
            /\ SameMember(v, w) /\ SamePage(v, w)
            /\ \A s \in Slots : v.calls[s] =
                 IF w.calls[s].at = "waiting" THEN [w.calls[s] EXCEPT !.at = "failed"]
                 ELSE w.calls[s]
            /\ v.lists = w.lists /\ v.mishaps = w.mishaps
<1> DEFINE d(c) == [c EXCEPT !.at = "failed"]
           cs == [s \in Slots |-> IF w.calls[s].at = "waiting" THEN d(w.calls[s]) ELSE w.calls[s]]
           r == [at |-> "idle", who |-> None]
           v == [w EXCEPT !.refreshing = r, !.calls = cs]
<1>1. r \in Refreshing
  BY DEF Refreshing
<1>2. \A c \in Call : d(c) \in Call
  BY DEF Call, At
<1>3. cs \in [Slots -> Call]
  <2> HIDE DEF d
  <2> QED
    BY <1>2 DEF Tab
<1>4. Refreshed(w, FALSE) = EndSession(v) /\ GivenUp(w) = v
  BY DEF Refreshed, GivenUp
<1>5. \A s \in Slots : cs[s] = IF w.calls[s].at = "waiting" THEN d(w.calls[s]) ELSE w.calls[s]
  OBVIOUS
<1>6. r.at = "idle"
  OBVIOUS
<1> HIDE DEF d, cs, r
<1>7. /\ v \in Tab /\ v.access = w.access /\ v.refresh = w.refresh /\ v.refreshing = r
      /\ SameMember(v, w) /\ SamePage(v, w) /\ v.calls = cs
      /\ v.lists = w.lists /\ v.mishaps = w.mishaps
  BY <1>1, <1>3 DEF Tab, SameMember, SamePage
<1> HIDE DEF v
<1> QED
  BY <1>4, <1>5, <1>6, <1>7 DEF d

\* The first half of it keeps the session's invariant, ...
LEMMA GivenUpKeeps ==
  ASSUME NEW w, NEW over, SessionInv(w, over)
  PROVE  SessionInv(GivenUp(w), over)
<1> DEFINE v == GivenUp(w)
<1>0. w \in Tab /\ \A s \in Slots : w.calls[s] \in Call
  BY DEF SessionInv, Typed, Tab
<1>1. /\ v \in Tab
      /\ v.access = w.access /\ v.refresh = w.refresh /\ v.refreshing.at = "idle"
      /\ v.status = w.status /\ v.user = w.user /\ v.submitting = w.submitting
      /\ v.lists = w.lists /\ v.mishaps = w.mishaps
  BY <1>0, GivenUpShape DEF SameMember, SamePage
<1>a. ASSUME NEW s \in Slots
      PROVE  /\ v.calls[s].op = w.calls[s].op /\ v.calls[s].token = w.calls[s].token
             /\ v.calls[s].live = w.calls[s].live
             /\ v.calls[s].who = w.calls[s].who /\ v.calls[s].ids = w.calls[s].ids
             /\ v.calls[s].rows = w.calls[s].rows
             /\ v.calls[s] = w.calls[s] \/ (v.calls[s].at = "failed" /\ w.calls[s].at = "waiting")
  <2> DEFINE c == w.calls[s]
             d == v.calls[s]
  <2>1. c \in Call /\ d = IF c.at = "waiting" THEN [c EXCEPT !.at = "failed"] ELSE c
    BY <1>0, GivenUpShape
  <2> SUFFICES /\ d.op = c.op /\ d.token = c.token /\ d.live = c.live
               /\ d.who = c.who /\ d.ids = c.ids /\ d.rows = c.rows
               /\ d = c \/ (d.at = "failed" /\ c.at = "waiting")
    OBVIOUS
  <2> HIDE DEF c, d
  <2> QED
    BY <2>1 DEF Call
<1> HIDE DEF v
<1>2. \A ms : Saw(v, ms) <=> Saw(w, ms)
  BY <1>1 DEF Saw
<1>3. Typed(v)
  <2>1. ASSUME NEW s \in Slots
        PROVE  CallTyped(v.calls[s])
    BY <1>a DEF SessionInv, Typed, CallTyped
  <2> QED
    BY <2>1, <1>1 DEF Typed
<1>d. ASSUME NEW s \in Slots, NEW u, Carries(w.calls[s], u)
      PROVE  Carries(v.calls[s], u)
  BY <1>a, <1>d DEF Carries
<1>4. TokensAgree(v)
  <2>1. TokensPaired(w) => TokensPaired(v)
    BY <1>1 DEF TokensPaired
  <2>2. OneSignIn(w) => OneSignIn(v)
    BY <1>1, <1>a, <1>d DEF OneSignIn, Entering
  <2>3. InFlight(v, {"signin"}) <=> InFlight(w, {"signin"})
    BY <1>a DEF InFlight
  <2>4. NobodyYet(w) => NobodyYet(v)
    BY <1>1, <1>a, <1>d, <2>3 DEF NobodyYet
  <2> QED
    BY <1>2, <2>1, <2>2, <2>4 DEF SessionInv, TokensAgree
<1>5. MemberAgrees(v)
  BY <1>1, <1>2, <1>a, <1>d DEF SessionInv, MemberAgrees, Present
<1>6. CacheAgrees(v)
  BY <1>1, <1>2, <1>a, <1>d DEF SessionInv, CacheAgrees, Present
<1>7. Verdicts(v, over)
  <2>1. ASSUME NEW s \in Slots
        PROVE  Verdict(v.calls[s], v, over)
    <3>1. Verdict(w.calls[s], w, over)
      BY DEF SessionInv, Verdicts
    <3> QED
      BY <3>1, <1>1, <1>a DEF Verdict
  <2> QED
    BY <2>1, <1>1 DEF Verdicts
<1>8. Survivors(v, over)
  <2>1. ASSUME ~Saw(v, {"refresh lost", "refresh", "profile", "early", "former", "slow", "stuck"}),
               NEW s \in Slots, v.calls[s].op = "signin", v.refresh = None
        PROVE  /\ v.calls[s].token.who \in over
               /\ v.calls[s].at = "ok" => v.calls[s].who \in over
    <3>1. /\ w.calls[s].token.who \in over
          /\ w.calls[s].at = "ok" => w.calls[s].who \in over
      BY <2>1, <1>1, <1>2, <1>a DEF SessionInv, Survivors
    <3> QED
      BY <3>1, <2>1, <1>a
  <2>2. Survivors(w, over)
    BY DEF SessionInv
  <2> QED
    BY <2>1, <2>2, <1>1, <1>2 DEF Survivors, Present
<1> QED
  BY <1>3, <1>4, <1>5, <1>6, <1>7, <1>8 DEF SessionInv, v

\* The failed call that ends a session.
LEMMA FailKeeps ==
  ASSUME NEW w, NEW over, SessionInv(w, over),
         NEW s \in Slots, w.calls[s].at \in {"denied", "disabled"}
  PROVE  SessionInv(Fail(w, s), over)
<1> DEFINE v == Fail(w, s)
           c == w.calls[s]
           d == v.calls[s]
<1>0. w \in Tab /\ c \in Call /\ c.op # "none" /\ (c.op = "save" => c.ids # {})
  BY DEF SessionInv, Typed, CallTyped, Tab
<1>1. /\ v \in Tab
      /\ SameTokens(v, w) /\ SameMember(v, w) /\ SamePage(v, w)
      /\ d = [c EXCEPT !.at = "failed"]
      /\ \A t \in Slots \ {s} : v.calls[t] = w.calls[t]
      /\ v.lists = w.lists /\ v.mishaps = w.mishaps
  BY <1>0, FailShape
<1>2. Brings(d, c, over)
  <2>1. c.at \in {"denied", "disabled"}
    OBVIOUS
  <2> HIDE DEF c, d
  <2> QED
    BY <2>1, <1>0, <1>1 DEF Brings, Call
<1> HIDE DEF v
<1> QED
  BY <1>1, <1>2, ProgressKeeps DEF SamePage, v

\* A 401 that ends the session leaves of the tab what it fails and notes.
Yields(y, w, s) ==
    /\ y \in Tab
    /\ SameTokens(y, w) /\ SameMember(y, w) /\ SamePage(y, w)
    /\ y.calls = w.calls /\ y.lists = w.lists /\ w.mishaps \subseteq y.mishaps
    /\ y.mishaps \subseteq w.mishaps \cup {"stuck"}
    /\ w.refresh = None \/ w.calls[s].again \/ "stuck" \in y.mishaps

Ends(w, s) == w.calls[s].again \/ w.stuck \/ NoRefresh(w)

LEMMA DeniedShape ==
  ASSUME NEW w \in Tab, NEW s \in Slots, Ends(w, s)
  PROVE  \E y : Yields(y, w, s) /\ Unauthorized(w, s) = EndSession(Fail(y, s))
<1> DEFINE y == IF w.calls[s].again THEN w ELSE Stuck(w)
<1>1. Unauthorized(w, s) = EndSession(Fail(y, s))
  BY DEF Unauthorized, Ends
<1>2. CASE w.calls[s].again
  <2>1. Yields(w, w, s)
    BY <1>2 DEF Yields, SameTokens, SameMember, SamePage
  <2>2. y = w
    BY <1>2
  <2> HIDE DEF y
  <2> QED
    BY <1>1, <2>1, <2>2
<1>3. CASE ~w.calls[s].again
  <2>1. y = Stuck(w)
    BY <1>3
  <2> HIDE DEF y
  <2>2. /\ y \in Tab
        /\ SameTokens(y, w) /\ SameMember(y, w) /\ SamePage(y, w)
        /\ y.calls = w.calls /\ y.lists = w.lists
        /\ y.mishaps = IF w.refresh # None THEN w.mishaps \cup {"stuck"} ELSE w.mishaps
    BY <2>1, StuckShape
  <2>3. Yields(y, w, s)
    BY <2>2 DEF Yields
  <2> QED
    BY <1>1, <2>3
<1> QED
  BY <1>2, <1>3

\* 401: the call waits for a refresh, or the session is over.
LEMMA DeniedKeeps ==
  ASSUME NEW w, NEW over, SessionInv(w, over), NEW s \in Slots, w.calls[s].at = "denied"
  PROVE  SessionInv(Unauthorized(w, s), over)
<1>0. w \in Tab /\ w.calls[s] \in Call /\ w.refreshing \in Refreshing
  BY DEF SessionInv, Typed, Tab
<1>1. CASE Ends(w, s)
  <2>1. PICK y : Yields(y, w, s) /\ Unauthorized(w, s) = EndSession(Fail(y, s))
    BY <1>0, <1>1, DeniedShape
  <2>2. SessionInv(y, over)
    BY <2>1, PageKeeps DEF Yields, SamePage
  <2> DEFINE x == Fail(y, s)
             v == EndSession(x)
  <2>3. y.calls[s].at = "denied"
    BY <2>1 DEF Yields
  <2>4. SessionInv(x, over)
    BY <2>2, <2>3, FailKeeps
  <2>5. x \in Tab /\ SameTokens(x, y) /\ x.mishaps = y.mishaps
    BY <2>1, FailShape DEF Yields
  <2> HIDE DEF x
  <2>6. EndedBy(v, x)
    BY <2>5, EndSessionShape
  <2> HIDE DEF v
  <2>7. y.mishaps \subseteq v.mishaps
    BY <2>5, <2>6 DEF EndedBy, LeftBy
  <2>8. w.calls[s].again => "slow" \in w.mishaps
    BY DEF SessionInv, Verdicts, Verdict
  <2>9. x.refresh # None => "slow" \in v.mishaps \/ "stuck" \in v.mishaps
    BY <2>1, <2>5, <2>7, <2>8 DEF Yields, SameTokens
  <2>10. SessionInv(v, over)
    BY <2>4, <2>6, <2>9, EndKeeps DEF Saw
  <2> QED
    BY <2>1, <2>10 DEF v, x
<1>2. CASE ~Ends(w, s)
  <2> DEFINE d == [w.calls[s] EXCEPT !.at = "waiting"]
             r == IF w.refreshing.at # "idle" THEN w.refreshing ELSE [at |-> "sent", who |-> w.refresh]
             v == [[w EXCEPT !.calls[s] = d] EXCEPT !.refreshing = r]
  <2>1. d \in Call /\ r \in Refreshing
    BY <1>0 DEF Call, At, Refreshing, Tab
  <2>2. Unauthorized(w, s) = v
    BY <1>0, <1>2 DEF Unauthorized, Ends, NoRefresh, Tab
  <2>3. \/ w.refreshing.at # "idle" /\ r = w.refreshing
        \/ w.refresh # None /\ r = [at |-> "sent", who |-> w.refresh]
    BY <1>2 DEF Ends, NoRefresh
  <2> HIDE DEF d, r
  <2>4. /\ v \in Tab /\ v.refreshing = r /\ v.access = w.access /\ v.refresh = w.refresh
        /\ SameMember(v, w) /\ v.submitting = w.submitting /\ v.lists = w.lists
        /\ v.mishaps = w.mishaps /\ v.calls[s] = d /\ \A t \in Slots \ {s} : v.calls[t] = w.calls[t]
    BY <1>0, <2>1 DEF Tab, SameMember
  <2> HIDE DEF v
  <2>5. v.calls[s] = [w.calls[s] EXCEPT !.at = "waiting"]
    BY <2>4 DEF d
  <2>7. \/ w.refreshing.at # "idle" /\ v.refreshing = w.refreshing
        \/ w.refresh # None /\ v.refreshing = [at |-> "sent", who |-> w.refresh]
    BY <2>3, <2>4
  <2>8. /\ v.access = w.access /\ v.refresh = w.refresh /\ SameMember(v, w) /\ v \in Tab
        /\ v.submitting = w.submitting /\ v.lists = w.lists /\ v.mishaps = w.mishaps
        /\ \A t \in Slots \ {s} : v.calls[t] = w.calls[t]
    BY <2>4
  <2>6. SessionInv(v, over)
    BY <2>5, <2>7, <2>8, WaitKeeps
  <2> QED
    BY <2>2, <2>6
<1> QED
  BY <1>1, <1>2

\* ... and so does the whole.
LEMMA RefreshFailedKeeps ==
  ASSUME NEW w, NEW over, SessionInv(w, over), w.refreshing.at = "bad"
  PROVE  SessionInv(Refreshed(w, FALSE), over)
<1> DEFINE x == GivenUp(w)
           v == EndSession(x)
<1>0. w \in Tab
  BY DEF SessionInv, Typed
<1>1. SessionInv(x, over)
  BY GivenUpKeeps
<1>2. /\ Refreshed(w, FALSE) = v /\ x \in Tab /\ x.refresh = w.refresh /\ x.mishaps = w.mishaps
  BY <1>0, GivenUpShape
<1> HIDE DEF x
<1>3. EndedBy(v, x)
  BY <1>2, EndSessionShape
<1> HIDE DEF v
<1>4. w.mishaps \subseteq v.mishaps
  BY <1>2, <1>3 DEF EndedBy, LeftBy
<1>5. ASSUME ~Saw(v, {"refresh lost", "refresh", "profile", "early", "former", "slow", "stuck"})
      PROVE  w.refresh \in over
  <2>1. ~Saw(w, {"refresh", "early"}) /\ "refresh lost" \notin w.mishaps
    BY <1>4, <1>5 DEF Saw
  <2> QED
    BY <2>1 DEF SessionInv, TokensAgree, TokensPaired, Verdicts
<1> QED
  BY <1>1, <1>2, <1>3, <1>5, EndKeeps

\* 403 of a disabled account, which ends whatever session there is.
LEMMA AccountDisabledKeeps ==
  ASSUME NEW w, NEW over, SessionInv(w, over), NEW s \in Slots, w.calls[s].at = "disabled"
  PROVE  SessionInv(EndSession(Fail(Noting(w, "former", w.calls[s].token.who # w.refresh), s)), over)
<1> DEFINE cond == w.calls[s].token.who # w.refresh
           y == Noting(w, "former", cond)
           x == Fail(y, s)
           v == EndSession(x)
<1>0. w \in Tab /\ "former" \in Mishaps /\ cond \in BOOLEAN
  BY DEF SessionInv, Typed, Mishaps
<1>c. cond <=> w.calls[s].token.who # w.refresh
  OBVIOUS
<1> HIDE DEF cond
<1>1. /\ y \in Tab /\ SameTokens(y, w) /\ SameMember(y, w) /\ SamePage(y, w)
      /\ y.calls = w.calls /\ y.lists = w.lists
      /\ y.mishaps = IF cond THEN w.mishaps \cup {"former"} ELSE w.mishaps
  BY <1>0, NotingShape
<1> HIDE DEF y
<1>2. SessionInv(y, over)
  BY <1>1, PageKeeps DEF SamePage
<1>3. SessionInv(x, over)
  BY <1>1, <1>2, FailKeeps
<1>4. x \in Tab /\ SameTokens(x, y) /\ x.mishaps = y.mishaps
  BY <1>1, FailShape
<1> HIDE DEF x
<1>5. EndedBy(v, x)
  BY <1>4, EndSessionShape
<1> HIDE DEF v
<1>6. y.mishaps \subseteq v.mishaps
  BY <1>4, <1>5 DEF EndedBy, LeftBy
<1>7. ASSUME ~Saw(v, {"refresh lost", "refresh", "profile", "early", "former", "slow", "stuck"})
      PROVE  x.refresh \in over
  <2>1. ~cond
    BY <1>1, <1>6, <1>7 DEF Saw
  <2>2. w.calls[s].token.who \in over
    BY DEF SessionInv, Verdicts, Verdict
  <2> QED
    BY <2>1, <2>2, <1>1, <1>4, <1>c DEF SameTokens
<1>8. SessionInv(v, over)
  BY <1>3, <1>5, <1>7, EndKeeps
<1> QED
  BY <1>8 DEF v, x, y, cond

(***************************************************************************)
(* The sign-in page: credentials, tokens, and the member they belong to.   *)
(***************************************************************************)

\* The form is submitted: one at a time, and early unless nobody is there.
LEMMA SubmitKeeps ==
  ASSUME NEW w, NEW v, NEW over, SessionInv(w, over), v \in Tab,
         SameTokens(v, w), SameMember(v, w), ~w.submitting, v.submitting,
         v.lists = w.lists, w.mishaps \subseteq v.mishaps,
         w.status # "anonymous" => "early" \in v.mishaps,
         NEW call \in Call, call.op = "login", call.who \in Members, ~call.again,
         Issued(v, w, call)
  PROVE  SessionInv(v, over)
<1> PICK r \in Slots : /\ w.calls[r].op = "none" /\ v.calls[r] = AsSent(w, call)
                       /\ \A t \in Slots \ {r} : v.calls[t] = w.calls[t]
  BY DEF Issued
<1> DEFINE d == v.calls[r]
<1>a. /\ d.op = "login" /\ d.at = "sent" /\ ~d.again /\ d.who \in Members
  BY DEF AsSent, Call
<1>b. /\ w \in Tab /\ w.calls[r].at = "idle" /\ w.calls[r].op = "none"
      /\ \A s \in Slots : s # r => v.calls[s] = w.calls[s]
  BY DEF SessionInv, Typed, CallTyped
<1> HIDE DEF d
<1>1. Typed(v)
  <2>1. ASSUME NEW s \in Slots
        PROVE  CallTyped(v.calls[s])
    <3>1. CASE s = r
      BY <3>1, <1>a DEF d, CallTyped
    <3>2. CASE s # r
      BY <3>2 DEF SessionInv, Typed
    <3> QED
      BY <3>1, <3>2
  <2> QED
    BY <2>1 DEF SessionInv, Typed, SameTokens
<1>2. \A ms : Saw(w, ms) => Saw(v, ms)
  BY DEF Saw
<1>c. \A s \in Slots : v.calls[s].op \notin {"login"} => v.calls[s] = w.calls[s]
  BY <1>a, <1>b DEF d
<1>3. TokensAgree(v)
  <2> SUFFICES ASSUME ~Saw(v, {"refresh", "early"})
               PROVE  TokensPaired(v) /\ OneSignIn(v) /\ NobodyYet(v)
    BY DEF TokensAgree
  <2>0. /\ TokensPaired(w) /\ OneSignIn(w) /\ NobodyYet(w) /\ w.status = "anonymous"
    BY <1>2 DEF SessionInv, TokensAgree, Saw
  <2>1. TokensPaired(v)
    BY <1>b, <2>0 DEF TokensPaired, SameTokens
  <2>2. \A s \in Slots : ~Entering(w, s)
    BY <2>0 DEF OneSignIn
  <2>3. \A s \in Slots : Entering(v, s) => s = r
    BY <2>2, <1>b DEF Entering
  <2>4. OneSignIn(v)
    <3>1. \A s \in Slots : v.calls[s].op # "signin"
      BY <2>3, <1>a DEF d, Entering
    <3> QED
      BY <2>0, <2>3, <3>1 DEF OneSignIn, SameMember
  <2>5. NobodyYet(v)
    <3>1. ~InFlight(w, {"signin"})
      BY <2>2 DEF InFlight, Entering
    <3>2. \A s \in Slots : v.calls[s].op \in {"none", "login"} \/ v.calls[s] = w.calls[s]
      BY <1>c
    <3> QED
      BY <1>c, <2>0, <3>1, <3>2 DEF NobodyYet, SameTokens, SameMember
  <2> QED
    BY <2>1, <2>4, <2>5
<1>4. MemberAgrees(v)
  BY <1>2, <1>c DEF SessionInv, MemberAgrees, Present, SameTokens, SameMember
<1>5. CacheAgrees(v)
  BY <1>2, <1>c DEF SessionInv, CacheAgrees, Present, SameMember
<1>6. Verdicts(v, over)
  <2>1. ASSUME NEW s \in Slots
        PROVE  Verdict(v.calls[s], v, over)
    <3>1. CASE s = r
      BY <3>1, <1>a DEF d, Verdict
    <3>2. CASE s # r
      BY <3>2 DEF SessionInv, Verdicts, Verdict
    <3> QED
      BY <3>1, <3>2
  <2> QED
    BY <2>1 DEF SessionInv, Verdicts, SameTokens
<1>7. Survivors(v, over)
  BY <1>2, <1>c DEF SessionInv, Survivors, Present, SameTokens, SameMember
<1> QED
  BY <1>1, <1>3, <1>4, <1>5, <1>6, <1>7 DEF SessionInv

\* The tab without the call that was answered.
LEMMA DoneKeeps ==
  ASSUME NEW w, NEW over, SessionInv(w, over), NEW s \in Slots,
         w.calls[s].op # "signin", w.calls[s].at # "waiting"
  PROVE  SessionInv(Done(w, s), over)
<1>1. w \in Tab
  BY DEF SessionInv, Typed
<1> DEFINE v == Done(w, s)
<1>2. /\ v \in Tab
      /\ SameTokens(v, w) /\ SameMember(v, w) /\ SamePage(v, w)
      /\ v.calls[s] = NoCall /\ \A t \in Slots \ {s} : v.calls[t] = w.calls[t]
      /\ v.lists = w.lists /\ v.mishaps = w.mishaps
  BY <1>1, DoneShape
<1> HIDE DEF v
<1>3. \A t \in Slots : Lesser(v.calls[t], w.calls[t])
  BY <1>2 DEF Lesser
<1>4. SessionInv(v, over)
  BY <1>2, <1>3, LessKeeps DEF SamePage
<1> QED
  BY <1>4 DEF v

\* The form was refused.
LEMMA LoginRefusedKeeps ==
  ASSUME NEW w, NEW over, SessionInv(w, over), NEW s \in Slots,
         w.calls[s].op = "login", w.calls[s].at # "waiting"
  PROVE  SessionInv([Done(w, s) EXCEPT !.submitting = FALSE], over)
<1> DEFINE x == Done(w, s)
           v == [x EXCEPT !.submitting = FALSE]
<1>1. SessionInv(x, over)
  BY DoneKeeps
<1>2. w \in Tab
  BY DEF SessionInv, Typed
<1>3. /\ x \in Tab /\ x.calls[s] = NoCall /\ \A t \in Slots \ {s} : x.calls[t] = w.calls[t]
      /\ x.mishaps = w.mishaps
  BY <1>2, DoneShape
<1> HIDE DEF x
<1>4. /\ v \in Tab /\ SameTokens(v, x) /\ SameMember(v, x) /\ v.calls = x.calls
      /\ v.lists = x.lists /\ v.mishaps = x.mishaps
  BY <1>3 DEF Tab, SameTokens, SameMember
<1> HIDE DEF v
<1>5. \A ms : Saw(v, ms) <=> Saw(x, ms)
  BY <1>4 DEF Saw
<1>6. Typed(v) /\ Verdicts(v, over)
  BY <1>1, <1>4 DEF SessionInv, Typed, Verdicts, Verdict, SameTokens
<1>7. MemberAgrees(v)
  BY <1>1, <1>4, <1>5 DEF SessionInv, MemberAgrees, Present, SameTokens, SameMember
<1>8. CacheAgrees(v)
  BY <1>1, <1>4, <1>5 DEF SessionInv, CacheAgrees, Present, SameMember
<1>9. Survivors(v, over)
  BY <1>1, <1>4, <1>5 DEF SessionInv, Survivors, Present, SameTokens, SameMember
<1>10. TokensAgree(v)
  <2> SUFFICES ASSUME ~Saw(v, {"refresh", "early"})
               PROVE  TokensPaired(v) /\ OneSignIn(v) /\ NobodyYet(v)
    BY DEF TokensAgree
  <2>0. TokensPaired(x) /\ NobodyYet(x) /\ OneSignIn(w)
    BY <1>1, <1>3, <1>5 DEF SessionInv, TokensAgree, Saw
  <2>1. TokensPaired(v)
    BY <1>4, <2>0 DEF TokensPaired, SameTokens
  <2>2. \A t \in Slots : ~Entering(v, t)
    <3>1. \A t \in Slots : Entering(w, t) => t = s
      BY <2>0 DEF OneSignIn, Entering
    <3> QED
      BY <3>1, <1>3, <1>4 DEF Entering, NoCall
  <2>3. OneSignIn(v)
    BY <2>2 DEF OneSignIn, Entering
  <2>4. NobodyYet(v)
    BY <1>4, <2>0 DEF NobodyYet, SameTokens, SameMember, InFlight
  <2> QED
    BY <2>1, <2>3, <2>4
<1>11. SessionInv(v, over)
  BY <1>6, <1>7, <1>8, <1>9, <1>10 DEF SessionInv
<1> QED
  BY <1>11 DEF v, x

\* The form was accepted: the tokens are stored, and me is asked for with them.
LEMMA SignInShape ==
  ASSUME NEW w \in Tab, NEW u \in Members, Vacant(w)
  PROVE  LET v == SignIn(w, u)
         IN /\ v \in Tab
            /\ v.access = [who |-> u, old |-> FALSE] /\ v.refresh = u
            /\ v.refreshing = w.refreshing
            /\ SameMember(v, w) /\ SamePage(v, w)
            /\ v.lists = w.lists /\ v.mishaps = w.mishaps
            /\ \E r \in Slots :
                 /\ w.calls[r].op = "none"
                 /\ v.calls[r].op = "signin" /\ v.calls[r].at = "sent" /\ ~v.calls[r].again
                 /\ v.calls[r].token = [who |-> u, old |-> FALSE]
                 /\ \A t \in Slots \ {r} : v.calls[t] = w.calls[t]
<1> DEFINE y == SetTokens(w, u)
           call == [Request("signin") EXCEPT !.who = u]
           v == Issue(y, call)
<1>1. /\ y \in Tab
      /\ y.access = [who |-> u, old |-> FALSE] /\ y.refresh = u
      /\ y.refreshing = w.refreshing
      /\ SameMember(y, w) /\ SamePage(y, w)
      /\ y.calls = w.calls /\ y.lists = w.lists /\ y.mishaps = w.mishaps
  BY SetTokensShape
<1>2. call \in Call /\ call.op = "signin" /\ ~call.again
  BY RequestTyped DEF Ops, Call
<1>3. SignIn(w, u) = v
  BY DEF SignIn
<1> HIDE DEF y, call
<1>4. \E s \in Slots : y.calls[s].op = "none"
  BY <1>1 DEF Vacant
<1>5. /\ v \in Tab
      /\ SameTokens(v, y) /\ SameMember(v, y) /\ SamePage(v, y)
      /\ \E s \in Slots : /\ y.calls[s].op = "none" /\ v.calls[s] = AsSent(y, call)
                          /\ \A t \in Slots \ {s} : v.calls[t] = y.calls[t]
      /\ v.lists = y.lists /\ v.mishaps = y.mishaps
  BY <1>1, <1>2, <1>4, IssueShape
<1> HIDE DEF v
<1>6. LET d == AsSent(y, call)
      IN d.op = "signin" /\ d.at = "sent" /\ ~d.again /\ d.token = y.access
  BY <1>2 DEF AsSent, Call
<1>7. \E r \in Slots :
         /\ w.calls[r].op = "none"
         /\ v.calls[r].op = "signin" /\ v.calls[r].at = "sent" /\ ~v.calls[r].again
         /\ v.calls[r].token = [who |-> u, old |-> FALSE]
         /\ \A t \in Slots \ {r} : v.calls[t] = w.calls[t]
  BY <1>1, <1>5, <1>6
<1> QED
  BY <1>1, <1>3, <1>5, <1>7 DEF SameTokens, SameMember, SamePage

\* The credentials were right: their tokens are stored, me is asked for.
LEMMA LoginAcceptedKeeps ==
  ASSUME NEW w, NEW over, SessionInv(w, over), NEW s \in Slots,
         w.calls[s].op = "login", w.calls[s].at # "waiting"
  PROVE  SessionInv(SignIn(Done(w, s), w.calls[s].who), over)
<1> DEFINE x == Done(w, s)
           u == w.calls[s].who
           t0 == [who |-> u, old |-> FALSE]
           v == SignIn(x, u)
<1>0. w \in Tab /\ u \in Members
  BY DEF SessionInv, Typed, CallTyped
<1>1. SessionInv(x, over)
  BY DoneKeeps
<1>2. /\ x \in Tab /\ x.calls[s] = NoCall /\ \A t \in Slots \ {s} : x.calls[t] = w.calls[t]
      /\ x.mishaps = w.mishaps /\ SameTokens(x, w) /\ SameMember(x, w) /\ SamePage(x, w)
  BY <1>0, DoneShape
<1> HIDE DEF x
<1>3. Vacant(x)
  BY <1>2 DEF Vacant, NoCall
<1>4. t0 \in Token /\ t0.who = u /\ t0 # None /\ u # None /\ ~t0.old
  <2>1. t0 \in Token
    BY <1>0 DEF Token
  <2>2. u # None /\ t0 # None
    BY <1>0, <2>1, SessionAssumption
  <2> QED
    BY <2>1, <2>2
<1>o. u = w.calls[s].who /\ t0 = [who |-> u, old |-> FALSE]
  OBVIOUS
<1>s. x \in Tab /\ u \in Members /\ Vacant(x)
  BY <1>0, <1>2, <1>3
<1> HIDE DEF t0, u
<1>r. /\ v \in Tab
      /\ v.access = [who |-> u, old |-> FALSE] /\ v.refresh = u
      /\ v.refreshing = x.refreshing
      /\ SameMember(v, x) /\ SamePage(v, x)
      /\ v.lists = x.lists /\ v.mishaps = x.mishaps
      /\ \E r \in Slots :
           /\ x.calls[r].op = "none"
           /\ v.calls[r].op = "signin" /\ v.calls[r].at = "sent" /\ ~v.calls[r].again
           /\ v.calls[r].token = [who |-> u, old |-> FALSE]
           /\ \A t \in Slots \ {r} : v.calls[t] = x.calls[t]
  BY <1>s, SignInShape
<1> HIDE DEF v
<1>5. /\ v \in Tab
      /\ v.access = t0 /\ v.refresh = u
      /\ v.refreshing = x.refreshing
      /\ v.status = x.status /\ v.user = x.user /\ v.submitting = x.submitting
      /\ v.lists = x.lists /\ v.mishaps = x.mishaps
      /\ \E r \in Slots :
           /\ x.calls[r].op = "none"
           /\ v.calls[r].op = "signin" /\ v.calls[r].at = "sent" /\ ~v.calls[r].again
           /\ v.calls[r].token = t0
           /\ \A t \in Slots \ {r} : v.calls[t] = x.calls[t]
  BY <1>o, <1>r DEF SameMember, SamePage
<1> PICK r \in Slots :
           /\ x.calls[r].op = "none"
           /\ v.calls[r].op = "signin" /\ v.calls[r].at = "sent" /\ ~v.calls[r].again
           /\ v.calls[r].token = t0
           /\ \A t \in Slots \ {r} : v.calls[t] = x.calls[t]
  BY <1>5
<1>6. \A ms : Saw(v, ms) <=> Saw(x, ms)
  BY <1>5 DEF Saw
<1>7. Typed(v)
  <2>1. ASSUME NEW t \in Slots
        PROVE  CallTyped(v.calls[t])
    BY <1>1 DEF SessionInv, Typed, CallTyped
  <2> QED
    BY <1>1, <1>5, <2>1 DEF SessionInv, Typed
<1>8. Verdicts(v, over)
  <2>1. ASSUME NEW t \in Slots
        PROVE  Verdict(v.calls[t], v, over)
    <3>1. CASE t = r
      BY <3>1 DEF Verdict
    <3>2. CASE t # r
      BY <3>2, <1>1, <1>5 DEF SessionInv, Verdicts, Verdict
    <3> QED
      BY <3>1, <3>2
  <2> QED
    BY <2>1, <1>1, <1>5 DEF SessionInv, Verdicts
<1>9. ASSUME ~Saw(v, {"refresh", "early"})
      PROVE  /\ x.status = "anonymous" /\ x.refreshing.at = "idle" /\ x.submitting
             /\ \A t \in Slots : ~Entering(x, t)
             /\ NobodyYet(x)
  <2>1. /\ TokensPaired(x) /\ OneSignIn(x) /\ NobodyYet(x) /\ OneSignIn(w)
    BY <1>1, <1>2, <1>6, <1>9 DEF SessionInv, TokensAgree, Saw
  <2>2. w.status = "anonymous" /\ w.submitting /\ \A t \in Slots : Entering(w, t) => t = s
    BY <2>1 DEF OneSignIn, Entering
  <2>3. \A t \in Slots : ~Entering(x, t)
    BY <2>2, <1>2 DEF Entering, NoCall
  <2>4. ~InFlight(x, {"signin"})
    BY <2>3 DEF InFlight, Entering
  <2>5. x.refreshing.at = "idle"
    <3>1. SUFFICES ASSUME x.refreshing.at # "idle" PROVE FALSE
      OBVIOUS
    <3>2. x.refreshing.who \in Members /\ x.refresh = x.refreshing.who
      BY <1>1, <2>1, <3>1 DEF SessionInv, Typed, TokensPaired
    <3>3. x.refresh # None
      BY <3>2, SessionAssumption
    <3>4. \A t \in Slots : x.calls[t].op \in {"none", "login"}
      BY <2>1, <2>2, <2>4, <3>3, <1>2 DEF NobodyYet, SameMember
    <3>5. \A t \in Slots : x.calls[t].at # "waiting"
      BY <3>4, <1>1 DEF SessionInv, Typed, CallTyped
    <3> QED
      BY <2>1, <3>1, <3>5 DEF TokensPaired
  <2> QED
    BY <2>1, <2>2, <2>3, <2>5, <1>2 DEF SameMember, SamePage
<1>10. TokensAgree(v)
  <2> SUFFICES ASSUME ~Saw(v, {"refresh", "early"})
               PROVE  TokensPaired(v) /\ OneSignIn(v) /\ NobodyYet(v)
    BY DEF TokensAgree
  <2>1. TokensPaired(v)
    BY <1>4, <1>5, <1>9 DEF TokensPaired
  <2>2. \A t \in Slots : Entering(v, t) => t = r
    BY <1>9 DEF Entering
  <2>3. OneSignIn(v)
    <3>1. v.calls[r].token # None /\ Carries(v.calls[r], v.refresh)
      BY <1>4, <1>5 DEF Carries
    <3>2. \A t \in Slots : v.calls[t].op = "signin" => t = r
      BY <2>2 DEF Entering
    <3> QED
      BY <2>2, <3>1, <3>2, <1>5, <1>9 DEF OneSignIn
  <2>4. NobodyYet(v)
    <3>1. InFlight(v, {"signin"})
      BY DEF InFlight
    <3>2. \A t \in Slots : v.calls[t].op = "hydrate" => v.calls[t] = x.calls[t]
      OBVIOUS
    <3> QED
      BY <3>1, <3>2, <1>5, <1>9 DEF NobodyYet
  <2> QED
    BY <2>1, <2>3, <2>4
<1>c. \A t \in Slots : v.calls[t].op # "signin" => v.calls[t] = x.calls[t]
  OBVIOUS
<1>11. MemberAgrees(v)
  <2> SUFFICES ASSUME ~Saw(v, {"refresh", "early", "profile"})
               PROVE  /\ Present(v) /\ v.refresh # None => v.refresh = v.user
                      /\ \A t \in Slots : v.calls[t].op = "profile" =>
                           Present(v) /\ Carries(v.calls[t], v.user)
    BY DEF MemberAgrees
  <2>1. ~Saw(v, {"refresh", "early"})
    BY DEF Saw
  <2> QED
    BY <2>1, <1>1, <1>5, <1>6, <1>9, <1>c DEF SessionInv, MemberAgrees, Present
<1>12. CacheAgrees(v)
  BY <1>1, <1>5, <1>6, <1>c DEF SessionInv, CacheAgrees, Present
<1>13. Survivors(v, over)
  BY <1>4, <1>5 DEF Survivors
<1>14. SessionInv(v, over)
  BY <1>7, <1>8, <1>10, <1>11, <1>12, <1>13 DEF SessionInv
<1> QED
  BY <1>14 DEF v, x, u

\* A tab whose account is known, from one where nobody was.
LEMMA ArrivedKeeps ==
  ASSUME NEW w, NEW v, NEW over, SessionInv(w, over), v \in Tab,
         SameTokens(v, w), v.status = "authenticated", v.lists = w.lists, v.mishaps = w.mishaps,
         NEW s \in Slots, v.calls[s] = NoCall,
         w.calls[s].at = "ok", v.user = w.calls[s].who,
         \/ /\ w.calls[s].op = "signin" /\ ~v.submitting
            /\ \A t \in Slots \ {s} : v.calls[t] = Cut(w.calls[t], {"hydrate"})
         \/ /\ w.calls[s].op = "hydrate" /\ w.calls[s].live /\ v.submitting = w.submitting
            /\ \A t \in Slots \ {s} : v.calls[t] = w.calls[t]
  PROVE  SessionInv(v, over)
<1>0. w \in Tab /\ (\A t \in Slots : w.calls[t] \in Call) /\ NoCall.op = "none" /\ NoCall.at = "idle"
      /\ NoCall.token = None /\ ~NoCall.again
  BY DEF SessionInv, Typed, Tab, NoCall
<1>a. ASSUME NEW t \in Slots \ {s}
      PROVE  /\ v.calls[t].op = w.calls[t].op /\ v.calls[t].at = w.calls[t].at
             /\ v.calls[t].token = w.calls[t].token /\ v.calls[t].again = w.calls[t].again
             /\ v.calls[t].who = w.calls[t].who /\ v.calls[t].ids = w.calls[t].ids
             /\ v.calls[t].rows = w.calls[t].rows
             /\ v.calls[t].live => w.calls[t].live
             /\ w.calls[s].op = "signin" /\ v.calls[t].op = "hydrate" => ~v.calls[t].live
  <2> DEFINE c == w.calls[t]
             d == v.calls[t]
  <2>1. c \in Call /\ (d = Cut(c, {"hydrate"}) \/ (d = c /\ w.calls[s].op # "signin"))
    BY <1>0
  <2> SUFFICES /\ d.op = c.op /\ d.at = c.at /\ d.token = c.token /\ d.again = c.again
               /\ d.who = c.who /\ d.ids = c.ids /\ d.rows = c.rows /\ (d.live => c.live)
               /\ w.calls[s].op = "signin" /\ d.op = "hydrate" => ~d.live
    OBVIOUS
  <2> HIDE DEF c, d
  <2> QED
    BY <2>1 DEF Cut, Call
<1>b. \A ms : Saw(v, ms) <=> Saw(w, ms)
  BY DEF Saw
<1>1. Typed(v)
  <2>1. ASSUME NEW t \in Slots
        PROVE  CallTyped(v.calls[t])
    <3>1. CASE t = s
      BY <3>1, <1>0 DEF CallTyped
    <3>2. CASE t # s
      BY <3>2, <1>a DEF SessionInv, Typed, CallTyped
    <3> QED
      BY <3>1, <3>2
  <2> QED
    BY <2>1 DEF SessionInv, Typed, SameTokens
<1>2. Verdicts(v, over)
  <2>1. ASSUME NEW t \in Slots
        PROVE  Verdict(v.calls[t], v, over)
    <3>1. CASE t = s
      BY <3>1, <1>0 DEF Verdict
    <3>2. CASE t # s
      <4>1. Verdict(w.calls[t], w, over)
        BY DEF SessionInv, Verdicts
      <4> QED
        BY <4>1, <3>2, <1>a DEF Verdict
    <3> QED
      BY <3>1, <3>2
  <2> QED
    BY <2>1 DEF SessionInv, Verdicts, SameTokens
<1>3. ASSUME ~Saw(v, {"refresh", "early"})
      PROVE  /\ TokensPaired(w) /\ ~Present(w)
             /\ \A t \in Slots : ~Entering(v, t)
             /\ \A t \in Slots : v.calls[t].op = "hydrate" => ~v.calls[t].live
             /\ w.refresh # None => w.calls[s].who = w.refresh
  <2>1. TokensPaired(w) /\ OneSignIn(w) /\ NobodyYet(w)
    BY <1>b, <1>3 DEF SessionInv, TokensAgree
  <2>2. CASE w.calls[s].op = "signin"
    <3>1. w.status = "anonymous" /\ \A t \in Slots : Entering(w, t) => t = s
      BY <2>1, <2>2 DEF OneSignIn, Entering
    <3>2. \A t \in Slots : ~Entering(v, t)
      BY <3>1, <1>0, <1>a DEF Entering
    <3>3. \A t \in Slots : v.calls[t].op = "hydrate" => ~v.calls[t].live
      BY <2>2, <1>0, <1>a
    <3> QED
      BY <2>1, <2>2, <3>1, <3>2, <3>3 DEF OneSignIn, Carries, Present
  <2>3. CASE w.calls[s].op = "hydrate" /\ w.calls[s].live
    <3>1. w.status = "loading" /\ w.calls[s].who = w.refresh
      BY <2>1, <2>3 DEF NobodyYet, Carries
    <3>2. \A t \in Slots : ~Entering(w, t)
      BY <2>1, <3>1 DEF OneSignIn
    <3>3. \A t \in Slots : ~Entering(v, t)
      BY <3>2, <1>0, <1>a DEF Entering
    <3>4. \A t \in Slots : v.calls[t].op # "hydrate"
      BY <2>1, <2>3, <3>1, <1>0, <1>a DEF NobodyYet
    <3> QED
      BY <2>1, <3>1, <3>3, <3>4 DEF Present
  <2> QED
    BY <2>2, <2>3
<1>4. TokensAgree(v)
  <2> SUFFICES ASSUME ~Saw(v, {"refresh", "early"})
               PROVE  TokensPaired(v) /\ OneSignIn(v) /\ NobodyYet(v)
    BY DEF TokensAgree
  <2>1. TokensPaired(v)
    <3>1. ASSUME NEW t \in Slots, w.calls[t].at = "waiting"
          PROVE  v.calls[t].at = "waiting"
      BY <3>1, <1>a
    <3> QED
      BY <3>1, <1>3 DEF TokensPaired, SameTokens
  <2>2. OneSignIn(v)
    BY <1>3 DEF OneSignIn, Entering
  <2>3. NobodyYet(v)
    BY <1>3 DEF NobodyYet
  <2> QED
    BY <2>1, <2>2, <2>3
<1>5. MemberAgrees(v)
  <2> SUFFICES ASSUME ~Saw(v, {"refresh", "early", "profile"})
               PROVE  /\ Present(v) /\ v.refresh # None => v.refresh = v.user
                      /\ \A t \in Slots : v.calls[t].op # "profile"
    BY DEF MemberAgrees
  <2>1. ~Saw(v, {"refresh", "early"}) /\ ~Saw(w, {"refresh", "early", "profile"})
    BY <1>b DEF Saw
  <2>2. \A t \in Slots : w.calls[t].op # "profile"
    BY <2>1, <1>3 DEF SessionInv, MemberAgrees
  <2> QED
    BY <2>1, <2>2, <1>0, <1>a, <1>3 DEF SameTokens
<1>6. CacheAgrees(v)
  <2> SUFFICES ASSUME ~Saw(v, {"refresh", "early", "profile", "resync", "patch", "delete"})
               PROVE  /\ \A k \in Keys : v.lists[k] = None
                      /\ \A t \in Slots :
                           LET c == v.calls[t]
                           IN /\ ~(c.op = "resync" \/ (c.op = "list" /\ c.live))
                              /\ c.op \notin {"patch", "delete"}
    BY DEF CacheAgrees
  <2>1. ~Present(w) /\ ~Saw(w, {"refresh", "early", "profile", "resync", "patch", "delete"})
    BY <1>b, <1>3 DEF Saw
  <2>2. /\ \A k \in Keys : w.lists[k] = None
        /\ \A t \in Slots :
             LET c == w.calls[t]
             IN /\ ~(c.op = "resync" \/ (c.op = "list" /\ c.live))
                /\ c.op \notin {"patch", "delete"}
    BY <2>1 DEF SessionInv, CacheAgrees
  <2>3. ASSUME NEW t \in Slots
        PROVE  LET c == v.calls[t]
               IN /\ ~(c.op = "resync" \/ (c.op = "list" /\ c.live))
                  /\ c.op \notin {"patch", "delete"}
    <3>1. CASE t = s
      BY <3>1, <1>0
    <3>2. CASE t # s
      BY <3>2, <1>a, <2>2
    <3> QED
      BY <3>1, <3>2
  <2> QED
    BY <2>2, <2>3
<1>7. Survivors(v, over)
  <2> SUFFICES ASSUME ~Saw(v, {"refresh lost", "refresh", "profile", "early", "former", "slow", "stuck"}),
                      v.refresh = None
               PROVE  v.user \in over /\ \A t \in Slots : v.calls[t].op # "signin"
    BY DEF Survivors
  <2>1. ~Saw(v, {"refresh", "early"})
        /\ ~Saw(w, {"refresh lost", "refresh", "profile", "early", "former", "slow", "stuck"})
    BY <1>b DEF Saw
  <2>2. \A t \in Slots : v.calls[t].op # "signin"
    BY <2>1, <1>3 DEF Entering
  <2>3. CASE w.calls[s].op = "signin"
    BY <2>1, <2>2, <2>3 DEF SessionInv, Survivors, SameTokens
  <2>4. CASE w.calls[s].op = "hydrate" /\ w.calls[s].live
    <3>1. w.status = "loading" /\ w.refresh # None
      BY <2>1, <2>4, <1>b DEF SessionInv, TokensAgree, NobodyYet
    <3> QED
      BY <3>1 DEF SameTokens
  <2> QED
    BY <2>2, <2>3, <2>4
<1> QED
  BY <1>1, <1>2, <1>4, <1>5, <1>6, <1>7 DEF SessionInv

\* Nobody is there, and the tokens are dropped: me was answered by a verdict, or the
\* sign-in failed.
LEMMA DroppedKeeps ==
  ASSUME NEW w, NEW v, NEW over, SessionInv(w, over), v \in Tab,
         v.access = None, v.refresh = None, v.refreshing = w.refreshing,
         v.status = "anonymous", v.lists = w.lists, w.mishaps \subseteq v.mishaps,
         w.refreshing.at # "idle" => "refresh" \in v.mishaps,
         NEW s \in Slots, v.calls[s].op = "none", v.calls[s].at = "idle", ~v.calls[s].again,
         \/ w.calls[s].op = "signin" /\ ~v.submitting
         \/ w.calls[s].op = "hydrate" /\ w.calls[s].live /\ v.submitting = w.submitting,
         \A t \in Slots \ {s} : v.calls[t] = Cut(w.calls[t], {"list", "hydrate"})
  PROVE  SessionInv(v, over)
<1>0. w \in Tab /\ \A t \in Slots : w.calls[t] \in Call
  BY DEF SessionInv, Typed, Tab
<1>a. ASSUME NEW t \in Slots \ {s}
      PROVE  /\ v.calls[t].op = w.calls[t].op /\ v.calls[t].at = w.calls[t].at
             /\ v.calls[t].token = w.calls[t].token /\ v.calls[t].again = w.calls[t].again
             /\ v.calls[t].who = w.calls[t].who /\ v.calls[t].ids = w.calls[t].ids
             /\ v.calls[t].rows = w.calls[t].rows
             /\ v.calls[t].op \in {"list", "hydrate"} => ~v.calls[t].live
  <2> DEFINE c == w.calls[t]
             d == v.calls[t]
  <2>1. c \in Call /\ d = Cut(c, {"list", "hydrate"})
    BY <1>0
  <2> SUFFICES /\ d.op = c.op /\ d.at = c.at /\ d.token = c.token /\ d.again = c.again
               /\ d.who = c.who /\ d.ids = c.ids /\ d.rows = c.rows
               /\ d.op \in {"list", "hydrate"} => ~d.live
    OBVIOUS
  <2> HIDE DEF c, d
  <2> QED
    BY <2>1 DEF Cut, Call
<1>b. \A ms : Saw(w, ms) => Saw(v, ms)
  BY DEF Saw
<1>1. Typed(v)
  <2>1. ASSUME NEW t \in Slots
        PROVE  CallTyped(v.calls[t])
    <3>1. CASE t = s
      BY <3>1 DEF CallTyped
    <3>2. CASE t # s
      BY <3>2, <1>a DEF SessionInv, Typed, CallTyped
    <3> QED
      BY <3>1, <3>2
  <2> QED
    BY <2>1 DEF SessionInv, Typed
<1>2. Verdicts(v, over)
  <2>1. ASSUME NEW t \in Slots
        PROVE  Verdict(v.calls[t], v, over)
    <3>1. CASE t = s
      BY <3>1 DEF Verdict
    <3>2. CASE t # s
      <4>1. Verdict(w.calls[t], w, over)
        BY DEF SessionInv, Verdicts
      <4> QED
        BY <4>1, <3>2, <1>a DEF Verdict
    <3> QED
      BY <3>1, <3>2
  <2> QED
    BY <2>1 DEF SessionInv, Verdicts
<1>3. ASSUME ~Saw(v, {"refresh", "early"})
      PROVE  /\ ~Present(w) /\ OneSignIn(w)
             /\ \A t \in Slots : v.calls[t].op # "signin"
             /\ \A t \in Slots : Entering(v, t) => v.submitting
  <2>1. OneSignIn(w) /\ NobodyYet(w)
    BY <1>b, <1>3 DEF SessionInv, TokensAgree
  <2>2. CASE w.calls[s].op = "signin"
    <3>1. w.status = "anonymous" /\ \A t \in Slots : Entering(w, t) => t = s
      BY <2>1, <2>2 DEF OneSignIn, Entering
    <3>2. \A t \in Slots : ~Entering(v, t)
      BY <3>1, <1>a DEF Entering
    <3> QED
      BY <2>1, <3>1, <3>2 DEF Present, Entering
  <2>3. CASE w.calls[s].op = "hydrate" /\ w.calls[s].live
    <3>1. w.status = "loading"
      BY <2>1, <2>3 DEF NobodyYet
    <3>2. \A t \in Slots : ~Entering(w, t)
      BY <2>1, <3>1 DEF OneSignIn
    <3>3. \A t \in Slots : ~Entering(v, t)
      BY <3>2, <1>a DEF Entering
    <3> QED
      BY <2>1, <3>1, <3>3 DEF Present, Entering
  <2> QED
    BY <2>2, <2>3
<1>4. TokensAgree(v)
  <2> SUFFICES ASSUME ~Saw(v, {"refresh", "early"})
               PROVE  TokensPaired(v) /\ OneSignIn(v) /\ NobodyYet(v)
    BY DEF TokensAgree
  <2>0. "refresh" \notin v.mishaps
    BY DEF Saw
  <2>1. TokensPaired(v)
    BY <2>0 DEF TokensPaired
  <2>2. OneSignIn(v)
    <3>1. \A t, r \in Slots : Entering(v, t) /\ Entering(v, r) => t = r
      BY <1>3, <1>a DEF OneSignIn, Entering
    <3> QED
      BY <3>1, <1>3 DEF OneSignIn
  <2>3. NobodyYet(v)
    <3>1. \A t \in Slots : v.calls[t].op = "hydrate" => ~v.calls[t].live
      BY <1>a
    <3> QED
      BY <3>1 DEF NobodyYet
  <2> QED
    BY <2>1, <2>2, <2>3
<1>5. MemberAgrees(v)
  <2> SUFFICES ASSUME ~Saw(v, {"refresh", "early", "profile"})
               PROVE  \A t \in Slots : v.calls[t].op # "profile"
    BY DEF MemberAgrees, Present
  <2>1. ~Saw(v, {"refresh", "early"}) /\ ~Saw(w, {"refresh", "early", "profile"})
    BY <1>b DEF Saw
  <2>2. \A t \in Slots : w.calls[t].op # "profile"
    BY <2>1, <1>3 DEF SessionInv, MemberAgrees
  <2> QED
    BY <2>2, <1>a
<1>6. CacheAgrees(v)
  <2> SUFFICES ASSUME ~Saw(v, {"refresh", "early", "profile", "resync", "patch", "delete"})
               PROVE  /\ \A k \in Keys : v.lists[k] = None
                      /\ \A t \in Slots :
                           LET c == v.calls[t]
                           IN /\ ~(c.op = "resync" \/ (c.op = "list" /\ c.live))
                              /\ c.op \notin {"patch", "delete"}
    BY DEF CacheAgrees
  <2>1. ~Present(w) /\ ~Saw(w, {"refresh", "early", "profile", "resync", "patch", "delete"})
    BY <1>b, <1>3 DEF Saw
  <2>2. /\ \A k \in Keys : w.lists[k] = None
        /\ \A t \in Slots : w.calls[t].op \notin {"resync", "patch", "delete"}
    BY <2>1 DEF SessionInv, CacheAgrees
  <2>3. ASSUME NEW t \in Slots
        PROVE  LET c == v.calls[t]
               IN /\ ~(c.op = "resync" \/ (c.op = "list" /\ c.live))
                  /\ c.op \notin {"patch", "delete"}
    <3>1. CASE t = s
      BY <3>1
    <3>2. CASE t # s
      BY <3>2, <1>a, <2>2
    <3> QED
      BY <3>1, <3>2
  <2> QED
    BY <2>2, <2>3
<1>7. Survivors(v, over)
  <2> SUFFICES ASSUME ~Saw(v, {"refresh lost", "refresh", "profile", "early", "former", "slow", "stuck"})
               PROVE  \A t \in Slots : v.calls[t].op # "signin"
    BY DEF Survivors, Present
  <2>1. ~Saw(v, {"refresh", "early"})
    BY DEF Saw
  <2> QED
    BY <2>1, <1>3
<1> QED
  BY <1>1, <1>2, <1>4, <1>5, <1>6, <1>7 DEF SessionInv

\* The tokens in the storage are of one member.
StoredPaired(w) == /\ w.access = None <=> w.refresh = None
                   /\ w.access # None => w.access.who = w.refresh

\* A page load: what is stored stays, nothing is under way.
LEMMA FreshKeeps ==
  ASSUME NEW w, NEW v, NEW over, ~Saw(w, {"refresh", "early"}) => StoredPaired(w), v \in Tab,
         v.access = w.access, v.refresh = w.refresh, v.refreshing.at = "idle",
         v.status \in {"loading", "anonymous"},
         v.status = "anonymous" <=> w.access = None /\ w.refresh = None,
         \A k \in Keys : v.lists[k] = None,
         \A s \in Slots : v.calls[s] = NoCall,
         \A m \in {"refresh", "early"} : m \in w.mishaps => m \in v.mishaps
  PROVE  SessionInv(v, over)
<1>0. NoCall.op = "none" /\ NoCall.at = "idle" /\ NoCall.token = None /\ ~NoCall.again
  BY DEF NoCall
<1>1. Typed(v)
  BY <1>0 DEF Typed, CallTyped
<1>2. TokensAgree(v)
  <2> SUFFICES ASSUME ~Saw(v, {"refresh", "early"})
               PROVE  TokensPaired(v) /\ OneSignIn(v) /\ NobodyYet(v)
    BY DEF TokensAgree
  <2>1. StoredPaired(w)
    BY DEF Saw
  <2>2. TokensPaired(v)
    BY <2>1 DEF TokensPaired, StoredPaired
  <2>3. OneSignIn(v)
    BY <1>0 DEF OneSignIn, Entering
  <2>4. NobodyYet(v)
    BY <2>1, <1>0 DEF NobodyYet, StoredPaired
  <2> QED
    BY <2>2, <2>3, <2>4
<1>3. MemberAgrees(v)
  BY <1>0 DEF MemberAgrees, Present
<1>4. CacheAgrees(v)
  BY <1>0 DEF CacheAgrees
<1>5. Verdicts(v, over)
  BY <1>0 DEF Verdicts, Verdict
<1>6. Survivors(v, over)
  BY <1>0 DEF Survivors, Present
<1> QED
  BY <1>1, <1>2, <1>3, <1>4, <1>5, <1>6 DEF SessionInv

\* Nothing but this check is under way.
Quiet(w) == w.status = "loading" /\ \A s \in Slots : w.calls[s].op = "none"

\* me is asked for with the tokens that were found.
LEMMA CheckKeeps ==
  ASSUME NEW w, NEW v, NEW over, SessionInv(w, over), v \in Tab,
         SameTokens(v, w), SameMember(v, w), v.submitting = w.submitting,
         v.lists = w.lists, v.mishaps = w.mishaps,
         NEW call \in Call, Issued(v, w, call), call.op = "hydrate", ~call.again,
         ~Saw(w, {"refresh", "early"}) => Quiet(w)
  PROVE  SessionInv(v, over)
<1> PICK r \in Slots : /\ w.calls[r].op = "none" /\ v.calls[r] = AsSent(w, call)
                       /\ \A t \in Slots \ {r} : v.calls[t] = w.calls[t]
  BY DEF Issued
<1> DEFINE d == v.calls[r]
<1>a. d.op = "hydrate" /\ d.at = "sent" /\ d.token = w.access /\ ~d.again
  BY DEF AsSent, Call
<1>b. /\ w \in Tab /\ w.calls[r].at = "idle" /\ w.calls[r].op = "none"
      /\ \A s \in Slots : s # r => v.calls[s] = w.calls[s]
  BY DEF SessionInv, Typed, CallTyped
<1> HIDE DEF d
<1>1. Typed(v)
  <2>1. ASSUME NEW s \in Slots
        PROVE  CallTyped(v.calls[s])
    <3>1. CASE s = r
      BY <3>1, <1>a DEF d, CallTyped
    <3>2. CASE s # r
      BY <3>2 DEF SessionInv, Typed
    <3> QED
      BY <3>1, <3>2
  <2> QED
    BY <2>1 DEF SessionInv, Typed, SameTokens
<1>2. \A ms : Saw(v, ms) <=> Saw(w, ms)
  BY DEF Saw
<1>c. \A s \in Slots : v.calls[s].op # "hydrate" => v.calls[s] = w.calls[s]
  BY <1>a, <1>b DEF d
<1>3. TokensAgree(v)
  <2> SUFFICES ASSUME ~Saw(v, {"refresh", "early"})
               PROVE  TokensPaired(v) /\ OneSignIn(v) /\ NobodyYet(v)
    BY DEF TokensAgree
  <2>0. TokensPaired(w) /\ NobodyYet(w) /\ Quiet(w)
    BY <1>2 DEF SessionInv, TokensAgree
  <2>1. TokensPaired(v)
    BY <1>b, <2>0 DEF TokensPaired, SameTokens
  <2>2. \A s \in Slots : s # r => v.calls[s].op = "none"
    BY <1>b, <2>0 DEF Quiet
  <2>3. OneSignIn(v)
    BY <1>a, <2>2 DEF d, OneSignIn, Entering
  <2>4. Carries(d, v.refresh)
    BY <1>a, <2>0 DEF TokensPaired, SameTokens, Carries
  <2>5. v.status = "loading" /\ v.refresh # None
    BY <2>0 DEF Quiet, NobodyYet, SameTokens, SameMember
  <2>6. NobodyYet(v)
    BY <1>a, <2>2, <2>4, <2>5 DEF d, NobodyYet
  <2> QED
    BY <2>1, <2>3, <2>6
<1>4. MemberAgrees(v)
  BY <1>2, <1>c DEF SessionInv, MemberAgrees, Present, SameTokens, SameMember
<1>5. CacheAgrees(v)
  BY <1>2, <1>c DEF SessionInv, CacheAgrees, Present, SameMember
<1>6. Verdicts(v, over)
  <2>1. ASSUME NEW s \in Slots
        PROVE  Verdict(v.calls[s], v, over)
    <3>1. CASE s = r
      BY <3>1, <1>a DEF d, Verdict
    <3>2. CASE s # r
      BY <3>2 DEF SessionInv, Verdicts, Verdict
    <3> QED
      BY <3>1, <3>2
  <2> QED
    BY <2>1 DEF SessionInv, Verdicts, SameTokens
<1>7. Survivors(v, over)
  BY <1>2, <1>c DEF SessionInv, Survivors, Present, SameTokens, SameMember
<1> QED
  BY <1>1, <1>3, <1>4, <1>5, <1>6, <1>7 DEF SessionInv

\* The check could not be made: nobody is there, and the tokens stay.
LEMMA BlipKeeps ==
  ASSUME NEW w, NEW v, NEW over, SessionInv(w, over), v \in Tab,
         SameTokens(v, w), v.status = "anonymous", v.submitting = w.submitting,
         v.lists = w.lists, v.mishaps = w.mishaps \cup {"blip"},
         ~Saw(w, {"refresh", "early"}) => Quiet(w),
         \A s \in Slots : v.calls[s] = Cut(w.calls[s], {"list", "hydrate"})
  PROVE  SessionInv(v, over)
<1>0. w \in Tab /\ \A s \in Slots : w.calls[s] \in Call
  BY DEF SessionInv, Typed, Tab
<1>a. ASSUME NEW s \in Slots
      PROVE  /\ v.calls[s].op = w.calls[s].op /\ v.calls[s].at = w.calls[s].at
             /\ v.calls[s].token = w.calls[s].token /\ v.calls[s].again = w.calls[s].again
             /\ v.calls[s].who = w.calls[s].who /\ v.calls[s].ids = w.calls[s].ids
             /\ v.calls[s].rows = w.calls[s].rows
             /\ v.calls[s].op \in {"list", "hydrate"} => ~v.calls[s].live
  <2> DEFINE c == w.calls[s]
             d == v.calls[s]
  <2>1. c \in Call /\ d = Cut(c, {"list", "hydrate"})
    BY <1>0
  <2> SUFFICES /\ d.op = c.op /\ d.at = c.at /\ d.token = c.token /\ d.again = c.again
               /\ d.who = c.who /\ d.ids = c.ids /\ d.rows = c.rows
               /\ d.op \in {"list", "hydrate"} => ~d.live
    OBVIOUS
  <2> HIDE DEF c, d
  <2> QED
    BY <2>1 DEF Cut, Call
<1>b. ASSUME NEW ms, "blip" \notin ms
      PROVE  Saw(v, ms) <=> Saw(w, ms)
  BY <1>b DEF Saw
<1>1. Typed(v)
  BY <1>a DEF SessionInv, Typed, CallTyped, SameTokens
<1>2. Verdicts(v, over)
  <2>1. ASSUME NEW s \in Slots
        PROVE  Verdict(v.calls[s], v, over)
    <3>1. Verdict(w.calls[s], w, over)
      BY DEF SessionInv, Verdicts
    <3> QED
      BY <3>1, <1>a DEF Verdict
  <2> QED
    BY <2>1 DEF SessionInv, Verdicts, SameTokens
<1>3. TokensAgree(v)
  <2> SUFFICES ASSUME ~Saw(v, {"refresh", "early"})
               PROVE  TokensPaired(v) /\ OneSignIn(v) /\ NobodyYet(v)
    BY DEF TokensAgree
  <2>0. TokensPaired(w) /\ Quiet(w)
    BY <1>b DEF SessionInv, TokensAgree
  <2>1. \A s \in Slots : v.calls[s].op = "none"
    BY <2>0, <1>a DEF Quiet
  <2>2. TokensPaired(v)
    BY <2>0, <1>a DEF TokensPaired, SameTokens
  <2>3. OneSignIn(v)
    BY <2>1 DEF OneSignIn, Entering
  <2>4. NobodyYet(v)
    BY <2>1 DEF NobodyYet
  <2> QED
    BY <2>2, <2>3, <2>4
<1>4. MemberAgrees(v)
  <2> SUFFICES ASSUME ~Saw(v, {"refresh", "early", "profile"})
               PROVE  \A s \in Slots : v.calls[s].op # "profile"
    BY DEF MemberAgrees, Present
  <2>1. Quiet(w)
    BY <1>b DEF Saw
  <2> QED
    BY <2>1, <1>a DEF Quiet
<1>5. CacheAgrees(v)
  <2> SUFFICES ASSUME ~Saw(v, {"refresh", "early", "profile", "resync", "patch", "delete"})
               PROVE  /\ \A k \in Keys : v.lists[k] = None
                      /\ \A s \in Slots : v.calls[s].op = "none"
    BY DEF CacheAgrees
  <2>1. Quiet(w) /\ ~Saw(w, {"refresh", "early", "profile", "resync", "patch", "delete"})
    BY <1>b DEF Saw
  <2> QED
    BY <2>1, <1>a DEF Quiet, SessionInv, CacheAgrees, Present
<1>6. Survivors(v, over)
  <2> SUFFICES ASSUME ~Saw(v, {"refresh lost", "refresh", "profile", "early", "former", "slow", "stuck"})
               PROVE  \A s \in Slots : v.calls[s].op # "signin"
    BY DEF Survivors, Present
  <2>1. Quiet(w)
    BY <1>b DEF Saw
  <2> QED
    BY <2>1, <1>a DEF Quiet
<1> QED
  BY <1>1, <1>2, <1>3, <1>4, <1>5, <1>6 DEF SessionInv

\* What the account menu changed comes back: it is of the member on screen.
LEMMA ProfileKeeps ==
  ASSUME NEW w, NEW v, NEW over, SessionInv(w, over), v \in Tab,
         SameTokens(v, w), v.status = w.status, v.submitting = w.submitting,
         v.lists = w.lists, v.mishaps = w.mishaps,
         NEW s \in Slots, w.calls[s].op = "profile", w.calls[s].at = "ok",
         v.user = w.calls[s].who, v.calls[s] = NoCall,
         \A t \in Slots \ {s} : v.calls[t] = w.calls[t]
  PROVE  SessionInv(v, over)
<1> DEFINE x == Done(w, s)
<1>1. SessionInv(x, over)
  BY DoneKeeps
<1>2. w \in Tab
  BY DEF SessionInv, Typed
<1>3. /\ x \in Tab /\ SameTokens(x, w) /\ SameMember(x, w) /\ SamePage(x, w)
      /\ x.calls[s] = NoCall /\ (\A t \in Slots \ {s} : x.calls[t] = w.calls[t])
      /\ x.lists = w.lists /\ x.mishaps = w.mishaps
  BY <1>2, DoneShape
<1> HIDE DEF x
<1>4. \A ms : Saw(v, ms) <=> Saw(x, ms)
  BY <1>3 DEF Saw
<1>5. ASSUME ~Saw(v, {"refresh", "early", "profile"})
      PROVE  v.user = x.user
  <2>1. ~Saw(w, {"refresh", "early", "profile"})
    BY <1>5 DEF Saw
  <2> QED
    BY <2>1, <1>3 DEF SessionInv, MemberAgrees, Carries, SameMember
<1>6. /\ SameTokens(v, x) /\ v.status = x.status /\ v.submitting = x.submitting
      /\ v.lists = x.lists /\ v.mishaps = x.mishaps
      /\ \A t \in Slots : v.calls[t] = x.calls[t]
  BY <1>3 DEF SameTokens, SameMember, SamePage
<1>7. Typed(v) /\ Verdicts(v, over)
  <2>1. Typed(v)
    BY <1>1, <1>6 DEF SessionInv, Typed, SameTokens
  <2>2. ASSUME NEW t \in Slots
        PROVE  Verdict(v.calls[t], v, over)
    <3>1. Verdict(x.calls[t], x, over)
      BY <1>1 DEF SessionInv, Verdicts
    <3> QED
      BY <3>1, <1>6 DEF Verdict
  <2> QED
    BY <2>1, <2>2, <1>1, <1>6 DEF SessionInv, Verdicts, SameTokens
<1>8. TokensAgree(v)
  <2>1. TokensPaired(x) => TokensPaired(v)
    BY <1>6 DEF TokensPaired, SameTokens
  <2>2. OneSignIn(x) => OneSignIn(v)
    BY <1>6 DEF OneSignIn, SameTokens, Entering
  <2>3. NobodyYet(x) => NobodyYet(v)
    BY <1>6 DEF NobodyYet, SameTokens, InFlight
  <2> QED
    BY <1>1, <1>4, <2>1, <2>2, <2>3 DEF SessionInv, TokensAgree
<1>9. MemberAgrees(v)
  BY <1>1, <1>4, <1>5, <1>6 DEF SessionInv, MemberAgrees, Present, SameTokens
<1>10. CacheAgrees(v)
  <2> SUFFICES ASSUME ~Saw(v, {"refresh", "early", "profile", "resync", "patch", "delete"})
               PROVE  CacheAgrees(v)
    BY DEF CacheAgrees
  <2>1. ~Saw(v, {"refresh", "early", "profile"})
    BY DEF Saw
  <2> QED
    BY <2>1, <1>1, <1>4, <1>5, <1>6 DEF SessionInv, CacheAgrees, Present
<1>11. Survivors(v, over)
  <2> SUFFICES ASSUME ~Saw(v, {"refresh lost", "refresh", "profile", "early", "former", "slow", "stuck"})
               PROVE  Survivors(v, over)
    BY DEF Survivors
  <2>1. ~Saw(v, {"refresh", "early", "profile"})
    BY DEF Saw
  <2>2. ~Saw(x, {"refresh lost", "refresh", "profile", "early", "former", "slow", "stuck"})
    BY <1>6 DEF Saw
  <2>3. /\ Present(x) /\ x.refresh = None => x.user \in over
        /\ \A t \in Slots : x.calls[t].op = "signin" /\ x.refresh = None =>
             /\ x.calls[t].token.who \in over
             /\ x.calls[t].at = "ok" => x.calls[t].who \in over
    BY <1>1, <2>2 DEF SessionInv, Survivors
  <2>4. v.refresh = x.refresh /\ (Present(v) <=> Present(x)) /\ (Present(x) => v.user = x.user)
    BY <2>1, <1>1, <1>4, <1>5, <1>6 DEF Present, SameTokens
  <2> QED
    BY <2>3, <2>4, <1>6 DEF Survivors
<1> QED
  BY <1>7, <1>8, <1>9, <1>10, <1>11 DEF SessionInv

(***************************************************************************)
(* The handlers of the sign-in state (auth/AuthContext.tsx).               *)
(***************************************************************************)

\* A free slot has no result to drop.
LEMMA CutNothing ==
  ASSUME NEW ops, "none" \notin ops
  PROVE  Cut(NoCall, ops) = NoCall
BY DEF Cut, NoCall

\* me came back for the sign-in: the board mounts.
LEMMA SignedInKeeps ==
  ASSUME NEW w, NEW over, SessionInv(w, over), NEW s \in Slots,
         w.calls[s].op = "signin", w.calls[s].at = "ok"
  PROVE  SessionInv(SignedIn(Done(w, s), w.calls[s].who), over)
<1> DEFINE u == w.calls[s].who
           x == Done(w, s)
           z == Cancel(x, "hydrate")
           y == [z EXCEPT !.status = "authenticated", !.user = u, !.submitting = FALSE]
<1>0. w \in Tab /\ u \in Members \cup {None}
  BY DEF SessionInv, Typed, Tab, Call
<1>1. /\ x \in Tab /\ SameTokens(x, w)
      /\ x.calls[s] = NoCall /\ (\A t \in Slots \ {s} : x.calls[t] = w.calls[t])
      /\ x.lists = w.lists /\ x.mishaps = w.mishaps
  BY <1>0, DoneShape
<1>u. u = w.calls[s].who
  OBVIOUS
<1>k. "mine" \in Keys
  BY DEF Keys
<1>v. SignedIn(x, u) = EnterBoard(y, "mine")
  BY DEF SignedIn
<1> HIDE DEF u, x
<1>2. /\ z \in Tab /\ SameTokens(z, x)
      /\ \A t \in Slots : z.calls[t] = Cut(x.calls[t], {"hydrate"})
      /\ z.lists = x.lists /\ z.mishaps = x.mishaps
  BY <1>1, CancelShape
<1> HIDE DEF z
<1>3. /\ y \in Tab /\ SameTokens(y, z) /\ y.status = "authenticated" /\ y.user = u /\ ~y.submitting
      /\ y.calls = z.calls /\ y.lists = z.lists /\ y.mishaps = z.mishaps
  BY <1>0, <1>2 DEF Tab, SameTokens
<1> HIDE DEF y
<1>4. y.calls[s] = NoCall /\ (\A t \in Slots \ {s} : y.calls[t] = Cut(w.calls[t], {"hydrate"}))
  BY <1>1, <1>2, <1>3, CutNothing
<1>5. SessionInv(y, over)
  BY <1>1, <1>2, <1>3, <1>4, <1>u, ArrivedKeeps DEF SameTokens
<1>6. Present(y) /\ Vacant(y)
  BY <1>3, <1>4 DEF Present, Vacant, NoCall
<1>7. SessionInv(EnterBoard(y, "mine"), over)
  BY <1>5, <1>6, <1>k, EnterKeeps
<1> QED
  BY <1>7, <1>v DEF x, u

\* me came back at a page load: the page that was asked for renders.
LEMMA AuthenticatedKeeps ==
  ASSUME NEW w, NEW over, SessionInv(w, over), NEW s \in Slots,
         w.calls[s].op = "hydrate", w.calls[s].live, w.calls[s].at = "ok"
  PROVE  SessionInv(Authenticated(Done(w, s), w.calls[s].who), over)
<1> DEFINE u == w.calls[s].who
           x == Done(w, s)
           y == [x EXCEPT !.status = "authenticated", !.user = u]
<1>0. w \in Tab /\ u \in Members \cup {None} /\ \A t \in Slots : w.calls[t] \in Call
  BY DEF SessionInv, Typed, Tab, Call
<1>1. /\ x \in Tab /\ SameTokens(x, w) /\ SamePage(x, w)
      /\ x.calls[s] = NoCall /\ (\A t \in Slots \ {s} : x.calls[t] = w.calls[t])
      /\ x.lists = w.lists /\ x.mishaps = w.mishaps
  BY <1>0, DoneShape
<1>u. u = w.calls[s].who
  OBVIOUS
<1>k. "mine" \in Keys
  BY DEF Keys
<1>v. Authenticated(x, u) = IF x.route = "login" THEN y ELSE EnterBoard(y, "mine")
  BY DEF Authenticated
<1> HIDE DEF u, x
<1>3. /\ y \in Tab /\ SameTokens(y, x) /\ y.status = "authenticated" /\ y.user = u
      /\ y.submitting = x.submitting
      /\ y.calls = x.calls /\ y.lists = x.lists /\ y.mishaps = x.mishaps
  BY <1>0, <1>1 DEF Tab, SameTokens
<1> HIDE DEF y
<1>5. SessionInv(y, over)
  BY <1>0, <1>1, <1>3, <1>u, ArrivedKeeps DEF SameTokens, SamePage
<1>6. Present(y) /\ Vacant(y)
  BY <1>1, <1>3 DEF Present, Vacant, NoCall
<1>7. SessionInv(EnterBoard(y, "mine"), over)
  BY <1>5, <1>6, <1>k, EnterKeeps
<1> QED
  BY <1>5, <1>7, <1>v DEF x, u

\* What Anonymous(ClearTokens(...)) leaves of a tab.
LEMMA DroppedShape ==
  ASSUME NEW w \in Tab
  PROVE  LET v == Anonymous(ClearTokens(w))
         IN /\ LeftBy(v, w) /\ v.access = None /\ v.refresh = None /\ v.lists = w.lists
            /\ w.refreshing.at # "idle" => "refresh" \in v.mishaps
<1> DEFINE x == ClearTokens(w)
           v == Anonymous(x)
<1>1. /\ x \in Tab
      /\ x.access = None /\ x.refresh = None /\ x.refreshing = w.refreshing
      /\ SameMember(x, w) /\ SamePage(x, w)
      /\ x.calls = w.calls /\ x.lists = w.lists
      /\ w.mishaps \subseteq x.mishaps
      /\ w.refreshing.at # "idle" => "refresh" \in x.mishaps
  BY ClearTokensShape
<1> HIDE DEF x
<1>2. /\ LeftBy(v, x)
      /\ v.access = x.access /\ v.refresh = x.refresh
      /\ v.lists = x.lists /\ v.mishaps = x.mishaps
  BY <1>1, AnonymousShape
<1> HIDE DEF v
<1>3. LeftBy(v, w)
  BY <1>1, <1>2 DEF LeftBy, SamePage
<1> QED
  BY <1>1, <1>2, <1>3 DEF v, x

\* me failed for a sign-in.
LEMMA SignInFailedKeeps ==
  ASSUME NEW w, NEW over, SessionInv(w, over), NEW s \in Slots, w.calls[s].op = "signin"
  PROVE  SessionInv(SignInFailed(Done(w, s)), over)
<1> DEFINE x == Done(w, s)
           y == Anonymous(ClearTokens(x))
           v == [y EXCEPT !.submitting = FALSE]
<1>0. w \in Tab
  BY DEF SessionInv, Typed, Tab
<1>1. /\ x \in Tab /\ SameTokens(x, w)
      /\ x.calls[s] = NoCall /\ (\A t \in Slots \ {s} : x.calls[t] = w.calls[t])
      /\ x.lists = w.lists /\ x.mishaps = w.mishaps
  BY <1>0, DoneShape
<1>v. SignInFailed(x) = v
  BY DEF SignInFailed
<1> HIDE DEF x
<1>2. /\ LeftBy(y, x) /\ y.access = None /\ y.refresh = None /\ y.lists = x.lists
      /\ x.refreshing.at # "idle" => "refresh" \in y.mishaps
  BY <1>1, DroppedShape
<1> HIDE DEF y
<1>3. /\ v \in Tab /\ v.access = None /\ v.refresh = None /\ v.refreshing = y.refreshing
      /\ v.status = y.status /\ ~v.submitting
      /\ v.calls = y.calls /\ v.lists = y.lists /\ v.mishaps = y.mishaps
  BY <1>2 DEF Tab, LeftBy
<1> HIDE DEF v
<1>4. /\ y.calls[s] = NoCall
      /\ (\A t \in Slots \ {s} : y.calls[t] = Cut(w.calls[t], {"list", "hydrate"}))
  BY <1>1, <1>2, CutNothing DEF LeftBy
<1>5. v.calls[s].op = "none" /\ v.calls[s].at = "idle" /\ ~v.calls[s].again
  BY <1>3, <1>4 DEF NoCall
<1>6. /\ v.refreshing = w.refreshing /\ v.status = "anonymous" /\ v.lists = w.lists
      /\ w.mishaps \subseteq v.mishaps
      /\ w.refreshing.at # "idle" => "refresh" \in v.mishaps
  BY <1>1, <1>2, <1>3 DEF LeftBy, SameTokens
<1>7. SessionInv(v, over)
  BY <1>3, <1>4, <1>5, <1>6, DroppedKeeps
<1> QED
  BY <1>7, <1>v DEF x

\* me failed at a page load.
LEMMA HydrationFailedKeeps ==
  ASSUME NEW w, NEW over, SessionInv(w, over), NEW s \in Slots,
         w.calls[s].op = "hydrate", w.calls[s].live, w.calls[s].at # "waiting",
         NEW verdict \in BOOLEAN
  PROVE  SessionInv(HydrationFailed(Done(w, s), verdict), over)
<1> DEFINE x == Done(w, s)
<1>0. w \in Tab
  BY DEF SessionInv, Typed, Tab
<1>1. /\ x \in Tab /\ SameTokens(x, w) /\ SameMember(x, w) /\ SamePage(x, w)
      /\ x.calls[s] = NoCall /\ (\A t \in Slots \ {s} : x.calls[t] = w.calls[t])
      /\ x.lists = w.lists /\ x.mishaps = w.mishaps
  BY <1>0, DoneShape
<1>i. SessionInv(x, over)
  BY DoneKeeps
<1>d. x = Done(w, s)
  OBVIOUS
<1> HIDE DEF x
<1>q. ~Saw(x, {"refresh", "early"}) => Quiet(x)
  <2> SUFFICES ASSUME ~Saw(x, {"refresh", "early"}) PROVE Quiet(x)
    OBVIOUS
  <2>1. NobodyYet(w)
    BY <1>1 DEF SessionInv, TokensAgree, Saw
  <2>2. w.status = "loading" /\ \A t \in Slots \ {s} : w.calls[t].op = "none"
    BY <2>1 DEF NobodyYet
  <2> QED
    BY <2>2, <1>1 DEF Quiet, NoCall, SameMember
<1>2. CASE verdict
  <2> DEFINE v == Anonymous(ClearTokens(x))
  <2>1. /\ LeftBy(v, x) /\ v.access = None /\ v.refresh = None /\ v.lists = x.lists
        /\ x.refreshing.at # "idle" => "refresh" \in v.mishaps
    BY <1>1, DroppedShape
  <2>2. HydrationFailed(x, verdict) = v
    BY <1>2 DEF HydrationFailed
  <2> HIDE DEF v
  <2>4. /\ v.calls[s] = NoCall
        /\ (\A t \in Slots \ {s} : v.calls[t] = Cut(w.calls[t], {"list", "hydrate"}))
    BY <1>1, <2>1, CutNothing DEF LeftBy
  <2>5. v.calls[s].op = "none" /\ v.calls[s].at = "idle" /\ ~v.calls[s].again
    BY <2>4 DEF NoCall
  <2>6. /\ v.refreshing = w.refreshing /\ v.status = "anonymous" /\ v.lists = w.lists
        /\ w.mishaps \subseteq v.mishaps /\ v \in Tab /\ v.submitting = w.submitting
        /\ w.refreshing.at # "idle" => "refresh" \in v.mishaps
    BY <1>1, <2>1 DEF LeftBy, SameTokens, SamePage
  <2>7. SessionInv(v, over)
    BY <2>1, <2>4, <2>5, <2>6, DroppedKeeps
  <2> QED
    BY <2>2, <2>7, <1>d
<1>3. CASE ~verdict /\ x.retries > 0
  <2> DEFINE y == [x EXCEPT !.retries = @ - 1]
             call == Request("hydrate")
             v == Issue(y, call)
  <2>1. /\ y \in Tab /\ SameTokens(y, x) /\ SameMember(y, x) /\ y.submitting = x.submitting
        /\ y.calls = x.calls /\ y.lists = x.lists /\ y.mishaps = x.mishaps
    BY <1>1, <1>3 DEF Tab, SameTokens, SameMember
  <2>2. call \in Call /\ call.op = "hydrate" /\ ~call.again
    BY RequestTyped DEF Ops
  <2>3. HydrationFailed(x, verdict) = v
    BY <1>3 DEF HydrationFailed
  <2> HIDE DEF y, call
  <2>4. SessionInv(y, over) /\ (~Saw(y, {"refresh", "early"}) => Quiet(y))
    BY <2>1, <1>i, <1>q, PageKeeps DEF Saw, Quiet, SameMember
  <2>5. \E t \in Slots : y.calls[t].op = "none"
    BY <1>1, <2>1 DEF NoCall
  <2>6. /\ v \in Tab
        /\ SameTokens(v, y) /\ SameMember(v, y) /\ SamePage(v, y)
        /\ Issued(v, y, call)
        /\ v.lists = y.lists /\ v.mishaps = y.mishaps
    BY <2>1, <2>2, <2>5, IssueShape DEF Issued
  <2> HIDE DEF v
  <2>7. SessionInv(v, over)
    BY <2>2, <2>4, <2>6, CheckKeeps DEF SamePage
  <2> QED
    BY <2>3, <2>7, <1>d
<1>4. CASE ~verdict /\ ~(x.retries > 0)
  <2> DEFINE y == Anonymous(x)
             v == Noting(y, "blip", TRUE)
  <2>1. /\ LeftBy(y, x)
        /\ y.access = x.access /\ y.refresh = x.refresh
        /\ y.lists = x.lists /\ y.mishaps = x.mishaps
    BY <1>1, AnonymousShape
  <2>2. HydrationFailed(x, verdict) = v
    BY <1>4 DEF HydrationFailed
  <2> HIDE DEF y
  <2>3. /\ v \in Tab /\ SameTokens(v, y) /\ SameMember(v, y) /\ SamePage(v, y)
        /\ v.calls = y.calls /\ v.lists = y.lists /\ v.mishaps = y.mishaps \cup {"blip"}
    BY <2>1, NotingShape DEF Mishaps, LeftBy
  <2> HIDE DEF v
  <2>4. /\ SameTokens(v, x) /\ v.status = "anonymous" /\ v.submitting = x.submitting
        /\ v.lists = x.lists /\ v.mishaps = x.mishaps \cup {"blip"}
        /\ \A t \in Slots : v.calls[t] = Cut(x.calls[t], {"list", "hydrate"})
    BY <2>1, <2>3 DEF LeftBy, SameTokens, SameMember, SamePage
  <2>5. SessionInv(v, over)
    BY <1>i, <1>q, <2>3, <2>4, BlipKeeps
  <2> QED
    BY <2>2, <2>5, <1>d
<1> QED
  BY <1>2, <1>3, <1>4

\* A page load.
LEMMA LoadedKeeps ==
  ASSUME NEW w \in Tab, NEW over, ~Saw(w, {"refresh", "early"}) => StoredPaired(w),
         NEW route \in {"login", "board", "editor"}
  PROVE  SessionInv(Loaded(w, route), over)
<1> DEFINE fresh == [w EXCEPT
            !.refreshing = [at |-> "idle", who |-> None], !.stuck = FALSE,
            !.calls = [s \in Slots |-> NoCall],
            !.lists = [k \in Keys |-> None],
            !.user = None, !.retries = 2, !.submitting = FALSE, !.composing = FALSE,
            !.key = "mine", !.mishaps = @ \ {"resync", "patch", "delete", "profile", "stuck"}]
           out == [fresh EXCEPT !.status = "anonymous", !.route = "login"]
           y == [fresh EXCEPT !.status = "loading", !.route = route]
           call == Request("hydrate")
           v == Issue(y, call)
<1>0. w \in Tab /\ NoCall \in Call
  BY DEF NoCall, Call, Ops, At, Keys
<1>1. /\ fresh.access = w.access /\ fresh.refresh = w.refresh /\ fresh.refreshing.at = "idle"
      /\ (\A k \in Keys : fresh.lists[k] = None) /\ (\A s \in Slots : fresh.calls[s] = NoCall)
      /\ fresh.mishaps = w.mishaps \ {"resync", "patch", "delete", "profile", "stuck"}
  BY <1>0 DEF Tab
<1>2. fresh \in Tab
  <2> DEFINE ref == [at |-> "idle", who |-> None]
             cs == [s \in Slots |-> NoCall]
             ls == [k \in Keys |-> None]
             ms == w.mishaps \ {"resync", "patch", "delete", "profile", "stuck"}
  <2>1. ref \in Refreshing /\ cs \in [Slots -> Call] /\ ls \in [Keys -> List \cup {None}]
        /\ "mine" \in Keys /\ ms \in SUBSET Mishaps
    BY <1>0 DEF Refreshing, Keys, Tab
  <2>2. fresh = [w EXCEPT !.refreshing = ref, !.stuck = FALSE, !.calls = cs, !.lists = ls, !.user = None,
                          !.retries = 2, !.submitting = FALSE, !.composing = FALSE,
                          !.key = "mine", !.mishaps = ms]
    BY <1>0 DEF Tab
  <2> HIDE DEF ref, cs, ls, ms, fresh
  <2>3. 2 \in 0..2
    OBVIOUS
  <2> QED
    BY <1>0, <2>1, <2>2, <2>3 DEF Tab
<1>3. Loaded(w, route) = IF w.access = None /\ w.refresh = None THEN out ELSE v
  BY DEF Loaded
<1>4. call \in Call /\ call.op = "hydrate" /\ ~call.again
  BY RequestTyped DEF Ops
<1> HIDE DEF fresh, call
<1>5. /\ out \in Tab /\ out.status = "anonymous"
      /\ out.access = fresh.access /\ out.refresh = fresh.refresh /\ out.refreshing = fresh.refreshing
      /\ out.lists = fresh.lists /\ out.calls = fresh.calls /\ out.mishaps = fresh.mishaps
  BY <1>2 DEF Tab
<1>6. /\ y \in Tab /\ y.status = "loading"
      /\ y.access = fresh.access /\ y.refresh = fresh.refresh /\ y.refreshing = fresh.refreshing
      /\ y.lists = fresh.lists /\ y.calls = fresh.calls /\ y.mishaps = fresh.mishaps
  BY <1>2 DEF Tab
<1> HIDE DEF out, y
<1>7. CASE w.access = None /\ w.refresh = None
  <2>1. SessionInv(out, over)
    BY <1>1, <1>5, <1>7, FreshKeeps
  <2> QED
    BY <2>1, <1>3, <1>7
<1>8. CASE ~(w.access = None /\ w.refresh = None)
  <2>1. SessionInv(y, over)
    BY <1>1, <1>6, <1>8, FreshKeeps
  <2>2. Quiet(y) /\ \E s \in Slots : y.calls[s].op = "none"
    BY <1>1, <1>6, SessionAssumption DEF Quiet, NoCall
  <2>3. /\ v \in Tab
        /\ SameTokens(v, y) /\ SameMember(v, y) /\ SamePage(v, y)
        /\ Issued(v, y, call)
        /\ v.lists = y.lists /\ v.mishaps = y.mishaps
    BY <1>4, <1>6, <2>2, IssueShape DEF Issued
  <2> HIDE DEF v
  <2>4. SessionInv(v, over)
    BY <1>4, <2>1, <2>2, <2>3, CheckKeeps DEF SamePage
  <2> QED
    BY <2>4, <1>3, <1>8
<1> QED
  BY <1>7, <1>8

(***************************************************************************)
(* What the actions of the board are made of.                              *)
(***************************************************************************)

LEMMA NotedIssueShape ==
  ASSUME NEW w \in Tab, NEW m \in Mishaps, NEW cond \in BOOLEAN, NEW call \in Call, Vacant(w)
  PROVE  LET v == Issue(Noting(w, m, cond), call)
         IN /\ v \in Tab
            /\ SameTokens(v, w) /\ SameMember(v, w) /\ SamePage(v, w)
            /\ Issued(v, w, call)
            /\ v.lists = w.lists
            /\ v.mishaps = IF cond THEN w.mishaps \cup {m} ELSE w.mishaps
<1> DEFINE x == Noting(w, m, cond)
           v == Issue(x, call)
<1>1. /\ x \in Tab
      /\ SameTokens(x, w) /\ SameMember(x, w) /\ SamePage(x, w)
      /\ x.calls = w.calls /\ x.lists = w.lists
      /\ x.mishaps = IF cond THEN w.mishaps \cup {m} ELSE w.mishaps
  BY NotingShape
<1> HIDE DEF x
<1>2. \E s \in Slots : x.calls[s].op = "none"
  BY <1>1 DEF Vacant
<1>3. /\ v \in Tab
      /\ SameTokens(v, x) /\ SameMember(v, x) /\ SamePage(v, x)
      /\ \E s \in Slots : /\ x.calls[s].op = "none" /\ v.calls[s] = AsSent(x, call)
                          /\ \A t \in Slots \ {s} : v.calls[t] = x.calls[t]
      /\ v.lists = x.lists /\ v.mishaps = x.mishaps
  BY <1>1, <1>2, IssueShape
<1> HIDE DEF v
<1>4. AsSent(x, call) = AsSent(w, call)
  BY <1>1 DEF AsSent, SameTokens
<1>5. Issued(v, w, call)
  BY <1>1, <1>3, <1>4 DEF Issued
<1> QED
  BY <1>1, <1>3, <1>5 DEF SameTokens, SameMember, SamePage, v, x

\* Calls whose results are dropped keep the invariant, and leave room.
LEMMA CancelKeeps ==
  ASSUME NEW w, NEW over, SessionInv(w, over), NEW op
  PROVE  /\ SessionInv(Cancel(w, op), over)
         /\ Vacant(w) => Vacant(Cancel(w, op))
<1> DEFINE v == Cancel(w, op)
<1>1. w \in Tab /\ \A s \in Slots : w.calls[s] \in Call
  BY DEF SessionInv, Typed, Tab
<1>2. /\ v \in Tab
      /\ SameTokens(v, w) /\ SameMember(v, w) /\ SamePage(v, w)
      /\ \A s \in Slots : v.calls[s] = Cut(w.calls[s], {op})
      /\ v.lists = w.lists /\ v.mishaps = w.mishaps
  BY <1>1, CancelShape
<1> HIDE DEF v
<1>3. \A s \in Slots : Lesser(v.calls[s], w.calls[s])
  BY <1>2 DEF Lesser, Cut
<1>4. SessionInv(v, over)
  BY <1>2, <1>3, LessKeeps DEF SamePage
<1>5. \A s \in Slots : v.calls[s].op = w.calls[s].op
  BY <1>1, <1>2 DEF Cut, Call
<1> QED
  BY <1>4, <1>5 DEF v, Vacant

\* A change goes out.
LEMMA WriteKeeps ==
  ASSUME NEW w, NEW over, SessionInv(w, over), Present(w), Vacant(w), NEW call \in Call,
         call.op \in {"patch", "delete", "save", "create"}, ~call.again,
         call.op = "save" => call.ids # {}
  PROVE  SessionInv(Write(w, call), over)
<1> DEFINE cond == Fetching(w) \/ Writing(w)
           v == Issue(Noting(w, "raced", cond), call)
<1>1. w \in Tab /\ cond \in BOOLEAN /\ "raced" \in Mishaps
  BY DEF SessionInv, Typed, Mishaps, Fetching, Writing, InFlight
<1>2. Write(w, call) = v
  BY DEF Write
<1> HIDE DEF cond
<1>3. /\ v \in Tab
      /\ SameTokens(v, w) /\ SameMember(v, w) /\ SamePage(v, w)
      /\ Issued(v, w, call)
      /\ v.lists = w.lists
      /\ v.mishaps = IF cond THEN w.mishaps \cup {"raced"} ELSE w.mishaps
  BY <1>1, NotedIssueShape
<1> HIDE DEF v
<1>4. w.mishaps \subseteq v.mishaps /\ v.submitting = w.submitting /\ w.status = "authenticated"
  BY <1>3 DEF SamePage, Present
<1>5. call.op # "profile" /\ call.op \in {"profile", "list", "resync", "patch", "delete", "save", "create"}
  OBVIOUS
<1>6. SessionInv(v, over)
  BY <1>3, <1>4, <1>5, IssueKeeps
<1> QED
  BY <1>2, <1>6

\* setCached of lib/boardCache.ts.
LEMMA SetCachedShape ==
  ASSUME NEW w \in Tab, NEW key \in Keys, NEW u \in Members, NEW rows \in SUBSET Row
  PROVE  LET v == SetCached(w, key, u, rows)
         IN /\ v \in Tab
            /\ SameTokens(v, w) /\ SameMember(v, w) /\ SamePage(v, w)
            /\ v.calls = w.calls /\ v.mishaps = w.mishaps
            /\ v.lists[key] = [of |-> u, rows |-> rows]
            /\ \A k \in Keys : k # key => v.lists[k] = w.lists[k]
<1> DEFINE l == [of |-> u, rows |-> rows]
<1>1. l \in List
  BY DEF List
<1>2. SetCached(w, key, u, rows) = [w EXCEPT !.lists[key] = l]
  BY DEF SetCached
<1> HIDE DEF l
<1>3. LET v == [w EXCEPT !.lists[key] = l]
      IN /\ v \in Tab /\ v.lists[key] = l
         /\ \A k \in Keys : k # key => v.lists[k] = w.lists[k]
  BY <1>1 DEF Tab
<1>4. LET v == [w EXCEPT !.lists[key] = l]
      IN /\ SameTokens(v, w) /\ SameMember(v, w) /\ SamePage(v, w)
         /\ v.calls = w.calls /\ v.mishaps = w.mishaps
  BY DEF Tab, SameTokens, SameMember, SamePage
<1> QED
  BY <1>2, <1>3, <1>4 DEF l

\* The list on screen changes before the server does.
LEMMA UpdateKeeps ==
  ASSUME NEW w, NEW over, SessionInv(w, over), NEW key \in Keys, w.lists[key] # None,
         NEW rows \in SUBSET Row
  PROVE  LET v == UpdateCached(w, key, rows)
         IN /\ SessionInv(v, over)
            /\ v \in Tab /\ v.calls = w.calls /\ v.mishaps = w.mishaps
            /\ SameTokens(v, w) /\ SameMember(v, w) /\ SamePage(v, w)
            /\ v.lists[key] = [of |-> w.lists[key].of, rows |-> rows]
            /\ \A k \in Keys : k # key => v.lists[k] = w.lists[k]
<1> DEFINE u == w.lists[key].of
           v == SetCached(w, key, u, rows)
<1>1. w \in Tab /\ w.lists[key] \in List
  BY DEF SessionInv, Typed, Tab
<1>2. u \in Members
  BY <1>1 DEF List
<1>3. UpdateCached(w, key, rows) = v /\ u = w.lists[key].of
  BY DEF UpdateCached
<1> HIDE DEF u
<1>4. /\ v \in Tab
      /\ SameTokens(v, w) /\ SameMember(v, w) /\ SamePage(v, w)
      /\ v.calls = w.calls /\ v.mishaps = w.mishaps
      /\ v.lists[key] = [of |-> u, rows |-> rows]
      /\ \A k \in Keys : k # key => v.lists[k] = w.lists[k]
  BY <1>1, <1>2, SetCachedShape
<1> HIDE DEF v
<1>5. v.lists[key].of = w.lists[key].of
  BY <1>3, <1>4
<1>6. \A k \in Keys : v.lists[k] # None => w.lists[k] # None /\ v.lists[k].of = w.lists[k].of
  BY <1>4, <1>5
<1>7. SessionInv(v, over)
  BY <1>4, <1>6, CacheKeeps DEF SamePage
<1> QED
  BY <1>3, <1>4, <1>7

\* A call that changes where it is, or what it is about.
LEMMA CallShape ==
  ASSUME NEW w \in Tab, NEW s \in Slots, NEW c \in Call
  PROVE  LET v == [w EXCEPT !.calls[s] = c]
         IN /\ v \in Tab
            /\ SameTokens(v, w) /\ SameMember(v, w) /\ SamePage(v, w)
            /\ v.calls[s] = c /\ \A t \in Slots \ {s} : v.calls[t] = w.calls[t]
            /\ v.lists = w.lists /\ v.mishaps = w.mishaps
BY DEF Tab, SameTokens, SameMember, SamePage

(***************************************************************************)
(* What is known of every state. Each action of the member keeps it.       *)
(***************************************************************************)

Known == TypeOK /\ SessionInv(web, ended)

\* The sign-in form is submitted.
LEMMA SubmitStep ==
  ASSUME Known, NEW u \in Members, Submit(u)
  PROVE  SessionInv(web', ended')
<1> DEFINE y == [web EXCEPT !.submitting = TRUE]
           cond == web.status # "anonymous"
           call == [Request("login") EXCEPT !.who = u]
           v == Issue(Noting(y, "early", cond), call)
<1>1. /\ y \in Tab /\ SameTokens(y, web) /\ SameMember(y, web) /\ y.submitting
      /\ y.calls = web.calls /\ y.lists = web.lists /\ y.mishaps = web.mishaps
  BY DEF Known, TypeOK, Tab, SameTokens, SameMember
<1>2. cond \in BOOLEAN /\ "early" \in Mishaps /\ (cond <=> web.status # "anonymous")
  BY DEF Mishaps
<1>3. call \in Call /\ call.op = "login" /\ ~call.again /\ call.who = u
  BY RequestTyped DEF Ops, Call
<1>4. web' = v /\ ended' = ended /\ ~web.submitting /\ \E s \in Slots : web.calls[s].op = "none"
  BY DEF Submit, Room
<1> HIDE DEF y, cond, call
<1>5. Vacant(y)
  BY <1>1, <1>4 DEF Vacant
<1>6. /\ v \in Tab
      /\ SameTokens(v, y) /\ SameMember(v, y) /\ SamePage(v, y)
      /\ Issued(v, y, call)
      /\ v.lists = y.lists
      /\ v.mishaps = IF cond THEN y.mishaps \cup {"early"} ELSE y.mishaps
  <2>1. y \in Tab /\ cond \in BOOLEAN /\ "early" \in Mishaps /\ call \in Call
    BY <1>1, <1>2, <1>3
  <2> QED
    BY <2>1, <1>5, NotedIssueShape
<1> HIDE DEF v
<1>7. Issued(v, web, call)
  BY <1>1, <1>6 DEF Issued, AsSent, SameTokens
<1>8. /\ SameTokens(v, web) /\ SameMember(v, web) /\ v.submitting /\ v.lists = web.lists
      /\ web.mishaps \subseteq v.mishaps
      /\ web.status # "anonymous" => "early" \in v.mishaps
  BY <1>1, <1>2, <1>6 DEF SameTokens, SameMember, SamePage
<1>9. SessionInv(v, ended)
  BY <1>3, <1>4, <1>6, <1>7, <1>8, SubmitKeeps DEF Known
<1> QED
  BY <1>4, <1>9

\* The member signs out.
LEMMA SignOutStep ==
  ASSUME Known, SignOut
  PROVE  SessionInv(web', ended')
<1>1. EndedBy(SignedOut(web), web) /\ web' = SignedOut(web) /\ ended' = ended
  BY SignedOutShape DEF Known, TypeOK, SignOut
<1>2. web.status # "anonymous"
  BY DEF SignOut, OnBoard, Signed
<1> QED
  BY <1>1, <1>2, EndKeeps DEF Known

\* The page is loaded again.
LEMMA ReloadStep ==
  ASSUME Known, Reload
  PROVE  SessionInv(web', ended')
<1>1. web.route \in {"login", "board", "editor"}
  BY DEF Known, TypeOK, Tab
<1>2. web \in Tab /\ (~Saw(web, {"refresh", "early"}) => StoredPaired(web))
  BY DEF Known, TypeOK, SessionInv, TokensAgree, TokensPaired, StoredPaired
<1> QED
  BY <1>1, <1>2, LoadedKeeps DEF Reload

\* The member changes their name.
LEMMA ChangeProfileStep ==
  ASSUME Known, ChangeProfile
  PROVE  SessionInv(web', ended')
<1> DEFINE call == Request("profile")
           v == Issue(web, call)
<1>1. call \in Call /\ call.op = "profile" /\ ~call.again
  BY RequestTyped DEF Ops
<1>2. /\ web \in Tab /\ web' = v /\ ended' = ended /\ web.status = "authenticated"
      /\ \E s \in Slots : web.calls[s].op = "none"
  BY DEF Known, TypeOK, ChangeProfile, OnBoard, Signed, Room
<1> HIDE DEF call
<1>3. /\ v \in Tab
      /\ SameTokens(v, web) /\ SameMember(v, web) /\ SamePage(v, web)
      /\ Issued(v, web, call)
      /\ v.lists = web.lists /\ v.mishaps = web.mishaps
  BY <1>1, <1>2, IssueShape DEF Issued
<1> HIDE DEF v
<1>4. v.submitting = web.submitting /\ Present(web) /\ web.mishaps \subseteq v.mishaps
  BY <1>2, <1>3 DEF SamePage, Present
<1>5. SessionInv(v, ended)
  BY <1>1, <1>2, <1>3, <1>4, IssueKeeps DEF Known
<1> QED
  BY <1>2, <1>5

\* Another list of the board is opened.
LEMMA SwitchKeyStep ==
  ASSUME Known, NEW key \in Keys, SwitchKey(key)
  PROVE  SessionInv(web', ended')
<1>1. Vacant(web) /\ web' = EnterBoard(Cancel(web, "list"), key) /\ ended' = ended
      /\ web.status = "authenticated" /\ web \in Tab
  BY DEF SwitchKey, Room, Vacant, OnBoard, Signed, Known, TypeOK
<1>2. SessionInv(Cancel(web, "list"), ended) /\ Vacant(Cancel(web, "list"))
  BY <1>1, CancelKeeps DEF Known
<1>3. SameMember(Cancel(web, "list"), web)
  BY <1>1, CancelShape
<1>4. Present(Cancel(web, "list"))
  BY <1>1, <1>3 DEF SameMember, Present
<1> QED
  BY <1>1, <1>2, <1>4, EnterKeeps

\* A note is opened.
LEMMA OpenNoteStep ==
  ASSUME Known, OpenNote
  PROVE  SessionInv(web', ended')
<1> DEFINE y == Cancel(web, "list")
           v == [y EXCEPT !.route = "editor"]
<1>1. SessionInv(y, ended)
  BY CancelKeeps DEF Known
<1>2. web' = v /\ ended' = ended
  BY DEF OpenNote
<1> HIDE DEF y
<1>3. /\ v \in Tab /\ SameTokens(v, y) /\ SameMember(v, y) /\ v.submitting = y.submitting
      /\ v.calls = y.calls /\ v.lists = y.lists /\ v.mishaps = y.mishaps
  BY <1>1 DEF SessionInv, Typed, Tab, SameTokens, SameMember
<1> HIDE DEF v
<1> QED
  BY <1>1, <1>2, <1>3, PageKeeps

\* Back to the board from the editor.
LEMMA BackToBoardStep ==
  ASSUME Known, BackToBoard
  PROVE  SessionInv(web', ended')
<1>1. Present(web) /\ Vacant(web) /\ web.key \in Keys
  BY DEF BackToBoard, Signed, Present, Room, Vacant, Known, TypeOK, Tab
<1> QED
  BY <1>1, EnterKeeps DEF BackToBoard, Known

\* A note is composed.
LEMMA ComposeStep ==
  ASSUME Known, Compose
  PROVE  SessionInv(web', ended')
<1> DEFINE y == [web EXCEPT !.composing = TRUE]
           call == Request("create")
<1>1. /\ y \in Tab /\ SameTokens(y, web) /\ SameMember(y, web) /\ y.submitting = web.submitting
      /\ y.calls = web.calls /\ y.lists = web.lists /\ y.mishaps = web.mishaps
  BY DEF Known, TypeOK, Tab, SameTokens, SameMember
<1>2. call \in Call /\ call.op = "create" /\ ~call.again
  BY RequestTyped DEF Ops
<1>3. web' = Write(y, call) /\ ended' = ended /\ Present(web) /\ Vacant(web)
  BY DEF Compose, OnBoard, Signed, Room, Present, Vacant
<1> HIDE DEF y, call
<1>4. SessionInv(y, ended) /\ Present(y) /\ Vacant(y)
  BY <1>1, <1>3, PageKeeps DEF Known, Present, Vacant, SameMember
<1> QED
  BY <1>2, <1>3, <1>4, WriteKeeps

\* A card on screen is one of the list's rows, which a request may be about.
LEMMA ShownTyped ==
  ASSUME Known
  PROVE  Shown \subseteq Row /\ (Shown # {} => web.lists[web.key] # None) /\ web.key \in Keys
<1>1. web.key \in Keys /\ web.lists[web.key] \in List \cup {None}
  BY DEF Known, TypeOK, Tab
<1> QED
  BY <1>1 DEF Shown, List

\* The call that patches a note.
LEMMA PatchTyped ==
  ASSUME NEW n \in Notes, NEW p \in Patches, NEW k \in Keys
  PROVE  LET c == [Request("patch") EXCEPT !.ids = {n}, !.patch = p, !.key = k]
         IN c \in Call /\ c.op = "patch" /\ ~c.again /\ c.ids = {n} /\ c.patch = p /\ c.key = k
            /\ c.live
<1> DEFINE r == Request("patch")
<1>1. r \in Call /\ r.op = "patch" /\ ~r.again /\ r.live
  BY RequestTyped DEF Ops
<1> HIDE DEF r
<1>2. LET c == [r EXCEPT !.ids = {n}, !.patch = p, !.key = k]
      IN c \in Call /\ c.op = "patch" /\ ~c.again /\ c.ids = {n} /\ c.patch = p /\ c.key = k
         /\ c.live
  BY <1>1 DEF Call
<1> QED
  BY <1>2 DEF r

\* A note is pinned, unpinned, archived or taken out of the archive.
LEMMA OrganizeStep ==
  ASSUME Known, NEW row \in Shown, NEW patch \in Patches, Organize(row, patch)
  PROVE  SessionInv(web', ended')
<1> DEFINE changed == IF patch \in {"pin", "unpin"} THEN {[row EXCEPT !.pinned = patch = "pin"]} ELSE {}
           rows == (Shown \ {row}) \cup changed
           y == UpdateCached(web, web.key, rows)
           call == [Request("patch") EXCEPT !.ids = {row.id}, !.patch = patch, !.key = web.key]
<1>1. Shown \subseteq Row /\ web.lists[web.key] # None /\ web.key \in Keys
  BY ShownTyped
<1>2. row.id \in Notes /\ rows \in SUBSET Row
  BY <1>1 DEF Row
<1>3. call \in Call /\ call.op = "patch" /\ ~call.again
  <2> DEFINE n == row.id
             k == web.key
  <2>1. n \in Notes /\ k \in Keys
    BY <1>1, <1>2
  <2> HIDE DEF n, k
  <2>2. LET c == [Request("patch") EXCEPT !.ids = {n}, !.patch = patch, !.key = k]
        IN c \in Call /\ c.op = "patch" /\ ~c.again /\ c.ids = {n} /\ c.patch = patch /\ c.key = k
           /\ c.live
    BY <2>1, PatchTyped, Zenon
  <2> QED
    BY <2>2 DEF n, k
<1>4. web' = Write(y, call) /\ ended' = ended /\ Present(web) /\ Vacant(web)
  BY DEF Organize, OnBoard, Signed, Room, Present, Vacant
<1> HIDE DEF rows, call
<1>5. SessionInv(y, ended) /\ y.calls = web.calls /\ SameMember(y, web)
  <2> DEFINE k == web.key
  <2>1. k \in Keys /\ web.lists[k] # None /\ rows \in SUBSET Row /\ SessionInv(web, ended)
    BY <1>1, <1>2 DEF Known
  <2>2. y = UpdateCached(web, k, rows)
    OBVIOUS
  <2> HIDE DEF k, y
  <2> QED
    BY <2>1, <2>2, UpdateKeeps
<1> HIDE DEF y
<1>6. Present(y) /\ Vacant(y)
  BY <1>4, <1>5 DEF Present, Vacant, SameMember
<1> QED
  BY <1>3, <1>4, <1>5, <1>6, WriteKeeps

\* The call that deletes notes.
LEMMA DeleteTyped ==
  ASSUME NEW ids \in SUBSET Notes, NEW k \in Keys
  PROVE  LET c == [Request("delete") EXCEPT !.ids = ids, !.key = k]
         IN c \in Call /\ c.op = "delete" /\ ~c.again /\ c.ids = ids /\ c.key = k /\ c.live
<1> DEFINE r == Request("delete")
<1>1. r \in Call /\ r.op = "delete" /\ ~r.again /\ r.live
  BY RequestTyped DEF Ops
<1> HIDE DEF r
<1>2. LET c == [r EXCEPT !.ids = ids, !.key = k]
      IN c \in Call /\ c.op = "delete" /\ ~c.again /\ c.ids = ids /\ c.key = k /\ c.live
  BY <1>1 DEF Call
<1> QED
  BY <1>2 DEF r

\* Notes are deleted.
LEMMA DeleteStep ==
  ASSUME Known, NEW ids \in SUBSET Notes, Delete(ids)
  PROVE  SessionInv(web', ended')
<1> DEFINE rows == {r \in Shown : r.id \notin ids}
           y == UpdateCached(web, web.key, rows)
           call == [Request("delete") EXCEPT !.ids = ids, !.key = web.key]
<1>1. Shown # {}
  <2>1. CASE ids \in CardDeletes
    BY <2>1 DEF CardDeletes
  <2>2. CASE ids \in Selections
    <3>1. ids # {} /\ ids \subseteq {r.id : r \in Shown}
      BY <2>2 DEF Selections
    <3> QED
      BY <3>1
  <2> QED
    BY <2>1, <2>2 DEF Delete
<1>2. Shown \subseteq Row /\ web.lists[web.key] # None /\ web.key \in Keys /\ rows \in SUBSET Row
  <2>1. Shown \subseteq Row /\ web.lists[web.key] # None /\ web.key \in Keys
    BY <1>1, ShownTyped
  <2>2. rows \subseteq Shown
    OBVIOUS
  <2> HIDE DEF rows
  <2> QED
    BY <2>1, <2>2
<1>3. call \in Call /\ call.op = "delete" /\ ~call.again
  <2> DEFINE k == web.key
  <2>1. k \in Keys
    BY <1>2
  <2> HIDE DEF k
  <2>2. LET c == [Request("delete") EXCEPT !.ids = ids, !.key = k]
        IN c \in Call /\ c.op = "delete" /\ ~c.again
    BY <2>1, DeleteTyped
  <2> QED
    BY <2>2 DEF k
<1>4. web' = Write(y, call) /\ ended' = ended /\ Present(web) /\ Vacant(web)
  BY DEF Delete, OnBoard, Signed, Room, Present, Vacant
<1> HIDE DEF rows, call
<1>5. SessionInv(y, ended) /\ y.calls = web.calls /\ SameMember(y, web)
  <2> DEFINE k == web.key
  <2>1. k \in Keys /\ web.lists[k] # None /\ rows \in SUBSET Row /\ SessionInv(web, ended)
    BY <1>2 DEF Known
  <2>2. y = UpdateCached(web, k, rows)
    OBVIOUS
  <2> HIDE DEF k, y
  <2> QED
    BY <2>1, <2>2, UpdateKeeps
<1> HIDE DEF y
<1>6. Present(y) /\ Vacant(y)
  BY <1>4, <1>5 DEF Present, Vacant, SameMember
<1> QED
  BY <1>3, <1>4, <1>5, <1>6, WriteKeeps

\* The editor saves.
LEMMA SaveNoteStep ==
  ASSUME Known, NEW n \in Notes, SaveNote(n)
  PROVE  SessionInv(web', ended')
<1> DEFINE call == [Request("save") EXCEPT !.ids = {n}]
<1>1. call \in Call /\ call.op = "save" /\ ~call.again /\ call.ids # {}
  BY RequestTyped DEF Ops, Call
<1>2. web' = Write(web, call) /\ ended' = ended /\ Present(web) /\ Vacant(web)
  BY DEF SaveNote, Signed, Room, Present, Vacant
<1> HIDE DEF call
<1> QED
  BY <1>1, <1>2, WriteKeeps DEF Known

(***************************************************************************)
(* What the server and the network do keeps it.                            *)
(***************************************************************************)

LEMMA ServedKeeps ==
  ASSUME NEW w, NEW over, SessionInv(w, over), NEW s \in Slots, NEW d \in Call,
         Brings(d, w.calls[s], over)
  PROVE  SessionInv([w EXCEPT !.calls[s] = d], over)
<1> DEFINE v == [w EXCEPT !.calls[s] = d]
<1>1. w \in Tab
  BY DEF SessionInv, Typed
<1>2. /\ v \in Tab
      /\ SameTokens(v, w) /\ SameMember(v, w) /\ SamePage(v, w)
      /\ v.calls[s] = d /\ \A t \in Slots \ {s} : v.calls[t] = w.calls[t]
      /\ v.lists = w.lists /\ v.mishaps = w.mishaps
  BY <1>1, CallShape
<1> HIDE DEF v
<1>3. SessionInv(v, over)
  BY <1>2, ProgressKeeps DEF SamePage
<1> QED
  BY <1>3 DEF v

\* The server checks credentials.
LEMMA ServeLoginStep ==
  ASSUME Known, NEW s \in Slots, ServeLogin(s)
  PROVE  SessionInv(web', ended')
<1> DEFINE c == web.calls[s]
           at == IF c.who \in ended THEN "refused" ELSE "ok"
           d == [c EXCEPT !.at = at]
<1>1. web \in Tab /\ c \in Call /\ c.op = "login" /\ c.at = "sent" /\ ended' = ended
  BY DEF Known, TypeOK, Tab, ServeLogin
<1>2. web' = [web EXCEPT !.calls[s] = d]
  BY <1>1 DEF ServeLogin, Answer, Tab
<1>3. at \in {"refused", "ok"}
  OBVIOUS
<1> HIDE DEF at, c
<1>4. d \in Call
  BY <1>1, <1>3 DEF Call, At
<1>5. Brings(d, c, ended)
  BY <1>1, <1>3 DEF Brings, Call
<1> HIDE DEF d
<1> QED
  BY <1>1, <1>2, <1>4, <1>5, ServedKeeps DEF Known, c

\* The verdict on the token a call carries.
LEMMA RejectedIs ==
  ASSUME NEW c \in Call
  PROVE  /\ Rejected(c) = "no" => c.token \in Token /\ c.token # None /\ c.token.who \in Members
         /\ Rejected(c) = "denied" => c.token = None \/ c.token.old
         /\ Rejected(c) = "disabled" => c.token # None /\ c.token.who \in ended
         /\ Rejected(c) \in {"no", "denied", "disabled"}
<1>1. c.token \in Token \cup {None}
  BY DEF Call
<1>2. CASE c.token = None
  BY <1>2 DEF Rejected
<1>3. CASE c.token # None
  <2>1. c.token.who \in Members /\ c.token.old \in BOOLEAN
    BY <1>1, <1>3 DEF Token
  <2> QED
    BY <1>1, <1>3, <2>1 DEF Rejected
<1> QED
  BY <1>2, <1>3

\* The server turns a call down: its token expired, or its member is disabled.
LEMMA ServeRejectedStep ==
  ASSUME Known, NEW s \in Slots, ServeRejected(s)
  PROVE  SessionInv(web', ended')
<1> DEFINE c == web.calls[s]
           at == Rejected(c)
           d == [c EXCEPT !.at = at]
<1>1. web \in Tab /\ c \in Call /\ c.op # "login" /\ c.at = "sent" /\ ended' = ended /\ CallTyped(c)
  BY DEF Known, TypeOK, Tab, ServeRejected, SessionInv, Typed
<1>2. web' = [web EXCEPT !.calls[s] = d]
  BY <1>1 DEF ServeRejected, Answer, Tab
<1>3. /\ at \in {"denied", "disabled"}
      /\ at = "denied" => c.token = None \/ c.token.old
      /\ at = "disabled" => c.token # None /\ c.token.who \in ended
  BY <1>1, RejectedIs DEF ServeRejected
<1>4. c.op # "none" /\ (c.op = "save" => c.ids # {})
  BY <1>1 DEF CallTyped
<1> HIDE DEF at, c
<1>5. d \in Call
  BY <1>1, <1>3 DEF Call, At
<1>6. Brings(d, c, ended)
  BY <1>1, <1>3, <1>4 DEF Brings, Call
<1> HIDE DEF d
<1> QED
  BY <1>1, <1>2, <1>5, <1>6, ServedKeeps DEF Known, c

\* What the server lists can be shown.
LEMMA ListingTyped ==
  ASSUME Known, NEW u, NEW key
  PROVE  Listing(u, key) \subseteq Row
<1>1. \A n \in Notes : RowOf(n) \in Row
  BY DEF RowOf, Row, Known, TypeOK, Note
<1> QED
  BY <1>1 DEF Listing

\* The server answers a call that changes nothing.
LEMMA ServeReadStep ==
  ASSUME Known, NEW s \in Slots, ServeRead(s)
  PROVE  SessionInv(web', ended')
<1> DEFINE c == web.calls[s]
           u == c.token.who
           rows == IF c.op \in {"list", "resync"} THEN Listing(u, c.key) ELSE {}
           d == [c EXCEPT !.at = "ok", !.who = u, !.rows = rows]
<1>1. /\ web \in Tab /\ c \in Call /\ c.at = "sent" /\ ended' = ended
      /\ c.op \in {"hydrate", "signin", "profile", "list", "resync"}
      /\ Rejected(c) = "no"
  BY DEF Known, TypeOK, Tab, ServeRead, Serving
<1>2. web' = [web EXCEPT !.calls[s] = d]
  <2>1. AnswerFrom(s, u, rows)
    BY DEF ServeRead
  <2> HIDE DEF rows, u
  <2> QED
    BY <1>1, <2>1 DEF AnswerFrom, Tab
<1>3. u \in Members /\ c.token # None
  BY <1>1, RejectedIs
<1>4. rows \subseteq Row /\ u = c.token.who
  BY ListingTyped
<1> HIDE DEF rows, u, c
<1>5. d \in Call
  BY <1>1, <1>3, <1>4 DEF Call, At
<1>6. Brings(d, c, ended)
  BY <1>1, <1>3, <1>4 DEF Brings, Call
<1> HIDE DEF d
<1> QED
  BY <1>1, <1>2, <1>5, <1>6, ServedKeeps DEF Known, c

\* What a note becomes by a patch or a save.
LEMMA PatchedTyped ==
  ASSUME NEW note \in Note, NEW patch
  PROVE  Patched(note, patch) \in Note
<1>1. CASE patch \in {"pin", "unpin"}
  <2>1. Patched(note, patch) = [note EXCEPT !.pinned = patch = "pin"]
    BY <1>1 DEF Patched
  <2> QED
    BY <2>1 DEF Note
<1>2. CASE patch = "archive"
  BY <1>2 DEF Patched, Note, Places
<1>3. CASE patch = "unarchive"
  BY <1>3 DEF Patched, Note, Places
<1>4. CASE patch \notin {"pin", "unpin", "archive", "unarchive"}
  <2>1. Patched(note, patch) = [note EXCEPT !.rev = @ + 1]
    BY <1>4 DEF Patched
  <2> QED
    BY <2>1 DEF Note
<1> QED
  BY <1>1, <1>2, <1>3, <1>4

\* The database after a patch or a save, and what the call brings back of it.
LEMMA PatchNotes ==
  ASSUME Known, NEW s \in Slots, ServePatch(s)
  PROVE  /\ notes' \in [Notes -> Note]
         /\ LET c == web.calls[s]
            IN /\ c.ids \subseteq Notes
               /\ \/ /\ Owned(c.token.who, c.ids)
                     /\ \A n \in Notes : notes'[n] = IF n \in c.ids THEN Patched(notes[n], c.patch)
                                                     ELSE notes[n]
                     /\ web' = [web EXCEPT !.calls[s].at = "ok", !.calls[s].rows =
                                  {[id |-> n, pinned |-> notes'[n].pinned, rev |-> notes'[n].rev] :
                                     n \in c.ids}]
                  \/ ~Owned(c.token.who, c.ids) /\ Answer(s, "refused") /\ notes' = notes
<1>1. notes \in [Notes -> Note] /\ web.calls[s].ids \subseteq Notes
  BY DEF Known, TypeOK, Tab, Call
<1>2. CASE Owned(web.calls[s].token.who, web.calls[s].ids)
  BY <1>1, <1>2, PatchedTyped DEF ServePatch
<1>3. CASE ~Owned(web.calls[s].token.who, web.calls[s].ids)
  BY <1>1, <1>3 DEF ServePatch
<1> QED
  BY <1>2, <1>3

\* The server patches a note.
LEMMA ServePatchStep ==
  ASSUME Known, NEW s \in Slots, ServePatch(s)
  PROVE  SessionInv(web', ended')
<1> DEFINE c == web.calls[s]
           rows == {[id |-> n, pinned |-> notes'[n].pinned, rev |-> notes'[n].rev] : n \in c.ids}
<1>1. /\ web \in Tab /\ c \in Call /\ c.at = "sent" /\ ended' = ended
      /\ c.op \in {"patch", "save"} /\ CallTyped(c)
  BY DEF Known, TypeOK, Tab, ServePatch, Serving, SessionInv, Typed
<1>2. /\ notes' \in [Notes -> Note] /\ c.ids \subseteq Notes
      /\ \/ web' = [web EXCEPT !.calls[s].at = "ok", !.calls[s].rows = rows]
         \/ Answer(s, "refused")
  BY PatchNotes
<1>3. c.op = "save" => c.ids # {}
  BY <1>1 DEF CallTyped
<1>4. rows \subseteq Row /\ (c.op = "save" => rows # {})
  <2>1. \A n \in Notes : [id |-> n, pinned |-> notes'[n].pinned, rev |-> notes'[n].rev] \in Row
    BY <1>2 DEF Row, Note
  <2>2. rows \subseteq Row
    BY <1>2, <2>1
  <2> QED
    BY <1>3, <2>2
<1> HIDE DEF rows
<1>5. CASE web' = [web EXCEPT !.calls[s].at = "ok", !.calls[s].rows = rows]
  <2> DEFINE d == [c EXCEPT !.at = "ok", !.rows = rows]
  <2>1. web' = [web EXCEPT !.calls[s] = d]
    BY <1>1, <1>5 DEF Tab, Call
  <2> HIDE DEF c
  <2>2. d \in Call
    BY <1>1, <1>4 DEF Call, At
  <2>3. Brings(d, c, ended)
    BY <1>1, <1>3, <1>4 DEF Brings, Call
  <2> HIDE DEF d
  <2> QED
    BY <1>1, <2>1, <2>2, <2>3, ServedKeeps DEF Known, c
<1>6. CASE Answer(s, "refused")
  <2> DEFINE d == [c EXCEPT !.at = "refused"]
  <2>1. web' = [web EXCEPT !.calls[s] = d]
    BY <1>1, <1>6 DEF Tab, Answer
  <2> HIDE DEF c
  <2>2. d \in Call
    BY <1>1 DEF Call, At
  <2>3. Brings(d, c, ended)
    BY <1>1, <1>3 DEF Brings, Call
  <2> HIDE DEF d
  <2> QED
    BY <1>1, <2>1, <2>2, <2>3, ServedKeeps DEF Known, c
<1> QED
  BY <1>2, <1>5, <1>6

\* The server deletes a note.
LEMMA ServeDeleteStep ==
  ASSUME Known, NEW s \in Slots, NEW n \in Notes, ServeDelete(s, n)
  PROVE  SessionInv(web', ended')
<1> DEFINE c == web.calls[s]
           at == IF c.ids = {n} THEN "ok" ELSE c.at
           less == c.ids \ {n}
<1>1. web \in Tab /\ c \in Call /\ c.at = "sent" /\ ended' = ended /\ c.op = "delete"
  BY DEF Known, TypeOK, Tab, ServeDelete, Serving
<1>2. \/ web' = [web EXCEPT !.calls[s].ids = less, !.calls[s].at = at]
      \/ Answer(s, "refused")
  <2>1. CASE Owned(c.token.who, {n})
    BY <1>1, <2>1 DEF ServeDelete, Tab, Call
  <2>2. CASE ~Owned(c.token.who, {n})
    BY <2>2 DEF ServeDelete
  <2> QED
    BY <2>1, <2>2
<1>3. at \in {"sent", "ok"} /\ less \subseteq Notes
  BY <1>1 DEF Call
<1> HIDE DEF at, less
<1>5. CASE web' = [web EXCEPT !.calls[s].ids = less, !.calls[s].at = at]
  <2> DEFINE d == [c EXCEPT !.ids = less, !.at = at]
  <2>1. web' = [web EXCEPT !.calls[s] = d]
    BY <1>1, <1>5 DEF Tab, Call
  <2> HIDE DEF c
  <2>2. d \in Call
    BY <1>1, <1>3 DEF Call, At
  <2>3. Brings(d, c, ended)
    BY <1>1, <1>3 DEF Brings, Call
  <2> HIDE DEF d
  <2> QED
    BY <1>1, <2>1, <2>2, <2>3, ServedKeeps DEF Known, c
<1>6. CASE Answer(s, "refused")
  <2> DEFINE d == [c EXCEPT !.at = "refused"]
  <2>1. web' = [web EXCEPT !.calls[s] = d]
    BY <1>1, <1>6 DEF Tab, Answer
  <2> HIDE DEF c
  <2>2. d \in Call
    BY <1>1 DEF Call, At
  <2>3. Brings(d, c, ended)
    BY <1>1 DEF Brings, Call
  <2> HIDE DEF d
  <2> QED
    BY <1>1, <2>1, <2>2, <2>3, ServedKeeps DEF Known, c
<1> QED
  BY <1>2, <1>5, <1>6

\* The server inserts a note.
LEMMA ServeCreateStep ==
  ASSUME Known, NEW s \in Slots, ServeCreate(s)
  PROVE  SessionInv(web', ended')
<1> DEFINE c == web.calls[s]
           d == [c EXCEPT !.at = "ok"]
<1>1. web \in Tab /\ c \in Call /\ c.at = "sent" /\ ended' = ended /\ c.op = "create"
  BY DEF Known, TypeOK, Tab, ServeCreate, Serving
<1>2. web' = [web EXCEPT !.calls[s] = d]
  BY <1>1 DEF ServeCreate, Answer, Tab
<1> HIDE DEF c
<1>3. d \in Call
  BY <1>1 DEF Call, At
<1>4. Brings(d, c, ended)
  BY <1>1 DEF Brings, Call
<1> HIDE DEF d
<1> QED
  BY <1>1, <1>2, <1>3, <1>4, ServedKeeps DEF Known, c

\* A call or its answer gets lost.
LEMMA LoseCallStep ==
  ASSUME Known, NEW s \in Slots, LoseCall(s)
  PROVE  SessionInv(web', ended')
<1> DEFINE c == web.calls[s]
           d == [c EXCEPT !.at = "lost"]
           y == [web EXCEPT !.calls[s] = d]
           cond == c.op \in {"list", "resync", "create"}
           v == Noting(y, "unseen", cond)
<1>1. /\ web \in Tab /\ c \in Call /\ c.at \in {"sent", "ok"} /\ ended' = ended
      /\ CallTyped(c)
  BY DEF Known, TypeOK, Tab, LoseCall, SessionInv, Typed
<1>2. web' = v
  BY <1>1 DEF LoseCall, Tab
<1>3. c.op # "none" /\ (c.op = "save" => c.ids # {}) /\ cond \in BOOLEAN
  BY <1>1 DEF CallTyped
<1> HIDE DEF c, cond
<1>4. d \in Call
  BY <1>1 DEF Call, At
<1>5. Brings(d, c, ended)
  BY <1>1, <1>3 DEF Brings, Call
<1> HIDE DEF d
<1>6. SessionInv(y, ended)
  BY <1>4, <1>5, ServedKeeps DEF Known, c
<1> HIDE DEF y
<1>7. y \in Tab /\ "unseen" \in Mishaps
  BY <1>6 DEF SessionInv, Typed, Mishaps
<1>8. /\ v \in Tab
      /\ SameTokens(v, y) /\ SameMember(v, y) /\ SamePage(v, y)
      /\ v.calls = y.calls /\ v.lists = y.lists
      /\ v.mishaps = IF cond THEN y.mishaps \cup {"unseen"} ELSE y.mishaps
  BY <1>3, <1>7, NotingShape
<1> HIDE DEF v
<1>9. SessionInv(v, ended)
  BY <1>6, <1>8, PageKeeps DEF SamePage
<1> QED
  BY <1>1, <1>2, <1>9

\* The server refreshes, or refuses to.
LEMMA ServeRefreshStep ==
  ASSUME Known, ServeRefresh
  PROVE  SessionInv(web', ended')
<1> DEFINE at == IF web.refreshing.who \in ended THEN "bad" ELSE "ok"
           v == [web EXCEPT !.refreshing.at = at]
<1>1. web \in Tab /\ web.refreshing \in Refreshing /\ web.refreshing.at = "sent" /\ ended' = ended
      /\ web' = v
  BY DEF Known, TypeOK, Tab, ServeRefresh
<1>2. at \in {"ok", "bad"} /\ (at = "bad" => web.refreshing.who \in ended)
  OBVIOUS
<1> HIDE DEF at
<1>3. /\ v \in Tab /\ v.access = web.access /\ v.refresh = web.refresh /\ SameMember(v, web)
      /\ v.submitting = web.submitting /\ v.calls = web.calls /\ v.lists = web.lists
      /\ v.mishaps = web.mishaps
      /\ v.refreshing.who = web.refreshing.who /\ v.refreshing.at = at
  BY <1>1, <1>2 DEF Tab, Refreshing, SameMember
<1> HIDE DEF v
<1>4. SessionInv(v, ended)
  BY <1>1, <1>2, <1>3, RefreshingKeeps DEF Known
<1> QED
  BY <1>1, <1>4

\* A refresh or its answer gets lost.
LEMMA LoseRefreshStep ==
  ASSUME Known, LoseRefresh
  PROVE  SessionInv(web', ended')
<1> DEFINE y == [web EXCEPT !.refreshing.at = "bad"]
           v == Noting(y, "refresh lost", TRUE)
<1>1. web \in Tab /\ web.refreshing \in Refreshing /\ web.refreshing.at # "idle" /\ ended' = ended
      /\ web' = v
  BY DEF Known, TypeOK, Tab, LoseRefresh
<1>3. /\ y \in Tab /\ y.access = web.access /\ y.refresh = web.refresh /\ SameMember(y, web)
      /\ y.submitting = web.submitting /\ y.calls = web.calls /\ y.lists = web.lists
      /\ y.mishaps = web.mishaps
      /\ y.refreshing.who = web.refreshing.who
  BY <1>1 DEF Tab, Refreshing, SameMember
<1> HIDE DEF y
<1>4. /\ v \in Tab
      /\ SameTokens(v, y) /\ SameMember(v, y) /\ SamePage(v, y)
      /\ v.calls = y.calls /\ v.lists = y.lists
      /\ v.mishaps = y.mishaps \cup {"refresh lost"}
  BY <1>3, NotingShape DEF Mishaps
<1> HIDE DEF v
<1>5. SessionInv(v, ended)
  BY <1>1, <1>3, <1>4, RefreshingKeeps DEF Known, SameTokens, SameMember, SamePage
<1> QED
  BY <1>1, <1>5

\* The access tokens expire.
LEMMA TokensExpireStep ==
  ASSUME Known, TokensExpire
  PROVE  SessionInv(web', ended')
<1> DEFINE a == Aged(web.access)
           cs == [s \in Slots |-> AgedCall(web.calls[s])]
           y == [web EXCEPT !.access = a, !.calls = cs]
           cond == \E s \in Slots : web.calls[s].again /\ web.calls[s].at = "sent"
           v == Noting(y, "slow", cond)
<1>1. web \in Tab /\ ended' = ended /\ web' = v
  <2>1. web \in Tab /\ ended' = ended
    BY DEF Known, TypeOK, TokensExpire
  <2>2. web' = v
    BY Zenon DEF TokensExpire
  <2> QED
    BY <2>1, <2>2
<1>2. \A t \in Token \cup {None} : Aged(t) \in Token \cup {None}
  BY DEF Aged, Token
<1>3. a \in Token \cup {None}
  BY <1>1, <1>2 DEF Tab
<1>4. \A c \in Call : AgedCall(c) \in Call
  BY <1>2 DEF Call, AgedCall
<1>5. cs \in [Slots -> Call] /\ \A s \in Slots : cs[s] = AgedCall(web.calls[s])
  BY <1>1, <1>4 DEF Tab
<1>6. cond \in BOOLEAN /\ "slow" \in Mishaps
  BY DEF Mishaps
<1>7. \A s \in Slots : web.calls[s].again /\ web.calls[s].at = "sent" => cond
  OBVIOUS
<1>a. a = Aged(web.access)
  OBVIOUS
<1> HIDE DEF a, cs, cond
<1>8. /\ y \in Tab /\ y.access = a /\ y.refresh = web.refresh /\ y.refreshing = web.refreshing
      /\ SameMember(y, web) /\ y.submitting = web.submitting /\ y.calls = cs
      /\ y.lists = web.lists /\ y.mishaps = web.mishaps
  BY <1>1, <1>3, <1>5 DEF Tab, SameMember
<1> HIDE DEF y
<1>9. /\ v \in Tab
      /\ SameTokens(v, y) /\ SameMember(v, y) /\ SamePage(v, y)
      /\ v.calls = y.calls /\ v.lists = y.lists
      /\ v.mishaps = IF cond THEN y.mishaps \cup {"slow"} ELSE y.mishaps
  BY <1>6, <1>8, NotingShape
<1> HIDE DEF v
<1>10. /\ v.access = Aged(web.access) /\ v.refresh = web.refresh /\ v.refreshing = web.refreshing
       /\ SameMember(v, web) /\ v.submitting = web.submitting /\ v.lists = web.lists
       /\ web.mishaps \subseteq v.mishaps
       /\ \A s \in Slots : v.calls[s] = AgedCall(web.calls[s])
       /\ \A s \in Slots : web.calls[s].again /\ web.calls[s].at = "sent" => "slow" \in v.mishaps
  BY <1>5, <1>7, <1>8, <1>9, <1>a DEF SameTokens, SameMember, SamePage
<1>11. SessionInv(v, ended)
  BY <1>9, <1>10, ExpiryKeeps DEF Known
<1> QED
  BY <1>1, <1>11

\* An account is disabled.
LEMMA DisableStep ==
  ASSUME Known, NEW u \in Members, Disable(u)
  PROVE  SessionInv(web', ended')
BY DisabledKeeps DEF Known, Disable

(***************************************************************************)
(* So does the handling of the answers.                                    *)
(***************************************************************************)

LEMMA DeniedStep ==
  ASSUME Known, NEW s \in Slots, Denied(s)
  PROVE  SessionInv(web', ended')
BY DeniedKeeps DEF Known, Denied, Ended

\* A 403 about a disabled account is handled.
LEMMA AccountDisabledStep ==
  ASSUME Known, NEW s \in Slots, AccountDisabled(s)
  PROVE  SessionInv(web', ended')
BY AccountDisabledKeeps DEF Known, AccountDisabled, Ended

\* The answer of the refresh is handled.
LEMMA RefreshAnsweredStep ==
  ASSUME Known, RefreshAnswered
  PROVE  SessionInv(web', ended')
<1>1. CASE web.refreshing.at = "ok"
  <2>1. web' = Refreshed(web, TRUE) /\ ended' = ended
    BY <1>1 DEF RefreshAnswered
  <2>2. SessionInv(Refreshed(web, TRUE), ended)
    BY <1>1, RefreshedKeeps DEF Known
  <2> QED
    BY <2>1, <2>2
<1>2. CASE web.refreshing.at = "bad"
  <2>1. web' = Refreshed(web, FALSE) /\ ended' = ended
    BY <1>2 DEF RefreshAnswered
  <2>2. SessionInv(Refreshed(web, FALSE), ended)
    BY <1>2, RefreshFailedKeeps DEF Known
  <2> QED
    BY <2>1, <2>2
<1> QED
  BY <1>1, <1>2 DEF RefreshAnswered

\* The answer of the credentials is handled.
LEMMA LoginAnsweredStep ==
  ASSUME Known, NEW s \in Slots, LoginAnswered(s)
  PROVE  SessionInv(web', ended')
<1>1. web.calls[s].op = "login" /\ web.calls[s].at # "waiting" /\ ended' = ended
  BY DEF LoginAnswered, Result, Ended, FailedAts
<1>2. CASE Ok(s)
  BY <1>1, <1>2, LoginAcceptedKeeps DEF Known, LoginAnswered
<1>3. CASE ~Ok(s)
  BY <1>1, <1>3, LoginRefusedKeeps DEF Known, LoginAnswered
<1> QED
  BY <1>2, <1>3

\* The answer of me after the credentials is handled.
LEMMA SignInAnsweredStep ==
  ASSUME Known, NEW s \in Slots, SignInAnswered(s)
  PROVE  SessionInv(web', ended')
<1>1. web.calls[s].op = "signin" /\ ended' = ended
  BY DEF SignInAnswered, Result
<1>2. CASE Ok(s)
  BY <1>1, <1>2, SignedInKeeps DEF Known, SignInAnswered, Ok
<1>3. CASE ~Ok(s)
  BY <1>1, <1>3, SignInFailedKeeps DEF Known, SignInAnswered
<1> QED
  BY <1>2, <1>3

\* The answer of me after a page load is handled.
LEMMA HydrateAnsweredStep ==
  ASSUME Known, NEW s \in Slots, HydrateAnswered(s)
  PROVE  SessionInv(web', ended')
<1>1. web.calls[s].op = "hydrate" /\ web.calls[s].at # "waiting" /\ ended' = ended
  BY DEF HydrateAnswered, Result, Ended, FailedAts
<1>0. web.calls[s] \in Call
  BY DEF Known, TypeOK, Tab
<1>2. CASE ~web.calls[s].live
  <2>1. web' = Done(web, s)
    BY <1>2 DEF HydrateAnswered
  <2> QED
    BY <1>1, <2>1, DoneKeeps DEF Known
<1>3. CASE web.calls[s].live /\ Ok(s)
  <2>1. web' = Authenticated(Done(web, s), web.calls[s].who)
    BY <1>3 DEF HydrateAnswered
  <2> QED
    BY <1>1, <1>3, <2>1, AuthenticatedKeeps DEF Known, Ok
<1>4. CASE web.calls[s].live /\ ~Ok(s)
  <2> DEFINE verdict == Ended(s, {"failed"})
  <2>1. web' = HydrationFailed(Done(web, s), verdict)
    BY <1>4 DEF HydrateAnswered
  <2>2. verdict \in BOOLEAN
    BY DEF Ended
  <2> HIDE DEF verdict
  <2> QED
    BY <1>1, <1>4, <2>1, <2>2, HydrationFailedKeeps DEF Known
<1> QED
  BY <1>0, <1>2, <1>3, <1>4 DEF Call

\* The answer of a change of the name is handled.
LEMMA ProfileAnsweredStep ==
  ASSUME Known, NEW s \in Slots, ProfileAnswered(s)
  PROVE  SessionInv(web', ended')
<1>1. web.calls[s].op = "profile" /\ web.calls[s].at # "waiting" /\ ended' = ended
  BY DEF ProfileAnswered, Result, Ended, FailedAts
<1>2. CASE Ok(s)
  <2> DEFINE x == Done(web, s)
             u == web.calls[s].who
             v == [x EXCEPT !.user = u]
  <2>1. web \in Tab /\ u \in Members \cup {None} /\ web' = v
    BY <1>2 DEF Known, TypeOK, Tab, Call, ProfileAnswered
  <2>2. /\ x \in Tab
        /\ SameTokens(x, web) /\ SameMember(x, web) /\ SamePage(x, web)
        /\ x.calls[s] = NoCall /\ \A t \in Slots \ {s} : x.calls[t] = web.calls[t]
        /\ x.lists = web.lists /\ x.mishaps = web.mishaps
    BY <2>1, DoneShape
  <2>u. u = web.calls[s].who
    OBVIOUS
  <2> HIDE DEF x, u
  <2>3. /\ v \in Tab /\ SameTokens(v, x) /\ v.status = x.status /\ v.submitting = x.submitting
        /\ v.lists = x.lists /\ v.mishaps = x.mishaps /\ v.calls = x.calls /\ v.user = u
    BY <2>1, <2>2 DEF Tab, SameTokens
  <2> HIDE DEF v
  <2>4. /\ SameTokens(v, web) /\ v.status = web.status /\ v.submitting = web.submitting
        /\ v.lists = web.lists /\ v.mishaps = web.mishaps
        /\ v.user = web.calls[s].who /\ v.calls[s] = NoCall
        /\ \A t \in Slots \ {s} : v.calls[t] = web.calls[t]
    BY <2>2, <2>3, <2>u DEF SameTokens, SameMember, SamePage
  <2>5. SessionInv(v, ended)
    BY <1>1, <1>2, <2>3, <2>4, ProfileKeeps DEF Known, Ok
  <2> QED
    BY <1>1, <2>1, <2>5
<1>3. CASE ~Ok(s)
  BY <1>1, <1>3, DoneKeeps DEF Known, ProfileAnswered
<1> QED
  BY <1>2, <1>3

\* A list that was fetched is shown.
LEMMA ListAnsweredStep ==
  ASSUME Known, NEW s \in Slots, ListAnswered(s)
  PROVE  SessionInv(web', ended')
<1> DEFINE c == web.calls[s]
           x == Done(web, s)
           v == SetCached(x, c.key, c.who, c.rows)
<1>1. /\ c.op \in {"list", "resync"} /\ c.at # "waiting" /\ ended' = ended
      /\ web \in Tab /\ c \in Call /\ CallTyped(c)
  BY DEF ListAnswered, Result, Ended, FailedAts, Known, TypeOK, Tab, SessionInv, Typed
<1>2. /\ x \in Tab
      /\ SameTokens(x, web) /\ SameMember(x, web) /\ SamePage(x, web)
      /\ x.calls[s] = NoCall /\ \A t \in Slots \ {s} : x.calls[t] = web.calls[t]
      /\ x.lists = web.lists /\ x.mishaps = web.mishaps
  BY <1>1, DoneShape
<1>3. SessionInv(x, ended)
  BY <1>1, DoneKeeps DEF Known
<1>4. CASE Ok(s) /\ (c.op = "list" => c.live)
  <2>1. web' = v
    BY <1>4 DEF ListAnswered
  <2>2. c.key \in Keys /\ c.who \in Members /\ c.rows \in SUBSET Row /\ c.at = "ok"
    BY <1>1, <1>4 DEF CallTyped, Call, Ok
  <2> DEFINE key == c.key
             u == c.who
             rows == c.rows
  <2>3. key \in Keys /\ u \in Members /\ rows \in SUBSET Row /\ v = SetCached(x, key, u, rows)
    BY <2>2
  <2>c. u = c.who
    OBVIOUS
  <2> HIDE DEF key, u, rows, x, v
  <2>4. /\ v \in Tab
        /\ SameTokens(v, x) /\ SameMember(v, x) /\ SamePage(v, x)
        /\ v.calls = x.calls /\ v.mishaps = x.mishaps
        /\ v.lists[key] = [of |-> u, rows |-> rows]
        /\ \A k \in Keys : k # key => v.lists[k] = x.lists[k]
    BY <1>2, <2>3, SetCachedShape
  <2>5. ASSUME ~Saw(v, {"refresh", "early", "profile", "resync", "patch", "delete"})
        PROVE  Present(x) /\ u = x.user
    <3>1. ~Saw(web, {"refresh", "early", "profile", "resync", "patch", "delete"})
      BY <1>2, <2>4, <2>5 DEF Saw
    <3>2. Present(web) /\ Carries(c, web.user)
      BY <3>1, <1>1, <1>4 DEF Known, SessionInv, CacheAgrees
    <3> QED
      BY <3>2, <2>2, <2>c, <1>2 DEF Carries, Present, SameMember
  <2>6. ~Saw(v, {"refresh", "early", "profile", "resync", "patch", "delete"}) =>
          \A k \in Keys : v.lists[k] # None =>
            \/ Present(x) /\ v.lists[k].of = x.user
            \/ x.lists[k] # None /\ v.lists[k].of = x.lists[k].of
    <3>1. v.lists[key].of = u
      BY <2>4
    <3> QED
      BY <2>4, <2>5, <3>1
  <2>7. SessionInv(v, ended)
    BY <1>3, <2>4, <2>6, CacheKeeps DEF SamePage
  <2> QED
    BY <1>1, <2>1, <2>7
<1>5. CASE ~(Ok(s) /\ (c.op = "list" => c.live))
  BY <1>1, <1>3, <1>5 DEF ListAnswered
<1> QED
  BY <1>4, <1>5

\* The fetch that a failed change asks for.
LEMMA ResyncKeeps ==
  ASSUME NEW w, NEW over, SessionInv(w, over), NEW cond \in BOOLEAN, Vacant(w),
         NEW call \in Call, call.op = "resync", ~call.again,
         ~Saw(w, {"refresh", "early"}) =>
           /\ w.status # "loading"
           /\ w.status = "anonymous" /\ w.refresh # None => InFlight(w, {"signin"}),
         ~Saw(w, {"refresh", "early", "profile", "resync", "patch", "delete"}) => Present(w)
  PROVE  SessionInv(Issue(Noting(w, "raced", cond), call), over)
<1> DEFINE v == Issue(Noting(w, "raced", cond), call)
<1>1. w \in Tab /\ "raced" \in Mishaps
  BY DEF SessionInv, Typed, Mishaps
<1>2. /\ v \in Tab
      /\ SameTokens(v, w) /\ SameMember(v, w) /\ SamePage(v, w)
      /\ Issued(v, w, call)
      /\ v.lists = w.lists
      /\ v.mishaps = IF cond THEN w.mishaps \cup {"raced"} ELSE w.mishaps
  BY <1>1, NotedIssueShape
<1> HIDE DEF v
<1>3. /\ call.op \in {"profile", "list", "resync", "patch", "delete", "save", "create"}
      /\ call.op = "save" => call.ids # {}
      /\ call.op = "profile" /\ ~Saw(w, {"refresh", "early", "profile"}) => Present(w)
      /\ v.submitting = w.submitting /\ w.mishaps \subseteq v.mishaps
  BY <1>2 DEF SamePage
<1>4. SessionInv(v, over)
  BY <1>2, <1>3, IssueKeeps
<1> QED
  BY <1>4 DEF v

\* A change failed: the list is fetched again.
LEMMA WriteAnsweredStep ==
  ASSUME Known, NEW s \in Slots, WriteAnswered(s)
  PROVE  SessionInv(web', ended')
<1> DEFINE c == web.calls[s]
           x == Done(web, s)
           cond == Writing(x)
           key == c.key
           call == [Request("resync") EXCEPT !.key = key]
           v == Issue(Noting(x, "raced", cond), call)
<1>1. /\ c.op \in {"patch", "delete"} /\ c.at # "waiting" /\ ended' = ended
      /\ web \in Tab /\ key \in Keys
  BY DEF WriteAnswered, Result, Ended, FailedAts, Known, TypeOK, Tab, Call
<1>2. /\ x \in Tab
      /\ SameTokens(x, web) /\ SameMember(x, web) /\ SamePage(x, web)
      /\ x.calls[s] = NoCall /\ \A t \in Slots \ {s} : x.calls[t] = web.calls[t]
      /\ x.lists = web.lists /\ x.mishaps = web.mishaps
  BY <1>1, DoneShape
<1>3. SessionInv(x, ended)
  BY <1>1, DoneKeeps DEF Known
<1>4. CASE Ok(s)
  BY <1>1, <1>3, <1>4 DEF WriteAnswered
<1>5. CASE ~Ok(s)
  <2>1. web' = v
    BY <1>5 DEF WriteAnswered
  <2>2. cond \in BOOLEAN
    BY DEF Writing, InFlight
  <2> HIDE DEF key
  <2>3. call \in Call /\ call.op = "resync" /\ ~call.again
    BY <1>1, RequestTyped DEF Ops, Call
  <2> HIDE DEF x, cond, call
  <2>4. Vacant(x) /\ "raced" \in Mishaps
    BY <1>2 DEF Vacant, NoCall, Mishaps
  <2>6. ASSUME ~Saw(x, {"refresh", "early"})
        PROVE  /\ x.status # "loading"
               /\ x.status = "anonymous" /\ x.refresh # None => InFlight(x, {"signin"})
    <3>1. NobodyYet(web)
      BY <1>2, <2>6 DEF Known, SessionInv, TokensAgree, Saw
    <3>2. web.status # "loading"
      BY <3>1, <1>1 DEF NobodyYet
    <3>3. web.status = "anonymous" /\ web.refresh # None => InFlight(web, {"signin"})
      BY <3>1, <1>1 DEF NobodyYet
    <3>4. InFlight(web, {"signin"}) => InFlight(x, {"signin"})
      BY <1>1, <1>2 DEF InFlight
    <3> QED
      BY <3>2, <3>3, <3>4, <1>2 DEF SameMember, SameTokens
  <2>7. ASSUME ~Saw(x, {"refresh", "early", "profile", "resync", "patch", "delete"})
        PROVE  Present(x)
    <3>1. ~Saw(web, {"refresh", "early", "profile", "resync", "patch", "delete"})
      BY <1>2, <2>7 DEF Saw
    <3>2. Present(web)
      BY <3>1, <1>1 DEF Known, SessionInv, CacheAgrees
    <3> QED
      BY <3>2, <1>2 DEF Present, SameMember
  <2>9. SessionInv(v, ended)
    BY <1>3, <2>2, <2>3, <2>4, <2>6, <2>7, ResyncKeeps
  <2> QED
    BY <1>1, <2>1, <2>9
<1> QED
  BY <1>4, <1>5

\* What the editor saved is put in the lists that hold the note.
LEMMA SaveAnsweredStep ==
  ASSUME Known, NEW s \in Slots, SaveAnswered(s)
  PROVE  SessionInv(web', ended')
<1> DEFINE c == web.calls[s]
           x == Done(web, s)
           row == CHOOSE r \in c.rows : TRUE
           v == UpsertCached(x, row)
<1>1. /\ c.op = "save" /\ c.at # "waiting" /\ ended' = ended
      /\ web \in Tab /\ c \in Call /\ CallTyped(c)
  BY DEF SaveAnswered, Result, Ended, FailedAts, Known, TypeOK, Tab, SessionInv, Typed
<1>3. SessionInv(x, ended)
  BY <1>1, DoneKeeps DEF Known
<1>4. CASE Ok(s)
  <2>1. web' = v
    BY <1>4 DEF SaveAnswered
  <2>2. row \in Row
    BY <1>1, <1>4 DEF CallTyped, Call, Ok
  <2> HIDE DEF row
  <2>3. x \in Tab
    BY <1>3 DEF SessionInv, Typed
  <2> HIDE DEF x
  <2> DEFINE l(k) == Upserted(x.lists[k], row)
             ls == [k \in Keys |-> l(k)]
  <2>4. v = [x EXCEPT !.lists = ls]
    BY DEF UpsertCached
  <2>5. ASSUME NEW k \in Keys
        PROVE  /\ l(k) \in List \cup {None}
               /\ l(k) # None => x.lists[k] # None /\ l(k).of = x.lists[k].of
    <3> DEFINE m == x.lists[k]
    <3>1. m \in List \cup {None}
      BY <2>3 DEF Tab
    <3>2. l(k) = IF m # None /\ (\E r \in m.rows : r.id = row.id)
                 THEN [m EXCEPT !.rows = {r \in @ : r.id # row.id} \cup {row}] ELSE m
      BY DEF Upserted
    <3> HIDE DEF m, l
    <3>3. CASE m # None /\ (\E r \in m.rows : r.id = row.id)
      <4>1. m \in List /\ l(k) = [m EXCEPT !.rows = {r \in @ : r.id # row.id} \cup {row}]
        BY <3>1, <3>2, <3>3
      <4>2. l(k) \in List /\ l(k).of = m.of
        BY <2>2, <4>1 DEF List
      <4> QED
        BY <4>2, <3>3 DEF m
    <3>4. CASE ~(m # None /\ (\E r \in m.rows : r.id = row.id))
      <4>1. l(k) = m
        BY <3>2, <3>4
      <4> QED
        BY <3>1, <4>1 DEF m
    <3> QED
      BY <3>3, <3>4
  <2>6. \A k \in Keys : ls[k] = l(k)
    OBVIOUS
  <2>7. ls \in [Keys -> List \cup {None}]
    BY <2>5
  <2>8. \A k \in Keys : ls[k] # None => x.lists[k] # None /\ ls[k].of = x.lists[k].of
    BY <2>5, <2>6
  <2> HIDE DEF ls, v
  <2>9. /\ v \in Tab /\ SameTokens(v, x) /\ SameMember(v, x) /\ v.submitting = x.submitting
        /\ v.calls = x.calls /\ v.mishaps = x.mishaps /\ v.lists = ls
    BY <2>3, <2>4, <2>7 DEF Tab, SameTokens, SameMember
  <2>10. SessionInv(v, ended)
    BY <1>3, <2>8, <2>9, CacheKeeps
  <2> QED
    BY <1>1, <2>1, <2>10
<1>5. CASE ~Ok(s)
  BY <1>1, <1>3, <1>5 DEF SaveAnswered
<1> QED
  BY <1>4, <1>5

\* A note was composed: the editor opens it.
LEMMA CreateAnsweredStep ==
  ASSUME Known, NEW s \in Slots, CreateAnswered(s)
  PROVE  SessionInv(web', ended')
<1> DEFINE x == Done(web, s)
           w == [x EXCEPT !.composing = FALSE]
           y == Cancel(w, "list")
           v == [y EXCEPT !.route = "editor"]
<1>1. web.calls[s].op = "create" /\ web.calls[s].at # "waiting" /\ ended' = ended
  BY DEF CreateAnswered, Result, Ended, FailedAts
<1>2. web' = v \/ web' = w
  BY DEF CreateAnswered
<1>3. SessionInv(x, ended)
  BY <1>1, DoneKeeps DEF Known
<1> HIDE DEF x
<1>4. /\ w \in Tab /\ SameTokens(w, x) /\ SameMember(w, x) /\ w.submitting = x.submitting
      /\ w.calls = x.calls /\ w.lists = x.lists /\ w.mishaps = x.mishaps
  BY <1>3 DEF SessionInv, Typed, Tab, SameTokens, SameMember
<1> HIDE DEF w
<1>5. SessionInv(w, ended)
  BY <1>3, <1>4, PageKeeps
<1>6. SessionInv(y, ended)
  BY <1>5, CancelKeeps
<1> HIDE DEF y
<1>7. /\ v \in Tab /\ SameTokens(v, y) /\ SameMember(v, y) /\ v.submitting = y.submitting
      /\ v.calls = y.calls /\ v.lists = y.lists /\ v.mishaps = y.mishaps
  BY <1>6 DEF SessionInv, Typed, Tab, SameTokens, SameMember
<1> HIDE DEF v
<1>8. SessionInv(v, ended)
  BY <1>6, <1>7, PageKeeps
<1> QED
  BY <1>1, <1>2, <1>5, <1>8

(***************************************************************************)
(* All of it: the session's invariant is inductive.                        *)
(***************************************************************************)

LEMMA BlankTyped ==
  /\ Blank \in Tab /\ Blank.access = None /\ Blank.refresh = None /\ Blank.refreshing.at = "idle"
  /\ Blank.status = "anonymous" /\ (\A k \in Keys : Blank.lists[k] = None)
  /\ (\A s \in Slots : Blank.calls[s] = NoCall) /\ Blank.mishaps = {}
<1>1. NoCall \in Call
  BY DEF NoCall, Call, Ops, At, Keys
<1> DEFINE ref == [at |-> "idle", who |-> None]
           cs == [s \in Slots |-> NoCall]
           ls == [k \in Keys |-> None]
<1>2. /\ ref \in Refreshing /\ ref.at = "idle"
      /\ cs \in [Slots -> Call] /\ \A s \in Slots : cs[s] = NoCall
  BY <1>1 DEF Refreshing
<1>3. /\ ls \in [Keys -> List \cup {None}] /\ (\A k \in Keys : ls[k] = None)
      /\ "mine" \in Keys /\ 2 \in 0..2
  BY DEF Keys
<1>4. Blank = [access |-> None, refresh |-> None, refreshing |-> ref, stuck |-> FALSE,
               calls |-> cs, status |-> "anonymous", user |-> None,
               lists |-> ls, route |-> "login", key |-> "mine",
               retries |-> 2, submitting |-> FALSE, composing |-> FALSE, mishaps |-> {}]
  BY DEF Blank
<1> HIDE DEF ref, cs, ls
<1> QED
  BY <1>2, <1>3, <1>4 DEF Tab

\* The first state.
LEMMA InitKnown ==
  ASSUME Init
  PROVE  Known
<1>2. Blank \in Tab /\ Blank.access = None /\ Blank.refresh = None /\ Blank.refreshing.at = "idle"
      /\ Blank.status = "anonymous" /\ (\A k \in Keys : Blank.lists[k] = None)
      /\ (\A s \in Slots : Blank.calls[s] = NoCall) /\ Blank.mishaps = {}
  BY BlankTyped
<1>3. SessionInv(Blank, ended)
  <2>1. StoredPaired(Blank)
    BY <1>2 DEF StoredPaired
  <2> QED
    BY <1>2, <2>1, FreshKeeps
<1>4. ASSUME NEW u \in Members, NEW route \in {"login", "board"}
      PROVE  SessionInv(Loaded(SetTokens(Blank, u), route), ended)
  <2> DEFINE w == SetTokens(Blank, u)
  <2>1. w \in Tab /\ w.access = [who |-> u, old |-> FALSE] /\ w.refresh = u
    BY <1>2, SetTokensShape
  <2> DEFINE t == [who |-> u, old |-> FALSE]
  <2>2. t \in Token /\ t.who = u /\ u # None /\ w.access = t
    BY <2>1, SessionAssumption DEF Token
  <2> HIDE DEF w, t
  <2>5. t # None
    BY <2>2, SessionAssumption
  <2>3. StoredPaired(w)
    BY <2>1, <2>2, <2>5 DEF StoredPaired
  <2>4. SessionInv(Loaded(w, route), ended)
    BY <2>1, <2>3, LoadedKeeps
  <2> QED
    BY <2>4 DEF w
<1>5. SessionInv(web, ended)
  BY <1>3, <1>4 DEF Init
<1>6. web \in Tab
  BY <1>5 DEF SessionInv, Typed
<1>7. notes \in [Notes -> Note]
  <2> PICK u \in Members, made \in SUBSET Notes :
         notes = [n \in Notes |-> [owner |-> IF n \in made THEN u ELSE None,
                                   place |-> IF n \in made THEN "active" ELSE "absent",
                                   pinned |-> FALSE, rev |-> 0]]
    BY DEF Init
  <2> QED
    BY DEF Note, Places
<1>8. ended \subseteq Members /\ budget \in [Kinds -> Nat]
  BY BoardAssumption DEF Init
<1> QED
  BY <1>5, <1>6, <1>7, <1>8 DEF Known, TypeOK

\* What can be done is done within its budget.
LEMMA SpendTyped ==
  ASSUME Known, NEW kind \in Kinds, May(kind), Spend(kind)
  PROVE  budget' \in [Kinds -> Nat] /\ budget'[kind] = budget[kind] - 1
BY DEF Known, TypeOK, May, Spend

\* Budgets stay numbers.
LEMMA BudgetTyped ==
  ASSUME Known, Next
  PROVE  budget' \in [Kinds -> Nat]
<1>0. budget \in [Kinds -> Nat]
  BY DEF Known, TypeOK
<1>1. CASE Member
  <2>1. budget' = budget \/ \E kind \in Kinds : May(kind) /\ Spend(kind)
    <3>1. ASSUME SignOut \/ Reload \/ ChangeProfile \/ OpenNote \/ BackToBoard \/ Compose
          PROVE  budget' = budget \/ \E kind \in Kinds : May(kind) /\ Spend(kind)
      BY <3>1 DEF SignOut, Reload, ChangeProfile, OpenNote, BackToBoard, Compose, Kinds
    <3>2. ASSUME NEW u \in Members, Submit(u)
          PROVE  \E kind \in Kinds : May(kind) /\ Spend(kind)
      BY <3>2 DEF Submit, Kinds
    <3>3. ASSUME NEW key \in Keys, SwitchKey(key)
          PROVE  \E kind \in Kinds : May(kind) /\ Spend(kind)
      BY <3>3 DEF SwitchKey, Kinds
    <3>4. ASSUME NEW n \in Notes, SaveNote(n)
          PROVE  \E kind \in Kinds : May(kind) /\ Spend(kind)
      BY <3>4 DEF SaveNote, Kinds
    <3>5. ASSUME NEW row \in Shown, NEW patch \in Patches, Organize(row, patch)
          PROVE  \E kind \in Kinds : May(kind) /\ Spend(kind)
      BY <3>5 DEF Organize, Kinds
    <3>6. ASSUME NEW ids \in SUBSET Notes, Delete(ids)
          PROVE  \E kind \in Kinds : May(kind) /\ Spend(kind)
      BY <3>6 DEF Delete, Kinds
    <3> QED
      BY <1>1, <3>1, <3>2, <3>3, <3>4, <3>5, <3>6 DEF Member
  <2> QED
    BY <1>0, <2>1, SpendTyped
<1>2. CASE Server
  <2>1. budget' = budget \/ \E kind \in Kinds : May(kind) /\ Spend(kind)
    <3>1. ASSUME ServeRefresh \/ LoseRefresh \/ TokensExpire
          PROVE  budget' = budget \/ \E kind \in Kinds : May(kind) /\ Spend(kind)
      BY <3>1 DEF ServeRefresh, LoseRefresh, TokensExpire, Kinds
    <3>2. ASSUME NEW u \in Members, Disable(u)
          PROVE  \E kind \in Kinds : May(kind) /\ Spend(kind)
      BY <3>2 DEF Disable, Kinds
    <3>3. ASSUME NEW s \in Slots, ServeLogin(s) \/ ServeRejected(s) \/ ServeRead(s) \/ ServePatch(s)
                                  \/ ServeCreate(s) \/ \E n \in Notes : ServeDelete(s, n)
          PROVE  budget' = budget
      BY <3>3 DEF ServeLogin, ServeRejected, ServeRead, ServePatch, ServeCreate, ServeDelete
    <3>4. ASSUME NEW s \in Slots, LoseCall(s)
          PROVE  \E kind \in Kinds : May(kind) /\ Spend(kind)
      BY <3>4 DEF LoseCall, Kinds
    <3> QED
      BY <1>2, <3>1, <3>2, <3>3, <3>4 DEF Server
  <2> QED
    BY <1>0, <2>1, SpendTyped
<1>3. CASE Answered
  <2>1. budget' = budget
    BY <1>3 DEF Answered, RefreshAnswered, Denied, AccountDisabled, LoginAnswered, SignInAnswered,
       HydrateAnswered, ProfileAnswered, ListAnswered, WriteAnswered, SaveAnswered, CreateAnswered
  <2> QED
    BY <1>0, <2>1
<1> QED
  BY <1>1, <1>2, <1>3 DEF Next

\* Notes remain notes, whatever the server does with them.
LEMMA NotesTyped ==
  ASSUME Known, Next
  PROVE  notes' \in [Notes -> Note]
<1>0. notes \in [Notes -> Note] /\ \A s \in Slots : web.calls[s] \in Call
  BY DEF Known, TypeOK, Tab
<1>1. CASE Member
  <2>1. notes' = notes
    BY <1>1 DEF Member, SignOut, Reload, ChangeProfile, OpenNote, BackToBoard, Compose, Submit,
       SwitchKey, SaveNote, Organize, Delete
  <2> QED
    BY <1>0, <2>1
<1>2. CASE Server
  <2>1. ASSUME NEW s \in Slots, ServePatch(s)
        PROVE  notes' \in [Notes -> Note]
    BY <2>1, PatchNotes
  <2>2. ASSUME NEW s \in Slots, NEW n \in Notes, ServeDelete(s, n)
        PROVE  notes' \in [Notes -> Note]
    <3>1. notes' = notes \/ notes' = [notes EXCEPT ![n].place = "absent", ![n].owner = None]
      BY <2>2 DEF ServeDelete
    <3> QED
      BY <1>0, <3>1 DEF Note, Places
  <2>3. ASSUME NEW s \in Slots, ServeCreate(s)
        PROVE  notes' \in [Notes -> Note]
    <3>1. web.calls[s].token.who \in Members
      BY <1>0, <2>3, RejectedIs DEF ServeCreate, Serving
    <3> DEFINE new == [owner |-> web.calls[s].token.who, place |-> "active",
                       pinned |-> FALSE, rev |-> 0]
    <3>2. \E n \in Notes : notes' = [notes EXCEPT ![n] = new]
      BY <2>3 DEF ServeCreate
    <3>3. new \in Note
      BY <3>1 DEF Note, Places
    <3> HIDE DEF new
    <3> QED
      BY <1>0, <3>2, <3>3
  <2>4. ASSUME NEW s \in Slots, ServeLogin(s) \/ ServeRejected(s) \/ ServeRead(s) \/ LoseCall(s)
        PROVE  notes' = notes
    BY <2>4 DEF ServeLogin, ServeRejected, ServeRead, LoseCall
  <2>5. ASSUME ServeRefresh \/ LoseRefresh \/ TokensExpire \/ \E u \in Members : Disable(u)
        PROVE  notes' = notes
    BY <2>5 DEF ServeRefresh, LoseRefresh, TokensExpire, Disable
  <2> QED
    BY <1>0, <1>2, <2>1, <2>2, <2>3, <2>4, <2>5 DEF Server
<1>3. CASE Answered
  <2>1. notes' = notes
    BY <1>3 DEF Answered, RefreshAnswered, Denied, AccountDisabled, LoginAnswered, SignInAnswered,
       HydrateAnswered, ProfileAnswered, ListAnswered, WriteAnswered, SaveAnswered, CreateAnswered
  <2> QED
    BY <1>0, <2>1
<1> QED
  BY <1>1, <1>2, <1>3 DEF Next

\* Every step keeps the session's invariant, ...
LEMMA SessionStep ==
  ASSUME Known, Next
  PROVE  SessionInv(web', ended')
<1>1. CASE Member
  BY <1>1, SignOutStep, ReloadStep, ChangeProfileStep, OpenNoteStep, BackToBoardStep, ComposeStep,
     SubmitStep, SwitchKeyStep, SaveNoteStep, OrganizeStep, DeleteStep DEF Member
<1>2. CASE Server
  BY <1>2, ServeRefreshStep, LoseRefreshStep, TokensExpireStep, DisableStep, ServeLoginStep,
     ServeRejectedStep, ServeReadStep, ServePatchStep, ServeCreateStep, LoseCallStep,
     ServeDeleteStep DEF Server
<1>3. CASE Answered
  BY <1>3, RefreshAnsweredStep, DeniedStep, AccountDisabledStep, LoginAnsweredStep,
     SignInAnsweredStep, HydrateAnsweredStep, ProfileAnsweredStep, ListAnsweredStep,
     WriteAnsweredStep, SaveAnsweredStep, CreateAnsweredStep DEF Answered
<1> QED
  BY <1>1, <1>2, <1>3 DEF Next

\* ... and with the types all that is known.
LEMMA KnownStep ==
  ASSUME Known, [Next]_vars
  PROVE  Known'
<1>1. CASE Next
  <2>1. SessionInv(web', ended')
    BY <1>1, SessionStep
  <2>2. web' \in Tab
    BY <2>1 DEF SessionInv, Typed
  <2>3. ended' \subseteq Members
    <3>1. ended' = ended \/ \E u \in Members : ended' = ended \cup {u}
      <4>1. CASE Member
        BY <4>1 DEF Member, SignOut, Reload, ChangeProfile, OpenNote, BackToBoard, Compose, Submit,
           SwitchKey, SaveNote, Organize, Delete
      <4>2. CASE Server
        BY <4>2 DEF Server, ServeRefresh, LoseRefresh, TokensExpire, Disable, ServeLogin,
           ServeRejected, ServeRead, ServePatch, ServeCreate, LoseCall, ServeDelete
      <4>3. CASE Answered
        BY <4>3 DEF Answered, RefreshAnswered, Denied, AccountDisabled, LoginAnswered,
           SignInAnswered, HydrateAnswered, ProfileAnswered, ListAnswered, WriteAnswered,
           SaveAnswered, CreateAnswered
      <4> QED
        BY <1>1, <4>1, <4>2, <4>3 DEF Next
    <3> QED
      BY <3>1 DEF Known, TypeOK
  <2> QED
    BY <1>1, <2>1, <2>2, <2>3, NotesTyped, BudgetTyped DEF Known, TypeOK
<1>2. CASE UNCHANGED vars
  BY <1>2 DEF vars, Known, TypeOK
<1> QED
  BY <1>1, <1>2

\* What is known is known always.
LEMMA AlwaysKnown == Spec => []Known
<1>1. Known /\ [Next]_vars => Known'
  BY KnownStep
<1> QED
  BY <1>1, InitKnown, PTL DEF Spec

(***************************************************************************)
(* The tab, its calls and the database stay what api/client.ts and the     *)
(* pages make of them: every call has a kind, a token and an answer that   *)
(* its kind can have.                                                      *)
(***************************************************************************)
THEOREM SessionTyped == Spec => []TypeOK
<1>1. Known => TypeOK
  BY DEF Known
<1> QED
  BY <1>1, AlwaysKnown, PTL

(***************************************************************************)
(* The board cache (lib/boardCache.ts) holds nothing but the lists of the  *)
(* member who is signed in, and nothing when nobody is, however the calls  *)
(* of several sessions on the tab overlap: clearBoardCache runs at each    *)
(* end of a session (auth/AuthContext.tsx), and the only answers that can  *)
(* write into it later are those of the calls that the property names.     *)
(***************************************************************************)
THEOREM NobodySeesAnothersCache == Spec => []CacheIsOnlyMine
<1>1. Known => CacheIsOnlyMine
  <2> SUFFICES ASSUME Known, ~Unless({"resync", "patch", "delete", "refresh", "profile", "early"})
               PROVE  \A k \in Keys : web.lists[k] # None =>
                        web.status = "authenticated" /\ web.lists[k].of = web.user
    BY DEF CacheIsOnlyMine
  <2>1. ~Saw(web, {"refresh", "early", "profile", "resync", "patch", "delete"})
    BY DEF Unless, Saw
  <2> QED
    BY <2>1 DEF Known, SessionInv, CacheAgrees, Present
<1> QED
  BY <1>1, AlwaysKnown, PTL

(***************************************************************************)
(* Requests carry the token of the member whom the pages show: authFetch   *)
(* (api/client.ts) reads the storage at each call, AuthContext shows the   *)
(* member of its own state, and the two agree except after the mishaps     *)
(* that the property names.                                                *)
(***************************************************************************)
THEOREM RequestsAreTheMembers == Spec => []ActsAsShown
<1>1. Known => ActsAsShown
  <2> SUFFICES ASSUME Known, web.access # None, web.status # "loading",
                      ~Unless({"refresh", "profile", "early"}), ~InFlight(web, {"signin"})
               PROVE  \/ web.status = "authenticated" /\ web.user = web.access.who
                      \/ web.status = "anonymous" /\ Unless({"blip"})
    BY DEF ActsAsShown
  <2>1. ~Saw(web, {"refresh", "early"}) /\ ~Saw(web, {"refresh", "early", "profile"})
    BY DEF Unless, Saw
  <2>2. TokensPaired(web) /\ NobodyYet(web) /\ MemberAgrees(web)
    BY <2>1 DEF Known, SessionInv, TokensAgree
  <2>3. web.refresh # None /\ web.access.who = web.refresh
    BY <2>2 DEF TokensPaired
  <2>4. CASE web.status = "authenticated"
    BY <2>1, <2>2, <2>3, <2>4 DEF MemberAgrees, Present
  <2>5. CASE web.status = "anonymous"
    BY <2>2, <2>3, <2>5 DEF NobodyYet, Unless
  <2>6. web.status \in {"loading", "authenticated", "anonymous"}
    BY DEF Known, TypeOK, Tab
  <2> QED
    BY <2>4, <2>5, <2>6
<1> QED
  BY <1>1, AlwaysKnown, PTL

(***************************************************************************)
(* The ends of a session. Whoever is signed in before a step and is not    *)
(* after it was disabled, lost the tokens to one of the mishaps that       *)
(* SessionSurvives names, or wanted to leave.                              *)
(***************************************************************************)

\* Whose session ends, and by what.
Excused == \/ web.user \in ended
           \/ Saw(web, {"refresh lost", "refresh", "profile", "early", "stuck"})
           \/ Saw(web', {"former", "slow", "stuck"})

\* The member of the stored tokens is the one who is signed in.
LEMMA StoredIsShown ==
  ASSUME Known, Present(web), ~Saw(web, {"refresh lost", "refresh", "profile", "early", "stuck"}),
         web.refresh # None
  PROVE  web.refresh = web.user
<1>1. ~Saw(web, {"refresh", "early", "profile"})
  BY DEF Saw
<1> QED
  BY <1>1 DEF Known, SessionInv, MemberAgrees

\* A member without tokens was disabled, or a mishap took them.
LEMMA NoTokensEnded ==
  ASSUME Known, Present(web), web.refresh = None
  PROVE  web.user \in ended \/ Saw(web, {"refresh lost", "refresh", "profile", "early", "former", "slow", "stuck"})
BY DEF Known, SessionInv, Survivors

\* A page load that ends the session had no tokens to check.
LEMMA ReloadEnds ==
  ASSUME Known, Present(web), Reload, web'.status = "anonymous"
  PROVE  Excused
<1> DEFINE fresh == [web EXCEPT
            !.refreshing = [at |-> "idle", who |-> None], !.stuck = FALSE,
            !.calls = [s \in Slots |-> NoCall],
            !.lists = [k \in Keys |-> None],
            !.user = None, !.retries = 2, !.submitting = FALSE, !.composing = FALSE,
            !.key = "mine", !.mishaps = @ \ {"resync", "patch", "delete", "profile", "stuck"}]
           y == [fresh EXCEPT !.status = "loading", !.route = web.route]
<1>0. web \in Tab
  BY DEF Known, TypeOK
<1>1. CASE web.access = None /\ web.refresh = None
  <2>1. web' = [fresh EXCEPT !.status = "anonymous", !.route = "login"]
    BY <1>1 DEF Reload, Loaded
  <2>2. fresh.mishaps = web.mishaps \ {"resync", "patch", "delete", "profile", "stuck"}
    BY <1>0 DEF Tab
  <2>3. web'.mishaps = fresh.mishaps
    BY <1>0, <2>1 DEF Tab
  <2> HIDE DEF fresh
  <2>4. Saw(web, {"refresh lost", "refresh", "profile", "early", "former", "slow", "stuck"}) => Excused
    BY <2>2, <2>3 DEF Saw, Excused
  <2> QED
    BY <1>1, <2>4, NoTokensEnded DEF Excused
<1>2. CASE ~(web.access = None /\ web.refresh = None)
  <2>1. web' = Issue(y, Request("hydrate"))
    BY <1>2 DEF Reload, Loaded
  <2>2. y.status = "loading" /\ DOMAIN y = DOMAIN web /\ "status" \in DOMAIN web
    BY <1>0 DEF Tab
  <2> HIDE DEF y
  <2>3. web'.status = "loading"
    BY <2>1, <2>2 DEF Issue
  <2> QED
    BY <2>3
<1> QED
  BY <1>1, <1>2

\* A 401 that ends it had no refresh token, or was the second one.
LEMMA DeniedEnds ==
  ASSUME Known, Present(web), NEW s \in Slots, Denied(s), web'.status = "anonymous"
  PROVE  Excused
<1>0. web \in Tab /\ web.calls[s].at = "denied" /\ web' = Unauthorized(web, s)
  BY DEF Known, TypeOK, Denied, Ended
<1>1. CASE Ends(web, s)
  <2>1. PICK y : Yields(y, web, s) /\ web' = EndSession(Fail(y, s))
    BY <1>0, <1>1, DeniedShape
  <2> DEFINE x == Fail(y, s)
  <2>2. x \in Tab /\ x.mishaps = y.mishaps
    BY <2>1, FailShape DEF Yields
  <2> HIDE DEF x
  <2>3. y.mishaps \subseteq web'.mishaps
    BY <2>1, <2>2, EndSessionShape DEF EndedBy, LeftBy, x
  <2>4. web.mishaps \subseteq web'.mishaps
    BY <2>1, <2>3 DEF Yields
  <2>5. CASE web.calls[s].again
    <3>1. Verdict(web.calls[s], web, ended)
      BY DEF Known, SessionInv, Verdicts
    <3>2. "slow" \in web'.mishaps
      BY <1>0, <2>4, <2>5, <3>1 DEF Verdict
    <3> QED
      BY <3>2 DEF Excused, Saw
  <2>6. CASE web.refresh = None
    <3>1. Saw(web, {"refresh lost", "refresh", "profile", "early", "former", "slow", "stuck"}) => Excused
      BY <2>4 DEF Saw, Excused
    <3> QED
      BY <2>6, <3>1, NoTokensEnded DEF Excused
  <2>7. CASE "stuck" \in y.mishaps
    BY <2>3, <2>7 DEF Excused, Saw
  <2> QED
    BY <2>1, <2>5, <2>6, <2>7 DEF Yields
<1>2. CASE ~Ends(web, s)
  <2>1. web'.status = web.status
    BY <1>0, <1>2 DEF Unauthorized, Ends, NoRefresh, Tab
  <2> QED
    BY <2>1 DEF Present
<1> QED
  BY <1>1, <1>2

\* A 403 that ends it is about its member, or a former one's call.
LEMMA DisabledEnds ==
  ASSUME Known, Present(web), NEW s \in Slots, AccountDisabled(s)
  PROVE  Excused
<1> DEFINE cond == web.calls[s].token.who # web.refresh
           y == Noting(web, "former", cond)
           x == Fail(y, s)
<1>0. web \in Tab /\ web.calls[s].at = "disabled" /\ web.calls[s] \in Call /\ web' = EndSession(x)
  BY DEF Known, TypeOK, AccountDisabled, Ended, Tab
<1>1. cond \in BOOLEAN /\ "former" \in Mishaps /\ (cond <=> web.calls[s].token.who # web.refresh)
  BY DEF Mishaps
<1> HIDE DEF cond
<1>2. y \in Tab /\ y.mishaps = IF cond THEN web.mishaps \cup {"former"} ELSE web.mishaps
  BY <1>0, <1>1, NotingShape
<1> HIDE DEF y
<1>3. x \in Tab /\ x.mishaps = y.mishaps
  BY <1>2, FailShape
<1> HIDE DEF x
<1>4. x.mishaps \subseteq web'.mishaps
  BY <1>0, <1>3, EndSessionShape DEF EndedBy, LeftBy
<1>5. CASE cond
  BY <1>2, <1>3, <1>4, <1>5 DEF Excused, Saw
<1>6. CASE ~cond
  <2>1. Verdict(web.calls[s], web, ended)
    BY DEF Known, SessionInv, Verdicts
  <2>2. web.calls[s].token # None /\ web.calls[s].token.who \in ended
    BY <1>0, <2>1 DEF Verdict
  <2>3. web.refresh \in ended /\ web.refresh # None
    <3>1. web.refresh \in Members
      BY <1>0, <1>1, <1>6, <2>2 DEF Call, Token
    <3> QED
      BY <1>1, <1>6, <2>2, <3>1, SessionAssumption
  <2> QED
    BY <2>3, StoredIsShown DEF Excused
<1> QED
  BY <1>5, <1>6

\* A refresh that ends it was refused, or lost.
LEMMA RefreshEnds ==
  ASSUME Known, Present(web), RefreshAnswered, web'.status = "anonymous"
  PROVE  Excused
<1>0. web \in Tab /\ web.refreshing.at \in {"ok", "bad"} /\ web.refreshing.who \in Members
  BY DEF Known, TypeOK, RefreshAnswered, SessionInv, Typed
<1>1. CASE web.refreshing.at = "ok"
  <2>1. web' = Refreshed(web, TRUE)
    BY <1>1 DEF RefreshAnswered
  <2>2. SameMember(web', web)
    BY <1>0, <2>1, RefreshedShape
  <2> QED
    BY <2>2 DEF SameMember, Present
<1>2. CASE web.refreshing.at = "bad"
  <2> SUFFICES ASSUME ~Saw(web, {"refresh lost", "refresh", "profile", "early", "stuck"})
               PROVE  web.user \in ended
    BY DEF Excused
  <2>1. web.refreshing.who \in ended
    BY <1>2 DEF Known, SessionInv, Verdicts, Saw
  <2>2. web.refreshing.who = web.refresh
    BY <1>2 DEF Known, SessionInv, TokensAgree, TokensPaired, Saw
  <2>3. web.refresh # None
    BY <1>0, <2>2, SessionAssumption
  <2> QED
    BY <2>1, <2>2, <2>3, StoredIsShown
<1> QED
  BY <1>0, <1>1, <1>2

\* Behind a signed-in member no sign-in is under way.
LEMMA NobodySigningIn ==
  ASSUME Known, Present(web), ~Saw(web, {"refresh lost", "refresh", "profile", "early", "stuck"})
  PROVE  \A s \in Slots : /\ web.calls[s].op # "signin"
                          /\ web.calls[s].op = "hydrate" => ~web.calls[s].live
<1>1. OneSignIn(web) /\ NobodyYet(web)
  BY DEF Known, SessionInv, TokensAgree, Saw
<1> QED
  BY <1>1 DEF OneSignIn, NobodyYet, Entering, Present

\* The steps that leave the member where they are.
LEMMA MemberStays ==
  ASSUME Known, Member
  PROVE  web'.status = web.status \/ SignOut \/ Reload
<1>0. web \in Tab
  BY DEF Known, TypeOK
<1>1. ASSUME ChangeProfile \/ OpenNote \/ BackToBoard \/ Compose
      PROVE  web'.status = web.status
  BY <1>0, <1>1 DEF Tab, ChangeProfile, OpenNote, BackToBoard, Compose, Write, EnterBoard, Issue,
     Noting, Cancel
<1>2. ASSUME NEW u \in Members, Submit(u)
      PROVE  web'.status = web.status
  BY <1>0, <1>2 DEF Tab, Submit, Issue, Noting
<1>3. ASSUME NEW key \in Keys, SwitchKey(key)
      PROVE  web'.status = web.status
  BY <1>0, <1>3 DEF Tab, SwitchKey, EnterBoard, Issue, Noting, Cancel
<1>4. ASSUME NEW n \in Notes, SaveNote(n)
      PROVE  web'.status = web.status
  BY <1>0, <1>4 DEF Tab, SaveNote, Write, Issue, Noting
<1>5. ASSUME NEW row \in Shown, NEW patch \in Patches, Organize(row, patch)
      PROVE  web'.status = web.status
  BY <1>0, <1>5 DEF Tab, Organize, Write, Issue, Noting, UpdateCached, SetCached
<1>6. ASSUME NEW ids \in SUBSET Notes, Delete(ids)
      PROVE  web'.status = web.status
  BY <1>0, <1>6 DEF Tab, Delete, Write, Issue, Noting, UpdateCached, SetCached
<1> QED
  BY <1>1, <1>2, <1>3, <1>4, <1>5, <1>6 DEF Member

\* Nothing on the server ends a session by itself.
LEMMA ServerStays ==
  ASSUME Known, Server
  PROVE  web'.status = web.status
<1>0. web \in Tab
  BY DEF Known, TypeOK
<1>1. ASSUME ServeRefresh \/ LoseRefresh \/ TokensExpire \/ \E u \in Members : Disable(u)
      PROVE  web'.status = web.status
  BY <1>0, <1>1 DEF Tab, ServeRefresh, LoseRefresh, TokensExpire, Disable, Noting
<1>2. ASSUME NEW s \in Slots, ServeLogin(s) \/ ServeRejected(s) \/ ServeRead(s) \/ ServeCreate(s)
      PROVE  web'.status = web.status
  BY <1>0, <1>2 DEF Tab, ServeLogin, ServeRejected, ServeRead, ServeCreate, Answer, AnswerFrom
<1>3. ASSUME NEW s \in Slots, ServePatch(s)
      PROVE  web'.status = web.status
  BY <1>0, <1>3 DEF Tab, ServePatch, Answer
<1>4. ASSUME NEW s \in Slots, NEW n \in Notes, ServeDelete(s, n)
      PROVE  web'.status = web.status
  BY <1>0, <1>4 DEF Tab, ServeDelete, Answer
<1>5. ASSUME NEW s \in Slots, LoseCall(s)
      PROVE  web'.status = web.status
  BY <1>0, <1>5 DEF Tab, LoseCall, Noting
<1> QED
  BY <1>1, <1>2, <1>3, <1>4, <1>5 DEF Server

\* No answer ends a session but for what excuses it.
LEMMA AnsweredStays ==
  ASSUME Known, Answered, Present(web), web'.status = "anonymous"
  PROVE  Excused
<1>0. web \in Tab /\ web.status # "anonymous"
  BY DEF Known, TypeOK, Present
<1>1. ASSUME NEW s \in Slots, LoginAnswered(s)
      PROVE  FALSE
  BY <1>0, <1>1 DEF Tab, LoginAnswered, SignIn, SetTokens, SetAccess, Issue, Done
<1>2. ASSUME NEW s \in Slots, SignInAnswered(s)
      PROVE  Excused
  BY <1>2, NobodySigningIn DEF SignInAnswered, Result, Excused
<1>3. ASSUME NEW s \in Slots, HydrateAnswered(s)
      PROVE  Excused
  <2>1. CASE ~web.calls[s].live
    BY <1>0, <1>3, <2>1 DEF HydrateAnswered, Done, Tab
  <2>2. CASE web.calls[s].live
    BY <1>3, <2>2, NobodySigningIn DEF HydrateAnswered, Result, Excused
  <2> QED
    BY <2>1, <2>2
<1>4. ASSUME NEW s \in Slots, ProfileAnswered(s)
      PROVE  FALSE
  BY <1>0, <1>4 DEF Tab, ProfileAnswered, Done
<1>5. ASSUME NEW s \in Slots, ListAnswered(s)
      PROVE  FALSE
  BY <1>0, <1>5 DEF Tab, ListAnswered, SetCached, Done
<1>6. ASSUME NEW s \in Slots, WriteAnswered(s)
      PROVE  FALSE
  BY <1>0, <1>6 DEF Tab, WriteAnswered, Noting, Issue, Done
<1>7. ASSUME NEW s \in Slots, SaveAnswered(s)
      PROVE  FALSE
  BY <1>0, <1>7 DEF Tab, SaveAnswered, UpsertCached, Done
<1>8. ASSUME NEW s \in Slots, CreateAnswered(s)
      PROVE  FALSE
  BY <1>0, <1>8 DEF Tab, CreateAnswered, Cancel, Done
<1> QED
  BY <1>1, <1>2, <1>3, <1>4, <1>5, <1>6, <1>7, <1>8, DeniedEnds, DisabledEnds, RefreshEnds
     DEF Answered

(***************************************************************************)
(* A session of a member whose account is in order ends when they want it, *)
(* and otherwise only by the mishaps that the property names: expired      *)
(* tokens, however many calls they turn down at once, are refreshed and    *)
(* the calls repeated (api/client.ts).                                     *)
(***************************************************************************)
THEOREM TokensEndNoSession == Spec => SessionSurvives
<1>1. ASSUME Known, [Next]_vars
      PROVE  web.status = "authenticated" /\ web'.status = "anonymous" =>
               \/ budget'.signout < budget.signout
               \/ web.user \in ended
               \/ Unless({"refresh lost", "refresh", "profile", "early", "stuck"})
               \/ web'.mishaps \cap {"former", "slow", "stuck"} # {}
  <2> SUFFICES ASSUME web.status = "authenticated", web'.status = "anonymous"
               PROVE  budget'.signout < budget.signout \/ Excused
    BY DEF Excused, Saw, Unless
  <2>0. Present(web) /\ web'.status # web.status
    BY DEF Present
  <2>1. CASE Member
    <3>1. CASE SignOut
      <4>1. budget \in [Kinds -> Nat] /\ budget'["signout"] = budget["signout"] - 1
            /\ "signout" \in Kinds
        BY <1>1, <3>1, SpendTyped DEF SignOut, Kinds, Known, TypeOK
      <4> QED
        BY <4>1
    <3>2. CASE Reload
      BY <1>1, <2>0, <3>2, ReloadEnds
    <3> QED
      BY <1>1, <2>0, <2>1, <3>1, <3>2, MemberStays
  <2>2. CASE Server
    BY <1>1, <2>0, <2>2, ServerStays
  <2>3. CASE Answered
    BY <1>1, <2>0, <2>3, AnsweredStays
  <2>4. CASE UNCHANGED vars
    BY <2>0, <2>4 DEF vars
  <2> QED
    BY <1>1, <2>1, <2>2, <2>3, <2>4 DEF Next
<1>2. Spec => []Known
  BY AlwaysKnown
<1> QED
  BY <1>1, <1>2, PTL DEF Spec, SessionSurvives

(***************************************************************************)
(* The board. The lists show the notes once the changes in flight are made *)
(* (Foreseen): a change goes into the list before its call is answered.    *)
(* One change is in flight at a time, and no list is fetched beside it     *)
(* (Alone), so that a list which was fetched is of the database that it    *)
(* will be shown for (Fresh).                                              *)
(***************************************************************************)

\* What the board keeps.
Writes == {"patch", "delete", "save", "create"}
Fetches == {"list", "resync"}

\* The rows of a list in the database db.
RowIn(db, n) == [id |-> n, pinned |-> db[n].pinned, rev |-> db[n].rev]
Belongs(note, u, key) ==
    CASE key = "mine" -> note.owner = u /\ note.place = "active"
      [] key = "archived" -> note.owner = u /\ note.place = "archived"
      [] OTHER -> note.place = "active"
ListingIn(db, u, key) == {RowIn(db, n) : n \in {m \in Notes : Belongs(db[m], u, key)}}

\* The database once the changes in flight are made.
Making(c, n) == c.op = "patch" /\ c.at # "ok" /\ n \in c.ids
Dropping(c, n) == c.op = "delete" /\ n \in c.ids
Removed(note) == [note EXCEPT !.place = "absent", !.owner = None]
Foreseen(db, w) ==
    [n \in Notes |->
       IF \E s \in Slots : Dropping(w.calls[s], n) THEN Removed(db[n])
       ELSE IF \E s \in Slots : Making(w.calls[s], n)
       THEN Patched(db[n], w.calls[CHOOSE s \in Slots : Making(w.calls[s], n)].patch)
       ELSE db[n]]

\* What an answer can be.
Sound(c) ==
    /\ c.at = "refused" => c.op \in {"login", "patch", "save", "delete"}
    /\ c.op = "list" /\ c.live => c.at # "failed"
    /\ c.op = "delete" /\ c.at = "ok" => c.ids = {}

\* No change crosses a fetch or another change, and a fetch brings what there is.
Alone(w) == \A s, t \in Slots : w.calls[s].op \in Writes /\ w.calls[t].op \in Writes \cup Fetches => s = t
Fresh(db, c) ==
    /\ c.op \in Fetches \cup {"create"} => c.at # "lost"
    /\ c.op \in Fetches /\ c.at = "ok" => c.rows = ListingIn(db, c.who, c.key)

\* Changes under way at a board that shows key, and calls that will lead to a fetch.
Placed(c, key) ==
    /\ c.op \in Writes => c.at # "failed" /\ c.op # "save"
    /\ c.op \in {"patch", "delete"} => c.key = key
Coming(c, key) ==
    \/ c.op = "list" /\ c.live /\ c.key = key
    \/ c.op = "resync" /\ c.key = key /\ c.at # "failed"
    \/ c.op \in {"patch", "delete"} /\ c.at \in {"refused", "lost"}
    \/ c.op = "create" /\ c.at = "ok"

\* The board shows what the server has or will have, or that is being fetched, or
\* will be.
AtBoard(w) == Present(w) /\ w.route = "board"
Mirrors(db, w) ==
    LET list == w.lists[w.key]
    IN list # None /\ list.rows = ListingIn(Foreseen(db, w), list.of, w.key)
BoardAgrees(db, w) ==
    AtBoard(w) => /\ \A s \in Slots : Placed(w.calls[s], w.key)
                  /\ Mirrors(db, w) \/ \E s \in Slots : Coming(w.calls[s], w.key)

Excepted(w) == Saw(w, {"raced", "unseen"})
BoardInv(db, w) ==
    /\ \A s \in Slots : Sound(w.calls[s])
    /\ ~Excepted(w) => /\ Alone(w) /\ \A s \in Slots : Fresh(db, w.calls[s])
                       /\ BoardAgrees(db, w)

\* Exceptions stay.
Marks(v, w) == Excepted(w) => Excepted(v)

\* Mishaps are never forgotten.
LEMMA NotedStays ==
  ASSUME NEW w, NEW v, w.mishaps \subseteq v.mishaps
  PROVE  Marks(v, w)
BY DEF Marks, Excepted, Saw

\* The list that the server makes is the one the proofs speak of.
LEMMA ListingIs ==
  ASSUME NEW u, NEW key
  PROVE  Listing(u, key) = ListingIn(notes, u, key)
BY DEF Listing, ListingIn, RowOf, RowIn, Belongs

\* Without changes in flight the database is as it will be.
LEMMA ForeseenNone ==
  ASSUME NEW db \in [Notes -> Note], NEW w,
         \A s \in Slots, n \in Notes : ~Making(w.calls[s], n) /\ ~Dropping(w.calls[s], n)
  PROVE  Foreseen(db, w) = db
BY DEF Foreseen

\* The database foreseen depends on the changes in flight only.
LEMMA ForeseenSame ==
  ASSUME NEW db, NEW w, NEW v,
         \A s \in Slots, n \in Notes :
            /\ Making(v.calls[s], n) <=> Making(w.calls[s], n)
            /\ Dropping(v.calls[s], n) <=> Dropping(w.calls[s], n)
            /\ Making(w.calls[s], n) => v.calls[s].patch = w.calls[s].patch
  PROVE  Foreseen(db, v) = Foreseen(db, w)
<1>1. ASSUME NEW n \in Notes
      PROVE  /\ (\E s \in Slots : Dropping(v.calls[s], n)) <=> (\E s \in Slots : Dropping(w.calls[s], n))
             /\ (\E s \in Slots : Making(v.calls[s], n)) <=> (\E s \in Slots : Making(w.calls[s], n))
             /\ (\E s \in Slots : Making(w.calls[s], n)) =>
                  v.calls[CHOOSE s \in Slots : Making(v.calls[s], n)].patch
                    = w.calls[CHOOSE s \in Slots : Making(w.calls[s], n)].patch
  <2>1. (CHOOSE s \in Slots : Making(v.calls[s], n)) = (CHOOSE s \in Slots : Making(w.calls[s], n))
    OBVIOUS
  <2>2. ASSUME \E s \in Slots : Making(w.calls[s], n)
        PROVE  Making(w.calls[CHOOSE s \in Slots : Making(w.calls[s], n)], n)
               /\ (CHOOSE s \in Slots : Making(w.calls[s], n)) \in Slots
    BY <2>2
  <2> QED
    BY <2>1, <2>2
<1> QED
  BY <1>1 DEF Foreseen

\* What has nothing to do with the board, or nothing more.
Aside(c) == c.op \notin Writes \cup Fetches /\ (c.at = "refused" => c.op = "login")
Spent(c, key) == ~Coming(c, key) /\ \A n \in Notes : ~Making(c, n) /\ ~Dropping(c, n)

\* A call that concerns no list is spent for every list.
LEMMA AsideIsSpent ==
  ASSUME NEW c, NEW key, Aside(c)
  PROVE  Spent(c, key)
BY DEF Aside, Spent, Coming, Making, Dropping, Writes, Fetches

\* A call that makes no difference to a page that is not the board, and one that makes
\* none to the board either.
Kept(d, c) ==
    /\ d.op = c.op /\ d.key = c.key /\ d.who = c.who /\ d.rows = c.rows /\ d.ids = c.ids
    /\ \A at \in {"ok", "lost", "refused"} : d.at = at => c.at = at
Mild(d, c) ==
    \/ Aside(d)
    \/ /\ Kept(d, c)
       /\ d.op = "list" /\ d.live => c.live /\ (d.at = "failed" => c.at = "failed")
Still(d, c, key) ==
    \/ Aside(d) /\ Spent(c, key)
    \/ /\ d.op = c.op /\ d.key = c.key /\ d.who = c.who /\ d.rows = c.rows /\ d.ids = c.ids
       /\ d.patch = c.patch /\ d.live = c.live
       /\ \A at \in {"ok", "lost", "refused", "failed"} : d.at = at <=> c.at = at

\* A call as it was is a call of which less is to come.
LEMMA StillIsMild ==
  ASSUME NEW d, NEW c, NEW key, Still(d, c, key)
  PROVE  Mild(d, c)
BY DEF Still, Mild, Kept

\* A call of which less is to come stays sound and fresh.
LEMMA MildKeeps ==
  ASSUME NEW db, NEW d, NEW c, Mild(d, c), Sound(c)
  PROVE  /\ Sound(d)
         /\ Fresh(db, c) => Fresh(db, d)
         /\ d.op \in Writes \cup Fetches => d.op = c.op
<1>1. CASE Aside(d)
  BY <1>1 DEF Aside, Sound, Fresh, Writes, Fetches
<1>2. CASE ~Aside(d)
  BY <1>2 DEF Mild, Kept, Sound, Fresh, Writes, Fetches
<1> QED
  BY <1>1, <1>2

\* Away from the board little is claimed of the lists.
LEMMA AwayKeeps ==
  ASSUME NEW db, NEW w, NEW v, BoardInv(db, w), Marks(v, w), ~AtBoard(v),
         \A s \in Slots : Mild(v.calls[s], w.calls[s])
  PROVE  BoardInv(db, v)
<1>1. \A s \in Slots : /\ Sound(v.calls[s])
                       /\ Fresh(db, w.calls[s]) => Fresh(db, v.calls[s])
                       /\ v.calls[s].op \in Writes \cup Fetches => v.calls[s].op = w.calls[s].op
  BY MildKeeps DEF BoardInv
<1>2. Alone(w) => Alone(v)
  BY <1>1 DEF Alone
<1> QED
  BY <1>1, <1>2 DEF BoardInv, BoardAgrees, Marks

\* With the lists as they were the board's invariant stays.
LEMMA StayKeeps ==
  ASSUME NEW db, NEW w, NEW v, BoardInv(db, w), Marks(v, w), AtBoard(v) => AtBoard(w),
         v.lists = w.lists, v.key = w.key,
         \A s \in Slots : Still(v.calls[s], w.calls[s], w.key)
  PROVE  BoardInv(db, v)
<1>1. \A s \in Slots : /\ Sound(v.calls[s])
                       /\ Fresh(db, w.calls[s]) => Fresh(db, v.calls[s])
                       /\ v.calls[s].op \in Writes \cup Fetches => v.calls[s].op = w.calls[s].op
  BY MildKeeps, StillIsMild DEF BoardInv
<1>2. Alone(w) => Alone(v)
  BY <1>1 DEF Alone
<1>3. Foreseen(db, v) = Foreseen(db, w)
  <2>1. ASSUME NEW s \in Slots, NEW n \in Notes
        PROVE  /\ Making(v.calls[s], n) <=> Making(w.calls[s], n)
               /\ Dropping(v.calls[s], n) <=> Dropping(w.calls[s], n)
               /\ Making(w.calls[s], n) => v.calls[s].patch = w.calls[s].patch
    <3>1. CASE Aside(v.calls[s]) /\ Spent(w.calls[s], w.key)
      BY <3>1, AsideIsSpent DEF Spent
    <3>2. CASE ~(Aside(v.calls[s]) /\ Spent(w.calls[s], w.key))
      BY <3>2 DEF Still, Making, Dropping
    <3> QED
      BY <3>1, <3>2
  <2> QED
    BY <2>1, ForeseenSame
<1>4. \A s \in Slots : Coming(w.calls[s], w.key) => Coming(v.calls[s], v.key)
  BY DEF Still, Spent, Coming
<1>5. \A s \in Slots : Placed(w.calls[s], w.key) => Placed(v.calls[s], v.key)
  BY DEF Still, Aside, Placed, Writes
<1>6. BoardAgrees(db, w) => BoardAgrees(db, v)
  BY <1>3, <1>4, <1>5 DEF BoardAgrees, Mirrors
<1> QED
  BY <1>1, <1>2, <1>6 DEF BoardInv, Marks

\* The board mounts: what it shows is fetched, and a change under way is noted.
LEMMA MountKeeps ==
  ASSUME NEW db, NEW was, BoardInv(db, was), NEW w \in Tab, Marks(w, was),
         \A s \in Slots : Mild(w.calls[s], was.calls[s]),
         NEW key \in Keys, Vacant(w)
  PROVE  BoardInv(db, EnterBoard(w, key))
<1> DEFINE v == EnterBoard(w, key)
           call == [Request("list") EXCEPT !.key = key]
<1>1. /\ v.key = key
      /\ Issued(v, w, call)
      /\ v.mishaps = IF Writing(w) THEN w.mishaps \cup {"raced"} ELSE w.mishaps
  BY EnterBoardShape DEF Vacant
<1>2. call \in Call /\ call.op = "list" /\ call.live /\ call.key = key
  BY RequestTyped DEF Call, Ops
<1> HIDE DEF v, call
<1>3. PICK r \in Slots : /\ w.calls[r].op = "none" /\ v.calls[r] = AsSent(w, call)
                         /\ \A t \in Slots \ {r} : v.calls[t] = w.calls[t]
  BY <1>1 DEF Issued
<1>4. /\ v.calls[r].op = "list" /\ v.calls[r].at = "sent" /\ v.calls[r].live
      /\ v.calls[r].key = key
  BY <1>2, <1>3 DEF AsSent, Call
<1>a. \A s \in Slots : Sound(w.calls[s]) /\ (Fresh(db, was.calls[s]) => Fresh(db, w.calls[s]))
  BY MildKeeps DEF BoardInv
<1>5. \A s \in Slots : Sound(v.calls[s])
  BY <1>3, <1>4, <1>a DEF Sound
<1>6. ASSUME ~Excepted(v)
      PROVE  ~Excepted(was) /\ \A s \in Slots : w.calls[s].op \notin Writes
  <2>1. ~Excepted(w) /\ ~Writing(w)
    BY <1>1, <1>6 DEF Excepted, Saw
  <2> QED
    BY <2>1 DEF Marks, Writing, InFlight, Writes
<1>7. ASSUME ~Excepted(v)
      PROVE  Alone(v) /\ (\A s \in Slots : Fresh(db, v.calls[s])) /\ BoardAgrees(db, v)
  <2>1. \A s \in Slots : v.calls[s].op \notin Writes
    BY <1>3, <1>4, <1>6, <1>7 DEF Writes
  <2>2. \A s \in Slots : Fresh(db, w.calls[s])
    BY <1>6, <1>7, <1>a DEF BoardInv
  <2>3. \A s \in Slots : Fresh(db, v.calls[s])
    BY <1>3, <1>4, <2>2 DEF Fresh
  <2>4. \A s \in Slots : Placed(v.calls[s], v.key)
    BY <2>1 DEF Placed, Writes
  <2>5. Coming(v.calls[r], v.key)
    BY <1>1, <1>4 DEF Coming
  <2> QED
    BY <2>1, <2>3, <2>4, <2>5 DEF Alone, BoardAgrees
<1> QED
  BY <1>5, <1>7 DEF BoardInv, v

\* After the mishaps that the property names nothing is claimed of the lists.
LEMMA ExceptedKeeps ==
  ASSUME NEW db, NEW v, Excepted(v), \A s \in Slots : Sound(v.calls[s])
  PROVE  BoardInv(db, v)
BY DEF BoardInv

\* What nobody else does while a change is under way.
LEMMA NobodyElse ==
  ASSUME NEW w, Alone(w), NEW r \in Slots, w.calls[r].op \in Writes, NEW s \in Slots \ {r}
  PROVE  w.calls[s].op \notin Writes \cup Fetches
BY DEF Alone

\* A call that neither changes nor fetches notes is spent.
LEMMA OthersSpent ==
  ASSUME NEW c, NEW key, c.op \notin Writes \cup Fetches
  PROVE  Spent(c, key)
BY DEF Spent, Coming, Making, Dropping, Writes, Fetches

\* A change that does not get through will be followed by a fetch.
LEMMA TroubleKeeps ==
  ASSUME NEW db, NEW w, NEW v, BoardInv(db, w), Marks(v, w), AtBoard(v) => AtBoard(w),
         v.key = w.key, NEW r \in Slots,
         w.calls[r].op \in {"patch", "delete", "save"},
         v.calls[r].op = w.calls[r].op, v.calls[r].key = w.calls[r].key,
         v.calls[r].at \in {"lost", "refused"},
         \A s \in Slots \ {r} : v.calls[s] = w.calls[s]
  PROVE  BoardInv(db, v)
<1> DEFINE c == w.calls[r]
           d == v.calls[r]
<1>1. d.op = c.op /\ d.key = c.key /\ d.at \in {"lost", "refused"}
  OBVIOUS
<1>2. \A s \in Slots : v.calls[s].op = w.calls[s].op
  BY <1>1
<1>3. \A s \in Slots : Sound(v.calls[s])
  BY <1>1 DEF BoardInv, Sound
<1>4. ASSUME ~Excepted(v)
      PROVE  Alone(v) /\ (\A s \in Slots : Fresh(db, v.calls[s])) /\ BoardAgrees(db, v)
  <2>1. Alone(w) /\ (\A s \in Slots : Fresh(db, w.calls[s])) /\ BoardAgrees(db, w)
    BY <1>4 DEF BoardInv, Marks
  <2>2. Alone(v)
    BY <1>2, <2>1 DEF Alone
  <2>3. \A s \in Slots : Fresh(db, v.calls[s])
    BY <1>1, <2>1 DEF Fresh, Fetches
  <2>4. ASSUME AtBoard(v)
        PROVE  (\A s \in Slots : Placed(v.calls[s], v.key)) /\ Coming(v.calls[r], v.key)
    <3>1. \A s \in Slots : Placed(w.calls[s], w.key)
      BY <2>1, <2>4 DEF BoardAgrees
    <3>2. Placed(d, v.key)
      BY <1>1, <3>1 DEF Placed, Writes
    <3>3. \A s \in Slots : Placed(v.calls[s], v.key)
      BY <3>1, <3>2
    <3>4. c.op # "save"
      BY <3>1 DEF Placed, Writes
    <3> QED
      BY <1>1, <3>3, <3>4 DEF Coming
  <2> QED
    BY <2>2, <2>3, <2>4 DEF BoardAgrees
<1> QED
  BY <1>3, <1>4 DEF BoardInv

\* The server lists what there is.
LEMMA FetchedKeeps ==
  ASSUME NEW db, NEW w, NEW v, BoardInv(db, w), Marks(v, w), AtBoard(v) => AtBoard(w),
         v.lists = w.lists, v.key = w.key, NEW r \in Slots, w.calls[r].op \in Fetches,
         v.calls[r].op = w.calls[r].op, v.calls[r].key = w.calls[r].key,
         v.calls[r].live = w.calls[r].live, v.calls[r].at = "ok",
         v.calls[r].rows = ListingIn(db, v.calls[r].who, v.calls[r].key),
         \A s \in Slots \ {r} : v.calls[s] = w.calls[s]
  PROVE  BoardInv(db, v)
<1> DEFINE c == w.calls[r]
           d == v.calls[r]
<1>1. /\ d.op = c.op /\ d.key = c.key /\ d.at = "ok" /\ d.live = c.live
      /\ d.rows = ListingIn(db, d.who, d.key)
  OBVIOUS
<1>2. \A s \in Slots : v.calls[s].op = w.calls[s].op
  BY <1>1
<1>3. \A s \in Slots : Sound(v.calls[s])
  BY <1>1 DEF BoardInv, Sound, Fetches
<1>4. ASSUME ~Excepted(v)
      PROVE  Alone(v) /\ (\A s \in Slots : Fresh(db, v.calls[s])) /\ BoardAgrees(db, v)
  <2>1. Alone(w) /\ (\A s \in Slots : Fresh(db, w.calls[s])) /\ BoardAgrees(db, w)
    BY <1>4 DEF BoardInv, Marks
  <2>2. Alone(v)
    BY <1>2, <2>1 DEF Alone
  <2>3. Fresh(db, d)
    BY <1>1 DEF Fresh
  <2>4. Foreseen(db, v) = Foreseen(db, w)
    <3>1. ASSUME NEW s \in Slots, NEW n \in Notes
          PROVE  /\ Making(v.calls[s], n) <=> Making(w.calls[s], n)
                 /\ Dropping(v.calls[s], n) <=> Dropping(w.calls[s], n)
                 /\ Making(w.calls[s], n) => v.calls[s].patch = w.calls[s].patch
      BY <1>1 DEF Making, Dropping, Fetches
    <3> QED
      BY <3>1, ForeseenSame
  <2>5. Mirrors(db, w) => Mirrors(db, v)
    BY <2>4 DEF Mirrors
  <2>6. \A s \in Slots : Coming(w.calls[s], w.key) => Coming(v.calls[s], v.key)
    BY <1>1 DEF Coming, Fetches
  <2>7. \A s \in Slots : Placed(w.calls[s], w.key) => Placed(v.calls[s], v.key)
    BY <1>1 DEF Placed, Fetches, Writes
  <2> QED
    BY <2>1, <2>2, <2>3, <2>5, <2>6, <2>7 DEF BoardAgrees
<1> QED
  BY <1>3, <1>4 DEF BoardInv

\* The server makes a change: as it was foreseen, on the board.
LEMMA MadeKeeps ==
  ASSUME NEW db, NEW made, NEW w, NEW v, BoardInv(db, w), Marks(v, w), AtBoard(v) => AtBoard(w),
         v.lists = w.lists, v.key = w.key, NEW r \in Slots,
         w.calls[r].op \in Writes, v.calls[r].op = w.calls[r].op,
         v.calls[r].key = w.calls[r].key, Sound(v.calls[r]), v.calls[r].at \in {"sent", "ok"},
         \A s \in Slots \ {r} : v.calls[s] = w.calls[s],
         ~Excepted(v) /\ AtBoard(v) /\ (\A s \in Slots \ {r} : Spent(w.calls[s], w.key)) =>
           \/ Coming(v.calls[r], v.key)
           \/ ~Coming(w.calls[r], w.key) /\ Foreseen(made, v) = Foreseen(db, w)
  PROVE  BoardInv(made, v)
<1>2. \A s \in Slots : v.calls[s].op = w.calls[s].op
  OBVIOUS
<1>3. \A s \in Slots : Sound(v.calls[s])
  BY DEF BoardInv
<1>4. ASSUME ~Excepted(v)
      PROVE  Alone(v) /\ (\A s \in Slots : Fresh(made, v.calls[s])) /\ BoardAgrees(made, v)
  <2>1. Alone(w) /\ (\A s \in Slots : Fresh(db, w.calls[s])) /\ BoardAgrees(db, w)
    BY <1>4 DEF BoardInv, Marks
  <2>2. Alone(v)
    BY <1>2, <2>1 DEF Alone
  <2>3. \A s \in Slots \ {r} : w.calls[s].op \notin Writes \cup Fetches
    BY <2>1, NobodyElse
  <2>4. ASSUME NEW s \in Slots
        PROVE  Fresh(made, v.calls[s])
    <3>1. CASE s = r
      BY <3>1 DEF Fresh, Writes, Fetches
    <3>2. CASE s # r
      BY <2>3, <3>2 DEF Fresh, Writes, Fetches
    <3> QED
      BY <3>1, <3>2
  <2>5. ASSUME AtBoard(v)
        PROVE  /\ \A s \in Slots : Placed(v.calls[s], v.key)
               /\ Mirrors(made, v) \/ \E s \in Slots : Coming(v.calls[s], v.key)
    <3>1. /\ \A s \in Slots : Placed(w.calls[s], w.key)
          /\ Mirrors(db, w) \/ \E s \in Slots : Coming(w.calls[s], w.key)
      BY <2>1, <2>5 DEF BoardAgrees
    <3>2. Placed(v.calls[r], v.key)
      <4>1. Placed(w.calls[r], w.key)
        BY <3>1
      <4> QED
        BY <4>1 DEF Placed
    <3>3. \A s \in Slots \ {r} : Spent(w.calls[s], w.key)
      BY <2>3, OthersSpent
    <3>4. CASE Coming(v.calls[r], v.key)
      BY <3>1, <3>2, <3>4
    <3>5. CASE ~Coming(w.calls[r], w.key) /\ Foreseen(made, v) = Foreseen(db, w)
      <4>1. Mirrors(db, w)
        BY <3>1, <3>3, <3>5 DEF Spent
      <4>2. Mirrors(made, v)
        BY <3>5, <4>1 DEF Mirrors
      <4> QED
        BY <3>1, <3>2, <4>2
    <3> QED
      BY <1>4, <2>5, <3>3, <3>4, <3>5
  <2> QED
    BY <2>2, <2>4, <2>5 DEF BoardAgrees
<1> QED
  BY <1>3, <1>4 DEF BoardInv

\* A change is asked for, and shown: with nothing else under way, the board shows what
\* the server will have.
LEMMA AskedKeeps ==
  ASSUME NEW db, NEW w \in Tab, NEW v, BoardInv(db, w), AtBoard(v) => AtBoard(w),
         NEW call \in Call, call.op \in Writes, Issued(v, w, call),
         v.mishaps = IF Fetching(w) \/ Writing(w) THEN w.mishaps \cup {"raced"} ELSE w.mishaps,
         v.key = w.key,
         AtBoard(v) => /\ call.op # "save"
                       /\ call.op \in {"patch", "delete"} => call.key = w.key
                       /\ (\A s \in Slots : w.calls[s].op \notin Writes) /\ Mirrors(db, w)
                            => Mirrors(db, v)
  PROVE  BoardInv(db, v)
<1>1. PICK r \in Slots : /\ w.calls[r].op = "none" /\ v.calls[r] = AsSent(w, call)
                         /\ \A t \in Slots \ {r} : v.calls[t] = w.calls[t]
  BY DEF Issued
<1>2. /\ v.calls[r].op = call.op /\ v.calls[r].at = "sent" /\ v.calls[r].key = call.key
  BY <1>1 DEF AsSent, Call
<1>3. \A s \in Slots : Sound(v.calls[s])
  BY <1>1, <1>2 DEF BoardInv, Sound
<1>4. ASSUME ~Excepted(v)
      PROVE  ~Excepted(w) /\ \A s \in Slots : w.calls[s].op \notin Writes \cup Fetches
  BY <1>4 DEF Excepted, Saw, Writing, Fetching, InFlight, Writes, Fetches
<1>5. ASSUME ~Excepted(v)
      PROVE  Alone(v) /\ (\A s \in Slots : Fresh(db, v.calls[s])) /\ BoardAgrees(db, v)
  <2>1. \A s \in Slots : v.calls[s].op \in Writes \cup Fetches => s = r
    BY <1>1, <1>4, <1>5
  <2>2. \A s \in Slots : Fresh(db, v.calls[s])
    BY <1>1, <1>2, <1>4, <1>5 DEF Fresh, BoardInv, Writes, Fetches
  <2>3. ASSUME AtBoard(v)
        PROVE  (\A s \in Slots : Placed(v.calls[s], v.key)) /\ Mirrors(db, v)
    <3>1. /\ \A s \in Slots : Placed(w.calls[s], w.key)
          /\ Mirrors(db, w) \/ \E s \in Slots : Coming(w.calls[s], w.key)
      BY <1>4, <1>5, <2>3 DEF BoardInv, BoardAgrees
    <3>2. \A s \in Slots : ~Coming(w.calls[s], w.key)
      BY <1>4, <1>5, OthersSpent DEF Spent
    <3>3. Mirrors(db, v)
      BY <1>4, <1>5, <2>3, <3>1, <3>2
    <3>4. Placed(v.calls[r], v.key)
      BY <1>2, <2>3 DEF Placed
    <3> QED
      BY <1>1, <3>1, <3>3, <3>4
  <2> QED
    BY <2>1, <2>2, <2>3 DEF Alone, BoardAgrees
<1> QED
  BY <1>3, <1>5 DEF BoardInv

\* One change in flight.
Only(w, r) == \A s \in Slots \ {r}, n \in Notes : ~Making(w.calls[s], n) /\ ~Dropping(w.calls[s], n)

\* The database foreseen while one patch is in flight, ...
LEMMA ForeseenPatched ==
  ASSUME NEW db, NEW w, NEW r \in Slots, Only(w, r), w.calls[r].op = "patch",
         w.calls[r].at # "ok"
  PROVE  Foreseen(db, w) = [n \in Notes |-> IF n \in w.calls[r].ids
                                            THEN Patched(db[n], w.calls[r].patch) ELSE db[n]]
<1>1. ASSUME NEW n \in Notes
      PROVE  /\ \A s \in Slots : ~Dropping(w.calls[s], n)
             /\ \A s \in Slots : Making(w.calls[s], n) <=> s = r /\ n \in w.calls[r].ids
  <2>1. ASSUME NEW s \in Slots
        PROVE  ~Dropping(w.calls[s], n) /\ (Making(w.calls[s], n) <=> s = r /\ n \in w.calls[r].ids)
    <3>1. CASE s = r
      BY <3>1 DEF Making, Dropping
    <3>2. CASE s # r
      BY <3>2 DEF Only
    <3> QED
      BY <3>1, <3>2
  <2> QED
    BY <2>1
<1>2. ASSUME NEW n \in Notes, n \in w.calls[r].ids
      PROVE  (CHOOSE s \in Slots : Making(w.calls[s], n)) = r
  BY <1>1, <1>2
<1> DEFINE at(n) == IF \E s \in Slots : Dropping(w.calls[s], n) THEN Removed(db[n])
                    ELSE IF \E s \in Slots : Making(w.calls[s], n)
                    THEN Patched(db[n], w.calls[CHOOSE s \in Slots : Making(w.calls[s], n)].patch)
                    ELSE db[n]
<1>3. ASSUME NEW n \in Notes
      PROVE  at(n) = IF n \in w.calls[r].ids THEN Patched(db[n], w.calls[r].patch) ELSE db[n]
  BY <1>1, <1>2
<1>4. Foreseen(db, w) = [n \in Notes |-> at(n)]
  BY DEF Foreseen
<1> HIDE DEF at
<1> QED
  BY <1>3, <1>4

\* ... and while one deletion is.
LEMMA ForeseenRemoved ==
  ASSUME NEW db, NEW w, NEW r \in Slots, Only(w, r), w.calls[r].op = "delete"
  PROVE  Foreseen(db, w) = [n \in Notes |-> IF n \in w.calls[r].ids THEN Removed(db[n]) ELSE db[n]]
<1>1. ASSUME NEW n \in Notes
      PROVE  /\ \A s \in Slots : ~Making(w.calls[s], n)
             /\ \A s \in Slots : Dropping(w.calls[s], n) <=> s = r /\ n \in w.calls[r].ids
  <2>1. ASSUME NEW s \in Slots
        PROVE  ~Making(w.calls[s], n) /\ (Dropping(w.calls[s], n) <=> s = r /\ n \in w.calls[r].ids)
    <3>1. CASE s = r
      BY <3>1 DEF Making, Dropping
    <3>2. CASE s # r
      BY <3>2 DEF Only
    <3> QED
      BY <3>1, <3>2
  <2> QED
    BY <2>1
<1> DEFINE at(n) == IF \E s \in Slots : Dropping(w.calls[s], n) THEN Removed(db[n])
                    ELSE IF \E s \in Slots : Making(w.calls[s], n)
                    THEN Patched(db[n], w.calls[CHOOSE s \in Slots : Making(w.calls[s], n)].patch)
                    ELSE db[n]
<1>3. ASSUME NEW n \in Notes
      PROVE  at(n) = IF n \in w.calls[r].ids THEN Removed(db[n]) ELSE db[n]
  BY <1>1
<1>4. Foreseen(db, w) = [n \in Notes |-> at(n)]
  BY DEF Foreseen
<1> HIDE DEF at
<1> QED
  BY <1>3, <1>4

\* The list that a pin or a move shows at once is the one there will be.
Changed(row, patch) ==
    IF patch \in {"pin", "unpin"} THEN {[row EXCEPT !.pinned = patch = "pin"]} ELSE {}

\* Patching the row in the list gives the list of the patched database.
LEMMA OrganizedList ==
  ASSUME NEW db \in [Notes -> Note], NEW u, NEW key \in Keys, NEW row \in ListingIn(db, u, key),
         NEW patch \in Patches,
         IF key = "archived" THEN patch = "unarchive" ELSE patch \in {"archive", "pin", "unpin"},
         NEW made, made = [n \in Notes |-> IF n \in {row.id} THEN Patched(db[n], patch) ELSE db[n]]
  PROVE  ListingIn(made, u, key) = (ListingIn(db, u, key) \ {row}) \cup Changed(row, patch)
<1>1. PICK n \in Notes : Belongs(db[n], u, key) /\ row = RowIn(db, n)
  BY DEF ListingIn
<1>2. row.id = n /\ row.pinned = db[n].pinned /\ row.rev = db[n].rev
  BY <1>1 DEF RowIn
<1>3. ASSUME NEW m \in Notes \ {n}
      PROVE  made[m] = db[m] /\ RowIn(made, m) = RowIn(db, m) /\ RowIn(db, m) # row
  <2>1. made[m] = db[m]
    BY <1>2
  <2>2. RowIn(db, m).id = m
    BY DEF RowIn
  <2> QED
    BY <1>2, <2>1, <2>2 DEF RowIn
<1>4. made[n] = Patched(db[n], patch) /\ db[n] \in Note
  BY <1>2
<1>5. CASE patch \in {"pin", "unpin"}
  <2>1. made[n] = [db[n] EXCEPT !.pinned = patch = "pin"]
    BY <1>4, <1>5 DEF Patched
  <2>2. /\ made[n].owner = db[n].owner /\ made[n].place = db[n].place
        /\ made[n].rev = db[n].rev /\ made[n].pinned = (patch = "pin")
    BY <1>4, <2>1 DEF Note
  <2>3. Belongs(made[n], u, key)
    BY <1>1, <2>2 DEF Belongs, Keys
  <2>4. RowIn(made, n) = [row EXCEPT !.pinned = patch = "pin"]
    <3>1. row = [id |-> n, pinned |-> db[n].pinned, rev |-> db[n].rev]
      BY <1>1 DEF RowIn
    <3>2. [row EXCEPT !.pinned = patch = "pin"] = [id |-> n, pinned |-> (patch = "pin"), rev |-> db[n].rev]
      BY <3>1
    <3> QED
      BY <2>2, <3>2 DEF RowIn
  <2>5. Changed(row, patch) = {RowIn(made, n)}
    BY <1>5, <2>4 DEF Changed
  <2> QED
    BY <1>1, <1>3, <2>3, <2>5 DEF ListingIn
<1>6. CASE patch \notin {"pin", "unpin"}
  <2>1. ~Belongs(made[n], u, key)
    <3>1. CASE key = "archived"
      <4>1. made[n].place = "active"
        BY <1>4, <3>1 DEF Patched, Note
      <4> QED
        BY <3>1, <4>1 DEF Belongs
    <3>2. CASE key # "archived"
      <4>1. made[n].place = "archived"
        BY <1>4, <1>6, <3>2 DEF Patched, Note
      <4> QED
        BY <3>2, <4>1 DEF Belongs, Keys
    <3> QED
      BY <3>1, <3>2
  <2>2. Changed(row, patch) = {}
    BY <1>6 DEF Changed
  <2> QED
    BY <1>1, <1>3, <2>1, <2>2 DEF ListingIn
<1> QED
  BY <1>5, <1>6

\* So is the one without what is deleted.
LEMMA RemovedList ==
  ASSUME NEW db \in [Notes -> Note], NEW u, NEW key \in Keys, NEW ids,
         NEW made, made = [n \in Notes |-> IF n \in ids THEN Removed(db[n]) ELSE db[n]]
  PROVE  ListingIn(made, u, key) = {r \in ListingIn(db, u, key) : r.id \notin ids}
<1>1. ASSUME NEW m \in Notes
      PROVE  /\ m \notin ids => made[m] = db[m] /\ RowIn(made, m) = RowIn(db, m)
             /\ m \in ids => ~Belongs(made[m], u, key)
             /\ RowIn(db, m).id = m
  <2>1. m \notin ids => made[m] = db[m] /\ RowIn(made, m) = RowIn(db, m)
    BY DEF RowIn
  <2>2. ASSUME m \in ids
        PROVE  ~Belongs(made[m], u, key)
    <3>1. made[m] = Removed(db[m]) /\ db[m] \in Note
      BY <2>2
    <3>2. made[m].place = "absent"
      BY <3>1 DEF Removed, Note
    <3> QED
      BY <3>2 DEF Belongs, Keys
  <2>3. RowIn(db, m).id = m
    BY DEF RowIn
  <2> QED
    BY <2>1, <2>2, <2>3
<1> QED
  BY <1>1 DEF ListingIn

(***************************************************************************)
(* The steps of the member, at the board and away from it.                 *)
(***************************************************************************)

LEMMA SameIsStill ==
  ASSUME NEW c, NEW key
  PROVE  Still(c, c, key) /\ Mild(c, c)
BY DEF Still, Mild, Kept

\* A request that has nothing to do with the board.
LEMMA IssueAside ==
  ASSUME NEW db, NEW w \in Tab, NEW v, BoardInv(db, w), Marks(v, w), AtBoard(v) => AtBoard(w),
         v.lists = w.lists, v.key = w.key,
         NEW call \in Call, call.op \notin Writes \cup Fetches, Issued(v, w, call)
  PROVE  BoardInv(db, v)
<1>1. PICK r \in Slots : /\ w.calls[r].op = "none" /\ v.calls[r] = AsSent(w, call)
                         /\ \A t \in Slots \ {r} : v.calls[t] = w.calls[t]
  BY DEF Issued
<1>2. v.calls[r].op = call.op /\ v.calls[r].at = "sent"
  BY <1>1 DEF AsSent, Call
<1>3. Aside(v.calls[r]) /\ Spent(w.calls[r], w.key)
  BY <1>1, <1>2, OthersSpent DEF Aside, Writes, Fetches
<1>4. \A s \in Slots : Still(v.calls[s], w.calls[s], w.key)
  <2>1. ASSUME NEW s \in Slots
        PROVE  Still(v.calls[s], w.calls[s], w.key)
    <3>1. CASE s = r
      BY <1>3, <3>1 DEF Still
    <3>2. CASE s # r
      BY <1>1, <3>2, SameIsStill
    <3> QED
      BY <3>1, <3>2
  <2> QED
    BY <2>1
<1> QED
  BY <1>4, StayKeeps

\* The session is over, or there was none: nobody is at the board, and its fetch will
\* not be used.
LEMMA LeftKeeps ==
  ASSUME NEW db, NEW w, NEW x \in Tab, NEW v, BoardInv(db, w), Marks(x, w), LeftBy(v, x),
         \A s \in Slots : Aside(x.calls[s]) \/ Kept(x.calls[s], w.calls[s])
  PROVE  BoardInv(db, v)
<1>1. ASSUME NEW s \in Slots
      PROVE  Mild(v.calls[s], w.calls[s])
  <2> DEFINE c == x.calls[s]
             d == v.calls[s]
  <2>1. c \in Call /\ d = Cut(c, {"list", "hydrate"})
    BY DEF Tab, LeftBy
  <2>2. CASE c.op \in {"list", "hydrate"}
    <3>1. d = [c EXCEPT !.live = FALSE]
      BY <2>1, <2>2 DEF Cut
    <3>2. /\ d.op = c.op /\ d.key = c.key /\ d.who = c.who /\ d.rows = c.rows /\ d.ids = c.ids
          /\ d.at = c.at /\ ~d.live
      BY <2>1, <3>1 DEF Call
    <3> HIDE DEF c, d
    <3>3. Aside(c) => Aside(d)
      BY <3>2 DEF Aside
    <3>4. Kept(c, w.calls[s]) => Kept(d, w.calls[s])
      BY <3>2 DEF Kept
    <3> QED
      BY <3>2, <3>3, <3>4 DEF Mild, c, d
  <2>3. CASE c.op \notin {"list", "hydrate"}
    <3>1. d = c
      BY <2>1, <2>3 DEF Cut
    <3> QED
      BY <2>3, <3>1 DEF Mild
  <2> QED
    BY <2>2, <2>3
<1>2. Marks(v, w)
  BY DEF LeftBy, Marks, Excepted, Saw
<1>3. ~AtBoard(v)
  BY DEF LeftBy, AtBoard, Present
<1> QED
  BY <1>1, <1>2, <1>3, AwayKeeps

Settled == Known /\ BoardInv(notes, web)

\* The sign-in form is submitted.
LEMMA SubmitBoard ==
  ASSUME Settled, NEW u \in Members, Submit(u)
  PROVE  BoardInv(notes', web')
<1> DEFINE y == [web EXCEPT !.submitting = TRUE]
           cond == web.status # "anonymous"
           call == [Request("login") EXCEPT !.who = u]
           v == Issue(Noting(y, "early", cond), call)
<1>1. /\ web \in Tab /\ y \in Tab /\ SameTokens(y, web) /\ SameMember(y, web)
      /\ y.calls = web.calls /\ y.lists = web.lists /\ y.mishaps = web.mishaps
      /\ y.key = web.key /\ y.route = web.route
  BY DEF Settled, Known, TypeOK, Tab, SameTokens, SameMember
<1>2. cond \in BOOLEAN /\ "early" \in Mishaps
  BY DEF Mishaps
<1>3. call \in Call /\ call.op = "login"
  BY RequestTyped DEF Ops, Call
<1>4. web' = v /\ notes' = notes /\ \E s \in Slots : web.calls[s].op = "none"
  BY DEF Submit, Room
<1> HIDE DEF y, cond, call
<1>5. Vacant(y)
  BY <1>1, <1>4 DEF Vacant
<1>6. /\ v \in Tab
      /\ SameTokens(v, y) /\ SameMember(v, y) /\ SamePage(v, y)
      /\ Issued(v, y, call)
      /\ v.lists = y.lists
      /\ v.mishaps = IF cond THEN y.mishaps \cup {"early"} ELSE y.mishaps
  <2>1. y \in Tab /\ cond \in BOOLEAN /\ "early" \in Mishaps /\ call \in Call
    BY <1>1, <1>2, <1>3
  <2> QED
    BY <2>1, <1>5, NotedIssueShape
<1> HIDE DEF v
<1>7. Issued(v, web, call)
  BY <1>1, <1>6 DEF Issued, AsSent, SameTokens
<1>8. /\ v.lists = web.lists /\ v.key = web.key /\ web.mishaps \subseteq v.mishaps
      /\ AtBoard(v) => AtBoard(web)
  BY <1>1, <1>6 DEF SameMember, SamePage, AtBoard, Present
<1>9. Marks(v, web) /\ call.op \notin Writes \cup Fetches
  BY <1>3, <1>8, NotedStays DEF Writes, Fetches
<1> QED
  BY <1>1, <1>3, <1>4, <1>7, <1>8, <1>9, IssueAside DEF Settled

\* The member signs out.
LEMMA SignOutBoard ==
  ASSUME Settled, SignOut
  PROVE  BoardInv(notes', web')
<1>1. LeftBy(SignedOut(web), web) /\ web' = SignedOut(web) /\ notes' = notes /\ web \in Tab
  BY SignedOutShape DEF Settled, Known, TypeOK, SignOut, EndedBy
<1>2. Marks(web, web) /\ \A s \in Slots : Kept(web.calls[s], web.calls[s])
  BY DEF Marks, Kept
<1> QED
  BY <1>1, <1>2, LeftKeeps DEF Settled

\* A page load: nobody is at the board, and only the check is under way.
LEMMA LoadedLeaves ==
  ASSUME NEW w \in Tab, NEW route \in {"login", "board", "editor"}
  PROVE  LET v == Loaded(w, route)
         IN Marks(v, w) /\ ~AtBoard(v) /\ \A s \in Slots : Aside(v.calls[s])
<1> DEFINE fresh == [w EXCEPT
            !.refreshing = [at |-> "idle", who |-> None], !.stuck = FALSE,
            !.calls = [s \in Slots |-> NoCall],
            !.lists = [k \in Keys |-> None],
            !.user = None, !.retries = 2, !.submitting = FALSE, !.composing = FALSE,
            !.key = "mine", !.mishaps = @ \ {"resync", "patch", "delete", "profile", "stuck"}]
           x == [fresh EXCEPT !.status = "anonymous", !.route = "login"]
           y == [fresh EXCEPT !.status = "loading", !.route = route]
           call == Request("hydrate")
           v == Issue(y, call)
<1>1. Loaded(w, route) = x \/ Loaded(w, route) = v
  BY DEF Loaded
<1>2. fresh \in Tab /\ fresh.mishaps = w.mishaps \ {"resync", "patch", "delete", "profile", "stuck"}
      /\ \A s \in Slots : fresh.calls[s] = NoCall
  <2> DEFINE ref == [at |-> "idle", who |-> None]
             cs == [s \in Slots |-> NoCall]
             ls == [k \in Keys |-> None]
             ms == w.mishaps \ {"resync", "patch", "delete", "profile", "stuck"}
  <2>1. /\ ref \in Refreshing /\ cs \in [Slots -> Call] /\ ls \in [Keys -> List \cup {None}]
        /\ ms \in SUBSET Mishaps /\ "mine" \in Keys /\ \A s \in Slots : cs[s] = NoCall
        /\ 2 \in 0..2
    BY DEF Refreshing, NoCall, Call, Ops, At, Keys, Tab
  <2>2. fresh = [w EXCEPT !.refreshing = ref, !.stuck = FALSE, !.calls = cs, !.lists = ls,
                          !.user = None, !.retries = 2, !.submitting = FALSE, !.composing = FALSE,
                          !.key = "mine", !.mishaps = ms]
    OBVIOUS
  <2> HIDE DEF ref, cs, ls, ms, fresh
  <2>3. fresh.mishaps = ms /\ fresh.calls = cs
    BY <2>2 DEF Tab
  <2>4. fresh \in Tab
    BY <2>1, <2>2 DEF Tab
  <2> QED
    BY <2>1, <2>3, <2>4 DEF ms
<1> HIDE DEF fresh
<1>3. /\ x.status = "anonymous" /\ x.mishaps = fresh.mishaps /\ x.calls = fresh.calls
      /\ y \in Tab /\ y.status = "loading" /\ y.mishaps = fresh.mishaps /\ y.calls = fresh.calls
  BY <1>2 DEF Tab
<1> HIDE DEF x, y
<1>4. Aside(NoCall)
  BY DEF Aside, NoCall, Writes, Fetches
<1>5. Marks(fresh, w)
  BY <1>2 DEF Marks, Excepted, Saw
<1>6. Marks(x, w) /\ ~AtBoard(x) /\ \A s \in Slots : Aside(x.calls[s])
  BY <1>2, <1>3, <1>4, <1>5 DEF Marks, Excepted, Saw, AtBoard, Present
<1>7. call \in Call /\ call.op = "hydrate"
  BY RequestTyped DEF Ops
<1> HIDE DEF call
<1>8. Vacant(y)
  BY <1>2, <1>3, SessionAssumption DEF NoCall, Vacant
<1>9. SameMember(v, y) /\ Issued(v, y, call) /\ v.mishaps = y.mishaps
  BY <1>3, <1>7, <1>8, IssueShape DEF Vacant, Issued
<1> HIDE DEF v
<1>10. Marks(v, w) /\ ~AtBoard(v)
  BY <1>3, <1>5, <1>9 DEF Marks, Excepted, Saw, AtBoard, Present, SameMember
<1>11. \A s \in Slots : Aside(v.calls[s])
  <2>1. PICK r \in Slots : v.calls[r] = AsSent(y, call)
                           /\ \A t \in Slots \ {r} : v.calls[t] = y.calls[t]
    BY <1>9 DEF Issued
  <2>2. v.calls[r].op = "hydrate" /\ v.calls[r].at = "sent"
    BY <1>7, <2>1 DEF AsSent, Call
  <2>3. Aside(v.calls[r])
    BY <2>2 DEF Aside, Writes, Fetches
  <2> QED
    BY <1>2, <1>3, <1>4, <2>1, <2>3
<1> QED
  BY <1>1, <1>6, <1>10, <1>11

\* The page is loaded again.
LEMMA ReloadBoard ==
  ASSUME Settled, Reload
  PROVE  BoardInv(notes', web')
<1> DEFINE v == Loaded(web, web.route)
<1>1. /\ web \in Tab /\ web.route \in {"login", "board", "editor"}
      /\ notes' = notes /\ web' = v
  BY DEF Settled, Known, TypeOK, Tab, Reload
<1>2. Marks(v, web) /\ ~AtBoard(v) /\ \A s \in Slots : Aside(v.calls[s])
  BY <1>1, LoadedLeaves
<1> HIDE DEF v
<1> QED
  BY <1>1, <1>2, AwayKeeps DEF Settled, Mild

\* The member changes their name.
LEMMA ChangeProfileBoard ==
  ASSUME Settled, ChangeProfile
  PROVE  BoardInv(notes', web')
<1> DEFINE call == Request("profile")
           v == Issue(web, call)
<1>1. call \in Call /\ call.op = "profile"
  BY RequestTyped DEF Ops
<1>2. /\ web \in Tab /\ web' = v /\ notes' = notes
      /\ \E s \in Slots : web.calls[s].op = "none"
  BY DEF Settled, Known, TypeOK, ChangeProfile, Room
<1> HIDE DEF call
<1>3. /\ SameMember(v, web) /\ SamePage(v, web)
      /\ Issued(v, web, call)
      /\ v.lists = web.lists /\ v.mishaps = web.mishaps
  BY <1>1, <1>2, IssueShape DEF Issued
<1> HIDE DEF v
<1>4. /\ v.key = web.key /\ (AtBoard(v) => AtBoard(web)) /\ Marks(v, web)
      /\ call.op \notin Writes \cup Fetches
  BY <1>1, <1>3 DEF SameMember, SamePage, AtBoard, Present, Marks, Excepted, Saw, Writes, Fetches
<1> QED
  BY <1>1, <1>2, <1>3, <1>4, IssueAside DEF Settled

\* The fetch of the board will not be used.
LEMMA CancelMild ==
  ASSUME NEW w \in Tab
  PROVE  LET v == Cancel(w, "list")
         IN /\ v \in Tab /\ Marks(v, w) /\ (\A s \in Slots : Mild(v.calls[s], w.calls[s]))
            /\ Vacant(w) => Vacant(v)
<1> DEFINE v == Cancel(w, "list")
<1>1. /\ v \in Tab /\ v.mishaps = w.mishaps
      /\ \A s \in Slots : v.calls[s] = Cut(w.calls[s], {"list"})
  BY CancelShape
<1> HIDE DEF v
<1>2. ASSUME NEW s \in Slots
      PROVE  Mild(v.calls[s], w.calls[s]) /\ v.calls[s].op = w.calls[s].op
  <2> DEFINE c == w.calls[s]
             d == v.calls[s]
  <2>1. c \in Call /\ d = Cut(c, {"list"})
    BY <1>1 DEF Tab
  <2>2. /\ d.op = c.op /\ d.key = c.key /\ d.who = c.who /\ d.rows = c.rows /\ d.ids = c.ids
        /\ d.at = c.at /\ (c.op = "list" => ~d.live)
    BY <2>1 DEF Cut, Call
  <2> HIDE DEF c, d
  <2>3. Mild(d, c)
    BY <2>2 DEF Mild, Kept
  <2> QED
    BY <2>2, <2>3 DEF c, d
<1>3. Marks(v, w) /\ (Vacant(w) => Vacant(v))
  BY <1>1, <1>2 DEF Marks, Excepted, Saw, Vacant
<1> QED
  BY <1>1, <1>2, <1>3 DEF v

\* Another list of the board is opened.
LEMMA SwitchKeyBoard ==
  ASSUME Settled, NEW key \in Keys, SwitchKey(key)
  PROVE  BoardInv(notes', web')
<1> DEFINE x == Cancel(web, "list")
<1>1. Vacant(web) /\ web' = EnterBoard(x, key) /\ notes' = notes /\ web \in Tab
  BY DEF SwitchKey, Room, Vacant, Settled, Known, TypeOK
<1>2. x \in Tab /\ Marks(x, web) /\ (\A s \in Slots : Mild(x.calls[s], web.calls[s])) /\ Vacant(x)
  BY <1>1, CancelMild
<1> HIDE DEF x
<1> QED
  BY <1>1, <1>2, MountKeeps DEF Settled

\* A note is opened.
LEMMA OpenNoteBoard ==
  ASSUME Settled, OpenNote
  PROVE  BoardInv(notes', web')
<1> DEFINE x == Cancel(web, "list")
           v == [x EXCEPT !.route = "editor"]
<1>1. web' = v /\ notes' = notes /\ web \in Tab
  BY DEF OpenNote, Settled, Known, TypeOK
<1>2. x \in Tab /\ Marks(x, web) /\ \A s \in Slots : Mild(x.calls[s], web.calls[s])
  BY <1>1, CancelMild
<1> HIDE DEF x
<1>3. v.calls = x.calls /\ v.mishaps = x.mishaps /\ v.route = "editor"
  BY <1>2 DEF Tab
<1> HIDE DEF v
<1>4. Marks(v, web) /\ ~AtBoard(v) /\ \A s \in Slots : Mild(v.calls[s], web.calls[s])
  BY <1>2, <1>3 DEF Marks, Excepted, Saw, AtBoard
<1> QED
  BY <1>1, <1>4, AwayKeeps DEF Settled

\* Back to the board from the editor.
LEMMA BackToBoardBoard ==
  ASSUME Settled, BackToBoard
  PROVE  BoardInv(notes', web')
<1>1. web \in Tab /\ Vacant(web) /\ web.key \in Keys /\ notes' = notes /\ web' = EnterBoard(web, web.key)
  BY DEF BackToBoard, Room, Vacant, Settled, Known, TypeOK, Tab
<1>2. Marks(web, web) /\ \A s \in Slots : Mild(web.calls[s], web.calls[s])
  BY SameIsStill DEF Marks
<1> QED
  BY <1>1, <1>2, MountKeeps DEF Settled

(***************************************************************************)
(* The changes that a member asks for.                                     *)
(***************************************************************************)

LEMMA WriteShape ==
  ASSUME NEW w \in Tab, NEW call \in Call, Vacant(w)
  PROVE  LET v == Write(w, call)
         IN /\ v \in Tab
            /\ SameTokens(v, w) /\ SameMember(v, w) /\ SamePage(v, w)
            /\ Issued(v, w, call)
            /\ v.lists = w.lists
            /\ v.mishaps = IF Fetching(w) \/ Writing(w) THEN w.mishaps \cup {"raced"} ELSE w.mishaps
<1> DEFINE cond == Fetching(w) \/ Writing(w)
           v == Issue(Noting(w, "raced", cond), call)
<1>1. cond \in BOOLEAN /\ "raced" \in Mishaps
  BY DEF Fetching, Writing, InFlight, Mishaps
<1> HIDE DEF cond
<1>2. /\ v \in Tab
      /\ SameTokens(v, w) /\ SameMember(v, w) /\ SamePage(v, w)
      /\ Issued(v, w, call)
      /\ v.lists = w.lists
      /\ v.mishaps = IF cond THEN w.mishaps \cup {"raced"} ELSE w.mishaps
  BY <1>1, NotedIssueShape
<1> QED
  BY <1>2 DEF Write, cond

\* The database foreseen once a change is sent where none was in flight.
LEMMA ForeseenIssued ==
  ASSUME NEW db \in [Notes -> Note], NEW w \in Tab, NEW v, NEW call \in Call,
         Issued(v, w, call), \A s \in Slots : w.calls[s].op \notin Writes
  PROVE  /\ Foreseen(db, w) = db
         /\ call.op = "patch" =>
              Foreseen(db, v) = [n \in Notes |-> IF n \in call.ids THEN Patched(db[n], call.patch)
                                                 ELSE db[n]]
         /\ call.op = "delete" =>
              Foreseen(db, v) = [n \in Notes |-> IF n \in call.ids THEN Removed(db[n]) ELSE db[n]]
         /\ call.op \notin {"patch", "delete"} => Foreseen(db, v) = db
<1>1. PICK r \in Slots : /\ w.calls[r].op = "none" /\ v.calls[r] = AsSent(w, call)
                         /\ \A t \in Slots \ {r} : v.calls[t] = w.calls[t]
  BY DEF Issued
<1>2. /\ v.calls[r].op = call.op /\ v.calls[r].at = "sent" /\ v.calls[r].ids = call.ids
      /\ v.calls[r].patch = call.patch
  BY <1>1 DEF AsSent, Call
<1>3. \A s \in Slots, n \in Notes : ~Making(w.calls[s], n) /\ ~Dropping(w.calls[s], n)
  BY DEF Making, Dropping, Writes
<1>4. Only(v, r)
  BY <1>1, <1>3 DEF Only
<1>5. Foreseen(db, w) = db
  BY <1>3, ForeseenNone
<1>6. call.op = "patch" =>
        Foreseen(db, v) = [n \in Notes |-> IF n \in call.ids THEN Patched(db[n], call.patch)
                                           ELSE db[n]]
  BY <1>2, <1>4, ForeseenPatched
<1>7. call.op = "delete" =>
        Foreseen(db, v) = [n \in Notes |-> IF n \in call.ids THEN Removed(db[n]) ELSE db[n]]
  BY <1>2, <1>4, ForeseenRemoved
<1>8. ASSUME call.op \notin {"patch", "delete"}
      PROVE  Foreseen(db, v) = db
  <2>1. \A s \in Slots, n \in Notes : ~Making(v.calls[s], n) /\ ~Dropping(v.calls[s], n)
    BY <1>1, <1>2, <1>3, <1>8 DEF Making, Dropping
  <2> QED
    BY <2>1, ForeseenNone
<1> QED
  BY <1>5, <1>6, <1>7, <1>8

\* The list on screen changes, and the request goes out.
LEMMA WriteBoard ==
  ASSUME Settled, NEW y \in Tab, y.calls = web.calls, y.mishaps = web.mishaps,
         SameTokens(y, web), SameMember(y, web), y.route = web.route, y.key = web.key,
         NEW call \in Call, call.op \in Writes, Vacant(web),
         AtBoard(web) => /\ call.op # "save"
                         /\ call.op \in {"patch", "delete"} => call.key = web.key,
         AtBoard(web) /\ (\A s \in Slots : web.calls[s].op \notin Writes) /\ Mirrors(notes, web) =>
           Mirrors(notes, Write(y, call))
  PROVE  BoardInv(notes, Write(y, call))
<1> DEFINE v == Write(y, call)
<1>0. web \in Tab /\ BoardInv(notes, web) /\ Vacant(y)
  BY DEF Settled, Known, TypeOK, Vacant
<1>1. /\ v \in Tab
      /\ SameMember(v, y) /\ SamePage(v, y)
      /\ Issued(v, y, call)
      /\ v.mishaps = IF Fetching(y) \/ Writing(y) THEN y.mishaps \cup {"raced"} ELSE y.mishaps
  BY <1>0, WriteShape
<1> HIDE DEF v
<1>2. Issued(v, web, call)
  BY <1>1 DEF Issued, AsSent, SameTokens
<1>3. /\ v.mishaps = IF Fetching(web) \/ Writing(web) THEN web.mishaps \cup {"raced"} ELSE web.mishaps
      /\ v.key = web.key /\ (AtBoard(v) => AtBoard(web))
  BY <1>1 DEF Fetching, Writing, InFlight, SamePage, SameMember, AtBoard, Present
<1>4. AtBoard(v) => /\ call.op # "save"
                    /\ call.op \in {"patch", "delete"} => call.key = web.key
                    /\ (\A s \in Slots : web.calls[s].op \notin Writes) /\ Mirrors(notes, web)
                         => Mirrors(notes, v)
  BY <1>3 DEF v
<1>5. BoardInv(notes, v)
  BY <1>0, <1>2, <1>3, <1>4, AskedKeeps
<1> QED
  BY <1>5 DEF v

\* A note is composed.
LEMMA ComposeBoard ==
  ASSUME Settled, Compose
  PROVE  BoardInv(notes', web')
<1> DEFINE y == [web EXCEPT !.composing = TRUE]
           call == Request("create")
           v == Write(y, call)
<1>0. web \in Tab /\ notes \in [Notes -> Note]
  BY DEF Settled, Known, TypeOK
<1>1. /\ y \in Tab /\ SameTokens(y, web) /\ SameMember(y, web) /\ y.route = web.route
      /\ y.calls = web.calls /\ y.lists = web.lists /\ y.mishaps = web.mishaps /\ y.key = web.key
  BY <1>0 DEF Tab, SameTokens, SameMember
<1>2. call \in Call /\ call.op = "create"
  BY RequestTyped DEF Ops
<1>3. web' = v /\ notes' = notes /\ Vacant(web)
  BY DEF Compose, Room, Vacant
<1> HIDE DEF y, call
<1>4. Vacant(y)
  BY <1>1, <1>3 DEF Vacant
<1>5. SamePage(v, y) /\ Issued(v, y, call) /\ v.lists = y.lists
  BY <1>1, <1>2, <1>4, WriteShape
<1> HIDE DEF v
<1>6. ASSUME \A s \in Slots : web.calls[s].op \notin Writes, Mirrors(notes, web)
      PROVE  Mirrors(notes, v)
  <2>1. Foreseen(notes, web) = notes
    <3>1. \A s \in Slots, n \in Notes : ~Making(web.calls[s], n) /\ ~Dropping(web.calls[s], n)
      BY <1>6 DEF Making, Dropping, Writes
    <3> QED
      BY <1>0, <3>1, ForeseenNone
  <2>2. Foreseen(notes, v) = notes
    <3>1. \A s \in Slots : y.calls[s].op \notin Writes
      BY <1>1, <1>6
    <3> QED
      BY <1>0, <1>1, <1>2, <1>5, <3>1, ForeseenIssued
  <2>3. v.lists = web.lists /\ v.key = web.key
    BY <1>1, <1>5 DEF SamePage
  <2> QED
    BY <1>6, <2>1, <2>2, <2>3 DEF Mirrors
<1>7. call.op \in Writes /\ call.op \notin {"patch", "delete", "save"}
  BY <1>2 DEF Writes
<1>8. BoardInv(notes, v)
  BY <1>1, <1>2, <1>3, <1>6, <1>7, WriteBoard DEF v
<1> QED
  BY <1>3, <1>8

\* The list that is on screen once the change is shown, with nothing else under way.
LEMMA ShownMirrors ==
  ASSUME Settled, AtBoard(web), NEW rows \in SUBSET Row, web.lists[web.key] # None,
         NEW call \in Call, Vacant(web), \A s \in Slots : web.calls[s].op \notin Writes,
         Mirrors(notes, web),
         NEW made,
         \/ call.op = "patch" /\ made = [n \in Notes |-> IF n \in call.ids
                                           THEN Patched(notes[n], call.patch) ELSE notes[n]]
         \/ call.op = "delete" /\ made = [n \in Notes |-> IF n \in call.ids
                                            THEN Removed(notes[n]) ELSE notes[n]],
         \A u \in Members : ListingIn(notes, u, web.key) = Shown => ListingIn(made, u, web.key) = rows
  PROVE  Mirrors(notes, Write(UpdateCached(web, web.key, rows), call))
<1> DEFINE k == web.key
           y == UpdateCached(web, k, rows)
           v == Write(y, call)
<1>0. /\ web \in Tab /\ notes \in [Notes -> Note] /\ k \in Keys /\ web.lists[k] \in List
      /\ SessionInv(web, ended)
  BY DEF Settled, Known, TypeOK, Tab
<1>k. k = web.key /\ web.lists[k] # None
  OBVIOUS
<1> HIDE DEF k
<1>1. /\ y \in Tab /\ y.calls = web.calls /\ SamePage(y, web)
      /\ y.lists[k] = [of |-> web.lists[k].of, rows |-> rows]
  BY <1>0, <1>k, UpdateKeeps
<1> HIDE DEF y
<1>2. Vacant(y)
  BY <1>1 DEF Vacant
<1>3. Issued(v, y, call) /\ v.lists = y.lists /\ SamePage(v, y)
  BY <1>1, <1>2, WriteShape
<1>4. v.key = k
  BY <1>1, <1>3, <1>k DEF SamePage
<1>5. \A s \in Slots : y.calls[s].op \notin Writes
  BY <1>1
<1>6. Foreseen(notes, y) = notes /\ Foreseen(notes, v) = made
  <2> HIDE DEF v
  <2> QED
    BY <1>0, <1>1, <1>3, <1>5, ForeseenIssued
<1>7. Foreseen(notes, web) = notes
  <2>1. \A s \in Slots, n \in Notes : ~Making(web.calls[s], n) /\ ~Dropping(web.calls[s], n)
    BY DEF Making, Dropping, Writes
  <2> QED
    BY <1>0, <2>1, ForeseenNone
<1>8. web.lists[k].rows = ListingIn(notes, web.lists[k].of, k) /\ web.lists[k].of \in Members
  BY <1>0, <1>7, <1>k DEF Mirrors, List
<1>9. Shown = ListingIn(notes, web.lists[k].of, k)
  BY <1>8, <1>k DEF Shown
<1>10. ListingIn(made, web.lists[k].of, k) = rows
  BY <1>8, <1>9, <1>k
<1> HIDE DEF v
<1>11. v.lists[v.key].of = web.lists[k].of /\ v.lists[v.key].rows = rows /\ v.lists[v.key] # None
  <2>1. v.lists[v.key] = [of |-> web.lists[k].of, rows |-> rows]
    BY <1>1, <1>3, <1>4
  <2>2. v.lists[v.key] \in List
    BY <1>8, <2>1 DEF List
  <2> QED
    BY <2>1, <2>2, BoardAssumption
<1>12. Mirrors(notes, v)
  BY <1>4, <1>6, <1>10, <1>11 DEF Mirrors
<1> QED
  BY <1>12 DEF v, y, k

\* The list on screen changes, and nothing else.
LEMMA UpdatedTab ==
  ASSUME Known, web.lists[web.key] # None, NEW rows \in SUBSET Row
  PROVE  LET y == UpdateCached(web, web.key, rows)
         IN /\ y \in Tab /\ y.calls = web.calls /\ y.mishaps = web.mishaps
            /\ SameTokens(y, web) /\ SameMember(y, web) /\ SamePage(y, web)
<1> DEFINE u == web.lists[web.key].of
           key == web.key
           y == SetCached(web, key, u, rows)
<1>1. web \in Tab /\ key \in Keys /\ web.lists[web.key] \in List
  BY DEF Known, TypeOK, Tab
<1>2. u \in Members
  BY <1>1 DEF List
<1>3. UpdateCached(web, web.key, rows) = y
  BY DEF UpdateCached
<1> HIDE DEF u, key
<1>4. /\ y \in Tab
      /\ SameTokens(y, web) /\ SameMember(y, web) /\ SamePage(y, web)
      /\ y.calls = web.calls /\ y.mishaps = web.mishaps
      /\ y.lists[key] = [of |-> u, rows |-> rows]
  BY <1>1, <1>2, SetCachedShape
<1> QED
  BY <1>3, <1>4

\* A note is pinned or archived: its row goes before the server answers.
LEMMA OrganizeBoard ==
  ASSUME Settled, NEW row \in Shown, NEW patch \in Patches, Organize(row, patch)
  PROVE  BoardInv(notes', web')
<1> DEFINE k == web.key
           rows == (Shown \ {row}) \cup Changed(row, patch)
           y == UpdateCached(web, k, rows)
           call == [Request("patch") EXCEPT !.ids = {row.id}, !.patch = patch, !.key = k]
           made == [n \in Notes |-> IF n \in {row.id} THEN Patched(notes[n], patch) ELSE notes[n]]
<1>0. Known /\ notes \in [Notes -> Note]
  BY DEF Settled, Known, TypeOK
<1>1. Shown \subseteq Row /\ web.lists[k] # None /\ k \in Keys
  BY <1>0, ShownTyped
<1>2. row.id \in Notes /\ rows \in SUBSET Row
  BY <1>1 DEF Row, Changed
<1>3. web' = Write(y, call) /\ notes' = notes /\ Vacant(web)
  BY DEF Organize, Room, Vacant, Changed
<1>4. IF k = "archived" THEN patch = "unarchive" ELSE patch \in {"archive", "pin", "unpin"}
  BY DEF Organize, Proposed
<1>5. ASSUME NEW u \in Members, ListingIn(notes, u, k) = Shown
      PROVE  ListingIn(made, u, k) = rows
  <2>1. row \in ListingIn(notes, u, k)
    BY <1>5
  <2>2. ListingIn(made, u, k) = (ListingIn(notes, u, k) \ {row}) \cup Changed(row, patch)
    <3> HIDE DEF k
    <3> QED
      BY <1>0, <1>1, <1>4, <2>1, OrganizedList
  <2> QED
    BY <1>5, <2>2
<1>k. k = web.key
  OBVIOUS
<1>m. made = [n \in Notes |-> IF n \in {row.id} THEN Patched(notes[n], patch) ELSE notes[n]]
  OBVIOUS
<1>6. call \in Call /\ call.op = "patch" /\ call.ids = {row.id} /\ call.patch = patch /\ call.key = k
  <2> DEFINE n == row.id
  <2>1. n \in Notes /\ k \in Keys
    BY <1>1, <1>2
  <2> HIDE DEF n, k
  <2>2. LET c == [Request("patch") EXCEPT !.ids = {n}, !.patch = patch, !.key = k]
        IN c \in Call /\ c.op = "patch" /\ ~c.again /\ c.ids = {n} /\ c.patch = patch /\ c.key = k
           /\ c.live
    BY <2>1, PatchTyped, Zenon
  <2> QED
    BY <2>2 DEF n
<1> HIDE DEF k, rows, call, made
<1>7. /\ y \in Tab /\ y.calls = web.calls /\ y.mishaps = web.mishaps
      /\ SameTokens(y, web) /\ SameMember(y, web) /\ SamePage(y, web)
  BY <1>0, <1>1, <1>2, <1>k, UpdatedTab
<1>8. ASSUME AtBoard(web), \A s \in Slots : web.calls[s].op \notin Writes, Mirrors(notes, web)
      PROVE  Mirrors(notes, Write(y, call))
  <2>1. made = [n \in Notes |-> IF n \in call.ids THEN Patched(notes[n], call.patch) ELSE notes[n]]
    BY <1>6, <1>m
  <2>2. \A u \in Members : ListingIn(notes, u, web.key) = Shown => ListingIn(made, u, web.key) = rows
    BY <1>5, <1>k
  <2>3. y = UpdateCached(web, web.key, rows)
    BY <1>k
  <2> QED
    BY <1>1, <1>2, <1>3, <1>6, <1>8, <1>k, <2>1, <2>2, <2>3, ShownMirrors
<1> HIDE DEF y
<1>9. call.op \in Writes /\ call.op # "save" /\ call.key = web.key
  BY <1>6, <1>k DEF Writes
<1>10. BoardInv(notes, Write(y, call))
  BY <1>3, <1>6, <1>7, <1>8, <1>9, WriteBoard DEF SamePage
<1> QED
  BY <1>3, <1>10

\* Notes are deleted: their rows go before the server answers.
LEMMA DeleteBoard ==
  ASSUME Settled, NEW ids \in SUBSET Notes, Delete(ids)
  PROVE  BoardInv(notes', web')
<1> DEFINE k == web.key
           rows == {r \in Shown : r.id \notin ids}
           y == UpdateCached(web, k, rows)
           call == [Request("delete") EXCEPT !.ids = ids, !.key = k]
           made == [n \in Notes |-> IF n \in ids THEN Removed(notes[n]) ELSE notes[n]]
<1>0. Known /\ notes \in [Notes -> Note]
  BY DEF Settled, Known, TypeOK
<1>a. Shown # {}
  <2>1. CASE ids \in CardDeletes
    BY <2>1 DEF CardDeletes
  <2>2. CASE ids \in Selections
    <3>1. ids # {} /\ ids \subseteq {r.id : r \in Shown}
      BY <2>2 DEF Selections
    <3> QED
      BY <3>1
  <2> QED
    BY <2>1, <2>2 DEF Delete
<1>1. Shown \subseteq Row /\ web.lists[k] # None /\ k \in Keys
  BY <1>0, <1>a, ShownTyped
<1>2. rows \in SUBSET Row
  <2>1. rows \subseteq Shown
    OBVIOUS
  <2> HIDE DEF rows
  <2> QED
    BY <1>1, <2>1
<1>3. web' = Write(y, call) /\ notes' = notes /\ Vacant(web)
  BY DEF Delete, Room, Vacant
<1>m. made = [n \in Notes |-> IF n \in ids THEN Removed(notes[n]) ELSE notes[n]]
  OBVIOUS
<1>5. ASSUME NEW u \in Members, ListingIn(notes, u, k) = Shown
      PROVE  ListingIn(made, u, k) = rows
  <2>1. ListingIn(made, u, k) = {r \in ListingIn(notes, u, k) : r.id \notin ids}
    <3> HIDE DEF k, made
    <3> QED
      BY <1>0, <1>1, <1>m, RemovedList
  <2> QED
    BY <1>5, <2>1
<1>k. k = web.key
  OBVIOUS
<1>6. call \in Call /\ call.op = "delete" /\ call.ids = ids /\ call.key = k
  <2>1. k \in Keys
    BY <1>1
  <2> HIDE DEF k
  <2>2. LET c == [Request("delete") EXCEPT !.ids = ids, !.key = k]
        IN c \in Call /\ c.op = "delete" /\ ~c.again /\ c.ids = ids /\ c.key = k /\ c.live
    BY <2>1, DeleteTyped
  <2> QED
    BY <2>2
<1> HIDE DEF k, rows, call, made
<1>7. /\ y \in Tab /\ y.calls = web.calls /\ y.mishaps = web.mishaps
      /\ SameTokens(y, web) /\ SameMember(y, web) /\ SamePage(y, web)
  BY <1>0, <1>1, <1>2, <1>k, UpdatedTab
<1>8. ASSUME AtBoard(web), \A s \in Slots : web.calls[s].op \notin Writes, Mirrors(notes, web)
      PROVE  Mirrors(notes, Write(y, call))
  <2>1. made = [n \in Notes |-> IF n \in call.ids THEN Removed(notes[n]) ELSE notes[n]]
    BY <1>6, <1>m
  <2>2. \A u \in Members : ListingIn(notes, u, web.key) = Shown => ListingIn(made, u, web.key) = rows
    BY <1>5, <1>k
  <2>3. y = UpdateCached(web, web.key, rows)
    BY <1>k
  <2> QED
    BY <1>1, <1>2, <1>3, <1>6, <1>8, <1>k, <2>1, <2>2, <2>3, ShownMirrors
<1> HIDE DEF y
<1>9. call.op \in Writes /\ call.op # "save" /\ call.key = web.key
  BY <1>6, <1>k DEF Writes
<1>10. BoardInv(notes, Write(y, call))
  BY <1>3, <1>6, <1>7, <1>8, <1>9, WriteBoard DEF SamePage
<1> QED
  BY <1>3, <1>10

\* The editor saves.
LEMMA SaveNoteBoard ==
  ASSUME Settled, NEW n \in Notes, SaveNote(n)
  PROVE  BoardInv(notes', web')
<1> DEFINE call == [Request("save") EXCEPT !.ids = {n}]
<1>1. call \in Call /\ call.op = "save"
  BY RequestTyped DEF Ops, Call
<1>2. /\ web' = Write(web, call) /\ notes' = notes /\ Vacant(web) /\ ~AtBoard(web)
      /\ web \in Tab /\ SameTokens(web, web) /\ SameMember(web, web)
  BY DEF SaveNote, Room, Vacant, AtBoard, Settled, Known, TypeOK, SameTokens, SameMember
<1> HIDE DEF call
<1>3. call.op \in Writes
  BY <1>1 DEF Writes
<1>4. BoardInv(notes, Write(web, call))
  BY <1>1, <1>2, <1>3, WriteBoard
<1> QED
  BY <1>2, <1>4

(***************************************************************************)
(* The server, and the calls and answers that get lost.                    *)
(***************************************************************************)

\* One call of the tab changes.
LEMMA StillOne ==
  ASSUME NEW db, NEW w, NEW v, BoardInv(db, w), Marks(v, w), AtBoard(v) => AtBoard(w),
         v.lists = w.lists, v.key = w.key, NEW r \in Slots,
         Still(v.calls[r], w.calls[r], w.key),
         \A s \in Slots \ {r} : v.calls[s] = w.calls[s]
  PROVE  BoardInv(db, v)
<1>1. \A s \in Slots : Still(v.calls[s], w.calls[s], w.key)
  BY SameIsStill
<1> QED
  BY <1>1, StayKeeps

\* What the server leaves of the tab but the call.
Served(v, w, r) ==
    /\ Marks(v, w) /\ (AtBoard(v) => AtBoard(w)) /\ v.lists = w.lists /\ v.key = w.key
    /\ v.mishaps = w.mishaps
    /\ \A s \in Slots \ {r} : v.calls[s] = w.calls[s]

\* The server answers one call.
LEMMA ServedShape ==
  ASSUME NEW w \in Tab, NEW r \in Slots, NEW d
  PROVE  LET v == [w EXCEPT !.calls[r] = d] IN Served(v, w, r) /\ v.calls[r] = d
BY DEF Tab, Served, Marks, Excepted, Saw, AtBoard, Present

\* The same of the actions of the model.
LEMMA AnswerShape ==
  ASSUME Settled, NEW s \in Slots, NEW at, Answer(s, at)
  PROVE  /\ Served(web', web, s)
         /\ LET c == web.calls[s] IN
            LET d == web'.calls[s] IN
            /\ c \in Call /\ d = [c EXCEPT !.at = at]
            /\ d.op = c.op /\ d.at = at /\ d.key = c.key /\ d.who = c.who /\ d.rows = c.rows
            /\ d.ids = c.ids /\ d.patch = c.patch /\ d.live = c.live
<1> DEFINE c == web.calls[s]
           d == [c EXCEPT !.at = at]
<1>1. web \in Tab /\ c \in Call
  BY DEF Settled, Known, TypeOK, Tab
<1>2. web' = [web EXCEPT !.calls[s] = d]
  BY <1>1 DEF Answer, Tab
<1>3. /\ d.op = c.op /\ d.at = at /\ d.key = c.key /\ d.who = c.who /\ d.rows = c.rows
      /\ d.ids = c.ids /\ d.patch = c.patch /\ d.live = c.live
  BY <1>1 DEF Call
<1>4. Served(web', web, s) /\ web'.calls[s] = d
  <2> HIDE DEF d
  <2> QED
    BY <1>1, <1>2, ServedShape
<1> QED
  BY <1>1, <1>3, <1>4

\* The server checks credentials.
LEMMA ServeLoginBoard ==
  ASSUME Settled, NEW s \in Slots, ServeLogin(s)
  PROVE  BoardInv(notes', web')
<1> DEFINE at == IF web.calls[s].who \in ended THEN "refused" ELSE "ok"
<1>1. Answer(s, at) /\ notes' = notes /\ web.calls[s].op = "login" /\ at \in {"refused", "ok"}
  BY DEF ServeLogin
<1> HIDE DEF at
<1>2. /\ Served(web', web, s)
      /\ web'.calls[s].op = "login" /\ web'.calls[s].at = at
  BY <1>1, AnswerShape
<1>3. Still(web'.calls[s], web.calls[s], web.key)
  <2>1. Aside(web'.calls[s])
    BY <1>1, <1>2 DEF Aside, Writes, Fetches
  <2>2. Spent(web.calls[s], web.key)
    BY <1>1, OthersSpent DEF Writes, Fetches
  <2> QED
    BY <2>1, <2>2 DEF Still
<1> QED
  BY <1>1, <1>2, <1>3, StillOne DEF Settled, Served

\* The server turns a call down.
LEMMA ServeRejectedBoard ==
  ASSUME Settled, NEW s \in Slots, ServeRejected(s)
  PROVE  BoardInv(notes', web')
<1> DEFINE c == web.calls[s]
           d == web'.calls[s]
           at == Rejected(c)
<1>1. Answer(s, at) /\ notes' = notes /\ c.at = "sent" /\ c \in Call /\ at # "no"
  BY DEF ServeRejected, Settled, Known, TypeOK, Tab
<1>2. at \in {"denied", "disabled"}
  BY <1>1, RejectedIs
<1> HIDE DEF at
<1>3. /\ Served(web', web, s)
      /\ d.op = c.op /\ d.at = at /\ d.key = c.key /\ d.who = c.who /\ d.rows = c.rows
      /\ d.ids = c.ids /\ d.patch = c.patch /\ d.live = c.live
  BY <1>1, AnswerShape
<1> HIDE DEF c, d
<1>4. Still(d, c, web.key)
  BY <1>1, <1>2, <1>3 DEF Still
<1> QED
  BY <1>1, <1>3, <1>4, StillOne DEF Settled, Served, c, d

\* The server lists the notes, or answers what has nothing to do with them.
LEMMA ServeReadBoard ==
  ASSUME Settled, NEW s \in Slots, ServeRead(s)
  PROVE  BoardInv(notes', web')
<1> DEFINE c == web.calls[s]
           u == c.token.who
           rows == IF c.op \in {"list", "resync"} THEN Listing(u, c.key) ELSE {}
           d == [c EXCEPT !.at = "ok", !.who = u, !.rows = rows]
<1>1. /\ web \in Tab /\ c \in Call /\ c.at = "sent" /\ notes' = notes
      /\ c.op \in {"hydrate", "signin", "profile", "list", "resync"}
  BY DEF Settled, Known, TypeOK, Tab, ServeRead, Serving
<1>2. web' = [web EXCEPT !.calls[s] = d]
  <2>1. AnswerFrom(s, u, rows)
    BY DEF ServeRead
  <2> HIDE DEF rows, u
  <2> QED
    BY <1>1, <2>1 DEF AnswerFrom, Tab
<1>3. Served(web', web, s) /\ web'.calls[s] = d
  <2> HIDE DEF d
  <2> QED
    BY <1>1, <1>2, ServedShape
<1>4. c.op \in {"list", "resync"} => rows = ListingIn(notes, u, c.key)
  BY ListingIs
<1>c. c = web.calls[s]
  OBVIOUS
<1> HIDE DEF c, u, rows
<1>5. /\ d.op = c.op /\ d.at = "ok" /\ d.key = c.key /\ d.who = u /\ d.rows = rows
      /\ d.live = c.live
  BY <1>1 DEF Call
<1> HIDE DEF d
<1>6. CASE c.op \in {"list", "resync"}
  <2>1. web'.calls[s].rows = ListingIn(notes, web'.calls[s].who, web'.calls[s].key)
    BY <1>3, <1>4, <1>5, <1>6
  <2>2. c.op \in Fetches
    BY <1>6 DEF Fetches
  <2> QED
    BY <1>1, <1>3, <1>5, <1>c, <2>1, <2>2, FetchedKeeps DEF Settled, Served
<1>7. CASE c.op \notin {"list", "resync"}
  <2>1. Aside(d) /\ Spent(c, web.key)
    BY <1>1, <1>5, <1>7, OthersSpent DEF Aside, Writes, Fetches
  <2>2. Still(web'.calls[s], web.calls[s], web.key)
    BY <1>3, <1>c, <2>1 DEF Still
  <2> QED
    BY <1>1, <1>3, <2>2, StillOne DEF Settled, Served
<1> QED
  BY <1>6, <1>7

\* A patch or a save that the server refuses.
LEMMA RefusedBoard ==
  ASSUME Settled, NEW s \in Slots, Answer(s, "refused"), notes' = notes,
         web.calls[s].op \in {"patch", "save", "delete"}
  PROVE  BoardInv(notes', web')
<1>1. /\ Served(web', web, s)
      /\ web'.calls[s].op = web.calls[s].op /\ web'.calls[s].at = "refused"
      /\ web'.calls[s].key = web.calls[s].key
  BY AnswerShape
<1> QED
  BY <1>1, TroubleKeeps DEF Settled, Served

\* The server patches: what was foreseen is there.
LEMMA ServePatchBoard ==
  ASSUME Settled, NEW s \in Slots, ServePatch(s)
  PROVE  BoardInv(notes', web')
<1> DEFINE c == web.calls[s]
           rows == {[id |-> n, pinned |-> notes'[n].pinned, rev |-> notes'[n].rev] : n \in c.ids}
           d == [c EXCEPT !.at = "ok", !.rows = rows]
<1>1. /\ web \in Tab /\ c \in Call /\ c.at = "sent" /\ c.op \in {"patch", "save"} /\ Known
      /\ notes \in [Notes -> Note]
  BY DEF Settled, Known, TypeOK, Tab, ServePatch, Serving
<1>2. /\ notes' \in [Notes -> Note] /\ c.ids \subseteq Notes
      /\ \/ /\ \A n \in Notes : notes'[n] = IF n \in c.ids THEN Patched(notes[n], c.patch) ELSE notes[n]
            /\ web' = [web EXCEPT !.calls[s].at = "ok", !.calls[s].rows = rows]
         \/ Answer(s, "refused") /\ notes' = notes
  BY <1>1, PatchNotes
<1>3. CASE Answer(s, "refused") /\ notes' = notes
  BY <1>1, <1>3, RefusedBoard
<1>4. CASE /\ \A n \in Notes : notes'[n] = IF n \in c.ids THEN Patched(notes[n], c.patch) ELSE notes[n]
           /\ web' = [web EXCEPT !.calls[s].at = "ok", !.calls[s].rows = rows]
  <2>m. notes' = [n \in Notes |-> IF n \in c.ids THEN Patched(notes[n], c.patch) ELSE notes[n]]
    BY <1>2, <1>4
  <2>c. c = web.calls[s]
    OBVIOUS
  <2> HIDE DEF rows
  <2>1. web' = [web EXCEPT !.calls[s] = d]
    BY <1>1, <1>4 DEF Tab
  <2>2. Served(web', web, s) /\ web'.calls[s] = d
    <3> HIDE DEF d
    <3> QED
      BY <1>1, <2>1, ServedShape
  <2> HIDE DEF c
  <2>3. /\ d.op = c.op /\ d.at = "ok" /\ d.key = c.key /\ d.ids = c.ids /\ d.patch = c.patch
    BY <1>1 DEF Call
  <2> HIDE DEF d
  <2>4. Sound(d)
    BY <1>1, <2>3 DEF Sound
  <2>5. ASSUME ~Excepted(web'), AtBoard(web'),
               \A t \in Slots \ {s} : Spent(web.calls[t], web.key)
        PROVE  ~Coming(web.calls[s], web.key) /\ Foreseen(notes', web') = Foreseen(notes, web)
    <3>1. AtBoard(web) /\ ~Excepted(web)
      BY <2>2, <2>5 DEF Served, Marks
    <3>2. c.op = "patch"
      <4>1. Placed(c, web.key)
        BY <2>c, <3>1 DEF Settled, BoardInv, BoardAgrees
      <4> QED
        BY <1>1, <4>1 DEF Placed, Writes
    <3>3. Only(web, s)
      BY <2>5 DEF Only, Spent
    <3>4. Foreseen(notes, web) = notes'
      BY <1>1, <2>c, <2>m, <3>2, <3>3, ForeseenPatched
    <3>5. \A t \in Slots, n \in Notes : ~Making(web'.calls[t], n) /\ ~Dropping(web'.calls[t], n)
      <4>1. ASSUME NEW n \in Notes
            PROVE  ~Making(web'.calls[s], n) /\ ~Dropping(web'.calls[s], n)
        BY <2>2, <2>3, <3>2 DEF Making, Dropping
      <4> QED
        BY <2>2, <3>3, <4>1 DEF Only, Served
    <3>6. Foreseen(notes', web') = notes'
      BY <1>2, <3>5, ForeseenNone
    <3>7. ~Coming(c, web.key)
      BY <1>1, <3>2 DEF Coming
    <3> QED
      BY <2>c, <3>4, <3>6, <3>7
  <2>6. c.op \in Writes
    BY <1>1 DEF Writes
  <2> QED
    BY <2>2, <2>3, <2>4, <2>5, <2>6, <2>c, MadeKeeps DEF Settled, Served
<1> QED
  BY <1>2, <1>3, <1>4

\* The server deletes: what was foreseen is there.
LEMMA ServeDeleteBoard ==
  ASSUME Settled, NEW s \in Slots, NEW n \in Notes, ServeDelete(s, n)
  PROVE  BoardInv(notes', web')
<1> DEFINE c == web.calls[s]
           at == IF c.ids = {n} THEN "ok" ELSE c.at
           d == [c EXCEPT !.ids = c.ids \ {n}, !.at = at]
<1>1. /\ web \in Tab /\ c \in Call /\ c.at = "sent" /\ c.op = "delete" /\ Known
      /\ notes \in [Notes -> Note] /\ n \in c.ids
  BY DEF Settled, Known, TypeOK, Tab, ServeDelete, Serving
<1>2. \/ /\ notes' = [notes EXCEPT ![n].place = "absent", ![n].owner = None]
         /\ web' = [web EXCEPT !.calls[s].ids = @ \ {n},
                               !.calls[s].at = IF c.ids = {n} THEN "ok" ELSE @]
      \/ Answer(s, "refused") /\ notes' = notes
  BY DEF ServeDelete
<1>3. CASE Answer(s, "refused") /\ notes' = notes
  BY <1>1, <1>3, RefusedBoard
<1>4. CASE /\ notes' = [notes EXCEPT ![n].place = "absent", ![n].owner = None]
           /\ web' = [web EXCEPT !.calls[s].ids = @ \ {n},
                                 !.calls[s].at = IF c.ids = {n} THEN "ok" ELSE @]
  <2>m. notes' = [notes EXCEPT ![n] = Removed(notes[n])]
    BY <1>1, <1>4 DEF Removed
  <2>c. c = web.calls[s]
    OBVIOUS
  <2>1. web \in Tab /\ web' = [web EXCEPT !.calls[s] = d]
    BY <1>1, <1>4 DEF Tab
  <2>2. Served(web', web, s) /\ web'.calls[s] = d
    <3> HIDE DEF d, c, at
    <3> QED
      BY <2>1, ServedShape
  <2>a. at \in {"sent", "ok"} /\ (at = "ok" => c.ids = {n})
    BY <1>1
  <2> HIDE DEF c, at
  <2>3. d.op = c.op /\ d.at = at /\ d.key = c.key /\ d.ids = c.ids \ {n}
    BY <1>1 DEF Call
  <2> HIDE DEF d
  <2>4. Sound(d)
    BY <1>1, <2>a, <2>3 DEF Sound
  <2>5. ASSUME \A t \in Slots \ {s} : Spent(web.calls[t], web.key)
        PROVE  ~Coming(web.calls[s], web.key) /\ Foreseen(notes', web') = Foreseen(notes, web)
    <3>1. Only(web, s)
      BY <2>5 DEF Only, Spent
    <3>2. Only(web', s)
      BY <2>2, <3>1 DEF Only, Served
    <3>3. Foreseen(notes, web) = [m \in Notes |-> IF m \in c.ids THEN Removed(notes[m]) ELSE notes[m]]
      BY <1>1, <2>c, <3>1, ForeseenRemoved
    <3>4. Foreseen(notes', web') = [m \in Notes |-> IF m \in d.ids THEN Removed(notes'[m]) ELSE notes'[m]]
      BY <1>1, <2>2, <2>3, <3>2, ForeseenRemoved
    <3>5. ASSUME NEW m \in Notes
          PROVE  (IF m \in d.ids THEN Removed(notes'[m]) ELSE notes'[m])
                   = IF m \in c.ids THEN Removed(notes[m]) ELSE notes[m]
      BY <1>1, <2>3, <2>m
    <3>6. Foreseen(notes', web') = Foreseen(notes, web)
      BY <3>3, <3>4, <3>5
    <3>7. ~Coming(c, web.key)
      BY <1>1 DEF Coming
    <3> QED
      BY <2>c, <3>6, <3>7
  <2>6. c.op \in Writes
    BY <1>1 DEF Writes
  <2> QED
    BY <2>2, <2>3, <2>4, <2>5, <2>6, <2>a, <2>c, MadeKeeps DEF Settled, Served
<1> QED
  BY <1>2, <1>3, <1>4

\* The server inserts a note.
LEMMA ServeCreateBoard ==
  ASSUME Settled, NEW s \in Slots, ServeCreate(s)
  PROVE  BoardInv(notes', web')
<1>1. Answer(s, "ok") /\ web.calls[s].op = "create"
  BY DEF ServeCreate, Serving
<1>2. /\ Served(web', web, s)
      /\ web'.calls[s].op = "create" /\ web'.calls[s].at = "ok"
      /\ web'.calls[s].key = web.calls[s].key
  BY <1>1, AnswerShape
<1>3. Sound(web'.calls[s])
  BY <1>2 DEF Sound
<1>4. Coming(web'.calls[s], web'.key)
  BY <1>2 DEF Coming
<1>5. web.calls[s].op \in Writes
  BY <1>1 DEF Writes
<1> QED
  BY <1>1, <1>2, <1>3, <1>4, <1>5, MadeKeeps DEF Settled, Served

\* A call gets lost: a list or a note that nobody hears of is unseen.
LEMMA LoseCallBoard ==
  ASSUME Settled, NEW s \in Slots, LoseCall(s)
  PROVE  BoardInv(notes', web')
<1> DEFINE c == web.calls[s]
           d == [c EXCEPT !.at = "lost"]
           y == [web EXCEPT !.calls[s] = d]
           cond == c.op \in {"list", "resync", "create"}
           v == Noting(y, "unseen", cond)
<1>1. /\ web \in Tab /\ c \in Call /\ c.at \in {"sent", "ok"} /\ notes' = notes
  BY DEF Settled, Known, TypeOK, Tab, LoseCall
<1>2. web' = v
  BY <1>1 DEF LoseCall, Tab
<1>3. d \in Call /\ d.op = c.op /\ d.at = "lost" /\ d.key = c.key
  BY <1>1 DEF Call, At
<1>c. c = web.calls[s] /\ (cond <=> c.op \in {"list", "resync", "create"})
  OBVIOUS
<1>4. cond \in BOOLEAN /\ "unseen" \in Mishaps
  BY DEF Mishaps
<1> HIDE DEF c, cond, d
<1>5. y \in Tab /\ Served(y, web, s) /\ y.calls[s] = d
  BY <1>1, <1>3, CallShape, ServedShape
<1> HIDE DEF y
<1>6. /\ SameMember(v, y) /\ SamePage(v, y)
      /\ v.calls = y.calls /\ v.lists = y.lists
      /\ v.mishaps = IF cond THEN y.mishaps \cup {"unseen"} ELSE y.mishaps
  BY <1>4, <1>5, NotingShape
<1> HIDE DEF v
<1>7. /\ Marks(v, web) /\ (AtBoard(v) => AtBoard(web)) /\ v.lists = web.lists /\ v.key = web.key
      /\ v.calls[s] = d /\ \A t \in Slots \ {s} : v.calls[t] = web.calls[t]
  BY <1>5, <1>6 DEF Served, Marks, Excepted, Saw, AtBoard, Present, SameMember, SamePage
<1>8. CASE cond
  <2>1. Excepted(v)
    BY <1>6, <1>8 DEF Excepted, Saw
  <2>2. Sound(d)
    BY <1>3 DEF Sound
  <2>3. \A t \in Slots : Sound(v.calls[t])
    BY <1>7, <2>2 DEF Settled, BoardInv
  <2> QED
    BY <1>1, <1>2, <2>1, <2>3, ExceptedKeeps
<1>9. CASE c.op \in {"patch", "delete", "save"}
  BY <1>1, <1>2, <1>3, <1>7, <1>9, <1>c, TroubleKeeps DEF Settled
<1>10. CASE ~cond /\ c.op \notin {"patch", "delete", "save"}
  <2>1. Aside(d) /\ Spent(c, web.key)
    BY <1>3, <1>10, <1>c, OthersSpent DEF Aside, Writes, Fetches
  <2>2. Still(v.calls[s], web.calls[s], web.key)
    BY <1>7, <1>c, <2>1 DEF Still
  <2> QED
    BY <1>1, <1>2, <1>7, <2>2, StillOne DEF Settled
<1> QED
  BY <1>4, <1>8, <1>9, <1>10

\* Nothing that the board is about changes.
LEMMA SameBoard ==
  ASSUME NEW db, NEW w, NEW v, BoardInv(db, w), Marks(v, w), SameMember(v, w),
         v.route = w.route, v.key = w.key, v.lists = w.lists, v.calls = w.calls
  PROVE  BoardInv(db, v)
<1>1. AtBoard(v) => AtBoard(w)
  BY DEF AtBoard, Present, SameMember
<1>2. \A s \in Slots : Still(v.calls[s], w.calls[s], w.key)
  BY SameIsStill
<1> QED
  BY <1>1, <1>2, StayKeeps

\* The server refreshes, or refuses to.
LEMMA ServeRefreshBoard ==
  ASSUME Settled, ServeRefresh
  PROVE  BoardInv(notes', web')
<1> DEFINE at == IF web.refreshing.who \in ended THEN "bad" ELSE "ok"
           v == [web EXCEPT !.refreshing.at = at]
<1>1. web \in Tab /\ notes' = notes /\ web' = v
  BY DEF Settled, Known, TypeOK, ServeRefresh
<1> HIDE DEF at
<1>2. /\ SameMember(v, web) /\ v.route = web.route /\ v.key = web.key
      /\ v.calls = web.calls /\ v.lists = web.lists /\ v.mishaps = web.mishaps
  BY <1>1 DEF Tab, SameMember
<1> HIDE DEF v
<1>3. Marks(v, web)
  BY <1>2 DEF Marks, Excepted, Saw
<1> QED
  BY <1>1, <1>2, <1>3, SameBoard DEF Settled

\* A refresh gets lost.
LEMMA LoseRefreshBoard ==
  ASSUME Settled, LoseRefresh
  PROVE  BoardInv(notes', web')
<1> DEFINE y == [web EXCEPT !.refreshing.at = "bad"]
           v == Noting(y, "refresh lost", TRUE)
<1>1. web \in Tab /\ web.refreshing \in Refreshing /\ notes' = notes /\ web' = v
  BY DEF Settled, Known, TypeOK, Tab, LoseRefresh
<1>2. /\ y \in Tab /\ SameMember(y, web) /\ y.route = web.route /\ y.key = web.key
      /\ y.calls = web.calls /\ y.lists = web.lists /\ y.mishaps = web.mishaps
  BY <1>1 DEF Tab, Refreshing, SameMember
<1> HIDE DEF y
<1>3. /\ SameMember(v, y) /\ SamePage(v, y) /\ v.calls = y.calls /\ v.lists = y.lists
      /\ v.mishaps = y.mishaps \cup {"refresh lost"}
  BY <1>2, NotingShape DEF Mishaps
<1> HIDE DEF v
<1>4. /\ SameMember(v, web) /\ v.route = web.route /\ v.key = web.key
      /\ v.calls = web.calls /\ v.lists = web.lists /\ Marks(v, web)
  BY <1>2, <1>3, NotedStays DEF SameMember, SamePage
<1> QED
  BY <1>1, <1>4, SameBoard DEF Settled

\* The access tokens expire.
LEMMA TokensExpireBoard ==
  ASSUME Settled, TokensExpire
  PROVE  BoardInv(notes', web')
<1> DEFINE a == Aged(web.access)
           cs == [s \in Slots |-> AgedCall(web.calls[s])]
           y == [web EXCEPT !.access = a, !.calls = cs]
           cond == \E s \in Slots : web.calls[s].again /\ web.calls[s].at = "sent"
           v == Noting(y, "slow", cond)
<1>1. web \in Tab /\ notes' = notes /\ web' = v
  <2>1. web \in Tab /\ notes' = notes
    BY DEF Settled, Known, TypeOK, TokensExpire
  <2>2. web' = v
    BY Zenon DEF TokensExpire
  <2> QED
    BY <2>1, <2>2
<1>2. \A s \in Slots : cs[s] = AgedCall(web.calls[s])
  OBVIOUS
<1>3. web.mishaps \subseteq v.mishaps /\ v.calls = cs /\ v.lists = web.lists /\ v.key = web.key
      /\ v.route = web.route /\ v.status = web.status
  <2> HIDE DEF a, cs, cond
  <2>1. y.calls = cs /\ y.lists = web.lists /\ y.key = web.key /\ y.route = web.route
        /\ y.status = web.status /\ y.mishaps = web.mishaps
        /\ y = [y EXCEPT !.mishaps = web.mishaps]
    BY <1>1 DEF Tab
  <2>2. v = y \/ v = [y EXCEPT !.mishaps = web.mishaps \cup {"slow"}]
    BY <2>1 DEF Noting
  <2>3. [y EXCEPT !.mishaps = web.mishaps \cup {"slow"}]
          = [web EXCEPT !.access = a, !.calls = cs, !.mishaps = web.mishaps \cup {"slow"}]
    BY <1>1 DEF Tab
  <2> HIDE DEF y, v
  <2>4. CASE v = y
    BY <2>1, <2>4
  <2>5. CASE v = [y EXCEPT !.mishaps = web.mishaps \cup {"slow"}]
    BY <1>1, <2>3, <2>5 DEF Tab
  <2> QED
    BY <2>2, <2>4, <2>5
<1> HIDE DEF a, cs, v
<1>4. ASSUME NEW s \in Slots
      PROVE  Still(v.calls[s], web.calls[s], web.key)
  <2> DEFINE c == web.calls[s]
             d == v.calls[s]
  <2>1. c \in Call /\ d = AgedCall(c)
    BY <1>1, <1>2, <1>3 DEF Tab
  <2> HIDE DEF c, d
  <2>2. /\ d.op = c.op /\ d.key = c.key /\ d.who = c.who /\ d.rows = c.rows /\ d.ids = c.ids
        /\ d.patch = c.patch /\ d.live = c.live /\ d.at = c.at
    BY <2>1 DEF AgedCall, Call
  <2>3. Still(d, c, web.key)
    BY <2>2 DEF Still
  <2> QED
    BY <2>3 DEF c, d
<1>5. Marks(v, web) /\ (AtBoard(v) => AtBoard(web))
  BY <1>3, NotedStays DEF AtBoard, Present
<1> QED
  BY <1>1, <1>3, <1>4, <1>5, StayKeeps DEF Settled

\* An account is disabled.
LEMMA DisableBoard ==
  ASSUME Settled, NEW u \in Members, Disable(u)
  PROVE  BoardInv(notes', web')
BY DEF Settled, Disable

(***************************************************************************)
(* The handling of the answers.                                            *)
(***************************************************************************)

\* A call that fails with the session.
LEMMA FailedIsKept ==
  ASSUME NEW c \in Call
  PROVE  Kept([c EXCEPT !.at = "failed"], c) /\ Kept(c, c)
BY DEF Call, Kept

\* A call that fails leaves the others.
LEMMA FailedLeaves ==
  ASSUME NEW w \in Tab, NEW s \in Slots
  PROVE  LET x == Fail(w, s)
         IN /\ x \in Tab /\ Marks(x, w)
            /\ \A t \in Slots : Kept(x.calls[t], w.calls[t])
<1> DEFINE x == Fail(w, s)
<1>1. /\ x \in Tab /\ x.mishaps = w.mishaps
      /\ x.calls[s] = [w.calls[s] EXCEPT !.at = "failed"]
      /\ \A t \in Slots \ {s} : x.calls[t] = w.calls[t]
  BY FailShape
<1> HIDE DEF x
<1>2. \A t \in Slots : w.calls[t] \in Call
  BY DEF Tab
<1>3. Marks(x, w)
  BY <1>1 DEF Marks, Excepted, Saw
<1>4. \A t \in Slots : Kept(x.calls[t], w.calls[t])
  BY <1>1, <1>2, FailedIsKept
<1> QED
  BY <1>1, <1>3, <1>4 DEF x

\* A 401 is handled: a refresh is awaited, or the session ends.
LEMMA DeniedBoard ==
  ASSUME Settled, NEW s \in Slots, Denied(s)
  PROVE  BoardInv(notes', web')
<1>0. /\ web \in Tab /\ web.calls[s] \in Call /\ web.calls[s].at = "denied"
      /\ web' = Unauthorized(web, s) /\ notes' = notes /\ web.refreshing \in Refreshing
  BY DEF Denied, Ended, Settled, Known, TypeOK, Tab
<1>1. CASE Ends(web, s)
  <2>1. PICK y : Yields(y, web, s) /\ web' = EndSession(Fail(y, s))
    BY <1>0, <1>1, DeniedShape
  <2> DEFINE x == Fail(y, s)
             v == EndSession(x)
  <2>2. x \in Tab /\ Marks(x, y) /\ \A t \in Slots : Kept(x.calls[t], y.calls[t])
    BY <2>1, FailedLeaves DEF Yields
  <2>3. web' = v
    BY <2>1
  <2> HIDE DEF x
  <2>4. LeftBy(v, x)
    BY <2>2, EndSessionShape DEF EndedBy
  <2> HIDE DEF v
  <2>5. Marks(x, web) /\ \A t \in Slots : Kept(x.calls[t], web.calls[t])
    BY <2>1, <2>2 DEF Yields, Marks, Excepted, Saw
  <2> QED
    BY <1>0, <2>2, <2>3, <2>4, <2>5, LeftKeeps DEF Settled
<1>2. CASE ~Ends(web, s)
  <2> DEFINE c == web.calls[s]
             d == [c EXCEPT !.at = "waiting"]
             r == IF web.refreshing.at # "idle" THEN web.refreshing
                  ELSE [at |-> "sent", who |-> web.refresh]
             v == [[web EXCEPT !.calls[s] = d] EXCEPT !.refreshing = r]
  <2>1. web' = v
    BY <1>0, <1>2 DEF Unauthorized, Ends, NoRefresh, Tab
  <2>c. c = web.calls[s]
    OBVIOUS
  <2> HIDE DEF c
  <2>2. /\ d.op = c.op /\ d.key = c.key /\ d.who = c.who /\ d.rows = c.rows /\ d.ids = c.ids
        /\ d.patch = c.patch /\ d.live = c.live /\ d.at = "waiting"
    BY <1>0, <2>c DEF Call
  <2> HIDE DEF d, r
  <2>3. /\ SameMember(v, web) /\ v.route = web.route /\ v.key = web.key /\ v.lists = web.lists
        /\ v.mishaps = web.mishaps /\ v.calls[s] = d
        /\ \A t \in Slots \ {s} : v.calls[t] = web.calls[t]
    BY <1>0 DEF Tab, SameMember
  <2> HIDE DEF v
  <2>4. Still(v.calls[s], web.calls[s], web.key)
    BY <1>0, <2>2, <2>3, <2>c DEF Still
  <2>5. Marks(v, web) /\ (AtBoard(v) => AtBoard(web))
    BY <2>3 DEF Marks, Excepted, Saw, AtBoard, Present, SameMember
  <2> QED
    BY <1>0, <2>1, <2>3, <2>4, <2>5, StillOne DEF Settled
<1> QED
  BY <1>1, <1>2

\* A 403 about a disabled account is handled: the session ends.
LEMMA AccountDisabledBoard ==
  ASSUME Settled, NEW s \in Slots, AccountDisabled(s)
  PROVE  BoardInv(notes', web')
<1> DEFINE cond == web.calls[s].token.who # web.refresh
           y == Noting(web, "former", cond)
           x == Fail(y, s)
           v == EndSession(x)
<1>0. web \in Tab /\ "former" \in Mishaps /\ cond \in BOOLEAN /\ web' = v /\ notes' = notes
  BY DEF Settled, Known, TypeOK, Mishaps, AccountDisabled
<1> HIDE DEF cond
<1>1. /\ y \in Tab /\ y.calls = web.calls
      /\ y.mishaps = IF cond THEN web.mishaps \cup {"former"} ELSE web.mishaps
  BY <1>0, NotingShape
<1> HIDE DEF y
<1>2. x \in Tab /\ Marks(x, y) /\ \A t \in Slots : Kept(x.calls[t], y.calls[t])
  BY <1>1, FailedLeaves
<1> HIDE DEF x
<1>3. LeftBy(v, x)
  BY <1>2, EndSessionShape DEF EndedBy
<1> HIDE DEF v
<1>4. Marks(x, web) /\ \A t \in Slots : Kept(x.calls[t], web.calls[t])
  BY <1>1, <1>2 DEF Marks, Excepted, Saw
<1> QED
  BY <1>0, <1>2, <1>3, <1>4, LeftKeeps DEF Settled

\* The answer of the refresh is handled.
LEMMA RefreshAnsweredBoard ==
  ASSUME Settled, RefreshAnswered
  PROVE  BoardInv(notes', web')
<1>0. /\ web \in Tab /\ notes' = notes /\ web.refreshing.at \in {"ok", "bad"}
      /\ web.refreshing.who \in Members
  BY DEF Settled, Known, TypeOK, RefreshAnswered, SessionInv, Typed
<1>1. CASE web.refreshing.at = "ok"
  <2> DEFINE v == Refreshed(web, TRUE)
             fresh == [who |-> web.refreshing.who, old |-> FALSE]
  <2>1. web' = v
    BY <1>1 DEF RefreshAnswered
  <2>2. /\ SameMember(v, web) /\ SamePage(v, web)
        /\ \A s \in Slots : v.calls[s] =
             IF web.calls[s].at = "waiting"
             THEN [web.calls[s] EXCEPT !.at = "sent", !.again = TRUE, !.token = fresh]
             ELSE web.calls[s]
        /\ v.lists = web.lists /\ v.mishaps = web.mishaps
    BY <1>0, RefreshedShape
  <2> HIDE DEF v, fresh
  <2>3. ASSUME NEW s \in Slots
        PROVE  Still(v.calls[s], web.calls[s], web.key)
    <3> DEFINE c == web.calls[s]
               d == v.calls[s]
    <3>1. c \in Call /\ d = IF c.at = "waiting"
                            THEN [c EXCEPT !.at = "sent", !.again = TRUE, !.token = fresh] ELSE c
      BY <1>0, <2>2 DEF Tab
    <3> HIDE DEF c, d
    <3>2. CASE c.at = "waiting"
      <4>1. /\ d.op = c.op /\ d.key = c.key /\ d.who = c.who /\ d.rows = c.rows /\ d.ids = c.ids
            /\ d.patch = c.patch /\ d.live = c.live /\ d.at = "sent"
        BY <3>1, <3>2 DEF Call
      <4> QED
        BY <3>2, <4>1 DEF Still, c, d
    <3>3. CASE c.at # "waiting"
      BY <3>1, <3>3, SameIsStill DEF c, d
    <3> QED
      BY <3>2, <3>3
  <2>4. Marks(v, web) /\ (AtBoard(v) => AtBoard(web)) /\ v.key = web.key
    BY <2>2 DEF Marks, Excepted, Saw, AtBoard, Present, SameMember, SamePage
  <2> QED
    BY <1>0, <2>1, <2>2, <2>3, <2>4, StayKeeps DEF Settled
<1>2. CASE web.refreshing.at = "bad"
  <2> DEFINE x == GivenUp(web)
             v == EndSession(x)
  <2>1. web' = Refreshed(web, FALSE)
    BY <1>2 DEF RefreshAnswered
  <2>2. /\ Refreshed(web, FALSE) = v /\ x \in Tab /\ x.mishaps = web.mishaps
        /\ \A s \in Slots : x.calls[s] =
             IF web.calls[s].at = "waiting" THEN [web.calls[s] EXCEPT !.at = "failed"]
             ELSE web.calls[s]
    BY <1>0, GivenUpShape
  <2> HIDE DEF x
  <2>3. LeftBy(v, x)
    BY <2>2, EndSessionShape DEF EndedBy
  <2> HIDE DEF v
  <2>4. \A s \in Slots : web.calls[s] \in Call
    BY <1>0 DEF Tab
  <2>5. \A s \in Slots : Kept(x.calls[s], web.calls[s])
    BY <2>2, <2>4, FailedIsKept
  <2>6. Marks(x, web)
    BY <2>2 DEF Marks, Excepted, Saw
  <2> QED
    BY <1>0, <2>1, <2>2, <2>3, <2>5, <2>6, LeftKeeps DEF Settled
<1> QED
  BY <1>0, <1>1, <1>2

\* The tab without the call that was answered.
LEMMA DoneLeaves ==
  ASSUME NEW w \in Tab, NEW s \in Slots
  PROVE  LET x == Done(w, s)
         IN /\ x \in Tab /\ x.mishaps = w.mishaps /\ Marks(x, w) /\ Vacant(x)
            /\ SameTokens(x, w) /\ SameMember(x, w) /\ SamePage(x, w) /\ x.lists = w.lists
            /\ x.calls[s] = NoCall /\ \A t \in Slots \ {s} : x.calls[t] = w.calls[t]
            /\ \A t \in Slots : /\ Mild(x.calls[t], w.calls[t])
                                /\ Aside(x.calls[t]) \/ Kept(x.calls[t], w.calls[t])
<1> DEFINE x == Done(w, s)
<1>1. /\ x \in Tab /\ x.mishaps = w.mishaps
      /\ SameTokens(x, w) /\ SameMember(x, w) /\ SamePage(x, w) /\ x.lists = w.lists
      /\ x.calls[s] = NoCall /\ \A t \in Slots \ {s} : x.calls[t] = w.calls[t]
  BY DoneShape
<1> HIDE DEF x
<1>2. Aside(NoCall) /\ NoCall.op = "none"
  BY DEF Aside, NoCall, Writes, Fetches
<1>3. Marks(x, w) /\ Vacant(x)
  BY <1>1, <1>2 DEF Marks, Excepted, Saw, Vacant
<1>4. ASSUME NEW t \in Slots
      PROVE  Mild(x.calls[t], w.calls[t]) /\ (Aside(x.calls[t]) \/ Kept(x.calls[t], w.calls[t]))
  <2>1. CASE t = s
    BY <1>1, <1>2, <2>1 DEF Mild
  <2>2. CASE t # s
    BY <1>1, <2>2, SameIsStill DEF Kept
  <2> QED
    BY <2>1, <2>2
<1> QED
  BY <1>1, <1>3, <1>4 DEF x

\* A call that neither changes nor fetches notes is over.
LEMMA DoneBoard ==
  ASSUME NEW db, NEW w \in Tab, BoardInv(db, w), NEW s \in Slots, Spent(w.calls[s], w.key)
  PROVE  BoardInv(db, Done(w, s))
<1> DEFINE x == Done(w, s)
<1>1. /\ Marks(x, w) /\ SameMember(x, w) /\ SamePage(x, w) /\ x.lists = w.lists
      /\ x.calls[s] = NoCall /\ \A t \in Slots \ {s} : x.calls[t] = w.calls[t]
  BY DoneLeaves
<1> HIDE DEF x
<1>2. Aside(NoCall)
  BY DEF Aside, NoCall, Writes, Fetches
<1>3. Still(x.calls[s], w.calls[s], w.key)
  BY <1>1, <1>2 DEF Still
<1>4. (AtBoard(x) => AtBoard(w)) /\ x.key = w.key
  BY <1>1 DEF AtBoard, Present, SameMember, SamePage
<1>5. BoardInv(db, x)
  BY <1>1, <1>3, <1>4, StillOne
<1> QED
  BY <1>5 DEF x

\* The answer of the credentials is handled.
LEMMA LoginAnsweredBoard ==
  ASSUME Settled, NEW s \in Slots, LoginAnswered(s)
  PROVE  BoardInv(notes', web')
<1> DEFINE x == Done(web, s)
           u == web.calls[s].who
<1>1. /\ web \in Tab /\ notes' = notes /\ web.calls[s].op = "login" /\ u \in Members
      /\ BoardInv(notes, web)
  BY DEF Settled, Known, TypeOK, SessionInv, Typed, CallTyped, LoginAnswered, Result
<1>2. Spent(web.calls[s], web.key)
  BY <1>1, OthersSpent DEF Writes, Fetches
<1>3. x \in Tab /\ Vacant(x) /\ BoardInv(notes, x)
  BY <1>1, <1>2, DoneLeaves, DoneBoard
<1>4. CASE Ok(s)
  <2> DEFINE v == SignIn(x, u)
  <2>1. web' = v
    BY <1>4 DEF LoginAnswered
  <2>s. x \in Tab /\ u \in Members /\ Vacant(x)
    BY <1>1, <1>3
  <2> HIDE DEF x, u
  <2>2. /\ v \in Tab
        /\ v.access = [who |-> u, old |-> FALSE] /\ v.refresh = u
        /\ v.refreshing = x.refreshing
        /\ SameMember(v, x) /\ SamePage(v, x)
        /\ v.lists = x.lists /\ v.mishaps = x.mishaps
        /\ \E r \in Slots :
             /\ x.calls[r].op = "none"
             /\ v.calls[r].op = "signin" /\ v.calls[r].at = "sent" /\ ~v.calls[r].again
             /\ v.calls[r].token = [who |-> u, old |-> FALSE]
             /\ \A t \in Slots \ {r} : v.calls[t] = x.calls[t]
    BY <2>s, SignInShape
  <2> HIDE DEF v
  <2>3. PICK r \in Slots : /\ x.calls[r].op = "none"
                           /\ v.calls[r].op = "signin" /\ v.calls[r].at = "sent"
                           /\ \A t \in Slots \ {r} : v.calls[t] = x.calls[t]
    BY <2>2
  <2>4. Aside(v.calls[r]) /\ Spent(x.calls[r], x.key)
    BY <2>3, OthersSpent DEF Aside, Writes, Fetches
  <2>5. Still(v.calls[r], x.calls[r], x.key)
    BY <2>4 DEF Still
  <2>6. Marks(v, x) /\ (AtBoard(v) => AtBoard(x)) /\ v.key = x.key
    BY <2>2 DEF Marks, Excepted, Saw, AtBoard, Present, SameMember, SamePage
  <2>7. BoardInv(notes, v)
    BY <1>3, <2>2, <2>3, <2>5, <2>6, StillOne
  <2> QED
    BY <1>1, <2>1, <2>7
<1>5. CASE ~Ok(s)
  <2> DEFINE v == [x EXCEPT !.submitting = FALSE]
  <2>1. web' = v
    BY <1>5 DEF LoginAnswered
  <2> HIDE DEF x
  <2>2. /\ SameMember(v, x) /\ v.route = x.route /\ v.key = x.key
        /\ v.lists = x.lists /\ v.calls = x.calls /\ v.mishaps = x.mishaps
    BY <1>3 DEF Tab, SameMember
  <2> HIDE DEF v
  <2>3. Marks(v, x)
    BY <2>2 DEF Marks, Excepted, Saw
  <2>4. BoardInv(notes, v)
    BY <1>3, <2>2, <2>3, SameBoard
  <2> QED
    BY <1>1, <2>1, <2>4
<1> QED
  BY <1>4, <1>5

\* me is not about the board.
LEMMA CutIsMild ==
  ASSUME NEW c \in Call, NEW ops, ops \subseteq {"list", "hydrate"}
  PROVE  Mild(Cut(c, ops), c)
<1> DEFINE d == Cut(c, ops)
<1>1. /\ d.op = c.op /\ d.key = c.key /\ d.who = c.who /\ d.rows = c.rows /\ d.ids = c.ids
      /\ d.at = c.at /\ (d.live => c.live)
  BY DEF Cut, Call
<1> HIDE DEF d
<1>2. Mild(d, c)
  BY <1>1 DEF Mild, Kept
<1> QED
  BY <1>2 DEF d

\* Less of less is less.
LEMMA MildTrans ==
  ASSUME NEW e, NEW d, NEW c, Mild(e, d), Mild(d, c)
  PROVE  Mild(e, c)
<1>1. CASE Aside(e)
  BY <1>1 DEF Mild
<1>2. CASE ~Aside(e) /\ Aside(d)
  <2>1. Aside(e)
    BY <1>2 DEF Mild, Kept, Aside
  <2> QED
    BY <1>2, <2>1
<1>3. CASE ~Aside(e) /\ ~Aside(d)
  BY <1>3 DEF Mild, Kept
<1> QED
  BY <1>1, <1>2, <1>3

\* The answer of me after the credentials is handled: the board mounts.
LEMMA SignInAnsweredBoard ==
  ASSUME Settled, NEW s \in Slots, SignInAnswered(s)
  PROVE  BoardInv(notes', web')
<1> DEFINE x == Done(web, s)
           u == web.calls[s].who
<1>1. /\ web \in Tab /\ notes' = notes /\ u \in Members \cup {None} /\ BoardInv(notes, web)
  BY DEF Settled, Known, TypeOK, Tab, Call, SignInAnswered
<1>2. /\ x \in Tab /\ x.mishaps = web.mishaps /\ Marks(x, web) /\ Vacant(x)
      /\ \A t \in Slots : /\ Mild(x.calls[t], web.calls[t])
                          /\ Aside(x.calls[t]) \/ Kept(x.calls[t], web.calls[t])
  BY <1>1, DoneLeaves
<1>3. CASE Ok(s)
  <2> DEFINE y == Cancel(x, "hydrate")
             w == [y EXCEPT !.status = "authenticated", !.user = u, !.submitting = FALSE]
  <2>1. web' = EnterBoard(w, "mine") /\ "mine" \in Keys
    BY <1>3 DEF SignInAnswered, SignedIn, Keys
  <2> HIDE DEF x, u
  <2>2. /\ y \in Tab /\ y.mishaps = x.mishaps
        /\ \A t \in Slots : y.calls[t] = Cut(x.calls[t], {"hydrate"})
    BY <1>2, CancelShape
  <2> HIDE DEF y
  <2>3. w \in Tab /\ w.mishaps = y.mishaps /\ w.calls = y.calls
    BY <1>1, <2>2 DEF Tab
  <2> HIDE DEF w
  <2>4. \A t \in Slots : x.calls[t] \in Call
    BY <1>2 DEF Tab
  <2>5. ASSUME NEW t \in Slots
        PROVE  Mild(w.calls[t], web.calls[t]) /\ (x.calls[t].op = "none" => w.calls[t].op = "none")
    <3>1. w.calls[t] = Cut(x.calls[t], {"hydrate"})
      BY <2>2, <2>3
    <3>2. Mild(w.calls[t], x.calls[t])
      BY <2>4, <3>1, CutIsMild
    <3>3. x.calls[t].op = "none" => w.calls[t].op = "none"
      BY <3>1 DEF Cut
    <3> QED
      BY <1>2, <3>2, <3>3, MildTrans
  <2>6. Vacant(w)
    BY <1>2, <2>5 DEF Vacant
  <2>7. Marks(w, web)
    BY <1>2, <2>2, <2>3 DEF Marks, Excepted, Saw
  <2>8. BoardInv(notes, EnterBoard(w, "mine"))
    BY <1>1, <2>1, <2>3, <2>5, <2>6, <2>7, MountKeeps
  <2> QED
    BY <1>1, <2>1, <2>8
<1>4. CASE ~Ok(s)
  <2> DEFINE z == Anonymous(ClearTokens(x))
             v == [z EXCEPT !.submitting = FALSE]
  <2>1. web' = v
    BY <1>4 DEF SignInAnswered, SignInFailed
  <2> HIDE DEF x
  <2>2. LeftBy(z, x)
    BY <1>2, DroppedShape
  <2> HIDE DEF z
  <2>3. BoardInv(notes, z)
    BY <1>1, <1>2, <2>2, LeftKeeps
  <2>4. /\ SameMember(v, z) /\ v.route = z.route /\ v.key = z.key
        /\ v.lists = z.lists /\ v.calls = z.calls /\ v.mishaps = z.mishaps
    BY <2>2 DEF Tab, SameMember, LeftBy
  <2> HIDE DEF v
  <2>5. Marks(v, z)
    BY <2>4 DEF Marks, Excepted, Saw
  <2>6. BoardInv(notes, v)
    BY <2>3, <2>4, <2>5, SameBoard
  <2> QED
    BY <1>1, <2>1, <2>6
<1> QED
  BY <1>3, <1>4

\* The account of a page load is known: its page renders.
LEMMA AuthenticatedBoard ==
  ASSUME Settled, NEW x \in Tab, Marks(x, web), Vacant(x),
         \A t \in Slots : Mild(x.calls[t], web.calls[t]), NEW u \in Members \cup {None}
  PROVE  BoardInv(notes, Authenticated(x, u))
<1> DEFINE in == [x EXCEPT !.status = "authenticated", !.user = u]
<1>1. in \in Tab /\ in.calls = x.calls /\ in.mishaps = x.mishaps /\ in.route = x.route
  BY DEF Tab
<1>2. Authenticated(x, u) = IF x.route = "login" THEN in ELSE EnterBoard(in, "mine")
  BY DEF Authenticated
<1> HIDE DEF in
<1>3. Marks(in, web) /\ Vacant(in) /\ "mine" \in Keys /\ BoardInv(notes, web)
  BY <1>1 DEF Marks, Excepted, Saw, Vacant, Keys, Settled
<1>4. CASE x.route = "login"
  <2>1. ~AtBoard(in)
    BY <1>1, <1>4 DEF AtBoard
  <2>2. BoardInv(notes, in)
    BY <1>1, <1>3, <2>1, AwayKeeps
  <2> QED
    BY <1>2, <1>4, <2>2
<1>5. CASE x.route # "login"
  <2>1. BoardInv(notes, EnterBoard(in, "mine"))
    BY <1>1, <1>3, MountKeeps
  <2> QED
    BY <1>2, <1>5, <2>1
<1> QED
  BY <1>4, <1>5

\* me could not be asked after a page load.
LEMMA HydrationFailedBoard ==
  ASSUME Settled, NEW x \in Tab, Marks(x, web), Vacant(x), BoardInv(notes, x),
         \A t \in Slots : Aside(x.calls[t]) \/ Kept(x.calls[t], web.calls[t]),
         NEW verdict \in BOOLEAN
  PROVE  BoardInv(notes, HydrationFailed(x, verdict))
<1>0. BoardInv(notes, web)
  BY DEF Settled
<1>1. CASE verdict
  <2> DEFINE z == Anonymous(ClearTokens(x))
  <2>1. HydrationFailed(x, verdict) = z
    BY <1>1 DEF HydrationFailed
  <2>2. LeftBy(z, x)
    BY DroppedShape
  <2> HIDE DEF z
  <2>3. BoardInv(notes, z)
    BY <1>0, <2>2, LeftKeeps
  <2> QED
    BY <2>1, <2>3
<1>2. CASE ~verdict /\ x.retries > 0
  <2> DEFINE y == [x EXCEPT !.retries = x.retries - 1]
             call == Request("hydrate")
             v == Issue(y, call)
  <2>1. HydrationFailed(x, verdict) = v
    BY <1>2 DEF HydrationFailed
  <2>2. x.retries - 1 \in 0..2
    BY <1>2 DEF Tab
  <2>3. /\ y \in Tab /\ y.calls = x.calls /\ y.lists = x.lists /\ y.mishaps = x.mishaps
        /\ y.route = x.route /\ y.key = x.key /\ y.access = x.access /\ SameMember(y, x)
    BY <2>2 DEF Tab, SameMember
  <2> HIDE DEF y
  <2>4. call \in Call /\ call.op = "hydrate"
    BY RequestTyped DEF Ops
  <2> HIDE DEF call
  <2>5. Vacant(y)
    BY <2>3 DEF Vacant
  <2>6. /\ SameMember(v, y) /\ SamePage(v, y) /\ Issued(v, y, call)
        /\ v.lists = y.lists /\ v.mishaps = y.mishaps
    BY <2>3, <2>4, <2>5, IssueShape DEF Issued, Vacant
  <2> HIDE DEF v
  <2>7. Issued(v, x, call)
    BY <2>3, <2>6 DEF Issued, AsSent
  <2>8. /\ Marks(v, x) /\ (AtBoard(v) => AtBoard(x)) /\ v.lists = x.lists /\ v.key = x.key
        /\ call.op \notin Writes \cup Fetches
    BY <2>3, <2>4, <2>6 DEF Marks, Excepted, Saw, AtBoard, Present, SameMember, SamePage,
       Writes, Fetches
  <2>9. BoardInv(notes, v)
    BY <2>4, <2>7, <2>8, IssueAside
  <2> QED
    BY <2>1, <2>9
<1>3. CASE ~verdict /\ ~(x.retries > 0)
  <2> DEFINE z == Anonymous(x)
             v == Noting(z, "blip", TRUE)
  <2>1. HydrationFailed(x, verdict) = v
    BY <1>3 DEF HydrationFailed
  <2>2. LeftBy(z, x)
    BY AnonymousShape
  <2> HIDE DEF z
  <2>3. BoardInv(notes, z)
    BY <1>0, <2>2, LeftKeeps
  <2>4. z \in Tab /\ "blip" \in Mishaps
    BY <2>2 DEF LeftBy, Mishaps
  <2>5. /\ SameMember(v, z) /\ SamePage(v, z) /\ v.calls = z.calls /\ v.lists = z.lists
        /\ v.mishaps = z.mishaps \cup {"blip"}
    BY <2>4, NotingShape
  <2> HIDE DEF v
  <2>6. Marks(v, z) /\ v.route = z.route /\ v.key = z.key
    BY <2>5, NotedStays DEF SamePage
  <2>7. BoardInv(notes, v)
    BY <2>3, <2>5, <2>6, SameBoard
  <2> QED
    BY <2>1, <2>7
<1> QED
  BY <1>1, <1>2, <1>3

\* The answer of me after a page load is handled.
LEMMA HydrateAnsweredBoard ==
  ASSUME Settled, NEW s \in Slots, HydrateAnswered(s)
  PROVE  BoardInv(notes', web')
<1> DEFINE x == Done(web, s)
           u == web.calls[s].who
           verdict == Ended(s, {"failed"})
<1>1. /\ web \in Tab /\ notes' = notes /\ web.calls[s].op = "hydrate" /\ u \in Members \cup {None}
      /\ BoardInv(notes, web) /\ web.calls[s].live \in BOOLEAN
  BY DEF Settled, Known, TypeOK, Tab, Call, HydrateAnswered, Result
<1>2. Spent(web.calls[s], web.key)
  BY <1>1, OthersSpent DEF Writes, Fetches
<1>3. /\ x \in Tab /\ Marks(x, web) /\ Vacant(x)
      /\ \A t \in Slots : /\ Mild(x.calls[t], web.calls[t])
                          /\ Aside(x.calls[t]) \/ Kept(x.calls[t], web.calls[t])
  BY <1>1, DoneLeaves
<1>4. BoardInv(notes, x)
  BY <1>1, <1>2, DoneBoard
<1>5. \/ web' = x \/ web' = Authenticated(x, u) \/ web' = HydrationFailed(x, verdict)
  BY <1>1 DEF HydrateAnswered
<1>6. verdict \in BOOLEAN
  BY DEF Ended
<1> HIDE DEF x, u, verdict
<1>7. BoardInv(notes, Authenticated(x, u))
  BY <1>1, <1>3, AuthenticatedBoard
<1>8. BoardInv(notes, HydrationFailed(x, verdict))
  BY <1>3, <1>4, <1>6, HydrationFailedBoard
<1> QED
  BY <1>1, <1>4, <1>5, <1>7, <1>8

\* The answer of a change of the name is handled.
LEMMA ProfileAnsweredBoard ==
  ASSUME Settled, NEW s \in Slots, ProfileAnswered(s)
  PROVE  BoardInv(notes', web')
<1> DEFINE x == Done(web, s)
           u == web.calls[s].who
           v == [x EXCEPT !.user = u]
<1>1. /\ web \in Tab /\ notes' = notes /\ web.calls[s].op = "profile" /\ BoardInv(notes, web)
  BY DEF Settled, Known, TypeOK, ProfileAnswered, Result
<1>2. Spent(web.calls[s], web.key)
  BY <1>1, OthersSpent DEF Writes, Fetches
<1>3. x \in Tab /\ BoardInv(notes, x)
  BY <1>1, <1>2, DoneLeaves, DoneBoard
<1>4. web' = x \/ web' = v
  BY DEF ProfileAnswered
<1> HIDE DEF x, u
<1>5. /\ v.status = x.status /\ v.route = x.route /\ v.key = x.key
      /\ v.lists = x.lists /\ v.calls = x.calls /\ v.mishaps = x.mishaps
  BY <1>3 DEF Tab
<1> HIDE DEF v
<1>6. Marks(v, x) /\ (AtBoard(v) => AtBoard(x))
      /\ \A t \in Slots : Still(v.calls[t], x.calls[t], x.key)
  BY <1>5, SameIsStill DEF Marks, Excepted, Saw, AtBoard, Present
<1>7. BoardInv(notes, v)
  BY <1>3, <1>5, <1>6, StayKeeps
<1> QED
  BY <1>1, <1>3, <1>4, <1>7

\* Calls that make no difference keep what does not depend on the board.
LEMMA MildSound ==
  ASSUME NEW db, NEW w, NEW v, BoardInv(db, w), \A t \in Slots : Mild(v.calls[t], w.calls[t])
  PROVE  /\ \A t \in Slots : Sound(v.calls[t])
         /\ ~Excepted(w) => Alone(v) /\ \A t \in Slots : Fresh(db, v.calls[t])
<1>1. \A t \in Slots : /\ Sound(v.calls[t])
                       /\ Fresh(db, w.calls[t]) => Fresh(db, v.calls[t])
                       /\ v.calls[t].op \in Writes \cup Fetches => v.calls[t].op = w.calls[t].op
  BY MildKeeps DEF BoardInv
<1>2. Alone(w) => Alone(v)
  BY <1>1 DEF Alone
<1> QED
  BY <1>1, <1>2 DEF BoardInv

\* What was fetched is shown.
LEMMA ListedBoard ==
  ASSUME Settled, NEW s \in Slots, web.calls[s].op \in Fetches, web.calls[s].at = "ok"
  PROVE  LET c == web.calls[s]
         IN BoardInv(notes, SetCached(Done(web, s), c.key, c.who, c.rows))
<1> DEFINE c == web.calls[s]
           x == Done(web, s)
           key == c.key
           u == c.who
           rows == c.rows
           v == SetCached(x, key, u, rows)
<1>0. /\ web \in Tab /\ BoardInv(notes, web) /\ notes \in [Notes -> Note] /\ web.key \in Keys
      /\ key \in Keys /\ u \in Members /\ rows \in SUBSET Row
  BY DEF Settled, Known, TypeOK, Tab, Call, SessionInv, Typed, CallTyped, Fetches
<1>1. /\ x \in Tab /\ x.mishaps = web.mishaps
      /\ SameMember(x, web) /\ SamePage(x, web) /\ x.lists = web.lists
      /\ x.calls[s] = NoCall /\ \A t \in Slots \ {s} : x.calls[t] = web.calls[t]
      /\ \A t \in Slots : Mild(x.calls[t], web.calls[t])
  BY <1>0, DoneLeaves
<1>c. c = web.calls[s] /\ key = c.key /\ u = c.who /\ rows = c.rows
  OBVIOUS
<1> HIDE DEF x, key, u, rows
<1>2. /\ SameMember(v, x) /\ SamePage(v, x)
      /\ v.calls = x.calls /\ v.mishaps = x.mishaps
      /\ v.lists[key] = [of |-> u, rows |-> rows]
      /\ \A k \in Keys : k # key => v.lists[k] = x.lists[k]
  BY <1>0, <1>1, SetCachedShape
<1> HIDE DEF v
<1>3. \A t \in Slots : Mild(v.calls[t], web.calls[t])
  BY <1>1, <1>2
<1>4. ASSUME ~Excepted(v)
      PROVE  BoardAgrees(notes, v) /\ ~Excepted(web)
  <2>1. ~Excepted(web)
    BY <1>1, <1>2, <1>4 DEF Excepted, Saw
  <2>2. Alone(web) /\ Fresh(notes, c) /\ BoardAgrees(notes, web)
    BY <2>1, <1>0, <1>c DEF BoardInv
  <2>3. \A t \in Slots : web.calls[t].op \notin Writes
    <3>1. c.op \notin Writes
      BY <1>c DEF Fetches, Writes
    <3> QED
      BY <2>2, <3>1, <1>c DEF Alone
  <2>4. \A t \in Slots : v.calls[t].op \notin Writes
    BY <1>1, <1>2, <2>3 DEF NoCall, Writes
  <2>5. Foreseen(notes, web) = notes /\ Foreseen(notes, v) = notes
    <3>1. \A t \in Slots, n \in Notes : /\ ~Making(web.calls[t], n) /\ ~Dropping(web.calls[t], n)
                                        /\ ~Making(v.calls[t], n) /\ ~Dropping(v.calls[t], n)
      BY <2>3, <2>4 DEF Making, Dropping, Writes
    <3> QED
      BY <1>0, <3>1, ForeseenNone
  <2>6. rows = ListingIn(notes, u, key)
    BY <2>2, <1>c DEF Fresh
  <2>7. ASSUME AtBoard(v)
        PROVE  Mirrors(notes, v) \/ \E t \in Slots : Coming(v.calls[t], v.key)
    <3>1. v.key = web.key /\ AtBoard(web)
      BY <1>1, <1>2, <2>7 DEF SamePage, SameMember, AtBoard, Present
    <3>2. CASE key = web.key
      <4>1. v.lists[v.key] \in List
        BY <1>0, <1>2, <3>1, <3>2 DEF List
      <4>2. v.lists[v.key] # None /\ v.lists[v.key].of = u /\ v.lists[v.key].rows = rows
        BY <1>2, <3>1, <3>2, <4>1, BoardAssumption
      <4>3. Mirrors(notes, v)
        BY <2>5, <2>6, <3>1, <3>2, <4>2 DEF Mirrors
      <4> QED
        BY <4>3
    <3>3. CASE key # web.key
      <4>1. v.lists[web.key] = web.lists[web.key]
        BY <1>0, <1>1, <1>2, <3>3
      <4>2. Mirrors(notes, web) => Mirrors(notes, v)
        BY <2>5, <3>1, <4>1 DEF Mirrors
      <4>3. ~Coming(c, web.key)
        BY <1>c, <3>3 DEF Coming, Fetches
      <4>4. \A t \in Slots : Coming(web.calls[t], web.key) => Coming(v.calls[t], v.key)
        BY <1>1, <1>2, <3>1, <4>3, <1>c
      <4> QED
        BY <2>2, <3>1, <4>2, <4>4 DEF BoardAgrees
    <3> QED
      BY <3>2, <3>3
  <2> QED
    BY <2>1, <2>4, <2>7 DEF BoardAgrees, Placed, Writes
<1>5. BoardInv(notes, v)
  <2>1. /\ \A t \in Slots : Sound(v.calls[t])
        /\ ~Excepted(web) => Alone(v) /\ \A t \in Slots : Fresh(notes, v.calls[t])
    BY <1>0, <1>3, MildSound
  <2> QED
    BY <1>4, <2>1 DEF BoardInv
<1> QED
  BY <1>5 DEF v, x, key, u, rows

\* A list that was fetched is shown.
LEMMA ListAnsweredBoard ==
  ASSUME Settled, NEW s \in Slots, ListAnswered(s)
  PROVE  BoardInv(notes', web')
<1> DEFINE c == web.calls[s]
           x == Done(web, s)
           used == Ok(s) /\ (c.op = "list" => c.live)
<1>1. /\ web \in Tab /\ notes' = notes /\ c.op \in Fetches /\ BoardInv(notes, web)
      /\ c.at \in {"ok", "refused", "lost", "failed"} /\ c \in Call
  BY DEF Settled, Known, TypeOK, Tab, ListAnswered, Result, Ended, FailedAts, Fetches
<1>2. CASE used
  <2>1. web' = SetCached(x, c.key, c.who, c.rows)
    BY <1>2 DEF ListAnswered
  <2> QED
    BY <1>1, <1>2, <2>1, ListedBoard DEF Ok
<1>3. CASE ~used
  <2>1. web' = x
    BY <1>3 DEF ListAnswered
  <2>2. /\ x.mishaps = web.mishaps /\ \A t \in Slots : Mild(x.calls[t], web.calls[t])
    BY <1>1, DoneLeaves
  <2>3. CASE Excepted(web)
    <3>1. Excepted(x)
      BY <2>2, <2>3 DEF Excepted, Saw
    <3>2. \A t \in Slots : Sound(x.calls[t])
      BY <1>1, <2>2, MildSound
    <3> QED
      BY <1>1, <2>1, <3>1, <3>2, ExceptedKeeps
  <2>4. CASE ~Excepted(web)
    <3>1. Sound(c) /\ Fresh(notes, c)
      BY <1>1, <2>4 DEF BoardInv
    <3>2. c.at \notin {"refused", "lost"}
      BY <1>1, <3>1 DEF Sound, Fresh, Fetches
    <3>3. c.op = "list" /\ c.live => c.at = "ok"
      BY <1>1, <3>1, <3>2 DEF Sound
    <3>4. ~Coming(c, web.key)
      <4>1. CASE c.op = "list"
        BY <1>3, <3>3, <4>1 DEF Coming, Ok
      <4>2. CASE c.op = "resync"
        <5>1. c.at = "failed"
          BY <1>1, <1>3, <3>2, <4>2 DEF Ok
        <5> QED
          BY <4>2, <5>1 DEF Coming
      <4> QED
        BY <1>1, <4>1, <4>2 DEF Fetches
    <3>5. Spent(c, web.key)
      BY <1>1, <3>4 DEF Spent, Making, Dropping, Fetches
    <3>6. BoardInv(notes, x)
      BY <1>1, <3>5, DoneBoard
    <3> QED
      BY <1>1, <2>1, <3>6
  <2> QED
    BY <2>3, <2>4
<1> QED
  BY <1>2, <1>3

\* A change was answered: one that failed has its list fetched anew.
LEMMA WriteAnsweredBoard ==
  ASSUME Settled, NEW s \in Slots, WriteAnswered(s)
  PROVE  BoardInv(notes', web')
<1> DEFINE c == web.calls[s]
           x == Done(web, s)
           key == c.key
           cond == Writing(x)
           call == [Request("resync") EXCEPT !.key = key]
           v == Issue(Noting(x, "raced", cond), call)
<1>1. /\ web \in Tab /\ notes' = notes /\ c.op \in {"patch", "delete"} /\ BoardInv(notes, web)
      /\ c.at \in {"ok", "refused", "lost", "failed"} /\ c \in Call /\ key \in Keys
  BY DEF Settled, Known, TypeOK, Tab, Call, WriteAnswered, Result, Ended, FailedAts
<1>2. /\ x \in Tab /\ x.mishaps = web.mishaps /\ Vacant(x)
      /\ SameMember(x, web) /\ SamePage(x, web)
      /\ x.calls[s] = NoCall /\ \A t \in Slots \ {s} : x.calls[t] = web.calls[t]
      /\ \A t \in Slots : Mild(x.calls[t], web.calls[t])
  BY <1>1, DoneLeaves
<1>3. CASE Ok(s)
  <2>1. Sound(c) /\ c.at = "ok"
    BY <1>1, <1>3 DEF BoardInv, Ok
  <2>2. Spent(c, web.key)
    BY <1>1, <2>1 DEF Spent, Coming, Making, Dropping, Sound
  <2>3. BoardInv(notes, x)
    BY <1>1, <2>2, DoneBoard
  <2> QED
    BY <1>1, <1>3, <2>3 DEF WriteAnswered
<1>4. CASE ~Ok(s)
  <2>1. web' = v
    BY <1>4 DEF WriteAnswered
  <2>2. cond \in BOOLEAN /\ "raced" \in Mishaps
    BY DEF Writing, InFlight, Mishaps
  <2>c. c = web.calls[s] /\ key = c.key /\ (cond <=> Writing(x))
    OBVIOUS
  <2> HIDE DEF key
  <2>3. call \in Call /\ call.op = "resync" /\ call.key = key
    BY <1>1, RequestTyped DEF Ops, Call
  <2> HIDE DEF x, cond, call, c
  <2>4. /\ v \in Tab
        /\ SameTokens(v, x) /\ SameMember(v, x) /\ SamePage(v, x)
        /\ Issued(v, x, call)
        /\ v.lists = x.lists
        /\ v.mishaps = IF cond THEN x.mishaps \cup {"raced"} ELSE x.mishaps
    BY <1>2, <2>2, <2>3, NotedIssueShape
  <2> HIDE DEF v
  <2>5. PICK r \in Slots : /\ x.calls[r].op = "none" /\ v.calls[r] = AsSent(x, call)
                           /\ \A t \in Slots \ {r} : v.calls[t] = x.calls[t]
    BY <2>4 DEF Issued
  <2>6. v.calls[r].op = "resync" /\ v.calls[r].at = "sent" /\ v.calls[r].key = key
    BY <2>3, <2>5 DEF AsSent, Call
  <2>7. \A t \in Slots : Sound(x.calls[t])
    BY <1>1, <1>2, MildSound
  <2>8. \A t \in Slots : Sound(v.calls[t])
    BY <2>5, <2>6, <2>7 DEF Sound
  <2>9. ASSUME ~Excepted(v)
        PROVE  Alone(v) /\ (\A t \in Slots : Fresh(notes, v.calls[t])) /\ BoardAgrees(notes, v)
    <3>1. ~Excepted(web) /\ ~Writing(x)
      BY <1>2, <2>4, <2>9, <2>c DEF Excepted, Saw
    <3>2. \A t \in Slots : Fresh(notes, x.calls[t])
      BY <1>1, <1>2, <3>1, MildSound
    <3>3. \A t \in Slots : Fresh(notes, v.calls[t])
      BY <2>5, <2>6, <3>2 DEF Fresh
    <3>4. \A t \in Slots : v.calls[t].op \notin Writes
      BY <2>5, <2>6, <3>1 DEF Writing, InFlight, Writes
    <3>5. ASSUME AtBoard(v)
          PROVE  Coming(v.calls[r], v.key)
      <4>1. AtBoard(web) /\ v.key = web.key
        BY <1>2, <2>4, <3>5 DEF AtBoard, Present, SameMember, SamePage
      <4>2. Placed(c, web.key)
        BY <1>1, <2>c, <3>1, <4>1 DEF BoardInv, BoardAgrees
      <4>3. key = web.key
        BY <1>1, <2>c, <4>2 DEF Placed
      <4> QED
        BY <2>6, <4>1, <4>3 DEF Coming
    <3> QED
      BY <3>3, <3>4, <3>5 DEF Alone, BoardAgrees, Placed, Writes
  <2> QED
    BY <1>1, <2>1, <2>8, <2>9 DEF BoardInv
<1> QED
  BY <1>3, <1>4

\* The editor has saved: the row is put into the list.
LEMMA SaveAnsweredBoard ==
  ASSUME Settled, NEW s \in Slots, SaveAnswered(s)
  PROVE  BoardInv(notes', web')
<1> DEFINE c == web.calls[s]
           x == Done(web, s)
           row == CHOOSE r \in c.rows : TRUE
           ls == [k \in Keys |-> Upserted(x.lists[k], row)]
           y == [x EXCEPT !.lists = ls]
<1>1. web \in Tab /\ notes' = notes /\ c.op = "save" /\ BoardInv(notes, web)
  BY DEF Settled, Known, TypeOK, SaveAnswered, Result
<1>2. /\ x \in Tab /\ Marks(x, web) /\ x.mishaps = web.mishaps
      /\ SameMember(x, web) /\ SamePage(x, web)
      /\ \A t \in Slots : Mild(x.calls[t], web.calls[t])
  BY <1>1, DoneLeaves
<1>3. web' = x \/ web' = y
  BY DEF SaveAnswered, UpsertCached
<1>c. c = web.calls[s]
  OBVIOUS
<1> HIDE DEF c, x, ls
<1>4. /\ y.mishaps = x.mishaps /\ y.calls = x.calls /\ y.status = x.status /\ y.route = x.route
  BY <1>2 DEF Tab
<1> HIDE DEF y
<1>5. /\ web'.mishaps = web.mishaps /\ Marks(web', web) /\ (AtBoard(web') => AtBoard(web))
      /\ \A t \in Slots : Mild(web'.calls[t], web.calls[t])
  BY <1>2, <1>3, <1>4 DEF Marks, Excepted, Saw, AtBoard, Present, SameMember, SamePage
<1>6. CASE Excepted(web)
  <2>1. Excepted(web')
    BY <1>5, <1>6 DEF Marks
  <2>2. \A t \in Slots : Sound(web'.calls[t])
    BY <1>1, <1>5, MildSound
  <2> QED
    BY <1>1, <2>1, <2>2, ExceptedKeeps
<1>7. CASE ~Excepted(web)
  <2>1. ~AtBoard(web)
    BY <1>1, <1>7, <1>c DEF BoardInv, BoardAgrees, Placed, Writes
  <2> QED
    BY <1>1, <1>5, <2>1, AwayKeeps
<1> QED
  BY <1>6, <1>7

\* A note was composed: the editor opens it.
LEMMA CreateAnsweredBoard ==
  ASSUME Settled, NEW s \in Slots, CreateAnswered(s)
  PROVE  BoardInv(notes', web')
<1> DEFINE c == web.calls[s]
           x == Done(web, s)
           w == [x EXCEPT !.composing = FALSE]
           y == Cancel(w, "list")
           v == [y EXCEPT !.route = "editor"]
<1>1. /\ web \in Tab /\ notes' = notes /\ c.op = "create" /\ BoardInv(notes, web)
      /\ c.at \in {"ok", "refused", "lost", "failed"}
  BY DEF Settled, Known, TypeOK, CreateAnswered, Result, Ended, FailedAts
<1>2. /\ x \in Tab /\ Marks(x, web) /\ x.mishaps = web.mishaps
      /\ SameMember(x, web) /\ SamePage(x, web)
      /\ \A t \in Slots : Mild(x.calls[t], web.calls[t])
  BY <1>1, DoneLeaves
<1>3. \/ web' = v
      \/ web' = w /\ ~(c.at = "ok" /\ Present(web))
  <2>1. web' = IF Ok(s) /\ Signed THEN v ELSE w
    BY Zenon DEF CreateAnswered
  <2>2. Ok(s) /\ Signed <=> c.at = "ok" /\ Present(web)
    BY DEF Ok, Signed, Present
  <2> HIDE DEF c, v, w, x, y
  <2>3. CASE Ok(s) /\ Signed
    <3>1. web' = v
      BY <2>1, <2>3, Zenon
    <3> QED
      BY <3>1
  <2>4. CASE ~(Ok(s) /\ Signed)
    <3>1. web' = w
      BY <2>1, <2>4, Zenon
    <3>2. ~(c.at = "ok" /\ Present(web))
      BY <2>2, <2>4, Zenon
    <3> QED
      BY <3>1, <3>2
  <2> QED
    BY <2>3, <2>4
<1>c. c = web.calls[s]
  OBVIOUS
<1> HIDE DEF c, x
<1>4. /\ w \in Tab /\ w.mishaps = x.mishaps /\ w.calls = x.calls /\ w.status = x.status
      /\ w.route = x.route
  BY <1>2 DEF Tab
<1> HIDE DEF w
<1>5. /\ Marks(w, web) /\ (AtBoard(w) => AtBoard(web)) /\ (Excepted(web) => Excepted(w))
      /\ \A t \in Slots : Mild(w.calls[t], web.calls[t])
  BY <1>2, <1>4 DEF Marks, Excepted, Saw, AtBoard, Present, SameMember, SamePage
<1>6. CASE web' = v
  <2>1. y \in Tab /\ Marks(y, w) /\ \A t \in Slots : Mild(y.calls[t], w.calls[t])
    BY <1>4, CancelMild
  <2> HIDE DEF y
  <2>2. v.mishaps = y.mishaps /\ v.calls = y.calls /\ v.route = "editor"
    BY <2>1 DEF Tab
  <2> HIDE DEF v
  <2>3. \A t \in Slots : Mild(v.calls[t], web.calls[t])
    BY <1>5, <2>1, <2>2, MildTrans
  <2>4. Marks(v, web) /\ ~AtBoard(v)
    BY <1>5, <2>1, <2>2 DEF Marks, Excepted, Saw, AtBoard
  <2> QED
    BY <1>1, <1>6, <2>3, <2>4, AwayKeeps
<1>7. CASE web' = w /\ ~(c.at = "ok" /\ Present(web))
  <2>1. CASE Excepted(web)
    <3>1. \A t \in Slots : Sound(w.calls[t])
      BY <1>1, <1>5, MildSound
    <3> QED
      BY <1>1, <1>5, <1>7, <2>1, <3>1, ExceptedKeeps
  <2>2. CASE ~Excepted(web)
    <3>1. Sound(c) /\ Fresh(notes, c) /\ (AtBoard(web) => Placed(c, web.key))
      BY <1>1, <1>c, <2>2 DEF BoardInv, BoardAgrees
    <3>2. AtBoard(web) => c.at # "failed"
      BY <1>1, <3>1 DEF Placed, Writes
    <3>3. c.at \notin {"refused", "lost"}
      BY <1>1, <3>1 DEF Sound, Fresh
    <3>4. ~AtBoard(w)
      BY <1>1, <1>5, <1>7, <3>2, <3>3 DEF AtBoard
    <3> QED
      BY <1>1, <1>5, <1>7, <3>4, AwayKeeps
  <2> QED
    BY <2>1, <2>2
<1> QED
  BY <1>3, <1>6, <1>7

(***************************************************************************)
(* All of it: the board's invariant is inductive.                          *)
(***************************************************************************)

LEMMA InitBoard ==
  ASSUME Init
  PROVE  BoardInv(notes, web)
<1>1. Aside(NoCall)
  BY DEF Aside, NoCall, Writes, Fetches
<1>2. ASSUME NEW w, ~AtBoard(w), \A s \in Slots : Aside(w.calls[s])
      PROVE  BoardInv(notes, w)
  <2>1. ASSUME NEW s \in Slots
        PROVE  Sound(w.calls[s]) /\ Fresh(notes, w.calls[s]) /\ w.calls[s].op \notin Writes
    <3>1. Aside(w.calls[s])
      BY <1>2
    <3> QED
      BY <3>1 DEF Aside, Sound, Fresh, Writes, Fetches
  <2> QED
    BY <1>2, <2>1 DEF BoardInv, Alone, BoardAgrees
<1>3. CASE web = Blank
  <2>1. web.calls = [s \in Slots |-> NoCall] /\ web.status = "anonymous"
    BY <1>3 DEF Blank
  <2>2. ~AtBoard(web)
    BY <2>1 DEF AtBoard, Present
  <2>3. \A s \in Slots : Aside(web.calls[s])
    BY <1>1, <2>1
  <2> QED
    BY <1>2, <2>2, <2>3
<1>4. ASSUME NEW u \in Members, NEW route \in {"login", "board"},
             web = Loaded(SetTokens(Blank, u), route)
      PROVE  BoardInv(notes, web)
  <2> DEFINE w == SetTokens(Blank, u)
             v == Loaded(w, route)
  <2>1. w \in Tab
    BY BlankTyped, SetTokensShape
  <2> HIDE DEF w
  <2>2. ~AtBoard(v) /\ \A s \in Slots : Aside(v.calls[s])
    BY <2>1, LoadedLeaves
  <2>3. web = v
    BY <1>4 DEF w
  <2> HIDE DEF v
  <2> QED
    BY <1>2, <2>2, <2>3
<1> QED
  BY <1>3, <1>4 DEF Init

\* Every step keeps the board's invariant.
LEMMA SettledStep ==
  ASSUME Settled, [Next]_vars
  PROVE  BoardInv(notes', web')
<1>1. CASE Member
  <2>1. CASE SignOut
    BY <2>1, SignOutBoard
  <2>2. CASE Reload
    BY <2>2, ReloadBoard
  <2>3. CASE ChangeProfile
    BY <2>3, ChangeProfileBoard
  <2>4. CASE OpenNote
    BY <2>4, OpenNoteBoard
  <2>5. CASE BackToBoard
    BY <2>5, BackToBoardBoard
  <2>6. CASE Compose
    BY <2>6, ComposeBoard
  <2>7. ASSUME NEW u \in Members, Submit(u) PROVE BoardInv(notes', web')
    BY <2>7, SubmitBoard
  <2>8. ASSUME NEW key \in Keys, SwitchKey(key) PROVE BoardInv(notes', web')
    BY <2>8, SwitchKeyBoard
  <2>9. ASSUME NEW n \in Notes, SaveNote(n) PROVE BoardInv(notes', web')
    BY <2>9, SaveNoteBoard
  <2>10. ASSUME NEW row \in Shown, NEW patch \in Patches, Organize(row, patch)
         PROVE  BoardInv(notes', web')
    BY <2>10, OrganizeBoard
  <2>11. ASSUME NEW ids \in SUBSET Notes, Delete(ids) PROVE BoardInv(notes', web')
    BY <2>11, DeleteBoard
  <2> QED
    BY <1>1, <2>1, <2>2, <2>3, <2>4, <2>5, <2>6, <2>7, <2>8, <2>9, <2>10, <2>11 DEF Member
<1>2. CASE Server
  <2>1. CASE ServeRefresh
    BY <2>1, ServeRefreshBoard
  <2>2. CASE LoseRefresh
    BY <2>2, LoseRefreshBoard
  <2>3. CASE TokensExpire
    BY <2>3, TokensExpireBoard
  <2>4. ASSUME NEW u \in Members, Disable(u) PROVE BoardInv(notes', web')
    BY <2>4, DisableBoard
  <2>5. ASSUME NEW s \in Slots, ServeLogin(s) PROVE BoardInv(notes', web')
    BY <2>5, ServeLoginBoard
  <2>6. ASSUME NEW s \in Slots, ServeRejected(s) PROVE BoardInv(notes', web')
    BY <2>6, ServeRejectedBoard
  <2>7. ASSUME NEW s \in Slots, ServeRead(s) PROVE BoardInv(notes', web')
    BY <2>7, ServeReadBoard
  <2>8. ASSUME NEW s \in Slots, ServePatch(s) PROVE BoardInv(notes', web')
    BY <2>8, ServePatchBoard
  <2>9. ASSUME NEW s \in Slots, ServeCreate(s) PROVE BoardInv(notes', web')
    BY <2>9, ServeCreateBoard
  <2>10. ASSUME NEW s \in Slots, LoseCall(s) PROVE BoardInv(notes', web')
    BY <2>10, LoseCallBoard
  <2>11. ASSUME NEW s \in Slots, NEW n \in Notes, ServeDelete(s, n) PROVE BoardInv(notes', web')
    BY <2>11, ServeDeleteBoard
  <2> QED
    BY <1>2, <2>1, <2>2, <2>3, <2>4, <2>5, <2>6, <2>7, <2>8, <2>9, <2>10, <2>11 DEF Server
<1>3. CASE Answered
  <2>1. CASE RefreshAnswered
    BY <2>1, RefreshAnsweredBoard
  <2>2. ASSUME NEW s \in Slots, Denied(s) PROVE BoardInv(notes', web')
    BY <2>2, DeniedBoard
  <2>3. ASSUME NEW s \in Slots, AccountDisabled(s) PROVE BoardInv(notes', web')
    BY <2>3, AccountDisabledBoard
  <2>4. ASSUME NEW s \in Slots, LoginAnswered(s) PROVE BoardInv(notes', web')
    BY <2>4, LoginAnsweredBoard
  <2>5. ASSUME NEW s \in Slots, SignInAnswered(s) PROVE BoardInv(notes', web')
    BY <2>5, SignInAnsweredBoard
  <2>6. ASSUME NEW s \in Slots, HydrateAnswered(s) PROVE BoardInv(notes', web')
    BY <2>6, HydrateAnsweredBoard
  <2>7. ASSUME NEW s \in Slots, ProfileAnswered(s) PROVE BoardInv(notes', web')
    BY <2>7, ProfileAnsweredBoard
  <2>8. ASSUME NEW s \in Slots, ListAnswered(s) PROVE BoardInv(notes', web')
    BY <2>8, ListAnsweredBoard
  <2>9. ASSUME NEW s \in Slots, WriteAnswered(s) PROVE BoardInv(notes', web')
    BY <2>9, WriteAnsweredBoard
  <2>10. ASSUME NEW s \in Slots, SaveAnswered(s) PROVE BoardInv(notes', web')
    BY <2>10, SaveAnsweredBoard
  <2>11. ASSUME NEW s \in Slots, CreateAnswered(s) PROVE BoardInv(notes', web')
    BY <2>11, CreateAnsweredBoard
  <2> QED
    BY <1>3, <2>1, <2>2, <2>3, <2>4, <2>5, <2>6, <2>7, <2>8, <2>9, <2>10, <2>11 DEF Answered
<1>4. CASE UNCHANGED vars
  BY <1>4 DEF vars, Settled
<1> QED
  BY <1>1, <1>2, <1>3, <1>4 DEF Next

\* Nothing is under way: what the board shows is what there is.
LEMMA SettledSettles ==
  ASSUME Settled
  PROVE  BoardSettles
<1> SUFFICES ASSUME OnBoard, \A s \in Slots : web.calls[s].op = "none", ~Excepted(web)
             PROVE  /\ web.lists[web.key] # None
                    /\ web.lists[web.key].rows = Listing(web.lists[web.key].of, web.key)
  BY DEF BoardSettles, Unless, Excepted, Saw
<1>1. AtBoard(web) /\ notes \in [Notes -> Note]
  BY DEF OnBoard, Signed, AtBoard, Present, Settled, Known, TypeOK
<1>2. \A s \in Slots : ~Coming(web.calls[s], web.key)
  BY DEF Coming
<1>3. Mirrors(notes, web)
  BY <1>1, <1>2 DEF Settled, BoardInv, BoardAgrees
<1>4. Foreseen(notes, web) = notes
  <2>1. \A s \in Slots, n \in Notes : ~Making(web.calls[s], n) /\ ~Dropping(web.calls[s], n)
    BY DEF Making, Dropping
  <2> QED
    BY <1>1, <2>1, ForeseenNone
<1> QED
  BY <1>3, <1>4, ListingIs DEF Mirrors

(***************************************************************************)
(* Once nothing is in flight the list on the board is the list of the      *)
(* server (BoardPage.tsx, lib/boardCache.ts): the optimistic changes, the  *)
(* lists fetched beside them and the fetches after a failed call settle,   *)
(* except after the mishaps that the property names.                       *)
(***************************************************************************)
THEOREM BoardShowsWhatThereIs == Spec => []BoardSettles
<1>1. Init => Settled
  BY InitKnown, InitBoard DEF Settled
<1>2. Settled /\ [Next]_vars => Settled'
  <2> SUFFICES ASSUME Settled, [Next]_vars PROVE Settled'
    OBVIOUS
  <2>1. Known'
    BY KnownStep DEF Settled
  <2>2. BoardInv(notes', web')
    BY SettledStep
  <2> QED
    BY <2>1, <2>2 DEF Settled
<1>3. Settled => BoardSettles
  BY SettledSettles
<1> QED
  BY <1>1, <1>2, <1>3, PTL DEF Spec

=============================================================================
