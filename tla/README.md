# Keepou in TLA+

This directory is the formal model of Keepou, the self-hosted note board of this
repository: a FastAPI service over PostgreSQL (`api/`) and a React single-page
application (`web/`). The modules are checked with TLC on small instances; what
matters most is proved with TLAPS for every value of the constants.

Paths below are relative to `src/`.

## The system

| part | state | operations | what is hard |
|---|---|---|---|
| lock service, `api/app/services/locks.py` | `locked_by_id`, `locked_at`, `lock_expires_at` of a note | acquire (also the heartbeat), release, lapse of the TTL | the clock is read before the conditional UPDATE runs; expiry races renewal and takeover |
| notes API, `api/app/routers/notes.py` | the note's row | create, save, lock, unlock, restore, delete | each handler is several statements and transactions; it decides on a row it read earlier |
| history, `api/app/services/versions.py` | append-only versions | creation root, session version with its no-op guard | release, look at the latest version and insertion are separate steps |
| MCP agent, `api/app/services/agent.py` | none of its own | create, edit (borrowing the lock), delete, flags | as the notes API, for an identity that only sees public notes |
| accounts, `api/app/routers/auth.py`, `admin.py` | users, allowlist | register with bootstrap, allowlist add and remove, role and status changes | first registrations race; guards count in one statement and commit in another |
| agent tokens, `services/bot.py`, `routers/tokens.py` | bot user, personal tokens | ensure the bot, create, list, revoke, resolve | a secret is shown once; revocation against use |
| Keep import, `routers/import_keep.py` | none between its two calls | preview, commit | an import that is sent again while, or after, the first one goes on |
| editor session, `web/src/hooks/useNoteLock.ts`, `useAutosave.ts`, `components/editor/NoteEditor.tsx` | lock status, draft, timers, calls | open, type, heartbeat, poll, save, retry, switch visibility, close, archive, delete | answers that arrive late or out of order; leaving while a save is in flight |
| API client and sign-in state, `web/src/api/client.ts`, `auth/AuthContext.tsx` | tokens, the signed-in member | request, single-flight refresh and retry, sign-in, hydration, sign-out | a refresh, or any other call, that answers after sign-out |
| board and its cache, `web/src/lib/boardCache.ts`, `pages/BoardPage.tsx` | cached lists | revalidate, optimistic changes, resync, create, go to the editor and back | fetches that cross changes, changes that fail |
| administration, `pages/AdminPage.tsx`, `components/admin/`, `TokenManager.tsx` | the list, menus, dialogs | add, remove, promote, demote, disable, enable; mint and revoke tokens | decisions taken on a list that was loaded earlier |
| import page, `pages/ImportKeepPage.tsx` | file, review, selection | upload, review, import, cancel | indices that are only good for the file that was reviewed |
| history page, `pages/HistoryPage.tsx` | versions, selection | select, restore, back to the editor | an editor that opens before the restore has answered |
| editing surface, `components/editor/BlockList.tsx`, `MarkdownArea.tsx`, `lib/markdown.ts`, `lib/inline.ts`, `lib/highlight.ts`, `lib/preview.ts` | blocks and the caret | every key and button, parse, serialize, colour, preview | what a round trip preserves; text that starts to read as a mark |
| backup, `scripts/backup.sh` | the tiers of dumps | dump, promote, prune | a failure between two of them |

The server's parts meet in the database: handlers share the note's row and its
versions, and the lock service is called by `lock_note`, `unlock_note`,
`restore_version` and the agent's `update_note`. The pages reach the server over
HTTP through the API client; they meet each other in the browser's storage, in the
board cache and in the router, which mounts one page at a time and leaves the calls
of the former in flight.

What makes each part correct:

* lock service: a fresh lock is never taken over; sessions of different holders do
  not overlap; the columns are set together; a heartbeat keeps the session's start.
* notes and history: whoever writes was entitled to at some moment since the
  request began; a borrowed lock is given back, if the statements succeed; the history starts with the
  owner's root; a deletion is complete; every version is a real state; changes
  waiting to be recorded have someone who will record them.
* accounts: one bootstrap admin; an active admin as long as there are accounts;
  no account without its allowlist entry; nobody queues forever for the bootstrap.
* editor: what is typed is kept, saved or openly given up; "saved" is true; nobody
  else's text is overwritten; an editor that is gone leaves neither timer nor lock
  behind; one that was told to close does.
* session and board: nobody sees another's lists nor acts in another's name;
  expiring tokens end no session; the board settles to what the server has.
* screens: one admin cannot remove the last; a secret is shown; what is imported
  is what was reviewed, once; what was restored stays.
* editing surface: what is stored is what was shown; joining and splitting blocks
  moves no text.

## Modules

| module | what it is |
|---|---|
| `EditLease` | the abstract lease of a note: holder and freshness, no clock |
| `LockService` | `locks.py` with its timestamps; implements `EditLease` (`ImplementsLease`) |
| `NoteService` | one note under concurrent requests, which may die or have a statement fail; EXTENDS `EditLease` and moves the lock through its actions |
| `NoteAudit`, `NoteStates` | `NoteService` with an auditor's history variables: who wrote what, which states the row has had |
| `Accounts` | registration, allowlist, roles and statuses |
| `AccountsAudit` | `Accounts` with an auditor who remembers which guards raced |
| `EditorSession` | an editor in a tab, the network, the note's server and another member; EXTENDS `EditLease` |
| `SessionClient` | tokens, requests, refresh, sign-in and sign-out as functions on the tab's state |
| `BoardSession` | the tab of members who use it in turn: `SessionClient` and the board with its cache |
| `AdminScreen`, `ImportScreen`, `HistoryScreen` | a page each, with the part of the server it calls |
| `Screens` | the three of them, one at a time on the tab |
| `Blocks` | the editing surface, the stored body and the surfaces that only read |
| `MC*` | instances for TLC: symmetry sets, budgets, archives, bodies |
| `*_proofs` | theorems and their proofs |

### LockService

`lock` is the three columns of the row, `now` the real clock, and `call[c]` what
a running `acquire()` has read so far: its user and its `now = _utcnow()`.
`ReadClock` is line 45 of `locks.py`; `Acquire` is the conditional UPDATE, atomic
on the row, which may come any time later and so compares with a late clock.
`Release` is the UPDATE of `release()` where it matches a row. The refinement
mapping reads the lease off the columns: the holder is `locked_by_id`, and it is
fresh while `lock_expires_at` is not before the real clock.

### NoteService, NoteAudit, NoteStates

`row`, `note` and `history` are the note's row and its versions (title, body and
colour are one value of `Contents`), `holder` and `fresh` its lock. A request is a
record in `req`: which step comes next, the user, what it has cached of the
row, what it is to write, whether it has borrowed the lock. Each action is one
statement or one transaction of a handler:

* SQLAlchemy semantics: attributes are cached until the session's own commit
  expires them, and an UPDATE writes only columns that differ from the cache
  (`Write`, `Updated`); after the commit of an acquisition the restored content is
  written whatever it was, and the visibility if it differs from what the owner
  lookup has just loaded (`EditLoad`).
* `unlock_note` is `UnlockRead`, `UnlockRelease`, then `VersionNote`,
  `VersionLatest`, `VersionInsert`, or `CloseCheck` when nothing was released.
* `restore_version` and `update_note` are `BorrowingEdit`, `BorrowTake`,
  `EditLoad`, `EditCommit`, the version, and `BorrowRelease` for the finally clause.
* `delete_note` is one transaction of two statements: at READ COMMITTED, versions
  inserted in between make the second fail on the foreign key, which rolls back.
* A version's `created_at` is stamped before its commit, so `VersionInsert` may
  place it before versions that were inserted since; a root carries the note's
  own `created_at` and sorts first.
* `Expire` is the TTL passing.
* `BreakOff` leaves a request of a mortal or failing slot without its later steps,
  wherever it is: its process or its connection died, or a statement or commit failed
  on a note that is live. What `EditCommit` and `VersionInsert` do to a note that is
  gone always fails. After a failure the Session refuses every statement until a
  rollback, the release of the finally clause included, so the exception leaves the
  handler with the lock where it is (`Raise`, `Raised`) and `get_session` closes the
  Session.

`entitled` is a history variable: it remembers for a request on its way to a write
whether its user held a fresh lock, or owned the private note, at any moment since
it started. It guards nothing. Requests that are refused without a state change
(403, 404, 409) are left out, and so are `pinned`, `archived` and `updated_at`, on
which nothing here depends.

In `NoteAudit`, `writers` are the users whose writes are on the note and in no
version, `overtaken` the holders whose stale lock was taken over since the last
version. In `NoteStates`, `states` is every pair of columns the row has had.

### Accounts, AccountsAudit

As `NoteService`: `req` holds the running requests of `register`,
`add_allowlist_entry`, `remove_allowlist_entry` and `patch_user`; `advisory` is who
holds `pg_advisory_xact_lock`, which the end of a transaction gives back
(`Unlocked`). The model is of PostgreSQL; on SQLite, the development database,
the code takes no advisory lock. `bootstrapped` is a history variable. The two
auditor's variables become true when two demotions are past the guard of
`patch_user` at once (`racedGuard`), or a removal of an entry and a registration
with it overlap (`racedRemoval`).

### EditorSession

`tab` is the component with its two hooks: the rendered status and the ref that
runs ahead of it, the draft, the timers (`beating`, `polling`, `armed`), the flags
of `useAutosave` (`dirty`, `saving`), and a call per flow: the load, the poll, the
heartbeat, an acquisition, the save, the save of an unmounted editor, and the
archiving or deletion. A call is sent, served and answered in three steps, and
answers of different flows arrive in any order; `LoseCall` loses it on either way.
A handler runs to its next `await`, and React's effects belong to the handler that
causes them. The editor may be seeded by the board with an old copy of the note.
The content is the set of keystrokes it contains, the member's own and the
other's, so that a lost or an overwritten change is visible. `typed` counts the
keystrokes; `tab.told` are those the conflict panel has openly given up. `Expire`
needs missed heartbeats or an editor that has gone; `ExpireUnnoticed` is a lapse
behind the back of a live one.

### SessionClient, BoardSession

`web` is the tab: the two tokens of the storage, the one refresh that may be in
flight, the calls (each with the token it carries), the sign-in state, the cached
lists and the route. `SessionClient` gives what `request()` does with a 401 (wait
for the single refresh, retry once, or end the session), what signing in, out and
hydration do with the tokens; `BoardSession` has an action per handler of the
sign-in page, `AuthContext`, `BoardPage`, the composer and the card, and the
server's side of each call. A list remembers whose it is, a token who it is for.
`web.stuck` is `refreshInFlight` holding a promise that is already false
(`client.ts:80-102`): without a refresh token the async function has returned, and its
`finally` run, before `??=` stores what it returned, so that nothing clears it before
the page is loaded again. Two simplifications: a refresh token does not expire
(`ServeRefresh` refuses only a disabled account), and a bulk deletion is one call that
the server refuses as a whole, where `BoardPage.tsx:191` sends one per note and waits
for all (`allSettled`); in both versions a refusal brings the resync.

### AdminScreen, ImportScreen, HistoryScreen, Screens

`AdminScreen` is `AccessManager` with its rows (`busy`, the menus, the list as it was
last loaded) and `TokenManager`, over `require_admin`, the allowlist, `patch_user`
(its count and its commit are two steps, as in `Accounts`) and the tokens. The page may
be left and opened again (`Reopen`): both components start anew, while the server
goes on with what it has (`live = FALSE`: nobody waits for the answer). A connection
may break while the server is at work (`DropAdminCall`), before a change is looked at
or between its count and its commit: the client sees a failure, the change goes on.
`ImportScreen` is the page in its three steps, over `preview` and an import that is
one step: its handler awaits nothing between its first SELECT and its commit, and
`docker-entrypoint.sh` runs one process. With several workers two imports could
overlap, and double the notes; that deployment is not modelled. An import may also be
served after the page saw it fail (`DropImportCall`); `page.approved` remembers what
the member had checked. `HistoryScreen` is the list, the selection,
the dialog, and as much of the editor as decides whether a restored version
stays; a restore may be served after the page saw it fail (`DropRestore`,
`ServeLate`); `hist.wanted` remembers what was restored last. `Screens` puts one of them
on the tab, so that every invariant is checked, and proved, of the composition.

### Blocks

`blocks` is what is on the surface, `focus` where the last step put the caret. A
line is a sequence of tokens (words, a space, a star, a heading mark, and the marks
that make a line a box), so that parsing and serialising are modelled by what
they do to marks and blank lines. The actions are the keys and buttons of the
surface at every caret and selection. `Parse`, `Serialize`, `HighlightMarkdown`,
`InlineText`, `RichText`, `VersionPreview`, `NoteCard` and `ParsePreview` are pure
operators, evaluated on every body that can be reached.

## Runs

| run | instance | shows |
|---|---|---|
| `lock_service` | 2 users, 2 calls in flight, TTL 2, clock to 6 | no takeover of a fresh lock, sessions disjoint, the lease is implemented |
| `note_service` | 2 members, 2 requests that may die or fail, 2 contents, 2 versions | types, `WritesEntitled`, `NoOrphanVersions`, `BorrowedLockGivenBack` |
| `note_agents` | owner and agent, 2 requests, `NoteStates` | `RootIsOwners`, `VersionsAreRealStates` |
| `note_sessions` | 3 members, one an admin, 1 request, 3 versions, `NoteAudit` | `SessionsStayOpen`, `CreditIsBounded` over sequences of sessions |
| `accounts` | 2 emails, 2 requests, one mortal, fairness, `AccountsAudit` | types, `OneBootstrapAdmin`, `BootstrapQueueMoves`; `AdminUnlessRaced`, `StrandedOnlyByRace` |
| `editor_session` | 10 budgets, 1 or 2 keystrokes and one kind of trouble each, or two that meet | types, `KeystrokesKept`, `SavedMeansSaved`, `ClosedMeansSaved`, `NoGhost`, `MineIsHeld`, `NoOverwrite` |
| `editor_progress` | 7 budgets, fairness | `EditsSettle`, `CloseCloses`, `LockComesFree` |
| `board_session` | 2 members, 2 notes, 3 calls in flight, 13 budgets | types, `CacheIsOnlyMine`, `ActsAsShown`, `BoardSettles`, `SessionSurvives` |
| `screens` | 3 accounts, 2 tokens, 2 archives, 3 versions, 2 calls in flight | types, `AdminsRemain`, `SecretsShown`, `ImportedAsReviewed`, `RestoreSticks` |
| `blocks` | 3 stored bodies, 5 things to insert, 3 steps, notes up to 11 tokens | types, `StoredAsShown`, `TextStaysPut` |
| `accounts_last_admin` | 3 emails, 2 requests | a violation: FR-U5 |
| `editor_drops_edits` | one keystroke, a lock taken over, one poll | a violation: "nothing is silently dropped" |

### Bounds, and why they are enough

* `MaxTime` bounds the clock: three TTLs, enough for a lease, a takeover and a
  second lease with a late call across them.
* `MaxVersions` stops version-writing requests from starting once the history is
  that long; with two requests, two versions suffice for a root, a session and a
  race behind them; the serial run takes three to reach sequences of sessions. Two
  requests are the smallest race, and the theorems lift it to any number.
* `Budgets` in `EditorSession` and `BoardSession` are sets of records that say how
  often each kind of step can happen in a behaviour: keystrokes, edits of the other
  member, lost calls, missed heartbeats, sign-ins, expiries and so on. A behaviour
  starts with one of them, so each kind of trouble is explored on its own and in
  the pairs where they meet (a lapse with a takeover, sign-out with a profile
  change and an expiry, a former member's call with an account disabled since, a
  slow call with two expiries). What a behaviour does with its budget is not constrained.
* `AdminBudgets`: two changes with a call that is lost or dropped, two changes with a
  return to the page, or three steps on tokens with one of each; two
  changes are the least that can meet in the last-admin guard. `ImportBudget` 4
  allows an upload, another one, an import and its retry or loss; `Visits` 1 a
  return to the page. `HistoryBudget` 5 allows two restores with a save and a visit.
* `Edits` 3 with `MaxSize` 11: a conversion, a split or join behind it and the
  reaction of the next key; a larger note has the same neighbours. Two words
  tell any exchange of text. `InlineIsLossless` (an assumption of `MCBlocks`, so TLC
  evaluates it) covers the colouring on its own for every line of up to 7 stars
  and words.

Symmetry is over request slots and contents (or emails), where all slots are mortal
or none is, all may fail or none, and over members and notes of `BoardSession`; never in a liveness run.
`CHECK_DEADLOCK FALSE` everywhere, because every system here may stop: a deleted
note has no more requests, an instance whose requests were refused has no more
steps, the clock is bounded, and members may do nothing more.

### What the properties of the browser excuse

`NoGhost` speaks of the client alone: a heartbeat that the server gets after the
release takes the lock again for an editor that is gone, which no flag of the client
shows. That lock, one whose release is lost and one of a tab that was closed must
expire: `LockComesFree` demands it without an exception for any of these, and
excuses only the ghost, the heartbeat that runs on in an open tab (`hurry`, `fault`,
`flip`).

Several properties of the browser hold except in situations that the state remembers
in a `mishaps` set; each property names those it excuses, and holds in every
behaviour without them. The situations are findings too: each is one in which
the code does not keep what it seems to promise.

| mishap | situation | what goes wrong |
|---|---|---|
| `stale poll` | a poll in flight while the lock is taken | the holder's editor becomes read-only and drops what is typed as if saved |
| `stale take` | an acquisition is refused or fails after a save's retry has taken the lock (`useNoteLock.ts:146` sets the status whatever it has become) | the holder's editor becomes read-only with keystrokes in it, and the next poll or acquisition replaces them |
| `flip` | the visibility is switched while typing | the lock's lifecycle runs again and refreshes the draft from the server; the release of the private session may overtake the lock of the public one; an acquisition may end after the editor |
| `stale seed` | the board hands the editor an old copy of the note | the next save writes the old columns back |
| `lapse` | the lock expired unnoticed and was taken again for a retry | the retry overwrites what another member wrote |
| `hurry` | the editor is left while a save or an acquisition is in flight | keystrokes are saved late or never; a heartbeat of an editor that is gone |
| `fault` | any call of the editor is lost, the last save of a closing editor among them | the flush is not tried again, and the re-armed timer runs in an editor that is gone |
| `gone` | the note was deleted or made private for this member | the save is a 404 and is tried for as long as the editor is open; `NoteEditor` never says so |
| `resync`, `patch`, `delete`, `profile`, `refresh` | a call in flight as the session ends | its answer fills the cleared cache, or the storage, for who has left (the comment at `client.ts:93` expects otherwise) |
| `blip` | hydration fails three times | the tab shows nobody but has kept the tokens |
| `early` | the sign-in form is sent before the stored tokens were checked | two sessions meet |
| `former` | a call that a former member left in flight, disabled since, gets its 403 | the session of whoever has signed in meanwhile ends (`client.ts:128` does not ask whose call it was) |
| `slow` | a call repeated with a fresh token takes so long that this one expires too | the session ends: `request()` refreshes once per call |
| `refresh lost` | the answer to a refresh is lost | the session ends although `client.ts:6` says it ends on a refused refresh |
| `raced` | a change crosses a fetch or another change | the later answer wins, whatever it was about |
| `unseen` | a creation or a fetch whose answer is lost | the board does not show what there is |
| `stuck` | a call is denied while there is no refresh token | a failed refresh stays in `refreshInFlight` and ends the next member's session at the first expired token |
| `two menus` | the keyboard leaves a menu open | two changes of roles run at once and pass the guard together |
| `left`, `dropped` (administration) | the page is left and opened again, or a connection breaks, while the server is at work on a change | `busy` is false beside it: the next change passes the guard together with it |
| `closed`, `lost` | the token dialog or the page is left, or the answer lost, while a token is made | the token lives, its secret was never shown |
| `other file` | another file is picked during the analysis | its notes come by the indices of the first |
| `left`, `saving`, `late` (history) | the page is left during a restore, the last save is still on its way, or a restore is served after the page saw it fail | the editor saves the old text over the restored one, or does not know of it |

### Where the code departs from what is said of it

Two runs are expected to be violated; their property states a document or a comment.

* `accounts_last_admin`, `AlwaysAnAdmin` (FR-U5): two concurrent demotions each
  count the other admin.
* `editor_drops_edits`, `NothingSilentlyDropped` (`useAutosave.ts:8`): the mishap
  `stale poll` above.

These are stated in the modules and refuted by TLC when a configuration asks for
them:

| property | instance | what happens |
|---|---|---|
| `FinallyReleases` (`agent.py:146`, `test_versions.py:165`, `test_agent.py:122`) | `NoteAgents.cfg` with `Failing = {r1, r2}`, `Spec` | the edit or its version fails on a live note after the lock was borrowed; `locks.release` in the finally clause (`notes.py:312`, `agent.py:177`) meets a Session that waits for a rollback, and raises: the request survives, the lock stays until its TTL. `BorrowedLockGivenBack` is what is left of the promise |
| `NoChangeNoVersion` (`docs/ARCHITECTURE.md:289`, FR-H1) | `NoteService.cfg` | two overlapping ends of a private session both pass `VersionLatest` before either reaches `VersionInsert`, and record the same snapshot twice |
| `PrivateCloseIsOwners` (`notes.py:236-238`) | `NoteService.cfg` | the note is read before the release and its visibility after; when the owner makes it private in between, a member reaches the private branch (`CloseCheck`) and records a version |
| `ExpiredTokensAreSwapped` (`client.ts:113`) | `BoardSession.cfg` | the mishap `stuck` above: a call left by the former member gets its 401 after sign-out; the next member's first expired token then ends their session, although their refresh token is good |
| `OnlyHolderSaves` (FR-L2, `docs/PRD.md:107`) | `NoteService.cfg` | the lock check and the commit of `patch_note` are not one statement: the lock lapses and is taken in between |
| `RestoreLosesNothing` (FR-H4, docstring at `notes.py:278`) | `NoteService.cfg` | a restore overwrites changes that no version has recorded |
| `AgentsWritePublicOnly` (`agent.py:146`) | `NoteAgents.cfg` | an agent's edit lands on a note that has become private |
| `ChangesAttributed` (`docs/PRD.md:197`) | `NoteSessions.cfg` | a takeover of a stale lock records both members' changes under one name |
| `NoStrandedAccount` (E7-S2) | `Accounts.cfg` | an entry is removed while its registration is between its check and its commit |
| `ReleasedOnLeaving` (`useNoteLock.ts`) | `EditorSession.cfg` with `RushBudgets` | an acquisition that answers after the unmount starts the heartbeat again |
| `LooksTheSame` (`RichText.tsx:5`) | `Blocks.cfg` | the card gives a whole paragraph to the inline parser, so that a star of one line pairs with a star of a later one |

### Fairness

* `FairAuditSpec` of `AccountsAudit`: a request that has started goes on
  (`WF(Continue)`: the threadpool runs it), and a waiter of the advisory lock that
  could take it again and again gets it (`SF(RegLock)`: PostgreSQL queues waiters).
  A request need not start, and a mortal one may die instead.
* `FairSpec` of `EditorSession`: the browser runs a timer that is due and the handler
  of an answer that has come, the server serves what reaches it, an unrenewed lock
  expires. Nothing obliges a member to type, to close or to release, and calls are
  lost as the budget allows.

The other specifications have none: they are checked for safety only.

### Mutants

Every property of a passing run is shown able to fail by a variant of one
definition with a plausible bug. The variants stand next to the definition they
vary, marked `Mutant`; nothing in the specifications uses them.

## Proofs

The theorems are about the specifications without bounds on users, requests,
contents, versions or slots, from the named assumptions of the modules alone.

* `LockService_proofs`. The inductive invariant is `TypeOK`, `LockWellFormed`
  and "no call has read a clock later than the real one". The last part is what
  makes late clocks safe: what is stale by an old clock is stale by the real one
  (`LateClockIsSafe`). `NoTakeover`, `SessionStartKept`, `Disjoint` follow from it
  for each step, and `Refinement` maps each step to `Take`, `Drop`, `Lapse` or a
  stutter of the lease. `LockSafety` and `SessionStartKept` state properties that
  no run repeats.
* `NoteService_proofs`. `WritesEntitled` is not inductive by itself. `IInv` adds
  what requests carry (`RequestsOK`: a full snapshot where a version will be made
  of it, the duty to release only where the release is still ahead), that a live
  note has its columns, and that the lock dies with the note. One lemma per
  handler shows its steps preserve `IInv`, on top of lemmas about the shapes a request
  takes (`BeginShape`, `GotoShape`, `FinishShape`). From `IInv`: `TypesKept`,
  `WritersWereEntitled`, `DeletionIsComplete`, the
  action property `BorrowIsTemporary`, and `RootIsTheOwners`, which is inductive
  relative to `IInv`. They hold with requests that die and statements that fail;
  `BorrowIsTemporary` is of a request whose own statements do not, and
  `RootIsTheOwners` of an instance where none does. `VersionsWereReal` adds `StatesInv`: what a request carries
  towards a version, and the live note, are states the note was in.
  `SessionsAnswerForChanges` is about one request at a time that does not die, as the
  property is (its hypotheses are `Reqs = {r}`, `Mortal = {}` and `Failing = {}`), with any users and any
  history; `SessionsInv` says, step by step of the request, what is still to be
  recorded, and that otherwise, with nobody holding the lock, a public latest
  version is the note. With the same hypotheses, `CreditIsTheAuthors` proves the auditor's
  `CreditIsBounded`: `Custody` says who can be at the note (a private note and its
  lock are the owner's alone, the editor of a public one is its holder), and `Debts`
  whose changes are on the note and in no version yet.
* `Accounts_proofs`. A second account can only be bootstrapped by a request that
  holds the advisory lock while the table is empty; the invariant says that such a
  request is the only one past the second look and that the table is empty as
  long as it is. `BootstrapIsUnique` and `TypesKept` follow. Two more follow for
  the audited system: `LastAdminStays` (`AdminUnlessRaced`) counts, for each request past
  the guard of `patch_user`, an administrator that it leaves, and `EntriesOutliveAccounts`
  (`StrandedOnlyByRace`) follows an allowlist entry from the check of a registration
  to its commit.
* `EditorTab_proofs`, `EditorSession_proofs`, `EditorSaves_proofs`: see below.
* `Screens_proofs`, the history page. `RestoreSticks` needs to know that until a mishap
  a restore on its way keeps the member on the page with no save under way, that none
  is still before the server which the page has given up, and that after it the note, the draft and the save are all what was restored
  (`Undisturbed`); the types carry that the selection is a row of the list shown.
* `Screens_proofs`, the import page. `ImportedAsReviewed` rests on: the review is of
  a file it has (`Reviewing`), which is the one picked and analysed unless another was
  picked meanwhile (`OneFile`), a page waits for one call at a time (`OneAtATime`), what
  an import asks for was approved (`Approved`), and an import inserts only what is
  not there (`OnceOnly`), however often it is sent and however late it is served.
* `Screens_proofs`, the administration page. `AdminsRemain` rests on `OneChange`: without two menus open, and
  without a change that the screen has lost sight of (`Calm`), one
  change runs at a time, its load included, no menu is open meanwhile, and once
  the server has counted, some administrator other than the one the change is
  about (or that one, if the change leaves the role) is still there to the commit.
  `SecretsShown` rests on `Secrets`: one token is created at a time, under a dialog
  that waits for it, and only its answer carries the secret; a creation that nobody
  waits for any more has left its mishap behind.
* `Screens_proofs`, the tab. A step of the tab is a step of one screen or leaves it
  alone, so the four invariants hold of `Screens`. `ScreensTyped` adds the types, with
  `Counted` for the numbers of the import page.
* `BoardSession_proofs`: see below.

### The editor

The proofs about `EditorSession` are in three modules, each on top of the one before.
They hold for any number of keystrokes, calls, faults and mishaps: the budgets of the
runs are not in them.

* `EditorTab_proofs` has a lemma per operator on the tab (what it changes, and that it
  changes nothing else), then the base `IBase`: types, the request and the state of each
  call fit its flow, an open page knows its note or is loading it, `saving` is true
  exactly while a save is on its way, only an open editor waits for one. One lemma per
  operator and one per action keep it; `TypesKept` is the result.
* `EditorSession_proofs` first gives the steps a few shapes (`MemberSteps`,
  `RemoteSteps`), which spare the arguments behind it the thirty actions. The lock:
  `LockInv` adds to `MineIsHeld` that the heartbeat runs, that no release is on its way,
  and that a lock granted to an acquisition or to a retry is held although its answer has
  not been heard of yet; `EditorsHoldTheLock`. The end of a session: `LeaveInv` says that
  an editor that waits for its save has nothing newer, that one of a private note
  asks for no lock, and that a closed one is silent, its last save excepted;
  `NoGhosts`.
* `EditorSaves_proofs`. `DraftInv` adds to `KeystrokesKept` that an editor in which nobody
  may type holds nothing that was not openly given up, so that what replaces its
  draft replaces nothing, and that no poll or acquisition is under way while its member
  may type; `NothingTypedIsLost`. `KeepInv` follows a keystroke through a save: with
  `dirty` cleared, it is in what was sent, then in the row; `SavedIsSaved` and
  `ClosedIsSaved`, the latter with `LeaveInv`. `OverInv` is about what others write:
  all that the editor has of it comes from the row, and one that is shown as having
  the lock of a public note, or edits a private one, has all there is (`Informed`).
  The editor of a note that it believes private and is public by now has not: it
  holds no lock, so its save is refused, and whatever brings it the lock tells it
  of the change. With `LockInv` for the open editor and `LeaveInv` for the closed one,
  `NobodyIsOverwritten` proves the action property `NoOverwrite`.

The attempt to prove these corrected the model's account of the code. `KeystrokesKept`
was not inductive with the exceptions it had: the missing case is the mishap
`stale take` above, which needs a lapse, a takeover, a failed save and a refused
acquisition in one behaviour. `NoGhost` failed for a visibility that is switched
while an acquisition of the former session is in flight. Both are now in the
budgets of `editor_session` (the last two kinds that meet).

### The session and the board

`BoardSession_proofs` holds for any members, notes and slots, with any budgets, so for any
number of sessions on the tab, one after the other, with the calls of each still on
their way. Its lemmas about the operators of `SessionClient` say what each leaves
as it was (`...Shape`); every action then has a lemma for the session (`...Step`) and
one for the board (`...Board`).

* The session. `SessionInv` has a part for each thing the tab knows: the two tokens
  are of one member, as is the refresh in flight, and some call waits for it
  (`TokensPaired`); one member signs in at a time, while nobody is signed in
  (`OneSignIn`); a page load that checks its tokens has nothing else under way
  (`NobodyYet`); the tokens are the shown member's (`MemberAgrees`); the lists kept,
  and those on their way, are too (`CacheAgrees`); a repeated call has a fresh token,
  and a 403 is about who is disabled (`Verdicts`); without tokens, or with a refresh that has failed for want of one, only such a
  member is shown, or about to be (`Survivors`). Each part has its own exceptions, the
  mishaps that break it, so that one that spoils the tokens leaves the rest of
  the argument standing. None of the properties is inductive by itself: that
  the cache is nobody else's depends on who sent the calls whose answers fill it,
  and that on whose tokens were in the storage then. Results: `SessionTyped`,
  `NobodySeesAnothersCache`, `RequestsAreTheMembers` and, for the action property
  `SessionSurvives`, `TokensEndNoSession`: an answer that ends a session finds either no
  tokens or a verdict, and the invariant says what either means.
* The board. `BoardSettles` speaks of moments when nothing is in flight. `BoardInv`
  says what holds in between: the list shown is that of the database *foreseen*
  (`Foreseen`: as it will be once the changes in flight are made), or a fetch is on its
  way that will bring it (`Mirrors`, `Coming`). It needs that, but for the mishap `raced`,
  a change is alone in flight (`Alone`), that a list that was fetched is still the
  one of the database when it arrives (`Fresh`), that the changes under way belong to
  the list shown (`Placed`), and that a call is only answered as its kind can be
  (`Sound`). `OrganizedList` is the core of it: what the card
  does to the rows before the server answers is what the server's list will be.
  `BoardShowsWhatThereIs` is the result.

The attempt to prove these corrected the model and its properties. `SessionSurvives`
was not true as it stood: a call of a former member who has been disabled since
ends the session of the next one (`former`), and a repeated call can be overtaken by a
second expiry (`slow`); nor had it excused what happens once a refresh or a
profile change has mixed two sessions. `ActsAsShown` excused everything after a
`blip`, where all that goes wrong is that nobody is shown while the tokens stay. A
refresh in flight is a mishap whenever the tokens are cleared, not only on
leaving. The last three budgets of `board_session` are those that reach these.

### What stays with the model checker

The properties of `Blocks`, its types included: its parsers walk sequences, out of
the prover's reach without induction over data. And liveness (`BootstrapQueueMoves`,
`EditsSettle`, `CloseCloses`, `LockComesFree`), which the prover does not handle. Every
other property of a passing run is a theorem.

## Not modelled

* Reads that change nothing: lists with their search, sort and colours, the history
  view of an agent, profile and language as data.
* The bot user's creation, the resolution of an agent's token and the MCP transport:
  thin wrappers around `agent.py`. The token's revocation is in `AdminScreen`, its
  use by a call already running is not.
* Reading a Keep archive (ZIP, JSON, labels, colours): a pure function of the
  upload.
* The editor's pin and its removal of a note from the board's cache; dragging of
  blocks, the browser's own undo and composed input.
* Backup and restore scripts: shell around `pg_dump` and `aws-cli`, which share
  nothing with the modules but the database they copy.
* Schema and migrations, configuration and wiring, translations, themes, styles,
  the service worker (it caches static assets only): no behaviour over time that
  the modules depend on.
