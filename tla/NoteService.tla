---------------------------- MODULE NoteService ----------------------------
(***************************************************************************)
(* The life of one note under concurrent requests: the REST handlers of    *)
(* api/app/routers/notes.py, the MCP edits of api/app/services/agent.py    *)
(* and the history kept by api/app/services/versions.py.                   *)
(*                                                                         *)
(* Handlers run in a threadpool over PostgreSQL at READ COMMITTED, so a    *)
(* request is a sequence of steps, one per statement or transaction, and   *)
(* what it read earlier may be out of date: the session serves the cached  *)
(* attributes of the note until its own commit expires them, and an UPDATE *)
(* writes only the columns that differ from that cache.  Requests that are *)
(* turned away (404, 403, 409) change nothing and are left out, so a guard *)
(* below is what a handler requires in order to go on.                     *)
(***************************************************************************)
EXTENDS EditLease, SequencesExt, Integers

CONSTANTS Owner,        \* the author of the note
          Admins,       \* members with the admin role
          Agents,       \* identities that come in through MCP (Botou)
          Reqs,         \* request slots of the threadpool
          Mortal,       \* those whose process may die half way
          Failing,      \* those whose statements may fail: a database error, a
                        \* text the database refuses
          Contents,     \* values of title, body and colour taken together
          MaxVersions   \* no version-writing request starts beyond this many

ASSUME UserAssumption ==
    /\ Owner \in Users
    /\ Admins \subseteq Users \ Agents
    /\ Mortal \subseteq Reqs
    /\ Failing \subseteq Reqs
    /\ Agents \subseteq Users
ASSUME ContentAssumption ==
    None \notin Contents \cup {"PRIVATE", "PUBLIC"} /\ MaxVersions \in Nat

VARIABLES row,        \* whether the note's row exists
          note,       \* its content and visibility columns
          history,    \* its versions, oldest first (created_at order)
          req,        \* the running requests
          entitled    \* history variable, see Entitles

noteVars == <<row, note, history>>
vars == <<holder, fresh, row, note, history, req, entitled>>

Members == Users \ Agents
Visibility == {"PRIVATE", "PUBLIC"}
Columns == [content : Contents, vis : Visibility]
\* What a request writes or remembers; None stands for a column left unset.
Partial == [content : Contents \cup {None}, vis : Visibility \cup {None}]
Nothing == [content |-> None, vis |-> None]
\* A root is told from the other versions by its created_at, the note's own.
Version == [author : Users, content : Contents, vis : Visibility, root : BOOLEAN]

Steps == {"idle", "create_refresh", "create_root", "patch_commit", "lock_take",
          "unlock_release", "close_check", "borrow_take", "edit_load",
          "edit_commit", "version_note", "version_latest", "version_insert", "borrow_release",
          "delete_note", "raised"}

Request == [step : Steps, user : Users \cup {None}, cache : Partial, arg : Partial,
            borrowed : BOOLEAN, seen : Nat]
Free == [step |-> "idle", user |-> None, cache |-> Nothing, arg |-> Nothing,
         borrowed |-> FALSE, seen |-> 0]

TypeOK ==
    /\ LeaseTypeOK
    /\ row \in {"absent", "live", "deleted"}
    /\ note \in Partial
    /\ history \in Seq(Version)
    /\ req \in [Reqs -> Request]
    /\ entitled \in [Reqs -> BOOLEAN]

Init ==
    /\ LeaseInit
    /\ row = "absent"
    /\ note = Nothing
    /\ history = <<>>
    /\ req = [r \in Reqs |-> Free]
    /\ entitled = [r \in Reqs |-> FALSE]

----------------------------------------------------------------------------
Live == row = "live"
Public == note.vis = "PUBLIC"

\* Own notes and any member's public ones.
Readable(u) == Live /\ (Public \/ u = Owner)

\* A public note that the caller does not already hold the lock of.
MustBorrow(u) == Public /\ ~Holds(u)

\* The columns an UPDATE writes are those that differ from the cached ones.
Write(arg, cache, column) ==
    IF arg[column] \in {None, cache[column]} THEN note[column] ELSE arg[column]
Updated(arg, cache) == [content |-> Write(arg, cache, "content"),
                        vis     |-> Write(arg, cache, "vis")]

\* A grant that lands after its own TTL is this one followed by Expire.
Grant(u) == Take(u) /\ fresh'

Snapshot(v) == [content |-> v.content, vis |-> v.vis]
Authored(u, cols) ==
    [author |-> u, content |-> cols.content, vis |-> cols.vis, root |-> FALSE]
Root(cols) == [Authored(Owner, cols) EXCEPT !.root = TRUE]

Rooted == history # <<>> /\ history[1].root
\* How many versions there are of sessions.
Sessions == Len(history) - (IF Rooted THEN 1 ELSE 0)

Begin(r, u, step, cache, arg, borrowed) ==
    /\ req[r].step = "idle"
    /\ req' = [req EXCEPT ![r] = [Free EXCEPT !.step = step, !.user = u, !.cache = cache,
                                              !.arg = arg, !.borrowed = borrowed]]

\* The next step, with what it still needs of what the request has read.
Goto(r, step, cache) ==
    req' = [req EXCEPT ![r] = [Free EXCEPT !.step = step, !.user = req[r].user,
                                           !.cache = cache, !.borrowed = req[r].borrowed]]
At(r, step) == req[r].step = step
Finish(r) == req' = [req EXCEPT ![r] = Free]

\* A statement failed and its exception is on the way out, or nobody is left to
\* go on.  The finally clause releases through the same Session, which refuses
\* every statement until a rollback nobody asks for: it raises, the lock stays.
Raise(r) == Goto(r, "raised", Nothing)

\* Mutant: no finally clause.
FinishKeepingLock(r) == Finish(r)

\* A request that borrowed the lock gives it back before it ends.
FinishOrRelease(r) == IF req[r].borrowed THEN Goto(r, "borrow_release", Nothing) ELSE Finish(r)

----------------------------------------------------------------------------
\* create_note, of a member or of an agent, whose notes are always public: the
\* row is committed first, its root version afterwards.
CreateInsert(r, cols) ==
    /\ row = "absent"
    /\ Owner \in Agents => cols.vis = "PUBLIC"
    /\ Begin(r, Owner, "create_refresh", Nothing, Nothing, FALSE)
    /\ row' = "live"
    /\ note' = cols
    /\ UNCHANGED <<holder, fresh, history>>

CreateRefresh(r) ==
    /\ At(r, "create_refresh")
    /\ IF Live
       THEN Goto(r, "create_root", note)
       ELSE Finish(r)
    /\ UNCHANGED <<holder, fresh, noteVars>>

\* Mutant: the root gets the time it is written at, like any other version.
CreateRootNow(r) ==
    /\ At(r, "create_root")
    /\ history' = IF Live THEN Append(history, Root(req[r].cache)) ELSE history
    /\ Finish(r)
    /\ UNCHANGED <<holder, fresh, row, note>>

\* The root carries the note's own created_at, so it sorts before any other
\* version; the insert fails on the foreign key if the note is gone.
CreateRoot(r) ==
    /\ At(r, "create_root")
    /\ history' = IF Live THEN <<Root(req[r].cache)>> \o history ELSE history
    /\ Finish(r)
    /\ UNCHANGED <<holder, fresh, row, note>>

----------------------------------------------------------------------------
\* Mutant: the lock of a public note is not checked.
PatchReadUnlocked(r, u, arg) ==
    /\ Readable(u)
    /\ arg.vis = note.vis \/ u = Owner
    /\ Begin(r, u, "patch_commit", note, arg, FALSE)
    /\ UNCHANGED <<holder, fresh, noteVars>>

\* patch_note: the lock is checked on the row as read here ...  A body that
\* repeats a column's cached value stands for one that leaves the column out,
\* so complete bodies are all the bodies there are.
PatchRead(r, u, arg) ==
    /\ Readable(u)
    /\ arg.vis = note.vis \/ u = Owner
    /\ Public => Holds(u)
    /\ Begin(r, u, "patch_commit", note, arg, FALSE)
    /\ UNCHANGED <<holder, fresh, noteVars>>

\* ... and the UPDATE, WHERE id = ..., does not look at it again.
PatchCommit(r) ==
    /\ At(r, "patch_commit")
    /\ note' = IF Live THEN Updated(req[r].arg, req[r].cache) ELSE note
    /\ Finish(r)
    /\ UNCHANGED <<holder, fresh, row, history>>

----------------------------------------------------------------------------
\* lock_note: read, then the conditional UPDATE of locks.acquire.
LockRead(r, u) ==
    /\ Readable(u)
    /\ Begin(r, u, "lock_take", Nothing, Nothing, FALSE)
    /\ UNCHANGED <<holder, fresh, noteVars>>

LockTake(r) ==
    /\ At(r, "lock_take")
    /\ IF Live /\ CanTake(req[r].user) THEN Grant(req[r].user) ELSE UNCHANGED leaseVars
    /\ Finish(r)
    /\ UNCHANGED noteVars

----------------------------------------------------------------------------
\* unlock_note: read, release in a transaction of its own, then the version.
UnlockRead(r, u) ==
    /\ Readable(u)
    /\ Len(history) < MaxVersions
    /\ Begin(r, u, "unlock_release", Nothing, Nothing, FALSE)
    /\ UNCHANGED <<holder, fresh, noteVars>>

\* Mutant: the session ends without a version.
UnlockReleaseOnly(r) ==
    /\ At(r, "unlock_release")
    /\ IF holder = req[r].user THEN Drop(req[r].user) ELSE UNCHANGED leaseVars
    /\ Finish(r)
    /\ UNCHANGED noteVars

UnlockRelease(r) ==
    /\ At(r, "unlock_release")
    /\ IF holder = req[r].user
       THEN Drop(req[r].user) /\ Goto(r, "version_note", Nothing)
       ELSE UNCHANGED leaseVars /\ Goto(r, "close_check", Nothing)
    /\ UNCHANGED noteVars

\* Nothing was released: the call still ends the session of a private note,
\* as the note is now.
CloseCheck(r) ==
    /\ At(r, "close_check")
    /\ IF Live /\ ~Public
       THEN Goto(r, "version_latest", note)
       ELSE Finish(r)
    /\ UNCHANGED <<holder, fresh, noteVars>>

----------------------------------------------------------------------------
\* Mutant: the note is not read again after the commit expired it.
VersionNoteExpired(r) ==
    /\ At(r, "version_note")
    /\ Goto(r, "version_latest", req[r].cache)
    /\ UNCHANGED <<holder, fresh, noteVars>>

\* record_session_version: read the note, read the latest version, insert.
VersionNote(r) ==
    /\ At(r, "version_note")
    /\ IF Live
       THEN Goto(r, "version_latest", note)
       ELSE FinishOrRelease(r)
    /\ UNCHANGED <<holder, fresh, noteVars>>

VersionLatest(r) ==
    /\ At(r, "version_latest")
    /\ IF history # <<>> /\ Snapshot(Last(history)) = req[r].cache
       THEN FinishOrRelease(r)
       ELSE req' = [req EXCEPT ![r].step = "version_insert", ![r].seen = Sessions]
    /\ UNCHANGED <<holder, fresh, noteVars>>

\* Mutants: the version is credited to the note's owner; its visibility is
\* read again when it is inserted.
VersionByOwner(r) == Authored(Owner, req[r].cache)
VersionTorn(r) == [Authored(req[r].user, req[r].cache) EXCEPT !.vis = note.vis]

NewVersion(r) == Authored(req[r].user, req[r].cache)

\* The version got its created_at when it was made, after the latest one was
\* read, so it may sort before those inserted since.  The foreign key refuses
\* it when the note is gone.
VersionInsert(r) ==
    /\ At(r, "version_insert")
    /\ IF Live
       THEN \E later \in 0..(Sessions - req[r].seen) :
              history' = InsertAt(history, Len(history) + 1 - later, NewVersion(r))
       ELSE UNCHANGED history
    /\ IF Live THEN FinishOrRelease(r) ELSE Raise(r)
    /\ UNCHANGED <<holder, fresh, row, note>>

----------------------------------------------------------------------------
\* restore_version and the agent's update_note share one shape: borrow the
\* lock unless it is already held or the note is private, write, record the
\* version, give the lock back.
BorrowingEdit(r, u, arg) ==
    /\ Readable(u)
    /\ Len(history) < MaxVersions
    /\ IF MustBorrow(u)
       THEN Begin(r, u, "borrow_take", note, arg, TRUE)
       ELSE Begin(r, u, "edit_commit", note, arg, FALSE)
    /\ UNCHANGED <<holder, fresh, noteVars>>

\* A member's restore leaves the visibility alone.
RestoreRead(r, u, v) ==
    BorrowingEdit(r, u, [content |-> v.content,
                         vis     |-> IF u = Owner THEN v.vis ELSE None])

UpdateRead(r, u, c) == BorrowingEdit(r, u, [content |-> c, vis |-> None])

\* The commit of the acquisition expires the cache: columns set before they
\* are read again are written whatever they are.
BorrowTake(r) ==
    /\ At(r, "borrow_take")
    /\ IF Live /\ CanTake(req[r].user)
       THEN /\ Grant(req[r].user)
            /\ req' = [req EXCEPT ![r].cache = Nothing,
                                  ![r].step = IF req[r].user \in Agents THEN "edit_commit"
                                              ELSE "edit_load"]
       ELSE UNCHANGED leaseVars /\ Finish(r)
    /\ UNCHANGED noteVars

\* restore_version sets the content, then looks up the owner, which loads the
\* columns not set yet: the visibility is written only if it differs from that.
EditLoad(r) ==
    /\ At(r, "edit_load")
    /\ IF Live
       THEN req' = [req EXCEPT ![r].step = "edit_commit", ![r].cache.vis = note.vis]
       ELSE FinishOrRelease(r)
    /\ UNCHANGED <<holder, fresh, noteVars>>

\* The UPDATE of a note that is gone matches no row, which fails the flush.
EditCommit(r) ==
    /\ At(r, "edit_commit")
    /\ IF Live
       THEN note' = Updated(req[r].arg, req[r].cache) /\ Goto(r, "version_note", Nothing)
       ELSE UNCHANGED note /\ Raise(r)
    /\ UNCHANGED <<holder, fresh, row, history>>

\* The finally clause.
BorrowRelease(r) ==
    /\ At(r, "borrow_release")
    /\ IF holder = req[r].user THEN Drop(req[r].user) ELSE UNCHANGED leaseVars
    /\ Finish(r)
    /\ UNCHANGED noteVars

----------------------------------------------------------------------------
\* delete_note: one transaction of two statements.  The first deletes the
\* versions it sees; the second fails on the foreign key, and the transaction
\* rolls back, if another version was inserted in between.
DeleteVersions(r, u) ==
    /\ Live
    /\ u = Owner \/ u \in Admins
    /\ req[r].step = "idle"
    /\ req' = [req EXCEPT ![r] = [Free EXCEPT !.step = "delete_note", !.user = u,
                                              !.seen = Len(history)]]
    /\ UNCHANGED <<holder, fresh, noteVars>>

\* Mutant: versions inserted in between do not stop the deletion.
DeleteNoteOnly(r) ==
    /\ At(r, "delete_note")
    /\ IF Live
       THEN /\ row' = "deleted"
            /\ note' = Nothing
            /\ history' = SubSeq(history, req[r].seen + 1, Len(history))
            /\ IF holder = None THEN UNCHANGED leaseVars ELSE Drop(holder)
       ELSE UNCHANGED <<holder, fresh, noteVars>>
    /\ Finish(r)

DeleteNote(r) ==
    /\ At(r, "delete_note")
    /\ IF Live /\ Len(history) = req[r].seen
       THEN /\ row' = "deleted"
            /\ note' = Nothing
            /\ history' = SubSeq(history, req[r].seen + 1, Len(history))
            /\ IF holder = None THEN UNCHANGED leaseVars ELSE Drop(holder)
       ELSE UNCHANGED <<holder, fresh, noteVars>>
    /\ Finish(r)

----------------------------------------------------------------------------
\* The process or its database connection dies between two steps, or a statement
\* or commit fails, whatever the note's state: no later statement of the request
\* happens.  Only one that borrowed the lock leaves a trace of how it ended.
BreakOff(r) ==
    /\ r \in Mortal \cup Failing
    /\ req[r].step \notin {"idle", "raised"}
    /\ IF req[r].borrowed THEN Raise(r) ELSE Finish(r)
    /\ UNCHANGED <<holder, fresh, noteVars>>

Raised(r) ==
    /\ At(r, "raised")
    /\ Finish(r)
    /\ UNCHANGED <<holder, fresh, noteVars>>

Abort(r) == BreakOff(r) \/ Raised(r)

Expire ==
    /\ Lapse
    /\ UNCHANGED <<noteVars, req>>

Start(r) ==
    \/ \E cols \in Columns : CreateInsert(r, cols)
    \/ \E u \in Members :
         \/ \E arg \in Columns : PatchRead(r, u, arg)
         \/ \E i \in 1..Len(history) : RestoreRead(r, u, history[i])
         \/ LockRead(r, u)
         \/ UnlockRead(r, u)
    \/ \E u \in Agents, c \in Contents : UpdateRead(r, u, c)
    \/ \E u \in Users : DeleteVersions(r, u)

Continue(r) ==
    \/ CreateRefresh(r) \/ CreateRoot(r) \/ PatchCommit(r) \/ LockTake(r)
    \/ UnlockRelease(r) \/ CloseCheck(r)
    \/ VersionNote(r) \/ VersionLatest(r) \/ VersionInsert(r)
    \/ BorrowTake(r) \/ EditLoad(r) \/ EditCommit(r) \/ BorrowRelease(r) \/ DeleteNote(r)

\* A request may write while its user holds a fresh lease, or owns the note
\* while it is private.  For a request on its way to a write, the history
\* variable remembers whether that was so at any moment since it started.
Entitles(u) == Live /\ (Holds(u) \/ (~Public /\ u = Owner))
Cleared == {"patch_commit", "edit_load", "edit_commit"}
Writing == Cleared \cup {"borrow_take"}

Remember ==
    entitled' = [r \in Reqs |->
                   /\ req'[r].step \in Writing
                   /\ \E u \in Users : /\ req'[r].user = u
                                       /\ entitled[r] \/ Entitles(u) \/ Entitles(u)']

Next ==
    /\ Expire \/ \E r \in Reqs : Start(r) \/ Continue(r) \/ Abort(r)
    /\ Remember

Spec == Init /\ [][Next]_vars

----------------------------------------------------------------------------
(***************************************************************************)
(* What the single-editor rule (FR-L2) comes to under concurrency: a       *)
(* request about to write content was entitled to at some moment since it  *)
(* started, because its user held a fresh lease or owned the note while it *)
(* was private (patch_note's check, the borrowed lock of restore_version   *)
(* and update_note).                                                       *)
(***************************************************************************)
WritesEntitled ==
    \A r \in Reqs : req[r].step \in Cleared => entitled[r]

(***************************************************************************)
(* A restore or an agent's edit none of whose statements fails does not    *)
(* leave its user holding the lock it borrowed: not after a no-op version, *)
(* not when the note vanished, not when the grant was refused, and however *)
(* the other requests fail or die (the finally clause).                    *)
(***************************************************************************)
BorrowedLockGivenBack ==
    [][\A r \in Reqs :
         req[r].borrowed /\ req'[r].step = "idle" /\ ~At(r, "raised")
           => holder' # req[r].user]_vars

(***************************************************************************)
(* Once the creation has ended, the oldest version of a live note is its   *)
(* owner's (the "created by" root of versions.creation_snapshot), even if  *)
(* another member edited the note before the root was written.  Only for   *)
(* processes that survive and statements that succeed.                     *)
(***************************************************************************)
Creating == \E r \in Reqs : req[r].step \in {"create_refresh", "create_root"}

RootIsOwners ==
    Live /\ ~Creating /\ Mortal = {} /\ Failing = {} => Rooted /\ history[1].author = Owner

(***************************************************************************)
(* A deleted note takes its whole history along, and no request still in   *)
(* flight brings a version back (delete_note).                             *)
(***************************************************************************)
NoOrphanVersions == ~Live => history = <<>>

Quiet == \A r \in Reqs : req[r].step = "idle"

(***************************************************************************)
(* One request at a time, the changes made to a public note since its last *)
(* public version always have a session that answers for them: somebody    *)
(* still is the lock's holder, if only a stale one, and whoever holds it   *)
(* next will record them when letting go.                                  *)
(***************************************************************************)
SessionsStayOpen ==
    Live /\ Quiet /\ history # <<>> =>
      (Public /\ Last(history).vis = "PUBLIC" /\ note.content # Last(history).content => holder # None)

----------------------------------------------------------------------------
\* What the documents, comments and tests say and the code does not keep when
\* requests overlap or fail.  TLC refutes each; README.md tells how.

(***************************************************************************)
(* "The restore did not leave a lock behind" (tests/test_versions.py),     *)
(* "the borrowed lock was released" (tests/test_agent.py): whatever        *)
(* happens in the try block, the finally clause gives the lock back, as    *)
(* long as the process survives.                                           *)
(***************************************************************************)
FinallyReleases ==
    [][\A r \in Reqs \ Mortal :
         req[r].borrowed /\ req'[r].step = "idle" => holder' # req[r].user]_vars

(***************************************************************************)
(* "A session that changed nothing records no version"                     *)
(* (docs/ARCHITECTURE.md, FR-H1): what record_session_version inserts      *)
(* differs from the latest version at that moment, not only from the one   *)
(* it compared with, however the ends of sessions overlap.                 *)
(***************************************************************************)
NoChangeNoVersion ==
    [][\A r \in Reqs :
         At(r, "version_insert") /\ history' # history /\ history # <<>>
           => Snapshot(Last(history)) # req[r].cache]_vars

(***************************************************************************)
(* "The note is private (readable => owner)" (unlock_note): a call that    *)
(* released nothing ends the session of a private note for its owner only. *)
(***************************************************************************)
PrivateCloseIsOwners ==
    [][\A r \in Reqs :
         At(r, "close_check") /\ req'[r].step = "version_latest"
           => req[r].user = Owner]_vars

(***************************************************************************)
(* FR-L2, word for word: only the lock holder can save changes to a public *)
(* note.                                                                   *)
(***************************************************************************)
OnlyHolderSaves ==
    [][\A r \in Reqs :
         At(r, "patch_commit") /\ note' # note /\ Public /\ Live'
           => holder = req[r].user]_vars

(***************************************************************************)
(* update_note edits public notes: an agent never writes the content of a  *)
(* note that is private when it writes.                                    *)
(***************************************************************************)
AgentsWritePublicOnly ==
    [][\A r \in Reqs :
         At(r, "edit_commit") /\ req[r].user \in Agents /\ Live /\ note' # note
           => Public]_vars

(***************************************************************************)
(* FR-H4, "nothing is ever overwritten": the content a restore replaces is *)
(* in the history, so that it can itself be restored.                      *)
(***************************************************************************)
RestoreLosesNothing ==
    [][\A r \in Reqs :
         /\ At(r, "edit_commit") /\ req[r].user \in Members
         /\ note'.content # note.content /\ Live'
         => \E i \in 1..Len(history) : history[i].content = note.content]_vars
============================================================================
