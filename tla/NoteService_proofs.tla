------------------------- MODULE NoteService_proofs -------------------------
(***************************************************************************)
(* Proofs about NoteService for any members and agents, any contents, any  *)
(* number of concurrent requests, any of which may die or fail.  Two       *)
(* theorems at the end are about one request at a time, as the properties  *)
(* are that they prove.                                                    *)
(***************************************************************************)
EXTENDS NoteStates, NoteAudit, TLAPS

\* An abbreviation of three steps, expanded everywhere.
USE DEF Cleared

----------------------------------------------------------------------------
(***************************************************************************)
(* The inductive invariant.                                                *)
(***************************************************************************)
\* The columns of a live note are set.
NoteTyped == Live => note \in Columns

\* What a request carries: a user, a full snapshot where a version is to be
\* made of it, and the duty to release only where the release is still ahead.
RequestOK(q) ==
    /\ q.step # "idle" => q.user \in Users
    /\ q.step \in {"create_root", "version_latest", "version_insert"} => q.cache \in Columns
    /\ q.borrowed => q.step \in {"borrow_take", "edit_load", "edit_commit", "version_note",
                                 "version_latest", "version_insert", "borrow_release", "raised"}

RequestsOK == \A r \in Reqs : RequestOK(req[r])

\* The lock is on the note's row and goes with it.
LockDiesWithNote == ~Live => holder = None

IInv == TypeOK /\ NoteTyped /\ RequestsOK /\ LockDiesWithNote
          /\ WritesEntitled /\ NoOrphanVersions

----------------------------------------------------------------------------
(***************************************************************************)
(* The history variable: what Remember makes of one request.               *)
(***************************************************************************)
LEMMA EntitledGained ==
  ASSUME Remember, NEW r \in Reqs, NEW u \in Users, req'[r].user = u,
         req'[r].step \in Writing, entitled[r] \/ Entitles(u) \/ Entitles(u)'
  PROVE  entitled'[r]
BY DEF Remember

(***************************************************************************)
(* A step replaces one request.  If the new one is in order and, where it  *)
(* is about to write, is entitled to, then so are all the requests.        *)
(***************************************************************************)
LEMMA OneRequest ==
  ASSUME IInv, Remember, NEW r \in Reqs, NEW new \in Request,
         req' = [req EXCEPT ![r] = new], RequestOK(new),
         new.step \in Cleared => entitled'[r]
  PROVE  /\ req' \in [Reqs -> Request]
         /\ entitled' \in [Reqs -> BOOLEAN]
         /\ RequestsOK'
         /\ WritesEntitled'
<1>1. req' \in [Reqs -> Request]
  BY DEF IInv, TypeOK
<1>2. entitled' \in [Reqs -> BOOLEAN]
  BY DEF Remember
<1>3. req'[r] = new /\ \A q \in Reqs : q # r => req'[q] = req[q]
  BY DEF IInv, TypeOK
<1>4. ASSUME NEW q \in Reqs PROVE RequestOK(req'[q])
  BY <1>3 DEF IInv, RequestsOK
<1>5. ASSUME NEW q \in Reqs, req'[q].step \in Cleared
      PROVE  entitled'[q]
  <2>1. CASE q = r
    BY <1>3, <1>5, <2>1
  <2>2. CASE q # r
    <3>1. req'[q] = req[q]
      BY <1>3, <2>2
    <3>2. entitled[q] /\ req[q].user \in Users
      BY <1>5, <3>1 DEF IInv, WritesEntitled, RequestsOK, RequestOK
    <3>3. req'[q].step \in Writing
      BY <1>5 DEF Writing
    <3>4. QED
      BY <3>1, <3>2, <3>3, EntitledGained
  <2>3. QED
    BY <2>1, <2>2
<1>6. QED
  BY <1>1, <1>2, <1>4, <1>5 DEF RequestsOK, RequestOK, WritesEntitled

(***************************************************************************)
(* An UPDATE leaves full columns.                                          *)
(***************************************************************************)
LEMMA UpdatedTyped ==
  ASSUME note \in Columns, NEW arg \in Partial, NEW cache \in Partial
  PROVE  Updated(arg, cache) \in Columns
BY DEF Columns, Partial, Updated, Write

LEMMA AuthoredTyped ==
  ASSUME NEW u \in Users, NEW cols \in Columns
  PROVE  Authored(u, cols) \in Version
BY DEF Authored, Version, Columns

LEMMA RootTyped ==
  ASSUME NEW cols \in Columns
  PROVE  Root(cols) \in Version /\ Root(cols).root /\ Root(cols).author = Owner
BY AuthoredTyped, UserAssumption DEF Root, Authored, Version

(***************************************************************************)
(* A version inserted into the history leaves the other ones in it, and a  *)
(* root where it was.                                                      *)
(***************************************************************************)
LEMMA InsertTyped ==
  ASSUME NEW s \in Seq(Version), NEW v \in Version, NEW i \in 1..(Len(s) + 1)
  PROVE  /\ InsertAt(s, i, v) \in Seq(Version)
         /\ InsertAt(s, i, v) # <<>>
         /\ i > 1 => InsertAt(s, i, v)[1] = s[1]
<1>1. SubSeq(s, 1, i - 1) \in Seq(Version) /\ Len(SubSeq(s, 1, i - 1)) = i - 1
  OBVIOUS
<1>2. SubSeq(s, i, Len(s)) \in Seq(Version)
  OBVIOUS
<1>3. i > 1 => SubSeq(s, 1, i - 1)[1] = s[1]
  OBVIOUS
<1> DEFINE front == SubSeq(s, 1, i - 1)
           back == SubSeq(s, i, Len(s))
<1>4. InsertAt(s, i, v) = front \o <<v>> \o back
  BY DEF InsertAt
<1> HIDE DEF front, back
<1>5. front \in Seq(Version) /\ back \in Seq(Version) /\ Len(front) = i - 1
  BY <1>1, <1>2 DEF front, back
<1>6. /\ front \o <<v>> \in Seq(Version)
      /\ Len(front \o <<v>>) = i
      /\ i > 1 => (front \o <<v>>)[1] = front[1]
  BY <1>5
<1> DEFINE start == front \o <<v>>
<1> HIDE DEF start
<1>7. start \in Seq(Version) /\ Len(start) = i /\ (i > 1 => start[1] = front[1])
  BY <1>6 DEF start
<1>8. start \o back \in Seq(Version) /\ start \o back # <<>> /\ (start \o back)[1] = start[1]
  BY <1>5, <1>7
<1>9. QED
  BY <1>3, <1>4, <1>7, <1>8 DEF start, front

(***************************************************************************)
(* Where a new version can go: after the root.                             *)
(***************************************************************************)
LEMMA InsertedAfterRoot ==
  ASSUME TypeOK, NEW r \in Reqs, NEW later \in 0..(Sessions - req[r].seen)
  PROVE  /\ Len(history) + 1 - later \in 1..(Len(history) + 1)
         /\ Rooted => Len(history) + 1 - later > 1
<1>1. req[r].seen \in Nat /\ Len(history) \in Nat /\ history \in Seq(Version)
  BY DEF TypeOK, Request
<1>2. Rooted => Len(history) >= 1
  BY <1>1 DEF Rooted
<1>3. QED
  BY <1>1, <1>2 DEF Sessions

LEMMA Constants ==
  /\ Owner \in Users
  /\ Members \subseteq Users /\ Agents \subseteq Users /\ Admins \subseteq Users
  /\ None \notin Users
  /\ Columns \subseteq Partial
  /\ Nothing \in Partial
BY UserAssumption, NoneAssumption DEF Members, Columns, Partial, Nothing

(***************************************************************************)
(* The shapes a request takes.                                             *)
(***************************************************************************)
LEMMA FreeOK == Free \in Request /\ RequestOK(Free) /\ Free.step = "idle"
BY Constants DEF Free, Request, Steps, RequestOK

LEMMA BeginShape ==
  ASSUME IInv, NEW r \in Reqs, NEW u \in Users, NEW step \in Steps, NEW cache \in Partial,
         NEW arg \in Partial, NEW borrowed \in BOOLEAN,
         step \notin {"create_root", "version_latest", "version_insert"},
         borrowed => step = "borrow_take",
         Begin(r, u, step, cache, arg, borrowed)
  PROVE  \E new \in Request :
           /\ req' = [req EXCEPT ![r] = new]
           /\ RequestOK(new)
           /\ new.step = step /\ new.user = u
<1> DEFINE new == [Free EXCEPT !.step = step, !.user = u, !.cache = cache,
                               !.arg = arg, !.borrowed = borrowed]
<1>1. new \in Request /\ RequestOK(new) /\ new.step = step /\ new.user = u
  BY Constants DEF Free, Request, RequestOK
<1>2. QED
  BY <1>1 DEF Begin

LEMMA GotoShape ==
  ASSUME IInv, NEW r \in Reqs, req[r].step # "idle", NEW step \in Steps, NEW cache \in Partial,
         step \in {"create_root", "version_latest", "version_insert"} => cache \in Columns,
         req[r].borrowed => step \in {"version_note", "version_latest", "version_insert",
                                      "borrow_release", "raised"},
         Goto(r, step, cache)
  PROVE  \E new \in Request :
           /\ req' = [req EXCEPT ![r] = new]
           /\ RequestOK(new)
           /\ new.step = step
<1> DEFINE new == [Free EXCEPT !.step = step, !.user = req[r].user,
                               !.cache = cache, !.borrowed = req[r].borrowed]
<1>1. req[r].user \in Users /\ req[r].borrowed \in BOOLEAN
  BY DEF IInv, TypeOK, Request, RequestsOK, RequestOK
<1>2. new \in Request /\ RequestOK(new) /\ new.step = step
  BY <1>1, Constants DEF Free, Request, RequestOK
<1>3. QED
  BY <1>2 DEF Goto

LEMMA FinishShape ==
  ASSUME IInv, NEW r \in Reqs, req[r].step # "idle", Finish(r) \/ FinishOrRelease(r)
  PROVE  \E new \in Request :
           /\ req' = [req EXCEPT ![r] = new]
           /\ RequestOK(new)
           /\ new.step \in {"idle", "borrow_release"}
<1>1. CASE Finish(r)
  BY <1>1, FreeOK DEF Finish
<1>2. CASE Goto(r, "borrow_release", Nothing)
  BY <1>2, GotoShape, Constants DEF Steps
<1>3. QED
  BY <1>1, <1>2 DEF FinishOrRelease

----------------------------------------------------------------------------
(***************************************************************************)
(* Putting the conjuncts together after a step of one request.             *)
(***************************************************************************)
\* The part of the invariant that is about the note and its lock.
RowOK == /\ LeaseTypeOK
         /\ row \in {"absent", "live", "deleted"}
         /\ note \in Partial
         /\ history \in Seq(Version)
         /\ NoteTyped /\ LockDiesWithNote /\ NoOrphanVersions

LEMMA Assemble ==
  ASSUME IInv, Remember, RowOK', NEW r \in Reqs,
         \E new \in Request :
           /\ req' = [req EXCEPT ![r] = new]
           /\ RequestOK(new)
           /\ new.step \in Cleared => entitled'[r]
  PROVE  IInv'
<1>1. /\ req' \in [Reqs -> Request]
      /\ entitled' \in [Reqs -> BOOLEAN]
      /\ RequestsOK'
      /\ WritesEntitled'
  BY OneRequest
<1>2. QED
  BY <1>1 DEF IInv, RowOK, TypeOK

LEMMA RowKept ==
  ASSUME IInv, UNCHANGED <<holder, fresh, noteVars>>
  PROVE  RowOK'
BY DEF IInv, RowOK, TypeOK, LeaseTypeOK, NoteTyped, LockDiesWithNote, NoOrphanVersions,
       noteVars, Live

(***************************************************************************)
(* The first step of every request but a creation and a deletion.          *)
(***************************************************************************)
LEMMA BeginOK ==
  ASSUME IInv, Remember, UNCHANGED <<holder, fresh, noteVars>>, NEW r \in Reqs,
         NEW u \in Users, NEW step \in Steps, NEW cache \in Partial, NEW arg \in Partial,
         NEW borrowed \in BOOLEAN,
         step \notin {"create_root", "version_latest", "version_insert"},
         borrowed => step = "borrow_take",
         step \in Cleared => Entitles(u),
         Begin(r, u, step, cache, arg, borrowed)
  PROVE  IInv'
<1>1. PICK new \in Request : /\ req' = [req EXCEPT ![r] = new]
                             /\ RequestOK(new)
                             /\ new.step = step /\ new.user = u
  BY BeginShape
<1>2. req'[r] = new
  BY <1>1 DEF IInv, TypeOK
<1>3. new.step \in Cleared => entitled'[r]
  BY <1>1, <1>2, EntitledGained DEF Writing
<1>4. QED
  BY <1>1, <1>3, RowKept, Assemble

(***************************************************************************)
(* A step that ends a request or sends it somewhere other than a write.    *)
(***************************************************************************)
LEMMA GotoOK ==
  ASSUME IInv, Remember, RowOK', NEW r \in Reqs, req[r].step # "idle",
         NEW step \in Steps \ Cleared, NEW cache \in Partial,
         step \in {"create_root", "version_latest", "version_insert"} => cache \in Columns,
         req[r].borrowed => step \in {"version_note", "version_latest", "version_insert",
                                      "borrow_release", "raised"},
         Goto(r, step, cache)
  PROVE  IInv'
<1>1. PICK new \in Request : /\ req' = [req EXCEPT ![r] = new]
                             /\ RequestOK(new)
                             /\ new.step = step
  BY GotoShape
<1>2. QED
  BY <1>1, Assemble

LEMMA FinishOK ==
  ASSUME IInv, Remember, RowOK', NEW r \in Reqs, req[r].step # "idle",
         Finish(r) \/ FinishOrRelease(r)
  PROVE  IInv'
<1>1. PICK new \in Request : /\ req' = [req EXCEPT ![r] = new]
                             /\ RequestOK(new)
                             /\ new.step \in {"idle", "borrow_release"}
  BY FinishShape
<1>2. QED
  BY <1>1, Assemble

LEMMA RaiseOK ==
  ASSUME IInv, Remember, RowOK', NEW r \in Reqs, req[r].step # "idle", Raise(r)
  PROVE  IInv'
BY GotoOK, Constants DEF Raise, Steps

----------------------------------------------------------------------------
(***************************************************************************)
(* One lemma per group of handlers.                                        *)
(***************************************************************************)
LEMMA CreateOK ==
  ASSUME IInv, Remember, NEW r \in Reqs,
         \/ \E cols \in Columns : CreateInsert(r, cols)
         \/ CreateRefresh(r) \/ CreateRoot(r)
  PROVE  IInv'
<1>1. ASSUME NEW cols \in Columns, CreateInsert(r, cols) PROVE IInv'
  <2>1. RowOK'
    BY <1>1, Constants
    DEF CreateInsert, IInv, RowOK, TypeOK, LeaseTypeOK, NoteTyped, LockDiesWithNote,
        NoOrphanVersions, Live
  <2> DEFINE new == [Free EXCEPT !.step = "create_refresh", !.user = Owner, !.cache = Nothing,
                                 !.arg = Nothing, !.borrowed = FALSE]
  <2>2. new \in Request /\ RequestOK(new) /\ new.step = "create_refresh"
    BY Constants DEF Free, Request, RequestOK, Steps
  <2>3. req' = [req EXCEPT ![r] = new]
    BY <1>1 DEF CreateInsert, Begin
  <2>4. QED
    BY <2>1, <2>2, <2>3, Assemble
<1>2. CASE CreateRefresh(r)
  <2>1. RowOK' /\ req[r].step = "create_refresh"
    BY <1>2, RowKept DEF CreateRefresh, At
  <2>2. CASE Live
    <3>1. Goto(r, "create_root", note) /\ note \in Columns /\ ~req[r].borrowed
      BY <1>2, <2>1, <2>2 DEF CreateRefresh, IInv, NoteTyped, RequestsOK, RequestOK
    <3>2. QED
      BY <2>1, <3>1, GotoOK, Constants DEF Steps
  <2>3. CASE ~Live
    BY <1>2, <2>1, <2>3, FinishOK DEF CreateRefresh
  <2>4. QED
    BY <2>2, <2>3
<1>3. CASE CreateRoot(r)
  <2>1. req[r].step = "create_root" /\ req[r].cache \in Columns
    BY <1>3 DEF CreateRoot, At, IInv, RequestsOK, RequestOK
  <2>2. Root(req[r].cache) \in Version
    BY <2>1, RootTyped
  <2>3. history' \in Seq(Version) /\ (~Live => history' = history)
    BY <1>3, <2>2 DEF CreateRoot, IInv, TypeOK
  <2>4. RowOK'
    BY <1>3, <2>3
    DEF CreateRoot, IInv, RowOK, TypeOK, LeaseTypeOK, NoteTyped, LockDiesWithNote,
        NoOrphanVersions, Live
  <2>5. QED
    BY <1>3, <2>1, <2>4, FinishOK DEF CreateRoot
<1>4. QED
  BY <1>1, <1>2, <1>3

(***************************************************************************)
(* What patch_note's check establishes: the caller may write.              *)
(***************************************************************************)
LEMMA PatchOK ==
  ASSUME IInv, Remember, NEW r \in Reqs,
         \/ \E u \in Members, arg \in Columns : PatchRead(r, u, arg)
         \/ PatchCommit(r)
  PROVE  IInv'
<1>1. ASSUME NEW u \in Members, NEW arg \in Columns, PatchRead(r, u, arg) PROVE IInv'
  <2>1. Entitles(u)
    BY <1>1 DEF PatchRead, Readable, Entitles
  <2>2. note \in Partial /\ u \in Users /\ arg \in Partial
    BY Constants DEF IInv, TypeOK
  <2>3. Begin(r, u, "patch_commit", note, arg, FALSE) /\ UNCHANGED <<holder, fresh, noteVars>>
    BY <1>1 DEF PatchRead
  <2>4. "patch_commit" \in Steps
    BY DEF Steps
  <2>5. QED
    BY <2>1, <2>2, <2>3, <2>4, BeginOK
<1>2. CASE PatchCommit(r)
  <2>1. req[r].step = "patch_commit" /\ req[r].arg \in Partial /\ req[r].cache \in Partial
    BY <1>2 DEF PatchCommit, At, IInv, TypeOK, Request
  <2>2. RowOK'
    BY <1>2, <2>1, UpdatedTyped, Constants
    DEF PatchCommit, IInv, RowOK, TypeOK, LeaseTypeOK, NoteTyped, LockDiesWithNote,
        NoOrphanVersions, Live
  <2>3. QED
    BY <1>2, <2>1, <2>2, FinishOK DEF PatchCommit
<1>3. QED
  BY <1>1, <1>2

(***************************************************************************)
(* A change of the lock alone leaves the rest of the row as it was.        *)
(***************************************************************************)
LEMMA LockMoves ==
  ASSUME IInv, UNCHANGED noteVars, LeaseTypeOK', ~Live => holder' = None
  PROVE  RowOK'
BY DEF IInv, RowOK, TypeOK, NoteTyped, LockDiesWithNote, NoOrphanVersions, noteVars, Live

LEMMA LockOK ==
  ASSUME IInv, Remember, NEW r \in Reqs,
         \/ \E u \in Members : LockRead(r, u)
         \/ LockTake(r)
  PROVE  IInv'
<1>1. ASSUME NEW u \in Members, LockRead(r, u) PROVE IInv'
  BY <1>1, BeginOK, Constants DEF LockRead, Steps
<1>2. CASE LockTake(r)
  <2>1. req[r].step = "lock_take" /\ req[r].user \in Users
    BY <1>2 DEF LockTake, At, IInv, RequestsOK, RequestOK
  <2>2. RowOK'
    BY <1>2, <2>1, LockMoves
    DEF LockTake, Grant, Take, IInv, TypeOK, LeaseTypeOK, leaseVars, LockDiesWithNote
  <2>3. QED
    BY <1>2, <2>1, <2>2, FinishOK DEF LockTake
<1>3. QED
  BY <1>1, <1>2

LEMMA UnlockOK ==
  ASSUME IInv, Remember, NEW r \in Reqs,
         \/ \E u \in Members : UnlockRead(r, u)
         \/ UnlockRelease(r) \/ CloseCheck(r)
  PROVE  IInv'
<1>1. ASSUME NEW u \in Members, UnlockRead(r, u) PROVE IInv'
  BY <1>1, BeginOK, Constants DEF UnlockRead, Steps
<1>2. CASE UnlockRelease(r)
  <2>1. req[r].step = "unlock_release" /\ ~req[r].borrowed
    BY <1>2 DEF UnlockRelease, At, IInv, RequestsOK, RequestOK
  <2>2. RowOK'
    BY <1>2, LockMoves
    DEF UnlockRelease, Drop, IInv, TypeOK, LeaseTypeOK, leaseVars, LockDiesWithNote
  <2>3. Goto(r, "version_note", Nothing) \/ Goto(r, "close_check", Nothing)
    BY <1>2 DEF UnlockRelease
  <2>4. QED
    BY <2>1, <2>2, <2>3, GotoOK, Constants DEF Steps
<1>3. CASE CloseCheck(r)
  <2>1. RowOK' /\ req[r].step = "close_check" /\ ~req[r].borrowed
    BY <1>3, RowKept DEF CloseCheck, At, IInv, RequestsOK, RequestOK
  <2>2. Finish(r) \/ (Live /\ Goto(r, "version_latest", note))
    BY <1>3 DEF CloseCheck
  <2>3. Live => note \in Columns
    BY DEF IInv, NoteTyped
  <2>4. QED
    BY <2>1, <2>2, <2>3, FinishOK, GotoOK, Constants DEF Steps
<1>4. QED
  BY <1>1, <1>2, <1>3

(***************************************************************************)
(* record_session_version.                                                 *)
(***************************************************************************)
LEMMA VersionOK ==
  ASSUME IInv, Remember, NEW r \in Reqs,
         VersionNote(r) \/ VersionLatest(r) \/ VersionInsert(r)
  PROVE  IInv'
<1>1. CASE VersionNote(r)
  <2>1. RowOK' /\ req[r].step = "version_note"
    BY <1>1, RowKept DEF VersionNote, At
  <2>2. FinishOrRelease(r) \/ (Live /\ Goto(r, "version_latest", note))
    BY <1>1 DEF VersionNote
  <2>3. Live => note \in Columns
    BY DEF IInv, NoteTyped
  <2>4. QED
    BY <2>1, <2>2, <2>3, FinishOK, GotoOK, Constants DEF Steps
<1>2. CASE VersionLatest(r)
  <2>1. RowOK' /\ req[r].step = "version_latest" /\ req[r].cache \in Columns
    BY <1>2, RowKept DEF VersionLatest, At, IInv, RequestsOK, RequestOK
  <2>2. CASE FinishOrRelease(r)
    BY <2>1, <2>2, FinishOK
  <2>3. CASE ~FinishOrRelease(r)
    <3> DEFINE new == [req[r] EXCEPT !.step = "version_insert", !.seen = Sessions]
    <3>1. req[r] \in Request /\ RequestOK(req[r]) /\ req \in [Reqs -> Request]
      BY DEF IInv, TypeOK, RequestsOK
    <3>2. Sessions \in Nat
      BY DEF IInv, TypeOK, Sessions, Rooted
    <3>3. new \in Request /\ RequestOK(new) /\ new.step = "version_insert"
      BY <2>1, <3>1, <3>2 DEF Request, RequestOK, Steps
    <3>4. req' = [req EXCEPT ![r] = new]
      BY <1>2, <2>3, <3>1 DEF VersionLatest, Request
    <3>5. QED
      BY <2>1, <3>3, <3>4, Assemble
  <2>4. QED
    BY <2>2, <2>3
<1>3. CASE VersionInsert(r)
  <2>1. /\ req[r].step = "version_insert"
        /\ req[r].cache \in Columns /\ req[r].user \in Users
    BY <1>3 DEF VersionInsert, At, IInv, RequestsOK, RequestOK
  <2>2. NewVersion(r) \in Version
    BY <2>1, AuthoredTyped DEF NewVersion
  <2>3. history' \in Seq(Version) /\ (~Live => history' = history)
    <3>1. CASE Live
      <4>1. PICK later \in 0..(Sessions - req[r].seen) :
              history' = InsertAt(history, Len(history) + 1 - later, NewVersion(r))
        BY <1>3, <3>1 DEF VersionInsert
      <4>2. QED
        BY <2>2, <3>1, <4>1, InsertTyped, InsertedAfterRoot DEF IInv, TypeOK
    <3>2. QED
      BY <1>3, <3>1 DEF VersionInsert, IInv, TypeOK
  <2>4. RowOK'
    BY <1>3, <2>3
    DEF VersionInsert, IInv, RowOK, TypeOK, LeaseTypeOK, NoteTyped, LockDiesWithNote,
        NoOrphanVersions, Live
  <2>5. QED
    BY <1>3, <2>1, <2>4, FinishOK, RaiseOK DEF VersionInsert
<1>4. QED
  BY <1>1, <1>2, <1>3

(***************************************************************************)
(* restore_version and update_note: the lock is borrowed, or held, or the  *)
(* note is the caller's private one, before anything is written.           *)
(***************************************************************************)
LEMMA BorrowingOK ==
  ASSUME IInv, Remember, NEW r \in Reqs, NEW u \in Users, NEW arg \in Partial,
         BorrowingEdit(r, u, arg)
  PROVE  IInv'
<1>1. /\ note \in Partial /\ {"borrow_take", "edit_commit"} \subseteq Steps
      /\ UNCHANGED <<holder, fresh, noteVars>>
  BY DEF IInv, TypeOK, Steps, BorrowingEdit
<1>2. CASE MustBorrow(u)
  <2>1. Begin(r, u, "borrow_take", note, arg, TRUE)
    BY <1>2 DEF BorrowingEdit
  <2>2. QED
    BY <1>1, <2>1, BeginOK
<1>3. CASE ~MustBorrow(u)
  <2>1. Begin(r, u, "edit_commit", note, arg, FALSE) /\ Entitles(u)
    BY <1>3 DEF BorrowingEdit, MustBorrow, Readable, Entitles
  <2>2. QED
    BY <1>1, <2>1, BeginOK
<1>4. QED
  BY <1>2, <1>3

LEMMA BorrowTakeOK ==
  ASSUME IInv, Remember, NEW r \in Reqs, BorrowTake(r)
  PROVE  IInv'
<1>1. /\ req[r].step = "borrow_take" /\ req[r].user \in Users
      /\ req[r] \in Request /\ RequestOK(req[r])
  BY DEF BorrowTake, At, IInv, TypeOK, RequestsOK, RequestOK
<1>2. RowOK'
  BY <1>1, LockMoves
  DEF BorrowTake, Grant, Take, IInv, TypeOK, LeaseTypeOK, leaseVars, LockDiesWithNote
<1>3. CASE Live /\ CanTake(req[r].user)
  <2> DEFINE step == IF req[r].user \in Agents THEN "edit_commit" ELSE "edit_load"
             new == [req[r] EXCEPT !.step = step, !.cache = Nothing]
  <2>1. new \in Request /\ RequestOK(new)
    BY <1>1, Constants DEF Request, RequestOK, Steps
  <2>2. req' = [req EXCEPT ![r] = new]
    BY <1>1, <1>3 DEF BorrowTake, IInv, TypeOK, Request
  <2>3. req'[r].user = req[r].user /\ req'[r].step \in Writing
    BY <1>1, <2>2 DEF IInv, TypeOK, Writing, Request
  <2>5. entitled'[r]
    <3>1. PICK u \in Users : u = req[r].user
      BY <1>1
    <3>2. Entitles(u)'
      BY <1>3, <3>1 DEF BorrowTake, Grant, Take, noteVars, Entitles, Holds, Live
    <3>3. QED
      BY <2>3, <3>1, <3>2, EntitledGained
  <2>6. QED
    BY <1>2, <2>1, <2>2, <2>5, Assemble
<1>4. CASE ~(Live /\ CanTake(req[r].user))
  <2>1. Finish(r)
    BY <1>4 DEF BorrowTake
  <2>2. QED
    BY <1>1, <1>2, <2>1, FinishOK
<1>5. QED
  BY <1>3, <1>4

LEMMA EditLoadOK ==
  ASSUME IInv, Remember, NEW r \in Reqs, EditLoad(r)
  PROVE  IInv'
<1>1. /\ req[r].step = "edit_load" /\ req[r].user \in Users
      /\ req[r] \in Request /\ RequestOK(req[r]) /\ RowOK'
  BY RowKept DEF EditLoad, At, IInv, TypeOK, RequestsOK, RequestOK
<1>2. CASE Live
  <2> DEFINE new == [req[r] EXCEPT !.step = "edit_commit", !.cache.vis = note.vis]
  <2>1. note.vis \in Visibility
    BY <1>2 DEF IInv, NoteTyped, Columns
  <2>2. new.cache \in Partial
    BY <1>1, <2>1 DEF Request, Partial
  <2>3. new \in Request /\ RequestOK(new)
    BY <1>1, <2>2 DEF Request, RequestOK, Steps
  <2>4. req' = [req EXCEPT ![r] = new]
    BY <1>1, <1>2 DEF EditLoad, IInv, TypeOK, Request
  <2>5. req'[r].user = req[r].user /\ req'[r].step \in Writing
    BY <1>1, <2>4 DEF IInv, TypeOK, Writing, Request
  <2>6. entitled'[r]
    BY <1>1, <2>5, EntitledGained DEF IInv, WritesEntitled, Cleared
  <2>7. QED
    BY <1>1, <2>3, <2>4, <2>6, Assemble
<1>3. CASE ~Live
  BY <1>1, <1>3, FinishOK DEF EditLoad
<1>4. QED
  BY <1>2, <1>3

LEMMA EditCommitOK ==
  ASSUME IInv, Remember, NEW r \in Reqs, EditCommit(r)
  PROVE  IInv'
<1>1. req[r].step = "edit_commit" /\ req[r].arg \in Partial /\ req[r].cache \in Partial
  BY DEF EditCommit, At, IInv, TypeOK, Request
<1>2. RowOK'
  BY <1>1, UpdatedTyped, Constants
  DEF EditCommit, IInv, RowOK, TypeOK, LeaseTypeOK, NoteTyped, LockDiesWithNote,
      NoOrphanVersions, Live
<1>3. Goto(r, "version_note", Nothing) \/ Raise(r)
  BY DEF EditCommit
<1>4. QED
  BY <1>1, <1>2, <1>3, GotoOK, RaiseOK, Constants DEF Steps

LEMMA BorrowReleaseOK ==
  ASSUME IInv, Remember, NEW r \in Reqs, BorrowRelease(r)
  PROVE  IInv'
<1>1. req[r].step = "borrow_release"
  BY DEF BorrowRelease, At
<1>2. RowOK'
  BY LockMoves
  DEF BorrowRelease, Drop, IInv, TypeOK, LeaseTypeOK, leaseVars, LockDiesWithNote
<1>3. QED
  BY <1>1, <1>2, FinishOK DEF BorrowRelease

(***************************************************************************)
(* delete_note: versions and note go together.                             *)
(***************************************************************************)
LEMMA DeleteOK ==
  ASSUME IInv, Remember, NEW r \in Reqs,
         (\E u \in Users : DeleteVersions(r, u)) \/ DeleteNote(r)
  PROVE  IInv'
<1>1. ASSUME NEW u \in Users, DeleteVersions(r, u) PROVE IInv'
  <2> DEFINE new == [Free EXCEPT !.step = "delete_note", !.user = u, !.seen = Len(history)]
  <2>1. Len(history) \in Nat
    BY DEF IInv, TypeOK
  <2>2. new \in Request /\ RequestOK(new) /\ new.step = "delete_note"
    BY <2>1, Constants DEF Free, Request, RequestOK, Steps
  <2>3. req' = [req EXCEPT ![r] = new] /\ UNCHANGED <<holder, fresh, noteVars>>
    BY <1>1 DEF DeleteVersions
  <2>4. QED
    BY <2>2, <2>3, RowKept, Assemble
<1>2. CASE DeleteNote(r)
  <2>1. req[r].step = "delete_note" /\ Finish(r)
    BY <1>2 DEF DeleteNote, At
  <2>2. CASE Live /\ Len(history) = req[r].seen
    <3>1. history' = SubSeq(history, Len(history) + 1, Len(history))
      BY <1>2, <2>2 DEF DeleteNote
    <3>2. history' = <<>>
      BY <3>1 DEF IInv, TypeOK
    <3>3. row' = "deleted" /\ note' = Nothing
      BY <1>2, <2>2 DEF DeleteNote
    <3>4. holder' = None /\ fresh' \in BOOLEAN
      BY <1>2, <2>2 DEF DeleteNote, Drop, leaseVars, IInv, TypeOK, LeaseTypeOK
    <3>5. RowOK'
      BY <3>2, <3>3, <3>4, Constants
      DEF RowOK, LeaseTypeOK, NoteTyped, LockDiesWithNote, NoOrphanVersions, Live
    <3>6. QED
      BY <2>1, <3>5, FinishOK
  <2>3. CASE ~(Live /\ Len(history) = req[r].seen)
    <3>1. RowOK'
      BY <1>2, <2>3, RowKept DEF DeleteNote
    <3>2. QED
      BY <2>1, <3>1, FinishOK
  <2>4. QED
    BY <2>2, <2>3
<1>3. QED
  BY <1>1, <1>2

(***************************************************************************)
(* A process dies, a statement fails, an exception leaves the handler.     *)
(***************************************************************************)
LEMMA AbortOK ==
  ASSUME IInv, Remember, NEW r \in Reqs, Abort(r)
  PROVE  IInv'
<1>1. req[r].step # "idle" /\ (Finish(r) \/ Raise(r)) /\ RowOK'
  BY RowKept DEF Abort, BreakOff, Raised, At
<1>2. QED
  BY <1>1, FinishOK, RaiseOK

LEMMA ExpireOK ==
  ASSUME IInv, Remember, Expire
  PROVE  IInv'
<1>1. LeaseTypeOK' /\ holder' = holder /\ UNCHANGED noteVars /\ req' = req
  BY DEF Expire, Lapse, IInv, TypeOK, LeaseTypeOK
<1>2. RowOK'
  BY <1>1, LockMoves DEF IInv, LockDiesWithNote
<1>3. entitled' \in [Reqs -> BOOLEAN]
  BY DEF Remember
<1>4. ASSUME NEW r \in Reqs, req[r].step \in Cleared
      PROVE  entitled'[r]
  <2>1. entitled[r] /\ req[r].user \in Users /\ req[r].step \in Writing
    BY <1>4 DEF IInv, WritesEntitled, RequestsOK, RequestOK, Writing
  <2>2. QED
    BY <1>1, <2>1, EntitledGained
<1>5. QED
  BY <1>1, <1>2, <1>3, <1>4
  DEF IInv, RowOK, TypeOK, RequestsOK, RequestOK, WritesEntitled

----------------------------------------------------------------------------
(***************************************************************************)
(* The invariant holds from the start and every step keeps it.             *)
(***************************************************************************)
LEMMA StartOK ==
  ASSUME IInv, Remember, NEW r \in Reqs, Start(r)
  PROVE  IInv'
<1>1. ASSUME NEW cols \in Columns, CreateInsert(r, cols) PROVE IInv'
  BY <1>1, CreateOK
<1>2. ASSUME NEW u \in Members, NEW arg \in Columns, PatchRead(r, u, arg) PROVE IInv'
  BY <1>2, PatchOK
<1>3. ASSUME NEW u \in Members, NEW i \in 1..Len(history), RestoreRead(r, u, history[i])
      PROVE  IInv'
  <2>1. history[i] \in Version
    BY DEF IInv, TypeOK
  <2>2. PICK arg \in Partial : BorrowingEdit(r, u, arg)
    BY <1>3, <2>1 DEF RestoreRead, Partial, Version
  <2>3. QED
    BY <2>2, BorrowingOK, Constants
<1>4. ASSUME NEW u \in Members, LockRead(r, u) PROVE IInv'
  BY <1>4, LockOK
<1>5. ASSUME NEW u \in Members, UnlockRead(r, u) PROVE IInv'
  BY <1>5, UnlockOK
<1>6. ASSUME NEW u \in Agents, NEW c \in Contents, UpdateRead(r, u, c) PROVE IInv'
  <2>1. [content |-> c, vis |-> None] \in Partial
    BY DEF Partial
  <2>2. QED
    BY <1>6, <2>1, BorrowingOK, Constants DEF UpdateRead
<1>7. ASSUME NEW u \in Users, DeleteVersions(r, u) PROVE IInv'
  BY <1>7, DeleteOK
<1>8. QED
  BY <1>1, <1>2, <1>3, <1>4, <1>5, <1>6, <1>7 DEF Start

LEMMA ContinueOK ==
  ASSUME IInv, Remember, NEW r \in Reqs, Continue(r)
  PROVE  IInv'
BY CreateOK, PatchOK, LockOK, UnlockOK, VersionOK, BorrowTakeOK, EditLoadOK, EditCommitOK,
   BorrowReleaseOK, DeleteOK DEF Continue

LEMMA Inductive == Spec => []IInv
<1>1. ASSUME Init PROVE IInv
  <2>1. req \in [Reqs -> Request] /\ RequestsOK /\ WritesEntitled
    BY <1>1, FreeOK DEF Init, RequestsOK, WritesEntitled
  <2>2. entitled \in [Reqs -> BOOLEAN] /\ history \in Seq(Version)
    BY <1>1 DEF Init
  <2>3. QED
    BY <1>1, <2>1, <2>2, Constants
    DEF Init, LeaseInit, IInv, TypeOK, LeaseTypeOK, NoteTyped, LockDiesWithNote,
        NoOrphanVersions, Live
<1>2. ASSUME IInv, [Next]_vars PROVE IInv'
  <2>1. CASE Next
    BY <1>2, <2>1, StartOK, ContinueOK, AbortOK, ExpireOK DEF Next
  <2>2. CASE UNCHANGED vars
    BY <1>2, <2>2
    DEF vars, IInv, TypeOK, LeaseTypeOK, NoteTyped, RequestsOK, RequestOK, LockDiesWithNote,
        WritesEntitled, NoOrphanVersions, Live
  <2>3. QED
    BY <1>2, <2>1, <2>2
<1>3. QED
  BY <1>1, <1>2, PTL DEF Spec

(***************************************************************************)
(* The columns of the note, its versions and the requests keep their       *)
(* types: in particular the history is only ever fed full snapshots, never *)
(* one with a column the request had not read.                             *)
(***************************************************************************)
THEOREM TypesKept == Spec => []TypeOK
<1>1. IInv => TypeOK
  BY DEF IInv
<1>2. QED
  BY <1>1, Inductive, PTL

(***************************************************************************)
(* FR-L2 under concurrency: whoever is about to write content held a fresh *)
(* lock, or owned the private note, at some moment since the request       *)
(* started.  For any number of requests, users and crashes.                *)
(***************************************************************************)
THEOREM WritersWereEntitled == Spec => []WritesEntitled
<1>1. IInv => WritesEntitled
  BY DEF IInv
<1>2. QED
  BY <1>1, Inductive, PTL

(***************************************************************************)
(* A deleted note leaves no version behind, and no request that was still  *)
(* in flight brings one back (delete_note).                                *)
(***************************************************************************)
THEOREM DeletionIsComplete == Spec => []NoOrphanVersions
<1>1. IInv => NoOrphanVersions
  BY DEF IInv
<1>2. QED
  BY <1>1, Inductive, PTL

----------------------------------------------------------------------------
(***************************************************************************)
(* A step touches the requests of nobody else, and does not end one that   *)
(* borrowed the lock before the lock is somebody else's or nobody's.       *)
(***************************************************************************)
LEMMA OthersUntouched ==
  ASSUME IInv, NEW q \in Reqs, NEW r \in Reqs, r # q, Start(q) \/ Continue(q) \/ Abort(q)
  PROVE  req'[r] = req[r]
<1>1. req \in [Reqs -> Request]
  BY DEF IInv, TypeOK
<1>2. CASE Start(q)
  BY <1>1, <1>2
  DEF Start, CreateInsert, PatchRead, RestoreRead, LockRead, UnlockRead, UpdateRead,
      BorrowingEdit, DeleteVersions, Begin
<1>3. CASE Continue(q)
  BY <1>1, <1>3
  DEF Continue, CreateRefresh, CreateRoot, PatchCommit, LockTake, UnlockRelease, CloseCheck,
      VersionNote, VersionLatest, VersionInsert, BorrowTake, EditLoad, EditCommit, BorrowRelease,
      DeleteNote, Goto, Finish, FinishOrRelease, Raise
<1>4. CASE Abort(q)
  BY <1>1, <1>4 DEF Abort, BreakOff, Raised, Raise, Goto, Finish
<1>5. QED
  BY <1>2, <1>3, <1>4

LEMMA BorrowerLetsGo ==
  ASSUME IInv, Next, NEW r \in Reqs, req[r].borrowed, req'[r].step = "idle",
         ~At(r, "raised")
  PROVE  holder' # req[r].user
<1>1. /\ req[r].step \in {"borrow_take", "edit_load", "edit_commit", "version_note",
                          "version_latest", "version_insert", "borrow_release"}
      /\ req[r].user \in Users /\ req \in [Reqs -> Request]
  BY DEF IInv, TypeOK, RequestsOK, RequestOK, At
<1>2. ~Expire
  BY <1>1 DEF Expire
<1>3. PICK q \in Reqs : Start(q) \/ Continue(q) \/ Abort(q)
  BY <1>2 DEF Next
<1>4. q = r
  BY <1>1, <1>3, OthersUntouched
<1>5. ~Start(r)
  BY <1>1 DEF Start, CreateInsert, PatchRead, RestoreRead, LockRead, UnlockRead, UpdateRead,
              BorrowingEdit, DeleteVersions, Begin
<1>6. ASSUME NEW step, NEW cache, Goto(r, step, cache) PROVE step = "idle"
  <2> DEFINE new == [Free EXCEPT !.step = step, !.user = req[r].user,
                                 !.cache = cache, !.borrowed = req[r].borrowed]
  <2>1. req' = [req EXCEPT ![r] = new]
    BY <1>6 DEF Goto
  <2>2. req'[r] = new
    BY <1>1, <2>1
  <2>3. new.step = step
    BY DEF Free
  <2>4. QED
    BY <2>2, <2>3
<1>7. Continue(r)
  <2>1. ~Raise(r)
    BY <1>6 DEF Raise
  <2>2. QED
    BY <1>3, <1>4, <1>5, <2>1 DEF Abort, BreakOff, Raised
<1>8. ~FinishOrRelease(r) /\ ~Raise(r)
  BY <1>6 DEF FinishOrRelease, Raise
<1>9. ~VersionLatest(r) /\ ~EditLoad(r)
  BY <1>1, <1>8 DEF VersionLatest, EditLoad, Request
<1>10. BorrowTake(r) \/ BorrowRelease(r)
  BY <1>1, <1>6, <1>7, <1>8, <1>9
  DEF Continue, CreateRefresh, CreateRoot, PatchCommit, LockTake, UnlockRelease, CloseCheck,
      VersionNote, VersionLatest, VersionInsert, EditLoad, EditCommit, DeleteNote, At
<1>11. CASE BorrowRelease(r)
  BY <1>1, <1>11, Constants DEF BorrowRelease, Drop, leaseVars
<1>12. CASE BorrowTake(r)
  <2>1. ~(Live /\ CanTake(req[r].user)) /\ holder' = holder
    BY <1>1, <1>12 DEF BorrowTake, leaseVars, Request
  <2>2. QED
    BY <1>1, <2>1, Constants DEF IInv, LockDiesWithNote, CanTake
<1>13. QED
  BY <1>10, <1>11, <1>12

(***************************************************************************)
(* The finally clause of restore_version and update_note: unless its own   *)
(* process dies or one of its own statements fails, a borrowing request    *)
(* never ends with its user still holding the lock, whatever the other     *)
(* requests did meanwhile and wherever they failed.  A failed statement    *)
(* takes the release along: FinallyReleases is refuted (README.md).        *)
(***************************************************************************)
THEOREM BorrowIsTemporary == Spec => BorrowedLockGivenBack
<1>1. IInv /\ [Next]_vars =>
        [\A r \in Reqs :
           req[r].borrowed /\ req'[r].step = "idle" /\ ~At(r, "raised")
             => holder' # req[r].user]_vars
  BY BorrowerLetsGo
<1>2. QED
  BY <1>1, Inductive, PTL DEF Spec, BorrowedLockGivenBack

----------------------------------------------------------------------------
(***************************************************************************)
(* The root of the history.  The row appears together with the request     *)
(* that will write the root; from then on there is that request or a root, *)
(* later versions go to the end, and only a deletion takes the root away.  *)
(***************************************************************************)
OwnersRoot == Rooted /\ history[1].author = Owner

LEMMA CreationContinues ==
  ASSUME IInv, NEW r \in Reqs, Continue(r), Creating, Mortal = {}, Live
  PROVE  Creating' \/ OwnersRoot'
<1>1. PICK q \in Reqs : req[q].step \in {"create_refresh", "create_root"}
  BY DEF Creating
<1>2. CASE q # r
  <2>1. req'[q] = req[q]
    BY <1>2, OthersUntouched
  <2>2. QED
    BY <1>1, <2>1 DEF Creating
<1>3. CASE q = r
  <2>1. CreateRefresh(r) \/ CreateRoot(r)
    BY <1>1, <1>3
    DEF Continue, PatchCommit, LockTake, UnlockRelease, CloseCheck, VersionNote,
        VersionLatest, VersionInsert, BorrowTake, EditLoad, EditCommit, BorrowRelease,
        DeleteNote, At
  <2>2. CASE CreateRefresh(r)
    <3>1. Goto(r, "create_root", note)
      BY <2>2 DEF CreateRefresh
    <3>2. req'[r].step = "create_root"
      BY <3>1 DEF Goto, Free, IInv, TypeOK
    <3>3. QED
      BY <3>2 DEF Creating
  <2>3. CASE CreateRoot(r)
    <3>1. req[r].cache \in Columns
      BY <2>3 DEF CreateRoot, At, IInv, RequestsOK, RequestOK
    <3>2. history' = <<Root(req[r].cache)>> \o history
      BY <2>3 DEF CreateRoot
    <3>3. history' # <<>> /\ history'[1] = Root(req[r].cache)
      BY <3>1, <3>2, RootTyped DEF IInv, TypeOK
    <3>4. QED
      BY <3>1, <3>3, RootTyped DEF OwnersRoot, Rooted
  <2>4. QED
    BY <2>1, <2>2, <2>3
<1>4. QED
  BY <1>2, <1>3

LEMMA RootStays ==
  ASSUME IInv, NEW r \in Reqs, Continue(r), OwnersRoot, Live'
  PROVE  OwnersRoot'
<1>1. history \in Seq(Version) /\ Len(history) >= 1
  BY DEF IInv, TypeOK, OwnersRoot, Rooted
<1>2. CASE CreateRoot(r)
  <2>1. req[r].cache \in Columns
    BY <1>2 DEF CreateRoot, At, IInv, RequestsOK, RequestOK
  <2>2. CASE Live
    <3>1. history' = <<Root(req[r].cache)>> \o history
      BY <1>2, <2>2 DEF CreateRoot
    <3>2. history' # <<>> /\ history'[1] = Root(req[r].cache)
      BY <1>1, <2>1, <3>1, RootTyped
    <3>3. QED
      BY <2>1, <3>2, RootTyped DEF OwnersRoot, Rooted
  <2>3. CASE ~Live
    BY <1>2, <2>3 DEF CreateRoot, OwnersRoot, Rooted
  <2>4. QED
    BY <2>2, <2>3
<1>3. CASE VersionInsert(r)
  <2>1. NewVersion(r) \in Version
    BY <1>3, AuthoredTyped DEF VersionInsert, NewVersion, At, IInv, RequestsOK, RequestOK
  <2>2. CASE Live
    <3>1. PICK later \in 0..(Sessions - req[r].seen) :
            history' = InsertAt(history, Len(history) + 1 - later, NewVersion(r))
      BY <1>3, <2>2 DEF VersionInsert
    <3>2. history' # <<>> /\ history'[1] = history[1]
      BY <1>1, <2>1, <3>1, InsertTyped, InsertedAfterRoot DEF IInv, OwnersRoot
    <3>3. QED
      BY <3>2 DEF OwnersRoot, Rooted
  <2>3. CASE ~Live
    BY <1>3, <2>3 DEF VersionInsert, OwnersRoot, Rooted
  <2>4. QED
    BY <2>2, <2>3
<1>4. CASE ~(CreateRoot(r) \/ VersionInsert(r))
  <2>1. history' = history
    BY <1>4
    DEF Continue, CreateRefresh, PatchCommit, LockTake, UnlockRelease, CloseCheck,
        VersionNote, VersionLatest, BorrowTake, EditLoad, EditCommit, BorrowRelease,
        DeleteNote, noteVars, Live
  <2>2. QED
    BY <2>1 DEF OwnersRoot, Rooted
<1>5. QED
  BY <1>2, <1>3, <1>4

(***************************************************************************)
(* If nothing dies or fails, the history of a live note starts with its owner's  *)
(* version as soon as its creation has ended, whoever edited it before.    *)
(***************************************************************************)
THEOREM RootIsTheOwners == Spec => []RootIsOwners
<1>1. Init => RootIsOwners
  BY DEF Init, RootIsOwners, Live
<1>2. ASSUME IInv, RootIsOwners, [Next]_vars PROVE RootIsOwners'
  <2> SUFFICES ASSUME Live', ~Creating', Mortal = {}, Failing = {} PROVE OwnersRoot'
    BY DEF RootIsOwners, OwnersRoot
  <2>1. CASE Expire
    BY <1>2, <2>1 DEF Expire, noteVars, RootIsOwners, OwnersRoot, Rooted, Creating, Live
  <2>2. ASSUME NEW r \in Reqs, Start(r) PROVE OwnersRoot'
    <3>1. ~\E cols \in Columns : CreateInsert(r, cols)
      <4> SUFFICES ASSUME NEW cols \in Columns, CreateInsert(r, cols) PROVE Creating'
        OBVIOUS
      <4>1. req'[r].step = "create_refresh"
        BY <1>2 DEF CreateInsert, Begin, Free, IInv, TypeOK
      <4>2. QED
        BY <4>1 DEF Creating
    <3>2. UNCHANGED noteVars /\ req[r].step = "idle"
      BY <2>2, <3>1
      DEF Start, PatchRead, RestoreRead, LockRead, UnlockRead, UpdateRead, BorrowingEdit,
          DeleteVersions, Begin
    <3>3. ~Creating
      <4> SUFFICES ASSUME NEW q \in Reqs, req[q].step \in {"create_refresh", "create_root"}
                   PROVE  Creating'
        BY DEF Creating
      <4>1. req'[q] = req[q]
        BY <1>2, <2>2, <3>2, OthersUntouched
      <4>2. QED
        BY <4>1 DEF Creating
    <3>4. QED
      BY <1>2, <3>2, <3>3 DEF noteVars, RootIsOwners, OwnersRoot, Rooted, Live
  <2>3. ASSUME NEW r \in Reqs, Continue(r) PROVE OwnersRoot'
    <3>1. Live
      BY <2>3
      DEF Continue, CreateRefresh, CreateRoot, PatchCommit, LockTake, UnlockRelease,
          CloseCheck, VersionNote, VersionLatest, VersionInsert, BorrowTake, EditLoad, EditCommit,
          BorrowRelease, DeleteNote, noteVars, Live
    <3>2. CASE Creating
      BY <1>2, <2>3, <3>1, <3>2, CreationContinues
    <3>3. CASE ~Creating
      BY <1>2, <2>3, <3>1, <3>3, RootStays DEF RootIsOwners, OwnersRoot
    <3>4. QED
      BY <3>2, <3>3
  <2>4. ASSUME NEW r \in Reqs, Abort(r) PROVE OwnersRoot'
    <3>1. Raised(r)
      BY <2>4 DEF Abort, BreakOff
    <3>2. UNCHANGED noteVars /\ req[r].step = "raised"
      BY <3>1 DEF Raised, At
    <3>3. ~Creating
      <4> SUFFICES ASSUME NEW q \in Reqs, req[q].step \in {"create_refresh", "create_root"}
                   PROVE  Creating'
        BY DEF Creating
      <4>1. req'[q] = req[q]
        BY <1>2, <2>4, <3>2, OthersUntouched
      <4>2. QED
        BY <4>1 DEF Creating
    <3>4. QED
      BY <1>2, <3>2, <3>3 DEF noteVars, RootIsOwners, OwnersRoot, Rooted, Live
  <2>5. CASE UNCHANGED vars
    BY <1>2, <2>5 DEF vars, RootIsOwners, OwnersRoot, Rooted, Creating, Live
  <2>6. QED
    BY <1>2, <2>1, <2>2, <2>3, <2>4, <2>5 DEF Next
<1>3. QED
  BY <1>1, <1>2, Inductive, PTL DEF Spec

----------------------------------------------------------------------------
(***************************************************************************)
(* What the helpers make of a request.                                     *)
(***************************************************************************)
LEMMA BeginFacts ==
  ASSUME IInv, NEW r \in Reqs, NEW u, NEW step, NEW cache, NEW arg, NEW borrowed,
         Begin(r, u, step, cache, arg, borrowed)
  PROVE  /\ req[r].step = "idle"
         /\ req'[r].step = step /\ req'[r].user = u
         /\ req'[r].cache = cache /\ req'[r].arg = arg
<1> DEFINE new == [Free EXCEPT !.step = step, !.user = u, !.cache = cache,
                               !.arg = arg, !.borrowed = borrowed]
<1>1. req \in [Reqs -> Request]
  BY DEF IInv, TypeOK
<1>2. req'[r] = new /\ req[r].step = "idle"
  BY <1>1 DEF Begin
<1>3. new.step = step /\ new.cache = cache /\ new.user = u /\ new.arg = arg
  BY DEF Free
<1>4. QED
  BY <1>2, <1>3

LEMMA GotoFacts ==
  ASSUME IInv, NEW r \in Reqs, NEW step, NEW cache, Goto(r, step, cache)
  PROVE  req'[r].step = step /\ req'[r].cache = cache /\ req'[r].user = req[r].user
<1> DEFINE new == [Free EXCEPT !.step = step, !.user = req[r].user,
                               !.cache = cache, !.borrowed = req[r].borrowed]
<1>1. req \in [Reqs -> Request]
  BY DEF IInv, TypeOK
<1>2. req' = [req EXCEPT ![r] = new]
  BY DEF Goto
<1>3. req'[r] = new
  BY <1>1, <1>2
<1>4. new.step = step /\ new.cache = cache /\ new.user = req[r].user
  BY DEF Free
<1>5. QED
  BY <1>3, <1>4

LEMMA FinishFacts ==
  ASSUME IInv, NEW r \in Reqs, Finish(r) \/ FinishOrRelease(r)
  PROVE  req'[r].step \in {"idle", "borrow_release"}
<1>1. CASE Finish(r)
  BY <1>1, FreeOK DEF Finish, IInv, TypeOK
<1>2. CASE Goto(r, "borrow_release", Nothing)
  BY <1>2, GotoFacts
<1>3. QED
  BY <1>1, <1>2 DEF FinishOrRelease

\* The second step of record_session_version, where it goes on.
LEMMA LatestFacts ==
  ASSUME IInv, NEW r \in Reqs, VersionLatest(r), ~FinishOrRelease(r)
  PROVE  /\ req[r].step = "version_latest" /\ req'[r].step = "version_insert"
         /\ req'[r].cache = req[r].cache /\ req'[r].seen = Sessions
         /\ req'[r].user = req[r].user
<1> DEFINE new == [req[r] EXCEPT !.step = "version_insert", !.seen = Sessions]
<1>1. req \in [Reqs -> Request] /\ req[r] \in Request
  BY DEF IInv, TypeOK
<1>2. req[r].step = "version_latest"
  BY DEF VersionLatest, At
<1>3. req' = [req EXCEPT ![r] = new]
  BY <1>1 DEF VersionLatest, Request
<1>4. req'[r] = new
  BY <1>1, <1>3
<1>5. /\ new.cache = req[r].cache /\ new.step = "version_insert" /\ new.seen = Sessions
      /\ new.user = req[r].user
  BY <1>1 DEF Request
<1>6. QED
  BY <1>2, <1>4, <1>5

(***************************************************************************)
(* Versions and the states of the note.  What a request is going to make a *)
(* version of, and the note itself, are states the note was in; a write    *)
(* between the reading and the insertion changes neither.                  *)
(***************************************************************************)
Carrying == {"create_root", "version_latest", "version_insert"}

StatesInv ==
    /\ Live => note \in states
    /\ \A r \in Reqs : req[r].step \in Carrying => req[r].cache \in states
    /\ VersionsAreRealStates

(***************************************************************************)
(* A request carries a state of the note as long as it carries anything.   *)
(***************************************************************************)
LEMMA CarriesAState ==
  ASSUME IInv, StatesInv, NEW r \in Reqs, Start(r) \/ Continue(r) \/ Abort(r),
         req'[r].step \in Carrying
  PROVE  req'[r].cache \in states
<1>1. req \in [Reqs -> Request] /\ (Live => note \in states)
  BY DEF IInv, TypeOK, StatesInv
<1>2. ASSUME NEW step, NEW cache, Goto(r, step, cache)
      PROVE  req'[r].step = step /\ req'[r].cache = cache
  BY <1>2, GotoFacts
<1>3. ~Finish(r) /\ ~FinishOrRelease(r) /\ ~Raise(r)
  BY <1>2, FinishFacts DEF Carrying, Raise
<1>4. ASSUME NEW u, NEW step, NEW cache, NEW arg, NEW borrowed,
             Begin(r, u, step, cache, arg, borrowed)
      PROVE  req'[r].step = step
  BY <1>4, BeginFacts
<1>5. ~Start(r)
  <2>1. ~\E u \in Users : DeleteVersions(r, u)
    BY <1>1 DEF DeleteVersions, Free, Carrying
  <2>2. ~\E cols \in Columns : CreateInsert(r, cols)
    BY <1>4 DEF CreateInsert, Carrying
  <2>3. ASSUME NEW u, NEW arg, BorrowingEdit(r, u, arg) PROVE FALSE
    BY <1>4, <2>3 DEF BorrowingEdit, Carrying
  <2>4. ASSUME NEW u, NEW arg, PatchRead(r, u, arg) PROVE FALSE
    BY <1>4, <2>4 DEF PatchRead, Carrying
  <2>5. ASSUME NEW u, LockRead(r, u) \/ UnlockRead(r, u) PROVE FALSE
    BY <1>4, <2>5 DEF LockRead, UnlockRead, Carrying
  <2>6. QED
    BY <2>1, <2>2, <2>3, <2>4, <2>5 DEF Start, RestoreRead, UpdateRead
<1>6. CASE VersionLatest(r)
  BY <1>3, <1>6, LatestFacts DEF StatesInv, Carrying
<1>7. ~BorrowTake(r)
  BY <1>1, <1>3 DEF BorrowTake, Request, Carrying
<1>8. ~EditLoad(r)
  BY <1>1, <1>3 DEF EditLoad, Request, Carrying
<1>9. CASE CreateRefresh(r) \/ CloseCheck(r) \/ VersionNote(r)
  BY <1>1, <1>2, <1>3, <1>9 DEF CreateRefresh, CloseCheck, VersionNote
<1>10. ~(CreateRoot(r) \/ PatchCommit(r) \/ LockTake(r) \/ VersionInsert(r)
           \/ BorrowRelease(r) \/ DeleteNote(r) \/ Abort(r))
  BY <1>3
  DEF CreateRoot, PatchCommit, LockTake, VersionInsert, BorrowRelease, DeleteNote, Abort, BreakOff, Raised
<1>11. ~(UnlockRelease(r) \/ EditCommit(r))
  BY <1>2, <1>3 DEF UnlockRelease, EditCommit, Carrying
<1>12. QED
  BY <1>5, <1>6, <1>7, <1>8, <1>9, <1>10, <1>11 DEF Continue

(***************************************************************************)
(* An insertion adds one element and leaves the others.                    *)
(***************************************************************************)
LEMMA InsertAdds ==
  ASSUME NEW s \in Seq(Version), NEW v \in Version, NEW i \in 1..(Len(s) + 1),
         NEW j \in 1..Len(InsertAt(s, i, v))
  PROVE  InsertAt(s, i, v)[j] = v \/ \E k \in 1..Len(s) : InsertAt(s, i, v)[j] = s[k]
<1> DEFINE front == SubSeq(s, 1, i - 1)
           back == SubSeq(s, i, Len(s))
<1>1. front \in Seq(Version) /\ Len(front) = i - 1
  OBVIOUS
<1>2. back \in Seq(Version) /\ Len(back) = Len(s) - i + 1
  OBVIOUS
<1>3. \A k \in 1..(i - 1) : front[k] = s[k]
  OBVIOUS
<1>4. \A k \in 1..(Len(s) - i + 1) : back[k] = s[i + k - 1]
  OBVIOUS
<1>5. InsertAt(s, i, v) = front \o <<v>> \o back
  BY DEF InsertAt
<1> HIDE DEF front, back
<1> DEFINE start == front \o <<v>>
<1>6. start \in Seq(Version) /\ Len(start) = i /\ start[i] = v
  BY <1>1
<1>7. \A k \in 1..(i - 1) : start[k] = s[k]
  BY <1>1, <1>3
<1>8. InsertAt(s, i, v) = start \o back
  BY <1>5
<1> HIDE DEF start
<1>9. j \in 1..(Len(s) + 1)
  BY <1>2, <1>6, <1>8
<1>10. CASE j < i
  <2>1. (start \o back)[j] = start[j]
    BY <1>2, <1>6, <1>9, <1>10
  <2>2. QED
    <3>1. j \in 1..(i - 1)
      BY <1>9, <1>10
    <3>2. j \in 1..Len(s)
      BY <1>9, <1>10
    <3>3. start[j] = s[j]
      BY <1>7, <3>1
    <3>4. InsertAt(s, i, v)[j] = s[j]
      BY <1>8, <2>1, <3>3
    <3>5. QED
      BY <3>2, <3>4
<1>11. CASE j = i
  <2>1. (start \o back)[j] = start[j]
    BY <1>2, <1>6, <1>9, <1>11
  <2>2. QED
    BY <1>6, <1>8, <1>11, <2>1
<1>12. CASE j > i
  <2>1. (start \o back)[j] = back[j - i]
    BY <1>2, <1>6, <1>9, <1>12
  <2>2. back[j - i] = s[j - 1]
    BY <1>4, <1>9, <1>12
  <2>3. j - 1 \in 1..Len(s)
    BY <1>9, <1>12
  <2>4. InsertAt(s, i, v)[j] = s[j - 1]
    BY <1>8, <2>1, <2>2
  <2>5. QED
    BY <2>3, <2>4
<1>13. QED
  BY <1>9, <1>10, <1>11, <1>12

(***************************************************************************)
(* A version made of columns has these columns.                            *)
(***************************************************************************)
LEMMA SnapshotsAre ==
  ASSUME NEW cols \in Columns, NEW u \in Users
  PROVE  Snapshot(Authored(u, cols)) = cols /\ Snapshot(Root(cols)) = cols
BY DEF Snapshot, Authored, Root, Columns

(***************************************************************************)
(* Every version a step leaves in the history was there, or was made of    *)
(* what its request carried.                                               *)
(***************************************************************************)
LEMMA VersionsAdded ==
  ASSUME IInv, StatesInv, Next, NEW i \in 1..Len(history')
  PROVE  Snapshot(history'[i]) \in states
<1>1. history \in Seq(Version) /\ \A k \in 1..Len(history) : Snapshot(history[k]) \in states
  BY DEF IInv, TypeOK, StatesInv, VersionsAreRealStates
<1>2. ASSUME NEW r \in Reqs, CreateRoot(r) PROVE Snapshot(history'[i]) \in states
  <2>1. req[r].cache \in Columns /\ req[r].cache \in states
    BY <1>2 DEF CreateRoot, At, IInv, RequestsOK, RequestOK, StatesInv, Carrying
  <2>2. Snapshot(Root(req[r].cache)) \in states
    BY <2>1, SnapshotsAre, Constants
  <2>3. CASE history' = history
    BY <1>1, <2>3
  <2>4. CASE history' = <<Root(req[r].cache)>> \o history
    <3>1. Root(req[r].cache) \in Version
      BY <2>1, RootTyped
    <3>2. Len(history') = Len(history) + 1
      BY <1>1, <2>4, <3>1
    <3>3. history'[i] = IF i = 1 THEN Root(req[r].cache) ELSE history[i - 1]
      BY <1>1, <2>4, <3>1, <3>2
    <3>4. i # 1 => i - 1 \in 1..Len(history)
      BY <1>1, <3>2
    <3>5. QED
      BY <1>1, <2>2, <3>3, <3>4
  <2>5. QED
    BY <1>2, <2>3, <2>4 DEF CreateRoot
<1>3. ASSUME NEW r \in Reqs, VersionInsert(r) PROVE Snapshot(history'[i]) \in states
  <2>1. req[r].cache \in Columns /\ req[r].cache \in states /\ req[r].user \in Users
    BY <1>3 DEF VersionInsert, At, IInv, RequestsOK, RequestOK, StatesInv, Carrying
  <2>2. NewVersion(r) \in Version /\ Snapshot(NewVersion(r)) \in states
    BY <2>1, AuthoredTyped, SnapshotsAre DEF NewVersion
  <2>3. CASE ~Live
    BY <1>1, <1>3, <2>3 DEF VersionInsert
  <2>4. CASE Live
    <3>1. PICK later \in 0..(Sessions - req[r].seen) :
            history' = InsertAt(history, Len(history) + 1 - later, NewVersion(r))
      BY <1>3, <2>4 DEF VersionInsert
    <3>2. Len(history) + 1 - later \in 1..(Len(history) + 1)
      BY <3>1, InsertedAfterRoot DEF IInv
    <3>3. history'[i] = NewVersion(r) \/ \E k \in 1..Len(history) : history'[i] = history[k]
      BY <1>1, <2>2, <3>1, <3>2, InsertAdds
    <3>4. QED
      BY <1>1, <2>2, <3>3
  <2>5. QED
    BY <2>3, <2>4
<1>4. ASSUME NEW r \in Reqs, DeleteNote(r) PROVE Snapshot(history'[i]) \in states
  <2>1. CASE history' = history
    BY <1>1, <2>1
  <2>2. CASE history' = SubSeq(history, Len(history) + 1, Len(history))
    <3>1. history' = <<>>
      BY <1>1, <2>2
    <3>2. QED
      BY <3>1
  <2>3. QED
    BY <1>4, <2>1, <2>2 DEF DeleteNote, noteVars
<1>5. ASSUME NEW r \in Reqs, Start(r) \/ Abort(r) PROVE history' = history
  BY <1>5
  DEF Start, Abort, BreakOff, Raised, CreateInsert, PatchRead, RestoreRead, LockRead, UnlockRead, UpdateRead,
      BorrowingEdit, DeleteVersions, noteVars
<1>6. ASSUME NEW r \in Reqs, Continue(r), ~CreateRoot(r), ~VersionInsert(r), ~DeleteNote(r)
      PROVE  history' = history
  BY <1>6
  DEF Continue, CreateRefresh, PatchCommit, LockTake, UnlockRelease, CloseCheck, VersionNote,
      VersionLatest, BorrowTake, EditLoad, EditCommit, BorrowRelease, noteVars
<1>7. Expire => history' = history
  BY DEF Expire, noteVars
<1>8. QED
  BY <1>1, <1>2, <1>3, <1>4, <1>5, <1>6, <1>7 DEF Next

(***************************************************************************)
(* The note, what the requests carry and the versions after a step.        *)
(***************************************************************************)
LEMMA StatesStep ==
  ASSUME IInv, StatesInv, StatesNext
  PROVE  StatesInv'
<1>1. states \subseteq states'
  BY DEF StatesNext
<1>2. Live' => note' \in states'
  BY DEF StatesNext, Live
<1>3. ASSUME NEW r \in Reqs, req'[r].step \in Carrying PROVE req'[r].cache \in states'
  <2>1. CASE Expire
    BY <1>1, <1>3, <2>1 DEF Expire, StatesInv
  <2>2. ASSUME NEW q \in Reqs, Start(q) \/ Continue(q) \/ Abort(q)
        PROVE  req'[r].cache \in states'
    <3>1. CASE q = r
      BY <1>1, <1>3, <2>2, <3>1, CarriesAState
    <3>2. CASE q # r
      <4>1. req'[r] = req[r]
        BY <2>2, <3>2, OthersUntouched
      <4>2. QED
        BY <1>1, <1>3, <4>1 DEF StatesInv
    <3>3. QED
      BY <3>1, <3>2
  <2>3. QED
    BY <2>1, <2>2 DEF StatesNext, Next
<1>4. \A i \in 1..Len(history') : Snapshot(history'[i]) \in states'
  BY <1>1, VersionsAdded DEF StatesNext
<1>5. QED
  BY <1>2, <1>3, <1>4 DEF StatesInv, VersionsAreRealStates, Snapshot

(***************************************************************************)
(* FR-H1: every version is a state the note really was in, its columns     *)
(* together, whatever other requests wrote between the moment a session's  *)
(* end read the note and the moment it inserted the copy.  For any number  *)
(* of requests, users, agents and crashes.                                 *)
(***************************************************************************)
THEOREM VersionsWereReal == StatesSpec => []VersionsAreRealStates
<1>1. StatesInit => StatesInv
  BY FreeOK DEF StatesInit, Init, StatesInv, VersionsAreRealStates, Live, Carrying
<1>2. IInv /\ StatesInv /\ [StatesNext]_<<vars, states>> => StatesInv'
  <2> SUFFICES ASSUME IInv, StatesInv, [StatesNext]_<<vars, states>> PROVE StatesInv'
    OBVIOUS
  <2>1. CASE StatesNext
    BY <2>1, StatesStep
  <2>2. CASE UNCHANGED <<vars, states>>
    BY <2>2 DEF vars, StatesInv, VersionsAreRealStates, Live, Snapshot
  <2>3. QED
    BY <2>1, <2>2
<1>3. StatesInit => Init
  BY DEF StatesInit
<1>4. [StatesNext]_<<vars, states>> => [Next]_vars
  BY DEF StatesNext
<1>5. StatesInv => VersionsAreRealStates
  BY DEF StatesInv
<1>6. StatesSpec => Spec
  BY <1>3, <1>4, PTL DEF StatesSpec, Spec
<1>7. QED
  BY <1>1, <1>2, <1>5, <1>6, Inductive, PTL DEF StatesSpec

----------------------------------------------------------------------------
(***************************************************************************)
(* Sessions, one request at a time.  While nobody holds the lock, a public *)
(* latest version is the note as it is.  Between two steps of the request, *)
(* what it has read is still so, and whatever it has yet to record, it     *)
(* will record before it ends.                                             *)
(***************************************************************************)
InLine == holder = None /\ history # <<>> /\ Last(history).vis = "PUBLIC"
            => Snapshot(Last(history)) = note

Recorded == history # <<>> => Snapshot(Last(history)) = note

Untouched == {"idle", "lock_take", "unlock_release", "close_check", "borrow_take",
              "delete_note", "patch_commit"}

SessionOK(q) ==
    /\ q.step \in Untouched => InLine
    /\ q.step = "patch_commit" => q.cache = note /\ (Public => holder # None)
    /\ q.step \in {"create_refresh", "create_root"} => history = <<>>
    /\ q.step \in Carrying => q.cache = note
    /\ q.step = "version_insert" => q.seen = Sessions
    /\ q.step = "borrow_release" => Recorded
    /\ q.step = "raised" => ~Live

SessionsInv == \A r \in Reqs : SessionOK(req[r])

(***************************************************************************)
(* A request that ends, or only has its lock left to give back.            *)
(***************************************************************************)
LEMMA EndsInLine ==
  ASSUME IInv, NEW r \in Reqs, Reqs = {r},
         \/ Finish(r) /\ InLine'
         \/ (Finish(r) \/ FinishOrRelease(r)) /\ Recorded'
  PROVE  SessionsInv'
<1>1. req'[r].step \in {"idle", "borrow_release"}
  BY FinishFacts
<1>2. Finish(r) => req'[r].step = "idle"
  BY FreeOK DEF Finish, IInv, TypeOK
<1>3. Recorded' => InLine'
  BY DEF Recorded, InLine
<1>4. QED
  BY <1>1, <1>2, <1>3 DEF SessionsInv, SessionOK, Untouched, Carrying

\* A request that fails because the note is gone.
LEMMA RaisedInLine ==
  ASSUME IInv, NEW r \in Reqs, Reqs = {r}, Raise(r), ~Live, row' = row
  PROVE  SessionsInv'
<1>1. req'[r].step = "raised"
  BY GotoFacts DEF Raise
<1>2. QED
  BY <1>1 DEF SessionsInv, SessionOK, Untouched, Carrying, Live

\* Nothing that the lock and the note are compared by has changed.
LEMMA LineKept ==
  ASSUME UNCHANGED noteVars, InLine, holder' = None => holder = None
  PROVE  InLine'
BY DEF InLine, noteVars, Snapshot

(***************************************************************************)
(* A request that starts has changed nothing yet, and a PATCH read the     *)
(* note it will write.                                                     *)
(***************************************************************************)
LEMMA StartInLine ==
  ASSUME IInv, SessionsInv, NEW r \in Reqs, Reqs = {r}, Start(r)
  PROVE  SessionsInv'
<1>1. ASSUME NEW u, NEW step, NEW cache, NEW arg, NEW borrowed,
             Begin(r, u, step, cache, arg, borrowed)
      PROVE  req'[r].step = step /\ req'[r].cache = cache /\ req[r].step = "idle"
  BY <1>1, BeginFacts
<1>2. req[r].step = "idle" => InLine
  BY DEF SessionsInv, SessionOK, Untouched
<1>3. ASSUME NEW cols \in Columns, CreateInsert(r, cols) PROVE SessionsInv'
  <2>1. req'[r].step = "create_refresh" /\ history' = <<>>
    BY <1>1, <1>3 DEF CreateInsert, IInv, NoOrphanVersions, Live
  <2>2. QED
    BY <2>1 DEF SessionsInv, SessionOK, Untouched, Carrying
<1>4. ASSUME UNCHANGED <<holder, fresh, noteVars>>, InLine,
             req'[r].step \in Untouched \cup {"edit_commit"},
             req'[r].step = "patch_commit" => req'[r].cache = note /\ (Public => holder # None)
      PROVE  SessionsInv'
  <2>1. InLine'
    BY <1>4, LineKept
  <2>2. QED
    BY <1>4, <2>1 DEF SessionsInv, SessionOK, Untouched, Carrying, noteVars, Public
<1>5. ASSUME NEW u \in Users, NEW arg, PatchRead(r, u, arg) PROVE SessionsInv'
  BY <1>1, <1>2, <1>4, <1>5, Constants DEF PatchRead, Holds, Untouched
<1>6. ASSUME NEW u, LockRead(r, u) \/ UnlockRead(r, u) PROVE SessionsInv'
  <2>1. UNCHANGED <<holder, fresh, noteVars>>
    BY <1>6 DEF LockRead, UnlockRead
  <2>2. req'[r].step \in {"lock_take", "unlock_release"} /\ req[r].step = "idle"
    BY <1>1, <1>6 DEF LockRead, UnlockRead
  <2>3. QED
    BY <1>2, <1>4, <2>1, <2>2 DEF Untouched
<1>7. ASSUME NEW u, NEW arg, BorrowingEdit(r, u, arg) PROVE SessionsInv'
  <2>1. UNCHANGED <<holder, fresh, noteVars>>
    BY <1>7 DEF BorrowingEdit
  <2>2. req'[r].step \in {"borrow_take", "edit_commit"} /\ req[r].step = "idle"
    BY <1>1, <1>7 DEF BorrowingEdit
  <2>3. QED
    BY <1>2, <1>4, <2>1, <2>2 DEF Untouched
<1>8. ASSUME NEW u \in Users, DeleteVersions(r, u) PROVE SessionsInv'
  <2>1. req'[r].step = "delete_note" /\ req[r].step = "idle"
    BY <1>8 DEF DeleteVersions, Free, IInv, TypeOK
  <2>2. QED
    BY <1>2, <1>4, <1>8, <2>1 DEF DeleteVersions, Untouched
<1>9. QED
  BY <1>3, <1>5, <1>6, <1>7, <1>8, Constants DEF Start, RestoreRead, UpdateRead

(***************************************************************************)
(* What is inserted behind the last version is the last one then.          *)
(***************************************************************************)
LEMMA AppendedLast ==
  ASSUME NEW s \in Seq(Version), NEW v \in Version
  PROVE  InsertAt(s, Len(s) + 1, v) # <<>> /\ Last(InsertAt(s, Len(s) + 1, v)) = v
<1>1. SubSeq(s, 1, Len(s)) = s /\ SubSeq(s, Len(s) + 1, Len(s)) = <<>>
  OBVIOUS
<1>2. InsertAt(s, Len(s) + 1, v) = SubSeq(s, 1, Len(s)) \o <<v>> \o SubSeq(s, Len(s) + 1, Len(s))
  <2>1. Len(s) + 1 - 1 = Len(s)
    OBVIOUS
  <2>2. QED
    BY <2>1 DEF InsertAt
<1>3. InsertAt(s, Len(s) + 1, v) = Append(s, v)
  <2>1. s \o <<v>> = Append(s, v) /\ Append(s, v) \in Seq(Version)
    OBVIOUS
  <2>2. Append(s, v) \o <<>> = Append(s, v)
    BY <2>1
  <2>3. QED
    BY <1>1, <1>2, <2>1, <2>2
<1>4. QED
  BY <1>3 DEF Last

(***************************************************************************)
(* With one request at a time nothing was inserted since it read the       *)
(* latest version, so its own becomes the latest.                          *)
(***************************************************************************)
LEMMA InsertsLast ==
  ASSUME IInv, SessionsInv, NEW r \in Reqs, VersionInsert(r), Live
  PROVE  history' # <<>> /\ Last(history') = NewVersion(r)
<1>1. req[r].seen = Sessions /\ req[r].cache \in Columns /\ req[r].user \in Users
  BY DEF VersionInsert, At, SessionsInv, SessionOK, IInv, RequestsOK, RequestOK
<1>2. Sessions \in Nat /\ history \in Seq(Version)
  BY DEF IInv, TypeOK, Sessions, Rooted
<1>3. PICK later \in 0..(Sessions - req[r].seen) :
        history' = InsertAt(history, Len(history) + 1 - later, NewVersion(r))
  BY DEF VersionInsert
<1>4. history' = InsertAt(history, Len(history) + 1, NewVersion(r))
  BY <1>1, <1>2, <1>3
<1>5. NewVersion(r) \in Version
  BY <1>1, AuthoredTyped DEF NewVersion
<1>6. QED
  BY <1>2, <1>4, <1>5, AppendedLast

(***************************************************************************)
(* record_session_version leaves a latest version that is the note: the    *)
(* one it read, which nothing else can have written since, or the one it   *)
(* inserts.                                                                *)
(***************************************************************************)
LEMMA RecordInLine ==
  ASSUME IInv, SessionsInv, NEW r \in Reqs, Reqs = {r},
         VersionNote(r) \/ VersionLatest(r) \/ VersionInsert(r)
  PROVE  SessionsInv'
<1>1. SessionOK(req[r]) /\ RequestOK(req[r]) /\ (~Live => history = <<>>)
  BY DEF SessionsInv, IInv, RequestsOK, NoOrphanVersions
<1>2. CASE VersionNote(r)
  <2>1. UNCHANGED noteVars
    BY <1>2 DEF VersionNote
  <2>2. CASE Live
    <3>1. req'[r].step = "version_latest" /\ req'[r].cache = note
      BY <1>2, <2>2, GotoFacts DEF VersionNote
    <3>2. QED
      BY <2>1, <3>1 DEF SessionsInv, SessionOK, Untouched, Carrying, noteVars
  <2>3. CASE ~Live
    <3>1. FinishOrRelease(r) /\ Recorded'
      BY <1>1, <1>2, <2>1, <2>3 DEF VersionNote, Recorded, noteVars
    <3>2. QED
      BY <3>1, EndsInLine
  <2>4. QED
    BY <2>2, <2>3
<1>3. CASE VersionLatest(r)
  <2>1. UNCHANGED noteVars /\ req[r].step = "version_latest" /\ req[r].cache = note
    BY <1>1, <1>3 DEF VersionLatest, At, SessionOK, Carrying
  <2>2. CASE history # <<>> /\ Snapshot(Last(history)) = req[r].cache
    <3>1. FinishOrRelease(r) /\ Recorded'
      BY <1>3, <2>1, <2>2 DEF VersionLatest, Recorded, noteVars, Snapshot
    <3>2. QED
      BY <3>1, EndsInLine
  <2>3. CASE ~FinishOrRelease(r)
    <3>1. /\ req'[r].step = "version_insert"
          /\ req'[r].cache = note' /\ req'[r].seen = Sessions'
      BY <1>3, <2>1, <2>3, LatestFacts DEF noteVars, Sessions, Rooted
    <3>2. QED
      BY <3>1 DEF SessionsInv, SessionOK, Untouched, Carrying
  <2>4. CASE FinishOrRelease(r) /\ ~(history # <<>> /\ Snapshot(Last(history)) = req[r].cache)
    <3>1. req'[r].step \in {"idle", "borrow_release"}
      BY <2>4, FinishFacts
    <3>2. req'[r].step = "version_insert"
      BY <1>3, <2>4 DEF VersionLatest, IInv, TypeOK, Request
    <3>3. QED
      BY <3>1, <3>2
  <2>5. QED
    BY <2>2, <2>3, <2>4
<1>4. CASE VersionInsert(r)
  <2>1. /\ req[r].step = "version_insert" /\ req[r].cache = note /\ req[r].seen = Sessions
        /\ req[r].cache \in Columns /\ req[r].user \in Users
    BY <1>1, <1>4 DEF VersionInsert, At, SessionOK, Carrying, RequestOK
  <2>2. note' = note /\ row' = row
    BY <1>4 DEF VersionInsert
  <2>3. CASE Live
    <3>1. Snapshot(NewVersion(r)) = note
      BY <2>1, SnapshotsAre DEF NewVersion
    <3>2. history' # <<>> /\ Last(history') = NewVersion(r)
      BY <1>4, <2>3, InsertsLast
    <3>3. Recorded' /\ FinishOrRelease(r)
      BY <1>4, <2>2, <2>3, <3>1, <3>2 DEF VersionInsert, Recorded, Snapshot
    <3>4. QED
      BY <3>3, EndsInLine
  <2>4. CASE ~Live
    BY <1>4, <2>2, <2>4, RaisedInLine DEF VersionInsert
  <2>5. QED
    BY <2>3, <2>4
<1>5. QED
  BY <1>2, <1>3, <1>4

(***************************************************************************)
(* Every later step, a deletion's and a creation's included.               *)
(***************************************************************************)
LEMMA ContinueInLine ==
  ASSUME IInv, SessionsInv, NEW r \in Reqs, Reqs = {r}, Continue(r)
  PROVE  SessionsInv'
<1>1. /\ SessionOK(req[r]) /\ RequestOK(req[r]) /\ req[r] \in Request
      /\ req \in [Reqs -> Request] /\ (~Live => history = <<>>)
  BY DEF SessionsInv, IInv, TypeOK, RequestsOK, NoOrphanVersions
<1>2. CASE CreateRefresh(r)
  <2>1. UNCHANGED noteVars /\ history = <<>>
    BY <1>1, <1>2 DEF CreateRefresh, At, SessionOK
  <2>2. CASE Live
    <3>1. req'[r].step = "create_root" /\ req'[r].cache = note
      BY <1>2, <2>2, GotoFacts DEF CreateRefresh
    <3>2. QED
      BY <2>1, <3>1 DEF SessionsInv, SessionOK, Untouched, Carrying, noteVars
  <2>3. CASE ~Live
    BY <1>2, <2>1, <2>3, EndsInLine DEF CreateRefresh, Recorded, noteVars
  <2>4. QED
    BY <2>2, <2>3
<1>3. CASE CreateRoot(r)
  <2>1. /\ history = <<>> /\ req[r].cache = note /\ req[r].cache \in Columns
        /\ Finish(r) /\ note' = note
    BY <1>1, <1>3 DEF CreateRoot, At, SessionOK, RequestOK, Carrying
  <2>2. CASE Live
    <3>1. history' = <<Root(note)>> \o history
      BY <1>3, <2>1, <2>2 DEF CreateRoot
    <3>2. history' = <<Root(note)>>
      BY <2>1, <3>1, RootTyped
    <3>3. Last(history') = Root(note) /\ Snapshot(Root(note)) = note
      BY <2>1, <3>2, SnapshotsAre, Constants DEF Last
    <3>4. QED
      BY <2>1, <3>3, EndsInLine DEF Recorded, Snapshot
  <2>3. CASE ~Live
    BY <1>3, <2>1, <2>3, EndsInLine DEF CreateRoot, Recorded
  <2>4. QED
    BY <2>2, <2>3
<1>4. CASE PatchCommit(r)
  <2>1. /\ InLine /\ (Public => holder # None) /\ Finish(r)
        /\ UNCHANGED <<holder, history>>
    BY <1>1, <1>4 DEF PatchCommit, At, SessionOK, Untouched
  <2>2. CASE ~Live
    BY <1>1, <2>1, <2>2, EndsInLine DEF Recorded
  <2>3. CASE Live
    <3>1. note = Snapshot(Last(history)) /\ Last(history).vis = "PUBLIC" => Public
      BY DEF Snapshot, Public
    <3>2. InLine'
      BY <2>1, <3>1 DEF InLine
    <3>3. QED
      BY <2>1, <3>2, EndsInLine
  <2>4. QED
    BY <2>2, <2>3
<1>5. CASE LockTake(r)
  <2>1. InLine /\ Finish(r) /\ UNCHANGED noteVars /\ req[r].user \in Users
    BY <1>1, <1>5 DEF LockTake, At, SessionOK, Untouched, RequestOK
  <2>2. holder' = None => holder = None
    BY <1>5, <2>1, Constants DEF LockTake, Grant, Take, leaseVars
  <2>3. QED
    BY <2>1, <2>2, LineKept, EndsInLine
<1>6. CASE UnlockRelease(r)
  <2>1. InLine /\ UNCHANGED noteVars
    BY <1>1, <1>6 DEF UnlockRelease, At, SessionOK, Untouched
  <2>2. CASE holder = req[r].user
    <3>1. req'[r].step = "version_note"
      BY <1>6, <2>2, GotoFacts DEF UnlockRelease
    <3>2. QED
      BY <3>1 DEF SessionsInv, SessionOK, Untouched, Carrying
  <2>3. CASE holder # req[r].user
    <3>1. req'[r].step = "close_check" /\ holder' = holder
      BY <1>6, <2>3, GotoFacts DEF UnlockRelease, leaseVars
    <3>2. QED
      BY <2>1, <3>1, LineKept DEF SessionsInv, SessionOK, Untouched, Carrying
  <2>4. QED
    BY <2>2, <2>3
<1>7. CASE CloseCheck(r)
  <2>1. InLine /\ UNCHANGED noteVars /\ InLine'
    BY <1>1, <1>7, LineKept DEF CloseCheck, At, SessionOK, Untouched
  <2>2. CASE Live /\ ~Public
    <3>1. req'[r].step = "version_latest" /\ req'[r].cache = note
      BY <1>7, <2>2, GotoFacts DEF CloseCheck
    <3>2. QED
      BY <2>1, <3>1 DEF SessionsInv, SessionOK, Untouched, Carrying, noteVars
  <2>3. CASE Finish(r)
    BY <2>1, <2>3, EndsInLine
  <2>4. QED
    BY <1>7, <2>2, <2>3 DEF CloseCheck
<1>8. CASE BorrowTake(r)
  <2>1. InLine /\ UNCHANGED noteVars /\ req[r].user \in Users
    BY <1>1, <1>8 DEF BorrowTake, At, SessionOK, Untouched, RequestOK
  <2>2. CASE Live /\ CanTake(req[r].user)
    <3>1. req'[r].step \in {"edit_commit", "edit_load"}
      BY <1>1, <1>8, <2>2 DEF BorrowTake, Request
    <3>2. QED
      BY <3>1 DEF SessionsInv, SessionOK, Untouched, Carrying
  <2>3. CASE ~(Live /\ CanTake(req[r].user))
    BY <1>8, <2>1, <2>3, LineKept, EndsInLine DEF BorrowTake, leaseVars
  <2>4. QED
    BY <2>2, <2>3
<1>9. CASE EditLoad(r)
  <2>1. UNCHANGED noteVars
    BY <1>9 DEF EditLoad
  <2>2. CASE Live
    <3>1. req'[r].step = "edit_commit"
      BY <1>1, <1>9, <2>2 DEF EditLoad, Request
    <3>2. QED
      BY <3>1 DEF SessionsInv, SessionOK, Untouched, Carrying
  <2>3. CASE ~Live
    BY <1>1, <1>9, <2>1, <2>3, EndsInLine DEF EditLoad, Recorded, noteVars
  <2>4. QED
    BY <2>2, <2>3
<1>10. CASE EditCommit(r)
  <2>1. CASE Live
    <3>1. req'[r].step = "version_note"
      BY <1>10, <2>1, GotoFacts DEF EditCommit
    <3>2. QED
      BY <3>1 DEF SessionsInv, SessionOK, Untouched, Carrying
  <2>2. CASE ~Live
    BY <1>10, <2>2, RaisedInLine DEF EditCommit
  <2>3. QED
    BY <2>1, <2>2
<1>11. CASE BorrowRelease(r)
  <2>1. Recorded'
    BY <1>1, <1>11 DEF BorrowRelease, At, SessionOK, Recorded, noteVars, Snapshot
  <2>2. QED
    BY <1>11, <2>1, EndsInLine DEF BorrowRelease
<1>12. CASE DeleteNote(r)
  <2>1. Finish(r)
    BY <1>12 DEF DeleteNote
  <2>2. CASE Live /\ Len(history) = req[r].seen
    <3>1. history' = SubSeq(history, Len(history) + 1, Len(history))
      BY <1>12, <2>2 DEF DeleteNote
    <3>2. history' = <<>>
      BY <3>1 DEF IInv, TypeOK
    <3>3. QED
      BY <2>1, <3>2, EndsInLine DEF Recorded
  <2>3. CASE ~(Live /\ Len(history) = req[r].seen)
    <3>1. InLine /\ UNCHANGED <<holder, fresh, noteVars>>
      BY <1>1, <1>12, <2>3 DEF DeleteNote, At, SessionOK, Untouched
    <3>2. QED
      BY <2>1, <3>1, LineKept, EndsInLine
  <2>4. QED
    BY <2>2, <2>3
<1>13. QED
  BY <1>2, <1>3, <1>4, <1>5, <1>6, <1>7, <1>8, <1>9, <1>10, <1>11, <1>12, RecordInLine
  DEF Continue

(***************************************************************************)
(* The end of one request is the start of the next.                        *)
(***************************************************************************)
LEMMA SessionsKept ==
  ASSUME NEW r \in Reqs, Reqs = {r}, Mortal = {}, Failing = {}
  PROVE  Spec => []SessionsInv
<1>1. Init => SessionsInv
  BY FreeOK DEF Init, SessionsInv, SessionOK, InLine, Carrying
<1>2. IInv /\ SessionsInv /\ [Next]_vars => SessionsInv'
  <2> SUFFICES ASSUME IInv, SessionsInv, [Next]_vars PROVE SessionsInv'
    OBVIOUS
  <2>1. CASE Start(r)
    BY <2>1, StartInLine
  <2>2. CASE Continue(r)
    BY <2>2, ContinueInLine
  <2>3. CASE Expire
    BY <2>3 DEF Expire, Lapse, noteVars, SessionsInv, SessionOK, InLine, Recorded, Snapshot, Public,
                Sessions, Rooted, Live
  <2>4. CASE UNCHANGED vars
    BY <2>4
    DEF vars, SessionsInv, SessionOK, InLine, Recorded, Snapshot, Public, Sessions, Rooted, Live
  <2>5. CASE Raised(r)
    <3>1. Finish(r) /\ ~Live /\ UNCHANGED noteVars
      BY <2>5 DEF Raised, At, SessionsInv, SessionOK
    <3>2. Recorded'
      BY <3>1 DEF IInv, NoOrphanVersions, Recorded, noteVars
    <3>3. QED
      BY <3>1, <3>2, EndsInLine
  <2>6. QED
    BY <2>1, <2>2, <2>3, <2>4, <2>5 DEF Next, Abort, BreakOff
<1>3. QED
  BY <1>1, <1>2, Inductive, PTL DEF Spec

(***************************************************************************)
(* FR-H1, one request at a time, none dying or failing half way: what was  *)
(* changed on a public note since its last public version has a holder of  *)
(* the lock to answer for it.  For any members, agents and history.        *)
(***************************************************************************)
THEOREM SessionsAnswerForChanges ==
  ASSUME NEW r \in Reqs, Reqs = {r}, Mortal = {}, Failing = {}
  PROVE  Spec => []SessionsStayOpen
<1>1. Spec => []SessionsInv
  BY SessionsKept
<1>2. SessionsInv => SessionsStayOpen
  <2> SUFFICES ASSUME SessionsInv PROVE SessionsStayOpen
    OBVIOUS
  <2>1. Quiet => InLine
    BY DEF Quiet, SessionsInv, SessionOK, Untouched
  <2>2. QED
    BY <2>1 DEF SessionsStayOpen, InLine, Snapshot
<1>3. QED
  BY <1>1, <1>2, PTL

----------------------------------------------------------------------------
(***************************************************************************)
(* The credit of a version, one request at a time.  First who can be at    *)
(* the note: a private note is its owner's alone, lock included; whoever   *)
(* edits a public one is its holder.                                       *)
(***************************************************************************)
CustodyOK(q) ==
    /\ ~Public => holder \in {Owner, None}
    /\ q.step \in {"lock_take", "unlock_release", "close_check", "borrow_take"} =>
         Public \/ q.user = Owner
    /\ q.step = "borrow_take" => Public
    /\ q.step = "patch_commit" => q.arg.vis = note.vis \/ q.user = Owner
    /\ q.step \in {"borrow_take", "edit_load", "edit_commit"} =>
         q.arg.vis = None \/ q.user = Owner
    /\ q.step \in {"patch_commit", "edit_load", "edit_commit"} =>
         IF Public THEN holder = q.user ELSE q.user = Owner

Custody == Live => \A r \in Reqs : CustodyOK(req[r])

(***************************************************************************)
(* What a granted borrower goes on with, and the restore of a member after *)
(* it has read the row again.                                              *)
(***************************************************************************)
LEMMA BorrowTakeFacts ==
  ASSUME IInv, NEW r \in Reqs, BorrowTake(r), Live, CanTake(req[r].user)
  PROVE  /\ req'[r].step \in {"edit_load", "edit_commit"}
         /\ req'[r].user = req[r].user /\ req'[r].arg = req[r].arg
         /\ holder' = req[r].user
<1> DEFINE step == IF req[r].user \in Agents THEN "edit_commit" ELSE "edit_load"
           new == [req[r] EXCEPT !.cache = Nothing, !.step = step]
<1>1. req \in [Reqs -> Request] /\ req[r] \in Request
  BY DEF IInv, TypeOK
<1>2. req' = [req EXCEPT ![r] = new]
  BY <1>1 DEF BorrowTake, Request
<1>3. req'[r] = new
  BY <1>1, <1>2
<1>4. /\ new.step \in {"edit_load", "edit_commit"}
      /\ new.user = req[r].user /\ new.arg = req[r].arg
  BY <1>1 DEF Request
<1>5. QED
  BY <1>3, <1>4 DEF BorrowTake, Grant, Take

LEMMA EditLoadFacts ==
  ASSUME IInv, NEW r \in Reqs, EditLoad(r), Live
  PROVE  /\ req'[r].step = "edit_commit"
         /\ req'[r].user = req[r].user /\ req'[r].arg = req[r].arg
<1> DEFINE new == [req[r] EXCEPT !.step = "edit_commit", !.cache.vis = note.vis]
<1>1. req \in [Reqs -> Request] /\ req[r] \in Request
  BY DEF IInv, TypeOK
<1>2. req' = [req EXCEPT ![r] = new]
  BY <1>1 DEF EditLoad, Request
<1>3. req'[r] = new
  BY <1>1, <1>2
<1>4. new.step = "edit_commit" /\ new.user = req[r].user /\ new.arg = req[r].arg
  BY <1>1 DEF Request
<1>5. QED
  BY <1>3, <1>4

\* A step that leaves the columns alone and a request in a state of which
\* nothing is asked.
Unasked == {"idle", "create_refresh", "create_root", "version_note", "version_latest",
            "version_insert", "borrow_release", "delete_note", "raised"}

LEMMA CustodyRests ==
  ASSUME Custody, NEW r \in Reqs, Reqs = {r}, note' = note, Live' => Live,
         holder' \in {holder, None}, req'[r].step \in Unasked
  PROVE  Custody'
<1>1. Live => (~Public => holder \in {Owner, None})
  BY DEF Custody, CustodyOK
<1>2. QED
  BY <1>1 DEF Custody, CustodyOK, Unasked, Public

(***************************************************************************)
(* The checks a request passes when it starts.                             *)
(***************************************************************************)
LEMMA CustodyStarts ==
  ASSUME IInv, Custody, NEW r \in Reqs, Reqs = {r}, Start(r)
  PROVE  Custody'
<1>1. ASSUME NEW u, NEW step, NEW cache, NEW arg, NEW borrowed,
             Begin(r, u, step, cache, arg, borrowed)
      PROVE  /\ req'[r].step = step /\ req'[r].user = u /\ req'[r].arg = arg
             /\ req[r].step = "idle"
  BY <1>1, BeginFacts
<1>2. Live => (~Public => holder \in {Owner, None})
  BY DEF Custody, CustodyOK
<1>3. ASSUME NEW cols \in Columns, CreateInsert(r, cols) PROVE Custody'
  <2>1. req'[r].step = "create_refresh" /\ holder' = None
    BY <1>1, <1>3 DEF CreateInsert, IInv, LockDiesWithNote, Live
  <2>2. QED
    BY <2>1 DEF Custody, CustodyOK
<1>4. ASSUME NEW u \in Users, NEW arg, PatchRead(r, u, arg) PROVE Custody'
  <2>1. /\ req'[r].step = "patch_commit" /\ req'[r].user = u /\ req'[r].arg = arg
        /\ UNCHANGED <<holder, row, note>>
    BY <1>1, <1>4 DEF PatchRead, noteVars
  <2>2. (arg.vis = note.vis \/ u = Owner) /\ (Public => holder = u) /\ (Public \/ u = Owner)
    BY <1>4 DEF PatchRead, Holds, Readable
  <2>3. QED
    BY <1>2, <2>1, <2>2 DEF Custody, CustodyOK, Public, Live
<1>5. ASSUME NEW u, LockRead(r, u) \/ UnlockRead(r, u) PROVE Custody'
  <2>1. /\ req'[r].step \in {"lock_take", "unlock_release"} /\ req'[r].user = u
        /\ UNCHANGED <<holder, row, note>> /\ (Public \/ u = Owner)
    BY <1>1, <1>5 DEF LockRead, UnlockRead, noteVars, Readable
  <2>2. QED
    BY <1>2, <2>1 DEF Custody, CustodyOK, Public, Live
<1>6. ASSUME NEW u, NEW arg, BorrowingEdit(r, u, arg), arg.vis = None \/ u = Owner
      PROVE  Custody'
  <2>1. req'[r].user = u /\ req'[r].arg = arg /\ UNCHANGED <<holder, row, note>>
    BY <1>1, <1>6 DEF BorrowingEdit, noteVars
  <2>2. IF MustBorrow(u) THEN req'[r].step = "borrow_take" ELSE req'[r].step = "edit_commit"
    BY <1>1, <1>6 DEF BorrowingEdit
  <2>3. Public \/ u = Owner
    BY <1>6 DEF BorrowingEdit, Readable
  <2>4. QED
    BY <1>2, <1>6, <2>1, <2>2, <2>3 DEF Custody, CustodyOK, MustBorrow, Holds, Public, Live
<1>7. ASSUME NEW u \in Users, DeleteVersions(r, u) PROVE Custody'
  <2>1. req'[r].step = "delete_note" /\ UNCHANGED <<holder, row, note>>
    BY <1>7 DEF DeleteVersions, Free, IInv, TypeOK, noteVars
  <2>2. QED
    BY <2>1, CustodyRests DEF Unasked, Live
<1>8. ASSUME NEW u, NEW v, RestoreRead(r, u, v) PROVE Custody'
  <2> DEFINE arg == [content |-> v.content, vis |-> IF u = Owner THEN v.vis ELSE None]
  <2>1. BorrowingEdit(r, u, arg) /\ (arg.vis = None \/ u = Owner)
    BY <1>8 DEF RestoreRead
  <2>2. QED
    BY <1>6, <2>1
<1>9. ASSUME NEW u, NEW c, UpdateRead(r, u, c) PROVE Custody'
  <2> DEFINE arg == [content |-> c, vis |-> None]
  <2>1. BorrowingEdit(r, u, arg) /\ arg.vis = None
    BY <1>9 DEF UpdateRead
  <2>2. QED
    BY <1>6, <2>1
<1>10. QED
  BY <1>3, <1>4, <1>5, <1>7, <1>8, <1>9, Constants DEF Start

(***************************************************************************)
(* What it goes by later is what it checked: no other request came in      *)
(* between.                                                                *)
(***************************************************************************)
LEMMA CustodyContinues ==
  ASSUME IInv, Custody, NEW r \in Reqs, Reqs = {r}, Continue(r)
  PROVE  Custody'
<1>1. /\ Live => CustodyOK(req[r])
      /\ RequestOK(req[r]) /\ ~Live => holder = None
      /\ req \in [Reqs -> Request]
  BY DEF Custody, IInv, TypeOK, RequestsOK, LockDiesWithNote
<1>2. Finish(r) => req'[r].step = "idle"
  BY FreeOK DEF Finish, IInv, TypeOK
<1>3. Finish(r) \/ FinishOrRelease(r) => req'[r].step \in {"idle", "borrow_release"}
  BY FinishFacts
<1>4. CASE \/ CreateRefresh(r) \/ CreateRoot(r) \/ VersionNote(r) \/ VersionInsert(r)
           \/ BorrowRelease(r)
  <2>1. note' = note /\ (Live' => Live) /\ holder' \in {holder, None}
    BY <1>4
    DEF CreateRefresh, CreateRoot, VersionNote, VersionInsert, BorrowRelease, Drop, noteVars,
        leaseVars, Live
  <2>2. req'[r].step \in {"idle", "borrow_release", "create_root", "version_latest", "raised"}
    BY <1>3, <1>4, GotoFacts
    DEF CreateRefresh, CreateRoot, VersionNote, VersionInsert, BorrowRelease, Raise
  <2>3. QED
    BY <2>1, <2>2, CustodyRests DEF Unasked
<1>5. CASE VersionLatest(r)
  <2>1. UNCHANGED <<note, row, holder>>
    BY <1>5 DEF VersionLatest, noteVars
  <2>2. req'[r].step \in {"idle", "borrow_release", "version_insert"}
    BY <1>3, <1>5, LatestFacts
  <2>3. QED
    BY <2>1, <2>2, CustodyRests DEF Unasked, Live
<1>6. CASE PatchCommit(r)
  <2>1. req'[r].step = "idle" /\ UNCHANGED <<holder, row>> /\ req[r].step = "patch_commit"
    BY <1>2, <1>6 DEF PatchCommit, At
  <2>2. CASE Live
    <3>1. note'.vis \in {note.vis, req[r].arg.vis}
      BY <1>6, <2>2 DEF PatchCommit, Updated, Write
    <3>2. ~Public' => holder \in {Owner, None}
      BY <1>1, <2>1, <2>2, <3>1 DEF CustodyOK, Public
    <3>3. QED
      BY <2>1, <3>2 DEF Custody, CustodyOK
  <2>3. CASE ~Live
    BY <2>1, <2>3 DEF Custody, Live
  <2>4. QED
    BY <2>2, <2>3
<1>7. CASE LockTake(r)
  <2>1. /\ req'[r].step = "idle" /\ UNCHANGED <<note, row>> /\ req[r].step = "lock_take"
        /\ holder' \in {holder, req[r].user}
    BY <1>2, <1>7 DEF LockTake, At, Grant, Take, leaseVars, noteVars
  <2>2. QED
    BY <1>1, <2>1 DEF Custody, CustodyOK, Public, Live
<1>8. CASE UnlockRelease(r)
  <2>1. UNCHANGED <<note, row>> /\ req[r].step = "unlock_release" /\ holder' \in {holder, None}
    BY <1>8 DEF UnlockRelease, At, Drop, leaseVars, noteVars
  <2>2. /\ req'[r].step \in {"version_note", "close_check"}
        /\ req'[r].user = req[r].user
    BY <1>8, GotoFacts DEF UnlockRelease
  <2>3. QED
    BY <1>1, <2>1, <2>2 DEF Custody, CustodyOK, Public, Live
<1>9. CASE CloseCheck(r)
  <2>1. UNCHANGED <<note, row, holder>>
    BY <1>9 DEF CloseCheck, noteVars
  <2>2. req'[r].step \in {"idle", "version_latest"}
    BY <1>2, <1>9, GotoFacts DEF CloseCheck
  <2>3. QED
    BY <2>1, <2>2, CustodyRests DEF Unasked, Live
<1>10. CASE BorrowTake(r)
  <2>1. UNCHANGED <<note, row>> /\ req[r].step = "borrow_take"
    BY <1>10 DEF BorrowTake, At, noteVars
  <2>2. CASE Live /\ CanTake(req[r].user)
    <3>1. /\ req'[r].step \in {"edit_load", "edit_commit"}
          /\ req'[r].user = req[r].user /\ req'[r].arg = req[r].arg
          /\ holder' = req[r].user
      BY <1>10, <2>2, BorrowTakeFacts
    <3>2. QED
      BY <1>1, <2>1, <2>2, <3>1 DEF Custody, CustodyOK, Public, Live
  <2>3. CASE ~(Live /\ CanTake(req[r].user))
    <3>1. req'[r].step = "idle" /\ holder' = holder
      BY <1>2, <1>10, <2>3 DEF BorrowTake, leaseVars
    <3>2. QED
      BY <2>1, <3>1, CustodyRests DEF Unasked, Live
  <2>4. QED
    BY <2>2, <2>3
<1>11. CASE EditLoad(r)
  <2>1. UNCHANGED <<note, row, holder>> /\ req[r].step = "edit_load"
    BY <1>11 DEF EditLoad, At, noteVars
  <2>2. CASE Live
    <3>1. /\ req'[r].step = "edit_commit"
          /\ req'[r].user = req[r].user /\ req'[r].arg = req[r].arg
      BY <1>11, <2>2, EditLoadFacts
    <3>2. QED
      BY <1>1, <2>1, <2>2, <3>1 DEF Custody, CustodyOK, Public, Live
  <2>3. CASE ~Live
    BY <2>1, <2>3 DEF Custody, Live
  <2>4. QED
    BY <2>2, <2>3
<1>12. CASE EditCommit(r)
  <2>1. UNCHANGED <<row, holder>> /\ req[r].step = "edit_commit"
    BY <1>12 DEF EditCommit, At
  <2>2. CASE Live
    <3>1. req'[r].step = "version_note"
      BY <1>12, <2>2, GotoFacts DEF EditCommit
    <3>2. note'.vis = note.vis \/ (note'.vis = req[r].arg.vis /\ req[r].arg.vis # None)
      BY <1>12, <2>2 DEF EditCommit, Updated, Write
    <3>3. ~Public' => holder \in {Owner, None}
      BY <1>1, <2>1, <2>2, <3>2 DEF CustodyOK, Public
    <3>4. QED
      BY <2>1, <3>1, <3>3 DEF Custody, CustodyOK
  <2>3. CASE ~Live
    BY <2>1, <2>3 DEF Custody, Live
  <2>4. QED
    BY <2>2, <2>3
<1>13. CASE DeleteNote(r)
  <2>1. req'[r].step = "idle"
    BY <1>2, <1>13 DEF DeleteNote
  <2>2. CASE Live /\ Len(history) = req[r].seen
    BY <1>13, <2>2 DEF DeleteNote, Custody, Live
  <2>3. CASE ~(Live /\ Len(history) = req[r].seen)
    BY <1>13, <2>1, <2>3, CustodyRests DEF DeleteNote, noteVars, Unasked, Live
  <2>4. QED
    BY <2>2, <2>3
<1>14. QED
  BY <1>4, <1>5, <1>6, <1>7, <1>8, <1>9, <1>10, <1>11, <1>12, <1>13 DEF Continue

(***************************************************************************)
(* Custody holds of the whole behaviour.                                   *)
(***************************************************************************)
LEMMA CustodyKept ==
  ASSUME NEW r \in Reqs, Reqs = {r}, Mortal = {}, Failing = {}
  PROVE  Spec => []Custody
<1>1. Init => Custody
  BY DEF Init, Custody, Live
<1>2. IInv /\ Custody /\ [Next]_vars => Custody'
  <2> SUFFICES ASSUME IInv, Custody, [Next]_vars PROVE Custody'
    OBVIOUS
  <2>1. CASE Expire
    BY <2>1 DEF Expire, Lapse, noteVars, Custody, CustodyOK, Public, Live
  <2>2. CASE UNCHANGED vars
    BY <2>2 DEF vars, Custody, CustodyOK, Public, Live
  <2>3. CASE Raised(r)
    <3>1. Finish(r) /\ UNCHANGED <<note, row, holder>>
      BY <2>3 DEF Raised, noteVars
    <3>2. req'[r].step = "idle"
      BY <3>1, FreeOK DEF Finish, IInv, TypeOK
    <3>3. QED
      BY <3>1, <3>2, CustodyRests DEF Unasked, Live
  <2>4. QED
    BY <2>1, <2>2, <2>3, CustodyStarts, CustodyContinues DEF Next, Abort, BreakOff
<1>3. QED
  BY <1>1, <1>2, Inductive, PTL DEF Spec

(***************************************************************************)
(* Whose changes are on the note and in no version yet: while nobody       *)
(* edits, the holder's; while a session is being recorded, those of the    *)
(* one it is recorded for; the owner's and those of the overtaken apart.   *)
(***************************************************************************)
Debtors(u) == writers \subseteq {u, Owner} \cup overtaken

Resting == Untouched \cup {"create_refresh", "create_root"}
Recorder == {"edit_load", "edit_commit", "version_note", "version_latest", "version_insert"}

DebtsOK(q) ==
    /\ q.step \in Resting => Debtors(holder)
    /\ q.step \in Recorder => Debtors(q.user)
    /\ q.step = "borrow_release" => writers = {}

Debts ==
    /\ writers \subseteq Users
    /\ row = "absent" => writers = {}
    /\ Live => \A r \in Reqs : DebtsOK(req[r])

\* Nobody owes anything once a version is in line with the note.
LEMMA DebtsPaid ==
  ASSUME AuditStep, RecordsNow
  PROVE  Debts'
<1>1. writers' = {}
  BY DEF AuditStep
<1>2. QED
  BY <1>1 DEF Debts, DebtsOK, Debtors

\* A step that does not write and does not record.
LEMMA DebtsMove ==
  ASSUME Debts, AuditStep, ~RecordsNow, WritesNow = {}
  PROVE  /\ writers' = writers /\ overtaken \subseteq overtaken'
         /\ Debtors(holder) /\ holder' # None => Debtors(holder)'
<1>1. writers' = writers /\ overtaken \subseteq overtaken'
  BY DEF AuditStep
<1>2. ASSUME Debtors(holder), holder' # None PROVE Debtors(holder)'
  <2>1. CASE holder' = holder
    BY <1>1, <1>2, <2>1 DEF Debtors
  <2>2. CASE holder' # holder /\ holder # None
    <3>1. holder \in overtaken'
      BY <1>2, <2>2 DEF AuditStep
    <3>2. QED
      BY <1>1, <1>2, <3>1 DEF Debtors
  <2>3. CASE holder = None
    <3>1. None \notin writers
      BY Constants DEF Debts
    <3>2. QED
      BY <1>1, <1>2, <2>3, <3>1 DEF Debtors
  <2>4. QED
    BY <2>1, <2>2, <2>3
<1>3. QED
  BY <1>1, <1>2

\* Only a commit writes.
LEMMA WritersAre ==
  ASSUME IInv, NEW r \in Reqs, Reqs = {r}
  PROVE  /\ WritesNow \subseteq {req[r].user} /\ WritesNow \subseteq Users
         /\ WritesNow # {} => /\ req[r].step \in {"patch_commit", "edit_commit"}
                              /\ note' # note
<1>1. ASSUME NEW u \in WritesNow
      PROVE  u = req[r].user /\ req[r].step \in {"patch_commit", "edit_commit"} /\ note' # note
  BY <1>1 DEF WritesNow
<1>2. req[r].step # "idle" => req[r].user \in Users
  BY DEF IInv, RequestsOK, RequestOK
<1>3. QED
  BY <1>1, <1>2

(***************************************************************************)
(* The first step of a request.                                            *)
(***************************************************************************)
LEMMA DebtsStart ==
  ASSUME IInv, Debts, Custody', NEW r \in Reqs, Reqs = {r}, Start(r), AuditStep,
         ~RecordsNow, Live'
  PROVE  DebtsOK(req[r])'
<1>1. req[r].step = "idle"
  BY DEF Start, CreateInsert, PatchRead, RestoreRead, LockRead, UnlockRead, UpdateRead,
         BorrowingEdit, DeleteVersions, Begin
<1>2. /\ writers' = writers
      /\ overtaken \subseteq overtaken'
  BY <1>1, WritersAre, DebtsMove
<1>3. CASE \E cols \in Columns : CreateInsert(r, cols)
  <2>1. writers' = {}
    BY <1>2, <1>3 DEF CreateInsert, Debts
  <2>2. QED
    BY <2>1 DEF DebtsOK, Debtors
<1>4. CASE ~\E cols \in Columns : CreateInsert(r, cols)
  <2>1. UNCHANGED <<holder, row>>
    BY <1>4
    DEF Start, PatchRead, RestoreRead, LockRead, UnlockRead, UpdateRead, BorrowingEdit,
        DeleteVersions, noteVars
  <2>2. Debtors(holder)
    BY <1>1, <2>1 DEF Debts, DebtsOK, Resting, Untouched, Live
  <2>3. Debtors(holder)'
    BY <1>2, <2>1, <2>2 DEF Debtors
  <2>4. req'[r].step \in Resting \cup {"edit_commit"}
    <3>1. ASSUME NEW u, NEW step, NEW cache, NEW arg, NEW borrowed,
                 Begin(r, u, step, cache, arg, borrowed)
          PROVE  req'[r].step = step
      BY <3>1, BeginFacts
    <3>2. ASSUME NEW u, NEW arg, BorrowingEdit(r, u, arg)
          PROVE  req'[r].step \in {"borrow_take", "edit_commit"}
      BY <3>1, <3>2 DEF BorrowingEdit
    <3>3. ASSUME NEW u, NEW arg, PatchRead(r, u, arg) PROVE req'[r].step = "patch_commit"
      BY <3>1, <3>3 DEF PatchRead
    <3>4. ASSUME NEW u, LockRead(r, u) \/ UnlockRead(r, u)
          PROVE  req'[r].step \in {"lock_take", "unlock_release"}
      BY <3>1, <3>4 DEF LockRead, UnlockRead
    <3>5. ASSUME NEW u \in Users, DeleteVersions(r, u) PROVE req'[r].step = "delete_note"
      BY <3>5 DEF DeleteVersions, Free, IInv, TypeOK
    <3>6. QED
      BY <1>4, <3>2, <3>3, <3>4, <3>5
      DEF Start, RestoreRead, UpdateRead, Resting, Untouched
  <2>5. CASE req'[r].step \in Resting
    BY <2>3, <2>5 DEF DebtsOK, Resting, Untouched, Recorder
  <2>6. CASE req'[r].step = "edit_commit"
    <3>1. CustodyOK(req[r])'
      BY DEF Custody
    <3>2. holder' \in {req'[r].user, Owner, None}
      BY <2>6, <3>1 DEF CustodyOK
    <3>3. None \notin writers'
      BY <1>2, Constants DEF Debts
    <3>4. Debtors(req[r].user)'
      BY <2>3, <3>2, <3>3 DEF Debtors
    <3>5. QED
      BY <2>6, <3>4 DEF DebtsOK, Resting, Untouched, Recorder
  <2>7. QED
    BY <2>4, <2>5, <2>6
<1>5. QED
  BY <1>3, <1>4

(***************************************************************************)
(* The later ones.                                                         *)
(***************************************************************************)
LEMMA DebtsContinue ==
  ASSUME IInv, SessionsInv, Custody, Debts, NEW r \in Reqs, Reqs = {r}, Continue(r), AuditStep,
         ~RecordsNow, Live'
  PROVE  DebtsOK(req[r])'
<1>1. Live
  BY DEF Continue, CreateRefresh, CreateRoot, PatchCommit, LockTake, UnlockRelease,
         CloseCheck, VersionNote, VersionLatest, VersionInsert, BorrowTake, EditLoad, EditCommit,
         BorrowRelease, DeleteNote, noteVars, Live
<1>2. /\ DebtsOK(req[r]) /\ CustodyOK(req[r]) /\ SessionOK(req[r])
      /\ req \in [Reqs -> Request] /\ None \notin writers
  BY <1>1, Constants DEF Debts, Custody, SessionsInv, IInv, TypeOK
<1>3. Finish(r) => req'[r].step = "idle"
  BY FreeOK DEF Finish, IInv, TypeOK
<1>4. req[r].step \notin {"patch_commit", "edit_commit"} =>
        /\ writers' = writers
        /\ overtaken \subseteq overtaken'
        /\ Debtors(holder) /\ holder' # None => Debtors(holder)'
  BY WritersAre, DebtsMove
<1>6. ASSUME req'[r].step \in Recorder, Debtors(req[r].user)'
      PROVE  DebtsOK(req[r])'
  BY <1>6 DEF DebtsOK, Resting, Untouched, Recorder
<1>7. ASSUME req'[r].step \in Resting, Debtors(holder)'
      PROVE  DebtsOK(req[r])'
  BY <1>7 DEF DebtsOK, Debtors, Resting, Untouched, Recorder
<1>8. CASE CreateRefresh(r) \/ CreateRoot(r)
  <2>1. req[r].step \in {"create_refresh", "create_root"} /\ holder' = holder
    BY <1>8 DEF CreateRefresh, CreateRoot, At
  <2>2. req'[r].step \in {"idle", "create_root"}
    BY <1>3, <1>8, GotoFacts DEF CreateRefresh, CreateRoot
  <2>3. QED
    BY <1>2, <1>4, <1>7, <2>1, <2>2 DEF DebtsOK, Debtors, Resting, Untouched
<1>9. CASE PatchCommit(r)
  <2>1. req'[r].step = "idle" /\ req[r].step = "patch_commit" /\ holder' = holder
    BY <1>3, <1>9 DEF PatchCommit, At
  <2>2. Debtors(holder) /\ req[r].user \in {holder, Owner}
    BY <1>2, <2>1 DEF DebtsOK, CustodyOK, Resting, Untouched
  <2>3. writers' \subseteq writers \cup {req[r].user} /\ overtaken' = overtaken
    BY <2>1, WritersAre DEF AuditStep
  <2>4. Debtors(holder)'
    BY <2>1, <2>2, <2>3 DEF Debtors
  <2>5. QED
    BY <1>7, <2>1, <2>4 DEF Resting, Untouched
<1>10. CASE LockTake(r)
  <2>1. req'[r].step = "idle" /\ req[r].step = "lock_take" /\ holder' \in {holder, req[r].user}
    BY <1>3, <1>10 DEF LockTake, At, Grant, Take, leaseVars
  <2>2. Debtors(holder) /\ req[r].user \in Users
    BY <1>2, <2>1 DEF DebtsOK, Resting, Untouched, IInv, RequestsOK, RequestOK
  <2>3. Debtors(holder)'
    BY <1>4, <2>1, <2>2, Constants DEF Debtors
  <2>4. QED
    BY <1>7, <2>1, <2>3 DEF Resting, Untouched
<1>11. CASE UnlockRelease(r)
  <2>1. req[r].step = "unlock_release"
    BY <1>11 DEF UnlockRelease, At
  <2>2. Debtors(holder) /\ writers' = writers /\ overtaken \subseteq overtaken'
    BY <1>2, <1>4, <2>1 DEF DebtsOK, Resting, Untouched
  <2>3. CASE holder = req[r].user
    <3>1. req'[r].step = "version_note" /\ req'[r].user = holder
      BY <1>11, <2>3, GotoFacts DEF UnlockRelease
    <3>2. Debtors(req[r].user)'
      BY <2>2, <3>1 DEF Debtors
    <3>3. QED
      BY <1>6, <3>1, <3>2 DEF Recorder
  <2>4. CASE holder # req[r].user
    <3>1. req'[r].step = "close_check" /\ holder' = holder
      BY <1>11, <2>4, GotoFacts DEF UnlockRelease, leaseVars
    <3>2. Debtors(holder)'
      BY <2>2, <3>1 DEF Debtors
    <3>3. QED
      BY <1>7, <3>1, <3>2 DEF Resting, Untouched
  <2>5. QED
    BY <2>3, <2>4
<1>12. CASE CloseCheck(r)
  <2>1. req[r].step = "close_check" /\ holder' = holder
    BY <1>12 DEF CloseCheck, At
  <2>2. Debtors(holder) /\ writers' = writers /\ overtaken \subseteq overtaken'
    BY <1>2, <1>4, <2>1 DEF DebtsOK, Resting, Untouched
  <2>3. CASE ~Public
    <3>1. req'[r].step = "version_latest" /\ req'[r].user = Owner
      BY <1>1, <1>2, <1>12, <2>1, <2>3, GotoFacts DEF CloseCheck, CustodyOK
    <3>2. Debtors(Owner)
      BY <1>2, <2>2, <2>3 DEF CustodyOK, Debtors
    <3>3. Debtors(req[r].user)'
      BY <2>2, <3>1, <3>2 DEF Debtors
    <3>4. QED
      BY <1>6, <3>1, <3>3 DEF Recorder
  <2>4. CASE Public
    <3>1. req'[r].step = "idle"
      BY <1>3, <1>12, <2>4 DEF CloseCheck
    <3>2. Debtors(holder)'
      BY <2>1, <2>2 DEF Debtors
    <3>3. QED
      BY <1>7, <3>1, <3>2 DEF Resting, Untouched
  <2>5. QED
    BY <2>3, <2>4
<1>13. CASE VersionNote(r)
  <2>1. /\ req[r].step = "version_note" /\ req'[r].step = "version_latest"
        /\ req'[r].user = req[r].user
    BY <1>1, <1>13, GotoFacts DEF VersionNote, At
  <2>2. Debtors(req[r].user)'
    BY <1>2, <1>4, <2>1 DEF DebtsOK, Recorder, Debtors
  <2>3. QED
    BY <1>6, <2>1, <2>2 DEF Recorder
<1>14. CASE VersionLatest(r)
  <2>1. req[r].step = "version_latest" /\ req[r].cache = note /\ history' = history
    BY <1>2, <1>14 DEF VersionLatest, At, SessionOK, Carrying, noteVars
  <2>2. CASE FinishOrRelease(r) /\ history # <<>> /\ Snapshot(Last(history)) = req[r].cache
    <3>1. req'[r].step # req[r].step
      BY <2>1, <2>2, FinishFacts
    <3>2. RecordsNow
      BY <2>1, <2>2, <3>1 DEF RecordsNow, Snapshot
    <3>3. QED
      BY <3>2
  <2>3. CASE ~FinishOrRelease(r)
    <3>1. req'[r].step = "version_insert" /\ req'[r].user = req[r].user
      BY <1>14, <2>3, LatestFacts
    <3>2. Debtors(req[r].user)'
      BY <1>2, <1>4, <2>1, <3>1 DEF DebtsOK, Recorder, Debtors
    <3>3. QED
      BY <1>6, <3>1, <3>2 DEF Recorder
  <2>4. CASE FinishOrRelease(r) /\ ~(history # <<>> /\ Snapshot(Last(history)) = req[r].cache)
    <3>1. req'[r].step \in {"idle", "borrow_release"}
      BY <2>4, FinishFacts
    <3>2. req'[r].step = "version_insert"
      BY <1>14, <2>4 DEF VersionLatest, IInv, TypeOK, Request
    <3>3. QED
      BY <3>1, <3>2
  <2>5. QED
    BY <2>2, <2>3, <2>4
<1>15. CASE VersionInsert(r)
  <2>1. /\ req[r].step = "version_insert" /\ req[r].cache = note
        /\ req[r].cache \in Columns /\ req[r].user \in Users
    BY <1>2, <1>15
    DEF VersionInsert, At, SessionOK, Carrying, IInv, RequestsOK, RequestOK
  <2>2. history' # <<>> /\ Last(history') = NewVersion(r) /\ Snapshot(NewVersion(r)) = note
    BY <1>1, <1>15, <2>1, InsertsLast, SnapshotsAre DEF NewVersion
  <2>3. req'[r].step # req[r].step
    BY <1>1, <1>15, <2>1, FinishFacts DEF VersionInsert
  <2>4. RecordsNow
    BY <2>1, <2>2, <2>3 DEF RecordsNow, Snapshot
  <2>5. QED
    BY <2>4
<1>16. CASE BorrowTake(r)
  <2>1. req[r].step = "borrow_take" /\ req[r].user \in Users
    BY <1>16 DEF BorrowTake, At, IInv, RequestsOK, RequestOK
  <2>2. Debtors(holder)
    BY <1>2, <2>1 DEF DebtsOK, Resting, Untouched
  <2>3. CASE CanTake(req[r].user)
    <3>1. /\ req'[r].step \in {"edit_load", "edit_commit"}
          /\ req'[r].user = req[r].user /\ holder' = req[r].user
      BY <1>1, <1>16, <2>3, BorrowTakeFacts
    <3>2. Debtors(holder)'
      BY <1>4, <2>1, <2>2, <3>1, Constants
    <3>3. Debtors(req[r].user)'
      BY <3>1, <3>2 DEF Debtors
    <3>4. QED
      BY <1>6, <3>1, <3>3 DEF Recorder
  <2>4. CASE ~CanTake(req[r].user)
    <3>1. req'[r].step = "idle" /\ holder' = holder
      BY <1>3, <1>16, <2>4 DEF BorrowTake, leaseVars
    <3>2. Debtors(holder)'
      BY <1>4, <2>1, <2>2, <3>1 DEF Debtors
    <3>3. QED
      BY <1>7, <3>1, <3>2 DEF Resting, Untouched
  <2>5. QED
    BY <2>3, <2>4
<1>17. CASE EditLoad(r)
  <2>1. /\ req[r].step = "edit_load" /\ req'[r].step = "edit_commit"
        /\ req'[r].user = req[r].user
    BY <1>1, <1>17, EditLoadFacts DEF EditLoad, At
  <2>2. Debtors(req[r].user)'
    BY <1>2, <1>4, <2>1 DEF DebtsOK, Recorder, Debtors
  <2>3. QED
    BY <1>6, <2>1, <2>2 DEF Recorder
<1>18. CASE EditCommit(r)
  <2>1. /\ req[r].step = "edit_commit" /\ req'[r].step = "version_note"
        /\ req'[r].user = req[r].user /\ holder' = holder
    BY <1>1, <1>18, GotoFacts DEF EditCommit, At
  <2>2. writers' \subseteq writers \cup {req[r].user} /\ overtaken' = overtaken
    BY <2>1, WritersAre DEF AuditStep
  <2>3. Debtors(req[r].user)'
    BY <1>2, <2>1, <2>2 DEF DebtsOK, Recorder, Debtors
  <2>4. QED
    BY <1>6, <2>1, <2>3 DEF Recorder
<1>19. CASE BorrowRelease(r)
  <2>1. req[r].step = "borrow_release" /\ req'[r].step = "idle"
    BY <1>3, <1>19 DEF BorrowRelease, At
  <2>2. writers' = {}
    BY <1>2, <1>4, <2>1 DEF DebtsOK
  <2>3. QED
    BY <2>2 DEF DebtsOK, Debtors
<1>20. CASE DeleteNote(r)
  <2>1. req[r].step = "delete_note" /\ req'[r].step = "idle" /\ holder' = holder
    BY <1>3, <1>20 DEF DeleteNote, At, Live
  <2>2. Debtors(holder)'
    BY <1>2, <1>4, <2>1 DEF DebtsOK, Resting, Untouched, Debtors
  <2>3. QED
    BY <1>7, <2>1, <2>2 DEF Resting, Untouched
<1>21. QED
  BY <1>8, <1>9, <1>10, <1>11, <1>12, <1>13, <1>14, <1>15, <1>16, <1>17, <1>18, <1>19, <1>20
  DEF Continue

(***************************************************************************)
(* A note that is not there yet was not there before.                      *)
(***************************************************************************)
LEMMA AbsentBefore ==
  ASSUME Next, row' = "absent"
  PROVE  row = "absent" /\ note' = note
<1>1. CASE Expire
  BY <1>1 DEF Expire, noteVars
<1>2. ASSUME NEW r \in Reqs, Start(r) PROVE UNCHANGED noteVars
  <2>1. ~\E cols \in Columns : CreateInsert(r, cols)
    BY DEF CreateInsert
  <2>2. QED
    BY <1>2, <2>1
    DEF Start, PatchRead, RestoreRead, LockRead, UnlockRead, UpdateRead, BorrowingEdit,
        DeleteVersions
<1>3. ASSUME NEW r \in Reqs, Abort(r) PROVE UNCHANGED noteVars
  BY <1>3 DEF Abort, BreakOff, Raised
<1>4. ASSUME NEW r \in Reqs, Continue(r) PROVE row' = row /\ (~Live => note' = note)
  <2>1. CASE PatchCommit(r) \/ EditCommit(r)
    BY <2>1 DEF PatchCommit, EditCommit
  <2>2. CASE DeleteNote(r)
    BY <2>2 DEF DeleteNote, noteVars
  <2>3. CASE CreateRoot(r) \/ VersionInsert(r)
    BY <2>3 DEF CreateRoot, VersionInsert
  <2>4. CASE ~(PatchCommit(r) \/ EditCommit(r) \/ DeleteNote(r) \/ CreateRoot(r)
                 \/ VersionInsert(r))
    BY <1>4, <2>4
    DEF Continue, CreateRefresh, LockTake, UnlockRelease, CloseCheck, VersionNote,
        VersionLatest, BorrowTake, EditLoad, BorrowRelease, noteVars
  <2>5. QED
    BY <2>1, <2>2, <2>3, <2>4
<1>5. QED
  BY <1>1, <1>2, <1>3, <1>4 DEF Next, noteVars, Live

(***************************************************************************)
(* Both together, the lapse of a lease and the records that settle all     *)
(* debts.                                                                  *)
(***************************************************************************)
LEMMA DebtsStep ==
  ASSUME IInv, SessionsInv, Custody, Custody', Debts, NEW r \in Reqs, Reqs = {r}, Mortal = {},
         Failing = {}, Next, AuditStep
  PROVE  Debts'
<1>1. CASE RecordsNow
  BY <1>1, DebtsPaid
<1>2. CASE ~RecordsNow
  <2>1. writers' = writers \cup WritesNow /\ WritesNow \subseteq Users
    BY <1>2, WritersAre DEF AuditStep
  <2>2. row' = "absent" => writers' = {}
    <3> SUFFICES ASSUME row' = "absent" PROVE writers' = {}
      OBVIOUS
    <3>1. row = "absent" /\ note' = note
      BY AbsentBefore
    <3>2. QED
      BY <2>1, <3>1, WritersAre DEF Debts
  <2>3. ASSUME Live' PROVE DebtsOK(req[r])'
    <3>1. CASE Expire
      <4>1. Live /\ req' = req /\ holder' = holder /\ note' = note
        BY <2>3, <3>1 DEF Expire, Lapse, noteVars, Live
      <4>2. DebtsOK(req[r]) /\ writers' = writers /\ overtaken \subseteq overtaken'
        BY <1>2, <4>1, WritersAre, DebtsMove DEF Debts
      <4>3. QED
        BY <4>1, <4>2 DEF DebtsOK, Debtors
    <3>2. CASE Start(r)
      BY <1>2, <2>3, <3>2, DebtsStart
    <3>3. CASE Continue(r)
      BY <1>2, <2>3, <3>3, DebtsContinue
    <3>4. ~Raised(r)
      BY <2>3 DEF Raised, At, SessionsInv, SessionOK, noteVars, Live
    <3>5. QED
      BY <3>1, <3>2, <3>3, <3>4 DEF Next, Abort, BreakOff
  <2>4. QED
    BY <2>1, <2>2, <2>3 DEF Debts
<1>3. QED
  BY <1>1, <1>2

(***************************************************************************)
(* Who a version names, one request at a time, none dying or failing half  *)
(* way: the changes it records are its author's, leaving aside those of    *)
(* the owner and those left behind by a holder whose stale lock was taken  *)
(* over.  For any members and agents and any number of sessions.           *)
(***************************************************************************)
THEOREM CreditIsTheAuthors ==
  ASSUME NEW r \in Reqs, Reqs = {r}, Mortal = {}, Failing = {}
  PROVE  AuditSpec => CreditIsBounded
<1>1. AuditInit => Init /\ Debts
  BY DEF AuditInit, Init, Debts, Live
<1>2. [Next /\ AuditStep]_<<vars, auditVars>> => [Next]_vars
  OBVIOUS
<1>3. IInv /\ SessionsInv /\ Custody /\ Custody' /\ Debts /\ [Next /\ AuditStep]_<<vars, auditVars>>
        => Debts'
  <2> SUFFICES ASSUME IInv, SessionsInv, Custody, Custody', Debts,
                      [Next /\ AuditStep]_<<vars, auditVars>>
               PROVE  Debts'
    OBVIOUS
  <2>1. CASE Next /\ AuditStep
    BY <2>1, DebtsStep
  <2>2. CASE UNCHANGED <<vars, auditVars>>
    BY <2>2 DEF vars, auditVars, Debts, DebtsOK, Debtors, Live
  <2>3. QED
    BY <2>1, <2>2
<1>4. IInv /\ SessionsInv /\ Debts /\ [Next]_vars
        => [Recording => writers \subseteq {Credited, Owner} \cup overtaken]_vars
  <2> SUFFICES ASSUME IInv, SessionsInv, Debts, Next, Recording
               PROVE  writers \subseteq {Credited, Owner} \cup overtaken
    OBVIOUS
  <2>1. req[r].step = "version_insert" /\ history' # history
    BY DEF Recording, At
  <2>2. VersionInsert(r)
    <3>1. ~Expire
      BY <2>1 DEF Expire, noteVars
    <3>2. ~Start(r)
      BY <2>1
      DEF Start, CreateInsert, PatchRead, RestoreRead, LockRead, UnlockRead, UpdateRead,
          BorrowingEdit, DeleteVersions, Begin
    <3>3. Continue(r)
      BY <2>1, <3>1, <3>2 DEF Next, Abort, BreakOff, Raised, noteVars
    <3>4. QED
      BY <2>1, <3>3
      DEF Continue, CreateRefresh, CreateRoot, PatchCommit, LockTake, UnlockRelease,
          CloseCheck, VersionNote, VersionLatest, BorrowTake, EditLoad, EditCommit,
          BorrowRelease, DeleteNote, At
  <2>3. Live
    BY <2>1, <2>2 DEF VersionInsert
  <2>4. Last(history') = NewVersion(r)
    BY <2>2, <2>3, InsertsLast
  <2>5. Credited = req[r].user
    BY <2>4 DEF Credited, NewVersion, Authored
  <2>6. Debtors(req[r].user)
    BY <2>1, <2>3 DEF Debts, DebtsOK, Recorder
  <2>7. QED
    BY <2>5, <2>6 DEF Debtors
<1>5. AuditSpec => Spec
  BY <1>1, <1>2, PTL DEF AuditSpec, Spec
<1>6. Spec => [](IInv /\ SessionsInv /\ Custody)
  BY Inductive, SessionsKept, CustodyKept, PTL
<1>7. AuditSpec => []Debts
  BY <1>1, <1>3, <1>5, <1>6, PTL DEF AuditSpec
<1>8. QED
  BY <1>2, <1>4, <1>5, <1>6, <1>7, PTL DEF AuditSpec, CreditIsBounded
============================================================================
