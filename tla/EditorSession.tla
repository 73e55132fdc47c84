---------------------------- MODULE EditorSession ----------------------------
(***************************************************************************)
(* One editor open on one note in one browser tab: the component           *)
(* NoteEditor with its two hooks, useNoteLock and useAutosave, talking to  *)
(* the notes API over a network, while somebody else works on the note.    *)
(*                                                                         *)
(* A call is sent, served and answered in three steps, and the answers of  *)
(* different calls arrive in any order.  At most one call of each flow is  *)
(* in flight at once.  Each handler below runs to its next await; React's  *)
(* rendering and effects are part of the handler that causes them, so the  *)
(* rendered status lags behind the ref only once the editor is unmounted.  *)
(* The server's handlers are atomic here (NoteService opens them up); the  *)
(* lock is the lease of EditLease.  A text is the set of keystrokes it     *)
(* contains, the member's own (mine) and the others' (theirs).             *)
(***************************************************************************)
EXTENDS EditLease, Naturals, FiniteSets

CONSTANTS Me, Other,   \* the member at the editor, another member
          Budgets      \* what may happen in a behaviour, see budget

ASSUME EditorAssumption ==
    Users = {Me, Other} /\ Me # Other /\ None \notin {"PRIVATE", "PUBLIC"}

VARIABLES row,     \* "live", or "gone" for this member: deleted, made private
          text,    \* the note's content and visibility in the database
          owner,   \* whose note it is
          tab,     \* the state of the browser tab
          typed,   \* history variable: how many keystrokes the member made
          budget   \* how many of each of these can still happen: keystrokes,
                   \* edits of the other, network faults, missed heartbeats,
                   \* visibility changes, notes taken away

vars == <<holder, fresh, row, text, owner, tab, typed, budget>>

Doc == [mine : SUBSET Nat, theirs : {edits \in SUBSET Nat : IsFiniteSet(edits)},
        vis : {"PRIVATE", "PUBLIC"}]
LockStatus == {"none", "pending", "mine", "locked", "available", "conflict"}
Flows == {"load", "poll", "beat", "take", "save", "last", "leave"}
Mishaps == {"lapse", "fault", "gone", "flip", "hurry", "stale poll", "stale take", "stale seed"}

NoDoc == [mine |-> {}, theirs |-> {}, vis |-> "PRIVATE"]
NoCall == [op |-> "none", at |-> "idle", sent |-> NoDoc, got |-> NoDoc, taken |-> FALSE]
\* at: on its way, or answered: ok, refused (held by another, lock required),
\* 404 or no answer at all.  taken: a fresh lock of somebody else came along.
Call == [op : {"none", "get", "lock", "patch", "retry", "archive", "delete"},
         at : {"idle", "sent", "ok", "held", "required", "gone", "error"},
         sent : Doc, got : Doc, taken : BOOLEAN]

Tab == [page : {"open", "closed", "dead"},
        note : {None, "PRIVATE", "PUBLIC"},      \* visibility last confirmed
        draft : Doc, touched : BOOLEAN,
        status : LockStatus, shown : LockStatus, \* the ref, the rendered one
        held : BOOLEAN, private : BOOLEAN,       \* heldRef, privateSessionRef
        beating : BOOLEAN, polling : BOOLEAN,    \* the two intervals
        dirty : BOOLEAN, saving : BOOLEAN, armed : BOOLEAN,
        leaving : {"no", "close", "archive"},    \* what awaits the flush
        overlay : {"none", "menu", "confirm"},   \* the owner's menu, its question
        calls : [Flows -> Call], releases : Nat, \* DELETEs of the lock on their way
        told : SUBSET Nat,       \* keystrokes the conflict panel gave up
        mishaps : SUBSET Mishaps]

TypeOK ==
    /\ LeaseTypeOK
    /\ row \in {"live", "gone"}
    /\ text \in Doc
    /\ owner \in Users
    /\ tab \in Tab
    /\ typed \in Nat

----------------------------------------------------------------------------
\* The tab, as functions from its state to its next one.

Idle(t, f) == t.calls[f].at = "idle"
Back(t, f) == t.calls[f].at \notin {"idle", "sent"}
Send(t, f, op, doc) == [t EXCEPT !.calls[f] = [NoCall EXCEPT !.op = op, !.at = "sent", !.sent = doc]]
Done(t, f) == [t EXCEPT !.calls[f] = NoCall]

Editable(t) == t.note # None /\ t.shown \in {"none", "mine"}
Noting(t, mishap) == [t EXCEPT !.mishaps = @ \cup {mishap}]
NotingIf(t, cond, mishap) == IF cond THEN Noting(t, mishap) ELSE t

\* statusRef is written at once, the rendered status by a mounted editor only.
Transition(t, next) ==
    [t EXCEPT !.status = next, !.shown = IF t.page = "open" THEN next ELSE @]

StopTimers(t) == [t EXCEPT !.beating = FALSE, !.polling = FALSE]
StartPolling(t) == [t EXCEPT !.polling = TRUE]

EnterConflict(t) ==
    LET told == IF t.page = "open" THEN t.told \cup 1..typed ELSE t.told
    IN Transition([StopTimers(t) EXCEPT !.held = FALSE, !.told = told], "conflict")

ReleaseLock(t) == [t EXCEPT !.releases = @ + 1]

\* Mutant: the cleanup gives the lock back and lets the heartbeat run on.
LeaveLifecycleBeating(t) ==
    CASE t.note = "PRIVATE" -> ReleaseLock([t EXCEPT !.private = FALSE])
      [] t.note = "PUBLIC" /\ t.held -> ReleaseLock([t EXCEPT !.held = FALSE])
      [] OTHER -> StopTimers(t)

\* The lifecycle effect: its cleanup ...
LeaveLifecycle(t) ==
    CASE t.note = "PRIVATE" -> ReleaseLock([t EXCEPT !.private = FALSE])
      [] t.note = "PUBLIC" /\ t.held -> ReleaseLock([StopTimers(t) EXCEPT !.held = FALSE])
      [] OTHER -> StopTimers(t)

\* Mutant: the editor opens without waiting for the lock.
EnterLifecycleAtOnce(t, vis, heldByOther) ==
    LET u == [t EXCEPT !.note = vis]
    IN IF vis = "PRIVATE"
       THEN Transition([u EXCEPT !.private = TRUE], "none")
       ELSE Send(Transition(u, "mine"), "take", "lock", NoDoc)

\* ... and its run for a note of this visibility, held by another or not.
EnterLifecycle(t, vis, heldByOther) ==
    LET u == [t EXCEPT !.note = vis]
    IN IF vis = "PRIVATE"
       THEN Transition([u EXCEPT !.private = TRUE], "none")
       ELSE IF heldByOther
       THEN StartPolling(Transition(u, "locked"))
       ELSE Send(Transition(u, "pending"), "take", "lock", NoDoc)

\* setNote: a mounted editor renders, and its effect follows the visibility.
SetNote(t, a, heldByOther) ==
    IF t.page # "open" \/ t.note = a.got.vis
    THEN t
    ELSE EnterLifecycle(NotingIf(LeaveLifecycle(t), t.note # None, "flip"),
                        a.got.vis, heldByOther)

ApplyServer(t, a, heldByOther) == SetNote([t EXCEPT !.draft = a.got], a, heldByOther)

\* onRefresh never clobbers the draft of whoever is rendered as the editor.
OnRefresh(t, a, heldByOther) ==
    IF t.shown # "mine" THEN ApplyServer(t, a, heldByOther) ELSE t

\* Mutants: the refresh replaces whatever draft there is; there is none.
AcquiredClobbering(t, a) ==
    SetNote(Transition([t EXCEPT !.draft = a.got, !.held = TRUE, !.polling = FALSE,
                                 !.beating = TRUE], "mine"), a, FALSE)
AcquiredUnsynced(t, a) ==
    Transition([t EXCEPT !.held = TRUE, !.polling = FALSE, !.beating = TRUE], "mine")

\* tryAcquire, answered 200: refresh first, then the lock is ours; a change of
\* visibility that came along takes effect when all this is rendered.
Acquired(t, a) ==
    LET refreshed == IF t.shown # "mine" THEN [t EXCEPT !.draft = a.got] ELSE t
        mine == NotingIf(Transition([refreshed EXCEPT !.held = TRUE, !.polling = FALSE,
                                                      !.beating = TRUE], "mine"),
                         ~Idle(t, "poll"), "stale poll")
    IN IF t.shown # "mine" THEN SetNote(mine, a, FALSE) ELSE mine

\* Mutant: a status the hook does not have.
NotAcquiredStale(t, heldByOther) ==
    StartPolling(Transition([t EXCEPT !.held = FALSE],
                            IF heldByOther THEN "locked" ELSE "stale"))

\* tryAcquire('locked'), refused or failed.
NotAcquired(t, heldByOther) ==
    LET lost == Transition([t EXCEPT !.held = FALSE],
                           IF heldByOther THEN "locked" ELSE "available")
    IN NotingIf(StartPolling(lost), t.shown = "mine", "stale take")

\* Unmount: the autosave's cleanup first, then the lock's.
Unmount(t) ==
    LET fired == IF t.dirty /\ ~t.saving /\ Editable(t)
                 THEN Send(t, "last", "patch", t.draft) ELSE t
        left == [LeaveLifecycle([fired EXCEPT !.armed = FALSE]) EXCEPT
                    !.page = "closed", !.leaving = "no"]
    IN NotingIf(left, ~Idle(t, "take"), "hurry")

\* useAutosave's run(), up to the first await of save().
Run(t) ==
    CASE t.saving -> t
      [] ~t.saving /\ ~t.dirty -> [t EXCEPT !.armed = FALSE]
      [] ~t.saving /\ t.dirty /\ ~Editable(t) -> [t EXCEPT !.armed = FALSE, !.dirty = FALSE]
      [] OTHER -> Send([t EXCEPT !.armed = FALSE, !.dirty = FALSE, !.saving = TRUE],
                       "save", "patch", t.draft)

\* What awaited the flush goes on.
Resume(t) ==
    CASE t.leaving = "close" -> Unmount(t)
      [] t.leaving = "archive" -> Send([t EXCEPT !.leaving = "no"], "leave", "archive", NoDoc)
      [] OTHER -> t

\* Mutants: a save that failed counts as one that did not; it leaves the timer
\* alone; it keeps whoever awaits the flush waiting.
SettleAnyway(t, f, ok) ==
    IF f = "last"
    THEN Done(t, f)
    ELSE Resume([Done(t, f) EXCEPT !.saving = FALSE, !.armed = @ \/ t.dirty])
SettleUnarmed(t, f, ok) ==
    IF f = "last"
    THEN Done(t, f)
    ELSE Resume([Done(t, f) EXCEPT !.saving = FALSE, !.dirty = @ \/ ~ok])
SettleWaiting(t, f, ok) ==
    LET u == [Done(t, f) EXCEPT !.saving = FALSE, !.dirty = @ \/ ~ok,
                                !.armed = @ \/ t.dirty \/ ~ok]
    IN IF f = "last" THEN Done(t, f) ELSE IF ok THEN Resume(u) ELSE u

\* run() after save(): edited meanwhile or not written, it arms the timer anew.
Settle(t, f, ok) ==
    IF f = "last"
    THEN Done(t, f)
    ELSE LET again == t.dirty \/ ~ok
         IN Resume([Done(t, f) EXCEPT !.saving = FALSE, !.dirty = again,
                                      !.armed = @ \/ again])

Blank == [page |-> "open", note |-> None, draft |-> NoDoc, touched |-> FALSE,
          status |-> "pending", shown |-> "pending", held |-> FALSE, private |-> FALSE,
          beating |-> FALSE, polling |-> FALSE, dirty |-> FALSE, saving |-> FALSE,
          armed |-> FALSE, leaving |-> "no", overlay |-> "none",
          calls |-> [f \in Flows |-> NoCall],
          releases |-> 0, told |-> {}, mishaps |-> {}]
\* Nothing of a tab that is closed matters but the calls it has sent.
Dead == [Blank EXCEPT !.page = "dead"]

----------------------------------------------------------------------------
Init ==
    /\ LeaseInit
    /\ row = "live"
    /\ owner \in Users
    /\ budget \in Budgets
    /\ typed = 0
    /\ \E vis \in {"PRIVATE", "PUBLIC"}, seeded, stale, locked \in BOOLEAN :
         /\ owner = Other => vis = "PUBLIC"
         /\ stale \/ locked => seeded
         /\ text = [NoDoc EXCEPT !.vis = vis, !.theirs = IF stale THEN {1} ELSE {}]
         /\ LET mounted == [Blank EXCEPT !.draft.vis = vis,
                                         !.mishaps = IF stale THEN {"stale seed"} ELSE {}]
                loading == Send(mounted, "load", "get", NoDoc)
            IN tab = IF seeded THEN EnterLifecycle(loading, vis, locked) ELSE loading

May(kind) == budget[kind] > 0
Spend(kind) == budget' = [budget EXCEPT ![kind] = @ - 1]

Mounted == tab.page = "open"
Alive == tab.page # "dead"
Sent(f) == tab.calls[f].at = "sent"
SentAs(f, ops) == Sent(f) /\ tab.calls[f].op \in ops
serverVars == <<holder, fresh, row, text, owner>>

----------------------------------------------------------------------------
\* The member at the editor.

Rendered == Mounted /\ tab.note # None

\* The editor is being left in the middle of something.
Busy(t) == t.saving \/ ~Idle(t, "take")

Queue(t) == NotingIf([t EXCEPT !.touched = TRUE, !.dirty = TRUE, !.armed = TRUE],
                     t.leaving # "no", "hurry")

\* A keystroke in the title or in a block, or a choice of colour, which is
\* flushed at once.
Edit(immediate) ==
    /\ Rendered /\ Editable(tab)
    /\ May("typing") /\ Spend("typing")
    /\ typed' = typed + 1
    /\ LET edited == Queue([tab EXCEPT !.draft.mine = @ \cup {typed + 1}])
       IN tab' = IF immediate THEN Run(edited) ELSE edited
    /\ UNCHANGED serverVars

Type == Edit(FALSE)
PickColor == Edit(TRUE)

\* The owner's switch, confirmed if the note is to be private.
ToggleVisibility ==
    /\ Rendered /\ Editable(tab) /\ owner = Me
    /\ May("flip") /\ Spend("flip")
    /\ tab' = Run(Queue([tab EXCEPT !.draft.vis = IF @ = "PUBLIC" THEN "PRIVATE" ELSE "PUBLIC"]))
    /\ UNCHANGED <<serverVars, typed>>

\* A field loses the focus.
Blur ==
    /\ Rendered /\ Editable(tab) /\ tab.dirty
    /\ tab' = Run(tab)
    /\ UNCHANGED <<serverVars, typed, budget>>

\* The debounce timer fires, the editor mounted or not.
TimerFires ==
    /\ Alive /\ tab.armed
    /\ tab' = Run([tab EXCEPT !.armed = FALSE])
    /\ UNCHANGED <<serverVars, typed, budget>>

\* Mutant: nothing is awaited.
FlushedBeforeNot(t, kind) == Resume([Run(t) EXCEPT !.leaving = kind])

\* await flush(), then leave.  flush() resolves at once when a save is already
\* in flight, or when there is nothing to save.
FlushedBefore(t, kind) ==
    LET flushing == [Run(t) EXCEPT !.leaving = kind]
    IN IF flushing.saving /\ ~t.saving THEN flushing ELSE Resume(NotingIf(flushing, Busy(t), "hurry"))

CanLeave == Rendered /\ tab.leaving = "no" /\ Idle(tab, "leave")

\* Done, the backdrop, Shift+Enter or the history link; Escape if no overlay is
\* open.
Close ==
    /\ CanLeave
    /\ tab' = FlushedBefore(tab, "close")
    /\ UNCHANGED <<serverVars, typed, budget>>

\* Escape, or a click outside.
CloseOverlay ==
    /\ Mounted /\ tab.overlay # "none"
    /\ tab' = [tab EXCEPT !.overlay = "none"]
    /\ UNCHANGED <<serverVars, typed, budget>>

OpenMenu ==
    /\ Rendered /\ owner = Me /\ tab.overlay = "none"
    /\ May("remove") /\ Spend("remove")
    /\ tab' = [tab EXCEPT !.overlay = "menu"]
    /\ UNCHANGED <<serverVars, typed>>

ArchiveNote ==
    /\ CanLeave /\ tab.overlay = "menu"
    /\ tab' = FlushedBefore([tab EXCEPT !.overlay = "none"], "archive")
    /\ UNCHANGED <<serverVars, typed, budget>>

AskDelete ==
    /\ Mounted /\ tab.overlay = "menu"
    /\ tab' = [tab EXCEPT !.overlay = "confirm"]
    /\ UNCHANGED <<serverVars, typed, budget>>

RemoveNote ==
    /\ CanLeave /\ tab.overlay = "confirm"
    /\ tab' = Send([tab EXCEPT !.overlay = "none"], "leave", "delete", NoDoc)
    /\ UNCHANGED <<serverVars, typed, budget>>

\* The browser's Back button: nothing is awaited.
GoBack ==
    /\ Mounted
    /\ May("rush") /\ Spend("rush")
    /\ tab' = Unmount(NotingIf(tab, tab.dirty \/ Busy(tab), "hurry"))
    /\ UNCHANGED <<serverVars, typed>>

\* The tab is closed: beforeunload, and no handler runs any more.
CloseTab ==
    /\ Mounted
    /\ May("rush") /\ Spend("rush")
    /\ tab' = [Dead EXCEPT !.releases = tab.releases + (IF tab.held \/ tab.private THEN 1 ELSE 0),
                           !.mishaps = tab.mishaps \cup {"hurry"},
                           !.calls = [f \in Flows |-> IF Sent(f) THEN tab.calls[f] ELSE NoCall]]
    /\ UNCHANGED <<serverVars, typed>>

\* "Modifier la note".
TakeOver ==
    /\ Mounted /\ tab.shown = "available" /\ Idle(tab, "take")
    /\ tab' = NotingIf(Send(tab, "take", "lock", NoDoc), tab.leaving # "no", "hurry")
    /\ UNCHANGED <<serverVars, typed, budget>>

\* "Passer en lecture seule".
GoReadOnly ==
    /\ Mounted /\ tab.shown = "conflict" /\ Idle(tab, "poll")
    /\ tab' = Send(StartPolling(Transition(tab, "locked")), "poll", "get", NoDoc)
    /\ UNCHANGED <<serverVars, typed, budget>>

----------------------------------------------------------------------------
\* The intervals.
HeartbeatTick ==
    /\ Alive /\ tab.beating /\ tab.status = "mine" /\ Idle(tab, "beat")
    /\ May("beats") /\ Spend("beats")
    /\ tab' = Send(tab, "beat", "lock", NoDoc)
    /\ UNCHANGED <<serverVars, typed>>

PollTick ==
    /\ Alive /\ tab.polling /\ tab.status \in {"locked", "available"} /\ Idle(tab, "poll")
    /\ May("polls") /\ Spend("polls")
    /\ tab' = Send(tab, "poll", "get", NoDoc)
    /\ UNCHANGED <<serverVars, typed>>

----------------------------------------------------------------------------
\* The server.
Readable(u) == row = "live" /\ (text.vis = "PUBLIC" \/ owner = u)

\* Nobody reads an answer once the tab is dead.
Answer(f, at, doc) ==
    tab' = IF Alive
           THEN [tab EXCEPT !.calls[f] = [@ EXCEPT !.at = at, !.got = doc,
                    !.taken = (tab.calls[f].op # "lock" /\ holder' = Other /\ fresh')]]
           ELSE Done(tab, f)

\* What a call without effect answers: the note is not there for this member.
ServeGone(f) ==
    /\ tab.calls[f].at = "sent" /\ ~Readable(Me)
    /\ UNCHANGED <<serverVars, typed, budget>>
    /\ Answer(f, "gone", NoDoc)

ServeGet(f) ==
    /\ SentAs(f, {"get"}) /\ Readable(Me)
    /\ UNCHANGED <<serverVars, typed, budget>>
    /\ Answer(f, "ok", text)

\* A refused caller is told the holder, if there is one still when it is read.
ServeLock(f) ==
    /\ SentAs(f, {"lock"}) /\ Readable(Me)
    /\ IF CanTake(Me)
       THEN Take(Me) /\ fresh' /\ Answer(f, "ok", IF f = "beat" THEN NoDoc ELSE text)
       ELSE UNCHANGED leaseVars /\ \E at \in {"held", "required"} : Answer(f, at, NoDoc)
    /\ UNCHANGED <<row, text, owner, typed, budget>>

\* Only the owner's payload carries the visibility.
Written(doc) == [doc EXCEPT !.vis = IF owner = Me THEN @ ELSE text.vis]

ServePatch(f) ==
    /\ SentAs(f, {"patch", "retry"}) /\ Readable(Me)
    /\ IF text.vis = "PUBLIC" /\ ~Holds(Me)
       THEN /\ UNCHANGED <<leaseVars, text>>
            /\ Answer(f, IF fresh THEN "held" ELSE "required", NoDoc)
       ELSE /\ text' = Written(tab.calls[f].sent)
            /\ UNCHANGED leaseVars
            /\ Answer(f, "ok", [NoDoc EXCEPT !.vis = text'.vis])
    /\ UNCHANGED <<row, owner, typed, budget>>

ServeLeave ==
    /\ SentAs("leave", {"archive", "delete"}) /\ Readable(Me)
    /\ row' = IF tab.calls["leave"].op = "delete" THEN "gone" ELSE row
    /\ IF row' = "gone" /\ holder # None THEN Drop(holder) ELSE UNCHANGED leaseVars
    /\ Answer("leave", "ok", NoDoc)
    /\ UNCHANGED <<text, owner, typed, budget>>

ServeRelease ==
    /\ tab.releases > 0
    /\ IF holder = Me THEN Drop(Me) ELSE UNCHANGED leaseVars
    /\ tab' = [tab EXCEPT !.releases = @ - 1]
    /\ UNCHANGED <<row, text, owner, typed, budget>>

\* The request or its answer is lost: either way fetch rejects.
LoseCall(f) ==
    /\ Alive /\ tab.calls[f].at \notin {"idle", "error"}
    /\ May("fault") /\ Spend("fault")
    /\ tab' = Noting([tab EXCEPT !.calls[f] = [@ EXCEPT !.at = "error", !.got = NoDoc]], "fault")
    /\ UNCHANGED <<serverVars, typed>>

LoseRelease ==
    /\ tab.releases > 0
    /\ May("fault") /\ Spend("fault")
    /\ tab' = Noting([tab EXCEPT !.releases = @ - 1], "fault")
    /\ UNCHANGED <<serverVars, typed>>

\* Somebody still sees to it that this member's lock does not expire.
Renewed ==
    /\ holder = Me
    /\ \/ tab.beating /\ tab.status = "mine"
       \/ \E f \in Flows : tab.calls[f].op = "lock"

Expire ==
    /\ Lapse /\ ~Renewed
    /\ UNCHANGED <<row, text, owner, tab, typed, budget>>

\* The heartbeats fail to come: a laptop asleep, a tab throttled, a slow answer.
ExpireUnnoticed ==
    /\ Lapse /\ Renewed
    /\ May("lapse") /\ Spend("lapse")
    /\ tab' = Noting(tab, "lapse")
    /\ UNCHANGED <<row, text, owner, typed>>

----------------------------------------------------------------------------
\* The answers.  A lock that was fresh when the server answered may have
\* expired by the client's clock.
HeldByOther(f, expired) == tab.calls[f].taken /\ ~expired

LoadAnswered(expired) ==
    /\ Alive /\ Back(tab, "load")
    /\ LET t == Done(tab, "load")
           a == tab.calls["load"]
       IN tab' = IF a.at = "ok" /\ Mounted /\ ~t.touched /\ t.shown # "mine"
                 THEN ApplyServer(t, a, HeldByOther("load", expired)) ELSE t
    /\ UNCHANGED <<serverVars, typed, budget>>

\* The status is looked at before the call and not again after it.
PollAnswered(expired) ==
    /\ Alive /\ Back(tab, "poll")
    /\ LET a == tab.calls["poll"]
           other == HeldByOther("poll", expired)
           t == OnRefresh(Done(tab, "poll"), a, other)
       IN tab' = CASE a.at = "ok" -> Transition(t, IF other THEN "locked" ELSE "available")
                   [] a.at = "gone" -> StopTimers(Done(tab, "poll"))
                   [] OTHER -> Done(tab, "poll")
    /\ UNCHANGED <<serverVars, typed, budget>>

BeatAnswered ==
    /\ Alive /\ Back(tab, "beat")
    /\ tab' = IF tab.calls["beat"].at \in {"held", "required"}
              THEN EnterConflict(Done(tab, "beat")) ELSE Done(tab, "beat")
    /\ UNCHANGED <<serverVars, typed, budget>>

TakeAnswered ==
    /\ Alive /\ Back(tab, "take")
    /\ LET a == tab.calls["take"]
           t == Done(tab, "take")
       IN tab' = IF a.at = "ok"
                 THEN Acquired(t, a)
                 ELSE NotAcquired(t, a.at = "held")
    /\ UNCHANGED <<serverVars, typed, budget>>

\* A save refused for want of a lock takes the lock again and tries once more.
\* A confirmed change is not rendered any more when the editor then closes.
SaveAnswered(f) ==
    /\ Alive /\ Back(tab, f)
    /\ LET a == tab.calls[f]
           mine == Acquired(tab, a)
           retrying == Send(mine, f, "retry", [mine.draft EXCEPT !.vis = a.sent.vis])
       IN tab' = CASE a.op \in {"patch", "retry"} /\ a.at = "ok" ->
                        Settle(IF tab.leaving = "close" THEN tab ELSE SetNote(tab, a, a.taken),
                               f, TRUE)
                   [] a.at \in {"gone", "error"} /\ a.op # "lock" -> Settle(tab, f, FALSE)
                   [] a.op = "patch" /\ a.at = "required" -> Send(tab, f, "lock", a.sent)
                   [] a.op = "lock" /\ a.at = "ok" -> retrying
                   [] OTHER -> Settle(EnterConflict(tab), f, TRUE)
    /\ UNCHANGED <<serverVars, typed, budget>>

LeaveAnswered ==
    /\ Alive /\ Back(tab, "leave")
    /\ LET t == Done(tab, "leave")
       IN tab' = IF tab.calls["leave"].at = "ok" /\ Mounted
                 THEN Unmount(NotingIf(t, t.dirty \/ Busy(t), "hurry")) ELSE t
    /\ UNCHANGED <<serverVars, typed, budget>>

----------------------------------------------------------------------------
\* The other member, whose client always starts from what the server has.
OtherTakes ==
    /\ Readable(Other) /\ CanTake(Other) /\ ~Holds(Other)
    /\ May("other") /\ Spend("other")
    /\ Take(Other) /\ fresh'
    /\ UNCHANGED <<row, text, owner, tab, typed>>

OtherEdits ==
    /\ Readable(Other) /\ text.vis = "PUBLIC" /\ Holds(Other)
    /\ May("edits") /\ Spend("edits")
    /\ text' = [text EXCEPT !.theirs = @ \cup {Cardinality(@) + 1}]
    /\ UNCHANGED <<leaseVars, row, owner, tab, typed>>

OtherReleases ==
    /\ Drop(Other)
    /\ UNCHANGED <<row, text, owner, tab, typed, budget>>

\* Their own note, deleted or made private: gone for this member.
OtherRemoves ==
    /\ owner = Other /\ row = "live"
    /\ May("gone") /\ Spend("gone")
    /\ row' = "gone"
    /\ IF holder = None THEN UNCHANGED leaseVars ELSE Drop(holder)
    /\ tab' = Noting(tab, "gone")
    /\ UNCHANGED <<text, owner, typed>>

----------------------------------------------------------------------------
Member ==
    \/ Type \/ PickColor \/ ToggleVisibility \/ Blur \/ Close
    \/ OpenMenu \/ CloseOverlay \/ ArchiveNote \/ AskDelete \/ RemoveNote \/ GoBack \/ CloseTab \/ TakeOver \/ GoReadOnly

Timers == TimerFires \/ HeartbeatTick \/ PollTick

Serve(f) == ServeGone(f) \/ ServeGet(f) \/ ServeLock(f) \/ ServePatch(f)
Server == ServeLeave \/ ServeRelease \/ \E f \in Flows : Serve(f)

LoadOrPollAnswered == \E expired \in BOOLEAN : LoadAnswered(expired) \/ PollAnswered(expired)

Answered ==
    \/ LoadOrPollAnswered
    \/ BeatAnswered \/ TakeAnswered \/ LeaveAnswered
    \/ SaveAnswered("save") \/ SaveAnswered("last")

Network == LoseRelease \/ Expire \/ ExpireUnnoticed \/ \E f \in Flows : LoseCall(f)
Others == OtherTakes \/ OtherEdits \/ OtherReleases \/ OtherRemoves

Next == Member \/ Timers \/ Server \/ Answered \/ Network \/ Others

Spec == Init /\ [][Next]_vars

\* The browser runs its timers and handlers, the server serves what reaches
\* it, an unrenewed lock expires.  Nothing obliges the members.
Fairness ==
    /\ WF_vars(TimerFires) /\ WF_vars(ServeRelease) /\ WF_vars(Expire)
    /\ \A f \in Flows : WF_vars(Serve(f))
    /\ WF_vars(ServeLeave) /\ WF_vars(LoadOrPollAnswered) /\ WF_vars(BeatAnswered)
    /\ WF_vars(TakeAnswered) /\ WF_vars(LeaveAnswered)
    /\ WF_vars(SaveAnswered("save")) /\ WF_vars(SaveAnswered("last"))

FairSpec == Spec /\ Fairness
----------------------------------------------------------------------------
Unless(mishaps) == tab.mishaps \cap mishaps # {}
Saved == ~tab.dirty /\ ~tab.saving
Settled == Idle(tab, "save") /\ Idle(tab, "last") /\ ~tab.armed
Kept(where) == 1..typed \subseteq where.mine \cup tab.told

(***************************************************************************)
(* While the editor is open every keystroke is in its draft, or the        *)
(* conflict panel has said that it was given up: no poll, acquisition,     *)
(* retry or revalidation replaces the draft under the member's hands.      *)
(* Except when the visibility is switched while typing, when a poll was in *)
(* flight while the lock was taken (stale poll), and when an acquisition   *)
(* is refused after a retried save has already taken the lock (stale       *)
(* take): the next poll then replaces what was typed in between.           *)
(***************************************************************************)
KeystrokesKept == Mounted => Kept(tab.draft) \/ Unless({"flip", "stale poll", "stale take"})

(***************************************************************************)
(* When the editor says that everything is saved (SaveStatus), it is: each *)
(* keystroke is in the database or was given up openly, whatever calls     *)
(* were lost and whatever was typed during a save.  Same exceptions.       *)
(***************************************************************************)
SavedMeansSaved ==
    Rendered /\ Saved /\ row = "live" /\ tab.shown \in {"none", "pending", "mine"} =>
      Kept(text) \/ Unless({"flip", "stale poll", "stale take"})

(***************************************************************************)
(* Leaving through the editor's own controls loses nothing either: once    *)
(* its last call is answered, all that was typed is in the database.       *)
(* Except by leaving in the middle of a save, and when any call was lost:  *)
(* the flush of the closing editor is not tried again.                     *)
(***************************************************************************)
ClosedMeansSaved ==
    tab.page = "closed" /\ Settled /\ row = "live" =>
      Kept(text) \/ Unless({"flip", "stale poll", "stale take", "hurry", "fault"})

(***************************************************************************)
(* An editor that is gone has no heartbeat, no poll and, by its own        *)
(* account, no lock: the client starts nothing more behind its member's    *)
(* back.  Except when it was left in the middle of a save or of an         *)
(* acquisition, a call was lost, or the visibility changed under it.  What *)
(* a heartbeat does that the server gets after the release is the matter   *)
(* of LockComesFree.                                                       *)
(***************************************************************************)
NoGhost ==
    tab.page = "closed" =>
      ~(tab.beating \/ tab.polling \/ tab.held) \/ Unless({"hurry", "fault", "flip"})

(***************************************************************************)
(* Who is shown the editor of a public note has its lock, as long as the   *)
(* heartbeats come in time and the visibility stays: two members are never *)
(* both told that they are editing.                                        *)
(***************************************************************************)
MineIsHeld ==
    Mounted /\ tab.shown = "mine" /\ row = "live" => Holds(Me) \/ Unless({"lapse", "flip"})

(***************************************************************************)
(* A save never takes back what somebody else has written: the lock        *)
(* excludes them, and each acquisition starts from what the server has     *)
(* (onRefresh).  Except when the lock lapsed and was taken again for the   *)
(* retry, from a stale copy the board or a poll passed on, when the        *)
(* visibility changes under the session (the release of a private one may  *)
(* overtake the lock of the public one), or by a save left behind.         *)
(***************************************************************************)
NoOverwrite ==
    [][\/ text.theirs \subseteq text'.theirs
       \/ Unless({"lapse", "stale seed", "flip", "stale poll"})
       \/ ~Mounted /\ Unless({"hurry", "fault"})]_vars

(***************************************************************************)
(* What is typed in an editor that stays open is in the end saved or given *)
(* up openly, for all the calls that get lost: the autosave always tries   *)
(* again, and a lost lock is noticed.                                      *)
(***************************************************************************)
EditsSettle ==
    Mounted /\ typed > 0 ~>
      Kept(text) \/ ~Mounted \/ row = "gone" \/ Unless({"flip", "stale poll", "stale take"})

(***************************************************************************)
(* An editor that was told to close does, though the save it waits for     *)
(* may fail, be refused or have to take the lock again.                    *)
(***************************************************************************)
CloseCloses == tab.leaving = "close" ~> ~Mounted

\* A heartbeat that runs on in an open tab without its editor.
Ghost == tab.page = "closed" /\ tab.beating /\ tab.status = "mine"

(***************************************************************************)
(* The lock of an editor that is gone, or whose tab is, comes free and     *)
(* stays so: it is released, or if the release is lost, or overtaken by a  *)
(* heartbeat, or an acquisition lands after the tab was closed, it         *)
(* expires.  Only the heartbeat of a ghost (NoGhost) keeps it.             *)
(***************************************************************************)
LockComesFree ==
    ~Mounted ~> [](~Holds(Me) \/ (Ghost /\ Unless({"hurry", "fault", "flip"})))

----------------------------------------------------------------------------
\* What the comments say and the code does not keep.

(***************************************************************************)
(* "Nothing is silently dropped" (useAutosave.ts): SavedMeansSaved with no *)
(* exception.                                                              *)
(***************************************************************************)
NothingSilentlyDropped ==
    Rendered /\ Saved /\ row = "live" /\ tab.shown \in {"none", "pending", "mine"} => Kept(text)

(***************************************************************************)
(* "Release on leaving the editor" (useNoteLock.ts): no heartbeat renews   *)
(* the lock for an editor that is not there.  TLC refutes it with the      *)
(* budgets RushBudgets (README.md).                                        *)
(***************************************************************************)
ReleasedOnLeaving == ~Ghost
=============================================================================
