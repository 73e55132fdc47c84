-------------------------- MODULE EditorTab_proofs --------------------------
(***************************************************************************)
(* What the operators of EditorSession make of a tab, and the invariant    *)
(* that says how its calls, its page and its note go together: the types   *)
(* of the component follow from it, and the later arguments rest on it     *)
(* (EditorSession_proofs, EditorSaves_proofs).                             *)
(***************************************************************************)
EXTENDS EditorSession, FiniteSetTheorems, TLAPS

(***************************************************************************)
(* What each operator changes, and that it changes nothing else.           *)
(***************************************************************************)

\* What the member looks at is the same.
SameView(t, u) == u.page = t.page /\ u.overlay = t.overlay

\* ... and what the member has edited, and what becomes of it, ...
SameEdit(t, u) ==
    /\ u.draft = t.draft /\ u.touched = t.touched /\ u.told = t.told
    /\ u.dirty = t.dirty /\ u.saving = t.saving /\ u.armed = t.armed /\ u.leaving = t.leaving

\* ... and what the editor knows of the lock, ...
SameLock(t, u) ==
    /\ u.note = t.note /\ u.status = t.status /\ u.shown = t.shown
    /\ u.held = t.held /\ u.private = t.private /\ u.beating = t.beating
    /\ u.polling = t.polling /\ u.releases = t.releases

\* ... and the calls, with the mishaps noted.
SameCalls(t, u) == u.calls = t.calls /\ u.mishaps = t.mishaps

\* The calls of the other flows are as they were.
OtherCalls(t, u, f) == \A g \in Flows : g # f => u.calls[g] = t.calls[g]

\* A call of this flow is on its way.
SentCall(u, f, op, doc) ==
    /\ u.calls[f].op = op /\ u.calls[f].at = "sent"
    /\ u.calls[f].sent = doc /\ u.calls[f].got = NoDoc

\* The empty text and the empty call have their types.
LEMMA DocTypes == NoDoc \in Doc /\ NoCall \in Call
BY FS_EmptySet DEF NoDoc, NoCall, Doc, Call

\* A tab of which one call has changed.
LEMMA CallsChange ==
  ASSUME NEW t \in Tab, NEW f \in Flows, NEW c \in Call
  PROVE  LET u == [t EXCEPT !.calls[f] = c] IN
         /\ u \in Tab /\ SameView(t, u) /\ SameEdit(t, u) /\ SameLock(t, u)
         /\ u.mishaps = t.mishaps /\ u.calls[f] = c /\ OtherCalls(t, u, f)
<1> DEFINE cs == [t.calls EXCEPT ![f] = c]
           u == [t EXCEPT !.calls[f] = c]
<1>1. cs \in [Flows -> Call] /\ cs[f] = c /\ \A g \in Flows : g # f => cs[g] = t.calls[g]
  BY DEF Tab
<1>2. u = [t EXCEPT !.calls = cs]
  OBVIOUS
<1> HIDE DEF cs, u
<1>3. u \in Tab /\ u.calls = cs /\ u.mishaps = t.mishaps
  BY <1>1, <1>2 DEF Tab
<1>4. SameView(t, u) /\ SameEdit(t, u) /\ SameLock(t, u)
  BY <1>1, <1>2 DEF Tab, SameView, SameEdit, SameLock
<1>5. QED
  BY <1>1, <1>3, <1>4 DEF u, OtherCalls

\* A call is over.
LEMMA DoneFacts ==
  ASSUME NEW t \in Tab, NEW f \in Flows
  PROVE  LET u == Done(t, f) IN
         /\ u \in Tab /\ SameView(t, u) /\ SameEdit(t, u) /\ SameLock(t, u)
         /\ u.mishaps = t.mishaps /\ u.calls[f].op = "none" /\ u.calls[f].at = "idle"
         /\ u.calls[f] = NoCall /\ OtherCalls(t, u, f)
<1>1. NoCall \in Call /\ NoCall.op = "none" /\ NoCall.at = "idle"
  BY DocTypes DEF NoCall
<1>2. QED
  BY <1>1, CallsChange DEF Done

\* A call goes out.
LEMMA SendFacts ==
  ASSUME NEW t \in Tab, NEW f \in Flows, NEW doc \in Doc,
         NEW op \in {"get", "lock", "patch", "retry", "archive", "delete"}
  PROVE  LET u == Send(t, f, op, doc) IN
         /\ u \in Tab /\ SameView(t, u) /\ SameEdit(t, u) /\ SameLock(t, u)
         /\ u.mishaps = t.mishaps /\ SentCall(u, f, op, doc) /\ OtherCalls(t, u, f)
<1> DEFINE c == [NoCall EXCEPT !.op = op, !.at = "sent", !.sent = doc]
           c1 == [NoCall EXCEPT !.op = op]
           c2 == [c1 EXCEPT !.at = "sent"]
<1>1. c1 \in Call
  BY DocTypes DEF Call
<1>2. c2 \in Call
  <2> HIDE DEF c1
  <2> QED BY <1>1 DEF Call
<1>3. [c2 EXCEPT !.sent = doc] \in Call
  <2> HIDE DEF c2
  <2> QED BY <1>2 DEF Call
<1>4. c \in Call
  BY <1>3
<1>5. c.op = op /\ c.at = "sent" /\ c.sent = doc /\ c.got = NoDoc
  BY DEF NoCall
<1> HIDE DEF c
<1>6. Send(t, f, op, doc) = [t EXCEPT !.calls[f] = c]
  BY DEF Send, c
<1>7. QED
  BY <1>4, <1>5, <1>6, CallsChange DEF SentCall

\* A mishap is noted, ...
LEMMA NotingFacts ==
  ASSUME NEW t \in Tab, NEW m \in Mishaps
  PROVE  LET u == Noting(t, m) IN
         /\ u \in Tab /\ SameView(t, u) /\ SameEdit(t, u) /\ SameLock(t, u)
         /\ u.calls = t.calls /\ u.mishaps = t.mishaps \cup {m}
BY DEF Noting, Tab, SameView, SameEdit, SameLock

\* ... or not.
LEMMA NotingIfFacts ==
  ASSUME NEW t \in Tab, NEW m \in Mishaps, NEW cond \in BOOLEAN
  PROVE  LET u == NotingIf(t, cond, m) IN
         /\ u \in Tab /\ SameView(t, u) /\ SameEdit(t, u) /\ SameLock(t, u)
         /\ u.calls = t.calls /\ t.mishaps \subseteq u.mishaps
         /\ cond => m \in u.mishaps
         /\ ~cond => u.mishaps = t.mishaps
BY NotingFacts DEF NotingIf, SameView, SameEdit, SameLock

\* useNoteLock.transition: the status, shown while the page is there.
LEMMA TransitionFacts ==
  ASSUME NEW t \in Tab, NEW next \in LockStatus
  PROVE  LET u == Transition(t, next) IN
         /\ u \in Tab /\ SameView(t, u) /\ SameEdit(t, u) /\ SameCalls(t, u)
         /\ u.note = t.note /\ u.held = t.held /\ u.private = t.private
         /\ u.beating = t.beating /\ u.polling = t.polling /\ u.releases = t.releases
         /\ u.status = next /\ u.shown = IF t.page = "open" THEN next ELSE t.shown
<1> DEFINE shown == IF t.page = "open" THEN next ELSE t.shown
<1>1. shown \in LockStatus
  BY DEF Tab
<1>2. Transition(t, next) = [t EXCEPT !.status = next, !.shown = shown]
  BY DEF Transition
<1> HIDE DEF shown
<1>3. QED
  BY <1>1, <1>2 DEF Tab, SameView, SameEdit, SameCalls, shown

\* The heartbeat and the poll are stopped.
LEMMA TimersFacts ==
  ASSUME NEW t \in Tab
  PROVE  /\ LET u == StopTimers(t) IN
            /\ u \in Tab /\ SameView(t, u) /\ SameEdit(t, u) /\ SameCalls(t, u)
            /\ u.note = t.note /\ u.held = t.held /\ u.private = t.private
            /\ u.releases = t.releases /\ u.status = t.status /\ u.shown = t.shown
            /\ ~u.beating /\ ~u.polling
         /\ LET u == StartPolling(t) IN
            /\ u \in Tab /\ SameView(t, u) /\ SameEdit(t, u) /\ SameCalls(t, u)
            /\ u.note = t.note /\ u.held = t.held /\ u.private = t.private
            /\ u.releases = t.releases /\ u.status = t.status /\ u.shown = t.shown
            /\ u.beating = t.beating /\ u.polling
BY DEF StopTimers, StartPolling, Tab, SameView, SameEdit, SameCalls

\* The lock is lost to somebody: nothing typed counts any more.
LEMMA ConflictFacts ==
  ASSUME NEW t \in Tab, typed \in Nat
  PROVE  LET u == EnterConflict(t) IN
         /\ u \in Tab /\ SameView(t, u) /\ SameCalls(t, u)
         /\ u.draft = t.draft /\ u.touched = t.touched /\ u.dirty = t.dirty
         /\ u.saving = t.saving /\ u.armed = t.armed /\ u.leaving = t.leaving
         /\ u.told = IF t.page = "open" THEN t.told \cup 1..typed ELSE t.told
         /\ u.note = t.note /\ u.private = t.private /\ u.releases = t.releases
         /\ ~u.held /\ ~u.beating /\ ~u.polling
         /\ u.status = "conflict" /\ u.shown = IF t.page = "open" THEN "conflict" ELSE t.shown
<1> DEFINE told == IF t.page = "open" THEN t.told \cup 1..typed ELSE t.told
           s == StopTimers(t)
           w == [s EXCEPT !.held = FALSE]
           v == [w EXCEPT !.told = told]
<1>1. told \in SUBSET Nat
  BY DEF Tab
<1>2. /\ s \in Tab /\ SameView(t, s) /\ SameEdit(t, s) /\ SameCalls(t, s)
      /\ s.note = t.note /\ s.private = t.private /\ s.releases = t.releases
      /\ ~s.beating /\ ~s.polling /\ s.shown = t.shown
  BY TimersFacts
<1> HIDE DEF told, s
<1>3. w \in Tab /\ SameView(s, w) /\ SameEdit(s, w) /\ SameCalls(s, w)
      /\ w.note = s.note /\ w.private = s.private /\ w.releases = s.releases
      /\ w.beating = s.beating /\ w.polling = s.polling /\ ~w.held
      /\ w.shown = s.shown
  BY <1>2 DEF Tab, SameView, SameEdit, SameCalls
<1> HIDE DEF w
<1>4. /\ v \in Tab /\ SameView(w, v) /\ SameCalls(w, v) /\ v.told = told
      /\ v.draft = w.draft /\ v.touched = w.touched /\ v.dirty = w.dirty
      /\ v.saving = w.saving /\ v.armed = w.armed /\ v.leaving = w.leaving
      /\ v.note = w.note /\ v.private = w.private /\ v.releases = w.releases
      /\ v.beating = w.beating /\ v.polling = w.polling /\ v.held = w.held
      /\ v.shown = w.shown
  BY <1>1, <1>3 DEF Tab, SameView, SameCalls
<1> HIDE DEF v
<1>5. v.page = t.page
  BY <1>2, <1>3, <1>4 DEF SameView
<1>6. EnterConflict(t) = Transition(v, "conflict")
  BY DEF EnterConflict, told, s, w, v
<1> DEFINE u == Transition(v, "conflict")
<1>7. /\ u \in Tab /\ SameView(v, u) /\ SameEdit(v, u) /\ SameCalls(v, u)
      /\ u.note = v.note /\ u.held = v.held /\ u.private = v.private
      /\ u.beating = v.beating /\ u.polling = v.polling /\ u.releases = v.releases
      /\ u.status = "conflict" /\ u.shown = IF v.page = "open" THEN "conflict" ELSE v.shown
  BY <1>4, TransitionFacts DEF LockStatus
<1>8. v.shown = t.shown
  BY <1>2, <1>3, <1>4
<1> HIDE DEF u
<1>9. SameView(t, u) /\ SameCalls(t, u)
  BY <1>2, <1>3, <1>4, <1>7 DEF SameView, SameCalls
<1>10. /\ u.draft = t.draft /\ u.touched = t.touched /\ u.dirty = t.dirty
       /\ u.saving = t.saving /\ u.armed = t.armed /\ u.leaving = t.leaving
       /\ u.told = told
  BY <1>2, <1>3, <1>4, <1>7 DEF SameEdit
<1>11. u = EnterConflict(t)
  BY <1>6 DEF u
<1>12. QED
  BY <1>2, <1>3, <1>4, <1>5, <1>7, <1>8, <1>9, <1>10, <1>11 DEF told

\* useNoteLock.release: one DELETE more on its way, if the lock was held.
LEMMA ReleaseFacts ==
  ASSUME NEW t \in Tab
  PROVE  LET u == ReleaseLock(t) IN
         /\ u \in Tab /\ SameView(t, u) /\ SameEdit(t, u) /\ SameCalls(t, u)
         /\ u.note = t.note /\ u.status = t.status /\ u.shown = t.shown
         /\ u.held = t.held /\ u.private = t.private /\ u.beating = t.beating
         /\ u.polling = t.polling
BY DEF ReleaseLock, Tab, SameView, SameEdit, SameCalls

\* The lock's part of the end of a session.
LEMMA LeaveFacts ==
  ASSUME NEW t \in Tab
  PROVE  LET u == LeaveLifecycle(t) IN
         /\ u \in Tab /\ SameView(t, u) /\ SameEdit(t, u) /\ SameCalls(t, u)
         /\ u.note = t.note /\ u.status = t.status /\ u.shown = t.shown
         /\ t.note = "PRIVATE" =>
              u.held = t.held /\ u.beating = t.beating /\ u.polling = t.polling
         /\ t.note # "PRIVATE" => ~u.beating /\ ~u.polling
         /\ t.note = "PUBLIC" => ~u.held
         /\ t.note = None =>
              u.held = t.held /\ u.private = t.private /\ u.releases = t.releases
<1>1. CASE t.note = "PRIVATE"
  <2> DEFINE w == [t EXCEPT !.private = FALSE]
  <2>1. /\ w \in Tab /\ SameView(t, w) /\ SameEdit(t, w) /\ SameCalls(t, w)
        /\ w.note = t.note /\ w.status = t.status /\ w.shown = t.shown
        /\ w.held = t.held /\ w.beating = t.beating /\ w.polling = t.polling
    BY DEF Tab, SameView, SameEdit, SameCalls
  <2>2. LeaveLifecycle(t) = ReleaseLock(w)
    BY <1>1 DEF LeaveLifecycle
  <2> HIDE DEF w
  <2>3. QED
    BY <1>1, <2>1, <2>2, ReleaseFacts, EditorAssumption DEF SameView, SameEdit, SameCalls
<1>2. CASE t.note = "PUBLIC" /\ t.held
  <2> DEFINE s == StopTimers(t)
             w == [s EXCEPT !.held = FALSE]
  <2>1. /\ s \in Tab /\ SameView(t, s) /\ SameEdit(t, s) /\ SameCalls(t, s)
        /\ s.note = t.note /\ s.status = t.status /\ s.shown = t.shown
        /\ ~s.beating /\ ~s.polling
    BY TimersFacts
  <2>2. LeaveLifecycle(t) = ReleaseLock(w)
    BY <1>2 DEF LeaveLifecycle
  <2> HIDE DEF s
  <2>3. /\ w \in Tab /\ SameView(s, w) /\ SameEdit(s, w) /\ SameCalls(s, w)
        /\ w.note = s.note /\ w.status = s.status /\ w.shown = s.shown
        /\ ~w.held /\ w.beating = s.beating /\ w.polling = s.polling
    BY <2>1 DEF Tab, SameView, SameEdit, SameCalls
  <2> HIDE DEF w
  <2> DEFINE u == ReleaseLock(w)
  <2>4. /\ u \in Tab /\ SameView(w, u) /\ SameEdit(w, u) /\ SameCalls(w, u)
        /\ u.note = w.note /\ u.status = w.status /\ u.shown = w.shown
        /\ u.held = w.held /\ u.beating = w.beating /\ u.polling = w.polling
    BY <2>3, ReleaseFacts
  <2>5. u = LeaveLifecycle(t)
    BY <2>2
  <2> HIDE DEF u
  <2>6. SameView(t, u) /\ SameEdit(t, u) /\ SameCalls(t, u)
    BY <2>1, <2>3, <2>4 DEF SameView, SameEdit, SameCalls
  <2>7. QED
    BY <1>2, <2>1, <2>3, <2>4, <2>5, <2>6, EditorAssumption
<1>3. CASE t.note # "PRIVATE" /\ ~(t.note = "PUBLIC" /\ t.held)
  <2>1. LeaveLifecycle(t) = StopTimers(t)
    BY <1>3 DEF LeaveLifecycle, Tab
  <2>2. t.note = "PUBLIC" => t.held = FALSE
    BY <1>3 DEF Tab
  <2>3. QED
    BY <1>3, <2>1, <2>2, TimersFacts, EditorAssumption
<1>4. QED
  BY <1>1, <1>2, <1>3

\* The lock's part of the beginning of a session.
LEMMA EnterFacts ==
  ASSUME NEW t \in Tab, NEW vis \in {"PRIVATE", "PUBLIC"}, NEW other \in BOOLEAN
  PROVE  LET u == EnterLifecycle(t, vis, other) IN
         /\ u \in Tab /\ SameView(t, u) /\ SameEdit(t, u) /\ u.mishaps = t.mishaps
         /\ u.note = vis /\ u.held = t.held /\ u.beating = t.beating
         /\ u.releases = t.releases
         /\ u.shown = IF t.page = "open" THEN u.status ELSE t.shown
         /\ vis = "PRIVATE" => u.calls = t.calls /\ u.polling = t.polling /\ u.status = "none"
         /\ vis = "PUBLIC" /\ other => u.calls = t.calls /\ u.status = "locked"
         /\ vis = "PUBLIC" /\ ~other =>
              /\ SentCall(u, "take", "lock", NoDoc) /\ OtherCalls(t, u, "take")
              /\ u.polling = t.polling /\ u.status = "pending"
<1> DEFINE w == [t EXCEPT !.note = vis]
           v == [w EXCEPT !.private = TRUE]
<1>1. /\ w \in Tab /\ SameView(t, w) /\ SameEdit(t, w) /\ SameCalls(t, w)
      /\ w.note = vis /\ w.status = t.status /\ w.shown = t.shown
      /\ w.held = t.held /\ w.private = t.private /\ w.beating = t.beating
      /\ w.polling = t.polling /\ w.releases = t.releases
  BY DEF Tab, SameView, SameEdit, SameCalls
<1>2. EnterLifecycle(t, vis, other) =
        IF vis = "PRIVATE" THEN Transition(v, "none")
        ELSE IF other THEN StartPolling(Transition(w, "locked"))
        ELSE Send(Transition(w, "pending"), "take", "lock", NoDoc)
  BY DEF EnterLifecycle
<1> HIDE DEF w
<1>3. CASE vis = "PRIVATE"
  <2>1. /\ v \in Tab /\ SameView(w, v) /\ SameEdit(w, v) /\ SameCalls(w, v)
        /\ v.note = w.note /\ v.status = w.status /\ v.shown = w.shown
        /\ v.held = w.held /\ v.beating = w.beating
        /\ v.polling = w.polling /\ v.releases = w.releases
    BY <1>1 DEF Tab, SameView, SameEdit, SameCalls
  <2> HIDE DEF v
  <2>2. QED
    BY <1>1, <1>2, <1>3, <2>1, TransitionFacts DEF SameView, SameEdit, SameCalls, LockStatus
<1>4. CASE vis = "PUBLIC" /\ other
  <2> DEFINE s == Transition(w, "locked")
  <2>1. /\ s \in Tab /\ SameView(w, s) /\ SameEdit(w, s) /\ SameCalls(w, s)
        /\ s.note = w.note /\ s.held = w.held /\ s.beating = w.beating
        /\ s.releases = w.releases
        /\ s.status = "locked" /\ s.shown = IF w.page = "open" THEN "locked" ELSE w.shown
    BY <1>1, TransitionFacts DEF LockStatus
  <2>2. EnterLifecycle(t, vis, other) = StartPolling(s)
    BY <1>2, <1>4
  <2> HIDE DEF s
  <2> DEFINE u == StartPolling(s)
  <2>3. /\ u \in Tab /\ SameView(s, u) /\ SameEdit(s, u) /\ SameCalls(s, u)
        /\ u.note = s.note /\ u.held = s.held /\ u.beating = s.beating
        /\ u.releases = s.releases /\ u.status = s.status /\ u.shown = s.shown
    BY <2>1, TimersFacts
  <2>4. u = EnterLifecycle(t, vis, other)
    BY <2>2
  <2> HIDE DEF u
  <2>5. SameView(t, u) /\ SameEdit(t, u) /\ SameCalls(t, u)
    BY <1>1, <2>1, <2>3 DEF SameView, SameEdit, SameCalls
  <2>6. w.page = t.page
    BY <1>1 DEF SameView
  <2>7. QED
    BY <1>1, <1>4, <2>1, <2>3, <2>4, <2>5, <2>6 DEF SameCalls
<1>5. CASE vis = "PUBLIC" /\ ~other
  <2> DEFINE s == Transition(w, "pending")
  <2>1. /\ s \in Tab /\ SameView(w, s) /\ SameEdit(w, s) /\ SameCalls(w, s)
        /\ s.note = w.note /\ s.held = w.held /\ s.beating = w.beating
        /\ s.polling = w.polling /\ s.releases = w.releases
        /\ s.status = "pending" /\ s.shown = IF w.page = "open" THEN "pending" ELSE w.shown
    BY <1>1, TransitionFacts DEF LockStatus
  <2>2. EnterLifecycle(t, vis, other) = Send(s, "take", "lock", NoDoc)
    BY <1>2, <1>5
  <2> HIDE DEF s
  <2> DEFINE u == Send(s, "take", "lock", NoDoc)
  <2>3. /\ u \in Tab /\ SameView(s, u) /\ SameEdit(s, u) /\ SameLock(s, u)
        /\ u.mishaps = s.mishaps /\ SentCall(u, "take", "lock", NoDoc)
        /\ OtherCalls(s, u, "take")
    BY <2>1, SendFacts, DocTypes DEF Flows
  <2>4. u = EnterLifecycle(t, vis, other)
    BY <2>2
  <2> HIDE DEF u
  <2>5. SameView(t, u) /\ SameEdit(t, u) /\ u.mishaps = t.mishaps /\ OtherCalls(t, u, "take")
    BY <1>1, <2>1, <2>3 DEF SameView, SameEdit, SameCalls, OtherCalls
  <2>6. w.page = t.page
    BY <1>1 DEF SameView
  <2>7. QED
    BY <1>1, <1>5, <2>1, <2>3, <2>4, <2>5, <2>6 DEF SameLock
<1>6. QED
  BY <1>3, <1>4, <1>5

\* The note is known, or known anew: a session ends, another begins.
LEMMA SetNoteFacts ==
  ASSUME NEW t \in Tab, NEW a \in Call, NEW other \in BOOLEAN
  PROVE  LET u == SetNote(t, a, other)
             vis == a.got.vis IN
         /\ u \in Tab /\ SameView(t, u) /\ SameEdit(t, u) /\ OtherCalls(t, u, "take")
         /\ t.mishaps \subseteq u.mishaps
         /\ t.page # "open" \/ t.note = vis => u = t
         /\ t.page = "open" /\ t.note # vis =>
              /\ u.note = vis /\ u.shown = u.status
              /\ t.note # None => "flip" \in u.mishaps
              /\ t.note = None => /\ u.mishaps = t.mishaps /\ u.held = t.held
                                  /\ ~u.beating /\ u.releases = t.releases
              /\ vis = "PRIVATE" => u.calls = t.calls /\ u.status = "none"
              /\ vis = "PRIVATE" /\ t.note = None => ~u.polling
              /\ vis = "PUBLIC" /\ other => u.calls = t.calls /\ u.status = "locked"
              /\ vis = "PUBLIC" /\ ~other =>
                   SentCall(u, "take", "lock", NoDoc) /\ u.status = "pending"
<1> DEFINE vis == a.got.vis
           l == LeaveLifecycle(t)
           n == NotingIf(l, t.note # None, "flip")
           e == EnterLifecycle(n, vis, other)
<1>1. vis \in {"PRIVATE", "PUBLIC"}
  BY DEF Call, Doc
<1>2. CASE t.page # "open" \/ t.note = vis
  BY <1>2 DEF SetNote, SameView, SameEdit, OtherCalls
<1>3. CASE t.page = "open" /\ t.note # vis
  <2>1. SetNote(t, a, other) = e
    BY <1>3 DEF SetNote
  <2>2. /\ l \in Tab /\ SameView(t, l) /\ SameEdit(t, l) /\ SameCalls(t, l)
        /\ t.note # "PRIVATE" => ~l.beating /\ ~l.polling
        /\ t.note = None => l.held = t.held /\ l.releases = t.releases
    BY LeaveFacts
  <2> HIDE DEF l
  <2>3. /\ n \in Tab /\ SameView(l, n) /\ SameEdit(l, n) /\ SameLock(l, n)
        /\ n.calls = l.calls /\ l.mishaps \subseteq n.mishaps
        /\ t.note # None => "flip" \in n.mishaps
        /\ t.note = None => n.mishaps = l.mishaps
    BY <2>2, NotingIfFacts DEF Mishaps
  <2> HIDE DEF n, vis
  <2>4. /\ e \in Tab /\ SameView(n, e) /\ SameEdit(n, e) /\ e.mishaps = n.mishaps
        /\ e.note = vis /\ e.held = n.held /\ e.beating = n.beating
        /\ e.releases = n.releases
        /\ e.shown = IF n.page = "open" THEN e.status ELSE n.shown
        /\ vis = "PRIVATE" => e.calls = n.calls /\ e.polling = n.polling /\ e.status = "none"
        /\ vis = "PUBLIC" /\ other => e.calls = n.calls /\ e.status = "locked"
        /\ vis = "PUBLIC" /\ ~other =>
              /\ SentCall(e, "take", "lock", NoDoc) /\ OtherCalls(n, e, "take")
              /\ e.polling = n.polling /\ e.status = "pending"
    BY <1>1, <2>3, EnterFacts
  <2> HIDE DEF e
  <2>5. SameView(t, e) /\ SameEdit(t, e)
    BY <2>2, <2>3, <2>4 DEF SameView, SameEdit
  <2>6. OtherCalls(t, e, "take")
    BY <1>1, <2>2, <2>3, <2>4 DEF SameCalls, OtherCalls
  <2>7. n.page = "open"
    BY <1>3, <2>2, <2>3 DEF SameView
  <2>8. t.note = None => e.held = t.held /\ ~e.beating /\ e.releases = t.releases /\ (vis = "PRIVATE" => ~e.polling)
    BY <2>2, <2>3, <2>4, EditorAssumption DEF SameLock
  <2>9. t.mishaps \subseteq e.mishaps
    BY <2>2, <2>3, <2>4 DEF SameCalls
  <2>10. t.note = None => e.mishaps = t.mishaps
    BY <2>2, <2>3, <2>4 DEF SameCalls
  <2>11. vis = "PRIVATE" \/ (vis = "PUBLIC" /\ other) => e.calls = t.calls
    BY <2>2, <2>3, <2>4 DEF SameCalls
  <2>12. e.shown = e.status /\ (t.note # None => "flip" \in e.mishaps)
    BY <2>3, <2>4, <2>7
  <2>13. QED
    BY <1>3, <2>1, <2>4, <2>5, <2>6, <2>8, <2>9, <2>10, <2>11, <2>12 DEF vis
<1>4. QED
  BY <1>2, <1>3

\* A draft replaced by what the server has.
LEMMA DraftFacts ==
  ASSUME NEW t \in Tab, NEW doc \in Doc
  PROVE  LET u == [t EXCEPT !.draft = doc] IN
         /\ u \in Tab /\ SameView(t, u) /\ SameLock(t, u) /\ SameCalls(t, u)
         /\ u.draft = doc /\ u.touched = t.touched /\ u.told = t.told
         /\ u.dirty = t.dirty /\ u.saving = t.saving /\ u.armed = t.armed /\ u.leaving = t.leaving
BY DEF Tab, SameView, SameLock, SameCalls

\* The lock in hand: the timers change, nothing else.
LEMMA HandFacts ==
  ASSUME NEW t \in Tab
  PROVE  LET u == Transition([t EXCEPT !.held = TRUE, !.polling = FALSE, !.beating = TRUE], "mine") IN
         /\ u \in Tab /\ SameView(t, u) /\ SameEdit(t, u) /\ SameCalls(t, u)
         /\ u.note = t.note /\ u.private = t.private /\ u.releases = t.releases
         /\ u.held /\ u.beating /\ ~u.polling
         /\ u.status = "mine" /\ u.shown = IF t.page = "open" THEN "mine" ELSE t.shown
<1> DEFINE w == [t EXCEPT !.held = TRUE, !.polling = FALSE, !.beating = TRUE]
           u == Transition(w, "mine")
<1>1. /\ w \in Tab /\ SameView(t, w) /\ SameEdit(t, w) /\ SameCalls(t, w)
      /\ w.note = t.note /\ w.private = t.private /\ w.releases = t.releases
      /\ w.held /\ w.beating /\ ~w.polling /\ w.shown = t.shown
  BY DEF Tab, SameView, SameEdit, SameCalls
<1> HIDE DEF w
<1>2. /\ u \in Tab /\ SameView(w, u) /\ SameEdit(w, u) /\ SameCalls(w, u)
      /\ u.note = w.note /\ u.held = w.held /\ u.private = w.private
      /\ u.beating = w.beating /\ u.polling = w.polling /\ u.releases = w.releases
      /\ u.status = "mine" /\ u.shown = IF w.page = "open" THEN "mine" ELSE w.shown
  BY <1>1, TransitionFacts DEF LockStatus
<1> HIDE DEF u
<1>3. SameView(t, u) /\ SameEdit(t, u) /\ SameCalls(t, u) /\ w.page = t.page
  BY <1>1, <1>2 DEF SameView, SameEdit, SameCalls
<1>4. QED
  BY <1>1, <1>2, <1>3 DEF u, w

\* What an editor keeps of its edits when only its draft changes.
SameWork(t, u) ==
    /\ u.touched = t.touched /\ u.told = t.told /\ u.dirty = t.dirty
    /\ u.saving = t.saving /\ u.armed = t.armed /\ u.leaving = t.leaving

\* The lock is had: the draft is what the server has, but for what was
\* typed.
LEMMA AcquiredFacts ==
  ASSUME NEW t \in Tab, NEW a \in Call
  PROVE  LET u == Acquired(t, a)
             flips == t.page = "open" /\ t.shown # "mine" /\ t.note # a.got.vis IN
         /\ u \in Tab /\ SameView(t, u) /\ SameWork(t, u) /\ OtherCalls(t, u, "take")
         /\ t.mishaps \subseteq u.mishaps
         /\ u.draft = IF t.shown = "mine" THEN t.draft ELSE a.got
         /\ ~Idle(t, "poll") => "stale poll" \in u.mishaps
         /\ t.page = "open" => u.shown = u.status
         /\ flips /\ t.note # None => "flip" \in u.mishaps
         /\ flips => u.calls = t.calls \/ SentCall(u, "take", "lock", NoDoc)
         /\ flips => u.note = a.got.vis
         /\ ~flips => /\ u.calls = t.calls /\ u.note = t.note /\ u.releases = t.releases
                      /\ u.held /\ u.beating /\ ~u.polling /\ u.status = "mine"
                      /\ u.shown = IF t.page = "open" THEN "mine" ELSE t.shown
<1> DEFINE r == IF t.shown # "mine" THEN [t EXCEPT !.draft = a.got] ELSE t
           h == Transition([r EXCEPT !.held = TRUE, !.polling = FALSE, !.beating = TRUE], "mine")
           n == NotingIf(h, ~Idle(t, "poll"), "stale poll")
           s == SetNote(n, a, FALSE)
           u == IF t.shown # "mine" THEN s ELSE n
<1>1. a.got \in Doc /\ a.got.vis \in {"PRIVATE", "PUBLIC"}
  BY DEF Call, Doc
<1>2. Acquired(t, a) = u
  BY DEF Acquired
<1>3. /\ r \in Tab /\ SameView(t, r) /\ SameLock(t, r) /\ SameCalls(t, r) /\ SameWork(t, r)
      /\ r.draft = IF t.shown = "mine" THEN t.draft ELSE a.got
  <2>1. CASE t.shown # "mine"
    BY <1>1, <2>1, DraftFacts DEF SameWork
  <2>2. CASE t.shown = "mine"
    BY <2>2 DEF SameView, SameLock, SameCalls, SameWork
  <2>3. QED
    BY <2>1, <2>2
<1> HIDE DEF r
<1>4. /\ h \in Tab /\ SameView(r, h) /\ SameEdit(r, h) /\ SameCalls(r, h)
      /\ h.note = r.note /\ h.releases = r.releases
      /\ h.held /\ h.beating /\ ~h.polling
      /\ h.status = "mine" /\ h.shown = IF r.page = "open" THEN "mine" ELSE r.shown
  BY <1>3, HandFacts
<1> HIDE DEF h
<1>5. /\ n \in Tab /\ SameView(h, n) /\ SameEdit(h, n) /\ SameLock(h, n)
      /\ n.calls = h.calls /\ h.mishaps \subseteq n.mishaps
      /\ ~Idle(t, "poll") => "stale poll" \in n.mishaps
  BY <1>4, NotingIfFacts DEF Mishaps, Idle
<1> HIDE DEF n
<1>6. /\ SameView(t, n) /\ SameWork(t, n) /\ n.calls = t.calls
      /\ t.mishaps \subseteq n.mishaps /\ n.draft = r.draft
  BY <1>3, <1>4, <1>5 DEF SameView, SameEdit, SameWork, SameCalls
<1>7. /\ n.note = t.note /\ n.releases = t.releases /\ n.held /\ n.beating /\ ~n.polling
      /\ n.status = "mine" /\ n.shown = IF t.page = "open" THEN "mine" ELSE t.shown
  BY <1>3, <1>4, <1>5 DEF SameView, SameLock
<1>8. n.page = t.page
  BY <1>6 DEF SameView
<1>9. CASE t.shown = "mine"
  <2>1. u = n
    BY <1>9
  <2>2. n.shown = n.status \/ t.page # "open"
    BY <1>7
  <2>3. OtherCalls(t, n, "take")
    BY <1>6 DEF OtherCalls
  <2>4. QED
    BY <1>2, <1>3, <1>5, <1>6, <1>7, <1>9, <2>1, <2>2, <2>3
<1>10. CASE t.shown # "mine"
  <2>1. u = s
    BY <1>10
  <2>2. /\ s \in Tab /\ SameView(n, s) /\ SameEdit(n, s) /\ OtherCalls(n, s, "take")
        /\ n.mishaps \subseteq s.mishaps
        /\ n.page # "open" \/ n.note = a.got.vis => s = n
        /\ n.page = "open" /\ n.note # a.got.vis =>
             /\ s.note = a.got.vis /\ s.shown = s.status
             /\ n.note # None => "flip" \in s.mishaps
             /\ s.calls = n.calls \/ SentCall(s, "take", "lock", NoDoc)
    BY <1>1, <1>5, SetNoteFacts
  <2> HIDE DEF s
  <2>3. SameView(t, s) /\ SameWork(t, s) /\ s.draft = r.draft /\ t.mishaps \subseteq s.mishaps
    BY <1>6, <2>2 DEF SameView, SameEdit, SameWork
  <2>4. OtherCalls(t, s, "take")
    BY <1>6, <2>2 DEF OtherCalls
  <2>5. CASE t.page = "open" /\ t.note # a.got.vis
    <3>1. /\ s.note = a.got.vis /\ s.shown = s.status
          /\ t.note # None => "flip" \in s.mishaps
          /\ s.calls = t.calls \/ SentCall(s, "take", "lock", NoDoc)
      BY <1>6, <1>7, <1>8, <2>2, <2>5
    <3>2. QED
      BY <1>2, <1>3, <1>5, <1>10, <2>1, <2>2, <2>3, <2>4, <2>5, <3>1
  <2>6. CASE t.page # "open" \/ t.note = a.got.vis
    <3>1. s = n
      BY <1>7, <1>8, <2>2, <2>6
    <3>2. QED
      BY <1>2, <1>3, <1>5, <1>6, <1>7, <1>10, <2>1, <2>2, <2>3, <2>4, <2>6, <3>1
  <2>7. QED
    BY <2>5, <2>6
<1>11. QED
  BY <1>9, <1>10

\* The lock could not be had.
LEMMA NotAcquiredFacts ==
  ASSUME NEW t \in Tab, NEW other \in BOOLEAN
  PROVE  LET u == NotAcquired(t, other) IN
         /\ u \in Tab /\ SameView(t, u) /\ SameEdit(t, u) /\ u.calls = t.calls
         /\ t.mishaps \subseteq u.mishaps
         /\ t.shown = "mine" => "stale take" \in u.mishaps
         /\ u.note = t.note /\ u.private = t.private /\ u.beating = t.beating
         /\ u.releases = t.releases /\ ~u.held /\ u.polling
         /\ u.status \in {"locked", "available"}
         /\ u.shown = IF t.page = "open" THEN u.status ELSE t.shown
<1> DEFINE w == [t EXCEPT !.held = FALSE]
           next == IF other THEN "locked" ELSE "available"
           l == Transition(w, next)
           p == StartPolling(l)
           u == NotingIf(p, t.shown = "mine", "stale take")
<1>1. NotAcquired(t, other) = u
  BY DEF NotAcquired
<1>2. /\ w \in Tab /\ SameView(t, w) /\ SameEdit(t, w) /\ SameCalls(t, w)
      /\ w.note = t.note /\ w.private = t.private /\ w.releases = t.releases
      /\ w.beating = t.beating /\ ~w.held /\ w.shown = t.shown
  BY DEF Tab, SameView, SameEdit, SameCalls
<1> HIDE DEF w
<1>3. next \in {"locked", "available"} /\ next \in LockStatus
  BY DEF LockStatus
<1> HIDE DEF next
<1>4. /\ l \in Tab /\ SameView(w, l) /\ SameEdit(w, l) /\ SameCalls(w, l)
      /\ l.note = w.note /\ l.held = w.held /\ l.private = w.private
      /\ l.beating = w.beating /\ l.releases = w.releases
      /\ l.status = next /\ l.shown = IF w.page = "open" THEN next ELSE w.shown
  BY <1>2, <1>3, TransitionFacts
<1> HIDE DEF l
<1>5. /\ p \in Tab /\ SameView(l, p) /\ SameEdit(l, p) /\ SameCalls(l, p)
      /\ p.note = l.note /\ p.held = l.held /\ p.private = l.private
      /\ p.releases = l.releases /\ p.status = l.status /\ p.shown = l.shown
      /\ p.beating = l.beating /\ p.polling
  BY <1>4, TimersFacts
<1> HIDE DEF p
<1>6. /\ u \in Tab /\ SameView(p, u) /\ SameEdit(p, u) /\ SameLock(p, u)
      /\ u.calls = p.calls /\ p.mishaps \subseteq u.mishaps
      /\ t.shown = "mine" => "stale take" \in u.mishaps
  BY <1>5, NotingIfFacts DEF Mishaps
<1> HIDE DEF u
<1>7. SameView(t, u) /\ SameEdit(t, u)
  <2>1. SameView(t, l) /\ SameEdit(t, l)
    BY <1>2, <1>4 DEF SameView, SameEdit
  <2>2. SameView(l, u) /\ SameEdit(l, u)
    BY <1>5, <1>6 DEF SameView, SameEdit
  <2>3. QED
    BY <2>1, <2>2 DEF SameView, SameEdit
<1>71. u.calls = t.calls /\ t.mishaps \subseteq u.mishaps
  BY <1>2, <1>4, <1>5, <1>6 DEF SameCalls
<1>8. w.page = t.page
  BY <1>2 DEF SameView
<1>9. /\ u.note = t.note /\ u.private = t.private /\ u.beating = t.beating
      /\ u.releases = t.releases /\ ~u.held /\ u.polling /\ u.status = next
      /\ u.shown = IF t.page = "open" THEN next ELSE t.shown
  BY <1>2, <1>4, <1>5, <1>6, <1>8 DEF SameLock
<1>10. QED
  BY <1>1, <1>3, <1>6, <1>7, <1>71, <1>9

\* The autosave runs: one call, if there is something to save and nobody
\* saves.
LEMMA RunFacts ==
  ASSUME NEW t \in Tab
  PROVE  LET u == Run(t) IN
         /\ u \in Tab /\ SameView(t, u) /\ SameLock(t, u) /\ OtherCalls(t, u, "save")
         /\ u.mishaps = t.mishaps /\ u.draft = t.draft /\ u.touched = t.touched
         /\ u.told = t.told /\ u.leaving = t.leaving
         /\ t.saving => u = t
         /\ ~t.saving => ~u.dirty /\ ~u.armed
         /\ ~t.saving /\ ~(t.dirty /\ Editable(t)) => ~u.saving /\ u.calls = t.calls
         /\ ~t.saving /\ t.dirty /\ Editable(t) =>
              u.saving /\ SentCall(u, "save", "patch", t.draft)
<1>1. CASE t.saving
  BY <1>1 DEF Run, SameView, SameLock, OtherCalls
<1>2. CASE ~t.saving /\ ~t.dirty
  <2>1. Run(t) = [t EXCEPT !.armed = FALSE]
    BY <1>2 DEF Run
  <2>2. QED
    BY <1>2, <2>1 DEF Tab, SameView, SameLock, OtherCalls
<1>3. CASE ~t.saving /\ t.dirty /\ ~Editable(t)
  <2> DEFINE u == [t EXCEPT !.armed = FALSE, !.dirty = FALSE]
  <2>1. Run(t) = u
    BY <1>3 DEF Run
  <2>2. /\ u \in Tab /\ SameView(t, u) /\ SameLock(t, u) /\ SameCalls(t, u)
        /\ u.draft = t.draft /\ u.touched = t.touched /\ u.told = t.told
        /\ u.leaving = t.leaving /\ u.saving = t.saving /\ ~u.dirty /\ ~u.armed
    BY DEF Tab, SameView, SameLock, SameCalls
  <2> HIDE DEF u
  <2>3. QED
    BY <1>3, <2>1, <2>2 DEF OtherCalls, SameCalls
<1>4. CASE ~t.saving /\ t.dirty /\ Editable(t)
  <2> DEFINE w == [t EXCEPT !.armed = FALSE, !.dirty = FALSE, !.saving = TRUE]
             u == Send(w, "save", "patch", t.draft)
  <2>1. Run(t) = u
    BY <1>4 DEF Run
  <2>2. /\ w \in Tab /\ SameView(t, w) /\ SameLock(t, w) /\ SameCalls(t, w)
        /\ w.draft = t.draft /\ w.touched = t.touched /\ w.told = t.told
        /\ w.leaving = t.leaving /\ w.saving /\ ~w.dirty /\ ~w.armed
    BY DEF Tab, SameView, SameLock, SameCalls
  <2> HIDE DEF w
  <2>3. /\ u \in Tab /\ SameView(w, u) /\ SameEdit(w, u) /\ SameLock(w, u)
        /\ u.mishaps = w.mishaps /\ SentCall(u, "save", "patch", t.draft)
        /\ OtherCalls(w, u, "save")
    <3>1. t.draft \in Doc /\ "save" \in Flows
      BY DEF Tab, Flows
    <3>2. QED
      BY <2>2, <3>1, SendFacts
  <2> HIDE DEF u
  <2>4. SameView(t, u) /\ SameLock(t, u)
    BY <2>2, <2>3 DEF SameView, SameLock
  <2>5. OtherCalls(t, u, "save") /\ u.mishaps = t.mishaps
    BY <2>2, <2>3 DEF OtherCalls, SameCalls
  <2>6. QED
    BY <1>4, <2>1, <2>2, <2>3, <2>4, <2>5 DEF SameEdit
<1>5. QED
  BY <1>1, <1>2, <1>3, <1>4 DEF Tab

\* What the unmounting leaves.
Left(t, u) ==
    /\ u \in Tab /\ u.page = "closed" /\ u.leaving = "no" /\ ~u.armed
    /\ u.draft = t.draft /\ u.touched = t.touched /\ u.told = t.told
    /\ u.dirty = t.dirty /\ u.saving = t.saving
    /\ u.note = t.note /\ u.status = t.status /\ u.shown = t.shown
    /\ t.note = "PRIVATE" => u.held = t.held /\ u.beating = t.beating /\ u.polling = t.polling
    /\ t.note # "PRIVATE" => ~u.beating /\ ~u.polling
    /\ t.note = "PUBLIC" => ~u.held
    /\ t.note = None => u.held = t.held
    /\ OtherCalls(t, u, "last")
    /\ t.dirty /\ ~t.saving /\ Editable(t) => SentCall(u, "last", "patch", t.draft)
    /\ ~(t.dirty /\ ~t.saving /\ Editable(t)) => u.calls = t.calls
    /\ t.mishaps \subseteq u.mishaps
    /\ ~Idle(t, "take") => "hurry" \in u.mishaps

\* The unmounting leaves that.
LEMMA UnmountFacts ==
  ASSUME NEW t \in Tab
  PROVE  Left(t, Unmount(t))
<1> DEFINE fires == t.dirty /\ ~t.saving /\ Editable(t)
           f == IF fires THEN Send(t, "last", "patch", t.draft) ELSE t
           d == [f EXCEPT !.armed = FALSE]
           l == LeaveLifecycle(d)
           c1 == [l EXCEPT !.page = "closed"]
           c == [c1 EXCEPT !.leaving = "no"]
           u == NotingIf(c, ~Idle(t, "take"), "hurry")
<1>1. Unmount(t) = u
  BY DEF Unmount
<1>2. /\ f \in Tab /\ SameView(t, f) /\ SameEdit(t, f) /\ SameLock(t, f)
      /\ f.mishaps = t.mishaps /\ OtherCalls(t, f, "last")
      /\ fires => SentCall(f, "last", "patch", t.draft)
      /\ ~fires => f.calls = t.calls
  <2>1. CASE fires
    <3>1. t.draft \in Doc /\ "last" \in Flows
      BY DEF Tab, Flows
    <3>2. QED
      BY <2>1, <3>1, SendFacts
  <2>2. CASE ~fires
    BY <2>2 DEF SameView, SameEdit, SameLock, OtherCalls
  <2>3. QED
    BY <2>1, <2>2
<1> HIDE DEF f
<1>3. /\ d \in Tab /\ SameLock(f, d) /\ SameCalls(f, d) /\ ~d.armed
      /\ d.draft = f.draft /\ d.touched = f.touched /\ d.told = f.told
      /\ d.dirty = f.dirty /\ d.saving = f.saving
  BY <1>2 DEF Tab, SameLock, SameCalls
<1> HIDE DEF d
<1>4. /\ l \in Tab /\ SameView(d, l) /\ SameEdit(d, l) /\ SameCalls(d, l)
      /\ l.note = d.note /\ l.status = d.status /\ l.shown = d.shown
      /\ d.note = "PRIVATE" =>
           l.held = d.held /\ l.beating = d.beating /\ l.polling = d.polling
      /\ d.note # "PRIVATE" => ~l.beating /\ ~l.polling
      /\ d.note = "PUBLIC" => ~l.held
      /\ d.note = None => l.held = d.held
  BY <1>3, LeaveFacts
<1> HIDE DEF l
<1>5. /\ c1 \in Tab /\ SameEdit(l, c1) /\ SameLock(l, c1) /\ SameCalls(l, c1) /\ c1.page = "closed"
  BY <1>4 DEF Tab, SameEdit, SameLock, SameCalls
<1> HIDE DEF c1
<1>6. /\ c \in Tab /\ SameLock(c1, c) /\ SameCalls(c1, c) /\ c.page = "closed" /\ c.leaving = "no"
      /\ c.draft = c1.draft /\ c.touched = c1.touched /\ c.told = c1.told
      /\ c.dirty = c1.dirty /\ c.saving = c1.saving /\ c.armed = c1.armed
  BY <1>5 DEF Tab, SameLock, SameCalls
<1> HIDE DEF c
<1>7. /\ u \in Tab /\ SameView(c, u) /\ SameEdit(c, u) /\ SameLock(c, u)
      /\ u.calls = c.calls /\ c.mishaps \subseteq u.mishaps
      /\ ~Idle(t, "take") => "hurry" \in u.mishaps
  BY <1>6, NotingIfFacts DEF Mishaps, Idle
<1> HIDE DEF u
<1>8. /\ u.page = "closed" /\ u.leaving = "no" /\ ~u.armed
      /\ u.draft = t.draft /\ u.touched = t.touched /\ u.told = t.told
      /\ u.dirty = t.dirty /\ u.saving = t.saving
  BY <1>2, <1>3, <1>4, <1>5, <1>6, <1>7 DEF SameView, SameEdit
<1>9. u.calls = f.calls /\ f.mishaps \subseteq u.mishaps
  BY <1>3, <1>4, <1>5, <1>6, <1>7 DEF SameCalls
<1>10. d.note = t.note /\ d.status = t.status /\ d.shown = t.shown /\ d.held = t.held
       /\ d.beating = t.beating /\ d.polling = t.polling
  BY <1>2, <1>3 DEF SameLock
<1>11. u.note = l.note /\ u.status = l.status /\ u.shown = l.shown /\ u.held = l.held
       /\ u.beating = l.beating /\ u.polling = l.polling
  BY <1>5, <1>6, <1>7 DEF SameLock
<1>12. /\ u.note = t.note /\ u.status = t.status /\ u.shown = t.shown
       /\ t.note = "PRIVATE" => u.held = t.held /\ u.beating = t.beating /\ u.polling = t.polling
       /\ t.note # "PRIVATE" => ~u.beating /\ ~u.polling
       /\ t.note = "PUBLIC" => ~u.held
       /\ t.note = None => u.held = t.held
  BY <1>4, <1>10, <1>11
<1>13. OtherCalls(t, u, "last") /\ (fires => SentCall(u, "last", "patch", t.draft))
       /\ (~fires => u.calls = t.calls) /\ t.mishaps \subseteq u.mishaps
  BY <1>2, <1>9 DEF OtherCalls, SentCall
<1>14. QED
  BY <1>1, <1>7, <1>8, <1>12, <1>13 DEF Left

\* An edit is queued: dirty, and the debounce timer armed.
LEMMA QueueFacts ==
  ASSUME NEW t \in Tab
  PROVE  LET u == Queue(t) IN
         /\ u \in Tab /\ SameView(t, u) /\ SameLock(t, u) /\ u.calls = t.calls
         /\ t.mishaps \subseteq u.mishaps
         /\ u.draft = t.draft /\ u.told = t.told /\ u.saving = t.saving /\ u.leaving = t.leaving
         /\ u.touched /\ u.dirty /\ u.armed
         /\ t.leaving # "no" => "hurry" \in u.mishaps
<1> DEFINE w == [t EXCEPT !.touched = TRUE, !.dirty = TRUE, !.armed = TRUE]
           u == NotingIf(w, t.leaving # "no", "hurry")
<1>1. Queue(t) = u
  BY DEF Queue
<1>2. /\ w \in Tab /\ SameView(t, w) /\ SameLock(t, w) /\ SameCalls(t, w)
      /\ w.draft = t.draft /\ w.told = t.told /\ w.saving = t.saving /\ w.leaving = t.leaving
      /\ w.touched /\ w.dirty /\ w.armed
  BY DEF Tab, SameView, SameLock, SameCalls
<1> HIDE DEF w
<1>3. /\ u \in Tab /\ SameView(w, u) /\ SameEdit(w, u) /\ SameLock(w, u)
      /\ u.calls = w.calls /\ w.mishaps \subseteq u.mishaps
      /\ t.leaving # "no" => "hurry" \in u.mishaps
  BY <1>2, NotingIfFacts DEF Mishaps
<1> HIDE DEF u
<1>4. SameView(t, u) /\ SameLock(t, u)
  BY <1>2, <1>3 DEF SameView, SameLock
<1>5. QED
  BY <1>1, <1>2, <1>3, <1>4 DEF SameEdit, SameCalls

\* What awaits the save changes, nothing else.
LEMMA LeavingFacts ==
  ASSUME NEW t \in Tab, NEW kind \in {"no", "close", "archive"}
  PROVE  LET u == [t EXCEPT !.leaving = kind] IN
         /\ u \in Tab /\ SameView(t, u) /\ SameLock(t, u) /\ SameCalls(t, u)
         /\ u.draft = t.draft /\ u.touched = t.touched /\ u.told = t.told
         /\ u.dirty = t.dirty /\ u.saving = t.saving /\ u.armed = t.armed /\ u.leaving = kind
BY DEF Tab, SameView, SameLock, SameCalls

\* The archiving goes out.
Archives(t, u) ==
    /\ u \in Tab /\ SameView(t, u) /\ SameLock(t, u) /\ u.mishaps = t.mishaps
    /\ u.draft = t.draft /\ u.touched = t.touched /\ u.told = t.told
    /\ u.dirty = t.dirty /\ u.saving = t.saving /\ u.armed = t.armed /\ u.leaving = "no"
    /\ OtherCalls(t, u, "leave") /\ SentCall(u, "leave", "archive", NoDoc)

\* What awaited the save goes on.
LEMMA ResumeFacts ==
  ASSUME NEW t \in Tab
  PROVE  LET u == Resume(t) IN
         /\ u \in Tab
         /\ t.leaving = "no" => u = t
         /\ t.leaving = "close" => Left(t, u)
         /\ t.leaving = "archive" => Archives(t, u)
<1>1. CASE t.leaving = "no"
  BY <1>1 DEF Resume
<1>2. CASE t.leaving = "close"
  <2>1. Resume(t) = Unmount(t)
    BY <1>2 DEF Resume
  <2>2. QED
    BY <1>2, <2>1, UnmountFacts DEF Left
<1>3. CASE t.leaving = "archive"
  <2> DEFINE w == [t EXCEPT !.leaving = "no"]
             u == Send(w, "leave", "archive", NoDoc)
  <2>1. Resume(t) = u
    BY <1>3 DEF Resume
  <2>2. /\ w \in Tab /\ SameView(t, w) /\ SameLock(t, w) /\ SameCalls(t, w)
        /\ w.draft = t.draft /\ w.touched = t.touched /\ w.told = t.told
        /\ w.dirty = t.dirty /\ w.saving = t.saving /\ w.armed = t.armed /\ w.leaving = "no"
    BY LeavingFacts
  <2> HIDE DEF w
  <2>3. /\ u \in Tab /\ SameView(w, u) /\ SameEdit(w, u) /\ SameLock(w, u)
        /\ u.mishaps = w.mishaps /\ SentCall(u, "leave", "archive", NoDoc)
        /\ OtherCalls(w, u, "leave")
    BY <2>2, SendFacts, DocTypes DEF Flows
  <2> HIDE DEF u
  <2>4. SameView(t, u) /\ SameLock(t, u)
    BY <2>2, <2>3 DEF SameView, SameLock
  <2>5. OtherCalls(t, u, "leave") /\ u.mishaps = t.mishaps
    BY <2>2, <2>3 DEF OtherCalls, SameCalls
  <2>6. Archives(t, u)
    BY <2>2, <2>3, <2>4, <2>5 DEF Archives, SameEdit
  <2>7. QED
    BY <1>3, <2>1, <2>3, <2>6
<1>4. QED
  BY <1>1, <1>2, <1>3 DEF Tab

\* A save that is over, before what awaited it goes on.
Ended(t, ok) ==
    [Done(t, "save") EXCEPT !.saving = FALSE, !.dirty = t.dirty \/ ~ok,
                            !.armed = @ \/ (t.dirty \/ ~ok)]

\* Nothing but the save is over, or starts over with what came since.
LEMMA EndedFacts ==
  ASSUME NEW t \in Tab, NEW ok \in BOOLEAN
  PROVE  LET u == Ended(t, ok) IN
         /\ u \in Tab /\ SameView(t, u) /\ SameLock(t, u) /\ u.mishaps = t.mishaps
         /\ u.draft = t.draft /\ u.touched = t.touched /\ u.told = t.told
         /\ u.leaving = t.leaving /\ ~u.saving /\ u.dirty = (t.dirty \/ ~ok)
         /\ u.calls["save"].op = "none" /\ u.calls["save"].at = "idle"
         /\ u.calls["save"] = NoCall /\ OtherCalls(t, u, "save")
<1> DEFINE d == Done(t, "save")
<1>1. /\ d \in Tab /\ SameView(t, d) /\ SameEdit(t, d) /\ SameLock(t, d)
      /\ d.mishaps = t.mishaps /\ d.calls["save"].op = "none" /\ d.calls["save"].at = "idle"
      /\ d.calls["save"] = NoCall /\ OtherCalls(t, d, "save")
  BY DoneFacts DEF Flows
<1>2. Ended(t, ok) = [d EXCEPT !.saving = FALSE, !.dirty = t.dirty \/ ~ok,
                               !.armed = d.armed \/ (t.dirty \/ ~ok)]
  BY DEF Ended
<1> HIDE DEF d
<1>3. (t.dirty \/ ~ok) \in BOOLEAN /\ (d.armed \/ (t.dirty \/ ~ok)) \in BOOLEAN
  OBVIOUS
<1>4. PICK x \in BOOLEAN, y \in BOOLEAN :
        /\ x = (t.dirty \/ ~ok)
        /\ Ended(t, ok) = [d EXCEPT !.saving = FALSE, !.dirty = x, !.armed = y]
  BY <1>2, <1>3, Zenon
<1> DEFINE u == [d EXCEPT !.saving = FALSE, !.dirty = x, !.armed = y]
<1>5. /\ u \in Tab /\ SameView(d, u) /\ SameLock(d, u) /\ SameCalls(d, u)
      /\ u.draft = d.draft /\ u.touched = d.touched /\ u.told = d.told
      /\ u.leaving = d.leaving /\ ~u.saving /\ u.dirty = x
  <2>1. u \in Tab
    BY <1>1 DEF Tab
  <2>2. SameView(d, u) /\ SameLock(d, u) /\ SameCalls(d, u)
    BY <1>1 DEF Tab, SameView, SameLock, SameCalls
  <2>3. /\ u.draft = d.draft /\ u.touched = d.touched /\ u.told = d.told
        /\ u.leaving = d.leaving /\ ~u.saving
    BY <1>1 DEF Tab
  <2>4. u.dirty = x
    BY <1>1 DEF Tab
  <2> HIDE DEF u
  <2>5. QED
    BY <2>1, <2>2, <2>3, <2>4
<1>6. Ended(t, ok) = u
  BY <1>4
<1> HIDE DEF u
<1>7. SameView(t, u) /\ SameLock(t, u)
  BY <1>1, <1>5 DEF SameView, SameLock
<1>8. QED
  BY <1>1, <1>4, <1>5, <1>6, <1>7 DEF SameEdit, SameCalls, OtherCalls

\* A save settles: it ends, and what awaited it goes on.
LEMMA SettleFacts ==
  ASSUME NEW t \in Tab, NEW ok \in BOOLEAN
  PROVE  /\ Settle(t, "last", ok) = Done(t, "last")
         /\ Settle(t, "save", ok) = Resume(Ended(t, ok))
BY DEF Settle, Ended

\* A leave that waits for a save of its own, or goes on at once.
Flushing(t, kind) == [Run(t) EXCEPT !.leaving = kind]

\* The save it waits for is on its way.
LEMMA FlushingFacts ==
  ASSUME NEW t \in Tab, NEW kind \in {"close", "archive"}
  PROVE  LET u == Flushing(t, kind) IN
         /\ u \in Tab /\ SameView(t, u) /\ SameLock(t, u) /\ OtherCalls(t, u, "save")
         /\ u.mishaps = t.mishaps /\ u.draft = t.draft /\ u.touched = t.touched
         /\ u.told = t.told /\ u.leaving = kind
         /\ t.saving => u.saving /\ u.dirty = t.dirty /\ u.calls = t.calls
         /\ ~t.saving => ~u.dirty
         /\ ~t.saving /\ ~(t.dirty /\ Editable(t)) => ~u.saving /\ u.calls = t.calls
         /\ ~t.saving /\ t.dirty /\ Editable(t) =>
              u.saving /\ SentCall(u, "save", "patch", t.draft)
<1> DEFINE r == Run(t)
           u == [r EXCEPT !.leaving = kind]
<1>1. /\ r \in Tab /\ SameView(t, r) /\ SameLock(t, r) /\ OtherCalls(t, r, "save")
      /\ r.mishaps = t.mishaps /\ r.draft = t.draft /\ r.touched = t.touched
      /\ r.told = t.told /\ r.leaving = t.leaving
      /\ t.saving => r = t
      /\ ~t.saving => ~r.dirty /\ ~r.armed
      /\ ~t.saving /\ ~(t.dirty /\ Editable(t)) => ~r.saving /\ r.calls = t.calls
      /\ ~t.saving /\ t.dirty /\ Editable(t) =>
           r.saving /\ SentCall(r, "save", "patch", t.draft)
  BY RunFacts
<1>2. Flushing(t, kind) = u
  BY DEF Flushing
<1> HIDE DEF r
<1>3. /\ u \in Tab /\ SameView(r, u) /\ SameLock(r, u) /\ SameCalls(r, u)
      /\ u.draft = r.draft /\ u.touched = r.touched /\ u.told = r.told
      /\ u.dirty = r.dirty /\ u.saving = r.saving /\ u.armed = r.armed /\ u.leaving = kind
  <2>1. kind \in {"no", "close", "archive"}
    OBVIOUS
  <2>2. QED
    BY <1>1, <2>1, LeavingFacts
<1> HIDE DEF u
<1>4. SameView(t, u) /\ SameLock(t, u)
  BY <1>1, <1>3 DEF SameView, SameLock
<1>5. OtherCalls(t, u, "save") /\ u.mishaps = t.mishaps
  BY <1>1, <1>3 DEF OtherCalls, SameCalls
<1>6. t.saving => u.saving /\ u.dirty = t.dirty /\ u.calls = t.calls
  BY <1>1, <1>3 DEF SameCalls
<1>7. ~t.saving /\ ~(t.dirty /\ Editable(t)) => ~u.saving /\ u.calls = t.calls
  BY <1>1, <1>3 DEF SameCalls
<1>8. ~t.saving /\ t.dirty /\ Editable(t) => u.saving /\ SentCall(u, "save", "patch", t.draft)
  BY <1>1, <1>3 DEF SameCalls, SentCall
<1>9. QED
  BY <1>1, <1>2, <1>3, <1>4, <1>5, <1>6, <1>7, <1>8

\* The leave that does not wait.
Hastening(t, kind) == NotingIf(Flushing(t, kind), Busy(t), "hurry")

\* It leaves a call behind, which is noted, and nothing else changes.
LEMMA HasteningFacts ==
  ASSUME NEW t \in Tab, NEW kind \in {"close", "archive"}
  PROVE  LET f == Flushing(t, kind)
             u == Hastening(t, kind) IN
         /\ u \in Tab /\ SameView(f, u) /\ SameEdit(f, u) /\ SameLock(f, u)
         /\ u.calls = f.calls /\ f.mishaps \subseteq u.mishaps
         /\ Busy(t) => "hurry" \in u.mishaps
<1>1. Flushing(t, kind) \in Tab
  BY FlushingFacts
<1>2. Busy(t) \in BOOLEAN /\ "hurry" \in Mishaps
  BY DEF Busy, Idle, Mishaps, Tab
<1>3. QED
  BY <1>1, <1>2, NotingIfFacts DEF Hastening

\* A leave does one or the other.
LEMMA FlushedFacts ==
  ASSUME NEW t \in Tab, NEW kind \in {"close", "archive"}
  PROVE  FlushedBefore(t, kind) =
           IF ~t.saving /\ t.dirty /\ Editable(t)
           THEN Flushing(t, kind) ELSE Resume(Hastening(t, kind))
<1>1. FlushedBefore(t, kind) =
        IF Flushing(t, kind).saving /\ ~t.saving
        THEN Flushing(t, kind) ELSE Resume(Hastening(t, kind))
  BY DEF FlushedBefore, Flushing, Hastening
<1>2. Flushing(t, kind).saving /\ ~t.saving <=> ~t.saving /\ t.dirty /\ Editable(t)
  BY FlushingFacts
<1>3. QED
  BY <1>1, <1>2

\* The tab is gone, with the calls that are on their way.
LEMMA CloseTabFacts ==
  ASSUME tab \in Tab, CloseTab
  PROVE  /\ tab' \in Tab /\ tab'.page = "dead" /\ tab'.leaving = "no"
         /\ tab.mishaps \subseteq tab'.mishaps /\ "hurry" \in tab'.mishaps
         /\ \A f \in Flows : tab'.calls[f] = IF Sent(f) THEN tab.calls[f] ELSE NoCall
<1> DEFINE cs == [f \in Flows |-> IF Sent(f) THEN tab.calls[f] ELSE NoCall]
           n == tab.releases + (IF tab.held \/ tab.private THEN 1 ELSE 0)
           ms == tab.mishaps \cup {"hurry"}
<1>1. cs \in [Flows -> Call] /\ \A f \in Flows : cs[f] = IF Sent(f) THEN tab.calls[f] ELSE NoCall
  BY DocTypes DEF Tab
<1>2. n \in Nat /\ ms \in SUBSET Mishaps /\ tab.mishaps \subseteq ms /\ "hurry" \in ms
  <2>1. tab.releases \in Nat /\ tab.mishaps \subseteq Mishaps /\ "hurry" \in Mishaps
    BY DEF Tab, Mishaps
  <2>2. QED
    BY <2>1
<1>3. Blank \in Tab /\ Blank.leaving = "no"
  BY DocTypes DEF Blank, Tab, LockStatus
<1>4. tab' = [Dead EXCEPT !.releases = n, !.mishaps = ms, !.calls = cs]
  BY DEF CloseTab
<1> HIDE DEF cs, n, ms
<1>5. Dead \in Tab /\ Dead.leaving = "no" /\ Dead.page = "dead"
  <2> HIDE DEF Blank
  <2>1. QED BY <1>3 DEF Dead, Tab
<1> DEFINE w == [Dead EXCEPT !.releases = n]
           v == [w EXCEPT !.mishaps = ms]
           u == [v EXCEPT !.calls = cs]
<1>6. w \in Tab /\ w.leaving = "no" /\ w.page = "dead"
  BY <1>2, <1>5 DEF Tab
<1>7. tab' = u
  BY <1>4
<1> HIDE DEF w
<1>8. v \in Tab /\ v.leaving = "no" /\ v.page = "dead" /\ v.mishaps = ms
  BY <1>2, <1>6 DEF Tab
<1> HIDE DEF v
<1>9. u \in Tab /\ u.leaving = "no" /\ u.page = "dead" /\ u.mishaps = ms /\ u.calls = cs
  BY <1>1, <1>8 DEF Tab
<1> HIDE DEF u
<1>10. QED
  BY <1>1, <1>2, <1>7, <1>9

(***************************************************************************)
(* The base: how the calls, the page and the note go together.             *)
(***************************************************************************)

\* None of these mishaps has happened.
Quiet(t, mishaps) == \A m \in mishaps : m \notin t.mishaps

\* Which requests a flow sends.
Ops(f) == CASE f \in {"load", "poll"} -> {"get"}
            [] f \in {"beat", "take"} -> {"lock"}
            [] f \in {"save", "last"} -> {"patch", "lock", "retry"}
            [] OTHER -> {"archive", "delete"}

\* A call is of its flow, and it failed or came back empty only if there was
\* a reason.
CallFits(t, f) ==
    LET c == t.calls[f] IN
    /\ c.at = "idle" <=> c.op = "none"
    /\ c.op \in Ops(f) \cup {"none"}
    /\ c.at = "gone" => row = "gone"
    /\ c.at = "error" => "fault" \in t.mishaps
    /\ c.at \in {"held", "required"} => c.op \in {"lock", "patch", "retry"}

\* So are all of them.
CallsFit(t) == \A f \in Flows : CallFits(t, f)

\* A note of somebody else can be read here while it is public.
OthersArePublic == owner = Other => text.vis = "PUBLIC"

\* An open editor shows the status it has, has no last save, and was typed
\* in only if it knows.
PageFits(t) ==
    t.page = "open" =>
      /\ t.status = t.shown
      /\ Idle(t, "last")
      /\ ~t.touched => typed = 0

\* The editor says that it saves exactly while a save is on its way.
SavingFits(t) == t.page # "dead" => (t.saving <=> ~Idle(t, "save"))

\* Before the note is known there is nothing but the call for it.
Loading(t) ==
    t.page = "open" /\ t.note = None =>
      /\ t.shown = "pending" /\ typed = 0
      /\ ~(t.held \/ t.beating \/ t.polling \/ t.dirty \/ t.saving)
      /\ \A f \in Flows \ {"load"} : Idle(t, f)
      /\ t.calls["load"].at = "ok" => t.calls["load"].got.vis = text.vis

\* Only an open editor with a save on its way waits for it.
LeavingFits(t) == t.leaving # "no" => t.page = "open" /\ t.saving

\* What every later argument needs of the tab.
BaseInv(t) == CallsFit(t) /\ PageFits(t) /\ SavingFits(t) /\ Loading(t)

(***************************************************************************)
(* ... is kept by the operators ...                                        *)
(***************************************************************************)

\* A call that fits fits on when no more is asked of it.
LEMMA CallKept ==
  ASSUME NEW t \in Tab, NEW u \in Tab, NEW f \in Flows, CallFits(t, f),
         u.calls[f] = t.calls[f], t.mishaps \subseteq u.mishaps
  PROVE  CallFits(u, f)
BY DEF CallFits

\* A call that has just gone out fits, ...
LEMMA SentFits ==
  ASSUME NEW u \in Tab, NEW f \in Flows, NEW op \in Ops(f), NEW doc, SentCall(u, f, op, doc),
         op # "none"
  PROVE  CallFits(u, f)
BY DEF CallFits, SentCall

\* ... and so does one that is over.
LEMMA IdleFits ==
  ASSUME NEW u \in Tab, NEW f \in Flows, u.calls[f].op = "none", u.calls[f].at = "idle"
  PROVE  CallFits(u, f)
BY DEF CallFits

\* The calls are as they were, ...
LEMMA CallsKept ==
  ASSUME NEW t \in Tab, NEW u \in Tab, CallsFit(t),
         u.calls = t.calls, t.mishaps \subseteq u.mishaps
  PROVE  CallsFit(u)
BY CallKept DEF CallsFit

\* ... or all but one are.
LEMMA OthersKept ==
  ASSUME NEW t \in Tab, NEW u \in Tab, NEW f \in Flows, CallsFit(t), OtherCalls(t, u, f),
         t.mishaps \subseteq u.mishaps, CallFits(u, f)
  PROVE  CallsFit(u)
BY CallKept DEF CallsFit, OtherCalls

\* The requests of the flows, spelled out.
LEMMA OpsFit ==
  /\ "get" \in Ops("load") /\ "get" \in Ops("poll")
  /\ "lock" \in Ops("beat") /\ "lock" \in Ops("take")
  /\ \A f \in {"save", "last"} : {"patch", "lock", "retry"} = Ops(f)
  /\ "archive" \in Ops("leave") /\ "delete" \in Ops("leave")
BY DEF Ops

\* The flows, spelled out.
LEMMA FlowsAre ==
  /\ "load" \in Flows /\ "poll" \in Flows /\ "beat" \in Flows /\ "take" \in Flows
  /\ "save" \in Flows /\ "last" \in Flows /\ "leave" \in Flows
BY DEF Flows

\* Nothing the facts above speak of is touched.
LEMMA BaseKept ==
  ASSUME NEW t \in Tab, NEW u \in Tab, BaseInv(t), SameView(t, u), u.saving <=> t.saving,
         u.calls = t.calls, t.mishaps \subseteq u.mishaps, SameLock(t, u),
         t.touched => u.touched, u.dirty => t.dirty \/ t.note # None
  PROVE  BaseInv(u)
<1>1. CallsFit(u)
  BY CallsKept DEF BaseInv
<1>2. PageFits(u)
  BY DEF BaseInv, PageFits, SameView, SameLock, Idle
<1>3. SavingFits(u)
  BY DEF BaseInv, SavingFits, SameView, Idle
<1>4. Loading(u)
  BY DEF BaseInv, Loading, SameView, SameLock, Idle
<1>5. QED
  BY <1>1, <1>2, <1>3, <1>4 DEF BaseInv

\* A call of an editor with a note, or one gone, is over.
LEMMA BaseOfDone ==
  ASSUME NEW t \in Tab, BaseInv(t), NEW f \in Flows, f # "save"
  PROVE  BaseInv(Done(t, f))
<1> DEFINE u == Done(t, f)
<1>1. /\ u \in Tab /\ SameView(t, u) /\ SameEdit(t, u) /\ SameLock(t, u)
      /\ u.mishaps = t.mishaps /\ u.calls[f].op = "none" /\ u.calls[f].at = "idle"
      /\ OtherCalls(t, u, f)
  BY DoneFacts
<1> HIDE DEF u
<1>2. CallsFit(u)
  BY <1>1, OthersKept, IdleFits DEF BaseInv
<1>3. PageFits(u)
  BY <1>1, FlowsAre DEF BaseInv, PageFits, SameView, SameLock, SameEdit, Idle, OtherCalls
<1>4. SavingFits(u)
  BY <1>1, FlowsAre DEF BaseInv, SavingFits, SameView, SameEdit, Idle, OtherCalls
<1>5. Loading(u)
  <2> SUFFICES ASSUME u.page = "open", u.note = None
               PROVE  Loading(u)
    BY DEF Loading
  <2>1. t.page = "open" /\ t.note = None
    BY <1>1 DEF SameView, SameLock
  <2>2. /\ u.shown = "pending" /\ typed = 0
        /\ ~(u.held \/ u.beating \/ u.polling \/ u.dirty \/ u.saving)
    BY <1>1, <2>1 DEF BaseInv, Loading, SameLock, SameEdit
  <2>3. \A g \in Flows \ {"load"} : Idle(u, g)
    BY <1>1, <2>1 DEF BaseInv, Loading, Idle, OtherCalls
  <2>4. u.calls["load"].at = "ok" => u.calls["load"].got.vis = text.vis
    BY <1>1, <2>1, FlowsAre DEF BaseInv, Loading, OtherCalls
  <2>5. QED
    BY <2>2, <2>3, <2>4 DEF Loading
<1>6. QED
  BY <1>2, <1>3, <1>4, <1>5 DEF BaseInv, u

\* A call of a flow that only an editor with a note has.
LEMMA BaseOfSend ==
  ASSUME NEW t \in Tab, BaseInv(t), NEW f \in Flows, NEW doc \in Doc,
         NEW op \in {"get", "lock", "patch", "retry", "archive", "delete"}, op \in Ops(f),
         t.page = "open" => t.note # None /\ f # "last",
         f = "save" => t.saving
  PROVE  BaseInv(Send(t, f, op, doc))
<1> DEFINE u == Send(t, f, op, doc)
<1>1. /\ u \in Tab /\ SameView(t, u) /\ SameEdit(t, u) /\ SameLock(t, u)
      /\ u.mishaps = t.mishaps /\ SentCall(u, f, op, doc) /\ OtherCalls(t, u, f)
  BY SendFacts
<1> HIDE DEF u
<1>2. CallsFit(u)
  <2>1. CallFits(u, f)
    BY <1>1, SentFits
  <2>2. QED
    BY <1>1, <2>1, OthersKept DEF BaseInv
<1>3. PageFits(u)
  BY <1>1, FlowsAre DEF BaseInv, PageFits, SameView, SameLock, SameEdit, Idle, OtherCalls
<1>4. SavingFits(u)
  BY <1>1, FlowsAre DEF BaseInv, SavingFits, SameView, SameEdit, Idle, OtherCalls, SentCall
<1>5. Loading(u)
  BY <1>1 DEF Loading, SameView, SameLock
<1>6. QED
  BY <1>2, <1>3, <1>4, <1>5 DEF BaseInv, u

\* The autosave runs.
LEMMA BaseOfRun ==
  ASSUME NEW t \in Tab, BaseInv(t)
  PROVE  BaseInv(Run(t))
<1> DEFINE u == Run(t)
<1>1. /\ u \in Tab /\ SameView(t, u) /\ SameLock(t, u) /\ OtherCalls(t, u, "save")
      /\ u.mishaps = t.mishaps /\ u.draft = t.draft /\ u.touched = t.touched
      /\ u.told = t.told /\ u.leaving = t.leaving
      /\ t.saving => u = t
      /\ ~t.saving => ~u.dirty /\ ~u.armed
      /\ ~t.saving /\ ~(t.dirty /\ Editable(t)) => ~u.saving /\ u.calls = t.calls
      /\ ~t.saving /\ t.dirty /\ Editable(t) =>
           u.saving /\ SentCall(u, "save", "patch", t.draft)
  BY RunFacts
<1> HIDE DEF u
<1>2. CASE t.saving
  BY <1>1, <1>2 DEF u
<1>3. CASE ~t.saving /\ ~(t.dirty /\ Editable(t))
  <2>1. (u.saving <=> t.saving) /\ (t.touched => u.touched) /\ ~u.dirty /\ u.calls = t.calls
    BY <1>1, <1>3
  <2>2. BaseInv(u)
    BY <1>1, <2>1, BaseKept
  <2>3. QED
    BY <2>2 DEF u
<1>4. CASE ~t.saving /\ t.dirty /\ Editable(t)
  <2>1. CallsFit(u)
    <3>1. CallFits(u, "save")
      BY <1>1, <1>4, SentFits, OpsFit, FlowsAre
    <3>2. QED
      BY <1>1, <3>1, OthersKept, FlowsAre DEF BaseInv
  <2>2. PageFits(u)
    BY <1>1, FlowsAre DEF BaseInv, PageFits, SameView, SameLock, Idle, OtherCalls
  <2>3. SavingFits(u)
    BY <1>1, <1>4 DEF SavingFits, Idle, SentCall
  <2>4. Loading(u)
    BY <1>1, <1>4 DEF Loading, SameLock, Editable
  <2>5. QED
    BY <2>1, <2>2, <2>3, <2>4 DEF BaseInv, u
<1>5. QED
  BY <1>2, <1>3, <1>4

\* The editor is unmounted, as Left says, ...
LEMMA BaseOfLeft ==
  ASSUME NEW t \in Tab, NEW u \in Tab, BaseInv(t), Left(t, u),
         t.page # "dead"
  PROVE  BaseInv(u) /\ LeavingFits(u)
<1>1. CallsFit(u)
  <2>1. CASE t.dirty /\ ~t.saving /\ Editable(t)
    <3>1. CallFits(u, "last")
      BY <2>1, SentFits, OpsFit, FlowsAre DEF Left
    <3>2. QED
      BY <3>1, OthersKept, FlowsAre DEF BaseInv, Left
  <2>2. CASE ~(t.dirty /\ ~t.saving /\ Editable(t))
    BY <2>2, CallsKept DEF BaseInv, Left
  <2>3. QED
    BY <2>1, <2>2
<1>2. PageFits(u) /\ Loading(u) /\ LeavingFits(u)
  BY DEF PageFits, Loading, LeavingFits, Left
<1>3. SavingFits(u)
  BY FlowsAre DEF BaseInv, SavingFits, Left, Idle, OtherCalls
<1>4. QED
  BY <1>1, <1>2, <1>3 DEF BaseInv

\* ... by Unmount.
LEMMA BaseOfUnmount ==
  ASSUME NEW t \in Tab, BaseInv(t), t.page # "dead"
  PROVE  BaseInv(Unmount(t)) /\ LeavingFits(Unmount(t))
<1>1. Left(t, Unmount(t))
  BY UnmountFacts
<1>2. Unmount(t) \in Tab
  BY <1>1 DEF Left
<1>3. QED
  BY <1>1, <1>2, BaseOfLeft

\* What awaited the save goes on.
LEMMA BaseOfResume ==
  ASSUME NEW t \in Tab, BaseInv(t), t.leaving # "no" => t.page = "open" /\ t.note # None
  PROVE  BaseInv(Resume(t)) /\ LeavingFits(Resume(t))
<1> DEFINE u == Resume(t)
<1>1. /\ u \in Tab
      /\ t.leaving = "no" => u = t
      /\ t.leaving = "close" => Left(t, u)
      /\ t.leaving = "archive" => Archives(t, u)
  BY ResumeFacts
<1>2. CASE t.leaving = "no"
  BY <1>1, <1>2 DEF LeavingFits
<1>3. CASE t.leaving = "close"
  BY <1>1, <1>3, BaseOfLeft
<1>4. CASE t.leaving = "archive"
  <2> HIDE DEF u
  <2>1. Archives(t, u)
    BY <1>1, <1>4
  <2>2. CallsFit(u)
    <3>1. CallFits(u, "leave")
      BY <1>1, <2>1, SentFits, OpsFit, FlowsAre DEF Archives
    <3>2. QED
      BY <1>1, <2>1, <3>1, OthersKept, FlowsAre DEF BaseInv, Archives
  <2>3. PageFits(u)
    BY <2>1, FlowsAre DEF BaseInv, PageFits, SameView, SameLock, Idle, OtherCalls, Archives
  <2>4. SavingFits(u)
    BY <2>1, FlowsAre DEF BaseInv, SavingFits, SameView, Idle, OtherCalls, Archives
  <2>5. Loading(u)
    BY <1>4, <2>1 DEF Loading, SameLock, Archives
  <2>6. LeavingFits(u)
    BY <2>1 DEF LeavingFits, Archives
  <2>7. QED
    BY <2>2, <2>3, <2>4, <2>5, <2>6 DEF BaseInv, u
<1>5. QED
  BY <1>2, <1>3, <1>4 DEF Tab

\* A leave sends its save.
LEMMA BaseOfFlushing ==
  ASSUME NEW t \in Tab, BaseInv(t), NEW kind \in {"close", "archive"}, t.note # None
  PROVE  BaseInv(Flushing(t, kind))
<1> DEFINE r == Run(t)
           u == [r EXCEPT !.leaving = kind]
<1>1. r \in Tab /\ BaseInv(r) /\ r.note # None
  BY RunFacts, BaseOfRun DEF SameLock
<1>2. Flushing(t, kind) = u
  BY DEF Flushing
<1> HIDE DEF r
<1>3. kind \in {"no", "close", "archive"} /\ r \in Tab
  BY <1>1
<1>4. /\ u \in Tab /\ SameView(r, u) /\ SameLock(r, u) /\ SameCalls(r, u)
      /\ u.touched = r.touched /\ u.dirty = r.dirty /\ u.saving = r.saving
  BY <1>3, LeavingFacts
<1> HIDE DEF u
<1>5. BaseInv(u)
  BY <1>1, <1>4, BaseKept DEF SameCalls
<1>6. QED
  BY <1>2, <1>5

\* A leave, in haste or not.
LEMMA BaseOfFlushed ==
  ASSUME NEW t \in Tab, BaseInv(t), NEW kind \in {"close", "archive"},
         t.note # None, t.page = "open"
  PROVE  BaseInv(FlushedBefore(t, kind)) /\ LeavingFits(FlushedBefore(t, kind))
<1> DEFINE f == Flushing(t, kind)
           h == Hastening(t, kind)
<1>1. /\ f \in Tab /\ SameView(t, f) /\ SameLock(t, f)
      /\ ~t.saving /\ t.dirty /\ Editable(t) => f.saving
  BY FlushingFacts
<1>2. BaseInv(f)
  BY BaseOfFlushing
<1>3. CASE ~t.saving /\ t.dirty /\ Editable(t)
  <2>1. FlushedBefore(t, kind) = f
    BY <1>3, FlushedFacts
  <2>2. LeavingFits(f)
    BY <1>1, <1>3 DEF LeavingFits, SameView
  <2>3. QED
    BY <1>2, <2>1, <2>2
<1>4. CASE ~(~t.saving /\ t.dirty /\ Editable(t))
  <2>1. FlushedBefore(t, kind) = Resume(h)
    BY <1>4, FlushedFacts
  <2>2. /\ h \in Tab /\ SameView(f, h) /\ SameEdit(f, h) /\ SameLock(f, h)
        /\ h.calls = f.calls /\ f.mishaps \subseteq h.mishaps
    BY HasteningFacts
  <2> HIDE DEF f, h
  <2>3. BaseInv(h)
    BY <1>1, <1>2, <2>2, BaseKept DEF SameEdit
  <2>4. h.page = "open" /\ h.note # None
    BY <1>1, <2>2 DEF SameView, SameLock
  <2>5. QED
    BY <2>1, <2>2, <2>3, <2>4, BaseOfResume
<1>5. QED
  BY <1>3, <1>4

\* A save is over, ...
LEMMA BaseOfEnded ==
  ASSUME NEW t \in Tab, BaseInv(t), NEW ok \in BOOLEAN, t.page = "open" => t.note # None
  PROVE  BaseInv(Ended(t, ok))
<1> DEFINE u == Ended(t, ok)
<1>1. /\ u \in Tab /\ SameView(t, u) /\ SameLock(t, u) /\ u.mishaps = t.mishaps
      /\ u.touched = t.touched /\ ~u.saving
      /\ u.calls["save"].op = "none" /\ u.calls["save"].at = "idle"
      /\ OtherCalls(t, u, "save")
  BY EndedFacts
<1> HIDE DEF u
<1>2. CallsFit(u)
  <2>1. CallFits(u, "save")
    BY <1>1, IdleFits, FlowsAre
  <2>2. QED
    BY <1>1, <2>1, OthersKept, FlowsAre DEF BaseInv
<1>3. PageFits(u)
  BY <1>1, FlowsAre DEF BaseInv, PageFits, SameView, SameLock, Idle, OtherCalls
<1>4. SavingFits(u)
  BY <1>1 DEF SavingFits, Idle
<1>5. Loading(u)
  BY <1>1 DEF Loading, SameView, SameLock
<1>6. QED
  BY <1>2, <1>3, <1>4, <1>5 DEF BaseInv, u

\* ... and what awaited it goes on.
LEMMA BaseOfSettle ==
  ASSUME NEW t \in Tab, BaseInv(t), NEW ok \in BOOLEAN, t.page = "open" => t.note # None,
         t.leaving # "no" => t.page = "open"
  PROVE  BaseInv(Settle(t, "save", ok)) /\ LeavingFits(Settle(t, "save", ok))
<1> DEFINE u == Ended(t, ok)
<1>1. u \in Tab /\ SameView(t, u) /\ SameLock(t, u) /\ u.leaving = t.leaving
  BY EndedFacts
<1>2. BaseInv(u)
  BY BaseOfEnded
<1> HIDE DEF u
<1>3. u.leaving # "no" => u.page = "open" /\ u.note # None
  BY <1>1 DEF SameView, SameLock
<1>4. Settle(t, "save", ok) = Resume(u)
  BY SettleFacts DEF u
<1>5. QED
  BY <1>1, <1>2, <1>3, <1>4, BaseOfResume

\* The status of the lock changes.
LEMMA BaseOfTransition ==
  ASSUME NEW t \in Tab, BaseInv(t), NEW next \in LockStatus, t.page = "open" => t.note # None
  PROVE  BaseInv(Transition(t, next))
<1> DEFINE u == Transition(t, next)
<1>1. /\ u \in Tab /\ SameView(t, u) /\ SameEdit(t, u) /\ SameCalls(t, u)
      /\ u.note = t.note /\ u.status = next
      /\ u.shown = IF t.page = "open" THEN next ELSE t.shown
  BY TransitionFacts
<1> HIDE DEF u
<1>2. CallsFit(u)
  BY <1>1, CallsKept DEF BaseInv, SameCalls
<1>3. PageFits(u)
  BY <1>1 DEF BaseInv, PageFits, SameView, SameEdit, Idle, SameCalls
<1>4. SavingFits(u)
  BY <1>1 DEF BaseInv, SavingFits, SameView, SameEdit, Idle, SameCalls
<1>5. Loading(u)
  BY <1>1 DEF Loading, SameView
<1>6. QED
  BY <1>2, <1>3, <1>4, <1>5 DEF BaseInv, u

\* The lock is lost to somebody.
LEMMA BaseOfConflict ==
  ASSUME NEW t \in Tab, BaseInv(t), typed \in Nat, t.page = "open" => t.note # None
  PROVE  BaseInv(EnterConflict(t))
<1> DEFINE u == EnterConflict(t)
<1>1. /\ u \in Tab /\ SameView(t, u) /\ SameCalls(t, u)
      /\ u.touched = t.touched /\ u.saving = t.saving /\ u.note = t.note
      /\ u.status = "conflict" /\ u.shown = IF t.page = "open" THEN "conflict" ELSE t.shown
  BY ConflictFacts
<1> HIDE DEF u
<1>2. CallsFit(u)
  BY <1>1, CallsKept DEF BaseInv, SameCalls
<1>3. PageFits(u)
  BY <1>1 DEF BaseInv, PageFits, SameView, Idle, SameCalls
<1>4. SavingFits(u)
  BY <1>1 DEF BaseInv, SavingFits, SameView, Idle, SameCalls
<1>5. Loading(u)
  BY <1>1 DEF Loading, SameView
<1>6. QED
  BY <1>2, <1>3, <1>4, <1>5 DEF BaseInv, u

\* The lock could not be had.
LEMMA BaseOfNotAcquired ==
  ASSUME NEW t \in Tab, BaseInv(t), NEW other \in BOOLEAN, t.page = "open" => t.note # None
  PROVE  BaseInv(NotAcquired(t, other))
<1> DEFINE u == NotAcquired(t, other)
<1>1. /\ u \in Tab /\ SameView(t, u) /\ SameEdit(t, u) /\ u.calls = t.calls
      /\ t.mishaps \subseteq u.mishaps /\ u.note = t.note
      /\ u.shown = IF t.page = "open" THEN u.status ELSE t.shown
  BY NotAcquiredFacts
<1> HIDE DEF u
<1>2. CallsFit(u)
  BY <1>1, CallsKept DEF BaseInv
<1>3. PageFits(u)
  BY <1>1 DEF BaseInv, PageFits, SameView, SameEdit, Idle
<1>4. SavingFits(u)
  BY <1>1 DEF BaseInv, SavingFits, SameView, SameEdit, Idle
<1>5. Loading(u)
  BY <1>1 DEF Loading, SameView
<1>6. QED
  BY <1>2, <1>3, <1>4, <1>5 DEF BaseInv, u

\* The note is known, or known anew.
LEMMA BaseOfSetNote ==
  ASSUME NEW t \in Tab, BaseInv(t), NEW a \in Call, NEW other \in BOOLEAN
  PROVE  BaseInv(SetNote(t, a, other))
<1> DEFINE u == SetNote(t, a, other)
<1>1. a.got.vis # None
  BY EditorAssumption DEF Call, Doc
<1>2. /\ u \in Tab /\ SameView(t, u) /\ SameEdit(t, u) /\ OtherCalls(t, u, "take")
      /\ t.mishaps \subseteq u.mishaps
      /\ t.page # "open" \/ t.note = a.got.vis => u = t
      /\ t.page = "open" /\ t.note # a.got.vis =>
           /\ u.note = a.got.vis /\ u.shown = u.status
           /\ u.calls = t.calls \/ SentCall(u, "take", "lock", NoDoc)
  <2>1. a.got.vis \in {"PRIVATE", "PUBLIC"}
    BY DEF Call, Doc
  <2>2. QED
    BY <2>1, SetNoteFacts
<1> HIDE DEF u
<1>3. CASE t.page # "open" \/ t.note = a.got.vis
  BY <1>2, <1>3 DEF u
<1>4. CASE t.page = "open" /\ t.note # a.got.vis
  <2>1. CallsFit(u)
    <3>1. CASE u.calls = t.calls
      BY <1>2, <3>1, CallsKept DEF BaseInv
    <3>2. CASE SentCall(u, "take", "lock", NoDoc)
      <4>1. CallFits(u, "take")
        BY <1>2, <3>2, SentFits, OpsFit, FlowsAre
      <4>2. QED
        BY <1>2, <4>1, OthersKept, FlowsAre DEF BaseInv
    <3>3. QED
      BY <1>2, <1>4, <3>1, <3>2
  <2>2. PageFits(u)
    BY <1>2, <1>4, FlowsAre DEF BaseInv, PageFits, SameView, SameEdit, Idle, OtherCalls
  <2>3. SavingFits(u)
    BY <1>2, FlowsAre DEF BaseInv, SavingFits, SameView, SameEdit, Idle, OtherCalls
  <2>4. Loading(u)
    BY <1>1, <1>2, <1>4 DEF Loading
  <2>5. QED
    BY <2>1, <2>2, <2>3, <2>4 DEF BaseInv, u
<1>5. QED
  BY <1>3, <1>4

\* The lock is had.
LEMMA BaseOfAcquired ==
  ASSUME NEW t \in Tab, BaseInv(t), NEW a \in Call, t.page = "open" => t.note # None
  PROVE  BaseInv(Acquired(t, a))
<1> DEFINE u == Acquired(t, a)
           flips == t.page = "open" /\ t.shown # "mine" /\ t.note # a.got.vis
<1>1. a.got.vis # None
  BY EditorAssumption DEF Call, Doc
<1>2. /\ u \in Tab /\ SameView(t, u) /\ SameWork(t, u) /\ OtherCalls(t, u, "take")
      /\ t.mishaps \subseteq u.mishaps
      /\ t.page = "open" => u.shown = u.status
      /\ flips => u.calls = t.calls \/ SentCall(u, "take", "lock", NoDoc)
      /\ flips => u.note = a.got.vis
      /\ ~flips => u.calls = t.calls /\ u.note = t.note
  BY AcquiredFacts
<1> HIDE DEF u
<1>3. CallsFit(u)
  <2>1. CASE u.calls = t.calls
    BY <1>2, <2>1, CallsKept DEF BaseInv
  <2>2. CASE SentCall(u, "take", "lock", NoDoc)
    <3>1. CallFits(u, "take")
      BY <1>2, <2>2, SentFits, OpsFit, FlowsAre
    <3>2. QED
      BY <1>2, <3>1, OthersKept, FlowsAre DEF BaseInv
  <2>3. QED
    BY <1>2, <2>1, <2>2
<1>4. PageFits(u)
  BY <1>2, FlowsAre DEF BaseInv, PageFits, SameView, SameWork, Idle, OtherCalls
<1>5. SavingFits(u)
  BY <1>2, FlowsAre DEF BaseInv, SavingFits, SameView, SameWork, Idle, OtherCalls
<1>6. Loading(u)
  BY <1>1, <1>2 DEF Loading, SameView
<1>7. QED
  BY <1>3, <1>4, <1>5, <1>6 DEF BaseInv, u

(***************************************************************************)
(* ... and by every action.                                                *)
(***************************************************************************)

\* The types of everything, and that.
IBase == TypeOK /\ OthersArePublic /\ BaseInv(tab) /\ LeavingFits(tab)

\* A step of the tab alone.
LEMMA TabStep ==
  ASSUME IBase, tab' \in Tab, BaseInv(tab'), LeavingFits(tab'), UNCHANGED <<serverVars, typed>>
  PROVE  IBase'
<1>1. TypeOK'
  BY DEF IBase, TypeOK, LeaseTypeOK, serverVars
<1>2. OthersArePublic'
  BY DEF IBase, OthersArePublic, serverVars
<1>3. CallsFit(tab)'
  BY DEF BaseInv, CallsFit, CallFits, serverVars
<1>4. Loading(tab)'
  BY DEF BaseInv, Loading, Idle, serverVars
<1>5. (PageFits(tab) /\ SavingFits(tab) /\ LeavingFits(tab))'
  BY DEF BaseInv, PageFits, SavingFits, LeavingFits, Idle, serverVars
<1>6. QED
  BY <1>1, <1>2, <1>3, <1>4, <1>5 DEF IBase, BaseInv

\* What a keystroke and the switch of the visibility make of a draft.
LEMMA DraftTypes ==
  ASSUME NEW d \in Doc
  PROVE  /\ \A n \in Nat : [d EXCEPT !.mine = @ \cup {n}] \in Doc
         /\ \A n \in Nat : [d EXCEPT !.mine = @ \cup {n}].mine = d.mine \cup {n}
         /\ \A n \in Nat : [d EXCEPT !.mine = @ \cup {n}].theirs = d.theirs
         /\ \A v \in {"PRIVATE", "PUBLIC"} :
              /\ [d EXCEPT !.vis = v] \in Doc /\ [d EXCEPT !.vis = v].mine = d.mine
              /\ [d EXCEPT !.vis = v].theirs = d.theirs /\ [d EXCEPT !.vis = v].vis = v
BY DEF Doc

\* The draft with one more keystroke, queued.
LEMMA TypedFacts ==
  ASSUME NEW t \in Tab, typed \in Nat
  PROVE  LET u == Queue([t EXCEPT !.draft.mine = @ \cup {typed + 1}]) IN
         /\ u \in Tab /\ SameView(t, u) /\ SameLock(t, u) /\ u.calls = t.calls
         /\ t.mishaps \subseteq u.mishaps
         /\ u.draft.mine = t.draft.mine \cup {typed + 1} /\ u.draft.theirs = t.draft.theirs
         /\ u.told = t.told /\ u.saving = t.saving /\ u.leaving = t.leaving
         /\ u.touched /\ u.dirty /\ u.armed
         /\ t.leaving # "no" => "hurry" \in u.mishaps
<1> DEFINE doc == [t.draft EXCEPT !.mine = @ \cup {typed + 1}]
           w == [t EXCEPT !.draft = doc]
           u == Queue(w)
<1>1. t.draft \in Doc /\ typed + 1 \in Nat
  BY DEF Tab
<1>2. /\ doc \in Doc /\ doc.mine = t.draft.mine \cup {typed + 1}
      /\ doc.theirs = t.draft.theirs
  BY <1>1, DraftTypes
<1>3. [t EXCEPT !.draft.mine = @ \cup {typed + 1}] = w
  OBVIOUS
<1> HIDE DEF doc
<1>4. /\ w \in Tab /\ SameView(t, w) /\ SameLock(t, w) /\ SameCalls(t, w)
      /\ w.draft = doc /\ w.touched = t.touched /\ w.told = t.told
      /\ w.dirty = t.dirty /\ w.saving = t.saving /\ w.armed = t.armed /\ w.leaving = t.leaving
  BY <1>2, DraftFacts
<1> HIDE DEF w
<1>5. /\ u \in Tab /\ SameView(w, u) /\ SameLock(w, u) /\ u.calls = w.calls
      /\ w.mishaps \subseteq u.mishaps
      /\ u.draft = w.draft /\ u.told = w.told /\ u.saving = w.saving /\ u.leaving = w.leaving
      /\ u.touched /\ u.dirty /\ u.armed
      /\ w.leaving # "no" => "hurry" \in u.mishaps
  BY <1>4, QueueFacts
<1> HIDE DEF u
<1>6. SameView(t, u) /\ SameLock(t, u)
  BY <1>4, <1>5 DEF SameView, SameLock
<1>7. u = Queue([t EXCEPT !.draft.mine = @ \cup {typed + 1}])
  BY <1>3 DEF u
<1>8. QED
  BY <1>2, <1>4, <1>5, <1>6, <1>7 DEF SameCalls

\* The switch of the visibility, queued.
Flipped(t) == Queue([t EXCEPT !.draft.vis = IF @ = "PUBLIC" THEN "PRIVATE" ELSE "PUBLIC"])

\* The draft has changed and waits to be saved, nothing else.
LEMMA FlippedFacts ==
  ASSUME NEW t \in Tab
  PROVE  LET u == Flipped(t) IN
         /\ u \in Tab /\ SameView(t, u) /\ SameLock(t, u) /\ u.calls = t.calls
         /\ t.mishaps \subseteq u.mishaps
         /\ u.draft.mine = t.draft.mine /\ u.draft.theirs = t.draft.theirs
         /\ u.told = t.told /\ u.saving = t.saving /\ u.leaving = t.leaving
         /\ u.touched /\ u.dirty /\ u.armed
         /\ t.leaving # "no" => "hurry" \in u.mishaps
<1> DEFINE v == IF t.draft.vis = "PUBLIC" THEN "PRIVATE" ELSE "PUBLIC"
           doc == [t.draft EXCEPT !.vis = v]
           w == [t EXCEPT !.draft = doc]
           u == Queue(w)
<1>1. t.draft \in Doc /\ v \in {"PRIVATE", "PUBLIC"}
  BY DEF Tab
<1>2. [t EXCEPT !.draft.vis = IF @ = "PUBLIC" THEN "PRIVATE" ELSE "PUBLIC"] = w
  OBVIOUS
<1> HIDE DEF v
<1>3. doc \in Doc /\ doc.mine = t.draft.mine /\ doc.theirs = t.draft.theirs
  BY <1>1, DraftTypes
<1> HIDE DEF doc
<1>4. /\ w \in Tab /\ SameView(t, w) /\ SameLock(t, w) /\ SameCalls(t, w)
      /\ w.draft = doc /\ w.touched = t.touched /\ w.told = t.told
      /\ w.dirty = t.dirty /\ w.saving = t.saving /\ w.armed = t.armed /\ w.leaving = t.leaving
  BY <1>3, DraftFacts
<1> HIDE DEF w
<1>5. /\ u \in Tab /\ SameView(w, u) /\ SameLock(w, u) /\ u.calls = w.calls
      /\ w.mishaps \subseteq u.mishaps
      /\ u.draft = w.draft /\ u.told = w.told /\ u.saving = w.saving /\ u.leaving = w.leaving
      /\ u.touched /\ u.dirty /\ u.armed
      /\ w.leaving # "no" => "hurry" \in u.mishaps
  BY <1>4, QueueFacts
<1> HIDE DEF u
<1>6. SameView(t, u) /\ SameLock(t, u)
  BY <1>4, <1>5 DEF SameView, SameLock
<1>7. u = Flipped(t)
  BY <1>2 DEF u, Flipped
<1>8. QED
  BY <1>3, <1>4, <1>5, <1>6, <1>7 DEF SameCalls

\* The server answers a call.
LEMMA AnswerFacts ==
  ASSUME tab \in Tab, NEW f \in Flows, NEW doc \in Doc,
         NEW at \in {"ok", "held", "required", "gone"}, Answer(f, at, doc)
  PROVE  /\ tab' \in Tab /\ SameView(tab, tab') /\ SameEdit(tab, tab') /\ SameLock(tab, tab')
         /\ tab'.mishaps = tab.mishaps /\ OtherCalls(tab, tab', f)
         /\ ~Alive => tab'.calls[f].op = "none" /\ tab'.calls[f].at = "idle"
         /\ Alive => /\ tab'.calls[f].op = tab.calls[f].op /\ tab'.calls[f].at = at
                     /\ tab'.calls[f].got = doc /\ tab'.calls[f].sent = tab.calls[f].sent
<1>1. CASE ~Alive
  <2>1. tab' = Done(tab, f)
    BY <1>1 DEF Answer
  <2>2. QED
    BY <1>1, <2>1, DoneFacts
<1>2. CASE Alive
  <2> DEFINE c0 == tab.calls[f]
             c1 == [c0 EXCEPT !.at = at]
             c2 == [c1 EXCEPT !.got = doc]
             taken == tab.calls[f].op # "lock" /\ holder' = Other /\ fresh'
             c == [c2 EXCEPT !.taken = taken]
  <2>1. c0 \in Call
    BY DEF Tab
  <2>2. tab' = [tab EXCEPT !.calls[f] = c]
    BY <1>2 DEF Answer
  <2>3. taken \in BOOLEAN
    OBVIOUS
  <2> HIDE DEF c0, taken
  <2>4. c1 \in Call /\ c1.op = c0.op /\ c1.at = at /\ c1.sent = c0.sent
    BY <2>1 DEF Call
  <2> HIDE DEF c1
  <2>5. c2 \in Call /\ c2.op = c1.op /\ c2.at = c1.at /\ c2.sent = c1.sent /\ c2.got = doc
    BY <2>4 DEF Call
  <2> HIDE DEF c2
  <2>6. c \in Call /\ c.op = c2.op /\ c.at = c2.at /\ c.sent = c2.sent /\ c.got = c2.got
    BY <2>3, <2>5 DEF Call
  <2> HIDE DEF c
  <2>7. /\ tab' \in Tab /\ SameView(tab, tab') /\ SameEdit(tab, tab') /\ SameLock(tab, tab')
        /\ tab'.mishaps = tab.mishaps /\ tab'.calls[f] = c /\ OtherCalls(tab, tab', f)
    BY <2>2, <2>6, CallsChange
  <2>8. QED
    BY <1>2, <2>4, <2>5, <2>6, <2>7 DEF c0
<1>3. QED
  BY <1>1, <1>2

\* A call fails on the way.
LEMMA LostFacts ==
  ASSUME tab \in Tab, NEW f \in Flows, LoseCall(f)
  PROVE  /\ tab' \in Tab /\ SameView(tab, tab') /\ SameEdit(tab, tab') /\ SameLock(tab, tab')
         /\ tab'.mishaps = tab.mishaps \cup {"fault"} /\ OtherCalls(tab, tab', f)
         /\ tab'.calls[f].op = tab.calls[f].op /\ tab'.calls[f].at = "error"
         /\ tab'.calls[f].got = NoDoc /\ tab'.calls[f].sent = tab.calls[f].sent
<1> DEFINE c0 == tab.calls[f]
           c1 == [c0 EXCEPT !.at = "error"]
           c == [c1 EXCEPT !.got = NoDoc]
           w == [tab EXCEPT !.calls[f] = c]
<1>1. c0 \in Call
  BY DEF Tab
<1>2. tab' = Noting(w, "fault")
  BY DEF LoseCall
<1> HIDE DEF c0
<1>3. c1 \in Call /\ c1.op = c0.op /\ c1.at = "error" /\ c1.sent = c0.sent
  BY <1>1 DEF Call
<1> HIDE DEF c1
<1>4. c \in Call /\ c.op = c1.op /\ c.at = c1.at /\ c.sent = c1.sent /\ c.got = NoDoc
  BY <1>3, DocTypes DEF Call
<1> HIDE DEF c
<1>5. /\ w \in Tab /\ SameView(tab, w) /\ SameEdit(tab, w) /\ SameLock(tab, w)
      /\ w.mishaps = tab.mishaps /\ w.calls[f] = c /\ OtherCalls(tab, w, f)
  BY <1>4, CallsChange
<1> HIDE DEF w
<1>6. /\ tab' \in Tab /\ SameView(w, tab') /\ SameEdit(w, tab') /\ SameLock(w, tab')
      /\ tab'.calls = w.calls /\ tab'.mishaps = w.mishaps \cup {"fault"}
  BY <1>2, <1>5, NotingFacts DEF Mishaps
<1>7. SameView(tab, tab') /\ SameEdit(tab, tab') /\ SameLock(tab, tab')
  BY <1>5, <1>6 DEF SameView, SameEdit, SameLock
<1>8. QED
  BY <1>3, <1>4, <1>5, <1>6, <1>7 DEF OtherCalls, c0

\* The member types, or switches the visibility.
LEMMA BaseOfEdit ==
  ASSUME IBase, NEW immediate \in BOOLEAN, Edit(immediate)
  PROVE  IBase'
<1> DEFINE e == Queue([tab EXCEPT !.draft.mine = @ \cup {typed + 1}])
<1>1. tab \in Tab /\ typed \in Nat /\ BaseInv(tab) /\ LeavingFits(tab)
  BY DEF IBase, TypeOK
<1>2. /\ e \in Tab /\ SameView(tab, e) /\ SameLock(tab, e) /\ e.calls = tab.calls
      /\ tab.mishaps \subseteq e.mishaps
      /\ e.saving = tab.saving /\ e.leaving = tab.leaving /\ e.touched /\ e.dirty
  BY <1>1, TypedFacts
<1>3. tab.page = "open" /\ tab.note # None /\ Editable(tab)
  BY DEF Edit, Rendered, Mounted
<1>4. tab' = IF immediate THEN Run(e) ELSE e
  BY DEF Edit
<1> HIDE DEF e
<1>5. e.note # None /\ e.page = "open"
  BY <1>2, <1>3 DEF SameLock, SameView
<1>6. BaseInv(e) /\ LeavingFits(e)
  <2>1. BaseInv(e)
    BY <1>1, <1>2, <1>3, BaseKept
  <2>2. LeavingFits(e)
    BY <1>1, <1>2 DEF LeavingFits, SameView
  <2>3. QED
    BY <2>1, <2>2
<1>7. /\ tab' \in Tab /\ BaseInv(tab') /\ LeavingFits(tab') /\ tab'.note # None
      /\ tab'.touched /\ tab'.page = "open"
  <2>1. CASE immediate
    <3> DEFINE u == Run(e)
    <3>1. /\ u \in Tab /\ SameView(e, u) /\ SameLock(e, u)
          /\ u.touched = e.touched /\ u.leaving = e.leaving
          /\ e.saving => u = e
      BY <1>2, RunFacts
    <3>2. BaseInv(u)
      BY <1>2, <1>6, BaseOfRun
    <3> HIDE DEF u
    <3>3. LeavingFits(u)
      BY <1>6, <3>1 DEF LeavingFits, SameView
    <3>4. tab' = u
      BY <1>4, <2>1 DEF u
    <3>5. QED
      BY <1>2, <1>5, <3>1, <3>2, <3>3, <3>4 DEF SameLock, SameView
  <2>2. CASE ~immediate
    BY <1>2, <1>4, <1>5, <1>6, <2>2
  <2>3. QED
    BY <2>1, <2>2
<1>8. typed' = typed + 1 /\ UNCHANGED serverVars
  BY DEF Edit
<1>9. TypeOK'
  BY <1>1, <1>7, <1>8 DEF IBase, TypeOK, LeaseTypeOK, serverVars
<1>10. OthersArePublic'
  BY <1>8 DEF IBase, OthersArePublic, serverVars
<1>11. CallsFit(tab)'
  BY <1>7, <1>8 DEF BaseInv, CallsFit, CallFits, serverVars
<1>12. (PageFits(tab) /\ SavingFits(tab) /\ LeavingFits(tab) /\ Loading(tab))'
  BY <1>7 DEF BaseInv, PageFits, SavingFits, LeavingFits, Loading, Idle
<1>13. QED
  BY <1>9, <1>10, <1>11, <1>12 DEF IBase, BaseInv

\* Something, then a save.
LEMMA BaseOfRunning ==
  ASSUME IBase, NEW t \in Tab, BaseInv(t), SameView(tab, t),
         t.saving = tab.saving, t.leaving = tab.leaving,
         tab' = Run(t), UNCHANGED <<serverVars, typed>>
  PROVE  IBase'
<1>1. tab' \in Tab /\ BaseInv(tab')
  BY RunFacts, BaseOfRun
<1>2. SameView(t, tab') /\ tab'.leaving = t.leaving /\ (t.saving => tab' = t)
  BY RunFacts
<1>3. LeavingFits(tab')
  BY <1>2 DEF IBase, LeavingFits, SameView
<1>4. QED
  BY <1>1, <1>3, TabStep

\* Nothing but the view, or the mishaps, changes.
LEMMA BaseOfView ==
  ASSUME IBase, tab' \in Tab, tab'.page = tab.page, SameEdit(tab, tab'), SameLock(tab, tab'),
         tab'.calls = tab.calls, tab.mishaps \subseteq tab'.mishaps
  PROVE  BaseInv(tab') /\ LeavingFits(tab')
<1>1. tab \in Tab /\ BaseInv(tab) /\ LeavingFits(tab)
  BY DEF IBase, TypeOK
<1>2. CallsFit(tab')
  BY <1>1, CallsKept DEF BaseInv
<1>3. PageFits(tab') /\ SavingFits(tab') /\ Loading(tab') /\ LeavingFits(tab')
  BY <1>1 DEF BaseInv, PageFits, SavingFits, Loading, LeavingFits, SameLock, SameEdit, Idle
<1>4. QED
  BY <1>2, <1>3 DEF BaseInv

\* What lies over the editor changes.
LEMMA OverlayFacts ==
  ASSUME NEW t \in Tab, NEW o \in {"none", "menu", "confirm"}
  PROVE  LET u == [t EXCEPT !.overlay = o] IN
         /\ u \in Tab /\ u.page = t.page /\ SameEdit(t, u) /\ SameLock(t, u) /\ SameCalls(t, u)
BY DEF Tab, SameEdit, SameLock, SameCalls

\* Every step of the member keeps the base.
LEMMA BaseOfMember ==
  ASSUME IBase, Member
  PROVE  IBase'
<1>1. tab \in Tab /\ typed \in Nat /\ BaseInv(tab) /\ LeavingFits(tab)
  BY DEF IBase, TypeOK
<1>2. CASE Type \/ PickColor
  BY <1>2, BaseOfEdit DEF Type, PickColor
<1>3. CASE ToggleVisibility
  <2> DEFINE t == Flipped(tab)
  <2>1. /\ t \in Tab /\ SameView(tab, t) /\ SameLock(tab, t) /\ t.calls = tab.calls
        /\ tab.mishaps \subseteq t.mishaps
        /\ t.saving = tab.saving /\ t.leaving = tab.leaving /\ t.touched
    BY <1>1, FlippedFacts
  <2>2. tab' = Run(t) /\ tab.note # None /\ UNCHANGED <<serverVars, typed>>
    BY <1>3 DEF ToggleVisibility, Flipped, Rendered
  <2> HIDE DEF t
  <2>3. BaseInv(t)
    BY <1>1, <2>1, <2>2, BaseKept
  <2>4. QED
    BY <2>1, <2>2, <2>3, BaseOfRunning
<1>4. CASE Blur
  <2>1. tab' = Run(tab) /\ UNCHANGED <<serverVars, typed>>
    BY <1>4 DEF Blur
  <2>2. QED
    BY <1>1, <2>1, BaseOfRunning DEF SameView
<1>5. CASE Close
  <2>1. /\ tab' = FlushedBefore(tab, "close") /\ UNCHANGED <<serverVars, typed>>
        /\ tab.note # None /\ tab.page = "open"
    BY <1>5 DEF Close, CanLeave, Rendered, Mounted
  <2>2. BaseInv(tab') /\ LeavingFits(tab')
    BY <1>1, <2>1, BaseOfFlushed
  <2>3. tab' \in Tab
    BY <1>1, <2>1, FlushedFacts, FlushingFacts, HasteningFacts, ResumeFacts
  <2>4. QED
    BY <2>1, <2>2, <2>3, TabStep
<1>6. CASE ArchiveNote
  <2> DEFINE t == [tab EXCEPT !.overlay = "none"]
  <2>1. /\ tab' = FlushedBefore(t, "archive") /\ UNCHANGED <<serverVars, typed>>
        /\ tab.note # None /\ tab.page = "open"
    BY <1>6 DEF ArchiveNote, CanLeave, Rendered, Mounted
  <2>2. t \in Tab /\ t.page = tab.page /\ SameEdit(tab, t) /\ SameLock(tab, t) /\ SameCalls(tab, t)
    BY <1>1, OverlayFacts
  <2> HIDE DEF t
  <2>3. t.note # None /\ t.page = "open"
    BY <2>1, <2>2 DEF SameLock
  <2>4. BaseInv(t)
    <3>1. CallsFit(t)
      BY <1>1, <2>2, CallsKept DEF BaseInv, SameCalls
    <3>2. PageFits(t) /\ SavingFits(t) /\ Loading(t)
      BY <1>1, <2>2 DEF BaseInv, PageFits, SavingFits, Loading, SameLock, SameEdit, SameCalls, Idle
    <3>3. QED
      BY <3>1, <3>2 DEF BaseInv
  <2>5. BaseInv(tab') /\ LeavingFits(tab')
    BY <2>1, <2>2, <2>3, <2>4, BaseOfFlushed
  <2>6. tab' \in Tab
    BY <2>1, <2>2, FlushedFacts, FlushingFacts, HasteningFacts, ResumeFacts
  <2>7. QED
    BY <2>1, <2>5, <2>6, TabStep
<1>7. CASE OpenMenu \/ CloseOverlay \/ AskDelete
  <2>1. UNCHANGED <<serverVars, typed>>
    BY <1>7 DEF OpenMenu, CloseOverlay, AskDelete
  <2>2. \E o \in {"none", "menu", "confirm"} : tab' = [tab EXCEPT !.overlay = o]
    BY <1>7 DEF OpenMenu, CloseOverlay, AskDelete
  <2>3. /\ tab' \in Tab /\ tab'.page = tab.page /\ SameEdit(tab, tab') /\ SameLock(tab, tab')
        /\ SameCalls(tab, tab')
    BY <1>1, <2>2, OverlayFacts
  <2>4. BaseInv(tab') /\ LeavingFits(tab')
    BY <2>3, BaseOfView DEF SameCalls
  <2>5. QED
    BY <2>1, <2>3, <2>4, TabStep
<1>8. CASE RemoveNote
  <2> DEFINE t == [tab EXCEPT !.overlay = "none"]
  <2>1. /\ tab' = Send(t, "leave", "delete", NoDoc) /\ UNCHANGED <<serverVars, typed>>
        /\ tab.note # None /\ tab.page = "open"
    BY <1>8 DEF RemoveNote, CanLeave, Rendered, Mounted
  <2>2. t \in Tab /\ t.page = tab.page /\ SameEdit(tab, t) /\ SameLock(tab, t) /\ SameCalls(tab, t)
    BY <1>1, OverlayFacts
  <2> HIDE DEF t
  <2>3. t.note # None /\ t.page = "open"
    BY <2>1, <2>2 DEF SameLock
  <2>4. BaseInv(t)
    <3>1. CallsFit(t)
      BY <1>1, <2>2, CallsKept DEF BaseInv, SameCalls
    <3>2. PageFits(t) /\ SavingFits(t) /\ Loading(t)
      BY <1>1, <2>2 DEF BaseInv, PageFits, SavingFits, Loading, SameLock, SameEdit, SameCalls, Idle
    <3>3. QED
      BY <3>1, <3>2 DEF BaseInv
  <2>5. BaseInv(tab')
    BY <2>1, <2>2, <2>3, <2>4, BaseOfSend, DocTypes, OpsFit, FlowsAre
  <2>6. tab' \in Tab /\ SameView(t, tab') /\ SameEdit(t, tab')
    BY <2>1, <2>2, SendFacts, DocTypes, FlowsAre
  <2>7. LeavingFits(tab')
    BY <1>1, <2>2, <2>6 DEF LeavingFits, SameView, SameEdit
  <2>8. QED
    BY <2>1, <2>5, <2>6, <2>7, TabStep
<1>9. CASE GoBack
  <2> DEFINE t == NotingIf(tab, tab.dirty \/ Busy(tab), "hurry")
  <2>1. tab' = Unmount(t) /\ UNCHANGED <<serverVars, typed>> /\ tab.page = "open"
    BY <1>9 DEF GoBack, Mounted
  <2>2. (tab.dirty \/ Busy(tab)) \in BOOLEAN /\ "hurry" \in Mishaps
    BY <1>1 DEF Busy, Idle, Tab, Mishaps
  <2>3. /\ t \in Tab /\ SameView(tab, t) /\ SameEdit(tab, t) /\ SameLock(tab, t)
        /\ t.calls = tab.calls /\ tab.mishaps \subseteq t.mishaps
    BY <1>1, <2>2, NotingIfFacts
  <2> HIDE DEF t
  <2>4. BaseInv(t) /\ t.page = "open"
    BY <1>1, <2>1, <2>3, BaseKept DEF SameEdit, SameView
  <2>5. BaseInv(tab') /\ LeavingFits(tab') /\ tab' \in Tab
    BY <2>1, <2>3, <2>4, BaseOfUnmount, UnmountFacts DEF Left
  <2>6. QED
    BY <2>1, <2>5, TabStep
<1>10. CASE CloseTab
  <2>1. /\ tab' \in Tab /\ tab'.page = "dead" /\ tab'.leaving = "no"
        /\ tab.mishaps \subseteq tab'.mishaps
        /\ \A f \in Flows : tab'.calls[f] = IF Sent(f) THEN tab.calls[f] ELSE NoCall
    BY <1>1, <1>10, CloseTabFacts
  <2>2. UNCHANGED <<serverVars, typed>>
    BY <1>10 DEF CloseTab
  <2>3. CallsFit(tab')
    <3> SUFFICES ASSUME NEW f \in Flows PROVE CallFits(tab', f)
      BY DEF CallsFit
    <3>1. CASE Sent(f)
      BY <1>1, <2>1, <3>1, CallKept DEF BaseInv, CallsFit
    <3>2. CASE ~Sent(f)
      BY <2>1, <3>2, IdleFits DEF NoCall
    <3>3. QED
      BY <3>1, <3>2
  <2>4. PageFits(tab') /\ SavingFits(tab') /\ Loading(tab') /\ LeavingFits(tab')
    BY <2>1 DEF PageFits, SavingFits, Loading, LeavingFits
  <2>5. QED
    BY <2>1, <2>2, <2>3, <2>4, TabStep DEF BaseInv
<1>11. CASE TakeOver
  <2> DEFINE t == Send(tab, "take", "lock", NoDoc)
  <2>1. /\ tab' = NotingIf(t, tab.leaving # "no", "hurry") /\ UNCHANGED <<serverVars, typed>>
        /\ tab.shown = "available"
    BY <1>11 DEF TakeOver
  <2>2. tab.page = "open" => tab.note # None
    BY <1>1, <2>1 DEF BaseInv, Loading
  <2>3. BaseInv(t)
    BY <1>1, <2>2, BaseOfSend, DocTypes, OpsFit, FlowsAre
  <2>4. t \in Tab /\ SameView(tab, t) /\ SameEdit(tab, t)
    BY <1>1, SendFacts, DocTypes, FlowsAre
  <2> HIDE DEF t
  <2>5. /\ tab' \in Tab /\ SameView(t, tab') /\ SameEdit(t, tab') /\ SameLock(t, tab')
        /\ tab'.calls = t.calls /\ t.mishaps \subseteq tab'.mishaps
    BY <2>1, <2>4, NotingIfFacts DEF Mishaps
  <2>6. BaseInv(tab')
    BY <2>3, <2>4, <2>5, BaseKept DEF SameEdit
  <2>7. LeavingFits(tab')
    BY <1>1, <2>4, <2>5 DEF LeavingFits, SameView, SameEdit
  <2>8. QED
    BY <2>1, <2>5, <2>6, <2>7, TabStep
<1>12. CASE GoReadOnly
  <2> DEFINE l == Transition(tab, "locked")
             p == StartPolling(l)
  <2>1. /\ tab' = Send(p, "poll", "get", NoDoc) /\ UNCHANGED <<serverVars, typed>>
        /\ tab.shown = "conflict"
    BY <1>12 DEF GoReadOnly
  <2>2. tab.page = "open" => tab.note # None
    BY <1>1, <2>1 DEF BaseInv, Loading
  <2>3. BaseInv(l) /\ l \in Tab /\ SameView(tab, l) /\ SameEdit(tab, l) /\ l.note = tab.note
    BY <1>1, <2>2, BaseOfTransition, TransitionFacts DEF LockStatus
  <2> HIDE DEF l
  <2>4. /\ p \in Tab /\ SameView(l, p) /\ SameEdit(l, p) /\ SameCalls(l, p)
        /\ p.note = l.note /\ p.status = l.status /\ p.shown = l.shown
    BY <2>3, TimersFacts
  <2> HIDE DEF p
  <2>5. l.page = "open" => l.note # None
    BY <2>2, <2>3 DEF SameView
  <2>6. BaseInv(p)
    <3>1. CallsFit(p)
      BY <2>3, <2>4, CallsKept DEF BaseInv, SameCalls
    <3>2. PageFits(p) /\ SavingFits(p)
      BY <2>3, <2>4 DEF BaseInv, PageFits, SavingFits, SameView, SameEdit, SameCalls, Idle
    <3>3. Loading(p)
      BY <2>4, <2>5 DEF Loading, SameView
    <3>4. QED
      BY <3>1, <3>2, <3>3 DEF BaseInv
  <2>7. p.page = "open" => p.note # None
    BY <2>4, <2>5 DEF SameView
  <2>8. BaseInv(tab')
    BY <2>1, <2>4, <2>6, <2>7, BaseOfSend, DocTypes, OpsFit, FlowsAre
  <2>9. tab' \in Tab /\ SameView(p, tab') /\ SameEdit(p, tab')
    BY <2>1, <2>4, SendFacts, DocTypes, FlowsAre
  <2>10. LeavingFits(tab')
    BY <1>1, <2>3, <2>4, <2>9 DEF LeavingFits, SameView, SameEdit
  <2>11. QED
    BY <2>1, <2>8, <2>9, <2>10, TabStep
<1>13. QED
  BY <1>2, <1>3, <1>4, <1>5, <1>6, <1>7, <1>8, <1>9, <1>10, <1>11, <1>12 DEF Member

\* A call that is no save goes out.
LEMMA SendStep ==
  ASSUME IBase, NEW f \in Flows, NEW op \in {"get", "lock", "patch", "retry", "archive", "delete"},
         op \in Ops(f), tab' = Send(tab, f, op, NoDoc), f \notin {"save", "last"},
         tab.page = "open" => tab.note # None, UNCHANGED <<serverVars, typed>>
  PROVE  IBase'
<1>1. tab \in Tab /\ BaseInv(tab) /\ LeavingFits(tab)
  BY DEF IBase, TypeOK
<1>2. BaseInv(tab')
  BY <1>1, BaseOfSend, DocTypes
<1>3. tab' \in Tab /\ SameView(tab, tab') /\ SameEdit(tab, tab')
  BY <1>1, SendFacts, DocTypes
<1>4. LeavingFits(tab')
  BY <1>1, <1>3 DEF LeavingFits, SameView, SameEdit
<1>5. QED
  BY <1>2, <1>3, <1>4, TabStep

\* Every step of a timer keeps the base.
LEMMA BaseOfTimers ==
  ASSUME IBase, Timers
  PROVE  IBase'
<1>1. tab \in Tab /\ typed \in Nat /\ BaseInv(tab) /\ LeavingFits(tab)
  BY DEF IBase, TypeOK
<1>2. CASE TimerFires
  <2> DEFINE t == [tab EXCEPT !.armed = FALSE]
  <2>1. tab' = Run(t) /\ UNCHANGED <<serverVars, typed>>
    BY <1>2 DEF TimerFires
  <2>2. /\ t \in Tab /\ SameView(tab, t) /\ SameLock(tab, t) /\ SameCalls(tab, t)
        /\ t.saving = tab.saving /\ t.leaving = tab.leaving /\ t.touched = tab.touched
        /\ t.dirty = tab.dirty
    BY <1>1 DEF Tab, SameView, SameLock, SameCalls
  <2> HIDE DEF t
  <2>3. BaseInv(t)
    BY <1>1, <2>2, BaseKept DEF SameCalls
  <2>4. QED
    BY <2>1, <2>2, <2>3, BaseOfRunning
<1>3. CASE HeartbeatTick
  <2>1. tab' = Send(tab, "beat", "lock", NoDoc) /\ tab.beating /\ UNCHANGED <<serverVars, typed>>
    BY <1>3 DEF HeartbeatTick
  <2>2. tab.page = "open" => tab.note # None
    BY <1>1, <2>1 DEF BaseInv, Loading
  <2>3. QED
    BY <2>1, <2>2, SendStep, OpsFit, FlowsAre
<1>4. CASE PollTick
  <2>1. tab' = Send(tab, "poll", "get", NoDoc) /\ tab.polling /\ UNCHANGED <<serverVars, typed>>
    BY <1>4 DEF PollTick
  <2>2. tab.page = "open" => tab.note # None
    BY <1>1, <2>1 DEF BaseInv, Loading
  <2>3. QED
    BY <2>1, <2>2, SendStep, OpsFit, FlowsAre
<1>5. QED
  BY <1>2, <1>3, <1>4 DEF Timers

\* A note that this member cannot read is gone for good: the note of
\* somebody else was never private here.
LEMMA UnreadableIsGone ==
  ASSUME TypeOK, OthersArePublic, ~Readable(Me)
  PROVE  row = "gone"
BY EditorAssumption DEF TypeOK, OthersArePublic, Readable, Doc

\* What an answer leaves of the facts about the calls.
LEMMA BaseOfAnswer ==
  ASSUME IBase, NEW f \in Flows, NEW at \in {"ok", "held", "required", "gone"}, NEW doc \in Doc,
         Answer(f, at, doc), Sent(f), LeaseTypeOK', text' \in Doc, row' \in {"live", "gone"},
         UNCHANGED <<owner, typed>>, OthersArePublic',
         row = "gone" => row' = "gone", at = "gone" => row' = "gone",
         at \in {"held", "required"} => tab.calls[f].op \in {"lock", "patch", "retry"},
         f = "load" /\ at = "ok" => doc.vis = text'.vis
  PROVE  IBase'
<1>1. tab \in Tab /\ typed \in Nat /\ owner \in Users /\ BaseInv(tab) /\ LeavingFits(tab)
  BY DEF IBase, TypeOK
<1>2. /\ tab' \in Tab /\ SameView(tab, tab') /\ SameEdit(tab, tab') /\ SameLock(tab, tab')
      /\ tab'.mishaps = tab.mishaps /\ OtherCalls(tab, tab', f)
      /\ ~Alive => tab'.calls[f].op = "none" /\ tab'.calls[f].at = "idle"
      /\ Alive => /\ tab'.calls[f].op = tab.calls[f].op /\ tab'.calls[f].at = at
                  /\ tab'.calls[f].got = doc
  BY <1>1, AnswerFacts
<1>3. TypeOK'
  BY <1>1, <1>2 DEF TypeOK
<1>4. CallsFit(tab)'
  <2> SUFFICES ASSUME NEW g \in Flows PROVE CallFits(tab, g)'
    BY DEF CallsFit
  <2>1. CallFits(tab, g) /\ CallFits(tab, f)
    BY <1>1 DEF BaseInv, CallsFit
  <2>2. CASE g # f
    BY <1>2, <2>1, <2>2 DEF CallFits, OtherCalls
  <2>3. CASE g = f /\ ~Alive
    BY <1>2, <2>3 DEF CallFits
  <2>4. CASE g = f /\ Alive
    BY <1>2, <2>1, <2>4 DEF CallFits, Sent
  <2>5. QED
    BY <2>2, <2>3, <2>4
<1>5. PageFits(tab)'
  BY <1>1, <1>2, FlowsAre
  DEF BaseInv, PageFits, Idle, SameView, SameEdit, SameLock, OtherCalls, Sent, Alive
<1>6. SavingFits(tab)'
  BY <1>1, <1>2, FlowsAre
  DEF BaseInv, SavingFits, Idle, SameView, SameEdit, OtherCalls, Sent, Alive
<1>7. LeavingFits(tab)'
  BY <1>1, <1>2 DEF LeavingFits, SameView, SameEdit
<1>8. Loading(tab)'
  <2> SUFFICES ASSUME tab'.page = "open", tab'.note = None
               PROVE  Loading(tab)'
    BY DEF Loading
  <2>1. tab.page = "open" /\ tab.note = None
    BY <1>2 DEF SameView, SameLock
  <2>2. f = "load"
    BY <1>1, <2>1 DEF BaseInv, Loading, Idle, Sent
  <2>3. \A g \in Flows \ {"load"} : Idle(tab, g)'
    BY <1>1, <1>2, <2>1, <2>2 DEF BaseInv, Loading, Idle, OtherCalls
  <2>4. tab'.calls["load"].at = "ok" => tab'.calls["load"].got.vis = text'.vis
    BY <1>2, <2>1, <2>2 DEF Alive
  <2>5. /\ tab'.shown = "pending" /\ typed' = 0
        /\ ~(tab'.held \/ tab'.beating \/ tab'.polling \/ tab'.dirty \/ tab'.saving)
    BY <1>1, <1>2, <2>1 DEF BaseInv, Loading, SameLock, SameEdit
  <2>6. QED
    BY <2>3, <2>4, <2>5 DEF Loading
<1>9. QED
  BY <1>3, <1>4, <1>5, <1>6, <1>7, <1>8 DEF IBase, BaseInv

\* The text after a PATCH; only its owner changes the visibility of a note.
LEMMA WrittenFacts ==
  ASSUME text \in Doc, NEW doc \in Doc
  PROVE  /\ Written(doc) \in Doc /\ Written(doc).mine = doc.mine
         /\ Written(doc).theirs = doc.theirs
         /\ owner # Me => Written(doc).vis = text.vis
BY DEF Written, Doc

\* A text with nothing in it but its visibility.
LEMMA VisFacts ==
  ASSUME NEW v \in {"PRIVATE", "PUBLIC"}
  PROVE  /\ [NoDoc EXCEPT !.vis = v] \in Doc /\ [NoDoc EXCEPT !.vis = v].vis = v
         /\ [NoDoc EXCEPT !.vis = v].theirs = {}
<1>1. NoDoc \in Doc /\ NoDoc.theirs = {}
  BY DocTypes DEF NoDoc
<1>2. QED
  BY <1>1 DEF Doc

\* The server handles a request of the editor.
LEMMA BaseOfServe ==
  ASSUME IBase, NEW f \in Flows, Serve(f)
  PROVE  IBase'
<1>1. tab \in Tab /\ typed \in Nat /\ BaseInv(tab) /\ TypeOK /\ OthersArePublic /\ CallFits(tab, f)
  BY DEF IBase, TypeOK, BaseInv, CallsFit
<1>2. CASE ServeGone(f)
  <2>1. row = "gone"
    BY <1>1, <1>2, UnreadableIsGone DEF ServeGone
  <2>2. Answer(f, "gone", NoDoc) /\ Sent(f) /\ UNCHANGED <<serverVars, typed>>
    BY <1>2 DEF ServeGone, Sent
  <2>3. LeaseTypeOK' /\ text' \in Doc /\ row' = "gone" /\ OthersArePublic' /\ text' = text
        /\ owner' = owner
    BY <1>1, <2>1, <2>2 DEF TypeOK, LeaseTypeOK, OthersArePublic, serverVars
  <2>4. QED
    BY <2>2, <2>3, BaseOfAnswer, DocTypes
<1>3. CASE ServeGet(f)
  <2>1. Answer(f, "ok", text) /\ Sent(f) /\ UNCHANGED <<serverVars, typed>> /\ row = "live"
    BY <1>3 DEF ServeGet, SentAs, Readable
  <2>2. LeaseTypeOK' /\ text' \in Doc /\ row' = "live" /\ OthersArePublic' /\ text' = text
        /\ owner' = owner /\ text \in Doc
    BY <1>1, <2>1 DEF TypeOK, LeaseTypeOK, OthersArePublic, serverVars
  <2>3. QED
    BY <2>1, <2>2, BaseOfAnswer
<1>4. CASE ServeLock(f)
  <2>1. Sent(f) /\ tab.calls[f].op = "lock" /\ UNCHANGED <<row, text, owner, typed>> /\ row = "live"
    BY <1>4 DEF ServeLock, SentAs, Readable
  <2>2. f # "load"
    BY <1>1, <2>1 DEF CallFits, Ops
  <2>3. text' \in Doc /\ text \in Doc /\ row' = "live" /\ OthersArePublic' /\ text' = text
        /\ owner' = owner
    BY <1>1, <2>1 DEF TypeOK, OthersArePublic
  <2>4. CASE CanTake(Me)
    <3>1. Take(Me) /\ fresh' /\ Answer(f, "ok", IF f = "beat" THEN NoDoc ELSE text)
      BY <1>4, <2>4 DEF ServeLock
    <3>2. LeaseTypeOK'
      BY <3>1, EditorAssumption DEF Take, LeaseTypeOK
    <3>3. (IF f = "beat" THEN NoDoc ELSE text) \in Doc
      BY <2>3, DocTypes
    <3>4. QED
      BY <2>1, <2>2, <2>3, <3>1, <3>2, <3>3, BaseOfAnswer
  <2>5. CASE ~CanTake(Me)
    <3>1. PICK at \in {"held", "required"} : Answer(f, at, NoDoc) /\ UNCHANGED leaseVars
      BY <1>4, <2>5 DEF ServeLock
    <3>2. LeaseTypeOK'
      BY <1>1, <3>1 DEF TypeOK, LeaseTypeOK, leaseVars
    <3>3. at \in {"ok", "held", "required", "gone"} /\ at # "gone" /\ at # "ok"
      OBVIOUS
    <3>4. QED
      BY <2>1, <2>2, <2>3, <3>1, <3>2, <3>3, BaseOfAnswer, DocTypes
  <2>6. QED
    BY <2>4, <2>5
<1>5. CASE ServePatch(f)
  <2>1. /\ Sent(f) /\ tab.calls[f].op \in {"patch", "retry"} /\ row = "live"
        /\ UNCHANGED <<row, owner, typed>>
    BY <1>5 DEF ServePatch, SentAs, Readable
  <2>2. f # "load"
    BY <1>1, <2>1 DEF CallFits, Ops
  <2>3. text \in Doc /\ tab.calls[f].sent \in Doc /\ LeaseTypeOK
    BY <1>1 DEF TypeOK, Tab, Call
  <2>4. CASE text.vis = "PUBLIC" /\ ~Holds(Me)
    <3>1. /\ UNCHANGED <<leaseVars, text>>
          /\ Answer(f, IF fresh THEN "held" ELSE "required", NoDoc)
      BY <1>5, <2>4 DEF ServePatch
    <3>2. LeaseTypeOK' /\ text' \in Doc /\ OthersArePublic' /\ text' = text
      BY <1>1, <2>1, <2>3, <3>1 DEF LeaseTypeOK, leaseVars, OthersArePublic
    <3>3. QED
      BY <2>1, <2>2, <3>1, <3>2, BaseOfAnswer, DocTypes
  <2>5. CASE ~(text.vis = "PUBLIC" /\ ~Holds(Me))
    <3>1. /\ text' = Written(tab.calls[f].sent) /\ UNCHANGED leaseVars
          /\ Answer(f, "ok", [NoDoc EXCEPT !.vis = text'.vis])
      BY <1>5, <2>5 DEF ServePatch
    <3>2. text' \in Doc /\ (owner # Me => text'.vis = text.vis)
      BY <2>3, <3>1, WrittenFacts
    <3>3. text'.vis \in {"PRIVATE", "PUBLIC"}
      BY <3>2 DEF Doc
    <3>4. [NoDoc EXCEPT !.vis = text'.vis] \in Doc
      BY <3>3, VisFacts
    <3>5. LeaseTypeOK' /\ OthersArePublic'
      BY <1>1, <2>1, <2>3, <3>1, <3>2, EditorAssumption
      DEF LeaseTypeOK, leaseVars, OthersArePublic
    <3>6. QED
      BY <2>1, <2>2, <3>1, <3>2, <3>4, <3>5, BaseOfAnswer
  <2>6. QED
    BY <2>4, <2>5
<1>6. QED
  BY <1>2, <1>3, <1>4, <1>5 DEF Serve

\* Steps that change nothing in the tab but what it has noted or released.
LEMMA BaseOfRest ==
  ASSUME IBase, tab' \in Tab, SameView(tab, tab'), SameEdit(tab, tab'), tab'.calls = tab.calls,
         tab'.note = tab.note, tab'.status = tab.status, tab'.shown = tab.shown,
         tab'.held = tab.held, tab'.beating = tab.beating, tab'.polling = tab.polling,
         tab.mishaps \subseteq tab'.mishaps,
         LeaseTypeOK', row' \in {"live", "gone"}, row = "gone" => row' = "gone",
         text' \in Doc, text'.vis = text.vis, UNCHANGED <<owner, typed>>
  PROVE  IBase'
<1>1. tab \in Tab /\ typed \in Nat /\ owner \in Users /\ BaseInv(tab) /\ LeavingFits(tab)
  BY DEF IBase, TypeOK
<1>2. TypeOK'
  BY <1>1 DEF TypeOK
<1>3. OthersArePublic'
  BY DEF IBase, OthersArePublic
<1>4. CallsFit(tab)'
  BY <1>1 DEF BaseInv, CallsFit, CallFits
<1>5. PageFits(tab)' /\ SavingFits(tab)' /\ LeavingFits(tab)'
  BY <1>1 DEF BaseInv, PageFits, SavingFits, LeavingFits, SameView, SameEdit, Idle
<1>6. Loading(tab)'
  BY <1>1 DEF BaseInv, Loading, SameView, SameEdit, Idle
<1>7. QED
  BY <1>2, <1>3, <1>4, <1>5, <1>6 DEF IBase, BaseInv

\* The archiving or the deletion arrives.
LEMMA BaseOfServeLeave ==
  ASSUME IBase, ServeLeave
  PROVE  IBase'
<1>1. tab \in Tab /\ typed \in Nat /\ BaseInv(tab) /\ TypeOK
  BY DEF IBase, TypeOK
<1>2. /\ Sent("leave") /\ row = "live" /\ row' \in {"live", "gone"}
      /\ Answer("leave", "ok", NoDoc) /\ UNCHANGED <<text, owner, typed>>
  BY <1>1 DEF ServeLeave, SentAs, Readable, TypeOK
<1>3. LeaseTypeOK'
  BY <1>1 DEF ServeLeave, TypeOK, LeaseTypeOK, Drop, leaseVars
<1>4. text' \in Doc /\ OthersArePublic'
  BY <1>1, <1>2 DEF IBase, TypeOK, OthersArePublic
<1>5. QED
  BY <1>2, <1>3, <1>4, BaseOfAnswer, DocTypes, FlowsAre

\* One DELETE of the lock fewer is on its way.
LEMMA CountFacts ==
  ASSUME NEW t \in Tab, t.releases > 0
  PROVE  LET u == [t EXCEPT !.releases = @ - 1] IN
         /\ u \in Tab /\ SameView(t, u) /\ SameEdit(t, u) /\ SameCalls(t, u)
         /\ u.note = t.note /\ u.status = t.status /\ u.shown = t.shown
         /\ u.held = t.held /\ u.private = t.private /\ u.beating = t.beating
         /\ u.polling = t.polling
<1> DEFINE n == t.releases - 1
           u == [t EXCEPT !.releases = n]
<1>1. n \in Nat
  BY DEF Tab
<1>2. [t EXCEPT !.releases = @ - 1] = u
  OBVIOUS
<1> HIDE DEF n
<1>3. QED
  BY <1>1, <1>2 DEF Tab, SameView, SameEdit, SameCalls

\* Every step of the server keeps the base.
LEMMA BaseOfServer ==
  ASSUME IBase, Server
  PROVE  IBase'
<1>1. CASE ServeLeave
  BY <1>1, BaseOfServeLeave
<1>2. CASE ServeRelease
  <2>1. tab \in Tab /\ TypeOK
    BY DEF IBase, TypeOK
  <2>2. /\ tab.releases > 0 /\ tab' = [tab EXCEPT !.releases = @ - 1]
        /\ UNCHANGED <<row, text, owner, typed>>
    BY <1>2 DEF ServeRelease
  <2>3. LeaseTypeOK'
    BY <1>2, <2>1 DEF ServeRelease, TypeOK, LeaseTypeOK, Drop, leaseVars
  <2>4. /\ tab' \in Tab /\ SameView(tab, tab') /\ SameEdit(tab, tab') /\ SameCalls(tab, tab')
        /\ tab'.note = tab.note /\ tab'.status = tab.status /\ tab'.shown = tab.shown
        /\ tab'.held = tab.held /\ tab'.beating = tab.beating /\ tab'.polling = tab.polling
    BY <2>1, <2>2, CountFacts
  <2>5. row' \in {"live", "gone"} /\ text' \in Doc
    BY <2>1, <2>2 DEF TypeOK
  <2>6. QED
    BY <2>2, <2>3, <2>4, <2>5, BaseOfRest DEF SameCalls
<1>3. CASE \E f \in Flows : Serve(f)
  BY <1>3, BaseOfServe
<1>4. QED
  BY <1>1, <1>2, <1>3 DEF Server

\* A mishap of the server is noted.
LEMMA BaseOfNoting ==
  ASSUME IBase, NEW m \in Mishaps, tab' = Noting(tab, m),
         LeaseTypeOK', row' \in {"live", "gone"}, row = "gone" => row' = "gone",
         UNCHANGED <<text, owner, typed>>
  PROVE  IBase'
<1>1. tab \in Tab /\ text \in Doc
  BY DEF IBase, TypeOK
<1>2. /\ tab' \in Tab /\ SameView(tab, tab') /\ SameEdit(tab, tab') /\ SameLock(tab, tab')
      /\ tab'.calls = tab.calls /\ tab'.mishaps = tab.mishaps \cup {m}
  BY <1>1, NotingFacts
<1>3. QED
  BY <1>1, <1>2, BaseOfRest DEF SameLock

\* Every step of the network and the clock keeps the base.
LEMMA BaseOfNetwork ==
  ASSUME IBase, Network
  PROVE  IBase'
<1>1. tab \in Tab /\ typed \in Nat /\ BaseInv(tab) /\ LeavingFits(tab) /\ TypeOK
  BY DEF IBase, TypeOK
<1>2. CASE LoseRelease
  <2> DEFINE w == [tab EXCEPT !.releases = @ - 1]
  <2>1. tab.releases > 0 /\ tab' = Noting(w, "fault") /\ UNCHANGED <<serverVars, typed>>
    BY <1>2 DEF LoseRelease
  <2>2. /\ w \in Tab /\ SameView(tab, w) /\ SameEdit(tab, w) /\ SameCalls(tab, w)
        /\ w.note = tab.note /\ w.status = tab.status /\ w.shown = tab.shown
        /\ w.held = tab.held /\ w.beating = tab.beating /\ w.polling = tab.polling
    BY <1>1, <2>1, CountFacts
  <2> HIDE DEF w
  <2>3. /\ tab' \in Tab /\ SameView(w, tab') /\ SameEdit(w, tab') /\ SameLock(w, tab')
        /\ tab'.calls = w.calls /\ tab'.mishaps = w.mishaps \cup {"fault"}
    BY <2>1, <2>2, NotingFacts DEF Mishaps
  <2>4. SameView(tab, tab') /\ SameEdit(tab, tab') /\ tab'.calls = tab.calls
        /\ tab.mishaps \subseteq tab'.mishaps
    BY <2>2, <2>3 DEF SameView, SameEdit, SameCalls
  <2>5. /\ tab'.note = tab.note /\ tab'.status = tab.status /\ tab'.shown = tab.shown
        /\ tab'.held = tab.held /\ tab'.beating = tab.beating /\ tab'.polling = tab.polling
    BY <2>2, <2>3 DEF SameLock
  <2>6. LeaseTypeOK' /\ row' \in {"live", "gone"} /\ text' \in Doc
    BY <1>1, <2>1 DEF TypeOK, LeaseTypeOK, serverVars
  <2>7. QED
    BY <2>1, <2>3, <2>4, <2>5, <2>6, BaseOfRest DEF serverVars
<1>3. CASE Expire
  <2>1. UNCHANGED <<row, text, owner, tab, typed>> /\ LeaseTypeOK'
    BY <1>1, <1>3 DEF Expire, Lapse, LeaseTypeOK, TypeOK
  <2>2. row' \in {"live", "gone"} /\ text' \in Doc
    BY <1>1, <2>1 DEF TypeOK
  <2>3. QED
    BY <1>1, <2>1, <2>2, BaseOfRest DEF SameView, SameEdit
<1>4. CASE ExpireUnnoticed
  <2>1. UNCHANGED <<row, text, owner, typed>> /\ LeaseTypeOK' /\ tab' = Noting(tab, "lapse")
    BY <1>1, <1>4 DEF ExpireUnnoticed, Lapse, LeaseTypeOK, TypeOK
  <2>2. row' \in {"live", "gone"} /\ "lapse" \in Mishaps
    BY <1>1, <2>1 DEF TypeOK, Mishaps
  <2>3. QED
    BY <2>1, <2>2, BaseOfNoting
<1>5. ASSUME NEW f \in Flows, LoseCall(f) PROVE IBase'
  <2>1. /\ tab' \in Tab /\ SameView(tab, tab') /\ SameEdit(tab, tab') /\ SameLock(tab, tab')
        /\ tab'.mishaps = tab.mishaps \cup {"fault"} /\ OtherCalls(tab, tab', f)
        /\ tab'.calls[f].op = tab.calls[f].op /\ tab'.calls[f].at = "error"
    BY <1>1, <1>5, LostFacts
  <2>2. UNCHANGED <<serverVars, typed>> /\ ~Idle(tab, f)
    BY <1>5 DEF LoseCall, Idle
  <2>3. CallsFit(tab')
    <3>1. CallFits(tab', f)
      BY <1>1, <2>1, <2>2 DEF BaseInv, CallsFit, CallFits, Idle
    <3>2. QED
      BY <1>1, <2>1, <3>1, OthersKept DEF BaseInv
  <2>4. PageFits(tab')
    BY <1>1, <2>1, <2>2, FlowsAre DEF BaseInv, PageFits, SameView, SameLock, SameEdit, Idle, OtherCalls
  <2>5. SavingFits(tab')
    BY <1>1, <2>1, <2>2, FlowsAre DEF BaseInv, SavingFits, SameView, SameEdit, Idle, OtherCalls
  <2>6. LeavingFits(tab')
    BY <1>1, <2>1 DEF LeavingFits, SameView, SameEdit
  <2>7. Loading(tab')
    <3> SUFFICES ASSUME tab'.page = "open", tab'.note = None
                 PROVE  Loading(tab')
      BY DEF Loading
    <3>1. tab.page = "open" /\ tab.note = None
      BY <2>1 DEF SameView, SameLock
    <3>2. f = "load"
      BY <1>1, <2>2, <3>1 DEF BaseInv, Loading
    <3>3. \A g \in Flows \ {"load"} : Idle(tab', g)
      BY <1>1, <2>1, <3>1, <3>2 DEF BaseInv, Loading, Idle, OtherCalls
    <3>4. /\ tab'.shown = "pending" /\ typed = 0
          /\ ~(tab'.held \/ tab'.beating \/ tab'.polling \/ tab'.dirty \/ tab'.saving)
      BY <1>1, <2>1, <3>1 DEF BaseInv, Loading, SameLock, SameEdit
    <3>5. QED
      BY <2>1, <3>2, <3>3, <3>4 DEF Loading
  <2>8. QED
    BY <2>1, <2>2, <2>3, <2>4, <2>5, <2>6, <2>7, TabStep DEF BaseInv
<1>6. QED
  BY <1>2, <1>3, <1>4, <1>5 DEF Network

\* Every step of the others keeps the base.
LEMMA BaseOfOthers ==
  ASSUME IBase, Others
  PROVE  IBase'
<1>1. tab \in Tab /\ TypeOK /\ text \in Doc
  BY DEF IBase, TypeOK
<1>2. CASE OtherTakes
  <2>1. UNCHANGED <<row, text, owner, tab, typed>> /\ LeaseTypeOK'
    BY <1>1, <1>2, EditorAssumption DEF OtherTakes, Take, LeaseTypeOK, TypeOK
  <2>2. row' \in {"live", "gone"} /\ text' \in Doc
    BY <1>1, <2>1 DEF TypeOK
  <2>3. QED
    BY <1>1, <2>1, <2>2, BaseOfRest DEF SameView, SameEdit
<1>3. CASE OtherEdits
  <2> DEFINE more == text.theirs \cup {Cardinality(text.theirs) + 1}
  <2>1. /\ text' = [text EXCEPT !.theirs = more]
        /\ UNCHANGED <<leaseVars, row, owner, tab, typed>>
    BY <1>3 DEF OtherEdits
  <2>2. Cardinality(text.theirs) \in Nat /\ IsFiniteSet(text.theirs) /\ text.theirs \subseteq Nat
    BY <1>1, FS_CardinalityType DEF Doc
  <2>3. IsFiniteSet(more)
    BY <2>2, FS_AddElement
  <2>4. more \in SUBSET Nat
    BY <2>2
  <2> HIDE DEF more
  <2>5. text' \in Doc /\ text'.vis = text.vis
    BY <1>1, <2>1, <2>3, <2>4 DEF Doc
  <2>6. row' \in {"live", "gone"} /\ LeaseTypeOK'
    BY <1>1, <2>1 DEF TypeOK, LeaseTypeOK, leaseVars
  <2>7. QED
    BY <1>1, <2>1, <2>5, <2>6, BaseOfRest DEF SameView, SameEdit
<1>4. CASE OtherReleases
  <2>1. UNCHANGED <<row, text, owner, tab, typed>> /\ LeaseTypeOK'
    BY <1>1, <1>4 DEF OtherReleases, Drop, LeaseTypeOK, TypeOK
  <2>2. row' \in {"live", "gone"} /\ text' \in Doc
    BY <1>1, <2>1 DEF TypeOK
  <2>3. QED
    BY <1>1, <2>1, <2>2, BaseOfRest DEF SameView, SameEdit
<1>5. CASE OtherRemoves
  <2>1. UNCHANGED <<text, owner, typed>> /\ row' = "gone" /\ tab' = Noting(tab, "gone")
    BY <1>5 DEF OtherRemoves
  <2>2. LeaseTypeOK'
    BY <1>1, <1>5 DEF OtherRemoves, Drop, LeaseTypeOK, leaseVars, TypeOK
  <2>3. "gone" \in Mishaps
    BY DEF Mishaps
  <2>4. QED
    BY <2>1, <2>2, <2>3, BaseOfNoting
<1>6. QED
  BY <1>2, <1>3, <1>4, <1>5 DEF Others

\* What the server has, rendered.
LEMMA AppliedFacts ==
  ASSUME NEW t \in Tab, NEW a \in Call, NEW other \in BOOLEAN
  PROVE  LET u == ApplyServer(t, a, other)
             vis == a.got.vis IN
         /\ u \in Tab /\ SameView(t, u) /\ SameWork(t, u) /\ OtherCalls(t, u, "take")
         /\ t.mishaps \subseteq u.mishaps /\ u.draft = a.got
         /\ t.page # "open" \/ t.note = vis => SameLock(t, u) /\ SameCalls(t, u)
         /\ t.page = "open" /\ t.note # vis =>
              /\ u.note = vis /\ u.shown = u.status
              /\ t.note # None => "flip" \in u.mishaps
              /\ t.note = None => /\ u.mishaps = t.mishaps /\ u.held = t.held
                                  /\ ~u.beating /\ u.releases = t.releases
              /\ vis = "PRIVATE" => u.calls = t.calls /\ u.status = "none"
              /\ vis = "PRIVATE" /\ t.note = None => ~u.polling
              /\ vis = "PUBLIC" /\ other => u.calls = t.calls /\ u.status = "locked"
              /\ vis = "PUBLIC" /\ ~other =>
                   SentCall(u, "take", "lock", NoDoc) /\ u.status = "pending"
<1> DEFINE d == [t EXCEPT !.draft = a.got]
           u == SetNote(d, a, other)
           vis == a.got.vis
<1>1. a.got \in Doc
  BY DEF Call
<1>2. /\ d \in Tab /\ SameView(t, d) /\ SameLock(t, d) /\ SameCalls(t, d) /\ SameWork(t, d)
      /\ d.draft = a.got
  BY <1>1, DraftFacts DEF SameWork
<1>3. ApplyServer(t, a, other) = u
  BY DEF ApplyServer
<1> HIDE DEF d
<1>4. /\ u \in Tab /\ SameView(d, u) /\ SameEdit(d, u) /\ OtherCalls(d, u, "take")
      /\ d.mishaps \subseteq u.mishaps
      /\ d.page # "open" \/ d.note = vis => u = d
      /\ d.page = "open" /\ d.note # vis =>
           /\ u.note = vis /\ u.shown = u.status
           /\ d.note # None => "flip" \in u.mishaps
           /\ d.note = None => /\ u.mishaps = d.mishaps /\ u.held = d.held
                               /\ ~u.beating /\ u.releases = d.releases
           /\ vis = "PRIVATE" => u.calls = d.calls /\ u.status = "none"
           /\ vis = "PRIVATE" /\ d.note = None => ~u.polling
           /\ vis = "PUBLIC" /\ other => u.calls = d.calls /\ u.status = "locked"
           /\ vis = "PUBLIC" /\ ~other =>
                SentCall(u, "take", "lock", NoDoc) /\ u.status = "pending"
  BY <1>2, SetNoteFacts
<1> HIDE DEF u
<1>5. SameView(t, u) /\ SameWork(t, u) /\ u.draft = a.got /\ t.mishaps \subseteq u.mishaps
  BY <1>2, <1>4 DEF SameView, SameWork, SameEdit, SameCalls
<1>6. OtherCalls(t, u, "take")
  BY <1>2, <1>4 DEF OtherCalls, SameCalls
<1>7. d.page = t.page /\ d.note = t.note /\ d.mishaps = t.mishaps /\ d.held = t.held
      /\ d.releases = t.releases /\ d.calls = t.calls
  BY <1>2 DEF SameView, SameLock, SameCalls
<1>8. CASE t.page # "open" \/ t.note = vis
  <2>1. u = d
    BY <1>4, <1>7, <1>8
  <2>2. QED
    BY <1>2, <1>3, <1>4, <1>5, <1>6, <1>8, <2>1
<1>9. CASE t.page = "open" /\ t.note # vis
  BY <1>3, <1>4, <1>5, <1>6, <1>7, <1>9
<1>10. QED
  BY <1>8, <1>9

\* The server's text is rendered.
LEMMA BaseOfApplied ==
  ASSUME NEW t \in Tab, BaseInv(t), NEW a \in Call, NEW other \in BOOLEAN
  PROVE  BaseInv(ApplyServer(t, a, other))
<1> DEFINE d == [t EXCEPT !.draft = a.got]
<1>1. a.got \in Doc
  BY DEF Call
<1>2. /\ d \in Tab /\ SameView(t, d) /\ SameLock(t, d) /\ SameCalls(t, d)
      /\ d.touched = t.touched /\ d.dirty = t.dirty /\ d.saving = t.saving
  BY <1>1, DraftFacts
<1>3. ApplyServer(t, a, other) = SetNote(d, a, other)
  BY DEF ApplyServer
<1> HIDE DEF d
<1>4. BaseInv(d)
  BY <1>2, BaseKept DEF SameCalls
<1>5. QED
  BY <1>2, <1>3, <1>4, BaseOfSetNote

\* A call that is back, with the note it is about.
LEMMA BackFacts ==
  ASSUME IBase, NEW f \in Flows, Alive, Back(tab, f)
  PROVE  /\ tab \in Tab /\ typed \in Nat /\ BaseInv(tab) /\ LeavingFits(tab) /\ CallFits(tab, f)
         /\ tab.calls[f] \in Call /\ ~Idle(tab, f)
         /\ \A expired \in BOOLEAN : HeldByOther(f, expired) \in BOOLEAN
         /\ f # "load" /\ tab.page = "open" => tab.note # None
         /\ f = "save" => tab.saving
         /\ f = "last" => tab.page = "closed"
         /\ tab.leaving # "no" => tab.page = "open" /\ tab.saving
<1>1. tab \in Tab /\ typed \in Nat /\ BaseInv(tab) /\ LeavingFits(tab)
  BY DEF IBase, TypeOK
<1>2. CallFits(tab, f) /\ tab.calls[f] \in Call /\ ~Idle(tab, f)
  BY <1>1 DEF BaseInv, CallsFit, Tab, Back, Idle
<1>3. \A expired \in BOOLEAN : HeldByOther(f, expired) \in BOOLEAN
  BY <1>2 DEF HeldByOther, Call
<1>4. f # "load" /\ tab.page = "open" => tab.note # None
  BY <1>1, <1>2 DEF BaseInv, Loading
<1>5. (f = "save" => tab.saving) /\ (f = "last" => tab.page = "closed")
  <2>1. tab.page \in {"open", "closed", "dead"}
    BY <1>1 DEF Tab
  <2>2. QED
    BY <1>1, <1>2, <2>1 DEF BaseInv, SavingFits, PageFits, Alive
<1>6. QED
  BY <1>1, <1>2, <1>3, <1>4, <1>5 DEF LeavingFits

\* The note was loaded.
LEMMA BaseOfLoaded ==
  ASSUME IBase, NEW expired \in BOOLEAN, LoadAnswered(expired)
  PROVE  IBase'
<1> DEFINE t == Done(tab, "load")
           a == tab.calls["load"]
           other == HeldByOther("load", expired)
           u == ApplyServer(t, a, other)
<1>1. /\ tab \in Tab /\ BaseInv(tab) /\ LeavingFits(tab) /\ a \in Call /\ other \in BOOLEAN
      /\ UNCHANGED <<serverVars, typed>>
  BY BackFacts, FlowsAre DEF LoadAnswered
<1>2. /\ t \in Tab /\ SameView(tab, t) /\ SameEdit(tab, t) /\ BaseInv(t)
  BY <1>1, DoneFacts, BaseOfDone, FlowsAre
<1>3. tab' = u \/ tab' = t
  BY DEF LoadAnswered
<1> HIDE DEF t, a, other
<1>4. u \in Tab /\ SameView(t, u) /\ SameWork(t, u) /\ BaseInv(u)
  BY <1>1, <1>2, AppliedFacts, BaseOfApplied
<1> HIDE DEF u
<1>5. LeavingFits(u) /\ LeavingFits(t)
  BY <1>1, <1>2, <1>4 DEF LeavingFits, SameView, SameEdit, SameWork
<1>6. QED
  BY <1>1, <1>2, <1>3, <1>4, <1>5, TabStep

\* The poll is answered.
LEMMA BaseOfPolled ==
  ASSUME IBase, NEW expired \in BOOLEAN, PollAnswered(expired)
  PROVE  IBase'
<1> DEFINE d == Done(tab, "poll")
           a == tab.calls["poll"]
           other == HeldByOther("poll", expired)
           t == OnRefresh(d, a, other)
           next == IF other THEN "locked" ELSE "available"
<1>1. /\ tab \in Tab /\ BaseInv(tab) /\ LeavingFits(tab) /\ a \in Call /\ other \in BOOLEAN
      /\ tab.page = "open" => tab.note # None
      /\ UNCHANGED <<serverVars, typed>>
  BY BackFacts, FlowsAre DEF PollAnswered
<1>2. /\ d \in Tab /\ SameView(tab, d) /\ SameEdit(tab, d) /\ SameLock(tab, d) /\ BaseInv(d)
  BY <1>1, DoneFacts, BaseOfDone, FlowsAre
<1>3. tab' = CASE a.at = "ok" -> Transition(t, next)
               [] a.at = "gone" -> StopTimers(d)
               [] OTHER -> d
  BY DEF PollAnswered
<1>4. t = IF d.shown # "mine" THEN ApplyServer(d, a, other) ELSE d
  BY DEF OnRefresh
<1>5. a.got.vis # None
  BY <1>1, EditorAssumption DEF Call, Doc
<1>6. next \in LockStatus
  BY DEF LockStatus
<1> HIDE DEF d, a, other, next
<1>7. t \in Tab /\ SameView(d, t) /\ SameWork(d, t) /\ BaseInv(t) /\ (t.page = "open" => t.note # None)
  <2>1. CASE d.shown # "mine"
    <3> DEFINE u == ApplyServer(d, a, other)
    <3>1. /\ u \in Tab /\ SameView(d, u) /\ SameWork(d, u) /\ BaseInv(u)
          /\ d.page # "open" \/ d.note = a.got.vis => SameLock(d, u)
          /\ d.page = "open" /\ d.note # a.got.vis => u.note = a.got.vis
      BY <1>1, <1>2, AppliedFacts, BaseOfApplied
    <3>2. u.page = "open" => u.note # None
      BY <1>1, <1>2, <1>5, <3>1 DEF SameView, SameLock
    <3>3. QED
      BY <1>4, <2>1, <3>1, <3>2
  <2>2. CASE d.shown = "mine"
    BY <1>1, <1>2, <1>4, <2>2 DEF SameView, SameWork, SameLock
  <2>3. QED
    BY <2>1, <2>2
<1> HIDE DEF t
<1>8. CASE a.at = "ok"
  <2> DEFINE u == Transition(t, next)
  <2>1. u \in Tab /\ SameView(t, u) /\ SameEdit(t, u) /\ BaseInv(u)
    BY <1>6, <1>7, TransitionFacts, BaseOfTransition
  <2>2. tab' = u
    BY <1>3, <1>8
  <2> HIDE DEF u
  <2>3. LeavingFits(u)
    BY <1>1, <1>2, <1>7, <2>1 DEF LeavingFits, SameView, SameEdit, SameWork
  <2>4. QED
    BY <1>1, <2>1, <2>2, <2>3, TabStep
<1>9. CASE a.at = "gone"
  <2> DEFINE u == StopTimers(d)
  <2>1. tab' = u
    BY <1>3, <1>9
  <2>2. /\ u \in Tab /\ SameView(d, u) /\ SameEdit(d, u) /\ SameCalls(d, u)
        /\ u.note = d.note /\ u.status = d.status /\ u.shown = d.shown
    BY <1>2, TimersFacts
  <2> HIDE DEF u
  <2>3. CallsFit(u)
    BY <1>2, <2>2, CallsKept DEF BaseInv, SameCalls
  <2>4. PageFits(u) /\ SavingFits(u) /\ LeavingFits(u)
    BY <1>1, <1>2, <2>2
    DEF BaseInv, PageFits, SavingFits, LeavingFits, SameView, SameEdit, SameCalls, Idle
  <2>5. Loading(u)
    BY <1>1, <1>2, <2>2 DEF Loading, SameView, SameLock
  <2>6. QED
    BY <1>1, <2>1, <2>2, <2>3, <2>4, <2>5, TabStep DEF BaseInv
<1>10. CASE a.at \notin {"ok", "gone"}
  <2>1. tab' = d
    BY <1>3, <1>10
  <2>2. LeavingFits(d)
    BY <1>1, <1>2 DEF LeavingFits, SameView, SameEdit
  <2>3. QED
    BY <1>1, <1>2, <2>1, <2>2, TabStep
<1>11. QED
  BY <1>8, <1>9, <1>10

\* The heartbeat is answered.
LEMMA BaseOfBeaten ==
  ASSUME IBase, BeatAnswered
  PROVE  IBase'
<1> DEFINE d == Done(tab, "beat")
           u == EnterConflict(d)
<1>1. /\ tab \in Tab /\ typed \in Nat /\ BaseInv(tab) /\ LeavingFits(tab)
      /\ tab.page = "open" => tab.note # None
      /\ UNCHANGED <<serverVars, typed>>
  BY BackFacts, FlowsAre DEF BeatAnswered
<1>2. /\ d \in Tab /\ SameView(tab, d) /\ SameEdit(tab, d) /\ SameLock(tab, d) /\ BaseInv(d)
  BY <1>1, DoneFacts, BaseOfDone, FlowsAre
<1>3. tab' = u \/ tab' = d
  BY DEF BeatAnswered
<1> HIDE DEF d
<1>4. d.page = "open" => d.note # None
  BY <1>1, <1>2 DEF SameView, SameLock
<1>5. u \in Tab /\ SameView(d, u) /\ u.saving = d.saving /\ u.leaving = d.leaving /\ BaseInv(u)
  BY <1>1, <1>2, <1>4, ConflictFacts, BaseOfConflict
<1> HIDE DEF u
<1>6. LeavingFits(u) /\ LeavingFits(d)
  BY <1>1, <1>2, <1>5 DEF LeavingFits, SameView, SameEdit
<1>7. QED
  BY <1>1, <1>2, <1>3, <1>5, <1>6, TabStep

\* The taking of the lock is answered.
LEMMA BaseOfTaken ==
  ASSUME IBase, TakeAnswered
  PROVE  IBase'
<1> DEFINE d == Done(tab, "take")
           a == tab.calls["take"]
           q == Acquired(d, a)
           n == NotAcquired(d, a.at = "held")
<1>1. /\ tab \in Tab /\ BaseInv(tab) /\ LeavingFits(tab) /\ a \in Call
      /\ tab.page = "open" => tab.note # None
      /\ UNCHANGED <<serverVars, typed>>
  BY BackFacts, FlowsAre DEF TakeAnswered
<1>2. /\ d \in Tab /\ SameView(tab, d) /\ SameEdit(tab, d) /\ SameLock(tab, d) /\ BaseInv(d)
  BY <1>1, DoneFacts, BaseOfDone, FlowsAre
<1>3. tab' = q \/ tab' = n
  BY DEF TakeAnswered
<1> HIDE DEF d, a
<1>4. d.page = "open" => d.note # None
  BY <1>1, <1>2 DEF SameView, SameLock
<1>5. q \in Tab /\ SameView(d, q) /\ SameWork(d, q) /\ BaseInv(q)
  BY <1>1, <1>2, <1>4, AcquiredFacts, BaseOfAcquired
<1>6. n \in Tab /\ SameView(d, n) /\ SameEdit(d, n) /\ BaseInv(n)
  <2>1. (a.at = "held") \in BOOLEAN
    OBVIOUS
  <2>2. QED
    BY <1>2, <1>4, <2>1, NotAcquiredFacts, BaseOfNotAcquired
<1> HIDE DEF q, n
<1>7. LeavingFits(q) /\ LeavingFits(n)
  BY <1>1, <1>2, <1>5, <1>6 DEF LeavingFits, SameView, SameEdit, SameWork
<1>8. QED
  BY <1>1, <1>3, <1>5, <1>6, <1>7, TabStep

\* Both kinds of save, settled.
LEMMA BaseOfSettled ==
  ASSUME NEW t \in Tab, BaseInv(t), LeavingFits(t), NEW f \in {"save", "last"}, NEW ok \in BOOLEAN,
         t.page = "open" => t.note # None
  PROVE  /\ Settle(t, f, ok) \in Tab
         /\ BaseInv(Settle(t, f, ok)) /\ LeavingFits(Settle(t, f, ok))
<1>1. CASE f = "last"
  <2>1. Settle(t, f, ok) = Done(t, "last")
    BY <1>1, SettleFacts
  <2>2. Done(t, "last") \in Tab /\ SameView(t, Done(t, "last")) /\ SameEdit(t, Done(t, "last"))
    BY DoneFacts, FlowsAre
  <2>3. BaseInv(Done(t, "last"))
    BY BaseOfDone, FlowsAre
  <2>4. LeavingFits(Done(t, "last"))
    BY <2>2 DEF LeavingFits, SameView, SameEdit
  <2>5. QED
    BY <2>1, <2>2, <2>3, <2>4
<1>2. CASE f = "save"
  <2>1. Settle(t, "save", ok) = Resume(Ended(t, ok)) /\ Ended(t, ok) \in Tab
    BY SettleFacts, EndedFacts
  <2>2. Settle(t, "save", ok) \in Tab
    BY <2>1, ResumeFacts
  <2>3. QED
    BY <1>2, <2>2, BaseOfSettle DEF LeavingFits
<1>3. QED
  BY <1>1, <1>2

\* A save is answered.
LEMMA BaseOfSaved ==
  ASSUME IBase, NEW f \in {"save", "last"}, SaveAnswered(f)
  PROVE  IBase'
<1> DEFINE a == tab.calls[f]
           mine == Acquired(tab, a)
           doc == [mine.draft EXCEPT !.vis = a.sent.vis]
           noted == IF tab.leaving = "close" THEN tab ELSE SetNote(tab, a, a.taken)
<1>1. f \in Flows
  BY FlowsAre
<1>2. /\ tab \in Tab /\ typed \in Nat /\ BaseInv(tab) /\ LeavingFits(tab) /\ a \in Call
      /\ tab.page = "open" => tab.note # None
      /\ f = "save" => tab.saving
      /\ f = "last" => tab.page = "closed"
      /\ UNCHANGED <<serverVars, typed>>
  BY <1>1, BackFacts DEF SaveAnswered
<1>3. tab' = CASE a.op \in {"patch", "retry"} /\ a.at = "ok" -> Settle(noted, f, TRUE)
               [] a.at \in {"gone", "error"} /\ a.op # "lock" -> Settle(tab, f, FALSE)
               [] a.op = "patch" /\ a.at = "required" -> Send(tab, f, "lock", a.sent)
               [] a.op = "lock" /\ a.at = "ok" -> Send(mine, f, "retry", doc)
               [] OTHER -> Settle(EnterConflict(tab), f, TRUE)
  BY DEF SaveAnswered
<1>4. a.sent \in Doc /\ a.got.vis # None /\ a.taken \in BOOLEAN /\ a.sent.vis \in {"PRIVATE", "PUBLIC"}
  BY <1>2, EditorAssumption DEF Call, Doc
<1> HIDE DEF a
<1>5. /\ noted \in Tab /\ BaseInv(noted) /\ LeavingFits(noted)
      /\ noted.page = "open" => noted.note # None
  <2>1. CASE tab.leaving = "close"
    BY <1>2, <2>1
  <2>2. CASE tab.leaving # "close"
    <3> DEFINE s == SetNote(tab, a, a.taken)
    <3>1. /\ s \in Tab /\ SameView(tab, s) /\ SameEdit(tab, s) /\ BaseInv(s)
          /\ tab.page # "open" \/ tab.note = a.got.vis => s = tab
          /\ tab.page = "open" /\ tab.note # a.got.vis => s.note = a.got.vis
      BY <1>2, <1>4, SetNoteFacts, BaseOfSetNote
    <3>2. noted = s
      BY <2>2
    <3> HIDE DEF s
    <3>3. LeavingFits(s)
      BY <1>2, <3>1 DEF LeavingFits, SameView, SameEdit
    <3>4. s.page = "open" => s.note # None
      BY <1>2, <1>4, <3>1
    <3>5. QED
      BY <3>1, <3>2, <3>3, <3>4
  <2>3. QED
    BY <2>1, <2>2
<1> HIDE DEF noted
<1>6. CASE a.op \in {"patch", "retry"} /\ a.at = "ok"
  <2>1. tab' = Settle(noted, f, TRUE)
    BY <1>3, <1>6
  <2>2. QED
    BY <1>2, <1>5, <2>1, BaseOfSettled, TabStep
<1>7. CASE a.at \in {"gone", "error"} /\ a.op # "lock"
  <2>1. tab' = Settle(tab, f, FALSE)
    BY <1>3, <1>7
  <2>2. QED
    BY <1>2, <2>1, BaseOfSettled, TabStep
<1>8. CASE a.op = "patch" /\ a.at = "required"
  <2> DEFINE u == Send(tab, f, "lock", a.sent)
  <2>1. tab' = u
    BY <1>3, <1>8
  <2>2. "lock" \in Ops(f)
    BY OpsFit
  <2>3. BaseInv(u)
    BY <1>1, <1>2, <1>4, <2>2, BaseOfSend
  <2>4. u \in Tab /\ SameView(tab, u) /\ SameEdit(tab, u)
    BY <1>1, <1>2, <1>4, SendFacts
  <2> HIDE DEF u
  <2>5. LeavingFits(u)
    BY <1>2, <2>4 DEF LeavingFits, SameView, SameEdit
  <2>6. QED
    BY <1>2, <2>1, <2>3, <2>4, <2>5, TabStep
<1>9. CASE a.op = "lock" /\ a.at = "ok"
  <2> DEFINE u == Send(mine, f, "retry", doc)
             flips == tab.page = "open" /\ tab.shown # "mine" /\ tab.note # a.got.vis
  <2>1. tab' = u
    BY <1>3, <1>9
  <2>2. /\ mine \in Tab /\ SameView(tab, mine) /\ SameWork(tab, mine) /\ BaseInv(mine)
        /\ flips => mine.note = a.got.vis
        /\ ~flips => mine.note = tab.note
    BY <1>2, AcquiredFacts, BaseOfAcquired
  <2> HIDE DEF mine
  <2>3. doc \in Doc
    <3>1. mine.draft \in Doc
      BY <2>2 DEF Tab
    <3>2. QED
      BY <1>4, <3>1, DraftTypes
  <2>4. mine.page = "open" => mine.note # None /\ f # "last"
    BY <1>2, <1>4, <2>2 DEF SameView
  <2>5. f = "save" => mine.saving
    BY <1>2, <2>2 DEF SameWork
  <2>6. "retry" \in Ops(f)
    BY OpsFit
  <2> HIDE DEF doc
  <2>7. BaseInv(u)
    BY <1>1, <2>2, <2>3, <2>4, <2>5, <2>6, BaseOfSend
  <2>8. u \in Tab /\ SameView(mine, u) /\ SameEdit(mine, u)
    BY <1>1, <2>2, <2>3, SendFacts
  <2> HIDE DEF u
  <2>9. LeavingFits(u)
    BY <1>2, <2>2, <2>8 DEF LeavingFits, SameView, SameEdit, SameWork
  <2>10. QED
    BY <1>2, <2>1, <2>7, <2>8, <2>9, TabStep
<1>10. CASE /\ ~(a.op \in {"patch", "retry"} /\ a.at = "ok")
            /\ ~(a.at \in {"gone", "error"} /\ a.op # "lock")
            /\ ~(a.op = "patch" /\ a.at = "required") /\ ~(a.op = "lock" /\ a.at = "ok")
  <2> DEFINE c == EnterConflict(tab)
  <2>1. tab' = Settle(c, f, TRUE)
    BY <1>3, <1>10
  <2>2. /\ c \in Tab /\ SameView(tab, c) /\ c.note = tab.note /\ BaseInv(c)
        /\ c.saving = tab.saving /\ c.leaving = tab.leaving
    BY <1>2, ConflictFacts, BaseOfConflict
  <2> HIDE DEF c
  <2>3. LeavingFits(c) /\ (c.page = "open" => c.note # None)
    BY <1>2, <2>2 DEF LeavingFits, SameView
  <2>4. QED
    BY <1>2, <2>1, <2>2, <2>3, BaseOfSettled, TabStep
<1>11. QED
  BY <1>6, <1>7, <1>8, <1>9, <1>10

\* The archiving or the deletion is answered.
LEMMA BaseOfAbandoned ==
  ASSUME IBase, LeaveAnswered
  PROVE  IBase'
<1> DEFINE d == Done(tab, "leave")
           n == NotingIf(d, d.dirty \/ Busy(d), "hurry")
<1>1. /\ tab \in Tab /\ BaseInv(tab) /\ LeavingFits(tab)
      /\ UNCHANGED <<serverVars, typed>>
  BY BackFacts, FlowsAre DEF LeaveAnswered
<1>2. /\ d \in Tab /\ SameView(tab, d) /\ SameEdit(tab, d) /\ BaseInv(d)
  BY <1>1, DoneFacts, BaseOfDone, FlowsAre
<1>3. tab' = d \/ (tab' = Unmount(n) /\ tab.page = "open")
  BY DEF LeaveAnswered, Mounted
<1> HIDE DEF d
<1>4. (d.dirty \/ Busy(d)) \in BOOLEAN /\ "hurry" \in Mishaps
  BY <1>2 DEF Busy, Idle, Tab, Mishaps
<1>5. /\ n \in Tab /\ SameView(d, n) /\ SameEdit(d, n) /\ SameLock(d, n)
      /\ n.calls = d.calls /\ d.mishaps \subseteq n.mishaps
  BY <1>2, <1>4, NotingIfFacts
<1> HIDE DEF n
<1>6. BaseInv(n)
  BY <1>2, <1>5, BaseKept DEF SameEdit
<1>7. CASE tab' = d
  <2>1. LeavingFits(d)
    BY <1>1, <1>2 DEF LeavingFits, SameView, SameEdit
  <2>2. QED
    BY <1>1, <1>2, <1>7, <2>1, TabStep
<1>8. CASE tab' = Unmount(n) /\ tab.page = "open"
  <2>1. n.page # "dead"
    BY <1>2, <1>5, <1>8 DEF SameView
  <2>2. BaseInv(tab') /\ LeavingFits(tab') /\ tab' \in Tab
    BY <1>5, <1>6, <1>8, <2>1, BaseOfUnmount, UnmountFacts DEF Left
  <2>3. QED
    BY <1>1, <2>2, TabStep
<1>9. QED
  BY <1>3, <1>7, <1>8

\* Every answer that reaches the editor keeps the base.
LEMMA BaseOfAnswered ==
  ASSUME IBase, Answered
  PROVE  IBase'
BY BaseOfLoaded, BaseOfPolled, BaseOfBeaten, BaseOfTaken, BaseOfSaved, BaseOfAbandoned
DEF Answered, LoadOrPollAnswered

\* The editor as it is mounted, its note asked for.
Opened(t) ==
    /\ t \in Tab /\ t.page = "open" /\ t.note = None
    /\ t.status = "pending" /\ t.shown = "pending"
    /\ ~(t.held \/ t.beating \/ t.polling \/ t.dirty \/ t.saving)
    /\ t.leaving = "no" /\ t.releases = 0
    /\ SentCall(t, "load", "get", NoDoc)
    /\ \A f \in Flows \ {"load"} : t.calls[f] = NoCall
    /\ t.draft.theirs = {}
    /\ text.theirs # {} => "stale seed" \in t.mishaps

\* ... and what it starts with: at once, if the board has passed a copy on.
Started(t, u) ==
    /\ u \in Tab /\ SameView(t, u) /\ SameEdit(t, u) /\ u.mishaps = t.mishaps
    /\ u.note = text.vis /\ u.shown = u.status
    /\ u.held = t.held /\ u.beating = t.beating /\ u.releases = t.releases
    /\ u.note = "PRIVATE" => u.calls = t.calls /\ ~u.polling /\ u.status = "none"
    /\ u.note = "PUBLIC" /\ u.calls = t.calls => u.status = "locked"
    /\ u.note = "PUBLIC" /\ u.calls # t.calls =>
         SentCall(u, "take", "lock", NoDoc) /\ OtherCalls(t, u, "take") /\ u.status = "pending"

\* The call that is none is idle.
LEMMA NoCallIdle == NoCall.op = "none" /\ NoCall.at = "idle"
BY DEF NoCall

\* It starts with nothing typed, nothing saved and no lock.
LEMMA StartFacts ==
  ASSUME NEW t \in Tab, NEW other \in BOOLEAN, NEW vis \in {"PRIVATE", "PUBLIC"},
         Opened(t), text.vis = vis
  PROVE  Started(t, EnterLifecycle(t, vis, other))
<1> DEFINE u == EnterLifecycle(t, vis, other)
<1>1. /\ u \in Tab /\ SameView(t, u) /\ SameEdit(t, u) /\ u.mishaps = t.mishaps
      /\ u.note = vis /\ u.held = t.held /\ u.beating = t.beating
      /\ u.releases = t.releases
      /\ u.shown = IF t.page = "open" THEN u.status ELSE t.shown
      /\ vis = "PRIVATE" => u.calls = t.calls /\ u.polling = t.polling /\ u.status = "none"
      /\ vis = "PUBLIC" /\ other => u.calls = t.calls /\ u.status = "locked"
      /\ vis = "PUBLIC" /\ ~other =>
           /\ SentCall(u, "take", "lock", NoDoc) /\ OtherCalls(t, u, "take")
           /\ u.status = "pending"
  BY EnterFacts
<1> HIDE DEF u
<1>2. t.calls["take"].op = "none"
  BY FlowsAre, NoCallIdle DEF Opened
<1>3. vis = "PUBLIC" /\ ~other => u.calls # t.calls
  BY <1>1, <1>2 DEF SentCall
<1>4. Started(t, u)
  BY <1>1, <1>3 DEF Started, Opened
<1>5. QED
  BY <1>4 DEF u

\* The initial state is one of these.
LEMMA InitFacts ==
  ASSUME Init
  PROVE  /\ LeaseTypeOK /\ ~fresh /\ row = "live" /\ text \in Doc /\ owner \in Users /\ typed = 0
         /\ OthersArePublic
         /\ \E t : Opened(t) /\ (tab = t \/ Started(t, tab))
<1>1. /\ LeaseTypeOK /\ ~fresh /\ row = "live" /\ owner \in Users /\ typed = 0
  BY DEF Init, LeaseInit, LeaseTypeOK
<1>2. PICK vis \in {"PRIVATE", "PUBLIC"}, seeded \in BOOLEAN, stale \in BOOLEAN, locked \in BOOLEAN :
         /\ owner = Other => vis = "PUBLIC"
         /\ text = [NoDoc EXCEPT !.vis = vis, !.theirs = IF stale THEN {1} ELSE {}]
         /\ LET mounted == [Blank EXCEPT !.draft.vis = vis,
                                         !.mishaps = IF stale THEN {"stale seed"} ELSE {}]
                loading == Send(mounted, "load", "get", NoDoc)
            IN tab = IF seeded THEN EnterLifecycle(loading, vis, locked) ELSE loading
  BY DEF Init
<1> DEFINE edits == IF stale THEN {1} ELSE {}
           ms == IF stale THEN {"stale seed"} ELSE {}
           d == [NoDoc EXCEPT !.vis = vis]
           m1 == [Blank EXCEPT !.draft = d]
           m == [m1 EXCEPT !.mishaps = ms]
           t == Send(m, "load", "get", NoDoc)
<1>3. text \in Doc /\ text.vis = vis /\ text.theirs = edits
  <2>1. edits \in {e \in SUBSET Nat : IsFiniteSet(e)}
    BY FS_EmptySet, FS_Singleton
  <2>2. text = [[NoDoc EXCEPT !.vis = vis] EXCEPT !.theirs = edits]
    BY <1>2
  <2> HIDE DEF edits
  <2>3. [NoDoc EXCEPT !.vis = vis] \in Doc /\ [NoDoc EXCEPT !.vis = vis].vis = vis
    BY VisFacts
  <2>4. QED
    BY <2>1, <2>2, <2>3 DEF Doc
<1>4. d \in Doc /\ d.theirs = {}
  BY VisFacts
<1>5. /\ Blank \in Tab /\ Blank.page = "open" /\ Blank.note = None
      /\ Blank.status = "pending" /\ Blank.shown = "pending"
      /\ ~(Blank.held \/ Blank.beating \/ Blank.polling \/ Blank.dirty \/ Blank.saving)
      /\ Blank.leaving = "no" /\ Blank.releases = 0
      /\ \A f \in Flows : Blank.calls[f] = NoCall
  BY DocTypes DEF Blank, Tab, LockStatus
<1>6. ms \in SUBSET Mishaps /\ (edits # {} => "stale seed" \in ms)
  BY DEF Mishaps
<1>7. tab = IF seeded THEN EnterLifecycle(t, vis, locked) ELSE t
  <2>1. [Blank EXCEPT !.draft.vis = vis, !.mishaps = ms] = m
    BY DEF Blank
  <2>2. QED
    BY <1>2, <2>1
<1> HIDE DEF edits, ms, d
<1>8. /\ m1 \in Tab /\ m1.draft = d /\ SameView(Blank, m1) /\ SameLock(Blank, m1)
      /\ m1.calls = Blank.calls /\ m1.dirty = Blank.dirty /\ m1.saving = Blank.saving
      /\ m1.leaving = Blank.leaving
  BY <1>4, <1>5, DraftFacts DEF SameCalls
<1> HIDE DEF m1
<1>9. /\ m \in Tab /\ m.mishaps = ms /\ SameView(m1, m) /\ SameLock(m1, m) /\ SameEdit(m1, m)
      /\ m.calls = m1.calls
  BY <1>6, <1>8 DEF Tab, SameView, SameLock, SameEdit
<1> HIDE DEF m
<1>10. /\ t \in Tab /\ SameView(m, t) /\ SameEdit(m, t) /\ SameLock(m, t)
       /\ t.mishaps = m.mishaps /\ SentCall(t, "load", "get", NoDoc) /\ OtherCalls(m, t, "load")
  BY <1>9, SendFacts, DocTypes, FlowsAre
<1> HIDE DEF t
<1>11. Opened(t)
  <2>1. /\ t.page = "open" /\ t.note = None /\ t.status = "pending" /\ t.shown = "pending"
        /\ ~(t.held \/ t.beating \/ t.polling) /\ t.releases = 0
    BY <1>5, <1>8, <1>9, <1>10 DEF SameView, SameLock
  <2>2. ~(t.dirty \/ t.saving) /\ t.leaving = "no" /\ t.draft.theirs = {}
    BY <1>4, <1>5, <1>8, <1>9, <1>10 DEF SameEdit
  <2>3. \A f \in Flows \ {"load"} : t.calls[f] = NoCall
    BY <1>5, <1>8, <1>9, <1>10 DEF OtherCalls
  <2>4. text.theirs # {} => "stale seed" \in t.mishaps
    BY <1>3, <1>6, <1>9, <1>10
  <2>5. QED
    BY <1>10, <2>1, <2>2, <2>3, <2>4 DEF Opened
<1>12. tab = EnterLifecycle(t, vis, locked) => Started(t, tab)
  BY <1>3, <1>11, StartFacts DEF Opened
<1>13. OthersArePublic
  BY <1>2, <1>3 DEF OthersArePublic
<1>14. QED
  BY <1>1, <1>3, <1>7, <1>11, <1>12, <1>13

\* It has the base.
LEMMA BaseOfInit == Init => IBase
<1> SUFFICES ASSUME Init PROVE IBase
  OBVIOUS
<1>1. /\ LeaseTypeOK /\ row = "live" /\ text \in Doc /\ owner \in Users /\ typed = 0
      /\ OthersArePublic
  BY InitFacts
<1>2. PICK t : Opened(t) /\ (tab = t \/ Started(t, tab))
  BY InitFacts
<1>3. t \in Tab /\ CallsFit(t)
  <2>1. CallFits(t, "load")
    BY <1>2, SentFits, OpsFit, FlowsAre DEF Opened
  <2>2. \A f \in Flows \ {"load"} : CallFits(t, f)
    BY <1>2, IdleFits, NoCallIdle DEF Opened
  <2>3. QED
    BY <1>2, <2>1, <2>2 DEF CallsFit, Opened
<1>4. \A f \in Flows \ {"load"} : Idle(t, f)
  BY <1>2, NoCallIdle DEF Opened, Idle
<1>5. BaseInv(t) /\ LeavingFits(t)
  <2>1. PageFits(t) /\ SavingFits(t) /\ LeavingFits(t)
    BY <1>1, <1>2, <1>4, FlowsAre DEF Opened, PageFits, SavingFits, LeavingFits
  <2>2. Loading(t)
    BY <1>1, <1>2, <1>4 DEF Opened, Loading, SentCall
  <2>3. QED
    BY <1>3, <2>1, <2>2 DEF BaseInv
<1>6. ASSUME Started(t, tab) PROVE tab \in Tab /\ BaseInv(tab) /\ LeavingFits(tab)
  <2>1. tab \in Tab /\ tab.note # None /\ SameView(t, tab) /\ SameEdit(t, tab) /\ tab.shown = tab.status
        /\ tab.mishaps = t.mishaps
    BY <1>1, <1>6, EditorAssumption DEF Started, Doc
  <2>2. OtherCalls(t, tab, "take") /\ (tab.calls = t.calls \/ SentCall(tab, "take", "lock", NoDoc))
    <3>1. tab.note \in {"PRIVATE", "PUBLIC"}
      BY <1>1, <1>6 DEF Started, Doc
    <3>2. QED
      BY <1>6, <3>1 DEF Started, OtherCalls
  <2>3. CallsFit(tab)
    <3>1. CASE tab.calls = t.calls
      BY <1>3, <2>1, <3>1, CallsKept
    <3>2. CASE SentCall(tab, "take", "lock", NoDoc)
      <4>1. CallFits(tab, "take")
        BY <2>1, <3>2, SentFits, OpsFit, FlowsAre
      <4>2. QED
        BY <1>3, <2>1, <2>2, <4>1, OthersKept, FlowsAre
    <3>3. QED
      BY <2>2, <3>1, <3>2
  <2>4. PageFits(tab) /\ SavingFits(tab) /\ LeavingFits(tab) /\ Loading(tab)
    BY <1>1, <1>5, <2>1, <2>2, FlowsAre
    DEF BaseInv, PageFits, SavingFits, LeavingFits, Loading, SameView, SameEdit, OtherCalls, Idle
  <2>5. QED
    BY <2>1, <2>3, <2>4 DEF BaseInv
<1>7. TypeOK
  BY <1>1, <1>2, <1>3, <1>6 DEF TypeOK
<1>8. QED
  BY <1>1, <1>2, <1>5, <1>6, <1>7 DEF IBase

\* So has a state that is the same.
LEMMA BaseOfStutter ==
  ASSUME IBase, UNCHANGED vars
  PROVE  IBase'
<1>1. tab' = tab /\ UNCHANGED <<serverVars, typed>>
  BY DEF vars, serverVars
<1>2. QED
  BY <1>1, TabStep DEF IBase, TypeOK

\* Every step keeps the base.
LEMMA BaseStep ==
  ASSUME IBase, [Next]_vars
  PROVE  IBase'
BY BaseOfMember, BaseOfTimers, BaseOfServer, BaseOfAnswered, BaseOfNetwork, BaseOfOthers,
   BaseOfStutter
DEF Next

(***************************************************************************)
(* The editor, its calls and the server's part of the note keep their      *)
(* types, and a lock is somebody's or nobody's (NoteEditor.tsx,            *)
(* useNoteLock.ts, useAutosave.ts): with any number of keystrokes,         *)
(* calls and faults.                                                       *)
(***************************************************************************)
THEOREM TypesKept == Spec => []TypeOK
<1>1. IBase /\ [Next]_vars => IBase'
  BY BaseStep
<1>2. IBase => TypeOK
  BY DEF IBase
<1>3. QED
  BY BaseOfInit, <1>1, <1>2, PTL DEF Spec

=============================================================================
