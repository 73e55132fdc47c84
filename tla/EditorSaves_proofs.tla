------------------------- MODULE EditorSaves_proofs -------------------------
(***************************************************************************)
(* What becomes of the keystrokes: they are in the draft of an open editor *)
(* (KeystrokesKept), at the server when it shows them as saved             *)
(* (SavedMeansSaved) and when it is closed (ClosedMeansSaved), or their    *)
(* loss was told. And what becomes of the others' there: nothing is taken  *)
(* back (NoOverwrite).                                                     *)
(***************************************************************************)
EXTENDS EditorSession_proofs

(***************************************************************************)
(* Every keystroke is in the draft, or its loss was told.                  *)
(***************************************************************************)

\* Nothing has happened that replaces a draft, or throws it away, without a
\* word.
Calm(t) == Quiet(t, {"flip", "stale poll", "stale take"})

\* The member was told that all that was typed is lost.
GivenUp(t) == 1..typed \subseteq t.told

\* Every keystroke is in this text, or its loss was told.
KeptIn(t, where) == 1..typed \subseteq where.mine \cup t.told

\* Every keystroke is in the draft, or its loss was told; an editor that its
\* member may not type into holds nothing untold; and who types privately is
\* asked for no lock that could replace the draft.
DraftInv(t) ==
    t.page = "open" /\ Calm(t) =>
      /\ KeptIn(t, t.draft)
      /\ t.shown \notin {"mine", "none"} => GivenUp(t)
      /\ t.shown \in {"mine", "none"} => Idle(t, "poll")
      /\ t.shown = "none" =>
           /\ t.note = "PRIVATE" /\ Idle(t, "take") /\ Idle(t, "beat")
           /\ LET c == t.calls["save"] IN
                /\ c.op = "lock" => text.vis = "PUBLIC" /\ (c.at = "ok" => c.got.vis = "PUBLIC")
                /\ c.at = "required" => text.vis = "PUBLIC"

\* A calm editor was calm before.
LEMMA CalmKept ==
  ASSUME NEW t, NEW u, t.mishaps \subseteq u.mishaps
  PROVE  Calm(u) => Calm(t)
BY DEF Calm, Quiet

\* What was told to be lost is no loss untold.
LEMMA GivenIsKept ==
  ASSUME NEW t, NEW where, GivenUp(t)
  PROVE  KeptIn(t, where)
BY DEF GivenUp, KeptIn

\* Nothing is lost where nothing was typed.
LEMMA NothingTyped ==
  ASSUME NEW t, typed = 0
  PROVE  GivenUp(t)
BY DEF GivenUp

\* The draft of an editor of which nothing changes that matters to it.
LEMMA DraftKept ==
  ASSUME NEW t \in Tab, NEW u \in Tab, DraftInv(t), u.page = t.page, t.mishaps \subseteq u.mishaps,
         u.draft = t.draft, t.told \subseteq u.told, u.note = t.note, u.shown = t.shown,
         \A f \in {"poll", "take", "beat"} : Idle(t, f) => Idle(u, f),
         u.calls["save"] = t.calls["save"] \/ u.calls["save"] = NoCall
  PROVE  DraftInv(u)
<1> SUFFICES ASSUME u.page = "open", Calm(u) PROVE DraftInv(u)
  BY DEF DraftInv
<1>1. Calm(t)
  BY CalmKept
<1>2. KeptIn(u, u.draft) /\ (u.shown \notin {"mine", "none"} => GivenUp(u))
  BY <1>1 DEF DraftInv, KeptIn, GivenUp
<1>3. QED
  BY <1>1, <1>2, NoCallIdle DEF DraftInv

\* ... and of one whose keystrokes were given up, openly.
LEMMA DraftGiven ==
  ASSUME NEW u \in Tab,
         u.page = "open" /\ Calm(u) =>
           GivenUp(u) /\ u.shown # "none" /\ (u.shown = "mine" => Idle(u, "poll"))
  PROVE  DraftInv(u)
BY GivenIsKept DEF DraftInv

\* A call is over.
LEMMA DraftOfDone ==
  ASSUME NEW t \in Tab, NEW f \in Flows, DraftInv(t)
  PROVE  DraftInv(Done(t, f))
<1> DEFINE u == Done(t, f)
<1>1. /\ u \in Tab /\ SameView(t, u) /\ SameEdit(t, u) /\ SameLock(t, u)
      /\ u.mishaps = t.mishaps /\ u.calls[f] = NoCall /\ OtherCalls(t, u, f)
  BY DoneFacts
<1> HIDE DEF u
<1>2. \A g \in Flows : u.calls[g] = t.calls[g] \/ u.calls[g] = NoCall
  BY <1>1 DEF OtherCalls
<1>3. DraftInv(u)
  BY <1>1, <1>2, DraftKept, FlowsAre, NoCallIdle DEF SameView, SameEdit, SameLock, Idle
<1>4. QED
  BY <1>3 DEF u

\* The draft is replaced only when there is nothing to lose.
LEMMA DraftOfApplied ==
  ASSUME NEW t \in Tab, DraftInv(t), BaseInv(t), NEW a \in Call, NEW other \in BOOLEAN,
         t.page = "open" /\ Calm(t) => GivenUp(t) /\ (Idle(t, "poll") \/ t.shown \notin {"none", "mine"})
  PROVE  DraftInv(ApplyServer(t, a, other))
<1> DEFINE u == ApplyServer(t, a, other)
           vis == a.got.vis
<1>1. /\ u \in Tab /\ SameView(t, u) /\ SameWork(t, u) /\ OtherCalls(t, u, "take")
      /\ t.mishaps \subseteq u.mishaps
      /\ t.page # "open" \/ t.note = vis => SameLock(t, u) /\ SameCalls(t, u)
      /\ t.page = "open" /\ t.note # vis =>
           /\ u.note = vis /\ u.shown = u.status
           /\ t.note # None => "flip" \in u.mishaps
           /\ vis = "PRIVATE" => u.calls = t.calls /\ u.status = "none"
           /\ vis = "PUBLIC" /\ other => u.calls = t.calls /\ u.status = "locked"
           /\ vis = "PUBLIC" /\ ~other =>
                SentCall(u, "take", "lock", NoDoc) /\ u.status = "pending"
  BY AppliedFacts
<1>2. vis \in {"PRIVATE", "PUBLIC"}
  BY DEF Call, Doc
<1> HIDE DEF u, vis
<1>3. DraftInv(u)
  <2> SUFFICES ASSUME u.page = "open", Calm(u) PROVE DraftInv(u)
    BY DEF DraftInv
  <2>1. t.page = "open" /\ Calm(t)
    BY <1>1, CalmKept DEF SameView
  <2>2. GivenUp(u)
    BY <1>1, <2>1 DEF GivenUp, SameWork
  <2>3. KeptIn(u, u.draft)
    BY <2>2, GivenIsKept
  <2>4. CASE t.note = vis
    <3>1. SameLock(t, u) /\ SameCalls(t, u)
      BY <1>1, <2>4
    <3>2. QED
      BY <2>1, <2>2, <2>3, <3>1 DEF DraftInv, SameLock, SameCalls, Idle
  <2>5. CASE t.note # vis
    <3>1. t.note = None
      BY <1>1, <2>1, <2>5 DEF Calm, Quiet
    <3>2. CASE vis = "PUBLIC"
      <4>1. u.shown \in {"locked", "pending"}
        BY <1>1, <2>1, <2>5, <3>2
      <4>2. QED
        BY <1>1, <2>2, <4>1, DraftGiven
    <3>3. CASE vis = "PRIVATE"
      <4>1. u.note = "PRIVATE" /\ u.calls = t.calls
        BY <1>1, <2>1, <2>5, <3>3
      <4>2. /\ Idle(t, "poll") /\ Idle(t, "take") /\ Idle(t, "beat")
            /\ t.calls["save"].at = "idle" /\ t.calls["save"].op = "none"
        <5>1. \A f \in Flows \ {"load"} : Idle(t, f)
          BY <2>1, <3>1 DEF BaseInv, Loading
        <5>2. CallFits(t, "save")
          BY FlowsAre DEF BaseInv, CallsFit
        <5>3. QED
          BY <5>1, <5>2, FlowsAre DEF CallFits, Idle
      <4>3. QED
        BY <2>2, <2>3, <4>1, <4>2 DEF DraftInv, Idle
    <3>4. QED
      BY <1>2, <3>2, <3>3
  <2>6. QED
    BY <2>4, <2>5
<1>4. QED
  BY <1>3 DEF u

\* The lock is had: it was asked for with nothing to lose.
LEMMA DraftOfAcquired ==
  ASSUME NEW t \in Tab, NEW a \in Call, DraftInv(t), t.page = "open" => t.note # None,
         t.page = "open" /\ Calm(t) /\ t.shown = "none" => a.got.vis # t.note
  PROVE  DraftInv(Acquired(t, a))
<1> DEFINE u == Acquired(t, a)
           flips == t.page = "open" /\ t.shown # "mine" /\ t.note # a.got.vis
<1>1. /\ u \in Tab /\ SameView(t, u) /\ SameWork(t, u) /\ t.mishaps \subseteq u.mishaps
      /\ u.draft = IF t.shown = "mine" THEN t.draft ELSE a.got
      /\ ~Idle(t, "poll") => "stale poll" \in u.mishaps
      /\ flips /\ t.note # None => "flip" \in u.mishaps
      /\ ~flips => u.calls = t.calls /\ u.shown = IF t.page = "open" THEN "mine" ELSE t.shown
  BY AcquiredFacts
<1> HIDE DEF u
<1>2. DraftInv(u)
  <2> SUFFICES ASSUME u.page = "open", Calm(u) PROVE DraftInv(u)
    BY DEF DraftInv
  <2>1. t.page = "open" /\ Calm(t)
    BY <1>1, CalmKept DEF SameView
  <2>2. ~flips /\ Idle(t, "poll")
    BY <1>1, <2>1 DEF Calm, Quiet
  <2>3. u.shown = "mine" /\ Idle(u, "poll")
    BY <1>1, <2>1, <2>2 DEF Idle
  <2>4. KeptIn(u, u.draft)
    <3>1. CASE t.shown = "mine"
      BY <1>1, <2>1, <3>1 DEF DraftInv, KeptIn, SameWork
    <3>2. CASE t.shown # "mine"
      <4>1. GivenUp(t)
        BY <2>1, <2>2, <3>2 DEF DraftInv
      <4>2. GivenUp(u)
        BY <1>1, <4>1 DEF GivenUp, SameWork
      <4>3. QED
        BY <4>2, GivenIsKept
    <3>3. QED
      BY <3>1, <3>2
  <2>5. QED
    BY <2>3, <2>4 DEF DraftInv
<1>3. QED
  BY <1>2 DEF u

\* The lock could not be had.
LEMMA DraftOfNotAcquired ==
  ASSUME NEW t \in Tab, NEW other \in BOOLEAN, DraftInv(t),
         t.page = "open" /\ Calm(t) => t.shown # "none"
  PROVE  DraftInv(NotAcquired(t, other))
<1> DEFINE u == NotAcquired(t, other)
<1>1. /\ u \in Tab /\ SameView(t, u) /\ SameEdit(t, u) /\ t.mishaps \subseteq u.mishaps
      /\ t.shown = "mine" => "stale take" \in u.mishaps
      /\ u.status \in {"locked", "available"}
      /\ u.shown = IF t.page = "open" THEN u.status ELSE t.shown
  BY NotAcquiredFacts
<1> HIDE DEF u
<1>2. u.page = "open" /\ Calm(u) => GivenUp(u) /\ u.shown \in {"locked", "available"}
  <2> SUFFICES ASSUME u.page = "open", Calm(u) PROVE GivenUp(u) /\ u.shown \in {"locked", "available"}
    OBVIOUS
  <2>1. t.page = "open" /\ Calm(t)
    BY <1>1, CalmKept DEF SameView
  <2>2. t.shown \notin {"mine", "none"}
    BY <1>1, <2>1 DEF Calm, Quiet
  <2>3. GivenUp(t)
    BY <2>1, <2>2 DEF DraftInv
  <2>4. QED
    BY <1>1, <2>1, <2>3 DEF GivenUp, SameEdit
<1>3. DraftInv(u)
  BY <1>1, <1>2, DraftGiven
<1>4. QED
  BY <1>3 DEF u

\* The lock is lost to somebody, and the member is told.
LEMMA DraftOfConflict ==
  ASSUME NEW t \in Tab, typed \in Nat
  PROVE  DraftInv(EnterConflict(t))
<1> DEFINE u == EnterConflict(t)
<1>1. /\ u \in Tab /\ SameView(t, u)
      /\ u.told = IF t.page = "open" THEN t.told \cup 1..typed ELSE t.told
      /\ u.shown = IF t.page = "open" THEN "conflict" ELSE t.shown
  BY ConflictFacts
<1> HIDE DEF u
<1>2. u.page = "open" => GivenUp(u) /\ u.shown = "conflict"
  BY <1>1 DEF GivenUp, SameView
<1>3. DraftInv(u)
  BY <1>1, <1>2, DraftGiven
<1>4. QED
  BY <1>3 DEF u

\* The server's part is not touched.
LEMMA DraftAlone ==
  ASSUME DraftInv(tab'), UNCHANGED <<serverVars, typed>>
  PROVE  DraftInv(tab)'
BY DEF serverVars, DraftInv, Calm, Quiet, KeptIn, GivenUp, Idle

\* A closed editor has no draft.
LEMMA DraftClosed ==
  ASSUME NEW u, u.page # "open"
  PROVE  DraftInv(u)
BY DEF DraftInv

\* A call goes out.
LEMMA DraftOfSend ==
  ASSUME NEW t \in Tab, NEW op \in {"lock", "retry"}, NEW doc \in Doc, DraftInv(t),
         op = "lock" /\ t.page = "open" /\ Calm(t) /\ t.shown = "none" => text.vis = "PUBLIC"
  PROVE  DraftInv(Send(t, "save", op, doc))
<1> DEFINE u == Send(t, "save", op, doc)
<1>1. /\ u \in Tab /\ SameView(t, u) /\ SameEdit(t, u) /\ SameLock(t, u) /\ u.mishaps = t.mishaps
      /\ SentCall(u, "save", op, doc) /\ OtherCalls(t, u, "save")
  <2>1. "save" \in Flows /\ op \in {"get", "lock", "patch", "retry", "archive", "delete"}
    BY FlowsAre
  <2>2. QED
    BY <2>1, SendFacts
<1> HIDE DEF u
<1>2. \A f \in {"poll", "take", "beat"} : u.calls[f] = t.calls[f]
  BY <1>1, FlowsAre DEF OtherCalls
<1>3. DraftInv(u)
  <2> SUFFICES ASSUME u.page = "open", Calm(u) PROVE DraftInv(u)
    BY DEF DraftInv
  <2>1. t.page = "open" /\ Calm(t) /\ u.shown = t.shown /\ u.note = t.note
    BY <1>1, CalmKept DEF SameView, SameLock
  <2>2. KeptIn(u, u.draft) /\ (u.shown \notin {"mine", "none"} => GivenUp(u))
    BY <1>1, <2>1 DEF DraftInv, KeptIn, GivenUp, SameEdit
  <2>3. u.shown \in {"mine", "none"} => Idle(u, "poll")
    BY <1>2, <2>1 DEF DraftInv, Idle
  <2>4. u.shown = "none" =>
          /\ u.note = "PRIVATE" /\ Idle(u, "take") /\ Idle(u, "beat")
          /\ u.calls["save"].op = "lock" => text.vis = "PUBLIC"
          /\ u.calls["save"].at = "sent"
    BY <1>1, <1>2, <2>1 DEF DraftInv, Idle, SentCall
  <2>5. QED
    BY <2>2, <2>3, <2>4 DEF DraftInv
<1>4. QED
  BY <1>3 DEF u

\* The note is known, or known anew.
LEMMA DraftOfSetNote ==
  ASSUME NEW t \in Tab, DraftInv(t), NEW a \in Call, NEW other \in BOOLEAN,
         t.page = "open" => t.note # None
  PROVE  DraftInv(SetNote(t, a, other))
<1> DEFINE u == SetNote(t, a, other)
<1>1. /\ u \in Tab /\ SameView(t, u)
      /\ t.page # "open" \/ t.note = a.got.vis => u = t
      /\ t.page = "open" /\ t.note # a.got.vis /\ t.note # None => "flip" \in u.mishaps
  BY SetNoteFacts
<1> HIDE DEF u
<1>2. CASE u = t
  BY <1>2 DEF u
<1>3. CASE "flip" \in u.mishaps
  <2>1. DraftInv(u)
    BY <1>3 DEF DraftInv, Calm, Quiet
  <2>2. QED
    BY <2>1 DEF u
<1>4. QED
  BY <1>1, <1>2, <1>3

\* A save settles.
LEMMA DraftOfSettled ==
  ASSUME NEW t \in Tab, DraftInv(t), NEW ok \in BOOLEAN
  PROVE  DraftInv(Settle(t, "save", ok))
<1> DEFINE e == Ended(t, ok)
           u == Resume(e)
<1>1. Settle(t, "save", ok) = u
  BY SettleFacts
<1>2. /\ e \in Tab /\ SameView(t, e) /\ SameLock(t, e) /\ e.mishaps = t.mishaps
      /\ e.draft = t.draft /\ e.told = t.told
      /\ e.calls["save"] = NoCall /\ OtherCalls(t, e, "save")
  BY EndedFacts
<1> HIDE DEF e
<1>3. /\ u \in Tab
      /\ e.leaving = "no" => u = e
      /\ e.leaving = "close" => Left(e, u)
      /\ e.leaving = "archive" => Archives(e, u)
      /\ e.leaving \in {"no", "close", "archive"}
  BY <1>2, ResumeFacts DEF Tab
<1> HIDE DEF u
<1>4. \A f \in {"poll", "take", "beat"} : e.calls[f] = t.calls[f]
  BY <1>2, FlowsAre DEF OtherCalls
<1>5. DraftInv(e)
  BY <1>2, <1>4, DraftKept DEF SameView, SameLock, Idle
<1>6. CASE Left(e, u)
  BY <1>1, <1>6, DraftClosed DEF Left
<1>7. CASE Archives(e, u)
  <2>1. /\ u.page = e.page /\ SameLock(e, u) /\ u.mishaps = e.mishaps /\ u.draft = e.draft /\ u.told = e.told
        /\ \A f \in {"poll", "take", "beat", "save"} : u.calls[f] = e.calls[f]
    BY <1>7, FlowsAre DEF Archives, SameView, OtherCalls
  <2>2. DraftInv(u)
    BY <1>2, <1>3, <1>5, <2>1, DraftKept DEF SameLock, Idle
  <2>3. QED
    BY <1>1, <2>2
<1>8. QED
  BY <1>1, <1>3, <1>5, <1>6, <1>7

\* A keystroke is in the draft of whoever may type it.
LEMMA DraftOfTyped ==
  ASSUME tab \in Tab, typed \in Nat, DraftInv(tab), Typed(tab, tab'), UNCHANGED serverVars
  PROVE  DraftInv(tab)'
<1>1. /\ tab' \in Tab /\ tab'.page = tab.page /\ SameLock(tab, tab') /\ tab'.told = tab.told
      /\ tab.mishaps \subseteq tab'.mishaps /\ tab.draft.mine \subseteq tab'.draft.mine
      /\ \A f \in Flows \ {"save", "leave"} : tab'.calls[f] = tab.calls[f]
      /\ \/ tab'.calls["save"] = tab.calls["save"]
         \/ Editable(tab) /\ SentCall(tab', "save", "patch", tab'.draft)
      /\ \A n \in 1..typed' : n \in 1..typed \/ n \in tab'.draft.mine
      /\ typed' = typed \/ Editable(tab)
  BY DEF Typed, Works, Typing
<1> SUFFICES ASSUME tab'.page = "open", Calm(tab') PROVE DraftInv(tab)'
  BY DEF DraftInv, Calm, Quiet
<1>2. tab.page = "open" /\ Calm(tab) /\ text' = text
  BY <1>1, CalmKept DEF serverVars
<1>3. tab'.shown = tab.shown /\ tab'.note = tab.note
  BY <1>1 DEF SameLock
<1>4. KeptIn(tab, tab.draft)'
  BY <1>1, <1>2 DEF DraftInv, KeptIn
<1>5. tab'.shown \notin {"mine", "none"} => GivenUp(tab)'
  BY <1>1, <1>2, <1>3 DEF DraftInv, GivenUp, Editable
<1>6. /\ tab'.calls["poll"] = tab.calls["poll"] /\ tab'.calls["take"] = tab.calls["take"]
      /\ tab'.calls["beat"] = tab.calls["beat"]
  BY <1>1, FlowsAre
<1>7. tab'.shown \in {"mine", "none"} => Idle(tab, "poll")'
  BY <1>2, <1>3, <1>6 DEF DraftInv, Idle
<1>8. tab'.shown = "none" =>
        /\ tab'.note = "PRIVATE" /\ Idle(tab, "take")' /\ Idle(tab, "beat")'
        /\ LET c == tab'.calls["save"] IN
             /\ c.op = "lock" => text.vis = "PUBLIC" /\ (c.at = "ok" => c.got.vis = "PUBLIC")
             /\ c.at = "required" => text.vis = "PUBLIC"
  BY <1>1, <1>2, <1>3, <1>6 DEF DraftInv, Idle, SentCall
<1>9. QED
  BY <1>2, <1>4, <1>5, <1>7, <1>8 DEF DraftInv

\* The member and the timers keep the draft.
LEMMA DraftOfMember ==
  ASSUME IBase, DraftInv(tab), Member \/ Timers
  PROVE  DraftInv(tab)'
<1>1. tab \in Tab /\ typed \in Nat /\ BaseInv(tab) /\ TypeOK
  BY DEF IBase, TypeOK
<1>2. CASE Member \/ TimerFires
  <2>1. MemberShape /\ UNCHANGED serverVars
    BY <1>1, <1>2, MemberSteps
  <2>2. CASE Typed(tab, tab')
    BY <1>1, <2>1, <2>2, DraftOfTyped
  <2>3. CASE typed' = typed /\ MemberLeaves(tab, tab')
    BY <2>1, <2>3, DraftClosed, DraftAlone DEF MemberLeaves, Left
  <2>4. CASE typed' = typed /\ tab'.page = "dead"
    BY <2>1, <2>4, DraftClosed, DraftAlone
  <2>5. CASE typed' = typed /\ (TakesOver(tab, tab') \/ ReadsOnly(tab, tab'))
    <3>1. /\ tab.page = "open" /\ tab.shown \in {"available", "conflict"} /\ tab' \in Tab
          /\ tab'.shown \in {"available", "locked"} /\ tab.mishaps \subseteq tab'.mishaps
          /\ tab'.told = tab.told
      BY <2>5 DEF TakesOver, ReadsOnly, SameEdit, SameLock
    <3>2. Calm(tab') => GivenUp(tab')
      <4>1. Calm(tab') => GivenUp(tab)
        BY <1>1, <3>1, CalmKept DEF DraftInv
      <4>2. QED
        BY <3>1, <4>1 DEF GivenUp
    <3>3. DraftInv(tab')
      BY <3>1, <3>2, DraftGiven
    <3>4. QED
      BY <2>1, <2>5, <3>3, DraftAlone
  <2>6. QED
    BY <2>1, <2>2, <2>3, <2>4, <2>5 DEF MemberShape, Closes
<1>3. CASE HeartbeatTick \/ PollTick
  <2>1. (Beats(tab, tab') \/ Polls(tab, tab')) /\ UNCHANGED <<serverVars, typed>>
    BY <1>1, <1>3, TickSteps
  <2>2. /\ tab' \in Tab /\ SameView(tab, tab') /\ SameEdit(tab, tab') /\ SameLock(tab, tab')
        /\ tab'.mishaps = tab.mishaps
    BY <2>1 DEF Beats, Polls
  <2>3. DraftInv(tab')
    <3> SUFFICES ASSUME tab'.page = "open", Calm(tab') PROVE DraftInv(tab')
      BY DEF DraftInv
    <3>1. tab.page = "open" /\ Calm(tab) /\ tab.status = tab.shown /\ tab'.shown = tab.shown
      BY <1>1, <2>2, CalmKept DEF BaseInv, PageFits, SameView, SameLock
    <3>2. CASE Beats(tab, tab')
      <4>1. tab'.shown = "mine" /\ Idle(tab, "poll") /\ KeptIn(tab, tab.draft)
        BY <1>1, <3>1, <3>2 DEF Beats, DraftInv
      <4>2. tab'.calls["poll"] = tab.calls["poll"]
        BY <3>2, FlowsAre DEF Beats, OtherCalls
      <4>3. KeptIn(tab', tab'.draft)
        BY <2>2, <4>1 DEF KeptIn, SameEdit
      <4>4. QED
        BY <4>1, <4>2, <4>3 DEF DraftInv, Idle
    <3>3. CASE Polls(tab, tab')
      <4>1. tab'.shown \in {"locked", "available"} /\ GivenUp(tab)
        BY <1>1, <3>1, <3>3 DEF Polls, DraftInv
      <4>2. GivenUp(tab')
        BY <2>2, <4>1 DEF GivenUp, SameEdit
      <4>3. QED
        BY <2>2, <4>1, <4>2, DraftGiven
    <3>4. QED
      BY <2>1, <3>2, <3>3
  <2>4. QED
    BY <2>1, <2>3, DraftAlone
<1>4. QED
  BY <1>2, <1>3 DEF Timers

\* So do the server, the network and the others: a text that comes back is
\* that of a call made with nothing to lose.
LEMMA DraftOfRemote ==
  ASSUME IBase, DraftInv(tab), RemoteShape, typed' = typed
  PROVE  DraftInv(tab)'
<1>1. tab \in Tab /\ BaseInv(tab)
  BY DEF IBase, TypeOK
<1>2. ASSUME tab' \in Tab, SameView(tab, tab'), SameEdit(tab, tab'), tab.mishaps \subseteq tab'.mishaps,
             tab'.note = tab.note, tab'.shown = tab.shown,
             \A f \in {"poll", "take", "beat"} : Idle(tab, f) => tab'.calls[f].at = "idle",
             tab.page = "open" /\ tab.shown = "none" /\ Calm(tab) =>
               LET c == tab'.calls["save"] IN
                 /\ c.op = "lock" => text'.vis = "PUBLIC" /\ (c.at = "ok" => c.got.vis = "PUBLIC")
                 /\ c.at = "required" => text'.vis = "PUBLIC"
      PROVE  DraftInv(tab)'
  <2> SUFFICES ASSUME tab'.page = "open", Calm(tab') PROVE DraftInv(tab)'
    BY DEF DraftInv, Calm, Quiet
  <2>1. tab.page = "open" /\ Calm(tab)
    BY <1>2, CalmKept DEF SameView
  <2>2. KeptIn(tab, tab.draft)' /\ (tab'.shown \notin {"mine", "none"} => GivenUp(tab)')
    BY <1>2, <2>1 DEF DraftInv, KeptIn, GivenUp, SameEdit
  <2>3. tab'.shown \in {"mine", "none"} => Idle(tab, "poll")'
    BY <1>2, <2>1 DEF DraftInv, Idle
  <2>4. tab'.shown = "none" => tab'.note = "PRIVATE" /\ Idle(tab, "take")' /\ Idle(tab, "beat")'
    BY <1>2, <2>1 DEF DraftInv, Idle
  <2>5. QED
    BY <1>2, <2>1, <2>2, <2>3, <2>4 DEF DraftInv
<1>3. ASSUME NEW f \in Flows, AnswersGone(f) \/ AnswersText(f) \/ Grants(f) \/ Refuses(f) \/ Writes(f)
      PROVE  DraftInv(tab)'
  <2>1. /\ tab' \in Tab /\ SameView(tab, tab') /\ SameEdit(tab, tab') /\ SameLock(tab, tab')
        /\ tab'.mishaps = tab.mishaps /\ OtherCalls(tab, tab', f) /\ Sent(f)
        /\ tab'.calls[f].op = tab.calls[f].op
    BY <1>3 DEF AnswersGone, AnswersText, Grants, Refuses, Writes, Answers
  <2>2. \A g \in {"poll", "take", "beat"} : Idle(tab, g) => tab'.calls[g].at = "idle"
    BY <2>1, FlowsAre DEF OtherCalls, Idle, Sent
  <2>3. tab.page = "open" /\ tab.shown = "none" /\ Calm(tab) =>
               LET c == tab'.calls["save"] IN
                 /\ c.op = "lock" => text'.vis = "PUBLIC" /\ (c.at = "ok" => c.got.vis = "PUBLIC")
                 /\ c.at = "required" => text'.vis = "PUBLIC"
    <3> SUFFICES ASSUME tab.page = "open", tab.shown = "none", Calm(tab)
                 PROVE  LET c == tab'.calls["save"] IN
                          /\ c.op = "lock" => text'.vis = "PUBLIC" /\ (c.at = "ok" => c.got.vis = "PUBLIC")
                          /\ c.at = "required" => text'.vis = "PUBLIC"
      OBVIOUS
    <3>1. LET c == tab.calls["save"] IN
            /\ c.op = "lock" => text.vis = "PUBLIC" /\ (c.at = "ok" => c.got.vis = "PUBLIC")
            /\ c.at = "required" => text.vis = "PUBLIC"
      BY DEF DraftInv
    <3>2. CASE f # "save"
      <4>1. tab'.calls["save"] = tab.calls["save"]
        BY <2>1, <3>2, FlowsAre DEF OtherCalls
      <4>2. text' = text
        <5>1. f # "last" /\ CallFits(tab, f)
          BY <1>1, <2>1 DEF BaseInv, PageFits, CallsFit, Sent, Idle
        <5>2. tab.calls[f].op \notin {"patch", "retry"}
          BY <3>2, <5>1 DEF CallFits, Ops, Flows
        <5>3. QED
          BY <1>3, <5>2 DEF AnswersGone, AnswersText, Grants, Refuses, Writes, serverVars
      <4>3. QED
        BY <3>1, <4>1, <4>2
    <3>3. CASE f = "save"
      <4>1. CASE AnswersGone(f)
        BY <2>1, <3>1, <3>3, <4>1 DEF AnswersGone, Answers, serverVars
      <4>2. CASE AnswersText(f)
        BY <2>1, <3>1, <3>3, <4>2 DEF AnswersText, Answers, serverVars
      <4>3. CASE Grants(f)
        <5>1. tab'.calls["save"].at = "ok" /\ tab'.calls["save"].got = text /\ text' = text
          BY <3>3, <4>3 DEF Grants, Answers
        <5>2. QED
          BY <2>1, <3>1, <3>3, <4>3, <5>1 DEF Grants
      <4>4. CASE Refuses(f)
        <5>1. tab'.calls["save"].at # "ok" /\ text' = text
          BY <3>3, <4>4 DEF Refuses, Answers, serverVars
        <5>2. text.vis = "PUBLIC"
          BY <3>1, <3>3, <4>4 DEF Refuses
        <5>3. QED
          BY <5>1, <5>2
      <4>5. CASE Writes(f)
        <5>1. tab'.calls["save"].at = "ok" /\ tab'.calls["save"].op # "lock"
          BY <2>1, <3>3, <4>5 DEF Writes, Answers
        <5>2. QED
          BY <5>1
      <4>6. QED
        BY <1>3, <4>1, <4>2, <4>3, <4>4, <4>5
    <3>4. QED
      BY <3>2, <3>3
  <2>4. QED
    BY <1>2, <2>1, <2>2, <2>3 DEF SameLock
<1>4. ASSUME NEW f \in Flows, Loses(f) PROVE DraftInv(tab)'
  <2>1. /\ tab' \in Tab /\ SameView(tab, tab') /\ SameEdit(tab, tab') /\ SameLock(tab, tab')
        /\ tab.mishaps \subseteq tab'.mishaps /\ OtherCalls(tab, tab', f) /\ ~Idle(tab, f)
        /\ tab'.calls[f].op = tab.calls[f].op /\ tab'.calls[f].at = "error" /\ text' = text
    BY <1>4 DEF Loses, serverVars
  <2>2. \A g \in {"poll", "take", "beat"} : Idle(tab, g) => tab'.calls[g].at = "idle"
    BY <2>1, FlowsAre DEF OtherCalls, Idle
  <2>3. tab.page = "open" /\ tab.shown = "none" /\ Calm(tab) =>
               LET c == tab'.calls["save"] IN
                 /\ c.op = "lock" => text'.vis = "PUBLIC" /\ (c.at = "ok" => c.got.vis = "PUBLIC")
                 /\ c.at = "required" => text'.vis = "PUBLIC"
    <3>1. CASE f # "save"
      <4>1. tab'.calls["save"] = tab.calls["save"]
        BY <2>1, <3>1, FlowsAre DEF OtherCalls
      <4>2. QED
        BY <2>1, <4>1 DEF DraftInv
    <3>2. CASE f = "save"
      BY <2>1, <3>2 DEF DraftInv
    <3>3. QED
      BY <3>1, <3>2
  <2>4. QED
    BY <1>2, <2>1, <2>2, <2>3 DEF SameLock
<1>5. ASSUME tab' \in Tab, SameView(tab, tab'), SameEdit(tab, tab'), tab.mishaps \subseteq tab'.mishaps,
             tab'.note = tab.note, tab'.shown = tab.shown,
             \A f \in {"poll", "take", "beat", "save"} : tab'.calls[f] = tab.calls[f],
             text'.vis = text.vis
      PROVE  DraftInv(tab)'
  <2>1. tab.page = "open" /\ tab.shown = "none" /\ Calm(tab) =>
               LET c == tab'.calls["save"] IN
                 /\ c.op = "lock" => text'.vis = "PUBLIC" /\ (c.at = "ok" => c.got.vis = "PUBLIC")
                 /\ c.at = "required" => text'.vis = "PUBLIC"
    BY <1>5 DEF DraftInv
  <2>2. \A f \in {"poll", "take", "beat"} : Idle(tab, f) => tab'.calls[f].at = "idle"
    BY <1>5 DEF Idle
  <2>3. QED
    BY <1>2, <1>5, <2>1, <2>2
<1>6. CASE Leaves
  <2>1. \A f \in {"poll", "take", "beat", "save"} : tab'.calls[f] = tab.calls[f]
    BY <1>6, FlowsAre DEF Leaves, Answers, OtherCalls
  <2>2. QED
    BY <1>5, <1>6, <2>1 DEF Leaves, Answers, SameLock
<1>7. CASE Releases
  BY <1>5, <1>7 DEF Releases
<1>8. CASE Expires \/ Removed \/ Meddles
  <2>1. Aside /\ text'.vis = text.vis
    BY <1>8 DEF Expires, Removed, Meddles
  <2>2. QED
    BY <1>5, <2>1 DEF Aside, SameLock
<1>9. CASE tab'.page = "dead"
  BY <1>9 DEF DraftInv
<1>10. QED
  BY <1>3, <1>4, <1>6, <1>7, <1>8, <1>9 DEF RemoteShape, Forgotten

\* The note was loaded.
LEMMA DraftOfLoaded ==
  ASSUME IBase, DraftInv(tab), NEW expired \in BOOLEAN, LoadAnswered(expired)
  PROVE  DraftInv(tab)'
<1> DEFINE t == Done(tab, "load")
           a == tab.calls["load"]
           other == HeldByOther("load", expired)
<1>1. tab \in Tab /\ BaseInv(tab) /\ a \in Call /\ other \in BOOLEAN /\ UNCHANGED <<serverVars, typed>>
  BY BackFacts, FlowsAre DEF LoadAnswered
<1>2. (~t.touched /\ tab' = ApplyServer(t, a, other)) \/ tab' = t
  BY DEF LoadAnswered
<1>3. t \in Tab /\ DraftInv(t) /\ BaseInv(t) /\ SameView(tab, t) /\ SameEdit(tab, t)
  BY <1>1, DoneFacts, DraftOfDone, BaseOfDone, FlowsAre
<1> HIDE DEF t, a, other
<1>4. CASE ~t.touched /\ tab' = ApplyServer(t, a, other)
  <2>1. t.page = "open" => GivenUp(t)
    BY <1>3, <1>4, NothingTyped DEF BaseInv, PageFits
  <2>2. t.page = "open" /\ Calm(t) => Idle(t, "poll") \/ t.shown \notin {"none", "mine"}
    BY <1>3 DEF DraftInv
  <2>3. DraftInv(tab')
    BY <1>1, <1>3, <1>4, <2>1, <2>2, DraftOfApplied
  <2>4. QED
    BY <1>1, <2>3, DraftAlone
<1>5. QED
  BY <1>1, <1>2, <1>3, <1>4, DraftAlone

\* The poll is answered.
LEMMA DraftOfPolled ==
  ASSUME IBase, DraftInv(tab), NEW expired \in BOOLEAN, PollAnswered(expired)
  PROVE  DraftInv(tab)'
<1> DEFINE d == Done(tab, "poll")
           a == tab.calls["poll"]
           other == HeldByOther("poll", expired)
           t == OnRefresh(d, a, other)
           next == IF other THEN "locked" ELSE "available"
           u == Transition(t, next)
           s == StopTimers(d)
<1>1. /\ tab \in Tab /\ a \in Call /\ other \in BOOLEAN /\ UNCHANGED <<serverVars, typed>>
      /\ ~Idle(tab, "poll")
  BY BackFacts, FlowsAre DEF PollAnswered
<1>2. tab' = u \/ tab' = s \/ tab' = d
  BY DEF PollAnswered
<1>3. /\ d \in Tab /\ DraftInv(d) /\ SameView(tab, d) /\ SameEdit(tab, d) /\ SameLock(tab, d)
      /\ d.mishaps = tab.mishaps
  BY <1>1, DoneFacts, DraftOfDone, FlowsAre
<1>4. d.page = "open" /\ Calm(d) => GivenUp(d) /\ d.shown \notin {"mine", "none"}
  <2>1. tab.page = "open" /\ Calm(tab) => GivenUp(tab) /\ tab.shown \notin {"mine", "none"}
    BY <1>1 DEF DraftInv
  <2>2. QED
    BY <1>3, <2>1 DEF Calm, Quiet, GivenUp, SameView, SameEdit, SameLock
<1>5. next \in {"locked", "available"} /\ next \in LockStatus
  BY DEF LockStatus
<1>6. t = IF d.shown # "mine" THEN ApplyServer(d, a, other) ELSE d
  BY DEF OnRefresh
<1> HIDE DEF d, a, other, next, t
<1>7. t \in Tab /\ SameView(d, t) /\ d.mishaps \subseteq t.mishaps /\ t.told = d.told
  <2>1. CASE t = d
    BY <1>3, <2>1 DEF SameView
  <2>2. CASE t = ApplyServer(d, a, other)
    BY <1>1, <1>3, <2>2, AppliedFacts DEF SameWork
  <2>3. QED
    BY <1>6, <2>1, <2>2
<1>8. /\ u \in Tab /\ SameView(t, u) /\ SameEdit(t, u) /\ SameCalls(t, u)
      /\ u.shown = IF t.page = "open" THEN next ELSE t.shown
  BY <1>5, <1>7, TransitionFacts
<1>9. /\ s \in Tab /\ SameView(d, s) /\ SameEdit(d, s) /\ SameCalls(d, s) /\ s.shown = d.shown
  BY <1>3, TimersFacts
<1> HIDE DEF u, s
<1>10. DraftInv(u)
  <2>1. u.page = "open" /\ Calm(u) => d.page = "open" /\ Calm(d)
    BY <1>7, <1>8, CalmKept DEF SameView, SameCalls
  <2>2. u.page = "open" /\ Calm(u) => GivenUp(u) /\ u.shown \in {"locked", "available"}
    BY <1>4, <1>5, <1>7, <1>8, <2>1 DEF GivenUp, SameView, SameEdit
  <2>3. QED
    BY <1>8, <2>2, DraftGiven
<1>11. DraftInv(s)
  <2>1. s.page = "open" /\ Calm(s) => d.page = "open" /\ Calm(d)
    BY <1>9, CalmKept DEF SameView, SameCalls
  <2>2. s.page = "open" /\ Calm(s) => GivenUp(s) /\ s.shown \notin {"mine", "none"}
    BY <1>4, <1>9, <2>1 DEF GivenUp, SameEdit
  <2>3. QED
    BY <1>9, <2>2, DraftGiven
<1>12. QED
  BY <1>1, <1>2, <1>3, <1>10, <1>11, DraftAlone

\* The taking of the lock is answered.
LEMMA DraftOfTaken ==
  ASSUME IBase, DraftInv(tab), TakeAnswered
  PROVE  DraftInv(tab)'
<1> DEFINE d == Done(tab, "take")
           a == tab.calls["take"]
           q == Acquired(d, a)
           n == NotAcquired(d, a.at = "held")
<1>1. /\ tab \in Tab /\ a \in Call /\ ~Idle(tab, "take")
      /\ tab.page = "open" => tab.note # None
      /\ UNCHANGED <<serverVars, typed>>
  BY BackFacts, FlowsAre DEF TakeAnswered
<1>2. tab' = q \/ tab' = n
  BY DEF TakeAnswered
<1>3. /\ d \in Tab /\ SameView(tab, d) /\ SameEdit(tab, d) /\ SameLock(tab, d)
      /\ d.mishaps = tab.mishaps /\ DraftInv(d)
  BY <1>1, DoneFacts, DraftOfDone, FlowsAre
<1>4. /\ d.page = "open" => d.note # None
      /\ d.page = "open" /\ Calm(d) => d.shown # "none"
  BY <1>1, <1>3 DEF DraftInv, Calm, Quiet, SameView, SameLock
<1>5. (a.at = "held") \in BOOLEAN
  OBVIOUS
<1> HIDE DEF d, a
<1>6. DraftInv(q)
  BY <1>1, <1>3, <1>4, DraftOfAcquired
<1>7. DraftInv(n)
  BY <1>3, <1>4, <1>5, DraftOfNotAcquired
<1>8. QED
  BY <1>1, <1>2, <1>6, <1>7, DraftAlone

\* The answer to the last save of a closed editor.
LEMMA LastAnswered ==
  ASSUME IBase, SaveAnswered("last")
  PROVE  /\ tab' \in Tab /\ tab.page = "closed" /\ tab'.page = "closed" /\ tab'.told = tab.told
         /\ tab.mishaps \subseteq tab'.mishaps /\ UNCHANGED <<serverVars, typed>>
<1> DEFINE a == tab.calls["last"]
           mine == Acquired(tab, a)
           doc == [mine.draft EXCEPT !.vis = a.sent.vis]
           noted == IF tab.leaving = "close" THEN tab ELSE SetNote(tab, a, a.taken)
           Fine(t) == t \in Tab /\ t.page = "closed" /\ t.told = tab.told /\ tab.mishaps \subseteq t.mishaps
<1>1. /\ tab \in Tab /\ typed \in Nat /\ a \in Call /\ tab.page = "closed"
      /\ UNCHANGED <<serverVars, typed>>
  BY BackFacts, FlowsAre DEF SaveAnswered
<1>2. a.sent \in Doc /\ a.taken \in BOOLEAN /\ a.sent.vis \in {"PRIVATE", "PUBLIC"}
  BY <1>1 DEF Call, Doc
<1>3. \/ tab' = Settle(noted, "last", TRUE) \/ tab' = Settle(tab, "last", FALSE)
      \/ tab' = Send(tab, "last", "lock", a.sent) \/ tab' = Send(mine, "last", "retry", doc)
      \/ tab' = Settle(EnterConflict(tab), "last", TRUE)
  BY SavedCases
<1> HIDE DEF a
<1>4. Fine(noted)
  <2>1. LET v == SetNote(tab, a, a.taken) IN
        v \in Tab /\ SameView(tab, v) /\ SameEdit(tab, v) /\ tab.mishaps \subseteq v.mishaps
    BY <1>1, <1>2, SetNoteFacts
  <2>2. QED
    BY <1>1, <2>1 DEF SameView, SameEdit
<1>5. Fine(EnterConflict(tab))
  <2>1. LET c == EnterConflict(tab) IN
        /\ c \in Tab /\ SameView(tab, c) /\ SameCalls(tab, c)
        /\ c.told = IF tab.page = "open" THEN tab.told \cup 1..typed ELSE tab.told
    BY <1>1, ConflictFacts
  <2>2. QED
    BY <1>1, <2>1 DEF SameView, SameCalls
<1>6. Fine(mine)
  <2>1. /\ mine \in Tab /\ SameView(tab, mine) /\ SameWork(tab, mine) /\ tab.mishaps \subseteq mine.mishaps
    BY <1>1, AcquiredFacts
  <2>2. QED
    BY <1>1, <2>1 DEF SameView, SameWork
<1> HIDE DEF noted, mine
<1>7. doc \in Doc
  <2>1. mine.draft \in Doc
    BY <1>6 DEF Tab
  <2>2. QED
    BY <1>2, <2>1, DraftTypes
<1> HIDE DEF doc
<1>8. ASSUME NEW t, Fine(t), NEW ok \in BOOLEAN PROVE Fine(Settle(t, "last", ok))
  <2>1. Settle(t, "last", ok) = Done(t, "last") /\ t \in Tab
    BY <1>8, SettleFacts
  <2>2. LET u == Done(t, "last") IN
        u \in Tab /\ SameView(t, u) /\ SameEdit(t, u) /\ u.mishaps = t.mishaps
    BY <2>1, DoneFacts, FlowsAre
  <2>3. QED
    BY <1>8, <2>1, <2>2 DEF SameView, SameEdit
<1>9. ASSUME NEW t, Fine(t), NEW op \in {"lock", "retry"}, NEW d \in Doc PROVE Fine(Send(t, "last", op, d))
  <2>1. "last" \in Flows /\ op \in {"get", "lock", "patch", "retry", "archive", "delete"} /\ t \in Tab
    BY <1>9, FlowsAre
  <2>2. LET u == Send(t, "last", op, d) IN
        u \in Tab /\ SameView(t, u) /\ SameEdit(t, u) /\ u.mishaps = t.mishaps
    BY <2>1, SendFacts
  <2>3. QED
    BY <1>9, <2>2 DEF SameView, SameEdit
<1>10. Fine(tab)
  BY <1>1
<1>11. Fine(tab')
  <2> HIDE DEF Fine
  <2>1. CASE tab' = Settle(noted, "last", TRUE)
    BY <1>4, <1>8, <2>1
  <2>2. CASE tab' = Settle(tab, "last", FALSE)
    BY <1>10, <1>8, <2>2
  <2>3. CASE tab' = Settle(EnterConflict(tab), "last", TRUE)
    BY <1>5, <1>8, <2>3
  <2>4. CASE tab' = Send(tab, "last", "lock", a.sent)
    BY <1>2, <1>9, <1>10, <2>4
  <2>5. CASE tab' = Send(mine, "last", "retry", doc)
    BY <1>6, <1>7, <1>9, <2>5
  <2>6. QED
    BY <1>3, <2>1, <2>2, <2>3, <2>4, <2>5
<1>12. QED
  BY <1>1, <1>11

\* A save is answered.
LEMMA DraftOfSaved ==
  ASSUME IBase, DraftInv(tab), SaveAnswered("save")
  PROVE  DraftInv(tab)'
<1> DEFINE a == tab.calls["save"]
           mine == Acquired(tab, a)
           doc == [mine.draft EXCEPT !.vis = a.sent.vis]
           noted == IF tab.leaving = "close" THEN tab ELSE SetNote(tab, a, a.taken)
<1>1. /\ tab \in Tab /\ typed \in Nat /\ a \in Call /\ (tab.page = "open" => tab.note # None)
      /\ UNCHANGED <<serverVars, typed>>
  BY BackFacts, FlowsAre DEF SaveAnswered
<1>2. a.sent \in Doc /\ a.taken \in BOOLEAN /\ a.sent.vis \in {"PRIVATE", "PUBLIC"}
  BY <1>1 DEF Call, Doc
<1>3. tab.page = "open" /\ Calm(tab) /\ tab.shown = "none" =>
        /\ tab.note = "PRIVATE"
        /\ a.op = "lock" => text.vis = "PUBLIC" /\ (a.at = "ok" => a.got.vis = "PUBLIC")
        /\ a.at = "required" => text.vis = "PUBLIC"
  BY DEF DraftInv
<1> HIDE DEF a
<1>4. CASE tab' = Settle(noted, "save", TRUE)
  <2>1. DraftInv(noted) /\ noted \in Tab
    BY <1>1, <1>2, DraftOfSetNote, SetNoteFacts
  <2>2. DraftInv(tab')
    BY <1>4, <2>1, DraftOfSettled
  <2>3. QED
    BY <1>1, <2>2, DraftAlone
<1>5. CASE tab' = Settle(tab, "save", FALSE)
  BY <1>1, <1>5, DraftOfSettled, DraftAlone
<1>6. CASE a.at = "required" /\ tab' = Send(tab, "save", "lock", a.sent)
  BY <1>1, <1>2, <1>3, <1>6, DraftOfSend, DraftAlone
<1>7. CASE a.op = "lock" /\ a.at = "ok" /\ tab' = Send(mine, "save", "retry", doc)
  <2>1. tab.page = "open" /\ Calm(tab) /\ tab.shown = "none" => a.got.vis # tab.note
    BY <1>3, <1>7
  <2>2. DraftInv(mine) /\ mine \in Tab
    BY <1>1, <2>1, DraftOfAcquired, AcquiredFacts
  <2> HIDE DEF mine
  <2>3. mine.draft \in Doc
    BY <2>2 DEF Tab
  <2>4. doc \in Doc
    BY <1>2, <2>3, DraftTypes
  <2> HIDE DEF doc
  <2>5. DraftInv(tab')
    BY <1>7, <2>2, <2>4, DraftOfSend
  <2>6. QED
    BY <1>1, <2>5, DraftAlone
<1>8. CASE tab' = Settle(EnterConflict(tab), "save", TRUE)
  <2>1. DraftInv(EnterConflict(tab)) /\ EnterConflict(tab) \in Tab
    BY <1>1, DraftOfConflict, ConflictFacts
  <2>2. DraftInv(tab')
    BY <1>8, <2>1, DraftOfSettled
  <2>3. QED
    BY <1>1, <2>2, DraftAlone
<1>9. QED
  BY <1>4, <1>5, <1>6, <1>7, <1>8, SavedCases DEF a

\* The answer that takes the editor away, or is only noted.
LEMMA LeaveSteps ==
  ASSUME IBase, LeaveAnswered
  PROVE  /\ UNCHANGED <<serverVars, typed>>
         /\ \/ tab' = Done(tab, "leave")
            \/ tab.page = "open" /\ MemberLeaves(tab, tab')
<1> DEFINE d == Done(tab, "leave")
           n == NotingIf(d, d.dirty \/ Busy(d), "hurry")
<1>1. tab \in Tab
  BY DEF IBase, TypeOK
<1>2. /\ tab' = d \/ (tab' = Unmount(n) /\ tab.page = "open")
      /\ UNCHANGED <<serverVars, typed>>
  BY DEF LeaveAnswered, Mounted
<1>3. /\ d \in Tab /\ SameView(tab, d) /\ SameEdit(tab, d) /\ SameLock(tab, d)
      /\ d.mishaps = tab.mishaps /\ OtherCalls(tab, d, "leave")
  BY <1>1, DoneFacts, FlowsAre
<1>4. tab' = d => tab' = Done(tab, "leave")
  OBVIOUS
<1> HIDE DEF d
<1>5. (d.dirty \/ Busy(d)) \in BOOLEAN /\ "hurry" \in Mishaps
  BY <1>3 DEF Busy, Idle, Tab, Mishaps
<1>6. /\ n \in Tab /\ SameView(d, n) /\ SameEdit(d, n) /\ SameLock(d, n)
      /\ n.calls = d.calls /\ d.mishaps \subseteq n.mishaps
      /\ d.dirty \/ Busy(d) => "hurry" \in n.mishaps
  BY <1>3, <1>5, NotingIfFacts
<1> HIDE DEF n
<1>7. CASE tab' = Unmount(n) /\ tab.page = "open"
  <2>1. Left(n, tab')
    BY <1>6, <1>7, UnmountFacts
  <2>2. SameView(tab, n) /\ SameEdit(tab, n) /\ SameLock(tab, n)
    BY <1>3, <1>6 DEF SameView, SameEdit, SameLock
  <2>3. \A f \in Flows \ {"leave"} : tab.calls[f] = n.calls[f]
    BY <1>3, <1>6 DEF OtherCalls
  <2>4. tab.dirty \/ tab.saving => "hurry" \in n.mishaps
    BY <1>3, <1>6 DEF Busy, SameEdit
  <2>5. MemberLeaves(tab, tab')
    BY <1>1, <1>3, <1>6, <1>7, <2>1, <2>2, <2>3, <2>4, LeftByHaste
  <2>6. QED
    BY <1>2, <1>7, <2>5
<1>8. QED
  BY <1>2, <1>4, <1>7

\* Every answer that reaches the editor keeps the draft.
LEMMA DraftOfAnswered ==
  ASSUME IBase, DraftInv(tab), Answered
  PROVE  DraftInv(tab)'
<1>1. tab \in Tab /\ typed \in Nat
  BY DEF IBase, TypeOK
<1>2. ASSUME NEW expired \in BOOLEAN, LoadAnswered(expired) \/ PollAnswered(expired)
      PROVE  DraftInv(tab)'
  BY <1>2, DraftOfLoaded, DraftOfPolled
<1>3. CASE BeatAnswered
  <2> DEFINE d == Done(tab, "beat")
  <2>1. /\ tab' = EnterConflict(d) \/ tab' = d
        /\ UNCHANGED <<serverVars, typed>>
    BY <1>3 DEF BeatAnswered
  <2>2. d \in Tab /\ DraftInv(d)
    BY <1>1, DoneFacts, DraftOfDone, FlowsAre
  <2> HIDE DEF d
  <2>3. QED
    BY <1>1, <2>1, <2>2, DraftOfConflict, DraftAlone
<1>4. CASE TakeAnswered
  BY <1>4, DraftOfTaken
<1>5. CASE SaveAnswered("save")
  BY <1>5, DraftOfSaved
<1>6. CASE SaveAnswered("last")
  BY <1>6, LastAnswered, DraftClosed, DraftAlone
<1>7. CASE LeaveAnswered
  <2>1. CASE tab' = Done(tab, "leave")
    BY <1>1, <1>7, <2>1, LeaveSteps, DraftOfDone, DraftAlone, FlowsAre
  <2>2. CASE MemberLeaves(tab, tab')
    BY <1>7, <2>2, LeaveSteps, DraftClosed, DraftAlone DEF MemberLeaves, Left
  <2>3. QED
    BY <1>7, <2>1, <2>2, LeaveSteps
<1>8. QED
  BY <1>2, <1>3, <1>4, <1>5, <1>6, <1>7 DEF Answered, LoadOrPollAnswered

\* Nothing is typed at first.
LEMMA DraftOfInit == Init => DraftInv(tab)
<1> SUFFICES ASSUME Init PROVE DraftInv(tab)
  OBVIOUS
<1>1. PICK t : Opened(t) /\ (tab = t \/ Started(t, tab))
  BY InitFacts
<1>2. /\ \A f \in {"take", "beat", "poll", "save"} : t.calls[f].at = "idle" /\ t.calls[f].op = "none"
      /\ t.page = "open" /\ t.shown = "pending" /\ t \in Tab
  BY <1>1, FlowsAre, NoCallIdle DEF Opened
<1>3. typed = 0 /\ text.vis \in {"PRIVATE", "PUBLIC"}
  BY InitFacts DEF Doc
<1>4. \A u : GivenUp(u) /\ KeptIn(u, u.draft)
  BY <1>3 DEF GivenUp, KeptIn
<1>5. CASE tab = t
  BY <1>2, <1>4, <1>5 DEF DraftInv
<1>6. CASE Started(t, tab)
  <2>1. /\ tab.shown = "none" => tab.note = "PRIVATE" /\ tab.calls = t.calls
        /\ tab.shown # "mine"
        /\ tab.shown \in {"none", "locked", "pending"}
    <3>1. tab.note = text.vis /\ tab.shown = tab.status
      BY <1>6 DEF Started
    <3>2. CASE text.vis = "PRIVATE"
      BY <1>6, <3>1, <3>2 DEF Started
    <3>3. CASE text.vis = "PUBLIC"
      BY <1>6, <3>1, <3>3 DEF Started
    <3>4. QED
      BY <1>3, <3>2, <3>3
  <2>2. QED
    BY <1>2, <1>4, <2>1 DEF DraftInv, Idle
<1>7. QED
  BY <1>1, <1>5, <1>6

\* Every step keeps the draft invariant.
LEMMA DraftStep ==
  ASSUME IBase, DraftInv(tab), [Next]_vars
  PROVE  DraftInv(tab)'
<1>1. CASE Member \/ Timers
  BY <1>1, DraftOfMember
<1>2. CASE Answered
  BY <1>2, DraftOfAnswered
<1>3. CASE Server \/ Network \/ Others
  BY <1>3, RemoteSteps, DraftOfRemote DEF IBase
<1>4. CASE UNCHANGED vars
  <2>1. tab' = tab /\ UNCHANGED <<serverVars, typed>>
    BY <1>4 DEF vars, serverVars
  <2>2. DraftInv(tab')
    BY <2>1
  <2>3. QED
    BY <2>1, <2>2, DraftAlone
<1>5. QED
  BY <1>1, <1>2, <1>3, <1>4 DEF Next

(***************************************************************************)
(* While the editor is open, everything typed into it is in its draft, or  *)
(* its member has been told that it is lost (NoteEditor.tsx,               *)
(* useAutosave.ts, useNoteLock.ts): whatever is answered, refused or       *)
(* lost in between, except after the mishaps that the property names.      *)
(***************************************************************************)
THEOREM NothingTypedIsLost == Spec => []KeystrokesKept
<1>1. Init => IBase /\ DraftInv(tab)
  BY BaseOfInit, DraftOfInit
<1>2. IBase /\ DraftInv(tab) /\ [Next]_vars => IBase' /\ DraftInv(tab)'
  BY BaseStep, DraftStep
<1>3. IBase /\ DraftInv(tab) => KeystrokesKept
  BY DEF DraftInv, Calm, Quiet, KeptIn, KeystrokesKept, Kept, Mounted, Unless
<1>4. QED
  BY <1>1, <1>2, <1>3, PTL DEF Spec

(***************************************************************************)
(* What is shown as saved is at the server, and so is what was typed into  *)
(* an editor that is closed.                                               *)
(***************************************************************************)

\* With nothing left to save, the text at the server has every keystroke, or
\* the save that is on its way does.
SaveInv(t) ==
    t.page = "open" /\ Calm(t) /\ ~t.dirty =>
      /\ ~t.saving => KeptIn(t, text)
      /\ LET c == t.calls["save"] IN
           c.op \in {"patch", "retry"} =>
             /\ c.at = "sent" => KeptIn(t, c.sent)
             /\ c.at = "ok" => KeptIn(t, text)

\* So it has when the editor was left in peace.
ClosedSavedInv(t) ==
    t.page = "closed" /\ LeaveQuiet(t) /\ Calm(t) /\ row = "live" => KeptIn(t, text)

\* What is saved is saved, in an open editor and behind a closed one.
KeepInv(t) == SaveInv(t) /\ ClosedSavedInv(t)

\* What the argument about saves rests on.
EBase == IBase /\ LeaveInv(tab) /\ DraftInv(tab)

\* The server's part is not touched.
LEMMA KeepAlone ==
  ASSUME KeepInv(tab'), UNCHANGED <<serverVars, typed>>
  PROVE  KeepInv(tab)'
BY DEF serverVars, KeepInv, SaveInv, ClosedSavedInv, LeaveQuiet, Calm, Quiet, KeptIn

\* Nothing is asked after the visibility has changed under the session.
LEMMA KeepExcused ==
  ASSUME NEW u, "flip" \in u.mishaps
  PROVE  KeepInv(u)
BY DEF KeepInv, SaveInv, ClosedSavedInv, Calm, Quiet

\* Nothing that a save is made of changes.
LEMMA KeepKept ==
  ASSUME NEW t, NEW u, KeepInv(t), u.page = t.page, t.mishaps \subseteq u.mishaps,
         u.dirty = t.dirty, u.saving = t.saving, t.told \subseteq u.told,
         u.calls["save"] = t.calls["save"]
  PROVE  KeepInv(u)
<1>1. (Calm(u) => Calm(t)) /\ (LeaveQuiet(u) => LeaveQuiet(t))
  BY CalmKept, QuietKept DEF LeaveQuiet
<1>2. \A where : KeptIn(t, where) => KeptIn(u, where)
  BY DEF KeptIn
<1>3. SaveInv(u)
  BY <1>1, <1>2 DEF KeepInv, SaveInv
<1>4. ClosedSavedInv(u)
  BY <1>1, <1>2 DEF KeepInv, ClosedSavedInv
<1>5. QED
  BY <1>3, <1>4 DEF KeepInv

\* A call is over.
LEMMA KeepOfDone ==
  ASSUME NEW t \in Tab, NEW f \in Flows, f # "save", KeepInv(t)
  PROVE  KeepInv(Done(t, f))
<1> DEFINE u == Done(t, f)
<1>1. /\ u \in Tab /\ SameView(t, u) /\ SameEdit(t, u) /\ u.mishaps = t.mishaps
      /\ OtherCalls(t, u, f)
  BY DoneFacts
<1> HIDE DEF u
<1>2. u.calls["save"] = t.calls["save"]
  BY <1>1, FlowsAre DEF OtherCalls
<1>3. KeepInv(u)
  BY <1>1, <1>2, KeepKept DEF SameView, SameEdit
<1>4. QED
  BY <1>3 DEF u

\* The note is known, or known anew.
LEMMA KeepOfSetNote ==
  ASSUME NEW t \in Tab, KeepInv(t), NEW a \in Call, NEW other \in BOOLEAN,
         t.page = "open" => t.note # None
  PROVE  KeepInv(SetNote(t, a, other))
<1> DEFINE u == SetNote(t, a, other)
<1>1. /\ t.page # "open" \/ t.note = a.got.vis => u = t
      /\ t.page = "open" /\ t.note # a.got.vis /\ t.note # None => "flip" \in u.mishaps
  BY SetNoteFacts
<1> HIDE DEF u
<1>2. CASE u = t
  BY <1>2 DEF u
<1>3. CASE "flip" \in u.mishaps
  BY <1>3, KeepExcused DEF u
<1>4. QED
  BY <1>1, <1>2, <1>3

\* A save that is over has saved what was not typed since.
LEMMA KeepOfSettled ==
  ASSUME NEW t \in Tab, WaitInv(t), LeavingFits(t), NEW ok \in BOOLEAN,
         t.page # "dead",
         t.page = "closed" => ~LeaveQuiet(t),
         t.page = "open" /\ LeaveQuiet(t) /\ ~ok => row = "gone",
         t.page = "open" /\ Calm(t) /\ ~t.dirty /\ ok => KeptIn(t, text)
  PROVE  KeepInv(Settle(t, "save", ok))
<1> DEFINE e == Ended(t, ok)
           u == Resume(e)
<1>1. Settle(t, "save", ok) = u
  BY SettleFacts
<1>2. /\ e \in Tab /\ SameView(t, e) /\ e.mishaps = t.mishaps /\ e.told = t.told
      /\ e.leaving = t.leaving /\ ~e.saving /\ e.dirty = (t.dirty \/ ~ok)
      /\ e.calls["save"].op = "none"
  BY EndedFacts
<1> HIDE DEF e
<1>3. /\ u \in Tab
      /\ e.leaving = "no" => u = e
      /\ e.leaving = "close" => Left(e, u)
      /\ e.leaving = "archive" => Archives(e, u)
      /\ e.leaving \in {"no", "close", "archive"}
  BY <1>2, ResumeFacts DEF Tab
<1> HIDE DEF u
<1>4. (Calm(e) <=> Calm(t)) /\ (LeaveQuiet(e) <=> LeaveQuiet(t)) /\ e.page = t.page
      /\ \A where : KeptIn(e, where) <=> KeptIn(t, where)
  BY <1>2 DEF Calm, LeaveQuiet, Quiet, KeptIn, SameView
<1>5. e.page = "open" /\ Calm(e) /\ ~e.dirty => KeptIn(e, text)
  <2>1. ~e.dirty => ~t.dirty /\ ok
    BY <1>2
  <2>2. QED
    BY <1>4, <2>1
<1>6. KeepInv(e)
  <2>1. SaveInv(e)
    BY <1>2, <1>5 DEF SaveInv
  <2>2. ClosedSavedInv(e)
    BY <1>4 DEF ClosedSavedInv
  <2>3. QED
    BY <2>1, <2>2 DEF KeepInv
<1>7. CASE t.leaving = "close"
  <2>1. Left(e, u) /\ t.page = "open"
    BY <1>2, <1>3, <1>7 DEF LeavingFits
  <2>2. /\ u.page = "closed" /\ u.told = e.told /\ e.mishaps \subseteq u.mishaps
    BY <2>1 DEF Left
  <2>3. (LeaveQuiet(u) => LeaveQuiet(t)) /\ (Calm(u) => Calm(t))
    BY <1>2, <2>2, QuietKept, CalmKept DEF LeaveQuiet
  <2>4. LeaveQuiet(u) => ~t.dirty
    BY <1>7, <2>1, <2>3 DEF WaitInv
  <2>5. LeaveQuiet(u) /\ Calm(u) /\ row = "live" => KeptIn(t, text)
    BY <2>1, <2>3, <2>4
  <2>6. KeepInv(u)
    BY <1>2, <2>2, <2>5 DEF KeepInv, SaveInv, ClosedSavedInv, KeptIn
  <2>7. QED
    BY <1>1, <2>6
<1>8. CASE t.leaving = "archive"
  <2>1. Archives(e, u)
    BY <1>2, <1>3, <1>8
  <2>2. /\ u.page = e.page /\ u.mishaps = e.mishaps /\ u.told = e.told
        /\ u.dirty = e.dirty /\ u.saving = e.saving /\ u.calls["save"] = e.calls["save"]
    BY <2>1, FlowsAre DEF Archives, SameView, OtherCalls
  <2>3. KeepInv(u)
    BY <1>6, <2>2, KeepKept
  <2>4. QED
    BY <1>1, <2>3
<1>9. QED
  BY <1>1, <1>2, <1>3, <1>6, <1>7, <1>8

\* Who may not type has nothing to lose.
LEMMA NotEditable ==
  ASSUME NEW t \in Tab, DraftInv(t), BaseInv(t), t.page = "open", Calm(t), ~Editable(t)
  PROVE  GivenUp(t)
<1>1. CASE t.note = None
  BY <1>1, NothingTyped DEF BaseInv, Loading
<1>2. CASE t.shown \notin {"none", "mine"}
  BY <1>2 DEF DraftInv
<1>3. QED
  BY <1>1, <1>2 DEF Editable

\* Work with one keystroke more is unsaved, and known to be.
LEMMA KeepOfTyped ==
  ASSUME EBase, KeepInv(tab), Typed(tab, tab'), tab.page = "open" \/ tab.armed, UNCHANGED serverVars
  PROVE  KeepInv(tab)'
<1>0. tab \in Tab /\ typed \in Nat /\ DraftInv(tab) /\ ClosedInv(tab) /\ BaseInv(tab)
  BY DEF EBase, IBase, TypeOK, LeaveInv
<1>1. /\ tab' \in Tab /\ tab'.page = tab.page /\ tab'.told = tab.told
      /\ tab.mishaps \subseteq tab'.mishaps
      /\ \/ tab'.calls["save"] = tab.calls["save"] /\ tab'.saving = tab.saving
         \/ /\ ~tab.saving /\ tab'.saving
            /\ SentCall(tab', "save", "patch", tab'.draft)
      /\ ~tab'.dirty /\ tab'.saving = tab.saving => ~tab.dirty \/ (~tab.saving /\ ~Editable(tab))
      /\ typed' = typed \/ (Editable(tab) /\ (tab'.dirty \/ tab'.saving # tab.saving))
  BY DEF Typed, Works, Typing
<1>2. text' = text
  BY DEF serverVars
<1>3. DraftInv(tab)'
  BY <1>0, DraftOfTyped
<1>4. SaveInv(tab)'
  <2> SUFFICES ASSUME tab'.page = "open", Calm(tab'), ~tab'.dirty PROVE SaveInv(tab)'
    BY DEF SaveInv, Calm, Quiet
  <2>1. tab.page = "open" /\ Calm(tab)
    BY <1>1, CalmKept
  <2>2. CASE tab'.calls["save"] = tab.calls["save"] /\ tab'.saving = tab.saving
    <3>1. typed' = typed
      BY <1>1, <2>2
    <3>2. CASE ~tab.dirty
      BY <1>1, <1>2, <2>1, <2>2, <3>1, <3>2 DEF KeepInv, SaveInv, KeptIn
    <3>3. CASE ~tab.saving /\ ~Editable(tab)
      <4>1. GivenUp(tab)
        BY <1>0, <2>1, <3>3, NotEditable
      <4>2. \A where : KeptIn(tab, where)'
        BY <1>1, <3>1, <4>1 DEF GivenUp, KeptIn
      <4>3. KeptIn(tab, text)' /\ KeptIn(tab, tab.calls["save"].sent)'
        BY <1>1, <3>1, <4>1 DEF GivenUp, KeptIn
      <4>4. QED
        BY <4>3 DEF SaveInv
    <3>4. QED
      BY <1>1, <2>2, <3>2, <3>3
  <2>3. CASE tab'.saving /\ SentCall(tab', "save", "patch", tab'.draft)
    <3>1. KeptIn(tab, tab.draft)'
      BY <1>3, <2>1, <1>1 DEF DraftInv, Calm, Quiet
    <3>2. /\ tab'.calls["save"].sent = tab'.draft /\ tab'.calls["save"].at = "sent"
      BY <2>3 DEF SentCall
    <3>3. KeptIn(tab, tab.calls["save"].sent)'
      BY <3>1, <3>2 DEF KeptIn
    <3>4. QED
      BY <2>3, <3>2, <3>3 DEF SaveInv
  <2>4. QED
    BY <1>1, <2>2, <2>3
<1>5. ClosedSavedInv(tab)'
  <2> SUFFICES ASSUME tab'.page = "closed", LeaveQuiet(tab') PROVE ClosedSavedInv(tab)'
    BY DEF ClosedSavedInv, LeaveQuiet, Quiet
  <2>1. LeaveQuiet(tab) /\ tab.page = "closed"
    BY <1>1, QuietKept DEF LeaveQuiet
  <2>2. QED
    BY <1>0, <2>1 DEF ClosedInv
<1>6. QED
  BY <1>4, <1>5 DEF KeepInv

\* Who leaves in peace has saved.
LEMMA KeepOfLeaving ==
  ASSUME EBase, KeepInv(tab), tab.page = "open", MemberLeaves(tab, tab'), UNCHANGED <<serverVars, typed>>
  PROVE  KeepInv(tab)'
<1>0. tab \in Tab /\ DraftInv(tab) /\ BaseInv(tab)
  BY DEF EBase, IBase, TypeOK
<1>1. PICK w \in Tab :
        /\ Left(w, tab') /\ w.told = tab.told /\ tab.mishaps \subseteq w.mishaps
        /\ LeaveQuiet(tab') => ~tab.saving /\ (tab.dirty => ~Editable(tab))
  BY DEF MemberLeaves
<1>2. tab'.page = "closed" /\ tab'.told = tab.told /\ tab.mishaps \subseteq tab'.mishaps
  BY <1>1 DEF Left
<1>3. LeaveQuiet(tab') /\ Calm(tab') => KeptIn(tab, text)
  <2> SUFFICES ASSUME LeaveQuiet(tab'), Calm(tab') PROVE KeptIn(tab, text)
    OBVIOUS
  <2>1. Calm(tab)
    BY <1>2, CalmKept
  <2>2. CASE ~tab.dirty
    BY <1>1, <2>1, <2>2 DEF KeepInv, SaveInv
  <2>3. CASE ~Editable(tab)
    BY <1>0, <2>1, <2>3, NotEditable, GivenIsKept
  <2>4. QED
    BY <1>1, <2>2, <2>3
<1>4. KeepInv(tab')
  BY <1>2, <1>3 DEF KeepInv, SaveInv, ClosedSavedInv, KeptIn
<1>5. QED
  BY <1>4, KeepAlone

\* The member and the timers keep what is saved.
LEMMA KeepOfMember ==
  ASSUME EBase, KeepInv(tab), Member \/ Timers
  PROVE  KeepInv(tab)'
<1>1. tab \in Tab /\ TypeOK /\ BaseInv(tab)
  BY DEF EBase, IBase, TypeOK
<1>2. CASE Member \/ TimerFires
  <2>1. MemberShape /\ UNCHANGED serverVars
    BY <1>1, <1>2, MemberSteps
  <2>2. CASE Typed(tab, tab') /\ (tab.page = "open" \/ tab.armed)
    BY <2>1, <2>2, KeepOfTyped
  <2>3. CASE typed' = typed /\ tab.page = "open" /\ MemberLeaves(tab, tab')
    BY <2>1, <2>3, KeepOfLeaving
  <2>4. CASE typed' = typed /\ tab'.page = "dead"
    BY <2>4 DEF KeepInv, SaveInv, ClosedSavedInv
  <2>5. CASE typed' = typed /\ (TakesOver(tab, tab') \/ ReadsOnly(tab, tab'))
    <3>1. /\ SameView(tab, tab') /\ SameEdit(tab, tab') /\ tab.mishaps \subseteq tab'.mishaps
          /\ tab'.calls["save"] = tab.calls["save"]
      BY <2>5, FlowsAre DEF TakesOver, ReadsOnly, OtherCalls
    <3>2. KeepInv(tab')
      BY <3>1, KeepKept DEF SameView, SameEdit
    <3>3. QED
      BY <2>1, <2>5, <3>2, KeepAlone
  <2>6. QED
    BY <2>1, <2>2, <2>3, <2>4, <2>5 DEF MemberShape, Closes
<1>3. CASE HeartbeatTick \/ PollTick
  <2>1. (Beats(tab, tab') \/ Polls(tab, tab')) /\ UNCHANGED <<serverVars, typed>>
    BY <1>1, <1>3, TickSteps
  <2>2. /\ SameView(tab, tab') /\ SameEdit(tab, tab') /\ tab'.mishaps = tab.mishaps
        /\ tab'.calls["save"] = tab.calls["save"]
    BY <2>1, FlowsAre DEF Beats, Polls, OtherCalls
  <2>3. KeepInv(tab')
    BY <2>2, KeepKept DEF SameView, SameEdit
  <2>4. QED
    BY <2>1, <2>3, KeepAlone
<1>4. QED
  BY <1>2, <1>3 DEF Timers

\* So do the server, the network and the others. Whatever else such a step
\* does: the calls that save are as they were, or are answered and have
\* written what they sent.
LEMMA KeepOfRemote ==
  ASSUME EBase, KeepInv(tab), RemoteShape, typed' = typed
  PROVE  KeepInv(tab)'
<1>1. /\ tab \in Tab /\ BaseInv(tab) /\ ClosedInv(tab)
  BY DEF EBase, IBase, TypeOK, LeaveInv

\* Whatever else the step does: the calls that save are as they were, or are
\* answered and have written what they sent.
<1>2. ASSUME tab' \in Tab, SameView(tab, tab'), SameEdit(tab, tab'), tab.mishaps \subseteq tab'.mishaps,
             row' = row \/ row' = "gone",
             LET c == tab.calls["save"]
                 d == tab'.calls["save"] IN
             \/ d = c /\ text'.mine = text.mine
             \/ d.op = c.op /\ d.at \notin {"sent", "ok"} /\ text'.mine = text.mine
             \/ d.op \notin {"patch", "retry"} /\ text'.mine = text.mine
             \/ c.op \in {"patch", "retry"} /\ c.at = "sent" /\ text'.mine = c.sent.mine
                /\ d.at # "sent" /\ tab.page # "closed" /\ tab.saving
             \/ tab.page = "closed" /\ ~LeaveQuiet(tab)
      PROVE  KeepInv(tab)'
  <2>1. (Calm(tab') => Calm(tab)) /\ (LeaveQuiet(tab') => LeaveQuiet(tab))
    BY <1>2, CalmKept, QuietKept DEF LeaveQuiet
  <2>2. SaveInv(tab)'
    <3> SUFFICES ASSUME tab'.page = "open", Calm(tab'), ~tab'.dirty PROVE SaveInv(tab)'
      BY DEF SaveInv, Calm, Quiet
    <3>1. tab.page = "open" /\ Calm(tab) /\ ~tab.dirty /\ tab'.told = tab.told /\ tab'.saving = tab.saving
      BY <1>2, <2>1 DEF SameView, SameEdit
    <3>2. /\ ~tab.saving => KeptIn(tab, text)
          /\ tab.calls["save"].op \in {"patch", "retry"} =>
               /\ tab.calls["save"].at = "sent" => KeptIn(tab, tab.calls["save"].sent)
               /\ tab.calls["save"].at = "ok" => KeptIn(tab, text)
      BY <3>1 DEF KeepInv, SaveInv
    <3>3. CASE text'.mine = text.mine
      <4>1. KeptIn(tab, text) => KeptIn(tab, text)'
        BY <3>1, <3>3 DEF KeptIn
      <4>2. CASE tab'.calls["save"] = tab.calls["save"]
        <5>1. KeptIn(tab, tab.calls["save"].sent) => KeptIn(tab, tab.calls["save"].sent)'
          BY <3>1, <4>2 DEF KeptIn
        <5>2. QED
          BY <3>1, <3>2, <4>1, <4>2, <5>1 DEF SaveInv
      <4>3. CASE tab'.calls["save"].at \notin {"sent", "ok"}
        BY <3>1, <3>2, <4>1, <4>3 DEF SaveInv
      <4>4. CASE tab'.calls["save"].op \notin {"patch", "retry"}
        BY <3>1, <3>2, <4>1, <4>4 DEF SaveInv
      <4>5. CASE /\ tab.calls["save"].op \in {"patch", "retry"} /\ tab.calls["save"].at = "sent"
                 /\ text'.mine = tab.calls["save"].sent.mine /\ tab'.calls["save"].at # "sent"
        <5>1. KeptIn(tab, text)'
          BY <3>1, <3>2, <4>5 DEF KeptIn
        <5>2. QED
          BY <4>5, <5>1 DEF SaveInv
      <4>6. QED
        BY <1>2, <3>1, <4>2, <4>3, <4>4, <4>5
    <3>4. CASE text'.mine # text.mine
      <4>1. /\ tab.calls["save"].op \in {"patch", "retry"} /\ tab.calls["save"].at = "sent"
            /\ text'.mine = tab.calls["save"].sent.mine /\ tab'.calls["save"].at # "sent"
        BY <1>2, <3>1, <3>4
      <4>2. KeptIn(tab, text)'
        BY <3>1, <3>2, <4>1 DEF KeptIn
      <4>3. QED
        BY <4>1, <4>2 DEF SaveInv
    <3>5. QED
      BY <3>3, <3>4
  <2>3. ClosedSavedInv(tab)'
    <3> SUFFICES ASSUME tab'.page = "closed", LeaveQuiet(tab'), Calm(tab'), row' = "live"
                 PROVE  ClosedSavedInv(tab)'
      BY DEF ClosedSavedInv, Calm, LeaveQuiet, Quiet
    <3>1. tab.page = "closed" /\ LeaveQuiet(tab) /\ Calm(tab) /\ row = "live" /\ tab'.told = tab.told
      BY <1>2, <2>1 DEF SameView, SameEdit
    <3>2. text'.mine = text.mine /\ KeptIn(tab, text)
      BY <1>2, <3>1 DEF KeepInv, ClosedSavedInv
    <3>3. KeptIn(tab, text)'
      BY <3>1, <3>2 DEF KeptIn
    <3>4. QED
      BY <3>3 DEF ClosedSavedInv
  <2>4. QED
    BY <2>2, <2>3 DEF KeepInv
<1>3. ASSUME NEW f \in Flows, AnswersGone(f) \/ AnswersText(f) \/ Grants(f) \/ Refuses(f)
      PROVE  KeepInv(tab)'
  <2>1. /\ tab' \in Tab /\ SameView(tab, tab') /\ SameEdit(tab, tab')
        /\ tab'.mishaps = tab.mishaps /\ OtherCalls(tab, tab', f)
        /\ tab'.calls[f].op = tab.calls[f].op /\ row' = row /\ text' = text
    BY <1>3 DEF AnswersGone, AnswersText, Grants, Refuses, Answers, serverVars
  <2>2. CASE f # "save"
    <3>1. tab'.calls["save"] = tab.calls["save"]
      BY <2>1, <2>2, FlowsAre DEF OtherCalls
    <3>2. QED
      BY <1>2, <2>1, <3>1
  <2>3. CASE f = "save"
    <3>1. tab'.calls["save"].at \notin {"sent", "ok"} \/ tab'.calls["save"].op \notin {"patch", "retry"}
      BY <1>3, <2>1, <2>3 DEF AnswersGone, AnswersText, Grants, Refuses, Answers
    <3>2. QED
      BY <1>2, <2>1, <2>3, <3>1
  <2>4. QED
    BY <2>2, <2>3
<1>4. ASSUME NEW f \in Flows, Writes(f) PROVE KeepInv(tab)'
  <2>1. /\ tab' \in Tab /\ SameView(tab, tab') /\ SameEdit(tab, tab') /\ Alive
        /\ tab'.mishaps = tab.mishaps /\ tab'.calls[f].at = "ok" /\ Sent(f)
        /\ tab.calls[f].op \in {"patch", "retry"} /\ row = "live" /\ row' = row
        /\ text' = Written(tab.calls[f].sent)
    BY <1>4 DEF Writes, Answers
  <2>2. CASE f = "save"
    <3>1. tab.saving
      <4>1. tab.saving \in BOOLEAN
        BY <1>1 DEF Tab
      <4>2. QED
        BY <1>1, <2>1, <2>2, <4>1 DEF BaseInv, SavingFits, Alive, Sent, Idle
    <3>2. text'.mine = tab.calls["save"].sent.mine
      <4>1. tab.calls[f].sent \in Doc /\ text'.vis \in {"PRIVATE", "PUBLIC"}
        BY <1>1, <1>4 DEF Tab, Call, Writes, Doc
      <4>2. QED
        BY <2>1, <2>2, <4>1 DEF Written, Doc
    <3>3. tab.page = "closed" => ~LeaveQuiet(tab)
      BY <1>1, <3>1 DEF ClosedInv
    <3>4. QED
      BY <1>2, <2>1, <2>2, <3>1, <3>2, <3>3 DEF Sent
  <2>3. CASE f # "save"
    <3>1. f = "last"
      <4>1. CallFits(tab, f)
        BY <1>1 DEF BaseInv, CallsFit
      <4>2. QED
        BY <2>1, <2>3, <4>1 DEF CallFits, Ops, Flows
    <3>2. tab.page = "closed" /\ ~LeaveQuiet(tab)
      <4>1. ~Idle(tab, "last") /\ tab.page \in {"open", "closed", "dead"}
        BY <1>1, <2>1, <3>1 DEF Sent, Idle, Tab
      <4>2. QED
        BY <1>1, <2>1, <4>1 DEF BaseInv, PageFits, ClosedInv, Alive
    <3>3. QED
      BY <1>2, <2>1, <3>2
  <2>4. QED
    BY <2>2, <2>3
<1>5. ASSUME NEW f \in Flows, Loses(f) PROVE KeepInv(tab)'
  <2>1. /\ tab' \in Tab /\ SameView(tab, tab') /\ SameEdit(tab, tab') /\ tab.mishaps \subseteq tab'.mishaps
        /\ OtherCalls(tab, tab', f) /\ tab'.calls[f].op = tab.calls[f].op /\ tab'.calls[f].at = "error"
        /\ row' = row /\ text' = text
    BY <1>5 DEF Loses, serverVars
  <2>2. CASE f # "save"
    <3>1. tab'.calls["save"] = tab.calls["save"]
      BY <2>1, <2>2, FlowsAre DEF OtherCalls
    <3>2. QED
      BY <1>2, <2>1, <3>1
  <2>3. CASE f = "save"
    BY <1>2, <2>1, <2>3
  <2>4. QED
    BY <2>2, <2>3
<1>6. CASE Leaves
  <2>1. tab'.calls["save"] = tab.calls["save"]
    BY <1>6, FlowsAre DEF Leaves, Answers, OtherCalls
  <2>2. QED
    BY <1>2, <1>6, <2>1 DEF Leaves, Answers
<1>7. CASE Releases
  BY <1>2, <1>7 DEF Releases
<1>8. CASE Expires \/ Removed \/ Meddles
  <2>1. Aside /\ text'.mine = text.mine /\ (row' = row \/ row' = "gone")
    BY <1>8 DEF Expires, Removed, Meddles
  <2>2. QED
    BY <1>2, <2>1 DEF Aside
<1>9. CASE tab'.page = "dead"
  BY <1>9 DEF KeepInv, SaveInv, ClosedSavedInv
<1>10. QED
  BY <1>3, <1>4, <1>5, <1>6, <1>7, <1>8, <1>9 DEF RemoteShape, Forgotten

\* A save is answered.
LEMMA KeepOfSaved ==
  ASSUME EBase, KeepInv(tab), SaveAnswered("save")
  PROVE  KeepInv(tab)'
<1> DEFINE a == tab.calls["save"]
           mine == Acquired(tab, a)
           doc == [mine.draft EXCEPT !.vis = a.sent.vis]
           noted == IF tab.leaving = "close" THEN tab ELSE SetNote(tab, a, a.taken)
<1>1. /\ tab \in Tab /\ typed \in Nat /\ a \in Call /\ (tab.page = "open" => tab.note # None)
      /\ CallFits(tab, "save") /\ tab.page # "dead" /\ tab.saving /\ LeavingFits(tab) /\ DraftInv(tab)
      /\ WaitInv(tab) /\ ClosedInv(tab) /\ UNCHANGED <<serverVars, typed>>
  BY BackFacts, FlowsAre DEF SaveAnswered, Alive, EBase, LeaveInv
<1>2. a.sent \in Doc /\ a.taken \in BOOLEAN /\ a.sent.vis \in {"PRIVATE", "PUBLIC"}
  BY <1>1 DEF Call, Doc
<1>3. tab.page = "closed" => ~LeaveQuiet(tab)
  BY <1>1 DEF ClosedInv
<1>4. tab.page = "open" /\ LeaveQuiet(tab) /\ a.at \in {"gone", "error"} => row = "gone"
  BY <1>1 DEF CallFits, LeaveQuiet, Quiet
<1>5. tab.page = "open" /\ Calm(tab) /\ ~tab.dirty /\ a.op \in {"patch", "retry"} /\ a.at = "ok"
        => KeptIn(tab, text)
  BY DEF KeepInv, SaveInv
<1>6. tab.page = "open" /\ Calm(tab) /\ tab.shown = "none" => tab.note = "PRIVATE" /\ (a.op = "lock" /\ a.at = "ok" => a.got.vis = "PUBLIC")
  BY <1>1 DEF DraftInv
<1> HIDE DEF a
<1>7. CASE a.op \in {"patch", "retry"} /\ a.at = "ok" /\ tab' = Settle(noted, "save", TRUE)
  <2>1. CASE noted = tab
    <3>1. KeepInv(tab')
      BY <1>1, <1>3, <1>5, <1>7, <2>1, KeepOfSettled
    <3>2. QED
      BY <1>1, <3>1, KeepAlone
  <2>2. CASE noted # tab
    <3> DEFINE v == SetNote(tab, a, a.taken)
    <3>1. noted = v /\ v # tab
      BY <2>2
    <3>2. /\ v \in Tab /\ SameView(tab, v) /\ SameEdit(tab, v) /\ tab.mishaps \subseteq v.mishaps
          /\ tab.page # "open" \/ tab.note = a.got.vis => v = tab
          /\ tab.page = "open" /\ tab.note # a.got.vis /\ tab.note # None => "flip" \in v.mishaps
      BY <1>1, <1>2, SetNoteFacts
    <3> HIDE DEF v
    <3>3. "flip" \in v.mishaps /\ tab.page = "open"
      BY <1>1, <3>1, <3>2
    <3>4. ~LeaveQuiet(v) /\ ~Calm(v)
      BY <3>3 DEF LeaveQuiet, Calm, Quiet
    <3>5. WaitInv(v) /\ LeavingFits(v) /\ v.page = "open"
      BY <1>1, <3>2, <3>3, <3>4 DEF WaitInv, LeavingFits, SameView, SameEdit
    <3>6. KeepInv(Settle(v, "save", TRUE))
      BY <3>2, <3>4, <3>5, KeepOfSettled
    <3>7. KeepInv(tab')
      BY <1>7, <3>1, <3>6
    <3>8. QED
      BY <1>1, <3>7, KeepAlone
  <2>3. QED
    BY <2>1, <2>2
<1>8. CASE a.at \in {"gone", "error"} /\ tab' = Settle(tab, "save", FALSE)
  <2>1. KeepInv(tab')
    BY <1>1, <1>3, <1>4, <1>8, KeepOfSettled
  <2>2. QED
    BY <1>1, <2>1, KeepAlone
<1>9. ASSUME NEW t \in Tab, NEW op \in {"lock", "retry"}, NEW d \in Doc, tab' = Send(t, "save", op, d),
             t.saving, t.page = "closed" => ~LeaveQuiet(t),
             op = "retry" /\ t.page = "open" /\ Calm(t) => KeptIn(t, d)
      PROVE  KeepInv(tab)'
  <2>1. /\ tab' \in Tab /\ SameView(t, tab') /\ SameEdit(t, tab') /\ tab'.mishaps = t.mishaps
        /\ SentCall(tab', "save", op, d)
    <3>1. "save" \in Flows /\ op \in {"get", "lock", "patch", "retry", "archive", "delete"}
      BY FlowsAre
    <3>2. QED
      BY <1>9, <3>1, SendFacts
  <2>2. SaveInv(tab')
    BY <1>9, <2>1 DEF SaveInv, KeptIn, SentCall, SameView, SameEdit, Calm, Quiet
  <2>3. ClosedSavedInv(tab')
    BY <1>9, <2>1 DEF ClosedSavedInv, LeaveQuiet, Quiet, SameView
  <2>4. KeepInv(tab')
    BY <2>2, <2>3 DEF KeepInv
  <2>5. QED
    BY <1>1, <2>4, KeepAlone
<1>10. CASE tab' = Send(tab, "save", "lock", a.sent)
  BY <1>1, <1>2, <1>3, <1>9, <1>10
<1>11. CASE a.op = "lock" /\ a.at = "ok" /\ tab' = Send(mine, "save", "retry", doc)
  <2>1. /\ mine \in Tab /\ SameView(tab, mine) /\ SameWork(tab, mine) /\ tab.mishaps \subseteq mine.mishaps
    BY <1>1, AcquiredFacts
  <2>2. DraftInv(mine)
    <3>1. tab.page = "open" /\ Calm(tab) /\ tab.shown = "none" => a.got.vis # tab.note
      BY <1>6, <1>11
    <3>2. QED
      BY <1>1, <3>1, DraftOfAcquired
  <2> HIDE DEF mine
  <2>3. mine.draft \in Doc
    BY <2>1 DEF Tab
  <2>4. doc \in Doc /\ doc.mine = mine.draft.mine
    BY <1>2, <2>3, DraftTypes DEF Doc
  <2> HIDE DEF doc
  <2>5. mine.page = "open" /\ Calm(mine) => KeptIn(mine, doc)
    BY <2>2, <2>4 DEF DraftInv, KeptIn
  <2>6. mine.saving /\ (mine.page = "closed" => ~LeaveQuiet(mine))
    BY <1>1, <1>3, <2>1, QuietKept DEF LeaveQuiet, SameView, SameWork
  <2>7. QED
    BY <1>9, <1>11, <2>1, <2>4, <2>5, <2>6
<1>12. CASE /\ a.op = "lock" \/ a.at \notin {"gone", "error"}
            /\ tab' = Settle(EnterConflict(tab), "save", TRUE)
  <2> DEFINE c == EnterConflict(tab)
  <2>1. /\ c \in Tab /\ SameView(tab, c) /\ SameCalls(tab, c)
        /\ c.dirty = tab.dirty /\ c.saving = tab.saving /\ c.leaving = tab.leaving
        /\ c.told = IF tab.page = "open" THEN tab.told \cup 1..typed ELSE tab.told
    BY <1>1, ConflictFacts
  <2>2. tab' = Settle(c, "save", TRUE)
    BY <1>12
  <2> HIDE DEF c
  <2>3. c.page = "open" => KeptIn(c, text)
    BY <2>1 DEF KeptIn, SameView
  <2>4. WaitInv(c) /\ LeavingFits(c) /\ c.page # "dead" /\ (c.page = "closed" => ~LeaveQuiet(c))
    BY <1>1, <1>3, <2>1 DEF WaitInv, LeavingFits, LeaveQuiet, Quiet, SameView, SameCalls
  <2>5. KeepInv(tab')
    BY <2>1, <2>2, <2>3, <2>4, KeepOfSettled
  <2>6. QED
    BY <1>1, <2>5, KeepAlone
<1>13. QED
  BY <1>7, <1>8, <1>10, <1>11, <1>12, SavedCases DEF a

\* What the answers other than a save's leave of the edits.
SameSaves(t, u) ==
    /\ u \in Tab /\ u.page = t.page /\ t.mishaps \subseteq u.mishaps
    /\ u.dirty = t.dirty /\ u.saving = t.saving /\ t.told \subseteq u.told
    /\ u.calls["save"] = t.calls["save"]

\* A call that is no save is over, ...
LEMMA SavesOfDone ==
  ASSUME NEW t \in Tab, NEW f \in Flows, f # "save"
  PROVE  SameSaves(t, Done(t, f))
<1>1. LET u == Done(t, f) IN
      /\ u \in Tab /\ SameView(t, u) /\ SameEdit(t, u) /\ u.mishaps = t.mishaps /\ OtherCalls(t, u, f)
  BY DoneFacts
<1>2. QED
  BY <1>1, FlowsAre DEF SameSaves, SameView, SameEdit, OtherCalls

\* ... a text is rendered, ...
LEMMA SavesOfApplied ==
  ASSUME NEW t \in Tab, NEW a \in Call, NEW other \in BOOLEAN
  PROVE  SameSaves(t, ApplyServer(t, a, other))
<1>1. LET u == ApplyServer(t, a, other) IN
      /\ u \in Tab /\ SameView(t, u) /\ SameWork(t, u) /\ t.mishaps \subseteq u.mishaps
      /\ OtherCalls(t, u, "take")
  BY AppliedFacts
<1>2. QED
  BY <1>1, FlowsAre DEF SameSaves, SameView, SameWork, OtherCalls

\* ... and one after the other.
LEMMA SavesOn ==
  ASSUME NEW t, NEW u, NEW v, SameSaves(t, u), SameSaves(u, v)
  PROVE  SameSaves(t, v)
BY DEF SameSaves

\* The answers that are not a save's leave the saves alone, or have the loss
\* told.
LEMMA SavesOfAnswered ==
  ASSUME IBase, LoadOrPollAnswered \/ BeatAnswered \/ TakeAnswered
  PROVE  SameSaves(tab, tab') /\ UNCHANGED <<serverVars, typed>>
<1>1. tab \in Tab /\ typed \in Nat
  BY DEF IBase, TypeOK
<1>2. \A f \in Flows : tab.calls[f] \in Call
  BY <1>1 DEF Tab
<1>3. ASSUME NEW expired \in BOOLEAN, LoadAnswered(expired)
      PROVE  SameSaves(tab, tab') /\ UNCHANGED <<serverVars, typed>>
  <2> DEFINE t == Done(tab, "load")
             a == tab.calls["load"]
             other == HeldByOther("load", expired)
  <2>1. (tab' = ApplyServer(t, a, other) \/ tab' = t) /\ UNCHANGED <<serverVars, typed>>
    BY <1>3 DEF LoadAnswered
  <2>2. a \in Call /\ other \in BOOLEAN
    BY <1>2, FlowsAre DEF HeldByOther, Call
  <2>3. SameSaves(tab, t) /\ t \in Tab
    BY <1>1, SavesOfDone, FlowsAre DEF SameSaves
  <2> HIDE DEF t, a, other
  <2>4. SameSaves(t, ApplyServer(t, a, other))
    BY <2>2, <2>3, SavesOfApplied
  <2>5. QED
    BY <2>1, <2>3, <2>4, SavesOn
<1>4. ASSUME NEW expired \in BOOLEAN, PollAnswered(expired)
      PROVE  SameSaves(tab, tab') /\ UNCHANGED <<serverVars, typed>>
  <2> DEFINE d == Done(tab, "poll")
             a == tab.calls["poll"]
             other == HeldByOther("poll", expired)
             t == OnRefresh(d, a, other)
             next == IF other THEN "locked" ELSE "available"
  <2>1. /\ tab' = Transition(t, next) \/ tab' = StopTimers(d) \/ tab' = d
        /\ UNCHANGED <<serverVars, typed>>
    BY <1>4 DEF PollAnswered
  <2>2. a \in Call /\ other \in BOOLEAN
    BY <1>2, FlowsAre DEF HeldByOther, Call
  <2>3. SameSaves(tab, d) /\ d \in Tab
    BY <1>1, SavesOfDone, FlowsAre DEF SameSaves
  <2>4. t = ApplyServer(d, a, other) \/ t = d
    BY DEF OnRefresh
  <2>5. next \in LockStatus
    BY DEF LockStatus
  <2> HIDE DEF d, a, other, t, next
  <2>6. SameSaves(d, ApplyServer(d, a, other))
    BY <2>2, <2>3, SavesOfApplied
  <2>7. SameSaves(tab, t) /\ t \in Tab
    BY <2>3, <2>4, <2>6, SavesOn DEF SameSaves
  <2>8. LET u == Transition(t, next) IN u \in Tab /\ SameView(t, u) /\ SameEdit(t, u) /\ SameCalls(t, u)
    BY <2>5, <2>7, TransitionFacts
  <2>9. SameSaves(t, Transition(t, next))
    BY <2>8 DEF SameSaves, SameView, SameEdit, SameCalls
  <2>10. LET u == StopTimers(d) IN u \in Tab /\ SameView(d, u) /\ SameEdit(d, u) /\ SameCalls(d, u)
    BY <2>3, TimersFacts
  <2>11. SameSaves(d, StopTimers(d))
    BY <2>10 DEF SameSaves, SameView, SameEdit, SameCalls
  <2>12. QED
    BY <2>1, <2>3, <2>7, <2>9, <2>11, SavesOn
<1>5. CASE BeatAnswered
  <2> DEFINE d == Done(tab, "beat")
  <2>1. (tab' = EnterConflict(d) \/ tab' = d) /\ UNCHANGED <<serverVars, typed>>
    BY <1>5 DEF BeatAnswered
  <2>2. SameSaves(tab, d) /\ d \in Tab
    BY <1>1, SavesOfDone, FlowsAre DEF SameSaves
  <2> HIDE DEF d
  <2>3. LET u == EnterConflict(d) IN
        /\ u \in Tab /\ SameView(d, u) /\ SameCalls(d, u) /\ u.dirty = d.dirty /\ u.saving = d.saving
        /\ u.told = IF d.page = "open" THEN d.told \cup 1..typed ELSE d.told
    BY <1>1, <2>2, ConflictFacts
  <2>4. SameSaves(d, EnterConflict(d))
    BY <2>3 DEF SameSaves, SameView, SameCalls
  <2>5. QED
    BY <2>1, <2>2, <2>4, SavesOn
<1>6. CASE TakeAnswered
  <2> DEFINE d == Done(tab, "take")
             a == tab.calls["take"]
             held == a.at = "held"
  <2>1. (tab' = Acquired(d, a) \/ tab' = NotAcquired(d, held)) /\ UNCHANGED <<serverVars, typed>>
    BY <1>6 DEF TakeAnswered
  <2>2. SameSaves(tab, d) /\ d \in Tab /\ a \in Call /\ held \in BOOLEAN
    BY <1>1, <1>2, SavesOfDone, FlowsAre DEF SameSaves
  <2> HIDE DEF d, a, held
  <2>3. LET u == Acquired(d, a) IN
        /\ u \in Tab /\ SameView(d, u) /\ SameWork(d, u) /\ OtherCalls(d, u, "take")
        /\ d.mishaps \subseteq u.mishaps
    BY <2>2, AcquiredFacts
  <2>4. SameSaves(d, Acquired(d, a))
    BY <2>3, FlowsAre DEF SameSaves, SameView, SameWork, OtherCalls
  <2>5. LET u == NotAcquired(d, held) IN
        u \in Tab /\ SameView(d, u) /\ SameEdit(d, u) /\ u.calls = d.calls /\ d.mishaps \subseteq u.mishaps
    BY <2>2, NotAcquiredFacts
  <2>6. SameSaves(d, NotAcquired(d, held))
    BY <2>5 DEF SameSaves, SameView, SameEdit
  <2>7. QED
    BY <2>1, <2>2, <2>4, <2>6, SavesOn
<1>7. QED
  BY <1>3, <1>4, <1>5, <1>6 DEF LoadOrPollAnswered

\* Every answer keeps what is saved.
LEMMA KeepOfAnswered ==
  ASSUME EBase, KeepInv(tab), Answered
  PROVE  KeepInv(tab)'
<1>1. tab \in Tab /\ IBase
  BY DEF EBase, IBase, TypeOK
<1>2. CASE LoadOrPollAnswered \/ BeatAnswered \/ TakeAnswered
  <2>1. SameSaves(tab, tab') /\ UNCHANGED <<serverVars, typed>>
    BY <1>1, <1>2, SavesOfAnswered
  <2>2. KeepInv(tab')
    BY <2>1, KeepKept DEF SameSaves
  <2>3. QED
    BY <2>1, <2>2, KeepAlone
<1>3. CASE SaveAnswered("save")
  BY <1>3, KeepOfSaved
<1>4. CASE SaveAnswered("last")
  <2>1. /\ tab' \in Tab /\ tab.page = "closed" /\ tab'.page = "closed" /\ tab'.told = tab.told
        /\ tab.mishaps \subseteq tab'.mishaps /\ UNCHANGED <<serverVars, typed>>
    BY <1>1, <1>4, LastAnswered
  <2>2. (Calm(tab') => Calm(tab)) /\ (LeaveQuiet(tab') => LeaveQuiet(tab))
    BY <2>1, CalmKept, QuietKept DEF LeaveQuiet
  <2>3. KeepInv(tab')
    BY <2>1, <2>2 DEF KeepInv, SaveInv, ClosedSavedInv, KeptIn
  <2>4. QED
    BY <2>1, <2>3, KeepAlone
<1>5. CASE LeaveAnswered
  <2>1. CASE tab' = Done(tab, "leave")
    BY <1>1, <1>5, <2>1, LeaveSteps, KeepOfDone, KeepAlone, FlowsAre
  <2>2. CASE tab.page = "open" /\ MemberLeaves(tab, tab')
    BY <1>1, <1>5, <2>2, LeaveSteps, KeepOfLeaving
  <2>3. QED
    BY <1>1, <1>5, <2>1, <2>2, LeaveSteps
<1>6. QED
  BY <1>2, <1>3, <1>4, <1>5 DEF Answered

\* Nothing was typed at first.
LEMMA KeepOfInit == Init => KeepInv(tab)
<1> SUFFICES ASSUME Init PROVE KeepInv(tab)
  OBVIOUS
<1>1. typed = 0
  BY InitFacts
<1>2. \A where : KeptIn(tab, where)
  BY <1>1 DEF KeptIn
<1>3. QED
  BY <1>2 DEF KeepInv, SaveInv, ClosedSavedInv

\* Every step keeps what is saved.
LEMMA KeepStep ==
  ASSUME EBase, KeepInv(tab), [Next]_vars
  PROVE  KeepInv(tab)'
<1>1. CASE Member \/ Timers
  BY <1>1, KeepOfMember
<1>2. CASE Answered
  BY <1>2, KeepOfAnswered
<1>3. CASE Server \/ Network \/ Others
  BY <1>3, RemoteSteps, KeepOfRemote DEF EBase, IBase
<1>4. CASE UNCHANGED vars
  <2>1. tab' = tab /\ UNCHANGED <<serverVars, typed>>
    BY <1>4 DEF vars, serverVars
  <2>2. KeepInv(tab')
    BY <2>1
  <2>3. QED
    BY <2>1, <2>2, KeepAlone
<1>5. QED
  BY <1>1, <1>2, <1>3, <1>4 DEF Next

\* The inductive invariant of the editor's edits.
EInv == EBase /\ KeepInv(tab)

\* It holds throughout.
LEMMA EInvKept == Spec => []EInv
<1>1. Init => EInv
  BY BaseOfInit, LeaveOfInit, DraftOfInit, KeepOfInit DEF EInv, EBase
<1>2. EInv /\ [Next]_vars => EInv'
  BY BaseStep, LeaveStep, DraftStep, KeepStep DEF EInv, EBase
<1>3. QED
  BY <1>1, <1>2, PTL DEF Spec

(***************************************************************************)
(* What the editor shows as saved is at the server, or its member was told *)
(* that it is lost (useAutosave.ts: neither dirty nor saving), except      *)
(* after the mishaps that the property names.                              *)
(***************************************************************************)
THEOREM SavedIsSaved == Spec => []SavedMeansSaved
<1>1. EInv => SavedMeansSaved
  BY DEF EInv, KeepInv, SaveInv, Calm, Quiet, KeptIn, SavedMeansSaved, Saved, Kept, Rendered, Mounted, Unless
<1>2. QED
  BY <1>1, EInvKept, PTL

(***************************************************************************)
(* Once the editor is closed, everything typed is in the note, or was told *)
(* to be lost (NoteEditor.tsx flushes before it closes), unless it was     *)
(* closed in a hurry, a call failed, or one of the other mishaps that the  *)
(* property names came first.                                              *)
(***************************************************************************)
THEOREM ClosedIsSaved == Spec => []ClosedMeansSaved
<1>1. EInv => ClosedMeansSaved
  BY DEF EInv, KeepInv, ClosedSavedInv, LeaveQuiet, Calm, Quiet, KeptIn, ClosedMeansSaved, Kept, Unless
<1>2. QED
  BY <1>1, EInvKept, PTL

(***************************************************************************)
(* What the others have written is not taken back.                         *)
(***************************************************************************)

\* Nothing has happened that brings an old text back.
Current(t) == Quiet(t, {"lapse", "stale seed", "flip", "stale poll"})

\* What the editor has of the others comes from the row, where nobody takes
\* back what they wrote.
FromRow(t) ==
    /\ t.draft.theirs \subseteq text.theirs
    /\ \A f \in Flows : /\ t.calls[f].got.theirs \subseteq text.theirs
                        /\ t.calls[f].sent.theirs \subseteq text.theirs

\* The editor of a public note writes only while it is shown as having the
\* lock, and since it has it, it has read all there is.
Shared(t) ==
    LET c == t.calls["save"] IN
    /\ t.shown # "none"
    /\ t.shown = "mine" =>
         Idle(t, "take") /\ Idle(t, "poll") /\ text.theirs \subseteq t.draft.theirs
    /\ Granted(t, "take") => text.theirs \subseteq t.calls["take"].got.theirs
    /\ ~Idle(t, "beat") => t.shown = "mine" /\ t.calls["beat"].at \notin {"held", "required"}
    /\ ~Idle(t, "save") =>
         /\ t.shown = "mine" /\ c.op = "patch" /\ c.at \notin {"held", "required"}
         /\ c.at = "sent" => text.theirs \subseteq c.sent.theirs

\* The editor of a note that is not public, or not known yet, asks for no
\* lock, ...
Unshared(t) ==
    /\ Idle(t, "take") /\ Idle(t, "beat")
    /\ text.vis = "PRIVATE" /\ t.calls["load"].at = "ok" =>
         text.theirs \subseteq t.calls["load"].got.theirs
    /\ t.note = None => ~Holds(Me)

\* ... and has all there is as long as the note is private in the row, too.
\* Once it is public there, a save is refused for want of a lock: the one
\* that takes the lock learns of the change, and so does a poll.
Owned(t) ==
    LET c == t.calls["save"] IN
    /\ t.shown \in {"none", "conflict", "locked"}
    /\ t.calls["poll"].at = "ok" => t.calls["poll"].got.vis = "PUBLIC"
    /\ text.vis = "PRIVATE" => text.theirs \subseteq t.draft.theirs
    /\ t.shown # "none" => text.vis = "PUBLIC" /\ Idle(t, "save")
    /\ t.shown = "none" =>
         /\ Idle(t, "poll")
         /\ c.op # "retry"
         /\ c.op = "lock" => text.vis = "PUBLIC" /\ (c.at = "ok" => c.got.vis = "PUBLIC")
         /\ c.op # "lock" => ~Holds(Me)
         /\ c.at \in {"held", "required"} => text.vis = "PUBLIC"
         /\ c.op = "patch" /\ c.at = "sent" /\ text.vis = "PRIVATE" =>
              text.theirs \subseteq c.sent.theirs

\* The editor knows enough to overwrite nothing.
Informed(t) ==
    /\ FromRow(t)
    /\ row = "live" =>
         /\ t.note = "PUBLIC" => Shared(t)
         /\ t.note # "PUBLIC" => Unshared(t)
         /\ t.note = "PRIVATE" => Owned(t)

\* An open editor is informed; a tab that was closed was closed in a hurry.
OverInv(t) ==
    /\ t.page = "dead" => "hurry" \in t.mishaps
    /\ t.page = "open" /\ Current(t) => Informed(t)

\* The empty text has nothing of anybody.
LEMMA NoDocTheirs == NoDoc.theirs = {} /\ NoCall.got.theirs = {} /\ NoCall.sent.theirs = {}
BY DEF NoDoc, NoCall

\* An open editor was informed before, if nothing brought an old text back.
LEMMA OverFrom ==
  ASSUME NEW t \in Tab, NEW u \in Tab, OverInv(t), u.page = t.page, t.mishaps \subseteq u.mishaps,
         t.page = "open" /\ Current(t) /\ Current(u) /\ Informed(t) => Informed(u)
  PROVE  OverInv(u)
<1>1. Current(u) => Current(t)
  BY DEF Current, Quiet
<1>2. QED
  BY <1>1 DEF OverInv

\* Nothing is asked once an old text may have come back, ...
LEMMA OverExcused ==
  ASSUME NEW t \in Tab, NEW u \in Tab, OverInv(t), u.page = t.page, t.mishaps \subseteq u.mishaps,
         t.page = "open" => "flip" \in u.mishaps
  PROVE  OverInv(u)
BY DEF OverInv, Current, Quiet

\* ... or of an editor that is closed.
LEMMA OverClosed ==
  ASSUME NEW u, u.page = "closed"
  PROVE  OverInv(u)
BY DEF OverInv

\* The server's part is not touched.
LEMMA OverAlone ==
  ASSUME OverInv(tab'), UNCHANGED serverVars
  PROVE  OverInv(tab)'
BY DEF serverVars, OverInv, Current, Quiet, Informed, FromRow, Shared, Unshared, Owned, Idle, Granted, Holds

\* An editor of which nothing changes that matters, but calls that are over.
LEMMA InformedKept ==
  ASSUME NEW t \in Tab, NEW u \in Tab, Informed(t), u.note = t.note, u.shown = t.shown,
         u.draft.theirs = t.draft.theirs,
         \A f \in Flows : u.calls[f] = t.calls[f] \/ u.calls[f] = NoCall,
         \/ u.calls["save"] = t.calls["save"]
         \/ row = "live" /\ t.note = "PRIVATE" /\ t.shown = "none" => t.calls["save"].op # "lock"
  PROVE  Informed(u)
<1>1. /\ NoCall.got.theirs = {} /\ NoCall.sent.theirs = {}
      /\ NoCall.op = "none" /\ NoCall.at = "idle"
  BY NoDocTheirs, NoCallIdle
<1>2. FromRow(u)
  BY <1>1 DEF Informed, FromRow
<1>3. \A f \in Flows : Idle(t, f) => Idle(u, f)
  BY <1>1 DEF Idle
<1>4. ASSUME row = "live", t.note = "PUBLIC" PROVE Shared(u)
  <2>1. Shared(t)
    BY <1>4 DEF Informed
  <2>2. u.shown = "mine" => Idle(u, "take") /\ Idle(u, "poll") /\ text.theirs \subseteq u.draft.theirs
    BY <1>3, <2>1, FlowsAre DEF Shared
  <2>3. Granted(u, "take") => text.theirs \subseteq u.calls["take"].got.theirs
    BY <1>1, <2>1, FlowsAre DEF Shared, Granted
  <2>4. ~Idle(u, "beat") => u.shown = "mine" /\ u.calls["beat"].at \notin {"held", "required"}
    BY <1>1, <2>1, FlowsAre DEF Shared, Idle
  <2>5. ~Idle(u, "save") => u.calls["save"] = t.calls["save"]
    BY <1>1, FlowsAre DEF Idle
  <2>6. QED
    BY <2>1, <2>2, <2>3, <2>4, <2>5 DEF Shared, Idle
<1>5. ASSUME row = "live", t.note # "PUBLIC" PROVE Unshared(u)
  <2>1. Unshared(t)
    BY <1>5 DEF Informed
  <2>2. u.calls["load"].at = "ok" => u.calls["load"] = t.calls["load"]
    BY <1>1, FlowsAre
  <2>3. QED
    BY <1>3, <2>1, <2>2, FlowsAre DEF Unshared
<1>6. ASSUME row = "live", t.note = "PRIVATE" PROVE Owned(u)
  <2>1. Owned(t)
    BY <1>6 DEF Informed
  <2>2. u.calls["poll"].at = "ok" => u.calls["poll"] = t.calls["poll"]
    BY <1>1, FlowsAre
  <2>3. Idle(t, "save") => Idle(u, "save")
    BY <1>3, FlowsAre
  <2>4. Idle(t, "poll") => Idle(u, "poll")
    BY <1>3, FlowsAre
  <2>5. CASE u.calls["save"] = t.calls["save"]
    BY <2>1, <2>2, <2>3, <2>4, <2>5 DEF Owned
  <2>6. CASE u.calls["save"] # t.calls["save"]
    <3>1. u.calls["save"].op = "none" /\ u.calls["save"].at = "idle"
      BY <1>1, <2>6, FlowsAre
    <3>2. t.shown = "none" => t.calls["save"].op # "lock"
      BY <1>6, <2>6
    <3>3. QED
      BY <2>1, <2>2, <2>3, <2>4, <3>1, <3>2 DEF Owned
  <2>7. QED
    BY <2>5, <2>6
<1>7. QED
  BY <1>2, <1>4, <1>5, <1>6 DEF Informed

\* A call is over.
LEMMA OverOfDone ==
  ASSUME NEW t \in Tab, NEW f \in Flows, f # "save", OverInv(t)
  PROVE  OverInv(Done(t, f))
<1> DEFINE u == Done(t, f)
<1>1. /\ u \in Tab /\ SameView(t, u) /\ SameEdit(t, u) /\ SameLock(t, u)
      /\ u.mishaps = t.mishaps /\ u.calls[f] = NoCall /\ OtherCalls(t, u, f)
  BY DoneFacts
<1> HIDE DEF u
<1>2. /\ \A g \in Flows : u.calls[g] = t.calls[g] \/ u.calls[g] = NoCall
      /\ u.calls["save"] = t.calls["save"]
  BY <1>1, FlowsAre DEF OtherCalls
<1>3. OverInv(u)
  BY <1>1, <1>2, OverFrom, InformedKept DEF SameView, SameEdit, SameLock
<1>4. QED
  BY <1>3 DEF u

\* The lock is lost to somebody: of a public note it is not.
LEMMA InformedInConflict ==
  ASSUME NEW t \in Tab, NEW u \in Tab, Informed(t), u.note = t.note, u.shown = "conflict",
         u.draft.theirs = t.draft.theirs,
         \A f \in Flows : u.calls[f] = t.calls[f] \/ u.calls[f] = NoCall,
         row = "live" =>
           Idle(u, "save") /\ t.note # "PUBLIC" /\ (t.note = "PRIVATE" => text.vis = "PUBLIC")
  PROVE  Informed(u)
<1>1. /\ NoCall.got.theirs = {} /\ NoCall.sent.theirs = {}
      /\ NoCall.op = "none" /\ NoCall.at = "idle"
  BY NoDocTheirs, NoCallIdle
<1>2. FromRow(u)
  BY <1>1 DEF Informed, FromRow
<1>3. \A f \in Flows : Idle(t, f) => Idle(u, f)
  BY <1>1 DEF Idle
<1>4. ASSUME row = "live" PROVE Unshared(u)
  <2>1. Unshared(t)
    BY <1>4 DEF Informed
  <2>2. u.calls["load"].at = "ok" => u.calls["load"] = t.calls["load"]
    BY <1>1, FlowsAre
  <2>3. QED
    BY <1>3, <2>1, <2>2, FlowsAre DEF Unshared
<1>5. ASSUME row = "live", t.note = "PRIVATE" PROVE Owned(u)
  <2>1. Owned(t) /\ text.vis = "PUBLIC"
    BY <1>5 DEF Informed
  <2>2. u.calls["poll"].at = "ok" => u.calls["poll"] = t.calls["poll"]
    BY <1>1, FlowsAre
  <2>3. QED
    BY <1>5, <2>1, <2>2 DEF Owned
<1>6. QED
  BY <1>2, <1>4, <1>5 DEF Informed

\* What the server has is rendered: it is all there is, unless the editor
\* learns at the same time that the note is public.
LEMMA OverOfApplied ==
  ASSUME NEW t \in Tab, NEW a \in Call, NEW other \in BOOLEAN, BaseInv(t), OverInv(t),
         t.page = "open" /\ Current(t) =>
           /\ t.shown # "mine" /\ a.got.theirs \subseteq text.theirs
           /\ row = "live" /\ a.got.vis = "PRIVATE" /\ text.vis = "PRIVATE" /\ t.note # "PUBLIC" =>
                text.theirs \subseteq a.got.theirs
  PROVE  OverInv(ApplyServer(t, a, other))
<1> DEFINE u == ApplyServer(t, a, other)
           vis == a.got.vis
<1>1. /\ u \in Tab /\ SameView(t, u) /\ OtherCalls(t, u, "take")
      /\ t.mishaps \subseteq u.mishaps /\ u.draft = a.got
      /\ t.page # "open" \/ t.note = vis => SameLock(t, u) /\ SameCalls(t, u)
      /\ t.page = "open" /\ t.note # vis =>
           /\ u.note = vis /\ u.shown = u.status
           /\ t.note # None => "flip" \in u.mishaps
           /\ vis = "PRIVATE" => u.calls = t.calls /\ u.status = "none"
           /\ vis = "PUBLIC" /\ other => u.calls = t.calls /\ u.status = "locked"
           /\ vis = "PUBLIC" /\ ~other =>
                SentCall(u, "take", "lock", NoDoc) /\ u.status = "pending"
  BY AppliedFacts
<1> SUFFICES OverInv(u)
  OBVIOUS
<1> HIDE DEF u
<1>2. CASE t.page # "open"
  BY <1>1, <1>2 DEF OverInv, SameView, SameCalls
<1>3. CASE t.page = "open" /\ t.note = vis
  <2>1. ASSUME Current(t), Informed(t) PROVE Informed(u)
    <3>1. u.note = t.note /\ u.shown = t.shown /\ u.calls = t.calls /\ u.draft = a.got
      BY <1>1, <1>3 DEF SameLock, SameCalls
    <3>2. FromRow(u)
      BY <1>3, <2>1, <3>1 DEF Informed, FromRow
    <3>3. row = "live" /\ u.note = "PUBLIC" => Shared(u)
      BY <1>3, <2>1, <3>1 DEF Informed, Shared, Idle, Granted
    <3>4. row = "live" /\ u.note # "PUBLIC" => Unshared(u)
      BY <1>3, <2>1, <3>1 DEF Informed, Unshared, Idle
    <3>5. row = "live" /\ u.note = "PRIVATE" => Owned(u)
      BY <1>3, <2>1, <3>1 DEF Informed, Owned, Idle
    <3>6. QED
      BY <3>2, <3>3, <3>4, <3>5 DEF Informed
  <2>2. QED
    BY <1>1, <2>1, OverFrom DEF SameView
<1>4. CASE t.page = "open" /\ t.note # vis /\ t.note # None
  BY <1>1, <1>4, OverExcused DEF SameView
<1>5. CASE t.page = "open" /\ t.note # vis /\ t.note = None
  <2>1. /\ \A f \in Flows \ {"load"} : t.calls[f].at = "idle" /\ t.calls[f].op = "none"
        /\ t.calls["load"] = u.calls["load"]
    BY <1>1, <1>5, FlowsAre DEF BaseInv, Loading, Idle, CallsFit, CallFits, OtherCalls
  <2>2. vis \in {"PRIVATE", "PUBLIC"}
    BY DEF Call, Doc
  <2>3. ASSUME Current(t), Informed(t) PROVE Informed(u)
    <3>1. /\ u.calls["take"] = t.calls["take"]
             \/ (u.calls["take"].at = "sent" /\ u.calls["take"].got = NoDoc /\ u.calls["take"].sent = NoDoc)
          /\ u.note = vis /\ u.shown \in {"none", "locked", "pending"}
          /\ vis = "PRIVATE" => u.shown = "none" /\ u.calls = t.calls
          /\ vis = "PUBLIC" => u.shown # "none"
      <4>1. CASE vis = "PRIVATE"
        BY <1>1, <1>5, <4>1
      <4>2. CASE vis = "PUBLIC" /\ other
        BY <1>1, <1>5, <4>2
      <4>3. CASE vis = "PUBLIC" /\ ~other
        BY <1>1, <1>5, <4>3 DEF SentCall
      <4>4. QED
        BY <2>2, <4>1, <4>2, <4>3
    <3>2. \A f \in Flows \ {"take"} : u.calls[f] = t.calls[f]
      BY <1>1 DEF OtherCalls
    <3>3. FromRow(u)
      BY <1>1, <1>5, <2>3, <3>1, <3>2, NoDocTheirs DEF Informed, FromRow
    <3>4. row = "live" /\ vis = "PUBLIC" => Shared(u)
      BY <2>1, <3>1, <3>2, FlowsAre DEF Shared, Idle, Granted
    <3>5. row = "live" => Unshared(t)
      BY <1>5, <2>3, EditorAssumption DEF Informed
    <3>6. row = "live" /\ vis = "PRIVATE" => Unshared(u)
      BY <2>1, <3>1, <3>5, EditorAssumption DEF Unshared, Idle
    <3>7. row = "live" /\ vis = "PRIVATE" => Owned(u)
      BY <1>1, <1>5, <2>1, <2>3, <3>1, <3>2, <3>5, FlowsAre, EditorAssumption DEF Unshared, Owned, Idle
    <3>8. QED
      BY <2>2, <3>1, <3>3, <3>4, <3>6, <3>7 DEF Informed
  <2>4. QED
    BY <1>1, <2>3, OverFrom DEF SameView
<1>6. QED
  BY <1>2, <1>3, <1>4, <1>5

\* The lock is had: what came with it is all there is, unless the editor
\* learns with it that the note is public.
LEMMA OverOfAcquired ==
  ASSUME NEW t \in Tab, NEW a \in Call, OverInv(t), t.page = "open" => t.note # None,
         t.page = "open" /\ Current(t) =>
           /\ a.got.theirs \subseteq text.theirs
           /\ row = "live" =>
                /\ t.shown # "mine"
                /\ \/ t.note # a.got.vis
                   \/ t.note = "PUBLIC" /\ Idle(t, "take") /\ text.theirs \subseteq a.got.theirs
  PROVE  /\ OverInv(Acquired(t, a))
         /\ t.page = "open" /\ t.shown # "mine" /\ t.note # a.got.vis => ~Current(Acquired(t, a))
<1> DEFINE u == Acquired(t, a)
           flips == t.page = "open" /\ t.shown # "mine" /\ t.note # a.got.vis
<1>1. /\ u \in Tab /\ SameView(t, u)
      /\ t.mishaps \subseteq u.mishaps
      /\ u.draft = IF t.shown = "mine" THEN t.draft ELSE a.got
      /\ ~Idle(t, "poll") => "stale poll" \in u.mishaps
      /\ flips /\ t.note # None => "flip" \in u.mishaps
      /\ ~flips => /\ u.calls = t.calls /\ u.note = t.note
                   /\ u.shown = IF t.page = "open" THEN "mine" ELSE t.shown
  BY AcquiredFacts
<1> HIDE DEF u
<1>2. CASE flips
  BY <1>1, <1>2, OverExcused DEF SameView, Current, Quiet, u
<1>3. CASE ~flips
  <2>1. ASSUME t.page = "open", Current(t), Current(u), Informed(t) PROVE Informed(u)
    <3>1. Idle(t, "poll")
      BY <1>1, <2>1 DEF Current, Quiet
    <3>2. u.note = t.note /\ u.calls = t.calls /\ u.shown = "mine"
      BY <1>1, <1>3, <2>1
    <3>3. FromRow(u)
      BY <1>1, <2>1, <3>2 DEF Informed, FromRow
    <3>4. ASSUME row = "live" PROVE t.note = "PUBLIC" /\ Shared(u)
      <4>1. /\ t.note = "PUBLIC" /\ Idle(t, "take") /\ text.theirs \subseteq u.draft.theirs
            /\ t.shown # "mine"
        BY <1>1, <1>3, <2>1, <3>4
      <4>2. Shared(t)
        BY <2>1, <3>4, <4>1 DEF Informed
      <4>3. QED
        BY <3>1, <3>2, <4>1, <4>2 DEF Shared, Idle, Granted
    <3>5. QED
      BY <3>2, <3>3, <3>4, EditorAssumption DEF Informed
  <2>2. OverInv(u)
    BY <1>1, <2>1, OverFrom DEF SameView
  <2>3. QED
    BY <1>3, <2>2 DEF u
<1>4. QED
  BY <1>2, <1>3

\* An editor of a public note that is shown as another's, or free.
LEMMA OverOfShown ==
  ASSUME NEW t \in Tab, NEW u \in Tab, OverInv(t), SameView(t, u), u.draft = t.draft, u.calls = t.calls,
         t.mishaps \subseteq u.mishaps, u.note = t.note,
         t.page = "open" => u.shown \in {"locked", "available"},
         t.page = "open" /\ Current(t) /\ row = "live" => t.note = "PUBLIC" /\ t.shown # "mine"
  PROVE  OverInv(u)
<1>1. ASSUME t.page = "open", Current(t), Informed(t) PROVE Informed(u)
  <2>1. FromRow(u)
    BY <1>1 DEF Informed, FromRow
  <2>2. ASSUME row = "live" PROVE t.note = "PUBLIC" /\ Shared(u)
    <3>1. t.note = "PUBLIC" /\ t.shown # "mine" /\ Shared(t)
      BY <1>1, <2>2 DEF Informed
    <3>2. QED
      BY <1>1, <3>1 DEF Shared, Idle, Granted
  <2>3. QED
    BY <2>1, <2>2, EditorAssumption DEF Informed
<1>2. QED
  BY <1>1, OverFrom DEF SameView

\* The lock could not be had.
LEMMA OverOfNotAcquired ==
  ASSUME NEW t \in Tab, NEW other \in BOOLEAN, OverInv(t),
         t.page = "open" /\ Current(t) /\ row = "live" => t.note = "PUBLIC" /\ t.shown # "mine"
  PROVE  OverInv(NotAcquired(t, other))
<1> DEFINE u == NotAcquired(t, other)
<1>1. /\ u \in Tab /\ SameView(t, u) /\ SameEdit(t, u) /\ u.calls = t.calls
      /\ t.mishaps \subseteq u.mishaps /\ u.note = t.note
      /\ u.status \in {"locked", "available"}
      /\ u.shown = IF t.page = "open" THEN u.status ELSE t.shown
  BY NotAcquiredFacts
<1> HIDE DEF u
<1>2. OverInv(u)
  BY <1>1, OverOfShown DEF SameEdit
<1>3. QED
  BY <1>2 DEF u

\* The note is known anew.
LEMMA OverOfSetNote ==
  ASSUME NEW t \in Tab, OverInv(t), NEW a \in Call, NEW other \in BOOLEAN,
         t.page = "open" => t.note # None
  PROVE  LET u == SetNote(t, a, other) IN
         /\ OverInv(u)
         /\ u = t \/ "flip" \in u.mishaps
<1> DEFINE u == SetNote(t, a, other)
<1>1. /\ u \in Tab /\ SameView(t, u) /\ t.mishaps \subseteq u.mishaps
      /\ t.page # "open" \/ t.note = a.got.vis => u = t
      /\ t.page = "open" /\ t.note # a.got.vis => (t.note # None => "flip" \in u.mishaps)
  BY SetNoteFacts
<1> HIDE DEF u
<1>2. OverInv(u) /\ (u = t \/ "flip" \in u.mishaps)
  BY <1>1, OverExcused DEF SameView
<1>3. QED
  BY <1>2 DEF u

\* What awaited the save goes on.
LEMMA OverOfResumed ==
  ASSUME NEW t \in Tab, OverInv(t)
  PROVE  OverInv(Resume(t))
<1> DEFINE u == Resume(t)
<1>1. /\ u \in Tab
      /\ t.leaving = "no" => u = t
      /\ t.leaving = "close" => Left(t, u)
      /\ t.leaving = "archive" => Archives(t, u)
  BY ResumeFacts
<1>2. t.leaving \in {"no", "close", "archive"}
  BY DEF Tab
<1> SUFFICES OverInv(u)
  OBVIOUS
<1> HIDE DEF u
<1>3. CASE t.leaving = "close"
  BY <1>1, <1>3, OverClosed DEF Left
<1>4. CASE Archives(t, u)
  <2>1. ASSUME Informed(t) PROVE Informed(u)
    <3>1. /\ \A f \in Flows \ {"leave"} : u.calls[f] = t.calls[f]
          /\ u.calls["leave"].got = NoDoc /\ u.calls["leave"].sent = NoDoc
          /\ u.draft = t.draft /\ u.note = t.note /\ u.shown = t.shown
      BY <1>4 DEF Archives, OtherCalls, SentCall, SameLock
    <3>2. FromRow(u)
      BY <2>1, <3>1, NoDocTheirs DEF Informed, FromRow
    <3>3. QED
      BY <2>1, <3>1, <3>2, FlowsAre DEF Informed, Shared, Unshared, Owned, Idle, Granted
  <2>2. QED
    BY <1>4, <2>1, OverFrom DEF Archives, SameView
<1>5. QED
  BY <1>1, <1>2, <1>3, <1>4

\* A save settles that did not wait for the lock, ...
LEMMA OverOfSettled ==
  ASSUME NEW t \in Tab, NEW ok \in BOOLEAN, OverInv(t),
         t.page = "open" /\ Current(t) => t.calls["save"].op # "lock"
  PROVE  OverInv(Settle(t, "save", ok))
<1> DEFINE u == Ended(t, ok)
<1>1. /\ u \in Tab /\ SameView(t, u) /\ SameLock(t, u) /\ u.mishaps = t.mishaps
      /\ u.draft = t.draft /\ u.calls["save"] = NoCall /\ OtherCalls(t, u, "save")
  BY EndedFacts
<1>2. Settle(t, "save", ok) = Resume(u)
  BY SettleFacts
<1> HIDE DEF u
<1>3. \A f \in Flows : u.calls[f] = t.calls[f] \/ u.calls[f] = NoCall
  BY <1>1 DEF OtherCalls
<1>4. ASSUME t.page = "open", Current(t), Informed(t) PROVE Informed(u)
  BY <1>1, <1>3, <1>4, InformedKept DEF SameLock
<1>5. OverInv(u)
  BY <1>1, <1>4, OverFrom DEF SameView
<1>6. QED
  BY <1>1, <1>2, <1>5, OverOfResumed

\* ... or that failed for want of it.
LEMMA OverOfConflict ==
  ASSUME NEW t \in Tab, typed \in Nat, NEW ok \in BOOLEAN, OverInv(t),
         t.page = "open" /\ Current(t) /\ row = "live" =>
           t.note # "PUBLIC" /\ (t.note = "PRIVATE" => text.vis = "PUBLIC")
  PROVE  OverInv(Settle(EnterConflict(t), "save", ok))
<1> DEFINE c == EnterConflict(t)
           u == Ended(c, ok)
<1>1. /\ c \in Tab /\ SameView(t, c) /\ SameCalls(t, c) /\ c.draft = t.draft /\ c.note = t.note
      /\ c.shown = IF t.page = "open" THEN "conflict" ELSE t.shown
  BY ConflictFacts
<1> HIDE DEF c
<1>2. /\ u \in Tab /\ SameView(c, u) /\ SameLock(c, u) /\ u.mishaps = c.mishaps
      /\ u.draft = c.draft /\ u.calls["save"] = NoCall /\ OtherCalls(c, u, "save")
  BY <1>1, EndedFacts
<1>3. Settle(c, "save", ok) = Resume(u)
  BY <1>1, SettleFacts
<1> HIDE DEF u
<1>4. /\ \A f \in Flows : u.calls[f] = t.calls[f] \/ u.calls[f] = NoCall
      /\ Idle(u, "save")
  BY <1>1, <1>2, NoCallIdle DEF SameCalls, OtherCalls, Idle
<1>5. u.page = t.page /\ u.mishaps = t.mishaps /\ u.note = t.note /\ u.draft.theirs = t.draft.theirs
  BY <1>1, <1>2 DEF SameView, SameCalls, SameLock
<1>6. t.page = "open" => u.shown = "conflict"
  BY <1>1, <1>2 DEF SameLock
<1>7. ASSUME t.page = "open", Current(t), Informed(t) PROVE Informed(u)
  BY <1>2, <1>4, <1>5, <1>6, <1>7, InformedInConflict
<1>8. OverInv(u)
  BY <1>2, <1>5, <1>7, OverFrom
<1>9. OverInv(Resume(u))
  BY <1>2, <1>8, OverOfResumed
<1>10. QED
  BY <1>3, <1>9 DEF c

\* A save asks for the lock, or goes out again.
LEMMA OverOfSend ==
  ASSUME NEW t \in Tab, NEW op \in {"lock", "retry"}, NEW doc \in Doc, OverInv(t),
         t.page = "open" /\ Current(t) =>
           /\ doc.theirs \subseteq text.theirs
           /\ row = "live" => op = "lock" /\ t.note = "PRIVATE" /\ t.shown = "none" /\ text.vis = "PUBLIC"
  PROVE  OverInv(Send(t, "save", op, doc))
<1> DEFINE u == Send(t, "save", op, doc)
<1>1. "save" \in Flows /\ op \in {"get", "lock", "patch", "retry", "archive", "delete"}
  BY FlowsAre
<1>2. /\ u \in Tab /\ SameView(t, u) /\ SameEdit(t, u) /\ SameLock(t, u)
      /\ u.mishaps = t.mishaps /\ SentCall(u, "save", op, doc) /\ OtherCalls(t, u, "save")
  BY <1>1, SendFacts
<1> HIDE DEF u
<1>3. ASSUME t.page = "open", Current(t), Informed(t) PROVE Informed(u)
  <2>1. /\ u.draft = t.draft /\ u.note = t.note /\ u.shown = t.shown
        /\ \A f \in Flows \ {"save"} : u.calls[f] = t.calls[f]
        /\ u.calls["save"].op = op /\ u.calls["save"].at = "sent"
        /\ u.calls["save"].got = NoDoc /\ u.calls["save"].sent = doc
    BY <1>2 DEF SameEdit, SameLock, OtherCalls, SentCall
  <2>2. FromRow(u)
    BY <1>3, <2>1, NoDocTheirs DEF Informed, FromRow
  <2>3. ASSUME row = "live" PROVE Unshared(u) /\ Owned(u) /\ u.note = "PRIVATE"
    <3>1. op = "lock" /\ t.note = "PRIVATE" /\ t.shown = "none" /\ text.vis = "PUBLIC"
      BY <1>3, <2>3
    <3>2. Unshared(t) /\ Owned(t)
      BY <1>3, <2>3, <3>1 DEF Informed
    <3>3. QED
      BY <2>1, <3>1, <3>2, FlowsAre DEF Unshared, Owned, Idle
  <2>4. QED
    BY <2>2, <2>3 DEF Informed
<1>4. OverInv(u)
  BY <1>2, <1>3, OverFrom DEF SameView
<1>5. QED
  BY <1>4 DEF u

\* The editor works on: what it sends is its draft.
LEMMA OverOfWorks ==
  ASSUME NEW t \in Tab, NEW u \in Tab, BaseInv(t), OverInv(t), Works(t, u)
  PROVE  OverInv(u)
<1>1. /\ u.page = t.page /\ u.note = t.note /\ u.shown = t.shown
      /\ t.mishaps \subseteq u.mishaps /\ u.draft.theirs = t.draft.theirs
      /\ \A f \in Flows \ {"save", "leave"} : u.calls[f] = t.calls[f]
      /\ \/ u.calls["leave"] = t.calls["leave"]
         \/ u.calls["leave"].got = NoDoc /\ u.calls["leave"].sent = NoDoc
      /\ \/ u.calls["save"] = t.calls["save"]
         \/ /\ ~t.saving /\ Editable(t)
            /\ SentCall(u, "save", "patch", u.draft)
  BY DEF Works, SameLock
<1>2. ASSUME t.page = "open", Informed(t) PROVE Informed(u)
  <2>1. FromRow(u)
    <3>1. /\ u.calls["save"].got.theirs \subseteq text.theirs
          /\ u.calls["save"].sent.theirs \subseteq text.theirs
      BY <1>1, <1>2, NoDocTheirs, FlowsAre DEF Informed, FromRow, SentCall
    <3>2. QED
      BY <1>1, <1>2, <3>1, NoDocTheirs DEF Informed, FromRow
  <2>2. ~t.saving => t.calls["save"].at = "idle" /\ t.calls["save"].op = "none"
    BY <1>2, FlowsAre DEF BaseInv, SavingFits, CallsFit, CallFits, Idle
  <2>3. ASSUME row = "live", t.note = "PUBLIC" PROVE Shared(u)
    <3>1. Shared(t)
      BY <1>2, <2>3 DEF Informed
    <3>2. CASE u.calls["save"] = t.calls["save"]
      BY <1>1, <3>1, <3>2, FlowsAre DEF Shared, Idle, Granted
    <3>3. CASE ~t.saving /\ Editable(t) /\ SentCall(u, "save", "patch", u.draft)
      <4>1. t.shown = "mine"
        BY <3>1, <3>3 DEF Shared, Editable
      <4>2. QED
        BY <1>1, <3>1, <3>3, <4>1, FlowsAre DEF Shared, Idle, Granted, SentCall
    <3>4. QED
      BY <1>1, <3>2, <3>3
  <2>4. ASSUME row = "live", t.note # "PUBLIC" PROVE Unshared(u)
    BY <1>1, <1>2, <2>4, FlowsAre DEF Informed, Unshared, Idle
  <2>5. ASSUME row = "live", t.note = "PRIVATE" PROVE Owned(u)
    <3>1. Owned(t)
      BY <1>2, <2>5 DEF Informed
    <3>2. CASE u.calls["save"] = t.calls["save"]
      BY <1>1, <3>1, <3>2, FlowsAre DEF Owned, Idle
    <3>3. CASE ~t.saving /\ Editable(t) /\ SentCall(u, "save", "patch", u.draft)
      <4>1. t.shown = "none"
        BY <3>1, <3>3 DEF Owned, Editable
      <4>2. ~Holds(Me) /\ Idle(u, "poll") /\ u.calls["poll"].at # "ok"
        BY <1>1, <2>2, <3>1, <3>3, <4>1, FlowsAre DEF Owned, Idle
      <4>3. QED
        BY <1>1, <3>1, <3>3, <4>1, <4>2 DEF Owned, SentCall
    <3>4. QED
      BY <1>1, <3>2, <3>3
  <2>6. QED
    BY <1>1, <2>1, <2>3, <2>4, <2>5 DEF Informed
<1>3. QED
  BY <1>1, <1>2, OverFrom

\* A call that carries nothing goes out, for the lock of a note that is
\* public or to see whose it is.
LEMMA OverOfAsking ==
  ASSUME NEW t \in Tab, NEW u \in Tab, NEW f \in {"take", "beat", "poll"}, NEW op,
         BaseInv(t), OverInv(t), SameView(t, u), SameEdit(t, u), u.note = t.note,
         t.mishaps \subseteq u.mishaps, SentCall(u, f, op, NoDoc), OtherCalls(t, u, f),
         t.page = "open" =>
           \/ f = "take" /\ t.shown = "available" /\ u.shown = "available"
           \/ f = "beat" /\ t.shown = "mine" /\ u.shown = "mine"
           \/ f = "poll" /\ t.shown = "conflict" /\ u.shown = "locked"
           \/ f = "poll" /\ t.shown \in {"locked", "available"} /\ u.shown = t.shown
  PROVE  OverInv(u)
<1>1. /\ u.draft = t.draft /\ u.note = t.note
      /\ \A g \in Flows : g # f => u.calls[g] = t.calls[g]
      /\ u.calls[f].at = "sent" /\ u.calls[f].got = NoDoc /\ u.calls[f].sent = NoDoc
  BY DEF SameEdit, SentCall, OtherCalls
<1>2. ASSUME t.page = "open", Informed(t) PROVE Informed(u)
  <2>1. FromRow(u)
    BY <1>1, <1>2, NoDocTheirs DEF Informed, FromRow
  <2>2. t.note # None \/ f = "poll"
    BY <1>2 DEF BaseInv, Loading
  <2>3. ASSUME row = "live", t.note = "PUBLIC" PROVE Shared(u)
    <3>1. Shared(t)
      BY <1>2, <2>3 DEF Informed
    <3>2. CASE f = "take"
      BY <1>1, <1>2, <3>1, <3>2, FlowsAre DEF Shared, Idle, Granted
    <3>3. CASE f = "beat"
      BY <1>1, <1>2, <3>1, <3>3, FlowsAre DEF Shared, Idle, Granted
    <3>4. CASE f = "poll"
      BY <1>1, <1>2, <3>1, <3>4, FlowsAre DEF Shared, Idle, Granted
    <3>5. QED
      BY <3>2, <3>3, <3>4
  <2>4. ASSUME row = "live", t.note = "PRIVATE" PROVE f = "poll" /\ Owned(u)
    <3>1. Owned(t)
      BY <1>2, <2>4 DEF Informed
    <3>2. f = "poll" /\ u.shown = "locked" /\ t.shown # "none"
      BY <1>2, <3>1 DEF Owned
    <3>3. QED
      BY <1>1, <3>1, <3>2, FlowsAre DEF Owned, Idle
  <2>5. t.note \in {None, "PRIVATE", "PUBLIC"}
    BY DEF Tab
  <2>6. ASSUME row = "live", t.note # "PUBLIC" PROVE Unshared(u)
    <3>1. Unshared(t) /\ f = "poll"
      BY <1>2, <2>2, <2>4, <2>5, <2>6 DEF Informed
    <3>2. QED
      BY <1>1, <3>1, FlowsAre DEF Unshared, Idle
  <2>7. QED
    BY <1>1, <2>1, <2>3, <2>4, <2>6 DEF Informed
<1>3. QED
  BY <1>2, OverFrom DEF SameView

\* The member and the timers overwrite nothing unknowingly.
LEMMA OverOfMember ==
  ASSUME IBase, OverInv(tab), Member \/ Timers
  PROVE  OverInv(tab)'
<1>1. TypeOK /\ tab \in Tab /\ BaseInv(tab) /\ (tab.page = "open" => tab.status = tab.shown)
  BY DEF IBase, TypeOK, BaseInv, PageFits
<1>2. CASE Member \/ TimerFires
  <2>1. MemberShape /\ UNCHANGED serverVars
    BY <1>1, <1>2, MemberSteps
  <2>2. CASE Typed(tab, tab')
    BY <1>1, <2>1, <2>2, OverOfWorks, OverAlone DEF Typed, Works
  <2>3. CASE MemberLeaves(tab, tab')
    BY <2>1, <2>3, OverClosed, OverAlone DEF MemberLeaves, Left
  <2>4. CASE TakesOver(tab, tab')
    <3>1. tab' \in Tab /\ OverInv(tab')
      BY <1>1, <2>4, OverOfAsking DEF TakesOver, SameLock
    <3>2. QED
      BY <2>1, <3>1, OverAlone
  <2>5. CASE ReadsOnly(tab, tab')
    <3>1. tab' \in Tab /\ OverInv(tab')
      BY <1>1, <2>5, OverOfAsking DEF ReadsOnly
    <3>2. QED
      BY <2>1, <3>1, OverAlone
  <2>6. CASE Closes
    <3>1. OverInv(tab')
      BY <2>6 DEF Closes, OverInv
    <3>2. QED
      BY <2>1, <3>1, OverAlone
  <2>7. QED
    BY <2>1, <2>2, <2>3, <2>4, <2>5, <2>6 DEF MemberShape
<1>3. CASE HeartbeatTick \/ PollTick
  <2>1. (Beats(tab, tab') \/ Polls(tab, tab')) /\ UNCHANGED serverVars
    BY <1>1, <1>3, TickSteps
  <2>2. CASE Beats(tab, tab')
    <3>1. tab' \in Tab /\ OverInv(tab')
      BY <1>1, <2>2, OverOfAsking DEF Beats, SameLock
    <3>2. QED
      BY <2>1, <3>1, OverAlone
  <2>3. CASE Polls(tab, tab')
    <3>1. tab' \in Tab /\ OverInv(tab')
      BY <1>1, <2>3, OverOfAsking DEF Polls, SameLock
    <3>2. QED
      BY <2>1, <3>1, OverAlone
  <2>4. QED
    BY <2>1, <2>2, <2>3
<1>4. QED
  BY <1>2, <1>3 DEF Timers

\* The note was loaded.
LEMMA OverOfLoaded ==
  ASSUME IBase, OverInv(tab), NEW expired \in BOOLEAN, LoadAnswered(expired)
  PROVE  OverInv(tab)'
<1> DEFINE t == Done(tab, "load")
           a == tab.calls["load"]
           other == HeldByOther("load", expired)
<1>1. /\ tab \in Tab /\ BaseInv(tab) /\ a \in Call /\ other \in BOOLEAN
      /\ UNCHANGED serverVars
  BY BackFacts, FlowsAre DEF LoadAnswered
<1>2. (a.at = "ok" /\ t.shown # "mine" /\ tab' = ApplyServer(t, a, other)) \/ tab' = t
  BY DEF LoadAnswered
<1>3. t \in Tab /\ OverInv(t) /\ BaseInv(t) /\ SameView(tab, t) /\ SameLock(tab, t) /\ t.mishaps = tab.mishaps
  BY <1>1, DoneFacts, OverOfDone, BaseOfDone, FlowsAre
<1>4. tab.page = "open" /\ Current(tab) /\ a.at = "ok" =>
        /\ a.got.theirs \subseteq text.theirs
        /\ row = "live" /\ text.vis = "PRIVATE" /\ tab.note # "PUBLIC" =>
             text.theirs \subseteq a.got.theirs
  BY FlowsAre DEF OverInv, Informed, FromRow, Unshared
<1> HIDE DEF t, a, other
<1>5. CASE a.at = "ok" /\ t.shown # "mine" /\ tab' = ApplyServer(t, a, other)
  <2>1. t.page = "open" /\ Current(t) => tab.page = "open" /\ Current(tab) /\ tab.note = t.note
    BY <1>3 DEF SameView, SameLock, Current, Quiet
  <2>2. OverInv(tab')
    BY <1>1, <1>3, <1>4, <1>5, <2>1, OverOfApplied
  <2>3. QED
    BY <1>1, <2>2, OverAlone
<1>6. QED
  BY <1>1, <1>2, <1>3, <1>5, OverAlone

\* The poll is answered.
LEMMA OverOfPolled ==
  ASSUME IBase, OverInv(tab), NEW expired \in BOOLEAN, PollAnswered(expired)
  PROVE  OverInv(tab)'
<1> DEFINE d == Done(tab, "poll")
           a == tab.calls["poll"]
           other == HeldByOther("poll", expired)
           t == OnRefresh(d, a, other)
           next == IF other THEN "locked" ELSE "available"
           u == Transition(t, next)
           s == StopTimers(d)
<1>1. /\ tab \in Tab /\ BaseInv(tab) /\ a \in Call /\ other \in BOOLEAN /\ UNCHANGED serverVars
      /\ ~Idle(tab, "poll")
  BY BackFacts, FlowsAre DEF PollAnswered
<1>2. (a.at = "ok" /\ tab' = u) \/ tab' = s \/ tab' = d
  BY DEF PollAnswered
<1>3. /\ d \in Tab /\ OverInv(d) /\ BaseInv(d) /\ SameView(tab, d) /\ SameLock(tab, d)
      /\ d.mishaps = tab.mishaps
  BY <1>1, DoneFacts, OverOfDone, BaseOfDone, FlowsAre
<1>4. /\ d.page = "open" /\ Current(d) => a.got.theirs \subseteq text.theirs
      /\ d.page = "open" /\ Current(d) /\ row = "live" =>
           \/ d.note = "PUBLIC" /\ d.shown # "mine"
           \/ d.note = "PRIVATE" /\ (a.at = "ok" => a.got.vis = "PUBLIC")
  <2>1. tab.note \in {None, "PRIVATE", "PUBLIC"}
    BY <1>1 DEF Tab
  <2>2. tab.page = "open" => tab.note # None
    BY <1>1, FlowsAre DEF BaseInv, Loading
  <2>3. tab.page = "open" /\ Current(tab) =>
          /\ a.got.theirs \subseteq text.theirs
          /\ row = "live" =>
               \/ tab.note = "PUBLIC" /\ tab.shown # "mine"
               \/ tab.note = "PRIVATE" /\ (a.at = "ok" => a.got.vis = "PUBLIC")
    BY <1>1, <2>1, <2>2, FlowsAre DEF OverInv, Informed, FromRow, Shared, Owned
  <2>4. d.page = tab.page /\ d.note = tab.note /\ d.shown = tab.shown /\ (Current(d) => Current(tab))
    BY <1>3 DEF SameView, SameLock, Current, Quiet
  <2> HIDE DEF d, a
  <2>5. QED
    BY <2>3, <2>4
<1>5. next \in {"locked", "available"} /\ next \in LockStatus
  BY DEF LockStatus
<1>6. t = IF d.shown # "mine" THEN ApplyServer(d, a, other) ELSE d
  BY DEF OnRefresh
<1> HIDE DEF d, a, other, next, t
<1>7. CASE a.at = "ok" /\ tab' = u
  <2>1. /\ t \in Tab /\ OverInv(t) /\ SameView(d, t)
        /\ t.page = "open" /\ Current(t) /\ row = "live" => t.note = "PUBLIC" /\ t.shown # "mine"
    <3>1. CASE d.shown = "mine"
      BY <1>3, <1>4, <1>6, <1>7, <3>1 DEF SameView, OverInv, Informed, Owned
    <3>2. CASE d.shown # "mine"
      <4>1. t = ApplyServer(d, a, other)
        BY <1>6, <3>2
      <4>2. /\ t \in Tab /\ SameView(d, t) /\ d.mishaps \subseteq t.mishaps
            /\ d.page # "open" \/ d.note = a.got.vis => SameLock(d, t)
            /\ d.page = "open" /\ d.note # a.got.vis => (d.note # None => "flip" \in t.mishaps)
        BY <1>1, <1>3, <4>1, AppliedFacts
      <4>3. OverInv(t)
        BY <1>1, <1>3, <1>4, <1>7, <3>2, <4>1, OverOfApplied
      <4>4. ASSUME t.page = "open", Current(t), row = "live" PROVE t.note = "PUBLIC" /\ t.shown # "mine"
        <5>1. d.page = "open" /\ Current(d)
          BY <4>2, <4>4 DEF SameView, Current, Quiet
        <5>2. d.note # None
          BY <1>4, <4>4, <5>1, EditorAssumption
        <5>3. d.note = a.got.vis
          BY <4>2, <4>4, <5>1, <5>2 DEF Current, Quiet
        <5>4. QED
          BY <1>4, <1>7, <4>2, <4>4, <5>1, <5>3 DEF SameLock
      <4>5. QED
        BY <4>2, <4>3, <4>4
    <3>3. QED
      BY <3>1, <3>2
  <2>2. /\ u \in Tab /\ SameView(t, u) /\ SameEdit(t, u) /\ SameCalls(t, u) /\ u.note = t.note
        /\ u.shown = IF t.page = "open" THEN next ELSE t.shown
    BY <1>5, <2>1, TransitionFacts
  <2> HIDE DEF u
  <2>3. OverInv(u)
    BY <1>5, <2>1, <2>2, OverOfShown DEF SameEdit, SameCalls
  <2>4. QED
    BY <1>1, <1>7, <2>3, OverAlone
<1>8. CASE tab' = s
  <2>1. /\ s \in Tab /\ SameView(d, s) /\ SameEdit(d, s) /\ SameCalls(d, s)
        /\ s.note = d.note /\ s.shown = d.shown
    BY <1>3, TimersFacts
  <2> HIDE DEF s
  <2>2. ASSUME Informed(d) PROVE Informed(s)
    BY <1>3, <2>1, <2>2, InformedKept, FlowsAre DEF SameEdit, SameCalls
  <2>3. OverInv(s)
    BY <1>3, <2>1, <2>2, OverFrom DEF SameView, SameCalls
  <2>4. QED
    BY <1>1, <1>8, <2>3, OverAlone
<1>9. QED
  BY <1>1, <1>2, <1>3, <1>7, <1>8, OverAlone

\* The heartbeat is answered.
LEMMA OverOfBeaten ==
  ASSUME IBase, OverInv(tab), BeatAnswered
  PROVE  OverInv(tab)'
<1> DEFINE d == Done(tab, "beat")
           c == EnterConflict(d)
<1>1. /\ tab \in Tab /\ typed \in Nat /\ UNCHANGED serverVars /\ ~Idle(tab, "beat")
  BY BackFacts, FlowsAre DEF BeatAnswered
<1>2. (tab.calls["beat"].at \in {"held", "required"} /\ tab' = c) \/ tab' = d
  BY DEF BeatAnswered
<1>3. /\ d \in Tab /\ OverInv(d) /\ SameView(tab, d) /\ SameEdit(tab, d) /\ SameLock(tab, d)
      /\ d.mishaps = tab.mishaps /\ d.calls["beat"] = NoCall /\ OtherCalls(tab, d, "beat")
  BY <1>1, DoneFacts, OverOfDone, FlowsAre
<1> HIDE DEF d
<1>4. CASE tab.calls["beat"].at \in {"held", "required"} /\ tab' = c
  <2>1. /\ c \in Tab /\ SameView(d, c) /\ SameCalls(d, c) /\ c.draft = d.draft /\ c.note = d.note
        /\ c.shown = IF d.page = "open" THEN "conflict" ELSE d.shown
    BY <1>1, <1>3, ConflictFacts
  <2> HIDE DEF c
  <2>2. ASSUME tab.page = "open", Current(tab), Informed(tab) PROVE Informed(c)
    <3>1. row # "live"
      BY <1>1, <1>4, <2>2 DEF Informed, Shared, Unshared
    <3>2. \A f \in Flows : c.calls[f] = tab.calls[f] \/ c.calls[f] = NoCall
      BY <1>3, <2>1 DEF OtherCalls, SameCalls
    <3>3. c.note = tab.note /\ c.draft.theirs = tab.draft.theirs /\ c.shown = "conflict"
      BY <1>3, <2>1, <2>2 DEF SameView, SameEdit, SameLock
    <3>4. QED
      BY <1>1, <2>1, <2>2, <3>1, <3>2, <3>3, InformedInConflict
  <2>3. OverInv(c)
    BY <1>1, <1>3, <2>1, <2>2, OverFrom DEF SameView, SameCalls
  <2>4. QED
    BY <1>1, <1>4, <2>3, OverAlone
<1>5. QED
  BY <1>1, <1>2, <1>3, <1>4, OverAlone

\* The taking of the lock is answered.
LEMMA OverOfTaken ==
  ASSUME IBase, OverInv(tab), TakeAnswered
  PROVE  OverInv(tab)'
<1> DEFINE d == Done(tab, "take")
           a == tab.calls["take"]
           q == Acquired(d, a)
           n == NotAcquired(d, a.at = "held")
<1>1. /\ tab \in Tab /\ a \in Call /\ ~Idle(tab, "take") /\ CallFits(tab, "take")
      /\ tab.page = "open" => tab.note # None
      /\ UNCHANGED serverVars
  BY BackFacts, FlowsAre DEF TakeAnswered
<1>2. (a.at = "ok" /\ tab' = q) \/ tab' = n
  BY DEF TakeAnswered
<1>3. /\ d \in Tab /\ SameView(tab, d) /\ SameLock(tab, d)
      /\ d.mishaps = tab.mishaps /\ OverInv(d) /\ Idle(d, "take")
  BY <1>1, DoneFacts, OverOfDone, FlowsAre DEF Idle
<1>4. a.op = "lock"
  BY <1>1 DEF CallFits, Ops, Idle
<1>5. tab.page = "open" /\ Current(tab) =>
        /\ a.got.theirs \subseteq text.theirs
        /\ row = "live" =>
             /\ tab.note = "PUBLIC" /\ tab.shown # "mine"
             /\ a.at = "ok" => text.theirs \subseteq a.got.theirs
  BY <1>1, <1>4, FlowsAre DEF OverInv, Informed, FromRow, Shared, Unshared, Granted
<1>6. (a.at = "held") \in BOOLEAN
  OBVIOUS
<1> HIDE DEF d, a
<1>7. d.page = tab.page /\ d.note = tab.note /\ d.shown = tab.shown /\ (Current(d) => Current(tab))
  BY <1>3 DEF SameView, SameLock, Current, Quiet
<1>8. CASE a.at = "ok" /\ tab' = q
  BY <1>1, <1>3, <1>5, <1>7, <1>8, OverOfAcquired, OverAlone
<1>9. CASE tab' = n
  BY <1>1, <1>3, <1>5, <1>6, <1>7, <1>9, OverOfNotAcquired, OverAlone
<1>10. QED
  BY <1>2, <1>8, <1>9

\* A save is answered.
LEMMA OverOfSaved ==
  ASSUME IBase, OverInv(tab), SaveAnswered("save")
  PROVE  OverInv(tab)'
<1> DEFINE a == tab.calls["save"]
           mine == Acquired(tab, a)
           doc == [mine.draft EXCEPT !.vis = a.sent.vis]
           noted == IF tab.leaving = "close" THEN tab ELSE SetNote(tab, a, a.taken)
           open == tab.page = "open" /\ Current(tab)
<1>1. /\ tab \in Tab /\ typed \in Nat /\ a \in Call /\ (tab.page = "open" => tab.note # None)
      /\ CallFits(tab, "save") /\ ~Idle(tab, "save") /\ Back(tab, "save") /\ UNCHANGED serverVars
  BY BackFacts, FlowsAre DEF SaveAnswered
<1>2. /\ a.sent \in Doc /\ a.taken \in BOOLEAN /\ a.sent.vis \in {"PRIVATE", "PUBLIC"}
      /\ tab.note \in {None, "PRIVATE", "PUBLIC"}
  BY <1>1 DEF Call, Doc, Tab
<1>3. /\ a.op \in {"patch", "lock", "retry"}
      /\ a.at \in {"ok", "held", "required", "gone", "error"}
  BY <1>1 DEF CallFits, Ops, Back, Idle, Call
<1>4. open =>
        /\ a.got.theirs \subseteq text.theirs /\ a.sent.theirs \subseteq text.theirs
        /\ tab.draft.theirs \subseteq text.theirs
  BY FlowsAre DEF OverInv, Informed, FromRow
<1>5. open /\ row = "live" =>
        \/ tab.note = "PUBLIC" /\ a.op = "patch" /\ a.at \notin {"held", "required"}
        \/ /\ tab.note = "PRIVATE" /\ tab.shown = "none" /\ a.op # "retry"
           /\ a.op = "lock" => text.vis = "PUBLIC" /\ (a.at = "ok" => a.got.vis = "PUBLIC")
           /\ a.at \in {"held", "required"} => text.vis = "PUBLIC"
  <2>1. CASE tab.note = "PUBLIC"
    BY <1>1, <2>1 DEF OverInv, Informed, Shared
  <2>2. CASE tab.note = "PRIVATE"
    BY <1>1, <2>2 DEF OverInv, Informed, Owned
  <2>3. QED
    BY <1>1, <1>2, <2>1, <2>2
<1> HIDE DEF a
<1>6. CASE a.op \in {"patch", "retry"} /\ tab' = Settle(noted, "save", TRUE)
  <2>1. OverInv(noted) /\ noted \in Tab /\ (noted = tab \/ "flip" \in noted.mishaps)
    BY <1>1, <1>2, OverOfSetNote, SetNoteFacts
  <2> HIDE DEF noted
  <2>2. noted.page = "open" /\ Current(noted) => noted.calls["save"].op # "lock"
    BY <1>6, <2>1 DEF Current, Quiet, a
  <2>3. OverInv(tab')
    BY <1>6, <2>1, <2>2, OverOfSettled
  <2>4. QED
    BY <1>1, <2>3, OverAlone
<1>7. CASE a.op # "lock" /\ tab' = Settle(tab, "save", FALSE)
  <2>1. OverInv(tab')
    BY <1>1, <1>7, OverOfSettled DEF a
  <2>2. QED
    BY <1>1, <2>1, OverAlone
<1>8. CASE a.op = "patch" /\ a.at = "required" /\ tab' = Send(tab, "save", "lock", a.sent)
  <2>1. open => a.sent.theirs \subseteq text.theirs
    BY <1>4
  <2>2. open /\ row = "live" => tab.note = "PRIVATE" /\ tab.shown = "none" /\ text.vis = "PUBLIC"
    BY <1>5, <1>8
  <2>3. OverInv(tab')
    BY <1>1, <1>2, <1>8, <2>1, <2>2, OverOfSend
  <2>4. QED
    BY <1>1, <2>3, OverAlone
<1>9. CASE a.op = "lock" /\ a.at = "ok" /\ tab' = Send(mine, "save", "retry", doc)
  <2>1. open => a.got.theirs \subseteq text.theirs
    BY <1>4
  <2>2. open /\ row = "live" => tab.shown # "mine" /\ tab.note # a.got.vis
    BY <1>5, <1>9
  <2>3. /\ OverInv(mine)
        /\ tab.page = "open" /\ tab.shown # "mine" /\ tab.note # a.got.vis => ~Current(mine)
    BY <1>1, <2>1, <2>2, OverOfAcquired
  <2>4. /\ mine \in Tab /\ SameView(tab, mine) /\ tab.mishaps \subseteq mine.mishaps
    BY <1>1, AcquiredFacts
  <2> HIDE DEF mine
  <2>5. mine.draft \in Doc
    BY <2>4 DEF Tab
  <2>6. doc \in Doc /\ doc.theirs = mine.draft.theirs
    BY <1>2, <2>5, DraftTypes
  <2> HIDE DEF doc
  <2>7. mine.page = "open" /\ Current(mine) => row # "live" /\ doc.theirs \subseteq text.theirs
    <3>1. mine.page = "open" /\ Current(mine) => open
      BY <2>4 DEF SameView, Current, Quiet
    <3>2. mine.page = "open" /\ Current(mine) => row # "live"
      BY <2>2, <2>3, <3>1
    <3>3. mine.page = "open" /\ Current(mine) => mine.draft.theirs \subseteq text.theirs
      BY <2>3 DEF OverInv, Informed, FromRow
    <3>4. QED
      BY <2>6, <3>2, <3>3
  <2>8. OverInv(tab')
    BY <1>9, <2>3, <2>4, <2>6, <2>7, OverOfSend
  <2>9. QED
    BY <1>1, <2>8, OverAlone
<1>10. CASE /\ a.op = "lock" \/ a.at \notin {"gone", "error"}
            /\ a.op \notin {"patch", "retry"} \/ a.at # "ok"
            /\ a.op # "lock" \/ a.at # "ok"
            /\ tab' = Settle(EnterConflict(tab), "save", TRUE)
  <2>1. open /\ row = "live" => tab.note # "PUBLIC" /\ text.vis = "PUBLIC"
    BY <1>3, <1>5, <1>10
  <2>2. OverInv(tab')
    BY <1>1, <1>10, <2>1, OverOfConflict
  <2>3. QED
    BY <1>1, <2>2, OverAlone
<1>11. QED
  BY <1>6, <1>7, <1>8, <1>9, <1>10, SavedCases DEF a

\* No answer makes an editor overwrite anything unknowingly.
LEMMA OverOfAnswered ==
  ASSUME IBase, OverInv(tab), Answered
  PROVE  OverInv(tab)'
<1>1. tab \in Tab
  BY DEF IBase, TypeOK
<1>2. ASSUME NEW expired \in BOOLEAN, LoadAnswered(expired) \/ PollAnswered(expired)
      PROVE  OverInv(tab)'
  BY <1>2, OverOfLoaded, OverOfPolled
<1>3. CASE BeatAnswered
  BY <1>3, OverOfBeaten
<1>4. CASE TakeAnswered
  BY <1>4, OverOfTaken
<1>5. CASE SaveAnswered("save")
  BY <1>5, OverOfSaved
<1>6. CASE SaveAnswered("last")
  BY <1>6, LastAnswered, OverClosed, OverAlone
<1>7. CASE LeaveAnswered
  <2>1. CASE tab' = Done(tab, "leave")
    BY <1>1, <1>7, <2>1, LeaveSteps, OverOfDone, OverAlone, FlowsAre
  <2>2. CASE MemberLeaves(tab, tab')
    BY <1>7, <2>2, LeaveSteps, OverClosed, OverAlone DEF MemberLeaves, Left
  <2>3. QED
    BY <1>7, <2>1, <2>2, LeaveSteps
<1>8. QED
  BY <1>2, <1>3, <1>4, <1>5, <1>6, <1>7 DEF Answered, LoadOrPollAnswered

\* An open editor that is informed writes only what keeps all there is.
LEMMA WritesAll ==
  ASSUME IBase, tab.page = "open", Informed(tab), NEW f \in Flows, Writes(f)
  PROVE  /\ f = "save" /\ tab.note # None /\ text'.theirs = text.theirs
         /\ tab.note = "PRIVATE" => text.vis = "PRIVATE"
<1>1. /\ tab \in Tab /\ text \in Doc /\ CallFits(tab, f) /\ Sent(f) /\ row = "live"
      /\ BaseInv(tab) /\ tab.calls[f].op \in {"patch", "retry"} /\ tab.calls[f].sent \in Doc
  BY DEF IBase, TypeOK, BaseInv, CallsFit, Writes, Answers, Tab, Call
<1>2. f \in {"save", "last"}
  BY <1>1 DEF CallFits, Ops, Flows
<1>3. f = "save" /\ ~Idle(tab, "save")
  BY <1>1, <1>2 DEF BaseInv, PageFits, Idle, Sent
<1>4. tab.note \in {"PRIVATE", "PUBLIC"}
  BY <1>1, <1>3, FlowsAre DEF BaseInv, Loading, Tab
<1>5. text'.theirs = tab.calls["save"].sent.theirs
  BY <1>1, <1>3, WrittenFacts DEF Writes
<1>6. tab.calls["save"].sent.theirs \subseteq text.theirs
  BY FlowsAre DEF Informed, FromRow
<1>7. CASE tab.note = "PUBLIC"
  <2>1. text.theirs \subseteq tab.calls["save"].sent.theirs
    BY <1>1, <1>3, <1>7 DEF Informed, Shared, Sent
  <2>2. QED
    BY <1>3, <1>5, <1>6, <1>7, <2>1, EditorAssumption
<1>8. CASE tab.note = "PRIVATE"
  <2>1. tab.shown = "none" /\ tab.calls["save"].op = "patch" /\ ~Holds(Me)
    BY <1>1, <1>3, <1>8 DEF Informed, Owned
  <2>2. text.vis = "PRIVATE"
    BY <1>1, <2>1 DEF Writes, Doc
  <2>3. text.theirs \subseteq tab.calls["save"].sent.theirs
    BY <1>1, <1>3, <1>8, <2>1, <2>2 DEF Informed, Owned, Sent
  <2>4. QED
    BY <1>3, <1>5, <1>6, <1>8, <2>2, <2>3, EditorAssumption
<1>9. QED
  BY <1>4, <1>7, <1>8

\* What the editor has stays from the row, where only more is written.
LEMMA FromRowKept ==
  ASSUME FromRow(tab), text.theirs \subseteq text'.theirs, tab'.draft = tab.draft, NEW f \in Flows,
         \A g \in Flows : g # f => tab'.calls[g] = tab.calls[g],
         tab'.calls[f].sent = tab.calls[f].sent,
         \/ tab'.calls[f].got.theirs = {} \/ tab'.calls[f].got = tab.calls[f].got
         \/ tab'.calls[f].got = text
  PROVE  FromRow(tab)'
<1>1. tab'.calls[f].got.theirs \subseteq text'.theirs
  BY DEF FromRow
<1>2. QED
  BY <1>1 DEF FromRow

\* What an answer leaves alone: all but one call.
LEMMA AnswersLeave ==
  ASSUME NEW f \in Flows, NEW at, NEW doc, Answers(f, at, doc)
  PROVE  /\ tab'.draft = tab.draft /\ tab'.note = tab.note /\ tab'.shown = tab.shown
         /\ \A g \in Flows : g # f => tab'.calls[g] = tab.calls[g]
         /\ tab'.calls[f].op = tab.calls[f].op /\ tab'.calls[f].sent = tab.calls[f].sent
         /\ tab'.calls[f].at = at /\ tab'.calls[f].got = doc /\ tab.calls[f].at = "sent"
BY DEF Answers, SameEdit, SameLock, OtherCalls, Sent

\* The calls that say something of the lock are as they were.
LEMMA InformedStill ==
  ASSUME Informed(tab), tab'.draft = tab.draft, tab'.note = tab.note, tab'.shown = tab.shown,
         \A f \in Flows \ {"leave"} : tab'.calls[f] = tab.calls[f],
         FromRow(tab)', row' = "live" => row = "live" /\ text' = text /\ (Holds(Me)' => Holds(Me))
  PROVE  Informed(tab)'
<1>1. /\ tab'.calls["load"] = tab.calls["load"] /\ tab'.calls["poll"] = tab.calls["poll"]
      /\ tab'.calls["take"] = tab.calls["take"] /\ tab'.calls["beat"] = tab.calls["beat"]
      /\ tab'.calls["save"] = tab.calls["save"]
  BY FlowsAre
<1>2. ASSUME row' = "live", tab.note = "PUBLIC" PROVE Shared(tab)'
  <2>1. Shared(tab)
    BY <1>2 DEF Informed
  <2>2. QED
    BY <1>1, <1>2, <2>1 DEF Shared, Idle, Granted
<1>3. ASSUME row' = "live", tab.note # "PUBLIC" PROVE Unshared(tab)'
  <2>1. Unshared(tab)
    BY <1>3 DEF Informed
  <2> HIDE DEF Holds
  <2>2. QED
    BY <1>1, <1>3, <2>1 DEF Unshared, Idle
<1>4. ASSUME row' = "live", tab.note = "PRIVATE" PROVE Owned(tab)'
  <2>1. Owned(tab)
    BY <1>4 DEF Informed
  <2>2. QED
    BY <1>1, <1>4, <2>1 DEF Owned, Idle
<1>5. QED
  BY <1>2, <1>3, <1>4 DEF Informed

\* A call is lost.
LEMMA InformedOfLost ==
  ASSUME Informed(tab), NEW f \in Flows, Loses(f)
  PROVE  Informed(tab)'
<1>1. /\ tab'.draft = tab.draft /\ tab'.note = tab.note /\ tab'.shown = tab.shown
      /\ \A g \in Flows : g # f => tab'.calls[g] = tab.calls[g]
      /\ tab'.calls[f].op = tab.calls[f].op /\ tab'.calls[f].sent = tab.calls[f].sent
      /\ tab'.calls[f].at = "error" /\ tab'.calls[f].got = NoDoc /\ ~Idle(tab, f)
      /\ row' = row /\ text' = text /\ UNCHANGED leaseVars
  BY DEF Loses, SameEdit, SameLock, OtherCalls, serverVars, leaseVars
<1>2. FromRow(tab)'
  BY <1>1, FromRowKept, NoDocTheirs DEF Informed
<1>3. Holds(Me)' <=> Holds(Me)
  BY <1>1 DEF Holds, leaseVars
<1>4. ASSUME row = "live", tab.note = "PUBLIC" PROVE Shared(tab)'
  <2>1. Shared(tab)
    BY <1>4 DEF Informed
  <2>2. QED
    BY <1>1, <2>1, FlowsAre DEF Shared, Idle, Granted
<1>5. ASSUME row = "live", tab.note # "PUBLIC" PROVE Unshared(tab)'
  <2>1. Unshared(tab)
    BY <1>5 DEF Informed
  <2>2. QED
    BY <1>1, <1>3, <2>1, FlowsAre DEF Unshared, Idle
<1>6. ASSUME row = "live", tab.note = "PRIVATE" PROVE Owned(tab)'
  <2>1. Owned(tab)
    BY <1>6 DEF Informed
  <2>2. QED
    BY <1>1, <1>3, <2>1, FlowsAre DEF Owned, Idle
<1>7. QED
  BY <1>1, <1>2, <1>4, <1>5, <1>6 DEF Informed

\* The text comes back from the server.
LEMMA InformedOfText ==
  ASSUME Informed(tab), CallsFit(tab), NEW f \in Flows, AnswersText(f), text.vis \in {"PRIVATE", "PUBLIC"}
  PROVE  Informed(tab)'
<1>1. /\ tab'.draft = tab.draft /\ tab'.note = tab.note /\ tab'.shown = tab.shown
      /\ \A g \in Flows : g # f => tab'.calls[g] = tab.calls[g]
      /\ tab'.calls[f].op = tab.calls[f].op /\ tab'.calls[f].sent = tab.calls[f].sent
      /\ tab'.calls[f].at = "ok" /\ tab'.calls[f].got = text /\ tab.calls[f].at = "sent"
      /\ row' = row /\ text' = text /\ UNCHANGED leaseVars /\ tab.calls[f].op = "get"
  BY AnswersLeave DEF AnswersText, serverVars, leaseVars
<1>2. f \in {"load", "poll"}
  BY <1>1 DEF CallsFit, CallFits, Ops, Flows
<1>3. FromRow(tab)'
  BY <1>1, FromRowKept DEF Informed
<1>4. Holds(Me)' <=> Holds(Me)
  BY <1>1 DEF Holds, leaseVars
<1>5. ASSUME row = "live", tab.note = "PUBLIC" PROVE Shared(tab)'
  <2>1. Shared(tab)
    BY <1>5 DEF Informed
  <2>2. QED
    BY <1>1, <1>2, <2>1, FlowsAre DEF Shared, Idle, Granted
<1>6. ASSUME row = "live", tab.note # "PUBLIC" PROVE Unshared(tab)'
  <2>1. Unshared(tab)
    BY <1>6 DEF Informed
  <2>2. QED
    BY <1>1, <1>2, <1>4, <2>1, FlowsAre DEF Unshared, Idle
<1>7. ASSUME row = "live", tab.note = "PRIVATE" PROVE Owned(tab)'
  <2>1. Owned(tab)
    BY <1>7 DEF Informed
  <2>2. QED
    BY <1>1, <1>2, <1>4, <2>1, FlowsAre DEF Owned, Idle
<1>8. QED
  BY <1>1, <1>3, <1>5, <1>6, <1>7 DEF Informed

\* The lock is given: the text that comes with it is all there is.
LEMMA InformedOfGrant ==
  ASSUME Informed(tab), BaseInv(tab), tab.page = "open", NEW f \in Flows, Grants(f),
         tab.note \in {None, "PRIVATE", "PUBLIC"}
  PROVE  Informed(tab)'
<1>1. /\ tab.calls[f].op = "lock" /\ row = "live" /\ row' = row /\ text' = text
      /\ \E doc \in {NoDoc, text} : Answers(f, "ok", doc)
      /\ f # "beat" => Answers(f, "ok", text)
  BY DEF Grants
<1>2. /\ tab'.draft = tab.draft /\ tab'.note = tab.note /\ tab'.shown = tab.shown
      /\ \A g \in Flows : g # f => tab'.calls[g] = tab.calls[g]
      /\ tab'.calls[f].op = tab.calls[f].op /\ tab'.calls[f].sent = tab.calls[f].sent
      /\ tab'.calls[f].at = "ok" /\ tab'.calls[f].got \in {NoDoc, text} /\ tab.calls[f].at = "sent"
      /\ f # "beat" => tab'.calls[f].got = text
  <2>1. PICK doc \in {NoDoc, text} : Answers(f, "ok", doc)
    BY <1>1
  <2>2. QED
    BY <1>1, <2>1, AnswersLeave
<1>3. f \in {"beat", "take", "save"}
  BY <1>1, <1>2 DEF BaseInv, PageFits, Idle, CallsFit, CallFits, Ops, Flows
<1>4. FromRow(tab)'
  BY <1>1, <1>2, FromRowKept, NoDocTheirs DEF Informed
<1>5. tab.note # None
  BY <1>2, <1>3, FlowsAre DEF BaseInv, Loading, Idle
<1>6. ASSUME tab.note = "PUBLIC" PROVE Shared(tab)'
  <2>1. Shared(tab)
    BY <1>1, <1>6 DEF Informed
  <2>2. f # "save"
    BY <1>1, <1>2, <2>1 DEF Shared, Idle
  <2>3. CASE f = "take"
    BY <1>1, <1>2, <2>1, <2>3, FlowsAre DEF Shared, Idle, Granted
  <2>4. CASE f = "beat"
    BY <1>1, <1>2, <2>1, <2>4, FlowsAre DEF Shared, Idle, Granted
  <2>5. QED
    BY <1>3, <2>2, <2>3, <2>4
<1>7. ASSUME tab.note = "PRIVATE" PROVE Unshared(tab)' /\ Owned(tab)'
  <2>1. Owned(tab) /\ Unshared(tab)
    BY <1>1, <1>7, EditorAssumption DEF Informed
  <2>2. f = "save"
    BY <1>2, <1>3, <2>1 DEF Unshared, Idle
  <2>3. tab.shown = "none" /\ text.vis = "PUBLIC"
    BY <1>1, <1>2, <2>1, <2>2 DEF Owned, Idle
  <2>4. QED
    BY <1>1, <1>2, <1>5, <2>1, <2>2, <2>3, FlowsAre DEF Unshared, Owned, Idle
<1>8. QED
  BY <1>1, <1>2, <1>4, <1>5, <1>6, <1>7 DEF Informed

\* A request is refused for want of the lock: not one of an editor that has
\* it.
LEMMA InformedOfRefusal ==
  ASSUME Informed(tab), BaseInv(tab), tab.page = "open", NEW f \in Flows, Refuses(f),
         tab.note \in {None, "PRIVATE", "PUBLIC"},
         row = "live" /\ tab.shown = "mine" => Holds(Me)
  PROVE  Informed(tab)'
<1>1. /\ ~Holds(Me) /\ row = "live" /\ row' = row /\ text' = text /\ UNCHANGED leaseVars
      /\ \/ tab.calls[f].op = "lock"
         \/ tab.calls[f].op \in {"patch", "retry"} /\ text.vis = "PUBLIC"
  BY DEF Refuses, serverVars, leaseVars
<1>2. /\ tab'.draft = tab.draft /\ tab'.note = tab.note /\ tab'.shown = tab.shown
      /\ \A g \in Flows : g # f => tab'.calls[g] = tab.calls[g]
      /\ tab'.calls[f].op = tab.calls[f].op /\ tab'.calls[f].sent = tab.calls[f].sent
      /\ tab'.calls[f].at \in {"held", "required"} /\ tab'.calls[f].got = NoDoc /\ tab.calls[f].at = "sent"
  <2>1. PICK at \in {"held", "required"} : Answers(f, at, NoDoc)
    BY DEF Refuses
  <2>2. QED
    BY <2>1, AnswersLeave
<1>3. f \in {"beat", "take", "save"}
  BY <1>1, <1>2 DEF BaseInv, PageFits, Idle, CallsFit, CallFits, Ops, Flows
<1>4. FromRow(tab)'
  BY <1>1, <1>2, FromRowKept, NoDocTheirs DEF Informed
<1>5. tab.note # None
  BY <1>2, <1>3, FlowsAre DEF BaseInv, Loading, Idle
<1>6. ~Holds(Me)'
  BY <1>1 DEF Holds, leaseVars
<1>7. ASSUME tab.note = "PUBLIC" PROVE Shared(tab)'
  <2>1. Shared(tab) /\ tab.shown # "mine"
    BY <1>1, <1>7 DEF Informed
  <2>2. f = "take"
    BY <1>2, <1>3, <2>1 DEF Shared, Idle
  <2>3. QED
    BY <1>1, <1>2, <2>1, <2>2, FlowsAre DEF Shared, Idle, Granted
<1>8. ASSUME tab.note = "PRIVATE" PROVE Unshared(tab)' /\ Owned(tab)'
  <2>1. Owned(tab) /\ Unshared(tab)
    BY <1>1, <1>8, EditorAssumption DEF Informed
  <2>2. f = "save"
    BY <1>2, <1>3, <2>1 DEF Unshared, Idle
  <2>3. tab.shown = "none" /\ text.vis = "PUBLIC"
    BY <1>1, <1>2, <2>1, <2>2 DEF Owned, Idle
  <2>4. QED
    BY <1>1, <1>2, <1>5, <1>6, <2>1, <2>2, <2>3, FlowsAre DEF Unshared, Owned, Idle
<1>9. QED
  BY <1>1, <1>2, <1>4, <1>5, <1>7, <1>8 DEF Informed

\* A save is written, with all there is.
LEMMA InformedOfWrite ==
  ASSUME IBase, Informed(tab), tab.page = "open", NEW f \in Flows, Writes(f)
  PROVE  Informed(tab)'
<1>1. /\ f = "save" /\ tab.note # None /\ text'.theirs = text.theirs
      /\ tab.note = "PRIVATE" => text.vis = "PRIVATE"
  BY WritesAll
<1> DEFINE doc == [NoDoc EXCEPT !.vis = text'.vis]
<1>2. /\ Answers("save", "ok", doc) /\ row = "live" /\ row' = row
      /\ UNCHANGED leaseVars /\ text'.vis \in {"PRIVATE", "PUBLIC"} /\ tab.calls["save"].op # "lock"
  BY <1>1 DEF Writes, Doc
<1>3. doc.theirs = {}
  BY <1>2, VisFacts
<1> HIDE DEF doc
<1>4. /\ tab'.draft = tab.draft /\ tab'.note = tab.note /\ tab'.shown = tab.shown
      /\ \A g \in Flows : g # "save" => tab'.calls[g] = tab.calls[g]
      /\ tab'.calls["save"].op = tab.calls["save"].op
      /\ tab'.calls["save"].sent = tab.calls["save"].sent
      /\ tab'.calls["save"].at = "ok" /\ tab'.calls["save"].got.theirs = {}
      /\ tab.calls["save"].at = "sent"
  BY <1>2, <1>3, AnswersLeave, FlowsAre
<1>5. FromRow(tab)'
  BY <1>1, <1>4, FromRowKept, FlowsAre DEF Informed
<1>6. Holds(Me)' <=> Holds(Me)
  BY <1>2 DEF Holds, leaseVars
<1>7. tab.note \in {"PRIVATE", "PUBLIC"}
  BY <1>1 DEF IBase, TypeOK, Tab
<1>8. ASSUME tab.note = "PUBLIC" PROVE Shared(tab)'
  <2>1. Shared(tab)
    BY <1>2, <1>8 DEF Informed
  <2>2. QED
    BY <1>1, <1>4, <2>1, FlowsAre DEF Shared, Idle, Granted
<1>9. ASSUME tab.note = "PRIVATE" PROVE Unshared(tab)' /\ Owned(tab)'
  <2>1. Owned(tab) /\ Unshared(tab) /\ text.vis = "PRIVATE"
    BY <1>1, <1>2, <1>9, EditorAssumption DEF Informed
  <2>2. tab.shown = "none"
    BY <1>4, <2>1 DEF Owned
  <2>3. Unshared(tab)'
    BY <1>1, <1>4, <2>1, FlowsAre DEF Unshared, Idle
  <2>4. QED
    BY <1>1, <1>2, <1>4, <1>6, <2>1, <2>2, <2>3, FlowsAre DEF Owned, Idle
<1>10. QED
  BY <1>1, <1>2, <1>4, <1>5, <1>7, <1>8, <1>9 DEF Informed

\* Somebody else writes: not while the editor has the lock.
LEMMA InformedOfOthers ==
  ASSUME Informed(tab), Meddles, tab.page = "open",
         row = "live" => (tab.shown = "mine" => Holds(Me)) /\ (Granted(tab, "take") => Holds(Me))
  PROVE  Informed(tab)'
<1>1. /\ tab' = tab /\ ~Holds(Me) /\ ~Holds(Me)' /\ row' = row /\ text'.vis = text.vis
      /\ text.theirs \subseteq text'.theirs /\ (text' = text \/ text.vis = "PUBLIC")
  BY DEF Meddles
<1>2. FromRow(tab)'
  BY <1>1, FromRowKept, FlowsAre DEF Informed
<1>3. ASSUME row = "live", tab.note = "PUBLIC" PROVE Shared(tab)'
  <2>1. Shared(tab) /\ tab.shown # "mine" /\ ~Granted(tab, "take")
    BY <1>1, <1>3 DEF Informed
  <2>2. QED
    BY <1>1, <2>1 DEF Shared, Idle, Granted
<1>4. ASSUME row = "live", tab.note # "PUBLIC" PROVE Unshared(tab)'
  <2>1. Unshared(tab)
    BY <1>4 DEF Informed
  <2>2. QED
    BY <1>1, <2>1 DEF Unshared, Idle
<1>5. ASSUME row = "live", tab.note = "PRIVATE" PROVE Owned(tab)'
  <2>1. Owned(tab)
    BY <1>5 DEF Informed
  <2>2. QED
    BY <1>1, <2>1 DEF Owned, Idle
<1>6. QED
  BY <1>1, <1>2, <1>3, <1>4, <1>5 DEF Informed

\* What the server, the network and the others do leaves an editor informed
\* that has the lock it is shown to have.
LEMMA OverOfRemote ==
  ASSUME IBase, LockInv(tab), OverInv(tab), RemoteShape
  PROVE  OverInv(tab)'
<1>1. /\ tab \in Tab /\ BaseInv(tab) /\ CallsFit(tab)
      /\ tab.note \in {None, "PRIVATE", "PUBLIC"} /\ text.vis \in {"PRIVATE", "PUBLIC"}
  BY DEF IBase, TypeOK, BaseInv, Tab, Doc
<1>2. CASE Forgotten
  BY <1>2 DEF Forgotten, OverInv
<1>3. CASE ~Forgotten
  <2>1. tab'.page = tab.page /\ tab.mishaps \subseteq tab'.mishaps
    BY <1>3 DEF RemoteShape, AnswersGone, AnswersText, Grants, Refuses, Writes, Loses, Leaves, Releases,
                Expires, Removed, Meddles, Aside, Answers, SameView
  <2>2. CASE tab.page # "open"
    BY <2>1, <2>2 DEF OverInv
  <2>3. CASE tab.page = "open" /\ ~Current(tab)
    BY <2>1, <2>3 DEF OverInv, Current, Quiet
  <2>4. CASE tab.page = "open" /\ Current(tab)
    <3>1. Informed(tab) /\ FromRow(tab)
      BY <2>4 DEF OverInv, Informed
    <3>2. row = "live" => (tab.shown = "mine" => Holds(Me)) /\ (Granted(tab, "take") => Holds(Me))
      BY <2>4 DEF LockInv, Current, Quiet
    <3> SUFFICES Informed(tab)'
      BY <2>1, <2>4 DEF OverInv
    <3>3. ASSUME NEW f \in Flows, AnswersGone(f) PROVE Informed(tab)'
      <4>1. row' = "gone" /\ text' = text /\ Answers(f, "gone", NoDoc)
        BY <3>3 DEF AnswersGone, serverVars
      <4>2. FromRow(tab)'
        BY <3>1, <4>1, AnswersLeave, FromRowKept, NoDocTheirs
      <4>3. QED
        BY <4>1, <4>2 DEF Informed
    <3>4. ASSUME NEW f \in Flows, AnswersText(f) \/ Grants(f) \/ Refuses(f) \/ Writes(f) \/ Loses(f)
          PROVE  Informed(tab)'
      <4>1. CASE AnswersText(f)
        BY <1>1, <3>1, <4>1, InformedOfText
      <4>2. CASE Grants(f)
        BY <1>1, <2>4, <3>1, <4>2, InformedOfGrant
      <4>3. CASE Refuses(f)
        BY <1>1, <2>4, <3>1, <3>2, <4>3, InformedOfRefusal
      <4>4. CASE Writes(f)
        BY <2>4, <3>1, <4>4, InformedOfWrite
      <4>5. CASE Loses(f)
        BY <3>1, <4>5, InformedOfLost
      <4>6. QED
        BY <3>4, <4>1, <4>2, <4>3, <4>4, <4>5
    <3>5. CASE Leaves
      <4>1. text' = text /\ Answers("leave", "ok", NoDoc)
        BY <3>5 DEF Leaves
      <4>2. FromRow(tab)'
        BY <3>1, <4>1, AnswersLeave, FromRowKept, NoDocTheirs, FlowsAre
      <4>3. row' = "live" => row = "live" /\ (Holds(Me)' => Holds(Me))
        BY <3>5 DEF Leaves, Holds, leaseVars
      <4>4. /\ tab'.draft = tab.draft /\ tab'.note = tab.note /\ tab'.shown = tab.shown
            /\ \A g \in Flows \ {"leave"} : tab'.calls[g] = tab.calls[g]
        BY <4>1, AnswersLeave, FlowsAre
      <4>5. QED
        BY <3>1, <4>1, <4>2, <4>3, <4>4, InformedStill
    <3>6. CASE Releases \/ Expires \/ Removed
      <4>1. /\ tab'.draft = tab.draft /\ tab'.note = tab.note /\ tab'.shown = tab.shown
            /\ tab'.calls = tab.calls /\ text' = text
        BY <3>6 DEF Releases, Expires, Removed, Aside, SameEdit, SameLock
      <4>2. row' = "live" => row = "live" /\ (Holds(Me)' => Holds(Me))
        BY <3>6 DEF Releases, Expires, Removed, Holds
      <4>3. FromRow(tab)'
        BY <3>1, <4>1 DEF FromRow
      <4>4. QED
        BY <3>1, <4>1, <4>2, <4>3, InformedStill
    <3>7. CASE Meddles
      BY <2>4, <3>1, <3>2, <3>7, InformedOfOthers
    <3>8. QED
      BY <1>3, <3>3, <3>4, <3>5, <3>6, <3>7 DEF RemoteShape
  <2>5. QED
    BY <2>2, <2>3, <2>4
<1>4. QED
  BY <1>2, <1>3

\* At first nobody has written anything that the editor does not know.
LEMMA OverOfInit == Init => OverInv(tab)
<1> SUFFICES ASSUME Init PROVE OverInv(tab)
  OBVIOUS
<1>1. PICK t : Opened(t) /\ (tab = t \/ Started(t, tab))
  BY InitFacts
<1>2. /\ \A f \in Flows \ {"load"} : t.calls[f] = NoCall
      /\ t.calls["load"].at = "sent" /\ t.calls["load"].got = NoDoc /\ t.calls["load"].sent = NoDoc
      /\ t.page = "open" /\ t.note = None /\ t.shown = "pending" /\ t.draft.theirs = {}
      /\ text.theirs # {} => "stale seed" \in t.mishaps
  BY <1>1 DEF Opened, SentCall
<1>3. text.vis \in {"PRIVATE", "PUBLIC"} /\ ~Holds(Me)
  BY InitFacts DEF Doc, Holds
<1>4. CASE tab = t
  <2>1. FromRow(t)
    BY <1>2, NoDocTheirs DEF FromRow
  <2>2. Unshared(t)
    BY <1>2, <1>3, NoCallIdle, FlowsAre DEF Unshared, Idle
  <2>3. QED
    BY <1>2, <1>4, <2>1, <2>2, EditorAssumption DEF OverInv, Informed
<1>5. CASE Started(t, tab)
  <2>1. /\ tab.page = "open" /\ tab.note = text.vis /\ tab.draft = t.draft /\ tab.mishaps = t.mishaps
        /\ tab.note = "PRIVATE" => tab.calls = t.calls /\ tab.shown = "none"
        /\ tab.note = "PUBLIC" => tab.shown \in {"locked", "pending"}
    BY <1>2, <1>5 DEF Started, SameView, SameEdit
  <2>2. \/ tab.calls = t.calls
        \/ /\ tab.calls["take"].at = "sent"
           /\ tab.calls["take"].got = NoDoc /\ tab.calls["take"].sent = NoDoc
           /\ \A f \in Flows \ {"take"} : tab.calls[f] = t.calls[f]
    BY <1>3, <1>5 DEF Started, SentCall, OtherCalls
  <2>3. /\ \A f \in Flows \ {"load", "take"} : tab.calls[f].at = "idle" /\ tab.calls[f].op = "none"
        /\ tab.calls["load"].at = "sent" /\ tab.calls["take"].at \in {"idle", "sent"}
        /\ tab.note = "PRIVATE" => tab.calls["take"].at = "idle"
    <3>1. /\ \A f \in Flows \ {"load"} : t.calls[f].at = "idle" /\ t.calls[f].op = "none"
          /\ t.calls["load"].at = "sent"
      BY <1>2, NoCallIdle
    <3>2. CASE tab.calls = t.calls
      BY <3>1, <3>2, FlowsAre
    <3>3. CASE tab.calls # t.calls
      BY <2>1, <2>2, <3>1, <3>3, FlowsAre
    <3>4. QED
      BY <3>2, <3>3
  <2>4. \A f \in Flows : tab.calls[f].got.theirs = {} /\ tab.calls[f].sent.theirs = {}
    <3>1. \A f \in Flows : t.calls[f].got.theirs = {} /\ t.calls[f].sent.theirs = {}
      BY <1>2, NoDocTheirs
    <3>2. QED
      BY <2>2, <3>1, NoDocTheirs
  <2>5. FromRow(tab)
    BY <1>2, <2>1, <2>4 DEF FromRow
  <2>6. text.vis = "PUBLIC" => Shared(tab)
    BY <2>1, <2>3, FlowsAre DEF Shared, Idle, Granted
  <2>7. text.vis = "PRIVATE" => Unshared(tab)
    BY <1>3, <2>1, <2>3, FlowsAre DEF Unshared, Idle
  <2>8. text.vis = "PRIVATE" /\ text.theirs = {} => Owned(tab)
    BY <1>3, <2>1, <2>3, FlowsAre DEF Owned, Idle
  <2>9. Current(tab) => text.theirs = {}
    BY <1>2, <2>1 DEF Current, Quiet
  <2>10. QED
    BY <1>3, <2>1, <2>5, <2>6, <2>7, <2>8, <2>9 DEF OverInv, Informed
<1>6. QED
  BY <1>1, <1>4, <1>5

\* Every step leaves an open editor informed.
LEMMA OverStep ==
  ASSUME IBase, LockInv(tab), OverInv(tab), [Next]_vars
  PROVE  OverInv(tab)'
<1>1. CASE Member \/ Timers
  BY <1>1, OverOfMember
<1>2. CASE Answered
  BY <1>2, OverOfAnswered
<1>3. CASE Server \/ Network \/ Others
  BY <1>3, RemoteSteps, OverOfRemote DEF IBase
<1>4. CASE UNCHANGED vars
  <2>1. tab' = tab /\ UNCHANGED serverVars
    BY <1>4 DEF vars, serverVars
  <2>2. OverInv(tab')
    BY <2>1
  <2>3. QED
    BY <2>1, <2>2, OverAlone
<1>5. QED
  BY <1>1, <1>2, <1>3, <1>4 DEF Next

\* Nor does a step take back what others wrote, but for the mishaps.
LEMMA KeepsTheirs ==
  ASSUME IBase, LeaveInv(tab), OverInv(tab), [Next]_vars
  PROVE  \/ text.theirs \subseteq text'.theirs
         \/ Unless({"lapse", "stale seed", "flip", "stale poll"})
         \/ ~Mounted /\ Unless({"hurry", "fault"})
<1>1. TypeOK /\ OthersArePublic /\ tab \in Tab /\ BaseInv(tab)
  BY DEF IBase, TypeOK
<1>2. CASE Member \/ Timers \/ Answered \/ UNCHANGED vars
  <2>1. Member \/ TimerFires => UNCHANGED serverVars
    BY <1>1, MemberSteps
  <2>2. HeartbeatTick \/ PollTick => UNCHANGED serverVars
    BY <1>1, TickSteps
  <2>3. Answered => UNCHANGED serverVars
    BY DEF Answered, LoadOrPollAnswered, LoadAnswered, PollAnswered, BeatAnswered, TakeAnswered,
           SaveAnswered, LeaveAnswered
  <2>4. UNCHANGED vars => UNCHANGED serverVars
    BY DEF vars, serverVars
  <2>5. UNCHANGED serverVars
    BY <1>2, <2>1, <2>2, <2>3, <2>4 DEF Timers
  <2>6. QED
    BY <2>5 DEF serverVars
<1>3. CASE Server \/ Network \/ Others
  <2>1. RemoteShape
    BY <1>1, <1>3, RemoteSteps
  <2>2. CASE Forgotten
    BY <2>2 DEF Forgotten, OverInv, Mounted, Unless
  <2>3. ASSUME NEW f \in Flows, Writes(f), tab.page = "open"
        PROVE  text.theirs \subseteq text'.theirs \/ Unless({"lapse", "stale seed", "flip", "stale poll"})
    <3>1. CASE Current(tab)
      BY <2>3, <3>1, WritesAll DEF OverInv
    <3>2. CASE ~Current(tab)
      BY <3>2 DEF Current, Quiet, Unless
    <3>3. QED
      BY <3>1, <3>2
  <2>4. ASSUME NEW f \in Flows, Writes(f), tab.page # "open"
        PROVE  Unless({"hurry", "fault"}) \/ Unless({"flip"})
    <3>1. CASE LeaveQuiet(tab)
      <4>1. /\ tab.page = "closed" /\ Sent(f) /\ row = "live" /\ CallFits(tab, f)
            /\ tab.calls[f].op \in {"patch", "retry"}
        BY <1>1, <2>4 DEF Writes, Answers, Alive, Tab, BaseInv, CallsFit
      <4>2. f \in {"save", "last"} /\ ~Idle(tab, f)
        BY <4>1 DEF CallFits, Ops, Flows, Sent, Idle
      <4>3. ~tab.saving /\ (~Idle(tab, "last") => row = "gone")
        BY <3>1, <4>1 DEF LeaveInv, ClosedInv
      <4>4. QED
        BY <1>1, <4>1, <4>2, <4>3 DEF BaseInv, SavingFits
    <3>2. CASE ~LeaveQuiet(tab)
      BY <3>2 DEF LeaveQuiet, Quiet, Unless
    <3>3. QED
      BY <3>1, <3>2
  <2>5. CASE \E f \in Flows : Writes(f)
    <3>1. Unless({"flip"}) => Unless({"lapse", "stale seed", "flip", "stale poll"})
      BY DEF Unless
    <3>2. QED
      BY <2>3, <2>4, <2>5, <3>1 DEF Mounted
  <2>6. CASE Meddles
    BY <2>6 DEF Meddles
  <2>7. CASE \E f \in Flows : AnswersGone(f) \/ AnswersText(f) \/ Grants(f) \/ Refuses(f) \/ Loses(f)
    BY <2>7 DEF AnswersGone, AnswersText, Grants, Refuses, Loses, serverVars
  <2>8. CASE Leaves \/ Releases \/ Expires \/ Removed
    BY <2>8 DEF Leaves, Releases, Expires, Removed
  <2>9. QED
    BY <2>1, <2>2, <2>5, <2>6, <2>7, <2>8 DEF RemoteShape
<1>4. QED
  BY <1>2, <1>3 DEF Next

(***************************************************************************)
(* A save takes nothing back that somebody else has written: the editor of *)
(* a public note writes only with the lock it is shown to have, and since  *)
(* it has it nobody else writes (NoteEditor.tsx, useNoteLock.ts,           *)
(* useAutosave.ts, routers/notes.py), except after the mishaps that        *)
(* the property names.                                                     *)
(***************************************************************************)
THEOREM NobodyIsOverwritten == Spec => NoOverwrite
<1> DEFINE Inv == IBase /\ LockInv(tab) /\ LeaveInv(tab) /\ OverInv(tab)
           Step == \/ text.theirs \subseteq text'.theirs
                   \/ Unless({"lapse", "stale seed", "flip", "stale poll"})
                   \/ ~Mounted /\ Unless({"hurry", "fault"})
<1>1. Init => Inv
  BY BaseOfInit, LockOfInit, LeaveOfInit, OverOfInit
<1>2. Inv /\ [Next]_vars => Inv'
  BY BaseStep, LockStep, LeaveStep, OverStep
<1>3. Inv /\ [Next]_vars => [Step]_vars
  BY KeepsTheirs
<1>4. NoOverwrite <=> [][Step]_vars
  BY DEF NoOverwrite
<1> HIDE DEF Inv, Step
<1>5. QED
  BY <1>1, <1>2, <1>3, <1>4, PTL DEF Spec
=============================================================================
