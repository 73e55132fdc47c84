------------------------ MODULE EditorSession_proofs ------------------------
(***************************************************************************)
(* The lock, from both ends. The steps of the editor have few shapes, and  *)
(* so have those of the server, the network and the others: with them, an  *)
(* editor shown as having the lock has it (MineIsHeld), and one that was   *)
(* left is silent (NoGhost).                                               *)
(***************************************************************************)
EXTENDS EditorTab_proofs

(***************************************************************************)
(* The shapes of the steps of the tab.                                     *)
(***************************************************************************)

\* Nothing has happened that leaves calls of an editor behind.
LeaveQuiet(t) == Quiet(t, {"hurry", "fault", "flip"})

\* The shapes of a step of the editor: it works on, ...
Works(t, u) ==
    /\ u \in Tab /\ u.page = t.page /\ SameLock(t, u) /\ u.told = t.told
    /\ t.mishaps \subseteq u.mishaps
    /\ u.draft.theirs = t.draft.theirs /\ t.draft.mine \subseteq u.draft.mine
    /\ \A f \in Flows \ {"save", "leave"} : u.calls[f] = t.calls[f]
    /\ \/ u.calls["leave"] = t.calls["leave"]
       \/ u.calls["leave"].got = NoDoc /\ u.calls["leave"].sent = NoDoc
    /\ \/ u.calls["save"] = t.calls["save"] /\ u.saving = t.saving
       \/ /\ ~t.saving /\ Editable(t) /\ u.saving /\ ~u.dirty
          /\ SentCall(u, "save", "patch", u.draft)
    /\ ~u.dirty /\ u.saving = t.saving => ~t.dirty \/ (~t.saving /\ ~Editable(t))
    /\ u.leaving # "no" /\ u.dirty => (t.leaving # "no" /\ t.dirty) \/ "hurry" \in u.mishaps

\* ... perhaps with one keystroke more, ...
Typing(t, u) ==
    /\ typed' \in Nat
    /\ \A n \in 1..typed' : n \in 1..typed \/ n \in u.draft.mine
    /\ typed' = typed \/ (Editable(t) /\ (u.dirty \/ u.saving # t.saving))

\* ... is left by its member, ...
MemberLeaves(t, u) ==
    \E w \in Tab :
      /\ Left(w, u) /\ w.page = "open" /\ SameLock(t, w) /\ w.told = t.told
      /\ t.mishaps \subseteq w.mishaps
      /\ \A f \in Flows \ {"leave"} : w.calls[f] = t.calls[f]
      /\ LeaveQuiet(u) => ~w.saving /\ ~w.dirty /\ ~t.saving /\ (t.dirty => ~Editable(t))

\* ... or asks for the lock, ...
TakesOver(t, u) ==
    /\ u \in Tab /\ SameView(t, u) /\ SameEdit(t, u) /\ SameLock(t, u)
    /\ t.page = "open" /\ t.shown = "available" /\ Idle(t, "take")
    /\ SentCall(u, "take", "lock", NoDoc) /\ OtherCalls(t, u, "take")
    /\ t.mishaps \subseteq u.mishaps

\* ... or stays without it.
ReadsOnly(t, u) ==
    /\ u \in Tab /\ SameView(t, u) /\ SameEdit(t, u)
    /\ u.note = t.note /\ u.held = t.held /\ u.beating = t.beating /\ u.releases = t.releases
    /\ t.page = "open" /\ t.shown = "conflict" /\ u.status = "locked" /\ u.shown = "locked"
    /\ SentCall(u, "poll", "get", NoDoc) /\ OtherCalls(t, u, "poll")
    /\ u.mishaps = t.mishaps

\* The autosave is work.
LEMMA WorksOfRun ==
  ASSUME NEW t \in Tab
  PROVE  Works(t, Run(t))
<1> DEFINE u == Run(t)
<1>1. /\ u \in Tab /\ SameView(t, u) /\ SameLock(t, u) /\ OtherCalls(t, u, "save")
      /\ u.mishaps = t.mishaps /\ u.draft = t.draft /\ u.touched = t.touched
      /\ u.told = t.told /\ u.leaving = t.leaving
      /\ t.saving => u = t
      /\ ~t.saving => ~u.dirty /\ ~u.armed
      /\ ~t.saving /\ ~(t.dirty /\ Editable(t)) => ~u.saving /\ u.calls = t.calls
      /\ ~t.saving /\ t.dirty /\ Editable(t) =>
           u.saving /\ SentCall(u, "save", "patch", t.draft)
  BY RunFacts
<1> HIDE DEF u
<1>2. u.calls["leave"] = t.calls["leave"] /\ \A f \in Flows \ {"save", "leave"} : u.calls[f] = t.calls[f]
  BY <1>1, FlowsAre DEF OtherCalls
<1>3. u.page = t.page
  BY <1>1 DEF SameView
<1>4. t.saving \in BOOLEAN /\ u.saving \in BOOLEAN
  BY <1>1 DEF Tab
<1>5. Works(t, u)
  BY <1>1, <1>2, <1>3, <1>4 DEF Works
<1>6. QED
  BY <1>5 DEF u

\* Work that sent nothing, and then some more.
LEMMA WorksOn ==
  ASSUME NEW t \in Tab, NEW e \in Tab, NEW u \in Tab, Works(t, e), Works(e, u),
         e.calls["save"] = t.calls["save"], e.saving = t.saving
  PROVE  Works(t, u)
<1>1. SameLock(t, u) /\ (Editable(e) <=> Editable(t))
  BY DEF Works, SameLock, Editable
<1>2. /\ u.page = t.page /\ u.told = t.told /\ t.mishaps \subseteq u.mishaps
      /\ u.draft.theirs = t.draft.theirs /\ t.draft.mine \subseteq u.draft.mine
  BY DEF Works
<1>3. /\ \A f \in Flows \ {"save", "leave"} : u.calls[f] = t.calls[f]
      /\ \/ u.calls["leave"] = t.calls["leave"]
         \/ u.calls["leave"].got = NoDoc /\ u.calls["leave"].sent = NoDoc
  BY DEF Works
<1>4. \/ u.calls["save"] = t.calls["save"] /\ u.saving = t.saving
      \/ /\ ~t.saving /\ Editable(t) /\ u.saving /\ ~u.dirty
         /\ SentCall(u, "save", "patch", u.draft)
  BY <1>1 DEF Works
<1>5. ~u.dirty /\ u.saving = t.saving => ~t.dirty \/ (~t.saving /\ ~Editable(t))
  BY <1>1 DEF Works
<1>6. u.leaving # "no" /\ u.dirty => (t.leaving # "no" /\ t.dirty) \/ "hurry" \in u.mishaps
  BY DEF Works
<1>7. QED
  BY <1>1, <1>2, <1>3, <1>4, <1>5, <1>6 DEF Works

\* Something queued, and perhaps run.
LEMMA WorksOfQueue ==
  ASSUME NEW t \in Tab, NEW e \in Tab, SameView(t, e), SameLock(t, e), e.calls = t.calls,
         t.mishaps \subseteq e.mishaps, e.draft.theirs = t.draft.theirs,
         t.draft.mine \subseteq e.draft.mine, e.told = t.told, e.saving = t.saving,
         e.leaving = t.leaving, e.dirty, t.leaving # "no" => "hurry" \in e.mishaps
  PROVE  Works(t, e) /\ Works(t, Run(e))
<1>1. Works(t, e)
  BY DEF Works, SameView
<1>2. Works(e, Run(e)) /\ Run(e) \in Tab
  BY WorksOfRun, RunFacts
<1>3. QED
  BY <1>1, <1>2, WorksOn

\* The save that a leave waits for is work.
LEMMA WorksOfFlush ==
  ASSUME NEW t \in Tab, NEW kind \in {"close", "archive"}, t.page = "open"
  PROVE  LET u == FlushedBefore(t, kind) IN Works(t, u) \/ MemberLeaves(t, u)
<1> DEFINE f == Flushing(t, kind)
           h == Hastening(t, kind)
           u == FlushedBefore(t, kind)
<1>1. /\ f \in Tab /\ SameView(t, f) /\ SameLock(t, f) /\ OtherCalls(t, f, "save")
      /\ f.mishaps = t.mishaps /\ f.draft = t.draft /\ f.told = t.told /\ f.leaving = kind
      /\ t.saving => f.saving /\ f.dirty = t.dirty /\ f.calls = t.calls
      /\ ~t.saving => ~f.dirty
      /\ ~t.saving /\ ~(t.dirty /\ Editable(t)) => ~f.saving /\ f.calls = t.calls
      /\ ~t.saving /\ t.dirty /\ Editable(t) =>
           f.saving /\ SentCall(f, "save", "patch", t.draft)
  BY FlushingFacts
<1>2. u = IF ~t.saving /\ t.dirty /\ Editable(t) THEN f ELSE Resume(h)
  BY FlushedFacts
<1>3. /\ h \in Tab /\ SameView(f, h) /\ SameEdit(f, h) /\ SameLock(f, h)
      /\ h.calls = f.calls /\ f.mishaps \subseteq h.mishaps
      /\ Busy(t) => "hurry" \in h.mishaps
  BY HasteningFacts
<1>0. t.saving \in BOOLEAN /\ f.saving \in BOOLEAN /\ h.saving \in BOOLEAN
  BY <1>1, <1>3 DEF Tab
<1> HIDE DEF f, h, u
<1>4. CASE ~t.saving /\ t.dirty /\ Editable(t)
  <2>1. u = f
    BY <1>2, <1>4
  <2>2. u.calls["leave"] = t.calls["leave"] /\ \A g \in Flows \ {"save", "leave"} : u.calls[g] = t.calls[g]
    BY <1>1, <2>1, FlowsAre DEF OtherCalls
  <2>3. Works(t, u)
    BY <1>0, <1>1, <1>4, <2>1, <2>2 DEF Works, SameView
  <2>4. QED
    BY <2>3 DEF u
<1>5. CASE ~(~t.saving /\ t.dirty /\ Editable(t))
  <2>1. u = Resume(h)
    BY <1>2, <1>5
  <2>2. /\ h.page = "open" /\ SameLock(t, h) /\ h.told = t.told /\ h.draft = t.draft
        /\ t.mishaps \subseteq h.mishaps /\ h.calls = t.calls /\ h.leaving = kind
        /\ h.saving = t.saving
        /\ t.saving => h.dirty = t.dirty
        /\ ~t.saving => ~h.dirty
    <3>1. h.page = "open" /\ SameLock(t, h)
      BY <1>1, <1>3 DEF SameView, SameLock
    <3>2. f.calls = t.calls /\ f.saving = t.saving
      BY <1>0, <1>1, <1>5
    <3>3. QED
      BY <1>1, <1>3, <3>1, <3>2 DEF SameEdit
  <2>3. CASE kind = "close"
    <3>1. Left(h, u)
      BY <1>3, <2>1, <2>2, <2>3, ResumeFacts
    <3>2. LeaveQuiet(u) => ~h.saving /\ ~h.dirty /\ ~t.saving /\ (t.dirty => ~Editable(t))
      <4>1. LeaveQuiet(u) => ~Busy(t)
        BY <1>3, <3>1 DEF LeaveQuiet, Quiet, Left
      <4>2. QED
        BY <1>5, <2>2, <4>1 DEF Busy
    <3>3. \A g \in Flows \ {"leave"} : h.calls[g] = t.calls[g]
      BY <2>2
    <3>4. MemberLeaves(t, u)
      BY <1>3, <2>2, <3>1, <3>2, <3>3 DEF MemberLeaves
    <3>5. QED
      BY <3>4 DEF u
  <2>4. CASE kind = "archive"
    <3>1. Archives(h, u)
      BY <1>3, <2>1, <2>2, <2>4, ResumeFacts
    <3>2. /\ u \in Tab /\ u.page = t.page /\ SameLock(t, u) /\ u.told = t.told
          /\ u.draft = t.draft /\ t.mishaps \subseteq u.mishaps
          /\ u.saving = t.saving /\ u.dirty = h.dirty /\ u.leaving = "no"
      <4>1. SameLock(t, u)
        BY <2>2, <3>1 DEF Archives, SameLock
      <4>2. QED
        BY <2>2, <3>1, <4>1 DEF Archives, SameView
    <3>3. /\ u.calls["save"] = t.calls["save"]
          /\ \A g \in Flows \ {"save", "leave"} : u.calls[g] = t.calls[g]
          /\ u.calls["leave"].got = NoDoc /\ u.calls["leave"].sent = NoDoc
      BY <2>2, <3>1, FlowsAre DEF Archives, OtherCalls, SentCall
    <3>4. ~u.dirty /\ u.saving = t.saving => ~t.dirty \/ (~t.saving /\ ~Editable(t))
      BY <1>5, <2>2, <3>2
    <3>5. Works(t, u)
      BY <3>2, <3>3, <3>4 DEF Works
    <3>6. QED
      BY <3>5 DEF u
  <2>5. QED
    BY <2>3, <2>4
<1>6. QED
  BY <1>4, <1>5

\* Work that goes with one keystroke.
Typed(t, u) == Works(t, u) /\ Typing(t, u)

\* A keystroke is that.
LEMMA TypedStep ==
  ASSUME tab \in Tab, typed \in Nat, NEW immediate \in BOOLEAN, Edit(immediate)
  PROVE  Typed(tab, tab') /\ UNCHANGED serverVars
<1> DEFINE e == Queue([tab EXCEPT !.draft.mine = @ \cup {typed + 1}])
<1>1. /\ e \in Tab /\ SameView(tab, e) /\ SameLock(tab, e) /\ e.calls = tab.calls
      /\ tab.mishaps \subseteq e.mishaps
      /\ e.draft.mine = tab.draft.mine \cup {typed + 1} /\ e.draft.theirs = tab.draft.theirs
      /\ e.told = tab.told /\ e.saving = tab.saving /\ e.leaving = tab.leaving
      /\ e.touched /\ e.dirty /\ e.armed
      /\ tab.leaving # "no" => "hurry" \in e.mishaps
  BY TypedFacts
<1>2. /\ Editable(tab) /\ typed' = typed + 1 /\ UNCHANGED serverVars
      /\ tab' = IF immediate THEN Run(e) ELSE e
  BY DEF Edit
<1> HIDE DEF e
<1>3. Works(tab, e) /\ Works(tab, Run(e))
  BY <1>1, WorksOfQueue
<1>4. Works(tab, tab')
  BY <1>2, <1>3
<1>5. Editable(e)
  BY <1>1, <1>2 DEF SameLock, Editable
<1>6. tab'.draft = e.draft /\ (tab'.dirty \/ tab'.saving # tab.saving)
  <2>1. CASE immediate
    <3>1. /\ Run(e).draft = e.draft /\ (e.saving => Run(e) = e)
          /\ ~e.saving => Run(e).saving
      BY <1>1, <1>5, RunFacts
    <3>2. QED
      BY <1>1, <1>2, <2>1, <3>1
  <2>2. CASE ~immediate
    BY <1>1, <1>2, <2>2
  <2>3. QED
    BY <2>1, <2>2
<1>7. \A n \in 1..typed' : n \in 1..typed \/ n \in tab'.draft.mine
  BY <1>1, <1>2, <1>6
<1>8. QED
  BY <1>2, <1>4, <1>6, <1>7 DEF Typed, Typing

\* Everything else is work without one.
LEMMA NotTyping ==
  ASSUME NEW t, NEW u, typed \in Nat, typed' = typed
  PROVE  Typing(t, u)
BY DEF Typing

\* Its tab is closed, and that is noted.
Closes == tab'.page = "dead" /\ "hurry" \in tab'.mishaps

\* What its member and the debounce timer make of the editor.
MemberShape ==
    \/ Typed(tab, tab') /\ (tab.page = "open" \/ tab.armed)
    \/ typed' = typed /\ tab.page = "open" /\ MemberLeaves(tab, tab')
    \/ typed' = typed /\ TakesOver(tab, tab')
    \/ typed' = typed /\ ReadsOnly(tab, tab')
    \/ typed' = typed /\ Closes

\* Who does not wait leaves.
LEMMA LeftByHaste ==
  ASSUME NEW t \in Tab, NEW d \in Tab, d.page = "open", SameView(d, t), SameEdit(d, t),
         SameLock(d, t), d.mishaps \subseteq t.mishaps,
         \A f \in Flows \ {"leave"} : d.calls[f] = t.calls[f],
         NEW u, Left(t, u), d.dirty \/ d.saving => "hurry" \in t.mishaps
  PROVE  MemberLeaves(d, u)
<1>1. t.page = "open" /\ t.told = d.told /\ t.dirty = d.dirty /\ t.saving = d.saving
  BY DEF SameView, SameEdit
<1>2. LeaveQuiet(u) => "hurry" \notin t.mishaps
  BY DEF LeaveQuiet, Quiet, Left
<1>3. QED
  BY <1>1, <1>2 DEF MemberLeaves

\* Every step of the member and of the debounce timer has one of these
\* shapes.
LEMMA MemberSteps ==
  ASSUME TypeOK, BaseInv(tab), Member \/ TimerFires
  PROVE  MemberShape /\ UNCHANGED serverVars
<1>1. tab \in Tab /\ typed \in Nat
  BY DEF TypeOK
<1>2. CASE Type \/ PickColor
  <2>1. PICK immediate \in BOOLEAN : Edit(immediate)
    BY <1>2 DEF Type, PickColor
  <2>2. tab.page = "open"
    BY <2>1 DEF Edit, Rendered, Mounted
  <2>3. QED
    BY <1>1, <2>1, <2>2, TypedStep DEF MemberShape
<1>3. CASE ToggleVisibility
  <2> DEFINE t == Flipped(tab)
  <2>1. /\ t \in Tab /\ SameView(tab, t) /\ SameLock(tab, t) /\ t.calls = tab.calls
        /\ tab.mishaps \subseteq t.mishaps
        /\ t.draft.mine = tab.draft.mine /\ t.draft.theirs = tab.draft.theirs
        /\ t.told = tab.told /\ t.saving = tab.saving /\ t.leaving = tab.leaving
        /\ t.dirty /\ (tab.leaving # "no" => "hurry" \in t.mishaps)
    BY <1>1, FlippedFacts
  <2>2. /\ tab' = Run(t) /\ tab.page = "open" /\ UNCHANGED <<serverVars, typed>>
    BY <1>3 DEF ToggleVisibility, Flipped, Rendered, Mounted
  <2> HIDE DEF t
  <2>3. Works(tab, tab')
    BY <1>1, <2>1, <2>2, WorksOfQueue
  <2>4. QED
    BY <1>1, <2>2, <2>3, NotTyping DEF MemberShape, Typed
<1>4. CASE Blur
  <2>1. tab' = Run(tab) /\ tab.page = "open" /\ UNCHANGED <<serverVars, typed>>
    BY <1>4 DEF Blur, Rendered, Mounted
  <2>2. QED
    BY <1>1, <2>1, WorksOfRun, NotTyping DEF MemberShape, Typed
<1>5. CASE TimerFires
  <2> DEFINE t == [tab EXCEPT !.armed = FALSE]
  <2>1. tab' = Run(t) /\ tab.armed /\ UNCHANGED <<serverVars, typed>>
    BY <1>5 DEF TimerFires
  <2>2. /\ t \in Tab /\ t.page = tab.page /\ SameLock(tab, t) /\ t.calls = tab.calls
        /\ t.mishaps = tab.mishaps /\ t.draft = tab.draft /\ t.told = tab.told
        /\ t.saving = tab.saving /\ t.dirty = tab.dirty /\ t.leaving = tab.leaving
    BY <1>1 DEF Tab, SameLock
  <2> HIDE DEF t
  <2>3. Works(tab, t) /\ Works(t, Run(t)) /\ Run(t) \in Tab
    BY <2>2, WorksOfRun, RunFacts DEF Works
  <2>4. Works(tab, tab')
    BY <1>1, <2>1, <2>2, <2>3, WorksOn
  <2>5. QED
    BY <1>1, <2>1, <2>4, NotTyping DEF MemberShape, Typed
<1>6. CASE Close
  <2>1. tab' = FlushedBefore(tab, "close") /\ tab.page = "open" /\ UNCHANGED <<serverVars, typed>>
    BY <1>6 DEF Close, CanLeave, Rendered, Mounted
  <2>2. Works(tab, tab') \/ MemberLeaves(tab, tab')
    BY <1>1, <2>1, WorksOfFlush
  <2>3. QED
    BY <1>1, <2>1, <2>2, NotTyping DEF MemberShape, Typed
<1>7. CASE ArchiveNote
  <2> DEFINE t == [tab EXCEPT !.overlay = "none"]
  <2>1. /\ tab' = FlushedBefore(t, "archive") /\ tab.page = "open" /\ tab.leaving = "no"
        /\ UNCHANGED <<serverVars, typed>>
    BY <1>7 DEF ArchiveNote, CanLeave, Rendered, Mounted
  <2>2. t \in Tab /\ t.page = tab.page /\ SameEdit(tab, t) /\ SameLock(tab, t) /\ SameCalls(tab, t)
    BY <1>1, OverlayFacts
  <2> HIDE DEF t
  <2>3. Works(tab, t)
    BY <2>2 DEF Works, SameEdit, SameCalls
  <2>4. /\ Works(t, tab') \/ MemberLeaves(t, tab')
    BY <2>1, <2>2, WorksOfFlush
  <2>5. CASE Works(t, tab')
    <3>1. tab' \in Tab /\ t.calls = tab.calls /\ t.saving = tab.saving
      BY <2>2, <2>5 DEF Works, SameEdit, SameCalls
    <3>2. Works(tab, tab')
      BY <1>1, <2>2, <2>3, <2>5, <3>1, WorksOn
    <3>3. QED
      BY <1>1, <2>1, <3>2, NotTyping DEF MemberShape, Typed
  <2>6. CASE MemberLeaves(t, tab')
    <3>1. PICK w \in Tab :
            /\ Left(w, tab') /\ w.page = "open" /\ SameLock(t, w) /\ w.told = t.told
            /\ t.mishaps \subseteq w.mishaps
            /\ \A f \in Flows \ {"leave"} : w.calls[f] = t.calls[f]
            /\ LeaveQuiet(tab') => ~w.saving /\ ~w.dirty /\ ~t.saving /\ (t.dirty => ~Editable(t))
      BY <2>6 DEF MemberLeaves
    <3>2. SameLock(tab, w) /\ (Editable(t) <=> Editable(tab))
      BY <2>2, <3>1 DEF SameLock, Editable
    <3>3. /\ w.told = tab.told /\ tab.mishaps \subseteq w.mishaps
          /\ \A f \in Flows \ {"leave"} : w.calls[f] = tab.calls[f]
          /\ t.saving = tab.saving /\ t.dirty = tab.dirty
      BY <2>2, <3>1 DEF SameEdit, SameCalls
    <3>4. MemberLeaves(tab, tab')
      BY <3>1, <3>2, <3>3 DEF MemberLeaves
    <3>5. QED
      BY <2>1, <3>4 DEF MemberShape
  <2>7. QED
    BY <2>4, <2>5, <2>6
<1>8. CASE OpenMenu \/ CloseOverlay \/ AskDelete
  <2>1. UNCHANGED <<serverVars, typed>> /\ tab.page = "open"
    BY <1>8 DEF OpenMenu, CloseOverlay, AskDelete, Rendered, Mounted
  <2>2. \E o \in {"none", "menu", "confirm"} : tab' = [tab EXCEPT !.overlay = o]
    BY <1>8 DEF OpenMenu, CloseOverlay, AskDelete
  <2>3. /\ tab' \in Tab /\ tab'.page = tab.page /\ SameEdit(tab, tab') /\ SameLock(tab, tab')
        /\ SameCalls(tab, tab')
    BY <1>1, <2>2, OverlayFacts
  <2>4. Works(tab, tab')
    BY <2>3 DEF Works, SameEdit, SameCalls
  <2>5. QED
    BY <1>1, <2>1, <2>4, NotTyping DEF MemberShape, Typed
<1>9. CASE RemoveNote
  <2> DEFINE t == [tab EXCEPT !.overlay = "none"]
  <2>1. /\ tab' = Send(t, "leave", "delete", NoDoc) /\ UNCHANGED <<serverVars, typed>>
        /\ tab.page = "open"
    BY <1>9 DEF RemoveNote, CanLeave, Rendered, Mounted
  <2>2. t \in Tab /\ t.page = tab.page /\ SameEdit(tab, t) /\ SameLock(tab, t) /\ SameCalls(tab, t)
    BY <1>1, OverlayFacts
  <2> HIDE DEF t
  <2>3. /\ tab' \in Tab /\ SameView(t, tab') /\ SameEdit(t, tab') /\ SameLock(t, tab')
        /\ tab'.mishaps = t.mishaps /\ SentCall(tab', "leave", "delete", NoDoc)
        /\ OtherCalls(t, tab', "leave")
    BY <2>1, <2>2, SendFacts, DocTypes, FlowsAre
  <2>4. SameLock(tab, tab') /\ SameEdit(tab, tab') /\ tab'.page = tab.page
    BY <2>2, <2>3 DEF SameLock, SameEdit, SameView
  <2>5. /\ \A f \in Flows \ {"save", "leave"} : tab'.calls[f] = tab.calls[f]
        /\ tab'.calls["save"] = tab.calls["save"]
        /\ tab'.calls["leave"].got = NoDoc /\ tab'.calls["leave"].sent = NoDoc
        /\ tab'.mishaps = tab.mishaps
    BY <2>2, <2>3, FlowsAre DEF SameCalls, OtherCalls, SentCall
  <2>6. Works(tab, tab')
    BY <2>3, <2>4, <2>5 DEF Works, SameEdit
  <2>7. QED
    BY <1>1, <2>1, <2>6, NotTyping DEF MemberShape, Typed
<1>10. CASE GoBack
  <2> DEFINE t == NotingIf(tab, tab.dirty \/ Busy(tab), "hurry")
  <2>1. tab' = Unmount(t) /\ UNCHANGED <<serverVars, typed>> /\ tab.page = "open"
    BY <1>10 DEF GoBack, Mounted
  <2>2. (tab.dirty \/ Busy(tab)) \in BOOLEAN /\ "hurry" \in Mishaps
    BY <1>1 DEF Busy, Idle, Tab, Mishaps
  <2>3. /\ t \in Tab /\ SameView(tab, t) /\ SameEdit(tab, t) /\ SameLock(tab, t)
        /\ t.calls = tab.calls /\ tab.mishaps \subseteq t.mishaps
        /\ tab.dirty \/ Busy(tab) => "hurry" \in t.mishaps
    BY <1>1, <2>2, NotingIfFacts
  <2> HIDE DEF t
  <2>4. Left(t, tab')
    BY <2>1, <2>3, UnmountFacts
  <2>5. MemberLeaves(tab, tab')
    BY <1>1, <2>1, <2>3, <2>4, LeftByHaste DEF Busy
  <2>6. QED
    BY <2>1, <2>5 DEF MemberShape
<1>11. CASE CloseTab
  <2>1. Closes /\ UNCHANGED <<serverVars, typed>>
    BY <1>1, <1>11, CloseTabFacts DEF CloseTab, Closes
  <2>2. QED
    BY <2>1 DEF MemberShape
<1>12. CASE TakeOver
  <2> DEFINE t == Send(tab, "take", "lock", NoDoc)
  <2>1. /\ tab' = NotingIf(t, tab.leaving # "no", "hurry") /\ UNCHANGED <<serverVars, typed>>
        /\ tab.page = "open" /\ tab.shown = "available" /\ Idle(tab, "take")
    BY <1>12 DEF TakeOver, Mounted
  <2>2. /\ t \in Tab /\ SameView(tab, t) /\ SameEdit(tab, t) /\ SameLock(tab, t)
        /\ t.mishaps = tab.mishaps /\ SentCall(t, "take", "lock", NoDoc) /\ OtherCalls(tab, t, "take")
    BY <1>1, SendFacts, DocTypes, FlowsAre
  <2> HIDE DEF t
  <2>3. /\ tab' \in Tab /\ SameView(t, tab') /\ SameEdit(t, tab') /\ SameLock(t, tab')
        /\ tab'.calls = t.calls /\ t.mishaps \subseteq tab'.mishaps
    BY <2>1, <2>2, NotingIfFacts DEF Mishaps
  <2>4. SameView(tab, tab') /\ SameEdit(tab, tab') /\ SameLock(tab, tab')
    BY <2>2, <2>3 DEF SameView, SameEdit, SameLock
  <2>5. TakesOver(tab, tab')
    BY <2>1, <2>2, <2>3, <2>4 DEF TakesOver, SentCall, OtherCalls
  <2>6. QED
    BY <2>1, <2>5 DEF MemberShape
<1>13. CASE GoReadOnly
  <2> DEFINE l == Transition(tab, "locked")
             p == StartPolling(l)
  <2>1. /\ tab' = Send(p, "poll", "get", NoDoc) /\ UNCHANGED <<serverVars, typed>>
        /\ tab.page = "open" /\ tab.shown = "conflict"
    BY <1>13 DEF GoReadOnly, Mounted
  <2>2. /\ l \in Tab /\ SameView(tab, l) /\ SameEdit(tab, l) /\ SameCalls(tab, l)
        /\ l.note = tab.note /\ l.held = tab.held /\ l.beating = tab.beating
        /\ l.releases = tab.releases /\ l.status = "locked"
        /\ l.shown = IF tab.page = "open" THEN "locked" ELSE tab.shown
    BY <1>1, TransitionFacts DEF LockStatus
  <2> HIDE DEF l
  <2>3. /\ p \in Tab /\ SameView(l, p) /\ SameEdit(l, p) /\ SameCalls(l, p)
        /\ p.note = l.note /\ p.held = l.held /\ p.beating = l.beating
        /\ p.releases = l.releases /\ p.status = l.status /\ p.shown = l.shown
    BY <2>2, TimersFacts
  <2> HIDE DEF p
  <2>4. /\ tab' \in Tab /\ SameView(p, tab') /\ SameEdit(p, tab') /\ SameLock(p, tab')
        /\ tab'.mishaps = p.mishaps /\ SentCall(tab', "poll", "get", NoDoc)
        /\ OtherCalls(p, tab', "poll")
    BY <2>1, <2>3, SendFacts, DocTypes, FlowsAre
  <2>5. SameView(tab, tab') /\ SameEdit(tab, tab')
    BY <2>2, <2>3, <2>4 DEF SameView, SameEdit
  <2>6. /\ tab'.note = tab.note /\ tab'.held = tab.held /\ tab'.beating = tab.beating
        /\ tab'.releases = tab.releases /\ tab'.status = "locked" /\ tab'.shown = "locked"
    BY <2>1, <2>2, <2>3, <2>4 DEF SameLock
  <2>7. OtherCalls(tab, tab', "poll") /\ tab'.mishaps = tab.mishaps
    BY <2>2, <2>3, <2>4 DEF SameCalls, OtherCalls
  <2>8. ReadsOnly(tab, tab')
    BY <2>1, <2>4, <2>5, <2>6, <2>7 DEF ReadsOnly
  <2>9. QED
    BY <2>1, <2>8 DEF MemberShape
<1>14. QED
  BY <1>2, <1>3, <1>4, <1>5, <1>6, <1>7, <1>8, <1>9, <1>10, <1>11, <1>12, <1>13 DEF Member

\* The two intervals: the heartbeat asks for the lock again, ...
Beats(t, u) ==
    /\ u \in Tab /\ SameView(t, u) /\ SameEdit(t, u) /\ SameLock(t, u)
    /\ t.beating /\ t.status = "mine"
    /\ SentCall(u, "beat", "lock", NoDoc) /\ OtherCalls(t, u, "beat") /\ u.mishaps = t.mishaps

\* ... and the poll for the note.
Polls(t, u) ==
    /\ u \in Tab /\ SameView(t, u) /\ SameEdit(t, u) /\ SameLock(t, u)
    /\ t.polling /\ t.status \in {"locked", "available"}
    /\ SentCall(u, "poll", "get", NoDoc) /\ OtherCalls(t, u, "poll") /\ u.mishaps = t.mishaps

\* The other timers do one or the other.
LEMMA TickSteps ==
  ASSUME tab \in Tab, HeartbeatTick \/ PollTick
  PROVE  (Beats(tab, tab') \/ Polls(tab, tab')) /\ UNCHANGED <<serverVars, typed>>
<1>1. CASE HeartbeatTick
  BY <1>1, SendFacts, DocTypes, FlowsAre DEF HeartbeatTick, Beats
<1>2. CASE PollTick
  BY <1>2, SendFacts, DocTypes, FlowsAre DEF PollTick, Polls
<1>3. QED
  BY <1>1, <1>2

(***************************************************************************)
(* An editor shown as having the lock has it.                              *)
(***************************************************************************)

\* The server has granted the lock to this call.
Granted(t, f) == t.calls[f].op = "lock" /\ t.calls[f].at = "ok"

\* An editor shown as having the lock keeps it alive, and the server's word
\* agrees: what is shown as mine is mine, and so is what has been granted
\* and not yet been heard of. It says nothing once the lock has lapsed, or
\* the note has changed its visibility under the session.
LockInv(t) ==
    t.page = "open" /\ Quiet(t, {"lapse", "flip"}) =>
      /\ t.releases = 0
      /\ row = "live" =>
           /\ t.shown = "mine" => t.beating /\ Holds(Me)
           /\ Granted(t, "take") \/ Granted(t, "save") => Holds(Me)

\* The lock of the member at the editor is not touched.
LEMMA LockKept ==
  ASSUME NEW t \in Tab, NEW u \in Tab, LockInv(t),
         u.page = "open" => t.page = "open",
         t.mishaps \subseteq u.mishaps, u.releases = t.releases,
         u.shown = "mine" => t.shown = "mine" /\ u.beating = t.beating,
         \A f \in {"take", "save"} : Granted(u, f) => Granted(t, f)
  PROVE  LockInv(u)
BY DEF LockInv, Quiet

\* An editor that is shown as another's, whatever becomes of its calls.
LEMMA LockUnshown ==
  ASSUME NEW t \in Tab, NEW u \in Tab, LockInv(t), SameView(t, u),
         t.mishaps \subseteq u.mishaps, u.releases = t.releases \/ "flip" \in u.mishaps,
         u.page = "open" => u.shown # "mine",
         \A f \in {"take", "save"} : Granted(u, f) => Granted(t, f)
  PROVE  LockInv(u)
BY DEF LockInv, Quiet, SameView

\* A call is over.
LEMMA LockOfDone ==
  ASSUME NEW t \in Tab, NEW f \in Flows, LockInv(t)
  PROVE  LockInv(Done(t, f))
<1> DEFINE u == Done(t, f)
<1>1. /\ u \in Tab /\ SameView(t, u) /\ SameEdit(t, u) /\ SameLock(t, u)
      /\ u.mishaps = t.mishaps /\ u.calls[f].op = "none" /\ OtherCalls(t, u, f)
  BY DoneFacts
<1> HIDE DEF u
<1>2. \A g \in {"take", "save"} : Granted(u, g) => Granted(t, g)
  BY <1>1, FlowsAre DEF Granted, OtherCalls
<1>3. LockInv(u)
  BY <1>1, <1>2, LockKept DEF SameView, SameLock
<1>4. QED
  BY <1>3 DEF u

\* The note is known, or known anew: the lock is released or asked for.
LEMMA LockOfSetNote ==
  ASSUME NEW t \in Tab, NEW a \in Call, NEW other \in BOOLEAN, LockInv(t)
  PROVE  LockInv(SetNote(t, a, other))
<1> DEFINE u == SetNote(t, a, other)
           vis == a.got.vis
<1>1. vis \in {"PRIVATE", "PUBLIC"}
  BY DEF Call, Doc
<1>2. /\ u \in Tab /\ SameView(t, u) /\ SameEdit(t, u) /\ OtherCalls(t, u, "take")
      /\ t.mishaps \subseteq u.mishaps
      /\ t.page # "open" \/ t.note = vis => u = t
      /\ t.page = "open" /\ t.note # vis =>
           /\ u.shown = u.status
           /\ t.note # None => "flip" \in u.mishaps
           /\ t.note = None => u.releases = t.releases
           /\ vis = "PRIVATE" => u.calls = t.calls /\ u.status = "none"
           /\ vis = "PUBLIC" /\ other => u.calls = t.calls /\ u.status = "locked"
           /\ vis = "PUBLIC" /\ ~other =>
                SentCall(u, "take", "lock", NoDoc) /\ u.status = "pending"
  BY SetNoteFacts
<1> HIDE DEF u, vis
<1>3. CASE t.page # "open" \/ t.note = vis
  BY <1>2, <1>3 DEF u
<1>4. CASE t.page = "open" /\ t.note # vis
  <2>1. u.shown # "mine" /\ (u.calls = t.calls \/ SentCall(u, "take", "lock", NoDoc))
    BY <1>1, <1>2, <1>4
  <2>2. \A f \in {"take", "save"} : Granted(u, f) => Granted(t, f)
    BY <1>2, <2>1, FlowsAre DEF Granted, SentCall, OtherCalls
  <2>3. LockInv(u)
    BY <1>2, <1>4, <2>1, <2>2, LockUnshown
  <2>4. QED
    BY <2>3 DEF u
<1>5. QED
  BY <1>3, <1>4

\* The server's text is rendered.
LEMMA LockOfApplied ==
  ASSUME NEW t \in Tab, NEW a \in Call, NEW other \in BOOLEAN, LockInv(t)
  PROVE  LockInv(ApplyServer(t, a, other))
<1> DEFINE d == [t EXCEPT !.draft = a.got]
<1>1. a.got \in Doc
  BY DEF Call
<1>2. d \in Tab /\ SameView(t, d) /\ SameLock(t, d) /\ SameCalls(t, d)
  BY <1>1, DraftFacts
<1>3. ApplyServer(t, a, other) = SetNote(d, a, other)
  BY DEF ApplyServer
<1> HIDE DEF d
<1>4. LockInv(d)
  BY <1>2, LockKept DEF SameView, SameLock, SameCalls, Granted
<1>5. QED
  BY <1>2, <1>3, <1>4, LockOfSetNote

\* The lock that came is the lock the server has given.
LEMMA LockOfAcquired ==
  ASSUME NEW t \in Tab, NEW a \in Call, LockInv(t), t.page = "open" => t.note # None,
         t.page = "open" /\ Quiet(t, {"lapse", "flip"}) /\ row = "live" => Holds(Me)
  PROVE  LockInv(Acquired(t, a))
<1> DEFINE u == Acquired(t, a)
           flips == t.page = "open" /\ t.shown # "mine" /\ t.note # a.got.vis
<1>1. /\ u \in Tab /\ SameView(t, u)
      /\ t.mishaps \subseteq u.mishaps
      /\ flips /\ t.note # None => "flip" \in u.mishaps
      /\ ~flips => u.releases = t.releases /\ u.beating
  BY AcquiredFacts
<1> HIDE DEF u
<1>2. LockInv(u)
  BY <1>1 DEF LockInv, Quiet, SameView
<1>3. QED
  BY <1>2 DEF u

\* The lock is lost to somebody.
LEMMA LockOfConflict ==
  ASSUME NEW t \in Tab, typed \in Nat, LockInv(t)
  PROVE  LockInv(EnterConflict(t))
<1> DEFINE u == EnterConflict(t)
<1>1. /\ u \in Tab /\ SameView(t, u) /\ SameCalls(t, u) /\ u.releases = t.releases
      /\ u.shown = IF t.page = "open" THEN "conflict" ELSE t.shown
  BY ConflictFacts
<1> HIDE DEF u
<1>2. LockInv(u)
  BY <1>1, LockUnshown DEF SameCalls, Granted, SameView
<1>3. QED
  BY <1>2 DEF u

\* A save settles.
LEMMA LockOfSettled ==
  ASSUME NEW t \in Tab, NEW f \in {"save", "last"}, NEW ok \in BOOLEAN, LockInv(t)
  PROVE  LockInv(Settle(t, f, ok))
<1>1. CASE f = "last"
  BY <1>1, SettleFacts, LockOfDone, FlowsAre
<1>2. CASE f = "save"
  <2> DEFINE e == Ended(t, ok)
             u == Resume(e)
  <2>1. Settle(t, f, ok) = u
    BY <1>2, SettleFacts
  <2>2. /\ e \in Tab /\ SameView(t, e) /\ SameLock(t, e) /\ e.mishaps = t.mishaps
        /\ e.calls["save"].op = "none" /\ OtherCalls(t, e, "save")
    BY EndedFacts
  <2> HIDE DEF e
  <2>3. \A g \in {"take", "save"} : Granted(e, g) => Granted(t, g)
    BY <2>2, FlowsAre DEF Granted, OtherCalls
  <2>4. LockInv(e)
    BY <2>2, <2>3, LockKept DEF SameView, SameLock
  <2>5. /\ u \in Tab
        /\ e.leaving = "no" => u = e
        /\ e.leaving = "close" => Left(e, u)
        /\ e.leaving = "archive" => Archives(e, u)
        /\ e.leaving \in {"no", "close", "archive"}
    BY <2>2, ResumeFacts DEF Tab
  <2> HIDE DEF u
  <2>6. CASE u = e
    BY <2>1, <2>4, <2>6
  <2>7. CASE Left(e, u)
    BY <2>1, <2>7 DEF LockInv, Left
  <2>8. CASE Archives(e, u)
    <3>1. \A g \in {"take", "save"} : Granted(u, g) => Granted(e, g)
      BY <2>8, FlowsAre DEF Granted, OtherCalls, Archives
    <3>2. QED
      BY <2>1, <2>2, <2>4, <2>5, <2>8, <3>1, LockKept DEF SameView, SameLock, Archives
  <2>9. QED
    BY <2>5, <2>6, <2>7, <2>8
<1>3. QED
  BY <1>1, <1>2

\* The server's part is not touched.
LEMMA LockAlone ==
  ASSUME LockInv(tab'), UNCHANGED serverVars
  PROVE  LockInv(tab)'
BY DEF LockInv, Quiet, Granted, Holds, serverVars

\* The member and the timers keep the lock.
LEMMA LockOfMember ==
  ASSUME IBase, LockInv(tab), Member \/ Timers
  PROVE  LockInv(tab)'
<1>1. tab \in Tab /\ TypeOK /\ BaseInv(tab)
  BY DEF IBase, TypeOK
<1>2. CASE Member \/ TimerFires
  <2>1. MemberShape /\ UNCHANGED serverVars
    BY <1>1, <1>2, MemberSteps
  <2>2. CASE Works(tab, tab')
    <3>1. \A f \in {"take", "save"} : Granted(tab', f) => Granted(tab, f)
      BY <2>2, FlowsAre DEF Granted, Works, SentCall
    <3>2. LockInv(tab')
      BY <1>1, <2>2, <3>1, LockKept DEF Works, SameLock
    <3>3. QED
      BY <2>1, <3>2, LockAlone
  <2>3. CASE MemberLeaves(tab, tab') \/ tab'.page = "dead"
    <3>1. LockInv(tab')
      BY <2>3 DEF LockInv, MemberLeaves, Left
    <3>2. QED
      BY <2>1, <3>1, LockAlone
  <2>4. CASE TakesOver(tab, tab')
    <3>1. \A f \in {"take", "save"} : Granted(tab', f) => Granted(tab, f)
      BY <2>4, FlowsAre DEF Granted, TakesOver, SentCall, OtherCalls
    <3>2. LockInv(tab')
      BY <1>1, <2>4, <3>1, LockKept DEF TakesOver, SameLock, SameView
    <3>3. QED
      BY <2>1, <3>2, LockAlone
  <2>5. CASE ReadsOnly(tab, tab')
    <3>1. \A f \in {"take", "save"} : Granted(tab', f) => Granted(tab, f)
      BY <2>5, FlowsAre DEF Granted, ReadsOnly, SentCall, OtherCalls
    <3>2. LockInv(tab')
      BY <1>1, <2>5, <3>1, LockKept DEF ReadsOnly, SameView
    <3>3. QED
      BY <2>1, <3>2, LockAlone
  <2>6. QED
    BY <2>1, <2>2, <2>3, <2>4, <2>5 DEF MemberShape, Closes, Typed
<1>3. CASE HeartbeatTick \/ PollTick
  <2>1. (Beats(tab, tab') \/ Polls(tab, tab')) /\ UNCHANGED serverVars
    BY <1>1, <1>3, TickSteps
  <2>2. /\ tab' \in Tab /\ SameView(tab, tab') /\ SameLock(tab, tab') /\ tab'.mishaps = tab.mishaps
        /\ \A f \in {"take", "save"} : Granted(tab', f) => Granted(tab, f)
    BY <2>1, FlowsAre DEF Beats, Polls, Granted, OtherCalls
  <2>3. LockInv(tab')
    BY <1>1, <2>2, LockKept DEF SameView, SameLock
  <2>4. QED
    BY <2>1, <2>3, LockAlone
<1>4. QED
  BY <1>2, <1>3 DEF Timers

\* The answers keep the lock.
LEMMA LockOfAnswered ==
  ASSUME IBase, LockInv(tab), Answered
  PROVE  LockInv(tab)'
<1>1. tab \in Tab /\ typed \in Nat /\ BaseInv(tab)
  BY DEF IBase, TypeOK
<1>2. ASSUME NEW expired \in BOOLEAN, LoadAnswered(expired) PROVE LockInv(tab)'
  <2> DEFINE t == Done(tab, "load")
             a == tab.calls["load"]
             other == HeldByOther("load", expired)
  <2>1. a \in Call /\ other \in BOOLEAN /\ UNCHANGED serverVars
    BY <1>2, BackFacts, FlowsAre DEF LoadAnswered
  <2>2. tab' = ApplyServer(t, a, other) \/ tab' = t
    BY <1>2 DEF LoadAnswered
  <2>3. t \in Tab /\ LockInv(t)
    BY <1>1, DoneFacts, LockOfDone, FlowsAre
  <2> HIDE DEF t, a, other
  <2>4. QED
    BY <2>1, <2>2, <2>3, LockOfApplied, LockAlone
<1>3. ASSUME NEW expired \in BOOLEAN, PollAnswered(expired) PROVE LockInv(tab)'
  <2> DEFINE d == Done(tab, "poll")
             a == tab.calls["poll"]
             other == HeldByOther("poll", expired)
             t == OnRefresh(d, a, other)
             next == IF other THEN "locked" ELSE "available"
             u == Transition(t, next)
             s == StopTimers(d)
  <2>1. a \in Call /\ other \in BOOLEAN /\ UNCHANGED serverVars /\ CallFits(tab, "poll")
    BY <1>3, BackFacts, FlowsAre DEF PollAnswered
  <2>2. (a.at = "ok" /\ tab' = u) \/ (a.at = "gone" /\ tab' = s) \/ tab' = d
    BY <1>3 DEF PollAnswered
  <2>3. d \in Tab /\ LockInv(d)
    BY <1>1, DoneFacts, LockOfDone, FlowsAre
  <2>4. t = IF d.shown # "mine" THEN ApplyServer(d, a, other) ELSE d
    BY DEF OnRefresh
  <2>5. a.at = "gone" => row = "gone"
    BY <2>1 DEF CallFits
  <2>6. next \in LockStatus /\ next # "mine"
    BY DEF LockStatus
  <2> HIDE DEF d, a, other, next
  <2>7. t \in Tab /\ LockInv(t)
    BY <2>1, <2>3, <2>4, AppliedFacts, LockOfApplied
  <2> HIDE DEF t
  <2>8. LockInv(u)
    <3>1. /\ u \in Tab /\ SameView(t, u) /\ SameCalls(t, u) /\ u.releases = t.releases
          /\ u.shown = IF t.page = "open" THEN next ELSE t.shown
      BY <2>6, <2>7, TransitionFacts
    <3>2. QED
      BY <2>6, <2>7, <3>1, LockUnshown DEF SameCalls, Granted, SameView
  <2>9. a.at = "gone" => LockInv(s)
    <3>1. s \in Tab /\ SameView(d, s) /\ SameCalls(d, s) /\ s.releases = d.releases
      BY <2>3, TimersFacts
    <3>2. QED
      BY <2>3, <2>5, <3>1 DEF LockInv, Quiet, SameCalls, SameView
  <2> HIDE DEF u, s
  <2>10. QED
    BY <2>1, <2>2, <2>3, <2>8, <2>9, LockAlone
<1>4. CASE BeatAnswered
  <2> DEFINE d == Done(tab, "beat")
             u == EnterConflict(d)
  <2>1. (tab' = u \/ tab' = d) /\ UNCHANGED serverVars
    BY <1>4 DEF BeatAnswered
  <2>2. d \in Tab /\ LockInv(d)
    BY <1>1, DoneFacts, LockOfDone, FlowsAre
  <2> HIDE DEF d
  <2>3. LockInv(u)
    BY <1>1, <2>2, LockOfConflict
  <2>4. QED
    BY <2>1, <2>2, <2>3, LockAlone
<1>5. CASE TakeAnswered
  <2> DEFINE d == Done(tab, "take")
             a == tab.calls["take"]
             q == Acquired(d, a)
             n == NotAcquired(d, a.at = "held")
  <2>1. /\ a \in Call /\ CallFits(tab, "take") /\ ~Idle(tab, "take")
        /\ tab.page = "open" => tab.note # None
        /\ UNCHANGED serverVars
    BY <1>5, BackFacts, FlowsAre DEF TakeAnswered
  <2>2. (a.at = "ok" /\ tab' = q) \/ tab' = n
    BY <1>5 DEF TakeAnswered
  <2>3. /\ d \in Tab /\ SameView(tab, d) /\ SameLock(tab, d) /\ d.mishaps = tab.mishaps /\ LockInv(d)
    BY <1>1, DoneFacts, LockOfDone, FlowsAre
  <2>4. a.at = "ok" => Granted(tab, "take")
    BY <2>1 DEF CallFits, Granted, Ops, Idle
  <2>5. /\ d.page = "open" => d.note # None
        /\ a.at = "ok" /\ d.page = "open" /\ Quiet(d, {"lapse", "flip"}) /\ row = "live" => Holds(Me)
    BY <2>1, <2>3, <2>4 DEF LockInv, Quiet, SameView, SameLock
  <2>6. (a.at = "held") \in BOOLEAN
    OBVIOUS
  <2> HIDE DEF d, a
  <2>7. a.at = "ok" => LockInv(q)
    BY <2>1, <2>3, <2>5, LockOfAcquired
  <2>8. LockInv(n)
    <3>1. /\ n \in Tab /\ SameView(d, n) /\ n.calls = d.calls /\ d.mishaps \subseteq n.mishaps
          /\ n.releases = d.releases /\ n.status \in {"locked", "available"}
          /\ n.shown = IF d.page = "open" THEN n.status ELSE d.shown
      BY <2>3, <2>6, NotAcquiredFacts
    <3> HIDE DEF n
    <3>2. QED
      BY <2>3, <3>1, LockUnshown DEF Granted, SameView
  <2> HIDE DEF q, n
  <2>9. QED
    BY <2>1, <2>2, <2>7, <2>8, LockAlone
<1>6. ASSUME NEW f \in {"save", "last"}, SaveAnswered(f) PROVE LockInv(tab)'
  <2> DEFINE a == tab.calls[f]
             mine == Acquired(tab, a)
             doc == [mine.draft EXCEPT !.vis = a.sent.vis]
             noted == IF tab.leaving = "close" THEN tab ELSE SetNote(tab, a, a.taken)
  <2>1. f \in Flows
    BY FlowsAre
  <2>2. /\ a \in Call /\ (tab.page = "open" => tab.note # None)
        /\ f = "last" => tab.page = "closed"
        /\ UNCHANGED serverVars
    BY <1>6, <2>1, BackFacts DEF SaveAnswered
  <2>3. \/ tab' = Settle(noted, f, TRUE)
        \/ tab' = Settle(tab, f, FALSE)
        \/ tab' = Send(tab, f, "lock", a.sent)
        \/ a.op = "lock" /\ a.at = "ok" /\ tab' = Send(mine, f, "retry", doc)
        \/ tab' = Settle(EnterConflict(tab), f, TRUE)
    BY <1>6 DEF SaveAnswered
  <2>4. a.sent \in Doc /\ a.taken \in BOOLEAN /\ a.sent.vis \in {"PRIVATE", "PUBLIC"}
    BY <2>2 DEF Call, Doc
  <2>5. a.op = "lock" /\ a.at = "ok" => Granted(tab, f)
    BY DEF Granted
  <2> HIDE DEF a
  <2>6. noted \in Tab /\ LockInv(noted)
    BY <1>1, <2>2, <2>4, SetNoteFacts, LockOfSetNote
  <2> HIDE DEF noted
  <2>7. EnterConflict(tab) \in Tab /\ LockInv(EnterConflict(tab))
    BY <1>1, ConflictFacts, LockOfConflict
  <2>8. ASSUME NEW t \in Tab, LockInv(t), NEW op \in {"lock", "retry"}, NEW d \in Doc
        PROVE  LockInv(Send(t, f, op, d))
    <3> DEFINE u == Send(t, f, op, d)
    <3>1. /\ u \in Tab /\ SameView(t, u) /\ SameLock(t, u)
          /\ u.mishaps = t.mishaps /\ SentCall(u, f, op, d) /\ OtherCalls(t, u, f)
      BY <2>1, SendFacts
    <3> HIDE DEF u
    <3>2. \A g \in {"take", "save"} : Granted(u, g) => Granted(t, g)
      BY <3>1, FlowsAre DEF Granted, OtherCalls, SentCall
    <3>3. LockInv(u)
      BY <2>8, <3>1, <3>2, LockKept DEF SameView, SameLock
    <3>4. QED
      BY <3>3 DEF u
  <2>9. CASE a.op = "lock" /\ a.at = "ok" /\ tab' = Send(mine, f, "retry", doc)
    <3>1. tab.page = "open" /\ Quiet(tab, {"lapse", "flip"}) /\ row = "live" => Holds(Me)
      BY <2>2, <2>5, <2>9 DEF LockInv
    <3>2. mine \in Tab /\ LockInv(mine)
      BY <1>1, <2>2, <3>1, AcquiredFacts, LockOfAcquired
    <3> HIDE DEF mine
    <3>3. mine.draft \in Doc
      BY <3>2 DEF Tab
    <3>4. doc \in Doc
      BY <2>4, <3>3, DraftTypes
    <3> HIDE DEF doc
    <3>5. QED
      BY <2>2, <2>8, <2>9, <3>2, <3>4, LockAlone
  <2>10. CASE tab' = Send(tab, f, "lock", a.sent)
    BY <1>1, <2>2, <2>4, <2>8, <2>10, LockAlone
  <2>11. CASE \/ tab' = Settle(noted, f, TRUE)
              \/ tab' = Settle(tab, f, FALSE)
              \/ tab' = Settle(EnterConflict(tab), f, TRUE)
    BY <1>1, <2>2, <2>6, <2>7, <2>11, LockOfSettled, LockAlone
  <2>12. QED
    BY <2>3, <2>9, <2>10, <2>11
<1>7. CASE LeaveAnswered
  <2> DEFINE d == Done(tab, "leave")
             n == NotingIf(d, d.dirty \/ Busy(d), "hurry")
  <2>1. (tab' = d \/ tab' = Unmount(n)) /\ UNCHANGED serverVars
    BY <1>7 DEF LeaveAnswered
  <2>2. d \in Tab /\ LockInv(d)
    BY <1>1, DoneFacts, LockOfDone, FlowsAre
  <2> HIDE DEF d
  <2>3. (d.dirty \/ Busy(d)) \in BOOLEAN /\ "hurry" \in Mishaps
    BY <2>2 DEF Busy, Idle, Tab, Mishaps
  <2>4. n \in Tab
    BY <2>2, <2>3, NotingIfFacts
  <2> HIDE DEF n
  <2>5. LockInv(Unmount(n))
    BY <2>4, UnmountFacts DEF Left, LockInv
  <2>6. QED
    BY <2>1, <2>2, <2>5, LockAlone
<1>8. QED
  BY <1>2, <1>3, <1>4, <1>5, <1>6, <1>7 DEF Answered, LoadOrPollAnswered

(***************************************************************************)
(* The shapes of the steps elsewhere.                                      *)
(***************************************************************************)

\* What the steps of the server, the network and the others leave of the
\* tab: a call is answered, ...
Answers(f, at, doc) ==
    /\ tab' \in Tab /\ Alive /\ Sent(f)
    /\ SameView(tab, tab') /\ SameEdit(tab, tab') /\ SameLock(tab, tab')
    /\ tab'.mishaps = tab.mishaps /\ OtherCalls(tab, tab', f)
    /\ tab'.calls[f].op = tab.calls[f].op /\ tab'.calls[f].sent = tab.calls[f].sent
    /\ tab'.calls[f].at = at /\ tab'.calls[f].got = doc

\* ... with 404, for a note that is gone, ...
AnswersGone(f) == Answers(f, "gone", NoDoc) /\ row = "gone" /\ UNCHANGED serverVars

\* ... or with the text of the note.
AnswersText(f) == Answers(f, "ok", text) /\ tab.calls[f].op = "get" /\ row = "live" /\ UNCHANGED serverVars

\* The lock is given.
Grants(f) ==
    /\ tab.calls[f].op = "lock" /\ CanTake(Me) /\ row = "live"
    /\ Answers(f, "ok", NoDoc) \/ (f # "beat" /\ Answers(f, "ok", text))
    /\ f # "beat" => Answers(f, "ok", text)
    /\ holder' = Me /\ fresh' /\ UNCHANGED <<row, text, owner>>

\* It is somebody else's.
Refuses(f) ==
    /\ \E at \in {"held", "required"} : Answers(f, at, NoDoc)
    /\ ~Holds(Me) /\ row = "live" /\ UNCHANGED serverVars
    /\ \/ tab.calls[f].op = "lock"
       \/ tab.calls[f].op \in {"patch", "retry"} /\ text.vis = "PUBLIC"

\* A PATCH is written.
Writes(f) ==
    /\ tab.calls[f].op \in {"patch", "retry"} /\ row = "live"
    /\ text.vis = "PUBLIC" => Holds(Me)
    /\ text' \in Doc /\ text' = Written(tab.calls[f].sent)
    /\ Answers(f, "ok", [NoDoc EXCEPT !.vis = text'.vis])
    /\ UNCHANGED <<leaseVars, row, owner>>

\* The note is archived or deleted.
Leaves ==
    /\ Answers("leave", "ok", NoDoc)
    /\ row' = "gone" \/ UNCHANGED <<leaseVars, row>>
    /\ UNCHANGED <<text, owner>>

\* A call fails.
Loses(f) ==
    /\ tab' \in Tab /\ SameView(tab, tab') /\ SameEdit(tab, tab') /\ SameLock(tab, tab')
    /\ tab'.mishaps = tab.mishaps \cup {"fault"} /\ OtherCalls(tab, tab', f)
    /\ tab'.calls[f].op = tab.calls[f].op /\ tab'.calls[f].at = "error" /\ ~Idle(tab, f)
    /\ tab'.calls[f].got = NoDoc /\ tab'.calls[f].sent = tab.calls[f].sent
    /\ UNCHANGED serverVars

\* A DELETE of the lock arrives, or fails.
Releases ==
    /\ tab' \in Tab /\ SameView(tab, tab') /\ SameEdit(tab, tab') /\ tab'.calls = tab.calls
    /\ tab.releases > 0
    /\ tab'.note = tab.note /\ tab'.status = tab.status /\ tab'.shown = tab.shown
    /\ tab'.held = tab.held /\ tab'.beating = tab.beating /\ tab'.polling = tab.polling
    /\ tab.mishaps \subseteq tab'.mishaps
    /\ Holds(Me)' => Holds(Me)
    /\ UNCHANGED <<row, text, owner>>

\* The tab is as it was, but for what it is excused.
Aside ==
    /\ tab' \in Tab /\ SameView(tab, tab') /\ SameEdit(tab, tab') /\ SameLock(tab, tab')
    /\ tab'.calls = tab.calls /\ tab.mishaps \subseteq tab'.mishaps

\* The lock lapses.
Expires ==
    /\ Aside /\ ~fresh' /\ UNCHANGED <<row, text, owner>>
    /\ "lapse" \in tab'.mishaps \/ ~Renewed

\* The note is deleted by another tab or agent.
Removed == Aside /\ row' = "gone" /\ UNCHANGED <<text, owner>>

\* Somebody else takes the lock, gives it back or edits.
Meddles ==
    /\ Aside /\ tab' = tab /\ ~Holds(Me) /\ ~Holds(Me)'
    /\ text' \in Doc /\ text'.mine = text.mine /\ text'.vis = text.vis
    /\ text.theirs \subseteq text'.theirs
    /\ text' = text \/ text.vis = "PUBLIC"
    /\ UNCHANGED <<row, owner>>

\* Nobody is there to hear of it any more.
Forgotten == tab.page = "dead" /\ tab'.page = "dead" /\ tab.mishaps \subseteq tab'.mishaps

\* What the server, the network and the others do.
RemoteShape ==
    \/ \E f \in Flows : AnswersGone(f) \/ AnswersText(f) \/ Grants(f) \/ Refuses(f) \/ Writes(f) \/ Loses(f)
    \/ Leaves \/ Releases \/ Expires \/ Removed \/ Meddles \/ Forgotten

\* Whatever is answered to a tab that is gone is forgotten.
LEMMA AnswersOf ==
  ASSUME tab \in Tab, NEW f \in Flows, NEW doc \in Doc,
         NEW at \in {"ok", "held", "required", "gone"}, Answer(f, at, doc), Sent(f)
  PROVE  Answers(f, at, doc) \/ Forgotten
<1>1. CASE Alive
  BY <1>1, AnswerFacts DEF Answers
<1>2. CASE ~Alive
  BY <1>2, AnswerFacts DEF Alive, SameView, Forgotten
<1>3. QED
  BY <1>1, <1>2

\* Every step of the server has one of these shapes, ...
LEMMA ServeSteps ==
  ASSUME TypeOK, OthersArePublic, NEW f \in Flows, Serve(f)
  PROVE  RemoteShape /\ typed' = typed
<1>1. tab \in Tab /\ text \in Doc /\ NoDoc \in Doc
  BY DocTypes DEF TypeOK
<1>2. CASE ServeGone(f)
  <2>1. Sent(f) /\ ~Readable(Me) /\ Answer(f, "gone", NoDoc) /\ UNCHANGED <<serverVars, typed>>
    BY <1>2 DEF ServeGone, Sent
  <2>2. row = "gone"
    BY <2>1, UnreadableIsGone
  <2>3. QED
    BY <1>1, <2>1, <2>2, AnswersOf DEF RemoteShape, AnswersGone
<1>3. CASE ServeGet(f)
  <2>1. /\ Sent(f) /\ tab.calls[f].op = "get" /\ Answer(f, "ok", text) /\ row = "live"
        /\ UNCHANGED <<serverVars, typed>>
    BY <1>3 DEF ServeGet, SentAs, Readable
  <2>2. QED
    BY <1>1, <2>1, AnswersOf DEF RemoteShape, AnswersText
<1>4. CASE ServeLock(f)
  <2>1. Sent(f) /\ tab.calls[f].op = "lock" /\ row = "live" /\ UNCHANGED <<row, text, owner, typed>>
    BY <1>4 DEF ServeLock, SentAs, Readable
  <2>2. CASE CanTake(Me)
    <3> DEFINE doc == IF f = "beat" THEN NoDoc ELSE text
    <3>1. holder' = Me /\ fresh' /\ Answer(f, "ok", doc)
      BY <1>4, <2>2 DEF ServeLock, Take
    <3>2. doc \in Doc
      BY <1>1
    <3>3. Answers(f, "ok", doc) \/ Forgotten
      BY <1>1, <2>1, <3>1, <3>2, AnswersOf
    <3>4. QED
      BY <2>1, <2>2, <3>1, <3>3 DEF RemoteShape, Grants
  <2>3. CASE ~CanTake(Me)
    <3>1. PICK at \in {"held", "required"} : Answer(f, at, NoDoc)
      BY <1>4, <2>3 DEF ServeLock
    <3>2. UNCHANGED serverVars
      BY <1>4, <2>3 DEF ServeLock, leaseVars, serverVars
    <3>3. ~Holds(Me)
      BY <2>3 DEF CanTake, Holds
    <3>4. Answers(f, at, NoDoc) \/ Forgotten
      BY <1>1, <2>1, <3>1, AnswersOf
    <3>5. QED
      BY <2>1, <3>2, <3>3, <3>4 DEF RemoteShape, Refuses
  <2>4. QED
    BY <2>2, <2>3
<1>5. CASE ServePatch(f)
  <2>1. Sent(f) /\ tab.calls[f].op \in {"patch", "retry"} /\ row = "live" /\ UNCHANGED <<row, owner, typed>>
    BY <1>5 DEF ServePatch, SentAs, Readable
  <2>2. CASE text.vis = "PUBLIC" /\ ~Holds(Me)
    <3> DEFINE at == IF fresh THEN "held" ELSE "required"
    <3>1. Answer(f, at, NoDoc) /\ UNCHANGED serverVars
      BY <1>5, <2>2 DEF ServePatch, leaseVars, serverVars
    <3>2. at \in {"held", "required"}
      OBVIOUS
    <3> HIDE DEF at
    <3>3. Answers(f, at, NoDoc) \/ Forgotten
      BY <1>1, <2>1, <3>1, <3>2, AnswersOf
    <3>4. QED
      BY <2>1, <2>2, <3>1, <3>2, <3>3 DEF RemoteShape, Refuses
  <2>3. CASE ~(text.vis = "PUBLIC" /\ ~Holds(Me))
    <3>1. /\ text' = Written(tab.calls[f].sent) /\ UNCHANGED leaseVars
          /\ Answer(f, "ok", [NoDoc EXCEPT !.vis = text'.vis])
      BY <1>5, <2>3 DEF ServePatch
    <3>2. tab.calls[f].sent \in Doc
      BY <1>1 DEF Tab, Call
    <3>3. text' \in Doc
      BY <1>1, <3>1, <3>2, WrittenFacts
    <3>4. text'.vis \in {"PRIVATE", "PUBLIC"}
      BY <3>3 DEF Doc
    <3>5. [NoDoc EXCEPT !.vis = text'.vis] \in Doc
      BY <3>4, VisFacts
    <3>6. Answers(f, "ok", [NoDoc EXCEPT !.vis = text'.vis]) \/ Forgotten
      BY <1>1, <2>1, <3>1, <3>5, AnswersOf
    <3>7. QED
      BY <2>1, <2>3, <3>1, <3>3, <3>6 DEF RemoteShape, Writes
  <2>4. QED
    BY <2>2, <2>3
<1>6. QED
  BY <1>2, <1>3, <1>4, <1>5 DEF Serve

\* ... and so has every step of the network and the others.
LEMMA RemoteSteps ==
  ASSUME TypeOK, OthersArePublic, Server \/ Network \/ Others
  PROVE  RemoteShape /\ typed' = typed
<1>1. tab \in Tab /\ text \in Doc /\ NoDoc \in Doc
  BY DocTypes DEF TypeOK
<1>2. ASSUME NEW f \in Flows, Serve(f) PROVE RemoteShape /\ typed' = typed
  BY <1>2, ServeSteps
<1>3. CASE ServeLeave
  <2>1. Answer("leave", "ok", NoDoc) /\ Sent("leave") /\ UNCHANGED <<text, owner, typed>>
    BY <1>3 DEF ServeLeave, SentAs
  <2>2. row' = "gone" \/ UNCHANGED <<leaseVars, row>>
    BY <1>3 DEF ServeLeave
  <2>3. Answers("leave", "ok", NoDoc) \/ Forgotten
    BY <1>1, <2>1, AnswersOf, FlowsAre
  <2>4. QED
    BY <2>1, <2>2, <2>3 DEF RemoteShape, Leaves
<1>4. CASE ServeRelease \/ LoseRelease
  <2> DEFINE t == [tab EXCEPT !.releases = @ - 1]
  <2>1. tab.releases > 0 /\ UNCHANGED <<row, text, owner, typed>>
    BY <1>4 DEF ServeRelease, LoseRelease, serverVars
  <2>2. tab' = t \/ tab' = Noting(t, "fault")
    BY <1>4 DEF ServeRelease, LoseRelease
  <2>3. Holds(Me)' => Holds(Me)
    BY <1>4 DEF ServeRelease, LoseRelease, Drop, Holds, leaseVars, serverVars
  <2>4. /\ t \in Tab /\ SameView(tab, t) /\ SameEdit(tab, t) /\ SameCalls(tab, t)
        /\ t.note = tab.note /\ t.status = tab.status /\ t.shown = tab.shown
        /\ t.held = tab.held /\ t.private = tab.private /\ t.beating = tab.beating
        /\ t.polling = tab.polling
    BY <1>1, <2>1, CountFacts
  <2> HIDE DEF t
  <2>5. /\ tab' \in Tab /\ SameView(t, tab') /\ SameEdit(t, tab')
        /\ tab'.calls = t.calls /\ t.mishaps \subseteq tab'.mishaps
        /\ tab'.note = t.note /\ tab'.status = t.status /\ tab'.shown = t.shown
        /\ tab'.held = t.held /\ tab'.beating = t.beating /\ tab'.polling = t.polling
    <3>1. CASE tab' = t
      BY <2>4, <3>1 DEF SameView, SameEdit
    <3>2. CASE tab' = Noting(t, "fault")
      <4>1. "fault" \in Mishaps
        BY DEF Mishaps
      <4>2. QED
        BY <2>4, <3>2, <4>1, NotingFacts DEF SameLock
    <3>3. QED
      BY <2>2, <3>1, <3>2
  <2>6. SameView(tab, tab') /\ SameEdit(tab, tab')
    BY <2>4, <2>5 DEF SameView, SameEdit
  <2>7. Releases
    BY <2>1, <2>3, <2>4, <2>5, <2>6 DEF Releases, SameCalls
  <2>8. QED
    BY <2>1, <2>7 DEF RemoteShape
<1>5. ASSUME NEW f \in Flows, LoseCall(f) PROVE RemoteShape /\ typed' = typed
  <2>1. ~Idle(tab, f) /\ UNCHANGED <<serverVars, typed>>
    BY <1>5 DEF LoseCall, Idle
  <2>2. Loses(f)
    BY <1>1, <1>5, <2>1, LostFacts DEF Loses
  <2>3. QED
    BY <2>1, <2>2 DEF RemoteShape
<1>6. ASSUME tab' = tab PROVE Aside
  BY <1>1, <1>6 DEF Aside, SameView, SameEdit, SameLock
<1>7. ASSUME NEW m \in Mishaps, tab' = Noting(tab, m) PROVE Aside /\ m \in tab'.mishaps
  BY <1>1, <1>7, NotingFacts DEF Aside
<1>8. CASE Expire
  BY <1>6, <1>8 DEF Expire, Lapse, RemoteShape, Expires
<1>9. CASE ExpireUnnoticed
  BY <1>7, <1>9 DEF ExpireUnnoticed, Lapse, RemoteShape, Expires, Mishaps
<1>10. CASE OtherTakes \/ OtherReleases
  <2>1. tab' = tab /\ UNCHANGED <<row, text, owner, typed>>
    BY <1>10 DEF OtherTakes, OtherReleases
  <2>2. ~Holds(Me) /\ ~Holds(Me)'
    BY <1>10, EditorAssumption, NoneAssumption
    DEF OtherTakes, OtherReleases, Holds, Drop, Take, CanTake
  <2>3. QED
    BY <1>1, <1>6, <2>1, <2>2 DEF RemoteShape, Meddles
<1>11. CASE OtherEdits
  <2>1. /\ tab' = tab /\ UNCHANGED <<leaseVars, row, owner, typed>> /\ text.vis = "PUBLIC"
        /\ Holds(Other) /\ text' = [text EXCEPT !.theirs = @ \cup {Cardinality(@) + 1}]
    BY <1>11 DEF OtherEdits
  <2>2. ~Holds(Me) /\ ~Holds(Me)'
    BY <2>1, EditorAssumption DEF Holds, leaseVars
  <2>3. /\ text' \in Doc /\ text'.mine = text.mine /\ text'.vis = text.vis
        /\ text.theirs \subseteq text'.theirs
    <3>1. Cardinality(text.theirs) \in Nat /\ text.theirs \in SUBSET Nat /\ IsFiniteSet(text.theirs)
      BY <1>1, FS_CardinalityType DEF Doc
    <3> DEFINE more == text.theirs \cup {Cardinality(text.theirs) + 1}
    <3>2. more \in SUBSET Nat /\ IsFiniteSet(more) /\ text.theirs \subseteq more
      BY <3>1, FS_AddElement
    <3>3. text' = [text EXCEPT !.theirs = more]
      BY <2>1
    <3> HIDE DEF more
    <3>4. QED
      BY <1>1, <3>2, <3>3 DEF Doc
  <2>4. QED
    BY <1>6, <2>1, <2>2, <2>3 DEF RemoteShape, Meddles
<1>12. CASE OtherRemoves
  BY <1>7, <1>12 DEF OtherRemoves, RemoteShape, Removed, Mishaps
<1>13. QED
  BY <1>2, <1>3, <1>4, <1>5, <1>8, <1>9, <1>10, <1>11, <1>12 DEF Server, Network, Others

(***************************************************************************)
(* ... which leave the lock with the editor.                               *)
(***************************************************************************)

\* Nothing that happens elsewhere takes the lock from an editor that beats,
\* unless it has lapsed.
LEMMA LockOfRemote ==
  ASSUME IBase, LockInv(tab), RemoteShape
  PROVE  LockInv(tab)'
<1> USE DEF Quiet
<1>1. tab \in Tab /\ BaseInv(tab)
  BY DEF IBase, TypeOK
<1>2. ASSUME NEW f \in Flows, NEW at \in {"ok", "held", "required", "gone"}, NEW doc, Answers(f, at, doc),
             ~(tab.calls[f].op = "lock" /\ at = "ok"),
             row' = "gone" \/ UNCHANGED <<leaseVars, row>>
      PROVE  LockInv(tab)'
  <2>1. \A g \in {"take", "save"} : Granted(tab, g)' => Granted(tab, g)
    BY <1>2, FlowsAre DEF Granted, Answers, OtherCalls
  <2>2. CASE row' = "gone"
    BY <1>2, <2>2 DEF LockInv, Answers, SameView, SameLock
  <2>3. CASE UNCHANGED <<leaseVars, row>>
    BY <1>2, <2>1, <2>3 DEF LockInv, Answers, SameView, SameLock, Holds, leaseVars
  <2>4. QED
    BY <1>2, <2>2, <2>3
<1>3. ASSUME NEW f \in Flows, AnswersGone(f) \/ AnswersText(f) \/ Refuses(f) \/ Writes(f)
      PROVE  LockInv(tab)'
  <2>1. UNCHANGED <<leaseVars, row>>
    BY <1>3 DEF AnswersGone, AnswersText, Refuses, Writes, serverVars, leaseVars
  <2>2. CASE AnswersGone(f)
    BY <1>2, <2>1, <2>2 DEF AnswersGone
  <2>3. CASE AnswersText(f)
    BY <1>2, <2>1, <2>3 DEF AnswersText
  <2>4. CASE Refuses(f)
    BY <1>2, <2>1, <2>4 DEF Refuses
  <2>5. CASE Writes(f)
    BY <1>2, <2>1, <2>5 DEF Writes
  <2>6. QED
    BY <1>3, <2>2, <2>3, <2>4, <2>5
<1>4. ASSUME NEW f \in Flows, Grants(f) PROVE LockInv(tab)'
  <2>1. Holds(Me)' /\ row' = row /\ SameView(tab, tab') /\ SameLock(tab, tab') /\ tab'.mishaps = tab.mishaps
    BY <1>4 DEF Grants, Holds, Answers
  <2>2. QED
    BY <2>1 DEF LockInv, SameView, SameLock
<1>5. ASSUME NEW f \in Flows, Loses(f) PROVE LockInv(tab)'
  <2>1. \A g \in {"take", "save"} : Granted(tab, g)' => Granted(tab, g)
    BY <1>5, FlowsAre DEF Granted, Loses, OtherCalls
  <2>2. QED
    BY <1>5, <2>1 DEF LockInv, Loses, SameView, SameLock, Holds, serverVars
<1>6. CASE Leaves
  <2>1. tab.calls["leave"].op # "lock"
    BY <1>1, FlowsAre DEF BaseInv, CallsFit, CallFits, Ops
  <2>2. QED
    BY <1>2, <1>6, <2>1, FlowsAre DEF Leaves
<1>7. CASE Releases
  BY <1>1, <1>7 DEF LockInv, Releases, SameView, Tab
<1>8. CASE Expires
  <2>1. CASE "lapse" \in tab'.mishaps
    BY <2>1 DEF LockInv
  <2>2. CASE ~Renewed
    <3>1. SUFFICES ASSUME tab'.page = "open", Quiet(tab', {"lapse", "flip"}), row' = "live"
                   PROVE  /\ tab'.releases = 0 /\ tab'.shown # "mine"
                          /\ \A g \in {"take", "save"} : ~Granted(tab, g)'
      BY <1>8 DEF LockInv, Expires, Aside, SameView, SameLock
    <3>2. /\ tab.page = "open" /\ row = "live" /\ tab.status = tab.shown
          /\ tab.releases = 0
          /\ tab.shown = "mine" => tab.beating /\ Holds(Me)
          /\ \A g \in {"take", "save"} : Granted(tab, g) => Holds(Me)
      BY <1>1, <1>8, <3>1 DEF LockInv, Expires, Aside, SameView, BaseInv, PageFits
    <3>3. tab.shown # "mine" /\ \A g \in {"take", "save"} : ~Granted(tab, g)
      BY <2>2, <3>2, FlowsAre DEF Renewed, Granted, Holds
    <3>4. QED
      BY <1>8, <3>2, <3>3 DEF Expires, Aside, SameLock, Granted
  <2>3. QED
    BY <1>8, <2>1, <2>2 DEF Expires
<1>9. CASE Removed
  BY <1>9 DEF LockInv, Removed, Aside, SameView, SameLock
<1>10. CASE Meddles
  <2>1. tab' = tab /\ row' = row /\ ~Holds(Me)
    BY <1>10 DEF Meddles
  <2>2. QED
    BY <2>1 DEF LockInv, Granted
<1>11. CASE tab'.page = "dead"
  BY <1>11 DEF LockInv
<1>12. QED
  BY <1>3, <1>4, <1>5, <1>6, <1>7, <1>8, <1>9, <1>10, <1>11 DEF RemoteShape, Forgotten

\* Nobody is shown as having the lock at first.
LEMMA LockOfInit == Init => LockInv(tab)
<1> SUFFICES ASSUME Init PROVE LockInv(tab)
  OBVIOUS
<1>1. PICK t : Opened(t) /\ (tab = t \/ Started(t, tab))
  BY InitFacts
<1>2. \A f \in {"take", "save"} : t.calls[f].at = "idle"
  BY <1>1, FlowsAre, NoCallIdle DEF Opened
<1>3. t.releases = 0 /\ t.shown = "pending"
  BY <1>1 DEF Opened
<1>4. CASE tab = t
  BY <1>2, <1>3, <1>4 DEF LockInv, Granted
<1>5. CASE Started(t, tab)
  <2>1. tab.note \in {"PRIVATE", "PUBLIC"}
    BY <1>5, InitFacts DEF Started, Doc
  <2>2. tab.shown # "mine" /\ tab.releases = 0
    BY <1>3, <1>5, <2>1 DEF Started
  <2>3. \A f \in {"take", "save"} : ~Granted(tab, f)
    <3>1. tab.calls = t.calls \/ (SentCall(tab, "take", "lock", NoDoc) /\ OtherCalls(t, tab, "take"))
      BY <1>5, <2>1 DEF Started
    <3>2. QED
      BY <1>2, <3>1, FlowsAre DEF Granted, SentCall, OtherCalls
  <2>4. QED
    BY <2>2, <2>3 DEF LockInv
<1>6. QED
  BY <1>1, <1>4, <1>5

\* Every step keeps the lock invariant.
LEMMA LockStep ==
  ASSUME IBase, LockInv(tab), [Next]_vars
  PROVE  LockInv(tab)'
<1>1. CASE Member \/ Timers
  BY <1>1, LockOfMember
<1>2. CASE Answered
  BY <1>2, LockOfAnswered
<1>3. CASE Server \/ Network \/ Others
  BY <1>3, RemoteSteps, LockOfRemote DEF IBase
<1>4. CASE UNCHANGED vars
  <2>1. tab' = tab /\ UNCHANGED serverVars
    BY <1>4 DEF vars, serverVars
  <2>2. LockInv(tab')
    BY <2>1
  <2>3. QED
    BY <2>1, <2>2, LockAlone
<1>5. QED
  BY <1>1, <1>2, <1>3, <1>4 DEF Next

(***************************************************************************)
(* An editor that lets its member type into a shared note has the lock of  *)
(* it at the server (useNoteLock.ts, locks.py), unless the lock has lapsed *)
(* unnoticed or the note has changed its visibility under the session.     *)
(***************************************************************************)
THEOREM EditorsHoldTheLock == Spec => []MineIsHeld
<1>1. Init => IBase /\ LockInv(tab)
  BY BaseOfInit, LockOfInit
<1>2. IBase /\ LockInv(tab) /\ [Next]_vars => IBase' /\ LockInv(tab)'
  BY BaseStep, LockStep
<1>3. IBase /\ LockInv(tab) => MineIsHeld
  BY DEF LockInv, MineIsHeld, Mounted, Unless, Quiet
<1>4. QED
  BY <1>1, <1>2, <1>3, PTL DEF Spec

(***************************************************************************)
(* An editor that was left is silent.                                      *)
(***************************************************************************)

\* The editor of a private note asks for nothing but its saves: there is no
\* lock to have, to beat for or to wait for.
PrivateInv(t) ==
    t.page = "open" /\ LeaveQuiet(t) /\ t.note = "PRIVATE" =>
      /\ t.shown = "none"
      /\ ~(t.held \/ t.beating \/ t.polling)
      /\ Idle(t, "take") /\ Idle(t, "beat") /\ Idle(t, "poll")
      /\ t.calls["save"].op \in {"none", "patch"}
      /\ t.calls["save"].at \notin {"held", "required"}
      /\ text.vis = "PRIVATE" \/ (t.calls["save"].at = "ok" /\ t.calls["save"].got.vis = "PUBLIC")

\* Who waits for a save before leaving has nothing else to save.
WaitInv(t) == t.page = "open" /\ LeaveQuiet(t) /\ t.leaving # "no" => ~t.dirty

\* A closed editor is silent: no timer, and no call but a last save of a
\* note that is gone.
ClosedInv(t) ==
    t.page = "closed" /\ LeaveQuiet(t) =>
      /\ ~(t.held \/ t.beating \/ t.polling \/ t.armed \/ t.saving)
      /\ Idle(t, "take")
      /\ t.calls["last"].op \in {"none", "patch"}
      /\ ~Idle(t, "last") => row = "gone" /\ t.calls["last"].at \in {"sent", "gone"}

\* A quiet editor was quiet before.
LEMMA QuietKept ==
  ASSUME NEW t, NEW u, t.mishaps \subseteq u.mishaps
  PROVE  \A ms : Quiet(u, ms) => Quiet(t, ms)
BY DEF Quiet

\* The editor of a private note: nothing is asked for but its saves.
LEMMA PrivateKept ==
  ASSUME NEW t \in Tab, NEW u \in Tab, PrivateInv(t), SameView(t, u), SameLock(t, u),
         t.mishaps \subseteq u.mishaps,
         \A f \in {"take", "beat", "poll"} : u.calls[f] = t.calls[f] \/ Idle(u, f),
         u.calls["save"] = t.calls["save"]
  PROVE  PrivateInv(u)
<1>1. LeaveQuiet(u) => LeaveQuiet(t)
  BY QuietKept DEF LeaveQuiet
<1>2. QED
  BY <1>1 DEF PrivateInv, SameView, SameLock, Idle

\* Nothing is said of the editor of a note that is not private, or was not.
LEMMA PrivateUnless ==
  ASSUME NEW u \in Tab,
         u.page = "open" /\ u.note = "PRIVATE" => "flip" \in u.mishaps \/ "fault" \in u.mishaps
  PROVE  PrivateInv(u)
BY DEF PrivateInv, LeaveQuiet, Quiet

\* A call is over.
LEMMA PrivateOfDone ==
  ASSUME NEW t \in Tab, NEW f \in Flows, f # "save", PrivateInv(t)
  PROVE  PrivateInv(Done(t, f))
<1> DEFINE u == Done(t, f)
<1>1. /\ u \in Tab /\ SameView(t, u) /\ SameEdit(t, u) /\ SameLock(t, u)
      /\ u.mishaps = t.mishaps /\ u.calls[f].at = "idle" /\ OtherCalls(t, u, f)
  BY DoneFacts
<1> HIDE DEF u
<1>2. PrivateInv(u)
  BY <1>1, FlowsAre, PrivateKept DEF OtherCalls, Idle
<1>3. QED
  BY <1>2 DEF u

\* An editor with nothing to wait for has nothing unsaved.
LEMMA WaitKept ==
  ASSUME NEW t \in Tab, NEW u \in Tab, WaitInv(t), u.page = t.page,
         t.mishaps \subseteq u.mishaps,
         u.leaving = t.leaving, u.dirty = t.dirty
  PROVE  WaitInv(u)
<1>1. LeaveQuiet(u) => LeaveQuiet(t)
  BY QuietKept DEF LeaveQuiet
<1>2. QED
  BY <1>1 DEF WaitInv

\* An editor left in peace is silent.
LEMMA ClosedKept ==
  ASSUME NEW t \in Tab, NEW u \in Tab, ClosedInv(t), u.page = t.page,
         t.mishaps \subseteq u.mishaps, u.armed = t.armed, u.saving = t.saving,
         u.held => t.held, u.beating => t.beating, u.polling => t.polling,
         \A f \in {"take", "last"} : u.calls[f] = t.calls[f] \/ u.calls[f] = NoCall
  PROVE  ClosedInv(u)
<1>1. LeaveQuiet(u) => LeaveQuiet(t)
  BY QuietKept DEF LeaveQuiet
<1>2. QED
  BY <1>1, NoCallIdle DEF ClosedInv, Idle

\* An editor that is left has nothing on its way, or it is noted.
LEMMA ClosedOfLeft ==
  ASSUME NEW w \in Tab, NEW u, Left(w, u),
         w.calls["last"].op = "none", Idle(w, "last"),
         LeaveQuiet(u) =>
           /\ ~w.saving /\ (w.dirty => row = "gone")
           /\ w.note # "PUBLIC" => ~(w.held \/ w.beating \/ w.polling)
  PROVE  ClosedInv(u)
<1> SUFFICES ASSUME LeaveQuiet(u) PROVE
      /\ ~(u.held \/ u.beating \/ u.polling \/ u.armed \/ u.saving)
      /\ Idle(u, "take")
      /\ u.calls["last"].op \in {"none", "patch"}
      /\ ~Idle(u, "last") => row = "gone" /\ u.calls["last"].at \in {"sent", "gone"}
  BY DEF ClosedInv
<1>1. ~u.armed /\ ~u.saving
  BY DEF Left
<1>2. ~(u.held \/ u.beating \/ u.polling)
  <2>1. w.note \in {None, "PRIVATE", "PUBLIC"}
    BY DEF Tab
  <2>2. QED
    BY <2>1, EditorAssumption DEF Left
<1>3. Idle(u, "take")
  BY FlowsAre DEF Left, LeaveQuiet, Quiet, Idle, OtherCalls
<1>4. CASE w.dirty /\ ~w.saving /\ Editable(w)
  BY <1>1, <1>2, <1>3, <1>4 DEF Left, SentCall
<1>5. CASE ~(w.dirty /\ ~w.saving /\ Editable(w))
  BY <1>1, <1>2, <1>3, <1>5 DEF Left, Idle
<1>6. QED
  BY <1>4, <1>5

\* The member leaves, at ease or not.
LEMMA ClosedOfLeaving ==
  ASSUME NEW t \in Tab, BaseInv(t), PrivateInv(t), t.page = "open", NEW u, MemberLeaves(t, u)
  PROVE  ClosedInv(u) /\ u \in Tab /\ u.page = "closed"
<1>1. PICK w \in Tab :
        /\ Left(w, u) /\ w.page = "open" /\ SameLock(t, w)
        /\ t.mishaps \subseteq w.mishaps
        /\ \A f \in Flows \ {"leave"} : w.calls[f] = t.calls[f]
        /\ LeaveQuiet(u) => ~w.saving /\ ~w.dirty
  BY DEF MemberLeaves
<1>2. w.calls["last"].op = "none" /\ Idle(w, "last")
  BY <1>1, FlowsAre DEF BaseInv, PageFits, CallsFit, CallFits, Idle
<1>3. LeaveQuiet(u) => LeaveQuiet(t)
  BY <1>1, QuietKept DEF LeaveQuiet, Left
<1>4. LeaveQuiet(u) /\ w.note # "PUBLIC" => ~(w.held \/ w.beating \/ w.polling)
  <2>1. w.note \in {None, "PRIVATE", "PUBLIC"}
    BY DEF Tab
  <2>2. QED
    BY <1>1, <1>3, <2>1 DEF BaseInv, Loading, PrivateInv, SameLock
<1>5. QED
  BY <1>1, <1>2, <1>4, ClosedOfLeft DEF Left

\* Private, waiting or closed: how an editor is left.
LeaveInv(t) == PrivateInv(t) /\ WaitInv(t) /\ ClosedInv(t)

\* The server's part is not touched.
LEMMA LeaveAlone ==
  ASSUME LeaveInv(tab'), UNCHANGED serverVars
  PROVE  LeaveInv(tab)'
<1>1. PrivateInv(tab)'
  BY DEF LeaveInv, PrivateInv, LeaveQuiet, Quiet, Idle, serverVars
<1>2. WaitInv(tab)'
  BY DEF LeaveInv, WaitInv, LeaveQuiet, Quiet
<1>3. ClosedInv(tab)'
  BY DEF LeaveInv, ClosedInv, LeaveQuiet, Quiet, Idle, serverVars
<1>4. QED
  BY <1>1, <1>2, <1>3 DEF LeaveInv

\* Only one part concerns a closed editor, ...
LEMMA LeaveOfClosed ==
  ASSUME NEW u, u.page # "open", ClosedInv(u)
  PROVE  LeaveInv(u)
BY DEF LeaveInv, PrivateInv, WaitInv

\* ... and the others an open one.
LEMMA LeaveOfOpen ==
  ASSUME NEW u, u.page # "closed", PrivateInv(u), WaitInv(u)
  PROVE  LeaveInv(u)
BY DEF LeaveInv, ClosedInv

\* The member and the timers leave the editor in order.
LEMMA LeaveOfMember ==
  ASSUME IBase, LeaveInv(tab), Member \/ Timers
  PROVE  LeaveInv(tab)'
<1>1. tab \in Tab /\ TypeOK /\ BaseInv(tab) /\ PrivateInv(tab) /\ WaitInv(tab) /\ ClosedInv(tab)
  BY DEF IBase, TypeOK, LeaveInv
<1>2. CASE Member \/ TimerFires
  <2>1. MemberShape /\ UNCHANGED serverVars
    BY <1>1, <1>2, MemberSteps
  <2>2. CASE Works(tab, tab') /\ (tab.page = "open" \/ tab.armed)
    <3>1. tab'.page = tab.page /\ (LeaveQuiet(tab') => LeaveQuiet(tab))
      BY <2>2, QuietKept DEF LeaveQuiet, Works
    <3>2. CASE tab.page = "open"
      <4>1. PrivateInv(tab')
        <5> SUFFICES ASSUME LeaveQuiet(tab'), tab'.note = "PRIVATE"
                     PROVE  PrivateInv(tab')
          BY DEF PrivateInv
        <5>1. tab.note = "PRIVATE" /\ SameLock(tab, tab')
          BY <2>2 DEF Works, SameLock
        <5>2. \A f \in {"take", "beat", "poll"} : tab'.calls[f] = tab.calls[f]
          BY <2>2, FlowsAre DEF Works
        <5>3. CASE tab'.calls["save"] = tab.calls["save"]
          BY <1>1, <3>1, <3>2, <5>1, <5>2, <5>3 DEF PrivateInv, SameLock, Idle
        <5>4. CASE ~tab.saving /\ SentCall(tab', "save", "patch", tab'.draft)
          <6>1. tab.calls["save"].at = "idle"
            BY <1>1, <3>2, <5>4 DEF BaseInv, SavingFits, Idle
          <6>2. QED
            BY <1>1, <3>1, <3>2, <5>1, <5>2, <5>4, <6>1 DEF PrivateInv, SameLock, Idle, SentCall
        <5>5. QED
          BY <2>2, <5>3, <5>4 DEF Works
      <4>2. WaitInv(tab')
        BY <1>1, <2>2, <3>1, <3>2 DEF Works, WaitInv, LeaveQuiet, Quiet
      <4>3. QED
        BY <2>1, <3>1, <3>2, <4>1, <4>2, LeaveOfOpen, LeaveAlone
    <3>3. CASE tab.page # "open"
      <4>1. ClosedInv(tab')
        BY <1>1, <2>2, <3>1, <3>3 DEF ClosedInv
      <4>2. QED
        BY <2>1, <3>1, <3>3, <4>1, LeaveOfClosed, LeaveAlone
    <3>4. QED
      BY <3>2, <3>3
  <2>3. CASE MemberLeaves(tab, tab') /\ tab.page = "open"
    <3>1. LeaveInv(tab')
      BY <1>1, <2>3, ClosedOfLeaving, LeaveOfClosed
    <3>2. QED
      BY <2>1, <3>1, LeaveAlone
  <2>4. CASE tab'.page = "dead"
    BY <2>4 DEF LeaveInv, PrivateInv, WaitInv, ClosedInv
  <2>5. CASE TakesOver(tab, tab') \/ ReadsOnly(tab, tab')
    <3>1. /\ tab'.page = "open" /\ tab.page = "open" /\ tab'.leaving = tab.leaving /\ tab'.dirty = tab.dirty
          /\ tab.mishaps \subseteq tab'.mishaps /\ tab'.note = tab.note
          /\ tab.shown \in {"available", "conflict"} /\ tab' \in Tab
      BY <2>5 DEF TakesOver, ReadsOnly, SameView, SameEdit, SameLock
    <3>2. LeaveQuiet(tab') => LeaveQuiet(tab)
      BY <3>1, QuietKept DEF LeaveQuiet
    <3>3. PrivateInv(tab')
      BY <1>1, <3>1, <3>2 DEF PrivateInv
    <3>4. WaitInv(tab')
      BY <1>1, <3>1, WaitKept
    <3>5. QED
      BY <2>1, <3>1, <3>3, <3>4, LeaveOfOpen, LeaveAlone
  <2>6. QED
    BY <2>1, <2>2, <2>3, <2>4, <2>5 DEF MemberShape, Closes, Typed
<1>3. CASE HeartbeatTick \/ PollTick
  <2>1. (Beats(tab, tab') \/ Polls(tab, tab')) /\ UNCHANGED serverVars
    BY <1>1, <1>3, TickSteps
  <2>2. /\ tab' \in Tab /\ SameView(tab, tab') /\ SameEdit(tab, tab') /\ SameLock(tab, tab')
        /\ tab'.mishaps = tab.mishaps /\ (tab.beating \/ tab.polling)
    BY <2>1 DEF Beats, Polls
  <2>3. LeaveQuiet(tab') => LeaveQuiet(tab)
    BY <2>2, QuietKept DEF LeaveQuiet
  <2>4. PrivateInv(tab') /\ ClosedInv(tab')
    BY <1>1, <2>2, <2>3 DEF PrivateInv, ClosedInv, SameView, SameLock
  <2>5. WaitInv(tab')
    BY <1>1, <2>2, WaitKept DEF SameView, SameEdit
  <2>6. QED
    BY <2>1, <2>4, <2>5, LeaveAlone DEF LeaveInv
<1>4. QED
  BY <1>2, <1>3 DEF Timers

\* So do the server, the network and the others.
LEMMA LeaveOfRemote ==
  ASSUME IBase, LeaveInv(tab), RemoteShape
  PROVE  LeaveInv(tab)'
<1>1. tab \in Tab /\ BaseInv(tab) /\ PrivateInv(tab) /\ WaitInv(tab) /\ ClosedInv(tab)
  BY DEF IBase, TypeOK, LeaveInv
<1>2. ASSUME tab' \in Tab, SameView(tab, tab'), SameEdit(tab, tab'), tab.mishaps \subseteq tab'.mishaps
      PROVE  WaitInv(tab)' /\ (LeaveQuiet(tab') => LeaveQuiet(tab))
  <2>1. WaitInv(tab') /\ (LeaveQuiet(tab') => LeaveQuiet(tab))
    BY <1>1, <1>2, WaitKept, QuietKept DEF SameView, SameEdit, LeaveQuiet
  <2>2. QED
    BY <2>1 DEF WaitInv, LeaveQuiet, Quiet
<1>4. ASSUME NEW f \in Flows, AnswersGone(f) \/ AnswersText(f) \/ Grants(f) \/ Refuses(f) \/ Writes(f)
      PROVE  LeaveInv(tab)'
  <2>1. /\ tab' \in Tab /\ SameView(tab, tab') /\ SameEdit(tab, tab') /\ SameLock(tab, tab')
        /\ tab'.mishaps = tab.mishaps /\ OtherCalls(tab, tab', f) /\ Sent(f)
        /\ tab'.calls[f].op = tab.calls[f].op
    BY <1>4 DEF AnswersGone, AnswersText, Grants, Refuses, Writes, Answers
  <2>2. WaitInv(tab)' /\ (LeaveQuiet(tab') => LeaveQuiet(tab)) /\ row' = row
    BY <1>2, <1>4, <2>1 DEF AnswersGone, AnswersText, Grants, Refuses, Writes, serverVars
  <2>3. \A g \in Flows : CallFits(tab, g)
    BY <1>1 DEF BaseInv, CallsFit
  <2>4. ClosedInv(tab)'
    <3> SUFFICES ASSUME tab'.page = "closed", LeaveQuiet(tab') PROVE ClosedInv(tab)'
      BY DEF ClosedInv, LeaveQuiet, Quiet
    <3>1. /\ tab.page = "closed" /\ LeaveQuiet(tab)
          /\ ~(tab.held \/ tab.beating \/ tab.polling \/ tab.armed \/ tab.saving)
          /\ Idle(tab, "take") /\ tab.calls["last"].op \in {"none", "patch"}
          /\ ~Idle(tab, "last") => row = "gone"
      BY <1>1, <2>1, <2>2 DEF ClosedInv, SameView
    <3>2. f # "take"
      BY <2>1, <3>1 DEF Sent, Idle
    <3>3. f = "last" => AnswersGone(f)
      BY <1>4, <2>1, <2>3, <3>1, FlowsAre
      DEF Sent, Idle, AnswersText, Grants, Refuses, Writes
    <3>4. f = "last" => tab'.calls["last"].at = "gone" /\ row = "gone"
      BY <3>3 DEF AnswersGone, Answers
    <3>5. \A g \in {"take", "last"} : g # f => tab'.calls[g] = tab.calls[g]
      BY <2>1, FlowsAre DEF OtherCalls
    <3>6. ~Idle(tab, "last") => tab.calls["last"].at \in {"sent", "gone"}
      BY <1>1, <3>1 DEF ClosedInv
    <3>7. QED
      BY <2>1, <2>2, <3>1, <3>2, <3>4, <3>5, <3>6 DEF ClosedInv, SameView, SameEdit, SameLock, Idle
  <2>5. PrivateInv(tab)'
    <3> SUFFICES ASSUME tab'.page = "open", LeaveQuiet(tab'), tab'.note = "PRIVATE"
                 PROVE  PrivateInv(tab)'
      BY DEF PrivateInv, LeaveQuiet, Quiet
    <3>1. /\ tab.page = "open" /\ LeaveQuiet(tab) /\ tab.note = "PRIVATE"
          /\ tab.shown = "none" /\ ~(tab.held \/ tab.beating \/ tab.polling)
          /\ Idle(tab, "take") /\ Idle(tab, "beat") /\ Idle(tab, "poll") /\ Idle(tab, "last")
          /\ tab.calls["save"].op \in {"none", "patch"}
          /\ tab.calls["save"].at \notin {"held", "required"}
          /\ text.vis = "PRIVATE" \/ (tab.calls["save"].at = "ok" /\ tab.calls["save"].got.vis = "PUBLIC")
      BY <1>1, <2>1, <2>2 DEF PrivateInv, SameView, SameLock, BaseInv, PageFits
    <3>2. f \notin {"take", "beat", "poll", "last"}
      BY <2>1, <3>1 DEF Sent, Idle
    <3>3. \A g \in {"take", "beat", "poll"} : tab'.calls[g] = tab.calls[g]
      BY <2>1, <3>2, FlowsAre DEF OtherCalls
    <3>4. CASE f # "save"
      <4>1. text' = text
        <5>1. tab.calls[f].op \notin {"patch", "retry"}
          BY <2>3, <3>2, <3>4 DEF CallFits, Ops, Flows
        <5>2. QED
          BY <1>4, <5>1 DEF AnswersGone, AnswersText, Grants, Refuses, Writes, serverVars
      <4>2. tab'.calls["save"] = tab.calls["save"]
        BY <2>1, <3>4, FlowsAre DEF OtherCalls
      <4>3. QED
        BY <2>1, <3>1, <3>3, <4>1, <4>2 DEF PrivateInv, SameView, SameLock, Idle
    <3>5. CASE f = "save"
      <4>1. text.vis = "PRIVATE" /\ tab.calls[f].op = "patch"
        BY <2>1, <2>3, <3>1, <3>5 DEF Sent, CallFits
      <4>2. CASE AnswersGone(f)
        <5>1. tab'.calls["save"].at = "gone" /\ text' = text
          BY <3>5, <4>2 DEF AnswersGone, Answers, serverVars
        <5>2. QED
          BY <2>1, <3>1, <3>3, <3>5, <4>1, <5>1 DEF PrivateInv, SameView, SameLock, Idle
      <4>3. CASE Writes(f)
        <5>1. /\ tab'.calls["save"].at = "ok" /\ tab'.calls["save"].got = [NoDoc EXCEPT !.vis = text'.vis]
              /\ text'.vis \in {"PRIVATE", "PUBLIC"}
          BY <3>5, <4>3 DEF Writes, Answers, Doc
        <5>2. tab'.calls["save"].got.vis = text'.vis
          BY <5>1, VisFacts
        <5>3. QED
          BY <2>1, <3>1, <3>3, <3>5, <4>1, <5>1, <5>2 DEF PrivateInv, SameView, SameLock, Idle
      <4>4. QED
        BY <1>4, <4>1, <4>2, <4>3 DEF AnswersText, Grants, Refuses
    <3>6. QED
      BY <3>4, <3>5
  <2>6. QED
    BY <2>2, <2>4, <2>5 DEF LeaveInv
<1>5. ASSUME NEW f \in Flows, Loses(f) PROVE LeaveInv(tab)'
  <2>1. ~LeaveQuiet(tab)'
    BY <1>5 DEF Loses, LeaveQuiet, Quiet
  <2>2. QED
    BY <2>1 DEF LeaveInv, PrivateInv, WaitInv, ClosedInv
<1>6. ASSUME tab' \in Tab, SameView(tab, tab'), SameEdit(tab, tab'), tab.mishaps \subseteq tab'.mishaps,
             tab'.note = tab.note, tab'.shown = tab.shown, tab'.held = tab.held,
             tab'.beating = tab.beating, tab'.polling = tab.polling,
             \A f \in {"take", "beat", "poll", "save", "last"} : tab'.calls[f] = tab.calls[f],
             text'.vis = text.vis, row' = row \/ row' = "gone"
      PROVE  LeaveInv(tab)'
  <2>1. WaitInv(tab)' /\ (LeaveQuiet(tab') => LeaveQuiet(tab))
    BY <1>2, <1>6
  <2>2. PrivateInv(tab)'
    <3> SUFFICES ASSUME LeaveQuiet(tab') PROVE PrivateInv(tab)'
      BY DEF PrivateInv, LeaveQuiet, Quiet
    <3> QED
      BY <1>1, <1>6, <2>1 DEF PrivateInv, SameView, Idle
  <2>3. ClosedInv(tab)'
    <3> SUFFICES ASSUME LeaveQuiet(tab') PROVE ClosedInv(tab)'
      BY DEF ClosedInv, LeaveQuiet, Quiet
    <3> QED
      BY <1>1, <1>6, <2>1 DEF ClosedInv, SameView, SameEdit, Idle
  <2>4. QED
    BY <2>1, <2>2, <2>3 DEF LeaveInv
<1>7. CASE Leaves
  <2>1. \A f \in {"take", "beat", "poll", "save", "last"} : tab'.calls[f] = tab.calls[f]
    BY <1>7, FlowsAre DEF Leaves, Answers, OtherCalls
  <2>2. QED
    BY <1>6, <1>7, <2>1 DEF Leaves, Answers, SameLock
<1>8. CASE Releases
  BY <1>6, <1>8 DEF Releases
<1>9. CASE Expires \/ Removed \/ Meddles
  <2>1. Aside /\ text'.vis = text.vis /\ (row' = row \/ row' = "gone")
    BY <1>9 DEF Expires, Removed, Meddles
  <2>2. QED
    BY <1>6, <2>1 DEF Aside, SameLock
<1>10. CASE tab'.page = "dead"
  BY <1>10 DEF LeaveInv, PrivateInv, WaitInv, ClosedInv
<1>11. QED
  BY <1>4, <1>5, <1>7, <1>8, <1>9, <1>10 DEF RemoteShape, Forgotten

\* What is not the editor of a private note does not become one unnoticed.
LEMMA PrivateNew ==
  ASSUME NEW t, NEW u, t.mishaps \subseteq u.mishaps,
         u.page = "open" => t.page = "open",
         u.page = "open" => u.note = t.note \/ "flip" \in u.mishaps,
         t.page = "open" /\ LeaveQuiet(t) => t.note # "PRIVATE"
  PROVE  PrivateInv(u)
<1>1. LeaveQuiet(u) => LeaveQuiet(t)
  BY QuietKept DEF LeaveQuiet
<1>2. LeaveQuiet(u) => "flip" \notin u.mishaps
  BY DEF LeaveQuiet, Quiet
<1>3. QED
  BY <1>1, <1>2 DEF PrivateInv

\* A call is over.
LEMMA LeaveOfDone ==
  ASSUME NEW t \in Tab, NEW f \in Flows, f # "save", LeaveInv(t)
  PROVE  LeaveInv(Done(t, f))
<1> DEFINE u == Done(t, f)
<1>1. PrivateInv(u)
  BY PrivateOfDone DEF LeaveInv
<1>2. /\ u \in Tab /\ SameView(t, u) /\ SameEdit(t, u) /\ SameLock(t, u)
      /\ u.mishaps = t.mishaps /\ u.calls[f] = NoCall /\ OtherCalls(t, u, f)
  BY DoneFacts
<1> HIDE DEF u
<1>3. WaitInv(u)
  BY <1>2, WaitKept DEF LeaveInv, SameView, SameEdit
<1>4. \A g \in {"take", "last"} : u.calls[g] = t.calls[g] \/ u.calls[g] = NoCall
  BY <1>2, FlowsAre DEF OtherCalls
<1>5. ClosedInv(u)
  BY <1>2, <1>4, ClosedKept DEF LeaveInv, SameView, SameEdit, SameLock
<1>6. LeaveInv(u)
  BY <1>1, <1>3, <1>5 DEF LeaveInv
<1>7. QED
  BY <1>6 DEF u

\* The server's text is rendered.
LEMMA LeaveOfApplied ==
  ASSUME NEW t \in Tab, LeaveInv(t), BaseInv(t), NEW a \in Call, NEW other \in BOOLEAN,
         t.page = "open" /\ t.note = None => a.got.vis = text.vis
  PROVE  LeaveInv(ApplyServer(t, a, other))
<1> DEFINE u == ApplyServer(t, a, other)
           vis == a.got.vis
<1>1. /\ u \in Tab /\ SameView(t, u) /\ SameWork(t, u) /\ OtherCalls(t, u, "take")
      /\ t.mishaps \subseteq u.mishaps
      /\ t.page # "open" \/ t.note = vis => SameLock(t, u) /\ SameCalls(t, u)
      /\ t.page = "open" /\ t.note # vis =>
           /\ u.note = vis /\ u.shown = u.status
           /\ t.note # None => "flip" \in u.mishaps
           /\ t.note = None => u.held = t.held /\ ~u.beating
           /\ vis = "PRIVATE" => u.calls = t.calls /\ u.status = "none"
           /\ vis = "PRIVATE" /\ t.note = None => ~u.polling
  BY AppliedFacts
<1>0. vis \in {"PRIVATE", "PUBLIC"}
  BY DEF Call, Doc
<1> HIDE DEF u, vis
<1>2. WaitInv(u)
  BY <1>1, WaitKept DEF LeaveInv, SameView, SameWork
<1>3. ClosedInv(u)
  <2>1. CASE t.page = "open"
    BY <1>1, <2>1 DEF ClosedInv, SameView
  <2>2. CASE t.page # "open"
    BY <1>1, <2>2, ClosedKept DEF LeaveInv, SameView, SameWork, SameLock, SameCalls
  <2>3. QED
    BY <2>1, <2>2
<1>4. PrivateInv(u)
  <2>1. CASE t.page # "open" \/ t.note = vis
    BY <1>1, <2>1, PrivateKept DEF LeaveInv, SameCalls
  <2>2. CASE t.page = "open" /\ t.note # vis /\ t.note # None
    BY <1>1, <2>2, PrivateUnless
  <2>3. CASE t.page = "open" /\ t.note = None
    <3>1. CASE vis = "PRIVATE"
      <4>1. /\ ~(u.held \/ u.beating \/ u.polling) /\ u.shown = "none" /\ text.vis = "PRIVATE"
            /\ u.calls = t.calls
        BY <1>1, <2>3, <3>1, EditorAssumption DEF BaseInv, Loading, vis
      <4>2. /\ \A f \in {"take", "beat", "poll"} : t.calls[f].at = "idle"
            /\ t.calls["save"].at = "idle" /\ t.calls["save"].op = "none"
        BY <2>3, FlowsAre DEF BaseInv, Loading, CallsFit, CallFits, Idle
      <4>3. QED
        BY <4>1, <4>2 DEF PrivateInv, Idle
    <3>2. CASE vis # "PRIVATE"
      <4>1. u.note # "PRIVATE"
        BY <1>0, <1>1, <2>3, <3>2, EditorAssumption
      <4>2. QED
        BY <4>1 DEF PrivateInv
    <3>3. QED
      BY <3>1, <3>2
  <2>4. QED
    BY <2>1, <2>2, <2>3
<1>5. LeaveInv(u)
  BY <1>2, <1>3, <1>4 DEF LeaveInv
<1>6. QED
  BY <1>5 DEF u

\* The note is known, or known anew.
LEMMA LeaveOfSetNote ==
  ASSUME NEW t \in Tab, LeaveInv(t), NEW a \in Call, NEW other \in BOOLEAN,
         t.page = "open" => t.note # None
  PROVE  LeaveInv(SetNote(t, a, other))
<1> DEFINE u == SetNote(t, a, other)
<1>1. a.got.vis \in {"PRIVATE", "PUBLIC"}
  BY DEF Call, Doc
<1>2. /\ u \in Tab /\ SameView(t, u) /\ SameEdit(t, u)
      /\ t.mishaps \subseteq u.mishaps
      /\ t.page # "open" \/ t.note = a.got.vis => u = t
      /\ t.page = "open" /\ t.note # a.got.vis /\ t.note # None => "flip" \in u.mishaps
  BY SetNoteFacts
<1> HIDE DEF u
<1>3. CASE u = t
  BY <1>3 DEF u
<1>4. CASE t.page = "open" /\ "flip" \in u.mishaps
  <2>1. LeaveInv(u)
    BY <1>2, <1>4 DEF LeaveInv, PrivateInv, WaitInv, ClosedInv, LeaveQuiet, Quiet
  <2>2. QED
    BY <2>1 DEF u
<1>5. QED
  BY <1>2, <1>3, <1>4

\* A save has ended.
LEMMA LeaveOfSettled ==
  ASSUME NEW t \in Tab, LeaveInv(t), BaseInv(t), LeavingFits(t), NEW ok \in BOOLEAN,
         t.page = "open" => t.note # None, t.page # "dead",
         t.page = "closed" => ~LeaveQuiet(t),
         t.page = "open" /\ LeaveQuiet(t) /\ ~ok => row = "gone",
         t.page = "open" /\ LeaveQuiet(t) /\ t.note = "PRIVATE" /\ t.leaving # "close" => text.vis = "PRIVATE"
  PROVE  LeaveInv(Settle(t, "save", ok))
<1> DEFINE e == Ended(t, ok)
           u == Resume(e)
<1>1. Settle(t, "save", ok) = u
  BY SettleFacts
<1>2. /\ e \in Tab /\ SameView(t, e) /\ SameLock(t, e) /\ e.mishaps = t.mishaps
      /\ e.leaving = t.leaving /\ ~e.saving /\ e.dirty = (t.dirty \/ ~ok)
      /\ e.calls["save"].op = "none" /\ e.calls["save"].at = "idle" /\ OtherCalls(t, e, "save")
  BY EndedFacts
<1> HIDE DEF e
<1>3. /\ u \in Tab
      /\ e.leaving = "no" => u = e
      /\ e.leaving = "close" => Left(e, u)
      /\ e.leaving = "archive" => Archives(e, u)
      /\ e.leaving \in {"no", "close", "archive"}
  BY <1>2, ResumeFacts DEF Tab
<1> HIDE DEF u
<1>4. LeaveQuiet(e) <=> LeaveQuiet(t)
  BY <1>2 DEF LeaveQuiet, Quiet
<1>5. t.page = "open" /\ t.leaving # "close" => PrivateInv(e)
  <2> SUFFICES ASSUME t.page = "open", t.leaving # "close", LeaveQuiet(t), t.note = "PRIVATE"
               PROVE  PrivateInv(e)
    BY <1>2, <1>4 DEF PrivateInv, SameView, SameLock
  <2>1. \A f \in {"take", "beat", "poll"} : e.calls[f] = t.calls[f]
    BY <1>2, FlowsAre DEF OtherCalls
  <2>2. QED
    BY <1>2, <2>1 DEF LeaveInv, PrivateInv, SameView, SameLock, Idle
<1>6. CASE t.leaving = "no"
  <2>1. u = e
    BY <1>2, <1>3, <1>6
  <2>2. WaitInv(e)
    BY <1>2, <1>6 DEF WaitInv
  <2>3. CASE t.page = "open"
    BY <1>1, <1>2, <1>5, <1>6, <2>1, <2>2, <2>3, LeaveOfOpen DEF SameView
  <2>4. CASE t.page = "closed"
    <3>1. ClosedInv(e) /\ e.page # "open"
      BY <1>2, <1>4, <2>4 DEF ClosedInv, SameView
    <3>2. QED
      BY <1>1, <2>1, <3>1, LeaveOfClosed
  <2>5. QED
    BY <2>3, <2>4 DEF Tab
<1>7. CASE t.leaving = "archive"
  <2>1. Archives(e, u) /\ t.page = "open"
    BY <1>2, <1>3, <1>7 DEF LeavingFits
  <2>2. \A f \in {"take", "beat", "poll", "save"} : u.calls[f] = e.calls[f]
    BY <2>1, FlowsAre DEF Archives, OtherCalls
  <2>3. PrivateInv(u)
    BY <1>2, <1>3, <1>5, <1>7, <2>1, <2>2, PrivateKept DEF Archives
  <2>4. WaitInv(u) /\ u.page # "closed"
    BY <1>2, <2>1 DEF WaitInv, Archives, SameView
  <2>5. QED
    BY <1>1, <2>3, <2>4, LeaveOfOpen
<1>8. CASE t.leaving = "close"
  <2>1. Left(e, u) /\ t.page = "open"
    BY <1>2, <1>3, <1>8 DEF LeavingFits
  <2>2. LeaveQuiet(u) => LeaveQuiet(t)
    <3>1. t.mishaps \subseteq u.mishaps
      BY <1>2, <2>1 DEF Left
    <3>2. QED
      BY <3>1, QuietKept DEF LeaveQuiet
  <2>3. e.calls["last"].op = "none" /\ Idle(e, "last")
    <3>1. e.calls["last"] = t.calls["last"]
      BY <1>2, FlowsAre DEF OtherCalls
    <3>2. QED
      BY <2>1, <3>1, FlowsAre DEF BaseInv, PageFits, CallsFit, CallFits, Idle
  <2>4. LeaveQuiet(u) => (e.dirty => row = "gone")
    BY <1>2, <1>8, <2>1, <2>2 DEF LeaveInv, WaitInv
  <2>5. LeaveQuiet(u) /\ e.note # "PUBLIC" => ~(e.held \/ e.beating \/ e.polling)
    <3>1. t.note \in {"PRIVATE", "PUBLIC"}
      BY <2>1 DEF Tab
    <3>2. QED
      BY <1>2, <2>1, <2>2, <3>1 DEF LeaveInv, PrivateInv, SameLock
  <2>6. ClosedInv(u)
    BY <1>2, <2>1, <2>3, <2>4, <2>5, ClosedOfLeft
  <2>7. QED
    BY <1>1, <2>1, <2>6, LeaveOfClosed DEF Left
<1>9. QED
  BY <1>2, <1>3, <1>6, <1>7, <1>8

\* The note was loaded.
LEMMA LeaveOfLoaded ==
  ASSUME IBase, LeaveInv(tab), NEW expired \in BOOLEAN, LoadAnswered(expired)
  PROVE  LeaveInv(tab)'
<1> DEFINE t == Done(tab, "load")
           a == tab.calls["load"]
           other == HeldByOther("load", expired)
<1>1. tab \in Tab /\ BaseInv(tab) /\ a \in Call /\ other \in BOOLEAN /\ UNCHANGED serverVars
  BY BackFacts, FlowsAre DEF LoadAnswered
<1>2. (a.at = "ok" /\ tab' = ApplyServer(t, a, other)) \/ tab' = t
  BY DEF LoadAnswered
<1>3. t \in Tab /\ LeaveInv(t) /\ BaseInv(t) /\ SameView(tab, t) /\ SameLock(tab, t)
  BY <1>1, DoneFacts, LeaveOfDone, BaseOfDone, FlowsAre
<1>4. a.at = "ok" /\ t.page = "open" /\ t.note = None => a.got.vis = text.vis
  BY <1>1, <1>3 DEF BaseInv, Loading, SameView, SameLock
<1> HIDE DEF t, a, other
<1>5. QED
  BY <1>1, <1>2, <1>3, <1>4, LeaveOfApplied, LeaveAlone

\* The poll is answered.
LEMMA LeaveOfPolled ==
  ASSUME IBase, LeaveInv(tab), NEW expired \in BOOLEAN, PollAnswered(expired)
  PROVE  LeaveInv(tab)'
<1> DEFINE d == Done(tab, "poll")
           a == tab.calls["poll"]
           other == HeldByOther("poll", expired)
           t == OnRefresh(d, a, other)
           next == IF other THEN "locked" ELSE "available"
           u == Transition(t, next)
           s == StopTimers(d)
<1>1. /\ tab \in Tab /\ a \in Call /\ other \in BOOLEAN /\ UNCHANGED serverVars
      /\ ~Idle(tab, "poll") /\ (tab.page = "open" => tab.note # None)
  BY BackFacts, FlowsAre DEF PollAnswered
<1>2. tab' = u \/ tab' = s \/ tab' = d
  BY DEF PollAnswered
<1>3. /\ d \in Tab /\ LeaveInv(d) /\ SameView(tab, d) /\ SameEdit(tab, d) /\ SameLock(tab, d)
      /\ d.mishaps = tab.mishaps
  BY <1>1, DoneFacts, LeaveOfDone, FlowsAre
<1>4. d.page = "open" /\ LeaveQuiet(d) => d.note # "PRIVATE"
  BY <1>1, <1>3 DEF LeaveInv, PrivateInv, LeaveQuiet, Quiet, SameView, SameLock
<1>5. d.page = "open" => d.note # None
  BY <1>1, <1>3 DEF SameView, SameLock
<1>6. next \in LockStatus
  BY DEF LockStatus
<1>7. t = IF d.shown # "mine" THEN ApplyServer(d, a, other) ELSE d
  BY DEF OnRefresh
<1> HIDE DEF d, a, other, next, t
<1>8. /\ t \in Tab /\ SameView(d, t) /\ SameWork(d, t) /\ d.mishaps \subseteq t.mishaps
      /\ d.page = "open" => t.note = d.note \/ "flip" \in t.mishaps
      /\ d.page # "open" => SameLock(d, t) /\ SameCalls(d, t)
  <2>1. CASE t = d
    BY <1>3, <2>1 DEF SameView, SameWork, SameLock, SameCalls
  <2>2. CASE t = ApplyServer(d, a, other)
    BY <1>1, <1>3, <1>5, <2>2, AppliedFacts DEF SameLock
  <2>3. QED
    BY <1>7, <2>1, <2>2
<1>9. /\ u \in Tab /\ SameView(t, u) /\ SameEdit(t, u) /\ SameCalls(t, u)
      /\ u.note = t.note /\ u.held = t.held /\ u.beating = t.beating /\ u.polling = t.polling
  BY <1>6, <1>8, TransitionFacts
<1>10. /\ s \in Tab /\ SameView(d, s) /\ SameEdit(d, s) /\ SameCalls(d, s)
       /\ s.note = d.note /\ s.held = d.held /\ ~s.beating /\ ~s.polling
  BY <1>3, TimersFacts
<1> HIDE DEF u, s
<1>11. LeaveInv(u)
  <2>1. /\ SameView(d, u) /\ d.mishaps \subseteq u.mishaps /\ u.note = t.note
        /\ u.leaving = d.leaving /\ u.dirty = d.dirty /\ u.armed = d.armed /\ u.saving = d.saving
    BY <1>8, <1>9 DEF SameView, SameCalls, SameWork, SameEdit
  <2>2. PrivateInv(u)
    BY <1>4, <1>8, <1>9, <2>1, PrivateNew DEF SameView, SameCalls
  <2>3. WaitInv(u)
    BY <1>3, <1>9, <2>1, WaitKept DEF LeaveInv, SameView
  <2>4. ClosedInv(u)
    <3>1. CASE d.page = "open"
      BY <2>1, <3>1 DEF ClosedInv, SameView
    <3>2. CASE d.page # "open"
      BY <1>3, <1>8, <1>9, <2>1, <3>2, ClosedKept DEF LeaveInv, SameView, SameLock, SameCalls
    <3>3. QED
      BY <3>1, <3>2
  <2>5. QED
    BY <2>2, <2>3, <2>4 DEF LeaveInv
<1>12. LeaveInv(s)
  <2>1. PrivateInv(s)
    BY <1>4, <1>10, PrivateNew DEF SameView, SameCalls
  <2>2. WaitInv(s)
    BY <1>3, <1>10, WaitKept DEF LeaveInv, SameView, SameEdit, SameCalls
  <2>3. ClosedInv(s)
    BY <1>3, <1>10, ClosedKept DEF LeaveInv, SameView, SameEdit, SameCalls
  <2>4. QED
    BY <2>1, <2>2, <2>3 DEF LeaveInv
<1>13. QED
  BY <1>1, <1>2, <1>3, <1>11, <1>12, LeaveAlone

\* The lock is lost to somebody.
LEMMA LeaveOfConflict ==
  ASSUME NEW t \in Tab, typed \in Nat, LeaveInv(t), t.page = "open" /\ LeaveQuiet(t) => t.note # "PRIVATE"
  PROVE  LeaveInv(EnterConflict(t))
<1> DEFINE u == EnterConflict(t)
<1>1. /\ u \in Tab /\ SameView(t, u) /\ SameCalls(t, u) /\ u.dirty = t.dirty
      /\ u.saving = t.saving /\ u.armed = t.armed /\ u.leaving = t.leaving
      /\ u.note = t.note /\ ~u.held /\ ~u.beating /\ ~u.polling
  BY ConflictFacts
<1> HIDE DEF u
<1>2. PrivateInv(u)
  BY <1>1, PrivateNew DEF SameView, SameCalls
<1>3. WaitInv(u)
  BY <1>1, WaitKept DEF LeaveInv, SameView, SameCalls
<1>4. ClosedInv(u)
  BY <1>1, ClosedKept DEF LeaveInv, SameView, SameCalls
<1>5. LeaveInv(u)
  BY <1>2, <1>3, <1>4 DEF LeaveInv
<1>6. QED
  BY <1>5 DEF u

\* The lock is had.
LEMMA LeaveOfAcquired ==
  ASSUME NEW t \in Tab, NEW a \in Call, LeaveInv(t), t.page = "open" => t.note # None,
         t.page = "open" /\ LeaveQuiet(t) => t.note # "PRIVATE",
         t.page = "closed" => ~LeaveQuiet(t)
  PROVE  LeaveInv(Acquired(t, a))
<1> DEFINE u == Acquired(t, a)
           flips == t.page = "open" /\ t.shown # "mine" /\ t.note # a.got.vis
<1>1. /\ u \in Tab /\ SameView(t, u) /\ SameWork(t, u) /\ t.mishaps \subseteq u.mishaps
      /\ flips /\ t.note # None => "flip" \in u.mishaps
      /\ ~flips => u.note = t.note
  BY AcquiredFacts
<1> HIDE DEF u
<1>2. u.page = "open" => u.note = t.note \/ "flip" \in u.mishaps
  BY <1>1 DEF SameView
<1>3. PrivateInv(u)
  BY <1>1, <1>2, PrivateNew DEF SameView
<1>4. WaitInv(u)
  BY <1>1, WaitKept DEF LeaveInv, SameView, SameWork
<1>5. ClosedInv(u)
  <2>1. LeaveQuiet(u) => LeaveQuiet(t)
    BY <1>1, QuietKept DEF LeaveQuiet
  <2>2. QED
    BY <1>1, <2>1 DEF ClosedInv, SameView
<1>6. LeaveInv(u)
  BY <1>3, <1>4, <1>5 DEF LeaveInv
<1>7. QED
  BY <1>6 DEF u

\* The taking of the lock is answered.
LEMMA LeaveOfTaken ==
  ASSUME IBase, LeaveInv(tab), TakeAnswered
  PROVE  LeaveInv(tab)'
<1> DEFINE d == Done(tab, "take")
           a == tab.calls["take"]
           q == Acquired(d, a)
           n == NotAcquired(d, a.at = "held")
<1>1. /\ tab \in Tab /\ a \in Call /\ ~Idle(tab, "take")
      /\ tab.page = "open" => tab.note # None
      /\ UNCHANGED serverVars
  BY BackFacts, FlowsAre DEF TakeAnswered
<1>2. tab' = q \/ tab' = n
  BY DEF TakeAnswered
<1>3. /\ d \in Tab /\ SameView(tab, d) /\ SameEdit(tab, d) /\ SameLock(tab, d)
      /\ d.mishaps = tab.mishaps /\ LeaveInv(d)
  BY <1>1, DoneFacts, LeaveOfDone, FlowsAre
<1>4. /\ d.page = "open" => d.note # None
      /\ d.page = "open" /\ LeaveQuiet(d) => d.note # "PRIVATE"
      /\ d.page = "closed" => ~LeaveQuiet(d)
  BY <1>1, <1>3 DEF LeaveInv, PrivateInv, ClosedInv, LeaveQuiet, Quiet, SameView, SameLock
<1>5. (a.at = "held") \in BOOLEAN
  OBVIOUS
<1> HIDE DEF d, a
<1>6. LeaveInv(q)
  BY <1>1, <1>3, <1>4, LeaveOfAcquired
<1>7. /\ n \in Tab /\ SameView(d, n) /\ SameEdit(d, n) /\ d.mishaps \subseteq n.mishaps
      /\ n.note = d.note
  BY <1>3, <1>5, NotAcquiredFacts
<1> HIDE DEF q, n
<1>8. LeaveInv(n)
  <2>1. PrivateInv(n)
    BY <1>4, <1>7, PrivateNew DEF SameView
  <2>2. WaitInv(n)
    BY <1>3, <1>7, WaitKept DEF LeaveInv, SameView, SameEdit
  <2>3. ClosedInv(n)
    <3>1. LeaveQuiet(n) => LeaveQuiet(d)
      BY <1>7, QuietKept DEF LeaveQuiet
    <3>2. QED
      BY <1>4, <1>7, <3>1 DEF ClosedInv, SameView
  <2>4. QED
    BY <2>1, <2>2, <2>3 DEF LeaveInv
<1>9. QED
  BY <1>1, <1>2, <1>6, <1>8, LeaveAlone

\* A call that is no leave's goes out.
LEMMA LeaveOfSend ==
  ASSUME NEW t \in Tab, NEW f \in {"save", "last"}, NEW op \in {"lock", "retry"}, NEW doc \in Doc, LeaveInv(t),
         t.page = "open" /\ LeaveQuiet(t) => t.note # "PRIVATE",
         t.page = "closed" => ~LeaveQuiet(t)
  PROVE  LeaveInv(Send(t, f, op, doc))
<1> DEFINE u == Send(t, f, op, doc)
<1>1. /\ u \in Tab /\ SameView(t, u) /\ SameEdit(t, u) /\ SameLock(t, u) /\ u.mishaps = t.mishaps
  <2>1. f \in Flows
    BY FlowsAre
  <2>2. QED
    BY <2>1, SendFacts
<1> HIDE DEF u
<1>2. PrivateInv(u)
  BY <1>1, PrivateNew DEF SameView, SameLock
<1>3. WaitInv(u)
  BY <1>1, WaitKept DEF LeaveInv, SameView, SameEdit
<1>4. ClosedInv(u)
  BY <1>1 DEF ClosedInv, SameView, LeaveQuiet, Quiet
<1>5. LeaveInv(u)
  BY <1>2, <1>3, <1>4 DEF LeaveInv
<1>6. QED
  BY <1>5 DEF u

\* Nothing is asked after a mishap.
LEMMA LeaveExcused ==
  ASSUME NEW t, NEW u, t.mishaps \subseteq u.mishaps, ~LeaveQuiet(t)
  PROVE  LeaveInv(u)
BY QuietKept DEF LeaveQuiet, LeaveInv, PrivateInv, WaitInv, ClosedInv

\* What a save's answer can do, and when.
LEMMA SavedCases ==
  ASSUME NEW f \in {"save", "last"}, SaveAnswered(f)
  PROVE  LET a == tab.calls[f]
             mine == Acquired(tab, a)
             noted == IF tab.leaving = "close" THEN tab ELSE SetNote(tab, a, a.taken) IN
         \/ /\ a.op \in {"patch", "retry"} /\ a.at = "ok"
            /\ tab' = Settle(noted, f, TRUE)
         \/ /\ a.op # "lock" /\ a.at \in {"gone", "error"}
            /\ tab' = Settle(tab, f, FALSE)
         \/ /\ a.op = "patch" /\ a.at = "required"
            /\ tab' = Send(tab, f, "lock", a.sent)
         \/ /\ a.op = "lock" /\ a.at = "ok"
            /\ tab' = Send(mine, f, "retry", [mine.draft EXCEPT !.vis = a.sent.vis])
         \/ /\ a.op = "lock" \/ a.at \notin {"gone", "error"}
            /\ a.op \notin {"patch", "retry"} \/ a.at # "ok"
            /\ a.op # "patch" \/ a.at # "required"
            /\ a.op # "lock" \/ a.at # "ok"
            /\ tab' = Settle(EnterConflict(tab), f, TRUE)
BY DEF SaveAnswered

\* The last save of a closed editor is answered.
LEMMA LeaveOfLastSaved ==
  ASSUME IBase, LeaveInv(tab), SaveAnswered("last")
  PROVE  LeaveInv(tab)'
<1> DEFINE a == tab.calls["last"]
           mine == Acquired(tab, a)
           doc == [mine.draft EXCEPT !.vis = a.sent.vis]
           noted == IF tab.leaving = "close" THEN tab ELSE SetNote(tab, a, a.taken)
<1>1. /\ tab \in Tab /\ typed \in Nat /\ a \in Call /\ tab.page = "closed" /\ CallFits(tab, "last")
      /\ ~Idle(tab, "last") /\ a.at # "sent" /\ UNCHANGED serverVars
  BY BackFacts, FlowsAre DEF SaveAnswered, Back
<1>2. a.sent \in Doc /\ a.taken \in BOOLEAN /\ a.sent.vis \in {"PRIVATE", "PUBLIC"}
  BY <1>1 DEF Call, Doc
<1>3. CASE LeaveQuiet(tab)
  <2>1. a.op = "patch" /\ a.at = "gone"
    BY <1>1, <1>3 DEF LeaveInv, ClosedInv, CallFits, Idle
  <2>2. tab' = Settle(tab, "last", FALSE)
    BY <2>1, SavedCases
  <2>3. tab' = Done(tab, "last")
    BY <1>1, <2>2, SettleFacts
  <2>4. QED
    BY <1>1, <2>3, LeaveOfDone, FlowsAre, LeaveAlone
<1>4. CASE ~LeaveQuiet(tab)
  <2>1. tab.mishaps \subseteq tab'.mishaps
    <3> HIDE DEF a
    <3>1. noted \in Tab /\ tab.mishaps \subseteq noted.mishaps
      BY <1>1, <1>2, SetNoteFacts
    <3>2. LET c == EnterConflict(tab) IN c \in Tab /\ c.mishaps = tab.mishaps
      BY <1>1, ConflictFacts DEF SameCalls
    <3>3. mine \in Tab /\ tab.mishaps \subseteq mine.mishaps
      BY <1>1, AcquiredFacts
    <3> HIDE DEF noted, mine
    <3>4. ASSUME NEW t \in Tab, NEW ok \in BOOLEAN
          PROVE  Settle(t, "last", ok).mishaps = t.mishaps
      <4>1. Settle(t, "last", ok) = Done(t, "last")
        BY SettleFacts
      <4>2. QED
        BY <4>1, DoneFacts, FlowsAre
    <3>5. mine.draft \in Doc
      BY <3>3 DEF Tab
    <3>6. doc \in Doc
      BY <1>2, <3>5, DraftTypes
    <3> HIDE DEF doc
    <3>7. ASSUME NEW t \in Tab, NEW op \in {"lock", "retry"}, NEW d \in Doc
          PROVE  Send(t, "last", op, d).mishaps = t.mishaps
      <4>1. "last" \in Flows /\ op \in {"get", "lock", "patch", "retry", "archive", "delete"}
        BY FlowsAre
      <4>2. QED
        BY <4>1, SendFacts
    <3>8. \/ tab' = Settle(noted, "last", TRUE) \/ tab' = Settle(tab, "last", FALSE)
          \/ tab' = Send(tab, "last", "lock", a.sent) \/ tab' = Send(mine, "last", "retry", doc)
          \/ tab' = Settle(EnterConflict(tab), "last", TRUE)
      BY SavedCases DEF noted, mine, doc, a
    <3>9. CASE \/ tab' = Settle(noted, "last", TRUE) \/ tab' = Settle(tab, "last", FALSE)
               \/ tab' = Settle(EnterConflict(tab), "last", TRUE)
      BY <1>1, <3>1, <3>2, <3>4, <3>9
    <3>10. CASE tab' = Send(tab, "last", "lock", a.sent) \/ tab' = Send(mine, "last", "retry", doc)
      <4>1. tab'.mishaps = tab.mishaps \/ tab'.mishaps = mine.mishaps
        BY <1>1, <1>2, <3>3, <3>6, <3>7, <3>10 DEF a
      <4>2. QED
        BY <3>3, <4>1
    <3>11. QED
      BY <3>8, <3>9, <3>10
  <2>2. QED
    BY <1>1, <1>4, <2>1, LeaveExcused, LeaveAlone
<1>5. QED
  BY <1>3, <1>4

\* A save is answered.
LEMMA LeaveOfSaved ==
  ASSUME IBase, LeaveInv(tab), SaveAnswered("save")
  PROVE  LeaveInv(tab)'
<1> DEFINE a == tab.calls["save"]
           mine == Acquired(tab, a)
           doc == [mine.draft EXCEPT !.vis = a.sent.vis]
           noted == IF tab.leaving = "close" THEN tab ELSE SetNote(tab, a, a.taken)
           peace == tab.page = "open" /\ LeaveQuiet(tab)
<1>1. /\ tab \in Tab /\ typed \in Nat /\ a \in Call /\ CallFits(tab, "save") /\ BaseInv(tab)
      /\ tab.page # "dead" /\ (tab.page = "open" => tab.note # None)
      /\ ~Idle(tab, "save") /\ a.at # "sent" /\ tab.saving /\ LeavingFits(tab)
      /\ UNCHANGED serverVars
  BY BackFacts, FlowsAre DEF SaveAnswered, Back, Alive
<1>2. a.sent \in Doc /\ a.taken \in BOOLEAN /\ a.sent.vis \in {"PRIVATE", "PUBLIC"}
  BY <1>1 DEF Call, Doc
<1>3. tab.page = "closed" => ~LeaveQuiet(tab)
  BY <1>1 DEF LeaveInv, ClosedInv
<1>4. peace /\ tab.note = "PRIVATE" =>
        /\ a.op = "patch" /\ a.at \in {"ok", "gone", "error"}
        /\ text.vis = "PRIVATE" \/ (a.at = "ok" /\ a.got.vis = "PUBLIC")
  <2>1. a.at \in {"idle", "sent", "ok", "held", "required", "gone", "error"}
    BY <1>1 DEF Call
  <2>2. QED
    BY <1>1, <2>1 DEF LeaveInv, PrivateInv, CallFits, Idle
<1>5. peace => (a.at \in {"gone", "error"} => row = "gone")
  BY <1>1 DEF CallFits, LeaveQuiet, Quiet
<1> HIDE DEF a
<1>6. CASE a.op \in {"patch", "retry"} /\ a.at = "ok" /\ tab' = Settle(noted, "save", TRUE)
  <2>1. /\ noted \in Tab /\ SameView(tab, noted) /\ SameEdit(tab, noted)
        /\ tab.mishaps \subseteq noted.mishaps /\ LeaveInv(noted) /\ BaseInv(noted)
        /\ tab.page = "open" => noted.note # None
        /\ noted = tab \/ "flip" \in noted.mishaps
        /\ tab.page = "open" /\ tab.leaving # "close" /\ tab.note # a.got.vis => "flip" \in noted.mishaps
    <3>1. CASE tab.leaving = "close"
      BY <1>1, <3>1 DEF SameView, SameEdit
    <3>2. CASE tab.leaving # "close"
      <4> DEFINE v == SetNote(tab, a, a.taken)
      <4>1. noted = v
        BY <3>2
      <4>2. /\ v \in Tab /\ SameView(tab, v) /\ SameEdit(tab, v)
            /\ tab.mishaps \subseteq v.mishaps
            /\ tab.page # "open" \/ tab.note = a.got.vis => v = tab
            /\ tab.page = "open" /\ tab.note # a.got.vis =>
                 /\ v.note = a.got.vis
                 /\ tab.note # None => "flip" \in v.mishaps
        BY <1>1, <1>2, SetNoteFacts
      <4>3. LeaveInv(v) /\ BaseInv(v)
        BY <1>1, <1>2, LeaveOfSetNote, BaseOfSetNote
      <4>4. a.got.vis \in {"PRIVATE", "PUBLIC"}
        BY <1>1 DEF Call, Doc
      <4> HIDE DEF v, noted
      <4>5. QED
        BY <1>1, <4>1, <4>2, <4>3, <4>4, EditorAssumption
    <3>3. QED
      BY <3>1, <3>2
  <2> HIDE DEF noted
  <2>2. LeavingFits(noted)
    BY <1>1, <2>1 DEF LeavingFits, SameView, SameEdit
  <2>3. noted.page # "dead" /\ (noted.page = "open" => noted.note # None)
    BY <1>1, <2>1 DEF SameView
  <2>4. noted.page = "closed" => ~LeaveQuiet(noted)
    BY <1>3, <2>1, QuietKept DEF LeaveQuiet, SameView
  <2>5. noted.page = "open" /\ LeaveQuiet(noted) /\ noted.note = "PRIVATE" /\ noted.leaving # "close"
          => text.vis = "PRIVATE"
    BY <1>4, <2>1 DEF LeaveQuiet, Quiet, SameView, SameEdit
  <2>6. QED
    BY <1>1, <1>6, <2>1, <2>2, <2>3, <2>4, <2>5, LeaveOfSettled, LeaveAlone
<1>7. CASE a.op # "lock" /\ a.at \in {"gone", "error"} /\ tab' = Settle(tab, "save", FALSE)
  <2>1. peace /\ tab.note = "PRIVATE" => text.vis = "PRIVATE"
    BY <1>4, <1>7
  <2>2. QED
    BY <1>1, <1>3, <1>5, <1>7, <2>1, LeaveOfSettled, LeaveAlone
<1>8. CASE a.op = "patch" /\ a.at = "required" /\ tab' = Send(tab, "save", "lock", a.sent)
  BY <1>1, <1>2, <1>3, <1>4, <1>8, LeaveOfSend, LeaveAlone
<1>9. CASE a.op = "lock" /\ a.at = "ok" /\ tab' = Send(mine, "save", "retry", doc)
  <2>1. peace => tab.note # "PRIVATE"
    BY <1>4, <1>9
  <2>2. /\ mine \in Tab /\ SameView(tab, mine) /\ tab.mishaps \subseteq mine.mishaps
        /\ mine.note = tab.note \/ "flip" \in mine.mishaps \/ tab.page # "open"
    BY <1>1, AcquiredFacts
  <2>3. LeaveInv(mine)
    BY <1>1, <1>3, <2>1, LeaveOfAcquired
  <2> HIDE DEF mine
  <2>4. mine.draft \in Doc
    BY <2>2 DEF Tab
  <2>5. doc \in Doc
    BY <1>2, <2>4, DraftTypes
  <2> HIDE DEF doc
  <2>6. LeaveQuiet(mine) => LeaveQuiet(tab) /\ "flip" \notin mine.mishaps
    BY <2>2, QuietKept DEF LeaveQuiet, Quiet
  <2>7. /\ mine.page = "open" /\ LeaveQuiet(mine) => mine.note # "PRIVATE"
        /\ mine.page = "closed" => ~LeaveQuiet(mine)
    BY <1>3, <2>1, <2>2, <2>6 DEF SameView
  <2>8. QED
    BY <1>1, <1>9, <2>2, <2>3, <2>5, <2>7, LeaveOfSend, LeaveAlone
<1>10. CASE /\ a.op = "lock" \/ a.at \notin {"gone", "error"}
            /\ a.op \notin {"patch", "retry"} \/ a.at # "ok"
            /\ tab' = Settle(EnterConflict(tab), "save", TRUE)
  <2> DEFINE c == EnterConflict(tab)
  <2>1. peace => tab.note # "PRIVATE"
    BY <1>4, <1>10
  <2>2. /\ c \in Tab /\ SameView(tab, c) /\ SameCalls(tab, c) /\ c.note = tab.note
        /\ c.leaving = tab.leaving /\ c.saving = tab.saving
    BY <1>1, ConflictFacts
  <2>3. LeaveInv(c) /\ BaseInv(c)
    BY <1>1, <2>1, LeaveOfConflict, BaseOfConflict
  <2> HIDE DEF c
  <2>4. LeavingFits(c) /\ c.page # "dead" /\ (c.page = "open" => c.note # None)
    BY <1>1, <2>2 DEF LeavingFits, SameView
  <2>5. LeaveQuiet(c) <=> LeaveQuiet(tab)
    BY <2>2 DEF LeaveQuiet, Quiet, SameCalls
  <2>6. (c.page = "closed" => ~LeaveQuiet(c)) /\ (c.page = "open" /\ LeaveQuiet(c) => c.note # "PRIVATE")
    BY <1>3, <2>1, <2>2, <2>5 DEF SameView
  <2>7. tab' = Settle(c, "save", TRUE)
    BY <1>10 DEF c
  <2>8. QED
    BY <1>1, <2>2, <2>3, <2>4, <2>6, <2>7, LeaveOfSettled, LeaveAlone
<1>11. QED
  BY <1>6, <1>7, <1>8, <1>9, <1>10, SavedCases DEF a

\* Every answer that reaches the editor leaves it in order.
LEMMA LeaveOfAnswered ==
  ASSUME IBase, LeaveInv(tab), Answered
  PROVE  LeaveInv(tab)'
<1>1. tab \in Tab /\ typed \in Nat /\ BaseInv(tab)
  BY DEF IBase, TypeOK
<1>2. ASSUME NEW expired \in BOOLEAN, LoadAnswered(expired) \/ PollAnswered(expired)
      PROVE  LeaveInv(tab)'
  BY <1>2, LeaveOfLoaded, LeaveOfPolled
<1>3. CASE BeatAnswered
  <2> DEFINE d == Done(tab, "beat")
  <2>1. /\ tab' = EnterConflict(d) \/ tab' = d
        /\ UNCHANGED serverVars /\ ~Idle(tab, "beat")
    BY <1>3, BackFacts, FlowsAre DEF BeatAnswered
  <2>2. /\ d \in Tab /\ LeaveInv(d) /\ SameView(tab, d) /\ SameLock(tab, d) /\ d.mishaps = tab.mishaps
    BY <1>1, DoneFacts, LeaveOfDone, FlowsAre
  <2> HIDE DEF d
  <2>3. d.page = "open" /\ LeaveQuiet(d) => d.note # "PRIVATE"
    BY <2>1, <2>2 DEF LeaveInv, PrivateInv, LeaveQuiet, Quiet, SameView, SameLock
  <2>4. QED
    BY <1>1, <2>1, <2>2, <2>3, LeaveOfConflict, LeaveAlone
<1>4. CASE TakeAnswered
  BY <1>4, LeaveOfTaken
<1>5. CASE SaveAnswered("save") \/ SaveAnswered("last")
  BY <1>5, LeaveOfSaved, LeaveOfLastSaved
<1>6. CASE LeaveAnswered
  <2> DEFINE d == Done(tab, "leave")
             n == NotingIf(d, d.dirty \/ Busy(d), "hurry")
  <2>1. /\ tab' = d \/ (tab' = Unmount(n) /\ tab.page = "open")
        /\ UNCHANGED serverVars
    BY <1>6 DEF LeaveAnswered, Mounted
  <2>2. d \in Tab /\ LeaveInv(d) /\ BaseInv(d) /\ SameView(tab, d)
    BY <1>1, DoneFacts, LeaveOfDone, BaseOfDone, FlowsAre
  <2> HIDE DEF d
  <2>3. (d.dirty \/ Busy(d)) \in BOOLEAN /\ "hurry" \in Mishaps
    BY <2>2 DEF Busy, Idle, Tab, Mishaps
  <2>4. /\ n \in Tab /\ SameView(d, n) /\ SameEdit(d, n) /\ SameLock(d, n)
        /\ n.calls = d.calls /\ d.mishaps \subseteq n.mishaps
        /\ d.dirty \/ Busy(d) => "hurry" \in n.mishaps
    BY <2>2, <2>3, NotingIfFacts
  <2> HIDE DEF n
  <2>5. CASE tab' = Unmount(n) /\ tab.page = "open"
    <3>1. Left(n, Unmount(n)) /\ d.page = "open"
      BY <2>2, <2>4, <2>5, UnmountFacts DEF SameView
    <3>2. MemberLeaves(d, Unmount(n))
      BY <2>2, <2>4, <3>1, LeftByHaste DEF Busy
    <3>3. LeaveInv(Unmount(n))
      BY <2>2, <3>1, <3>2, ClosedOfLeaving, LeaveOfClosed DEF LeaveInv
    <3>4. QED
      BY <2>1, <2>5, <3>3, LeaveAlone
  <2>6. QED
    BY <2>1, <2>2, <2>5, LeaveAlone
<1>7. QED
  BY <1>2, <1>3, <1>4, <1>5, <1>6 DEF Answered, LoadOrPollAnswered

\* At first nobody waits and nothing is closed.
LEMMA LeaveOfInit == Init => LeaveInv(tab)
<1> SUFFICES ASSUME Init PROVE LeaveInv(tab)
  OBVIOUS
<1>1. PICK t : Opened(t) /\ (tab = t \/ Started(t, tab))
  BY InitFacts
<1>2. /\ \A f \in {"take", "beat", "poll", "save"} : t.calls[f].at = "idle" /\ t.calls[f].op = "none"
      /\ ~(t.held \/ t.beating \/ t.polling) /\ t.leaving = "no" /\ t.page = "open" /\ t.note = None
  BY <1>1, FlowsAre, NoCallIdle DEF Opened
<1>3. text.vis \in {"PRIVATE", "PUBLIC"}
  BY InitFacts DEF Doc
<1>4. CASE tab = t
  BY <1>2, <1>4, EditorAssumption DEF LeaveInv, PrivateInv, WaitInv, ClosedInv
<1>5. CASE Started(t, tab)
  <2>1. tab.page = "open" /\ tab.leaving = "no"
    BY <1>2, <1>5 DEF Started, SameView, SameEdit
  <2>2. WaitInv(tab) /\ ClosedInv(tab)
    BY <2>1 DEF WaitInv, ClosedInv
  <2>3. PrivateInv(tab)
    <3> SUFFICES ASSUME tab.note = "PRIVATE" PROVE PrivateInv(tab)
      BY DEF PrivateInv
    <3>1. /\ tab.calls = t.calls /\ ~tab.polling /\ tab.shown = "none" /\ text.vis = "PRIVATE"
          /\ ~tab.held /\ ~tab.beating
      <4>1. tab \in Tab /\ t \in Tab
        BY <1>1, <1>5 DEF Opened, Started
      <4>2. tab.held \in BOOLEAN /\ t.held \in BOOLEAN /\ tab.beating \in BOOLEAN /\ t.beating \in BOOLEAN
        BY <4>1 DEF Tab
      <4>3. QED
        BY <1>2, <1>5, <4>2 DEF Started
    <3>2. QED
      BY <1>2, <3>1 DEF PrivateInv, Idle
  <2>4. QED
    BY <2>2, <2>3 DEF LeaveInv
<1>6. QED
  BY <1>1, <1>4, <1>5

\* Every step keeps the leave invariant.
LEMMA LeaveStep ==
  ASSUME IBase, LeaveInv(tab), [Next]_vars
  PROVE  LeaveInv(tab)'
<1>1. CASE Member \/ Timers
  BY <1>1, LeaveOfMember
<1>2. CASE Answered
  BY <1>2, LeaveOfAnswered
<1>3. CASE Server \/ Network \/ Others
  BY <1>3, RemoteSteps, LeaveOfRemote DEF IBase
<1>4. CASE UNCHANGED vars
  <2>1. tab' = tab /\ UNCHANGED serverVars
    BY <1>4 DEF vars, serverVars
  <2>2. LeaveInv(tab')
    BY <2>1
  <2>3. QED
    BY <2>1, <2>2, LeaveAlone
<1>5. QED
  BY <1>1, <1>2, <1>3, <1>4 DEF Next

(***************************************************************************)
(* An editor that was left sends no heartbeat, keeps no poll and takes no  *)
(* lock (useNoteLock.ts, useAutosave.ts), unless it was left in a          *)
(* hurry, a call failed, or the note changed its visibility under the      *)
(* session.                                                                *)
(***************************************************************************)
THEOREM NoGhosts == Spec => []NoGhost
<1>1. Init => IBase /\ LeaveInv(tab)
  BY BaseOfInit, LeaveOfInit
<1>2. IBase /\ LeaveInv(tab) /\ [Next]_vars => IBase' /\ LeaveInv(tab)'
  BY BaseStep, LeaveStep
<1>3. IBase /\ LeaveInv(tab) => NoGhost
  BY DEF LeaveInv, ClosedInv, LeaveQuiet, Quiet, NoGhost, Unless
<1>4. QED
  BY <1>1, <1>2, <1>3, PTL DEF Spec
=============================================================================
