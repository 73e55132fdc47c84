--------------------------- MODULE HistoryScreen ---------------------------
(***************************************************************************)
(* The history of one note and its restore dialog (HistoryPage,            *)
(* HistoryPanel, VersionRow, RestoreConfirm), with the way back to the     *)
(* editor, which loads the note and saves what the member types there.     *)
(* Of the editor only that is kept: EditorSession has the rest.  Contents  *)
(* are model values; typing changes nothing but that a save follows.       *)
(***************************************************************************)
EXTENDS Naturals, Sequences

CONSTANTS Texts,          \* contents of the note
          HistoryBudget,  \* bounds the restores, saves, visits and lost calls
          NoText

ASSUME HistoryAssumption == NoText \notin Texts /\ HistoryBudget \in Nat

VARIABLES versions,   \* the note's versions, newest first, by their content
          note,       \* its content
          hist        \* the state of the page, and of its history
histVars == <<versions, note, hist>>

CallAt == {"idle", "sent", "ok", "failed"}

HistoryTypeOK ==
    /\ versions \in Seq(Texts) /\ note \in Texts
    /\ hist.at \in {"history", "editor"}
    /\ hist.load \in CallAt /\ hist.answer \in Seq(Texts)
    /\ hist.list \in Seq(Texts) /\ hist.failed \in BOOLEAN
    /\ hist.selected \in Nat /\ hist.confirming \in Texts \cup {NoText}
    /\ hist.restoring \in BOOLEAN
    /\ hist.restore \in [at : CallAt, text : Texts \cup {NoText}, live : BOOLEAN]
    /\ hist.late \in Texts \cup {NoText}   \* a restore that was seen to fail
    /\ hist.opening \in CallAt /\ hist.draft \in Texts \cup {NoText}
    /\ hist.save \in Texts \cup {NoText}
    /\ hist.wanted \in Texts \cup {NoText} /\ hist.left \in 0..HistoryBudget
    /\ hist.mishaps \subseteq {"left", "saving", "late"}

NoRestore == [at |-> "idle", text |-> NoText, live |-> FALSE]

\* A page is mounted and fetches: the history its list, the editor its note.
Mount(h, at) ==
    [h EXCEPT !.at = at, !.list = <<>>, !.failed = FALSE, !.selected = 1, !.answer = <<>>,
              !.confirming = NoText, !.restoring = FALSE, !.restore.live = FALSE, !.draft = NoText,
              !.load = IF at = "history" THEN "sent" ELSE "idle",
              !.opening = IF at = "editor" THEN "sent" ELSE "idle"]

Fresh == [at |-> "history", load |-> "sent", answer |-> <<>>, list |-> <<>>, failed |-> FALSE,
          selected |-> 1, confirming |-> NoText, restoring |-> FALSE, restore |-> NoRestore,
          late |-> NoText, opening |-> "idle", draft |-> NoText, save |-> NoText,
          wanted |-> NoText, left |-> HistoryBudget, mishaps |-> {}]

\* The editor's last save may still be on its way when the history opens.
HistoryInit ==
    /\ versions \in [1..3 -> Texts]
    /\ note = versions[1]
    /\ \E save \in {NoText, note} : hist = [Fresh EXCEPT !.save = save]

HistNoted(h, mishap, cond) == IF cond THEN [h EXCEPT !.mishaps = @ \cup {mishap}] ELSE h

----------------------------------------------------------------------------
\* The page.

\* The effect's fetch; its answer is not used once the page is left.
HistoryAnswered ==
    /\ hist.load \in {"ok", "failed"}
    /\ hist' = [hist EXCEPT !.load = "idle", !.list = hist.answer,
                            !.failed = (hist.load = "failed")]
    /\ UNCHANGED <<versions, note>>

Shown == hist.at = "history" /\ ~hist.failed /\ hist.list # <<>>

\* A row of the panel.  The newest version is the current one.
IsCurrent == hist.selected = 1
Select(i) ==
    /\ Shown /\ i \in DOMAIN hist.list
    /\ hist' = [hist EXCEPT !.selected = i]
    /\ UNCHANGED <<versions, note>>

\* Offered beside the selected version and under it, unless it is the current one.
AskRestore ==
    /\ Shown /\ ~IsCurrent /\ hist.confirming = NoText
    /\ hist' = [hist EXCEPT !.confirming = hist.list[hist.selected]]
    /\ UNCHANGED <<versions, note>>

CancelRestore ==
    /\ Shown /\ hist.confirming # NoText /\ ~hist.restoring
    /\ hist' = [hist EXCEPT !.confirming = NoText]
    /\ UNCHANGED <<versions, note>>

\* Mutant: the editor opens without waiting for the answer.
DoRestoreAndGo ==
    /\ Shown /\ hist.confirming # NoText /\ ~hist.restoring
    /\ hist.restore.at = "idle" /\ hist.left > 0
    /\ hist' = [Mount(HistNoted(hist, "saving", hist.save # NoText), "editor") EXCEPT
                  !.left = @ - 1,
                  !.restore = [at |-> "sent", text |-> hist.confirming, live |-> FALSE]]
    /\ UNCHANGED <<versions, note>>

\* One call at a time (a bound: a page that was left in the middle of a restore
\* could send another).
DoRestore ==
    /\ Shown /\ hist.confirming # NoText /\ ~hist.restoring
    /\ hist.restore.at = "idle" /\ hist.left > 0
    /\ hist' = [HistNoted(hist, "saving", hist.save # NoText) EXCEPT
                  !.restoring = TRUE, !.left = @ - 1,
                  !.restore = [at |-> "sent", text |-> hist.confirming, live |-> TRUE]]
    /\ UNCHANGED <<versions, note>>

\* navigate to the editor, from wherever the member is by now: an editor that
\* is open already stays as it is.  A failure shows in the dialog.
RestoreAnswered ==
    /\ hist.restore.at \in {"ok", "failed"}
    /\ LET h == [hist EXCEPT !.restore = NoRestore]
       IN hist' = CASE hist.restore.at = "ok" /\ hist.at = "history" -> Mount(h, "editor")
                    [] hist.restore.at = "failed" /\ hist.restore.live -> [h EXCEPT !.restoring = FALSE]
                    [] OTHER -> h
    /\ UNCHANGED <<versions, note>>

\* Escape, the backdrop and the buttons back, whatever dialog is open.
BackToEditor ==
    /\ hist.at = "history"
    /\ hist' = Mount(HistNoted(hist, "left", hist.restore.at # "idle"), "editor")
    /\ UNCHANGED <<versions, note>>

----------------------------------------------------------------------------
\* The editor: what it shows is what it loaded, and a keystroke later what it saves.

EditorOpened ==
    /\ hist.opening = "ok"
    /\ hist' = [hist EXCEPT !.opening = "idle"]
    /\ UNCHANGED <<versions, note>>

EditorSaves ==
    /\ hist.at = "editor" /\ hist.opening = "idle" /\ hist.draft # NoText /\ hist.save = NoText
    /\ hist.left > 0
    /\ hist' = [hist EXCEPT !.save = hist.draft, !.left = @ - 1]
    /\ UNCHANGED <<versions, note>>

OpenHistory ==
    /\ hist.at = "editor" /\ hist.opening = "idle" /\ hist.left > 0
    /\ hist' = Mount([hist EXCEPT !.left = @ - 1], "history")
    /\ UNCHANGED <<versions, note>>

----------------------------------------------------------------------------
\* The server.

ServeHistory ==
    /\ hist.load = "sent"
    /\ hist' = [hist EXCEPT !.load = "ok", !.answer = versions]
    /\ UNCHANGED <<versions, note>>

ServeOpen ==
    /\ hist.opening = "sent"
    /\ hist' = [hist EXCEPT !.opening = "ok", !.draft = note]
    /\ UNCHANGED <<versions, note>>

ServeSave ==
    /\ hist.save # NoText
    /\ note' = hist.save
    /\ hist' = [hist EXCEPT !.save = NoText]
    /\ UNCHANGED versions

\* The note takes the version's content; a version is appended unless the
\* newest is the same already.  The other member's lock refuses it.
Restored(text) ==
    /\ note' = text
    /\ versions' = IF versions[1] = text THEN versions ELSE <<text>> \o versions

ServeRestore ==
    /\ hist.restore.at = "sent"
    /\ Restored(hist.restore.text)
    /\ hist' = [hist EXCEPT !.restore.at = "ok", !.wanted = hist.restore.text]

\* Refused (a lock, a note that is gone), or a call or its answer lost.
FailCall ==
    /\ hist.left > 0
    /\ \/ /\ hist.load \in {"sent", "ok"}
          /\ hist' = [hist EXCEPT !.left = @ - 1, !.load = "failed", !.answer = <<>>]
       \/ /\ hist.restore.at \in {"sent", "ok"}
          /\ hist' = [hist EXCEPT !.left = @ - 1, !.restore.at = "failed"]
       \/ /\ hist.opening \in {"sent", "ok"}
          /\ hist' = [hist EXCEPT !.left = @ - 1, !.opening = "failed", !.draft = NoText]
    /\ UNCHANGED <<versions, note>>

\* The page sees the restore fail while the server still has it before it.
DropRestore ==
    /\ hist.restore.at = "sent" /\ hist.late = NoText /\ hist.left > 0
    /\ hist' = [HistNoted(hist, "late", TRUE) EXCEPT
                  !.left = @ - 1, !.restore.at = "failed", !.late = hist.restore.text]
    /\ UNCHANGED <<versions, note>>

ServeLate ==
    /\ hist.late # NoText
    /\ Restored(hist.late)
    /\ hist' = [hist EXCEPT !.late = NoText, !.wanted = hist.late]

----------------------------------------------------------------------------
HistoryNext ==
    \/ HistoryAnswered \/ AskRestore \/ CancelRestore \/ DoRestore \/ RestoreAnswered
    \/ BackToEditor \/ EditorOpened \/ EditorSaves \/ OpenHistory
    \/ ServeHistory \/ ServeOpen \/ ServeSave \/ ServeRestore \/ FailCall
    \/ DropRestore \/ ServeLate
    \/ \E i \in DOMAIN hist.list : Select(i)

----------------------------------------------------------------------------
(***************************************************************************)
(* A version that was restored stays: the editor that opens next shows it, *)
(* and what is typed there builds on it.  Except when the member left the  *)
(* page before the answer (the editor that is open by then keeps what it   *)
(* loaded and saves it back), a save was still in flight, or the restore   *)
(* was served after the page had seen it fail.                             *)
(***************************************************************************)
RestoreSticks ==
    hist.wanted # NoText =>
      \/ /\ note = hist.wanted
         /\ hist.at = "editor" /\ hist.draft # NoText => hist.draft = hist.wanted
      \/ hist.mishaps # {}
=============================================================================
