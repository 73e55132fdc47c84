---------------------------- MODULE ImportScreen ----------------------------
(***************************************************************************)
(* The import from Google Keep: the page with its three steps              *)
(* (ImportKeepPage, ImportUpload, ImportReview, ImportSummary), and the    *)
(* two calls it makes (import_keep.py).  An archive is a sequence of       *)
(* entries; the content of a note is a model value.  The import is one     *)
(* step: its handler is a coroutine that awaits nothing from its first     *)
(* SELECT to the commit, in the one process that serves the API            *)
(* (docker-entrypoint.sh).  A call that was lost may still be served after *)
(* the page has seen it fail.                                              *)
(***************************************************************************)
EXTENDS Naturals, FiniteSets

CONSTANTS Contents, Files,
          Archives,       \* Files -> entries: [content, trashed], by index
          ImportSlots,    \* how many calls can be in flight at once
          ImportBudget,   \* how many calls are made or lost
          Visits,         \* how often the page is left
          NoFile

ASSUME ImportAssumption ==
    /\ NoFile \notin Files /\ ImportSlots \subseteq Nat
    /\ ImportBudget \in Nat /\ Visits \in Nat
    /\ \A f \in Files : \A i \in DOMAIN Archives[f] :
         Archives[f][i] \in [content : Contents, trashed : BOOLEAN]

VARIABLES imported,     \* how many notes with each content the member has
          page,         \* the state of the page, and of its history
          importCalls
importVars == <<imported, page, importCalls>>

Indices == UNION {DOMAIN Archives[f] : f \in Files}
NoImportCall == [op |-> "none", at |-> "idle", file |-> NoFile, selected |-> {},
                 visit |-> 0]

ImportTypeOK ==
    /\ imported \in [Contents -> Nat]
    /\ page.step \in {"upload", "review", "summary", "gone"}
    /\ page.file \in Files \cup {NoFile} /\ page.reviewed \in Files \cup {NoFile}
    /\ page.selected \subseteq Indices /\ page.busy \in BOOLEAN
    /\ page.approved \subseteq Contents /\ page.visit \in 0..Visits
    /\ page.left \in 0..ImportBudget
    /\ page.mishaps \subseteq {"other file"}
    /\ importCalls \in [ImportSlots ->
          [op : {"none", "preview", "import"}, at : {"idle", "sent", "late", "ok", "failed"},
           file : Files \cup {NoFile}, selected : SUBSET Indices, visit : 0..Visits]]

Mounted == [step |-> "upload", file |-> NoFile, reviewed |-> NoFile, selected |-> {},
            busy |-> FALSE, visit |-> 0, approved |-> {}, mishaps |-> {}, left |-> ImportBudget]

ImportInit ==
    /\ imported = [c \in Contents |-> 0]
    /\ page = Mounted
    /\ importCalls = [s \in ImportSlots |-> NoImportCall]

----------------------------------------------------------------------------
\* The page.

Send(call) ==
    \E s \in ImportSlots :
      /\ importCalls[s].op = "none"
      /\ importCalls' = [importCalls EXCEPT ![s] = [call EXCEPT !.at = "sent", !.visit = page.visit]]

Seen(s) == importCalls[s].visit = page.visit /\ page.step # "gone"
Analysing == \E s \in ImportSlots : importCalls[s].op = "preview" /\ Seen(s)

\* The picker is never disabled.
Pick(f) ==
    /\ page.step = "upload" /\ f # page.file
    /\ page' = [page EXCEPT !.file = f,
                            !.mishaps = IF Analysing THEN @ \cup {"other file"} ELSE @]
    /\ UNCHANGED <<imported, importCalls>>

Continue ==
    /\ page.step = "upload" /\ page.file # NoFile /\ ~page.busy /\ page.left > 0
    /\ page' = [page EXCEPT !.busy = TRUE, !.left = @ - 1]
    /\ Send([NoImportCall EXCEPT !.op = "preview", !.file = page.file])
    /\ UNCHANGED imported

Toggle(i) ==
    /\ page.step = "review" /\ i \in DOMAIN Archives[page.reviewed]
    /\ page' = [page EXCEPT !.selected = IF i \in @ THEN @ \ {i} ELSE @ \cup {i}]
    /\ UNCHANGED <<imported, importCalls>>

SelectAll(checked) ==
    /\ page.step = "review"
    /\ page' = [page EXCEPT !.selected = IF checked THEN DOMAIN Archives[page.reviewed] ELSE {}]
    /\ UNCHANGED <<imported, importCalls>>

\* The file and the checked indices are sent; the member approves the cards they see.
Import ==
    /\ page.step = "review" /\ ~page.busy /\ page.selected # {} /\ page.left > 0
    /\ page' = [page EXCEPT
         !.busy = TRUE, !.left = @ - 1,
         !.approved = @ \cup {Archives[page.reviewed][i].content : i \in page.selected}]
    /\ Send([NoImportCall EXCEPT !.op = "import", !.file = page.file, !.selected = page.selected])
    /\ UNCHANGED imported

\* Back to the first step, even while the import runs.
CancelReview ==
    /\ page.step = "review"
    /\ page' = [page EXCEPT !.step = "upload"]
    /\ UNCHANGED <<imported, importCalls>>

\* To the board (Cancel, Done), or anywhere with the browser; and back later to
\* a page that knows nothing of what it left in flight.
LeaveImport ==
    /\ page.step # "gone" /\ page.visit < Visits
    /\ page' = [page EXCEPT !.step = "gone", !.visit = @ + 1]
    /\ UNCHANGED <<imported, importCalls>>

Revisit ==
    /\ page.step = "gone"
    /\ page' = [Mounted EXCEPT !.visit = page.visit, !.approved = page.approved,
                               !.mishaps = page.mishaps, !.left = page.left]
    /\ UNCHANGED <<imported, importCalls>>

Answered(s, op) == importCalls[s].op = op /\ importCalls[s].at \in {"ok", "failed"}
Received(s) == importCalls' = [importCalls EXCEPT ![s] = NoImportCall]

\* The items are those of the file that was analysed; file is what was picked since.
PreviewAnswered(s) ==
    /\ Answered(s, "preview")
    /\ LET f == importCalls[s].file
       IN page' = CASE ~Seen(s) -> page
                    [] Seen(s) /\ importCalls[s].at = "ok" ->
                         [page EXCEPT !.busy = FALSE, !.step = "review", !.reviewed = f,
                            !.selected = {i \in DOMAIN Archives[f] : ~Archives[f][i].trashed}]
                    [] OTHER -> [page EXCEPT !.busy = FALSE]
    /\ Received(s)
    /\ UNCHANGED imported

\* Mutant: an import that failed shows its review again.
ImportReviewed(s) ==
    /\ Answered(s, "import")
    /\ page' = CASE ~Seen(s) -> page
                 [] Seen(s) /\ importCalls[s].at = "ok" ->
                      [page EXCEPT !.busy = FALSE, !.step = "summary"]
                 [] OTHER -> [page EXCEPT !.busy = FALSE, !.step = "review"]
    /\ Received(s)
    /\ UNCHANGED imported

ImportAnswered(s) ==
    /\ Answered(s, "import")
    /\ page' = CASE ~Seen(s) -> page
                 [] Seen(s) /\ importCalls[s].at = "ok" ->
                      [page EXCEPT !.busy = FALSE, !.step = "summary"]
                 [] OTHER -> [page EXCEPT !.busy = FALSE]
    /\ Received(s)
    /\ UNCHANGED imported

----------------------------------------------------------------------------
\* The server.

ServePreview(s) ==
    /\ importCalls[s].op = "preview" /\ importCalls[s].at = "sent"
    /\ importCalls' = [importCalls EXCEPT ![s].at = "ok"]
    /\ UNCHANGED <<imported, page>>

Chosen(call) == {Archives[call.file][i] : i \in call.selected \cap DOMAIN Archives[call.file]}

\* The loop over the entries: not the trashed ones, nor what the member already
\* has, and each content once.
ServeImport(s) ==
    /\ importCalls[s].op = "import" /\ importCalls[s].at \in {"sent", "late"}
    /\ LET new == {e.content : e \in {x \in Chosen(importCalls[s]) :
                                        ~x.trashed /\ imported[x.content] = 0}}
       IN imported' = [c \in Contents |-> IF c \in new THEN imported[c] + 1 ELSE imported[c]]
    /\ importCalls' = [importCalls EXCEPT ![s] = IF @.at = "late" THEN NoImportCall
                                                 ELSE [@ EXCEPT !.at = "ok"]]
    /\ UNCHANGED page

\* The call never arrives, or its answer is lost.
LoseImportCall(s) ==
    /\ importCalls[s].at \in {"sent", "ok"} /\ page.left > 0
    /\ importCalls' = [importCalls EXCEPT ![s].at = "failed"]
    /\ page' = [page EXCEPT !.left = @ - 1]
    /\ UNCHANGED imported

\* The page sees the import fail while the server still has it before it.
DropImportCall(s) ==
    /\ importCalls[s].op = "import" /\ importCalls[s].at = "sent" /\ page.left > 0
    /\ importCalls' = [importCalls EXCEPT ![s].at = "late"]
    /\ page' = [page EXCEPT !.left = @ - 1, !.busy = @ /\ ~Seen(s)]
    /\ UNCHANGED imported

----------------------------------------------------------------------------
ImportNext ==
    \/ Continue \/ Import \/ CancelReview \/ LeaveImport \/ Revisit
    \/ \E f \in Files : Pick(f)
    \/ \E i \in Indices : Toggle(i)
    \/ \E checked \in BOOLEAN : SelectAll(checked)
    \/ \E s \in ImportSlots :
         \/ PreviewAnswered(s) \/ ImportAnswered(s) \/ ServePreview(s)
         \/ ServeImport(s) \/ LoseImportCall(s) \/ DropImportCall(s)

----------------------------------------------------------------------------
(***************************************************************************)
(* Only cards that the member saw and had checked become notes, and each   *)
(* of them one note, however often calls are lost, retried, cancelled or   *)
(* served late, and whatever is picked in between.  Except when another    *)
(* file was picked while one was being analysed: its notes then come by    *)
(* the indices of the other.                                               *)
(***************************************************************************)
ImportedAsReviewed ==
    \A c \in Contents : imported[c] > 0 =>
      /\ c \in page.approved \/ "other file" \in page.mishaps
      /\ imported[c] = 1
=============================================================================
