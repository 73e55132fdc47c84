----------------------------- MODULE NoteAudit -----------------------------
(***************************************************************************)
(* NoteService watched by an auditor.  The auditor's history variables     *)
(* change nothing; they remember who wrote what the next version will      *)
(* record, so that the credit the history gives can be compared with what  *)
(* really happened ("every change is attributable", docs/PRD.md).          *)
(***************************************************************************)
EXTENDS NoteService

VARIABLES writers,    \* whose writes are on the note and in no version yet
          overtaken   \* whose stale lock was taken over since the last version

auditVars == <<writers, overtaken>>

AuditInit ==
    /\ Init
    /\ writers = {}
    /\ overtaken = {}

\* The users whose request writes the note in this step.
WritesNow == {req[r].user : r \in {q \in Reqs :
                 req[q].step \in {"patch_commit", "edit_commit"} /\ note' # note
                   /\ req'[q].step # req[q].step}}

\* In this step a session ends with the history in line with the note.
RecordsNow ==
    \E r \in Reqs :
      /\ req'[r].step # req[r].step
      /\ req[r].step \in {"version_latest", "version_insert", "create_root"}
      /\ history' # <<>>
      /\ Snapshot(Last(history')) = note

AuditStep ==
    /\ writers' = IF RecordsNow THEN {} ELSE writers \cup WritesNow
    /\ overtaken' = IF RecordsNow THEN {}
                    ELSE IF holder' \notin {holder, None} /\ holder # None
                         THEN overtaken \cup {holder}
                         ELSE overtaken

AuditSpec == AuditInit /\ [][Next /\ AuditStep]_<<vars, auditVars>>

----------------------------------------------------------------------------
Recording == /\ \E r \in Reqs : At(r, "version_insert")
             /\ Len(history') > Len(history)
Credited == Last(history').author

(***************************************************************************)
(* The limits of the history's credit, one request at a time: a version    *)
(* carries somebody else's changes under its author's name only when they  *)
(* were left behind by a holder whose stale lock was taken over, or made   *)
(* by the owner while the note was private.                                *)
(***************************************************************************)
CreditIsBounded ==
    [][Recording => writers \subseteq {Credited, Owner} \cup overtaken]_vars

(***************************************************************************)
(* "100% of public-note changes attributable to a user via history": what  *)
(* a version records was changed by the author it names, leaving aside     *)
(* what the owner did to the note, perhaps while it was private.  TLC      *)
(* refutes it within the bounds of NoteSessions.cfg (README.md).           *)
(***************************************************************************)
ChangesAttributed ==
    [][Recording => writers \subseteq {Credited, Owner}]_vars
============================================================================
