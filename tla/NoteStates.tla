---------------------------- MODULE NoteStates ----------------------------
(***************************************************************************)
(* NoteService with a memory of every state the note's row has had, for    *)
(* the properties that compare the history with what the note really was.  *)
(***************************************************************************)
EXTENDS NoteService

VARIABLE states   \* every pair of columns the note's row has had

StatesInit == Init /\ states = {}

StatesNext ==
    /\ Next
    /\ states' = IF row' = "live" THEN states \cup {note'} ELSE states

StatesSpec == StatesInit /\ [][StatesNext]_<<vars, states>>

(***************************************************************************)
(* Every version is a state the note really was in, title, body, colour    *)
(* and visibility together, whatever requests, an agent's among them,      *)
(* wrote its columns while the version was being taken                     *)
(* (record_session_version reads the note and inserts a copy later).       *)
(***************************************************************************)
VersionsAreRealStates == \A i \in 1..Len(history) : Snapshot(history[i]) \in states
===========================================================================
