-------------------------- MODULE MCEditorSession --------------------------
(***************************************************************************)
(* One or two keystrokes, and in each behaviour one kind of trouble: a     *)
(* second heartbeat, another member who takes the lock and edits, a lost   *)
(* call, a lapsed lease, a change of visibility, a note taken away, an     *)
(* editor left in a rush, a note archived or deleted by its owner.         *)
(***************************************************************************)
EXTENDS EditorSession

Nothing == [kind \in {"typing", "other", "edits", "fault", "lapse", "flip",
                      "gone", "rush", "remove", "beats", "polls"} |-> 0]
Once == [Nothing EXCEPT !.typing = 1]

SafetyBudgets ==
    { [Once EXCEPT !.typing = 2, !.beats = 1],
      [Once EXCEPT !.other = 1, !.edits = 1, !.beats = 1, !.polls = 1],
      [Once EXCEPT !.fault = 1, !.beats = 1, !.polls = 1],
      [Once EXCEPT !.flip = 1, !.other = 1],
      [Once EXCEPT !.flip = 1, !.polls = 2],
      [Once EXCEPT !.lapse = 1, !.beats = 1, !.other = 1, !.edits = 1],
      [Once EXCEPT !.lapse = 1, !.other = 1, !.fault = 1],
      [Once EXCEPT !.gone = 1, !.polls = 1],
      [Once EXCEPT !.rush = 1, !.beats = 1],
      [Once EXCEPT !.remove = 1] }

ProgressBudgets ==
    { [Once EXCEPT !.other = 1, !.polls = 1],
      [Once EXCEPT !.fault = 1, !.beats = 1],
      [Once EXCEPT !.lapse = 1, !.beats = 1, !.other = 1],
      [Once EXCEPT !.flip = 1],
      [Once EXCEPT !.gone = 1],
      [Once EXCEPT !.rush = 1, !.beats = 1],
      [Once EXCEPT !.rush = 1, !.fault = 1] }

\* Another member who takes the lock, and a poll: enough for the counterexample.
LossBudgets == { [Once EXCEPT !.other = 1, !.polls = 1] }

\* For ReleasedOnLeaving, which no configuration checks.
RushBudgets == { [Nothing EXCEPT !.rush = 1] }
=============================================================================
