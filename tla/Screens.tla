------------------------------ MODULE Screens ------------------------------
(***************************************************************************)
(* The screens of the router beside the board and the editor, one of them  *)
(* on the tab at a time: each keeps its own state and calls, so that a     *)
(* behaviour is one of that screen.                                        *)
(***************************************************************************)
EXTENDS AdminScreen, ImportScreen, HistoryScreen

VARIABLE screen
vars == <<screen, adminVars, importVars, histVars>>

TypeOK ==
    /\ screen \in {"admin", "import", "history"}
    /\ AdminTypeOK /\ ImportTypeOK /\ HistoryTypeOK

Init ==
    /\ screen \in {"admin", "import", "history"}
    /\ AdminInit /\ ImportInit /\ HistoryInit
    \* A screen that is not on the tab starts in one state.
    /\ screen # "admin" => /\ accounts = CHOOSE as \in InitialAccounts : TRUE
                           /\ admin.left = CHOOSE left \in AdminBudgets : TRUE
    /\ screen # "history" => /\ versions = CHOOSE vs \in [1..3 -> Texts] : TRUE
                             /\ hist.save = NoText

Next ==
    \/ screen = "admin" /\ AdminNext /\ UNCHANGED <<screen, importVars, histVars>>
    \/ screen = "import" /\ ImportNext /\ UNCHANGED <<screen, adminVars, histVars>>
    \/ screen = "history" /\ HistoryNext /\ UNCHANGED <<screen, adminVars, importVars>>

Spec == Init /\ [][Next]_vars
=============================================================================
