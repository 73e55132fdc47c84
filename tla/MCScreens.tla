----------------------------- MODULE MCScreens -----------------------------
EXTENDS Screens, TLC

MCAdminBudgets ==
    { [changes |-> 2, tokens |-> 0, lost |-> 1, visits |-> 0],
      [changes |-> 2, tokens |-> 0, lost |-> 0, visits |-> 1],
      [changes |-> 0, tokens |-> 3, lost |-> 1, visits |-> 1] }

\* Two archives that hold some notes in common, at other indices.
MCArchives ==
    LET entry(c, t) == [content |-> c, trashed |-> t]
    IN "takeout" :> << entry("a", FALSE), entry("b", TRUE) >>
       @@ "older" :> << entry("b", FALSE), entry("a", FALSE) >>
=============================================================================
