--------------------------- MODULE MCBoardSession ---------------------------
EXTENDS BoardSession, TLC

Nothing == [kind \in Kinds |-> 0]
MCSymmetry == Permutations(Members) \cup Permutations(Notes)

MCBudgets ==
    { [Nothing EXCEPT !.signin = 1, !.signout = 1, !.organize = 1, !.fault = 1],
      [Nothing EXCEPT !.signin = 1, !.signout = 1, !.profile = 1, !.expiry = 1],
      [Nothing EXCEPT !.signin = 1, !.reload = 1, !.fault = 3],
      [Nothing EXCEPT !.profile = 1, !.organize = 1, !.expiry = 1, !.disable = 1],
      [Nothing EXCEPT !.move = 2, !.organize = 2],
      [Nothing EXCEPT !.organize = 1, !.expiry = 1, !.fault = 1],
      [Nothing EXCEPT !.move = 2, !.delete = 2, !.organize = 1],
      [Nothing EXCEPT !.signout = 1, !.signin = 1, !.delete = 1, !.fault = 1],
      [Nothing EXCEPT !.move = 2, !.save = 1, !.create = 1, !.fault = 1],
      [Nothing EXCEPT !.signin = 1, !.signout = 1, !.disable = 1],
      [Nothing EXCEPT !.profile = 1, !.expiry = 2],
      [Nothing EXCEPT !.signin = 1, !.signout = 1, !.expiry = 1, !.fault = 1],
      [Nothing EXCEPT !.signin = 1, !.signout = 1, !.expiry = 2] }
=============================================================================
