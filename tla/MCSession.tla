----------------------------- MODULE MCSession ------------------------------
(* Small instances of Session for TLC.                                     *)
EXTENDS Session

\* Two clicks on one spot, something else, and the claim to be done.
Clicks == {"click", "click nearby"}
SomeAnswers == {"answer"}
ClicksAndAnswer == Clicks \union SomeAnswers
AllKinds == ClicksAndAnswer \union {"type"}
SomeSpots == [c \in AllKinds |-> IF c \in Clicks THEN "spot" ELSE "none"]
=============================================================================
