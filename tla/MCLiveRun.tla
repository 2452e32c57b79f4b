----------------------------- MODULE MCLiveRun ------------------------------
(* Small instances of LiveRun for TLC.                                     *)
EXTENDS LiveRun, TLC

CONSTANTS p1, p2, v1

OnePersona == {p1}
TwoPersonas == {p1, p2}
OneViewer == {v1}
PersonaSymmetry == Permutations(TwoPersonas)
=============================================================================
