---------------------------- MODULE MCController ----------------------------
(* Small instances of Controller for TLC.                                  *)
EXTENDS Controller, TLC

AllConfigs == [drain : BOOLEAN, labels : Labels]

ControllerSymmetry == Permutations(Processes) \union Permutations(Ids)
=============================================================================
