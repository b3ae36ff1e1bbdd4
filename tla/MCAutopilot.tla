----------------------------- MODULE MCAutopilot -----------------------------
(* Small instances of Autopilot for TLC; the values are in the .cfg files. *)
EXTENDS Autopilot, TLC

OperatorSymmetry == Permutations(Operators) \cup Permutations(Images)
=============================================================================
