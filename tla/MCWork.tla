------------------------------- MODULE MCWork -------------------------------
(***************************************************************************)
(* Small instances of ProvfsWork for TLC.                                  *)
(***************************************************************************)
EXTENDS ProvfsWork, TLC

CONSTANTS t1, t2, f1, f2, w1, w2, w3

(* A writer outside any agent, and one whose environment sets one key. *)
NoEnvOrTool == {{}, {"tool"}}
NoEnv == {{}}

(* In range, below the minimum, above the maximum. *)
MaxInputs == {0, 1, 2, 3}

(* Tasks, files and work items are interchangeable. *)
Symmetry ==
  Permutations(Tasks) \cup Permutations(Files) \cup Permutations(Works)
=============================================================================
