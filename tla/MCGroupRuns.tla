---------------------------- MODULE MCGroupRuns -----------------------------
(* GroupRuns with one worker, one API caller, one operator and three runs. *)
EXTENDS GroupRuns, TLC

RunSymmetry == Permutations(RunId)
=============================================================================
