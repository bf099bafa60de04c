----------------------------- MODULE MCTaskRuns -----------------------------
(* TaskRuns with one worker, one API caller, one operator and few runs.    *)
EXTENDS TaskRuns, TLC

RunSymmetry == Permutations(RunId)
=============================================================================
