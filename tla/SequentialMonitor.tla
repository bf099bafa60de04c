------------------------- MODULE SequentialMonitor --------------------------
(***************************************************************************)
(* What a monitor promises whoever reads its runs and its failure count:   *)
(* runs follow one another, and each one that ends is counted exactly once *)
(* in consecutive_failures.  A run that never ends is allowed, and then it *)
(* is the last.                                                            *)
(***************************************************************************)
EXTENDS Integers

CONSTANTS RunId

VARIABLES runs,       \* status of every run
          failures    \* consecutive_failures

Init ==
  /\ runs = [i \in RunId |-> "absent"]
  /\ failures = 0

Begin(i) ==
  /\ \A j \in RunId : runs[j] # "running"
  /\ runs[i] = "absent"
  /\ runs' = [runs EXCEPT ![i] = "running"]
  /\ UNCHANGED failures

Succeed(i) ==
  /\ runs[i] = "running"
  /\ runs' = [runs EXCEPT ![i] = "succeeded"]
  /\ failures' = 0

Fail(i, status) ==
  /\ runs[i] = "running"
  /\ runs' = [runs EXCEPT ![i] = status]
  /\ failures' = failures + 1

Next ==
  \E i \in RunId :
    \/ Begin(i)
    \/ Succeed(i)
    \/ \E status \in {"failed", "blocked"} : Fail(i, status)

Spec == Init /\ [][Next]_<<runs, failures>>
=============================================================================
