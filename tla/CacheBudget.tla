----------------------------- MODULE CacheBudget -----------------------------
(***************************************************************************)
(* _enforce_cache_budget: the last part of a maintenance pass, after the   *)
(* retention of runs, reports and logs.  It measures everything the budget *)
(* covers, then removes candidates in a fixed order until what it counts   *)
(* as used is within the budget.  A removal may fail; a dry run removes    *)
(* nothing.                                                                *)
(***************************************************************************)
EXTENDS Integers, Sequences, FiniteSets, FiniteSetsExt

CONSTANTS Item,         \* what the budget may remove
          Order,        \* its order: operator, gif frames, cache, external
          Size,         \* sizes an item may have; 0: it is not there
          Rest,         \* sizes of what it may not remove
          Expired,      \* sizes of what retention removes before
          Budget

ASSUME BudgetAssumption ==
  /\ IsFiniteSet(Item) /\ Order \in Seq(Item)
  /\ \A i \in Item : \E n \in DOMAIN Order : Order[n] = i
  /\ \A m, n \in DOMAIN Order : Order[m] = Order[n] => m = n
  /\ Size \subseteq Nat /\ Rest \subseteq Nat /\ Expired \subseteq Nat
  /\ Budget \in Nat \ {0}

VARIABLES
  dryRun,   \* the mode of this pass
  disk,     \* the bytes of each item that are on disk
  expired,  \* the bytes that retention removes, or lists
  rest,     \* the bytes nobody removes
  used,     \* used_bytes, as the code counts them
  toTake,   \* the candidates not yet looked at
  listed,   \* the items of the actions in the summary
  failed,   \* the items whose removal failed
  before,   \* history: disk as the pass found it
  pc

budgetVars == <<dryRun, disk, expired, rest, used, toTake, listed, failed, before, pc>>

SumOf(sizes, items) == MapThenSumSet(LAMBDA i : sizes[i], items)

OnDisk ==
  SumOf(disk, Item) + rest
    + (IF dryRun \/ pc = "retention" THEN expired ELSE 0)

BudgetTypeOK ==
  /\ dryRun \in BOOLEAN
  /\ disk \in [Item -> Size \cup {0}]
  /\ expired \in Expired
  /\ rest \in Rest
  /\ used \in Nat
  /\ toTake \subseteq Item
  /\ listed \subseteq Item /\ failed \subseteq listed
  /\ pc \in {"retention", "measure", "reclaim", "done"}

BudgetInit ==
  /\ dryRun \in BOOLEAN
  /\ disk \in [Item -> Size]
  /\ expired \in Expired
  /\ rest \in Rest
  /\ used = 0
  /\ toTake = {}
  /\ listed = {} /\ failed = {}
  /\ before = disk
  /\ pc = "retention"

\* The files that are too old go first, unless this is a dry run.
Retention ==
  /\ pc = "retention"
  /\ pc' = "measure"
  /\ UNCHANGED <<dryRun, disk, expired, rest, used, toTake, listed, failed, before>>

\* _budget_scope_size and _budget_cleanup_candidates
Measure ==
  /\ pc = "measure"
  /\ used' = OnDisk
  /\ toTake' = {i \in Item : disk[i] > 0}
  /\ pc' = IF OnDisk <= Budget THEN "done" ELSE "reclaim"
  /\ UNCHANGED <<dryRun, disk, expired, rest, listed, failed, before>>

\* A bug: only what really went is subtracted.
CountedIfGone(gone, size) == IF gone THEN size ELSE 0

\* Bytes count as reclaimed whether the item went or not.
Counted(gone, size) == size

MoreIsNeeded == toTake # {} /\ used > Budget

\* The place of an item in the order of the candidates.
Place(i) == CHOOSE n \in DOMAIN Order : Order[n] = i

\* The first of the candidates that are left.
Reclaim ==
  /\ pc = "reclaim"
  /\ MoreIsNeeded
  /\ LET i == CHOOSE c \in toTake : \A d \in toTake : Place(c) <= Place(d)
     IN  \E gone \in IF dryRun THEN {FALSE} ELSE BOOLEAN :
           /\ toTake' = toTake \ {i}
           /\ disk' = IF gone THEN [disk EXCEPT ![i] = 0] ELSE disk
           /\ failed' = IF gone \/ dryRun THEN failed ELSE failed \cup {i}
           /\ listed' = listed \cup {i}
           /\ used' = used - Counted(gone, disk[i])
  /\ UNCHANGED <<dryRun, expired, rest, before, pc>>

Finish ==
  /\ pc = "reclaim"
  /\ ~MoreIsNeeded
  /\ pc' = "done"
  /\ UNCHANGED <<dryRun, disk, expired, rest, used, toTake, listed, failed,
                 before>>

BudgetNext == Retention \/ Measure \/ Reclaim \/ Finish

BudgetSpec == BudgetInit /\ [][BudgetNext]_budgetVars

\* The notes of the summary.
ExceededButProtected == pc = "done" /\ used > Budget

-----------------------------------------------------------------------------
(* Properties.                                                             *)

\* When every removal works, the summary of an applied pass is true: the
\* bytes it reports are those on disk, the budget is kept or nothing that
\* may go is left, and the note says which.
SummaryIsTrue ==
  pc = "done" /\ ~dryRun /\ failed = {} /\ listed # {} =>
    /\ used = OnDisk
    /\ ExceededButProtected => SumOf(disk, Item) = 0

\* The reference for what a pass lists: an item that is there, while what comes
\* before it in the order does not make enough room.
Earlier(i) == {j \in Item : Place(j) < Place(i)}
Needed ==
  {i \in Item :
     /\ before[i] > 0
     /\ SumOf(before, Item \ Earlier(i)) + rest + expired > Budget}

\* A dry run lists what an applied pass would remove, and a pass removes
\* nothing a dry run on the same disk would not have listed, whatever fails
\* and although retention has made room before.
DryRunForetells ==
  /\ listed \subseteq Needed
  /\ dryRun /\ pc = "done" => listed = Needed

\* Nothing is removed while what is on disk is within the budget.
OnlyOverBudget == [][disk' # disk => OnDisk > Budget]_budgetVars

\* "The runtime maintenance contract now also enforces a repo-owned
\* lightweight cache budget": after an applied pass the budget is kept, or
\* the pass has tried everything that is still there.
BudgetEnforced ==
  pc = "done" /\ ~dryRun /\ OnDisk > Budget =>
    \A i \in Item : disk[i] > 0 => i \in failed

\* A pass removes what it must and no more, and tells the truth about it, also
\* when it only forecasts.
BudgetIsTold == [](SummaryIsTrue /\ DryRunForetells) /\ OnlyOverBudget
=============================================================================
