----------------------------- MODULE MonitorRow -----------------------------
(***************************************************************************)
(* The health columns of one monitor: a row of watch_tasks or of           *)
(* watch_groups, what a finished run and an operator's PATCH assign to     *)
(* them, and how the ORM writes an object back.                            *)
(*                                                                         *)
(* A session reads the row into an object, the code assigns to the object, *)
(* and the flush emits an UPDATE of the columns whose value differs from   *)
(* the one that was read.  Two sessions therefore merge column by column.  *)
(*                                                                         *)
(* Times count down to "now": 0 is a time that has passed.  In an object   *)
(* Held stands for whatever time was read, which differs from every time   *)
(* computed later.                                                         *)
(***************************************************************************)
EXTENDS Integers

CONSTANTS Cadence,              \* minutes from a success to the next run
          SoftStep, SoftCap,    \* backoff of an ordinary failure: 30, 360
          BlockStep, BlockCap   \* backoff of a blocked run: 120, 1440

ASSUME BackoffAssumption ==
  /\ Cadence \in Nat
  /\ SoftStep \in Nat /\ SoftCap \in Nat
  /\ BlockStep \in Nat /\ BlockCap \in Nat

NoTime == -1
Held   == -2

Status == {"active", "paused", "error"}
Health == {"healthy", "degraded", "blocked", "needs_attention"}
Kind   == {"none", "fetch_failed", "blocked", "delivery_failed",
           "unexpected_runtime_error"}

\* The columns: in the table, in an object as read, and as assigned to.
RowWith(times, untils) ==
  [status: Status, health: Health, failures: Nat, kind: Kind, mir: BOOLEAN,
   next: times, backoff: untils]
Row      == RowWith(Nat, Nat \cup {NoTime})
Object   == RowWith({Held}, {NoTime, Held})
Assigned == RowWith(Nat \cup {Held}, Nat \cup {NoTime, Held})

Lesser(a, b)  == IF a <= b THEN a ELSE b
Greater(a, b) == IF a >= b THEN a ELSE b

FreshRow ==
  [status |-> "active", health |-> "healthy", failures |-> 0,
   kind |-> "none", mir |-> FALSE, next |-> 0, backoff |-> NoTime]

-----------------------------------------------------------------------------
(* Reading a row, and writing an object back.                              *)

Read(row) ==
  [row EXCEPT !.next = Held, !.backoff = IF @ = NoTime THEN NoTime ELSE Held]

Flush(row, loaded, obj) ==
  LET Column(c) == IF obj[c] # loaded[c] THEN obj[c] ELSE row[c]
  IN  [status   |-> Column("status"),   health |-> Column("health"),
       failures |-> Column("failures"), kind   |-> Column("kind"),
       mir      |-> Column("mir"),      next   |-> Column("next"),
       backoff  |-> Column("backoff")]

-----------------------------------------------------------------------------
(* What the code assigns.                                                  *)

BackoffUntil(failures, kind) ==
  IF kind = "blocked"
    THEN Lesser(Greater(failures, 1) * BlockStep, BlockCap)
    ELSE Lesser(Greater(failures, 1) * SoftStep, SoftCap)

\* A bug: the count is not reset.
ApplySuccessKeepsCount(obj) ==
  [status |-> "active", health |-> "healthy", failures |-> obj.failures,
   kind |-> "none", mir |-> FALSE, next |-> Cadence, backoff |-> NoTime]

ApplySuccess(obj) ==
  [status |-> "active", health |-> "healthy", failures |-> 0,
   kind |-> "none", mir |-> FALSE, next |-> Cadence, backoff |-> NoTime]

\* A bug: a failure that does not escalate leaves backoff_until alone.
ApplyFailureNoBackoff(obj, kind) ==
  LET failures  == obj.failures + 1
      blocked   == kind = "blocked"
      escalates == blocked \/ failures >= 3
  IN  [obj EXCEPT
         !.status   = IF escalates THEN "error" ELSE "active",
         !.health   = IF escalates THEN "needs_attention" ELSE "degraded",
         !.failures = failures,
         !.kind     = kind,
         !.mir      = escalates]

\* A bug: a blocked run escalates only as the third failure.
ApplyFailureByCount(obj, kind) ==
  LET failures  == obj.failures + 1
      until     == BackoffUntil(failures, kind)
      escalates == failures >= 3
  IN  [status   |-> IF escalates THEN "error" ELSE "active",
       health   |-> IF kind = "blocked" THEN "blocked" ELSE "degraded",
       failures |-> failures,
       kind     |-> kind,
       mir      |-> escalates,
       next     |-> until,
       backoff  |-> until]

ApplyFailure(obj, kind) ==
  LET failures  == obj.failures + 1
      until     == BackoffUntil(failures, kind)
      blocked   == kind = "blocked"
      escalates == blocked \/ failures >= 3
  IN  [status   |-> IF escalates THEN "error" ELSE "active",
       health   |-> IF blocked THEN "blocked"
                    ELSE IF escalates THEN "needs_attention" ELSE "degraded",
       failures |-> failures,
       kind     |-> kind,
       mir      |-> escalates,
       next     |-> IF escalates THEN obj.next ELSE until,
       backoff  |-> until]

\* The run itself succeeded; an alert could not be delivered.
ApplyDeliveryFailure(obj) ==
  [obj EXCEPT !.health = "degraded", !.kind = "delivery_failed"]

\* The branch for next_run_at NULL is left out: no code stores NULL in it.
ApplyPatch(obj, status) ==
  LET set == IF status = "keep" THEN obj.status ELSE status
  IN  IF set = "active"
        THEN [obj EXCEPT !.status = set, !.mir = FALSE, !.backoff = NoTime,
                !.health = IF @ = "needs_attention" THEN "healthy" ELSE @]
        ELSE [obj EXCEPT !.status = set]

\* The statuses an operator sends; "keep" when the payload has none.
EditStatus == {"active", "paused", "keep"}

\* A monitor that has failed n times, n < 3, and whose backoff has passed.
FailedRow(n) ==
  [FreshRow EXCEPT !.health = "degraded", !.failures = n,
                   !.kind = "unexpected_runtime_error", !.backoff = 0]

-----------------------------------------------------------------------------
(* What others ask of a row.                                               *)

\* The WHERE clause of the due query.
IsDue(row) ==
  /\ row.status = "active"
  /\ row.next = 0
  /\ ~row.mir
  /\ row.backoff \in {NoTime, 0}

\* The WHERE clause of the recovery inbox.
InInbox(row) ==
  \/ row.mir
  \/ row.health # "healthy"
  \/ row.backoff # NoTime
  \/ row.kind # "none"

\* A unit of time passes.
Closer(t) == IF t > 0 THEN t - 1 ELSE t
Aged(row) == [row EXCEPT !.next = Closer(@), !.backoff = Closer(@)]
=============================================================================
