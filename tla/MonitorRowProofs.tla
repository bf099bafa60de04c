--------------------------- MODULE MonitorRowProofs ---------------------------
(***************************************************************************)
(* What the operators of MonitorRow make of rows and of the objects that   *)
(* sessions read from them: the lemmas that the proofs about tasks and     *)
(* those about groups have in common.                                      *)
(***************************************************************************)
EXTENDS MonitorRow, TLAPS

\* Reading a row gives an object.
LEMMA ReadType ==
  ASSUME NEW x \in Row
  PROVE  Read(x) \in Object
BY DEF Row, Object, RowWith, Read, NoTime, Held

\* A flush writes no time that was only read, so the result is a row.
LEMMA FlushType ==
  ASSUME NEW x \in Row, NEW loaded \in Object, NEW obj \in Assigned,
         obj.backoff = Held => loaded.backoff = Held
  PROVE  Flush(x, loaded, obj) \in Row
BY DEF Row, Object, Assigned, RowWith, Flush, NoTime, Held

\* The backoff computed from a failure count is a time.
LEMMA BackoffType ==
  ASSUME NEW f \in Nat, NEW k
  PROVE  BackoffUntil(f, k) \in Nat
<1>1. Greater(f, 1) \in Nat
  BY DEF Greater
<1>2. Greater(f, 1) * BlockStep \in Nat /\ Greater(f, 1) * SoftStep \in Nat
  BY <1>1, BackoffAssumption, SMT
<1>3. \A a, b \in Nat : Lesser(a, b) \in Nat
  BY DEF Lesser
<1>4. QED
  BY <1>2, <1>3, BackoffAssumption DEF BackoffUntil

\* What a success makes of an object.
LEMMA SuccessType ==
  ASSUME NEW x \in Object
  PROVE  ApplySuccess(x) \in Assigned /\ ApplySuccess(x).backoff # Held
BY BackoffAssumption
DEF ApplySuccess, Object, Assigned, RowWith, NoTime, Held, Status, Health, Kind

\* What a failure makes of an object: the backoff it sets is a new time.
LEMMA FailureType ==
  ASSUME NEW x \in Object, NEW k \in Kind
  PROVE  /\ ApplyFailure(x, k) \in Assigned
         /\ ApplyFailure(x, k).backoff \in Nat
<1>1. x.failures + 1 \in Nat
  BY DEF Object, RowWith
<1>2. BackoffUntil(x.failures + 1, k) \in Nat
  BY <1>1, BackoffType
<1>3. ApplyFailure(x, k) \in Assigned
  BY <1>1, <1>2 DEF ApplyFailure, Object, Assigned, RowWith, Status, Health
<1>4. QED
  BY <1>2, <1>3 DEF ApplyFailure

\* A failed delivery leaves a row a row.
LEMMA DeliveryFailureType ==
  ASSUME NEW x \in Row
  PROVE  ApplyDeliveryFailure(x) \in Row
BY DEF ApplyDeliveryFailure, Row, RowWith, Health, Kind

\* A new monitor has a row, and so has one that has failed before.
LEMMA NewRowType == FreshRow \in Row /\ \A n \in Nat : FailedRow(n) \in Row
BY DEF FreshRow, FailedRow, Row, RowWith, NoTime, Status, Health, Kind

\* What a PATCH makes of the object it read.
LEMMA PatchType ==
  ASSUME NEW loaded \in Object, NEW s \in EditStatus
  PROVE  /\ ApplyPatch(loaded, s) \in Assigned
         /\ ApplyPatch(loaded, s).backoff = Held => loaded.backoff = Held
BY DEF ApplyPatch, EditStatus, Object, Assigned, RowWith, Status, Health,
       NoTime, Held

\* Time passes for a row.
LEMMA AgedType ==
  ASSUME NEW x \in Row
  PROVE  Aged(x) \in Row /\ Read(Aged(x)) = Read(x)
<1>1. /\ x.next \in Nat
      /\ x.backoff \in Nat \cup {NoTime}
  BY DEF Row, RowWith
<1>2. /\ Closer(x.next) \in Nat
      /\ Closer(x.backoff) \in Nat \cup {NoTime}
      /\ Closer(x.backoff) = NoTime <=> x.backoff = NoTime
  BY <1>1 DEF Closer, NoTime
<1>3. Aged(x) = [x EXCEPT !.next = Closer(x.next),
                          !.backoff = Closer(x.backoff)]
  BY DEF Aged
<1>4. Aged(x) \in Row
  BY <1>2, <1>3 DEF Row, RowWith
<1>5. Read(Aged(x)) = Read(x)
  BY <1>2, <1>3 DEF Read, Row, RowWith
<1>6. QED
  BY <1>4, <1>5

\* What is read is the count, and every other column but the times.
LEMMA ReadCount ==
  ASSUME NEW x \in Row
  PROVE  Read(x).failures = x.failures
BY DEF Read, Row, RowWith

\* A PATCH leaves the count alone.
LEMMA PatchCount ==
  ASSUME NEW x \in Row, NEW loaded \in Object, NEW s \in EditStatus
  PROVE  Flush(x, loaded, ApplyPatch(loaded, s)).failures = x.failures
BY DEF Flush, ApplyPatch, Object, RowWith
===============================================================================
