-------------------------- MODULE GroupRunsProofs ---------------------------
(***************************************************************************)
(* Type correctness of GroupRuns, its exclusion and what a group promises, *)
(* for any number of workers, callers, operators and runs: a group has at  *)
(* most one RUNNING run (Exclusion), a run decides on the group as it is and *)
(* counts its failure once (Counting), the runs of a group implement       *)
(* SequentialMonitor, and no alert is opened inside the cooldown of the last *)
(* mail that left (Alerting).                                              *)
(*                                                                         *)
(* AtMostOneRunning is not inductive: the guard EnsureNotRunning looks at  *)
(* the runs in one step and StartRun inserts in another.  What closes the  *)
(* gap is the row lock, so the invariant says who holds it.  A run adds one *)
(* to the count it read before its fetches, and writes only columns that   *)
(* changed: both are right only because what it read is still the row, and *)
(* the invariant says so of every session that has read it.                *)
(***************************************************************************)
EXTENDS GroupRuns, MonitorRowProofs

\* What a run's outcome makes of the object it read.
LEMMA VerdictType ==
  ASSUME NEW loaded \in Object, NEW o \in Outcome
  PROVE  /\ Verdict(o, loaded) \in Assigned
         /\ Verdict(o, loaded).backoff # Held
<1>1. CASE o = "success"
  BY <1>1, SuccessType DEF Verdict
<1>2. CASE o # "success"
  <2>1. o \in Kind
    BY <1>2 DEF Outcome, Kind
  <2>2. QED
    BY <1>2, <2>1, FailureType DEF Verdict, Held
<1>3. QED
  BY <1>1, <1>2

\* The row a session leaves behind.
LEMMA WrittenType ==
  ASSUME row \in Row, NEW s \in Session, s.outcome # "none"
  PROVE  Written(s) \in Row
<1>1. s.loaded \in Object /\ s.outcome \in Outcome
  BY DEF Session
<1>2. Flush(row, s.loaded, Verdict(s.outcome, s.loaded)) \in Row
  BY <1>1, VerdictType, FlushType
<1>3. QED
  BY <1>2, DeliveryFailureType DEF Written

\* An age stays an age.
LEMMA OlderType ==
  ASSUME NEW a \in Ages
  PROVE  Older(a) \in Ages
BY CooldownAssumption DEF Ages, Older, Old, Lesser

-----------------------------------------------------------------------------
(* Types.  A session in a run has the run, and an outcome once it decides. *)

Decided ==
  \A r \in Runner :
    /\ sess[r].pc \in {"notify", "sending", "commit"} =>
         sess[r].outcome # "none"
    /\ InRun(r) => sess[r].run # NoOne

TypeInv == TypeOK /\ Decided

\* An idle session and an edit that is not open are typed.
LEMMA IdleType == FreshRow \in Row /\ NoSession \in Session /\ NoEdit \in Edit
<1>1. FreshRow \in Row
  BY NewRowType
<1>2. Read(FreshRow) \in Object
  BY <1>1, ReadType
<1>3. Old \in Ages
  BY CooldownAssumption DEF Ages, Old
<1>4. NoSession \in Session
  BY <1>2, <1>3 DEF NoSession, Session, Step
<1>5. NoEdit \in Edit
  BY <1>2 DEF NoEdit, Edit, EditStatus
<1>6. QED
  BY <1>1, <1>4, <1>5

\* The initial state is typed.
LEMMA InitTyped == Init => TypeInv
<1>1. Old \in Ages
  BY CooldownAssumption DEF Ages, Old
<1>2. NoSession.pc = "idle"
  BY DEF NoSession
<1>3. QED
  BY <1>1, <1>2, IdleType DEF Init, TypeInv, TypeOK, Decided, RunStatus, InRun

\* A session may become any session, if it keeps what TypeInv asks of it.
LEMMA BecomesType ==
  ASSUME TypeInv, NEW r \in Runner, NEW s \in Session, Becomes(r, s),
         s.pc \in {"notify", "sending", "commit"} => s.outcome # "none",
         s.pc \in {"fetching", "notify", "sending", "commit"} =>
           s.run # NoOne
  PROVE  sess' \in [Runner -> Session] /\ Decided'
BY DEF TypeInv, TypeOK, Decided, Becomes, InRun

\* Every step keeps the types.
LEMMA NextTyped == TypeInv /\ [Next]_vars => TypeInv'
<1> SUFFICES ASSUME TypeInv, [Next]_vars
             PROVE  TypeInv'
  OBVIOUS
<1> USE DEF TypeInv, TypeOK
<1>a. /\ NoSession.pc = "idle"
      /\ \A r \in Runner : sess[r] \in Session
  BY DEF NoSession
<1>1. ASSUME NEW r \in Runner, SelectDue(r)
      PROVE  TypeInv'
  <2>1. [sess[r] EXCEPT !.pc = "queued"] \in Session
    BY <1>a DEF Session, Step
  <2>2. QED
    BY <1>1, <2>1, BecomesType DEF SelectDue, Session
<1>2. ASSUME NEW r \in Runner, LoadGroup(r)
      PROVE  TypeInv'
  <2>1. [sess[r] EXCEPT !.pc = "locked", !.loaded = Read(row)] \in Session
    BY <1>a, ReadType DEF Session, Step
  <2>2. QED
    BY <1>2, <2>1, BecomesType DEF LoadGroup, Session
<1>3. ASSUME NEW r \in Runner, RefusePaused(r)
      PROVE  TypeInv'
  BY <1>a, <1>3, IdleType, BecomesType DEF RefusePaused
<1>4. ASSUME NEW r \in Runner, EnsureNotRunning(r)
      PROVE  TypeInv'
  <2>1. [sess[r] EXCEPT !.pc = "checked"] \in Session
    BY <1>a DEF Session, Step
  <2>2. QED
    BY <1>4, <2>1, BecomesType DEF EnsureNotRunning, Session
<1>5. ASSUME NEW r \in Runner, RefuseOverlap(r)
      PROVE  TypeInv'
  BY <1>a, <1>5, IdleType, BecomesType DEF RefuseOverlap, Released
<1>6. ASSUME NEW r \in Runner, StartRun(r)
      PROVE  TypeInv'
  <2>1. PICK i \in RunId :
          /\ runs' = [runs EXCEPT ![i] = "running"]
          /\ Becomes(r, [sess[r] EXCEPT !.pc = "fetching", !.run = i])
    BY <1>6 DEF StartRun
  <2>2. runs' \in [RunId -> RunStatus] /\ lock' \in Runner \cup {NoOne}
    BY <1>6, <2>1 DEF StartRun, RunStatus, Released
  <2>3. [sess[r] EXCEPT !.pc = "fetching", !.run = i] \in Session
    BY <1>a DEF Session, Step
  <2>4. i # NoOne
    BY ActorAssumption
  <2>5. QED
    BY <1>6, <2>1, <2>2, <2>3, <2>4, BecomesType DEF StartRun, Session
<1>7. ASSUME NEW r \in Runner, CollectResults(r)
      PROVE  TypeInv'
  <2>1. PICK o \in Outcome, hit \in BOOLEAN :
          Becomes(r, [sess[r] EXCEPT
                        !.outcome = o,
                        !.pc = IF hit THEN "notify" ELSE "commit"])
    BY <1>7 DEF CollectResults
  <2> DEFINE s == [sess[r] EXCEPT
                     !.outcome = o,
                     !.pc = IF hit THEN "notify" ELSE "commit"]
  <2>2. s \in Session
    BY <1>a, ZenonT(60) DEF Session, Step
  <2>3. s.outcome # "none" /\ s.run # NoOne
    BY <1>a, <1>7 DEF Session, Outcome, CollectResults, At, Decided, InRun
  <2>4. QED
    BY <1>7, <2>1, <2>2, <2>3, BecomesType DEF CollectResults
<1>8. ASSUME NEW r \in Runner, OpenAlert(r)
      PROVE  TypeInv'
  <2>1. 0 \in Ages
    BY CooldownAssumption DEF Ages, Old
  <2>2. PICK s \in {[sess[r] EXCEPT !.pc = "sending", !.eventAge = 0],
                    [sess[r] EXCEPT !.pc = "commit"]} : Becomes(r, s)
    BY <1>8 DEF OpenAlert
  <2>3. s \in Session
    BY <1>a, <2>1 DEF Session, Step
  <2>4. s.outcome = sess[r].outcome /\ s.run = sess[r].run
    BY <1>a DEF Session
  <2>5. s.outcome # "none" /\ s.run # NoOne
    BY <1>8, <2>4 DEF OpenAlert, At, Decided, InRun
  <2>6. QED
    BY <1>8, <2>2, <2>3, <2>5, BecomesType DEF OpenAlert
<1>9. ASSUME NEW r \in Runner, SendAlert(r)
      PROVE  TypeInv'
  <2>1. PICK mail \in {"sent", "failed"} :
          Becomes(r, [sess[r] EXCEPT !.pc = "commit", !.mail = mail])
    BY <1>9 DEF SendAlert
  <2> DEFINE s == [sess[r] EXCEPT !.pc = "commit", !.mail = mail]
  <2>2. s \in Session /\ s.outcome = sess[r].outcome /\ s.run = sess[r].run
    BY <1>a DEF Session, Step
  <2>3. s.outcome # "none" /\ s.run # NoOne
    BY <1>9, <2>2 DEF SendAlert, At, Decided, InRun
  <2>4. sinceAlert' \in Ages
    BY <1>a, <1>9 DEF SendAlert, Session
  <2>5. QED
    BY <1>9, <2>1, <2>2, <2>3, <2>4, BecomesType DEF SendAlert
<1>10. ASSUME NEW r \in Runner, CommitRun(r)
       PROVE  TypeInv'
  <2>1. sess[r] \in Session /\ sess[r].outcome # "none"
    BY <1>a, <1>10 DEF CommitRun, At, Decided
  <2>2. row' \in Row
    BY <1>10, <2>1, WrittenType DEF CommitRun
  <2>3. FinalStatus(sess[r].outcome) \in RunStatus
    BY DEF FinalStatus, RunStatus
  <2>4. QuietAfter(sess[r]) \in Ages
    BY <2>1, CooldownAssumption DEF QuietAfter, Lesser, Session, Ages, Old
  <2>5. streak' \in Nat
    BY <1>10 DEF CommitRun
  <2>6. sess' \in [Runner -> Session] /\ Decided'
    BY <1>a, <1>10, IdleType, BecomesType DEF CommitRun
  <2>7. QED
    BY <1>10, <2>2, <2>3, <2>4, <2>5, <2>6 DEF CommitRun
<1>11. ASSUME NEW r \in Runner, Crash(r)
       PROVE  TypeInv'
  <2>1. sess' \in [Runner -> Session] /\ Decided'
    BY <1>a, <1>11, IdleType, BecomesType DEF Crash
  <2>2. dead' \subseteq RunId
    BY <1>a, <1>11 DEF Crash, Session, Decided
  <2>3. QED
    BY <1>11, <2>1, <2>2 DEF Crash, Released
<1>12. ASSUME NEW o \in Operator, LoadEdit(o)
       PROVE  TypeInv'
  BY <1>12, ReadType DEF LoadEdit, Edit, Decided, InRun
<1>13. ASSUME NEW o \in Operator, CommitEdit(o)
       PROVE  TypeInv'
  <2>1. edit[o].loaded \in Object /\ edit[o].status \in EditStatus
    BY DEF Edit
  <2>2. row' \in Row
    BY <1>13, <2>1, PatchType, FlushType DEF CommitEdit
  <2>3. sess' \in [Runner -> Session] /\ Decided'
    BY <1>13, ZenonT(60) DEF CommitEdit, Session, HasRow, Decided, InRun
  <2>4. QED
    BY <1>13, <2>2, <2>3, IdleType DEF CommitEdit
<1>14. CASE Tick
  <2>1. row' \in Row /\ quiet' \in Ages /\ sinceAlert' \in Ages
    BY <1>14, AgedType, OlderType DEF Tick
  <2>2. \A r \in Runner : Older(sess[r].eventAge) \in Ages
    BY OlderType DEF Session
  <2>3. sess' \in [Runner -> Session] /\ Decided'
    BY <1>14, <2>2, SMTT(30) DEF Tick, Session, Decided, InRun
  <2>4. QED
    BY <1>14, <2>1, <2>3 DEF Tick
<1>15. CASE UNCHANGED vars
  BY <1>15 DEF vars, Decided, InRun
<1>16. QED
  BY <1>1, <1>2, <1>3, <1>4, <1>5, <1>6, <1>7, <1>8, <1>9, <1>10, <1>11,
     <1>12, <1>13, <1>14, <1>15
  DEF Next, RunStep

\* Type correctness: every reachable state of a group, its runs and the
\* sessions on it has the declared types; in particular no write stores a
\* time that was only read.
THEOREM TypeCorrect == Spec => []TypeOK
<1>1. TypeInv => TypeOK
  BY DEF TypeInv
<1>2. QED
  BY InitTyped, NextTyped, <1>1, PTL DEF Spec

-----------------------------------------------------------------------------
(* Exclusion: the inductive invariant.                                     *)

Guarding(r) == sess[r].pc \in {"locked", "checked"}

\* From the locked read to the insert, a session holds the row's lock.
GuardHoldsLock == \A r \in Runner : Guarding(r) => lock = r

\* What a session has checked stays true until it inserts.
CheckedStaysTrue == \A r \in Runner : At(r, "checked") => NoneRunning

\* The run of a live session is RUNNING, and only one session is in a run.
RunIsRunning == \A r \in Runner : InRun(r) => runs[sess[r].run] = "running"
OneInRun     == \A r, s \in Runner : InRun(r) /\ InRun(s) => r = s

Exclusion ==
  /\ TypeInv
  /\ GuardHoldsLock
  /\ CheckedStaysTrue
  /\ RunIsRunning
  /\ OneInRun
  /\ AtMostOneRunning

\* Initially nothing runs.
LEMMA InitExclusion == Init => Exclusion
<1> SUFFICES ASSUME Init PROVE Exclusion
  OBVIOUS
<1>1. TypeInv
  BY InitTyped
<1>2. \A r \in Runner : sess[r].pc = "idle"
  BY DEF Init, NoSession
<1>3. QED
  BY <1>1, <1>2
  DEF Init, Exclusion, GuardHoldsLock, Guarding, CheckedStaysTrue, At,
      RunIsRunning, OneInRun, InRun, AtMostOneRunning

\* A step of r that leaves the runs alone, and lets r keep or leave the part
\* of its path it is in, keeps the exclusion.
LEMMA QuietStep ==
  ASSUME Exclusion, TypeInv', NEW r \in Runner, runs' = runs,
         \A s \in Runner \ {r} : sess'[s] = sess[s],
         lock' = lock \/ (lock = r /\ lock' = NoOne)
           \/ (lock = NoOne /\ lock' = r),
         (Guarding(r))' => lock' = r,
         At(r, "checked")' => NoneRunning,
         InRun(r)' => InRun(r) /\ sess'[r].run = sess[r].run
  PROVE  Exclusion'
<1> USE DEF Exclusion
<1>1. GuardHoldsLock'
  BY ActorAssumption DEF GuardHoldsLock, Guarding, Runner
<1>2. CheckedStaysTrue'
  BY DEF CheckedStaysTrue, At, NoneRunning
<1>3. RunIsRunning'
  BY DEF RunIsRunning, InRun
<1>4. OneInRun'
  BY DEF OneInRun, InRun
<1>5. AtMostOneRunning'
  BY DEF AtMostOneRunning
<1>6. QED
  BY <1>1, <1>2, <1>3, <1>4, <1>5

\* Inserting the run: the lock has kept everybody else out.
LEMMA StartStep ==
  ASSUME Exclusion, TypeInv', NEW r \in Runner, StartRun(r)
  PROVE  Exclusion'
<1> USE DEF Exclusion
<1>1. NoneRunning
  BY DEF CheckedStaysTrue, StartRun
<1>2. PICK i \in RunId :
        /\ runs' = [runs EXCEPT ![i] = "running"]
        /\ Becomes(r, [sess[r] EXCEPT !.pc = "fetching", !.run = i])
  BY DEF StartRun
<1>3. /\ sess[r] \in Session
      /\ sess' = [sess EXCEPT ![r] =
                    [sess[r] EXCEPT !.pc = "fetching", !.run = i]]
      /\ sess'[r].pc = "fetching" /\ sess'[r].run = i
      /\ \A s \in Runner \ {r} : sess'[s] = sess[s]
  BY <1>2 DEF Becomes, TypeInv, TypeOK, Session
<1>4. \A s \in Runner : ~InRun(s)
  BY <1>1 DEF RunIsRunning, NoneRunning, TypeInv, TypeOK, Decided, InRun,
              Session
<1>5. lock = r /\ \A s \in Runner \ {r} : ~Guarding(s)
  BY DEF GuardHoldsLock, Guarding, StartRun, At
<1>6. GuardHoldsLock' /\ CheckedStaysTrue'
  BY <1>3, <1>5 DEF GuardHoldsLock, CheckedStaysTrue, Guarding, At
<1>7. RunIsRunning'
  BY <1>2, <1>3, <1>4 DEF RunIsRunning, InRun, TypeInv, TypeOK
<1>8. OneInRun'
  BY <1>3, <1>4 DEF OneInRun, InRun
<1>9. AtMostOneRunning'
  BY <1>1, <1>2 DEF AtMostOneRunning, NoneRunning, TypeInv, TypeOK
<1>10. QED
  BY <1>6, <1>7, <1>8, <1>9

\* Finishing the run.
LEMMA CommitStep ==
  ASSUME Exclusion, TypeInv', NEW r \in Runner, CommitRun(r)
  PROVE  Exclusion'
<1> USE DEF Exclusion
<1>1. /\ sess'[r] = NoSession /\ NoSession.pc = "idle"
      /\ \A s \in Runner \ {r} : sess'[s] = sess[s]
  BY DEF CommitRun, Becomes, TypeInv, TypeOK, NoSession
<1>2. InRun(r) /\ \A s \in Runner \ {r} : ~InRun(s)
  BY DEF CommitRun, At, InRun, OneInRun
<1>3. FinalStatus(sess[r].outcome) # "running"
  BY DEF FinalStatus
<1>4. \A j \in RunId : runs'[j] = "running" => runs[j] = "running"
  BY <1>3 DEF CommitRun, TypeInv, TypeOK
<1>5. \A s \in Runner : ~Guarding(s)'
  BY <1>1, <1>2, ActorAssumption
  DEF GuardHoldsLock, Guarding, CommitRun, InRun, Runner
<1>6. GuardHoldsLock' /\ CheckedStaysTrue'
  BY <1>5 DEF GuardHoldsLock, CheckedStaysTrue, Guarding, At
<1>7. RunIsRunning' /\ OneInRun'
  BY <1>1, <1>2 DEF RunIsRunning, OneInRun, InRun
<1>8. AtMostOneRunning'
  BY <1>4 DEF AtMostOneRunning
<1>9. QED
  BY <1>6, <1>7, <1>8

\* Every step keeps the exclusion.
LEMMA NextExclusion == Exclusion /\ [Next]_vars => Exclusion'
<1> SUFFICES ASSUME Exclusion, [Next]_vars
             PROVE  Exclusion'
  OBVIOUS
<1>a. TypeInv'
  BY NextTyped DEF Exclusion
<1>b. /\ sess \in [Runner -> Session]
      /\ NoSession.pc = "idle"
  BY DEF Exclusion, TypeInv, TypeOK, NoSession
<1>1. ASSUME NEW r \in Runner, SelectDue(r)
      PROVE  Exclusion'
  BY <1>a, <1>b, <1>1, QuietStep
  DEF SelectDue, Becomes, At, Guarding, InRun, Session
<1>2. ASSUME NEW r \in Runner, LoadGroup(r)
      PROVE  Exclusion'
  BY <1>a, <1>b, <1>2, QuietStep
  DEF LoadGroup, Becomes, At, Guarding, InRun, Session
<1>3. ASSUME NEW r \in Runner, RefusePaused(r)
      PROVE  Exclusion'
  BY <1>a, <1>b, <1>3, QuietStep
  DEF RefusePaused, Becomes, At, Guarding, InRun
<1>4. ASSUME NEW r \in Runner, EnsureNotRunning(r)
      PROVE  Exclusion'
  <2>1. lock = r
    BY <1>4 DEF Exclusion, GuardHoldsLock, Guarding, EnsureNotRunning, At
  <2>2. QED
    BY <1>a, <1>b, <1>4, <2>1, QuietStep
    DEF EnsureNotRunning, Becomes, At, Guarding, InRun, Session
<1>5. ASSUME NEW r \in Runner, RefuseOverlap(r)
      PROVE  Exclusion'
  BY <1>a, <1>b, <1>5, QuietStep
  DEF RefuseOverlap, Released, Becomes, At, Guarding, InRun
<1>6. ASSUME NEW r \in Runner, StartRun(r)
      PROVE  Exclusion'
  BY <1>a, <1>6, StartStep
<1>7. ASSUME NEW r \in Runner, CollectResults(r)
      PROVE  Exclusion'
  <2>1. PICK o \in Outcome, hit \in BOOLEAN :
          Becomes(r, [sess[r] EXCEPT
                        !.outcome = o,
                        !.pc = IF hit THEN "notify" ELSE "commit"])
    BY <1>7 DEF CollectResults
  <2>2. /\ sess'[r].pc \in {"notify", "commit"}
        /\ sess'[r].run = sess[r].run
        /\ \A s \in Runner \ {r} : sess'[s] = sess[s]
    BY <1>b, <2>1 DEF Becomes, Session
  <2>3. QED
    BY <1>a, <1>7, <2>2, QuietStep
    DEF CollectResults, At, Guarding, InRun
<1>8. ASSUME NEW r \in Runner, OpenAlert(r)
      PROVE  Exclusion'
  <2>1. \E x \in {"sending", "commit"} :
          /\ sess'[r].pc = x
          /\ sess'[r].run = sess[r].run
    BY <1>b, <1>8, ZenonT(60) DEF OpenAlert, Becomes, Session
  <2>2. \A s \in Runner \ {r} : sess'[s] = sess[s]
    BY <1>b, <1>8 DEF OpenAlert, Becomes
  <2>3. QED
    BY <1>a, <1>8, <2>1, <2>2, QuietStep
    DEF OpenAlert, At, Guarding, InRun
<1>9. ASSUME NEW r \in Runner, SendAlert(r)
      PROVE  Exclusion'
  BY <1>a, <1>b, <1>9, QuietStep
  DEF SendAlert, Becomes, At, Guarding, InRun, Session
<1>10. ASSUME NEW r \in Runner, CommitRun(r)
       PROVE  Exclusion'
  BY <1>a, <1>10, CommitStep
<1>11. ASSUME NEW r \in Runner, Crash(r)
       PROVE  Exclusion'
  BY <1>a, <1>b, <1>11, QuietStep
  DEF Crash, Released, Becomes, At, Guarding, InRun
<1>12. ASSUME /\ runs' = runs /\ lock' = lock
              /\ \A s \in Runner : /\ sess'[s].pc = sess[s].pc
                                   /\ sess'[s].run = sess[s].run
       PROVE  Exclusion'
  BY <1>a, <1>12
  DEF Exclusion, GuardHoldsLock, Guarding, CheckedStaysTrue, NoneRunning,
      At, RunIsRunning, OneInRun, InRun, AtMostOneRunning
<1>13. ASSUME NEW o \in Operator, LoadEdit(o) \/ CommitEdit(o)
       PROVE  Exclusion'
  BY <1>b, <1>12, <1>13 DEF LoadEdit, CommitEdit, Session
<1>14. CASE Tick
  BY <1>b, <1>12, <1>14 DEF Tick, Session
<1>15. CASE UNCHANGED vars
  BY <1>12, <1>15 DEF vars
<1>16. QED
  BY <1>1, <1>2, <1>3, <1>4, <1>5, <1>6, <1>7, <1>8, <1>9, <1>10, <1>11,
     <1>13, <1>14, <1>15
  DEF Next, RunStep

\* The overlap guard of run_watch_group holds for any number of sessions:
\* two runs of a group are never RUNNING together.
THEOREM GroupRunsExclude == Spec => []AtMostOneRunning
<1>1. Exclusion => AtMostOneRunning
  BY DEF Exclusion
<1>2. QED
  BY InitExclusion, NextExclusion, <1>1, PTL DEF Spec

-----------------------------------------------------------------------------
(* Lemmas about the row.                                                   *)

\* A run that read the current count sets it to zero, or adds one.
LEMMA WrittenCount ==
  ASSUME row \in Row, NEW s \in Session, s.outcome # "none",
         s.loaded.failures = row.failures
  PROVE  Written(s).failures =
           IF s.outcome = "success" THEN 0 ELSE row.failures + 1
<1> DEFINE v == Verdict(s.outcome, s.loaded)
           f == Flush(row, s.loaded, v)
<1>1. row.failures \in Nat
  BY DEF Row, RowWith
<1>2. v.failures = IF s.outcome = "success" THEN 0 ELSE row.failures + 1
  BY DEF Verdict, ApplySuccess, ApplyFailure
<1>3. f.failures = IF v.failures # s.loaded.failures THEN v.failures
                                                     ELSE row.failures
  BY DEF Flush
<1>4. f.failures = IF s.outcome = "success" THEN 0 ELSE row.failures + 1
  BY <1>1, <1>2, <1>3
<1>5. ApplyDeliveryFailure(f).failures = f.failures
  BY DEF ApplyDeliveryFailure, Flush
<1>6. QED
  BY <1>4, <1>5 DEF Written

-----------------------------------------------------------------------------
(* Counting: the inductive invariant.                                      *)

\* The count in every object is the count in the row, and the row's count is
\* the number of failures since the last success.
CountIsCurrent ==
  \A r \in Runner : HasRow(r) => sess[r].loaded.failures = row.failures

\* Unless a PATCH was committed since, all of the object is the row.
ObjectIsCurrent ==
  \A r \in Runner : HasRow(r) /\ ~sess[r].patched => sess[r].loaded = Read(row)

Counting == Exclusion /\ CountIsCurrent /\ ObjectIsCurrent /\ FailureCountExact

\* Initially no session has read anything, and nothing has failed.
LEMMA InitCounting == Init => Counting
<1> SUFFICES ASSUME Init PROVE Counting
  OBVIOUS
<1>1. Exclusion
  BY InitExclusion
<1>2. \A r \in Runner : ~HasRow(r)
  BY DEF Init, NoSession, HasRow
<1>3. FailureCountExact
  BY DEF Init, FreshRow, FailureCountExact
<1>4. QED
  BY <1>1, <1>2, <1>3 DEF Counting, CountIsCurrent, ObjectIsCurrent

\* The session of a run that commits is the only one that has read the row:
\* one that guards holds the lock, and no other is in a run.
LEMMA CommitsAlone ==
  ASSUME Exclusion, NEW r \in Runner, CommitRun(r)
  PROVE  \A s \in Runner \ {r} : ~HasRow(s)
<1>1. \A s \in Runner \ {r} : ~InRun(s)
  BY DEF Exclusion, OneInRun, InRun, CommitRun, At
<1>2. \A s \in Runner \ {r} : ~Guarding(s)
  BY ActorAssumption DEF Exclusion, GuardHoldsLock, CommitRun, Runner
<1>3. \A s \in Runner : HasRow(s) => Guarding(s) \/ InRun(s)
  BY DEF HasRow, Guarding, InRun, Exclusion, TypeInv, TypeOK, Session, Step
<1>4. QED
  BY <1>1, <1>2, <1>3

\* A step of r that leaves the row alone, and in which r reads it, keeps what
\* it has read, or ends.
LEMMA ReadingStep ==
  ASSUME Counting, Exclusion', NEW r \in Runner, row' = row, streak' = streak,
         \A s \in Runner \ {r} : sess'[s] = sess[s],
         \/ ~HasRow(r)'
         \/ sess'[r].loaded = Read(row)
         \/ /\ HasRow(r)
            /\ sess'[r].loaded = sess[r].loaded
            /\ sess'[r].patched = sess[r].patched
  PROVE  Counting'
<1> USE DEF Counting
<1>1. Read(row).failures = row.failures
  BY ReadCount DEF Exclusion, TypeInv, TypeOK
<1>2. CountIsCurrent'
  BY <1>1 DEF CountIsCurrent, HasRow
<1>3. ObjectIsCurrent'
  BY DEF ObjectIsCurrent, HasRow
<1>4. FailureCountExact'
  BY DEF FailureCountExact
<1>5. QED
  BY <1>2, <1>3, <1>4

\* Every step keeps the count.
LEMMA NextCounting == Counting /\ [Next]_vars => Counting'
<1> SUFFICES ASSUME Counting, [Next]_vars
             PROVE  Counting'
  OBVIOUS
<1>a. Exclusion'
  BY NextExclusion DEF Counting
<1>b. /\ sess \in [Runner -> Session] /\ row \in Row
      /\ NoSession.pc = "idle"
  BY DEF Counting, Exclusion, TypeInv, TypeOK, NoSession
<1>1. ASSUME NEW r \in Runner, SelectDue(r)
      PROVE  Counting'
  BY <1>a, <1>b, <1>1, ReadingStep DEF SelectDue, Becomes, HasRow, Session
<1>2. ASSUME NEW r \in Runner, LoadGroup(r)
      PROVE  Counting'
  BY <1>a, <1>b, <1>2, ReadingStep DEF LoadGroup, Becomes, Session
<1>3. ASSUME NEW r \in Runner, RefusePaused(r) \/ RefuseOverlap(r) \/ Crash(r)
      PROVE  Counting'
  BY <1>a, <1>b, <1>3, ReadingStep
  DEF RefusePaused, RefuseOverlap, Crash, Becomes, HasRow
<1>4. ASSUME NEW r \in Runner,
             EnsureNotRunning(r) \/ StartRun(r) \/ CollectResults(r)
               \/ OpenAlert(r) \/ SendAlert(r)
      PROVE  Counting'
  <2>1. /\ row' = row /\ streak' = streak
        /\ HasRow(r)
    BY <1>4 DEF EnsureNotRunning, StartRun, CollectResults, OpenAlert,
                SendAlert, At, HasRow
  <2>2. /\ \A s \in Runner \ {r} : sess'[s] = sess[s]
        /\ sess'[r].loaded = sess[r].loaded
        /\ sess'[r].patched = sess[r].patched
    <3>1. CASE EnsureNotRunning(r)
      BY <1>b, <3>1 DEF EnsureNotRunning, Becomes, Session
    <3>2. CASE StartRun(r)
      BY <1>b, <3>2 DEF StartRun, Becomes, Session
    <3>3. CASE CollectResults(r)
      BY <1>b, <3>3 DEF CollectResults, Becomes, Session
    <3>4. CASE OpenAlert(r)
      BY <1>b, <3>4 DEF OpenAlert, Becomes, Session
    <3>5. CASE SendAlert(r)
      BY <1>b, <3>5 DEF SendAlert, Becomes, Session
    <3>6. QED
      BY <1>4, <3>1, <3>2, <3>3, <3>4, <3>5
  <2>3. QED
    BY <1>a, <2>1, <2>2, ReadingStep
<1>5. ASSUME NEW r \in Runner, CommitRun(r)
      PROVE  Counting'
  <2>1. \A s \in Runner : ~HasRow(s)'
    BY <1>b, <1>5, CommitsAlone DEF Counting, CommitRun, Becomes, HasRow
  <2>2. /\ sess[r] \in Session /\ sess[r].outcome # "none"
        /\ sess[r].loaded.failures = row.failures
    BY <1>b, <1>5
    DEF Counting, CountIsCurrent, Exclusion, TypeInv, Decided, CommitRun, At,
        HasRow
  <2>3. row'.failures = streak'
    BY <1>b, <1>5, <2>2, WrittenCount
    DEF Counting, FailureCountExact, CommitRun
  <2>4. QED
    BY <1>a, <2>1, <2>3
    DEF Counting, CountIsCurrent, ObjectIsCurrent, FailureCountExact
<1>6. ASSUME NEW o \in Operator, LoadEdit(o)
      PROVE  Counting'
  BY <1>a, <1>6
  DEF LoadEdit, Counting, CountIsCurrent, ObjectIsCurrent, FailureCountExact,
      HasRow
<1>7. ASSUME NEW o \in Operator, CommitEdit(o)
      PROVE  Counting'
  <2>1. edit[o].loaded \in Object /\ edit[o].status \in EditStatus
    BY DEF Counting, Exclusion, TypeInv, TypeOK, Edit
  <2>2. row'.failures = row.failures /\ streak' = streak
    BY <1>b, <1>7, <2>1, PatchCount DEF CommitEdit
  <2>3. \A r \in Runner : /\ sess'[r].pc = sess[r].pc
                          /\ sess'[r].loaded = sess[r].loaded
                          /\ HasRow(r) => sess'[r].patched
    BY <1>b, <1>7 DEF CommitEdit, Session
  <2>4. CountIsCurrent' /\ FailureCountExact'
    BY <2>2, <2>3 DEF Counting, CountIsCurrent, FailureCountExact, HasRow
  <2>5. ObjectIsCurrent'
    BY <2>3 DEF ObjectIsCurrent, HasRow
  <2>6. QED
    BY <1>a, <2>4, <2>5 DEF Counting
<1>8. CASE Tick
  <2>1. Read(row') = Read(row) /\ row'.failures = row.failures
    BY <1>b, <1>8, AgedType DEF Tick, Aged, Row, RowWith
  <2>2. \A r \in Runner : /\ sess'[r].pc = sess[r].pc
                          /\ sess'[r].loaded = sess[r].loaded
                          /\ sess'[r].patched = sess[r].patched
    BY <1>b, <1>8 DEF Tick, Session
  <2>3. QED
    BY <1>a, <1>8, <2>1, <2>2
    DEF Tick, Counting, CountIsCurrent, ObjectIsCurrent, FailureCountExact,
        HasRow
<1>9. CASE UNCHANGED vars
  BY <1>a, <1>9
  DEF vars, Counting, CountIsCurrent, ObjectIsCurrent, FailureCountExact,
      HasRow
<1>10. QED
  BY <1>1, <1>2, <1>3, <1>4, <1>5, <1>6, <1>7, <1>8, <1>9 DEF Next, RunStep

\* consecutive_failures is exact for any number of sessions and deaths: no
\* increment is lost, although each run adds one to a count it read before.
THEOREM FailuresAreCounted == Spec => []FailureCountExact
<1>1. Counting => FailureCountExact
  BY DEF Counting
<1>2. QED
  BY InitCounting, NextCounting, <1>1, PTL DEF Spec

\* A run decides on the row as it is, unless a PATCH was committed meanwhile.
THEOREM VerdictIsCurrent == Spec => []VerdictOnCurrentRow
<1>1. Counting => VerdictOnCurrentRow
  BY DEF Counting, ObjectIsCurrent, VerdictOnCurrentRow, InRun, HasRow
<1>2. QED
  BY InitCounting, NextCounting, <1>1, PTL DEF Spec

-----------------------------------------------------------------------------
(***************************************************************************)
(* Refinement.  Two steps of GroupRuns are steps of the abstract monitor.  *)
(* The insertion of a run begins it, and the commit of a run ends it and   *)
(* counts it.  All others change neither the runs nor the count; a PATCH   *)
(* and the passing of time change other columns of the row.                *)
(***************************************************************************)

\* The abstract state does not change.
Stutters == runs' = runs /\ row'.failures = row.failures

\* A new group is a new monitor.
LEMMA InitSequential == Init => Sequential!Init
BY DEF Init, Sequential!Init, FreshRow

\* Inserting a run begins it, and nothing else runs: what the guard has
\* checked is still true.
LEMMA StartBegins ==
  ASSUME Counting, NEW r \in Runner, StartRun(r)
  PROVE  \E i \in RunId : Sequential!Begin(i)
<1>1. NoneRunning
  BY DEF Counting, Exclusion, CheckedStaysTrue, StartRun
<1>2. PICK i \in RunId : /\ runs[i] = "absent"
                         /\ runs' = [runs EXCEPT ![i] = "running"]
  BY DEF StartRun
<1>3. row'.failures = row.failures
  BY DEF StartRun
<1>4. Sequential!Begin(i)
  BY <1>1, <1>2, <1>3 DEF NoneRunning, Sequential!Begin
<1>5. QED
  BY <1>4

\* Committing a run ends it and counts it.
LEMMA CommitEnds ==
  ASSUME Counting, NEW r \in Runner, CommitRun(r)
  PROVE  \E i \in RunId :
           \/ Sequential!Succeed(i)
           \/ \E status \in {"failed", "blocked"} : Sequential!Fail(i, status)
<1> DEFINE i == sess[r].run
           o == sess[r].outcome
<1>1. /\ sess[r] \in Session /\ o # "none" /\ i # NoOne
      /\ InRun(r) /\ HasRow(r)
  BY DEF Counting, Exclusion, TypeInv, TypeOK, Decided, CommitRun, At, InRun,
         HasRow
<1>2. i \in RunId /\ runs[i] = "running"
  BY <1>1 DEF Counting, Exclusion, RunIsRunning, Session
<1>3. runs' = [runs EXCEPT ![i] = FinalStatus(o)]
  BY DEF CommitRun
<1>4. row'.failures = IF o = "success" THEN 0 ELSE row.failures + 1
  BY <1>1, WrittenCount
  DEF CommitRun, Counting, CountIsCurrent, Exclusion, TypeInv, TypeOK
<1>5. CASE o = "success"
  <2>1. Sequential!Succeed(i)
    BY <1>2, <1>3, <1>4, <1>5 DEF Sequential!Succeed, FinalStatus
  <2>2. QED
    BY <1>2, <2>1
<1>6. CASE o # "success"
  <2>1. FinalStatus(o) \in {"failed", "blocked"}
    BY <1>6 DEF FinalStatus
  <2>2. Sequential!Fail(i, FinalStatus(o))
    BY <1>2, <1>3, <1>4, <1>6 DEF Sequential!Fail
  <2>3. QED
    BY <1>2, <2>1, <2>2
<1>7. QED
  BY <1>5, <1>6

\* Every other step leaves the runs and the count alone.
LEMMA OthersStutter ==
  ASSUME Counting, [Next]_vars,
         \A r \in Runner : ~StartRun(r) /\ ~CommitRun(r)
  PROVE  Stutters
<1>1. ASSUME NEW r \in Runner, RunStep(r) \/ Crash(r)
      PROVE  Stutters
  BY <1>1
  DEF RunStep, SelectDue, LoadGroup, RefusePaused, EnsureNotRunning,
      RefuseOverlap, CollectResults, OpenAlert, SendAlert, Crash, Stutters
<1>2. ASSUME NEW o \in Operator, LoadEdit(o)
      PROVE  Stutters
  BY <1>2 DEF LoadEdit, Stutters
<1>3. ASSUME NEW o \in Operator, CommitEdit(o)
      PROVE  Stutters
  <2>1. /\ row \in Row
        /\ edit[o].loaded \in Object /\ edit[o].status \in EditStatus
    BY DEF Counting, Exclusion, TypeInv, TypeOK, Edit
  <2>2. QED
    BY <1>3, <2>1, PatchCount DEF CommitEdit, Stutters
<1>4. CASE Tick
  BY <1>4
  DEF Tick, Aged, Stutters, Counting, Exclusion, TypeInv, TypeOK, Row,
      RowWith
<1>5. CASE UNCHANGED vars
  BY <1>5 DEF vars, Stutters
<1>6. QED
  BY <1>1, <1>2, <1>3, <1>4, <1>5 DEF Next

\* Every step is a step of the abstract monitor, or none.
LEMMA NextSequential ==
  Counting /\ [Next]_vars => [Sequential!Next]_<<runs, row.failures>>
<1> SUFFICES ASSUME Counting, [Next]_vars
             PROVE  [Sequential!Next]_<<runs, row.failures>>
  OBVIOUS
<1>1. CASE \E r \in Runner : StartRun(r)
  BY <1>1, StartBegins DEF Sequential!Next
<1>2. CASE \E r \in Runner : CommitRun(r)
  BY <1>2, CommitEnds DEF Sequential!Next
<1>3. CASE \A r \in Runner : ~StartRun(r) /\ ~CommitRun(r)
  BY <1>3, OthersStutter DEF Stutters
<1>4. QED
  BY <1>1, <1>2, <1>3

\* Whoever reads the runs of a group and its consecutive_failures sees runs
\* that follow one another, each counted once.
THEOREM GroupRunsAreSequential == Spec => RunsAreSequential
<1>1. Init => Sequential!Init
  BY InitSequential
<1>2. Counting /\ [Next]_vars => [Sequential!Next]_<<runs, row.failures>>
  BY NextSequential
<1>3. QED
  BY InitCounting, NextCounting, <1>1, <1>2, PTL
  DEF Spec, RunsAreSequential, Sequential!Spec

-----------------------------------------------------------------------------
(***************************************************************************)
(* The alert cooldown.  The code only looks at the events that were        *)
(* committed.  A mail whose event is not committed yet was sent by a       *)
(* session in its run, and no other session can be in a run; one whose     *)
(* event never will be was sent by a session that died in its run, and its *)
(* RUNNING row keeps every other session out for ever.                     *)
(***************************************************************************)

\* A run whose process died stays RUNNING, and is nobody's run any more.
DeadStayRunning ==
  /\ \A i \in dead : runs[i] = "running"
  /\ \A r \in Runner : InRun(r) => sess[r].run \notin dead

\* r is about to commit the event of a mail that has left.
Owes(r) ==
  At(r, "commit") /\ sess[r].mail = "sent" /\ sess[r].eventAge <= sinceAlert

\* The last mail is as old as the last event, or its event is still to come,
\* or is lost with a dead session.
MailIsRecorded ==
  \/ quiet <= sinceAlert
  \/ dead # {}
  \/ \E r \in Runner : Owes(r)

Alerting == Exclusion /\ DeadStayRunning /\ MailIsRecorded

\* Initially there is no mail, no event and nobody dead.
LEMMA InitAlerting == Init => Alerting
<1> SUFFICES ASSUME Init PROVE Alerting
  OBVIOUS
<1>1. Exclusion
  BY InitExclusion
<1>2. DeadStayRunning
  BY DEF Init, DeadStayRunning
<1>3. MailIsRecorded
  BY CooldownAssumption DEF Init, MailIsRecorded, Old
<1>4. QED
  BY <1>1, <1>2, <1>3 DEF Alerting

\* While a session is in its run, no process has died in one: the dead
\* session's run would be RUNNING too.
LEMMA NobodyDead ==
  ASSUME Alerting, NEW r \in Runner, InRun(r)
  PROVE  dead = {}
<1>1. /\ sess[r].run \in RunId /\ dead \subseteq RunId
      /\ runs[sess[r].run] = "running"
  BY DEF Alerting, Exclusion, TypeInv, TypeOK, Decided, RunIsRunning, Session
<1>2. QED
  BY <1>1 DEF Alerting, DeadStayRunning, Exclusion, AtMostOneRunning

\* Outside its mail and its commit, a step of r that is not its death, or is
\* no death in a run, keeps the invariant.
LEMMA PlainStep ==
  ASSUME Alerting, Exclusion', NEW r \in Runner,
         runs' = runs, dead' = dead, quiet' = quiet, sinceAlert' = sinceAlert,
         \A s \in Runner \ {r} : sess'[s] = sess[s],
         ~At(r, "commit"),
         InRun(r)' => InRun(r) /\ sess'[r].run = sess[r].run
  PROVE  Alerting'
<1>1. DeadStayRunning'
  BY DEF Alerting, DeadStayRunning, InRun
<1>2. MailIsRecorded'
  BY DEF Alerting, MailIsRecorded, Owes, At
<1>3. QED
  BY <1>1, <1>2 DEF Alerting

\* Ages keep their order as time passes.
LEMMA OlderMonotone ==
  ASSUME NEW a \in Ages, NEW b \in Ages, a <= b
  PROVE  Older(a) <= Older(b)
BY CooldownAssumption DEF Ages, Older, Old, Lesser

\* Every step keeps the invariant.
LEMMA NextAlerting == Alerting /\ [Next]_vars => Alerting'
<1> SUFFICES ASSUME Alerting, [Next]_vars
             PROVE  Alerting'
  OBVIOUS
<1>a. Exclusion'
  BY NextExclusion DEF Alerting
<1>b. /\ sess \in [Runner -> Session]
      /\ quiet \in Ages /\ sinceAlert \in Ages /\ Ages \subseteq Int
      /\ NoSession.pc = "idle"
  BY CooldownAssumption
  DEF Alerting, Exclusion, TypeInv, TypeOK, NoSession, Ages, Old
<1>1. ASSUME NEW r \in Runner,
             SelectDue(r) \/ LoadGroup(r) \/ RefusePaused(r)
               \/ EnsureNotRunning(r) \/ RefuseOverlap(r)
      PROVE  Alerting'
  <2>1. /\ runs' = runs /\ dead' = dead
        /\ quiet' = quiet /\ sinceAlert' = sinceAlert
        /\ ~At(r, "commit")
    BY <1>1 DEF SelectDue, LoadGroup, RefusePaused, EnsureNotRunning,
                RefuseOverlap, MayLoad, At
  <2>2. /\ \A s \in Runner \ {r} : sess'[s] = sess[s]
        /\ ~InRun(r)'
    BY <1>b, <1>1, ZenonT(60)
    DEF SelectDue, LoadGroup, RefusePaused, EnsureNotRunning, RefuseOverlap,
        Becomes, InRun, Session
  <2>3. QED
    BY <1>a, <2>1, <2>2, PlainStep
<1>2. ASSUME NEW r \in Runner, StartRun(r)
      PROVE  Alerting'
  <2>1. dead = {}
    BY <1>2
    DEF StartRun, Alerting, DeadStayRunning, Exclusion, CheckedStaysTrue,
        NoneRunning, TypeInv, TypeOK
  <2>2. \A s \in Runner : Owes(s) => Owes(s)'
    BY <1>b, <1>2 DEF StartRun, Becomes, Owes, At
  <2>3. MailIsRecorded'
    BY <1>2, <2>1, <2>2 DEF StartRun, Alerting, MailIsRecorded
  <2>4. DeadStayRunning'
    BY <1>2, <2>1 DEF StartRun, DeadStayRunning
  <2>5. QED
    BY <1>a, <2>3, <2>4 DEF Alerting
<1>3. ASSUME NEW r \in Runner, CollectResults(r) \/ OpenAlert(r)
      PROVE  Alerting'
  <2>1. /\ runs' = runs /\ dead' = dead
        /\ quiet' = quiet /\ sinceAlert' = sinceAlert
        /\ ~At(r, "commit") /\ InRun(r)
    BY <1>3 DEF CollectResults, OpenAlert, At, InRun
  <2>2. /\ \A s \in Runner \ {r} : sess'[s] = sess[s]
        /\ sess'[r].run = sess[r].run
    <3>1. CASE CollectResults(r)
      BY <1>b, <3>1 DEF CollectResults, Becomes, Session
    <3>2. CASE OpenAlert(r)
      BY <1>b, <3>2 DEF OpenAlert, Becomes, Session
    <3>3. QED
      BY <1>3, <3>1, <3>2
  <2>3. QED
    BY <1>a, <2>1, <2>2, PlainStep
<1>4. ASSUME NEW r \in Runner, SendAlert(r)
      PROVE  Alerting'
  <2>1. PICK mail \in {"sent", "failed"} :
          /\ Becomes(r, [sess[r] EXCEPT !.pc = "commit", !.mail = mail])
          /\ sinceAlert' = IF mail = "sent" THEN sess[r].eventAge
                                            ELSE sinceAlert
    BY <1>4 DEF SendAlert
  <2>2. /\ \A s \in Runner \ {r} : sess'[s] = sess[s]
        /\ sess'[r].run = sess[r].run /\ sess'[r].pc = "commit"
        /\ sess'[r].mail = mail /\ sess'[r].eventAge = sess[r].eventAge
        /\ sess[r].eventAge \in Int
    BY <1>b, <2>1 DEF Becomes, Session
  <2>3. InRun(r) /\ runs' = runs /\ dead' = dead /\ quiet' = quiet
    BY <1>4 DEF SendAlert, At, InRun
  <2>4. DeadStayRunning'
    BY <2>2, <2>3 DEF Alerting, DeadStayRunning, InRun
  <2>5. MailIsRecorded'
    <3>1. CASE mail = "sent"
      <4>1. Owes(r)'
        BY <2>1, <2>2, <3>1 DEF Owes, At
      <4>2. QED
        BY <4>1 DEF MailIsRecorded
    <3>2. CASE mail = "failed"
      <4>1. \A s \in Runner : ~Owes(s)
        BY <1>4, <2>3
        DEF SendAlert, Owes, At, InRun, Alerting, Exclusion, OneInRun
      <4>2. QED
        BY <2>1, <2>3, <3>2, <4>1 DEF Alerting, MailIsRecorded
    <3>3. QED
      BY <3>1, <3>2
  <2>6. QED
    BY <1>a, <2>4, <2>5 DEF Alerting
<1>5. ASSUME NEW r \in Runner, CommitRun(r)
      PROVE  Alerting'
  <2>1. InRun(r)
    BY <1>5 DEF CommitRun, At, InRun
  <2>2. dead = {} /\ dead' = dead /\ sinceAlert' = sinceAlert
    BY <1>5, <2>1, NobodyDead DEF CommitRun
  <2>3. \A s \in Runner \ {r} : ~Owes(s)
    BY <2>1 DEF Owes, At, InRun, Alerting, Exclusion, OneInRun
  <2>4. sess[r].eventAge \in Int
    BY <1>b DEF Session
  <2>5. quiet' <= sinceAlert'
    <3>1. CASE Owes(r)
      BY <1>b, <1>5, <2>2, <2>4, <3>1
      DEF Owes, CommitRun, QuietAfter, Lesser
    <3>2. CASE quiet <= sinceAlert
      BY <1>b, <1>5, <2>2, <2>4, <3>2 DEF CommitRun, QuietAfter, Lesser
    <3>3. QED
      BY <2>2, <2>3, <3>1, <3>2 DEF Alerting, MailIsRecorded
  <2>6. DeadStayRunning'
    BY <2>2 DEF DeadStayRunning
  <2>7. QED
    BY <1>a, <2>5, <2>6 DEF Alerting, MailIsRecorded
<1>6. ASSUME NEW r \in Runner, Crash(r)
      PROVE  Alerting'
  <2>1. /\ runs' = runs /\ quiet' = quiet /\ sinceAlert' = sinceAlert
        /\ ~InRun(r)'
        /\ \A s \in Runner \ {r} : sess'[s] = sess[s]
    BY <1>b, <1>6 DEF Crash, Becomes, InRun
  <2>2. CASE InRun(r)
    <3>1. dead' = dead \cup {sess[r].run}
      BY <1>6, <2>2 DEF Crash
    <3>2. runs[sess[r].run] = "running"
      BY <2>2 DEF Alerting, Exclusion, RunIsRunning
    <3>3. \A s \in Runner : ~InRun(s)'
      BY <2>1, <2>2 DEF InRun, Alerting, Exclusion, OneInRun
    <3>4. DeadStayRunning'
      BY <2>1, <3>1, <3>2, <3>3 DEF Alerting, DeadStayRunning
    <3>5. MailIsRecorded'
      BY <3>1 DEF MailIsRecorded
    <3>6. QED
      BY <1>a, <3>4, <3>5 DEF Alerting
  <2>3. CASE ~InRun(r)
    BY <1>a, <1>6, <2>1, <2>3, PlainStep DEF Crash, InRun, At
  <2>4. QED
    BY <2>2, <2>3
<1>7. ASSUME NEW o \in Operator, LoadEdit(o) \/ CommitEdit(o)
      PROVE  Alerting'
  <2>1. /\ runs' = runs /\ quiet' = quiet /\ sinceAlert' = sinceAlert
        /\ dead' = dead
    BY <1>7 DEF LoadEdit, CommitEdit
  <2>2. \A s \in Runner : /\ sess'[s].pc = sess[s].pc
                          /\ sess'[s].run = sess[s].run
                          /\ sess'[s].mail = sess[s].mail
                          /\ sess'[s].eventAge = sess[s].eventAge
    BY <1>b, <1>7 DEF LoadEdit, CommitEdit, Session
  <2>3. QED
    BY <1>a, <2>1, <2>2
    DEF Alerting, DeadStayRunning, MailIsRecorded, Owes, At, InRun
<1>8. CASE Tick
  <2>1. /\ runs' = runs /\ dead' = dead
        /\ quiet' = Older(quiet) /\ sinceAlert' = Older(sinceAlert)
    BY <1>8 DEF Tick
  <2>2. \A s \in Runner : /\ sess'[s].pc = sess[s].pc
                          /\ sess'[s].run = sess[s].run
                          /\ sess'[s].mail = sess[s].mail
                          /\ sess'[s].eventAge = Older(sess[s].eventAge)
                          /\ sess[s].eventAge \in Ages
    BY <1>b, <1>8 DEF Tick, Session
  <2>3. DeadStayRunning'
    BY <2>1, <2>2 DEF Alerting, DeadStayRunning, InRun
  <2>4. \A s \in Runner : Owes(s) => Owes(s)'
    BY <1>b, <2>1, <2>2, OlderMonotone DEF Owes, At
  <2>5. quiet <= sinceAlert => quiet' <= sinceAlert'
    BY <1>b, <2>1, OlderMonotone
  <2>6. MailIsRecorded'
    BY <2>1, <2>4, <2>5 DEF Alerting, MailIsRecorded
  <2>7. QED
    BY <1>a, <2>3, <2>6 DEF Alerting
<1>9. CASE UNCHANGED vars
  BY <1>a, <1>9
  DEF vars, Alerting, DeadStayRunning, MailIsRecorded, Owes, At, InRun
<1>10. QED
  BY <1>1, <1>2, <1>3, <1>4, <1>5, <1>6, <1>7, <1>8, <1>9 DEF Next, RunStep

-----------------------------------------------------------------------------

\* One step: a session comes to send only by opening an alert.
Spaced ==
  \A r \in Runner :
    At(r, "notify") /\ sess'[r].pc = "sending" => sinceAlert > Cooldown

\* An alert is opened outside the cooldown of the last mail that left.
LEMMA OpensSpaced == Alerting /\ [Next]_vars => Spaced
<1> SUFFICES ASSUME Alerting, [Next]_vars, NEW r \in Runner,
                    At(r, "notify"), sess'[r].pc = "sending"
             PROVE  sinceAlert > Cooldown
  BY DEF Spaced
<1>a. /\ sess \in [Runner -> Session]
      /\ quiet \in Int /\ sinceAlert \in Int
  BY CooldownAssumption DEF Alerting, Exclusion, TypeInv, TypeOK, Ages, Old
<1>1. InRun(r)
  BY DEF At, InRun
<1>2. OpenAlert(r)
  <2>1. ASSUME NEW s \in Runner, RunStep(s) \/ Crash(s)
        PROVE  OpenAlert(r)
    <3>1. s = r
      BY <1>a, <2>1
      DEF RunStep, SelectDue, LoadGroup, RefusePaused, EnsureNotRunning,
          RefuseOverlap, StartRun, CollectResults, OpenAlert, SendAlert,
          CommitRun, Crash, Becomes, At
    <3>2. ~Crash(r)
      BY <1>a DEF Crash, Becomes, NoSession
    <3>3. QED
      BY <2>1, <3>1, <3>2
      DEF RunStep, SelectDue, LoadGroup, MayLoad, RefusePaused,
          EnsureNotRunning, RefuseOverlap, StartRun, CollectResults,
          SendAlert, CommitRun, At
  <2>2. ASSUME NEW o \in Operator, LoadEdit(o) \/ CommitEdit(o)
        PROVE  FALSE
    BY <1>a, <2>2 DEF LoadEdit, CommitEdit, At, Session
  <2>3. ~Tick /\ ~UNCHANGED vars
    BY <1>a DEF Tick, vars, At, Session
  <2>4. QED
    BY <2>1, <2>2, <2>3 DEF Next
<1>3. quiet > Cooldown
  BY <1>a, <1>2 DEF OpenAlert, CooldownOver, Becomes, Session
<1>4. dead = {}
  BY <1>1, NobodyDead
<1>5. \A s \in Runner : ~Owes(s)
  BY <1>1 DEF Owes, At, InRun, Alerting, Exclusion, OneInRun
<1>6. quiet <= sinceAlert
  BY <1>4, <1>5 DEF Alerting, MailIsRecorded
<1>7. QED
  BY <1>a, <1>3, <1>6, CooldownAssumption

\* The cooldown of dispatch_group_notifications holds between mails that
\* left, not only between events that were committed, for any number of
\* sessions and deaths.
THEOREM AlertsAreSpaced == Spec => AlertsKeepCooldown
<1>1. Alerting /\ [Next]_vars => [Spaced]_vars
  BY OpensSpaced
<1>2. QED
  BY InitAlerting, NextAlerting, <1>1, PTL
  DEF Spec, AlertsKeepCooldown, Spaced
===============================================================================
