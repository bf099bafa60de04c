---------------------------- MODULE TaskRunsProofs ----------------------------
(***************************************************************************)
(* What holds of a task although its runs may overlap, for any number of   *)
(* workers, callers, operators and runs: its types, its alerts, and what   *)
(* the commit of a run may do to the row.                                  *)
(*                                                                         *)
(* Nothing keeps two sessions from running the task together, so none of   *)
(* the invariants of GroupRuns holds here.  What is left is the lock that  *)
(* the first flush of an outcome takes: from there to the commit a session *)
(* is alone, and that is where alerts are sent.                            *)
(***************************************************************************)
EXTENDS TaskRuns, MonitorRowProofs

-----------------------------------------------------------------------------
(* Lemmas about the row.                                                   *)

\* What a run's outcome makes of the object it read.
LEMMA VerdictType ==
  ASSUME NEW loaded \in Object, NEW o \in Outcome
  PROVE  /\ Verdict(o, loaded) \in Assigned
         /\ Verdict(o, loaded).backoff # Held
<1>1. CASE o = "success"
  BY <1>1, SuccessType DEF Verdict
<1>2. CASE o # "success"
  <2>1. o \in Kind
    BY <1>2 DEF Outcome, Kind
  <2>2. QED
    BY <1>2, <2>1, FailureType DEF Verdict, Held
<1>3. QED
  BY <1>1, <1>2

\* The row a session leaves behind.
LEMMA WrittenType ==
  ASSUME row \in Row, NEW s \in Session, s.outcome # "none"
  PROVE  Written(s) \in Row
<1>1. s.loaded \in Object /\ s.outcome \in Outcome
  BY DEF Session
<1>2. Flush(row, s.loaded, Verdict(s.outcome, s.loaded)) \in Row
  BY <1>1, VerdictType, FlushType
<1>3. QED
  BY <1>2, DeliveryFailureType DEF Written

\* A failed run leaves a backoff, whatever its session had read: the time it
\* writes differs from every time that was read.
LEMMA FailureLeavesBackoff ==
  ASSUME NEW s \in Session, s.outcome \in {"blocked", "unexpected_runtime_error"}
  PROVE  InInbox(Written(s))
<1> DEFINE v == Verdict(s.outcome, s.loaded)
           f == Flush(row, s.loaded, v)
<1>1. s.loaded \in Object /\ s.outcome \in Kind
  BY DEF Session, Kind
<1>2. v.backoff \in Nat
  BY <1>1, FailureType DEF Verdict
<1>3. v.backoff # s.loaded.backoff
  BY <1>1, <1>2 DEF Object, RowWith, NoTime, Held
<1>4. f.backoff = v.backoff
  BY <1>3 DEF Flush
<1>5. ApplyDeliveryFailure(f).backoff = f.backoff
  BY DEF ApplyDeliveryFailure, Flush
<1>6. Written(s).backoff = v.backoff
  BY <1>4, <1>5 DEF Written
<1>7. QED
  BY <1>2, <1>6 DEF InInbox, NoTime

\* A blocked run sets manual_intervention_required, or had read it set.
LEMMA BlockLeavesMir ==
  ASSUME NEW s \in Session, s.outcome = "blocked"
  PROVE  Written(s).mir \/ s.loaded.mir
<1> DEFINE v == Verdict(s.outcome, s.loaded)
           f == Flush(row, s.loaded, v)
<1>1. v.mir = TRUE
  BY DEF Verdict, ApplyFailure
<1>2. f.mir = TRUE \/ s.loaded.mir = TRUE
  BY <1>1 DEF Flush, Session, Object, RowWith
<1>3. ApplyDeliveryFailure(f).mir = f.mir
  BY DEF ApplyDeliveryFailure, Flush
<1>4. QED
  BY <1>2, <1>3 DEF Written

\* A run takes a pause away only by escalating, or by ending an error that
\* it had read.
LEMMA PauseLostByRun ==
  ASSUME NEW s \in Session, s.outcome # "none", s.loaded.status # "paused",
         row.status = "paused", Written(s).status # "paused"
  PROVE  Written(s).status = "error" \/ s.loaded.status = "error"
<1> DEFINE v == Verdict(s.outcome, s.loaded)
           f == Flush(row, s.loaded, v)
<1>1. v.status \in {"active", "error"}
  BY DEF Verdict, ApplySuccess, ApplyFailure
<1>2. f.status = IF v.status # s.loaded.status THEN v.status ELSE row.status
  BY DEF Flush
<1>3. ApplyDeliveryFailure(f).status = f.status
  BY DEF ApplyDeliveryFailure, Flush
<1>4. Written(s).status = f.status
  BY <1>3 DEF Written
<1>5. s.loaded.status \in Status
  BY DEF Session, Object, RowWith
<1>6. QED
  BY <1>1, <1>2, <1>4, <1>5 DEF Status

\* A PATCH without a status leaves the status alone.
LEMMA KeepKeepsStatus ==
  ASSUME NEW x \in Row, NEW loaded \in Object
  PROVE  Flush(x, loaded, ApplyPatch(loaded, "keep")).status = x.status
BY DEF Flush, ApplyPatch, Object, RowWith

\* An age stays an age, and ages keep their order as time passes.
LEMMA OlderType ==
  ASSUME NEW a \in Ages
  PROVE  Older(a) \in Ages /\ \A b \in Ages : a <= b => Older(a) <= Older(b)
BY CooldownAssumption DEF Ages, Older, Old, Lesser

-----------------------------------------------------------------------------
(* The inductive invariant.                                                *)

Flushed(r) == sess[r].pc \in {"notify", "sending", "commit"}

\* A session in a run has the run, and an outcome once it has fetched.
Decided ==
  \A r \in Runner :
    /\ Flushed(r) \/ At(r, "fetched") => sess[r].outcome # "none"
    /\ InRun(r) => sess[r].run # NoOne

\* No session goes on with a task that was paused when it read it.
ReadUnpaused ==
  \A r \in Runner :
    ~At(r, "idle") /\ ~At(r, "queued") => sess[r].loaded.status # "paused"

\* From the flush of its outcome to the commit a session holds the row.
FlushHoldsLock == \A r \in Runner : Flushed(r) => lock = r

\* A live session's run is RUNNING, and is nobody else's.
RunIsRunning == \A r \in Runner : InRun(r) => runs[sess[r].run] = "running"
RunIsOwn ==
  \A r, s \in Runner :
    InRun(r) /\ InRun(s) /\ sess[r].run = sess[s].run => r = s

\* A run whose session died stays RUNNING, and is no live session's.
DeadStayRunning ==
  /\ \A i \in dead : runs[i] = "running"
  /\ \A r \in Runner : InRun(r) => sess[r].run \notin dead

\* r is about to commit the event of a mail that has left.
Owes(r) ==
  At(r, "commit") /\ sess[r].mail = "sent" /\ sess[r].eventAge <= sinceAlert

\* The last mail is as old as the last event, or its event is still to come,
\* or is lost with a dead session.
MailIsRecorded ==
  \/ quiet <= sinceAlert
  \/ dead # {}
  \/ \E r \in Runner : Owes(r)

TypeInv == TypeOK /\ Decided
RunInv  == TypeInv /\ ReadUnpaused /\ FlushHoldsLock /\ RunIsRunning /\ RunIsOwn
TaskInv == RunInv /\ DeadStayRunning /\ MailIsRecorded

\* An idle session and an edit that is not open are typed.
LEMMA IdleType == NoSession \in Session /\ NoEdit \in Edit /\ NoSession.pc = "idle"
<1>1. Read(FreshRow) \in Object
  BY NewRowType, ReadType
<1>2. Old \in Ages
  BY CooldownAssumption DEF Ages, Old
<1>3. NoSession \in Session
  BY <1>1, <1>2 DEF NoSession, Session, Step
<1>4. NoEdit \in Edit
  BY <1>1 DEF NoEdit, Edit, EditStatus
<1>5. QED
  BY <1>3, <1>4 DEF NoSession

\* Initially nobody runs the task and no mail has left.
LEMMA InitTask == Init => TaskInv
<1> SUFFICES ASSUME Init PROVE TaskInv
  OBVIOUS
<1>1. row \in Row
  <2>1. 1 \in Nat /\ 2 \in Nat
    OBVIOUS
  <2>2. QED
    BY <2>1, NewRowType DEF Init
<1>2. Old \in Ages
  BY CooldownAssumption DEF Ages, Old
<1>3. TypeOK
  BY <1>1, <1>2, IdleType DEF Init, TypeOK, RunStatus
<1>4. \A r \in Runner : sess[r].pc = "idle"
  BY IdleType DEF Init
<1>5. /\ Decided /\ ReadUnpaused /\ FlushHoldsLock /\ RunIsRunning /\ RunIsOwn
      /\ DeadStayRunning
  BY <1>4 DEF Init, Decided, ReadUnpaused, FlushHoldsLock, RunIsRunning,
              RunIsOwn, DeadStayRunning, Flushed, At, InRun
<1>6. MailIsRecorded
  BY CooldownAssumption DEF Init, MailIsRecorded, Old
<1>7. QED
  BY <1>3, <1>5, <1>6 DEF TaskInv, RunInv, TypeInv

-----------------------------------------------------------------------------
(* Steps of one session.                                                   *)

\* A session that leaves the runs alone may become any session, if it keeps
\* what RunInv asks of it.
LEMMA SessionStep ==
  ASSUME RunInv, NEW r \in Runner, NEW s \in Session, Becomes(r, s),
         runs' = runs, row' \in Row, edit' = edit, quiet' \in Ages,
         sinceAlert' \in Ages, dead' \subseteq RunId,
         \/ lock' = lock
         \/ lock = NoOne /\ lock' = r
         \/ lock = r /\ lock' = NoOne,
         s.pc \in {"notify", "sending", "commit"} => lock' = r,
         s.pc \in {"fetched", "notify", "sending", "commit"} =>
           s.outcome # "none",
         s.pc \notin {"idle", "queued"} => s.loaded.status # "paused",
         s.pc \in {"fetching", "fetched", "notify", "sending", "commit"} =>
           InRun(r) /\ s.run = sess[r].run
  PROVE  RunInv'
<1> USE DEF RunInv, TypeInv
<1>a. /\ sess \in [Runner -> Session] /\ r # NoOne
      /\ sess' = [sess EXCEPT ![r] = s]
  BY ActorAssumption DEF TypeOK, Becomes, Runner
<1>b. sess'[r] = s /\ \A q \in Runner \ {r} : sess'[q] = sess[q]
  BY <1>a
<1>1. TypeOK'
  BY <1>a DEF TypeOK
<1>2. Decided'
  BY <1>b DEF Decided, Flushed, At, InRun
<1>3. ReadUnpaused'
  BY <1>b DEF ReadUnpaused, At
<1>4. FlushHoldsLock'
  BY <1>a, <1>b, ActorAssumption DEF FlushHoldsLock, Flushed, Runner
<1>5. RunIsRunning'
  BY <1>b DEF RunIsRunning, InRun
<1>6. RunIsOwn'
  BY <1>b DEF RunIsOwn, InRun
<1>7. QED
  BY <1>1, <1>2, <1>3, <1>4, <1>5, <1>6

\* Every step keeps the types, the flush lock and the ownership of the runs.
LEMMA NextRun == RunInv /\ [Next]_vars => RunInv'
<1> SUFFICES ASSUME RunInv, [Next]_vars
             PROVE  RunInv'
  OBVIOUS
<1> USE DEF RunInv, TypeInv, TypeOK
<1>a. \A r \in Runner : sess[r] \in Session
  OBVIOUS
<1>b. \A r \in Runner : Flushed(r) => lock = r /\ sess[r].outcome # "none" /\ InRun(r)
  BY DEF FlushHoldsLock, Decided, Flushed, InRun
<1>1. ASSUME NEW r \in Runner, SelectDue(r)
      PROVE  RunInv'
  <2>1. [sess[r] EXCEPT !.pc = "queued"] \in Session
    BY <1>a DEF Session, Step
  <2>2. QED
    BY <1>1, <2>1, SessionStep DEF SelectDue, Session
<1>2. ASSUME NEW r \in Runner, LoadTask(r)
      PROVE  RunInv'
  <2> DEFINE s == [sess[r] EXCEPT !.pc = "loaded", !.loaded = Read(row)]
  <2>1. s \in Session
    BY <1>a, ReadType DEF Session, Step
  <2>2. s.pc = "loaded" /\ s.loaded.status = row.status
    BY <1>a DEF Session, Read, Row, RowWith
  <2>3. QED
    BY <1>2, <2>1, <2>2, SessionStep DEF LoadTask
<1>3. ASSUME NEW r \in Runner, RefusePaused(r) \/ RefuseOverlap(r) \/ RaiseAgain(r)
      PROVE  RunInv'
  BY <1>3, IdleType, SessionStep DEF RefusePaused, RefuseOverlap, RaiseAgain
<1>4. ASSUME NEW r \in Runner, EnsureNotRunning(r)
      PROVE  RunInv'
  <2> DEFINE s == [sess[r] EXCEPT !.pc = "checked"]
  <2>1. s \in Session /\ s.pc = "checked" /\ s.loaded = sess[r].loaded
    BY <1>a DEF Session, Step
  <2>2. QED
    BY <1>4, <2>1, SessionStep DEF EnsureNotRunning, ReadUnpaused, At
<1>5. ASSUME NEW r \in Runner, StartRun(r)
      PROVE  RunInv'
  <2>1. PICK i \in RunId :
          /\ runs[i] = "absent"
          /\ runs' = [runs EXCEPT ![i] = "running"]
          /\ Becomes(r, [sess[r] EXCEPT !.pc = "fetching", !.run = i])
    BY <1>5 DEF StartRun
  <2>2. /\ sess'[r].pc = "fetching" /\ sess'[r].run = i
        /\ sess'[r].loaded = sess[r].loaded
        /\ sess'[r] \in Session
        /\ \A q \in Runner \ {r} : sess'[q] = sess[q]
        /\ sess' \in [Runner -> Session]
    BY <1>a, <2>1, ZenonT(60) DEF Becomes, Session, Step
  <2>3. \A q \in Runner : InRun(q) => sess[q].run \in RunId /\ sess[q].run # i
    BY <1>a, <2>1 DEF RunIsRunning, Decided, Session
  <2>4. TypeOK'
    BY <1>5, <2>1, <2>2 DEF StartRun, RunStatus
  <2>5. Decided' /\ ReadUnpaused' /\ FlushHoldsLock'
    BY <1>5, <2>2, ActorAssumption
    DEF StartRun, Decided, ReadUnpaused, FlushHoldsLock, Flushed, At, InRun
  <2>6. RunIsRunning'
    BY <2>1, <2>2, <2>3 DEF RunIsRunning, InRun
  <2>7. RunIsOwn'
    BY <2>2, <2>3 DEF RunIsOwn, InRun
  <2>8. QED
    BY <2>4, <2>5, <2>6, <2>7
<1>6. ASSUME NEW r \in Runner, FetchOffer(r)
      PROVE  RunInv'
  <2>1. PICK o \in Outcome :
          Becomes(r, [sess[r] EXCEPT !.pc = "fetched", !.outcome = o])
    BY <1>6 DEF FetchOffer
  <2> DEFINE s == [sess[r] EXCEPT !.pc = "fetched", !.outcome = o]
  <2>2. /\ s \in Session /\ s.pc = "fetched" /\ s.outcome # "none"
        /\ s.run = sess[r].run /\ s.loaded = sess[r].loaded
    BY <1>a DEF Session, Step, Outcome
  <2>3. QED
    BY <1>6, <2>1, <2>2, SessionStep DEF FetchOffer, ReadUnpaused, At, InRun
<1>7. ASSUME NEW r \in Runner, FlushOutcome(r)
      PROVE  RunInv'
  <2>1. PICK x \in {"notify", "commit"} : Becomes(r, [sess[r] EXCEPT !.pc = x])
    BY <1>7 DEF FlushOutcome
  <2> DEFINE s == [sess[r] EXCEPT !.pc = x]
  <2>2. /\ s \in Session /\ s.pc = x /\ s.outcome = sess[r].outcome
        /\ s.run = sess[r].run /\ s.loaded = sess[r].loaded
    BY <1>a DEF Session, Step
  <2>3. sess[r].outcome # "none" /\ InRun(r) /\ sess[r].loaded.status # "paused"
    BY <1>7 DEF FlushOutcome, Decided, ReadUnpaused, At, InRun
  <2>4. lock = NoOne /\ lock' = r
    BY <1>7 DEF FlushOutcome
  <2>5. QED
    BY <1>7, <2>1, <2>2, <2>3, <2>4, SessionStep DEF FlushOutcome
<1>8. ASSUME NEW r \in Runner, OpenAlert(r)
      PROVE  RunInv'
  <2>1. 0 \in Ages
    BY CooldownAssumption DEF Ages, Old
  <2>2. PICK s \in {[sess[r] EXCEPT !.pc = "sending", !.eventAge = 0],
                    [sess[r] EXCEPT !.pc = "commit"]} : Becomes(r, s)
    BY <1>8 DEF OpenAlert
  <2>3. /\ s \in Session /\ s.pc \in {"sending", "commit"}
        /\ s.outcome = sess[r].outcome
        /\ s.run = sess[r].run /\ s.loaded = sess[r].loaded
    BY <1>a, <2>1 DEF Session, Step
  <2>4. lock = r /\ InRun(r) /\ sess[r].outcome # "none"
        /\ sess[r].loaded.status # "paused"
    BY <1>8, <1>b DEF OpenAlert, Flushed, ReadUnpaused, At
  <2>5. QED
    BY <1>8, <2>2, <2>3, <2>4, SessionStep DEF OpenAlert
<1>9. ASSUME NEW r \in Runner, SendAlert(r)
      PROVE  RunInv'
  <2>1. PICK mail \in {"sent", "failed"} :
          Becomes(r, [sess[r] EXCEPT !.pc = "commit", !.mail = mail])
    BY <1>9 DEF SendAlert
  <2> DEFINE s == [sess[r] EXCEPT !.pc = "commit", !.mail = mail]
  <2>2. /\ s \in Session /\ s.pc = "commit" /\ s.outcome = sess[r].outcome
        /\ s.run = sess[r].run /\ s.loaded = sess[r].loaded
    BY <1>a DEF Session, Step
  <2>3. lock = r /\ InRun(r) /\ sess[r].outcome # "none"
        /\ sess[r].loaded.status # "paused"
    BY <1>9, <1>b DEF SendAlert, Flushed, ReadUnpaused, At
  <2>4. sinceAlert' \in Ages
    BY <1>a, <1>9 DEF SendAlert, Session
  <2>5. QED
    BY <1>9, <2>1, <2>2, <2>3, <2>4, SessionStep DEF SendAlert
<1>10. ASSUME NEW r \in Runner, CommitRun(r)
       PROVE  RunInv'
  <2>1. Flushed(r) /\ lock = r /\ InRun(r) /\ sess[r].outcome # "none"
    BY <1>10, <1>b DEF CommitRun, Flushed, At
  <2>2. row' \in Row
    BY <1>a, <1>10, <2>1, WrittenType DEF CommitRun
  <2>3. FinalStatus(sess[r].outcome) \in RunStatus
    BY DEF FinalStatus, RunStatus
  <2>4. quiet' \in Ages
    BY <1>a, <1>10, CooldownAssumption DEF CommitRun, Lesser, Session, Ages, Old
  <2>5. /\ sess' \in [Runner -> Session] /\ sess'[r] = NoSession
        /\ \A q \in Runner \ {r} : sess'[q] = sess[q] /\ ~Flushed(q)
    BY <1>a, <1>b, <1>10, <2>1, IdleType DEF CommitRun, Becomes
  <2>6. TypeOK'
    BY <1>10, <2>2, <2>3, <2>4, <2>5 DEF CommitRun
  <2>7. Decided' /\ ReadUnpaused' /\ FlushHoldsLock'
    BY <2>5, IdleType DEF Decided, ReadUnpaused, FlushHoldsLock, Flushed, At, InRun
  <2>8. \A q \in Runner \ {r} : InRun(q) => sess[q].run # sess[r].run
    BY <2>1 DEF RunIsOwn
  <2>9. RunIsRunning'
    BY <1>10, <2>5, <2>8, IdleType DEF CommitRun, RunIsRunning, InRun
  <2>10. RunIsOwn'
    BY <2>5, IdleType DEF RunIsOwn, InRun
  <2>11. QED
    BY <2>6, <2>7, <2>9, <2>10
<1>11. ASSUME NEW r \in Runner, Crash(r)
       PROVE  RunInv'
  <2>1. dead' \subseteq RunId
    BY <1>a, <1>11 DEF Crash, Session, Decided
  <2>2. QED
    BY <1>11, <2>1, IdleType, SessionStep DEF Crash
<1>12. ASSUME /\ runs' = runs /\ lock' = lock /\ TypeOK'
              /\ \A q \in Runner : /\ sess'[q].pc = sess[q].pc
                                   /\ sess'[q].run = sess[q].run
                                   /\ sess'[q].outcome = sess[q].outcome
                                   /\ sess'[q].loaded = sess[q].loaded
       PROVE  RunInv'
  BY <1>12 DEF Decided, ReadUnpaused, FlushHoldsLock, RunIsRunning, RunIsOwn,
               Flushed, At, InRun
<1>13. ASSUME NEW o \in Operator, LoadEdit(o)
       PROVE  RunInv'
  <2>1. TypeOK'
    BY <1>13, ReadType DEF LoadEdit, Edit
  <2>2. QED
    BY <1>12, <1>13, <2>1 DEF LoadEdit
<1>14. ASSUME NEW o \in Operator, CommitEdit(o)
       PROVE  RunInv'
  <2>1. edit[o].loaded \in Object /\ edit[o].status \in EditStatus
    BY DEF Edit
  <2>2. row' \in Row
    BY <1>14, <2>1, PatchType, FlushType DEF CommitEdit
  <2>3. TypeOK'
    BY <1>14, <2>2, IdleType DEF CommitEdit
  <2>4. QED
    BY <1>12, <1>14, <2>3 DEF CommitEdit
<1>15. CASE Tick
  <2>1. row' \in Row /\ quiet' \in Ages /\ sinceAlert' \in Ages
    BY <1>15, AgedType, OlderType DEF Tick
  <2>2. \A r \in Runner : Older(sess[r].eventAge) \in Ages
    BY OlderType DEF Session
  <2>3. TypeOK'
    BY <1>15, <2>1, <2>2, ZenonT(60) DEF Tick, Session
  <2>4. QED
    BY <1>a, <1>12, <1>15, <2>3 DEF Tick, Session
<1>16. CASE UNCHANGED vars
  BY <1>12, <1>16 DEF vars
<1>17. QED
  BY <1>1, <1>2, <1>3, <1>4, <1>5, <1>6, <1>7, <1>8, <1>9, <1>10, <1>11,
     <1>13, <1>14, <1>15, <1>16
  DEF Next, RunStep

\* Type correctness: every reachable state of a task, its runs and the
\* sessions on it has the declared types; in particular no write stores a
\* time that was only read, however many runs overlap.
THEOREM TaskTypeCorrect == Spec => []TypeOK
<1>1. RunInv => TypeOK
  BY DEF RunInv, TypeInv
<1>2. Init => RunInv
  BY InitTask DEF TaskInv
<1>3. QED
  BY <1>2, NextRun, <1>1, PTL DEF Spec

-----------------------------------------------------------------------------
(* Alerts.  A mail whose event is not committed was sent by a session that *)
(* holds the row, or died; nobody opens an alert while another holds it.   *)

\* Whose step a step of a session is, and what it leaves alone.
LEMMA OthersStay ==
  ASSUME RunInv, NEW r \in Runner, RunStep(r) \/ Crash(r)
  PROVE  \A q \in Runner \ {r} : sess'[q] = sess[q]
BY DEF RunInv, TypeInv, TypeOK, RunStep, SelectDue, LoadTask, RefusePaused,
       EnsureNotRunning, RefuseOverlap, StartRun, FetchOffer, RaiseAgain,
       FlushOutcome, OpenAlert, SendAlert, CommitRun, Crash, Becomes

\* A session that holds the row owes no other session's event.
LEMMA OwesAlone ==
  ASSUME RunInv, NEW r \in Runner, Flushed(r)
  PROVE  \A q \in Runner \ {r} : ~Owes(q)
BY ActorAssumption DEF RunInv, FlushHoldsLock, Owes, Flushed, At

\* Outside its mail, its commit and its death in a run, a step of r that
\* inserts no run keeps the record of deaths and mails.
LEMMA PlainStep ==
  ASSUME TaskInv, NEW r \in Runner,
         runs' = runs, dead' = dead, quiet' = quiet, sinceAlert' = sinceAlert,
         \A q \in Runner \ {r} : sess'[q] = sess[q],
         ~At(r, "commit"),
         InRun(r)' => InRun(r) /\ sess'[r].run = sess[r].run
  PROVE  DeadStayRunning' /\ MailIsRecorded'
<1>1. DeadStayRunning'
  BY DEF TaskInv, DeadStayRunning, InRun
<1>2. MailIsRecorded'
  BY DEF TaskInv, MailIsRecorded, Owes, At
<1>3. QED
  BY <1>1, <1>2

\* Every step keeps the record of deaths and mails.
LEMMA NextTask == TaskInv /\ [Next]_vars => TaskInv'
<1> SUFFICES ASSUME TaskInv, [Next]_vars
             PROVE  TaskInv'
  OBVIOUS
<1>a. RunInv /\ RunInv'
  BY NextRun DEF TaskInv
<1>b. /\ sess \in [Runner -> Session] /\ runs \in [RunId -> RunStatus]
      /\ quiet \in Ages /\ sinceAlert \in Ages /\ Ages \subseteq Int
      /\ dead \subseteq RunId /\ NoSession.pc = "idle"
  BY <1>a, CooldownAssumption
  DEF RunInv, TypeInv, TypeOK, NoSession, Ages, Old
<1> SUFFICES DeadStayRunning' /\ MailIsRecorded'
  BY <1>a DEF TaskInv
<1>1. ASSUME NEW r \in Runner,
             SelectDue(r) \/ LoadTask(r) \/ RefusePaused(r)
               \/ EnsureNotRunning(r) \/ RefuseOverlap(r) \/ RaiseAgain(r)
      PROVE  DeadStayRunning' /\ MailIsRecorded'
  <2>1. /\ runs' = runs /\ dead' = dead
        /\ quiet' = quiet /\ sinceAlert' = sinceAlert
        /\ ~At(r, "commit")
    BY <1>1 DEF SelectDue, LoadTask, RefusePaused, EnsureNotRunning,
                RefuseOverlap, RaiseAgain, MayLoad, At
  <2>2. \A q \in Runner \ {r} : sess'[q] = sess[q]
    BY <1>a, <1>1, OthersStay DEF RunStep
  <2>3. ~InRun(r)'
    BY <1>b, <1>1, ZenonT(60)
    DEF SelectDue, LoadTask, RefusePaused, EnsureNotRunning, RefuseOverlap,
        RaiseAgain, Becomes, InRun, Session
  <2>4. QED
    BY <2>1, <2>2, <2>3, PlainStep
<1>2. ASSUME NEW r \in Runner, StartRun(r)
      PROVE  DeadStayRunning' /\ MailIsRecorded'
  <2>1. PICK i \in RunId :
          /\ runs[i] = "absent"
          /\ runs' = [runs EXCEPT ![i] = "running"]
          /\ Becomes(r, [sess[r] EXCEPT !.pc = "fetching", !.run = i])
    BY <1>2 DEF StartRun
  <2>2. sess'[r].run = i /\ sess'[r].pc = "fetching" /\ ~At(r, "commit")
    BY <1>b, <1>2, <2>1 DEF StartRun, Becomes, Session, At
  <2>3. \A q \in Runner \ {r} : sess'[q] = sess[q]
    BY <1>a, <1>2, OthersStay DEF RunStep
  <2>4. i \notin dead
    BY <2>1 DEF TaskInv, DeadStayRunning
  <2>5. DeadStayRunning'
    BY <1>b, <1>2, <2>1, <2>2, <2>3, <2>4
    DEF StartRun, TaskInv, DeadStayRunning, InRun
  <2>6. MailIsRecorded'
    BY <1>2, <2>2, <2>3 DEF StartRun, TaskInv, MailIsRecorded, Owes, At
  <2>7. QED
    BY <2>5, <2>6
<1>3. ASSUME NEW r \in Runner, FetchOffer(r) \/ FlushOutcome(r) \/ OpenAlert(r)
      PROVE  DeadStayRunning' /\ MailIsRecorded'
  <2>1. /\ runs' = runs /\ dead' = dead
        /\ quiet' = quiet /\ sinceAlert' = sinceAlert
        /\ ~At(r, "commit") /\ InRun(r)
    BY <1>3 DEF FetchOffer, FlushOutcome, OpenAlert, At, InRun
  <2>2. \A q \in Runner \ {r} : sess'[q] = sess[q]
    BY <1>a, <1>3, OthersStay DEF RunStep
  <2>3. sess'[r].run = sess[r].run
    <3>1. CASE FetchOffer(r)
      BY <1>b, <3>1 DEF FetchOffer, Becomes, Session
    <3>2. CASE FlushOutcome(r)
      BY <1>b, <3>2 DEF FlushOutcome, Becomes, Session
    <3>3. CASE OpenAlert(r)
      BY <1>b, <3>3 DEF OpenAlert, Becomes, Session
    <3>4. QED
      BY <1>3, <3>1, <3>2, <3>3
  <2>4. QED
    BY <2>1, <2>2, <2>3, PlainStep
<1>4. ASSUME NEW r \in Runner, SendAlert(r)
      PROVE  DeadStayRunning' /\ MailIsRecorded'
  <2>1. PICK mail \in {"sent", "failed"} :
          /\ Becomes(r, [sess[r] EXCEPT !.pc = "commit", !.mail = mail])
          /\ sinceAlert' = IF mail = "sent" THEN sess[r].eventAge
                                            ELSE sinceAlert
    BY <1>4 DEF SendAlert
  <2>2. /\ \A q \in Runner \ {r} : sess'[q] = sess[q]
        /\ sess'[r].run = sess[r].run /\ sess'[r].pc = "commit"
        /\ sess'[r].mail = mail /\ sess'[r].eventAge = sess[r].eventAge
        /\ sess[r].eventAge \in Int
    BY <1>b, <2>1 DEF Becomes, Session
  <2>3. /\ InRun(r) /\ Flushed(r) /\ ~At(r, "commit")
        /\ runs' = runs /\ dead' = dead /\ quiet' = quiet
    BY <1>4 DEF SendAlert, At, InRun, Flushed
  <2>4. DeadStayRunning'
    BY <2>2, <2>3 DEF TaskInv, DeadStayRunning, InRun
  <2>5. CASE mail = "sent"
    <3>1. Owes(r)'
      BY <2>1, <2>2, <2>5 DEF Owes, At
    <3>2. QED
      BY <2>4, <3>1 DEF MailIsRecorded
  <2>6. CASE mail = "failed"
    <3>1. \A q \in Runner : ~Owes(q)
      BY <1>a, <2>3, OwesAlone DEF Owes
    <3>2. QED
      BY <2>1, <2>3, <2>4, <2>6, <3>1 DEF TaskInv, MailIsRecorded
  <2>7. QED
    BY <2>5, <2>6
<1>5. ASSUME NEW r \in Runner, CommitRun(r)
      PROVE  DeadStayRunning' /\ MailIsRecorded'
  <2>1. /\ Flushed(r) /\ InRun(r) /\ sess[r].eventAge \in Int
        /\ dead' = dead /\ sinceAlert' = sinceAlert
        /\ sess[r].run \in RunId
    BY <1>a, <1>b, <1>5
    DEF CommitRun, Flushed, InRun, At, RunInv, TypeInv, Decided, Session
  <2>2. \A q \in Runner \ {r} : ~Owes(q) /\ sess'[q] = sess[q]
    BY <1>a, <1>5, <2>1, OwesAlone, OthersStay DEF RunStep
  <2>3. sess[r].run \notin dead /\ ~InRun(r)'
    BY <1>b, <1>5, <2>1 DEF TaskInv, DeadStayRunning, CommitRun, Becomes, InRun
  <2>4. DeadStayRunning'
    BY <1>b, <1>5, <2>1, <2>2, <2>3
    DEF CommitRun, TaskInv, DeadStayRunning, InRun
  <2>5. CASE dead # {}
    BY <2>1, <2>4, <2>5 DEF MailIsRecorded
  <2>6. CASE Owes(r)
    <3>1. quiet' <= sinceAlert'
      BY <1>b, <1>5, <2>1, <2>6 DEF Owes, CommitRun, Lesser
    <3>2. QED
      BY <2>4, <3>1 DEF MailIsRecorded
  <2>7. CASE quiet <= sinceAlert
    <3>1. quiet' <= sinceAlert'
      BY <1>b, <1>5, <2>1, <2>7 DEF CommitRun, Lesser
    <3>2. QED
      BY <2>4, <3>1 DEF MailIsRecorded
  <2>8. QED
    BY <2>2, <2>5, <2>6, <2>7 DEF TaskInv, MailIsRecorded
<1>6. ASSUME NEW r \in Runner, Crash(r)
      PROVE  DeadStayRunning' /\ MailIsRecorded'
  <2>1. /\ runs' = runs /\ quiet' = quiet /\ sinceAlert' = sinceAlert
        /\ ~InRun(r)'
    BY <1>b, <1>6 DEF Crash, Becomes, InRun
  <2>2. \A q \in Runner \ {r} : sess'[q] = sess[q]
    BY <1>a, <1>6, OthersStay
  <2>3. CASE InRun(r)
    <3>1. dead' = dead \cup {sess[r].run}
      BY <1>6, <2>3 DEF Crash
    <3>2. runs[sess[r].run] = "running"
      BY <1>a, <2>3 DEF RunInv, RunIsRunning
    <3>3. \A q \in Runner \ {r} : InRun(q) => sess[q].run # sess[r].run
      BY <1>a, <2>3 DEF RunInv, RunIsOwn
    <3>4. DeadStayRunning'
      BY <2>1, <2>2, <3>1, <3>2, <3>3 DEF TaskInv, DeadStayRunning, InRun
    <3>5. MailIsRecorded'
      BY <3>1 DEF MailIsRecorded
    <3>6. QED
      BY <3>4, <3>5
  <2>4. CASE ~InRun(r)
    BY <1>6, <2>1, <2>2, <2>4, PlainStep DEF Crash, InRun, At
  <2>5. QED
    BY <2>3, <2>4
<1>7. ASSUME /\ runs' = runs /\ dead' = dead
             /\ quiet' = quiet /\ sinceAlert' = sinceAlert /\ sess' = sess
      PROVE  DeadStayRunning' /\ MailIsRecorded'
  BY <1>7 DEF TaskInv, DeadStayRunning, MailIsRecorded, Owes, At, InRun
<1>8. ASSUME NEW o \in Operator, LoadEdit(o) \/ CommitEdit(o)
      PROVE  DeadStayRunning' /\ MailIsRecorded'
  BY <1>7, <1>8 DEF LoadEdit, CommitEdit
<1>9. CASE Tick
  <2>1. /\ runs' = runs /\ dead' = dead
        /\ quiet' = Older(quiet) /\ sinceAlert' = Older(sinceAlert)
    BY <1>9 DEF Tick
  <2>2. \A q \in Runner : /\ sess'[q].pc = sess[q].pc
                          /\ sess'[q].run = sess[q].run
                          /\ sess'[q].mail = sess[q].mail
                          /\ sess'[q].eventAge = Older(sess[q].eventAge)
                          /\ sess[q].eventAge \in Ages
    BY <1>b, <1>9 DEF Tick, Session
  <2>3. DeadStayRunning'
    BY <2>1, <2>2 DEF TaskInv, DeadStayRunning, InRun
  <2>4. \A q \in Runner : Owes(q) => Owes(q)'
    BY <1>b, <2>1, <2>2, OlderType DEF Owes, At
  <2>5. quiet <= sinceAlert => quiet' <= sinceAlert'
    BY <1>b, <2>1, OlderType
  <2>6. QED
    BY <2>1, <2>3, <2>4, <2>5 DEF TaskInv, MailIsRecorded
<1>10. CASE UNCHANGED vars
  BY <1>7, <1>10 DEF vars
<1>11. QED
  BY <1>1, <1>2, <1>3, <1>4, <1>5, <1>6, <1>8, <1>9, <1>10 DEF Next, RunStep

\* The task's invariant holds in every reachable state.
LEMMA TaskInvariant == Spec => []TaskInv
BY InitTask, NextTask, PTL DEF Spec

\* A session at a step of its path that only its own action leaves.
LEMMA OwnStep ==
  ASSUME RunInv, [Next]_vars, NEW r \in Runner, sess'[r].pc # sess[r].pc
  PROVE  RunStep(r) \/ Crash(r)
<1>a. sess \in [Runner -> Session]
  BY DEF RunInv, TypeInv, TypeOK
<1>1. ASSUME NEW q \in Runner, RunStep(q) \/ Crash(q)
      PROVE  q = r
  BY <1>1, OthersStay
<1>2. ~(Tick \/ UNCHANGED vars)
  BY <1>a DEF Tick, vars, Session
<1>3. ~\E o \in Operator : LoadEdit(o) \/ CommitEdit(o)
  BY DEF LoadEdit, CommitEdit
<1>4. QED
  BY <1>1, <1>2, <1>3 DEF Next

\* One step: a session comes to send only outside the cooldown of the last
\* mail that left, unless a session has died in its run.
RepeatStep ==
  \A r \in Runner :
    At(r, "notify") /\ sess'[r].pc = "sending" =>
      sinceAlert > Cooldown \/ \E i \in dead : runs[i] = "running"

\* An alert is opened by a session that holds the row.
LEMMA OpensInTurn == TaskInv /\ [Next]_vars => RepeatStep
<1> SUFFICES ASSUME TaskInv, [Next]_vars, NEW r \in Runner,
                    At(r, "notify"), sess'[r].pc = "sending", dead = {}
             PROVE  sinceAlert > Cooldown
  BY DEF RepeatStep, TaskInv, DeadStayRunning
<1>a. /\ RunInv /\ sess \in [Runner -> Session]
      /\ quiet \in Int /\ sinceAlert \in Int
  BY CooldownAssumption DEF TaskInv, RunInv, TypeInv, TypeOK, Ages, Old
<1>1. RunStep(r) \/ Crash(r)
  BY <1>a, OwnStep DEF At
<1>2. OpenAlert(r)
  BY <1>a, <1>1
  DEF RunStep, SelectDue, LoadTask, MayLoad, RefusePaused, EnsureNotRunning,
      RefuseOverlap, StartRun, FetchOffer, RaiseAgain, FlushOutcome, SendAlert,
      CommitRun, Crash, Becomes, NoSession, At
<1>3. quiet > Cooldown
  BY <1>a, <1>2 DEF OpenAlert, CooldownOver, Becomes, Session
<1>4. \A q \in Runner : ~Owes(q)
  BY <1>a, OwesAlone DEF Flushed, Owes, At
<1>5. quiet <= sinceAlert
  BY <1>4 DEF TaskInv, MailIsRecorded
<1>6. QED
  BY <1>a, <1>3, <1>5, CooldownAssumption

\* The cooldown of dispatch_task_notifications survives overlapping runs:
\* only the death of a session can repeat an alert, for any number of
\* sessions and runs.
THEOREM RepeatsNeedDeath == Spec => RepeatNeedsDeath
<1>1. TaskInv /\ [Next]_vars => [RepeatStep]_vars
  BY OpensInTurn
<1>2. QED
  BY TaskInvariant, <1>1, PTL DEF Spec, RepeatNeedsDeath, RepeatStep

-----------------------------------------------------------------------------
(* Commits.                                                                *)

\* A run that ends is ended by its own session's commit.
LEMMA EndsByCommit ==
  ASSUME RunInv, [Next]_vars, NEW r \in Runner, At(r, "commit"),
         runs'[sess[r].run] # "running"
  PROVE  CommitRun(r) /\ runs'[sess[r].run] = FinalStatus(sess[r].outcome)
<1>a. /\ sess[r] \in Session /\ runs \in [RunId -> RunStatus] /\ InRun(r)
      /\ sess[r].run \in RunId /\ runs[sess[r].run] = "running"
  BY SMTT(30) DEF RunInv, TypeInv, TypeOK, Decided, RunIsRunning, InRun, At, Session
<1>1. runs' # runs
  BY <1>a, Zenon
<1>2. PICK q \in Runner : StartRun(q) \/ CommitRun(q)
  BY <1>1
  DEF Next, RunStep, SelectDue, LoadTask, RefusePaused, EnsureNotRunning,
      RefuseOverlap, FetchOffer, RaiseAgain, FlushOutcome, OpenAlert,
      SendAlert, Crash, LoadEdit, CommitEdit, Tick, vars
<1>3. ~StartRun(q)
  BY <1>a DEF StartRun
<1>4. CommitRun(q)
  BY <1>2, <1>3
<1>5. InRun(q) /\ sess[q].run = sess[r].run
  BY <1>a, <1>4 DEF CommitRun, At, InRun
<1>6. q = r
  BY <1>a, <1>5 DEF RunInv, RunIsOwn
<1>7. QED
  BY <1>a, <1>4, <1>6 DEF CommitRun

\* One step: a failed or blocked run puts the task into the inbox.
FailureStep ==
  \A r \in Runner :
    At(r, "commit") /\ runs[sess[r].run] = "running"
      /\ runs'[sess[r].run] \in {"failed", "blocked"} => InInbox(row')

\* One step: a blocked run takes the task off the schedule.
BlockedStep ==
  \A r \in Runner :
    At(r, "commit") /\ runs[sess[r].run] = "running"
      /\ runs'[sess[r].run] = "blocked" => row'.mir \/ sess[r].loaded.mir

\* What a commit does to the row follows from what the session had read.
LEMMA CommitsTell == TaskInv /\ [Next]_vars => FailureStep /\ BlockedStep
<1> SUFFICES ASSUME TaskInv, [Next]_vars, NEW r \in Runner, At(r, "commit"),
                    runs'[sess[r].run] \in {"failed", "blocked"}
             PROVE  /\ InInbox(row')
                    /\ runs'[sess[r].run] = "blocked" =>
                         row'.mir \/ sess[r].loaded.mir
  BY DEF FailureStep, BlockedStep
<1>1. RunInv
  BY DEF TaskInv
<1>2. CommitRun(r) /\ runs'[sess[r].run] = FinalStatus(sess[r].outcome)
  BY <1>1, EndsByCommit
<1>3. row' = Written(sess[r])
  BY <1>2 DEF CommitRun
<1>4. sess[r] \in Session /\ sess[r].outcome \in Outcome
  BY <1>1 DEF RunInv, TypeInv, TypeOK, Decided, Flushed, At, Session
<1>5. /\ sess[r].outcome # "success"
      /\ runs'[sess[r].run] = "blocked" => sess[r].outcome = "blocked"
  BY <1>2 DEF FinalStatus
<1>6. InInbox(row')
  BY <1>3, <1>4, <1>5, FailureLeavesBackoff DEF Outcome
<1>7. runs'[sess[r].run] = "blocked" => row'.mir \/ sess[r].loaded.mir
  BY <1>3, <1>4, <1>5, BlockLeavesMir
<1>8. QED
  BY <1>6, <1>7

\* A run that ends blocked or failed leaves its task in the recovery inbox,
\* whatever other runs and PATCHes committed since it read the task.
THEOREM FailuresReachInbox == Spec => FailureReachesInbox
<1>1. TaskInv /\ [Next]_vars => [FailureStep]_vars
  BY CommitsTell
<1>2. QED
  BY TaskInvariant, <1>1, PTL DEF Spec, FailureReachesInbox, FailureStep

\* A blocked run takes its task off the schedule, unless the task was
\* waiting for an operator already when the run read it.
THEOREM BlocksStopAutomation == Spec => BlockStopsAutomation
<1>1. TaskInv /\ [Next]_vars => [BlockedStep]_vars
  BY CommitsTell
<1>2. QED
  BY TaskInvariant, <1>1, PTL DEF Spec, BlockStopsAutomation, BlockedStep

\* One step: who may take a pause away.
PauseStep ==
  row.status = "paused" /\ row'.status # "paused" =>
    \/ \E o \in Operator : edit[o].open /\ edit[o].status # "keep"
                             /\ ~edit'[o].open
    \/ \E r \in Runner :
         /\ At(r, "commit") /\ sess'[r].pc = "idle"
         /\ row'.status = "error" \/ sess[r].loaded.status = "error"

\* The row is written by a commit, by a PATCH, and by time, which leaves the
\* status alone.
LEMMA PausesAreKept == TaskInv /\ [Next]_vars => PauseStep
<1> SUFFICES ASSUME TaskInv, [Next]_vars, row.status = "paused",
                    row'.status # "paused"
             PROVE  \/ \E o \in Operator :
                         edit[o].open /\ edit[o].status # "keep"
                           /\ ~edit'[o].open
                    \/ \E r \in Runner :
                         /\ At(r, "commit") /\ sess'[r].pc = "idle"
                         /\ \/ row'.status = "error"
                            \/ sess[r].loaded.status = "error"
  BY DEF PauseStep
<1>a. /\ RunInv /\ row \in Row /\ sess \in [Runner -> Session]
      /\ edit \in [Operator -> Edit]
  BY DEF TaskInv, RunInv, TypeInv, TypeOK
<1>1. ~Tick
  BY <1>a DEF Tick, Aged, Row, RowWith
<1>2. \/ \E r \in Runner : CommitRun(r)
      \/ \E o \in Operator : CommitEdit(o)
  BY <1>1
  DEF Next, RunStep, SelectDue, LoadTask, RefusePaused, EnsureNotRunning,
      RefuseOverlap, StartRun, FetchOffer, RaiseAgain, FlushOutcome, OpenAlert,
      SendAlert, Crash, LoadEdit, vars
<1>3. ASSUME NEW r \in Runner, CommitRun(r)
      PROVE  /\ At(r, "commit") /\ sess'[r].pc = "idle"
             /\ row'.status = "error" \/ sess[r].loaded.status = "error"
  <2>1. /\ sess[r] \in Session /\ sess[r].outcome # "none"
        /\ sess[r].loaded.status # "paused"
    BY <1>a, <1>3 DEF RunInv, TypeInv, Decided, ReadUnpaused, CommitRun,
                      Flushed, At
  <2>2. row' = Written(sess[r])
    BY <1>3 DEF CommitRun
  <2>3. row'.status = "error" \/ sess[r].loaded.status = "error"
    BY <2>1, <2>2, PauseLostByRun
  <2>4. At(r, "commit") /\ sess'[r].pc = "idle"
    BY <1>a, <1>3 DEF CommitRun, Becomes, NoSession
  <2>5. QED
    BY <2>3, <2>4
<1>4. ASSUME NEW o \in Operator, CommitEdit(o)
      PROVE  edit[o].open /\ edit[o].status # "keep" /\ ~edit'[o].open
  <2>1. edit[o].loaded \in Object
    BY <1>a DEF Edit
  <2>2. edit[o].status # "keep"
    BY <1>a, <1>4, <2>1, KeepKeepsStatus DEF CommitEdit
  <2>3. QED
    BY <1>a, <1>4, <2>2 DEF CommitEdit, NoEdit
<1>5. QED
  BY <1>2, <1>3, <1>4

\* An operator's pause is undone by a run only if the run escalates, or if
\* the task was in error when it was read; else only a PATCH resumes.
THEOREM PausesAreLostToEscalation == Spec => PauseLostOnlyToEscalation
<1>1. TaskInv /\ [Next]_vars => [PauseStep]_vars
  BY PausesAreKept
<1>2. QED
  BY TaskInvariant, <1>1, PTL DEF Spec, PauseLostOnlyToEscalation, PauseStep

===============================================================================
