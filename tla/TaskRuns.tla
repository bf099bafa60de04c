------------------------------ MODULE TaskRuns ------------------------------
(***************************************************************************)
(* Runs of one watch task: ProductService.run_watch_task called by the     *)
(* worker's due loop, by "run once" and by the API's run-now endpoint,     *)
(* racing with update_watch_task, process deaths and the passing of time.  *)
(*                                                                         *)
(* Unlike a group, a task is read without a lock, and a ValueError other   *)
(* than store_disabled leaves the function, after the RUNNING row has been *)
(* committed.  The first flush of an outcome updates the task row, which   *)
(* PostgreSQL locks until the caller commits.                              *)
(***************************************************************************)
EXTENDS MonitorRow

CONSTANTS Worker,       \* scheduler processes running the due loop
          Caller,       \* API requests that run the task by hand
          Operator,     \* API requests that PATCH the task
          RunId,        \* ids a run may get; bounds the number of runs
          Cooldown,     \* cooldown_minutes of the task's rule
          NoOne         \* no session, no run

ASSUME CooldownAssumption == Cooldown \in Nat
ASSUME ActorAssumption ==
  /\ NoOne \notin RunId /\ NoOne \notin Worker \cup Caller
  /\ Worker \cap Caller = {}

Runner == Worker \cup Caller

VARIABLES
  row,          \* the committed watch_tasks row
  lock,         \* the session whose UPDATE of the row is not committed yet
  runs,         \* the committed task_runs rows, by id
  sess,         \* the sessions of the runners
  edit,         \* the sessions of the operators
  quiet,        \* age of the latest committed DeliveryEvent
  sinceAlert,   \* history: age of the event of the last mail that left
  dead          \* history: runs whose session died

vars == <<row, lock, runs, sess, edit, quiet, sinceAlert, dead>>

-----------------------------------------------------------------------------
(* States.                                                                 *)

RunStatus == {"absent", "running", "succeeded", "failed", "blocked"}
Outcome   == {"success", "blocked", "unexpected_runtime_error"}
Step      == {"idle", "queued", "loaded", "checked", "fetching", "fetched",
              "notify", "sending", "commit"}

Old      == Cooldown + 1        \* older than any cooldown, or no event
Ages     == 0 .. Old
Older(a) == Lesser(a + 1, Old)

Session ==
  [pc: Step, loaded: Object, run: RunId \cup {NoOne},
   outcome: Outcome \cup {"none"}, mail: {"none", "sent", "failed"},
   eventAge: Ages]

Edit == [open: BOOLEAN, loaded: Object, status: EditStatus]

NoSession ==
  [pc |-> "idle", loaded |-> Read(FreshRow), run |-> NoOne,
   outcome |-> "none", mail |-> "none", eventAge |-> Old]

NoEdit == [open |-> FALSE, loaded |-> Read(FreshRow), status |-> "keep"]

TypeOK ==
  /\ row \in Row
  /\ lock \in Runner \cup {NoOne}
  /\ runs \in [RunId -> RunStatus]
  /\ sess \in [Runner -> Session]
  /\ edit \in [Operator -> Edit]
  /\ quiet \in Ages
  /\ sinceAlert \in Ages
  /\ dead \subseteq RunId

At(r, pc) == sess[r].pc = pc
InRun(r)  == sess[r].pc \in {"fetching", "fetched", "notify", "sending",
                             "commit"}
NoneRunning == \A i \in RunId : runs[i] # "running"

Becomes(r, s) == sess' = [sess EXCEPT ![r] = s]

Init ==
  /\ row \in {FreshRow, FailedRow(1), FailedRow(2)}
  /\ lock = NoOne
  /\ runs = [i \in RunId |-> "absent"]
  /\ sess = [r \in Runner |-> NoSession]
  /\ edit = [o \in Operator |-> NoEdit]
  /\ quiet = Old
  /\ sinceAlert = Old
  /\ dead = {}

-----------------------------------------------------------------------------
(* A run.                                                                  *)

\* process_due_tasks lists the due tasks, then comes to this one.
SelectDue(r) ==
  /\ r \in Worker
  /\ At(r, "idle")
  /\ IsDue(row)
  /\ Becomes(r, [sess[r] EXCEPT !.pc = "queued"])
  /\ UNCHANGED <<row, lock, runs, edit, quiet, sinceAlert, dead>>

MayLoad(r) ==
  \/ r \in Worker /\ At(r, "queued")
  \/ r \in Caller /\ At(r, "idle")

\* A bug: paused tasks are run too.
LoadTaskPausedToo(r) ==
  /\ MayLoad(r)
  /\ Becomes(r, [sess[r] EXCEPT !.pc = "loaded", !.loaded = Read(row)])
  /\ UNCHANGED <<row, lock, runs, edit, quiet, sinceAlert, dead>>

\* session.get, and the task is not paused.
LoadTask(r) ==
  /\ MayLoad(r)
  /\ row.status # "paused"
  /\ Becomes(r, [sess[r] EXCEPT !.pc = "loaded", !.loaded = Read(row)])
  /\ UNCHANGED <<row, lock, runs, edit, quiet, sinceAlert, dead>>

\* watch_task_paused: the ValueError ends the worker's tick.
RefusePaused(r) ==
  /\ r \in Worker /\ At(r, "queued")
  /\ row.status = "paused"
  /\ Becomes(r, NoSession)
  /\ UNCHANGED <<row, lock, runs, edit, quiet, sinceAlert, dead>>

EnsureNotRunning(r) ==
  /\ At(r, "loaded")
  /\ NoneRunning
  /\ Becomes(r, [sess[r] EXCEPT !.pc = "checked"])
  /\ UNCHANGED <<row, lock, runs, edit, quiet, sinceAlert, dead>>

\* watch_task_already_running.
RefuseOverlap(r) ==
  /\ At(r, "loaded")
  /\ ~NoneRunning
  /\ Becomes(r, NoSession)
  /\ UNCHANGED <<row, lock, runs, edit, quiet, sinceAlert, dead>>

\* Insert the RUNNING row and commit.
StartRun(r) ==
  /\ At(r, "checked")
  /\ \E i \in RunId :
       /\ runs[i] = "absent"
       /\ runs' = [runs EXCEPT ![i] = "running"]
       /\ Becomes(r, [sess[r] EXCEPT !.pc = "fetching", !.run = i])
  /\ UNCHANGED <<row, lock, edit, quiet, sinceAlert, dead>>

\* The offer is there, or the store is disabled, the page blocked, or
\* something raised.
FetchOffer(r) ==
  /\ At(r, "fetching")
  /\ \E o \in Outcome :
       Becomes(r, [sess[r] EXCEPT !.pc = "fetched", !.outcome = o])
  /\ UNCHANGED <<row, lock, runs, edit, quiet, sinceAlert, dead>>

\* offer_not_parsed, or any ValueError of the body but store_disabled, is
\* raised again: the session is rolled back and nobody finishes the run.
RaiseAgain(r) ==
  /\ At(r, "fetching")
  /\ Becomes(r, NoSession)
  /\ UNCHANGED <<row, lock, runs, edit, quiet, sinceAlert, dead>>

\* A bug: the alert is sent before the outcome is flushed.
FlushOutcomeUnlocked(r) ==
  /\ At(r, "fetched")
  /\ lock = NoOne
  /\ \E hit \in BOOLEAN :
       /\ hit => sess[r].outcome = "success"
       /\ Becomes(r, [sess[r] EXCEPT
                        !.pc = IF hit THEN "notify" ELSE "commit"])
  /\ UNCHANGED <<row, lock, runs, edit, quiet, sinceAlert, dead>>

\* The outcome is applied and flushed; the UPDATE locks the row.  A success
\* may reach the threshold.
FlushOutcome(r) ==
  /\ At(r, "fetched")
  /\ lock = NoOne
  /\ lock' = r
  /\ \E hit \in BOOLEAN :
       /\ hit => sess[r].outcome = "success"
       /\ Becomes(r, [sess[r] EXCEPT
                        !.pc = IF hit THEN "notify" ELSE "commit"])
  /\ UNCHANGED <<row, runs, edit, quiet, sinceAlert, dead>>

CooldownOver == quiet > Cooldown

\* Outside the cooldown an event is added for the rule's recipient.
OpenAlert(r) ==
  /\ At(r, "notify")
  /\ IF CooldownOver
       THEN Becomes(r, [sess[r] EXCEPT !.pc = "sending", !.eventAge = 0])
       ELSE Becomes(r, [sess[r] EXCEPT !.pc = "commit"])
  /\ UNCHANGED <<row, lock, runs, edit, quiet, sinceAlert, dead>>

\* email_provider.send: the mail leaves, or the event is FAILED.
SendAlert(r) ==
  /\ At(r, "sending")
  /\ \E mail \in {"sent", "failed"} :
       /\ Becomes(r, [sess[r] EXCEPT !.pc = "commit", !.mail = mail])
       /\ sinceAlert' = IF mail = "sent" THEN sess[r].eventAge
                                        ELSE sinceAlert
  /\ UNCHANGED <<row, lock, runs, edit, quiet, dead>>

\* A bug: the failure kind is stored as the status.
StatusFromKind(outcome) == outcome

FinalStatus(outcome) ==
  CASE outcome = "success" -> "succeeded"
    [] outcome = "blocked" -> "blocked"
    [] OTHER               -> "failed"

Verdict(outcome, obj) ==
  IF outcome = "success" THEN ApplySuccess(obj) ELSE ApplyFailure(obj, outcome)

\* A failed delivery is a second flush, so its columns are always written.
Written(s) ==
  LET flushed == Flush(row, s.loaded, Verdict(s.outcome, s.loaded))
  IN  IF s.mail = "failed" THEN ApplyDeliveryFailure(flushed) ELSE flushed

\* The caller commits the run, the task and the event together.
CommitRun(r) ==
  /\ At(r, "commit")
  /\ row' = Written(sess[r])
  /\ runs' = [runs EXCEPT ![sess[r].run] = FinalStatus(sess[r].outcome)]
  /\ quiet' = IF sess[r].mail = "none" THEN quiet
                                       ELSE Lesser(quiet, sess[r].eventAge)
  /\ lock' = NoOne
  /\ Becomes(r, NoSession)
  /\ UNCHANGED <<edit, sinceAlert, dead>>

\* The session dies (its process is killed, or it loses the database): its
\* open transaction is rolled back, what it committed stays.
Crash(r) ==
  /\ ~At(r, "idle")
  /\ lock' = IF lock = r THEN NoOne ELSE lock
  /\ Becomes(r, NoSession)
  /\ dead' = IF InRun(r) THEN dead \cup {sess[r].run} ELSE dead
  /\ UNCHANGED <<row, runs, edit, quiet, sinceAlert>>

-----------------------------------------------------------------------------
(* PATCH /api/watch-tasks/{id}.                                            *)

LoadEdit(o) ==
  /\ ~edit[o].open
  /\ \E s \in EditStatus :
       edit' = [edit EXCEPT ![o] = [open |-> TRUE, loaded |-> Read(row),
                                    status |-> s]]
  /\ UNCHANGED <<row, lock, runs, sess, quiet, sinceAlert, dead>>

\* The UPDATE waits for the row's lock.
CommitEdit(o) ==
  /\ edit[o].open
  /\ lock = NoOne
  /\ row' = Flush(row, edit[o].loaded,
                  ApplyPatch(edit[o].loaded, edit[o].status))
  /\ edit' = [edit EXCEPT ![o] = NoEdit]
  /\ UNCHANGED <<lock, runs, sess, quiet, sinceAlert, dead>>

-----------------------------------------------------------------------------

Tick ==
  /\ row' = Aged(row)
  /\ quiet' = Older(quiet)
  /\ sinceAlert' = Older(sinceAlert)
  /\ sess' = [r \in Runner |-> [sess[r] EXCEPT !.eventAge = Older(@)]]
  /\ UNCHANGED <<lock, runs, edit, dead>>

RunStep(r) ==
  \/ SelectDue(r)     \/ LoadTask(r)   \/ RefusePaused(r)
  \/ EnsureNotRunning(r) \/ RefuseOverlap(r) \/ StartRun(r)
  \/ FetchOffer(r)    \/ RaiseAgain(r) \/ FlushOutcome(r)
  \/ OpenAlert(r)     \/ SendAlert(r)  \/ CommitRun(r)

Next ==
  \/ \E r \in Runner : RunStep(r) \/ Crash(r)
  \/ \E o \in Operator : LoadEdit(o) \/ CommitEdit(o)
  \/ Tick

Spec == Init /\ [][Next]_vars

\* A started request goes on: every await in it returns or raises.  Row
\* locks are granted in the order they are asked for, hence SF where a
\* step needs the lock.  Nobody has to start a run, and a crash may come.
Fairness ==
  \A r \in Runner :
    /\ WF_vars(EnsureNotRunning(r) \/ RefuseOverlap(r) \/ StartRun(r))
    /\ WF_vars(FetchOffer(r) \/ RaiseAgain(r))
    /\ SF_vars(FlushOutcome(r))
    /\ WF_vars(OpenAlert(r) \/ SendAlert(r) \/ CommitRun(r))

FairSpec == Spec /\ Fairness

-----------------------------------------------------------------------------
(* Properties.                                                             *)

\* What _ensure_watch_task_not_running is for, "watch_task_already_running":
\* a task never has two RUNNING runs.
AtMostOneRunning ==
  \A i, j \in RunId : runs[i] = "running" /\ runs[j] = "running" => i = j

\* The cooldown of dispatch_task_notifications survives overlapping runs,
\* because the flush of a success locks the row until its events are
\* committed: an alert is opened inside the cooldown of a mail that left
\* only if a session has died and took the event of that mail with it.
RepeatNeedsDeath ==
  [][\A r \in Runner :
       At(r, "notify") /\ sess'[r].pc = "sending" =>
         sinceAlert > Cooldown \/ \E i \in dead : runs[i] = "running"]_vars

\* A run that ends blocked or failed puts its task into the recovery inbox,
\* whatever other runs and PATCHes committed since it read the task: the
\* backoff it writes is always a new value.
FailureReachesInbox ==
  [][\A r \in Runner :
       At(r, "commit") /\ runs[sess[r].run] = "running"
         /\ runs'[sess[r].run] \in {"failed", "blocked"} => InInbox(row')]_vars

\* A blocked run takes its task off the schedule even if a concurrent run
\* succeeded or an operator resumed it meanwhile, unless it was already
\* waiting for an operator when the run read it.
BlockStopsAutomation ==
  [][\A r \in Runner :
       At(r, "commit") /\ runs[sess[r].run] = "running"
         /\ runs'[sess[r].run] = "blocked" =>
              row'.mir \/ sess[r].loaded.mir]_vars

\* An operator's pause that is committed while runs are in flight is undone
\* by a run only if it ends blocked or as the third failure, or if the task
\* was in error when the run read it; else only a PATCH resumes.
PauseLostOnlyToEscalation ==
  [][row.status = "paused" /\ row'.status # "paused" =>
       \/ \E o \in Operator : edit[o].open /\ edit[o].status # "keep"
                                /\ ~edit'[o].open
       \/ \E r \in Runner :
            /\ At(r, "commit") /\ sess'[r].pc = "idle"
            /\ row'.status = "error" \/ sess[r].loaded.status = "error"]_vars

\* A RUNNING run is finished by its session, unless the session dies.  The
\* code means to finish a run without an offer as FETCH_FAILED.
RunEndsOrDies ==
  \A i \in RunId : runs[i] = "running" ~> runs[i] # "running" \/ i \in dead
=============================================================================
