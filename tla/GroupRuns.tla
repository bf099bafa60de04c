----------------------------- MODULE GroupRuns ------------------------------
(***************************************************************************)
(* Runs of one watch group: ProductService.run_watch_group called by the   *)
(* worker's due loop and by the API's run-now endpoint, racing with        *)
(* update_watch_group, process deaths and the passing of time.             *)
(*                                                                         *)
(* A run reads the group FOR UPDATE, checks that no run is RUNNING,        *)
(* inserts its own RUNNING row and commits, which releases the lock.  It   *)
(* then fetches every member, updates the group, may send an alert, and    *)
(* its caller commits.  Groups share no state with one another.            *)
(***************************************************************************)
EXTENDS MonitorRow

CONSTANTS Worker,       \* scheduler processes running the due loop
          Caller,       \* API requests that run the group by hand
          Operator,     \* API requests that PATCH the group
          RunId,        \* ids a run may get; bounds the number of runs
          Cooldown,     \* cooldown_minutes
          NoOne         \* no session, no run

ASSUME CooldownAssumption == Cooldown \in Nat
ASSUME ActorAssumption ==
  /\ NoOne \notin RunId /\ NoOne \notin Worker \cup Caller
  /\ Worker \cap Caller = {}

Runner == Worker \cup Caller

VARIABLES
  row,          \* the committed watch_groups row
  lock,         \* the session that holds the row's lock
  runs,         \* the committed watch_group_runs rows, by id
  sess,         \* the sessions of the runners
  edit,         \* the sessions of the operators
  quiet,        \* age of the latest committed DeliveryEvent
  sinceAlert,   \* history: age of the event of the last mail that left
  streak,       \* history: runs that failed since the last success
  dead          \* history: runs whose process died

vars == <<row, lock, runs, sess, edit, quiet, sinceAlert, streak, dead>>

-----------------------------------------------------------------------------
(* States.                                                                 *)

RunStatus == {"absent", "running", "succeeded", "failed", "blocked"}
Outcome   == {"success", "fetch_failed", "blocked",
              "unexpected_runtime_error"}
Step      == {"idle", "queued", "locked", "checked", "fetching", "notify",
              "sending", "commit"}

Old      == Cooldown + 1        \* older than any cooldown, or no event
Ages     == 0 .. Old
Older(a) == Lesser(a + 1, Old)

Session ==
  [pc: Step, loaded: Object, run: RunId \cup {NoOne},
   outcome: Outcome \cup {"none"}, mail: {"none", "sent", "failed"},
   eventAge: Ages, patched: BOOLEAN]

Edit == [open: BOOLEAN, loaded: Object, status: EditStatus]

NoSession ==
  [pc |-> "idle", loaded |-> Read(FreshRow), run |-> NoOne,
   outcome |-> "none", mail |-> "none", eventAge |-> Old, patched |-> FALSE]

NoEdit == [open |-> FALSE, loaded |-> Read(FreshRow), status |-> "keep"]

TypeOK ==
  /\ row \in Row
  /\ lock \in Runner \cup {NoOne}
  /\ runs \in [RunId -> RunStatus]
  /\ sess \in [Runner -> Session]
  /\ edit \in [Operator -> Edit]
  /\ quiet \in Ages
  /\ sinceAlert \in Ages
  /\ streak \in Nat
  /\ dead \subseteq RunId

At(r, pc)  == sess[r].pc = pc
HasRow(r)  == sess[r].pc \notin {"idle", "queued"}
InRun(r)   == sess[r].pc \in {"fetching", "notify", "sending", "commit"}
NoneRunning == \A i \in RunId : runs[i] # "running"

Becomes(r, s) == sess' = [sess EXCEPT ![r] = s]

Init ==
  /\ row = FreshRow
  /\ lock = NoOne
  /\ runs = [i \in RunId |-> "absent"]
  /\ sess = [r \in Runner |-> NoSession]
  /\ edit = [o \in Operator |-> NoEdit]
  /\ quiet = Old
  /\ sinceAlert = Old
  /\ streak = 0
  /\ dead = {}

-----------------------------------------------------------------------------
(* A run.                                                                  *)

\* process_due_watch_groups lists the due groups, then comes to this one.
SelectDue(r) ==
  /\ r \in Worker
  /\ At(r, "idle")
  /\ IsDue(row)
  /\ Becomes(r, [sess[r] EXCEPT !.pc = "queued"])
  /\ UNCHANGED <<row, lock, runs, edit, quiet, sinceAlert, streak, dead>>

MayLoad(r) ==
  \/ r \in Worker /\ At(r, "queued")
  \/ r \in Caller /\ At(r, "idle")

\* A bug: SELECT without FOR UPDATE.
LoadUnlocked(r) ==
  /\ MayLoad(r)
  /\ row.status # "paused"
  /\ Becomes(r, [sess[r] EXCEPT !.pc = "locked", !.loaded = Read(row)])
  /\ UNCHANGED <<row, lock, runs, edit, quiet, sinceAlert, streak, dead>>

\* SELECT ... FOR UPDATE, and the group is not paused.
LoadGroup(r) ==
  /\ MayLoad(r)
  /\ lock = NoOne
  /\ row.status # "paused"
  /\ lock' = r
  /\ Becomes(r, [sess[r] EXCEPT !.pc = "locked", !.loaded = Read(row)])
  /\ UNCHANGED <<row, runs, edit, quiet, sinceAlert, streak, dead>>

\* watch_group_paused: the ValueError ends the worker's tick.
RefusePaused(r) ==
  /\ r \in Worker /\ At(r, "queued")
  /\ lock = NoOne
  /\ row.status = "paused"
  /\ Becomes(r, NoSession)
  /\ UNCHANGED <<row, lock, runs, edit, quiet, sinceAlert, streak, dead>>

\* A bug: any RUNNING row is taken for a leftover.
IgnoreRunning(r) ==
  /\ At(r, "locked")
  /\ Becomes(r, [sess[r] EXCEPT !.pc = "checked"])
  /\ UNCHANGED <<row, lock, runs, edit, quiet, sinceAlert, streak, dead>>

EnsureNotRunning(r) ==
  /\ At(r, "locked")
  /\ NoneRunning
  /\ Becomes(r, [sess[r] EXCEPT !.pc = "checked"])
  /\ UNCHANGED <<row, lock, runs, edit, quiet, sinceAlert, streak, dead>>

Released(r) == IF lock = r THEN NoOne ELSE lock

\* watch_group_already_running: the transaction is rolled back.
RefuseOverlap(r) ==
  /\ At(r, "locked")
  /\ ~NoneRunning
  /\ lock' = Released(r)
  /\ Becomes(r, NoSession)
  /\ UNCHANGED <<row, runs, edit, quiet, sinceAlert, streak, dead>>

\* Insert the RUNNING row and commit.
StartRun(r) ==
  /\ At(r, "checked")
  /\ \E i \in RunId :
       /\ runs[i] = "absent"
       /\ runs' = [runs EXCEPT ![i] = "running"]
       /\ Becomes(r, [sess[r] EXCEPT !.pc = "fetching", !.run = i])
  /\ lock' = Released(r)
  /\ UNCHANGED <<row, edit, quiet, sinceAlert, streak, dead>>

\* A bug: an exception may leave the function, as it does for a task.
CollectOrRaise(r) ==
  /\ At(r, "fetching")
  /\ Becomes(r, NoSession)
  /\ UNCHANGED <<row, lock, runs, edit, quiet, sinceAlert, streak, dead>>

\* Every member has been fetched.  A success may reach the threshold; an
\* exception on the way is an outcome too.
CollectResults(r) ==
  /\ At(r, "fetching")
  /\ \E o \in Outcome, hit \in BOOLEAN :
       /\ hit => o = "success"
       /\ Becomes(r, [sess[r] EXCEPT
                        !.outcome = o,
                        !.pc = IF hit THEN "notify" ELSE "commit"])
  /\ UNCHANGED <<row, lock, runs, edit, quiet, sinceAlert, streak, dead>>

CooldownOver == quiet > Cooldown

\* The SELECT of the latest event flushes the group first, which locks the
\* row; outside the cooldown an event is added.
OpenAlert(r) ==
  /\ At(r, "notify")
  /\ lock = NoOne
  /\ lock' = r
  /\ IF CooldownOver
       THEN Becomes(r, [sess[r] EXCEPT !.pc = "sending", !.eventAge = 0])
       ELSE Becomes(r, [sess[r] EXCEPT !.pc = "commit"])
  /\ UNCHANGED <<row, runs, edit, quiet, sinceAlert, streak, dead>>

\* email_provider.send: the mail leaves, or the event is FAILED.
SendAlert(r) ==
  /\ At(r, "sending")
  /\ \E mail \in {"sent", "failed"} :
       /\ Becomes(r, [sess[r] EXCEPT !.pc = "commit", !.mail = mail])
       /\ sinceAlert' = IF mail = "sent" THEN sess[r].eventAge
                                        ELSE sinceAlert
  /\ UNCHANGED <<row, lock, runs, edit, quiet, streak, dead>>

\* A bug: the failure kind is stored as the status.
StatusFromKind(outcome) == outcome

FinalStatus(outcome) ==
  CASE outcome = "success" -> "succeeded"
    [] outcome = "blocked" -> "blocked"
    [] OTHER               -> "failed"

\* What the run's outcome makes of a group object.
Verdict(outcome, obj) ==
  IF outcome = "success" THEN ApplySuccess(obj) ELSE ApplyFailure(obj, outcome)

\* A failed delivery is a second flush, so its columns are always written.
Written(s) ==
  LET flushed == Flush(row, s.loaded, Verdict(s.outcome, s.loaded))
  IN  IF s.mail = "failed" THEN ApplyDeliveryFailure(flushed) ELSE flushed

\* A bug: the event is stamped, but never added to the session.
QuietForgotten(s) == quiet

QuietAfter(s) == IF s.mail = "none" THEN quiet
                                    ELSE Lesser(quiet, s.eventAge)

\* The caller commits the run, the group and the event together.
CommitRun(r) ==
  /\ At(r, "commit")
  /\ lock \in {NoOne, r}
  /\ row' = Written(sess[r])
  /\ runs' = [runs EXCEPT ![sess[r].run] = FinalStatus(sess[r].outcome)]
  /\ quiet' = QuietAfter(sess[r])
  /\ streak' = IF sess[r].outcome = "success" THEN 0 ELSE streak + 1
  /\ lock' = NoOne
  /\ Becomes(r, NoSession)
  /\ UNCHANGED <<edit, sinceAlert, dead>>

\* The session dies (its process is killed, or it loses the database): its
\* open transaction is rolled back, what it committed stays.
Crash(r) ==
  /\ ~At(r, "idle")
  /\ lock' = Released(r)
  /\ Becomes(r, NoSession)
  /\ dead' = IF InRun(r) THEN dead \cup {sess[r].run} ELSE dead
  /\ UNCHANGED <<row, runs, edit, quiet, sinceAlert, streak>>

-----------------------------------------------------------------------------
(* PATCH /api/watch-groups/{id}.                                           *)

LoadEdit(o) ==
  /\ ~edit[o].open
  /\ \E s \in EditStatus :
       edit' = [edit EXCEPT ![o] = [open |-> TRUE, loaded |-> Read(row),
                                    status |-> s]]
  /\ UNCHANGED <<row, lock, runs, sess, quiet, sinceAlert, streak, dead>>

\* The UPDATE waits for the row's lock.
CommitEdit(o) ==
  /\ edit[o].open
  /\ lock = NoOne
  /\ row' = Flush(row, edit[o].loaded,
                  ApplyPatch(edit[o].loaded, edit[o].status))
  /\ edit' = [edit EXCEPT ![o] = NoEdit]
  /\ sess' = [r \in Runner |-> [sess[r] EXCEPT !.patched = @ \/ HasRow(r)]]
  /\ UNCHANGED <<lock, runs, quiet, sinceAlert, streak, dead>>

-----------------------------------------------------------------------------

Tick ==
  /\ row' = Aged(row)
  /\ quiet' = Older(quiet)
  /\ sinceAlert' = Older(sinceAlert)
  /\ sess' = [r \in Runner |-> [sess[r] EXCEPT !.eventAge = Older(@)]]
  /\ UNCHANGED <<lock, runs, edit, streak, dead>>

RunStep(r) ==
  \/ SelectDue(r)     \/ LoadGroup(r)  \/ RefusePaused(r)
  \/ EnsureNotRunning(r) \/ RefuseOverlap(r) \/ StartRun(r)
  \/ CollectResults(r) \/ OpenAlert(r) \/ SendAlert(r) \/ CommitRun(r)

Next ==
  \/ \E r \in Runner : RunStep(r) \/ Crash(r)
  \/ \E o \in Operator : LoadEdit(o) \/ CommitEdit(o)
  \/ Tick

Spec == Init /\ [][Next]_vars

\* A started request goes on: every await in it returns or raises.  Row
\* locks are granted in the order they are asked for, hence SF where a
\* step needs the lock.  Nobody has to start a run, and a crash may come.
Fairness ==
  \A r \in Runner :
    /\ WF_vars(EnsureNotRunning(r) \/ RefuseOverlap(r) \/ StartRun(r))
    /\ WF_vars(CollectResults(r) \/ SendAlert(r))
    /\ SF_vars(OpenAlert(r))
    /\ SF_vars(CommitRun(r))

FairSpec == Spec /\ Fairness

-----------------------------------------------------------------------------
(* Properties.                                                             *)

\* The overlap guard of run_watch_group: whatever the sessions do, and
\* whichever of them die, a group never has two RUNNING runs.
AtMostOneRunning ==
  \A i, j \in RunId : runs[i] = "running" /\ runs[j] = "running" => i = j

\* Every failed run of the group is counted once in consecutive_failures,
\* and a success resets it: no increment is lost to a concurrent session,
\* although each session adds one to the value it read before its fetches.
FailureCountExact == row.failures = streak

\* A run decides on the group as it is: between the locked read and the
\* commit no other run writes the group, so unless a PATCH was committed in
\* between, the object read is still the row.
VerdictOnCurrentRow ==
  \A r \in Runner :
    InRun(r) /\ ~sess[r].patched => sess[r].loaded = Read(row)

\* The cooldown of dispatch_group_notifications: an alert is opened only if
\* the last mail that really left is older than the cooldown, even when the
\* session that sent it died before it could store its DeliveryEvent.
AlertsKeepCooldown ==
  [][\A r \in Runner :
       At(r, "notify") /\ sess'[r].pc = "sending" =>
         sinceAlert > Cooldown]_vars

\* A RUNNING run is finished by its session, whatever its fetches, the
\* threshold or the mail do, unless the process dies first.
RunEndsOrDies ==
  \A i \in RunId : runs[i] = "running" ~> runs[i] # "running" \/ i \in dead

\* What a group promises: its runs are a sequence, each one counted once.
Sequential == INSTANCE SequentialMonitor WITH failures <- row.failures
RunsAreSequential == Sequential!Spec
=============================================================================
