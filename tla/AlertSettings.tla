------------------------------ MODULE AlertSettings ------------------------------
(***************************************************************************)
(* The owner's notification settings: a preference row, and a copy of it in *)
(* the rule of every task.  Saving the settings rewrites the rules its      *)
(* session has loaded, a new task brings a rule of its own, a PATCH changes *)
(* one rule, and the settings page shows the rule that changed last.        *)
(***************************************************************************)
EXTENDS Integers

CONSTANTS
    Tasks,       \* the tasks that may be created
    Cooldowns,   \* cooldowns an operator may ask for
    MaxMails     \* bound on the alerts sent

ASSUME SettingsAssumption == MaxMails \in Nat /\ Cooldowns # {} /\ Cooldowns \subseteq Nat

VARIABLES
    pref,      \* the preference row: the policy saved last
    rules,     \* the rule of each task, or NoRule
    newest,    \* the task whose rule was changed last, if any
    save,      \* the session that saves settings
    patch,     \* the session that PATCHes a task
    covered,   \* history: the tasks the last saving has reached
    mails      \* alerts sent

settingsVars == <<pref, rules, newest, save, patch, covered, mails>>

Policy == [cooldown : Cooldowns, on : BOOLEAN]
NoRule == [cooldown |-> -1, on |-> FALSE]
NoSession == [at |-> "idle"]
Snapshot == [Tasks -> Policy \cup {NoRule}]
Saving == [at : {"loaded", "flushed"}, asked : Policy, seen : Snapshot, page : Policy,
           met : BOOLEAN]
Patching == [at : {"loaded"}, task : Tasks, asked : Cooldowns, seen : Policy]

SettingsTypeOK ==
    /\ pref \in Policy
    /\ rules \in Snapshot
    /\ newest \subseteq Tasks
    /\ save \in Saving \cup {NoSession}
    /\ patch \in Patching \cup {NoSession}
    /\ covered \subseteq Tasks
    /\ mails \in 0 .. MaxMails
    /\ \A t, u \in newest : t = u

\* bootstrap_owner has inserted the owner and the preference.
SettingsInit ==
    /\ pref = [cooldown |-> CHOOSE c \in Cooldowns : TRUE, on |-> TRUE]
    /\ rules = [t \in Tasks |-> NoRule]
    /\ newest = {}
    /\ save = NoSession /\ patch = NoSession
    /\ covered = {} /\ mails = 0

HasRule(t) == rules[t] # NoRule

\* One of the rules that a flush changes gets the latest updated_at.
Touched(ts) == IF ts = {} THEN {newest} ELSE {{t} : t \in ts}

\* The saving under way has not loaded what is changed now.
Overtaken == IF save.at = "idle" THEN save ELSE [save EXCEPT !.met = TRUE]

\* The rule of a new task is enabled whatever the preference says.
CreateTask(t, c) ==
    /\ ~HasRule(t)
    /\ rules' = [rules EXCEPT ![t] = [cooldown |-> c, on |-> TRUE]]
    /\ newest' = {t}
    /\ save' = Overtaken
    /\ UNCHANGED <<pref, patch, covered, mails>>

LoadRules(asked) ==
    /\ save.at = "idle"
    /\ save' = [at |-> "loaded", asked |-> asked, seen |-> rules, page |-> asked, met |-> FALSE]
    /\ UNCHANGED <<pref, rules, newest, patch, covered, mails>>

\* The rules of the tasks that were there.
Reached(s) == {t \in Tasks : s.seen[t] # NoRule}

\* Of a column the session writes only what differs from what it has read.
Merged(now, seen, asked) ==
    [f \in DOMAIN now |-> IF seen[f] = asked[f] THEN now[f] ELSE asked[f]]

Changed(s) == {t \in Reached(s) : s.seen[t] # s.asked}

\* get_notification_settings: the rule changed last, or the preference.
Page(rs, last, p) == IF last = {} THEN p ELSE rs[CHOOSE t \in last : TRUE]

\* Mutant: only the rules that are still enabled are loaded.
SaveEnabledOnly ==
    /\ save.at = "loaded"
    /\ rules' = [t \in Tasks |->
                    IF t \in Reached(save) /\ save.seen[t].on
                    THEN Merged(rules[t], save.seen[t], save.asked) ELSE rules[t]]
    /\ newest' \in Touched(Changed(save))
    /\ pref' = save.asked
    /\ covered' = Reached(save)
    /\ save' = [save EXCEPT !.at = "flushed", !.page = Page(rules', newest', pref')]
    /\ UNCHANGED <<patch, mails>>

\* The flush, the select of the answer, and the commit: other sessions' rows
\* that were committed before the select are part of the answer.
SaveSettings ==
    /\ save.at = "loaded"
    /\ rules' = [t \in Tasks |->
                    IF t \in Reached(save) THEN Merged(rules[t], save.seen[t], save.asked)
                    ELSE rules[t]]
    /\ newest' \in Touched(Changed(save))
    /\ pref' = save.asked
    /\ covered' = Reached(save)
    /\ save' = [save EXCEPT !.at = "flushed", !.page = Page(rules', newest', pref')]
    /\ UNCHANGED <<patch, mails>>

EndSave ==
    /\ save.at = "flushed"
    /\ save' = NoSession
    /\ UNCHANGED <<pref, rules, newest, patch, covered, mails>>

LoseSave ==
    /\ save.at = "loaded"
    /\ save' = NoSession
    /\ UNCHANGED <<pref, rules, newest, patch, covered, mails>>

LoadPatch(t, c) ==
    /\ patch.at = "idle" /\ HasRule(t)
    /\ patch' = [at |-> "loaded", task |-> t, asked |-> c, seen |-> rules[t]]
    /\ UNCHANGED <<pref, rules, newest, save, covered, mails>>

CommitPatch ==
    /\ patch.at = "loaded"
    /\ LET asked == [patch.seen EXCEPT !.cooldown = patch.asked] IN
        /\ rules' = [rules EXCEPT ![patch.task] = Merged(@, patch.seen, asked)]
        /\ newest' = IF asked = patch.seen THEN newest ELSE {patch.task}
    /\ patch' = NoSession
    /\ save' = Overtaken
    /\ UNCHANGED <<pref, covered, mails>>

\* A run whose threshold is met sends to the rules that are enabled.
SendMail(t) ==
    /\ mails < MaxMails
    /\ HasRule(t) /\ rules[t].on
    /\ mails' = mails + 1
    /\ UNCHANGED <<pref, rules, newest, save, patch, covered>>

SettingsNext ==
    \/ \E t \in Tasks : SendMail(t) \/ \E c \in Cooldowns : CreateTask(t, c) \/ LoadPatch(t, c)
    \/ \E p \in Policy : LoadRules(p)
    \/ SaveSettings \/ EndSave \/ LoseSave \/ CommitPatch

SettingsSpec == SettingsInit /\ [][SettingsNext]_settingsVars

\* The switch of a rule the last saving has reached is the preference's:
\* nothing that overlaps with it or comes later, a PATCH of the same rule
\* least of all, turns alerts on or off again.
PolicyReachesRules == \A t \in covered : rules[t].on = pref.on

\* The answer to a saving shows the policy that was asked for, unless a task
\* was created or its cooldown PATCHed while it was under way.
AnswerIsAsked ==
    save.at = "flushed" => save.page = save.asked \/ save.met

\* A saving reaches the rules it should, and its answer says what it did.
SavingIsTrue == PolicyReachesRules /\ AnswerIsAsked
=================================================================================
