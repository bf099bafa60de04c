------------------------------- MODULE Deliveries -------------------------------
(***************************************************************************)
(* The row of one alert mail, DeliveryEvent, from the dispatch that sends   *)
(* it inside a run's transaction to Postmark's callbacks about it. These    *)
(* may come before the run's commit, together, in any order, and twice (two *)
(* members of Callbacks of one kind); the ORM updates the columns a session *)
(* has changed from what it read; FastAPI runs the commit of get_db_session *)
(* after the response is sent.                                              *)
(***************************************************************************)
EXTENDS Naturals

CONSTANTS
    Callbacks,    \* the callbacks Postmark may make about the mail
    Bounces,      \* those with RecordType "Bounce"; the others say "Delivery"
    Answers       \* what the provider may do: "accepted", "refused"

ASSUME CallbacksAssumption ==
    Bounces \subseteq Callbacks /\ Answers \subseteq {"accepted", "refused"}

VARIABLES
    dispatch,   \* where the run's session is with the mail
    mail,       \* what Postmark has been given: "none", "accepted" or "refused"
    event,      \* the committed row, or NoEvent
    draft,      \* the row inside the run's transaction, or NoEvent
    call,       \* where each callback is
    heard,       \* the status each callback's session has read
    acked       \* the callbacks Postmark has had a 200 for

deliveryVars == <<dispatch, mail, event, draft, call, heard, acked>>

NoEvent == [status |-> "none", stamps |-> {}, payload |-> "none"]
CallbackKinds == {"delivered", "bounced"}
Reports == CallbackKinds \cup {"send", "error"}
Events == [status : {"none", "queued", "sent", "failed"} \cup CallbackKinds,
           stamps : SUBSET CallbackKinds, payload : Reports \cup {"none"}]

KindOf(c) == IF c \in Bounces THEN "bounced" ELSE "delivered"

DeliveryTypeOK ==
    /\ dispatch \in {"none", "open", "answered", "committed", "lost"}
    /\ mail \in {"none", "accepted", "refused"}
    /\ event \in Events /\ draft \in Events
    /\ call \in [Callbacks -> {"due", "found", "acked", "done"}]
    /\ heard \in [Callbacks -> {"none", "sent"} \cup CallbackKinds]
    /\ acked \subseteq Callbacks

DeliveryInit ==
    /\ dispatch = "none" /\ mail = "none"
    /\ event = NoEvent /\ draft = NoEvent
    /\ call = [c \in Callbacks |-> "due"]
    /\ heard = [c \in Callbacks |-> "none"]
    /\ acked = {}

OpenEvent ==
    /\ dispatch = "none"
    /\ dispatch' = "open"
    /\ draft' = [NoEvent EXCEPT !.status = "queued"]
    /\ UNCHANGED <<mail, event, call, heard, acked>>

\* raise_for_status, a timeout, or no token: the event is kept as failed. The
\* answer of an accepted mail may also be lost.
SendDelivery ==
    /\ dispatch = "open"
    /\ dispatch' = "answered"
    /\ mail' \in Answers
    /\ \/ mail' = "accepted" /\ draft' = [draft EXCEPT !.status = "sent", !.payload = "send"]
       \/ draft' = [draft EXCEPT !.status = "failed", !.payload = "error"]
    /\ UNCHANGED <<event, call, heard, acked>>

CommitDispatch ==
    /\ dispatch = "answered"
    /\ dispatch' = "committed"
    /\ event' = draft
    /\ UNCHANGED <<mail, draft, call, heard, acked>>

LoseDispatch ==
    /\ dispatch \in {"open", "answered"}
    /\ dispatch' = "lost"
    /\ UNCHANGED <<mail, event, draft, call, heard, acked>>

\* The message id is in the committed row only after a mail that was sent;
\* without it the callback is answered 404 and Postmark makes it again.
HasMessageId == event.payload \in CallbackKinds \cup {"send"}

FindEvent(c) ==
    /\ mail = "accepted"
    /\ call[c] = "due"
    /\ HasMessageId
    /\ call' = [call EXCEPT ![c] = "found"]
    /\ heard' = [heard EXCEPT ![c] = event.status]
    /\ UNCHANGED <<dispatch, mail, event, draft, acked>>

Acknowledge(c) ==
    /\ call[c] = "found"
    /\ call' = [call EXCEPT ![c] = "acked"]
    /\ acked' = acked \cup {c}
    /\ UNCHANGED <<dispatch, mail, event, draft, heard>>

\* Mutant: a report that comes second leaves the status alone.
StatusOfFirst(c) == IF heard[c] \in CallbackKinds THEN event.status ELSE KindOf(c)

\* An assignment of the value that was read is left out of the UPDATE.
StatusAfter(c) == IF heard[c] = KindOf(c) THEN event.status ELSE KindOf(c)

CommitCallback(c) ==
    /\ call[c] = "acked"
    /\ event' = [status |-> StatusAfter(c),
                 stamps |-> event.stamps \cup {KindOf(c)}, payload |-> KindOf(c)]
    /\ call' = [call EXCEPT ![c] = "done"]
    /\ UNCHANGED <<dispatch, mail, draft, heard, acked>>

\* Before the answer Postmark tries again; after it nobody does.
ApiDies(c) ==
    /\ call[c] \in {"found", "acked"}
    /\ call' = [call EXCEPT ![c] = IF c \in acked THEN "done" ELSE "due"]
    /\ UNCHANGED <<dispatch, mail, event, draft, heard, acked>>

CallbackStep(c) == FindEvent(c) \/ Acknowledge(c) \/ CommitCallback(c)

DispatchStep == OpenEvent \/ SendDelivery \/ CommitDispatch

DeliveryNext ==
    \/ DispatchStep \/ LoseDispatch
    \/ \E c \in Callbacks : CallbackStep(c) \/ ApiDies(c)

DeliverySpec == DeliveryInit /\ [][DeliveryNext]_deliveryVars

\* What the row says of the mail is backed by the callback that says it, and
\* a mail somebody has reported about is never shown as only sent or failed,
\* although callbacks race with the run's own commit and with one another
\* (the queued row is invisible until the run commits).
StatusIsBacked ==
    /\ event.status \in CallbackKinds => event.status \in event.stamps
    /\ event.stamps # {} => event.status \in CallbackKinds

\* What has once been reported stays on record, whatever comes later or again.
ReportsAreKept == [][event.stamps \subseteq event'.stamps]_event

\* The status and the stored report of a mail come from one callback, unless
\* Postmark has made callbacks of one kind twice: then the ORM leaves the
\* status out of the repetition's UPDATE, and another kind may have changed it.
MadeTwice == \E c, e \in acked : c # e /\ KindOf(c) = KindOf(e)
ReportMatchesStatus == event.payload \in CallbackKinds => event.status = event.payload \/ MadeTwice

\* The delivery event is true to what Postmark has reported, in whatever order
\* the callbacks come and are committed.
ReportsAreTrue == [](StatusIsBacked /\ ReportMatchesStatus) /\ ReportsAreKept
=================================================================================
