---------------------------- MODULE ServiceProofs -----------------------------
(***************************************************************************)
(* What the API does for a user: the delivery of a mail and the callbacks  *)
(* about it, the readiness page, the saving of the alert settings, the way *)
(* from pasted urls to a group, and the pages of the operator. For any     *)
(* callbacks, environments, tasks, stores, urls, titles, runs and pages,   *)
(* and any interleaving of the requests and the runs. Last, MCServices     *)
(* runs each of these, and what is said about the runs afterwards, as its  *)
(* own specification.                                                      *)
(***************************************************************************)
EXTENDS MCServices, ReviewProofs, FiniteSetTheorems, SequenceTheorems, SetLemmas,
        TLAPS

-------------------------------------------------------------------------------
(* The delivery of a mail.                                                   *)

\* Until the dispatch commits there is no row, no callback has been about it
\* and none has been answered.
RowFollowsDispatch ==
    /\ dispatch # "committed" =>
         event = NoEvent /\ \A c \in Callbacks : call[c] = "due" /\ c \notin acked
    /\ draft.stamps = {} /\ draft.status \notin CallbackKinds
    /\ draft.payload \notin CallbackKinds
    /\ draft.payload = "send" => draft.status = "sent"
    /\ HasMessageId => event.status \in {"sent"} \cup CallbackKinds
    /\ \A c \in Callbacks : call[c] \in {"found", "acked"} => HasMessageId

\* A callback is answered before its session commits and after it has found the
\* row; a session that found its own kind in the row found it there because a
\* callback of that kind was answered before it.
AnswersComeFirst ==
    /\ \A c \in Callbacks : call[c] = "acked" => c \in acked
    /\ \A c \in Callbacks : c \in acked => call[c] \in {"acked", "done"}
    /\ event.status \in CallbackKinds =>
         \E e \in acked : call[e] = "done" /\ KindOf(e) = event.status
    /\ \A c \in Callbacks : call[c] \in {"found", "acked"} /\ heard[c] = KindOf(c) =>
         /\ event.status \in CallbackKinds
         /\ \E e \in acked : e # c /\ KindOf(e) = KindOf(c)

\* What the answers of the webhook rest on.
DeliveryInv ==
    /\ DeliveryTypeOK /\ RowFollowsDispatch /\ AnswersComeFirst
    /\ StatusIsBacked /\ ReportMatchesStatus

\* Before the dispatch nothing has been sent, called back or answered.
LEMMA DeliveryInitLemma == DeliveryInit => DeliveryInv
BY CallbacksAssumption DEF DeliveryInit, DeliveryInv, DeliveryTypeOK, RowFollowsDispatch,
   AnswersComeFirst, StatusIsBacked, ReportMatchesStatus, HasMessageId, NoEvent, Events, CallbackKinds,
   Reports, KindOf

\* Every step of the dispatch, of a callback and of a dying API keeps it.
LEMMA DeliveryStepLemma == DeliveryInv /\ [DeliveryNext]_deliveryVars => DeliveryInv'
<1> SUFFICES ASSUME DeliveryInv, [DeliveryNext]_deliveryVars PROVE DeliveryInv'
  OBVIOUS
<1> USE DEF DeliveryInv, DeliveryTypeOK, RowFollowsDispatch, StatusIsBacked,
            AnswersComeFirst, CallbackKinds, Reports, HasMessageId
<1>1. CASE OpenEvent
  BY <1>1 DEF OpenEvent, NoEvent, ReportMatchesStatus, MadeTwice, Events
<1>2. CASE SendDelivery
  <2>1. draft' \in Events /\ draft'.stamps = draft.stamps
        /\ \/ draft'.status = "sent" /\ draft'.payload = "send"
           \/ draft'.status = "failed" /\ draft'.payload = "error"
    BY <1>2, ZenonT(60) DEF SendDelivery, Events
  <2> QED
    BY <1>2, <2>1, CallbacksAssumption DEF SendDelivery, ReportMatchesStatus, MadeTwice
<1>3. CASE CommitDispatch
  BY <1>3 DEF CommitDispatch, ReportMatchesStatus, MadeTwice, NoEvent
<1>4. CASE LoseDispatch
  BY <1>4 DEF LoseDispatch, ReportMatchesStatus, MadeTwice
<1>5. ASSUME NEW c \in Callbacks, FindEvent(c) PROVE DeliveryInv'
  <2>1. dispatch = "committed" /\ event.status \in {"sent"} \cup CallbackKinds
    BY <1>5 DEF FindEvent, NoEvent
  <2>2. \A e \in acked : e # c
    BY <1>5 DEF FindEvent
  <2>3. heard'[c] = KindOf(c) =>
          event.status \in CallbackKinds /\ \E e \in acked : e # c /\ KindOf(e) = KindOf(c)
    BY <1>5, <2>2 DEF FindEvent, KindOf
  <2>4. UNCHANGED <<dispatch, mail, event, draft, acked>>
    BY <1>5 DEF FindEvent
  <2>5. call' \in [Callbacks -> {"due", "found", "acked", "done"}]
        /\ heard' \in [Callbacks -> {"none", "sent"} \cup CallbackKinds]
    BY <1>5, <2>1 DEF FindEvent
  <2>6. \A e \in Callbacks : e # c => call'[e] = call[e] /\ heard'[e] = heard[e]
    BY <1>5 DEF FindEvent
  <2>7. call'[c] = "found" /\ call[c] = "due" /\ HasMessageId
    BY <1>5 DEF FindEvent
  <2>8. RowFollowsDispatch'
    BY <2>1, <2>4, <2>6, <2>7
  <2>9. AnswersComeFirst'
    BY <2>2, <2>3, <2>4, <2>6, <2>7 DEF KindOf
  <2> QED
    BY <2>4, <2>5, <2>8, <2>9 DEF ReportMatchesStatus, MadeTwice, KindOf
<1>6. ASSUME NEW c \in Callbacks, Acknowledge(c) PROVE DeliveryInv'
  BY <1>6 DEF Acknowledge, ReportMatchesStatus, MadeTwice
<1>7. ASSUME NEW c \in Callbacks, CommitCallback(c) PROVE DeliveryInv'
  <2>1. KindOf(c) \in CallbackKinds
    BY DEF KindOf
  <2>2. c \in acked /\ dispatch = "committed" /\ HasMessageId
    BY <1>7 DEF CommitCallback
  <2>3. event'.stamps = event.stamps \cup {KindOf(c)} /\ event'.payload = KindOf(c)
        /\ event'.status = StatusAfter(c)
    BY <1>7 DEF CommitCallback
  <2>4. call'[c] = "done" /\ UNCHANGED <<dispatch, mail, draft, heard, acked>>
        /\ \A e \in Callbacks : e # c => call'[e] = call[e]
    BY <1>7 DEF CommitCallback
  <2>5. \/ heard[c] = KindOf(c) /\ event'.status = event.status /\ MadeTwice'
       \/ event'.status = KindOf(c)
    <3>1. ASSUME heard[c] = KindOf(c) PROVE \E e \in acked : e # c /\ KindOf(e) = KindOf(c)
      BY <1>7, <3>1 DEF CommitCallback
    <3> QED
      BY <2>2, <2>3, <2>4, <3>1 DEF StatusAfter, MadeTwice, KindOf
  <2>6. event'.status \in {"sent"} \cup CallbackKinds
    BY <2>1, <2>2, <2>5
  <2>7. DeliveryTypeOK'
    BY <1>7, <2>1, <2>3, <2>4, <2>6 DEF CommitCallback, Events
  <2>8. RowFollowsDispatch'
    BY <2>1, <2>2, <2>3, <2>4, <2>6
  <2>9. AnswersComeFirst'
    <3>1. event'.status \in CallbackKinds =>
            \E e \in acked' : call'[e] = "done" /\ KindOf(e) = event'.status
      BY <2>2, <2>4, <2>5
    <3> QED
      BY <2>1, <2>2, <2>4, <2>5, <3>1 DEF KindOf
  <2>10. StatusIsBacked' /\ ReportMatchesStatus'
    <3>1. CASE heard[c] = KindOf(c) /\ event'.status = event.status /\ MadeTwice'
      <4>1. event.status \in CallbackKinds
        BY <1>7, <3>1 DEF CommitCallback
      <4> QED
        BY <2>3, <3>1, <4>1 DEF ReportMatchesStatus
    <3>2. CASE event'.status = KindOf(c)
      BY <2>1, <2>3, <3>2 DEF ReportMatchesStatus
    <3> QED
      BY <2>5, <3>1, <3>2
  <2> QED
    BY <2>7, <2>8, <2>9, <2>10
<1>8. ASSUME NEW c \in Callbacks, ApiDies(c) PROVE DeliveryInv'
  BY <1>8 DEF ApiDies, ReportMatchesStatus, MadeTwice
<1>9. CASE UNCHANGED deliveryVars
  BY <1>9 DEF deliveryVars, ReportMatchesStatus, MadeTwice, KindOf
<1> QED
  BY <1>1, <1>2, <1>3, <1>4, <1>5, <1>6, <1>7, <1>8, <1>9
     DEF DeliveryNext, DispatchStep, CallbackStep

\* A status that Postmark reports was reported by a callback that came, a
\* callback that was answered has left its mark, and no stamp is taken back,
\* whatever callbacks come together, twice or before the dispatch has committed
\* (deliver_alert, record_postmark_webhook).
THEOREM DeliveryReportsAreTrue == DeliverySpec => []DeliveryTypeOK /\ ReportsAreTrue
<1>1. DeliveryInit => DeliveryInv
  BY DeliveryInitLemma
<1>2. DeliveryInv /\ [DeliveryNext]_deliveryVars => DeliveryInv'
  BY DeliveryStepLemma
<1>3. DeliveryInv => DeliveryTypeOK /\ StatusIsBacked /\ ReportMatchesStatus
  BY DEF DeliveryInv
<1>4. DeliveryInv /\ [DeliveryNext]_deliveryVars => [event.stamps \subseteq event'.stamps]_event
  BY DEF DeliveryNext, DispatchStep, CallbackStep, OpenEvent, SendDelivery, CommitDispatch,
         LoseDispatch, FindEvent, Acknowledge, CommitCallback, ApiDies, deliveryVars,
         DeliveryInv, RowFollowsDispatch, NoEvent
<1> QED
  BY <1>1, <1>2, <1>3, <1>4, PTL DEF DeliverySpec, ReportsAreTrue, ReportsAreKept

-------------------------------------------------------------------------------
(* The readiness page.                                                       *)

\* A target that lets no more pass refuses no less.
LEMMA StricterRefusesMore ==
    ASSUME NEW e, NEW weak, NEW strict,
           \A key \in {"email", "token", "zip", "stores", "sender"} :
               Required(e, strict, key) => Required(e, weak, key),
           FitAddress(e, strict) => FitAddress(e, weak),
           weak \in Public => strict \in Public,
           weak = "render" => strict = "render",
           strict = "startup" => weak = "startup"
    PROVE  Blockers(e, weak) \subseteq Blockers(e, strict)
<1>1. ASSUME NEW b \in Blockers(e, weak) PROVE b \in Blockers(e, strict)
  <2>1. CASE b \in {"email", "token", "zip", "stores"} /\ ~Required(e, weak, b)
    BY <2>1, ZenonT(60) DEF Blockers
  <2>2. CASE \/ b = "site" /\ ~FitAddress(e, weak)
             \/ b = "sender" /\ HasPostmark(e) /\ ~Required(e, weak, "sender")
             \/ b = "notifications" /\ weak \in Public /\ ~HasMail(e)
    BY <2>2, ZenonT(60) DEF Blockers
  <2>3. CASE \/ b = "database" /\ \/ e.database \notin {"local postgres", "postgres"}
                                  \/ weak = "render" /\ e.database = "local postgres"
             \/ b = "zip" /\ e.zip = "zeros" /\ weak # "startup"
             \/ b = "number" /\ e.number \in {"odd", "low"}
             \/ b = "profile" /\ e.profile \in {"partial", "shared"}
             \/ b = "llm" /\ e.llm = "without key"
    BY <2>3, ZenonT(60) DEF Blockers
  <2> QED
    BY <1>1, <2>1, <2>2, <2>3, ZenonT(60) DEF Blockers
<1> QED
  BY <1>1

\* What a target refuses, every target that asks more refuses too.
LEMMA MoreIsAsked ==
    ASSUME NEW e
    PROVE  /\ Blockers(e, "startup") \subseteq Blockers(e, "ci-smoke")
           /\ Blockers(e, "ci-smoke") \subseteq Blockers(e, "generic")
           /\ Blockers(e, "generic") \subseteq Blockers(e, "render")
<1> DEFINE Keys == {"email", "token", "zip", "stores", "sender"}
<1>1. Blockers(e, "startup") \subseteq Blockers(e, "ci-smoke")
  <2>1. \A key \in Keys : Required(e, "ci-smoke", key) => Required(e, "startup", key)
    BY SMTT(30) DEF Required, Lenient, Real
  <2>2. FitAddress(e, "ci-smoke") => FitAddress(e, "startup")
    BY DEF FitAddress, Public
  <2> QED
    BY <2>1, <2>2, StricterRefusesMore DEF Public
<1>2. Blockers(e, "ci-smoke") \subseteq Blockers(e, "generic")
  <2>1. \A key \in Keys : Required(e, "generic", key) => Required(e, "ci-smoke", key)
    BY SMTT(30) DEF Required, Lenient, Real
  <2>2. FitAddress(e, "generic") => FitAddress(e, "ci-smoke")
    BY DEF FitAddress, Public
  <2> QED
    BY <2>1, <2>2, StricterRefusesMore DEF Public
<1>3. Blockers(e, "generic") \subseteq Blockers(e, "render")
  <2>1. \A key \in Keys : Required(e, "render", key) => Required(e, "generic", key)
    BY SMTT(30) DEF Required, Lenient, Real
  <2>2. FitAddress(e, "render") => FitAddress(e, "generic")
    BY DEF FitAddress, Public
  <2> QED
    BY <2>1, <2>2, StricterRefusesMore DEF Public
<1> QED
  BY <1>1, <1>2, <1>3

\* What has passed the check of a start.
LEMMA StartablePasses ==
    ASSUME NEW e, Blockers(e, "startup") = {}
    PROVE  /\ e.database \in {"local postgres", "postgres"}
           /\ HasPostmark(e) => e.sender # "blank"
           /\ Real(e.stores)
<1>1. "database" \notin Blockers(e, "startup") /\ "sender" \notin Blockers(e, "startup")
      /\ "stores" \notin Blockers(e, "startup")
  OBVIOUS
<1> QED
  BY <1>1 DEF Blockers, Required, Lenient

\* The running process has passed the check, its page is answered only while it
\* runs, and what the page has said of it stays so: the owner and the smoke logs
\* stay, and a process that stops takes its answer along.
ReadyInv ==
    /\ loaded # NotLoaded => Blockers(loaded, "startup") = {}
    /\ loaded = NotLoaded => reading = "no" /\ answer = NoAnswer
    /\ passed => Blockers(env, "startup") = {}
    /\ owner \in BOOLEAN /\ seen \in [owner : BOOLEAN, shops : SUBSET ShopKeys]
    /\ shops \subseteq ShopKeys
    /\ seen.owner => owner
    /\ reading = "no" => ~seen.owner
    /\ smoke \subseteq {"api", "worker"}
    /\ OnlyStoresBlock /\ ReadyIsEarned

\* Before a process has started nobody has been told anything.
LEMMA ReadinessInitLemma == ReadinessInit => ReadyInv
<1> SUFFICES ASSUME ReadinessInit PROVE ReadyInv
  OBVIOUS
<1>1. seen \in [owner : BOOLEAN, shops : SUBSET ShopKeys] /\ ~seen.owner
  BY DEF ReadinessInit, NothingSeen
<1>2. OnlyStoresBlock /\ ReadyIsEarned
  BY DEF ReadinessInit, NoAnswer, OnlyStoresBlock, ReadyIsEarned
<1> QED
  BY <1>1, <1>2 DEF ReadinessInit, ReadyInv

\* The answer is put together from what was read and from what the process has
\* loaded, and the start has already judged that.
LEMMA AnswerIsHonest ==
    ASSUME ReadyInv, AnswerReadiness
    PROVE  (OnlyStoresBlock /\ ReadyIsEarned)'
<1>1. loaded # NotLoaded /\ loaded' = loaded /\ owner' = owner /\ smoke' = smoke
  BY DEF AnswerReadiness, ReadyInv, Outside
<1>2. Blockers(loaded, "startup") = {}
  BY <1>1 DEF ReadyInv
<1>3. loaded.database \in {"local postgres", "postgres"}
      /\ (HasPostmark(loaded) => loaded.sender # "blank")
  BY <1>2, StartablePasses
<1>4. Blocked \subseteq {"stores"}
  BY <1>2 DEF Blocked
<1>5. "database" \notin Warned
  BY <1>3 DEF Warned
<1>6. ASSUME Blocked = {}, Warned = {}
      PROVE  /\ HasPostmark(loaded) /\ loaded.zip # "zeros"
             /\ owner /\ smoke = {"api", "worker"}
  <2>1. "owner" \notin Warned /\ "mail" \notin Warned /\ "preflight" \notin Warned
        /\ "smoke" \notin Warned
    BY <1>6
  <2>2. owner /\ HasMail(loaded) /\ smoke = {"api", "worker"} /\ Warnings(loaded) = {}
    BY <1>2, <2>1 DEF Warned, ReadyInv
  <2>3. "zip" \notin Warnings(loaded) /\ "notifications" \notin Warnings(loaded)
    BY <2>2
  <2> QED
    BY <2>2, <2>3 DEF Warnings, HasMail
<1>7. answer'.blocked = Blocked /\ answer'.warned = Warned
      /\ answer'.ready = {"database", "stores", "preflight"} \ (Blocked \cup Warned)
      /\ (answer'.status = "ready" => Blocked = {} /\ Warned = {})
  BY DEF AnswerReadiness
<1>8. OnlyStoresBlock'
  BY <1>4, <1>5, <1>7 DEF OnlyStoresBlock
<1>9. ReadyIsEarned'
  <2> SUFFICES ASSUME answer'.status = "ready" PROVE ReadyIsEarned'
    BY DEF ReadyIsEarned
  <2>1. Blocked = {} /\ Warned = {}
    BY <1>7
  <2>2. answer'.ready = {"database", "stores", "preflight"}
    BY <1>7, <2>1
  <2> QED
    BY <1>1, <1>3, <1>6, <2>1, <2>2 DEF ReadyIsEarned, HasPostmark
<1> QED
  BY <1>8, <1>9

\* Every change outside and every step of the page keeps it.
LEMMA ReadinessStepLemma == ReadyInv /\ [ReadinessNext]_readyVars => ReadyInv'
<1> SUFFICES ASSUME ReadyInv, [ReadinessNext]_readyVars PROVE ReadyInv'
  OBVIOUS
<1> USE DEF ReadyInv, OnlyStoresBlock, ReadyIsEarned, Outside, ShownAs, HasPostmark
<1>1. CASE EditEnvironment
  BY <1>1 DEF EditEnvironment
<1>2. CASE StartRuntime
  <2>1. Blockers(loaded', "startup") = {}
    BY <1>2 DEF StartRuntime
  <2>2. loaded' # NotLoaded
    BY <2>1, StartablePasses DEF NotLoaded, GoodEnvironment, Real
  <2> QED
    BY <1>2, <2>1, <2>2 DEF StartRuntime, NothingSeen, NoAnswer
<1>3. CASE StopRuntime
  BY <1>3 DEF StopRuntime, NothingSeen, NoAnswer
<1>4. CASE BootstrapOwner
  BY <1>4 DEF BootstrapOwner
<1>5. CASE RunSmoke
  BY <1>5 DEF RunSmoke
<1>6. ASSUME NEW target \in Targets, CheckEnvironment(target) PROVE ReadyInv'
  <2>1. Blockers(env, "startup") = {}
    BY <1>6, MoreIsAsked DEF CheckEnvironment, Targets
  <2> QED
    BY <1>6, <2>1 DEF CheckEnvironment
<1>7. ASSUME NEW s \in ShopKeys, SwitchShop(s) PROVE ReadyInv'
  BY <1>7 DEF SwitchShop
<1>8. CASE AskReadiness
  BY <1>8 DEF AskReadiness
<1>9. CASE ReadOwner
  BY <1>9 DEF ReadOwner
<1>10. CASE ReadShops
  BY <1>10 DEF ReadShops
<1>11. CASE AnswerReadiness
  <2>1. (OnlyStoresBlock /\ ReadyIsEarned)'
    BY <1>11, AnswerIsHonest
  <2> QED
    BY <1>11, <2>1 DEF AnswerReadiness, NothingSeen
<1>12. CASE UNCHANGED readyVars
  BY <1>12 DEF readyVars
<1> QED
  BY <1>1, <1>2, <1>3, <1>4, <1>5, <1>6, <1>7, <1>8, <1>9, <1>10, <1>11, <1>12
     DEF ReadinessNext

\* An edit leaves every setting in its classes.
LEMMA EditIsTyped ==
    ASSUME NEW e \in Environments, NEW key \in DOMAIN Values, NEW v \in Values[key]
    PROVE  [e EXCEPT ![key] = v] \in Environments
<1>1. key \in {"database", "email", "token", "site", "zip", "stores", "postmark", "sender", "smtp",
              "number", "profile", "llm"}
  BY DEF Values
<1>2. CASE key = "database"
  BY <1>2, ZenonT(30) DEF Values, Environments
<1>3. CASE key = "email"
  BY <1>3, ZenonT(30) DEF Values, Environments
<1>4. CASE key = "token"
  BY <1>4, ZenonT(30) DEF Values, Environments
<1>5. CASE key = "site"
  BY <1>5, ZenonT(30) DEF Values, Environments
<1>6. CASE key = "zip"
  BY <1>6, ZenonT(30) DEF Values, Environments
<1>7. CASE key = "stores"
  BY <1>7, ZenonT(30) DEF Values, Environments
<1>8. CASE key = "postmark"
  BY <1>8, ZenonT(30) DEF Values, Environments
<1>9. CASE key = "sender"
  BY <1>9, ZenonT(30) DEF Values, Environments
<1>10. CASE key = "smtp"
  BY <1>10, ZenonT(30) DEF Values, Environments
<1>11. CASE key = "number"
  BY <1>11, ZenonT(30) DEF Values, Environments
<1>12. CASE key = "profile"
  BY <1>12, ZenonT(30) DEF Values, Environments
<1>13. CASE key = "llm"
  BY <1>13, ZenonT(30) DEF Values, Environments
<1> QED
  BY <1>1, <1>2, <1>3, <1>4, <1>5, <1>6, <1>7, <1>8, <1>9, <1>10, <1>11, <1>12, <1>13

\* So does the step.
LEMMA EditStaysTyped ==
    ASSUME env \in Environments, edits \in 0 .. MaxEdits, EditEnvironment
    PROVE  env' \in Environments /\ edits' \in 0 .. MaxEdits
<1>a. PICK key \in DOMAIN Values : \E v \in Values[key] : env' = [env EXCEPT ![key] = v]
  BY DEF EditEnvironment
<1>1. PICK v \in Values[key] : env' = [env EXCEPT ![key] = v]
  BY <1>a
<1>2. [env EXCEPT ![key] = v] \in Environments
  BY EditIsTyped
<1>3. MaxEdits \in Nat /\ edits \in Nat
  BY ReadinessAssumption
<1>4. edits < MaxEdits /\ edits' = edits + 1
  BY DEF EditEnvironment
<1>5. edits' \in 0 .. MaxEdits
  BY <1>3, <1>4
<1> QED
  BY <1>1, <1>2, <1>5

\* The types alone are inductive.
LEMMA ReadinessIsTyped == ReadinessSpec => []ReadinessTypeOK
<1>1. NotLoaded \in Environments /\ GoodEnvironment \in Environments
  <2>1. GoodEnvironment \in Environments
    BY ZenonT(30) DEF GoodEnvironment, Environments, Secret, Address, Number
  <2>2. \A e \in Environments : [e EXCEPT !.database = "blank"] \in Environments
    BY ZenonT(30) DEF Environments
  <2>3. \A e \in Environments : [e EXCEPT !.stores = "blank"] \in Environments
    BY ZenonT(30) DEF Environments
  <2>4. NotLoaded = [[GoodEnvironment EXCEPT !.database = "blank"] EXCEPT !.stores = "blank"]
    BY DEF NotLoaded
  <2> QED
    BY <2>1, <2>2, <2>3, <2>4
<1>2. ReadinessInit => ReadinessTypeOK
  <2> SUFFICES ASSUME ReadinessInit PROVE ReadinessTypeOK
    OBVIOUS
  <2>1. edits \in 0 .. MaxEdits
    BY ReadinessAssumption DEF ReadinessInit
  <2>2. {env, loaded} \subseteq Environments
    BY <1>1 DEF ReadinessInit
  <2>3. answer.status = "none" /\ answer.blocked = {} /\ answer.warned = {} /\ answer.ready = {}
    BY DEF ReadinessInit, NoAnswer
  <2> QED
    BY <2>1, <2>2, <2>3 DEF ReadinessInit, ReadinessTypeOK
<1>3. ReadinessTypeOK /\ [ReadinessNext]_readyVars => ReadinessTypeOK'
  <2> SUFFICES ASSUME ReadinessTypeOK, [ReadinessNext]_readyVars PROVE ReadinessTypeOK'
    OBVIOUS
  <2> USE DEF ReadinessTypeOK, Outside, ShownAs
  <2>1. CASE EditEnvironment
    <3>1. env' \in Environments /\ edits' \in 0 .. MaxEdits
      BY <2>1, EditStaysTyped
    <3> QED
      BY <2>1, <3>1 DEF EditEnvironment
  <2>2. CASE StartRuntime
    BY <2>2 DEF StartRuntime
  <2>3. CASE StopRuntime
    BY <1>1, <2>3 DEF StopRuntime, NoAnswer
  <2>4. CASE BootstrapOwner
    BY <2>4 DEF BootstrapOwner
  <2>5. CASE RunSmoke
    BY <2>5 DEF RunSmoke
  <2>6. ASSUME NEW target \in Targets, CheckEnvironment(target) PROVE ReadinessTypeOK'
    BY <2>6 DEF CheckEnvironment
  <2>7. ASSUME NEW s \in ShopKeys, SwitchShop(s) PROVE ReadinessTypeOK'
    BY <2>7 DEF SwitchShop
  <2>8. CASE AskReadiness \/ ReadOwner \/ ReadShops
    BY <2>8 DEF AskReadiness, ReadOwner, ReadShops
  <2>9. CASE AnswerReadiness
    <3>1. answer'.status \in {"ready", "degraded", "blocked"}
      BY <2>9 DEF AnswerReadiness
    <3>2. Blocked \cup Warned \subseteq {"database", "owner", "stores", "mail", "preflight", "smoke"}
      BY DEF Blocked, Warned
    <3>3. answer'.blocked = Blocked /\ answer'.warned = Warned
          /\ answer'.ready \subseteq {"database", "stores", "preflight"}
      BY <2>9 DEF AnswerReadiness
    <3> QED
      BY <2>9, <3>1, <3>2, <3>3 DEF AnswerReadiness
  <2>10. CASE UNCHANGED readyVars
    BY <2>10 DEF readyVars
  <2> QED
    BY <2>1, <2>2, <2>3, <2>4, <2>5, <2>6, <2>7, <2>8, <2>9, <2>10 DEF ReadinessNext
<1> QED
  BY <1>2, <1>3, PTL DEF ReadinessSpec

\* A process that runs can be refused by its own readiness page only for its
\* stores, what the page calls ready was there when it was read, and what one
\* target refuses a stricter target refuses too, whatever operators change
\* meanwhile (get_runtime_readiness, the preflight script).
THEOREM ReadinessStaysHonest == ReadinessSpec => [](ReadinessTypeOK /\ ReadinessIsHonest)
<1>1. ReadyInv => ReadinessIsHonest
  <2>1. ReadyInv => TargetsAreNested
    BY MoreIsAsked DEF ReadyInv, TargetsAreNested
  <2> QED
    BY <2>1 DEF ReadyInv, ReadinessIsHonest
<1> QED
  BY <1>1, ReadinessIsTyped, ReadinessInitLemma, ReadinessStepLemma, PTL DEF ReadinessSpec

-------------------------------------------------------------------------------
(* The alert settings.                                                       *)

\* The task changed last has a rule, and so has every task a saving has reached.
RuledTasks ==
    /\ \A t \in newest : HasRule(t)
    /\ \A t \in covered : HasRule(t)
    /\ patch.at = "loaded" => HasRule(patch.task) /\ patch.seen # NoRule

\* While a saving is under way nobody else turns a rule on or off, and nothing
\* else changes in the rules without the saving having met it.
SavingIsAlone ==
    save.at = "loaded" =>
        /\ \A t \in Reached(save) : HasRule(t) /\ rules[t].on = save.seen[t].on
        /\ ~save.met => rules = save.seen

\* What the saving of the preferences rests on.
SettingsInv == SettingsTypeOK /\ RuledTasks /\ SavingIsAlone /\ SavingIsTrue

-----------------------------------------------------------------------------
\* A policy is its two fields.
LEMMA PolicyFields ==
    /\ \A p \in Policy \cup {NoRule} : p = [cooldown |-> p.cooldown, on |-> p.on]
    /\ \A p \in Policy : p.cooldown \in Cooldowns /\ p.on \in BOOLEAN
    /\ NoRule \notin Policy
BY SettingsAssumption DEF Policy, NoRule

\* A column that has not changed since it was read gets what is asked.
LEMMA MergeIs ==
    ASSUME NEW now \in Policy, NEW known \in Policy, NEW asked \in Policy
    PROVE  /\ Merged(now, known, asked) \in Policy
           /\ Merged(now, known, asked).cooldown =
                IF known.cooldown = asked.cooldown THEN now.cooldown ELSE asked.cooldown
           /\ Merged(now, known, asked).on = IF known.on = asked.on THEN now.on ELSE asked.on
<1>1. DOMAIN now = {"cooldown", "on"}
  BY DEF Policy
<1>2. Merged(now, known, asked) =
        [cooldown |-> IF known.cooldown = asked.cooldown THEN now.cooldown ELSE asked.cooldown,
         on |-> IF known.on = asked.on THEN now.on ELSE asked.on]
  BY <1>1 DEF Merged
<1> QED
  BY <1>2 DEF Policy

\* A user with the default preferences has nothing under way.
LEMMA SettingsInitLemma == SettingsInit => SettingsInv
<1> SUFFICES ASSUME SettingsInit PROVE SettingsInv
  OBVIOUS
<1>1. (CHOOSE c \in Cooldowns : TRUE) \in Cooldowns
  BY SettingsAssumption
<1>2. SettingsTypeOK
  BY <1>1, SettingsAssumption DEF SettingsInit, SettingsTypeOK, Policy, Snapshot
<1> QED
  BY <1>2 DEF SettingsInit, SettingsInv, RuledTasks, SavingIsAlone, SavingIsTrue,
     PolicyReachesRules, AnswerIsAsked, NoSession

\* What a saving writes, and what its answer shows.
LEMMA SavingWrites ==
    ASSUME SettingsInv, SaveSettings
    PROVE  SettingsInv'
<1>1. /\ save.at = "loaded" /\ save \in Saving /\ save.asked \in Policy
      /\ save.seen \in Snapshot /\ rules \in Snapshot
  BY DEF SaveSettings, SettingsInv, SettingsTypeOK, NoSession, Saving
<1>2. ASSUME NEW t \in Reached(save)
      PROVE  /\ t \in Tasks /\ rules[t] \in Policy /\ save.seen[t] \in Policy
             /\ rules'[t] = Merged(rules[t], save.seen[t], save.asked)
  BY <1>1 DEF Reached, SaveSettings, SettingsInv, SavingIsAlone, HasRule, Snapshot
<1>3. ASSUME NEW t \in Reached(save) PROVE rules'[t] \in Policy
  BY <1>1, <1>2, MergeIs
<1>4. ASSUME NEW t \in Tasks \ Reached(save) PROVE rules'[t] = rules[t]
  BY <1>1 DEF SaveSettings, Snapshot
<1>5. rules' \in Snapshot
  <2>1. rules' = [t \in Tasks |->
                    IF t \in Reached(save) THEN Merged(rules[t], save.seen[t], save.asked)
                    ELSE rules[t]]
    BY DEF SaveSettings
  <2>2. \A t \in Tasks : rules'[t] \in Policy \cup {NoRule}
    BY <1>1, <1>3, <1>4 DEF Snapshot
  <2> QED
    BY <2>1, <2>2 DEF Snapshot
<1>6. ASSUME NEW t \in Reached(save) PROVE rules'[t].on = save.asked.on
  <2>1. rules[t].on = save.seen[t].on
    BY <1>1 DEF SettingsInv, SavingIsAlone
  <2> QED
    BY <1>1, <1>2, <2>1, MergeIs
<1>7. ASSUME NEW t \in Reached(save), ~save.met PROVE rules'[t] = save.asked
  <2>1. rules[t] = save.seen[t]
    BY <1>1, <1>7 DEF SettingsInv, SavingIsAlone
  <2>2. Merged(rules[t], save.seen[t], save.asked) = save.asked
    BY <1>1, <1>2, <2>1, MergeIs, PolicyFields
  <2> QED
    BY <1>2, <2>2
<1>8. /\ newest' \subseteq Tasks /\ \A t, u \in newest' : t = u
      /\ newest' = newest \/ \E t \in Reached(save) : newest' = {t}
  BY DEF SaveSettings, Touched, Changed, Reached, SettingsInv, SettingsTypeOK
<1>9. ASSUME NEW t \in Tasks, HasRule(t) PROVE HasRule(t)'
  BY <1>3, <1>4, <1>9, PolicyFields DEF HasRule
<1>10. ASSUME NEW t \in newest', ~save.met PROVE t \in Reached(save)
  <2>1. CASE newest' = newest
    <3>1. HasRule(t) /\ rules = save.seen /\ t \in Tasks
      BY <1>1, <1>10, <2>1 DEF SettingsInv, RuledTasks, SavingIsAlone, SettingsTypeOK
    <3> QED
      BY <3>1 DEF HasRule, Reached
  <2> QED
    BY <1>8, <1>10, <2>1
<1>11. /\ pref' = save.asked /\ covered' = Reached(save) /\ UNCHANGED <<patch, mails>>
       /\ save' = [save EXCEPT !.at = "flushed", !.page = Page(rules', newest', pref')]
  BY DEF SaveSettings
<1>12. /\ Page(rules', newest', pref') \in Policy \/ newest' # {}
       /\ newest' # {} => (CHOOSE t \in newest' : TRUE) \in newest'
  BY <1>1, <1>11 DEF Page
<1>13. ASSUME NEW t \in newest' PROVE rules'[t] \in Policy /\ HasRule(t)'
  <2>1. CASE t \in Reached(save)
    BY <1>3, <2>1, PolicyFields DEF HasRule
  <2>2. CASE t \in newest
    <3>1. t \in Tasks /\ HasRule(t)
      BY <2>2 DEF SettingsInv, RuledTasks, SettingsTypeOK
    <3> QED
      BY <3>1, <1>5, <1>9 DEF HasRule, Snapshot
  <2> QED
    BY <1>8, <2>1, <2>2
<1>14. Page(rules', newest', pref') \in Policy
  BY <1>12, <1>13 DEF Page
<1>15. save' \in Saving /\ save'.at = "flushed" /\ save'.asked = save.asked
       /\ save'.met = save.met /\ save'.page = Page(rules', newest', pref')
  <2> DEFINE pg == Page(rules', newest', pref')
  <2> HIDE DEF pg
  <2>1. pg \in Policy /\ save' = [save EXCEPT !.at = "flushed", !.page = pg]
    BY <1>11, <1>14 DEF pg
  <2>2. save'.page = pg /\ save' \in Saving /\ save'.at = "flushed" /\ save'.asked = save.asked
        /\ save'.met = save.met
    BY <1>1, <2>1 DEF Saving
  <2> QED
    BY <2>2 DEF pg
<1>16. ~save.met => Page(rules', newest', pref') = save.asked
  BY <1>7, <1>10, <1>11, <1>12 DEF Page
<1>17. covered' \subseteq Tasks /\ \A t \in covered' : HasRule(t)' /\ rules'[t].on = pref'.on
  BY <1>3, <1>6, <1>11, PolicyFields DEF HasRule, Reached
<1>18. SettingsTypeOK'
  BY <1>1, <1>5, <1>8, <1>11, <1>15, <1>17 DEF SettingsInv, SettingsTypeOK
<1>19. patch.at = "loaded" => HasRule(patch.task)' /\ patch.seen # NoRule
  <2>1. patch.at = "loaded" => patch.task \in Tasks
    BY DEF SettingsInv, SettingsTypeOK, Patching, NoSession
  <2> QED
    BY <2>1, <1>9, <1>11 DEF SettingsInv, RuledTasks, HasRule
<1> QED
  BY <1>11, <1>13, <1>15, <1>16, <1>17, <1>18, <1>19
     DEF SettingsInv, RuledTasks, SavingIsAlone, SavingIsTrue, PolicyReachesRules, AnswerIsAsked

\* Every step of a saving and of a change of one rule keeps it.
LEMMA SettingsStepLemma == SettingsInv /\ [SettingsNext]_settingsVars => SettingsInv'
<1> SUFFICES ASSUME SettingsInv, [SettingsNext]_settingsVars PROVE SettingsInv'
  OBVIOUS
<1>a. SettingsTypeOK /\ RuledTasks /\ SavingIsAlone /\ PolicyReachesRules /\ AnswerIsAsked
  BY DEF SettingsInv, SavingIsTrue
\* Another session marks a saving that is under way, and changes nothing else of it.
<1>b. /\ Overtaken \in Saving \cup {NoSession}
      /\ Overtaken.at = save.at
      /\ save.at # "idle" => /\ Overtaken.asked = save.asked /\ Overtaken.seen = save.seen
                             /\ Overtaken.page = save.page /\ Overtaken.met
  <2>1. CASE save.at = "idle"
    BY <2>1, <1>a DEF SettingsTypeOK, Overtaken
  <2>2. CASE save.at # "idle"
    <3>1. save \in Saving /\ Overtaken = [save EXCEPT !.met = TRUE]
      BY <2>2, <1>a DEF SettingsTypeOK, Overtaken, NoSession
    <3> QED
      BY <3>1 DEF Saving
  <2> QED
    BY <2>1, <2>2
<1>1. ASSUME NEW t \in Tasks, NEW c \in Cooldowns, CreateTask(t, c) PROVE SettingsInv'
  <2>1. ~HasRule(t) /\ rules' = [rules EXCEPT ![t] = [cooldown |-> c, on |-> TRUE]]
        /\ newest' = {t} /\ save' = Overtaken /\ UNCHANGED <<pref, patch, covered, mails>>
    BY <1>1 DEF CreateTask
  <2>2. [cooldown |-> c, on |-> TRUE] \in Policy
    BY DEF Policy
  <2>3. rules' \in Snapshot /\ HasRule(t)' /\ \A u \in Tasks \ {t} : rules'[u] = rules[u]
    BY <2>1, <2>2, <1>a, PolicyFields DEF SettingsTypeOK, Snapshot, HasRule
  <2>4. SettingsTypeOK'
    BY <2>1, <2>3, <1>a, <1>b DEF SettingsTypeOK
  <2>5. \A u \in Tasks : HasRule(u) => HasRule(u)' /\ rules'[u] = rules[u]
    BY <2>1, <2>3 DEF HasRule
  <2>6. RuledTasks' /\ PolicyReachesRules'
    <3>1. patch.at = "loaded" => patch.task \in Tasks
      BY <1>a DEF SettingsTypeOK, Patching, NoSession
    <3> QED
      BY <2>1, <2>3, <2>5, <3>1, <1>a DEF SettingsTypeOK, RuledTasks, PolicyReachesRules
  <2>7. SavingIsAlone' /\ AnswerIsAsked'
    BY <2>1, <2>5, <1>a, <1>b, ZenonT(60) DEF SavingIsAlone, AnswerIsAsked, Reached
  <2> QED
    BY <2>4, <2>6, <2>7 DEF SettingsInv, SavingIsTrue
<1>2. ASSUME NEW p \in Policy, LoadRules(p) PROVE SettingsInv'
  <2>1. save' = [at |-> "loaded", asked |-> p, seen |-> rules, page |-> p, met |-> FALSE]
        /\ UNCHANGED <<pref, rules, newest, patch, covered, mails>>
    BY <1>2 DEF LoadRules
  <2>2. save' \in Saving
    BY <2>1, <1>a DEF SettingsTypeOK, Saving
  <2>3. SettingsTypeOK'
    BY <2>1, <2>2, <1>a DEF SettingsTypeOK
  <2> QED
    BY <2>1, <2>3, <1>a DEF SettingsInv, SavingIsTrue, RuledTasks, SavingIsAlone,
       PolicyReachesRules, AnswerIsAsked, Reached, HasRule
<1>3. CASE SaveSettings
  BY <1>3, SavingWrites
<1>4. CASE EndSave \/ LoseSave
  BY <1>4, <1>a DEF EndSave, LoseSave, NoSession, SettingsInv, SavingIsTrue, SettingsTypeOK, RuledTasks,
     SavingIsAlone, PolicyReachesRules, AnswerIsAsked, Reached, HasRule
<1>5. ASSUME NEW t \in Tasks, NEW c \in Cooldowns, LoadPatch(t, c) PROVE SettingsInv'
  <2>1. HasRule(t) /\ patch' = [at |-> "loaded", task |-> t, asked |-> c, seen |-> rules[t]]
        /\ UNCHANGED <<pref, rules, newest, save, covered, mails>>
    BY <1>5 DEF LoadPatch
  <2>2. rules[t] \in Policy
    BY <2>1, <1>a DEF SettingsTypeOK, Snapshot, HasRule
  <2>3. SettingsTypeOK'
    BY <2>1, <2>2, <1>a DEF SettingsTypeOK, Patching
  <2> QED
    BY <2>1, <2>2, <2>3, <1>a, PolicyFields DEF SettingsInv, SavingIsTrue, RuledTasks, SavingIsAlone,
       PolicyReachesRules, AnswerIsAsked, Reached, HasRule
<1>6. CASE CommitPatch
  <2> DEFINE t == patch.task
             asked == [patch.seen EXCEPT !.cooldown = patch.asked]
  <2>1. /\ patch.at = "loaded" /\ rules' = [rules EXCEPT ![t] = Merged(@, patch.seen, asked)]
        /\ newest' = newest \/ newest' = {t}
        /\ patch' = NoSession /\ save' = Overtaken /\ UNCHANGED <<pref, covered, mails>>
    BY <1>6 DEF CommitPatch
  <2>2. t \in Tasks /\ patch.seen \in Policy /\ patch.asked \in Cooldowns /\ HasRule(t)
    BY <2>1, <1>a DEF SettingsTypeOK, Patching, NoSession, RuledTasks
  <2>3. asked \in Policy /\ asked.on = patch.seen.on /\ rules[t] \in Policy
    BY <2>2, <1>a DEF Policy, SettingsTypeOK, Snapshot, HasRule
  <2>4. Merged(rules[t], patch.seen, asked) \in Policy
        /\ Merged(rules[t], patch.seen, asked).on = rules[t].on
    <3> HIDE DEF asked
    <3> QED
      BY <2>2, <2>3, MergeIs
  <2>5. /\ rules' \in Snapshot /\ rules'[t] \in Policy /\ rules'[t].on = rules[t].on
        /\ \A u \in Tasks \ {t} : rules'[u] = rules[u]
    <3> HIDE DEF asked, t
    <3> QED
      BY <2>1, <2>2, <2>4, <1>a DEF SettingsTypeOK, Snapshot
  <2>6. \A u \in Tasks : HasRule(u) => HasRule(u)' /\ rules'[u].on = rules[u].on
    BY <2>5, PolicyFields DEF HasRule
  <2>7. SettingsTypeOK'
    BY <2>1, <2>2, <2>5, <1>a, <1>b DEF SettingsTypeOK
  <2>8. RuledTasks' /\ PolicyReachesRules'
    BY <2>1, <2>2, <2>6, <1>a DEF SettingsTypeOK, RuledTasks, PolicyReachesRules, NoSession
  <2>9. SavingIsAlone' /\ AnswerIsAsked'
    BY <2>1, <2>6, <1>a, <1>b DEF SavingIsAlone, AnswerIsAsked, Reached
  <2> QED
    BY <2>7, <2>8, <2>9 DEF SettingsInv, SavingIsTrue
<1>7. ASSUME NEW t \in Tasks, SendMail(t) PROVE SettingsInv'
  <2>1. mails' \in 0 .. MaxMails /\ UNCHANGED <<pref, rules, newest, save, patch, covered>>
    BY <1>7, <1>a, SettingsAssumption DEF SendMail, SettingsTypeOK
  <2>2. SettingsTypeOK'
    BY <2>1, <1>a DEF SettingsTypeOK
  <2> QED
    BY <2>1, <2>2, <1>a DEF SettingsInv, SavingIsTrue, RuledTasks, SavingIsAlone,
       PolicyReachesRules, AnswerIsAsked, Reached, HasRule
<1>8. CASE UNCHANGED settingsVars
  BY <1>8, <1>a DEF settingsVars, SettingsInv, SavingIsTrue, SettingsTypeOK, RuledTasks, SavingIsAlone,
     PolicyReachesRules, AnswerIsAsked, Reached, HasRule
<1> QED
  BY <1>1, <1>2, <1>3, <1>4, <1>5, <1>6, <1>7, <1>8 DEF SettingsNext

-----------------------------------------------------------------------------
\* A saving reaches the rules it should, whatever is created and PATCHed beside
\* it, and its answer shows what was asked unless it has met one of those
\* (update_notification_settings and get_notification_settings).
THEOREM SavingStaysTrue == SettingsSpec => [](SettingsTypeOK /\ SavingIsTrue)
<1>1. SettingsInv => SettingsTypeOK /\ SavingIsTrue
  BY DEF SettingsInv
<1> QED
  BY <1>1, SettingsInitLemma, SettingsStepLemma, PTL DEF SettingsSpec

-------------------------------------------------------------------------------
(* Compare intake.                                                           *)

\* A row that was supported is a product page with an offer, and can still be
\* watched unless a store was switched.
RowsStillHold ==
    /\ \A i \in Succeeded : rows[i].url \in GoodPaths /\ rows[i].offer \in Offers
    /\ ~switched => \A i \in Succeeded : StoreOf[rows[i].url] \in enabled

\* Nothing is chosen before the evidence is shown, and nothing committed before
\* the last member was added.
NothingEarly ==
    /\ phase \in {"idle", "comparing", "shown"} => chosen = <<>>
    /\ phase # "created" => group = <<>>
    /\ phase = "created" => group = chosen

\* A comparison is of two or three rows.
RowsAreFew == phase = "comparing" => Len(rows) + Len(todo) \in 2 .. 3

\* What is left of the chosen URLs is their end.
IsEnd(left, whole) ==
    /\ Len(left) <= Len(whole)
    /\ \A k \in 1 .. Len(left) : left[k] = whole[Len(whole) - Len(left) + k]

\* What was checked is of stores with groups, and what was added is the rest.
CheckedThenAdded ==
    /\ phase = "checking" =>
        /\ IsEnd(todo, chosen) /\ members = <<>>
        /\ \A k \in 1 .. Len(chosen) - Len(todo) : StoreOf[chosen[k]] \in groupStores
    /\ phase = "adding" =>
        /\ IsEnd(todo, chosen) /\ Len(members) = Len(chosen) - Len(todo)
        /\ \A k \in DOMAIN members : members[k] = chosen[k]
    /\ phase \in {"adding", "created"} =>
        \A k \in DOMAIN chosen : StoreOf[chosen[k]] \in groupStores

\* What a user's way from the pasted urls to the group rests on.
IntakeInv ==
    /\ CompareTypeOK /\ RowsAreFew /\ RowsStillHold /\ NothingEarly /\ CheckedThenAdded
    /\ ReadyRowsAreAccepted

-----------------------------------------------------------------------------
\* An empty page has nothing to be wrong about.
LEMMA IntakeInitLemma == CompareInit => IntakeInv
<1> SUFFICES ASSUME CompareInit PROVE IntakeInv
  OBVIOUS
<1>1. CompareTypeOK
  <2>1. <<>> \in Seq(Urls) /\ <<>> \in Seq(Row)
    OBVIOUS
  <2> QED
    BY <2>1 DEF CompareInit, CompareTypeOK
<1>2. RowsAreFew /\ RowsStillHold /\ NothingEarly /\ CheckedThenAdded /\ ReadyRowsAreAccepted
  BY DEF CompareInit, RowsAreFew, RowsStillHold, NothingEarly, CheckedThenAdded, ReadyRowsAreAccepted, Succeeded
<1> QED
  BY <1>1, <1>2 DEF IntakeInv

\* The first of what is left is one of all, and so is the rest.
LEMMA EndGoesOn ==
    ASSUME NEW T, NEW left \in Seq(T), NEW whole \in Seq(T), IsEnd(left, whole), left # <<>>
    PROVE  /\ IsEnd(Tail(left), whole) /\ Len(Tail(left)) = Len(left) - 1
           /\ Tail(left) \in Seq(T) /\ Head(left) \in T
           /\ Len(whole) - Len(left) + 1 \in DOMAIN whole
           /\ Head(left) = whole[Len(whole) - Len(left) + 1]
<1>1. Len(left) \in Nat /\ Len(left) > 0 /\ Len(whole) \in Nat
  OBVIOUS
<1>2. Head(left) = left[1]
  OBVIOUS
<1>3. Len(Tail(left)) = Len(left) - 1 /\ \A k \in 1 .. Len(left) - 1 : Tail(left)[k] = left[k + 1]
  BY <1>1
<1>4. Len(left) <= Len(whole) /\ \A k \in 1 .. Len(left) : left[k] = whole[Len(whole) - Len(left) + k]
  BY DEF IsEnd
<1>5. Head(left) = whole[Len(whole) - Len(left) + 1] /\ Head(left) \in T
  BY <1>1, <1>2, <1>4
<1>6. Tail(left) \in Seq(T) /\ Len(whole) - Len(left) + 1 \in DOMAIN whole
  BY <1>1, <1>4
<1>7. IsEnd(Tail(left), whole)
  <2>1. ASSUME NEW k \in 1 .. Len(left) - 1
        PROVE  Tail(left)[k] = whole[Len(whole) - (Len(left) - 1) + k]
    <3>1. k + 1 \in 1 .. Len(left) /\ Len(whole) - Len(left) + (k + 1) = Len(whole) - (Len(left) - 1) + k
      BY <1>1
    <3> QED
      BY <1>3, <1>4, <3>1
  <2> QED
    BY <1>1, <1>3, <1>4, <2>1 DEF IsEnd
<1> QED
  BY <1>3, <1>5, <1>6, <1>7

\* Rows that are ready are neither refused by a check nor by an addition.
LEMMA ReadyAreTaken ==
    ASSUME IntakeInv, ~switched, NEW u \in RowUrls(GroupReady)
    PROVE  Groupable(u) /\ Watchable(u)
BY DEF IntakeInv, RowsStillHold, RowUrls, GroupReady, Groupable, Watchable

\* Every step of the intake keeps it.
LEMMA IntakeStepLemma == IntakeInv /\ [CompareNext]_compareVars => IntakeInv'
<1> SUFFICES ASSUME IntakeInv, [CompareNext]_compareVars PROVE IntakeInv'
  OBVIOUS
<1> USE DEF IntakeInv
<1>1. ASSUME NEW s \in Stores, SwitchStore(s) PROVE IntakeInv'
  <2>1. CompareTypeOK'
    BY <1>1 DEF SwitchStore, CompareTypeOK
  <2>2. switched' /\ UNCHANGED <<groupStores, phase, todo, rows, chosen, members, group>>
    BY <1>1 DEF SwitchStore
  <2>3. RowsStillHold'
    BY <2>2 DEF RowsStillHold, Succeeded
  <2>4. (RowsAreFew /\ NothingEarly /\ CheckedThenAdded /\ ReadyRowsAreAccepted)'
    BY <2>2 DEF RowsAreFew, NothingEarly, CheckedThenAdded, ReadyRowsAreAccepted
  <2> QED
    BY <2>1, <2>3, <2>4
<1>2. CASE BeginCompare
  <2>1. CompareTypeOK'
    <3>1. PICK n \in 2 .. 3 : \E urls \in [1 .. n -> Urls] : todo' = urls
      BY <1>2 DEF BeginCompare
    <3>2. todo' \in Seq(Urls) /\ <<>> \in Seq(Row)
      BY <3>1
    <3> QED
      BY <1>2, <3>2 DEF BeginCompare, CompareTypeOK
  <2>2. (RowsAreFew /\ RowsStillHold /\ NothingEarly /\ CheckedThenAdded /\ ReadyRowsAreAccepted)'
    BY <1>2 DEF BeginCompare, RowsAreFew, RowsStillHold, NothingEarly, CheckedThenAdded, ReadyRowsAreAccepted,
       Succeeded
  <2> QED
    BY <2>1, <2>2
<1>3. CASE CompareRow
  <2>a. Head(todo) \in Urls /\ Tail(todo) \in Seq(Urls) /\ rows \in Seq(Row)
    BY <1>3 DEF CompareRow, CompareTypeOK
  <2>b. Resolved(Head(todo)) = "supported" =>
           Head(todo) \in GoodPaths /\ StoreOf[Head(todo)] \in enabled
    BY DEF Resolved
  <2>c. Resolved(Head(todo)) \in Intakes
    BY DEF Resolved, Intakes
  <2> DEFINE Holds(r) == r.intake = "supported" =>
                 r.url \in GoodPaths /\ StoreOf[r.url] \in enabled /\ r.offer \in Offers
             R(c, o) == [url |-> Head(todo), intake |-> c, offer |-> o]
  <2>d. R(Resolved(Head(todo)), NoOffer) \in Row /\ R("offer_fetch_failed", NoOffer) \in Row
        /\ \A o \in Offers : R("supported", o) \in Row
    BY <2>a, <2>c DEF Row, Intakes
  <2>e. /\ Resolved(Head(todo)) # "supported" => Holds(R(Resolved(Head(todo)), NoOffer))
        /\ Holds(R("offer_fetch_failed", NoOffer))
        /\ Resolved(Head(todo)) = "supported" => \A o \in Offers : Holds(R("supported", o))
    BY <2>b
  <2>f. \/ /\ Resolved(Head(todo)) # "supported"
           /\ rows' = Append(rows, R(Resolved(Head(todo)), NoOffer))
        \/ rows' = Append(rows, R("offer_fetch_failed", NoOffer))
        \/ \E o \in Offers : /\ rows' = Append(rows, R("supported", o))
                            /\ Resolved(Head(todo)) = "supported"
    BY <1>3 DEF CompareRow
  <2>1. PICK r \in Row : rows' = Append(rows, r) /\ Holds(r)
    <3> HIDE DEF R, Holds
    <3> QED
      BY <2>d, <2>e, <2>f
  <2>2. CompareTypeOK'
    BY <1>3, <2>1 DEF CompareRow, CompareTypeOK
  <2>3. RowsStillHold'
    BY <1>3, <2>1 DEF CompareRow, RowsStillHold, Succeeded, CompareTypeOK
  <2>4. (NothingEarly /\ CheckedThenAdded /\ ReadyRowsAreAccepted)'
    BY <1>3 DEF CompareRow, NothingEarly, CheckedThenAdded, ReadyRowsAreAccepted
  <2>5. RowsAreFew'
    BY <1>3, <2>1, <2>a DEF CompareRow, RowsAreFew, CompareTypeOK
  <2> QED
    BY <2>2, <2>3, <2>4, <2>5
<1>4. CASE FailCompare
  <2>1. CompareTypeOK'
    BY <1>4 DEF FailCompare, CompareTypeOK
  <2>2. (RowsAreFew /\ RowsStillHold /\ NothingEarly /\ CheckedThenAdded /\ ReadyRowsAreAccepted)'
    BY <1>4 DEF FailCompare, RowsAreFew, RowsStillHold, NothingEarly, CheckedThenAdded, ReadyRowsAreAccepted,
       Succeeded
  <2> QED
    BY <2>1, <2>2
<1>5. CASE ShowEvidence
  <2>1. CompareTypeOK'
    <3>1. Len(rows) \in Nat /\ Len(todo) = 0 /\ Len(rows) + Len(todo) \in 2 .. 3
      BY <1>5 DEF ShowEvidence, CompareTypeOK, RowsAreFew
    <3>2. Len(rows) >= 2
      BY <3>1
    <3> QED
      BY <1>5, <3>2 DEF ShowEvidence, CompareTypeOK
  <2>2. (RowsAreFew /\ RowsStillHold /\ NothingEarly /\ CheckedThenAdded /\ ReadyRowsAreAccepted)'
    BY <1>5 DEF ShowEvidence, RowsAreFew, RowsStillHold, NothingEarly, CheckedThenAdded, ReadyRowsAreAccepted,
       Succeeded
  <2> QED
    BY <2>1, <2>2
<1>6. CASE AskForGroup
  <2>1. chosen' \in Seq(Urls) /\ Len(chosen') = 2
    <3>1. PICK i \in DOMAIN rows, j \in DOMAIN rows : chosen' = <<rows[i].url, rows[j].url>>
      BY <1>6 DEF AskForGroup
    <3>2. rows[i].url \in Urls /\ rows[j].url \in Urls
      <4>1. rows[i] \in Row /\ rows[j] \in Row
        BY DEF CompareTypeOK
      <4> QED
        BY <4>1 DEF Row
    <3> QED
      BY <3>1, <3>2
  <2>2. CompareTypeOK'
    BY <1>6, <2>1 DEF AskForGroup, CompareTypeOK
  <2>3. IsEnd(todo', chosen')
    BY <1>6, <2>1 DEF AskForGroup, IsEnd
  <2>4. (RowsAreFew /\ RowsStillHold /\ NothingEarly /\ CheckedThenAdded /\ ReadyRowsAreAccepted)'
    BY <1>6, <2>1, <2>3 DEF AskForGroup, RowsAreFew, RowsStillHold, NothingEarly, CheckedThenAdded,
       ReadyRowsAreAccepted, Succeeded
  <2> QED
    BY <2>2, <2>4
<1>7. CASE CheckCandidate
  <2> DEFINE k == Len(chosen) - Len(todo) + 1
  <2>1. /\ IsEnd(Tail(todo), chosen) /\ Len(Tail(todo)) = Len(todo) - 1
        /\ Tail(todo) \in Seq(Urls) /\ k \in DOMAIN chosen /\ Head(todo) = chosen[k]
    BY <1>7, EndGoesOn DEF CheckCandidate, CheckedThenAdded, CompareTypeOK
  <2>2. CompareTypeOK'
    BY <1>7, <2>1 DEF CheckCandidate, CompareTypeOK
  <2>3. StoreOf[chosen[k]] \in groupStores
    BY <1>7, <2>1 DEF CheckCandidate, Groupable
  <2>4. \A m \in 1 .. Len(chosen) - Len(todo') : StoreOf[chosen[m]] \in groupStores
    <3>1. Len(chosen) - Len(todo') = k /\ Len(todo) \in Nat /\ Len(chosen) \in Nat
      BY <1>7, <2>1 DEF CheckCandidate, CompareTypeOK
    <3>2. \A m \in 1 .. Len(chosen) - Len(todo) : StoreOf[chosen[m]] \in groupStores
      BY <1>7 DEF CheckCandidate, CheckedThenAdded
    <3> QED
      BY <2>3, <3>1, <3>2
  <2>5. (RowsAreFew /\ RowsStillHold /\ NothingEarly /\ CheckedThenAdded /\ ReadyRowsAreAccepted)'
    BY <1>7, <2>1, <2>4 DEF CheckCandidate, RowsAreFew, RowsStillHold, NothingEarly, CheckedThenAdded,
       ReadyRowsAreAccepted, Succeeded
  <2> QED
    BY <2>2, <2>5
<1>8. CASE InsertGroup
  <2>1. CompareTypeOK'
    BY <1>8 DEF InsertGroup, CompareTypeOK
  <2>2. members = <<>>
    BY <1>8 DEF InsertGroup, CheckedThenAdded
  <2>3. \A m \in DOMAIN chosen : StoreOf[chosen[m]] \in groupStores
    BY <1>8 DEF InsertGroup, CheckedThenAdded, CompareTypeOK
  <2>4. IsEnd(chosen, chosen)
    BY DEF IsEnd, CompareTypeOK
  <2>5. (RowsAreFew /\ RowsStillHold /\ NothingEarly /\ CheckedThenAdded /\ ReadyRowsAreAccepted)'
    BY <1>8, <2>2, <2>3, <2>4 DEF InsertGroup, RowsAreFew, RowsStillHold, NothingEarly, CheckedThenAdded,
       ReadyRowsAreAccepted, Succeeded, CompareTypeOK
  <2> QED
    BY <2>1, <2>5
<1>9. CASE AddMember
  <2> DEFINE k == Len(chosen) - Len(todo) + 1
  <2>1. /\ IsEnd(Tail(todo), chosen) /\ Len(Tail(todo)) = Len(todo) - 1
        /\ Tail(todo) \in Seq(Urls) /\ k \in DOMAIN chosen /\ Head(todo) = chosen[k]
        /\ Head(todo) \in Urls
    BY <1>9, EndGoesOn DEF AddMember, CheckedThenAdded, CompareTypeOK
  <2>2. CompareTypeOK'
    BY <1>9, <2>1 DEF AddMember, CompareTypeOK
  <2>3. /\ Len(members') = Len(chosen) - Len(todo') /\ \A m \in DOMAIN members' : members'[m] = chosen[m]
    <3>1. Len(members) = Len(chosen) - Len(todo) /\ \A m \in DOMAIN members : members[m] = chosen[m]
      BY <1>9 DEF AddMember, CheckedThenAdded
    <3>2. /\ members' = Append(members, Head(todo)) /\ todo' = Tail(todo)
          /\ members \in Seq(Urls) /\ Len(todo) \in Nat /\ Len(chosen) \in Nat
      BY <1>9 DEF AddMember, CompareTypeOK
    <3> QED
      BY <2>1, <3>1, <3>2
  <2>5. (RowsAreFew /\ RowsStillHold /\ NothingEarly /\ CheckedThenAdded /\ ReadyRowsAreAccepted)'
    BY <1>9, <2>1, <2>3 DEF AddMember, RowsAreFew, RowsStillHold, NothingEarly, CheckedThenAdded,
       ReadyRowsAreAccepted, Succeeded
  <2> QED
    BY <2>2, <2>5
<1>10. CASE Refuse
  <2>1. CompareTypeOK'
    BY <1>10 DEF Refuse, CompareTypeOK
  <2>2. Len(chosen) - Len(todo) + 1 \in DOMAIN chosen
        /\ Head(todo) = chosen[Len(chosen) - Len(todo) + 1]
    BY <1>10, EndGoesOn DEF Refuse, CheckedThenAdded, CompareTypeOK
  <2>3. (\A m \in DOMAIN chosen : chosen[m] \in RowUrls(GroupReady)) => switched
    BY <1>10, <2>2, ReadyAreTaken DEF Refuse
  <2>4. ReadyRowsAreAccepted'
    BY <1>10, <2>3 DEF Refuse, ReadyRowsAreAccepted, RowUrls, GroupReady, Succeeded
  <2>5. (RowsAreFew /\ RowsStillHold /\ NothingEarly /\ CheckedThenAdded)'
    BY <1>10 DEF Refuse, RowsAreFew, RowsStillHold, NothingEarly, CheckedThenAdded, Succeeded
  <2> QED
    BY <2>1, <2>4, <2>5
<1>11. CASE CommitGroup
  <2>1. CompareTypeOK'
    BY <1>11 DEF CommitGroup, CompareTypeOK
  <2>2. members = chosen
    BY <1>11 DEF CommitGroup, CheckedThenAdded, CompareTypeOK
  <2>3. (RowsAreFew /\ RowsStillHold /\ NothingEarly /\ CheckedThenAdded /\ ReadyRowsAreAccepted)'
    BY <1>11, <2>2 DEF CommitGroup, RowsAreFew, RowsStillHold, NothingEarly, CheckedThenAdded,
       ReadyRowsAreAccepted, Succeeded
  <2> QED
    BY <2>1, <2>3
<1>12. CASE UNCHANGED compareVars
  BY <1>12 DEF compareVars, CompareTypeOK, RowsAreFew, RowsStillHold, NothingEarly, CheckedThenAdded,
     ReadyRowsAreAccepted, Succeeded, GroupReady, RowUrls
<1> QED
  BY <1>1, <1>2, <1>3, <1>4, <1>5, <1>6, <1>7, <1>8, <1>9, <1>10, <1>11, <1>12 DEF CompareNext

-----------------------------------------------------------------------------
\* What create_watch_group commits are the chosen rows, all of them and all of
\* stores with groups; rows that were ready it refuses only after a switch.
THEOREM IntakeStaysSafe == CompareSpec => [](CompareTypeOK /\ IntakeIsSafe)
<1>1. IntakeInv => CompareTypeOK /\ IntakeIsSafe
  <2> SUFFICES ASSUME IntakeInv PROVE GroupIsWhole
    BY DEF IntakeInv, IntakeIsSafe
  <2> QED
    BY DEF IntakeInv, GroupIsWhole, NothingEarly, CheckedThenAdded
<1> QED
  BY <1>1, IntakeInitLemma, IntakeStepLemma, PTL DEF CompareSpec

-----------------------------------------------------------------------------

\* The score of two offers is one of build_match_details, 0 to 100.
LEMMA ScoreIsBounded ==
    ASSUME NEW l \in Offers, NEW r \in Offers
    PROVE  Score(l, r) \in 0 .. 100
<1> DEFINE raw == Similarity[l.title, r.title] + Bonus(l.brand, r.brand, 8, -18)
                                               + Bonus(l.size, r.size, 10, -15)
<1>1. Similarity[l.title, r.title] \in 0 .. 100
  BY CompareAssumption, Zenon
<1>2. Bonus(l.brand, r.brand, 8, -18) \in Int /\ Bonus(l.size, r.size, 10, -15) \in Int
  BY DEF Bonus
<1>3. raw \in Int
  <2>1. \A a, b, c \in Int : a + b + c \in Int
    OBVIOUS
  <2>0. 0 .. 100 \subseteq Int
    OBVIOUS
  <2>2. Similarity[l.title, r.title] \in Int
    BY <1>1, <2>0, Zenon
  <2> QED
    BY <1>2, <2>1, <2>2, Zenon
<1> HIDE DEF raw
<1> DEFINE low == Min({raw, 100})
<1>4. low \in {raw, 100} /\ low <= 100
  <2>1. \E x \in {raw, 100} : \A y \in {raw, 100} : x <= y
    BY <1>3
  <2> QED
    BY <2>1, <1>3 DEF Min
<1>5. low \in Int /\ low <= 100
  BY <1>3, <1>4
<1> HIDE DEF low
<1>6. Max({0, low}) \in 0 .. 100
  <2>1. \E x \in {0, low} : \A y \in {0, low} : x >= y
    BY <1>5
  <2>2. Max({0, low}) \in {0, low} /\ Max({0, low}) >= 0
    BY <2>1, <1>5 DEF Max
  <2> QED
    BY <1>5, <2>2
<1> QED
  BY <1>6 DEF Score, low, raw

\* The strongest score is one of a pair, or 0 where no two rows have succeeded.
LEMMA StrongestIsOfAPair ==
    ASSUME IntakeInv
    PROVE  Strongest \in 0 .. 100 /\ (Strongest # 0 => \E p \in Pairs : ScoreOf(p) = Strongest)
<1> DEFINE S == {0} \cup {ScoreOf(p) : p \in Pairs}
<1>1. ASSUME NEW p \in Pairs PROVE ScoreOf(p) \in 0 .. 100
  <2>1. p[1] \in Succeeded /\ p[2] \in Succeeded
    BY <1>1 DEF Pairs
  <2>2. rows[p[1]].offer \in Offers /\ rows[p[2]].offer \in Offers
    BY <2>1 DEF IntakeInv, RowsStillHold
  <2> QED
    BY <2>2, ScoreIsBounded DEF ScoreOf
<1>2. S \in SUBSET (0 .. 100) /\ S # {}
  BY <1>1
<1>3. Max(S) \in S
  BY <1>2, BoundedHasMax
<1> QED
  BY <1>2, <1>3 DEF Strongest

\* What the summary counts are rows of the comparison.
LEMMA CountsAreRight ==
    ASSUME IntakeInv
    PROVE  /\ IsFiniteSet(Succeeded) /\ Cardinality(Succeeded) \in Nat
           /\ Cardinality(GroupReady) \in Nat
           /\ Cardinality(GroupReady) <= Cardinality(Succeeded)
           /\ Cardinality(Succeeded) = 0 <=> Succeeded = {}
           /\ Pairs # {} => Cardinality(Succeeded) >= 2
<1>1. IsFiniteSet(Succeeded)
  <2>1. DOMAIN rows = 1 .. Len(rows) /\ Len(rows) \in Nat
    BY DEF IntakeInv, CompareTypeOK
  <2>2. IsFiniteSet(1 .. Len(rows))
    BY <2>1, FS_Interval
  <2> QED
    BY <2>1, <2>2, FS_Subset DEF Succeeded
<1>2. GroupReady \subseteq Succeeded
  BY DEF GroupReady
<1>3. IsFiniteSet(GroupReady) /\ Cardinality(GroupReady) <= Cardinality(Succeeded)
  BY <1>1, <1>2, FS_Subset
<1>4. Cardinality(Succeeded) \in Nat /\ Cardinality(GroupReady) \in Nat
  BY <1>1, <1>3, FS_CardinalityType
<1>5. Cardinality(Succeeded) = 0 <=> Succeeded = {}
  BY <1>1, FS_EmptySet
<1>6. ASSUME NEW p \in Pairs PROVE Cardinality(Succeeded) >= 2
  <2>1. p[1] \in Succeeded /\ p[2] \in Succeeded /\ p[1] # p[2]
    BY <1>6 DEF Pairs, Succeeded, IntakeInv, CompareTypeOK
  <2>2. Cardinality(Succeeded) # 0
    BY <2>1, <1>5
  <2>3. Cardinality(Succeeded) # 1
    BY <2>1, <1>1, FS_Singleton
  <2> QED
    BY <2>2, <2>3, <1>4
<1> QED
  BY <1>1, <1>3, <1>4, <1>5, <1>6

\* To wait is advised of two ready rows only, without a warning about them.
LEMMA EvidenceAgreesLemma == IntakeInv => EvidenceAgrees
<1> SUFFICES ASSUME IntakeInv PROVE EvidenceAgrees
  OBVIOUS
<1>1. ASSUME Verdict = "wait"
      PROVE  Reason = "multi_candidate_strong_match"
  BY <1>1 DEF Verdict, Abstaining
<1>2. ASSUME Reason = "multi_candidate_strong_match"
      PROVE  Cardinality(GroupReady) >= 2 /\ Strongest >= High
  BY <1>2, CountsAreRight, StrongestIsOfAPair DEF Reason, High
<1>3. ASSUME Verdict = "wait"
      PROVE  RiskNotes \subseteq {"unsupported_inputs_present", "failed_fetch_candidates_present"}
  <2>1. ~(Cardinality(Succeeded) < 2) /\ ~(Strongest < High)
    BY <1>1, <1>2, <1>3, CountsAreRight, StrongestIsOfAPair DEF High
  <2> QED
    BY <2>1 DEF RiskNotes, NoteIf
<1>4. ASSUME Action = "retry_compare"
      PROVE  "limited_successful_candidates" \in RiskNotes
  <2>1. Reason = "no_successful_candidates"
    BY <1>4 DEF Action
  <2>2. Succeeded = {}
    BY <2>1, CountsAreRight, StrongestIsOfAPair DEF Reason, High
  <2> QED
    BY <2>2, CountsAreRight DEF RiskNotes, NoteIf
<1> QED
  BY <1>1, <1>2, <1>3, <1>4 DEF EvidenceAgrees

\* Too few rows and a weak match are never noted together.
LEMMA NotesFit == IntakeInv => NoRiskIsDropped
<1> SUFFICES ASSUME IntakeInv PROVE Cardinality(RiskNotes) <= 3
  BY DEF NoRiskIsDropped, NotesReferredTo
<1> DEFINE a == "unsupported_inputs_present"
           b == "failed_fetch_candidates_present"
<1>1. \E c : RiskNotes \subseteq {a, b, c}
  <2>1. CASE Cardinality(Succeeded) < 2
    <3>1. Pairs = {}
      BY <2>1, CountsAreRight
    <3>2. RiskNotes \subseteq {a, b, "limited_successful_candidates"}
      BY <3>1 DEF RiskNotes, NoteIf
    <3> QED
      BY <3>2
  <2>2. CASE ~(Cardinality(Succeeded) < 2)
    <3>1. RiskNotes \subseteq {a, b, "match_confidence_not_high"}
      BY <2>2 DEF RiskNotes, NoteIf
    <3> QED
      BY <3>1
  <2> QED
    BY <2>1, <2>2
<1>2. ASSUME NEW c PROVE IsFiniteSet({a, b, c}) /\ Cardinality({a, b, c}) <= 3
  <2>1. IsFiniteSet({a}) /\ Cardinality({a}) = 1
    BY FS_Singleton
  <2>2. IsFiniteSet({a} \cup {b}) /\ Cardinality({a} \cup {b}) <= 2
    BY <2>1, FS_AddElement
  <2>3. IsFiniteSet(({a} \cup {b}) \cup {c}) /\ Cardinality(({a} \cup {b}) \cup {c}) <= 3
    <3>1. Cardinality({a} \cup {b}) \in Nat
      BY <2>2, FS_CardinalityType
    <3> QED
      BY <2>2, <3>1, FS_AddElement
  <2>4. {a, b, c} = ({a} \cup {b}) \cup {c}
    OBVIOUS
  <2> QED
    BY <2>3, <2>4
<1>3. PICK c : RiskNotes \subseteq {a, b, c}
  BY <1>1
<1>4. Cardinality(RiskNotes) \in Nat /\ Cardinality(RiskNotes) <= Cardinality({a, b, c})
  BY <1>2, <1>3, FS_Subset, FS_CardinalityType
<1> QED
  <2>1. Cardinality({a, b, c}) \in Nat /\ Cardinality({a, b, c}) <= 3
    BY <1>2, FS_CardinalityType
  <2> QED
    BY <1>4, <2>1

\* Where all stores group, the strong pair is one of ready rows.
LEMMA HintHasPair == IntakeInv => GroupHintHasPair
<1> SUFFICES ASSUME IntakeInv, AllStoresGroup, Action = "create_watch_group"
             PROVE  \E p \in GroupReady \X GroupReady : p[1] # p[2] /\ ScoreOf(p) >= High
  BY DEF GroupHintHasPair
<1>1. Reason = "multi_candidate_strong_match"
  BY DEF Action, Abstaining
<1>2. Strongest >= High
  BY <1>1, CountsAreRight, StrongestIsOfAPair DEF Reason, High
<1>3. PICK p \in Pairs : ScoreOf(p) >= High
  BY <1>2, StrongestIsOfAPair DEF High
<1>4. GroupReady = Succeeded
  <2>1. \A i \in Succeeded : rows[i].url \in GoodPaths
    BY DEF IntakeInv, RowsStillHold
  <2>2. \A u \in GoodPaths : StoreOf[u] \in Stores
    BY CompareAssumption
  <2> QED
    BY <2>1, <2>2 DEF GroupReady, AllStoresGroup
<1>5. p \in Succeeded \X Succeeded /\ p[1] # p[2]
  BY <1>3 DEF Pairs, Succeeded, IntakeInv, CompareTypeOK
<1> QED
  BY <1>3, <1>4, <1>5

\* The hint, the risk notes and the recommendation that are built from the rows
\* of a comparison agree (build_match_details and its callers).
THEOREM EvidenceStaysSound == CompareSpec => []EvidenceIsSound
<1>1. IntakeInv => EvidenceIsSound
  BY EvidenceAgreesLemma, NotesFit, HintHasPair DEF EvidenceIsSound
<1> QED
  BY <1>1, IntakeInitLemma, IntakeStepLemma, PTL DEF CompareSpec

-------------------------------------------------------------------------------
(* The pages of the operator.                                                *)

\* A page and what its queries have seen.
PageRecord ==
    [kind : Kinds \cup {"none"}, at : {"idle", "open", "asking", "built", "sent"}, left : Seq(Parts),
     saw : UNION {[S -> SUBSET Runs] : S \in SUBSET Parts}, listed : SUBSET TaskRuns, shown : SUBSET TaskRuns]

\* Where the runs, their files, the lock and the pages may be.
PagesAreTyped ==
    /\ pagePhase \in [Runs -> {"absent", "loaded", "running", "fetched", "flushed", "written",
                                  "ended", "lost"}]
    /\ evidenceOf \in [TaskRuns -> {"absent", "there", "failed", "removed"}]
    /\ rowLock \in Runs \cup Pages \cup {NoOne}
    /\ page \in [Pages -> PageRecord]

\* From its first flush to its end a run of the task holds the row, and it does
\* not end before its files are written or have failed.
RunsHoldRow ==
    \A r \in TaskRuns :
        /\ pagePhase[r] \in {"flushed", "written"} => rowLock = r
        /\ pagePhase[r] \in {"written", "ended"} => evidenceOf[r] # "absent"

\* Page g has asked the first n of its queries, each after the one before; what
\* was seen has ended.
SeesUpTo(g, n, ended) ==
    LET q == Queries(g.kind)
    IN  /\ g.left = SubSeq(q, n + 1, Len(q))
        /\ DOMAIN g.saw = {q[i] : i \in 1 .. n}
        /\ \A i \in 1 .. n : g.saw[q[i]] \subseteq ended
        /\ \A i, j \in 1 .. n : i < j => g.saw[q[i]] \subseteq g.saw[q[j]]

\* The page in hand has asked some of its queries, and all of them once it is
\* built or a provider is asked.
SeesInOrder(g, ended) ==
    g.at \in {"open", "asking", "built"} =>
        /\ g.kind \in Kinds
        /\ \E n \in 0 .. Len(Queries(g.kind)) : SeesUpTo(g, n, ended)
        /\ g.at # "open" => g.left = <<>>

\* The page of a task, and no other, holds the row from its first query on, and
\* what it sees of the task is what has ended by now.
HoldsRow(p, g, lock, ended) ==
    /\ lock = p => g.kind = "task" /\ g.at \in {"open", "built"}
    /\ g.kind = "task" => g.at # "asking"
    /\ g.kind = "task" /\ g.at \in {"open", "built"} =>
          \/ DOMAIN g.saw = {}
          \/ lock = p /\ \A part \in DOMAIN g.saw : g.saw[part] \cap TaskRuns = ended \cap TaskRuns

\* What the page lists has ended, and what it does not show has no file.
ShowsFiles(g, ended, files) ==
    g.kind = "task" /\ g.at \in {"open", "built"} =>
        /\ g.listed \subseteq ended \cap TaskRuns
        /\ g.at = "built" => \A r \in g.listed \ g.shown : files[r] \in {"failed", "removed"}

\* What the pages rest on.
PagesInv ==
    /\ PagesAreTyped /\ RunsHoldRow
    /\ \A p \in Pages : /\ SeesInOrder(page[p], Ended) /\ HoldsRow(p, page[p], rowLock, Ended)
                        /\ ShowsFiles(page[p], Ended, evidenceOf)

-----------------------------------------------------------------------------
\* A run that moves: what has ended stays so, its row is locked, and what a page
\* holds the row for does not change.
LEMMA RunMoves ==
    ASSUME PagesInv, NEW r \in Runs, RunSteps(r) \/ LoseRun(r) \/ CleanUp(r)
    PROVE  /\ page' = page
           /\ pagePhase' \in [Runs -> {"absent", "loaded", "running", "fetched", "flushed", "written",
                                       "ended", "lost"}]
           /\ evidenceOf' \in [TaskRuns -> {"absent", "there", "failed", "removed"}]
           /\ rowLock' \in Runs \cup Pages \cup {NoOne}
           /\ RunsHoldRow'
           /\ Ended \subseteq Ended'
           /\ \A p \in Pages : (rowLock = p => rowLock' = p) /\ (rowLock' = p => rowLock = p)
           /\ rowLock \in Pages => Ended' \cap TaskRuns = Ended \cap TaskRuns
           /\ \A s \in Ended \cap TaskRuns :
                 evidenceOf[s] \in {"failed", "removed"} => evidenceOf'[s] \in {"failed", "removed"}
<1>1. /\ pagePhase \in [Runs -> {"absent", "loaded", "running", "fetched", "flushed", "written",
                                  "ended", "lost"}]
      /\ evidenceOf \in [TaskRuns -> {"absent", "there", "failed", "removed"}]
      /\ rowLock \in Runs \cup Pages \cup {NoOne} /\ RunsHoldRow
  BY DEF PagesInv, PagesAreTyped
<1>2. /\ TaskRuns \cap GroupRuns = {} /\ Pages \cap Runs = {} /\ NoOne \notin Runs \cup Pages
      /\ Runs = TaskRuns \cup GroupRuns
  BY PagesAssumption DEF Runs, NoOne
<1>3. CASE LoadHistory(r) \/ CommitRunning(r) \/ FetchOfferOf(r)
  <2>1. PICK to \in {"loaded", "running", "fetched"} :
           /\ pagePhase' = [pagePhase EXCEPT ![r] = to] /\ pagePhase[r] \in {"absent", "loaded", "running"}
           /\ UNCHANGED <<rowLock, evidenceOf, page>>
    BY <1>3 DEF LoadHistory, CommitRunning, FetchOfferOf, Moves
  <2> QED
    BY <1>1, <1>2, <2>1 DEF RunsHoldRow, Ended
<1>4. CASE FlushRun(r)
  <2>1. /\ pagePhase' = [pagePhase EXCEPT ![r] = "flushed"] /\ pagePhase[r] \in {"fetched", "running"}
        /\ UNCHANGED <<evidenceOf, page>>
        /\ \/ rowLock = NoOne /\ rowLock' = r
           \/ r \notin TaskRuns /\ rowLock' = rowLock
    BY <1>4 DEF FlushRun, Moves
  <2> QED
    BY <1>1, <1>2, <2>1 DEF RunsHoldRow, Ended
<1>5. CASE WriteEvidenceOf(r)
  <2>1. /\ pagePhase' = [pagePhase EXCEPT ![r] = "written"] /\ pagePhase[r] = "flushed"
        /\ UNCHANGED <<rowLock, page>>
        /\ IF r \in TaskRuns
             THEN \E outcome \in {"there", "failed"} : evidenceOf' = [evidenceOf EXCEPT ![r] = outcome]
             ELSE UNCHANGED evidenceOf
    BY <1>5 DEF WriteEvidenceOf, Moves
  <2>2. /\ evidenceOf' \in [TaskRuns -> {"absent", "there", "failed", "removed"}]
        /\ r \in TaskRuns => evidenceOf'[r] # "absent"
        /\ \A s \in TaskRuns \ {r} : evidenceOf'[s] = evidenceOf[s]
    BY <1>1, <2>1
  <2> QED
    BY <1>1, <1>2, <2>1, <2>2 DEF RunsHoldRow, Ended
<1>6. CASE CommitEnd(r)
  <2>1. /\ pagePhase' = [pagePhase EXCEPT ![r] = "ended"] /\ pagePhase[r] = "written"
        /\ UNCHANGED <<evidenceOf, page>> /\ rowLock' = IF rowLock = r THEN NoOne ELSE rowLock
    BY <1>6 DEF CommitEnd, Moves, Unlocked
  <2>2. r \in TaskRuns => rowLock = r
    BY <1>1, <2>1 DEF RunsHoldRow
  <2> QED
    BY <1>1, <1>2, <2>1, <2>2 DEF RunsHoldRow, Ended
<1>7. CASE LoseRun(r)
  <2>1. /\ pagePhase' = [pagePhase EXCEPT ![r] = "lost"]
        /\ pagePhase[r] \in {"loaded", "running", "fetched", "flushed", "written"}
        /\ UNCHANGED <<evidenceOf, page>> /\ rowLock' = IF rowLock = r THEN NoOne ELSE rowLock
    BY <1>7 DEF LoseRun, Open, Moves, Unlocked
  <2> QED
    BY <1>1, <1>2, <2>1 DEF RunsHoldRow, Ended
<1>8. CASE CleanUp(r)
  <2>1. /\ r \in TaskRuns /\ evidenceOf' = [evidenceOf EXCEPT ![r] = "removed"]
        /\ UNCHANGED <<pagePhase, rowLock, page>>
    BY <1>8 DEF CleanUp
  <2> QED
    BY <1>1, <1>2, <2>1 DEF RunsHoldRow, Ended
<1> QED
  BY <1>3, <1>4, <1>5, <1>6, <1>7, <1>8 DEF RunSteps

\* A run keeps what the pages rest on.
LEMMA RunKeepsPages ==
    ASSUME PagesInv, NEW r \in Runs, RunSteps(r) \/ LoseRun(r) \/ CleanUp(r)
    PROVE  PagesInv'
<1>1. PagesAreTyped' /\ RunsHoldRow'
  BY RunMoves DEF PagesInv, PagesAreTyped
<1>2. ASSUME NEW p \in Pages PROVE SeesInOrder(page[p], Ended)'
  <2>1. SeesInOrder(page[p], Ended) /\ page' = page /\ Ended \subseteq Ended'
    BY RunMoves DEF PagesInv
  <2> SUFFICES ASSUME page[p].at \in {"open", "asking", "built"}
               PROVE  /\ page[p].kind \in Kinds
                      /\ \E n \in 0 .. Len(Queries(page[p].kind)) : SeesUpTo(page[p], n, Ended')
                      /\ page[p].at # "open" => page[p].left = <<>>
    BY <2>1, Zenon DEF SeesInOrder
  <2>2. /\ page[p].kind \in Kinds
        /\ \E n \in 0 .. Len(Queries(page[p].kind)) : SeesUpTo(page[p], n, Ended)
        /\ page[p].at # "open" => page[p].left = <<>>
    BY <2>1, Zenon DEF SeesInOrder
  <2>3. ASSUME NEW n, SeesUpTo(page[p], n, Ended) PROVE SeesUpTo(page[p], n, Ended')
    BY <2>1, <2>3, Zenon DEF SeesUpTo
  <2> QED
    BY <2>2, <2>3, Zenon
<1>3. ASSUME NEW p \in Pages PROVE HoldsRow(p, page[p], rowLock, Ended)'
  <2>1. /\ HoldsRow(p, page[p], rowLock, Ended) /\ page' = page
        /\ (rowLock = p => rowLock' = p) /\ (rowLock' = p => rowLock = p)
        /\ rowLock \in Pages => Ended' \cap TaskRuns = Ended \cap TaskRuns
    BY RunMoves DEF PagesInv
  <2> QED
    BY <2>1 DEF HoldsRow
<1>4. ASSUME NEW p \in Pages PROVE ShowsFiles(page[p], Ended, evidenceOf)'
  <2>1. /\ ShowsFiles(page[p], Ended, evidenceOf) /\ page' = page /\ Ended \subseteq Ended'
        /\ \A s \in Ended \cap TaskRuns :
              evidenceOf[s] \in {"failed", "removed"} => evidenceOf'[s] \in {"failed", "removed"}
    BY RunMoves DEF PagesInv
  <2> QED
    BY <2>1 DEF ShowsFiles
<1> QED
  BY <1>1, <1>2, <1>3, <1>4 DEF PagesInv

-----------------------------------------------------------------------------
\* A page asks for each part once, and for a row before the list that backs it.
LEMMA QueriesInOrder ==
    ASSUME NEW kind \in Kinds
    PROVE  /\ Queries(kind) \in Seq(Parts) /\ Len(Queries(kind)) \in 1 .. 6
           /\ \A i, j \in 1 .. Len(Queries(kind)) : Queries(kind)[i] = Queries(kind)[j] => i = j
           /\ kind = "task" => Queries(kind)[1] = "row"
           /\ kind = "group" => /\ Len(Queries(kind)) = 3
                                /\ Queries(kind)[1] = "groupRow" /\ Queries(kind)[2] = "groupRuns"
           /\ kind = "inbox" => /\ Len(Queries(kind)) = 6
                                /\ Queries(kind)[1] = "row" /\ Queries(kind)[5] = "runs"
                                /\ Queries(kind)[2] = "groupRow" /\ Queries(kind)[6] = "groupRuns"
<1>1. CASE kind = "task"
  <2>1. Queries(kind) = <<"row", "observations", "runs", "mails", "effective">>
    BY <1>1 DEF Queries
  <2> DEFINE q == Queries(kind)
  <2>2. q \in Seq(Parts) /\ Len(q) = 5
    BY <2>1 DEF Parts
  <2>3. q[1] = "row" /\ q[2] = "observations" /\ q[3] = "runs" /\ q[4] = "mails" /\ q[5] = "effective"
    BY <2>1
  <2>4. ASSUME NEW i \in 1 .. 5, NEW j \in 1 .. 5, q[i] = q[j] PROVE i = j
    <3>1. i \in {1, 2, 3, 4, 5} /\ j \in {1, 2, 3, 4, 5}
      OBVIOUS
    <3> HIDE DEF q
    <3> QED
      BY <2>3, <2>4, <3>1
  <2> HIDE DEF q
  <2>5. 5 \in 1 .. 6 /\ Len(q) \in 1 .. 6
    BY <2>2
  <2>6. \A i, j \in 1 .. Len(q) : q[i] = q[j] => i = j
    BY <2>2, <2>4
  <2> QED
    BY <1>1, <2>2, <2>3, <2>5, <2>6 DEF q
<1>2. CASE kind = "group"
  <2>1. Queries(kind) = <<"groupRow", "groupRuns", "mails">>
    BY <1>2 DEF Queries
  <2> QED
    BY <1>2, <2>1 DEF Parts
<1>3. CASE kind = "inbox"
  <2>1. Queries(kind) = <<"row", "groupRow", "observations", "effective", "runs", "groupRuns">>
    BY <1>3 DEF Queries
  <2> DEFINE q == Queries(kind)
  <2>2. q \in Seq(Parts) /\ Len(q) = 6
    BY <2>1 DEF Parts
  <2>3. /\ q[1] = "row" /\ q[2] = "groupRow" /\ q[3] = "observations"
        /\ q[4] = "effective" /\ q[5] = "runs" /\ q[6] = "groupRuns"
    BY <2>1
  <2>4. ASSUME NEW i \in 1 .. 6, NEW j \in 1 .. 6, q[i] = q[j] PROVE i = j
    <3>1. i \in {1, 2, 3, 4, 5, 6} /\ j \in {1, 2, 3, 4, 5, 6}
      OBVIOUS
    <3> HIDE DEF q
    <3> QED
      BY <2>3, <2>4, <3>1
  <2> HIDE DEF q
  <2>5. 6 \in 1 .. 6 /\ Len(q) \in 1 .. 6
    BY <2>2
  <2>6. \A i, j \in 1 .. Len(q) : q[i] = q[j] => i = j
    BY <2>2, <2>4
  <2> QED
    BY <1>3, <2>2, <2>3, <2>5, <2>6 DEF q
<1> QED
  BY <1>1, <1>2, <1>3 DEF Kinds

\* A query answers the next part of the page, after those it has asked.
LEMMA QueryAsksNext ==
    ASSUME PagesInv, NEW p \in Pages, Query(p)
    PROVE  LET g == page[p]
               q == Queries(g.kind)
           IN  /\ g \in PageRecord /\ g.at = "open" /\ g.kind \in Kinds
               /\ \E n \in 0 .. Len(q) :
                     /\ n < Len(q) /\ SeesUpTo(g, n, Ended)
                     /\ Head(g.left) = q[n + 1] /\ Tail(g.left) = SubSeq(q, n + 2, Len(q))
<1> DEFINE g == page[p]
           q == Queries(g.kind)
<1>1. g \in PageRecord /\ g.at = "open" /\ g.left # <<>> /\ SeesInOrder(g, Ended)
  BY DEF PagesInv, PagesAreTyped, Query
<1>2. /\ g.kind \in Kinds /\ q \in Seq(Parts)
      /\ \E n \in 0 .. Len(q) : SeesUpTo(g, n, Ended)
  BY <1>1, QueriesInOrder DEF SeesInOrder
<1>3. PICK n \in 0 .. Len(q) : SeesUpTo(g, n, Ended)
  BY <1>2
<1>4. g.left = SubSeq(q, n + 1, Len(q))
  BY <1>3 DEF SeesUpTo
<1> HIDE DEF g, q
<1>5. n < Len(q)
  <2>1. CASE n = Len(q)
    <3>1. SubSeq(q, n + 1, Len(q)) = <<>>
      BY <1>2, <2>1, SubSeqEmpty
    <3> QED
      BY <3>1, <1>1, <1>4
  <2> QED
    BY <2>1, <1>2
<1>6. /\ Head(SubSeq(q, n + 1, Len(q))) = q[n + 1]
      /\ Tail(SubSeq(q, n + 1, Len(q))) = SubSeq(q, (n + 1) + 1, Len(q))
  <2>1. n + 1 \in 1 .. Len(q) /\ Len(q) \in (n + 1) .. Len(q)
    BY <1>2, <1>5
  <2> QED
    BY <2>1, <1>2, HeadTailOfSubSeq
<1>7. (n + 1) + 1 = n + 2
  OBVIOUS
<1>8. Head(g.left) = q[n + 1] /\ Tail(g.left) = SubSeq(q, n + 2, Len(q))
  BY <1>4, <1>6, <1>7
<1> QED
  BY <1>1, <1>2, <1>3, <1>5, <1>8 DEF g, q

\* The page that has asked one more query has still asked them in their order.
LEMMA SeesOneMore ==
    ASSUME NEW g, NEW h, NEW ended, g.kind \in Kinds, h.kind = g.kind,
           NEW n \in 0 .. Len(Queries(g.kind)), n < Len(Queries(g.kind)), SeesUpTo(g, n, ended),
           h.left = SubSeq(Queries(g.kind), n + 2, Len(Queries(g.kind))),
           h.saw = [part \in DOMAIN g.saw \cup {Queries(g.kind)[n + 1]} |->
                       IF part = Queries(g.kind)[n + 1] THEN ended ELSE g.saw[part]]
    PROVE  SeesUpTo(h, n + 1, ended)
<1> DEFINE q == Queries(g.kind)
           N == Len(q)
<1>1. N \in Nat /\ \A i, j \in 1 .. N : q[i] = q[j] => i = j
  <2>1. Len(Queries(g.kind)) \in 1 .. 6
    BY QueriesInOrder
  <2>2. \A i, j \in 1 .. Len(Queries(g.kind)) : Queries(g.kind)[i] = Queries(g.kind)[j] => i = j
    BY QueriesInOrder, Zenon
  <2> QED
    BY <2>1, <2>2
<1>2. /\ DOMAIN g.saw = {q[i] : i \in 1 .. n}
      /\ \A i \in 1 .. n : g.saw[q[i]] \subseteq ended
      /\ \A i, j \in 1 .. n : i < j => g.saw[q[i]] \subseteq g.saw[q[j]]
  BY DEF SeesUpTo
<1>3. /\ n \in 0 .. N /\ n < N /\ h.left = SubSeq(q, n + 2, N)
      /\ h.saw = [part \in DOMAIN g.saw \cup {q[n + 1]} |->
                     IF part = q[n + 1] THEN ended ELSE g.saw[part]]
  OBVIOUS
<1> HIDE DEF q, N
<1>4. /\ DOMAIN h.saw = DOMAIN g.saw \cup {q[n + 1]} /\ h.saw[q[n + 1]] = ended
      /\ \A other \in DOMAIN g.saw \ {q[n + 1]} : h.saw[other] = g.saw[other]
  BY <1>3
<1>5. \A i \in 1 .. n : q[i] \in DOMAIN g.saw /\ q[i] # q[n + 1]
  <2> SUFFICES ASSUME NEW i \in 1 .. n PROVE q[i] \in DOMAIN g.saw /\ q[i] # q[n + 1]
    OBVIOUS
  <2>1. i \in 1 .. N /\ n + 1 \in 1 .. N /\ i # n + 1
    BY <1>1, <1>3
  <2> QED
    BY <2>1, <1>1, <1>2
<1>6. \A i \in 1 .. n : h.saw[q[i]] = g.saw[q[i]]
  BY <1>4, <1>5
<1>7. DOMAIN h.saw = {q[i] : i \in 1 .. (n + 1)}
  <2>1. {q[i] : i \in 1 .. (n + 1)} = {q[i] : i \in 1 .. n} \cup {q[n + 1]}
    <3>1. 1 .. (n + 1) = (1 .. n) \cup {n + 1}
      BY <1>3
    <3> QED
      BY <3>1
  <2> QED
    BY <2>1, <1>2, <1>4
<1>8. \A i \in 1 .. (n + 1) : i \in 1 .. n \/ i = n + 1
  BY <1>3
<1>9. \A i \in 1 .. (n + 1) : h.saw[q[i]] \subseteq ended
  BY <1>2, <1>4, <1>6, <1>8
<1>10. \A i, j \in 1 .. (n + 1) : i < j => h.saw[q[i]] \subseteq h.saw[q[j]]
  <2> SUFFICES ASSUME NEW i \in 1 .. (n + 1), NEW j \in 1 .. (n + 1), i < j
               PROVE  h.saw[q[i]] \subseteq h.saw[q[j]]
    OBVIOUS
  <2>1. i \in 1 .. n
    BY <1>3
  <2>2. CASE j = n + 1
    BY <1>9, <1>4, <2>2
  <2>3. CASE j \in 1 .. n
    BY <1>2, <1>6, <2>1, <2>3
  <2> QED
    BY <1>8, <2>2, <2>3
<1>11. h.left = SubSeq(q, (n + 1) + 1, N)
  <2>1. (n + 1) + 1 = n + 2
    BY <1>3
  <2> QED
    BY <2>1, <1>3
<1> QED
  <2>1. Queries(h.kind) = q /\ N = Len(Queries(h.kind))
    BY DEF q, N
  <2>2. /\ h.left = SubSeq(Queries(h.kind), (n + 1) + 1, Len(Queries(h.kind)))
        /\ DOMAIN h.saw = {Queries(h.kind)[i] : i \in 1 .. (n + 1)}
    BY <1>7, <1>11, <2>1
  <2>3. /\ \A i \in 1 .. (n + 1) : h.saw[Queries(h.kind)[i]] \subseteq ended
        /\ \A i, j \in 1 .. (n + 1) :
              i < j => h.saw[Queries(h.kind)[i]] \subseteq h.saw[Queries(h.kind)[j]]
    BY <1>9, <1>10, <2>1
  <2> QED
    BY <2>2, <2>3, Zenon DEF SeesUpTo

-----------------------------------------------------------------------------
\* One page moves: runs and files stay, and the lock only passes to the page or
\* from it.
LEMMA OnePageMoves ==
    ASSUME PagesInv, NEW p \in Pages, UNCHANGED <<pagePhase, evidenceOf>>,
           page' \in [Pages -> PageRecord], \A o \in Pages \ {p} : page'[o] = page[o],
           \/ rowLock' = rowLock
           \/ rowLock = NoOne /\ rowLock' = p
           \/ rowLock = p /\ rowLock' = NoOne,
           SeesInOrder(page'[p], Ended), HoldsRow(p, page'[p], rowLock', Ended),
           ShowsFiles(page'[p], Ended, evidenceOf)
    PROVE  PagesInv'
<1>1. /\ TaskRuns \cap GroupRuns = {} /\ Pages \cap Runs = {} /\ NoOne \notin Runs \cup Pages
      /\ Runs = TaskRuns \cup GroupRuns
  BY PagesAssumption DEF Runs, NoOne
<1>2. Ended' = Ended
  BY DEF Ended
<1>3. PagesAreTyped' /\ RunsHoldRow'
  BY <1>1 DEF PagesInv, PagesAreTyped, RunsHoldRow
<1>4. ASSUME NEW o \in Pages
      PROVE  /\ SeesInOrder(page[o], Ended)' /\ HoldsRow(o, page[o], rowLock, Ended)'
             /\ ShowsFiles(page[o], Ended, evidenceOf)'
  <2>1. CASE o = p
    BY <1>2, <2>1
  <2>2. CASE o # p
    <3>1. page'[o] = page[o] /\ (rowLock' = o <=> rowLock = o)
      BY <1>1, <2>2
    <3>2. /\ SeesInOrder(page[o], Ended) /\ HoldsRow(o, page[o], rowLock, Ended)
          /\ ShowsFiles(page[o], Ended, evidenceOf)
      BY DEF PagesInv
    <3>3. SeesInOrder(page[o], Ended)' /\ ShowsFiles(page[o], Ended, evidenceOf)'
      BY <1>2, <3>1, <3>2
    <3>4. HoldsRow(o, page[o], rowLock, Ended)'
      BY <1>2, <3>1, <3>2 DEF HoldsRow
    <3> QED
      BY <3>3, <3>4
  <2> QED
    BY <2>1, <2>2
<1> QED
  BY <1>3, <1>4 DEF PagesInv

\* A page that has seen nothing is a page.
LEMMA EmptyPageIsTyped ==
    /\ NoPage \in PageRecord /\ [NoPage EXCEPT !.at = "sent"] \in PageRecord
    /\ \A kind \in Kinds, left \in Seq(Parts) :
          [NoPage EXCEPT !.kind = kind, !.at = "open", !.left = left] \in PageRecord
<1>1. NoPage.saw \in UNION {[S -> SUBSET Runs] : S \in SUBSET Parts}
  <2>1. NoPage.saw \in [{} -> SUBSET Runs] /\ {} \in SUBSET Parts
    BY DEF NoPage
  <2> QED
    BY <2>1
<1>2. NoPage \in PageRecord
  BY <1>1 DEF NoPage, PageRecord
<1>3. [NoPage EXCEPT !.at = "sent"] \in PageRecord
  BY <1>2 DEF PageRecord
<1>4. ASSUME NEW kind \in Kinds, NEW left \in Seq(Parts)
      PROVE  [NoPage EXCEPT !.kind = kind, !.at = "open", !.left = left] \in PageRecord
  BY <1>2 DEF PageRecord
<1> QED
  BY <1>2, <1>3, <1>4

\* What a page has seen and one part more is still typed.
LEMMA SawIsTyped ==
    ASSUME NEW saw \in UNION {[S -> SUBSET Runs] : S \in SUBSET Parts}, NEW part \in Parts,
           NEW ended \in SUBSET Runs
    PROVE  [q \in DOMAIN saw \cup {part} |-> IF q = part THEN ended ELSE saw[q]]
              \in UNION {[S -> SUBSET Runs] : S \in SUBSET Parts}
<1>1. PICK S \in SUBSET Parts : saw \in [S -> SUBSET Runs]
  OBVIOUS
<1>2. [q \in DOMAIN saw \cup {part} |-> IF q = part THEN ended ELSE saw[q]]
         \in [S \cup {part} -> SUBSET Runs]
  BY <1>1
<1> QED
  BY <1>1, <1>2, ZenonT(60)

\* A page that is opened has its queries before it.
LEMMA OpenKeepsPages ==
    ASSUME PagesInv, NEW p \in Pages, NEW kind \in Kinds, OpenPage(p, kind)
    PROVE  PagesInv'
<1> DEFINE h == [NoPage EXCEPT !.kind = kind, !.at = "open", !.left = Queries(kind)]
<1>1. /\ page \in [Pages -> PageRecord] /\ page[p].at = "idle" /\ page' = [page EXCEPT ![p] = h]
      /\ UNCHANGED <<pagePhase, evidenceOf, rowLock>>
  BY DEF PagesInv, PagesAreTyped, OpenPage
<1>2. h \in PageRecord
  BY QueriesInOrder, EmptyPageIsTyped
<1>3. h.kind = kind /\ h.at = "open" /\ h.left = Queries(kind) /\ h.saw = <<>> /\ h.listed = {}
  BY DEF NoPage
<1>4. HoldsRow(p, page[p], rowLock, Ended)
  BY DEF PagesInv
<1> HIDE DEF h
<1>5. page'[p] = h /\ page' \in [Pages -> PageRecord] /\ \A o \in Pages \ {p} : page'[o] = page[o]
  BY <1>1, <1>2
<1>6. SeesUpTo(h, 0, Ended)
  <2>1. Queries(kind) \in Seq(Parts) /\ Len(Queries(kind)) \in 1 .. 6
    BY QueriesInOrder
  <2>2. SubSeq(Queries(kind), 0 + 1, Len(Queries(kind))) = Queries(kind)
    BY <2>1, SubSeqFull
  <2>3. DOMAIN <<>> = {Queries(kind)[i] : i \in 1 .. 0}
    OBVIOUS
  <2>4. \A i \in 1 .. 0 : FALSE
    OBVIOUS
  <2> QED
    BY <1>3, <2>2, <2>3, <2>4 DEF SeesUpTo
<1>7. SeesInOrder(h, Ended)
  <2>1. 0 \in 0 .. Len(Queries(h.kind))
    BY <1>3, QueriesInOrder
  <2> QED
    BY <1>3, <1>6, <2>1 DEF SeesInOrder
<1>8. HoldsRow(p, h, rowLock, Ended) /\ ShowsFiles(h, Ended, evidenceOf)
  <2>1. HoldsRow(p, h, rowLock, Ended)
    BY <1>1, <1>3, <1>4 DEF HoldsRow
  <2>2. ShowsFiles(h, Ended, evidenceOf)
    BY <1>1, <1>3, <1>4 DEF ShowsFiles
  <2> QED
    BY <2>1, <2>2
<1> QED
  BY <1>1, <1>5, <1>7, <1>8, OnePageMoves

\* A query keeps the order of what the page sees, and the first query of the
\* page of a task takes the row.
LEMMA QueryKeepsPages ==
    ASSUME PagesInv, NEW p \in Pages, Query(p)
    PROVE  PagesInv'
<1> DEFINE g == page[p]
           h == page'[p]
           q == Queries(g.kind)
           part == Head(g.left)
<1>1. g \in PageRecord /\ g.at = "open" /\ g.kind \in Kinds
  BY QueryAsksNext
<1>2. PICK n \in 0 .. Len(q) : /\ n < Len(q) /\ SeesUpTo(g, n, Ended)
                               /\ part = q[n + 1] /\ Tail(g.left) = SubSeq(q, n + 2, Len(q))
  BY QueryAsksNext
<1>3. /\ q \in Seq(Parts) /\ Len(q) \in 1 .. 6
      /\ \A i, j \in 1 .. Len(q) : q[i] = q[j] => i = j
      /\ g.kind = "task" => q[1] = "row"
  BY <1>1, QueriesInOrder
<1>4. part \in Parts
  <2>1. n + 1 \in 1 .. Len(q)
    BY <1>2, <1>3
  <2> QED
    BY <1>2, <1>3, <2>1
<1>5. /\ page \in [Pages -> PageRecord] /\ UNCHANGED <<pagePhase, evidenceOf>>
      /\ IF Locks(p, part) THEN rowLock = NoOne /\ rowLock' = p ELSE UNCHANGED rowLock
      /\ page' = [page EXCEPT ![p].left = Tail(@),
                              ![p].saw = [o \in DOMAIN @ \cup {part} |-> IF o = part THEN Ended ELSE @[o]],
                              ![p].listed = IF part = "runs" THEN Ended \cap TaskRuns ELSE @]
  BY DEF PagesInv, PagesAreTyped, Query
<1>6. /\ h = [g EXCEPT !.left = Tail(@),
                       !.saw = [o \in DOMAIN @ \cup {part} |-> IF o = part THEN Ended ELSE @[o]],
                       !.listed = IF part = "runs" THEN Ended \cap TaskRuns ELSE @]
      /\ \A o \in Pages \ {p} : page'[o] = page[o]
      /\ DOMAIN page' = Pages /\ page' = [o \in Pages |-> page'[o]]
  BY <1>5
<1>7. /\ h.kind = g.kind /\ h.at = "open" /\ h.left = Tail(g.left) /\ h.shown = g.shown
      /\ h.saw = [o \in DOMAIN g.saw \cup {part} |-> IF o = part THEN Ended ELSE g.saw[o]]
      /\ h.listed = IF part = "runs" THEN Ended \cap TaskRuns ELSE g.listed
      /\ h = [kind |-> h.kind, at |-> h.at, left |-> h.left, saw |-> h.saw,
              listed |-> h.listed, shown |-> h.shown]
  BY <1>1, <1>6 DEF PageRecord
<1> HIDE DEF g, h, q, part
<1>8. h \in PageRecord
  <2>1. /\ g.kind \in Kinds \cup {"none"} /\ g.listed \in SUBSET TaskRuns /\ g.shown \in SUBSET TaskRuns
        /\ g.saw \in UNION {[S -> SUBSET Runs] : S \in SUBSET Parts}
    BY <1>1 DEF PageRecord
  <2>2. Tail(g.left) \in Seq(Parts)
    <3>1. SubSeq(q, n + 2, Len(q)) \in Seq(Parts)
      <4>1. n + 2 \in Int /\ Len(q) \in Int /\ \A i \in (n + 2) .. Len(q) : q[i] \in Parts
        BY <1>2, <1>3
      <4> QED
        BY <4>1, SubSeqProperties
    <3> QED
      BY <1>2, <3>1
  <2>3. Ended \in SUBSET Runs
    BY DEF Ended
  <2>4. h.saw \in UNION {[S -> SUBSET Runs] : S \in SUBSET Parts}
    BY <1>4, <1>7, <2>1, <2>3, SawIsTyped
  <2>5. h.listed \in SUBSET TaskRuns
    BY <1>7, <2>1
  <2> QED
    BY <1>7, <2>1, <2>2, <2>4, <2>5 DEF PageRecord
<1>9. page' \in [Pages -> PageRecord]
  <2>1. \A o \in Pages : page'[o] \in PageRecord
    BY <1>5, <1>6, <1>8 DEF h
  <2>2. DOMAIN page' = Pages /\ page' = [o \in Pages |-> page'[o]]
    BY <1>6
  <2> HIDE DEF PageRecord
  <2> QED
    BY <2>1, <2>2
<1>10. SeesInOrder(h, Ended)
  <2>1. SeesUpTo(h, n + 1, Ended)
    BY <1>1, <1>2, <1>7, SeesOneMore DEF q
  <2>2. n + 1 \in 0 .. Len(Queries(h.kind)) /\ h.kind \in Kinds /\ h.at = "open"
    BY <1>1, <1>2, <1>3, <1>7 DEF q
  <2> QED
    BY <2>1, <2>2, Zenon DEF SeesInOrder
<1>11. HoldsRow(p, g, rowLock, Ended) /\ ShowsFiles(g, Ended, evidenceOf)
  BY DEF PagesInv, g
<1>12. /\ Locks(p, part) <=> part = "row" /\ g.kind = "task"
       /\ p # NoOne
  BY PagesAssumption DEF Locks, g, NoOne
<1>13. HoldsRow(p, h, rowLock', Ended)
  <2>1. CASE g.kind # "task"
    BY <1>5, <1>7, <1>11, <1>12, <2>1 DEF HoldsRow
  <2>2. CASE g.kind = "task" /\ n = 0
    <3>1. part = "row"
      BY <1>2, <1>3, <2>2
    <3>2. DOMAIN g.saw = {}
      BY <1>2, <2>2 DEF SeesUpTo
    <3>3. rowLock' = p /\ DOMAIN h.saw = {part} /\ h.saw[part] = Ended
      BY <1>5, <1>7, <1>12, <2>2, <3>1, <3>2
    <3> QED
      BY <1>7, <2>2, <3>3 DEF HoldsRow
  <2>3. CASE g.kind = "task" /\ n # 0
    <3>1. 1 \in 1 .. n /\ 1 \in 1 .. Len(q) /\ n + 1 \in 1 .. Len(q) /\ n + 1 # 1
      BY <1>2, <1>3, <2>3
    <3>2. part # "row"
      BY <1>2, <1>3, <2>3, <3>1
    <3>3. q[1] \in DOMAIN g.saw
      BY <1>2, <3>1 DEF SeesUpTo, q
    <3>4. rowLock = p /\ \A o \in DOMAIN g.saw : g.saw[o] \cap TaskRuns = Ended \cap TaskRuns
      BY <1>1, <1>11, <2>3, <3>3 DEF HoldsRow
    <3>5. rowLock' = p /\ \A o \in DOMAIN h.saw : h.saw[o] \cap TaskRuns = Ended \cap TaskRuns
      BY <1>5, <1>7, <1>12, <3>2, <3>4
    <3> QED
      BY <1>7, <2>3, <3>5 DEF HoldsRow
  <2> QED
    BY <2>1, <2>2, <2>3
<1>14. ShowsFiles(h, Ended, evidenceOf)
  BY <1>1, <1>7, <1>11 DEF ShowsFiles
<1>15. \/ rowLock' = rowLock
       \/ rowLock = NoOne /\ rowLock' = p
  BY <1>5
<1> QED
  BY <1>5, <1>6, <1>9, <1>10, <1>13, <1>14, <1>15, OnePageMoves, ZenonT(60) DEF h

\* A page that waits for a provider, hears it, or is put together has asked for
\* everything.
LEMMA BuildKeepsPages ==
    ASSUME PagesInv, NEW p \in Pages, Narrate(p) \/ HearProvider(p) \/ Render(p)
    PROVE  PagesInv'
<1> DEFINE g == page[p]
           h == page'[p]
<1>1. /\ page \in [Pages -> PageRecord] /\ g \in PageRecord
      /\ SeesInOrder(g, Ended) /\ HoldsRow(p, g, rowLock, Ended) /\ ShowsFiles(g, Ended, evidenceOf)
  BY DEF PagesInv, PagesAreTyped
<1>2. /\ UNCHANGED <<pagePhase, evidenceOf, rowLock>>
      /\ \A o \in Pages \ {p} : page'[o] = page[o]
      /\ page' \in [Pages -> PageRecord]
      /\ h.kind = g.kind /\ h.left = g.left /\ h.saw = g.saw /\ h.listed = g.listed
      /\ g.at \in {"open", "asking"} /\ g.left = <<>>
      /\ \/ h.at \in {"asking", "built"} /\ g.kind # "task"
         \/ /\ h.at = "built" /\ g.kind = "task"
            /\ h.shown = {r \in g.listed : evidenceOf[r] = "there"}
  <2>1. CASE Narrate(p)
    <3>1. PICK to \in {"asking", "built"} : page' = [page EXCEPT ![p].at = to]
      BY <2>1 DEF Narrate
    <3>2. /\ UNCHANGED <<pagePhase, evidenceOf, rowLock>>
          /\ g.at = "open" /\ g.left = <<>> /\ g.kind # "task"
      BY <2>1 DEF Narrate
    <3>3. h = [g EXCEPT !.at = to] /\ h \in PageRecord
      BY <1>1, <3>1 DEF PageRecord
    <3> QED
      BY <1>1, <3>1, <3>2, <3>3 DEF PageRecord
  <2>2. CASE HearProvider(p)
    <3>1. page' = [page EXCEPT ![p].at = "built"] /\ UNCHANGED <<pagePhase, evidenceOf, rowLock>>
      BY <2>2 DEF HearProvider
    <3>2. g.at = "asking" /\ g.left = <<>> /\ g.kind # "task"
      BY <1>1, <2>2 DEF HearProvider, SeesInOrder, HoldsRow
    <3> QED
      BY <1>1, <3>1, <3>2 DEF PageRecord
  <2>3. CASE Render(p)
    <3>1. /\ page' = [page EXCEPT ![p].at = "built",
                                  ![p].shown = {r \in g.listed : evidenceOf[r] = "there"}]
          /\ UNCHANGED <<pagePhase, evidenceOf, rowLock>>
          /\ g.at = "open" /\ g.left = <<>> /\ g.kind = "task"
      BY <2>3 DEF Render
    <3>2. {r \in g.listed : evidenceOf[r] = "there"} \in SUBSET TaskRuns
      BY <1>1 DEF PageRecord
    <3> QED
      BY <1>1, <3>1, <3>2 DEF PageRecord
  <2> QED
    BY <2>1, <2>2, <2>3
<1> HIDE DEF g, h
<1>3. SeesInOrder(h, Ended)
  <2>1. g.kind \in Kinds /\ \E n \in 0 .. Len(Queries(g.kind)) : SeesUpTo(g, n, Ended)
    BY <1>1, <1>2 DEF SeesInOrder
  <2>2. PICK n \in 0 .. Len(Queries(g.kind)) : SeesUpTo(g, n, Ended)
    BY <2>1
  <2>3. SeesUpTo(h, n, Ended) /\ n \in 0 .. Len(Queries(h.kind))
    <3>1. h.kind = g.kind /\ h.left = g.left /\ h.saw = g.saw
      BY <1>2
    <3> QED
      BY <2>2, <3>1, Zenon DEF SeesUpTo
  <2> QED
    BY <1>2, <2>1, <2>3 DEF SeesInOrder
<1>4. HoldsRow(p, h, rowLock', Ended)
  BY <1>1, <1>2 DEF HoldsRow
<1>5. ShowsFiles(h, Ended, evidenceOf)
  <2>1. CASE g.kind # "task"
    BY <1>2, <2>1 DEF ShowsFiles
  <2>2. CASE g.kind = "task"
    <3>1. g.listed \subseteq Ended \cap TaskRuns /\ h.shown = {r \in g.listed : evidenceOf[r] = "there"}
      BY <1>1, <1>2, <2>2 DEF ShowsFiles, HoldsRow
    <3>2. \A r \in Ended \cap TaskRuns : evidenceOf[r] \in {"there", "failed", "removed"}
      BY DEF PagesInv, PagesAreTyped, RunsHoldRow, Ended
    <3> QED
      BY <1>2, <2>2, <3>1, <3>2 DEF ShowsFiles
  <2> QED
    BY <2>1, <2>2
<1> QED
  BY <1>2, <1>3, <1>4, <1>5, OnePageMoves DEF h

\* A page that is sent lets the row go.
LEMMA SendKeepsPages ==
    ASSUME PagesInv, NEW p \in Pages, SendPage(p)
    PROVE  PagesInv'
<1> DEFINE h == [NoPage EXCEPT !.at = "sent"]
<1>1. /\ page \in [Pages -> PageRecord] /\ page' = [page EXCEPT ![p] = h]
      /\ UNCHANGED <<pagePhase, evidenceOf>> /\ rowLock' = IF rowLock = p THEN NoOne ELSE rowLock
  BY DEF PagesInv, PagesAreTyped, SendPage, Unlocked
<1>2. h \in PageRecord
  BY EmptyPageIsTyped
<1>3. h.at = "sent" /\ h.kind = "none"
  BY DEF NoPage
<1>4. p # NoOne
  BY PagesAssumption DEF NoOne
<1> HIDE DEF h
<1>5. page'[p] = h /\ page' \in [Pages -> PageRecord] /\ \A o \in Pages \ {p} : page'[o] = page[o]
  BY <1>1, <1>2
<1>6. /\ SeesInOrder(h, Ended) /\ HoldsRow(p, h, rowLock', Ended)
      /\ ShowsFiles(h, Ended, evidenceOf)
  BY <1>1, <1>3, <1>4 DEF SeesInOrder, HoldsRow, ShowsFiles
<1>7. \/ rowLock' = rowLock
      \/ rowLock = p /\ rowLock' = NoOne
  BY <1>1
<1> QED
  BY <1>1, <1>5, <1>6, <1>7, OnePageMoves

\* Before anything has run and any page is asked for.
LEMMA PagesInitLemma == PageInit => PagesInv
<1> SUFFICES ASSUME PageInit PROVE PagesInv
  OBVIOUS
<1>1. NoPage \in PageRecord /\ NoPage.at = "idle" /\ NoPage.kind = "none"
  BY EmptyPageIsTyped DEF NoPage
<1>2. /\ TaskRuns \subseteq Runs /\ NoOne \notin Pages
  BY PagesAssumption DEF Runs, NoOne
<1>3. PagesAreTyped /\ RunsHoldRow
  BY <1>1, <1>2 DEF PageInit, PagesAreTyped, RunsHoldRow
<1>4. ASSUME NEW p \in Pages
      PROVE  /\ SeesInOrder(page[p], Ended) /\ HoldsRow(p, page[p], rowLock, Ended)
             /\ ShowsFiles(page[p], Ended, evidenceOf)
  <2>1. page[p].at = "idle" /\ page[p].kind = "none" /\ rowLock # p
    BY <1>1, <1>2 DEF PageInit
  <2> QED
    BY <2>1 DEF SeesInOrder, HoldsRow, ShowsFiles
<1> QED
  BY <1>3, <1>4 DEF PagesInv

-----------------------------------------------------------------------------
\* A page with no query left has asked them all.
LEMMA AllAreAsked ==
    ASSUME NEW g, NEW ended, SeesInOrder(g, ended), g.at = "built"
    PROVE  g.kind \in Kinds /\ SeesUpTo(g, Len(Queries(g.kind)), ended)
<1> DEFINE q == Queries(g.kind)
<1>1. g.kind \in Kinds /\ g.left = <<>> /\ \E n \in 0 .. Len(q) : SeesUpTo(g, n, ended)
  BY DEF SeesInOrder
<1>2. PICK n \in 0 .. Len(q) : SeesUpTo(g, n, ended)
  BY <1>1
<1>3. SubSeq(q, n + 1, Len(q)) = <<>>
  BY <1>1, <1>2 DEF SeesUpTo
<1>4. q \in Seq(Parts) /\ Len(q) \in 1 .. 6
  BY <1>1, QueriesInOrder
<1> HIDE DEF q
<1>5. n = Len(q)
  <2>1. n + 1 \in Int /\ Len(q) \in Int /\ \A i \in (n + 1) .. Len(q) : q[i] \in Parts
    BY <1>4
  <2>2. Len(SubSeq(q, n + 1, Len(q))) = IF n + 1 <= Len(q) THEN Len(q) - (n + 1) + 1 ELSE 0
    BY <2>1, SubSeqProperties
  <2> QED
    <3>1. n \in 0 .. Len(q)
      BY <1>2 DEF q
    <3>2. Len(SubSeq(q, n + 1, Len(q))) = 0
      <4>1. ASSUME NEW s, s = <<>> PROVE Len(s) = 0
        BY <4>1
      <4> QED
        BY <1>3, <4>1, Zenon
    <3> QED
      BY <1>4, <2>2, <3>1, <3>2
<1> QED
  BY <1>1, <1>2, <1>5 DEF q

\* What a page rests on makes it sound.
LEMMA PagesAreBacked ==
    ASSUME PagesInv
    PROVE  TaskPageIsOneMoment /\ RowIsBacked /\ EvidenceComesFirst /\ NoLockAcrossProvider
<1>1. \A p \in Pages : /\ SeesInOrder(page[p], Ended) /\ HoldsRow(p, page[p], rowLock, Ended)
                       /\ ShowsFiles(page[p], Ended, evidenceOf)
  BY DEF PagesInv
<1>2. TaskPageIsOneMoment
  BY <1>1 DEF TaskPageIsOneMoment, HoldsRow, Built, Saw
<1>3. RowIsBacked
  <2> SUFFICES ASSUME NEW p \in Pages, page[p].at = "built"
               PROVE  /\ page[p].kind = "group" => page[p].saw["groupRow"] \subseteq page[p].saw["groupRuns"]
                      /\ page[p].kind = "inbox" =>
                            /\ page[p].saw["row"] \subseteq page[p].saw["runs"]
                            /\ page[p].saw["groupRow"] \subseteq page[p].saw["groupRuns"]
    BY DEF RowIsBacked, Built, Saw
  <2> DEFINE q == Queries(page[p].kind)
  <2>1. page[p].kind \in Kinds /\ SeesUpTo(page[p], Len(q), Ended)
    BY <1>1, AllAreAsked
  <2>2. \A i, j \in 1 .. Len(q) : i < j => page[p].saw[q[i]] \subseteq page[p].saw[q[j]]
    BY <2>1 DEF SeesUpTo
  <2>3. /\ page[p].kind = "group" => Len(q) = 3 /\ q[1] = "groupRow" /\ q[2] = "groupRuns"
        /\ page[p].kind = "inbox" => /\ Len(q) = 6 /\ q[1] = "row" /\ q[5] = "runs"
                                     /\ q[2] = "groupRow" /\ q[6] = "groupRuns"
    BY <2>1, QueriesInOrder
  <2> HIDE DEF q
  <2>4. CASE page[p].kind = "group"
    <3> Len(q) = 3
      BY <2>3, <2>4
    <3>1. 1 \in 1 .. Len(q) /\ 2 \in 1 .. Len(q) /\ 1 < 2
      OBVIOUS
    <3>2. page[p].saw[q[1]] \subseteq page[p].saw[q[2]]
      BY <2>2, <3>1
    <3> QED
      BY <2>3, <2>4, <3>2
  <2>5. CASE page[p].kind = "inbox"
    <3> Len(q) = 6
      BY <2>3, <2>5
    <3>1. /\ 1 \in 1 .. Len(q) /\ 2 \in 1 .. Len(q) /\ 5 \in 1 .. Len(q) /\ 6 \in 1 .. Len(q)
          /\ 1 < 5 /\ 2 < 6
      OBVIOUS
    <3>2. page[p].saw[q[1]] \subseteq page[p].saw[q[5]] /\ page[p].saw[q[2]] \subseteq page[p].saw[q[6]]
      BY <2>2, <3>1
    <3> QED
      BY <2>3, <2>5, <3>2
  <2> QED
    BY <2>4, <2>5
<1>4. EvidenceComesFirst
  BY <1>1 DEF EvidenceComesFirst, ShowsFiles, Built
<1>5. NoLockAcrossProvider
  BY <1>1 DEF NoLockAcrossProvider, HoldsRow
<1> QED
  BY <1>2, <1>3, <1>4, <1>5

\* Every step of a run and of a page keeps what the pages rest on.
LEMMA PagesStepLemma ==
    ASSUME PagesInv, [PageNext]_pageVars
    PROVE  PagesInv'
<1>1. CASE \E r \in Runs : RunSteps(r) \/ LoseRun(r) \/ CleanUp(r)
  BY <1>1, RunKeepsPages
<1>2. CASE \E p \in Pages : PageSteps(p) \/ \E kind \in Kinds : OpenPage(p, kind)
  <2>1. PICK p \in Pages : PageSteps(p) \/ \E kind \in Kinds : OpenPage(p, kind)
    BY <1>2
  <2>2. CASE Query(p)
    BY <2>2, QueryKeepsPages
  <2>3. CASE Narrate(p) \/ HearProvider(p) \/ Render(p)
    BY <2>3, BuildKeepsPages
  <2>4. CASE SendPage(p)
    BY <2>4, SendKeepsPages
  <2>5. CASE \E kind \in Kinds : OpenPage(p, kind)
    BY <2>5, OpenKeepsPages
  <2> QED
    BY <2>1, <2>2, <2>3, <2>4, <2>5 DEF PageSteps
<1>3. CASE UNCHANGED pageVars
  <2>1. pagePhase' = pagePhase /\ evidenceOf' = evidenceOf /\ rowLock' = rowLock /\ page' = page
    BY <1>3 DEF pageVars
  <2>2. Ended' = Ended
    BY <2>1 DEF Ended
  <2>3. PagesAreTyped' /\ RunsHoldRow'
    BY <2>1 DEF PagesInv, PagesAreTyped, RunsHoldRow
  <2>4. ASSUME NEW p \in Pages
        PROVE  /\ SeesInOrder(page[p], Ended)' /\ HoldsRow(p, page[p], rowLock, Ended)'
               /\ ShowsFiles(page[p], Ended, evidenceOf)'
    BY <2>1, <2>2 DEF PagesInv
  <2> QED
    BY <2>3, <2>4 DEF PagesInv
<1> QED
  BY <1>1, <1>2, <1>3 DEF PageNext

-------------------------------------------------------------------------------
(* The price signal on the page of a task.                                   *)

\* Run r has found an offer.
IsFetched(r) == \E i \in 1 .. Len(fetchedIn) : fetchedIn[i] = r

\* Run s has found an offer before run r.
FoundBefore(s, r) ==
    \E i, j \in 1 .. Len(fetchedIn) : i < j /\ fetchedIn[i] = s /\ fetchedIn[j] = r

\* What was found and what was concluded, by any runs: each once, a price comes
\* with its fetch, a conclusion after it, and it is that of its price.
FindingsAreOrdered ==
    /\ fetchedIn \in Seq(TaskRuns) /\ pricedIn \in Seq(TaskRuns)
    /\ priced \in [Runs -> [amount : Amounts \cup {0}, low : Amounts \cup {0}, newLow : BOOLEAN]]
    /\ \A i, j \in 1 .. Len(fetchedIn) : fetchedIn[i] = fetchedIn[j] => i = j
    /\ \A r \in TaskRuns : IsFetched(r) =>
          /\ pagePhase[r] \in {"fetched", "flushed", "written", "ended", "lost"}
          /\ priced[r].amount # 0
    /\ \A r \in Runs : ~IsFetched(r) => pagePhase[r] # "fetched" /\ priced[r].amount = 0

\* Run r has been priced.
IsPriced(r) == \E i \in 1 .. Len(pricedIn) : pricedIn[i] = r

\* A run is priced when it is flushed with an offer.
PricedIsFetched ==
    \A r \in TaskRuns :
        /\ IsPriced(r) => /\ IsFetched(r) /\ pagePhase[r] \in {"flushed", "written", "ended", "lost"}
                          /\ priced[r].newLow <=> NewLow(r)
        /\ IsFetched(r) /\ pagePhase[r] \in {"flushed", "written", "ended"} => IsPriced(r)

\* While runs of the task do not meet, one of them is open, it is the last one
\* that has found something, and the two orders are one.
RunsTakeTurns ==
    /\ \A r, s \in TaskRuns : Open(r) /\ Open(s) => r = s
    /\ \A i \in 1 .. Len(fetchedIn) : Open(fetchedIn[i]) => i = Len(fetchedIn)
    /\ \A i, j \in 1 .. Len(pricedIn) : i < j => FoundBefore(pricedIn[i], pricedIn[j])

\* The offers of the past of run r: of the runs that have ended, those that were
\* found before its own, or all of them while it has none.
PastOf(r) == {s \in Ended \cap TaskRuns : IsFetched(s) /\ (IsFetched(r) => FoundBefore(s, r))}

\* The price low is the lowest of the runs of past, or 0 when there are none.
LowIsOf(low, past) ==
    IF past = {} THEN low = 0
    ELSE (\E s \in past : low = priced[s].amount) /\ \A s \in past : low <= priced[s].amount

\* The low that a run compares with is that of its past.
LowsArePast == \A r \in TaskRuns : Open(r) \/ IsFetched(r) => LowIsOf(priced[r].low, PastOf(r))

\* What the signal rests on.
SignalInv ==
    /\ FindingsAreOrdered /\ PricedIsFetched
    /\ met = {} => RunsTakeTurns /\ LowsArePast

-----------------------------------------------------------------------------
\* With runs that take turns, the latest observation and the latest snapshot of
\* the runs that have ended are of one run, and no other comes after it.
LEMMA LatestIsOne ==
    ASSUME SignalInv, RunsTakeTurns, NEW observed, NEW concluded, observed \cap TaskRuns = Ended \cap TaskRuns,
           concluded \cap TaskRuns = Ended \cap TaskRuns
    PROVE  LET last == LatestOf(fetchedIn, observed)
           IN  /\ LatestOf(pricedIn, concluded) = last
               /\ last # NoOne =>
                     /\ last \in Ended \cap TaskRuns /\ IsPriced(last)
                     /\ \A s \in Ended \cap TaskRuns : IsFetched(s) /\ s # last => FoundBefore(s, last)
                     /\ ~FoundBefore(last, last)
<1> DEFINE E == Ended \cap TaskRuns
           F == {i \in 1 .. Len(fetchedIn) : fetchedIn[i] \in E}
           P == {i \in 1 .. Len(pricedIn) : pricedIn[i] \in E}
<1>1. /\ fetchedIn \in Seq(TaskRuns) /\ pricedIn \in Seq(TaskRuns)
      /\ \A i, j \in 1 .. Len(fetchedIn) : fetchedIn[i] = fetchedIn[j] => i = j
      /\ \A r \in E : IsPriced(r) <=> IsFetched(r)
      /\ \A i, j \in 1 .. Len(pricedIn) : i < j => FoundBefore(pricedIn[i], pricedIn[j])
  BY DEF SignalInv, FindingsAreOrdered, PricedIsFetched, RunsTakeTurns, Ended
<1>2. /\ Len(fetchedIn) \in Nat /\ Len(pricedIn) \in Nat
      /\ DOMAIN fetchedIn = 1 .. Len(fetchedIn) /\ DOMAIN pricedIn = 1 .. Len(pricedIn)
      /\ \A i \in 1 .. Len(fetchedIn) : fetchedIn[i] \in TaskRuns
      /\ \A i \in 1 .. Len(pricedIn) : pricedIn[i] \in TaskRuns
  BY <1>1
<1>3. /\ LatestOf(fetchedIn, observed) = IF F = {} THEN NoOne ELSE fetchedIn[Max(F)]
      /\ LatestOf(pricedIn, concluded) = IF P = {} THEN NoOne ELSE pricedIn[Max(P)]
  <2>1. {i \in DOMAIN fetchedIn : fetchedIn[i] \in observed} = F
    BY <1>2
  <2>2. {i \in DOMAIN pricedIn : pricedIn[i] \in concluded} = P
    BY <1>2
  <2> HIDE DEF F, P
  <2> QED
    BY <2>1, <2>2 DEF LatestOf
<1>4. F = {} <=> P = {}
  BY <1>1, SMTT(30) DEF IsPriced, IsFetched
<1>5. CASE F = {}
  BY <1>3, <1>4, <1>5
<1>6. CASE F # {}
  <2>1. Max(F) \in F /\ \A i \in F : Max(F) >= i
    <3>1. F \in SUBSET (0 .. Len(fetchedIn)) /\ F # {} /\ Len(fetchedIn) \in Nat
      BY <1>2, <1>6
    <3> HIDE DEF F
    <3> QED
      BY <3>1, BoundedHasMax
  <2>2. Max(P) \in P /\ \A i \in P : Max(P) >= i
    <3>1. P \in SUBSET (0 .. Len(pricedIn)) /\ P # {} /\ Len(pricedIn) \in Nat
      BY <1>2, <1>4, <1>6
    <3> HIDE DEF P
    <3> QED
      BY <3>1, BoundedHasMax
  <2> DEFINE m == Max(F)
             n == Max(P)
  <2> HIDE DEF m, n
  <2>3. PICK j \in P : pricedIn[j] = fetchedIn[m]
    BY <1>1, <2>1 DEF IsPriced, IsFetched, m
  <2>4. PICK k \in F : fetchedIn[k] = pricedIn[n]
    BY <1>1, <2>2 DEF IsPriced, IsFetched, n
  <2>5. j = n
    <3>1. j \in Nat /\ n \in Nat /\ j <= n
      BY <2>2, <2>3 DEF n
    <3>2. CASE j < n
      <4>1. FoundBefore(fetchedIn[m], fetchedIn[k])
        BY <1>1, <2>2, <2>3, <2>4, <3>2 DEF n
      <4>2. m < k
        BY <1>1, <2>1, <2>4, <4>1 DEF FoundBefore, m
      <4> QED
        BY <2>1, <2>4, <4>2 DEF m
    <3> QED
      BY <3>1, <3>2
  <2>6. LatestOf(fetchedIn, observed) = fetchedIn[m] /\ LatestOf(pricedIn, concluded) = fetchedIn[m]
    BY <1>3, <1>4, <1>6, <2>3, <2>5 DEF m, n
  <2>7. fetchedIn[m] \in E /\ IsPriced(fetchedIn[m])
    BY <2>1, <2>3 DEF m, IsPriced
  <2>8. ASSUME NEW s \in E, IsFetched(s), s # fetchedIn[m] PROVE FoundBefore(s, fetchedIn[m])
    <3>1. PICK i \in F : fetchedIn[i] = s
      BY <2>8 DEF IsFetched
    <3>2. i \in Nat /\ m \in Nat /\ i <= m /\ i # m
      BY <2>1, <2>8, <3>1 DEF m
    <3> QED
      <4>1. i \in 1 .. Len(fetchedIn) /\ m \in 1 .. Len(fetchedIn) /\ i < m
        BY <2>1, <3>1, <3>2 DEF m
      <4> QED
        BY <3>1, <4>1 DEF FoundBefore
  <2>9. ~FoundBefore(fetchedIn[m], fetchedIn[m])
    BY <1>1, <1>2 DEF FoundBefore
  <2> QED
    BY <2>6, <2>7, <2>8, <2>9
<1> QED
  BY <1>5, <1>6

\* A page of a task that is built has seen in every part the same ended runs.
LEMMA BuiltPageSeesEnded ==
    ASSUME PagesInv, NEW p \in Pages, Built(p, "task")
    PROVE  /\ Saw(p, "observations") \cap TaskRuns = Ended \cap TaskRuns
           /\ Saw(p, "effective") \cap TaskRuns = Ended \cap TaskRuns
<1> DEFINE g == page[p]
           q == Queries("task")
<1>1. SeesInOrder(g, Ended) /\ HoldsRow(p, g, rowLock, Ended) /\ g.at = "built" /\ g.kind = "task"
  BY DEF PagesInv, Built
<1>2. SeesUpTo(g, Len(q), Ended)
  BY <1>1, AllAreAsked
<1>3. DOMAIN g.saw = {q[i] : i \in 1 .. Len(q)}
  BY <1>1, <1>2 DEF SeesUpTo
<1>4. q = <<"row", "observations", "runs", "mails", "effective">>
  BY DEF Queries
<1>5. Len(q) = 5 /\ q[2] = "observations" /\ q[5] = "effective"
  BY <1>4
<1> HIDE DEF q, g
<1>6. "observations" \in DOMAIN g.saw /\ "effective" \in DOMAIN g.saw
  <2>1. 2 \in 1 .. Len(q) /\ 5 \in 1 .. Len(q)
    BY <1>5
  <2> QED
    BY <1>3, <1>5, <2>1
<1> QED
  BY <1>1, <1>6 DEF HoldsRow, Saw, g

\* What the signal rests on makes it that of its price.
LEMMA SignalIsTrue ==
    ASSUME PagesInv, SignalInv
    PROVE  SignalIsOfItsPrice
<1> SUFFICES ASSUME NEW p \in Pages, Built(p, "task"), met = {}
             PROVE  LET observed == LatestOf(fetchedIn, Saw(p, "observations"))
                        snapshot == LatestOf(pricedIn, Saw(p, "effective"))
                        earlier == (Saw(p, "observations") \cap ToSet(fetchedIn)) \ {observed}
                    IN  /\ observed = snapshot
                        /\ observed # NoOne =>
                             (priced[observed].newLow <=>
                                /\ earlier # {}
                                /\ \A r \in earlier : priced[observed].amount < priced[r].amount)
  BY Zenon DEF SignalIsOfItsPrice
<1> DEFINE E == Ended \cap TaskRuns
           observed == LatestOf(fetchedIn, Saw(p, "observations"))
           earlier == (Saw(p, "observations") \cap ToSet(fetchedIn)) \ {observed}
           past == PastOf(observed)
<1>1. RunsTakeTurns /\ LowsArePast /\ FindingsAreOrdered /\ PricedIsFetched
  BY DEF SignalInv
<1>2. /\ Saw(p, "observations") \cap TaskRuns = E /\ Saw(p, "effective") \cap TaskRuns = E
  BY BuiltPageSeesEnded
<1>3. /\ LatestOf(pricedIn, Saw(p, "effective")) = observed
      /\ observed # NoOne =>
            /\ observed \in E /\ IsPriced(observed)
            /\ \A s \in E : IsFetched(s) /\ s # observed => FoundBefore(s, observed)
            /\ ~FoundBefore(observed, observed)
  BY <1>1, <1>2, LatestIsOne
<1>4. \A r : r \in ToSet(fetchedIn) <=> IsFetched(r)
  BY <1>1 DEF ToSet, IsFetched, FindingsAreOrdered
<1>5. \A r : IsFetched(r) => r \in TaskRuns
  BY <1>1 DEF IsFetched, FindingsAreOrdered
<1> HIDE DEF observed
<1>6. ASSUME observed # NoOne
      PROVE  priced[observed].newLow <=>
                /\ earlier # {}
                /\ \A r \in earlier : priced[observed].amount < priced[r].amount
  <2>1. observed \in E /\ IsPriced(observed) /\ IsFetched(observed)
    BY <1>1, <1>3, <1>6 DEF PricedIsFetched
  <2>2. earlier = past
    <3>1. \A r : r \in earlier <=> r \in E /\ IsFetched(r) /\ r # observed
      BY <1>2, <1>4, <1>5
    <3>2. \A r : r \in past <=> r \in E /\ IsFetched(r) /\ FoundBefore(r, observed)
      BY <2>1 DEF PastOf
    <3> HIDE DEF earlier, past, E
    <3> QED
      BY <1>3, <1>6, <3>1, <3>2
  <2>3. LowIsOf(priced[observed].low, past) /\ (priced[observed].newLow <=> NewLow(observed))
    BY <1>1, <2>1 DEF LowsArePast, PricedIsFetched
  <2>4. /\ priced[observed].amount \in Nat /\ priced[observed].low \in Nat
        /\ \A r \in past : priced[r].amount \in Nat \ {0}
    <3>1. \A r \in TaskRuns : priced[r].amount \in Nat /\ priced[r].low \in Nat
      <4> TAKE r \in TaskRuns
      <4>1. priced[r] \in [amount : Amounts \cup {0}, low : Amounts \cup {0}, newLow : BOOLEAN]
        BY <1>1 DEF FindingsAreOrdered, Runs
      <4>2. priced[r].amount \in Amounts \cup {0} /\ priced[r].low \in Amounts \cup {0}
        BY <4>1
      <4>3. \A x \in Amounts \cup {0} : x \in Nat
        <5>1. Amounts \subseteq Nat \ {0}
          BY PagesAssumption, Zenon
        <5> QED
          BY <5>1
      <4> QED
        BY <4>2, <4>3, Zenon
    <3>2. \A r \in past : r \in TaskRuns /\ priced[r].amount # 0
      BY <1>1 DEF PastOf, FindingsAreOrdered
    <3> QED
      BY <2>1, <3>1, <3>2
  <2> HIDE DEF earlier, past, E
  <2>5. CASE past = {}
    BY <2>2, <2>3, <2>5 DEF LowIsOf, NewLow
  <2>6. CASE past # {}
    <3>1. PICK s \in past : priced[observed].low = priced[s].amount
      BY <2>3, <2>6 DEF LowIsOf
    <3>2. \A r \in past : priced[observed].low <= priced[r].amount
      BY <2>3, <2>6 DEF LowIsOf
    <3>3. NewLow(observed) <=> priced[observed].amount < priced[observed].low
      BY <2>4, <3>1 DEF NewLow
    <3>4. priced[observed].amount < priced[observed].low
             <=> \A r \in past : priced[observed].amount < priced[r].amount
      BY <2>4, <3>1, <3>2
    <3> QED
      BY <2>2, <2>3, <2>6, <3>3, <3>4
  <2> QED
    BY <2>5, <2>6
<1> QED
  BY <1>3, <1>6 DEF observed

-----------------------------------------------------------------------------
\* A run that goes on without finding or concluding anything.
LEMMA PhaseKeepsSignal ==
    ASSUME PagesInv, SignalInv, NEW r \in Runs, NEW to, pagePhase' = [pagePhase EXCEPT ![r] = to],
           \/ pagePhase[r] = "loaded" /\ to = "running"
           \/ pagePhase[r] = "running" /\ to = "flushed"
           \/ pagePhase[r] = "flushed" /\ to = "written"
           \/ pagePhase[r] = "written" /\ to = "ended"
           \/ Open(r) /\ to = "lost",
           UNCHANGED <<priced, fetchedIn, pricedIn, met>>
    PROVE  SignalInv'
<1>1. /\ DOMAIN pagePhase = Runs /\ TaskRuns \subseteq Runs
      /\ pagePhase'[r] = to /\ \A s \in Runs \ {r} : pagePhase'[s] = pagePhase[s]
  BY DEF PagesInv, PagesAreTyped, Runs
<1>2. FindingsAreOrdered /\ PricedIsFetched
  BY DEF SignalInv
<1>3. /\ \A s : IsFetched(s)' <=> IsFetched(s)
      /\ \A s : IsPriced(s)' <=> IsPriced(s)
      /\ \A s, t : FoundBefore(s, t)' <=> FoundBefore(s, t)
      /\ \A s : NewLow(s)' <=> NewLow(s)
  BY DEF IsFetched, IsPriced, FoundBefore, NewLow
<1>4. \A s \in TaskRuns : Open(s)' => Open(s)
  BY <1>1 DEF Open
<1>5. FindingsAreOrdered'
  BY <1>1, <1>2, <1>3 DEF FindingsAreOrdered, Open
<1>6. PricedIsFetched'
  BY <1>1, <1>2, <1>3 DEF PricedIsFetched, FindingsAreOrdered, Open
<1>7. ASSUME met' = {} PROVE RunsTakeTurns' /\ LowsArePast'
  <2>1. RunsTakeTurns /\ LowsArePast
    BY <1>7 DEF SignalInv
  <2>2. fetchedIn \in Seq(TaskRuns)
    BY <1>2 DEF FindingsAreOrdered
  <2>3. RunsTakeTurns'
    <3>1. \A s, t \in TaskRuns : Open(s)' /\ Open(t)' => s = t
      BY <1>4, <2>1 DEF RunsTakeTurns
    <3>2. \A i \in 1 .. Len(fetchedIn) : Open(fetchedIn[i])' => i = Len(fetchedIn)
      BY <1>4, <2>1, <2>2 DEF RunsTakeTurns
    <3> QED
      BY <1>3, <2>1, <3>1, <3>2 DEF RunsTakeTurns
  <2>4. ASSUME NEW s \in TaskRuns, Open(s)' \/ IsFetched(s)'
        PROVE  LowIsOf(priced[s].low, PastOf(s))'
    <3>1. LowIsOf(priced[s].low, PastOf(s)) /\ (Open(s) \/ IsFetched(s))
      BY <1>3, <1>4, <2>1, <2>4 DEF LowsArePast
    <3>2. Ended' \cap TaskRuns \subseteq Ended \cup {r} /\ Ended \cap TaskRuns \subseteq Ended'
      BY <1>1 DEF Ended, Open
    <3>3. ASSUME r \in TaskRuns, r \in Ended', IsFetched(r), IsFetched(s) => FoundBefore(r, s) PROVE FALSE
      <4>1. Open(r) /\ ~Open(r)'
        BY <1>1, <3>3 DEF Ended, Open
      <4>2. CASE IsFetched(s)
        <5>1. PICK i, j \in 1 .. Len(fetchedIn) : i < j /\ fetchedIn[i] = r /\ fetchedIn[j] = s
          BY <3>3, <4>2 DEF FoundBefore
        <5>2. i = Len(fetchedIn)
          BY <2>1, <4>1, <5>1 DEF RunsTakeTurns
        <5>3. Len(fetchedIn) \in Nat
          BY <2>2
        <5> QED
          BY <5>1, <5>2, <5>3
      <4>3. CASE ~IsFetched(s)
        <5>1. Open(s)' /\ Open(s)
          BY <1>3, <1>4, <2>4, <4>3
        <5> QED
          BY <2>1, <3>3, <4>1, <5>1 DEF RunsTakeTurns
      <4> QED
        BY <4>2, <4>3
    <3>4. PastOf(s)' = PastOf(s)
      <4>1. \A t : t \in PastOf(s)' <=>
                     t \in Ended' \cap TaskRuns /\ IsFetched(t) /\ (IsFetched(s) => FoundBefore(t, s))
        BY <1>3 DEF PastOf
      <4>2. \A t : t \in PastOf(s) <=>
                     t \in Ended \cap TaskRuns /\ IsFetched(t) /\ (IsFetched(s) => FoundBefore(t, s))
        BY DEF PastOf
      <4>3. \A t : t \in PastOf(s)' <=> t \in PastOf(s)
        BY <3>2, <3>3, <4>1, <4>2
      <4>4. ASSUME NEW A, NEW B, \A t : t \in A <=> t \in B PROVE A = B
        BY <4>4
      <4> QED
        BY <4>3, <4>4, Zenon
    <3> QED
      BY <3>1, <3>4 DEF LowIsOf
  <2> QED
    BY <2>3, <2>4 DEF LowsArePast
<1> QED
  BY <1>5, <1>6, <1>7 DEF SignalInv

\* What is found keeps its types when one field of one run is written.
LEMMA PricedIsTyped ==
    ASSUME FindingsAreOrdered
    PROVE  /\ DOMAIN priced = Runs /\ TaskRuns \subseteq Runs
           /\ \A r \in Runs : /\ priced[r] \in [amount : Amounts \cup {0}, low : Amounts \cup {0},
                                                newLow : BOOLEAN]
                              /\ priced[r].amount \in Amounts \cup {0} /\ priced[r].low \in Amounts \cup {0}
                              /\ priced[r].newLow \in BOOLEAN
                              /\ priced[r].amount \in Nat /\ priced[r].low \in Nat
<1>1. priced \in [Runs -> [amount : Amounts \cup {0}, low : Amounts \cup {0}, newLow : BOOLEAN]]
  BY DEF FindingsAreOrdered
<1>2. \A x \in Amounts \cup {0} : x \in Nat
  <2>1. Amounts \subseteq Nat \ {0}
    BY PagesAssumption, Zenon
  <2> QED
    BY <2>1
<1>3. ASSUME NEW r \in Runs
      PROVE  /\ priced[r] \in [amount : Amounts \cup {0}, low : Amounts \cup {0}, newLow : BOOLEAN]
             /\ priced[r].amount \in Amounts \cup {0} /\ priced[r].low \in Amounts \cup {0}
             /\ priced[r].newLow \in BOOLEAN
  BY <1>1
<1> QED
  BY <1>1, <1>2, <1>3, Zenon DEF Runs

\* A run that reads its history before it begins to be one of the task's.
LEMMA LoadKeepsSignal ==
    ASSUME PagesInv, SignalInv, NEW r \in Runs, LoadHistory(r)
    PROVE  SignalInv'
<1> DEFINE offered == {priced[s].amount : s \in Ended \cap TaskRuns} \ {0}
           others == {s \in TaskRuns \ {r} : Open(s)}
           low == IF offered = {} THEN 0 ELSE Min(offered)
<1>1. /\ pagePhase[r] = "absent" /\ pagePhase' = [pagePhase EXCEPT ![r] = "loaded"]
      /\ priced' = [priced EXCEPT ![r].low = low]
      /\ met' = IF r \in TaskRuns /\ others # {} THEN met \cup others \cup {r} ELSE met
      /\ UNCHANGED <<fetchedIn, pricedIn>>
  BY DEF LoadHistory, Moves
<1>2. FindingsAreOrdered /\ PricedIsFetched
  BY DEF SignalInv
<1>3. /\ DOMAIN pagePhase = Runs /\ TaskRuns \subseteq Runs
      /\ pagePhase'[r] = "loaded" /\ \A s \in Runs \ {r} : pagePhase'[s] = pagePhase[s]
  BY <1>1 DEF PagesInv, PagesAreTyped, Runs
<1>4. r \in TaskRuns => ~IsFetched(r) /\ ~Open(r) /\ r \notin Ended
  BY <1>1, <1>2 DEF FindingsAreOrdered, Open, Ended
<1>5. offered \in SUBSET Amounts /\ offered \in SUBSET Nat
  <2>1. \A s \in Ended \cap TaskRuns : priced[s].amount \in Amounts \cup {0} /\ priced[s].amount \in Nat
    BY <1>2, PricedIsTyped DEF Ended
  <2> QED
    BY <2>1
<1>6. low \in Amounts \cup {0}
  <2> HIDE DEF offered
  <2>1. CASE offered = {}
    BY <2>1
  <2>2. CASE offered # {}
    BY <1>5, <2>2, NatHasMin
  <2> QED
    BY <2>1, <2>2
<1>7. \A s \in Ended \cap TaskRuns : priced[s].amount \in Nat /\ (priced[s].amount # 0 <=> IsFetched(s))
  BY <1>2, PricedIsTyped DEF Ended, FindingsAreOrdered
<1>8. LowIsOf(low, {s \in Ended \cap TaskRuns : IsFetched(s)})
  <2> DEFINE past == {s \in Ended \cap TaskRuns : IsFetched(s)}
  <2>1. offered = {priced[s].amount : s \in past}
    BY <1>7
  <2> HIDE DEF offered, past
  <2>2. ASSUME past = {} PROVE LowIsOf(low, past)
    BY <2>1, <2>2 DEF LowIsOf
  <2>3. ASSUME past # {} PROVE LowIsOf(low, past)
    <3>1. offered # {}
      BY <2>1, <2>3
    <3>2. low \in offered /\ \A x \in offered : low <= x
      BY <1>5, <3>1, NatHasMin
    <3> QED
      BY <2>1, <2>3, <3>2 DEF LowIsOf
  <2> QED
    BY <2>2, <2>3 DEF past
<1> HIDE DEF low, offered
<1>9. /\ priced' \in [Runs -> [amount : Amounts \cup {0}, low : Amounts \cup {0}, newLow : BOOLEAN]]
      /\ \A s \in Runs : priced'[s].amount = priced[s].amount /\ priced'[s].newLow = priced[s].newLow
      /\ \A s \in Runs \ {r} : priced'[s].low = priced[s].low
      /\ priced'[r].low = low
  <2>1. priced \in [Runs -> [amount : Amounts \cup {0}, low : Amounts \cup {0}, newLow : BOOLEAN]]
    BY <1>2 DEF FindingsAreOrdered
  <2> QED
    BY <1>1, <1>6, <2>1
<1>10. /\ \A s : IsFetched(s)' <=> IsFetched(s)
       /\ \A s : IsPriced(s)' <=> IsPriced(s)
       /\ \A s, t : FoundBefore(s, t)' <=> FoundBefore(s, t)
       /\ \A s \in Runs \ {r} : NewLow(s)' <=> NewLow(s)
  BY <1>1, <1>9 DEF IsFetched, IsPriced, FoundBefore, NewLow
<1>11. FindingsAreOrdered'
  BY <1>1, <1>2, <1>3, <1>4, <1>9, <1>10 DEF FindingsAreOrdered
<1>12. PricedIsFetched'
  <2>1. \A s \in TaskRuns : IsPriced(s) => s # r
    BY <1>1, <1>2 DEF PricedIsFetched
  <2> QED
    BY <1>2, <1>3, <1>4, <1>9, <1>10, <2>1 DEF PricedIsFetched
<1>13. Ended' = Ended
  BY <1>1, <1>3 DEF Ended
<1>14. ASSUME met' = {} PROVE RunsTakeTurns' /\ LowsArePast'
  <2>1. met = {} /\ (r \in TaskRuns => others = {})
    BY <1>1, <1>14
  <2>2. RunsTakeTurns /\ LowsArePast
    BY <2>1 DEF SignalInv
  <2>3. fetchedIn \in Seq(TaskRuns)
    BY <1>2 DEF FindingsAreOrdered
  <2>4. /\ \A s \in TaskRuns \ {r} : Open(s)' <=> Open(s)
        /\ r \in TaskRuns => \A s \in TaskRuns \ {r} : ~Open(s)
    BY <1>3, <2>1 DEF Open
  <2>5. RunsTakeTurns'
    <3>1. \A s, t \in TaskRuns : Open(s)' /\ Open(t)' => s = t
      BY <2>2, <2>4 DEF RunsTakeTurns
    <3>2. \A i \in 1 .. Len(fetchedIn) : Open(fetchedIn[i])' => i = Len(fetchedIn)
      <4> TAKE i \in 1 .. Len(fetchedIn)
      <4>1. fetchedIn[i] \in TaskRuns /\ fetchedIn[i] # r
        BY <1>4, <2>3 DEF IsFetched
      <4> QED
        BY <1>1, <2>2, <2>4, <4>1 DEF RunsTakeTurns
    <3> QED
      BY <1>1, <1>10, <2>2, <3>1, <3>2 DEF RunsTakeTurns
  <2>6. \A s \in TaskRuns : PastOf(s)' = PastOf(s)
    BY <1>10, <1>13 DEF PastOf
  <2>7. ASSUME NEW s \in TaskRuns, NEW l, LowIsOf(l, PastOf(s)) PROVE LowIsOf(l, PastOf(s))'
    <3>1. \A t \in PastOf(s) : priced'[t].amount = priced[t].amount
      BY <1>3, <1>9 DEF PastOf
    <3> QED
      BY <2>6, <2>7, <3>1 DEF LowIsOf
  <2>8. ASSUME NEW s \in TaskRuns, Open(s)' \/ IsFetched(s)'
        PROVE  LowIsOf(priced[s].low, PastOf(s))'
    <3>1. CASE s = r
      <4>1. PastOf(s) = {t \in Ended \cap TaskRuns : IsFetched(t)}
        BY <1>4, <3>1 DEF PastOf
      <4> QED
        BY <1>8, <1>9, <2>7, <3>1, <4>1
    <3>2. CASE s # r
      <4>1. LowIsOf(priced[s].low, PastOf(s))
        BY <1>10, <2>2, <2>4, <2>8, <3>2 DEF LowsArePast
      <4>2. priced'[s].low = priced[s].low
        BY <1>3, <1>9, <3>2
      <4> QED
        BY <2>7, <4>1, <4>2
    <3> QED
      BY <3>1, <3>2
  <2> QED
    BY <2>5, <2>8 DEF LowsArePast
<1> QED
  BY <1>11, <1>12, <1>14 DEF SignalInv

\* A run of the task that finds an offer is the last one that has.
LEMMA FetchKeepsSignal ==
    ASSUME PagesInv, SignalInv, NEW r \in Runs, FetchOfferOf(r)
    PROVE  SignalInv'
<1>1. PICK a \in Amounts :
         /\ r \in TaskRuns /\ pagePhase[r] = "running" /\ pagePhase' = [pagePhase EXCEPT ![r] = "fetched"]
         /\ priced' = [priced EXCEPT ![r].amount = a]
         /\ fetchedIn' = Append(fetchedIn, r) /\ UNCHANGED <<pricedIn, met>>
  BY DEF FetchOfferOf, Moves
<1>2. /\ FindingsAreOrdered /\ PricedIsFetched
      /\ fetchedIn \in Seq(TaskRuns) /\ pricedIn \in Seq(TaskRuns)
  BY DEF SignalInv, FindingsAreOrdered
<1>3. /\ DOMAIN pagePhase = Runs /\ TaskRuns \subseteq Runs
      /\ pagePhase'[r] = "fetched" /\ \A s \in Runs \ {r} : pagePhase'[s] = pagePhase[s]
  BY <1>1 DEF PagesInv, PagesAreTyped, Runs
<1>4. ~IsFetched(r) /\ ~IsPriced(r) /\ Open(r) /\ Open(r)' /\ r \notin Ended /\ Ended' = Ended
  BY <1>1, <1>2, <1>3 DEF FindingsAreOrdered, PricedIsFetched, Open, Ended
<1> DEFINE n == Len(fetchedIn)
<1>5. /\ n \in Nat /\ fetchedIn' \in Seq(TaskRuns) /\ Len(fetchedIn') = n + 1
      /\ fetchedIn'[n + 1] = r /\ \A i \in 1 .. n : fetchedIn'[i] = fetchedIn[i] /\ fetchedIn[i] # r
      /\ 1 .. n + 1 = 1 .. n \cup {n + 1}
  <2>1. \A i \in 1 .. n : fetchedIn[i] # r
    BY <1>4 DEF IsFetched
  <2> QED
    BY <1>1, <1>2, <2>1
<1> HIDE DEF n
<1>6. \A s : IsFetched(s)' <=> IsFetched(s) \/ s = r
  BY <1>5 DEF IsFetched, n
<1>7. \A s, t : FoundBefore(s, t)' <=> FoundBefore(s, t) \/ (t = r /\ IsFetched(s))
  <2> TAKE s, t
  <2>1. FoundBefore(s, t) => FoundBefore(s, t)'
    BY <1>5 DEF FoundBefore, n
  <2>2. ASSUME t = r, IsFetched(s) PROVE FoundBefore(s, t)'
    <3>1. PICK i \in 1 .. n : fetchedIn[i] = s
      BY <2>2 DEF IsFetched, n
    <3>2. i \in 1 .. n + 1 /\ n + 1 \in 1 .. n + 1 /\ i < n + 1
      BY <1>5
    <3> QED
      BY <1>5, <2>2, <3>1, <3>2 DEF FoundBefore
  <2>3. ASSUME FoundBefore(s, t)' PROVE FoundBefore(s, t) \/ (t = r /\ IsFetched(s))
    <3>1. PICK i, j \in 1 .. n + 1 : i < j /\ fetchedIn'[i] = s /\ fetchedIn'[j] = t
      BY <1>5, <2>3 DEF FoundBefore
    <3>2. i \in 1 .. n /\ (j \in 1 .. n \/ j = n + 1)
      BY <1>5, <3>1
    <3> QED
      BY <1>5, <3>1, <3>2 DEF FoundBefore, IsFetched, n
  <2> QED
    BY <2>1, <2>2, <2>3
<1>8. /\ priced' \in [Runs -> [amount : Amounts \cup {0}, low : Amounts \cup {0}, newLow : BOOLEAN]]
      /\ priced'[r].amount = a /\ a # 0
      /\ \A s \in Runs \ {r} : priced'[s] = priced[s]
      /\ priced'[r].low = priced[r].low
  <2>1. priced \in [Runs -> [amount : Amounts \cup {0}, low : Amounts \cup {0}, newLow : BOOLEAN]]
    BY <1>2 DEF FindingsAreOrdered
  <2>2. Amounts \subseteq Nat \ {0}
    BY PagesAssumption, Zenon
  <2> QED
    BY <1>1, <2>1, <2>2
<1>9. \A s : IsPriced(s)' <=> IsPriced(s)
  BY <1>1 DEF IsPriced
<1>10. FindingsAreOrdered'
  <2>1. \A i, j \in 1 .. n + 1 : fetchedIn'[i] = fetchedIn'[j] => i = j
    <3>1. \A i, j \in 1 .. n : fetchedIn[i] = fetchedIn[j] => i = j
      BY <1>2 DEF FindingsAreOrdered, n
    <3> QED
      BY <1>5, <3>1
  <2>2. pricedIn' \in Seq(TaskRuns) /\ fetchedIn' \in Seq(TaskRuns)
    BY <1>1, <1>2, <1>5
  <2>3. \A s \in TaskRuns : IsFetched(s)' =>
           /\ pagePhase'[s] \in {"fetched", "flushed", "written", "ended", "lost"}
           /\ priced'[s].amount # 0
    BY <1>2, <1>3, <1>6, <1>8 DEF FindingsAreOrdered
  <2>4. \A s \in Runs : ~IsFetched(s)' => pagePhase'[s] # "fetched" /\ priced'[s].amount = 0
    BY <1>2, <1>3, <1>6, <1>8 DEF FindingsAreOrdered
  <2> QED
    BY <1>5, <1>8, <2>1, <2>2, <2>3, <2>4 DEF FindingsAreOrdered
<1>11. PricedIsFetched'
  <2> SUFFICES ASSUME NEW s \in TaskRuns
               PROVE  /\ IsPriced(s)' =>
                            /\ IsFetched(s)' /\ pagePhase'[s] \in {"flushed", "written", "ended", "lost"}
                            /\ priced'[s].newLow <=> NewLow(s)'
                      /\ IsFetched(s)' /\ pagePhase'[s] \in {"flushed", "written", "ended"} => IsPriced(s)'
    BY DEF PricedIsFetched
  <2>1. CASE s = r
    BY <1>3, <1>4, <1>9, <2>1
  <2>2. CASE s # r
    <3>1. /\ pagePhase'[s] = pagePhase[s] /\ priced'[s] = priced[s] /\ (IsFetched(s)' <=> IsFetched(s))
          /\ (IsPriced(s)' <=> IsPriced(s)) /\ (NewLow(s)' <=> NewLow(s))
      BY <1>3, <1>6, <1>8, <1>9, <2>2 DEF NewLow
    <3> QED
      BY <1>2, <3>1 DEF PricedIsFetched
  <2> QED
    BY <2>1, <2>2
<1>12. ASSUME met' = {} PROVE RunsTakeTurns' /\ LowsArePast'
  <2>1. RunsTakeTurns /\ LowsArePast
    BY <1>1, <1>12 DEF SignalInv
  <2>2. \A s \in TaskRuns \ {r} : ~Open(s) /\ ~Open(s)'
    BY <1>1, <1>3, <1>4, <2>1 DEF RunsTakeTurns, Open
  <2>3. RunsTakeTurns'
    <3>1. \A s, t \in TaskRuns : Open(s)' /\ Open(t)' => s = t
      BY <2>2
    <3>2. \A i \in 1 .. n + 1 : Open(fetchedIn[i])' => i = n + 1
      <4> TAKE i \in 1 .. n + 1
      <4>1. CASE i = n + 1
        BY <4>1
      <4>2. CASE i \in 1 .. n
        <5>1. fetchedIn'[i] \in TaskRuns \ {r}
          BY <1>2, <1>5, <4>2 DEF n
        <5>2. \A s \in TaskRuns \ {r} : pagePhase'[s] \notin {"loaded", "running", "fetched", "flushed", "written"}
          BY <2>2 DEF Open
        <5> QED
          BY <5>1, <5>2 DEF Open
      <4> QED
        BY <1>5, <4>1, <4>2
    <3>3. \A i, j \in 1 .. Len(pricedIn) : i < j => FoundBefore(pricedIn[i], pricedIn[j])'
      <4> TAKE i, j \in 1 .. Len(pricedIn)
      <4> HAVE i < j
      <4>1. FoundBefore(pricedIn[i], pricedIn[j])
        BY <2>1 DEF RunsTakeTurns
      <4>2. pricedIn' = pricedIn
        BY <1>1
      <4> QED
        BY <1>7, <4>1, <4>2
    <3> QED
      BY <1>1, <1>5, <3>1, <3>2, <3>3 DEF RunsTakeTurns
  <2>4. ASSUME NEW s \in TaskRuns, Open(s)' \/ IsFetched(s)'
        PROVE  LowIsOf(priced[s].low, PastOf(s))'
    <3>1. LowIsOf(priced[s].low, PastOf(s))
      BY <1>4, <1>6, <2>1, <2>2, <2>4 DEF LowsArePast
    <3>2. PastOf(s)' = PastOf(s)
      <4>1. \A t : t \in PastOf(s)' <=>
                     t \in Ended \cap TaskRuns /\ IsFetched(t)' /\ (IsFetched(s)' => FoundBefore(t, s)')
        BY <1>4 DEF PastOf
      <4>2. \A t : t \in PastOf(s) <=>
                     t \in Ended \cap TaskRuns /\ IsFetched(t) /\ (IsFetched(s) => FoundBefore(t, s))
        BY DEF PastOf
      <4>3. \A t : t \in PastOf(s)' <=> t \in PastOf(s)
        BY <1>4, <1>6, <1>7, <4>1, <4>2
      <4>4. ASSUME NEW A, NEW B, \A t : t \in A <=> t \in B PROVE A = B
        BY <4>4
      <4> QED
        BY <4>3, <4>4, Zenon
    <3>3. priced'[s].low = priced[s].low /\ \A t \in PastOf(s) : priced'[t] = priced[t]
      BY <1>3, <1>4, <1>8 DEF PastOf
    <3> QED
      BY <3>1, <3>2, <3>3 DEF LowIsOf
  <2> QED
    BY <2>3, <2>4 DEF LowsArePast
<1> QED
  BY <1>10, <1>11, <1>12 DEF SignalInv

\* A run of the task that is flushed with an offer concludes from what it read.
LEMMA PriceKeepsSignal ==
    ASSUME PagesInv, SignalInv, NEW r \in Runs, pagePhase[r] = "fetched",
           pagePhase' = [pagePhase EXCEPT ![r] = "flushed"], pricedIn' = Append(pricedIn, r),
           priced' = [priced EXCEPT ![r].newLow = NewLow(r)], UNCHANGED <<fetchedIn, met>>
    PROVE  SignalInv'
<1>1. /\ FindingsAreOrdered /\ PricedIsFetched
      /\ fetchedIn \in Seq(TaskRuns) /\ pricedIn \in Seq(TaskRuns)
  BY DEF SignalInv, FindingsAreOrdered
<1>2. IsFetched(r) /\ r \in TaskRuns
  BY <1>1 DEF FindingsAreOrdered, IsFetched
<1>3. /\ DOMAIN pagePhase = Runs /\ TaskRuns \subseteq Runs
      /\ pagePhase'[r] = "flushed" /\ \A s \in Runs \ {r} : pagePhase'[s] = pagePhase[s]
  BY DEF PagesInv, PagesAreTyped, Runs
<1>4. ~IsPriced(r) /\ Open(r) /\ Ended' = Ended /\ \A s \in Runs : Open(s)' <=> Open(s)
  BY <1>1, <1>2, <1>3 DEF PricedIsFetched, Open, Ended
<1> DEFINE n == Len(pricedIn)
<1>5. /\ n \in Nat /\ pricedIn' \in Seq(TaskRuns) /\ Len(pricedIn') = n + 1
      /\ pricedIn'[n + 1] = r /\ \A i \in 1 .. n : pricedIn'[i] = pricedIn[i] /\ pricedIn[i] # r
      /\ 1 .. n + 1 = 1 .. n \cup {n + 1}
  <2>1. \A i \in 1 .. n : pricedIn[i] # r
    BY <1>4 DEF IsPriced
  <2> QED
    BY <1>1, <1>2, <2>1
<1> HIDE DEF n
<1>6. \A s : IsPriced(s)' <=> IsPriced(s) \/ s = r
  BY <1>5 DEF IsPriced, n
<1>7. /\ \A s : IsFetched(s)' <=> IsFetched(s)
      /\ \A s, t : FoundBefore(s, t)' <=> FoundBefore(s, t)
  BY DEF IsFetched, FoundBefore
<1>8. /\ priced' \in [Runs -> [amount : Amounts \cup {0}, low : Amounts \cup {0}, newLow : BOOLEAN]]
      /\ \A s \in Runs : priced'[s].amount = priced[s].amount /\ priced'[s].low = priced[s].low
      /\ \A s \in Runs \ {r} : priced'[s] = priced[s]
      /\ priced'[r].newLow = NewLow(r)
  <2>1. priced \in [Runs -> [amount : Amounts \cup {0}, low : Amounts \cup {0}, newLow : BOOLEAN]]
    BY <1>1 DEF FindingsAreOrdered
  <2>2. NewLow(r) \in BOOLEAN
    BY DEF NewLow
  <2> HIDE DEF NewLow
  <2> QED
    BY <2>1, <2>2
<1>9. \A s \in Runs : NewLow(s)' <=> NewLow(s)
  BY <1>8 DEF NewLow
<1>10. FindingsAreOrdered'
  BY <1>1, <1>2, <1>3, <1>5, <1>7, <1>8 DEF FindingsAreOrdered
<1>11. PricedIsFetched'
  <2> SUFFICES ASSUME NEW s \in TaskRuns
               PROVE  /\ IsPriced(s)' =>
                            /\ IsFetched(s)' /\ pagePhase'[s] \in {"flushed", "written", "ended", "lost"}
                            /\ priced'[s].newLow <=> NewLow(s)'
                      /\ IsFetched(s)' /\ pagePhase'[s] \in {"flushed", "written", "ended"} => IsPriced(s)'
    BY DEF PricedIsFetched
  <2>1. CASE s = r
    BY <1>2, <1>3, <1>6, <1>7, <1>8, <1>9, <2>1
  <2>2. CASE s # r
    <3>1. /\ pagePhase'[s] = pagePhase[s] /\ priced'[s] = priced[s] /\ (IsFetched(s)' <=> IsFetched(s))
          /\ (IsPriced(s)' <=> IsPriced(s)) /\ (NewLow(s)' <=> NewLow(s))
      BY <1>3, <1>6, <1>7, <1>8, <1>9, <2>2
    <3> QED
      BY <1>1, <3>1 DEF PricedIsFetched
  <2> QED
    BY <2>1, <2>2
<1>12. ASSUME met' = {} PROVE RunsTakeTurns' /\ LowsArePast'
  <2>1. RunsTakeTurns /\ LowsArePast
    BY <1>12 DEF SignalInv
  <2>2. \A s : IsFetched(s) /\ s # r => FoundBefore(s, r)
    <3>1. PICK k \in 1 .. Len(fetchedIn) : fetchedIn[k] = r
      BY <1>2 DEF IsFetched
    <3>2. k = Len(fetchedIn) /\ Len(fetchedIn) \in Nat
      BY <1>1, <1>4, <2>1, <3>1 DEF RunsTakeTurns
    <3> TAKE s
    <3> HAVE IsFetched(s) /\ s # r
    <3>3. PICK i \in 1 .. Len(fetchedIn) : fetchedIn[i] = s
      BY DEF IsFetched
    <3>4. i < k
      BY <3>1, <3>2, <3>3
    <3> QED
      BY <3>1, <3>3, <3>4 DEF FoundBefore
  <2>3. RunsTakeTurns'
    <3>1. \A s, t \in TaskRuns : Open(s)' /\ Open(t)' => s = t
      BY <1>3, <1>4, <2>1 DEF RunsTakeTurns
    <3>2. \A i \in 1 .. Len(fetchedIn) : Open(fetchedIn[i])' => i = Len(fetchedIn)
      <4> TAKE i \in 1 .. Len(fetchedIn)
      <4>1. fetchedIn[i] \in Runs /\ fetchedIn' = fetchedIn
        BY <1>1, <1>3
      <4> QED
        BY <1>4, <2>1, <4>1 DEF RunsTakeTurns
    <3>3. ASSUME NEW i \in 1 .. n + 1, NEW j \in 1 .. n + 1, i < j
          PROVE  FoundBefore(pricedIn[i], pricedIn[j])'
      <4>1. i \in 1 .. n /\ (j \in 1 .. n \/ j = n + 1)
        BY <1>5, <3>3
      <4>2. CASE j \in 1 .. n
        <5>1. FoundBefore(pricedIn[i], pricedIn[j])
          BY <2>1, <3>3, <4>1, <4>2 DEF RunsTakeTurns, n
        <5>2. pricedIn'[i] = pricedIn[i] /\ pricedIn'[j] = pricedIn[j]
          BY <1>5, <4>1, <4>2
        <5> QED
          BY <1>7, <5>1, <5>2
      <4>3. CASE j = n + 1
        <5>1. pricedIn'[i] = pricedIn[i] /\ pricedIn[i] # r /\ pricedIn'[j] = r
          BY <1>5, <4>1, <4>3
        <5>2. pricedIn[i] \in TaskRuns /\ IsPriced(pricedIn[i])
          BY <1>1, <4>1 DEF IsPriced, n
        <5>3. FoundBefore(pricedIn[i], r)
          BY <1>1, <2>2, <5>1, <5>2 DEF PricedIsFetched
        <5> QED
          BY <1>7, <5>1, <5>3
      <4> QED
        BY <4>1, <4>2, <4>3
    <3> QED
      BY <1>5, <3>1, <3>2, <3>3 DEF RunsTakeTurns
  <2>4. ASSUME NEW s \in TaskRuns, Open(s)' \/ IsFetched(s)'
        PROVE  LowIsOf(priced[s].low, PastOf(s))'
    <3>1. LowIsOf(priced[s].low, PastOf(s))
      BY <1>3, <1>4, <1>7, <2>1, <2>4 DEF LowsArePast
    <3>2. PastOf(s)' = PastOf(s) /\ PastOf(s) \subseteq Runs
      BY <1>3, <1>4, <1>7 DEF PastOf
    <3> QED
      BY <1>3, <1>8, <3>1, <3>2 DEF LowIsOf
  <2> QED
    BY <2>3, <2>4 DEF LowsArePast
<1> QED
  BY <1>10, <1>11, <1>12 DEF SignalInv

\* Before any run nothing is found and nothing is concluded.
LEMMA SignalInitLemma == PageInit => SignalInv
<1> SUFFICES ASSUME PageInit PROVE SignalInv
  OBVIOUS
<1>1. /\ pagePhase = [r \in Runs |-> "absent"] /\ fetchedIn = <<>> /\ pricedIn = <<>>
      /\ priced = [r \in Runs |-> [amount |-> 0, low |-> 0, newLow |-> FALSE]]
  BY DEF PageInit
<1>2. /\ fetchedIn \in Seq(TaskRuns) /\ pricedIn \in Seq(TaskRuns) /\ TaskRuns \subseteq Runs
      /\ 1 .. Len(fetchedIn) = {} /\ 1 .. Len(pricedIn) = {}
  BY <1>1 DEF Runs
<1>3. \A r : ~IsFetched(r) /\ ~IsPriced(r)
  BY <1>2 DEF IsFetched, IsPriced
<1>4. FindingsAreOrdered
  BY <1>1, <1>2, <1>3 DEF FindingsAreOrdered
<1>5. PricedIsFetched
  BY <1>3 DEF PricedIsFetched
<1>6. RunsTakeTurns
  BY <1>1, <1>2 DEF RunsTakeTurns, Open
<1>7. LowsArePast
  BY <1>1, <1>2, <1>3 DEF LowsArePast, Open
<1> QED
  BY <1>4, <1>5, <1>6, <1>7 DEF SignalInv

\* What neither moves a run nor finds anything keeps the signal.
LEMMA OthersKeepSignal ==
    ASSUME SignalInv, UNCHANGED <<pagePhase, priced, fetchedIn, pricedIn, met>>
    PROVE  SignalInv'
<1>1. FindingsAreOrdered'
  BY DEF SignalInv, FindingsAreOrdered, IsFetched
<1>2. PricedIsFetched'
  BY DEF SignalInv, PricedIsFetched, IsPriced, IsFetched, NewLow
<1>3. RunsTakeTurns => RunsTakeTurns'
  BY DEF RunsTakeTurns, FoundBefore, Open
<1>4. LowsArePast => LowsArePast'
  <2>1. \A r : PastOf(r)' = PastOf(r)
    BY DEF PastOf, Ended, IsFetched, FoundBefore
  <2> QED
    BY <2>1 DEF LowsArePast, LowIsOf, Open, IsFetched
<1> QED
  BY <1>1, <1>2, <1>3, <1>4 DEF SignalInv

\* Every step of a run and of a page keeps what the signal rests on.
LEMMA SignalStepLemma ==
    ASSUME PagesInv, SignalInv, [PageNext]_pageVars
    PROVE  SignalInv'
<1>1. ASSUME NEW r \in Runs, RunSteps(r) \/ LoseRun(r) \/ CleanUp(r) PROVE SignalInv'
  <2>1. CASE LoadHistory(r)
    BY <2>1, LoadKeepsSignal
  <2>2. CASE CommitRunning(r)
    BY <2>2, PhaseKeepsSignal DEF CommitRunning, Moves
  <2>3. CASE FetchOfferOf(r)
    BY <2>3, FetchKeepsSignal
  <2>4. CASE FlushRun(r)
    <3>1. CASE pagePhase[r] = "fetched"
      BY <2>4, <3>1, PriceKeepsSignal DEF FlushRun, Moves
    <3>2. CASE pagePhase[r] # "fetched"
      BY <2>4, <3>2, PhaseKeepsSignal DEF FlushRun, Moves
    <3> QED
      BY <3>1, <3>2
  <2>5. CASE WriteEvidenceOf(r)
    BY <2>5, PhaseKeepsSignal DEF WriteEvidenceOf, Moves
  <2>6. CASE CommitEnd(r)
    BY <2>6, PhaseKeepsSignal DEF CommitEnd, Moves
  <2>7. CASE LoseRun(r)
    BY <2>7, PhaseKeepsSignal DEF LoseRun, Moves
  <2>8. CASE CleanUp(r)
    BY <2>8, OthersKeepSignal DEF CleanUp
  <2> QED
    BY <1>1, <2>1, <2>2, <2>3, <2>4, <2>5, <2>6, <2>7, <2>8 DEF RunSteps
<1>2. ASSUME NEW p \in Pages, PageSteps(p) \/ \E kind \in Kinds : OpenPage(p, kind) PROVE SignalInv'
  <2>1. UNCHANGED <<pagePhase, priced, fetchedIn, pricedIn, met>>
    BY <1>2 DEF PageSteps, Query, Narrate, HearProvider, Render, SendPage, OpenPage
  <2> QED
    BY <2>1, OthersKeepSignal, Zenon
<1>3. CASE UNCHANGED pageVars
  BY <1>3, OthersKeepSignal DEF pageVars
<1> QED
  BY <1>1, <1>2, <1>3 DEF PageNext

\* Only runs of the task are known to have met.
LEMMA MetAreTaskRuns ==
    ASSUME met \subseteq TaskRuns, [PageNext]_pageVars
    PROVE  met' \subseteq TaskRuns
<1>1. CASE \E r \in Runs : LoadHistory(r)
  BY <1>1 DEF LoadHistory
<1>2. CASE UNCHANGED met
  BY <1>2, Zenon
<1>3. (\E r \in Runs : LoadHistory(r)) \/ UNCHANGED met
  BY Zenon DEF PageNext, RunSteps, CommitRunning, FetchOfferOf, FlushRun, WriteEvidenceOf, CommitEnd,
         LoseRun, CleanUp, PageSteps, Query, Narrate, HearProvider, Render, SendPage, OpenPage,
         pageVars
<1> QED
  BY <1>1, <1>2, <1>3

\* What the pages and the signal rest on is typed.
LEMMA PagesHaveTypes == PagesInv /\ SignalInv /\ met \subseteq TaskRuns => PageTypeOK
<1> SUFFICES ASSUME PagesInv, SignalInv, met \subseteq TaskRuns PROVE PageTypeOK
  OBVIOUS
<1>1. PagesAreTyped /\ FindingsAreOrdered /\ PricedIsFetched
  BY DEF PagesInv, SignalInv
<1>2. fetchedIn \in Seq(TaskRuns) /\ pricedIn \in Seq(TaskRuns)
  BY <1>1 DEF FindingsAreOrdered
<1>3. \A i \in 1 .. Len(pricedIn) : \E j \in 1 .. Len(fetchedIn) : fetchedIn[j] = pricedIn[i]
  BY <1>1, <1>2 DEF PricedIsFetched, IsPriced, IsFetched
<1>4. ToSet(fetchedIn) \subseteq TaskRuns /\ ToSet(pricedIn) \subseteq ToSet(fetchedIn)
  <2>1. /\ ToSet(fetchedIn) = {fetchedIn[i] : i \in DOMAIN fetchedIn}
        /\ ToSet(pricedIn) = {pricedIn[i] : i \in DOMAIN pricedIn}
    BY ZenonT(60) DEF ToSet
  <2>2. /\ DOMAIN fetchedIn = 1 .. Len(fetchedIn) /\ DOMAIN pricedIn = 1 .. Len(pricedIn)
        /\ \A i \in 1 .. Len(fetchedIn) : fetchedIn[i] \in TaskRuns
    BY <1>2
  <2> QED
    BY <1>3, <2>1, <2>2, ZenonT(60)
<1>5. ASSUME NEW p \in Pages
      PROVE  /\ page[p].at \in {"idle", "open", "asking", "built", "sent"}
             /\ DOMAIN page[p].saw \subseteq Parts
  <2>1. page[p] \in PageRecord
    BY <1>1 DEF PagesAreTyped
  <2>2. PICK S \in SUBSET Parts : page[p].saw \in [S -> SUBSET Runs]
    BY <2>1, ZenonT(60) DEF PageRecord
  <2> QED
    BY <2>1, <2>2 DEF PageRecord
<1> QED
  BY <1>1, <1>4, <1>5 DEF PageTypeOK, PagesAreTyped, FindingsAreOrdered

\* What the page of a task shows is of one moment, since it holds the task's row
\* from its first query on and no run that ends can pass it; the pages that take
\* no lock never tell of a run that the list they read later does not show; a
\* listed run comes with its files; no page holds a row while a provider is
\* asked; and unless runs of the task have overlapped, the signal is that of the
\* price beside it and calls it a new low when it is one.  Whatever runs commit
\* or die meanwhile, for any number of runs, pages and prices
\* (get_watch_task_detail, get_watch_group_detail, the recovery inbox,
\* _build_task_price_signal).
THEOREM PagesStaySound == PageSpec => [](PageTypeOK /\ PagesAreSound)
<1>1. PageInit => PagesInv /\ SignalInv /\ met \subseteq TaskRuns
  BY PagesInitLemma, SignalInitLemma DEF PageInit
<1>2. /\ PagesInv /\ SignalInv /\ met \subseteq TaskRuns /\ [PageNext]_pageVars
      => PagesInv' /\ SignalInv' /\ (met \subseteq TaskRuns)'
  BY PagesStepLemma, SignalStepLemma, MetAreTaskRuns
<1>3. PagesInv /\ SignalInv /\ met \subseteq TaskRuns => PageTypeOK /\ PagesAreSound
  BY PagesAreBacked, SignalIsTrue, PagesHaveTypes DEF PagesAreSound
<1> QED
  BY <1>1, <1>2, <1>3, PTL DEF PageSpec

-------------------------------------------------------------------------------
(* The services side by side.                                                *)

\* Each lane is the specification of its module, which rests while another
\* lane has the steps.
LEMMA ServicesAreTheirParts ==
    LaneSpec => /\ CompareSpec /\ SettingsSpec /\ ReviewSpec /\ CorpusSpec
                /\ PageSpec /\ ReadinessSpec /\ DeliverySpec /\ DayReportsSpec
<1>1. LaneInit => /\ CompareInit /\ SettingsInit /\ ReviewInit /\ CorpusInit
                  /\ PageInit /\ ReadinessInit /\ DeliveryInit /\ DayReportsInit
  BY DEF LaneInit
<1>2. ASSUME [LaneNext]_all
      PROVE  /\ [CompareNext]_compareVars /\ [SettingsNext]_settingsVars /\ [ReviewNext]_reviewVars
             /\ [CorpusNext]_corpusVars /\ [PageNext]_pageVars /\ [ReadinessNext]_readyVars
             /\ [DeliveryNext]_deliveryVars /\ [DayReportsNext]_reportVars
  <2>1. CASE CompareLane(CompareNext)
    BY <2>1 DEF CompareLane
  <2>2. CASE SettingsLane(SettingsNext)
    BY <2>2 DEF SettingsLane
  <2>3. CASE ReviewLane(ReviewNext)
    BY <2>3 DEF ReviewLane
  <2>4. CASE CorpusLane(CorpusNext)
    BY <2>4 DEF CorpusLane
  <2>5. CASE PageLane(PageNext)
    BY <2>5 DEF PageLane
  <2>6. CASE ReadyLane(ReadinessNext)
    BY <2>6 DEF ReadyLane
  <2>7. CASE DeliveryLane(DeliveryNext)
    BY <2>7 DEF DeliveryLane
  <2>8. CASE DaysLane(DayReportsNext)
    BY <2>8 DEF DaysLane
  <2>9. CASE UNCHANGED all
    BY <2>9 DEF all
  <2> QED
    BY <1>2, <2>1, <2>2, <2>3, <2>4, <2>5, <2>6, <2>7, <2>8, <2>9 DEF LaneNext
<1> QED
  BY <1>1, <1>2, PTL
     DEF LaneSpec, CompareSpec, SettingsSpec, ReviewSpec, CorpusSpec, PageSpec, ReadinessSpec,
         DeliverySpec, DayReportsSpec

\* ServicesTyped, for any urls, stores and titles, any tasks and rules, any
\* jobs and campaigns, any runs and pages, any callbacks and any days: what the
\* API and the operator's commands do keeps every type, one module beside the
\* other.
THEOREM ServicesStayTyped == LaneSpec => []ServicesTyped
<1>1. /\ CompareTypeOK /\ SettingsTypeOK /\ ReviewTypeOK /\ CorpusTypeOK
      /\ PageTypeOK /\ ReadinessTypeOK /\ DeliveryTypeOK /\ DayReportsTypeOK
      => ServicesTyped
  BY DEF ServicesTyped
<1> QED
  BY <1>1, ServicesAreTheirParts, IntakeStaysSafe, SavingStaysTrue, ReviewsStaySafe, CorpusStaysSound,
     PagesStaySound, ReadinessStaysHonest, DeliveryReportsAreTrue, DaysStayTold, PTL
===============================================================================
