------------------------------ MODULE AiNarrative ------------------------------
(***************************************************************************)
(* The AI narrative beside a comparison, a group's decision or the recovery *)
(* inbox: what the page asks for, whether a provider is asked, what a       *)
(* provider's answer is made of, and the envelope the page gets.  Texts are *)
(* left out; a list is kept where a limit cuts it.                          *)
(***************************************************************************)
EXTENDS Naturals, Sequences, SequencesExt

CONSTANTS
    MaxRisks,    \* risk notes of a comparison or a decision
    MaxItems,    \* monitors of a kind in the recovery inbox
    MaxDraft     \* bullets a draft may have to fit the schema: 4

ASSUME NarrativeAssumption == {MaxRisks, MaxItems, MaxDraft} \subseteq Nat

VARIABLES
    stage,      \* "quiet", "asked", "waiting", "told"
    request,    \* what the page asks the service for
    setup,      \* the settings, as far as the service reads them
    envelope    \* what the page gets

aiVars == <<stage, request, setup, envelope>>

UpTo(n, s) == SubSeq(s, 1, IF Len(s) < n THEN Len(s) ELSE n)
Numbered(kind, n) == [i \in 1 .. n |-> <<kind, i>>]
If(b, s) == IF b THEN s ELSE <<>>

Line(name) == <<name, 0>>

\* A comparison has a strongest pair or not; it is never skipped.
CompareRequest(pair, risks) ==
    [refs |-> <<Line("next step"), Line("action")>> \o If(pair, <<Line("pair")>>)
                \o UpTo(3, Numbered("risk", risks)),
     bullets |-> <<Line("resolved"), Line("next step")>> \o If(pair, <<Line("score")>>),
     cautions |-> Numbered("risk", risks), skip |-> FALSE]

\* A decision without a winner has nothing to explain.
GroupRequest(winner, runnerUp, risks) ==
    [refs |-> <<Line("reason"), Line("winner")>> \o If(runnerUp, <<Line("runner-up")>>)
                \o UpTo(3, Numbered("risk", risks)),
     bullets |-> <<Line("headline"), Line("reliability")>> \o If(winner, <<Line("title")>>),
     cautions |-> Numbered("risk", risks), skip |-> ~winner]

\* The first two tasks and the first two groups; several may share a reason.
InboxRequest(tasks, groups, reasons) ==
    LET top == UpTo(2, Numbered("task", tasks)) \o UpTo(2, Numbered("group", groups))
    IN  [refs |-> <<Line("size")>> \o UpTo(4, top),
         bullets |-> <<Line("counts")>> \o UpTo(3, top),
         cautions |-> Numbered("cause", IF reasons < Len(top) THEN reasons ELSE Len(top)),
         skip |-> tasks + groups = 0]

Requests ==
    {CompareRequest(pair, risks) : pair \in BOOLEAN, risks \in 0 .. MaxRisks}
    \cup {GroupRequest(w, w /\ second, risks) : w \in BOOLEAN, second \in BOOLEAN,
                                                risks \in 0 .. MaxRisks}
    \cup {InboxRequest(t, g, reasons) : t \in 0 .. MaxItems, g \in 0 .. MaxItems,
                                        reasons \in 1 .. 4}

\* AI_PROVIDER "" or unknown makes no provider; a real one also needs its
\* address, its model and, for OpenAI, its key.
Setups == [enabled : BOOLEAN, useLlm : BOOLEAN,
           provider : {"none", "fake", "switchyard", "openai"}, complete : BOOLEAN]

NoRequest == [refs |-> <<>>, bullets |-> <<>>, cautions |-> <<>>, skip |-> FALSE]
NoEnvelope == [status |-> "none", told |-> "nothing", bullets |-> <<>>, refs |-> <<>>,
               cautions |-> <<>>]

Statuses == {"none", "disabled", "skipped", "unavailable", "error", "ok"}
Codes == {"misconfigured", "user_action_required", "deprecated_model", "rate_limited",
          "overloaded", "provider_error", "timeout", "unavailable", "invalid_response"}

\* The kinds of a line of a request.
Kinds == {"next step", "action", "pair", "resolved", "score", "reason", "winner", "runner-up",
          "headline", "reliability", "title", "size", "counts", "risk", "task", "group", "cause"}

AiTypeOK ==
    /\ stage \in {"quiet", "asked", "waiting", "told"}
    /\ stage = "quiet" <=> request = NoRequest
    /\ {request.refs, request.bullets, request.cautions} \subseteq Seq(Kinds \X Nat)
    /\ setup \in Setups
    /\ envelope.status \in Statuses
    /\ envelope.told \in Codes \cup {"nothing", "no provider", "failed", "draft"}

AiInit ==
    /\ stage = "quiet" /\ request = NoRequest
    /\ setup \in Setups
    /\ envelope = NoEnvelope

AskNarrative ==
    /\ stage = "quiet"
    /\ request' \in Requests
    /\ stage' = "asked"
    /\ UNCHANGED <<setup, envelope>>

\* Mutant: the limit is one too low for a page with all its anchors.
EnvelopeOfFive(status, told, bullets) ==
    [status |-> status, told |-> told, bullets |-> UpTo(4, bullets),
     refs |-> UpTo(5, request.refs), cautions |-> UpTo(4, request.cautions)]

Envelope(status, told, bullets) ==
    [status |-> status, told |-> told, bullets |-> UpTo(4, bullets),
     refs |-> UpTo(6, request.refs), cautions |-> UpTo(4, request.cautions)]

Tell(e) == envelope' = e /\ stage' = "told"

\* Disabled comes first, then a request that is skipped, then no provider.
AnswerWithoutProvider ==
    /\ stage = "asked"
    /\ \/ ~(setup.enabled /\ setup.useLlm)
          /\ Tell(Envelope("disabled", "nothing", request.bullets))
       \/ setup.enabled /\ setup.useLlm /\ request.skip
          /\ Tell(Envelope("skipped", "nothing", request.bullets))
       \/ setup.enabled /\ setup.useLlm /\ ~request.skip /\ setup.provider = "none"
          /\ Tell(Envelope("unavailable", "no provider", request.bullets))
    /\ UNCHANGED <<request, setup>>

AskProvider ==
    /\ stage = "asked"
    /\ setup.enabled /\ setup.useLlm /\ ~request.skip /\ setup.provider # "none"
    /\ stage' = "waiting"
    /\ UNCHANGED <<request, setup, envelope>>

-----------------------------------------------------------------------------
(* The providers.                                                           *)

\* HTTP answers: none (status 0), a refusal with the type of its error, whose
\* body may be odd (not an object, or with an error that is none), or a body.
Silences == [status : {0}, type : {"timeout", "unreachable"}]
Refusals == [status : {400, 401, 403, 404, 409, 422, 429, 500, 503},
             type : {"credential", "other", "odd"}]
Replies  == [status : {200}, type : {"not json", "odd", "empty", "broken", "off schema", "draft"}]
Answers  == Silences \cup Refusals \cup Replies

\* Only Switchyard's errors are looked into.
SwitchyardRefusal(a) ==
    IF a.type = "odd"                                THEN "failed"
    ELSE IF a.status = 400                           THEN "misconfigured"
    ELSE IF a.status = 409 /\ a.type = "credential"  THEN "user_action_required"
    ELSE IF a.status >= 500                          THEN "overloaded"
    ELSE "provider_error"

OpenAiRefusal(a) ==
    CASE a.status \in {401, 403} -> "misconfigured"
      [] a.status = 404          -> "deprecated_model"
      [] a.status = 429          -> "rate_limited"
      [] a.status >= 500         -> "overloaded"
      [] OTHER                   -> "provider_error"

Refusal(a) == IF setup.provider = "switchyard" THEN SwitchyardRefusal(a) ELSE OpenAiRefusal(a)

\* The outcome of an answer: a draft, a code, or an exception of another kind
\* for a body whose root is not an object.
Outcome(a) ==
    CASE a.status = 0 /\ a.type = "timeout"       -> "timeout"
      [] a.status = 0 /\ a.type = "unreachable"   -> "unavailable"
      [] a.status = 200 /\ a.type = "draft"       -> "draft"
      [] a.status = 200 /\ a.type = "odd"         -> "failed"
      [] a.status = 200 /\ a.type \notin {"draft", "odd"} -> "invalid_response"
      [] OTHER                                    -> Refusal(a)

Downgraded(outcome) ==
    Envelope(IF outcome = "failed" THEN "error" ELSE "unavailable", outcome, request.bullets)

\* An incomplete setup is found before anything is sent.
HearRefusal ==
    /\ stage = "waiting" /\ setup.provider \in {"switchyard", "openai"}
    /\ \/ ~setup.complete /\ Tell(Downgraded("misconfigured"))
       \/ setup.complete /\ \E a \in Answers :
             Outcome(a) # "draft" /\ Tell(Downgraded(Outcome(a)))
    /\ UNCHANGED <<request, setup>>

\* A draft with more than MaxDraft bullets is off schema, one without any those
\* of the page; the fake provider's draft mirrors the request.
HearDraft ==
    /\ stage = "waiting" /\ (setup.provider = "fake" \/ setup.complete)
    /\ \E n \in 0 .. MaxDraft :
         LET draft == IF setup.provider = "fake" THEN UpTo(4, request.bullets)
                      ELSE Numbered("line", n)
         IN  Tell(Envelope("ok", "draft", IF draft = <<>> THEN request.bullets ELSE draft))
    /\ UNCHANGED <<request, setup>>

AiNext == AskNarrative \/ AnswerWithoutProvider \/ AskProvider \/ HearRefusal \/ HearDraft

AiSpec == AiInit /\ [][AiNext]_aiVars

-----------------------------------------------------------------------------

\* The limits of the envelope never cut an anchor that the page has named,
\* nor a line of the deterministic truth: a comparison with a pair and three
\* risks has just as many anchors as the envelope takes.
AnchorsAreWhole ==
    stage = "told" =>
        /\ envelope.refs = request.refs
        /\ envelope.status # "ok" => envelope.bullets = request.bullets

\* A risk that is anchored is among the cautions, though both lists are cut.
AnchoredRisksAreCautioned ==
    stage = "told" => \A i \in 1 .. MaxRisks :
        <<"risk", i>> \in ToSet(envelope.refs) => <<"risk", i>> \in ToSet(envelope.cautions)

\* An operator whose settings are complete is told to look at them only if
\* the server has refused the request itself, its key or its model, and never
\* because the server is slow, busy or limiting the rate.
Blames == {"misconfigured", "deprecated_model", "user_action_required"}
NoBlameForLoad ==
    stage = "waiting" =>
        \A a \in Answers :
            a.status \in {0, 429, 500, 503} => Outcome(a) \notin Blames

\* Whatever a provider answers, the envelope is whole and blames the right side.
NarrativeIsSound == AnchorsAreWhole /\ AnchoredRisksAreCautioned /\ NoBlameForLoad
=================================================================================
