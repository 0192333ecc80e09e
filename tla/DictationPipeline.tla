-------------------------- MODULE DictationPipeline --------------------------
(***************************************************************************)
(* A dictation request in the backend (routes /full, /transcribe and       *)
(* /process with services/full_pipeline.py, transcription.py,              *)
(* post_processing.py and mode_overrides.py): which providers it is sent   *)
(* to, in which order, and what the client is answered.  Calls to local    *)
(* providers go through the gate of LocalInferenceGate, one slot per call. *)
(*                                                                         *)
(* Audio, text and keys are abstracted to what decides the path: a call    *)
(* ends in text, blank text, a transient failure, a reply without text or  *)
(* another provider error.  The retries inside a call (providers/retry.py) *)
(* happen in its slot and only make it longer.                             *)
(***************************************************************************)
EXTENDS LocalInferenceGate
CONSTANTS SttProviders, LlmProviders, \* names in the registry
          Local,                      \* those without key_provider
          LocalStt, LocalLlm,         \* cfg.local_providers
          Inputs,                     \* requests that clients send
          None

Kinds == {"full", "transcribe", "process"}

(* A mode of the configuration; prompt says whether it has a system prompt. *)
ModeConfigs == [stt: SttProviders, fallback: SttProviders \cup {None},
                llm: LlmProviders \cup {None}, applyLlm: BOOLEAN, prompt: BOOLEAN]

(* validate_local_providers checks the names at startup; that the local    *)
(* providers have no key_provider, and that a mode names providers of the  *)
(* registry, is up to the configuration.  base is None when there is no    *)
(* such mode.  /transcribe has no llm parameter and /process no stt        *)
(* parameter; nothing is said of the providers that a request names.       *)
ASSUME PipelineAssumption ==
    /\ LocalStt \in SttProviders \cap Local
    /\ LocalLlm \in LlmProviders \cap Local
    /\ None \notin SttProviders \cup LlmProviders \cup Inputs
    /\ \A in \in Inputs : /\ in.kind \in Kinds /\ in.location \in {"local", "online"}
                          /\ in.base \in ModeConfigs \cup {None}
                          /\ in.override.applyLlm \in BOOLEAN \cup {None}
                          /\ in.override.prompt \in BOOLEAN
                          /\ in.kind = "transcribe" => in.llm = None
                          /\ in.kind = "process" => in.stt = None

VARIABLES
    req,      \* what the client asked for
    plan,     \* the effective mode: stt, fallback, llm
    stage,    \* which call is next or under way
    pc,       \* "new", "gate": about to call or queueing; "call"; "done"
    answer,   \* what the client is answered
    booked,   \* UsageDaily: what the request was counted as
    log       \* history: the calls made and how they ended

request == <<req, plan, stage, pc, answer, booked, log>>
vars == <<gate, request>>

Requests == Callers
Stages   == {"stt", "retry", "fallback", "llm"}
Outcomes == {"text", "blank", "unavailable", "empty", "invalid"}
Triggers == {"unavailable", "empty"}      \* _FALLBACK_TRIGGERS
NoPlan   == [stt |-> None, fallback |-> None, llm |-> None]
Plans    == [stt: SttProviders \cup {None}, fallback: SttProviders \cup {None},
             llm: LlmProviders \cup {None}]
Calls    == [stage: Stages, to: SttProviders \cup LlmProviders, got: Outcomes]

TypeOK ==
    /\ GateTypeOK
    /\ req \in [Requests -> Inputs \cup {None}]
    /\ plan \in [Requests -> Plans]
    /\ stage \in [Requests -> Stages]
    /\ pc \in [Requests -> {"new", "gate", "call", "done"}]
    /\ answer \in [Requests -> {"none", "ok", "refused", "noKey", "busy", "failed"}]
    /\ booked \in [Requests -> {"none", "success", "error"}]
    /\ log \in [Requests -> Seq(Calls)]
    /\ \A r \in Requests : Len(log[r]) <= 4

Init ==
    /\ GateInit
    /\ req = [r \in Requests |-> None]
    /\ plan = [r \in Requests |-> NoPlan]
    /\ stage = [r \in Requests |-> "stt"]
    /\ pc = [r \in Requests |-> "new"]
    /\ answer = [r \in Requests |-> "none"]
    /\ booked = [r \in Requests |-> "none"]
    /\ log = [r \in Requests |-> <<>>]

-----------------------------------------------------------------------------
(* The effective mode.  An override [enabled, stt, llm, applyLlm, prompt]  *)
(* leaves out what is None.                                                *)

(* Fault: a chosen STT keeps the fallback. *)
OverrideKeepingFallback(mode, ov) ==
    [mode EXCEPT !.stt = IF ov.stt \in SttProviders THEN ov.stt ELSE @,
                 !.llm = IF ov.llm \in LlmProviders THEN ov.llm ELSE @,
                 !.applyLlm = IF ov.applyLlm = None THEN @ ELSE ov.applyLlm,
                 !.prompt = @ \/ ov.prompt]

ApplyUserOverride(mode, ov) ==
    [mode EXCEPT !.stt = IF ov.stt \in SttProviders THEN ov.stt ELSE @,
                 !.fallback = IF ov.stt \in SttProviders THEN None ELSE @,
                 !.llm = IF ov.llm \in LlmProviders THEN ov.llm ELSE @,
                 !.applyLlm = IF ov.applyLlm = None THEN @ ELSE ov.applyLlm,
                 !.prompt = @ \/ ov.prompt]

(* Fault: the cloud fallback stays. *)
LocateKeepingFallback(mode, location) ==
    IF location # "local" THEN mode
    ELSE [mode EXCEPT !.stt = LocalStt,
                      !.llm = IF mode.applyLlm THEN LocalLlm ELSE @]

ResolveForLocation(mode, location) ==
    IF location # "local" THEN mode
    ELSE [mode EXCEPT !.stt = LocalStt, !.fallback = None,
                      !.llm = IF mode.applyLlm THEN LocalLlm ELSE @]

BuildEffective(mode, stt, llm) ==
    [mode EXCEPT !.stt = IF stt = None THEN @ ELSE stt,
                 !.llm = IF llm = None THEN @ ELSE llm]

Effective(in) ==
    BuildEffective(
        ResolveForLocation(ApplyUserOverride(in.base, in.override), in.location),
        in.stt, in.llm)

(* Fault: an override may name any registered provider. *)
OverridesRegistered(in) ==
    /\ in.stt \in SttProviders \cup {None}
    /\ in.llm \in LlmProviders \cup {None}

(* build_effective_mode: in location "local" only the local providers. *)
OverridesAllowed(in) ==
    /\ in.stt \in {None} \cup (IF in.location = "local" THEN {LocalStt} ELSE SttProviders)
    /\ in.llm \in {None} \cup (IF in.location = "local" THEN {LocalLlm} ELSE LlmProviders)

(* Configured, enabled, overrides allowed, and an LLM mode has LLM and     *)
(* prompt (ensure_llm_wellformed); /process insists on an LLM mode.        *)
Accepted(in) ==
    /\ in.base # None /\ in.override.enabled /\ OverridesAllowed(in)
    /\ in.kind # "transcribe" /\ Effective(in).applyLlm =>
          Effective(in).llm # None /\ Effective(in).prompt
    /\ in.kind = "process" => Effective(in).applyLlm

PlanOf(in) ==
    LET mode == Effective(in)
    IN  [stt      |-> IF in.kind = "process" THEN None ELSE mode.stt,
         fallback |-> IF in.kind = "process" THEN None ELSE mode.fallback,
         llm      |-> IF in.kind # "transcribe" /\ mode.applyLlm THEN mode.llm ELSE None]

-----------------------------------------------------------------------------
Provider(r) == CASE stage[r] = "llm"      -> plan[r].llm
                 [] stage[r] = "fallback" -> plan[r].fallback
                 [] OTHER                 -> plan[r].stt

Answer(r, a, b) == /\ pc' = [pc EXCEPT ![r] = "done"]
                   /\ answer' = [answer EXCEPT ![r] = a]
                   /\ booked' = [booked EXCEPT ![r] = b]

Succeed(r) == Answer(r, "ok", "success") /\ UNCHANGED stage
Fail(r)    == Answer(r, "failed", "error") /\ UNCHANGED stage

GoCall(r, s, p) ==
    /\ stage' = [stage EXCEPT ![r] = s]
    /\ pc' = [pc EXCEPT ![r] = IF p \in Local THEN "gate" ELSE "call"]
    /\ UNCHANGED <<answer, booked>>

(* The next call goes to provider p.  The user's key for a cloud provider  *)
(* is looked up first; it may be missing or unreadable (412, 422), and     *)
(* neither is a ProviderError.                                             *)
Begin(r, s, p) ==
    \/ GoCall(r, s, p)
    \/ /\ p \notin Local
       /\ stage' = [stage EXCEPT ![r] = s]
       /\ Answer(r, "noKey", "none")

AfterStt(r) == IF plan[r].llm = None THEN Succeed(r) ELSE Begin(r, "llm", plan[r].llm)

-----------------------------------------------------------------------------
(* The route: the rate limiter, the resolution of the mode, the first call. *)
Submit(r, in) ==
    /\ pc[r] = "new"
    /\ Accepted(in)
    /\ req' = [req EXCEPT ![r] = in]
    /\ plan' = [plan EXCEPT ![r] = PlanOf(in)]
    /\ IF in.kind = "process" THEN Begin(r, "llm", PlanOf(in).llm)
                              ELSE Begin(r, "stt", PlanOf(in).stt)
    /\ UNCHANGED <<gate, log>>

(* 429 from the rate limiter, 400, 403 or 409 from the mode. *)
Refuse(r, in) ==
    /\ pc[r] = "new"
    /\ req' = [req EXCEPT ![r] = in]
    /\ Answer(r, "refused", "none")
    /\ UNCHANGED <<gate, plan, stage, log>>

(* The response leaves; the name is free for another request. *)
Respond(r) ==
    /\ pc[r] = "done"
    /\ req' = [req EXCEPT ![r] = None]
    /\ plan' = [plan EXCEPT ![r] = NoPlan]
    /\ stage' = [stage EXCEPT ![r] = "stt"]
    /\ pc' = [pc EXCEPT ![r] = "new"]
    /\ answer' = [answer EXCEPT ![r] = "none"]
    /\ booked' = [booked EXCEPT ![r] = "none"]
    /\ log' = [log EXCEPT ![r] = <<>>]
    /\ UNCHANGED gate

-----------------------------------------------------------------------------
(* async with gate.slot() in _transcribe and post_process_for_mode.        *)
ArriveAtGate(r) ==
    /\ pc[r] = "gate"
    /\ \/ Enter(r) /\ pc' = [pc EXCEPT ![r] = "call"]
       \/ Enqueue(r) /\ UNCHANGED pc
    /\ UNCHANGED <<req, plan, stage, answer, booked, log>>

ResumeAtGate(r) ==
    /\ pc[r] = "gate"
    /\ Resume(r)
    /\ pc' = [pc EXCEPT ![r] = "call"]
    /\ UNCHANGED <<req, plan, stage, answer, booked, log>>

ExpireAtGate(r) == pc[r] = "gate" /\ Expire(r) /\ UNCHANGED request

(* LocalGateTimeout (503) is no ProviderError: nothing catches it. *)
GateTimeout(r) ==
    /\ pc[r] = "gate"
    /\ Leave(r)
    /\ Answer(r, "busy", "none")
    /\ UNCHANGED <<req, plan, stage, log>>

(* Fault: the slot is kept for the next call of the request. *)
HangUpHolding(r, o) ==
    /\ pc[r] = "call"
    /\ UNCHANGED gate
    /\ log' = [log EXCEPT ![r] = Append(@, [stage |-> stage[r], to |-> Provider(r), got |-> o])]
    /\ UNCHANGED <<req, plan>>

(* Fault: a cloud call releases the gate of somebody else. *)
HangUpReleasing(r, o) ==
    /\ pc[r] = "call"
    /\ \/ Release(r)
       \/ slot[r] # "in" /\ permits' = permits + 1 /\ UNCHANGED <<queue, slot>>
    /\ log' = [log EXCEPT ![r] = Append(@, [stage |-> stage[r], to |-> Provider(r), got |-> o])]
    /\ UNCHANGED <<req, plan>>

(* The provider call of request r ends with o; a slot is given back.       *)
HangUp(r, o) ==
    /\ pc[r] = "call"
    /\ IF Provider(r) \in Local THEN Release(r) ELSE UNCHANGED gate
    /\ log' = [log EXCEPT ![r] = Append(@, [stage |-> stage[r], to |-> Provider(r), got |-> o])]
    /\ UNCHANGED <<req, plan>>

(* transcribe_for_mode: the primary STT.  Blank text is retried without    *)
(* the prompt hint when there is a fallback, and is a result when not.     *)
FirstSttEnds(r, o) ==
    /\ stage[r] = "stt" /\ HangUp(r, o)
    /\ \/ o = "text" /\ AfterStt(r)
       \/ o = "blank" /\ plan[r].fallback = None /\ AfterStt(r)
       \/ o = "blank" /\ plan[r].fallback # None /\ GoCall(r, "retry", plan[r].stt)
       \/ o \in Triggers /\ plan[r].fallback # None /\ Begin(r, "fallback", plan[r].fallback)
       \/ o \in Triggers /\ plan[r].fallback = None /\ Fail(r)
       \/ o = "invalid" /\ Fail(r)

(* Fault: only the first result decides, the text of the retry is dropped. *)
RetryForNothing(r, o) ==
    /\ stage[r] = "retry" /\ HangUp(r, o)
    /\ \/ o # "invalid" /\ Begin(r, "fallback", plan[r].fallback)
       \/ o = "invalid" /\ Fail(r)

(* The retry: its text is the result; without text, or when it fails the   *)
(* way that calls for a fallback, the fallback is next.                    *)
RetryEnds(r, o) ==
    /\ stage[r] = "retry" /\ HangUp(r, o)
    /\ \/ o = "text" /\ AfterStt(r)
       \/ o \in {"blank"} \cup Triggers /\ Begin(r, "fallback", plan[r].fallback)
       \/ o = "invalid" /\ Fail(r)

(* The second call was a retry: the first one gave blank text. *)
FirstWasBlank(r) == log[r][1].got = "blank"

(* When the fallback fails after blank text, the blank text is the result. *)
FallbackEnds(r, o) ==
    /\ stage[r] = "fallback" /\ HangUp(r, o)
    /\ \/ o \in {"text", "blank"} /\ AfterStt(r)
       \/ o \notin {"text", "blank"} /\ FirstWasBlank(r) /\ AfterStt(r)
       \/ o \notin {"text", "blank"} /\ ~FirstWasBlank(r) /\ Fail(r)

LlmEnds(r, o) ==
    /\ stage[r] = "llm" /\ HangUp(r, o)
    /\ IF o \in {"text", "blank"} THEN Succeed(r) ELSE Fail(r)

CallEnds(r) ==
    \E o \in Outcomes : \/ FirstSttEnds(r, o) \/ RetryEnds(r, o)
                        \/ FallbackEnds(r, o) \/ LlmEnds(r, o)

Next == \E r \in Requests :
            \/ \E in \in Inputs : Submit(r, in) \/ Refuse(r, in)
            \/ Respond(r)
            \/ ArriveAtGate(r) \/ ResumeAtGate(r) \/ ExpireAtGate(r) \/ GateTimeout(r)
            \/ CallEnds(r)

Spec == Init /\ [][Next]_vars

(* Provider calls end (httpx timeouts) and the event loop runs whoever is  *)
(* ready.  The timeout of the gate is not relied upon.                     *)
Fairness ==
    \A r \in Requests :
        /\ WF_vars(ArriveAtGate(r)) /\ WF_vars(ResumeAtGate(r))
        /\ WF_vars(GateTimeout(r)) /\ WF_vars(CallEnds(r))

FairSpec == Spec /\ Fairness
-----------------------------------------------------------------------------
Sent(r) == {log[r][i] : i \in DOMAIN log[r]}

(* The boundary of processing_location = local: whatever the mode, the     *)
(* user's override and the request itself name, audio and text go to local *)
(* providers only.                                                         *)
LocalStaysLocal ==
    \A r \in Requests : req[r] # None /\ req[r].location = "local" =>
        /\ \A call \in Sent(r) : call.to \in Local
        /\ pc[r] = "call" => Provider(r) \in Local

(* A user who picks an STT in the settings gets no other one behind their  *)
(* back, except by naming it in the request or by working locally (comment *)
(* in apply_user_override: no silent cloud fallback).                      *)
ChosenSttIsUsed ==
    \A r \in Requests :
        req[r] # None /\ req[r].location = "online" /\ req[r].stt = None
                      /\ req[r].override.stt \in SttProviders =>
            \A call \in Sent(r) : call.stage # "llm" => call.to = req[r].override.stt

(* Audio goes to the fallback only after the primary STT failed, or gave   *)
(* blank text and then, asked again without the prompt hint, blank text or *)
(* a failure.  Once it gave text, nobody else hears the audio.             *)
FallbackIsLastResort ==
    \A r \in Requests : stage[r] = "fallback" /\ pc[r] # "done" =>
        \/ log[r][1].got \in Triggers
        \/ /\ log[r][1].got = "blank" /\ Len(log[r]) >= 2
           /\ log[r][2].stage = "retry" /\ log[r][2].got \in {"blank"} \cup Triggers

(* A slot of the gate is held exactly while a local provider is called;    *)
(* above all, an answered request holds none.                              *)
SlotPerLocalCall ==
    \A r \in Requests :
        /\ slot[r] = "in" <=> pc[r] = "call" /\ Provider(r) \in Local
        /\ pc[r] \in {"new", "done"} => slot[r] = "out"

(* No more than Capacity local calls at a time over all requests.          *)
LocalCalls == {r \in Requests : pc[r] = "call" /\ Provider(r) \in Local}
LocalCallPool == INSTANCE SlotPool WITH holders <- LocalCalls
ImplementsPoolOfCalls == LocalCallPool!Spec

(* Every request is answered.  One slot per call and none held while the   *)
(* request goes on: no two requests wait for each other at the gate.       *)
EveryRequestAnswered ==
    \A r \in Requests : pc[r] # "new" ~> pc[r] = "done"

(* After a blank but valid primary result, a failing fallback does not     *)
(* turn into an error (comments in transcribe_for_mode and the pseudocode  *)
(* of docs/architecture.md).                                               *)
NoHardErrorAfterBlank ==
    \A r \in Requests :
        pc[r] = "done" /\ stage[r] = "fallback" /\ FirstWasBlank(r) => answer[r] = "ok"
=============================================================================
