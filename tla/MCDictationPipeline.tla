------------------------- MODULE MCDictationPipeline -------------------------
(* The providers of config.example.yml, local and cloud; three of its modes *)
(* and an LLM mode with a fallback; every override and request parameter.   *)
EXTENDS DictationPipeline, TLC
CONSTANTS a, b, whisperkit, openai_whisper, lm_studio, anthropic, gone

Mode(stt, fallback, llm, apply) ==
    [stt |-> stt, fallback |-> fallback, llm |-> llm, applyLlm |-> apply, prompt |-> apply]

exact_de    == Mode(openai_whisper, None, None, FALSE)
exact_swiss == Mode(whisperkit, openai_whisper, lm_studio, TRUE)
mail        == Mode(openai_whisper, None, anthropic, TRUE)
cloud_first == Mode(openai_whisper, whisperkit, anthropic, TRUE)

NoOverride ==
    [enabled |-> TRUE, stt |-> None, llm |-> None, applyLlm |-> None, prompt |-> FALSE]

(* Every way to ask, for one request at a time. *)
Stts == {None, whisperkit, openai_whisper}
Llms == {None, lm_studio, anthropic}

AskedFor(kinds, stts, llms) ==
    [kind: kinds, location: {"local", "online"},
     base: {exact_de, exact_swiss, mail},
     override: [enabled: {TRUE}, stt: Stts \cup {gone}, llm: Llms,
                applyLlm: {None, TRUE, FALSE}, prompt: {FALSE}],
     stt: stts, llm: llms]

AllInputs == AskedFor({"full"}, Stts, Llms) \cup AskedFor({"transcribe"}, Stts, {None})
                                           \cup AskedFor({"process"}, {None}, Llms)

(* Requests that compete for the gate. *)
CompetingInputs ==
    {[kind |-> "full", location |-> "online", base |-> m, override |-> NoOverride,
      stt |-> None, llm |-> None] : m \in {exact_swiss, cloud_first}}
=============================================================================
