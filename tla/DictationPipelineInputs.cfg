SPECIFICATION Spec
CONSTANTS
    a = a  b = b
    whisperkit = whisperkit  openai_whisper = openai_whisper
    lm_studio = lm_studio  anthropic = anthropic  gone = gone
    SttProviders = {whisperkit, openai_whisper}
    LlmProviders = {lm_studio, anthropic}
    Local = {whisperkit, lm_studio}
    LocalStt = whisperkit
    LocalLlm = lm_studio
    None = None
    Concurrency = 1
    Callers = {a}
    Inputs <- AllInputs
INVARIANTS LocalStaysLocal ChosenSttIsUsed FallbackIsLastResort
