CONSTANTS
    Actor = {r1, r2}
    Request = {r1, r2}
    Poll = {r1, r2}
    Stream = {r1, r2}
    Devin = {TRUE, FALSE}
    TokenLimit = 2
    MaxObject = 2
    MaxEdit = 1
    MaxRestart = 1
    MaxRebuilt = 2
    MaxClock = 2
    MAX_COOLDOWN = 1
    WarmProvider = {"codex", "claude"}
    Quiet = {3}
    Window = 1
    Jitter = 1
    MaxFlight = 3
    MaxStay = 2
    MaxHour = 4
    Polled = {"codex", "claude", "antigravity", "json"}
    MaxNews = 2
    MaxRedeem = 2
    MaxNow = 2
    Surface = {"chat", "messages", "completions", "responses", "codex_responses", "compact", "generate", "count", "images", "search"}
    Provider = {"codex", "opencode", "claude", "zcode", "antigravity", "devin", "vertex", "cursor", "kiro", "meta", "xai", "kimi", "google", "anthropic", "mimo-free", "openai-responses", "openai-chat"}
    Protocol = {"Codex", "Anthropic", "Antigravity", "Kiro", "Cursor", "Devin"}
    Shape = {"chat", "anthropic", "responses", "gemini"}
    Call = {1, 2}
    MaxMessage = 4
    MaxLine = 3
    MaxFrame = 2
    PreambleCap = 5
    ClientFormat = {"chat", "anthropic", "gemini", "responses"}
    ToolName = {"f", "g"}
    MaxTurn = 5
SPECIFICATION Spec
CHECK_DEADLOCK FALSE
SYMMETRY Symmetry
INVARIANTS
    OutcomesSettleOnce
    
    ProbedAndPolledOnce
    RequestsFitTheirEndpoint
    StreamedIsCollected
PROPERTIES
    OutcomesStayWithTheirLogin
    
    ProbedWhenDue
