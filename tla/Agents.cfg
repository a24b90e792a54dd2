SPECIFICATION Spec
CONSTANTS
  Hosts = {"opencode", "opencode2", "pi", "cline", "dsh"}
  Sessions = {"a", "b"}
  Foreign = {"f"}
  MaxSessions = 1
  MaxPrompts = 2
  MaxObjects = 3
  MaxTasks = 2
  Slots = {x, y}
  Scopes = {A, B}
  MaxHooks = 4
  MaxChanges = 2
  InjectAttempts = 2
  EmptyAttempts = 3
  Cadence = 2
  Batch = 2
  Dirs = {d, e}
  NoDir = nodir
  Texts = {"t", "u"}
  MaxEvents = 3
  MaxLines = 2
  Hooks = {h1}
  Banks = {b1, b2}
  NoCursor = NoCursor
  MaxTurns = 3
  MaxMoves = 1
  MaxCursorOps = 2
  RetryAttempts = 1
  CursorWritesFail = FALSE
  Formats = {"claude", "droid", "pi", "opencode", "opencode2", "cursor", "antigravity", "copilot",
             "dsh", "grok", "dcode", "workbuddy", "codebuddy", "qwen", "qwenAgent", "zcode",
             "codex", "codexItems", "devin", "kimi"}
  MaxHappenings = 3
  Scenes = {{"claude"}, {"codex"}, {"antigravity"}, {"devin"}, {"cursor"}, {"copilot"}, {"grok"},
            {"kimi"}, {"cline"}, {"dcode"}, {"dsh"}, {"qwen"}, {"droid"}, {"zcode"}, {"traecode"},
            {"opencode"}, {"opencode2"}, {"kilo"}, {"pi"}, {"prime"}, {"workbuddy"}, {"codebuddy"},
            {"codex", "dsh"}, {"opencode", "opencode2"}}
  Starts = {{"data", "version", "status", "grant", "limit", "features", "rule", "lookalike"},
            {"data", "version", "events"}, {"data", "version", "rival"}}
  MaxCommands = 2
  MaxFaults = 1
SYMMETRY Interchangeable
INVARIANTS
  TypeOK
  WorkKeepsItsSession
  RetainedIsBacked
  InjectionIsFresh
  HandoffOnce
  TurnsSentOnce
  CursorTellsTruth
  RetainsTheSession
  FailureRestores
  InstalledOnce
PROPERTIES
  PrefixKept
\* A session, a journal and a series of commands come to an end.
CHECK_DEADLOCK FALSE
