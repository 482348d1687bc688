CONSTANTS
    Cwds = {"w"}
    Slugs = {"a", "b"}
    Basename <- TheBasename
    Baseline <- BaselineRules
    Custom <- OperatorRules
    Callers = {1, 2}
    MaxCalls = 2
    MaxIds = 4
    MaxMoves = 1
    Latest = 10
    Former = 9
    Replayable = {2, 5, 8}
    NeedsVector <- VectorMigrations
    KillSwitches = 7
    AtFirst <- Packaged
    Procs = {1, 2, 3}
    Units = {"bridge", "sync"}
    Ported = {"bridge"}
    Pids = {1, 2, 3}
    Txns = {1, 2}
    MaxCommands = 3
    MaxDeaths = 1
    Sessions = {1, 2}
    Limit = 1
    Fan = 2
    Confidences = {"high", "null"}
    PackLimit = 2
    MaxAge = 1
    MaxDecisions = 3
    MaxDays = 2
    MaxTrouble = 1
    Posts = {1, 2, 3, 4}
    Threshold = 2
    Markers = {1, 2}
    Bodies = {"x", "y"}
    LockLines = 7
    LockEdits = 3
    Primary = "a"
    PackTexts = {"t"}
    Gets = {1}
    TTL = 1
    MaxGetTicks = 1
    MaxWrites = 1
    Events = {"PreToolUse", "Stop", "Notification"}
    HookEvents = {"PreToolUse", "Stop"}
    Users = {"u"}
    Servers = {"s"}
    EnvKeys = {"SECRET", "PORT"}
    MaxEntries = 3
    MaxEdits = 1
    SetupCommands = 3
SPECIFICATION Spec
INVARIANTS OwnTextSurvives SetupIsClean EditsAreSeen ServicesAreSound RegistryIsSound DoctorIsSound MigrationsAreSound SessionsAreInformed
CHECK_DEADLOCK FALSE
