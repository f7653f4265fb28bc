CONSTANTS
    NumRuns = 2
    NumAttempts = 3
    Branches = {"main", "dev"}
    MaxCompletions = 3
    Handlers = {"h1", "h2"}
    Pulls <- MCPulls
    NoPull <- MCNoPull
SPECIFICATION FollowupSpec
CHECK_DEADLOCK FALSE
INVARIANTS DecidedByLaterRun LinkedToNextRun
PROPERTIES VerdictIsFinal
