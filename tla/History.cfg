CONSTANTS
    NumRuns = 3
    Times <- MCTimes
    Statuses <- MCStatuses
    PageSize = 1
    MaxLimit = 2
    MaxRequests = 3
    MaxUpsets = 1
SPECIFICATION HistorySpec
CHECK_DEADLOCK FALSE
INVARIANTS NoGap NewestFirst
