CONSTANTS
    Lines <- MCLines
    Files <- MCFiles
    Bodies <- MCBodies
    Starts <- MCStarts
    Pinned = "old"
    Bumped = "new"
    MaxAttempts = 2
SPECIFICATION ContentSpec
CHECK_DEADLOCK FALSE
INVARIANTS VerifiedIsSound AppliedAsWritten OnlyOwnRunsAreSent CommentsStayHere CompletedFailsClosed PublishedDiffsAreVerified
