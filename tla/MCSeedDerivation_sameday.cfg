SPECIFICATION DerivationSpec
CONSTANTS
    Tickets <- MCTickets
    Times <- MCTimes
    Commitments <- MCCommitments
    SecondsPerMinute = 2
    MinutesPerHour = 1
    MinutesPerDay = 4
    OpeningMinute = 1
    ClosingMinute = 3
    ReplyMinutes = 3
    MaxPosts = 2
INVARIANTS
    NotesListedInTime
CHECK_DEADLOCK FALSE
