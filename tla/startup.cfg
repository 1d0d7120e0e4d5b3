CONSTANTS
    CommandLines <- MCCommandLines
    Environments <- MCEnvironments
    Files <- MCFiles
    NotDurations <- MCNotDurations
    Rooted <- MCRooted
    Slash <- MCSlash
    Clashes <- MCClashes
\* the process ends
CHECK_DEADLOCK FALSE
SPECIFICATION Spec
INVARIANTS
    SecureAsAsked
    IdentityAsAsked
    ReleasedInReverse
