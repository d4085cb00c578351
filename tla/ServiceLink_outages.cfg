\* Two outages at any moment, and an exit; the end state of an exit stops the run.
SPECIFICATION FairSpec
CONSTANTS
    Conns = {c1, c2}
    NoConn = NoConn
    Sessions = {s1, s2, s3}
    NoSession = NoSession
    MaxOutages = 2
    CanExit = TRUE
CHECK_DEADLOCK FALSE
INVARIANTS
    OneConnection
    HealthyKept
    NoSilentDeath
    NoStaleMessage
    SessionCurrent
    QuietAfterExit
PROPERTIES
    Reconnects
