\* Two outages against a stop at any moment.
SPECIFICATION FairSpec
CONSTANTS
    Conns = {c1, c2}
    NoConn = NoConn
    Owner = owner
    RunThread = run
    Reconnectors = {r1, r2}
    MaxOutages = 2
    CanStop = TRUE
\* A process that has died, or is done, stops.
CHECK_DEADLOCK FALSE
INVARIANTS
    TypeOK
    
    NoPingAfterClose
    OneReconnect
    OneConnection
    NoSilentDeath
PROPERTIES
    Reconnects
    StopReturns
    ImplementsLife
