\* One message at a time and a protector; one game, started with force.
SPECIFICATION FairSpec
CONSTANTS
    g1 = g1
    g2 = g2
    r1 = r1
    r2 = r2
    Games = {g1}
    Rooms = {r1}
    StartParams <- ForcedParams
    NoGame = NoGame
    NoParams = NoParams
    Workers = {w1}
    Protectors = {q1}
    m_mode = "DEFAULT_MODE"
    RecordFile = TRUE
    CanCrash = FALSE
    CanExit = TRUE
    CanFail = TRUE
INVARIANTS
    StoppedIsQuiet
    OnlyProtectorAborts
PROPERTIES
    ProtectorsRetire
