\* One message at a time, no protector.
SPECIFICATION FairSpec
CONSTANTS
    g1 = g1
    g2 = g2
    r1 = r1
    r2 = r2
    Games = {g1, g2}
    Rooms = {r1, r2}
    StartParams <- AllParams
    NoGame = NoGame
    NoParams = NoParams
    Workers = {w1}
    Protectors = {}
    m_mode = "DEFAULT_MODE"
    RecordFile = TRUE
    CanCrash = FALSE
    CanExit = TRUE
    CanFail = TRUE
INVARIANTS
    TypeOK
    OneGame
    LaunchesOnlyDeadGame
PROPERTIES
    HandlersReturn
