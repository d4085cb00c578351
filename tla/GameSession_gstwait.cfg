\* The first loop of a protector.
SPECIFICATION Spec
CONSTANTS
    g1 = g1
    g2 = g2
    r1 = r1
    r2 = r2
    Games = {g1, g2}
    Rooms = {r1, r2}
    StartParams <- ForcedParams
    NoGame = NoGame
    NoParams = NoParams
    Workers = {w1}
    Protectors = {q1}
    m_mode = "DEFAULT_MODE"
    RecordFile = TRUE
    CanCrash = FALSE
    CanExit = FALSE
    CanFail = TRUE
PROPERTIES
    ProtectorWaitsForGst
