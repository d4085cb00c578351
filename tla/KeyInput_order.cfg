\* Keyboard and gamepad share a key, the gamepad and the mouse both buttons, which one
\* gamepad button presses together; a button is taken while the queue is empty.
SPECIFICATION FairSpec
CONSTANTS
    k1 = k1
    ctrl = ctrl
    left = left
    right = right
    Keys = {k1}
    Modifiers = {ctrl}
    Others = {}
    Slots <- TwoSlots
    None = None
    Buttons = {left, right}
    KeyboardKeys = {k1}
    FunctionKeys = {ctrl}
    FullValue <- FunctionValues
    IniFiles <- BothFiles
    m_nameKeyTable <- ThreeButtons
    m_gameKeyBoardPath <- GameFile
    m_defaultKeyBoardPath <- DefaultFile
    MaxQueue = 1
\* The process may have died of a damaged queue, or the session has ended.
CHECK_DEADLOCK FALSE
INVARIANT KeysFollowPlayer
PROPERTY ReleaseTakesEffect
