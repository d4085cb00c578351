\* One function key, both ini files present.
SPECIFICATION Spec
CONSTANTS
    k1 = k1
    ctrl = ctrl
    left = left
    right = right
    Keys = {k1}
    Modifiers = {ctrl}
    Others = {}
    Slots <- TwoSlots
    None = None
    Buttons = {left, right}
    KeyboardKeys = {k1}
    FunctionKeys = {ctrl}
    FullValue <- FunctionValues
    IniFiles <- BothFiles
    m_nameKeyTable <- ThreeButtons
    m_gameKeyBoardPath <- GameFile
    m_defaultKeyBoardPath <- DefaultFile
    MaxQueue = 1
CHECK_DEADLOCK FALSE
INVARIANT FunctionKeysPress
