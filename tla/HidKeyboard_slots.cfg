\* Three ordinary keys compete for two slots; two modifiers; one unknown key; any
\* number of sessions.
SPECIFICATION DeviceSpec
CONSTANTS
    k1 = k1
    k2 = k2
    k3 = k3
    ctrl = ctrl
    shift = shift
    Keys <- OrdinaryKeys
    Modifiers <- TwoModifiers
    Others = {unknown}
    Slots <- SlotIndices
    None = None
    PingPeriod = 1
    ResetTimes <- BothResetTimes
SYMMETRY KeySymmetry
INVARIANTS
    DeviceTypeOK
    NoDuplicate
    NothingStuck
    NoKeyLost
    NoStrayKey
    HeldKeyIsDown
    PingKeepsKeys
