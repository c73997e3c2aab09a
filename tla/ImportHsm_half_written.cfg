SPECIFICATION Spec
CONSTANTS
    gnet = gnet
    slot1 = slot1
    slot2 = slot2
    pinA = pinA
    pinB = pinB
    i1 = i1
    i2 = i2
    i3 = i3
    r1 = r1
    None = None
    NoInode = NoInode
    Original = Original
    ExtensionIds = {gnet}
    KeyLabels = {slot1, slot2}
    ExtraValues = {pinA, pinB}
    Invocations = {i1, i2}
    Readers = {r1}
    Requests <- TwoKeys
    InitialContents <- MCContents
    Serial = FALSE
    FlushMayFail = FALSE
INVARIANT ReadersSeeWhole
CHECK_DEADLOCK FALSE
