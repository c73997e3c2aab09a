SPECIFICATION Spec
CONSTANTS
    pkcs11 = pkcs11
    slot1 = slot1
    slot2 = slot2
    pinA = pinA
    r1 = r1
    r2 = r2
    r3 = r3
    None = None
    ExtensionIds = {pkcs11}
    KeyLabels = {slot1, slot2}
    ExtraValues = {pinA}
    SignerExtension = pkcs11
    Runs = {r1, r2}
    MaxLive = 1
    FlushMayFail = FALSE
    InitialKeys <- NoKeys
    InitialConfigs = {"absent"}
    InitialDescs <- NoDesc
INVARIANT CompletedConfigWhole
CHECK_DEADLOCK FALSE
