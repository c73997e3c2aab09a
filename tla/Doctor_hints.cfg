SPECIFICATION FairSpec
CONSTANTS
    p1 = p1
    p2 = p2
    v1 = v1
    v2 = v2
    pkcs11 = pkcs11
    slot1 = slot1
    slot2 = slot2
    None = None
    ExtensionIds = {pkcs11}
    KeyLabels = {slot1, slot2}
    ExtraValues = {}
    Plugins = {p1, p2}
    Builds = {v1, v2}
    Requests <- MCRequests
    InitialDisks <- Corrupted
    EditedConfigs <- MCEdited
    MaxChanges = 0
    ConfigHint = "quickstart"
PROPERTY HintsCure
CHECK_DEADLOCK FALSE
