SPECIFICATION Spec
CONSTANTS
    pkcs11 = pkcs11
    other = other
    slot1 = slot1
    pinA = pinA
    pinB = pinB
    None = None
    ExtensionIds = {pkcs11, other}
    KeyLabels = {slot1}
    ExtraValues = {pinA, pinB}
    PluginCount = 3
    Provides <- MCProvides
    Links <- MCLinks
    Contents <- MCContents
    InitialEnvs <- MCEnvs
INVARIANT SessionsAwaitIdentity
CHECK_DEADLOCK FALSE
