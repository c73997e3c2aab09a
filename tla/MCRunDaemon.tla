----------------------------- MODULE MCRunDaemon -----------------------------
(***************************************************************************)
(* RunDaemon on small instances: a signer plugin and two link plugins.      *)
(***************************************************************************)
EXTENDS RunDaemon

CONSTANTS pkcs11, other, slot1, pinA, pinB

Doc(b, ext, label, pin) ==
    [kind |-> "object", backend |-> b, extension_id |-> ext, key_label |-> label,
     extra |-> [k \in ExtraKeys |-> IF k = "pin_env" THEN pin ELSE None]]

\* A complete declaration, one of an extension no plugin registers, an
\* incomplete one, and every kind of file that is no provider declaration.
MCContents == {Absent, Unreadable, NotJson, Torn, NotObject,
               Doc("file", None, None, None), Doc("unknown", pkcs11, slot1, None),
               Doc("missing", None, None, None), Doc("notString", None, None, None),
               Doc("provider", pkcs11, slot1, pinA),
               Doc("provider", other, slot1, None),
               Doc("provider", pkcs11, None, pinA)}

\* A clean environment, and one where an earlier run's value is exported.
MCEnvs == {[v \in EnvVars |-> None], [v \in EnvVars |-> pinB]}

\* The signer is loaded after a first link, as the manifest may order them.
MCProvides == [p \in Plugins |-> IF p = 2 THEN {pkcs11} ELSE {}]

MCLinks == Plugins \ {2}
=============================================================================
