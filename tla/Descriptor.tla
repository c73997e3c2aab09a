----------------------------- MODULE Descriptor -----------------------------
(***************************************************************************)
(* identity-config.json as data: what a file at the descriptor path may     *)
(* hold, what `identity import-hsm` composes and lets through its clobber   *)
(* gate, and what `goodnetd run` and `goodnetd doctor` read out of it.      *)
(*                                                                         *)
(* A content is abstracted to what these three programs tell apart.  None   *)
(* stands for a key that is missing or not a string and, for extension_id   *)
(* and key_label, for an empty string: every reader treats the three alike. *)
(***************************************************************************)
EXTENDS Naturals

CONSTANTS ExtensionIds,   \* values of "extension_id"
          KeyLabels,      \* values of "key_label"
          ExtraValues,    \* string values of the entries of "extra"
          None

ASSUME NoneIsNoValue == None \notin ExtensionIds \cup KeyLabels \cup ExtraValues

-----------------------------------------------------------------------------
(* Contents of the file.                                                    *)

\* "missing": no "backend" key; "notString": a backend that is not a string;
\* "unknown": a string that is neither "file" nor "provider".
Backends == {"missing", "notString", "file", "provider", "unknown"}

\* The two keys of "extra" that import-hsm writes.
ExtraKeys == {"pin_env", "module_path"}

Extra == [ExtraKeys -> ExtraValues \cup {None}]

Object == [kind         : {"object"},
           backend      : Backends,
           extension_id : ExtensionIds \cup {None},
           key_label    : KeyLabels \cup {None},
           extra        : Extra]

Absent     == [kind |-> "absent"]       \* no such file
Unreadable == [kind |-> "unreadable"]   \* exists, open for reading fails
NotJson    == [kind |-> "notJson"]      \* somebody's file that does not parse
NotObject  == [kind |-> "notObject"]    \* JSON whose top level is no object
Torn       == [kind |-> "torn"]         \* a truncated or half-written file

Content == Object \cup {Absent, Unreadable, NotJson, NotObject, Torn}

-----------------------------------------------------------------------------
(* identity import-hsm: arguments, clobber gate, composed document.         *)

Args == [extension_id : ExtensionIds \cup {None},
         key_label    : KeyLabels \cup {None},
         pin_env      : ExtraValues \cup {None},
         module_path  : ExtraValues \cup {None},
         force        : BOOLEAN]

\* Mutant of Valid: only the extension is asked for.
ValidWithoutLabel(a) == a.extension_id # None

\* validate(): both identifying flags must be there.
Valid(a) == a.extension_id # None /\ a.key_label # None

\* The document cmd_identity_import_hsm writes for arguments a.
Composed(a) == [kind         |-> "object",
                backend      |-> "provider",
                extension_id |-> a.extension_id,
                key_label    |-> a.key_label,
                extra        |-> [k \in ExtraKeys |-> a[k]]]

\* "The operator re-running the command": backend, extension and label are
\* compared, extra is not.
SameDeclaration(a, c) ==
    /\ c.backend = "provider"
    /\ c.extension_id = a.extension_id
    /\ c.key_label = a.key_label

\* The clobber gate lets the write go on.  A file that cannot be opened, JSON
\* that is no object and an object without "backend" fall through it.
GateAdmits(a, c) ==
    \/ a.force
    \/ c.kind \in {"absent", "unreadable", "notObject"}
    \/ c.kind = "object" /\ (c.backend = "missing" \/ SameDeclaration(a, c))

-----------------------------------------------------------------------------
(* goodnetd run: load_identity_descriptor.                                  *)

Incomplete(c) == c.extension_id = None \/ c.key_label = None

\* Mutant of LoadAborts: the parts of a provider declaration are not checked.
LoadAbortsOnSyntaxOnly(c) ==
    c.kind \in {"unreadable", "notJson", "torn", "notObject"}

\* nullopt: cannot open, not JSON, not an object, or a provider declaration
\* with a part missing.
LoadAborts(c) ==
    \/ c.kind \in {"unreadable", "notJson", "torn", "notObject"}
    \/ c.kind = "object" /\ c.backend = "provider" /\ Incomplete(c)

\* provider_backend: everything else that loads is file-backed.
LoadsProvider(c) == c.kind = "object" /\ c.backend = "provider"

\* "GOODNET_" followed by the key in upper case.
EnvName(k) == IF k = "pin_env" THEN "GOODNET_PIN_ENV" ELSE "GOODNET_MODULE_PATH"

EnvVars == {"GOODNET_PIN_ENV", "GOODNET_MODULE_PATH", "GOODNET_PKCS11_PIN_ENV"}

\* Mutant of Exported: setenv without overwrite.
ExportedUnlessSet(c, env) ==
    [n \in DOMAIN env |->
        IF env[n] = None /\ \E k \in ExtraKeys : EnvName(k) = n
        THEN c.extra[CHOOSE k \in ExtraKeys : EnvName(k) = n]
        ELSE env[n]]

\* The environment after every string entry of extra went through
\* setenv(name, value, 1).
Exported(c, env) ==
    [n \in DOMAIN env |->
        IF \E k \in ExtraKeys : EnvName(k) = n /\ c.extra[k] # None
        THEN c.extra[CHOOSE k \in ExtraKeys : EnvName(k) = n]
        ELSE env[n]]
=============================================================================
