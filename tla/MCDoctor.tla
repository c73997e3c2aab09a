------------------------------ MODULE MCDoctor ------------------------------
(***************************************************************************)
(* Doctor on small instances.                                               *)
(***************************************************************************)
EXTENDS Doctor

CONSTANTS p1, p2, v1, v2, pkcs11, slot1, slot2

Doc(b, label) ==
    [kind |-> "object", backend |-> b, extension_id |-> pkcs11,
     key_label |-> label, extra |-> [k \in ExtraKeys |-> None]]

Request(label, forced) ==
    [extension_id |-> pkcs11, key_label |-> label, pin_env |-> None,
     module_path |-> None, force |-> forced]

MCRequests == {Request(slot1, TRUE), Request(slot2, FALSE)}

All(b) == [p \in Plugins |-> b]

List(sha, flaw) == [kind |-> "list", sha256 |-> sha, flaw |-> flaw]

Config(i, m) == [kind |-> "object", identity |-> i, manifest |-> m]

Healthy == [home |-> TRUE, key |-> "valid", desc |-> Absent, dir |-> TRUE, so |-> All(v1),
            manifest |-> List(All(v1), "none"), config |-> DefaultConfig]

MCDescs == {Absent, Unreadable, NotJson, NotObject, Torn, Doc("missing", slot1),
            Doc("file", None), Doc("provider", slot1), Doc("provider", None)}

MCManifests == [kind : {"absent", "unreadable", "notJson", "noArray"}]
          \cup {List(All(v1), f) : f \in {"none", "malformed", "mistyped"}}
          \cup {List([p \in Plugins |-> IF p = p1 THEN v2 ELSE v1], "none"),
                List([p \in Plugins |-> IF p = p1 THEN v1 ELSE None], "none")}

MCConfigs == [kind : {"absent", "unreadable", "notJson", "invalid"}]
        \cup {Config(i, m) : i \in References, m \in References}

MCPlugins == {<<FALSE, All(None)>>, <<TRUE, All(None)>>, <<TRUE, All(v1)>>,
              <<TRUE, [p \in Plugins |-> IF p = p1 THEN None ELSE v1]>>}

\* Each file in each of its states, on its own and together with the files
\* that run and doctor relate it to.
MCDisks ==
         {[Healthy EXCEPT !.key = k, !.desc = d] : k \in KeyStates, d \in MCDescs}
    \cup {[Healthy EXCEPT !.key = k, !.config = c] : k \in {"absent", "valid"}, c \in MCConfigs}
    \cup {[Healthy EXCEPT !.manifest = m, !.config = Config("none", r)] :
             m \in MCManifests, r \in References}
    \cup {[Healthy EXCEPT !.dir = x[1], !.so = x[2], !.manifest = m] :
             x \in MCPlugins, m \in MCManifests}
    \cup {[Healthy EXCEPT !.home = FALSE, !.desc = d] : d \in MCDescs}

MCEdited == {[kind |-> "notJson"], Config("dangling", "none")}

\* Neither the manifest nor the config parses any more.
Corrupted == {[Healthy EXCEPT !.manifest = NotJsonManifest, !.config = [kind |-> "notJson"]]}
=============================================================================
