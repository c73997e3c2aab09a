------------------------------- MODULE Doctor -------------------------------
(***************************************************************************)
(* `goodnetd doctor` over one data directory: its checks read one file after *)
(* the other while the operator's tools change them, the report decides the  *)
(* exit code, the operator carries out the hints and runs doctor again.      *)
(* What `goodnetd run` would make of the same files is the yardstick.        *)
(*                                                                         *)
(* A change of one file is one step: how import-hsm, quickstart and manifest *)
(* gen write theirs is the subject of ImportHsm, Quickstart, ManifestGen.    *)
(***************************************************************************)
EXTENDS Integers, Descriptor

CONSTANTS Plugins,       \* the plugin files the manifest may list
          Builds,        \* what a plugin file may hold, known by its SHA-256
          Requests,      \* arguments import-hsm is called with
          InitialDisks,  \* what the operator may start from
          EditedConfigs, \* what the operator may put into config.json
          MaxChanges,    \* bound: file changes that no hint asked for
          ConfigHint     \* which half of "Edit ... or regenerate via goodnetd
                         \* quickstart" the operator takes

-----------------------------------------------------------------------------
(* The files.                                                               *)

\* identity/default.bin; "implausible" in size, "garbage" in content only.
KeyStates == {"absent", "directory", "implausible", "unreadable", "garbage", "valid"}

\* The build of a plugin file; None: no file, or none that can be hashed.
Installed == [Plugins -> Builds \cup {None}]

\* manifests/baseline.json.  A list maps plugins to recorded digests; "flaw"
\* is an entry without path or sha256, or one where they are no strings.
Manifests == [kind : {"absent", "unreadable", "notJson", "noArray"}]
        \cup [kind : {"list"}, sha256 : Installed,
              flaw : {"none", "malformed", "mistyped"}]

\* config.json.  "invalid" is JSON the kernel's schema refuses.  A reference
\* names the default path, a path where nothing is, or is not there.
References == {"none", "default", "dangling"}

Configs == [kind : {"absent", "unreadable", "notJson", "invalid"}]
      \cup [kind : {"object"}, identity : References, manifest : References]

\* home: XDG_DATA_HOME or HOME is set; dir: the plugin directory exists.
Disks == [home : BOOLEAN, key : KeyStates, desc : Content, dir : BOOLEAN,
          so : Installed, manifest : Manifests, config : Configs]

ASSUME DoctorAssumption ==
    /\ None \notin Builds
    /\ Requests \subseteq Args
    /\ InitialDisks \subseteq Disks
    /\ EditedConfigs \subseteq Configs
    /\ MaxChanges \in Nat
    /\ ConfigHint \in {"edit", "quickstart"}

NotJsonManifest == [kind |-> "notJson"]

\* manifest gen <plugin-dir>/*.so > baseline.json: without any .so the shell
\* has emptied the file before manifest gen fails.
Generated(d) == IF \A p \in Plugins : d.so[p] = None
                THEN NotJsonManifest
                ELSE [kind |-> "list", sha256 |-> d.so, flaw |-> "none"]

\* quickstart with its default answers: a key and a config, each left alone
\* when there is one.
DefaultConfig == [kind |-> "object", identity |-> "default", manifest |-> "none"]

PlainConfig == [kind |-> "object", identity |-> "none", manifest |-> "none"]

Quickstarted(d) ==
    [d EXCEPT !.key = IF @ = "absent" THEN "valid" ELSE @,
              !.config = IF @.kind = "absent" THEN DefaultConfig ELSE @]

-----------------------------------------------------------------------------
(* goodnetd run on these files, with the arguments quickstart prints.       *)

\* PluginManifest::parse and the integrity gate accept.
Loadable(d) ==
    /\ d.manifest.kind = "list"
    /\ d.manifest.flaw = "none"
    /\ \A p \in Plugins :
          d.manifest.sha256[p] # None => d.so[p] = d.manifest.sha256[p]

\* Without home there is no descriptor.
DescriptorOf(d) == IF d.home THEN d.desc ELSE Absent

\* cmd_run returns an error before it reaches the main loop (whether a signer
\* plugin registers the declared extension is not asked here).
Refuses(d) ==
    \/ LoadAborts(DescriptorOf(d))
    \/ ~LoadsProvider(DescriptorOf(d)) /\ d.key # "valid"
    \/ d.config.kind # "object"
    \/ ~Loadable(d)

-----------------------------------------------------------------------------
(* The finding of each check: a tag, and what its hint tells the operator.  *)

\* "manifest gen >" has a redirect to the manifest, "manifest gen" has none and
\* prints; "ls" only shows permissions; "advice" is about no modelled file.
Hints == {"none", "set home", "identity gen", "chmod", "ls", "import-hsm --force",
          "bootstrap-env", "install-plugins", "manifest gen >", "manifest gen",
          "quickstart", "edit or quickstart", "edit identity.path",
          "edit manifest.path", "advice"}

Findings == [tag : {"none", "ok", "warn", "error"}, hint : Hints]

NoFinding   == [tag |-> "none", hint |-> "none"]
Ok          == [tag |-> "ok", hint |-> "none"]
Warning(h)  == [tag |-> "warn", hint |-> h]
Error(h)    == [tag |-> "error", hint |-> h]

IdentityFinding(d) ==
    IF d.key \in {"absent", "implausible"} THEN Error("identity gen")
    ELSE IF d.key = "directory" THEN Error("ls")
    ELSE IF d.key = "unreadable" THEN Error("chmod") ELSE Ok

\* Mutant of DescriptorFinding: extension_id and key_label are not looked at.
DescriptorFindingTrusting(c) ==
    IF c.kind \in {"unreadable", "notJson", "torn", "notObject"}
    THEN Error("import-hsm --force")
    ELSE IF LoadsProvider(c) THEN Warning("advice") ELSE NoFinding

\* The worst finding about the descriptor.  Without the test hook a provider
\* is never probed: [warn], whatever the PIN variable adds.
DescriptorFinding(c) ==
    IF \/ c.kind \in {"unreadable", "notJson", "torn", "notObject"}
       \/ LoadsProvider(c) /\ Incomplete(c)
    THEN Error("import-hsm --force")
    ELSE IF LoadsProvider(c) THEN Warning("advice") ELSE NoFinding

PluginDirFinding(d) ==
    IF ~d.dir THEN Error("bootstrap-env")
    ELSE IF \A p \in Plugins : d.so[p] = None THEN Warning("bootstrap-env") ELSE Ok

Resolves(ref, there) == ref = "none" \/ (ref = "default" /\ there)

\* Mutant of ConfigFinding: a file that does not parse is passed over.
ConfigFindingLenient(d) ==
    IF d.config.kind = "absent" THEN Warning("quickstart")
    ELSE IF d.config.kind = "unreadable" THEN Error("ls") ELSE Ok

\* Only identity.path and manifest.path are looked at, not the schema.
ConfigFinding(d) ==
    IF d.config.kind = "absent" THEN Warning("quickstart")
    ELSE IF d.config.kind = "unreadable" THEN Error("ls")
    ELSE IF d.config.kind = "notJson" THEN Error("edit or quickstart")
    ELSE IF d.config.kind = "invalid" THEN Ok
    ELSE IF ~Resolves(d.config.identity, d.key # "absent") THEN Error("edit identity.path")
    ELSE IF ~Resolves(d.config.manifest, d.manifest.kind # "absent")
         THEN Error("edit manifest.path") ELSE Ok

-----------------------------------------------------------------------------
VARIABLES pc,          \* the next check
          rc,          \* exit code, -1 before there is one
          found,       \* found[c]: the worst finding of check c
          saw,         \* the descriptor load_descriptor read
          read,        \* the manifest check_manifest read
          pending,     \* listed plugins it has not hashed yet
          tally,       \* missing and mismatched plugins counted so far
          disk,
          todo,        \* findings whose hint the operator has not followed yet
          quiet,       \* no file has changed since doctor started
          wasRefused,  \* since then, run would have refused the plugins once
          changes      \* number of changes nobody hinted at

doctor == <<pc, rc, found, saw, read, pending, tally, todo>>
vars == <<pc, rc, found, saw, read, pending, tally, disk, todo, quiet,
          wasRefused, changes>>
world == <<disk, todo, quiet, wasRefused, changes>>

Checks == {"home", "identity", "descriptor", "plugins", "manifest", "config",
           "environment"}

Places == {"idle", "identity", "descriptor", "plugins", "manifest", "hash",
           "config", "environment", "report", "exited", "usage", "aborted"}

Init ==
    /\ pc = "idle" /\ rc = -1
    /\ found = [c \in Checks |-> NoFinding]
    /\ saw = Absent
    /\ read = NotJsonManifest
    /\ pending = {} /\ tally = {} /\ todo = {}
    /\ disk \in InitialDisks
    /\ quiet = FALSE /\ wasRefused = FALSE
    /\ changes = 0

-----------------------------------------------------------------------------
(* doctor.                                                                  *)

Found(check, finding) == found' = [found EXCEPT ![check] = finding]

\* --help, or an unknown argument.
Usage ==
    /\ pc = "idle"
    /\ pc' = "usage" /\ rc' \in {0, 2}
    /\ UNCHANGED <<found, saw, read, pending, tally, world>>

\* The operator runs doctor, again once every hint has been followed.
MayStart == pc = "idle" \/ (pc = "exited" /\ rc = 1 /\ todo = {})

\* Without a data directory one error takes the place of the file checks.
HomeFinding == IF disk.home THEN NoFinding ELSE Error("set home")

Start ==
    /\ MayStart
    /\ pc' = IF disk.home THEN "identity" ELSE "environment"
    /\ found' = [c \in Checks |-> IF c = "home" THEN HomeFinding ELSE NoFinding]
    /\ rc' = -1 /\ saw' = Absent /\ read' = NotJsonManifest /\ pending' = {} /\ tally' = {}
    /\ quiet' = TRUE
    /\ wasRefused' = ~Loadable(disk)
    /\ UNCHANGED <<disk, todo, changes>>

CheckIdentity ==
    /\ pc = "identity" /\ pc' = "descriptor"
    /\ Found("identity", IdentityFinding(disk))
    /\ UNCHANGED <<rc, saw, read, pending, tally, world>>

CheckDescriptor ==
    /\ pc = "descriptor" /\ pc' = "plugins"
    /\ saw' = disk.desc
    /\ Found("descriptor", DescriptorFinding(disk.desc))
    /\ UNCHANGED <<rc, read, pending, tally, world>>

CheckPluginDir ==
    /\ pc = "plugins" /\ pc' = "manifest"
    /\ Found("plugins", PluginDirFinding(disk))
    /\ UNCHANGED <<rc, saw, read, pending, tally, world>>

\* check_manifest up to its loop.
ReadManifest ==
    /\ pc = "manifest"
    /\ read' = disk.manifest
    /\ IF read'.kind = "list"
       THEN /\ pc' = "hash"
            /\ pending' = {p \in Plugins : read'.sha256[p] # None}
            /\ UNCHANGED found
       ELSE /\ pc' = "config"
            /\ Found("manifest", IF read'.kind = "absent" THEN Warning("manifest gen >")
                                 ELSE IF read'.kind = "unreadable" THEN Error("ls")
                                 ELSE Error("manifest gen"))
            /\ UNCHANGED pending
    /\ UNCHANGED <<rc, saw, tally, world>>

\* Mutant of Counted: the digest of another entry.
CountedByOther(p) ==
    IF disk.so[p] = None THEN {"missing"}
    ELSE IF \A q \in Plugins : disk.so[p] = read.sha256[q] THEN {} ELSE {"mismatched"}

\* The file is hashed now, the digest it should have was read before.
Counted(p) ==
    IF disk.so[p] = None THEN {"missing"}
    ELSE IF disk.so[p] = read.sha256[p] THEN {} ELSE {"mismatched"}

\* One entry of the loop.
HashPlugin(p) ==
    /\ pc = "hash" /\ p \in pending
    /\ pending' = pending \ {p}
    /\ tally' = tally \cup Counted(p)
    /\ UNCHANGED <<pc, rc, found, saw, read, world>>

\* The loop comes to a flawed entry: an early return, or, where path or sha256
\* is no string, an exception that nobody catches.
MeetFlaw ==
    /\ pc = "hash"
    /\ \/ /\ read.flaw = "malformed" /\ pc' = "config"
          /\ Found("manifest", Error("manifest gen"))
       \/ read.flaw = "mistyped" /\ pc' = "aborted" /\ UNCHANGED found
    /\ UNCHANGED <<rc, saw, read, pending, tally, world>>

CloseManifest ==
    /\ pc = "hash" /\ pending = {} /\ read.flaw = "none"
    /\ pc' = "config"
    /\ Found("manifest", IF "mismatched" \in tally THEN Error("manifest gen")
                         ELSE IF "missing" \in tally THEN Warning("install-plugins")
                         ELSE Ok)
    /\ UNCHANGED <<rc, saw, read, pending, tally, world>>

CheckConfig ==
    /\ pc = "config" /\ pc' = "environment"
    /\ Found("config", ConfigFinding(disk))
    /\ UNCHANGED <<rc, saw, read, pending, tally, world>>

\* Loader path, forgejo runner, control socket: never an error.
CheckEnvironment ==
    /\ pc = "environment" /\ pc' = "report"
    /\ \E f \in {Ok, Warning("advice")} : Found("environment", f)
    /\ UNCHANGED <<rc, saw, read, pending, tally, world>>

Errors == {c \in Checks : found[c].tag = "error"}

\* Mutant of Verdict: the number of errors.
VerdictCount == IF Errors = {} THEN 0 ELSE IF \E c \in Errors : Errors = {c} THEN 1 ELSE 2

\* Mutant of Verdict: a warning fails the doctor.
VerdictStrict == IF \A c \in Checks : found[c].tag \in {"none", "ok"} THEN 0 ELSE 1

\* "Exit 0 if no [error] findings, 1 otherwise."
Verdict == IF Errors = {} THEN 0 ELSE 1

Report ==
    /\ pc = "report" /\ pc' = "exited"
    /\ rc' = Verdict
    /\ todo' = {c \in Checks : found[c].tag \in {"warn", "error"}}
    /\ UNCHANGED <<found, saw, read, pending, tally, disk, quiet, wasRefused, changes>>

Step == \/ CheckIdentity \/ CheckDescriptor \/ CheckPluginDir \/ ReadManifest
        \/ (\E p \in Plugins : HashPlugin(p)) \/ MeetFlaw \/ CloseManifest
        \/ CheckConfig \/ CheckEnvironment \/ Report

-----------------------------------------------------------------------------
(* The operator.                                                            *)

Becomes(d) ==
    /\ disk' = d
    /\ quiet' = FALSE
    /\ wasRefused' = (wasRefused \/ ~Loadable(d))

\* config.json with one reference edited to a path that exists, or taken out.
Unpinned(c, reference) == IF c.kind = "object" THEN [c EXCEPT ![reference] = "none"] ELSE c

\* The disk after the operator pasted hint h, literally, onto the shell.  "Check
\* perms" shows, "manifest gen" without a redirect prints: neither repairs.
Followed(h, d) ==
    CASE h = "set home" -> {[d EXCEPT !.home = TRUE]}
      [] h = "identity gen" -> {[d EXCEPT !.key = IF @ = "directory" THEN @ ELSE "valid"]}
      [] h = "chmod" ->
            {[d EXCEPT !.key = k] :
                k \in IF d.key = "unreadable" THEN {"garbage", "valid"} ELSE {d.key}}
      [] h = "import-hsm --force" ->
            {[d EXCEPT !.desc = Composed(a)] : a \in {r \in Requests : Valid(r) /\ r.force}}
      [] h = "bootstrap-env" ->
            {[d EXCEPT !.dir = TRUE, !.so = [p \in Plugins |-> b]] : b \in Builds}
      [] h = "install-plugins" ->
            {[d EXCEPT !.so = [p \in Plugins |-> IF @[p] = None THEN b ELSE @[p]]] : b \in Builds}
      [] h = "manifest gen >" -> {[d EXCEPT !.manifest = Generated(d)]}
      [] h = "quickstart" -> {Quickstarted(d)}
      [] h = "edit or quickstart" ->
            {IF ConfigHint = "edit" THEN [d EXCEPT !.config = PlainConfig] ELSE Quickstarted(d)}
      [] h = "edit identity.path" -> {[d EXCEPT !.config = Unpinned(@, "identity")]}
      [] h = "edit manifest.path" -> {[d EXCEPT !.config = Unpinned(@, "manifest")]}
      [] OTHER -> {d}

FollowHint(c) ==
    /\ pc = "exited" /\ c \in todo
    /\ todo' = todo \ {c}
    /\ \E d \in Followed(found[c].hint, disk) : Becomes(d)
    /\ UNCHANGED <<pc, rc, found, saw, read, pending, tally, changes>>

\* identity import-hsm; it needs a home, or writes to the working directory,
\* where no other command looks.
Import(a) ==
    /\ Valid(a)
    /\ disk.home /\ GateAdmits(a, disk.desc)
    /\ Becomes([disk EXCEPT !.desc = Composed(a)])

\* identity gen, the operator shredding the key, manifest gen, an editor, the
\* wizard, the plugin installer.
Upkeep ==
    /\ \/ \E k \in {"valid", "absent"} : Becomes([disk EXCEPT !.key = k])
       \/ Becomes([disk EXCEPT !.manifest = Generated(disk)])
       \/ \E c \in EditedConfigs : Becomes([disk EXCEPT !.config = c])
       \/ Becomes(Quickstarted(disk))
       \/ \E p \in Plugins, b \in Builds :
             Becomes([disk EXCEPT !.dir = TRUE, !.so = [@ EXCEPT ![p] = b]])
    /\ disk' # disk

Change ==
    /\ changes < MaxChanges /\ changes' = changes + 1
    /\ Upkeep \/ \E a \in Requests : Import(a)
    /\ UNCHANGED doctor

Next == Usage \/ Start \/ Step \/ (\E c \in Checks : FollowHint(c)) \/ Change

Spec == Init /\ [][Next]_vars

\* doctor runs to its end; an operator who was told of an error carries out
\* the hints and runs doctor again.
Fairness == /\ WF_vars(Step)
            /\ WF_vars(Start)
            /\ WF_vars(\E c \in Checks : FollowHint(c))

FairSpec == Spec /\ Fairness

-----------------------------------------------------------------------------
(* Properties.                                                              *)

\* The variables keep their types.
TypeOK ==
    /\ pc \in Places
    /\ rc \in {-1, 0, 1, 2} /\ (pc = "exited" => rc \in {0, 1})
    /\ found \in [Checks -> Findings]
    /\ saw \in Content
    /\ read \in Manifests /\ (pc = "hash" => read.kind = "list")
    /\ pending \subseteq Plugins
    /\ tally \subseteq {"missing", "mismatched"}
    /\ disk \in Disks
    /\ todo \subseteq Checks
    /\ quiet \in BOOLEAN /\ wasRefused \in BOOLEAN
    /\ changes \in Nat

\* Two parsers, one verdict: load_descriptor and check_identity_provider call
\* exactly those descriptors an error on which load_identity_descriptor makes
\* run give up.
DescriptorVerdictAgrees ==
    pc \in {"plugins", "manifest", "hash", "config", "report", "exited"} /\ saw # Absent =>
        (found["descriptor"].tag = "error" <=> LoadAborts(saw))

\* A doctor that saw nothing to complain about leaves run nothing to refuse,
\* and one that died without a report died of files run refuses too.  The two
\* exceptions are what it does not look into: key bytes and config schema.
CleanBillHolds ==
    quiet =>
        /\ pc = "exited" /\ (\A c \in Checks \ {"environment"} : found[c].tag \in {"none", "ok"})
           => ~Refuses(disk) \/ disk.key = "garbage" \/ disk.config.kind = "invalid"
        /\ pc = "aborted" => Refuses(disk)

\* check_manifest compares digests it read at one moment with files it hashes
\* at later ones, while plugins are upgraded and the manifest regenerated: the
\* mismatch it reports was there on disk at some moment since doctor started.
MismatchWasReal == "mismatched" \in tally => wasRefused

\* The hints that change no file, taken literally.
IdleHints == {"ls", "manifest gen"}

\* Every error that is left has a hint that changes nothing.
DeadEnd == Errors # {} /\ \A c \in Errors : found[c].hint \in IdleHints

\* No two hints undo each other, and none that changes a file fails to cure
\* what it stands next to: an operator who carries out the hints of a report
\* with errors, in any order, and runs doctor again ends with exit code 0, or
\* is left with nothing but errors whose hint changes no file, or with a doctor
\* that dies on a manifest entry and gives no hint.
HintsConverge ==
    pc = "exited" /\ rc = 1 ~> rc = 0 \/ DeadEnd \/ pc = "aborted"

-----------------------------------------------------------------------------
(* What the documentation and comments say of the program.                  *)

\* "Each non-ok finding carries an actionable hint string the operator can
\* paste straight onto a shell": who does so for every finding of a report with
\* errors, and runs doctor again, gets to exit code 0.
HintsCure == pc = "exited" /\ rc = 1 ~> rc = 0
=============================================================================
