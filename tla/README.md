# A model of goodnetd

TLA+ modules, TLC configurations and TLAPS proofs about `goodnetd`, the
operator's front end of GoodNet: the command that sets a node up
(`quickstart`, `identity gen`, `identity import-hsm`, `manifest gen`), inspects
it (`doctor`, `config validate`, `plugin hash`, `version`) and runs it (`run`).
Line numbers below are those of the source files.

## 1. The system

All commands are one executable; they share no process state. What connects
them is a directory, `$XDG_DATA_HOME/goodnet` or `~/.local/share/goodnet`:

    identity/default.bin      written by quickstart / identity gen, read by run, doctor
    identity-config.json      written by import-hsm (quickstart's HSM branch), read by run, doctor
    config.json               written by quickstart and the operator, read by run, doctor
    manifests/baseline.json   written by `manifest gen > ...`, read by run, doctor
    plugins/                  filled by an external installer

| component | state | operations | talks to | hard behaviour |
|---|---|---|---|---|
| `identity import-hsm` (identity_import_hsm.cpp) | descriptor file and its `.tmp` | parse, validate, clobber gate, compose, write_atomic | files | overlapping invocations, crash between steps, late write errors |
| `run` (run.cpp) | quit flag, environment, kernel, loaded plugins, node identity | the boot sequence, signal handler, poll loop, shutdown | kernel, PluginManager, files, signals | signals at any moment, plugin threads during boot and shutdown, each boot failure |
| `quickstart` (quickstart.cpp) | key, config.json, descriptor | the three steps | calls identity gen and import-hsm in process | reruns after a crash, overlapping runs, answers that differ between runs |
| `identity gen/show` (identity.cpp) | key file | generate, print | kernel | overwrites without asking |
| `doctor` (doctor.cpp) | none | eight checks, verdict | files, kernel C ABI, control socket | reads files one after the other; its verdict must agree with `run` |
| `manifest gen`, `plugin hash` (manifest_gen.cpp, plugin_hash.cpp, sha256_file.hpp) | none, stdout | hash files, print entries | files | plugin replaced between hash and load; redirect in front of the program |
| command line (main.cpp, and a scanner in each command) | none | dispatch, count, scan | calls every command; quickstart composes two lines itself | repeated flags, values that look like flags |
| `config validate`, `version` (config_validate.cpp, version.cpp) | none | one call, one print | kernel | none |

What makes each correct: an import replaces the descriptor as a whole, only
when the operator may expect it, and says what it did; `run` serves with the
identity the operator declared, gives plugins the declared environment,
returns with no plugin loaded and no work in flight, and answers signals once it
serves; `quickstart` never replaces what is there and leaves what it
reports; `doctor` agrees with what `run` would make of the same files, reports
nothing that was never there, and its hints repair what they are about;
`manifest gen` emits digests of files that existed, all of them or none; every
scanner accepts its grammar.

## 2. Modules

| module | models | against the source |
|---|---|---|
| `Descriptor` | the contents of identity-config.json, the gate, the composed document, the loader, the exported environment | identity_import_hsm.cpp 59-66, 121-135, 202-265; run.cpp 133-239 |
| `DescriptorCell` | abstract specification: a cell replaced as a whole by a guarded install | (abstract) |
| `ImportHsm` | invocations of import-hsm and readers of the descriptor, over names and inodes | identity_import_hsm.cpp 68-279 |
| `ImportHsmProofs` | theorems about `ImportHsm` | |
| `RunDaemon` | one process of `goodnetd run` | run.cpp 57-119, 248-550 |
| `RunDaemonProofs` | theorems about `RunDaemon` | |
| `DaemonLifecycle` | abstract specification: come up or fail, serve, keep the first request, drain, end | (abstract) |
| `Quickstart` | runs of the wizard over one data directory | quickstart.cpp 84-339, identity.cpp 83-104 |
| `QuickstartProofs` | theorems about `Quickstart` | |
| `Doctor` | doctor over one data directory, the operator's other tools, and what `run` would do with the same files | doctor.cpp 120-778; run.cpp 312-399; quickstart.cpp 219-263 |
| `DoctorProofs` | theorems about `Doctor` | |
| `ManifestGen` | manifest gen, plugin hash, the redirect, the installer, and `run` up to the last plugin loaded | manifest_gen.cpp 31-66, plugin_hash.cpp 21-39, sha256_file.hpp 30-65, run.cpp 379-497 |
| `ManifestGenProofs` | theorems about `ManifestGen` | |
| `Cli` | dispatch, argument counts and the scanners, one token per step | main.cpp 41-107, identity.cpp 40-86 and 117-174, identity_import_hsm.cpp 68-135, run.cpp 76-119, doctor.cpp 708-728, quickstart.cpp 110-123, 185-193 and 293-314 |
| `CliProofs` | theorems about `Cli` | |
| `MCImportHsm`, `MCRunDaemon`, `MCQuickstart`, `MCDoctor`, `MCManifestGen`, `MCCli` | small instances | |

`Descriptor` is extended by `DescriptorCell`, `ImportHsm`, `RunDaemon`,
`Quickstart` and `Doctor`. `Quickstart` instantiates `ImportHsm`, one invocation
per run. `DescriptorCell` is what `ImportHsm` is shown to implement when imports
do not overlap; `Doctor`, whose operator does one thing at a time, uses that one
step. `DaemonLifecycle` is what `RunDaemon` implements.

**Descriptor.** A content is a record that keeps what the programs tell apart:
absent, unreadable, not JSON, JSON but no object, torn, or an object with its
backend, extension id, key label and extra. `None` is a key that is missing,
not a string or empty.

**ImportHsm.** `dst` and `tmp` are the two names in the directory, each bound
to an inode; `data` gives every inode its content. One action per system call
that matters: the gate's read, opening the temporary file with truncation, the
write (straight through for documents of 1024 bytes or more, into the stream's
buffer for shorter ones), the flush in the stream's destructor, the rename, the
removal after a failed rename. Each can fail where the code has an error path,
and the process can die before each. Readers open the name and read the open
file in two steps. `Serial` restricts the instance to one invocation at a time
and `FlushMayFail` adds the unnoticed write error, so that each promise is
stated with exactly the assumption it needs.

**RunDaemon.** `pc` is the place of the main thread in `cmd_run`; each early
return is a disjunct of the step it is in. Plugins are numbered in manifest
order; `status` says how far each is loaded, `working` which have work on their
own threads, `handler` what each signal does, `quit` is `g_quit_signal`. A
signal can arrive in every state. Kernel and PluginManager are a submodule that
is not in the repository: two-phase load with rollback and the draining
shutdown follow the comments at run.cpp 461-467 and 543-546, in the most
permissive order of plugins, and are marked external. A link takes sessions
from its registration on, because nothing in `cmd_run` between the load and
the poll loop starts or holds back traffic. `Phase` and `Who` map this state to
`DaemonLifecycle`: booting up to the poll loop, serving in it, failing while a
failed load or identity install is rolled back, draining after it.

**Quickstart.** Each run has an answer (file backend with the default or
another path, or HSM with its fields); the steps check, generate, import,
open, write and flush as the code does. Runs may overlap, at most `MaxLive` of
them at a time. The HSM answer calls import-hsm in the wizard's process:
`Hsm == INSTANCE ImportHsm` takes the runs as its invocations, with variables of
their own (`ipc`, `iargs`, `igated`, `ifd`, `irc`) and the descriptor's files
(`dst`, `tmp`, `data`), so that two wizards meet each other between the gate, the
truncating open, the write and the rename of their imports. `met` is history:
the runs that were under way at some time while a run was.

**Doctor.** `disk` is a record with one field per file, reduced to what doctor
or `run` tells apart: the key is absent, a directory (whose size cannot be
asked), of implausible size, unreadable, garbage or valid; the manifest is no
JSON, has no array, or maps plugins to digests, possibly with a malformed or
mistyped entry; the config has references that resolve or dangle. `pc` is the
next check of `cmd_doctor`, `found` the worst finding of each, a tag with its
hint; the manifest is read in one step and each listed plugin is hashed in a
step of its own, with a change of the disk possible between any two. `Refuses`
says what `run` does with these files, translated from run.cpp, and serves only
as the yardstick. `wasRefused` and `quiet` remember what happened since doctor
started.

After a report with errors, `FollowHint` carries out the hints in any order and
doctor may be run again. `Followed` takes a hint literally: what is a command is
run as it is printed, with the operator's values for `<plugin-dir>` and `...`.
So `manifest gen <plugin-dir>/*.so` (295, 304, 323, 348) prints and changes no
file, while the same command with the redirect (276) writes the manifest;
`ls -la` (210, 284, 383) shows permissions and changes no file; `quickstart`
leaves a key and a config that exist alone. Of "Edit ... or regenerate via
goodnetd quickstart" (394) `ConfigHint` says which half the operator takes.
After "Set $HOME" the files of that home are the ones looked at.

**ManifestGen.** A plugin file is a sequence of chunks, a digest is the
sequence that was digested. The installer either renames a new file over the
path (an open stream keeps the old file), removes it, or overwrites it in place
(truncated first, then chunk by chunk, and an open stream sees that). The
manifest is emptied by the shell before `manifest gen` looks at its arguments.
`run` reads the manifest once and the gate hashes each plugin when it is its
turn. `clean`, `bootClean` and `mixed` only record what happened, for the
properties. Chunks are full ones: that the last read of a file comes short is
not distinguished. `Unescaped` are the paths that make the manifest no JSON
because nobody escapes them; a path that happens to contain a valid escape, and
would be read back as another path, is not modelled.

**Cli.** `line` is argv, `at` the next token, `val` and `on` what the scanner
has stored. Tokens are strings; the actions do what the loops of the four
scanners do, whose differences are the data of `Grammar`. `Expected` says the
same language without a scanner: which positions hold flags, the last value of
each, and whether an error or a `--help` comes first.

## 3. Runs and what they show

Passing runs:

| run | instance | shows |
|---|---|---|
| `ImportHsm_serial` | 2 invocations, 1 reader, 5 argument lists, 9 contents | readers see whole documents, and `run` boots from what an import left; exit codes tell the truth; without `--force` a declared key stays; each import is one install on `DescriptorCell`; a second invocation recovers from whatever the first left |
| `ImportHsm_concurrent` | 3 overlapping invocations (symmetric), 1 reader, failing flushes | the path never goes missing; the operator's file is only replaced after a gate let that file through; no document of unknown origin |
| `RunDaemon_service` | 3 plugins (link, signer, link), 12 contents, 2 environments, fairness | identity, the identity of sessions by backend, environment, signals, shutdown, rollback and exit code; no step of the main thread leads back; boot, drain and a caught signal come to an end; all of it implements `DaemonLifecycle`, its fairness included |
| `Quickstart_reruns` | 3 runs, any 2 of them overlapping (symmetric), imports step by step, crashes, failing flushes, the operator's own key and edits of config.json | a key is replaced only by a run that met the one which generated it; an edited config never; a truncated config has a culprit; what a completed run reported stays, its token key as long as no two runs have overlapped |
| `Doctor_upkeep` | 2 plugins, 2 builds, each file in each state alone and with the files it is related to, 2 changes, fairness | a clean report leaves `run` nothing to refuse but what doctor does not look into (key bytes, config schema); both descriptor parsers agree; a mismatch was there; following the hints ends in exit 0, or leaves only errors whose hint changes no file (`DeadEnd`), or a doctor that dies on a manifest entry |
| `ManifestGen_install` | 3 paths, 2 builds of 2 chunks, 2 installations, builds symmetric | a mixed digest has a culprit; a daemon serves all plugins of one call; a manifest nothing came in between verifies |
| `Cli_lines` | all lines of up to 5 tokens after each command, over its flags, a word, an empty token; all answers of the wizard | scanners accept their grammar; the wizard's lines mean what the operator typed |

Runs that end in a violation, each of one statement of a comment, with the
shortest execution TLC finds:

| run | statement | what happens |
|---|---|---|
| `ImportHsm_half_written` | "never a half-written one" (identity_import_hsm.cpp 139) | two imports share `<path>.tmp`; one renames what the other has just truncated |
| `RunDaemon_early_session` | the identity is installed "before the kernel takes on session traffic" (run.cpp 500-501) | a link that has registered takes a session before the provider's identity is installed, and the kernel has none |
| `RunDaemon_pin_env` | `GOODNET_PKCS11_PIN_ENV` (run.cpp 224) | the name set is `GOODNET_PIN_ENV` |
| `Quickstart_torn_config` | "idempotent steps", "usable runtime" (quickstart.cpp 4) | an empty config.json is skipped by the rerun |
| `Doctor_hints` | "actionable hint string the operator can paste straight onto a shell" (doctor.cpp 6-8) | neither manifest nor config is JSON; the operator pastes `manifest gen <plugin-dir>/*.so`, which prints, and takes the second half of the config's hint, `goodnetd quickstart`, which skips a config that exists; doctor reports the same two errors for ever |

`RunDaemon_early_session` rests on one thing that is not in the repository, that
a link may take a session as soon as it has registered: what `cmd_run` shows is
only that it starts and holds back nothing between `plugins.load` (490) and the
install (507), and that "active work runs on plugin worker threads" (532-533).

Behaviour one reads off the same models without a run of its own:

- import-hsm: `good()` is tested before the stream's destructor flushes, so a
  flush that fails is renamed into place with exit 0 (`FlushFails`). Extra is
  not compared by the clobber gate, so another `--pin-env` replaces the
  descriptor without `--force` although the comment (212-214) says "only when
  nothing changed". JSON that is no descriptor passes the gate (`GateAdmits`).
  Of two overlapping imports of different keys both pass it on an absent file,
  both exit 0, and the second replaces the first's declaration without
  `--force`. Without HOME and XDG_DATA_HOME the descriptor goes to the working
  directory (56), and the command prints `[ok]` and "next: goodnetd doctor
  (verify), goodnetd run (start)" for a file that neither reads: once HOME is
  set, doctor finds a healthy file-backed node and `run` serves with the file's
  key, although the header (11-13) calls the descriptor "a JSON file the daemon
  reads at boot". No property speaks of it, because no file of the data
  directory tells that there was an import.
- run: a backend that is misspelt, missing or no string starts a file-backed
  daemon, where the comment (312) names only "descriptor absent / backend =
  file" as the default; doctor's parser takes it for the file backend too.
- quickstart: the generated config names the default identity path whatever
  path was answered. Of two overlapping wizards the second `identity gen`
  replaces the key of the first (`KeysKept` allows it between runs that met,
  and only there). Two overlapping wizards with HSM answers of different labels
  both print "Setup complete", and the second's key replaces the first's:
  `SetupStays` claims the descriptor only as long as no two runs have overlapped.
  The file answer leaves a provider descriptor in force. A flush that fails
  leaves an empty config.json behind exit 0 (`FlushConfigFails`).
- doctor: a missing config or manifest is a warning and the summary says
  "environment usable; warnings are advisory" (683-686), but `run` refuses
  (`Refuses`). A deployment with an HSM and no identity file always gets an
  error. A manifest entry whose path or sha256 is no string ends doctor with an
  exception and no report (`MeetFlaw`). "Check perms: ls -la" repairs nothing
  either.
- manifest gen: with the `>` the header documents, a failure leaves an empty
  file, not "the operator's previous file intact" (14-16; `Begin`). `fputs` and
  the flush at exit are not checked (`Emit`). Paths are not escaped.

**Bounds.** Two serial imports are enough for "left behind by one, met by the
next"; three overlapping ones let one rename while another writes and a third
gates. Two key labels and two extra values give same and different
declarations. Three plugins put a link before and after the signer, so that
load phases, rollback and drain have plugins in every status. Two paths and
three runs, two at a time (`MaxLive` = 2), let a wizard crash, be repaired and be
run again with another answer, and let two imports race on what a third left;
the operator starts with a key of their own at the path they name and none at
the default one, so that both answers of the existence test occur. Every invocation of `ImportHsm` and `Quickstart` runs once, and the
daemon's state is finite. `Doctor` bounds the changes nobody hinted at
(`MaxChanges` = 2: one to make what doctor read stale, one to make that look
consistent again); hints and reruns are not bounded. `ManifestGen` bounds
installations (`MaxInstalls` = 2: one file replaced while it is hashed and one
before it is loaded) and takes two chunks per build, the least with a mixture.
`Cli` bounds lines (`MaxTail` = 5: a flag with its value twice and one more
token). Deadlock is checked in `ManifestGen`, which can always go on, and not
where commands end. Symmetry is used for the overlapping imports, the wizard's runs and for builds,
in runs without a liveness property.

**Fairness** (`FairSpec`). The main thread of `run` is scheduled (weak fairness
of its steps; the poll loop sleeps 100 ms and looks again), and a callback on a
worker thread returns (weak fairness of `FinishWork` per plugin). Nobody has to
connect, to send a signal, or to succeed in a step that can fail. `Doctor`'s
`FairSpec` says that doctor runs to its end (its thread waits for nothing but
files, a shell command, and a connect to a local socket) and, as an assumption
about the operator without which hints cannot be judged, that an operator who
was told of an error carries out the hints and runs doctor again.

## 4. Proofs

All theorems hold for every value of the constants that satisfies the named
assumptions (`NoneIsNoValue`, `ImportAssumption`, `RunAssumption`,
`QuickstartAssumption`, `DoctorAssumption`, `ManifestAssumption`,
`CliAssumption`); TLC evaluates the assumptions on each instance. Each property is stated by a
theorem as `Spec => []Property` or `Spec => [][Step]_vars`.

`ImportHsmProofs`: type correctness for any number of invocations and readers.
For `Serial /\ ~FlushMayFail`, no reader sees a torn descriptor, and `ImportHsm`
implements `DescriptorCell`. The statement about readers is not inductive: that
a rename puts a whole file in place depends on who else can reach the temporary
inode. The invariant `IInv` says that at most one invocation is live, that the
two names are different files, that a live writer holds the inode the temporary
name has, that what is about to be renamed is the document, that no reader has
the temporary file open, that an invocation that has not opened its file owns no
inode, and that what the gate looked at is still there. From it follow also
`ExitCodesTruthful` (looking at the step with which an invocation exits),
`NoSilentOverwrite` (an import that was not forced and that the gate let past a
declared key declares that key, and the gate's verdict still holds at the
rename) and `NoImportStopsTheDaemon` (a whole document that import-hsm composed
is one that `run` loads). Two small invariants go with them: `IdleUnasked`, who
has not parsed its arguments has none, and `ExitedHaveCodes`, only who has
exited has an exit code.

Without any such assumption, for overlapping imports and failing flushes:
`OriginalIsGuarded` and `DocumentsAccountedFor`, whose invariant `AInv` says that
nobody writes to the operator's inode, that until the first rename every gate saw
that inode, that the import which renamed first was admitted, and that every
content in any inode or reader is the operator's, torn, or an admitted import's;
and `DescriptorStays`, whose invariant `NamedAreThere` says that what has a name
or is open has been written to. `ExitTellsTheTruth`, `DeclaredKeyStays` and
`ImportsBoot` need imports that do not overlap: two of different keys can both
pass the gate on an absent file and both exit 0.

`RunDaemonProofs`: for any number of plugins, manifest order, descriptor and
environment, the types, nine safety properties, and that every step is a step
or a stutter of `DaemonLifecycle` (`LifecycleSafe`). `IInv` says for each place
of the main thread how far plugins are, which identity is installed, which
signals are caught and what the environment holds; the properties follow from
it. `BoundedSteps` is the part of termination that needs no fairness: `Ahead`
counts the steps the main thread has at most before it returns, starting with
4 * `PluginCount` + 14; each of its steps makes it less, and no thread and no
signal makes it more. Its drain part is the number of plugins still to
unregister and to unload (`DrainBounded`, `DrainStep`). What is left to
fairness is that the main thread does take its steps: that it runs, that
somebody signals, and that callbacks return.

`QuickstartProofs`: for any number of overlapping runs, with import-hsm step by
step inside them, the types, `KeysReplacedInRacesOnly` (`KeysKept`),
`EditsAreKept` and `TornHasCulprit`; when no flush fails also `SetupIsKept`.
`IInv` says what each step has left behind by the place a run is at, that
answers decide places, that two runs under way have met each other, and that a
key which turns up between a run's existence test and its generation is that of
a run it met (`KeyRace`). The descriptor needs more: `AloneInv` says that as
long as no two runs have overlapped the gate's verdict still holds at the
rename, the temporary file is the running import's own, and what an import
reported stays declared (`HsmDone`), because an import that is not forced and
gets past the gate declares the same key. The theorems of `ImportHsmProofs`
cannot be cited for the instance (the prover does not instantiate theorems), so
that import-hsm keeps the types of its files is proved again
(`ImportKeepsFiles`).

`DoctorProofs`: the types, `DescriptorVerdictAgrees`, `CleanBillHolds` and
`MismatchWasReal`. The argument of `MismatchWasReal` is
`StillGenuine`: a digest that was read can stop being right only through a
state in which the manifest on disk and the plugins disagree, and `run` would
refuse that one.
`CleanBills` (`CleanBillHolds`) has an invariant of its own, `BInv`: while no
file changes, each check that has passed agrees with the disk, and plugins that
were hashed without a complaint have the digests the manifest on disk lists.

`ManifestGenProofs`: the types and all three safety properties, for files of any
size. `MixtureInv` says that only a file being overwritten is not a whole build,
that its content so far is a part of one, that a stream nobody overwrites is
followed chunk by chunk, and that entries on their way through the manifest to
the loader are trustworthy or have a culprit. `CleanInv` says that without an
installation what was digested is what is there; `CallInv` that entries follow
the arguments one by one.

`CliProofs`: for tokens of any spelling and lines of any length, the types, that
every scanner accepts its grammar and stores what the grammar says
(`ScannersAreRight`), and that the lines quickstart composes carry the answers
(`AnswersUnderstood`). The grammar is defined without a scanner, by the set of
positions at which a line has flags. That each line has such a set (`MarksExist`)
is induction over its length, done in the form "a set of numbers that is not
empty has a least element" (`LeastElement`, from the well-foundedness of `<`).
`ScanState` then says where the scanner stands, that all flags before it were
right, and that `val` and `on` hold what those flags say; `ExpectedAt` says what
the grammar expects of a line whose scan has come that far.

Only model-checked: liveness (`SignalEndsRun`, `BootEnds`, `HintsConverge`, and
the fairness of `ImplementsLifecycle`), which is beyond the prover. All other
properties of the passing runs are theorems; `FirstSignalStays` is a theorem
only, the runs see it as the `Request` of the lifecycle.

## 5. Not modelled

The kernel (identity files, signing, sessions, config schema, manifest
parsing), PluginManager beyond its use here, the digest (`hex_decode_32` has no
caller), the control socket, the loader path, printing, the file that `config
validate` hands to the kernel and `identity show` prints. The static-linkage
build of `run`, which skips the manifest. The test hook of doctor's provider
probe. Loss of unsynced data at a power failure: the comment at
identity_import_hsm.cpp 140 gives up the new document, and which of data and
name reaches the disk first is the file system's choice, so a model would speak
about the file system. Edits of config.json while a
wizard runs. A signer that the kernel still references after its
plugin is unloaded: whether that reference is used is decided outside this
repository. Claims of the repository README about checks doctor does not have
(config schema, extension reachability) have no code to model.

## 6. Plan

Done: every module of section 2. What could follow: one model of a data
directory with all commands and a daemon that is restarted, composed of
`DescriptorCell`, `DaemonLifecycle`, `Quickstart` and the files of `Doctor`
(`Doctor` already relates the files to what `run` would do, so it would add the
running daemon that has read older files); a power failure model for a given
file system; a measure of what doctor's hints leave to repair, as `Ahead` is one
of what `run` has left to do.
