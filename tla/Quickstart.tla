----------------------------- MODULE Quickstart -----------------------------
(***************************************************************************)
(* `goodnetd quickstart`: runs of the first-time wizard over one data       *)
(* directory, one after the other or overlapping, with the operator's       *)
(* answers, failures of each step, crashes between two steps, and an        *)
(* operator who edits config.json between runs.                             *)
(*                                                                         *)
(* What the steps leave behind: a key file per identity path, config.json   *)
(* and the identity descriptor.  Writing a key (NodeIdentity::save_to_file, *)
(* kernel code outside the repository) is one step.  The HSM answer calls   *)
(* cmd_identity_import_hsm in the wizard's own process: its steps are those *)
(* of ImportHsm, one invocation per run, on the files of that module.       *)
(* config.json is opened with truncation and written when its stream is     *)
(* flushed.                                                                 *)
(***************************************************************************)
EXTENDS Integers, FiniteSets, Descriptor

CONSTANTS Runs,            \* executions of the wizard
          SignerExtension, \* "gn.identity.pkcs11"
          InitialKeys,     \* key files the operator may already have
          InitialConfigs,  \* config.json may already be there
          InitialDescs,    \* descriptors that may already be there
          MaxLive,         \* bound: runs under way at the same time
          FlushMayFail     \* TRUE: the flush in ~ofstream may hit ENOSPC or EIO

\* The XDG default and another file the operator names at the prompt.
Paths == {"default", "custom"}

NoKey == "noKey"
OldKey == "oldKey"

\* The key at a path: none, one from before, or the one run r generated.
Keys == Runs \cup {OldKey, NoKey}

\* config.json: none, what the wizard writes (identity.path is the default
\* path), the operator's own, left empty by a flush that failed, or truncated
\* by run r and not written since.
Configs == {"absent", "generated", "operator", "lost"} \cup Runs

Original == "original"
NoInode == "noInode"

ASSUME QuickstartAssumption ==
    /\ SignerExtension \in ExtensionIds
    /\ Runs \cap {NoKey, OldKey, Original, NoInode} = {}
    /\ Runs \cap {"absent", "generated", "operator", "lost"} = {}
    /\ InitialKeys \subseteq [Paths -> {OldKey, NoKey}]
    /\ InitialConfigs \subseteq {"absent", "operator"}
    /\ InitialDescs \subseteq Content \ {Torn}
    /\ MaxLive \in Nat
    /\ FlushMayFail \in BOOLEAN

VARIABLES pc,      \* pc[r]: the next step of run r
          answer,  \* answer[r]: what the operator answered
          rc,      \* rc[r]: its exit code, -1 before it has one
          keys,    \* keys[p]: the key file at path p
          config,
          ipc, iargs, igated, ifd, irc,  \* run r inside import-hsm: ImportHsm
          dst, tmp, data,                \* the descriptor's files: ImportHsm
          met      \* history: met[r], the runs under way while r was

wizard == <<pc, answer, rc, keys, config>>
import == <<ipc, iargs, igated, ifd, irc, dst, tmp, data>>
vars   == <<pc, answer, rc, keys, config, ipc, iargs, igated, ifd, irc, dst,
            tmp, data, met>>

Steps == {"idle", "identity", "generate", "import", "config", "open", "write",
          "flush", "summary", "exited", "crashed"}

\* The backend question, then the path or the PKCS#11 questions.  Defaults,
\* --non-interactive included, are the file backend at the default path.
FileAnswers == [backend : {"file"}, path : Paths,
                key_label : {None}, pin_env : {None}, module_path : {None}]

HsmAnswers == [backend : {"hsm"}, path : {"default"},
               key_label : KeyLabels, pin_env : ExtraValues, module_path : ExtraValues]

Answers == FileAnswers \cup HsmAnswers

Unanswered == [backend |-> "none", path |-> "default",
               key_label |-> None, pin_env |-> None, module_path |-> None]

\* The command line step_identity_hsm hands to import-hsm; no --force.
HsmArgs(a) == [extension_id |-> SignerExtension, key_label |-> a.key_label,
               pin_env |-> a.pin_env, module_path |-> a.module_path, force |-> FALSE]

\* import-hsm as the wizard calls it; nothing of its own keeps two calls apart.
\* Who reads the descriptor meanwhile is not followed here.
Hsm == INSTANCE ImportHsm
          WITH Invocations <- Runs, Readers <- {}, InitialContents <- InitialDescs,
               Requests <- {HsmArgs(a) : a \in HsmAnswers}, Serial <- FALSE,
               pc <- ipc, args <- iargs, gated <- igated, fd <- ifd, rc <- irc,
               rfd <- <<>>, seen <- <<>>

\* What a reader of the descriptor path finds.
desc == Hsm!Visible

Live(r) == pc[r] \notin {"idle", "exited", "crashed"}

Init ==
    /\ pc = [r \in Runs |-> "idle"]
    /\ answer = [r \in Runs |-> Unanswered]
    /\ rc = [r \in Runs |-> -1]
    /\ keys \in InitialKeys
    /\ config \in InitialConfigs
    /\ Hsm!Init
    /\ met = [r \in Runs |-> {}]

-----------------------------------------------------------------------------
(* The wizard.                                                              *)

Goto(r, step) == pc' = [pc EXCEPT ![r] = step] /\ UNCHANGED rc

Exit(r, code) ==
    /\ pc' = [pc EXCEPT ![r] = "exited"]
    /\ rc' = [rc EXCEPT ![r] = code]

Underway == {r \in Runs : Live(r)}

MayStart(r) == pc[r] = "idle" /\ Cardinality(Underway) < MaxLive

\* --help, an unknown argument, or neither HOME nor XDG_DATA_HOME.
Usage(r) ==
    /\ MayStart(r)
    /\ \E code \in {0, 1, 2} : Exit(r, code)
    /\ UNCHANGED <<answer, keys, config, import, met>>

Meets(r) ==
    met' = [s \in Runs |-> IF s = r THEN Underway
                           ELSE IF Live(s) THEN met[s] \cup {r} ELSE met[s]]

StartFile(r) ==
    /\ MayStart(r)
    /\ \E a \in FileAnswers : answer' = [answer EXCEPT ![r] = a]
    /\ Goto(r, "identity")
    /\ Meets(r)
    /\ UNCHANGED <<keys, config, import>>

\* The PKCS#11 questions, then the call of cmd_identity_import_hsm.
StartHsm(r) ==
    /\ MayStart(r)
    /\ \E a \in HsmAnswers : answer' = [answer EXCEPT ![r] = a]
    /\ Goto(r, "import")
    /\ Hsm!Start(r)
    /\ iargs'[r] = HsmArgs(answer'[r])
    /\ Meets(r)
    /\ UNCHANGED <<keys, config>>

\* Mutant of CheckKey: the existing file is not looked for.
CheckKeyNever(r) ==
    /\ pc[r] = "identity"
    /\ Goto(r, "generate")
    /\ UNCHANGED <<answer, keys, config, import, met>>

\* step_identity, file branch: an existing file is left alone.
CheckKey(r) ==
    /\ pc[r] = "identity"
    /\ Goto(r, IF keys[answer[r].path] = NoKey THEN "generate" ELSE "config")
    /\ UNCHANGED <<answer, keys, config, import, met>>

\* `identity gen --out path`: no check of its own, an existing file goes.
GenerateKey(r) ==
    /\ pc[r] = "generate"
    /\ keys' = [keys EXCEPT ![answer[r].path] = r]
    /\ Goto(r, "config")
    /\ UNCHANGED <<answer, config, import, met>>

\* create_directories, key generation or saving failed.
GenerateFails(r) ==
    /\ pc[r] = "generate"
    /\ Exit(r, 1)
    /\ UNCHANGED <<answer, keys, config, import, met>>

\* The call: any step of import-hsm, any of its failures.
ImportStep(r) ==
    /\ pc[r] = "import"
    /\ \/ Hsm!Validate(r) \/ Hsm!Gate(r) \/ Hsm!OpenFails(r) \/ Hsm!OpenTmp(r)
       \/ Hsm!WriteThrough(r) \/ Hsm!WriteFails(r) \/ Hsm!WriteBuffered(r)
       \/ Hsm!Flush(r) \/ Hsm!FlushFails(r)
       \/ Hsm!Rename(r) \/ Hsm!RenameFails(r) \/ Hsm!Cleanup(r)
    /\ UNCHANGED <<wizard, met>>

\* Mutant of ImportReturns: the exit code is not looked at.
ImportReturnsAnyway(r) ==
    /\ pc[r] = "import" /\ ipc[r] = "exited"
    /\ Goto(r, "config")
    /\ UNCHANGED <<answer, keys, config, import, met>>

\* "Propagates the import-hsm exit code so a failed PKCS#11 setup aborts".
ImportReturns(r) ==
    /\ pc[r] = "import" /\ ipc[r] = "exited"
    /\ IF irc[r] = 0 THEN Goto(r, "config") ELSE Exit(r, irc[r])
    /\ UNCHANGED <<answer, keys, config, import, met>>

\* Mutant of CheckConfig: the existing file is not looked for.
CheckConfigNever(r) ==
    /\ pc[r] = "config"
    /\ Goto(r, "open")
    /\ UNCHANGED <<answer, keys, config, import, met>>

\* step_plugins prints; step_config leaves an existing file alone.
CheckConfig(r) ==
    /\ pc[r] = "config"
    /\ Goto(r, IF config = "absent" THEN "open" ELSE "summary")
    /\ UNCHANGED <<answer, keys, config, import, met>>

OpenConfig(r) ==
    /\ pc[r] = "open"
    /\ config' = r
    /\ Goto(r, "write")
    /\ UNCHANGED <<answer, keys, import, met>>

OpenConfigFails(r) ==
    /\ pc[r] = "open"
    /\ Exit(r, 1)
    /\ UNCHANGED <<answer, keys, config, import, met>>

\* Mutant of WriteConfig: the document never gets into the stream.
WriteConfigNothing(r) ==
    /\ pc[r] = "write"
    /\ Goto(r, "summary")
    /\ UNCHANGED <<answer, keys, config, import, met>>

\* f << doc.dump(2): into the stream's buffer, or, for paths so long that the
\* document exceeds it, to the file, where a failure is seen.
WriteConfig(r) ==
    /\ pc[r] = "write"
    /\ Goto(r, "flush")
    /\ UNCHANGED <<answer, keys, config, import, met>>

WriteConfigFails(r) ==
    /\ pc[r] = "write"
    /\ Exit(r, 1)
    /\ UNCHANGED <<answer, keys, config, import, met>>

\* ~ofstream at the end of step_config.
FlushConfig(r) ==
    /\ pc[r] = "flush"
    /\ config' = "generated"
    /\ Goto(r, "summary")
    /\ UNCHANGED <<answer, keys, import, met>>

\* The stream is gone and nobody has asked it: an empty file stays.
FlushConfigFails(r) ==
    /\ FlushMayFail
    /\ pc[r] = "flush"
    /\ config' = "lost"
    /\ Goto(r, "summary")
    /\ UNCHANGED <<answer, keys, import, met>>

\* Mutant of Summary: the return value is that of printf.
SummaryCountsBytes(r) ==
    /\ pc[r] = "summary"
    /\ Exit(r, 42)
    /\ UNCHANGED <<answer, keys, config, import, met>>

\* "Setup complete."
Summary(r) ==
    /\ pc[r] = "summary"
    /\ Exit(r, 0)
    /\ UNCHANGED <<answer, keys, config, import, met>>

Crash(r) ==
    /\ Live(r)
    /\ Goto(r, "crashed")
    /\ IF Hsm!Live(r) THEN Hsm!Crash(r) ELSE UNCHANGED import
    /\ UNCHANGED <<answer, keys, config, met>>

-----------------------------------------------------------------------------
\* Between runs the operator rewrites config.json to their own needs.
OperatorEdits ==
    /\ \A r \in Runs : ~Live(r)
    /\ config # "operator"
    /\ config' = "operator"
    /\ UNCHANGED <<pc, answer, rc, keys, import, met>>

Run(r) ==
    \/ Usage(r) \/ StartFile(r) \/ StartHsm(r)
    \/ CheckKey(r) \/ GenerateKey(r) \/ GenerateFails(r)
    \/ ImportStep(r) \/ ImportReturns(r)
    \/ CheckConfig(r) \/ OpenConfig(r) \/ OpenConfigFails(r)
    \/ WriteConfig(r) \/ WriteConfigFails(r) \/ FlushConfig(r) \/ FlushConfigFails(r)
    \/ Summary(r) \/ Crash(r)

Next == (\E r \in Runs : Run(r)) \/ OperatorEdits

Spec == Init /\ [][Next]_vars

-----------------------------------------------------------------------------
(* Properties.                                                              *)

\* The variables keep their types.
TypeOK ==
    /\ pc \in [Runs -> Steps]
    /\ answer \in [Runs -> Answers \cup {Unanswered}]
    /\ rc \in [Runs -> {-1, 0, 1, 2}]
    /\ keys \in [Paths -> Keys]
    /\ config \in Configs
    /\ Hsm!TypeOK
    /\ met \in [Runs -> SUBSET Runs]

\* Run r printed "Setup complete".
Completed(r) == rc[r] = 0 /\ answer[r] # Unanswered

\* "Re-running quickstart skips work that is already done": a key that is
\* there is replaced only by a run that overlapped the very run which had
\* generated it; never the operator's own, nor that of a run which was over
\* when the other began, whatever failed or crashed before.
KeysKept ==
    [][\A p \in Paths : keys[p] # NoKey /\ keys'[p] # keys[p] =>
          keys'[p] \in Runs /\ keys[p] \in met[keys'[p]]]_vars

\* A config.json the operator has edited survives every later run, also one
\* that repairs what a crashed run left undone.
OperatorConfigKept == [][config = "operator" => config' = "operator"]_vars

Overlapped == \E r \in Runs : met[r] # {}

\* "Setup complete" stays true: from then on there is a config.json and the key
\* of the answered path, however the runs overlapped; and as long as none did,
\* the descriptor declares the answered token key, whatever later runs were
\* asked to import, refused or left half done (only a flush that failed unseen
\* can leave it torn).
SetupStays ==
    \A r \in Runs : Completed(r) =>
        /\ config # "absent"
        /\ answer[r].backend = "file" => keys[answer[r].path] # NoKey
        /\ answer[r].backend = "hsm" /\ ~Overlapped =>
              \/ desc.kind = "object" /\ SameDeclaration(HsmArgs(answer[r]), desc)
              \/ FlushMayFail /\ desc = Torn

\* A config.json that is truncated and not written was truncated by a run that
\* is still writing it, died, or told the operator that it failed: that very
\* run, however many others overlapped it or came later.
TornConfigHasCulprit ==
    config \in Runs => pc[config] \in {"write", "flush", "crashed"} \/ rc[config] = 1

-----------------------------------------------------------------------------
(* What the documentation and comments say of the program.                  *)

\* "A usable runtime in three idempotent steps", config.json written "with
\* sane defaults": after "Setup complete" it is not an empty file.
CompletedConfigWhole == \A r \in Runs : Completed(r) => config \notin Runs \cup {"lost"}
=============================================================================
