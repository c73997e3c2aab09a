----------------------------- MODULE ManifestGen -----------------------------
(***************************************************************************)
(* `goodnetd manifest gen <so>... > plugins.json` and `goodnetd plugin hash  *)
(* <so>` while plugins are being installed, and a `goodnetd run` that boots  *)
(* with whatever the manifest and the plugin files hold when it reads them.  *)
(*                                                                         *)
(* A file is a sequence of 64 KiB chunks, each of them full; a digest is     *)
(* what was digested: SHA-256 is taken to be injective.  The shell's         *)
(* redirection and the kernel's integrity gate are external.  gen does not   *)
(* escape paths: one with a quote or a stray backslash makes the manifest    *)
(* unparseable; one that holds a valid escape is not among the paths here.   *)
(***************************************************************************)
EXTENDS Integers, Sequences

CONSTANTS None,         \* no such file
          Plugins,      \* paths of plugin files
          Builds,       \* the builds that may be installed
          Chunks,       \* chunks of a build
          Calls,        \* argument lists of manifest gen and plugin hash
          Unescaped,    \* paths no JSON string can hold as they stand
          MaxInstalls   \* bound: installations and removals

ASSUME ManifestAssumption ==
    /\ None \notin Seq(Builds) \cup Plugins
    /\ Chunks \in Nat \ {0}
    /\ Calls \subseteq Seq(Plugins)
    /\ Unescaped \subseteq Plugins
    /\ MaxInstalls \in Nat

Digests == Seq(Builds)

File(b) == [i \in 1..Chunks |-> b]

WholeFiles == {File(b) : b \in Builds}

NotJson == [kind |-> "notJson"]  \* nothing, part of a manifest, or garbled

ManifestOf(entries) == [kind |-> "list", entries |-> entries]

VARIABLES so,        \* the content of each plugin file
          copying,   \* the installation that overwrites a file in place
          installs,  \* installations and removals so far
          tool,      \* the running command
          pc, argv, rc,
          out,       \* entries: path and digest of the arguments hashed so far
          acc,       \* what crypto_hash_sha256_update was given of this file
          old,       \* the file the stream reads, once the path names another
          manifest,
          boot,      \* where run is
          trust,     \* the entries it took from the manifest
          loaded,    \* how many of them it has loaded
          mixed,     \* files that were overwritten while a stream read them
          clean,     \* gen ran to its end and nothing was installed since it began
          bootClean  \* run read that manifest, nothing was installed since

files   == <<so, copying, installs>>
program == <<tool, pc, argv, rc, out, acc, old, manifest>>
daemon  == <<boot, trust, loaded, bootClean>>
vars    == <<so, copying, installs, tool, pc, argv, rc, out, acc, old, manifest,
             boot, trust, loaded, mixed, clean, bootClean>>

NoCopy == [path |-> None]

Init ==
    /\ so \in [Plugins -> WholeFiles \cup {None}]
    /\ copying = NoCopy /\ installs = 0
    /\ tool = "gen" /\ pc = "idle" /\ argv = <<>> /\ rc = -1
    /\ out = <<>> /\ acc = <<>> /\ old = None
    /\ manifest = NotJson
    /\ boot = "idle" /\ trust = <<>> /\ loaded = 0
    /\ mixed = {} /\ clean = FALSE /\ bootClean = FALSE

-----------------------------------------------------------------------------
(* manifest gen and plugin hash.                                            *)

Exit(code) == pc' = "idle" /\ rc' = code

\* Mutant of Admits: manifest gen runs without arguments too.
AdmitsAny(t, a) == t = "gen" \/ Len(a) = 1

Admits(t, a) == IF t = "gen" THEN a # <<>> ELSE Len(a) = 1

\* The shell empties the manifest before manifest gen looks at its arguments.
Begin(t, a) ==
    /\ pc = "idle"
    /\ tool' = t /\ argv' = a
    /\ IF Admits(t, a) THEN pc' = "open" /\ rc' = -1 ELSE Exit(2)
    /\ out' = <<>>
    /\ IF t = "gen" THEN manifest' = NotJson /\ clean' = Admits(t, a)
                    ELSE UNCHANGED <<manifest, clean>>
    /\ UNCHANGED <<files, acc, old, daemon, mixed>>

Current == argv[Len(out) + 1]

\* Mutant of Open: crypto_hash_sha256_init is called once for all files.
OpenWithoutInit ==
    /\ pc = "open" /\ so[Current] # None
    /\ pc' = "read" /\ old' = None
    /\ mixed' = IF copying.path = Current THEN mixed \cup {Current} ELSE mixed
    /\ UNCHANGED <<files, tool, argv, rc, out, acc, manifest, daemon, clean>>

Open ==
    /\ pc = "open" /\ so[Current] # None
    /\ pc' = "read" /\ acc' = <<>> /\ old' = None
    /\ mixed' = IF copying.path = Current THEN mixed \cup {Current} ELSE mixed
    /\ UNCHANGED <<files, tool, argv, rc, out, manifest, daemon, clean>>

\* Mutant of Stream: the path is opened anew for every chunk.
StreamByPath == IF so[Current] = None THEN <<>> ELSE so[Current]

\* A rename or removal leaves the open stream its file; an overwrite does not.
Stream == IF old = None THEN so[Current] ELSE old

ReadChunk ==
    /\ pc = "read" /\ Len(acc) < Len(Stream)
    /\ acc' = Append(acc, Stream[Len(acc) + 1])
    /\ UNCHANGED <<files, tool, pc, argv, rc, out, old, manifest, daemon, mixed, clean>>

FinishFile ==
    /\ pc = "read" /\ Len(acc) >= Len(Stream)
    /\ out' = Append(out, [path |-> Current, sha256 |-> acc])
    /\ pc' = IF Len(out') = Len(argv) THEN "emit" ELSE "open"
    /\ old' = None
    /\ UNCHANGED <<files, tool, argv, rc, acc, manifest, daemon, mixed, clean>>

\* Mutant of Fail: the argument is skipped.
FailSkipping ==
    /\ \/ pc = "open" /\ so[Current] = None
       \/ pc = "read"
    /\ argv' = [i \in 1..(Len(argv) - 1) |->
                   IF i > Len(out) THEN argv[i + 1] ELSE argv[i]]
    /\ pc' = IF Len(out) = Len(argv') THEN "emit" ELSE "open"
    /\ old' = None /\ clean' = (clean /\ tool # "gen")
    /\ UNCHANGED <<files, tool, rc, out, acc, manifest, daemon, mixed>>

\* "Failed to read file": it cannot be opened, or a read failed.  Nothing has
\* been printed.
Fail ==
    /\ \/ pc = "open" /\ so[Current] = None
       \/ pc = "read"
    /\ Exit(1)
    /\ old' = None /\ clean' = (clean /\ tool # "gen")
    /\ UNCHANGED <<files, tool, argv, out, acc, manifest, daemon, mixed>>

\* The result of fputs and of the flush at exit is not looked at: where the
\* write failed, part of a manifest stays behind an exit code of 0.
Emit ==
    /\ pc = "emit" /\ Exit(0)
    /\ IF tool = "gen"
       THEN /\ manifest' \in {NotJson, IF \E i \in 1..Len(argv) : argv[i] \in Unescaped
                                       THEN NotJson ELSE ManifestOf(out)}
            /\ clean' = (clean /\ manifest' # NotJson)
       ELSE UNCHANGED <<manifest, clean>>
    /\ UNCHANGED <<files, tool, argv, out, acc, old, daemon, mixed>>

-----------------------------------------------------------------------------
(* run: the manifest is read and parsed once, then the integrity gate hashes *)
(* each listed plugin when it is its turn to be loaded.                      *)

tools == <<files, program, mixed, clean>>

StartRun ==
    /\ boot \in {"idle", "refused", "serving"}
    /\ IF manifest.kind = "list"
       THEN boot' = "loading" /\ trust' = manifest.entries
       ELSE boot' = "refused" /\ trust' = <<>>
    /\ loaded' = 0
    /\ bootClean' = (clean /\ pc = "idle")
    /\ UNCHANGED tools

Genuine(entry) == so[entry.path] = entry.sha256

LoadPlugin ==
    /\ boot = "loading" /\ loaded < Len(trust)
    /\ Genuine(trust[loaded + 1])
    /\ loaded' = loaded + 1
    /\ UNCHANGED <<boot, trust, bootClean, tools>>

RefusePlugin ==
    /\ boot = "loading" /\ loaded < Len(trust)
    /\ ~Genuine(trust[loaded + 1])
    /\ boot' = "refused" /\ loaded' = 0
    /\ UNCHANGED <<trust, bootClean, tools>>

Serve ==
    /\ boot = "loading" /\ loaded = Len(trust)
    /\ boot' = "serving"
    /\ UNCHANGED <<trust, loaded, bootClean, tools>>

-----------------------------------------------------------------------------
(* The installer, one file at a time.                                       *)

Reading(p) == pc = "read" /\ Current = p /\ old = None

Touch ==
    /\ clean' = FALSE /\ bootClean' = FALSE
    /\ UNCHANGED <<tool, pc, argv, rc, out, acc, manifest, boot, trust, loaded>>

\* A new file is renamed over the path, or the path is removed.
Replace(p, f) ==
    /\ installs < MaxInstalls /\ copying = NoCopy
    /\ so' = [so EXCEPT ![p] = f] /\ installs' = installs + 1
    /\ old' = IF Reading(p) THEN so[p] ELSE old
    /\ Touch /\ UNCHANGED <<copying, mixed>>

\* cp over the file: truncated first, written chunk by chunk.
BeginCopy(p, b) ==
    /\ installs < MaxInstalls /\ copying = NoCopy /\ so[p] # None
    /\ so' = [so EXCEPT ![p] = <<>>] /\ installs' = installs + 1
    /\ copying' = [path |-> p, build |-> b]
    /\ mixed' = IF Reading(p) THEN mixed \cup {p} ELSE mixed
    /\ Touch /\ UNCHANGED old

Copy ==
    /\ copying # NoCopy
    /\ LET p == copying.path IN
       /\ so' = [so EXCEPT ![p] = Append(so[p], copying.build)]
       /\ copying' = IF Len(so[p]) + 1 = Chunks THEN NoCopy ELSE copying
       /\ mixed' = IF Reading(p) THEN mixed \cup {p} ELSE mixed
    /\ Touch /\ UNCHANGED <<installs, old>>

Next == \/ \E t \in {"gen", "hash"}, a \in Calls : Begin(t, a)
        \/ Open \/ ReadChunk \/ FinishFile \/ Fail \/ Emit
        \/ StartRun \/ LoadPlugin \/ RefusePlugin \/ Serve
        \/ \E p \in Plugins, f \in WholeFiles \cup {None} : Replace(p, f)
        \/ \E p \in Plugins, b \in Builds : BeginCopy(p, b)
        \/ Copy

Spec == Init /\ [][Next]_vars

-----------------------------------------------------------------------------
(* Properties.                                                              *)

Entries == [path : Plugins, sha256 : Digests]

\* The variables keep their types, and the tool is never past its arguments.
TypeOK ==
    /\ so \in [Plugins -> Digests \cup {None}]
    /\ copying \in {NoCopy} \cup [path : Plugins, build : Builds]
    /\ copying # NoCopy => so[copying.path] \in Digests
    /\ installs \in 0..MaxInstalls
    /\ tool \in {"gen", "hash"} /\ pc \in {"idle", "open", "read", "emit"}
    /\ argv \in Seq(Plugins)
    /\ rc \in {-1, 0, 1, 2}
    /\ out \in Seq(Entries) /\ (pc \in {"open", "read"} => Len(out) < Len(argv))
    /\ acc \in Digests
    /\ old \in Digests \cup {None}
    /\ pc = "read" => Stream \in Digests
    /\ manifest # NotJson => /\ manifest = ManifestOf(manifest.entries)
                             /\ manifest.entries \in Seq(Entries)
    /\ boot \in {"idle", "loading", "serving", "refused"}
    /\ trust \in Seq(Entries)
    /\ loaded \in 0..Len(trust)
    /\ mixed \subseteq Plugins
    /\ clean \in BOOLEAN /\ bootClean \in BOOLEAN

\* sha256_file reads chunk by chunk while plugins are replaced under it.  A
\* digest run trusts is one of a whole build, never of a mixture of two or of
\* a part, unless the file was overwritten in place while it was read.
MixtureHasCulprit ==
    \A i \in 1..Len(trust) :
        trust[i].sha256 \in WholeFiles \/ trust[i].path \in mixed

\* "A partial failure does not leave half a manifest that the operator's
\* redirect captures as a valid file": a daemon serves with all the plugins of
\* one call, whichever of them could not be read at the time.
ServesWholeCall ==
    boot = "serving" => loaded = Len(trust) /\ [i \in 1..loaded |-> trust[i].path] \in Calls

\* "A manifest emitted here verifies cleanly at load time": run refuses only
\* if gen failed or had not ended, a write or the path of an argument spoilt
\* the manifest, or a plugin was installed in between.
VerifiesCleanly == boot = "refused" => ~bootClean
=============================================================================
