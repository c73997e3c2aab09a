-------------------------- MODULE ManifestGenProofs --------------------------
(***************************************************************************)
(* Theorems about ManifestGen for every set of plugins, builds and calls,   *)
(* every size of a file and any number of installations: the types, that a  *)
(* trusted mixture has a culprit, that a daemon serves all the plugins of   *)
(* one call, and that run refuses no manifest that nothing came in between. *)
(***************************************************************************)
EXTENDS ManifestGen, SequenceTheorems, TLAPS

-----------------------------------------------------------------------------
(* The inductive invariants.                                                *)

\* What was digested so far is the beginning of what the stream reads.
Following == /\ Len(acc) <= Len(Stream)
             /\ \A i \in 1..Len(acc) : acc[i] = Stream[i]

Copying(p) == copying # NoCopy /\ copying.path = p

\* Only the file an installation overwrites in place is not a whole build.
OnlyCopiesPartial == \A p \in Plugins : so[p] \in WholeFiles \cup {None} \/ Copying(p)

\* An unfinished copy is shorter than a build and holds nothing else.
CopyProgress ==
    copying # NoCopy => LET s == so[copying.path] IN
        Len(s) < Chunks /\ \A i \in 1..Len(s) : s[i] = copying.build

\* A file that was not overwritten while it is read is read as it is.
ReadsWhole ==
    pc = "read" =>
        \/ Current \in mixed
        \/ Following /\ Stream \in WholeFiles /\ (old = None => ~Copying(Current))

Trusted(e) == e.sha256 \in WholeFiles \/ e.path \in mixed

AllTrusted(s) == \A i \in 1..Len(s) : Trusted(s[i])

MixtureInv == /\ OnlyCopiesPartial /\ CopyProgress
              /\ ReadsWhole
              /\ AllTrusted(out) /\ AllTrusted(trust)
              /\ manifest # NotJson => AllTrusted(manifest.entries)

AllGenuine(s) == \A i \in 1..Len(s) : Genuine(s[i])

Generating == tool = "gen" /\ pc # "idle"

\* As long as nothing is installed, what gen has hashed is what is there.
CleanInv ==
    /\ clean /\ Generating =>
          AllGenuine(out) /\ (pc = "read" => old = None /\ Following)
    /\ clean /\ ~Generating => manifest # NotJson /\ AllGenuine(manifest.entries)
    /\ bootClean => boot # "refused" /\ AllGenuine(trust)

PathsOf(s) == [i \in 1..Len(s) |-> s[i].path]

\* No argument is left out on the way from the call to the loader.
CallInv ==
    /\ pc # "idle" => /\ argv \in Calls /\ Len(out) <= Len(argv)
                      /\ \A i \in 1..Len(out) : out[i].path = argv[i]
    /\ pc = "emit" => Len(out) = Len(argv)
    /\ manifest # NotJson => PathsOf(manifest.entries) \in Calls
    /\ boot \in {"loading", "serving"} => PathsOf(trust) \in Calls
    /\ boot = "serving" => loaded = Len(trust)

-----------------------------------------------------------------------------
(* Types.                                                                   *)

LEMMA WholeFilesAreDigests == WholeFiles \subseteq Digests /\ None \notin Digests
BY ManifestAssumption DEF WholeFiles, File, Digests

LEMMA NotJsonIsNoList == \A s : ManifestOf(s) # NotJson /\ ManifestOf(s).entries = s
<1>1. \A s : ManifestOf(s).kind = "list" /\ NotJson.kind = "notJson"
  BY DEF ManifestOf, NotJson
<1> QED
  BY <1>1 DEF ManifestOf

LEMMA CurrentIsPlugin ==
  ASSUME TypeOK, pc \in {"open", "read"}
  PROVE  Current \in Plugins
BY DEF TypeOK, Current

LEMMA EmptyTyped ==
  <<>> \in Seq(Plugins) /\ <<>> \in Seq(Entries) /\ <<>> \in Digests /\ Len(<<>>) = 0
BY EmptySeq DEF Digests

LEMMA TypeInit == Init => TypeOK
<1> SUFFICES ASSUME Init PROVE TypeOK
  OBVIOUS
<1>1. so \in [Plugins -> Digests \cup {None}]
  BY WholeFilesAreDigests DEF Init
<1>2. /\ copying = NoCopy /\ installs \in 0..MaxInstalls /\ argv \in Seq(Plugins)
      /\ out \in Seq(Entries) /\ acc \in Digests /\ trust \in Seq(Entries)
      /\ loaded \in 0..Len(trust)
  BY EmptyTyped, ManifestAssumption DEF Init
<1> QED
  BY <1>1, <1>2 DEF Init, TypeOK

\* The command keeps the types.
LEMMA ToolKeepsTypes ==
  ASSUME TypeOK,
         \/ \E t \in {"gen", "hash"}, a \in Calls : Begin(t, a)
         \/ Open \/ ReadChunk \/ FinishFile \/ Fail \/ Emit
  PROVE  TypeOK'
<1> USE ManifestAssumption
<1>1. ASSUME NEW t \in {"gen", "hash"}, NEW a \in Calls, Begin(t, a) PROVE TypeOK'
  <2>1. a \in Seq(Plugins)
    OBVIOUS
  <2>2. Admits(t, a) => 0 < Len(a)
    BY <2>1, EmptySeq, SMTT(30) DEF Admits
  <2>3. Admits(t, a) \in BOOLEAN
    BY DEF Admits
  <2>4. clean' \in BOOLEAN /\ manifest' \in {manifest, NotJson}
    BY <1>1, <2>3 DEF Begin, TypeOK
  <2>5. pc' \in {"idle", "open"} /\ rc' \in {-1, 2} /\ (pc' = "open" => 0 < Len(a))
    BY <1>1, <2>2 DEF Begin, Exit
  <2>6. out' = <<>> /\ out' \in Seq(Entries) /\ Len(out') = 0
    BY <1>1, EmptyTyped DEF Begin
  <2> QED
    BY <1>1, <2>1, <2>4, <2>5, <2>6 DEF Begin, TypeOK, files, daemon
<1>2. CASE Open
  <2>1. Stream' \in Digests
    BY <1>2, CurrentIsPlugin DEF Open, TypeOK, Stream, Current, files
  <2>2. mixed' \subseteq Plugins
    BY <1>2, CurrentIsPlugin DEF Open, TypeOK
  <2> QED
    BY <1>2, <2>1, <2>2 DEF Open, TypeOK, files, daemon, Digests
<1>3. CASE ReadChunk
  <2>1. Stream[Len(acc) + 1] \in Builds
    BY <1>3 DEF ReadChunk, TypeOK, Digests
  <2>2. acc' \in Digests /\ Stream' = Stream
    BY <1>3, <2>1 DEF ReadChunk, TypeOK, Digests, Stream, Current, files
  <2> QED
    BY <1>3, <2>2 DEF ReadChunk, TypeOK, files, daemon
<1>4. CASE FinishFile
  <2>1. [path |-> Current, sha256 |-> acc] \in Entries
    BY <1>4, CurrentIsPlugin DEF FinishFile, TypeOK, Entries
  <2>2. out' \in Seq(Entries) /\ Len(out') = Len(out) + 1
    BY <1>4, <2>1 DEF FinishFile, TypeOK
  <2> QED
    BY <1>4, <2>2 DEF FinishFile, TypeOK, files, daemon
<1>5. CASE Fail
  BY <1>5 DEF Fail, Exit, TypeOK, files, daemon
<1>6. CASE Emit
  <2>1. manifest' \in {manifest, NotJson, ManifestOf(out)}
    BY <1>6 DEF Emit
  <2>2. manifest' # NotJson => /\ manifest' = ManifestOf(manifest'.entries)
                               /\ manifest'.entries \in Seq(Entries)
    BY <2>1, NotJsonIsNoList DEF TypeOK
  <2> QED
    BY <1>6, <2>2 DEF Emit, Exit, TypeOK, files, daemon
<1> QED
  BY <1>1, <1>2, <1>3, <1>4, <1>5, <1>6

\* The daemon keeps the types.
LEMMA DaemonKeepsTypes ==
  ASSUME TypeOK, StartRun \/ LoadPlugin \/ RefusePlugin \/ Serve
  PROVE  TypeOK'
<1>1. UNCHANGED tools /\ Stream' = Stream
  BY DEF StartRun, LoadPlugin, RefusePlugin, Serve, tools, program, files, Stream, Current
<1>2. CASE StartRun
  <2>1. manifest.kind = "list" => manifest.entries \in Seq(Entries)
    BY DEF TypeOK, NotJson
  <2>2. trust' \in Seq(Entries) /\ Len(trust') \in Nat
    BY <1>2, <2>1, EmptyTyped, LenProperties DEF StartRun
  <2>3. bootClean' \in BOOLEAN
    BY <1>2 DEF StartRun
  <2> QED
    BY <1>1, <1>2, <2>2, <2>3 DEF StartRun, TypeOK, tools, program, files
<1>3. CASE LoadPlugin \/ RefusePlugin \/ Serve
  BY <1>1, <1>3 DEF LoadPlugin, RefusePlugin, Serve, TypeOK, tools, program, files
<1> QED
  BY <1>2, <1>3

\* The installer keeps the types.
LEMMA InstallerKeepsTypes ==
  ASSUME TypeOK,
         \/ \E p \in Plugins, f \in WholeFiles \cup {None} : Replace(p, f)
         \/ \E p \in Plugins, b \in Builds : BeginCopy(p, b)
         \/ Copy
  PROVE  TypeOK'
<1> USE ManifestAssumption, WholeFilesAreDigests
<1>1. ASSUME NEW p \in Plugins, NEW f \in WholeFiles \cup {None}, Replace(p, f)
      PROVE  TypeOK'
  <2>1. so' \in [Plugins -> Digests \cup {None}] /\ installs' \in 0..MaxInstalls
    BY <1>1 DEF Replace, TypeOK
  <2>2. old' \in Digests \cup {None}
    BY <1>1 DEF Replace, TypeOK
  <2>3. pc = "read" => Stream' \in Digests
    BY <1>1, CurrentIsPlugin DEF Replace, Touch, TypeOK, Stream, Current, Reading
  <2> QED
    BY <1>1, <2>1, <2>2, <2>3 DEF Replace, Touch, TypeOK
<1>2. ASSUME NEW p \in Plugins, NEW b \in Builds, BeginCopy(p, b) PROVE TypeOK'
  <2>1. <<>> \in Digests
    BY DEF Digests
  <2>2. /\ so' \in [Plugins -> Digests \cup {None}] /\ installs' \in 0..MaxInstalls
        /\ so'[p] \in Digests
    BY <1>2, <2>1 DEF BeginCopy, TypeOK
  <2>3. pc = "read" => Stream' \in Digests
    BY <1>2, <2>1, CurrentIsPlugin DEF BeginCopy, Touch, TypeOK, Stream, Current
  <2>4. copying' \in [path : Plugins, build : Builds] /\ copying'.path = p
    BY <1>2 DEF BeginCopy
  <2> QED
    BY <1>2, <2>2, <2>3, <2>4, ZenonT(60) DEF BeginCopy, Touch, TypeOK
<1>3. CASE Copy
  <2> DEFINE p == copying.path
  <2>1. p \in Plugins /\ so[p] \in Digests /\ copying.build \in Builds
    BY <1>3 DEF Copy, TypeOK
  <2>2. Append(so[p], copying.build) \in Digests
    BY <2>1 DEF Digests
  <2>3. /\ so' = [so EXCEPT ![p] = Append(so[p], copying.build)]
        /\ copying' \in {copying, NoCopy} /\ mixed' \in {mixed, mixed \cup {p}}
    BY <1>3 DEF Copy
  <2> HIDE DEF p
  <2>4. so' \in [Plugins -> Digests \cup {None}] /\ so'[p] \in Digests
    BY <2>1, <2>2, <2>3 DEF TypeOK
  <2>5. pc = "read" => Stream' \in Digests
    BY <1>3, <2>1, <2>2, <2>3, CurrentIsPlugin DEF Copy, Touch, TypeOK, Stream, Current
  <2>6. copying' # NoCopy => so'[copying'.path] \in Digests
    BY <2>3, <2>4 DEF p
  <2>7. UNCHANGED <<installs, old>> /\ Touch
    BY <1>3 DEF Copy
  <2>8. copying' \in {NoCopy} \cup [path : Plugins, build : Builds]
    BY <2>3 DEF TypeOK
  <2>9. mixed' \subseteq Plugins
    BY <2>1, <2>3 DEF TypeOK
  <2> QED
    BY <2>4, <2>5, <2>6, <2>7, <2>8, <2>9, ZenonT(60) DEF Touch, TypeOK
<1> QED
  BY <1>1, <1>2, <1>3

LEMMA TypeStep == TypeOK /\ [Next]_vars => TypeOK'
<1> SUFFICES ASSUME TypeOK, [Next]_vars PROVE TypeOK'
  OBVIOUS
<1>1. CASE UNCHANGED vars
  BY <1>1 DEF vars, TypeOK, Stream, Current
<1>2. CASE Next
  BY <1>2, ToolKeepsTypes, DaemonKeepsTypes, InstallerKeepsTypes DEF Next
<1> QED
  BY <1>1, <1>2

\* The variables keep their types, and the tool is never past its arguments,
\* whatever is installed meanwhile.
THEOREM TypeCorrect == Spec => []TypeOK
BY TypeInit, TypeStep, PTL DEF Spec

-----------------------------------------------------------------------------
(* No mixture without a culprit.                                            *)

\* A stream that was followed to its end has been read as it is.
LEMMA ReadToTheEnd ==
  ASSUME TypeOK, pc = "read", Following, Len(acc) >= Len(Stream)
  PROVE  acc = Stream
<1>1. acc \in Seq(Builds) /\ Stream \in Seq(Builds)
  BY DEF TypeOK, Digests
<1>2. Len(acc) \in Nat /\ Len(Stream) \in Nat
  BY <1>1, LenProperties
<1>3. Len(acc) = Len(Stream)
  BY <1>2 DEF Following
<1> QED
  BY <1>1, <1>3, SeqEqual DEF Following

\* The next chunk continues what was digested.
LEMMA ChunkFollows ==
  ASSUME TypeOK, ReadChunk, Following
  PROVE  Following'
<1>1. Stream' = Stream /\ acc' = Append(acc, Stream[Len(acc) + 1])
  BY DEF ReadChunk, Stream, Current, files
<1>2. acc \in Seq(Builds) /\ Len(acc) \in Nat /\ Stream \in Seq(Builds)
      /\ Len(acc) < Len(Stream) /\ Len(Stream) \in Nat
  BY LenProperties DEF TypeOK, Digests, ReadChunk
<1>3. Stream[Len(acc) + 1] \in Builds
  BY <1>2
<1>4. /\ Len(acc') = Len(acc) + 1
      /\ \A i \in 1..Len(acc) : acc'[i] = acc[i]
      /\ acc'[Len(acc) + 1] = Stream[Len(acc) + 1]
  BY <1>1, <1>2, <1>3, AppendProperties
<1> QED
  BY <1>1, <1>2, <1>4 DEF Following

\* Opening a file, nothing has been digested.
LEMMA OpenFollows ==
  ASSUME TypeOK, Open
  PROVE  Following'
<1>1. Stream' \in Digests
  BY CurrentIsPlugin DEF Open, TypeOK, Stream, Current, files
<1>2. acc' = <<>> /\ Len(Stream') \in Nat /\ Len(<<>>) = 0
  BY <1>1, EmptyTyped, LenProperties DEF Open, Digests
<1> QED
  BY <1>2 DEF Following

LEMMA MixtureInit == Init => TypeOK /\ MixtureInv
<1> SUFFICES ASSUME Init PROVE MixtureInv
  BY TypeInit
<1> QED
  BY EmptyTyped DEF Init, MixtureInv, OnlyCopiesPartial, CopyProgress, ReadsWhole, AllTrusted

\* The command: what it appends is a whole build, or was overwritten.
LEMMA ToolKeepsMixtureInv ==
  ASSUME TypeOK, TypeOK', MixtureInv,
         \/ \E t \in {"gen", "hash"}, a \in Calls : Begin(t, a)
         \/ Open \/ ReadChunk \/ FinishFile \/ Fail \/ Emit
  PROVE  MixtureInv'
<1>1. UNCHANGED <<so, copying, trust>> /\ mixed \subseteq mixed'
  BY DEF Begin, Open, ReadChunk, FinishFile, Fail, Emit, files, daemon
<1>2. OnlyCopiesPartial' /\ CopyProgress'
  BY <1>1 DEF MixtureInv, OnlyCopiesPartial, CopyProgress, Copying
<1>3. AllTrusted(trust)'
  BY <1>1 DEF MixtureInv, AllTrusted, Trusted
<1>4. ReadsWhole'
  <2>1. CASE Open
    <3>1. Current' = Current /\ Current \in Plugins /\ Stream' = so[Current]
          /\ old' = None /\ so[Current] # None
      BY <2>1, CurrentIsPlugin DEF Open, Current, Stream, files
    <3>2. CASE Copying(Current)
      BY <2>1, <3>1, <3>2 DEF Open, ReadsWhole, Copying
    <3>3. CASE ~Copying(Current)
      <4>1. so[Current] \in WholeFiles /\ ~Copying(Current)'
        BY <3>1, <3>3, <1>1 DEF MixtureInv, OnlyCopiesPartial, Copying
      <4> QED
        BY <2>1, <3>1, <4>1, OpenFollows DEF ReadsWhole, Copying
    <3> QED
      BY <3>2, <3>3
  <2>2. CASE ReadChunk
    <3>1. /\ pc = "read" /\ Current' = Current /\ Stream' = Stream
          /\ UNCHANGED <<old, mixed, copying>>
      BY <2>2 DEF ReadChunk, Current, Stream, files
    <3> QED
      BY <2>2, <3>1, ChunkFollows DEF MixtureInv, ReadsWhole, Copying
  <2>3. CASE ~Open /\ ~ReadChunk
    BY <2>3 DEF Begin, FinishFile, Fail, Emit, Exit, ReadsWhole
  <2> QED
    BY <2>1, <2>2, <2>3
<1>5. AllTrusted(out)'
  <2>1. CASE FinishFile
    <3>1. acc \in WholeFiles \/ Current \in mixed
      BY <2>1, ReadToTheEnd DEF FinishFile, MixtureInv, ReadsWhole
    <3>2. out' = Append(out, [path |-> Current, sha256 |-> acc])
          /\ [path |-> Current, sha256 |-> acc] \in Entries
      BY <2>1, CurrentIsPlugin DEF FinishFile, TypeOK, Entries
    <3>3. /\ Len(out) \in Nat /\ Len(out') = Len(out) + 1
          /\ \A i \in 1..Len(out) : out'[i] = out[i]
          /\ out'[Len(out) + 1] = [path |-> Current, sha256 |-> acc]
      BY <3>2, AppendProperties, LenProperties DEF TypeOK
    <3> QED
      BY <3>1, <3>3, <1>1 DEF MixtureInv, AllTrusted, Trusted
  <2>2. CASE ~FinishFile
    <3>1. out' = out \/ out' = <<>>
      BY <2>2 DEF Begin, Open, ReadChunk, Fail, Emit
    <3> QED
      BY <3>1, <1>1, EmptyTyped DEF MixtureInv, AllTrusted, Trusted
  <2> QED
    BY <2>1, <2>2
<1>6. (manifest # NotJson => AllTrusted(manifest.entries))'
  <2>1. manifest' \in {manifest, NotJson, ManifestOf(out)}
    BY DEF Begin, Open, ReadChunk, FinishFile, Fail, Emit
  <2> QED
    BY <2>1, <1>1, NotJsonIsNoList DEF MixtureInv, AllTrusted, Trusted
<1> QED
  BY <1>2, <1>3, <1>4, <1>5, <1>6 DEF MixtureInv

\* The daemon takes over what the manifest says.
LEMMA DaemonKeepsMixtureInv ==
  ASSUME TypeOK, MixtureInv, StartRun \/ LoadPlugin \/ RefusePlugin \/ Serve
  PROVE  MixtureInv'
<1>1. UNCHANGED tools
  BY DEF StartRun, LoadPlugin, RefusePlugin, Serve
<1>2. (OnlyCopiesPartial /\ CopyProgress /\ ReadsWhole)' /\ AllTrusted(out)'
      /\ (manifest # NotJson => AllTrusted(manifest.entries))'
  BY <1>1 DEF tools, files, program, MixtureInv, OnlyCopiesPartial, CopyProgress, ReadsWhole, Copying,
     Following, Stream, Current, AllTrusted, Trusted
<1>3. trust' \in {trust, <<>>} \/ (manifest # NotJson /\ trust' = manifest.entries)
  BY DEF StartRun, LoadPlugin, RefusePlugin, Serve, NotJson
<1>4. AllTrusted(trust)'
  BY <1>1, <1>3, EmptyTyped DEF tools, MixtureInv, AllTrusted, Trusted
<1> QED
  BY <1>2, <1>4 DEF MixtureInv

\* The installer: what it overwrites under the reader becomes a culprit.
LEMMA InstallerKeepsMixtureInv ==
  ASSUME TypeOK, MixtureInv,
         \/ \E p \in Plugins, f \in WholeFiles \cup {None} : Replace(p, f)
         \/ \E p \in Plugins, b \in Builds : BeginCopy(p, b)
         \/ Copy
  PROVE  MixtureInv'
<1>1. mixed \subseteq mixed' /\ UNCHANGED <<pc, argv, out, acc, manifest, trust>>
  BY DEF Replace, BeginCopy, Copy, Touch
<1>2. (AllTrusted(out) /\ AllTrusted(trust))'
      /\ (manifest # NotJson => AllTrusted(manifest.entries))'
  BY <1>1 DEF MixtureInv, AllTrusted, Trusted
<1>3. Current' = Current /\ (pc = "read" => Current \in Plugins)
  BY <1>1, CurrentIsPlugin DEF Current
<1>4. ASSUME NEW p \in Plugins, NEW f \in WholeFiles \cup {None}, Replace(p, f)
      PROVE  OnlyCopiesPartial' /\ CopyProgress' /\ ReadsWhole'
  <2>1. /\ so' = [so EXCEPT ![p] = f] /\ copying = NoCopy /\ copying' = copying
        /\ mixed' = mixed
    BY <1>4 DEF Replace
  <2>2. OnlyCopiesPartial' /\ CopyProgress'
    BY <2>1 DEF MixtureInv, OnlyCopiesPartial, CopyProgress, Copying, TypeOK
  <2>3. pc = "read" => Stream' = Stream
    BY <1>4, <1>3, <2>1, WholeFilesAreDigests DEF Replace, Reading, Stream, TypeOK
  <2> QED
    BY <2>1, <2>2, <2>3, <1>1, <1>3 DEF MixtureInv, ReadsWhole, Following, Copying
<1>5. ASSUME NEW p \in Plugins, NEW b \in Builds, BeginCopy(p, b)
      PROVE  OnlyCopiesPartial' /\ CopyProgress' /\ ReadsWhole'
  <2>1. /\ so' = [so EXCEPT ![p] = <<>>] /\ copying = NoCopy /\ old' = old
        /\ copying' = [path |-> p, build |-> b]
        /\ Reading(p) => p \in mixed'
    BY <1>5 DEF BeginCopy
  <2>2. copying' # NoCopy /\ copying'.path = p
    BY <2>1, ManifestAssumption DEF NoCopy
  <2>3. OnlyCopiesPartial'
    BY <2>1, <2>2 DEF MixtureInv, OnlyCopiesPartial, Copying, TypeOK
  <2>4. pc = "read" => (Current = p /\ old = None) \/ Stream' = Stream
    BY <1>3, <2>1 DEF Stream, TypeOK
  <2>5. CopyProgress'
    BY <2>1, <2>2, EmptyTyped, ManifestAssumption DEF CopyProgress, TypeOK
  <2> QED
    BY <2>1, <2>2, <2>3, <2>4, <2>5, <1>1, <1>3
       DEF MixtureInv, ReadsWhole, Following, Copying, Reading
<1>6. CASE Copy
  <2> DEFINE p == copying.path
  <2>1. /\ p \in Plugins /\ so[p] \in Seq(Builds) /\ copying.build \in Builds
        /\ copying # NoCopy /\ old' = old
        /\ so' = [so EXCEPT ![p] = Append(so[p], copying.build)]
        /\ copying' = IF Len(so[p]) + 1 = Chunks THEN NoCopy ELSE copying
        /\ Reading(p) => p \in mixed'
    BY <1>6 DEF Copy, TypeOK, Digests
  <2>2. p = copying.path
    OBVIOUS
  <2> HIDE DEF p
  <2>3. pc = "read" => (Current = p /\ old = None) \/ Stream' = Stream
    BY <1>3, <2>1 DEF Stream, TypeOK
  <2>4. ReadsWhole'
    BY <2>1, <2>2, <2>3, <1>1, <1>3
       DEF MixtureInv, ReadsWhole, Following, Copying, Reading
  <2>5. /\ Len(so'[p]) = Len(so[p]) + 1 /\ Len(so[p]) < Chunks /\ Len(so[p]) \in Nat
        /\ so'[p] \in Seq(Builds)
        /\ \A i \in 1..Len(so'[p]) : so'[p][i] = copying.build
    <3>1. so'[p] = Append(so[p], copying.build)
      BY <2>1 DEF TypeOK
    <3>2. Len(so[p]) < Chunks /\ \A i \in 1..Len(so[p]) : so[p][i] = copying.build
      BY <2>1, <2>2 DEF MixtureInv, CopyProgress
    <3>3. Len(so[p]) \in Nat
      BY <2>1, LenProperties
    <3>4. /\ so'[p] \in Seq(Builds) /\ Len(so'[p]) = Len(so[p]) + 1
          /\ \A i \in 1..Len(so[p]) : so'[p][i] = so[p][i]
          /\ so'[p][Len(so[p]) + 1] = copying.build
      BY <2>1, <3>1, AppendProperties
    <3> QED
      BY <3>2, <3>3, <3>4
  <2>6. CopyProgress'
    BY <2>1, <2>2, <2>5, ManifestAssumption DEF CopyProgress
  <2>7. copying' = NoCopy => so'[p] \in WholeFiles
    <3> SUFFICES ASSUME copying' = NoCopy PROVE so'[p] = File(copying.build)
      BY <2>1 DEF WholeFiles
    <3>1. Len(so'[p]) = Chunks
      BY <2>1, <2>5
    <3> QED
      BY <3>1, <2>5, LenProperties DEF File
  <2>8. OnlyCopiesPartial'
    BY <2>1, <2>2, <2>7 DEF MixtureInv, OnlyCopiesPartial, Copying, TypeOK
  <2> QED
    BY <1>2, <2>4, <2>6, <2>8 DEF MixtureInv
<1> QED
  BY <1>2, <1>4, <1>5, <1>6 DEF MixtureInv

LEMMA MixtureStep == TypeOK /\ MixtureInv /\ [Next]_vars => MixtureInv'
<1> SUFFICES ASSUME TypeOK, MixtureInv, [Next]_vars PROVE MixtureInv'
  OBVIOUS
<1>1. CASE UNCHANGED vars
  BY <1>1 DEF vars, MixtureInv, OnlyCopiesPartial, CopyProgress, ReadsWhole, Copying,
     Following, Stream, Current, AllTrusted, Trusted
<1>2. CASE Next
  BY <1>2, TypeStep, ToolKeepsMixtureInv, DaemonKeepsMixtureInv, InstallerKeepsMixtureInv
     DEF Next
<1> QED
  BY <1>1, <1>2

\* A digest run trusts is the digest of one whole build, or the file was
\* overwritten in place while sha256_file read it.
THEOREM MixturesHaveCulprits == Spec => []MixtureHasCulprit
<1>1. MixtureInv => MixtureHasCulprit
  BY DEF MixtureInv, AllTrusted, Trusted, MixtureHasCulprit
<1> QED
  BY <1>1, MixtureInit, MixtureStep, TypeStep, PTL DEF Spec

-----------------------------------------------------------------------------
(* What gen wrote verifies.                                                 *)

LEMMA CleanInit == Init => CleanInv
BY DEF Init, CleanInv

LEMMA ToolKeepsCleanInv ==
  ASSUME TypeOK, CleanInv,
         \/ \E t \in {"gen", "hash"}, a \in Calls : Begin(t, a)
         \/ Open \/ ReadChunk \/ FinishFile \/ Fail \/ Emit
  PROVE  CleanInv'
<1>1. UNCHANGED <<so, boot, trust, bootClean>>
  BY DEF Begin, Open, ReadChunk, FinishFile, Fail, Emit, files, daemon
<1>2. (bootClean => boot # "refused" /\ AllGenuine(trust))'
  BY <1>1 DEF CleanInv, AllGenuine, Genuine
<1>3. ASSUME NEW t \in {"gen", "hash"}, NEW a \in Calls, Begin(t, a) PROVE CleanInv'
  <2>1. CASE t = "gen" /\ Admits(t, a)
    <3>1. Generating' /\ out' = <<>> /\ pc' = "open"
      BY <1>3, <2>1 DEF Begin, Generating
    <3> QED
      BY <1>2, <3>1, EmptyTyped DEF CleanInv, AllGenuine
  <2>2. CASE t = "gen" /\ ~Admits(t, a)
    <3>1. ~clean'
      BY <1>3, <2>2 DEF Begin
    <3> QED
      BY <1>2, <3>1 DEF CleanInv
  <2>3. CASE t = "hash"
    <3>1. ~Generating /\ ~Generating' /\ UNCHANGED <<manifest, clean>>
      BY <1>3, <2>3 DEF Begin, Generating
    <3> QED
      BY <1>1, <1>2, <3>1 DEF CleanInv, AllGenuine, Genuine
  <2> QED
    BY <2>1, <2>2, <2>3
<1>4. CASE Open
  <2>1. Generating' = Generating /\ UNCHANGED <<manifest, clean, out>> /\ old' = None
    BY <1>4 DEF Open, Generating
  <2> QED
    BY <1>1, <1>2, <1>4, <2>1, OpenFollows DEF CleanInv, AllGenuine, Genuine
<1>5. CASE ReadChunk
  <2>1. /\ Generating' = Generating /\ UNCHANGED <<manifest, clean, out, old>>
        /\ pc = "read"
    BY <1>5 DEF ReadChunk, Generating
  <2> QED
    BY <1>1, <1>2, <1>5, <2>1, ChunkFollows DEF CleanInv, AllGenuine, Genuine
<1>6. CASE FinishFile
  <2>1. /\ Generating' = Generating /\ UNCHANGED <<manifest, clean>> /\ pc = "read"
        /\ pc' # "read"
    BY <1>6 DEF FinishFile, Generating
  <2>2. CASE clean /\ Generating
    <3>1. acc = so[Current]
      BY <1>6, <2>1, <2>2, ReadToTheEnd DEF FinishFile, CleanInv, Stream
    <3>2. out' = Append(out, [path |-> Current, sha256 |-> acc])
          /\ [path |-> Current, sha256 |-> acc] \in Entries
      BY <1>6, CurrentIsPlugin DEF FinishFile, TypeOK, Entries
    <3>3. /\ Len(out) \in Nat /\ Len(out') = Len(out) + 1
          /\ \A i \in 1..Len(out) : out'[i] = out[i]
          /\ out'[Len(out) + 1] = [path |-> Current, sha256 |-> acc]
      BY <3>2, AppendProperties, LenProperties DEF TypeOK
    <3>4. AllGenuine(out)'
      BY <1>1, <2>2, <3>1, <3>3 DEF CleanInv, AllGenuine, Genuine
    <3> QED
      BY <1>2, <2>1, <2>2, <3>4 DEF CleanInv
  <2>3. CASE clean /\ ~Generating
    BY <1>1, <1>2, <2>1, <2>3 DEF CleanInv, AllGenuine, Genuine
  <2>4. CASE ~clean
    BY <1>2, <2>1, <2>4 DEF CleanInv
  <2> QED
    BY <2>2, <2>3, <2>4
<1>7. CASE Fail
  <2>1. pc # "idle" /\ pc' = "idle" /\ UNCHANGED <<tool, manifest>>
        /\ (clean' => clean /\ tool # "gen")
    BY <1>7 DEF Fail, Exit, TypeOK
  <2> QED
    BY <1>1, <1>2, <2>1 DEF CleanInv, Generating, AllGenuine, Genuine
<1>8. CASE Emit
  <2>1. pc = "emit" /\ pc' = "idle" /\ UNCHANGED <<tool, out>>
    BY <1>8 DEF Emit, Exit
  <2>2. CASE tool = "gen"
    <3>1. /\ manifest' \in {NotJson, ManifestOf(out)}
          /\ clean' => clean /\ manifest' # NotJson
      BY <1>8, <2>2 DEF Emit, TypeOK
    <3>2. clean' => manifest'.entries = out /\ AllGenuine(out)
      BY <2>1, <2>2, <3>1, NotJsonIsNoList DEF CleanInv, Generating
    <3> QED
      BY <1>1, <1>2, <2>1, <3>1, <3>2 DEF CleanInv, Generating, AllGenuine, Genuine
  <2>3. CASE tool # "gen"
    <3>1. UNCHANGED <<manifest, clean>>
      BY <1>8, <2>3 DEF Emit
    <3> QED
      BY <1>1, <1>2, <2>1, <2>3, <3>1 DEF CleanInv, Generating, AllGenuine, Genuine
  <2> QED
    BY <2>2, <2>3
<1> QED
  BY <1>3, <1>4, <1>5, <1>6, <1>7, <1>8

LEMMA DaemonKeepsCleanInv ==
  ASSUME TypeOK, CleanInv, StartRun \/ LoadPlugin \/ RefusePlugin \/ Serve
  PROVE  CleanInv'
<1>1. UNCHANGED tools
  BY DEF StartRun, LoadPlugin, RefusePlugin, Serve
<1>2. (clean /\ Generating =>
          AllGenuine(out) /\ (pc = "read" => old = None /\ Following))'
  BY <1>1 DEF tools, files, program, CleanInv, Generating, AllGenuine, Genuine, Following,
     Stream, Current
<1>3. (clean /\ ~Generating => manifest # NotJson /\ AllGenuine(manifest.entries))'
  BY <1>1 DEF tools, files, program, CleanInv, Generating, AllGenuine, Genuine
<1>4. (bootClean => boot # "refused" /\ AllGenuine(trust))'
  <2>1. CASE StartRun
    <3> SUFFICES ASSUME bootClean' PROVE boot' # "refused" /\ AllGenuine(trust)'
      OBVIOUS
    <3>1. clean /\ ~Generating
      BY <2>1 DEF StartRun, TypeOK, Generating
    <3>2. manifest # NotJson /\ AllGenuine(manifest.entries)
      BY <3>1 DEF CleanInv
    <3>3. manifest.kind = "list"
      BY <3>2 DEF TypeOK, ManifestOf
    <3> QED
      BY <1>1, <2>1, <3>2, <3>3 DEF StartRun, tools, files, AllGenuine, Genuine
  <2>2. CASE RefusePlugin
    <3>1. ~AllGenuine(trust)
      <4>1. Len(trust) \in Nat /\ loaded \in Nat
        BY LenProperties DEF TypeOK
      <4> QED
        BY <2>2, <4>1 DEF RefusePlugin, AllGenuine
    <3> QED
      BY <2>2, <3>1 DEF RefusePlugin, CleanInv
  <2>3. CASE LoadPlugin \/ Serve
    BY <1>1, <2>3 DEF LoadPlugin, Serve, tools, files, CleanInv, AllGenuine, Genuine
  <2> QED
    BY <2>1, <2>2, <2>3
<1> QED
  BY <1>2, <1>3, <1>4 DEF CleanInv

LEMMA CleanStep == TypeOK /\ CleanInv /\ [Next]_vars => CleanInv'
<1> SUFFICES ASSUME TypeOK, CleanInv, [Next]_vars PROVE CleanInv'
  OBVIOUS
<1>1. CASE UNCHANGED vars
  BY <1>1 DEF vars, CleanInv, Generating, AllGenuine, Genuine, Following, Stream, Current
<1>2. CASE (\E p \in Plugins, f \in WholeFiles \cup {None} : Replace(p, f))
           \/ (\E p \in Plugins, b \in Builds : BeginCopy(p, b)) \/ Copy
  <2>1. ~clean' /\ ~bootClean'
    BY <1>2 DEF Replace, BeginCopy, Copy, Touch
  <2> QED
    BY <2>1 DEF CleanInv
<1> QED
  BY <1>1, <1>2, ToolKeepsCleanInv, DaemonKeepsCleanInv DEF Next

\* "A manifest emitted here verifies cleanly at load time", for every build,
\* call and number of installations, under the conditions of VerifiesCleanly.
THEOREM EmittedVerifies == Spec => []VerifiesCleanly
<1>1. CleanInv => VerifiesCleanly
  BY DEF CleanInv, VerifiesCleanly
<1> QED
  BY <1>1, TypeInit, CleanInit, TypeStep, CleanStep, PTL DEF Spec

-----------------------------------------------------------------------------
(* All the plugins of one call.                                             *)

LEMMA CallInit == Init => CallInv
BY DEF Init, CallInv

\* The command hashes its arguments one after the other and leaves none out.
LEMMA ToolKeepsCallInv ==
  ASSUME TypeOK, CallInv,
         \/ \E t \in {"gen", "hash"}, a \in Calls : Begin(t, a)
         \/ Open \/ ReadChunk \/ FinishFile \/ Fail \/ Emit
  PROVE  CallInv'
<1>1. UNCHANGED <<boot, trust, loaded>>
  BY DEF Begin, Open, ReadChunk, FinishFile, Fail, Emit, daemon
<1>2. CASE \E t \in {"gen", "hash"}, a \in Calls : Begin(t, a)
  <2>1. PICK t \in {"gen", "hash"}, a \in Calls : Begin(t, a)
    BY <1>2
  <2>2. /\ argv' = a /\ out' = <<>> /\ pc' \in {"idle", "open"}
        /\ manifest' \in {NotJson, manifest}
    BY <2>1 DEF Begin, Exit
  <2>3. Len(a) \in Nat
    BY ManifestAssumption, LenProperties
  <2>4. Len(out') <= Len(argv') /\ \A i \in 1..Len(out') : out'[i].path = argv'[i]
    BY <2>2, <2>3, EmptyTyped
  <2>5. manifest' # NotJson => PathsOf(manifest.entries)' \in Calls
    BY <2>2 DEF CallInv, PathsOf
  <2>6. /\ boot' \in {"loading", "serving"} => PathsOf(trust)' \in Calls
        /\ boot' = "serving" => loaded' = Len(trust')
    BY <1>1 DEF CallInv, PathsOf
  <2> QED
    BY <2>2, <2>4, <2>5, <2>6 DEF CallInv
<1>3. CASE Open \/ ReadChunk \/ Fail
  <2>1. UNCHANGED <<argv, out, manifest>> /\ pc # "idle" /\ pc' # "emit"
    BY <1>3 DEF Open, ReadChunk, Fail, Exit
  <2> QED
    BY <1>1, <2>1 DEF CallInv, PathsOf
<1>4. CASE FinishFile
  <2>1. out' = Append(out, [path |-> Current, sha256 |-> acc])
        /\ [path |-> Current, sha256 |-> acc] \in Entries
    BY <1>4, CurrentIsPlugin DEF FinishFile, TypeOK, Entries
  <2>2. /\ Len(out) \in Nat /\ Len(out') = Len(out) + 1
        /\ \A i \in 1..Len(out) : out'[i] = out[i]
        /\ out'[Len(out) + 1] = [path |-> Current, sha256 |-> acc]
    BY <2>1, AppendProperties, LenProperties DEF TypeOK
  <2>3. /\ pc = "read" /\ UNCHANGED <<argv, manifest>>
        /\ pc' = "emit" => Len(out') = Len(argv)
    BY <1>4 DEF FinishFile
  <2>4. Len(out) < Len(argv) /\ Len(argv) \in Nat
    BY <2>3, LenProperties DEF TypeOK
  <2>5. \A i \in 1..Len(out') : out'[i].path = argv[i]
    BY <2>2, <2>3 DEF CallInv, Current
  <2> QED
    BY <1>1, <2>2, <2>3, <2>4, <2>5 DEF CallInv, PathsOf
<1>5. CASE Emit
  <2>1. /\ pc = "emit" /\ pc' = "idle"
        /\ manifest' \in {manifest, NotJson, ManifestOf(out)}
    BY <1>5 DEF Emit, Exit
  <2>2. PathsOf(out) \in Calls
    <3>1. /\ argv \in Calls /\ Len(out) = Len(argv)
          /\ \A i \in 1..Len(argv) : out[i].path = argv[i]
      BY <2>1 DEF CallInv
    <3>2. argv = [i \in 1..Len(argv) |-> argv[i]]
      BY LenProperties DEF TypeOK
    <3>3. PathsOf(out) = [i \in 1..Len(argv) |-> argv[i]]
      BY <3>1 DEF PathsOf
    <3> QED
      BY <3>1, <3>2, <3>3
  <2> QED
    BY <1>1, <2>1, <2>2, NotJsonIsNoList DEF CallInv, PathsOf
<1> QED
  BY <1>2, <1>3, <1>4, <1>5

LEMMA DaemonKeepsCallInv ==
  ASSUME TypeOK, CallInv, StartRun \/ LoadPlugin \/ RefusePlugin \/ Serve
  PROVE  CallInv'
<1>1. UNCHANGED tools
  BY DEF StartRun, LoadPlugin, RefusePlugin, Serve
<1>2. CASE StartRun
  <2>1. \/ boot' = "refused"
        \/ boot' = "loading" /\ manifest # NotJson /\ trust' = manifest.entries
    BY <1>2 DEF StartRun, NotJson
  <2>2. /\ boot' # "serving"
        /\ boot' = "loading" => PathsOf(trust)' \in Calls
    BY <2>1 DEF CallInv, PathsOf
  <2> QED
    BY <1>1, <2>1, <2>2 DEF tools, program, CallInv, PathsOf
<1>3. CASE LoadPlugin \/ RefusePlugin \/ Serve
  BY <1>1, <1>3 DEF LoadPlugin, RefusePlugin, Serve, tools, program, CallInv, PathsOf
<1> QED
  BY <1>2, <1>3

LEMMA CallStep == TypeOK /\ CallInv /\ [Next]_vars => CallInv'
<1> SUFFICES ASSUME TypeOK, CallInv, [Next]_vars PROVE CallInv'
  OBVIOUS
<1>1. CASE UNCHANGED vars
  BY <1>1 DEF vars, CallInv, PathsOf
<1>2. CASE (\E p \in Plugins, f \in WholeFiles \cup {None} : Replace(p, f))
           \/ (\E p \in Plugins, b \in Builds : BeginCopy(p, b)) \/ Copy
  BY <1>2 DEF Replace, BeginCopy, Copy, Touch, CallInv, PathsOf
<1> QED
  BY <1>1, <1>2, ToolKeepsCallInv, DaemonKeepsCallInv DEF Next

\* A daemon that serves has loaded every plugin of one manifest gen call: no
\* failure on the way leaves one out.
THEOREM WholeCallsServed == Spec => []ServesWholeCall
<1>1. TypeOK /\ CallInv => ServesWholeCall
  BY DEF CallInv, PathsOf, ServesWholeCall
<1> QED
  BY <1>1, TypeInit, CallInit, TypeStep, CallStep, PTL DEF Spec
=============================================================================
