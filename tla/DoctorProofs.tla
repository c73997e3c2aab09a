----------------------------- MODULE DoctorProofs -----------------------------
(***************************************************************************)
(* Theorems about Doctor for any set of plugins and builds, any requests,   *)
(* any files to start from and any number of changes.                       *)
(***************************************************************************)
EXTENDS Doctor, TLAPS

-----------------------------------------------------------------------------
(* The inductive invariant.                                                 *)

\* The descriptor's verdict is that of the descriptor doctor read.
DescriptorVerdict == saw # Absent => found["descriptor"] = DescriptorFinding(saw)

\* While run would not have refused the plugins once since doctor started, the
\* files of the digests it read are still those files: none of them can change
\* without a moment at which the manifest on disk vouches for another.
StillGenuine ==
    /\ pc \notin {"idle", "usage"} /\ ~wasRefused => Loadable(disk)
    /\ pc = "hash" => \A p \in pending : read.sha256[p] # None
    /\ pc = "hash" /\ ~wasRefused =>
          \A p \in Plugins : read.sha256[p] # None =>
              disk.manifest.sha256[p] # None /\ disk.so[p] = read.sha256[p]

IInv == /\ TypeOK
        /\ DescriptorVerdict
        /\ StillGenuine
        /\ MismatchWasReal

-----------------------------------------------------------------------------
(* Facts about the files.                                                   *)

\* What import-hsm composes is a content.
LEMMA ComposedTyped ==
  ASSUME NEW a \in Args
  PROVE  Composed(a) \in Content
<1>1. [k \in ExtraKeys |-> a[k]] \in Extra
  BY DEF Extra, ExtraKeys, Args
<1>2. Composed(a) \in Object
  BY <1>1 DEF Composed, Object, Backends, Args
<1> QED
  BY <1>2 DEF Content

\* manifest gen writes a manifest, the wizard a key and a config.
LEMMA FilesTyped ==
  ASSUME NEW d \in Disks
  PROVE  /\ Generated(d) \in Manifests /\ NotJsonManifest \in Manifests
         /\ Quickstarted(d) \in Disks /\ PlainConfig \in Configs
<1>1. d.so \in Installed /\ d.config \in Configs /\ d.key \in KeyStates
  BY DEF Disks
<1>2. /\ NotJsonManifest \in Manifests /\ DefaultConfig \in Configs
      /\ PlainConfig \in Configs
  BY DEF NotJsonManifest, Manifests, DefaultConfig, PlainConfig, Configs, References
<1>3. [kind |-> "list", sha256 |-> d.so, flaw |-> "none"] \in Manifests
  BY <1>1 DEF Manifests
<1>4. Generated(d) \in Manifests
  BY <1>2, <1>3 DEF Generated
<1>5. (IF d.key = "absent" THEN "valid" ELSE d.key) \in KeyStates
  BY <1>1 DEF KeyStates
<1>6. (IF d.config.kind = "absent" THEN DefaultConfig ELSE d.config) \in Configs
  BY <1>1, <1>2
<1>7. Quickstarted(d) \in Disks
  BY <1>5, <1>6 DEF Quickstarted, Disks
<1> QED
  BY <1>2, <1>4, <1>7

\* Every check makes a finding.
LEMMA FindingsTyped ==
  /\ \A h \in Hints : Warning(h) \in Findings /\ Error(h) \in Findings
  /\ Ok \in Findings /\ NoFinding \in Findings
  /\ \A d : /\ IdentityFinding(d) \in Findings /\ PluginDirFinding(d) \in Findings
            /\ ConfigFinding(d) \in Findings
  /\ \A c : DescriptorFinding(c) \in Findings
<1>1. /\ \A h \in Hints : Warning(h) \in Findings /\ Error(h) \in Findings
      /\ Ok \in Findings /\ NoFinding \in Findings
  BY DEF Warning, Error, Ok, NoFinding, Findings, Hints
<1>2. {"identity gen", "ls", "chmod", "import-hsm --force", "advice", "bootstrap-env",
       "quickstart", "edit or quickstart", "edit identity.path",
       "edit manifest.path"} \subseteq Hints
  BY DEF Hints
<1> QED
  BY <1>1, <1>2 DEF IdentityFinding, PluginDirFinding, ConfigFinding, DescriptorFinding

-----------------------------------------------------------------------------
(* The steps.                                                               *)

LEMMA IInvInit == Init => IInv
<1> SUFFICES ASSUME Init PROVE IInv
  OBVIOUS
<1>1. TypeOK
  BY DoctorAssumption, FindingsTyped
     DEF Init, TypeOK, Places, Content, NotJsonManifest, Manifests
<1>2. DescriptorVerdict /\ StillGenuine /\ MismatchWasReal
  BY DEF Init, DescriptorVerdict, StillGenuine, MismatchWasReal
<1> QED
  BY <1>1, <1>2 DEF IInv

LEMMA StartKeepsIInv ==
  ASSUME IInv, Start \/ Usage
  PROVE  IInv'
<1>1. CASE Start
  <2>1. TypeOK'
    BY <1>1, FindingsTyped DEF Start, IInv, TypeOK, Places, HomeFinding, Hints, Content, NotJsonManifest, Manifests
  <2>2. (DescriptorVerdict /\ StillGenuine /\ MismatchWasReal)'
    BY <1>1 DEF Start, IInv, DescriptorVerdict, StillGenuine, MismatchWasReal, Loadable
  <2> QED
    BY <2>1, <2>2 DEF IInv
<1>2. CASE Usage
  <2>1. TypeOK'
    BY <1>2 DEF Usage, world, IInv, TypeOK, Places
  <2>2. (DescriptorVerdict /\ StillGenuine /\ MismatchWasReal)'
    BY <1>2 DEF Usage, world, IInv, DescriptorVerdict, StillGenuine,
       MismatchWasReal
  <2> QED
    BY <2>1, <2>2 DEF IInv
<1> QED
  BY <1>1, <1>2

LEMMA StepKeepsIInv ==
  ASSUME IInv, Step
  PROVE  IInv'
<1>1. CASE CheckIdentity
  <2>1. TypeOK'
    BY <1>1, FindingsTyped DEF CheckIdentity, Found, world, IInv, TypeOK, Places, Checks
  <2>2. (DescriptorVerdict /\ StillGenuine /\ MismatchWasReal)'
    BY <1>1 DEF CheckIdentity, Found, world, IInv, TypeOK, DescriptorVerdict, StillGenuine,
       MismatchWasReal, Checks
  <2> QED
    BY <2>1, <2>2 DEF IInv
<1>2. CASE CheckDescriptor
  <2>1. TypeOK'
    <3>1. disk.desc \in Content
      BY DEF IInv, TypeOK, Disks
    <3> QED
      BY <1>2, <3>1, FindingsTyped
         DEF CheckDescriptor, Found, world, IInv, TypeOK, Places, Checks
  <2>2. (DescriptorVerdict /\ StillGenuine /\ MismatchWasReal)'
    BY <1>2 DEF CheckDescriptor, Found, world, IInv, TypeOK, DescriptorVerdict, StillGenuine,
       MismatchWasReal, Checks
  <2> QED
    BY <2>1, <2>2 DEF IInv
<1>3. CASE CheckPluginDir
  <2>1. TypeOK'
    BY <1>3, FindingsTyped DEF CheckPluginDir, Found, world, IInv, TypeOK, Places, Checks
  <2>2. (DescriptorVerdict /\ StillGenuine /\ MismatchWasReal)'
    BY <1>3 DEF CheckPluginDir, Found, world, IInv, TypeOK, DescriptorVerdict, StillGenuine,
       MismatchWasReal, Checks
  <2> QED
    BY <2>1, <2>2 DEF IInv
<1>4. CASE ReadManifest
  <2>1. PICK f \in Findings : found' = [found EXCEPT !["manifest"] = f] \/ found' = found
    BY <1>4, FindingsTyped DEF ReadManifest, Found, Hints
  <2>2. TypeOK'
    <3>1. disk.manifest \in Manifests
      BY DEF IInv, TypeOK, Disks
    <3> QED
      BY <1>4, <2>1, <3>1 DEF ReadManifest, world, IInv, TypeOK, Places
  <2>3. (DescriptorVerdict /\ MismatchWasReal)'
    BY <1>4, <2>1
       DEF ReadManifest, world, IInv, TypeOK, DescriptorVerdict, MismatchWasReal, Checks
  <2>4. StillGenuine'
    BY <1>4 DEF ReadManifest, world, IInv, StillGenuine, Loadable
  <2> QED
    BY <2>2, <2>3, <2>4 DEF IInv
<1>5. CASE \E p \in Plugins : HashPlugin(p)
  <2>1. TypeOK'
    BY <1>5 DEF HashPlugin, world, IInv, TypeOK, Counted
  <2>2. (DescriptorVerdict /\ StillGenuine /\ MismatchWasReal)'
    <3>1. PICK p \in pending : HashPlugin(p)
      BY <1>5 DEF HashPlugin
    <3>2. p \in Plugins /\ pc = "hash" /\ read.sha256[p] # None
      BY <3>1 DEF HashPlugin, IInv, TypeOK, StillGenuine
    <3>3. ~wasRefused => "mismatched" \notin Counted(p)
      BY <3>2 DEF Counted, IInv, StillGenuine
    <3>4. MismatchWasReal'
      BY <3>1, <3>3 DEF HashPlugin, world, IInv, MismatchWasReal
    <3> QED
      BY <3>1, <3>4 DEF HashPlugin, world, IInv, DescriptorVerdict, StillGenuine
  <2> QED
    BY <2>1, <2>2 DEF IInv
<1>6. CASE MeetFlaw
  <2>1. TypeOK'
    <3>1. PICK f \in Findings : found' = [found EXCEPT !["manifest"] = f] \/ found' = found
      BY <1>6, FindingsTyped DEF MeetFlaw, Found, Hints
    <3> QED
      BY <1>6, <3>1 DEF MeetFlaw, world, IInv, TypeOK, Places
  <2>2. (DescriptorVerdict /\ StillGenuine /\ MismatchWasReal)'
    BY <1>6 DEF MeetFlaw, Found, world, IInv, TypeOK, DescriptorVerdict, StillGenuine,
       MismatchWasReal, Checks
  <2> QED
    BY <2>1, <2>2 DEF IInv
<1>7. CASE CloseManifest
  <2>1. TypeOK'
    <3>1. PICK f \in Findings : found' = [found EXCEPT !["manifest"] = f]
      BY <1>7, FindingsTyped DEF CloseManifest, Found, Hints
    <3> QED
      BY <1>7, <3>1 DEF CloseManifest, world, IInv, TypeOK, Places
  <2>2. (DescriptorVerdict /\ StillGenuine /\ MismatchWasReal)'
    BY <1>7 DEF CloseManifest, Found, world, IInv, TypeOK, DescriptorVerdict, StillGenuine,
       MismatchWasReal, Checks
  <2> QED
    BY <2>1, <2>2 DEF IInv
<1>8. CASE CheckConfig
  <2>1. TypeOK'
    BY <1>8, FindingsTyped DEF CheckConfig, Found, world, IInv, TypeOK, Places, Checks
  <2>2. (DescriptorVerdict /\ StillGenuine /\ MismatchWasReal)'
    BY <1>8 DEF CheckConfig, Found, world, IInv, TypeOK, DescriptorVerdict, StillGenuine,
       MismatchWasReal, Checks
  <2> QED
    BY <2>1, <2>2 DEF IInv
<1>9. CASE CheckEnvironment
  <2>1. TypeOK'
    <3>1. PICK f \in Findings : found' = [found EXCEPT !["environment"] = f]
      BY <1>9, FindingsTyped DEF CheckEnvironment, Found, Hints
    <3> QED
      BY <1>9, <3>1 DEF CheckEnvironment, world, IInv, TypeOK, Places
  <2>2. (DescriptorVerdict /\ StillGenuine /\ MismatchWasReal)'
    BY <1>9 DEF CheckEnvironment, Found, world, IInv, TypeOK, DescriptorVerdict, StillGenuine,
       MismatchWasReal, Checks
  <2> QED
    BY <2>1, <2>2 DEF IInv
<1>10. CASE Report
  <2>1. TypeOK'
    BY <1>10 DEF Report, IInv, TypeOK, Places, Verdict
  <2>2. (DescriptorVerdict /\ StillGenuine /\ MismatchWasReal)'
    BY <1>10 DEF Report, IInv, TypeOK, DescriptorVerdict, StillGenuine,
       MismatchWasReal, Checks
  <2> QED
    BY <2>1, <2>2 DEF IInv
<1> QED
  BY <1>1, <1>2, <1>3, <1>4, <1>5, <1>6, <1>7, <1>8, <1>9, <1>10 DEF Step

\* What keeps StillGenuine when a file changes: the files listed stay, or the
\* plugins would be refused now.
LEMMA ChangeKeepsGenuine ==
  ASSUME IInv, NEW d \in Disks, Becomes(d), UNCHANGED <<pc, read, pending, tally>>,
         pc = "hash" =>
            \/ d.manifest = disk.manifest
            \/ d.manifest.kind = "list" /\ d.manifest.sha256 = d.so /\ d.so = disk.so
            \/ d.manifest.kind # "list"
  PROVE  (StillGenuine /\ MismatchWasReal)'
<1>1. pc \notin {"idle", "usage"} /\ ~wasRefused' =>
         ~wasRefused /\ Loadable(d) /\ disk' = d
  BY DEF Becomes, IInv, TypeOK
<1>2. ASSUME pc = "hash", ~wasRefused',
             NEW p \in Plugins, read.sha256[p] # None
      PROVE  d.manifest.sha256[p] # None /\ d.so[p] = read.sha256[p]
  <2>1. disk.manifest.sha256[p] # None /\ disk.so[p] = read.sha256[p]
    BY <1>1, <1>2 DEF IInv, StillGenuine
  <2>2. disk.so[p] = disk.manifest.sha256[p]
    BY <1>1, <1>2, <2>1 DEF IInv, StillGenuine, Loadable
  <2>3. d.manifest.kind = "list" /\ (d.manifest.sha256[p] # None => d.so[p] = d.manifest.sha256[p])
    BY <1>1, <1>2 DEF Loadable
  <2> QED
    BY <1>2, <2>1, <2>2, <2>3
<1>3. MismatchWasReal'
  BY DEF Becomes, IInv, MismatchWasReal
<1> QED
  BY <1>1, <1>2, <1>3 DEF IInv, StillGenuine

LEMMA ChangeKeepsIInv ==
  ASSUME IInv, Change
  PROVE  IInv'
<1> DEFINE Outcome(d) ==
      /\ d \in Disks /\ Becomes(d)
      /\ \/ d.manifest = disk.manifest
         \/ d.manifest.kind = "list" /\ d.manifest.sha256 = d.so /\ d.so = disk.so
         \/ d.manifest.kind # "list"
<1>1. ASSUME NEW d, Outcome(d) PROVE IInv'
  <2>1. UNCHANGED doctor /\ changes' \in Nat
    BY DEF Change, IInv, TypeOK
  <2>2. disk' = d /\ wasRefused' \in BOOLEAN /\ quiet' \in BOOLEAN
    BY <1>1 DEF Becomes, IInv, TypeOK
  <2>3. TypeOK'
    BY <1>1, <2>1, <2>2 DEF doctor, IInv, TypeOK
  <2>4. (StillGenuine /\ MismatchWasReal)'
    BY <1>1, <2>1, ChangeKeepsGenuine DEF doctor
  <2>5. DescriptorVerdict'
    BY <2>1 DEF doctor, IInv, DescriptorVerdict
  <2> QED
    BY <2>3, <2>4, <2>5 DEF IInv
<1>2. disk \in Disks /\ disk.so \in Installed
  BY DEF IInv, TypeOK, Disks
<1>3. CASE Upkeep
  <2>1. ASSUME NEW k \in {"valid", "absent"}, Becomes([disk EXCEPT !.key = k])
        PROVE  IInv'
    <3>1. [disk EXCEPT !.key = k] \in Disks
      BY <1>2 DEF Disks, KeyStates
    <3> QED
      BY <1>1, <1>2, <2>1, <3>1 DEF Disks
  <2>2. ASSUME Becomes([disk EXCEPT !.manifest = Generated(disk)])
        PROVE  IInv'
    <3> DEFINE d == [disk EXCEPT !.manifest = Generated(disk)]
    <3>1. d \in Disks /\ d.so = disk.so /\ d.manifest = Generated(disk)
      BY <1>2, FilesTyped DEF Disks
    <3>2. \/ d.manifest.kind = "list" /\ d.manifest.sha256 = d.so /\ d.so = disk.so
          \/ d.manifest.kind # "list"
      BY <3>1 DEF Generated, NotJsonManifest
    <3>3. Becomes(d)
      BY <2>2
    <3> HIDE DEF d
    <3> QED
      BY <1>1, <3>1, <3>2, <3>3
  <2>3. ASSUME NEW c \in EditedConfigs, Becomes([disk EXCEPT !.config = c])
        PROVE  IInv'
    <3>1. c \in Configs
      BY DoctorAssumption
    <3>2. [disk EXCEPT !.config = c] \in Disks
      BY <1>2, <3>1 DEF Disks
    <3> QED
      BY <1>1, <1>2, <2>3, <3>2 DEF Disks
  <2>4. ASSUME Becomes(Quickstarted(disk)) PROVE IInv'
    <3>1. Quickstarted(disk) \in Disks /\ Quickstarted(disk).manifest = disk.manifest
      BY <1>2, FilesTyped DEF Quickstarted, Disks
    <3> QED
      BY <1>1, <2>4, <3>1
  <2>5. ASSUME NEW p \in Plugins, NEW b \in Builds,
               Becomes([disk EXCEPT !.dir = TRUE, !.so = [@ EXCEPT ![p] = b]])
        PROVE  IInv'
    <3>1. [disk EXCEPT !.dir = TRUE, !.so = [@ EXCEPT ![p] = b]] \in Disks
      BY <1>2 DEF Disks, Installed
    <3> QED
      BY <1>1, <1>2, <2>5, <3>1 DEF Disks
  <2> QED
    BY <1>3, <2>1, <2>2, <2>3, <2>4, <2>5 DEF Upkeep
<1>4. ASSUME NEW a \in Requests, Import(a) PROVE IInv'
  <2>1. Composed(a) \in Content
    BY ComposedTyped, DoctorAssumption
  <2>2. [disk EXCEPT !.desc = Composed(a)] \in Disks
    BY <1>2, <2>1 DEF Disks
  <2> QED
    BY <1>1, <1>2, <1>4, <2>2 DEF Import, Disks
<1> QED
  BY <1>3, <1>4 DEF Change

\* What a followed hint leaves behind is a data directory again.
LEMMA FollowedTyped ==
  ASSUME NEW h \in Hints, NEW d \in Disks, NEW x \in Followed(h, d)
  PROVE  x \in Disks
<1>1. /\ d.so \in Installed /\ d.config \in Configs /\ d.key \in KeyStates
      /\ Quickstarted(d) \in Disks /\ Generated(d) \in Manifests /\ PlainConfig \in Configs
  BY FilesTyped DEF Disks
<1>2. [d EXCEPT !.home = TRUE] \in Disks
  BY DEF Disks
<1>3. \A k \in KeyStates : [d EXCEPT !.key = k] \in Disks
  BY DEF Disks
<1>4. \A a \in Requests : [d EXCEPT !.desc = Composed(a)] \in Disks
  BY ComposedTyped, DoctorAssumption DEF Disks
<1>5. \A b \in Builds : [d EXCEPT !.dir = TRUE, !.so = [p \in Plugins |-> b]] \in Disks
  BY DEF Disks, Installed
<1>6. \A b \in Builds :
        [d EXCEPT !.so = [p \in Plugins |-> IF @[p] = None THEN b ELSE @[p]]] \in Disks
  BY <1>1 DEF Disks, Installed
<1>7. /\ [d EXCEPT !.manifest = Generated(d)] \in Disks
      /\ [d EXCEPT !.config = PlainConfig] \in Disks
  BY <1>1 DEF Disks
<1>8. \A r \in {"identity", "manifest"} : [d EXCEPT !.config = Unpinned(@, r)] \in Disks
  <2>1. \A r \in {"identity", "manifest"} : Unpinned(d.config, r) \in Configs
    BY <1>1 DEF Unpinned, Configs, References
  <2> QED
    BY <2>1 DEF Disks
<1>9. {"valid", "garbage", d.key} \subseteq KeyStates
  BY <1>1 DEF KeyStates
<1>10. h = "identity gen" => x \in {[d EXCEPT !.key = k] : k \in {"valid", d.key}}
  BY DEF Followed
<1>11. h = "chmod" => x \in {[d EXCEPT !.key = k] : k \in {"valid", "garbage", d.key}}
  BY DEF Followed
<1>12. h = "import-hsm --force" => x \in {[d EXCEPT !.desc = Composed(a)] : a \in Requests}
  BY DEF Followed
<1>13. h = "set home" => x = [d EXCEPT !.home = TRUE]
  BY DEF Followed
<1>14. h = "bootstrap-env" =>
          x \in {[d EXCEPT !.dir = TRUE, !.so = [p \in Plugins |-> b]] : b \in Builds}
  BY DEF Followed
<1>15. h = "install-plugins" =>
          x \in {[d EXCEPT !.so = [p \in Plugins |-> IF @[p] = None THEN b ELSE @[p]]] :
                    b \in Builds}
  BY DEF Followed
<1>16. h = "manifest gen >" => x = [d EXCEPT !.manifest = Generated(d)]
  BY DEF Followed
<1>17. h = "quickstart" => x = Quickstarted(d)
  BY DEF Followed
<1>18. h = "edit or quickstart" =>
          x \in {Quickstarted(d), [d EXCEPT !.config = PlainConfig], d}
  BY DoctorAssumption DEF Followed
<1>19. h = "edit identity.path" => x = [d EXCEPT !.config = Unpinned(@, "identity")]
  BY DEF Followed
<1>20. h = "edit manifest.path" => x = [d EXCEPT !.config = Unpinned(@, "manifest")]
  BY DEF Followed
<1>21. h \in {"none", "ls", "manifest gen", "advice"} => x = d
  BY DEF Followed
<1>22. h \in {"set home", "identity gen", "chmod", "import-hsm --force"} => x \in Disks
  BY <1>2, <1>3, <1>4, <1>9, <1>10, <1>11, <1>12, <1>13
<1>23. h \in {"bootstrap-env", "install-plugins", "manifest gen >", "quickstart"} => x \in Disks
  BY <1>1, <1>5, <1>6, <1>7, <1>14, <1>15, <1>16, <1>17
<1>24. h \in {"edit or quickstart", "edit identity.path", "edit manifest.path", "none", "ls",
              "manifest gen", "advice"} => x \in Disks
  BY <1>1, <1>7, <1>8, <1>18, <1>19, <1>20, <1>21
<1> QED
  BY <1>22, <1>23, <1>24 DEF Hints

LEMMA HintKeepsIInv ==
  ASSUME IInv, NEW c \in Checks, FollowHint(c)
  PROVE  IInv'
<1>1. PICK d \in Followed(found[c].hint, disk) : Becomes(d)
  BY DEF FollowHint
<1>2. d \in Disks
  <2>1. found[c].hint \in Hints /\ disk \in Disks
    BY DEF IInv, TypeOK, Findings
  <2> QED
    BY <2>1, FollowedTyped
<1>3. /\ pc = "exited" /\ todo' \subseteq Checks
      /\ UNCHANGED <<pc, rc, found, saw, read, pending, tally, changes>>
  BY DEF FollowHint, IInv, TypeOK
<1>4. disk' = d /\ wasRefused' \in BOOLEAN /\ quiet' \in BOOLEAN
  BY <1>1 DEF Becomes, IInv, TypeOK
<1>5. TypeOK'
  BY <1>2, <1>3, <1>4 DEF IInv, TypeOK
<1>6. (StillGenuine /\ MismatchWasReal)'
  BY <1>1, <1>2, <1>3, ChangeKeepsGenuine
<1>7. DescriptorVerdict'
  BY <1>3 DEF IInv, DescriptorVerdict
<1> QED
  BY <1>5, <1>6, <1>7 DEF IInv

LEMMA IInvStep == IInv /\ [Next]_vars => IInv'
<1>1. IInv /\ UNCHANGED vars => IInv'
  <2> SUFFICES ASSUME IInv, UNCHANGED vars PROVE IInv'
    OBVIOUS
  <2>1. TypeOK'
    BY DEF vars, IInv, TypeOK
  <2> QED
    BY <2>1 DEF vars, IInv, DescriptorVerdict, StillGenuine, MismatchWasReal
<1> QED
  BY <1>1, StartKeepsIInv, StepKeepsIInv, HintKeepsIInv, ChangeKeepsIInv DEF Next

LEMMA IInvAlways == Spec => []IInv
BY IInvInit, IInvStep, PTL DEF Spec

-----------------------------------------------------------------------------
(* What follows from it.                                                    *)

\* The variables keep their types, for every set of plugins and builds.
THEOREM TypeCorrect == Spec => []TypeOK
<1>1. IInv => TypeOK
  BY DEF IInv
<1> QED
  BY <1>1, IInvAlways, PTL

\* doctor's parser of the descriptor and run's agree on every content.
THEOREM ParsersAgree == Spec => []DescriptorVerdictAgrees
<1>1. \A c \in Content : DescriptorFinding(c).tag = "error" <=> LoadAborts(c)
  BY DEF DescriptorFinding, Error, Warning, NoFinding, LoadAborts, LoadsProvider, Content, Object, Absent,
     Unreadable, NotJson, NotObject, Torn
<1>2. IInv => DescriptorVerdictAgrees
  BY <1>1 DEF IInv, TypeOK, DescriptorVerdict, DescriptorVerdictAgrees
<1> QED
  BY <1>2, IInvAlways, PTL

\* However many plugins are upgraded and manifests regenerated while doctor
\* hashes, a mismatch it reports was on disk at some moment since it started.
THEOREM MismatchesAreReal == Spec => []MismatchWasReal
<1>1. IInv => MismatchWasReal
  BY DEF IInv
<1> QED
  BY <1>1, IInvAlways, PTL

-----------------------------------------------------------------------------
(* The clean bill.                                                          *)

\* While nothing changes, what the passed checks found is so on disk; without
\* home doctor passes the file checks by, with an error.
FindingsHold ==
    quiet =>
        /\ pc \notin {"idle", "usage"}
        /\ ~disk.home => found["home"].tag = "error" /\ pc \in {"environment", "report", "exited"}
        /\ disk.home =>
              /\ pc # "identity" => found["identity"] = IdentityFinding(disk)
              /\ pc \notin {"identity", "descriptor"} =>
                    found["descriptor"] = DescriptorFinding(disk.desc)
              /\ pc \in {"environment", "report", "exited"} => found["config"] = ConfigFinding(disk)

\* The manifest it read is the one on disk; no complaint means run accepts it.
ManifestHolds ==
    quiet =>
        /\ pc = "hash" =>
              /\ read = disk.manifest
              /\ \A p \in Plugins \ pending :
                    read.sha256[p] # None => tally # {} \/ disk.so[p] = read.sha256[p]
        /\ disk.home /\ pc \in {"config", "environment", "report", "exited"} =>
              found["manifest"].tag \in {"warn", "error"} \/ Loadable(disk)
        /\ pc = "aborted" => ~Loadable(disk)

BInv == FindingsHold /\ ManifestHolds

\* Whoever changes a file makes doctor's findings old.
LEMMA ChangesAreNoticed ==
  ASSUME Change \/ \E c \in Checks : FollowHint(c)
  PROVE  BInv'
<1>1. quiet' = FALSE
  <2>1. CASE Change
    BY <2>1 DEF Change, Upkeep, Import, Becomes
  <2>2. ASSUME NEW c \in Checks, FollowHint(c) PROVE quiet' = FALSE
    BY <2>2 DEF FollowHint, Becomes
  <2> QED
    BY <2>1, <2>2
<1> QED
  BY <1>1 DEF BInv, FindingsHold, ManifestHolds

LEMMA StepKeepsBInv ==
  ASSUME TypeOK, BInv, Step
  PROVE  BInv'
<1> USE DEF BInv, FindingsHold, ManifestHolds, TypeOK, Checks, Found, world
<1>1. CASE CheckIdentity
  BY <1>1 DEF CheckIdentity
<1>2. CASE CheckDescriptor
  BY <1>2 DEF CheckDescriptor
<1>3. CASE CheckPluginDir
  BY <1>3 DEF CheckPluginDir
<1>4. CASE ReadManifest
  <2>1. FindingsHold'
    BY <1>4 DEF ReadManifest
  <2>2. pc' = "config" => (found["manifest"].tag)' \in {"warn", "error"}
    <3> DEFINE f == IF read'.kind = "absent" THEN Warning("manifest gen >")
                    ELSE IF read'.kind = "unreadable" THEN Error("ls")
                    ELSE Error("manifest gen")
    <3>1. pc' = "config" => found' = [found EXCEPT !["manifest"] = f]
      BY <1>4 DEF ReadManifest
    <3>2. f.tag \in {"warn", "error"}
      BY DEF Error, Warning
    <3> HIDE DEF f
    <3> QED
      BY <3>1, <3>2
  <2>3. /\ pc' \in {"hash", "config"} /\ read' = disk.manifest
        /\ disk' = disk /\ quiet' = quiet /\ tally' = tally
        /\ pc' = "hash" => pending' = {p \in Plugins : read'.sha256[p] # None}
    BY <1>4 DEF ReadManifest
  <2>4. ManifestHolds'
    BY <2>2, <2>3
  <2> QED
    BY <2>1, <2>4
<1>5. ASSUME NEW p \in Plugins, HashPlugin(p) PROVE BInv'
  <2>1. FindingsHold'
    BY <1>5 DEF HashPlugin
  <2>2. ManifestHolds'
    BY <1>5 DEF HashPlugin, Counted
  <2> QED
    BY <2>1, <2>2
<1>6. CASE MeetFlaw
  <2>1. FindingsHold'
    BY <1>6 DEF MeetFlaw
  <2>2. read.flaw # "none" /\ pc = "hash" /\ disk' = disk /\ quiet' = quiet
    BY <1>6 DEF MeetFlaw
  <2>3. pc' = "config" => (found["manifest"].tag)' = "error"
    <3>1. pc' = "config" => found' = [found EXCEPT !["manifest"] = Error("manifest gen")]
      BY <1>6 DEF MeetFlaw
    <3>2. Error("manifest gen").tag = "error"
      BY DEF Error
    <3> QED
      BY <3>1, <3>2
  <2>4. pc' \in {"config", "aborted"}
    BY <1>6 DEF MeetFlaw
  <2>5. ManifestHolds'
    BY <2>2, <2>3, <2>4 DEF Loadable
  <2> QED
    BY <2>1, <2>5
<1>7. CASE CloseManifest
  <2>1. FindingsHold'
    BY <1>7 DEF CloseManifest
  <2>2. (found["manifest"].tag)' \in {"warn", "error"} \/ tally = {}
    BY <1>7 DEF CloseManifest, Error, Warning
  <2>3. ManifestHolds'
    BY <1>7, <2>2, ZenonT(60) DEF CloseManifest, Loadable
  <2> QED
    BY <2>1, <2>3
<1>8. CASE CheckConfig
  BY <1>8 DEF CheckConfig
<1>9. CASE CheckEnvironment
  BY <1>9 DEF CheckEnvironment
<1>10. CASE Report
  BY <1>10 DEF Report
<1> QED
  BY <1>1, <1>2, <1>3, <1>4, <1>5, <1>6, <1>7, <1>8, <1>9, <1>10 DEF Step

LEMMA BInvStep == TypeOK /\ BInv /\ [Next]_vars => BInv'
<1> SUFFICES ASSUME TypeOK, BInv, [Next]_vars PROVE BInv'
  OBVIOUS
<1>1. CASE Start
  BY <1>1 DEF Start, BInv, FindingsHold, ManifestHolds, HomeFinding, Error, Checks
<1>2. CASE Usage \/ UNCHANGED vars
  BY <1>2 DEF Usage, vars, world, BInv, FindingsHold, ManifestHolds
<1> QED
  BY <1>1, <1>2, StepKeepsBInv, ChangesAreNoticed DEF Next

\* A doctor that saw nothing to complain about leaves run nothing to refuse
\* but key bytes and schema, and one that died, died of files run refuses.
THEOREM CleanBills == Spec => []CleanBillHolds
<1>1. Init => BInv
  BY DEF Init, BInv, FindingsHold, ManifestHolds
<1>2. TypeOK /\ BInv => CleanBillHolds
  <2> SUFFICES ASSUME TypeOK, BInv, quiet PROVE CleanBillHolds
    BY DEF CleanBillHolds
  <2>1. pc = "aborted" => Refuses(disk)
    BY DEF BInv, ManifestHolds, Refuses
  <2>2. ASSUME pc = "exited",
               \A c \in Checks \ {"environment"} : found[c].tag \in {"none", "ok"}
        PROVE  ~Refuses(disk) \/ disk.key = "garbage" \/ disk.config.kind = "invalid"
    <3>1. disk.home /\ Loadable(disk)
      <4>1. found["home"].tag # "error" /\ found["manifest"].tag \in {"none", "ok"}
        BY <2>2 DEF Checks
      <4> QED
        BY <2>2, <4>1 DEF BInv, FindingsHold, ManifestHolds
    <3>2. disk.key \in {"garbage", "valid"}
      <4>1. IdentityFinding(disk).tag # "error" /\ disk.key \in KeyStates
        BY <2>2, <3>1 DEF BInv, FindingsHold, Checks, TypeOK, Disks
      <4> QED
        BY <4>1 DEF IdentityFinding, Error, KeyStates
    <3>3. ~LoadAborts(DescriptorOf(disk))
      <4>1. DescriptorFinding(disk.desc).tag \notin {"warn", "error"} /\ disk.desc \in Content
        BY <2>2, <3>1 DEF BInv, FindingsHold, Checks, TypeOK, Disks
      <4> QED
        BY <3>1, <4>1 DEF DescriptorOf, DescriptorFinding, Error, Warning, LoadAborts, LoadsProvider, Content,
           Object, Absent, Unreadable, NotJson, NotObject, Torn
    <3>4. disk.config.kind \in {"invalid", "object"}
      <4>1. ConfigFinding(disk).tag \notin {"warn", "error"} /\ disk.config \in Configs
        BY <2>2, <3>1 DEF BInv, FindingsHold, Checks, TypeOK, Disks
      <4> QED
        BY <4>1 DEF ConfigFinding, Error, Warning, Configs
    <3> QED
      BY <3>1, <3>2, <3>3, <3>4 DEF Refuses
  <2> QED
    BY <2>1, <2>2 DEF CleanBillHolds
<1> QED
  BY <1>1, <1>2, BInvStep, TypeCorrect, PTL DEF Spec
=============================================================================
