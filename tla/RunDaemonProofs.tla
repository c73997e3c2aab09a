--------------------------- MODULE RunDaemonProofs ---------------------------
(***************************************************************************)
(* Theorems about RunDaemon for any number of plugins, any manifest order,  *)
(* any descriptor and any inherited environment.                            *)
(***************************************************************************)
EXTENDS RunDaemon, FiniteSetTheorems, TLAPS

-----------------------------------------------------------------------------
(* The inductive invariant: what holds at each place of the main thread.    *)

BeforeKernel == pc \in {"args", "descriptor", "export", "identity", "config",
                        "manifest", "kernel"}

Loading == pc \in {"init", "register", "install"}

Aborting == pc = "drain" /\ rc = 1

\* Before the kernel is up there is nothing for a thread or a signal to find.
NothingYet ==
    BeforeKernel => /\ status = [p \in Plugins |-> "unloaded"]
                    /\ at = 1
                    /\ working = {}
                    /\ sessions = {}

\* Past load_identity_descriptor the descriptor is one that loads.
DescLoads ==
    pc \notin {"args", "descriptor", "exited", "killed"} => ~LoadAborts(desc)

\* The identity file is loaded exactly for a file-backed daemon.
KeyIfFile ==
    /\ pc \in {"args", "descriptor", "export", "identity"} => ~loadedKey
    /\ pc \in {"config", "manifest", "kernel"} => (loadedKey <=> ~ProviderBackend)

\* The token's identity is missing until it is installed; the file's is there
\* from the start of the kernel.
IdentityByPlace ==
    /\ Loading \/ Aborting =>
          identity = IF ProviderBackend THEN NoIdentity ELSE FileIdentity
    /\ Serving \/ Graceful => identity = Declared

\* How far the plugins are, phase by phase.
StatusByPlace ==
    /\ pc = "init" =>
          \A p \in Plugins : status[p] = IF p < at THEN "inited" ELSE "unloaded"
    /\ pc = "register" =>
          \A p \in Plugins : status[p] = IF p < at THEN "registered" ELSE "inited"
    /\ pc = "install" \/ Serving => \A p \in Plugins : status[p] = "registered"
    /\ pc = "exited" => \A p \in Plugins : status[p] = "unloaded"

\* Which signals are caught, and from where on one can be stored.
HandlersByPlace ==
    /\ BeforeKernel \/ Loading \/ Aborting \/ pc = "sigint" =>
          quit = NoSignal /\ \A s \in Signals : handler[s] = "default"
    /\ pc = "sigterm" =>
          handler["SIGINT"] = "caught" /\ handler["SIGTERM"] = "default"
    /\ pc = "poll" \/ Graceful => \A s \in Signals : handler[s] = "caught"

\* The exit code is decided when the main thread turns to the drain.
CodeByPlace ==
    /\ BeforeKernel \/ Loading \/ Serving => rc = -1
    /\ pc = "drain" => rc \in {0, 1}

\* Work is in flight only in plugins that are not unloaded (Unload waits for
\* the anchor), so that an exit with nothing loaded has nothing in flight.
WorkOnlyInLoaded ==
    \A p \in working : status[p] \in {"registered", "stopping"}

\* Sessions only ever saw the identity of their time: the declared one or, in
\* the window before a provider's is installed, none.
SessionsUseDeclared ==
    \A id \in sessions : id = Declared \/ (id = NoIdentity /\ ProviderBackend)

SessionsByPlace == ~BeforeKernel => SessionsUseDeclared

\* The environment a plugin was initialised with.
EnvByPlace ==
    /\ pc \notin {"args", "descriptor", "export", "exited", "killed"}
       /\ ProviderBackend =>
          \A k \in ExtraKeys : desc.extra[k] # None =>
              env[EnvName(k)] = desc.extra[k]
    /\ InitSeesExtra

IInv == /\ TypeOK
        /\ NothingYet
        /\ DescLoads
        /\ KeyIfFile
        /\ IdentityByPlace
        /\ StatusByPlace
        /\ HandlersByPlace
        /\ CodeByPlace
        /\ SessionsByPlace
        /\ EnvByPlace
        /\ WorkOnlyInLoaded

-----------------------------------------------------------------------------
(* Facts about descriptors.                                                  *)

\* A provider declaration that loads names an extension and a key.
LEMMA ProviderComplete ==
  ASSUME NEW c \in Content, LoadsProvider(c)
  PROVE  /\ c.extra \in Extra
         /\ c.extension_id \in ExtensionIds \cup {None}
         /\ c.key_label \in KeyLabels \cup {None}
         /\ ~LoadAborts(c) => c.extension_id \in ExtensionIds /\ c.key_label \in KeyLabels
<1>1. c \in Object
  BY DEF LoadsProvider, Content, Absent, Unreadable, NotJson, NotObject, Torn
<1> QED
  BY <1>1 DEF Object, LoadsProvider, LoadAborts, Incomplete

\* setenv keeps the environment an environment and delivers every entry.
LEMMA ExportedDelivers ==
  ASSUME NEW c \in Content, LoadsProvider(c),
         NEW e \in [EnvVars -> ExtraValues \cup {None}]
  PROVE  /\ Exported(c, e) \in [EnvVars -> ExtraValues \cup {None}]
         /\ \A k \in ExtraKeys : c.extra[k] # None =>
               Exported(c, e)[EnvName(k)] = c.extra[k]
<1>1. c.extra \in [ExtraKeys -> ExtraValues \cup {None}]
  BY ProviderComplete DEF Extra
<1>2. \A k, l \in ExtraKeys : EnvName(k) = EnvName(l) => k = l
  BY DEF ExtraKeys, EnvName
<1>3. \A k \in ExtraKeys : EnvName(k) \in EnvVars
  BY DEF EnvName, EnvVars
<1>4. \A n \in EnvVars : Exported(c, e)[n] \in ExtraValues \cup {None}
  BY <1>1 DEF Exported
<1>5. ASSUME NEW k \in ExtraKeys, c.extra[k] # None
      PROVE  Exported(c, e)[EnvName(k)] = c.extra[k]
  <2>1. (CHOOSE l \in ExtraKeys : EnvName(l) = EnvName(k)) = k
    BY <1>2
  <2> QED
    BY <1>3, <1>5 DEF Exported
<1> QED
  BY <1>4, <1>5 DEF Exported

-----------------------------------------------------------------------------
(* The invariant is inductive.                                              *)

LEMMA IInvInit == Init => IInv
<1> SUFFICES ASSUME Init PROVE IInv
  OBVIOUS
<1> USE DEF BeforeKernel, Loading, Aborting, Serving, Graceful
<1>1. TypeOK
  <2>1. at \in 1..(PluginCount + 1)
    BY RunAssumption DEF Init
  <2>2. env \in [EnvVars -> ExtraValues \cup {None}]
    BY RunAssumption DEF Init
  <2>3. identity \in Identities /\ desc \in Content /\ pc \in Places
    BY DEF Init, Identities, Content, Places
  <2>4. /\ status \in [Plugins -> Statuses]
        /\ initEnv \in [Plugins -> [EnvVars -> ExtraValues \cup {None}]]
    BY <2>2 DEF Init, Statuses
  <2> QED
    BY <2>1, <2>2, <2>3, <2>4 DEF Init, TypeOK
<1>2. NothingYet /\ DescLoads /\ KeyIfFile /\ CodeByPlace /\ HandlersByPlace
  BY DEF Init, NothingYet, DescLoads, KeyIfFile, CodeByPlace, HandlersByPlace
<1>3. IdentityByPlace /\ StatusByPlace /\ WorkOnlyInLoaded
  BY DEF Init, IdentityByPlace, StatusByPlace, WorkOnlyInLoaded
<1>4. SessionsByPlace /\ EnvByPlace
  BY DEF Init, SessionsByPlace, EnvByPlace, InitSeesExtra
<1> QED
  BY <1>1, <1>2, <1>3, <1>4 DEF IInv

\* A step of the boot keeps the invariant.
LEMMA BootKeepsIInv ==
  ASSUME IInv, Boot
  PROVE  IInv'
<1> USE DEF BeforeKernel, Loading, Aborting, Serving, Graceful, Ended, Goto, Return
<1>1. CASE ParseArgs
  <2>1. TypeOK'
    BY <1>1 DEF ParseArgs, booted, IInv, TypeOK, Places
  <2>2. (NothingYet /\ DescLoads /\ KeyIfFile /\ CodeByPlace /\ HandlersByPlace)'
    BY <1>1
       DEF ParseArgs, booted, IInv, NothingYet, DescLoads, KeyIfFile,
           CodeByPlace, HandlersByPlace
  <2>3. (IdentityByPlace /\ StatusByPlace /\ WorkOnlyInLoaded)'
    BY <1>1
       DEF ParseArgs, booted, IInv, NothingYet, IdentityByPlace,
           StatusByPlace, WorkOnlyInLoaded
  <2>4. (SessionsByPlace /\ EnvByPlace)'
    BY <1>1
       DEF ParseArgs, booted, IInv, NothingYet, SessionsByPlace,
           SessionsUseDeclared, EnvByPlace, InitSeesExtra
  <2> QED
    BY <2>1, <2>2, <2>3, <2>4 DEF IInv
<1>2. CASE LoadDescriptor
  <2>1. TypeOK'
    BY <1>2, RunAssumption DEF LoadDescriptor, booted, IInv, TypeOK, Places
  <2>2. (NothingYet /\ DescLoads /\ KeyIfFile /\ CodeByPlace /\ HandlersByPlace)'
    BY <1>2
       DEF LoadDescriptor, booted, IInv, NothingYet, DescLoads, KeyIfFile,
           CodeByPlace, HandlersByPlace
  <2>3. (IdentityByPlace /\ StatusByPlace /\ WorkOnlyInLoaded)'
    BY <1>2
       DEF LoadDescriptor, booted, IInv, NothingYet, IdentityByPlace,
           StatusByPlace, WorkOnlyInLoaded
  <2>4. (SessionsByPlace /\ EnvByPlace)'
    BY <1>2
       DEF LoadDescriptor, booted, IInv, NothingYet, SessionsByPlace,
           SessionsUseDeclared, EnvByPlace, InitSeesExtra
  <2> QED
    BY <2>1, <2>2, <2>3, <2>4 DEF IInv
<1>3. CASE ExportExtra
  <2>1. TypeOK'
    BY <1>3, ExportedDelivers
       DEF ExportExtra, booted, IInv, TypeOK, Places, ProviderBackend
  <2>2. (NothingYet /\ DescLoads /\ KeyIfFile /\ CodeByPlace /\ HandlersByPlace)'
    BY <1>3
       DEF ExportExtra, booted, IInv, NothingYet, DescLoads, KeyIfFile,
           CodeByPlace, HandlersByPlace
  <2>3. (IdentityByPlace /\ StatusByPlace /\ WorkOnlyInLoaded)'
    BY <1>3
       DEF ExportExtra, booted, IInv, IdentityByPlace, StatusByPlace,
           WorkOnlyInLoaded
  <2>4. (SessionsByPlace /\ EnvByPlace)'
    BY <1>3, ExportedDelivers
       DEF ExportExtra, booted, IInv, TypeOK, SessionsByPlace, EnvByPlace,
           InitSeesExtra, ProviderBackend
  <2> QED
    BY <2>1, <2>2, <2>3, <2>4 DEF IInv
<1>4. CASE LoadIdentityFile
  <2>1. TypeOK'
    BY <1>4 DEF LoadIdentityFile, booted, IInv, TypeOK, Places
  <2>2. (NothingYet /\ DescLoads /\ KeyIfFile /\ CodeByPlace /\ HandlersByPlace)'
    BY <1>4
       DEF LoadIdentityFile, booted, IInv, NothingYet, DescLoads,
           KeyIfFile, CodeByPlace, HandlersByPlace, ProviderBackend
  <2>3. (IdentityByPlace /\ StatusByPlace /\ WorkOnlyInLoaded)'
    BY <1>4
       DEF LoadIdentityFile, booted, IInv, NothingYet, IdentityByPlace,
           StatusByPlace, WorkOnlyInLoaded
  <2>4. (SessionsByPlace /\ EnvByPlace)'
    BY <1>4
       DEF LoadIdentityFile, booted, IInv, NothingYet, SessionsByPlace,
           SessionsUseDeclared, EnvByPlace, InitSeesExtra, ProviderBackend
  <2> QED
    BY <2>1, <2>2, <2>3, <2>4 DEF IInv
<1>5. CASE LoadConfig
  <2>1. TypeOK'
    BY <1>5 DEF LoadConfig, booted, IInv, TypeOK, Places
  <2>2. (NothingYet /\ DescLoads /\ KeyIfFile /\ CodeByPlace /\ HandlersByPlace)'
    BY <1>5
       DEF LoadConfig, booted, IInv, NothingYet, DescLoads, KeyIfFile,
           CodeByPlace, HandlersByPlace, ProviderBackend
  <2>3. (IdentityByPlace /\ StatusByPlace /\ WorkOnlyInLoaded)'
    BY <1>5
       DEF LoadConfig, booted, IInv, NothingYet, IdentityByPlace,
           StatusByPlace, WorkOnlyInLoaded
  <2>4. (SessionsByPlace /\ EnvByPlace)'
    BY <1>5
       DEF LoadConfig, booted, IInv, NothingYet, SessionsByPlace,
           SessionsUseDeclared, EnvByPlace, InitSeesExtra, ProviderBackend
  <2> QED
    BY <2>1, <2>2, <2>3, <2>4 DEF IInv
<1>6. CASE ParseManifest
  <2>1. TypeOK'
    BY <1>6 DEF ParseManifest, booted, IInv, TypeOK, Places
  <2>2. (NothingYet /\ DescLoads /\ KeyIfFile /\ CodeByPlace /\ HandlersByPlace)'
    BY <1>6
       DEF ParseManifest, booted, IInv, NothingYet, DescLoads, KeyIfFile,
           CodeByPlace, HandlersByPlace, ProviderBackend
  <2>3. (IdentityByPlace /\ StatusByPlace /\ WorkOnlyInLoaded)'
    BY <1>6
       DEF ParseManifest, booted, IInv, NothingYet, IdentityByPlace,
           StatusByPlace, WorkOnlyInLoaded
  <2>4. (SessionsByPlace /\ EnvByPlace)'
    BY <1>6
       DEF ParseManifest, booted, IInv, NothingYet, SessionsByPlace,
           SessionsUseDeclared, EnvByPlace, InitSeesExtra, ProviderBackend
  <2> QED
    BY <2>1, <2>2, <2>3, <2>4 DEF IInv
<1>7. CASE StartKernel
  <2>1. TypeOK'
    BY <1>7 DEF StartKernel, IInv, TypeOK, Places, Identities
  <2>2. (NothingYet /\ DescLoads /\ KeyIfFile /\ CodeByPlace /\ HandlersByPlace)'
    BY <1>7
       DEF StartKernel, IInv, NothingYet, DescLoads, KeyIfFile,
           CodeByPlace, HandlersByPlace
  <2>3. (IdentityByPlace /\ StatusByPlace /\ WorkOnlyInLoaded)'
    BY <1>7
       DEF StartKernel, IInv, NothingYet, KeyIfFile, IdentityByPlace,
           StatusByPlace, WorkOnlyInLoaded, ProviderBackend, Plugins
  <2>4. (SessionsByPlace /\ EnvByPlace)'
    BY <1>7
       DEF StartKernel, IInv, NothingYet, SessionsByPlace,
           SessionsUseDeclared, EnvByPlace, InitSeesExtra, ProviderBackend
  <2> QED
    BY <2>1, <2>2, <2>3, <2>4 DEF IInv
<1>8. CASE InitPlugin
  <2>1. TypeOK'
    BY <1>8, RunAssumption
       DEF InitPlugin, rest, IInv, TypeOK, Statuses, Plugins
  <2>2. (NothingYet /\ DescLoads /\ KeyIfFile /\ CodeByPlace /\ HandlersByPlace)'
    BY <1>8
       DEF InitPlugin, rest, IInv, NothingYet, DescLoads, KeyIfFile,
           CodeByPlace, HandlersByPlace
  <2>3. (IdentityByPlace /\ StatusByPlace /\ WorkOnlyInLoaded)'
    BY <1>8
       DEF InitPlugin, rest, IInv, TypeOK, IdentityByPlace, StatusByPlace,
           WorkOnlyInLoaded, ProviderBackend
  <2>4. (SessionsByPlace /\ EnvByPlace)'
    BY <1>8
       DEF InitPlugin, rest, IInv, TypeOK, SessionsByPlace,
           SessionsUseDeclared, EnvByPlace, InitSeesExtra, ProviderBackend,
           Declared
  <2> QED
    BY <2>1, <2>2, <2>3, <2>4 DEF IInv
<1>9. CASE AllInitialised
  <2>1. TypeOK'
    BY <1>9 DEF AllInitialised, rest, IInv, TypeOK, Places
  <2>2. (NothingYet /\ DescLoads /\ KeyIfFile /\ CodeByPlace /\ HandlersByPlace)'
    BY <1>9
       DEF AllInitialised, rest, IInv, NothingYet, DescLoads, KeyIfFile,
           CodeByPlace, HandlersByPlace
  <2>3. (IdentityByPlace /\ StatusByPlace /\ WorkOnlyInLoaded)'
    BY <1>9, RunAssumption
       DEF AllInitialised, rest, IInv, IdentityByPlace, StatusByPlace,
           WorkOnlyInLoaded, ProviderBackend, Plugins
  <2>4. (SessionsByPlace /\ EnvByPlace)'
    BY <1>9
       DEF AllInitialised, rest, IInv, SessionsByPlace,
           SessionsUseDeclared, EnvByPlace, InitSeesExtra, ProviderBackend,
           Declared
  <2> QED
    BY <2>1, <2>2, <2>3, <2>4 DEF IInv
<1>10. CASE RegisterPlugin
  <2>1. TypeOK'
    BY <1>10, RunAssumption
       DEF RegisterPlugin, rest, IInv, TypeOK, Statuses, Plugins
  <2>2. (NothingYet /\ DescLoads /\ KeyIfFile /\ CodeByPlace /\ HandlersByPlace)'
    BY <1>10
       DEF RegisterPlugin, rest, IInv, NothingYet, DescLoads, KeyIfFile,
           CodeByPlace, HandlersByPlace
  <2>3. (IdentityByPlace /\ StatusByPlace /\ WorkOnlyInLoaded)'
    BY <1>10
       DEF RegisterPlugin, rest, IInv, TypeOK, IdentityByPlace,
           StatusByPlace, WorkOnlyInLoaded, ProviderBackend
  <2>4. (SessionsByPlace /\ EnvByPlace)'
    BY <1>10
       DEF RegisterPlugin, rest, IInv, SessionsByPlace,
           SessionsUseDeclared, EnvByPlace, InitSeesExtra, ProviderBackend,
           Declared, StatusByPlace
  <2> QED
    BY <2>1, <2>2, <2>3, <2>4 DEF IInv
<1>11. CASE AllRegistered
  <2>1. TypeOK'
    BY <1>11 DEF AllRegistered, rest, IInv, TypeOK, Places
  <2>2. (NothingYet /\ DescLoads /\ KeyIfFile /\ CodeByPlace /\ HandlersByPlace)'
    BY <1>11
       DEF AllRegistered, rest, IInv, NothingYet, DescLoads, KeyIfFile,
           CodeByPlace, HandlersByPlace
  <2>3. (IdentityByPlace /\ StatusByPlace /\ WorkOnlyInLoaded)'
    BY <1>11, RunAssumption
       DEF AllRegistered, rest, IInv, IdentityByPlace, StatusByPlace,
           WorkOnlyInLoaded, ProviderBackend, Plugins
  <2>4. (SessionsByPlace /\ EnvByPlace)'
    BY <1>11
       DEF AllRegistered, rest, IInv, SessionsByPlace, SessionsUseDeclared,
           EnvByPlace, InitSeesExtra, ProviderBackend, Declared
  <2> QED
    BY <2>1, <2>2, <2>3, <2>4 DEF IInv
<1>12. CASE LoadFails
  <2>1. TypeOK'
    BY <1>12 DEF LoadFails, rest, IInv, TypeOK, Places
  <2>2. (NothingYet /\ DescLoads /\ KeyIfFile /\ CodeByPlace /\ HandlersByPlace)'
    BY <1>12
       DEF LoadFails, rest, IInv, NothingYet, DescLoads, KeyIfFile,
           CodeByPlace, HandlersByPlace
  <2>3. (IdentityByPlace /\ StatusByPlace /\ WorkOnlyInLoaded)'
    BY <1>12
       DEF LoadFails, rest, IInv, IdentityByPlace, StatusByPlace,
           WorkOnlyInLoaded, ProviderBackend
  <2>4. (SessionsByPlace /\ EnvByPlace)'
    BY <1>12
       DEF LoadFails, rest, IInv, SessionsByPlace, SessionsUseDeclared,
           EnvByPlace, InitSeesExtra, ProviderBackend, Declared
  <2> QED
    BY <2>1, <2>2, <2>3, <2>4 DEF IInv
<1>13. CASE InstallIdentity
  <2>1. TypeOK'
    BY <1>13, ProviderComplete
       DEF InstallIdentity, loaded, IInv, TypeOK, Places, Identities,
           DescLoads, ProviderBackend
  <2>2. (NothingYet /\ DescLoads /\ KeyIfFile /\ CodeByPlace /\ HandlersByPlace)'
    BY <1>13
       DEF InstallIdentity, loaded, IInv, NothingYet, DescLoads, KeyIfFile,
           CodeByPlace, HandlersByPlace
  <2>3. (IdentityByPlace /\ StatusByPlace /\ WorkOnlyInLoaded)'
    BY <1>13
       DEF InstallIdentity, loaded, IInv, IdentityByPlace, StatusByPlace,
           WorkOnlyInLoaded, ProviderBackend, LoadsProvider, Declared
  <2>4. (SessionsByPlace /\ EnvByPlace)'
    BY <1>13
       DEF InstallIdentity, loaded, IInv, SessionsByPlace,
           SessionsUseDeclared, EnvByPlace, InitSeesExtra, ProviderBackend,
           Declared
  <2> QED
    BY <2>1, <2>2, <2>3, <2>4 DEF IInv
<1>14. CASE InstallFails
  <2>1. TypeOK'
    BY <1>14 DEF InstallFails, loaded, IInv, TypeOK, Places
  <2>2. (NothingYet /\ DescLoads /\ KeyIfFile /\ CodeByPlace /\ HandlersByPlace)'
    BY <1>14
       DEF InstallFails, loaded, IInv, NothingYet, DescLoads, KeyIfFile,
           CodeByPlace, HandlersByPlace
  <2>3. (IdentityByPlace /\ StatusByPlace /\ WorkOnlyInLoaded)'
    BY <1>14
       DEF InstallFails, loaded, IInv, IdentityByPlace, StatusByPlace,
           WorkOnlyInLoaded, ProviderBackend
  <2>4. (SessionsByPlace /\ EnvByPlace)'
    BY <1>14
       DEF InstallFails, loaded, IInv, SessionsByPlace,
           SessionsUseDeclared, EnvByPlace, InitSeesExtra, ProviderBackend,
           Declared
  <2> QED
    BY <2>1, <2>2, <2>3, <2>4 DEF IInv
<1>15. CASE CatchSigint
  <2>1. TypeOK'
    BY <1>15 DEF CatchSigint, loaded, IInv, TypeOK, Places
  <2>2. (NothingYet /\ DescLoads /\ KeyIfFile /\ CodeByPlace /\ HandlersByPlace)'
    BY <1>15
       DEF CatchSigint, loaded, IInv, TypeOK, NothingYet, DescLoads,
           KeyIfFile, CodeByPlace, HandlersByPlace, Signals
  <2>3. (IdentityByPlace /\ StatusByPlace /\ WorkOnlyInLoaded)'
    BY <1>15
       DEF CatchSigint, loaded, IInv, IdentityByPlace, StatusByPlace,
           WorkOnlyInLoaded, Declared
  <2>4. (SessionsByPlace /\ EnvByPlace)'
    BY <1>15
       DEF CatchSigint, loaded, IInv, SessionsByPlace, SessionsUseDeclared,
           EnvByPlace, InitSeesExtra, ProviderBackend, Declared
  <2> QED
    BY <2>1, <2>2, <2>3, <2>4 DEF IInv
<1>16. CASE CatchSigterm
  <2>1. TypeOK'
    BY <1>16 DEF CatchSigterm, loaded, IInv, TypeOK, Places
  <2>2. (NothingYet /\ DescLoads /\ KeyIfFile /\ CodeByPlace /\ HandlersByPlace)'
    BY <1>16
       DEF CatchSigterm, loaded, IInv, TypeOK, NothingYet, DescLoads,
           KeyIfFile, CodeByPlace, HandlersByPlace, Signals
  <2>3. (IdentityByPlace /\ StatusByPlace /\ WorkOnlyInLoaded)'
    BY <1>16
       DEF CatchSigterm, loaded, IInv, IdentityByPlace, StatusByPlace,
           WorkOnlyInLoaded, Declared
  <2>4. (SessionsByPlace /\ EnvByPlace)'
    BY <1>16
       DEF CatchSigterm, loaded, IInv, SessionsByPlace,
           SessionsUseDeclared, EnvByPlace, InitSeesExtra, ProviderBackend,
           Declared
  <2> QED
    BY <2>1, <2>2, <2>3, <2>4 DEF IInv
<1> QED
  BY <1>1, <1>2, <1>3, <1>4, <1>5, <1>6, <1>7, <1>8, <1>9, <1>10, <1>11,
     <1>12, <1>13, <1>14, <1>15, <1>16 DEF Boot

\* A step of the shutdown keeps the invariant.
LEMMA ShutdownKeepsIInv ==
  ASSUME IInv, Shutdown
  PROVE  IInv'
<1> USE DEF BeforeKernel, Loading, Aborting, Serving, Graceful, Ended, Goto, Return
<1>1. CASE LeaveLoop
  <2>1. TypeOK'
    BY <1>1 DEF LeaveLoop, loaded, IInv, TypeOK, Places
  <2>2. (NothingYet /\ DescLoads /\ KeyIfFile /\ CodeByPlace /\ HandlersByPlace)'
    BY <1>1
       DEF LeaveLoop, loaded, IInv, NothingYet, DescLoads, KeyIfFile,
           CodeByPlace, HandlersByPlace
  <2>3. (IdentityByPlace /\ StatusByPlace /\ WorkOnlyInLoaded)'
    BY <1>1
       DEF LeaveLoop, loaded, IInv, IdentityByPlace, StatusByPlace,
           WorkOnlyInLoaded, Declared
  <2>4. (SessionsByPlace /\ EnvByPlace)'
    BY <1>1
       DEF LeaveLoop, loaded, IInv, SessionsByPlace, SessionsUseDeclared,
           EnvByPlace, InitSeesExtra, ProviderBackend, Declared
  <2> QED
    BY <2>1, <2>2, <2>3, <2>4 DEF IInv
<1>2. CASE \E p \in Plugins : Unregister(p)
  <2>1. TypeOK'
    BY <1>2 DEF Unregister, draining, IInv, TypeOK, Statuses
  <2>2. (NothingYet /\ DescLoads /\ KeyIfFile /\ CodeByPlace /\ HandlersByPlace)'
    BY <1>2
       DEF Unregister, draining, IInv, NothingYet, DescLoads, KeyIfFile,
           CodeByPlace, HandlersByPlace
  <2>3. (IdentityByPlace /\ StatusByPlace /\ WorkOnlyInLoaded)'
    BY <1>2
       DEF Unregister, draining, IInv, IdentityByPlace, StatusByPlace,
           WorkOnlyInLoaded, ProviderBackend, Declared
  <2>4. (SessionsByPlace /\ EnvByPlace)'
    BY <1>2
       DEF Unregister, draining, IInv, SessionsByPlace,
           SessionsUseDeclared, EnvByPlace, InitSeesExtra, ProviderBackend,
           Declared
  <2> QED
    BY <2>1, <2>2, <2>3, <2>4 DEF IInv
<1>3. CASE \E p \in Plugins : Unload(p)
  <2>1. TypeOK'
    BY <1>3 DEF Unload, draining, IInv, TypeOK, Statuses
  <2>2. (NothingYet /\ DescLoads /\ KeyIfFile /\ CodeByPlace /\ HandlersByPlace)'
    BY <1>3
       DEF Unload, draining, IInv, NothingYet, DescLoads, KeyIfFile,
           CodeByPlace, HandlersByPlace
  <2>3. (IdentityByPlace /\ StatusByPlace /\ WorkOnlyInLoaded)'
    BY <1>3
       DEF Unload, draining, IInv, IdentityByPlace, StatusByPlace,
           WorkOnlyInLoaded, ProviderBackend, Declared
  <2>4. (SessionsByPlace /\ EnvByPlace)'
    BY <1>3
       DEF Unload, draining, IInv, SessionsByPlace, SessionsUseDeclared,
           EnvByPlace, InitSeesExtra, ProviderBackend, Declared
  <2> QED
    BY <2>1, <2>2, <2>3, <2>4 DEF IInv
<1>4. CASE FinishRun
  <2>1. TypeOK'
    BY <1>4 DEF FinishRun, draining, IInv, TypeOK, Places
  <2>2. (NothingYet /\ DescLoads /\ KeyIfFile /\ CodeByPlace /\ HandlersByPlace)'
    BY <1>4
       DEF FinishRun, draining, IInv, NothingYet, DescLoads, KeyIfFile,
           CodeByPlace, HandlersByPlace
  <2>3. (IdentityByPlace /\ StatusByPlace /\ WorkOnlyInLoaded)'
    BY <1>4
       DEF FinishRun, draining, IInv, IdentityByPlace, StatusByPlace,
           WorkOnlyInLoaded, Declared
  <2>4. (SessionsByPlace /\ EnvByPlace)'
    BY <1>4
       DEF FinishRun, draining, IInv, SessionsByPlace, SessionsUseDeclared,
           EnvByPlace, InitSeesExtra, ProviderBackend, Declared
  <2> QED
    BY <2>1, <2>2, <2>3, <2>4 DEF IInv
<1> QED
  BY <1>1, <1>2, <1>3, <1>4 DEF Shutdown

\* A step of a worker thread or a signal keeps the invariant.
LEMMA WorldKeepsIInv ==
  ASSUME IInv, World
  PROVE  IInv'
<1> USE DEF BeforeKernel, Loading, Aborting, Serving, Graceful, Ended, Goto, Return
<1>1. CASE \E p \in Plugins : Connect(p)
  <2>1. TypeOK'
    BY <1>1 DEF Connect, loaded, IInv, TypeOK
  <2>2. (NothingYet /\ DescLoads /\ KeyIfFile /\ CodeByPlace /\ HandlersByPlace)'
    BY <1>1
       DEF Connect, loaded, IInv, NothingYet, DescLoads, KeyIfFile,
           CodeByPlace, HandlersByPlace
  <2>3. (IdentityByPlace /\ StatusByPlace /\ WorkOnlyInLoaded)'
    BY <1>1
       DEF Connect, loaded, IInv, IdentityByPlace, StatusByPlace,
           WorkOnlyInLoaded, ProviderBackend, Declared
  <2>4. SessionsByPlace' /\ EnvByPlace'
    <3>1. ~BeforeKernel /\ pc # "init"
      BY <1>1 DEF Connect, IInv, NothingYet, StatusByPlace
    <3>2. identity = Declared \/ (identity = NoIdentity /\ ProviderBackend)
      BY <1>1, <3>1
         DEF Connect, IInv, TypeOK, Places, CodeByPlace, IdentityByPlace,
             ProviderBackend, LoadsProvider, Declared
    <3>3. SessionsByPlace'
      BY <1>1, <3>2
         DEF Connect, loaded, IInv, SessionsByPlace, SessionsUseDeclared,
             ProviderBackend, Declared
    <3>4. EnvByPlace'
      BY <1>1
         DEF Connect, loaded, IInv, EnvByPlace, InitSeesExtra,
             ProviderBackend
    <3> QED
      BY <3>3, <3>4
  <2> QED
    BY <2>1, <2>2, <2>3, <2>4 DEF IInv
<1>2. CASE \E p \in Plugins : FinishWork(p)
  <2>1. TypeOK'
    BY <1>2 DEF FinishWork, loaded, IInv, TypeOK
  <2>2. (NothingYet /\ DescLoads /\ KeyIfFile /\ CodeByPlace /\ HandlersByPlace)'
    BY <1>2
       DEF FinishWork, loaded, IInv, NothingYet, DescLoads, KeyIfFile,
           CodeByPlace, HandlersByPlace
  <2>3. (IdentityByPlace /\ StatusByPlace /\ WorkOnlyInLoaded)'
    BY <1>2
       DEF FinishWork, loaded, IInv, IdentityByPlace, StatusByPlace,
           WorkOnlyInLoaded, ProviderBackend, Declared
  <2>4. (SessionsByPlace /\ EnvByPlace)'
    BY <1>2
       DEF FinishWork, loaded, IInv, SessionsByPlace, SessionsUseDeclared,
           EnvByPlace, InitSeesExtra, ProviderBackend, Declared
  <2> QED
    BY <2>1, <2>2, <2>3, <2>4 DEF IInv
<1>3. CASE \E s \in Signals : Signal(s)
  <2>1. TypeOK'
    BY <1>3 DEF Signal, loaded, IInv, TypeOK, Places
  <2>2. (NothingYet /\ DescLoads /\ KeyIfFile /\ CodeByPlace /\ HandlersByPlace)'
    BY <1>3
       DEF Signal, loaded, IInv, NothingYet, DescLoads, KeyIfFile,
           CodeByPlace, HandlersByPlace
  <2>3. (IdentityByPlace /\ StatusByPlace /\ WorkOnlyInLoaded)'
    BY <1>3
       DEF Signal, loaded, IInv, IdentityByPlace, StatusByPlace,
           WorkOnlyInLoaded, ProviderBackend, Declared
  <2>4. (SessionsByPlace /\ EnvByPlace)'
    BY <1>3
       DEF Signal, loaded, IInv, NothingYet, SessionsByPlace,
           SessionsUseDeclared, EnvByPlace, InitSeesExtra, ProviderBackend,
           Declared
  <2> QED
    BY <2>1, <2>2, <2>3, <2>4 DEF IInv
<1> QED
  BY <1>1, <1>2, <1>3 DEF World

LEMMA IInvStep == IInv /\ [Next]_vars => IInv'
<1> SUFFICES ASSUME IInv, [Next]_vars PROVE IInv'
  OBVIOUS
<1>1. CASE UNCHANGED vars
  BY <1>1
     DEF vars, IInv, TypeOK, NothingYet, DescLoads, KeyIfFile,
         IdentityByPlace, StatusByPlace, HandlersByPlace, CodeByPlace,
         SessionsByPlace, EnvByPlace, InitSeesExtra, WorkOnlyInLoaded,
         SessionsUseDeclared, BeforeKernel, Loading, Aborting, Serving,
         Graceful, Declared, ProviderBackend
<1>2. CASE Main
  BY <1>2, BootKeepsIInv, ShutdownKeepsIInv DEF Main
<1>3. CASE World
  BY <1>3, WorldKeepsIInv
<1> QED
  BY <1>1, <1>2, <1>3 DEF Next

LEMMA IInvAlways == Spec => []IInv
BY IInvInit, IInvStep, PTL DEF Spec

-----------------------------------------------------------------------------
(* What follows from it.                                                    *)

\* The variables keep their types, for every manifest and descriptor.
THEOREM TypeCorrect == Spec => []TypeOK
<1>1. IInv => TypeOK
  BY DEF IInv
<1> QED
  BY <1>1, IInvAlways, PTL

\* Every return of cmd_run leaves all plugins unloaded and no work in flight.
THEOREM EveryReturnIsEmpty == Spec => []ReturnsEmpty
<1>1. IInv => ReturnsEmpty
  BY RunAssumption DEF IInv, TypeOK, StatusByPlace, WorkOnlyInLoaded, ReturnsEmpty
<1> QED
  BY <1>1, IInvAlways, PTL

\* A daemon that came up serves with the identity the descriptor declares.
THEOREM NoFallback == Spec => []ServesDeclared
<1>1. IInv => ServesDeclared
  BY DEF IInv, IdentityByPlace, ServesDeclared
<1> QED
  BY <1>1, IInvAlways, PTL

\* Sessions of a file-backed daemon are secured with its file identity, those
\* of a provider-backed one never are.
THEOREM SessionsDeclared == Spec => []SessionsByBackend
<1>1. IInv => SessionsByBackend
  <2> SUFFICES ASSUME IInv PROVE SessionsByBackend
    OBVIOUS
  <2>1. CASE BeforeKernel
    BY <2>1 DEF IInv, NothingYet, SessionsByBackend
  <2>2. CASE ~BeforeKernel
    BY <2>2 DEF IInv, SessionsByPlace, SessionsUseDeclared, SessionsByBackend, Declared,
                ProviderBackend, LoadsProvider, FileIdentity, NoIdentity, SignedBy
  <2> QED
    BY <2>1, <2>2
<1> QED
  BY <1>1, IInvAlways, PTL

\* Every plugin was initialised with the values of the descriptor's extra.
THEOREM ExtraReachesPlugins == Spec => []InitSeesExtra
<1>1. IInv => InitSeesExtra
  BY DEF IInv, EnvByPlace
<1> QED
  BY <1>1, IInvAlways, PTL

\* A signal is caught only by a daemon that is completely up.
THEOREM CaughtWhenWhole == Spec => []CaughtOnlyWhenWhole
<1>1. IInv => CaughtOnlyWhenWhole
  BY DEF IInv, TypeOK, Places, BeforeKernel, Loading, Aborting, Serving, Graceful,
         HandlersByPlace, IdentityByPlace, StatusByPlace, CaughtOnlyWhenWhole
<1> QED
  BY <1>1, IInvAlways, PTL

\* From the main loop on no signal kills the process.
THEOREM SignalsCaughtInService == Spec => NeverKilledWhileServing
<1> DEFINE Step == pc' = "killed" => pc # "poll" /\ ~Graceful
<1>1. IInv /\ [Next]_vars => [Step]_vars
  <2> SUFFICES ASSUME IInv, Next, pc' = "killed" PROVE pc # "poll" /\ ~Graceful
    BY DEF vars
  <2>1. CASE Main
    BY <2>1 DEF Main, Boot, Shutdown, Goto, Return, ParseArgs, LoadDescriptor,
       ExportExtra, LoadIdentityFile, LoadConfig, ParseManifest, StartKernel,
       InitPlugin, AllInitialised, RegisterPlugin, AllRegistered, LoadFails,
       InstallIdentity, InstallFails, CatchSigint, CatchSigterm, LeaveLoop,
       Unregister, Unload, FinishRun, Graceful
  <2>2. CASE World
    BY <2>2 DEF World, Connect, FinishWork, Signal, Ended, IInv, HandlersByPlace,
                Graceful
  <2> QED
    BY <2>1, <2>2 DEF Next
<1> QED
  BY <1>1, IInvAlways, PTL DEF Spec, NeverKilledWhileServing

\* The shutdown is the answer to the first signal.
THEOREM FirstSignalKept == Spec => FirstSignalStays
<1>1. [Next]_vars => [quit # NoSignal => quit' = quit]_vars
  <2> SUFFICES ASSUME Next, quit # NoSignal PROVE quit' = quit
    BY DEF vars
  <2>1. CASE Main
    BY <2>1 DEF Main, Boot, Shutdown, booted, rest, loaded, draining, ParseArgs,
       LoadDescriptor, ExportExtra, LoadIdentityFile, LoadConfig, ParseManifest,
       StartKernel, InitPlugin, AllInitialised, RegisterPlugin, AllRegistered,
       LoadFails, InstallIdentity, InstallFails, CatchSigint, CatchSigterm,
       LeaveLoop, Unregister, Unload, FinishRun
  <2>2. CASE World
    BY <2>2 DEF World, Connect, FinishWork, Signal
  <2> QED
    BY <2>1, <2>2 DEF Next
<1> QED
  BY <1>1, PTL DEF Spec, FirstSignalStays

-----------------------------------------------------------------------------
(* The safety part of DaemonLifecycle.                                      *)

\* A drain that will return 0 was asked for.
GracefulOnRequest == pc = "drain" /\ rc = 0 => quit # NoSignal

\* Only LeaveLoop starts such a drain, and a stored signal stays.
LEMMA GracefulStep ==
  IInv /\ GracefulOnRequest /\ [Next]_vars => GracefulOnRequest'
<1> SUFFICES ASSUME IInv, GracefulOnRequest, [Next]_vars PROVE GracefulOnRequest'
  OBVIOUS
<1>1. CASE UNCHANGED vars
  BY <1>1 DEF vars, GracefulOnRequest
<1>2. CASE Boot
  BY <1>2 DEF Boot, Goto, Return, ParseArgs, LoadDescriptor, ExportExtra,
     LoadIdentityFile, LoadConfig, ParseManifest, StartKernel, InitPlugin,
     AllInitialised, RegisterPlugin, AllRegistered, LoadFails, InstallIdentity,
     InstallFails, CatchSigint, CatchSigterm, GracefulOnRequest
<1>3. CASE Shutdown
  BY <1>3 DEF Shutdown, LeaveLoop, Unregister, Unload, FinishRun, draining,
     GracefulOnRequest
<1>4. CASE World
  BY <1>4 DEF World, Connect, FinishWork, Signal, Signals, NoSignal,
     GracefulOnRequest
<1> QED
  BY <1>1, <1>2, <1>3, <1>4 DEF Next, Main

\* Every step of run is a step of the lifecycle or leaves it as it is.
LEMMA LifecycleStep ==
  IInv /\ GracefulOnRequest /\ [Next]_vars => [Lifecycle!Next]_(Lifecycle!lifecycle)
<1> SUFFICES ASSUME IInv, GracefulOnRequest, [Next]_vars
             PROVE  Lifecycle!Next \/ UNCHANGED <<Phase, rc, Who, quit>>
  BY DEF Lifecycle!lifecycle
<1> USE DEF Phase, Who
<1>1. CASE UNCHANGED vars
  BY <1>1 DEF vars
<1>2. CASE ParseArgs \/ LoadDescriptor \/ LoadIdentityFile \/ LoadConfig \/ ParseManifest
  <2>1. pc \in {"args", "descriptor", "identity", "config", "manifest"} /\ rc = -1
    BY <1>2 DEF ParseArgs, LoadDescriptor, LoadIdentityFile, LoadConfig,
       ParseManifest, IInv, CodeByPlace, BeforeKernel
  <2>2. quit' = quit
    BY <1>2 DEF ParseArgs, LoadDescriptor, LoadIdentityFile, LoadConfig,
       ParseManifest, booted
  <2>3. \/ pc' \in {"descriptor", "export", "config", "manifest", "kernel"} /\ rc' = rc
        \/ pc' = "exited" /\ rc' \in {1, 2}
    BY <1>2 DEF ParseArgs, LoadDescriptor, LoadIdentityFile, LoadConfig,
       ParseManifest, Goto, Return
  <2> QED
    BY <2>1, <2>2, <2>3 DEF Lifecycle!Next, Lifecycle!Progress, Lifecycle!Fail
<1>3. CASE ExportExtra \/ StartKernel \/ InitPlugin \/ AllInitialised \/ RegisterPlugin
           \/ AllRegistered \/ InstallIdentity \/ CatchSigint
  <2>1. rc = -1
    BY <1>3 DEF ExportExtra, StartKernel, InitPlugin, AllInitialised, RegisterPlugin,
       AllRegistered, InstallIdentity, CatchSigint, IInv, CodeByPlace,
       BeforeKernel, Loading, Serving
  <2>2. /\ pc \in {"export", "kernel", "init", "register", "install", "sigint"}
        /\ pc' \in {"identity", "init", "register", "install", "sigint", "sigterm"}
        /\ rc' = rc /\ quit' = quit
    BY <1>3 DEF ExportExtra, StartKernel, InitPlugin, AllInitialised, RegisterPlugin,
       AllRegistered, InstallIdentity, CatchSigint, Goto, booted, rest
  <2> QED
    BY <2>1, <2>2
<1>4. CASE LoadFails \/ InstallFails
  BY <1>4 DEF LoadFails, InstallFails, rest, IInv, CodeByPlace, Loading,
     Lifecycle!Next, Lifecycle!Progress, Lifecycle!Fail
<1>5. CASE CatchSigterm
  <2>1. identity \in Identities \ {NoIdentity}
    BY <1>5 DEF CatchSigterm, IInv, TypeOK, IdentityByPlace, Serving, Declared,
       SignedBy, FileIdentity, NoIdentity
  <2> QED
    BY <1>5, <2>1 DEF CatchSigterm, Goto, IInv, CodeByPlace, Serving,
       Lifecycle!Next, Lifecycle!Progress, Lifecycle!ComeUp
<1>6. CASE LeaveLoop
  BY <1>6 DEF LeaveLoop, loaded, Lifecycle!Next, Lifecycle!Progress, Lifecycle!Drain
<1>7. CASE \E p \in Plugins : Unregister(p) \/ Unload(p)
  BY <1>7 DEF Unregister, Unload, draining
<1>8. CASE FinishRun
  BY <1>8 DEF FinishRun, draining, Lifecycle!Next, Lifecycle!Progress, Lifecycle!Finish
<1>9. CASE \E p \in Plugins : Connect(p) \/ FinishWork(p)
  BY <1>9 DEF Connect, FinishWork
<1>10. ASSUME NEW s \in Signals, Signal(s)
       PROVE  Lifecycle!Next \/ UNCHANGED <<Phase, rc, Who, quit>>
  <2>1. pc \in Places \ {"exited", "killed"} /\ rc' = rc /\ identity' = identity
    BY <1>10 DEF Signal, Ended, IInv, TypeOK
  <2>2. CASE handler[s] = "default"
    <3>1. pc' = "killed" /\ quit' = quit
      BY <1>10, <2>2 DEF Signal
    <3>2. pc # "poll" /\ ~(pc = "drain" /\ rc = 0)
      BY <2>2 DEF IInv, HandlersByPlace, Graceful
    <3>3. rc # 0
      BY <2>1, <3>2 DEF Places, IInv, CodeByPlace, BeforeKernel, Loading, Serving
    <3> QED
      BY <2>1, <3>1, <3>2, <3>3 DEF Lifecycle!Next, Lifecycle!Kill
  <2>3. CASE handler[s] # "default" /\ quit = NoSignal
    <3>1. pc' = pc /\ quit' = s
      BY <1>10, <2>3 DEF Signal
    <3>2. pc # "drain"
      BY <2>3 DEF IInv, CodeByPlace, HandlersByPlace, Aborting, GracefulOnRequest
    <3> QED
      BY <2>1, <3>1, <3>2, <2>3 DEF Places, Lifecycle!Next, Lifecycle!Request
  <2>4. CASE handler[s] # "default" /\ quit # NoSignal
    BY <1>10, <2>1, <2>4 DEF Signal
  <2> QED
    BY <2>2, <2>3, <2>4
<1> QED
  BY <1>1, <1>2, <1>3, <1>4, <1>5, <1>6, <1>7, <1>8, <1>9, <1>10
     DEF Next, Main, Boot, Shutdown, World

\* For every manifest, descriptor and environment, run does what DaemonLifecycle
\* allows: one identity, no end of service but on request, no late kill.
THEOREM LifecycleSafe == Spec => Lifecycle!SafeSpec
<1>1. Init => Lifecycle!Init
  BY DEF Init, Lifecycle!Init, Phase, Who
<1>2. Init => GracefulOnRequest
  BY DEF Init, GracefulOnRequest
<1> QED
  BY <1>1, <1>2, GracefulStep, LifecycleStep, IInvAlways, PTL
     DEF Spec, Lifecycle!SafeSpec
-----------------------------------------------------------------------------
(* The exit code.                                                           *)

\* The step that decides a return, or a signal, keeps code and signal in step.
LEMMA ExitCodeStep ==
  IInv /\ GracefulOnRequest /\ ExitCodeTellsWhy /\ [Next]_vars => ExitCodeTellsWhy'
<1> SUFFICES ASSUME IInv, GracefulOnRequest, ExitCodeTellsWhy, [Next]_vars
             PROVE  ExitCodeTellsWhy'
  OBVIOUS
<1>1. CASE UNCHANGED vars
  BY <1>1 DEF vars, ExitCodeTellsWhy
<1>2. CASE Boot
  <2>1. pc' = "exited" => rc' \in {1, 2} /\ BeforeKernel /\ quit' = quit
    BY <1>2 DEF Boot, Goto, Return, ParseArgs, LoadDescriptor, ExportExtra,
       LoadIdentityFile, LoadConfig, ParseManifest, StartKernel, InitPlugin,
       AllInitialised, RegisterPlugin, AllRegistered, LoadFails, InstallIdentity,
       InstallFails, CatchSigint, CatchSigterm, BeforeKernel, booted
  <2> QED
    BY <2>1 DEF IInv, HandlersByPlace, ExitCodeTellsWhy
<1>3. CASE FinishRun
  BY <1>3 DEF FinishRun, draining, IInv, CodeByPlace, HandlersByPlace, Aborting,
     GracefulOnRequest, ExitCodeTellsWhy
<1>4. CASE LeaveLoop \/ \E p \in Plugins : Unregister(p) \/ Unload(p)
  BY <1>4 DEF LeaveLoop, Unregister, Unload, ExitCodeTellsWhy
<1>5. CASE World
  BY <1>5 DEF World, Connect, FinishWork, Signal, Ended, ExitCodeTellsWhy
<1> QED
  BY <1>1, <1>2, <1>3, <1>4, <1>5 DEF Next, Main, Shutdown

\* For every manifest and descriptor, exit code 0 answers a caught signal, and
\* every caught signal gets it.
THEOREM ExitCodesExplained == Spec => []ExitCodeTellsWhy
<1>1. Init => GracefulOnRequest /\ ExitCodeTellsWhy
  BY DEF Init, GracefulOnRequest, ExitCodeTellsWhy
<1> QED
  BY <1>1, GracefulStep, ExitCodeStep, IInvAlways, PTL DEF Spec

-----------------------------------------------------------------------------
(* The measure of the main thread.                                          *)

\* There are at most PluginCount plugins in any of the counts.
LEMMA CountsTyped ==
  ASSUME NEW s
  PROVE  /\ IsFiniteSet(PluginsIn(s))
         /\ Cardinality(PluginsIn(s)) \in 0..PluginCount
<1>1. IsFiniteSet(Plugins) /\ Cardinality(Plugins) = PluginCount
  BY RunAssumption, FS_Interval DEF Plugins
<1>2. PluginsIn(s) \in SUBSET Plugins
  BY DEF PluginsIn
<1>3. /\ IsFiniteSet(PluginsIn(s))
      /\ Cardinality(PluginsIn(s)) <= PluginCount
  BY <1>1, <1>2, FS_Subset
<1> QED
  BY <1>3, FS_CardinalityType, RunAssumption

\* The drain never has more ahead of it than with every plugin registered.
LEMMA DrainBounded == DrainAhead \in 1..FullDrain
<1> DEFINE m == Cardinality(PluginsIn({"inited", "registered", "stopping"}))
           n == Cardinality(PluginsIn({"registered"}))
<1>1. m \in 0..PluginCount /\ n \in 0..PluginCount
  BY CountsTyped
<1>2. DrainAhead = m + n + 1
  BY DEF DrainAhead
<1> HIDE DEF m, n
<1> QED
  BY <1>1, <1>2, RunAssumption DEF FullDrain

\* Taking one plugin down leaves less to take down.
LEMMA DrainStep ==
  ASSUME TypeOK, NEW p \in Plugins, Unregister(p) \/ Unload(p)
  PROVE  DrainAhead' < DrainAhead
<1> DEFINE A == PluginsIn({"inited", "registered", "stopping"})
           R == PluginsIn({"registered"})
<1>1. /\ IsFiniteSet(A) /\ IsFiniteSet(R)
      /\ Cardinality(A) \in Nat /\ Cardinality(R) \in Nat
  BY CountsTyped, RunAssumption
<1>2. CASE Unregister(p)
  <2>1. A' = A /\ R' = R \ {p} /\ p \in R
    BY <1>2 DEF Unregister, PluginsIn, TypeOK, Statuses
  <2>2. Cardinality(R') = Cardinality(R) - 1
    BY <1>1, <2>1, FS_RemoveElement
  <2> QED
    BY <1>1, <2>1, <2>2 DEF DrainAhead
<1>3. CASE Unload(p)
  <2>1. A' = A \ {p} /\ p \in A /\ R' = R
    BY <1>3 DEF Unload, PluginsIn, TypeOK, Statuses
  <2>2. Cardinality(A') = Cardinality(A) - 1
    BY <1>1, <2>1, FS_RemoveElement
  <2> QED
    BY <1>1, <2>1, <2>2 DEF DrainAhead
<1> QED
  BY <1>2, <1>3

\* The count of steps as a formula of place and plugin.
CountByPlace ==
    /\ Ended => Ahead = 0
    /\ pc = "drain" => Ahead = DrainAhead
    /\ pc = "poll" => Ahead = FullDrain + 1
    /\ pc = "sigterm" => Ahead = FullDrain + 2
    /\ pc = "sigint" => Ahead = FullDrain + 3
    /\ pc = "install" => Ahead = FullDrain + 4
    /\ pc = "register" => Ahead = FullDrain + PluginCount - at + 6
    /\ pc = "init" => Ahead = FullDrain + 2 * PluginCount - at + 7
    /\ pc = "kernel" => Ahead = FullDrain + 2 * PluginCount + 7
    /\ pc = "manifest" => Ahead = FullDrain + 2 * PluginCount + 8
    /\ pc = "config" => Ahead = FullDrain + 2 * PluginCount + 9
    /\ pc = "identity" => Ahead = FullDrain + 2 * PluginCount + 10
    /\ pc = "export" => Ahead = FullDrain + 2 * PluginCount + 11
    /\ pc = "descriptor" => Ahead = FullDrain + 2 * PluginCount + 12
    /\ pc = "args" => Ahead = FullDrain + 2 * PluginCount + 13

LEMMA AheadByPlace == TypeOK => CountByPlace
<1> SUFFICES ASSUME TypeOK PROVE CountByPlace
  OBVIOUS
<1>1. PluginCount \in Nat /\ FullDrain \in Nat /\ at \in Int
  BY RunAssumption DEF FullDrain, TypeOK
<1>2. DOMAIN ToDrain = {"install", "sigint", "sigterm", "poll"}
  BY DEF ToDrain
<1>3. Ended => Ahead = 0
  BY DEF Ahead
<1>4. pc = "drain" => Ahead = DrainAhead
  BY DEF Ahead, Ended
<1>5. pc \in {"install", "sigint", "sigterm", "poll"} => Ahead = FullDrain + ToDrain[pc]
  BY <1>2 DEF Ahead, Ended
<1>6. pc = "register" => Ahead = FullDrain + 4 + (PluginCount + 2 - at)
  BY <1>2 DEF Ahead, Ended
<1>7. pc = "init" => Ahead = FullDrain + 4 + (PluginCount + 1) + (PluginCount + 2 - at)
  BY <1>2 DEF Ahead, Ended
<1>8. pc \in {"args", "descriptor", "export", "identity", "config", "manifest", "kernel"}
        => Ahead = FullDrain + 4 + 2 * (PluginCount + 1) + ToLoad[pc]
  BY <1>2 DEF Ahead, Ended
<1> QED
  BY <1>1, <1>3, <1>4, <1>5, <1>6, <1>7, <1>8 DEF ToDrain, ToLoad, CountByPlace

\* The same, and the bounds of the drain, of the next state.
LEMMA NextCounts ==
  /\ TypeOK' => CountByPlace'
  /\ DrainAhead' \in 1..FullDrain
<1>1. TypeOK' => CountByPlace'
  BY AheadByPlace, PTL
<1>2. (DrainAhead \in 1..FullDrain)'
  BY DrainBounded, PTL
<1> QED
  BY <1>1, <1>2 DEF FullDrain

\* Only a daemon that has ended has nothing ahead of it.
LEMMA AheadTyped == TypeOK => Ahead \in Nat /\ (~Ended => 0 < Ahead)
<1> SUFFICES ASSUME TypeOK PROVE Ahead \in Nat /\ (~Ended => 0 < Ahead)
  OBVIOUS
<1>1. /\ PluginCount \in Nat /\ FullDrain \in Nat /\ at \in 1..(PluginCount + 1)
      /\ DrainAhead \in 1..FullDrain
  BY RunAssumption, DrainBounded DEF FullDrain, TypeOK
<1>2. pc \in Places /\ CountByPlace
  BY AheadByPlace DEF TypeOK
<1> QED
  BY <1>1, <1>2 DEF Places, CountByPlace, Ended

LEMMA NextAheadTyped == TypeOK' => Ahead' \in Nat
<1>1. TypeOK => Ahead \in Nat
  BY AheadTyped
<1>2. TypeOK' => (Ahead \in Nat)'
  BY <1>1, PTL
<1> QED
  BY <1>2

\* A step of the main thread before the plugins are loaded.
LEMMA StartupAdvances ==
  ASSUME TypeOK, TypeOK', NothingYet,
         \/ ParseArgs \/ LoadDescriptor \/ ExportExtra \/ LoadIdentityFile
         \/ LoadConfig \/ ParseManifest \/ StartKernel
  PROVE  Ahead' < Ahead
<1>1. PluginCount \in Nat /\ FullDrain \in Nat /\ FullDrain' = FullDrain
  BY RunAssumption DEF FullDrain
<1>2. at = 1 /\ at' = 1
  BY DEF NothingYet, BeforeKernel, booted, ParseArgs, LoadDescriptor, ExportExtra,
     LoadIdentityFile, LoadConfig, ParseManifest, StartKernel
<1>3. \/ pc = "args" /\ pc' \in {"descriptor", "exited"}
      \/ pc = "descriptor" /\ pc' \in {"export", "exited"}
      \/ pc = "export" /\ pc' = "identity"
      \/ pc = "identity" /\ pc' \in {"config", "exited"}
      \/ pc = "config" /\ pc' \in {"manifest", "exited"}
      \/ pc = "manifest" /\ pc' \in {"kernel", "exited"}
      \/ pc = "kernel" /\ pc' = "init"
  BY DEF Goto, Return, ParseArgs, LoadDescriptor, ExportExtra, LoadIdentityFile,
     LoadConfig, ParseManifest, StartKernel
<1>4. Ended' <=> pc' \in {"exited", "killed"}
  BY DEF Ended
<1> QED
  BY <1>1, <1>2, <1>3, <1>4, AheadByPlace, NextCounts DEF CountByPlace

\* A step of the load, of the way to the main loop, or out of it.
LEMMA LoadAdvances ==
  ASSUME TypeOK, TypeOK',
         \/ InitPlugin \/ AllInitialised \/ RegisterPlugin \/ AllRegistered
         \/ LoadFails \/ InstallIdentity \/ InstallFails \/ CatchSigint
         \/ CatchSigterm \/ LeaveLoop
  PROVE  Ahead' < Ahead
<1>1. /\ PluginCount \in Nat /\ FullDrain \in Nat /\ FullDrain' = FullDrain
      /\ at \in 1..(PluginCount + 1)
  BY RunAssumption DEF FullDrain, TypeOK
<1>2. \/ pc = "init" /\ pc' = "init" /\ at' = at + 1
      \/ pc = "init" /\ pc' = "register" /\ at = PluginCount + 1 /\ at' = 1
      \/ pc = "register" /\ pc' = "register" /\ at' = at + 1
      \/ pc = "register" /\ pc' = "install" /\ at = PluginCount + 1
      \/ pc \in {"init", "register", "install", "poll"} /\ pc' = "drain"
      \/ pc = "install" /\ pc' = "sigint"
      \/ pc = "sigint" /\ pc' = "sigterm"
      \/ pc = "sigterm" /\ pc' = "poll"
  BY DEF Goto, InitPlugin, AllInitialised, RegisterPlugin, AllRegistered, LoadFails,
     InstallIdentity, InstallFails, CatchSigint, CatchSigterm, LeaveLoop
<1>3. DrainAhead' \in 1..FullDrain
  BY NextCounts
<1> QED
  BY <1>1, <1>2, <1>3, AheadByPlace, NextCounts DEF CountByPlace

\* Any step, of whatever thread.
LEMMA StepAdvances ==
  ASSUME IInv, TypeOK', Next
  PROVE  Ahead' <= Ahead /\ (Main => Ahead' < Ahead)
<1>1. Ahead \in Nat /\ (~Ended => 0 < Ahead)
  BY AheadTyped DEF IInv
<1>2. CASE Main
  <2>1. Ahead' < Ahead
    <3>1. CASE \E p \in Plugins : Unregister(p) \/ Unload(p)
      <4>1. pc = "drain" /\ pc' = "drain"
        BY <3>1 DEF Unregister, Unload
      <4>2. DrainAhead' < DrainAhead
        BY <3>1, DrainStep DEF IInv
      <4> QED
        BY <4>1, <4>2, AheadByPlace, NextCounts DEF IInv, CountByPlace
    <3>2. CASE FinishRun
      <4>1. pc = "drain" /\ Ended'
        BY <3>2 DEF FinishRun, Ended
      <4>2. Ahead' = 0 /\ ~Ended
        BY <4>1, NextCounts DEF CountByPlace, Ended
      <4> QED
        BY <1>1, <4>2
    <3> QED
      BY <1>2, <3>1, <3>2, StartupAdvances, LoadAdvances
         DEF IInv, Main, Boot, Shutdown
  <2>2. Ahead' \in Nat
    BY NextAheadTyped
  <2> QED
    BY <1>1, <2>1, <2>2
<1>3. CASE World /\ ~Main
  <2>1. Ahead' = Ahead \/ (Ended' /\ ~Ended)
    <3>1. CASE pc' = pc /\ at' = at /\ status' = status
      BY <3>1 DEF Ahead, DrainAhead, PluginsIn, Ended
    <3>2. CASE ~(pc' = pc /\ at' = at /\ status' = status)
      BY <1>3, <3>2 DEF World, Connect, FinishWork, Signal, loaded, Ended
    <3> QED
      BY <3>1, <3>2
  <2>2. Ended' => Ahead' = 0
    BY NextCounts DEF CountByPlace
  <2> QED
    BY <1>1, <1>3, <2>1, <2>2
<1> QED
  BY <1>2, <1>3 DEF Next

\* That many at the start.
LEMMA AheadAtFirst == Init => Ahead = 4 * PluginCount + 14
BY RunAssumption DEF Init, Ahead, Ended, ToDrain, ToLoad, FullDrain

\* For any number of plugins the main thread returns after at most
\* 4 * PluginCount + 14 steps: none leads back, whatever fails, and whatever
\* threads and signals do in between.
THEOREM BoundedSteps == Spec => Ahead = 4 * PluginCount + 14 /\ MainAdvances
<1>1. IInv /\ IInv' /\ [Next]_vars => [Ahead' <= Ahead /\ (Main => Ahead' < Ahead)]_vars
  BY StepAdvances DEF IInv
<1> QED
  BY <1>1, AheadAtFirst, IInvAlways, PTL DEF Spec, MainAdvances
=============================================================================
