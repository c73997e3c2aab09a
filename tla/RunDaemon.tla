------------------------------ MODULE RunDaemon ------------------------------
(***************************************************************************)
(* One process of `goodnetd run`: cmd_run on the main thread from argument  *)
(* parsing to return, the worker threads of the plugins it loads, and the   *)
(* signals SIGINT and SIGTERM, which may arrive at any moment.              *)
(*                                                                         *)
(* Kernel and PluginManager live in a submodule that is not part of the     *)
(* repository; their two-phase load with rollback and their draining        *)
(* shutdown are modelled from the way run.cpp uses and describes them.      *)
(***************************************************************************)
EXTENDS Integers, FiniteSets, Descriptor

CONSTANTS PluginCount,   \* the manifest's entries, in order, are 1..PluginCount
          Provides,      \* Provides[p]: the signer extensions p registers
          Links,         \* plugins whose worker threads take sessions
          Contents,      \* what may be at the descriptor path at boot
          InitialEnvs    \* environments the process may inherit

Plugins == 1..PluginCount

ASSUME RunAssumption ==
    /\ PluginCount \in Nat
    /\ Provides \in [Plugins -> SUBSET ExtensionIds]
    /\ Links \subseteq Plugins
    /\ Contents \subseteq Content
    /\ InitialEnvs \subseteq [EnvVars -> ExtraValues \cup {None}]

Signals == {"SIGINT", "SIGTERM"}

NoSignal == "none"

VARIABLES pc,         \* where the main thread is
          rc,         \* the exit code, once it is decided
          desc,       \* the descriptor content load_identity_descriptor read
          loadedKey,  \* NodeIdentity::load_from_file succeeded
          env,        \* the environment of the process
          at,         \* the next plugin of the current load phase
          status,     \* status[p]: how far plugin p is loaded
          initEnv,    \* initEnv[p]: the environment gn_plugin_init saw
          identity,   \* the kernel's node identity
          handler,    \* disposition of each signal
          quit,       \* g_quit_signal
          working,    \* plugins with work in flight on their threads
          sessions    \* identities that sessions were secured with

vars == <<pc, rc, desc, loadedKey, env, at, status, initEnv, identity,
          handler, quit, working, sessions>>

Places == {"args", "descriptor", "export", "identity", "config", "manifest",
           "kernel", "init", "register", "install", "sigint", "sigterm",
           "poll", "drain", "exited", "killed"}

NoIdentity   == [kind |-> "none"]
FileIdentity == [kind |-> "file"]
SignedBy(e, l) == [kind |-> "provider", extension_id |-> e, key_label |-> l]

Identities == {NoIdentity, FileIdentity}
                 \cup {SignedBy(e, l) : e \in ExtensionIds, l \in KeyLabels}

Ended == pc \in {"exited", "killed"}

\* provider_backend in cmd_run.
ProviderBackend == LoadsProvider(desc)

\* Mutant of Init: the handlers are in place before anything is loaded.
InitHandlersFirst ==
    /\ pc = "args"
    /\ rc = -1
    /\ desc = Absent
    /\ loadedKey = FALSE
    /\ env \in InitialEnvs
    /\ at = 1
    /\ status = [p \in Plugins |-> "unloaded"]
    /\ initEnv = [p \in Plugins |-> env]
    /\ identity = NoIdentity
    /\ handler = [s \in Signals |-> "caught"]
    /\ quit = NoSignal
    /\ working = {}
    /\ sessions = {}

Init ==
    /\ pc = "args"
    /\ rc = -1
    /\ desc = Absent
    /\ loadedKey = FALSE
    /\ env \in InitialEnvs
    /\ at = 1
    /\ status = [p \in Plugins |-> "unloaded"]
    /\ initEnv = [p \in Plugins |-> env]
    /\ identity = NoIdentity
    /\ handler = [s \in Signals |-> "default"]
    /\ quit = NoSignal
    /\ working = {}
    /\ sessions = {}

-----------------------------------------------------------------------------
(* The main thread before any plugin is loaded.                             *)

Goto(place) == pc' = place /\ UNCHANGED rc

Return(code) == pc' = "exited" /\ rc' = code

booted == <<at, status, initEnv, identity, handler, quit, working, sessions>>

\* parse_args: unknown flag, missing value, missing --config or --manifest.
ParseArgs ==
    /\ pc = "args"
    /\ Goto("descriptor") \/ Return(2)
    /\ UNCHANGED <<desc, loadedKey, env, booted>>

LoadDescriptor ==
    /\ pc = "descriptor"
    /\ desc' \in Contents
    /\ IF LoadAborts(desc') THEN Return(1) ELSE Goto("export")
    /\ UNCHANGED <<loadedKey, env, booted>>

ExportExtra ==
    /\ pc = "export"
    /\ env' = IF ProviderBackend THEN Exported(desc, env) ELSE env
    /\ Goto("identity")
    /\ UNCHANGED <<desc, loadedKey, booted>>

\* File-backed: --identity must name a file that loads.  Provider-backed:
\* nothing to do yet.
LoadIdentityFile ==
    /\ pc = "identity"
    /\ \/ ProviderBackend /\ Goto("config") /\ UNCHANGED loadedKey
       \/ ~ProviderBackend /\ loadedKey' = TRUE /\ Goto("config")
       \/ /\ ~ProviderBackend
          /\ \E code \in {1, 2} : Return(code)
          /\ UNCHANGED loadedKey
    /\ UNCHANGED <<desc, env, booted>>

LoadConfig ==
    /\ pc = "config"
    /\ Goto("manifest") \/ Return(1)
    /\ UNCHANGED <<desc, loadedKey, env, booted>>

ParseManifest ==
    /\ pc = "manifest"
    /\ Goto("kernel") \/ Return(1)
    /\ UNCHANGED <<desc, loadedKey, env, booted>>

\* Mutant of StartKernel: the file-backed identity is left for later.
StartKernelBare ==
    /\ pc = "kernel"
    /\ Goto("init")
    /\ UNCHANGED <<desc, loadedKey, env, identity, at, status, initEnv, handler,
                   quit, working, sessions>>

\* Log, kernel, limits, protocol layer, the identity when it is file-backed,
\* host context, PluginManager with the manifest required.
StartKernel ==
    /\ pc = "kernel"
    /\ identity' = IF loadedKey THEN FileIdentity ELSE NoIdentity
    /\ Goto("init")
    /\ UNCHANGED <<desc, loadedKey, env, at, status, initEnv, handler, quit,
                   working, sessions>>

-----------------------------------------------------------------------------
(* PluginManager::load: every plugin is initialised, then every plugin is   *)
(* registered; a failure rolls back what was loaded.                        *)

rest == <<desc, loadedKey, env, identity, handler, quit, working, sessions>>

InitPlugin ==
    /\ pc = "init" /\ at \in Plugins
    /\ status' = [status EXCEPT ![at] = "inited"]
    /\ initEnv' = [initEnv EXCEPT ![at] = env]
    /\ at' = at + 1
    /\ UNCHANGED <<pc, rc, rest>>

AllInitialised ==
    /\ pc = "init" /\ at = PluginCount + 1
    /\ Goto("register")
    /\ at' = 1
    /\ UNCHANGED <<status, initEnv, rest>>

RegisterPlugin ==
    /\ pc = "register" /\ at \in Plugins
    /\ status' = [status EXCEPT ![at] = "registered"]
    /\ at' = at + 1
    /\ UNCHANGED <<pc, rc, initEnv, rest>>

AllRegistered ==
    /\ pc = "register" /\ at = PluginCount + 1
    /\ Goto("install")
    /\ UNCHANGED <<at, status, initEnv, rest>>

\* Mutant of LoadFails: the load is tried again from its first plugin.
LoadFailsRetries ==
    /\ pc \in {"init", "register"} /\ at \in Plugins
    /\ pc' = "init" /\ at' = 1
    /\ UNCHANGED <<rc, status, initEnv, rest>>

\* The integrity gate, dlopen, gn_plugin_init or gn_plugin_register failed.
LoadFails ==
    /\ pc \in {"init", "register"} /\ at \in Plugins
    /\ pc' = "drain" /\ rc' = 1
    /\ UNCHANGED <<at, status, initEnv, rest>>

-----------------------------------------------------------------------------
(* From loaded plugins to the main loop.                                    *)

loaded == <<desc, loadedKey, env, at, status, initEnv>>

Queryable(e) == \E p \in Plugins : status[p] = "registered" /\ e \in Provides[p]

\* Mutant of InstallIdentity: a missing extension is only a warning.
InstallIdentityIfFound ==
    /\ pc = "install"
    /\ identity' = IF ProviderBackend /\ Queryable(desc.extension_id)
                   THEN SignedBy(desc.extension_id, desc.key_label)
                   ELSE identity
    /\ Goto("sigint")
    /\ UNCHANGED <<loaded, handler, quit, working, sessions>>

InstallIdentity ==
    /\ pc = "install"
    /\ \/ ~ProviderBackend /\ UNCHANGED identity
       \/ /\ ProviderBackend
          /\ Queryable(desc.extension_id)
          /\ identity' = SignedBy(desc.extension_id, desc.key_label)
    /\ Goto("sigint")
    /\ UNCHANGED <<loaded, handler, quit, working, sessions>>

\* Mutant of InstallFails: it returns without plugins.shutdown().
InstallFailsAtOnce ==
    /\ pc = "install"
    /\ ProviderBackend
    /\ Return(1)
    /\ UNCHANGED <<loaded, identity, handler, quit, working, sessions>>

\* No such extension, a vtable that is too small, or a signer that fails:
\* plugins.shutdown(), then return 1.
InstallFails ==
    /\ pc = "install"
    /\ ProviderBackend
    /\ pc' = "drain" /\ rc' = 1
    /\ UNCHANGED <<loaded, identity, handler, quit, working, sessions>>

\* std::signal for SIGINT, then for SIGTERM.
CatchSigint ==
    /\ pc = "sigint"
    /\ handler' = [handler EXCEPT !["SIGINT"] = "caught"]
    /\ Goto("sigterm")
    /\ UNCHANGED <<loaded, identity, quit, working, sessions>>

\* Mutant of CatchSigterm: SIGINT a second time.
CatchSigintAgain ==
    /\ pc = "sigterm"
    /\ handler' = [handler EXCEPT !["SIGINT"] = "caught"]
    /\ Goto("poll")
    /\ UNCHANGED <<loaded, identity, quit, working, sessions>>

CatchSigterm ==
    /\ pc = "sigterm"
    /\ handler' = [handler EXCEPT !["SIGTERM"] = "caught"]
    /\ Goto("poll")
    /\ UNCHANGED <<loaded, identity, quit, working, sessions>>

\* Mutant of LeaveLoop: only SIGTERM is waited for.
LeaveLoopOnSigterm ==
    /\ pc = "poll"
    /\ quit = "SIGTERM"
    /\ pc' = "drain" /\ rc' = 0
    /\ UNCHANGED <<loaded, identity, handler, quit, working, sessions>>

\* Mutant of LeaveLoop: the exit code tells that a signal came.
LeaveLoopSignalled ==
    /\ pc = "poll"
    /\ quit # NoSignal
    /\ pc' = "drain" /\ rc' = 1
    /\ UNCHANGED <<loaded, identity, handler, quit, working, sessions>>

\* The loop sees g_quit_signal, at the latest 100 ms after it is set.
LeaveLoop ==
    /\ pc = "poll"
    /\ quit # NoSignal
    /\ pc' = "drain" /\ rc' = 0
    /\ UNCHANGED <<loaded, identity, handler, quit, working, sessions>>

-----------------------------------------------------------------------------
(* PluginManager::shutdown, and the rollback of a failed load: unregister   *)
(* and shut down each plugin, wait for the anchor its work holds, dlclose.  *)

draining == <<rc, desc, loadedKey, env, at, initEnv, identity, handler, quit,
              sessions>>

Unregister(p) ==
    /\ pc = "drain"
    /\ status[p] = "registered"
    /\ status' = [status EXCEPT ![p] = "stopping"]
    /\ UNCHANGED <<pc, working, draining>>

\* Mutant of Unload: the rollback forgets plugins that were only initialised.
UnloadUnregistered(p) ==
    /\ pc = "drain"
    /\ status[p] = "stopping"
    /\ p \notin working
    /\ status' = [status EXCEPT ![p] = "unloaded"]
    /\ UNCHANGED <<pc, working, draining>>

Unload(p) ==
    /\ pc = "drain"
    /\ status[p] \in {"inited", "stopping"}
    /\ p \notin working
    /\ status' = [status EXCEPT ![p] = "unloaded"]
    /\ UNCHANGED <<pc, working, draining>>

FinishRun ==
    /\ pc = "drain"
    /\ \A p \in Plugins : status[p] = "unloaded"
    /\ pc' = "exited"
    /\ UNCHANGED <<status, working, draining>>

-----------------------------------------------------------------------------
(* The world around the main thread.                                        *)

\* A link takes a connection on one of its threads: notify_connect reads the
\* node identity.  Nothing in cmd_run holds a registered link back.
Connect(p) ==
    /\ ~Ended
    /\ p \in Links \ working
    /\ status[p] = "registered"
    /\ working' = working \cup {p}
    /\ sessions' = sessions \cup {identity}
    /\ UNCHANGED <<pc, rc, loaded, identity, handler, quit>>

FinishWork(p) ==
    /\ ~Ended
    /\ p \in working
    /\ working' = working \ {p}
    /\ UNCHANGED <<pc, rc, loaded, identity, handler, quit, sessions>>

\* Mutant of Signal: a plain store instead of the compare-and-swap.
SignalOverwrites(s) ==
    /\ ~Ended
    /\ IF handler[s] = "default"
       THEN pc' = "killed" /\ UNCHANGED quit
       ELSE quit' = s /\ UNCHANGED pc
    /\ UNCHANGED <<rc, loaded, identity, handler, working, sessions>>

\* SIGINT or SIGTERM arrives: the default disposition kills the process, the
\* handler stores the signal if none is stored yet.
Signal(s) ==
    /\ ~Ended
    /\ IF handler[s] = "default"
       THEN pc' = "killed" /\ UNCHANGED quit
       ELSE quit' = (IF quit = NoSignal THEN s ELSE quit) /\ UNCHANGED pc
    /\ UNCHANGED <<rc, loaded, identity, handler, working, sessions>>

-----------------------------------------------------------------------------
Boot == \/ ParseArgs \/ LoadDescriptor \/ ExportExtra \/ LoadIdentityFile
        \/ LoadConfig \/ ParseManifest \/ StartKernel
        \/ InitPlugin \/ AllInitialised \/ RegisterPlugin \/ AllRegistered
        \/ LoadFails
        \/ InstallIdentity \/ InstallFails \/ CatchSigint \/ CatchSigterm

Shutdown == \/ LeaveLoop
            \/ \E p \in Plugins : Unregister(p) \/ Unload(p)
            \/ FinishRun

Main == Boot \/ Shutdown

World == \/ \E p \in Plugins : Connect(p) \/ FinishWork(p)
         \/ \E s \in Signals : Signal(s)

Next == Main \/ World

\* The main thread runs, and a callback on a worker thread returns.  Nobody
\* has to connect or to send a signal.
Fairness == WF_vars(Main) /\ \A p \in Plugins : WF_vars(FinishWork(p))

Spec == Init /\ [][Next]_vars

FairSpec == Spec /\ Fairness

-----------------------------------------------------------------------------
(* Properties.                                                              *)

Statuses == {"unloaded", "inited", "registered", "stopping"}

\* The variables keep their types.
TypeOK ==
    /\ pc \in Places
    /\ rc \in {-1, 0, 1, 2}
    /\ desc \in Content
    /\ loadedKey \in BOOLEAN
    /\ env \in [EnvVars -> ExtraValues \cup {None}]
    /\ at \in 1..(PluginCount + 1)
    /\ status \in [Plugins -> Statuses]
    /\ initEnv \in [Plugins -> [EnvVars -> ExtraValues \cup {None}]]
    /\ identity \in Identities
    /\ handler \in [Signals -> {"default", "caught"}]
    /\ quit \in Signals \cup {NoSignal}
    /\ working \subseteq Links
    /\ sessions \subseteq Identities

\* The identity the operator declared: the key on the token when the
\* descriptor says so, otherwise the --identity file.
Declared == IF desc.kind = "object" /\ desc.backend = "provider"
            THEN SignedBy(desc.extension_id, desc.key_label)
            ELSE FileIdentity

Serving == pc \in {"sigint", "sigterm", "poll"}

Graceful == rc = 0 /\ pc \in {"drain", "exited"}

\* Whatever way cmd_run returns, no plugin is left loaded and no work in
\* flight when the kernel it belongs to goes out of scope.
ReturnsEmpty ==
    pc = "exited" => working = {} /\ \A p \in Plugins : status[p] = "unloaded"

\* A daemon that came up has the declared identity: it never falls back to
\* the file when the token is declared, nor goes on without any.
ServesDeclared == Serving \/ Graceful => identity = Declared

\* "The security pipeline reads it on every notify_connect, so before-plugins
\* is the right spot": with the file-backed identity every session, however
\* early its link takes it, is secured with it; and no session of a daemon
\* whose key is on the token is ever secured with the file's key.
SessionsByBackend ==
    /\ ~ProviderBackend => sessions \subseteq {FileIdentity}
    /\ ProviderBackend => FileIdentity \notin sessions

\* "Export extra.* env vars BEFORE any plugin loads", and "a stale value from
\* a previous run shouldn't shadow what the operator re-imported today": every
\* plugin was initialised with the value of the descriptor.
InitSeesExtra ==
    \A p \in Plugins, k \in ExtraKeys :
        status[p] # "unloaded" /\ ProviderBackend /\ desc.extra[k] # None
        => initEnv[p][EnvName(k)] = desc.extra[k]

\* A caught signal never finds a half-loaded daemon: when g_quit_signal is set
\* and the drain has not begun, every plugin is registered and the declared
\* identity installed ("until then a SIGTERM should kill the process
\* immediately rather than walk a half-loaded shutdown path").
CaughtOnlyWhenWhole ==
    quit # NoSignal /\ pc \notin {"drain", "exited", "killed"} =>
        identity = Declared /\ \A p \in Plugins : status[p] = "registered"

\* Once the main loop runs, neither signal kills the process any more, not
\* even a second one during the drain.
NeverKilledWhileServing ==
    [][pc' = "killed" => pc # "poll" /\ ~Graceful]_vars

\* "We don't overwrite the first sig number": whatever arrives later, the
\* shutdown is the answer to the first signal.
FirstSignalStays == [][quit # NoSignal => quit' = quit]_vars

\* What a service manager reads off the exit code: 0 is the answer to a signal
\* the daemon caught, and every caught signal is answered with 0; a run that
\* could not come up says so, whatever arrived while it gave up.
ExitCodeTellsWhy == pc = "exited" => (rc = 0 <=> quit # NoSignal)

PluginsIn(statuses) == {p \in Plugins : status[p] \in statuses}

\* How many steps the drain still takes, and how many it takes at most.
DrainAhead ==
    Cardinality(PluginsIn({"inited", "registered", "stopping"}))
        + Cardinality(PluginsIn({"registered"})) + 1

FullDrain == 2 * PluginCount + 1

\* How many places the main thread has yet to leave before the load, and from
\* the load to the drain.
ToLoad == [args |-> 7, descriptor |-> 6, export |-> 5, identity |-> 4,
           config |-> 3, manifest |-> 2, kernel |-> 1]

ToDrain == [install |-> 4, sigint |-> 3, sigterm |-> 2, poll |-> 1]

\* The steps the main thread has at most ahead of it.
Ahead ==
    IF Ended THEN 0
    ELSE IF pc = "drain" THEN DrainAhead
    ELSE IF pc \in DOMAIN ToDrain THEN FullDrain + ToDrain[pc]
    ELSE IF pc = "register" THEN FullDrain + 4 + (PluginCount + 2 - at)
    ELSE IF pc = "init" THEN FullDrain + 4 + (PluginCount + 1) + (PluginCount + 2 - at)
    ELSE FullDrain + 4 + 2 * (PluginCount + 1) + ToLoad[pc]

\* Nothing is done twice: whatever fails, and whatever threads and signals do
\* meanwhile, each step of the main thread brings it nearer to its return, so
\* that boot, rollback and drain are over after 4 * PluginCount + 14 of them.
MainAdvances == [][Ahead' <= Ahead /\ (Main => Ahead' < Ahead)]_vars

\* A signal the daemon caught ends it: the loop is left and the drain does not
\* wait forever on links that keep taking sessions.
SignalEndsRun == quit # NoSignal ~> Ended

\* Boot does not hang: the process ends or reaches its main loop.
BootEnds == <>(pc = "poll" \/ Ended)

\* The daemon as its service manager sees it: module DaemonLifecycle.
Phase == IF pc = "poll" THEN "serving"
         ELSE IF pc = "drain" THEN (IF rc = 0 THEN "draining" ELSE "failing")
         ELSE IF pc = "exited" THEN "ended"
         ELSE IF pc = "killed" THEN "killed"
         ELSE "booting"

Who == IF pc = "poll" \/ rc = 0 THEN identity ELSE NoIdentity

Lifecycle == INSTANCE DaemonLifecycle
                WITH Identities <- Identities \ {NoIdentity}, Nobody <- NoIdentity,
                     phase <- Phase, code <- rc, who <- Who, stop <- quit

\* Plugins, threads, handlers and the order of the boot forgotten, run comes
\* up with an identity it then keeps, or fails with 1 or 2; from the main loop
\* on only a request to stop ends it, with 0, and no signal kills it.
ImplementsLifecycle == Lifecycle!Spec

-----------------------------------------------------------------------------
(* What comments in run.cpp say of the program.                             *)

\* "We carry the NAME through to the plugin under GOODNET_PKCS11_PIN_ENV".
PinEnvCarried ==
    \A p \in Plugins :
        status[p] # "unloaded" /\ ProviderBackend /\ desc.extra["pin_env"] # None
        => initEnv[p]["GOODNET_PKCS11_PIN_ENV"] = desc.extra["pin_env"]

\* "Provider-backed identity install runs HERE, after plugins register their
\* extensions, before the kernel takes on session traffic": no session is
\* secured while the kernel has no identity.
SessionsAwaitIdentity == NoIdentity \notin sessions
=============================================================================
