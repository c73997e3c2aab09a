--------------------------- MODULE QuickstartProofs ---------------------------
(***************************************************************************)
(* Theorems about Quickstart for any number of runs, overlapping or not,    *)
(* any answers and anything the operator may already have.  The steps of    *)
(* import-hsm inside a run are those of ImportHsm.                          *)
(***************************************************************************)
EXTENDS Quickstart, TLAPS

-----------------------------------------------------------------------------
(* The inductive invariant of any number of overlapping runs.               *)

Past(r, steps) == pc[r] \in steps \/ Completed(r)

PastIdentity == {"config", "open", "write", "flush", "summary"}

\* A run that has not begun has no answer and has met nobody, one that has not
\* ended has no code, and the answer decides which steps a run takes.
AnswerByStep ==
    \A r \in Runs :
        /\ pc[r] = "idle" => answer[r] = Unanswered /\ met[r] = {} /\ irc[r] = -1
        /\ Live(r) => answer[r] \in Answers
        /\ pc[r] # "exited" => rc[r] = -1
        /\ pc[r] \in {"identity", "generate"} => answer[r].backend = "file"
        /\ pc[r] = "import" =>
              answer[r].backend = "hsm" /\ iargs[r] = HsmArgs(answer[r])

\* An import takes its steps while its run waits for it.
ImportWithinRun == \A r \in Runs : Hsm!Live(r) => pc[r] = "import"

\* What step 1 reports is there from then on.
KeyDone ==
    \A r \in Runs : Past(r, PastIdentity) /\ answer[r].backend = "file" =>
        keys[answer[r].path] # NoKey

\* So is a config.json, and a run that writes one does not write the operator's.
ConfigDone ==
    \A r \in Runs :
        /\ Past(r, {"write", "flush", "summary"}) => config # "absent"
        /\ pc[r] \in {"open", "write", "flush"} => config # "operator"

\* Two runs under way have met each other.
MutualMet == \A r, s \in Runs : Live(r) /\ Live(s) /\ r # s => s \in met[r]

\* A key that came after the existence test is that of a run met meanwhile.
KeyRace == \A r \in Runs :
    pc[r] = "generate" /\ keys[answer[r].path] # NoKey => keys[answer[r].path] \in met[r]

IInv == /\ TypeOK
        /\ AnswerByStep
        /\ ImportWithinRun
        /\ KeyDone
        /\ ConfigDone
        /\ MutualMet
        /\ KeyRace

-----------------------------------------------------------------------------
(* Types.                                                                   *)

\* The wizard composes and checks descriptors with the operators of Descriptor.
LEMMA SameOperators ==
  /\ Hsm!Content = Content /\ Hsm!Absent = Absent /\ Hsm!Torn = Torn /\ Hsm!Args = Args
  /\ \A a : Hsm!Composed(a) = Composed(a)
  /\ \A a, c : Hsm!GateAdmits(a, c) <=> GateAdmits(a, c)
BY DEF Hsm!Content, Content, Hsm!Object, Object, Hsm!Backends, Backends, Hsm!Extra, Extra,
   Hsm!ExtraKeys, ExtraKeys, Hsm!Absent, Absent, Hsm!Torn, Torn, Hsm!Unreadable,
   Unreadable, Hsm!NotJson, NotJson, Hsm!NotObject, NotObject, Hsm!Args, Args,
   Hsm!Composed, Composed, Hsm!GateAdmits, GateAdmits, Hsm!SameDeclaration,
   SameDeclaration

LEMMA AnswersTyped ==
  /\ \A a \in Answers : a.backend \in {"file", "hsm"} /\ a.path \in Paths
  /\ \A a \in FileAnswers : a \in Answers /\ a.backend = "file"
  /\ \A a \in HsmAnswers : a \in Answers /\ a.backend = "hsm" /\ HsmArgs(a) \in Args
BY QuickstartAssumption DEF Answers, FileAnswers, HsmAnswers, Paths, HsmArgs, Args

\* The document an import composes is a content.
LEMMA ComposedIsContent ==
  ASSUME NEW a \in Args
  PROVE  Composed(a) \in Content
<1>1. [k \in ExtraKeys |-> a[k]] \in Extra
  BY DEF Args, ExtraKeys, Extra
<1>2. Composed(a) \in Object
  BY <1>1 DEF Composed, Object, Backends, Args
<1> QED
  BY <1>2 DEF Content

LEMMA FilesInit == Init => Hsm!TypeOK
<1> SUFFICES ASSUME Init PROVE Hsm!TypeOK
  OBVIOUS
<1>1. Hsm!Init
  BY DEF Init
<1>2. /\ InitialDescs \subseteq Content
      /\ Absent \in Content /\ Hsm!NoArgs \in Args
  BY QuickstartAssumption DEF Content, Hsm!NoArgs, Args
<1>3. <<>> \in [{} -> Hsm!Inodes \cup {NoInode}] /\ <<>> \in [{} -> Content]
  <2>1. <<>> = [r \in {} |-> NoInode]
    BY <1>1 DEF Hsm!Init
  <2> QED
    BY <2>1
<1> QED
  BY <1>1, <1>2, <1>3, SameOperators DEF Hsm!Init, Hsm!TypeOK, Hsm!Steps, Hsm!Inodes

\* A step of import-hsm keeps the types of its files.
LEMMA ImportKeepsFiles ==
  ASSUME Hsm!TypeOK, NEW r \in Runs, Hsm!Invoke(r)
  PROVE  Hsm!TypeOK'
<1> USE QuickstartAssumption DEF Hsm!TypeOK, Hsm!Steps, Hsm!files, Hsm!readers,
        Hsm!Goto, Hsm!Exit
<1>1. /\ iargs[r] \in Args /\ Hsm!Composed(iargs[r]) \in Hsm!Content
      /\ Hsm!Torn \in Hsm!Content /\ Hsm!Visible \in Hsm!Content
  <2>1. Absent \in Content /\ Torn \in Content
    BY DEF Content
  <2> QED
    BY <2>1, SameOperators, ComposedIsContent DEF Hsm!Visible
<1>2. CASE Hsm!Start(r)
  <2>1. \A a \in HsmAnswers : HsmArgs(a) \in Hsm!Args
    BY AnswersTyped, SameOperators
  <2> QED
    BY <1>2, <2>1 DEF Hsm!Start
<1>3. CASE Hsm!Usage(r) \/ Hsm!Validate(r) \/ Hsm!Gate(r) \/ Hsm!OpenFails(r)
  BY <1>1, <1>3 DEF Hsm!Usage, Hsm!Validate, Hsm!Gate, Hsm!OpenFails
<1>4. CASE Hsm!OpenTmp(r)
  <2>1. (IF tmp = NoInode THEN r ELSE tmp) \in Hsm!Inodes
    BY DEF Hsm!Inodes
  <2> QED
    BY <1>1, <1>4, <2>1 DEF Hsm!OpenTmp
<1>5. CASE \/ Hsm!WriteThrough(r) \/ Hsm!WriteFails(r) \/ Hsm!WriteBuffered(r)
           \/ Hsm!Flush(r) \/ Hsm!FlushFails(r)
  BY <1>1, <1>5 DEF Hsm!WriteThrough, Hsm!WriteFails, Hsm!WriteBuffered, Hsm!Flush,
     Hsm!FlushFails
<1>6. CASE Hsm!Rename(r) \/ Hsm!RenameFails(r) \/ Hsm!Cleanup(r) \/ Hsm!Crash(r)
  BY <1>6 DEF Hsm!Rename, Hsm!RenameFails, Hsm!Cleanup, Hsm!Crash
<1> QED
  BY <1>2, <1>3, <1>4, <1>5, <1>6 DEF Hsm!Invoke

\* A step that leaves import-hsm alone keeps its types and what a reader finds.
LEMMA ImportAtRest ==
  ASSUME UNCHANGED import
  PROVE  Hsm!TypeOK' = Hsm!TypeOK /\ desc' = desc
BY DEF import, Hsm!TypeOK, Hsm!Inodes, desc, Hsm!Visible

-----------------------------------------------------------------------------
(* Every step keeps the invariant.                                          *)

LEMMA IInvInit == Init => IInv
<1> SUFFICES ASSUME Init PROVE IInv
  OBVIOUS
<1>1. \A r \in Runs : ipc[r] = "idle" /\ irc[r] = -1
  BY DEF Init, Hsm!Init
<1>2. TypeOK
  BY FilesInit, QuickstartAssumption DEF Init, TypeOK, Steps, Keys, Configs
<1> QED
  BY <1>1, <1>2 DEF Init, IInv, AnswerByStep, ImportWithinRun, KeyDone, ConfigDone,
     MutualMet, KeyRace, Past, PastIdentity, Completed, Live, Hsm!Live

\* How a step of import-hsm moves: only its own run, and not to the start.
LEMMA ImportMoves ==
  ASSUME Hsm!TypeOK, NEW r \in Runs, Hsm!Invoke(r), ~Hsm!Start(r), ~Hsm!Usage(r)
  PROVE  /\ Hsm!Live(r)
         /\ UNCHANGED iargs
         /\ \A s \in Runs \ {r} : ipc'[s] = ipc[s] /\ irc'[s] = irc[s]
BY DEF Hsm!Invoke, Hsm!TypeOK, Hsm!Validate, Hsm!Gate, Hsm!OpenFails, Hsm!OpenTmp,
   Hsm!WriteThrough, Hsm!WriteFails, Hsm!WriteBuffered, Hsm!Flush, Hsm!FlushFails,
   Hsm!Rename, Hsm!RenameFails, Hsm!Cleanup, Hsm!Crash, Hsm!Goto, Hsm!Exit, Hsm!Live,
   Hsm!files, Hsm!readers

\* A run that starts meets the runs under way, and they meet it.
LEMMA StartsMeet ==
  ASSUME IInv, NEW r \in Runs, pc[r] = "idle", Meets(r),
         NEW step \in {"identity", "import"}, pc' = [pc EXCEPT ![r] = step]
  PROVE  /\ MutualMet'
         /\ met' \in [Runs -> SUBSET Runs]
         /\ \A s \in Runs : met[s] \subseteq met'[s]
         /\ \A s \in Runs \ {r} : ~Live(s) => met'[s] = met[s]
<1>1. met \in [Runs -> SUBSET Runs] /\ met[r] = {} /\ pc \in [Runs -> Steps]
  BY DEF IInv, TypeOK, AnswerByStep
<1>2. \A s \in Runs \ {r} : pc'[s] = pc[s]
  BY <1>1
<1> QED
  BY <1>1, <1>2 DEF IInv, Meets, Underway, MutualMet, Live

LEMMA StartKeepsIInv ==
  ASSUME IInv, NEW r \in Runs, StartFile(r) \/ StartHsm(r)
  PROVE  IInv'
<1>1. PICK step \in {"identity", "import"}, a \in Answers :
         /\ pc[r] = "idle" /\ pc' = [pc EXCEPT ![r] = step]
         /\ answer' = [answer EXCEPT ![r] = a]
         /\ Meets(r) /\ UNCHANGED <<rc, keys, config>>
         /\ step = "identity" => a.backend = "file" /\ UNCHANGED import
         /\ step = "import" => /\ a.backend = "hsm" /\ Hsm!Start(r)
                               /\ iargs'[r] = HsmArgs(a)
  <2>1. CASE StartFile(r)
    BY <2>1, AnswersTyped DEF StartFile, Goto, MayStart
  <2>2. CASE StartHsm(r)
    BY <2>2, AnswersTyped DEF StartHsm, Goto, MayStart, IInv, TypeOK
  <2> QED
    BY <2>1, <2>2
<1>2. /\ \A s \in Runs \ {r} : /\ pc'[s] = pc[s] /\ answer'[s] = answer[s]
                               /\ iargs'[s] = iargs[s] /\ irc'[s] = irc[s]
                               /\ ipc'[s] = ipc[s]
      /\ pc'[r] = step /\ answer'[r] = a /\ rc[r] = -1 /\ answer[r] = Unanswered
      /\ step = "identity" => ipc'[r] = ipc[r]
  BY <1>1 DEF import, Hsm!Start, Hsm!Goto, IInv, TypeOK, AnswerByStep, Hsm!TypeOK
<1>3. /\ MutualMet'
      /\ met' \in [Runs -> SUBSET Runs]
      /\ \A s \in Runs : met[s] \subseteq met'[s]
      /\ \A s \in Runs \ {r} : ~Live(s) => met'[s] = met[s]
  BY <1>1, StartsMeet
<1>4. TypeOK'
  <2>1. Hsm!TypeOK'
    BY <1>1, ImportKeepsFiles, ImportAtRest DEF Hsm!Invoke, IInv, TypeOK
  <2> QED
    BY <1>1, <1>3, <2>1 DEF IInv, TypeOK, Steps
<1>5. AnswerByStep'
  BY <1>1, <1>2, <1>3 DEF IInv, AnswerByStep, Live
<1>6. ImportWithinRun'
  BY <1>1, <1>2 DEF IInv, ImportWithinRun, Hsm!Live
<1>7. (KeyDone /\ ConfigDone /\ KeyRace)'
  BY <1>1, <1>2, <1>3 DEF IInv, KeyDone, ConfigDone, KeyRace, Past, PastIdentity, Completed,
     Unanswered
<1> QED
  BY <1>3, <1>4, <1>5, <1>6, <1>7 DEF IInv
\* A step of the run's import touches nothing else.
LEMMA ImportKeepsIInv ==
  ASSUME IInv, NEW r \in Runs, pc[r] = "import",
         Hsm!Invoke(r), ~Hsm!Start(r), ~Hsm!Usage(r),
         NEW step \in {"import", "crashed"}, pc' = [pc EXCEPT ![r] = step],
         step = "crashed" => ~Hsm!Live(r)',
         UNCHANGED <<answer, rc, keys, config, met>>
  PROVE  IInv'
<1>1. /\ Hsm!Live(r) /\ UNCHANGED iargs
      /\ \A s \in Runs \ {r} : ipc'[s] = ipc[s] /\ irc'[s] = irc[s] /\ pc'[s] = pc[s]
      /\ pc'[r] = step
  BY ImportMoves DEF IInv, TypeOK
<1>2. TypeOK'
  BY ImportKeepsFiles DEF IInv, TypeOK, Steps
<1>3. AnswerByStep' /\ ImportWithinRun'
  BY <1>1 DEF IInv, AnswerByStep, ImportWithinRun, Live, Hsm!Live
<1>4. (KeyDone /\ ConfigDone /\ MutualMet /\ KeyRace)'
  BY <1>1 DEF IInv, KeyDone, ConfigDone, MutualMet, KeyRace, Past, PastIdentity, Completed,
     Live
<1> QED
  BY <1>2, <1>3, <1>4 DEF IInv

LEMMA RunKeepsIInv ==
  ASSUME IInv, NEW r \in Runs, Run(r)
  PROVE  IInv'
<1> USE QuickstartAssumption
    DEF IInv, AnswerByStep, ImportWithinRun, KeyDone, ConfigDone, MutualMet, KeyRace,
        Past, PastIdentity, Completed, Goto, Exit, Live, Hsm!Live, import
<1>a. /\ pc \in [Runs -> Steps] /\ rc \in [Runs -> {-1, 0, 1, 2}]
      /\ keys \in [Paths -> Keys] /\ irc \in [Runs -> {-1, 0, 1, 2}]
      /\ \A s \in Runs : answer[s].path \in Paths
      /\ Unanswered \notin Answers
  BY DEF TypeOK, Hsm!TypeOK, Answers, FileAnswers, HsmAnswers, Unanswered, Paths
<1>1. CASE StartFile(r) \/ StartHsm(r)
  BY <1>1, StartKeepsIInv
<1>2. CASE ImportStep(r)
  <2>1. Hsm!Invoke(r) /\ ~Hsm!Start(r) /\ ~Hsm!Usage(r)
    BY <1>2, <1>a DEF ImportStep, Hsm!Invoke, Hsm!Start, Hsm!Usage, Hsm!MayStart,
       Hsm!Validate, Hsm!Gate, Hsm!OpenFails, Hsm!OpenTmp, Hsm!WriteThrough,
       Hsm!WriteFails, Hsm!WriteBuffered, Hsm!Flush, Hsm!FlushFails, Hsm!Rename,
       Hsm!RenameFails, Hsm!Cleanup
  <2>2. pc[r] = "import" /\ pc' = [pc EXCEPT ![r] = "import"]
    BY <1>2, <1>a DEF ImportStep, wizard
  <2> QED
    BY <1>2, <2>1, <2>2, ImportKeepsIInv DEF ImportStep, wizard
<1>3. CASE Crash(r) /\ Hsm!Live(r)
  <2>1. /\ pc[r] = "import" /\ pc' = [pc EXCEPT ![r] = "crashed"] /\ Hsm!Crash(r)
        /\ UNCHANGED <<answer, rc, keys, config, met>>
    BY <1>3 DEF Crash
  <2>2. Hsm!Invoke(r) /\ ~Hsm!Start(r) /\ ~Hsm!Usage(r) /\ ~Hsm!Live(r)'
    BY <2>1, <1>3 DEF Hsm!Invoke, Hsm!Start, Hsm!Usage, Hsm!MayStart, Hsm!Crash, Hsm!Goto,
       TypeOK, Hsm!TypeOK
  <2> QED
    BY <2>1, <2>2, ImportKeepsIInv
<1>4. CASE Crash(r) /\ ~Hsm!Live(r)
  <2>1. TypeOK'
    BY <1>4, ImportAtRest DEF Crash, TypeOK, Steps
  <2>2. (AnswerByStep /\ ImportWithinRun)'
    BY <1>4, <1>a DEF Crash
  <2>3. (KeyDone /\ ConfigDone)'
    BY <1>4, <1>a DEF Crash
  <2>4. (MutualMet /\ KeyRace)'
    BY <1>4, <1>a DEF Crash
  <2> QED
    BY <2>1, <2>2, <2>3, <2>4
<1>5. CASE Usage(r)
  <2>1. TypeOK'
    BY <1>5, ImportAtRest DEF Usage, MayStart, TypeOK, Steps, Keys, Configs
  <2>2. (AnswerByStep /\ ImportWithinRun)'
    BY <1>5, <1>a DEF Usage, MayStart
  <2>3. (KeyDone /\ ConfigDone)'
    BY <1>5, <1>a DEF Usage, MayStart
  <2>4. (MutualMet /\ KeyRace)'
    BY <1>5, <1>a DEF Usage, MayStart
  <2> QED
    BY <2>1, <2>2, <2>3, <2>4
<1>6. CASE CheckKey(r)
  <2>1. TypeOK'
    BY <1>6, ImportAtRest DEF CheckKey, TypeOK, Steps, Keys, Configs
  <2>2. (AnswerByStep /\ ImportWithinRun)'
    BY <1>6, <1>a DEF CheckKey
  <2>3. (KeyDone /\ ConfigDone)'
    BY <1>6, <1>a DEF CheckKey
  <2>4. (MutualMet /\ KeyRace)'
    BY <1>6, <1>a DEF CheckKey
  <2> QED
    BY <2>1, <2>2, <2>3, <2>4
<1>7. CASE GenerateKey(r)
  <2>0. /\ answer[r].path \in Paths /\ keys' = [keys EXCEPT ![answer[r].path] = r]
        /\ \A p \in Paths : keys'[p] = IF p = answer[r].path THEN r ELSE keys[p]
        /\ r # NoKey /\ r \in Keys
    BY <1>7, <1>a DEF GenerateKey, Keys
  <2>1. TypeOK'
    BY <1>7, <2>0, ImportAtRest DEF GenerateKey, TypeOK, Steps
  <2>2. (AnswerByStep /\ ImportWithinRun)'
    BY <1>7, <1>a DEF GenerateKey
  <2>3. (KeyDone /\ ConfigDone)'
    BY <1>7, <1>a, <2>0 DEF GenerateKey
  <2>4. (MutualMet /\ KeyRace)'
    BY <1>7, <1>a, <2>0 DEF GenerateKey
  <2> QED
    BY <2>1, <2>2, <2>3, <2>4
<1>8. CASE GenerateFails(r) \/ OpenConfigFails(r) \/ WriteConfigFails(r)
  <2>1. TypeOK'
    <3>1. /\ pc' = [pc EXCEPT ![r] = "exited"] /\ rc' = [rc EXCEPT ![r] = 1]
          /\ UNCHANGED <<answer, keys, config, import, met>>
      BY <1>8 DEF GenerateFails, OpenConfigFails, WriteConfigFails
    <3> QED
      BY <3>1, ImportAtRest DEF TypeOK, Steps
  <2>2. (AnswerByStep /\ ImportWithinRun)'
    BY <1>8, <1>a DEF GenerateFails, OpenConfigFails, WriteConfigFails
  <2>3. (KeyDone /\ ConfigDone)'
    BY <1>8, <1>a DEF GenerateFails, OpenConfigFails, WriteConfigFails
  <2>4. (MutualMet /\ KeyRace)'
    BY <1>8, <1>a DEF GenerateFails, OpenConfigFails, WriteConfigFails
  <2> QED
    BY <2>1, <2>2, <2>3, <2>4
<1>9. CASE ImportReturns(r)
  <2>1. TypeOK'
    BY <1>9, <1>a, ImportAtRest DEF ImportReturns, TypeOK, Steps, Keys, Configs
  <2>2. (AnswerByStep /\ ImportWithinRun)'
    BY <1>9, <1>a DEF ImportReturns
  <2>3. (KeyDone /\ ConfigDone)'
    BY <1>9, <1>a DEF ImportReturns
  <2>4. (MutualMet /\ KeyRace)'
    BY <1>9, <1>a DEF ImportReturns
  <2> QED
    BY <2>1, <2>2, <2>3, <2>4
<1>10. CASE CheckConfig(r)
  <2>1. TypeOK'
    BY <1>10, ImportAtRest DEF CheckConfig, TypeOK, Steps, Keys, Configs
  <2>2. (AnswerByStep /\ ImportWithinRun)'
    BY <1>10, <1>a DEF CheckConfig
  <2>3. (KeyDone /\ ConfigDone)'
    BY <1>10, <1>a DEF CheckConfig
  <2>4. (MutualMet /\ KeyRace)'
    BY <1>10, <1>a DEF CheckConfig
  <2> QED
    BY <2>1, <2>2, <2>3, <2>4
<1>11. CASE OpenConfig(r)
  <2>1. TypeOK'
    BY <1>11, ImportAtRest DEF OpenConfig, TypeOK, Steps, Keys, Configs
  <2>2. (AnswerByStep /\ ImportWithinRun)'
    BY <1>11, <1>a DEF OpenConfig
  <2>3. (KeyDone /\ ConfigDone)'
    BY <1>11, <1>a DEF OpenConfig
  <2>4. (MutualMet /\ KeyRace)'
    BY <1>11, <1>a DEF OpenConfig
  <2> QED
    BY <2>1, <2>2, <2>3, <2>4
<1>12. CASE WriteConfig(r) \/ Summary(r)
  <2>1. TypeOK'
    <3>1. pc' \in [Runs -> Steps]
      BY <1>12, <1>a DEF WriteConfig, Summary, Steps
    <3>2. rc' \in [Runs -> {-1, 0, 1, 2}]
      BY <1>12, <1>a DEF WriteConfig, Summary
    <3>3. UNCHANGED <<answer, keys, config, met>> /\ Hsm!TypeOK'
      BY <1>12, ImportAtRest DEF WriteConfig, Summary, TypeOK
    <3> HIDE DEF IInv, Goto, Exit
    <3> QED
      BY <3>1, <3>2, <3>3 DEF IInv, TypeOK
  <2>2. (AnswerByStep /\ ImportWithinRun)'
    BY <1>12, <1>a DEF WriteConfig, Summary
  <2>3. (KeyDone /\ ConfigDone)'
    BY <1>12, <1>a DEF WriteConfig, Summary
  <2>4. (MutualMet /\ KeyRace)'
    BY <1>12, <1>a DEF WriteConfig, Summary
  <2> QED
    BY <2>1, <2>2, <2>3, <2>4
<1>13. CASE FlushConfig(r) \/ FlushConfigFails(r)
  <2>1. TypeOK'
    <3>1. pc' = [pc EXCEPT ![r] = "summary"] /\ config' \in Configs
      BY <1>13 DEF FlushConfig, FlushConfigFails, Configs
    <3>2. UNCHANGED <<rc, answer, keys, import, met>>
      BY <1>13 DEF FlushConfig, FlushConfigFails
    <3> QED
      BY <3>1, <3>2, ImportAtRest DEF TypeOK, Steps
  <2>2. (AnswerByStep /\ ImportWithinRun)'
    BY <1>13, <1>a DEF FlushConfig, FlushConfigFails
  <2>3. (KeyDone /\ ConfigDone)'
    BY <1>13, <1>a DEF FlushConfig, FlushConfigFails
  <2>4. (MutualMet /\ KeyRace)'
    BY <1>13, <1>a DEF FlushConfig, FlushConfigFails
  <2> QED
    BY <2>1, <2>2, <2>3, <2>4
<1> QED
  BY <1>1, <1>2, <1>3, <1>4, <1>5, <1>6, <1>7, <1>8, <1>9, <1>10, <1>11, <1>12, <1>13
     DEF Run

LEMMA IInvStep == IInv /\ [Next]_vars => IInv'
<1> SUFFICES ASSUME IInv, [Next]_vars PROVE IInv'
  OBVIOUS
<1>1. CASE UNCHANGED vars
  <2>1. UNCHANGED import
    BY <1>1 DEF vars, import
  <2> QED
    BY <1>1, <2>1, ImportAtRest DEF vars, IInv, TypeOK, AnswerByStep, ImportWithinRun,
       KeyDone, ConfigDone, MutualMet, KeyRace, Past, Completed, Live, Hsm!Live
<1>2. CASE \E r \in Runs : Run(r)
  BY <1>2, RunKeepsIInv
<1>3. CASE OperatorEdits
  <2>1. Hsm!TypeOK'
    BY <1>3, ImportAtRest DEF OperatorEdits, IInv, TypeOK
  <2> QED
    BY <1>3, <2>1 DEF OperatorEdits, IInv, TypeOK, Configs, AnswerByStep, ImportWithinRun,
       KeyDone, ConfigDone, MutualMet, KeyRace, Past, Completed, Live, Hsm!Live, import
<1> QED
  BY <1>1, <1>2, <1>3 DEF Next

LEMMA IInvAlways == Spec => []IInv
BY IInvInit, IInvStep, PTL DEF Spec

-----------------------------------------------------------------------------
(* What follows from it, however runs overlap.                              *)

\* The variables keep their types, for any number of runs and imports.
THEOREM TypeCorrect == Spec => []TypeOK
<1>1. IInv => TypeOK
  BY DEF IInv
<1> QED
  BY <1>1, IInvAlways, PTL

\* The wizard never replaces the operator's key, nor one generated by a run it
\* did not overlap: only two runs between existence test and generation at the
\* same time can do that to each other.
THEOREM KeysReplacedInRacesOnly == Spec => KeysKept
<1> DEFINE Kept == \A p \in Paths : keys[p] # NoKey /\ keys'[p] # keys[p] =>
                      keys'[p] \in Runs /\ keys[p] \in met[keys'[p]]
<1>1. IInv /\ [Next]_vars => [Kept]_vars
  <2> SUFFICES ASSUME IInv, Next PROVE Kept
    OBVIOUS
  <2>1. CASE OperatorEdits
    BY <2>1 DEF OperatorEdits
  <2>2. ASSUME NEW r \in Runs, Run(r) PROVE Kept
    <3>1. CASE GenerateKey(r)
      BY <3>1 DEF GenerateKey, IInv, TypeOK, KeyRace
    <3>2. CASE ~GenerateKey(r)
      BY <2>2, <3>2 DEF Run, Usage, StartFile, StartHsm, CheckKey, GenerateFails,
         ImportStep, wizard, ImportReturns, CheckConfig, OpenConfig, OpenConfigFails,
         WriteConfig, WriteConfigFails, FlushConfig, FlushConfigFails, Summary, Crash
    <3> QED
      BY <3>1, <3>2
  <2> QED
    BY <2>1, <2>2 DEF Next
<1> QED
  BY <1>1, IInvAlways, PTL DEF Spec, KeysKept

\* Also when runs overlap, a config.json the operator has edited is kept.
THEOREM EditsAreKept == Spec => OperatorConfigKept
<1>1. IInv /\ [Next]_vars => [config = "operator" => config' = "operator"]_vars
  <2> SUFFICES ASSUME IInv, Next, config = "operator" PROVE config' = "operator"
    OBVIOUS
  <2>1. CASE OperatorEdits
    BY <2>1 DEF OperatorEdits
  <2>2. ASSUME NEW r \in Runs, Run(r) PROVE config' = "operator"
    BY <2>2 DEF Run, Usage, StartFile, StartHsm, CheckKey, GenerateKey, GenerateFails,
       ImportStep, wizard, ImportReturns, CheckConfig, OpenConfig, OpenConfigFails,
       WriteConfig, WriteConfigFails, FlushConfig, FlushConfigFails, Summary, Crash,
       IInv, ConfigDone
  <2> QED
    BY <2>1, <2>2 DEF Next
<1> QED
  BY <1>1, IInvAlways, PTL DEF Spec, OperatorConfigKept

\* However runs overlap: a truncated config.json is the work of a run that is
\* still writing, died or reported its failure, the very one that truncated it.
THEOREM TornHasCulprit == Spec => []TornConfigHasCulprit
<1>1. Init => TornConfigHasCulprit
  BY QuickstartAssumption DEF Init, TornConfigHasCulprit
<1>2. IInv /\ TornConfigHasCulprit /\ [Next]_vars => TornConfigHasCulprit'
  <2> SUFFICES ASSUME IInv, TornConfigHasCulprit, [Next]_vars, config' \in Runs
               PROVE  pc'[config'] \in {"write", "flush", "crashed"} \/ rc'[config'] = 1
    BY DEF TornConfigHasCulprit
  <2>1. CASE UNCHANGED vars
    BY <2>1 DEF vars, TornConfigHasCulprit
  <2>2. CASE OperatorEdits
    BY <2>2, QuickstartAssumption DEF OperatorEdits
  <2>3. ASSUME NEW r \in Runs, Run(r)
        PROVE  pc'[config'] \in {"write", "flush", "crashed"} \/ rc'[config'] = 1
    <3>1. CASE OpenConfig(r)
      BY <3>1 DEF OpenConfig, Goto, IInv, TypeOK
    <3>2. CASE FlushConfig(r) \/ FlushConfigFails(r)
      BY <3>2, QuickstartAssumption DEF FlushConfig, FlushConfigFails
    <3>3. CASE ~(OpenConfig(r) \/ FlushConfig(r) \/ FlushConfigFails(r))
      <4>1. /\ config' = config
            /\ pc[config] \in {"write", "flush", "crashed"} \/ rc[config] = 1
        BY <2>3, <3>3 DEF Run, Usage, StartFile, StartHsm, CheckKey, GenerateKey,
           GenerateFails, ImportStep, wizard, ImportReturns, CheckConfig, OpenConfigFails,
           WriteConfig, WriteConfigFails, Summary, Crash, TornConfigHasCulprit
      <4> QED
        BY <2>3, <3>3, <4>1
           DEF Run, Usage, StartFile, StartHsm, CheckKey, GenerateKey, GenerateFails,
               ImportStep, wizard, ImportReturns, CheckConfig, OpenConfigFails,
               WriteConfig, WriteConfigFails, Summary, Crash, MayStart, Goto, Exit, Live,
               IInv, TypeOK, AnswerByStep
    <3> QED
      BY <3>1, <3>2, <3>3
  <2> QED
    BY <2>1, <2>2, <2>3 DEF Next
<1> QED
  BY <1>1, <1>2, IInvAlways, PTL DEF Spec

-----------------------------------------------------------------------------
(* As long as no two runs have overlapped, the HSM answer keeps as well.    *)

\* The import under way, if any, holds the temporary file, which is not the
\* descriptor, and its gate's verdict is still that on the descriptor.
HsmReady ==
    /\ dst # NoInode => dst # tmp
    /\ \A r \in Runs :
          /\ ipc[r] \in {"idle", "validate", "gate", "open"} => dst # r /\ tmp # r
          /\ ipc[r] \in {"open", "write", "flush", "rename"} => GateAdmits(iargs[r], desc)
          /\ ipc[r] \in {"write", "flush", "rename"} => ifd[r] = tmp /\ tmp # NoInode
          /\ ipc[r] = "rename" => data[tmp] = Composed(iargs[r])

Declared(r) == desc.kind = "object" /\ SameDeclaration(HsmArgs(answer[r]), desc)

\* What an import reported stays declared.
HsmDone == \A r \in Runs :
    /\ answer[r].backend = "hsm"
    /\ Past(r, PastIdentity) \/ (pc[r] = "import" /\ irc[r] = 0)
    => Declared(r)

AloneInv == ~Overlapped => HsmReady /\ HsmDone

\* The key an unforced import declares is that of every declaration its gate
\* lets pass.
LEMMA ImportKeepsDeclarations ==
  ASSUME NEW a, NEW b, NEW c, ~a.force, c.kind = "object",
         GateAdmits(a, c), SameDeclaration(b, c)
  PROVE  SameDeclaration(b, Composed(a))
BY DEF GateAdmits, SameDeclaration, Composed

\* Without overlap a run that moves is the only one under way, before and after.
LEMMA AloneMoves ==
  ASSUME IInv, IInv', NEW r \in Runs, Run(r), ~Overlapped'
  PROVE  /\ ~Overlapped
         /\ Live(r) \/ Live(r)' => \A s \in Runs \ {r} : ~Live(s)
<1>1. \A s \in Runs : met[s] \subseteq met'[s]
  <2>1. CASE StartFile(r) \/ StartHsm(r)
    BY <2>1, StartsMeet DEF StartFile, StartHsm, MayStart, Goto
  <2> QED
    BY <2>1 DEF Run, Usage, CheckKey, GenerateKey, GenerateFails, ImportStep, ImportReturns,
       CheckConfig, OpenConfig, OpenConfigFails, WriteConfig, WriteConfigFails,
       FlushConfig, FlushConfigFails, Summary, Crash
<1>2. ~Overlapped
  BY <1>1 DEF Overlapped
<1>3. \A s \in Runs \ {r} : pc'[s] = pc[s]
  BY DEF IInv, TypeOK, Run, Usage, StartFile, StartHsm, CheckKey, GenerateKey, GenerateFails,
     ImportStep, wizard, ImportReturns, CheckConfig, OpenConfig, OpenConfigFails,
     WriteConfig, WriteConfigFails, FlushConfig, FlushConfigFails, Summary, Crash, Goto,
     Exit
<1>4. ASSUME NEW s \in Runs \ {r}, Live(s), Live(r) \/ Live(r)' PROVE FALSE
  <2>1. Live(s)'
    BY <1>3, <1>4 DEF Live
  <2>2. met[s] = {} /\ met'[s] = {}
    BY <1>2 DEF Overlapped
  <2> QED
    BY <1>4, <2>1, <2>2 DEF IInv, MutualMet
<1> QED
  BY <1>2, <1>4

\* A step of the one import under way.
LEMMA ImportStepAlone ==
  ASSUME IInv, HsmReady, HsmDone, ~FlushMayFail, NEW r \in Runs, Hsm!Invoke(r),
         ~Hsm!Start(r), ~Hsm!Usage(r), pc[r] = "import",
         \A s \in Runs \ {r} : ~Hsm!Live(s)
  PROVE  /\ HsmReady'
         /\ \A s \in Runs : answer[s] \in Answers /\ answer[s].backend = "hsm" /\ Declared(s) =>
               desc'.kind = "object" /\ SameDeclaration(HsmArgs(answer[s]), desc')
         /\ irc'[r] = 0 =>
               irc[r] = 0 \/ (desc'.kind = "object" /\ SameDeclaration(HsmArgs(answer[r]), desc'))
<1> USE QuickstartAssumption DEF Hsm!TypeOK, Hsm!Goto, Hsm!Exit, Hsm!files, HsmReady
<1>a. /\ Hsm!TypeOK /\ iargs[r] = HsmArgs(answer[r]) /\ ~iargs[r].force
      /\ \A s \in Runs \ {r} : ipc[s] \in {"idle", "exited", "crashed"}
  BY DEF IInv, TypeOK, AnswerByStep, HsmArgs, Hsm!Live
<1>1. CASE Hsm!Rename(r)
  <2>1. /\ desc' = Composed(iargs[r]) /\ GateAdmits(iargs[r], desc) /\ irc'[r] = 0
    BY <1>1, <1>a DEF Hsm!Rename, desc, Hsm!Visible
  <2>2. HsmReady'
    BY <1>1, <1>a DEF Hsm!Rename, Hsm!Inodes
  <2>3. desc'.kind = "object" /\ SameDeclaration(HsmArgs(answer[r]), desc')
    BY <2>1, <1>a DEF Composed, SameDeclaration
  <2> QED
    BY <2>1, <2>2, <2>3, <1>a, ImportKeepsDeclarations DEF Declared
<1>2. CASE ~Hsm!Rename(r)
  <2>1. desc' = desc
    BY <1>2, <1>a DEF Hsm!Invoke, Hsm!Validate, Hsm!Gate, Hsm!OpenFails, Hsm!OpenTmp,
       Hsm!WriteThrough, Hsm!WriteFails, Hsm!WriteBuffered, Hsm!Flush, Hsm!FlushFails,
       Hsm!RenameFails, Hsm!Cleanup, Hsm!Crash, desc, Hsm!Visible
  <2>2. irc'[r] = 0 => irc[r] = 0
    BY <1>2, <1>a DEF Hsm!Invoke, Hsm!Validate, Hsm!Gate, Hsm!OpenFails, Hsm!OpenTmp,
       Hsm!WriteThrough, Hsm!WriteFails, Hsm!WriteBuffered, Hsm!Flush, Hsm!FlushFails,
       Hsm!RenameFails, Hsm!Cleanup, Hsm!Crash
  <2>3. HsmReady'
    <3>1. CASE Hsm!Validate(r) \/ Hsm!OpenFails(r) \/ Hsm!RenameFails(r) \/ Hsm!Crash(r)
      BY <3>1, <1>a, <2>1 DEF Hsm!Validate, Hsm!OpenFails, Hsm!RenameFails, Hsm!Crash
    <3>2. CASE Hsm!Gate(r)
      BY <3>2, <1>a, <2>1, SameOperators DEF Hsm!Gate, desc
    <3>3. CASE Hsm!OpenTmp(r)
      BY <3>3, <1>a, <2>1 DEF Hsm!OpenTmp, Hsm!Inodes
    <3>4. CASE Hsm!WriteThrough(r) \/ Hsm!Flush(r)
      BY <3>4, <1>a, <2>1, SameOperators DEF Hsm!WriteThrough, Hsm!Flush
    <3>5. CASE Hsm!WriteFails(r) \/ Hsm!WriteBuffered(r)
      BY <3>5, <1>a, <2>1 DEF Hsm!WriteFails, Hsm!WriteBuffered
    <3>6. CASE Hsm!Cleanup(r)
      BY <3>6, <1>a, <2>1 DEF Hsm!Cleanup
    <3> QED
      BY <1>2, <3>1, <3>2, <3>3, <3>4, <3>5, <3>6 DEF Hsm!Invoke, Hsm!FlushFails
  <2> QED
    BY <2>1, <2>2, <2>3 DEF Declared
<1> QED
  BY <1>1, <1>2
LEMMA RunKeepsAlone ==
  ASSUME ~FlushMayFail, IInv, IInv', AloneInv, NEW r \in Runs, Run(r)
  PROVE  AloneInv'
<1> SUFFICES ASSUME ~Overlapped' PROVE HsmReady' /\ HsmDone'
  BY DEF AloneInv
<1>a. /\ HsmReady /\ HsmDone
      /\ Live(r) \/ Live(r)' => \A s \in Runs \ {r} : ~Live(s)
  BY AloneMoves DEF AloneInv
<1>b. \A s \in Runs : answer[s] \in Answers \/ answer[s].backend = "none"
  BY DEF IInv, TypeOK, Unanswered
<1>1. CASE StartHsm(r)
  <2>1. /\ pc[r] = "idle" /\ irc[r] = -1 /\ ipc[r] = "idle"
        /\ pc' = [pc EXCEPT ![r] = "import"] /\ irc' = irc /\ rc' = rc /\ rc[r] = -1
        /\ \A s \in Runs \ {r} : answer'[s] = answer[s] /\ iargs'[s] = iargs[s]
        /\ ipc' = [ipc EXCEPT ![r] = "validate"] /\ UNCHANGED <<ifd, dst, tmp, data>>
    BY <1>1 DEF StartHsm, MayStart, Goto, Hsm!Start, Hsm!MayStart, Hsm!Goto, Hsm!files, IInv,
       AnswerByStep, TypeOK, Hsm!TypeOK
  <2>2. desc' = desc
    BY <2>1 DEF desc, Hsm!Visible
  <2>3. HsmReady'
    BY <1>a, <2>1, <2>2 DEF HsmReady, IInv, TypeOK, Hsm!TypeOK
  <2>4. HsmDone'
    BY <1>a, <2>1, <2>2 DEF HsmDone, Declared, Past, PastIdentity, Completed, IInv, TypeOK
  <2> QED
    BY <2>3, <2>4
<1>2. CASE ImportStep(r) \/ (Crash(r) /\ Hsm!Live(r))
  <2>1. /\ Hsm!Invoke(r) /\ ~Hsm!Start(r) /\ ~Hsm!Usage(r)
        /\ pc[r] = "import" /\ UNCHANGED <<answer, rc>>
        /\ pc' = [pc EXCEPT ![r] = "crashed"] \/ UNCHANGED pc
    BY <1>2 DEF ImportStep, Crash, Goto, wizard, Hsm!Invoke, Hsm!Start, Hsm!Usage,
       Hsm!MayStart, Hsm!Live, Hsm!Validate, Hsm!Gate, Hsm!OpenFails, Hsm!OpenTmp,
       Hsm!WriteThrough, Hsm!WriteFails, Hsm!WriteBuffered, Hsm!Flush, Hsm!FlushFails,
       Hsm!Rename, Hsm!RenameFails, Hsm!Cleanup, IInv, ImportWithinRun
  <2>2. \A s \in Runs \ {r} : ~Hsm!Live(s) /\ pc[s] # "import" /\ pc'[s] = pc[s]
    BY <1>a, <2>1 DEF Live, IInv, ImportWithinRun, TypeOK
  <2>3. /\ HsmReady'
        /\ \A s \in Runs : answer[s] \in Answers /\ answer[s].backend = "hsm" /\ Declared(s) =>
              desc'.kind = "object" /\ SameDeclaration(HsmArgs(answer[s]), desc')
        /\ irc'[r] = 0 => irc[r] = 0 \/
              (desc'.kind = "object" /\ SameDeclaration(HsmArgs(answer[r]), desc'))
    BY <1>a, <2>1, <2>2, ImportStepAlone
  <2>4. HsmDone'
    <3> SUFFICES ASSUME NEW s \in Runs, answer[s].backend = "hsm",
                        Past(s, PastIdentity)' \/ (pc'[s] = "import" /\ irc'[s] = 0)
                 PROVE  desc'.kind = "object" /\ SameDeclaration(HsmArgs(answer[s]), desc')
      BY <2>1 DEF HsmDone, Declared
    <3>1. CASE Past(s, PastIdentity) \/ (pc[s] = "import" /\ irc[s] = 0)
      BY <1>a, <1>b, <2>3, <3>1 DEF HsmDone
    <3>2. CASE ~(Past(s, PastIdentity) \/ (pc[s] = "import" /\ irc[s] = 0))
      BY <2>1, <2>2, <2>3, <3>2 DEF Past, PastIdentity, Completed, IInv, TypeOK
    <3> QED
      BY <3>1, <3>2
  <2> QED
    BY <2>3, <2>4
<1>3. CASE UNCHANGED import /\ ~StartHsm(r)
  <2>1. desc' = desc
    BY <1>3, ImportAtRest
  <2>2. HsmReady'
    BY <1>3, <1>a, <2>1 DEF HsmReady, import
  <2>3. HsmDone'
    <3> SUFFICES ASSUME NEW s \in Runs, answer'[s].backend = "hsm",
                        Past(s, PastIdentity)' \/ (pc'[s] = "import" /\ irc'[s] = 0)
                 PROVE  /\ Past(s, PastIdentity) \/ (pc[s] = "import" /\ irc[s] = 0)
                        /\ answer'[s] = answer[s]
      BY <1>a, <2>1 DEF HsmDone, Declared
    <3>1. CASE StartFile(r)
      BY <3>1, <1>3 DEF StartFile, FileAnswers, Goto, Past, PastIdentity, Completed, IInv,
         TypeOK, import, MayStart
    <3>2. CASE ~StartFile(r)
      BY <3>2, <1>3, <1>b DEF Run, Usage, CheckKey, GenerateKey, GenerateFails, ImportStep,
         wizard, ImportReturns, CheckConfig, OpenConfig, OpenConfigFails, WriteConfig,
         WriteConfigFails, FlushConfig, FlushConfigFails, Summary, Crash, MayStart, Goto,
         Exit, Past, PastIdentity, Completed, IInv, AnswerByStep, TypeOK,
         import, Hsm!TypeOK, Unanswered, Live
    <3> QED
      BY <3>1, <3>2
  <2> QED
    BY <2>2, <2>3
<1> QED
  BY <1>1, <1>2, <1>3 DEF Run, Usage, StartFile, CheckKey, GenerateKey, GenerateFails,
     ImportReturns, CheckConfig, OpenConfig, OpenConfigFails, WriteConfig,
     WriteConfigFails, FlushConfig, FlushConfigFails, Summary, Crash

LEMMA AloneAlways == ASSUME ~FlushMayFail PROVE Spec => []AloneInv
<1>1. Init => AloneInv
  <2> SUFFICES ASSUME Init PROVE HsmReady /\ HsmDone
    BY DEF AloneInv
  <2>1. \A r \in Runs : ipc[r] = "idle" /\ dst # r /\ tmp # r
    BY QuickstartAssumption DEF Init, Hsm!Init
  <2>2. dst # NoInode => dst # tmp
    BY QuickstartAssumption DEF Init, Hsm!Init
  <2> QED
    BY <2>1, <2>2 DEF Init, HsmReady, HsmDone, Past, PastIdentity, Completed
<1>2. IInv /\ IInv' /\ AloneInv /\ [Next]_vars => AloneInv'
  <2> SUFFICES ASSUME IInv, IInv', AloneInv, [Next]_vars PROVE AloneInv'
    OBVIOUS
  <2>1. CASE \E r \in Runs : Run(r)
    BY <2>1, RunKeepsAlone
  <2>2. CASE UNCHANGED vars \/ OperatorEdits
    <3>1. UNCHANGED import /\ UNCHANGED <<pc, answer, rc, met>>
      BY <2>2 DEF vars, OperatorEdits, import
    <3>2. desc' = desc
      BY <3>1, ImportAtRest
    <3> QED
      BY <3>1, <3>2 DEF AloneInv, Overlapped, HsmReady, HsmDone, Declared, Past, Completed,
         import
  <2> QED
    BY <2>1, <2>2 DEF Next
<1> QED
  BY <1>1, <1>2, IInvAlways, PTL DEF Spec

\* What a run reported with "Setup complete" is there from then on: the key of
\* the answered path and a config.json however runs overlap, crash and fail,
\* and the declared token key as long as no two runs have overlapped.  A flush
\* in import-hsm that fails unseen is excluded.
THEOREM SetupIsKept == ASSUME ~FlushMayFail PROVE Spec => []SetupStays
<1>1. IInv /\ AloneInv => SetupStays
  BY DEF IInv, KeyDone, ConfigDone, AloneInv, HsmDone, Declared, Past, SetupStays
<1> QED
  BY <1>1, IInvAlways, AloneAlways, PTL
=============================================================================
