--------------------------- MODULE ImportHsmProofs ---------------------------
(***************************************************************************)
(* Theorems about ImportHsm for every set of invocations, readers, contents *)
(* and arguments: the types, and, when imports run one at a time and a      *)
(* flush does not fail, that no reader gets a torn descriptor and that each *)
(* import is one guarded install on DescriptorCell.                         *)
(***************************************************************************)
EXTENDS ImportHsm, TLAPS

\* The two assumptions under which write_atomic keeps its promise.
OneAtATime == Serial /\ ~FlushMayFail

-----------------------------------------------------------------------------
(* The inductive invariant.                                                 *)

OneLive == \A i, j \in Invocations : Live(i) /\ Live(j) => i = j

\* The temporary name and the descriptor are different files.
NamesApart == dst # NoInode => dst # tmp

DstWhole == dst # NoInode => data[dst] # Torn

\* An invocation past its open still holds the inode the temporary name has.
HoldsTmp == \A i \in Invocations :
               pc[i] \in {"write", "flush", "rename"} => fd[i] = tmp /\ tmp # NoInode

\* What is about to be renamed is the whole document.
ReadyToRename == \A i \in Invocations :
                    pc[i] = "rename" => data[fd[i]] = Composed(args[i])

\* An invocation that has not opened its file yet has no inode anywhere.
NotYetCreated == \A i \in Invocations :
    pc[i] \in {"idle", "validate", "gate", "open"} =>
        dst # i /\ tmp # i /\ \A r \in Readers : rfd[r] # i

\* A reader never has the temporary file open, and what it has is whole.
OpenReadsWhole == \A r \in Readers :
    rfd[r] # NoInode => rfd[r] # tmp /\ data[rfd[r]] # Torn

\* Between its gate and its rename nobody changes what the gate looked at.
GateStillHolds == \A i \in Invocations :
    /\ pc[i] \in {"gate", "open", "write", "flush", "rename"} => Valid(args[i])
    /\ pc[i] \in {"open", "write", "flush", "rename", "cleanup"} => gated[i] = Visible
    /\ pc[i] \in {"open", "write", "flush", "rename"} => GateAdmits(args[i], gated[i])

IInv == /\ TypeOK
        /\ OneLive
        /\ NamesApart
        /\ DstWhole
        /\ HoldsTmp
        /\ ReadyToRename
        /\ NotYetCreated
        /\ OpenReadsWhole
        /\ GateStillHolds
        /\ ReadersSeeWhole

-----------------------------------------------------------------------------
(* Facts about contents.                                                    *)

\* The document an import composes is a content, is whole, and is there.
LEMMA ComposedIsContent ==
  ASSUME NEW a \in Args
  PROVE  Composed(a) \in Content /\ Composed(a) # Torn /\ Composed(a) # Absent
<1>1. [k \in ExtraKeys |-> a[k]] \in Extra
  BY DEF Args, ExtraKeys, Extra
<1>2. Composed(a) \in Object
  BY <1>1 DEF Composed, Object, Backends, Args
<1>3. Composed(a).kind = "object" /\ Torn.kind = "torn" /\ Absent.kind = "absent"
  BY DEF Composed, Torn, Absent
<1> QED
  BY <1>2, <1>3 DEF Content

\* NoArgs, Absent and Torn have the types of the variables that hold them.
LEMMA SentinelsTyped == NoArgs \in Args /\ Absent \in Content /\ Torn \in Content
BY DEF NoArgs, Args, Content

-----------------------------------------------------------------------------
(* Types.                                                                   *)

LEMMA TypeInit == Init => TypeOK
BY ImportAssumption, SentinelsTyped DEF Init, TypeOK, Steps, Inodes

\* A step of the command keeps the types.
LEMMA InvocationKeepsTypes ==
  ASSUME TypeOK, NEW i \in Invocations, Invoke(i)
  PROVE  TypeOK'
<1> USE ImportAssumption
<1>a. args[i] \in Args /\ Composed(args[i]) \in Content /\ Torn \in Content
  BY ComposedIsContent, SentinelsTyped DEF TypeOK
<1>b. Visible \in Content
  BY SentinelsTyped DEF TypeOK, Visible
<1>1. CASE Usage(i)
  BY <1>1 DEF Usage, Exit, TypeOK, Steps, files, readers
<1>2. CASE Start(i)
  BY <1>2 DEF Start, Goto, TypeOK, Steps, files, readers
<1>3. CASE Validate(i)
  BY <1>3 DEF Validate, Goto, Exit, TypeOK, Steps, files, readers
<1>4. CASE Gate(i)
  BY <1>4, <1>b DEF Gate, Goto, Exit, TypeOK, Steps, files, readers
<1>5. CASE OpenFails(i)
  BY <1>5 DEF OpenFails, Exit, TypeOK, Steps, files, readers
<1>6. CASE OpenTmp(i)
  <2> DEFINE n == IF tmp = NoInode THEN i ELSE tmp
  <2>1. n \in Inodes
    BY DEF TypeOK, Inodes
  <2> QED
    BY <1>6, <1>a, <2>1 DEF OpenTmp, Goto, TypeOK, Steps, readers
<1>7. CASE WriteThrough(i)
  BY <1>7, <1>a DEF WriteThrough, Goto, TypeOK, Steps, readers
<1>8. CASE WriteFails(i)
  BY <1>8, <1>a DEF WriteFails, Exit, TypeOK, Steps, readers
<1>9. CASE WriteBuffered(i)
  BY <1>9 DEF WriteBuffered, Goto, TypeOK, Steps, files, readers
<1>10. CASE Flush(i)
  BY <1>10, <1>a DEF Flush, Goto, TypeOK, Steps, readers
<1>11. CASE FlushFails(i)
  BY <1>11, <1>a DEF FlushFails, Goto, TypeOK, Steps, readers
<1>12. CASE Rename(i)
  BY <1>12 DEF Rename, Exit, TypeOK, Steps, readers
<1>13. CASE RenameFails(i)
  BY <1>13 DEF RenameFails, Goto, TypeOK, Steps, files, readers
<1>14. CASE Cleanup(i)
  BY <1>14 DEF Cleanup, Exit, TypeOK, Steps, readers
<1>15. CASE Crash(i)
  BY <1>15 DEF Crash, Goto, TypeOK, Steps, files, readers
<1> QED
  BY <1>1, <1>2, <1>3, <1>4, <1>5, <1>6, <1>7, <1>8, <1>9, <1>10, <1>11,
     <1>12, <1>13, <1>14, <1>15 DEF Invoke

\* A step of a reader keeps the types.
LEMMA ReaderKeepsTypes ==
  ASSUME TypeOK, NEW r \in Readers, Read(r)
  PROVE  TypeOK'
<1>1. CASE ReaderMisses(r)
  BY <1>1, SentinelsTyped DEF ReaderMisses, TypeOK, procs, files
<1>2. CASE ReaderOpens(r)
  BY <1>2 DEF ReaderOpens, TypeOK, procs, files
<1>3. CASE ReaderReads(r)
  BY <1>3 DEF ReaderReads, TypeOK, procs, files
<1> QED
  BY <1>1, <1>2, <1>3 DEF Read

\* The variables keep their types: any number of invocations and readers, any
\* interleaving, failure and crash.
THEOREM TypeCorrect == Spec => []TypeOK
<1>1. TypeOK /\ [Next]_vars => TypeOK'
  <2> SUFFICES ASSUME TypeOK, [Next]_vars PROVE TypeOK'
    OBVIOUS
  <2>1. CASE UNCHANGED vars
    BY <2>1 DEF vars, TypeOK
  <2>2. CASE Next
    BY <2>2, InvocationKeepsTypes, ReaderKeepsTypes DEF Next
  <2> QED
    BY <2>1, <2>2
<1> QED
  BY <1>1, TypeInit, PTL DEF Spec
-----------------------------------------------------------------------------
(* One import at a time.                                                    *)

\* A step that ends invocation i and leaves the files alone.
LEMMA StopKeepsIInv ==
  ASSUME IInv, TypeOK', NEW i \in Invocations,
         NEW step \in {"exited", "crashed"},
         pc' = [pc EXCEPT ![i] = step],
         UNCHANGED <<args, gated, fd, dst, tmp, data, rfd, seen>>
  PROVE  IInv'
<1>1. \A j \in Invocations : pc'[j] = pc[j] \/ pc'[j] = step
  BY DEF TypeOK
<1>2. OneLive'
  BY DEF IInv, OneLive, Live
<1>3. (NamesApart /\ DstWhole /\ OpenReadsWhole /\ ReadersSeeWhole)'
  BY DEF IInv, NamesApart, DstWhole, OpenReadsWhole, ReadersSeeWhole
<1>4. (HoldsTmp /\ ReadyToRename /\ NotYetCreated)'
  BY DEF IInv, HoldsTmp, ReadyToRename, NotYetCreated
<1>5. GateStillHolds'
  BY DEF IInv, GateStillHolds, Visible
<1> QED
  BY <1>2, <1>3, <1>4, <1>5 DEF IInv

\* A step of the command keeps the invariant.
LEMMA InvocationKeepsIInv ==
  ASSUME OneAtATime, IInv, NEW i \in Invocations, Invoke(i)
  PROVE  IInv'
<1>a. TypeOK /\ TypeOK'
  BY InvocationKeepsTypes DEF IInv
<1>b. \A j \in Invocations \ {i} :
         pc[i] \notin {"idle", "exited", "crashed"} =>
            pc[j] \in {"idle", "exited", "crashed"}
  BY DEF IInv, OneLive, Live
<1>1. CASE Usage(i) \/ OpenFails(i) \/ Crash(i)
  BY <1>1, <1>a, StopKeepsIInv
     DEF Usage, OpenFails, Crash, Exit, Goto, files, readers
<1>2. CASE Start(i)
  <2>1. OneLive'
    BY <1>2 DEF Start, Goto, Live, MayStart, OneAtATime, OneLive
  <2>2. HoldsTmp'
    BY <1>2 DEF Start, Goto, files, IInv, HoldsTmp
  <2>3. ReadyToRename'
    BY <1>2 DEF Start, Goto, files, IInv, MayStart, ReadyToRename
  <2>4. NotYetCreated'
    BY <1>2 DEF Start, Goto, files, readers, IInv, MayStart, NotYetCreated
  <2>5. GateStillHolds'
    BY <1>2 DEF Start, Goto, files, IInv, Visible, MayStart, GateStillHolds
  <2>6. (NamesApart /\ DstWhole /\ OpenReadsWhole /\ ReadersSeeWhole)'
    BY <1>2
       DEF Start, files, readers, IInv, NamesApart, DstWhole,
           OpenReadsWhole, ReadersSeeWhole
  <2> QED
    BY <1>a, <2>1, <2>2, <2>3, <2>4, <2>5, <2>6 DEF IInv
<1>3. CASE Validate(i)
  <2>1. OneLive'
    BY <1>3 DEF Validate, Goto, Exit, IInv, TypeOK, Live, OneLive
  <2>2. HoldsTmp'
    BY <1>3 DEF Validate, Goto, Exit, files, IInv, TypeOK, HoldsTmp
  <2>3. ReadyToRename'
    BY <1>3 DEF Validate, Goto, Exit, files, IInv, TypeOK, ReadyToRename
  <2>4. NotYetCreated'
    BY <1>3
       DEF Validate, Goto, Exit, files, readers, IInv, TypeOK,
           NotYetCreated
  <2>5. GateStillHolds'
    BY <1>3
       DEF Validate, Goto, Exit, files, IInv, TypeOK, Visible,
           GateStillHolds
  <2>6. (NamesApart /\ DstWhole /\ OpenReadsWhole /\ ReadersSeeWhole)'
    BY <1>3
       DEF Validate, files, readers, IInv, NamesApart, DstWhole,
           OpenReadsWhole, ReadersSeeWhole
  <2> QED
    BY <1>a, <2>1, <2>2, <2>3, <2>4, <2>5, <2>6 DEF IInv
<1>4. CASE Gate(i)
  <2>1. OneLive'
    BY <1>4 DEF Gate, Goto, Exit, IInv, TypeOK, Live, OneLive
  <2>2. HoldsTmp'
    BY <1>4 DEF Gate, Goto, Exit, files, IInv, TypeOK, HoldsTmp
  <2>3. ReadyToRename'
    BY <1>4 DEF Gate, Goto, Exit, files, IInv, TypeOK, ReadyToRename
  <2>4. NotYetCreated'
    BY <1>4 DEF Gate, Goto, Exit, files, readers, IInv, TypeOK, NotYetCreated
  <2>5. GateStillHolds'
    BY <1>4 DEF Gate, Goto, Exit, files, IInv, TypeOK, Visible, GateStillHolds
  <2>6. (NamesApart /\ DstWhole /\ OpenReadsWhole /\ ReadersSeeWhole)'
    BY <1>4
       DEF Gate, files, readers, IInv, NamesApart, DstWhole,
           OpenReadsWhole, ReadersSeeWhole
  <2> QED
    BY <1>a, <2>1, <2>2, <2>3, <2>4, <2>5, <2>6 DEF IInv
<1>5. CASE OpenTmp(i)
  <2>1. OneLive'
    BY <1>5 DEF OpenTmp, Goto, IInv, Live, OneLive
  <2>2. NamesApart'
    BY <1>5 DEF OpenTmp, IInv, NamesApart, NotYetCreated
  <2>3. DstWhole'
    BY <1>5 DEF OpenTmp, IInv, NamesApart, NotYetCreated, DstWhole
  <2>4. HoldsTmp'
    BY <1>5 DEF OpenTmp, Goto, IInv, TypeOK, HoldsTmp, NotYetCreated
  <2>5. ReadyToRename'
    BY <1>5, <1>b DEF OpenTmp, Goto, ReadyToRename
  <2>6. NotYetCreated'
    BY <1>5 DEF OpenTmp, Goto, readers, IInv, TypeOK, NotYetCreated
  <2>7. OpenReadsWhole'
    BY <1>5 DEF OpenTmp, readers, IInv, NotYetCreated, OpenReadsWhole
  <2>8. GateStillHolds'
    BY <1>5
       DEF OpenTmp, Goto, IInv, Visible, NamesApart, NotYetCreated,
           GateStillHolds
  <2>9. (ReadersSeeWhole)'
    BY <1>5 DEF OpenTmp, readers, IInv, ReadersSeeWhole
  <2> QED
    BY <1>a, <2>1, <2>2, <2>3, <2>4, <2>5, <2>6, <2>7, <2>8, <2>9 DEF IInv
<1>6. CASE WriteThrough(i)
  <2>1. OneLive'
    BY <1>6 DEF WriteThrough, Goto, IInv, Live, OneLive
  <2>2. DstWhole'
    BY <1>6 DEF WriteThrough, IInv, HoldsTmp, NamesApart, DstWhole
  <2>3. HoldsTmp'
    BY <1>6 DEF WriteThrough, Goto, IInv, HoldsTmp
  <2>4. ReadyToRename'
    BY <1>6, <1>b
       DEF WriteThrough, Goto, IInv, TypeOK, HoldsTmp, ReadyToRename
  <2>5. NotYetCreated'
    BY <1>6 DEF WriteThrough, Goto, readers, IInv, NotYetCreated
  <2>6. OpenReadsWhole'
    BY <1>6 DEF WriteThrough, readers, IInv, HoldsTmp, OpenReadsWhole
  <2>7. GateStillHolds'
    BY <1>6
       DEF WriteThrough, Goto, IInv, Visible, HoldsTmp, NamesApart,
           GateStillHolds
  <2>8. (NamesApart /\ ReadersSeeWhole)'
    BY <1>6 DEF WriteThrough, readers, IInv, NamesApart, ReadersSeeWhole
  <2> QED
    BY <1>a, <2>1, <2>2, <2>3, <2>4, <2>5, <2>6, <2>7, <2>8 DEF IInv
<1>7. CASE WriteFails(i)
  <2>1. OneLive'
    BY <1>7 DEF WriteFails, Exit, IInv, Live, OneLive
  <2>2. DstWhole'
    BY <1>7 DEF WriteFails, IInv, HoldsTmp, NamesApart, DstWhole
  <2>3. HoldsTmp'
    BY <1>7 DEF WriteFails, Exit, IInv, HoldsTmp
  <2>4. ReadyToRename'
    BY <1>7, <1>b DEF WriteFails, Exit, ReadyToRename
  <2>5. NotYetCreated'
    BY <1>7 DEF WriteFails, Exit, readers, IInv, NotYetCreated
  <2>6. OpenReadsWhole'
    BY <1>7 DEF WriteFails, readers, IInv, HoldsTmp, OpenReadsWhole
  <2>7. GateStillHolds'
    BY <1>7
       DEF WriteFails, Exit, IInv, Visible, HoldsTmp, NamesApart,
           GateStillHolds
  <2>8. (NamesApart /\ ReadersSeeWhole)'
    BY <1>7 DEF WriteFails, readers, IInv, NamesApart, ReadersSeeWhole
  <2> QED
    BY <1>a, <2>1, <2>2, <2>3, <2>4, <2>5, <2>6, <2>7, <2>8 DEF IInv
<1>8. CASE WriteBuffered(i)
  <2>1. OneLive'
    BY <1>8 DEF WriteBuffered, Goto, IInv, Live, OneLive
  <2>2. HoldsTmp'
    BY <1>8 DEF WriteBuffered, Goto, files, IInv, HoldsTmp
  <2>3. ReadyToRename'
    BY <1>8 DEF WriteBuffered, Goto, files, IInv, ReadyToRename
  <2>4. NotYetCreated'
    BY <1>8 DEF WriteBuffered, Goto, files, readers, IInv, NotYetCreated
  <2>5. GateStillHolds'
    BY <1>8 DEF WriteBuffered, Goto, files, IInv, Visible, GateStillHolds
  <2>6. (NamesApart /\ DstWhole /\ OpenReadsWhole /\ ReadersSeeWhole)'
    BY <1>8
       DEF WriteBuffered, files, readers, IInv, NamesApart, DstWhole,
           OpenReadsWhole, ReadersSeeWhole
  <2> QED
    BY <1>a, <2>1, <2>2, <2>3, <2>4, <2>5, <2>6 DEF IInv
<1>9. CASE Flush(i)
  <2>1. OneLive'
    BY <1>9 DEF Flush, Goto, IInv, Live, OneLive
  <2>2. DstWhole'
    BY <1>9 DEF Flush, IInv, HoldsTmp, NamesApart, DstWhole
  <2>3. HoldsTmp'
    BY <1>9 DEF Flush, Goto, IInv, HoldsTmp
  <2>4. ReadyToRename'
    BY <1>9, <1>b DEF Flush, Goto, IInv, TypeOK, HoldsTmp, ReadyToRename
  <2>5. NotYetCreated'
    BY <1>9 DEF Flush, Goto, readers, IInv, NotYetCreated
  <2>6. OpenReadsWhole'
    BY <1>9 DEF Flush, readers, IInv, HoldsTmp, OpenReadsWhole
  <2>7. GateStillHolds'
    BY <1>9
       DEF Flush, Goto, IInv, Visible, HoldsTmp, NamesApart, GateStillHolds
  <2>8. (NamesApart /\ ReadersSeeWhole)'
    BY <1>9 DEF Flush, readers, IInv, NamesApart, ReadersSeeWhole
  <2> QED
    BY <1>a, <2>1, <2>2, <2>3, <2>4, <2>5, <2>6, <2>7, <2>8 DEF IInv
<1>10. CASE FlushFails(i)
  BY <1>10 DEF FlushFails, OneAtATime
<1>11. CASE Rename(i)
  <2>1. OneLive'
    BY <1>11 DEF Rename, Exit, IInv, Live, OneLive
  <2>2. NamesApart'
    BY <1>11 DEF Rename, NamesApart
  <2>3. DstWhole'
    BY <1>11, ComposedIsContent
       DEF Rename, IInv, TypeOK, HoldsTmp, ReadyToRename, DstWhole
  <2>4. HoldsTmp'
    BY <1>11, <1>b DEF Rename, Exit, IInv, TypeOK, HoldsTmp
  <2>5. ReadyToRename'
    BY <1>11 DEF Rename, Exit, IInv, ReadyToRename
  <2>6. NotYetCreated'
    BY <1>11, ImportAssumption DEF Rename, Exit, readers, IInv, NotYetCreated
  <2>7. OpenReadsWhole'
    BY <1>11 DEF Rename, readers, IInv, OpenReadsWhole
  <2>8. GateStillHolds'
    BY <1>11, <1>b DEF Rename, Exit, IInv, TypeOK, GateStillHolds
  <2>9. (ReadersSeeWhole)'
    BY <1>11 DEF Rename, readers, IInv, ReadersSeeWhole
  <2> QED
    BY <1>a, <2>1, <2>2, <2>3, <2>4, <2>5, <2>6, <2>7, <2>8, <2>9 DEF IInv
<1>12. CASE RenameFails(i)
  <2>1. OneLive'
    BY <1>12 DEF RenameFails, Goto, IInv, Live, OneLive
  <2>2. HoldsTmp'
    BY <1>12 DEF RenameFails, Goto, files, IInv, HoldsTmp
  <2>3. ReadyToRename'
    BY <1>12 DEF RenameFails, Goto, files, IInv, ReadyToRename
  <2>4. NotYetCreated'
    BY <1>12 DEF RenameFails, Goto, files, readers, IInv, NotYetCreated
  <2>5. GateStillHolds'
    BY <1>12 DEF RenameFails, Goto, files, IInv, Visible, GateStillHolds
  <2>6. (NamesApart /\ DstWhole /\ OpenReadsWhole /\ ReadersSeeWhole)'
    BY <1>12
       DEF RenameFails, files, readers, IInv, NamesApart, DstWhole,
           OpenReadsWhole, ReadersSeeWhole
  <2> QED
    BY <1>a, <2>1, <2>2, <2>3, <2>4, <2>5, <2>6 DEF IInv
<1>13. CASE Cleanup(i)
  <2>1. OneLive'
    BY <1>13 DEF Cleanup, Exit, IInv, Live, OneLive
  <2>2. NamesApart'
    BY <1>13 DEF Cleanup, IInv, NamesApart
  <2>3. HoldsTmp'
    BY <1>13, <1>b DEF Cleanup, Exit, HoldsTmp
  <2>4. ReadyToRename'
    BY <1>13 DEF Cleanup, Exit, IInv, ReadyToRename
  <2>5. NotYetCreated'
    BY <1>13, ImportAssumption DEF Cleanup, Exit, readers, IInv, NotYetCreated
  <2>6. OpenReadsWhole'
    BY <1>13 DEF Cleanup, readers, IInv, OpenReadsWhole
  <2>7. GateStillHolds'
    BY <1>13 DEF Cleanup, Exit, IInv, Visible, GateStillHolds
  <2>8. (DstWhole /\ ReadersSeeWhole)'
    BY <1>13 DEF Cleanup, readers, IInv, DstWhole, ReadersSeeWhole
  <2> QED
    BY <1>a, <2>1, <2>2, <2>3, <2>4, <2>5, <2>6, <2>7, <2>8 DEF IInv
<1> QED
  BY <1>1, <1>2, <1>3, <1>4, <1>5, <1>6, <1>7, <1>8, <1>9, <1>10, <1>11,
     <1>12, <1>13 DEF Invoke

\* A step of a reader keeps the invariant.
LEMMA ReaderKeepsIInv ==
  ASSUME IInv, NEW r \in Readers, Read(r)
  PROVE  IInv'
<1>a. TypeOK /\ TypeOK'
  BY ReaderKeepsTypes DEF IInv
<1>1. UNCHANGED <<pc, args, gated, fd, dst, tmp, data>>
  BY DEF Read, ReaderMisses, ReaderOpens, ReaderReads, procs, files
<1>2. (OneLive /\ NamesApart /\ DstWhole /\ HoldsTmp /\ ReadyToRename /\ GateStillHolds)'
  BY <1>1
     DEF IInv, OneLive, Live, NamesApart, DstWhole, HoldsTmp,
         ReadyToRename, GateStillHolds, Visible
<1>3. NotYetCreated'
  BY <1>1, ImportAssumption
     DEF Read, ReaderMisses, ReaderOpens, ReaderReads, IInv, TypeOK,
         NotYetCreated
<1>4. OpenReadsWhole'
  BY <1>1
     DEF Read, ReaderMisses, ReaderOpens, ReaderReads, IInv, TypeOK,
         NamesApart, DstWhole, OpenReadsWhole
<1>5. ReadersSeeWhole'
  BY DEF Read, ReaderMisses, ReaderOpens, ReaderReads, IInv, TypeOK,
         OpenReadsWhole, ReadersSeeWhole, Absent, Torn
<1> QED
  BY <1>a, <1>2, <1>3, <1>4, <1>5 DEF IInv

\* The initial states satisfy the invariant: nothing in place is torn.
LEMMA IInvInit == Init => IInv
<1> SUFFICES ASSUME Init PROVE IInv
  OBVIOUS
<1>1. TypeOK
  BY TypeInit
<1>2. OneLive /\ HoldsTmp /\ ReadyToRename /\ GateStillHolds
  BY DEF Init, OneLive, Live, HoldsTmp, ReadyToRename, GateStillHolds
<1>3. DstWhole /\ NamesApart
  BY ImportAssumption DEF Init, DstWhole, NamesApart, Inodes
<1>4. NotYetCreated
  BY ImportAssumption DEF Init, NotYetCreated
<1>5. OpenReadsWhole /\ ReadersSeeWhole
  BY DEF Init, OpenReadsWhole, ReadersSeeWhole, Absent, Torn
<1> QED
  BY <1>1, <1>2, <1>3, <1>4, <1>5 DEF IInv

\* The invariant is inductive when imports run one at a time and no flush
\* fails.
LEMMA IInvStep == OneAtATime /\ IInv /\ [Next]_vars => IInv'
<1> SUFFICES ASSUME OneAtATime, IInv, [Next]_vars PROVE IInv'
  OBVIOUS
<1>1. CASE UNCHANGED vars
  BY <1>1
     DEF vars, IInv, TypeOK, OneLive, Live, NamesApart, DstWhole, HoldsTmp,
         ReadyToRename, NotYetCreated, OpenReadsWhole, GateStillHolds,
         Visible, ReadersSeeWhole
<1>2. CASE Next
  BY <1>2, InvocationKeepsIInv, ReaderKeepsIInv DEF Next
<1> QED
  BY <1>1, <1>2

LEMMA IInvAlways == ASSUME OneAtATime PROVE Spec => []IInv
<1>1. OneAtATime /\ IInv /\ [Next]_vars => IInv'
  BY IInvStep
<1>2. IInv /\ [Next]_vars => IInv'
  BY <1>1
<1> QED
  BY <1>2, IInvInit, PTL DEF Spec

\* write_atomic's promise, with the assumptions it needs: one import at a time
\* and no lost flush.  Crashes, failed opens, writes and renames, stale
\* temporary files and readers at any moment are all in.
THEOREM WholeWhenSerial == ASSUME OneAtATime PROVE Spec => []ReadersSeeWhole
<1>1. IInv => ReadersSeeWhole
  BY DEF IInv
<1> QED
  BY <1>1, IInvAlways, PTL

-----------------------------------------------------------------------------
(* One import at a time is one guarded install on the cell.                 *)

\* An invocation under way works with arguments somebody called it with.
ArgsRequested == \A i \in Invocations : Live(i) => args[i] \in Requests

LEMMA ArgsRequestedStep ==
  ASSUME TypeOK, ArgsRequested, NEW i \in Invocations, Invoke(i)
  PROVE  ArgsRequested'
<1>1. CASE Start(i)
  BY <1>1 DEF Start, Goto, TypeOK, ArgsRequested, Live
<1>2. CASE ~Start(i)
  <2>1. UNCHANGED args
    BY <1>2 DEF Invoke, Usage, Validate, Gate, OpenFails, OpenTmp,
       WriteThrough, WriteFails, WriteBuffered, Flush, FlushFails, Rename,
       RenameFails, Cleanup, Crash
  <2>2. \A j \in Invocations : Live(j)' => Live(j)
    BY <1>2 DEF Invoke, Usage, Validate, Gate, OpenFails, OpenTmp,
       WriteThrough, WriteFails, WriteBuffered, Flush, FlushFails, Rename,
       RenameFails, Cleanup, Crash, Goto, Exit, TypeOK, Live
  <2> QED
    BY <2>1, <2>2 DEF ArgsRequested
<1> QED
  BY <1>1, <1>2

LEMMA ArgsRequestedAlways == Spec => []ArgsRequested
<1>1. Init => ArgsRequested
  BY DEF Init, ArgsRequested, Live
<1>2. TypeOK /\ ArgsRequested /\ [Next]_vars => ArgsRequested'
  <2> SUFFICES ASSUME TypeOK, ArgsRequested, [Next]_vars PROVE ArgsRequested'
    OBVIOUS
  <2>1. CASE \E i \in Invocations : Invoke(i)
    BY <2>1, ArgsRequestedStep
  <2>2. CASE UNCHANGED vars \/ \E r \in Readers : Read(r)
    BY <2>2 DEF vars, procs, Read, ReaderMisses, ReaderOpens, ReaderReads,
       ArgsRequested, Live
  <2> QED
    BY <2>1, <2>2 DEF Next
<1> QED
  BY <1>1, <1>2, TypeCorrect, PTL DEF Spec

\* The rename installs the document of the invocation's arguments, past the
\* gate evaluated on the very content it replaces.
LEMMA RenameInstalls ==
  ASSUME IInv, ArgsRequested, NEW i \in Invocations, Rename(i)
  PROVE  Cell!Next
<1>1. Live(i) /\ args[i] \in Requests
  BY DEF Rename, Live, ArgsRequested
<1>2. Valid(args[i]) /\ GateAdmits(args[i], Visible)
  BY DEF IInv, GateStillHolds, Rename
<1>3. Visible' = Composed(args[i])
  BY DEF Rename, Visible, IInv, HoldsTmp, ReadyToRename
<1>4. Cell!Install(args[i])
  BY <1>2, <1>3 DEF Cell!Install, Cell!Valid, Valid, Cell!GateAdmits, GateAdmits,
     Cell!SameDeclaration, SameDeclaration, Cell!Composed, Composed,
     Cell!ExtraKeys, ExtraKeys
<1> QED
  BY <1>1, <1>4 DEF Cell!Next

\* No other step of the command changes what a reader would get.
LEMMA OtherStepsInvisible ==
  ASSUME OneAtATime, IInv, NEW i \in Invocations, Invoke(i), ~Rename(i)
  PROVE  UNCHANGED Visible
<1>1. CASE UNCHANGED files
  BY <1>1 DEF files, Visible
<1>2. CASE OpenTmp(i)
  BY <1>2 DEF OpenTmp, Visible, IInv, NamesApart, NotYetCreated
<1>3. CASE WriteThrough(i) \/ WriteFails(i) \/ Flush(i)
  <2>1. fd[i] # dst \/ dst = NoInode
    BY <1>3 DEF WriteThrough, WriteFails, Flush, IInv, NamesApart, HoldsTmp
  <2>2. dst' = dst /\ \E c : data' = [data EXCEPT ![fd[i]] = c]
    BY <1>3 DEF WriteThrough, WriteFails, Flush
  <2> QED
    BY <2>1, <2>2 DEF Visible, IInv, TypeOK
<1>4. CASE Cleanup(i)
  BY <1>4 DEF Cleanup, Visible
<1>5. CASE FlushFails(i)
  BY <1>5 DEF FlushFails, OneAtATime
<1> QED
  BY <1>1, <1>2, <1>3, <1>4, <1>5 DEF Invoke, Usage, Start, Validate, Gate,
     OpenFails, WriteBuffered, RenameFails, Crash

\* One import at a time and no lost flush: the command, with all its steps,
\* failures and crashes, implements the cell that is replaced in one step past
\* the gate on what it replaces.
THEOREM SerialImportsImplementCell ==
  ASSUME OneAtATime PROVE Spec => ImplementsCell
<1>1. Init => Cell!Init
  BY ImportAssumption DEF Init, Cell!Init, Visible, Inodes
<1>2. IInv /\ ArgsRequested /\ [Next]_vars => [Cell!Next]_Visible
  <2> SUFFICES ASSUME IInv, ArgsRequested, [Next]_vars
               PROVE  Cell!Next \/ UNCHANGED Visible
    OBVIOUS
  <2>1. CASE \E i \in Invocations : Invoke(i)
    BY <2>1, RenameInstalls, OtherStepsInvisible
  <2>2. CASE UNCHANGED vars \/ \E r \in Readers : Read(r)
    BY <2>2 DEF vars, files, Read, ReaderMisses, ReaderOpens, ReaderReads,
       Visible
  <2> QED
    BY <2>1, <2>2 DEF Next
<1> QED
  BY <1>1, <1>2, IInvAlways, ArgsRequestedAlways, PTL
     DEF Spec, ImplementsCell, Cell!Spec

-----------------------------------------------------------------------------
(* What the exit code says.                                                 *)

\* Who has not parsed its arguments has none.
IdleUnasked == \A i \in Invocations : pc[i] = "idle" => args[i] = NoArgs

LEMMA IdleUnaskedAlways == Spec => []IdleUnasked
<1>1. Init => IdleUnasked
  BY DEF Init, IdleUnasked
<1>2. TypeOK /\ IdleUnasked /\ [Next]_vars => IdleUnasked'
  <2> SUFFICES ASSUME TypeOK, IdleUnasked, [Next]_vars PROVE IdleUnasked'
    OBVIOUS
  <2>1. ASSUME NEW i \in Invocations, Invoke(i) PROVE IdleUnasked'
    BY <2>1 DEF TypeOK, IdleUnasked, Invoke, Usage, Start, Validate, Gate, OpenFails, OpenTmp,
       WriteThrough, WriteFails, WriteBuffered, Flush, FlushFails, Rename, RenameFails,
       Cleanup, Crash, Exit, Goto
  <2>2. CASE UNCHANGED vars \/ \E r \in Readers : Read(r)
    BY <2>2 DEF vars, procs, Read, ReaderMisses, ReaderOpens, ReaderReads, IdleUnasked
  <2> QED
    BY <2>1, <2>2 DEF Next
<1> QED
  BY <1>1, <1>2, TypeCorrect, PTL DEF Spec

\* The step with which an invocation exits.
LEMMA ExitStepTellsTheTruth ==
  ASSUME OneAtATime, IInv, IdleUnasked, NEW i \in Invocations, Invoke(i),
         NEW j \in Invocations, Exits(j), args[j] # NoArgs
  PROVE  \/ rc'[j] = 0 /\ Visible' = Composed(args[j])
         \/ rc'[j] = 1 /\ Visible' = gated'[j]
         \/ rc'[j] = 2 /\ Visible' = Visible
<1>1. j = i
  BY DEF IInv, TypeOK, Exits, Invoke, Usage, Start, Validate, Gate, OpenFails, OpenTmp,
     WriteThrough, WriteFails, WriteBuffered, Flush, FlushFails, Rename, RenameFails,
     Cleanup, Crash, Exit, Goto
<1>2. CASE Rename(i)
  <2>1. Visible' = Composed(args[i])
    BY <1>2 DEF Rename, Visible, IInv, HoldsTmp, ReadyToRename
  <2> QED
    BY <1>1, <1>2, <2>1 DEF Rename, Exit, IInv, TypeOK
<1>3. CASE Validate(i) \/ Gate(i)
  <2>1. Visible' = Visible
    BY <1>3, OtherStepsInvisible DEF Validate, Gate, Rename
  <2> QED
    BY <1>1, <1>3, <2>1 DEF Validate, Gate, Exit, Goto, Exits, IInv, TypeOK
<1>4. CASE OpenFails(i) \/ WriteFails(i) \/ Cleanup(i)
  <2>1. Visible' = Visible
    BY <1>4, OtherStepsInvisible DEF OpenFails, WriteFails, Cleanup, Rename
  <2>2. gated[i] = Visible /\ gated' = gated
    BY <1>4 DEF OpenFails, WriteFails, Cleanup, IInv, GateStillHolds
  <2> QED
    BY <1>1, <1>4, <2>1, <2>2 DEF OpenFails, WriteFails, Cleanup, Exit, IInv, TypeOK
<1>5. ~Usage(i)
  BY <1>1 DEF Usage, MayStart, IdleUnasked
<1>6. CASE \/ Start(i) \/ OpenTmp(i) \/ WriteThrough(i) \/ WriteBuffered(i) \/ Flush(i)
           \/ FlushFails(i) \/ RenameFails(i) \/ Crash(i)
  BY <1>1, <1>6 DEF Start, OpenTmp, WriteThrough, WriteBuffered, Flush, FlushFails,
     RenameFails, Crash, Goto, Exits, IInv, TypeOK
<1> QED
  BY <1>2, <1>3, <1>4, <1>5, <1>6 DEF Invoke

\* One import at a time and no lost flush: exit 0 means that the document of
\* these very arguments is at the path, 1 that what the gate saw still is, 2
\* that nothing has changed, at whatever step a failure happened.
THEOREM ExitCodesTruthful == ASSUME OneAtATime PROVE Spec => ExitTellsTheTruth
<1>1. IInv /\ IdleUnasked /\ [Next]_vars =>
        [\A i \in Invocations :
            Exits(i) /\ args[i] # NoArgs =>
               \/ rc'[i] = 0 /\ Visible' = Composed(args[i])
               \/ rc'[i] = 1 /\ Visible' = gated'[i]
               \/ rc'[i] = 2 /\ Visible' = Visible]_vars
  <2> SUFFICES ASSUME IInv, IdleUnasked, Next, NEW j \in Invocations, Exits(j),
                      args[j] # NoArgs
               PROVE  \/ rc'[j] = 0 /\ Visible' = Composed(args[j])
                      \/ rc'[j] = 1 /\ Visible' = gated'[j]
                      \/ rc'[j] = 2 /\ Visible' = Visible
    OBVIOUS
  <2>1. CASE \E i \in Invocations : Invoke(i)
    BY <2>1, ExitStepTellsTheTruth
  <2>2. CASE \E r \in Readers : Read(r)
    BY <2>2 DEF Read, ReaderMisses, ReaderOpens, ReaderReads, procs, Exits
  <2> QED
    BY <2>1, <2>2 DEF Next
<1> QED
  BY <1>1, IInvAlways, IdleUnaskedAlways, PTL DEF Spec, ExitTellsTheTruth

-----------------------------------------------------------------------------
(* No silent overwrite.                                                     *)

\* An exit code belongs to an invocation that has exited.
ExitedHaveCodes == \A i \in Invocations : rc[i] # -1 => pc[i] = "exited"

LEMMA ExitedHaveCodesAlways == Spec => []ExitedHaveCodes
<1>1. Init => ExitedHaveCodes
  BY DEF Init, ExitedHaveCodes
<1>2. TypeOK /\ ExitedHaveCodes /\ [Next]_vars => ExitedHaveCodes'
  <2> SUFFICES ASSUME TypeOK, ExitedHaveCodes, [Next]_vars PROVE ExitedHaveCodes'
    OBVIOUS
  <2>1. ASSUME NEW i \in Invocations, Invoke(i) PROVE ExitedHaveCodes'
    BY <2>1 DEF TypeOK, ExitedHaveCodes, Invoke, Usage, MayStart, Start, Validate, Gate,
       OpenFails, OpenTmp, WriteThrough, WriteFails, WriteBuffered, Flush, FlushFails,
       Rename, RenameFails, Cleanup, Crash, Live, Exit, Goto
  <2>2. CASE UNCHANGED vars \/ \E r \in Readers : Read(r)
    BY <2>2 DEF vars, procs, Read, ReaderMisses, ReaderOpens, ReaderReads, ExitedHaveCodes
  <2> QED
    BY <2>1, <2>2 DEF Next
<1> QED
  BY <1>1, <1>2, TypeCorrect, PTL DEF Spec

\* An unforced import that the gate lets past a declared key declares that key.
LEMMA UnforcedKeepsKey ==
  ASSUME NEW a \in Args, NEW b \in Args, NEW c \in Content, ~a.force,
         GateAdmits(a, c), c.kind = "object", SameDeclaration(b, c)
  PROVE  Composed(a).kind = "object" /\ SameDeclaration(b, Composed(a))
BY DEF GateAdmits, SameDeclaration, Composed

\* A step of an invocation other than its rename declares nothing.
LEMMA OtherStepsDeclareNothing ==
  ASSUME OneAtATime, IInv, IdleUnasked, ExitedHaveCodes, DeclaredKeyStays,
         NEW i \in Invocations, Invoke(i), ~Rename(i)
  PROVE  DeclaredKeyStays'
<1>1. Visible' = Visible
  BY OtherStepsInvisible
<1>2. ASSUME \A j \in Invocations : ~args'[j].force
      PROVE  \A j \in Invocations : ~args[j].force
  <2> SUFFICES ASSUME NEW j \in Invocations, args'[j] # args[j] PROVE ~args[j].force
    BY <1>2
  <2>1. pc[j] = "idle"
    BY DEF IInv, TypeOK, Invoke, Usage, MayStart, Start, Validate, Gate, OpenFails,
       OpenTmp, WriteThrough, WriteFails, WriteBuffered, Flush, FlushFails, Rename,
       RenameFails, Cleanup, Crash
  <2> QED
    BY <2>1 DEF IdleUnasked, NoArgs
<1>3. ASSUME NEW j \in Invocations, rc'[j] = 0, args'[j] # NoArgs
      PROVE  rc[j] = 0 /\ args'[j] = args[j]
  <2>1. CASE Usage(i) \/ Start(i)
    BY <1>3, <2>1 DEF IInv, TypeOK, IdleUnasked, ExitedHaveCodes, Usage, MayStart, Start,
       Exit, Goto
  <2>2. CASE ~Usage(i) /\ ~Start(i)
    BY <1>3, <2>2 DEF IInv, TypeOK, Invoke, Validate, Gate, OpenFails, OpenTmp,
       WriteThrough, WriteFails, WriteBuffered, Flush, FlushFails, RenameFails, Cleanup,
       Crash, Exit, Goto
  <2> QED
    BY <2>1, <2>2
<1> QED
  BY <1>1, <1>2, <1>3 DEF DeclaredKeyStays

\* The rename of an import that nobody forced keeps the key that is declared.
LEMMA RenameKeepsKey ==
  ASSUME OneAtATime, IInv, DeclaredKeyStays, NEW i \in Invocations, Rename(i)
  PROVE  DeclaredKeyStays'
<1>1. /\ Visible' = Composed(args[i])
      /\ GateAdmits(args[i], Visible)
      /\ args' = args
      /\ Visible \in Content
      /\ \A j \in Invocations : args[j] \in Args
  <2>1. Visible' = Composed(args[i])
    BY DEF Rename, Visible, IInv, HoldsTmp, ReadyToRename
  <2>2. Visible \in Content
    BY SentinelsTyped DEF IInv, TypeOK, Visible
  <2> QED
    BY <2>1, <2>2 DEF Rename, IInv, GateStillHolds, TypeOK
<1> SUFFICES ASSUME \A j \in Invocations : ~args[j].force,
                    NEW j \in Invocations, rc'[j] = 0, args[j] # NoArgs
             PROVE  Composed(args[i]).kind = "object" /\ SameDeclaration(args[j], Composed(args[i]))
  BY <1>1 DEF DeclaredKeyStays
<1>2. CASE j = i
  BY <1>2 DEF Composed, SameDeclaration
<1>3. CASE j # i
  <2>1. rc[j] = 0
    BY <1>3 DEF Rename, Exit, IInv, TypeOK
  <2>2. Visible.kind = "object" /\ SameDeclaration(args[j], Visible)
    BY <2>1 DEF DeclaredKeyStays
  <2> QED
    BY <1>1, <2>2, UnforcedKeepsKey
<1> QED
  BY <1>2, <1>3

\* One import at a time and no lost flush: without --force nothing that follows
\* a successful import, failures and crashes included, takes its key away.
THEOREM NoSilentOverwrite == ASSUME OneAtATime PROVE Spec => []DeclaredKeyStays
<1>1. Init => DeclaredKeyStays
  BY DEF Init, DeclaredKeyStays
<1>2. IInv /\ IdleUnasked /\ ExitedHaveCodes /\ DeclaredKeyStays /\ [Next]_vars
        => DeclaredKeyStays'
  <2> SUFFICES ASSUME IInv, IdleUnasked, ExitedHaveCodes, DeclaredKeyStays, [Next]_vars
               PROVE  DeclaredKeyStays'
    OBVIOUS
  <2>1. CASE \E i \in Invocations : Invoke(i)
    BY <2>1, OtherStepsDeclareNothing, RenameKeepsKey
  <2>2. CASE UNCHANGED vars \/ \E r \in Readers : Read(r)
    BY <2>2 DEF vars, procs, files, Read, ReaderMisses, ReaderOpens, ReaderReads, Visible,
       DeclaredKeyStays
  <2> QED
    BY <2>1, <2>2 DEF Next
<1> QED
  BY <1>1, <1>2, IInvAlways, IdleUnaskedAlways, ExitedHaveCodesAlways, PTL DEF Spec

-----------------------------------------------------------------------------
(* The path never becomes empty again.                                      *)

\* Whatever has a name or is open has been written to; once a reader has found
\* the descriptor, there is one.
NamedAreThere ==
    /\ dst # NoInode => data[dst] # Absent
    /\ tmp # NoInode => data[tmp] # Absent
    /\ \A r \in Readers : /\ rfd[r] # NoInode => dst # NoInode /\ data[rfd[r]] # Absent
                          /\ seen[r] # Absent => dst # NoInode

LEMMA InvocationKeepsNamed ==
  ASSUME TypeOK, NamedAreThere, NEW i \in Invocations, Invoke(i)
  PROVE  NamedAreThere' /\ seen' = seen
<1> USE ImportAssumption
<1>1. \A n \in Inodes : data[n] # Absent => data'[n] # Absent
  <2>1. Composed(args[i]) # Absent /\ Torn # Absent
    BY ComposedIsContent DEF TypeOK, Torn, Absent
  <2>2. UNCHANGED data \/ \E n \in Inodes \cup {NoInode}, c \in {Composed(args[i]), Torn} :
                             data' = [data EXCEPT ![n] = c]
    <3>1. CASE OpenTmp(i)
      <4>1. (IF tmp = NoInode THEN i ELSE tmp) \in Inodes
        BY DEF TypeOK, Inodes
      <4> QED
        BY <3>1, <4>1 DEF OpenTmp
    <3>2. CASE WriteThrough(i) \/ WriteFails(i) \/ Flush(i) \/ FlushFails(i)
      BY <3>2 DEF WriteThrough, WriteFails, Flush, FlushFails, TypeOK
    <3> QED
      BY <3>1, <3>2 DEF Invoke, Usage, Start, Validate, Gate, OpenFails, WriteBuffered, Rename,
         RenameFails, Cleanup, Crash, files
  <2> QED
    BY <2>1, <2>2 DEF TypeOK
<1>2. /\ dst' = dst \/ (dst' = tmp /\ tmp # NoInode)
      /\ rfd' = rfd /\ seen' = seen
  BY DEF Invoke, Usage, Start, Validate, Gate, OpenFails, OpenTmp, WriteThrough,
     WriteFails, WriteBuffered, Flush, FlushFails, Rename, RenameFails, Cleanup, Crash,
     files, readers
<1>3. tmp' \in {tmp, NoInode} \/ (tmp' \in Inodes /\ data'[tmp'] = Torn)
  <2>1. CASE OpenTmp(i)
    BY <2>1 DEF OpenTmp, TypeOK, Inodes
  <2> QED
    BY <2>1 DEF Invoke, Usage, Start, Validate, Gate, OpenFails, WriteThrough,
       WriteFails, WriteBuffered, Flush, FlushFails, Rename, RenameFails, Cleanup, Crash,
       files
<1> QED
  BY <1>1, <1>2, <1>3 DEF NamedAreThere, TypeOK, Torn, Absent

LEMMA ReaderKeepsNamed ==
  ASSUME TypeOK, NamedAreThere, NEW r \in Readers, Read(r)
  PROVE  NamedAreThere' /\ \A s \in Readers : seen[s] # Absent => seen'[s] # Absent
<1>1. UNCHANGED files
  BY DEF Read, ReaderMisses, ReaderOpens, ReaderReads
<1>2. CASE ReaderMisses(r)
  BY <1>1, <1>2 DEF ReaderMisses, files, TypeOK, NamedAreThere
<1>3. CASE ReaderOpens(r)
  BY <1>1, <1>3 DEF ReaderOpens, files, TypeOK, NamedAreThere
<1>4. CASE ReaderReads(r)
  BY <1>1, <1>4 DEF ReaderReads, files, TypeOK, NamedAreThere
<1> QED
  BY <1>2, <1>3, <1>4 DEF Read

\* Whatever imports run at the same time on the one temporary name, fail, clean
\* up after others or die: who has found the descriptor finds one from then on.
THEOREM DescriptorStays == Spec => NeverSeenMissing
<1>1. Init => NamedAreThere
  BY ImportAssumption DEF Init, NamedAreThere, Inodes
<1>2. TypeOK /\ NamedAreThere /\ [Next]_vars =>
        /\ NamedAreThere'
        /\ [\A r \in Readers : seen[r] # Absent => seen'[r] # Absent]_vars
  <2> SUFFICES ASSUME TypeOK, NamedAreThere, [Next]_vars
               PROVE  /\ NamedAreThere'
                      /\ [\A r \in Readers : seen[r] # Absent => seen'[r] # Absent]_vars
    OBVIOUS
  <2>1. CASE UNCHANGED vars
    BY <2>1 DEF vars, NamedAreThere
  <2>2. CASE Next
    BY <2>2, InvocationKeepsNamed, ReaderKeepsNamed DEF Next
  <2> QED
    BY <2>1, <2>2
<1> QED
  BY <1>1, <1>2, TypeCorrect, PTL DEF Spec, NeverSeenMissing

-----------------------------------------------------------------------------
(* Any number of imports at a time.                                         *)

\* Invocation i is past its gate, or has ended: its arguments and what its
\* gate saw do not change any more.
Settled(i) == pc[i] \notin {"idle", "validate", "gate"}

Admitted(i) == Valid(args[i]) /\ GateAdmits(args[i], gated[i])

Accounted(c) ==
    \/ c \in {Absent, Torn, data[Original]}
    \/ \E i \in Invocations : Settled(i) /\ Admitted(i) /\ c = Composed(args[i])

\* Nobody writes to the operator's inode.
OriginalKept == tmp # Original /\ \A i \in Invocations : fd[i] # Original

\* Until the first rename, the path shows the operator's file.
StillOriginal == dst \notin Invocations => Visible = data[Original]

GatePassed == \A i \in Invocations :
    /\ pc[i] = "gate" => Valid(args[i])
    /\ pc[i] \in {"open", "write", "flush", "rename"} =>
          Admitted(i) /\ (dst \notin Invocations => gated[i] = data[Original])

FirstAdmitted ==
    dst \in Invocations =>
        \E i \in Invocations : Settled(i) /\ Admitted(i) /\ gated[i] = data[Original]

AllAccounted == /\ \A n \in Inodes : Accounted(data[n])
                /\ \A r \in Readers : Accounted(seen[r])

AInv == TypeOK /\ OriginalKept /\ StillOriginal /\ GatePassed /\ FirstAdmitted
               /\ AllAccounted

LEMMA AInvInit == Init => AInv
<1> SUFFICES ASSUME Init PROVE AInv
  OBVIOUS
<1>1. TypeOK
  BY TypeInit
<1>2. OriginalKept /\ StillOriginal /\ GatePassed /\ FirstAdmitted
  BY ImportAssumption DEF Init, OriginalKept, StillOriginal, Visible, GatePassed,
     FirstAdmitted, Inodes
<1>3. AllAccounted
  BY DEF Init, AllAccounted, Accounted
<1> QED
  BY <1>1, <1>2, <1>3 DEF AInv

\* What a settled invocation was asked and what it saw stays.
LEMMA SettledStays ==
  ASSUME TypeOK, NEW i \in Invocations, Invoke(i),
         NEW j \in Invocations, Settled(j)
  PROVE  Settled(j)' /\ args'[j] = args[j] /\ gated'[j] = gated[j]
<1>1. CASE j = i
  BY <1>1 DEF TypeOK, Settled, Invoke, Usage, Start, MayStart, Validate, Gate,
     OpenFails, OpenTmp, WriteThrough, WriteFails, WriteBuffered, Flush, FlushFails,
     Rename, RenameFails, Cleanup, Crash, Exit, Goto
<1>2. CASE j # i
  BY <1>2 DEF TypeOK, Settled, Invoke, Usage, Start, Validate, Gate,
     OpenFails, OpenTmp, WriteThrough, WriteFails, WriteBuffered, Flush, FlushFails,
     Rename, RenameFails, Cleanup, Crash, Exit, Goto
<1> QED
  BY <1>1, <1>2

\* A document that is accounted for stays so while the operator's inode does.
LEMMA AccountedStays ==
  ASSUME TypeOK, NEW i \in Invocations, Invoke(i), data'[Original] = data[Original],
         NEW c, Accounted(c)
  PROVE  Accounted(c)'
<1>1. CASE c \in {Absent, Torn, data[Original]}
  BY <1>1 DEF Accounted
<1>2. ASSUME NEW j \in Invocations, Settled(j), Admitted(j), c = Composed(args[j])
      PROVE  Accounted(c)'
  <2>1. Settled(j)' /\ args'[j] = args[j] /\ gated'[j] = gated[j]
    BY <1>2, SettledStays
  <2>2. Admitted(j)' /\ c = Composed(args'[j])
    BY <1>2, <2>1 DEF Admitted
  <2> QED
    BY <2>1, <2>2 DEF Accounted
<1> QED
  BY <1>1, <1>2 DEF Accounted

\* A step of an invocation touches no inode but its own, and puts there a part
\* of the document or the whole of it.
LEMMA WritesOwnDocument ==
  ASSUME AInv, NEW i \in Invocations, Invoke(i)
  PROVE  /\ OriginalKept'
         /\ data'[Original] = data[Original]
         /\ \A n \in Inodes : \/ data'[n] \in {data[n], Torn}
                              \/ /\ data'[n] = Composed(args[i])
                                 /\ Settled(i) /\ Admitted(i)
<1> USE ImportAssumption
<1>1. CASE OpenTmp(i)
  BY <1>1 DEF OpenTmp, AInv, TypeOK, OriginalKept, Inodes
<1>2. CASE WriteThrough(i) \/ WriteFails(i) \/ Flush(i) \/ FlushFails(i)
  BY <1>2 DEF WriteThrough, WriteFails, Flush, FlushFails, AInv, TypeOK, OriginalKept,
     Inodes, GatePassed, Settled
<1>3. CASE Rename(i) \/ Cleanup(i)
  BY <1>3 DEF Rename, Cleanup, AInv, TypeOK, OriginalKept, Inodes
<1>4. CASE ~OpenTmp(i) /\ UNCHANGED files
  BY <1>4 DEF files, AInv, TypeOK, OriginalKept, Inodes, Invoke, Usage, Start, Validate,
     Gate, OpenFails, WriteThrough, WriteFails, WriteBuffered, Flush, FlushFails, Rename,
     RenameFails, Cleanup, Crash
<1> QED
  BY <1>1, <1>2, <1>3, <1>4 DEF Invoke, Usage, Start, Validate, Gate, OpenFails,
     WriteBuffered, RenameFails, Crash

\* Only a rename binds the path anew, to an inode some invocation created.
LEMMA OnlyRenameRebinds ==
  ASSUME AInv, NEW i \in Invocations, Invoke(i)
  PROVE  dst' = dst \/ (dst' \in Invocations /\ Rename(i))
<1>1. CASE Rename(i)
  BY <1>1, ImportAssumption DEF Rename, AInv, TypeOK, OriginalKept, Inodes
<1> QED
  BY <1>1 DEF Invoke, Usage, Start, Validate, Gate, OpenFails, OpenTmp, WriteThrough,
     WriteFails, WriteBuffered, Flush, FlushFails, RenameFails, Cleanup, Crash, files

LEMMA AInvInvocation ==
  ASSUME AInv, NEW i \in Invocations, Invoke(i)
  PROVE  AInv'
<1> USE ImportAssumption
<1>1. TypeOK'
  BY InvocationKeepsTypes DEF AInv
<1>2. OriginalKept' /\ data'[Original] = data[Original]
  BY WritesOwnDocument
<1>3. dst' \notin Invocations => dst' = dst
  BY OnlyRenameRebinds
<1>4. StillOriginal'
  BY <1>1, <1>2, <1>3 DEF AInv, TypeOK, StillOriginal, Visible, Inodes
<1>5. dst \notin Invocations => Visible = data[Original]
  BY DEF AInv, StillOriginal
<1>6. GatePassed'
  <2> SUFFICES ASSUME NEW j \in Invocations
               PROVE  /\ pc'[j] = "gate" => Valid(args'[j])
                      /\ pc'[j] \in {"open", "write", "flush", "rename"} =>
                            /\ Valid(args'[j]) /\ GateAdmits(args'[j], gated'[j])
                            /\ dst' \notin Invocations => gated'[j] = data[Original]
    BY <1>2 DEF GatePassed, Admitted
  <2>1. CASE j = i /\ (Validate(i) \/ Gate(i))
    BY <2>1, <1>3, <1>5 DEF Validate, Gate, Exit, Goto, AInv, TypeOK, GatePassed
  <2>2. CASE j # i
    <3>1. pc'[j] = pc[j] /\ args'[j] = args[j] /\ gated'[j] = gated[j]
      BY <2>2 DEF AInv, TypeOK, Invoke, Usage, Start, Validate, Gate,
         OpenFails, OpenTmp, WriteThrough, WriteFails, WriteBuffered, Flush, FlushFails,
         Rename, RenameFails, Cleanup, Crash, Exit, Goto
    <3> QED
      BY <3>1, <1>3 DEF AInv, GatePassed, Admitted
  <2>3. CASE j = i /\ ~Validate(i) /\ ~Gate(i)
    <3>1. /\ pc'[i] # "gate"
          /\ pc'[i] \in {"open", "write", "flush", "rename"} =>
                /\ pc[i] \in {"open", "write", "flush", "rename"}
                /\ args'[i] = args[i] /\ gated'[i] = gated[i]
      BY <2>3 DEF AInv, TypeOK, Invoke, Usage, Start,
         OpenFails, OpenTmp, WriteThrough, WriteFails, WriteBuffered, Flush, FlushFails,
         Rename, RenameFails, Cleanup, Crash, Exit, Goto
    <3> QED
      BY <2>3, <3>1, <1>3 DEF AInv, GatePassed, Admitted
  <2> QED
    BY <2>1, <2>2, <2>3
<1>7. FirstAdmitted'
  <2> SUFFICES ASSUME dst' \in Invocations
               PROVE  \E j \in Invocations :
                         Settled(j)' /\ Admitted(j)' /\ gated'[j] = data[Original]
    BY <1>2 DEF FirstAdmitted
  <2>1. CASE dst \in Invocations
    <3>1. PICK j \in Invocations : Settled(j) /\ Admitted(j) /\ gated[j] = data[Original]
      BY <2>1 DEF AInv, FirstAdmitted
    <3> QED
      BY <3>1, SettledStays DEF AInv, Admitted
  <2>2. CASE dst \notin Invocations
    <3>1. Rename(i)
      BY <2>2, OnlyRenameRebinds
    <3>2. Settled(i) /\ Admitted(i) /\ gated[i] = data[Original]
      BY <2>2, <3>1 DEF Rename, AInv, GatePassed, Settled
    <3> QED
      BY <3>2, SettledStays DEF AInv, Admitted
  <2> QED
    BY <2>1, <2>2
<1>8. AllAccounted'
  <2>1. ASSUME NEW n \in Inodes, NEW c, c = data'[n] PROVE Accounted(c)'
    <3>1. CASE c = data[n]
      BY <3>1, <1>2, AccountedStays DEF AInv, AllAccounted
    <3>2. CASE c = Torn
      BY <3>2 DEF Accounted
    <3>3. CASE c = Composed(args[i]) /\ Settled(i) /\ Admitted(i)
      <4>1. Accounted(c)
        BY <3>3 DEF Accounted
      <4> QED
        BY <4>1, <1>2, AccountedStays DEF AInv
    <3> QED
      BY <2>1, <3>1, <3>2, <3>3, WritesOwnDocument
  <2>2. ASSUME NEW r \in Readers, NEW c, c = seen'[r] PROVE Accounted(c)'
    <3>1. seen' = seen
      BY DEF Invoke, Usage, Start, Validate, Gate, OpenFails, OpenTmp, WriteThrough,
         WriteFails, WriteBuffered, Flush, FlushFails, Rename, RenameFails, Cleanup,
         Crash, readers
    <3> QED
      BY <2>2, <3>1, <1>2, AccountedStays DEF AInv, AllAccounted
  <2> QED
    BY <2>1, <2>2 DEF AllAccounted, Accounted
<1> QED
  BY <1>1, <1>2, <1>4, <1>6, <1>7, <1>8 DEF AInv

LEMMA AInvReader ==
  ASSUME AInv, NEW r \in Readers, Read(r)
  PROVE  AInv'
<1>1. TypeOK'
  BY ReaderKeepsTypes DEF AInv
<1>2. UNCHANGED <<pc, args, gated, fd, dst, tmp, data>>
  BY DEF Read, ReaderMisses, ReaderOpens, ReaderReads, procs, files
<1>3. (OriginalKept /\ StillOriginal /\ GatePassed /\ FirstAdmitted)'
  BY <1>2 DEF AInv, OriginalKept, StillOriginal, Visible, GatePassed, FirstAdmitted,
     Admitted, Settled
<1>4. ASSUME NEW c, Accounted(c) PROVE Accounted(c)'
  BY <1>2, <1>4 DEF Accounted, Settled, Admitted
<1>5. \A s \in Readers : \/ seen'[s] \in {seen[s], Absent}
                         \/ \E n \in Inodes : seen'[s] = data[n]
  BY DEF AInv, TypeOK, Read, ReaderMisses, ReaderOpens, ReaderReads
<1>6. ASSUME NEW s \in Readers, NEW c, c = seen'[s] PROVE Accounted(c)'
  <2>1. \/ c = seen[s] \/ c = Absent \/ \E n \in Inodes : c = data[n]
    BY <1>5, <1>6
  <2>2. Accounted(c)
    BY <2>1 DEF AInv, AllAccounted, Accounted
  <2> QED
    BY <2>2, <1>4
<1>7. AllAccounted'
  <2>1. ASSUME NEW n \in Inodes, NEW c, c = data'[n] PROVE Accounted(c)'
    BY <2>1, <1>2, <1>4 DEF AInv, AllAccounted
  <2> QED
    BY <1>6, <2>1 DEF AllAccounted, Accounted
<1> QED
  BY <1>1, <1>3, <1>7 DEF AInv

LEMMA AInvAlways == Spec => []AInv
<1>1. AInv /\ [Next]_vars => AInv'
  <2> SUFFICES ASSUME AInv, [Next]_vars PROVE AInv'
    OBVIOUS
  <2>1. CASE UNCHANGED vars
    BY <2>1 DEF vars, AInv, TypeOK, OriginalKept, StillOriginal, Visible, GatePassed,
       FirstAdmitted, AllAccounted, Accounted, Admitted, Settled
  <2>2. CASE Next
    BY <2>2, AInvInvocation, AInvReader DEF Next
  <2> QED
    BY <2>1, <2>2
<1> QED
  BY <1>1, AInvInit, PTL DEF Spec

\* Any number of imports at once, with all their failures and crashes: the
\* operator's file goes only past a gate that looked at that very file.
THEOREM OriginalIsGuarded == Spec => []ReplacedOnlyIfAdmitted
<1>1. AInv => ReplacedOnlyIfAdmitted
  BY DEF AInv, FirstAdmitted, Admitted, ReplacedOnlyIfAdmitted
<1> QED
  BY <1>1, AInvAlways, PTL

\* Any number of imports at once: what a reader gets is the operator's
\* document, the whole document of an admitted import, or torn.
THEOREM DocumentsAccountedFor == Spec => []SeenAccountedFor
<1>1. AInv => SeenAccountedFor
  BY DEF AInv, AllAccounted, Accounted, Admitted, Settled, SeenAccountedFor
<1> QED
  BY <1>1, AInvAlways, PTL
-----------------------------------------------------------------------------
(* The daemon that reads the descriptor.                                    *)

\* What import-hsm composes, run's loader takes.
LEMMA ComposedLoads ==
  ASSUME NEW a \in Args, Valid(a)
  PROVE  LoadsProvider(Composed(a)) /\ ~LoadAborts(Composed(a))
BY DEF Valid, Composed, LoadsProvider, LoadAborts, Incomplete

\* One import at a time and no lost flush: at no moment, whatever fails or
\* dies, does run find an import's descriptor that it gives up on.
THEOREM NoImportStopsTheDaemon == ASSUME OneAtATime PROVE Spec => []ImportsBoot
<1>1. TypeOK /\ SeenAccountedFor /\ ReadersSeeWhole => ImportsBoot
  BY ComposedLoads DEF TypeOK, SeenAccountedFor, ReadersSeeWhole, ImportsBoot
<1> QED
  BY <1>1, TypeCorrect, DocumentsAccountedFor, WholeWhenSerial, PTL
=============================================================================
