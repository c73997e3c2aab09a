------------------------------ MODULE ImportHsm ------------------------------
(***************************************************************************)
(* `goodnetd identity import-hsm`: invocations of the command that share    *)
(* one descriptor path, and the programs that read that path meanwhile      *)
(* (`goodnetd run`, `goodnetd doctor`).                                     *)
(*                                                                         *)
(* The file system is two names in one directory, identity-config.json      *)
(* (dst) and identity-config.json.tmp (tmp), each bound to an inode or to   *)
(* NoInode, and the content of every inode.  An inode is named after the    *)
(* invocation whose open created it; Original was there before.  A read,    *)
(* a write of a document and a rename are each atomic; opening with         *)
(* truncation, writing, flushing and renaming are steps of their own, and   *)
(* the process can die between any two of them.                             *)
(***************************************************************************)
EXTENDS Integers, Descriptor

CONSTANTS Invocations,      \* executions of the command
          Readers,          \* executions of run or doctor
          Original,         \* the inode at dst at the start, if any
          NoInode,
          InitialContents,  \* contents the operator may have at dst
          Requests,         \* arguments the command is called with
          Serial,           \* TRUE: one invocation at a time
          FlushMayFail      \* TRUE: the flush in ~ofstream may hit ENOSPC or EIO

ASSUME ImportAssumption ==
    /\ InitialContents \subseteq Content \ {Torn}
    /\ Requests \subseteq Args
    /\ Original \notin Invocations
    /\ NoInode \notin Invocations \cup {Original}
    /\ Serial \in BOOLEAN
    /\ FlushMayFail \in BOOLEAN

Inodes == Invocations \cup {Original}

VARIABLES pc,     \* pc[i]: the next step of invocation i
          args,   \* args[i]: its parsed arguments
          gated,  \* gated[i]: the content its clobber gate looked at
          fd,     \* fd[i]: the inode its ofstream is open on
          rc,     \* rc[i]: its exit code, -1 before it has one
          dst, tmp, data,
          rfd,    \* rfd[r]: the inode reader r has open
          seen    \* seen[r]: what reader r read last

procs   == <<pc, args, gated, fd, rc>>
files   == <<dst, tmp, data>>
readers == <<rfd, seen>>
vars    == <<pc, args, gated, fd, rc, dst, tmp, data, rfd, seen>>

Steps == {"idle", "validate", "gate", "open", "write", "flush", "rename",
          "cleanup", "exited", "crashed"}

NoArgs == [extension_id |-> None, key_label |-> None, pin_env |-> None,
           module_path |-> None, force |-> FALSE]

\* What whoever opens the descriptor path now would read.
Visible == IF dst = NoInode THEN Absent ELSE data[dst]

Live(i) == pc[i] \notin {"idle", "exited", "crashed"}

-----------------------------------------------------------------------------
Init ==
    /\ pc = [i \in Invocations |-> "idle"]
    /\ args = [i \in Invocations |-> NoArgs]
    /\ gated = [i \in Invocations |-> Absent]
    /\ fd = [i \in Invocations |-> NoInode]
    /\ rc = [i \in Invocations |-> -1]
    /\ \E c \in InitialContents :
          /\ dst = IF c = Absent THEN NoInode ELSE Original
          /\ data = [n \in Inodes |-> IF n = Original THEN c ELSE Absent]
    /\ tmp = NoInode
    /\ rfd = [r \in Readers |-> NoInode]
    /\ seen = [r \in Readers |-> Absent]

-----------------------------------------------------------------------------
(* The command.                                                             *)

Exit(i, code) ==
    /\ pc' = [pc EXCEPT ![i] = "exited"]
    /\ rc' = [rc EXCEPT ![i] = code]

Goto(i, step) == pc' = [pc EXCEPT ![i] = step] /\ UNCHANGED rc

MayStart(i) == pc[i] = "idle" /\ (Serial => \A j \in Invocations : ~Live(j))

\* --help, an unknown flag, or a flag without its value: out before anything.
Usage(i) ==
    /\ MayStart(i)
    /\ \E code \in {0, 2} : Exit(i, code)
    /\ UNCHANGED <<args, gated, fd, files, readers>>

Start(i) ==
    /\ MayStart(i)
    /\ \E a \in Requests : args' = [args EXCEPT ![i] = a]
    /\ Goto(i, "validate")
    /\ UNCHANGED <<gated, fd, files, readers>>

Validate(i) ==
    /\ pc[i] = "validate"
    /\ IF Valid(args[i]) THEN Goto(i, "gate") ELSE Exit(i, 2)
    /\ UNCHANGED <<args, gated, fd, files, readers>>

\* Mutant of Gate: the refusal is printed but does not return.
GateAdvises(i) ==
    /\ pc[i] = "gate"
    /\ gated' = [gated EXCEPT ![i] = Visible]
    /\ Goto(i, "open")
    /\ UNCHANGED <<args, fd, files, readers>>

\* exists, open, parse and compare; the file is small and read by one read(2).
Gate(i) ==
    /\ pc[i] = "gate"
    /\ gated' = [gated EXCEPT ![i] = Visible]
    /\ IF GateAdmits(args[i], Visible) THEN Goto(i, "open") ELSE Exit(i, 1)
    /\ UNCHANGED <<args, fd, files, readers>>

\* create_directories and ofstream(tmp, trunc): either can fail.  The name
\* tmp is the same for every invocation: an existing file is truncated.
OpenFails(i) ==
    /\ pc[i] = "open"
    /\ Exit(i, 1)
    /\ UNCHANGED <<args, gated, fd, files, readers>>

OpenTmp(i) ==
    /\ pc[i] = "open"
    /\ LET n == IF tmp = NoInode THEN i ELSE tmp
       IN /\ tmp' = n
          /\ fd' = [fd EXCEPT ![i] = n]
          /\ data' = [data EXCEPT ![n] = Torn]
    /\ Goto(i, "write")
    /\ UNCHANGED <<args, gated, dst, readers>>

\* f << content.  A document of 1024 bytes or more goes straight to the file
\* and a failure shows in good(); a shorter one stays in the stream's buffer.
WriteThrough(i) ==
    /\ pc[i] = "write"
    /\ data' = [data EXCEPT ![fd[i]] = Composed(args[i])]
    /\ Goto(i, "rename")
    /\ UNCHANGED <<args, gated, fd, dst, tmp, readers>>

WriteFails(i) ==
    /\ pc[i] = "write"
    /\ data' = [data EXCEPT ![fd[i]] = Torn]
    /\ Exit(i, 1)
    /\ UNCHANGED <<args, gated, fd, dst, tmp, readers>>

WriteBuffered(i) ==
    /\ pc[i] = "write"
    /\ Goto(i, "flush")
    /\ UNCHANGED <<args, gated, fd, files, readers>>

\* Mutant of Flush: the stream is still open when the rename runs.
FlushForgotten(i) ==
    /\ pc[i] = "flush"
    /\ Goto(i, "rename")
    /\ UNCHANGED <<args, gated, fd, files, readers>>

\* The destructor of the ofstream flushes and closes; nobody sees it fail.
Flush(i) ==
    /\ pc[i] = "flush"
    /\ data' = [data EXCEPT ![fd[i]] = Composed(args[i])]
    /\ Goto(i, "rename")
    /\ UNCHANGED <<args, gated, fd, dst, tmp, readers>>

FlushFails(i) ==
    /\ FlushMayFail
    /\ pc[i] = "flush"
    /\ data' = [data EXCEPT ![fd[i]] = Torn]
    /\ Goto(i, "rename")
    /\ UNCHANGED <<args, gated, fd, dst, tmp, readers>>

\* Mutant of Rename: the old file is removed and the new one moved later.
RenameUnlinks(i) ==
    /\ pc[i] = "rename"
    /\ IF dst # NoInode
       THEN dst' = NoInode /\ UNCHANGED <<tmp, pc, rc>>
       ELSE tmp # NoInode /\ dst' = tmp /\ tmp' = NoInode /\ Exit(i, 0)
    /\ UNCHANGED <<args, gated, fd, data, readers>>

\* Mutant of Rename: a failed rename is not reported.
RenameUnchecked(i) ==
    /\ pc[i] = "rename"
    /\ \/ dst' = tmp /\ tmp # NoInode /\ tmp' = NoInode
       \/ UNCHANGED <<dst, tmp>>
    /\ Exit(i, 0)
    /\ UNCHANGED <<args, gated, fd, data, readers>>

\* rename(tmp, dst), then the "[ok] identity backend set" line and exit 0.
Rename(i) ==
    /\ pc[i] = "rename"
    /\ tmp # NoInode
    /\ dst' = tmp
    /\ tmp' = NoInode
    /\ Exit(i, 0)
    /\ UNCHANGED <<args, gated, fd, data, readers>>

\* No tmp any more (ENOENT), or dst is a directory, or the like.
RenameFails(i) ==
    /\ pc[i] = "rename"
    /\ Goto(i, "cleanup")
    /\ UNCHANGED <<args, gated, fd, files, readers>>

\* Mutant of Cleanup: the error number of the rename is returned.
CleanupReturnsErrno(i) ==
    /\ pc[i] = "cleanup"
    /\ tmp' = NoInode
    /\ Exit(i, 13)
    /\ UNCHANGED <<args, gated, fd, dst, data, readers>>

\* remove(tmp), its error ignored.
Cleanup(i) ==
    /\ pc[i] = "cleanup"
    /\ tmp' \in {tmp, NoInode}
    /\ Exit(i, 1)
    /\ UNCHANGED <<args, gated, fd, dst, data, readers>>

Crash(i) ==
    /\ Live(i)
    /\ Goto(i, "crashed")
    /\ UNCHANGED <<args, gated, fd, files, readers>>

-----------------------------------------------------------------------------
(* The readers: exists and open, then one read of the open file.            *)

ReaderMisses(r) ==
    /\ rfd[r] = NoInode
    /\ dst = NoInode
    /\ seen' = [seen EXCEPT ![r] = Absent]
    /\ UNCHANGED <<procs, files, rfd>>

ReaderOpens(r) ==
    /\ rfd[r] = NoInode
    /\ dst # NoInode
    /\ rfd' = [rfd EXCEPT ![r] = dst]
    /\ UNCHANGED <<procs, files, seen>>

ReaderReads(r) ==
    /\ rfd[r] # NoInode
    /\ seen' = [seen EXCEPT ![r] = data[rfd[r]]]
    /\ rfd' = [rfd EXCEPT ![r] = NoInode]
    /\ UNCHANGED <<procs, files>>

-----------------------------------------------------------------------------
Invoke(i) ==
    \/ Usage(i) \/ Start(i) \/ Validate(i) \/ Gate(i)
    \/ OpenFails(i) \/ OpenTmp(i)
    \/ WriteThrough(i) \/ WriteFails(i) \/ WriteBuffered(i)
    \/ Flush(i) \/ FlushFails(i)
    \/ Rename(i) \/ RenameFails(i) \/ Cleanup(i)
    \/ Crash(i)

Read(r) == ReaderMisses(r) \/ ReaderOpens(r) \/ ReaderReads(r)

Next == (\E i \in Invocations : Invoke(i)) \/ (\E r \in Readers : Read(r))

Spec == Init /\ [][Next]_vars

-----------------------------------------------------------------------------
(* Properties.                                                              *)

\* The variables keep their types.
TypeOK ==
    /\ pc \in [Invocations -> Steps]
    /\ args \in [Invocations -> Args]
    /\ gated \in [Invocations -> Content]
    /\ fd \in [Invocations -> Inodes \cup {NoInode}]
    /\ rc \in [Invocations -> {-1, 0, 1, 2}]
    /\ dst \in Inodes \cup {NoInode}
    /\ tmp \in Inodes \cup {NoInode}
    /\ data \in [Inodes -> Content]
    /\ rfd \in [Readers -> Inodes \cup {NoInode}]
    /\ seen \in [Readers -> Content]

\* "Readers either see the previous file or the new file, never a half-written
\* one" (write_atomic): no read of the descriptor path returns a torn file.
ReadersSeeWhole == \A r \in Readers : seen[r] # Torn

\* The single temporary name never costs a reader the descriptor: once the
\* path has been read, later reads find a file there (rename replaces, it does
\* not unlink), whatever invocations run at the same time, fail or die.
NeverSeenMissing ==
    [][\A r \in Readers : seen[r] # Absent => seen'[r] # Absent]_vars

Exits(i) == pc[i] # "exited" /\ pc'[i] = "exited"

\* The exit code and the "[ok] identity backend set" line tell the truth: an
\* import that exits 0 leaves exactly the document of its own arguments at the
\* path, one that exits with an error past its gate leaves what the gate saw.
ExitTellsTheTruth ==
    [][\A i \in Invocations :
          Exits(i) /\ args[i] # NoArgs =>
             \/ rc'[i] = 0 /\ Visible' = Composed(args[i])
             \/ rc'[i] = 1 /\ Visible' = gated'[i]
             \/ rc'[i] = 2 /\ Visible' = Visible]_vars

\* However invocations interleave, fail and die, the operator's own file is
\* replaced only after the gate of some invocation looked at that very file
\* and let it through.
ReplacedOnlyIfAdmitted ==
    dst \in Invocations =>
        \E i \in Invocations : /\ Valid(args[i])
                               /\ GateAdmits(args[i], gated[i])
                               /\ gated[i] = data[Original]

\* Every document that a reader gets is the operator's, or the whole document
\* of an invocation that got past validation and past the gate; with several
\* invocations on one temporary file it may also be torn (see
\* ReadersSeeWhole), but it is never a mixture attributed to nobody.
SeenAccountedFor ==
    \A r \in Readers :
        \/ seen[r] \in {Absent, Torn, data[Original]}
        \/ \E i \in Invocations : /\ Valid(args[i])
                                  /\ pc[i] \notin {"validate", "gate"}
                                  /\ GateAdmits(args[i], gated[i])
                                  /\ seen[r] = Composed(args[i])

\* "A silent overwrite is exactly the operator-surprise we are supposed to
\* prevent" (the comment on the clobber gate): as long as nobody passes
\* --force, the key of every import that exited 0 is the declared one, so that
\* re-running that command is accepted, whatever later imports asked for.
DeclaredKeyStays ==
    (\A j \in Invocations : ~args[j].force) =>
        \A i \in Invocations : rc[i] = 0 /\ args[i] # NoArgs =>
            Visible.kind = "object" /\ SameDeclaration(args[i], Visible)

\* A descriptor that import-hsm wrote never keeps the daemon from coming up:
\* what is read at the path at any moment, between the steps of an import or
\* after it died, is the operator's own file, or load_identity_descriptor takes
\* it and run is provider-backed.
ImportsBoot ==
    \A r \in Readers :
        seen[r] \notin {Absent, data[Original]} =>
            LoadsProvider(seen[r]) /\ ~LoadAborts(seen[r])

\* One import at a time, whatever crashes in between, is one guarded install
\* on the cell.
Cell == INSTANCE DescriptorCell WITH cell <- Visible
ImplementsCell == Cell!Spec
=============================================================================
