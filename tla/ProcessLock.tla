----------------------------- MODULE ProcessLock -----------------------------
(***************************************************************************)
(* Ownership of a Node's state directory and of a provider generation      *)
(* (process-lock.ts, process-lock-state.ts): a kernel lock on one permanent *)
(* file that the first start publishes.  Several processes may start, die  *)
(* and start again at any time.                                            *)
(*                                                                         *)
(* A file is an inode; the process that wrote it names it.  A process      *)
(* writes a temporary file, links it to the lock's path and unlinks the    *)
(* temporary name, so for a moment the lock has two links; one that dies   *)
(* there leaves them.  Every file system call is a step.  Modes, owners,    *)
(* symbolic links and legacy files, which only make a start fail, are left  *)
(* out: the directory is private to the user.                              *)
(***************************************************************************)
EXTENDS Integers, FiniteSets

CONSTANTS Procs, MaxCrashes

ASSUME LockAssumption == /\ IsFiniteSet(Procs) /\ MaxCrashes \in Nat
                         /\ MaxCrashes < Cardinality(Procs)

None == "none"

ASSUME NoneIsNoProcess == None \notin Procs

VARIABLES pc,
          path,    \* the inode at the lock's path
          temps,   \* inodes that still have their temporary name
          fd,      \* the inode each process has open
          locked,  \* the processes that hold the kernel lock of their inode
          meta,    \* the owner's diagnostics file
          crashes

lockVars == <<pc, path, temps, fd, locked, meta, crashes>>

\* Links of the file at the lock's path.
Nlink(i) == (IF path = i THEN 1 ELSE 0) + (IF i \in temps THEN 1 ELSE 0)

\* assertStableProcessLock: the path still names the open file, and only it.
Stable(p) == path = fd[p] /\ Nlink(fd[p]) = 1

LockGo(p, l) == pc' = [pc EXCEPT ![p] = l]

\* An error closes the descriptor, and the kernel drops its lock.
Refuse(p) == /\ LockGo(p, "refused")
             /\ fd' = [fd EXCEPT ![p] = None]
             /\ locked' = locked \ {p}

LockInit == /\ pc = [p \in Procs |-> "idle"]
        /\ path = None /\ temps = {}
        /\ fd = [p \in Procs |-> None]
        /\ locked = {} /\ meta = None /\ crashes = 0

Start(p) ==
    /\ pc[p] \in {"idle", "refused"}
    /\ LockGo(p, "open")
    /\ UNCHANGED <<path, temps, fd, locked, meta, crashes>>

-----------------------------------------------------------------------------
(* openStableProcessLock *)

\* openLockFile: absent, whole, or still with the publisher's second link.
OpenLockFile(p) ==
    /\ pc[p] = "open"
    /\ IF path = None
       THEN LockGo(p, "create") /\ UNCHANGED fd
       ELSE /\ fd' = [fd EXCEPT ![p] = path]
            /\ LockGo(p, IF Nlink(path) = 1 THEN "try" ELSE "scan")
    /\ UNCHANGED <<path, temps, locked, meta, crashes>>

\* publishKernelLockFile: the file is complete before it is linked.  A
\* process that starts again writes a file of another name and inode; what
\* an earlier one left unlinked is never looked at again.
Create(p) ==
    /\ pc[p] = "create"
    /\ temps' = temps \cup {p}
    /\ LockGo(p, "link")
    /\ UNCHANGED <<path, fd, locked, meta, crashes>>

\* Mutant: the file is moved over the path.
Link_Rename(p) ==
    /\ pc[p] = "link"
    /\ path' = p
    /\ LockGo(p, "unlink")
    /\ UNCHANGED <<temps, fd, locked, meta, crashes>>

\* link fails if the path exists: another start has published.
Link(p) ==
    /\ pc[p] = "link"
    /\ path' = IF path = None THEN p ELSE path
    /\ LockGo(p, "unlink")
    /\ UNCHANGED <<temps, fd, locked, meta, crashes>>

Unlink(p) ==
    /\ pc[p] = "unlink"
    /\ temps' = temps \ {p}
    /\ LockGo(p, "open")
    /\ UNCHANGED <<path, fd, locked, meta, crashes>>

\* Mutant: the second link of a publisher that died is left in place.
Scan_Leaves(p) ==
    /\ pc[p] = "scan"
    /\ LockGo(p, "stable")
    /\ UNCHANGED <<path, temps, fd, locked, meta, crashes>>

\* removePublishedTemporaryLinks: readdir and lstat find the second link.
Scan(p) ==
    /\ pc[p] = "scan"
    /\ LockGo(p, IF fd[p] \in temps THEN "confirm" ELSE "stable")
    /\ UNCHANGED <<path, temps, fd, locked, meta, crashes>>

\* The link is looked at again and the start refused if the publisher has
\* unlinked it meanwhile.
ConfirmInode(p) ==
    /\ pc[p] = "confirm"
    /\ \/ fd[p] \in temps /\ LockGo(p, "remove") /\ UNCHANGED <<fd, locked>>
       \/ fd[p] \notin temps /\ Refuse(p)
    /\ UNCHANGED <<path, temps, meta, crashes>>

Remove(p) ==
    /\ pc[p] = "remove"
    /\ temps' = temps \ {fd[p]}
    /\ LockGo(p, "stable")
    /\ UNCHANGED <<path, fd, locked, meta, crashes>>

CheckOpen(p) ==
    /\ pc[p] = "stable"
    /\ \/ Stable(p) /\ LockGo(p, "try") /\ UNCHANGED <<fd, locked>>
       \/ ~Stable(p) /\ Refuse(p)
    /\ UNCHANGED <<path, temps, meta, crashes>>

-----------------------------------------------------------------------------
(* acquireProcessLock *)

Rival(p) == \E q \in locked \ {p} : fd[q] = fd[p]

\* tryLock: refused if another process holds the lock of the same file.
TryLock(p) ==
    /\ pc[p] = "try"
    /\ \/ Rival(p) /\ Refuse(p)
       \/ /\ ~Rival(p) /\ locked' = locked \cup {p} /\ LockGo(p, "check")
          /\ UNCHANGED fd
    /\ UNCHANGED <<path, temps, meta, crashes>>

CheckLocked(p) ==
    /\ pc[p] \in {"check", "recheck"}
    /\ \/ /\ Stable(p) /\ LockGo(p, IF pc[p] = "check" THEN "name" ELSE "held")
          /\ UNCHANGED <<fd, locked>>
       \/ ~Stable(p) /\ Refuse(p)
    /\ UNCHANGED <<path, temps, meta, crashes>>

\* writeOwnerMetadata
WriteOwner(p) ==
    /\ pc[p] = "name"
    /\ meta' = p
    /\ LockGo(p, "recheck")
    /\ UNCHANGED <<path, temps, fd, locked, crashes>>

\* release: unlock, close; file and diagnostics stay.
LockRelease(p) ==
    /\ pc[p] = "held"
    /\ LockGo(p, "idle")
    /\ fd' = [fd EXCEPT ![p] = None]
    /\ locked' = locked \ {p}
    /\ UNCHANGED <<path, temps, meta, crashes>>

\* A process dies; it may be started again unless the lock file or a file
\* at a temporary name is the inode that stands for it.
LockCrash(p) ==
    /\ pc[p] \notin {"idle", "refused", "dead"} /\ crashes < MaxCrashes
    /\ crashes' = crashes + 1
    /\ LockGo(p, IF p \in temps THEN "dead" ELSE "idle")
    /\ fd' = [fd EXCEPT ![p] = None]
    /\ locked' = locked \ {p}
    /\ UNCHANGED <<path, temps, meta>>

Acquire(p) == \/ OpenLockFile(p) \/ Create(p) \/ Link(p) \/ Unlink(p)
              \/ Scan(p) \/ ConfirmInode(p) \/ Remove(p) \/ CheckOpen(p)
              \/ TryLock(p) \/ CheckLocked(p) \/ WriteOwner(p)

LockNext == \E p \in Procs : Start(p) \/ Acquire(p) \/ LockRelease(p) \/ LockCrash(p)

LockSpec == LockInit /\ [][LockNext]_lockVars

\* A start is repeated by whoever supervises the process, a process that
\* lives goes on, a holder ends some time.
FairLock == LockSpec /\ \A p \in Procs : WF_lockVars(Start(p)) /\ WF_lockVars(Acquire(p)) /\ WF_lockVars(LockRelease(p))

-----------------------------------------------------------------------------
(* Properties *)

\* Types of the file system and of the processes.
LockTypeOK ==
    /\ pc \in [Procs -> {"idle", "open", "create", "link", "unlink", "scan", "confirm", "remove",
                         "stable", "try", "check", "name", "recheck", "held", "refused", "dead"}]
    /\ path \in Procs \cup {None} /\ temps \subseteq Procs
    /\ fd \in [Procs -> Procs \cup {None}]
    /\ locked \subseteq Procs /\ meta \in Procs \cup {None} /\ crashes \in 0 .. MaxCrashes

\* At most one process is past tryLock, however starts and deaths
\* interleave with the publication of the file.
MutualExclusion == Cardinality(locked) <= 1

Service == INSTANCE StateOwnership WITH file <- path, holders <- locked, name <- meta

\* The lock keeps its promise (acquireProcessLock, publishKernelLockFile):
\* however starts and deaths interleave, the file is published once, a
\* process passes tryLock only when nobody is past it, and only such a
\* process signs the diagnostics.
OwnershipKept == Service!Spec

\* While a process owns the state, the diagnostics name it.
OwnerNamed == \A p \in Procs : pc[p] = "held" => meta = p

\* No death, also between link and unlink, keeps later starts out: there is
\* always again an owner, while a process is left to start.
LockAvailable == []<>(\E p \in Procs : pc[p] = "held")
=============================================================================
