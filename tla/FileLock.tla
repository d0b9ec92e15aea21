------------------------------ MODULE FileLock ------------------------------
(***************************************************************************)
(* The file locks of libutils/file_lib.c: processes that use a FileLock    *)
(* each, over the record locks of fcntl.  Such a lock belongs to the       *)
(* process and the file, not to the descriptor: it is replaced by a later  *)
(* request of the process and released by its closing any descriptor of    *)
(* the file.                                                               *)
(*                                                                         *)
(* A process uses its descriptor of a lock file for nothing else.  A lock  *)
(* file is not deleted.  EINTR only repeats the wait.                      *)
(***************************************************************************)
EXTENDS Integers, FiniteSets, Relation

CONSTANTS Procs, LockFiles, NoFile,
          MAX_FDS   \* bound: descriptors of a process on two of the files

ASSUME FileLockAssumption == MAX_FDS \in Nat \ {0} /\ NoFile \notin LockFiles

VARIABLES lock,     \* fd of the FileLock of a process, as the file it is open on
          mode,     \* what the process knows it holds: "none", "shared", "exclusive"
          kernel,   \* the record locks: "none", "shared", "exclusive"
          nfds,     \* descriptors of a process on a file
          writable, \* is the descriptor of the FileLock open for writing?
          waiting   \* the request a process is blocked in, or NoFile

lockVars == <<lock, mode, kernel, nfds, writable, waiting>>

LockInit ==
  /\ lock = [p \in Procs |-> NoFile]
  /\ mode = [p \in Procs |-> "none"]
  /\ kernel = [p \in Procs |-> [f \in LockFiles |-> "none"]]
  /\ nfds = [p \in Procs |-> [f \in LockFiles |-> 0]]
  /\ writable = [p \in Procs |-> FALSE]
  /\ waiting = [p \in Procs |-> NoFile]

Kinds == {"shared", "exclusive"}
Idle(p) == waiting[p] = NoFile

\* The processes whose locks conflict with a request of p.
Conflicts(p, f, kind) ==
  {q \in Procs \ {p} : kernel[q][f] = "exclusive" \/ (kernel[q][f] = "shared" /\ kind = "exclusive")}

\* fcntl refuses to wait (EDEADLK) if p is waited for, directly or not, by a
\* process that p would wait for.
WaitsFor(q, r) ==
  waiting[q] # NoFile /\ r \in Conflicts(q, waiting[q].file, waiting[q].kind)

WouldDeadlock(p, f, kind) ==
  LET closure == TransitiveClosure([q, r \in Procs |-> WaitsFor(q, r)], Procs)
  IN  \E q \in Conflicts(p, f, kind) : closure[q, p]

SetLock(p, f, kind) ==
  /\ kernel' = [kernel EXCEPT ![p][f] = kind]
  /\ mode' = [mode EXCEPT ![p] = kind]

(***************************************************************************)
(* LockFD.  path: the lock is one of the LockPath functions, which forget  *)
(* the descriptor when the lock is refused.                                *)
(***************************************************************************)
LockFD(p, f, kind, wait, path) ==
  LET free == Conflicts(p, f, kind) = {}
      dead == WouldDeadlock(p, f, kind)
  IN
  \/ /\ free
     /\ SetLock(p, f, kind)
     /\ lock' = [lock EXCEPT ![p] = f]
     /\ UNCHANGED waiting
  \/ /\ ~free /\ wait /\ ~dead
     /\ waiting' = [waiting EXCEPT ![p] = [file |-> f, kind |-> kind]]
     /\ lock' = [lock EXCEPT ![p] = f]
     /\ UNCHANGED <<kernel, mode>>
  \/ /\ ~free /\ (~wait \/ dead)
     /\ lock' = [lock EXCEPT ![p] = IF path THEN NoFile ELSE f]
     /\ UNCHANGED <<kernel, mode, waiting>>

\* ExclusiveFileLock and SharedFileLock.  fcntl refuses an exclusive lock on a
\* descriptor that is only open for reading (EBADF), which changes nothing.
LockOpenFile(p, kind, wait) ==
  /\ Idle(p) /\ lock[p] # NoFile
  /\ kind = "exclusive" => writable[p]
  /\ LockFD(p, lock[p], kind, wait, FALSE)
  /\ UNCHANGED <<nfds, writable>>

\* Bound.
MayOpen(p, f) == \A g \in LockFiles : nfds[p][f] + (IF g = f THEN 0 ELSE nfds[p][g]) < MAX_FDS

\* ExclusiveFileLockPath, with O_RDWR, and SharedFileLockPath, with O_RDONLY; when
\* safe_open fails nothing happens.
LockPath(p, f, kind, wait) ==
  /\ Idle(p) /\ lock[p] = NoFile /\ MayOpen(p, f)
  /\ nfds' = [nfds EXCEPT ![p][f] = @ + 1]
  /\ LockFD(p, f, kind, wait, TRUE)
  /\ writable' = [writable EXCEPT ![p] = kind = "exclusive" /\ lock'[p] # NoFile]

\* The wait of F_SETLKW ends.
Granted(p) ==
  /\ ~Idle(p) /\ Conflicts(p, waiting[p].file, waiting[p].kind) = {}
  /\ SetLock(p, waiting[p].file, waiting[p].kind)
  /\ waiting' = [waiting EXCEPT ![p] = NoFile]
  /\ UNCHANGED <<lock, nfds, writable>>

\* Mutant: the descriptor is forgotten before it is closed.
FileUnlockForgets(p, close_fd) ==
  /\ Idle(p) /\ lock[p] # NoFile
  /\ mode' = [mode EXCEPT ![p] = "none"]
  /\ IF close_fd
       THEN lock' = [lock EXCEPT ![p] = NoFile] /\ UNCHANGED <<nfds, kernel>>
       ELSE kernel' = [kernel EXCEPT ![p][lock[p]] = "none"] /\ UNCHANGED <<nfds, lock>>
  /\ UNCHANGED <<writable, waiting>>

\* ExclusiveFileUnlock and SharedFileUnlock; closing also releases the lock.
FileUnlock(p, close_fd) ==
  /\ Idle(p) /\ lock[p] # NoFile
  /\ kernel' = [kernel EXCEPT ![p][lock[p]] = "none"]
  /\ mode' = [mode EXCEPT ![p] = "none"]
  /\ IF close_fd
       THEN /\ nfds' = [nfds EXCEPT ![p][lock[p]] = @ - 1]
            /\ lock' = [lock EXCEPT ![p] = NoFile]
       ELSE UNCHANGED <<nfds, lock>>
  /\ writable' = [writable EXCEPT ![p] = @ /\ ~close_fd]
  /\ UNCHANGED waiting

\* ExclusiveFileLockCheck
ExclusiveFileLockCheck(p) == Conflicts(p, lock[p], "exclusive") = {}

LockNext ==
  \E p \in Procs :
    \/ Granted(p)
    \/ \E close_fd \in BOOLEAN : FileUnlock(p, close_fd)
    \/ \E kind \in Kinds, wait \in BOOLEAN :
         \/ LockOpenFile(p, kind, wait)
         \/ \E f \in LockFiles : LockPath(p, f, kind, wait)

LockSpec == LockInit /\ [][LockNext]_lockVars

-----------------------------------------------------------------------------
(***************************************************************************)
(* Properties.                                                             *)
(***************************************************************************)
LockTypeOK ==
  /\ lock \in [Procs -> LockFiles \cup {NoFile}]
  /\ mode \in [Procs -> Kinds \cup {"none"}]
  /\ kernel \in [Procs -> [LockFiles -> Kinds \cup {"none"}]]
  /\ nfds \in [Procs -> [LockFiles -> 0..MAX_FDS]]
  /\ writable \in [Procs -> BOOLEAN]
  /\ waiting \in [Procs -> [file : LockFiles, kind : Kinds] \cup {NoFile}]

\* Two processes that were told they have the lock of one file have shared locks,
\* after waits, refusals, changes of kind and releases in any order; and
\* ExclusiveFileLockCheck is true exactly if nobody else was told so.  The system
\* holds for a process the lock its FileLock stands for and no other: a refused
\* request, a change of kind or a release leaves no lock behind that nobody can
\* release.
LockExclusion ==
  /\ LockTypeOK
  /\ \A p \in Procs : lock[p] # NoFile =>
       LET others == {q \in Procs \ {p} : lock[q] = lock[p] /\ mode[q] # "none"}
       IN  /\ mode[p] = "exclusive" => others = {}
           /\ ExclusiveFileLockCheck(p) <=> others = {}
  /\ \A p \in Procs, f \in LockFiles :
       kernel[p][f] = IF lock[p] = f THEN mode[p] ELSE "none"
=============================================================================
