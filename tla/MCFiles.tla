------------------------------ MODULE MCFiles -------------------------------
(***************************************************************************)
(* What libutils does with files and at the end of a process, for TLC:     *)
(* safe_open, the file locks, the copying of files and the cleanup         *)
(* functions.  The first three meet only in the descriptors they are       *)
(* given, so a behaviour is about one of them.                             *)
(***************************************************************************)
EXTENDS SafeOpen, FileLock, FileCopy, Cleanup

CONSTANTS d1, f1, f2, f3

VARIABLE part

MCOwner == [o \in Dirs \cup Files |-> IF o = d1 THEN 0 ELSE IF o = f2 THEN 3 ELSE EUID]

\* The directory of root, a link to it by another user.
MCDirEntries == {[owner |-> 0, to |-> d1], [owner |-> 3, to |-> d1]}

\* Two files, links by another user and by root, and a link to nothing.
MCFileEntries == {[owner |-> EUID, to |-> f1], [owner |-> 3, to |-> f2],
                  [owner |-> 3, to |-> f1], [owner |-> 0, to |-> f2],
                  [owner |-> 0, to |-> Absent]}

\* Initial states differ only in the part a behaviour is about.
MCInit ==
  /\ part \in {"open", "lock", "copy", "cleanup"}
  /\ OpenInit /\ LockInit /\ CleanupInit
  /\ CopyInit
  /\ part # "copy" => src = <<>> /\ cp.how = "read"

MCNext ==
  /\ UNCHANGED part
  /\ \/ part = "open" /\ OpenNext /\ UNCHANGED <<lockVars, copyVars, cleanupVars>>
     \/ part = "lock" /\ LockNext /\ UNCHANGED <<openVars, copyVars, cleanupVars>>
     \/ part = "copy" /\ CopyNext /\ UNCHANGED <<openVars, lockVars, cleanupVars>>
     \/ part = "cleanup" /\ CleanupNext /\ UNCHANGED <<openVars, lockVars, copyVars>>

\* A call that was made runs on, and so does a thread that exits; other processes
\* need not do anything.
MCSpec ==
  /\ MCInit /\ [][MCNext]_<<openVars, lockVars, copyVars, cleanupVars, part>>
  /\ WF_openVars(OpenSteps) /\ WF_cleanupVars(CleanupSteps)

\* A file that is constantly created and deleted does not keep safe_open from
\* returning, and a thread that exits ends the process unless a cleanup function
\* waits for the mutex that is held while it runs.
CallsEnd == OpenEnds /\ CleanupEnds
=============================================================================
