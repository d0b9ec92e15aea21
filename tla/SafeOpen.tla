------------------------------ MODULE SafeOpen ------------------------------
(***************************************************************************)
(* safe_open_create_perms of libutils/file_lib.c: a path of two components *)
(* is opened one component at a time, with a step for every system call,   *)
(* while other processes create, delete and replace what the names mean    *)
(* and write to the files.                                                 *)
(*                                                                         *)
(* What a name means is an entry: the owner fstatat reports for the name   *)
(* itself, and the file or directory that opening it leads to.  The entry  *)
(* of a symbolic link may have another owner than its target, or lead      *)
(* nowhere.  An owner stands for a user and a group.                       *)
(***************************************************************************)
EXTENDS Integers, Sequences, SequencesExt

CONSTANTS Dirs, Files,   \* inodes; the path starts in Top
          Owner,         \* owner of every inode
          DirEntries,    \* what the first component can be
          FileEntries,   \* what the second component can be, in every directory
          EUID, MAX_ATTEMPTS,
          Top, Absent, NoCall

Entries(targets) == [owner : Nat, to : targets \cup {Absent}]

AllFlags == {{}, {"creat"}, {"creat", "excl"}, {"trunc"}, {"creat", "trunc"},
             {"creat", "excl", "trunc"}}

\* What names can mean, with the files this process creates.
Meanings == DirEntries \cup FileEntries \cup [owner : {EUID}, to : Files] \cup {Absent}

\* What a failing call reports; "other" is any reason of the kernel but that the
\* name exists or leads nowhere.
Errnos == {"EEXIST", "ENOENT", "EACCES", "ENOLINK", "other"}

\* The local variables of a call.
Calls ==
  [pc : {"stat", "open", "check", "truncate", "opened", "failed"},
   orig : AllFlags, flags : SUBSET {"creat", "excl", "trunc"},
   at : {Top} \cup Dirs \cup Files,          \* what currentfd is open on
   before : Meanings,                        \* stat_before, or that it failed
   attempts : 0..MAX_ATTEMPTS, trunc : BOOLEAN,
   size : {0, 1, Absent},                    \* final_size
   made : BOOLEAN,                           \* did this call create the file?
   errno : {"none"} \cup Errnos]

ASSUME SafeOpenAssumption ==
  /\ Owner \in [Dirs \cup Files -> Nat] /\ EUID \in Nat
  /\ DirEntries \subseteq Entries(Dirs) /\ FileEntries \subseteq Entries(Files)
  /\ MAX_ATTEMPTS \in Nat
  /\ Top \notin Dirs \cup Files /\ Dirs \cap Files = {}
  /\ Absent \notin {0, 1} /\ NoCall \notin Calls

VARIABLES entry,   \* what the name means, in Top and in every directory
          size,    \* 0 or 1: whether a file has content
          fds,     \* number of descriptors of this process on every inode
          call     \* the local variables of the running call

openVars == <<entry, size, fds, call>>

\* "bool p_uid" receives the user id.
PUid == IF EUID = 0 THEN 0 ELSE 1

OpenInit ==
  /\ entry \in [{Top} \cup Dirs -> {Absent}]
  /\ size = [f \in Files |-> 0]
  /\ fds = [o \in {Top} \cup Dirs \cup Files |-> 0]
  /\ call = NoCall

Leaf == call.at # Top

Opened(b, o)   == [b EXCEPT ![o] = @ + 1]
Closed(b, o)   == [b EXCEPT ![o] = @ - 1]

\* close(currentfd); return -1
Fail(errno) ==
  /\ call' = [call EXCEPT !.pc = "failed", !.errno = errno]
  /\ fds' = Closed(fds, call.at)

-----------------------------------------------------------------------------
\* If the first directory cannot be opened nothing else happens.
safe_open(flags) ==
  /\ call = NoCall
  /\ call' = [pc |-> "stat", orig |-> flags, flags |-> flags, at |-> Top, before |-> Absent,
              attempts |-> MAX_ATTEMPTS, trunc |-> FALSE, size |-> Absent,
              made |-> FALSE, errno |-> "none"]
  /\ fds' = Opened(fds, Top)
  /\ UNCHANGED <<entry, size>>

\* Mutant: the file is truncated when it is opened.
StatKeepsTrunc ==
  /\ call # NoCall /\ call.pc = "stat"
  /\ UNCHANGED <<entry, size>>
  /\ LET b == entry[call.at] IN
     \/ b = Absent /\ (~Leaf \/ "creat" \notin call.flags) /\ Fail("ENOENT")
     \/ /\ b # Absent \/ (Leaf /\ "creat" \in call.flags)
        /\ call' = [call EXCEPT !.pc = "open", !.before = b]
        /\ UNCHANGED fds
     \/ Fail("other")

\* From the top of the loop to fstatat, which may also fail for another reason
\* than that the name is absent.
Stat ==
  /\ call # NoCall /\ call.pc = "stat"
  /\ UNCHANGED <<entry, size>>
  /\ LET b == entry[call.at] IN
     \/ b = Absent /\ (~Leaf \/ "creat" \notin call.flags) /\ Fail("ENOENT")
     \/ /\ b # Absent \/ (Leaf /\ "creat" \in call.flags)
        /\ call' = [call EXCEPT !.pc = "open", !.before = b,
                                !.trunc = "trunc" \in call.orig,
                                !.flags = @ \ {"trunc"}]
        /\ UNCHANGED fds
     \/ Fail("other")

\* currentfd is now a descriptor of o; fstat compares if the name was there.
Advance(o, new) ==
  /\ call' = [call EXCEPT !.pc = IF call.before = Absent THEN "truncate" ELSE "check",
                          !.at = o, !.made = new, !.trunc = @ /\ call.before # Absent]
  /\ fds' = Opened(Closed(fds, call.at), o)

\* "Make sure *we* create it", or "Make sure we *don't* create it".
FlagsNow == IF call.before = Absent THEN call.flags \cup {"excl"} ELSE call.flags \ {"creat"}

OpenDir ==
  /\ call # NoCall /\ call.pc = "open" /\ ~Leaf
  /\ UNCHANGED <<entry, size>>
  /\ LET now == entry[Top]
         there == now # Absent /\ now.to # Absent
     IN  \/ there /\ Advance(now.to, FALSE)
         \/ ~there /\ Fail("ENOENT")
         \/ Fail("other")

\* openat fails because of what others did to the name since fstatat.
NotOurFault(errno) ==
  \/ call.before = Absent /\ "excl" \notin call.orig /\ errno = "EEXIST"
  \/ call.before # Absent /\ "creat" \in call.orig /\ errno = "ENOENT"

\* Mutant: a failing attempt is not counted.
RetryUncounted(errno) ==
  IF NotOurFault(errno)
    THEN /\ call' = [call EXCEPT !.pc = "stat", !.flags = call.orig]
         /\ UNCHANGED fds
    ELSE Fail(errno)

\* Mutant: the next attempt starts with the flags of this one.
RetryKeepsFlags(errno) ==
  IF NotOurFault(errno) /\ call.attempts > 0
    THEN /\ call' = [call EXCEPT !.pc = "stat", !.flags = FlagsNow, !.attempts = @ - 1]
         /\ UNCHANGED fds
    ELSE Fail(IF NotOurFault(errno) THEN "EACCES" ELSE errno)

\* What happens when openat fails.
Retry(errno) ==
  IF NotOurFault(errno) /\ call.attempts > 0
    THEN /\ call' = [call EXCEPT !.pc = "stat", !.flags = call.orig, !.attempts = @ - 1]
         /\ UNCHANGED fds
    ELSE Fail(IF NotOurFault(errno) THEN "EACCES" ELSE errno)

\* A new file belongs to this user and is not in use yet.
Unused(f) ==
  /\ fds[f] = 0 /\ Owner[f] = EUID
  /\ f \notin {entry[d].to : d \in {e \in Dirs : entry[e] # Absent}}

\* openat of the last component, with the flags it is given: a name that exists is
\* refused with O_CREAT and O_EXCL, one that leads nowhere without O_CREAT, and the
\* kernel may fail for other reasons.
openat(flags) ==
  LET now    == entry[call.at]
      exists == now # Absent
      there  == exists /\ now.to # Absent
      made   == "creat" \in flags /\ ~exists
  IN  \/ /\ made
         /\ \E f \in Files :
              /\ Unused(f)
              /\ entry' = [entry EXCEPT ![call.at] = [owner |-> EUID, to |-> f]]
              /\ size' = [size EXCEPT ![f] = 0]
              /\ Advance(f, TRUE)
      \/ /\ there /\ ~({"creat", "excl"} \subseteq flags)
         /\ Advance(now.to, FALSE)
         /\ size' = IF "trunc" \in flags THEN [size EXCEPT ![now.to] = 0] ELSE size
         /\ UNCHANGED entry
      \/ /\ exists /\ {"creat", "excl"} \subseteq flags
         /\ Retry("EEXIST")
         /\ UNCHANGED <<entry, size>>
      \/ /\ ~there /\ "creat" \notin flags
         /\ Retry("ENOENT")
         /\ UNCHANGED <<entry, size>>
      \/ Fail("other") /\ UNCHANGED <<entry, size>>

\* The last component is created by this call or not at all.
OpenLeaf ==
  /\ call # NoCall /\ call.pc = "open" /\ Leaf
  /\ \/ /\ call.before # Absent /\ {"creat", "excl"} \subseteq call.flags
        /\ Fail("EEXIST")
        /\ UNCHANGED <<entry, size>>
     \/ /\ ~(call.before # Absent /\ {"creat", "excl"} \subseteq call.flags)
        /\ openat(FlagsNow)

Trusted(before, o) ==
  before.owner = 0 \/ before.owner = PUid \/ before.owner = Owner[o]

\* Mutant: the descriptor stays open when the link is refused.
CheckLeaks ==
  /\ call # NoCall /\ call.pc = "check"
  /\ UNCHANGED <<entry, size>>
  /\ LET leaf == call.at \in Files IN
     IF Trusted(call.before, call.at)
       THEN /\ call' = [call EXCEPT !.pc = IF leaf THEN "truncate" ELSE "stat",
                                    !.size = IF leaf THEN size[call.at] ELSE 1,
                                    !.attempts = MAX_ATTEMPTS, !.trunc = @ /\ leaf]
            /\ UNCHANGED fds
       ELSE call' = [call EXCEPT !.pc = "failed", !.errno = "ENOLINK"] /\ UNCHANGED fds

\* fstat and the comparison of owners, then the next component.
Check ==
  /\ call # NoCall /\ call.pc = "check"
  /\ UNCHANGED <<entry, size>>
  /\ LET leaf == call.at \in Files IN
     \/ /\ Trusted(call.before, call.at)
        /\ call' = [call EXCEPT !.pc = IF leaf THEN "truncate" ELSE "stat",
                                !.size = IF leaf THEN size[call.at] ELSE 1,
                                !.attempts = MAX_ATTEMPTS, !.trunc = @ /\ leaf]
        /\ UNCHANGED fds
     \/ ~Trusted(call.before, call.at) /\ Fail("ENOLINK")
     \/ Fail("other")

Truncate ==
  /\ call # NoCall /\ call.pc = "truncate"
  /\ UNCHANGED entry
  /\ \/ /\ call.trunc /\ call.size # 0
        /\ \/ /\ size' = [size EXCEPT ![call.at] = 0]
              /\ call' = [call EXCEPT !.pc = "opened"]
              /\ UNCHANGED fds
           \/ Fail("other") /\ UNCHANGED size
     \/ /\ ~(call.trunc /\ call.size # 0)
        /\ call' = [call EXCEPT !.pc = "opened"]
        /\ UNCHANGED <<size, fds>>

\* The caller closes what it got.
OpenReturn ==
  /\ call # NoCall /\ call.pc \in {"opened", "failed"}
  /\ call' = NoCall
  /\ fds' = IF call.pc = "opened" THEN Closed(fds, call.at) ELSE fds
  /\ UNCHANGED <<entry, size>>

-----------------------------------------------------------------------------
(***************************************************************************)
(* Other processes.                                                        *)
(***************************************************************************)
OthersChange ==
  /\ \/ \E e \in DirEntries \cup {Absent} : entry' = [entry EXCEPT ![Top] = e]
     \/ \E d \in Dirs, e \in FileEntries \cup {Absent} : entry' = [entry EXCEPT ![d] = e]
  /\ UNCHANGED <<size, fds, call>>

OthersWrite ==
  /\ \E f \in Files : size' = [size EXCEPT ![f] = 1]
  /\ UNCHANGED <<entry, fds, call>>

OpenSteps ==
  \/ Stat \/ OpenDir \/ OpenLeaf \/ Check \/ Truncate \/ OpenReturn

OpenNext ==
  \/ \E flags \in AllFlags : safe_open(flags)
  \/ OpenSteps \/ OthersChange \/ OthersWrite

OpenSpec == OpenInit /\ [][OpenNext]_openVars

-----------------------------------------------------------------------------
(***************************************************************************)
(* Properties.                                                             *)
(***************************************************************************)
\* Includes the assertion before the truncation: the size is known there.
OpenTypeOK ==
  /\ entry \in [{Top} \cup Dirs -> Meanings]
  /\ entry[Top] \in DirEntries \cup {Absent}
  /\ \A d \in Dirs : entry[d] \in FileEntries \cup {Absent} \cup [owner : {EUID}, to : Files]
  /\ size \in [Files -> 0..1]
  /\ fds \in [{Top} \cup Dirs \cup Files -> Nat]
  /\ call # NoCall =>
       /\ call \in Calls
       /\ call.pc = "truncate" /\ call.trunc => call.size # Absent

\* Whatever fails and however often the open is retried, the call holds one
\* descriptor while it runs, returns one, and leaves none behind when it fails.
\* The variables have their types.
DescriptorsBalanced ==
  OpenTypeOK /\ fds = [o \in DOMAIN fds |->
           IF call # NoCall /\ call.pc # "failed" /\ call.at = o THEN 1 ELSE 0]

\* "Same errors as open()" (file_lib.c:692), although the flags are changed for
\* every attempt and others create, delete and replace the name between fstatat and
\* openat: with O_CREAT and O_EXCL the file returned was made by this call, without
\* O_CREAT none is made; EEXIST is for O_EXCL only, and ENOENT for the last component
\* only without O_CREAT.
AnswersLikeOpen ==
  call # NoCall =>
    /\ call.made => "creat" \in call.orig
    /\ call.pc = "opened" /\ "excl" \in call.orig => call.made
    /\ call.errno = "EEXIST" => "excl" \in call.orig
    /\ call.errno = "ENOENT" /\ Leaf => "creat" \notin call.orig

\* "We need to check after we have opened the file whether we opened the right one.
\* But if we truncate it, the damage is already done": no file loses its content
\* but one that the call has checked and returns.
EmptiesOnlyWhatItReturns ==
  [][\A f \in Files : size[f] = 1 /\ size'[f] = 0 =>
       /\ call' # NoCall /\ call'.at = f
       /\ call'.made \/ (call'.pc = "opened" /\ "trunc" \in call'.orig)]_openVars

\* A file that is constantly created and deleted does not keep the call from
\* returning.
OpenEnds == (call # NoCall) ~> (call = NoCall)
=============================================================================
