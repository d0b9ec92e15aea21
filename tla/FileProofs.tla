----------------------------- MODULE FileProofs -----------------------------
(***************************************************************************)
(* safe_open closes what it must, answers as open does and empties only    *)
(* what it returns, for any files, owners and meanings of the names,       *)
(* and for any number of attempts and changes by other processes.  The     *)
(* file locks exclude each other, for any number of processes, lock files  *)
(* and descriptors.  Every cleanup function is called at most once, none   *)
(* is lost, and a thread calls them newest first, for any number of        *)
(* threads and of functions that register or exit themselves.  A copy that *)
(* reports success is its source, for files and blocks of any size, any    *)
(* holes, and any part of its work that each call does.                    *)
(***************************************************************************)
EXTENDS SafeOpen, FileLock, Cleanup, FileCopy, NumberProofs

\* What names mean and how long files are.
NamesOK ==
  /\ entry \in [{Top} \cup Dirs -> Meanings]
  /\ entry[Top] \in DirEntries \cup {Absent}
  /\ \A d \in Dirs : entry[d] \in FileEntries \cup {Absent} \cup [owner : {EUID}, to : Files]
  /\ size \in [Files -> 0..1]

\* Where a call is: what it has open fits the step it is at, O_TRUNC is not among
\* the flags when it opens, and what it will truncate it was asked to and has
\* measured.
CallFits(c) ==
  /\ c.pc \in {"stat", "open"} => c.at \in {Top} \cup Dirs
  /\ c.pc = "open" => "trunc" \notin c.flags /\ (c.at = Top => c.before # Absent)
  /\ c.pc = "check" => c.at \in Dirs \cup Files /\ c.before # Absent
  /\ c.pc \in {"truncate", "opened"} => c.at \in Files
  /\ c.trunc => "trunc" \in c.orig
  /\ c.pc = "truncate" /\ c.trunc => c.size # Absent

\* What a call has done and answers fits what it was asked for: when it looks at a
\* name its flags are the original ones, but for O_TRUNC, and with O_EXCL it goes on
\* only with a file it has made.
Answers(c) ==
  /\ \A g \in {"creat", "excl"} : g \in c.flags <=> g \in c.orig
  /\ c.made => "creat" \in c.orig
  /\ c.pc = "open" /\ c.before = Absent => "creat" \in c.orig
  /\ c.pc \in {"check", "truncate", "opened"} /\ c.at \in Files /\ "excl" \in c.orig => c.made
  /\ c.pc # "failed" => c.errno = "none"
  /\ c.errno = "EEXIST" => "excl" \in c.orig
  /\ c.errno = "ENOENT" /\ c.at # Top => "creat" \notin c.orig

GoodCall(c) == c \in Calls /\ CallFits(c) /\ Answers(c)

\* What the call has open.
Held(c, o) == IF c # NoCall /\ c.pc # "failed" /\ c.at = o THEN 1 ELSE 0
FdsHeld == fds = [o \in {Top} \cup Dirs \cup Files |-> Held(call, o)]

OpenInv == NamesOK /\ FdsHeld /\ (call # NoCall => GoodCall(call))

-----------------------------------------------------------------------------
\* Descriptors: closing what is open and opening something leaves that open.
LEMMA FdsMove ==
  ASSUME FdsHeld, call # NoCall, call.pc # "failed", GoodCall(call),
         call' # NoCall, call'.pc # "failed", call'.at \in {Top} \cup Dirs \cup Files,
         fds' = Opened(Closed(fds, call.at), call'.at)
  PROVE  FdsHeld'
<1> DEFINE S == {Top} \cup Dirs \cup Files
<1>1. call.at \in S
  BY DEF GoodCall, Calls
<1>2. fds \in [S -> 0..1] /\ \A o \in S : fds[o] = IF call.at = o THEN 1 ELSE 0
  BY DEF FdsHeld, Held
<1> HIDE DEF S
<1>3. fds' \in [S -> Int]
  BY <1>1, <1>2 DEF Opened, Closed, S
<1>4. \A o \in S : fds'[o] = IF call'.at = o THEN 1 ELSE 0
  BY <1>1, <1>2 DEF Opened, Closed, S
<1> QED
  BY <1>3, <1>4 DEF FdsHeld, Held, S

\* Steps that keep the descriptor.
LEMMA FdsKeep ==
  ASSUME FdsHeld, call # NoCall, call.pc # "failed",
         call' # NoCall, call'.pc # "failed", call'.at = call.at, fds' = fds
  PROVE  FdsHeld'
  BY DEF FdsHeld, Held

\* Every early return closes currentfd.
LEMMA FailStep ==
  ASSUME OpenInv, NamesOK', call # NoCall, call.pc # "failed", NEW errno \in Errnos, Fail(errno),
         errno = "EEXIST" => "excl" \in call.orig,
         errno = "ENOENT" /\ call.at # Top => "creat" \notin call.orig
  PROVE  OpenInv'
<1> DEFINE S == {Top} \cup Dirs \cup Files
<1>1. GoodCall(call) /\ call.at \in S /\ call \in Calls /\ CallFits(call) /\ Answers(call)
  BY DEF OpenInv, GoodCall, Calls
<1>2. call' = [call EXCEPT !.pc = "failed", !.errno = errno] /\ fds' = Closed(fds, call.at)
  BY DEF Fail
<1>3. /\ call' \in Calls /\ call'.pc = "failed" /\ call'.trunc = call.trunc /\ call'.orig = call.orig
      /\ call'.flags = call.flags /\ call'.made = call.made /\ call'.at = call.at /\ call'.errno = errno
  BY <1>1, <1>2 DEF Calls
<1>4. GoodCall(call')
  <2>1. CallFits(call')
    BY <1>1, <1>3 DEF CallFits
  <2>2. Answers(call')
    BY <1>1, <1>3 DEF Answers
  <2> QED BY <1>3, <2>1, <2>2 DEF GoodCall
<1>5. fds \in [S -> 0..1] /\ \A o \in S : fds[o] = IF call.at = o THEN 1 ELSE 0
  BY DEF OpenInv, FdsHeld, Held
<1> HIDE DEF S
<1>6. fds' \in [S -> Int] /\ \A o \in S : fds'[o] = 0
  BY <1>1, <1>2, <1>5 DEF Closed
<1>7. FdsHeld'
  BY <1>3, <1>6 DEF FdsHeld, Held, S
<1> QED
  BY <1>4, <1>7 DEF OpenInv

\* A failure for any other reason.
LEMMA OtherFailStep ==
  ASSUME OpenInv, NamesOK', call # NoCall, call.pc # "failed", NEW errno \in {"other", "EACCES", "ENOLINK"}, Fail(errno)
  PROVE  OpenInv'
<1>1. errno \in Errnos /\ errno # "EEXIST" /\ errno # "ENOENT"
  BY DEF Errnos
<1> QED BY <1>1, FailStep

\* What openat gives is a descriptor of the next component.
LEMMA AdvanceStep ==
  ASSUME OpenInv, NamesOK', call # NoCall, call.pc = "open",
         NEW o \in Dirs \cup Files, NEW new \in BOOLEAN,
         call.at = Top => o \in Dirs, call.at # Top => o \in Files,
         new => "creat" \in call.orig, o \in Files /\ "excl" \in call.orig => new,
         Advance(o, new)
  PROVE  OpenInv'
<1>1. call \in Calls /\ CallFits(call) /\ Answers(call) /\ GoodCall(call)
  BY DEF OpenInv, GoodCall
<1> DEFINE next == IF call.before = Absent THEN "truncate" ELSE "check"
<1>2. /\ call' = [call EXCEPT !.pc = next, !.at = o, !.made = new,
                              !.trunc = @ /\ call.before # Absent]
      /\ fds' = Opened(Closed(fds, call.at), o)
  BY DEF Advance
<1>3. call.before \in Meanings /\ call.trunc \in BOOLEAN
  BY <1>1 DEF Calls
<1>5. next \in {"truncate", "check"}
  OBVIOUS
<1>6. next = "truncate" => call.at # Top /\ call.before = Absent
  BY <1>1 DEF CallFits
<1>7. next = "check" => call.before # Absent
  OBVIOUS
<1> HIDE DEF next
<1>9. (call.trunc /\ call.before # Absent) \in BOOLEAN
  BY <1>3
<1>10. call' \in Calls
  BY <1>1, <1>2, <1>5, <1>9 DEF Calls
<1>11. /\ call'.pc = next /\ call'.at = o /\ call'.before = call.before /\ call'.orig = call.orig
       /\ call'.made = new /\ call'.flags = call.flags /\ call'.errno = call.errno
  BY <1>1, <1>2 DEF Calls
<1>12. call'.trunc <=> call.trunc /\ call.before # Absent
  BY <1>1, <1>2 DEF Calls
<1>13. CallFits(call')
  BY <1>1, <1>5, <1>6, <1>7, <1>11, <1>12 DEF CallFits
<1>14. Answers(call')
  <2>1. call.errno = "none"
    BY <1>1 DEF Answers
  <2>2. \A g \in {"creat", "excl"} : g \in call'.flags <=> g \in call'.orig
    BY <1>1, <1>11 DEF Answers
  <2> QED BY <1>5, <1>11, <2>1, <2>2 DEF Answers
<1>15. call' # NoCall /\ call'.pc # "failed"
  BY <1>5, <1>10, <1>11, SafeOpenAssumption
<1>16. FdsHeld'
  BY <1>1, <1>2, <1>11, <1>15, FdsMove DEF OpenInv
<1> QED
  BY <1>10, <1>13, <1>14, <1>16 DEF OpenInv, GoodCall

\* A retry starts again with the same descriptor and the original flags.
LEMMA RetryStep ==
  ASSUME OpenInv, NamesOK', call # NoCall, call.pc = "open", NEW errno \in Errnos, Retry(errno),
         errno = "EEXIST" => call.before = Absent, errno = "ENOENT" => call.before # Absent
  PROVE  OpenInv'
<1>1. CASE ~NotOurFault(errno) /\ Fail(errno)
  <2>1. errno = "EEXIST" => "excl" \in call.orig
    BY <1>1 DEF NotOurFault
  <2>2. errno = "ENOENT" => "creat" \notin call.orig
    BY <1>1 DEF NotOurFault
  <2> QED BY <1>1, <2>1, <2>2, FailStep
<1>3. CASE Fail("EACCES")
  BY <1>3, OtherFailStep
<1>2. CASE /\ call.attempts > 0 /\ UNCHANGED fds
           /\ call' = [call EXCEPT !.pc = "stat", !.flags = call.orig, !.attempts = @ - 1]
  <2>1. call \in Calls /\ CallFits(call) /\ Answers(call)
    BY DEF OpenInv, GoodCall
  <2>2. call.orig \in SUBSET {"creat", "excl", "trunc"} /\ call.attempts - 1 \in 0..MAX_ATTEMPTS
    BY <1>2, <2>1, SafeOpenAssumption DEF Calls, AllFlags
  <2>3. call' \in Calls
    BY <1>2, <2>1, <2>2 DEF Calls
  <2>4. /\ call'.pc = "stat" /\ call'.at = call.at /\ call'.orig = call.orig
        /\ call'.trunc = call.trunc /\ call'.made = call.made
        /\ call'.flags = call.orig /\ call'.errno = call.errno
    BY <1>2, <2>1 DEF Calls
  <2>5. CallFits(call')
    BY <2>1, <2>4 DEF CallFits
  <2>8. Answers(call')
    BY <2>1, <2>4 DEF Answers
  <2>6. call' # NoCall
    BY <2>3, SafeOpenAssumption
  <2>7. FdsHeld'
    BY <1>2, <2>4, <2>6, FdsKeep DEF OpenInv
  <2> QED
    BY <2>3, <2>5, <2>7, <2>8 DEF OpenInv, GoodCall
<1> QED
  BY <1>1, <1>2, <1>3 DEF Retry

-----------------------------------------------------------------------------
\* One lemma for every step of the call.
LEMMA SafeOpenStep ==
  ASSUME OpenInv, NEW flags \in AllFlags, safe_open(flags)
  PROVE  OpenInv'
<1>1. call' = [pc |-> "stat", orig |-> flags, flags |-> flags, at |-> Top, before |-> Absent,
               attempts |-> MAX_ATTEMPTS, trunc |-> FALSE, size |-> Absent,
               made |-> FALSE, errno |-> "none"]
  BY DEF safe_open
<1>2. call = NoCall /\ fds' = Opened(fds, Top) /\ entry' = entry /\ size' = size
  BY DEF safe_open
<1>3. flags \in SUBSET {"creat", "excl", "trunc"} /\ Absent \in Meanings /\ MAX_ATTEMPTS \in 0..MAX_ATTEMPTS
  BY SafeOpenAssumption DEF AllFlags, Meanings
<1>5. call' \in Calls
  BY <1>1, <1>3 DEF Calls
<1>6. /\ call'.pc = "stat" /\ call'.at = Top /\ call'.trunc = FALSE /\ call'.made = FALSE
      /\ call'.flags = flags /\ call'.orig = flags /\ call'.errno = "none"
  BY <1>1
<1>7. CallFits(call') /\ Answers(call')
  BY <1>6 DEF CallFits, Answers
<1>8. call' # NoCall
  BY <1>5, SafeOpenAssumption
<1>9. NamesOK'
  BY <1>2 DEF OpenInv, NamesOK
<1>10. FdsHeld'
  <2> DEFINE S == {Top} \cup Dirs \cup Files
  <2>1. Top \in S /\ fds \in [S -> 0..1] /\ \A o \in S : fds[o] = 0
    BY <1>2 DEF OpenInv, FdsHeld, Held
  <2> HIDE DEF S
  <2>2. fds' \in [S -> Int] /\ \A o \in S : fds'[o] = IF o = Top THEN 1 ELSE 0
    BY <1>2, <2>1 DEF Opened
  <2> QED
    BY <1>6, <1>8, <2>2 DEF FdsHeld, Held, S
<1> QED
  BY <1>5, <1>7, <1>9, <1>10 DEF OpenInv, GoodCall

LEMMA StatStep ==
  ASSUME OpenInv, Stat
  PROVE  OpenInv'
<1>1. call # NoCall /\ call.pc = "stat" /\ entry' = entry /\ size' = size
  BY DEF Stat
<1>2. NamesOK'
  BY <1>1 DEF OpenInv, NamesOK
<1> DEFINE b == entry[call.at]
<1>3. CASE Fail("other")
  BY <1>1, <1>2, <1>3, OtherFailStep
<1>5. CASE (~Leaf \/ "creat" \notin call.flags) /\ Fail("ENOENT")
  <2>1. call.at # Top => "creat" \notin call.orig
    BY <1>1, <1>5 DEF Leaf, OpenInv, GoodCall, Answers
  <2>2. "ENOENT" \in Errnos
    BY DEF Errnos
  <2> QED BY <1>1, <1>2, <1>5, <2>1, <2>2, FailStep
<1>4. CASE /\ b # Absent \/ (Leaf /\ "creat" \in call.flags)
           /\ call' = [call EXCEPT !.pc = "open", !.before = b,
                                   !.trunc = "trunc" \in call.orig, !.flags = @ \ {"trunc"}]
           /\ UNCHANGED fds
  <2>1. call \in Calls /\ CallFits(call) /\ Answers(call)
    BY <1>1 DEF OpenInv, GoodCall
  <2>2. call.at \in {Top} \cup Dirs
    BY <1>1, <2>1 DEF CallFits
  <2>3. b \in Meanings
    BY <2>2 DEF OpenInv, NamesOK
  <2>4. call.at = Top => b # Absent
    BY <1>4 DEF Leaf
  <2> HIDE DEF b
  <2>5. ("trunc" \in call.orig) \in BOOLEAN /\ call.flags \ {"trunc"} \in SUBSET {"creat", "excl", "trunc"}
    BY <2>1 DEF Calls
  <2>6. call' \in Calls
    BY <1>4, <2>1, <2>3, <2>5 DEF Calls
  <2>7. /\ call'.pc = "open" /\ call'.at = call.at /\ call'.orig = call.orig /\ call'.before = b
        /\ call'.made = call.made /\ call'.errno = call.errno /\ call'.flags = call.flags \ {"trunc"}
    BY <1>4, <2>1 DEF Calls
  <2>8. call'.trunc <=> "trunc" \in call'.orig
    BY <1>4, <2>1 DEF Calls
  <2>9. CallFits(call')
    BY <2>2, <2>4, <2>7, <2>8 DEF CallFits
  <2>10. Answers(call')
    <3>1. b = Absent => "creat" \in call.orig
      BY <1>4, <2>1 DEF Answers, b
    <3> QED BY <1>1, <2>1, <2>7, <3>1 DEF Answers
  <2>11. call' # NoCall
    BY <2>6, SafeOpenAssumption
  <2>12. FdsHeld'
    BY <1>1, <1>4, <2>7, <2>11, FdsKeep DEF OpenInv
  <2> QED
    BY <1>2, <2>6, <2>9, <2>10, <2>12 DEF OpenInv, GoodCall
<1> QED
  BY <1>3, <1>4, <1>5 DEF Stat

LEMMA OpenDirStep ==
  ASSUME OpenInv, OpenDir
  PROVE  OpenInv'
<1> DEFINE now == entry[Top]
<1>1. call # NoCall /\ call.pc = "open" /\ call.at = Top /\ entry' = entry /\ size' = size
  BY DEF OpenDir, Leaf
<1>2. NamesOK'
  BY <1>1 DEF OpenInv, NamesOK
<1>3. CASE Fail("other")
  BY <1>1, <1>2, <1>3, OtherFailStep
<1>5. CASE Fail("ENOENT")
  <2>1. "ENOENT" \in Errnos
    BY DEF Errnos
  <2> QED BY <1>1, <1>2, <1>5, <2>1, FailStep
<1>4. CASE now # Absent /\ now.to # Absent /\ Advance(now.to, FALSE)
  <2>1. now \in Entries(Dirs)
    BY <1>4, SafeOpenAssumption DEF OpenInv, NamesOK
  <2>2. now.to \in Dirs /\ now.to \notin Files
    BY <1>4, <2>1, SafeOpenAssumption DEF Entries
  <2> HIDE DEF now
  <2> QED
    BY <1>1, <1>2, <1>4, <2>2, AdvanceStep
<1> QED
  BY <1>3, <1>4, <1>5 DEF OpenDir

\* The file that is made.
LEMMA CreateStep ==
  ASSUME OpenInv, call # NoCall, call.pc = "open", call.at \in Dirs, call.at # Top, "creat" \in call.orig,
         NEW f \in Files,
         entry' = [entry EXCEPT ![call.at] = [owner |-> EUID, to |-> f]],
         size' = [size EXCEPT ![f] = 0],
         Advance(f, TRUE)
  PROVE  OpenInv'
<1> DEFINE e == [owner |-> EUID, to |-> f]
<1>1. e \in [owner : {EUID}, to : Files] /\ e \in Meanings
  BY DEF Meanings
<1> HIDE DEF e
<1>2. entry' \in [{Top} \cup Dirs -> Meanings]
  BY <1>1 DEF OpenInv, NamesOK, e
<1>3. entry'[Top] = entry[Top] /\ \A d \in Dirs : entry'[d] = IF d = call.at THEN e ELSE entry[d]
  BY <1>1 DEF OpenInv, NamesOK, e
<1>4. NamesOK'
  BY <1>1, <1>2, <1>3 DEF OpenInv, NamesOK
<1> QED
  BY <1>4, AdvanceStep

\* The flags openat is called with.
LEMMA FlagsNowAre ==
  ASSUME OpenInv, call # NoCall, call.pc = "open", call.at # Top,
         ~(call.before # Absent /\ {"creat", "excl"} \subseteq call.flags)
  PROVE  /\ call.at \in Dirs
         /\ "trunc" \notin FlagsNow
         /\ "creat" \in FlagsNow <=> call.before = Absent
         /\ "creat" \in FlagsNow => "creat" \in call.orig /\ "excl" \in FlagsNow
         /\ "creat" \notin FlagsNow => "excl" \notin call.orig
<1>1. call \in Calls /\ CallFits(call) /\ Answers(call)
  BY DEF OpenInv, GoodCall
<1>2. call.at \in Dirs /\ "trunc" \notin call.flags
  BY <1>1 DEF CallFits
<1>3. /\ "creat" \in call.flags <=> "creat" \in call.orig
      /\ "excl" \in call.flags <=> "excl" \in call.orig
      /\ call.before = Absent => "creat" \in call.orig
  BY <1>1 DEF Answers
<1>4. "excl" \in call.orig => "creat" \in call.orig
  BY <1>1 DEF Calls, AllFlags
<1>5. CASE call.before = Absent
  <2>1. FlagsNow = call.flags \cup {"excl"}
    BY <1>5 DEF FlagsNow
  <2> QED BY <1>2, <1>3, <1>5, <2>1
<1>6. CASE call.before # Absent
  <2>1. FlagsNow = call.flags \ {"creat"}
    BY <1>6 DEF FlagsNow
  <2> QED BY <1>2, <1>3, <1>4, <1>6, <2>1
<1> QED BY <1>5, <1>6

LEMMA OpenLeafStep ==
  ASSUME OpenInv, OpenLeaf
  PROVE  OpenInv'
<1> DEFINE now == entry[call.at]
           refused == call.before # Absent /\ {"creat", "excl"} \subseteq call.flags
<1>1. call # NoCall /\ call.pc = "open" /\ call.at # Top
  BY DEF OpenLeaf, Leaf
<1>2. CASE UNCHANGED <<entry, size>> /\ refused /\ Fail("EEXIST")
  <2>1. NamesOK'
    BY <1>2 DEF OpenInv, NamesOK
  <2>2. "excl" \in call.orig /\ "EEXIST" \in Errnos
    BY <1>1, <1>2 DEF OpenInv, GoodCall, Answers, Errnos
  <2> QED BY <1>1, <1>2, <2>1, <2>2, FailStep
<1>3. CASE ~refused /\ openat(FlagsNow)
  <2>0. PICK fl : fl = FlagsNow
    OBVIOUS
  <2>1. /\ call.at \in Dirs /\ "trunc" \notin fl /\ ("creat" \in fl <=> call.before = Absent)
        /\ "creat" \in fl => "creat" \in call.orig /\ "excl" \in fl
        /\ "creat" \notin fl => "excl" \notin call.orig
    BY <1>1, <1>3, <2>0, FlagsNowAre
  <2>2. CASE UNCHANGED <<entry, size>>
    <3>1. NamesOK'
      BY <2>2 DEF OpenInv, NamesOK
    <3>2. CASE Fail("other")
      BY <1>1, <3>1, <3>2, OtherFailStep
    <3>3. CASE "creat" \in fl /\ Retry("EEXIST")
      <4>1. "EEXIST" \in Errnos
        BY DEF Errnos
      <4> QED BY <1>1, <2>1, <3>1, <3>3, <4>1, RetryStep
    <3>4. CASE "creat" \notin fl /\ Retry("ENOENT")
      <4>1. "ENOENT" \in Errnos
        BY DEF Errnos
      <4> QED BY <1>1, <2>1, <3>1, <3>4, <4>1, RetryStep
    <3>5. CASE now # Absent /\ now.to # Absent /\ "creat" \notin fl /\ Advance(now.to, FALSE)
      <4>1. now \in Entries(Files) \/ now \in [owner : {EUID}, to : Files]
        BY <2>1, <3>5, SafeOpenAssumption DEF OpenInv, NamesOK
      <4>2. now.to \in Files
        BY <3>5, <4>1 DEF Entries
      <4> HIDE DEF now
      <4> QED BY <1>1, <2>1, <3>1, <3>5, <4>2, AdvanceStep
    <3>6. CASE "creat" \in fl /\ \E f \in Files : /\ entry' = [entry EXCEPT ![call.at] = [owner |-> EUID, to |-> f]]
                                                  /\ size' = [size EXCEPT ![f] = 0]
                                                  /\ Advance(f, TRUE)
      BY <1>1, <2>1, <3>6, CreateStep
    <3> QED BY <1>3, <2>0, <2>1, <3>2, <3>3, <3>4, <3>5, <3>6 DEF openat
  <2>3. CASE ~(UNCHANGED <<entry, size>>)
    <3>1. PICK f \in Files : /\ entry' = [entry EXCEPT ![call.at] = [owner |-> EUID, to |-> f]]
                             /\ size' = [size EXCEPT ![f] = 0]
                             /\ Advance(f, TRUE) /\ "creat" \in fl
      BY <1>3, <2>0, <2>1, <2>3 DEF openat
    <3> QED BY <1>1, <2>1, <3>1, CreateStep
  <2> QED BY <2>2, <2>3
<1> QED
  BY <1>2, <1>3 DEF OpenLeaf

LEMMA CheckStep ==
  ASSUME OpenInv, Check
  PROVE  OpenInv'
<1>1. call # NoCall /\ call.pc = "check" /\ entry' = entry /\ size' = size
  BY DEF Check
<1>2. NamesOK'
  BY <1>1 DEF OpenInv, NamesOK
<1>3. CASE Fail("other") \/ Fail("ENOLINK")
  BY <1>1, <1>2, <1>3, OtherFailStep
<1> DEFINE leaf == call.at \in Files
           next == IF leaf THEN "truncate" ELSE "stat"
           known == IF leaf THEN size[call.at] ELSE 1
<1>4. CASE /\ Trusted(call.before, call.at)
           /\ call' = [call EXCEPT !.pc = next, !.size = known,
                                   !.attempts = MAX_ATTEMPTS, !.trunc = @ /\ leaf]
           /\ UNCHANGED fds
  <2>1. call \in Calls /\ CallFits(call) /\ Answers(call)
    BY <1>1 DEF OpenInv, GoodCall
  <2>2. call.at \in Dirs \cup Files
    BY <1>1, <2>1 DEF CallFits
  <2>3. known \in {0, 1} /\ known # Absent
    BY SafeOpenAssumption DEF OpenInv, NamesOK
  <2>4. next \in {"truncate", "stat"} /\ (next = "truncate" <=> leaf)
    OBVIOUS
  <2>5. MAX_ATTEMPTS \in 0..MAX_ATTEMPTS
    BY SafeOpenAssumption
  <2>6. call.trunc \in BOOLEAN /\ leaf \in BOOLEAN
    BY <2>1 DEF Calls
  <2>7. (call.trunc /\ leaf) \in BOOLEAN
    BY <2>6
  <2> HIDE DEF known, next, leaf
  <2>8. call' \in Calls
    BY <1>4, <2>1, <2>3, <2>4, <2>5, <2>7 DEF Calls
  <2>9. /\ call'.pc = next /\ call'.size = known /\ call'.at = call.at /\ call'.orig = call.orig
        /\ call'.made = call.made /\ call'.errno = call.errno /\ call'.flags = call.flags
    BY <1>4, <2>1 DEF Calls
  <2>10. call'.trunc <=> call.trunc /\ leaf
    BY <1>4, <2>1 DEF Calls
  <2>11. CallFits(call')
    BY <2>1, <2>2, <2>3, <2>4, <2>9, <2>10 DEF CallFits, leaf
  <2>12. Answers(call')
    <3>1. call.errno = "none" /\ (call.at \in Files /\ "excl" \in call.orig => call.made)
      BY <1>1, <2>1 DEF Answers
    <3>2. \A g \in {"creat", "excl"} : g \in call'.flags <=> g \in call'.orig
      BY <2>1, <2>9 DEF Answers
    <3>3. call'.made => "creat" \in call'.orig
      BY <2>1, <2>9 DEF Answers
    <3> QED BY <2>4, <2>9, <3>1, <3>2, <3>3 DEF Answers
  <2>13. call' # NoCall
    BY <2>8, SafeOpenAssumption
  <2>14. FdsHeld'
    BY <1>1, <1>4, <2>4, <2>9, <2>13, FdsKeep DEF OpenInv
  <2> QED
    BY <1>2, <2>8, <2>11, <2>12, <2>14 DEF OpenInv, GoodCall
<1> QED
  BY <1>3, <1>4 DEF Check

LEMMA TruncateStep ==
  ASSUME OpenInv, Truncate
  PROVE  OpenInv'
<1>1. call # NoCall /\ call.pc = "truncate" /\ entry' = entry
  BY DEF Truncate
<1>2. call \in Calls /\ CallFits(call) /\ Answers(call) /\ call.at \in Files
  BY <1>1 DEF OpenInv, GoodCall, CallFits
<1>3. NamesOK'
  <2>1. size' = size \/ size' = [size EXCEPT ![call.at] = 0]
    BY DEF Truncate
  <2> QED
    BY <1>1, <1>2, <2>1 DEF OpenInv, NamesOK
<1>4. CASE Fail("other")
  BY <1>1, <1>3, <1>4, OtherFailStep
<1>5. CASE call' = [call EXCEPT !.pc = "opened"] /\ fds' = fds
  <2>1. call' \in Calls
    BY <1>2, <1>5 DEF Calls
  <2>2. /\ call'.pc = "opened" /\ call'.at = call.at /\ call'.orig = call.orig
        /\ call'.trunc = call.trunc /\ call'.made = call.made
        /\ call'.errno = call.errno /\ call'.flags = call.flags
    BY <1>2, <1>5 DEF Calls
  <2>3. CallFits(call') /\ Answers(call')
    BY <1>1, <1>2, <2>2 DEF CallFits, Answers
  <2>4. call' # NoCall
    BY <2>1, SafeOpenAssumption
  <2>5. FdsHeld'
    BY <1>1, <1>5, <2>2, <2>4, FdsKeep DEF OpenInv
  <2> QED
    BY <1>3, <2>1, <2>3, <2>5 DEF OpenInv, GoodCall
<1> QED
  BY <1>4, <1>5 DEF Truncate

LEMMA OpenReturnStep ==
  ASSUME OpenInv, OpenReturn
  PROVE  OpenInv'
<1> DEFINE S == {Top} \cup Dirs \cup Files
<1>1. /\ call # NoCall /\ call.pc \in {"opened", "failed"} /\ call' = NoCall
      /\ entry' = entry /\ size' = size
      /\ fds' = IF call.pc = "opened" THEN Closed(fds, call.at) ELSE fds
  BY DEF OpenReturn
<1>2. call.at \in S
  BY <1>1 DEF OpenInv, GoodCall, Calls
<1>3. /\ fds \in [S -> 0..1]
      /\ \A o \in S : fds[o] = IF call.pc = "opened" /\ call.at = o THEN 1 ELSE 0
  BY <1>1 DEF OpenInv, FdsHeld, Held
<1> HIDE DEF S
<1>4. fds' \in [S -> Int] /\ \A o \in S : fds'[o] = 0
  BY <1>1, <1>2, <1>3 DEF Closed
<1>5. FdsHeld'
  BY <1>1, <1>4 DEF FdsHeld, Held, S
<1> QED
  BY <1>1, <1>5 DEF OpenInv, NamesOK

LEMMA OthersStep ==
  ASSUME OpenInv, OthersChange \/ OthersWrite
  PROVE  OpenInv'
<1>1. fds' = fds /\ call' = call
  BY DEF OthersChange, OthersWrite
<1>2. NamesOK'
  <2>1. ASSUME NEW e \in DirEntries \cup {Absent}, entry' = [entry EXCEPT ![Top] = e], size' = size
        PROVE  NamesOK'
    BY <2>1, SafeOpenAssumption DEF OpenInv, NamesOK, Meanings
  <2>2. ASSUME NEW d \in Dirs, NEW e \in FileEntries \cup {Absent},
               entry' = [entry EXCEPT ![d] = e], size' = size
        PROVE  NamesOK'
    BY <2>2, SafeOpenAssumption DEF OpenInv, NamesOK, Meanings
  <2>3. ASSUME NEW f \in Files, size' = [size EXCEPT ![f] = 1], entry' = entry
        PROVE  NamesOK'
    BY <2>3 DEF OpenInv, NamesOK
  <2> QED
    BY <2>1, <2>2, <2>3 DEF OthersChange, OthersWrite
<1> QED
  BY <1>1, <1>2 DEF OpenInv, FdsHeld, GoodCall

-----------------------------------------------------------------------------
LEMMA OpenInitOK == OpenInit => OpenInv
<1> SUFFICES ASSUME OpenInit PROVE OpenInv
  OBVIOUS
<1>1. NamesOK
  BY DEF OpenInit, NamesOK, Meanings
<1>2. FdsHeld
  BY DEF OpenInit, FdsHeld, Held
<1> QED
  BY <1>1, <1>2 DEF OpenInit, OpenInv

LEMMA OpenStepOK == OpenInv /\ [OpenNext]_openVars => OpenInv'
<1> SUFFICES ASSUME OpenInv, [OpenNext]_openVars PROVE OpenInv'
  OBVIOUS
<1>1. CASE UNCHANGED openVars
  BY <1>1 DEF openVars, OpenInv, NamesOK, FdsHeld, GoodCall
<1>2. CASE OpenNext
  BY <1>2, SafeOpenStep, StatStep, OpenDirStep, OpenLeafStep, CheckStep,
     TruncateStep, OpenReturnStep, OthersStep DEF OpenNext, OpenSteps
<1> QED
  BY <1>1, <1>2

\* The inductive invariant holds of every reachable state of safe_open.
THEOREM OpenInvariant == OpenSpec => []OpenInv
  BY OpenInitOK, OpenStepOK, PTL DEF OpenSpec

\* Whatever fails, whatever other processes do and however often it retries, a
\* call holds one descriptor while it runs and none when it has failed.
THEOREM DescriptorsAreBalanced == OpenSpec => []DescriptorsBalanced
<1>1. OpenInv => DescriptorsBalanced
  <2> SUFFICES ASSUME OpenInv PROVE DescriptorsBalanced
    OBVIOUS
  <2>1. fds \in [{Top} \cup Dirs \cup Files -> Nat]
    BY DEF OpenInv, FdsHeld, Held
  <2>2. OpenTypeOK
    BY <2>1 DEF OpenInv, NamesOK, OpenTypeOK, GoodCall, CallFits
  <2>3. DOMAIN fds = {Top} \cup Dirs \cup Files
    BY <2>1
  <2>4. fds = [o \in DOMAIN fds |->
           IF call # NoCall /\ call.pc # "failed" /\ call.at = o THEN 1 ELSE 0]
    BY <2>3 DEF OpenInv, FdsHeld, Held
  <2> QED
    BY <2>2, <2>4 DEF DescriptorsBalanced
<1> QED
  BY <1>1, OpenInvariant, PTL

\* However the names change between fstatat and openat and however often it starts
\* again with other flags, safe_open answers as open would: O_EXCL gives a file that
\* this call made, nothing is made without O_CREAT, and EEXIST and, for the last
\* component, ENOENT are given only for the flags that open gives them for.
THEOREM AnswersAreOpens == OpenSpec => []AnswersLikeOpen
<1>1. OpenInv => AnswersLikeOpen
  <2> SUFFICES ASSUME OpenInv, call # NoCall
               PROVE  /\ call.made => "creat" \in call.orig
                      /\ call.pc = "opened" /\ "excl" \in call.orig => call.made
                      /\ call.errno = "EEXIST" => "excl" \in call.orig
                      /\ call.errno = "ENOENT" /\ Leaf => "creat" \notin call.orig
    BY DEF AnswersLikeOpen
  <2>1. CallFits(call) /\ Answers(call)
    BY DEF OpenInv, GoodCall
  <2>2. call.pc = "opened" => call.at \in Files
    BY <2>1 DEF CallFits
  <2> QED BY <2>1, <2>2 DEF Answers, Leaf
<1> QED
  BY <1>1, OpenInvariant, PTL

-----------------------------------------------------------------------------
\* A step of safe_open or of anybody else empties a file only if the call created
\* it just now, or was asked to truncate it, has checked it and returns it.
THEOREM EmptiesOnlyReturned == OpenSpec => EmptiesOnlyWhatItReturns
<1> DEFINE Empties == \A f \in Files : size[f] = 1 /\ size'[f] = 0 =>
                         /\ call' # NoCall /\ call'.at = f
                         /\ call'.made \/ (call'.pc = "opened" /\ "trunc" \in call'.orig)
<1>1. OpenInv /\ [OpenNext]_openVars => [Empties]_openVars
  <2> SUFFICES ASSUME OpenInv, OpenNext, OpenInv', NEW f \in Files, size[f] = 1, size'[f] = 0
               PROVE  /\ call' # NoCall /\ call'.at = f
                      /\ call'.made \/ (call'.pc = "opened" /\ "trunc" \in call'.orig)
    BY OpenStepOK
  <2>1. size \in [Files -> 0..1] /\ size' # size
    BY DEF OpenInv, NamesOK
  <2>2. CASE OpenLeaf
    <3>0. call # NoCall /\ call.pc = "open" /\ call.at # Top
      BY <2>2 DEF OpenLeaf, Leaf
    <3>1. call \in Calls
      BY <3>0 DEF OpenInv, GoodCall
    <3>2. PICK g \in Files : size' = [size EXCEPT ![g] = 0] /\ Advance(g, TRUE)
      <4>1. ~(call.before # Absent /\ {"creat", "excl"} \subseteq call.flags) /\ openat(FlagsNow)
        BY <2>1, <2>2 DEF OpenLeaf
      <4>2. "trunc" \notin FlagsNow
        BY <3>0, <4>1, FlagsNowAre
      <4> QED BY <2>1, <4>1, <4>2 DEF openat
    <3>3. g = f
      BY <2>1, <3>2
    <3>4. call'.at = g /\ call'.made = TRUE
      BY <3>1, <3>2 DEF Advance, Calls
    <3>5. fds' = Opened(Closed(fds, call.at), g)
      BY <3>2 DEF Advance
    <3>6. fds'[g] = 1
      <4> DEFINE S == {Top} \cup Dirs \cup Files
      <4>1. call.at \in S /\ g \in S /\ call.pc # "failed"
        BY <3>0, <3>1 DEF Calls
      <4>2. fds \in [S -> 0..1] /\ \A o \in S : fds[o] = IF call.at = o THEN 1 ELSE 0
        BY <3>0, <4>1 DEF OpenInv, FdsHeld, Held
      <4> HIDE DEF S
      <4> QED
        BY <3>5, <4>1, <4>2 DEF Opened, Closed
    <3>7. call' # NoCall
      BY <3>6 DEF OpenInv, FdsHeld, Held
    <3> QED
      BY <3>3, <3>4, <3>7
  <2>4. CASE Truncate
    <3>1. call # NoCall /\ call \in Calls /\ CallFits(call)
      BY <2>4 DEF Truncate, OpenInv, GoodCall
    <3>2. /\ call.trunc /\ size' = [size EXCEPT ![call.at] = 0]
          /\ call' = [call EXCEPT !.pc = "opened"]
      BY <2>1, <2>4 DEF Truncate
    <3>3. call.at = f /\ "trunc" \in call.orig
      BY <2>1, <3>1, <3>2 DEF CallFits
    <3>4. call' \in Calls /\ call'.at = f /\ call'.pc = "opened" /\ "trunc" \in call'.orig
      BY <3>1, <3>2, <3>3 DEF Calls
    <3> QED
      BY <3>4, SafeOpenAssumption
  <2>5. CASE OthersWrite
    <3>1. PICK g \in Files : size' = [size EXCEPT ![g] = 1]
      BY <2>5 DEF OthersWrite
    <3> QED
      BY <2>1, <3>1
  <2>6. CASE size' = size
    BY <2>1, <2>6
  <2> QED
    BY <2>2, <2>4, <2>5, <2>6
    DEF OpenNext, OpenSteps, safe_open, Stat, OpenDir, Check, OpenReturn, OthersChange
<1> QED
  BY <1>1, OpenInvariant, PTL DEF OpenSpec, EmptiesOnlyWhatItReturns

-----------------------------------------------------------------------------
(***************************************************************************)
(* File locks.                                                             *)
(***************************************************************************)
LockKinds == Kinds \cup {"none"}

\* The system holds for a process the lock its FileLock stands for and no other.
KernelAgrees ==
  \A p \in Procs, f \in LockFiles : kernel[p][f] = IF lock[p] = f THEN mode[p] ELSE "none"

\* Nobody else has any lock on a file of which a process has an exclusive one.
KernelExclusion ==
  \A p, q \in Procs, f \in LockFiles :
    p # q /\ kernel[p][f] = "exclusive" => kernel[q][f] = "none"

\* A FileLock without a descriptor holds nothing, one with a descriptor has it
\* open, and a process waits for the file its FileLock has open.
DescriptorsKnown ==
  \A p \in Procs :
    /\ lock[p] = NoFile => mode[p] = "none"
    /\ lock[p] # NoFile => nfds[p][lock[p]] > 0
    /\ waiting[p] # NoFile => lock[p] = waiting[p].file

LockInv == LockTypeOK /\ KernelAgrees /\ KernelExclusion /\ DescriptorsKnown

-----------------------------------------------------------------------------
\* The types of what a process has.
LEMMA LockFields ==
  ASSUME LockTypeOK, NEW p \in Procs
  PROVE  /\ lock[p] \in LockFiles \cup {NoFile}
         /\ mode[p] \in LockKinds
         /\ \A f \in LockFiles : kernel[p][f] \in LockKinds /\ nfds[p][f] \in 0..MAX_FDS
         /\ waiting[p] # NoFile => waiting[p].file \in LockFiles /\ waiting[p].kind \in Kinds
  BY DEF LockTypeOK, LockKinds

\* A request that meets no conflict, fcntl's answer to LockFD and to a wait that
\* ends, keeps the locks of different processes compatible.
LEMMA NoConflict ==
  ASSUME LockInv, NEW p \in Procs, NEW f \in LockFiles, NEW kind \in Kinds,
         Conflicts(p, f, kind) = {}, SetLock(p, f, kind)
  PROVE  KernelExclusion'
<1> SUFFICES ASSUME NEW a \in Procs, NEW b \in Procs, NEW g \in LockFiles,
                    a # b, kernel'[a][g] = "exclusive"
             PROVE  kernel'[b][g] = "none"
  BY DEF KernelExclusion
<1>1. kernel \in [Procs -> [LockFiles -> LockKinds]]
  BY DEF LockInv, LockTypeOK, LockKinds
<1>2. kernel' = [kernel EXCEPT ![p][f] = kind]
  BY DEF SetLock
<1>3. \A q \in Procs, h \in LockFiles :
        kernel'[q][h] = IF q = p /\ h = f THEN kind ELSE kernel[q][h]
  BY <1>1, <1>2
<1>4. \A q \in Procs : q # p =>
        kernel[q][f] # "exclusive" /\ (kernel[q][f] = "shared" => kind # "exclusive")
  BY DEF Conflicts
<1>5. \A q \in Procs : kernel[q][f] \in {"shared", "exclusive", "none"}
  BY <1>1 DEF LockKinds, Kinds
<1>6. kernel[a][g] = "exclusive" => kernel[b][g] = "none"
  BY DEF LockInv, KernelExclusion
<1> QED
  BY <1>3, <1>4, <1>5, <1>6

\* What SetLock, LockFD's success, does to the agreement of kernel and FileLock.
LEMMA SetLockAgrees ==
  ASSUME LockInv, NEW p \in Procs, NEW f \in LockFiles, NEW kind \in Kinds,
         lock[p] \in {f, NoFile}, SetLock(p, f, kind), lock' = [lock EXCEPT ![p] = f]
  PROVE  KernelAgrees' /\ mode' \in [Procs -> LockKinds] /\ kernel' \in [Procs -> [LockFiles -> LockKinds]]
<1>1. /\ lock \in [Procs -> LockFiles \cup {NoFile}] /\ mode \in [Procs -> LockKinds]
      /\ kernel \in [Procs -> [LockFiles -> LockKinds]] /\ kind \in LockKinds
  BY DEF LockInv, LockTypeOK, LockKinds
<1>2. kernel' = [kernel EXCEPT ![p][f] = kind] /\ mode' = [mode EXCEPT ![p] = kind]
  BY DEF SetLock
<1>3. \A q \in Procs : /\ lock'[q] = IF q = p THEN f ELSE lock[q]
                       /\ mode'[q] = IF q = p THEN kind ELSE mode[q]
  BY <1>1, <1>2
<1>4. \A q \in Procs, h \in LockFiles :
        kernel'[q][h] = IF q = p /\ h = f THEN kind ELSE kernel[q][h]
  BY <1>1, <1>2
<1>5. \A h \in LockFiles : h # f => kernel[p][h] = "none"
  BY FileLockAssumption DEF LockInv, KernelAgrees
<1>6. \A q \in Procs, h \in LockFiles : kernel[q][h] = IF lock[q] = h THEN mode[q] ELSE "none"
  BY DEF LockInv, KernelAgrees
<1>7. KernelAgrees'
  BY <1>3, <1>4, <1>5, <1>6 DEF KernelAgrees
<1> QED
  BY <1>1, <1>2, <1>7

\* LockFD when the FileLock has the file open, or has none and opens it.
LEMMA LockFDStep ==
  ASSUME LockInv, NEW p \in Procs, NEW f \in LockFiles, NEW kind \in Kinds,
         NEW wait \in BOOLEAN, NEW path \in BOOLEAN, Idle(p),
         \/ lock[p] = f /\ ~path /\ nfds' = nfds
         \/ lock[p] = NoFile /\ path /\ nfds[p][f] < MAX_FDS
              /\ nfds' = [nfds EXCEPT ![p][f] = @ + 1],
         LockFD(p, f, kind, wait, path), writable' \in [Procs -> BOOLEAN]
  PROVE  LockInv'
<1>1. /\ lock \in [Procs -> LockFiles \cup {NoFile}] /\ mode \in [Procs -> LockKinds]
      /\ kernel \in [Procs -> [LockFiles -> LockKinds]]
      /\ nfds \in [Procs -> [LockFiles -> 0..MAX_FDS]]
      /\ waiting \in [Procs -> [file : LockFiles, kind : Kinds] \cup {NoFile}]
  BY DEF LockInv, LockTypeOK, LockKinds
<1>2. f # NoFile /\ MAX_FDS \in Nat
  BY FileLockAssumption
<1>3. lock[p] \in {f, NoFile}
  OBVIOUS
<1>4. /\ nfds' \in [Procs -> [LockFiles -> 0..MAX_FDS]] /\ nfds'[p][f] > 0
      /\ \A q \in Procs, h \in LockFiles : nfds[q][h] > 0 => nfds'[q][h] > 0
  <2>1. CASE lock[p] = f /\ nfds' = nfds
    <3>1. nfds[p][f] > 0
      BY <2>1, <1>2 DEF LockInv, DescriptorsKnown
    <3> QED
      BY <2>1, <3>1, <1>1
  <2>2. CASE nfds[p][f] < MAX_FDS /\ nfds' = [nfds EXCEPT ![p][f] = @ + 1]
    <3>1. nfds[p][f] \in 0..MAX_FDS
      BY <1>1
    <3>2. \A q \in Procs, h \in LockFiles :
            nfds'[q][h] = IF q = p /\ h = f THEN nfds[p][f] + 1 ELSE nfds[q][h]
      BY <2>2, <1>1
    <3>3. nfds[p][f] + 1 \in 0..MAX_FDS /\ nfds[p][f] + 1 > 0
      BY <3>1, <2>2, <1>2
    <3>4. nfds' \in [Procs -> [LockFiles -> 0..MAX_FDS]]
      BY <2>2, <3>3, <1>1
    <3> QED
      BY <3>2, <3>3, <3>4
  <2> QED
    BY <2>1, <2>2
<1>5. CASE /\ Conflicts(p, f, kind) = {} /\ SetLock(p, f, kind)
           /\ lock' = [lock EXCEPT ![p] = f] /\ waiting' = waiting
  <2>1. KernelExclusion'
    BY <1>5, NoConflict
  <2>2. KernelAgrees' /\ mode' \in [Procs -> LockKinds] /\ kernel' \in [Procs -> [LockFiles -> LockKinds]]
    BY <1>5, <1>3, SetLockAgrees
  <2>3. LockTypeOK'
    BY <1>1, <1>4, <1>5, <2>2 DEF LockTypeOK, LockKinds
  <2>4. DescriptorsKnown'
    <3> SUFFICES ASSUME NEW q \in Procs
                 PROVE  /\ lock'[q] = NoFile => mode'[q] = "none"
                        /\ lock'[q] # NoFile => nfds'[q][lock'[q]] > 0
                        /\ waiting'[q] # NoFile => lock'[q] = waiting'[q].file
      BY DEF DescriptorsKnown
    <3>1. CASE q = p
      <4>1. lock'[p] = f /\ waiting'[p] = NoFile
        BY <1>1, <1>5 DEF Idle
      <4> QED
        BY <3>1, <4>1, <1>2, <1>4
    <3>2. CASE q # p
      <4>1. lock'[q] = lock[q] /\ mode'[q] = mode[q] /\ waiting'[q] = waiting[q]
        BY <3>2, <1>1, <1>5 DEF SetLock
      <4>2. lock[q] \in LockFiles \cup {NoFile}
        BY <1>1
      <4> QED
        BY <4>1, <4>2, <1>4 DEF LockInv, DescriptorsKnown
    <3> QED
      BY <3>1, <3>2
  <2> QED
    BY <2>1, <2>2, <2>3, <2>4 DEF LockInv
<1>6. CASE /\ waiting' = [waiting EXCEPT ![p] = [file |-> f, kind |-> kind]]
           /\ lock' = [lock EXCEPT ![p] = f] /\ kernel' = kernel /\ mode' = mode
  <2>1. LockTypeOK'
    BY <1>1, <1>4, <1>6 DEF LockTypeOK, LockKinds
  <2>2. \A q \in Procs : lock'[q] = IF q = p THEN f ELSE lock[q]
    BY <1>1, <1>6
  <2>3. lock[p] = NoFile => mode[p] = "none"
    BY DEF LockInv, DescriptorsKnown
  <2>4. KernelAgrees'
    BY <1>2, <1>3, <1>6, <2>2, <2>3 DEF LockInv, KernelAgrees
  <2>5. DescriptorsKnown'
    <3> SUFFICES ASSUME NEW q \in Procs
                 PROVE  /\ lock'[q] = NoFile => mode'[q] = "none"
                        /\ lock'[q] # NoFile => nfds'[q][lock'[q]] > 0
                        /\ waiting'[q] # NoFile => lock'[q] = waiting'[q].file
      BY DEF DescriptorsKnown
    <3>1. CASE q = p
      <4>1. lock'[p] = f /\ waiting'[p].file = f
        BY <1>1, <1>6
      <4> QED
        BY <3>1, <4>1, <1>2, <1>4
    <3>2. CASE q # p
      <4>1. lock'[q] = lock[q] /\ mode'[q] = mode[q] /\ waiting'[q] = waiting[q]
        BY <3>2, <1>1, <1>6
      <4>2. lock[q] \in LockFiles \cup {NoFile}
        BY <1>1
      <4> QED
        BY <4>1, <4>2, <1>4 DEF LockInv, DescriptorsKnown
    <3> QED
      BY <3>1, <3>2
  <2> QED
    BY <1>6, <2>1, <2>4, <2>5 DEF LockInv, KernelExclusion
<1>7. CASE /\ lock' = [lock EXCEPT ![p] = IF path THEN NoFile ELSE f]
           /\ kernel' = kernel /\ mode' = mode /\ waiting' = waiting
  <2>1. lock' = lock
    BY <1>1, <1>7
  <2>2. LockTypeOK'
    BY <1>1, <1>4, <1>7, <2>1 DEF LockTypeOK, LockKinds
  <2>3. DescriptorsKnown'
    <3> SUFFICES ASSUME NEW q \in Procs
                 PROVE  lock[q] # NoFile => nfds'[q][lock[q]] > 0
      BY <1>7, <2>1 DEF LockInv, DescriptorsKnown
    <3>1. lock[q] \in LockFiles \cup {NoFile}
      BY <1>1
    <3> QED
      BY <3>1, <1>4 DEF LockInv, DescriptorsKnown
  <2> QED
    BY <1>7, <2>1, <2>2, <2>3 DEF LockInv, KernelAgrees, KernelExclusion
<1> QED
  BY <1>5, <1>6, <1>7 DEF LockFD

-----------------------------------------------------------------------------
\* ExclusiveFileLock, SharedFileLock and their Path variants keep the invariant.
LEMMA LockOpenFileStep ==
  ASSUME LockInv, NEW p \in Procs, NEW kind \in Kinds, NEW wait \in BOOLEAN,
         LockOpenFile(p, kind, wait)
  PROVE  LockInv'
<1>1. lock[p] \in LockFiles
  BY LockFields DEF LockInv, LockOpenFile
<1>2. Idle(p) /\ LockFD(p, lock[p], kind, wait, FALSE) /\ nfds' = nfds
  BY DEF LockOpenFile
<1>3. writable' \in [Procs -> BOOLEAN]
  BY DEF LockOpenFile, LockInv, LockTypeOK
<1> QED
  BY <1>1, <1>2, <1>3, LockFDStep

LEMMA LockPathStep ==
  ASSUME LockInv, NEW p \in Procs, NEW f \in LockFiles, NEW kind \in Kinds,
         NEW wait \in BOOLEAN, LockPath(p, f, kind, wait)
  PROVE  LockInv'
<1>1. writable' \in [Procs -> BOOLEAN]
  <2>1. (kind = "exclusive" /\ lock'[p] # NoFile) \in BOOLEAN
    OBVIOUS
  <2>2. writable \in [Procs -> BOOLEAN]
    BY DEF LockInv, LockTypeOK
  <2>3. writable' = [writable EXCEPT ![p] = kind = "exclusive" /\ lock'[p] # NoFile]
    BY DEF LockPath
  <2> QED
    BY <2>1, <2>2, <2>3, Zenon
<1>2. nfds[p][f] < MAX_FDS
  <2>1. nfds[p][f] + (IF f = f THEN 0 ELSE nfds[p][f]) < MAX_FDS
    BY DEF LockPath, MayOpen
  <2>2. nfds[p][f] \in Nat
    BY LockFields DEF LockInv
  <2> QED
    BY <2>1, <2>2
<1> QED
  BY <1>1, <1>2, LockFDStep DEF LockPath

\* The end of a wait keeps it: the file is the one the FileLock has open.
LEMMA GrantedStep ==
  ASSUME LockInv, NEW p \in Procs, Granted(p)
  PROVE  LockInv'
<1> DEFINE f == waiting[p].file
           kind == waiting[p].kind
<1>1. waiting[p] # NoFile /\ Conflicts(p, f, kind) = {} /\ SetLock(p, f, kind)
  BY DEF Granted, Idle
<1>2. f \in LockFiles /\ kind \in Kinds /\ lock[p] = f
  BY <1>1, LockFields DEF LockInv, DescriptorsKnown
<1>3. /\ waiting' = [waiting EXCEPT ![p] = NoFile] /\ lock' = lock /\ nfds' = nfds
      /\ writable' = writable
  BY DEF Granted
<1> HIDE DEF f, kind
<1>4. KernelExclusion'
  BY <1>1, <1>2, NoConflict
<1>5. lock' = [lock EXCEPT ![p] = f]
  BY <1>2, <1>3 DEF LockInv, LockTypeOK
<1>6. KernelAgrees' /\ mode' \in [Procs -> LockKinds] /\ kernel' \in [Procs -> [LockFiles -> LockKinds]]
  BY <1>1, <1>2, <1>5, SetLockAgrees
<1>7. LockTypeOK'
  BY <1>3, <1>6 DEF LockInv, LockTypeOK, LockKinds
<1>8. DescriptorsKnown'
  <2>1. \A q \in Procs : waiting'[q] = IF q = p THEN NoFile ELSE waiting[q]
    BY <1>3 DEF LockInv, LockTypeOK
  <2>2. \A q \in Procs : q # p => mode'[q] = mode[q]
    BY <1>1 DEF LockInv, LockTypeOK, SetLock
  <2>3. lock[p] # NoFile
    BY <1>2, FileLockAssumption
  <2> QED
    BY <1>3, <2>1, <2>2, <2>3 DEF LockInv, DescriptorsKnown
<1> QED
  BY <1>4, <1>6, <1>7, <1>8 DEF LockInv

\* ExclusiveFileUnlock and SharedFileUnlock keep it, with and without close_fd.
LEMMA FileUnlockStep ==
  ASSUME LockInv, NEW p \in Procs, NEW close_fd \in BOOLEAN, FileUnlock(p, close_fd)
  PROVE  LockInv'
<1> DEFINE f == lock[p]
<1>1. /\ lock \in [Procs -> LockFiles \cup {NoFile}] /\ mode \in [Procs -> LockKinds]
      /\ kernel \in [Procs -> [LockFiles -> LockKinds]]
      /\ nfds \in [Procs -> [LockFiles -> 0..MAX_FDS]]
      /\ waiting \in [Procs -> [file : LockFiles, kind : Kinds] \cup {NoFile}]
  BY DEF LockInv, LockTypeOK, LockKinds
<1>2. f \in LockFiles /\ f # NoFile /\ waiting[p] = NoFile
  BY <1>1 DEF FileUnlock, Idle
<1>3. /\ kernel' = [kernel EXCEPT ![p][f] = "none"] /\ mode' = [mode EXCEPT ![p] = "none"]
      /\ waiting' = waiting
  BY DEF FileUnlock
<1>4. \/ nfds' = nfds /\ lock' = lock
      \/ nfds' = [nfds EXCEPT ![p][f] = @ - 1] /\ lock' = [lock EXCEPT ![p] = NoFile]
  BY DEF FileUnlock
<1>5. nfds[p][f] > 0 /\ nfds[p][f] \in 0..MAX_FDS /\ MAX_FDS \in Nat
  BY <1>1, <1>2, FileLockAssumption DEF LockInv, DescriptorsKnown
<1>6. \A q \in Procs, h \in LockFiles :
        kernel[q][h] = IF lock[q] = h THEN mode[q] ELSE "none"
  BY DEF LockInv, KernelAgrees
<1> HIDE DEF f
<1>7. \A q \in Procs, h \in LockFiles :
        /\ kernel'[q][h] = IF q = p /\ h = f THEN "none" ELSE kernel[q][h]
        /\ mode'[q] = IF q = p THEN "none" ELSE mode[q]
  BY <1>1, <1>2, <1>3
<1>8. lock' \in [Procs -> LockFiles \cup {NoFile}] /\ nfds' \in [Procs -> [LockFiles -> 0..MAX_FDS]]
  <2>1. nfds[p][f] - 1 \in 0..MAX_FDS
    BY <1>5
  <2>2. CASE nfds' = nfds /\ lock' = lock
    BY <2>2, <1>1
  <2>3. CASE nfds' = [nfds EXCEPT ![p][f] = @ - 1] /\ lock' = [lock EXCEPT ![p] = NoFile]
    <3>1. [nfds[p] EXCEPT ![f] = @ - 1] \in [LockFiles -> 0..MAX_FDS]
      BY <1>1, <2>1
    <3>2. nfds' = [nfds EXCEPT ![p] = [nfds[p] EXCEPT ![f] = @ - 1]]
      BY <2>3, <1>1
    <3> QED
      BY <2>3, <1>1, <3>1, <3>2
  <2> QED
    BY <1>4, <2>2, <2>3
<1>9. LockTypeOK'
  <2>1. kernel' \in [Procs -> [LockFiles -> LockKinds]] /\ mode' \in [Procs -> LockKinds]
    BY <1>1, <1>3 DEF LockKinds
  <2>2. writable' \in [Procs -> BOOLEAN]
    <3>1. writable \in [Procs -> BOOLEAN]
      BY DEF LockInv, LockTypeOK
    <3>2. (writable[p] /\ ~close_fd) \in BOOLEAN
      OBVIOUS
    <3>3. writable' = [writable EXCEPT ![p] = writable[p] /\ ~close_fd]
      BY DEF FileUnlock
    <3> QED
      BY <3>1, <3>2, <3>3, Zenon
  <2> QED
    BY <1>1, <1>3, <1>8, <2>1, <2>2 DEF LockTypeOK, LockKinds
<1>10. \A q \in Procs : q # p => lock'[q] = lock[q]
  BY <1>1, <1>4
<1>11. lock'[p] = f \/ lock'[p] = NoFile
  BY <1>1, <1>4 DEF f
<1>12. KernelAgrees'
  <2> SUFFICES ASSUME NEW q \in Procs, NEW h \in LockFiles
               PROVE  kernel'[q][h] = IF lock'[q] = h THEN mode'[q] ELSE "none"
    BY DEF KernelAgrees
  <2>1. CASE q = p
    BY <2>1, <1>6, <1>7, <1>11, <1>2 DEF f
  <2>2. CASE q # p
    BY <2>2, <1>6, <1>7, <1>10
  <2> QED
    BY <2>1, <2>2
<1>13. KernelExclusion'
  BY <1>7, <1>2 DEF LockInv, KernelExclusion
<1>14. DescriptorsKnown'
  <2> SUFFICES ASSUME NEW q \in Procs
               PROVE  /\ lock'[q] = NoFile => mode'[q] = "none"
                      /\ lock'[q] # NoFile => nfds'[q][lock'[q]] > 0
                      /\ waiting'[q] # NoFile => lock'[q] = waiting'[q].file
    BY DEF DescriptorsKnown
  <2>1. CASE q = p
    <3>1. mode'[p] = "none" /\ waiting'[p] = NoFile
      BY <1>7, <1>2, <1>3
    <3>2. lock'[p] # NoFile => nfds'[p][lock'[p]] > 0
      BY <1>1, <1>4, <1>5 DEF f
    <3> QED
      BY <2>1, <3>1, <3>2
  <2>2. CASE q # p
    <3>1. lock'[q] = lock[q] /\ mode'[q] = mode[q] /\ waiting'[q] = waiting[q]
      BY <2>2, <1>2, <1>3, <1>7, <1>10
    <3>2. lock[q] \in LockFiles => nfds'[q][lock[q]] = nfds[q][lock[q]]
      BY <2>2, <1>1, <1>4
    <3>3. lock[q] \in LockFiles \cup {NoFile}
      BY <1>1
    <3> QED
      BY <3>1, <3>2, <3>3 DEF LockInv, DescriptorsKnown
  <2> QED
    BY <2>1, <2>2
<1> QED
  BY <1>9, <1>12, <1>13, <1>14 DEF LockInv

-----------------------------------------------------------------------------
\* The inductive invariant holds of every reachable state of the lock operations.
THEOREM LockInvariant == LockSpec => []LockInv
<1>1. LockInit => LockInv
  <2> SUFFICES ASSUME LockInit PROVE LockInv
    OBVIOUS
  <2>1. LockTypeOK
    BY FileLockAssumption DEF LockInit, LockTypeOK, Kinds
  <2>2. KernelAgrees /\ KernelExclusion
    BY DEF LockInit, KernelAgrees, KernelExclusion
  <2>3. DescriptorsKnown
    BY DEF LockInit, DescriptorsKnown
  <2> QED
    BY <2>1, <2>2, <2>3 DEF LockInv
<1>2. LockInv /\ [LockNext]_lockVars => LockInv'
  <2> SUFFICES ASSUME LockInv, [LockNext]_lockVars PROVE LockInv'
    OBVIOUS
  <2>1. CASE UNCHANGED lockVars
    BY <2>1 DEF lockVars, LockInv, LockTypeOK, KernelAgrees, KernelExclusion, DescriptorsKnown
  <2>2. CASE LockNext
    <3>1. PICK p \in Procs :
            \/ Granted(p)
            \/ \E close_fd \in BOOLEAN : FileUnlock(p, close_fd)
            \/ \E kind \in Kinds, wait \in BOOLEAN :
                 \/ LockOpenFile(p, kind, wait)
                 \/ \E f \in LockFiles : LockPath(p, f, kind, wait)
      BY <2>2 DEF LockNext
    <3> QED
      BY <3>1, GrantedStep, FileUnlockStep, LockOpenFileStep, LockPathStep
  <2> QED
    BY <2>1, <2>2
<1> QED
  BY <1>1, <1>2, PTL DEF LockSpec

\* In every state of the inductive invariant two processes that were told they
\* have the lock of one file have shared locks, and ExclusiveFileLockCheck says
\* exactly whether another process was told so.
LEMMA LockInvExclusion == LockInv => LockExclusion
<1> SUFFICES ASSUME LockInv PROVE LockExclusion
  OBVIOUS
<1>1. \A q \in Procs, h \in LockFiles : kernel[q][h] = IF lock[q] = h THEN mode[q] ELSE "none"
  BY DEF LockInv, KernelAgrees
<1>2. ASSUME NEW p \in Procs, lock[p] # NoFile
      PROVE  LET others == {q \in Procs \ {p} : lock[q] = lock[p] /\ mode[q] # "none"}
             IN  /\ mode[p] = "exclusive" => others = {}
                 /\ ExclusiveFileLockCheck(p) <=> others = {}
  <2> DEFINE others == {q \in Procs \ {p} : lock[q] = lock[p] /\ mode[q] # "none"}
  <2>1. lock[p] \in LockFiles
    BY <1>2, LockFields DEF LockInv
  <2>2. kernel[p][lock[p]] = mode[p]
    BY <1>1, <2>1
  <2>3. \A q \in Procs : q \in others <=> q # p /\ kernel[q][lock[p]] # "none"
    BY <1>1, <2>1
  <2>4. mode[p] = "exclusive" => others = {}
    BY <2>1, <2>2, <2>3 DEF LockInv, KernelExclusion
  <2>5. \A q \in Procs : kernel[q][lock[p]] \in {"shared", "exclusive", "none"}
    BY <2>1, LockFields DEF LockInv, LockKinds, Kinds
  <2>6. Conflicts(p, lock[p], "exclusive") = others
    BY <2>3, <2>5 DEF Conflicts
  <2> QED
    BY <2>4, <2>6 DEF ExclusiveFileLockCheck
<1> QED
  BY <1>1, <1>2 DEF LockInv, LockExclusion

\* Processes that were told they have a lock exclude each other, and the system
\* holds no lock that nobody can release, after any sequence of requests, waits,
\* refusals and releases of any number of processes.
THEOREM LocksExclude == LockSpec => []LockExclusion
  BY LockInvariant, LockInvExclusion, PTL

-----------------------------------------------------------------------------
(***************************************************************************)
(* Cleanup functions.                                                      *)
(***************************************************************************)
CleanupTypeOK ==
  /\ registered \in Nat
  /\ fns \in Seq([id : Nat, kind : CleanupKinds])
  /\ called \in Seq([id : Nat, by : CleanupThreads])
  /\ holder \in CleanupThreads \cup {Nobody}
  /\ at \in [CleanupThreads -> {"run", "lock", "call", "stuck", "exit", "exited"}]

\* The mutex is held exactly by the thread that calls functions.
HolderCalls == \A t \in CleanupThreads : holder = t <=> at[t] \in {"call", "stuck"}

\* The list is in the reverse order of the registrations.
NewestFirst == \A i, j \in 1..Len(fns) : i < j => fns[i].id > fns[j].id

\* A function is in the list or was called, and there are no others.
Accounted ==
  /\ \A i \in 1..Len(called) : called[i].id \in 1..registered
  /\ \A k \in 1..Len(fns) : fns[k].id \in 1..registered
  /\ \A n \in 1..registered : \/ \E i \in 1..Len(called) : called[i].id = n
                              \/ \E k \in 1..Len(fns) : fns[k].id = n

CalledOnce ==
  \A i, j \in 1..Len(called) : i < j =>
     /\ called[i].id # called[j].id
     /\ called[i].by = called[j].by => called[i].id > called[j].id

\* What a thread has called before it starts is nothing, and what it has called
\* while it goes through the list is newer than the rest of the list.
CalledSoFar ==
  \A t \in CleanupThreads :
    /\ at[t] \in {"run", "lock"} => \A i \in 1..Len(called) : called[i].by # t
    /\ at[t] = "call" => \A i \in 1..Len(called), k \in 1..Len(fns) :
                           called[i].by = t => called[i].id > fns[k].id

\* Only the function in which a thread is stuck is both called and in the list.
CalledGone ==
  (\A t \in CleanupThreads : at[t] # "stuck") =>
    \A i \in 1..Len(called), k \in 1..Len(fns) : called[i].id # fns[k].id

CleanupInv ==
  /\ CleanupTypeOK /\ HolderCalls /\ NewestFirst
  /\ Accounted /\ CalledOnce /\ CalledSoFar /\ CalledGone

-----------------------------------------------------------------------------
\* The steps of a thread that touch neither the list nor what was called.
LEMMA QuietStep ==
  ASSUME CleanupInv, NEW t \in CleanupThreads, NEW to,
         to \in {"lock", "call", "exit", "exited"},
         at[t] # "stuck",
         to = "lock" => at[t] = "run",
         to = "call" => at[t] = "lock",
         at' = [at EXCEPT ![t] = to],
         UNCHANGED <<fns, registered, called>>,
         holder' \in CleanupThreads \cup {Nobody},
         HolderCalls'
  PROVE  CleanupInv'
<1>1. at \in [CleanupThreads -> {"run", "lock", "call", "stuck", "exit", "exited"}]
  BY DEF CleanupInv, CleanupTypeOK
<1>2. \A u \in CleanupThreads : at'[u] = IF u = t THEN to ELSE at[u]
  BY <1>1
<1>3. CleanupTypeOK'
  BY <1>1 DEF CleanupInv, CleanupTypeOK
<1>4. NewestFirst' /\ Accounted' /\ CalledOnce'
  BY DEF CleanupInv, NewestFirst, Accounted, CalledOnce
<1>5. CalledSoFar'
  BY <1>2 DEF CleanupInv, CalledSoFar
<1>6. CalledGone'
  <2>1. (\A u \in CleanupThreads : at'[u] # "stuck") => \A u \in CleanupThreads : at[u] # "stuck"
    BY <1>2
  <2> QED
    BY <2>1 DEF CleanupInv, CalledGone
<1> QED
  BY <1>3, <1>4, <1>5, <1>6 DEF CleanupInv

\* RegisterCleanupFunction, which needs the mutex: nobody is going through the
\* list, so the new function is newer than everything that was called.
LEMMA RegisterStep ==
  ASSUME CleanupInv, NEW t \in CleanupThreads, NEW kind \in CleanupKinds,
         RegisterCleanupFunction(t, kind)
  PROVE  CleanupInv'
<1> DEFINE new == [id |-> registered + 1, kind |-> kind]
<1>1. /\ fns' = <<new>> \o fns /\ registered' = registered + 1 /\ holder = Nobody
      /\ holder' = holder /\ at' = at /\ called' = called
  BY DEF RegisterCleanupFunction
<1>2. registered \in Nat /\ fns \in Seq([id : Nat, kind : CleanupKinds])
  BY DEF CleanupInv, CleanupTypeOK
<1>3. new \in [id : Nat, kind : CleanupKinds] /\ new.id = registered + 1
  BY <1>2
<1> HIDE DEF new
<1>4. fns' \in Seq([id : Nat, kind : CleanupKinds]) /\ Len(fns') = Len(fns) + 1 /\ Len(fns) \in Nat
  BY <1>1, <1>2, <1>3
<1>5. fns'[1] = new /\ \A k \in 1..Len(fns) : fns'[k + 1] = fns[k]
  BY <1>1, <1>2, <1>3
<1>6. \A k \in 1..Len(fns') : k = 1 \/ (k - 1 \in 1..Len(fns) /\ fns'[k] = fns[k - 1])
  <2> TAKE k \in 1..Len(fns')
  <2>1. k # 1 => k - 1 \in 1..Len(fns)
    BY <1>4
  <2>2. k # 1 => fns'[(k - 1) + 1] = fns[k - 1]
    BY <2>1, <1>5
  <2>3. (k - 1) + 1 = k
    BY <1>4
  <2> QED
    BY <2>1, <2>2, <2>3
<1>7. CleanupTypeOK'
  BY <1>1, <1>2, <1>4 DEF CleanupInv, CleanupTypeOK
<1>8. \A u \in CleanupThreads : at[u] \notin {"call", "stuck"}
  BY <1>1, CleanupAssumption DEF CleanupInv, HolderCalls
<1>9. \A k \in 1..Len(fns) : fns[k].id \in 1..registered
  BY DEF CleanupInv, Accounted
<1>10. NewestFirst'
  <2> SUFFICES ASSUME NEW i \in 1..Len(fns'), NEW j \in 1..Len(fns'), i < j
               PROVE  fns'[i].id > fns'[j].id
    BY DEF NewestFirst
  <2>1. j - 1 \in 1..Len(fns) /\ fns'[j] = fns[j - 1]
    BY <1>4, <1>6
  <2>2. CASE i = 1
    BY <2>1, <2>2, <1>2, <1>3, <1>5, <1>9
  <2>3. CASE i # 1
    <3>1. i - 1 \in 1..Len(fns) /\ fns'[i] = fns[i - 1] /\ i - 1 < j - 1
      BY <2>3, <1>4, <1>6
    <3> QED
      BY <2>1, <3>1 DEF CleanupInv, NewestFirst
  <2> QED
    BY <2>2, <2>3
<1>11. Accounted'
  <2>1. \A i \in 1..Len(called) : called[i].id \in 1..registered
    BY DEF CleanupInv, Accounted
  <2>2. \A i \in 1..Len(called') : called'[i].id \in 1..registered'
    BY <1>1, <1>2, <2>1
  <2>3. \A k \in 1..Len(fns') : fns'[k].id \in 1..registered'
    <3> TAKE k \in 1..Len(fns')
    <3>1. CASE k = 1
      BY <3>1, <1>1, <1>2, <1>3, <1>5
    <3>2. CASE k # 1
      BY <3>2, <1>1, <1>2, <1>6, <1>9
    <3> QED
      BY <3>1, <3>2
  <2>4. ASSUME NEW n \in 1..registered'
        PROVE  \/ \E i \in 1..Len(called') : called'[i].id = n
               \/ \E k \in 1..Len(fns') : fns'[k].id = n
    <3>1. CASE n = registered + 1
      <4>1. 1 \in 1..Len(fns') /\ fns'[1].id = n
        BY <3>1, <1>3, <1>4, <1>5
      <4> QED
        BY <4>1
    <3>2. CASE n # registered + 1
      <4>1. n \in 1..registered
        BY <3>2, <1>1, <1>2
      <4>2. CASE \E i \in 1..Len(called) : called[i].id = n
        BY <4>2, <1>1
      <4>3. ASSUME NEW k \in 1..Len(fns), fns[k].id = n
            PROVE  \E m \in 1..Len(fns') : fns'[m].id = n
        <5>1. k + 1 \in 1..Len(fns') /\ fns'[k + 1] = fns[k]
          BY <1>4, <1>5
        <5> QED
          BY <4>3, <5>1
      <4> QED
        BY <4>1, <4>2, <4>3 DEF CleanupInv, Accounted
    <3> QED
      BY <3>1, <3>2
  <2> QED
    BY <2>2, <2>3, <2>4 DEF Accounted
<1>12. CalledSoFar'
  BY <1>1, <1>8 DEF CleanupInv, CalledSoFar
<1>13. CalledGone'
  <2>1. \A i \in 1..Len(called), k \in 1..Len(fns) : called[i].id # fns[k].id
    BY <1>8 DEF CleanupInv, CalledGone
  <2>2. \A i \in 1..Len(called) : called[i].id # registered + 1
    BY <1>2 DEF CleanupInv, Accounted
  <2>3. ASSUME NEW i \in 1..Len(called), NEW k \in 1..Len(fns')
        PROVE  called[i].id # fns'[k].id
    BY <1>3, <1>5, <1>6, <2>1, <2>2
  <2> QED
    BY <1>1, <2>3 DEF CalledGone
<1> QED
  BY <1>1, <1>7, <1>10, <1>11, <1>12, <1>13 DEF CleanupInv, HolderCalls, CalledOnce

\* A function is called: it is the newest of the list, and nobody else is in the
\* list.
LEMMA CallStep ==
  ASSUME CleanupInv, NEW t \in CleanupThreads, CallFunction(t)
  PROVE  CleanupInv'
<1> DEFINE e == [id |-> Head(fns).id, by |-> t]
<1>1. /\ at[t] = "call" /\ fns # <<>> /\ called' = Append(called, e)
      /\ holder' = holder /\ registered' = registered
  BY DEF CallFunction
<1>2. /\ registered \in Nat /\ fns \in Seq([id : Nat, kind : CleanupKinds])
      /\ called \in Seq([id : Nat, by : CleanupThreads])
      /\ at \in [CleanupThreads -> {"run", "lock", "call", "stuck", "exit", "exited"}]
  BY DEF CleanupInv, CleanupTypeOK
<1>3. /\ Len(fns) \in Nat /\ Len(fns) > 0 /\ Head(fns) = fns[1]
      /\ \A k \in 1..Len(fns) : fns[k].id \in Nat
      /\ fns[1].id \in Nat
  <2>1. Len(fns) \in Nat /\ Len(fns) > 0 /\ Head(fns) = fns[1]
    BY <1>1, <1>2
  <2>2. \A k \in 1..Len(fns) : fns[k].id \in Nat
    BY <1>2 DEF CleanupInv, Accounted
  <2> QED
    BY <2>1, <2>2
<1>4. e.id = fns[1].id /\ e.by = t /\ e \in [id : Nat, by : CleanupThreads]
  BY <1>3
<1> HIDE DEF e
<1>5. /\ Len(called') = Len(called) + 1 /\ Len(called) \in Nat /\ called'[Len(called) + 1] = e
      /\ \A i \in 1..Len(called) : called'[i] = called[i]
      /\ called' \in Seq([id : Nat, by : CleanupThreads])
  BY <1>1, <1>2, <1>4
<1>6. holder = t /\ \A u \in CleanupThreads : u # t => at[u] \notin {"call", "stuck"}
  BY <1>1 DEF CleanupInv, HolderCalls
<1>7. \A i \in 1..Len(called), k \in 1..Len(fns) : called[i].id # fns[k].id
  BY <1>1, <1>6 DEF CleanupInv, CalledGone
<1>8. CalledOnce'
  <2> SUFFICES ASSUME NEW i \in 1..Len(called'), NEW j \in 1..Len(called'), i < j
               PROVE  /\ called'[i].id # called'[j].id
                      /\ called'[i].by = called'[j].by => called'[i].id > called'[j].id
    BY DEF CalledOnce
  <2>0. /\ i \in Nat /\ j \in Nat /\ 1 <= i /\ 1 <= j
        /\ i <= Len(called) + 1 /\ j <= Len(called) + 1 /\ Len(called) \in Nat
    BY <1>5
  <2>1. i \in 1..Len(called) /\ called'[i] = called[i]
    <3>1. i \in 1..Len(called)
      BY <2>0
    <3> QED
      BY <3>1, <1>5
  <2>2. CASE j = Len(called) + 1
    <3>1. called'[j].id = fns[1].id /\ called'[j].by = t
      BY <2>2, <1>4, <1>5
    <3>2. called[i].id # fns[1].id
      BY <1>3, <1>7, <2>1
    <3>3. called[i].by = t => called[i].id > fns[1].id
      BY <1>1, <1>3, <2>1 DEF CleanupInv, CalledSoFar
    <3> QED
      BY <2>1, <3>1, <3>2, <3>3
  <2>3. CASE j # Len(called) + 1
    <3>1. j \in 1..Len(called)
      BY <2>0, <2>3
    <3>2. called'[j] = called[j]
      BY <3>1, <1>5
    <3> QED
      BY <2>1, <3>1, <3>2 DEF CleanupInv, CalledOnce
  <2> QED
    BY <2>2, <2>3
<1>9. \A i \in 1..Len(called') : \/ i \in 1..Len(called) /\ called'[i] = called[i]
                                 \/ called'[i].id = fns[1].id /\ called'[i].by = t
  BY <1>4, <1>5
<1>10. CASE fns' = Tail(fns) /\ at' = at
  <2>1. /\ fns' \in Seq([id : Nat, kind : CleanupKinds]) /\ Len(fns') = Len(fns) - 1
        /\ \A k \in 1..Len(fns') : k + 1 \in 1..Len(fns) /\ fns'[k] = fns[k + 1]
    BY <1>2, <1>3, <1>10
  <2>2. CleanupTypeOK'
    BY <1>1, <1>2, <1>5, <1>10, <2>1 DEF CleanupInv, CleanupTypeOK
  <2>3. NewestFirst'
    <3> SUFFICES ASSUME NEW i \in 1..Len(fns'), NEW j \in 1..Len(fns'), i < j
                 PROVE  fns'[i].id > fns'[j].id
      BY DEF NewestFirst
    <3>1. i + 1 \in 1..Len(fns) /\ j + 1 \in 1..Len(fns) /\ i + 1 < j + 1
      BY <2>1
    <3> QED
      BY <2>1, <3>1 DEF CleanupInv, NewestFirst
  <2>4. \A k \in 1..Len(fns') : fns'[k].id < fns[1].id
    <3> TAKE k \in 1..Len(fns')
    <3>1. k + 1 \in 1..Len(fns) /\ 1 \in 1..Len(fns) /\ 1 < k + 1
      BY <1>3, <2>1
    <3>2. fns[1].id > fns[k + 1].id
      BY <3>1 DEF CleanupInv, NewestFirst
    <3>3. fns[k + 1].id \in Nat
      BY <3>1, <1>3
    <3> QED
      BY <2>1, <3>2, <3>3, <1>3
  <2>5. Accounted'
    <3>1. \A i \in 1..Len(called') : called'[i].id \in 1..registered'
      BY <1>1, <1>3, <1>9 DEF CleanupInv, Accounted
    <3>2. \A k \in 1..Len(fns') : fns'[k].id \in 1..registered'
      BY <1>1, <2>1 DEF CleanupInv, Accounted
    <3>3. ASSUME NEW n \in 1..registered'
          PROVE  \/ \E i \in 1..Len(called') : called'[i].id = n
                 \/ \E k \in 1..Len(fns') : fns'[k].id = n
      <4>1. ASSUME NEW i \in 1..Len(called), called[i].id = n
            PROVE  \E m \in 1..Len(called') : called'[m].id = n
        <5>1. i \in 1..Len(called')
          BY <1>5
        <5> QED
          BY <4>1, <5>1, <1>5
      <4>2. ASSUME NEW k \in 1..Len(fns), fns[k].id = n
            PROVE  \/ \E i \in 1..Len(called') : called'[i].id = n
                   \/ \E m \in 1..Len(fns') : fns'[m].id = n
        <5>1. CASE k = 1
          <6>1. Len(called) + 1 \in 1..Len(called') /\ called'[Len(called) + 1].id = n
            BY <4>2, <5>1, <1>4, <1>5
          <6> QED
            BY <6>1
        <5>2. CASE k # 1
          <6>1. k - 1 \in 1..Len(fns') /\ fns'[k - 1] = fns[k]
            BY <5>2, <2>1, <1>3
          <6> QED
            BY <4>2, <6>1
        <5> QED
          BY <5>1, <5>2
      <4> QED
        BY <1>1, <4>1, <4>2 DEF CleanupInv, Accounted
    <3> QED
      BY <3>1, <3>2, <3>3 DEF Accounted
  <2>6. CalledSoFar'
    <3> SUFFICES ASSUME NEW u \in CleanupThreads, NEW i \in 1..Len(called')
                 PROVE  /\ at'[u] \in {"run", "lock"} => called'[i].by # u
                        /\ at'[u] = "call" => \A k \in 1..Len(fns') :
                             called'[i].by = u => called'[i].id > fns'[k].id
      BY DEF CalledSoFar
    <3>1. CASE i \in 1..Len(called) /\ called'[i] = called[i]
      <4>1. at[u] \in {"run", "lock"} => called[i].by # u
        BY <3>1 DEF CleanupInv, CalledSoFar
      <4>2. at[u] = "call" => \A k \in 1..Len(fns) : called[i].by = u => called[i].id > fns[k].id
        BY <3>1 DEF CleanupInv, CalledSoFar
      <4> QED
        BY <1>10, <2>1, <3>1, <4>1, <4>2
    <3>2. CASE called'[i].id = fns[1].id /\ called'[i].by = t
      <4>1. \A k \in 1..Len(fns') : called'[i].id > fns'[k].id
        <5> TAKE k \in 1..Len(fns')
        <5>1. fns'[k].id \in Nat
          BY <2>1, <1>3
        <5> QED
          BY <5>1, <3>2, <2>4, <1>3
      <4> QED
        BY <3>2, <4>1, <1>1, <1>10
    <3> QED
      BY <3>1, <3>2, <1>9
  <2>7. CalledGone'
    <3> SUFFICES ASSUME NEW i \in 1..Len(called'), NEW k \in 1..Len(fns')
                 PROVE  called'[i].id # fns'[k].id
      BY DEF CalledGone
    <3>1. fns'[k].id \in Nat /\ fns'[k].id < fns[1].id
      BY <2>1, <2>4, <1>3
    <3>2. k + 1 \in 1..Len(fns) /\ fns'[k] = fns[k + 1]
      BY <2>1
    <3>3. CASE i \in 1..Len(called) /\ called'[i] = called[i]
      BY <3>2, <3>3, <1>7
    <3>4. CASE called'[i].id = fns[1].id
      BY <3>1, <3>4, <1>3
    <3> QED
      BY <3>3, <3>4, <1>9
  <2> QED
    BY <1>1, <1>8, <1>10, <2>2, <2>3, <2>5, <2>6, <2>7 DEF CleanupInv, HolderCalls
<1>11. CASE at' = [at EXCEPT ![t] = "stuck"] /\ fns' = fns
  <2>1. \A u \in CleanupThreads : at'[u] = IF u = t THEN "stuck" ELSE at[u]
    BY <1>2, <1>11
  <2>2. CleanupTypeOK'
    BY <1>1, <1>2, <1>5, <1>11 DEF CleanupInv, CleanupTypeOK
  <2>3. HolderCalls' /\ NewestFirst'
    BY <1>1, <1>6, <1>11, <2>1 DEF CleanupInv, HolderCalls, NewestFirst
  <2>4. Accounted'
    <3>1. \A i \in 1..Len(called') : called'[i].id \in 1..registered'
      BY <1>1, <1>3, <1>9 DEF CleanupInv, Accounted
    <3>2. \A k \in 1..Len(fns') : fns'[k].id \in 1..registered'
      BY <1>1, <1>11 DEF CleanupInv, Accounted
    <3>3. \A i \in 1..Len(called) : i \in 1..Len(called')
      BY <1>5
    <3>4. ASSUME NEW n \in 1..registered'
          PROVE  \/ \E i \in 1..Len(called') : called'[i].id = n
                 \/ \E k \in 1..Len(fns') : fns'[k].id = n
      <4>1. \/ \E i \in 1..Len(called) : called[i].id = n
            \/ \E k \in 1..Len(fns) : fns[k].id = n
        BY <1>1 DEF CleanupInv, Accounted
      <4>2. CASE \E i \in 1..Len(called) : called[i].id = n
        <5>1. PICK i \in 1..Len(called) : called[i].id = n
          BY <4>2
        <5>2. called'[i].id = n /\ i \in 1..Len(called')
          BY <5>1, <1>5, <3>3
        <5> QED
          BY <5>2
      <4>3. CASE \E k \in 1..Len(fns) : fns[k].id = n
        BY <4>3, <1>11
      <4> QED
        BY <4>1, <4>2, <4>3
    <3> QED
      BY <3>1, <3>2, <3>4 DEF Accounted
  <2>5. CalledSoFar'
    <3> SUFFICES ASSUME NEW u \in CleanupThreads, NEW i \in 1..Len(called')
                 PROVE  /\ at'[u] \in {"run", "lock"} => called'[i].by # u
                        /\ at'[u] # "call"
      BY DEF CalledSoFar
    <3> QED
      BY <1>6, <1>9, <2>1 DEF CleanupInv, CalledSoFar
  <2>6. CalledGone'
    BY <2>1 DEF CalledGone
  <2> QED
    BY <1>8, <2>2, <2>3, <2>4, <2>5, <2>6 DEF CleanupInv
<1> QED
  BY <1>10, <1>11 DEF CallFunction, Go

\* DoCleanupAndExit and the steps of CallCleanupFunctions around the calls.
LEMMA ThreadStep ==
  ASSUME CleanupInv, NEW t \in CleanupThreads,
         DoCleanupAndExit(t) \/ LockFunctions(t) \/ UnlockFunctions(t) \/ Exit(t)
  PROVE  CleanupInv'
<1>1. at \in [CleanupThreads -> {"run", "lock", "call", "stuck", "exit", "exited"}]
  BY DEF CleanupInv, CleanupTypeOK
<1>2. holder \in CleanupThreads \cup {Nobody} /\ Nobody \notin CleanupThreads
  BY CleanupAssumption DEF CleanupInv, CleanupTypeOK
<1>3. \A u \in CleanupThreads : holder = u <=> at[u] \in {"call", "stuck"}
  BY DEF CleanupInv, HolderCalls
<1>4. CASE DoCleanupAndExit(t)
  <2>1. HolderCalls'
    BY <1>1, <1>3, <1>4 DEF HolderCalls, DoCleanupAndExit, Go
  <2> QED
    BY <1>2, <1>4, <2>1, QuietStep DEF DoCleanupAndExit, Go
<1>5. CASE LockFunctions(t)
  <2>1. HolderCalls'
    BY <1>1, <1>2, <1>3, <1>5 DEF HolderCalls, LockFunctions, Go
  <2> QED
    BY <1>2, <1>5, <2>1, QuietStep DEF LockFunctions, Go
<1>6. CASE UnlockFunctions(t)
  <2>1. HolderCalls'
    BY <1>1, <1>2, <1>3, <1>6 DEF HolderCalls, UnlockFunctions, Go
  <2> QED
    BY <1>2, <1>6, <2>1, QuietStep DEF UnlockFunctions, Go
<1>7. CASE Exit(t)
  <2>1. HolderCalls'
    BY <1>1, <1>3, <1>7 DEF HolderCalls, Exit, Go
  <2> QED
    BY <1>2, <1>7, <2>1, QuietStep DEF Exit, Go
<1> QED
  BY <1>4, <1>5, <1>6, <1>7

-----------------------------------------------------------------------------
\* The inductive invariant holds of every reachable state of cleanup.c.
THEOREM CleanupInvariant == CleanupSpec => []CleanupInv
<1>1. CleanupInit => CleanupInv
  <2> SUFFICES ASSUME CleanupInit PROVE CleanupInv
    OBVIOUS
  <2>1. Len(fns) = 0 /\ Len(called) = 0 /\ CleanupTypeOK
    BY DEF CleanupInit, CleanupTypeOK
  <2>2. HolderCalls
    BY CleanupAssumption DEF CleanupInit, HolderCalls
  <2>3. NewestFirst /\ Accounted /\ CalledOnce /\ CalledSoFar /\ CalledGone
    BY <2>1 DEF CleanupInit, NewestFirst, Accounted, CalledOnce, CalledSoFar, CalledGone
  <2> QED
    BY <2>1, <2>2, <2>3 DEF CleanupInv
<1>2. CleanupInv /\ [CleanupNext]_cleanupVars => CleanupInv'
  <2> SUFFICES ASSUME CleanupInv, [CleanupNext]_cleanupVars PROVE CleanupInv'
    OBVIOUS
  <2>1. CASE UNCHANGED cleanupVars
    <3>1. /\ fns' = fns /\ holder' = holder /\ at' = at
          /\ registered' = registered /\ called' = called
      BY <2>1 DEF cleanupVars
    <3>2. CleanupTypeOK' /\ HolderCalls' /\ NewestFirst'
      BY <3>1 DEF CleanupInv, CleanupTypeOK, HolderCalls, NewestFirst
    <3>3. Accounted'
      BY <3>1 DEF CleanupInv, Accounted
    <3>4. CalledOnce' /\ CalledSoFar' /\ CalledGone'
      BY <3>1 DEF CleanupInv, CalledOnce, CalledSoFar, CalledGone
    <3> QED
      BY <3>2, <3>3, <3>4 DEF CleanupInv
  <2>2. CASE CleanupNext
    BY <2>2, ThreadStep, CallStep, RegisterStep DEF CleanupNext, CleanupSteps
  <2> QED
    BY <2>1, <2>2
<1> QED
  BY <1>1, <1>2, PTL DEF CleanupSpec

\* Whatever registers and exits, no function that was registered is lost or called
\* twice, and every thread calls the functions newest first.
THEOREM EveryFunctionOnce == CleanupSpec => []CleanupOnce
<1>1. CleanupInv => CleanupOnce
  <2> SUFFICES ASSUME CleanupInv PROVE CleanupOnce
    OBVIOUS
  <2> DEFINE ids == {called[i].id : i \in DOMAIN called}
             queued == {fns[i].id : i \in DOMAIN fns}
  <2>1. DOMAIN called = 1..Len(called) /\ DOMAIN fns = 1..Len(fns) /\ registered \in Nat
    BY DEF CleanupInv, CleanupTypeOK
  <2>2. \A i, j \in DOMAIN called : i < j =>
           /\ called[i].id # called[j].id
           /\ called[i].by = called[j].by => called[i].id > called[j].id
    BY <2>1 DEF CleanupInv, CalledOnce
  <2>3. ids \cup queued = 1..registered
    BY <2>1 DEF CleanupInv, Accounted
  <2>4. ids \cap queued # {} => \E t \in CleanupThreads : at[t] = "stuck"
    BY <2>1 DEF CleanupInv, CalledGone
  <2> QED
    BY <2>2, <2>3, <2>4 DEF CleanupOnce
<1> QED
  BY <1>1, CleanupInvariant, PTL

-----------------------------------------------------------------------------
(***************************************************************************)
(* Copies.                                                                 *)
(***************************************************************************)
Bytes == {0, 1}
Steps == {"read", "write", "close", "done", "clone", "preset", "punch", "copy",
          "open", "fread", "fwrite", "fclose", "fill"}

CopyCalls ==
  [how : {"shovel", "smart", "stdio", "read"}, pc : Steps, pos : Nat, off : Nat, out_pos : Nat,
   buf : Seq(Bytes), eof : BOOLEAN, total : Nat, hole : BOOLEAN, truncated : BOOLEAN, idle : BOOLEAN,
   ret : BOOLEAN]

CopyTypeOK ==
  /\ src \in Seq(Bytes)
  /\ \A h \in holes : h \in Nat /\ h < Len(src) /\ src[h + 1] = 0
  /\ cp \in CopyCalls
  /\ cp.pos <= Len(src)

\* Up to an offset a file is the source, with zeros for what is missing.
AgreesTo(n) ==
  /\ dst \in Seq(Bytes) /\ n <= Len(src)
  /\ \A i \in 1..n : src[i] = IF i <= Len(dst) THEN dst[i] ELSE 0

\* The bytes read and not written are those of the source behind the offset.
BufferedFrom(n) ==
  /\ n + Len(cp.buf) = cp.pos
  /\ \A i \in 1..Len(cp.buf) : cp.buf[i] = src[n + i]

\* Blocks: what lies between the end of the file and the offset is a hole, and
\* only then the file ends before the offset.
ShovelInv ==
  /\ cp.pc \in {"read", "write", "close", "done"}
  /\ cp.pc # "done" =>
       /\ AgreesTo(cp.off) /\ Len(dst) <= cp.off
       /\ cp.total <= cp.off /\ cp.off <= cp.pos
       /\ ~cp.hole => Len(dst) = cp.off
  /\ cp.pc = "read" => BufferedFrom(cp.off) /\ cp.total = cp.off
  /\ cp.pc = "write" => BufferedFrom(cp.off) /\ cp.buf # <<>>
  /\ cp.pc = "close" /\ cp.ret => cp.off = Len(src) /\ cp.total = cp.off
  /\ cp.pc = "done" /\ cp.ret => dst = src

\* A file of the size of the source, with its bytes up to an offset and zeros behind.
CopiedTo(n) ==
  /\ dst \in Seq(Bytes) /\ Len(dst) = Len(src)
  /\ \A i \in 1..Len(src) : dst[i] = IF i <= n THEN src[i] ELSE 0

\* Ranges: what differs from the source is data that is still to be copied.
SmartInv ==
  /\ cp.pc \in {"clone", "preset", "punch", "copy", "done"}
  /\ cp.off = cp.out_pos
  /\ cp.pc \in {"clone", "preset"} => dst = <<>> /\ cp.pos = 0 /\ cp.off = 0
  /\ cp.pc \in {"punch", "copy"} =>
       CopiedTo(cp.pos) /\ cp.off = cp.pos
  /\ cp.pc # "done" => ~cp.idle
  /\ cp.pc = "done" /\ cp.ret => IF cp.idle THEN CopiedTo(cp.pos) ELSE dst = src

\* stdio: what was written and what was read follow each other in the source.
StdioInv ==
  /\ cp.pc \in {"open", "fread", "fwrite", "fclose", "done"}
  /\ cp.pc \in {"open", "fread", "fwrite"} =>
       /\ AgreesTo(Len(dst)) /\ BufferedFrom(Len(dst))
       /\ cp.pc \in {"open", "fread"} => cp.buf = <<>> /\ ~cp.eof
       /\ cp.eof => cp.pos = Len(src)
  /\ cp.pc \in {"fclose", "done"} /\ cp.ret => dst = src

\* A text without zeros is in the writer as far as it was read.
ReadInv ==
  /\ cp.pc \in {"fill", "done"}
  /\ cp.pc = "fill" => ~cp.truncated
  /\ cp.pc = "fill" /\ 0 \notin Range(src) =>
       AgreesTo(cp.pos) /\ Len(dst) = cp.pos /\ cp.pos <= MAX_READ
  /\ cp.pc = "done" /\ cp.ret /\ 0 \notin Range(src) =>
       /\ dst = SubSeq(src, 1, Shorter(MAX_READ, Len(src)))
       /\ cp.truncated <=> Len(src) > MAX_READ

CopyInv ==
  /\ CopyTypeOK
  /\ cp.how = "shovel" => ShovelInv
  /\ cp.how = "smart" => SmartInv
  /\ cp.how = "stdio" => StdioInv
  /\ cp.how = "read" => ReadInv

-----------------------------------------------------------------------------
LEMMA SameBytes ==
  ASSUME NEW a \in Seq(Bytes), NEW b \in Seq(Bytes), Len(a) = Len(b),
         \A i \in 1..Len(a) : a[i] = b[i]
  PROVE  a = b
OBVIOUS

LEMMA EmptyBytes == ASSUME NEW a \in Seq(Bytes) PROVE a = <<>> <=> Len(a) = 0
OBVIOUS

LEMMA NoBytes == <<>> \in Seq(Bytes) /\ Len(<<>>) = 0
OBVIOUS

LEMMA OneZero == <<0>> \in Seq(Bytes) /\ Len(<<0>>) = 1 /\ <<0>>[1] = 0
BY DEF Bytes

\* A part of a file.
LEMMA PartOf ==
  ASSUME NEW f \in Seq(Bytes), NEW k \in Nat, NEW n \in Nat, k + n <= Len(f)
  PROVE  /\ SubSeq(f, k + 1, k + n) \in Seq(Bytes) /\ Len(SubSeq(f, k + 1, k + n)) = n
         /\ \A i \in 1..n : SubSeq(f, k + 1, k + n)[i] = f[k + i]
OBVIOUS

LEMMA FirstOf ==
  ASSUME NEW f \in Seq(Bytes), NEW n \in Nat, n <= Len(f)
  PROVE  /\ SubSeq(f, 1, n) \in Seq(Bytes) /\ Len(SubSeq(f, 1, n)) = n
         /\ \A i \in 1..n : SubSeq(f, 1, n)[i] = f[i]
OBVIOUS

LEMMA RestOf ==
  ASSUME NEW f \in Seq(Bytes), NEW n \in Nat, n <= Len(f)
  PROVE  /\ SubSeq(f, n + 1, Len(f)) \in Seq(Bytes) /\ Len(SubSeq(f, n + 1, Len(f))) = Len(f) - n
         /\ \A i \in 1..(Len(f) - n) : SubSeq(f, n + 1, Len(f))[i] = f[n + i]
OBVIOUS

\* The kernel's writes and truncations.
LEMMA WrittenProperties ==
  ASSUME NEW f \in Seq(Bytes), NEW off \in Nat, NEW b \in Seq(Bytes)
  PROVE  LET w == WrittenAt(f, off, b)
         IN  /\ w \in Seq(Bytes)
             /\ Len(w) = IF Len(f) > off + Len(b) THEN Len(f) ELSE off + Len(b)
             /\ \A i \in 1..Len(w) : w[i] = IF i > off /\ i <= off + Len(b) THEN b[i - off]
                                           ELSE IF i <= Len(f) THEN f[i] ELSE 0
BY DEF WrittenAt, Bytes

LEMMA ResizedProperties ==
  ASSUME NEW f \in Seq(Bytes), NEW n \in Nat
  PROVE  /\ Resized(f, n) \in Seq(Bytes) /\ Len(Resized(f, n)) = n
         /\ \A i \in 1..n : Resized(f, n)[i] = IF i <= Len(f) THEN f[i] ELSE 0
BY DEF Resized, Bytes

LEMMA ConcatBytes ==
  ASSUME NEW a \in Seq(Bytes), NEW b \in Seq(Bytes)
  PROVE  /\ a \o b \in Seq(Bytes) /\ Len(a \o b) = Len(a) + Len(b)
         /\ \A i \in 1..Len(a) : (a \o b)[i] = a[i]
         /\ \A i \in 1..Len(b) : (a \o b)[Len(a) + i] = b[i]
OBVIOUS

-----------------------------------------------------------------------------
LEMMA InitKeeps == CopyInit => CopyInv
<1> SUFFICES ASSUME CopyInit PROVE CopyInv
  OBVIOUS
<1>1. PICK n \in 0..MAX_FILE : src \in [1..n -> {0, 1}]
  BY DEF CopyInit
<1>2. src \in Seq(Bytes) /\ Len(src) = n
  BY <1>1, CopyAssumption DEF Bytes
<1>3. \A h \in holes : h \in Nat /\ h < Len(src) /\ src[h + 1] = 0
  <2> TAKE h \in holes
  <2>1. PICK j \in DOMAIN src : src[j] = 0 /\ h = j - 1
    BY DEF CopyInit
  <2> QED BY <2>1, <1>2
<1>4. PICK how \in DOMAIN Start :
        cp = [how |-> how, pc |-> Start[how], pos |-> 0, off |-> 0, out_pos |-> 0,
              buf |-> <<>>, eof |-> FALSE, total |-> 0, hole |-> FALSE, truncated |-> FALSE,
              idle |-> FALSE, ret |-> TRUE]
  BY DEF CopyInit
<1>5. CopyTypeOK
  BY <1>2, <1>3, <1>4 DEF CopyTypeOK, CopyCalls, Start, Steps, Bytes
<1>6. dst = <<>> /\ dst \in Seq(Bytes) /\ Len(dst) = 0 /\ Len(cp.buf) = 0 /\ cp.buf = <<>>
  BY <1>4 DEF CopyInit, Bytes
<1>7. cp.pos = 0 /\ cp.off = 0 /\ cp.out_pos = 0 /\ cp.total = 0 /\ cp.pc = Start[cp.how] /\ ~cp.eof /\ ~cp.truncated
      /\ ~cp.idle
  BY <1>4
<1>8. AgreesTo(0) /\ BufferedFrom(0)
  BY <1>6, <1>7, <1>2 DEF AgreesTo, BufferedFrom
<1>9. cp.how = "shovel" => ShovelInv
  BY <1>6, <1>7, <1>8 DEF ShovelInv, Start
<1>10. cp.how = "smart" => SmartInv
  BY <1>6, <1>7, <1>8 DEF SmartInv, Start
<1>11. cp.how = "stdio" => StdioInv
  BY <1>6, <1>7, <1>8 DEF StdioInv, Start
<1>12. cp.how = "read" => ReadInv
  BY <1>6, <1>7, <1>8, CopyAssumption DEF ReadInv, Start
<1> QED BY <1>5, <1>9, <1>10, <1>11, <1>12 DEF CopyInv

LEMMA TypeKeeps ==
  ASSUME CopyTypeOK, UNCHANGED <<src, holes>>, cp' \in CopyCalls, cp'.pos <= Len(src)
  PROVE  CopyTypeOK'
BY DEF CopyTypeOK

\* A failing call leaves the files as they are.
LEMMA FailKeeps ==
  ASSUME CopyInv, NEW next \in Steps, Fails(next),
         cp.how = "shovel" => cp.pc # "done" /\ next \in {"close", "done"},
         cp.how = "smart" => next = "done",
         cp.how = "stdio" => next \in {"fclose", "done"},
         cp.how = "read" => next = "done"
  PROVE  CopyInv'
<1>1. /\ cp' = [cp EXCEPT !.pc = next, !.ret = FALSE]
      /\ UNCHANGED <<src, holes, dst>>
  BY DEF Fails, FilesSame
<1>2. CopyTypeOK
  BY DEF CopyInv
<1>3. /\ cp'.how = cp.how /\ cp'.pc = next /\ cp'.ret = FALSE /\ cp'.off = cp.off /\ cp'.pos = cp.pos
      /\ cp'.total = cp.total /\ cp'.hole = cp.hole /\ cp'.out_pos = cp.out_pos
  BY <1>1, <1>2 DEF CopyTypeOK, CopyCalls
<1>4. CopyTypeOK'
  BY <1>1, <1>2 DEF CopyTypeOK, CopyCalls
<1>5. cp.how = "shovel" => ShovelInv'
  BY <1>1, <1>3 DEF CopyInv, ShovelInv, AgreesTo
<1>6. cp.how = "smart" => SmartInv'
  BY <1>3 DEF SmartInv, CopyInv
<1>7. cp.how = "stdio" => StdioInv'
  BY <1>3 DEF StdioInv
<1>8. cp.how = "read" => ReadInv'
  BY <1>3 DEF ReadInv
<1> QED BY <1>3, <1>4, <1>5, <1>6, <1>7, <1>8 DEF CopyInv

LEMMA FullReadKeeps == CopyInv /\ FullRead => CopyInv'
<1> SUFFICES ASSUME CopyInv, FullRead PROVE CopyInv'
  OBVIOUS
<1>1. cp.how = "shovel" /\ cp.pc = "read" /\ UNCHANGED <<src, holes, dst>>
  BY DEF FullRead, Is, FilesSame
<1>2. CopyTypeOK /\ ShovelInv
  BY <1>1 DEF CopyInv
<1>3. AgreesTo(cp.off) /\ BufferedFrom(cp.off) /\ cp.total = cp.off
  BY <1>1, <1>2 DEF ShovelInv
<1>a. Len(src) \in Nat /\ cp.pos \in Nat /\ cp.off \in Nat /\ cp.pos <= Len(src) /\ Len(cp.buf) \in Nat /\ cp.buf \in Seq(Bytes)
  BY <1>2 DEF CopyTypeOK, CopyCalls
<1>4. CASE \E n \in 1..Shorter(BLK_SIZE - Len(cp.buf), Remaining) :
          cp' = [cp EXCEPT !.buf = @ \o Chunk(n), !.pos = @ + n,
                           !.pc = IF Len(cp.buf) + n = BLK_SIZE THEN "write" ELSE "read"]
  <2>1. PICK n \in 1..Shorter(BLK_SIZE - Len(cp.buf), Remaining) :
          cp' = [cp EXCEPT !.buf = @ \o Chunk(n), !.pos = @ + n,
                           !.pc = IF Len(cp.buf) + n = BLK_SIZE THEN "write" ELSE "read"]
    BY <1>4
  <2>2. n \in Nat /\ n > 0 /\ cp.pos + n <= Len(src)
    BY <1>a, CopyAssumption DEF Shorter, Remaining
  <2> DEFINE c == Chunk(n)
             b == cp.buf \o c
  <2>3. c \in Seq(Bytes) /\ Len(c) = n /\ \A i \in 1..n : c[i] = src[cp.pos + i]
    <3>1. src \in Seq(Bytes)
      BY <1>2 DEF CopyTypeOK, CopyCalls
    <3> QED BY <3>1, <1>a, <2>2, PartOf DEF Chunk
  <2>b. /\ cp'.how = cp.how /\ cp'.pc \in {"read", "write"} /\ cp'.pos = cp.pos + n /\ cp'.buf = b
        /\ cp'.off = cp.off /\ cp'.total = cp.total /\ cp'.hole = cp.hole
    BY <2>1, <1>2 DEF CopyTypeOK, CopyCalls
  <2> HIDE DEF c
  <2>4. b \in Seq(Bytes) /\ Len(b) = Len(cp.buf) + n /\ b # <<>>
        /\ (\A i \in 1..Len(cp.buf) : b[i] = cp.buf[i]) /\ (\A i \in 1..n : b[Len(cp.buf) + i] = c[i])
    <3>1. b \in Seq(Bytes) /\ Len(b) = Len(cp.buf) + Len(c)
          /\ (\A i \in 1..Len(cp.buf) : b[i] = cp.buf[i]) /\ (\A i \in 1..Len(c) : b[Len(cp.buf) + i] = c[i])
      BY <2>3, <1>a, ConcatBytes, Zenon
    <3> HIDE DEF b
    <3>2. b # <<>>
      BY <3>1, <2>3, <2>2, <1>a, EmptyBytes
    <3> QED BY <3>1, <3>2, <2>3
  <2> HIDE DEF b
  <2>5. CopyTypeOK'
    <3>1. PICK bb \in Seq(Bytes) : bb = cp.buf \o Chunk(n)
      BY <2>4 DEF b, c
    <3>2. PICK p \in Steps : cp' = [cp EXCEPT !.buf = bb, !.pos = cp.pos + n, !.pc = p]
      BY <2>1, <3>1 DEF Steps
    <3>3. cp.pos + n \in Nat
      BY <2>2, <1>a
    <3>4. cp' \in CopyCalls
      BY <3>2, <3>3, <1>2 DEF CopyTypeOK, CopyCalls
    <3> QED BY <3>4, <1>1, <1>2, <2>2, <2>b, TypeKeeps
  <2>6. BufferedFrom(cp.off)'
    <3>1. cp.off + Len(b) = cp.pos + n
      BY <1>3, <2>4, <2>2, <1>a DEF BufferedFrom
    <3>2. ASSUME NEW i \in 1..Len(b) PROVE b[i] = src[cp.off + i]
      <4>1. CASE i <= Len(cp.buf)
        BY <4>1, <1>3, <1>a, <2>4 DEF BufferedFrom
      <4>2. CASE i > Len(cp.buf)
        <5>1. i - Len(cp.buf) \in 1..n /\ Len(cp.buf) + (i - Len(cp.buf)) = i
              /\ cp.pos + (i - Len(cp.buf)) = cp.off + i
          BY <4>2, <2>4, <2>2, <1>a, <1>3 DEF BufferedFrom
        <5> DEFINE j == i - Len(cp.buf)
        <5>2. b[Len(cp.buf) + j] = c[j]
          BY <5>1, <2>4, Zenon
        <5>3. c[j] = src[cp.pos + j]
          BY <5>1, <2>3, Zenon
        <5>4. b[i] = src[cp.off + i]
          BY <5>1, <5>2, <5>3, Zenon
        <5> QED BY <5>4
      <4> QED BY <4>1, <4>2, <1>a
    <3> QED BY <3>1, <3>2, <2>b, <1>1 DEF BufferedFrom
  <2>7. ShovelInv'
    BY <1>1, <1>2, <1>3, <1>a, <2>2, <2>b, <2>4, <2>6 DEF ShovelInv, AgreesTo, BufferedFrom
  <2> QED BY <2>5, <2>7, <2>b, <1>1 DEF CopyInv
<1>5. CASE Remaining = 0 /\ cp' = [cp EXCEPT !.pc = IF cp.buf = <<>> THEN "close" ELSE "write"]
  <2>1. /\ cp'.how = cp.how /\ cp'.pos = cp.pos /\ cp'.buf = cp.buf /\ cp'.ret = cp.ret
        /\ cp'.off = cp.off /\ cp'.total = cp.total /\ cp'.hole = cp.hole
        /\ cp'.pc = IF cp.buf = <<>> THEN "close" ELSE "write"
    BY <1>5, <1>2 DEF CopyTypeOK, CopyCalls
  <2>2. CopyTypeOK'
    BY <1>1, <1>2, <1>5 DEF CopyTypeOK, CopyCalls, Steps
  <2>3. cp.pos = Len(src)
    BY <1>5, <1>a DEF Remaining
  <2>4. ShovelInv'
    <3>1. CASE cp.buf = <<>>
      BY <3>1, <2>1, <2>3, <1>1, <1>2, <1>3, <1>a DEF ShovelInv, AgreesTo, BufferedFrom
    <3>2. CASE cp.buf # <<>>
      BY <3>2, <2>1, <2>3, <1>1, <1>2, <1>3, <1>a DEF ShovelInv, AgreesTo, BufferedFrom
    <3> QED BY <3>1, <3>2
  <2> QED BY <2>1, <2>2, <2>4, <1>1 DEF CopyInv
<1> QED BY <1>4, <1>5 DEF FullRead

LEMMA FullWriteKeeps == CopyInv /\ FullWrite => CopyInv'
<1> SUFFICES ASSUME CopyInv, FullWrite PROVE CopyInv'
  OBVIOUS
<1>1. cp.how = "shovel" /\ cp.pc = "write" /\ UNCHANGED <<src, holes>>
  BY DEF FullWrite, Is, FilesSame
<1>2. CopyTypeOK /\ ShovelInv
  BY <1>1 DEF CopyInv
<1>3. AgreesTo(cp.off) /\ BufferedFrom(cp.off) /\ cp.total <= cp.off /\ Len(dst) <= cp.off
  BY <1>1, <1>2 DEF ShovelInv
<1>4. /\ Len(src) \in Nat /\ cp.pos \in Nat /\ cp.off \in Nat /\ cp.total \in Nat /\ cp.pos <= Len(src)
      /\ Len(cp.buf) \in Nat /\ cp.buf \in Seq(Bytes) /\ src \in Seq(Bytes)
      /\ dst \in Seq(Bytes) /\ Len(dst) \in Nat
  BY <1>2, <1>3 DEF CopyTypeOK, CopyCalls, AgreesTo
<1>5. PICK n \in 1..Len(cp.buf) :
       /\ dst' = WrittenAt(dst, cp.off, SubSeq(cp.buf, 1, n))
       /\ cp' = IF n < Len(cp.buf) THEN [cp EXCEPT !.off = @ + n, !.buf = SubSeq(@, n + 1, Len(@))]
                ELSE [cp EXCEPT !.off = @ + n, !.buf = <<>>, !.total = cp.off + n, !.hole = FALSE, !.pc = "read"]
  BY DEF FullWrite
<1>6. PICK c \in Seq(Bytes) : c = SubSeq(cp.buf, 1, n) /\ Len(c) = n /\ \A i \in 1..n : c[i] = cp.buf[i]
  <2>1. n \in Nat /\ n <= Len(cp.buf)
    BY <1>4
  <2>2. /\ SubSeq(cp.buf, 1, n) \in Seq(Bytes) /\ Len(SubSeq(cp.buf, 1, n)) = n
        /\ \A i \in 1..n : SubSeq(cp.buf, 1, n)[i] = cp.buf[i]
    BY <2>1, <1>4, FirstOf, Zenon
  <2> QED BY <2>2, Zenon
<1>7. PICK r \in Seq(Bytes) : /\ r = SubSeq(cp.buf, n + 1, Len(cp.buf)) /\ Len(r) = Len(cp.buf) - n
                              /\ \A i \in 1..(Len(cp.buf) - n) : r[i] = cp.buf[n + i]
  <2>1. n \in Nat /\ n <= Len(cp.buf)
    BY <1>4
  <2> QED BY <2>1, <1>4, RestOf, Zenon
<1>8. /\ dst' \in Seq(Bytes) /\ Len(dst') = cp.off + n
      /\ \A i \in 1..(cp.off + n) : dst'[i] = IF i > cp.off THEN c[i - cp.off]
                                               ELSE IF i <= Len(dst) THEN dst[i] ELSE 0
  <2>1. dst' = WrittenAt(dst, cp.off, c)
    BY <1>5, <1>6
  <2>2. /\ dst' \in Seq(Bytes)
        /\ Len(dst') = IF Len(dst) > cp.off + Len(c) THEN Len(dst) ELSE cp.off + Len(c)
        /\ \A i \in 1..Len(dst') : dst'[i] = IF i > cp.off /\ i <= cp.off + Len(c) THEN c[i - cp.off]
                                           ELSE IF i <= Len(dst) THEN dst[i] ELSE 0
    <3>1. dst \in Seq(Bytes) /\ cp.off \in Nat /\ c \in Seq(Bytes)
      BY <1>4
    <3>2. LET w == WrittenAt(dst, cp.off, c)
          IN  /\ w \in Seq(Bytes)
              /\ Len(w) = IF Len(dst) > cp.off + Len(c) THEN Len(dst) ELSE cp.off + Len(c)
              /\ \A i \in 1..Len(w) : w[i] = IF i > cp.off /\ i <= cp.off + Len(c) THEN c[i - cp.off]
                                            ELSE IF i <= Len(dst) THEN dst[i] ELSE 0
      BY <3>1, WrittenProperties, Zenon
    <3> QED BY <2>1, <3>2, Zenon
  <2>3. Len(dst') = cp.off + n
    BY <2>2, <1>3, <1>4, <1>6
  <2>4. ASSUME NEW i \in 1..(cp.off + n)
        PROVE  dst'[i] = IF i > cp.off THEN c[i - cp.off] ELSE IF i <= Len(dst) THEN dst[i] ELSE 0
    <3>1. i \in 1..Len(dst')
      BY <2>3
    <3>2. i > cp.off <=> i > cp.off /\ i <= cp.off + Len(c)
      BY <1>4, <1>6
    <3> QED BY <3>1, <3>2, <2>2, Zenon
  <2> QED BY <2>2, <2>3, <2>4
<1>9. cp.off + n <= cp.pos /\ cp.off + n \in Nat
  BY <1>3, <1>4 DEF BufferedFrom
<1>10. \A i \in 1..(cp.off + n) : src[i] = dst'[i]
  <2> TAKE i \in 1..(cp.off + n)
  <2>1. CASE i <= cp.off
    BY <2>1, <1>3, <1>4, <1>8 DEF AgreesTo
  <2>2. CASE i > cp.off
    <3>1. i - cp.off \in 1..n /\ cp.off + (i - cp.off) = i /\ i - cp.off \in 1..Len(cp.buf)
      BY <2>2, <1>4
    <3> QED BY <3>1, <2>2, <1>3, <1>6, <1>8 DEF BufferedFrom
  <2> QED BY <2>1, <2>2, <1>4
<1>11. CASE n < Len(cp.buf)
  <2>1. cp' = [cp EXCEPT !.off = cp.off + n, !.buf = r]
    BY <1>5, <1>7, <1>11
  <2>2. /\ cp'.how = cp.how /\ cp'.pc = "write" /\ cp'.off = cp.off + n /\ cp'.buf = r
        /\ cp'.total = cp.total /\ cp'.pos = cp.pos
    BY <2>1, <1>1, <1>2 DEF CopyTypeOK, CopyCalls
  <2>3. cp' \in CopyCalls
    BY <2>1, <1>2, <1>9 DEF CopyTypeOK, CopyCalls
  <2>4. CopyTypeOK'
    BY <2>2, <2>3, <1>1, <1>2, <1>4, TypeKeeps
  <2>5. BufferedFrom(cp.off)'
    <3>1. (cp.off + n) + Len(r) = cp.pos /\ Len(r) = Len(cp.buf) - n
      BY <1>3, <1>4, <1>7 DEF BufferedFrom
    <3>2. ASSUME NEW i \in 1..Len(r) PROVE r[i] = src[(cp.off + n) + i]
      <4>1. n + i \in 1..Len(cp.buf) /\ cp.off + (n + i) = (cp.off + n) + i
        BY <3>1, <1>4
      <4> QED BY <4>1, <3>1, <1>3, <1>7 DEF BufferedFrom
    <3> QED BY <3>1, <3>2, <2>2, <1>1 DEF BufferedFrom
  <2>6. r # <<>>
    <3>1. Len(r) # 0
      BY <1>7, <1>11, <1>4
    <3> QED BY <3>1, EmptyBytes, Zenon
  <2>7. AgreesTo(cp.off)'
    BY <2>2, <1>1, <1>4, <1>8, <1>9, <1>10 DEF AgreesTo
  <2>8. ShovelInv'
    BY <2>2, <2>5, <2>6, <2>7, <1>1, <1>3, <1>4, <1>8, <1>9 DEF ShovelInv
  <2> QED BY <2>2, <2>4, <2>8, <1>1 DEF CopyInv
<1>12. CASE ~(n < Len(cp.buf))
  <2>1. cp' = [cp EXCEPT !.off = cp.off + n, !.buf = <<>>, !.total = cp.off + n, !.hole = FALSE, !.pc = "read"]
    BY <1>5, <1>12
  <2>2. /\ cp'.how = cp.how /\ cp'.pc = "read" /\ cp'.off = cp.off + n /\ cp'.buf = <<>>
        /\ cp'.total = cp.off + n /\ cp'.pos = cp.pos
    BY <2>1, <1>1, <1>2 DEF CopyTypeOK, CopyCalls
  <2>3. cp' \in CopyCalls
    BY <2>1, <1>2, <1>9, NoBytes DEF CopyTypeOK, CopyCalls, Steps
  <2>4. CopyTypeOK'
    BY <2>2, <2>3, <1>1, <1>2, <1>4, TypeKeeps
  <2>5. BufferedFrom(cp.off)'
    BY <2>2, <1>3, <1>4, <1>12 DEF BufferedFrom
  <2>6. AgreesTo(cp.off)'
    BY <2>2, <1>1, <1>4, <1>8, <1>9, <1>10 DEF AgreesTo
  <2>7. ShovelInv'
    BY <2>2, <2>5, <2>6, <1>1, <1>4, <1>8, <1>9 DEF ShovelInv
  <2> QED BY <2>2, <2>4, <2>7, <1>1 DEF CopyInv
<1> QED BY <1>11, <1>12

LEMMA WriteHoleKeeps == CopyInv /\ WriteHole => CopyInv'
<1> SUFFICES ASSUME CopyInv, WriteHole PROVE CopyInv'
  OBVIOUS
<1>1. /\ cp.how = "shovel" /\ cp.pc = "write" /\ UNCHANGED <<src, holes, dst>>
      /\ cp.off = cp.total /\ \A i \in 1..Len(cp.buf) : cp.buf[i] = 0
  BY DEF WriteHole, Is, FilesSame, CopyInv, CopyTypeOK, CopyCalls
<1>2. CopyTypeOK /\ ShovelInv
  BY <1>1 DEF CopyInv
<1>3. AgreesTo(cp.off) /\ BufferedFrom(cp.off) /\ Len(dst) <= cp.off
  BY <1>1, <1>2 DEF ShovelInv
<1>4. /\ Len(src) \in Nat /\ cp.pos \in Nat /\ cp.off \in Nat /\ cp.total \in Nat /\ cp.pos <= Len(src)
      /\ Len(cp.buf) \in Nat /\ cp.buf \in Seq(Bytes) /\ src \in Seq(Bytes)
      /\ dst \in Seq(Bytes) /\ Len(dst) \in Nat
  BY <1>2, <1>3 DEF CopyTypeOK, CopyCalls, AgreesTo
<1>5. cp.off + Len(cp.buf) = cp.pos
  BY <1>3 DEF BufferedFrom
<1>6. cp' = [cp EXCEPT !.off = cp.pos, !.total = cp.pos, !.buf = <<>>, !.hole = TRUE, !.pc = "read"]
  BY <1>1, <1>2, <1>5 DEF WriteHole, CopyTypeOK, CopyCalls
<1>7. /\ cp'.how = cp.how /\ cp'.pc = "read" /\ cp'.off = cp.pos /\ cp'.buf = <<>>
      /\ cp'.total = cp.pos /\ cp'.pos = cp.pos /\ cp'.hole = TRUE
  BY <1>6, <1>2 DEF CopyTypeOK, CopyCalls
<1>8. cp' \in CopyCalls
  BY <1>6, <1>2, NoBytes DEF CopyTypeOK, CopyCalls, Steps
<1>9. CopyTypeOK'
  BY <1>7, <1>8, <1>1, <1>2, <1>4, TypeKeeps
<1>10. \A i \in 1..cp.pos : src[i] = IF i <= Len(dst) THEN dst[i] ELSE 0
  <2> TAKE i \in 1..cp.pos
  <2>1. CASE i <= cp.off
    BY <2>1, <1>3, <1>4 DEF AgreesTo
  <2>2. CASE i > cp.off
    <3>1. i - cp.off \in 1..Len(cp.buf) /\ cp.off + (i - cp.off) = i /\ ~(i <= Len(dst))
      BY <2>2, <1>3, <1>4, <1>5
    <3> QED BY <3>1, <1>1, <1>3 DEF BufferedFrom
  <2> QED BY <2>1, <2>2, <1>4
<1>11. AgreesTo(cp.off)' /\ BufferedFrom(cp.off)'
  BY <1>1, <1>4, <1>7, <1>10 DEF AgreesTo, BufferedFrom
<1>12. ShovelInv'
  BY <1>1, <1>3, <1>4, <1>5, <1>7, <1>11 DEF ShovelInv
<1> QED BY <1>1, <1>7, <1>9, <1>12 DEF CopyInv

LEMMA SparseCloseKeeps == CopyInv /\ FileSparseClose => CopyInv'
<1> SUFFICES ASSUME CopyInv, FileSparseClose PROVE CopyInv'
  OBVIOUS
<1>1. /\ cp.how = "shovel" /\ cp.pc = "close" /\ UNCHANGED <<src, holes>>
      /\ dst' = IF cp.hole THEN Resized(WrittenAt(dst, cp.off, <<0>>), cp.total) ELSE dst
      /\ cp' = [cp EXCEPT !.pc = "done"]
  BY DEF FileSparseClose, Is, FilesSame
<1>2. CopyTypeOK /\ ShovelInv
  BY <1>1 DEF CopyInv
<1>3. /\ cp'.how = cp.how /\ cp'.pc = "done" /\ cp'.ret = cp.ret /\ cp'.pos = cp.pos
      /\ cp' \in CopyCalls
  BY <1>1, <1>2 DEF CopyTypeOK, CopyCalls, Steps
<1>4. CopyTypeOK'
  BY <1>1, <1>2, <1>3, TypeKeeps DEF CopyTypeOK
<1>5. ASSUME cp.ret PROVE dst' = src
  <2>1. cp.off = Len(src) /\ cp.total = Len(src) /\ AgreesTo(Len(src)) /\ Len(dst) <= Len(src)
        /\ (~cp.hole => Len(dst) = Len(src))
    BY <1>1, <1>2, <1>5 DEF ShovelInv
  <2>2. src \in Seq(Bytes) /\ dst \in Seq(Bytes) /\ Len(src) \in Nat /\ Len(dst) \in Nat
    BY <1>2, <2>1 DEF CopyTypeOK, AgreesTo
  <2>3. CASE ~cp.hole
    <3>1. \A i \in 1..Len(dst) : dst[i] = src[i]
      BY <2>1, <2>2, <2>3 DEF AgreesTo
    <3> QED BY <3>1, <2>1, <2>2, <2>3, <1>1, SameBytes
  <2>4. CASE cp.hole
    <3>1. PICK z \in Seq(Bytes) : z = <<0>> /\ Len(z) = 1 /\ z[1] = 0
      BY OneZero, Zenon
    <3>2. PICK w \in Seq(Bytes) :
             /\ w = WrittenAt(dst, Len(src), z)
             /\ Len(w) = IF Len(dst) > Len(src) + Len(z) THEN Len(dst) ELSE Len(src) + Len(z)
             /\ \A i \in 1..Len(w) : w[i] = IF i > Len(src) /\ i <= Len(src) + Len(z) THEN z[i - Len(src)]
                                           ELSE IF i <= Len(dst) THEN dst[i] ELSE 0
      BY <2>2, WrittenProperties
    <3>3. dst' = Resized(w, Len(src))
      BY <1>1, <2>1, <2>4, <3>1, <3>2
    <3>4. dst' \in Seq(Bytes) /\ Len(dst') = Len(src)
          /\ \A i \in 1..Len(src) : dst'[i] = IF i <= Len(w) THEN w[i] ELSE 0
      BY <3>3, <2>2, ResizedProperties
    <3>5. \A i \in 1..Len(src) : dst'[i] = src[i]
      BY <2>1, <2>2, <3>1, <3>2, <3>4 DEF AgreesTo
    <3> QED BY <3>4, <3>5, <2>2, SameBytes
  <2> QED BY <2>3, <2>4
<1>6. ShovelInv'
  BY <1>1, <1>3, <1>5 DEF ShovelInv
<1> QED BY <1>1, <1>3, <1>4, <1>6 DEF CopyInv

LEMMA ShovelFailKeeps == CopyInv /\ ShovelFails => CopyInv'
<1> SUFFICES ASSUME CopyInv, ShovelFails PROVE CopyInv'
  OBVIOUS
<1>1. CASE \E pc \in {"read", "write"} : Is("shovel", pc) /\ Fails("close")
  BY <1>1, FailKeeps DEF Is, Steps
<1>2. CASE Is("shovel", "close") /\ Fails("done")
  BY <1>2, FailKeeps DEF Is, Steps
<1> QED BY <1>1, <1>2 DEF ShovelFails

-----------------------------------------------------------------------------
LEMMA CloneKeeps == CopyInv /\ Clone => CopyInv'
<1> SUFFICES ASSUME CopyInv, Clone PROVE CopyInv'
  OBVIOUS
<1>1. cp.how = "smart" /\ cp.pc = "clone" /\ UNCHANGED <<src, holes>>
  BY DEF Clone, Is, FilesSame
<1>2. CopyTypeOK /\ SmartInv
  BY <1>1 DEF CopyInv
<1>3. /\ cp' \in CopyCalls /\ cp'.how = cp.how /\ cp'.pos = cp.pos /\ cp'.off = cp.off /\ cp'.out_pos = cp.out_pos
      /\ cp'.idle = cp.idle
      /\ \/ cp'.pc = "done" /\ dst' = src
         \/ cp'.pc = "preset" /\ dst' = dst
  <2>1. src \in Seq(Bytes) /\ Len(src) \in Nat
    BY <1>2 DEF CopyTypeOK
  <2> QED BY <2>1, <1>2 DEF Clone, CopyTypeOK, CopyCalls, Steps
<1>4. CopyTypeOK'
  BY <1>1, <1>2, <1>3, TypeKeeps DEF CopyTypeOK
<1>5. SmartInv'
  BY <1>1, <1>2, <1>3 DEF SmartInv
<1> QED BY <1>1, <1>3, <1>4, <1>5 DEF CopyInv

\* What is not copied and differs from the source is data.
LEMMA OnlyDataDiffers ==
  ASSUME CopyTypeOK, NEW n \in Nat, CopiedTo(n), NEW i \in 1..Len(src), dst[i] # src[i]
  PROVE  i - 1 \in DataFrom(n)
<1>1. src \in Seq(Bytes) /\ Len(src) \in Nat
  BY DEF CopyTypeOK
<1>2. i > n /\ src[i] # 0
  BY <1>1 DEF CopiedTo
<1>3. i - 1 \notin holes
  BY <1>1, <1>2 DEF CopyTypeOK
<1> QED BY <1>1, <1>2, <1>3 DEF DataFrom

LEMMA CopiedIsSource ==
  ASSUME CopyTypeOK, NEW n \in Nat, CopiedTo(n), DataFrom(n) = {}
  PROVE  dst = src
<1>1. src \in Seq(Bytes) /\ dst \in Seq(Bytes) /\ Len(dst) = Len(src)
  BY DEF CopyTypeOK, CopiedTo
<1>2. \A i \in 1..Len(dst) : dst[i] = src[i]
  BY <1>1, OnlyDataDiffers
<1> QED BY <1>1, <1>2, SameBytes

LEMMA PresetKeeps == CopyInv /\ Preset => CopyInv'
<1> SUFFICES ASSUME CopyInv, Preset PROVE CopyInv'
  OBVIOUS
<1>1. /\ cp.how = "smart" /\ cp.pc = "preset" /\ UNCHANGED <<src, holes>>
      /\ dst' = Resized(dst, Len(src))
  BY DEF Preset, Is, FilesSame
<1>2. CopyTypeOK /\ SmartInv /\ src \in Seq(Bytes) /\ Len(src) \in Nat
  BY <1>1 DEF CopyInv, CopyTypeOK
<1>3. dst = <<>> /\ cp.pos = 0 /\ cp.off = 0 /\ cp.out_pos = 0 /\ ~cp.idle
  BY <1>1, <1>2 DEF SmartInv
<1>4. dst' \in Seq(Bytes) /\ Len(dst') = Len(src) /\ \A i \in 1..Len(src) : dst'[i] = 0
  <2>1. dst \in Seq(Bytes) /\ Len(dst) = 0
    BY <1>3, NoBytes
  <2>2. /\ dst' \in Seq(Bytes) /\ Len(dst') = Len(src)
        /\ \A i \in 1..Len(src) : dst'[i] = IF i <= Len(dst) THEN dst[i] ELSE 0
    BY <2>1, <1>1, <1>2, ResizedProperties, Zenon
  <2> QED BY <2>1, <2>2
<1>5. /\ cp' \in CopyCalls /\ cp'.how = cp.how /\ cp'.pos = 0 /\ cp'.off = 0 /\ cp'.out_pos = 0
      /\ \/ cp'.pc = "done" /\ cp'.idle = (DataFrom(0) # {})
         \/ cp'.pc = "punch" /\ cp'.idle = cp.idle
  <2>1. CASE cp' = [cp EXCEPT !.total = Len(src), !.idle = DataFrom(0) # {}, !.pc = "done"]
    <3>1. PICK b \in BOOLEAN : b = (DataFrom(0) # {})
      BY Zenon
    <3>2. cp' = [cp EXCEPT !.total = Len(src), !.idle = b, !.pc = "done"]
      BY <2>1, <3>1, Zenon
    <3>3. /\ cp' \in CopyCalls /\ cp'.how = cp.how /\ cp'.pos = cp.pos /\ cp'.off = cp.off
          /\ cp'.out_pos = cp.out_pos /\ cp'.pc = "done" /\ cp'.idle = b
      BY <3>2, <1>2 DEF CopyTypeOK, CopyCalls, Steps
    <3>4. cp'.idle = (DataFrom(0) # {})
      BY <3>1, <3>3, Zenon
    <3> QED BY <3>3, <3>4, <1>3, Zenon
  <2>2. CASE cp' = [cp EXCEPT !.pc = "punch"]
    <3>1. /\ cp' \in CopyCalls /\ cp'.how = cp.how /\ cp'.pos = cp.pos /\ cp'.off = cp.off
          /\ cp'.out_pos = cp.out_pos /\ cp'.pc = "punch" /\ cp'.idle = cp.idle
      BY <2>2, <1>2 DEF CopyTypeOK, CopyCalls, Steps
    <3> QED BY <3>1, <1>3, Zenon
  <2> QED BY <2>1, <2>2 DEF Preset
<1>6. CopyTypeOK'
  BY <1>1, <1>2, <1>5, TypeKeeps DEF CopyTypeOK
<1>7. CopiedTo(cp.pos)'
  BY <1>1, <1>4, <1>5 DEF CopiedTo
<1>9. DataFrom(0) = {} => dst' = src'
  <2> SUFFICES ASSUME DataFrom(0) = {} PROVE dst' = src
    BY <1>1
  <2>1. \A i \in 1..Len(src) : i - 1 \in holes
    BY <1>2 DEF DataFrom
  <2>2. \A i \in 1..Len(src) : src[i] = 0
    BY <1>2, <2>1 DEF CopyTypeOK
  <2>3. \A i \in 1..Len(dst') : dst'[i] = src[i]
    BY <1>4, <2>2
  <2> QED BY <1>2, <1>4, <2>3, SameBytes
<1>10. SmartInv'
  <2>1. CASE cp'.pc = "done" /\ cp'.idle = (DataFrom(0) # {})
    BY <1>1, <1>5, <1>7, <1>9, <2>1 DEF SmartInv
  <2>2. CASE cp'.pc = "punch" /\ cp'.idle = cp.idle
    BY <1>1, <1>3, <1>5, <1>7, <2>2 DEF SmartInv
  <2> QED BY <1>5, <2>1, <2>2
<1> QED BY <1>1, <1>5, <1>6, <1>10 DEF CopyInv

LEMMA PunchKeeps == CopyInv /\ Punch => CopyInv'
<1> SUFFICES ASSUME CopyInv, Punch PROVE CopyInv'
  OBVIOUS
<1>1. cp.how = "smart" /\ cp.pc = "punch" /\ UNCHANGED <<src, holes, dst>> /\ cp' = [cp EXCEPT !.pc = "copy"]
  BY DEF Punch, Is, FilesSame
<1>2. CopyTypeOK /\ SmartInv
  BY <1>1 DEF CopyInv
<1>3. /\ cp' \in CopyCalls /\ cp'.how = cp.how /\ cp'.pos = cp.pos /\ cp'.off = cp.off /\ cp'.out_pos = cp.out_pos
      /\ cp'.pc = "copy" /\ cp'.idle = cp.idle
  BY <1>1, <1>2 DEF CopyTypeOK, CopyCalls, Steps
<1>4. CopyTypeOK'
  BY <1>1, <1>2, <1>3, TypeKeeps DEF CopyTypeOK
<1>5. CopiedTo(cp.pos)'
  BY <1>1, <1>2, <1>3 DEF SmartInv, CopiedTo
<1>6. SmartInv'
  BY <1>1, <1>2, <1>3, <1>5 DEF SmartInv
<1> QED BY <1>1, <1>3, <1>4, <1>6 DEF CopyInv

LEMMA CopyRangeKeeps == CopyInv /\ CopyRange => CopyInv'
<1> SUFFICES ASSUME CopyInv, CopyRange PROVE CopyInv'
  OBVIOUS
<1>1. cp.how = "smart" /\ cp.pc = "copy" /\ UNCHANGED <<src, holes>>
  BY DEF CopyRange, Is, FilesSame
<1>2. CopyTypeOK /\ SmartInv /\ src \in Seq(Bytes) /\ Len(src) \in Nat /\ cp.pos \in Nat /\ cp.off \in Nat
      /\ cp.pos <= Len(src) /\ cp.total \in Nat
  BY <1>1 DEF CopyInv, CopyTypeOK, CopyCalls
<1>3. /\ dst \in Seq(Bytes) /\ Len(dst) = Len(src) /\ cp.off = cp.pos /\ cp.out_pos = cp.pos
      /\ CopiedTo(cp.pos) /\ ~cp.idle
  BY <1>1, <1>2 DEF SmartInv, CopiedTo
<1>4. CASE DataFrom(cp.pos) = {}
  <2>1. cp' = [cp EXCEPT !.pc = "done"] /\ UNCHANGED dst
    BY <1>4 DEF CopyRange
  <2>2. /\ cp' \in CopyCalls /\ cp'.how = cp.how /\ cp'.pos = cp.pos /\ cp'.off = cp.off
        /\ cp'.out_pos = cp.out_pos /\ cp'.pc = "done" /\ cp'.idle = cp.idle
    BY <1>2, <2>1 DEF CopyTypeOK, CopyCalls, Steps
  <2>3. CopyTypeOK'
    BY <1>1, <1>2, <2>2, TypeKeeps
  <2>4. dst' = src
    BY <1>2, <1>3, <1>4, <2>1, CopiedIsSource
  <2>5. SmartInv'
    BY <1>3, <2>2, <2>4, <1>1 DEF SmartInv
  <2> QED BY <1>1, <2>2, <2>3, <2>5 DEF CopyInv
<1>5. CASE DataFrom(cp.pos) # {}
  <2>1. PICK p : p = Min(DataFrom(cp.pos))
    OBVIOUS
  <2>2. /\ p \in Nat /\ cp.pos <= p /\ p < Len(src)
        /\ \A y \in DataFrom(cp.pos) : p <= y
    <3>1. DataFrom(cp.pos) \in SUBSET Nat
      BY <1>2 DEF DataFrom
    <3>2. p \in DataFrom(cp.pos) /\ \A y \in DataFrom(cp.pos) : p <= y
      BY <3>1, <2>1, <1>5, LeastNumber
    <3> QED BY <3>2, <1>2 DEF DataFrom
  <2>3. PICK h : h = Min({i \in p..Len(src) : i = Len(src) \/ i \in holes})
    OBVIOUS
  <2>4. h \in Nat /\ h <= Len(src)
    <3> DEFINE H == {i \in p..Len(src) : i = Len(src) \/ i \in holes}
    <3>1. H \in SUBSET Nat /\ H # {}
      BY <1>2, <2>2
    <3>2. h \in H
      BY <3>1, <2>3, LeastNumber
    <3> QED BY <3>2, <1>2, <2>2
  <2>5. cp.off + p - cp.out_pos = p
    BY <1>2, <1>3, <2>2
  <2>a. \A i \in 1..Len(src) : i > cp.pos /\ i <= p => src[i] = 0
    <3> TAKE i \in 1..Len(src)
    <3> HAVE i > cp.pos /\ i <= p
    <3>1. i - 1 \in Nat /\ i - 1 \in cp.pos..(Len(src) - 1) /\ ~(p <= i - 1)
      BY <1>2, <2>2
    <3>2. i - 1 \in holes
      BY <3>1, <2>2 DEF DataFrom
    <3> QED BY <3>1, <3>2, <1>2 DEF CopyTypeOK
  <2>b. CASE /\ dst' = dst
             /\ cp' = [cp EXCEPT !.pos = p, !.off = p, !.out_pos = p, !.idle = TRUE, !.pc = "done"]
    <3>1. /\ cp' \in CopyCalls /\ cp'.how = cp.how /\ cp'.pos = p /\ cp'.off = p /\ cp'.out_pos = p
          /\ cp'.pc = "done" /\ cp'.idle = TRUE
      BY <2>b, <2>2, <1>2 DEF CopyTypeOK, CopyCalls, Steps
    <3>2. CopyTypeOK'
      BY <1>1, <1>2, <2>2, <3>1, TypeKeeps
    <3>3. \A i \in 1..Len(src) : dst[i] = IF i <= p THEN src[i] ELSE 0
      BY <1>2, <1>3, <2>2, <2>a DEF CopiedTo
    <3>4. CopiedTo(cp.pos)'
      BY <1>1, <1>3, <2>b, <3>1, <3>3 DEF CopiedTo
    <3>5. SmartInv'
      BY <3>1, <3>4 DEF SmartInv
    <3> QED BY <1>1, <3>1, <3>2, <3>5 DEF CopyInv
  <2> DEFINE Moves == \E n \in 1..(h - p) :
                        /\ dst' = WrittenAt(dst, p, SubSeq(src, p + 1, p + n))
                        /\ cp' = [cp EXCEPT !.pos = p + n, !.off = p + n, !.out_pos = p + n, !.total = @ + n,
                                            !.pc = IF p + n = Len(src) THEN "done" ELSE "copy"]
  <2> SUFFICES ASSUME Moves PROVE CopyInv'
    BY <1>5, <2>1, <2>3, <2>5, <2>b DEF CopyRange
  <2>6. PICK n \in 1..(h - p) :
          /\ dst' = WrittenAt(dst, p, SubSeq(src, p + 1, p + n))
          /\ cp' = [cp EXCEPT !.pos = p + n, !.off = p + n, !.out_pos = p + n, !.total = @ + n,
                              !.pc = IF p + n = Len(src) THEN "done" ELSE "copy"]
    OBVIOUS
  <2> HIDE DEF Moves
  <2>7. n \in Nat /\ p + n <= Len(src) /\ p + n \in Nat
    BY <2>2, <2>4, <1>2
  <2>8. PICK c \in Seq(Bytes) : c = SubSeq(src, p + 1, p + n) /\ Len(c) = n /\ \A i \in 1..n : c[i] = src[p + i]
    <3>1. /\ SubSeq(src, p + 1, p + n) \in Seq(Bytes) /\ Len(SubSeq(src, p + 1, p + n)) = n
          /\ \A i \in 1..n : SubSeq(src, p + 1, p + n)[i] = src[p + i]
      BY <2>2, <2>7, <1>2, PartOf, Zenon
    <3> QED BY <3>1, Zenon
  <2>9. /\ dst' \in Seq(Bytes)
        /\ Len(dst') = IF Len(dst) > p + Len(c) THEN Len(dst) ELSE p + Len(c)
        /\ \A i \in 1..Len(dst') : dst'[i] = IF i > p /\ i <= p + Len(c) THEN c[i - p]
                                           ELSE IF i <= Len(dst) THEN dst[i] ELSE 0
    <3>1. dst' = WrittenAt(dst, p, c)
      BY <2>6, <2>8
    <3> QED BY <3>1, <2>2, <1>3, WrittenProperties, Zenon
  <2>10. Len(dst') = Len(src)
    BY <2>2, <2>7, <2>8, <2>9, <1>2, <1>3
  <2>11. \A i \in 1..Len(src) : i > p /\ i <= p + n => dst'[i] = src[i]
    <3> TAKE i \in 1..Len(src)
    <3> HAVE i > p /\ i <= p + n
    <3>1. i - p \in 1..n /\ p + (i - p) = i /\ i \in 1..Len(dst')
      BY <2>2, <2>7, <2>10
    <3>2. dst'[i] = c[i - p]
      BY <3>1, <2>8, <2>9
    <3> QED BY <3>1, <3>2, <2>8
  <2>12. \A i \in 1..Len(src) : ~(i > p /\ i <= p + n) => dst'[i] = dst[i]
    BY <2>8, <2>9, <2>10, <1>3
  <2>13. \A i \in 1..Len(src) : dst'[i] = IF i <= p + n THEN src[i] ELSE 0
    <3> TAKE i \in 1..Len(src)
    <3>1. dst[i] = IF i <= cp.pos THEN src[i] ELSE 0
      BY <1>3 DEF CopiedTo
    <3>2. CASE i > p /\ i <= p + n
      BY <3>2, <2>11
    <3>3. CASE i <= p
      <4>1. dst'[i] = dst[i] /\ i <= p + n
        BY <3>3, <2>2, <2>7, <2>12
      <4> QED BY <3>1, <3>3, <4>1, <2>2, <2>a, <1>2
    <3>4. CASE i > p + n
      <4>1. dst'[i] = dst[i] /\ ~(i <= cp.pos)
        BY <3>4, <2>2, <2>7, <2>12, <1>2
      <4> QED BY <3>1, <3>4, <4>1, <2>7
    <3> QED BY <3>2, <3>3, <3>4, <2>2, <2>7
  <2>14. /\ cp' \in CopyCalls /\ cp'.how = cp.how /\ cp'.pos = p + n /\ cp'.off = p + n /\ cp'.out_pos = p + n
         /\ cp'.idle = cp.idle
         /\ cp'.pc = IF p + n = Len(src) THEN "done" ELSE "copy"
    <3>1. PICK q \in {"done", "copy"}, t \in Nat :
            /\ q = IF p + n = Len(src) THEN "done" ELSE "copy"
            /\ cp' = [cp EXCEPT !.pos = p + n, !.off = p + n, !.out_pos = p + n, !.total = t, !.pc = q]
      <4>1. cp.total + n \in Nat
        BY <1>2, <2>7
      <4> QED BY <4>1, <2>6
    <3> QED BY <3>1, <2>7, <1>2 DEF CopyTypeOK, CopyCalls, Steps
  <2>15. CopyTypeOK'
    BY <1>1, <1>2, <2>7, <2>14, TypeKeeps
  <2>16. CopiedTo(cp.pos)'
    BY <1>1, <2>9, <2>10, <2>13, <2>14 DEF CopiedTo
  <2>17. p + n = Len(src) => dst' = src
    <3> SUFFICES ASSUME p + n = Len(src) PROVE dst' = src
      OBVIOUS
    <3>1. \A i \in 1..Len(dst') : dst'[i] = src[i]
      BY <2>10, <2>13
    <3> QED BY <3>1, <2>9, <2>10, <1>2, SameBytes
  <2>18. SmartInv'
    BY <1>1, <1>3, <2>14, <2>16, <2>17 DEF SmartInv
  <2> QED BY <1>1, <2>14, <2>15, <2>18 DEF CopyInv
<1> QED BY <1>4, <1>5

LEMMA SmartFailKeeps == CopyInv /\ SmartFails => CopyInv'
BY FailKeeps DEF SmartFails, Is, Steps

-----------------------------------------------------------------------------
LEMMA OpenBothKeeps == CopyInv /\ OpenBoth => CopyInv'
<1> SUFFICES ASSUME CopyInv, OpenBoth PROVE CopyInv'
  OBVIOUS
<1>1. cp.how = "stdio" /\ cp.pc = "open" /\ UNCHANGED <<src, holes, dst>> /\ cp' = [cp EXCEPT !.pc = "fread"]
  BY DEF OpenBoth, Is, FilesSame
<1>2. CopyTypeOK /\ StdioInv
  BY <1>1 DEF CopyInv
<1>3. /\ cp' \in CopyCalls /\ cp'.how = cp.how /\ cp'.pos = cp.pos /\ cp'.buf = cp.buf /\ cp'.eof = cp.eof
      /\ cp'.pc = "fread"
  BY <1>1, <1>2 DEF CopyTypeOK, CopyCalls, Steps
<1>4. CopyTypeOK'
  BY <1>1, <1>2, <1>3, TypeKeeps DEF CopyTypeOK
<1>5. StdioInv'
  BY <1>1, <1>2, <1>3 DEF StdioInv, AgreesTo, BufferedFrom
<1> QED BY <1>1, <1>3, <1>4, <1>5 DEF CopyInv

LEMMA FReadKeeps == CopyInv /\ FRead => CopyInv'
<1> SUFFICES ASSUME CopyInv, FRead PROVE CopyInv'
  OBVIOUS
<1>1. cp.how = "stdio" /\ cp.pc = "fread" /\ UNCHANGED <<src, holes, dst>>
  BY DEF FRead, Is, FilesSame
<1>2. CopyTypeOK /\ StdioInv /\ src \in Seq(Bytes) /\ Len(src) \in Nat /\ cp.pos \in Nat /\ cp.pos <= Len(src)
  BY <1>1 DEF CopyInv, CopyTypeOK, CopyCalls
<1>3. AgreesTo(Len(dst)) /\ Len(dst) \in Nat /\ Len(dst) = cp.pos
  <2>1. AgreesTo(Len(dst)) /\ BufferedFrom(Len(dst)) /\ cp.buf = <<>>
    BY <1>1, <1>2 DEF StdioInv
  <2>2. Len(dst) \in Nat
    BY <2>1 DEF AgreesTo
  <2> QED BY <2>1, <2>2, NoBytes DEF BufferedFrom
<1>4. PICK n : n = Shorter(BLK_SIZE, Remaining)
  OBVIOUS
<1>5. n \in Nat /\ cp.pos + n <= Len(src) /\ (n < BLK_SIZE => cp.pos + n = Len(src)) /\ cp.pos + n \in Nat
  BY <1>2, <1>4, CopyAssumption DEF Shorter, Remaining
<1>6. PICK c \in Seq(Bytes) : c = Chunk(n) /\ Len(c) = n /\ \A i \in 1..n : c[i] = src[cp.pos + i]
  <2>1. /\ SubSeq(src, cp.pos + 1, cp.pos + n) \in Seq(Bytes) /\ Len(SubSeq(src, cp.pos + 1, cp.pos + n)) = n
        /\ \A i \in 1..n : SubSeq(src, cp.pos + 1, cp.pos + n)[i] = src[cp.pos + i]
    BY <1>2, <1>5, PartOf, Zenon
  <2> QED BY <2>1, Zenon DEF Chunk
<1>7. cp' = [cp EXCEPT !.buf = c, !.pos = cp.pos + n, !.eof = n < BLK_SIZE, !.pc = "fwrite"]
  BY <1>4, <1>6 DEF FRead
<1>8. /\ cp'.how = cp.how /\ cp'.pos = cp.pos + n /\ cp'.buf = c /\ cp'.eof = (n < BLK_SIZE) /\ cp'.pc = "fwrite"
  BY <1>7, <1>2 DEF CopyTypeOK, CopyCalls
<1>9. cp' \in CopyCalls
  <2>1. PICK e \in BOOLEAN : cp' = [cp EXCEPT !.buf = c, !.pos = cp.pos + n, !.eof = e, !.pc = "fwrite"]
    <3>1. CASE n < BLK_SIZE
      <4>1. (n < BLK_SIZE) = TRUE
        BY <3>1
      <4> QED BY <4>1, <1>7, Zenon
    <3>2. CASE ~(n < BLK_SIZE)
      <4>1. (n < BLK_SIZE) = FALSE
        BY <3>2
      <4> QED BY <4>1, <1>7, Zenon
    <3> QED BY <3>1, <3>2
  <2> QED BY <2>1, <1>2, <1>5 DEF CopyTypeOK, CopyCalls, Steps
<1>10. CopyTypeOK'
  BY <1>1, <1>2, <1>5, <1>8, <1>9, TypeKeeps
<1>11. AgreesTo(Len(dst))' /\ BufferedFrom(Len(dst))'
  BY <1>1, <1>3, <1>5, <1>6, <1>8 DEF AgreesTo, BufferedFrom
<1>12. cp'.eof => cp'.pos = Len(src)'
  BY <1>1, <1>5, <1>8
<1>13. StdioInv'
  BY <1>8, <1>11, <1>12 DEF StdioInv
<1> QED BY <1>1, <1>8, <1>10, <1>13 DEF CopyInv

LEMMA FWriteKeeps == CopyInv /\ FWrite => CopyInv'
<1> SUFFICES ASSUME CopyInv, FWrite PROVE CopyInv'
  OBVIOUS
<1>1. /\ cp.how = "stdio" /\ cp.pc = "fwrite" /\ UNCHANGED <<src, holes>> /\ dst' = dst \o cp.buf
      /\ cp' = [cp EXCEPT !.buf = <<>>, !.pc = IF cp.eof THEN "fclose" ELSE "fread"]
  BY DEF FWrite, Is, FilesSame
<1>2. /\ CopyTypeOK /\ StdioInv /\ src \in Seq(Bytes) /\ Len(src) \in Nat
      /\ cp.pos \in Nat /\ cp.pos <= Len(src) /\ cp.buf \in Seq(Bytes)
  BY <1>1 DEF CopyInv, CopyTypeOK, CopyCalls
<1>3. AgreesTo(Len(dst)) /\ BufferedFrom(Len(dst)) /\ (cp.eof => cp.pos = Len(src))
  BY <1>1, <1>2 DEF StdioInv
<1>4. dst \in Seq(Bytes) /\ Len(dst) \in Nat /\ Len(cp.buf) \in Nat /\ Len(dst) + Len(cp.buf) = cp.pos
  BY <1>2, <1>3 DEF AgreesTo, BufferedFrom
<1>5. /\ dst' \in Seq(Bytes) /\ Len(dst') = Len(dst) + Len(cp.buf)
      /\ \A i \in 1..Len(dst) : dst'[i] = dst[i]
      /\ \A i \in 1..Len(cp.buf) : dst'[Len(dst) + i] = cp.buf[i]
  BY <1>1, <1>2, <1>4, ConcatBytes, Zenon
<1>6. ASSUME NEW i \in 1..Len(dst') PROVE dst'[i] = src[i]
  <2>1. CASE i <= Len(dst)
    BY <2>1, <1>3, <1>4, <1>5 DEF AgreesTo
  <2>2. CASE i > Len(dst)
    <3>1. i - Len(dst) \in 1..Len(cp.buf) /\ Len(dst) + (i - Len(dst)) = i
      BY <2>2, <1>4, <1>5
    <3> QED BY <3>1, <1>3, <1>5 DEF BufferedFrom
  <2> QED BY <2>1, <2>2, <1>4
<1>7. /\ cp'.how = cp.how /\ cp'.pos = cp.pos /\ cp'.buf = <<>> /\ cp'.eof = cp.eof /\ cp'.ret = cp.ret
      /\ cp'.pc = IF cp.eof THEN "fclose" ELSE "fread"
  BY <1>1, <1>2 DEF CopyTypeOK, CopyCalls
<1>8. cp' \in CopyCalls
  BY <1>1, <1>2, NoBytes DEF CopyTypeOK, CopyCalls, Steps
<1>9. CopyTypeOK'
  BY <1>1, <1>2, <1>7, <1>8, TypeKeeps
<1>10. CASE cp.eof
  <2>1. dst' = src
    BY <1>10, <1>2, <1>3, <1>4, <1>5, <1>6, SameBytes
  <2> QED BY <2>1, <1>1, <1>7, <1>9, <1>10 DEF CopyInv, StdioInv
<1>11. CASE ~cp.eof
  <2>1. AgreesTo(Len(dst))' /\ BufferedFrom(Len(dst))'
    BY <1>1, <1>2, <1>4, <1>5, <1>6, <1>7, NoBytes DEF AgreesTo, BufferedFrom
  <2> QED BY <2>1, <1>1, <1>7, <1>9, <1>11 DEF CopyInv, StdioInv
<1> QED BY <1>10, <1>11

LEMMA FCloseKeeps == CopyInv /\ FClose => CopyInv'
<1> SUFFICES ASSUME CopyInv, FClose PROVE CopyInv'
  OBVIOUS
<1>1. cp.how = "stdio" /\ cp.pc = "fclose" /\ UNCHANGED <<src, holes, dst>> /\ cp' = [cp EXCEPT !.pc = "done"]
  BY DEF FClose, Is, FilesSame
<1>2. CopyTypeOK /\ StdioInv
  BY <1>1 DEF CopyInv
<1>3. cp' \in CopyCalls /\ cp'.how = cp.how /\ cp'.pos = cp.pos /\ cp'.ret = cp.ret /\ cp'.pc = "done"
  BY <1>1, <1>2 DEF CopyTypeOK, CopyCalls, Steps
<1>4. CopyTypeOK'
  BY <1>1, <1>2, <1>3, TypeKeeps DEF CopyTypeOK
<1>5. StdioInv'
  BY <1>1, <1>2, <1>3 DEF StdioInv
<1> QED BY <1>1, <1>3, <1>4, <1>5 DEF CopyInv

LEMMA StdioFailKeeps == CopyInv /\ StdioFails => CopyInv'
<1> SUFFICES ASSUME CopyInv, StdioFails PROVE CopyInv'
  OBVIOUS
<1>1. CASE \E pc \in {"open", "fclose"} : Is("stdio", pc) /\ Fails("done")
  BY <1>1, FailKeeps DEF Is, Steps
<1>2. CASE \E pc \in {"fread", "fwrite"} : Is("stdio", pc) /\ Fails("fclose")
  BY <1>2, FailKeeps DEF Is, Steps
<1> QED BY <1>1, <1>2 DEF StdioFails

-----------------------------------------------------------------------------
\* A part of a file without zeros is written whole.
LEMMA WholeText ==
  ASSUME CopyTypeOK, 0 \notin Range(src), NEW n \in Nat, cp.pos + n <= Len(src)
  PROVE  /\ TextOf(Chunk(n)) \in Seq(Bytes) /\ Len(TextOf(Chunk(n))) = n
         /\ \A i \in 1..n : TextOf(Chunk(n))[i] = src[cp.pos + i]
<1>1. src \in Seq(Bytes) /\ cp.pos \in Nat /\ Len(src) \in Nat
  BY DEF CopyTypeOK, CopyCalls
<1>2. PICK c \in Seq(Bytes) : c = Chunk(n) /\ Len(c) = n /\ \A i \in 1..n : c[i] = src[cp.pos + i]
  BY <1>1, PartOf, Zenon DEF Chunk
<1>3. \A j \in 1..Len(src) : src[j] # 0
  BY <1>1 DEF Range
<1>4. {i \in DOMAIN c : c[i] = 0} = {}
  BY <1>1, <1>2, <1>3
<1>5. TextOf(c) = c
  BY <1>4, Zenon DEF TextOf
<1> QED BY <1>2, <1>5

LEMMA ReadKeeps == CopyInv /\ FileReadFromFd => CopyInv'
<1> SUFFICES ASSUME CopyInv, FileReadFromFd PROVE CopyInv'
  OBVIOUS
<1>1. cp.how = "read" /\ cp.pc = "fill" /\ UNCHANGED <<src, holes>>
  BY DEF FileReadFromFd, Is, FilesSame
<1>2. CopyTypeOK /\ ReadInv /\ src \in Seq(Bytes) /\ Len(src) \in Nat /\ cp.pos \in Nat /\ cp.pos <= Len(src)
  BY <1>1 DEF CopyInv, CopyTypeOK, CopyCalls
<1>3. ~cp.truncated
  BY <1>1, <1>2 DEF ReadInv
<1>4. 0 \notin Range(src) =>
        /\ dst \in Seq(Bytes) /\ Len(dst) = cp.pos /\ cp.pos <= MAX_READ
        /\ \A i \in 1..cp.pos : dst[i] = src[i]
  BY <1>1, <1>2 DEF ReadInv, AgreesTo
<1>5. CASE Remaining = 0 /\ cp' = [cp EXCEPT !.pc = "done"] /\ UNCHANGED dst
  <2>1. /\ cp' \in CopyCalls /\ cp'.how = cp.how /\ cp'.pos = cp.pos /\ cp'.pc = "done"
        /\ cp'.truncated = cp.truncated
    BY <1>2, <1>5 DEF CopyTypeOK, CopyCalls, Steps
  <2>2. CopyTypeOK'
    BY <1>1, <1>2, <2>1, TypeKeeps
  <2>3. 0 \notin Range(src) => dst = SubSeq(src, 1, Shorter(MAX_READ, Len(src))) /\ ~(Len(src) > MAX_READ)
    <3> SUFFICES ASSUME 0 \notin Range(src)
                 PROVE  dst = SubSeq(src, 1, Shorter(MAX_READ, Len(src))) /\ ~(Len(src) > MAX_READ)
      OBVIOUS
    <3>1. cp.pos = Len(src) /\ Len(src) <= MAX_READ
      BY <1>2, <1>4, <1>5 DEF Remaining
    <3>2. Shorter(MAX_READ, Len(src)) = Len(src) /\ ~(Len(src) > MAX_READ)
      BY <3>1, <1>2, CopyAssumption DEF Shorter
    <3>3. dst = src
      BY <3>1, <1>2, <1>4, SameBytes
    <3> QED BY <3>2, <3>3, <1>2
  <2>4. ReadInv'
    BY <1>1, <1>3, <1>5, <2>1, <2>3 DEF ReadInv
  <2> QED BY <1>1, <2>1, <2>2, <2>4 DEF CopyInv
<1>6. ASSUME NEW n \in 1..Shorter(BLK_SIZE, Remaining), n + Len(dst) > MAX_READ,
             dst' = dst \o TextOf(Chunk(MAX_READ - Len(dst))),
             cp' = [cp EXCEPT !.truncated = TRUE, !.pc = "done"]
      PROVE  CopyInv'
  <2>1. /\ cp' \in CopyCalls /\ cp'.how = cp.how /\ cp'.pos = cp.pos /\ cp'.pc = "done" /\ cp'.truncated = TRUE
    BY <1>2, <1>6 DEF CopyTypeOK, CopyCalls, Steps
  <2>2. CopyTypeOK'
    BY <1>1, <1>2, <2>1, TypeKeeps
  <2>3. 0 \notin Range(src) => dst' = SubSeq(src, 1, Shorter(MAX_READ, Len(src))) /\ Len(src) > MAX_READ
    <3> SUFFICES ASSUME 0 \notin Range(src)
                 PROVE  dst' = SubSeq(src, 1, Shorter(MAX_READ, Len(src))) /\ Len(src) > MAX_READ
      OBVIOUS
    <3>1. n \in Nat /\ cp.pos + n <= Len(src)
      BY <1>2, CopyAssumption DEF Shorter, Remaining
    <3>2. PICK m \in Nat : m = MAX_READ - Len(dst)
      BY <1>4, <1>2, CopyAssumption
    <3>3. cp.pos + m = MAX_READ /\ m < n /\ cp.pos + m <= Len(src) /\ Len(src) > MAX_READ
      <4>1. /\ cp.pos \in Nat /\ Len(src) \in Nat /\ MAX_READ \in Nat
            /\ Len(dst) = cp.pos /\ n + Len(dst) > MAX_READ
        BY <1>2, <1>4, <1>6, CopyAssumption
      <4> QED BY <4>1, <3>1, <3>2
    <3>4. Shorter(MAX_READ, Len(src)) = MAX_READ
      BY <3>3, <1>2, CopyAssumption DEF Shorter
    <3>5. PICK c \in Seq(Bytes) : c = TextOf(Chunk(m)) /\ Len(c) = m /\ \A i \in 1..m : c[i] = src[cp.pos + i]
      BY <3>3, <1>2, WholeText, Zenon
    <3>6. dst' = dst \o c
      BY <3>2, <3>5, <1>6
    <3>7. /\ dst' \in Seq(Bytes) /\ Len(dst') = Len(dst) + Len(c)
          /\ \A i \in 1..Len(dst) : dst'[i] = dst[i]
          /\ \A i \in 1..Len(c) : dst'[Len(dst) + i] = c[i]
      BY <3>6, <1>4, ConcatBytes, Zenon
    <3>8. ASSUME NEW i \in 1..MAX_READ PROVE dst'[i] = src[i]
      <4>1. CASE i <= cp.pos
        BY <4>1, <1>2, <1>4, <3>7
      <4>2. CASE i > cp.pos
        <5>1. i - cp.pos \in 1..m /\ cp.pos + (i - cp.pos) = i
          BY <4>2, <3>3, <1>2
        <5>2. dst'[i] = c[i - cp.pos]
          <6>1. Len(dst) = cp.pos /\ Len(c) = m
            BY <1>4, <3>5
          <6> QED BY <6>1, <5>1, <3>7
        <5> QED BY <5>1, <5>2, <3>5
      <4> QED BY <4>1, <4>2, <1>2
    <3>9. PICK e \in Seq(Bytes) : /\ e = SubSeq(src, 1, MAX_READ) /\ Len(e) = MAX_READ
                                  /\ \A i \in 1..MAX_READ : e[i] = src[i]
      <4>1. MAX_READ \in Nat /\ MAX_READ <= Len(src)
        BY <3>3, <1>2, CopyAssumption
      <4> QED BY <4>1, <1>2, FirstOf, Zenon
    <3>10. Len(dst') = MAX_READ
      BY <3>3, <3>5, <3>7, <1>4
    <3>11. dst' = e
      BY <3>7, <3>8, <3>9, <3>10, SameBytes
    <3> QED BY <3>3, <3>4, <3>9, <3>11
  <2>4. ReadInv'
    BY <1>1, <2>1, <2>3 DEF ReadInv
  <2> QED BY <1>1, <2>1, <2>2, <2>4 DEF CopyInv
<1>7. ASSUME NEW n \in 1..Shorter(BLK_SIZE, Remaining), ~(n + Len(dst) > MAX_READ),
             dst' = dst \o TextOf(Chunk(n)), cp' = [cp EXCEPT !.pos = @ + n]
      PROVE  CopyInv'
  <2>1. n \in Nat /\ cp.pos + n <= Len(src) /\ cp.pos + n \in Nat
    BY <1>2, CopyAssumption DEF Shorter, Remaining
  <2>2. /\ cp' \in CopyCalls /\ cp'.how = cp.how /\ cp'.pos = cp.pos + n /\ cp'.pc = "fill"
        /\ cp'.truncated = cp.truncated
    BY <1>1, <1>2, <1>7, <2>1 DEF CopyTypeOK, CopyCalls, Steps
  <2>3. CopyTypeOK'
    BY <1>1, <1>2, <2>1, <2>2, TypeKeeps
  <2>4. 0 \notin Range(src) => AgreesTo(cp.pos)' /\ Len(dst') = cp.pos + n /\ cp.pos + n <= MAX_READ
    <3> SUFFICES ASSUME 0 \notin Range(src)
                 PROVE  AgreesTo(cp.pos)' /\ Len(dst') = cp.pos + n /\ cp.pos + n <= MAX_READ
      OBVIOUS
    <3>1. PICK c \in Seq(Bytes) : c = TextOf(Chunk(n)) /\ Len(c) = n /\ \A i \in 1..n : c[i] = src[cp.pos + i]
      BY <2>1, <1>2, WholeText, Zenon
    <3>2. dst' = dst \o c
      BY <3>1, <1>7
    <3>3. /\ dst' \in Seq(Bytes) /\ Len(dst') = Len(dst) + Len(c)
          /\ \A i \in 1..Len(dst) : dst'[i] = dst[i]
          /\ \A i \in 1..Len(c) : dst'[Len(dst) + i] = c[i]
      BY <3>2, <1>4, ConcatBytes, Zenon
    <3>4. Len(dst') = cp.pos + n /\ cp.pos + n <= MAX_READ
      BY <3>1, <3>3, <1>2, <1>4, <1>7, <2>1, CopyAssumption
    <3>5. ASSUME NEW i \in 1..(cp.pos + n) PROVE dst'[i] = src[i]
      <4>1. CASE i <= cp.pos
        BY <4>1, <1>2, <1>4, <3>3
      <4>2. CASE i > cp.pos
        <5>1. i - cp.pos \in 1..n /\ cp.pos + (i - cp.pos) = i
          BY <4>2, <2>1, <1>2
        <5>2. dst'[i] = c[i - cp.pos]
          <6>1. Len(dst) = cp.pos /\ Len(c) = n
            BY <1>4, <3>1
          <6> QED BY <6>1, <5>1, <3>3
        <5> QED BY <5>1, <5>2, <3>1
      <4> QED BY <4>1, <4>2, <1>2
    <3>6. ASSUME NEW i \in 1..(cp.pos + n) PROVE src[i] = IF i <= Len(dst') THEN dst'[i] ELSE 0
      <4>1. i <= Len(dst')
        BY <3>4, <2>1
      <4> QED BY <4>1, <3>5
    <3>7. AgreesTo(cp.pos)'
      BY <3>3, <3>6, <2>1, <2>2, <1>1 DEF AgreesTo
    <3> QED BY <3>4, <3>7
  <2>5. ReadInv'
    BY <1>1, <1>3, <2>2, <2>4 DEF ReadInv
  <2> QED BY <1>1, <2>2, <2>3, <2>5 DEF CopyInv
<1> QED BY <1>5, <1>6, <1>7 DEF FileReadFromFd

-----------------------------------------------------------------------------
LEMMA CopyNextKeeps == CopyInv /\ [CopyNext]_copyVars => CopyInv'
<1> SUFFICES ASSUME CopyInv, [CopyNext]_copyVars PROVE CopyInv'
  OBVIOUS
<1>1. CASE FullRead \/ FullWrite \/ WriteHole \/ FileSparseClose \/ ShovelFails
  BY <1>1, FullReadKeeps, FullWriteKeeps, WriteHoleKeeps, SparseCloseKeeps, ShovelFailKeeps
<1>2. CASE Clone \/ Preset \/ Punch \/ CopyRange \/ SmartFails
  BY <1>2, CloneKeeps, PresetKeeps, PunchKeeps, CopyRangeKeeps, SmartFailKeeps
<1>3. CASE OpenBoth \/ FRead \/ FWrite \/ FClose \/ StdioFails
  BY <1>3, OpenBothKeeps, FReadKeeps, FWriteKeeps, FCloseKeeps, StdioFailKeeps
<1>4. CASE FileReadFromFd
  BY <1>4, ReadKeeps
<1>5. CASE ReadFails
  BY <1>5, FailKeeps DEF ReadFails, Is, Steps
<1>6. CASE UNCHANGED copyVars
  BY <1>6 DEF copyVars, CopyInv, CopyTypeOK, ShovelInv, SmartInv, StdioInv, ReadInv, AgreesTo, BufferedFrom, CopiedTo
<1> QED BY <1>1, <1>2, <1>3, <1>4, <1>5, <1>6 DEF CopyNext

\* The invariant holds whatever the sizes of files and blocks are, and however
\* little a read, a write or a copy of a range does.
THEOREM CopyInvariant == CopySpec => []CopyInv
<1>1. CopyInit => CopyInv
  BY InitKeeps
<1>2. CopyInv /\ [CopyNext]_copyVars => CopyInv'
  BY CopyNextKeeps
<1> QED BY <1>1, <1>2, PTL DEF CopySpec

\* Only a copy of ranges ends where the kernel left data.
IdleIsSmart == cp.idle => cp.how = "smart"

LEMMA IdleKeeps == CopyInv /\ IdleIsSmart /\ [CopyNext]_copyVars => IdleIsSmart'
<1> SUFFICES ASSUME CopyInv, IdleIsSmart, CopyNext PROVE IdleIsSmart'
  BY DEF copyVars, IdleIsSmart
<1>1. cp \in CopyCalls
  BY DEF CopyInv, CopyTypeOK
<1>2. CASE FullRead \/ FullWrite \/ WriteHole \/ FileSparseClose \/ ShovelFails
  BY <1>1, <1>2 DEF IdleIsSmart, CopyCalls, FullRead, FullWrite, WriteHole, FileSparseClose, ShovelFails, Fails
<1>3. CASE Clone \/ Preset \/ Punch \/ CopyRange \/ SmartFails
  BY <1>1, <1>3 DEF IdleIsSmart, CopyCalls, Clone, Preset, Punch, CopyRange, SmartFails, Fails, Is
<1>4. CASE OpenBoth \/ FRead \/ FWrite \/ FClose \/ StdioFails
  BY <1>1, <1>4 DEF IdleIsSmart, CopyCalls, OpenBoth, FRead, FWrite, FClose, StdioFails, Fails
<1>5. CASE FileReadFromFd \/ ReadFails
  BY <1>1, <1>5 DEF IdleIsSmart, CopyCalls, FileReadFromFd, ReadFails, Fails
<1> QED BY <1>2, <1>3, <1>4, <1>5 DEF CopyNext

\* FileSparseCopy in both builds and File_Copy report success only if the new
\* file is the source, or agrees with it up to where the kernel said there was
\* nothing to copy; on the way the blocks written agree with it, and a text
\* that FileReadFromFd returns is the beginning of the file, truncated exactly
\* if there is more.
THEOREM CopiesAreExact == CopySpec => []CopiesExact
<1>1. ASSUME CopyInv, IdleIsSmart PROVE CopiesExact
  <2>1. CopyTypeOK /\ cp.how \in {"shovel", "smart", "stdio", "read"}
    BY <1>1 DEF CopyInv, CopyTypeOK, CopyCalls
  <2>2. ASSUME cp.how # "read", cp.pc = "done", cp.ret
        PROVE  dst = IF cp.idle THEN Resized(SubSeq(src, 1, cp.pos), Len(src)) ELSE src
    <3>1. CASE ~cp.idle
      BY <1>1, <2>1, <2>2, <3>1 DEF CopyInv, ShovelInv, SmartInv, StdioInv
    <3>2. CASE cp.idle
      <4>1. CopiedTo(cp.pos)
        BY <1>1, <2>2, <3>2 DEF CopyInv, SmartInv, IdleIsSmart
      <4>2. /\ src \in Seq(Bytes) /\ dst \in Seq(Bytes) /\ cp.pos \in Nat /\ cp.pos <= Len(src)
            /\ Len(src) \in Nat /\ Len(dst) = Len(src)
        BY <2>1, <4>1 DEF CopyTypeOK, CopyCalls, CopiedTo
      <4>3. PICK e \in Seq(Bytes) : /\ e = SubSeq(src, 1, cp.pos) /\ Len(e) = cp.pos
                                    /\ \A i \in 1..cp.pos : e[i] = src[i]
        BY <4>2, FirstOf, Zenon
      <4>4. PICK r \in Seq(Bytes) : /\ r = Resized(e, Len(src)) /\ Len(r) = Len(src)
                                    /\ \A i \in 1..Len(src) : r[i] = IF i <= Len(e) THEN e[i] ELSE 0
        <5>1. /\ Resized(e, Len(src)) \in Seq(Bytes) /\ Len(Resized(e, Len(src))) = Len(src)
              /\ \A i \in 1..Len(src) : Resized(e, Len(src))[i] = IF i <= Len(e) THEN e[i] ELSE 0
          BY <4>2, ResizedProperties
        <5> QED BY <5>1, Zenon
      <4>5. \A i \in 1..Len(dst) : dst[i] = r[i]
        BY <4>1, <4>2, <4>3, <4>4 DEF CopiedTo
      <4>6. dst = r
        BY <4>2, <4>4, <4>5, SameBytes
      <4> QED BY <3>2, <4>3, <4>4, <4>6
    <3> QED BY <3>1, <3>2
  <2>3. ASSUME cp.how = "shovel", cp.pc # "done"
        PROVE  /\ IsPrefix(Resized(dst, cp.off), src)
               /\ cp.total + (IF cp.pc = "write" THEN Len(cp.buf) ELSE 0) <= cp.pos
    <3>1. /\ AgreesTo(cp.off) /\ cp.total <= cp.off /\ cp.off <= cp.pos
          /\ cp.pc = "write" => cp.off + Len(cp.buf) = cp.pos
      BY <1>1, <2>3 DEF CopyInv, ShovelInv, BufferedFrom
    <3>2. /\ src \in Seq(Bytes) /\ dst \in Seq(Bytes) /\ cp.off \in Nat /\ cp.total \in Nat /\ cp.pos \in Nat
          /\ cp.buf \in Seq(Bytes) /\ Len(cp.buf) \in Nat /\ cp.off <= Len(src) /\ Len(src) \in Nat
      BY <2>1, <3>1 DEF CopyTypeOK, CopyCalls, AgreesTo
    <3>3. cp.total + (IF cp.pc = "write" THEN Len(cp.buf) ELSE 0) <= cp.pos
      <4>1. CASE cp.pc = "write"
        BY <4>1, <3>1, <3>2
      <4>2. CASE cp.pc # "write"
        BY <4>2, <3>1, <3>2
      <4> QED BY <4>1, <4>2
    <3>4. PICK r \in Seq(Bytes) : /\ r = Resized(dst, cp.off) /\ Len(r) = cp.off
                                  /\ \A i \in 1..cp.off : r[i] = IF i <= Len(dst) THEN dst[i] ELSE 0
      <4>1. /\ Resized(dst, cp.off) \in Seq(Bytes) /\ Len(Resized(dst, cp.off)) = cp.off
            /\ \A i \in 1..cp.off : Resized(dst, cp.off)[i] = IF i <= Len(dst) THEN dst[i] ELSE 0
        BY <3>2, ResizedProperties
      <4> QED BY <4>1
    <3>5. PICK e \in Seq(Bytes) : /\ e = SubSeq(src, 1, cp.off) /\ Len(e) = cp.off
                                  /\ \A i \in 1..cp.off : e[i] = src[i]
      BY <3>2, FirstOf, Zenon
    <3>6. r = e
      BY <3>1, <3>4, <3>5, SameBytes DEF AgreesTo
    <3>7. SubSeq(r, 1, Len(r)) = r
      BY <3>4
    <3>8. IsPrefix(r, src)
      BY <3>2, <3>4, <3>5, <3>6, <3>7 DEF IsPrefix
    <3> QED BY <3>3, <3>4, <3>8
  <2>4. cp.how = "read" /\ cp.pc = "done" /\ cp.ret /\ 0 \notin Range(src) =>
          dst = SubSeq(src, 1, Shorter(MAX_READ, Len(src))) /\ (cp.truncated <=> Len(src) > MAX_READ)
    BY <1>1 DEF CopyInv, ReadInv
  <2> QED BY <2>2, <2>3, <2>4 DEF CopiesExact
<1>2. CopyInit => IdleIsSmart
  BY DEF CopyInit, IdleIsSmart
<1>3. CopySpec => []IdleIsSmart
  BY <1>2, IdleKeeps, CopyInvariant, PTL DEF CopySpec
<1> QED BY <1>1, <1>3, CopyInvariant, PTL

=============================================================================
