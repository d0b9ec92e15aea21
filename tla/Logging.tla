------------------------------ MODULE Logging -------------------------------
(***************************************************************************)
(* libutils/logging.c: the levels of the process, the context of each      *)
(* thread, made from them when the thread first needs it, the buffer that  *)
(* messages may be held back in, and what reaches the console, the system  *)
(* log and the hook of a thread.  The buffer is one for the process and    *)
(* not thread-safe (logging.h:187): while it is in use its user is the     *)
(* only thread that logs.                                                  *)
(***************************************************************************)
EXTENDS Strings, FiniteSets

CONSTANTS LogThreads,        \* threads
          NoContext,         \* pthread_getspecific gives NULL
          NoHook,            \* no LoggingPrivContext
          LogLevels,         \* levels that are set, and levels of messages
          LogModules,        \* debug modules but LOG_MOD_NONE
          MAX_MESSAGES,      \* bound: messages
          MAX_SETTINGS       \* bound: changes of levels, contexts and hooks

VARIABLES levels,            \* global_level and global_system_log_level
          lctx,              \* LoggingContext of each thread
          sink,              \* the log buffer and what was written
          modules,           \* module_is_enabled
          said,              \* number of messages
          settings,          \* number of changes
          fresh              \* threads whose levels are those of the process

logVars == <<levels, lctx, sink, modules, said, settings, fresh>>

LOG_LEVEL_NOTHING == -1
LOG_LEVEL_WARNING == 3
LOG_LEVEL_NOTICE == 4
LOG_LEVEL_VERBOSE == 6
LOG_LEVEL_DEBUG == 7

NobodysBuffer == [user |-> NoContext, min |-> LOG_LEVEL_NOTHING, max |-> LOG_LEVEL_NOTHING, entries |-> <<>>]

LogInit ==
  /\ levels = [global |-> LOG_LEVEL_NOTICE, system |-> LOG_LEVEL_NOTHING]
  /\ lctx = [t \in LogThreads |-> NoContext]
  /\ sink = [buffer |-> NobodysBuffer, out |-> <<>>, dropped |-> {}]
  /\ modules = {}
  /\ said = 0
  /\ settings = 0
  /\ fresh = {}

-----------------------------------------------------------------------------
Sets == settings < MAX_SETTINGS /\ settings' = settings + 1

\* The level for the system log in a new context.
SystemLevel(v) == IF v.system # LOG_LEVEL_NOTHING THEN v.system ELSE v.global

NewContext == [log_level |-> SystemLevel(levels), report_level |-> levels.global, hook |-> NoHook]

GetCurrentThreadContext(t) == IF lctx[t] = NoContext THEN NewContext ELSE lctx[t]

\* A call that needs the context leaves one.
UsesContext(t) ==
  /\ lctx' = [lctx EXCEPT ![t] = GetCurrentThreadContext(t)]
  /\ fresh' = IF lctx[t] = NoContext THEN fresh \cup {t} ELSE fresh

LoggingFreeCurrentThreadContext(t) ==
  /\ Sets
  /\ lctx' = [lctx EXCEPT ![t] = NoContext]
  /\ fresh' = fresh \ {t}
  /\ UNCHANGED <<levels, sink, modules, said>>

\* LoggingPrivSetContext with a hook that is called from level force on too.
LoggingPrivSetContext(t, hook) ==
  /\ Sets
  /\ lctx' = [lctx EXCEPT ![t] = [GetCurrentThreadContext(t) EXCEPT !.hook = hook]]
  /\ fresh' = IF lctx[t] = NoContext THEN fresh \cup {t} ELSE fresh
  /\ UNCHANGED <<levels, sink, modules, said>>

WithLevels(t, log_level, report_level) ==
  [GetCurrentThreadContext(t) EXCEPT !.log_level = log_level, !.report_level = report_level]

LoggingPrivSetLevels(t, log_level, report_level) ==
  /\ Sets
  /\ lctx' = [lctx EXCEPT ![t] = WithLevels(t, log_level, report_level)]
  /\ fresh' = fresh \ {t}
  /\ UNCHANGED <<levels, sink, modules, said>>

\* The levels of the process change; only this thread takes them over.
SetsLevels(t, v, log_level, report_level) ==
  /\ Sets
  /\ levels' = v
  /\ lctx' = [lctx EXCEPT ![t] = WithLevels(t, log_level, report_level)]
  /\ fresh' = {t}
  /\ UNCHANGED <<sink, modules, said>>

LogSetGlobalLevel(t, level) ==
  SetsLevels(t, [levels EXCEPT !.global = level],
             IF levels.system = LOG_LEVEL_NOTHING THEN level ELSE levels.system, level)

LogSetGlobalSystemLogLevel(t, level) ==
  SetsLevels(t, [levels EXCEPT !.system = level], level, levels.global)

LogUnsetGlobalSystemLogLevel(t) ==
  SetsLevels(t, [levels EXCEPT !.system = LOG_LEVEL_NOTHING], levels.global, levels.global)

-----------------------------------------------------------------------------
ToConsole(c, level) == level <= c.report_level
ToSystemLog(c, level) == level <= c.log_level /\ level < LOG_LEVEL_VERBOSE
ForceHook(c, level) == c.hook # NoHook /\ c.hook >= level

WouldLog(c, level) == ToConsole(c, level) \/ ToSystemLog(c, level) \/ ForceHook(c, level)

\* Where a message that is logged goes, in this order.
WrittenTo(c, m) ==
  LET line(to) == <<[to |-> to, msg |-> m]>>
  IN  (IF c.hook # NoHook THEN line("hook") ELSE <<>>)
        \o (IF ToConsole(c, m.level) THEN line("console") ELSE <<>>)
        \o (IF ToSystemLog(c, m.level) THEN line("syslog") ELSE <<>>)

HeldBack(s, level) == s.buffer.user # NoContext /\ level >= s.buffer.min /\ level <= s.buffer.max

\* VLogNoFormat in a thread with context c: s is what the sink was.
VLogNoFormat(s, c, m) ==
  IF ~ToConsole(c, m.level) /\ ~ToSystemLog(c, m.level) /\ ~ForceHook(c, m.level)
  THEN [s EXCEPT !.dropped = @ \cup {m}]
  ELSE IF HeldBack(s, m.level) THEN [s EXCEPT !.buffer.entries = Append(@, m)]
  ELSE [s EXCEPT !.out = @ \o WrittenTo(c, m)]

MayLog(t) == sink.buffer.user \in {NoContext, t} /\ said < MAX_MESSAGES

Message(t, level) == [id |-> said + 1, by |-> t, level |-> level]

\* Log, and VLog.
Log(t, level) ==
  /\ MayLog(t)
  /\ UsesContext(t)
  /\ sink' = VLogNoFormat(sink, GetCurrentThreadContext(t), Message(t, level))
  /\ said' = said + 1
  /\ UNCHANGED <<levels, modules, settings>>

\* LogRaw: the level is compared first, without the hook.
LogRaw(t, level) ==
  LET c == GetCurrentThreadContext(t)
      m == Message(t, level)
  IN  /\ MayLog(t)
      /\ UsesContext(t)
      /\ sink' = IF level <= c.report_level \/ level <= c.log_level THEN VLogNoFormat(sink, c, m)
                 ELSE [sink EXCEPT !.dropped = @ \cup {m}]
      /\ said' = said + 1
      /\ UNCHANGED <<levels, modules, settings>>

LogDebug(t, mod) == mod \in modules /\ Log(t, LOG_LEVEL_DEBUG)

\* LogEnableModulesFromString: "help" ends it, a name that is none is warned of.
EnabledBy(token) == IF token = "all" THEN LogModules ELSE {token} \cap LogModules

LogEnableModulesFromString(t, tokens) ==
  LET helps == {i \in DOMAIN tokens : tokens[i] = "help"}
      used == IF helps = {} THEN tokens ELSE SubSeq(tokens, 1, (CHOOSE i \in helps : \A j \in helps : i <= j) - 1)
      unknown == SelectSeq(used, LAMBDA x : EnabledBy(x) = {})
      warn(s, i) == VLogNoFormat(s, GetCurrentThreadContext(t),
                                 [id |-> said + i, by |-> t, level |-> LOG_LEVEL_WARNING])
  IN  /\ MayLog(t) /\ said + Len(unknown) <= MAX_MESSAGES
      /\ modules' = modules \cup UNION {EnabledBy(used[i]) : i \in DOMAIN used}
      /\ sink' = FoldLeft(warn, sink, [i \in DOMAIN unknown |-> i])
      /\ said' = said + Len(unknown)
      /\ IF unknown = <<>> THEN UNCHANGED <<lctx, fresh>> ELSE UsesContext(t)
      /\ UNCHANGED <<levels, settings>>

-----------------------------------------------------------------------------
StartLoggingIntoBuffer(t, min_level, max_level) ==
  /\ sink.buffer.user = NoContext
  /\ sink' = [sink EXCEPT !.buffer = [user |-> t, min |-> min_level, max |-> max_level, entries |-> <<>>]]
  /\ UNCHANGED <<levels, lctx, modules, said, settings, fresh>>

DiscardLogBuffer(t) ==
  /\ sink.buffer.user = t
  /\ sink' = [sink EXCEPT !.buffer = NobodysBuffer, !.dropped = @ \cup Range(sink.buffer.entries)]
  /\ UNCHANGED <<levels, lctx, modules, said, settings, fresh>>

\* Mutant: the buffer is still in use while its messages are logged.
CommitStillHeld(t) ==
  /\ sink.buffer.user = t
  /\ UsesContext(t)
  /\ sink' = [FoldLeft(LAMBDA s, m : VLogNoFormat(s, GetCurrentThreadContext(t), m), sink, sink.buffer.entries)
                EXCEPT !.buffer = NobodysBuffer]
  /\ UNCHANGED <<levels, modules, said, settings>>

\* The messages are logged by the levels that hold now.
CommitLogBuffer(t) ==
  /\ sink.buffer.user = t
  /\ IF sink.buffer.entries = <<>> THEN UNCHANGED <<lctx, fresh>> ELSE UsesContext(t)
  /\ sink' = FoldLeft(LAMBDA s, m : VLogNoFormat(s, GetCurrentThreadContext(t), m),
                      [sink EXCEPT !.buffer = NobodysBuffer], sink.buffer.entries)
  /\ UNCHANGED <<levels, modules, said, settings>>

\* The names by level, and the names an argument is compared with, in order.
LogLevelToString ==
  <<<<"C", "R", "I", "T", "I", "C", "A", "L">>,
    <<"e", "r", "r", "o", "r">>, <<"w", "a", "r", "n", "i", "n", "g">>,
    <<"n", "o", "t", "i", "c", "e">>, <<"i", "n", "f", "o">>,
    <<"v", "e", "r", "b", "o", "s", "e">>, <<"d", "e", "b", "u", "g">>>>

LevelArguments ==
  <<<<"C", "R", "I", "T", "I", "C", "A", "L">>, <<"e", "r", "r", "o", "r", "s">>,
    <<"w", "a", "r", "n", "i", "n", "g", "s">>, <<"n", "o", "t", "i", "c", "e", "s">>,
    <<"i", "n", "f", "o", "r", "m", "a", "t", "i", "o", "n">>,
    <<"v", "e", "r", "b", "o", "s", "e">>, <<"d", "e", "b", "u", "g">>,
    <<"n", "o", "n", "e">>>>

\* Any beginning of a name, in either case; "none" is level 0.
LogLevelFromString(s) ==
  LET named == {i \in DOMAIN LevelArguments : StringSafeCompareN_IgnoreCase(s, LevelArguments[i], Len(s)) = 0}
  IN  IF s = <<>> \/ named = {} THEN LOG_LEVEL_NOTHING ELSE First(named) % 8

LevelNamed == [level \in DOMAIN LogLevelToString |-> LogLevelFromString(LogLevelToString[level])]

\* LogSetGlobalLevelArgOrExit with the name of a level.
LogSetGlobalLevelArgOrExit(t, level) == LogSetGlobalLevel(t, LevelNamed[level])

LogNext ==
  \E t \in LogThreads :
    \/ LoggingFreeCurrentThreadContext(t)
    \/ LogUnsetGlobalSystemLogLevel(t)
    \/ DiscardLogBuffer(t)
    \/ CommitLogBuffer(t)
    \/ \E hook \in LogLevels \cup {NoHook} : LoggingPrivSetContext(t, hook)
    \/ \E mod \in LogModules : LogDebug(t, mod)
    \/ \E a, b \in LogModules \cup {"help", "all", "unknown"} : LogEnableModulesFromString(t, <<a, b>>)
    \/ \E level \in LogLevels :
         \/ LogSetGlobalLevelArgOrExit(t, level)
         \/ LogSetGlobalSystemLogLevel(t, level)
         \/ Log(t, level)
         \/ LogRaw(t, level)
         \/ \E other \in LogLevels :
              \/ LoggingPrivSetLevels(t, level, other)
              \/ level <= other /\ StartLoggingIntoBuffer(t, level, other)

-----------------------------------------------------------------------------
HeldMessages == sink.buffer.entries
OutAt(to) == SelectSeq(sink.out, LAMBDA x : x.to = to)

\* No message is lost and none is written twice to one place: what was said was
\* refused by the levels or discarded, waits in the buffer, or was written.
\* Messages of one level come out in the order they were said, whatever was
\* held back, committed and logged directly in between.
MessagesWrittenOnce ==
  LET out == {sink.out[i].msg : i \in DOMAIN sink.out}
  IN  /\ Cardinality(sink.dropped) + Len(HeldMessages) + Cardinality(out) = said
      /\ sink.dropped \cap (out \cup Range(HeldMessages)) = {} /\ out \cap Range(HeldMessages) = {}
      /\ \A to \in {"hook", "console", "syslog"} : \A i, j \in DOMAIN OutAt(to) :
           i < j => LET a == OutAt(to)[i].msg b == OutAt(to)[j].msg
                    IN  a.id # b.id /\ (a.level = b.level => a.id < b.id)

\* A thread that made its context, or set a level of the process, after the last
\* change of these levels by another thread logs by them, unless it was given
\* levels of its own: the system log by its own level whenever there is one.
\* WouldLog tells whether a message would be written or held back, and the name
\* of a level is understood as that level.
LevelsFollowGlobals ==
  /\ said + settings = 0 => \A level \in DOMAIN LogLevelToString : LevelNamed[level] = level
  /\ \A t \in fresh : lctx[t].report_level = levels.global /\ lctx[t].log_level = SystemLevel(levels)
  /\ \A t \in LogThreads, level \in LogLevels :
       LET c == GetCurrentThreadContext(t)
       IN  WouldLog(c, level) <=> VLogNoFormat(sink, c, Message(t, level)).dropped = sink.dropped
=============================================================================
