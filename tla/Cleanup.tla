------------------------------ MODULE Cleanup -------------------------------
(***************************************************************************)
(* libutils/cleanup.c: functions registered to be called before the        *)
(* process exits.  They are called with cleanup_functions_mutex held, an   *)
(* ordinary mutex: a function that registers another or exits waits for    *)
(* its own thread.                                                         *)
(***************************************************************************)
EXTENDS Naturals, Sequences, SequencesExt

CONSTANTS CleanupThreads,    \* threads
          Nobody,            \* the mutex is free
          MAX_REGISTERED     \* bound: functions registered

ASSUME CleanupAssumption == Nobody \notin CleanupThreads /\ MAX_REGISTERED \in Nat

VARIABLES fns,               \* cleanup_functions, first to be called first
          holder,            \* who holds cleanup_functions_mutex
          at,                \* where each thread is
          registered,        \* functions registered so far
          called             \* functions called, in order

cleanupVars == <<fns, holder, at, registered, called>>

\* What a cleanup function does besides its work.
CleanupKinds == {"plain", "registers", "exits"}

CleanupInit ==
  /\ fns = <<>> /\ registered = 0 /\ called = <<>>
  /\ holder = Nobody
  /\ at = [t \in CleanupThreads |-> "run"]

Go(t, to) == at' = [at EXCEPT ![t] = to]

Running == \A t \in CleanupThreads : at[t] # "exited"

\* RegisterCleanupFunction: the mutex is held only for the assignments.
RegisterCleanupFunction(t, kind) ==
  /\ at[t] = "run" /\ registered < MAX_REGISTERED
  /\ holder = Nobody
  /\ registered' = registered + 1
  /\ fns' = <<[id |-> registered + 1, kind |-> kind]>> \o fns
  /\ UNCHANGED <<holder, at, called>>

DoCleanupAndExit(t) ==
  /\ at[t] = "run"
  /\ Go(t, "lock")
  /\ UNCHANGED <<fns, holder, registered, called>>

\* CallCleanupFunctions, up to the first function.
LockFunctions(t) ==
  /\ at[t] = "lock" /\ holder = Nobody
  /\ holder' = t
  /\ Go(t, "call")
  /\ UNCHANGED <<fns, registered, called>>

\* Mutant: a function is left in the list when it was called.
CallFunctionKeeps(t) ==
  /\ at[t] = "call" /\ fns # <<>>
  /\ called' = Append(called, [id |-> Head(fns).id, by |-> t])
  /\ UNCHANGED <<fns, at, holder, registered>>

\* A function is called; the node is freed when it returns.  One that calls
\* back into this module waits for the mutex.
CallFunction(t) ==
  /\ at[t] = "call" /\ fns # <<>>
  /\ called' = Append(called, [id |-> Head(fns).id, by |-> t])
  /\ IF Head(fns).kind = "plain" THEN fns' = Tail(fns) /\ UNCHANGED at
     ELSE Go(t, "stuck") /\ UNCHANGED fns
  /\ UNCHANGED <<holder, registered>>

UnlockFunctions(t) ==
  /\ at[t] = "call" /\ fns = <<>>
  /\ holder' = Nobody
  /\ Go(t, "exit")
  /\ UNCHANGED <<fns, registered, called>>

Exit(t) ==
  /\ at[t] = "exit"
  /\ Go(t, "exited")
  /\ UNCHANGED <<fns, holder, registered, called>>

CleanupSteps ==
  Running /\ \E t \in CleanupThreads :
               LockFunctions(t) \/ CallFunction(t) \/ UnlockFunctions(t) \/ Exit(t)

CleanupNext ==
  \/ CleanupSteps
  \/ Running /\ \E t \in CleanupThreads :
       DoCleanupAndExit(t) \/ \E kind \in CleanupKinds : RegisterCleanupFunction(t, kind)

CleanupSpec == CleanupInit /\ [][CleanupNext]_cleanupVars

-----------------------------------------------------------------------------
\* No function that was registered is lost and none is called twice, also when
\* several threads exit, and a thread that exits calls the functions it finds in
\* the reverse order of their registration.
CleanupOnce ==
  LET ids == {called[i].id : i \in DOMAIN called}
      waiting == {fns[i].id : i \in DOMAIN fns}
  IN  /\ \A i, j \in DOMAIN called : i < j => /\ called[i].id # called[j].id
                                              /\ called[i].by = called[j].by => called[i].id > called[j].id
      /\ ids \cup waiting = 1..registered
      /\ ids \cap waiting # {} => \E t \in CleanupThreads : at[t] = "stuck"

\* A thread that exits ends the process, unless a cleanup function registers a
\* function or exits itself: then everyone that needs the mutex waits for ever.
CleanupEnds ==
  (\E t \in CleanupThreads : at[t] = "lock") ~> (~Running \/ \E t \in CleanupThreads : at[t] = "stuck")
=============================================================================
