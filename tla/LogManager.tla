------------------------------- MODULE LogManager -------------------------------
(***************************************************************************)
(* The singleton LogManager (log/LogManager.cpp) with its logs.  A log     *)
(* macro asks isInitialized, takes ref() and calls logMessage, which holds *)
(* a spin lock while it hands the message to one log after the other.  The *)
(* lock is part of the object.  A log may throw, which leaves the lock     *)
(* set, or log something itself, as a callback of CallbackLog may, which   *)
(* waits for the lock its own thread holds.                                *)
(*                                                                         *)
(* The application's thread initializes and deinitializes the manager and  *)
(* adds and removes logs, and deletes those it removed; nothing of this    *)
(* takes the lock.  To use a manager or a log that is gone, or a list that *)
(* changed under the iterator, is undefined: such a thread is "lost", and  *)
(* goes no further.                                                        *)
(***************************************************************************)
EXTENDS Naturals, Sequences, SequencesExt

CONSTANTS
  Logger,       \* threads that log
  Log,          \* the logs
  Throwing,     \* those that throw
  Reentrant,    \* those that log
  Level,        \* the levels, as numbers
  MaxStarts,    \* bound on the calls of initialize
  MaxAdditions, \* bound on the calls of addLog that add
  MaxMessages   \* bound on the messages of each thread

ASSUME LogAssumption ==
  /\ Throwing \subseteq Log /\ Reentrant \subseteq Log
  /\ Level \subseteq Nat /\ MaxStarts \in Nat
  /\ MaxAdditions \in Nat /\ MaxMessages \in Nat

VARIABLES
  quiet,        \* whether the application waits for calls in progress to end
  manager,      \* _manager: its number, or 0
  least,        \* its LEVEL
  locked,       \* its _mutex
  logs,         \* its _logs
  additions,    \* times a log was added
  deleted,      \* logs that went with their manager
  starts,       \* managers so far
  at,           \* where each logging thread is
  uses,         \* the manager it got from ref()
  changed,      \* threads under whose iterator the list changed
  next,         \* the index of the log it comes to
  message,      \* the message it logs: its number and level
  jammed,       \* a log threw or logged, and the lock stays taken
  lines         \* history: what each log was handed

callVars == <<at, uses, next, message>>
listVars == <<logs, additions, deleted>>
logVars == <<quiet, manager, least, locked, listVars, starts, callVars, changed, jammed, lines>>

LogInit ==
  /\ quiet \in BOOLEAN
  /\ manager = 0 /\ least = 0 /\ locked = FALSE /\ logs = <<>>
  /\ additions = 0 /\ deleted = {} /\ starts = 0
  /\ at = [l \in Logger |-> "idle"]
  /\ uses = [l \in Logger |-> 0] /\ next = [l \in Logger |-> 0]
  /\ message = [l \in Logger |-> [number |-> 0, level |-> 0]]
  /\ changed = {} /\ jammed = FALSE
  /\ lines = [g \in Log |-> <<>>]

-----------------------------------------------------------------------------
(* The application *)

MayChange == quiet => \A l \in Logger : at[l] = "idle"

\* An iterator of the list that existed before is worth nothing now.
Invalidate == changed' = changed \cup {l \in Logger : at[l] = "iterating"}

Initialize ==
  /\ manager = 0 /\ starts < MaxStarts /\ MayChange
  /\ starts' = starts + 1 /\ manager' = starts + 1
  /\ least' \in Level /\ locked' = FALSE /\ jammed' = FALSE
  /\ UNCHANGED <<quiet, listVars, callVars, changed, lines>>

\* The destructor deletes the logs.
Deinitialize ==
  /\ manager # 0 /\ MayChange
  /\ manager' = 0 /\ logs' = <<>> /\ deleted' = deleted \cup ToSet(logs)
  /\ Invalidate
  /\ UNCHANGED <<quiet, least, locked, additions, starts, callVars, jammed, lines>>

\* A log that is in the list is not added again; one that was removed may be.
AddLog(g) ==
  /\ manager # 0 /\ g \notin ToSet(logs) \cup deleted /\ additions < MaxAdditions /\ MayChange
  /\ logs' = Append(logs, g) /\ additions' = additions + 1
  /\ Invalidate
  /\ UNCHANGED <<quiet, manager, least, locked, deleted, starts, callVars, jammed, lines>>

RemoveLog(g) ==
  /\ manager # 0 /\ g \in ToSet(logs) /\ MayChange
  /\ logs' = RemoveFirst(logs, g)
  /\ Invalidate
  /\ UNCHANGED <<quiet, manager, least, locked, additions, deleted, starts, callVars, jammed, lines>>

-----------------------------------------------------------------------------
(* A thread that logs *)

Goes(l, from, to) == at[l] = from /\ at' = [at EXCEPT ![l] = to]
Lost(l) == uses[l] # manager \/ l \in changed
appVars == <<quiet, manager, least, listVars, starts, changed>>

IsInitialized == manager # 0

\* The macro; without a manager the message is printed.
StartMessage(l, level) ==
  /\ message[l].number < MaxMessages
  /\ Goes(l, "idle", IF IsInitialized THEN "asked" ELSE "idle")
  /\ message' = [message EXCEPT ![l] = [number |-> @.number + 1, level |-> level]]
  /\ UNCHANGED <<appVars, locked, uses, next, jammed, lines>>

\* ref().
TakeRef(l) ==
  /\ Goes(l, "asked", IF manager = 0 THEN "lost" ELSE "called")
  /\ uses' = [uses EXCEPT ![l] = manager]
  /\ UNCHANGED <<appVars, locked, next, message, jammed, lines>>

Passes(l) == message[l].level >= least

\* logMessage, of a message that is less than LEVEL.
Ignore(l) ==
  /\ ~Lost(l) /\ ~Passes(l)
  /\ Goes(l, "called", "idle")
  /\ UNCHANGED <<appVars, locked, uses, next, message, jammed, lines>>

\* Mutant: the lock is not tested.
AnyLock == TRUE

LockFree == ~locked

\* test_and_set gives false, and the iterator is made.
Acquire(l) ==
  /\ ~Lost(l) /\ Passes(l) /\ LockFree
  /\ Goes(l, "called", "iterating")
  /\ locked' = TRUE
  /\ next' = [next EXCEPT ![l] = 1]
  /\ UNCHANGED <<appVars, uses, message, jammed, lines>>

Iterating(l) == at[l] = "iterating" /\ ~Lost(l)

\* log and flush.
HandToLog(l) ==
  /\ Iterating(l) /\ next[l] <= Len(logs)
  /\ logs[next[l]] \notin Throwing \cup Reentrant
  /\ lines' = [lines EXCEPT ![logs[next[l]]] = Append(@, <<l, message[l].number>>)]
  /\ next' = [next EXCEPT ![l] = @ + 1]
  /\ UNCHANGED <<appVars, locked, at, uses, message, jammed>>

\* The exception goes to who called the macro, past the unlocking.
LogThrows(l) ==
  /\ Iterating(l) /\ next[l] <= Len(logs)
  /\ logs[next[l]] \in Throwing
  /\ Goes(l, "iterating", "idle")
  /\ jammed' = TRUE
  /\ UNCHANGED <<appVars, locked, uses, next, message, lines>>

\* The log's own logMessage waits for the lock for ever.
LogLogs(l) ==
  /\ Iterating(l) /\ next[l] <= Len(logs)
  /\ logs[next[l]] \in Reentrant
  /\ Goes(l, "iterating", "stuck")
  /\ jammed' = TRUE
  /\ UNCHANGED <<appVars, locked, uses, next, message, lines>>

\* Mutant: the lock stays taken.
KeepLock == UNCHANGED locked

ClearLock == locked' = FALSE

Release(l) ==
  /\ Iterating(l) /\ next[l] > Len(logs)
  /\ ClearLock
  /\ Goes(l, "iterating", "idle")
  /\ UNCHANGED <<appVars, uses, next, message, jammed, lines>>

GetLost(l) ==
  /\ at[l] \in {"called", "iterating"} /\ Lost(l)
  /\ at' = [at EXCEPT ![l] = "lost"]
  /\ UNCHANGED <<appVars, locked, uses, next, message, jammed, lines>>

Logging(l) ==
  \/ TakeRef(l) \/ Ignore(l) \/ Acquire(l) \/ HandToLog(l)
  \/ LogThrows(l) \/ LogLogs(l) \/ Release(l) \/ GetLost(l)

LogNext ==
  \/ Initialize \/ Deinitialize
  \/ \E g \in Log : AddLog(g) \/ RemoveLog(g)
  \/ \E l \in Logger : (\E level \in Level : StartMessage(l, level)) \/ Logging(l)

\* A thread goes on, and spins until it is lucky.
LogSpec == LogInit /\ [][LogNext]_logVars /\ \A l \in Logger : WF_logVars(Logging(l))

-----------------------------------------------------------------------------
(* Properties *)

LogTypeOK ==
  /\ manager \in 0..starts /\ starts \in 0..MaxStarts
  /\ least \in Level \cup {0} /\ locked \in BOOLEAN /\ jammed \in BOOLEAN
  /\ logs \in Seq(Log) /\ additions \in 0..MaxAdditions /\ deleted \subseteq Log
  /\ at \in [Logger -> {"idle", "asked", "called", "iterating", "stuck", "lost"}]
  /\ uses \in [Logger -> 0..starts] /\ next \in [Logger -> Nat]
  /\ message \in [Logger -> [number : Nat, level : Level \cup {0}]]
  /\ quiet \in BOOLEAN /\ changed \subseteq Logger
  /\ lines \in [Log -> Seq(Logger \X Nat)]

\* All logs are handed the messages in the same order, whichever threads they
\* come from, and whatever is added and removed between or during the calls.
SameOrder ==
  \A g, h \in Log : \A i, j \in 1..Len(lines[g]), m, n \in 1..Len(lines[h]) :
    lines[g][i] = lines[h][m] /\ lines[g][j] = lines[h][n] => (i < j <=> m < n)

\* A call of a log macro returns, before the manager is initialized, while it
\* is there and afterwards, if the application changes nothing meanwhile and no
\* log has thrown or logged.
LoggingReturns ==
  \A l \in Logger : at[l] # "idle" ~> at[l] = "idle" \/ jammed \/ ~quiet

\* "The logging is performed thread-safe" (LogManager.h): while the manager
\* exists, no thread goes on with an iterator of a list that addLog or removeLog
\* has changed.  Violated: both change the list without the lock.
ThreadSafe == \A l \in Logger : l \in changed => uses[l] # manager
=============================================================================
