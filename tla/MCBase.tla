--------------------------------- MODULE MCBase ---------------------------------
(***************************************************************************)
(* One run for the three small parts of base and log that share no state:  *)
(* each behaviour is one of LogManager, of ObjectPool or of Runnable, with *)
(* the others at rest in their initial states.                             *)
(***************************************************************************)
EXTENDS LogManager, ObjectPool, Runnable

CONSTANTS l1, l2, g1, g2, g3, t1, t2

VARIABLE part   \* which of the three this behaviour is about

vars == <<part, logVars, poolVars, runnableVars>>

Init ==
  /\ part \in {"log", "pool", "runnable"}
  /\ LogInit /\ PoolInit /\ RunnableInit
  /\ part # "log" => quiet

Next ==
  \/ part = "log" /\ LogNext /\ UNCHANGED <<part, poolVars, runnableVars>>
  \/ part = "pool" /\ PoolNext /\ UNCHANGED <<part, logVars, runnableVars>>
  \/ part = "runnable" /\ RunnableNext /\ UNCHANGED <<part, logVars, poolVars>>

\* The fairness of LogSpec and of RunnableSpec.
Spec ==
  /\ Init /\ [][Next]_vars
  /\ \A l \in Logger : WF_vars(part = "log" /\ Logging(l) /\ UNCHANGED <<part, poolVars, runnableVars>>)
  /\ \A t \in Task :
       LET Runs(A) == part = "runnable" /\ A /\ UNCHANGED <<part, logVars, poolVars>> IN
       /\ SF_vars(Runs(Ask(t))) /\ WF_vars(Runs(Search(t)))
       /\ WF_vars(Runs(Assign(t))) /\ WF_vars(Runs(EndJoin(t)))
       /\ SF_vars(Runs(Erase(t)))

TypeOK == LogTypeOK /\ PoolTypeOK /\ RunnableTypeOK
=============================================================================
