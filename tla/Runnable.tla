-------------------------------- MODULE Runnable --------------------------------
(***************************************************************************)
(* Runnable (base/Thread.cpp): objects that own a thread and are listed in *)
(* the static active_, which activeMx_ protects.  The thread asks          *)
(* isCurrentInterrupted now and then, as the loops of FramingUtils do: it  *)
(* looks for the runnable whose id is its own.  The owner constructs,      *)
(* starts and destroys the object, anybody may interrupt it.  start writes *)
(* thread_ when the new thread may already be running, without a lock, so  *)
(* that the thread may not find itself.                                    *)
(***************************************************************************)
EXTENDS Naturals, Sequences, SequencesExt

CONSTANT Task   \* the runnables, each used once

Nobody == "nobody"
ASSUME TaskAssumption == Nobody \notin Task

VARIABLES
  active,      \* active_
  holder,      \* the thread that holds activeMx_
  index,       \* where its search is
  owner,       \* how far the owner of each runnable is
  thread,      \* where its thread is
  known,       \* runnables whose thread_ is assigned and not joined
  interrupted  \* those whose interrupted_ is set

runnableVars == <<active, holder, index, owner, thread, known, interrupted>>

RunnableInit ==
  /\ active = <<>>
  /\ holder = Nobody /\ index = 0
  /\ owner = [t \in Task |-> "none"]
  /\ thread = [t \in Task |-> "none"]
  /\ known = {} /\ interrupted = {}

OwnerGoes(t, from, to) == owner[t] = from /\ owner' = [owner EXCEPT ![t] = to]

-----------------------------------------------------------------------------
(* The owner *)

Construct(t) ==
  /\ OwnerGoes(t, "none", "made")
  /\ holder = Nobody
  /\ active' = Append(active, t)
  /\ UNCHANGED <<holder, index, thread, known, interrupted>>

\* start: interrupted_ = false.
Reset(t) ==
  /\ OwnerGoes(t, "made", "reset")
  /\ interrupted' = interrupted \ {t}
  /\ UNCHANGED <<active, holder, index, thread, known>>

\* The constructor of std::thread.
Spawn(t) ==
  /\ OwnerGoes(t, "reset", "spawned")
  /\ thread' = [thread EXCEPT ![t] = "running"]
  /\ UNCHANGED <<active, holder, index, known, interrupted>>

\* Mutant: start clears the flag when the thread is there.
KnowAndReset(t) == known' = known \cup {t} /\ interrupted' = interrupted \ {t}

Know(t) == known' = known \cup {t} /\ UNCHANGED interrupted

\* The assignment to thread_.
Assign(t) ==
  /\ OwnerGoes(t, "spawned", "started")
  /\ Know(t)
  /\ UNCHANGED <<active, holder, index, thread>>

\* Mutant: the destructor takes the lock before it joins.
LockFirst(t) == holder = Nobody /\ holder' = t

JoinUnlocked(t) == UNCHANGED holder

\* The destructor of the derived class: join sets the flag and waits.
BeginJoin(t) ==
  /\ OwnerGoes(t, "started", "joining")
  /\ JoinUnlocked(t)
  /\ interrupted' = interrupted \cup {t}
  /\ UNCHANGED <<active, index, thread, known>>

EndJoin(t) ==
  /\ OwnerGoes(t, "joining", "joined")
  /\ thread[t] = "ended"
  /\ known' = known \ {t}
  /\ UNCHANGED <<active, holder, index, thread, interrupted>>

\* The destructor of Runnable, whose own join finds nothing to wait for.
Erase(t) ==
  /\ OwnerGoes(t, "joined", "gone")
  /\ holder = Nobody
  /\ active' = SelectSeq(active, LAMBDA u : u # t)
  /\ UNCHANGED <<holder, index, thread, known, interrupted>>

\* interrupt, by any thread while the object exists.
Interrupt(t) ==
  /\ owner[t] \in {"made", "reset", "spawned", "started"}
  /\ interrupted' = interrupted \cup {t}
  /\ UNCHANGED <<active, holder, index, owner, thread, known>>

-----------------------------------------------------------------------------
(* The thread *)

\* isCurrentInterrupted takes the lock.
Ask(t) ==
  /\ thread[t] = "running" /\ holder = Nobody
  /\ holder' = t /\ index' = 1
  /\ thread' = [thread EXCEPT ![t] = "searching"]
  /\ UNCHANGED <<active, owner, known, interrupted>>

Searching(t) == thread[t] = "searching" /\ holder = t
FindsItself(t) == index <= Len(active) /\ active[index] = t /\ t \in known

\* The predicate of find_if, of another runnable, or of itself too early.
NextElement(t) ==
  /\ Searching(t) /\ index <= Len(active) /\ ~FindsItself(t)
  /\ index' = index + 1
  /\ UNCHANGED <<active, holder, owner, thread, known, interrupted>>

\* The flag of the runnable found is the answer; there is none if none is.
Answer(t) ==
  /\ Searching(t)
  /\ index > Len(active) \/ FindsItself(t)
  /\ thread' = [thread EXCEPT ![t] =
       IF FindsItself(t) /\ t \in interrupted THEN "ended" ELSE "running"]
  /\ holder' = Nobody /\ index' = 0
  /\ UNCHANGED <<active, owner, known, interrupted>>

\* run returns for a reason of its own.
Finish(t) ==
  /\ thread[t] = "running"
  /\ thread' = [thread EXCEPT ![t] = "ended"]
  /\ UNCHANGED <<active, holder, index, owner, known, interrupted>>

Search(t) == NextElement(t) \/ Answer(t)

RunnableNext ==
  \E t \in Task :
    \/ Construct(t) \/ Reset(t) \/ Spawn(t) \/ Assign(t)
    \/ BeginJoin(t) \/ EndJoin(t) \/ Erase(t) \/ Interrupt(t)
    \/ Ask(t) \/ Search(t) \/ Finish(t)

\* Threads go on, and one that waits for the lock gets it in the end.
RunnableSpec ==
  /\ RunnableInit /\ [][RunnableNext]_runnableVars
  /\ \A t \in Task :
       /\ SF_runnableVars(Ask(t)) /\ WF_runnableVars(Search(t))
       /\ WF_runnableVars(Assign(t)) /\ WF_runnableVars(EndJoin(t))
       /\ SF_runnableVars(Erase(t))

-----------------------------------------------------------------------------
(* Properties *)

RunnableTypeOK ==
  /\ active \in Seq(Task)
  /\ holder \in Task \cup {Nobody} /\ index \in Nat
  /\ owner \in [Task -> {"none", "made", "reset", "spawned", "started", "joining", "joined", "gone"}]
  /\ thread \in [Task -> {"none", "running", "searching", "ended"}]
  /\ known \subseteq Task /\ interrupted \subseteq Task

\* A thread that polls ends after an interrupt, also one that came before it
\* could find itself in the list.
InterruptHeeded ==
  \A t \in Task : t \in interrupted /\ thread[t] = "running" ~> thread[t] = "ended"

\* The destructor returns while all other threads go on asking.
DestructionEnds == \A t \in Task : owner[t] = "joining" ~> owner[t] = "gone"
=============================================================================
