---------------------------- MODULE MessageQueue ----------------------------
(***************************************************************************)
(* MessageQueue<T> (base/MessageQueue.h): a deque behind a mutex and a     *)
(* condition variable, shared by producers and consumers.  One action per  *)
(* step another thread can see: taking the mutex, a critical section (up   *)
(* to the unlock that ends it or to the wait that releases the mutex), the *)
(* notify_all made after the unlock, and the wake-ups of a waiting thread: *)
(* notified, spurious, or by the timeout of wait_for.                      *)
(*                                                                         *)
(* Items are named by their position in the history variable sent, so an   *)
(* item lost, delivered twice or overtaken shows in the state.             *)
(***************************************************************************)
EXTENDS Naturals, Sequences, FiniteSets, SequencesExt

CONSTANTS
  Producer,  \* threads that call enqueue
  Consumer,  \* threads that call a dequeue operation
  Kind,      \* what predicates tell apart in an item
  None,      \* no thread
  MaxSent    \* bound on the items ever enqueued

ASSUME ThreadAssumption ==
  /\ Producer \cap Consumer = {}
  /\ None \notin Producer \cup Consumer
ASSUME KindAssumption == Kind # {}
ASSUME BoundAssumption == MaxSent \in Nat

Thread == Producer \cup Consumer

VARIABLES
  sent,     \* history: the kind of every item enqueued, in order
  queue,    \* queue_: positions in sent
  accept,   \* the kinds a consumer's pending call accepts, {} without a call
  got,      \* history: the items each consumer received
  owner,    \* the thread that holds mutex_
  pc,       \* where each thread is in its operation
  found,    \* findIt: the place a consumer's predicate found, else 0
  expired   \* a wait of the consumer's pending call ended by timeout

absVars == <<sent, queue, accept, got>>
vars == <<sent, queue, accept, got, owner, pc, found, expired>>

Init ==
  /\ sent = <<>>
  /\ queue = <<>>
  /\ accept = [c \in Consumer |-> {}]
  /\ got = [c \in Consumer |-> <<>>]
  /\ owner = None
  /\ pc = [t \in Thread |-> "idle"]
  /\ found = [c \in Consumer |-> 0]
  /\ expired = [c \in Consumer |-> FALSE]

Goto(t, l) == pc' = [pc EXCEPT ![t] = l]

-----------------------------------------------------------------------------
(* enqueue *)

\* Its argument is chosen in Push.  The bound counts the items on their way.
CallEnqueue(p) ==
  /\ pc[p] = "idle"
  /\ Len(sent) + Cardinality({q \in Producer : pc[q] \in {"lock", "push"}})
       < MaxSent
  /\ Goto(p, "lock")
  /\ UNCHANGED <<absVars, owner, found, expired>>

\* std::lock_guard, std::unique_lock, and wait_for taking the mutex back.
Lock(t, from, to) ==
  /\ pc[t] = from
  /\ owner = None
  /\ owner' = t
  /\ Goto(t, to)
  /\ UNCHANGED <<absVars, found, expired>>

\* Mutant: enqueue without its lock_guard.
EnterUnlocked(p) ==
  /\ pc[p] = "lock"
  /\ Goto(p, "push")
  /\ UNCHANGED <<absVars, owner, found, expired>>

LockToPush(p) == Lock(p, "lock", "push")

PushBack(q, n) == Append(q, n)

Push(p, k) ==
  /\ pc[p] = "push"
  /\ sent' = Append(sent, k)
  /\ queue' = PushBack(queue, Len(sent) + 1)
  /\ owner' = None
  /\ Goto(p, "notify")
  /\ UNCHANGED <<accept, got, found, expired>>

\* Mutant: notify_one, which wakes one of the waiting threads.
NotifyOne(p) ==
  /\ pc[p] = "notify"
  /\ LET waiting == {c \in Consumer : pc[c] = "waiting"}
     IN  IF waiting = {}
         THEN Goto(p, "idle")
         ELSE \E c \in waiting :
                pc' = [pc EXCEPT ![p] = "idle", ![c] = "relock"]
  /\ UNCHANGED <<absVars, owner, found, expired>>

\* notify_all, called after the mutex is released.
Notify(p) ==
  /\ pc[p] = "notify"
  /\ pc' = [t \in Thread |-> IF t = p THEN "idle"
                             ELSE IF pc[t] = "waiting" THEN "relock"
                             ELSE pc[t]]
  /\ UNCHANGED <<absVars, owner, found, expired>>

-----------------------------------------------------------------------------
(* dequeue, dequeueFiltered: accept is what the predicate holds of, every  *)
(* kind for dequeue, whose oldest acceptable item is the front.            *)

\* The places whose items the predicate of c holds of, and std::find_if's
\* answer: the first of them, none when there is none.
Matching(c) == {i \in 1..Len(queue) : sent[queue[i]] \in accept[c]}
FirstMatch(c) == {i \in Matching(c) : \A j \in Matching(c) : i <= j}

Begin(c, S, at) ==
  /\ pc[c] = "idle"
  /\ accept' = [accept EXCEPT ![c] = S]
  /\ Goto(c, at)
  /\ UNCHANGED <<sent, queue, got, owner, found, expired>>

CallDequeue(c) == Begin(c, Kind, "lock")
CallDequeueFiltered(c, S) == Begin(c, S, "lock")

LockToCheck(c) == Lock(c, "lock", "check")
Relock(c) == Lock(c, "relock", "check")

\* The predicate holds: wait_for returns true with findIt at the item.
CheckFound(c) ==
  /\ pc[c] = "check"
  /\ \E i \in FirstMatch(c) : found' = [found EXCEPT ![c] = i]
  /\ Goto(c, "take")
  /\ UNCHANGED <<absVars, owner, expired>>

\* The predicate is false and time is left: the mutex is released and the
\* thread put among the waiting ones in one step.
CheckWait(c) ==
  /\ pc[c] = "check"
  /\ Matching(c) = {} /\ ~expired[c]
  /\ owner' = None
  /\ Goto(c, "waiting")
  /\ UNCHANGED <<absVars, found, expired>>

\* The call ends without an item: the mutex is released, null returned.
ReturnNull(c) ==
  /\ accept' = [accept EXCEPT ![c] = {}]
  /\ expired' = [expired EXCEPT ![c] = FALSE]
  /\ owner' = None
  /\ Goto(c, "idle")
  /\ UNCHANGED <<sent, queue, got, found>>

\* Mutant: after a timeout the predicate is not evaluated again.
TimedOutUnchecked(c) == pc[c] = "check" /\ expired[c] /\ ReturnNull(c)

\* wait_for evaluates the predicate once more after its timeout.
CheckTimedOut(c) ==
  /\ pc[c] = "check"
  /\ Matching(c) = {} /\ expired[c]
  /\ ReturnNull(c)

SpuriousWake(c) ==
  /\ pc[c] = "waiting"
  /\ Goto(c, "relock")
  /\ UNCHANGED <<absVars, owner, found, expired>>

\* Mutant: a wait that ended by timeout is taken for a wake-up.
TimeoutAsWake(c) == SpuriousWake(c)

Timeout(c) ==
  /\ pc[c] = "waiting"
  /\ expired' = [expired EXCEPT ![c] = TRUE]
  /\ Goto(c, "relock")
  /\ UNCHANGED <<absVars, owner, found>>

\* Mutant: the item is handed out and stays in the queue.
KeepAt(q, i) == q

EraseAt(q, i) == RemoveAt(q, i)

ItemAt(i) == queue[i]

\* Moves the item at place i out, erases it and releases the mutex.
TakeAt(c, i) ==
  /\ got' = [got EXCEPT ![c] = Append(@, ItemAt(i))]
  /\ queue' = EraseAt(queue, i)
  /\ accept' = [accept EXCEPT ![c] = {}]
  /\ found' = [found EXCEPT ![c] = 0]
  /\ expired' = [expired EXCEPT ![c] = FALSE]
  /\ owner' = None
  /\ Goto(c, "idle")
  /\ UNCHANGED sent

Take(c) == pc[c] = "take" /\ TakeAt(c, found[c])

-----------------------------------------------------------------------------
(* dequeueNoWait *)

CallDequeueNoWait(c) == Begin(c, Kind, "lockpoll")

LockToPoll(c) == Lock(c, "lockpoll", "poll")

Poll(c) ==
  /\ pc[c] = "poll"
  /\ IF queue # <<>> THEN TakeAt(c, 1) ELSE ReturnNull(c)

-----------------------------------------------------------------------------
ProducerStep(p) ==
  LockToPush(p) \/ (\E k \in Kind : Push(p, k)) \/ Notify(p)

ConsumerStep(c) ==
  \/ LockToCheck(c) \/ Relock(c) \/ LockToPoll(c)
  \/ CheckFound(c) \/ CheckWait(c) \/ CheckTimedOut(c)
  \/ Take(c) \/ Poll(c)

Next ==
  \/ \E p \in Producer :
       \/ CallEnqueue(p)
       \/ ProducerStep(p)
  \/ \E c \in Consumer :
       \/ CallDequeue(c)
       \/ \E S \in (SUBSET Kind) \ {{}} : CallDequeueFiltered(c, S)
       \/ CallDequeueNoWait(c)
       \/ ConsumerStep(c)
       \/ SpuriousWake(c)
       \/ Timeout(c)

\* No call has to be made and no spurious wake-up has to happen.  A thread
\* that runs goes on, and one blocked on the mutex gets it when it is free
\* again and again: at most one disjunct of a thread's step is possible at a
\* time, so SF of the step says both.  The deadline of wait_for is absolute:
\* a thread that keeps waiting finds it passed however often it is woken.
Fairness ==
  /\ \A p \in Producer : SF_vars(ProducerStep(p))
  /\ \A c \in Consumer : SF_vars(ConsumerStep(c)) /\ SF_vars(Timeout(c))

Spec == Init /\ [][Next]_vars
FairSpec == Spec /\ Fairness

-----------------------------------------------------------------------------
(* Properties *)

InCriticalSection(t) == pc[t] \in {"push", "check", "take", "poll"}

\* Types: queued and received items are positions of sent.
TypeOK ==
  /\ sent \in Seq(Kind)
  /\ queue \in Seq(1..Len(sent))
  /\ accept \in [Consumer -> SUBSET Kind]
  /\ got \in [Consumer -> Seq(1..Len(sent))]
  /\ owner \in Thread \cup {None}
  /\ pc \in [Thread -> {"idle", "lock", "push", "notify", "check", "waiting",
                        "relock", "take", "lockpoll", "poll"}]
  /\ found \in [Consumer -> Nat]
  /\ expired \in [Consumer -> BOOLEAN]

\* The iterator dequeueFiltered stores while its predicate runs inside
\* wait_for is, when the item is moved out and erased, still the first item
\* its predicate holds of: no other thread changed the deque in between.
FindItValid ==
  \A c \in Consumer : pc[c] = "take" => found[c] \in FirstMatch(c)

\* No lost wake-up: a thread waits although an item it accepts is in the
\* queue only as long as a notify_all is still to come, whatever predicates
\* the other waiting threads have.
NoLostWakeup ==
  \A c \in Consumer :
    pc[c] = "waiting" /\ Matching(c) # {} =>
      \E p \in Producer : pc[p] = "notify"

\* Every item enqueued is at exactly one place: nothing is lost, handed out
\* twice, or handed out and still queued.
NothingLost ==
  \A n \in 1..Len(sent) :
    \/ \E i \in 1..Len(queue) : queue[i] = n
    \/ \E c \in Consumer : \E i \in 1..Len(got[c]) : got[c][i] = n
QueuedOnce == \A i, j \in 1..Len(queue) : queue[i] = queue[j] => i = j
NotQueuedWhenGot ==
  \A c \in Consumer : \A i \in 1..Len(got[c]) :
    \A j \in 1..Len(queue) : queue[j] # got[c][i]
GotOnce ==
  \A c, d \in Consumer : \A i \in 1..Len(got[c]), j \in 1..Len(got[d]) :
    got[c][i] = got[d][j] => c = d /\ i = j
ExactlyOnce == NothingLost /\ QueuedOnce /\ NotQueuedWhenGot /\ GotOnce

\* Items of one kind leave in the order they came, to whichever consumers:
\* predicates cannot let a later message of a kind overtake an earlier one.
KindOrder ==
  \A i \in 1..Len(queue) : \A n \in queue[i]+1..Len(sent) :
    sent[n] = sent[queue[i]] => \E j \in 1..Len(queue) : queue[j] = n

\* Every operation takes effect at one instant between its call and its
\* return: the oldest acceptable item, or null with none in the queue.
Atomic == INSTANCE AtomicQueue
Linearizable == Atomic!Spec

\* A dequeue operation returns, with an item or null, whatever the other
\* threads do: the timeout bounds every wait.
CallsReturn == \A c \in Consumer : accept[c] # {} ~> accept[c] = {}
=============================================================================
