---------------------------- MODULE AtomicQueue ----------------------------
(***************************************************************************)
(* What MessageQueue<T> (base/MessageQueue.h) promises to the threads that *)
(* share it: a queue whose operations take effect at one instant.  A call  *)
(* of a dequeue operation states which items it accepts (every item for    *)
(* dequeue and dequeueNoWait, the items its predicate holds of for         *)
(* dequeueFiltered); it returns the oldest item it accepts, or null, and   *)
(* null only at an instant when the queue holds no such item.              *)
(***************************************************************************)
EXTENDS Naturals, Sequences, SequencesExt

CONSTANTS
  Consumer,   \* threads that take items
  Kind        \* what the predicates tell apart in an item

VARIABLES
  sent,    \* kinds of all the items enqueued so far, in their order
  queue,   \* items in the queue, each named by its position in sent
  accept,  \* kinds the pending call of a consumer accepts, {} without a call
  got      \* items each consumer has received, in their order

absVars == <<sent, queue, accept, got>>

\* Places of the queue that hold an item consumer c accepts, and the oldest.
Matching(c) == {i \in 1..Len(queue) : sent[queue[i]] \in accept[c]}
FirstMatch(c) == {i \in Matching(c) : \A j \in Matching(c) : i <= j}

Init ==
  /\ sent = <<>>
  /\ queue = <<>>
  /\ accept = [c \in Consumer |-> {}]
  /\ got = [c \in Consumer |-> <<>>]

Enqueue(k) ==
  /\ sent' = Append(sent, k)
  /\ queue' = Append(queue, Len(sent) + 1)
  /\ UNCHANGED <<accept, got>>

Call(c, S) ==
  /\ accept[c] = {}
  /\ accept' = [accept EXCEPT ![c] = S]
  /\ UNCHANGED <<sent, queue, got>>

ReturnItem(c) ==
  \E i \in FirstMatch(c) :
    /\ got' = [got EXCEPT ![c] = Append(@, queue[i])]
    /\ queue' = RemoveAt(queue, i)
    /\ accept' = [accept EXCEPT ![c] = {}]
    /\ UNCHANGED sent

ReturnNull(c) ==
  /\ Matching(c) = {}
  /\ accept' = [accept EXCEPT ![c] = {}]
  /\ UNCHANGED <<sent, queue, got>>

Next ==
  \/ \E k \in Kind : Enqueue(k)
  \/ \E c \in Consumer :
       \/ \E S \in (SUBSET Kind) \ {{}} : Call(c, S)
       \/ ReturnItem(c)
       \/ ReturnNull(c)

Spec == Init /\ [][Next]_absVars
=============================================================================
