------------------------ MODULE MessageQueue_proofs ------------------------
(***************************************************************************)
(* Proofs about MessageQueue for any numbers of producers, consumers and   *)
(* kinds of items: its types, its safety invariants, and that it           *)
(* implements AtomicQueue.                                                 *)
(***************************************************************************)
EXTENDS MessageQueue, SequenceLemmas

\* The mutex is held by the thread inside a critical section and no other.
MutexOK == \A t \in Thread : InCriticalSection(t) <=> owner = t

\* Items stay in the order they were enqueued.
Sorted == \A i, j \in 1..Len(queue) : i < j => queue[i] < queue[j]

\* A thread has a pending call when it is not idle; dequeueNoWait takes any.
CallOK ==
  \A c \in Consumer :
    /\ pc[c] = "idle" => accept[c] = {}
    /\ pc[c] \in {"lockpoll", "poll"} => accept[c] = Kind

IInv ==
  /\ TypeOK
  /\ MutexOK
  /\ Sorted
  /\ CallOK
  /\ FindItValid
  /\ NoLostWakeup
  /\ ExactlyOnce
  /\ KindOrder

-----------------------------------------------------------------------------
\* A thread is a producer or a consumer, never both; the name that stands for
\* a free mutex is neither.
LEMMA Threads ==
  /\ \A p \in Producer, c \in Consumer : p # c
  /\ \A t \in Thread : t # None
BY ThreadAssumption DEF Thread

\* An append puts the newest item behind all others.
LEMMA PushStep ==
  ASSUME IInv, NEW p \in Producer, NEW k \in Kind, Push(p, k)
  PROVE  IInv'
<1> DEFINE n == Len(sent) + 1
<1> USE Threads
<1>1. /\ sent \in Seq(Kind) /\ queue \in Seq(1..Len(sent)) /\ Len(sent) \in Nat
      /\ Len(queue) \in Nat
      /\ \A i \in 1..Len(queue) : queue[i] \in 1..Len(sent)
  BY ElementOfSeq DEF IInv, TypeOK
<1>2. /\ sent' \in Seq(Kind) /\ Len(sent') = n
      /\ \A m \in 1..Len(sent) : sent'[m] = sent[m]
      /\ sent'[n] = k
      /\ got' = got
  BY <1>1 DEF Push
<1>3. 1..Len(sent) \subseteq 1..n
  BY <1>1
<1>4. queue \in Seq(1..n) /\ n \in 1..n
  BY <1>1, <1>3, SeqMonotonic
<1>5. /\ queue' \in Seq(1..n) /\ Len(queue') = Len(queue) + 1
      /\ \A i \in 1..Len(queue) : queue'[i] = queue[i]
      /\ queue'[Len(queue) + 1] = n
  BY <1>1, <1>4 DEF Push, PushBack
<1>6. TypeOK'
  <2>1. got \in [Consumer -> Seq(1..n)]
    BY <1>3, SeqMonotonic DEF IInv, TypeOK
  <2> QED  BY <1>2, <1>5, <2>1 DEF IInv, TypeOK, Thread, Push, Goto
<1>7. MutexOK'
  BY DEF IInv, TypeOK, MutexOK, InCriticalSection, Thread, Push, Goto
<1>8. Sorted'
  <2> SUFFICES ASSUME NEW i \in 1..Len(queue'), NEW j \in 1..Len(queue'), i < j
               PROVE  queue'[i] < queue'[j]
    BY DEF Sorted
  <2>1. i \in 1..Len(queue) /\ queue'[i] = queue[i] /\ queue[i] \in 1..Len(sent)
    BY <1>1, <1>5
  <2>0. j \in 1..Len(queue) \/ j = Len(queue) + 1
    <3>1. Len(queue) \in Nat /\ Len(queue') = Len(queue) + 1  BY <1>1, <1>5
    <3> QED  BY <3>1
  <2>2. CASE j \in 1..Len(queue)
    BY <2>1, <2>2, <1>5 DEF IInv, Sorted
  <2>3. CASE j = Len(queue) + 1
    BY <2>1, <2>3, <1>1, <1>5
  <2> QED  BY <2>0, <2>2, <2>3
<1>9. CallOK' /\ FindItValid'
  <2>1. CallOK'
    BY DEF IInv, TypeOK, CallOK, Thread, Push, Goto
  <2>2. ASSUME NEW c \in Consumer, pc'[c] = "take" PROVE FALSE
    BY <2>2 DEF IInv, TypeOK, MutexOK, InCriticalSection, Thread, Push, Goto
  <2> QED  BY <2>1, <2>2 DEF FindItValid
<1>10. NoLostWakeup'
  <2>1. pc'[p] = "notify"
    BY DEF IInv, TypeOK, Thread, Push, Goto
  <2> QED  BY <2>1 DEF NoLostWakeup
<1>11. NothingLost'
  <2> SUFFICES ASSUME NEW m \in 1..Len(sent')
               PROVE  \/ \E i \in 1..Len(queue') : queue'[i] = m
                      \/ \E c \in Consumer : \E i \in 1..Len(got[c]) : got[c][i] = m
    BY <1>2 DEF NothingLost
  <2>1. CASE m = n
    <3>1. Len(queue) + 1 \in 1..Len(queue')  BY <1>1, <1>5
    <3> QED  BY <2>1, <3>1, <1>5
  <2>2. CASE m # n
    <3>1. m \in 1..Len(sent)  BY <1>1, <1>2, <2>2
    <3>2. CASE \E i \in 1..Len(queue) : queue[i] = m
      <4>1. PICK i \in 1..Len(queue) : queue[i] = m  BY <3>2
      <4>2. i \in 1..Len(queue') /\ queue'[i] = m  BY <4>1, <1>1, <1>5
      <4> QED  BY <4>2
    <3> QED  BY <3>1, <3>2 DEF IInv, ExactlyOnce, NothingLost
  <2> QED  BY <2>1, <2>2
<1>12. QueuedOnce'
  <2> SUFFICES ASSUME NEW i \in 1..Len(queue'), NEW j \in 1..Len(queue'),
                      queue'[i] = queue'[j]
               PROVE  i = j
    BY DEF QueuedOnce
  <2>1. /\ i \in 1..Len(queue) \/ i = Len(queue) + 1
        /\ j \in 1..Len(queue) \/ j = Len(queue) + 1
    BY <1>1, <1>5
  <2>2. \A l \in 1..Len(queue) : queue'[l] = queue[l] /\ queue'[l] # n
    BY <1>1, <1>5
  <2> QED  BY <2>1, <2>2, <1>5 DEF IInv, ExactlyOnce, QueuedOnce
<1>13. NotQueuedWhenGot'
  <2> SUFFICES ASSUME NEW c \in Consumer, NEW i \in 1..Len(got[c]),
                      NEW j \in 1..Len(queue')
               PROVE  queue'[j] # got[c][i]
    BY <1>2 DEF NotQueuedWhenGot
  <2>1. got[c] \in Seq(1..Len(sent))  BY DEF IInv, TypeOK
  <2>2. got[c][i] \in 1..Len(sent)  BY <2>1, ElementOfSeq
  <2>3. CASE j \in 1..Len(queue)
    BY <2>3, <1>5 DEF IInv, ExactlyOnce, NotQueuedWhenGot
  <2>4. CASE j = Len(queue) + 1  BY <2>2, <2>4, <1>1, <1>5
  <2> QED  BY <2>3, <2>4, <1>1, <1>5
<1>14. GotOnce'
  BY <1>2 DEF IInv, ExactlyOnce, GotOnce
<1>15. KindOrder'
  <2> SUFFICES ASSUME NEW i \in 1..Len(queue'), NEW m \in queue'[i]+1..Len(sent'),
                      sent'[m] = sent'[queue'[i]]
               PROVE  \E j \in 1..Len(queue') : queue'[j] = m
    BY DEF KindOrder
  <2>1. CASE m = n
    <3>1. Len(queue) + 1 \in 1..Len(queue')  BY <1>1, <1>5
    <3> QED  BY <2>1, <3>1, <1>5
  <2>2. CASE m # n
    <3>0. i \in 1..Len(queue) \/ i = Len(queue) + 1  BY <1>1, <1>5
    <3>1. queue'[i] \in Nat  BY <3>0, <1>1, <1>5, SMTT(30)
    <3>2. m \in Nat /\ m <= Len(sent) /\ m > queue'[i]  BY <2>2, <3>1, <1>1, <1>2
    <3>3. i \in 1..Len(queue)  BY <3>0, <3>2, <1>1, <1>5
    <3>4. m \in queue[i]+1..Len(sent) /\ sent[m] = sent[queue[i]]
      BY <3>2, <3>3, <1>1, <1>2, <1>5, SMTT(30)
    <3>5. PICK j \in 1..Len(queue) : queue[j] = m
      BY <3>3, <3>4 DEF IInv, KindOrder
    <3>6. j \in 1..Len(queue')  BY <1>1, <1>5
    <3> QED  BY <3>5, <3>6, <1>5
  <2> QED  BY <2>1, <2>2
<1> QED  BY <1>6, <1>7, <1>8, <1>9, <1>10, <1>11, <1>12, <1>13, <1>14, <1>15
         DEF IInv, ExactlyOnce

\* The oldest acceptable item leaves the queue for the consumer that holds
\* the mutex.
LEMMA TakeStep ==
  ASSUME IInv, NEW c \in Consumer, owner = c, NEW f \in FirstMatch(c), TakeAt(c, f)
  PROVE  IInv'
<1> DEFINE old(j) == IF j < f THEN j ELSE j + 1
<1> USE Threads
<1>1. /\ sent \in Seq(Kind) /\ queue \in Seq(1..Len(sent)) /\ Len(sent) \in Nat
      /\ Len(queue) \in Nat /\ got \in [Consumer -> Seq(1..Len(sent))]
      /\ \A i \in 1..Len(queue) : queue[i] \in 1..Len(sent)
  BY ElementOfSeq DEF IInv, TypeOK
<1>2. f \in 1..Len(queue) /\ queue[f] \in 1..Len(sent)
  BY <1>1 DEF FirstMatch, Matching
<1>3. /\ queue' \in Seq(1..Len(sent)) /\ Len(queue') = Len(queue) - 1
      /\ \A j \in 1..Len(queue)-1 :
           queue'[j] = IF j < f THEN queue[j] ELSE queue[j+1]
  BY <1>1, <1>2, RemoveAtProperties DEF TakeAt, EraseAt
<1>4. \A j \in 1..Len(queue') :
         old(j) \in 1..Len(queue) /\ old(j) # f /\ queue'[j] = queue[old(j)]
  <2> SUFFICES ASSUME NEW j \in 1..Len(queue')
               PROVE  old(j) \in 1..Len(queue) /\ old(j) # f /\ queue'[j] = queue[old(j)]
    OBVIOUS
  <2>1. j \in 1..Len(queue)-1  BY <1>1, <1>3
  <2>2. CASE j < f  BY <2>1, <2>2, <1>1, <1>2, <1>3, SMTT(30)
  <2>3. CASE ~(j < f)  BY <2>1, <2>3, <1>1, <1>2, <1>3
  <2> QED  BY <2>2, <2>3
<1>5. \A i, j \in 1..Len(queue') :
        (i < j => old(i) < old(j)) /\ (old(i) = old(j) => i = j)
  <2>1. f \in Nat /\ \A i \in 1..Len(queue') : i \in Nat  BY <1>1, <1>2
  <2> QED  BY <2>1
<1> HIDE DEF old
<1>6. \A i \in 1..Len(queue) : i # f =>
         \E j \in 1..Len(queue') : queue'[j] = queue[i]
  <2> SUFFICES ASSUME NEW i \in 1..Len(queue), i # f
               PROVE  \E j \in 1..Len(queue') : queue'[j] = queue[i]
    OBVIOUS
  <2>1. CASE i < f
    <3>1. i \in 1..Len(queue)-1  BY <2>1, <1>1, <1>2
    <3>2. i \in 1..Len(queue') /\ queue'[i] = queue[i]
      BY <2>1, <3>1, <1>3
    <3> QED  BY <3>2
  <2>2. CASE i > f
    <3>1. i-1 \in 1..Len(queue)-1 /\ ~(i-1 < f) /\ i-1+1 = i
      BY <2>2, <1>1, <1>2
    <3>2. i-1 \in 1..Len(queue') /\ queue'[i-1] = queue[i]
      BY <3>1, <1>3
    <3> QED  BY <3>2
  <2> QED  BY <2>1, <2>2, <1>1, <1>2
<1>7. /\ sent' = sent
      /\ got' \in [Consumer -> Seq(1..Len(sent))]
      /\ \A d \in Consumer : d # c => got'[d] = got[d]
      /\ Len(got'[c]) = Len(got[c]) + 1 /\ Len(got[c]) \in Nat
      /\ \A i \in 1..Len(got[c]) : got'[c][i] = got[c][i]
      /\ got'[c][Len(got[c]) + 1] = queue[f]
  <2>1. got[c] \in Seq(1..Len(sent)) /\ Len(got[c]) \in Nat  BY <1>1
  <2>0. got' = [got EXCEPT ![c] = Append(got[c], queue[f])] /\ sent' = sent
    BY DEF TakeAt, ItemAt
  <2>2. got'[c] = Append(got[c], queue[f])  BY <1>1, <2>0
  <2>3. /\ Append(got[c], queue[f]) \in Seq(1..Len(sent))
        /\ Len(got'[c]) = Len(got[c]) + 1
        /\ \A i \in 1..Len(got[c]) : got'[c][i] = got[c][i]
        /\ got'[c][Len(got[c]) + 1] = queue[f]
    BY <2>1, <2>2, <1>2, AppendProperties
  <2>4. got' \in [Consumer -> Seq(1..Len(sent))]  BY <1>1, <2>0, <2>3
  <2>5. \A d \in Consumer : d # c => got'[d] = got[d]  BY <1>1, <2>0
  <2> QED  BY <2>0, <2>1, <2>3, <2>4, <2>5
<1>8. TypeOK'
  BY <1>3, <1>7 DEF IInv, TypeOK, Thread, TakeAt, Goto
<1>9. MutexOK'
  BY DEF IInv, TypeOK, MutexOK, InCriticalSection, Thread, TakeAt, Goto
<1>10. Sorted'
  BY <1>4, <1>5 DEF IInv, Sorted
<1>11. CallOK' /\ FindItValid'
  <2>1. CallOK'
    BY DEF IInv, TypeOK, CallOK, Thread, TakeAt, Goto
  <2>2. ASSUME NEW d \in Consumer, pc'[d] = "take" PROVE FALSE
    BY <2>2 DEF IInv, TypeOK, MutexOK, InCriticalSection, Thread, TakeAt, Goto
  <2> QED  BY <2>1, <2>2 DEF FindItValid
<1>12. NoLostWakeup'
  <2> SUFFICES ASSUME NEW d \in Consumer, pc'[d] = "waiting", Matching(d)' # {}
               PROVE  \E p \in Producer : pc'[p] = "notify"
    BY DEF NoLostWakeup
  <2>1. d # c /\ pc[d] = "waiting" /\ accept'[d] = accept[d]
    BY DEF IInv, TypeOK, Thread, TakeAt, Goto
  <2>2. PICK j \in 1..Len(queue') : sent[queue'[j]] \in accept[d]
    BY <2>1, <1>7 DEF Matching
  <2>3. Matching(d) # {}
    BY <2>2, <1>4 DEF Matching
  <2>4. PICK p \in Producer : pc[p] = "notify"
    BY <2>1, <2>3 DEF IInv, NoLostWakeup
  <2> QED  BY <2>4 DEF IInv, TypeOK, Thread, TakeAt, Goto
<1>13. NothingLost'
  <2> SUFFICES ASSUME NEW m \in 1..Len(sent)
               PROVE  \/ \E i \in 1..Len(queue') : queue'[i] = m
                      \/ \E d \in Consumer : \E i \in 1..Len(got'[d]) : got'[d][i] = m
    BY <1>7 DEF NothingLost
  <2>1. CASE m = queue[f]
    BY <2>1, <1>7
  <2>2. CASE \E i \in 1..Len(queue) : queue[i] = m /\ i # f
    BY <2>2, <1>6
  <2>3. CASE \E d \in Consumer : \E i \in 1..Len(got[d]) : got[d][i] = m
    <3>1. PICK d \in Consumer : \E i \in 1..Len(got[d]) : got[d][i] = m  BY <2>3
    <3>2. PICK i \in 1..Len(got[d]) : got[d][i] = m  BY <3>1
    <3>3. CASE d = c
      <4>1. i \in 1..Len(got'[c]) /\ got'[c][i] = m  BY <3>2, <3>3, <1>7
      <4> QED  BY <4>1
    <3>4. CASE d # c  BY <3>2, <3>4, <1>7
    <3> QED  BY <3>3, <3>4
  <2> QED  BY <2>1, <2>2, <2>3 DEF IInv, ExactlyOnce, NothingLost
<1>14. QueuedOnce'
  BY <1>4, <1>5 DEF IInv, ExactlyOnce, QueuedOnce
<1>15. \A d \in Consumer : \A i \in 1..Len(got'[d]) :
         \/ d = c /\ i = Len(got[c]) + 1 /\ got'[d][i] = queue[f]
         \/ i \in 1..Len(got[d]) /\ got'[d][i] = got[d][i]
  <2> SUFFICES ASSUME NEW d \in Consumer, NEW i \in 1..Len(got'[d])
               PROVE  \/ d = c /\ i = Len(got[c]) + 1 /\ got'[d][i] = queue[f]
                      \/ i \in 1..Len(got[d]) /\ got'[d][i] = got[d][i]
    OBVIOUS
  <2>1. CASE d = c  BY <2>1, <1>7
  <2>2. CASE d # c  BY <2>2, <1>7
  <2> QED  BY <2>1, <2>2
<1>16. NotQueuedWhenGot'
  <2> SUFFICES ASSUME NEW d \in Consumer, NEW i \in 1..Len(got'[d]),
                      NEW j \in 1..Len(queue')
               PROVE  queue'[j] # got'[d][i]
    BY DEF NotQueuedWhenGot
  <2>1. CASE got'[d][i] = queue[f]
    BY <2>1, <1>2, <1>4 DEF IInv, ExactlyOnce, QueuedOnce
  <2>2. CASE i \in 1..Len(got[d]) /\ got'[d][i] = got[d][i]
    BY <2>2, <1>4 DEF IInv, ExactlyOnce, NotQueuedWhenGot
  <2> QED  BY <2>1, <2>2, <1>15
<1>17. GotOnce'
  <2> SUFFICES ASSUME NEW d \in Consumer, NEW e \in Consumer,
                      NEW i \in 1..Len(got'[d]), NEW j \in 1..Len(got'[e]),
                      got'[d][i] = got'[e][j]
               PROVE  d = e /\ i = j
    BY DEF GotOnce
  <2>1. CASE /\ i \in 1..Len(got[d]) /\ got'[d][i] = got[d][i]
             /\ j \in 1..Len(got[e]) /\ got'[e][j] = got[e][j]
    <3>1. got[d][i] = got[e][j]  BY <2>1
    <3> QED  BY <2>1, <3>1 DEF IInv, ExactlyOnce, GotOnce
  <2>2. \A a \in Consumer : \A k \in 1..Len(got[a]) : got[a][k] # queue[f]
    BY <1>2 DEF IInv, ExactlyOnce, NotQueuedWhenGot
  <2>3. CASE d = c /\ i = Len(got[c]) + 1 /\ got'[d][i] = queue[f]
    <3>1. \/ e = c /\ j = Len(got[c]) + 1
          \/ j \in 1..Len(got[e]) /\ got'[e][j] = got[e][j]
      BY <1>15
    <3>2. CASE e = c /\ j = Len(got[c]) + 1  BY <2>3, <3>2
    <3>3. CASE j \in 1..Len(got[e]) /\ got'[e][j] = got[e][j]
      <4>1. got[e][j] = queue[f]  BY <2>3, <3>3
      <4> QED  BY <2>2, <3>3, <4>1
    <3> QED  BY <3>1, <3>2, <3>3
  <2>4. CASE e = c /\ j = Len(got[c]) + 1 /\ got'[e][j] = queue[f]
    <3>1. \/ d = c /\ i = Len(got[c]) + 1
          \/ i \in 1..Len(got[d]) /\ got'[d][i] = got[d][i]
      BY <1>15
    <3>2. CASE d = c /\ i = Len(got[c]) + 1  BY <2>4, <3>2
    <3>3. CASE i \in 1..Len(got[d]) /\ got'[d][i] = got[d][i]
      <4>1. got[d][i] = queue[f]  BY <2>4, <3>3
      <4> QED  BY <2>2, <3>3, <4>1
    <3> QED  BY <3>1, <3>2, <3>3
  <2>5. \/ d = c /\ i = Len(got[c]) + 1 /\ got'[d][i] = queue[f]
        \/ i \in 1..Len(got[d]) /\ got'[d][i] = got[d][i]
    BY <1>15
  <2>6. \/ e = c /\ j = Len(got[c]) + 1 /\ got'[e][j] = queue[f]
        \/ j \in 1..Len(got[e]) /\ got'[e][j] = got[e][j]
    BY <1>15
  <2> QED  BY <2>1, <2>3, <2>4, <2>5, <2>6
<1>18. KindOrder'
  <2> SUFFICES ASSUME NEW i \in 1..Len(queue'), NEW m \in queue'[i]+1..Len(sent),
                      sent[m] = sent[queue'[i]]
               PROVE  \E j \in 1..Len(queue') : queue'[j] = m
    BY <1>7 DEF KindOrder
  <2>1. PICK k \in 1..Len(queue) : queue'[i] = queue[k] /\ k # f  BY <1>4
  <2>2. PICK j \in 1..Len(queue) : queue[j] = m
    BY <2>1 DEF IInv, KindOrder
  <2>3. ASSUME j = f PROVE FALSE
    <3>0. queue[k] \in Nat /\ queue[f] \in Nat
      <4>1. queue[k] \in 1..Len(sent)  BY <1>1
      <4>2. queue[f] \in 1..Len(sent)  BY <1>2
      <4> QED  BY <4>1, <4>2, SMTT(30)
    <3>1. queue[k] < queue[f]
      <4>1. m = queue[f] /\ m \in queue[k]+1..Len(sent)  BY <2>1, <2>2, <2>3
      <4> QED  BY <4>1, <3>0, <1>1, SMTT(30)
    <3>2. ~(f < k)
      BY <3>0, <3>1, <1>2 DEF IInv, Sorted
    <3>3. k \in Matching(c)
      BY <2>1, <2>2, <2>3 DEF FirstMatch, Matching
    <3> QED  BY <2>1, <3>2, <3>3, <1>1, <1>2 DEF FirstMatch
  <2> QED  BY <2>2, <2>3, <1>6
<1> QED
  BY <1>8, <1>9, <1>10, <1>11, <1>12, <1>13, <1>14, <1>16, <1>17, <1>18
     DEF IInv, ExactlyOnce

-----------------------------------------------------------------------------
\* dequeueNoWait accepts every kind, so the front is its oldest match.
LEMMA PollTakesFront ==
  ASSUME IInv, NEW c \in Consumer, pc[c] = "poll", queue # <<>>
  PROVE  1 \in FirstMatch(c)
<1>1. sent \in Seq(Kind) /\ queue \in Seq(1..Len(sent)) /\ accept[c] = Kind
  BY DEF IInv, TypeOK, CallOK
<1>2. Len(queue) \in Nat /\ Len(queue) > 0  BY <1>1
<1>3. 1 \in 1..Len(queue)  BY <1>2
<1>4. queue[1] \in 1..Len(sent)  BY <1>1, <1>3, ElementOfSeq
<1>5. sent[queue[1]] \in Kind  BY <1>1, <1>4, ElementOfSeq
<1> QED  BY <1>1, <1>3, <1>5 DEF FirstMatch, Matching

\* Every step keeps the invariant.
LEMMA NextIInv == IInv /\ [Next]_vars => IInv'
<1> SUFFICES ASSUME IInv, [Next]_vars PROVE IInv'  OBVIOUS
\* The steps that leave the items where they are change at most the program
\* counters, the mutex and the pending calls.
<1>1. ASSUME UNCHANGED <<sent, queue, got>>
      PROVE  Sorted' /\ ExactlyOnce' /\ KindOrder'
  BY <1>1 DEF IInv, Sorted, ExactlyOnce, NothingLost, QueuedOnce, NotQueuedWhenGot,
         GotOnce, KindOrder
\* The thread inside a critical section is the owner of the mutex.
<1>2. ASSUME NEW t \in Thread, InCriticalSection(t) PROVE owner = t
  BY <1>2 DEF IInv, MutexOK
\* A call of enqueue waits for the mutex and has changed nothing yet.
<1>3. ASSUME NEW p \in Producer, CallEnqueue(p) PROVE IInv'
  <2> USE <1>3, Threads DEF CallEnqueue, Goto, absVars
  <2>1. TypeOK'
    BY DEF IInv, TypeOK, Thread
  <2>2. MutexOK' /\ CallOK' /\ FindItValid' /\ NoLostWakeup'
    BY DEF IInv, TypeOK, MutexOK, InCriticalSection, CallOK, FindItValid, FirstMatch,
           Matching, NoLostWakeup, Thread
  <2> QED  BY <2>1, <2>2, <1>1 DEF IInv
\* Taking the free mutex starts the only critical section.
<1>4. ASSUME \/ \E p \in Producer : LockToPush(p)
             \/ \E c \in Consumer : LockToCheck(c) \/ Relock(c) \/ LockToPoll(c)
      PROVE  IInv'
  <2> USE <1>4, Threads DEF LockToPush, LockToCheck, Relock, LockToPoll, Lock, Goto, absVars
  <2>1. TypeOK'
    BY DEF IInv, TypeOK, Thread
  <2>2. MutexOK'
    BY DEF IInv, TypeOK, MutexOK, InCriticalSection, Thread
  <2>3. CallOK'
    BY DEF IInv, TypeOK, CallOK, Thread
  <2>4. FindItValid'
    BY DEF IInv, TypeOK, CallOK, FindItValid, FirstMatch, Matching, Thread
  <2>5. NoLostWakeup'
    BY DEF IInv, TypeOK, NoLostWakeup, Matching, Thread
  <2> QED  BY <2>1, <2>2, <2>3, <2>4, <2>5, <1>1 DEF IInv
\* notify_all leaves no waiting thread behind.
<1>5. ASSUME NEW p \in Producer, Notify(p) PROVE IInv'
  <2> USE <1>5, Threads DEF Notify, absVars
  <2>1. TypeOK'
    BY DEF IInv, TypeOK, Thread
  <2>2. MutexOK'
    BY DEF IInv, TypeOK, MutexOK, InCriticalSection, Thread
  <2>3. CallOK' /\ FindItValid'
    BY DEF IInv, TypeOK, CallOK, FindItValid, FirstMatch, Matching, Thread
  <2>4. NoLostWakeup'
    BY DEF IInv, TypeOK, NoLostWakeup, Thread
  <2> QED  BY <2>1, <2>2, <2>3, <2>4, <1>1 DEF IInv
\* A call of dequeueFiltered or dequeueNoWait announces what it accepts.
<1>6. ASSUME NEW c \in Consumer,
             \/ CallDequeue(c)
             \/ \E S \in (SUBSET Kind) \ {{}} : CallDequeueFiltered(c, S)
             \/ CallDequeueNoWait(c)
      PROVE  IInv'
  <2> USE <1>6
  <2>1. PICK S \in SUBSET Kind, at \in {"lock", "lockpoll"} :
          Begin(c, S, at) /\ (at = "lockpoll" => S = Kind)
    BY DEF CallDequeue, CallDequeueFiltered, CallDequeueNoWait
  <2> USE Threads, <2>1 DEF Begin, Goto
  <2>2. TypeOK'
    BY DEF IInv, TypeOK, Thread
  <2>3. MutexOK'
    BY DEF IInv, TypeOK, MutexOK, InCriticalSection, Thread
  <2>4. CallOK'
    BY DEF IInv, TypeOK, CallOK, Thread
  <2>5. FindItValid'
    BY DEF IInv, TypeOK, CallOK, FindItValid, FirstMatch, Matching, Thread
  <2>6. NoLostWakeup'
    BY DEF IInv, TypeOK, NoLostWakeup, Matching, Thread
  <2> QED  BY <2>2, <2>3, <2>4, <2>5, <2>6, <1>1 DEF IInv
\* A thread goes to wait only when nothing it accepts is in the queue.
<1>7. ASSUME NEW c \in Consumer, CheckFound(c) \/ CheckWait(c) PROVE IInv'
  <2> USE <1>7, Threads DEF Goto, absVars
  <2>1. CASE CheckFound(c)
    <3> USE <2>1 DEF CheckFound
    <3>1. PICK i \in FirstMatch(c) : found' = [found EXCEPT ![c] = i]  OBVIOUS
    <3>2. i \in Nat  BY <3>1 DEF FirstMatch, Matching
    <3>3. TypeOK'
      BY <3>1, <3>2 DEF IInv, TypeOK, Thread
    <3>4. MutexOK'
      BY DEF IInv, TypeOK, MutexOK, InCriticalSection, Thread
    <3>5. FindItValid'
      BY <3>1 DEF IInv, TypeOK, FindItValid, FirstMatch, Matching, Thread
    <3>6. CallOK' /\ NoLostWakeup'
      BY DEF IInv, TypeOK, CallOK, NoLostWakeup, Matching, Thread
    <3> QED  BY <3>3, <3>4, <3>5, <3>6, <1>1 DEF IInv
  <2>2. CASE CheckWait(c)
    <3> USE <2>2 DEF CheckWait
    <3>1. TypeOK'
      BY DEF IInv, TypeOK, Thread
    <3>2. MutexOK'
      BY DEF IInv, TypeOK, MutexOK, InCriticalSection, Thread
    <3>3. CallOK' /\ FindItValid'
      BY DEF IInv, TypeOK, CallOK, FindItValid, FirstMatch, Matching, Thread
    <3>4. NoLostWakeup'
      BY DEF IInv, TypeOK, NoLostWakeup, Matching, Thread
    <3> QED  BY <3>1, <3>2, <3>3, <3>4, <1>1 DEF IInv
  <2> QED  BY <2>1, <2>2
\* Giving up leaves the items where they are and releases the mutex.
<1>8. ASSUME NEW c \in Consumer, owner = c, ReturnNull(c) PROVE IInv'
  <2> USE <1>8, Threads DEF ReturnNull, Goto
  <2>1. TypeOK'
    BY DEF IInv, TypeOK, Thread
  <2>2. MutexOK'
    BY DEF IInv, TypeOK, MutexOK, InCriticalSection, Thread
  <2>3. CallOK'
    BY DEF IInv, TypeOK, CallOK, Thread
  <2>4. FindItValid'
    BY DEF IInv, TypeOK, CallOK, FindItValid, FirstMatch, Matching, Thread
  <2>5. NoLostWakeup'
    BY DEF IInv, TypeOK, NoLostWakeup, Matching, Thread
  <2> QED  BY <2>1, <2>2, <2>3, <2>4, <2>5, <1>1 DEF IInv
\* A waiting thread that is woken, or whose time is over, competes for the
\* mutex again.
<1>9. ASSUME NEW c \in Consumer, SpuriousWake(c) \/ Timeout(c) PROVE IInv'
  <2> USE <1>9, Threads DEF SpuriousWake, Timeout, Goto, absVars
  <2>1. TypeOK'
    BY DEF IInv, TypeOK, Thread
  <2>2. MutexOK'
    BY DEF IInv, TypeOK, MutexOK, InCriticalSection, Thread
  <2>3. CallOK'
    BY DEF IInv, TypeOK, CallOK, Thread
  <2>4. FindItValid'
    BY DEF IInv, TypeOK, CallOK, FindItValid, FirstMatch, Matching, Thread
  <2>5. NoLostWakeup'
    BY DEF IInv, TypeOK, NoLostWakeup, Matching, Thread
  <2> QED  BY <2>1, <2>2, <2>3, <2>4, <2>5, <1>1 DEF IInv
<1>10. ASSUME NEW p \in Producer, ProducerStep(p) PROVE IInv'
  BY <1>4, <1>5, <1>10, PushStep DEF ProducerStep
<1>11. ASSUME NEW c \in Consumer, ConsumerStep(c) PROVE IInv'
  <2>1. CASE LockToCheck(c) \/ Relock(c) \/ LockToPoll(c)  BY <2>1, <1>4
  <2>2. CASE CheckFound(c) \/ CheckWait(c)  BY <2>2, <1>7
  <2>3. CASE CheckTimedOut(c)
    <3>1. owner = c  BY <2>3, <1>2 DEF CheckTimedOut, InCriticalSection, Thread
    <3> QED  BY <2>3, <3>1, <1>8 DEF CheckTimedOut
  <2>4. CASE Take(c)
    <3>1. owner = c  BY <2>4, <1>2 DEF Take, InCriticalSection, Thread
    <3>2. found[c] \in FirstMatch(c)  BY <2>4 DEF IInv, FindItValid, Take
    <3> QED  BY <2>4, <3>1, <3>2, TakeStep DEF Take
  <2>5. CASE Poll(c)
    <3>1. owner = c  BY <2>5, <1>2 DEF Poll, InCriticalSection, Thread
    <3>2. CASE queue # <<>>
      <4>1. 1 \in FirstMatch(c) /\ TakeAt(c, 1)
        BY <2>5, <3>2, PollTakesFront DEF Poll
      <4> QED  BY <3>1, <4>1, TakeStep
    <3>3. CASE queue = <<>>
      BY <2>5, <3>1, <3>3, <1>8 DEF Poll
    <3> QED  BY <3>2, <3>3
  <2> QED  BY <1>11, <2>1, <2>2, <2>3, <2>4, <2>5 DEF ConsumerStep
<1>12. CASE UNCHANGED vars
  BY <1>12, <1>1 DEF vars, IInv, TypeOK, MutexOK, InCriticalSection, CallOK,
         FindItValid, FirstMatch, Matching, NoLostWakeup
<1> QED  BY <1>3, <1>6, <1>9, <1>10, <1>11, <1>12 DEF Next

-----------------------------------------------------------------------------
\* The invariant the following theorems rest on.
THEOREM Invariance == Spec => []IInv
<1>1. ASSUME Init PROVE IInv
  <2> USE <1>1 DEF Init
  <2>1. TypeOK
    BY DEF TypeOK
  <2>2. MutexOK
    BY Threads DEF MutexOK, InCriticalSection
  <2>3. Sorted /\ ExactlyOnce /\ KindOrder
    BY DEF Sorted, ExactlyOnce, NothingLost, QueuedOnce, NotQueuedWhenGot,
           GotOnce, KindOrder
  <2>4. CallOK /\ FindItValid /\ NoLostWakeup
    BY DEF CallOK, FindItValid, NoLostWakeup, Thread
  <2> QED  BY <2>1, <2>2, <2>3, <2>4 DEF IInv
<1> QED  BY <1>1, NextIInv, PTL DEF Spec

\* Every item queued or received is one that was enqueued, and every variable
\* has its type, with any numbers of threads and calls.
THEOREM TypeCorrect == Spec => []TypeOK
<1>1. IInv => TypeOK  BY DEF IInv
<1> QED  BY <1>1, Invariance, PTL

\* The iterator of dequeueFiltered (MessageQueue.h, lines 57 to 70) is valid
\* when it is used: the mutex is held from find_if to erase.
THEOREM IteratorValid == Spec => []FindItValid
<1>1. IInv => FindItValid  BY DEF IInv
<1> QED  BY <1>1, Invariance, PTL

\* No waiting thread misses an item it accepts: whoever enqueued it has its
\* notify_all still to make.
THEOREM WakeupsReachEveryWaiter == Spec => []NoLostWakeup
<1>1. IInv => NoLostWakeup  BY DEF IInv
<1> QED  BY <1>1, Invariance, PTL

\* The queue neither loses nor duplicates an item.
THEOREM ItemsDeliveredOnce == Spec => []ExactlyOnce
<1>1. IInv => ExactlyOnce  BY DEF IInv
<1> QED  BY <1>1, Invariance, PTL

\* Messages of one kind (of one connection, for the queues of the connection
\* aggregator) leave in the order they were enqueued.
THEOREM KindsStayInOrder == Spec => []KindOrder
<1>1. IInv => KindOrder  BY DEF IInv
<1> QED  BY <1>1, Invariance, PTL

-----------------------------------------------------------------------------
(* MessageQueue implements AtomicQueue: the critical sections that append, *)
(* erase or return null, and the calls, are the steps of the atomic queue. *)

\* Every step is one of the atomic queue, or invisible there.
LEMMA NextImplements == IInv /\ [Next]_vars => [Atomic!Next]_absVars
<1> SUFFICES ASSUME IInv, Next PROVE [Atomic!Next]_absVars
  BY DEF vars, absVars
\* The atomic queue picks the same item as find_if.
<1>0. \A c : /\ Atomic!Matching(c) = Matching(c)
             /\ Atomic!FirstMatch(c) = FirstMatch(c)
  BY DEF Atomic!Matching, Atomic!FirstMatch, Matching, FirstMatch
<1> USE <1>0 DEF absVars, Atomic!Next
<1>1. ASSUME NEW p \in Producer, CallEnqueue(p) PROVE UNCHANGED absVars
  BY <1>1 DEF CallEnqueue
<1>2. ASSUME NEW p \in Producer, NEW k \in Kind, Push(p, k) PROVE Atomic!Next
  BY <1>2 DEF Push, PushBack, Atomic!Enqueue
<1>3. ASSUME NEW c \in Consumer, NEW S \in (SUBSET Kind) \ {{}}, NEW at, Begin(c, S, at)
      PROVE  Atomic!Next
  <2>1. accept[c] = {}  BY <1>3 DEF Begin, IInv, CallOK
  <2>2. Atomic!Call(c, S)  BY <1>3, <2>1 DEF Begin, Atomic!Call
  <2> QED  BY <2>2
<1>4. ASSUME NEW c \in Consumer, NEW f \in FirstMatch(c), TakeAt(c, f)
      PROVE  Atomic!Next
  <2>1. f \in Atomic!FirstMatch(c)  OBVIOUS
  <2>2. /\ got' = [got EXCEPT ![c] = Append(@, queue[f])]
        /\ queue' = RemoveAt(queue, f)
        /\ accept' = [accept EXCEPT ![c] = {}]
        /\ UNCHANGED sent
    BY <1>4 DEF TakeAt, ItemAt, EraseAt
  <2>3. Atomic!ReturnItem(c)
    BY <2>1, <2>2 DEF Atomic!ReturnItem, Atomic!RemoveAt, RemoveAt
  <2> QED  BY <2>3
<1>5. ASSUME NEW c \in Consumer, Matching(c) = {}, ReturnNull(c) PROVE Atomic!Next
  <2>1. Atomic!ReturnNull(c)  BY <1>5 DEF ReturnNull, Atomic!ReturnNull
  <2> QED  BY <2>1
<1>6. ASSUME NEW p \in Producer, ProducerStep(p)
      PROVE  Atomic!Next \/ UNCHANGED absVars
  BY <1>2, <1>6 DEF ProducerStep, LockToPush, Lock, Notify
<1>7. ASSUME NEW c \in Consumer, ConsumerStep(c)
      PROVE  Atomic!Next \/ UNCHANGED absVars
  <2>1. CASE LockToCheck(c) \/ Relock(c) \/ LockToPoll(c)
    BY <2>1 DEF LockToCheck, Relock, LockToPoll, Lock
  <2>2. CASE CheckFound(c) \/ CheckWait(c)
    BY <2>2 DEF CheckFound, CheckWait
  <2>3. CASE CheckTimedOut(c)
    BY <1>5, <2>3 DEF CheckTimedOut
  <2>4. CASE Take(c)
    BY <1>4, <2>4 DEF Take, IInv, FindItValid
  <2>5. CASE Poll(c)
    <3>1. CASE queue # <<>>
      BY <1>4, <2>5, <3>1, PollTakesFront DEF Poll
    <3>2. CASE queue = <<>>
      <4>1. Matching(c) = {}  BY <3>2 DEF Matching
      <4> QED  BY <1>5, <2>5, <3>2, <4>1 DEF Poll
    <3> QED  BY <3>1, <3>2
  <2> QED  BY <1>7, <2>1, <2>2, <2>3, <2>4, <2>5 DEF ConsumerStep
<1>8. ASSUME NEW c \in Consumer, SpuriousWake(c) \/ Timeout(c) PROVE UNCHANGED absVars
  BY <1>8 DEF SpuriousWake, Timeout
<1>9. Kind \in (SUBSET Kind) \ {{}}  BY KindAssumption
<1> QED
  BY <1>1, <1>3, <1>6, <1>7, <1>8, <1>9
     DEF Next, CallDequeue, CallDequeueFiltered, CallDequeueNoWait

\* The monitor of MessageQueue makes every operation take effect at one
\* instant: null is never returned while an acceptable item is in the queue,
\* also when a timeout races an enqueue.
THEOREM Implementation == Spec => Linearizable
<1>1. Init => Atomic!Init
  BY DEF Init, Atomic!Init
<1>2. IInv /\ [Next]_vars => [Atomic!Next]_(Atomic!absVars)
  BY NextImplements DEF absVars, Atomic!absVars
<1> QED  BY <1>1, <1>2, Invariance, PTL DEF Spec, Linearizable, Atomic!Spec
=============================================================================
