------------------------------ MODULE Base_proofs ------------------------------
(***************************************************************************)
(* Proofs about the object pool and the log manager, for any number of     *)
(* threads, objects, logs and messages.                                    *)
(***************************************************************************)
EXTENDS ObjectPool, LogManager, SequenceLemmas, FiniteSetTheorems

-----------------------------------------------------------------------------
(* Pool, the property of ObjectPool.  By itself it is not inductive: that  *)
(* the pool grew no further than it had to rests on peak counting the      *)
(* objects that are out.                                                   *)

\* peak is the most there ever was, and so not less than what is out now.
PeakCounts == Cardinality(Out) <= peak

PoolInv == PoolTypeOK /\ OneOwner /\ FreeAreClean /\ NoWaste /\ PeakCounts

\* The objects out of the pool are some of those made.
LEMMA OutIsFinite ==
  ASSUME PoolTypeOK
  PROVE  Out \subseteq 1..size /\ IsFiniteSet(Out) /\ Cardinality(Out) \in Nat
<1>1. Out \subseteq 1..size
  BY DEF PoolTypeOK, Out, Objects
<1>2. IsFiniteSet(1..size)
  BY FS_Interval DEF PoolTypeOK
<1> QED
  BY <1>1, <1>2, FS_Subset, FS_CardinalityType

\* One more pair is one more object.
LEMMA ObjectsOfMore ==
  ASSUME NEW pairs, NEW u, NEW obj
  PROVE  Objects(pairs \cup {<<u, obj>>}) = Objects(pairs) \cup {obj}
<1> DEFINE more == pairs \cup {<<u, obj>>}
<1>1. ASSUME NEW o \in Objects(more) PROVE o \in Objects(pairs) \cup {obj}
  <2>1. PICK p \in more : o = p[2]
    BY <1>1 DEF Objects
  <2>2. CASE p \in pairs
    BY <2>1, <2>2 DEF Objects
  <2>3. CASE p = <<u, obj>>
    BY <2>1, <2>3
  <2> QED
    BY <2>2, <2>3
<1>2. obj \in Objects(more)
  <2>1. <<u, obj>> \in more /\ <<u, obj>>[2] = obj
    OBVIOUS
  <2> QED
    BY <2>1 DEF Objects
<1>3. Objects(pairs) \subseteq Objects(more)
  BY DEF Objects
<1> QED
  BY <1>1, <1>2, <1>3

\* Every step keeps the invariant.
LEMMA NextPoolInv == PoolInv /\ [PoolNext]_poolVars => PoolInv'
<1> SUFFICES ASSUME PoolInv, [PoolNext]_poolVars PROVE PoolInv'
  OBVIOUS
\* getObject hands out an object that was free or is new.
<1>1. ASSUME NEW u \in User, GetObject(u) PROVE PoolInv'
  <2> USE <1>1 DEF PoolInv
  <2> DEFINE grown == size + 1 .. Grown
  <2>1. PICK obj \in free \cup grown :
          free' = (free \cup grown) \ {obj} /\ held' = held \cup {<<u, obj>>}
    BY DEF GetObject
  <2>2. /\ size' = Grown /\ clearing' = clearing /\ used' = used
        /\ peak' = IF Cardinality(Out) < peak THEN peak ELSE peak + 1
    BY DEF GetObject
  <2>3. /\ Grown \in Nat /\ size <= Grown
        /\ 1..Grown = (1..size) \cup grown
        /\ grown \cap 1..size = {}
    BY PoolAssumption DEF Grown, PoolTypeOK
  <2>4. obj \in 1..Grown /\ obj \notin Out
    <3>1. CASE obj \in free
      BY <3>1, <2>3 DEF PoolTypeOK, OneOwner
    <3>2. CASE obj \in grown
      BY <3>2, <2>3, OutIsFinite
    <3> QED
      BY <2>1, <3>1, <3>2
  <2>5. Objects(held)' = Objects(held) \cup {obj} /\ Objects(clearing)' = Objects(clearing)
    <3>1. held' = held \cup {<<u, obj>>}
      BY <2>1
    <3>2. Objects(held)' = Objects(held) \cup {obj}
      BY <3>1, ObjectsOfMore
    <3>3. Objects(clearing)' = Objects(clearing)
      BY <2>2 DEF Objects
    <3> QED
      BY <3>2, <3>3
  <2>6. Out' = Out \cup {obj}
    BY <2>5 DEF Out
  <2>7. Cardinality(Out') = Cardinality(Out) + 1
    BY <2>4, <2>6, OutIsFinite, FS_AddElement
  <2>8. peak' \in Nat /\ Cardinality(Out) + 1 <= peak' /\ peak <= peak'
    BY <2>2, OutIsFinite DEF PeakCounts, PoolTypeOK
  <2>9. PoolTypeOK'
    <3>1. size' \in Nat /\ 1..size \subseteq 1..size' /\ obj \in 1..size'
      BY <2>2, <2>3, <2>4
    <3>2. free' \subseteq 1..size' /\ used' \subseteq 1..size'
      BY <3>1, <2>1, <2>2, <2>3 DEF PoolTypeOK
    <3>3. held' \subseteq User \X (1..size')
      BY <3>1, <2>1 DEF PoolTypeOK
    <3>4. clearing' \subseteq User \X (1..size')
      BY <3>1, <2>2 DEF PoolTypeOK
    <3> QED
      BY <3>1, <3>2, <3>3, <3>4, <2>8 DEF PoolTypeOK
  <2>10. OneOwner'
    <3>1. \A p \in held \cup clearing : p[2] # obj
      BY <2>4 DEF Out, Objects
    <3>2. \A p, q \in (held \cup clearing)' : p[2] = q[2] => p = q
      BY <2>1, <2>2, <3>1 DEF OneOwner
    <3>3. (free \cap Out)' = {}
      BY <2>1, <2>3, <2>6, OutIsFinite DEF OneOwner
    <3>4. (Objects(held) \cap Objects(clearing))' = {}
      BY <2>4, <2>5 DEF OneOwner, Out
    <3> QED
      BY <3>2, <3>3, <3>4 DEF OneOwner
  <2>11. FreeAreClean'
    BY <2>2, <2>5 DEF FreeAreClean
  <2>12. NoWaste'
    <3>1. 1..size' = (free \cup Out)'
      BY <2>1, <2>2, <2>3, <2>4, <2>6 DEF NoWaste
    <3>2. CASE free = {}
      <4>1. Out = 1..size /\ Cardinality(Out) = size
        BY <3>2, FS_Interval DEF NoWaste, PoolTypeOK
      <4>2. size' < peak' + initialSize
        BY <3>2, <4>1, <2>2, <2>8, PoolAssumption DEF Grown, PoolTypeOK
      <4> QED
        BY <3>1, <4>2 DEF NoWaste
    <3>3. CASE free # {}
      BY <3>1, <3>3, <2>2, <2>8, PoolAssumption DEF Grown, NoWaste, PoolTypeOK
    <3> QED
      BY <3>2, <3>3
  <2>13. PeakCounts'
    BY <2>7, <2>8 DEF PeakCounts
  <2> QED
    BY <2>9, <2>10, <2>11, <2>12, <2>13
\* Somebody writes into an object that is theirs.
<1>2. ASSUME NEW u \in User, NEW obj \in 1..size, Use(u, obj) PROVE PoolInv'
  <2> USE <1>2
  <2>1. /\ <<u, obj>> \in held /\ used' = used \cup {obj}
        /\ size' = size /\ free' = free /\ held' = held /\ clearing' = clearing /\ peak' = peak
    BY DEF Use
  <2>2. Objects(held)' = Objects(held) /\ Out' = Out /\ obj \in Objects(held)
    BY <2>1 DEF Out, Objects
  <2>3. PoolTypeOK'
    BY <2>1 DEF PoolInv, PoolTypeOK
  <2>4. OneOwner'
    BY <2>1, <2>2 DEF PoolInv, OneOwner, Objects
  <2>5. FreeAreClean'
    BY <2>1, <2>2 DEF PoolInv, FreeAreClean
  <2>6. NoWaste' /\ PeakCounts'
    BY <2>1, <2>2 DEF PoolInv, NoWaste, PeakCounts
  <2> QED
    BY <2>3, <2>4, <2>5, <2>6 DEF PoolInv
\* The first half of the deleter: the object is clean before it is in reach.
<1>3. ASSUME NEW u \in User, NEW obj \in 1..size, Clear(u, obj) PROVE PoolInv'
  <2> USE <1>3
  <2>1. /\ <<u, obj>> \in held /\ held' = held \ {<<u, obj>>}
        /\ clearing' = clearing \cup {<<u, obj>>} /\ used' = used \ {obj}
        /\ size' = size /\ free' = free /\ peak' = peak
    BY DEF Clear, ClearContent
  <2>2. Objects(held)' = Objects(held) \ {obj}
    <3>1. \A p \in held : p[2] = obj => p = <<u, obj>>
      BY <2>1 DEF PoolInv, OneOwner
    <3> QED
      BY <2>1, <3>1 DEF Objects
  <2>3. Objects(clearing)' = Objects(clearing) \cup {obj} /\ obj \in Objects(held)
    BY <2>1 DEF Objects
  <2>4. Out' = Out
    BY <2>2, <2>3 DEF Out
  <2>5. PoolTypeOK'
    BY <2>1 DEF PoolInv, PoolTypeOK
  <2>6. OneOwner'
    <3>1. (held \cup clearing)' = held \cup clearing
      BY <2>1
    <3>2. (Objects(held) \cap Objects(clearing))' = {}
      BY <2>2, <2>3 DEF PoolInv, OneOwner
    <3> QED
      BY <2>1, <2>4, <3>1, <3>2 DEF PoolInv, OneOwner
  <2>7. FreeAreClean'
    BY <2>1, <2>2 DEF PoolInv, FreeAreClean
  <2>8. NoWaste' /\ PeakCounts'
    BY <2>1, <2>4 DEF PoolInv, NoWaste, PeakCounts
  <2> QED
    BY <2>5, <2>6, <2>7, <2>8 DEF PoolInv
\* The second half: the object is free again.
<1>4. ASSUME NEW u \in User, NEW obj \in 1..size, PushBack(u, obj) PROVE PoolInv'
  <2> USE <1>4
  <2>1. /\ <<u, obj>> \in clearing /\ clearing' = clearing \ {<<u, obj>>}
        /\ free' = free \cup {obj}
        /\ size' = size /\ held' = held /\ used' = used /\ peak' = peak
    BY DEF PushBack
  <2>2. /\ Objects(clearing)' = Objects(clearing) \ {obj}
        /\ Objects(held)' = Objects(held) /\ obj \in Objects(clearing)
    <3>1. \A p \in clearing : p[2] = obj => p = <<u, obj>>
      BY <2>1 DEF PoolInv, OneOwner
    <3> QED
      BY <2>1, <3>1 DEF Objects
  <2>3. obj \notin Objects(held) /\ obj \in Out
    BY <2>2 DEF PoolInv, OneOwner, Out
  <2>4. Out' = Out \ {obj}
    BY <2>2, <2>3 DEF Out
  <2>5. Cardinality(Out') <= Cardinality(Out) /\ Cardinality(Out') \in Nat /\ Cardinality(Out) \in Nat
    BY <2>4, OutIsFinite, FS_Subset, FS_CardinalityType DEF PoolInv
  <2>6. PoolTypeOK'
    BY <2>1 DEF PoolInv, PoolTypeOK
  <2>7. OneOwner'
    <3>1. (held \cup clearing)' \subseteq held \cup clearing
      BY <2>1
    <3>2. (Objects(held) \cap Objects(clearing))' = {} /\ (free \cap Out)' = {}
      BY <2>1, <2>2, <2>4 DEF PoolInv, OneOwner
    <3> QED
      BY <3>1, <3>2 DEF PoolInv, OneOwner
  <2>8. FreeAreClean'
    BY <2>1, <2>2 DEF PoolInv, FreeAreClean
  <2>9. NoWaste' /\ PeakCounts'
    BY <2>1, <2>3, <2>4, <2>5 DEF PoolInv, NoWaste, PeakCounts, PoolTypeOK
  <2> QED
    BY <2>6, <2>7, <2>8, <2>9 DEF PoolInv
<1>5. CASE UNCHANGED poolVars
  BY <1>5 DEF poolVars, PoolInv, PoolTypeOK, OneOwner, FreeAreClean, NoWaste, PeakCounts, Out, Objects
<1> QED
  BY <1>1, <1>2, <1>3, <1>4, <1>5 DEF PoolNext

\* In a pool used by any threads no object is shared, lost or handed out with
\* content in it, and the pool grows only when all its objects are out.
THEOREM PoolSound == PoolSpec => []Pool
<1>1. PoolInit => PoolInv
  <2> SUFFICES ASSUME PoolInit PROVE PoolInv
    OBVIOUS
  <2>1. Out = {}
    BY DEF PoolInit, Out, Objects
  <2>2. Cardinality(Out) = 0
    BY <2>1, FS_EmptySet
  <2>3. PoolTypeOK
    BY PoolAssumption DEF PoolInit, PoolTypeOK
  <2>4. OneOwner /\ FreeAreClean
    BY <2>1 DEF PoolInit, OneOwner, FreeAreClean, Objects
  <2>5. NoWaste /\ PeakCounts
    BY <2>1, <2>2, PoolAssumption DEF PoolInit, NoWaste, PeakCounts
  <2> QED
    BY <2>3, <2>4, <2>5 DEF PoolInv
<1>2. PoolInv /\ [PoolNext]_poolVars => PoolInv'
  BY NextPoolInv
<1>3. PoolInv => Pool
  BY DEF PoolInv, Pool
<1> QED
  BY <1>1, <1>2, <1>3, PTL DEF PoolSpec

-----------------------------------------------------------------------------
(* SameOrder.  A thread hands its message to the logs one after the other, *)
(* and until it is done no other thread of its manager hands out anything; *)
(* a thread of an earlier manager, or of a list that changed, has gone     *)
(* lost, and so a log that is added again gets nothing more from it.       *)

\* One thread of the manager is inside the lock.
Holding(l) == at[l] = "iterating" /\ uses[l] = manager

LockOK ==
  /\ manager <= starts
  /\ \A l \in Logger : Holding(l) => locked /\ \A k \in Logger : Holding(k) => k = l
  /\ \A l \in Logger : at[l] \in {"called", "iterating"} => uses[l] # 0

\* No log is in the list twice.
LogsOK == IsInjective(logs)

\* No log has a message that its thread has not come to log.
NumbersOK ==
  \A g \in Log : \A p \in 1..Len(lines[g]) :
    LET l == lines[g][p][1]
    IN  /\ lines[g][p][2] <= message[l].number
        /\ at[l] \in {"asked", "called"} => lines[g][p][2] < message[l].number

\* What an iterating thread hands out came last in all the logs that have it,
\* and is not in those it still comes to.
InHandOK ==
  \A l \in Logger : Iterating(l) =>
    LET m == <<l, message[l].number>>
    IN  /\ next[l] # 0
        /\ \A g \in Log : \A p \in 1..Len(lines[g]) : lines[g][p] = m => p = Len(lines[g])
        /\ \A k \in 1..Len(logs) : k >= next[l] =>
             \A p \in 1..Len(lines[logs[k]]) : lines[logs[k]][p] # m

LogInv == LogTypeOK /\ LockOK /\ LogsOK /\ NumbersOK /\ InHandOK /\ SameOrder

\* All logs are handed the messages in one order.
THEOREM LogsAgree == LogSpec => []SameOrder
<1>1. LogInit => LogInv
  <2> SUFFICES ASSUME LogInit PROVE LogInv
    OBVIOUS
  <2>1. LogTypeOK
    <3>1. logs \in Seq(Log) /\ lines \in [Log -> Seq(Logger \X Nat)]
      BY EmptySeq DEF LogInit
    <3>2. message \in [Logger -> [number : Nat, level : Level \cup {0}]] /\ uses \in [Logger -> 0..starts]
      BY DEF LogInit
    <3>3. manager \in 0..starts /\ starts \in 0..MaxStarts /\ additions \in 0..MaxAdditions
      BY LogAssumption DEF LogInit
    <3> QED
      BY <3>1, <3>2, <3>3 DEF LogInit, LogTypeOK
  <2>2. ToSet(<<>>) = {} /\ IsInjective(<<>>)
    BY DEF ToSet, IsInjective
  <2>3. LockOK /\ LogsOK /\ InHandOK
    BY <2>2 DEF LogInit, LockOK, Holding, LogsOK, InHandOK, Iterating
  <2>4. \A g \in Log : Len(lines[g]) = 0
    BY DEF LogInit
  <2>5. NumbersOK /\ SameOrder
    BY <2>4 DEF NumbersOK, SameOrder
  <2> QED
    BY <2>1, <2>3, <2>5 DEF LogInv
<1>2. LogInv /\ [LogNext]_logVars => LogInv'
  <2> SUFFICES ASSUME LogInv, [LogNext]_logVars PROVE LogInv'
    OBVIOUS
  <2>1. /\ manager \in 0..starts /\ starts \in 0..MaxStarts /\ MaxStarts \in Nat
        /\ least \in Level \cup {0} /\ locked \in BOOLEAN /\ jammed \in BOOLEAN
        /\ logs \in Seq(Log) /\ additions \in 0..MaxAdditions /\ MaxAdditions \in Nat /\ deleted \subseteq Log
        /\ at \in [Logger -> {"idle", "asked", "called", "iterating", "stuck", "lost"}]
        /\ uses \in [Logger -> 0..starts] /\ next \in [Logger -> Nat]
        /\ message \in [Logger -> [number : Nat, level : Level \cup {0}]]
        /\ quiet \in BOOLEAN /\ changed \subseteq Logger
        /\ lines \in [Log -> Seq(Logger \X Nat)]
    BY LogAssumption DEF LogInv, LogTypeOK
  <2>2. LockOK /\ LogsOK /\ NumbersOK /\ InHandOK /\ SameOrder
    BY DEF LogInv
  <2>0. ASSUME NEW g \in Log, NEW p \in 1..Len(lines[g])
        PROVE  /\ lines[g][p][1] \in Logger /\ lines[g][p][2] \in Nat
               /\ lines[g][p][2] <= message[lines[g][p][1]].number
               /\ at[lines[g][p][1]] \in {"asked", "called"} =>
                    lines[g][p][2] < message[lines[g][p][1]].number
    <3>1. lines[g] \in Seq(Logger \X Nat)
      BY <2>1
    <3>2. lines[g][p] \in Logger \X Nat
      BY <3>1, ElementOfSeq
    <3> QED
      BY <2>2, <3>2 DEF NumbersOK
  \* The application leaves nobody an iterator that is good for anything.
  <2>3. ASSUME UNCHANGED <<at, uses, next, message, lines>>, LogTypeOK', LogsOK', LockOK',
               \A l \in Logger : ~Iterating(l)'
        PROVE  LogInv'
    BY <2>2, <2>3 DEF LogInv, NumbersOK, InHandOK, SameOrder
  <2>4. CASE Initialize
    <3>1. /\ starts < MaxStarts /\ starts' = starts + 1 /\ manager' = starts + 1
          /\ least' \in Level /\ locked' = FALSE /\ jammed' = FALSE
          /\ UNCHANGED <<quiet, logs, additions, deleted, at, uses, next, message, changed, lines>>
      BY <2>4 DEF Initialize, listVars, callVars
    <3>2. \A l \in Logger : uses[l] \in 0..starts' /\ uses[l] # manager'
      BY <2>1, <3>1
    <3>3. LogTypeOK'
      <4>1. manager' \in 0..starts' /\ starts' \in 0..MaxStarts
        BY <2>1, <3>1
      <4> QED
        BY <2>1, <3>1, <3>2, <4>1 DEF LogTypeOK
    <3>4. LogsOK' /\ LockOK'
      BY <2>1, <2>2, <3>1, <3>2 DEF LogsOK, LockOK, Holding
    <3>5. \A l \in Logger : ~Iterating(l)'
      BY <3>1, <3>2 DEF Iterating, Lost
    <3> QED
      BY <2>3, <3>1, <3>3, <3>4, <3>5
  <2>5. CASE Deinitialize
    <3>1. /\ manager' = 0 /\ logs' = <<>> /\ deleted' = deleted \cup ToSet(logs)
          /\ UNCHANGED <<quiet, least, locked, additions, starts, at, uses, next, message, jammed, lines>>
          /\ changed' = changed \cup {l \in Logger : at[l] = "iterating"}
      BY <2>5 DEF Deinitialize, Invalidate, callVars
    <3>2. LogTypeOK'
      BY <2>1, <3>1, EmptySeq, ElementOfSeq DEF LogTypeOK, ToSet
    <3>3. LogsOK'
      BY <3>1 DEF LogsOK, ToSet, IsInjective
    <3>4. LockOK'
      BY <2>1, <2>2, <3>1 DEF LockOK, Holding
    <3>5. \A l \in Logger : ~Iterating(l)'
      BY <3>1 DEF Iterating, Lost
    <3> QED
      BY <2>3, <3>1, <3>2, <3>3, <3>4, <3>5
  <2>6. ASSUME NEW g \in Log, AddLog(g) \/ RemoveLog(g) PROVE LogInv'
    <3>1. /\ UNCHANGED <<quiet, manager, least, locked, starts, at, uses, next, message, jammed, lines>>
          /\ changed' = changed \cup {l \in Logger : at[l] = "iterating"}
          /\ deleted' = deleted
          /\ \/ /\ g \notin ToSet(logs) /\ logs' = Append(logs, g)
                /\ additions < MaxAdditions /\ additions' = additions + 1
             \/ logs' = RemoveFirst(logs, g) /\ additions' = additions
      BY <2>6 DEF AddLog, RemoveLog, Invalidate, callVars
    <3>2. /\ Append(logs, g) \in Seq(Log) /\ ToSet(Append(logs, g)) = ToSet(logs) \cup {g}
          /\ g \notin ToSet(logs) => IsInjective(Append(logs, g))
          /\ RemoveFirst(logs, g) \in Seq(Log)
          /\ IsInjective(RemoveFirst(logs, g)) /\ ToSet(RemoveFirst(logs, g)) = ToSet(logs) \ {g}
      BY <2>1, <2>2, ListProperties DEF LogsOK
    <3>3. LogTypeOK'
      <4>1. logs' \in Seq(Log)
        BY <3>1, <3>2
      <4>2. additions' \in 0..MaxAdditions
        BY <2>1, <3>1
      <4> QED
        BY <2>1, <3>1, <4>1, <4>2 DEF LogTypeOK
    <3>4. LogsOK' /\ LockOK'
      BY <2>2, <3>1, <3>2 DEF LogsOK, LockOK, Holding
    <3>5. \A l \in Logger : ~Iterating(l)'
      BY <3>1 DEF Iterating, Lost
    <3> QED
      BY <2>3, <3>1, <3>3, <3>4, <3>5
  <2>7. ASSUME NEW l \in Logger, NEW level \in Level, StartMessage(l, level) PROVE LogInv'
    <3>1. PICK to \in {"asked", "idle"} : Goes(l, "idle", to)
      BY <2>7 DEF StartMessage
    <3>2. /\ at[l] = "idle" /\ at' = [at EXCEPT ![l] = to]
          /\ message' = [message EXCEPT ![l] = [number |-> message[l].number + 1, level |-> level]]
          /\ UNCHANGED <<quiet, manager, least, logs, additions, deleted, starts, changed, locked, uses, next, jammed, lines>>
      BY <2>7, <3>1 DEF StartMessage, Goes, appVars, listVars
    <3>3. /\ at'[l] = to /\ message'[l].number = message[l].number + 1 /\ message[l].number \in Nat
          /\ \A k \in Logger : k # l => at'[k] = at[k] /\ message'[k] = message[k]
      BY <2>1, <3>2
    <3>4. LogTypeOK'
      BY <2>1, <3>2 DEF LogTypeOK
    <3>5. \A k \in Logger : /\ Holding(k)' <=> Holding(k)
                            /\ Iterating(k)' <=> Iterating(k)
                            /\ Iterating(k) => k # l
      BY <3>2, <3>3 DEF Holding, Iterating, Lost
    <3>6. LockOK' /\ LogsOK'
      BY <2>2, <3>2, <3>3, <3>5 DEF LockOK, LogsOK
    <3>7. NumbersOK'
      <4>1. ASSUME NEW g \in Log, NEW p \in 1..Len(lines[g])
            PROVE  LET k == lines[g][p][1]
                   IN  /\ lines[g][p][2] <= message'[k].number
                       /\ at'[k] \in {"asked", "called"} => lines[g][p][2] < message'[k].number
        <5> DEFINE k == lines[g][p][1]
        <5>1. /\ k \in Logger /\ lines[g][p][2] \in Nat
              /\ lines[g][p][2] <= message[k].number
              /\ at[k] \in {"asked", "called"} => lines[g][p][2] < message[k].number
          BY <2>0, <4>1
        <5> DEFINE n == lines[g][p][2]
        <5>2. /\ n <= message'[k].number
              /\ at'[k] \in {"asked", "called"} => n < message'[k].number
          <6>1. k \in Logger /\ n \in Nat
            BY <5>1 DEF k, n
          <6>2. /\ n <= message[k].number
                /\ at[k] \in {"asked", "called"} => n < message[k].number
            BY <5>1 DEF k, n
          <6> HIDE DEF k, n
          <6>3. CASE k = l
            BY <3>3, <6>1, <6>2, <6>3
          <6>4. CASE k # l
            BY <3>3, <6>1, <6>2, <6>4
          <6> QED
            BY <6>3, <6>4
        <5> QED
          BY <5>2
      <4> QED
        BY <3>2, <4>1 DEF NumbersOK
    <3>8. InHandOK'
      BY <2>2, <3>2, <3>3, <3>5 DEF InHandOK
    <3>9. SameOrder'
      BY <2>2, <3>2 DEF SameOrder
    <3> QED
      BY <3>4, <3>6, <3>7, <3>8, <3>9 DEF LogInv
  \* Steps of a thread but for HandToLog.
  <2>8. ASSUME NEW l \in Logger, NEW from \in {"asked", "called", "iterating"}, at[l] = from,
               NEW to \in {"idle", "called", "iterating", "stuck", "lost"}, at' = [at EXCEPT ![l] = to],
               to = "called" => from = "asked",
               UNCHANGED <<quiet, manager, least, logs, additions, deleted, starts, changed, message, lines>>,
               uses' \in [Logger -> 0..starts], next' \in [Logger -> Nat], locked' \in BOOLEAN, jammed' \in BOOLEAN,
               \A k \in Logger : k # l => uses'[k] = uses[k] /\ next'[k] = next[k],
               LockOK', to = "iterating" => from = "called" /\ next'[l] = 1
        PROVE  LogInv'
    <3>1. at'[l] = to /\ \A k \in Logger : k # l => at'[k] = at[k]
      BY <2>1, <2>8
    <3>2. LogTypeOK'
      BY <2>1, <2>8 DEF LogTypeOK
    <3>3. LogsOK' /\ SameOrder'
      <4>1. lines' = lines /\ logs' = logs
        BY <2>8
      <4>2. LogsOK'
        BY <2>2, <4>1 DEF LogsOK
      <4>3. SameOrder'
        BY <2>2, <4>1 DEF SameOrder
      <4> QED
        BY <4>2, <4>3
    <3>4. ASSUME NEW g \in Log, NEW p \in 1..Len(lines[g])
          PROVE  LET k == lines[g][p][1]
                 IN  /\ lines[g][p][2] <= message[k].number
                     /\ at[k] \in {"asked", "called"} => lines[g][p][2] < message[k].number
                     /\ at'[k] \in {"asked", "called"} => lines[g][p][2] < message[k].number
      <4> DEFINE k == lines[g][p][1]
      <4>1. /\ k \in Logger
            /\ lines[g][p][2] <= message[k].number
            /\ at[k] \in {"asked", "called"} => lines[g][p][2] < message[k].number
        BY <2>0, <3>4
      <4> HIDE DEF k
      <4>2. at'[k] \in {"asked", "called"} => at[k] \in {"asked", "called"}
        BY <2>8, <3>1, <4>1
      <4> QED
        BY <4>1, <4>2 DEF k
    <3>5. NumbersOK'
      BY <2>8, <3>4 DEF NumbersOK
    <3>6. InHandOK'
      <4>1. ASSUME NEW k \in Logger, k # l, Iterating(k)' PROVE Iterating(k)
        BY <2>8, <3>1, <4>1 DEF Iterating, Lost
      <4>2. ASSUME to = "iterating", NEW g \in Log, NEW p \in 1..Len(lines[g])
            PROVE  lines[g][p] # <<l, message[l].number>>
        <5>1. at[l] = "called"
          BY <2>8, <4>2
        <5>2. lines[g][p][1] = l => lines[g][p][2] < message[l].number
          BY <2>0, <4>2, <5>1
        <5>3. message[l].number \in Nat
          BY <2>1
        <5> QED
          BY <5>2, <5>3
      <4>3. to = "iterating" => \A k \in 1..Len(logs) : logs[k] \in Log
        BY <2>1, ElementOfSeq
      <4>4. ASSUME NEW k \in Logger, Iterating(k)'
            PROVE  LET m == <<k, message[k].number>>
                   IN  /\ next'[k] # 0
                       /\ \A g \in Log : \A p \in 1..Len(lines[g]) : lines[g][p] = m => p = Len(lines[g])
                       /\ \A i \in 1..Len(logs) : i >= next'[k] =>
                            \A p \in 1..Len(lines[logs[i]]) : lines[logs[i]][p] # m
        <5>1. CASE k # l
          BY <2>2, <2>8, <4>1, <4>4, <5>1 DEF InHandOK
        <5>2. CASE k = l
          <6>1. to = "iterating" /\ next'[l] = 1
            BY <2>8, <3>1, <4>4, <5>2 DEF Iterating
          <6>2. \A g \in Log : \A p \in 1..Len(lines[g]) : lines[g][p] # <<l, message[l].number>>
            BY <4>2, <6>1
          <6>3. \A i \in 1..Len(logs) : \A p \in 1..Len(lines[logs[i]]) :
                  lines[logs[i]][p] # <<l, message[l].number>>
            BY <4>3, <6>1, <6>2
          <6> QED
            BY <5>2, <6>1, <6>2, <6>3
        <5> QED
          BY <5>1, <5>2
      <4>5. UNCHANGED <<message, lines, logs>>
        BY <2>8
      <4> QED
        BY <4>4, <4>5 DEF InHandOK
    <3> QED
      BY <2>8, <3>2, <3>3, <3>5, <3>6 DEF LogInv
  <2>9. ASSUME NEW l \in Logger, TakeRef(l) PROVE LogInv'
    <3>1. PICK to \in {"called", "lost"} :
            /\ to = "called" => manager # 0
            /\ at[l] = "asked" /\ at' = [at EXCEPT ![l] = to]
            /\ uses' = [uses EXCEPT ![l] = manager]
            /\ UNCHANGED <<quiet, manager, least, logs, additions, deleted, starts, changed, locked, next, message, jammed, lines>>
      <4>1. PICK to \in {"called", "lost"} : to = (IF manager = 0 THEN "lost" ELSE "called")
        OBVIOUS
      <4>2. at[l] = "asked" /\ at' = [at EXCEPT ![l] = to]
        BY <2>9, <4>1 DEF TakeRef, Goes
      <4> QED
        BY <2>9, <4>1, <4>2 DEF TakeRef, appVars, listVars
    <3>2. /\ at'[l] = to /\ uses'[l] = manager
          /\ \A k \in Logger : k # l => at'[k] = at[k] /\ uses'[k] = uses[k]
      BY <2>1, <3>1
    <3>3. LockOK'
      BY <2>2, <3>1, <3>2 DEF LockOK, Holding
    <3> QED
      BY <2>1, <2>8, <3>1, <3>2, <3>3
  <2>10. ASSUME NEW l \in Logger, Acquire(l) PROVE LogInv'
    <3>1. /\ at[l] = "called" /\ at' = [at EXCEPT ![l] = "iterating"] /\ ~Lost(l)
          /\ ~locked /\ locked' = TRUE /\ next' = [next EXCEPT ![l] = 1]
          /\ UNCHANGED <<quiet, manager, least, logs, additions, deleted, starts, changed, uses, message, jammed, lines>>
      BY <2>10 DEF Acquire, LockFree, Goes, appVars, listVars
    <3>2. /\ at'[l] = "iterating" /\ next'[l] = 1
          /\ \A k \in Logger : k # l => at'[k] = at[k] /\ next'[k] = next[k]
      BY <2>1, <3>1
    <3>3. LockOK'
      BY <2>2, <3>1, <3>2 DEF LockOK, Holding
    <3> QED
      BY <2>1, <2>8, <3>1, <3>2, <3>3
  <2>11. ASSUME NEW l \in Logger,
                Ignore(l) \/ LogThrows(l) \/ LogLogs(l) \/ Release(l) \/ GetLost(l)
         PROVE  LogInv'
    <3>1. PICK to \in {"idle", "stuck", "lost"} : at' = [at EXCEPT ![l] = to]
      BY <2>11 DEF Ignore, LogThrows, LogLogs, Release, GetLost, Goes
    <3>2. /\ at[l] \in {"called", "iterating"}
          /\ locked' = locked \/ (locked' = FALSE /\ Holding(l))
          /\ UNCHANGED <<quiet, manager, least, logs, additions, deleted, starts, changed, uses, next, message, lines>>
          /\ jammed' = jammed \/ jammed' = TRUE
      BY <2>11 DEF Ignore, LogThrows, LogLogs, Release, ClearLock, GetLost, Goes, Iterating, Lost, Holding,
                   appVars, listVars
    <3>3. at'[l] = to /\ \A k \in Logger : k # l => at'[k] = at[k]
      BY <2>1, <3>1
    <3>4. LockOK'
      BY <2>2, <3>2, <3>3 DEF LockOK, Holding
    <3> QED
      BY <2>1, <2>8, <3>1, <3>2, <3>4
  <2>12. ASSUME NEW l \in Logger, HandToLog(l) PROVE LogInv'
    <3> DEFINE m == <<l, message[l].number>>
               g == logs[next[l]]
    <3>1. /\ Iterating(l) /\ next[l] <= Len(logs)
          /\ lines' = [lines EXCEPT ![g] = Append(@, m)]
          /\ next' = [next EXCEPT ![l] = @ + 1]
          /\ UNCHANGED <<quiet, manager, least, logs, additions, deleted, starts, changed, locked, at, uses, message, jammed>>
      BY <2>12 DEF HandToLog, appVars, listVars
    <3>2. next[l] \in 1..Len(logs) /\ g \in Log /\ m \in Logger \X Nat /\ Len(logs) \in Nat
      <4>1. next[l] \in Nat \ {0} /\ Len(logs) \in Nat
        BY <2>1, <2>2, <3>1, LenProperties DEF InHandOK
      <4>2. next[l] \in 1..Len(logs)
        BY <3>1, <4>1
      <4> QED
        BY <2>1, <4>1, <4>2, ElementOfSeq
    <3>3. /\ \A h \in Log : \A p \in 1..Len(lines[h]) : lines[h][p] = m => p = Len(lines[h])
          /\ \A k \in 1..Len(logs) : k >= next[l] =>
               \A p \in 1..Len(lines[logs[k]]) : lines[logs[k]][p] # m
      BY <2>2, <3>1 DEF InHandOK
    <3>4. \A p \in 1..Len(lines[g]) : lines[g][p] # m
      <4> HIDE DEF m
      <4>1. next[l] >= next[l]
        BY <3>2
      <4> QED
        BY <3>2, <3>3, <4>1
    <3>5. \A k \in 1..Len(logs) : k > next[l] => logs[k] # g
      BY <2>1, <2>2, <3>2 DEF LogsOK, IsInjective
    <3>6. next'[l] = next[l] + 1 /\ \A k \in Logger : k # l => next'[k] = next[k]
      BY <2>1, <3>1
    <3> HIDE DEF m, g
    <3>7. ASSUME NEW h \in Log
          PROVE  /\ lines[h] \in Seq(Logger \X Nat) /\ Len(lines[h]) \in Nat
                 /\ h # g => lines'[h] = lines[h]
                 /\ h = g => /\ Len(lines'[h]) = Len(lines[h]) + 1 /\ lines'[h][Len(lines[h]) + 1] = m
                             /\ \A p \in 1..Len(lines[h]) : lines'[h][p] = lines[h][p]
      <4>1. lines[h] \in Seq(Logger \X Nat) /\ lines' = [lines EXCEPT ![g] = Append(lines[g], m)]
        BY <2>1, <3>1
      <4>2. Len(lines[h]) \in Nat
        BY <4>1, LenProperties
      <4>3. lines'[h] = IF h = g THEN Append(lines[h], m) ELSE lines[h]
        BY <2>1, <4>1
      <4>4. /\ Len(Append(lines[h], m)) = Len(lines[h]) + 1
            /\ Append(lines[h], m)[Len(lines[h]) + 1] = m
            /\ \A p \in 1..Len(lines[h]) : Append(lines[h], m)[p] = lines[h][p]
        BY <3>2, <4>1, AppendProperties
      <4> QED
        BY <4>1, <4>2, <4>3, <4>4
    \* The message comes last wherever it is, and other places are as before.
    <3>8. ASSUME NEW h \in Log, NEW p \in 1..Len(lines'[h])
          PROVE  /\ lines'[h][p] = m => p = Len(lines'[h])
                 /\ lines'[h][p] # m => p \in 1..Len(lines[h]) /\ lines'[h][p] = lines[h][p]
      <4>1. CASE h # g
        BY <3>3, <3>7, <3>8, <4>1
      <4>2. CASE h = g
        <5>1. p \in 1..Len(lines[h]) \/ p = Len(lines[h]) + 1
          BY <3>7, <3>8, <4>2
        <5> QED
          BY <3>4, <3>7, <4>2, <5>1
      <4> QED
        BY <4>1, <4>2
    <3>9. \A h \in Log : Len(lines'[h]) \in Nat
      BY <3>7
    <3>10. LogTypeOK'
      <4>1. lines' \in [Log -> Seq(Logger \X Nat)]
        BY <2>1, <3>1, <3>2, AppendProperties
      <4>2. next' \in [Logger -> Nat]
        BY <2>1, <3>1
      <4> QED
        BY <2>1, <3>1, <4>1, <4>2 DEF LogTypeOK
    <3>11. LockOK' /\ LogsOK'
      BY <2>2, <3>1 DEF LockOK, LogsOK, Holding
    <3>12. NumbersOK'
      <4>1. ASSUME NEW h \in Log, NEW p \in 1..Len(lines'[h])
            PROVE  LET k == lines'[h][p][1]
                   IN  /\ lines'[h][p][2] <= message[k].number
                       /\ at[k] \in {"asked", "called"} => lines'[h][p][2] < message[k].number
        <5>1. CASE lines'[h][p] = m
          <6>1. lines'[h][p][1] = l /\ lines'[h][p][2] = message[l].number /\ message[l].number \in Nat
            BY <2>1, <5>1 DEF m
          <6> QED
            BY <3>1, <6>1 DEF Iterating
        <5>2. CASE lines'[h][p] # m
          BY <2>2, <3>8, <4>1, <5>2 DEF NumbersOK
        <5> QED
          BY <5>1, <5>2
      <4> QED
        BY <3>1, <4>1 DEF NumbersOK
    <3>13. InHandOK'
      <4>1. ASSUME NEW k \in Logger, Iterating(k)' PROVE k = l
        <5>1. Holding(k) /\ Holding(l)
          BY <3>1, <4>1 DEF Iterating, Lost, Holding
        <5> QED
          BY <2>2, <5>1 DEF LockOK
      <4>2. ASSUME NEW k \in 1..Len(logs), k >= next'[l]
            PROVE  \A p \in 1..Len(lines'[logs[k]]) : lines'[logs[k]][p] # m
        <5>1. logs[k] \in Log
          BY <2>1, <4>2, ElementOfSeq
        <5>2. k > next[l] /\ k >= next[l]
          BY <2>1, <3>6, <4>2
        <5>3. logs[k] # g
          BY <3>5, <4>2, <5>2
        <5> QED
          BY <3>3, <3>7, <4>2, <5>1, <5>2, <5>3
      <4>3. next'[l] # 0
        BY <2>1, <3>6
      <4>4. \A h \in Log : \A p \in 1..Len(lines'[h]) : lines'[h][p] = m => p = Len(lines'[h])
        BY <3>8
      <4>5. message' = message /\ logs' = logs
        BY <3>1
      <4>6. ASSUME NEW k \in Logger, Iterating(k)'
            PROVE  LET n == <<k, message'[k].number>>
                   IN  /\ next'[k] # 0
                       /\ \A h \in Log : \A p \in 1..Len(lines'[h]) : lines'[h][p] = n => p = Len(lines'[h])
                       /\ \A i \in 1..Len(logs') : i >= next'[k] =>
                            \A p \in 1..Len(lines'[logs'[i]]) : lines'[logs'[i]][p] # n
        <5>1. k = l /\ <<k, message'[k].number>> = m
          BY <4>1, <4>5, <4>6 DEF m
        <5> QED
          BY <4>2, <4>3, <4>4, <4>5, <5>1
      <4> QED
        BY <4>6 DEF InHandOK
    <3>14. SameOrder'
      <4>1. SUFFICES ASSUME NEW a \in Log, NEW b \in Log,
                            NEW i \in 1..Len(lines'[a]), NEW j \in 1..Len(lines'[a]),
                            NEW p \in 1..Len(lines'[b]), NEW q \in 1..Len(lines'[b]),
                            lines'[a][i] = lines'[b][p], lines'[a][j] = lines'[b][q]
                     PROVE  i < j <=> p < q
        BY DEF SameOrder
      <4>2. CASE lines'[a][i] = m
        <5>1. i = Len(lines'[a]) /\ p = Len(lines'[b])
          BY <3>8, <4>1, <4>2
        <5> QED
          BY <3>9, <5>1
      <4>3. CASE lines'[a][i] # m /\ lines'[a][j] = m
        <5>1. j = Len(lines'[a]) /\ q = Len(lines'[b])
          BY <3>8, <4>1, <4>3
        <5>2. i # j /\ p # q
          BY <4>1, <4>3
        <5> QED
          BY <3>9, <5>1, <5>2
      <4>4. CASE lines'[a][i] # m /\ lines'[a][j] # m
        <5>1. /\ i \in 1..Len(lines[a]) /\ lines'[a][i] = lines[a][i]
              /\ j \in 1..Len(lines[a]) /\ lines'[a][j] = lines[a][j]
              /\ p \in 1..Len(lines[b]) /\ lines'[b][p] = lines[b][p]
              /\ q \in 1..Len(lines[b]) /\ lines'[b][q] = lines[b][q]
          BY <3>8, <4>1, <4>4
        <5>2. lines[a][i] = lines[b][p] /\ lines[a][j] = lines[b][q]
          BY <4>1, <5>1
        <5> QED
          BY <2>2, <5>1, <5>2 DEF SameOrder
      <4> QED
        BY <4>2, <4>3, <4>4
    <3> QED
      BY <3>10, <3>11, <3>12, <3>13, <3>14 DEF LogInv
  <2>13. CASE UNCHANGED logVars
    <3>1. UNCHANGED <<quiet, manager, least, locked, logs, additions, deleted, starts, at, uses, next, message,
                      changed, jammed, lines>>
      BY <2>13 DEF logVars, listVars, callVars
    <3>2. LogTypeOK' /\ LockOK' /\ LogsOK'
      BY <2>1, <2>2, <3>1 DEF LogTypeOK, LockOK, LogsOK, Holding
    <3>3. NumbersOK'
      BY <2>2, <3>1 DEF NumbersOK
    <3>4. InHandOK'
      BY <2>2, <3>1 DEF InHandOK, Iterating, Lost
    <3>5. SameOrder'
      BY <2>2, <3>1 DEF SameOrder
    <3> QED
      BY <3>2, <3>3, <3>4, <3>5 DEF LogInv
  <2> QED
    BY <2>4, <2>5, <2>6, <2>7, <2>9, <2>10, <2>11, <2>12, <2>13 DEF LogNext, Logging
<1>3. LogInv => SameOrder
  BY DEF LogInv
<1> QED
  BY <1>1, <1>2, <1>3, PTL DEF LogSpec
=============================================================================
