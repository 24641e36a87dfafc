------------------------------- MODULE ObjectPool -------------------------------
(***************************************************************************)
(* ObjectPool (base/ObjectPool.h): objects that several threads take and   *)
(* give back.  getObject makes initialSize_ more when none is free.  The   *)
(* deleter of the pointer it returns clears the object before it takes the *)
(* mutex, as the object is still out of everybody's reach.  Which of the   *)
(* free objects is taken (the last) tells no property apart.               *)
(***************************************************************************)
EXTENDS Naturals, FiniteSets

CONSTANTS
  User,         \* the threads
  initialSize,  \* the argument of the constructor
  MaxHeld       \* bound on the objects of one thread

ASSUME PoolAssumption == initialSize \in Nat \ {0} /\ MaxHeld \in Nat

VARIABLES
  size,      \* objects made so far, which are the numbers 1..size
  free,      \* freeObjects_
  held,      \* who has which object: pairs
  clearing,  \* those whose deleter is between clear and the lock
  used,      \* objects that hold what somebody left in them
  peak       \* history: the most objects out of the pool at a time

poolVars == <<size, free, held, clearing, used, peak>>

PoolInit ==
  /\ size = initialSize /\ free = 1..initialSize
  /\ held = {} /\ clearing = {} /\ used = {} /\ peak = 0

Objects(pairs) == {pair[2] : pair \in pairs}
Out == Objects(held) \cup Objects(clearing)
Busy(u) == \E obj \in 1..size : <<u, obj>> \in clearing
HasRoom(u) == Cardinality({pair \in held : pair[1] = u}) < MaxHeld

Grown == IF free = {} THEN size + initialSize ELSE size

GetObject(u) ==
  /\ ~Busy(u) /\ HasRoom(u)
  /\ size' = Grown
  /\ \E obj \in free \cup (size + 1 .. Grown) :
       /\ free' = (free \cup (size + 1 .. Grown)) \ {obj}
       /\ held' = held \cup {<<u, obj>>}
  /\ peak' = IF Cardinality(Out) < peak THEN peak ELSE peak + 1
  /\ UNCHANGED <<clearing, used>>

Use(u, obj) ==
  /\ ~Busy(u) /\ <<u, obj>> \in held
  /\ used' = used \cup {obj}
  /\ UNCHANGED <<size, free, held, clearing, peak>>

\* Mutant: the object is given back as it is.
LeaveContent(obj) == UNCHANGED used

ClearContent(obj) == used' = used \ {obj}

\* The deleter: obj->clear().
Clear(u, obj) ==
  /\ ~Busy(u) /\ <<u, obj>> \in held
  /\ held' = held \ {<<u, obj>>}
  /\ clearing' = clearing \cup {<<u, obj>>}
  /\ ClearContent(obj)
  /\ UNCHANGED <<size, free, peak>>

\* The rest of the deleter, under the mutex.
PushBack(u, obj) ==
  /\ <<u, obj>> \in clearing
  /\ clearing' = clearing \ {<<u, obj>>}
  /\ free' = free \cup {obj}
  /\ UNCHANGED <<size, held, used, peak>>

PoolNext ==
  \E u \in User :
    \/ GetObject(u)
    \/ \E obj \in 1..size : Use(u, obj) \/ Clear(u, obj) \/ PushBack(u, obj)

PoolSpec == PoolInit /\ [][PoolNext]_poolVars

-----------------------------------------------------------------------------
(* Properties *)

PoolTypeOK ==
  /\ size \in Nat /\ peak \in Nat
  /\ free \subseteq 1..size /\ used \subseteq 1..size
  /\ held \subseteq User \X (1..size) /\ clearing \subseteq User \X (1..size)

\* No object is in two places, or with two users.
OneOwner ==
  /\ \A p, q \in held \cup clearing : p[2] = q[2] => p = q
  /\ Objects(held) \cap Objects(clearing) = {}
  /\ free \cap Out = {}

\* Who takes an object finds nothing of its last user in it.
FreeAreClean == used \subseteq Objects(held)

\* No object gets lost, and the pool grows only when it has to: all but the
\* last initialSize objects were out at the same time.
NoWaste ==
  /\ 1..size = free \cup Out
  /\ size < peak + initialSize \/ size = initialSize

Pool == OneOwner /\ FreeAreClean /\ NoWaste
=============================================================================
