--------------------------- MODULE ConnectionSpawner ---------------------------
(***************************************************************************)
(* Factories, spawners and acceptors of connections inside one process:    *)
(* LoopbackConnectionFactory, LoopbackConnectionSpawner and                *)
(* LoopbackConnectionAcceptor (net/message), and the same three classes    *)
(* for QueueConnection (net/stream).  A factory keeps a spawner for every  *)
(* name that was ever bound.  connect makes both ends of a connection and  *)
(* puts one of them into the queue of the spawner, where any acceptor      *)
(* bound to the name takes it.  autoPortCount and connectionCounter are    *)
(* static: all factories of a class share them, and no lock protects them. *)
(* connectionCounter++ is therefore a read and a write.                    *)
(*                                                                         *)
(* A name is its port, a number; the machine is always the same.  bind is  *)
(* one step: called by two threads, or during a connect, it would change a *)
(* vector the other one reads.                                             *)
(***************************************************************************)
EXTENDS Naturals, Sequences, FiniteSets

CONSTANTS
  Factory,
  Client,       \* threads that connect
  Acceptor,     \* objects that bind returns
  Port,         \* ports asked for by number
  MaxBinds,     \* bound on the calls of bind
  MaxConnects   \* bound on the connections

ASSUME SpawnerAssumption ==
  Port \subseteq Nat /\ MaxBinds \in Nat /\ MaxConnects \in Nat

VARIABLES
  spawners,   \* spawners_ of each factory: names and queues, in order
  bound,      \* the spawner of each acceptor: {} or {<<factory, index>>}
  autoPort,   \* autoPortCount
  counter,    \* connectionCounter
  step,       \* where each client is in connect
  request,    \* the spawner it found
  read,       \* the value of connectionCounter it read
  names,      \* the endpoints it has numbered so far
  made,       \* history: connections, in the order of their being queued
  accepted,   \* history: those accepted
  binds       \* history: calls of bind

clientVars == <<step, request, read, names>>
spawnerVars == <<spawners, bound, autoPort, counter, clientVars, made, accepted, binds>>

Spawner == UNION {{<<f, i>> : i \in 1..Len(spawners[f])} : f \in Factory}

SpawnerInit ==
  /\ spawners = [f \in Factory |-> <<>>]
  /\ bound = [a \in Acceptor |-> {}]
  /\ autoPort = 0 /\ counter = 0
  /\ step = [c \in Client |-> "idle"]
  /\ request = [c \in Client |-> {}]
  /\ read = [c \in Client |-> 0]
  /\ names = [c \in Client |-> <<>>]
  /\ made = <<>> /\ accepted = {}
  /\ binds = 0

-----------------------------------------------------------------------------
\* getSpawner: the first of the name, in a set that is empty for nullptr.
Found(f, name) ==
  LET same == {i \in 1..Len(spawners[f]) : spawners[f][i].name = name}
  IN  {<<f, i>> : i \in {j \in same : \A k \in same : j <= k}}

\* Mutant: every bind makes a spawner, which getSpawner may not find.
MakeSpawner(f, name) ==
  spawners' = [spawners EXCEPT ![f] = Append(@, [name |-> name, waiting |-> <<>>])]

KnownSpawner(f, name) ==
  IF Found(f, name) = {} THEN MakeSpawner(f, name) ELSE UNCHANGED spawners

\* bind, of a port or of one counted up.
Bind(a, f, name) ==
  /\ bound[a] = {} /\ binds < MaxBinds
  /\ KnownSpawner(f, name)
  /\ bound' = [bound EXCEPT ![a] =
       IF spawners' = spawners THEN Found(f, name) ELSE {<<f, Len(spawners[f]) + 1>>}]
  /\ binds' = binds + 1
  /\ UNCHANGED <<counter, clientVars, made, accepted>>

BindPort(a, f) == \E name \in Port : Bind(a, f, name) /\ UNCHANGED autoPort
BindAuto(a, f) == Bind(a, f, autoPort) /\ autoPort' = autoPort + 1

\* Mutant: what waits for an acceptor goes with it.
UnbindAndClear(a) ==
  \E s \in bound[a] :
    /\ spawners' = [spawners EXCEPT ![s[1]][s[2]].waiting = <<>>]
    /\ bound' = [bound EXCEPT ![a] = {}]
    /\ UNCHANGED <<autoPort, counter, clientVars, made, accepted, binds>>

\* An acceptor is destroyed; its spawner stays where it is.
Unbind(a) ==
  /\ bound[a] # {}
  /\ bound' = [bound EXCEPT ![a] = {}]
  /\ UNCHANGED <<spawners, autoPort, counter, clientVars, made, accepted, binds>>

\* connect, where it finds a spawner; without one it throws and changes nothing.
StartConnect(c) ==
  /\ step[c] = "idle"
  /\ Len(made) + Cardinality({d \in Client : step[d] # "idle"}) < MaxConnects
  /\ \E f \in Factory, name \in 0..MaxBinds :
       Found(f, name) # {} /\ request' = [request EXCEPT ![c] = Found(f, name)]
  /\ step' = [step EXCEPT ![c] = "number"]
  /\ UNCHANGED <<spawners, bound, autoPort, counter, read, names, made, accepted, binds>>

\* connectionCounter++, its first half.
ReadCounter(c) ==
  /\ step[c] = "number"
  /\ read' = [read EXCEPT ![c] = counter]
  /\ step' = [step EXCEPT ![c] = "write"]
  /\ UNCHANGED <<spawners, bound, autoPort, counter, request, names, made, accepted, binds>>

\* Its second half.  There are two endpoints to number.
WriteCounter(c) ==
  /\ step[c] = "write"
  /\ counter' = read[c] + 1
  /\ names' = [names EXCEPT ![c] = Append(@, read[c])]
  /\ step' = [step EXCEPT ![c] = IF names[c] = <<>> THEN "number" ELSE "queue"]
  /\ UNCHANGED <<spawners, bound, autoPort, request, read, made, accepted, binds>>

\* The server's end is queued and the client's returned.
QueueServerEnd(c) ==
  /\ step[c] = "queue"
  /\ \E s \in request[c] :
       /\ spawners' = [spawners EXCEPT ![s[1]][s[2]].waiting = Append(@, Len(made) + 1)]
       /\ made' = Append(made, [spawner |-> s, local |-> names[c][1], peer |-> names[c][2]])
  /\ step' = [step EXCEPT ![c] = "idle"]
  /\ request' = [request EXCEPT ![c] = {}]
  /\ read' = [read EXCEPT ![c] = 0]
  /\ names' = [names EXCEPT ![c] = <<>>]
  /\ UNCHANGED <<bound, autoPort, counter, accepted, binds>>

\* accept, of the connection that waits longest; without one it returns null.
Accept(a) ==
  \E s \in bound[a] :
    LET waiting == spawners[s[1]][s[2]].waiting
    IN  /\ waiting # <<>>
        /\ accepted' = accepted \cup {Head(waiting)}
        /\ spawners' = [spawners EXCEPT ![s[1]][s[2]].waiting = Tail(@)]
        /\ UNCHANGED <<bound, autoPort, counter, clientVars, made, binds>>

-----------------------------------------------------------------------------
Connect(c) == ReadCounter(c) \/ WriteCounter(c) \/ QueueServerEnd(c)

SpawnerNext ==
  \/ \E a \in Acceptor, f \in Factory : BindPort(a, f) \/ BindAuto(a, f)
  \/ \E a \in Acceptor : Unbind(a) \/ Accept(a)
  \/ \E c \in Client : StartConnect(c) \/ Connect(c)

\* A connect goes on, and acceptors are asked again and again.
SpawnerSpec ==
  /\ SpawnerInit /\ [][SpawnerNext]_spawnerVars
  /\ \A c \in Client : WF_spawnerVars(Connect(c))
  /\ \A a \in Acceptor : WF_spawnerVars(Accept(a))
-----------------------------------------------------------------------------
(* Properties *)

SpawnerTypeOK ==
  /\ \A f \in Factory : spawners[f] \in Seq([name : Nat, waiting : Seq(1..Len(made))])
  /\ bound \in [Acceptor -> SUBSET Spawner]
  /\ autoPort \in Nat /\ counter \in Nat
  /\ step \in [Client -> {"idle", "number", "write", "queue"}]
  /\ request \in [Client -> SUBSET Spawner]
  /\ read \in [Client -> Nat] /\ names \in [Client -> Seq(Nat)]
  /\ made \in Seq([spawner : Spawner, local : Nat, peer : Nat])
  /\ accepted \subseteq 1..Len(made)
  /\ binds \in Nat

\* Identifiers tell connections apart, as the aggregator takes for granted when
\* it looks for the one an error names.  They do not when two clients count up
\* at the same time.
DistinctIDs ==
  \A i, j \in 1..Len(made) :
    /\ made[i].local # made[j].peer
    /\ i # j => made[i].local # made[j].local /\ made[i].peer # made[j].peer

\* Two spawners of one factory with the same name would not know of each other.
NameOf(s) == spawners[s[1]][s[2]].name
SameName(s, r) == s[1] = r[1] /\ NameOf(s) = NameOf(r)

\* Connections of one name are accepted in the order in which they were made,
\* whichever acceptors take them; and each acceptor of the name finds all that
\* were not accepted, also those made before it was bound, of a port asked for
\* or counted up, and before earlier acceptors were destroyed.
AcceptedInOrder ==
  /\ \A k \in accepted : \A l \in 1..k-1 :
       SameName(made[l].spawner, made[k].spawner) => l \in accepted
  /\ \A a \in Acceptor : \A s \in bound[a] :
       LET waiting == spawners[s[1]][s[2]].waiting
       IN  {waiting[i] : i \in 1..Len(waiting)}
             = {k \in 1..Len(made) : SameName(made[k].spawner, s)} \ accepted

\* A connection waits for an acceptor of its name as long as it takes: if there
\* is one from some time on it is accepted, also by an acceptor bound after
\* the connection was made and all earlier ones were destroyed.
Serving(k) ==
  /\ k <= Len(made)
  /\ \E a \in Acceptor : \E s \in bound[a] : SameName(s, made[k].spawner)

Accepted == \A k \in 1..MaxConnects : <>[]Serving(k) => <>(k \in accepted)
=============================================================================
