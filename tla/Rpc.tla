---------------------------------- MODULE Rpc ----------------------------------
(***************************************************************************)
(* Clients of a dispatcher, each in a thread of its own that makes calls   *)
(* one after the other: a call is a send of a request and a receive of its *)
(* reply.  They use an RpcClient (net/rpc/RpcClient.cpp), which gives an   *)
(* error to its caller, or an AutoConnection (net/AutoConnection.cpp),     *)
(* which tries again.  Both connect when they have no connection or lost   *)
(* it.  The connection is a framing connection: its receive waits.         *)
(***************************************************************************)
EXTENDS Dispatcher

CONSTANTS
  Client,
  Workloads,    \* what the clients may set out to do
  MaxRetries    \* maxRetries

\* Which clients use an AutoConnection, how many calls each of them makes and
\* what for, by the outcome, and a bound on the connections.
Workload ==
  [auto : SUBSET Client, calls : [Client -> Nat], request : [Client -> SUBSET Outcome],
   conns : 0..MaxConn]

ASSUME WorkloadAssumption == Workloads \subseteq Workload
ASSUME RetriesAssumption == MaxRetries \in Nat \ {0}

VARIABLES
  load,      \* the workload, never changed
  at,        \* where each client is in its call
  conn,      \* m_connection, or None
  opened,    \* connections opened so far
  retries,   \* retries
  calls,     \* calls begun by each client
  taken,     \* replies taken from each connection
  asked,     \* history: the request of each client's call, or Nothing
  strayed    \* history: clients that got the reply to another request

clientVars == <<load, at, conn, opened, retries, calls, taken, asked, strayed>>
vars == <<serverVars, clientVars>>

Init ==
  /\ ServerInit
  /\ load \in Workloads
  /\ at = [k \in Client |-> "idle"]
  /\ conn = [k \in Client |-> None]
  /\ opened = 0
  /\ retries = [k \in Client |-> 0]
  /\ calls = [k \in Client |-> 0]
  /\ taken = [c \in Conn |-> 0]
  /\ asked = [k \in Client |-> Nothing]
  /\ strayed = {}

Goto(k, l) == at' = [at EXCEPT ![k] = l]

\* The two calls, and where each is once there is a connection.
Then == [send |-> "sending", receive |-> "receiving"]

-----------------------------------------------------------------------------
StartCall(k) ==
  /\ at[k] = "idle" /\ calls[k] < load.calls[k]
  /\ Goto(k, "send")
  /\ calls' = [calls EXCEPT ![k] = @ + 1]
  /\ UNCHANGED <<serverVars, load, conn, opened, retries, taken, asked, strayed>>

\* isConnected: that a connection broke may be noticed later.
UseConnection(k) ==
  /\ at[k] \in DOMAIN Then
  /\ conn[k] # None
  /\ Goto(k, Then[at[k]])
  /\ UNCHANGED <<serverVars, load, conn, opened, retries, calls, taken, asked, strayed>>

Lost(k) == conn[k] = None \/ conn[k] \notin up

\* connect, which a loopback connection can also when no dispatcher is left.
\* The aggregator will accept the connection.
Connect(k) ==
  /\ at[k] \in DOMAIN Then
  /\ Lost(k)
  /\ opened < load.conns
  /\ opened' = opened + 1
  /\ conn' = [conn EXCEPT ![k] = opened + 1]
  /\ up' = up \cup {opened + 1}
  /\ Accept(opened + 1)
  /\ Goto(k, Then[at[k]])
  /\ UNCHANGED <<requests, replies, gathered, receiveQueue, sendQueue, report, faults,
                 threadVars, load, retries, calls, taken, asked, strayed>>

\* What a NetworkError leads to, of which ConnectionClosedError and
\* SocketException are kinds: an AutoConnection begins again, until it has
\* done so often enough; the caller of an RpcClient is told.
RetriesLeft(k) == k \in load.auto /\ retries[k] + 1 < MaxRetries

\* Mutant: the broken connection is kept.
KeepConnection(k) == conn[k]

\* RpcClient forgets the connection.  The others keep one that isConnected
\* reports as lost from then on, which is the same as none.
ResetConnection(k) == None

Fail(k, call) ==
  /\ conn' = [conn EXCEPT ![k] = ResetConnection(k)]
  /\ IF RetriesLeft(k)
     THEN /\ Goto(k, call)
          /\ retries' = [retries EXCEPT ![k] = @ + 1]
          /\ UNCHANGED asked
     ELSE /\ Goto(k, "idle")
          /\ retries' = [retries EXCEPT ![k] = 0]
          /\ asked' = [asked EXCEPT ![k] = Nothing]
  /\ UNCHANGED <<serverVars, load, opened, calls, taken, strayed>>

\* connect throws: outside of the try block of RpcClient.
ConnectFails(k) ==
  /\ at[k] \in DOMAIN Then
  /\ Lost(k)
  /\ pc = "gone"
  /\ Fail(k, at[k])

\* The request is on its way; it gets lost when the connection broke.
Send(k, o) ==
  /\ at[k] = "sending"
  /\ LET c == conn[k]
     IN  /\ requests' = [requests EXCEPT ![c] = Append(@, o)]
         /\ asked' = [asked EXCEPT ![k] = <<c, Len(requests[c]) + 1>>]
  /\ retries' = [retries EXCEPT ![k] = 0]
  /\ Goto(k, "receive")
  /\ UNCHANGED <<replies, up, aggregatorVars, threadVars, load, conn, opened, calls, taken, strayed>>

\* send throws: the frame is not complete, and never will be.
SendFails(k) ==
  /\ at[k] = "sending" /\ conn[k] \notin up
  /\ Fail(k, "send")

\* A reply, of whatever status.
Receive(k) ==
  LET c == conn[k]
  IN  /\ at[k] = "receiving"
      /\ taken[c] < Len(replies[c])
      /\ taken' = [taken EXCEPT ![c] = @ + 1]
      /\ strayed' = strayed \cup
           (IF asked[k] = <<c, replies[c][taken[c] + 1].to>> THEN {} ELSE {k})
      /\ asked' = [asked EXCEPT ![k] = Nothing]
      /\ retries' = [retries EXCEPT ![k] = 0]
      /\ Goto(k, "idle")
      /\ UNCHANGED <<serverVars, load, conn, opened, calls>>

ReceiveFails(k) ==
  /\ at[k] = "receiving" /\ conn[k] \notin up
  /\ Fail(k, "receive")

CallStep(k) ==
  \/ UseConnection(k) \/ Connect(k) \/ ConnectFails(k)
  \/ \E o \in load.request[k] : Send(k, o)
  \/ SendFails(k) \/ Receive(k) \/ ReceiveFails(k)

-----------------------------------------------------------------------------
Server == (AggregatorStep \/ DispatcherStep \/ Environment) /\ UNCHANGED clientVars

Next == Server \/ \E k \in Client : StartCall(k) \/ CallStep(k)

Spec == Init /\ [][Next]_vars

\* All threads go on; that a connection broke is noticed in the end.
FairSpec ==
  /\ Spec
  /\ WF_vars(DispatcherStep /\ UNCHANGED clientVars)
  /\ \A c \in Conn :
       /\ WF_vars(Gather(c) /\ UNCHANGED clientVars)
       /\ WF_vars(Distribute(c) /\ UNCHANGED clientVars)
  /\ \A k \in Client : WF_vars(CallStep(k))

-----------------------------------------------------------------------------
(* Properties *)

Position == Conn \X (Nat \ {0})
Answer == [conn : Conn, to : Nat \ {0}, status : {"success", "error"}]

TypeOK ==
  /\ requests \in [Conn -> Seq(Outcome)]
  /\ replies \in [Conn -> Seq(Answer)]
  /\ up \subseteq Conn
  /\ served \in [Conn -> SUBSET BothThreads]
  /\ gathered \in [Conn -> Nat] /\ taken \in [Conn -> Nat]
  /\ \A c \in Conn : gathered[c] \in 0..Len(requests[c]) /\ taken[c] \in 0..Len(replies[c])
  /\ receiveQueue \in Seq(Position) /\ sendQueue \in Seq(Answer)
  /\ report \in BOOLEAN /\ interrupted \in BOOLEAN /\ faults \in 0..MaxDisturbances
  /\ pc \in {"looping", "receiving", "serving", "replying", "failing", "ended", "gone"}
  /\ envelope \in Position \cup {Nothing}
  /\ pc \in {"serving", "replying", "failing"} => envelope # Nothing
  /\ executed \in [Conn -> Seq(Nat \ {0})]
  /\ load \in Workloads /\ opened \in 0..load.conns
  /\ at \in [Client -> {"idle", "send", "sending", "receive", "receiving"}]
  /\ conn \in [Client -> Conn \cup {None}]
  /\ \A k \in Client : at[k] \in {"sending", "receiving"} => conn[k] # None
  /\ retries \in [Client -> 0..MaxRetries-1]
  /\ calls \in [Client -> Nat]
  /\ asked \in [Client -> Position \cup {Nothing}]
  /\ strayed \subseteq Client

\* Where the send queue holds replies to the client of c, and all of its
\* replies: those on their way and those it has.
Queued(c) == {i \in 1..Len(sendQueue) : sendQueue[i].conn = c}
RepliesTo(c) == Range(replies[c]) \cup {sendQueue[i] : i \in Queued(c)}

\* As long as its connection lasts a client gets exactly one reply to each
\* request, in the order it sent them, also when the reply of one was hindered
\* by the error of another connection: the first reply answers the first
\* request, and each reply the request after that of the reply before it.
OneReplyEach ==
  \A c \in up :
    /\ \A i \in 1..Len(replies[c]) : replies[c][i].to = i
    /\ \A i \in Queued(c) :
         LET before == {j \in Queued(c) : j < i}
         IN  \/ before = {} /\ sendQueue[i].to = Len(replies[c]) + 1
             \/ \E j \in before : /\ \A l \in before : l <= j
                                  /\ sendQueue[i].to = sendQueue[j].to + 1

\* Methods are called at most once for a request, although an AutoConnection
\* repeats what it sends, and a success is reported only for a method that was
\* called and returned.
RepliesTrue ==
  \A c \in Conn :
    /\ \A i, j \in 1..Len(executed[c]) : i < j => executed[c][i] < executed[c][j]
    /\ \A r \in RepliesTo(c) :
         r.status = "success" =>
           requests[c][r.to] = "works" /\ r.to \in Range(executed[c])

\* What a call returns is the answer to its own request, never one left over
\* from a call that failed.
OwnAnswer == strayed = {}

\* Replies that tell a client of an error although its method returned, and
\* whether an exception of the aggregator ended the process: its owner did not,
\* nor did a method that throws what nobody catches.
Hindered ==
  UNION {{<<c, r.to>> :
            r \in {q \in RepliesTo(c) : q.status = "error" /\ requests[c][q.to] = "works"}} :
         c \in Conn}
EndedByError ==
  pc = "gone" /\ ~interrupted /\ \A c \in Conn : "alien" \notin Range(requests[c])

\* Each error the aggregator keeps, of whatever connection, costs at most one
\* success or the whole process, and nothing else does: a connection that is
\* closed in order costs nothing.
ErrorsMetOnce ==
  Cardinality(Hindered) + (IF EndedByError THEN 1 ELSE 0) <= faults

\* The dispatcher goes on, with both threads of the connection.
Attended(c) == ~interrupted /\ pc # "gone" /\ served[c] = BothThreads

\* A request is answered, also when errors hinder the reply, unless the
\* dispatcher is interrupted or gone, or the connection broke or lost a thread.
Answered ==
  \A c \in Conn :
    Len(replies[c]) < Len(requests[c])
      ~> Len(replies[c]) = Len(requests[c]) \/ c \notin up \/ ~Attended(c)

\* A call returns, with a reply or an error, also when connections break, as
\* long as they do not break between its send and its receive: then receive
\* connects anew and waits where nothing will come.
CallReturns ==
  \A k \in Client :
    at[k] # "idle" ~>
      \/ at[k] = "idle"
      \/ asked[k] # Nothing /\ conn[k] # asked[k][1]
      \/ conn[k] \in up /\ ~Attended(conn[k])
      \/ Lost(k) /\ opened = load.conns
=============================================================================
