----------------------------- MODULE TCPConnection -----------------------------
(***************************************************************************)
(* Both ends of a TCPConnection (net/stream/TCPConnection.cpp) and the     *)
(* loops of its socket (Sockets.cpp).  One thread of each end sends, one   *)
(* receives, as sendMutex and receiveMutex see to, and one asks            *)
(* isConnected, for which there is no mutex.                               *)
(*                                                                         *)
(* The two kernels are external.  They move any number of bytes that there *)
(* is room for, in order.  The end of a peer arrives after its bytes: as   *)
(* "fin", if the peer closed its socket, and as "reset", if it did so with *)
(* bytes it had not read, or was sent bytes later.  A socket that was      *)
(* reset fails for one error or another and has no peer's name any more.   *)
(*                                                                         *)
(* Bytes are numbers in the order they are to be sent.  A sender goes on   *)
(* after as many bytes as send returned, as sendAll does, and a receiver   *)
(* asks for any number.  Calls that ask for no byte are left out.          *)
(***************************************************************************)
EXTENDS Naturals, Sequences, SequencesExt, FiniteSets

CONSTANTS
  End,         \* the two ends
  OtherEnd,    \* of each, the other one
  Connecting,  \* the end that calls connect
  MaxBytes,    \* bound on the bytes for each end
  Room,        \* bytes the kernels hold for an end
  MaxSize      \* bound on the size of one receive

ASSUME EndAssumption ==
  /\ OtherEnd \in [End -> End] /\ Connecting \in End
  /\ \A e \in End : OtherEnd[e] # e /\ OtherEnd[OtherEnd[e]] = e
ASSUME SizesAssumption ==
  MaxBytes \in [End -> Nat] /\ Room \in Nat \ {0} /\ MaxSize \in Nat \ {0}

VARIABLES
  socket,     \* "none", "backlog", "open" or "closed"
  buffer,     \* bytes for each end, sent and not yet read
  news,       \* what an end's kernel knows of its peer: "up", "fin", "reset"
  hard,       \* ends whose peer answers with a reset
  believed,  \* m_bConnected
  sending,    \* a send in progress: how many bytes, and how many are moved
  receiving,  \* a receive in progress: how many bytes, and those moved
  asking,     \* isConnected: TRUE after select said there is something to read
  status,     \* of the receives of an end: "ok", "closed" or "failed"
  acknowledged,   \* history: bytes that send said were sent to an end
  got,        \* history: bytes that receive returned
  dropped,    \* history: bytes read by a receive that then threw
  overtaken   \* history: ends where a receive came between the last select and ioctl

callVars == <<sending, receiving, asking, status>>
tcpVars == <<socket, buffer, news, hard, believed, callVars, acknowledged, got, dropped, overtaken>>

TCPInit ==
  /\ socket = [e \in End |-> "none"]
  /\ buffer = [e \in End |-> <<>>]
  /\ news = [e \in End |-> "up"] /\ hard = {}
  /\ believed = [e \in End |-> FALSE]
  /\ sending = [e \in End |-> {}] /\ receiving = [e \in End |-> {}]
  /\ asking = [e \in End |-> FALSE]
  /\ status = [e \in End |-> "ok"]
  /\ acknowledged = [e \in End |-> 0]
  /\ got = [e \in End |-> <<>>] /\ dropped = [e \in End |-> <<>>]
  /\ overtaken = {}

-----------------------------------------------------------------------------
(* TCPConnectionFactory::connect and TCPConnectionAcceptor::accept *)

ConnectSocket ==
  LET e == Connecting
  IN  /\ socket[e] = "none"
      /\ socket' = [socket EXCEPT ![e] = "open", ![OtherEnd[e]] = "backlog"]
      /\ believed' = [believed EXCEPT ![e] = TRUE]
      /\ UNCHANGED <<buffer, news, hard, callVars, acknowledged, got, dropped, overtaken>>

\* The peer may have sent bytes, or have gone, in the meantime.
AcceptSocket(e) ==
  /\ socket[e] = "backlog"
  /\ socket' = [socket EXCEPT ![e] = "open"]
  /\ believed' = [believed EXCEPT ![e] = TRUE]
  /\ UNCHANGED <<buffer, news, hard, callVars, acknowledged, got, dropped, overtaken>>

-----------------------------------------------------------------------------
(* send: SendDataImplementation *)

Min2(m, n) == IF m < n THEN m ELSE n

StartSend(e, n) ==
  /\ socket[e] = "open" /\ sending[e] = {}
  /\ n \in 1..(MaxBytes[OtherEnd[e]] - acknowledged[OtherEnd[e]])
  /\ sending' = [sending EXCEPT ![e] = {[size |-> n, moved |-> 0]}]
  /\ UNCHANGED <<socket, buffer, news, hard, believed, receiving, asking, status,
                 acknowledged, got, dropped, overtaken>>

\* Mutant: each sendto begins with the first byte of the data.
FromFirst(p, moved, k) == [i \in 1..k |-> acknowledged[p] + i]

\* k bytes from data + bytesSend.
FromMoved(p, moved, k) == [i \in 1..k |-> acknowledged[p] + moved + i]

\* The call returns the bytes it moved, or goes on.
SendMoved(e, c) ==
  LET p == OtherEnd[e]
  IN  IF c.moved < c.size
      THEN sending' = [sending EXCEPT ![e] = {c}] /\ UNCHANGED acknowledged
      ELSE /\ sending' = [sending EXCEPT ![e] = {}]
           /\ acknowledged' = [acknowledged EXCEPT ![p] = @ + c.moved]

\* sendto moves some bytes.
SendTo(e) ==
  LET p == OtherEnd[e]
  IN  \E c \in sending[e] :
        /\ news[e] # "reset" /\ socket[p] # "closed"
        /\ \E k \in 1..Min2(Room - Len(buffer[p]), c.size - c.moved) :
             /\ buffer' = [buffer EXCEPT ![p] = @ \o FromMoved(p, c.moved, k)]
             /\ SendMoved(e, [c EXCEPT !.moved = @ + k])
        /\ UNCHANGED <<socket, news, hard, believed, receiving, asking, status, got,
                       dropped, overtaken>>

\* They are for a socket that is closed already: nobody gets them, and the
\* peer's kernel answers with a reset.
SendToNobody(e) ==
  \E c \in sending[e] :
    /\ news[e] # "reset" /\ socket[OtherEnd[e]] = "closed"
    /\ hard' = hard \cup {e}
    /\ SendMoved(e, [c EXCEPT !.moved = c.size])
    /\ UNCHANGED <<socket, buffer, news, believed, receiving, asking, status, got,
                   dropped, overtaken>>

\* E_AGAIN, and select finds no room in time: what was moved is returned.
SendTimesOut(e) ==
  \E c \in sending[e] :
    /\ news[e] # "reset" /\ Len(buffer[OtherEnd[e]]) = Room
    /\ SendMoved(e, [c EXCEPT !.size = c.moved])
    /\ UNCHANGED <<socket, buffer, news, hard, believed, receiving, asking, status, got,
                   dropped, overtaken>>

\* Any other error: ConnectionClosedError for ECONNRESET, otherwise NetworkError.
SendFails(e) ==
  /\ sending[e] # {} /\ news[e] = "reset"
  /\ sending' = [sending EXCEPT ![e] = {}]
  /\ UNCHANGED <<socket, buffer, news, hard, believed, receiving, asking, status,
                 acknowledged, got, dropped, overtaken>>

-----------------------------------------------------------------------------
(* receive: ReceiveDataImplementation *)

StartReceive(e, n) ==
  /\ socket[e] = "open" /\ receiving[e] = {} /\ status[e] = "ok"
  /\ receiving' = [receiving EXCEPT ![e] = {[size |-> n, moved |-> <<>>]}]
  /\ UNCHANGED <<socket, buffer, news, hard, believed, sending, asking, status,
                 acknowledged, got, dropped, overtaken>>

ReceiveReturns(e, moved) ==
  /\ receiving' = [receiving EXCEPT ![e] = {}]
  /\ got' = [got EXCEPT ![e] = @ \o moved]

\* recvfrom moves some bytes.
RecvFrom(e) ==
  \E c \in receiving[e] :
    /\ \E k \in 1..Min2(Len(buffer[e]), c.size - Len(c.moved)) :
         LET moved == c.moved \o SubSeq(buffer[e], 1, k)
         IN  /\ buffer' = [buffer EXCEPT ![e] = SubSeq(@, k + 1, Len(@))]
             /\ IF Len(moved) = c.size THEN ReceiveReturns(e, moved)
                ELSE /\ receiving' = [receiving EXCEPT ![e] = {[c EXCEPT !.moved = moved]}]
                     /\ UNCHANGED got
    /\ overtaken' = overtaken \cup (IF asking[e] THEN {e} ELSE {})
    /\ UNCHANGED <<socket, news, hard, believed, sending, asking, status, acknowledged, dropped>>

\* E_AGAIN, and select finds nothing in time; bytes may be on their way.
ReceiveTimesOut(e) ==
  \E c \in receiving[e] :
    /\ news[e] = "up"
    /\ ReceiveReturns(e, c.moved)
    /\ UNCHANGED <<socket, buffer, news, hard, believed, sending, asking, status,
                   acknowledged, dropped, overtaken>>

\* Mutant: the end of the stream ends the loop like a timeout.
ReturnAtEnd(e, how) == UNCHANGED status

ThrowAtEnd(e, how) == status' = [status EXCEPT ![e] = how]

\* The call throws, and the bytes it has read in its loop are gone.
ReceiveThrows(e, how) ==
  \E c \in receiving[e] :
    /\ ThrowAtEnd(e, how)
    /\ receiving' = [receiving EXCEPT ![e] = {}]
    /\ dropped' = [dropped EXCEPT ![e] = @ \o c.moved]
    /\ UNCHANGED <<socket, buffer, news, hard, believed, sending, asking, acknowledged, got,
                   overtaken>>

\* recvfrom gives 0 for a graceful end: ConnectionClosedError.
ReceiveEnds(e) == news[e] = "fin" /\ buffer[e] = <<>> /\ ReceiveThrows(e, "closed")

\* After a reset it gives an error, or 0.  The handler that is to throw
\* ConnectionClosedError asks for the peer's address: getpeername fails with
\* ENOTCONN, and its SocketException leaves the handler instead.
ReceiveFails(e) == news[e] = "reset" /\ ReceiveThrows(e, "failed")

-----------------------------------------------------------------------------
(* isConnected *)

\* select finds the socket readable.  If not, TRUE is returned.
SelectReadable(e) ==
  /\ socket[e] = "open" /\ believed[e] /\ ~asking[e]
  /\ buffer[e] # <<>> \/ news[e] # "up"
  /\ asking' = [asking EXCEPT ![e] = TRUE]
  /\ overtaken' = overtaken \ {e}
  /\ UNCHANGED <<socket, buffer, news, hard, believed, sending, receiving, status,
                 acknowledged, got, dropped>>

\* Mutant: the bytes pending are not counted.
NotCounted(e) == TRUE

NonePending(e) == buffer[e] = <<>>

\* ioctl counts the bytes pending.
CountPending(e) ==
  /\ asking[e]
  /\ asking' = [asking EXCEPT ![e] = FALSE]
  /\ believed' = [believed EXCEPT ![e] = @ /\ ~NonePending(e)]
  /\ UNCHANGED <<socket, buffer, news, hard, sending, receiving, status, acknowledged, got,
                 dropped, overtaken>>

-----------------------------------------------------------------------------
\* The destructor: shutdown and close.  No call is in progress.
CloseSocket(e) ==
  /\ socket[e] = "open"
  /\ sending[e] = {} /\ receiving[e] = {} /\ ~asking[e]
  /\ socket' = [socket EXCEPT ![e] = "closed"]
  /\ believed' = [believed EXCEPT ![e] = FALSE]
  /\ hard' = hard \cup (IF buffer[e] # <<>> THEN {OtherEnd[e]} ELSE {})
  /\ buffer' = [buffer EXCEPT ![e] = <<>>]
  /\ UNCHANGED <<news, callVars, acknowledged, got, dropped, overtaken>>

\* The peer's end, or its reset, arrives.
NewsArrives(e) ==
  /\ socket[e] \in {"open", "backlog"} /\ socket[OtherEnd[e]] = "closed"
  /\ \/ news[e] = "up" /\ news' = [news EXCEPT ![e] = "fin"]
     \/ news[e] # "reset" /\ e \in hard /\ news' = [news EXCEPT ![e] = "reset"]
  /\ UNCHANGED <<socket, buffer, hard, believed, callVars, acknowledged, got, dropped, overtaken>>

SendLoop(e) == SendTo(e) \/ SendToNobody(e) \/ SendTimesOut(e) \/ SendFails(e)
ReceiveLoop(e) == RecvFrom(e) \/ ReceiveTimesOut(e) \/ ReceiveEnds(e) \/ ReceiveFails(e)
ReceiverCalls(e) == \E n \in 1..MaxSize : StartReceive(e, n)

TCPNext ==
  \/ ConnectSocket
  \/ \E e \in End :
       \/ AcceptSocket(e) \/ CloseSocket(e) \/ NewsArrives(e)
       \/ (\E n \in 1..MaxBytes[OtherEnd[e]] : StartSend(e, n)) \/ SendLoop(e)
       \/ ReceiverCalls(e) \/ ReceiveLoop(e)
       \/ SelectReadable(e) \/ CountPending(e)

\* A call goes on, a receiver calls again, and news arrives.
TCPSpec ==
  /\ TCPInit /\ [][TCPNext]_tcpVars
  /\ \A e \in End :
       WF_tcpVars(ReceiveLoop(e)) /\ WF_tcpVars(ReceiverCalls(e)) /\ WF_tcpVars(NewsArrives(e))

-----------------------------------------------------------------------------
(* Properties *)

TCPTypeOK ==
  /\ socket \in [End -> {"none", "backlog", "open", "closed"}]
  /\ buffer \in [End -> Seq(Nat)] /\ \A e \in End : Len(buffer[e]) <= Room
  /\ news \in [End -> {"up", "fin", "reset"}] /\ hard \subseteq End
  /\ believed \in [End -> BOOLEAN] /\ asking \in [End -> BOOLEAN]
  /\ \A e \in End : \A c \in sending[e] : c.moved < c.size
  /\ \A e \in End : \A c \in receiving[e] : Len(c.moved) < c.size
  /\ status \in [End -> {"ok", "closed", "failed"}]
  /\ acknowledged \in [End -> Nat]
  /\ got \in [End -> Seq(Nat)] /\ dropped \in [End -> Seq(Nat)]
  /\ overtaken \subseteq End

\* Bytes come out in order, once each, although sends and receives are cut by
\* timeouts anywhere and a sender goes on after the number returned to it.  A
\* closed connection is reported only after every byte the peer sent was read;
\* the only ones missing are those the reporting call had in its hands.
StreamIntact ==
  \A e \in End :
    /\ got[e] \o dropped[e] = [i \in 1..Len(got[e] \o dropped[e]) |-> i]
    /\ status[e] = "closed" => Len(got[e] \o dropped[e]) >= acknowledged[e]

\* A connection is taken for lost only when the peer closed it, or when a
\* receive took the bytes that select had seen before ioctl counted them in
\* the same call of isConnected.
LostForAReason ==
  \A e \in End :
    socket[e] = "open" /\ ~believed[e] => socket[OtherEnd[e]] = "closed" \/ e \in overtaken

\* A receiver that keeps calling learns that its peer is gone.
EndNoticed ==
  \A e \in End :
    socket[e] = "open" /\ socket[OtherEnd[e]] = "closed"
      ~> status[e] # "ok" \/ socket[e] = "closed"

\* What the tests of the aggregator expect of every kind of connection: the
\* end of a peer is reported as a ConnectionClosedError
\* (ConnectionAggregatorTest.cpp, DisconnectStrategyThrowException).  Violated.
HardCloseReported == \A e \in End : status[e] # "failed"
=============================================================================
