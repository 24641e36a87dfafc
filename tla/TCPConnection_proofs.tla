-------------------------- MODULE TCPConnection_proofs --------------------------
(***************************************************************************)
(* LostForAReason and StreamIntact for streams of any length.  The first   *)
(* is made inductive by what isConnected knows between select and ioctl,   *)
(* and by the news of a peer's end never coming before the end; the second *)
(* by where each byte that was sent is.                                    *)
(***************************************************************************)
EXTENDS TCPConnection, SequenceTheorems, TLAPS

SocketsTyped ==
  /\ socket \in [End -> {"none", "backlog", "open", "closed"}]
  /\ news \in [End -> {"up", "fin", "reset"}]
  /\ believed \in [End -> BOOLEAN] /\ asking \in [End -> BOOLEAN]
  /\ buffer \in [End -> Seq(Nat)]
  /\ acknowledged \in [End -> Nat]
  /\ sending \in [End -> SUBSET [size : Nat, moved : Nat]]

\* Before connect neither end has a socket.
NoneYet == socket[Connecting] = "none" => socket[OtherEnd[Connecting]] = "none"

\* No news without a reason.
NewsTrue == \A e \in End : news[e] # "up" => socket[OtherEnd[e]] = "closed"

\* What select saw is there, unless a receive has taken it.
AskedForAReason ==
  \A e \in End : asking[e] => buffer[e] # <<>> \/ news[e] # "up" \/ e \in overtaken

IInv == SocketsTyped /\ NoneYet /\ NewsTrue /\ AskedForAReason /\ LostForAReason

peerVars == <<socket, news, believed>>

\* The invariant of the sockets, which all the theorems rest on.
LEMMA Invariance == TCPSpec => []IInv
<1>1. TCPInit => IInv
  BY EndAssumption, EmptySeq DEF TCPInit, IInv, SocketsTyped, NoneYet, NewsTrue, AskedForAReason, LostForAReason
\* All sends do is make buffers longer.
<1>2. ASSUME IInv, NEW e \in End, (\E n \in 1..MaxBytes[OtherEnd[e]] : StartSend(e, n)) \/ SendLoop(e)
      PROVE  IInv'
  <2> USE <1>2 DEF IInv
  <2>1. UNCHANGED peerVars /\ asking' = asking /\ overtaken' = overtaken
    BY DEF peerVars, SendLoop, StartSend, SendTo, SendToNobody, SendTimesOut, SendFails
  <2>2. ASSUME NEW c \in [size : Nat, moved : Nat], SendMoved(e, c)
        PROVE  /\ sending' \in [End -> SUBSET [size : Nat, moved : Nat]]
               /\ acknowledged' \in [End -> Nat]
    <3>1. OtherEnd[e] \in End /\ acknowledged[OtherEnd[e]] + c.moved \in Nat
      BY EndAssumption DEF SocketsTyped
    <3>2. CASE c.moved < c.size
      <4>1. sending' = [sending EXCEPT ![e] = {c}] /\ acknowledged' = acknowledged
        BY <2>2, <3>2 DEF SendMoved
      <4> QED
        BY <2>2, <4>1 DEF SocketsTyped
    <3>3. CASE ~(c.moved < c.size)
      <4>1. /\ sending' = [sending EXCEPT ![e] = {}]
            /\ acknowledged' = [acknowledged EXCEPT ![OtherEnd[e]] = @ + c.moved]
        BY <2>2, <3>3 DEF SendMoved
      <4> QED
        BY <3>1, <4>1 DEF SocketsTyped
    <3> QED
      BY <3>2, <3>3
  <2>3. /\ sending' \in [End -> SUBSET [size : Nat, moved : Nat]]
        /\ acknowledged' \in [End -> Nat]
        /\ buffer' \in [End -> Seq(Nat)]
        /\ \A d \in End : buffer[d] # <<>> => buffer'[d] # <<>>
    <3>1. CASE \E n \in 1..MaxBytes[OtherEnd[e]] : StartSend(e, n)
      BY <3>1, SizesAssumption, EndAssumption DEF StartSend, SocketsTyped
    <3>2. CASE SendTo(e)
      <4> DEFINE p == OtherEnd[e]
      <4>0. PICK c \in sending[e] :
              \E k \in 1..Min2(Room - Len(buffer[p]), c.size - c.moved) :
                /\ buffer' = [buffer EXCEPT ![p] = @ \o FromMoved(p, c.moved, k)]
                /\ SendMoved(e, [c EXCEPT !.moved = @ + k])
        BY <3>2 DEF SendTo
      <4>1. PICK k \in 1..Min2(Room - Len(buffer[p]), c.size - c.moved) :
              /\ buffer' = [buffer EXCEPT ![p] = @ \o FromMoved(p, c.moved, k)]
              /\ SendMoved(e, [c EXCEPT !.moved = @ + k])
        BY <4>0
      <4>2. /\ p \in End /\ c \in [size : Nat, moved : Nat] /\ acknowledged[p] \in Nat
            /\ buffer[p] \in Seq(Nat) /\ k \in Nat
        BY EndAssumption, SizesAssumption DEF SocketsTyped, Min2
      <4>3. FromMoved(p, c.moved, k) \in Seq(Nat)
        BY <4>2 DEF FromMoved
      <4>4. [c EXCEPT !.moved = @ + k] \in [size : Nat, moved : Nat]
        BY <4>2
      <4>5. buffer' \in [End -> Seq(Nat)]
        BY <4>1, <4>2, <4>3, ConcatProperties DEF SocketsTyped
      <4>6. \A d \in End : buffer[d] # <<>> => buffer'[d] # <<>>
        BY <4>1, <4>2, <4>3, ConcatProperties, EmptySeq, SMTT(30) DEF SocketsTyped
      <4> QED
        BY <2>2, <4>1, <4>4, <4>5, <4>6
    <3>3. CASE SendToNobody(e) \/ SendTimesOut(e)
      <4>1. PICK c \in sending[e] :
              \/ SendMoved(e, [c EXCEPT !.moved = c.size])
              \/ SendMoved(e, [c EXCEPT !.size = c.moved])
        BY <3>3 DEF SendToNobody, SendTimesOut
      <4>2. buffer' = buffer
        BY <3>3 DEF SendToNobody, SendTimesOut
      <4>3. /\ [c EXCEPT !.moved = c.size] \in [size : Nat, moved : Nat]
            /\ [c EXCEPT !.size = c.moved] \in [size : Nat, moved : Nat]
        BY DEF SocketsTyped
      <4> QED
        BY <2>2, <4>1, <4>2, <4>3 DEF SocketsTyped
    <3>4. CASE SendFails(e)
      BY <3>4 DEF SendFails, SocketsTyped
    <3> QED
      BY <3>1, <3>2, <3>3, <3>4 DEF SendLoop
  <2>4. SocketsTyped'
    BY <2>1, <2>3 DEF SocketsTyped, peerVars
  <2>5. (NoneYet /\ NewsTrue /\ LostForAReason)'
    BY <2>1 DEF NoneYet, NewsTrue, LostForAReason, peerVars
  <2>6. AskedForAReason'
    BY <2>1, <2>3 DEF AskedForAReason, peerVars
  <2> QED
    BY <2>4, <2>5, <2>6
\* A receive that takes bytes isConnected has seen is remembered as such.
<1>3. ASSUME IInv, NEW e \in End, ReceiverCalls(e) \/ ReceiveLoop(e)
      PROVE  IInv'
  <2> USE <1>3 DEF IInv
  <2>1. UNCHANGED peerVars /\ asking' = asking /\ sending' = sending /\ acknowledged' = acknowledged
    BY DEF peerVars, ReceiverCalls, StartReceive, ReceiveLoop, RecvFrom, ReceiveTimesOut,
           ReceiveEnds, ReceiveFails, ReceiveThrows
  <2>2. /\ buffer' \in [End -> Seq(Nat)]
        /\ \A d \in End : buffer'[d] = buffer[d] \/ (d = e /\ (asking[e] => e \in overtaken'))
        /\ overtaken \subseteq overtaken'
    <3>1. CASE RecvFrom(e)
      <4>1. PICK k \in Nat : buffer' = [buffer EXCEPT ![e] = SubSeq(@, k + 1, Len(@))]
        <5>1. PICK c \in receiving[e] :
                \E k \in 1..Min2(Len(buffer[e]), c.size - Len(c.moved)) :
                  buffer' = [buffer EXCEPT ![e] = SubSeq(@, k + 1, Len(@))]
          BY <3>1 DEF RecvFrom
        <5>2. PICK k \in 1..Min2(Len(buffer[e]), c.size - Len(c.moved)) :
                buffer' = [buffer EXCEPT ![e] = SubSeq(@, k + 1, Len(@))]
          BY <5>1
        <5>3. k \in Nat
          OBVIOUS
        <5> QED
          BY <5>2, <5>3
      <4>2. overtaken' = overtaken \cup (IF asking[e] THEN {e} ELSE {})
        BY <3>1 DEF RecvFrom
      <4>3. buffer[e] \in Seq(Nat) /\ Len(buffer[e]) \in Nat
        BY DEF SocketsTyped
      <4>4. SubSeq(buffer[e], k + 1, Len(buffer[e])) \in Seq(Nat)
        BY <4>3
      <4> QED
        BY <4>1, <4>2, <4>4 DEF SocketsTyped
    <3>2. CASE ReceiverCalls(e) \/ ReceiveTimesOut(e) \/ ReceiveEnds(e) \/ ReceiveFails(e)
      BY <3>2 DEF ReceiverCalls, StartReceive, ReceiveTimesOut, ReceiveEnds, ReceiveFails,
                  ReceiveThrows, SocketsTyped
    <3> QED
      BY <3>1, <3>2 DEF ReceiveLoop
  <2>3. SocketsTyped'
    BY <2>1, <2>2 DEF SocketsTyped, peerVars
  <2>4. (NoneYet /\ NewsTrue)'
    BY <2>1 DEF NoneYet, NewsTrue, peerVars
  <2>5. (LostForAReason /\ AskedForAReason)'
    BY <2>1, <2>2 DEF LostForAReason, AskedForAReason, peerVars
  <2> QED
    BY <2>3, <2>4, <2>5
\* isConnected gives the connection up only if nothing is there to be read.
<1>4. ASSUME IInv, NEW e \in End, SelectReadable(e) \/ CountPending(e)
      PROVE  IInv'
  <2> USE <1>4 DEF IInv
  <2>1. /\ socket' = socket /\ news' = news /\ buffer' = buffer /\ sending' = sending
        /\ acknowledged' = acknowledged
    BY DEF SelectReadable, CountPending
  <2>2. (NoneYet /\ NewsTrue)'
    BY <2>1 DEF NoneYet, NewsTrue
  <2>3. CASE SelectReadable(e)
    <3>1. /\ asking' = [asking EXCEPT ![e] = TRUE] /\ believed' = believed
          /\ believed[e] /\ overtaken' = overtaken \ {e}
      BY <2>3 DEF SelectReadable
    <3>2. buffer[e] # <<>> \/ news[e] # "up"
      BY <2>3 DEF SelectReadable
    <3>3. SocketsTyped'
      BY <2>1, <3>1 DEF SocketsTyped
    <3>4. AskedForAReason' /\ LostForAReason'
      BY <2>1, <3>1, <3>2 DEF AskedForAReason, LostForAReason, SocketsTyped
    <3> QED
      BY <2>2, <3>3, <3>4
  <2>4. CASE CountPending(e)
    <3>1. /\ asking[e] /\ asking' = [asking EXCEPT ![e] = FALSE]
          /\ believed' = [believed EXCEPT ![e] = @ /\ ~NonePending(e)]
          /\ overtaken' = overtaken
      BY <2>4 DEF CountPending
    <3>2. SocketsTyped'
      BY <2>1, <3>1 DEF SocketsTyped
    <3>3. AskedForAReason'
      BY <2>1, <3>1 DEF AskedForAReason, SocketsTyped
    <3>4. NonePending(e) => socket[OtherEnd[e]] = "closed" \/ e \in overtaken
      BY <3>1 DEF NonePending, AskedForAReason, NewsTrue
    <3>5. \A d \in End : believed'[d] = IF d = e THEN believed[e] /\ ~NonePending(e) ELSE believed[d]
      BY <3>1 DEF SocketsTyped
    <3>6. LostForAReason'
      BY <2>1, <3>1, <3>4, <3>5 DEF LostForAReason
    <3> QED
      BY <2>2, <3>2, <3>3, <3>6
  <2> QED
    BY <2>3, <2>4
\* A socket that is closed stays closed.
<1>5. ASSUME IInv, NEW e \in End,
             ConnectSocket \/ AcceptSocket(e) \/ CloseSocket(e) \/ NewsArrives(e)
      PROVE  IInv'
  <2> USE <1>5 DEF IInv
  <2>1. sending' = sending /\ acknowledged' = acknowledged /\ overtaken' = overtaken /\ asking' = asking
    BY DEF ConnectSocket, AcceptSocket, CloseSocket, NewsArrives, callVars
  <2>2. CASE ConnectSocket
    <3> DEFINE c == Connecting
    <3>1. /\ socket[c] = "none" /\ news' = news /\ buffer' = buffer
          /\ socket' = [socket EXCEPT ![c] = "open", ![OtherEnd[c]] = "backlog"]
          /\ believed' = [believed EXCEPT ![c] = TRUE]
      BY <2>2 DEF ConnectSocket
    <3>2. /\ c \in End /\ OtherEnd[c] \in End /\ OtherEnd[c] # c
          /\ socket[OtherEnd[c]] = "none"
      BY <3>1, EndAssumption DEF NoneYet
    <3>3. \A d \in End : socket'[d] = IF d = OtherEnd[c] THEN "backlog"
                                     ELSE IF d = c THEN "open" ELSE socket[d]
      BY <3>1, <3>2 DEF SocketsTyped
    <3>4. SocketsTyped'
      BY <2>1, <3>1, <3>2 DEF SocketsTyped
    <3>5. \A d \in End : OtherEnd[d] \in End /\ (socket[d] = "closed" => socket'[d] = "closed")
      BY <3>1, <3>2, <3>3, EndAssumption
    <3>6. NoneYet'
      BY <3>2, <3>3 DEF NoneYet
    <3>7. NewsTrue'
      BY <3>1, <3>5 DEF NewsTrue
    <3>8. AskedForAReason'
      BY <2>1, <3>1 DEF AskedForAReason
    <3>9. \A d \in End : believed'[d] = IF d = c THEN TRUE ELSE believed[d]
      BY <3>1, <3>2 DEF SocketsTyped
    <3>10. LostForAReason'
      BY <2>1, <3>2, <3>3, <3>5, <3>9 DEF LostForAReason
    <3> QED
      BY <3>4, <3>6, <3>7, <3>8, <3>10
  <2>3. CASE AcceptSocket(e)
    <3>1. /\ socket[e] = "backlog" /\ news' = news /\ buffer' = buffer
          /\ socket' = [socket EXCEPT ![e] = "open"]
          /\ believed' = [believed EXCEPT ![e] = TRUE]
      BY <2>3 DEF AcceptSocket
    <3>2. SocketsTyped'
      BY <2>1, <3>1 DEF SocketsTyped
    <3>3. /\ \A d \in End : socket'[d] = IF d = e THEN "open" ELSE socket[d]
          /\ \A d \in End : believed'[d] = IF d = e THEN TRUE ELSE believed[d]
      BY <3>1 DEF SocketsTyped
    <3>4. \A d \in End : OtherEnd[d] \in End /\ (socket[d] = "closed" => socket'[d] = "closed")
      BY <3>1, <3>3, EndAssumption
    <3>5. NoneYet'
      BY <3>1, <3>3, EndAssumption DEF NoneYet
    <3>6. NewsTrue' /\ AskedForAReason'
      BY <2>1, <3>1, <3>4 DEF NewsTrue, AskedForAReason
    <3>7. LostForAReason'
      BY <2>1, <3>3, <3>4 DEF LostForAReason
    <3> QED
      BY <3>2, <3>5, <3>6, <3>7
  <2>4. CASE CloseSocket(e)
    <3>1. /\ socket[e] = "open" /\ ~asking[e] /\ news' = news
          /\ socket' = [socket EXCEPT ![e] = "closed"]
          /\ believed' = [believed EXCEPT ![e] = FALSE]
          /\ buffer' = [buffer EXCEPT ![e] = <<>>]
      BY <2>4 DEF CloseSocket
    <3>2. SocketsTyped'
      BY <2>1, <3>1, EmptySeq DEF SocketsTyped
    <3>3. /\ \A d \in End : socket'[d] = IF d = e THEN "closed" ELSE socket[d]
          /\ \A d \in End : believed'[d] = IF d = e THEN FALSE ELSE believed[d]
          /\ \A d \in End : buffer'[d] = IF d = e THEN <<>> ELSE buffer[d]
      BY <3>1 DEF SocketsTyped
    <3>4. NoneYet' /\ NewsTrue' /\ AskedForAReason' /\ LostForAReason'
      BY <2>1, <3>1, <3>3, EndAssumption DEF NoneYet, NewsTrue, AskedForAReason, LostForAReason
    <3> QED
      BY <3>2, <3>4
  <2>5. CASE NewsArrives(e)
    <3>1. /\ socket[OtherEnd[e]] = "closed" /\ socket' = socket /\ buffer' = buffer
          /\ believed' = believed
          /\ news' \in {[news EXCEPT ![e] = "fin"], [news EXCEPT ![e] = "reset"]}
      BY <2>5 DEF NewsArrives
    <3>2. SocketsTyped'
      BY <2>1, <3>1 DEF SocketsTyped
    <3>3. \A d \in End : IF d = e THEN news'[d] # "up" ELSE news'[d] = news[d]
      BY <3>1 DEF SocketsTyped
    <3>4. NoneYet' /\ NewsTrue' /\ AskedForAReason' /\ LostForAReason'
      BY <2>1, <3>1, <3>3 DEF NoneYet, NewsTrue, AskedForAReason, LostForAReason
    <3> QED
      BY <3>2, <3>4
  <2> QED
    BY <2>2, <2>3, <2>4, <2>5
<1>6. IInv /\ [TCPNext]_tcpVars => IInv'
  <2> SUFFICES ASSUME IInv, [TCPNext]_tcpVars PROVE IInv'
    OBVIOUS
  <2>1. CASE ConnectSocket
    BY <2>1, <1>5, EndAssumption
  <2>2. ASSUME NEW e \in End, AcceptSocket(e) \/ CloseSocket(e) \/ NewsArrives(e) PROVE IInv'
    BY <2>2, <1>5
  <2>3. ASSUME NEW e \in End,
               (\E n \in 1..MaxBytes[OtherEnd[e]] : StartSend(e, n)) \/ SendLoop(e)
        PROVE  IInv'
    BY <2>3, <1>2
  <2>4. ASSUME NEW e \in End, ReceiverCalls(e) \/ ReceiveLoop(e) PROVE IInv'
    BY <2>4, <1>3
  <2>5. ASSUME NEW e \in End, SelectReadable(e) \/ CountPending(e) PROVE IInv'
    BY <2>5, <1>4
  <2>6. CASE UNCHANGED tcpVars
    BY <2>6 DEF tcpVars, callVars, IInv, SocketsTyped, NoneYet, NewsTrue, AskedForAReason, LostForAReason
  <2> QED
    BY <2>1, <2>2, <2>3, <2>4, <2>5, <2>6 DEF TCPNext
<1> QED
  BY <1>1, <1>6, PTL DEF TCPSpec

\* isConnected takes a connection for lost only if the peer closed it, or a
\* receive came between its two system calls, whatever is sent and however.
THEOREM NotLostWithoutReason == TCPSpec => []LostForAReason
<1>1. IInv => LostForAReason
  BY DEF IInv
<1> QED
  BY <1>1, Invariance, PTL

-----------------------------------------------------------------------------
(* StreamIntact.  Of the bytes sent to an end, those returned come first,  *)
(* then those a receive that threw had read, or one in progress has in its *)
(* hands, and then those in the buffer; together they are all there are.   *)

ReadLength(calls) == IF calls = {} THEN 0 ELSE Len((CHOOSE c \in calls : TRUE).moved)
SentLength(calls) == IF calls = {} THEN 0 ELSE (CHOOSE c \in calls : TRUE).moved

Taken(e) == Len(got[e]) + Len(dropped[e]) + ReadLength(receiving[e])
Sent(e) == acknowledged[e] + SentLength(sending[OtherEnd[e]])

ReceivesTyped ==
  /\ receiving \in [End -> SUBSET [size : Nat, moved : Seq(Nat)]]
  /\ status \in [End -> {"ok", "closed", "failed"}]
  /\ got \in [End -> Seq(Nat)] /\ dropped \in [End -> Seq(Nat)]

\* Only an open socket is used, by one call of each kind at a time.
SendingOK(e) == \A c \in sending[e] : sending[e] = {c} /\ socket[e] = "open"

\* The bytes a receive has in its hands follow those returned.
ReceivingOK(e) ==
  \A c \in receiving[e] :
    /\ receiving[e] = {c} /\ socket[e] = "open" /\ status[e] = "ok"
    /\ \A i \in 1..Len(c.moved) : c.moved[i] = Len(got[e]) + i

\* So do those that were lost, after which there are no more receives.
ReadOK(e) ==
  /\ \A i \in 1..Len(got[e]) : got[e][i] = i
  /\ \A i \in 1..Len(dropped[e]) : dropped[e][i] = Len(got[e]) + i
  /\ status[e] = "ok" => dropped[e] = <<>>

\* The others are in the buffer; none is missing until the socket is closed.
BufferOK(e) ==
  /\ \A i \in 1..Len(buffer[e]) : buffer[e][i] = Taken(e) + i
  /\ IF socket[e] = "closed" THEN buffer[e] = <<>> ELSE Taken(e) + Len(buffer[e]) = Sent(e)
  /\ status[e] = "closed" => socket[OtherEnd[e]] = "closed" /\ Taken(e) >= acknowledged[e]

StreamOK ==
  /\ ReceivesTyped
  /\ \A e \in End : SendingOK(e) /\ ReceivingOK(e) /\ ReadOK(e) /\ BufferOK(e)

\* Every step keeps the bytes of both directions together.
LEMMA StreamKept == IInv /\ StreamOK /\ [TCPNext]_tcpVars => StreamOK'
<1> SUFFICES ASSUME IInv, StreamOK, [TCPNext]_tcpVars PROVE StreamOK'
  OBVIOUS
<1>1. /\ ReadLength({}) = 0 /\ \A c : ReadLength({c}) = Len(c.moved)
      /\ SentLength({}) = 0 /\ \A c : SentLength({c}) = c.moved
  BY DEF ReadLength, SentLength
<1>2. /\ SocketsTyped /\ NewsTrue /\ NoneYet /\ ReceivesTyped
      /\ \A e \in End : OtherEnd[e] \in End /\ OtherEnd[e] # e /\ OtherEnd[OtherEnd[e]] = e
      /\ \A e \in End : SendingOK(e) /\ ReceivingOK(e) /\ ReadOK(e) /\ BufferOK(e)
  BY EndAssumption DEF IInv, StreamOK

<1>0. ASSUME NEW e \in End
      PROVE  /\ ReadLength(receiving[e]) \in Nat /\ SentLength(sending[OtherEnd[e]]) \in Nat
             /\ Len(got[e]) \in Nat /\ Len(dropped[e]) \in Nat /\ acknowledged[e] \in Nat
             /\ Taken(e) \in Nat /\ Sent(e) \in Nat
  <2>1. Len(got[e]) \in Nat /\ Len(dropped[e]) \in Nat /\ acknowledged[e] \in Nat
    BY <1>2 DEF ReceivesTyped, SocketsTyped
  <2>2. ReadLength(receiving[e]) \in Nat
    <3>1. CASE receiving[e] = {}  BY <1>1, <3>1
    <3>2. ASSUME NEW c \in receiving[e] PROVE ReadLength(receiving[e]) \in Nat
      <4>1. receiving[e] = {c} /\ c.moved \in Seq(Nat)
        BY <1>2, <3>2 DEF ReceivesTyped, ReceivingOK
      <4> QED
        BY <1>1, <4>1
    <3> QED
      BY <3>1, <3>2
  <2>3. SentLength(sending[OtherEnd[e]]) \in Nat
    <3>1. CASE sending[OtherEnd[e]] = {}  BY <1>1, <3>1
    <3>2. ASSUME NEW c \in sending[OtherEnd[e]] PROVE SentLength(sending[OtherEnd[e]]) \in Nat
      <4>1. sending[OtherEnd[e]] = {c} /\ c.moved \in Nat
        BY <1>2, <3>2 DEF SocketsTyped, SendingOK
      <4> QED
        BY <1>1, <4>1
    <3> QED
      BY <3>1, <3>2
  <2>4. \A i, j, k \in Nat : i + j \in Nat /\ i + j + k \in Nat
    OBVIOUS
  <2> QED
    BY <2>1, <2>2, <2>3, <2>4, Zenon DEF Taken, Sent

\* Whatever only opens sockets or spreads news.
<1>3. ASSUME UNCHANGED <<buffer, sending, receiving, status, acknowledged, got, dropped>>,
             \A d \in End : /\ socket[d] = "closed" <=> socket'[d] = "closed"
                            /\ socket[d] = "open" => socket'[d] = "open"
      PROVE  StreamOK'
  <2>1. ASSUME NEW d \in End PROVE SendingOK(d)' /\ ReceivingOK(d)' /\ ReadOK(d)' /\ BufferOK(d)'
    <3>1. SendingOK(d)' /\ ReceivingOK(d)' /\ ReadOK(d)'
      BY <1>2, <1>3 DEF SendingOK, ReceivingOK, ReadOK
    <3>2. Taken(d)' = Taken(d) /\ Sent(d)' = Sent(d)
      BY <1>3 DEF Taken, Sent
    <3>3. BufferOK(d)'
      BY <1>2, <1>3, <3>2 DEF BufferOK
    <3> QED
      BY <3>1, <3>3
  <2> QED
    BY <1>2, <1>3, <2>1 DEF StreamOK, ReceivesTyped

<1>4. ASSUME NEW e \in End, CloseSocket(e) PROVE StreamOK'
  <2>1. /\ socket[e] = "open" /\ sending[e] = {} /\ receiving[e] = {}
        /\ \A d \in End : /\ socket'[d] = IF d = e THEN "closed" ELSE socket[d]
                          /\ buffer'[d] = IF d = e THEN <<>> ELSE buffer[d]
        /\ UNCHANGED <<sending, receiving, status, acknowledged, got, dropped>>
    BY <1>2, <1>4 DEF CloseSocket, callVars, SocketsTyped
  <2>2. ASSUME NEW d \in End PROVE SendingOK(d)' /\ ReceivingOK(d)' /\ ReadOK(d)' /\ BufferOK(d)'
    <3>1. SendingOK(d)' /\ ReceivingOK(d)' /\ ReadOK(d)'
      <4>1. ReadOK(d)'
        BY <1>2, <2>1 DEF ReadOK
      <4>2. CASE d = e
        BY <2>1, <4>1, <4>2 DEF SendingOK, ReceivingOK
      <4>3. CASE d # e
        BY <1>2, <2>1, <4>1, <4>3 DEF SendingOK, ReceivingOK
      <4> QED
        BY <4>2, <4>3
    <3>2. Taken(d)' = Taken(d) /\ Sent(d)' = Sent(d)
      BY <2>1 DEF Taken, Sent
    <3>3. CASE d = e
      <4>1. buffer'[d] = <<>> /\ socket'[d] = "closed" /\ Len(buffer'[d]) = 0
        BY <2>1, <3>3
      <4> QED
        BY <1>2, <2>1, <3>1, <3>2, <4>1 DEF BufferOK
    <3>4. CASE d # e
      BY <1>2, <2>1, <3>1, <3>2, <3>4 DEF BufferOK
    <3> QED
      BY <3>3, <3>4
  <2> QED
    BY <1>2, <2>1, <2>2 DEF StreamOK, ReceivesTyped

\* What one end sends is for the other.
<1>5. ASSUME NEW e \in End,
             UNCHANGED <<socket, receiving, status, got, dropped>>,
             \A d \in End : d # e => sending'[d] = sending[d],
             \A d \in End : d # OtherEnd[e] =>
                             buffer'[d] = buffer[d] /\ acknowledged'[d] = acknowledged[d],
             SendingOK(e)', BufferOK(OtherEnd[e])'
      PROVE  StreamOK'
  <2>1. ASSUME NEW d \in End PROVE SendingOK(d)' /\ ReceivingOK(d)' /\ ReadOK(d)' /\ BufferOK(d)'
    <3>1. SendingOK(d)' /\ ReceivingOK(d)' /\ ReadOK(d)'
      BY <1>2, <1>5 DEF SendingOK, ReceivingOK, ReadOK
    <3>2. ASSUME d # OtherEnd[e] PROVE BufferOK(d)'
      <4>1. OtherEnd[d] # e  BY <1>2, <3>2
      <4>2. Taken(d)' = Taken(d) /\ Sent(d)' = Sent(d)
        BY <1>2, <1>5, <3>2, <4>1 DEF Taken, Sent
      <4> QED
        BY <1>2, <1>5, <3>2, <4>2 DEF BufferOK
    <3> QED
      BY <1>5, <3>1, <3>2
  <2> QED
    BY <1>2, <1>5, <2>1 DEF StreamOK, ReceivesTyped

<1>6. ASSUME NEW e \in End, (\E n \in 1..MaxBytes[OtherEnd[e]] : StartSend(e, n)) \/ SendLoop(e)
      PROVE  StreamOK'
  <2> DEFINE p == OtherEnd[e]
  <2>1. /\ p \in End /\ OtherEnd[p] = e /\ acknowledged[p] \in Nat /\ buffer[p] \in Seq(Nat)
        /\ sending \in [End -> SUBSET [size : Nat, moved : Nat]] /\ acknowledged \in [End -> Nat]
        /\ SendingOK(e) /\ BufferOK(p)
    BY <1>2 DEF SocketsTyped
  <2>2. UNCHANGED <<socket, receiving, status, got, dropped>> /\ Taken(p)' = Taken(p)
    BY <1>6 DEF SendLoop, StartSend, SendTo, SendToNobody, SendTimesOut, SendFails, Taken
  \* A call that goes on or returns has sent what it moved.
  <2>3. ASSUME NEW c \in [size : Nat, moved : Nat], sending[e] # {}, SendMoved(e, c)
        PROVE  /\ \A d \in End : d # e => sending'[d] = sending[d]
               /\ \A d \in End : d # p => acknowledged'[d] = acknowledged[d]
               /\ SendingOK(e)' /\ Sent(p)' = acknowledged[p] + c.moved
    <3>1. socket[e] = "open"  BY <2>1, <2>3 DEF SendingOK
    <3>2. CASE c.moved < c.size
      <4>1. sending' = [sending EXCEPT ![e] = {c}] /\ acknowledged' = acknowledged
        BY <2>3, <3>2 DEF SendMoved
      <4>2. sending'[e] = {c}  BY <2>1, <4>1
      <4> QED
        BY <1>1, <2>1, <2>2, <3>1, <4>1, <4>2 DEF Sent, SendingOK
    <3>3. CASE ~(c.moved < c.size)
      <4>1. /\ sending' = [sending EXCEPT ![e] = {}]
            /\ acknowledged' = [acknowledged EXCEPT ![p] = @ + c.moved]
        BY <2>3, <3>3 DEF SendMoved
      <4>2. sending'[e] = {} /\ acknowledged'[p] = acknowledged[p] + c.moved
        BY <2>1, <4>1
      <4> QED
        BY <1>1, <2>1, <4>1, <4>2 DEF Sent, SendingOK
    <3> QED
      BY <3>2, <3>3
  <2> HIDE DEF p
  <2>4. CASE \E n \in 1..MaxBytes[OtherEnd[e]] : StartSend(e, n)
    <3>1. PICK n \in 1..MaxBytes[OtherEnd[e]] : StartSend(e, n)  BY <2>4
    <3> DEFINE c == [size |-> n, moved |-> 0]
    <3>2. /\ socket[e] = "open" /\ sending[e] = {} /\ UNCHANGED <<buffer, acknowledged>>
          /\ sending' = [sending EXCEPT ![e] = {c}]
      BY <3>1 DEF StartSend
    <3>3. sending'[e] = {c} /\ c.moved = 0 /\ \A d \in End : d # e => sending'[d] = sending[d]
      BY <2>1, <3>2
    <3> HIDE DEF c
    <3>4. Sent(p)' = Sent(p)
      BY <1>1, <2>1, <3>2, <3>3 DEF Sent
    <3>5. SendingOK(e)'
      BY <2>2, <3>2, <3>3 DEF SendingOK
    <3>6. BufferOK(p)'
      BY <2>1, <2>2, <3>2, <3>4 DEF BufferOK
    <3> QED
      BY <1>5, <2>2, <3>2, <3>3, <3>5, <3>6 DEF p
  <2>5. CASE SendTo(e)
    <3>1. PICK c \in sending[e] :
            \E k \in 1..Min2(Room - Len(buffer[p]), c.size - c.moved) :
              /\ buffer' = [buffer EXCEPT ![p] = @ \o FromMoved(p, c.moved, k)]
              /\ SendMoved(e, [c EXCEPT !.moved = @ + k])
      BY <2>5 DEF SendTo, p
    <3>2. PICK k \in 1..Min2(Room - Len(buffer[p]), c.size - c.moved) :
            /\ buffer' = [buffer EXCEPT ![p] = @ \o FromMoved(p, c.moved, k)]
            /\ SendMoved(e, [c EXCEPT !.moved = @ + k])
      BY <3>1
    <3>3. c \in [size : Nat, moved : Nat] /\ sending[e] = {c} /\ Sent(p) = acknowledged[p] + c.moved
      BY <1>1, <2>1 DEF SendingOK, Sent
    <3>4. k \in Nat
      BY <2>1, <3>3, SizesAssumption DEF Min2
    <3> DEFINE more == FromMoved(p, c.moved, k)
               b == Len(buffer[p])
               d2 == [c EXCEPT !.moved = @ + k]
    <3>5. more \in Seq(Nat) /\ Len(more) = k /\ \A i \in 1..k : more[i] = acknowledged[p] + c.moved + i
      <4>1. \A i \in 1..k : acknowledged[p] + c.moved + i \in Nat
        BY <2>1, <3>3, <3>4
      <4> QED
        BY <3>4, <4>1 DEF FromMoved
    <3>6. d2 \in [size : Nat, moved : Nat] /\ d2.moved = c.moved + k
      BY <3>3, <3>4
    <3>7. /\ SendingOK(e)' /\ Sent(p)' = acknowledged[p] + (c.moved + k)
          /\ \A d \in End : d # e => sending'[d] = sending[d]
          /\ \A d \in End : d # p => acknowledged'[d] = acknowledged[d]
      BY <2>3, <3>2, <3>3, <3>6
    <3>8. buffer'[p] = buffer[p] \o more /\ \A d \in End : d # p => buffer'[d] = buffer[d]
      BY <1>2, <2>1, <3>2 DEF SocketsTyped
    <3> HIDE DEF more, d2
    <3>9. /\ b \in Nat /\ Len(buffer'[p]) = b + k
          /\ \A i \in 1..b+k : buffer'[p][i] = IF i <= b THEN buffer[p][i] ELSE more[i - b]
      <4>1. /\ Len(buffer[p] \o more) = Len(buffer[p]) + Len(more)
            /\ \A i \in 1..Len(buffer[p]) + Len(more) :
                 (buffer[p] \o more)[i] = IF i <= Len(buffer[p]) THEN buffer[p][i]
                                          ELSE more[i - Len(buffer[p])]
        <5>1. buffer[p] \in Seq(Nat) /\ more \in Seq(Nat)
          BY <2>1, <3>5
        <5> QED
          BY <5>1, ConcatProperties
      <4>2. b \in Nat
        BY <2>1, LenProperties
      <4>3. buffer'[p] = buffer[p] \o more /\ Len(more) = k
        BY <3>5, <3>8
      <4> QED
        BY <4>1, <4>2, <4>3, Zenon
    <3>10. socket[p] # "closed" /\ Taken(p) + b = Sent(p) /\ Taken(p) \in Nat
      BY <1>0, <2>1, <2>5 DEF SendTo, BufferOK, p
    <3>11. ASSUME NEW i \in 1..b+k PROVE buffer'[p][i] = Taken(p) + i
      <4>1. CASE i <= b
        BY <2>1, <3>4, <3>9, <4>1 DEF BufferOK
      <4>2. CASE ~(i <= b)
        <5>1. i - b \in 1..k /\ buffer'[p][i] = more[i - b]
          BY <3>4, <3>9, <4>2
        <5>2. more[i - b] = acknowledged[p] + c.moved + (i - b)
          BY <3>5, <5>1
        <5>3. Taken(p) + b = acknowledged[p] + c.moved /\ c.moved \in Nat /\ i \in Nat
          BY <3>3, <3>4, <3>9, <3>10
        <5> QED
          BY <2>1, <3>9, <3>10, <5>1, <5>2, <5>3, SMTT(30)
      <4> QED
        BY <4>1, <4>2
    <3>12. status[p] = "closed" => FALSE
      BY <2>1, <3>1 DEF BufferOK, SendingOK
    <3>13. c.moved \in Nat /\ Taken(p) + b = acknowledged[p] + c.moved
      BY <3>3, <3>10
    <3> HIDE DEF b
    <3>14. Taken(p)' + Len(buffer'[p]) = Sent(p)'
      <4>1. Taken(p)' + Len(buffer'[p]) = Taken(p) + (b + k)
        BY <2>2, <3>9
      <4>2. Taken(p) + (b + k) = acknowledged[p] + (c.moved + k)
        <5>1. \A h, i, j, m, n \in Nat : h + i = j + m => h + (i + n) = j + (m + n)
          BY SMTT(30)
        <5>2. Taken(p) \in Nat
          BY <3>10
        <5>3. b \in Nat /\ k \in Nat
          BY <3>4, <3>9
        <5>4. acknowledged[p] \in Nat /\ c.moved \in Nat
          BY <2>1, <3>13
        <5>5. Taken(p) + b = acknowledged[p] + c.moved
          BY <3>13
        <5> QED
          BY <5>1, <5>2, <5>3, <5>4, <5>5, SMTT(30)
      <4> QED
        BY <3>7, <4>1, <4>2
    <3>15. BufferOK(p)'
      BY <2>2, <3>9, <3>10, <3>11, <3>12, <3>14 DEF BufferOK
    <3> QED
      BY <1>5, <2>2, <3>7, <3>8, <3>15 DEF p
  <2>6. CASE SendToNobody(e)
    <3>1. PICK c \in sending[e] : SendMoved(e, [c EXCEPT !.moved = c.size])
      BY <2>6 DEF SendToNobody
    <3>2. [c EXCEPT !.moved = c.size] \in [size : Nat, moved : Nat] /\ sending[e] # {}
      BY <2>1
    <3>3. buffer' = buffer /\ socket[p] = "closed" /\ socket[e] = "open"
      BY <2>1, <2>6 DEF SendToNobody, SendingOK, p
    <3>4. BufferOK(p)'
      BY <2>1, <2>2, <3>3 DEF BufferOK
    <3> QED
      BY <1>5, <2>2, <2>3, <3>1, <3>2, <3>3, <3>4 DEF p
  <2>7. CASE SendTimesOut(e)
    <3>1. PICK c \in sending[e] : SendMoved(e, [c EXCEPT !.size = c.moved])
      BY <2>7 DEF SendTimesOut
    <3>2. /\ [c EXCEPT !.size = c.moved] \in [size : Nat, moved : Nat] /\ sending[e] = {c}
          /\ [c EXCEPT !.size = c.moved].moved = c.moved
      BY <2>1 DEF SendingOK
    <3>3. buffer' = buffer /\ socket[e] = "open"
      BY <2>1, <2>7 DEF SendTimesOut, SendingOK
    <3>4. Sent(p)' = Sent(p)
      BY <1>1, <2>1, <2>3, <3>1, <3>2 DEF Sent
    <3>5. BufferOK(p)'
      BY <2>1, <2>2, <3>3, <3>4 DEF BufferOK
    <3> QED
      BY <1>5, <2>2, <2>3, <3>1, <3>2, <3>3, <3>5 DEF p
  <2>8. CASE SendFails(e)
    <3>1. /\ UNCHANGED <<buffer, acknowledged>> /\ socket[p] = "closed"
          /\ sending' = [sending EXCEPT ![e] = {}]
      BY <1>2, <2>8 DEF SendFails, NewsTrue, p
    <3>2. sending'[e] = {} /\ \A d \in End : d # e => sending'[d] = sending[d]
      BY <2>1, <3>1
    <3>3. SendingOK(e)' /\ BufferOK(p)'
      BY <2>1, <2>2, <3>1, <3>2 DEF SendingOK, BufferOK
    <3> QED
      BY <1>5, <2>2, <3>1, <3>2, <3>3 DEF p
  <2> QED
    BY <1>6, <2>4, <2>5, <2>6, <2>7, <2>8 DEF SendLoop

\* What an end receives is nobody else's.
<1>7. ASSUME NEW e \in End,
             UNCHANGED <<socket, sending, acknowledged>>,
             \A d \in End : d # e => /\ buffer'[d] = buffer[d] /\ receiving'[d] = receiving[d]
                                     /\ status'[d] = status[d] /\ got'[d] = got[d]
                                     /\ dropped'[d] = dropped[d],
             ReceivesTyped', ReceivingOK(e)', ReadOK(e)', BufferOK(e)'
      PROVE  StreamOK'
  <2>1. ASSUME NEW d \in End PROVE SendingOK(d)' /\ ReceivingOK(d)' /\ ReadOK(d)' /\ BufferOK(d)'
    <3>1. SendingOK(d)'
      BY <1>2, <1>7 DEF SendingOK
    <3>2. ASSUME d # e PROVE ReceivingOK(d)' /\ ReadOK(d)' /\ BufferOK(d)'
      <4>1. Taken(d)' = Taken(d) /\ Sent(d)' = Sent(d)
        BY <1>7, <3>2 DEF Taken, Sent
      <4>2. /\ receiving'[d] = receiving[d] /\ socket'[d] = socket[d] /\ status'[d] = status[d]
            /\ got'[d] = got[d] /\ dropped'[d] = dropped[d]
        BY <1>7, <3>2
      <4>3. ReceivingOK(d) /\ ReadOK(d)
        BY <1>2
      <4>4. ReceivingOK(d)'
        BY <4>2, <4>3 DEF ReceivingOK
      <4>5. ReadOK(d)'
        BY <4>2, <4>3 DEF ReadOK
      <4> QED
        BY <1>2, <1>7, <3>2, <4>1, <4>4, <4>5 DEF BufferOK
    <3> QED
      BY <1>7, <3>1, <3>2
  <2> QED
    BY <1>7, <2>1 DEF StreamOK

<1>8. ASSUME NEW e \in End, ReceiverCalls(e) \/ ReceiveLoop(e) PROVE StreamOK'
  <2> DEFINE g == Len(got[e])
  <2>1. /\ receiving \in [End -> SUBSET [size : Nat, moved : Seq(Nat)]]
        /\ got \in [End -> Seq(Nat)] /\ dropped \in [End -> Seq(Nat)]
        /\ status \in [End -> {"ok", "closed", "failed"}] /\ buffer \in [End -> Seq(Nat)]
        /\ got[e] \in Seq(Nat) /\ g \in Nat /\ buffer[e] \in Seq(Nat)
        /\ ReceivingOK(e) /\ ReadOK(e) /\ BufferOK(e)
    BY <1>0, <1>2 DEF ReceivesTyped, SocketsTyped
  <2>2. UNCHANGED <<socket, sending, acknowledged>> /\ Sent(e)' = Sent(e)
    BY <1>8 DEF ReceiverCalls, StartReceive, ReceiveLoop, RecvFrom, ReceiveTimesOut, ReceiveEnds,
                ReceiveFails, ReceiveThrows, Sent
  \* The bytes a receive has in its hands are the next to be returned.
  <2>3. ASSUME NEW s \in Seq(Nat), \A i \in 1..Len(s) : s[i] = g + i
        PROVE  /\ got[e] \o s \in Seq(Nat) /\ Len(got[e] \o s) = g + Len(s)
               /\ \A i \in 1..g + Len(s) : (got[e] \o s)[i] = i
    <3>1. /\ got[e] \o s \in Seq(Nat) /\ Len(got[e] \o s) = g + Len(s) /\ Len(s) \in Nat
          /\ \A i \in 1..g + Len(s) : (got[e] \o s)[i] = IF i <= g THEN got[e][i] ELSE s[i - g]
      BY <2>1, ConcatProperties, LenProperties
    <3>2. ASSUME NEW i \in 1..g + Len(s) PROVE (got[e] \o s)[i] = i
      <4>1. CASE i <= g
        BY <2>1, <3>1, <4>1 DEF ReadOK
      <4>2. CASE ~(i <= g)
        <5>1. i - g \in 1..Len(s) /\ i \in Nat
          BY <2>1, <3>1, <4>2
        <5> QED
          BY <2>1, <2>3, <3>1, <4>2, <5>1
      <4> QED
        BY <4>1, <4>2
    <3> QED
      BY <3>1, <3>2
  <2>4. ASSUME NEW c \in receiving[e]
        PROVE  /\ receiving[e] = {c} /\ c \in [size : Nat, moved : Seq(Nat)]
               /\ socket[e] = "open" /\ status[e] = "ok" /\ dropped[e] = <<>> /\ Len(dropped[e]) = 0
               /\ \A i \in 1..Len(c.moved) : c.moved[i] = g + i
               /\ Len(c.moved) \in Nat /\ c.moved \in Seq(Nat) /\ Taken(e) = g + Len(c.moved)
               /\ Taken(e) + Len(buffer[e]) = Sent(e)
    <3>1. /\ receiving[e] = {c} /\ c \in [size : Nat, moved : Seq(Nat)]
          /\ socket[e] = "open" /\ status[e] = "ok" /\ dropped[e] = <<>>
          /\ \A i \in 1..Len(c.moved) : c.moved[i] = g + i
      BY <2>1 DEF ReceivingOK, ReadOK
    <3>2. Len(dropped[e]) = 0 /\ Len(c.moved) \in Nat /\ c.moved \in Seq(Nat)
      BY <3>1, LenProperties
    <3>3. ReadLength(receiving[e]) = Len(c.moved)
      BY <1>1, <3>1
    <3>4. Taken(e) = g + Len(c.moved)
      BY <2>1, <3>2, <3>3 DEF Taken
    <3>5. Taken(e) + Len(buffer[e]) = Sent(e)
      BY <2>1, <3>1 DEF BufferOK
    <3> QED
      BY <3>1, <3>2, <3>4, <3>5
  <2> HIDE DEF g
  \* A receive returns what it has read.
  <2>5. ASSUME NEW s \in Seq(Nat), \A i \in 1..Len(s) : s[i] = g + i, ReceiveReturns(e, s),
               status' = status, dropped' = dropped, status[e] = "ok"
        PROVE  /\ \A d \in End : d # e => receiving'[d] = receiving[d] /\ got'[d] = got[d]
               /\ ReceivesTyped' /\ ReceivingOK(e)' /\ ReadOK(e)' /\ Taken(e)' = g + Len(s)
    <3>1. /\ receiving' = [receiving EXCEPT ![e] = {}] /\ receiving'[e] = {}
          /\ got' = [got EXCEPT ![e] = @ \o s] /\ got'[e] = got[e] \o s
      BY <2>1, <2>5 DEF ReceiveReturns
    <3>2. /\ got'[e] \in Seq(Nat) /\ Len(got'[e]) = g + Len(s)
          /\ \A i \in 1..Len(got'[e]) : got'[e][i] = i
      BY <2>3, <2>5, <3>1
    <3>3. dropped[e] = <<>> /\ Len(dropped[e]) = 0
      BY <2>1, <2>5 DEF ReadOK
    <3>4. ReceivesTyped'
      BY <2>1, <2>5, <3>1, <3>2 DEF ReceivesTyped
    <3>5. ReadOK(e)'
      BY <2>5, <3>2, <3>3 DEF ReadOK
    <3>6. Taken(e)' = g + Len(s)
      <4>1. ReadLength(receiving'[e]) = 0 /\ Len(dropped'[e]) = 0
        BY <1>1, <2>5, <3>1, <3>3
      <4>2. g + Len(s) \in Nat
        BY <2>1, <2>5, LenProperties
      <4> QED
        BY <3>2, <4>1, <4>2 DEF Taken
    <3> QED
      BY <2>1, <3>1, <3>4, <3>5, <3>6 DEF ReceivingOK
  \* A receive that returns what it has leaves the others in the buffer.
  <2>6. CASE ReceiverCalls(e)
    <3>1. PICK n \in 1..MaxSize : StartReceive(e, n)  BY <2>6 DEF ReceiverCalls
    <3> DEFINE c == [size |-> n, moved |-> <<>>]
    <3>2. /\ socket[e] = "open" /\ receiving[e] = {} /\ status[e] = "ok"
          /\ receiving' = [receiving EXCEPT ![e] = {c}]
          /\ UNCHANGED <<buffer, status, got, dropped>>
      BY <3>1 DEF StartReceive
    <3>3. c \in [size : Nat, moved : Seq(Nat)] /\ c.moved = <<>> /\ Len(c.moved) = 0
      BY SizesAssumption, EmptySeq
    <3>4. receiving'[e] = {c} /\ \A d \in End : d # e => receiving'[d] = receiving[d]
      BY <2>1, <3>2
    <3> HIDE DEF c
    <3>5. ReceivesTyped'
      BY <2>1, <3>2, <3>3 DEF ReceivesTyped
    <3>6. ReadLength(receiving'[e]) = ReadLength(receiving[e])
      BY <1>1, <3>2, <3>3, <3>4
    <3>7. Taken(e)' = Taken(e)
      BY <3>2, <3>6 DEF Taken
    <3>8. ReceivingOK(e)'
      BY <2>2, <3>2, <3>3, <3>4 DEF ReceivingOK
    <3>9. ReadOK(e)'
      BY <2>1, <3>2 DEF ReadOK
    <3>10. BufferOK(e)'
      BY <2>1, <2>2, <3>2, <3>7 DEF BufferOK
    <3> QED
      BY <1>7, <2>2, <3>2, <3>4, <3>5, <3>8, <3>9, <3>10
  <2>7. CASE ReceiveTimesOut(e)
    <3>1. PICK c \in receiving[e] : ReceiveReturns(e, c.moved)
      BY <2>7 DEF ReceiveTimesOut
    <3>2. UNCHANGED <<buffer, status, dropped>>
      BY <2>7 DEF ReceiveTimesOut
    <3>3. /\ \A d \in End : d # e => receiving'[d] = receiving[d] /\ got'[d] = got[d]
          /\ ReceivesTyped' /\ ReceivingOK(e)' /\ ReadOK(e)' /\ Taken(e)' = Taken(e)
      BY <2>4, <2>5, <3>1, <3>2
    <3>4. BufferOK(e)'
      BY <2>1, <2>2, <3>2, <3>3 DEF BufferOK
    <3> QED
      BY <1>7, <2>2, <3>2, <3>3, <3>4
  \* One that throws loses them, and only the end of the peer makes it throw.
  <2>8. ASSUME NEW how \in {"closed", "failed"}, ReceiveThrows(e, how),
               how = "closed" => news[e] = "fin" /\ buffer[e] = <<>>
        PROVE  StreamOK'
    <3>1. PICK c \in receiving[e] : dropped' = [dropped EXCEPT ![e] = @ \o c.moved]
      BY <2>8 DEF ReceiveThrows
    <3>2. /\ status' = [status EXCEPT ![e] = how] /\ receiving' = [receiving EXCEPT ![e] = {}]
          /\ UNCHANGED <<buffer, got>>
      BY <2>8 DEF ReceiveThrows, ThrowAtEnd
    <3>3. status'[e] = how /\ receiving'[e] = {} /\ dropped'[e] = dropped[e] \o c.moved
      BY <2>1, <3>1, <3>2
    <3>4. dropped'[e] = c.moved
      <4>1. \A s \in Seq(Nat) : <<>> \o s = s
        OBVIOUS
      <4> QED
        BY <2>4, <3>3, <4>1
    <3>5. ReceivesTyped'
      <4>1. dropped' \in [End -> Seq(Nat)]
        BY <2>1, <2>4, <3>1, <3>3, <3>4
      <4> QED
        BY <2>1, <3>2, <4>1 DEF ReceivesTyped
    <3>6. ReceivingOK(e)'
      BY <3>3 DEF ReceivingOK
    <3>7. ReadOK(e)'
      BY <2>1, <2>4, <3>2, <3>3, <3>4 DEF ReadOK, g
    <3>8. Taken(e)' = Taken(e)
      <4>1. ReadLength(receiving'[e]) = 0
        BY <1>1, <3>3
      <4>2. Len(got'[e]) = g /\ Len(dropped'[e]) = Len(c.moved)
        BY <3>2, <3>4 DEF g
      <4> QED
        BY <2>1, <2>4, <4>1, <4>2 DEF Taken
    <3>9. how = "closed" => socket[OtherEnd[e]] = "closed" /\ Taken(e) >= acknowledged[e]
      <4> SUFFICES ASSUME how = "closed"
                   PROVE  socket[OtherEnd[e]] = "closed" /\ Taken(e) >= acknowledged[e]
        OBVIOUS
      <4>1. socket[OtherEnd[e]] = "closed"
        BY <1>2, <2>8 DEF NewsTrue
      <4>2. sending[OtherEnd[e]] = {} /\ SentLength(sending[OtherEnd[e]]) = 0
        BY <1>1, <1>2, <4>1 DEF SendingOK
      <4>3. Sent(e) = acknowledged[e] /\ Len(buffer[e]) = 0
        BY <1>0, <2>8, <4>2 DEF Sent
      <4> QED
        BY <1>0, <2>4, <4>1, <4>3
    <3>10. BufferOK(e)'
      BY <2>1, <2>2, <2>4, <3>2, <3>3, <3>8, <3>9 DEF BufferOK
    <3> QED
      BY <1>7, <2>1, <2>2, <3>1, <3>2, <3>5, <3>6, <3>7, <3>10
  <2>9. CASE RecvFrom(e)
    <3>1. PICK c \in receiving[e] :
            \E k \in 1..Min2(Len(buffer[e]), c.size - Len(c.moved)) :
              LET moved == c.moved \o SubSeq(buffer[e], 1, k)
              IN  /\ buffer' = [buffer EXCEPT ![e] = SubSeq(@, k + 1, Len(@))]
                  /\ IF Len(moved) = c.size THEN ReceiveReturns(e, moved)
                     ELSE /\ receiving' = [receiving EXCEPT ![e] = {[c EXCEPT !.moved = moved]}]
                          /\ UNCHANGED got
      BY <2>9 DEF RecvFrom
    <3>2. PICK k \in 1..Min2(Len(buffer[e]), c.size - Len(c.moved)) :
            LET moved == c.moved \o SubSeq(buffer[e], 1, k)
            IN  /\ buffer' = [buffer EXCEPT ![e] = SubSeq(@, k + 1, Len(@))]
                /\ IF Len(moved) = c.size THEN ReceiveReturns(e, moved)
                   ELSE /\ receiving' = [receiving EXCEPT ![e] = {[c EXCEPT !.moved = moved]}]
                        /\ UNCHANGED got
      BY <3>1
    <3> DEFINE q == buffer[e]
               m == Len(c.moved)
               first == SubSeq(q, 1, k)
               moved == c.moved \o first
               rest == SubSeq(q, k + 1, Len(q))
    <3>3. /\ q \in Seq(Nat) /\ Len(q) \in Nat /\ m \in Nat /\ k \in Nat /\ 1 <= k /\ k <= Len(q)
          /\ \A i \in 1..Len(q) : q[i] \in Nat
      <4>1. q \in Seq(Nat) /\ Len(q) \in Nat /\ m \in Nat /\ c.size \in Nat
        BY <2>1, <2>4, LenProperties
      <4> QED
        BY <4>1, ElementOfSeq DEF Min2
    <3>4. first \in Seq(Nat) /\ Len(first) = k /\ \A i \in 1..k : first[i] = q[i]
      BY <3>3, SubSeqProperties
    <3>5. rest \in Seq(Nat) /\ Len(rest) = Len(q) - k /\ \A i \in 1..Len(q) - k : rest[i] = q[k + i]
      <4>1. k + 1 \in Int /\ Len(q) \in Int /\ \A i \in k+1..Len(q) : q[i] \in Nat
        BY <3>3
      <4>2. /\ rest \in Seq(Nat)
            /\ Len(rest) = IF k + 1 <= Len(q) THEN Len(q) - (k + 1) + 1 ELSE 0
            /\ \A i \in 1..Len(q) - (k + 1) + 1 : rest[i] = q[k + 1 + i - 1]
        BY <4>1, SubSeqProperties
      <4> HIDE DEF rest, q
      <4>3. Len(rest) = Len(q) - k
        BY <3>3, <4>2
      <4>4. ASSUME NEW i \in 1..Len(q) - k PROVE rest[i] = q[k + i]
        <5>1. i \in 1..Len(q) - (k + 1) + 1 /\ k + 1 + i - 1 = k + i
          BY <3>3
        <5> QED
          BY <4>2, <5>1
      <4> QED
        BY <4>2, <4>3, <4>4
    <3>6. UNCHANGED <<status, dropped>>
      BY <2>9 DEF RecvFrom
    <3>7. /\ moved \in Seq(Nat) /\ Len(moved) = m + k
          /\ \A i \in 1..m + k : moved[i] = IF i <= m THEN c.moved[i] ELSE first[i - m]
      <4>1. /\ c.moved \o first \in Seq(Nat) /\ Len(c.moved \o first) = Len(c.moved) + Len(first)
            /\ \A i \in 1..Len(c.moved) + Len(first) :
                 (c.moved \o first)[i] = IF i <= Len(c.moved) THEN c.moved[i]
                                         ELSE first[i - Len(c.moved)]
        BY <2>4, <3>4, ConcatProperties
      <4> QED
        BY <3>4, <4>1
    <3>8. \A i \in 1..Len(q) : q[i] = g + m + i
      BY <2>1, <2>4 DEF BufferOK
    <3>9. /\ buffer'[e] = rest /\ \A d \in End : d # e => buffer'[d] = buffer[d]
          /\ \/ ReceiveReturns(e, moved)
             \/ receiving' = [receiving EXCEPT ![e] = {[c EXCEPT !.moved = moved]}] /\ got' = got
      BY <2>1, <3>2
    <3> HIDE DEF q, m, first, moved, rest
    <3>10. g \in Nat /\ c \in receiving[e] /\ Taken(e) = g + m /\ Taken(e) + Len(q) = Sent(e)
      BY <2>1, <2>4 DEF m, q
    <3>11. ASSUME NEW i \in 1..m + k PROVE moved[i] = g + i
      <4>1. CASE i <= m
        <5>1. i \in 1..m  BY <3>3, <4>1
        <5> QED
          BY <2>4, <3>7, <4>1, <5>1 DEF m
      <4>2. CASE ~(i <= m)
        <5>1. i - m \in 1..k /\ i - m \in 1..Len(q) /\ i \in Nat
          BY <3>3, <4>2
        <5>2. moved[i] = g + m + (i - m)
          BY <3>4, <3>7, <3>8, <4>2, <5>1
        <5> QED
          BY <3>3, <3>10, <5>1, <5>2
      <4> QED
        BY <4>1, <4>2
    <3>12. Len(moved) = m + k /\ \A i \in 1..Len(moved) : moved[i] = g + i
      BY <3>7, <3>11
    <3>13. ASSUME Taken(e)' = g + (m + k) PROVE BufferOK(e)'
      <4>1. ASSUME NEW i \in 1..Len(rest) PROVE rest[i] = g + (m + k) + i
        <5>1. k + i \in 1..Len(q) /\ i \in Nat /\ rest[i] = q[k + i]
          BY <3>3, <3>5
        <5>2. rest[i] = g + m + (k + i)
          BY <3>8, <5>1
        <5> QED
          BY <3>3, <3>10, <5>1, <5>2
      <4>2. g + (m + k) + Len(rest) = Sent(e)
        BY <3>3, <3>5, <3>10
      <4>3. socket[e] = "open" /\ status[e] = "ok"
        BY <2>4
      <4> QED
        BY <2>2, <3>6, <3>9, <3>13, <4>1, <4>2, <4>3 DEF BufferOK
    <3>14. CASE ReceiveReturns(e, moved)
      <4>1. /\ \A d \in End : d # e => receiving'[d] = receiving[d] /\ got'[d] = got[d]
            /\ ReceivesTyped' /\ ReceivingOK(e)' /\ ReadOK(e)' /\ Taken(e)' = g + (m + k)
        BY <2>4, <2>5, <3>6, <3>7, <3>12, <3>14
      <4> QED
        BY <1>7, <2>2, <3>6, <3>9, <3>13, <4>1
    <3>15. CASE receiving' = [receiving EXCEPT ![e] = {[c EXCEPT !.moved = moved]}] /\ got' = got
      <4> DEFINE more == [c EXCEPT !.moved = moved]
      <4>1. more \in [size : Nat, moved : Seq(Nat)] /\ more.moved = moved
        BY <2>4, <3>7
      <4> HIDE DEF more
      <4>2. receiving' = [receiving EXCEPT ![e] = {more}]
        BY <3>15 DEF more
      <4>3. receiving'[e] = {more} /\ \A d \in End : d # e => receiving'[d] = receiving[d]
        BY <2>1, <4>2
      <4>4. ReceivesTyped'
        BY <2>1, <3>6, <3>15, <4>1, <4>2 DEF ReceivesTyped
      <4>5. ReceivingOK(e)'
        BY <2>2, <2>4, <3>6, <3>12, <3>15, <4>1, <4>3 DEF ReceivingOK, g
      <4>6. ReadOK(e)'
        BY <2>1, <3>6, <3>15 DEF ReadOK
      <4>7. Taken(e)' = g + (m + k)
        <5>1. ReadLength(receiving'[e]) = m + k
          BY <1>1, <3>12, <4>1, <4>3
        <5>2. Len(got'[e]) = g
          BY <3>15 DEF g
        <5>3. Len(dropped'[e]) = 0
          BY <2>4, <3>6, <3>10
        <5>4. m + k \in Nat
          BY <3>3
        <5> QED
          BY <3>10, <5>1, <5>2, <5>3, <5>4 DEF Taken
      <4> QED
        BY <1>7, <2>2, <3>6, <3>9, <3>13, <3>15, <4>3, <4>4, <4>5, <4>6, <4>7
    <3> QED
      BY <3>9, <3>14, <3>15
  <2> QED
    BY <1>8, <2>6, <2>7, <2>8, <2>9 DEF ReceiveLoop, ReceiveEnds, ReceiveFails
<1>9. CASE ConnectSocket
  <2>1. /\ socket[Connecting] = "none" /\ socket[OtherEnd[Connecting]] = "none"
        /\ Connecting \in End
        /\ socket' = [socket EXCEPT ![Connecting] = "open", ![OtherEnd[Connecting]] = "backlog"]
        /\ UNCHANGED <<buffer, sending, receiving, status, acknowledged, got, dropped>>
    BY <1>2, <1>9, EndAssumption DEF ConnectSocket, NoneYet, callVars
  <2>2. \A d \in End : /\ socket[d] = "closed" <=> socket'[d] = "closed"
                       /\ socket[d] = "open" => socket'[d] = "open"
    BY <1>2, <2>1 DEF SocketsTyped
  <2> QED
    BY <1>3, <2>1, <2>2
<1>10. ASSUME NEW e \in End,
              AcceptSocket(e) \/ NewsArrives(e) \/ SelectReadable(e) \/ CountPending(e)
       PROVE  StreamOK'
  <2>1. UNCHANGED <<buffer, sending, receiving, status, acknowledged, got, dropped>>
    BY <1>10 DEF AcceptSocket, NewsArrives, SelectReadable, CountPending, callVars
  <2>2. \/ socket' = socket
        \/ socket[e] = "backlog" /\ socket' = [socket EXCEPT ![e] = "open"]
    BY <1>10 DEF AcceptSocket, NewsArrives, SelectReadable, CountPending
  <2>3. \A d \in End : /\ socket[d] = "closed" <=> socket'[d] = "closed"
                       /\ socket[d] = "open" => socket'[d] = "open"
    BY <1>2, <2>2 DEF SocketsTyped
  <2> QED
    BY <1>3, <2>1, <2>3
<1>11. CASE UNCHANGED tcpVars
  BY <1>3, <1>11 DEF tcpVars, callVars
<1> QED
  BY <1>4, <1>6, <1>8, <1>9, <1>10, <1>11 DEF TCPNext

\* Bytes come out in order and once each, whatever timeouts cut sends and
\* receives, and no closed connection is reported before the last of them.
THEOREM BytesInOrder == TCPSpec => []StreamIntact
<1>1. TCPInit => StreamOK
  <2> SUFFICES ASSUME TCPInit PROVE StreamOK
    OBVIOUS
  <2>1. ReceivesTyped
    BY EmptySeq DEF TCPInit, ReceivesTyped
  <2>2. ASSUME NEW e \in End PROVE SendingOK(e) /\ ReceivingOK(e) /\ ReadOK(e) /\ BufferOK(e)
    <3>1. /\ socket[e] = "none" /\ status[e] = "ok" /\ acknowledged[e] = 0
          /\ sending[e] = {} /\ receiving[e] = {} /\ OtherEnd[e] \in End
          /\ got[e] = <<>> /\ dropped[e] = <<>> /\ buffer[e] = <<>>
      BY EndAssumption DEF TCPInit
    <3>2. Len(got[e]) = 0 /\ Len(dropped[e]) = 0 /\ Len(buffer[e]) = 0
      BY <3>1
    <3>3. Taken(e) = 0
      BY <3>1, <3>2 DEF Taken, ReadLength
    <3>4. Sent(e) = 0
      <4>1. sending[OtherEnd[e]] = {}
        BY <3>1 DEF TCPInit
      <4> QED
        BY <3>1, <4>1 DEF Sent, SentLength
    <3> QED
      BY <3>1, <3>2, <3>3, <3>4 DEF SendingOK, ReceivingOK, ReadOK, BufferOK
  <2> QED
    BY <2>1, <2>2 DEF StreamOK
<1>2. StreamOK => StreamIntact
  <2> SUFFICES ASSUME StreamOK, NEW e \in End
               PROVE  /\ got[e] \o dropped[e] = [i \in 1..Len(got[e] \o dropped[e]) |-> i]
                      /\ status[e] = "closed" => Len(got[e] \o dropped[e]) >= acknowledged[e]
    BY DEF StreamIntact
  <2> DEFINE s == got[e] \o dropped[e]
  <2>1. /\ got[e] \in Seq(Nat) /\ dropped[e] \in Seq(Nat)
        /\ Len(got[e]) \in Nat /\ Len(dropped[e]) \in Nat
    BY DEF StreamOK, ReceivesTyped
  <2>2. /\ s \in Seq(Nat) /\ Len(s) = Len(got[e]) + Len(dropped[e])
        /\ \A i \in 1..Len(got[e]) + Len(dropped[e]) :
             s[i] = IF i <= Len(got[e]) THEN got[e][i] ELSE dropped[e][i - Len(got[e])]
    BY <2>1, ConcatProperties
  <2> HIDE DEF s
  <2>3. ASSUME NEW i \in 1..Len(s) PROVE s[i] = i
    <3> DEFINE m == Len(got[e])
               n == Len(dropped[e])
    <3>1. /\ m \in Nat /\ n \in Nat /\ i \in 1..m+n
          /\ s[i] = IF i <= m THEN got[e][i] ELSE dropped[e][i - m]
      BY <2>1, <2>2
    <3>2. /\ \A j \in 1..m : got[e][j] = j
          /\ \A j \in 1..n : dropped[e][j] = m + j
      BY DEF StreamOK, ReadOK
    <3> HIDE DEF m, n
    <3>3. CASE i <= m
      <4>1. i \in 1..m  BY <3>1, <3>3
      <4> QED
        BY <3>1, <3>2, <3>3, <4>1
    <3>4. CASE ~(i <= m)
      <4>1. i - m \in 1..n /\ m + (i - m) = i  BY <3>1, <3>4
      <4> QED
        BY <3>1, <3>2, <3>4, <4>1
    <3> QED
      BY <3>3, <3>4
  <2>4. s = [i \in 1..Len(s) |-> i]
    <3>1. s \in [1..Len(s) -> Nat]
      BY <2>2, LenProperties
    <3> QED
      BY <2>3, <3>1, Zenon
  <2>5. status[e] = "closed" => Len(s) >= acknowledged[e]
    <3> SUFFICES ASSUME status[e] = "closed" PROVE Len(s) >= acknowledged[e]
      OBVIOUS
    <3>1. receiving[e] = {}
      BY DEF StreamOK, ReceivingOK
    <3>2. Taken(e) = Len(s)
      BY <2>1, <2>2, <3>1 DEF Taken, ReadLength
    <3> QED
      BY <3>2 DEF StreamOK, BufferOK
  <2> QED
    BY <2>4, <2>5 DEF s
<1> QED
  BY <1>1, <1>2, Invariance, StreamKept, PTL DEF TCPSpec
=============================================================================
