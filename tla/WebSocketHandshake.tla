-------------------------- MODULE WebSocketHandshake --------------------------
(***************************************************************************)
(* The handshake of a websocket: FramingConnectionAcceptor::accept, in the *)
(* thread of the connection aggregator, reads a client's request with      *)
(* readUntil (net/framing/FramingUtils.cpp), takes the key from its        *)
(* headers and answers (WebSocketProtocol.cpp).                            *)
(*                                                                         *)
(* A request is a sequence of pieces that arrive whole: "get" is the text  *)
(* of its first line, "name:" the name of some header, "key:" that of      *)
(* Sec-WebSocket-Key, "value" a value, and "\r" and "\n" are themselves.   *)
(* receive gives up after 100 ms; readUntil does not ask whether it did,   *)
(* and appends the byte it has: the last byte of the piece before, here    *)
(* written like the piece, or one nobody has written yet.                  *)
(***************************************************************************)
EXTENDS Naturals, Sequences, SequencesExt

CONSTANTS
  Request,     \* the requests clients make
  Following,   \* what a client may send without waiting for the answer
  Garbage,     \* values of the uninitialized byte
  MaxPauses    \* how often receive gives up before the next piece is there

Piece == {"get", "name:", "key:", "value", "\r", "\n"}
Delimiter == <<"\r", "\n", "\r", "\n">>

\* Where a line, or the request, ends.
EndsAt(s, i) == i >= 4 /\ SubSeq(s, i-3, i) = Delimiter

ASSUME RequestAssumption ==
  /\ Request \subseteq Seq(Piece) /\ Following \subseteq Seq(Piece)
  /\ \A q \in Request : EndsAt(q, Len(q)) /\ \A i \in 1..Len(q)-1 : ~EndsAt(q, i)
ASSUME PausesAssumption == MaxPauses \in Nat

VARIABLES
  request,      \* the request of this client
  unsent,       \* what the client has still to send
  incoming,     \* sent and not yet received
  client,       \* the client's end exists
  stopped,      \* interrupted_ of the aggregator
  buffer,       \* headerBuffer
  byte,         \* the variable receive writes to
  pauses,       \* how often receive gave up
  stage,        \* how far accept is
  answer        \* the key that was answered

handshakeVars ==
  <<request, unsent, incoming, client, stopped, buffer, byte, pauses, stage, answer>>

HandshakeInit ==
  /\ request \in Request
  /\ unsent \in { request \o f : f \in Following }
  /\ incoming = <<>>
  /\ client = TRUE
  /\ stopped = FALSE
  /\ buffer = <<>>
  /\ byte \in Garbage
  /\ pauses = 0
  /\ stage = "reading"
  /\ answer = <<>>

-----------------------------------------------------------------------------
(* The client *)

ClientSendsRequest ==
  /\ client /\ unsent # <<>>
  /\ incoming' = Append(incoming, Head(unsent))
  /\ unsent' = Tail(unsent)
  /\ UNCHANGED <<request, client, stopped, buffer, byte, pauses, stage, answer>>

ClientLeaves ==
  /\ client
  /\ client' = FALSE
  /\ UNCHANGED <<request, unsent, incoming, stopped, buffer, byte, pauses, stage,
                 answer>>

-----------------------------------------------------------------------------
(* receiveHandshake *)

\* Mutant: the search begins one byte too late.
FoundLate(b) ==
  LET from == Len(b) - 3
  IN  \E i \in from+1..Len(b) : i - 3 > from /\ EndsAt(b, i)

\* Mutant: the end of a line is enough.
FoundLine(b) == Len(b) > 1 /\ SubSeq(b, Len(b)-1, Len(b)) = <<"\r", "\n">>

\* std::search for the delimiter, from as many bytes before the last one.
Found(b) == \E i \in Len(b)-1..Len(b) : EndsAt(b, i)

\* push_back(byte) and the search.
AppendByte(b) ==
  /\ byte' = b
  /\ buffer' = Append(buffer, b)
  /\ stage' = IF Found(Append(buffer, b)) THEN "read" ELSE "reading"

\* receive finds a byte.
ReadByte ==
  /\ stage = "reading" /\ ~stopped
  /\ incoming # <<>>
  /\ AppendByte(Head(incoming))
  /\ incoming' = Tail(incoming)
  /\ UNCHANGED <<request, unsent, client, stopped, pauses, answer>>

\* receive gives up, and byte is what it was.
OldByte == byte

ReadTimeout ==
  /\ stage = "reading" /\ ~stopped /\ client
  /\ incoming = <<>>
  /\ pauses < MaxPauses
  /\ AppendByte(OldByte)
  /\ pauses' = pauses + 1
  /\ UNCHANGED <<request, unsent, incoming, client, stopped, answer>>

IsCurrentInterrupted == stopped

\* receive finds the client gone, sooner or later.
FailClosed ==
  /\ stage = "reading" /\ ~stopped /\ ~client
  /\ stage' = "closed"
  /\ UNCHANGED <<request, unsent, incoming, client, stopped, buffer, byte,
                 pauses, answer>>

\* The lines of the request, each with its "\r".
LineEnds(b) == { i \in 1..Len(b) : b[i] = "\n" }
LineOf(b, i) ==
  LET before == { j \in LineEnds(b) : j < i }
      from == IF before = {} THEN 0 ELSE Max(before)
  IN  SubSeq(b, from + 1, i - 1)

IsHeader(line) == \E i \in 1..Len(line) : line[i] \in {"name:", "key:"}

\* The header lines, by their ends: those after the first line up to the first
\* without a colon.
HeaderEnds(b) ==
  { i \in LineEnds(b) :
      /\ i # Min(LineEnds(b))
      /\ \A j \in LineEnds(b) : Min(LineEnds(b)) < j /\ j <= i => IsHeader(LineOf(b, j)) }

KeyEnds(b) == { i \in HeaderEnds(b) : LineOf(b, i)[1] = "key:" }

\* The value is what follows the colon, without the last character.
ValueOf(line) == SubSeq(line, 2, Len(line) - 1)

\* Headers are looked for only after a first line that is one of a request.
HasKey ==
  "get" \in Range(LineOf(buffer, Min(LineEnds(buffer)))) /\ KeyEnds(buffer) # {}

\* insert keeps the first of several headers of one name.  A client that has
\* left may be noticed when the answer is sent, or later.
Respond ==
  /\ stage = "read" /\ HasKey /\ ~stopped
  /\ answer' = ValueOf(LineOf(buffer, Min(KeyEnds(buffer))))
  /\ stage' \in IF client THEN {"open"} ELSE {"open", "closed"}
  /\ UNCHANGED <<request, unsent, incoming, client, stopped, buffer, byte, pauses>>

\* Missing 'Sec-WebSocket-Key'.
Reject ==
  /\ stage = "read" /\ ~HasKey
  /\ stage' = "rejected"
  /\ UNCHANGED <<request, unsent, incoming, client, stopped, buffer, byte,
                 pauses, answer>>

\* ThreadInterrupt: before every byte that is read, and before the answer is
\* sent.
FailInterrupted ==
  /\ stage = "reading" \/ (stage = "read" /\ HasKey)
  /\ IsCurrentInterrupted
  /\ stage' = "interrupted"
  /\ UNCHANGED <<request, unsent, incoming, client, stopped, buffer, byte,
                 pauses, answer>>

-----------------------------------------------------------------------------
\* The aggregator is interrupted by its destructor.
StopAggregator ==
  /\ ~stopped
  /\ stopped' = TRUE
  /\ UNCHANGED <<request, unsent, incoming, client, buffer, byte, pauses, stage, answer>>

Accept ==
  ReadByte \/ ReadTimeout \/ FailInterrupted \/ FailClosed \/ Respond \/ Reject

HandshakeNext == ClientSendsRequest \/ ClientLeaves \/ Accept \/ StopAggregator

HandshakeSpec == HandshakeInit /\ [][HandshakeNext]_handshakeVars

\* The thread goes on; what a client does is its own affair.
HandshakeFairSpec == HandshakeSpec /\ WF_handshakeVars(Accept)

-----------------------------------------------------------------------------
(* Properties *)

HandshakeTypeOK ==
  /\ unsent \in Seq(Piece) /\ incoming \in Seq(Piece) /\ buffer \in Seq(Piece \cup Garbage)
  /\ byte \in Piece \cup Garbage
  /\ client \in BOOLEAN /\ stopped \in BOOLEAN
  /\ pauses \in 0..MaxPauses
  /\ stage \in {"reading", "read", "open", "rejected", "interrupted", "closed"}
  /\ answer \in Seq(Piece \cup Garbage)

\* What readUntil returns is what was sent, up to the delimiter and not beyond
\* it (FramingUtilsTest.cpp, ReceiveUntil_TwoCharDelimInMiddle).
ReadsWhatWasSent == stage \in {"read", "open", "rejected"} => buffer = request

\* What may follow what in a request as HTTP has it.
Adjacent ==
  { <<"get", "\r">>, <<"\r", "\n">>, <<"\n", "name:">>, <<"\n", "key:">>, <<"\n", "\r">>,
    <<"name:", "value">>, <<"key:", "value">>, <<"value", "\r">> }
WellFormed(q) == q[1] = "get" /\ \A i \in 2..Len(q) : <<q[i-1], q[i]>> \in Adjacent

\* The keys in a request, wherever they stand.
KeysOf(q) == { i \in 1..Len(q) : q[i] = "key:" }

\* The answer is that to the first key of the request; a request is rejected
\* only if it has none, or is none.
KeyAnswered ==
  WellFormed(request) =>
    /\ stage = "open" =>
         KeysOf(request) # {} /\ answer = << request[Min(KeysOf(request)) + 1] >>
    /\ stage = "rejected" => KeysOf(request) = {}

\* So it is, and the right key is answered, for a request that comes without a
\* pause of 100 ms, however it is cut, whatever headers it has, and whatever the
\* client sends after it.
PromptRequestRead == pauses = 0 => ReadsWhatWasSent /\ KeyAnswered

\* accept returns when the client has sent such a request, and when the
\* aggregator is interrupted while a client stays silent.
AcceptReturns == (unsent = <<>> /\ pauses = 0) \/ stopped ~>
                 stage \notin {"reading", "read"}
=============================================================================
