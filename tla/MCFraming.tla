------------------------------- MODULE MCFraming -------------------------------
(***************************************************************************)
(* One run for the layers between a stream and a message connection, which *)
(* share no state: each behaviour is one of a FramingConnection, of the    *)
(* handshake of a websocket, or of its frames, with the others at rest.    *)
(***************************************************************************)
EXTENDS FramingConnection, WebSocketHandshake, WebSocketFrames

\* No part; an empty part before another; a part whose size needs two bytes.
MCMessages == { <<>>, << <<>>, <<1>> >>, << <<0, 2, 1>> >> }

\* No key; two keys after another header.
Line(s) == s \o <<"\r", "\n">>
MCRequest ==
  LET get == Line(<<"get">>)
      name == Line(<<"name:", "value">>)
      key == Line(<<"key:", "value">>)
  IN  { get \o name \o Line(<<>>),
        get \o name \o key \o key \o Line(<<>>) }

\* The beginning of a frame that looks like the end of a request.
MCFollowing == { <<"\r", "\n">> }

\* A mask of four different bytes, two of them like those of a size.
MCMask == { <<0, 126, 255, 51>> }

\* Both sides of each boundary.
MCSize == {0, 125, 126, 65535, 65536}

VARIABLE part   \* which of the three this behaviour is about

allVars == <<part, vars, handshakeVars, framesVars>>

AllInit ==
  /\ part \in {"framing", "handshake", "frames"}
  /\ Init /\ HandshakeInit /\ FramesInit
  /\ part # "framing" => \A e \in DOMAIN owner : owner[e] = "application"
  /\ part # "handshake" =>
       /\ request = CHOOSE q \in Request : TRUE
       /\ unsent = request \o (CHOOSE f \in Following : TRUE)

OfFraming(A) == part = "framing" /\ A /\ UNCHANGED <<part, handshakeVars, framesVars>>
OfHandshake(A) == part = "handshake" /\ A /\ UNCHANGED <<part, vars, framesVars>>
OfFrames(A) == part = "frames" /\ A /\ UNCHANGED <<part, vars, handshakeVars>>

AllNext == OfFraming(Next) \/ OfHandshake(HandshakeNext) \/ OfFrames(FramesNext)

\* The fairness of FairSpec, HandshakeFairSpec and FramesFairSpec.  As part never
\* changes, at most one disjunct of the last condition is ever enabled.
AllSpec ==
  /\ AllInit /\ [][AllNext]_allVars
  /\ \A w \in Writer :
       WF_allVars(OfFraming((\E n \in 0..Len(rest[w]) : SendBytes(w, n)) \/ Step(w)))
  /\ \A r \in Reader : WF_allVars(OfFraming(ReceiveBytes(r) \/ Step(r)))
  /\ WF_allVars(\/ OfFraming(\E r \in Reader : StartReceive(r))
                \/ OfHandshake(Accept)
                \/ OfFrames(Read))

AllTypeOK == TypeOK /\ HandshakeTypeOK
=============================================================================
