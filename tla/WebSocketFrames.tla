---------------------------- MODULE WebSocketFrames ----------------------------
(***************************************************************************)
(* Messages as websocket frames (net/framing/WebSocketProtocol.cpp): the   *)
(* server's readMessageFromStream and writeMessageToStream, and a client   *)
(* that masks what it sends and does not expect masks (external).          *)
(*                                                                         *)
(* A stream is a sequence of bytes, [byte |-> b], and payloads.  A         *)
(* payload, whatever its size, is one element: its text, its size and the  *)
(* mask that is on it.  A call that would end inside a payload, or takes   *)
(* one for something else, has lost the boundaries of the frames: the      *)
(* reader is "astray".                                                     *)
(* readExactly and sendAll are those of FramingConnection: they return     *)
(* with all bytes, or not at all.                                          *)
(***************************************************************************)
EXTENDS Naturals, Sequences

CONSTANTS
  Size,     \* sizes of payloads
  Text,     \* what payloads say
  JpegText, \* those of them that writeMessageToStream takes for a JPEG
  Mask,     \* the masks clients use, of four bytes
  MaxFrames, MaxWritten   \* bounds on the frames in each direction

ASSUME MaskAssumption ==
  JpegText \subseteq Text /\ Mask \subseteq [1..4 -> 0..255]

\* A number of up to four bytes.
Is32Bit(n) == n \in Nat /\ n \div 65536 < 65536

ASSUME SizeAssumption ==
  /\ \A n \in Size : Is32Bit(n)
  /\ MaxFrames \in Nat /\ MaxWritten \in Nat

\* The flag bytes: final fragment with text, with binary data, or closing.
TextFlags == 129
BinaryFlags == 130
CloseFlags == 136

NoMask == [i \in 1..4 |-> 0]

\* A payload, which is nothing at all when it is empty.
Payload(text, n, mask) ==
  IF n = 0 THEN <<>> ELSE << [text |-> text, size |-> n, mask |-> mask] >>

\* p, at most one element of the stream, is a payload of that size.
SizeIs(p, n) ==
  \A i \in 1..Len(p) : "size" \in DOMAIN p[i] /\ p[i].size = n

Bytes(s) == [i \in 1..Len(s) |-> [byte |-> s[i]]]
AllBytes(s) == \A i \in 1..Len(s) : "byte" \in DOMAIN s[i]

\* The k-th byte of a number of up to four bytes that is stored with its lowest
\* byte first.
ByteOf(n, k) ==
  CASE k = 0 -> n % 256
    [] k = 1 -> (n \div 256) % 256
    [] k = 2 -> (n \div 65536) % 256
    [] k = 3 -> (n \div 16777216) % 256
    [] OTHER -> 0

\* swap_uint16 and swap_uint64, and back: the bytes above the fourth are zero.
BigEndian(n, width) == [i \in 1..width |-> ByteOf(n, width - i)]
FromBigEndian(b) ==
  LET nth(k) == IF k < Len(b) THEN b[Len(b) - k] ELSE 0
  IN  nth(0) + 256 * nth(1) + 65536 * nth(2) + 16777216 * nth(3)

\* A size after the byte that says how long it is.
ExtendedSize(first, n, width) == <<first>> \o BigEndian(n, width)

\* a ^ b
Xor(a, b) ==
  LET bit(w) == IF (a \div w) % 2 = (b \div w) % 2 THEN 0 ELSE w
  IN  bit(1) + bit(2) + bit(4) + bit(8) + bit(16) + bit(32) + bit(64) + bit(128)

VARIABLES
  toServer, toClient,   \* the two directions of the stream
  reader,               \* where the server's reader is
  prefix,               \* prefixBuffer
  payloadSize,          \* what it found there
  framesSent, payloadsRcvd,   \* history: frames the client sent, payloads the server got
  written               \* history: payloads the server sent

readerVars == <<reader, prefix, payloadSize, payloadsRcvd>>
framesVars == <<toServer, toClient, readerVars, framesSent, written>>

FramesInit ==
  /\ toServer = <<>> /\ toClient = <<>>
  /\ reader = "flags"
  /\ prefix = <<>>
  /\ payloadSize = 0
  /\ framesSent = <<>> /\ payloadsRcvd = <<>> /\ written = <<>>

-----------------------------------------------------------------------------
(* The client, as RFC 6455 wants it. *)

ClientSize(n) ==
  IF n < 126 THEN <<n + 128>>
  ELSE IF n < 65536 THEN ExtendedSize(126 + 128, n, 2)
  ELSE ExtendedSize(127 + 128, n, 8)

ClientSendsFrame(flags, text, n, mask) ==
  /\ Len(framesSent) < MaxFrames
  /\ toServer' = toServer \o Bytes(<<flags>> \o ClientSize(n) \o mask) \o Payload(text, n, mask)
  /\ framesSent' = Append(framesSent, [flags |-> flags, payload |-> Payload(text, n, NoMask)])
  /\ UNCHANGED <<toClient, readerVars, written>>

-----------------------------------------------------------------------------
(* readMessageFromStream *)

\* readExactly, n bytes into prefixBuffer.
ReadPrefix(n, next) ==
  /\ Len(toServer) >= n
  /\ toServer' = SubSeq(toServer, n + 1, Len(toServer))
  /\ IF AllBytes(SubSeq(toServer, 1, n))
     THEN prefix' = prefix \o [i \in 1..n |-> toServer[i].byte] /\ reader' = next
     ELSE UNCHANGED prefix /\ reader' = "astray"
  /\ UNCHANGED <<toClient, framesSent, payloadsRcvd, written>>

\* "failed" is the Error for a frame that is not supported, "closed" the
\* ConnectionClosedError for a closing one.
AfterFlags(b) ==
  CASE b = TextFlags -> "size"
    [] b = CloseFlags -> "closed"
    [] OTHER -> "failed"

ReadFlags ==
  /\ reader = "flags"
  /\ ReadPrefix(1, AfterFlags(toServer[1].byte))
  /\ UNCHANGED payloadSize

ReadSize ==
  /\ reader = "size"
  /\ ReadPrefix(1, "length")
  /\ UNCHANGED payloadSize

\* & 0x7F
BasicSize(b) == b % 128

\* Mutant: 126 is a size like those before it.
ShortSizeWidth(basic) == IF basic <= 126 THEN 0 ELSE 8

\* How many bytes follow for the size.
SizeWidth(basic) == IF basic <= 125 THEN 0 ELSE IF basic = 126 THEN 2 ELSE 8

\* The bytes of the size, and the mask's four.
ReadLength ==
  LET basic == BasicSize(prefix[2])
      width == SizeWidth(basic)
  IN  /\ reader = "length"
      /\ ReadPrefix(width + 4, "payload")
      /\ payloadSize' = IF width = 0 THEN basic
                        ELSE FromBigEndian(SubSeq(prefix', 3, 2 + width))

\* Mutant: maskOffset is that of the short sizes.
FixedOffset == 2

\* maskOffset
MaskOffset == 2 + SizeWidth(BasicSize(prefix[2]))

\* Xor with mask[i % 4], byte by byte.
Unmask(p) ==
  [p EXCEPT !.mask = [i \in 1..4 |-> Xor(p.mask[i], prefix[MaskOffset + i])]]

\* readExactly gives the payload when payloadSize is its size.
ReadPayload ==
  /\ reader = "payload"
  /\ payloadSize > 0 => toServer # <<>>
  /\ LET p == SubSeq(toServer, 1, IF payloadSize = 0 THEN 0 ELSE 1)
     IN  IF SizeIs(p, payloadSize)
         THEN /\ payloadsRcvd' = Append(payloadsRcvd, [i \in 1..Len(p) |-> Unmask(p[i])])
              /\ toServer' = SubSeq(toServer, Len(p) + 1, Len(toServer))
              /\ reader' = "flags"
         ELSE reader' = "astray" /\ UNCHANGED <<payloadsRcvd, toServer>>
  /\ prefix' = <<>>
  /\ UNCHANGED <<toClient, payloadSize, framesSent, written>>

Read == ReadFlags \/ ReadSize \/ ReadLength \/ ReadPayload

-----------------------------------------------------------------------------
(* writeMessageToStream *)

\* Mutant: two bytes are enough for 65536.
TwoByteSize(n) ==
  IF n <= 125 THEN <<n>>
  ELSE IF n <= 65536 THEN ExtendedSize(126, n, 2)
  ELSE ExtendedSize(127, n, 8)

WriteSize(n) ==
  IF n <= 125 THEN <<n>>
  ELSE IF n <= 65535 THEN ExtendedSize(126, n, 2)
  ELSE ExtendedSize(127, n, 8)

\* Only the first part of a message is written; what looks like a JPEG is
\* binary data.
WriteMessage(part, n) ==
  /\ Len(written) < MaxWritten
  /\ LET flags == IF part \in JpegText /\ n > 7 THEN BinaryFlags ELSE TextFlags
     IN  toClient' = toClient \o Bytes(<<flags>> \o WriteSize(n)) \o Payload(part, n, NoMask)
  /\ written' = Append(written, Payload(part, n, NoMask))
  /\ UNCHANGED <<toServer, readerVars, framesSent>>

FramesNext ==
  \/ \E flags \in {TextFlags, BinaryFlags, CloseFlags}, text \in Text, n \in Size, mask \in Mask :
       ClientSendsFrame(flags, text, n, mask)
  \/ Read
  \/ \E part \in Text, n \in Size : WriteMessage(part, n)

FramesSpec == FramesInit /\ [][FramesNext]_framesVars

\* The server keeps receiving.
FramesFairSpec == FramesSpec /\ WF_framesVars(Read)

-----------------------------------------------------------------------------
(* Properties *)

\* The server gets the payloads of text frames, unmasked and in order, until
\* a frame of another kind ends the connection; it never takes a byte of a
\* payload for a header, nor the reverse.
FramesRead ==
  /\ reader # "astray"
  /\ Len(payloadsRcvd) <= Len(framesSent)
  /\ \A i \in 1..Len(payloadsRcvd) :
       framesSent[i].flags = TextFlags /\ payloadsRcvd[i] = framesSent[i].payload
  /\ reader = "closed" => framesSent[Len(payloadsRcvd) + 1].flags = CloseFlags
  /\ reader = "failed" => framesSent[Len(payloadsRcvd) + 1].flags = BinaryFlags

\* The payload of the frame without a mask at the beginning of s, as a client
\* finds it, and what follows it.
FirstFrame(s) ==
  LET first == s[2].byte
      width == IF first = 126 THEN 2 ELSE IF first = 127 THEN 8 ELSE 0
      size == IF width = 0 THEN first
              ELSE FromBigEndian([i \in 1..width |-> s[2 + i].byte])
      end == 2 + width + (IF size = 0 THEN 0 ELSE 1)
  IN  [ok |-> end <= Len(s) /\ SizeIs(SubSeq(s, 3 + width, end), size),
       payload |-> SubSeq(s, 3 + width, end),
       rest |-> SubSeq(s, end + 1, Len(s))]

\* What follows the first i frames.
Unread[i \in 0..Len(written)] ==
  IF i = 0 THEN toClient ELSE FirstFrame(Unread[i-1]).rest

\* What the server writes is, for such a client, what it was given.
FramesWritten ==
  /\ Unread[Len(written)] = <<>>
  /\ \A i \in 1..Len(written) :
       LET f == FirstFrame(Unread[i-1]) IN f.ok /\ f.payload = written[i]

\* Every text frame is read in the end, unless an earlier one is not.
AllRead ==
  \A n \in 1..MaxFrames :
    Len(framesSent) >= n ~> Len(payloadsRcvd) >= n \/ reader \in {"closed", "failed"}
=============================================================================
