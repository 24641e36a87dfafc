---------------------------- MODULE WebSocket_proofs ----------------------------
(***************************************************************************)
(* PromptRequestRead, for any requests, whatever the client sends after    *)
(* one, and any bound on the pauses; FramesRead and FramesWritten, for any *)
(* sizes of up to four bytes, texts and masks, and any number of frames.   *)
(***************************************************************************)
EXTENDS WebSocketHandshake, WebSocketFrames, SequenceLemmas

-----------------------------------------------------------------------------
(* The handshake.  As long as receive did not give up, buffer, incoming    *)
(* and unsent are one sequence that begins with the request; as its only   *)
(* delimiter is at its end, the search for it stops there.  That the first *)
(* key is found then rests on the shape of headers.                        *)

\* The i-th piece of all the client has sent or still has to send.
Total == Len(buffer) + Len(incoming) + Len(unsent)
Nth(i) ==
  IF i <= Len(buffer) THEN buffer[i]
  ELSE IF i <= Len(buffer) + Len(incoming) THEN incoming[i - Len(buffer)]
  ELSE unsent[i - (Len(buffer) + Len(incoming))]

HandshakeTyped ==
  /\ request \in Request /\ pauses \in Nat
  /\ unsent \in Seq(Piece) /\ incoming \in Seq(Piece) /\ buffer \in Seq(Piece \cup Garbage)
  /\ byte \in Piece \cup Garbage

\* Before a pause, what was read, is under way and is still to be sent begins
\* with the request.
NothingBetween ==
  pauses = 0 => Len(request) <= Total /\ \A i \in 1..Len(request) : Nth(i) = request[i]

\* The buffer ends at the first delimiter.
EndsOnce ==
  /\ \A i \in 1..Len(buffer)-1 : ~EndsAt(buffer, i)
  /\ stage = "reading" => ~EndsAt(buffer, Len(buffer))
  /\ stage \in {"read", "open", "rejected"} => EndsAt(buffer, Len(buffer))

\* accept has looked for the key.
Looked ==
  /\ stage = "open" => HasKey /\ answer = ValueOf(LineOf(buffer, Min(KeyEnds(buffer))))
  /\ stage = "rejected" => ~HasKey

HandshakeInv == HandshakeTyped /\ NothingBetween /\ EndsOnce /\ Looked

\* Sequences that agree in four places.
LEMMA FourAgree ==
  ASSUME NEW S, NEW a, NEW b, NEW i \in Int, \A j \in i-3..i : a[j] \in S /\ b[j] = a[j]
  PROVE  SubSeq(a, i-3, i) = SubSeq(b, i-3, i)
<1> DEFINE m == i-3
           c == SubSeq(a, m, i)
           d == SubSeq(b, m, i)
<1>1. m \in Int /\ m <= i /\ i-m+1 = 4 /\ \A j \in m..i : a[j] \in S /\ b[j] = a[j]
  OBVIOUS
<1>2. \A j \in m..i : a[j] \in S
  BY <1>1
<1>3. \A j \in m..i : b[j] \in S
  BY <1>1
<1>4. \A j \in 1..4 : m+j-1 \in m..i
  BY <1>1
<1> HIDE DEF m
<1>5. /\ c \in Seq(S) /\ Len(c) = IF m <= i THEN i-m+1 ELSE 0
      /\ \A j \in 1..i-m+1 : c[j] = a[m+j-1]
  BY <1>1, <1>2, SubSeqProperties
<1>6. /\ d \in Seq(S) /\ Len(d) = IF m <= i THEN i-m+1 ELSE 0
      /\ \A j \in 1..i-m+1 : d[j] = b[m+j-1]
  BY <1>1, <1>3, SubSeqProperties
<1> HIDE DEF c, d
<1>7. Len(c) = 4 /\ Len(d) = 4 /\ \A j \in 1..4 : c[j] = d[j]
  BY <1>1, <1>4, <1>5, <1>6
<1>8. c = d
  BY <1>5, <1>6, <1>7, SeqEqual
<1> QED
  BY <1>8 DEF c, d, m

\* Of a request as HTTP has it, the lines that begin with the name of the key
\* are found, and their values.
LEMMA KeysFound ==
  ASSUME NEW q \in Request, WellFormed(q)
  PROVE  /\ "get" \in Range(LineOf(q, Min(LineEnds(q)))) /\ (KeyEnds(q) # {} <=> KeysOf(q) # {})
         /\ KeysOf(q) # {} => ValueOf(LineOf(q, Min(KeyEnds(q)))) = << q[Min(KeysOf(q)) + 1] >>
<1> DEFINE N == Len(q)
<1>1. q \in Seq(Piece) /\ N \in Nat /\ N >= 4 /\ EndsAt(q, N) /\ \A i \in 1..N-1 : ~EndsAt(q, i)
  BY RequestAssumption, LenProperties DEF EndsAt
<1>2. \A i \in 1..N : q[i] \in Piece
  BY <1>1, ElementOfSeq
<1>3. ASSUME NEW m \in 1..N, NEW n \in m-1..N
      PROVE  /\ Len(SubSeq(q, m, n)) = n - m + 1
             /\ \A i \in 1..n-m+1 : SubSeq(q, m, n)[i] = q[m+i-1]
  <2>1. m \in Int /\ n \in Int /\ \A i \in m..n : q[i] \in Piece
    BY <1>1, <1>2
  <2>2. /\ Len(SubSeq(q, m, n)) = IF m <= n THEN n - m + 1 ELSE 0
        /\ \A i \in 1..n-m+1 : SubSeq(q, m, n)[i] = q[m+i-1]
    BY <2>1, SubSeqProperties
  <2> QED
    BY <1>1, <2>2
<1>4. ASSUME NEW i \in 4..N
      PROVE  EndsAt(q, i) <=> q[i-3] = "\r" /\ q[i-2] = "\n" /\ q[i-1] = "\r" /\ q[i] = "\n"
  <2> DEFINE s == SubSeq(q, i-3, i)
  <2>1. Len(s) = 4 /\ s[1] = q[i-3] /\ s[2] = q[i-2] /\ s[3] = q[i-1] /\ s[4] = q[i]
    <3>1. i-3 \in 1..N /\ i \in (i-3)-1..N /\ i - (i-3) + 1 = 4
      BY <1>1
    <3>2. Len(s) = 4 /\ \A j \in 1..4 : s[j] = q[(i-3)+j-1]
      BY <1>3, <3>1
    <3>3. (i-3)+1-1 = i-3 /\ (i-3)+2-1 = i-2 /\ (i-3)+3-1 = i-1 /\ (i-3)+4-1 = i
      BY <1>1
    <3> QED
      BY <3>2, <3>3
  <2>2. s \in Seq(Piece)
    <3>1. i-3 \in Int /\ i \in Int /\ \A j \in i-3..i : q[j] \in Piece
      BY <1>1, <1>2
    <3> QED
      BY <3>1, SubSeqProperties
  <2> HIDE DEF s
  <2>3. s = Delimiter <=> s[1] = "\r" /\ s[2] = "\n" /\ s[3] = "\r" /\ s[4] = "\n"
    BY <2>1, <2>2 DEF Delimiter
  <2> QED
    BY <2>1, <2>3 DEF EndsAt, s
<1>5. q[N] = "\n"
  BY <1>1, <1>4
\* What comes before and after each piece.
<1>6. ASSUME NEW i \in 2..N
      PROVE  /\ q[i] = "\n" => q[i-1] = "\r"
             /\ q[i] = "\r" => q[i-1] \in {"get", "value", "\n"}
             /\ q[i] = "value" => q[i-1] \in {"name:", "key:"}
             /\ q[i] \in {"name:", "key:"} => q[i-1] = "\n"
             /\ q[i] # "get"
             /\ q[i-1] = "get" => q[i] = "\r"
             /\ q[i-1] = "\r" => q[i] = "\n"
             /\ q[i-1] \in {"name:", "key:"} => q[i] = "value"
             /\ q[i-1] = "value" => q[i] = "\r"
  BY DEF WellFormed, Adjacent
<1>7. q[1] = "get" /\ q[2] = "\r" /\ q[3] = "\n"
  <2>1. q[1] = "get" /\ 2 \in 2..N /\ 3 \in 2..N /\ 2-1 = 1 /\ 3-1 = 2
    BY <1>1 DEF WellFormed
  <2>2. q[2] = "\r"
    BY <1>6, <2>1
  <2> QED
    BY <1>6, <2>1, <2>2
<1>8. \A i \in LineEnds(q) : i \in 3..N /\ q[i] = "\n"
  <2> SUFFICES ASSUME NEW i \in 1..N, q[i] = "\n" PROVE i >= 3
    BY <1>1 DEF LineEnds
  <2>1. i # 1 /\ i # 2
    BY <1>7
  <2> QED
    BY <1>1, <2>1
<1>9. 3 \in LineEnds(q) /\ Min(LineEnds(q)) = 3
  <2>1. 3 \in LineEnds(q)
    BY <1>1, <1>7 DEF LineEnds
  <2>2. \A i \in LineEnds(q) : 3 <= i
    BY <1>8
  <2>3. \A x \in LineEnds(q) : x \in Nat /\ ((\A y \in LineEnds(q) : x <= y) => x = 3)
    BY <1>8, <2>1, <2>2
  <2> QED
    BY <2>1, <2>2, <2>3 DEF Min
\* A line that ends at i begins after the line end before it.
<1>10. ASSUME NEW i \in LineEnds(q), NEW b \in LineEnds(q), b < i,
              \A j \in LineEnds(q) : j < i => j <= b
       PROVE  LineOf(q, i) = SubSeq(q, b+1, i-1)
  <2> DEFINE before == {j \in LineEnds(q) : j < i}
  <2>1. b \in before /\ \A j \in before : b >= j
    BY <1>8, <1>10
  <2>2. \A x \in before : (\A y \in before : x >= y) => x = b
    BY <1>8, <2>1
  <2>3. Max(before) = b
    BY <2>1, <2>2 DEF Max
  <2> QED
    BY <2>1, <2>3 DEF LineOf
<1>11. LineOf(q, 3) = SubSeq(q, 1, 2)
  <2>1. {j \in LineEnds(q) : j < 3} = {}
    BY <1>8
  <2> QED
    BY <2>1 DEF LineOf
<1>12. "get" \in Range(LineOf(q, 3))
  <2>1. Len(SubSeq(q, 1, 2)) = 2 /\ SubSeq(q, 1, 2)[1] = q[1]
    <3>1. 1 \in 1..N /\ 2 \in 1-1..N /\ 2 - 1 + 1 = 2 /\ 1 + 1 - 1 = 1
      BY <1>1
    <3> QED
      BY <1>3, <3>1
  <2>2. 1 \in DOMAIN SubSeq(q, 1, 2)
    BY <2>1
  <2> QED
    BY <1>7, <1>11, <2>1, <2>2 DEF Range
\* The lines after the first are empty, or begin with a name.
<1>13. ASSUME NEW i \in LineEnds(q), i # 3
       PROVE  /\ q[i-1] = "\r" /\ i \in 5..N
              /\ \/ q[i-2] = "\n" /\ Len(LineOf(q, i)) = 1 /\ LineOf(q, i)[1] = "\r" /\ i = N
                 \/ /\ q[i-2] = "value" /\ q[i-3] \in {"name:", "key:"} /\ i-3 \in 4..N
                    /\ Len(LineOf(q, i)) = 3
                    /\ LineOf(q, i)[1] = q[i-3] /\ LineOf(q, i)[2] = q[i-2]
  <2>1. i \in 4..N /\ q[i] = "\n"
    BY <1>8, <1>13
  <2>2. i \in 2..N /\ i-1 \in 2..N /\ i-2 \in 2..N /\ (i-1)-1 = i-2 /\ (i-2)-1 = i-3
    BY <1>1, <2>1
  <2>3. q[i-1] = "\r"
    BY <1>6, <2>1, <2>2
  <2>4. q[i-2] \in {"value", "\n"}
    <3>1. q[i-2] \in {"get", "value", "\n"}
      BY <1>6, <2>2, <2>3
    <3>2. q[i-2] # "get"
      BY <1>6, <2>2
    <3> QED
      BY <3>1, <3>2
  <2>5. i # 4
    BY <1>7, <2>4
  <2>6. CASE q[i-2] = "\n"
    <3>1. q[i-3] = "\r"
      BY <1>6, <2>2, <2>6
    <3>2. i = N
      <4>1. EndsAt(q, i)
        BY <1>4, <2>1, <2>3, <2>6, <3>1
      <4> QED
        BY <1>1, <2>1, <4>1
    <3>3. LineOf(q, i) = SubSeq(q, (i-2)+1, i-1)
      <4>1. i-2 \in LineEnds(q) /\ i-2 < i
        BY <1>1, <2>2, <2>6 DEF LineEnds
      <4>2. \A j \in LineEnds(q) : j < i => j <= i-2
        <5> SUFFICES ASSUME NEW j \in LineEnds(q), j < i PROVE j <= i-2
          OBVIOUS
        <5>1. j # i-1 /\ j \in Nat
          BY <1>8, <2>3
        <5> QED
          BY <2>1, <5>1
      <4> QED
        BY <1>10, <4>1, <4>2
    <3>4. Len(LineOf(q, i)) = 1 /\ LineOf(q, i)[1] = q[i-1]
      <4>1. i \in Int /\ 4 <= i /\ i <= N /\ N \in Nat
        BY <1>1, <2>1
      <4>2. (i-2)+1 = i-1 /\ i-1 \in 1..N /\ i-1 \in (i-1)-1..N
        BY <4>1
      <4>3. (i-1) - (i-1) + 1 = 1 /\ (i-1)+1-1 = i-1
        BY <4>1
      <4> QED
        BY <1>3, <3>3, <4>2, <4>3
    <3> QED
      BY <2>1, <2>3, <2>5, <2>6, <3>2, <3>4
  <2>7. CASE q[i-2] = "value"
    <3>1. q[i-3] \in {"name:", "key:"}
      BY <1>6, <2>2, <2>7
    <3>2. i-3 \in 4..N /\ i-4 \in 1..N /\ (i-3)-1 = i-4
      <4>1. i-3 # 1 /\ i-3 # 2 /\ i-3 # 3
        BY <1>7, <3>1
      <4> QED
        BY <1>1, <2>1, <4>1
    <3>3. q[i-4] = "\n"
      <4>1. i-3 \in 2..N
        BY <1>1, <3>2
      <4> QED
        BY <1>6, <3>1, <3>2, <4>1
    <3>4. LineOf(q, i) = SubSeq(q, (i-4)+1, i-1)
      <4>1. i-4 \in LineEnds(q) /\ i-4 < i
        BY <1>1, <2>1, <3>2, <3>3 DEF LineEnds
      <4>2. \A j \in LineEnds(q) : j < i => j <= i-4
        <5> SUFFICES ASSUME NEW j \in LineEnds(q), j < i PROVE j <= i-4
          OBVIOUS
        <5>1. j # i-1 /\ j # i-2 /\ j # i-3 /\ j \in Nat
          BY <1>8, <2>3, <2>7, <3>1
        <5> QED
          BY <2>1, <5>1
      <4> QED
        BY <1>10, <4>1, <4>2
    <3>5. Len(LineOf(q, i)) = 3 /\ LineOf(q, i)[1] = q[i-3] /\ LineOf(q, i)[2] = q[i-2]
      <4>1. i \in Int /\ i <= N /\ N \in Nat /\ i-3 \in 4..N
        BY <1>1, <2>1, <3>2
      <4>2. (i-4)+1 = i-3 /\ i-3 \in 1..N /\ i-1 \in (i-3)-1..N
        BY <4>1
      <4>3. (i-1) - (i-3) + 1 = 3 /\ (i-3)+1-1 = i-3 /\ (i-3)+2-1 = i-2
        BY <4>1
      <4>4. /\ Len(SubSeq(q, i-3, i-1)) = 3
            /\ \A j \in 1..3 : SubSeq(q, i-3, i-1)[j] = q[(i-3)+j-1]
        BY <1>3, <4>2, <4>3
      <4> QED
        BY <3>4, <4>2, <4>3, <4>4
    <3> QED
      BY <2>1, <2>3, <2>5, <2>7, <3>1, <3>2, <3>5
  <2> QED
    BY <2>4, <2>6, <2>7
<1>14. ASSUME NEW i \in LineEnds(q), i # 3, q[i-2] = "value" PROVE i \in HeaderEnds(q)
  <2> SUFFICES ASSUME NEW j \in LineEnds(q), 3 < j, j <= i PROVE IsHeader(LineOf(q, j))
    BY <1>9, <1>14 DEF HeaderEnds
  <2>1. q[j-2] = "value"
    <3> SUFFICES ASSUME q[j-2] = "\n" PROVE FALSE
      BY <1>13
    <3>1. j = N
      BY <1>13
    <3>2. i = N
      BY <1>8, <3>1
    <3> QED
      BY <1>14, <3>1, <3>2
  <2>2. Len(LineOf(q, j)) = 3 /\ LineOf(q, j)[1] \in {"name:", "key:"}
    BY <1>13, <2>1
  <2> QED
    BY <2>2 DEF IsHeader
<1>15. ASSUME NEW i \in HeaderEnds(q) PROVE i \in LineEnds(q) /\ i # 3 /\ q[i-2] = "value"
  <2>1. i \in LineEnds(q) /\ i # 3
    BY <1>9 DEF HeaderEnds
  <2>2. IsHeader(LineOf(q, i))
    BY <1>8, <1>9, <2>1 DEF HeaderEnds
  <2>3. CASE q[i-2] = "\n"
    <3>1. Len(LineOf(q, i)) = 1 /\ LineOf(q, i)[1] = "\r"
      BY <1>13, <2>1, <2>3
    <3> QED
      BY <2>2, <3>1 DEF IsHeader
  <2> QED
    BY <1>13, <2>1, <2>3
\* So keys and the lines they are found in belong together.
<1>16. ASSUME NEW i \in KeyEnds(q) PROVE i-3 \in KeysOf(q) /\ i \in 5..N
  <2>1. i \in HeaderEnds(q) /\ LineOf(q, i)[1] = "key:"
    BY DEF KeyEnds
  <2>2. i \in LineEnds(q) /\ i # 3 /\ q[i-2] = "value"
    BY <1>15, <2>1
  <2>3. q[i-3] = "key:" /\ i-3 \in 4..N /\ i \in 5..N
    BY <1>13, <2>1, <2>2
  <2> QED
    BY <1>1, <2>3 DEF KeysOf
<1>17. ASSUME NEW k \in KeysOf(q)
       PROVE  /\ k \in 4..N /\ k+3 \in KeyEnds(q)
              /\ ValueOf(LineOf(q, k+3)) = << q[k+1] >>
  <2>1. k \in 1..N /\ q[k] = "key:"
    BY DEF KeysOf
  <2>2. k # 1 /\ k # 2 /\ k # 3 /\ k # N
    BY <1>5, <1>7, <2>1
  <2>3. k+1 \in 2..N /\ (k+1)-1 = k
    BY <1>1, <2>1, <2>2
  <2>4. q[k+1] = "value"
    BY <1>6, <2>1, <2>3
  <2>5. k+2 \in 2..N /\ (k+2)-1 = k+1
    <3>1. k+1 # N
      BY <1>5, <2>4
    <3> QED
      BY <1>1, <2>1, <2>3, <3>1
  <2>6. q[k+2] = "\r"
    BY <1>6, <2>4, <2>5
  <2>7. k+3 \in 2..N /\ (k+3)-1 = k+2
    <3>1. k+2 # N
      BY <1>5, <2>6
    <3> QED
      BY <1>1, <2>1, <2>5, <3>1
  <2>8. q[k+3] = "\n"
    BY <1>6, <2>6, <2>7
  <2>9. k+3 \in LineEnds(q) /\ k+3 # 3 /\ (k+3)-2 = k+1 /\ (k+3)-3 = k
    BY <1>1, <2>1, <2>7, <2>8 DEF LineEnds
  <2>10. k+3 \in HeaderEnds(q)
    BY <1>14, <2>4, <2>9
  <2> DEFINE line == LineOf(q, k+3)
  <2>11. Len(line) = 3 /\ line[1] = "key:" /\ line[2] = q[k+1]
    <3>1. q[(k+3)-2] = "value"
      BY <2>4, <2>9
    <3> QED
      BY <1>13, <2>1, <2>9, <3>1
  <2> HIDE DEF line
  <2>12. ValueOf(line) = << q[k+1] >>
    <3>1. /\ 2 \in Int /\ 3-1 \in Int /\ \A i \in 2..3-1 : line[i] \in {q[k+1]}
      BY <2>11
    <3>2. /\ SubSeq(line, 2, 3-1) \in Seq({q[k+1]})
          /\ Len(SubSeq(line, 2, 3-1)) = 1 /\ SubSeq(line, 2, 3-1)[1] = line[2]
      <4>1. /\ SubSeq(line, 2, 3-1) \in Seq({q[k+1]})
            /\ Len(SubSeq(line, 2, 3-1)) = IF 2 <= 3-1 THEN (3-1)-2+1 ELSE 0
            /\ \A i \in 1..(3-1)-2+1 : SubSeq(line, 2, 3-1)[i] = line[2+i-1]
        BY <3>1, SubSeqProperties
      <4> QED
        BY <4>1
    <3> QED
      <4>1. ValueOf(line) = SubSeq(line, 2, 3-1)
        BY <2>11 DEF ValueOf
      <4> DEFINE v == SubSeq(line, 2, 3-1)
      <4>2. v \in Seq({q[k+1]}) /\ Len(v) = 1 /\ v[1] = q[k+1]
        BY <2>11, <3>2
      <4> HIDE DEF v
      <4>3. v = << q[k+1] >>
        BY <4>2
      <4> QED
        BY <4>1, <4>3 DEF v
  <2>13. k \in 4..N
    BY <2>1, <2>2
  <2> QED
    BY <2>10, <2>11, <2>12, <2>13 DEF KeyEnds, line
<1>18. KeyEnds(q) # {} <=> KeysOf(q) # {}
  BY <1>16, <1>17
<1>19. ASSUME KeysOf(q) # {} PROVE Min(KeyEnds(q)) = Min(KeysOf(q)) + 3 /\ Min(KeysOf(q)) \in KeysOf(q)
  <2>1. KeysOf(q) \in SUBSET Nat
    BY <1>1 DEF KeysOf
  <2>2. PICK k \in KeysOf(q) : \A j \in KeysOf(q) : k <= j
    BY <1>19, <2>1, LeastElement
  <2>3. Min(KeysOf(q)) = k
    <3>1. \A x \in KeysOf(q) : (\A y \in KeysOf(q) : x <= y) => x = k
      BY <2>1, <2>2
    <3> QED
      BY <2>2, <3>1 DEF Min
  <2>4. Min(KeyEnds(q)) = k + 3
    <3>1. k + 3 \in KeyEnds(q) /\ k \in Nat
      BY <1>17, <2>1
    <3>2. \A i \in KeyEnds(q) : i \in Nat /\ k + 3 <= i
      <4> SUFFICES ASSUME NEW i \in KeyEnds(q) PROVE i \in Nat /\ k + 3 <= i
        OBVIOUS
      <4>1. i \in Nat /\ k <= i - 3
        BY <1>16, <2>2
      <4> QED
        BY <3>1, <4>1
    <3>3. \A x \in KeyEnds(q) : (\A y \in KeyEnds(q) : x <= y) => x = k + 3
      BY <3>1, <3>2
    <3> QED
      BY <3>1, <3>2, <3>3 DEF Min
  <2> QED
    BY <2>3, <2>4
<1> QED
  BY <1>9, <1>12, <1>17, <1>18, <1>19

\* A request that comes without a pause is read exactly, and its key answered.
THEOREM PromptRequestsAnswered == HandshakeSpec => []PromptRequestRead
<1>1. HandshakeInit => HandshakeInv
  <2> SUFFICES ASSUME HandshakeInit PROVE HandshakeInv
    OBVIOUS
  <2>1. PICK f \in Following : unsent = request \o f
    BY DEF HandshakeInit
  <2>2. /\ request \in Request /\ request \in Seq(Piece) /\ f \in Seq(Piece)
        /\ incoming = <<>> /\ buffer = <<>> /\ byte \in Garbage /\ pauses = 0 /\ stage = "reading"
    BY <2>1, RequestAssumption DEF HandshakeInit
  <2>3. /\ unsent \in Seq(Piece) /\ Len(unsent) = Len(request) + Len(f)
        /\ \A i \in 1..Len(request) + Len(f) :
             unsent[i] = IF i <= Len(request) THEN request[i] ELSE f[i - Len(request)]
    BY <2>1, <2>2, ConcatProperties
  <2>4. Len(request) \in Nat /\ Len(f) \in Nat
    BY <2>2, LenProperties
  <2>5. Len(buffer) = 0 /\ Len(incoming) = 0
    BY <2>2
  <2>6. NothingBetween
    <3>1. Total = Len(request) + Len(f)
      BY <2>3, <2>4, <2>5 DEF Total
    <3>2. ASSUME NEW i \in 1..Len(request) PROVE Nth(i) = request[i]
      <4>1. ~(i <= 0) /\ ~(i <= 0 + 0) /\ i - (0 + 0) = i /\ i \in 1..Len(request) + Len(f) /\ i <= Len(request)
        BY <2>4
      <4> QED
        BY <2>3, <2>5, <4>1 DEF Nth
    <3> QED
      BY <2>4, <3>1, <3>2 DEF NothingBetween
  <2>7. HandshakeTyped
    BY <2>2, <2>3, EmptySeq DEF HandshakeTyped
  <2>8. EndsOnce /\ Looked
    BY <2>2, <2>5 DEF EndsOnce, Looked, EndsAt
  <2> QED
    BY <2>6, <2>7, <2>8 DEF HandshakeInv
<1>2. HandshakeInv /\ [HandshakeNext]_handshakeVars => HandshakeInv'
  <2> SUFFICES ASSUME HandshakeInv, [HandshakeNext]_handshakeVars PROVE HandshakeInv'
    OBVIOUS
  <2>1. /\ request \in Request /\ pauses \in Nat
        /\ unsent \in Seq(Piece) /\ incoming \in Seq(Piece) /\ buffer \in Seq(Piece \cup Garbage)
        /\ byte \in Piece \cup Garbage
        /\ Len(buffer) \in Nat /\ Len(incoming) \in Nat /\ Len(unsent) \in Nat
        /\ Len(request) \in Nat
    <3>1. HandshakeTyped
      BY DEF HandshakeInv
    <3> QED
      BY <3>1, LenProperties, RequestAssumption DEF HandshakeTyped
  <2>2. NothingBetween /\ EndsOnce /\ Looked
    BY DEF HandshakeInv
  \* Pieces go from one place to the next.
  <2>3. ASSUME Total' = Total, \A i \in 1..Total : Nth(i)' = Nth(i), UNCHANGED <<request, pauses>>
        PROVE  NothingBetween'
    <3>1. Total \in Nat
      BY <2>1 DEF Total
    <3>2. \A i \in 1..Len(request) : Len(request) <= Total => Nth(i)' = Nth(i)
      BY <2>1, <2>3, <3>1
    <3> QED
      BY <2>2, <2>3, <3>2 DEF NothingBetween
  <2>4. CASE ClientSendsRequest
    <3>1. /\ unsent # <<>> /\ incoming' = Append(incoming, Head(unsent)) /\ unsent' = Tail(unsent)
          /\ UNCHANGED <<request, buffer, byte, pauses, stage, answer>>
      BY <2>4 DEF ClientSendsRequest
    <3>2. /\ Head(unsent) \in Piece /\ Head(unsent) = unsent[1] /\ unsent' \in Seq(Piece)
          /\ Len(unsent') = Len(unsent) - 1 /\ Len(unsent) > 0
          /\ \A i \in 1..Len(unsent)-1 : unsent'[i] = unsent[i+1]
      BY <2>1, <3>1, HeadTailProperties, EmptySeq
    <3>3. /\ incoming' \in Seq(Piece) /\ Len(incoming') = Len(incoming) + 1
          /\ \A i \in 1..Len(incoming) : incoming'[i] = incoming[i]
          /\ incoming'[Len(incoming)+1] = unsent[1]
      BY <2>1, <3>1, <3>2, AppendProperties
    <3>4. Total' = Total
      BY <2>1, <3>1, <3>2, <3>3 DEF Total
    <3>5. ASSUME NEW i \in 1..Total PROVE Nth(i)' = Nth(i)
      <4> DEFINE b == Len(buffer)
                 n == Len(incoming)
      <4>1. b \in Nat /\ n \in Nat /\ i \in Nat /\ i >= 1 /\ i <= b + n + Len(unsent)
        BY <2>1 DEF Total
      <4>2. Nth(i) = IF i <= b THEN buffer[i] ELSE IF i <= b + n THEN incoming[i - b]
                                                   ELSE unsent[i - (b + n)]
        BY DEF Nth
      <4>3. Nth(i)' = IF i <= b THEN buffer[i] ELSE IF i <= b + (n + 1) THEN incoming'[i - b]
                                                    ELSE unsent'[i - (b + (n + 1))]
        BY <3>1, <3>3 DEF Nth
      <4> HIDE DEF b
      <4>4. CASE i <= b
        BY <4>2, <4>3, <4>4
      <4>5. CASE ~(i <= b) /\ i <= b + n
        <5>1. i - b \in 1..n /\ i <= b + (n + 1)
          BY <4>1, <4>5
        <5> QED
          BY <3>3, <4>2, <4>3, <4>5, <5>1
      <4>6. CASE i = b + n + 1
        <5>1. i - b = n + 1 /\ i - (b + n) = 1 /\ ~(i <= b) /\ ~(i <= b + n) /\ i <= b + (n + 1)
          BY <4>1, <4>6
        <5> QED
          BY <3>3, <4>2, <4>3, <5>1
      <4>7. CASE i > b + n + 1
        <5>1. /\ i - (b + (n + 1)) \in 1..Len(unsent)-1 /\ i - (b + (n + 1)) + 1 = i - (b + n)
              /\ ~(i <= b) /\ ~(i <= b + n) /\ ~(i <= b + (n + 1))
          BY <2>1, <4>1, <4>7
        <5>2. unsent'[i - (b + (n + 1))] = unsent[i - (b + n)]
          BY <3>2, <5>1
        <5> QED
          BY <4>2, <4>3, <5>1, <5>2
      <4> QED
        BY <4>1, <4>4, <4>5, <4>6, <4>7
    <3>6. NothingBetween'
      BY <2>3, <3>1, <3>4, <3>5
    <3>7. HandshakeTyped'
      BY <2>1, <3>1, <3>2, <3>3 DEF HandshakeTyped
    <3>8. EndsOnce' /\ Looked'
      BY <2>2, <3>1 DEF EndsOnce, Looked, HasKey
    <3> QED
      BY <3>6, <3>7, <3>8 DEF HandshakeInv
  \* A piece is appended, and the end of what is there is looked at.
  <2>5. ASSUME NEW b \in Piece \cup Garbage, AppendByte(b), stage = "reading"
        PROVE  /\ buffer' \in Seq(Piece \cup Garbage) /\ Len(buffer') = Len(buffer) + 1
               /\ \A i \in 1..Len(buffer) : buffer'[i] = buffer[i]
               /\ buffer'[Len(buffer)+1] = b
               /\ EndsOnce' /\ Looked'
    <3>1. buffer' = Append(buffer, b) /\ stage' = IF Found(buffer') THEN "read" ELSE "reading"
      BY <2>5 DEF AppendByte
    <3>2. /\ buffer' \in Seq(Piece \cup Garbage) /\ Len(buffer') = Len(buffer) + 1
          /\ \A i \in 1..Len(buffer) : buffer'[i] = buffer[i]
          /\ buffer'[Len(buffer)+1] = b
      BY <2>1, <2>5, <3>1, AppendProperties
    <3>3. ASSUME NEW i \in 1..Len(buffer) PROVE ~EndsAt(buffer', i)
      <4>1. ~EndsAt(buffer, i)
        <5>1. i \in 1..Len(buffer)-1 \/ i = Len(buffer)
          BY <2>1
        <5> QED
          BY <2>2, <2>5, <5>1 DEF EndsOnce
      <4>2. i >= 4 => SubSeq(buffer', i-3, i) = SubSeq(buffer, i-3, i)
        <5> SUFFICES ASSUME i >= 4 PROVE SubSeq(buffer', i-3, i) = SubSeq(buffer, i-3, i)
          OBVIOUS
        <5>1. i-3 \in 1..Len(buffer) /\ i \in 1..Len(buffer)
          BY <2>1
        <5>2. <<b>> \in Seq(Piece \cup Garbage) /\ buffer' = buffer \o <<b>>
          BY <2>1, <2>5, <3>1
        <5> QED
          BY <2>1, <5>1, <5>2, SubSeqOfConcat1
      <4> QED
        BY <4>1, <4>2 DEF EndsAt
    <3>4. Found(buffer') <=> EndsAt(buffer', Len(buffer'))
      <4>1. /\ Len(buffer')-1 = Len(buffer) /\ Len(buffer') \in Nat
            /\ \A i \in Len(buffer')-1..Len(buffer') : i = Len(buffer) \/ i = Len(buffer')
            /\ Len(buffer') \in Len(buffer')-1..Len(buffer')
        BY <2>1, <3>2
      <4>2. ~EndsAt(buffer', Len(buffer))
        <5>1. CASE Len(buffer) = 0
          BY <5>1 DEF EndsAt
        <5>2. CASE Len(buffer) # 0
          BY <2>1, <3>3, <5>2
        <5> QED
          BY <5>1, <5>2
      <4> QED
        BY <4>1, <4>2 DEF Found
    <3>5. EndsOnce'
      <4>1. \A i \in 1..Len(buffer')-1 : ~EndsAt(buffer', i)
        BY <2>1, <3>2, <3>3
      <4> QED
        BY <3>1, <3>4, <4>1 DEF EndsOnce
    <3>6. Looked'
      BY <3>1 DEF Looked
    <3> QED
      BY <3>2, <3>5, <3>6
  <2>6. CASE ReadByte
    <3>1. /\ incoming # <<>> /\ stage = "reading" /\ AppendByte(Head(incoming))
          /\ incoming' = Tail(incoming) /\ byte' = Head(incoming)
          /\ UNCHANGED <<request, unsent, pauses>>
      BY <2>6 DEF ReadByte, AppendByte
    <3>2. /\ Head(incoming) \in Piece /\ Head(incoming) = incoming[1] /\ incoming' \in Seq(Piece)
          /\ Len(incoming') = Len(incoming) - 1 /\ Len(incoming) > 0
          /\ \A i \in 1..Len(incoming)-1 : incoming'[i] = incoming[i+1]
      BY <2>1, <3>1, HeadTailProperties, EmptySeq
    <3>3. /\ buffer' \in Seq(Piece \cup Garbage) /\ Len(buffer') = Len(buffer) + 1
          /\ \A i \in 1..Len(buffer) : buffer'[i] = buffer[i]
          /\ buffer'[Len(buffer)+1] = incoming[1]
          /\ EndsOnce' /\ Looked'
      BY <2>5, <3>1, <3>2
    <3>4. Total' = Total
      BY <2>1, <3>1, <3>2, <3>3 DEF Total
    <3>5. ASSUME NEW i \in 1..Total PROVE Nth(i)' = Nth(i)
      <4> DEFINE b == Len(buffer)
                 n == Len(incoming)
      <4>1. b \in Nat /\ n \in Nat /\ n > 0 /\ i \in Nat /\ i >= 1 /\ i <= b + n + Len(unsent)
        BY <2>1, <3>2 DEF Total
      <4>2. Nth(i) = IF i <= b THEN buffer[i] ELSE IF i <= b + n THEN incoming[i - b]
                                                   ELSE unsent[i - (b + n)]
        BY DEF Nth
      <4>3. Nth(i)' = IF i <= b + 1 THEN buffer'[i]
                      ELSE IF i <= (b + 1) + (n - 1) THEN incoming'[i - (b + 1)]
                                                     ELSE unsent[i - ((b + 1) + (n - 1))]
        BY <3>1, <3>2, <3>3 DEF Nth
      <4>0. (b + 1) + (n - 1) = b + n
        BY <4>1
      <4> HIDE DEF b, n
      <4>4. CASE i <= b
        <5>1. i <= b + 1 /\ i \in 1..b
          BY <4>1, <4>4
        <5> QED
          BY <3>3, <4>2, <4>3, <5>1 DEF b
      <4>5. CASE i = b + 1
        <5>1. i <= b + 1 /\ ~(i <= b) /\ i <= b + n /\ i - b = 1
          BY <4>1, <4>5
        <5> QED
          BY <3>3, <4>2, <4>3, <4>5, <5>1 DEF b
      <4>6. CASE i > b + 1 /\ i <= b + n
        <5>1. i - (b + 1) \in 1..n-1 /\ (i - (b + 1)) + 1 = i - b /\ ~(i <= b) /\ ~(i <= b + 1)
          BY <4>1, <4>6
        <5>2. incoming'[i - (b + 1)] = incoming[i - b]
          BY <3>2, <5>1 DEF n
        <5> QED
          BY <4>0, <4>2, <4>3, <4>6, <5>1, <5>2
      <4>7. CASE i > b + n
        <5>1. ~(i <= b) /\ ~(i <= b + 1) /\ ~(i <= b + n)
          BY <4>1, <4>7
        <5> QED
          BY <4>0, <4>2, <4>3, <5>1
      <4> QED
        BY <4>1, <4>4, <4>5, <4>6, <4>7
    <3>6. NothingBetween'
      BY <2>3, <3>1, <3>4, <3>5
    <3>7. HandshakeTyped'
      BY <2>1, <3>1, <3>2, <3>3 DEF HandshakeTyped
    <3> QED
      BY <3>3, <3>6, <3>7 DEF HandshakeInv
  <2>7. CASE ReadTimeout
    <3>1. /\ stage = "reading" /\ AppendByte(byte) /\ byte' = byte
          /\ pauses' = pauses + 1 /\ UNCHANGED <<request, unsent, incoming>>
      BY <2>7 DEF ReadTimeout, AppendByte, OldByte
    <3>2. buffer' \in Seq(Piece \cup Garbage) /\ EndsOnce' /\ Looked'
      BY <2>1, <2>5, <3>1
    <3>3. pauses' # 0 /\ pauses' \in Nat
      BY <2>1, <3>1
    <3> QED
      BY <2>1, <3>1, <3>2, <3>3 DEF HandshakeInv, HandshakeTyped, NothingBetween
  <2>8. ASSUME UNCHANGED <<request, unsent, incoming, buffer, byte, pauses>>, EndsOnce', Looked'
        PROVE  HandshakeInv'
    <3>1. Total' = Total /\ \A i \in 1..Total : Nth(i)' = Nth(i)
      BY <2>8 DEF Total, Nth
    <3>2. NothingBetween'
      BY <2>3, <2>8, <3>1
    <3>3. HandshakeTyped'
      BY <2>1, <2>8 DEF HandshakeTyped
    <3> QED
      BY <2>8, <3>2, <3>3 DEF HandshakeInv
  <2>9. CASE Respond
    <3>1. /\ stage = "read" /\ HasKey /\ stage' \in {"open", "closed"}
          /\ answer' = ValueOf(LineOf(buffer, Min(KeyEnds(buffer))))
          /\ UNCHANGED <<request, unsent, incoming, buffer, byte, pauses>>
      BY <2>9 DEF Respond
    <3>2. EndsOnce'
      BY <2>2, <3>1 DEF EndsOnce
    <3>3. Looked'
      BY <3>1 DEF Looked, HasKey
    <3> QED
      BY <2>8, <3>1, <3>2, <3>3
  <2>10. CASE Reject
    <3>1. /\ stage = "read" /\ ~HasKey /\ stage' = "rejected"
          /\ UNCHANGED <<request, unsent, incoming, buffer, byte, pauses, answer>>
      BY <2>10 DEF Reject
    <3>2. EndsOnce' /\ Looked'
      BY <2>2, <3>1 DEF EndsOnce, Looked, HasKey
    <3> QED
      BY <2>8, <3>1, <3>2
  <2>11. CASE FailClosed \/ FailInterrupted
    <3>1. /\ stage' \in {"closed", "interrupted"}
          /\ UNCHANGED <<request, unsent, incoming, buffer, byte, pauses, answer>>
      BY <2>11 DEF FailClosed, FailInterrupted
    <3>2. EndsOnce' /\ Looked'
      BY <2>2, <3>1 DEF EndsOnce, Looked
    <3> QED
      BY <2>8, <3>1, <3>2
  <2>12. CASE ClientLeaves \/ StopAggregator \/ UNCHANGED handshakeVars
    <3>1. UNCHANGED <<request, unsent, incoming, buffer, byte, pauses, stage, answer>>
      BY <2>12 DEF ClientLeaves, StopAggregator, handshakeVars
    <3>2. EndsOnce' /\ Looked'
      BY <2>2, <3>1 DEF EndsOnce, Looked, HasKey
    <3> QED
      BY <2>8, <3>1, <3>2
  <2> QED
    BY <2>4, <2>6, <2>7, <2>9, <2>10, <2>11, <2>12 DEF HandshakeNext, Accept
<1>3. HandshakeInv => PromptRequestRead
  <2> SUFFICES ASSUME HandshakeInv, pauses = 0, stage \in {"read", "open", "rejected"}
               PROVE  buffer = request /\ KeyAnswered
    BY DEF PromptRequestRead, ReadsWhatWasSent, KeyAnswered
  <2> DEFINE N == Len(request)
             b == Len(buffer)
  <2>1. /\ request \in Request /\ request \in Seq(Piece) /\ buffer \in Seq(Piece \cup Garbage)
        /\ N \in Nat /\ b \in Nat /\ Len(incoming) \in Nat /\ Len(unsent) \in Nat
    BY RequestAssumption, LenProperties DEF HandshakeInv, HandshakeTyped
  <2>2. N <= Total /\ \A i \in 1..N : Nth(i) = request[i]
    BY DEF HandshakeInv, NothingBetween
  <2>3. \A i \in 1..N : i <= b => buffer[i] = request[i]
    BY <2>2 DEF Nth
  <2>4. /\ EndsAt(buffer, b) /\ \A i \in 1..b-1 : ~EndsAt(buffer, i)
        /\ EndsAt(request, N) /\ \A i \in 1..N-1 : ~EndsAt(request, i)
    BY <2>1, RequestAssumption DEF HandshakeInv, EndsOnce
  <2>5. ASSUME NEW i \in 1..N, i <= b PROVE EndsAt(buffer, i) <=> EndsAt(request, i)
    <3> SUFFICES ASSUME i >= 4 PROVE SubSeq(buffer, i-3, i) = SubSeq(request, i-3, i)
      BY DEF EndsAt
    <3>1. \A j \in i-3..i : j \in 1..N /\ j <= b
      BY <2>1, <2>5
    <3>2. \A j \in 1..N : request[j] \in Piece
      BY <2>1, ElementOfSeq
    <3>3. \A j \in i-3..i : buffer[j] \in Piece /\ request[j] = buffer[j]
      BY <2>3, <3>1, <3>2
    <3>4. i \in Int
      BY <2>1
    <3> QED
      BY <3>3, <3>4, FourAgree
  <2>6. b = N
    <3>1. b >= 4 /\ N >= 4
      BY <2>4 DEF EndsAt
    <3>2. CASE b < N
      <4>1. b \in 1..N /\ b \in 1..N-1 /\ b <= b
        BY <2>1, <3>1, <3>2
      <4> QED
        BY <2>4, <2>5, <4>1
    <3>3. CASE N < b
      <4>1. N \in 1..N /\ N \in 1..b-1 /\ N <= b
        BY <2>1, <3>1, <3>3
      <4> QED
        BY <2>4, <2>5, <4>1
    <3> QED
      BY <2>1, <3>2, <3>3
  <2>7. buffer = request
    <3>1. \A i \in 1..b : buffer[i] = request[i]
      BY <2>1, <2>3, <2>6
    <3>2. \A i \in 1..b : buffer[i] \in Piece
      BY <2>1, <2>6, <3>1, ElementOfSeq
    <3> QED
      BY <2>1, <2>6, <3>1, SeqEqual
  <2>8. KeyAnswered
    <3> SUFFICES ASSUME WellFormed(request)
                 PROVE  /\ stage = "open" =>
                             KeysOf(request) # {} /\ answer = << request[Min(KeysOf(request)) + 1] >>
                        /\ stage = "rejected" => KeysOf(request) = {}
      BY DEF KeyAnswered
    <3>1. /\ "get" \in Range(LineOf(request, Min(LineEnds(request))))
          /\ (KeyEnds(request) # {} <=> KeysOf(request) # {})
          /\ KeysOf(request) # {} =>
               ValueOf(LineOf(request, Min(KeyEnds(request)))) = << request[Min(KeysOf(request)) + 1] >>
      BY <2>1, KeysFound
    <3>2. HasKey <=> KeysOf(request) # {}
      BY <2>7, <3>1 DEF HasKey
    <3>3. stage = "open" => HasKey /\ answer = ValueOf(LineOf(request, Min(KeyEnds(request))))
      BY <2>7 DEF HandshakeInv, Looked
    <3>4. stage = "rejected" => ~HasKey
      BY DEF HandshakeInv, Looked
    <3> QED
      BY <3>1, <3>2, <3>3, <3>4
  <2> QED
    BY <2>7, <2>8
<1> QED
  BY <1>1, <1>2, <1>3, PTL DEF HandshakeSpec

-----------------------------------------------------------------------------
(* Headers of frames.  A stream is a sequence of elements: bytes, and      *)
(* blocks, the payloads.  What the code writes of a size is read as it     *)
(* was, and a header has everything where the reader looks for it.         *)

Flags == {TextFlags, BinaryFlags, CloseFlags}
Block == [text : Text, size : Nat, mask : [1..4 -> Int]]
Octet == Int
Element == [byte : Octet] \cup Block

\* The size, in so many bytes, of a payload.
Width(n) == IF n <= 125 THEN 0 ELSE IF n <= 65535 THEN 2 ELSE 8
Fits(n, w) == n < 65536 \/ w = 8
LongWidth == {2, 8}

\* What the client sends before a payload.
Header(flags, n, mask) == <<flags>> \o ClientSize(n) \o mask

\* A number is the sum of its bytes.
LEMMA BytesOfNumber ==
  ASSUME NEW n, Is32Bit(n)
  PROVE  /\ n = ByteOf(n, 0) + 256 * ByteOf(n, 1) + 65536 * ByteOf(n, 2) + 16777216 * ByteOf(n, 3)
         /\ n < 65536 => n = ByteOf(n, 0) + 256 * ByteOf(n, 1)
         /\ \A k \in Nat : ByteOf(n, k) \in Int
<1> DEFINE a == n \div 256
           b == n \div 65536
           c == n \div 16777216
           x == n % 256
           y == a % 256
           z == b % 256
<1>0. n \in Nat /\ b < 65536
  BY DEF Is32Bit
<1>1. /\ n = 256 * a + x /\ a \in Nat /\ x \in Nat /\ x < 256
      /\ a = 256 * b + y /\ b \in Nat /\ y \in Nat
      /\ b = 256 * c + z /\ c \in Nat /\ z \in Nat
  <2>1. n = 256 * a + x /\ a \in Nat /\ x \in Nat /\ x < 256
    BY <1>0
  <2>2. b = a \div 256
    BY <1>0
  <2>3. a = 256 * b + y /\ b \in Nat /\ y \in Nat
    <3> HIDE DEF a, b
    <3> QED
      BY <2>1, <2>2
  <2>4. c = b \div 256
    BY <1>0
  <2>5. b = 256 * c + z /\ c \in Nat /\ z \in Nat
    <3> HIDE DEF b, c
    <3> QED
      BY <2>3, <2>4
  <2> QED
    BY <2>1, <2>3, <2>5
<1>2. c % 256 = c
  <2>1. c < 256
    <3> HIDE DEF a, b, c, z
    <3> QED
      BY <1>0, <1>1
  <2> HIDE DEF c
  <2> QED
    BY <1>1, <2>1
<1>3. /\ ByteOf(n, 0) = x /\ ByteOf(n, 1) = y /\ ByteOf(n, 2) = z /\ ByteOf(n, 3) = c
      /\ \A k \in Nat : k > 3 => ByteOf(n, k) = 0
  <2> HIDE DEF x, y, z
  <2>1. /\ ByteOf(n, 0) = n % 256 /\ ByteOf(n, 1) = a % 256
        /\ ByteOf(n, 2) = b % 256 /\ ByteOf(n, 3) = c % 256
        /\ \A k \in Nat : k > 3 => ByteOf(n, k) = 0
    BY DEF ByteOf
  <2> QED
    BY <1>2, <2>1 DEF x, y, z
<1> HIDE DEF a, b, c, x, y, z
<1>4. n < 65536 => b = 0
  BY <1>1
<1>5. \A k \in Nat : ByteOf(n, k) \in Int
  <2>1. \A k \in Nat : k > 3 \/ k = 0 \/ k = 1 \/ k = 2 \/ k = 3
    OBVIOUS
  <2> QED
    BY <1>1, <1>3, <2>1
<1>6. n = x + 256 * y + 65536 * z + 16777216 * c
  BY <1>1
<1>7. n < 65536 => n = x + 256 * y
  BY <1>1, <1>4
<1> QED
  BY <1>3, <1>5, <1>6, <1>7

\* What swap_uint16 and swap_uint64 write is read as it was.
LEMMA NumbersSurvive ==
  ASSUME NEW n, Is32Bit(n), NEW w \in LongWidth
  PROVE  /\ BigEndian(n, w) \in Seq(Octet) /\ Len(BigEndian(n, w)) = w
         /\ Fits(n, w) => FromBigEndian(BigEndian(n, w)) = n
<1> DEFINE s == BigEndian(n, w)
<1>0. w \in {2, 8}
  BY DEF LongWidth
<1>1. \A i \in 1..w : w - i \in Nat
  BY <1>0
<1>2. s \in [1..w -> Int]
  BY <1>1, BytesOfNumber DEF BigEndian
<1>3. s \in Seq(Octet) /\ Len(s) = w
  <2>1. w \in Nat
    BY <1>0
  <2> QED
    BY <1>2, <2>1, SeqDef DEF Octet
<1>4. \A k \in 0..w-1 : s[w - k] = ByteOf(n, k)
  <2> SUFFICES ASSUME NEW k \in 0..w-1 PROVE s[w - k] = ByteOf(n, k)
    OBVIOUS
  <2>1. w - k \in 1..w /\ w - (w - k) = k
    BY <1>0
  <2> QED
    BY <2>1 DEF BigEndian
<1> HIDE DEF s
<1>5. CASE w = 2
  <2>1. s[2 - 0] = ByteOf(n, 0) /\ s[2 - 1] = ByteOf(n, 1)
    BY <1>4, <1>5
  <2>2. ByteOf(n, 0) \in Int /\ ByteOf(n, 1) \in Int
    BY BytesOfNumber
  <2>3. FromBigEndian(s) = ByteOf(n, 0) + 256 * ByteOf(n, 1)
    BY <1>3, <1>5, <2>1, <2>2 DEF FromBigEndian
  <2> QED
    BY <1>3, <1>5, <2>3, BytesOfNumber, SMT DEF s, Fits
<1>6. CASE w = 8
  <2>1. /\ s[8 - 0] = ByteOf(n, 0) /\ s[8 - 1] = ByteOf(n, 1)
        /\ s[8 - 2] = ByteOf(n, 2) /\ s[8 - 3] = ByteOf(n, 3)
    BY <1>4, <1>6
  <2>2. FromBigEndian(s) =
          ByteOf(n, 0) + 256 * ByteOf(n, 1) + 65536 * ByteOf(n, 2) + 16777216 * ByteOf(n, 3)
    BY <1>3, <1>6, <2>1 DEF FromBigEndian
  <2> QED
    BY <1>3, <1>6, <2>2, BytesOfNumber, SMT DEF s
<1> QED
  BY <1>0, <1>5, <1>6

\* A number after the byte that says how long it is.
LEMMA LongSize ==
  ASSUME NEW n, Is32Bit(n), NEW w \in LongWidth, Fits(n, w), NEW f \in Int
  PROVE  /\ BigEndian(n, w) \in Seq(Octet) /\ Len(BigEndian(n, w)) = w
         /\ FromBigEndian(BigEndian(n, w)) = n
         /\ ExtendedSize(f, n, w) \in Seq(Octet) /\ Len(ExtendedSize(f, n, w)) = 1 + w
         /\ ExtendedSize(f, n, w)[1] = f
         /\ \A i \in 1..w : ExtendedSize(f, n, w)[1 + i] = BigEndian(n, w)[i]
<1> DEFINE s == BigEndian(n, w)
           z == <<f>> \o s
<1> HIDE DEF s
<1>1. s \in Seq(Octet) /\ Len(s) = w /\ FromBigEndian(s) = n /\ w \in Nat
  <2>1. s \in Seq(Octet) /\ Len(s) = w /\ (Fits(n, w) => FromBigEndian(s) = n)
    BY NumbersSurvive, Zenon DEF s
  <2> QED
    BY <2>1 DEF LongWidth
<1>2. <<f>> \in Seq(Octet) /\ Len(<<f>>) = 1 /\ <<f>>[1] = f
  BY DEF Octet
<1>3. /\ z \in Seq(Octet) /\ Len(z) = Len(<<f>>) + Len(s)
      /\ \A i \in 1..Len(<<f>>)+Len(s) : z[i] = IF i <= Len(<<f>>) THEN <<f>>[i] ELSE s[i - Len(<<f>>)]
  BY <1>1, <1>2, ConcatProperties
<1> HIDE DEF z
<1>4. \A i \in 1..w : z[1 + i] = s[i]
  <2> SUFFICES ASSUME NEW i \in 1..w PROVE z[1 + i] = s[i]
    OBVIOUS
  <2>1. 1 + i \in 1..1+w /\ ~(1 + i <= 1) /\ (1 + i) - 1 = i
    BY <1>1
  <2> QED
    BY <1>1, <1>2, <1>3, <2>1
<1>5. z[1] = f /\ Len(z) = 1 + w
  <2>1. 1 \in 1..1+w
    BY <1>1
  <2> QED
    BY <1>1, <1>2, <1>3, <2>1
<1> QED
  BY <1>1, <1>3, <1>4, <1>5 DEF s, z, ExtendedSize

\* The bytes of a size, with the bit of the mask or without, and where they are.
First(n) == IF Width(n) = 0 THEN n ELSE IF Width(n) = 2 THEN 126 ELSE 127
SizeBytes(z, n, b) ==
  /\ z \in Seq(Octet) /\ Len(z) = 1 + Width(n)
  /\ z[1] = First(n) + b
  /\ Width(n) # 0 =>
       /\ BigEndian(n, Width(n)) \in Seq(Octet) /\ Len(BigEndian(n, Width(n))) = Width(n)
       /\ FromBigEndian(BigEndian(n, Width(n))) = n
       /\ \A i \in 1..Width(n) : z[1 + i] = BigEndian(n, Width(n))[i]

\* Which form a size has.
LEMMA SizeCases ==
  ASSUME NEW n \in Size
  PROVE  /\ Width(n) \in {0, 2, 8} /\ Fits(n, Width(n)) /\ n \in Nat /\ Is32Bit(n)
         /\ Width(n) = 0 => n <= 125 /\ ClientSize(n) = <<n + 128>> /\ WriteSize(n) = <<n>>
         /\ Width(n) # 0 => /\ n > 125
                            /\ ClientSize(n) = ExtendedSize(First(n) + 128, n, Width(n))
                            /\ WriteSize(n) = ExtendedSize(First(n), n, Width(n))
<1>1. n \in Nat /\ Is32Bit(n)
  BY SizeAssumption DEF Is32Bit
<1>2. CASE n <= 125
  <2>1. n < 126
    BY <1>1, <1>2
  <2>2. ClientSize(n) = <<n + 128>>
    BY <1>1, <2>1, SMT DEF ClientSize
  <2>3. WriteSize(n) = <<n>>
    BY <1>1, <1>2, SMT DEF WriteSize
  <2>4. Width(n) = 0
    BY <1>1, <1>2, SMT DEF Width
  <2>5. Fits(n, 0)
    BY <1>1, <1>2, SMT DEF Fits
  <2> QED
    BY <1>1, <1>2, <2>2, <2>3, <2>4, <2>5
<1>3. CASE ~(n <= 125) /\ n <= 65535
  <2>1. ~(n < 126) /\ n < 65536
    BY <1>1, <1>3, SMT
  <2>2. ClientSize(n) = ExtendedSize(126 + 128, n, 2)
    BY <1>1, <2>1, SMT DEF ClientSize
  <2>3. WriteSize(n) = ExtendedSize(126, n, 2)
    BY <1>1, <1>3, SMT DEF WriteSize
  <2>4. Width(n) = 2
    BY <1>1, <1>3, SMT DEF Width
  <2>5. Fits(n, 2) /\ n > 125
    BY <1>1, <1>3, SMT DEF Fits
  <2>6. First(n) = 126
    BY <2>4 DEF First
  <2> QED
    BY <1>1, <2>2, <2>3, <2>4, <2>5, <2>6
<1>4. CASE ~(n <= 125) /\ ~(n <= 65535)
  <2>1. ~(n < 126) /\ ~(n < 65536)
    BY <1>1, <1>4, SMT
  <2>2. ClientSize(n) = ExtendedSize(127 + 128, n, 8)
    BY <1>1, <2>1, SMT DEF ClientSize
  <2>3. WriteSize(n) = ExtendedSize(127, n, 8)
    BY <1>1, <1>4, SMT DEF WriteSize
  <2>4. Width(n) = 8
    BY <1>1, <1>4, SMT DEF Width
  <2>5. Fits(n, 8) /\ n > 125
    BY <1>1, <1>4, SMT DEF Fits
  <2>6. First(n) = 127
    BY <2>4 DEF First
  <2> QED
    BY <1>1, <2>2, <2>3, <2>4, <2>5, <2>6
<1> QED
  BY <1>2, <1>3, <1>4, SMT

\* Both sides write sizes in the same way but for the bit of the mask.
LEMMA SizeShape ==
  ASSUME NEW n \in Size
  PROVE  SizeBytes(ClientSize(n), n, 128) /\ SizeBytes(WriteSize(n), n, 0)
<1>1. Width(n) \in {0, 2, 8} /\ Fits(n, Width(n)) /\ n \in Nat /\ Is32Bit(n)
  BY SizeCases
<1>2. First(n) \in Int /\ First(n) + 128 \in Int /\ First(n) + 0 = First(n)
  BY <1>1 DEF First
<1>3. CASE Width(n) = 0
  <2>1. ClientSize(n) = <<n + 128>> /\ WriteSize(n) = <<n>> /\ First(n) = n
    BY <1>3, SizeCases DEF First
  <2> QED
    BY <1>1, <1>3, <2>1 DEF SizeBytes, Octet
<1>4. CASE Width(n) # 0
  <2>1. /\ ClientSize(n) = ExtendedSize(First(n) + 128, n, Width(n))
        /\ WriteSize(n) = ExtendedSize(First(n), n, Width(n))
    BY <1>4, SizeCases
  <2>2. Width(n) \in LongWidth
    BY <1>1, <1>4 DEF LongWidth
  <2>3. ASSUME NEW f \in Int, NEW b, f = First(n) + b
        PROVE  SizeBytes(ExtendedSize(f, n, Width(n)), n, b)
    <3> DEFINE w == Width(n)
    <3> HIDE DEF w
    <3>1. w \in LongWidth /\ Fits(n, w)
      BY <1>1, <2>2 DEF w
    <3>2. /\ BigEndian(n, w) \in Seq(Octet) /\ Len(BigEndian(n, w)) = w
          /\ FromBigEndian(BigEndian(n, w)) = n
          /\ ExtendedSize(f, n, w) \in Seq(Octet) /\ Len(ExtendedSize(f, n, w)) = 1 + w
          /\ ExtendedSize(f, n, w)[1] = f
          /\ \A i \in 1..w : ExtendedSize(f, n, w)[1 + i] = BigEndian(n, w)[i]
      BY <1>1, <3>1, LongSize
    <3> QED
      BY <2>3, <3>2 DEF SizeBytes, w
  <2>5. SizeBytes(ClientSize(n), n, 128)
    BY <1>2, <2>1, <2>3
  <2>6. SizeBytes(WriteSize(n), n, 0)
    BY <1>2, <2>1, <2>3
  <2> QED
    BY <2>5, <2>6
<1> QED
  BY <1>3, <1>4

\* A byte, on a stream.
OnStream(o) == [byte |-> o]

\* It is an element of a stream, and is the byte it was.
LEMMA OnStreamIs ==
  ASSUME NEW o \in Int
  PROVE  OnStream(o) \in Element /\ OnStream(o).byte = o /\ "byte" \in DOMAIN OnStream(o)
BY DEF OnStream, Element, Octet

\* A sequence of bytes on a stream, before something else, and what remains of
\* it when its first bytes are read.
LEMMA BytesOnStream ==
  ASSUME NEW h \in Seq(Octet)
  PROVE  Bytes(h) \in Seq(Element) /\ Len(Bytes(h)) = Len(h)
         /\ \A i \in 1..Len(h) : Bytes(h)[i] = OnStream(h[i])
<1>1. Len(h) \in Nat /\ \A i \in 1..Len(h) : h[i] \in Int
  BY LenProperties, ElementOfSeq DEF Octet
<1>2. \A i \in 1..Len(h) : OnStream(h[i]) \in Element
  BY <1>1, OnStreamIs
<1>3. Bytes(h) \in [1..Len(h) -> Element]
  BY <1>2 DEF Bytes, OnStream
<1>4. Bytes(h) \in Seq(Element)
  BY <1>1, <1>3, SeqDef
<1> QED
  BY <1>1, <1>3, <1>4 DEF Bytes, OnStream

\* Bytes of a concatenation.
LEMMA BytesOfTwo ==
  ASSUME NEW a \in Seq(Octet), NEW b \in Seq(Octet)
  PROVE  Bytes(a \o b) = Bytes(a) \o Bytes(b)
<1> DEFINE u == Bytes(a \o b)
           v == Bytes(a) \o Bytes(b)
<1>1. Len(a) \in Nat /\ Len(b) \in Nat
  BY LenProperties
<1>2. /\ a \o b \in Seq(Octet) /\ Len(a \o b) = Len(a) + Len(b)
      /\ \A i \in 1..Len(a) : (a \o b)[i] = a[i]
      /\ \A i \in 1..Len(b) : (a \o b)[Len(a) + i] = b[i]
  BY JoinAt
<1>3. /\ u \in Seq(Element) /\ Len(u) = Len(a) + Len(b)
      /\ \A i \in 1..Len(a)+Len(b) : u[i] = OnStream((a \o b)[i])
  BY <1>2, BytesOnStream
<1>4. /\ Bytes(a) \in Seq(Element) /\ Len(Bytes(a)) = Len(a)
      /\ \A i \in 1..Len(a) : Bytes(a)[i] = OnStream(a[i])
      /\ Bytes(b) \in Seq(Element) /\ Len(Bytes(b)) = Len(b)
      /\ \A i \in 1..Len(b) : Bytes(b)[i] = OnStream(b[i])
  BY BytesOnStream
<1>5. /\ v \in Seq(Element) /\ Len(v) = Len(Bytes(a)) + Len(Bytes(b))
      /\ \A i \in 1..Len(Bytes(a)) : v[i] = Bytes(a)[i]
      /\ \A i \in 1..Len(Bytes(b)) : v[Len(Bytes(a)) + i] = Bytes(b)[i]
  <2>1. Bytes(a) \in Seq(Element) /\ Bytes(b) \in Seq(Element)
    BY <1>4
  <2> QED
    BY <2>1, JoinAt
<1> HIDE DEF u, v
<1>6. ASSUME NEW i \in 1..Len(a)+Len(b) PROVE u[i] = v[i]
  <2>1. CASE i \in 1..Len(a)
    BY <1>2, <1>3, <1>4, <1>5, <2>1
  <2>2. CASE i \notin 1..Len(a)
    <3>1. i - Len(a) \in 1..Len(b) /\ Len(a) + (i - Len(a)) = i
      BY <1>1, <2>2
    <3>2. u[i] = OnStream(b[i - Len(a)])
      BY <1>2, <1>3, <3>1
    <3>3. v[i] = Bytes(b)[i - Len(a)]
      BY <1>4, <1>5, <3>1
    <3> QED
      BY <1>4, <3>1, <3>2, <3>3
  <2> QED
    BY <2>1, <2>2
<1>7. u = v
  BY <1>3, <1>4, <1>5, <1>6, SeqEqual
<1> QED
  BY <1>7 DEF u, v

\* The first c elements of s are bytes, those of h.
Starting(s, c, h) == AllBytes(SubSeq(s, 1, c)) /\ \A i \in 1..c : s[i].byte = h[i]

\* Reading c elements of bytes h, before t.
LEMMA ReadingBytes ==
  ASSUME NEW h \in Seq(Octet), NEW t \in Seq(Element), NEW c \in 0..Len(h),
         NEW s, s = Bytes(h) \o t
  PROVE  LET g == SubSeq(h, c + 1, Len(h))
         IN  /\ s \in Seq(Element) /\ Len(s) >= c /\ Starting(s, c, h)
             /\ SubSeq(s, c + 1, Len(s)) = Bytes(g) \o t
<1> DEFINE a == SubSeq(h, 1, c)
           g == SubSeq(h, c + 1, Len(h))
           r == Bytes(g) \o t
<1>1. /\ a \in Seq(Octet) /\ Len(a) = c /\ \A i \in 1..c : a[i] = h[i]
      /\ g \in Seq(Octet) /\ a \o g = h
  BY SplitAt
<1> HIDE DEF a, g
<1>0. \A i \in 1..c : h[i] \in Int
  <2>1. Len(h) \in Nat /\ \A i \in 1..Len(h) : h[i] \in Octet
    BY LenProperties, ElementOfSeq
  <2> QED
    BY <2>1 DEF Octet
<1>2. c \in Nat
  BY LenProperties
<1>3. /\ Bytes(a) \in Seq(Element) /\ Len(Bytes(a)) = c
      /\ \A i \in 1..c : Bytes(a)[i] = OnStream(h[i])
      /\ Bytes(g) \in Seq(Element)
  BY <1>1, BytesOnStream
<1>4. r \in Seq(Element) /\ Len(r) \in Nat
  <2>1. r \in Seq(Element)
    BY <1>3, JoinAt
  <2> QED
    BY <2>1, LenProperties
<1>5. s = Bytes(a) \o r
  <2>1. Bytes(h) = Bytes(a) \o Bytes(g)
    BY <1>1, BytesOfTwo
  <2> QED
    BY <1>3, <2>1, ConcatAssociative
<1> HIDE DEF r
<1>6. /\ s \in Seq(Element) /\ Len(s) = c + Len(r)
      /\ \A i \in 1..c : s[i] = OnStream(h[i])
      /\ \A i \in 1..Len(r) : s[c + i] = r[i]
  <2>1. /\ s \in Seq(Element) /\ Len(s) = Len(Bytes(a)) + Len(r)
        /\ \A i \in 1..Len(Bytes(a)) : s[i] = Bytes(a)[i]
        /\ \A i \in 1..Len(r) : s[Len(Bytes(a)) + i] = r[i]
    <3>1. Bytes(a) \in Seq(Element) /\ r \in Seq(Element)
      BY <1>3, <1>4
    <3> QED
      BY <1>5, <3>1, JoinAt
  <2> QED
    BY <1>3, <2>1
<1>7. c \in 0..Len(s) /\ Len(s) - c = Len(r)
  BY <1>2, <1>4, <1>6
<1> DEFINE p == SubSeq(s, 1, c)
           q == SubSeq(s, c + 1, Len(s))
<1>8. /\ Len(p) = c /\ \A i \in 1..c : p[i] = s[i]
      /\ q \in Seq(Element) /\ Len(q) = Len(s) - c /\ \A i \in 1..Len(s)-c : q[i] = s[c + i]
  BY <1>6, <1>7, SplitAt
<1> HIDE DEF p, q
<1>9. q = r
  BY <1>4, <1>6, <1>7, <1>8, SeqEqual
<1>10. AllBytes(p)
  <2>1. \A i \in 1..c : "byte" \in DOMAIN OnStream(h[i])
    BY <1>0, OnStreamIs
  <2> QED
    BY <1>6, <1>8, <2>1 DEF AllBytes
<1>11. \A i \in 1..c : s[i].byte = h[i]
  <2>1. \A i \in 1..c : OnStream(h[i]).byte = h[i]
    BY <1>0, OnStreamIs
  <2> QED
    BY <1>6, <2>1
<1>12. Len(s) >= c
  BY <1>2, <1>4, <1>6
<1> QED
  BY <1>6, <1>9, <1>10, <1>11, <1>12 DEF g, p, q, r, Starting

\* readExactly, for bytes of a header h.
LEMMA PrefixRead ==
  ASSUME NEW h \in Seq(Octet), NEW t \in Seq(Element), NEW c \in 0..Len(h), NEW next,
         prefix \in Seq(Octet), toServer = Bytes(h) \o t, ReadPrefix(c, next)
  PROVE  /\ reader' = next /\ prefix' \in Seq(Octet) /\ Len(prefix') = Len(prefix) + c
         /\ \E g \in Seq(Octet) : /\ Len(g) = Len(h) - c /\ prefix' \o g = prefix \o h
                                /\ toServer' = Bytes(g) \o t
<1> DEFINE a == SubSeq(h, 1, c)
           g == SubSeq(h, c + 1, Len(h))
<1>1. /\ a \in Seq(Octet) /\ Len(a) = c /\ \A i \in 1..c : a[i] = h[i]
      /\ g \in Seq(Octet) /\ Len(g) = Len(h) - c /\ a \o g = h
  BY SplitAt
<1>2. /\ AllBytes(SubSeq(toServer, 1, c)) /\ \A i \in 1..c : toServer[i].byte = h[i]
      /\ SubSeq(toServer, c + 1, Len(toServer)) = Bytes(g) \o t
  <2>1. Starting(toServer, c, h) /\ SubSeq(toServer, c + 1, Len(toServer)) = Bytes(g) \o t
    BY ReadingBytes
  <2> QED
    BY <2>1 DEF Starting
<1> HIDE DEF a, g
<1>3. prefix' = prefix \o a /\ reader' = next /\ toServer' = Bytes(g) \o t
  <2>1. /\ prefix' = prefix \o [i \in 1..c |-> toServer[i].byte] /\ reader' = next
        /\ toServer' = Bytes(g) \o t
    BY <1>2 DEF ReadPrefix
  <2>2. [i \in 1..c |-> toServer[i].byte] = a
    <3>1. a \in [1..c -> Int]
      BY <1>1, LenProperties DEF Octet
    <3> QED
      BY <1>1, <1>2, <3>1
  <2> QED
    BY <2>1, <2>2
<1>4. prefix' \in Seq(Octet) /\ Len(prefix') = Len(prefix) + c
  BY <1>1, <1>3, JoinAt
<1>5. prefix' \o g = prefix \o h
  <2>1. prefix \in Seq(Octet) /\ a \in Seq(Octet) /\ g \in Seq(Octet)
    BY <1>1
  <2>2. (prefix \o a) \o g = prefix \o (a \o g)
    BY <2>1, ConcatAssociative
  <2> QED
    BY <1>1, <1>3, <2>2
<1> QED
  BY <1>1, <1>3, <1>4, <1>5

\* The bytes of a sequence are numbers.
LEMMA OctetsAreNumbers ==
  ASSUME NEW h \in Seq(Octet)
  PROVE  Len(h) \in Nat /\ \A i \in 1..Len(h) : h[i] \in Int
BY LenProperties, ElementOfSeq DEF Octet

\* What a reader needs to know of a header.
HeaderShape(h, flags, n, mask) ==
  /\ h \in Seq(Octet) /\ Len(h) = 6 + Width(n)
  /\ h[1] = flags /\ h[2] = First(n) + 128
  /\ \A i \in 1..4 : h[2 + Width(n) + i] = mask[i]
  /\ Width(n) # 0 => FromBigEndian(SubSeq(h, 3, 2 + Width(n))) = n

\* ClientSize and the mask are where the reader expects them.
LEMMA HeaderOfFrame ==
  ASSUME NEW flags \in Flags, NEW n \in Size, NEW mask \in Mask
  PROVE  HeaderShape(Header(flags, n, mask), flags, n, mask)
<1> DEFINE w == Width(n)
           f == <<flags>>
           z == ClientSize(n)
           a == f \o z
           h == a \o mask
<1>1. w \in {0, 2, 8} /\ w \in Nat
  BY SizeCases
<1>2. /\ z \in Seq(Octet) /\ Len(z) = 1 + w /\ z[1] = First(n) + 128
      /\ w # 0 => /\ BigEndian(n, w) \in Seq(Octet) /\ Len(BigEndian(n, w)) = w
                  /\ FromBigEndian(BigEndian(n, w)) = n
                  /\ \A i \in 1..w : z[1 + i] = BigEndian(n, w)[i]
  BY SizeShape DEF SizeBytes
<1>3. f \in Seq(Octet) /\ Len(f) = 1 /\ f[1] = flags
  <2>1. flags \in Int
    BY DEF Flags, TextFlags, BinaryFlags, CloseFlags
  <2> QED
    BY <2>1 DEF Octet
<1>4. mask \in Seq(Octet) /\ Len(mask) = 4
  <2>1. mask \in [1..4 -> 0..255]
    BY MaskAssumption
  <2>2. mask \in [1..4 -> Octet]
    BY <2>1 DEF Octet
  <2> QED
    BY <2>2, FunctionsAreSequences
<1> HIDE DEF w, f, z
<1>5. /\ a \in Seq(Octet) /\ Len(a) = 2 + w
      /\ a[1] = flags /\ \A i \in 1..1+w : a[1 + i] = z[i]
  <2>1. /\ a \in Seq(Octet) /\ Len(a) = Len(f) + Len(z)
        /\ \A i \in 1..Len(f) : a[i] = f[i]
        /\ \A i \in 1..Len(z) : a[Len(f) + i] = z[i]
    <3>1. f \in Seq(Octet) /\ z \in Seq(Octet)
      BY <1>2, <1>3
    <3> QED
      BY <3>1, JoinAt
  <2> HIDE DEF a
  <2> QED
    BY <1>1, <1>2, <1>3, <2>1
<1> HIDE DEF a
<1>6. /\ h \in Seq(Octet) /\ Len(h) = 6 + w
      /\ \A i \in 1..2+w : h[i] = a[i]
      /\ \A i \in 1..4 : h[2 + w + i] = mask[i]
  <2>1. /\ h \in Seq(Octet) /\ Len(h) = Len(a) + Len(mask)
        /\ \A i \in 1..Len(a) : h[i] = a[i]
        /\ \A i \in 1..Len(mask) : h[Len(a) + i] = mask[i]
    <3>1. a \in Seq(Octet) /\ mask \in Seq(Octet)
      BY <1>4, <1>5
    <3> QED
      BY <3>1, JoinAt
  <2> HIDE DEF h
  <2> QED
    BY <1>1, <1>4, <1>5, <2>1
<1> HIDE DEF h
<1>7. h[1] = flags /\ h[2] = First(n) + 128
  <2>1. 1 \in 1..2+w /\ 2 \in 1..2+w /\ 1 \in 1..1+w /\ 1 + 1 = 2
    BY <1>1
  <2>2. a[2] = z[1]
    BY <1>5, <2>1
  <2> QED
    BY <1>2, <1>5, <1>6, <2>1, <2>2
<1>8. ASSUME w # 0 PROVE FromBigEndian(SubSeq(h, 3, 2 + w)) = n
  <2> DEFINE s == SubSeq(h, 3, 2 + w)
             b == BigEndian(n, w)
  <2>1. /\ s \in Seq(Octet) /\ Len(s) = IF 3 <= 2 + w THEN (2 + w) - 3 + 1 ELSE 0
        /\ \A i \in 1..(2+w)-3+1 : s[i] = h[3 + i - 1]
    <3>1. \A i \in 3..2+w : h[i] \in Octet
      <4>1. \A i \in 3..2+w : i \in 1..Len(h)
        BY <1>1, <1>6
      <4> QED
        BY <1>6, <4>1, ElementOfSeq
    <3>2. 3 \in Int /\ 2 + w \in Int
      BY <1>1
    <3> QED
      BY <3>1, <3>2, SubSeqProperties
  <2>2. b \in Seq(Octet) /\ Len(b) = w /\ FromBigEndian(b) = n /\ \A i \in 1..w : z[1 + i] = b[i]
    BY <1>2, <1>8
  <2> HIDE DEF s, b
  <2>3. Len(s) = w
    BY <1>1, <1>8, <2>1
  <2>4. ASSUME NEW i \in 1..w PROVE s[i] = b[i]
    <3>1. /\ i \in 1..(2+w)-3+1 /\ 3 + i - 1 = 2 + i /\ 2 + i \in 1..2+w
          /\ 1 + i \in 1..1+w /\ 1 + (1 + i) = 2 + i
      BY <1>1
    <3>2. s[i] = h[2 + i]
      BY <2>1, <3>1
    <3>3. h[2 + i] = a[2 + i]
      BY <1>6, <3>1
    <3>4. a[2 + i] = z[1 + i]
      BY <1>5, <3>1
    <3> QED
      BY <2>2, <3>2, <3>3, <3>4
  <2>5. s = b
    BY <2>1, <2>2, <2>3, <2>4, SeqEqual
  <2> QED
    BY <2>2, <2>5 DEF s
<1> QED
  BY <1>6, <1>7, <1>8 DEF HeaderShape, Header, w, h, a, f, z

\* The reader takes from a header what the client put there.
LEMMA ReadersSize ==
  ASSUME NEW n \in Size
  PROVE  /\ First(n) \in Int /\ BasicSize(First(n) + 128) = First(n)
         /\ SizeWidth(First(n)) = Width(n) /\ (Width(n) = 0 => First(n) = n)
         /\ n \in Nat /\ Width(n) \in {0, 2, 8}
<1>1. n \in Nat /\ Width(n) \in {0, 2, 8} /\ (Width(n) = 0 => n <= 125)
  BY SizeCases
<1>2. First(n) \in 0..127 /\ SizeWidth(First(n)) = Width(n) /\ (Width(n) = 0 => First(n) = n)
  <2>1. CASE Width(n) = 0
    BY <1>1, <2>1 DEF First, SizeWidth
  <2>2. CASE Width(n) = 2
    BY <1>1, <2>2 DEF First, SizeWidth
  <2>3. CASE Width(n) = 8
    BY <1>1, <2>3 DEF First, SizeWidth
  <2> QED
    BY <1>1, <2>1, <2>2, <2>3
<1>3. \A i \in 0..127 : (i + 128) % 128 = i
  OBVIOUS
<1>4. BasicSize(First(n) + 128) = First(n)
  BY <1>2, <1>3 DEF BasicSize
<1> QED
  BY <1>1, <1>2, <1>4

\* A mask undoes itself.
LEMMA XorSelf == ASSUME NEW a \in Int PROVE Xor(a, a) = 0
BY DEF Xor

\* The mask of zeros.
LEMMA NoMaskIs == NoMask \in [1..4 -> Int]
BY DEF NoMask

\* A payload is at most one element.
LEMMA PayloadShape ==
  ASSUME NEW text \in Text, NEW n \in Size, NEW mask \in [1..4 -> Int]
  PROVE  /\ Payload(text, n, mask) \in Seq(Element)
         /\ n = 0 => Payload(text, n, mask) = <<>>
         /\ n # 0 => /\ Len(Payload(text, n, mask)) = 1
                     /\ Payload(text, n, mask)[1] = [text |-> text, size |-> n, mask |-> mask]
<1> DEFINE e == [text |-> text, size |-> n, mask |-> mask]
<1>1. n \in Nat
  BY SizeCases
<1>2. e \in Element
  BY <1>1 DEF Element, Block
<1> HIDE DEF e
<1>3. <<>> \in Seq(Element) /\ <<e>> \in Seq(Element) /\ Len(<<e>>) = 1 /\ <<e>>[1] = e
  BY <1>2
<1> QED
  BY <1>3 DEF e, Payload

-----------------------------------------------------------------------------
(* Reading *)

\* The part of the stream that is the frame fr.
Sent(flags, text, n) == [flags |-> flags, payload |-> Payload(text, n, NoMask)]
FrameSet == [flags : Flags, payload : Seq(Element)]
IsFrame(fr, part) ==
  \E flags \in Flags, text \in Text, n \in Size, mask \in Mask :
    fr = Sent(flags, text, n) /\ part = Bytes(Header(flags, n, mask)) \o Payload(text, n, mask)

PartsOf(sent, parts) ==
  /\ parts \in Seq(Seq(Element)) /\ Len(parts) = Len(sent)
  /\ \A i \in 1..Len(sent) : IsFrame(sent[i], parts[i])

\* pre was read of the text frame fr; what follows on the stream s is the rest
\* of it, and t.
InFrame(fr, rd, pre, size, s, t) ==
  \E text \in Text, n \in Size, mask \in Mask, g \in Seq(Octet) :
    /\ fr = Sent(TextFlags, text, n)
    /\ pre \o g = Header(TextFlags, n, mask)
    /\ rd = "size" => Len(pre) = 1
    /\ rd = "length" => Len(pre) = 2
    /\ rd = "payload" => g = <<>> /\ size = n
    /\ s = Bytes(g) \o (Payload(text, n, mask) \o t)

\* Where the reader is, when it has read the first k frames.
At(parts, sent, k, rd, pre, size, s) ==
  /\ rd = "flags" => pre = <<>> /\ PartsJoined(Element, parts, k, s)
  /\ rd # "flags" =>
       /\ k < Len(sent)
       /\ \E t \in Seq(Element) :
            InFrame(sent[k+1], rd, pre, size, s, t) /\ PartsJoined(Element, parts, k + 1, t)

\* The record of a frame.
LEMMA SentShape ==
  ASSUME NEW flags \in Flags, NEW text \in Text, NEW n \in Size
  PROVE  /\ Sent(flags, text, n) \in FrameSet
         /\ Sent(flags, text, n).flags = flags
         /\ Sent(flags, text, n).payload = Payload(text, n, NoMask)
<1>1. Payload(text, n, NoMask) \in Seq(Element)
  BY NoMaskIs, PayloadShape
<1> QED
  BY <1>1 DEF Sent, FrameSet

\* Masks are four numbers.
LEMMA MasksAreMasks == ASSUME NEW mask \in Mask PROVE mask \in [1..4 -> Int]
<1>1. mask \in [1..4 -> 0..255]
  BY MaskAssumption
<1> QED
  BY <1>1

\* Something more at the end of the stream.
LEMMA InFrameGrows ==
  ASSUME NEW fr, NEW rd, NEW pre, NEW size, NEW s, NEW t \in Seq(Element), NEW p \in Seq(Element),
         InFrame(fr, rd, pre, size, s, t)
  PROVE  InFrame(fr, rd, pre, size, s \o p, t \o p)
<1>1. PICK text \in Text, n \in Size, mask \in Mask, g \in Seq(Octet) :
        /\ fr = Sent(TextFlags, text, n)
        /\ pre \o g = Header(TextFlags, n, mask)
        /\ rd = "size" => Len(pre) = 1
        /\ rd = "length" => Len(pre) = 2
        /\ rd = "payload" => g = <<>> /\ size = n
        /\ s = Bytes(g) \o (Payload(text, n, mask) \o t)
  BY DEF InFrame
<1> DEFINE b == Bytes(g)
           e == Payload(text, n, mask)
<1>2. b \in Seq(Element)
  BY BytesOnStream
<1>3. e \in Seq(Element)
  BY MasksAreMasks, PayloadShape
<1>4. s = b \o (e \o t)
  BY <1>1
<1> HIDE DEF b, e
<1>5. s \o p = b \o (e \o (t \o p))
  <2>1. Cat(Cat(b, Cat(e, t)), p) = Cat(b, Cat(e, Cat(t, p)))
    BY <1>2, <1>3, FourRegrouped
  <2> QED
    BY <1>4, <2>1 DEF Cat
<1>6. s \o p = Bytes(g) \o (Payload(text, n, mask) \o (t \o p))
  BY <1>5 DEF b, e
<1> QED
  BY <1>1, <1>6 DEF InFrame

\* Another frame, after all others.
LEMMA StreamGrows ==
  ASSUME NEW sent \in Seq(FrameSet), NEW parts, PartsOf(sent, parts), NEW k \in 0..Len(sent),
         NEW rd, NEW pre, NEW size, NEW s, At(parts, sent, k, rd, pre, size, s),
         NEW fr \in FrameSet, NEW p \in Seq(Element), IsFrame(fr, p)
  PROVE  /\ PartsOf(Append(sent, fr), Append(parts, p))
         /\ At(Append(parts, p), Append(sent, fr), k, rd, pre, size, s \o p)
<1> DEFINE N == Len(sent)
           sent2 == Append(sent, fr)
           parts2 == Append(parts, p)
<1>1. N \in Nat /\ k \in Nat /\ k <= N
  BY LenProperties
<1>2. Len(sent2) = N + 1 /\ sent2[N+1] = fr /\ \A i \in 1..N : sent2[i] = sent[i]
  BY AppendProperties
<1>3. parts \in Seq(Seq(Element)) /\ Len(parts) = N /\ \A i \in 1..N : IsFrame(sent[i], parts[i])
  BY DEF PartsOf
<1>4. /\ parts2 \in Seq(Seq(Element)) /\ Len(parts2) = N + 1 /\ parts2[N+1] = p
      /\ \A i \in 1..N : parts2[i] = parts[i]
  BY <1>3, AppendProperties
<1> HIDE DEF N, sent2, parts2
<1>5. PartsOf(sent2, parts2)
  <2>1. ASSUME NEW i \in 1..N+1 PROVE IsFrame(sent2[i], parts2[i])
    <3>1. i \in 1..N \/ i = N + 1
      BY <1>1
    <3> QED
      BY <1>2, <1>3, <1>4, <3>1
  <2> QED
    BY <1>2, <1>4, <2>1 DEF PartsOf
<1>6. ASSUME rd = "flags" PROVE pre = <<>> /\ PartsJoined(Element, parts2, k, s \o p)
  <2>1. pre = <<>> /\ PartsJoined(Element, parts, k, s)
    BY <1>6 DEF At
  <2> QED
    BY <1>3, <2>1, JoinedParts DEF parts2, N
<1>7. ASSUME rd # "flags"
      PROVE  /\ k < Len(sent2)
             /\ \E t \in Seq(Element) :
                  InFrame(sent2[k+1], rd, pre, size, s \o p, t) /\ PartsJoined(Element, parts2, k + 1, t)
  <2>1. k < N /\ \E t \in Seq(Element) :
                    InFrame(sent[k+1], rd, pre, size, s, t) /\ PartsJoined(Element, parts, k + 1, t)
    BY <1>7 DEF At, N
  <2>2. PICK t \in Seq(Element) :
          InFrame(sent[k+1], rd, pre, size, s, t) /\ PartsJoined(Element, parts, k + 1, t)
    BY <2>1
  <2>3. k + 1 \in 0..N /\ sent2[k+1] = sent[k+1] /\ k < N + 1
    BY <1>1, <1>2, <2>1
  <2>4. InFrame(sent2[k+1], rd, pre, size, s \o p, t \o p)
    BY <2>2, <2>3, InFrameGrows
  <2>5. PartsJoined(Element, parts2, k + 1, t \o p)
    BY <1>3, <2>2, <2>3, JoinedParts DEF parts2
  <2>6. t \o p \in Seq(Element)
    BY ConcatProperties
  <2> QED
    BY <1>2, <2>3, <2>4, <2>5, <2>6
<1>8. At(parts2, sent2, k, rd, pre, size, s \o p)
  BY <1>6, <1>7 DEF At
<1> QED
  BY <1>5, <1>8 DEF sent2, parts2

Reading == reader \in {"flags", "size", "length", "payload"}

FramesTyped ==
  /\ Reading \/ reader \in {"closed", "failed"}
  /\ toServer \in Seq(Element) /\ prefix \in Seq(Octet)
  /\ framesSent \in Seq(FrameSet) /\ payloadsRcvd \in Seq(Seq(Element))
  /\ Len(payloadsRcvd) <= Len(framesSent)

\* What was read is what was sent.
ReadTruly ==
  \A i \in 1..Len(payloadsRcvd) :
    framesSent[i].flags = TextFlags /\ payloadsRcvd[i] = framesSent[i].payload

\* The stream is the rest of the frame that is being read, and the next ones.
OnTrack ==
  Reading => \E parts : /\ PartsOf(framesSent, parts)
                        /\ At(parts, framesSent, Len(payloadsRcvd), reader, prefix, payloadSize, toServer)

EndedBy ==
  reader \in {"closed", "failed"} =>
    /\ Len(payloadsRcvd) < Len(framesSent)
    /\ framesSent[Len(payloadsRcvd) + 1].flags = IF reader = "closed" THEN CloseFlags ELSE BinaryFlags

FramesInv == FramesTyped /\ ReadTruly /\ OnTrack /\ EndedBy

\* s begins with the frame after the first k.
FrameAhead(parts, sent, k, s) ==
  \E flags \in Flags, text \in Text, n \in Size, mask \in Mask, t \in Seq(Element) :
    /\ sent[k+1] = Sent(flags, text, n) /\ PartsJoined(Element, parts, k + 1, t)
    /\ s = Bytes(Header(flags, n, mask)) \o (Payload(text, n, mask) \o t)

\* The next frame on the stream, when there is something on it.
LEMMA NextFrame ==
  ASSUME NEW sent \in Seq(FrameSet), NEW parts, PartsOf(sent, parts), NEW k \in 0..Len(sent),
         NEW pre, NEW size, NEW s, At(parts, sent, k, "flags", pre, size, s), s # <<>>
  PROVE  pre = <<>> /\ k < Len(sent) /\ FrameAhead(parts, sent, k, s)
<1>1. parts \in Seq(Seq(Element)) /\ Len(parts) = Len(sent) /\ \A i \in 1..Len(sent) : IsFrame(sent[i], parts[i])
  BY DEF PartsOf
<1>2. pre = <<>> /\ PartsJoined(Element, parts, k, s)
  BY DEF At
<1>3. k < Len(sent) /\ \E t \in Seq(Element) : s = parts[k+1] \o t /\ PartsJoined(Element, parts, k + 1, t)
  <2>1. Leads(Element, parts, k, s)
    BY <1>1, <1>2, JoinedParts
  <2> QED
    BY <1>1, <2>1 DEF Leads
<1>4. PICK t \in Seq(Element) : s = parts[k+1] \o t /\ PartsJoined(Element, parts, k + 1, t)
  BY <1>3
<1>5. k + 1 \in 1..Len(sent)
  BY <1>3, LenProperties
<1>6. IsFrame(sent[k+1], parts[k+1])
  BY <1>1, <1>5
<1>7. PICK flags \in Flags, text \in Text, n \in Size, mask \in Mask :
        /\ sent[k+1] = Sent(flags, text, n)
        /\ parts[k+1] = Bytes(Header(flags, n, mask)) \o Payload(text, n, mask)
  BY <1>6 DEF IsFrame
<1> DEFINE b == Bytes(Header(flags, n, mask))
           e == Payload(text, n, mask)
<1>8. b \in Seq(Element)
  BY BytesOnStream, HeaderOfFrame DEF HeaderShape
<1>9. e \in Seq(Element)
  BY MasksAreMasks, PayloadShape
<1>10. s = (b \o e) \o t
  BY <1>4, <1>7
<1> HIDE DEF b, e
<1>11. (b \o e) \o t = b \o (e \o t)
  BY <1>8, <1>9, Regrouped
<1>12. s = Bytes(Header(flags, n, mask)) \o (Payload(text, n, mask) \o t)
  BY <1>10, <1>11 DEF b, e
<1> QED
  BY <1>2, <1>3, <1>4, <1>7, <1>12 DEF FrameAhead

\* The client's step.
LEMMA ClientSendsFrameKeeps ==
  ASSUME FramesInv, NEW flags \in Flags, NEW text \in Text, NEW n \in Size, NEW mask \in Mask,
         ClientSendsFrame(flags, text, n, mask)
  PROVE  FramesInv'
<1> DEFINE b == Bytes(Header(flags, n, mask))
           e == Payload(text, n, mask)
           p == b \o e
           fr == Sent(flags, text, n)
           N == Len(framesSent)
           k == Len(payloadsRcvd)
<1>1. /\ toServer' = (toServer \o b) \o e /\ framesSent' = Append(framesSent, fr)
      /\ reader' = reader /\ prefix' = prefix /\ payloadSize' = payloadSize
      /\ payloadsRcvd' = payloadsRcvd
  BY DEF ClientSendsFrame, readerVars, Header, Sent
<1>2. /\ toServer \in Seq(Element) /\ framesSent \in Seq(FrameSet) /\ N \in Nat
      /\ payloadsRcvd \in Seq(Seq(Element)) /\ k \in Nat /\ k <= N
  BY LenProperties DEF FramesInv, FramesTyped
<1>3. fr \in FrameSet
  BY SentShape
<1>4. b \in Seq(Element)
  BY BytesOnStream, HeaderOfFrame DEF HeaderShape
<1>5. e \in Seq(Element)
  BY MasksAreMasks, PayloadShape
<1>6. IsFrame(fr, p)
  BY DEF IsFrame
<1> HIDE DEF b, e, fr, N, k
<1>7. p \in Seq(Element)
  BY <1>4, <1>5, ConcatProperties
<1>8. toServer' = toServer \o p
  <2>1. Cat(Cat(toServer, b), e) = Cat(toServer, Cat(b, e))
    BY <1>2, <1>4, <1>5, CatRegrouped
  <2> QED
    BY <1>1, <2>1 DEF Cat, p
<1> HIDE DEF p
<1>9. toServer' \in Seq(Element)
  BY <1>2, <1>7, <1>8, ConcatProperties
<1>10. /\ framesSent' \in Seq(FrameSet) /\ Len(framesSent') = N + 1
       /\ \A i \in 1..N : framesSent'[i] = framesSent[i]
  BY <1>1, <1>2, <1>3, AppendProperties DEF N
<1>11. FramesTyped'
  BY <1>1, <1>2, <1>9, <1>10 DEF FramesInv, FramesTyped, Reading, k
<1>12. ReadTruly'
  <2>1. \A i \in 1..k : framesSent'[i] = framesSent[i]
    BY <1>2, <1>10
  <2> QED
    BY <1>1, <2>1 DEF FramesInv, ReadTruly, k
<1>13. OnTrack'
  <2> SUFFICES ASSUME Reading'
               PROVE  \E parts : /\ PartsOf(framesSent', parts)
                                 /\ At(parts, framesSent', k, reader, prefix, payloadSize, toServer')
    BY <1>1 DEF OnTrack, k
  <2>1. \E parts : /\ PartsOf(framesSent, parts)
                   /\ At(parts, framesSent, k, reader, prefix, payloadSize, toServer)
    BY <1>1 DEF FramesInv, OnTrack, Reading, k
  <2>2. PICK parts : /\ PartsOf(framesSent, parts)
                     /\ At(parts, framesSent, k, reader, prefix, payloadSize, toServer)
    BY <2>1
  <2>3. k \in 0..Len(framesSent)
    BY <1>2 DEF N
  <2>4. /\ PartsOf(Append(framesSent, fr), Append(parts, p))
        /\ At(Append(parts, p), Append(framesSent, fr), k, reader, prefix, payloadSize, toServer \o p)
    BY <1>2, <1>3, <1>6, <1>7, <2>2, <2>3, StreamGrows DEF p
  <2> QED
    BY <1>1, <1>8, <2>4
<1>14. EndedBy'
  <2> SUFFICES ASSUME reader \in {"closed", "failed"}
               PROVE  /\ k < Len(framesSent')
                      /\ framesSent'[k + 1].flags = IF reader = "closed" THEN CloseFlags ELSE BinaryFlags
    BY <1>1 DEF EndedBy, k
  <2>1. k < N /\ framesSent[k + 1].flags = IF reader = "closed" THEN CloseFlags ELSE BinaryFlags
    BY DEF FramesInv, EndedBy, k, N
  <2>2. k + 1 \in 1..N /\ k < N + 1
    BY <1>2, <2>1
  <2> QED
    BY <1>10, <2>1, <2>2
<1> QED
  BY <1>11, <1>12, <1>13, <1>14 DEF FramesInv

\* When a read leaves the reader in a text frame.
LEMMA StillInFrame ==
  ASSUME FramesInv, NEW parts, PartsOf(framesSent, parts), NEW rd \in {"size", "length", "payload"},
         Len(payloadsRcvd) < Len(framesSent), NEW t \in Seq(Element),
         reader' = rd, prefix' \in Seq(Octet), toServer' \in Seq(Element),
         UNCHANGED <<framesSent, payloadsRcvd>>,
         InFrame(framesSent[Len(payloadsRcvd) + 1], rd, prefix', payloadSize', toServer', t),
         PartsJoined(Element, parts, Len(payloadsRcvd) + 1, t)
  PROVE  FramesInv'
<1>1. framesSent' = framesSent /\ payloadsRcvd' = payloadsRcvd
  OBVIOUS
<1>2. reader' # "flags" /\ reader' \notin {"closed", "failed"}
  OBVIOUS
<1>3. FramesTyped'
  BY <1>1 DEF FramesInv, FramesTyped, Reading
<1>4. ReadTruly'
  BY <1>1 DEF FramesInv, ReadTruly
<1>5. At(parts, framesSent, Len(payloadsRcvd), reader', prefix', payloadSize', toServer')
  BY <1>2 DEF At
<1>6. OnTrack'
  BY <1>1, <1>5 DEF OnTrack
<1>7. EndedBy'
  BY <1>2 DEF EndedBy
<1> QED
  BY <1>3, <1>4, <1>6, <1>7 DEF FramesInv

\* The first byte of a frame.
LEMMA ReadFlagsKeeps == ASSUME FramesInv, ReadFlags PROVE FramesInv'
<1> DEFINE k == Len(payloadsRcvd)
           next == AfterFlags(toServer[1].byte)
<1>1. /\ reader = "flags" /\ ReadPrefix(1, next) /\ payloadSize' = payloadSize
      /\ Len(toServer) >= 1 /\ framesSent' = framesSent /\ payloadsRcvd' = payloadsRcvd
  BY DEF ReadFlags, ReadPrefix
<1>2. /\ toServer \in Seq(Element) /\ framesSent \in Seq(FrameSet) /\ k \in 0..Len(framesSent)
      /\ prefix \in Seq(Octet) /\ k \in Nat
  BY LenProperties DEF FramesInv, FramesTyped
<1>3. PICK parts : /\ PartsOf(framesSent, parts)
                   /\ At(parts, framesSent, k, "flags", prefix, payloadSize, toServer)
  BY <1>1 DEF FramesInv, OnTrack, Reading
<1>4. toServer # <<>>
  BY <1>1
<1> HIDE DEF next
<1>5. prefix = <<>> /\ k < Len(framesSent) /\ FrameAhead(parts, framesSent, k, toServer)
  BY <1>2, <1>3, <1>4, NextFrame
<1>6. PICK flags \in Flags, text \in Text, n \in Size, mask \in Mask, t \in Seq(Element) :
           /\ framesSent[k+1] = Sent(flags, text, n) /\ PartsJoined(Element, parts, k + 1, t)
           /\ toServer = Bytes(Header(flags, n, mask)) \o (Payload(text, n, mask) \o t)
  BY <1>5 DEF FrameAhead
<1> DEFINE h == Header(flags, n, mask)
           u == Payload(text, n, mask) \o t
<1>7. /\ h \in Seq(Octet) /\ Len(h) = 6 + Width(n) /\ h[1] = flags /\ Width(n) \in Nat
  BY HeaderOfFrame, ReadersSize DEF HeaderShape
<1>8. u \in Seq(Element)
  BY MasksAreMasks, PayloadShape, ConcatProperties
<1>9. toServer = Bytes(h) \o u
  BY <1>6
<1> HIDE DEF h, u, k
<1>10. 1 \in 0..Len(h)
  BY <1>7
<1>11. next = AfterFlags(flags)
  <2>1. Starting(toServer, 1, h)
    BY <1>7, <1>8, <1>9, <1>10, ReadingBytes
  <2> QED
    BY <1>7, <2>1 DEF next, Starting
<1>12. /\ reader' = next /\ prefix' \in Seq(Octet) /\ Len(prefix') = Len(prefix) + 1
       /\ \E g \in Seq(Octet) : /\ Len(g) = Len(h) - 1 /\ prefix' \o g = prefix \o h
                                /\ toServer' = Bytes(g) \o u
  BY <1>1, <1>2, <1>7, <1>8, <1>9, <1>10, PrefixRead
<1>12a. reader' = next
  BY <1>12
<1>13. PICK g \in Seq(Octet) : /\ Len(g) = Len(h) - 1 /\ prefix' \o g = prefix \o h
                                /\ toServer' = Bytes(g) \o u
  BY <1>12
<1>14. Len(prefix') = 1 /\ prefix' \o g = h
  BY <1>5, <1>7, <1>12, <1>13, ConcatEmptySeq
<1>15. toServer' \in Seq(Element)
  <2> DEFINE b == Bytes(g)
  <2>1. b \in Seq(Element)
    BY BytesOnStream
  <2>2. toServer' = b \o u
    BY <1>13
  <2> HIDE DEF b
  <2> QED
    BY <1>8, <2>1, <2>2, ConcatProperties
<1>16. CASE flags = TextFlags
  <2>1. reader' = "size"
    BY <1>11, <1>12a, <1>16 DEF AfterFlags, TextFlags, CloseFlags
  <2>2. InFrame(framesSent[k+1], "size", prefix', payloadSize', toServer', t)
    BY <1>6, <1>13, <1>14, <1>16 DEF InFrame, h, u
  <2> QED
    BY <1>1, <1>3, <1>5, <1>6, <1>12, <1>15, <2>1, <2>2, StillInFrame DEF k
<1>17. CASE flags # TextFlags
  <2>1. /\ reader' = IF flags = CloseFlags THEN "closed" ELSE "failed"
        /\ flags \in {CloseFlags, BinaryFlags} /\ CloseFlags # BinaryFlags
    BY <1>11, <1>12a, <1>17 DEF AfterFlags, Flags, CloseFlags, BinaryFlags, TextFlags
  <2>2. framesSent[k+1].flags = flags
    BY <1>6, SentShape
  <2>3. FramesTyped'
    BY <1>1, <1>12, <1>15, <2>1 DEF FramesInv, FramesTyped
  <2>4. ReadTruly'
    BY <1>1 DEF FramesInv, ReadTruly
  <2>5. OnTrack'
    BY <2>1 DEF OnTrack, Reading
  <2>6. EndedBy'
    BY <1>1, <1>5, <2>1, <2>2 DEF EndedBy, k
  <2> QED
    BY <2>3, <2>4, <2>5, <2>6 DEF FramesInv
<1> QED
  BY <1>16, <1>17

\* What is known in the middle of a text frame.
LEMMA MiddleOfFrame ==
  ASSUME FramesInv, reader \in {"size", "length", "payload"}
  PROVE  /\ Len(payloadsRcvd) < Len(framesSent) /\ Len(payloadsRcvd) \in Nat /\ prefix \in Seq(Octet)
         /\ \E parts : \E t \in Seq(Element) :
              /\ PartsOf(framesSent, parts) /\ PartsJoined(Element, parts, Len(payloadsRcvd) + 1, t)
              /\ InFrame(framesSent[Len(payloadsRcvd) + 1], reader, prefix, payloadSize, toServer, t)
<1> DEFINE k == Len(payloadsRcvd)
<1>1. PICK parts : /\ PartsOf(framesSent, parts)
                   /\ At(parts, framesSent, k, reader, prefix, payloadSize, toServer)
  BY DEF FramesInv, OnTrack, Reading
<1>2. /\ k < Len(framesSent)
      /\ \E t \in Seq(Element) :
           /\ InFrame(framesSent[k+1], reader, prefix, payloadSize, toServer, t)
           /\ PartsJoined(Element, parts, k + 1, t)
  BY <1>1 DEF At
<1>3. PICK t \in Seq(Element) :
           /\ InFrame(framesSent[k+1], reader, prefix, payloadSize, toServer, t)
           /\ PartsJoined(Element, parts, k + 1, t)
  BY <1>2
<1>4. k \in Nat /\ prefix \in Seq(Octet)
  BY LenProperties DEF FramesInv, FramesTyped
<1> HIDE DEF k
<1> QED
  BY <1>1, <1>2, <1>3, <1>4 DEF k

\* readExactly, so many bytes of the header of a text frame.
LEMMA HeaderRead ==
  ASSUME FramesInv, NEW rd \in {"length", "payload"}, NEW c \in Nat, ReadPrefix(c, rd),
         NEW text \in Text, NEW n \in Size, NEW mask \in Mask, NEW g \in Seq(Octet), NEW t \in Seq(Element),
         NEW fr, fr = Sent(TextFlags, text, n),
         prefix \o g = Header(TextFlags, n, mask),
         toServer = Bytes(g) \o (Payload(text, n, mask) \o t),
         c <= Len(g),
         rd = "length" => Len(prefix) + c = 2,
         rd = "payload" => Len(g) = c /\ (prefix' = Header(TextFlags, n, mask) => payloadSize' = n)
  PROVE  /\ reader' = rd /\ prefix' \in Seq(Octet) /\ toServer' \in Seq(Element)
         /\ InFrame(fr, rd, prefix', payloadSize', toServer', t)
<1> DEFINE e == Payload(text, n, mask)
           u == e \o t
           h == Header(TextFlags, n, mask)
<1>1. u \in Seq(Element)
  BY MasksAreMasks, PayloadShape, ConcatProperties
<1>2. toServer = Bytes(g) \o u /\ prefix \o g = h
  OBVIOUS
<1>3. prefix \in Seq(Octet)
  BY DEF FramesInv, FramesTyped
<1> HIDE DEF u, h
<1>4. c \in 0..Len(g)
  BY LenProperties
<1>5. /\ reader' = rd /\ prefix' \in Seq(Octet) /\ Len(prefix') = Len(prefix) + c
      /\ \E g2 \in Seq(Octet) : /\ Len(g2) = Len(g) - c /\ prefix' \o g2 = prefix \o g
                                /\ toServer' = Bytes(g2) \o u
  BY <1>1, <1>2, <1>3, <1>4, PrefixRead
<1>6. reader' = rd /\ prefix' \in Seq(Octet) /\ Len(prefix') = Len(prefix) + c
  BY <1>5
<1>7. PICK g2 \in Seq(Octet) : /\ Len(g2) = Len(g) - c /\ prefix' \o g2 = prefix \o g
                                /\ toServer' = Bytes(g2) \o u
  BY <1>5
<1>8. prefix' \o g2 = h
  BY <1>2, <1>7
<1>9. toServer' \in Seq(Element)
  <2> DEFINE b == Bytes(g2)
  <2>1. b \in Seq(Element)
    BY BytesOnStream
  <2>2. toServer' = b \o u
    BY <1>7
  <2> HIDE DEF b
  <2> QED
    BY <1>1, <2>1, <2>2, ConcatProperties
<1>10. rd = "length" => Len(prefix') = 2
  BY <1>6
<1>11. ASSUME rd = "payload" PROVE g2 = <<>> /\ payloadSize' = n
  <2>1. Len(g2) = 0
    BY <1>4, <1>7, <1>11
  <2>2. g2 = <<>>
    BY <2>1, EmptySeq
  <2>3. prefix' = h
    BY <1>6, <1>8, <2>2, ConcatEmptySeq
  <2> QED
    BY <1>11, <2>2, <2>3 DEF h
<1>12. rd # "size"
  OBVIOUS
<1>13. /\ fr = Sent(TextFlags, text, n)
       /\ prefix' \o g2 = Header(TextFlags, n, mask)
       /\ toServer' = Bytes(g2) \o (Payload(text, n, mask) \o t)
  BY <1>7, <1>8 DEF h, u
<1>14. InFrame(fr, rd, prefix', payloadSize', toServer', t)
  BY <1>10, <1>11, <1>12, <1>13 DEF InFrame
<1> QED
  BY <1>6, <1>9, <1>14

\* prefix is the beginning of a header.
LEMMA BeginningOfHeader ==
  ASSUME NEW pre \in Seq(Octet), NEW g \in Seq(Octet), NEW h, NEW flags, NEW n \in Size, NEW mask,
         HeaderShape(h, flags, n, mask), h = Cat(pre, g)
  PROVE  /\ Len(g) \in Nat /\ Len(pre) \in Nat /\ Len(pre) + Len(g) = 6 + Width(n)
         /\ Len(pre) = 2 => pre[2] = First(n) + 128
<1>1. /\ Len(h) = Len(pre) + Len(g) /\ \A i \in 1..Len(pre) : h[i] = pre[i]
  <2> DEFINE c == pre \o g
  <2>1. Len(c) = Len(pre) + Len(g) /\ \A i \in 1..Len(pre) : c[i] = pre[i]
    BY JoinAt
  <2>2. c = h
    BY DEF Cat
  <2> HIDE DEF c
  <2> QED
    BY <2>1, <2>2
<1>2. Len(g) \in Nat /\ Len(pre) \in Nat
  BY LenProperties
<1>3. Len(h) = 6 + Width(n) /\ h[2] = First(n) + 128
  BY DEF HeaderShape
<1>4. Len(pre) = 2 => pre[2] = First(n) + 128
  <2>1. Len(pre) = 2 => 2 \in 1..Len(pre)
    BY <1>2
  <2> QED
    BY <1>1, <1>3, <2>1
<1> QED
  BY <1>1, <1>2, <1>3, <1>4

\* The second one.
LEMMA ReadSizeKeeps == ASSUME FramesInv, ReadSize PROVE FramesInv'
<1> DEFINE k == Len(payloadsRcvd)
<1>1. /\ reader = "size" /\ ReadPrefix(1, "length") /\ UNCHANGED <<framesSent, payloadsRcvd>>
  BY DEF ReadSize, ReadPrefix
<1>2. PICK parts : \E t \in Seq(Element) :
              /\ PartsOf(framesSent, parts) /\ PartsJoined(Element, parts, k + 1, t)
              /\ InFrame(framesSent[k + 1], reader, prefix, payloadSize, toServer, t)
  BY <1>1, MiddleOfFrame
<1>3. PICK t \in Seq(Element) :
              /\ PartsOf(framesSent, parts) /\ PartsJoined(Element, parts, k + 1, t)
              /\ InFrame(framesSent[k + 1], reader, prefix, payloadSize, toServer, t)
  BY <1>2
<1>4. k < Len(framesSent) /\ prefix \in Seq(Octet)
  BY <1>1, MiddleOfFrame
<1> DEFINE fr == framesSent[k + 1]
<1>5. PICK text \in Text, n \in Size, mask \in Mask, g \in Seq(Octet) :
        /\ fr = Sent(TextFlags, text, n)
        /\ prefix \o g = Header(TextFlags, n, mask)
        /\ Len(prefix) = 1
        /\ toServer = Bytes(g) \o (Payload(text, n, mask) \o t)
  BY <1>1, <1>3 DEF InFrame
<1>6. TextFlags \in Flags
  BY DEF Flags
<1>7. 1 <= Len(g) /\ Len(prefix) + 1 = 2
  <2>1. HeaderShape(Header(TextFlags, n, mask), TextFlags, n, mask)
    BY <1>6, HeaderOfFrame
  <2>2. Header(TextFlags, n, mask) = Cat(prefix, g)
    BY <1>5 DEF Cat
  <2>3. Len(g) \in Nat /\ Len(prefix) + Len(g) = 6 + Width(n)
    BY <1>4, <2>1, <2>2, BeginningOfHeader
  <2>4. Width(n) \in Nat
    BY ReadersSize
  <2> QED
    BY <1>5, <2>3, <2>4
<1> HIDE DEF fr
<1>8. /\ reader' = "length" /\ prefix' \in Seq(Octet) /\ toServer' \in Seq(Element)
      /\ InFrame(fr, "length", prefix', payloadSize', toServer', t)
  BY <1>1, <1>5, <1>7, HeaderRead
<1> QED
  BY <1>1, <1>3, <1>4, <1>8, StillInFrame DEF fr

\* The rest of the header.
LEMMA ReadLengthKeeps == ASSUME FramesInv, ReadLength PROVE FramesInv'
<1> DEFINE k == Len(payloadsRcvd)
           basic == BasicSize(prefix[2])
           width == SizeWidth(basic)
           c == width + 4
<1>1. /\ reader = "length" /\ ReadPrefix(c, "payload") /\ UNCHANGED <<framesSent, payloadsRcvd>>
      /\ payloadSize' = IF width = 0 THEN basic ELSE FromBigEndian(SubSeq(prefix', 3, 2 + width))
  BY DEF ReadLength, ReadPrefix
<1>2. PICK parts : \E t \in Seq(Element) :
              /\ PartsOf(framesSent, parts) /\ PartsJoined(Element, parts, k + 1, t)
              /\ InFrame(framesSent[k + 1], reader, prefix, payloadSize, toServer, t)
  BY <1>1, MiddleOfFrame
<1>3. PICK t \in Seq(Element) :
              /\ PartsOf(framesSent, parts) /\ PartsJoined(Element, parts, k + 1, t)
              /\ InFrame(framesSent[k + 1], reader, prefix, payloadSize, toServer, t)
  BY <1>2
<1>4. k < Len(framesSent) /\ prefix \in Seq(Octet)
  BY <1>1, MiddleOfFrame
<1> DEFINE fr == framesSent[k + 1]
<1>5. PICK text \in Text, n \in Size, mask \in Mask, g \in Seq(Octet) :
        /\ fr = Sent(TextFlags, text, n)
        /\ prefix \o g = Header(TextFlags, n, mask)
        /\ Len(prefix) = 2
        /\ toServer = Bytes(g) \o (Payload(text, n, mask) \o t)
  BY <1>1, <1>3 DEF InFrame
<1>6. TextFlags \in Flags
  BY DEF Flags
<1>7. HeaderShape(Header(TextFlags, n, mask), TextFlags, n, mask)
  BY <1>6, HeaderOfFrame
<1>8. /\ Len(g) \in Nat /\ Len(prefix) + Len(g) = 6 + Width(n) /\ Width(n) \in Nat
      /\ prefix[2] = First(n) + 128
  <2>1. Header(TextFlags, n, mask) = Cat(prefix, g)
    BY <1>5 DEF Cat
  <2>2. Width(n) \in Nat
    BY ReadersSize
  <2>3. Len(prefix) = 2
    BY <1>5
  <2>4. /\ Len(g) \in Nat /\ Len(prefix) + Len(g) = 6 + Width(n)
        /\ Len(prefix) = 2 => prefix[2] = First(n) + 128
    BY <1>4, <1>7, <2>1, BeginningOfHeader
  <2> QED
    BY <2>2, <2>3, <2>4
<1>9. basic = First(n) /\ width = Width(n) /\ (Width(n) = 0 => First(n) = n)
  BY <1>8, ReadersSize
<1> HIDE DEF fr, basic, width
<1>10. Len(g) = c /\ c \in Nat
  BY <1>5, <1>8, <1>9
<1>11. prefix' = Header(TextFlags, n, mask) => payloadSize' = n
  BY <1>1, <1>7, <1>9 DEF HeaderShape
<1> HIDE DEF c
<1>12. c <= Len(g)
  BY <1>10
<1>13. /\ reader' = "payload" /\ prefix' \in Seq(Octet) /\ toServer' \in Seq(Element)
       /\ InFrame(fr, "payload", prefix', payloadSize', toServer', t)
  BY <1>1, <1>5, <1>10, <1>11, <1>12, HeaderRead
<1> QED
  BY <1>1, <1>3, <1>4, <1>13, StillInFrame DEF fr

\* What unmasking a payload gives.
LEMMA Unmasked ==
  ASSUME NEW text \in Text, NEW n \in Size, NEW mask \in Mask,
         HeaderShape(prefix, TextFlags, n, mask)
  PROVE  /\ SizeIs(Payload(text, n, mask), n)
         /\ Len(Payload(text, n, mask)) = IF n = 0 THEN 0 ELSE 1
         /\ [i \in 1..Len(Payload(text, n, mask)) |-> Unmask(Payload(text, n, mask)[i])]
              = Payload(text, n, NoMask)
<1> DEFINE e == [text |-> text, size |-> n, mask |-> mask]
           z == [text |-> text, size |-> n, mask |-> NoMask]
           p == Payload(text, n, mask)
<1>1. MaskOffset = 2 + Width(n)
  <2>1. prefix[2] = First(n) + 128
    BY DEF HeaderShape
  <2> QED
    BY <2>1, ReadersSize DEF MaskOffset
<1>2. mask \in [1..4 -> Int]
  BY MasksAreMasks
<1>3. ASSUME NEW i \in 1..4 PROVE Xor(mask[i], prefix[MaskOffset + i]) = 0
  <2>1. prefix[MaskOffset + i] = mask[i]
    BY <1>1 DEF HeaderShape
  <2>2. mask[i] \in Int
    BY <1>2
  <2> QED
    BY <2>1, <2>2, XorSelf
<1>4. Unmask(e) = z
  <2>1. [i \in 1..4 |-> Xor(mask[i], prefix[MaskOffset + i])] = NoMask
    BY <1>3 DEF NoMask
  <2>2. e.mask = mask
    OBVIOUS
  <2>3. Unmask(e) = [e EXCEPT !.mask = [i \in 1..4 |-> Xor(mask[i], prefix[MaskOffset + i])]]
    BY <2>2 DEF Unmask
  <2> QED
    BY <2>1, <2>3
<1>5. "size" \in DOMAIN e /\ e.size = n
  OBVIOUS
<1> HIDE DEF e, z
<1>6. CASE n = 0
  <2>1. p = <<>> /\ Payload(text, n, NoMask) = <<>>
    BY <1>6 DEF Payload
  <2>2. Len(p) = 0 /\ 1..Len(p) = {}
    BY <2>1
  <2>3. SizeIs(p, n)
    BY <2>2 DEF SizeIs
  <2>4. [i \in 1..Len(p) |-> Unmask(p[i])] = <<>>
    <3> HIDE DEF p
    <3> QED
      BY <2>2
  <2> QED
    BY <1>6, <2>1, <2>2, <2>3, <2>4
<1>7. CASE n # 0
  <2>1. p = <<e>> /\ Payload(text, n, NoMask) = <<z>>
    BY <1>7 DEF Payload, e, z
  <2>2. Len(p) = 1 /\ p[1] = e
    BY <2>1
  <2> HIDE DEF p
  <2>3. SizeIs(p, n)
    BY <1>5, <2>2 DEF SizeIs
  <2>4. [i \in 1..Len(p) |-> Unmask(p[i])] = <<z>>
    <3>1. \A i \in 1..1 : Unmask(p[i]) = z
      BY <1>4, <2>2
    <3>2. [i \in 1..Len(p) |-> Unmask(p[i])] = [i \in 1..1 |-> z]
      BY <2>2, <3>1
    <3> QED
      BY <3>2
  <2> QED
    BY <1>7, <2>1, <2>2, <2>3, <2>4 DEF p
<1> QED
  BY <1>6, <1>7

\* The payload, which ends the frame.
LEMMA ReadPayloadKeeps == ASSUME FramesInv, ReadPayload PROVE FramesInv'
<1> DEFINE k == Len(payloadsRcvd)
<1>1. /\ reader = "payload" /\ prefix' = <<>> /\ payloadSize' = payloadSize
      /\ framesSent' = framesSent
  BY DEF ReadPayload
<1>2. PICK parts : \E t \in Seq(Element) :
              /\ PartsOf(framesSent, parts) /\ PartsJoined(Element, parts, k + 1, t)
              /\ InFrame(framesSent[k + 1], reader, prefix, payloadSize, toServer, t)
  BY <1>1, MiddleOfFrame
<1>3. PICK t \in Seq(Element) :
              /\ PartsOf(framesSent, parts) /\ PartsJoined(Element, parts, k + 1, t)
              /\ InFrame(framesSent[k + 1], reader, prefix, payloadSize, toServer, t)
  BY <1>2
<1>4. k < Len(framesSent) /\ k \in Nat /\ prefix \in Seq(Octet)
  BY <1>1, MiddleOfFrame
<1>5. PICK text \in Text, n \in Size, mask \in Mask, g \in Seq(Octet) :
        /\ framesSent[k + 1] = Sent(TextFlags, text, n)
        /\ prefix \o g = Header(TextFlags, n, mask)
        /\ g = <<>> /\ payloadSize = n
        /\ toServer = Bytes(g) \o (Payload(text, n, mask) \o t)
  BY <1>1, <1>3 DEF InFrame
<1>6. TextFlags \in Flags
  BY DEF Flags
<1> DEFINE p == Payload(text, n, mask)
           got == Payload(text, n, NoMask)
<1>7. p \in Seq(Element) /\ got \in Seq(Element)
  BY MasksAreMasks, NoMaskIs, PayloadShape
<1>8. HeaderShape(prefix, TextFlags, n, mask)
  <2>1. prefix \o <<>> = Header(TextFlags, n, mask)
    BY <1>5
  <2>2. prefix \o <<>> = prefix
    BY <1>4, ConcatEmptySeq
  <2> QED
    BY <1>6, <2>1, <2>2, HeaderOfFrame
<1>9. toServer = Cat(p, t)
  <2> DEFINE u == p \o t
  <2>1. Bytes(<<>>) = <<>>
    BY DEF Bytes
  <2>2. toServer = <<>> \o u
    BY <1>5, <2>1
  <2>3. u \in Seq(Element)
    BY <1>7, ConcatProperties
  <2> HIDE DEF u
  <2>4. toServer = u
    BY <2>2, <2>3, ConcatEmptySeq
  <2> QED
    BY <2>4 DEF u, Cat
<1>10. /\ SizeIs(p, n) /\ Len(p) = (IF n = 0 THEN 0 ELSE 1)
       /\ [i \in 1..Len(p) |-> Unmask(p[i])] = got
  BY <1>8, Unmasked
<1> HIDE DEF p, got
<1>11. SubSeq(toServer, 1, Len(p)) = p /\ SubSeq(toServer, Len(p) + 1, Len(toServer)) = t
  <2>1. Splits(toServer, p, t)
    BY <1>7, <1>9, FirstTaken
  <2> QED
    BY <2>1 DEF Splits
<1>12. SubSeq(toServer, 1, IF payloadSize = 0 THEN 0 ELSE 1) = p
  BY <1>5, <1>10, <1>11
<1>13. /\ payloadsRcvd' = Append(payloadsRcvd, [i \in 1..Len(p) |-> Unmask(p[i])])
       /\ toServer' = SubSeq(toServer, Len(p) + 1, Len(toServer)) /\ reader' = "flags"
  <2>1. SizeIs(p, payloadSize)
    BY <1>5, <1>10
  <2> QED
    BY <1>12, <2>1 DEF ReadPayload
<1>14. payloadsRcvd' = Append(payloadsRcvd, got) /\ toServer' = t
  BY <1>10, <1>11, <1>13
<1>15. payloadsRcvd \in Seq(Seq(Element)) /\ framesSent \in Seq(FrameSet)
  BY DEF FramesInv, FramesTyped
<1>16. /\ payloadsRcvd' \in Seq(Seq(Element)) /\ Len(payloadsRcvd') = k + 1
       /\ payloadsRcvd'[k + 1] = got /\ \A i \in 1..k : payloadsRcvd'[i] = payloadsRcvd[i]
  BY <1>7, <1>14, <1>15, AppendProperties DEF k
<1>17. framesSent[k + 1].flags = TextFlags /\ framesSent[k + 1].payload = got
  BY <1>5, <1>6, SentShape DEF got
<1> HIDE DEF k
<1>18. Len(framesSent) \in Nat /\ k + 1 <= Len(framesSent) /\ reader' = "flags"
  BY <1>4, <1>13, <1>15, LenProperties
<1>19. FramesTyped'
  <2>1. prefix' \in Seq(Octet)
    BY <1>1, ConcatEmptySeq
  <2> QED
    BY <1>1, <1>14, <1>15, <1>16, <1>18, <2>1 DEF FramesTyped, Reading
<1>20. ReadTruly'
  <2> SUFFICES ASSUME NEW i \in 1..k+1
               PROVE  framesSent[i].flags = TextFlags /\ payloadsRcvd'[i] = framesSent[i].payload
    BY <1>1, <1>16 DEF ReadTruly
  <2>1. i \in 1..k \/ i = k + 1
    BY <1>4
  <2> QED
    BY <1>16, <1>17, <2>1 DEF FramesInv, ReadTruly, k
<1>21. OnTrack'
  <2>1. At(parts, framesSent, k + 1, "flags", <<>>, payloadSize', t)
    BY <1>3 DEF At
  <2> QED
    BY <1>1, <1>3, <1>14, <1>16, <1>18, <2>1 DEF OnTrack
<1>22. EndedBy'
  BY <1>18 DEF EndedBy
<1> QED
  BY <1>19, <1>20, <1>21, <1>22 DEF FramesInv

\* FramesInv is inductive.
LEMMA FramesInvInductive ==
  /\ FramesInit => FramesInv
  /\ FramesInv /\ [FramesNext]_framesVars => FramesInv'
<1>1. ASSUME FramesInit PROVE FramesInv
  <2>1. <<>> \in Seq(Seq(Element)) /\ <<>> \in Seq(Element) /\ <<>> \in Seq(Octet)
        /\ <<>> \in Seq(FrameSet) /\ Len(<<>>) = 0
    BY ConcatEmptySeq
  <2>2. FramesTyped
    BY <1>1, <2>1 DEF FramesInit, FramesTyped, Reading
  <2>3. ReadTruly
    BY <1>1, <2>1 DEF FramesInit, ReadTruly
  <2>4. PartsJoined(Element, <<>>, 0, <<>>)
    BY <2>1, NothingJoined
  <2>5. PartsOf(<<>>, <<>>)
    BY <2>1 DEF PartsOf
  <2>6. At(<<>>, <<>>, 0, "flags", <<>>, 0, <<>>)
    BY <2>4 DEF At
  <2>7. OnTrack
    BY <1>1, <2>1, <2>5, <2>6 DEF FramesInit, OnTrack
  <2>8. EndedBy
    BY <1>1 DEF FramesInit, EndedBy
  <2> QED
    BY <2>2, <2>3, <2>7, <2>8 DEF FramesInv
<1>2. ASSUME FramesInv, [FramesNext]_framesVars PROVE FramesInv'
  <2>1. ASSUME NEW flags \in {TextFlags, BinaryFlags, CloseFlags}, NEW text \in Text, NEW n \in Size,
               NEW mask \in Mask, ClientSendsFrame(flags, text, n, mask)
        PROVE  FramesInv'
    BY <1>2, <2>1, ClientSendsFrameKeeps DEF Flags
  <2>2. CASE Read
    BY <1>2, <2>2, ReadFlagsKeeps, ReadSizeKeeps, ReadLengthKeeps, ReadPayloadKeeps DEF Read
  <2>3. CASE UNCHANGED <<toServer, readerVars, framesSent>>
    <3>1. /\ toServer' = toServer /\ reader' = reader /\ prefix' = prefix /\ payloadSize' = payloadSize
          /\ payloadsRcvd' = payloadsRcvd /\ framesSent' = framesSent
      BY <2>3 DEF readerVars
    <3>2. FramesTyped' /\ ReadTruly' /\ EndedBy'
      BY <1>2, <3>1 DEF FramesInv, FramesTyped, ReadTruly, EndedBy, Reading
    <3>3. OnTrack'
      BY <1>2, <3>1 DEF FramesInv, OnTrack, Reading
    <3> QED
      BY <3>2, <3>3 DEF FramesInv
  <2>4. ASSUME NEW part \in Text, NEW n \in Size, WriteMessage(part, n) PROVE FramesInv'
    BY <2>3, <2>4 DEF WriteMessage
  <2>5. CASE UNCHANGED framesVars
    BY <2>3, <2>5 DEF framesVars
  <2> QED
    BY <1>2, <2>1, <2>2, <2>4, <2>5 DEF FramesNext
<1> QED
  BY <1>1, <1>2

\* For any sizes, texts and masks: what the server reads are the payloads of the
\* text frames, in their order and without their masks, as far as the reader got.
THEOREM TextFramesRead == FramesSpec => []FramesRead
<1>1. FramesInv => FramesRead
  <2> SUFFICES ASSUME FramesInv PROVE FramesRead
    OBVIOUS
  <2>1. reader # "astray" /\ Len(payloadsRcvd) <= Len(framesSent)
    BY DEF FramesInv, FramesTyped, Reading
  <2>2. /\ reader = "closed" => framesSent[Len(payloadsRcvd) + 1].flags = CloseFlags
        /\ reader = "failed" => framesSent[Len(payloadsRcvd) + 1].flags = BinaryFlags
    BY DEF FramesInv, EndedBy
  <2> QED
    BY <2>1, <2>2 DEF FramesInv, ReadTruly, FramesRead
<1> QED
  BY <1>1, FramesInvInductive, PTL DEF FramesSpec

-----------------------------------------------------------------------------
(* Writing *)

ServerHeader(flags, n) == <<flags>> \o WriteSize(n)

\* The part of the stream that is the message m.
IsMessage(m, part) ==
  \E flags \in Flags, text \in Text, n \in Size :
    m = Payload(text, n, NoMask) /\ part = Bytes(ServerHeader(flags, n)) \o Payload(text, n, NoMask)

MessageParts(sent, parts) ==
  /\ parts \in Seq(Seq(Element)) /\ Len(parts) = Len(sent)
  /\ \A i \in 1..Len(sent) : IsMessage(sent[i], parts[i])

WrittenInv ==
  /\ toClient \in Seq(Element) /\ written \in Seq(Seq(Element))
  /\ \E parts : MessageParts(written, parts) /\ PartsJoined(Element, parts, 0, toClient)

\* What a client needs to know of a header.
LEMMA ServerHeaderShape ==
  ASSUME NEW flags \in Flags, NEW n \in Size, NEW h, h = ServerHeader(flags, n)
  PROVE  /\ h \in Seq(Octet) /\ Len(h) = 2 + Width(n) /\ h[2] = First(n)
         /\ Width(n) # 0 =>
              /\ FromBigEndian(BigEndian(n, Width(n))) = n
              /\ \A i \in 1..Width(n) : h[2 + i] = BigEndian(n, Width(n))[i]
<1> DEFINE w == Width(n)
           f == <<flags>>
           z == WriteSize(n)
<1>1. w \in Nat /\ First(n) \in Int
  BY ReadersSize
<1>2. /\ z \in Seq(Octet) /\ Len(z) = 1 + w /\ z[1] = First(n) + 0
      /\ w # 0 => /\ FromBigEndian(BigEndian(n, w)) = n
                  /\ \A i \in 1..w : z[1 + i] = BigEndian(n, w)[i]
  BY SizeShape DEF SizeBytes
<1>3. f \in Seq(Octet) /\ Len(f) = 1 /\ f[1] = flags
  <2>1. flags \in Int
    BY DEF Flags, TextFlags, BinaryFlags, CloseFlags
  <2> QED
    BY <2>1 DEF Octet
<1>4. h = f \o z
  BY DEF ServerHeader
<1> HIDE DEF w, f, z
<1>5. /\ h \in Seq(Octet) /\ Len(h) = 2 + w /\ \A i \in 1..1+w : h[1 + i] = z[i]
  <2> DEFINE c == f \o z
  <2>1. /\ c \in Seq(Octet) /\ Len(c) = Len(f) + Len(z)
        /\ \A i \in 1..Len(z) : c[Len(f) + i] = z[i]
    <3>1. f \in Seq(Octet) /\ z \in Seq(Octet)
      BY <1>2, <1>3
    <3> QED
      BY <3>1, JoinAt
  <2>2. c = h
    BY <1>4
  <2> HIDE DEF c
  <2> QED
    BY <1>1, <1>2, <1>3, <2>1, <2>2
<1>6. h[2] = First(n)
  <2>1. 1 \in 1..1+w /\ 1 + 1 = 2
    BY <1>1
  <2> QED
    BY <1>1, <1>2, <1>5, <2>1
<1>7. ASSUME NEW i \in 1..w PROVE h[2 + i] = z[1 + i]
  <2>1. 1 + i \in 1..1+w /\ 1 + (1 + i) = 2 + i
    BY <1>1
  <2> QED
    BY <1>5, <2>1
<1> QED
  BY <1>2, <1>5, <1>6, <1>7 DEF w

\* A client finds the message that is first on the stream.
FoundFirst(s, m, t) == FirstFrame(s).ok /\ FirstFrame(s).payload = m /\ FirstFrame(s).rest = t

\* The client finds a message, and what follows it.
LEMMA MessageFound ==
  ASSUME NEW m, NEW part, IsMessage(m, part), NEW t \in Seq(Element)
  PROVE  FoundFirst(part \o t, m, t)
<1>1. PICK flags \in Flags, text \in Text, n \in Size :
        m = Payload(text, n, NoMask) /\ part = Bytes(ServerHeader(flags, n)) \o Payload(text, n, NoMask)
  BY DEF IsMessage
<1> DEFINE h == ServerHeader(flags, n)
           w == Width(n)
           b == Bytes(h)
           s == part \o t
<1>2. /\ h \in Seq(Octet) /\ Len(h) = 2 + w /\ h[2] = First(n)
      /\ w # 0 => /\ FromBigEndian(BigEndian(n, w)) = n
                  /\ \A i \in 1..w : h[2 + i] = BigEndian(n, w)[i]
  BY ServerHeaderShape
<1>3. /\ First(n) \in Int /\ (w = 0 => First(n) = n) /\ n \in Nat /\ w \in {0, 2, 8}
  BY ReadersSize
<1>4. /\ m \in Seq(Element) /\ (n = 0 => m = <<>>)
      /\ (n # 0 => Len(m) = 1 /\ m[1] = [text |-> text, size |-> n, mask |-> NoMask])
  BY <1>1, NoMaskIs, PayloadShape
<1>5. /\ b \in Seq(Element) /\ Len(b) = 2 + w /\ \A i \in 1..2+w : b[i] = OnStream(h[i])
  BY <1>2, BytesOnStream
<1>6. part = b \o m
  BY <1>1
<1> HIDE DEF h, b, w
<1>6a. b \in Seq(Element) /\ m \in Seq(Element)
  BY <1>4, <1>5
<1>7. s = Cat(b, Cat(m, t))
  <2>1. (b \o m) \o t = b \o (m \o t)
    BY <1>6a, Regrouped
  <2> QED
    BY <1>6, <2>1 DEF Cat
<1> HIDE DEF s
<1>8. /\ Len(s) = Len(b) + Len(m) + Len(t)
      /\ \A i \in 1..Len(b) : s[i] = b[i]
      /\ SubSeq(s, Len(b) + 1, Len(b) + Len(m)) = m
      /\ SubSeq(s, Len(b) + Len(m) + 1, Len(s)) = t
  <2>1. Three(s, b, m, t)
    BY <1>6a, <1>7, MiddleTaken
  <2> QED
    BY <2>1 DEF Three
<1>9. ASSUME NEW i \in 1..2+w PROVE s[i].byte = h[i]
  <2>1. s[i] = OnStream(h[i])
    BY <1>5, <1>8
  <2>2. h[i] \in Int
    BY <1>2, OctetsAreNumbers
  <2> QED
    BY <2>1, <2>2, OnStreamIs
<1> DEFINE first == s[2].byte
           width == IF first = 126 THEN 2 ELSE IF first = 127 THEN 8 ELSE 0
           size == IF width = 0 THEN first
                   ELSE FromBigEndian([i \in 1..width |-> s[2 + i].byte])
           end == 2 + width + (IF size = 0 THEN 0 ELSE 1)
<1>10. first = First(n)
  <2>1. 2 \in 1..2+w
    BY <1>3
  <2> QED
    BY <1>2, <1>9, <2>1
<1>11. width = w
  <2>1. CASE w = 0
    <3>1. n <= 125
      BY <2>1, SizeCases DEF w
    <3> QED
      BY <1>3, <1>10, <2>1, <3>1
  <2>2. CASE w = 2
    BY <1>10, <2>2 DEF First, w
  <2>3. CASE w = 8
    BY <1>10, <2>3 DEF First, w
  <2> QED
    BY <1>3, <2>1, <2>2, <2>3
<1> HIDE DEF first, width
<1>12. size = n
  <2>1. CASE w = 0
    BY <1>3, <1>10, <1>11, <2>1
  <2>2. CASE w # 0
    <3> DEFINE z == BigEndian(n, w)
    <3>1. ASSUME NEW i \in 1..w PROVE s[2 + i].byte = z[i]
      <4>1. 2 + i \in 1..2+w
        BY <1>3
      <4> QED
        BY <1>2, <1>9, <2>2, <4>1
    <3>2. [i \in 1..w |-> s[2 + i].byte] = z
      <4>1. z = [i \in 1..w |-> z[i]]
        BY DEF BigEndian
      <4> HIDE DEF z
      <4>2. [i \in 1..w |-> s[2 + i].byte] = [i \in 1..w |-> z[i]]
        BY <3>1
      <4> QED
        BY <4>1, <4>2
    <3> HIDE DEF z
    <3>3. FromBigEndian(z) = n
      BY <1>2, <2>2 DEF z
    <3> QED
      BY <1>11, <2>2, <3>2, <3>3
  <2> QED
    BY <2>1, <2>2
<1> HIDE DEF size
<1>13. Len(m) = (IF n = 0 THEN 0 ELSE 1) /\ Len(t) \in Nat
  BY <1>4, LenProperties
<1>14. end = Len(b) + Len(m) /\ 3 + width = Len(b) + 1 /\ end + 1 = Len(b) + Len(m) + 1 /\ end <= Len(s)
  BY <1>3, <1>5, <1>8, <1>11, <1>12, <1>13
<1> HIDE DEF end
<1>15. SubSeq(s, 3 + width, end) = m /\ SubSeq(s, end + 1, Len(s)) = t
  BY <1>8, <1>14
<1>16. SizeIs(m, size)
  <2>1. \A i \in 1..Len(m) : "size" \in DOMAIN m[i] /\ m[i].size = n
    BY <1>4, <1>13
  <2> QED
    BY <1>12, <2>1 DEF SizeIs
<1>17. FirstFrame(s) = [ok |-> end <= Len(s) /\ SizeIs(SubSeq(s, 3 + width, end), size),
                        payload |-> SubSeq(s, 3 + width, end),
                        rest |-> SubSeq(s, end + 1, Len(s))]
  BY DEF FirstFrame, end, size, width, first
<1>18. FirstFrame(s) = [ok |-> TRUE, payload |-> m, rest |-> t]
  <2>1. (end <= Len(s) /\ SizeIs(m, size)) = TRUE
    BY <1>14, <1>16
  <2> QED
    BY <1>15, <1>17, <2>1
<1> QED
  BY <1>18 DEF FoundFirst, s

\* The server's step.
LEMMA WriteMessageKeeps ==
  ASSUME WrittenInv, NEW text \in Text, NEW n \in Size, WriteMessage(text, n)
  PROVE  WrittenInv'
<1> DEFINE flags == IF text \in JpegText /\ n > 7 THEN BinaryFlags ELSE TextFlags
           b == Bytes(ServerHeader(flags, n))
           m == Payload(text, n, NoMask)
           p == b \o m
           N == Len(written)
<1>1. flags \in Flags
  BY DEF Flags
<1>2. toClient' = (toClient \o b) \o m /\ written' = Append(written, m)
  BY DEF WriteMessage, ServerHeader
<1>3. toClient \in Seq(Element) /\ written \in Seq(Seq(Element)) /\ N \in Nat
  BY LenProperties DEF WrittenInv
<1>4. PICK parts : MessageParts(written, parts) /\ PartsJoined(Element, parts, 0, toClient)
  BY DEF WrittenInv
<1> HIDE DEF flags
<1>5. b \in Seq(Element)
  BY <1>1, ServerHeaderShape, BytesOnStream
<1>6. m \in Seq(Element)
  BY NoMaskIs, PayloadShape
<1>7. IsMessage(m, p)
  BY <1>1 DEF IsMessage
<1> HIDE DEF b, m, N
<1>8. p \in Seq(Element)
  BY <1>5, <1>6, ConcatProperties
<1>9. toClient' = toClient \o p
  BY <1>2, <1>3, <1>5, <1>6, Regrouped
<1> HIDE DEF p
<1>10. toClient' \in Seq(Element)
  BY <1>3, <1>8, <1>9, ConcatProperties
<1>11. /\ written' \in Seq(Seq(Element)) /\ Len(written') = N + 1 /\ written'[N+1] = m
       /\ \A i \in 1..N : written'[i] = written[i]
  BY <1>2, <1>3, <1>6, AppendProperties DEF N
<1>12. parts \in Seq(Seq(Element)) /\ Len(parts) = N /\ \A i \in 1..N : IsMessage(written[i], parts[i])
  BY <1>4 DEF MessageParts, N
<1> DEFINE parts2 == Append(parts, p)
<1>13. /\ parts2 \in Seq(Seq(Element)) /\ Len(parts2) = N + 1 /\ parts2[N+1] = p
       /\ \A i \in 1..N : parts2[i] = parts[i]
  BY <1>8, <1>12, AppendProperties
<1> HIDE DEF parts2
<1>14. MessageParts(written', parts2)
  <2>1. ASSUME NEW i \in 1..N+1 PROVE IsMessage(written'[i], parts2[i])
    <3>1. i \in 1..N \/ i = N + 1
      BY <1>3
    <3> QED
      BY <1>7, <1>11, <1>12, <1>13, <3>1
  <2> QED
    BY <1>11, <1>13, <2>1 DEF MessageParts
<1>15. PartsJoined(Element, parts2, 0, toClient')
  <2>1. 0 \in 0..Len(parts)
    BY <1>3, <1>12
  <2>2. PartsJoined(Element, parts2, 0, toClient \o p)
    BY <1>4, <1>8, <1>12, <2>1, JoinedParts DEF parts2
  <2> QED
    BY <1>9, <2>2
<1> QED
  BY <1>10, <1>11, <1>14, <1>15 DEF WrittenInv

\* WrittenInv is inductive.
LEMMA WrittenInvInductive ==
  /\ FramesInit => WrittenInv
  /\ WrittenInv /\ [FramesNext]_framesVars => WrittenInv'
<1>1. ASSUME FramesInit PROVE WrittenInv
  <2>1. <<>> \in Seq(Seq(Element)) /\ <<>> \in Seq(Element) /\ Len(<<>>) = 0
    BY ConcatEmptySeq
  <2>2. PartsJoined(Element, <<>>, 0, <<>>)
    BY <2>1, NothingJoined
  <2>3. MessageParts(<<>>, <<>>)
    BY <2>1 DEF MessageParts
  <2> QED
    BY <1>1, <2>1, <2>2, <2>3 DEF FramesInit, WrittenInv
<1>2. ASSUME WrittenInv, [FramesNext]_framesVars PROVE WrittenInv'
  <2>1. ASSUME NEW part \in Text, NEW n \in Size, WriteMessage(part, n) PROVE WrittenInv'
    BY <1>2, <2>1, WriteMessageKeeps
  <2>2. ASSUME toClient' = toClient, written' = written PROVE WrittenInv'
    BY <1>2, <2>2 DEF WrittenInv
  <2>3. ASSUME NEW flags \in {TextFlags, BinaryFlags, CloseFlags}, NEW text \in Text, NEW n \in Size,
               NEW mask \in Mask, ClientSendsFrame(flags, text, n, mask)
        PROVE  WrittenInv'
    BY <2>2, <2>3 DEF ClientSendsFrame
  <2>4. CASE Read
    BY <2>2, <2>4 DEF Read, ReadFlags, ReadSize, ReadLength, ReadPayload, ReadPrefix
  <2>5. CASE UNCHANGED framesVars
    BY <2>2, <2>5 DEF framesVars
  <2> QED
    BY <1>2, <2>1, <2>3, <2>4, <2>5 DEF FramesNext
<1> QED
  BY <1>1, <1>2

\* What the client leaves unread, frame by frame, is what is left of the parts.
LEMMA UnreadIs ==
  ASSUME NEW f, NEW parts, Joining(Element, f, parts, 0, toClient), MessageParts(written, parts),
         written \in Seq(Seq(Element))
  PROVE  /\ \A i \in 0..Len(written) : Unread[i] = f[i]
         /\ \A i \in 1..Len(written) : FoundFirst(f[i-1], written[i], f[i])
<1> DEFINE N == Len(written)
           R(g) == [i \in 0..N |-> IF i = 0 THEN toClient ELSE FirstFrame(g[i-1]).rest]
<1>1. N \in Nat /\ Len(parts) = N /\ \A i \in 1..N : IsMessage(written[i], parts[i])
  BY LenProperties DEF MessageParts
<1>2. /\ f \in [0..N -> Seq(Element)] /\ f[0] = toClient
      /\ \A i \in 0..N-1 : f[i] = parts[i+1] \o f[i+1]
  BY <1>1 DEF Joining
<1> HIDE DEF N
<1>3. ASSUME NEW i \in 1..N PROVE FoundFirst(f[i-1], written[i], f[i])
  <2> DEFINE t == f[i]
             part == parts[i]
             s == f[i-1]
  <2>1. i - 1 \in 0..N-1 /\ (i - 1) + 1 = i /\ i \in 0..N
    BY <1>1
  <2>2. s = part \o t
    BY <1>2, <2>1
  <2>3. t \in Seq(Element) /\ IsMessage(written[i], part)
    BY <1>1, <1>2, <2>1
  <2> HIDE DEF s, part, t
  <2>4. FoundFirst(part \o t, written[i], t)
    BY <2>3, MessageFound
  <2>5. FoundFirst(s, written[i], t)
    BY <2>2, <2>4
  <2> QED
    BY <2>5 DEF s, t
<1>4. ASSUME NEW i \in 0..N PROVE f[i] = IF i = 0 THEN toClient ELSE FirstFrame(f[i-1]).rest
  <2>1. CASE i = 0
    BY <1>2, <2>1
  <2>2. CASE i # 0
    <3>1. i \in 1..N
      BY <1>1, <2>2
    <3>2. FirstFrame(f[i-1]).rest = f[i]
      BY <1>3, <3>1 DEF FoundFirst
    <3> QED
      BY <2>2, <3>2
  <2> QED
    BY <2>1, <2>2
<1>5. f = R(f)
  BY <1>2, <1>4
<1>6. Unread = CHOOSE g : g = R(g)
  BY DEF Unread, N
<1> HIDE DEF R
<1>7. Unread = R(Unread)
  BY <1>5, <1>6
<1>8. \A i \in 0..N : Unread[i] = IF i = 0 THEN toClient ELSE FirstFrame(Unread[i-1]).rest
  BY <1>7 DEF R
<1> DEFINE T == {i \in 0..N : Unread[i] # f[i]}
<1>9. T = {}
  <2> SUFFICES ASSUME T # {} PROVE FALSE
    OBVIOUS
  <2>1. T \in SUBSET Nat
    BY <1>1
  <2>2. \E x \in T : \A y \in T : x <= y
    <3> HIDE DEF T
    <3> QED
      BY <2>1, LeastElement
  <2>3. PICK x \in T : \A y \in T : x <= y
    BY <2>2
  <2>4. x # 0
    BY <1>1, <1>2, <1>8
  <2>5. x \in 0..N /\ x - 1 \in 0..N /\ ~(x <= x - 1)
    BY <1>1, <2>4
  <2>6. Unread[x-1] = f[x-1]
    BY <2>3, <2>5
  <2>7. Unread[x] = f[x]
    BY <1>4, <1>8, <2>4, <2>5, <2>6
  <2> QED
    BY <2>7
<1> QED
  BY <1>3, <1>9 DEF N

\* For any sizes and texts: a client that reads what the server wrote finds the
\* payloads it was given, in their order, and nothing after them.
THEOREM MessagesWritten == FramesSpec => []FramesWritten
<1>1. WrittenInv => FramesWritten
  <2> SUFFICES ASSUME WrittenInv PROVE FramesWritten
    OBVIOUS
  <2>1. PICK parts : MessageParts(written, parts) /\ PartsJoined(Element, parts, 0, toClient)
    BY DEF WrittenInv
  <2>2. PICK f : Joining(Element, f, parts, 0, toClient)
    BY <2>1 DEF PartsJoined
  <2>3. written \in Seq(Seq(Element)) /\ Len(written) \in Nat /\ Len(parts) = Len(written)
    BY <2>1, LenProperties DEF WrittenInv, MessageParts
  <2>4. /\ \A i \in 0..Len(written) : Unread[i] = f[i]
        /\ \A i \in 1..Len(written) : FoundFirst(f[i-1], written[i], f[i])
    BY <2>1, <2>2, <2>3, UnreadIs
  <2>5. Unread[Len(written)] = <<>>
    <3>1. f[Len(written)] = <<>>
      BY <2>2, <2>3 DEF Joining
    <3>2. Len(written) \in 0..Len(written)
      BY <2>3
    <3> QED
      BY <2>4, <3>1, <3>2
  <2>6. ASSUME NEW i \in 1..Len(written)
        PROVE  FirstFrame(Unread[i-1]).ok /\ FirstFrame(Unread[i-1]).payload = written[i]
    <3>1. i - 1 \in 0..Len(written)
      BY <2>3
    <3>2. Unread[i-1] = f[i-1]
      BY <2>4, <3>1
    <3>3. FoundFirst(f[i-1], written[i], f[i])
      BY <2>4
    <3> QED
      BY <3>2, <3>3 DEF FoundFirst
  <2> QED
    BY <2>5, <2>6 DEF FramesWritten
<1> QED
  BY <1>1, WrittenInvInductive, PTL DEF FramesSpec
=============================================================================
