--------------------------- MODULE AlgorithmsProofs ---------------------------
(***************************************************************************)
(* The sequential code: the codecs of the wire for buffers of any length   *)
(* and content, answers cut into any number of chunks, and the simulate    *)
(* binary for every window of the governor, every number of tickets or     *)
(* trials and every width of the nonce; then what the sweeps of            *)
(* MCAlgorithms check, for every value of its constants.                   *)
(***************************************************************************)
EXTENDS MCAlgorithms, WinOddsProofs, FiniteSetTheorems, SequenceTheorems, WellFoundedInduction, TLAPS

-----------------------------------------------------------------------------
(* Frames.  A buffer put together of blocks comes apart into them again,   *)
(* and whatever the decoder takes off a buffer is a block encoded.         *)
Buffers == Seq(Nat)

LEMMA EmptyBuffer ==
  /\ <<>> \in Buffers /\ Len(<<>>) = 0
  /\ \A s \in Buffers : s \o <<>> = s /\ (s # <<>> => Len(s) >= 1)
<1>1. ASSUME NEW s \in Buffers PROVE s \o <<>> = s /\ (s # <<>> => Len(s) >= 1)
  BY ConcatEmptySeq, EmptySeq DEF Buffers
<1> QED
  BY <1>1, EmptySeq DEF Buffers

LEMMA Joined ==
  ASSUME NEW s \in Buffers, NEW t \in Buffers
  PROVE  /\ s \o t \in Buffers
         /\ Len(s) \in Nat /\ Len(t) \in Nat /\ Len(s \o t) = Len(s) + Len(t)
         /\ \A i \in 1 .. Len(s) + Len(t) : (s \o t)[i] = IF i <= Len(s) THEN s[i] ELSE t[i - Len(s)]
BY ConcatProperties, LenProperties DEF Buffers

LEMMA Regrouped ==
  ASSUME NEW s \in Buffers, NEW t \in Buffers, NEW u \in Buffers
  PROVE  (s \o t) \o u = s \o (t \o u)
BY ConcatAssociative, SMTT(20) DEF Buffers

LEMMA ShortTuples ==
  ASSUME NEW a \in Nat, NEW b \in Nat, NEW c \in Nat
  PROVE  /\ <<a>> \in Buffers /\ Len(<<a>>) = 1
         /\ <<a, b>> \in Buffers /\ Len(<<a, b>>) = 2
         /\ <<a, b, c>> \in Buffers /\ Len(<<a, b, c>>) = 3
         /\ <<a, b>> \o <<c>> = <<a, b, c>>
<1> DEFINE s == <<a, b>>
           t == <<c>>
           u == <<a, b, c>>
<1>1. /\ s \in Buffers /\ t \in Buffers /\ u \in Buffers
      /\ Len(s) = 2 /\ Len(t) = 1 /\ Len(u) = 3
  BY DEF Buffers
<1>2. s[1] = a /\ s[2] = b /\ t[1] = c /\ u[1] = a /\ u[2] = b /\ u[3] = c
  OBVIOUS
<1>3. s \o t = u
  <2> HIDE DEF s, t, u
  <2>1. /\ s \o t \in Buffers /\ Len(s \o t) = 3
        /\ \A i \in 1 .. 3 : (s \o t)[i] = IF i <= 2 THEN s[i] ELSE t[i - 2]
    <3>1. /\ s \o t \in Buffers /\ Len(s \o t) = Len(s) + Len(t)
          /\ \A i \in 1 .. Len(s) + Len(t) : (s \o t)[i] = IF i <= Len(s) THEN s[i] ELSE t[i - Len(s)]
      BY <1>1, Joined
    <3> QED
      BY <1>1, <3>1
  <2>2. \A i \in 1 .. 3 : (s \o t)[i] = u[i]
    BY <1>2, <2>1
  <2> QED
    BY <1>1, <2>1, <2>2, SeqEqual DEF Buffers
<1>4. <<a>> \in Buffers /\ Len(<<a>>) = 1
  BY DEF Buffers
<1> QED
  BY <1>1, <1>3, <1>4

(* A buffer put together of two parts comes apart again, ...               *)
LEMMA PartsOfConcat ==
  ASSUME NEW s \in Buffers, NEW t \in Buffers
  PROVE  Take(s \o t, Len(s)) = s /\ Drop(s \o t, Len(s)) = t
<1> DEFINE b == s \o t
<1>1. /\ b \in Buffers /\ Len(b) = Len(s) + Len(t)
      /\ \A i \in 1 .. Len(s) + Len(t) : b[i] = IF i <= Len(s) THEN s[i] ELSE t[i - Len(s)]
  BY ConcatProperties DEF Buffers
<1>2. Len(s) \in Nat /\ Len(t) \in Nat
  BY LenProperties DEF Buffers
<1>3. \A i \in 1 .. Len(b) : b[i] \in Nat
  BY <1>1, ElementOfSeq DEF Buffers
<1> HIDE DEF b
<1>4. /\ SubSeq(b, 1, Len(s)) \in Buffers /\ Len(SubSeq(b, 1, Len(s))) = Len(s)
      /\ \A i \in 1 .. Len(s) : SubSeq(b, 1, Len(s))[i] = s[i]
  BY <1>1, <1>2, <1>3, SubSeqProperties DEF Buffers
<1>5. /\ SubSeq(b, Len(s) + 1, Len(b)) \in Buffers /\ Len(SubSeq(b, Len(s) + 1, Len(b))) = Len(t)
      /\ \A i \in 1 .. Len(t) : SubSeq(b, Len(s) + 1, Len(b))[i] = t[i]
  <2>1. \A i \in Len(s) + 1 .. Len(b) : b[i] \in Nat
    BY <1>2, <1>3
  <2>2. /\ SubSeq(b, Len(s) + 1, Len(b)) \in Buffers
        /\ Len(SubSeq(b, Len(s) + 1, Len(b))) = IF Len(s) + 1 <= Len(b) THEN Len(b) - (Len(s) + 1) + 1 ELSE 0
        /\ \A i \in 1 .. Len(b) - (Len(s) + 1) + 1 : SubSeq(b, Len(s) + 1, Len(b))[i] = b[(Len(s) + 1) + i - 1]
    BY <1>1, <1>2, <2>1, SubSeqProperties DEF Buffers
  <2> QED
    BY <1>1, <1>2, <2>2
<1>6. SubSeq(b, 1, Len(s)) = s
  BY <1>4, SeqEqual DEF Buffers
<1>7. SubSeq(b, Len(s) + 1, Len(b)) = t
  BY <1>5, SeqEqual DEF Buffers
<1> QED
  BY <1>6, <1>7 DEF Take, Drop, b

(* ... and any buffer is what can be taken off it with the rest behind.    *)
LEMMA TakeWithDrop ==
  ASSUME NEW s \in Buffers, NEW n \in 0 .. Len(s)
  PROVE  /\ Take(s, n) \in Buffers /\ Len(Take(s, n)) = n
         /\ Drop(s, n) \in Buffers /\ Len(Drop(s, n)) = Len(s) - n
         /\ Take(s, n) \o Drop(s, n) = s
<1>1. Len(s) \in Nat /\ n \in Nat /\ n <= Len(s) /\ \A i \in 1 .. Len(s) : s[i] \in Nat
  BY LenProperties, ElementOfSeq DEF Buffers
<1>2. SubSeq(s, 1, n) \in Buffers /\ Len(SubSeq(s, 1, n)) = n
  BY <1>1, SubSeqProperties DEF Buffers
<1>3. SubSeq(s, n + 1, Len(s)) \in Buffers /\ Len(SubSeq(s, n + 1, Len(s))) = Len(s) - n
  <2>1. \A i \in n + 1 .. Len(s) : s[i] \in Nat
    BY <1>1
  <2>2. /\ SubSeq(s, n + 1, Len(s)) \in Buffers
        /\ Len(SubSeq(s, n + 1, Len(s))) = IF n + 1 <= Len(s) THEN Len(s) - (n + 1) + 1 ELSE 0
    BY <1>1, <2>1, SubSeqProperties DEF Buffers
  <2> QED
    BY <1>1, <2>2
<1>4. SubSeq(s, 1, n) \o SubSeq(s, n + 1, Len(s)) = SubSeq(s, 1, Len(s))
  <2>1. 1 \in 1 .. Len(s) + 1 /\ n \in 1 - 1 .. Len(s) /\ Len(s) \in n .. Len(s)
    BY <1>1
  <2> QED
    BY <2>1, ConcatAdjacentSubSeq DEF Buffers
<1>5. SubSeq(s, 1, Len(s)) = s
  BY SubSeqFull DEF Buffers
<1> QED
  BY <1>2, <1>3, <1>4, <1>5 DEF Take, Drop

LEMMA TailIsDrop ==
  ASSUME NEW s \in Buffers, s # <<>>
  PROVE  Tail(s) = Drop(s, 1)
BY TailIsSubSeq DEF Drop, Buffers

LEMMA NoWrap ==
  ASSUME NEW a \in Nat, NEW m \in Nat, a < m
  PROVE  a % m = a
OBVIOUS

(* A length-prefixed block is read back.                                   *)
LEMMA BlockIsTaken ==
  ASSUME NEW s \in Buffers, NEW t \in Buffers, Len(s) < U32, NEW min \in Nat, min <= Len(t)
  PROVE  /\ Block(s) \in Buffers /\ Len(Block(s)) = 1 + Len(s)
         /\ TakeBlock(Block(s) \o t, min) = [ok |-> TRUE, block |-> s, rest |-> t]
<1> DEFINE n == Len(s)
           cell == <<n>>
           buf == (cell \o s) \o t
<1>1. n \in Nat /\ Len(t) \in Nat /\ U32 \in Nat
  BY LenProperties, WireAssumption DEF Buffers
<1>2. Block(s) = cell \o s
  BY <1>1, NoWrap DEF Block
<1>3. cell \in Buffers /\ Len(cell) = 1 /\ cell[1] = n
  BY <1>1 DEF Buffers
<1> HIDE DEF cell
<1>4. cell \o s \in Buffers /\ Len(cell \o s) = 1 + n /\ s \o t \in Buffers
  BY <1>3, ConcatProperties, SMTT(20), ZenonT(60) DEF Buffers
<1>5. buf \in Buffers /\ Len(buf) = 1 + n + Len(t)
  BY <1>1, <1>4, ConcatProperties, SMTT(20), ZenonT(60) DEF Buffers
<1>6. buf = cell \o (s \o t)
  BY <1>3, Regrouped
<1>7. Drop(buf, 1) = s \o t
  BY <1>3, <1>4, <1>6, PartsOfConcat
<1>8. buf[1] = n
  BY <1>1, <1>3, <1>4, <1>6, ConcatProperties DEF Buffers
<1>9. Drop(buf, 1 + n) = t
  <2>1. Drop(buf, Len(cell \o s)) = t
    BY <1>4, PartsOfConcat
  <2> HIDE DEF buf
  <2> QED
    BY <1>4, <2>1
<1>10. Take(s \o t, n) = s
  BY PartsOfConcat
<1>11. buf # <<>>
  BY <1>1, <1>5 DEF Buffers
<1> HIDE DEF n, buf
<1>12. Tail(buf) = s \o t
  BY <1>5, <1>7, <1>11, TailIsDrop
<1>13. ~(Len(buf) < 1 + buf[1] + min)
  BY <1>1, <1>5, <1>8
<1>14. TakeBlock(buf, min) = [ok |-> TRUE, block |-> s, rest |-> t]
  BY <1>8, <1>9, <1>10, <1>11, <1>12, <1>13 DEF TakeBlock
<1> QED
  BY <1>2, <1>4, <1>14 DEF buf, n

LEMMA BlockIsBuffer ==
  ASSUME NEW s \in Buffers, Len(s) < U32
  PROVE  Block(s) \in Buffers /\ Len(Block(s)) = 1 + Len(s)
<1>1. <<>> \in Buffers /\ 0 \in Nat /\ 0 <= Len(<<>>)
  BY EmptyBuffer
<1> QED
  BY <1>1, BlockIsTaken

(* How a frame at the front of a stream is laid out.                       *)
LEMMA FrameParts ==
  ASSUME NEW type \in Nat, NEW payload \in Buffers, NEW following \in Buffers,
         Len(payload) < U32
  PROVE  LET stream == build_frame(type, payload) \o following
         IN  /\ stream \in Buffers /\ Len(stream) = 3 + Len(payload \o following)
             /\ stream[1] = SPMP_MAGIC /\ stream[2] = type /\ stream[3] = Len(payload)
             /\ Take(stream, 2) = <<SPMP_MAGIC, type>>
             /\ Drop(stream, 3) = payload \o following
<1> DEFINE n == Len(payload)
           front == <<SPMP_MAGIC, type>>
           header == <<SPMP_MAGIC, type, n>>
           rest == payload \o following
           stream == build_frame(type, payload) \o following
<1>1. n \in Nat /\ Len(following) \in Nat /\ U32 \in Nat /\ SPMP_MAGIC \in Nat /\ MAX_FRAME_SIZE \in Nat
  BY LenProperties, WireAssumption DEF Buffers
<1>2. build_frame(type, payload) = front \o (<<n>> \o payload)
  BY <1>1, NoWrap DEF build_frame, Block
<1>3. /\ front \in Buffers /\ Len(front) = 2
      /\ header \in Buffers /\ Len(header) = 3
      /\ <<n>> \in Buffers /\ front \o <<n>> = header
      /\ header[1] = SPMP_MAGIC /\ header[2] = type /\ header[3] = n
  <2> HIDE DEF n
  <2>1. header[1] = SPMP_MAGIC /\ header[2] = type /\ header[3] = n
    OBVIOUS
  <2> QED
    BY <1>1, <2>1, ShortTuples
<1> HIDE DEF n, front, header
<1>4. rest \in Buffers /\ Len(rest) = n + Len(following)
  BY ConcatProperties DEF Buffers, n
<1>5. stream = header \o rest
  <2> DEFINE cell == <<n>>
  <2>1. cell \in Buffers /\ header \in Buffers /\ front \in Buffers
    BY <1>3
  <2> HIDE DEF cell
  <2>2. front \o (cell \o payload) = (front \o cell) \o payload
    BY <2>1, Regrouped, SMTT(20), ZenonT(60)
  <2>3. (header \o payload) \o following = header \o rest
    BY <2>1, Regrouped, SMTT(20), ZenonT(60)
  <2> QED
    BY <1>2, <1>3, <2>2, <2>3 DEF cell
<1> HIDE DEF stream, rest
<1>6. /\ stream \in Buffers /\ Len(stream) = 3 + Len(rest)
      /\ \A i \in 1 .. 3 + Len(rest) : stream[i] = IF i <= 3 THEN header[i] ELSE rest[i - 3]
  <2>1. /\ stream \in Buffers /\ Len(stream) = Len(header) + Len(rest)
        /\ \A i \in 1 .. Len(header) + Len(rest) :
             stream[i] = IF i <= Len(header) THEN header[i] ELSE rest[i - Len(header)]
    BY <1>3, <1>4, <1>5, Joined, SMTT(20), ZenonT(60)
  <2> QED
    BY <1>3, <2>1
<1>7. Drop(stream, 3) = rest
  BY <1>3, <1>4, <1>5, PartsOfConcat, SMTT(20), ZenonT(60)
<1>8. stream[1] = SPMP_MAGIC /\ stream[2] = type /\ stream[3] = n
  <2>1. Len(rest) \in Nat
    BY <1>1, <1>4
  <2> QED
    BY <1>3, <1>6, <2>1
<1>9. Take(stream, 2) = front
  <2> DEFINE cell == <<n>>
  <2>1. cell \in Buffers /\ front \in Buffers /\ Len(front) = 2 /\ rest \in Buffers
    BY <1>3, <1>4
  <2>2. header = front \o cell
    BY <1>3
  <2> HIDE DEF cell
  <2>3. cell \o rest \in Buffers
    BY <2>1, ConcatProperties DEF Buffers
  <2>4. stream = front \o (cell \o rest)
    BY <1>5, <2>1, <2>2, Regrouped, SMTT(20), ZenonT(60)
  <2> QED
    BY <2>1, <2>3, <2>4, PartsOfConcat
<1> QED
  BY <1>6, <1>7, <1>8, <1>9 DEF n, front, stream, rest

(* read_frame takes a frame off a stream, up to the limit.                 *)
LEMMA FrameIsRead ==
  ASSUME NEW type \in Nat, NEW payload \in Buffers, NEW following \in Buffers,
         Len(payload) < U32
  PROVE  LET stream == build_frame(type, payload) \o following
         IN  read_frame(stream) =
               IF Len(payload) <= MAX_FRAME_SIZE
               THEN [ok |-> TRUE, frame |-> <<SPMP_MAGIC, type>> \o payload, rest |-> following]
               ELSE Err
<1> DEFINE n == Len(payload)
           front == <<SPMP_MAGIC, type>>
           rest == payload \o following
           stream == build_frame(type, payload) \o following
<1>1. /\ stream \in Buffers /\ Len(stream) = 3 + Len(rest)
      /\ stream[1] = SPMP_MAGIC /\ stream[3] = n
      /\ Take(stream, 2) = front /\ Drop(stream, 3) = rest
  BY FrameParts, SMTT(20), ZenonT(60)
<1>2. Len(rest) = n + Len(following) /\ n \in Nat /\ Len(following) \in Nat
  BY Joined
<1>3. Take(rest, n) = payload /\ Drop(rest, n) = following
  BY PartsOfConcat
<1> HIDE DEF n, front, rest, stream
<1>4. ~(Len(stream) < HEADER_LEN) /\ ~(Len(rest) < n)
  BY <1>1, <1>2 DEF HEADER_LEN
<1>5. read_frame(stream) = IF ~Fits(n) THEN Err
                           ELSE [ok |-> TRUE, frame |-> front \o payload, rest |-> following]
  BY <1>1, <1>3, <1>4 DEF read_frame, HEADER_LEN
<1> QED
  BY <1>5 DEF Fits, n, front, stream

(* The client's layout of a ticket frame's payload, and how it divides.    *)
Layout(ticket, signature, prompt) == (ticket \o Block(signature)) \o Block(prompt)

LEMMA WireTicketIsTicket ==
  ASSUME NEW ticket \in Buffers, Len(ticket) = TICKET_ABI_LEN, ticket[2] <= MaxUint128
  PROVE  WireTicket(ticket) = ticket
<1> DEFINE wire == <<ticket[1], ticket[2]>>
<1>1. ticket[1] \in Nat /\ ticket[2] \in Nat
  <2>1. 1 \in 1 .. Len(ticket) /\ 2 \in 1 .. Len(ticket)
    BY DEF TICKET_ABI_LEN
  <2> QED
    BY <2>1, ElementOfSeq DEF Buffers
<1>2. wire \in Buffers /\ Len(wire) = 2
  BY <1>1, ShortTuples
<1>3. wire[1] = ticket[1] /\ wire[2] = ticket[2]
  OBVIOUS
<1>4. WireTicket(ticket) = wire
  BY DEF WireTicket
<1> HIDE DEF wire
<1>5. \A i \in 1 .. Len(wire) : wire[i] = ticket[i]
  BY <1>2, <1>3
<1>6. wire = ticket
  BY <1>2, <1>5, SeqEqual DEF Buffers, TICKET_ABI_LEN
<1> QED
  BY <1>4, <1>6

LEMMA LayoutDivides ==
  ASSUME NEW ticket \in Buffers, Len(ticket) = TICKET_ABI_LEN,
         NEW signature \in Buffers, Len(signature) < U32,
         NEW prompt \in Buffers, Len(prompt) < U32
  PROVE  LET payload == Layout(ticket, signature, prompt)
             blocks == Block(signature) \o Block(prompt)
         IN  /\ payload \in Buffers /\ blocks \in Buffers
             /\ payload = ticket \o blocks
             /\ Len(payload) = TICKET_ABI_LEN + 1 + Len(signature) + 1 + Len(prompt)
             /\ Take(payload, TICKET_ABI_LEN) = ticket /\ Drop(payload, TICKET_ABI_LEN) = blocks
<1> DEFINE a == Block(signature)
           b == Block(prompt)
<1>1. /\ a \in Buffers /\ Len(a) = 1 + Len(signature)
      /\ b \in Buffers /\ Len(b) = 1 + Len(prompt)
  BY BlockIsBuffer
<1>2. Layout(ticket, signature, prompt) = (ticket \o a) \o b
  BY DEF Layout
<1> HIDE DEF a, b
<1>3. a \o b \in Buffers /\ Len(a \o b) = Len(a) + Len(b)
  BY <1>1, Joined
<1>4. (ticket \o a) \o b = ticket \o (a \o b)
  BY <1>1, Regrouped, SMTT(20), ZenonT(60)
<1> DEFINE blocks == a \o b
<1> HIDE DEF blocks
<1>5. blocks \in Buffers
  BY <1>3 DEF blocks
<1>6. ticket \o blocks \in Buffers /\ Len(ticket \o blocks) = Len(ticket) + Len(blocks)
  BY <1>5, Joined
<1>7. Take(ticket \o blocks, Len(ticket)) = ticket /\ Drop(ticket \o blocks, Len(ticket)) = blocks
  BY <1>5, PartsOfConcat
<1>8. Len(signature) \in Nat /\ Len(prompt) \in Nat
  BY LenProperties DEF Buffers
<1>9. Len(ticket \o blocks) = TICKET_ABI_LEN + 1 + Len(signature) + 1 + Len(prompt)
  BY <1>1, <1>3, <1>6, <1>8 DEF TICKET_ABI_LEN, blocks
<1> QED
  BY <1>2, <1>4, <1>5, <1>6, <1>7, <1>9 DEF a, b, blocks

(* What the provider reads in a frame the client has laid out.             *)
LEMMA LayoutIsDecoded ==
  ASSUME NEW ticket \in Buffers, Len(ticket) = TICKET_ABI_LEN, ticket[2] <= MaxUint128,
         NEW signature \in Buffers, Len(signature) < U32,
         NEW prompt \in Buffers, Len(prompt) < U32
  PROVE  decode_ticket_frame(<<SPMP_MAGIC, TicketRequest>> \o Layout(ticket, signature, prompt)) =
           [ok |-> TRUE, ticket |-> ticket, signature |-> signature, prompt_payload |-> prompt]
<1> DEFINE payload == Layout(ticket, signature, prompt)
           front == <<SPMP_MAGIC, TicketRequest>>
           blocks == Block(signature) \o Block(prompt)
           buf == front \o payload
<1>1. /\ payload \in Buffers /\ blocks \in Buffers
      /\ Len(payload) = TICKET_ABI_LEN + 1 + Len(signature) + 1 + Len(prompt)
      /\ Take(payload, TICKET_ABI_LEN) = ticket /\ Drop(payload, TICKET_ABI_LEN) = blocks
  BY LayoutDivides, SMTT(20), ZenonT(60)
<1>2. Len(signature) \in Nat /\ Len(prompt) \in Nat /\ SPMP_MAGIC \in Nat /\ TicketRequest \in Nat
  BY LenProperties, WireAssumption DEF Buffers, TicketRequest
<1>3. front \in Buffers /\ Len(front) = 2
  BY <1>2, ShortTuples
<1>4. front[1] = SPMP_MAGIC /\ front[2] = TicketRequest
  OBVIOUS
<1>5. TakeBlock(blocks, 1) = [ok |-> TRUE, block |-> signature, rest |-> Block(prompt)]
  <2>1. Block(prompt) \in Buffers /\ Len(Block(prompt)) = 1 + Len(prompt)
    BY BlockIsBuffer
  <2>2. 1 \in Nat /\ 1 <= Len(Block(prompt))
    BY <1>2, <2>1
  <2> QED
    BY <2>1, <2>2, BlockIsTaken
<1>6. PromptOf(Block(prompt)) = [ok |-> TRUE, block |-> prompt, rest |-> <<>>]
  <2>1. Block(prompt) \in Buffers /\ TakeBlock(Block(prompt) \o <<>>, 0) = [ok |-> TRUE, block |-> prompt, rest |-> <<>>]
    <3>1. 0 \in Nat /\ 0 <= Len(<<>>) /\ <<>> \in Buffers
      BY EmptyBuffer
    <3> QED
      BY <3>1, BlockIsTaken
  <2>2. Block(prompt) \o <<>> = Block(prompt)
    BY <2>1, EmptyBuffer
  <2> QED
    BY <2>1, <2>2 DEF PromptOf
<1> HIDE DEF payload, front, blocks
<1>7. /\ buf \in Buffers /\ Len(buf) = Len(front) + Len(payload)
      /\ \A i \in 1 .. Len(front) + Len(payload) : buf[i] = IF i <= Len(front) THEN front[i] ELSE payload[i - Len(front)]
      /\ Len(payload) \in Nat
  BY <1>1, <1>3, Joined
<1>8. Drop(buf, 2) = payload
  BY <1>1, <1>3, PartsOfConcat
<1> HIDE DEF buf
<1>9. buf[1] = SPMP_MAGIC /\ buf[2] = TicketRequest /\ ~(Len(buf) < 2)
  BY <1>3, <1>4, <1>7
<1>10. split_frame(buf) = [ok |-> TRUE, type |-> TicketRequest, payload |-> payload]
  BY <1>8, <1>9 DEF split_frame, MsgTypeBytes, TicketRequest
<1>11. ~(Len(payload) < TICKET_ABI_LEN + 1)
  BY <1>1, <1>2 DEF TICKET_ABI_LEN
<1>12. decode_ticket(ticket) = [ok |-> TRUE, ticket |-> ticket]
  BY DEF decode_ticket
<1>13. decode_ticket_frame(buf) =
         [ok |-> TRUE, ticket |-> ticket, signature |-> signature, prompt_payload |-> prompt]
  <2> DEFINE frame == split_frame(buf)
             read == decode_ticket(Take(frame.payload, TICKET_ABI_LEN))
             first == TakeBlock(Drop(frame.payload, TICKET_ABI_LEN), 1)
             second == PromptOf(first.rest)
  <2>1. frame.ok /\ frame.type = TicketRequest /\ frame.payload = payload
    BY <1>10
  <2>2. read.ok /\ read.ticket = ticket
    BY <1>1, <1>12, <2>1
  <2>3. first.ok /\ first.block = signature /\ first.rest = Block(prompt)
    BY <1>1, <1>5, <2>1
  <2>4. second.ok /\ second.block = prompt
    BY <1>6, <2>3
  <2>5. decode_ticket_frame(buf) =
          IF ~frame.ok THEN Err
          ELSE IF frame.type # TicketRequest \/ Len(frame.payload) < TICKET_ABI_LEN + 1 THEN Err
          ELSE IF ~read.ok \/ ~first.ok THEN Err
          ELSE IF ~second.ok THEN Err
          ELSE [ok |-> TRUE, ticket |-> read.ticket,
                signature |-> first.block, prompt_payload |-> second.block]
    BY DEF decode_ticket_frame
  <2> HIDE DEF frame, read, first, second
  <2> QED
    BY <1>11, <2>1, <2>2, <2>3, <2>4, <2>5
<1> QED
  BY <1>13 DEF buf, front, payload

(* A ticket frame within the limit arrives unchanged, whatever follows it; *)
(* a longer one is refused.                                                *)
THEOREM TicketsArrive ==
  ASSUME NEW ticket \in Buffers, Len(ticket) = TICKET_ABI_LEN, ticket[2] <= MaxUint128,
         NEW signature \in Buffers, NEW prompt \in Buffers, NEW following \in Buffers
  PROVE  TicketArrives(ticket, signature, prompt, following)
<1> DEFINE size == TICKET_ABI_LEN + 1 + Len(signature) + 1 + Len(prompt)
           payload == Layout(ticket, signature, prompt)
           read == read_frame(encode_ticket_frame(ticket, signature, prompt) \o following)
<1>1. /\ Len(signature) \in Nat /\ Len(prompt) \in Nat
      /\ U32 \in Nat /\ MAX_FRAME_SIZE \in Nat /\ MAX_FRAME_SIZE < U32 /\ TicketRequest \in Nat
  BY LenProperties, WireAssumption DEF Buffers, TicketRequest
<1>2. size \in Nat /\ Len(signature) < size /\ Len(prompt) < size
  BY <1>1 DEF TICKET_ABI_LEN
<1>3. CASE size < U32
  <2>1. Len(signature) < U32 /\ Len(prompt) < U32
    BY <1>1, <1>2, <1>3
  <2>2. payload \in Buffers /\ Len(payload) = size
    BY <2>1, LayoutDivides
  <2>3. encode_ticket_frame(ticket, signature, prompt) = build_frame(TicketRequest, payload)
    BY WireTicketIsTicket DEF encode_ticket_frame, Layout
  <2> HIDE DEF payload, size
  <2>4. read = IF size <= MAX_FRAME_SIZE
               THEN [ok |-> TRUE, frame |-> <<SPMP_MAGIC, TicketRequest>> \o payload, rest |-> following]
               ELSE Err
    BY <1>1, <1>3, <2>2, <2>3, FrameIsRead
  <2>5. decode_ticket_frame(<<SPMP_MAGIC, TicketRequest>> \o payload) =
          [ok |-> TRUE, ticket |-> ticket, signature |-> signature, prompt_payload |-> prompt]
    BY <2>1, LayoutIsDecoded DEF payload
  <2>6. size <= MAX_FRAME_SIZE =>
          /\ read.ok /\ read.rest = following
          /\ decode_ticket_frame(read.frame) =
               [ok |-> TRUE, ticket |-> ticket, signature |-> signature, prompt_payload |-> prompt]
    BY <2>4, <2>5
  <2>7. ~(size <= MAX_FRAME_SIZE) => ~read.ok
    BY <2>4 DEF Err
  <2> QED
    BY <2>6, <2>7 DEF TicketArrives, size
<1>4. CASE ~(size < U32)
  <2>1. ~(size <= MAX_FRAME_SIZE)
    BY <1>1, <1>2, <1>4
  <2> QED
    BY <1>4, <2>1 DEF TicketArrives
<1> QED
  BY <1>3, <1>4

(* A block the provider takes off a buffer was encoded as one.             *)
LEMMA TakenIsBlock ==
  ASSUME NEW buf \in Buffers, Len(buf) <= U32, NEW min \in Nat, TakeBlock(buf, min).ok
  PROVE  LET taken == TakeBlock(buf, min)
         IN  /\ taken.block \in Buffers /\ Len(taken.block) < U32
             /\ min > 0 => taken.rest \in Buffers /\ Len(taken.rest) <= U32
             /\ \E left \in Buffers : buf = Block(taken.block) \o left /\ taken.rest = left
<1> DEFINE n == buf[1]
           rest == Tail(buf)
           block == Take(rest, n)
           left == Drop(rest, n)
<1>1. buf # <<>> /\ ~(Len(buf) < 1 + n + min)
  BY DEF TakeBlock, Err
<1>2. TakeBlock(buf, min) = [ok |-> TRUE, block |-> block, rest |-> Drop(buf, 1 + n)]
  BY <1>1 DEF TakeBlock
<1>3. /\ Len(buf) \in Nat /\ Len(buf) >= 1 /\ U32 \in Nat /\ n \in Nat
  <2>1. Len(buf) \in Nat /\ Len(buf) >= 1 /\ U32 \in Nat
    BY <1>1, LenProperties, EmptyBuffer, WireAssumption DEF Buffers
  <2>2. 1 \in 1 .. Len(buf)
    BY <2>1
  <2> QED
    BY <2>1, <2>2, ElementOfSeq DEF Buffers
<1>4. rest \in Buffers /\ Len(rest) = Len(buf) - 1 /\ buf = <<n>> \o rest
  <2>1. rest = Drop(buf, 1)
    BY <1>1, TailIsDrop
  <2>2. 1 \in 0 .. Len(buf)
    BY <1>3
  <2>3. /\ Drop(buf, 1) \in Buffers /\ Len(Drop(buf, 1)) = Len(buf) - 1
        /\ Take(buf, 1) \in Buffers /\ Len(Take(buf, 1)) = 1
        /\ Take(buf, 1) \o Drop(buf, 1) = buf
    BY <2>2, TakeWithDrop
  <2>4. Take(buf, 1)[1] = n
    <3>1. \A i \in 1 .. 1 : buf[i] \in Nat
      BY <1>3
    <3>2. \A i \in 1 .. 1 - 1 + 1 : SubSeq(buf, 1, 1)[i] = buf[1 + i - 1]
      BY <3>1, SubSeqProperties
    <3> QED
      BY <3>2 DEF Take
  <2>5. Take(buf, 1) = <<n>>
    <3> DEFINE cell == <<n>>
               taken == Take(buf, 1)
    <3>1. cell \in Buffers /\ Len(cell) = 1 /\ cell[1] = n
      BY <1>3, ShortTuples
    <3>2. taken \in Buffers /\ Len(taken) = 1 /\ taken[1] = n
      BY <2>3, <2>4
    <3> HIDE DEF cell, taken
    <3>3. \A i \in 1 .. 1 : taken[i] = cell[i]
      BY <3>1, <3>2
    <3>4. taken = cell
      BY <3>1, <3>2, <3>3, SeqEqual DEF Buffers
    <3> QED
      BY <3>4 DEF cell, taken
  <2> QED
    BY <2>1, <2>3, <2>5
<1> HIDE DEF n, rest
<1>5. n \in 0 .. Len(rest) /\ n < U32
  BY <1>1, <1>3, <1>4
<1>6. /\ block \in Buffers /\ Len(block) = n
      /\ left \in Buffers /\ Len(left) = Len(rest) - n
      /\ block \o left = rest
  BY <1>4, <1>5, TakeWithDrop
<1> HIDE DEF block, left
<1>7. Block(block) = <<n>> \o block
  BY <1>3, <1>5, <1>6, NoWrap DEF Block
<1> DEFINE cell == <<n>>
<1>8. cell \in Buffers /\ Len(cell) = 1
  BY <1>3, ShortTuples
<1> HIDE DEF cell
<1>9. (cell \o block) \o left = cell \o (block \o left)
  BY <1>6, <1>8, Regrouped
<1>10. buf = Block(block) \o left
  BY <1>4, <1>6, <1>7, <1>9 DEF cell
<1>11. Drop(buf, 1 + n) = left
  <2>1. cell \o block \in Buffers /\ Len(cell \o block) = Len(cell) + Len(block)
    BY <1>6, <1>8, Joined
  <2> DEFINE taken == cell \o block
  <2>2. taken \in Buffers /\ Len(taken) = 1 + n
    BY <1>6, <1>8, <2>1
  <2>3. buf = taken \o left
    BY <1>4, <1>6, <1>9 DEF cell
  <2> HIDE DEF taken
  <2> QED
    BY <1>6, <2>2, <2>3, PartsOfConcat
<1>12. Len(left) <= U32
  BY <1>3, <1>4, <1>5, <1>6
<1> QED
  BY <1>2, <1>5, <1>6, <1>10, <1>11, <1>12

(* What the provider accepts as a ticket frame is the client's encoding of *)
(* what it read, up to bytes it ignores behind the prompt.                 *)
THEOREM AcceptedFramesAreEncodings ==
  ASSUME NEW buf \in Buffers, Len(buf) <= U32
  PROVE  AcceptedIsEncoded(buf)
<1> DEFINE frame == split_frame(buf)
           payload == Drop(buf, 2)
           ticket == Take(payload, TICKET_ABI_LEN)
           behind == Drop(payload, TICKET_ABI_LEN)
           first == TakeBlock(behind, 1)
           second == PromptOf(first.rest)
           read == decode_ticket_frame(buf)
<1> SUFFICES ASSUME read.ok
             PROVE  IsPrefix(Drop(encode_ticket_frame(read.ticket, read.signature, read.prompt_payload), HEADER_LEN),
                             payload)
  BY DEF AcceptedIsEncoded
<1>1. frame.ok /\ frame = [ok |-> TRUE, type |-> buf[2], payload |-> payload] /\ ~(Len(buf) < 2)
  BY DEF decode_ticket_frame, split_frame, Err
<1>2. ~(Len(payload) < TICKET_ABI_LEN + 1)
  BY <1>1 DEF decode_ticket_frame, Err
<1>3. decode_ticket(ticket).ok /\ first.ok /\ second.ok
  BY <1>1 DEF decode_ticket_frame, Err
<1>4. decode_ticket(ticket) = [ok |-> TRUE, ticket |-> ticket] /\ ticket[2] <= MaxUint128
  BY <1>3 DEF decode_ticket, Err
<1>5. read.ticket = ticket /\ read.signature = first.block /\ read.prompt_payload = second.block
  <2> DEFINE ABI == TICKET_ABI_LEN
  <2>1. frame.ok /\ frame.payload = payload
    BY <1>1
  <2>2. read = IF ~frame.ok THEN Err
               ELSE IF frame.type # TicketRequest \/ Len(frame.payload) < TICKET_ABI_LEN + 1 THEN Err
               ELSE IF ~decode_ticket(Take(frame.payload, ABI)).ok \/ ~TakeBlock(Drop(frame.payload, ABI), 1).ok THEN Err
               ELSE IF ~PromptOf(TakeBlock(Drop(frame.payload, ABI), 1).rest).ok THEN Err
               ELSE [ok |-> TRUE, ticket |-> decode_ticket(Take(frame.payload, ABI)).ticket,
                     signature |-> TakeBlock(Drop(frame.payload, ABI), 1).block,
                     prompt_payload |-> PromptOf(TakeBlock(Drop(frame.payload, ABI), 1).rest).block]
    BY DEF decode_ticket_frame
  <2>3. read = Err \/ read = [ok |-> TRUE, ticket |-> decode_ticket(ticket).ticket,
                              signature |-> first.block, prompt_payload |-> second.block]
    <3> HIDE DEF frame, read
    <3> QED
      BY <2>1, <2>2
  <2>4. read # Err
    BY DEF Err
  <2> HIDE DEF read, first, second
  <2> QED
    BY <1>4, <2>3, <2>4
<1>6. payload \in Buffers /\ Len(payload) = Len(buf) - 2 /\ Len(buf) \in Nat /\ U32 \in Nat
  <2>1. Len(buf) \in Nat /\ U32 \in Nat
    BY LenProperties, WireAssumption DEF Buffers
  <2>2. 2 \in 0 .. Len(buf)
    BY <1>1, <2>1
  <2> QED
    BY <2>1, <2>2, TakeWithDrop
<1> HIDE DEF payload
<1>7. /\ ticket \in Buffers /\ Len(ticket) = TICKET_ABI_LEN
      /\ behind \in Buffers /\ Len(behind) <= U32
      /\ payload = ticket \o behind
  <2>1. TICKET_ABI_LEN \in 0 .. Len(payload)
    BY <1>2, <1>6 DEF TICKET_ABI_LEN
  <2>2. /\ ticket \in Buffers /\ Len(ticket) = TICKET_ABI_LEN
        /\ behind \in Buffers /\ Len(behind) = Len(payload) - TICKET_ABI_LEN
        /\ ticket \o behind = payload
    BY <1>6, <2>1, TakeWithDrop
  <2> QED
    BY <1>6, <2>2 DEF TICKET_ABI_LEN
<1> HIDE DEF ticket, behind
<1>8. /\ first.block \in Buffers /\ Len(first.block) < U32
      /\ first.rest \in Buffers /\ Len(first.rest) <= U32
      /\ behind = Block(first.block) \o first.rest
  <2>1. 1 \in Nat /\ 1 > 0
    OBVIOUS
  <2> QED
    BY <1>3, <1>7, <2>1, TakenIsBlock
<1> HIDE DEF first
<1>9. /\ second.block \in Buffers /\ Len(second.block) < U32
      /\ \E left \in Buffers : first.rest = Block(second.block) \o left
  BY <1>3, <1>8, TakenIsBlock DEF PromptOf
<1> HIDE DEF second
<1>10. PICK left \in Buffers : first.rest = Block(second.block) \o left
  BY <1>9
<1> DEFINE signature == first.block
           prompt == second.block
           sent == Layout(ticket, signature, prompt)
<1>11. Block(signature) \in Buffers /\ Block(prompt) \in Buffers
  BY <1>8, <1>9, BlockIsBuffer
<1>12. /\ sent \in Buffers
       /\ sent = ticket \o (Block(signature) \o Block(prompt))
  <2> DEFINE a == Block(signature)
             b == Block(prompt)
  <2>1. a \in Buffers /\ b \in Buffers
    BY <1>11
  <2>2. sent = (ticket \o a) \o b
    BY DEF Layout
  <2> HIDE DEF a, b, sent
  <2>3. (ticket \o a) \o b = ticket \o (a \o b)
    BY <1>7, <2>1, Regrouped, SMTT(20), ZenonT(60)
  <2>4. ticket \o a \in Buffers
    BY <1>7, <2>1, Joined
  <2>5. (ticket \o a) \o b \in Buffers
    BY <2>1, <2>4, Joined
  <2> QED
    BY <2>2, <2>3, <2>5 DEF a, b
<1>13. payload = sent \o left
  <2> DEFINE a == Block(signature)
             b == Block(prompt)
  <2>1. a \in Buffers /\ b \in Buffers
    BY <1>11
  <2>2. payload = ticket \o (a \o (b \o left))
    BY <1>7, <1>8, <1>10
  <2>3. sent = ticket \o (a \o b)
    BY <1>12
  <2> HIDE DEF a, b, sent
  <2>4. a \o (b \o left) = (a \o b) \o left
    BY <2>1, Regrouped, SMTT(20), ZenonT(60)
  <2>5. a \o b \in Buffers
    BY <2>1, Joined
  <2>6. ticket \o ((a \o b) \o left) = (ticket \o (a \o b)) \o left
    BY <1>7, <2>5, Regrouped, SMTT(20), ZenonT(60)
  <2> QED
    BY <2>2, <2>3, <2>4, <2>6
<1>14. Drop(encode_ticket_frame(ticket, signature, prompt), HEADER_LEN) = sent
  <2> DEFINE n == Len(sent) % U32
             front == <<SPMP_MAGIC, TicketRequest>>
             header == <<SPMP_MAGIC, TicketRequest, n>>
             cell == <<n>>
  <2>1. encode_ticket_frame(ticket, signature, prompt) = front \o (cell \o sent)
    BY <1>4, <1>7, WireTicketIsTicket DEF encode_ticket_frame, build_frame, Block, Layout
  <2>2. n \in Nat
    <3>1. Len(sent) \in Nat /\ U32 \in Nat /\ U32 > 0
      BY <1>12, LenProperties, WireAssumption DEF Buffers
    <3> HIDE DEF sent
    <3> QED
      BY <3>1
  <2>3. /\ front \in Buffers /\ cell \in Buffers /\ header \in Buffers /\ Len(header) = 3
        /\ front \o cell = header
    <3> HIDE DEF n
    <3>1. SPMP_MAGIC \in Nat /\ TicketRequest \in Nat
      BY WireAssumption DEF TicketRequest
    <3> QED
      BY <2>2, <3>1, ShortTuples
  <2> HIDE DEF n, front, header, cell, sent
  <2>4. sent \in Buffers
    BY <1>12
  <2>5. (front \o cell) \o sent = front \o (cell \o sent)
    <3>1. front \in Buffers /\ cell \in Buffers
      BY <2>3
    <3> QED
      BY <2>4, <3>1, Regrouped, SMTT(20), ZenonT(60)
  <2>6. Drop(header \o sent, Len(header)) = sent
    BY <2>3, <2>4, PartsOfConcat
  <2> QED
    BY <2>1, <2>3, <2>5, <2>6 DEF HEADER_LEN
<1>15. IsPrefix(sent, payload)
  <2> HIDE DEF sent
  <2>1. Take(payload, Len(sent)) = sent
    BY <1>12, <1>13, PartsOfConcat
  <2>2. SubSeq(sent, 1, Len(sent)) = sent
    BY <1>12, SubSeqFull DEF Buffers
  <2>3. Len(sent) <= Len(payload)
    <3>1. Len(sent) \in Nat /\ Len(left) \in Nat /\ Len(payload) = Len(sent) + Len(left)
      BY <1>12, <1>13, Joined
    <3> QED
      BY <3>1
  <2> QED
    BY <2>1, <2>2, <2>3 DEF IsPrefix, Take
<1> QED
  BY <1>5, <1>14, <1>15

(* The client's two decoders of a response are one function of the bytes.  *)
THEOREM DecodersAreOne ==
  ASSUME NEW buf \in Buffers
  PROVE  DecodersAgree(buf)
<1> DEFINE rest == Drop(buf, 3)
           n == buf[3]
<1>1. Len(buf) \in Nat
  BY LenProperties DEF Buffers
<1>2. CASE Len(buf) < 3
  BY <1>1, <1>2 DEF DecodersAgree, decode_response_frame, receive_response, HEADER_LEN
<1>3. CASE Len(buf) >= 3
  <2>1. n \in Nat
    <3>1. 3 \in 1 .. Len(buf)
      BY <1>1, <1>3
    <3> QED
      BY <3>1, ElementOfSeq DEF Buffers
  <2>2. rest \in Buffers /\ Len(rest) = Len(buf) - 3
    <3>1. 3 \in 0 .. Len(buf)
      BY <1>1, <1>3
    <3> QED
      BY <3>1, TakeWithDrop
  <2>3. receive_response(buf) =
          IF ~IsResponse(buf) \/ Len(rest) < n THEN Err ELSE Response(Take(rest, n))
    BY <1>1, <1>3 DEF receive_response, HEADER_LEN
  <2>4. decode_response_frame(buf) =
          IF Len(buf) >= 4 /\ IsResponse(buf) /\ Len(buf) >= 3 + n THEN Response(Take(rest, n)) ELSE Err
    BY DEF decode_response_frame, HEADER_LEN
  <2> HIDE DEF rest, n
  <2>5. CASE Len(buf) = 3 /\ ~(Len(rest) < n)
    <3>1. n = 0
      BY <2>1, <2>2, <2>5
    <3>2. Take(rest, n) = <<>>
      BY <3>1, SubSeqEmpty DEF Take
    <3>3. Response(Take(rest, n)) = Err
      BY <3>2 DEF Response
    <3> QED
      BY <2>3, <2>4, <2>5, <3>3 DEF DecodersAgree
  <2>6. CASE Len(buf) = 3 /\ Len(rest) < n
    BY <2>3, <2>4, <2>6 DEF DecodersAgree
  <2>7. CASE Len(buf) >= 4
    <3>1. Len(rest) < n <=> ~(Len(buf) >= 3 + n)
      BY <1>1, <2>1, <2>2
    <3> QED
      BY <2>3, <2>4, <2>7, <3>1 DEF DecodersAgree
  <2> QED
    <3>1. \A l \in Nat : l >= 3 => l = 3 \/ l >= 4
      OBVIOUS
    <3> QED
      BY <1>1, <1>3, <2>5, <2>6, <2>7, <3>1
<1> QED
  BY <1>1, <1>2, <1>3

(* Induction, over a set in the place of a predicate: a set of numbers     *)
(* without a least one is empty.                                           *)
LEMMA CountUp ==
  ASSUME NEW Good, 0 \in Good, \A k \in Nat : k \in Good => k + 1 \in Good
  PROVE  Nat \subseteq Good
<1> DEFINE R == OpToRel(<, Nat)
           Bad == Nat \ Good
<1> SUFFICES ASSUME Bad # {} PROVE FALSE
  OBVIOUS
<1>1. IsWellFoundedOn(R, Nat)
  BY NatLessThanWellFounded
<1>2. \A m, n \in Nat : m < n => <<m, n>> \in R
  BY DEF OpToRel
<1> HIDE DEF R
<1>3. Bad \subseteq Nat
  OBVIOUS
<1>4. PICK n \in Bad : \A m \in Bad : ~ (<<m, n>> \in R)
  <2> HIDE DEF Bad
  <2> QED
    BY <1>1, <1>3, WFMin
<1>5. n \in Nat /\ n # 0
  BY <1>4
<1>6. n - 1 \in Nat /\ n - 1 < n /\ (n - 1) + 1 = n
  BY <1>5
<1>7. n - 1 \in Good
  BY <1>2, <1>4, <1>5, <1>6
<1> QED
  BY <1>4, <1>6, <1>7

-----------------------------------------------------------------------------
(* Buffers put together one by one.                                        *)
Joins(f, s) == f = [i \in 1 .. Len(s) |-> IF i = 1 THEN s[i] ELSE f[i - 1] \o s[i]]

LEMMA JoinsExist ==
  ASSUME NEW s \in Seq(Buffers)
  PROVE  \E f : Joins(f, s)
<1> DEFINE Step(f, i) == IF i = 1 THEN s[i] ELSE f[i - 1] \o s[i]
           Upto(n) == \E f : f = [i \in 1 .. n |-> Step(f, i)]
           Good == {n \in Nat : Upto(n)}
<1>1. 0 \in Good
  <2> DEFINE f == [i \in 1 .. 0 |-> s[i]]
  <2>1. 1 .. 0 = {}
    OBVIOUS
  <2>2. f = [i \in 1 .. 0 |-> Step(f, i)]
    BY <2>1
  <2> HIDE DEF Step, f
  <2> QED
    BY <2>2
<1>2. ASSUME NEW k \in Nat, k \in Good PROVE k + 1 \in Good
  <2>1. PICK f : f = [i \in 1 .. k |-> Step(f, i)]
    BY <1>2
  <2> DEFINE g == [i \in 1 .. k + 1 |-> IF i = k + 1 THEN Step(f, k + 1) ELSE f[i]]
             Domain == 1 .. k + 1
  <2>2. ASSUME NEW i \in Domain PROVE g[i] = Step(g, i)
    <3>1. i \in Nat /\ i >= 1 /\ i <= k + 1
      OBVIOUS
    <3>2. i # 1 => g[i - 1] = f[i - 1]
      BY <3>1
    <3>3. Step(g, i) = Step(f, i)
      BY <3>2
    <3>4. CASE i = k + 1
      BY <3>3, <3>4
    <3>5. CASE i # k + 1
      <4>1. i \in 1 .. k
        BY <3>1, <3>5
      <4>2. f[i] = Step(f, i)
        <5> HIDE DEF Step
        <5> QED
          BY <2>1, <4>1
      <4> HIDE DEF Step
      <4> QED
        BY <3>3, <3>5, <4>2
    <3> QED
      BY <3>4, <3>5
  <2>3. g = [i \in Domain |-> g[i]]
    OBVIOUS
  <2>4. g = [i \in Domain |-> Step(g, i)]
    <3> HIDE DEF g, Step, Domain
    <3> QED
      BY <2>2, <2>3
  <2> HIDE DEF g, Step
  <2> QED
    BY <2>4
<1>3. Nat \subseteq Good
  <2> HIDE DEF Good
  <2> QED
    BY <1>1, <1>2, CountUp
<1>4. Len(s) \in Nat
  BY LenProperties
<1>5. Upto(Len(s))
  BY <1>3, <1>4
<1> QED
  BY <1>5 DEF Joins

LEMMA JoinsAgree ==
  ASSUME NEW s, NEW t, NEW f, NEW g, Joins(f, s), Joins(g, t),
         NEW n \in Nat, n <= Len(s), n <= Len(t), Len(s) \in Nat, Len(t) \in Nat,
         \A i \in 1 .. n : s[i] = t[i]
  PROVE  \A i \in 1 .. n : f[i] = g[i]
<1> DEFINE Good == {k \in Nat : k \in 1 .. n => f[k] = g[k]}
<1>1. \A i \in 1 .. n : /\ f[i] = IF i = 1 THEN s[i] ELSE f[i - 1] \o s[i]
                        /\ g[i] = IF i = 1 THEN t[i] ELSE g[i - 1] \o t[i]
  <2> SUFFICES ASSUME NEW i \in 1 .. n
               PROVE  /\ f[i] = IF i = 1 THEN s[i] ELSE f[i - 1] \o s[i]
                      /\ g[i] = IF i = 1 THEN t[i] ELSE g[i - 1] \o t[i]
    OBVIOUS
  <2>1. i \in 1 .. Len(s) /\ i \in 1 .. Len(t)
    OBVIOUS
  <2> QED
    BY <2>1 DEF Joins
<1>2. 0 \in Good
  OBVIOUS
<1>3. ASSUME NEW k \in Nat, k \in Good PROVE k + 1 \in Good
  <2> SUFFICES ASSUME k + 1 \in 1 .. n PROVE f[k + 1] = g[k + 1]
    OBVIOUS
  <2>1. k = 0 \/ (k \in 1 .. n /\ (k + 1) - 1 = k)
    OBVIOUS
  <2>2. s[k + 1] = t[k + 1]
    OBVIOUS
  <2>3. CASE k = 0
    BY <1>1, <2>2, <2>3
  <2>4. CASE k \in 1 .. n /\ (k + 1) - 1 = k
    <3>1. f[k] = g[k]
      BY <1>3, <2>4
    <3>2. k + 1 # 1
      BY <2>4
    <3> QED
      BY <1>1, <2>2, <2>4, <3>1, <3>2
  <2> QED
    BY <2>1, <2>3, <2>4
<1>4. Nat \subseteq Good
  <2> HIDE DEF Good
  <2> QED
    BY <1>2, <1>3, CountUp
<1> QED
  BY <1>4

(* The flattened sequence is the last of the buffers so joined.            *)
LEMMA FlattenIsJoin ==
  ASSUME NEW s \in Seq(Buffers), s # <<>>
  PROVE  \E f : Joins(f, s) /\ FlattenSeq(s) = f[Len(s)]
<1> DEFINE F == CHOOSE f : Joins(f, s)
<1>1. Joins(F, s)
  BY JoinsExist
<1>2. Len(s) # 0
  BY EmptySeq
<1>3. FlattenSeq(s) = F[Len(s)]
  BY <1>2 DEF FlattenSeq, Joins
<1> QED
  BY <1>1, <1>3

(* What the first k of them make, and where the k-th one ends in it.       *)
Through(s, k) == FlattenSeq(SubSeq(s, 1, k))
End(s, k) == Len(Through(s, k))

LEMMA Firsts ==
  ASSUME NEW s \in Seq(Buffers), NEW k \in 0 .. Len(s)
  PROVE  LET front == SubSeq(s, 1, k)
         IN  /\ front \in Seq(Buffers) /\ Len(front) = k
             /\ \A i \in 1 .. k : front[i] = s[i]
<1>1. Len(s) \in Nat /\ k \in Nat /\ k <= Len(s)
  BY LenProperties
<1>2. \A i \in 1 .. k : s[i] \in Buffers
  BY <1>1, ElementOfSeq
<1> QED
  BY <1>1, <1>2, SubSeqProperties

LEMMA ThroughGrows ==
  ASSUME NEW s \in Seq(Buffers), NEW k \in 1 .. Len(s)
  PROVE  /\ Through(s, 0) = <<>>
         /\ Through(s, k) = IF k = 1 THEN s[1] ELSE Through(s, k - 1) \o s[k]
<1>1. Len(s) \in Nat /\ k \in Nat /\ k >= 1 /\ k <= Len(s)
  BY LenProperties
<1>2. Through(s, 0) = <<>>
  <2>1. SubSeq(s, 1, 0) = <<>>
    BY SubSeqEmpty
  <2> QED
    BY <2>1 DEF Through, FlattenSeq
<1> DEFINE a == SubSeq(s, 1, k)
           b == SubSeq(s, 1, k - 1)
<1>3. a \in Seq(Buffers) /\ Len(a) = k /\ \A i \in 1 .. k : a[i] = s[i]
  <2>1. k \in 0 .. Len(s)
    BY <1>1
  <2> QED
    BY <2>1, Firsts
<1>4. b \in Seq(Buffers) /\ Len(b) = k - 1 /\ \A i \in 1 .. k - 1 : b[i] = s[i]
  <2>1. k - 1 \in 0 .. Len(s)
    BY <1>1
  <2> QED
    BY <2>1, Firsts
<1>5. Through(s, k) = FlattenSeq(a) /\ Through(s, k - 1) = FlattenSeq(b)
  BY DEF Through
<1> HIDE DEF a, b
<1>6. a # <<>>
  BY <1>1, <1>3, EmptySeq
<1>7. PICK f : Joins(f, a) /\ FlattenSeq(a) = f[Len(a)]
  BY <1>3, <1>6, FlattenIsJoin
<1>8. f[k] = IF k = 1 THEN a[k] ELSE f[k - 1] \o a[k]
  <2>1. k \in 1 .. Len(a)
    BY <1>1, <1>3
  <2> QED
    BY <1>7, <2>1 DEF Joins
<1>9. a[k] = s[k]
  BY <1>1, <1>3
<1>10. CASE k = 1
  BY <1>2, <1>3, <1>5, <1>7, <1>8, <1>9, <1>10
<1>11. CASE k # 1
  <2>1. b # <<>>
    BY <1>1, <1>4, <1>11, EmptySeq
  <2>2. PICK g : Joins(g, b) /\ FlattenSeq(b) = g[Len(b)]
    BY <1>4, <2>1, FlattenIsJoin
  <2>3. \A i \in 1 .. k - 1 : f[i] = g[i]
    <3>1. /\ k - 1 \in Nat /\ k - 1 <= Len(a) /\ k - 1 <= Len(b) /\ Len(a) \in Nat /\ Len(b) \in Nat
          /\ \A i \in 1 .. k - 1 : a[i] = b[i]
      BY <1>1, <1>3, <1>4
    <3> DEFINE n == k - 1
    <3>2. /\ n \in Nat /\ n <= Len(a) /\ n <= Len(b) /\ Len(a) \in Nat /\ Len(b) \in Nat
          /\ \A i \in 1 .. n : a[i] = b[i]
      BY <3>1
    <3>3. Joins(f, a) /\ Joins(g, b)
      BY <1>7, <2>2
    <3> HIDE DEF n
    <3>4. \A i \in 1 .. n : f[i] = g[i]
      BY <3>2, <3>3, JoinsAgree
    <3> QED
      BY <3>4 DEF n
  <2>4. f[k - 1] = g[k - 1]
    BY <1>1, <1>11, <2>3
  <2> QED
    BY <1>2, <1>3, <1>4, <1>5, <1>7, <1>8, <1>9, <1>11, <2>2, <2>4
<1> QED
  BY <1>10, <1>11

(* Every buffer lies whole between two ends, and every place in one.       *)
Placed(s, k) ==
  /\ Through(s, k) \in Buffers
  /\ \A i \in 1 .. k : End(s, i - 1) \in Nat /\ End(s, i) = End(s, i - 1) + Len(s[i]) /\ End(s, i) <= End(s, k)
  /\ \A i \in 1 .. k : \A j \in 1 .. Len(s[i]) : Through(s, k)[End(s, i - 1) + j] = s[i][j]
  /\ \A p \in 1 .. End(s, k) : \E i \in 1 .. k : \E j \in 1 .. Len(s[i]) : p = End(s, i - 1) + j

LEMMA PlacedGrows ==
  ASSUME NEW s \in Seq(Buffers), NEW k \in Nat, k + 1 \in 1 .. Len(s), Placed(s, k)
  PROVE  Placed(s, k + 1)
<1> DEFINE a == Through(s, k)
           b == Through(s, k + 1)
           new == s[k + 1]
<1>1. s[k + 1] \in Buffers
  BY ElementOfSeq
<1>2. a \in Buffers /\ End(s, k) = Len(a) /\ End(s, k + 1) = Len(b)
  BY DEF Placed, End
<1>3. b = a \o new
  <2>1. Through(s, 0) = <<>> /\ b = IF k + 1 = 1 THEN s[1] ELSE Through(s, (k + 1) - 1) \o s[k + 1]
    BY ThroughGrows
  <2>2. CASE k = 0
    <3>1. a = <<>> /\ b = new
      BY <2>1, <2>2
    <3>2. <<>> \o new = new
      BY <1>1, ConcatEmptySeq DEF Buffers
    <3> QED
      BY <3>1, <3>2
  <2>3. CASE k # 0
    <3>1. k + 1 # 1 /\ (k + 1) - 1 = k
      BY <2>3
    <3> QED
      BY <2>1, <3>1
  <2> QED
    BY <2>2, <2>3
<1> HIDE DEF a, b, new
<1>4. new \in Buffers
  BY <1>1 DEF new
<1>5. /\ b \in Buffers /\ Len(a) \in Nat /\ Len(new) \in Nat /\ Len(b) = Len(a) + Len(new)
      /\ \A i \in 1 .. Len(a) + Len(new) : b[i] = IF i <= Len(a) THEN a[i] ELSE new[i - Len(a)]
  BY <1>2, <1>3, <1>4, Joined
<1>6. \A i \in 1 .. k + 1 : i \in 1 .. k \/ (i = k + 1 /\ i - 1 = k)
  OBVIOUS
<1>7. End(s, k) \in Nat /\ End(s, k) <= End(s, k + 1) /\ End(s, k + 1) = End(s, k) + Len(new)
  BY <1>2, <1>5
<1>8. ASSUME NEW i \in 1 .. k + 1
      PROVE  End(s, i - 1) \in Nat /\ End(s, i) = End(s, i - 1) + Len(s[i]) /\ End(s, i) <= End(s, k + 1)
  <2>1. CASE i \in 1 .. k
    <3>1. End(s, i - 1) \in Nat /\ End(s, i) = End(s, i - 1) + Len(s[i]) /\ End(s, i) <= End(s, k)
      BY <2>1 DEF Placed
    <3>2. Len(s[i]) \in Nat
      <4>1. i \in 1 .. Len(s)
        BY <2>1, LenProperties
      <4> QED
        BY <4>1, ElementOfSeq, LenProperties DEF Buffers
    <3> QED
      BY <1>7, <3>1, <3>2, <1>5
  <2>2. CASE i = k + 1 /\ i - 1 = k
    BY <1>7, <2>2, <1>5 DEF new
  <2> QED
    BY <1>6, <2>1, <2>2
<1>9. ASSUME NEW i \in 1 .. k + 1, NEW j \in 1 .. Len(s[i])
      PROVE  b[End(s, i - 1) + j] = s[i][j]
  <2>1. CASE i \in 1 .. k
    <3>1. a[End(s, i - 1) + j] = s[i][j]
      BY <2>1 DEF Placed, a
    <3>2. End(s, i - 1) \in Nat /\ End(s, i) = End(s, i - 1) + Len(s[i]) /\ End(s, i) <= End(s, k)
      BY <2>1 DEF Placed
    <3>3. Len(s[i]) \in Nat
      <4>1. i \in 1 .. Len(s)
        BY <2>1, LenProperties
      <4> QED
        BY <4>1, ElementOfSeq, LenProperties DEF Buffers
    <3>4. End(s, i - 1) + j \in 1 .. Len(a) + Len(new) /\ End(s, i - 1) + j <= Len(a)
      BY <1>2, <1>5, <3>2, <3>3, SMTT(20)
    <3> QED
      BY <1>5, <3>1, <3>4
  <2>2. CASE i = k + 1 /\ i - 1 = k
    <3>1. s[i] = new /\ End(s, i - 1) = Len(a)
      BY <1>2, <2>2 DEF new
    <3>2. /\ Len(a) + j \in 1 .. Len(a) + Len(new) /\ ~(Len(a) + j <= Len(a))
          /\ (Len(a) + j) - Len(a) = j
      BY <1>5, <3>1
    <3>3. b[Len(a) + j] = new[(Len(a) + j) - Len(a)]
      BY <1>5, <3>2
    <3> QED
      BY <3>1, <3>2, <3>3
  <2> QED
    BY <1>6, <2>1, <2>2
<1>10. ASSUME NEW p \in 1 .. End(s, k + 1)
       PROVE  \E i \in 1 .. k + 1 : \E j \in 1 .. Len(s[i]) : p = End(s, i - 1) + j
  <2>1. CASE p \in 1 .. End(s, k)
    <3>1. PICK i \in 1 .. k : \E j \in 1 .. Len(s[i]) : p = End(s, i - 1) + j
      BY <2>1 DEF Placed
    <3>2. i \in 1 .. k + 1
      OBVIOUS
    <3> QED
      BY <3>1, <3>2
  <2>2. CASE ~(p \in 1 .. End(s, k))
    <3> DEFINE j == p - End(s, k)
    <3>1. j \in 1 .. Len(new) /\ p = End(s, k) + j
      BY <1>5, <1>7, <2>2
    <3>2. k + 1 \in 1 .. k + 1 /\ (k + 1) - 1 = k /\ s[k + 1] = new
      BY DEF new
    <3> HIDE DEF j
    <3> QED
      BY <3>1, <3>2
  <2> QED
    BY <2>1, <2>2
<1> QED
  BY <1>5, <1>8, <1>9, <1>10 DEF Placed, b

LEMMA AllPlaced ==
  ASSUME NEW s \in Seq(Buffers)
  PROVE  \A k \in 0 .. Len(s) : Placed(s, k)
<1> DEFINE Good == {k \in Nat : k <= Len(s) => Placed(s, k)}
<1>1. Len(s) \in Nat
  BY LenProperties
<1>2. 0 \in Good
  <2>1. Through(s, 0) = <<>>
    <3>1. SubSeq(s, 1, 0) = <<>>
      BY SubSeqEmpty
    <3> QED
      BY <3>1 DEF Through, FlattenSeq
  <2>2. Through(s, 0) \in Buffers /\ End(s, 0) = 0
    BY <2>1, EmptyBuffer DEF End
  <2>3. 1 .. 0 = {}
    OBVIOUS
  <2> QED
    BY <2>2, <2>3 DEF Placed
<1>3. ASSUME NEW k \in Nat, k \in Good PROVE k + 1 \in Good
  <2> SUFFICES ASSUME k + 1 <= Len(s) PROVE Placed(s, k + 1)
    OBVIOUS
  <2>1. k + 1 \in 1 .. Len(s) /\ k <= Len(s)
    BY <1>1
  <2>2. Placed(s, k)
    BY <1>3, <2>1
  <2> QED
    BY <2>1, <2>2, PlacedGrows
<1>4. Nat \subseteq Good
  <2> HIDE DEF Good
  <2> QED
    BY <1>2, <1>3, CountUp
<1> QED
  BY <1>1, <1>4

-----------------------------------------------------------------------------
(* Whatever the bytes, what from_utf8_lossy makes of them is text.         *)
LEMMA LossyIsText ==
  ASSUME NEW raw \in Buffers
  PROVE  LET lossy == from_utf8_lossy(raw)
         IN  /\ lossy \in Buffers /\ Len(lossy) = Len(raw) /\ IsUtf8(lossy)
             /\ \A i \in 1 .. Len(raw) : lossy[i] = IF Whole(raw, i) THEN raw[i] ELSE REPLACEMENT
<1> DEFINE lossy == from_utf8_lossy(raw)
<1>1. /\ Len(raw) \in Nat /\ DOMAIN raw = 1 .. Len(raw)
      /\ \A i \in 1 .. Len(raw) : raw[i] \in Nat
      /\ REPLACEMENT \in Nat /\ REPLACEMENT \notin Leads \union Conts
  BY LenProperties, ElementOfSeq, WireAssumption DEF Buffers
<1>2. lossy = [i \in 1 .. Len(raw) |-> IF Whole(raw, i) THEN raw[i] ELSE REPLACEMENT]
  BY <1>1 DEF from_utf8_lossy
<1> HIDE DEF lossy
<1>3. lossy \in [1 .. Len(raw) -> Nat]
  BY <1>1, <1>2
<1>4. lossy \in Buffers /\ Len(lossy) = Len(raw)
  BY <1>1, <1>3, SMTT(20) DEF Buffers
<1>5. \A i \in 1 .. Len(raw) : lossy[i] = IF Whole(raw, i) THEN raw[i] ELSE REPLACEMENT
  BY <1>2
<1>6. ASSUME NEW i \in 1 .. Len(raw) PROVE Whole(lossy, i)
  <2>1. CASE ~Whole(raw, i) \/ raw[i] \notin Leads \union Conts
    BY <1>1, <1>5, <2>1 DEF Whole
  <2>2. CASE raw[i] \in Leads /\ i < Len(raw) /\ raw[i + 1] \in Conts
    <3>1. i + 1 \in 1 .. Len(raw) /\ (i + 1) - 1 = i /\ i + 1 > 1
      BY <1>1, <2>2
    <3>2. Whole(raw, i) /\ Whole(raw, i + 1)
      BY <2>2, <3>1 DEF Whole
    <3>3. lossy[i] = raw[i] /\ lossy[i + 1] = raw[i + 1]
      BY <1>5, <3>1, <3>2
    <3> QED
      BY <1>4, <2>2, <3>3 DEF Whole
  <2>3. CASE raw[i] \in Conts /\ i > 1 /\ raw[i - 1] \in Leads
    <3>1. i - 1 \in 1 .. Len(raw) /\ (i - 1) + 1 = i /\ i - 1 < Len(raw)
      BY <1>1, <2>3
    <3>2. Whole(raw, i) /\ Whole(raw, i - 1)
      BY <2>3, <3>1 DEF Whole
    <3>3. lossy[i] = raw[i] /\ lossy[i - 1] = raw[i - 1]
      BY <1>5, <3>1, <3>2
    <3> QED
      BY <2>3, <3>3 DEF Whole
  <2> QED
    BY <2>1, <2>2, <2>3 DEF Whole
<1>7. DOMAIN lossy = 1 .. Len(raw)
  BY <1>3
<1> QED
  BY <1>4, <1>5, <1>6, <1>7 DEF IsUtf8, lossy

LEMMA FrameAlone ==
  ASSUME NEW type \in Nat, NEW payload \in Buffers, Len(payload) < U32
  PROVE  LET buf == build_frame(type, payload)
         IN  /\ buf \in Buffers /\ Len(buf) = 3 + Len(payload)
             /\ buf[1] = SPMP_MAGIC /\ buf[2] = type /\ buf[3] = Len(payload)
             /\ Drop(buf, 3) = payload
<1> DEFINE n == Len(payload)
           header == <<SPMP_MAGIC, type, n>>
           buf == build_frame(type, payload)
<1>1. n \in Nat /\ U32 \in Nat /\ SPMP_MAGIC \in Nat
  BY LenProperties, WireAssumption DEF Buffers
<1>2. buf = <<SPMP_MAGIC, type>> \o (<<n>> \o payload)
  BY <1>1, NoWrap DEF build_frame, Block
<1>3. /\ header \in Buffers /\ Len(header) = 3
      /\ header[1] = SPMP_MAGIC /\ header[2] = type /\ header[3] = n
  <2> HIDE DEF n
  <2>1. header[1] = SPMP_MAGIC /\ header[2] = type /\ header[3] = n
    OBVIOUS
  <2> QED
    BY <1>1, <2>1, ShortTuples
<1> HIDE DEF n
<1>4. <<SPMP_MAGIC, type>> \o (<<n>> \o payload) = header \o payload
  <2> DEFINE front == <<SPMP_MAGIC, type>>
             cell == <<n>>
  <2>1. front \in Buffers /\ cell \in Buffers /\ front \o cell = header
    BY <1>1, ShortTuples
  <2> HIDE DEF front, cell, header
  <2>2. front \o (cell \o payload) = (front \o cell) \o payload
    BY <2>1, Regrouped
  <2> QED
    BY <2>1, <2>2 DEF front, cell
<1> HIDE DEF header, buf
<1>5. buf = header \o payload
  BY <1>2, <1>4
<1>6. /\ buf \in Buffers /\ Len(buf) = Len(header) + Len(payload)
      /\ \A i \in 1 .. Len(header) + Len(payload) :
           buf[i] = IF i <= Len(header) THEN header[i] ELSE payload[i - Len(header)]
  BY <1>3, <1>5, Joined
<1>7. Drop(buf, 3) = payload
  BY <1>3, <1>5, PartsOfConcat
<1>8. Len(buf) = 3 + n /\ buf[1] = header[1] /\ buf[2] = header[2] /\ buf[3] = header[3]
  BY <1>1, <1>3, <1>6 DEF n
<1> QED
  BY <1>3, <1>6, <1>7, <1>8 DEF buf, n

(* A token of text reaches the client as it is.                            *)
LEMMA TokenIsReceived ==
  ASSUME NEW token \in Buffers, IsUtf8(token), Len(token) + 1 < U32
  PROVE  LET read == receive_response(encode_response_frame(token, FALSE))
         IN  read.ok /\ read.text = token
<1> DEFINE cell == <<0>>
           payload == cell \o token
           buf == build_frame(ComputeResp, payload)
<1>1. encode_response_frame(token, FALSE) = buf
  BY DEF encode_response_frame
<1>2. cell \in Buffers /\ Len(cell) = 1
  BY ShortTuples
<1>3. cell[1] = 0
  OBVIOUS
<1> HIDE DEF cell
<1>4. /\ payload \in Buffers /\ Len(payload) = 1 + Len(token) /\ Len(token) \in Nat
      /\ payload[1] = 0
  <2>1. /\ payload \in Buffers /\ Len(payload) = Len(cell) + Len(token) /\ Len(token) \in Nat
        /\ \A i \in 1 .. Len(cell) + Len(token) : payload[i] = IF i <= Len(cell) THEN cell[i] ELSE token[i - Len(cell)]
    BY <1>2, Joined
  <2> HIDE DEF payload
  <2>2. 1 \in 1 .. Len(cell) + Len(token) /\ 1 <= Len(cell)
    BY <1>2, <2>1
  <2> QED
    BY <1>2, <1>3, <2>1, <2>2
<1>5. Drop(payload, 1) = token
  BY <1>2, PartsOfConcat
<1> HIDE DEF payload
<1>6. payload # <<>> /\ Tail(payload) = token
  <2>1. payload # <<>>
    BY <1>4, EmptyBuffer
  <2> QED
    BY <1>4, <1>5, <2>1, TailIsDrop
<1>7. Response(payload) = [ok |-> TRUE, text |-> token, is_done |-> Head(payload) # 0]
  BY <1>6 DEF Response
<1>8. Len(payload) < U32 /\ ComputeResp \in Nat /\ U32 \in Nat
  BY <1>4, WireAssumption DEF ComputeResp
<1>13. /\ ~(Len(buf) < 3) /\ IsResponse(buf) /\ buf[3] = Len(payload)
       /\ Drop(buf, 3) = payload
  <2> DEFINE type == ComputeResp
             frame == build_frame(type, payload)
  <2>1. type \in Nat /\ payload \in Buffers /\ Len(payload) < U32
    BY <1>4, <1>8
  <2>2. frame = buf
    OBVIOUS
  <2> HIDE DEF type
  <2>3. /\ Len(frame) = 3 + Len(payload)
        /\ frame[1] = SPMP_MAGIC /\ frame[2] = type /\ frame[3] = Len(payload)
        /\ Drop(frame, 3) = payload
    BY <2>1, FrameAlone
  <2> HIDE DEF frame, buf
  <2> QED
    BY <1>4, <2>2, <2>3 DEF IsResponse, type
<1> HIDE DEF buf
<1>14. Take(payload, Len(payload)) = payload /\ ~(Len(payload) < Len(payload))
  BY <1>4, SubSeqFull DEF Take, Buffers
<1>15. receive_response(buf) = Response(payload)
  BY <1>13, <1>14 DEF receive_response, HEADER_LEN
<1> DEFINE answer == Response(payload)
           read == receive_response(encode_response_frame(token, FALSE))
<1>16. answer.ok /\ answer.text = token
  BY <1>7
<1>17. read = answer
  BY <1>1, <1>15
<1> HIDE DEF answer, read
<1>18. read.ok /\ read.text = token
  BY <1>16, <1>17
<1> QED
  BY <1>18 DEF read

-----------------------------------------------------------------------------
(* However an answer is cut, and whichever of its chunks fail, the client  *)
(* reads it byte for byte but for the characters that were cut.            *)
THEOREM AnswersAreWhole ==
  ASSUME NEW parts \in Seq([ok : BOOLEAN, bytes : Buffers]),
         \A i \in 1 .. Len(parts) : Len(parts[i].bytes) + 1 < U32
  PROVE  TokensArrive(parts)
<1> DEFINE n == Len(parts)
           c == Arrived(parts)
           t == [i \in DOMAIN parts |-> from_utf8_lossy(c[i])]
           sent == FlattenSeq(c)
           text == FlattenSeq(t)
           ends == Ends(parts)
<1>1. n \in Nat /\ DOMAIN parts = 1 .. n
      /\ \A i \in 1 .. n : parts[i].ok \in BOOLEAN /\ parts[i].bytes \in Buffers
  <2>1. n \in Nat /\ DOMAIN parts = 1 .. n
    BY LenProperties
  <2>2. ASSUME NEW i \in 1 .. n PROVE parts[i].ok \in BOOLEAN /\ parts[i].bytes \in Buffers
    <3>1. parts[i] \in [ok : BOOLEAN, bytes : Buffers]
      BY ElementOfSeq
    <3> QED
      BY <3>1
  <2> QED
    BY <2>1, <2>2
<1>2. \A i \in 1 .. n : c[i] \in Buffers /\ Len(c[i]) + 1 < U32
  <2>1. U32 > 1 \/ n = 0
    <3>1. n > 0 => 1 \in 1 .. n
      BY <1>1
    <3>2. \A i \in 1 .. n : Len(parts[i].bytes) \in Nat
      BY <1>1, LenProperties DEF Buffers
    <3> QED
      BY <1>1, <3>1, <3>2, WireAssumption
  <2> QED
    BY <1>1, <2>1, EmptyBuffer, WireAssumption DEF Arrived
<1>3. c \in Seq(Buffers) /\ Len(c) = n
  <2>1. c \in [1 .. n -> Buffers]
    BY <1>1, <1>2 DEF Arrived
  <2> HIDE DEF c, n
  <2> QED
    BY <1>1, <2>1
<1>4. \A i \in 1 .. n : /\ t[i] \in Buffers /\ Len(t[i]) = Len(c[i]) /\ IsUtf8(t[i])
                        /\ \A j \in 1 .. Len(c[i]) : t[i][j] = IF Whole(c[i], j) THEN c[i][j] ELSE REPLACEMENT
  <2> SUFFICES ASSUME NEW i \in 1 .. n
               PROVE  /\ t[i] \in Buffers /\ Len(t[i]) = Len(c[i]) /\ IsUtf8(t[i])
                      /\ \A j \in 1 .. Len(c[i]) : t[i][j] = IF Whole(c[i], j) THEN c[i][j] ELSE REPLACEMENT
    OBVIOUS
  <2>1. t[i] = from_utf8_lossy(c[i])
    BY <1>1
  <2> HIDE DEF t, c
  <2> QED
    BY <1>2, <2>1, LossyIsText
<1>5. t \in Seq(Buffers) /\ Len(t) = n
  <2>1. t \in [1 .. n -> Buffers]
    BY <1>1, <1>4
  <2> HIDE DEF t, n
  <2> QED
    BY <1>1, <2>1
<1>6. \A i \in 1 .. n : Token(parts[i]) = t[i]
  <2> SUFFICES ASSUME NEW i \in 1 .. n PROVE Token(parts[i]) = t[i]
    OBVIOUS
  <2>1. c[i] = IF parts[i].ok THEN parts[i].bytes ELSE <<>>
    BY <1>1 DEF Arrived
  <2>2. t[i] = from_utf8_lossy(c[i])
    BY <1>1
  <2>3. CASE parts[i].ok
    BY <2>1, <2>2, <2>3 DEF Token
  <2>4. CASE ~parts[i].ok
    <3>1. Len(t[i]) = 0 /\ t[i] \in Seq(Nat)
      BY <1>4, <2>1, <2>4, EmptyBuffer DEF Buffers
    <3>2. t[i] = <<>>
      <4> DEFINE u == t[i]
      <4>1. u \in Seq(Nat) /\ Len(u) = 0
        BY <3>1
      <4> HIDE DEF u
      <4>2. u = <<>>
        BY <4>1, EmptySeq
      <4> QED
        BY <4>2 DEF u
    <3> QED
      BY <2>4, <3>2 DEF Token
  <2> QED
    BY <2>3, <2>4
<1>7. \A i \in 1 .. n : Received(parts)[i].ok /\ Received(parts)[i].text = t[i]
  <2> SUFFICES ASSUME NEW i \in 1 .. n
               PROVE  Received(parts)[i].ok /\ Received(parts)[i].text = t[i]
    OBVIOUS
  <2>1. Received(parts)[i] = receive_response(encode_response_frame(t[i], FALSE))
    <3>1. generate_token_stream(parts)[i] = Token(parts[i])
      BY <1>1 DEF generate_token_stream
    <3>2. Token(parts[i]) = t[i]
      BY <1>6
    <3>3. Received(parts)[i] = receive_response(encode_response_frame(generate_token_stream(parts)[i], FALSE))
      BY <1>1 DEF Received
    <3> HIDE DEF t
    <3> QED
      BY <3>1, <3>2, <3>3
  <2>2. t[i] \in Buffers /\ IsUtf8(t[i]) /\ Len(t[i]) + 1 < U32
    BY <1>2, <1>4
  <2> HIDE DEF t
  <2> QED
    BY <2>1, <2>2, TokenIsReceived
<1>8. [i \in DOMAIN parts |-> Received(parts)[i].text] = t
  <2> DEFINE r == [i \in DOMAIN parts |-> Received(parts)[i].text]
  <2>1. t = [i \in DOMAIN parts |-> t[i]]
    OBVIOUS
  <2>2. \A i \in DOMAIN parts : Received(parts)[i].text = t[i]
    BY <1>1, <1>7
  <2> HIDE DEF t
  <2> QED
    BY <2>1, <2>2
<1>9. \A i \in DOMAIN Received(parts) : Received(parts)[i].ok
  <2>1. DOMAIN Received(parts) = 1 .. n
    BY <1>1 DEF Received
  <2> QED
    BY <1>7, <2>1
<1>10. ends = {End(c, k) : k \in 1 .. n}
  BY <1>1 DEF Ends, End, Through
<1> HIDE DEF c, t, n
<1>11. sent = Through(c, n) /\ text = Through(t, n)
  BY <1>3, <1>5, SubSeqFull DEF Through
<1> HIDE DEF sent, text, ends
<1>12. Placed(c, n) /\ Placed(t, n)
  <2>1. n \in 0 .. n
    BY <1>1
  <2> QED
    BY <1>3, <1>5, <2>1, AllPlaced
<1> DEFINE cut(p) == \/ sent[p] \in Leads /\ p \in ends
                     \/ sent[p] \in Conts /\ p - 1 \in ends
<1> SUFFICES ASSUME IsUtf8(sent)
             PROVE  text = [p \in DOMAIN sent |-> IF cut(p) THEN REPLACEMENT ELSE sent[p]]
  BY <1>8, <1>9 DEF TokensArrive, sent, text, c, ends
<1>13. /\ n \in Nat
       /\ \A i \in 1 .. n : /\ c[i] \in Buffers /\ Len(c[i]) \in Nat /\ Len(t[i]) = Len(c[i])
                           /\ End(c, i - 1) \in Nat /\ End(c, i) = End(c, i - 1) + Len(c[i])
  <2>1. n \in Nat
    BY <1>1 DEF n
  <2>2. \A i \in 1 .. n : c[i] \in Buffers /\ Len(c[i]) \in Nat
    BY <1>2, LenProperties DEF Buffers
  <2> QED
    BY <1>4, <1>12, <2>1, <2>2 DEF Placed
<1>14. \A k \in 0 .. n : End(c, k) = End(t, k)
  <2> DEFINE Good == {k \in Nat : k <= n => End(c, k) = End(t, k)}
  <2>1. 0 \in Good
    <3>1. \A u : SubSeq(u, 1, 0) = <<>>
      BY SubSeqEmpty
    <3> QED
      BY <3>1 DEF End, Through
  <2>2. ASSUME NEW k \in Nat, k \in Good PROVE k + 1 \in Good
    <3> SUFFICES ASSUME k + 1 <= n PROVE End(c, k + 1) = End(t, k + 1)
      OBVIOUS
    <3>1. k + 1 \in 1 .. n /\ (k + 1) - 1 = k /\ k <= n
      BY <1>13
    <3>2. End(c, k) = End(t, k)
      BY <2>2, <3>1
    <3>3. End(c, k + 1) = End(c, k) + Len(c[k + 1])
      BY <1>13, <3>1
    <3>4. End(t, k + 1) = End(t, k) + Len(t[k + 1])
      BY <1>12, <3>1 DEF Placed
    <3>5. Len(t[k + 1]) = Len(c[k + 1])
      BY <1>13, <3>1
    <3> QED
      BY <3>2, <3>3, <3>4, <3>5
  <2>3. Nat \subseteq Good
    <3> HIDE DEF Good
    <3> QED
      BY <2>1, <2>2, CountUp
  <2> QED
    BY <1>13, <2>3
<1>15. \A i, k \in 0 .. n : i <= k => End(c, i) \in Nat /\ End(c, i) <= End(c, k)
  <2> SUFFICES ASSUME NEW i \in 0 .. n, NEW k \in 0 .. n, i <= k
               PROVE  End(c, i) \in Nat /\ End(c, i) <= End(c, k)
    OBVIOUS
  <2>1. Placed(c, k)
    BY <1>3, AllPlaced
  <2>2. End(c, 0) = 0
    <3>1. SubSeq(c, 1, 0) = <<>>
      BY SubSeqEmpty
    <3> QED
      BY <3>1, EmptyBuffer DEF End, Through, FlattenSeq
  <2>3. End(c, k) \in Nat
    BY <2>1, LenProperties DEF Placed, End, Buffers
  <2>4. i = 0 \/ i \in 1 .. k
    BY <1>13
  <2>5. CASE i = 0
    BY <2>2, <2>3, <2>5
  <2>6. CASE i \in 1 .. k
    <3>1. End(c, i) \in Nat
      <4>1. i \in 1 .. n
        BY <1>13, <2>6
      <4>2. End(c, i - 1) \in Nat /\ Len(c[i]) \in Nat /\ End(c, i) = End(c, i - 1) + Len(c[i])
        BY <1>13, <4>1
      <4> QED
        BY <4>2
    <3> QED
      BY <2>1, <2>6, <3>1 DEF Placed
  <2> QED
    BY <2>4, <2>5, <2>6
<1>16. Len(text) = Len(sent) /\ Len(sent) = End(c, n) /\ End(c, n) \in Nat
       /\ sent \in Buffers /\ text \in Buffers
  <2>1. n \in 0 .. n
    BY <1>13
  <2>2. End(c, n) = End(t, n) /\ End(c, n) \in Nat
    BY <1>13, <1>14, <1>15, <2>1
  <2> QED
    BY <1>11, <1>12, <2>2 DEF Placed, End
<1>17. \A q \in Leads : q \notin Conts
  BY WireAssumption
<1>18. ASSUME NEW p \in 1 .. Len(sent)
       PROVE  text[p] = IF cut(p) THEN REPLACEMENT ELSE sent[p]
  <2>1. PICK i \in 1 .. n : \E j \in 1 .. Len(c[i]) : p = End(c, i - 1) + j
    BY <1>12, <1>16 DEF Placed
  <2>2. PICK j \in 1 .. Len(c[i]) : p = End(c, i - 1) + j
    BY <2>1
  <2> DEFINE a == c[i]
             l == Len(a)
             e == End(c, i - 1)
  <2>3. /\ e \in Nat /\ l \in Nat /\ j \in 1 .. l /\ p = e + j
        /\ End(c, i) = e + l /\ i - 1 \in 0 .. n /\ i \in 0 .. n /\ n \in Nat
    BY <1>13, <2>2
  <2>4. \A m \in 1 .. l : sent[e + m] = a[m]
    BY <1>11, <1>12 DEF Placed
  <2>5. text[p] = IF Whole(a, j) THEN a[j] ELSE REPLACEMENT
    <3>1. End(t, i - 1) = e
      BY <1>14, <2>3
    <3>2. j \in 1 .. Len(t[i])
      BY <1>13, <2>2
    <3>3. text[End(t, i - 1) + j] = t[i][j]
      BY <1>11, <1>12, <3>2 DEF Placed
    <3>4. t[i][j] = IF Whole(c[i], j) THEN c[i][j] ELSE REPLACEMENT
      BY <1>4, <2>2
    <3> QED
      BY <2>3, <3>1, <3>3, <3>4
  <2>6. \A q \in ends : q \in Nat /\ (q <= e \/ q >= e + l)
    <3> SUFFICES ASSUME NEW k \in 1 .. n
                 PROVE  End(c, k) \in Nat /\ (End(c, k) <= e \/ End(c, k) >= e + l)
      BY <1>10
    <3>1. k \in 0 .. n /\ (k <= i - 1 \/ i <= k)
      BY <2>3
    <3>2. CASE k <= i - 1
      BY <1>15, <2>3, <3>1, <3>2
    <3>3. CASE i <= k
      <4>1. End(c, k) \in Nat
        BY <1>15, <3>1
      <4>2. End(c, i) <= End(c, k)
        BY <1>15, <2>3, <3>1, <3>3
      <4> QED
        BY <2>3, <4>1, <4>2
    <3> QED
      BY <3>1, <3>2, <3>3
  <2>7. e + l \in ends
    BY <1>10, <2>3
  <2>between. \A q \in ends : ~(q > e /\ q < e + l)
    <3>1. e \in Nat /\ l \in Nat
      BY <2>3
    <3> HIDE DEF e, l
    <3>2. \A q \in Nat : q <= e \/ q >= e + l => ~(q > e /\ q < e + l)
      BY <3>1
    <3> QED
      BY <2>6, <3>2 DEF e, l
  <2>8. e = 0 \/ e \in ends
    <3>1. CASE i = 1
      <4>1. SubSeq(c, 1, 0) = <<>>
        BY SubSeqEmpty
      <4>2. End(c, 0) = 0
        BY <4>1, EmptyBuffer DEF End, Through, FlattenSeq
      <4> QED
        BY <3>1, <4>2
    <3>2. CASE i # 1
      <4>1. i - 1 \in 1 .. n
        BY <2>3, <3>2
      <4> QED
        BY <1>10, <4>1
    <3> QED
      BY <3>1, <3>2
  <2>9. Whole(sent, p) /\ sent[p] = a[j]
    <3>1. DOMAIN sent = 1 .. Len(sent)
      BY <1>16, LenProperties DEF Buffers
    <3> QED
      BY <2>3, <2>4, <3>1 DEF IsUtf8
  <2> HIDE DEF a, l, e
  <2>10. l = Len(a)
    BY DEF l
  <2>11. CASE a[j] \notin Leads \union Conts
    BY <2>5, <2>9, <2>11 DEF Whole
  <2>12. CASE a[j] \in Leads
    <3>1. sent[p + 1] \in Conts /\ a[j] \notin Conts
      BY <1>17, <2>9, <2>12 DEF Whole
    <3>2. CASE j < l
      <4>1. j + 1 \in 1 .. l /\ e + (j + 1) = p + 1 /\ p > e /\ p < e + l
        BY <2>3, <3>2
      <4>2. a[j + 1] \in Conts
        BY <2>4, <3>1, <4>1
      <4>3. Whole(a, j)
        BY <2>10, <2>12, <3>2, <4>2 DEF Whole
      <4>4. p \notin ends
        BY <2>between, <4>1
      <4> QED
        BY <2>5, <2>9, <3>1, <4>3, <4>4
    <3>3. CASE j = l
      <4>1. ~Whole(a, j)
        BY <2>3, <2>10, <2>12, <3>1, <3>3 DEF Whole
      <4>2. p \in ends
        BY <2>3, <2>7, <3>3
      <4> QED
        BY <2>5, <2>9, <2>12, <4>1, <4>2
    <3> QED
      BY <2>3, <3>2, <3>3
  <2>13. CASE a[j] \in Conts
    <3>1. p > 1 /\ sent[p - 1] \in Leads /\ a[j] \notin Leads
      BY <1>17, <2>9, <2>13 DEF Whole
    <3>2. CASE j > 1
      <4>1. j - 1 \in 1 .. l /\ e + (j - 1) = p - 1 /\ p - 1 > e /\ p - 1 < e + l
        BY <2>3, <3>2
      <4>2. a[j - 1] \in Leads
        BY <2>4, <3>1, <4>1
      <4>3. Whole(a, j)
        BY <2>13, <3>2, <4>2 DEF Whole
      <4>4. p - 1 \notin ends
        BY <2>between, <4>1
      <4> QED
        BY <2>5, <2>9, <3>1, <4>3, <4>4
    <3>3. CASE j = 1
      <4>1. ~Whole(a, j)
        BY <2>13, <3>1, <3>3 DEF Whole
      <4>2. p - 1 = e /\ e # 0
        BY <2>3, <3>1, <3>3
      <4>3. p - 1 \in ends
        BY <2>8, <4>2
      <4> QED
        BY <2>5, <2>9, <2>13, <4>1, <4>3
    <3> QED
      BY <2>3, <3>2, <3>3
  <2> QED
    BY <2>11, <2>12, <2>13
<1>19. DOMAIN sent = 1 .. Len(sent) /\ text = [p \in 1 .. Len(sent) |-> text[p]]
  <2>1. text \in [1 .. Len(text) -> Nat] /\ DOMAIN sent = 1 .. Len(sent)
    BY <1>16, LenProperties DEF Buffers
  <2> QED
    BY <1>16, <2>1
<1> HIDE DEF cut
<1>20. text = [p \in 1 .. Len(sent) |-> IF cut(p) THEN REPLACEMENT ELSE sent[p]]
  BY <1>18, <1>19
<1> QED
  BY <1>19, <1>20 DEF cut

-----------------------------------------------------------------------------
(* The governor.  Its window is the end of the history, begins after the   *)
(* last trip, and is short of its size only if nothing lies between that   *)
(* trip, or the first ticket, and its begin.  It holds one win at most,    *)
(* since a second one trips.                                               *)
WindowEnds == Len(drawn) - Len(sliding_window)

WindowIsRecent ==
  /\ drawn \in Seq(BOOLEAN) /\ sliding_window \in Seq(BOOLEAN)
  /\ Len(sliding_window) <= WindowSize /\ Len(sliding_window) <= Len(drawn)
  /\ \A i \in 1 .. Len(sliding_window) : sliding_window[i] = drawn[WindowEnds + i]
  /\ trips \subseteq 1 .. WindowEnds
  /\ Full(sliding_window) \/ WindowEnds = 0 \/ WindowEnds \in trips

OneWinAtMost ==
  \/ window_wins = 0 /\ \A i \in 1 .. Len(sliding_window) : ~sliding_window[i]
  \/ /\ window_wins = 1
     /\ \E i \in 1 .. Len(sliding_window) :
          /\ sliding_window[i]
          /\ \A j \in 1 .. Len(sliding_window) : sliding_window[j] => j = i

TripsAreDue ==
  /\ IsFiniteSet(trips) /\ governor_triggers = Cardinality(trips)
  /\ \A i \in 1 .. Len(drawn) : i \in trips <=> TripDue(i)

(* The present dry spell is the run of losses at the end of the history,   *)
(* and the maximum the longest run anywhere.                               *)
SpellsAreRuns ==
  /\ current_dry_spell \in 0 .. Len(drawn)
  /\ \A i \in Len(drawn) - current_dry_spell + 1 .. Len(drawn) : ~drawn[i]
  /\ current_dry_spell < Len(drawn) => drawn[Len(drawn) - current_dry_spell]
  /\ max_dry_spell \in Losses
  /\ \A n \in Losses : n <= max_dry_spell

GovernorInv == WindowIsRecent /\ OneWinAtMost /\ TripsAreDue /\ SpellsAreRuns

LEMMA GovernorStarts == Init => GovernorInv
<1> SUFFICES ASSUME Init PROVE GovernorInv
  OBVIOUS
<1>1. drawn = <<>> /\ sliding_window = <<>> /\ trips = {} /\ Len(drawn) = 0 /\ Len(sliding_window) = 0
  BY DEF Init
<1>2. WindowIsRecent
  BY <1>1, GovernorAssumption DEF WindowIsRecent, WindowEnds, Full
<1>3. OneWinAtMost
  BY <1>1 DEF Init, OneWinAtMost
<1>4. TripsAreDue
  BY <1>1, FS_EmptySet DEF Init, TripsAreDue
<1>5. Losses = {0}
  <2>1. 0 \in Losses
    BY <1>1 DEF Losses
  <2> QED
    BY <1>1, <2>1 DEF Losses
<1>6. SpellsAreRuns
  BY <1>1, <1>5 DEF Init, SpellsAreRuns
<1> QED
  BY <1>2, <1>3, <1>4, <1>6 DEF GovernorInv

(* Slide drops the oldest outcome of a full window, and with it its win,   *)
(* before it takes the next: what is kept is the history from a ticket     *)
(* that is after the last trip and less than a window away.                *)
Kept == IF Full(sliding_window) THEN Tail(sliding_window) ELSE sliding_window

Left == IF Full(sliding_window) THEN window_wins - Bit(Head(sliding_window)) ELSE window_wins

Before == Len(drawn) - Len(Kept)

LEMMA SlideIsKept ==
  ASSUME NEW is_win
  PROVE  Slide(is_win) = [window |-> Append(Kept, is_win), wins |-> Left + Bit(is_win)]
BY DEF Slide, Kept, Left

LEMMA KeptIsRecent ==
  ASSUME WindowIsRecent
  PROVE  /\ Kept \in Seq(BOOLEAN)
         /\ Len(Kept) < WindowSize /\ Len(Kept) <= Len(drawn)
         /\ \A i \in 1 .. Len(Kept) : Kept[i] = drawn[Before + i]
         /\ trips \subseteq 1 .. Before
         /\ Len(Kept) + 1 = WindowSize \/ Before = 0 \/ Before \in trips
<1> DEFINE L == Len(sliding_window)
           N == Len(drawn)
<1>1. L \in Nat /\ N \in Nat /\ L <= WindowSize /\ L <= N /\ WindowSize \in Nat \ {0}
  BY GovernorAssumption DEF WindowIsRecent
<1>2. CASE Full(sliding_window)
  <2>1. L = WindowSize /\ sliding_window # <<>>
    BY <1>1, <1>2 DEF Full
  <2>2. /\ Kept \in Seq(BOOLEAN) /\ Len(Kept) = L - 1
        /\ \A i \in 1 .. Len(Kept) : Kept[i] = sliding_window[i + 1]
    BY <1>1, <1>2, <2>1 DEF Kept, WindowIsRecent
  <2>3. Before = N - L + 1 /\ WindowEnds = N - L
    BY <1>1, <2>2 DEF Before, WindowEnds
  <2>4. ASSUME NEW i \in 1 .. Len(Kept)
        PROVE  Kept[i] = drawn[Before + i]
    <3>1. i + 1 \in 1 .. L /\ WindowEnds + (i + 1) = Before + i
      BY <1>1, <2>2, <2>3
    <3>2. sliding_window[i + 1] = drawn[WindowEnds + (i + 1)]
      BY <3>1 DEF WindowIsRecent
    <3> QED
      BY <2>2, <3>1, <3>2
  <2>5. trips \subseteq 1 .. Before
    BY <1>1, <2>3 DEF WindowIsRecent
  <2> QED
    BY <1>1, <2>1, <2>2, <2>4, <2>5
<1>3. CASE ~Full(sliding_window)
  <2>1. Kept = sliding_window /\ Before = WindowEnds /\ L # WindowSize
    BY <1>3 DEF Kept, Before, WindowEnds, Full
  <2> QED
    BY <1>1, <1>3, <2>1 DEF WindowIsRecent
<1> QED
  BY <1>2, <1>3

LEMMA KeptHasOneWin ==
  ASSUME WindowIsRecent, OneWinAtMost
  PROVE  \/ Left = 0 /\ \A i \in 1 .. Len(Kept) : ~Kept[i]
         \/ /\ Left = 1
            /\ \E i \in 1 .. Len(Kept) :
                 /\ Kept[i]
                 /\ \A j \in 1 .. Len(Kept) : Kept[j] => j = i
<1> DEFINE L == Len(sliding_window)
<1>1. L \in Nat /\ sliding_window \in Seq(BOOLEAN) /\ WindowSize \in Nat \ {0}
  BY GovernorAssumption DEF WindowIsRecent
<1>2. CASE Full(sliding_window)
  <2>1. L >= 1 /\ sliding_window # <<>>
    BY <1>1, <1>2 DEF Full
  <2>2. /\ Len(Kept) = L - 1 /\ Left = window_wins - Bit(sliding_window[1])
        /\ \A i \in 1 .. Len(Kept) : Kept[i] = sliding_window[i + 1]
    BY <1>1, <1>2, <2>1 DEF Kept, Left
  <2>3. CASE window_wins = 0 /\ \A i \in 1 .. L : ~sliding_window[i]
    <3>1. Left = 0
      <4>1. ~sliding_window[1]
        BY <1>1, <2>1, <2>3
      <4>2. Bit(sliding_window[1]) = 0
        BY <4>1 DEF Bit
      <4> QED
        BY <2>2, <2>3, <4>2
    <3>2. ASSUME NEW i \in 1 .. Len(Kept) PROVE ~Kept[i]
      BY <1>1, <2>1, <2>2, <2>3
    <3> QED
      BY <3>1, <3>2
  <2>4. CASE window_wins # 0 \/ \E i \in 1 .. L : sliding_window[i]
    <3>1. window_wins = 1
      BY <2>4 DEF OneWinAtMost
    <3>2. PICK i \in 1 .. L : sliding_window[i] /\ \A j \in 1 .. L : sliding_window[j] => j = i
      BY <2>4 DEF OneWinAtMost
    <3>3. CASE i = 1
      <4>1. Left = 0
        BY <2>2, <3>1, <3>2, <3>3 DEF Bit
      <4>2. ASSUME NEW j \in 1 .. Len(Kept) PROVE ~Kept[j]
        BY <1>1, <2>1, <2>2, <3>2, <3>3
      <4> QED
        BY <4>1, <4>2
    <3>4. CASE i # 1
      <4>1. ~sliding_window[1]
        BY <1>1, <2>1, <3>2, <3>4
      <4>2. Left = 1
        BY <2>2, <3>1, <4>1 DEF Bit
      <4>3. i - 1 \in 1 .. Len(Kept) /\ Kept[i - 1]
        BY <1>1, <2>1, <2>2, <3>2, <3>4
      <4>4. ASSUME NEW j \in 1 .. Len(Kept), Kept[j] PROVE j = i - 1
        BY <1>1, <2>1, <2>2, <3>2, <4>4
      <4> QED
        BY <4>2, <4>3, <4>4
    <3> QED
      BY <3>3, <3>4
  <2> QED
    BY <2>3, <2>4
<1>3. CASE ~Full(sliding_window)
  BY <1>3 DEF Kept, Left, OneWinAtMost
<1> QED
  BY <1>2, <1>3

(* What a ticket adds to the history.                                      *)
LEMMA HistoryGrows ==
  ASSUME GovernorInv, NEW is_win \in BOOLEAN, Ticket(is_win)
  PROVE  /\ Len(drawn) \in Nat /\ drawn' \in Seq(BOOLEAN)
         /\ Len(drawn') = Len(drawn) + 1 /\ drawn'[Len(drawn) + 1] = is_win
         /\ \A i \in 1 .. Len(drawn) : drawn'[i] = drawn[i]
BY DEF GovernorInv, WindowIsRecent, Ticket

LEMMA KeptCounts ==
  ASSUME GovernorInv
  PROVE  /\ Len(Kept) \in Nat /\ Len(drawn) \in Nat /\ WindowSize \in Nat \ {0}
         /\ Before \in Nat /\ Before + Len(Kept) = Len(drawn) /\ Before <= Len(drawn)
         /\ Len(Kept) < WindowSize
         /\ Left \in {0, 1}
BY KeptIsRecent, KeptHasOneWin, GovernorAssumption DEF GovernorInv, WindowIsRecent, Before

(* A ticket is due to trip when it wins and a win was kept.                *)
LEMMA TripIsSecondWin ==
  ASSUME GovernorInv, NEW is_win \in BOOLEAN, Ticket(is_win),
         trips' \subseteq trips \union {Len(drawn) + 1}, trips \subseteq trips',
         NEW n, n = Len(drawn) + 1
  PROVE  TripDue(n)' <=> is_win /\ Left = 1
<1> DEFINE N == Len(drawn)
<1>1. /\ N \in Nat /\ drawn' \in Seq(BOOLEAN) /\ Len(drawn') = n /\ drawn'[n] = is_win
      /\ \A i \in 1 .. N : drawn'[i] = drawn[i]
  BY HistoryGrows
<1>2. Wins(drawn)' = {i \in 1 .. n : drawn'[i]}
  BY <1>1 DEF Wins
<1>3. /\ Len(Kept) \in Nat /\ WindowSize \in Nat \ {0} /\ Before \in Nat
      /\ Before + Len(Kept) = N /\ Len(Kept) < WindowSize
  BY KeptCounts
<1>4. /\ trips \subseteq 1 .. Before
      /\ \A i \in 1 .. Len(Kept) : Kept[i] = drawn[Before + i]
      /\ Len(Kept) + 1 = WindowSize \/ Before = 0 \/ Before \in trips
  BY KeptIsRecent DEF GovernorInv
<1>5. TripDue(n)' <=> /\ drawn'[n]
                      /\ \E j \in Wins(drawn)' : /\ n - WindowSize < j /\ j < n
                                                 /\ \A k \in trips' : k < j \/ k >= n
  BY DEF TripDue
<1>6. ASSUME is_win, Left = 1 PROVE TripDue(n)'
  <2>1. PICK i \in 1 .. Len(Kept) : Kept[i]
    BY <1>6, KeptHasOneWin DEF GovernorInv
  <2> DEFINE j == Before + i
  <2>2. j \in 1 .. N /\ j < n /\ n - WindowSize < j /\ Before < j
    BY <1>1, <1>3
  <2>3. drawn'[j]
    BY <1>1, <1>4, <2>1, <2>2
  <2>4. j \in Wins(drawn)'
    BY <1>1, <1>2, <2>2, <2>3
  <2> HIDE DEF j
  <2>5. ASSUME NEW k \in trips' PROVE k < j \/ k >= n
    <3>1. k \in 1 .. Before \/ k = n
      BY <1>4
    <3> QED
      BY <1>1, <1>3, <2>2, <3>1
  <2> QED
    BY <1>1, <1>5, <1>6, <2>2, <2>4, <2>5
<1>7. ASSUME TripDue(n)' PROVE is_win /\ Left = 1
  <2>1. PICK j \in Wins(drawn)' : /\ n - WindowSize < j /\ j < n
                                  /\ \A k \in trips' : k < j \/ k >= n
    BY <1>5, <1>7
  <2>2. j \in 1 .. N /\ drawn[j]
    BY <1>1, <1>2, <2>1
  <2>3. Before \in trips => Before < j
    <3>1. SUFFICES ASSUME Before \in trips PROVE Before < j
      OBVIOUS
    <3>2. Before < j \/ Before >= n
      BY <2>1, <3>1
    <3> QED
      BY <1>1, <1>3, <3>2
  <2>4. Before < j
    BY <1>1, <1>3, <1>4, <2>1, <2>2, <2>3
  <2>5. j - Before \in 1 .. Len(Kept) /\ Before + (j - Before) = j
    BY <1>1, <1>3, <2>2, <2>4
  <2>6. Kept[j - Before]
    BY <1>4, <2>2, <2>5
  <2>7. Left = 1
    BY <2>5, <2>6, KeptHasOneWin DEF GovernorInv
  <2> QED
    BY <1>1, <1>5, <1>7, <2>7
<1> QED
  BY <1>6, <1>7

(* Later tickets change nothing about the trips that were due before.      *)
LEMMA OldTripsStay ==
  ASSUME GovernorInv, NEW is_win \in BOOLEAN, Ticket(is_win),
         trips' \subseteq trips \union {Len(drawn) + 1}, trips \subseteq trips',
         NEW i \in 1 .. Len(drawn)
  PROVE  TripDue(i)' <=> TripDue(i)
<1> DEFINE N == Len(drawn)
<1>1. /\ N \in Nat /\ drawn' \in Seq(BOOLEAN) /\ Len(drawn') = N + 1
      /\ \A j \in 1 .. N : drawn'[j] = drawn[j]
  BY HistoryGrows
<1>2. Wins(drawn)' = {j \in 1 .. N + 1 : drawn'[j]} /\ Wins(drawn) = {j \in 1 .. N : drawn[j]}
  BY <1>1 DEF Wins, GovernorInv, WindowIsRecent
<1>3. WindowSize \in Nat /\ trips \subseteq 1 .. N
  BY KeptCounts, KeptIsRecent DEF GovernorInv
<1>4. drawn'[i] <=> drawn[i]
  BY <1>1
<1>5. ASSUME NEW j, j < i
      PROVE  j \in Wins(drawn)' <=> j \in Wins(drawn)
  BY <1>1, <1>2, <1>5
<1>6. ASSUME NEW j \in 1 .. N
      PROVE  (\A k \in trips' : k < j \/ k >= i) <=> (\A k \in trips : k < j \/ k >= i)
  BY <1>1, <1>3
<1>7. ASSUME NEW j, j < i, j \in Wins(drawn)
      PROVE  j \in 1 .. N
  BY <1>2, <1>7
<1>8. TripDue(i)' <=> /\ drawn'[i]
                      /\ \E j \in Wins(drawn)' : /\ i - WindowSize < j /\ j < i
                                                 /\ \A k \in trips' : k < j \/ k >= i
  BY DEF TripDue
<1>9. TripDue(i) <=> /\ drawn[i]
                     /\ \E j \in Wins(drawn) : /\ i - WindowSize < j /\ j < i
                                               /\ \A k \in trips : k < j \/ k >= i
  BY DEF TripDue
<1> QED
  BY <1>4, <1>5, <1>6, <1>7, <1>8, <1>9

LEMMA TripsStayDue ==
  ASSUME GovernorInv, NEW is_win \in BOOLEAN, Ticket(is_win)
  PROVE  TripsAreDue'
<1> PICK n : n = Len(drawn) + 1
  OBVIOUS
<1>1. Len(drawn) \in Nat /\ Len(drawn') = n
  BY HistoryGrows
<1>2. Left \in {0, 1} /\ trips \subseteq 1 .. Len(drawn)
  BY KeptCounts, KeptIsRecent DEF GovernorInv
<1>3. /\ IsFiniteSet(trips) /\ governor_triggers = Cardinality(trips)
      /\ \A i \in 1 .. Len(drawn) : i \in trips <=> TripDue(i)
  BY DEF GovernorInv, TripsAreDue
<1>4. n \notin trips
  BY <1>1, <1>2
<1>5. CASE is_win /\ Left = 1
  <2>1. trips' = trips \union {n} /\ governor_triggers' = governor_triggers + 1
    <3>1. Slide(is_win).wins >= 2
      <4>1. Bit(is_win) = 1
        BY <1>5 DEF Bit
      <4>2. Slide(is_win).wins = Left + Bit(is_win)
        BY SlideIsKept
      <4>3. Left = 1
        BY <1>5
      <4> QED
        BY <4>1, <4>2, <4>3
    <3> QED
      BY <1>1, <3>1 DEF Ticket, Trip
  <2>2. IsFiniteSet(trips') /\ governor_triggers' = Cardinality(trips')
    BY <1>3, <1>4, <2>1, FS_AddElement
  <2>3. TripDue(n)'
    BY <1>5, <2>1, TripIsSecondWin
  <2>4. ASSUME NEW i \in 1 .. Len(drawn) PROVE i \in trips' <=> TripDue(i)'
    <3>1. i \in trips' <=> i \in trips
      BY <1>1, <2>1
    <3> QED
      BY <1>3, <2>1, <3>1, OldTripsStay
  <2>5. \A i \in 1 .. n : i \in 1 .. Len(drawn) \/ i = n
    BY <1>1
  <2>6. \A i \in 1 .. n : i \in trips' <=> TripDue(i)'
    BY <2>1, <2>3, <2>4, <2>5
  <2> QED
    BY <1>1, <2>2, <2>6 DEF TripsAreDue
<1>6. CASE ~(is_win /\ Left = 1)
  <2>1. trips' = trips /\ governor_triggers' = governor_triggers
    BY <1>2, <1>6, SlideIsKept DEF Ticket, Bit
  <2>2. ~TripDue(n)'
    BY <1>6, <2>1, TripIsSecondWin
  <2>3. ASSUME NEW i \in 1 .. Len(drawn) PROVE i \in trips' <=> TripDue(i)'
    BY <1>3, <2>1, OldTripsStay
  <2>4. \A i \in 1 .. n : i \in 1 .. Len(drawn) \/ i = n
    BY <1>1
  <2>5. \A i \in 1 .. n : i \in trips' <=> TripDue(i)'
    BY <1>4, <2>1, <2>2, <2>3, <2>4
  <2> QED
    BY <1>1, <1>3, <2>1, <2>5 DEF TripsAreDue
<1> QED
  BY <1>5, <1>6

LEMMA WindowStaysRecent ==
  ASSUME GovernorInv, NEW is_win \in BOOLEAN, Ticket(is_win)
  PROVE  WindowIsRecent' /\ OneWinAtMost'
<1> DEFINE N == Len(drawn)
           L == Len(Kept)
<1>1. /\ N \in Nat /\ drawn' \in Seq(BOOLEAN) /\ Len(drawn') = N + 1 /\ drawn'[N + 1] = is_win
      /\ \A i \in 1 .. N : drawn'[i] = drawn[i]
  BY HistoryGrows
<1>2. /\ L \in Nat /\ WindowSize \in Nat \ {0} /\ Before \in Nat /\ Before + L = N
      /\ L < WindowSize /\ Left \in {0, 1}
  BY KeptCounts
<1>3. /\ Kept \in Seq(BOOLEAN) /\ trips \subseteq 1 .. Before
      /\ \A i \in 1 .. L : Kept[i] = drawn[Before + i]
      /\ L + 1 = WindowSize \/ Before = 0 \/ Before \in trips
  BY KeptIsRecent DEF GovernorInv
<1>4. Slide(is_win).wins = Left + Bit(is_win) /\ Slide(is_win).window = Append(Kept, is_win)
  BY SlideIsKept
<1>5. CASE Slide(is_win).wins >= 2
  <2>1. /\ sliding_window' = <<>> /\ window_wins' = 0 /\ trips' = trips \union {N + 1}
    BY <1>1, <1>5 DEF Ticket, Trip
  <2>2. Len(sliding_window') = 0 /\ WindowEnds' = N + 1
    BY <1>1, <2>1 DEF WindowEnds
  <2>3. trips' \subseteq 1 .. N + 1 /\ N + 1 \in trips'
    <3>1. 1 .. Before \subseteq 1 .. N + 1 /\ N + 1 \in 1 .. N + 1
      BY <1>1, <1>2
    <3> QED
      BY <1>3, <2>1, <3>1
  <2> QED
    BY <1>1, <1>2, <2>1, <2>2, <2>3 DEF WindowIsRecent, OneWinAtMost
<1>6. CASE ~(Slide(is_win).wins >= 2)
  <2>1. /\ sliding_window' = Append(Kept, is_win) /\ window_wins' = Left + Bit(is_win)
        /\ trips' = trips
    BY <1>4, <1>6 DEF Ticket
  <2>2. /\ sliding_window' \in Seq(BOOLEAN) /\ Len(sliding_window') = L + 1
        /\ \A i \in 1 .. L : sliding_window'[i] = Kept[i]
        /\ sliding_window'[L + 1] = is_win
    BY <1>2, <1>3, <2>1
  <2>3. WindowEnds' = Before
    BY <1>1, <1>2, <2>2 DEF WindowEnds
  <2>4. ASSUME NEW i \in 1 .. L + 1
        PROVE  sliding_window'[i] = drawn'[Before + i]
    <3>1. CASE i = L + 1
      BY <1>1, <1>2, <2>2, <3>1
    <3>2. CASE i # L + 1
      <4>1. i \in 1 .. L /\ Before + i \in 1 .. N
        BY <1>1, <1>2, <3>2
      <4> QED
        BY <1>1, <1>3, <2>2, <4>1
    <3> QED
      BY <3>1, <3>2
  <2>5. WindowIsRecent'
    <3>1. Len(sliding_window') <= WindowSize /\ Len(sliding_window') <= Len(drawn')
      BY <1>1, <1>2, <2>2
    <3>2. Full(sliding_window)' \/ WindowEnds' = 0 \/ WindowEnds' \in trips'
      BY <1>3, <2>1, <2>2, <2>3 DEF Full
    <3> QED
      BY <1>1, <1>3, <2>1, <2>2, <2>3, <2>4, <3>1, <3>2 DEF WindowIsRecent
  <2>6. \A i \in 1 .. L + 1 : i \in 1 .. L \/ i = L + 1
    BY <1>2
  <2>7. L + 1 \in 1 .. L + 1 /\ \A i \in 1 .. L : i \in 1 .. L + 1 /\ i # L + 1
    BY <1>2
  <2>8. OneWinAtMost'
    <3>1. CASE is_win
      <4>1. Bit(is_win) = 1
        BY <3>1 DEF Bit
      <4>2. Left = 0 /\ window_wins' = 1
        BY <1>2, <1>4, <1>6, <2>1, <4>1
      <4>3. \A i \in 1 .. L : ~sliding_window'[i]
        BY <2>2, <4>2, KeptHasOneWin DEF GovernorInv
      <4>4. sliding_window'[L + 1] /\ \A j \in 1 .. L + 1 : sliding_window'[j] => j = L + 1
        BY <2>2, <2>6, <3>1, <4>3
      <4> QED
        BY <2>2, <2>7, <4>2, <4>4 DEF OneWinAtMost
    <3>2. CASE ~is_win
      <4>1. Bit(is_win) = 0
        BY <3>2 DEF Bit
      <4>2. window_wins' = Left
        BY <1>2, <2>1, <4>1
      <4>3. CASE Left = 0 /\ \A i \in 1 .. L : ~Kept[i]
        BY <2>2, <2>6, <3>2, <4>2, <4>3 DEF OneWinAtMost
      <4>4. CASE Left = 1 /\ \E i \in 1 .. L : Kept[i] /\ \A j \in 1 .. L : Kept[j] => j = i
        <5>1. PICK i \in 1 .. L : Kept[i] /\ \A j \in 1 .. L : Kept[j] => j = i
          BY <4>4
        <5>2. i \in 1 .. L + 1 /\ sliding_window'[i]
          BY <2>2, <2>7, <5>1
        <5>3. \A j \in 1 .. L + 1 : sliding_window'[j] => j = i
          BY <2>2, <2>6, <3>2, <5>1
        <5> QED
          BY <2>2, <4>2, <4>4, <5>2, <5>3 DEF OneWinAtMost
      <4> QED
        BY <4>3, <4>4, KeptHasOneWin DEF GovernorInv
    <3> QED
      BY <3>1, <3>2
  <2> QED
    BY <2>5, <2>8
<1> QED
  BY <1>5, <1>6

(* A run of losses of the longer history is one of the shorter, or ends    *)
(* with the new ticket and is part of the present dry spell.               *)
LEMMA NewLosses ==
  ASSUME GovernorInv, NEW is_win \in BOOLEAN, Ticket(is_win)
  PROVE  Losses' = Losses \union (0 .. current_dry_spell')
<1> DEFINE N == Len(drawn)
           C == current_dry_spell
<1>1. /\ N \in Nat /\ Len(drawn') = N + 1 /\ drawn'[N + 1] = is_win
      /\ \A i \in 1 .. N : drawn'[i] = drawn[i]
  BY HistoryGrows
<1>2. /\ C \in 0 .. N /\ \A i \in N - C + 1 .. N : ~drawn[i]
      /\ C < N => drawn[N - C]
  BY DEF GovernorInv, SpellsAreRuns
<1>3. C' = IF is_win THEN 0 ELSE C + 1
  BY DEF Ticket, DrySpell
<1>4. Losses = {n \in 0 .. N : \E i \in 1 .. N - n + 1 : \A k \in i .. i + n - 1 : ~drawn[k]}
  BY DEF Losses
<1>5. Losses' = {n \in 0 .. N + 1 : \E i \in 1 .. N + 1 - n + 1 :
                                     \A k \in i .. i + n - 1 : ~drawn'[k]}
  BY <1>1 DEF Losses
<1>6. ASSUME NEW n \in Losses PROVE n \in Losses'
  <2>1. PICK i \in 1 .. N - n + 1 : \A k \in i .. i + n - 1 : ~drawn[k]
    BY <1>4
  <2>2. n \in 0 .. N
    BY <1>4
  <2>3. i \in 1 .. N + 1 - n + 1 /\ n \in 0 .. N + 1
    BY <1>1, <2>2
  <2>4. ASSUME NEW k \in i .. i + n - 1 PROVE ~drawn'[k]
    <3>1. k \in 1 .. N
      BY <1>1, <2>2
    <3> QED
      BY <1>1, <2>1, <3>1
  <2> QED
    BY <1>5, <2>3, <2>4
<1>7. ASSUME NEW n \in 0 .. C' PROVE n \in Losses'
  <2>1. n \in Nat /\ n <= N + 1 /\ (n = 0 \/ (~is_win /\ n <= C + 1))
    BY <1>1, <1>2, <1>3
  <2> DEFINE i == N + 1 - n + 1
  <2>2. i \in 1 .. N + 1 - n + 1 /\ n \in 0 .. N + 1
    BY <1>1, <2>1
  <2>3. ASSUME NEW k \in i .. i + n - 1 PROVE ~drawn'[k]
    <3>1. n # 0 /\ k \in N + 1 - n + 1 .. N + 1
      BY <1>1, <2>1
    <3>2. CASE k = N + 1
      BY <1>1, <2>1, <3>1, <3>2
    <3>3. CASE k # N + 1
      <4>1. k \in N - C + 1 .. N /\ k \in 1 .. N
        BY <1>1, <1>2, <2>1, <3>1, <3>3
      <4> QED
        BY <1>1, <1>2, <4>1
    <3> QED
      BY <3>2, <3>3
  <2> QED
    BY <1>5, <2>2, <2>3
<1>8. ASSUME NEW n \in Losses', n \notin Losses PROVE n \in 0 .. C'
  <2>1. PICK i \in 1 .. N + 1 - n + 1 : \A k \in i .. i + n - 1 : ~drawn'[k]
    BY <1>5
  <2>2. n \in 0 .. N + 1 /\ i \in Nat /\ i >= 1 /\ i + n <= N + 2
    BY <1>1, <1>5
  <2>3. CASE n = 0
    BY <1>1, <1>2, <1>3, <2>3
  <2>4. CASE n # 0 /\ i + n <= N + 1
    <3>1. n \in 0 .. N /\ i \in 1 .. N - n + 1
      BY <1>1, <2>2, <2>4
    <3>2. ASSUME NEW k \in i .. i + n - 1 PROVE ~drawn[k]
      <4>1. k \in 1 .. N
        BY <1>1, <2>2, <2>4
      <4> QED
        BY <1>1, <2>1, <4>1
    <3> QED
      BY <1>4, <1>8, <3>1, <3>2
  <2>5. CASE n # 0 /\ i + n = N + 2
    <3>1. N + 1 \in i .. i + n - 1
      BY <1>1, <2>2, <2>5
    <3>2. ~is_win
      BY <1>1, <2>1, <3>1
    <3>3. n <= C + 1
      <4>1. SUFFICES ASSUME n > C + 1 PROVE FALSE
        BY <1>2, <2>2
      <4>2. N - C \in i .. i + n - 1 /\ N - C \in 1 .. N /\ C < N
        BY <1>1, <1>2, <2>2, <2>5, <4>1
      <4> QED
        BY <1>1, <1>2, <2>1, <4>2
    <3> QED
      BY <1>1, <1>2, <1>3, <2>2, <3>2, <3>3
  <2> QED
    BY <1>1, <2>2, <2>3, <2>4, <2>5
<1> QED
  BY <1>6, <1>7, <1>8

LEMMA SpellsStayRuns ==
  ASSUME GovernorInv, NEW is_win \in BOOLEAN, Ticket(is_win)
  PROVE  SpellsAreRuns'
<1> DEFINE N == Len(drawn)
           C == current_dry_spell
           M == max_dry_spell
<1>1. /\ N \in Nat /\ Len(drawn') = N + 1 /\ drawn'[N + 1] = is_win
      /\ \A i \in 1 .. N : drawn'[i] = drawn[i]
  BY HistoryGrows
<1>2. /\ C \in 0 .. N /\ \A i \in N - C + 1 .. N : ~drawn[i]
      /\ C < N => drawn[N - C]
      /\ M \in Losses /\ \A n \in Losses : n <= M
  BY DEF GovernorInv, SpellsAreRuns
<1>3. C' = (IF is_win THEN 0 ELSE C + 1) /\ M' = IF C' > M THEN C' ELSE M
  BY DEF Ticket, DrySpell
<1>4. Losses' = Losses \union (0 .. C') /\ Losses \subseteq Nat
  <2>1. Losses \subseteq 0 .. N
    BY DEF Losses
  <2> QED
    BY NewLosses, <1>1, <2>1
<1>5. C' \in 0 .. N + 1 /\ C' \in Nat /\ M \in Nat
  BY <1>1, <1>2, <1>3, <1>4
<1>6. ASSUME NEW i \in N + 1 - C' + 1 .. N + 1 PROVE ~drawn'[i]
  <2>1. ~is_win /\ i \in N - C + 1 .. N + 1
    BY <1>1, <1>2, <1>3
  <2>2. CASE i = N + 1
    BY <1>1, <2>1, <2>2
  <2>3. CASE i # N + 1
    <3>1. i \in N - C + 1 .. N /\ i \in 1 .. N
      BY <1>1, <1>2, <2>1, <2>3
    <3> QED
      BY <1>1, <1>2, <3>1
  <2> QED
    BY <2>2, <2>3
<1>7. ASSUME C' < N + 1 PROVE drawn'[N + 1 - C']
  <2>1. CASE is_win
    <3>1. N + 1 - C' = N + 1
      BY <1>1, <1>3, <2>1
    <3> QED
      BY <1>1, <2>1, <3>1
  <2>2. CASE ~is_win
    <3>1. N + 1 - C' = N - C /\ C < N /\ N - C \in 1 .. N
      BY <1>1, <1>2, <1>3, <1>7, <2>2
    <3> QED
      BY <1>1, <1>2, <3>1
  <2> QED
    BY <2>1, <2>2
<1>8. M' \in Losses'
  BY <1>2, <1>3, <1>4, <1>5
<1>9. \A n \in Losses' : n <= M'
  BY <1>2, <1>3, <1>4, <1>5
<1> QED
  BY <1>1, <1>5, <1>6, <1>7, <1>8, <1>9 DEF SpellsAreRuns

LEMMA GovernorInvHolds == Spec => []GovernorInv
<1>1. GovernorInv /\ [Next]_vars => GovernorInv'
  <2> SUFFICES ASSUME GovernorInv, [Next]_vars PROVE GovernorInv'
    OBVIOUS
  <2>1. CASE Next
    <3>1. PICK is_win \in BOOLEAN : Ticket(is_win)
      BY <2>1 DEF Next
    <3> QED
      BY <3>1, WindowStaysRecent, TripsStayDue, SpellsStayRuns DEF GovernorInv
  <2>2. CASE UNCHANGED vars
    <3>1. Losses' = Losses /\ WindowEnds' = WindowEnds
      BY <2>2 DEF vars, Losses, WindowEnds
    <3>2. \A i \in 1 .. Len(drawn) : TripDue(i)' <=> TripDue(i)
      BY <2>2 DEF vars, TripDue, Wins
    <3>3. WindowIsRecent' /\ OneWinAtMost'
      BY <2>2, <3>1 DEF vars, GovernorInv, WindowIsRecent, OneWinAtMost, Full
    <3>4. TripsAreDue'
      BY <2>2, <3>2 DEF vars, GovernorInv, TripsAreDue
    <3>5. SpellsAreRuns'
      BY <2>2, <3>1 DEF vars, GovernorInv, SpellsAreRuns
    <3> QED
      BY <3>3, <3>4, <3>5 DEF GovernorInv
  <2> QED
    BY <2>1, <2>2
<1> QED
  BY <1>1, GovernorStarts, PTL DEF Spec

(* The audit's figures are right whenever the governor's invariant holds.  *)
LEMMA FiguresFollow == GovernorInv => AuditFiguresAreRight
<1> SUFFICES ASSUME GovernorInv PROVE AuditFiguresAreRight
  OBVIOUS
<1> DEFINE L == Len(sliding_window)
<1>1. sliding_window \in Seq(BOOLEAN) /\ DOMAIN sliding_window = 1 .. L /\ DOMAIN drawn = 1 .. Len(drawn)
  BY DEF GovernorInv, WindowIsRecent
<1>2. Wins(sliding_window) = {i \in 1 .. L : sliding_window[i]}
  BY <1>1 DEF Wins
<1>3. window_wins = Cardinality(Wins(sliding_window))
  <2>1. CASE window_wins = 0 /\ \A i \in 1 .. L : ~sliding_window[i]
    <3>1. Wins(sliding_window) = {}
      BY <1>2, <2>1
    <3> QED
      BY <2>1, <3>1, FS_EmptySet
  <2>2. CASE /\ window_wins = 1
             /\ \E i \in 1 .. L : sliding_window[i] /\ \A j \in 1 .. L : sliding_window[j] => j = i
    <3>1. PICK i \in 1 .. L : sliding_window[i] /\ \A j \in 1 .. L : sliding_window[j] => j = i
      BY <2>2
    <3>2. Wins(sliding_window) = {i}
      BY <1>2, <3>1
    <3> QED
      BY <2>2, <3>2, FS_Singleton
  <2> QED
    BY <2>1, <2>2 DEF GovernorInv, OneWinAtMost
<1>4. max_dry_spell = CHOOSE n \in Losses : \A m \in Losses : m <= n
  <2>1. max_dry_spell \in Losses /\ \A m \in Losses : m <= max_dry_spell
    BY DEF GovernorInv, SpellsAreRuns
  <2>2. Losses \subseteq Nat
    BY DEF Losses
  <2>3. \A n \in Losses : (\A m \in Losses : m <= n) => n = max_dry_spell
    BY <2>1, <2>2
  <2> HIDE DEF Losses
  <2> QED
    BY <2>1, <2>3
<1> QED
  BY <1>1, <1>3, <1>4 DEF GovernorInv, WindowIsRecent, TripsAreDue, AuditFiguresAreRight

-----------------------------------------------------------------------------
(* The audit: no ticket meets a spent seed, since a win rotates it.  The   *)
(* sandbox: the first trial of a winning ticket spends the seed, and the   *)
(* last decision is about the ticket, or about the seed spent before it.   *)
Reported ==
  IF trials = 0 THEN Reject("InvalidNonce")
  ELSE CASE Verdict = "ValidLosing" -> <<"ServeLosing">>
         [] Verdict = "ValidWinning" -> IF trials = 1 THEN <<"ClaimAndRotateWinning">>
                                        ELSE Reject("InvalidCommitment")
         [] OTHER -> Reject(Verdict)

SimulatorInv ==
  /\ seed \in [epoch : Nat, invalidated : BOOLEAN]
  /\ options.iterations \in Nat /\ trials \in Nat
  /\ mode \in {"started", "auditing", "warming", "overflowed", "benching", "reported"}
  /\ mode \in {"benching", "reported"} => trials <= options.iterations
  /\ mode \notin {"benching", "reported"} => trials = 0
  /\ mode = "reported" => trials = options.iterations
  /\ seed.invalidated <=> trials > 0 /\ Verdict = "ValidWinning"
  /\ last_decision = Reported
  /\ "tamper_nonce" \in options.flags => options.nonce # options.last_nonce + 1

LEMMA SimulatorStarts == SimInit => SimulatorInv
BY DEF SimInit, SimulatorInv, Reported, Reject

(* Nobody but Trial moves what the verdict and the report depend on, once  *)
(* the options are chosen.                                                 *)
LEMMA ReportStays ==
  ASSUME UNCHANGED <<options, trials>>
  PROVE  Verdict' = Verdict /\ Reported' = Reported
BY DEF Verdict, SignatureHolds, Reported, Reject

LEMMA AuditRoundKeepsSimulator ==
  ASSUME SimulatorInv, AuditRound
  PROVE  SimulatorInv'
<1>1. mode = "auditing" /\ trials = 0 /\ seed.invalidated = FALSE
  BY DEF AuditRound, SimulatorInv
<1>2. PICK wins \in BOOLEAN :
        LET decision == Decision(IF wins THEN "ValidWinning" ELSE "ValidLosing")
        IN  IF decision[1] = "Reject"
            THEN mode' = "panicked" /\ UNCHANGED <<vars, seed>>
            ELSE /\ Ticket(wins)
                 /\ IF wins THEN Rotation ELSE UNCHANGED seed
                 /\ UNCHANGED mode
  BY DEF AuditRound
<1>3. Decision(IF wins THEN "ValidWinning" ELSE "ValidLosing")[1] # "Reject"
  BY <1>1 DEF Decision
<1>4. mode' = mode /\ (seed' = seed \/ Rotation)
  BY <1>2, <1>3
<1>5. seed' \in [epoch : Nat, invalidated : BOOLEAN] /\ seed'.invalidated = FALSE
  <2>1. seed \in [epoch : Nat, invalidated : BOOLEAN]
    BY DEF SimulatorInv
  <2>2. CASE seed' = seed
    BY <1>1, <2>1, <2>2
  <2>3. CASE Rotation
    <3>1. seed' = [epoch |-> seed.epoch + 1, invalidated |-> FALSE] /\ seed.epoch + 1 \in Nat
      BY <2>1, <2>3 DEF Rotation
    <3> QED
      BY <3>1
  <2> QED
    BY <1>4, <2>2, <2>3
<1>6. UNCHANGED <<options, trials, last_decision>>
  BY DEF AuditRound
<1> QED
  BY <1>1, <1>4, <1>5, <1>6, ReportStays DEF SimulatorInv

(* A tampered nonce, wrapped or not, does not follow the watermark.        *)
LEMMA WrapsElsewhere ==
  ASSUME NEW last \in 0 .. MaxUint64
  PROVE  (last + NonceTamper) % (MaxUint64 + 1) # last + 1
<1>1. MaxUint64 \in Nat /\ NonceTamper \in 2 .. MaxUint64
  BY SimulatorAssumption
<1> DEFINE sum == last + NonceTamper
           size == MaxUint64 + 1
<1>2. sum \in Nat /\ size \in Nat \ {0} /\ sum < 2 * size
  BY <1>1
<1>3. \A a \in Nat, b \in Nat \ {0} : a < 2 * b => a % b = IF a < b THEN a ELSE a - b
  OBVIOUS
<1>4. sum % size = IF sum < size THEN sum ELSE sum - size
  BY <1>2, <1>3
<1> QED
  BY <1>1, <1>4

LEMMA ChooseSandboxKeepsSimulator ==
  ASSUME SimulatorInv, ChooseSandbox
  PROVE  SimulatorInv'
<1>1. mode = "started" /\ trials = 0 /\ UNCHANGED <<seed, trials, last_decision>>
  BY DEF ChooseSandbox, SimulatorInv
<1>2. PICK opts \in Options : options' = Tampered(opts)
                              /\ mode' \in IF Overflows(opts) THEN {"warming", "overflowed"} ELSE {"warming"}
  BY DEF ChooseSandbox
<1>3. options'.iterations = opts.iterations /\ opts.iterations \in Nat
  BY <1>2, SimulatorAssumption DEF Tampered, Options
<1>4. mode' \in {"warming", "overflowed"}
  BY <1>2
<1>5. Reported' = Reported
  BY <1>1 DEF Reported
<1>6. "tamper_nonce" \in options'.flags => options'.nonce # options'.last_nonce + 1
  <2> SUFFICES ASSUME "tamper_nonce" \in options'.flags
               PROVE  options'.nonce # options'.last_nonce + 1
    OBVIOUS
  <2>1. opts.flags = options'.flags /\ opts.last_nonce = options'.last_nonce
        /\ opts.last_nonce \in 0 .. MaxUint64
    BY <1>2 DEF Tampered, Options
  <2>2. options'.nonce = (opts.last_nonce + NonceTamper) % (MaxUint64 + 1)
    BY <1>2, <2>1 DEF Tampered, Options
  <2> QED
    BY <2>1, <2>2, WrapsElsewhere
<1> QED
  BY <1>1, <1>3, <1>4, <1>5, <1>6 DEF SimulatorInv

LEMMA TrialKeepsSimulator ==
  ASSUME SimulatorInv, Trial
  PROVE  SimulatorInv'
<1>1. /\ mode = "benching" /\ mode' = mode /\ options' = options
      /\ trials' = trials + 1 /\ trials \in Nat /\ options.iterations \in Nat
      /\ trials < options.iterations
  BY DEF Trial, SimulatorInv
<1>2. last_decision' = Decision(Verdict) /\ seed' = [seed EXCEPT !.invalidated = Spends(last_decision')]
  BY DEF Trial
<1>3. Verdict' = Verdict
  BY <1>1 DEF Verdict, SignatureHolds
<1>4. Verdict \in {"InvalidNonce", "InvalidCommitment", "Expired", "InvalidSignature",
                   "ValidWinning", "ValidLosing"}
  BY DEF Verdict
<1>5. seed.invalidated <=> trials > 0 /\ Verdict = "ValidWinning"
  BY DEF SimulatorInv
<1>6. Spends(last_decision') <=> Verdict = "ValidWinning"
  BY <1>2, <1>4, <1>5 DEF Spends, Decision, Reject
<1>7. seed' \in [epoch : Nat, invalidated : BOOLEAN] /\ (seed'.invalidated <=> Verdict = "ValidWinning")
  BY <1>2, <1>6 DEF SimulatorInv, Spends
<1>8. last_decision' = Reported'
  <2>1. Reported' = CASE Verdict = "ValidLosing" -> <<"ServeLosing">>
                      [] Verdict = "ValidWinning" -> IF trials' = 1 THEN <<"ClaimAndRotateWinning">>
                                                     ELSE Reject("InvalidCommitment")
                      [] OTHER -> Reject(Verdict)
    BY <1>1, <1>3 DEF Reported, Reject
  <2>2. CASE Verdict = "ValidWinning"
    BY <1>1, <1>2, <1>5, <2>1, <2>2 DEF Decision
  <2>3. CASE Verdict = "ValidLosing"
    BY <1>2, <1>5, <2>1, <2>3 DEF Decision
  <2>4. CASE Verdict # "ValidWinning" /\ Verdict # "ValidLosing"
    BY <1>2, <1>5, <2>1, <2>4 DEF Decision
  <2> QED
    BY <2>2, <2>3, <2>4
<1> QED
  BY <1>1, <1>3, <1>7, <1>8 DEF SimulatorInv

LEMMA SimulatorInvHolds == SimSpec => []SimulatorInv
<1>1. SimulatorInv /\ [SimNext]_allVars => SimulatorInv'
  <2> SUFFICES ASSUME SimulatorInv, [SimNext]_allVars PROVE SimulatorInv'
    OBVIOUS
  <2>1. CASE AuditRound
    BY <2>1, AuditRoundKeepsSimulator
  <2>2. CASE ChooseSandbox
    BY <2>2, ChooseSandboxKeepsSimulator
  <2>3. CASE Trial
    BY <2>3, TrialKeepsSimulator
  <2>4. CASE ChooseAudit \/ WarmUp \/ Report \/ UNCHANGED allVars
    <3>1. UNCHANGED <<seed, options, trials, last_decision>>
      BY <2>4 DEF ChooseAudit, WarmUp, Report, allVars, simVars
    <3>2. Verdict' = Verdict /\ Reported' = Reported
      BY <3>1, ReportStays
    <3>3. CASE ChooseAudit
      BY <3>1, <3>2, <3>3 DEF ChooseAudit, SimulatorInv
    <3>4. CASE WarmUp
      BY <3>1, <3>2, <3>4 DEF WarmUp, SimulatorInv
    <3>5. CASE Report
      BY <3>1, <3>2, <3>5 DEF Report, SimulatorInv
    <3>6. CASE UNCHANGED allVars
      BY <3>1, <3>2, <3>6 DEF allVars, simVars, SimulatorInv
    <3> QED
      BY <2>4, <3>3, <3>4, <3>5, <3>6
  <2> QED
    BY <2>1, <2>2, <2>3, <2>4 DEF SimNext
<1> QED
  BY <1>1, SimulatorStarts, PTL DEF SimSpec

-----------------------------------------------------------------------------
(* The simulator's audit is a run of the governor: each round hands it one *)
(* ticket, and nothing else in the process touches its figures.            *)
THEOREM AuditIsGovernor == SimSpec => Spec
<1>1. SimInit => Init
  BY DEF SimInit
<1>2. [SimNext]_allVars => [Next]_vars
  <2> SUFFICES ASSUME [SimNext]_allVars PROVE [Next]_vars
    OBVIOUS
  <2>1. CASE AuditRound
    <3>1. (\E wins \in BOOLEAN : Ticket(wins)) \/ UNCHANGED vars
      BY <2>1 DEF AuditRound
    <3> QED
      BY <3>1 DEF Next
  <2>2. CASE ChooseAudit \/ ChooseSandbox \/ WarmUp \/ Trial \/ Report \/ UNCHANGED allVars
    BY <2>2 DEF ChooseAudit, ChooseSandbox, WarmUp, Trial, Report, allVars
  <2> QED
    BY <2>1, <2>2 DEF SimNext
<1> QED
  BY <1>1, <1>2, PTL DEF SimSpec, Spec

(* In every audit, of any length and with any window, the counter of wins, *)
(* the trips and the longest dry spell are those of the tickets drawn.     *)
THEOREM FiguresAreThoseDrawn == SimSpec => []AuditFiguresAreRight
BY AuditIsGovernor, GovernorInvHolds, FiguresFollow, PTL

(* The panic on an unexpected rejection is never reached; and whatever the *)
(* options, the width of the nonce and the number of trials, the sandbox   *)
(* reports the verdict on its ticket or the seed it has spent.             *)
THEOREM TheReportIsTheVerdict == SimSpec => []ReportIsVerdict
<1>1. SimulatorInv => ReportIsVerdict
  <2> SUFFICES ASSUME SimulatorInv, mode = "reported", Tampers PROVE last_decision[1] = "Reject"
    BY DEF SimulatorInv, ReportIsVerdict, Reported
  <2>1. Verdict \in {"InvalidNonce", "InvalidCommitment", "Expired", "InvalidSignature"}
    BY DEF SimulatorInv, Tampers, Verdict, SignatureHolds
  <2>2. last_decision = Reject("InvalidNonce") \/ last_decision = Reject(Verdict)
    BY <2>1 DEF SimulatorInv, Reported
  <2> QED
    BY <2>2 DEF Reject
<1> QED
  BY <1>1, SimulatorInvHolds, PTL

-----------------------------------------------------------------------------
(* The sweeps.  What grows cell by cell is a buffer within its bound, and  *)
(* what it is cut into are chunks as the worker receives them.             *)
ShortBuffers == {b \in Buffers : Len(b) <= MaxLen.answer}

AlgInv ==
  /\ num \in Odds /\ denom \in Odds /\ hash \in Hashes
  /\ bytes \in Buffers
  /\ topic \in DOMAIN Cells => Len(bytes) <= MaxLen[topic]
  /\ chunks \in Seq([ok : BOOLEAN, bytes : ShortBuffers])

LEMMA CellsAreNumbers == \A t \in DOMAIN Cells : Cells[t] \subseteq Nat
<1>1. DOMAIN Cells = {"prompt", "request", "answer", "response"}
  BY DEF Cells
<1>2. Cells["prompt"] \subseteq Nat /\ Cells["request"] \subseteq Nat
  BY DEF Cells
<1>3. Cells["answer"] \subseteq Nat
  BY WireAssumption DEF Cells
<1>4. Cells["response"] \subseteq Nat
  BY WireAssumption DEF Cells, ComputeResp
<1> QED
  BY <1>1, <1>2, <1>3, <1>4

LEMMA AlgInvHolds == AlgSpec => []AlgInv
<1>1. AlgInit => AlgInv
  <2> SUFFICES ASSUME AlgInit PROVE AlgInv
    OBVIOUS
  <2>1. num \in Odds /\ denom \in Odds /\ hash \in Hashes
    BY WordSizes DEF AlgInit, OddsInit, Odds, Hashes
  <2>2. bytes \in Buffers /\ Len(bytes) = 0
    BY EmptyBuffer DEF AlgInit
  <2>3. \A t \in DOMAIN Cells : MaxLen[t] \in Nat
    BY DEF Cells, MaxLen
  <2>4. chunks \in Seq([ok : BOOLEAN, bytes : ShortBuffers])
    BY DEF AlgInit
  <2> QED
    BY <2>1, <2>2, <2>3, <2>4 DEF AlgInv
<1>2. AlgInv /\ [AlgNext]_algVars => AlgInv'
  <2> SUFFICES ASSUME AlgInv, [AlgNext]_algVars PROVE AlgInv'
    OBVIOUS
  <2>1. CASE SweepOdds
    <3>1. hash' \in Hashes
      BY <2>1, WordSizes DEF SweepOdds, Draw, AlgInv, Hashes
    <3> QED
      BY <2>1, <3>1 DEF SweepOdds, Draw, AlgInv
  <2>2. CASE Grow
    <3>1. PICK cell \in Cells[topic] : bytes' = Append(bytes, cell)
      BY <2>2 DEF Grow
    <3>2. cell \in Nat
      BY <2>2, <3>1, CellsAreNumbers DEF Grow
    <3>3. bytes' \in Buffers /\ Len(bytes') = Len(bytes) + 1 /\ Len(bytes) \in Nat
      BY <3>1, <3>2 DEF AlgInv, Buffers
    <3>4. MaxLen[topic] \in Nat
      BY <2>2 DEF Grow, Cells, MaxLen
    <3>5. Len(bytes) < MaxLen[topic]
      BY <2>2 DEF Grow
    <3>6. Len(bytes') <= MaxLen[topic]
      BY <3>3, <3>4, <3>5
    <3> QED
      BY <2>2, <3>3, <3>6 DEF Grow, AlgInv, oddsVars
  <2>3. CASE Chunk
    <3>1. PICK ok \in BOOLEAN : chunks' = Append(chunks, [ok |-> ok, bytes |-> bytes])
      BY <2>3 DEF Chunk
    <3>2. bytes \in ShortBuffers
      BY <2>3 DEF Chunk, AlgInv, ShortBuffers, Cells
    <3>3. chunks' \in Seq([ok : BOOLEAN, bytes : ShortBuffers])
      BY <3>1, <3>2 DEF AlgInv
    <3>4. bytes' \in Buffers /\ Len(bytes') = 0
      BY <2>3, EmptyBuffer DEF Chunk
    <3>5. \A t \in DOMAIN Cells : MaxLen[t] \in Nat
      BY DEF Cells, MaxLen
    <3>6. topic' = topic /\ UNCHANGED <<num, denom, hash>>
      BY <2>3 DEF Chunk, oddsVars
    <3> QED
      BY <3>3, <3>4, <3>5, <3>6 DEF AlgInv
  <2>4. CASE Simulate \/ UNCHANGED algVars
    BY <2>4 DEF Simulate, algVars, oddsVars, AlgInv
  <2> QED
    BY <2>1, <2>2, <2>3, <2>4 DEF AlgNext
<1> QED
  BY <1>1, <1>2, PTL DEF AlgSpec

(* What is proved of the simulate binary alone holds among the sweeps.     *)
LEMMA SweepsSimulate == AlgSpec => SimSpec
<1>1. AlgInit => SimInit
  BY DEF AlgInit
<1>2. [AlgNext]_algVars => [SimNext]_allVars
  BY DEF AlgNext, SweepOdds, Simulate, Grow, Chunk, algVars
<1> QED
  BY <1>1, <1>2, PTL DEF AlgSpec, SimSpec

(* For words of every width the draws of gatekeeper and contract agree     *)
(* below certainty, no payout is missed and the odds are as advertised.    *)
THEOREM LotteryStaysFair == AlgSpec => []LotteryIsFair
<1>1. AlgInv => LotteryIsFair
  BY BelowCertaintyAgree, EveryPayoutIsRecognised, OddsAreAdvertised
     DEF AlgInv, LotteryIsFair, BelowCertaintyDrawsAgree, NoPayoutIsMissed, OddsAsAdvertised
<1> QED
  BY <1>1, AlgInvHolds, PTL

(* encode_ticket_frame, read_frame and decode_ticket_frame are inverse,    *)
(* whatever the width of a length, the limit of a frame and the magic.     *)
THEOREM TicketCodecsStayInverse == AlgSpec => []TicketCodecsAreInverse
<1>1. AlgInv => TicketCodecsAreInverse
  <2> SUFFICES ASSUME AlgInv PROVE TicketCodecsAreInverse
    OBVIOUS
  <2> DEFINE Signatures == {<<>>, <<0>>, <<1, 0>>}
             Followings == {<<>>, <<0>>, <<SPMP_MAGIC, 3, 1>>}
  <2>1. ASSUME NEW face \in 0 .. MaxUint128, NEW signature \in Signatures, NEW following \in Followings
        PROVE  TicketArrives(<<7, face>>, signature, bytes, following)
    <3> DEFINE ticket == <<7, face>>
    <3>1. ticket[2] = face
      OBVIOUS
    <3>2. face \in Nat /\ face <= MaxUint128 /\ SPMP_MAGIC \in Nat
      BY WireAssumption
    <3>3. ticket \in Buffers /\ Len(ticket) = TICKET_ABI_LEN
      BY <3>2, ShortTuples DEF TICKET_ABI_LEN
    <3>4. signature \in Buffers
      <4>1. <<0>> \in Buffers /\ <<1, 0>> \in Buffers
        BY DEF Buffers
      <4> QED
        BY <4>1, EmptyBuffer
    <3>5. following \in Buffers
      <4>1. <<SPMP_MAGIC, 3, 1>> \in Buffers /\ <<0>> \in Buffers
        BY <3>2 DEF Buffers
      <4> QED
        BY <4>1, EmptyBuffer
    <3>6. bytes \in Buffers
      BY DEF AlgInv
    <3> HIDE DEF ticket
    <3>7. TicketArrives(ticket, signature, bytes, following)
      BY <3>1, <3>2, <3>3, <3>4, <3>5, <3>6, TicketsArrive
    <3> QED
      BY <3>7 DEF ticket
  <2>2. ASSUME topic = "request" PROVE AcceptedIsEncoded(<<SPMP_MAGIC, 3>> \o bytes)
    <3> DEFINE front == <<SPMP_MAGIC, 3>>
               buf == front \o bytes
    <3>1. front \in Buffers /\ Len(front) = 2
      BY WireAssumption, ShortTuples
    <3>2. bytes \in Buffers /\ Len(bytes) <= 8
      BY <2>2 DEF AlgInv, Cells, MaxLen
    <3> HIDE DEF front
    <3>3. buf \in Buffers /\ Len(buf) = Len(front) + Len(bytes) /\ Len(bytes) \in Nat
      BY <3>1, <3>2, Joined
    <3>4. U32 \in Nat /\ 10 <= U32
      BY WireAssumption, LengthsFit DEF MaxLen
    <3>5. Len(buf) <= U32
      BY <3>1, <3>2, <3>3, <3>4
    <3> HIDE DEF buf
    <3>6. AcceptedIsEncoded(buf)
      BY <3>3, <3>5, AcceptedFramesAreEncodings
    <3> QED
      BY <3>6 DEF front, buf
  <2> QED
    BY <2>1, <2>2 DEF TicketCodecsAreInverse
<1> QED
  BY <1>1, AlgInvHolds, PTL

(* decode_response_frame and the decoder send_ticket_and_prompt inlines    *)
(* never disagree on what has arrived, whichever the magic.                *)
THEOREM ResponseDecodersStayOne == AlgSpec => []ResponseDecodersAgree
<1>1. AlgInv => ResponseDecodersAgree
  BY DecodersAreOne DEF AlgInv, ResponseDecodersAgree
<1> QED
  BY <1>1, AlgInvHolds, PTL

(* generate_token_stream damages only the characters its chunks cut,       *)
(* whichever bytes begin and continue one.                                 *)
THEOREM AnswersStayWhole == AlgSpec => []AnswersArriveWhole
<1>1. AlgInv => AnswersArriveWhole
  <2> SUFFICES ASSUME AlgInv PROVE TokensArrive(chunks)
    BY DEF AnswersArriveWhole
  <2>1. U32 \in Nat /\ 10 <= U32 /\ MaxLen.answer = 2
    BY WireAssumption, LengthsFit DEF MaxLen
  <2>2. chunks \in Seq([ok : BOOLEAN, bytes : ShortBuffers])
    BY DEF AlgInv
  <2>3. Len(chunks) \in Nat /\ DOMAIN chunks = 1 .. Len(chunks)
    BY <2>2, LenProperties
  <2>4. ASSUME NEW i \in 1 .. Len(chunks)
        PROVE  chunks[i] \in [ok : BOOLEAN, bytes : Buffers] /\ Len(chunks[i].bytes) + 1 < U32
    <3>1. chunks[i] \in [ok : BOOLEAN, bytes : ShortBuffers]
      BY <2>2, ElementOfSeq
    <3>2. chunks[i] \in [ok : BOOLEAN, bytes : Buffers] /\ chunks[i].bytes \in ShortBuffers
      BY <3>1 DEF ShortBuffers
    <3>3. Len(chunks[i].bytes) \in Nat /\ Len(chunks[i].bytes) <= 2
      BY <2>1, <3>2, LenProperties DEF ShortBuffers, Buffers
    <3> QED
      BY <2>1, <3>2, <3>3
  <2>5. chunks \in Seq([ok : BOOLEAN, bytes : Buffers])
    <3> DEFINE Chunks == [ok : BOOLEAN, bytes : Buffers]
               Short == [ok : BOOLEAN, bytes : ShortBuffers]
    <3>1. \A i \in 1 .. Len(chunks) : chunks[i] \in Chunks
      BY <2>4
    <3>2. chunks \in Seq(Short)
      BY <2>2
    <3> HIDE DEF Chunks, Short
    <3>3. chunks \in [1 .. Len(chunks) -> Chunks]
      BY <2>3, <3>1, <3>2
    <3>4. chunks \in Seq(Chunks)
      BY <2>3, <3>3
    <3> QED
      BY <3>4 DEF Chunks
  <2> QED
    BY <2>4, <2>5, AnswersAreWhole
<1> QED
  BY <1>1, AlgInvHolds, PTL

(* The audit's figures and the sandbox's report, in the run of them all.   *)
THEOREM ReportsStayRight == AlgSpec => [](AuditFiguresAreRight /\ ReportIsVerdict)
BY SweepsSimulate, FiguresAreThoseDrawn, TheReportIsTheVerdict, PTL

=============================================================================
