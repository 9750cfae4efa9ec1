-------------------------- MODULE TCPServerProofs --------------------------
(***************************************************************************)
(* The TCP server, for every number of connections, every set of frames    *)
(* peers may send, and every limit on a frame's size and on the handshake. *)
(*                                                                         *)
(* The stream of one connection is described by the values of its          *)
(* variables, so that its lemmas speak of sequences and not of steps.      *)
(***************************************************************************)
EXTENDS TCPServer, SequenceTheorems, TLAPS

Parts == {"start", "header", "payload"}
PieceSet == [frame : PeerFrames, part : Parts]

(* The last piece of its frame.                                            *)
Ends(p) == p.part = "payload" \/ (p.part = "header" /\ p.frame.len = 0)

(* q may come after p in a stream.                                         *)
Follows(p, q) ==
  /\ p.part = "start" => q.part = "header" /\ q.frame = p.frame
  /\ p.part = "header" /\ p.frame.len # 0 => q.part = "payload" /\ q.frame = p.frame
  /\ Ends(p) => q.part = "start"

(* What was read last: the header of a frame whose payload is awaited, or  *)
(* the end of a frame that no longer matters.                              *)
Before(rd) ==
  IF rd = <<>> THEN [part |-> "payload"] ELSE [frame |-> rd[1], part |-> "header"]

At(w, rd, i) == IF i = 0 THEN Before(rd) ELSE w[i]

(* The stream of a connection: w is on the wire, rd is being read, sd is   *)
(* left of the frame being sent, st was sent and hd handled.  n numbers    *)
(* the pieces on the wire by their frame: they continue what was read, in  *)
(* order, up to the frames sent, and the frame being sent comes next.      *)
Stream(w, rd, sd, st, hd, n) ==
  /\ n \in [0 .. Len(w) -> Nat]
  /\ n[0] = Len(hd) + Len(rd)
  /\ \A i \in 0 .. Len(w) - 1 :
       /\ Follows(At(w, rd, i), At(w, rd, i + 1))
       /\ n[i + 1] = IF Ends(At(w, rd, i)) THEN n[i] + 1 ELSE n[i]
  /\ Len(st) + 1 = IF Ends(At(w, rd, Len(w))) THEN n[Len(w)] + 1 ELSE n[Len(w)]
  /\ IF sd = <<>> THEN Ends(At(w, rd, Len(w))) ELSE Follows(At(w, rd, Len(w)), sd[1])
  /\ \A i \in 0 .. Len(w) : i # 0 \/ rd # <<>> =>
       /\ n[i] \in 1 .. Len(st) + 1
       /\ n[i] <= Len(st) => st[n[i]] = At(w, rd, i).frame
       /\ n[i] = Len(st) + 1 => sd # <<>> /\ sd[1].frame = At(w, rd, i).frame
  /\ Len(hd) <= Len(st) /\ \A k \in 1 .. Len(hd) : hd[k] = st[k]

(* The rest of a frame, piece after piece.                                 *)
Rest(sd) ==
  /\ \A i \in 1 .. Len(sd) - 1 : ~Ends(sd[i]) /\ Follows(sd[i], sd[i + 1])
  /\ sd # <<>> => Ends(sd[Len(sd)])

Readings == {<<>>} \union {<<frame>> : frame \in PeerFrames}

-----------------------------------------------------------------------------
LEMMA PiecesAreParts ==
  ASSUME NEW frame \in PeerFrames
  PROVE  /\ Pieces(frame) \in Seq(PieceSet) /\ Pieces(frame) # <<>>
         /\ Pieces(frame)[1] = [frame |-> frame, part |-> "start"]
         /\ Rest(Pieces(frame))
<1> DEFINE a == [frame |-> frame, part |-> "start"]
           b == [frame |-> frame, part |-> "header"]
           e == [frame |-> frame, part |-> "payload"]
<1>1. a \in PieceSet /\ b \in PieceSet /\ e \in PieceSet
  BY DEF PieceSet, Parts
<1>2. ~Ends(a) /\ Follows(a, b) /\ Ends(e) /\ (Ends(b) <=> frame.len = 0)
      /\ (frame.len # 0 => Follows(b, e))
  BY DEF Ends, Follows
<1>3. CASE frame.len = 0
  <2>1. Pieces(frame) = <<a, b>>
    BY <1>3 DEF Pieces
  <2> HIDE DEF a, b
  <2>2. Rest(<<a, b>>)
    BY <1>2, <1>3 DEF Rest
  <2> QED
    BY <1>1, <2>1, <2>2 DEF a
<1>4. CASE frame.len # 0
  <2>1. Pieces(frame) = <<a, b>> \o <<e>>
    BY <1>4 DEF Pieces
  <2> HIDE DEF a, b, e
  <2>2. <<a, b>> \o <<e>> = <<a, b, e>>
    <3>1. <<a, b>> \in Seq(PieceSet) /\ Append(<<a, b>>, e) = <<a, b>> \o <<e>>
      BY <1>1, AppendIsConcat
    <3>2. Append(<<a, b>>, e) = <<a, b, e>>
      <4> DEFINE two == <<a, b>>
                 three == <<a, b, e>>
                 longer == Append(two, e)
      <4>1. /\ two \in Seq(PieceSet) /\ Len(two) = 2 /\ two[1] = a /\ two[2] = b
            /\ three \in Seq(PieceSet) /\ Len(three) = 3
            /\ three[1] = a /\ three[2] = b /\ three[3] = e
        BY <1>1
      <4> HIDE DEF two, three
      <4>2. /\ longer \in Seq(PieceSet) /\ Len(longer) = 3
            /\ longer[1] = a /\ longer[2] = b /\ longer[3] = e
        <5>1. e \in PieceSet /\ two \in Seq(PieceSet)
          BY <1>1, <4>1
        <5>2. /\ longer \in Seq(PieceSet) /\ Len(longer) = Len(two) + 1
              /\ \A i \in 1 .. Len(two) : longer[i] = two[i]
              /\ longer[Len(two) + 1] = e
          BY <5>1, AppendProperties
        <5>3. Len(two) + 1 = 3 /\ 1 \in 1 .. Len(two) /\ 2 \in 1 .. Len(two)
          BY <4>1
        <5> HIDE DEF longer
        <5> QED
          BY <4>1, <5>2, <5>3
      <4> HIDE DEF longer
      <4>3. \A i \in 1 .. 3 : i = 1 \/ i = 2 \/ i = 3
        OBVIOUS
      <4>4. longer = three
        BY <4>1, <4>2, <4>3, SeqEqual
      <4> QED
        BY <4>4 DEF longer, two, three
    <3> QED
      BY <3>1, <3>2
  <2>3. Rest(<<a, b, e>>)
    <3>1. \A i \in 1 .. 2 : i = 1 \/ i = 2
      OBVIOUS
    <3>2. Len(<<a, b, e>>) - 1 = 2 /\ <<a, b, e>>[3] = e
      OBVIOUS
    <3>3. /\ ~Ends(<<a, b, e>>[1]) /\ Follows(<<a, b, e>>[1], <<a, b, e>>[2])
          /\ ~Ends(<<a, b, e>>[2]) /\ Follows(<<a, b, e>>[2], <<a, b, e>>[3])
      BY <1>2, <1>4
    <3> QED
      BY <1>2, <3>1, <3>2, <3>3 DEF Rest
  <2>4. <<a, b, e>> \in Seq(PieceSet) /\ <<a, b, e>> # <<>> /\ <<a, b, e>>[1] = a
    BY <1>1
  <2>5. Pieces(frame) = <<a, b, e>>
    BY <2>1, <2>2
  <2> QED
    BY <2>3, <2>4, <2>5 DEF a
<1> QED
  BY <1>3, <1>4

(* An empty stream.                                                        *)
LEMMA StreamBegins ==
  \E n : Stream(<<>>, <<>>, <<>>, <<>>, <<>>, n)
<1> DEFINE n == [i \in 0 .. 0 |-> 0]
<1>1. n \in [0 .. 0 -> Nat] /\ n[0] = 0 /\ Len(<<>>) = 0
  OBVIOUS
<1>2. Ends(At(<<>>, <<>>, 0))
  BY DEF At, Before, Ends
<1> HIDE DEF n
<1>3. Stream(<<>>, <<>>, <<>>, <<>>, <<>>, n)
  BY <1>1, <1>2 DEF Stream
<1> QED
  BY <1>3

(* The peer begins its next frame.                                         *)
LEMMA StreamStarts ==
  ASSUME NEW w, NEW rd, NEW st, NEW hd, NEW n, NEW frame \in PeerFrames,
         Stream(w, rd, <<>>, st, hd, n)
  PROVE  Stream(w, rd, Pieces(frame), st, hd, n)
<1>1. Pieces(frame) # <<>> /\ Pieces(frame)[1].part = "start"
  <2>1. Pieces(frame) # <<>> /\ Pieces(frame)[1] = [frame |-> frame, part |-> "start"]
    BY PiecesAreParts
  <2> QED
    BY <2>1
<1>2. Ends(At(w, rd, Len(w)))
  BY DEF Stream
<1>3. Follows(At(w, rd, Len(w)), Pieces(frame)[1])
  BY <1>1, <1>2 DEF Follows, Ends
<1> QED
  BY <1>1, <1>2, <1>3 DEF Stream

(* The peer sends the next piece of its frame.                             *)
LEMMA StreamGrows ==
  ASSUME NEW w \in Seq(PieceSet), NEW rd \in Readings, NEW sd \in Seq(PieceSet),
         NEW st \in Seq(PeerFrames), NEW hd \in Seq(PeerFrames), NEW n,
         Stream(w, rd, sd, st, hd, n), Rest(sd), sd # <<>>,
         NEW w2, w2 = Append(w, Head(sd)), NEW st2,
         st2 = IF Len(sd) = 1 THEN Append(st, sd[1].frame) ELSE st
  PROVE  /\ Rest(Tail(sd))
         /\ \E m : Stream(w2, rd, Tail(sd), st2, hd, m)
<1> DEFINE L == Len(w)
           s == Len(st)
           h == Len(hd)
           d == Len(sd)
           td == Tail(sd)
           m == [i \in 0 .. L + 1 |-> IF i = L + 1 THEN s + 1 ELSE n[i]]
<1>1. L \in Nat /\ s \in Nat /\ h \in Nat
  BY LenProperties
<1>2. /\ d \in Nat \ {0} /\ Head(sd) = sd[1] /\ sd[1] \in PieceSet
      /\ td \in Seq(PieceSet) /\ Len(td) = d - 1
      /\ \A i \in 1 .. d - 1 : td[i] = sd[i + 1]
  <2>1. d \in Nat \ {0}
    BY EmptySeq
  <2>2. Head(sd) = sd[1] /\ Head(sd) \in PieceSet
    BY HeadTailProperties
  <2> QED
    BY <2>1, <2>2, HeadTailProperties
<1>3. td = <<>> <=> d = 1
  <2>1. td = <<>> => Len(td) = 0
    BY EmptySeq
  <2>2. td # <<>> => Len(td) # 0
    BY <1>2, EmptySeq
  <2> QED
    BY <1>2, <2>1, <2>2
<1>4. /\ Len(w2) = L + 1 /\ w2[L + 1] = sd[1] /\ \A i \in 1 .. L : w2[i] = w[i]
  BY <1>1, <1>2, AppendProperties
<1>5. sd[1].frame \in PeerFrames
  BY <1>2 DEF PieceSet
<1>6. d = 1 => Len(st2) = s + 1 /\ st2[s + 1] = sd[1].frame /\ \A k \in 1 .. s : st2[k] = st[k]
  BY <1>1, <1>5, AppendProperties
<1>7. d # 1 => st2 = st
  OBVIOUS
<1>8. Ends(sd[1]) <=> d = 1
  <2>1. d # 1 => 1 \in 1 .. d - 1
    BY <1>2
  <2> QED
    BY <1>2, <2>1 DEF Rest
<1>9. /\ n \in [0 .. L -> Nat] /\ n[0] = h + Len(rd)
      /\ \A i \in 0 .. L - 1 : /\ Follows(At(w, rd, i), At(w, rd, i + 1))
                               /\ n[i + 1] = IF Ends(At(w, rd, i)) THEN n[i] + 1 ELSE n[i]
      /\ s + 1 = IF Ends(At(w, rd, L)) THEN n[L] + 1 ELSE n[L]
      /\ Follows(At(w, rd, L), sd[1])
      /\ \A i \in 0 .. L : i # 0 \/ rd # <<>> =>
           /\ n[i] \in 1 .. s + 1
           /\ n[i] <= s => st[n[i]] = At(w, rd, i).frame
           /\ n[i] = s + 1 => sd[1].frame = At(w, rd, i).frame
      /\ h <= s /\ \A k \in 1 .. h : hd[k] = st[k]
  BY DEF Stream
<1>10. Rest(td)
  <2>1. \A i \in 1 .. Len(td) - 1 : td[i] = sd[i + 1] /\ td[i + 1] = sd[i + 1 + 1] /\ i + 1 \in 1 .. d - 1
    BY <1>2
  <2>2. \A i \in 1 .. Len(td) - 1 : ~Ends(td[i]) /\ Follows(td[i], td[i + 1])
    BY <2>1 DEF Rest
  <2>3. td # <<>> => td[Len(td)] = sd[d]
    BY <1>2, <1>3
  <2>4. Ends(sd[d])
    BY DEF Rest
  <2> QED
    BY <2>2, <2>3, <2>4 DEF Rest
<1>11. /\ At(w2, rd, L + 1) = sd[1]
       /\ \A i \in 0 .. L : At(w2, rd, i) = At(w, rd, i)
  BY <1>1, <1>4 DEF At
<1>12. /\ m[L + 1] = s + 1 /\ \A i \in 0 .. L : m[i] = n[i]
       /\ m \in [0 .. L + 1 -> Nat]
  BY <1>1, <1>9
<1> HIDE DEF L, s, h, d, td, m
<1>13. s <= Len(st2) /\ \A k \in 1 .. s : st2[k] = st[k]
  BY <1>1, <1>6, <1>7 DEF s
<1>14. m[0] = h + Len(rd)
  BY <1>1, <1>9, <1>12
<1>15. ASSUME NEW i \in 0 .. L + 1 - 1
       PROVE  /\ Follows(At(w2, rd, i), At(w2, rd, i + 1))
              /\ m[i + 1] = IF Ends(At(w2, rd, i)) THEN m[i] + 1 ELSE m[i]
  <2>1. CASE i = L
    BY <1>1, <1>9, <1>11, <1>12, <2>1
  <2>2. CASE i \in 0 .. L - 1
    <3>1. i \in 0 .. L /\ i + 1 \in 0 .. L
      BY <1>1, <2>2
    <3> QED
      BY <1>9, <1>11, <1>12, <2>2, <3>1
  <2> QED
    BY <1>1, <2>1, <2>2
<1>16. Len(st2) + 1 = IF Ends(At(w2, rd, L + 1)) THEN m[L + 1] + 1 ELSE m[L + 1]
  BY <1>1, <1>6, <1>7, <1>8, <1>11, <1>12 DEF s
<1>17. IF td = <<>> THEN Ends(At(w2, rd, L + 1)) ELSE Follows(At(w2, rd, L + 1), td[1])
  <2>1. CASE d = 1
    BY <1>3, <1>8, <1>11, <2>1
  <2>2. CASE d # 1
    <3>1. 1 \in 1 .. d - 1 /\ td[1] = sd[1 + 1]
      BY <1>2, <2>2
    <3>2. Follows(sd[1], sd[1 + 1])
      BY <3>1 DEF Rest, d
    <3> QED
      BY <1>3, <1>11, <2>2, <3>1, <3>2
  <2> QED
    BY <2>1, <2>2
<1>18. d # 1 => td # <<>> /\ td[1].frame = sd[1].frame
  <2> SUFFICES ASSUME d # 1 PROVE td # <<>> /\ td[1].frame = sd[1].frame
    OBVIOUS
  <2>1. 1 \in 1 .. d - 1 /\ td[1] = sd[1 + 1] /\ td # <<>>
    BY <1>2, <1>3
  <2>2. Follows(sd[1], sd[1 + 1]) /\ ~Ends(sd[1])
    BY <2>1 DEF Rest, d
  <2>3. sd[1].part \in Parts
    BY <1>2 DEF PieceSet
  <2> QED
    BY <2>1, <2>2, <2>3 DEF Follows, Ends, Parts
<1>19. ASSUME NEW i \in 0 .. L + 1, i # 0 \/ rd # <<>>
       PROVE  /\ m[i] \in 1 .. Len(st2) + 1
              /\ m[i] <= Len(st2) => st2[m[i]] = At(w2, rd, i).frame
              /\ m[i] = Len(st2) + 1 => td # <<>> /\ td[1].frame = At(w2, rd, i).frame
  <2>1. CASE i = L + 1
    <3>1. CASE d = 1
      BY <1>1, <1>6, <1>11, <1>12, <2>1, <3>1
    <3>2. CASE d # 1
      BY <1>1, <1>7, <1>11, <1>12, <1>18, <2>1, <3>2 DEF s
    <3> QED
      BY <3>1, <3>2
  <2>2. CASE i \in 0 .. L
    <3>1. m[i] = n[i] /\ At(w2, rd, i) = At(w, rd, i)
      BY <1>11, <1>12, <2>2
    <3>2. /\ n[i] \in 1 .. s + 1
          /\ n[i] <= s => st[n[i]] = At(w, rd, i).frame
          /\ n[i] = s + 1 => sd[1].frame = At(w, rd, i).frame
      BY <1>9, <1>19, <2>2
    <3>3. CASE d = 1
      <4>1. Len(st2) = s + 1 /\ st2[s + 1] = sd[1].frame /\ \A k \in 1 .. s : st2[k] = st[k]
        BY <1>6, <3>3
      <4>2. m[i] \in 1 .. s + 1
        BY <3>1, <3>2
      <4> DEFINE at == m[i]
                 frame == At(w2, rd, i).frame
      <4>3. at \in 1 .. s \/ at = s + 1
        BY <1>1, <4>2 DEF s
      <4>4. s \in Nat /\ Len(st2) = s + 1
        BY <1>1, <4>1 DEF s
      <4>5. CASE at = s + 1
        <5>1. frame = sd[1].frame
          BY <3>1, <3>2, <4>5
        <5>2. st2[at] = frame
          BY <4>1, <4>5, <5>1
        <5> HIDE DEF at, frame
        <5>3. at \in 1 .. Len(st2) + 1 /\ at # Len(st2) + 1
          BY <4>4, <4>5
        <5>4. at \in 1 .. Len(st2) + 1 /\ (at <= Len(st2) => st2[at] = frame)
              /\ (at = Len(st2) + 1 => td # <<>> /\ td[1].frame = frame)
          BY <5>2, <5>3
        <5> QED
          BY <5>4 DEF at, frame
      <4>6. CASE at \in 1 .. s
        <5>1. at <= s /\ st[at] = frame
          BY <3>1, <3>2, <4>4, <4>6
        <5>2. st2[at] = frame
          BY <4>1, <4>6, <5>1
        <5> HIDE DEF at, frame
        <5>3. at \in 1 .. Len(st2) + 1 /\ at # Len(st2) + 1
          BY <4>4, <4>6
        <5>4. at \in 1 .. Len(st2) + 1 /\ (at <= Len(st2) => st2[at] = frame)
              /\ (at = Len(st2) + 1 => td # <<>> /\ td[1].frame = frame)
          BY <5>2, <5>3
        <5> QED
          BY <5>4 DEF at, frame
      <4> QED
        BY <4>3, <4>5, <4>6
    <3>4. CASE d # 1
      BY <1>1, <1>7, <1>18, <3>1, <3>2, <3>4 DEF s
    <3> QED
      BY <3>3, <3>4
  <2> QED
    BY <1>1, <2>1, <2>2
<1>20. h <= Len(st2) /\ \A k \in 1 .. h : hd[k] = st2[k]
  <2>1. Len(st2) = s + 1 \/ Len(st2) = s
    BY <1>6, <1>7 DEF s
  <2>2. h <= Len(st2)
    BY <1>1, <1>9, <2>1
  <2>3. \A k \in 1 .. h : k \in 1 .. s
    BY <1>1, <1>9
  <2>4. \A k \in 1 .. h : hd[k] = st2[k]
    BY <1>9, <1>13, <2>3
  <2> QED
    BY <2>2, <2>4
<1>21. Len(w2) = L + 1
  BY <1>4 DEF L
<1>22. Stream(w2, rd, td, st2, hd, m)
  <2>1. Len(hd) <= Len(st2) /\ \A k \in 1 .. Len(hd) : hd[k] = st2[k]
    BY <1>20 DEF h
  <2>2. m \in [0 .. Len(w2) -> Nat] /\ m[0] = Len(hd) + Len(rd)
    BY <1>12, <1>14, <1>21 DEF h
  <2>3. \A i \in 0 .. Len(w2) - 1 :
           /\ Follows(At(w2, rd, i), At(w2, rd, i + 1))
           /\ m[i + 1] = IF Ends(At(w2, rd, i)) THEN m[i] + 1 ELSE m[i]
    <3> TAKE i \in 0 .. Len(w2) - 1
    <3>1. i \in 0 .. L + 1 - 1
      BY <1>1, <1>21
    <3> QED
      BY <1>15, <3>1
  <2>4. /\ Len(st2) + 1 = IF Ends(At(w2, rd, Len(w2))) THEN m[Len(w2)] + 1 ELSE m[Len(w2)]
        /\ IF td = <<>> THEN Ends(At(w2, rd, Len(w2))) ELSE Follows(At(w2, rd, Len(w2)), td[1])
    BY <1>16, <1>17, <1>21
  <2>5. \A i \in 0 .. Len(w2) : i # 0 \/ rd # <<>> =>
           /\ m[i] \in 1 .. Len(st2) + 1
           /\ m[i] <= Len(st2) => st2[m[i]] = At(w2, rd, i).frame
           /\ m[i] = Len(st2) + 1 => td # <<>> /\ td[1].frame = At(w2, rd, i).frame
    BY <1>19, <1>21
  <2> QED
    BY <2>1, <2>2, <2>3, <2>4, <2>5 DEF Stream
<1> QED
  BY <1>10, <1>22 DEF td

(* A frame whose last piece is on the wire, or was read last, is one the   *)
(* peer has sent completely.                                               *)
LEMMA EndedIsSent ==
  ASSUME NEW w \in Seq(PieceSet), NEW rd, NEW sd, NEW st \in Seq(PeerFrames),
         NEW hd \in Seq(PeerFrames), NEW n, Stream(w, rd, sd, st, hd, n)
  PROVE  \A i \in 0 .. Len(w) : (i # 0 \/ rd # <<>>) /\ Ends(At(w, rd, i)) =>
           n[i] \in 1 .. Len(st) /\ st[n[i]] = At(w, rd, i).frame
<1> SUFFICES ASSUME NEW i \in 0 .. Len(w), i # 0 \/ rd # <<>>, Ends(At(w, rd, i))
             PROVE  n[i] \in 1 .. Len(st) /\ st[n[i]] = At(w, rd, i).frame
  OBVIOUS
<1> DEFINE L == Len(w)
           s == Len(st)
<1>1. L \in Nat /\ s \in Nat
  BY LenProperties
<1>2. /\ n[i] \in 1 .. s + 1
      /\ n[i] <= s => st[n[i]] = At(w, rd, i).frame
  BY DEF Stream
<1>3. CASE i = L
  <2>1. s + 1 = n[L] + 1
    BY <1>3 DEF Stream
  <2> HIDE DEF L, s
  <2> QED
    BY <1>1, <1>2, <1>3, <2>1 DEF s
<1>4. CASE i # L
  <2>1. i \in 0 .. L - 1 /\ i + 1 \in 0 .. L /\ i + 1 # 0
    BY <1>1, <1>4
  <2>2. n[i + 1] = n[i] + 1
    BY <2>1 DEF Stream
  <2>3. n[i + 1] \in 1 .. s + 1
    BY <2>1 DEF Stream
  <2> HIDE DEF L, s
  <2> QED
    BY <1>1, <1>2, <2>2, <2>3 DEF s
<1> QED
  BY <1>3, <1>4

(* r may take the place of p at the head of a stream.                      *)
Replaces(r, p) == (Ends(p) <=> Ends(r)) /\ \A q : Follows(p, q) => Follows(r, q)

(* Reading the first k pieces on the wire leaves w2 of them, with rd2 the  *)
(* frame read into and hd2 the frames handled.                             *)
ReadsTo(w, rd, st, n, k, w2, rd2, hd2) ==
  /\ k \in 0 .. Len(w)
  /\ Len(w2) = Len(w) - k /\ \A i \in 1 .. Len(w) - k : w2[i] = w[i + k]
  /\ Len(hd2) + Len(rd2) = n[k]
  /\ Replaces(Before(rd2), At(w, rd, k))
  /\ rd2 # <<>> => (k # 0 \/ rd # <<>>) /\ Before(rd2).frame = At(w, rd, k).frame
  /\ Len(hd2) <= Len(st) /\ \A i \in 1 .. Len(hd2) : hd2[i] = st[i]

(* What is left is again the stream of a connection.                       *)
LEMMA StreamShifts ==
  ASSUME NEW w \in Seq(PieceSet), NEW rd, NEW sd, NEW st \in Seq(PeerFrames),
         NEW hd, NEW n, Stream(w, rd, sd, st, hd, n),
         NEW k, NEW w2, NEW rd2, NEW hd2, ReadsTo(w, rd, st, n, k, w2, rd2, hd2)
  PROVE  \E m : Stream(w2, rd2, sd, st, hd2, m)
<1> DEFINE L == Len(w)
           s == Len(st)
           m == [i \in 0 .. L - k |-> n[i + k]]
<1>0. /\ k \in 0 .. Len(w)
      /\ Len(w2) = Len(w) - k /\ \A i \in 1 .. Len(w) - k : w2[i] = w[i + k]
      /\ Len(hd2) + Len(rd2) = n[k]
      /\ Replaces(Before(rd2), At(w, rd, k))
      /\ rd2 # <<>> => (k # 0 \/ rd # <<>>) /\ Before(rd2).frame = At(w, rd, k).frame
      /\ Len(hd2) <= Len(st) /\ \A i \in 1 .. Len(hd2) : hd2[i] = st[i]
  BY DEF ReadsTo
<1>1. L \in Nat /\ s \in Nat /\ k \in Nat /\ L - k \in Nat
  BY <1>0, LenProperties
<1>2. /\ n \in [0 .. L -> Nat]
      /\ \A i \in 0 .. L - 1 : /\ Follows(At(w, rd, i), At(w, rd, i + 1))
                               /\ n[i + 1] = IF Ends(At(w, rd, i)) THEN n[i] + 1 ELSE n[i]
      /\ s + 1 = IF Ends(At(w, rd, L)) THEN n[L] + 1 ELSE n[L]
      /\ IF sd = <<>> THEN Ends(At(w, rd, L)) ELSE Follows(At(w, rd, L), sd[1])
      /\ \A i \in 0 .. L : i # 0 \/ rd # <<>> =>
           /\ n[i] \in 1 .. s + 1
           /\ n[i] <= s => st[n[i]] = At(w, rd, i).frame
           /\ n[i] = s + 1 => sd # <<>> /\ sd[1].frame = At(w, rd, i).frame
  BY DEF Stream
<1>3. Len(w2) = L - k /\ \A i \in 1 .. L - k : At(w2, rd2, i) = At(w, rd, i + k)
  BY <1>0, <1>1 DEF At
<1>4. At(w2, rd2, 0) = Before(rd2)
  BY DEF At
<1>5. \A i \in 0 .. L - k : i + k \in 0 .. L
  BY <1>1
<1>6. m \in [0 .. L - k -> Nat] /\ \A i \in 0 .. L - k : m[i] = n[i + k]
  BY <1>2, <1>5
<1>7. Replaces(At(w2, rd2, 0), At(w, rd, 0 + k))
  BY <1>0, <1>1, <1>4
<1> HIDE DEF L, s, m
<1>8. \A i \in 0 .. L - k : Replaces(At(w2, rd2, i), At(w, rd, i + k))
  <2> TAKE i \in 0 .. L - k
  <2>1. CASE i = 0
    BY <1>7, <2>1
  <2>2. CASE i # 0
    <3>1. i \in 1 .. L - k
      BY <1>1, <2>2
    <3> QED
      BY <1>3, <3>1 DEF Replaces
  <2> QED
    BY <2>1, <2>2
<1>9. m[0] = Len(hd2) + Len(rd2)
  BY <1>0, <1>1, <1>6
<1>10. ASSUME NEW i \in 0 .. L - k - 1
       PROVE  /\ Follows(At(w2, rd2, i), At(w2, rd2, i + 1))
              /\ m[i + 1] = IF Ends(At(w2, rd2, i)) THEN m[i] + 1 ELSE m[i]
  <2>1. /\ i \in 0 .. L - k /\ i + 1 \in 1 .. L - k /\ i + 1 \in 0 .. L - k
        /\ i + k \in 0 .. L - 1 /\ i + 1 + k = i + k + 1
    BY <1>1
  <2>2. /\ Follows(At(w, rd, i + k), At(w, rd, i + k + 1))
        /\ n[i + k + 1] = IF Ends(At(w, rd, i + k)) THEN n[i + k] + 1 ELSE n[i + k]
    BY <1>2, <2>1
  <2>3. Replaces(At(w2, rd2, i), At(w, rd, i + k))
    BY <1>8, <2>1
  <2>4. At(w2, rd2, i + 1) = At(w, rd, i + k + 1) /\ m[i + 1] = n[i + k + 1] /\ m[i] = n[i + k]
    <3>1. At(w2, rd2, i + 1) = At(w, rd, i + 1 + k)
      BY <1>3, <2>1
    <3>2. m[i + 1] = n[i + 1 + k] /\ m[i] = n[i + k]
      BY <1>6, <2>1
    <3> QED
      BY <2>1, <3>1, <3>2
  <2> QED
    BY <2>2, <2>3, <2>4 DEF Replaces
<1>11. L - k \in 0 .. L - k /\ L - k + k = L
  BY <1>1
<1>12. /\ s + 1 = IF Ends(At(w2, rd2, L - k)) THEN m[L - k] + 1 ELSE m[L - k]
       /\ IF sd = <<>> THEN Ends(At(w2, rd2, L - k)) ELSE Follows(At(w2, rd2, L - k), sd[1])
  <2>1. Replaces(At(w2, rd2, L - k), At(w, rd, L)) /\ m[L - k] = n[L]
    BY <1>6, <1>8, <1>11
  <2> QED
    BY <1>2, <2>1 DEF Replaces
<1>13. ASSUME NEW i \in 0 .. L - k, i # 0 \/ rd2 # <<>>
       PROVE  /\ m[i] \in 1 .. s + 1
              /\ m[i] <= s => st[m[i]] = At(w2, rd2, i).frame
              /\ m[i] = s + 1 => sd # <<>> /\ sd[1].frame = At(w2, rd2, i).frame
  <2>1. m[i] = n[i + k] /\ i + k \in 0 .. L
    BY <1>5, <1>6
  <2>2. (i + k # 0 \/ rd # <<>>) /\ At(w2, rd2, i).frame = At(w, rd, i + k).frame
    <3>1. CASE i = 0
      <4>1. i + k = k
        BY <1>1, <3>1
      <4> QED
        BY <1>0, <1>4, <1>13, <3>1, <4>1
    <3>2. CASE i # 0
      <4>1. i \in 1 .. L - k /\ i + k # 0
        BY <1>1, <3>2
      <4> QED
        BY <1>3, <4>1
    <3> QED
      BY <3>1, <3>2
  <2> QED
    BY <1>2, <2>1, <2>2
<1>14. Stream(w2, rd2, sd, st, hd2, m)
  <2>1. m \in [0 .. Len(w2) -> Nat]
    BY <1>3, <1>6
  <2>2. \A i \in 0 .. Len(w2) - 1 :
           /\ Follows(At(w2, rd2, i), At(w2, rd2, i + 1))
           /\ m[i + 1] = IF Ends(At(w2, rd2, i)) THEN m[i] + 1 ELSE m[i]
    <3> TAKE i \in 0 .. Len(w2) - 1
    <3>1. i \in 0 .. L - k - 1
      BY <1>1, <1>3
    <3> QED
      BY <1>10, <3>1
  <2>3. /\ Len(st) + 1 = IF Ends(At(w2, rd2, Len(w2))) THEN m[Len(w2)] + 1 ELSE m[Len(w2)]
        /\ IF sd = <<>> THEN Ends(At(w2, rd2, Len(w2))) ELSE Follows(At(w2, rd2, Len(w2)), sd[1])
    BY <1>3, <1>12 DEF s
  <2>4. \A i \in 0 .. Len(w2) : i # 0 \/ rd2 # <<>> =>
           /\ m[i] \in 1 .. Len(st) + 1
           /\ m[i] <= Len(st) => st[m[i]] = At(w2, rd2, i).frame
           /\ m[i] = Len(st) + 1 => sd # <<>> /\ sd[1].frame = At(w2, rd2, i).frame
    BY <1>3, <1>13 DEF s
  <2> QED
    BY <1>0, <1>9, <2>1, <2>2, <2>3, <2>4 DEF Stream
<1> QED
  BY <1>14

(* read_frame has the nine bytes of a header.                              *)
LEMMA StreamReadsHeader ==
  ASSUME NEW w \in Seq(PieceSet), NEW sd, NEW st \in Seq(PeerFrames),
         NEW hd \in Seq(PeerFrames), NEW n, Stream(w, <<>>, sd, st, hd, n),
         Len(w) >= 2, w[2].part = "header", NEW w2, w2 = SubSeq(w, 3, Len(w))
  PROVE  \E m : Stream(w2, <<w[2].frame>>, sd, st, hd, m)
<1> DEFINE L == Len(w)
           h == Len(hd)
           rd2 == <<w[2].frame>>
<1>1. L \in Nat /\ h \in Nat /\ 2 \in 0 .. L /\ 1 \in 0 .. L /\ L - 2 \in Nat
  BY LenProperties
<1>2. w[2] \in PieceSet
  BY <1>1, ElementOfSeq
<1>3. At(w, <<>>, 0) = [part |-> "payload"] /\ At(w, <<>>, 1) = w[1] /\ At(w, <<>>, 2) = w[2]
  BY DEF At, Before
<1>4. /\ Follows(At(w, <<>>, 0), w[1]) /\ Follows(w[1], w[2])
      /\ n[0] = h
      /\ n[1] = IF Ends(At(w, <<>>, 0)) THEN n[0] + 1 ELSE n[0]
      /\ n[2] = IF Ends(w[1]) THEN n[1] + 1 ELSE n[1]
  <2>1. 0 \in 0 .. L - 1 /\ 1 \in 0 .. L - 1 /\ Len(<<>>) = 0 /\ 0 + 1 = 1 /\ 1 + 1 = 2
    BY <1>1
  <2>2. n[0] = h + Len(<<>>)
    BY DEF Stream
  <2> HIDE DEF h
  <2>3. n[0] = h
    BY <1>1, <2>1, <2>2
  <2>4. /\ Follows(At(w, <<>>, 0), At(w, <<>>, 0 + 1))
        /\ Follows(At(w, <<>>, 1), At(w, <<>>, 1 + 1))
        /\ n[0 + 1] = IF Ends(At(w, <<>>, 0)) THEN n[0] + 1 ELSE n[0]
        /\ n[1 + 1] = IF Ends(At(w, <<>>, 1)) THEN n[1] + 1 ELSE n[1]
    BY <2>1 DEF Stream
  <2> QED
    BY <1>3, <2>1, <2>3, <2>4
<1>5. w[1].part = "start" /\ Ends(At(w, <<>>, 0)) /\ ~Ends(w[1])
  BY <1>3, <1>4 DEF Ends, Follows
<1>6. n[2] = h + 1
  BY <1>4, <1>5
<1>7. Before(rd2) = w[2]
  <2>1. w[2] = [frame |-> w[2].frame, part |-> "header"]
    BY <1>2 DEF PieceSet
  <2> QED
    BY <2>1 DEF Before
<1>8. Replaces(Before(rd2), At(w, <<>>, 2))
  BY <1>3, <1>7 DEF Replaces
<1>9. Len(w2) = L - 2 /\ \A i \in 1 .. L - 2 : w2[i] = w[i + 2]
  <2>1. 3 \in 1 .. L + 1 /\ L \in 3 - 1 .. L
    BY <1>1
  <2>2. /\ Len(w2) = IF 3 <= L THEN L - 3 + 1 ELSE 0
        /\ \A i \in 1 .. L - 3 + 1 : w2[i] = w[3 + i - 1]
    BY <2>1, SubSeqProperties
  <2> HIDE DEF L
  <2>3. Len(w2) = L - 2
    BY <1>1, <2>2
  <2>4. \A i \in 1 .. L - 2 : i \in 1 .. L - 3 + 1 /\ 3 + i - 1 = i + 2
    BY <1>1
  <2> QED
    BY <2>2, <2>3, <2>4
<1>10. Len(rd2) = 1 /\ rd2 # <<>>
  OBVIOUS
<1>11. Len(hd) <= Len(st) /\ \A i \in 1 .. Len(hd) : hd[i] = st[i]
  BY DEF Stream
<1>12. Len(hd) + Len(rd2) = n[2]
  BY <1>6, <1>10
<1> HIDE DEF rd2, L, h
<1>13. /\ 2 \in 0 .. Len(w) /\ Len(w2) = Len(w) - 2
       /\ \A i \in 1 .. Len(w) - 2 : w2[i] = w[i + 2]
  BY <1>1, <1>9 DEF L
<1>14. rd2 # <<>> => (2 # 0 \/ <<>> # <<>>) /\ Before(rd2).frame = At(w, <<>>, 2).frame
  BY <1>3, <1>7
<1>15. ReadsTo(w, <<>>, st, n, 2, w2, rd2, hd)
  BY <1>8, <1>11, <1>12, <1>13, <1>14 DEF ReadsTo
<1>16. \E m : Stream(w2, rd2, sd, st, hd, m)
  BY <1>15, StreamShifts
<1> QED
  BY <1>16 DEF rd2

(* read_frame has the payload too: the frame is one the peer has sent      *)
(* completely, and the next to be handled.                                 *)
LEMMA StreamReadsPayload ==
  ASSUME NEW w \in Seq(PieceSet), NEW frame \in PeerFrames, NEW sd,
         NEW st \in Seq(PeerFrames), NEW hd \in Seq(PeerFrames), NEW n,
         Stream(w, <<frame>>, sd, st, hd, n), frame.len = 0 \/ Len(w) > 0,
         NEW w2, w2 = IF frame.len = 0 THEN w ELSE Tail(w)
  PROVE  \E m : Stream(w2, <<>>, sd, st, Append(hd, frame), m)
<1> DEFINE L == Len(w)
           h == Len(hd)
           s == Len(st)
           rd == <<frame>>
           hd2 == Append(hd, frame)
           k == IF frame.len = 0 THEN 0 ELSE 1
<1>1. L \in Nat /\ h \in Nat /\ s \in Nat /\ k \in 0 .. L /\ (frame.len # 0 => L > 0)
  <2>1. frame.len # 0 => L > 0
    OBVIOUS
  <2>2. L \in Nat /\ h \in Nat /\ s \in Nat
    BY LenProperties
  <2> HIDE DEF L
  <2> QED
    BY <2>1, <2>2
<1>2. At(w, rd, 0) = [frame |-> frame, part |-> "header"] /\ Len(rd) = 1 /\ rd # <<>>
  BY DEF At, Before
<1>3. n[0] = h + 1 /\ Len(hd) <= Len(st) /\ \A i \in 1 .. Len(hd) : hd[i] = st[i]
  BY <1>2 DEF Stream
<1>4. Ends(At(w, rd, k)) /\ At(w, rd, k).frame = frame /\ n[k] = h + 1
  <2>1. CASE frame.len = 0
    BY <1>2, <1>3, <2>1 DEF Ends
  <2>2. CASE frame.len # 0
    <3>1. 0 \in 0 .. L - 1 /\ 0 + 1 = 1
      BY <1>1, <2>2
    <3>2. Follows(At(w, rd, 0), At(w, rd, 1)) /\ n[1] = IF Ends(At(w, rd, 0)) THEN n[0] + 1 ELSE n[0]
      <4>1. /\ Follows(At(w, rd, 0), At(w, rd, 0 + 1))
            /\ n[0 + 1] = IF Ends(At(w, rd, 0)) THEN n[0] + 1 ELSE n[0]
        BY <3>1 DEF Stream
      <4> QED
        BY <3>1, <4>1
    <3>3. ~Ends(At(w, rd, 0))
      BY <1>2, <2>2 DEF Ends
    <3>4. At(w, rd, 1).part = "payload" /\ At(w, rd, 1).frame = frame
      BY <1>2, <2>2, <3>2 DEF Follows
    <3> QED
      BY <1>3, <2>2, <3>2, <3>3, <3>4 DEF Ends
  <2> QED
    BY <2>1, <2>2
<1> HIDE DEF rd
<1>5. h + 1 \in 1 .. s /\ st[h + 1] = frame
  <2>1. Stream(w, rd, sd, st, hd, n) /\ k \in 0 .. Len(w) /\ rd # <<>>
    BY <1>1, <1>2 DEF rd
  <2> HIDE DEF k
  <2>2. Stream(w, rd, sd, st, hd, n)
    BY <2>1
  <2>3. \A r : Stream(w, r, sd, st, hd, n) =>
          \A i \in 0 .. Len(w) : (i # 0 \/ r # <<>>) /\ Ends(At(w, r, i)) =>
            n[i] \in 1 .. Len(st) /\ st[n[i]] = At(w, r, i).frame
    BY EndedIsSent
  <2>4. n[k] \in 1 .. Len(st) /\ st[n[k]] = At(w, rd, k).frame
    BY <1>4, <2>1, <2>2, <2>3
  <2> QED
    BY <1>4, <2>4
<1>6. /\ hd2 \in Seq(PeerFrames) /\ Len(hd2) = h + 1 /\ hd2[h + 1] = frame
      /\ \A i \in 1 .. h : hd2[i] = hd[i]
  BY AppendProperties
<1>7. \A i \in 1 .. h + 1 : i \in 1 .. h \/ i = h + 1
  BY <1>1
<1> HIDE DEF hd2, h
<1>8. Len(hd2) <= Len(st) /\ \A i \in 1 .. Len(hd2) : hd2[i] = st[i]
  <2>1. \A i \in 1 .. h : hd[i] = st[i]
    BY <1>3 DEF h
  <2>2. \A i \in 1 .. h + 1 : hd2[i] = st[i]
    BY <1>5, <1>6, <1>7, <2>1
  <2>3. h + 1 <= s
    BY <1>1, <1>5
  <2> QED
    BY <1>6, <2>2, <2>3
<1>9. Len(w2) = L - k /\ \A i \in 1 .. L - k : w2[i] = w[i + k]
  <2>1. CASE frame.len = 0
    BY <1>1, <2>1
  <2>2. CASE frame.len # 0
    <3>1. w # <<>> /\ w2 = Tail(w) /\ k = 1
      BY <2>2, EmptySeq
    <3>2. Len(w2) = L - 1 /\ \A i \in 1 .. Len(w) - 1 : w2[i] = w[i + 1]
      BY <3>1, HeadTailProperties
    <3> QED
      BY <3>1, <3>2
  <2> QED
    BY <2>1, <2>2
<1>10. Len(hd2) + Len(<<>>) = n[k]
  BY <1>1, <1>4, <1>6
<1>11. Replaces(Before(<<>>), At(w, rd, k))
  <2>1. Before(<<>>) = [part |-> "payload"]
    BY DEF Before
  <2> QED
    BY <1>4, <2>1 DEF Replaces, Ends, Follows
<1> HIDE DEF k
<1>12. /\ Stream(w, rd, sd, st, hd, n) /\ k \in 0 .. Len(w) /\ Len(w2) = Len(w) - k
       /\ \A i \in 1 .. Len(w) - k : w2[i] = w[i + k]
  BY <1>1, <1>9 DEF rd
<1>13. ReadsTo(w, rd, st, n, k, w2, <<>>, hd2)
  BY <1>8, <1>10, <1>11, <1>12 DEF ReadsTo
<1>14. \E m : Stream(w2, <<>>, sd, st, hd2, m)
  BY <1>12, <1>13, StreamShifts
<1> QED
  BY <1>14 DEF hd2

(* A stream that ends where a header would begin, or within one, has       *)
(* nothing left of what the peer sent completely.                          *)
LEMMA StreamEndsClean ==
  ASSUME NEW w \in Seq(PieceSet), NEW sd, NEW st \in Seq(PeerFrames),
         NEW hd \in Seq(PeerFrames), NEW n, Stream(w, <<>>, sd, st, hd, n), Len(w) < 2
  PROVE  hd = st
<1> DEFINE L == Len(w)
           h == Len(hd)
           s == Len(st)
<1>1. h \in Nat /\ s \in Nat /\ L \in {0, 1}
  <2>1. h \in Nat /\ s \in Nat /\ L \in Nat /\ L < 2
    BY LenProperties
  <2> HIDE DEF L
  <2> QED
    BY <2>1
<1>2. /\ n[0] = h + Len(<<>>) /\ Len(<<>>) = 0
      /\ s + 1 = IF Ends(At(w, <<>>, L)) THEN n[L] + 1 ELSE n[L]
      /\ \A i \in 1 .. h : hd[i] = st[i]
  BY DEF Stream
<1>3. At(w, <<>>, 0) = [part |-> "payload"] /\ At(w, <<>>, 1) = w[1] /\ Ends(At(w, <<>>, 0))
  BY DEF At, Before, Ends
<1>4. L = 1 => Follows(At(w, <<>>, 0), w[1]) /\ n[1] = n[0] + 1
  <2> SUFFICES ASSUME L = 1 PROVE Follows(At(w, <<>>, 0), w[1]) /\ n[1] = n[0] + 1
    OBVIOUS
  <2>1. 0 \in 0 .. L - 1 /\ 0 + 1 = 1
    OBVIOUS
  <2>2. Follows(At(w, <<>>, 0), At(w, <<>>, 0 + 1)) /\ n[0 + 1] = n[0] + 1
    BY <1>3, <2>1 DEF Stream
  <2> QED
    BY <1>3, <2>1, <2>2
<1>5. L = 1 => ~Ends(w[1])
  BY <1>3, <1>4 DEF Ends, Follows
<1> HIDE DEF L, h, s
<1>6. s = h
  BY <1>1, <1>2, <1>3, <1>4, <1>5
<1> QED
  BY <1>2, <1>6, SeqEqual DEF h, s

-----------------------------------------------------------------------------
(* The inductive invariant: of every connection that has not ended, what   *)
(* is on the wire, read, sent and handled are one stream; the handshake's  *)
(* clock is its age; the watermark is that of the frames handled.          *)
IsStream(w, rd, sd, st, hd) == Rest(sd) /\ \E n : Stream(w, rd, sd, st, hd, n)

LastTicket(mark, hd) ==
  LET tickets == {i \in 2 .. Len(hd) : hd[i].type = "TicketRequest" /\ hd[i].decodes}
  IN  \/ tickets = {} /\ mark = 0
      \/ \E i \in tickets : /\ \A j \in tickets : j <= i
                            /\ mark = hd[i].nonce

ConnectionIs(ph, how, mark, tm, ag, w, rd, sd, st, hd) ==
  /\ ph # "ended" => IsStream(w, rd, sd, st, hd)
  /\ ph = "none" => ag = 0 /\ tm = 0
  /\ ph = "init" => ag = tm
  /\ ph = "ack" => ag <= HANDSHAKE_TIMEOUT + tm
  /\ ph \in {"none", "init", "ack"} => hd = <<>> /\ mark = 0
  /\ ph = "serving" => Len(hd) >= 1 /\ LastTicket(mark, hd)
  /\ how = "clean" => hd = st

Connection(c) ==
  ConnectionIs(phase[c], outcome[c], watermark[c], timer[c], age[c],
               wire[c], reading[c], sending[c], sent[c], handled[c])

StreamTypes ==
  /\ age \in [Conns -> Nat]
  /\ reading \in [Conns -> Readings]
  /\ wire \in [Conns -> Seq(PieceSet)] /\ sending \in [Conns -> Seq(PieceSet)]
  /\ sent \in [Conns -> Seq(PeerFrames)] /\ handled \in [Conns -> Seq(PeerFrames)]

ServerInv == TypeOK /\ StreamTypes /\ \A c \in Conns : Connection(c)

Same(c) ==
  /\ phase'[c] = phase[c] /\ outcome'[c] = outcome[c] /\ watermark'[c] = watermark[c]
  /\ timer'[c] = timer[c] /\ age'[c] = age[c] /\ wire'[c] = wire[c]
  /\ reading'[c] = reading[c] /\ sending'[c] = sending[c]
  /\ sent'[c] = sent[c] /\ handled'[c] = handled[c]

LEMMA SameConnection ==
  ASSUME NEW c \in Conns, Connection(c), Same(c)
  PROVE  Connection(c)'
<1> QED
  BY DEF Connection, Same

(* A step of one connection leaves the others alone.                       *)
LEMMA OneMoves ==
  ASSUME ServerInv, NEW c \in Conns, TypeOK', StreamTypes', Connection(c)',
         \A d \in Conns : d # c => Same(d)
  PROVE  ServerInv'
<1>1. ASSUME NEW d \in Conns PROVE Connection(d)'
  <2>1. CASE d = c
    BY <2>1
  <2>2. CASE d # c
    BY <2>2, SameConnection DEF ServerInv
  <2> QED
    BY <2>1, <2>2
<1> QED
  BY <1>1 DEF ServerInv

LEMMA NoBytes == <<>> \in Seq(PieceSet) /\ <<>> \in Seq(PeerFrames) /\ <<>> \in Readings /\ Len(<<>>) = 0
<1> QED
  BY DEF Readings

LEMMA InitServerInv == Init => ServerInv
<1> SUFFICES ASSUME Init PROVE ServerInv
  OBVIOUS
<1>1. TypeOK
  BY ServerAssumption, NoBytes DEF Init, TypeOK
<1>2. StreamTypes
  BY NoBytes DEF Init, StreamTypes
<1>3. ASSUME NEW c \in Conns PROVE Connection(c)
  <2>1. /\ phase[c] = "none" /\ outcome[c] = "none" /\ watermark[c] = 0 /\ age[c] = 0 /\ timer[c] = 0
        /\ wire[c] = <<>> /\ reading[c] = <<>> /\ sending[c] = <<>> /\ sent[c] = <<>>
        /\ handled[c] = <<>>
    BY DEF Init
  <2>2. IsStream(<<>>, <<>>, <<>>, <<>>, <<>>)
    <3>1. Rest(<<>>)
      BY DEF Rest
    <3> QED
      BY <3>1, StreamBegins DEF IsStream
  <2> QED
    BY <2>1, <2>2 DEF Connection, ConnectionIs
<1> QED
  BY <1>1, <1>2, <1>3 DEF ServerInv

-----------------------------------------------------------------------------
(* The steps that move no bytes.                                           *)
LEMMA AcceptKeepsInv ==
  ASSUME ServerInv, NEW c \in Conns, Accept(c)
  PROVE  ServerInv'
<1>1. TypeOK'
  BY DEF ServerInv, TypeOK, Accept, peerVars
<1>2. StreamTypes'
  BY DEF ServerInv, StreamTypes, Accept, peerVars
<1>3. \A d \in Conns : d # c => Same(d)
  BY DEF ServerInv, TypeOK, Accept, peerVars, Same
<1>4. Connection(c)'
  <2>1. phase[c] = "none" /\ phase'[c] = "init"
    BY DEF ServerInv, TypeOK, Accept
  <2>2. UNCHANGED <<outcome, watermark, reading, timer, age, wire, sending, sent, handled>>
    BY DEF Accept, peerVars
  <2>3. Connection(c)
    BY DEF ServerInv
  <2> QED
    BY <2>1, <2>2, <2>3 DEF Connection, ConnectionIs
<1> QED
  BY <1>1, <1>2, <1>3, <1>4, OneMoves

LEMMA SendInitKeepsInv ==
  ASSUME ServerInv, NEW c \in Conns, SendInit(c)
  PROVE  ServerInv'
<1>1. TypeOK'
  <2>1. /\ timer' \in [Conns -> 0 .. HANDSHAKE_TIMEOUT]
        /\ UNCHANGED <<listening, watermark, fin, reading>>
    BY ServerAssumption DEF ServerInv, TypeOK, SendInit, End, peerVars
  <2>2. CASE phase' = [phase EXCEPT ![c] = "ack"] /\ UNCHANGED outcome
    BY <2>1, <2>2 DEF ServerInv, TypeOK, SendInit
  <2>3. CASE phase' = [phase EXCEPT ![c] = "ended"] /\ outcome' = [outcome EXCEPT ![c] = "error"]
    BY <2>1, <2>3 DEF ServerInv, TypeOK
  <2> QED
    BY <2>2, <2>3 DEF SendInit, End
<1>2. StreamTypes'
  BY DEF ServerInv, StreamTypes, SendInit, peerVars
<1>3. \A d \in Conns : d # c => Same(d)
  BY DEF ServerInv, TypeOK, SendInit, End, peerVars, Same
<1>4. Connection(c)'
  <2>0. timer[c] \in 0 .. HANDSHAKE_TIMEOUT /\ HANDSHAKE_TIMEOUT \in Nat
    BY ServerAssumption DEF ServerInv, TypeOK
  <2>1. /\ phase[c] = "init" /\ timer'[c] = 0 /\ watermark' = watermark
        /\ \/ phase'[c] = "ack" /\ outcome'[c] = outcome[c]
           \/ phase'[c] = "ended" /\ outcome'[c] = "error"
    BY DEF ServerInv, TypeOK, SendInit, End
  <2>2. UNCHANGED <<reading, age, wire, sending, sent, handled>>
    BY DEF SendInit, peerVars
  <2>3. Connection(c)
    BY DEF ServerInv
  <2> QED
    BY <2>0, <2>1, <2>2, <2>3 DEF Connection, ConnectionIs
<1> QED
  BY <1>1, <1>2, <1>3, <1>4, OneMoves

(* A clean end is that of a stream with nothing more to read.              *)
LEMMA EndsKeepInv ==
  ASSUME ServerInv, NEW c \in Conns, HandshakeTimesOut(c) \/ ReadEof(c) \/ PayloadEof(c)
  PROVE  ServerInv'
<1>1. UNCHANGED <<listening, reading, timer, age, wire, sending, fin, sent, handled, watermark>>
  BY DEF HandshakeTimesOut, ReadEof, PayloadEof, End, peerVars
<1>2. \E how \in {"clean", "error", "timeout"} :
        /\ phase' = [phase EXCEPT ![c] = "ended"]
        /\ outcome' = [outcome EXCEPT ![c] = how]
        /\ how = "clean" => ReadEof(c) /\ phase[c] = "serving"
  <2>1. CASE HandshakeTimesOut(c)
    BY <2>1 DEF HandshakeTimesOut, End
  <2>2. CASE PayloadEof(c)
    BY <2>2 DEF PayloadEof, End
  <2>3. CASE ReadEof(c)
    <3>1. CASE phase[c] = "serving" /\ fin[c] = "closed"
      BY <2>3, <3>1 DEF ReadEof, End
    <3>2. CASE ~(phase[c] = "serving" /\ fin[c] = "closed")
      BY <2>3, <3>2 DEF ReadEof, End
    <3> QED
      BY <3>1, <3>2
  <2> QED
    BY <2>1, <2>2, <2>3
<1>3. TypeOK'
  BY <1>1, <1>2 DEF ServerInv, TypeOK
<1>4. StreamTypes'
  BY <1>1 DEF ServerInv, StreamTypes
<1>5. \A d \in Conns : d # c => Same(d)
  BY <1>1, <1>2 DEF ServerInv, TypeOK, Same
<1>6. Connection(c)
  BY DEF ServerInv
<1>7. outcome'[c] = "clean" => handled[c] = sent[c]
  <2> SUFFICES ASSUME outcome'[c] = "clean" PROVE handled[c] = sent[c]
    OBVIOUS
  <2>1. ReadEof(c) /\ phase[c] = "serving"
    BY <1>2 DEF ServerInv, TypeOK
  <2>2. Len(wire[c]) < 2 /\ reading[c] = <<>>
    BY <2>1 DEF ReadEof, EofInHeader
  <2>3. PICK n : Stream(wire[c], <<>>, sending[c], sent[c], handled[c], n)
    BY <1>6, <2>1, <2>2 DEF Connection, ConnectionIs, IsStream
  <2>4. wire[c] \in Seq(PieceSet) /\ sent[c] \in Seq(PeerFrames) /\ handled[c] \in Seq(PeerFrames)
    BY DEF ServerInv, StreamTypes
  <2> QED
    BY <2>2, <2>3, <2>4, StreamEndsClean
<1>8. phase'[c] = "ended"
  BY <1>2 DEF ServerInv, TypeOK
<1>9. Connection(c)'
  BY <1>1, <1>7, <1>8 DEF Connection, ConnectionIs
<1> QED
  BY <1>3, <1>4, <1>5, <1>9, OneMoves

(* A second passes: a shaking connection's clock and age move together.    *)
LEMMA TickKeepsInv ==
  ASSUME ServerInv, Tick
  PROVE  ServerInv'
<1>1. UNCHANGED <<listening, phase, outcome, watermark, reading, wire, sending, fin, sent, handled>>
  BY DEF Tick, serverVars, peerVars
<1>2. /\ \A c \in Conns : timer[c] \in 0 .. HANDSHAKE_TIMEOUT /\ age[c] \in Nat
      /\ \A c \in Shaking : timer[c] < HANDSHAKE_TIMEOUT
  BY DEF ServerInv, TypeOK, StreamTypes, Tick
<1>3. /\ timer' \in [Conns -> 0 .. HANDSHAKE_TIMEOUT]
      /\ age' \in [Conns -> Nat]
  BY <1>2, ServerAssumption DEF Tick
<1>4. TypeOK'
  BY <1>1, <1>3 DEF ServerInv, TypeOK
<1>5. StreamTypes'
  BY <1>1, <1>3 DEF ServerInv, StreamTypes
<1>6. ASSUME NEW c \in Conns PROVE Connection(c)'
  <2>1. Connection(c)
    BY DEF ServerInv
  <2>2. CASE phase[c] \in {"init", "ack"}
    <3>1. timer'[c] = timer[c] + 1 /\ age'[c] = age[c] + 1
      BY <2>2 DEF Tick, Shaking
    <3>2. timer[c] \in Nat /\ age[c] \in Nat /\ HANDSHAKE_TIMEOUT \in Nat
      BY <1>2, ServerAssumption
    <3> QED
      BY <1>1, <2>1, <2>2, <3>1, <3>2 DEF Connection, ConnectionIs
  <2>3. CASE phase[c] \notin {"init", "ack"}
    <3>1. timer'[c] = timer[c] /\ age'[c] = age[c]
      BY <2>3 DEF Tick, Shaking
    <3> QED
      BY <1>1, <2>1, <3>1 DEF Connection
  <2> QED
    BY <2>2, <2>3
<1> QED
  BY <1>4, <1>5, <1>6 DEF ServerInv

-----------------------------------------------------------------------------
(* The peer's steps.                                                       *)
LEMMA PeerStartsKeepsInv ==
  ASSUME ServerInv, NEW c \in Conns, NEW frame \in PeerFrames, PeerStarts(c, frame)
  PROVE  ServerInv'
<1>1. /\ UNCHANGED <<listening, phase, outcome, watermark, reading, timer, age, wire, fin, sent, handled>>
      /\ sending' = [sending EXCEPT ![c] = Pieces(frame)]
      /\ phase[c] # "ended" /\ sending[c] = <<>>
  BY DEF PeerStarts, serverVars
<1>2. Pieces(frame) \in Seq(PieceSet) /\ Rest(Pieces(frame))
  BY PiecesAreParts
<1>3. TypeOK'
  BY <1>1 DEF ServerInv, TypeOK
<1>4. StreamTypes'
  BY <1>1, <1>2 DEF ServerInv, StreamTypes
<1>5. \A d \in Conns : d # c => Same(d)
  BY <1>1 DEF ServerInv, StreamTypes, Same
<1>6. Connection(c)
  BY DEF ServerInv
<1>7. PICK n : Stream(wire[c], reading[c], <<>>, sent[c], handled[c], n)
  BY <1>1, <1>6 DEF Connection, ConnectionIs, IsStream
<1>8. Stream(wire[c], reading[c], Pieces(frame), sent[c], handled[c], n)
  BY <1>7, StreamStarts
<1>9. IsStream(wire[c], reading[c], Pieces(frame), sent[c], handled[c])
  BY <1>2, <1>8 DEF IsStream
<1>10. sending'[c] = Pieces(frame)
  BY <1>1 DEF ServerInv, StreamTypes
<1>11. Connection(c)'
  BY <1>1, <1>6, <1>9, <1>10 DEF Connection, ConnectionIs
<1> QED
  BY <1>3, <1>4, <1>5, <1>11, OneMoves

LEMMA PeerSendsKeepsInv ==
  ASSUME ServerInv, NEW c \in Conns, PeerSends(c)
  PROVE  ServerInv'
<1> DEFINE sd == sending[c]
           w2 == Append(wire[c], Head(sd))
           st2 == IF Len(sd) = 1 THEN Append(sent[c], sd[1].frame) ELSE sent[c]
<1>1. /\ UNCHANGED <<listening, phase, outcome, watermark, reading, timer, age, fin, handled>>
      /\ wire' = [wire EXCEPT ![c] = w2]
      /\ sending' = [sending EXCEPT ![c] = Tail(sd)]
      /\ sent' = [sent EXCEPT ![c] = st2]
      /\ phase[c] # "ended" /\ sd # <<>>
  BY DEF PeerSends, serverVars
<1>2. /\ sd \in Seq(PieceSet) /\ wire[c] \in Seq(PieceSet) /\ sent[c] \in Seq(PeerFrames)
      /\ handled[c] \in Seq(PeerFrames) /\ reading[c] \in Readings
  BY DEF ServerInv, StreamTypes
<1>3. Head(sd) = sd[1] /\ Head(sd) \in PieceSet /\ Tail(sd) \in Seq(PieceSet)
  BY <1>1, <1>2, HeadTailProperties
<1>4. w2 \in Seq(PieceSet)
  BY <1>2, <1>3, AppendProperties
<1>5. st2 \in Seq(PeerFrames)
  <2>1. sd[1].frame \in PeerFrames
    BY <1>3 DEF PieceSet
  <2> QED
    BY <1>2, <2>1, AppendProperties
<1>6. Connection(c)
  BY DEF ServerInv
<1>7. PICK n : Stream(wire[c], reading[c], sd, sent[c], handled[c], n)
  BY <1>1, <1>6 DEF Connection, ConnectionIs, IsStream
<1>8. Rest(sd)
  BY <1>1, <1>6 DEF Connection, ConnectionIs, IsStream
<1>9. /\ Rest(Tail(sd))
      /\ \E m : Stream(w2, reading[c], Tail(sd), st2, handled[c], m)
  BY <1>1, <1>2, <1>7, <1>8, StreamGrows
<1> HIDE DEF w2, st2, sd
<1>10. TypeOK'
  BY <1>1 DEF ServerInv, TypeOK
<1>11. StreamTypes'
  BY <1>1, <1>3, <1>4, <1>5 DEF ServerInv, StreamTypes
<1>12. \A d \in Conns : d # c => Same(d)
  BY <1>1 DEF ServerInv, StreamTypes, Same
<1>13. wire'[c] = w2 /\ sending'[c] = Tail(sd) /\ sent'[c] = st2
  BY <1>1 DEF ServerInv, StreamTypes
<1>14. outcome[c] # "clean"
  BY <1>1 DEF ServerInv, TypeOK
<1>15. Connection(c)'
  BY <1>1, <1>6, <1>9, <1>13, <1>14 DEF Connection, ConnectionIs, IsStream
<1> QED
  BY <1>10, <1>11, <1>12, <1>15, OneMoves

LEMMA PeerEndsKeepsInv ==
  ASSUME ServerInv, NEW c \in Conns, PeerEnds(c)
  PROVE  ServerInv'
<1>1. /\ UNCHANGED <<listening, phase, outcome, watermark, reading, timer, age, wire, sending, sent, handled>>
      /\ \E how \in {"closed", "reset"} : fin' = [fin EXCEPT ![c] = how]
  BY DEF PeerEnds, serverVars
<1> QED
  BY <1>1 DEF ServerInv, TypeOK, StreamTypes, Connection

-----------------------------------------------------------------------------
(* read_frame has a header: an error, or a frame whose payload comes next. *)
LEMMA ReadHeaderKeepsInv ==
  ASSUME ServerInv, NEW c \in Conns, ReadHeader(c)
  PROVE  ServerInv'
<1> DEFINE w == wire[c]
           frame == w[2].frame
           w2 == SubSeq(w, 3, Len(w))
<1>1. /\ UNCHANGED <<listening, timer, age, sending, fin, sent, handled, watermark>>
      /\ wire' = [wire EXCEPT ![c] = w2]
      /\ phase[c] \in {"ack", "serving"} /\ reading[c] = <<>>
      /\ Len(w) >= 2 /\ w[2].part = "header"
      /\ \/ reading' = [reading EXCEPT ![c] = <<frame>>] /\ UNCHANGED <<phase, outcome>>
         \/ /\ phase' = [phase EXCEPT ![c] = "ended"]
            /\ outcome' = [outcome EXCEPT ![c] = "error"]
            /\ UNCHANGED reading
  BY DEF ReadHeader, End, peerVars, Awaits, HeaderArrived
<1>2. /\ w \in Seq(PieceSet) /\ sent[c] \in Seq(PeerFrames) /\ handled[c] \in Seq(PeerFrames)
  BY DEF ServerInv, StreamTypes
<1>3. w2 \in Seq(PieceSet) /\ frame \in PeerFrames
  <2>1. Len(w) \in Nat /\ \A i \in 1 .. Len(w) : w[i] \in PieceSet
    BY <1>2, LenProperties, ElementOfSeq
  <2>2. 2 \in 1 .. Len(w)
    BY <1>1, <2>1
  <2>3. w[2] \in PieceSet
    BY <2>1, <2>2
  <2>4. \A i \in 3 .. Len(w) : w[i] \in PieceSet
    BY <2>1
  <2> QED
    BY <2>1, <2>3, <2>4, SubSeqProperties DEF PieceSet
<1>4. Connection(c)
  BY DEF ServerInv
<1>5. PICK n : Stream(w, <<>>, sending[c], sent[c], handled[c], n)
  BY <1>1, <1>4 DEF Connection, ConnectionIs, IsStream
<1>6. \E m : Stream(w2, <<frame>>, sending[c], sent[c], handled[c], m)
  BY <1>1, <1>2, <1>5, StreamReadsHeader
<1>7. Rest(sending[c])
  BY <1>1, <1>4 DEF Connection, ConnectionIs, IsStream
<1> HIDE DEF w, w2, frame
<1>8. IsStream(w2, <<frame>>, sending[c], sent[c], handled[c])
  BY <1>6, <1>7 DEF IsStream
<1>9. <<frame>> \in Readings /\ Len(<<frame>>) = 1
  BY <1>3 DEF Readings
<1>10. StreamTypes'
  BY <1>1, <1>3, <1>9 DEF ServerInv, StreamTypes
<1>11. TypeOK'
  <2>1. CASE reading' = [reading EXCEPT ![c] = <<frame>>] /\ UNCHANGED <<phase, outcome>>
    <3>1. \A d \in Conns : Len(reading'[d]) \in 0 .. 1
      BY <1>9, <2>1 DEF ServerInv, TypeOK, StreamTypes
    <3> QED
      BY <1>1, <2>1, <3>1 DEF ServerInv, TypeOK
  <2>2. CASE /\ phase' = [phase EXCEPT ![c] = "ended"]
             /\ outcome' = [outcome EXCEPT ![c] = "error"]
             /\ UNCHANGED reading
    BY <1>1, <2>2 DEF ServerInv, TypeOK
  <2> QED
    BY <1>1, <2>1, <2>2
<1>12. \A d \in Conns : d # c => Same(d)
  BY <1>1 DEF ServerInv, TypeOK, StreamTypes, Same
<1>13. wire'[c] = w2 /\ outcome[c] = "none"
  BY <1>1 DEF ServerInv, TypeOK, StreamTypes
<1>14. Connection(c)'
  <2>1. CASE reading' = [reading EXCEPT ![c] = <<frame>>] /\ UNCHANGED <<phase, outcome>>
    <3>1. reading'[c] = <<frame>>
      BY <2>1 DEF ServerInv, StreamTypes
    <3> QED
      BY <1>1, <1>4, <1>8, <1>13, <2>1, <3>1 DEF Connection, ConnectionIs
  <2>2. CASE /\ phase' = [phase EXCEPT ![c] = "ended"]
             /\ outcome' = [outcome EXCEPT ![c] = "error"]
             /\ UNCHANGED reading
    <3>1. phase'[c] = "ended" /\ outcome'[c] = "error"
      BY <2>2 DEF ServerInv, TypeOK
    <3> QED
      BY <1>1, <1>4, <3>1 DEF Connection, ConnectionIs
  <2> QED
    BY <1>1, <2>1, <2>2
<1> QED
  BY <1>10, <1>11, <1>12, <1>14, OneMoves

(* One more frame handled: a ticket becomes the last, another frame leaves *)
(* it.                                                                     *)
LEMMA AckIsNoTicket ==
  ASSUME NEW frame \in PeerFrames
  PROVE  Len(Append(<<>>, frame)) = 1 /\ LastTicket(0, Append(<<>>, frame))
<1>1. Len(Append(<<>>, frame)) = 1
  BY NoBytes, AppendProperties
<1>2. 2 .. 1 = {}
  OBVIOUS
<1> QED
  BY <1>1, <1>2 DEF LastTicket

LEMMA TicketIsLast ==
  ASSUME NEW hd \in Seq(PeerFrames), Len(hd) >= 1, NEW frame \in PeerFrames, NEW mark,
         LastTicket(mark, hd)
  PROVE  /\ Len(Append(hd, frame)) >= 1
         /\ IsTicket(frame) => LastTicket(frame.nonce, Append(hd, frame))
         /\ ~IsTicket(frame) => LastTicket(mark, Append(hd, frame))
<1> DEFINE more == Append(hd, frame)
           h == Len(hd)
           Ticket(f) == f.type = "TicketRequest" /\ f.decodes
           old == {i \in 2 .. h : Ticket(hd[i])}
           new == {i \in 2 .. h + 1 : Ticket(more[i])}
<1>1. h \in Nat /\ h >= 1
  BY LenProperties
<1>2. Len(more) = h + 1 /\ more[h + 1] = frame /\ \A i \in 1 .. h : more[i] = hd[i]
  BY AppendProperties
<1>3. (old = {} /\ mark = 0) \/ \E i \in old : (\A j \in old : j <= i) /\ mark = hd[i].nonce
  BY DEF LastTicket
<1>4. IsTicket(frame) <=> Ticket(frame)
  BY DEF IsTicket
<1>5. \A m : LastTicket(m, more) <=>
        (new = {} /\ m = 0) \/ \E i \in new : (\A j \in new : j <= i) /\ m = more[i].nonce
  BY <1>2 DEF LastTicket
<1> HIDE DEF h, more, Ticket
<1>6. /\ \A i \in 2 .. h + 1 : i = h + 1 \/ i \in 2 .. h
      /\ \A i \in 2 .. h : i \in 1 .. h /\ i \in 2 .. h + 1 /\ i <= h + 1
      /\ h + 1 \in 2 .. h + 1
  BY <1>1
<1>7. CASE Ticket(frame)
  <2>1. h + 1 \in new /\ \A j \in new : j <= h + 1
    BY <1>1, <1>2, <1>6, <1>7
  <2>2. LastTicket(frame.nonce, more)
    BY <1>2, <1>5, <2>1
  <2> QED
    BY <1>1, <1>2, <1>4, <1>7, <2>2 DEF more
<1>8. CASE ~Ticket(frame)
  <2>1. \A i \in old : i \in new /\ more[i] = hd[i]
    BY <1>2, <1>6
  <2>2. \A i \in new : i \in old
    BY <1>2, <1>6, <1>8
  <2>3. new = old
    BY <2>1, <2>2
  <2> HIDE DEF new, old
  <2>4. (new = {} /\ mark = 0) \/ \E i \in new : (\A j \in new : j <= i) /\ mark = more[i].nonce
    BY <1>3, <2>1, <2>3
  <2>5. LastTicket(mark, more)
    BY <1>5, <2>4 DEF new
  <2> QED
    BY <1>1, <1>2, <1>4, <1>8, <2>5 DEF more
<1> QED
  BY <1>7, <1>8

(* read_frame has a whole frame, and the task acts on it.                  *)
LEMMA ReadPayloadKeepsInv ==
  ASSUME ServerInv, NEW c \in Conns, ReadPayload(c)
  PROVE  ServerInv'
<1> DEFINE frame == reading[c][1]
           w2 == IF frame.len = 0 THEN wire[c] ELSE Tail(wire[c])
           hd2 == Append(handled[c], frame)
<1>1. /\ UNCHANGED <<listening, timer, age, sending, fin, sent>>
      /\ wire' = [wire EXCEPT ![c] = w2]
      /\ reading' = [reading EXCEPT ![c] = <<>>]
      /\ handled' = [handled EXCEPT ![c] = hd2]
      /\ phase[c] \in {"ack", "serving"} /\ reading[c] # <<>>
      /\ frame.len = 0 \/ wire[c] # <<>>
      /\ Handle(c, frame)
  BY DEF ReadPayload, peerVars, Awaits, PayloadArrived
<1>2. /\ wire[c] \in Seq(PieceSet) /\ sent[c] \in Seq(PeerFrames) /\ handled[c] \in Seq(PeerFrames)
      /\ reading[c] \in Readings
  BY DEF ServerInv, StreamTypes
<1>3. frame \in PeerFrames /\ reading[c] = <<frame>>
  BY <1>1, <1>2 DEF Readings
<1>4. Connection(c)
  BY DEF ServerInv
<1>5. PICK n : Stream(wire[c], <<frame>>, sending[c], sent[c], handled[c], n)
  BY <1>1, <1>3, <1>4 DEF Connection, ConnectionIs, IsStream
<1>6. Rest(sending[c])
  BY <1>1, <1>4 DEF Connection, ConnectionIs, IsStream
<1>7. frame.len = 0 \/ Len(wire[c]) > 0
  <2>1. Len(wire[c]) \in Nat
    BY <1>2, LenProperties
  <2>2. wire[c] # <<>> => Len(wire[c]) # 0
    BY <1>2, EmptySeq
  <2> QED
    BY <1>1, <2>1, <2>2
<1>8. w2 \in Seq(PieceSet)
  BY <1>1, <1>2, HeadTailProperties
<1>9. hd2 \in Seq(PeerFrames)
  BY <1>2, <1>3, AppendProperties
<1>10. frame.nonce \in 0 .. MaxUint64
  BY <1>3, ServerAssumption DEF Frames
<1> HIDE DEF frame
<1>11. \E m : Stream(w2, <<>>, sending[c], sent[c], hd2, m)
  BY <1>2, <1>3, <1>5, <1>7, StreamReadsPayload
<1>12. handled[c] = <<>> => Len(hd2) = 1 /\ LastTicket(0, hd2)
  BY <1>3, AckIsNoTicket
<1>13. phase[c] = "serving" => Len(hd2) >= 1 /\ (IsTicket(frame) => LastTicket(frame.nonce, hd2))
                               /\ (~IsTicket(frame) => LastTicket(watermark[c], hd2))
  <2>1. phase[c] = "serving" => Len(handled[c]) >= 1 /\ LastTicket(watermark[c], handled[c])
    BY <1>4 DEF Connection, ConnectionIs
  <2> QED
    BY <1>2, <1>3, <2>1, TicketIsLast
<1> HIDE DEF w2, hd2
<1>14. IsStream(w2, <<>>, sending[c], sent[c], hd2)
  BY <1>6, <1>11 DEF IsStream
<1>15. \/ /\ phase[c] = "ack" /\ phase' = [phase EXCEPT ![c] = "serving"] /\ UNCHANGED <<outcome, watermark>>
       \/ /\ phase[c] = "serving" /\ IsTicket(frame)
          /\ watermark' = [watermark EXCEPT ![c] = frame.nonce] /\ UNCHANGED <<phase, outcome>>
       \/ phase[c] = "serving" /\ ~IsTicket(frame) /\ UNCHANGED <<phase, outcome, watermark>>
       \/ \E how \in {"error", "panic"} :
            /\ phase' = [phase EXCEPT ![c] = "ended"]
            /\ outcome' = [outcome EXCEPT ![c] = how]
            /\ UNCHANGED watermark
  BY <1>1 DEF Handle, End, SeenNonce
<1>16. StreamTypes'
  BY <1>1, <1>8, <1>9, NoBytes DEF ServerInv, StreamTypes
<1>17. TypeOK'
  <2>1. \A d \in Conns : Len(reading'[d]) \in 0 .. 1
    BY <1>1, NoBytes DEF ServerInv, TypeOK, StreamTypes
  <2> DEFINE Phases == {"none", "init", "ack", "serving", "ended"}
             Outcomes == {"none", "clean", "error", "timeout", "panic"}
  <2>2. phase \in [Conns -> Phases] /\ outcome \in [Conns -> Outcomes]
        /\ watermark \in [Conns -> 0 .. MaxUint64]
    BY DEF ServerInv, TypeOK
  <2>3. phase' \in [Conns -> Phases]
    <3>1. "serving" \in Phases /\ "ended" \in Phases
      OBVIOUS
    <3> HIDE DEF Phases
    <3> QED
      BY <1>15, <2>2, <3>1
  <2>4. outcome' \in [Conns -> Outcomes]
    <3>1. "error" \in Outcomes /\ "panic" \in Outcomes
      OBVIOUS
    <3> HIDE DEF Outcomes
    <3> QED
      BY <1>15, <2>2, <3>1
  <2>5. watermark' \in [Conns -> 0 .. MaxUint64]
    BY <1>10, <1>15, <2>2
  <2>6. \A d \in Conns : phase'[d] = "ended" <=> outcome'[d] # "none"
    BY <1>1, <1>15 DEF ServerInv, TypeOK
  <2> QED
    BY <1>1, <2>1, <2>3, <2>4, <2>5, <2>6 DEF ServerInv, TypeOK
<1>18. \A d \in Conns : d # c => Same(d)
  BY <1>1, <1>15 DEF ServerInv, TypeOK, StreamTypes, Same
<1>19. /\ wire'[c] = w2 /\ reading'[c] = <<>> /\ handled'[c] = hd2
       /\ outcome[c] = "none"
  BY <1>1 DEF ServerInv, TypeOK, StreamTypes
<1>20. /\ outcome'[c] # "clean"
       /\ \/ phase'[c] = "ended"
          \/ /\ phase'[c] = "serving" /\ phase[c] = "ack" /\ watermark'[c] = watermark[c]
          \/ /\ phase'[c] = "serving" /\ phase[c] = "serving"
             /\ watermark'[c] = IF IsTicket(frame) THEN frame.nonce ELSE watermark[c]
  BY <1>1, <1>15, <1>19 DEF ServerInv, TypeOK
<1>21. phase'[c] = "serving" => Len(hd2) >= 1 /\ LastTicket(watermark'[c], hd2)
  <2>1. phase[c] = "ack" => handled[c] = <<>> /\ watermark[c] = 0
    BY <1>4 DEF Connection, ConnectionIs
  <2> QED
    BY <1>12, <1>13, <1>20, <2>1
<1>22. Connection(c)'
  BY <1>1, <1>14, <1>19, <1>20, <1>21 DEF Connection, ConnectionIs
<1> QED
  BY <1>16, <1>17, <1>18, <1>22, OneMoves

-----------------------------------------------------------------------------
LEMMA NextKeepsServerInv == ServerInv /\ [Next]_vars => ServerInv'
<1> SUFFICES ASSUME ServerInv, [Next]_vars PROVE ServerInv'
  OBVIOUS
<1>1. CASE UNCHANGED vars
  BY <1>1 DEF vars, serverVars, peerVars, ServerInv, TypeOK, StreamTypes, Connection
<1>2. CASE AcceptFails
  BY <1>2 DEF AcceptFails, serverVars, peerVars, ServerInv, TypeOK, StreamTypes, Connection
<1>3. CASE Tick
  BY <1>3, TickKeepsInv
<1>4. ASSUME NEW c \in Conns, Accept(c) \/ Task(c) \/ Peer(c)
      PROVE  ServerInv'
  <2>1. CASE Accept(c)
    BY <2>1, AcceptKeepsInv
  <2>2. CASE Task(c)
    BY <2>2, SendInitKeepsInv, EndsKeepInv, ReadHeaderKeepsInv, ReadPayloadKeepsInv DEF Task, Polled
  <2>3. CASE Peer(c)
    BY <2>3, PeerStartsKeepsInv, PeerSendsKeepsInv, PeerEndsKeepsInv DEF Peer
  <2> QED
    BY <1>4, <2>1, <2>2, <2>3
<1> QED
  BY <1>1, <1>2, <1>3, <1>4 DEF Next

LEMMA ServerInvariance == Spec => []ServerInv
<1> QED
  BY InitServerInv, NextKeepsServerInv, PTL DEF Spec

(* The state of every connection keeps its types (transport.rs,            *)
(* handle_connection), and a task has ended exactly when it has an outcome.*)
THEOREM ServerTypesAreKept == Spec => []TypeOK
<1>1. ServerInv => TypeOK
  BY DEF ServerInv
<1> QED
  BY <1>1, ServerInvariance, PTL

(* A peer that stalls holds the handshake no longer than the timeouts of   *)
(* transport.rs:150 and 155, however it slices its ack: the clock of       *)
(* neither is started again by what arrives.                               *)
THEOREM StallsAreBounded == Spec => []HandshakeWithinBudget
<1>1. ServerInv => HandshakeWithinBudget
  <2> SUFFICES ASSUME ServerInv, NEW c \in Shaking
               PROVE  age[c] <= IF phase[c] = "init" THEN HANDSHAKE_TIMEOUT
                                ELSE 2 * HANDSHAKE_TIMEOUT
    BY DEF HandshakeWithinBudget
  <2>1. /\ c \in Conns /\ phase[c] \in {"init", "ack"} /\ Connection(c)
        /\ timer[c] \in 0 .. HANDSHAKE_TIMEOUT /\ age[c] \in Nat
    BY DEF ServerInv, TypeOK, StreamTypes, Shaking
  <2>2. /\ phase[c] = "init" => age[c] = timer[c]
        /\ phase[c] = "ack" => age[c] <= HANDSHAKE_TIMEOUT + timer[c]
    BY <2>1 DEF Connection, ConnectionIs
  <2> QED
    BY <2>1, <2>2, ServerAssumption
<1> QED
  BY <1>1, ServerInvariance, PTL

(* A session whose peer closed between frames, or within a header, has     *)
(* handled every frame the peer sent completely, in that order, however    *)
(* TCP cut them into pieces (transport.rs, read_frame and the loop of      *)
(* handle_connection).                                                     *)
THEOREM CleanEndsAreComplete == Spec => []CleanEndLosesNothing
<1>1. ServerInv => CleanEndLosesNothing
  BY DEF ServerInv, Connection, ConnectionIs, CleanEndLosesNothing
<1> QED
  BY <1>1, ServerInvariance, PTL

(* The session's last_nonce is that of the last ticket handled since the   *)
(* ack (transport.rs, the TicketRequest arm); other frames leave it alone. *)
THEOREM WatermarkFollowsTickets == Spec => []WatermarkIsLastTicket
<1>1. ServerInv => WatermarkIsLastTicket
  BY DEF ServerInv, Connection, ConnectionIs, LastTicket, WatermarkIsLastTicket
<1> QED
  BY <1>1, ServerInvariance, PTL

=============================================================================
