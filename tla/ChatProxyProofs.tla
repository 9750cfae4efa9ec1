--------------------------- MODULE ChatProxyProofs ---------------------------
(***************************************************************************)
(* The HTTP proxy, for every set of requests, every capacity of the token  *)
(* channel and every length of an answer.                                  *)
(***************************************************************************)
EXTENDS ChatProxy, SequenceTheorems, TLAPS

Bodies == {"none", "streaming", "reading", "done", "dropped"}
Engines == {"idle", "running", "sending", "ok", "failed"}

ProxyTypeOK ==
  /\ engine \in [Requests -> Engines]
  /\ channel \in [Requests -> Seq(Nat)]
  /\ body \in [Requests -> Bodies]
  /\ tokens \in [Requests -> Nat]
  /\ chunks \in [Requests -> Seq(Nat)]

(* What the HTTP client has and what the channel holds are, one after the  *)
(* other, the tokens sent so far, while the body streams.                  *)
Counts(s, from) == \A i \in 1 .. Len(s) : s[i] = from + i

Streaming(r) ==
  /\ Counts(chunks[r], 0)
  /\ Counts(channel[r], Len(chunks[r]))
  /\ Len(chunks[r]) + Len(channel[r]) = tokens[r]

InOrder(r) ==
  /\ Len(channel[r]) <= Capacity
  /\ body[r] = "none" => engine[r] = "idle" /\ Streaming(r)
  /\ Open(r) => Streaming(r)
  /\ body[r] = "dropped" => Counts(chunks[r], 0) /\ channel[r] = <<>>
  /\ body[r] = "done" =>
       /\ ~Working(r)
       /\ chunks[r] = Append([i \in 1 .. tokens[r] |-> i], DONE)
       /\ channel[r] = <<>>

IInv == ProxyTypeOK /\ \A r \in Requests : InOrder(r)

-----------------------------------------------------------------------------
(* A sequence that counts from one is the function that maps i to i.       *)
LEMMA CountingIsIdentity ==
  ASSUME NEW s \in Seq(Nat), Counts(s, 0)
  PROVE  s = [i \in 1 .. Len(s) |-> i]
<1>1. s = [i \in 1 .. Len(s) |-> s[i]] /\ Len(s) \in Nat
  OBVIOUS
<1>2. \A i \in 1 .. Len(s) : s[i] = i
  BY <1>1 DEF Counts
<1> QED
  BY <1>1, <1>2

(* Appending the next number keeps a sequence counting.                    *)
LEMMA AppendCounts ==
  ASSUME NEW s \in Seq(Nat), NEW from \in Nat, NEW n \in Nat,
         Counts(s, from), n = from + Len(s) + 1
  PROVE  Counts(Append(s, n), from)
BY AppendProperties DEF Counts

(* So does taking the first one away.                                      *)
LEMMA TailCounts ==
  ASSUME NEW s \in Seq(Nat), NEW from \in Nat, s # <<>>, Counts(s, from)
  PROVE  /\ Head(s) = from + 1 /\ Len(Tail(s)) = Len(s) - 1
         /\ Tail(s) \in Seq(Nat) /\ Len(s) \in Nat \ {0}
         /\ Counts(Tail(s), from + 1)
<1>1. Len(s) \in Nat \ {0} /\ Head(s) = s[1]
  OBVIOUS
<1>2. Tail(s) \in Seq(Nat) /\ Len(Tail(s)) = Len(s) - 1
      /\ \A i \in 1 .. Len(Tail(s)) : Tail(s)[i] = s[i + 1]
  BY HeadTailProperties
<1> QED
  BY <1>1, <1>2 DEF Counts

-----------------------------------------------------------------------------
LEMMA InitIInv == Init => IInv
BY ProxyAssumption DEF Init, IInv, ProxyTypeOK, InOrder, Streaming, Counts, Bodies, Engines, Open

(* A step of one request leaves the others alone.                          *)
LEMMA OthersUntouched ==
  ASSUME NEW r \in Requests, IInv, ProxyTypeOK', InOrder(r)',
         \A o \in Requests \ {r} :
           /\ engine'[o] = engine[o] /\ channel'[o] = channel[o] /\ body'[o] = body[o]
           /\ tokens'[o] = tokens[o] /\ chunks'[o] = chunks[o]
  PROVE  IInv'
<1>1. ASSUME NEW o \in Requests \ {r} PROVE InOrder(o)'
  BY DEF IInv, InOrder, Streaming, Open, Working
<1> QED
  BY <1>1 DEF IInv

LEMMA SendKeepsIInv ==
  ASSUME IInv, NEW r \in Requests, EngineSends(r)
  PROVE  IInv'
<1> DEFINE n == tokens[r] + 1
<1>1. n \in Nat /\ Open(r) /\ Streaming(r) /\ Len(channel[r]) < Capacity
  BY DEF EngineSends, Room, IInv, ProxyTypeOK, InOrder
<1>2. channel[r] \in Seq(Nat) /\ chunks[r] \in Seq(Nat) /\ Len(chunks[r]) \in Nat
  BY DEF IInv, ProxyTypeOK
<1>3. /\ channel' = [channel EXCEPT ![r] = Append(channel[r], n)]
      /\ tokens' = [tokens EXCEPT ![r] = n]
      /\ engine' = [engine EXCEPT ![r] = "running"]
      /\ UNCHANGED <<body, chunks>>
  BY DEF EngineSends
<1>4. ProxyTypeOK'
  <2>1. Append(channel[r], n) \in Seq(Nat)
    BY <1>1, <1>2
  <2> HIDE DEF n
  <2> QED
    BY <1>1, <1>3, <2>1 DEF IInv, ProxyTypeOK, Engines
<1>5. InOrder(r)'
  <2>1. channel'[r] = Append(channel[r], n) /\ tokens'[r] = n
    BY <1>3 DEF IInv, ProxyTypeOK
  <2>2. n = Len(chunks[r]) + Len(channel[r]) + 1
    BY <1>1 DEF Streaming
  <2>3. Counts(Append(channel[r], n), Len(chunks[r]))
    BY <1>1, <1>2, <2>2, AppendCounts DEF Streaming
  <2>4. n \in Nat
    BY <1>1
  <2> HIDE DEF n
  <2>6. Len(channel'[r]) = Len(channel[r]) + 1 /\ Len(channel[r]) \in Nat
    <3>1. \A s : s = Append(channel[r], n) => Len(s) = Len(channel[r]) + 1
      BY <1>2, <2>4
    <3> QED
      BY <1>2, <2>1, <3>1
  <2>5. Streaming(r)'
    <3>1. Counts(chunks[r], 0)' /\ Counts(channel[r], Len(chunks[r]))'
      BY <1>1, <1>3, <2>1, <2>3 DEF Streaming, Counts
    <3>2. (Len(chunks[r]) + Len(channel[r]) = tokens[r])'
      BY <1>2, <1>3, <1>4, <2>1, <2>2, <2>6 DEF IInv, ProxyTypeOK
    <3> QED
      BY <3>1, <3>2 DEF Streaming, Counts
  <2> QED
    BY <1>1, <1>3, <2>6, <2>5, ProxyAssumption DEF InOrder, Open
<1> QED
  BY <1>3, <1>4, <1>5, OthersUntouched DEF IInv, ProxyTypeOK

LEMMA YieldKeepsIInv ==
  ASSUME IInv, NEW r \in Requests, BodyYields(r)
  PROVE  IInv'
<1> DEFINE first == Head(channel[r])
<1>1. body[r] = "reading" /\ Streaming(r) /\ channel[r] # <<>> /\ Len(channel[r]) <= Capacity
  BY DEF BodyYields, IInv, InOrder, Open
<1>2. channel[r] \in Seq(Nat) /\ chunks[r] \in Seq(Nat) /\ Len(chunks[r]) \in Nat /\ tokens[r] \in Nat
  BY DEF IInv, ProxyTypeOK
<1>3. /\ channel' = [channel EXCEPT ![r] = Tail(channel[r])]
      /\ chunks' = [chunks EXCEPT ![r] = Append(chunks[r], first)]
      /\ body' = [body EXCEPT ![r] = "streaming"]
      /\ UNCHANGED <<engine, tokens>>
  BY DEF BodyYields
<1>4. /\ first = Len(chunks[r]) + 1 /\ Len(Tail(channel[r])) = Len(channel[r]) - 1
      /\ Tail(channel[r]) \in Seq(Nat) /\ Len(channel[r]) \in Nat \ {0}
      /\ Counts(Tail(channel[r]), Len(chunks[r]) + 1)
  BY <1>1, <1>2, TailCounts DEF Streaming
<1> HIDE DEF first
<1>5. /\ Append(chunks[r], first) \in Seq(Nat)
      /\ Len(Append(chunks[r], first)) = Len(chunks[r]) + 1
      /\ Counts(Append(chunks[r], first), 0)
  BY <1>1, <1>2, <1>4, AppendCounts DEF Streaming
<1>6. ProxyTypeOK'
  BY <1>3, <1>4, <1>5 DEF IInv, ProxyTypeOK, Bodies
<1>7. InOrder(r)'
  <2>1. channel'[r] = Tail(channel[r]) /\ chunks'[r] = Append(chunks[r], first)
        /\ body'[r] = "streaming"
    BY <1>3 DEF IInv, ProxyTypeOK
  <2>2. Streaming(r)'
    <3>1. Counts(chunks[r], 0)' /\ Counts(channel[r], Len(chunks[r]))'
      BY <1>4, <1>5, <2>1 DEF Counts
    <3>2. (Len(chunks[r]) + Len(channel[r]) = tokens[r])'
      BY <1>1, <1>2, <1>3, <1>4, <1>5, <1>6, <2>1 DEF Streaming, IInv, ProxyTypeOK
    <3> QED
      BY <3>1, <3>2 DEF Streaming, Counts
  <2> QED
    BY <1>1, <1>4, <2>1, <2>2, ProxyAssumption DEF InOrder
<1> QED
  BY <1>3, <1>6, <1>7, OthersUntouched DEF IInv, ProxyTypeOK

LEMMA EndKeepsIInv ==
  ASSUME IInv, NEW r \in Requests, BodyEnds(r)
  PROVE  IInv'
<1>1. /\ body[r] = "reading" /\ Streaming(r) /\ channel[r] = <<>> /\ ~Working(r)
      /\ body' = [body EXCEPT ![r] = "done"]
      /\ chunks' = [chunks EXCEPT ![r] = Append(chunks[r], DONE)]
      /\ UNCHANGED <<engine, channel, tokens>>
  BY DEF BodyEnds, Drained, IInv, InOrder, Open
<1>2. chunks[r] \in Seq(Nat) /\ Append(chunks[r], DONE) \in Seq(Nat)
  BY DEF IInv, ProxyTypeOK, DONE
<1>3. ProxyTypeOK'
  BY <1>1, <1>2 DEF IInv, ProxyTypeOK, Bodies
<1>4. chunks[r] = [i \in 1 .. tokens[r] |-> i]
  <2>1. Len(chunks[r]) = tokens[r] /\ Counts(chunks[r], 0)
    BY <1>1, <1>2 DEF Streaming
  <2> QED
    BY <1>2, <2>1, CountingIsIdentity
<1>5. InOrder(r)'
  BY <1>1, <1>4, ProxyAssumption DEF IInv, ProxyTypeOK, InOrder, Open, Working
<1> QED
  BY <1>1, <1>3, <1>5, OthersUntouched DEF IInv, ProxyTypeOK

(* The steps that move no token.                                           *)
EngineMoves(r) == EngineTries(r) \/ EngineEnds(r) \/ EngineIsTold(r)

LEMMA QuietStepsKeepIInv ==
  ASSUME IInv, NEW r \in Requests,
         chat_completions(r) \/ EngineMoves(r) \/ BodyPolled(r) \/ Disconnect(r)
  PROVE  IInv'
<1>0. ASSUME EngineMoves(r)
      PROVE  /\ Working(r) /\ UNCHANGED <<channel, body, tokens, chunks>>
             /\ \E e \in Engines : engine' = [engine EXCEPT ![r] = e]
  BY <1>0 DEF EngineMoves, EngineTries, EngineEnds, EngineIsTold, Working, Engines
<1>1. ProxyTypeOK'
  <2>1. CASE chat_completions(r) \/ BodyPolled(r)
    BY <2>1 DEF IInv, ProxyTypeOK, Bodies, Engines, chat_completions, BodyPolled
  <2>2. CASE EngineMoves(r)
    BY <2>2, <1>0 DEF IInv, ProxyTypeOK
  <2>3. CASE Disconnect(r)
    <3>1. <<>> \in Seq(Nat)
      OBVIOUS
    <3> QED
      BY <2>3, <3>1 DEF IInv, ProxyTypeOK, Bodies, Disconnect
  <2> QED
    BY <2>1, <2>2, <2>3
<1>2. InOrder(r)'
  <2>1. CASE chat_completions(r) \/ BodyPolled(r)
    BY <2>1 DEF chat_completions, BodyPolled, IInv, ProxyTypeOK, InOrder, Streaming, Open
  <2>2. CASE EngineMoves(r)
    <3>1. body[r] # "none" /\ body[r] # "done"
      BY <2>2, <1>0 DEF IInv, InOrder, Working
    <3> QED
      BY <3>1, <2>2, <1>0 DEF IInv, ProxyTypeOK, InOrder, Streaming, Open
  <2>3. CASE Disconnect(r)
    BY <2>3, ProxyAssumption DEF Disconnect, IInv, ProxyTypeOK, InOrder, Streaming, Open
  <2> QED
    BY <2>1, <2>2, <2>3
<1>3. ASSUME NEW o \in Requests \ {r}
      PROVE  /\ engine'[o] = engine[o] /\ channel'[o] = channel[o] /\ body'[o] = body[o]
             /\ tokens'[o] = tokens[o] /\ chunks'[o] = chunks[o]
  BY <1>0 DEF IInv, ProxyTypeOK, chat_completions, BodyPolled, Disconnect
<1> QED
  BY <1>1, <1>2, <1>3, OthersUntouched

LEMMA NextKeepsIInv == IInv /\ [Next]_vars => IInv'
<1> SUFFICES ASSUME IInv, [Next]_vars PROVE IInv'
  OBVIOUS
<1>1. CASE UNCHANGED vars
  BY <1>1 DEF vars, IInv, ProxyTypeOK, InOrder, Streaming, Open, Working
<1> QED
  BY <1>1, SendKeepsIInv, YieldKeepsIInv, EndKeepsIInv, QuietStepsKeepIInv
     DEF Next, EngineMoves

LEMMA Invariance == Spec => []IInv
<1> QED
  BY InitIInv, NextKeepsIInv, PTL DEF Spec

-----------------------------------------------------------------------------
(* The HTTP client gets every token the engine sent, in order, before the  *)
(* one [DONE], however reader, engine and disconnection interleave         *)
(* (proxy.rs, chat_completions), and never more than the channel's         *)
(* capacity is held back from it.                                          *)
THEOREM AnswersAreComplete == Spec => []DoneAfterEveryToken
<1>1. IInv => DoneAfterEveryToken
  <2> SUFFICES ASSUME IInv, NEW r \in Requests, body[r] # "done"
               PROVE  /\ chunks[r] = [i \in 1 .. Len(chunks[r]) |-> i]
                      /\ Len(channel[r]) <= Capacity
                      /\ Open(r) => Len(chunks[r]) + Len(channel[r]) = tokens[r]
    BY DEF IInv, InOrder, DoneAfterEveryToken
  <2>1. chunks[r] \in Seq(Nat) /\ Counts(chunks[r], 0)
    BY DEF IInv, ProxyTypeOK, Bodies, InOrder, Streaming, Open
  <2> QED
    BY <2>1, CountingIsIdentity DEF IInv, InOrder, Streaming
<1> QED
  BY <1>1, Invariance, PTL

=============================================================================
