------------------------ MODULE TicketPipelineProofs ------------------------
(***************************************************************************)
(* The payment pipeline, for every finite set of callers and every bound   *)
(* on nonces, connections, seeds and restarts.                             *)
(***************************************************************************)
EXTENDS TicketPipeline, FiniteSetTheorems, SequenceTheorems, TLAPS

Calls == [at : {"idle", "begun", "signing", "signed", "awaiting", "reading"},
          nonce : 0 .. MaxNonce, commitment : {0, Fresh}]

Messages == [type : {"TicketRequest", "HandshakeAck", "HandshakeInit", "ComputeResp"},
             nonce : 0 .. MaxNonce, commitment : {0, Fresh}]

Streams == [phase : {"none", "raw", "open"}, up : BOOLEAN, inside : BOOLEAN,
            last_nonce : 0 .. MaxNonce, halted : Seq(Messages),
            requests : Seq(Messages), responses : Seq(Messages)]

Types ==
  /\ nonce_watermark \in Nat
  /\ provider_commitment \in {0, Fresh}
  /\ task \in [Tasks -> Calls]
  /\ lock \in Tasks \union {NoTask}
  /\ shaking \in BOOLEAN
  /\ stream \in Streams
  /\ seed \in [epoch : 1 .. MaxSeeds, spent : BOOLEAN]
  /\ life \in Nat
  /\ order \in Seq(1 .. MaxNonce)
  /\ answers \subseteq [nonce : Nat, answer : Nat]
  /\ served \in Seq([life : Nat, nonce : Nat])

(* The bound on nonces counts the calls that are about to draw one.        *)
Begun == {t \in Tasks : task[t].at = "begun"}

DrawsFit == nonce_watermark + Cardinality(Begun) <= MaxNonce

Held(t) == task[t].at \in {"signing", "signed"}

Waits(t) == task[t].at \in {"awaiting", "reading"}

(* Who holds the lock waits for the answer to the last ticket written.     *)
LockIsExchange ==
  /\ \A t \in Tasks : Waits(t) <=> lock = t
  /\ lock # NoTask =>
       order # <<>> /\ order[Len(order)] = task[lock].nonce /\ task[lock].nonce \notin unread

(* The nonces drawn in this life, wherever they are now.                   *)
NoncesAreDrawn ==
  /\ \A t \in Tasks : Held(t) => task[t].nonce \in 1 .. nonce_watermark
  /\ lost \subseteq 1 .. nonce_watermark
  /\ \A i \in DOMAIN order : order[i] \in 1 .. nonce_watermark
  /\ unread \subseteq ToSet(order)

(* What a live stream still has to deliver: in an open one the tickets     *)
(* behind the watermark, in a new one all of them behind the ack.          *)
IsAck(message) == message.type = "HandshakeAck"

AckIsNext == stream.up /\ stream.requests # <<>> /\ IsAck(stream.requests[1])

RequestsFollowOrder ==
  /\ stream.phase = "none" => ~stream.up
  /\ stream.phase # "open" => stream.last_nonce = 0
  /\ shaking => stream.phase = "raw" /\ ~AckIsNext
  /\ stream.up /\ stream.phase = "raw" =>
       /\ stream.requests = <<>> => order = <<>>
       /\ AckIsNext =>
            /\ Len(stream.requests) = Len(order) + 1
            /\ \A k \in 1 .. Len(order) : stream.requests[k + 1].nonce = order[k]
  /\ stream.up /\ stream.phase = "open" =>
       /\ Len(order) = stream.last_nonce + Len(stream.requests)
       /\ \A k \in 1 .. Len(stream.requests) :
            stream.requests[k].nonce = order[stream.last_nonce + k]
       /\ \A k \in 1 .. stream.last_nonce : order[k] = k

(* No ticket that can still be served has a nonce already served.          *)
ServedAreBehind ==
  \A i \in DOMAIN served :
    /\ served[i].life <= life
    /\ served[i].life = life =>
         /\ served[i].nonce <= nonce_watermark
         /\ \A t \in Tasks : Held(t) => task[t].nonce # served[i].nonce
         /\ stream.up => \A j \in stream.last_nonce + 1 .. Len(order) :
                           order[j] # served[i].nonce

(* A rejected ticket was written, and the provider has closed the stream.  *)
HaltedWereSent ==
  \A i \in DOMAIN stream.halted :
    ~stream.up /\ \E j \in DOMAIN order : order[j] = stream.halted[i].nonce

(* The answers on their way are those to the last tickets served; none is  *)
(* before the ack.                                                         *)
ResponsesFollowOrder ==
  /\ stream.phase # "open" =>
       \A k \in DOMAIN stream.responses : stream.responses[k].type = "HandshakeInit"
  /\ Len(stream.responses) <= 1 \/ stream.phase = "open"
  /\ AckIsNext /\ stream.phase # "open" => stream.responses = <<>>
  /\ stream.phase = "open" =>
       /\ Len(stream.responses) <= stream.last_nonce /\ stream.last_nonce <= Len(order)
       /\ \A k \in 1 .. Len(stream.responses) :
            /\ stream.responses[k].type = "ComputeResp"
            /\ stream.responses[k].nonce = order[stream.last_nonce - Len(stream.responses) + k]

(* A read stands in front of a frame or inside one, and the header of an   *)
(* answer has been read only in front of that answer.                      *)
ReadsHaveAFrame ==
  /\ stream.inside => stream.responses # <<>>
  /\ \A t \in Tasks : task[t].at = "reading" =>
       stream.phase = "open" /\ ~stream.inside /\ stream.responses # <<>>

(* Every call that read its answer to the end took one frame off the       *)
(* stream, every other call at most one, and the first of those less.      *)
Alive == stream.up \/ stream.responses # <<>>

Answers == IF stream.phase = "open" THEN stream.last_nonce - Len(stream.responses) ELSE 0

LeftUpTo(m, sequence, left) == {k \in 1 .. m : sequence[k] \in left}

Over == Len(order) - (IF lock = NoTask THEN 0 ELSE 1)

CallsAreAccounted ==
  Alive =>
    /\ Over <= Answers + Cardinality(LeftUpTo(Len(order), order, unread))
    /\ unread = {} => Answers = Over /\ ~stream.inside
    /\ unread # {} => Answers <= Over - 1

(* What has been returned is off the stream.                               *)
AnswersAreBehind ==
  \A r \in answers :
    stream.phase = "open" /\ \E j \in DOMAIN order : j <= Answers /\ order[j] = r.answer

IInv ==
  /\ Types /\ DrawsFit /\ LockIsExchange /\ NoncesAreDrawn /\ NoncesAreUnique
  /\ RequestsFollowOrder /\ ServedAreBehind /\ NonceServedOnce
  /\ HaltedWereSent /\ HaltIsExplained
  /\ ResponsesFollowOrder /\ ReadsHaveAFrame /\ CallsAreAccounted
  /\ AnswersAreBehind /\ AnswersAreOwnOrLate

-----------------------------------------------------------------------------
LEMMA Constants ==
  /\ MaxNonce \in Nat /\ MaxSeeds \in Nat \ {0} /\ Fresh \in 1 .. MaxSeeds
  /\ IsFiniteSet(Tasks) /\ NoTask \notin Tasks
BY PipelineAssumption DEF Fresh

LEMMA AppendFacts ==
  ASSUME NEW S, NEW s \in Seq(S), NEW e \in S
  PROVE  /\ Append(s, e) \in Seq(S)
         /\ Len(s) \in Nat /\ DOMAIN s = 1 .. Len(s)
         /\ Len(Append(s, e)) = Len(s) + 1
         /\ DOMAIN Append(s, e) = 1 .. Len(s) + 1
         /\ \A i \in 1 .. Len(s) : Append(s, e)[i] = s[i]
         /\ Append(s, e)[Len(s) + 1] = e
BY AppendProperties, LenProperties

LEMMA TailFacts ==
  ASSUME NEW S, NEW s \in Seq(S), s # <<>>
  PROVE  /\ Head(s) = s[1] /\ Head(s) \in S
         /\ Tail(s) \in Seq(S)
         /\ Len(s) \in Nat \ {0} /\ Len(Tail(s)) = Len(s) - 1
         /\ \A i \in 1 .. Len(s) - 1 : Tail(s)[i] = s[i + 1]
BY HeadTailProperties

(* Calls that are about to draw are counted, so a draw stays in the bound. *)
LEMMA BegunIsFinite ==
  IsFiniteSet(Begun) /\ Cardinality(Begun) \in Nat
<1>1. Begun \in SUBSET Tasks
  BY DEF Begun
<1> QED
  BY <1>1, Constants, FS_Subset, FS_CardinalityType

LEMMA WatermarkFits ==
  ASSUME Types, DrawsFit
  PROVE  nonce_watermark \in 0 .. MaxNonce
BY BegunIsFinite, Constants DEF Types, DrawsFit

LEMMA AnswersAreTyped ==
  ASSUME Types
  PROVE  Answers \in Int
<1>1. stream.last_nonce \in Nat /\ Len(stream.responses) \in Nat
  BY Constants DEF Types, Streams
<1> QED
  BY <1>1 DEF Answers

LEMMA LeftAreFinite ==
  ASSUME NEW m \in Nat, NEW s, NEW c
  PROVE  /\ IsFiniteSet(LeftUpTo(m, s, c))
         /\ Cardinality(LeftUpTo(m, s, c)) \in Nat
<1>1. IsFiniteSet(1 .. m) /\ LeftUpTo(m, s, c) \in SUBSET (1 .. m)
  BY FS_Interval DEF LeftUpTo
<1> QED
  BY <1>1, FS_Subset, FS_CardinalityType

OwnOrLate(seq, left, returned) ==
  \A r \in returned :
    \E i, j \in DOMAIN seq :
      /\ seq[i] = r.nonce /\ seq[j] = r.answer
      /\ j <= i /\ i - j <= Cardinality(LeftUpTo(i - 1, seq, left))
      /\ i = j <=> LeftUpTo(i - 1, seq, left) = {}

Once(returned) == \A r, s \in returned : r.answer = s.answer => r = s

LEMMA OwnOrLateIs ==
  /\ AnswersAreOwnOrLate <=> OwnOrLate(order, unread, answers) /\ Once(answers)
  /\ AnswersAreOwnOrLate' <=> OwnOrLate(order', unread', answers') /\ Once(answers')
<1>1. AnswersAreOwnOrLate <=> OwnOrLate(order, unread, answers) /\ Once(answers)
  BY Zenon DEF AnswersAreOwnOrLate, LeftBefore, OwnOrLate, LeftUpTo, Once
<1>2. AnswersAreOwnOrLate' <=> OwnOrLate(order', unread', answers') /\ Once(answers')
  BY Zenon DEF AnswersAreOwnOrLate, LeftBefore, OwnOrLate, LeftUpTo, Once
<1> QED
  BY <1>1, <1>2

(* The parts of the invariant that a step on task and counter alone leaves *)
(* untouched.                                                              *)
StreamParts ==
  /\ RequestsFollowOrder /\ NonceServedOnce /\ HaltedWereSent /\ HaltIsExplained
  /\ ResponsesFollowOrder /\ CallsAreAccounted
  /\ AnswersAreBehind /\ AnswersAreOwnOrLate

LEMMA StreamPartsStay ==
  ASSUME StreamParts,
         UNCHANGED <<lock, shaking, stream, seed, order, unread, answers, served>>
  PROVE  StreamParts'
<1>1. RequestsFollowOrder' /\ NonceServedOnce' /\ HaltedWereSent'
  BY DEF StreamParts, RequestsFollowOrder, AckIsNext, NonceServedOnce, HaltedWereSent
<1>2. HaltIsExplained' /\ AnswersAreOwnOrLate'
  BY DEF StreamParts, HaltIsExplained, LeftGap, AnswersAreOwnOrLate, LeftBefore
<1>3. ResponsesFollowOrder' /\ AnswersAreBehind'
  BY DEF StreamParts, ResponsesFollowOrder, AckIsNext, AnswersAreBehind, Answers
<1>4. CallsAreAccounted'
  BY DEF StreamParts, CallsAreAccounted, Alive, Answers, Over, LeftUpTo
<1> QED
  BY <1>1, <1>2, <1>3, <1>4 DEF StreamParts

(* A call moves on by itself: what it held it keeps, loses or draws anew.  *)
LEMMA OwnStepKeepsIInv ==
  ASSUME IInv, NEW t \in Tasks,
         task' \in [Tasks -> Calls],
         \A u \in Tasks \ {t} : task'[u] = task[u],
         ~Waits(t) /\ ~Waits(t)',
         nonce_watermark' \in Nat, nonce_watermark' >= nonce_watermark, DrawsFit',
         Held(t)' => \/ Held(t) /\ task'[t].nonce = task[t].nonce /\ lost' = lost
                     \/ /\ task'[t].nonce = nonce_watermark + 1
                        /\ nonce_watermark' = nonce_watermark + 1 /\ lost' = lost,
         lost' = lost \/ (Held(t) /\ ~Held(t)' /\ lost' = lost \union {task[t].nonce}),
         UNCHANGED <<lock, answers, connVars, stream, gateVars, life, order, unread>>
  PROVE  IInv'
<1>1. Types'
  BY DEF IInv, Types, connVars, gateVars
<1>2. LockIsExchange'
  <2>1. \A u \in Tasks : Waits(u)' <=> Waits(u)
    BY DEF Waits
  <2>2. \A u \in Tasks : Waits(u)' => task'[u] = task[u]
    OBVIOUS
  <2> QED
    BY <2>1, <2>2, Constants DEF IInv, Types, LockIsExchange
<1>3. NoncesAreDrawn'
  <2>1. ASSUME NEW u \in Tasks, Held(u)'
        PROVE  task'[u].nonce \in 1 .. nonce_watermark'
    <3>1. Held(u) => task[u].nonce \in 1 .. nonce_watermark
      BY DEF IInv, NoncesAreDrawn
    <3>2. CASE u = t
      BY <2>1, <3>1, <3>2 DEF IInv, Types
    <3>3. CASE u # t
      BY <2>1, <3>1, <3>3 DEF IInv, Types, Held
    <3> QED
      BY <3>2, <3>3
  <2>2. lost' \subseteq 1 .. nonce_watermark'
    <3>1. lost \subseteq 1 .. nonce_watermark /\ (Held(t) => task[t].nonce \in 1 .. nonce_watermark)
      BY DEF IInv, NoncesAreDrawn
    <3>2. ASSUME NEW x \in lost'
          PROVE  x \in 1 .. nonce_watermark
      BY <3>1, <3>2
    <3>3. 1 .. nonce_watermark \subseteq 1 .. nonce_watermark'
      BY DEF IInv, Types
    <3> QED
      BY <3>2, <3>3
  <2> QED
    BY <2>1, <2>2 DEF IInv, Types, NoncesAreDrawn
<1>4. NoncesAreUnique'
  <2>1. ASSUME NEW u \in Tasks, NEW v \in Tasks, Held(u)', Held(v)',
               task'[u].nonce = task'[v].nonce
        PROVE  u = v
    <3>1. CASE u # t /\ v # t
      BY <2>1, <3>1 DEF IInv, NoncesAreUnique, Held
    <3>2. ASSUME NEW w \in Tasks \ {t}, Held(w)', Held(t)'
          PROVE  task'[w].nonce # task'[t].nonce
      <4>1. Held(w) /\ task'[w].nonce = task[w].nonce
        BY <3>2 DEF Held
      <4>2. task[w].nonce \in 1 .. nonce_watermark
        BY <4>1 DEF IInv, NoncesAreDrawn
      <4>3. Held(t) => task[w].nonce # task[t].nonce
        BY <4>1 DEF IInv, NoncesAreUnique, Held
      <4> QED
        BY <3>2, <4>1, <4>2, <4>3 DEF IInv, Types
    <3> QED
      BY <2>1, <3>1, <3>2
  <2>2. ASSUME NEW u \in Tasks, Held(u)'
        PROVE  task'[u].nonce \notin lost' \union ToSet(order)'
    <3>1. CASE Held(u) /\ task'[u].nonce = task[u].nonce
      BY <2>2, <3>1 DEF IInv, Types, NoncesAreUnique, Held
    <3>2. CASE task'[u].nonce = nonce_watermark + 1 /\ lost' = lost
      BY <3>2 DEF IInv, Types, NoncesAreDrawn, ToSet
    <3> QED
      BY <2>2, <3>1, <3>2 DEF Held
  <2>3. ToSet(order)' \intersect lost' = {} /\ IsInjective(order)'
    BY DEF IInv, NoncesAreUnique, Held
  <2> QED
    BY <2>1, <2>2, <2>3 DEF NoncesAreUnique, Held
<1>5. ServedAreBehind'
  <2> SUFFICES ASSUME NEW i \in DOMAIN served, served[i].life = life
               PROVE  /\ served[i].nonce <= nonce_watermark'
                      /\ \A u \in Tasks : Held(u)' => task'[u].nonce # served[i].nonce
    BY DEF IInv, ServedAreBehind, Held, gateVars
  <2>1. /\ served[i] \in [life : Nat, nonce : Nat] /\ served[i].nonce <= nonce_watermark
        /\ \A u \in Tasks : Held(u) => task[u].nonce # served[i].nonce
    <3>1. served \in Seq([life : Nat, nonce : Nat])
      BY DEF IInv, Types
    <3>2. served[i] \in [life : Nat, nonce : Nat]
      BY <3>1, ElementOfSeq, LenProperties
    <3> QED
      BY <3>2 DEF IInv, ServedAreBehind
  <2>2. ASSUME NEW u \in Tasks, Held(u)'
        PROVE  task'[u].nonce # served[i].nonce
    <3>1. CASE u = t
      BY <2>1, <2>2, <3>1 DEF IInv, Types
    <3>2. CASE u # t
      BY <2>1, <2>2, <3>2 DEF Held
    <3> QED
      BY <3>1, <3>2
  <2> QED
    BY <2>1, <2>2 DEF IInv, Types
<1>6. StreamParts'
  BY StreamPartsStay DEF IInv, StreamParts, connVars, gateVars
<1>7. ReadsHaveAFrame'
  BY DEF IInv, ReadsHaveAFrame, Waits
<1> QED
  BY <1>1, <1>2, <1>3, <1>4, <1>5, <1>6, <1>7 DEF IInv, StreamParts

LEMMA BeginKeepsIInv ==
  ASSUME IInv, NEW t \in Tasks, get_provider_commitment(t)
  PROVE  IInv'
<1>1. /\ task[t].at = "idle" /\ provider_commitment \in {0, Fresh}
      /\ nonce_watermark + Cardinality(Begun) < MaxNonce
      /\ task' = [task EXCEPT ![t] = [at |-> "begun", nonce |-> 0, commitment |-> provider_commitment]]
  BY DEF get_provider_commitment, Begun, IInv, Types
<1>2. task' \in [Tasks -> Calls] /\ task'[t].at = "begun"
      /\ \A u \in Tasks \ {t} : task'[u] = task[u]
  BY <1>1, Constants DEF IInv, Types, Calls
<1>3. DrawsFit'
  <2>1. Begun' = Begun \union {t} /\ t \notin Begun
    BY <1>1, <1>2 DEF Begun
  <2>2. Cardinality(Begun') = Cardinality(Begun) + 1
    BY <2>1, BegunIsFinite, FS_AddElement
  <2> QED
    BY <1>1, <2>2, BegunIsFinite, Constants
       DEF DrawsFit, get_provider_commitment, IInv, Types
<1>4. nonce_watermark' = nonce_watermark /\ lost' = lost
      /\ UNCHANGED <<lock, answers, connVars, stream, gateVars, life, order, unread>>
  BY DEF get_provider_commitment, history
<1>5. nonce_watermark' \in Nat /\ nonce_watermark' >= nonce_watermark
  BY <1>4 DEF IInv, Types
<1>6. ~Held(t)' /\ ~Waits(t) /\ ~Waits(t)'
  BY <1>1, <1>2 DEF Held, Waits
<1> QED
  BY <1>2, <1>3, <1>4, <1>5, <1>6, OwnStepKeepsIInv

LEMMA DrawKeepsIInv ==
  ASSUME IInv, NEW t \in Tasks, NextNonce(t)
  PROVE  IInv'
<1>1. /\ task[t].at = "begun" /\ nonce_watermark' = nonce_watermark + 1
      /\ task' = [task EXCEPT ![t].at = "signing", ![t].nonce = nonce_watermark + 1]
  BY DEF NextNonce
<1>2. DrawsFit' /\ nonce_watermark + 1 \in 0 .. MaxNonce
  <2>1. Begun' = Begun \ {t} /\ t \in Begun
    BY <1>1, SMTT(20) DEF Begun, IInv, Types
  <2>2. Cardinality(Begun') = Cardinality(Begun) - 1 /\ Cardinality(Begun) # 0
    BY <2>1, BegunIsFinite, FS_RemoveElement, FS_EmptySet
  <2> QED
    BY <1>1, <2>2, BegunIsFinite, Constants, SMTT(20) DEF DrawsFit, IInv, Types
<1>3. task' \in [Tasks -> Calls] /\ task'[t].at = "signing" /\ task'[t].nonce = nonce_watermark + 1
      /\ \A u \in Tasks \ {t} : task'[u] = task[u]
  BY <1>1, <1>2 DEF IInv, Types, Calls
<1>4. lost' = lost
      /\ UNCHANGED <<lock, answers, connVars, stream, gateVars, life, order, unread>>
  BY DEF NextNonce, history
<1>5. nonce_watermark' = nonce_watermark + 1 /\ nonce_watermark' \in Nat
      /\ nonce_watermark' >= nonce_watermark
  BY <1>1 DEF IInv, Types
<1>6. ~Waits(t) /\ ~Waits(t)'
  BY <1>1, <1>3 DEF Waits
<1> QED
  BY <1>2, <1>3, <1>4, <1>5, <1>6, OwnStepKeepsIInv

(* The signature is made, or the nonce is lost: while signing, or because  *)
(* the ticket finds no stream.                                             *)
LEMMA SignKeepsIInv ==
  ASSUME IInv, NEW t \in Tasks, SignOk(t) \/ SignFails(t) \/ SendFails(t)
  PROVE  IInv'
<1>1. PICK next \in {"idle", "signed"} :
      /\ task[t].at \in {"signing", "signed"} /\ task' = [task EXCEPT ![t].at = next]
      /\ nonce_watermark' = nonce_watermark
      /\ UNCHANGED <<lock, answers, connVars, stream, gateVars, life, order, unread>>
      /\ lost' = IF next = "signed" THEN lost ELSE lost \union {task[t].nonce}
  <2>1. CASE SignOk(t)
    BY <2>1 DEF SignOk, history
  <2>2. CASE SignFails(t) \/ SendFails(t)
    BY <2>2 DEF SignFails, SendFails, CanLock, Return
  <2> QED
    BY <2>1, <2>2
<1>2. task' \in [Tasks -> Calls] /\ task'[t].at = next /\ task'[t].nonce = task[t].nonce
      /\ \A u \in Tasks \ {t} : task'[u] = task[u]
  BY <1>1 DEF IInv, Types, Calls
<1>3. DrawsFit'
  <2>1. Begun' = Begun
    BY <1>1, <1>2 DEF Begun
  <2> QED
    BY <1>1, <2>1 DEF DrawsFit, IInv
<1>4. nonce_watermark' \in Nat /\ nonce_watermark' >= nonce_watermark
  BY <1>1 DEF IInv, Types
<1>5. Held(t) /\ ~Waits(t) /\ ~Waits(t)'
  BY <1>1, <1>2 DEF Held, Waits
<1>6. CASE next = "signed"
  <2>1. lost' = lost
    BY <1>1, <1>6
  <2> QED
    BY <1>1, <1>2, <1>3, <1>4, <1>5, <2>1, OwnStepKeepsIInv
<1>7. CASE next = "idle"
  <2>1. ~Held(t)' /\ lost' = lost \union {task[t].nonce}
    BY <1>1, <1>2, <1>7 DEF Held
  <2> QED
    BY <1>1, <1>2, <1>3, <1>4, <1>5, <2>1, OwnStepKeepsIInv
<1> QED
  BY <1>6, <1>7

-----------------------------------------------------------------------------
(* What writing a ticket changes, said without EXCEPT and Append.          *)
LEMMA SendEffect ==
  ASSUME IInv, NEW t \in Tasks, Send(t)
  PROVE  LET n == task[t].nonce
             L == Len(order)
             m == Len(stream.requests)
         IN  /\ Held(t) /\ lock = NoTask /\ n \in 1 .. nonce_watermark /\ n \in 1 .. MaxNonce
             /\ L \in Nat /\ DOMAIN order = 1 .. L /\ \A i \in 1 .. L : order[i] # n
             /\ order' \in Seq(1 .. MaxNonce) /\ Len(order') = L + 1 /\ DOMAIN order' = 1 .. L + 1
             /\ order'[L + 1] = n /\ \A i \in 1 .. L : order'[i] = order[i]
             /\ task' \in [Tasks -> Calls] /\ task'[t].at = "awaiting" /\ task'[t].nonce = n
             /\ \A u \in Tasks \ {t} : task'[u] = task[u]
             /\ lock' = t
             /\ stream' \in Streams /\ stream.phase # "none" /\ m \in Nat
             /\ stream'.requests \in Seq(Messages) /\ Len(stream'.requests) = m + 1
             /\ stream'.requests # <<>>
             /\ \A k \in 1 .. m : stream'.requests[k] = stream.requests[k]
             /\ stream'.requests[m + 1].nonce = n /\ stream'.requests[m + 1].type = "TicketRequest"
             /\ stream'.phase = stream.phase /\ stream'.up = stream.up
             /\ stream'.inside = stream.inside /\ stream'.last_nonce = stream.last_nonce
             /\ stream'.halted = stream.halted /\ stream'.responses = stream.responses
             /\ nonce_watermark' = nonce_watermark
<1> DEFINE n == task[t].nonce
<1>1. /\ task[t].at = "signed" /\ lock = NoTask /\ stream.phase # "none" /\ lock' = t
      /\ task' = [task EXCEPT ![t].at = "awaiting"]
      /\ stream' = [stream EXCEPT !.requests = Append(stream.requests, Ticket(t))]
      /\ order' = Append(order, n) /\ nonce_watermark' = nonce_watermark
  BY DEF Send, CanLock
<1>2. Held(t) /\ n \in 1 .. nonce_watermark /\ n \in 1 .. MaxNonce
  <2>1. Held(t)
    BY <1>1 DEF Held
  <2>2. n \in 1 .. nonce_watermark
    BY <2>1 DEF IInv, NoncesAreDrawn
  <2> QED
    BY <2>1, <2>2, WatermarkFits, Constants DEF IInv
<1>3. n \notin ToSet(order)
  BY <1>1 DEF IInv, NoncesAreUnique
<1>4. Ticket(t) \in Messages /\ Ticket(t).nonce = n /\ Ticket(t).type = "TicketRequest"
  BY <1>2, Constants DEF Ticket, Frame, Messages, IInv, Types, Calls
<1> HIDE DEF n
<1>5. /\ Len(order) \in Nat /\ DOMAIN order = 1 .. Len(order)
      /\ order' \in Seq(1 .. MaxNonce) /\ Len(order') = Len(order) + 1
      /\ DOMAIN order' = 1 .. Len(order) + 1
      /\ order'[Len(order) + 1] = n /\ \A i \in 1 .. Len(order) : order'[i] = order[i]
  <2>1. order \in Seq(1 .. MaxNonce)
    BY DEF IInv, Types
  <2> QED
    BY <1>1, <1>2, <2>1, AppendFacts
<1>6. \A i \in 1 .. Len(order) : order[i] # n
  BY <1>3, <1>5 DEF ToSet
<1>7. /\ task' \in [Tasks -> Calls] /\ task'[t].at = "awaiting" /\ task'[t].nonce = n
      /\ \A u \in Tasks \ {t} : task'[u] = task[u]
  BY <1>1 DEF IInv, Types, Calls, n
<1>8. /\ stream' \in Streams /\ stream'.requests = Append(stream.requests, Ticket(t))
      /\ stream'.phase = stream.phase /\ stream'.up = stream.up
      /\ stream'.inside = stream.inside /\ stream'.last_nonce = stream.last_nonce
      /\ stream'.halted = stream.halted /\ stream'.responses = stream.responses
  <2>1. stream.requests \in Seq(Messages)
    BY DEF IInv, Types, Streams
  <2>2. Append(stream.requests, Ticket(t)) \in Seq(Messages)
    BY <1>4, <2>1
  <2> QED
    BY <1>1, <2>2 DEF IInv, Types, Streams
<1>9. /\ Len(stream.requests) \in Nat
      /\ stream'.requests \in Seq(Messages) /\ Len(stream'.requests) = Len(stream.requests) + 1
      /\ stream'.requests # <<>>
      /\ \A k \in 1 .. Len(stream.requests) : stream'.requests[k] = stream.requests[k]
      /\ stream'.requests[Len(stream.requests) + 1] = Ticket(t)
  <2>1. stream.requests \in Seq(Messages)
    BY DEF IInv, Types, Streams
  <2> DEFINE longer == Append(stream.requests, Ticket(t))
  <2>2. /\ longer \in Seq(Messages) /\ Len(longer) = Len(stream.requests) + 1
        /\ Len(stream.requests) \in Nat
        /\ \A k \in 1 .. Len(stream.requests) : longer[k] = stream.requests[k]
        /\ longer[Len(stream.requests) + 1] = Ticket(t)
    BY <1>4, <2>1, AppendFacts
  <2>3. longer # <<>>
    BY <1>4, <2>1, AppendProperties
  <2> HIDE DEF longer
  <2> QED
    BY <1>8, <2>2, <2>3 DEF longer
<1> QED
  BY <1>1, <1>2, <1>4, <1>5, <1>6, <1>7, <1>8, <1>9 DEF n

(* Nothing written before this ticket carries its nonce, so what was said  *)
(* about the earlier ones stands.                                          *)
LEMMA SendKeepsHistory ==
  ASSUME IInv, NEW t \in Tasks, Send(t)
  PROVE  /\ HaltIsExplained' /\ HaltedWereSent'
         /\ AnswersAreOwnOrLate' /\ AnswersAreBehind' /\ CallsAreAccounted'
<1> DEFINE n == task[t].nonce
           L == Len(order)
<1>1. UNCHANGED <<answers, connVars, gateVars, life, unread, lost>>
  BY DEF Send
<1>2. /\ lock = NoTask /\ lock' = t
      /\ L \in Nat /\ DOMAIN order = 1 .. L /\ \A i \in 1 .. L : order[i] # n
      /\ Len(order') = L + 1 /\ DOMAIN order' = 1 .. L + 1
      /\ order'[L + 1] = n /\ \A i \in 1 .. L : order'[i] = order[i]
      /\ stream'.phase = stream.phase /\ stream'.up = stream.up
      /\ stream'.inside = stream.inside /\ stream'.last_nonce = stream.last_nonce
      /\ stream'.halted = stream.halted /\ stream'.responses = stream.responses
  BY SendEffect
<1>3. n \notin unread
  BY <1>2 DEF IInv, NoncesAreDrawn, ToSet
<1> HIDE DEF n, L
<1>4. /\ unread' = unread
      /\ \A k \in 0 .. L : LeftUpTo(k, order', unread) = LeftUpTo(k, order, unread)
  BY <1>1, <1>2 DEF LeftUpTo
<1>5. HaltedWereSent'
  BY <1>2 DEF IInv, HaltedWereSent
<1>6. HaltIsExplained'
  <2> SUFFICES ASSUME NEW ticket \in ToSet(stream.halted), LeftGap(ticket)
               PROVE  LeftGap(ticket)'
    BY <1>1, <1>2 DEF IInv, HaltIsExplained, gateVars
  <2>1. PICK g \in 1 .. ticket.nonce - 1 :
          \A i, j \in DOMAIN order : order[i] = g /\ order[j] = ticket.nonce => i > j
    BY DEF LeftGap
  <2>2. PICK w \in 1 .. L : order[w] = ticket.nonce
    BY <1>2 DEF IInv, HaltedWereSent, ToSet
  <2>3. ticket.nonce # n
    BY <1>2, <2>2
  <2>4. \A i, j \in 1 .. L + 1 : order'[i] = g /\ order'[j] = ticket.nonce => i > j
    BY <1>2, <2>1, <2>3
  <2> QED
    BY <1>2, <2>1, <2>4 DEF LeftGap
<1>7. AnswersAreOwnOrLate'
  <2> SUFFICES OwnOrLate(order', unread, answers)
    BY <1>1, <1>4, OwnOrLateIs DEF IInv
  <2> SUFFICES ASSUME NEW r \in answers
               PROVE  \E i, j \in 1 .. L + 1 :
                        /\ order'[i] = r.nonce /\ order'[j] = r.answer
                        /\ j <= i /\ i - j <= Cardinality(LeftUpTo(i - 1, order', unread))
                        /\ i = j <=> LeftUpTo(i - 1, order', unread) = {}
    BY <1>2 DEF OwnOrLate
  <2>1. PICK i \in DOMAIN order, j \in DOMAIN order :
          /\ order[i] = r.nonce /\ order[j] = r.answer
          /\ j <= i /\ i - j <= Cardinality(LeftUpTo(i - 1, order, unread))
          /\ i = j <=> LeftUpTo(i - 1, order, unread) = {}
    <3>1. OwnOrLate(order, unread, answers)
      BY OwnOrLateIs DEF IInv
    <3> QED
      BY <3>1, Zenon DEF OwnOrLate
  <2>2. i \in 1 .. L /\ j \in 1 .. L
    BY <1>2, <2>1
  <2>3. /\ order'[i] = r.nonce /\ order'[j] = r.answer
        /\ i \in 1 .. L + 1 /\ j \in 1 .. L + 1 /\ i - 1 \in 0 .. L
    BY <1>2, <2>1, <2>2
  <2> QED
    BY <1>4, <2>1, <2>3
<1>8. AnswersAreBehind'
  BY <1>1, <1>2 DEF IInv, AnswersAreBehind, Answers
<1>9. CallsAreAccounted'
  <2>1. LeftUpTo(L + 1, order', unread) = LeftUpTo(L, order, unread)
    <3>1. LeftUpTo(L + 1, order', unread) = LeftUpTo(L, order', unread)
      BY <1>2, <1>3 DEF LeftUpTo
    <3> QED
      BY <1>2, <1>4, <3>1
  <2>2. Over = L /\ Over' = L
    BY <1>2, Constants DEF Over, L
  <2>3. Answers' = Answers /\ (Alive' <=> Alive) /\ stream'.inside = stream.inside
    BY <1>2 DEF Answers, Alive
  <2> QED
    BY <1>2, <1>4, <2>1, <2>2, <2>3 DEF IInv, CallsAreAccounted, L
<1> QED
  BY <1>5, <1>6, <1>7, <1>8, <1>9

LEMMA SendKeepsIInv ==
  ASSUME IInv, NEW t \in Tasks, Send(t)
  PROVE  IInv'
<1> DEFINE n == task[t].nonce
           L == Len(order)
           m == Len(stream.requests)
<1>1. UNCHANGED <<answers, connVars, gateVars, life, unread, lost>>
  BY DEF Send
<1>2. /\ Held(t) /\ lock = NoTask /\ n \in 1 .. nonce_watermark
      /\ L \in Nat /\ DOMAIN order = 1 .. L /\ \A i \in 1 .. L : order[i] # n
      /\ order' \in Seq(1 .. MaxNonce) /\ Len(order') = L + 1 /\ DOMAIN order' = 1 .. L + 1
      /\ order'[L + 1] = n /\ \A i \in 1 .. L : order'[i] = order[i]
      /\ task' \in [Tasks -> Calls] /\ task'[t].at = "awaiting" /\ task'[t].nonce = n
      /\ \A u \in Tasks \ {t} : task'[u] = task[u]
      /\ lock' = t /\ nonce_watermark' = nonce_watermark
  BY SendEffect
<1>3. /\ stream' \in Streams /\ stream.phase # "none" /\ m \in Nat
      /\ Len(stream'.requests) = m + 1 /\ stream'.requests # <<>>
      /\ \A k \in 1 .. m : stream'.requests[k] = stream.requests[k]
      /\ stream'.requests[m + 1].nonce = n /\ stream'.requests[m + 1].type = "TicketRequest"
      /\ stream'.phase = stream.phase /\ stream'.up = stream.up
      /\ stream'.inside = stream.inside /\ stream'.last_nonce = stream.last_nonce
      /\ stream'.halted = stream.halted /\ stream'.responses = stream.responses
  BY SendEffect
<1>4. n \notin unread /\ n \notin lost
  BY <1>2 DEF IInv, NoncesAreDrawn, NoncesAreUnique, Held, ToSet
<1>5. ToSet(order') = ToSet(order) \union {n}
  BY <1>2 DEF ToSet
<1>6. \A u \in Tasks : Held(u)' => Held(u) /\ u # t /\ task'[u].nonce = task[u].nonce
  BY <1>2 DEF Held
<1>7. stream.requests = <<>> <=> m = 0
  BY DEF IInv, Types, Streams
<1> HIDE DEF n, L, m
<1>8. AckIsNext' <=> AckIsNext
  BY <1>3, <1>7 DEF AckIsNext, IsAck, m
<1>9. Types' /\ DrawsFit'
  <2>1. Types'
    BY <1>1, <1>2, <1>3 DEF IInv, Types, connVars, gateVars
  <2>2. Begun' = Begun
    BY <1>2 DEF Begun, Held
  <2> QED
    BY <1>2, <2>1, <2>2 DEF IInv, DrawsFit
<1>10. LockIsExchange'
  BY <1>1, <1>2, <1>4, Constants DEF IInv, LockIsExchange, Waits, Held
<1>11. NoncesAreDrawn'
  BY <1>1, <1>2, <1>5, <1>6 DEF IInv, NoncesAreDrawn
<1>12. NoncesAreUnique'
  <2>1. ASSUME NEW u \in Tasks, NEW v \in Tasks, Held(u)', Held(v)',
               task'[u].nonce = task'[v].nonce
        PROVE  u = v
    BY <1>6, <2>1 DEF IInv, NoncesAreUnique, Held
  <2>2. ASSUME NEW u \in Tasks, Held(u)'
        PROVE  task'[u].nonce \notin lost' \union ToSet(order')
    <3>1. Held(u) /\ u # t /\ task'[u].nonce = task[u].nonce
      BY <1>6, <2>2
    <3>2. task[u].nonce # n /\ task[u].nonce \notin lost \union ToSet(order)
      BY <1>2, <3>1 DEF IInv, NoncesAreUnique, Held, n
    <3> QED
      BY <1>1, <1>5, <3>1, <3>2
  <2>3. ToSet(order') \intersect lost' = {}
    BY <1>1, <1>4, <1>5 DEF IInv, NoncesAreUnique
  <2>4. IsInjective(order')
    BY <1>2 DEF IInv, NoncesAreUnique, IsInjective
  <2> QED
    BY <2>1, <2>2, <2>3, <2>4 DEF NoncesAreUnique, Held
<1>13. RequestsFollowOrder'
  <2>1. /\ stream'.phase = "none" => ~stream'.up
        /\ stream'.phase # "open" => stream'.last_nonce = 0
        /\ shaking' => stream'.phase = "raw" /\ ~AckIsNext'
    BY <1>1, <1>3, <1>8 DEF IInv, RequestsFollowOrder, connVars
  <2>2. ASSUME stream.up, stream.phase = "raw", AckIsNext
        PROVE  /\ Len(stream'.requests) = Len(order') + 1
               /\ \A k \in 1 .. Len(order') : stream'.requests[k + 1].nonce = order'[k]
    <3>1. m = L + 1 /\ \A k \in 1 .. L : stream.requests[k + 1].nonce = order[k]
      BY <2>2 DEF IInv, RequestsFollowOrder, L, m
    <3>2. ASSUME NEW k \in 1 .. L + 1
          PROVE  stream'.requests[k + 1].nonce = order'[k]
      <4>1. CASE k = L + 1
        BY <1>2, <1>3, <3>1, <4>1
      <4>2. CASE k \in 1 .. L
        <5>1. k + 1 \in 1 .. m
          BY <1>2, <3>1, <4>2
        <5>2. stream'.requests[k + 1] = stream.requests[k + 1]
          BY <1>3, <5>1
        <5>3. order'[k] = order[k]
          BY <1>2, <4>2
        <5> QED
          BY <3>1, <4>2, <5>2, <5>3
      <4> QED
        BY <1>2, <4>1, <4>2
    <3> QED
      BY <1>2, <1>3, <3>1, <3>2
  <2>3. ASSUME stream.up, stream.phase = "open"
        PROVE  /\ Len(order') = stream'.last_nonce + Len(stream'.requests)
               /\ \A k \in 1 .. Len(stream'.requests) :
                    stream'.requests[k].nonce = order'[stream'.last_nonce + k]
               /\ \A k \in 1 .. stream'.last_nonce : order'[k] = k
    <3> DEFINE w == stream.last_nonce
    <3>1. /\ L = w + m /\ w \in Nat /\ stream'.last_nonce = w
          /\ \A k \in 1 .. m : stream.requests[k].nonce = order[w + k]
          /\ \A k \in 1 .. w : order[k] = k
      <4>1. /\ L = w + m
            /\ \A k \in 1 .. m : stream.requests[k].nonce = order[w + k]
            /\ \A k \in 1 .. w : order[k] = k
        BY <2>3 DEF IInv, RequestsFollowOrder, L, m
      <4>2. w \in Nat
        BY Constants DEF IInv, Types, Streams
      <4> QED
        BY <1>3, <4>1, <4>2
    <3> HIDE DEF w
    <3>2. ASSUME NEW k \in 1 .. m + 1
          PROVE  stream'.requests[k].nonce = order'[w + k]
      <4>1. CASE k = m + 1
        BY <1>2, <1>3, <3>1, <4>1
      <4>2. CASE k \in 1 .. m
        <5>1. stream'.requests[k] = stream.requests[k] /\ stream.requests[k].nonce = order[w + k]
          BY <1>3, <3>1, <4>2
        <5>2. w + k \in 1 .. L
          BY <1>2, <1>3, <3>1, <4>2
        <5> QED
          BY <1>2, <5>1, <5>2
      <4> QED
        BY <1>3, <4>1, <4>2
    <3>3. \A k \in 1 .. w : order'[k] = k
      BY <1>2, <1>3, <3>1
    <3> QED
      BY <1>2, <1>3, <3>1, <3>2, <3>3
  <2> QED
    BY <1>3, <1>8, <2>1, <2>2, <2>3 DEF RequestsFollowOrder
<1>14. ServedAreBehind'
  <2> SUFFICES ASSUME NEW i \in DOMAIN served, served[i].life = life
               PROVE  /\ \A u \in Tasks : Held(u)' => task'[u].nonce # served[i].nonce
                      /\ stream.up => \A j \in stream.last_nonce + 1 .. L + 1 :
                                        order'[j] # served[i].nonce
    BY <1>1, <1>2, <1>3 DEF IInv, ServedAreBehind, gateVars
  <2>1. /\ \A u \in Tasks : Held(u) => task[u].nonce # served[i].nonce
        /\ stream.up => \A j \in stream.last_nonce + 1 .. L : order[j] # served[i].nonce
    BY DEF IInv, ServedAreBehind, L
  <2>2. n # served[i].nonce
    BY <1>2, <2>1 DEF n
  <2> DEFINE w == stream.last_nonce
  <2>3. w \in Nat
    BY Constants DEF IInv, Types, Streams
  <2> HIDE DEF w
  <2>4. stream.up => \A j \in w + 1 .. L : order[j] # served[i].nonce
    BY <2>1 DEF w
  <2>5. ASSUME stream.up, NEW j \in w + 1 .. L + 1
        PROVE  order'[j] # served[i].nonce
    <3>1. j = L + 1 \/ (j \in w + 1 .. L /\ j \in 1 .. L)
      BY <1>2, <2>5, <2>3
    <3> QED
      BY <1>2, <2>2, <2>5, <2>4, <3>1
  <2> QED
    BY <1>6, <2>1, <2>5 DEF w
<1>15. ResponsesFollowOrder'
  <2> DEFINE w == stream.last_nonce
             a == Len(stream.responses)
  <2>1. w \in Nat /\ a \in Nat
    BY Constants DEF IInv, Types, Streams
  <2>2. ASSUME stream.phase = "open"
        PROVE  /\ a <= w /\ w <= L
               /\ \A k \in 1 .. a : /\ stream.responses[k].type = "ComputeResp"
                                    /\ stream.responses[k].nonce = order[w - a + k]
    BY <2>2 DEF IInv, ResponsesFollowOrder, L
  <2>3. /\ stream.phase # "open" =>
             \A k \in DOMAIN stream.responses : stream.responses[k].type = "HandshakeInit"
        /\ a <= 1 \/ stream.phase = "open"
        /\ AckIsNext /\ stream.phase # "open" => stream.responses = <<>>
    BY DEF IInv, ResponsesFollowOrder
  <2> HIDE DEF w, a
  <2>4. ASSUME stream.phase = "open", NEW k \in 1 .. a
        PROVE  order'[w - a + k] = order[w - a + k]
    BY <1>2, <2>1, <2>2, <2>4
  <2>5. stream.phase = "open" => w <= L + 1
    BY <1>2, <2>1, <2>2
  <2>6. /\ stream'.last_nonce = w /\ Len(stream'.responses) = a
        /\ stream'.responses = stream.responses /\ Len(order') = L + 1
        /\ stream'.phase = stream.phase
    BY <1>2, <1>3 DEF w, a
  <2> QED
    BY <1>8, <2>2, <2>3, <2>4, <2>5, <2>6 DEF ResponsesFollowOrder
<1>16. ReadsHaveAFrame'
  BY <1>2, <1>3 DEF IInv, ReadsHaveAFrame
<1> QED
  BY <1>1, <1>9, <1>10, <1>11, <1>12, <1>13, <1>14, <1>15, <1>16, SendKeepsHistory
     DEF IInv, NonceServedOnce, gateVars

-----------------------------------------------------------------------------
(* A call that held the lock returns: with its answer, without one, or     *)
(* dropped.                                                                *)
LEMMA ReleaseKeepsCalls ==
  ASSUME IInv, NEW t \in Tasks, Waits(t),
         task' = [task EXCEPT ![t].at = "idle"], lock' = NoTask,
         unread' \in {unread, unread \union {task[t].nonce}},
         stream'.up = stream.up, stream'.last_nonce = stream.last_nonce,
         UNCHANGED <<nonce_watermark, connVars, gateVars, life, order, lost>>
  PROVE  /\ task' \in [Tasks -> Calls] /\ DrawsFit' /\ LockIsExchange' /\ NoncesAreDrawn'
         /\ NoncesAreUnique' /\ ServedAreBehind' /\ NonceServedOnce'
<1>1. /\ task' \in [Tasks -> Calls] /\ task'[t].at = "idle"
      /\ \A u \in Tasks \ {t} : task'[u] = task[u]
  BY DEF IInv, Types, Calls
<1>2. \A u \in Tasks : Held(u)' => Held(u) /\ u # t /\ task'[u].nonce = task[u].nonce
  BY <1>1 DEF Held
<1>3. DrawsFit'
  <2>1. Begun' = Begun
    BY <1>1 DEF Begun, Waits
  <2> QED
    BY <2>1 DEF IInv, DrawsFit
<1>4. lock = t /\ order # <<>> /\ order[Len(order)] = task[t].nonce
  BY Constants DEF IInv, LockIsExchange
<1>5. LockIsExchange'
  BY <1>1, <1>4, Constants DEF IInv, LockIsExchange, Waits
<1>6. task[t].nonce \in ToSet(order)
  BY <1>4, EmptySeq, LenProperties DEF IInv, Types, ToSet
<1>7. NoncesAreDrawn'
  BY <1>2, <1>6 DEF IInv, NoncesAreDrawn
<1>8. NoncesAreUnique'
  BY <1>2 DEF IInv, NoncesAreUnique, Held
<1>9. ServedAreBehind'
  BY <1>2 DEF IInv, ServedAreBehind, gateVars
<1>10. NonceServedOnce'
  BY DEF IInv, NonceServedOnce, gateVars
<1> QED
  BY <1>1, <1>3, <1>5, <1>7, <1>8, <1>9, <1>10

(* Reading takes frames off the front of what the provider has sent, at    *)
(* most one at a time.                                                     *)
LEMMA ReadingKeepsStream ==
  ASSUME IInv, stream' \in Streams,
         stream'.phase = stream.phase, stream'.up = stream.up,
         stream'.last_nonce = stream.last_nonce, stream'.halted = stream.halted,
         stream'.requests = stream.requests,
         \/ stream'.responses = stream.responses
         \/ stream.responses # <<>> /\ stream'.responses = Tail(stream.responses),
         shaking' => shaking, UNCHANGED <<seed, order>>
  PROVE  /\ RequestsFollowOrder' /\ HaltedWereSent' /\ HaltIsExplained' /\ ResponsesFollowOrder'
         /\ Alive' => Alive
         /\ Answers \in Int /\ Answers' \in Int
         /\ Answers' = IF stream'.responses # stream.responses /\ stream.phase = "open"
                       THEN Answers + 1 ELSE Answers
<1> DEFINE w == stream.last_nonce
           a == Len(stream.responses)
           b == Len(stream'.responses)
<1>1. w \in Nat /\ a \in Nat /\ b \in Nat /\ stream.responses \in Seq(Messages)
  BY Constants DEF IInv, Types, Streams
<1>2. AckIsNext' <=> AckIsNext
  BY DEF AckIsNext
<1>3. RequestsFollowOrder' /\ HaltedWereSent' /\ HaltIsExplained'
  BY <1>2 DEF IInv, RequestsFollowOrder, HaltedWereSent, HaltIsExplained, LeftGap
<1>4. stream.responses # <<>> =>
        /\ Len(Tail(stream.responses)) = a - 1 /\ a # 0
        /\ \A k \in 1 .. a - 1 : Tail(stream.responses)[k] = stream.responses[k + 1]
  BY <1>1, TailFacts
<1>5. /\ b = (IF stream'.responses # stream.responses THEN a - 1 ELSE a)
      /\ \A k \in 1 .. b : stream'.responses[k] = stream.responses[a - b + k]
  <2>1. CASE stream'.responses = stream.responses
    BY <1>1, <2>1
  <2>2. CASE stream'.responses # stream.responses
    <3>0. stream.responses # <<>> /\ stream'.responses = Tail(stream.responses)
      BY <2>2
    <3>1. b = a - 1 /\ a - b = 1 /\ \A k \in 1 .. a - 1 : stream'.responses[k] = stream.responses[k + 1]
      BY <1>1, <1>4, <3>0
    <3>2. ASSUME NEW k \in 1 .. b
          PROVE  stream'.responses[k] = stream.responses[a - b + k]
      <4>1. a - b + k = k + 1
        BY <3>1
      <4> QED
        BY <3>1, <4>1
    <3> QED
      BY <2>2, <3>1, <3>2
  <2> QED
    BY <2>1, <2>2
<1>6. Alive' => Alive
  BY DEF Alive
<1> HIDE DEF w, a, b
<1>7. ResponsesFollowOrder'
  <2>1. CASE stream.phase = "open"
    <3>1. /\ a <= w /\ w <= Len(order)
          /\ \A k \in 1 .. a : /\ stream.responses[k].type = "ComputeResp"
                               /\ stream.responses[k].nonce = order[w - a + k]
      BY <2>1 DEF IInv, ResponsesFollowOrder, w, a
    <3>2. b <= a /\ a - b \in Nat
      BY <1>1, <1>4, <1>5
    <3>3. ASSUME NEW k \in 1 .. b
          PROVE  /\ stream'.responses[k].type = "ComputeResp"
                 /\ stream'.responses[k].nonce = order[w - b + k]
      <4>1. a - b + k \in 1 .. a /\ w - a + (a - b + k) = w - b + k
        BY <1>1, <3>2
      <4> QED
        BY <1>5, <3>1, <4>1
    <3> QED
      BY <1>1, <2>1, <3>1, <3>2, <3>3 DEF ResponsesFollowOrder, w, b
  <2>2. CASE stream.phase # "open"
    <3>1. a <= 1 /\ \A k \in 1 .. a : stream.responses[k].type = "HandshakeInit"
      BY <1>1, <2>2, LenProperties DEF IInv, ResponsesFollowOrder, a
    <3>2. DOMAIN stream'.responses = 1 .. b /\ b <= 1 /\ a - b \in Nat /\ b <= a
      BY <1>1, <1>4, <1>5, <3>1, LenProperties DEF Streams, b
    <3>3. ASSUME NEW k \in 1 .. b
          PROVE  stream'.responses[k].type = "HandshakeInit"
      <4>1. a - b + k \in 1 .. a
        BY <1>1, <3>2
      <4> QED
        BY <1>5, <3>1, <4>1
    <3>4. AckIsNext' => stream'.responses = <<>>
      BY <1>2, <2>2 DEF IInv, ResponsesFollowOrder
    <3> QED
      BY <2>2, <3>2, <3>3, <3>4 DEF ResponsesFollowOrder, b
  <2> QED
    BY <2>1, <2>2
<1>8. /\ Answers \in Int /\ Answers' \in Int
      /\ Answers' = IF stream'.responses # stream.responses /\ stream.phase = "open"
                    THEN Answers + 1 ELSE Answers
  <2>1. Answers = IF stream.phase = "open" THEN w - a ELSE 0
    BY DEF Answers, w, a
  <2>2. Answers' = IF stream.phase = "open" THEN w - b ELSE 0
    BY DEF Answers, w, b
  <2>3. b = IF stream'.responses # stream.responses THEN a - 1 ELSE a
    BY <1>5
  <2> QED
    BY <1>1, <2>1, <2>2, <2>3
<1> QED
  BY <1>3, <1>6, <1>7, <1>8

(* Who holds the lock wrote the last ticket, and nobody else waits.        *)
LEMMA HolderWroteLast ==
  ASSUME IInv, NEW t \in Tasks, Waits(t)
  PROVE  /\ lock = t /\ Len(order) \in Nat \ {0} /\ DOMAIN order = 1 .. Len(order)
         /\ order[Len(order)] = task[t].nonce /\ task[t].nonce \notin unread
         /\ Over = Len(order) - 1
         /\ \A k \in 1 .. Len(order) - 1 : order[k] # task[t].nonce
<1>1. lock = t /\ order # <<>> /\ order[Len(order)] = task[t].nonce /\ task[t].nonce \notin unread
  BY Constants DEF IInv, LockIsExchange
<1>2. Len(order) \in Nat \ {0} /\ DOMAIN order = 1 .. Len(order)
  BY <1>1, EmptySeq, LenProperties DEF IInv, Types
<1>3. \A k \in 1 .. Len(order) - 1 : order[k] # task[t].nonce
  <2> DEFINE L == Len(order)
  <2>1. \A i, j \in 1 .. L : order[i] = order[j] => i = j
    BY <1>2 DEF IInv, NoncesAreUnique, IsInjective
  <2>2. L \in Nat \ {0} /\ order[L] = task[t].nonce
    BY <1>1, <1>2
  <2> HIDE DEF L
  <2>3. \A k \in 1 .. L - 1 : order[k] # task[t].nonce
    BY <2>1, <2>2
  <2> QED
    BY <2>3 DEF L
<1>4. Over = Len(order) - 1
  BY <1>1, Constants DEF Over
<1> QED
  BY <1>1, <1>2, <1>3, <1>4

(* A call that leaves without its answer is the last ticket written, so it *)
(* sets back only those that come after it; and it has taken less than a   *)
(* frame unless an earlier one had left some of its own.                   *)
LEMMA LeavingKeepsIInv ==
  ASSUME IInv, NEW t \in Tasks, Waits(t), Leaves(t), stream' \in Streams,
         stream'.phase = stream.phase, stream'.up = stream.up,
         stream'.last_nonce = stream.last_nonce, stream'.halted = stream.halted,
         stream'.requests = stream.requests,
         \/ stream'.responses = stream.responses
         \/ /\ stream.responses # <<>> /\ stream'.responses = Tail(stream.responses)
            /\ stream.inside \/ ~Alive',
         stream'.inside => stream'.responses # <<>>,
         UNCHANGED <<nonce_watermark, answers, connVars, gateVars, life, order, lost>>
  PROVE  IInv'
<1> DEFINE n == task[t].nonce
           L == Len(order)
           D == Cardinality(LeftUpTo(L, order, unread))
           E == Cardinality(LeftUpTo(L, order, unread \union {n}))
<1>1. /\ lock = t /\ L \in Nat \ {0} /\ DOMAIN order = 1 .. L /\ order[L] = n /\ n \notin unread
      /\ Over = L - 1 /\ \A k \in 1 .. L - 1 : order[k] # n
  BY HolderWroteLast
<1>2. /\ lock' = NoTask /\ unread' = unread \union {n}
      /\ task' = [task EXCEPT ![t].at = "idle"]
  BY DEF Leaves, Return
<1>3. /\ task' \in [Tasks -> Calls] /\ DrawsFit' /\ LockIsExchange' /\ NoncesAreDrawn'
      /\ NoncesAreUnique' /\ ServedAreBehind' /\ NonceServedOnce'
  BY <1>2, ReleaseKeepsCalls
<1>4. /\ RequestsFollowOrder' /\ HaltedWereSent' /\ HaltIsExplained' /\ ResponsesFollowOrder'
      /\ Alive' => Alive
      /\ Answers \in Int /\ Answers' \in Int
      /\ Answers' = IF stream'.responses # stream.responses /\ stream.phase = "open"
                    THEN Answers + 1 ELSE Answers
  BY ReadingKeepsStream DEF connVars, gateVars
<1>5. Types'
  BY <1>2, <1>3 DEF IInv, Types, connVars, gateVars
<1>6. ReadsHaveAFrame'
  BY <1>2, <1>3, Constants DEF ReadsHaveAFrame, LockIsExchange, Waits
<1>7. D \in Nat /\ E = D + 1
  <2>1. /\ L \notin LeftUpTo(L, order, unread)
        /\ LeftUpTo(L, order, unread \union {n}) = LeftUpTo(L, order, unread) \union {L}
    BY <1>1 DEF LeftUpTo
  <2>2. IsFiniteSet(LeftUpTo(L, order, unread)) /\ D \in Nat
    BY <1>1, LeftAreFinite
  <2> QED
    BY <2>1, <2>2, FS_AddElement
<1> HIDE DEF n, L, D, E
<1>8. CallsAreAccounted'
  <2> SUFFICES ASSUME Alive'
               PROVE  Over' <= Answers' + E /\ Answers' <= Over' - 1
    BY <1>2 DEF CallsAreAccounted, E, L
  <2>1. Over' = L
    BY <1>1, <1>2 DEF Over, L
  <2>2. /\ Over <= Answers + D
        /\ unread = {} => Answers = Over /\ ~stream.inside
        /\ unread # {} => Answers <= Over - 1
    BY <1>4 DEF IInv, CallsAreAccounted, D, L
  <2>3. unread = {} => Answers' = Answers
    BY <1>4, <2>2
  <2>4. Answers <= Answers' /\ Answers' <= Answers + 1
    BY <1>4
  <2> QED
    BY <1>1, <1>4, <1>7, <2>1, <2>2, <2>3, <2>4
<1>9. AnswersAreBehind'
  <2>1. Answers <= Answers'
    BY <1>4
  <2> SUFFICES ASSUME NEW r \in answers
               PROVE  stream.phase = "open" /\ \E j \in DOMAIN order : j <= Answers' /\ order[j] = r.answer
    BY DEF AnswersAreBehind
  <2>2. PICK j \in 1 .. L : stream.phase = "open" /\ j <= Answers /\ order[j] = r.answer
    BY <1>1 DEF IInv, AnswersAreBehind
  <2>3. j <= Answers'
    BY <1>1, <1>4, <2>1, <2>2
  <2> QED
    BY <1>1, <2>2, <2>3
<1>10. \A m \in 0 .. L - 1 : LeftUpTo(m, order, unread \union {n}) = LeftUpTo(m, order, unread)
  BY <1>1 DEF LeftUpTo
<1>11. AnswersAreOwnOrLate'
  <2> SUFFICES OwnOrLate(order, unread \union {n}, answers)
    BY <1>2, OwnOrLateIs DEF IInv
  <2> SUFFICES ASSUME NEW r \in answers
               PROVE  \E i, j \in 1 .. L :
                        /\ order[i] = r.nonce /\ order[j] = r.answer
                        /\ j <= i /\ i - j <= Cardinality(LeftUpTo(i - 1, order, unread \union {n}))
                        /\ i = j <=> LeftUpTo(i - 1, order, unread \union {n}) = {}
    BY <1>1 DEF OwnOrLate
  <2>1. PICK i \in DOMAIN order, j \in DOMAIN order :
          /\ order[i] = r.nonce /\ order[j] = r.answer
          /\ j <= i /\ i - j <= Cardinality(LeftUpTo(i - 1, order, unread))
          /\ i = j <=> LeftUpTo(i - 1, order, unread) = {}
    <3>1. OwnOrLate(order, unread, answers)
      BY OwnOrLateIs DEF IInv
    <3> QED
      BY <3>1, Zenon DEF OwnOrLate
  <2>2. i \in 1 .. L /\ j \in 1 .. L
    BY <1>1, <2>1
  <2>3. i - 1 \in 0 .. L - 1
    BY <1>1, <2>2
  <2> QED
    BY <1>10, <2>1, <2>2, <2>3
<1> QED
  BY <1>3, <1>4, <1>5, <1>6, <1>8, <1>9, <1>11 DEF IInv

(* How far a read may get that does not take a whole frame.                *)
LEMMA ReadsOnEffect ==
  ASSUME IInv, ReadsOn
  PROVE  /\ stream' \in Streams
         /\ stream'.phase = stream.phase /\ stream'.up = stream.up
         /\ stream'.last_nonce = stream.last_nonce /\ stream'.halted = stream.halted
         /\ stream'.requests = stream.requests /\ stream.responses # <<>>
         /\ \/ stream'.responses = stream.responses
            \/ stream'.responses = Tail(stream.responses) /\ stream.inside
         /\ stream'.inside => stream'.responses # <<>>
<1>1. stream \in Streams /\ stream.responses \in Seq(Messages)
  BY DEF IInv, Types, Streams
<1>2. stream.responses # <<>>
  BY DEF ReadsOn, FurtherInFirst, ToEndOfFirst, IntoNext, IInv, ReadsHaveAFrame
<1>3. /\ Tail(stream.responses) \in Seq(Messages) /\ Len(stream.responses) \in Nat \ {0}
      /\ Len(Tail(stream.responses)) = Len(stream.responses) - 1
  BY <1>1, <1>2, TailFacts
<1>4. CASE FurtherInFirst
  BY <1>1, <1>2, <1>4 DEF FurtherInFirst, Streams
<1>5. CASE ToEndOfFirst
  BY <1>1, <1>2, <1>3, <1>5 DEF ToEndOfFirst, Streams
<1>6. CASE IntoNext
  <2>1. Tail(stream.responses) # <<>>
    <3>1. Len(stream.responses) > 1
      BY <1>6 DEF IntoNext
    <3>2. \A l \in Nat : l > 1 => l - 1 # 0
      OBVIOUS
    <3>3. Len(Tail(stream.responses)) # 0
      BY <1>3, <3>1, <3>2
    <3> QED
      BY <1>3, <3>3, EmptySeq
  <2> QED
    BY <1>1, <1>2, <1>3, <1>6, <2>1 DEF IntoNext, Streams
<1> QED
  BY <1>4, <1>5, <1>6 DEF ReadsOn

LEMMA LeaveKeepsIInv ==
  ASSUME IInv, NEW t \in Tasks,
         \/ ReceiveWrongType(t) \/ ReceiveBadMagic(t)
         \/ CancelWaiting(t) \/ CancelReading(t)
  PROVE  IInv'
<1>1. /\ Waits(t) /\ Leaves(t)
      /\ UNCHANGED stream \/ ReadsOn
      /\ UNCHANGED <<nonce_watermark, answers, connVars, gateVars, life, order, lost>>
  BY DEF ReceiveWrongType, ReceiveBadMagic, CancelWaiting, CancelReading, Waits, ReadsOn
<1>2. CASE UNCHANGED stream
  <2>1. /\ stream' \in Streams
        /\ stream'.phase = stream.phase /\ stream'.up = stream.up
        /\ stream'.last_nonce = stream.last_nonce /\ stream'.halted = stream.halted
        /\ stream'.requests = stream.requests /\ stream'.responses = stream.responses
        /\ stream'.inside => stream'.responses # <<>>
    BY <1>2 DEF IInv, Types, ReadsHaveAFrame
  <2> QED
    BY <1>1, <2>1, LeavingKeepsIInv
<1>3. CASE ReadsOn
  <2>1. /\ stream' \in Streams
        /\ stream'.phase = stream.phase /\ stream'.up = stream.up
        /\ stream'.last_nonce = stream.last_nonce /\ stream'.halted = stream.halted
        /\ stream'.requests = stream.requests
        /\ stream'.inside => stream'.responses # <<>>
    BY <1>3, ReadsOnEffect
  <2>2. \/ stream'.responses = stream.responses
        \/ /\ stream.responses # <<>> /\ stream'.responses = Tail(stream.responses)
           /\ stream.inside \/ ~Alive'
    BY <1>3, ReadsOnEffect
  <2> QED
    BY <1>1, <2>1, <2>2, LeavingKeepsIInv
<1> QED
  BY <1>1, <1>2, <1>3

(* The stream gives no more: whoever waited leaves empty-handed, and no    *)
(* later call can be answered.                                             *)
LEMMA ReceiveFailsKeepsIInv ==
  ASSUME IInv, NEW t \in Tasks, ReceiveFails(t)
  PROVE  IInv'
<1>1. /\ lock = t /\ ~stream.up /\ Len(stream.responses) <= 1 /\ Leaves(t)
      /\ stream' = [stream EXCEPT !.responses = <<>>, !.inside = FALSE]
      /\ UNCHANGED <<nonce_watermark, answers, connVars, gateVars, life, order, lost>>
  BY DEF ReceiveFails
<1>2. Waits(t)
  BY <1>1 DEF IInv, LockIsExchange
<1>3. stream \in Streams /\ stream.responses \in Seq(Messages)
  BY DEF IInv, Types, Streams
<1>4. /\ stream' \in Streams
      /\ stream'.phase = stream.phase /\ stream'.up = stream.up
      /\ stream'.last_nonce = stream.last_nonce /\ stream'.halted = stream.halted
      /\ stream'.requests = stream.requests /\ stream'.responses = <<>> /\ ~stream'.inside
  <2>1. <<>> \in Seq(Messages)
    BY EmptySeq
  <2> QED
    BY <1>1, <1>3, <2>1 DEF Streams
<1>5. stream.responses # <<>> => Tail(stream.responses) = <<>>
  <2> SUFFICES ASSUME stream.responses # <<>>
               PROVE  Tail(stream.responses) = <<>>
    OBVIOUS
  <2>1. /\ Tail(stream.responses) \in Seq(Messages) /\ Len(stream.responses) \in Nat \ {0}
        /\ Len(Tail(stream.responses)) = Len(stream.responses) - 1
    BY <1>3, TailFacts
  <2>2. \A l \in Nat \ {0} : l <= 1 => l - 1 = 0
    OBVIOUS
  <2>3. Len(Tail(stream.responses)) = 0
    BY <1>1, <2>1, <2>2
  <2> QED
    BY <2>1, <2>3, EmptySeq
<1>6. ~Alive'
  BY <1>1, <1>4 DEF Alive
<1>7. \/ stream'.responses = stream.responses
      \/ /\ stream.responses # <<>> /\ stream'.responses = Tail(stream.responses)
         /\ stream.inside \/ ~Alive'
  BY <1>4, <1>5, <1>6
<1> QED
  BY <1>1, <1>2, <1>4, <1>7, LeavingKeepsIInv

(* Before it has the lock a call is dropped with what it drew.             *)
LEMMA CancelEarlyKeepsIInv ==
  ASSUME IInv, NEW t \in Tasks, CancelEarly(t)
  PROVE  IInv'
<1>1. /\ task[t].at \in {"begun", "signing", "signed"} /\ task' = [task EXCEPT ![t].at = "idle"]
      /\ lost' = IF Held(t) THEN lost \union {task[t].nonce} ELSE lost
      /\ UNCHANGED <<nonce_watermark, lock, answers, connVars, stream, gateVars, life, order, unread>>
  BY DEF CancelEarly, Return, Held
<1>2. task' \in [Tasks -> Calls] /\ task'[t].at = "idle" /\ \A u \in Tasks \ {t} : task'[u] = task[u]
  BY <1>1 DEF IInv, Types, Calls
<1>3. DrawsFit'
  <2>1. Begun' \in SUBSET Begun
    BY <1>2 DEF Begun
  <2>2. Cardinality(Begun') <= Cardinality(Begun) /\ Cardinality(Begun') \in Nat
    BY <2>1, BegunIsFinite, FS_Subset, FS_CardinalityType
  <2> QED
    BY <1>1, <2>2, BegunIsFinite, Constants DEF DrawsFit, IInv, Types
<1>4. nonce_watermark' \in Nat /\ nonce_watermark' >= nonce_watermark
  BY <1>1 DEF IInv, Types
<1>5. ~Held(t)' /\ ~Waits(t) /\ ~Waits(t)'
  BY <1>1, <1>2 DEF Held, Waits
<1>6. lost' = lost \/ (Held(t) /\ ~Held(t)' /\ lost' = lost \union {task[t].nonce})
  BY <1>1, <1>5
<1> QED
  BY <1>1, <1>2, <1>3, <1>4, <1>5, <1>6, OwnStepKeepsIInv

(* The header of an answer is read only where an answer stands.            *)
LEMMA HeaderKeepsIInv ==
  ASSUME IInv, NEW t \in Tasks, ReceiveHeader(t)
  PROVE  IInv'
<1>1. /\ task[t].at = "awaiting" /\ ~stream.inside /\ stream.responses # <<>>
      /\ Head(stream.responses).type = "ComputeResp"
      /\ task' = [task EXCEPT ![t].at = "reading"]
      /\ UNCHANGED <<nonce_watermark, lock, answers, connVars, stream, gateVars, life, order, unread, lost>>
  BY DEF ReceiveHeader, history
<1>2. /\ task' \in [Tasks -> Calls] /\ task'[t].at = "reading" /\ task'[t].nonce = task[t].nonce
      /\ \A u \in Tasks \ {t} : task'[u] = task[u]
  BY <1>1 DEF IInv, Types, Calls
<1>3. \A u \in Tasks : (Waits(u)' <=> Waits(u)) /\ (Held(u)' <=> Held(u))
                       /\ task'[u].nonce = task[u].nonce
  BY <1>1, <1>2 DEF Waits, Held
<1>4. stream.phase = "open"
  <2> SUFFICES ASSUME stream.phase # "open" PROVE FALSE
    OBVIOUS
  <2>1. stream.responses \in Seq(Messages)
    BY DEF IInv, Types, Streams
  <2>2. Head(stream.responses) = stream.responses[1] /\ 1 \in DOMAIN stream.responses
    <3>1. Len(stream.responses) \in Nat \ {0} /\ Head(stream.responses) = stream.responses[1]
      BY <1>1, <2>1, TailFacts
    <3>2. DOMAIN stream.responses = 1 .. Len(stream.responses)
      BY <2>1, LenProperties
    <3>3. \A l \in Nat \ {0} : 1 \in 1 .. l
      OBVIOUS
    <3> QED
      BY <3>1, <3>2, <3>3
  <2> QED
    BY <1>1, <2>2 DEF IInv, ResponsesFollowOrder
<1>5. Types'
  BY <1>1, <1>2 DEF IInv, Types, connVars, gateVars
<1>6. DrawsFit'
  <2>1. Begun' = Begun
    BY <1>1, <1>2 DEF Begun
  <2> QED
    BY <1>1, <2>1 DEF IInv, DrawsFit
<1>7. LockIsExchange'
  BY <1>1, <1>3, Constants DEF IInv, Types, LockIsExchange
<1>8. NoncesAreDrawn'
  BY <1>1, <1>3 DEF IInv, NoncesAreDrawn
<1>9. NoncesAreUnique'
  BY <1>1, <1>3 DEF IInv, NoncesAreUnique, Held
<1>10. ServedAreBehind'
  BY <1>1, <1>3 DEF IInv, ServedAreBehind, gateVars
<1>11. ReadsHaveAFrame'
  BY <1>1, <1>2, <1>4 DEF IInv, ReadsHaveAFrame
<1>12. StreamParts'
  BY <1>1, StreamPartsStay DEF IInv, StreamParts, connVars, gateVars
<1> QED
  BY <1>5, <1>6, <1>7, <1>8, <1>9, <1>10, <1>11, <1>12 DEF IInv, StreamParts

(* What reading an answer to its end changes: it is the answer to the      *)
(* first ticket whose answer is still on the stream.                       *)
LEMMA PayloadEffect ==
  ASSUME IInv, NEW t \in Tasks, ReceivePayload(t)
  PROVE  LET A == Answers
         IN  /\ Waits(t) /\ lock' = NoTask /\ task' = [task EXCEPT ![t].at = "idle"]
             /\ stream.responses # <<>> /\ stream.phase = "open"
             /\ stream' \in Streams /\ stream'.responses = Tail(stream.responses)
             /\ stream'.phase = stream.phase /\ stream'.up = stream.up
             /\ stream'.last_nonce = stream.last_nonce /\ stream'.halted = stream.halted
             /\ stream'.requests = stream.requests /\ ~stream'.inside
             /\ stream'.responses # stream.responses
             /\ A \in Nat /\ A + 1 \in 1 .. Len(order)
             /\ \/ answers' = answers \union {[nonce |-> task[t].nonce, answer |-> order[A + 1]]}
                \/ answers' = answers
             /\ UNCHANGED <<nonce_watermark, connVars, gateVars, life, order, unread, lost>>
<1> DEFINE w == stream.last_nonce
           a == Len(stream.responses)
           L == Len(order)
           frame == Head(stream.responses)
<1>1. /\ task[t].at = "reading" /\ lock' = NoTask /\ task' = [task EXCEPT ![t].at = "idle"]
      /\ stream' = [stream EXCEPT !.responses = Tail(stream.responses)]
      /\ \/ answers' = answers \union {[nonce |-> task[t].nonce, answer |-> frame.nonce]}
         \/ answers' = answers
      /\ UNCHANGED <<nonce_watermark, connVars, gateVars, life, order, unread, lost>>
  BY DEF ReceivePayload, Return, history
<1>2. stream.phase = "open" /\ ~stream.inside /\ stream.responses # <<>> /\ Waits(t)
  BY <1>1 DEF IInv, ReadsHaveAFrame, Waits
<1>3. stream \in Streams /\ stream.responses \in Seq(Messages) /\ w \in Nat /\ L \in Nat
  BY Constants DEF IInv, Types, Streams
<1>4. /\ frame = stream.responses[1] /\ a \in Nat \ {0}
      /\ Tail(stream.responses) \in Seq(Messages) /\ Len(Tail(stream.responses)) = a - 1
  BY <1>2, <1>3, TailFacts
<1>5. /\ a <= w /\ w <= L
      /\ \A k \in 1 .. a : stream.responses[k].nonce = order[w - a + k]
  BY <1>2 DEF IInv, ResponsesFollowOrder
<1>6. Answers = w - a
  BY <1>2 DEF Answers
<1>7. Tail(stream.responses) # stream.responses
  <2>1. \A l \in Nat : l - 1 # l
    OBVIOUS
  <2> QED
    BY <1>4, <2>1
<1> HIDE DEF w, a, L
<1>8. 1 \in 1 .. a /\ w - a \in Nat /\ w - a + 1 \in 1 .. L
  BY <1>3, <1>4, <1>5
<1>9. frame.nonce = order[w - a + 1]
  BY <1>4, <1>5, <1>8
<1>10. /\ stream' \in Streams /\ stream'.responses = Tail(stream.responses)
       /\ stream'.phase = stream.phase /\ stream'.up = stream.up
       /\ stream'.last_nonce = stream.last_nonce /\ stream'.halted = stream.halted
       /\ stream'.requests = stream.requests /\ stream'.inside = stream.inside
  BY <1>1, <1>3, <1>4 DEF Streams
<1>11. Answers \in Nat /\ Answers + 1 \in 1 .. Len(order) /\ frame.nonce = order[Answers + 1]
  BY <1>6, <1>8, <1>9 DEF L
<1> HIDE DEF frame
<1> QED
  BY <1>1, <1>2, <1>7, <1>10, <1>11

LEMMA PayloadKeepsIInv ==
  ASSUME IInv, NEW t \in Tasks, ReceivePayload(t)
  PROVE  IInv'
<1> DEFINE n == task[t].nonce
           L == Len(order)
           A == Answers
           D == Cardinality(LeftUpTo(L, order, unread))
           r == [nonce |-> n, answer |-> order[A + 1]]
<1>1. /\ Waits(t) /\ lock' = NoTask /\ task' = [task EXCEPT ![t].at = "idle"]
      /\ stream.responses # <<>> /\ stream.phase = "open"
      /\ stream' \in Streams /\ stream'.responses = Tail(stream.responses)
      /\ stream'.phase = stream.phase /\ stream'.up = stream.up
      /\ stream'.last_nonce = stream.last_nonce /\ stream'.halted = stream.halted
      /\ stream'.requests = stream.requests /\ ~stream'.inside
      /\ stream'.responses # stream.responses
      /\ A \in Nat /\ A + 1 \in 1 .. L
      /\ answers' = answers \union {r} \/ answers' = answers
      /\ UNCHANGED <<nonce_watermark, connVars, gateVars, life, order, unread, lost>>
  BY PayloadEffect
<1>2. /\ lock = t /\ L \in Nat \ {0} /\ DOMAIN order = 1 .. L /\ order[L] = n /\ n \notin unread
      /\ Over = L - 1
  BY <1>1, HolderWroteLast
<1>3. /\ task' \in [Tasks -> Calls] /\ DrawsFit' /\ LockIsExchange' /\ NoncesAreDrawn'
      /\ NoncesAreUnique' /\ ServedAreBehind' /\ NonceServedOnce'
  BY <1>1, ReleaseKeepsCalls
<1>4. /\ RequestsFollowOrder' /\ HaltedWereSent' /\ HaltIsExplained' /\ ResponsesFollowOrder'
      /\ Answers' = A + 1
  BY <1>1, ReadingKeepsStream DEF connVars, gateVars
<1>5. ReadsHaveAFrame'
  BY <1>1, <1>3, Constants DEF ReadsHaveAFrame, LockIsExchange, Waits
<1>6. D \in Nat
  BY <1>2, LeftAreFinite
<1>7. /\ Over <= A + D
      /\ unread = {} => A = Over
      /\ unread # {} => A <= Over - 1
  BY <1>1 DEF IInv, CallsAreAccounted, Alive
<1>8. n \in Nat /\ \A k \in 1 .. L : order[k] \in Nat
  BY <1>2, Constants DEF IInv, Types, Calls
<1>9. \A i, j \in 1 .. L : order[i] = order[j] => i = j
  BY <1>2 DEF IInv, NoncesAreUnique, IsInjective
<1>10. LeftUpTo(L - 1, order, unread) = LeftUpTo(L, order, unread)
  BY <1>2 DEF LeftUpTo
<1>11. LeftUpTo(L, order, unread) = {} <=> unread = {}
  <2>1. unread \subseteq ToSet(order)
    BY DEF IInv, NoncesAreDrawn
  <2> QED
    BY <1>2, <2>1 DEF LeftUpTo, ToSet
<1> HIDE DEF n, L, A, D
<1>12. r.nonce = n /\ r.answer = order[A + 1] /\ r \in [nonce : Nat, answer : Nat]
  BY <1>1, <1>8
<1> HIDE DEF r
<1>13. answers' \subseteq answers \union {r}
  BY <1>1
<1>14. Types'
  BY <1>1, <1>3, <1>12 DEF IInv, Types, connVars, gateVars
<1>15. CallsAreAccounted'
  <2>1. Over' = L
    BY <1>1, <1>2 DEF Over, L
  <2>2. L <= A + 1 + D /\ (unread = {} => A + 1 = L) /\ (unread # {} => A + 1 <= L - 1)
    BY <1>1, <1>2, <1>6, <1>7
  <2> QED
    BY <1>1, <1>4, <2>1, <2>2 DEF CallsAreAccounted, L, D
<1>16. AnswersAreBehind'
  <2> SUFFICES ASSUME NEW s \in answers'
               PROVE  \E j \in 1 .. L : j <= A + 1 /\ order[j] = s.answer
    BY <1>1, <1>2, <1>4 DEF AnswersAreBehind
  <2>1. CASE s = r
    BY <1>1, <1>12, <2>1
  <2>2. CASE s # r
    <3>1. PICK j \in 1 .. L : j <= A /\ order[j] = s.answer
      BY <1>2, <1>13, <2>2 DEF IInv, AnswersAreBehind, A
    <3> QED
      BY <1>1, <1>2, <3>1
  <2> QED
    BY <2>1, <2>2
<1>17. OwnOrLate(order, unread, answers')
  <2>1. OwnOrLate(order, unread, answers)
    BY OwnOrLateIs DEF IInv
  <2>2. \E i, j \in DOMAIN order :
          /\ order[i] = r.nonce /\ order[j] = r.answer
          /\ j <= i /\ i - j <= Cardinality(LeftUpTo(i - 1, order, unread))
          /\ i = j <=> LeftUpTo(i - 1, order, unread) = {}
    <3>1. L \in DOMAIN order /\ A + 1 \in DOMAIN order
      BY <1>1, <1>2
    <3>2. A + 1 <= L /\ L - (A + 1) <= D /\ (L = A + 1 <=> unread = {})
      BY <1>1, <1>2, <1>6, <1>7
    <3>3. /\ L - (A + 1) <= Cardinality(LeftUpTo(L - 1, order, unread))
          /\ L = A + 1 <=> LeftUpTo(L - 1, order, unread) = {}
      BY <1>10, <1>11, <3>2 DEF D
    <3> QED
      BY <1>2, <1>12, <3>1, <3>2, <3>3
  <2> QED
    BY <1>13, <2>1, <2>2 DEF OwnOrLate
<1>18. Once(answers')
  <2>1. ASSUME NEW s \in answers
        PROVE  s.answer # order[A + 1]
    <3>1. PICK j \in 1 .. L : j <= A /\ order[j] = s.answer
      BY <1>2 DEF IInv, AnswersAreBehind, A
    <3>2. j # A + 1
      BY <1>1, <3>1
    <3> QED
      BY <1>1, <1>9, <3>1, <3>2
  <2>2. Once(answers)
    BY OwnOrLateIs DEF IInv
  <2> QED
    BY <1>12, <1>13, <2>1, <2>2 DEF Once
<1>19. AnswersAreOwnOrLate'
  BY <1>1, <1>17, <1>18, OwnOrLateIs
<1> QED
  BY <1>3, <1>4, <1>5, <1>14, <1>15, <1>16, <1>19 DEF IInv

-----------------------------------------------------------------------------
(* The history of a stream nobody has written to.                          *)
LEMMA NothingWritten ==
  ASSUME order' = <<>>, unread' = {}, answers' = {}, lock' = NoTask
  PROVE  /\ order' \in Seq(1 .. MaxNonce) /\ Len(order') = 0 /\ DOMAIN order' = {}
         /\ ToSet(order') = {} /\ IsInjective(order')
         /\ AnswersAreOwnOrLate' /\ AnswersAreBehind'
         /\ Cardinality(LeftUpTo(0, order', unread')) = 0
<1>1. order' \in Seq(1 .. MaxNonce) /\ Len(order') = 0 /\ DOMAIN order' = {}
  OBVIOUS
<1>2. ToSet(order') = {} /\ IsInjective(order')
  BY <1>1 DEF ToSet, IsInjective
<1>3. AnswersAreOwnOrLate' /\ AnswersAreBehind'
  BY DEF AnswersAreOwnOrLate, AnswersAreBehind
<1>4. LeftUpTo(0, order', unread') = {}
  BY DEF LeftUpTo
<1> QED
  BY <1>1, <1>2, <1>3, <1>4, FS_EmptySet

(* A new stream, or none: nothing has been asked or answered on it.        *)
LEMMA BlankStreamKeepsIInv ==
  ASSUME stream'.last_nonce = 0, stream'.halted = <<>>, stream'.requests = <<>>,
         stream'.phase \in {"none", "raw"}, stream'.phase = "none" => ~stream'.up,
         shaking' => stream'.phase = "raw",
         stream'.responses \in {<<>>, <<Frame("HandshakeInit", 0, Fresh)>>},
         ~stream'.inside,
         order' = <<>>, unread' = {}, answers' = {}, lock' = NoTask
  PROVE  /\ RequestsFollowOrder' /\ HaltedWereSent' /\ HaltIsExplained'
         /\ ResponsesFollowOrder' /\ CallsAreAccounted'
         /\ AnswersAreBehind' /\ AnswersAreOwnOrLate'
<1>1. /\ Len(order') = 0 /\ DOMAIN order' = {} /\ AnswersAreOwnOrLate' /\ AnswersAreBehind'
      /\ Cardinality(LeftUpTo(0, order', unread')) = 0
  BY NothingWritten
<1>2. ~AckIsNext'
  BY DEF AckIsNext
<1>3. RequestsFollowOrder'
  BY <1>1, <1>2 DEF RequestsFollowOrder
<1>4. HaltedWereSent' /\ HaltIsExplained'
  BY DEF HaltedWereSent, HaltIsExplained, ToSet
<1>5. ResponsesFollowOrder'
  <2>1. Len(stream'.responses) <= 1
        /\ \A k \in DOMAIN stream'.responses : stream'.responses[k].type = "HandshakeInit"
    <3> DEFINE greeting == Frame("HandshakeInit", 0, Fresh)
    <3>1. greeting.type = "HandshakeInit"
      BY DEF Frame
    <3> HIDE DEF greeting
    <3>2. CASE stream'.responses = <<>>
      BY <3>2
    <3>3. CASE stream'.responses = <<greeting>>
      BY <3>1, <3>3
    <3> QED
      BY <3>2, <3>3 DEF greeting
  <2> QED
    BY <1>2, <2>1 DEF ResponsesFollowOrder
<1>6. CallsAreAccounted'
  <2>1. Answers' = 0
    BY DEF Answers
  <2>2. Over' = 0
    BY <1>1 DEF Over
  <2> QED
    BY <1>1, <2>1, <2>2 DEF CallsAreAccounted
<1> QED
  BY <1>1, <1>3, <1>4, <1>5, <1>6

LEMMA ConnectKeepsIInv ==
  ASSUME IInv, Connect
  PROVE  IInv'
<1>1. /\ shaking' = TRUE /\ lock = NoTask /\ lock' = NoTask
      /\ stream' = NewStream /\ order' = <<>> /\ unread' = {} /\ answers' = {}
      /\ UNCHANGED <<nonce_watermark, task, provider_commitment, gateVars, life, lost>>
  BY DEF Connect
<1>2. /\ stream'.last_nonce = 0 /\ stream'.halted = <<>> /\ stream'.requests = <<>>
      /\ stream'.phase = "raw" /\ stream'.responses = <<Frame("HandshakeInit", 0, Fresh)>>
      /\ ~stream'.inside
  BY <1>1 DEF NewStream, NoStream
<1>3. /\ RequestsFollowOrder' /\ HaltedWereSent' /\ HaltIsExplained'
      /\ ResponsesFollowOrder' /\ CallsAreAccounted'
      /\ AnswersAreBehind' /\ AnswersAreOwnOrLate'
  BY <1>1, <1>2, BlankStreamKeepsIInv
<1>4. stream' \in Streams
  <2>1. Frame("HandshakeInit", 0, Fresh) \in Messages
    BY Constants DEF Frame, Messages
  <2>2. <<Frame("HandshakeInit", 0, Fresh)>> \in Seq(Messages)
    BY <2>1
  <2>3. /\ stream'.phase = "raw" /\ stream'.up = TRUE /\ stream'.inside = FALSE
        /\ stream' = [phase |-> "raw", up |-> TRUE, inside |-> FALSE, last_nonce |-> 0,
                      halted |-> <<>>, requests |-> <<>>,
                      responses |-> <<Frame("HandshakeInit", 0, Fresh)>>]
    BY <1>1 DEF NewStream, NoStream
  <2> DEFINE greetings == <<Frame("HandshakeInit", 0, Fresh)>>
  <2> HIDE DEF greetings
  <2> QED
    BY <2>2, <2>3, Constants DEF Streams, greetings
<1>5. order' \in Seq(1 .. MaxNonce) /\ Len(order') = 0 /\ DOMAIN order' = {}
      /\ ToSet(order') = {} /\ IsInjective(order')
  BY <1>1, NothingWritten
<1>6. Types'
  BY <1>1, <1>4, <1>5 DEF IInv, Types, gateVars
<1>7. DrawsFit' /\ LockIsExchange' /\ NoncesAreDrawn'
  BY <1>1, <1>5 DEF IInv, DrawsFit, Begun, LockIsExchange, NoncesAreDrawn, Held, Waits
<1>8. NoncesAreUnique'
  BY <1>1, <1>5 DEF IInv, NoncesAreUnique, Held
<1>9. ServedAreBehind' /\ NonceServedOnce'
  BY <1>1, <1>2, <1>5 DEF IInv, ServedAreBehind, NonceServedOnce, Held, gateVars
<1>10. ReadsHaveAFrame'
  BY <1>1, <1>2, Constants DEF IInv, LockIsExchange, Waits, ReadsHaveAFrame
<1> QED
  BY <1>3, <1>6, <1>7, <1>8, <1>9, <1>10 DEF IInv

(* A restarted client draws its nonces anew, and what was served to the    *)
(* old one carries an earlier life.                                        *)
LEMMA RestartKeepsIInv ==
  ASSUME IInv, Restart
  PROVE  IInv'
<1>1. /\ life' = life + 1 /\ nonce_watermark' = 0 /\ provider_commitment' = 0
      /\ task' = [t \in Tasks |-> NewCall] /\ lock' = NoTask /\ shaking' = FALSE
      /\ stream' = NoStream
      /\ order' = <<>> /\ unread' = {} /\ answers' = {} /\ lost' = {}
      /\ UNCHANGED gateVars
  BY DEF Restart
<1>2. /\ stream'.last_nonce = 0 /\ stream'.halted = <<>> /\ stream'.requests = <<>>
      /\ stream'.phase = "none" /\ ~stream'.up /\ stream'.responses = <<>> /\ ~stream'.inside
  BY <1>1 DEF NoStream
<1>3. /\ RequestsFollowOrder' /\ HaltedWereSent' /\ HaltIsExplained'
      /\ ResponsesFollowOrder' /\ CallsAreAccounted'
      /\ AnswersAreBehind' /\ AnswersAreOwnOrLate'
  BY <1>1, <1>2, BlankStreamKeepsIInv
<1>4. \A t \in Tasks : task'[t] = NewCall
  BY <1>1
<1>5. order' \in Seq(1 .. MaxNonce) /\ Len(order') = 0 /\ DOMAIN order' = {}
      /\ ToSet(order') = {} /\ IsInjective(order')
  BY <1>1, NothingWritten
<1>6. Types'
  <2>1. stream' \in Streams
    BY <1>1, Constants DEF NoStream, Streams
  <2>2. task' \in [Tasks -> Calls]
    BY <1>1, Constants DEF NewCall, Calls
  <2> QED
    <3>1. life' \in Nat /\ nonce_watermark' \in Nat /\ provider_commitment' \in {0, Fresh}
      BY <1>1 DEF IInv, Types
    <3>2. lock' \in Tasks \union {NoTask} /\ shaking' \in BOOLEAN /\ answers' = {}
      BY <1>1
    <3>3. seed' \in [epoch : 1 .. MaxSeeds, spent : BOOLEAN]
          /\ served' \in Seq([life : Nat, nonce : Nat])
      BY <1>1 DEF IInv, Types, gateVars
    <3> QED
      BY <1>5, <2>1, <2>2, <3>1, <3>2, <3>3 DEF Types
<1>7. DrawsFit'
  <2>1. Begun' = {}
    BY <1>4 DEF Begun, NewCall
  <2> QED
    BY <1>1, <2>1, FS_EmptySet, Constants DEF DrawsFit
<1>8. LockIsExchange' /\ NoncesAreDrawn'
  BY <1>1, <1>4, <1>5, Constants DEF LockIsExchange, NoncesAreDrawn, Held, Waits, NewCall
<1>9. NoncesAreUnique'
  BY <1>1, <1>4, <1>5 DEF NoncesAreUnique, NewCall
<1>10. ServedAreBehind' /\ NonceServedOnce'
  <2>1. ASSUME NEW i \in DOMAIN served
        PROVE  served[i].life <= life + 1 /\ served[i].life # life + 1
    <3>1. served \in Seq([life : Nat, nonce : Nat]) /\ life \in Nat
      BY DEF IInv, Types
    <3>2. served[i] \in [life : Nat, nonce : Nat]
      BY <3>1, ElementOfSeq, LenProperties
    <3> QED
      BY <3>1, <3>2 DEF IInv, ServedAreBehind
  <2> QED
    BY <1>1, <2>1 DEF IInv, ServedAreBehind, NonceServedOnce, gateVars
<1>11. ReadsHaveAFrame'
  BY <1>2, <1>4 DEF ReadsHaveAFrame, NewCall
<1> QED
  BY <1>3, <1>6, <1>7, <1>8, <1>9, <1>10, <1>11 DEF IInv

-----------------------------------------------------------------------------
(* A step of one end of the stream that touches no call and writes no      *)
(* ticket.                                                                 *)
LEMMA CallPartsStay ==
  ASSUME IInv, stream' \in Streams,
         stream'.up => stream.up, stream'.last_nonce = stream.last_nonce,
         UNCHANGED <<nonce_watermark, callVars, gateVars, life, history>>
  PROVE  /\ DrawsFit' /\ LockIsExchange' /\ NoncesAreDrawn' /\ NoncesAreUnique'
         /\ ServedAreBehind' /\ NonceServedOnce' /\ AnswersAreOwnOrLate'
<1> USE DEF callVars, gateVars, history
<1>1. DrawsFit' /\ LockIsExchange' /\ NoncesAreDrawn'
  BY DEF IInv, DrawsFit, Begun, LockIsExchange, Waits, NoncesAreDrawn, Held
<1>2. NoncesAreUnique' /\ NonceServedOnce'
  BY DEF IInv, NoncesAreUnique, NonceServedOnce
<1>3. ServedAreBehind'
  BY DEF IInv, ServedAreBehind, Held
<1>4. AnswersAreOwnOrLate'
  BY OwnOrLateIs DEF IInv
<1> QED
  BY <1>1, <1>2, <1>3, <1>4

(* A stream that is down keeps what it held and promises less.             *)
LEMMA ConnectionEndsKeepsIInv ==
  ASSUME IInv, ConnectionEnds
  PROVE  IInv'
<1>1. /\ stream' = [stream EXCEPT !.up = FALSE]
      /\ UNCHANGED <<nonce_watermark, callVars, connVars, gateVars, life, history>>
  BY DEF ConnectionEnds
<1>2. /\ stream' \in Streams /\ ~stream'.up
      /\ stream'.phase = stream.phase /\ stream'.last_nonce = stream.last_nonce
      /\ stream'.inside = stream.inside /\ stream'.halted = stream.halted
      /\ stream'.requests = stream.requests /\ stream'.responses = stream.responses
  BY <1>1 DEF IInv, Types, Streams
<1>3. /\ DrawsFit' /\ LockIsExchange' /\ NoncesAreDrawn' /\ NoncesAreUnique'
      /\ ServedAreBehind' /\ NonceServedOnce' /\ AnswersAreOwnOrLate'
  BY <1>1, <1>2, CallPartsStay
<1>4. Types'
  BY <1>1, <1>2 DEF IInv, Types, callVars, connVars, gateVars, history
<1>5. ~AckIsNext' /\ (Alive' => Alive) /\ Answers' = Answers
  BY <1>2 DEF AckIsNext, Alive, Answers, IInv, Types, Streams
<1>6. RequestsFollowOrder' /\ HaltedWereSent' /\ HaltIsExplained'
  BY <1>1, <1>2, <1>5 DEF IInv, RequestsFollowOrder, HaltedWereSent, HaltIsExplained, LeftGap,
                          connVars, gateVars, history
<1>7. ResponsesFollowOrder'
  BY <1>1, <1>2, <1>5 DEF IInv, ResponsesFollowOrder, history
<1>8. CallsAreAccounted'
  BY <1>1, <1>2, <1>5 DEF IInv, CallsAreAccounted, Over, LeftUpTo, callVars, history
<1>9. AnswersAreBehind' /\ ReadsHaveAFrame'
  BY <1>1, <1>2, <1>5 DEF IInv, AnswersAreBehind, ReadsHaveAFrame, callVars, history
<1> QED
  BY <1>3, <1>4, <1>6, <1>7, <1>8, <1>9 DEF IInv

(* Other sessions wear the seed out, and that explains every later halt.   *)
LEMMA SeedStepKeepsIInv ==
  ASSUME IInv, OtherSessionWins \/ Rotate
  PROVE  IInv'
<1>1. /\ seed' \in [epoch : 1 .. MaxSeeds, spent : BOOLEAN]
      /\ seed' # [epoch |-> Fresh, spent |-> FALSE]
      /\ UNCHANGED <<nonce_watermark, callVars, connVars, stream, served, life, history>>
  <2>1. CASE OtherSessionWins
    BY <2>1, Constants DEF OtherSessionWins, IInv, Types
  <2>2. CASE Rotate
    BY <2>2, Constants DEF Rotate, IInv, Types, Fresh
  <2> QED
    BY <2>1, <2>2
<1> USE DEF callVars, connVars, history
<1>2. Types' /\ DrawsFit' /\ LockIsExchange' /\ NoncesAreDrawn'
  BY <1>1 DEF IInv, Types, DrawsFit, Begun, LockIsExchange, Waits, NoncesAreDrawn, Held
<1>3. NoncesAreUnique' /\ NonceServedOnce' /\ ServedAreBehind'
  BY <1>1 DEF IInv, NoncesAreUnique, NonceServedOnce, ServedAreBehind, Held
<1>4. RequestsFollowOrder' /\ ResponsesFollowOrder' /\ HaltedWereSent'
  BY <1>1 DEF IInv, RequestsFollowOrder, ResponsesFollowOrder, AckIsNext, HaltedWereSent
<1>5. HaltIsExplained'
  BY <1>1 DEF HaltIsExplained
<1>6. CallsAreAccounted'
  BY <1>1 DEF IInv, CallsAreAccounted, Over, Alive, Answers, LeftUpTo
<1>7. AnswersAreOwnOrLate'
  BY <1>1, OwnOrLateIs DEF IInv
<1>8. AnswersAreBehind' /\ ReadsHaveAFrame'
  BY <1>1 DEF IInv, AnswersAreBehind, Answers, ReadsHaveAFrame
<1> QED
  BY <1>2, <1>3, <1>4, <1>5, <1>6, <1>7, <1>8 DEF IInv

(* The client reads the greeting and acks it: the ack is the first frame   *)
(* of the stream exactly when no ticket was written before.                *)
LEMMA HandshakeKeepsIInv ==
  ASSUME IInv, Handshake
  PROVE  IInv'
<1>1. /\ shaking /\ lock = NoTask /\ shaking' = FALSE
      /\ UNCHANGED <<nonce_watermark, callVars, gateVars, life, history>>
  BY DEF Handshake
<1>2. stream.phase = "raw" /\ ~AckIsNext
  BY <1>1 DEF IInv, RequestsFollowOrder
<1>3. CASE HandshakeFails
  <2>1. stream \in Streams /\ provider_commitment' = provider_commitment
    BY <1>3 DEF HandshakeFails, IInv, Types
  <2>2. CASE stream.inside /\ ReadsOn
    <3>1. /\ stream' \in Streams
          /\ stream'.phase = stream.phase /\ stream'.up = stream.up
          /\ stream'.last_nonce = stream.last_nonce /\ stream'.halted = stream.halted
          /\ stream'.requests = stream.requests
          /\ \/ stream'.responses = stream.responses
             \/ stream.responses # <<>> /\ stream'.responses = Tail(stream.responses)
          /\ stream'.inside => stream'.responses # <<>>
      BY <2>2, ReadsOnEffect
    <3>2. /\ RequestsFollowOrder' /\ HaltedWereSent' /\ HaltIsExplained' /\ ResponsesFollowOrder'
          /\ Alive' => Alive
          /\ Answers' = Answers
      BY <1>1, <1>2, <3>1, ReadingKeepsStream DEF gateVars, history
    <3>3. /\ DrawsFit' /\ LockIsExchange' /\ NoncesAreDrawn' /\ NoncesAreUnique'
          /\ ServedAreBehind' /\ NonceServedOnce' /\ AnswersAreOwnOrLate'
      BY <1>1, <3>1, CallPartsStay
    <3>4. Types'
      BY <1>1, <2>1, <3>1 DEF IInv, Types, callVars, gateVars, history
    <3>5. CallsAreAccounted'
      BY <1>1, <2>2, <3>2 DEF IInv, CallsAreAccounted, Over, LeftUpTo, callVars, history
    <3>6. AnswersAreBehind' /\ ReadsHaveAFrame'
      BY <1>1, <1>2, <3>1, <3>2 DEF IInv, AnswersAreBehind, ReadsHaveAFrame, callVars, history
    <3> QED
      BY <3>2, <3>3, <3>4, <3>5, <3>6 DEF IInv
  <2>3. CASE stream.responses = <<>> /\ stream' = [stream EXCEPT !.up = FALSE]
    <3>1. /\ stream' \in Streams /\ ~stream'.up
          /\ stream'.phase = stream.phase /\ stream'.last_nonce = stream.last_nonce
          /\ stream'.inside = stream.inside /\ stream'.halted = stream.halted
          /\ stream'.requests = stream.requests /\ stream'.responses = stream.responses
      BY <2>1, <2>3 DEF Streams
    <3>2. ~AckIsNext' /\ ~Alive' /\ Answers' = Answers
      BY <2>3, <3>1 DEF AckIsNext, Alive, Answers
    <3>3. /\ DrawsFit' /\ LockIsExchange' /\ NoncesAreDrawn' /\ NoncesAreUnique'
          /\ ServedAreBehind' /\ NonceServedOnce' /\ AnswersAreOwnOrLate'
      BY <1>1, <3>1, CallPartsStay
    <3>4. Types'
      BY <1>1, <2>1, <3>1 DEF IInv, Types, callVars, gateVars, history
    <3>5. RequestsFollowOrder' /\ ResponsesFollowOrder'
      BY <1>1, <1>2, <3>1, <3>2 DEF IInv, RequestsFollowOrder, ResponsesFollowOrder, history
    <3>6. HaltedWereSent' /\ HaltIsExplained'
      BY <1>1, <3>1 DEF IInv, HaltedWereSent, HaltIsExplained, LeftGap, gateVars, history
    <3>7. CallsAreAccounted'
      BY <3>2 DEF CallsAreAccounted
    <3>8. AnswersAreBehind' /\ ReadsHaveAFrame'
      BY <1>1, <3>1, <3>2 DEF IInv, AnswersAreBehind, ReadsHaveAFrame, callVars, history
    <3> QED
      BY <3>3, <3>4, <3>5, <3>6, <3>7, <3>8 DEF IInv
  <2> QED
    BY <1>3, <2>2, <2>3 DEF HandshakeFails
<1>4. CASE HandshakeOk
  <2> DEFINE ack == Frame("HandshakeAck", 0, 0)
             m == Len(stream.requests)
             L == Len(order)
  <2>1. /\ stream' = [stream EXCEPT !.responses = Tail(stream.responses),
                                    !.requests = Append(stream.requests, ack)]
        /\ provider_commitment' = Head(stream.responses).commitment
        /\ ~stream.inside /\ stream.responses # <<>>
    BY <1>4 DEF HandshakeOk
  <2>2. stream \in Streams /\ stream.responses \in Seq(Messages) /\ stream.requests \in Seq(Messages)
        /\ order \in Seq(1 .. MaxNonce) /\ L \in Nat
    BY DEF IInv, Types, Streams
  <2>3. ack \in Messages /\ ack.type = "HandshakeAck"
    BY Constants DEF Frame, Messages
  <2> HIDE DEF ack
  <2>4. /\ Append(stream.requests, ack) \in Seq(Messages) /\ m \in Nat
        /\ Len(Append(stream.requests, ack)) = m + 1 /\ Append(stream.requests, ack) # <<>>
        /\ \A k \in 1 .. m : Append(stream.requests, ack)[k] = stream.requests[k]
        /\ Append(stream.requests, ack)[m + 1] = ack
    BY <2>2, <2>3, AppendFacts, AppendProperties
  <2>5. /\ Tail(stream.responses) \in Seq(Messages) /\ Head(stream.responses) \in Messages
        /\ Len(Tail(stream.responses)) = Len(stream.responses) - 1
        /\ Len(stream.responses) \in Nat \ {0}
    BY <2>1, <2>2, TailFacts
  <2>6. Tail(stream.responses) = <<>>
    <3>1. Len(stream.responses) <= 1
      BY <1>2 DEF IInv, ResponsesFollowOrder
    <3>2. Len(Tail(stream.responses)) = 0
      <4> DEFINE a == Len(stream.responses)
                 b == Len(Tail(stream.responses))
      <4>1. b = a - 1 /\ a \in Nat \ {0} /\ a <= 1
        BY <2>5, <3>1
      <4> HIDE DEF a, b
      <4>2. b = 0
        BY <4>1
      <4> QED
        BY <4>2 DEF b
    <3> QED
      BY <2>5, <3>2, EmptySeq
  <2>7. /\ stream' \in Streams /\ stream'.phase = "raw" /\ stream'.up = stream.up
        /\ stream'.last_nonce = stream.last_nonce /\ stream'.halted = stream.halted
        /\ stream'.inside = stream.inside /\ stream'.responses = <<>>
        /\ stream'.requests = Append(stream.requests, ack)
    BY <1>2, <2>1, <2>2, <2>4, <2>5, <2>6 DEF Streams
  <2> DEFINE q == stream'.requests
  <2>8. /\ Len(q) = m + 1 /\ q # <<>> /\ \A k \in 1 .. m : q[k] = stream.requests[k]
        /\ q[m + 1] = ack
    BY <2>4, <2>7
  <2> HIDE DEF q
  <2>9. /\ DrawsFit' /\ LockIsExchange' /\ NoncesAreDrawn' /\ NoncesAreUnique'
        /\ ServedAreBehind' /\ NonceServedOnce' /\ AnswersAreOwnOrLate'
    BY <1>1, <2>7, CallPartsStay
  <2>10. Types'
    <3>1. provider_commitment' \in {0, Fresh}
      BY <2>1, <2>5 DEF Messages
    <3> QED
      BY <1>1, <2>7, <3>1 DEF IInv, Types, callVars, gateVars, history
  <2>11. AckIsNext' => stream.up /\ m = 0 /\ L = 0
    <3> SUFFICES ASSUME stream.up, IsAck(q[1])
                 PROVE  m = 0 /\ L = 0
      BY <2>7 DEF AckIsNext, IsAck, q
    <3>1. m = 0
      <4> SUFFICES ASSUME m # 0 PROVE FALSE
        OBVIOUS
      <4>1. 1 \in 1 .. m /\ stream.requests # <<>>
        BY <2>2, <2>4, EmptySeq
      <4>2. q[1] = stream.requests[1]
        BY <2>8, <4>1
      <4> QED
        BY <1>2, <4>1, <4>2 DEF AckIsNext, IsAck
    <3>2. stream.requests = <<>>
      BY <2>2, <3>1, EmptySeq
    <3>3. order = <<>>
      BY <1>2, <3>2 DEF IInv, RequestsFollowOrder
    <3> QED
      BY <3>1, <3>3
  <2>12. RequestsFollowOrder'
    <3>1. stream.last_nonce = 0 /\ (stream.phase = "none" => ~stream.up)
      BY <1>2 DEF IInv, RequestsFollowOrder
    <3>2. AckIsNext' => /\ Len(q) = L + 1
                        /\ \A k \in 1 .. L : q[k + 1].nonce = order[k]
      BY <2>8, <2>11
    <3> QED
      BY <1>1, <2>7, <2>8, <3>1, <3>2 DEF RequestsFollowOrder, history, q
  <2>13. ResponsesFollowOrder'
    BY <1>2, <2>7 DEF ResponsesFollowOrder
  <2>14. HaltedWereSent' /\ HaltIsExplained'
    BY <1>1, <2>7 DEF IInv, HaltedWereSent, HaltIsExplained, LeftGap, gateVars, history
  <2>15. CallsAreAccounted'
    <3>1. Alive /\ Answers = 0 /\ Answers' = 0 /\ stream'.inside = stream.inside
      BY <1>2, <2>1, <2>7 DEF Alive, Answers
    <3> QED
      BY <1>1, <3>1 DEF IInv, CallsAreAccounted, Over, LeftUpTo, callVars, history
  <2>16. AnswersAreBehind'
    BY <1>1, <1>2 DEF IInv, AnswersAreBehind, callVars
  <2>17. ReadsHaveAFrame'
    BY <1>1, <1>2, <2>1, <2>7 DEF IInv, ReadsHaveAFrame, callVars
  <2> QED
    BY <2>9, <2>10, <2>12, <2>13, <2>14, <2>15, <2>16, <2>17 DEF IInv
<1> QED
  BY <1>1, <1>3, <1>4 DEF Handshake

(* The provider takes the first frame: an ack opens the stream, anything   *)
(* else ends it.                                                           *)
LEMMA ProviderHandshakesKeepsIInv ==
  ASSUME IInv, ProviderHandshakes
  PROVE  IInv'
<1> DEFINE m == Len(stream.requests)
           L == Len(order)
<1>1. /\ stream.up /\ stream.phase = "raw" /\ stream.requests # <<>>
      /\ UNCHANGED <<nonce_watermark, callVars, connVars, gateVars, life, history>>
  BY DEF ProviderHandshakes
<1>2. stream \in Streams /\ stream.requests \in Seq(Messages) /\ L \in Nat /\ stream.last_nonce = 0
  BY <1>1 DEF IInv, Types, Streams, RequestsFollowOrder
<1>3. /\ Head(stream.requests) = stream.requests[1] /\ m \in Nat \ {0}
      /\ Tail(stream.requests) \in Seq(Messages) /\ Len(Tail(stream.requests)) = m - 1
      /\ \A k \in 1 .. m - 1 : Tail(stream.requests)[k] = stream.requests[k + 1]
  BY <1>1, <1>2, TailFacts
<1>4. AckIsNext <=> Head(stream.requests).type = "HandshakeAck"
  BY <1>1, <1>3 DEF AckIsNext, IsAck
<1>5. /\ stream' \in Streams /\ stream'.requests = Tail(stream.requests)
      /\ stream'.phase = (IF AckIsNext THEN "open" ELSE "raw") /\ stream'.up = AckIsNext
      /\ stream'.last_nonce = 0 /\ stream'.halted = stream.halted
      /\ stream'.inside = stream.inside /\ stream'.responses = stream.responses
  <2>1. AckIsNext \in BOOLEAN
    BY <1>4
  <2>2. stream' = [stream EXCEPT !.requests = Tail(stream.requests),
                     !.phase = IF AckIsNext THEN "open" ELSE "raw", !.up = AckIsNext]
    BY <1>1, <1>4 DEF ProviderHandshakes
  <2> QED
    BY <1>2, <1>3, <2>1, <2>2 DEF Streams
<1>6. /\ DrawsFit' /\ LockIsExchange' /\ NoncesAreDrawn' /\ NoncesAreUnique'
      /\ ServedAreBehind' /\ NonceServedOnce' /\ AnswersAreOwnOrLate'
  BY <1>1, <1>2, <1>5, CallPartsStay
<1>7. Types'
  BY <1>1, <1>5 DEF IInv, Types, callVars, connVars, gateVars, history
<1>8. HaltedWereSent' /\ HaltIsExplained'
  BY <1>1, <1>5 DEF IInv, HaltedWereSent, HaltIsExplained, LeftGap, gateVars, history
<1>11. AnswersAreBehind' /\ ReadsHaveAFrame'
  <2>1. answers = {} /\ \A t \in Tasks : task[t].at # "reading"
    BY <1>1 DEF IInv, AnswersAreBehind, ReadsHaveAFrame
  <2> QED
    BY <1>1, <1>5, <2>1 DEF IInv, AnswersAreBehind, ReadsHaveAFrame, callVars
<1>9. CASE AckIsNext
  <2>1. m = L + 1 /\ \A k \in 1 .. L : stream.requests[k + 1].nonce = order[k]
    BY <1>1, <1>9 DEF IInv, RequestsFollowOrder
  <2>2. ~shaking /\ stream.responses = <<>> /\ ~stream.inside
    BY <1>1, <1>9 DEF IInv, RequestsFollowOrder, ResponsesFollowOrder, ReadsHaveAFrame
  <2> HIDE DEF m, L
  <2>3. Len(stream'.requests) = L /\ \A k \in 1 .. L : stream'.requests[k].nonce = order[0 + k]
    BY <1>2, <1>3, <1>5, <2>1 DEF m
  <2>4. RequestsFollowOrder'
    <3>1. /\ L = 0 + Len(stream'.requests)
          /\ \A k \in 1 .. Len(stream'.requests) : stream'.requests[k].nonce = order[0 + k]
      BY <1>2, <2>3
    <3>2. order' = order /\ ~shaking' /\ stream'.phase = "open" /\ stream'.last_nonce = 0
      BY <1>1, <1>5, <1>9, <2>2 DEF connVars, history
    <3> QED
      BY <3>1, <3>2 DEF RequestsFollowOrder, L
  <2>5. ResponsesFollowOrder'
    BY <1>1, <1>2, <1>5, <1>9, <2>2 DEF ResponsesFollowOrder, history, L
  <2>6. CallsAreAccounted'
    <3>1. Alive /\ Answers = 0
      BY <1>1, <2>2 DEF Alive, Answers
    <3>2. Answers' = 0
      <4>1. stream'.last_nonce = 0 /\ Len(stream'.responses) = 0
        BY <1>5, <2>2
      <4> QED
        BY <4>1 DEF Answers
    <3> QED
      BY <1>1, <1>5, <3>1, <3>2 DEF IInv, CallsAreAccounted, Over, LeftUpTo, callVars, history
  <2> QED
    BY <1>6, <1>7, <1>8, <1>11, <2>4, <2>5, <2>6 DEF IInv
<1>10. CASE ~AckIsNext
  <2>1. ~AckIsNext' /\ (Alive' => Alive) /\ Answers' = Answers
    BY <1>1, <1>5, <1>10 DEF AckIsNext, Alive, Answers
  <2>2. RequestsFollowOrder' /\ ResponsesFollowOrder'
    BY <1>1, <1>5, <1>10, <2>1 DEF IInv, RequestsFollowOrder, ResponsesFollowOrder, connVars, history
  <2>3. CallsAreAccounted'
    BY <1>1, <1>5, <2>1 DEF IInv, CallsAreAccounted, Over, LeftUpTo, callVars, history
  <2> QED
    BY <1>6, <1>7, <1>8, <1>11, <2>2, <2>3 DEF IInv
<1> QED
  BY <1>9, <1>10

-----------------------------------------------------------------------------
(* What the gate finds at the head of an open stream: the ticket after the *)
(* watermark, in the order of writing.                                     *)
LEMMA GateFindsNext ==
  ASSUME IInv, stream.up, stream.phase = "open", stream.requests # <<>>
  PROVE  LET w == stream.last_nonce
             m == Len(stream.requests)
             L == Len(order)
         IN  /\ w \in Nat /\ m \in Nat \ {0} /\ L = w + m /\ DOMAIN order = 1 .. L
             /\ Head(stream.requests) \in Messages
             /\ Head(stream.requests).nonce = order[w + 1]
             /\ order[w + 1] \in 1 .. MaxNonce /\ order[w + 1] \in 1 .. nonce_watermark
             /\ Tail(stream.requests) \in Seq(Messages) /\ Len(Tail(stream.requests)) = m - 1
             /\ \A k \in 1 .. m - 1 : Tail(stream.requests)[k].nonce = order[w + 1 + k]
             /\ \A k \in 1 .. w : order[k] = k
             /\ \A i, j \in 1 .. L : order[i] = order[j] => i = j
             /\ ~shaking /\ stream.halted = <<>>
<1> DEFINE w == stream.last_nonce
           m == Len(stream.requests)
           L == Len(order)
<1>1. /\ stream.requests \in Seq(Messages) /\ w \in Nat /\ L \in Nat /\ DOMAIN order = 1 .. L
      /\ stream.halted \in Seq(Messages) /\ \A k \in 1 .. L : order[k] \in 1 .. MaxNonce
  <2>1. order \in Seq(1 .. MaxNonce)
    BY DEF IInv, Types
  <2>2. L \in Nat /\ DOMAIN order = 1 .. L /\ \A k \in 1 .. L : order[k] \in 1 .. MaxNonce
    BY <2>1, LenProperties, ElementOfSeq
  <2> QED
    BY <2>2, Constants DEF IInv, Types, Streams
<1>2. /\ Head(stream.requests) = stream.requests[1] /\ Head(stream.requests) \in Messages
      /\ m \in Nat \ {0}
      /\ Tail(stream.requests) \in Seq(Messages) /\ Len(Tail(stream.requests)) = m - 1
      /\ \A k \in 1 .. m - 1 : Tail(stream.requests)[k] = stream.requests[k + 1]
  BY <1>1, TailFacts
<1>3. /\ L = w + m /\ \A k \in 1 .. m : stream.requests[k].nonce = order[w + k]
      /\ \A k \in 1 .. w : order[k] = k
  BY DEF IInv, RequestsFollowOrder
<1>4. ~shaking
  BY DEF IInv, RequestsFollowOrder
<1>5. stream.halted = <<>>
  <2> SUFFICES ASSUME stream.halted # <<>> PROVE FALSE
    OBVIOUS
  <2>1. Len(stream.halted) \in Nat \ {0} /\ DOMAIN stream.halted = 1 .. Len(stream.halted)
    BY <1>1, EmptySeq, LenProperties
  <2>2. 1 \in DOMAIN stream.halted
    BY <2>1
  <2> QED
    BY <2>2 DEF IInv, HaltedWereSent
<1>6. \A i, j \in 1 .. L : order[i] = order[j] => i = j
  BY <1>1 DEF IInv, NoncesAreUnique, IsInjective
<1>7. \A k \in 1 .. L : order[k] \in 1 .. nonce_watermark
  BY <1>1 DEF IInv, NoncesAreDrawn
<1> HIDE DEF w, m, L
<1>8. w + 1 \in 1 .. L /\ Head(stream.requests).nonce = order[w + 1]
  BY <1>1, <1>2, <1>3
<1>9. ASSUME NEW k \in 1 .. m - 1
      PROVE  Tail(stream.requests)[k].nonce = order[w + 1 + k]
  <2>1. k + 1 \in 1 .. m /\ w + (k + 1) = w + 1 + k
    BY <1>1, <1>2
  <2> QED
    BY <1>2, <1>3, <2>1
<1>10. order[w + 1] \in 1 .. MaxNonce /\ order[w + 1] \in 1 .. nonce_watermark
  BY <1>1, <1>7, <1>8
<1> QED
  BY <1>1, <1>2, <1>3, <1>4, <1>5, <1>6, <1>8, <1>9, <1>10 DEF w, m, L

(* A ticket is served: the watermark moves to it, and it was never served *)
(* before, in this life, on any stream.                                    *)
LEMMA GateAcceptKeepsIInv ==
  ASSUME IInv, stream.up, stream.phase = "open", stream.requests # <<>>,
         Accepts(Head(stream.requests)), Serves(Head(stream.requests)),
         served' = Append(served, [life |-> life, nonce |-> Head(stream.requests).nonce]),
         \E wins \in BOOLEAN : seed' = [seed EXCEPT !.spent = wins],
         UNCHANGED <<nonce_watermark, callVars, connVars, life, history>>
  PROVE  IInv'
<1> DEFINE w == stream.last_nonce
           m == Len(stream.requests)
           a == Len(stream.responses)
           L == Len(order)
           ticket == Head(stream.requests)
           answer == Frame("ComputeResp", ticket.nonce, 0)
           q == stream'.requests
           p == stream'.responses
<1>1. /\ w \in Nat /\ m \in Nat \ {0} /\ L = w + m /\ DOMAIN order = 1 .. L
      /\ ticket.nonce = order[w + 1]
      /\ order[w + 1] \in 1 .. MaxNonce /\ order[w + 1] \in 1 .. nonce_watermark
      /\ Tail(stream.requests) \in Seq(Messages) /\ Len(Tail(stream.requests)) = m - 1
      /\ \A k \in 1 .. m - 1 : Tail(stream.requests)[k].nonce = order[w + 1 + k]
      /\ \A k \in 1 .. w : order[k] = k
      /\ \A i, j \in 1 .. L : order[i] = order[j] => i = j
      /\ ~shaking /\ stream.halted = <<>>
  BY GateFindsNext
<1>2. ticket.nonce = w + 1 /\ w + 1 \in 1 .. L
  BY <1>1 DEF Accepts
<1>3. answer \in Messages /\ answer.type = "ComputeResp" /\ answer.nonce = w + 1
  BY <1>1, <1>2, Constants, SMTT(20) DEF Frame, Messages
<1>4. /\ stream.responses \in Seq(Messages) /\ a \in Nat /\ a <= w
      /\ \A k \in 1 .. a : /\ stream.responses[k].type = "ComputeResp"
                           /\ stream.responses[k].nonce = order[w - a + k]
  BY DEF IInv, Types, Streams, ResponsesFollowOrder
<1> HIDE DEF answer
<1>5. /\ Append(stream.responses, answer) \in Seq(Messages)
      /\ Len(Append(stream.responses, answer)) = a + 1
      /\ \A k \in 1 .. a : Append(stream.responses, answer)[k] = stream.responses[k]
      /\ Append(stream.responses, answer)[a + 1] = answer
  BY <1>3, <1>4, AppendFacts
<1>6. /\ stream' \in Streams /\ stream'.phase = "open" /\ stream'.up
      /\ stream'.last_nonce = w + 1 /\ stream'.halted = <<>> /\ stream'.inside = stream.inside
      /\ q = Tail(stream.requests) /\ p = Append(stream.responses, answer)
  <2>1. stream' = [stream EXCEPT !.requests = Tail(stream.requests),
                     !.responses = Append(stream.responses, answer), !.last_nonce = w + 1]
    BY <1>2 DEF Serves, Answered, answer, IInv, Types, Streams
  <2>2. w + 1 \in 0 .. MaxNonce
    BY <1>1, <1>2
  <2> QED
    BY <1>1, <1>5, <2>1, <2>2 DEF IInv, Types, Streams
<1>7. /\ Len(q) = m - 1 /\ \A k \in 1 .. m - 1 : q[k].nonce = order[w + 1 + k]
      /\ Len(p) = a + 1 /\ \A k \in 1 .. a : p[k] = stream.responses[k]
      /\ p[a + 1].type = "ComputeResp" /\ p[a + 1].nonce = w + 1
  <2>1. q = Tail(stream.requests) /\ p = Append(stream.responses, answer)
    BY <1>6
  <2> HIDE DEF q, p, w, m, a
  <2>2. Len(q) = m - 1 /\ \A k \in 1 .. m - 1 : q[k].nonce = order[w + 1 + k]
    BY <1>1, <2>1
  <2>3. Len(p) = a + 1 /\ \A k \in 1 .. a : p[k] = stream.responses[k]
    BY <1>5, <2>1
  <2>4. p[a + 1].type = "ComputeResp" /\ p[a + 1].nonce = w + 1
    BY <1>3, <1>5, <2>1
  <2> QED
    BY <2>2, <2>3, <2>4
<1> DEFINE e == [life |-> life, nonce |-> w + 1]
           c == Len(served)
<1>8. /\ e \in [life : Nat, nonce : Nat] /\ e.life = life /\ e.nonce = w + 1
      /\ served \in Seq([life : Nat, nonce : Nat])
  BY <1>1, SMTT(20) DEF IInv, Types
<1> HIDE DEF e
<1>9. /\ c \in Nat /\ DOMAIN served = 1 .. c
      /\ served' \in Seq([life : Nat, nonce : Nat]) /\ DOMAIN served' = 1 .. c + 1
      /\ \A i \in 1 .. c : served'[i] = served[i]
      /\ served'[c + 1] = e
  <2>1. served' = Append(served, e)
    BY <1>2 DEF e
  <2> QED
    BY <1>8, <2>1, AppendFacts
<1> HIDE DEF w, m, a, L, q, p, c
<1>10. Types'
  <2>1. seed' \in [epoch : 1 .. MaxSeeds, spent : BOOLEAN]
    BY DEF IInv, Types
  <2> QED
    BY <1>6, <1>9, <2>1 DEF IInv, Types, callVars, connVars, history
<1>11. DrawsFit' /\ LockIsExchange' /\ NoncesAreDrawn' /\ NoncesAreUnique'
  <2>1. DrawsFit' /\ LockIsExchange' /\ NoncesAreDrawn'
    BY DEF IInv, DrawsFit, Begun, LockIsExchange, Waits, NoncesAreDrawn, Held, callVars, history
  <2>2. NoncesAreUnique'
    BY DEF IInv, NoncesAreUnique, callVars, history
  <2> QED
    BY <2>1, <2>2
<1>12. RequestsFollowOrder'
  <2>1. L = w + 1 + (m - 1)
    BY <1>1
  <2>2. \A k \in 1 .. w + 1 : order[k] = k
    BY <1>1, <1>2
  <2> DEFINE v == w + 1
  <2>3. order' = order /\ ~shaking'
    BY <1>1 DEF connVars, history
  <2>4. stream'.up /\ stream'.phase = "open" /\ stream'.last_nonce = v
    BY <1>6
  <2>5. Len(order) = v + Len(q)
    BY <1>7, <2>1 DEF L
  <2>6. \A k \in 1 .. Len(q) : q[k].nonce = order[v + k]
    BY <1>7
  <2>7. \A k \in 1 .. v : order[k] = k
    BY <2>2
  <2> HIDE DEF v
  <2>8. Len(order') = stream'.last_nonce + Len(stream'.requests)
    BY <2>3, <2>4, <2>5 DEF q
  <2>9. \A k \in 1 .. Len(stream'.requests) :
          stream'.requests[k].nonce = order'[stream'.last_nonce + k]
    BY <2>3, <2>4, <2>6 DEF q
  <2>10. \A k \in 1 .. stream'.last_nonce : order'[k] = k
    BY <2>3, <2>4, <2>7
  <2> QED
    BY <2>3, <2>4, <2>8, <2>9, <2>10 DEF RequestsFollowOrder
<1>13. /\ \A t \in Tasks : Held(t) => task[t].nonce # w + 1
       /\ \A j \in w + 2 .. L : order[j] # w + 1
       /\ w + 1 <= nonce_watermark
  <2>1. order[w + 1] = w + 1 /\ w + 1 \in ToSet(order)
    BY <1>1, <1>2 DEF ToSet
  <2>2. \A t \in Tasks : Held(t) => task[t].nonce # w + 1
    BY <2>1 DEF IInv, NoncesAreUnique, Held
  <2>3. ASSUME NEW j \in w + 2 .. L
        PROVE  order[j] # w + 1
    <3>1. j \in 1 .. L /\ j # w + 1
      BY <1>1, <1>2
    <3> QED
      BY <1>1, <1>2, <2>1, <3>1
  <2> QED
    BY <1>1, <2>1, <2>2, <2>3 DEF IInv, Types
<1>14. \A i \in 1 .. c :
         /\ served[i].life <= life
         /\ served[i].life = life =>
              /\ served[i].nonce <= nonce_watermark
              /\ \A t \in Tasks : Held(t) => task[t].nonce # served[i].nonce
              /\ \A j \in w + 1 .. L : order[j] # served[i].nonce
  BY <1>9 DEF IInv, ServedAreBehind, w, L
<1>15. ServedAreBehind'
  <2>1. ASSUME NEW i \in 1 .. c + 1
        PROVE  /\ served'[i].life <= life
               /\ served'[i].life = life =>
                    /\ served'[i].nonce <= nonce_watermark
                    /\ \A t \in Tasks : Held(t) => task[t].nonce # served'[i].nonce
                    /\ \A j \in w + 2 .. L : order[j] # served'[i].nonce
    <3>1. CASE i = c + 1
      BY <1>8, <1>9, <1>13, <3>1 DEF IInv, Types
    <3>2. CASE i \in 1 .. c
      <4>1. w + 2 .. L \subseteq w + 1 .. L
        BY <1>1
      <4> QED
        BY <1>9, <1>14, <3>2, <4>1
    <3> QED
      BY <1>9, <3>1, <3>2
  <2>2. stream'.last_nonce + 1 = w + 2
    BY <1>1, <1>6
  <2>3. /\ order' = order /\ life' = life /\ nonce_watermark' = nonce_watermark
        /\ task' = task /\ DOMAIN served' = 1 .. c + 1
    BY <1>9 DEF callVars, history
  <2>4. ASSUME NEW i \in DOMAIN served'
        PROVE  /\ served'[i].life <= life'
               /\ served'[i].life = life' =>
                    /\ served'[i].nonce <= nonce_watermark'
                    /\ \A t \in Tasks : Held(t)' => task'[t].nonce # served'[i].nonce
                    /\ \A j \in stream'.last_nonce + 1 .. Len(order') : order'[j] # served'[i].nonce
    <3>1. i \in 1 .. c + 1
      BY <2>3
    <3>2. \A t \in Tasks : Held(t)' <=> Held(t)
      BY <2>3 DEF Held
    <3>3. stream'.last_nonce + 1 .. Len(order') = w + 2 .. L
      BY <2>2, <2>3 DEF L
    <3> QED
      BY <2>1, <2>3, <3>1, <3>2, <3>3
  <2> QED
    BY <2>4 DEF ServedAreBehind
<1>16. NonceServedOnce'
  <2>1. ASSUME NEW i \in 1 .. c
        PROVE  served[i] # e
    <3> SUFFICES ASSUME served[i] = e PROVE FALSE
      OBVIOUS
    <3>1. served[i].life = life /\ served[i].nonce = w + 1
      BY <1>8
    <3>2. w + 1 \in w + 1 .. L /\ order[w + 1] = w + 1
      BY <1>1, <1>2
    <3> QED
      BY <1>14, <3>1, <3>2
  <2>2. \A i, j \in 1 .. c : served[i] = served[j] => i = j
    BY <1>9 DEF IInv, NonceServedOnce, IsInjective
  <2>3. \A i, j \in 1 .. c + 1 : served'[i] = served'[j] => i = j
    <3> SUFFICES ASSUME NEW i \in 1 .. c + 1, NEW j \in 1 .. c + 1, served'[i] = served'[j]
                 PROVE  i = j
      OBVIOUS
    <3>1. CASE i \in 1 .. c /\ j \in 1 .. c
      BY <1>9, <2>2, <3>1
    <3>2. CASE i = c + 1 /\ j \in 1 .. c
      BY <1>9, <2>1, <3>2
    <3>3. CASE i \in 1 .. c /\ j = c + 1
      BY <1>9, <2>1, <3>3
    <3>4. CASE i = c + 1 /\ j = c + 1
      BY <3>4
    <3> QED
      BY <1>9, <3>1, <3>2, <3>3, <3>4
  <2> QED
    BY <1>9, <2>3 DEF NonceServedOnce, IsInjective
<1>17. HaltedWereSent' /\ HaltIsExplained'
  BY <1>6 DEF HaltedWereSent, HaltIsExplained, ToSet
<1>18. ResponsesFollowOrder'
  <2> DEFINE b == a + 1
             v == w + 1
  <2>1. b \in Nat /\ v \in Nat /\ b = a + 1 /\ v = w + 1 /\ b <= v /\ v <= L
    BY <1>1, <1>2, <1>4
  <2>2. /\ Len(p) = b /\ p[b].type = "ComputeResp" /\ p[b].nonce = v
        /\ stream'.last_nonce = v /\ order[v] = v
    BY <1>1, <1>2, <1>6, <1>7
  <2> HIDE DEF b, v
  <2>3. ASSUME NEW k \in 1 .. b
        PROVE  p[k].type = "ComputeResp" /\ p[k].nonce = order[v - b + k]
    <3>1. CASE k = b
      <4>1. v - b + k = v
        BY <2>1, <3>1
      <4> QED
        BY <2>2, <3>1, <4>1
    <3>2. CASE k \in 1 .. a
      <4>1. v - b + k = w - a + k
        BY <1>1, <1>4, <2>1, <3>2
      <4> QED
        BY <1>4, <1>7, <3>2, <4>1
    <3> QED
      BY <1>4, <2>1, <3>1, <3>2
  <2>4. order' = order
    BY DEF history
  <2>5. Len(stream'.responses) = b /\ stream'.last_nonce = v
        /\ stream'.phase = "open"
    BY <1>6, <2>2 DEF p
  <2>6. b <= v /\ v <= Len(order')
    BY <2>1, <2>4 DEF L
  <2>7. \A k \in 1 .. b : /\ stream'.responses[k].type = "ComputeResp"
                          /\ stream'.responses[k].nonce = order'[v - b + k]
    BY <2>3, <2>4 DEF p
  <2> QED
    BY <2>5, <2>6, <2>7 DEF ResponsesFollowOrder
<1>19. CallsAreAccounted' /\ AnswersAreBehind'
  <2>1. Alive /\ Answers = w - a
    BY DEF Alive, Answers, w, a
  <2>2. Answers' = w - a
    <3>1. Answers' = w + 1 - (a + 1)
      <4>1. Len(stream'.responses) = a + 1 /\ stream'.last_nonce = w + 1 /\ stream'.phase = "open"
        BY <1>6, <1>7 DEF p
      <4> QED
        BY <1>1, <1>4, <4>1 DEF Answers
    <3> QED
      BY <1>1, <1>4, <3>1
  <2>3. CallsAreAccounted' /\ AnswersAreBehind'
    BY <1>6, <2>1, <2>2 DEF IInv, CallsAreAccounted, AnswersAreBehind, Over, LeftUpTo, callVars, history
  <2> QED
    BY <2>3
<1>20. AnswersAreOwnOrLate'
  BY OwnOrLateIs DEF IInv, callVars, history
<1>21. ReadsHaveAFrame'
  <2>1. stream'.responses # <<>>
    <3>1. Len(p) # 0
      BY <1>4, <1>7
    <3> QED
      BY <3>1 DEF p
  <2> QED
    BY <1>6, <2>1 DEF IInv, ReadsHaveAFrame, callVars
<1> QED
  BY <1>10, <1>11, <1>12, <1>15, <1>16, <1>17, <1>18, <1>19, <1>20, <1>21 DEF IInv

(* A rejected ticket is out of turn, from before the handshake, or drawn   *)
(* under a seed that is worn out.                                          *)
LEMMA GateHaltKeepsIInv ==
  ASSUME IInv, stream.up, stream.phase = "open", stream.requests # <<>>,
         ~Accepts(Head(stream.requests)), Halts(Head(stream.requests)),
         UNCHANGED <<nonce_watermark, callVars, connVars, gateVars, life, history>>
  PROVE  IInv'
<1> DEFINE w == stream.last_nonce
           m == Len(stream.requests)
           L == Len(order)
           ticket == Head(stream.requests)
<1>1. /\ w \in Nat /\ m \in Nat \ {0} /\ L = w + m /\ DOMAIN order = 1 .. L
      /\ ticket \in Messages /\ ticket.nonce = order[w + 1]
      /\ order[w + 1] \in 1 .. MaxNonce
      /\ Tail(stream.requests) \in Seq(Messages)
      /\ \A k \in 1 .. w : order[k] = k
      /\ \A i, j \in 1 .. L : order[i] = order[j] => i = j
  BY GateFindsNext
<1> HIDE DEF ticket
<1>2. /\ stream' \in Streams /\ stream'.phase = "open" /\ ~stream'.up
      /\ stream'.last_nonce = stream.last_nonce /\ stream'.halted = <<ticket>>
      /\ stream'.inside = stream.inside /\ stream'.responses = stream.responses
  <2>1. stream' = [stream EXCEPT !.requests = Tail(stream.requests), !.halted = <<ticket>>, !.up = FALSE]
    BY DEF Halts, ticket
  <2>2. <<ticket>> \in Seq(Messages)
    BY <1>1
  <2> QED
    BY <1>1, <2>1, <2>2 DEF IInv, Types, Streams
<1>3. /\ DrawsFit' /\ LockIsExchange' /\ NoncesAreDrawn' /\ NoncesAreUnique'
      /\ ServedAreBehind' /\ NonceServedOnce' /\ AnswersAreOwnOrLate'
  BY <1>2, CallPartsStay
<1>4. Types'
  BY <1>2 DEF IInv, Types, callVars, connVars, gateVars, history
<1>5. (Alive' => Alive) /\ Answers' = Answers
  BY <1>2 DEF Alive, Answers
<1>6. RequestsFollowOrder'
  BY <1>2 DEF IInv, RequestsFollowOrder, connVars
<1>7. ResponsesFollowOrder'
  BY <1>2 DEF IInv, ResponsesFollowOrder, history
<1>8. CallsAreAccounted'
  BY <1>2, <1>5 DEF IInv, CallsAreAccounted, Over, LeftUpTo, callVars, history
<1>12. AnswersAreBehind' /\ ReadsHaveAFrame'
  BY <1>2, <1>5 DEF IInv, AnswersAreBehind, ReadsHaveAFrame, callVars, history
<1>9. ToSet(stream'.halted) = {ticket} /\ \A i \in DOMAIN stream'.halted : stream'.halted[i] = ticket
  BY <1>2 DEF ToSet
<1> HIDE DEF w, m, L
<1>10. HaltedWereSent'
  <2>1. w + 1 \in DOMAIN order
    BY <1>1
  <2> QED
    BY <1>1, <1>2, <1>9, <2>1 DEF HaltedWereSent, history
<1>11. HaltIsExplained'
  <2>1. CASE seed.spent \/ ticket.commitment # seed.epoch
    BY <1>1, <1>9, <2>1 DEF HaltIsExplained, gateVars, Messages
  <2>2. CASE ticket.nonce # w + 1
    <3> DEFINE n == ticket.nonce
               g == w + 1
    <3>1. n \in Nat \ {0} /\ g \in 1 .. L /\ order[g] = n
      BY <1>1
    <3>2. n > g
      <4> SUFFICES ASSUME n <= g PROVE FALSE
        BY <1>1, <3>1
      <4>1. n \in 1 .. w /\ n \in 1 .. L
        BY <1>1, <2>2, <3>1
      <4>2. order[n] = n
        BY <1>1, <4>1
      <4> QED
        BY <1>1, <2>2, <3>1, <4>1, <4>2
    <3>3. ASSUME NEW i \in 1 .. L, NEW j \in 1 .. L, order[i] = g, order[j] = n
          PROVE  i > j
      <4>1. j = g
        BY <1>1, <3>1, <3>3
      <4>2. i # g
        BY <2>2, <3>1, <3>3
      <4>3. i \notin 1 .. w
        BY <1>1, <3>3
      <4> QED
        BY <1>1, <4>1, <4>2, <4>3
    <3>4. g \in 1 .. n - 1
      BY <1>1, <3>1, <3>2
    <3> HIDE DEF n, g
    <3>5. LeftGap(ticket)
      BY <1>1, <3>3, <3>4 DEF LeftGap, n
    <3> QED
      BY <1>9, <3>5 DEF HaltIsExplained, LeftGap, history
  <2> QED
    BY <2>1, <2>2 DEF Accepts, ticket, w
<1> QED
  BY <1>3, <1>4, <1>6, <1>7, <1>8, <1>10, <1>11, <1>12 DEF IInv

-----------------------------------------------------------------------------
LEMMA InitIInv ==
  Init => IInv
<1> SUFFICES ASSUME Init PROVE IInv
  OBVIOUS
<1> USE DEF Init
<1>1. stream.up = FALSE /\ stream.phase = "none" /\ stream.last_nonce = 0
      /\ stream.halted = <<>> /\ stream.requests = <<>> /\ stream.responses = <<>>
      /\ stream.inside = FALSE
  BY DEF NoStream
<1>2. \A t \in Tasks : task[t] = NewCall
  OBVIOUS
<1>3. Types
  <2>1. stream \in Streams
    BY Constants DEF NoStream, Streams
  <2>2. task \in [Tasks -> Calls]
    BY Constants DEF NewCall, Calls
  <2>3. seed \in [epoch : 1 .. MaxSeeds, spent : BOOLEAN]
    BY Constants
  <2>4. order \in Seq(1 .. MaxNonce) /\ served \in Seq([life : Nat, nonce : Nat])
    OBVIOUS
  <2>5. answers = {} /\ nonce_watermark \in Nat /\ life \in Nat
    OBVIOUS
  <2> QED
    BY <2>1, <2>2, <2>3, <2>4, <2>5 DEF Types
<1>4. DrawsFit
  <2>1. Begun = {}
    BY <1>2 DEF Begun, NewCall
  <2> QED
    BY <2>1, FS_EmptySet, Constants DEF DrawsFit
<1>5. LockIsExchange /\ NoncesAreDrawn
  BY <1>2, Constants DEF LockIsExchange, NoncesAreDrawn, Held, Waits, NewCall
<1>6. NoncesAreUnique /\ NonceServedOnce /\ ServedAreBehind
  BY <1>2 DEF NoncesAreUnique, NonceServedOnce, ServedAreBehind, NewCall, ToSet, IsInjective
<1>7. RequestsFollowOrder /\ ResponsesFollowOrder /\ HaltedWereSent /\ HaltIsExplained
  BY <1>1 DEF RequestsFollowOrder, ResponsesFollowOrder, AckIsNext, HaltedWereSent, HaltIsExplained, ToSet
<1>8. CallsAreAccounted /\ AnswersAreOwnOrLate /\ AnswersAreBehind /\ ReadsHaveAFrame
  BY <1>1, <1>2 DEF CallsAreAccounted, Alive, AnswersAreOwnOrLate, AnswersAreBehind, ReadsHaveAFrame, NewCall
<1> QED
  BY <1>3, <1>4, <1>5, <1>6, <1>7, <1>8 DEF IInv

LEMMA NextKeepsIInv ==
  IInv /\ [Next]_vars => IInv'
<1> SUFFICES ASSUME IInv, [Next]_vars PROVE IInv'
  OBVIOUS
<1>1. ASSUME NEW t \in Tasks, get_provider_commitment(t) \/ Call(t)
      PROVE  IInv'
  BY <1>1, BeginKeepsIInv, DrawKeepsIInv, SignKeepsIInv, SendKeepsIInv, HeaderKeepsIInv,
     PayloadKeepsIInv, LeaveKeepsIInv, ReceiveFailsKeepsIInv DEF Call
<1>2. ASSUME NEW t \in Tasks, Cancel(t)
      PROVE  IInv'
  BY <1>2, LeaveKeepsIInv, CancelEarlyKeepsIInv DEF Cancel
<1>3. CASE Connect \/ Handshake \/ Restart
  BY <1>3, ConnectKeepsIInv, HandshakeKeepsIInv, RestartKeepsIInv
<1>4. CASE ProviderHandshakes
  BY <1>4, ProviderHandshakesKeepsIInv
<1>5. CASE Gate
  <2>1. CASE Accepts(Head(stream.requests))
    BY <1>5, <2>1, GateAcceptKeepsIInv DEF Gate
  <2>2. CASE ~Accepts(Head(stream.requests))
    BY <1>5, <2>2, GateHaltKeepsIInv DEF Gate
  <2> QED
    BY <2>1, <2>2
<1>6. CASE OtherSessionWins \/ Rotate \/ ConnectionEnds
  BY <1>6, SeedStepKeepsIInv, ConnectionEndsKeepsIInv
<1>7. CASE UNCHANGED vars
  <2> USE <1>7 DEF vars, callVars, connVars, gateVars, history
  <2>1. Types' /\ DrawsFit' /\ LockIsExchange' /\ NoncesAreDrawn'
    BY DEF IInv, Types, DrawsFit, Begun, LockIsExchange, Waits, NoncesAreDrawn, Held
  <2>2. NoncesAreUnique' /\ ServedAreBehind' /\ ReadsHaveAFrame'
    BY DEF IInv, NoncesAreUnique, ServedAreBehind, Held, ReadsHaveAFrame
  <2>3. StreamParts'
    BY StreamPartsStay DEF IInv, StreamParts
  <2> QED
    BY <2>1, <2>2, <2>3 DEF IInv, StreamParts
<1> QED
  BY <1>1, <1>2, <1>3, <1>4, <1>5, <1>6, <1>7 DEF Next, Provider

LEMMA Invariance ==
  Spec => []IInv
<1> QED
  BY InitIInv, NextKeepsIInv, PTL DEF Spec

-----------------------------------------------------------------------------
(* Every variable keeps its type within the bounds, and a call waits for   *)
(* its answer exactly while it holds the lock: transport.rs:123.           *)
THEOREM TypesAreKept ==
  Spec => []TypeOK
<1>1. IInv => TypeOK
  <2> SUFFICES ASSUME IInv PROVE TypeOK
    OBVIOUS
  <2>1. nonce_watermark \in 0 .. MaxNonce
    BY WatermarkFits DEF IInv
  <2>2. stream.phase \in {"none", "raw", "open"} /\ stream.last_nonce \in 0 .. MaxNonce
    BY DEF IInv, Types, Streams
  <2> QED
    BY <2>1, <2>2 DEF IInv, Types, Calls, LockIsExchange, Waits, ReadsHaveAFrame, TypeOK
<1> QED
  BY <1>1, Invariance, PTL

(* However many callers there are, and however often they fail, are        *)
(* dropped or find no stream, no nonce is drawn twice in one life of the   *)
(* client: the counter is never taken back, crypto.rs:95.                  *)
THEOREM NoNonceIsDrawnTwice ==
  Spec => []NoncesAreUnique
<1>1. IInv => NoncesAreUnique
  BY DEF IInv
<1> QED
  BY <1>1, Invariance, PTL

(* However often the client connects again and the watermark starts from   *)
(* zero, the provider serves no nonce of one life twice: what can still    *)
(* be written is behind everything served.                                 *)
THEOREM NoNonceIsServedTwice ==
  Spec => []NonceServedOnce
<1>1. IInv => NonceServedOnce
  BY DEF IInv
<1> QED
  BY <1>1, Invariance, PTL

(* An honest client is halted for one of the three reasons only, whatever  *)
(* its callers, its connections and the other sessions do.                 *)
THEOREM HonestHaltsAreExplained ==
  Spec => []HaltIsExplained
<1>1. IInv => HaltIsExplained
  BY DEF IInv
<1> QED
  BY <1>1, Invariance, PTL

(* Whatever calls do on a stream and wherever in a frame they are dropped, *)
(* what is returned is the call's own answer or, once some call left the   *)
(* stream early, an earlier one's, late by no more than such calls, and no *)
(* answer twice: a header is only ever read in front of a frame, and a     *)
(* call takes at most one frame off the stream, transport.rs:166-186.      *)
THEOREM AnswersAreNeverAhead ==
  Spec => []AnswersAreOwnOrLate
<1>1. IInv => AnswersAreOwnOrLate
  BY DEF IInv
<1> QED
  BY <1>1, Invariance, PTL

=============================================================================
