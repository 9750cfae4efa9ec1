--------------------------- MODULE EndToEndProofs ---------------------------
(***************************************************************************)
(* The settlement worker, and the system it is part of: gate, worker and   *)
(* contract, for every contract state, every set of claims and frames,     *)
(* every capacity of the queue and every number of restarts.               *)
(*                                                                         *)
(* Whatever the gate does, the system drives the worker and the contract   *)
(* only as their own specifications allow, so what is proved of them holds *)
(* of the system; and a seed is public only after the gate has replaced it *)
(* for good.                                                               *)
(***************************************************************************)
EXTENDS EndToEnd, SPMPEscrowProofs, WinOddsProofs, SequenceTheorems

-----------------------------------------------------------------------------
(* The worker.                                                             *)
WorkerStates == {"starting", "receiving", "sending", "watching", "exited"}

Types ==
  /\ queue \in Seq(ClaimSet) /\ Len(queue) <= QueueCapacity
  /\ closed \in BOOLEAN
  /\ worker \in WorkerStates
  /\ current \in ClaimSet \union {NoTask}
  /\ current # NoTask <=> worker \in {"sending", "watching"}
  /\ mempool \in Seq(ClaimSet) /\ mined \subseteq ClaimSet
  /\ enqueued \in Seq(ClaimSet) /\ broadcasts \in Seq(ClaimSet)
  /\ confirmed \subseteq ClaimSet /\ failed \subseteq ClaimSet /\ lost \subseteq ClaimSet
  /\ restarts \in 0 .. MaxRestarts

(* The tasks that have left the queue, by number.                          *)
Received == Len(enqueued) - Len(queue)

(* The queue is the end of what was handed over, and the task in hand is   *)
(* the one before it.                                                      *)
QueueIsRest ==
  /\ Len(queue) <= Len(enqueued)
  /\ \A k \in 1 .. Len(queue) : queue[k] = enqueued[Received + k]
  /\ current # NoTask => Received >= 1 /\ current = enqueued[Received]

EachOnce == \A k, l \in DOMAIN enqueued : enqueued[k] = enqueued[l] => k = l

(* What was broadcast had left the queue, and was not the task whose       *)
(* estimate is still to come.                                              *)
BroadcastsAreBehind ==
  \A i \in DOMAIN broadcasts :
    /\ \E k \in 1 .. Received : broadcasts[i] = enqueued[k]
    /\ worker = "sending" => broadcasts[i] # current

(* What has become of a task; no two of its places overlap.                *)
Settled == confirmed \union failed \union lost

OnePlaceEach ==
  /\ \A claim \in ClaimSet :
       claim \in ToSet(enqueued) <=> claim \in ToSet(queue) \union InHand \union Settled
  /\ ToSet(queue) \intersect (InHand \union Settled) = {}
  /\ InHand \intersect Settled = {}
  /\ confirmed \intersect failed = {} /\ confirmed \intersect lost = {} /\ failed \intersect lost = {}

(* A waiting transaction passed every check that no later step can undo.   *)
MempoolIsSound ==
  \A i \in DOMAIN mempool :
    LET claim == mempool[i]
        id == claim.ticket.channelId
    IN  /\ id[2] = Provider /\ SeedMatches(claim) /\ Wins(claim)
        /\ SignedBy(claim, id[1])

WorkerInv ==
  /\ IInv /\ Types /\ QueueIsRest /\ EachOnce /\ BroadcastsAreBehind
  /\ BroadcastOnceInOrder /\ OnePlaceEach /\ MempoolIsSound

-----------------------------------------------------------------------------
LEMMA NoTaskIsNoClaim ==
  NoTask \notin ClaimSet
<1> SUFFICES ASSUME NoTask \in Claims PROVE FALSE
  BY EscrowAssumption
<1>1. DOMAIN NoTask = {"ticket", "signature", "providerSeed"}
  BY DEF Claims
<1>2. DOMAIN NoTask = {}
  BY DEF NoTask
<1> QED
  BY <1>1, <1>2

LEMMA EscrowStays ==
  ASSUME IInv, UNCHANGED vars
  PROVE  IInv'
BY NextKeepsIInv

(* A longer sequence, and the rest of one, in terms of their elements.     *)
LEMMA AppendEffect ==
  ASSUME NEW S, NEW s \in Seq(S), NEW e \in S
  PROVE  LET longer == Append(s, e)
         IN  /\ longer \in Seq(S) /\ Len(s) \in Nat /\ DOMAIN s = 1 .. Len(s)
             /\ Len(longer) = Len(s) + 1 /\ DOMAIN longer = 1 .. Len(s) + 1
             /\ \A k \in 1 .. Len(s) : longer[k] = s[k]
             /\ longer[Len(s) + 1] = e
             /\ ToSet(longer) = ToSet(s) \union {e}
<1> DEFINE longer == Append(s, e)
<1>1. /\ longer \in Seq(S) /\ Len(s) \in Nat /\ DOMAIN s = 1 .. Len(s)
      /\ Len(longer) = Len(s) + 1 /\ DOMAIN longer = 1 .. Len(s) + 1
      /\ \A k \in 1 .. Len(s) : longer[k] = s[k]
      /\ longer[Len(s) + 1] = e
  BY AppendProperties, LenProperties
<1> HIDE DEF longer
<1>2. ToSet(longer) = ToSet(s) \union {e}
  BY <1>1 DEF ToSet
<1> QED
  BY <1>1, <1>2 DEF longer

LEMMA TailEffect ==
  ASSUME NEW S, NEW s \in Seq(S), s # <<>>
  PROVE  /\ Head(s) = s[1] /\ Head(s) \in S /\ Tail(s) \in Seq(S)
         /\ Len(s) \in Nat \ {0} /\ DOMAIN s = 1 .. Len(s)
         /\ Len(Tail(s)) = Len(s) - 1 /\ DOMAIN Tail(s) = 1 .. Len(s) - 1
         /\ \A k \in 1 .. Len(s) - 1 : Tail(s)[k] = s[k + 1]
         /\ ToSet(s) = {Head(s)} \union ToSet(Tail(s))
<1>1. /\ Head(s) = s[1] /\ Head(s) \in S /\ Tail(s) \in Seq(S)
      /\ Len(s) \in Nat \ {0} /\ DOMAIN s = 1 .. Len(s)
      /\ Len(Tail(s)) = Len(s) - 1 /\ DOMAIN Tail(s) = 1 .. Len(s) - 1
      /\ \A k \in 1 .. Len(s) - 1 : Tail(s)[k] = s[k + 1]
  BY HeadTailProperties, LenProperties
<1>2. ToSet(s) \subseteq {Head(s)} \union ToSet(Tail(s))
  <2> SUFFICES ASSUME NEW k \in 1 .. Len(s), k # 1
               PROVE  s[k] \in ToSet(Tail(s))
    BY <1>1 DEF ToSet
  <2>1. k - 1 \in DOMAIN Tail(s) /\ Tail(s)[k - 1] = s[k]
    BY <1>1
  <2> QED
    BY <2>1 DEF ToSet
<1>3. {Head(s)} \union ToSet(Tail(s)) \subseteq ToSet(s)
  <2>1. \A k \in 1 .. Len(s) - 1 : k + 1 \in 1 .. Len(s)
    BY <1>1
  <2>2. 1 \in 1 .. Len(s)
    BY <1>1
  <2> QED
    BY <1>1, <2>1, <2>2 DEF ToSet
<1> QED
  BY <1>1, <1>2, <1>3

(* The positions the invariant speaks of.                                  *)
LEMMA Positions ==
  ASSUME WorkerInv
  PROVE  /\ Len(queue) \in Nat /\ Len(enqueued) \in Nat
         /\ DOMAIN queue = 1 .. Len(queue) /\ DOMAIN enqueued = 1 .. Len(enqueued)
         /\ Len(broadcasts) \in Nat /\ DOMAIN broadcasts = 1 .. Len(broadcasts)
         /\ Received \in 0 .. Len(enqueued) /\ Len(enqueued) = Received + Len(queue)
<1>1. /\ Len(queue) \in Nat /\ Len(enqueued) \in Nat
      /\ DOMAIN queue = 1 .. Len(queue) /\ DOMAIN enqueued = 1 .. Len(enqueued)
      /\ Len(broadcasts) \in Nat /\ DOMAIN broadcasts = 1 .. Len(broadcasts)
  BY LenProperties DEF WorkerInv, Types
<1>2. Len(queue) <= Len(enqueued)
  BY DEF WorkerInv, QueueIsRest
<1> QED
  BY <1>1, <1>2 DEF Received

-----------------------------------------------------------------------------
(* The sender hands a task over that it never handed over before.          *)
LEMMA EnqueueKeepsInv ==
  ASSUME WorkerInv, NEW task \in ClaimSet, Enqueue(task)
  PROVE  WorkerInv'
<1> DEFINE q == Len(queue)
           L == Len(enqueued)
           R == Received
<1>1. /\ task \notin ToSet(enqueued) /\ q < QueueCapacity
      /\ queue' = Append(queue, task) /\ enqueued' = Append(enqueued, task)
      /\ UNCHANGED <<vars, closed, worker, current, nodeVars, broadcasts, confirmed, failed, crashVars>>
  BY DEF Enqueue
<1>2. /\ q \in Nat /\ L \in Nat /\ R \in 0 .. L /\ L = R + q
      /\ DOMAIN enqueued = 1 .. L /\ DOMAIN broadcasts = 1 .. Len(broadcasts)
  BY Positions
<1>3. /\ queue' \in Seq(ClaimSet) /\ Len(queue') = q + 1
      /\ \A k \in 1 .. q : queue'[k] = queue[k]
      /\ queue'[q + 1] = task /\ ToSet(queue') = ToSet(queue) \union {task}
  BY <1>1, AppendEffect DEF WorkerInv, Types
<1>4. /\ enqueued' \in Seq(ClaimSet) /\ Len(enqueued') = L + 1 /\ DOMAIN enqueued' = 1 .. L + 1
      /\ \A k \in 1 .. L : enqueued'[k] = enqueued[k]
      /\ enqueued'[L + 1] = task /\ ToSet(enqueued') = ToSet(enqueued) \union {task}
  BY <1>1, AppendEffect DEF WorkerInv, Types
<1>5. /\ \A k \in 1 .. q : queue[k] = enqueued[R + k]
      /\ current # NoTask => R >= 1 /\ current = enqueued[R]
  BY DEF WorkerInv, QueueIsRest
<1>6. \A k \in 1 .. L : enqueued[k] # task
  BY <1>1, <1>2 DEF ToSet
<1>7. IInv'
  BY <1>1, EscrowStays DEF WorkerInv
<1> HIDE DEF q, L
<1>8. Received' = R
  BY <1>2, <1>3, <1>4 DEF Received, q, L
<1> HIDE DEF R
<1>9. Types'
  <2>1. Len(queue') <= QueueCapacity
    BY <1>1, <1>2, <1>3, WorkerAssumption
  <2> QED
    BY <1>1, <1>3, <1>4, <2>1 DEF WorkerInv, Types, nodeVars, crashVars
<1>10. QueueIsRest'
  <2>1. \A k \in 1 .. q + 1 : queue'[k] = enqueued'[R + k]
    <3> SUFFICES ASSUME NEW k \in 1 .. q + 1 PROVE queue'[k] = enqueued'[R + k]
      OBVIOUS
    <3>1. CASE k = q + 1
      <4>1. R + k = L + 1
        BY <1>2, <3>1
      <4> QED
        BY <1>3, <1>4, <3>1, <4>1
    <3>2. CASE k \in 1 .. q
      <4>1. R + k \in 1 .. L
        BY <1>2, <3>2
      <4> QED
        BY <1>3, <1>4, <1>5, <3>2, <4>1
    <3> QED
      BY <1>2, <3>1, <3>2
  <2>2. current # NoTask => R >= 1 /\ current = enqueued'[R]
    BY <1>2, <1>4, <1>5
  <2>3. q + 1 <= L + 1
    BY <1>2
  <2> QED
    BY <1>1, <1>3, <1>4, <1>8, <2>1, <2>2, <2>3 DEF QueueIsRest
<1>11. EachOnce'
  BY <1>2, <1>4, <1>6 DEF WorkerInv, EachOnce
<1>12. BroadcastsAreBehind'
  <2> SUFFICES ASSUME NEW i \in DOMAIN broadcasts
               PROVE  /\ \E k \in 1 .. R : broadcasts[i] = enqueued'[k]
                      /\ worker = "sending" => broadcasts[i] # current
    BY <1>1, <1>8 DEF BroadcastsAreBehind
  <2>1. PICK k \in 1 .. R : broadcasts[i] = enqueued[k]
    BY DEF WorkerInv, BroadcastsAreBehind, R
  <2>2. enqueued'[k] = enqueued[k]
    BY <1>2, <1>4
  <2> QED
    BY <2>1, <2>2 DEF WorkerInv, BroadcastsAreBehind
<1>13. BroadcastOnceInOrder'
  <2>1. ToSet(broadcasts) \subseteq ToSet(enqueued)
    BY DEF WorkerInv, BroadcastOnceInOrder
  <2>2. \A i \in DOMAIN broadcasts : broadcasts[i] # task
    BY <1>1, <2>1 DEF ToSet
  <2>3. ASSUME NEW i \in DOMAIN broadcasts, NEW j \in DOMAIN broadcasts,
               NEW k \in 1 .. L + 1, NEW l \in 1 .. L + 1,
               i < j, broadcasts[i] = enqueued'[k], broadcasts[j] = enqueued'[l]
        PROVE  k < l
    <3>1. k \in 1 .. L /\ l \in 1 .. L
      BY <1>2, <1>4, <2>2, <2>3
    <3> QED
      BY <1>2, <1>4, <2>3, <3>1 DEF WorkerInv, BroadcastOnceInOrder
  <2> QED
    BY <1>1, <1>4, <2>1, <2>3 DEF BroadcastOnceInOrder
<1>14. OnePlaceEach'
  BY <1>1, <1>3, <1>4 DEF WorkerInv, OnePlaceEach, InHand, Settled, crashVars
<1>15. MempoolIsSound'
  BY <1>1 DEF WorkerInv, MempoolIsSound, nodeVars
<1> QED
  BY <1>7, <1>9, <1>10, <1>11, <1>12, <1>13, <1>14, <1>15 DEF WorkerInv

(* The worker takes the next task: it was not broadcast before.            *)
LEMMA RecvKeepsInv ==
  ASSUME WorkerInv, Recv
  PROVE  WorkerInv'
<1> DEFINE q == Len(queue)
           L == Len(enqueued)
           R == Received
<1>1. /\ worker = "receiving" /\ queue # <<>> /\ current' = Head(queue) /\ queue' = Tail(queue)
      /\ worker' = "sending"
      /\ UNCHANGED <<vars, closed, nodeVars, logVars, crashVars>>
  BY DEF Recv
<1>2. /\ q \in Nat /\ L \in Nat /\ R \in 0 .. L /\ L = R + q /\ DOMAIN enqueued = 1 .. L
  BY Positions
<1>3. /\ current' = queue[1] /\ current' \in ClaimSet /\ queue' \in Seq(ClaimSet)
      /\ q \in Nat \ {0} /\ Len(queue') = q - 1 /\ DOMAIN queue' = 1 .. q - 1
      /\ \A k \in 1 .. q - 1 : queue'[k] = queue[k + 1]
      /\ ToSet(queue) = {current'} \union ToSet(queue')
  BY <1>1, TailEffect DEF WorkerInv, Types
<1>4. \A k \in 1 .. q : queue[k] = enqueued[R + k]
  BY DEF WorkerInv, QueueIsRest
<1>5. current' # NoTask /\ current = NoTask
  BY <1>1, <1>3, NoTaskIsNoClaim DEF WorkerInv, Types
<1>6. IInv'
  BY <1>1, EscrowStays DEF WorkerInv
<1> HIDE DEF q, L
<1>7. Received' = R + 1
  BY <1>1, <1>2, <1>3 DEF Received, logVars, q, L
<1> HIDE DEF R
<1>8. Types'
  <2>1. Len(queue') <= QueueCapacity
    BY <1>2, <1>3, WorkerAssumption DEF WorkerInv, Types, q
  <2> QED
    BY <1>1, <1>3, <1>5, <2>1 DEF WorkerInv, Types, WorkerStates, nodeVars, logVars, crashVars
<1>9. current' = enqueued[R + 1] /\ R + 1 \in 1 .. L
  BY <1>2, <1>3, <1>4
<1>10. QueueIsRest'
  <2>1. ASSUME NEW k \in 1 .. q - 1
        PROVE  queue'[k] = enqueued[R + 1 + k]
    <3>1. k + 1 \in 1 .. q /\ R + (k + 1) = R + 1 + k
      BY <1>2, <1>3
    <3> QED
      BY <1>3, <1>4, <3>1
  <2>2. q - 1 <= L /\ R + 1 >= 1
    BY <1>2, <1>3
  <2> QED
    BY <1>1, <1>3, <1>7, <1>9, <2>1, <2>2 DEF QueueIsRest, logVars, L
<1>11. EachOnce' /\ BroadcastOnceInOrder' /\ MempoolIsSound'
  BY <1>1 DEF WorkerInv, EachOnce, BroadcastOnceInOrder, MempoolIsSound, logVars, nodeVars
<1>12. BroadcastsAreBehind'
  <2> SUFFICES ASSUME NEW i \in DOMAIN broadcasts
               PROVE  /\ \E k \in 1 .. R + 1 : broadcasts[i] = enqueued[k]
                      /\ broadcasts[i] # current'
    BY <1>1, <1>7 DEF BroadcastsAreBehind, logVars
  <2>1. PICK k \in 1 .. R : broadcasts[i] = enqueued[k]
    BY DEF WorkerInv, BroadcastsAreBehind, R
  <2>2. k \in 1 .. R + 1 /\ k \in 1 .. L /\ k # R + 1
    BY <1>2
  <2>3. enqueued[k] # enqueued[R + 1]
    BY <1>2, <1>9, <2>2 DEF WorkerInv, EachOnce
  <2> QED
    BY <1>9, <2>1, <2>2, <2>3
<1>13. current' \notin ToSet(queue')
  <2> SUFFICES ASSUME NEW k \in 1 .. q - 1, queue'[k] = current' PROVE FALSE
    BY <1>3 DEF ToSet
  <2>1. k + 1 \in 1 .. q /\ R + (k + 1) \in 1 .. L /\ R + (k + 1) # R + 1
    BY <1>2, <1>3
  <2>2. enqueued[R + (k + 1)] = enqueued[R + 1]
    BY <1>3, <1>4, <1>9, <2>1
  <2> QED
    BY <1>2, <1>9, <2>1, <2>2 DEF WorkerInv, EachOnce
<1>14. OnePlaceEach'
  BY <1>1, <1>3, <1>5, <1>13 DEF WorkerInv, OnePlaceEach, InHand, Settled, logVars, crashVars
<1> QED
  BY <1>6, <1>8, <1>10, <1>11, <1>12, <1>14 DEF WorkerInv

(* A step that leaves queue, logs and broadcasts as they are keeps what    *)
(* they say of one another.                                                *)
LEMMA OrderStays ==
  ASSUME WorkerInv, UNCHANGED <<queue, enqueued, broadcasts>>,
         current' \in {current, NoTask}, worker' = "sending" => worker = "sending" /\ current' = current
  PROVE  QueueIsRest' /\ EachOnce' /\ BroadcastsAreBehind' /\ BroadcastOnceInOrder'
<1>1. Received' = Received
  BY DEF Received
<1>2. QueueIsRest'
  BY <1>1 DEF WorkerInv, QueueIsRest
<1>3. EachOnce' /\ BroadcastOnceInOrder'
  BY DEF WorkerInv, EachOnce, BroadcastOnceInOrder
<1>4. BroadcastsAreBehind'
  BY <1>1 DEF WorkerInv, BroadcastsAreBehind
<1> QED
  BY <1>2, <1>3, <1>4

(* The estimate passed: the client's signature and the draw will hold      *)
(* whenever the transaction is mined, also if the node's answer was lost.  *)
LEMMA BroadcastKeepsInv ==
  ASSUME WorkerInv, Broadcast \/ SendUnanswered
  PROVE  WorkerInv'
<1> DEFINE R == Received
           L == Len(enqueued)
           b == Len(broadcasts)
           m == Len(mempool)
<1>1. /\ worker = "sending" /\ CanClaim(Provider, current)
      /\ mempool' = Append(mempool, current) /\ broadcasts' = Append(broadcasts, current)
      /\ \/ worker' = "watching" /\ UNCHANGED <<current, failed>>
         \/ /\ worker' = "receiving" /\ current' = NoTask
            /\ failed' = failed \union {current}
      /\ UNCHANGED <<vars, queue, closed, mined, enqueued, confirmed, crashVars>>
  BY DEF Broadcast, SendUnanswered, NodeAccepts, Estimates
<1>2. /\ L \in Nat /\ R \in 0 .. L /\ DOMAIN enqueued = 1 .. L
      /\ b \in Nat /\ DOMAIN broadcasts = 1 .. b
  BY Positions
<1>3. current \in ClaimSet /\ current # NoTask
  BY <1>1 DEF WorkerInv, Types
<1>4. /\ mempool' \in Seq(ClaimSet) /\ m \in Nat /\ DOMAIN mempool = 1 .. m
      /\ DOMAIN mempool' = 1 .. m + 1
      /\ \A k \in 1 .. m : mempool'[k] = mempool[k]
      /\ mempool'[m + 1] = current
  BY <1>1, <1>3, AppendEffect DEF WorkerInv, Types
<1>5. /\ broadcasts' \in Seq(ClaimSet) /\ DOMAIN broadcasts' = 1 .. b + 1
      /\ \A k \in 1 .. b : broadcasts'[k] = broadcasts[k]
      /\ broadcasts'[b + 1] = current
      /\ ToSet(broadcasts') = ToSet(broadcasts) \union {current}
  BY <1>1, <1>3, AppendEffect DEF WorkerInv, Types
<1>6. R \in 1 .. L /\ current = enqueued[R]
  BY <1>2, <1>3 DEF WorkerInv, QueueIsRest
<1>7. IInv'
  BY <1>1, EscrowStays DEF WorkerInv
<1>8. Received' = R
  BY <1>1 DEF Received
<1> HIDE DEF R, L, b, m
<1>9. Types'
  BY <1>1, <1>4, <1>5 DEF WorkerInv, Types, WorkerStates, crashVars
<1>10. QueueIsRest' /\ EachOnce'
  BY <1>1, <1>8 DEF WorkerInv, QueueIsRest, EachOnce, R
<1>11. BroadcastsAreBehind'
  <2> SUFFICES ASSUME NEW i \in 1 .. b + 1
               PROVE  \E k \in 1 .. R : broadcasts'[i] = enqueued[k]
    BY <1>1, <1>5, <1>8 DEF BroadcastsAreBehind
  <2>1. CASE i = b + 1
    BY <1>2, <1>5, <1>6, <2>1
  <2>2. CASE i \in 1 .. b
    BY <1>2, <1>5, <2>2 DEF WorkerInv, BroadcastsAreBehind, R
  <2> QED
    BY <1>2, <2>1, <2>2
<1>12. BroadcastOnceInOrder'
  <2>1. ToSet(broadcasts') \subseteq ToSet(enqueued)
    <3>1. current \in ToSet(enqueued)
      BY <1>2, <1>6 DEF ToSet
    <3> QED
      BY <1>5, <3>1 DEF WorkerInv, BroadcastOnceInOrder
  <2>2. ASSUME NEW i \in 1 .. b + 1, NEW j \in 1 .. b + 1,
               NEW k \in 1 .. L, NEW l \in 1 .. L,
               i < j, broadcasts'[i] = enqueued[k], broadcasts'[j] = enqueued[l]
        PROVE  k < l
    <3>1. CASE j \in 1 .. b
      <4>1. i \in 1 .. b
        BY <1>2, <2>2, <3>1
      <4> QED
        BY <1>2, <1>5, <2>2, <3>1, <4>1 DEF WorkerInv, BroadcastOnceInOrder
    <3>2. CASE j = b + 1
      <4>1. i \in 1 .. b
        BY <1>2, <2>2, <3>2
      <4>2. l = R
        BY <1>2, <1>5, <1>6, <2>2, <3>2 DEF WorkerInv, EachOnce
      <4>3. PICK n \in 1 .. R : broadcasts[i] = enqueued[n] /\ broadcasts[i] # current
        BY <1>1, <1>2, <4>1 DEF WorkerInv, BroadcastsAreBehind, R
      <4>4. n \in 1 .. L /\ k = n
        BY <1>2, <1>5, <2>2, <4>1, <4>3 DEF WorkerInv, EachOnce
      <4>5. n # R
        BY <1>6, <4>3
      <4> QED
        BY <1>2, <4>2, <4>3, <4>4, <4>5
    <3> QED
      BY <1>2, <3>1, <3>2
  <2> QED
    BY <1>1, <1>2, <1>5, <2>1, <2>2 DEF BroadcastOnceInOrder
<1>13. OnePlaceEach'
  BY <1>1, <1>3 DEF WorkerInv, OnePlaceEach, InHand, Settled, crashVars
<1>14. MempoolIsSound'
  <2> DEFINE id == current.ticket.channelId
  <2>1. id \in Pairs
    BY <1>3, EscrowAssumption, TicketAssumption DEF Claims, Tickets
  <2>2. /\ channels[id].client # NoAddress /\ channels[id].provider = Provider
        /\ SeedMatches(current) /\ Wins(current) /\ SignedBy(current, channels[id].client)
    BY <1>1 DEF CanClaim, Exists
  <2>3. channels[id].client = id[1] /\ channels[id].provider = id[2]
    BY <2>1, <2>2 DEF WorkerInv, IInv, ChannelsAreWhole, NoChannel
  <2>4. ASSUME NEW i \in 1 .. m + 1
        PROVE  LET claim == mempool'[i]
               IN  /\ claim.ticket.channelId[2] = Provider
                   /\ SeedMatches(claim) /\ Wins(claim)
                   /\ SignedBy(claim, claim.ticket.channelId[1])
    <3>1. CASE i = m + 1
      BY <1>4, <2>2, <2>3, <3>1
    <3>2. CASE i \in 1 .. m
      BY <1>4, <3>2 DEF WorkerInv, MempoolIsSound
    <3> QED
      BY <1>4, <3>1, <3>2
  <2> HIDE DEF id
  <2> QED
    BY <1>4, <2>4 DEF MempoolIsSound, SeedMatches, Wins, SignedBy
<1> QED
  BY <1>7, <1>9, <1>10, <1>11, <1>12, <1>13, <1>14 DEF WorkerInv

(* The task in hand gets its outcome, the first and only one.              *)
LEMMA OutcomeKeepsInv ==
  ASSUME WorkerInv, SendFails \/ WatchFails \/ WatchOk
  PROVE  WorkerInv'
<1>1. /\ worker \in {"sending", "watching"} /\ worker' = "receiving" /\ current' = NoTask
      /\ \/ failed' = failed \union {current} /\ confirmed' = confirmed
         \/ confirmed' = confirmed \union {current} /\ failed' = failed
      /\ UNCHANGED <<vars, queue, closed, nodeVars, enqueued, broadcasts, crashVars>>
  BY DEF SendFails, WatchFails, WatchOk, GiveUp
<1>2. current \in ClaimSet /\ current # NoTask
  BY <1>1 DEF WorkerInv, Types
<1>3. IInv'
  BY <1>1, EscrowStays DEF WorkerInv
<1>4. Types'
  BY <1>1, <1>2 DEF WorkerInv, Types, WorkerStates, nodeVars, crashVars
<1>5. QueueIsRest' /\ EachOnce' /\ BroadcastsAreBehind' /\ BroadcastOnceInOrder'
  BY <1>1, OrderStays
<1>6. OnePlaceEach'
  BY <1>1, <1>2 DEF WorkerInv, OnePlaceEach, InHand, Settled, crashVars
<1>7. MempoolIsSound'
  BY <1>1 DEF WorkerInv, MempoolIsSound, nodeVars
<1> QED
  BY <1>3, <1>4, <1>5, <1>6, <1>7 DEF WorkerInv

(* A restart counts what it drops as lost, and takes back no broadcast.    *)
LEMMA RestartKeepsInv ==
  ASSUME WorkerInv, Restart
  PROVE  WorkerInv'
<1>1. /\ restarts < MaxRestarts /\ restarts' = restarts + 1
      /\ lost' = lost \union ToSet(queue) \union InHand
      /\ queue' = <<>> /\ closed' = FALSE /\ worker' = "starting" /\ current' = NoTask
      /\ UNCHANGED <<vars, nodeVars, logVars>>
  BY DEF Restart
<1>2. /\ Len(queue) \in Nat /\ Len(enqueued) \in Nat /\ DOMAIN queue = 1 .. Len(queue)
      /\ Received \in 0 .. Len(enqueued)
  BY Positions
<1>3. Len(queue') = 0 /\ ToSet(queue') = {} /\ queue' \in Seq(ClaimSet)
  <2>1. queue' = <<>> /\ DOMAIN queue' = {}
    BY <1>1
  <2> QED
    BY <2>1 DEF ToSet
<1>4. Received' = Len(enqueued)
  BY <1>1, <1>2, <1>3 DEF Received, logVars
<1>5. ToSet(queue) \subseteq ClaimSet /\ InHand \subseteq ClaimSet
  <2>1. \A k \in 1 .. Len(queue) : queue[k] \in ClaimSet
    BY <1>2, ElementOfSeq DEF WorkerInv, Types
  <2> QED
    BY <1>2, <2>1 DEF WorkerInv, Types, ToSet, InHand
<1>6. IInv'
  BY <1>1, EscrowStays DEF WorkerInv
<1>7. Types'
  <2>1. restarts' \in 0 .. MaxRestarts /\ 0 <= QueueCapacity
    BY <1>1, WorkerAssumption DEF WorkerInv, Types
  <2> QED
    BY <1>1, <1>3, <1>5, <2>1 DEF WorkerInv, Types, WorkerStates, nodeVars, logVars
<1>8. QueueIsRest'
  BY <1>1, <1>2, <1>3 DEF QueueIsRest, logVars
<1>9. EachOnce' /\ BroadcastOnceInOrder' /\ MempoolIsSound'
  BY <1>1 DEF WorkerInv, EachOnce, BroadcastOnceInOrder, MempoolIsSound, nodeVars, logVars
<1>10. BroadcastsAreBehind'
  <2>1. 1 .. Received \subseteq 1 .. Len(enqueued)
    BY <1>2
  <2> QED
    BY <1>1, <1>4, <2>1 DEF WorkerInv, BroadcastsAreBehind, logVars
<1>11. OnePlaceEach'
  BY <1>1, <1>3 DEF WorkerInv, OnePlaceEach, InHand, Settled, logVars
<1> QED
  BY <1>6, <1>7, <1>8, <1>9, <1>10, <1>11 DEF WorkerInv

(* The node and the other users of the contract do not touch the worker.   *)
LEMMA WorkerStays ==
  ASSUME WorkerInv, IInv', UNCHANGED <<workerVars, logVars, crashVars>>,
         mempool' \in Seq(ClaimSet), mined' \subseteq ClaimSet, MempoolIsSound'
  PROVE  WorkerInv'
<1> USE DEF workerVars, logVars, crashVars
<1>1. Types'
  BY DEF WorkerInv, Types
<1>2. QueueIsRest' /\ EachOnce' /\ BroadcastsAreBehind' /\ BroadcastOnceInOrder'
  BY OrderStays
<1>3. OnePlaceEach'
  BY DEF WorkerInv, OnePlaceEach, InHand, Settled
<1> QED
  BY <1>1, <1>2, <1>3 DEF WorkerInv

LEMMA MineKeepsInv ==
  ASSUME WorkerInv, Mine
  PROVE  WorkerInv'
<1>1. /\ mempool # <<>> /\ mempool' = Tail(mempool) /\ mined' = mined \union {Head(mempool)}
      /\ claimTicket(Provider, Head(mempool)) \/ UNCHANGED vars
      /\ UNCHANGED <<workerVars, logVars, crashVars>>
  BY DEF Mine
<1>2. /\ Head(mempool) \in ClaimSet /\ mempool' \in Seq(ClaimSet)
      /\ Len(mempool) \in Nat \ {0} /\ DOMAIN mempool = 1 .. Len(mempool)
      /\ DOMAIN mempool' = 1 .. Len(mempool) - 1
      /\ \A k \in 1 .. Len(mempool) - 1 : mempool'[k] = mempool[k + 1]
  BY <1>1, TailEffect DEF WorkerInv, Types
<1>3. IInv'
  BY <1>1, <1>2, WorkerAssumption, EscrowStays, ClaimKeepsIInv DEF WorkerInv
<1>4. MempoolIsSound'
  <2> DEFINE m == Len(mempool)
  <2>1. ASSUME NEW i \in 1 .. m - 1
        PROVE  LET claim == mempool'[i]
               IN  /\ claim.ticket.channelId[2] = Provider
                   /\ SeedMatches(claim) /\ Wins(claim)
                   /\ SignedBy(claim, claim.ticket.channelId[1])
    <3>1. i + 1 \in DOMAIN mempool /\ mempool'[i] = mempool[i + 1]
      BY <1>2
    <3> QED
      BY <3>1 DEF WorkerInv, MempoolIsSound
  <2> QED
    BY <1>2, <2>1 DEF MempoolIsSound, SeedMatches, Wins, SignedBy
<1>5. mined' \subseteq ClaimSet
  BY <1>1, <1>2 DEF WorkerInv, Types
<1> QED
  BY <1>1, <1>2, <1>3, <1>4, <1>5, WorkerStays

(* The sender closes the queue, the worker starts or ends.                 *)
LEMMA LifecycleKeepsInv ==
  ASSUME WorkerInv, CloseQueue \/ Start \/ Exit
  PROVE  WorkerInv'
<1>1. /\ worker' \in WorkerStates /\ closed' \in BOOLEAN
      /\ worker' \in {"sending", "watching"} <=> worker \in {"sending", "watching"}
      /\ worker' = "sending" => worker = "sending"
      /\ UNCHANGED <<vars, queue, current, nodeVars, logVars, crashVars>>
  BY DEF CloseQueue, Start, Exit, WorkerInv, Types, WorkerStates
<1> USE DEF nodeVars, logVars, crashVars
<1>2. IInv'
  BY <1>1, EscrowStays DEF WorkerInv
<1>3. Types'
  BY <1>1 DEF WorkerInv, Types
<1>4. QueueIsRest' /\ EachOnce' /\ BroadcastsAreBehind' /\ BroadcastOnceInOrder'
  BY <1>1, OrderStays
<1>5. OnePlaceEach' /\ MempoolIsSound'
  BY <1>1 DEF WorkerInv, OnePlaceEach, InHand, Settled, MempoolIsSound
<1> QED
  BY <1>2, <1>3, <1>4, <1>5 DEF WorkerInv

LEMMA InitInv ==
  WorkerInit => WorkerInv
<1> SUFFICES ASSUME WorkerInit PROVE WorkerInv
  OBVIOUS
<1> USE DEF WorkerInit
<1>1. IInv
  BY InitIInv
<1>2. Types
  <2>1. queue \in Seq(ClaimSet) /\ Len(queue) = 0
        /\ mempool \in Seq(ClaimSet) /\ enqueued \in Seq(ClaimSet) /\ broadcasts \in Seq(ClaimSet)
    OBVIOUS
  <2>2. 0 <= QueueCapacity /\ restarts \in 0 .. MaxRestarts
    BY WorkerAssumption
  <2>3. worker = "starting" /\ current = NoTask
    OBVIOUS
  <2> QED
    BY <2>1, <2>2, <2>3 DEF Types, WorkerStates
<1>3. QueueIsRest /\ EachOnce /\ BroadcastsAreBehind /\ BroadcastOnceInOrder
  BY DEF QueueIsRest, EachOnce, BroadcastsAreBehind, BroadcastOnceInOrder, ToSet
<1>4. OnePlaceEach /\ MempoolIsSound
  BY DEF OnePlaceEach, InHand, Settled, MempoolIsSound, ToSet
<1> QED
  BY <1>1, <1>2, <1>3, <1>4 DEF WorkerInv

LEMMA StepKeepsInv ==
  WorkerInv /\ [WorkerNext]_allVars => WorkerInv'
<1> SUFFICES ASSUME WorkerInv, [WorkerNext]_allVars PROVE WorkerInv'
  OBVIOUS
<1>1. CASE Elsewhere \/ UNCHANGED allVars
  <2>1. [Next]_vars /\ UNCHANGED <<workerVars, nodeVars, logVars, crashVars>>
    BY <1>1 DEF Elsewhere, allVars
  <2>2. IInv'
    BY <2>1, NextKeepsIInv DEF WorkerInv
  <2>3. MempoolIsSound' /\ mempool' \in Seq(ClaimSet) /\ mined' \subseteq ClaimSet
    BY <2>1 DEF WorkerInv, Types, MempoolIsSound, nodeVars
  <2> QED
    BY <2>1, <2>2, <2>3, WorkerStays
<1> QED
  BY <1>1, EnqueueKeepsInv, RecvKeepsInv, BroadcastKeepsInv, OutcomeKeepsInv, RestartKeepsInv,
     MineKeepsInv, LifecycleKeepsInv DEF WorkerNext

LEMMA WorkerInvariance ==
  WorkerSpec => []WorkerInv
<1> QED
  BY InitInv, StepKeepsInv, PTL DEF WorkerSpec

-----------------------------------------------------------------------------
(* The queue never exceeds the channel's capacity and the worker has a     *)
(* task in hand exactly while it sends or watches: settlement.rs:66.       *)
THEOREM WorkerTypesAreKept ==
  WorkerSpec => []WorkerTypeOK
<1>1. WorkerInv => WorkerTypeOK
  BY DEF WorkerInv, IInv, Types, WorkerStates, WorkerTypeOK
<1> QED
  BY <1>1, WorkerInvariance, PTL

(* Every task handed over is waiting, in hand, confirmed, failed or lost   *)
(* with a daemon, and in one of these places only.                         *)
THEOREM NoTaskIsForgotten ==
  WorkerSpec => []EveryTaskHasOnePlace
<1>1. ASSUME WorkerInv PROVE EveryTaskHasOnePlace
  <2> DEFINE places == <<ToSet(queue), InHand, confirmed, failed, lost>>
  <2>1. DOMAIN places = 1 .. 5 /\ ToSet(places) = {ToSet(queue), InHand, confirmed, failed, lost}
    BY DEF ToSet
  <2>2. ToSet(queue) \subseteq ClaimSet /\ ToSet(enqueued) \subseteq ClaimSet /\ InHand \subseteq ClaimSet
    <3>1. /\ \A k \in DOMAIN queue : queue[k] \in ClaimSet
          /\ \A k \in DOMAIN enqueued : enqueued[k] \in ClaimSet
      BY <1>1, ElementOfSeq, LenProperties DEF WorkerInv, Types
    <3> QED
      BY <1>1, <3>1 DEF WorkerInv, Types, ToSet, InHand
  <2>3. ToSet(enqueued) = ToSet(queue) \union InHand \union confirmed \union failed \union lost
    BY <1>1, <2>2 DEF WorkerInv, Types, OnePlaceEach, Settled
  <2>4. ASSUME NEW i \in 1 .. 5, NEW j \in 1 .. 5, i # j
        PROVE  places[i] \intersect places[j] = {}
    BY <1>1, <2>4 DEF WorkerInv, OnePlaceEach, Settled
  <2> QED
    BY <2>1, <2>3, <2>4 DEF EveryTaskHasOnePlace
<1> QED
  BY <1>1, WorkerInvariance, PTL

(* Restarts included, a claim is broadcast at most once, and in the order  *)
(* of the wins.                                                            *)
THEOREM NoClaimIsBroadcastTwice ==
  WorkerSpec => []BroadcastOnceInOrder
<1>1. WorkerInv => BroadcastOnceInOrder
  BY DEF WorkerInv
<1> QED
  BY <1>1, WorkerInvariance, PTL

(* Whatever is mined between the estimate and the block, a claim reverts   *)
(* only for what can change: time, the nullifier, the channel's money.     *)
THEOREM RevertsHaveReasons ==
  WorkerSpec => RevertsAreExplained
<1> DEFINE Explained(ticket) == \/ ~NotExpired(ticket) \/ ~Unclaimed(ticket)
                                \/ ~Exists(ticket.channelId) \/ ~Covered(ticket)
<1>1. ASSUME WorkerInv, [WorkerNext]_allVars, mined' # mined, nullifiers' = nullifiers
      PROVE  Explained(Head(mempool).ticket)
  <2> DEFINE claim == Head(mempool)
             id == claim.ticket.channelId
  <2>1. Mine
    BY <1>1 DEF WorkerNext, allVars, nodeVars, Enqueue, CloseQueue, Start, Recv, Exit, Broadcast,
                SendUnanswered, NodeAccepts, SendFails, WatchFails, GiveUp, WatchOk, Restart, Elsewhere
  <2>2. ~CanClaim(Provider, claim)
    <3> SUFFICES ASSUME CanClaim(Provider, claim) PROVE FALSE
      OBVIOUS
    <3>1. /\ nullifiers' = nullifiers \union {Nullifier(claim.ticket)}
          /\ Nullifier(claim.ticket) \notin nullifiers
      BY <2>1 DEF Mine, claimTicket, CanClaim, Unclaimed
    <3> QED
      BY <1>1, <3>1
  <2>3. claim \in ClaimSet /\ claim = mempool[1] /\ 1 \in DOMAIN mempool
    BY <1>1, <2>1, TailEffect DEF WorkerInv, Types, Mine
  <2>4. id[2] = Provider /\ SeedMatches(claim) /\ Wins(claim) /\ SignedBy(claim, id[1])
    BY <1>1, <2>3 DEF WorkerInv, MempoolIsSound
  <2>5. id \in Pairs
    BY <2>3, EscrowAssumption, TicketAssumption DEF Claims, Tickets
  <2>6. Exists(id) => channels[id].client = id[1] /\ channels[id].provider = id[2]
    BY <1>1, <2>5 DEF WorkerInv, IInv, ChannelsAreWhole, NoChannel, Exists
  <2> QED
    BY <2>2, <2>4, <2>6 DEF CanClaim
<1>2. WorkerInv /\ [WorkerNext]_allVars =>
        [mined' # mined /\ nullifiers' = nullifiers => Explained(Head(mempool).ticket)]_allVars
  BY <1>1
<1> QED
  BY <1>2, WorkerInvariance, PTL DEF WorkerSpec, RevertsAreExplained

-----------------------------------------------------------------------------
(* Claims are made of served tickets with the seed of their draw, by a     *)
(* daemon that replaces the seed in the same step and never draws one      *)
(* twice; what is held or was handed over is among them.                   *)
FramesAreKnown == winning \subseteq FrameSet

SeedIsDrawn == provider_seed \in Seeds /\ provider_seed \in usedSeeds

ClaimsRevealOldSeeds ==
  \A claim \in tasks :
    claim \in ClaimSet /\ claim.providerSeed \in usedSeeds \ {provider_seed}

HandedOverAreClaims == ToSet(enqueued) \subseteq tasks /\ held \subseteq tasks

SeedInv == FramesAreKnown /\ SeedIsDrawn /\ ClaimsRevealOldSeeds /\ HandedOverAreClaims

-----------------------------------------------------------------------------
(* The steps of the system, as the worker sees them.                       *)
LEMMA StepIsWorkers ==
  ASSUME SeedInv, [SystemNext]_systemVars
  PROVE  [WorkerNext]_allVars
<1>1. CASE GateStep \/ UNCHANGED systemVars
  BY <1>1 DEF GateStep, systemVars
<1>2. CASE HandOver
  BY <1>2 DEF HandOver, WorkerNext, SeedInv, ClaimsRevealOldSeeds, HandedOverAreClaims
<1>3. CASE WorkerStep
  BY <1>3 DEF WorkerStep, WorkerNext
<1>4. ASSUME NEW new_seed \in Seeds, ProviderRestart(new_seed)
      PROVE  Restart
  BY <1>4 DEF ProviderRestart
<1>5. CASE ClientTransaction
  <2>1. Next
    BY <1>5, SystemAssumption, WorkerAssumption DEF ClientTransaction, Next, TokenStep
  <2> QED
    BY <1>5, <2>1 DEF ClientTransaction, Elsewhere, WorkerNext
<1>6. CASE Time
  BY <1>6 DEF Time, Next, Elsewhere, WorkerNext
<1> QED
  BY <1>1, <1>2, <1>3, <1>4, <1>5, <1>6 DEF SystemNext, WorkerNext

-----------------------------------------------------------------------------
LEMMA InitSeedInv ==
  SystemInit => SeedInv
<1> SUFFICES ASSUME SystemInit PROVE SeedInv
  OBVIOUS
<1>1. /\ provider_seed \in Seeds /\ usedSeeds = {provider_seed} /\ winning = {} /\ tasks = {}
      /\ enqueued = <<>> /\ held = {}
  BY DEF SystemInit, WorkerInit, Gate!VerifierInit
<1>2. ToSet(enqueued) = {}
  BY <1>1 DEF ToSet
<1> QED
  BY <1>1, <1>2 DEF SeedInv, FramesAreKnown, SeedIsDrawn, ClaimsRevealOldSeeds, HandedOverAreClaims

LEMMA GateKeepsSeedInv ==
  ASSUME SeedInv, GateStep
  PROVE  SeedInv'
<1> USE DEF SeedInv, FramesAreKnown, SeedIsDrawn, ClaimsRevealOldSeeds, HandedOverAreClaims
<1>1. enqueued' = enqueued /\ held' = held \union (tasks' \ tasks)
  BY DEF GateStep, allVars, logVars
<1>2. ASSUME NEW client \in Clients, NEW frame \in FrameSet,
             Gate!ServeLosing(client, frame) \/ Gate!ServeWinning(client, frame)
      PROVE  SeedInv'
  <2>1. /\ UNCHANGED <<provider_seed, usedSeeds, tasks>>
        /\ winning' = winning \/ winning' = {frame}
    BY <1>2 DEF Gate!ServeLosing, Gate!ServeWinning, Gate!verifierVars
  <2> QED
    BY <1>1, <2>1
<1>3. ASSUME NEW new_seed \in Seeds, Gate!ClaimAndRotate(new_seed)
      PROVE  SeedInv'
  <2>1. /\ new_seed \notin usedSeeds /\ provider_seed' = new_seed /\ winning' = {}
        /\ usedSeeds' = usedSeeds \union {new_seed}
        /\ tasks' = tasks \union {Gate!ClaimOf(frame, provider_seed) : frame \in winning}
    BY <1>3 DEF Gate!ClaimAndRotate, Gate!rotate_seed
  <2>2. ASSUME NEW frame \in winning
        PROVE  LET claim == Gate!ClaimOf(frame, provider_seed)
               IN  claim \in ClaimSet /\ claim.providerSeed = provider_seed
    BY SystemAssumption DEF Gate!ClaimOf
  <2> QED
    BY <1>1, <2>1, <2>2
<1>4. ASSUME NEW client \in Clients, Gate!Handshake(client)
      PROVE  SeedInv'
  <2>1. UNCHANGED <<provider_seed, usedSeeds, winning, tasks>>
    BY <1>4 DEF Gate!Handshake, Gate!verifierVars
  <2> QED
    BY <1>1, <2>1
<1> QED
  BY <1>2, <1>3, <1>4 DEF GateStep

(* Outside the gate: a hand-over, a restart, and steps that touch neither  *)
(* the gate nor what was handed over.                                      *)
LEMMA StepKeepsSeedInv ==
  ASSUME SeedInv, WorkerInv, [SystemNext]_systemVars
  PROVE  SeedInv'
<1> USE DEF SeedInv, FramesAreKnown, SeedIsDrawn, ClaimsRevealOldSeeds, HandedOverAreClaims
<1>1. ASSUME UNCHANGED <<gateVars, enqueued, held>>
      PROVE  SeedInv'
  BY <1>1 DEF gateVars
<1>2. CASE HandOver
  <2>1. PICK task \in held : Enqueue(task) /\ held' = held \ {task}
    BY <1>2 DEF HandOver
  <2>2. task \in ClaimSet /\ enqueued \in Seq(ClaimSet) /\ enqueued' = Append(enqueued, task)
    BY <2>1 DEF Enqueue, WorkerInv, Types
  <2>3. ToSet(enqueued') = ToSet(enqueued) \union {task}
    BY <2>2, AppendEffect
  <2> QED
    BY <1>2, <2>1, <2>3 DEF HandOver, gateVars
<1>3. CASE WorkerStep
  <2>1. enqueued' = enqueued
    BY <1>3 DEF WorkerStep, Start, Recv, Broadcast, SendUnanswered, NodeAccepts, SendFails, WatchFails,
                GiveUp, WatchOk, Mine, logVars
  <2> QED
    BY <1>1, <1>3, <2>1 DEF WorkerStep
<1>4. ASSUME NEW new_seed \in Seeds, ProviderRestart(new_seed)
      PROVE  SeedInv'
  <2>1. /\ new_seed \notin usedSeeds /\ provider_seed' = new_seed /\ winning' = {}
        /\ usedSeeds' = usedSeeds \union {new_seed} /\ enqueued' = enqueued
        /\ tasks' = tasks /\ held' = {}
    BY <1>4 DEF ProviderRestart, Gate!rotate_seed, Restart, logVars
  <2> QED
    BY <2>1
<1>5. CASE ClientTransaction \/ Time
  BY <1>1, <1>5 DEF ClientTransaction, Time, logVars
<1>6. CASE UNCHANGED systemVars
  BY <1>1, <1>6 DEF systemVars, allVars, logVars
<1>7. CASE GateStep
  BY <1>7, GateKeepsSeedInv
<1> QED
  BY <1>2, <1>3, <1>4, <1>5, <1>6, <1>7 DEF SystemNext

LEMMA SystemInvariance ==
  SystemSpec => [](SeedInv /\ WorkerInv)
<1>1. SystemInit => SeedInv /\ WorkerInv
  BY InitSeedInv, InitInv DEF SystemInit
<1>2. SeedInv /\ WorkerInv /\ [SystemNext]_systemVars => (SeedInv /\ WorkerInv)'
  BY StepIsWorkers, StepKeepsSeedInv, StepKeepsInv
<1> QED
  BY <1>1, <1>2, PTL DEF SystemSpec

-----------------------------------------------------------------------------
(* The gate and its restarts change nothing the worker can tell from its   *)
(* own environment: every behaviour of the system is one of the worker,    *)
(* with the claims of the gate as its tasks.  What is proved of the worker *)
(* holds of the system.                                                    *)
THEOREM SystemIsWorker ==
  SystemSpec => WorkerSpec
<1>1. SystemInit => WorkerInit
  BY DEF SystemInit
<1>2. SeedInv /\ [SystemNext]_systemVars => [WorkerNext]_allVars
  BY StepIsWorkers
<1> QED
  BY <1>1, <1>2, SystemInvariance, PTL DEF SystemSpec, WorkerSpec

(* ... and every behaviour of the worker one of the contract.              *)
THEOREM WorkerIsContract ==
  WorkerSpec => Spec
<1>1. WorkerInit => Init
  BY DEF WorkerInit
<1>2. ASSUME WorkerInv, [WorkerNext]_allVars
      PROVE  [Next]_vars
  <2>1. CASE Mine
    <3>1. mempool # <<>> /\ mempool \in Seq(ClaimSet)
      BY <1>2, <2>1 DEF Mine, WorkerInv, Types
    <3>2. Head(mempool) \in ClaimSet
      BY <3>1, TailEffect
    <3>3. claimTicket(Provider, Head(mempool)) \/ UNCHANGED vars
      BY <2>1 DEF Mine
    <3> QED
      BY <3>2, <3>3, WorkerAssumption DEF Next
  <2>2. CASE Elsewhere
    BY <2>2 DEF Elsewhere
  <2>3. CASE UNCHANGED allVars
    BY <2>3 DEF allVars
  <2>4. ASSUME NEW task \in ClaimSet, Enqueue(task)
        PROVE  UNCHANGED vars
    BY <2>4 DEF Enqueue
  <2>5. CASE CloseQueue \/ Start \/ Recv \/ Exit \/ Broadcast \/ SendUnanswered \/ SendFails
             \/ WatchFails \/ WatchOk \/ Restart
    BY <2>5 DEF CloseQueue, Start, Recv, Exit, Broadcast, SendUnanswered, NodeAccepts, SendFails,
                WatchFails, GiveUp, WatchOk, Restart
  <2> QED
    BY <1>2, <2>1, <2>2, <2>3, <2>4, <2>5 DEF WorkerNext
<1>3. WorkerInv /\ [WorkerNext]_allVars => [Next]_vars
  BY <1>2
<1> QED
  BY <1>1, <1>3, WorkerInvariance, PTL DEF WorkerSpec, Spec

(* The gate serves no ticket under a seed the mempool has shown: a claim   *)
(* reveals a seed that was replaced when the claim was made, and neither a *)
(* rotation nor a restart brings it back.                                  *)
THEOREM RevealedSeedsAreDead ==
  SystemSpec => RevealedSeedServesNothing
<1> DEFINE Hidden == \A i \in DOMAIN broadcasts : broadcasts[i].providerSeed # provider_seed
<1>1. SeedInv /\ WorkerInv => Hidden
  <2> SUFFICES ASSUME SeedInv, WorkerInv, NEW i \in DOMAIN broadcasts
               PROVE  broadcasts[i].providerSeed # provider_seed
    OBVIOUS
  <2>1. broadcasts[i] \in tasks
    BY DEF WorkerInv, BroadcastOnceInOrder, ToSet, SeedInv, HandedOverAreClaims
  <2> QED
    BY <2>1 DEF SeedInv, ClaimsRevealOldSeeds
<1>2. SeedInv /\ WorkerInv => [Gate!Serves => Hidden]_systemVars
  BY <1>1
<1> QED
  BY <1>2, SystemInvariance, PTL DEF RevealedSeedServesNothing

-----------------------------------------------------------------------------
(* The gate keeps its promises in the system too, whose restarts replace   *)
(* the seed and clear the watermarks at any time.  While no win is pending *)
(* the seed is unspent; pending wins and claims won their draws under the  *)
(* seeds they reveal, over the very tickets their signatures are for.      *)
SeedIsCommitted ==
  /\ provider_commitment = Keccak(provider_seed)
  /\ seed_invalidated \/ winning = {}
  /\ \A r \in served : /\ r.seed \in usedSeeds
                       /\ r.won /\ r.seed = provider_seed => seed_invalidated

Won(entry, seed) ==
  /\ Keccak(seed) = entry.ticket.providerCommitment
  /\ entry.signature.over = entry.ticket
  /\ GateWins(entry.ticket.winProbNumerator, entry.ticket.winProbDenominator,
              CombinedHash(entry.ticket, seed))

ClaimsAreWon ==
  /\ \A frame \in winning : Won(frame, provider_seed)
  /\ \A claim \in tasks : Won(claim, claim.providerSeed)

WatermarksAreWords == last_nonce \in [Clients -> 0 .. MaxUint64] /\ session \in [Clients -> Seq(Nat)]

GateInv == SeedIsCommitted /\ ClaimsAreWon /\ WatermarksAreWords /\ Gate!SessionIsContiguous

-----------------------------------------------------------------------------
LEMMA SmallModulus ==
  ASSUME NEW a \in Nat, NEW m \in Nat, a < m
  PROVE  a % m = a
OBVIOUS

(* One more nonce extends the contiguous prefix.                           *)
LEMMA ExtendPrefix ==
  ASSUME NEW n \in Nat
  PROVE  Append([i \in 1 .. n |-> i], n + 1) = [i \in 1 .. n + 1 |-> i]
<1> DEFINE s == [i \in 1 .. n |-> i]
<1>1. s \in Seq(Nat) /\ Len(s) = n
  OBVIOUS
<1>2. DOMAIN Append(s, n + 1) = 1 .. n + 1 /\ \A i \in 1 .. n + 1 : Append(s, n + 1)[i] = i
  BY <1>1
<1>3. Append(s, n + 1) = [i \in 1 .. n + 1 |-> Append(s, n + 1)[i]]
  BY <1>1, <1>2
<1> HIDE DEF s
<1> QED
  BY <1>2, <1>3 DEF s

(* The gate draws as the lottery does, and reads the same signatures.      *)
LEMMA GateDraws ==
  ASSUME NEW ticket, NEW seed
  PROVE  /\ Gate!Keccak(seed) = Keccak(seed)
         /\ Gate!WinsUnder(ticket, seed) <=>
              GateWins(ticket.winProbNumerator, ticket.winProbDenominator, CombinedHash(ticket, seed))
BY DEF Gate!WinsUnder, Gate!GateWins, Gate!GateTarget, Gate!Scaled, GateWins, GateTarget, Scaled,
       Gate!Keccak, Keccak

(* What the gate has established about a frame it lets pass.               *)
LEMMA GateEstablishes ==
  ASSUME GateInv, NEW client \in Clients, NEW frame \in FrameSet,
         NEW verdict \in {"ValidLosing", "ValidWinning"},
         Gate!Gate(frame, client, last_nonce[client]) = verdict
  PROVE  /\ ~seed_invalidated
         /\ frame.ticket.nonce = last_nonce[client] + 1
         /\ last_nonce[client] \in Nat /\ last_nonce[client] + 1 \in 0 .. MaxUint64
         /\ verdict = "ValidWinning" => Won(frame, provider_seed)
<1> DEFINE last == last_nonce[client]
<1>1. /\ ~seed_invalidated
      /\ Gate!NonceFollows(frame.ticket.nonce, last)
      /\ frame.ticket.providerCommitment = provider_commitment
      /\ Gate!SignatureHolds(frame, client)
      /\ verdict = "ValidWinning" => Gate!WinsUnder(frame.ticket, provider_seed)
  BY DEF Gate!Gate, Gate!verify_ticket, Gate!CommitmentIsCurrent
<1>2. last \in 0 .. MaxUint64 /\ MaxUint64 \in Nat
  BY SystemAssumption DEF GateInv, WatermarksAreWords
<1> HIDE DEF last
<1>3. frame.ticket.nonce = (last + 1) % (MaxUint64 + 1) /\ last # MaxUint64
  BY <1>1 DEF Gate!NonceFollows
<1>4. last \in Nat /\ last + 1 \in 0 .. MaxUint64 /\ frame.ticket.nonce = last + 1
  <2>1. last + 1 \in Nat /\ MaxUint64 + 1 \in Nat /\ last + 1 < MaxUint64 + 1
    BY <1>2, <1>3
  <2>2. (last + 1) % (MaxUint64 + 1) = last + 1
    BY <2>1, SmallModulus
  <2> QED
    BY <1>2, <1>3, <2>1, <2>2
<1>5. frame.signature.over = frame.ticket
  <2>1. client # NoAddress
    BY SystemAssumption, ZeroAddress
  <2> QED
    BY <1>1, <2>1 DEF Gate!SignatureHolds, Gate!Recover
<1>6. verdict = "ValidWinning" => Won(frame, provider_seed)
  BY <1>1, <1>5, GateDraws DEF Won, GateInv, SeedIsCommitted
<1> QED
  BY <1>1, <1>4, <1>6 DEF last

(* Serving keeps the session's history and watermark in step.              *)
LEMMA ServingExtendsSession ==
  ASSUME GateInv, NEW client \in Clients, NEW frame, NEW won,
         last_nonce[client] \in Nat, last_nonce[client] + 1 \in 0 .. MaxUint64,
         frame.ticket.nonce = last_nonce[client] + 1,
         Gate!Serve(client, frame, won)
  PROVE  WatermarksAreWords' /\ Gate!SessionIsContiguous'
<1> DEFINE n == last_nonce[client]
<1>1. /\ last_nonce' = [last_nonce EXCEPT ![client] = n + 1]
      /\ session' = [session EXCEPT ![client] = Append(session[client], n + 1)]
  BY DEF Gate!Serve
<1>2. session[client] = [i \in 1 .. n |-> i] /\ n \in Nat
  BY DEF GateInv, Gate!SessionIsContiguous
<1> HIDE DEF n
<1>3. Append(session[client], n + 1) = [i \in 1 .. n + 1 |-> i]
  BY <1>2, ExtendPrefix
<1>4. Append(session[client], n + 1) \in Seq(Nat)
  BY <1>2 DEF GateInv, WatermarksAreWords
<1>5. WatermarksAreWords'
  <2>1. n + 1 \in 0 .. MaxUint64
    BY DEF n
  <2> QED
    BY <1>1, <1>4, <2>1 DEF GateInv, WatermarksAreWords
<1>6. Gate!SessionIsContiguous'
  <2> SUFFICES ASSUME NEW other \in Clients
               PROVE  session'[other] = [i \in 1 .. last_nonce'[other] |-> i]
    BY DEF Gate!SessionIsContiguous
  <2>1. CASE other = client
    <3>1. session'[other] = Append(session[client], n + 1) /\ last_nonce'[other] = n + 1
      BY <1>1, <2>1 DEF GateInv, WatermarksAreWords
    <3> QED
      BY <1>3, <3>1
  <2>2. CASE other # client
    <3>1. session'[other] = session[other] /\ last_nonce'[other] = last_nonce[other]
      BY <1>1, <2>2 DEF GateInv, WatermarksAreWords
    <3> QED
      BY <3>1 DEF GateInv, Gate!SessionIsContiguous
  <2> QED
    BY <2>1, <2>2
<1> QED
  BY <1>5, <1>6

LEMMA ServeKeepsGateInv ==
  ASSUME GateInv, SeedInv, NEW client \in Clients, NEW frame \in FrameSet,
         Gate!ServeLosing(client, frame) \/ Gate!ServeWinning(client, frame)
  PROVE  GateInv'
<1>1. PICK won \in BOOLEAN :
        /\ Gate!Gate(frame, client, last_nonce[client]) = IF won THEN "ValidWinning" ELSE "ValidLosing"
        /\ Gate!Serve(client, frame, won)
        /\ seed_invalidated' = IF won THEN TRUE ELSE seed_invalidated
        /\ winning' = IF won THEN {frame} ELSE winning
        /\ UNCHANGED <<provider_seed, provider_commitment, usedSeeds, tasks>>
  <2>1. CASE Gate!ServeLosing(client, frame)
    BY <2>1 DEF Gate!ServeLosing, Gate!verifierVars
  <2>2. CASE Gate!ServeWinning(client, frame)
    BY <2>2 DEF Gate!ServeWinning
  <2> QED
    BY <2>1, <2>2
<1>2. /\ ~seed_invalidated
      /\ frame.ticket.nonce = last_nonce[client] + 1
      /\ last_nonce[client] \in Nat /\ last_nonce[client] + 1 \in 0 .. MaxUint64
      /\ won => Won(frame, provider_seed)
  <2>1. CASE won
    BY <1>1, <2>1, GateEstablishes
  <2>2. CASE ~won
    BY <1>1, <2>2, GateEstablishes
  <2> QED
    BY <2>1, <2>2
<1>3. served' = served \union
        {[client |-> client, frame |-> frame, seed |-> provider_seed, won |-> won]}
  BY <1>1 DEF Gate!Serve
<1>4. SeedIsCommitted'
  BY <1>1, <1>2, <1>3 DEF GateInv, SeedIsCommitted, SeedInv, SeedIsDrawn
<1>5. ClaimsAreWon'
  <2>1. \A frame2 \in winning' : Won(frame2, provider_seed)
    BY <1>1, <1>2 DEF GateInv, ClaimsAreWon
  <2> QED
    BY <1>1, <2>1 DEF GateInv, ClaimsAreWon, Won
<1>6. WatermarksAreWords' /\ Gate!SessionIsContiguous'
  BY <1>1, <1>2, ServingExtendsSession
<1> QED
  BY <1>4, <1>5, <1>6 DEF GateInv

(* A new seed was never used, so no served ticket was won under it; what   *)
(* becomes a claim takes the old one along.                                *)
LEMMA RotationKeepsGateInv ==
  ASSUME GateInv, NEW new_seed \in Seeds, new_seed \notin usedSeeds,
         Gate!rotate_seed(new_seed), usedSeeds' = usedSeeds \union {new_seed},
         winning' = {}, served' = served,
         \A claim \in tasks' : \/ claim \in tasks
                               \/ \E frame \in winning : claim = Gate!ClaimOf(frame, provider_seed)
  PROVE  SeedIsCommitted' /\ ClaimsAreWon'
<1>1. /\ provider_seed' = new_seed /\ provider_commitment' = Keccak(new_seed)
  BY GateDraws DEF Gate!rotate_seed
<1>2. SeedIsCommitted'
  BY <1>1 DEF GateInv, SeedIsCommitted
<1>3. ASSUME NEW frame \in winning
      PROVE  LET claim == Gate!ClaimOf(frame, provider_seed)
             IN  Won(claim, claim.providerSeed)
  BY DEF GateInv, ClaimsAreWon, Won, Gate!ClaimOf
<1>4. \A claim \in tasks' : Won(claim, claim.providerSeed)
  BY <1>3 DEF GateInv, ClaimsAreWon
<1> QED
  BY <1>2, <1>4 DEF ClaimsAreWon, Won

(* A session that starts over has served nothing.                          *)
LEMMA FreshSession ==
  ASSUME NEW n, n = 0
  PROVE  <<>> = [i \in 1 .. n |-> i]
OBVIOUS

LEMMA GateKeepsGateInv ==
  ASSUME GateInv, SeedInv, GateStep
  PROVE  GateInv'
<1>1. ASSUME NEW client \in Clients, NEW frame \in FrameSet,
             Gate!ServeLosing(client, frame) \/ Gate!ServeWinning(client, frame)
      PROVE  GateInv'
  BY <1>1, ServeKeepsGateInv
<1>2. ASSUME NEW new_seed \in Seeds, Gate!ClaimAndRotate(new_seed)
      PROVE  GateInv'
  <2>1. /\ new_seed \notin usedSeeds /\ Gate!rotate_seed(new_seed)
        /\ usedSeeds' = usedSeeds \union {new_seed} /\ winning' = {} /\ served' = served
        /\ tasks' = tasks \union {Gate!ClaimOf(frame, provider_seed) : frame \in winning}
        /\ UNCHANGED <<last_nonce, session>>
    BY <1>2 DEF Gate!ClaimAndRotate
  <2>2. SeedIsCommitted' /\ ClaimsAreWon'
    BY <2>1, RotationKeepsGateInv
  <2>3. WatermarksAreWords' /\ Gate!SessionIsContiguous'
    BY <2>1 DEF GateInv, WatermarksAreWords, Gate!SessionIsContiguous
  <2> QED
    BY <2>2, <2>3 DEF GateInv
<1>3. ASSUME NEW client \in Clients, Gate!Handshake(client)
      PROVE  GateInv'
  <2>1. /\ last_nonce' = [last_nonce EXCEPT ![client] = 0]
        /\ session' = [session EXCEPT ![client] = <<>>]
        /\ UNCHANGED <<provider_seed, provider_commitment, seed_invalidated, usedSeeds, winning, tasks, served>>
    BY <1>3 DEF Gate!Handshake, Gate!verifierVars
  <2>2. SeedIsCommitted' /\ ClaimsAreWon'
    BY <2>1 DEF GateInv, SeedIsCommitted, ClaimsAreWon, Won
  <2>3. WatermarksAreWords'
    BY <2>1, SystemAssumption DEF GateInv, WatermarksAreWords
  <2>4. Gate!SessionIsContiguous'
    <3> SUFFICES ASSUME NEW other \in Clients
                 PROVE  session'[other] = [i \in 1 .. last_nonce'[other] |-> i]
      BY DEF Gate!SessionIsContiguous
    <3>1. CASE other = client
      <4>1. session'[other] = <<>> /\ last_nonce'[other] = 0
        BY <2>1, <3>1 DEF GateInv, WatermarksAreWords
      <4> QED
        BY <4>1, FreshSession
    <3>2. CASE other # client
      <4>1. session'[other] = session[other] /\ last_nonce'[other] = last_nonce[other]
        BY <2>1, <3>2 DEF GateInv, WatermarksAreWords
      <4> QED
        BY <4>1 DEF GateInv, Gate!SessionIsContiguous
    <3> QED
      BY <3>1, <3>2
  <2> QED
    BY <2>2, <2>3, <2>4 DEF GateInv
<1> QED
  BY <1>1, <1>2, <1>3 DEF GateStep

LEMMA StepKeepsGateInv ==
  ASSUME GateInv, SeedInv, [SystemNext]_systemVars
  PROVE  GateInv'
<1>1. CASE GateStep
  BY <1>1, GateKeepsGateInv
<1>2. ASSUME NEW new_seed \in Seeds, ProviderRestart(new_seed)
      PROVE  GateInv'
  <2>1. /\ new_seed \notin usedSeeds /\ Gate!rotate_seed(new_seed)
        /\ usedSeeds' = usedSeeds \union {new_seed} /\ winning' = {} /\ served' = served
        /\ tasks' \subseteq tasks
        /\ last_nonce' = [client \in Clients |-> 0]
        /\ session' = [client \in Clients |-> <<>>]
    BY <1>2 DEF ProviderRestart
  <2>2. SeedIsCommitted' /\ ClaimsAreWon'
    BY <2>1, RotationKeepsGateInv
  <2>3. WatermarksAreWords'
    BY <2>1, SystemAssumption DEF WatermarksAreWords
  <2>4. Gate!SessionIsContiguous'
    BY <2>1, FreshSession DEF Gate!SessionIsContiguous
  <2> QED
    BY <2>2, <2>3, <2>4 DEF GateInv
<1>3. CASE UNCHANGED gateVars
  BY <1>3 DEF gateVars, GateInv, SeedIsCommitted, ClaimsAreWon, Won, WatermarksAreWords,
              Gate!SessionIsContiguous
<1>4. HandOver \/ WorkerStep \/ ClientTransaction \/ Time \/ UNCHANGED systemVars => UNCHANGED gateVars
  BY DEF HandOver, WorkerStep, ClientTransaction, Time, systemVars
<1> QED
  BY <1>1, <1>2, <1>3, <1>4 DEF SystemNext

LEMMA InitGateInv ==
  SystemInit => GateInv
<1> SUFFICES ASSUME SystemInit PROVE GateInv
  OBVIOUS
<1>1. /\ provider_commitment = Keccak(provider_seed) /\ winning = {} /\ tasks = {} /\ served = {}
      /\ last_nonce = [client \in Clients |-> 0]
      /\ session = [client \in Clients |-> <<>>]
  BY GateDraws DEF SystemInit, Gate!VerifierInit
<1>2. SeedIsCommitted /\ ClaimsAreWon
  BY <1>1 DEF SeedIsCommitted, ClaimsAreWon
<1>3. WatermarksAreWords
  BY <1>1, SystemAssumption DEF WatermarksAreWords
<1>4. Gate!SessionIsContiguous
  BY <1>1, FreshSession DEF Gate!SessionIsContiguous
<1> QED
  BY <1>2, <1>3, <1>4 DEF GateInv

LEMMA GateInvariance ==
  SystemSpec => []GateInv
<1>1. GateInv /\ (SeedInv /\ WorkerInv) /\ [SystemNext]_systemVars => GateInv'
  BY StepKeepsGateInv
<1> QED
  BY <1>1, InitGateInv, SystemInvariance, PTL DEF SystemSpec

(* The nonces served in one session are 1, 2, 3, ... up to its watermark,  *)
(* in the system too: a restart of the provider starts every session over. *)
THEOREM SessionsAreContiguous ==
  SystemSpec => []Gate!SessionIsContiguous
<1>1. GateInv => Gate!SessionIsContiguous
  BY DEF GateInv
<1> QED
  BY <1>1, GateInvariance, PTL

(* No ticket is served under a seed that has won, whether it was replaced  *)
(* by a rotation or by a restart.                                          *)
THEOREM SpentSeedsAreDead ==
  SystemSpec => Gate!SpentSeedServesNothing
<1>1. GateInv /\ Gate!Serves => \A win \in {r \in served : r.won} : win.seed # provider_seed
  <2> SUFFICES ASSUME GateInv, NEW client \in Clients, NEW frame \in FrameSet,
                      Gate!ServeLosing(client, frame) \/ Gate!ServeWinning(client, frame),
                      NEW win \in served, win.won
               PROVE  win.seed # provider_seed
    BY DEF Gate!Serves
  <2>1. ~seed_invalidated
    BY GateEstablishes DEF Gate!ServeLosing, Gate!ServeWinning
  <2> QED
    BY <2>1 DEF GateInv, SeedIsCommitted
<1>2. UNCHANGED systemVars => UNCHANGED Gate!vars
  BY DEF systemVars, allVars, vars, gateVars, Gate!vars, Gate!verifierVars, Gate!callerVars
<1>3. GateInv /\ [SystemNext]_systemVars =>
        [Gate!Serves => \A win \in {r \in served : r.won} : win.seed # provider_seed]_(Gate!vars)
  BY <1>1
<1> QED
  BY <1>3, GateInvariance, PTL DEF SystemSpec, Gate!SpentSeedServesNothing

-----------------------------------------------------------------------------
(* A regular claim of the gate's passes the checks of claimTicket that     *)
(* depend on the claim alone: it won the gate's draw under the seed it     *)
(* reveals, and below certainty the contract draws alike.                  *)
LEMMA RegularClaimsWin ==
  ASSUME GateInv, SeedInv, NEW claim \in tasks, Gate!Regular(claim)
  PROVE  /\ SeedMatches(claim) /\ Wins(claim)
         /\ SignedBy(claim, claim.ticket.channelId[1])
         /\ claim.ticket.channelId \in Pairs /\ claim.ticket.channelId[2] = Provider
<1>1. claim \in Claims /\ Won(claim, claim.providerSeed)
  BY EscrowAssumption DEF SeedInv, ClaimsRevealOldSeeds, GateInv, ClaimsAreWon
<1>2. /\ claim.ticket.winProbNumerator < claim.ticket.winProbDenominator
      /\ claim.signature.s <= SECP256K1_N \div 2
      /\ claim.ticket.channelId = <<claim.signature.signer, Provider>>
  BY DEF Gate!Regular, Gate!getChannelId
<1>3. /\ claim.ticket.winProbNumerator \in Odds
      /\ claim.ticket.winProbDenominator \in Odds
      /\ CombinedHash(claim.ticket, claim.providerSeed) \in Hashes
      /\ claim.ticket.channelId \in Pairs
  BY <1>1, TicketAssumption DEF Claims, Tickets
<1>4. Wins(claim)
  BY <1>1, <1>2, <1>3, BelowCertaintyAgree DEF Wins, Won, DrawsAgree
<1>5. SeedMatches(claim)
  BY <1>1 DEF Won, SeedMatches
<1>6. SignedBy(claim, claim.ticket.channelId[1])
  BY <1>1, <1>2 DEF Won, SignedBy, Recover
<1> QED
  BY <1>2, <1>3, <1>4, <1>5, <1>6

(* With the gate in front, claimTicket refuses a regular claim for its     *)
(* time, its nonce or its channel's money alone.  This joins the gate's    *)
(* invariant to the contract's: a channel that exists belongs to the pair  *)
(* the ticket names, so payee and signer are those the contract expects.   *)
THEOREM RegularClaimsArePaidIfCovered ==
  SystemSpec => []RegularClaimsNeedOnlyFunds
<1>1. GateInv /\ SeedInv /\ WorkerInv => RegularClaimsNeedOnlyFunds
  <2> SUFFICES ASSUME GateInv, SeedInv, WorkerInv, NEW claim \in tasks, Gate!Regular(claim)
               PROVE  LET ticket == claim.ticket
                      IN  CanClaim(Provider, claim) <=>
                            /\ Exists(ticket.channelId) /\ NotExpired(ticket)
                            /\ Covered(ticket) /\ Unclaimed(ticket)
    BY DEF RegularClaimsNeedOnlyFunds
  <2> DEFINE id == claim.ticket.channelId
  <2>1. /\ SeedMatches(claim) /\ Wins(claim) /\ SignedBy(claim, id[1])
        /\ id \in Pairs /\ id[2] = Provider
    BY RegularClaimsWin
  <2>2. Exists(id) => channels[id].client = id[1] /\ channels[id].provider = id[2]
    BY <2>1 DEF WorkerInv, IInv, ChannelsAreWhole, Exists, NoChannel
  <2> HIDE DEF id
  <2>3. Exists(id) => channels[id].provider = Provider /\ SignedBy(claim, channels[id].client)
    BY <2>1, <2>2
  <2> QED
    BY <2>1, <2>3 DEF CanClaim, id
<1> QED
  BY <1>1, GateInvariance, SystemInvariance, PTL

(* The claim-only part, as the gate alone promises it.                     *)
THEOREM SystemClaimsArePayable ==
  SystemSpec => []Gate!ClaimsArePayable
<1>1. ASSUME NEW claim, NEW client
      PROVE  /\ Gate!SeedMatches(claim) <=> SeedMatches(claim)
             /\ Gate!SignedBy(claim, client) <=> SignedBy(claim, client)
             /\ Gate!Wins(claim) <=> Wins(claim)
  BY DEF Gate!SeedMatches, SeedMatches, Gate!Keccak, Keccak, Gate!SignedBy, SignedBy,
         Gate!Recover, Recover, Gate!Wins, Wins, Gate!ChainWins, ChainWins, Gate!ChainPanics,
         ChainPanics, Gate!Scaled, Scaled
<1>2. GateInv /\ SeedInv => Gate!ClaimsArePayable
  BY <1>1, RegularClaimsWin DEF Gate!ClaimsArePayable
<1> QED
  BY <1>2, GateInvariance, SystemInvariance, PTL

-----------------------------------------------------------------------------
(* The worker passes a task on: to its hand, to the node, to the log of    *)
(* failed claims.  The node passes it on to a block.                       *)
Passed(claim) == claim \in ToSet(queue) \union InHand

LEMMA WorkerPassesOn ==
  ASSUME WorkerInv, WorkerStep, NEW claim \in ClaimSet
  PROVE  /\ Passed(claim) => \/ Passed(claim)' \/ claim \in ToSet(mempool') \union mined'
                             \/ claim \in failed'
         /\ claim \in ToSet(mempool) \union mined => claim \in ToSet(mempool') \union mined'
<1> USE DEF Passed
<1>1. claim # NoTask
  BY NoTaskIsNoClaim
<1>2. CASE Start
  BY <1>2 DEF Start, InHand, nodeVars, logVars
<1>3. CASE Recv
  <2>1. ToSet(queue) = {Head(queue)} \union ToSet(Tail(queue))
    BY <1>3, TailEffect DEF Recv, WorkerInv, Types
  <2>2. /\ current' = Head(queue) /\ queue' = Tail(queue) /\ current = NoTask
        /\ UNCHANGED <<mempool, mined>>
    BY <1>3 DEF Recv, nodeVars, WorkerInv, Types, WorkerStates
  <2> QED
    BY <1>1, <2>1, <2>2 DEF InHand
<1>4. CASE Broadcast \/ SendUnanswered
  <2>1. /\ mempool' = Append(mempool, current) /\ worker = "sending"
        /\ UNCHANGED <<queue, mined>>
    BY <1>4 DEF Broadcast, SendUnanswered, NodeAccepts
  <2>2. current \in ClaimSet /\ mempool \in Seq(ClaimSet)
    BY <2>1 DEF WorkerInv, Types
  <2>3. ToSet(mempool') = ToSet(mempool) \union {current}
    BY <2>1, <2>2, AppendEffect
  <2> QED
    BY <2>1, <2>3 DEF InHand
<1>5. CASE SendFails \/ WatchFails
  BY <1>1, <1>5 DEF SendFails, WatchFails, GiveUp, InHand, nodeVars
<1>6. CASE WatchOk
  BY <1>1, <1>6 DEF WatchOk, InHand, nodeVars
<1>7. CASE Mine
  <2>1. ToSet(mempool) = {Head(mempool)} \union ToSet(Tail(mempool))
    BY <1>7, TailEffect DEF Mine, WorkerInv, Types
  <2> QED
    BY <1>7, <2>1 DEF Mine, InHand, workerVars
<1> QED
  BY <1>2, <1>3, <1>4, <1>5, <1>6, <1>7 DEF WorkerStep

(* Where a win is, by its claim; what the gate and its caller do with it.  *)
LEMMA GateKeepsWins ==
  ASSUME GateInv, SeedInv, GateStep, NEW r \in served, InMemory(r)
  PROVE  InMemory(r)'
<1> DEFINE claim == ClaimFor(r)
<1>1. /\ UNCHANGED <<queue, current>> /\ held' = held \union (tasks' \ tasks)
  BY DEF GateStep, allVars, workerVars
<1>2. claim \in held \union ToSet(queue) \union InHand => InMemory(r)'
  BY <1>1 DEF InMemory, InHand, ClaimFor, Gate!ClaimOf
<1>3. ASSUME r.frame \in winning, r.seed = provider_seed
      PROVE  InMemory(r)'
  <2>1. ASSUME winning \subseteq winning', provider_seed' = provider_seed
        PROVE  InMemory(r)'
    BY <1>3, <2>1 DEF InMemory
  <2>2. ASSUME NEW client \in Clients, NEW frame \in FrameSet, Gate!ServeLosing(client, frame)
        PROVE  InMemory(r)'
    BY <2>1, <2>2 DEF Gate!ServeLosing, Gate!verifierVars
  <2>3. ASSUME NEW client \in Clients, NEW frame \in FrameSet, Gate!ServeWinning(client, frame)
        PROVE  InMemory(r)'
    <3>1. winning = {}
      BY <2>3, GateEstablishes DEF Gate!ServeWinning, GateInv, SeedIsCommitted
    <3> QED
      BY <1>3, <3>1
  <2>4. ASSUME NEW new_seed \in Seeds, Gate!ClaimAndRotate(new_seed)
        PROVE  InMemory(r)'
    <3>1. tasks' = tasks \union {Gate!ClaimOf(frame, provider_seed) : frame \in winning}
      BY <2>4 DEF Gate!ClaimAndRotate
    <3>2. claim \in tasks' /\ claim.providerSeed = provider_seed
      BY <1>3, <3>1 DEF ClaimFor, Gate!ClaimOf
    <3>3. claim \notin tasks
      BY <3>2 DEF SeedInv, ClaimsRevealOldSeeds
    <3>4. claim \in held'
      BY <1>1, <3>2, <3>3
    <3> QED
      BY <3>4 DEF InMemory, ClaimFor, Gate!ClaimOf
  <2>5. ASSUME NEW client \in Clients, Gate!Handshake(client)
        PROVE  InMemory(r)'
    BY <2>1, <2>5 DEF Gate!Handshake, Gate!verifierVars
  <2> QED
    BY <2>2, <2>3, <2>4, <2>5 DEF GateStep
<1> QED
  BY <1>2, <1>3 DEF InMemory

(* No step but a restart takes a win out of the daemon's memory without    *)
(* the node or the log of failed claims having it, and none takes it back  *)
(* from the node.  The second win that would take the place of one not yet *)
(* claimed is not served, since the first has spent the seed.              *)
THEOREM WinsOutliveAllButRestarts ==
  SystemSpec => OnlyRestartsLoseWins
<1> DEFINE Moves(r) ==
             r.won =>
               /\ InMemory(r) => \/ InMemory(r)' \/ OnTheNode(r)'
                                 \/ ClaimFor(r) \in failed' \/ restarts' # restarts
               /\ OnTheNode(r) => OnTheNode(r)'
<1>1. ASSUME GateInv, SeedInv, WorkerInv, [SystemNext]_systemVars, NEW r \in served
      PROVE  Moves(r)
  <2> DEFINE claim == ClaimFor(r)
  <2>1. ClaimFor(r)' = claim
    BY DEF ClaimFor, Gate!ClaimOf
  <2>2. CASE GateStep
    <3>1. UNCHANGED <<mempool, mined>>
      BY <2>2 DEF GateStep, allVars, nodeVars
    <3> QED
      BY <1>1, <2>2, <3>1, GateKeepsWins DEF OnTheNode, ClaimFor, Gate!ClaimOf
  <2> DEFINE pending == r.frame \in winning /\ r.seed = provider_seed
  <2>3. ASSUME UNCHANGED gateVars
        PROVE  pending => InMemory(r)'
    BY <2>3 DEF gateVars, InMemory
  <2>4. CASE HandOver
    <3>1. PICK task \in held : Enqueue(task) /\ held' = held \ {task}
      BY <2>4 DEF HandOver
    <3>2. /\ queue' = Append(queue, task) /\ UNCHANGED <<current, mempool, mined>>
      BY <3>1 DEF Enqueue, nodeVars
    <3>3. task \in ClaimSet /\ queue \in Seq(ClaimSet)
      BY <1>1 DEF SeedInv, HandedOverAreClaims, ClaimsRevealOldSeeds, WorkerInv, Types
    <3>4. ToSet(queue') = ToSet(queue) \union {task}
      BY <3>2, <3>3, AppendEffect
    <3>5. claim \in held \union ToSet(queue) \union InHand =>
            claim \in held' \union ToSet(queue') \union InHand'
      BY <3>1, <3>2, <3>4 DEF InHand
    <3>6. InMemory(r) => InMemory(r)'
      BY <2>1, <2>3, <2>4, <3>5 DEF HandOver, InMemory
    <3>7. OnTheNode(r) => OnTheNode(r)'
      BY <2>1, <3>2 DEF OnTheNode
    <3> QED
      BY <3>6, <3>7
  <2>5. CASE WorkerStep
    <3>1. UNCHANGED <<gateVars, held>>
      BY <2>5 DEF WorkerStep
    <3>2. CASE claim \in ClaimSet
      <4>1. /\ Passed(claim) => \/ Passed(claim)' \/ claim \in ToSet(mempool') \union mined'
                                \/ claim \in failed'
            /\ claim \in ToSet(mempool) \union mined => claim \in ToSet(mempool') \union mined'
        BY <1>1, <2>5, <3>2, WorkerPassesOn
      <4>2. OnTheNode(r) => OnTheNode(r)'
        BY <2>1, <4>1 DEF OnTheNode
      <4>3. claim \in held => InMemory(r)'
        BY <2>1, <3>1 DEF InMemory
      <4>4. Passed(claim) => InMemory(r)' \/ OnTheNode(r)' \/ claim \in failed'
        BY <2>1, <4>1 DEF Passed, InMemory, OnTheNode
      <4> QED
        BY <2>3, <3>1, <4>2, <4>3, <4>4 DEF InMemory, Passed
    <3>3. CASE claim \notin ClaimSet
      <4>1. ToSet(queue) \subseteq ClaimSet /\ ToSet(mempool) \subseteq ClaimSet
            /\ mined \subseteq ClaimSet /\ InHand \subseteq ClaimSet
        <5>1. /\ \A k \in DOMAIN queue : queue[k] \in ClaimSet
              /\ \A k \in DOMAIN mempool : mempool[k] \in ClaimSet
          BY <1>1, ElementOfSeq, LenProperties DEF WorkerInv, Types
        <5> QED
          BY <1>1, <5>1 DEF WorkerInv, Types, ToSet, InHand
      <4>2. held \subseteq ClaimSet
        BY <1>1 DEF SeedInv, HandedOverAreClaims, ClaimsRevealOldSeeds
      <4> QED
        BY <2>3, <3>1, <3>3, <4>1, <4>2 DEF InMemory, OnTheNode
    <3> QED
      BY <3>2, <3>3
  <2>6. ASSUME NEW new_seed \in Seeds, ProviderRestart(new_seed)
        PROVE  Moves(r)
    <3>1. restarts' = restarts + 1 /\ UNCHANGED <<mempool, mined>>
      BY <2>6 DEF ProviderRestart, Restart, nodeVars
    <3>2. restarts' # restarts
      BY <1>1, <3>1, WorkerAssumption DEF WorkerInv, Types
    <3> QED
      BY <2>1, <3>1, <3>2 DEF OnTheNode
  <2>7. CASE ClientTransaction \/ Time \/ UNCHANGED systemVars
    <3>1. UNCHANGED <<gateVars, held, queue, current, mempool, mined>>
      BY <2>7 DEF ClientTransaction, Time, systemVars, allVars, workerVars, nodeVars
    <3> QED
      BY <2>1, <3>1 DEF gateVars, InMemory, OnTheNode, InHand
  <2> QED
    BY <1>1, <2>2, <2>4, <2>5, <2>6, <2>7 DEF SystemNext
<1>2. GateInv /\ SeedInv /\ WorkerInv /\ [SystemNext]_systemVars =>
        [\A r \in served : Moves(r)]_systemVars
  BY <1>1
<1> QED
  BY <1>2, GateInvariance, SystemInvariance, PTL DEF SystemSpec, OnlyRestartsLoseWins

-----------------------------------------------------------------------------
(* What a nonce is worth.                                                  *)
LEMMA GreatestNumber ==
  ASSUME NEW S, S # {}, NEW bound \in Nat, S \subseteq 0 .. bound
  PROVE  Max(S) \in S /\ \A x \in S : x <= Max(S)
<1> DEFINE Gaps == {bound - x : x \in S}
<1>1. Gaps \subseteq Nat /\ Gaps # {}
  <2>1. \A x \in S : bound - x \in Nat
    OBVIOUS
  <2>2. PICK x : x \in S
    OBVIOUS
  <2>3. bound - x \in Gaps
    BY <2>2
  <2> QED
    BY <2>1, <2>3
<1>2. PICK d \in Gaps : \A e \in Gaps : d <= e
  <2> HIDE DEF Gaps
  <2> QED
    BY <1>1, LeastNumber
<1>3. PICK m \in S : d = bound - m
  BY <1>2
<1>4. \A x \in S : bound - m <= bound - x
  BY <1>2, <1>3
<1>5. \A x \in S : m >= x
  <2> TAKE x \in S
  <2>1. m \in Int /\ x \in Int
    OBVIOUS
  <2> QED
    BY <1>4, <2>1
<1>6. Max(S) \in S /\ \A x \in S : Max(S) >= x
  BY <1>5 DEF Max
<1> QED
  BY <1>6

LEMMA DearestIsAWin ==
  ASSUME NEW wins, wins \subseteq TicketSet, NEW n \in NoncesOf(wins)
  PROVE  /\ DearestOf(wins)[n] \in Nat
         /\ \E t \in wins : Nullifier(t) = n /\ t.faceValue = DearestOf(wins)[n]
         /\ \A t \in wins : Nullifier(t) = n => t.faceValue <= DearestOf(wins)[n]
<1> DEFINE Priced == {t \in wins : Nullifier(t) = n}
           Prices == {t.faceValue : t \in Priced}
<1>1. Prices # {} /\ Prices \subseteq 0 .. MaxUint256 /\ MaxUint256 \in Nat
  BY TicketAssumption, WordSizes DEF Tickets, NoncesOf
<1>2. DearestOf(wins)[n] = Max(Prices)
  BY DEF DearestOf
<1>3. Max(Prices) \in Prices /\ \A x \in Prices : x <= Max(Prices)
  <2> HIDE DEF Prices
  <2> QED
    BY <1>1, GreatestNumber
<1>4. PICK t \in wins : Nullifier(t) = n /\ t.faceValue = Max(Prices)
  BY <1>3
<1>5. \A u \in wins : Nullifier(u) = n => u.faceValue \in Prices
  OBVIOUS
<1> HIDE DEF Prices
<1>6. Max(Prices) \in Nat
  <2>1. \A p \in Prices : p \in Nat
    BY <1>1
  <2> QED
    BY <1>3, <2>1
<1>7. \A u \in wins : Nullifier(u) = n => u.faceValue <= Max(Prices)
  BY <1>3, <1>5
<1> QED
  BY <1>2, <1>4, <1>6, <1>7

(* More wins make no nonce cheaper.                                        *)
LEMMA MoreWins ==
  ASSUME NEW wins, NEW more, wins \subseteq more, more \subseteq TicketSet,
         IsFiniteSet(NoncesOf(more)), NEW paid, paid \subseteq NoncesOf(wins)
  PROVE  /\ paid \subseteq NoncesOf(more)
         /\ SumOf(DearestOf(wins), paid) \in Nat /\ SumOf(DearestOf(more), paid) \in Nat
         /\ SumOf(DearestOf(wins), paid) <= SumOf(DearestOf(more), paid)
<1>1. NoncesOf(wins) \subseteq NoncesOf(more)
  BY DEF NoncesOf
<1>2. IsFiniteSet(paid)
  BY <1>1, FS_Subset
<1>3. ASSUME NEW n \in paid
      PROVE  /\ DearestOf(wins)[n] \in Nat /\ DearestOf(more)[n] \in Nat
             /\ DearestOf(wins)[n] <= DearestOf(more)[n]
  <2>1. n \in NoncesOf(wins) /\ n \in NoncesOf(more)
    BY <1>1
  <2>2. PICK t \in wins : Nullifier(t) = n /\ t.faceValue = DearestOf(wins)[n]
    BY <2>1, DearestIsAWin
  <2>3. DearestOf(wins)[n] \in Nat
    BY <2>1, DearestIsAWin
  <2>4. DearestOf(more)[n] \in Nat /\ t.faceValue <= DearestOf(more)[n]
    BY <2>1, <2>2, DearestIsAWin
  <2> QED
    BY <2>2, <2>3, <2>4
<1> QED
  BY <1>1, <1>2, <1>3, SumCompare

-----------------------------------------------------------------------------
(* The inductive invariant of the payments: claims, from the pending win   *)
(* to the mempool, are of won tickets, the nonces paid are won nonces, and *)
(* the provider holds no more than the dearest win of each nonce paid.     *)
PaymentsFit(history, won, claims, waiting, paid, money) ==
  /\ WinsOf(history) \subseteq TicketSet
  /\ IsFiniteSet(NoncesOf(WinsOf(history)))
  /\ \A frame \in won : frame.ticket \in WinsOf(history)
  /\ \A claim \in claims : claim.ticket \in WinsOf(history)
  /\ \A i \in DOMAIN waiting : waiting[i].ticket \in WinsOf(history)
  /\ paid \subseteq NoncesOf(WinsOf(history))
  /\ money \in Nat /\ money <= SumOf(DearestOf(WinsOf(history)), paid)

PaymentInv ==
  PaymentsFit(served, winning, tasks, mempool, nullifiers, balanceOf[Provider])

LEMMA InitPaymentInv ==
  SystemInit => PaymentInv
<1> SUFFICES ASSUME SystemInit PROVE PaymentInv
  OBVIOUS
<1>1. /\ served = {} /\ winning = {} /\ tasks = {} /\ mempool = <<>> /\ nullifiers = {}
  BY DEF SystemInit, WorkerInit, Init, Gate!VerifierInit
<1>2. balanceOf[Provider] = 0
  BY SystemAssumption, WorkerAssumption DEF SystemInit, WorkerInit, Init, TokenInit, Holders
<1>3. WinsOf({}) = {} /\ NoncesOf({}) = {}
  BY DEF WinsOf, NoncesOf
<1>4. IsFiniteSet({}) /\ SumOf(DearestOf({}), {}) = 0
  BY FS_EmptySet, SumStep
<1>5. PaymentsFit({}, {}, {}, <<>>, {}, 0)
  BY <1>3, <1>4 DEF PaymentsFit
<1> QED
  BY <1>1, <1>2, <1>5 DEF PaymentInv

LEMMA OneMoreServed ==
  ASSUME NEW history, NEW r
  PROVE  WinsOf(history \union {r}) =
           IF r.won THEN WinsOf(history) \union {r.frame.ticket} ELSE WinsOf(history)
<1> QED
  BY DEF WinsOf

(* A ticket served adds a win or none, and takes nothing away.             *)
LEMMA ServeKeepsPaymentInv ==
  ASSUME PaymentInv, SeedInv, NEW client \in Clients, NEW frame \in FrameSet,
         Gate!ServeLosing(client, frame) \/ Gate!ServeWinning(client, frame),
         UNCHANGED allVars
  PROVE  PaymentInv'
<1> DEFINE wins == WinsOf(served)
           more == WinsOf(served')
<1>1. UNCHANGED <<tasks, mempool, nullifiers, balanceOf>>
  BY DEF Gate!ServeLosing, Gate!ServeWinning, Gate!verifierVars, allVars, vars,
         escrowVars, tokenVars, nodeVars
<1>2. \/ more = wins /\ winning' = winning
      \/ more = wins \union {frame.ticket} /\ winning' = {frame}
  <2>1. CASE Gate!ServeLosing(client, frame)
    <3> DEFINE r == [client |-> client, frame |-> frame, seed |-> provider_seed, won |-> FALSE]
    <3>1. served' = served \union {r} /\ winning' = winning /\ ~r.won
      BY <2>1 DEF Gate!ServeLosing, Gate!Serve
    <3> HIDE DEF r
    <3> QED
      BY <3>1, OneMoreServed
  <2>2. CASE Gate!ServeWinning(client, frame)
    <3> DEFINE r == [client |-> client, frame |-> frame, seed |-> provider_seed, won |-> TRUE]
    <3>1. served' = served \union {r} /\ winning' = {frame} /\ r.won /\ r.frame = frame
      BY <2>2 DEF Gate!ServeWinning, Gate!Serve
    <3> HIDE DEF r
    <3> QED
      BY <3>1, OneMoreServed
  <2> QED
    BY <2>1, <2>2
<1>3. frame.ticket \in TicketSet
  <2>1. Gate!ClaimOf(frame, provider_seed) \in Claims
    BY SystemAssumption, EscrowAssumption DEF SeedInv, SeedIsDrawn
  <2> QED
    BY <2>1 DEF Claims, Gate!ClaimOf
<1>4. /\ wins \subseteq TicketSet /\ IsFiniteSet(NoncesOf(wins))
      /\ \A f \in winning : f.ticket \in wins
      /\ \A claim \in tasks : claim.ticket \in wins
      /\ \A i \in DOMAIN mempool : mempool[i].ticket \in wins
      /\ nullifiers \subseteq NoncesOf(wins)
      /\ balanceOf[Provider] \in Nat
      /\ balanceOf[Provider] <= SumOf(DearestOf(wins), nullifiers)
  BY DEF PaymentInv, PaymentsFit
<1> HIDE DEF wins, more
<1>5. more \subseteq TicketSet /\ wins \subseteq more
  BY <1>2, <1>3, <1>4
<1>6. IsFiniteSet(NoncesOf(more))
  <2>1. NoncesOf(wins \union {frame.ticket}) = NoncesOf(wins) \union {Nullifier(frame.ticket)}
    BY DEF NoncesOf
  <2>2. CASE more = wins
    BY <1>4, <2>2
  <2>3. CASE more = wins \union {frame.ticket}
    BY <1>4, <2>1, <2>3, FS_AddElement
  <2> QED
    BY <1>2, <2>2, <2>3
<1>7. /\ nullifiers \subseteq NoncesOf(more)
      /\ SumOf(DearestOf(wins), nullifiers) \in Nat /\ SumOf(DearestOf(more), nullifiers) \in Nat
      /\ SumOf(DearestOf(wins), nullifiers) <= SumOf(DearestOf(more), nullifiers)
  BY <1>4, <1>5, <1>6, MoreWins
<1>8. balanceOf[Provider] <= SumOf(DearestOf(more), nullifiers)
  BY <1>4, <1>7
<1>9. \A f \in winning' : f.ticket \in more
  BY <1>2, <1>4
<1>10. PaymentsFit(served', winning', tasks, mempool, nullifiers, balanceOf[Provider])
  BY <1>4, <1>5, <1>6, <1>7, <1>8, <1>9 DEF PaymentsFit, more
<1> QED
  BY <1>1, <1>10 DEF PaymentInv

(* A claim paid is the first of its nonce, and costs no more than the      *)
(* nonce's dearest win.                                                    *)
LEMMA PayingKeepsPaymentInv ==
  ASSUME PaymentInv, WorkerInv, UNCHANGED gateVars, Mine
  PROVE  PaymentInv'
<1> DEFINE wins == WinsOf(served)
           claim == Head(mempool)
           n == Nullifier(claim.ticket)
           money == balanceOf[Provider]
           price == claim.ticket.faceValue
<1>1. /\ wins \subseteq TicketSet /\ IsFiniteSet(NoncesOf(wins))
      /\ \A f \in winning : f.ticket \in wins
      /\ \A c \in tasks : c.ticket \in wins
      /\ \A i \in DOMAIN mempool : mempool[i].ticket \in wins
      /\ nullifiers \subseteq NoncesOf(wins)
      /\ money \in Nat /\ money <= SumOf(DearestOf(wins), nullifiers)
  BY DEF PaymentInv, PaymentsFit
<1>2. mempool \in Seq(ClaimSet) /\ mempool # <<>> /\ mempool' = Tail(mempool)
  BY DEF Mine, WorkerInv, Types
<1>3. /\ claim = mempool[1] /\ 1 \in DOMAIN mempool
      /\ \A i \in DOMAIN mempool' : i + 1 \in DOMAIN mempool /\ mempool'[i] = mempool[i + 1]
  BY <1>2, TailEffect
<1>4. UNCHANGED <<served, winning, tasks>>
  BY DEF gateVars
<1>5. \A i \in DOMAIN mempool' : mempool'[i].ticket \in wins
  BY <1>1, <1>3
<1>6. claim.ticket \in wins
  BY <1>1, <1>3
<1> HIDE DEF wins, claim
<1>7. CASE UNCHANGED vars
  <2>1. nullifiers' = nullifiers /\ balanceOf' = balanceOf
    BY <1>7 DEF vars, escrowVars, tokenVars
  <2> QED
    BY <1>1, <1>4, <1>5, <2>1 DEF PaymentInv, PaymentsFit, wins
<1>8. CASE claimTicket(Provider, claim)
  <2>1. n \notin nullifiers /\ nullifiers' = nullifiers \union {n}
    BY <1>8 DEF claimTicket, CanClaim, Unclaimed
  <2>2. balanceOf'[Provider] = money + price
    <3>1. transfer(Escrow, Provider, price)
      BY <1>8 DEF claimTicket, CanClaim
    <3>2. Provider \in Holders /\ Provider # Escrow /\ balanceOf \in [Holders -> Nat]
      BY WorkerAssumption, TokenAssumption DEF Holders, WorkerInv, IInv, TypeOK, TokenTypeOK
    <3> QED
      BY <3>1, <3>2 DEF transfer, Move
  <2>3. n \in NoncesOf(wins)
    BY <1>6 DEF NoncesOf
  <2>4. DearestOf(wins)[n] \in Nat /\ price <= DearestOf(wins)[n] /\ price \in Nat
    BY <1>1, <1>6, <2>3, DearestIsAWin, AmountsAreNumbers
  <2> HIDE DEF n, price, money
  <2>5. SumOf(DearestOf(wins), nullifiers') = DearestOf(wins)[n] + SumOf(DearestOf(wins), nullifiers)
    <3> DEFINE paid == nullifiers \union {n}
               val == DearestOf(wins)
    <3>1. IsFiniteSet(paid) /\ \A x \in paid : val[x] \in Nat
      <4>1. paid \subseteq NoncesOf(wins)
        BY <1>1, <2>3
      <4> QED
        BY <1>1, <4>1, FS_Subset, DearestIsAWin
    <3>2. n \in paid /\ paid \ {n} = nullifiers
      BY <2>1
    <3> HIDE DEF paid, val
    <3>3. SumOf(val, paid) = val[n] + SumOf(val, paid \ {n})
      BY <3>1, <3>2, SumStep
    <3> QED
      BY <2>1, <3>2, <3>3 DEF paid, val
  <2>6. SumOf(DearestOf(wins), nullifiers) \in Nat
    BY <1>1, MoreWins
  <2>7. money + price \in Nat /\ money + price <= SumOf(DearestOf(wins), nullifiers')
    BY <1>1, <2>4, <2>5, <2>6
  <2>8. nullifiers' \subseteq NoncesOf(wins)
    BY <1>1, <2>1, <2>3
  <2> QED
    BY <1>1, <1>4, <1>5, <2>2, <2>7, <2>8 DEF PaymentInv, PaymentsFit, wins
<1> QED
  BY <1>7, <1>8 DEF Mine, claim

(* A step that pays nothing keeps the invariant, as long as the claims it  *)
(* leaves are of won tickets.                                              *)
LEMMA UnpaidKeepsPaymentInv ==
  ASSUME PaymentInv, UNCHANGED <<served, nullifiers>>, balanceOf'[Provider] = balanceOf[Provider],
         \A frame \in winning' : frame.ticket \in WinsOf(served),
         \A claim \in tasks' : claim.ticket \in WinsOf(served),
         \A i \in DOMAIN mempool' : mempool'[i].ticket \in WinsOf(served)
  PROVE  PaymentInv'
<1> QED
  BY DEF PaymentInv, PaymentsFit

(* Clients move their own money and the contract's.                        *)
LEMMA OthersMoney ==
  ASSUME IInv, NEW from \in Holders \ {Provider}, NEW to \in Holders \ {Provider}, NEW amount,
         transfer(from, to, amount)
  PROVE  balanceOf'[Provider] = balanceOf[Provider]
<1>1. Provider \in Holders /\ balanceOf \in [Holders -> Nat]
  BY WorkerAssumption DEF Holders, IInv, TypeOK, TokenTypeOK
<1> QED
  BY <1>1 DEF transfer, Move

LEMMA ClientsPayNoClaim ==
  ASSUME PaymentInv, IInv, ClientTransaction
  PROVE  PaymentInv'
<1>1. UNCHANGED <<served, winning, tasks, mempool>>
  BY DEF ClientTransaction, gateVars, nodeVars
<1>2. PICK client \in Clients :
       \/ \E amount \in Amounts : openChannel(client, Provider, amount)
       \/ \E id \in Pairs, amount \in Amounts : deposit(client, id, amount)
       \/ \E id \in Pairs : requestClose(client, id) \/ withdraw(client, id)
       \/ \E amount \in Approvals : approve(client, amount) /\ UNCHANGED <<escrowVars, now>>
  BY DEF ClientTransaction
<1>3. client \in Holders \ {Provider} /\ Escrow \in Holders \ {Provider}
  BY SystemAssumption, WorkerAssumption, TokenAssumption DEF Holders
<1>4. nullifiers' = nullifiers /\ balanceOf'[Provider] = balanceOf[Provider]
  <2>1. ASSUME NEW amount, openChannel(client, Provider, amount)
        PROVE  nullifiers' = nullifiers /\ balanceOf'[Provider] = balanceOf[Provider]
    BY <1>3, <2>1, OthersMoney DEF openChannel, transferFrom
  <2>2. ASSUME NEW id, NEW amount, deposit(client, id, amount)
        PROVE  nullifiers' = nullifiers /\ balanceOf'[Provider] = balanceOf[Provider]
    BY <1>3, <2>2, OthersMoney DEF deposit, transferFrom
  <2>3. ASSUME NEW id, requestClose(client, id)
        PROVE  nullifiers' = nullifiers /\ balanceOf'[Provider] = balanceOf[Provider]
    BY <2>3 DEF requestClose, tokenVars
  <2>4. ASSUME NEW id, withdraw(client, id)
        PROVE  nullifiers' = nullifiers /\ balanceOf'[Provider] = balanceOf[Provider]
    BY <1>3, <2>4, OthersMoney DEF withdraw
  <2>5. ASSUME NEW amount, approve(client, amount), UNCHANGED <<escrowVars, now>>
        PROVE  nullifiers' = nullifiers /\ balanceOf'[Provider] = balanceOf[Provider]
    BY <2>5 DEF approve, escrowVars
  <2> QED
    BY <1>2, <2>1, <2>2, <2>3, <2>4, <2>5
<1> QED
  BY <1>1, <1>4, UnpaidKeepsPaymentInv DEF PaymentInv, PaymentsFit

LEMMA GateKeepsPaymentInv ==
  ASSUME PaymentInv, SeedInv, GateStep
  PROVE  PaymentInv'
<1>1. UNCHANGED allVars /\ UNCHANGED <<mempool, nullifiers, balanceOf>>
  BY DEF GateStep, allVars, vars, escrowVars, tokenVars, nodeVars
<1>2. ASSUME NEW client \in Clients, NEW frame \in FrameSet,
             Gate!ServeLosing(client, frame) \/ Gate!ServeWinning(client, frame)
      PROVE  PaymentInv'
  BY <1>1, <1>2, ServeKeepsPaymentInv
<1>3. ASSUME NEW new_seed \in Seeds, Gate!ClaimAndRotate(new_seed)
      PROVE  PaymentInv'
  <2>1. /\ served' = served /\ winning' = {}
        /\ tasks' = tasks \union {Gate!ClaimOf(frame, provider_seed) : frame \in winning}
    BY <1>3 DEF Gate!ClaimAndRotate
  <2>2. \A frame \in winning : Gate!ClaimOf(frame, provider_seed).ticket = frame.ticket
    BY DEF Gate!ClaimOf
  <2>3. \A claim \in tasks' : claim.ticket \in WinsOf(served)
    BY <2>1, <2>2 DEF PaymentInv, PaymentsFit
  <2> QED
    BY <1>1, <2>1, <2>3, UnpaidKeepsPaymentInv DEF PaymentInv, PaymentsFit
<1>4. ASSUME NEW client \in Clients, Gate!Handshake(client)
      PROVE  PaymentInv'
  <2>1. UNCHANGED <<served, winning, tasks>>
    BY <1>4 DEF Gate!Handshake
  <2> QED
    BY <1>1, <2>1, UnpaidKeepsPaymentInv DEF PaymentInv, PaymentsFit
<1> QED
  BY <1>2, <1>3, <1>4 DEF GateStep

LEMMA StepKeepsPaymentInv ==
  ASSUME PaymentInv, SeedInv, WorkerInv, [SystemNext]_systemVars
  PROVE  PaymentInv'
<1>1. ASSUME UNCHANGED <<served, winning, tasks, mempool, nullifiers, balanceOf>>
      PROVE  PaymentInv'
  BY <1>1 DEF PaymentInv
<1>2. CASE GateStep
  BY <1>2, GateKeepsPaymentInv
<1>3. CASE HandOver
  <2>1. PICK task \in held : Enqueue(task)
    BY <1>3 DEF HandOver
  <2> QED
    BY <1>1, <1>3, <2>1 DEF HandOver, Enqueue, gateVars, vars, escrowVars, tokenVars, nodeVars
<1>4. CASE WorkerStep
  <2>1. UNCHANGED <<served, winning, tasks>>
    BY <1>4 DEF WorkerStep, gateVars
  <2>2. CASE Mine
    BY <1>4, <2>2, PayingKeepsPaymentInv DEF WorkerStep
  <2>3. CASE Broadcast \/ SendUnanswered
    <3>1. /\ UNCHANGED <<nullifiers, balanceOf>> /\ mempool' = Append(mempool, current)
          /\ worker = "sending"
      BY <2>3 DEF Broadcast, SendUnanswered, NodeAccepts, vars, escrowVars, tokenVars
    <3>2. current \in ClaimSet /\ current \in ToSet(enqueued) /\ mempool \in Seq(ClaimSet)
      BY <3>1 DEF WorkerInv, Types, WorkerStates, OnePlaceEach, InHand
    <3>3. current.ticket \in WinsOf(served)
      BY <3>2 DEF SeedInv, HandedOverAreClaims, PaymentInv, PaymentsFit
    <3>4. /\ DOMAIN mempool = 1 .. Len(mempool) /\ DOMAIN mempool' = 1 .. Len(mempool) + 1
          /\ \A i \in 1 .. Len(mempool) : mempool'[i] = mempool[i]
          /\ mempool'[Len(mempool) + 1] = current /\ Len(mempool) \in Nat
      BY <3>1, <3>2, AppendEffect
    <3>5. \A i \in DOMAIN mempool' : mempool'[i].ticket \in WinsOf(served)
      <4> TAKE i \in DOMAIN mempool'
      <4>1. i \in 1 .. Len(mempool) \/ i = Len(mempool) + 1
        BY <3>4
      <4>2. \A j \in DOMAIN mempool : mempool[j].ticket \in WinsOf(served)
        BY DEF PaymentInv, PaymentsFit
      <4> QED
        BY <3>3, <3>4, <4>1, <4>2
    <3> QED
      BY <2>1, <3>1, <3>5, UnpaidKeepsPaymentInv DEF PaymentInv, PaymentsFit
  <2>4. CASE Start \/ Recv \/ SendFails \/ WatchFails \/ WatchOk
    <3>1. UNCHANGED <<mempool, nullifiers, balanceOf>>
      BY <2>4 DEF Start, Recv, SendFails, WatchFails, GiveUp, WatchOk, vars, escrowVars, tokenVars, nodeVars
    <3> QED
      BY <1>1, <2>1, <3>1
  <2> QED
    BY <1>4, <2>2, <2>3, <2>4 DEF WorkerStep
<1>5. ASSUME NEW new_seed \in Seeds, ProviderRestart(new_seed)
      PROVE  PaymentInv'
  <2>1. /\ UNCHANGED <<served, tasks, mempool, nullifiers, balanceOf>> /\ winning' = {}
    BY <1>5 DEF ProviderRestart, Restart, vars, escrowVars, tokenVars, nodeVars
  <2> QED
    BY <2>1, UnpaidKeepsPaymentInv DEF PaymentInv, PaymentsFit
<1>6. CASE ClientTransaction
  BY <1>6, ClientsPayNoClaim DEF WorkerInv
<1>7. CASE Time
  BY <1>1, <1>7 DEF Time, Tick, gateVars, nodeVars, escrowVars, tokenVars
<1>8. CASE UNCHANGED systemVars
  BY <1>1, <1>8 DEF systemVars, allVars, gateVars, nodeVars, vars, escrowVars, tokenVars
<1> QED
  BY <1>2, <1>3, <1>4, <1>5, <1>6, <1>7, <1>8 DEF SystemNext

(* The provider is never paid twice for a nonce of a channel, nor for a    *)
(* ticket the gate did not call a win: across reconnects and restarts,     *)
(* which make the gate serve a nonce again, and reverts, which leave a     *)
(* claim unpaid, it has no more than the dearest win of each nonce served. *)
THEOREM NoncesAreChargedOnce ==
  SystemSpec => []ChargedOncePerNonce
<1>1. PaymentInv => ChargedOncePerNonce
  <2> SUFFICES ASSUME PaymentInv PROVE ChargedOncePerNonce
    OBVIOUS
  <2> DEFINE wins == WinsOf(served)
             val == DearestOf(wins)
             N == NoncesOf(wins)
             money == balanceOf[Provider]
  <2>1. /\ wins \subseteq TicketSet /\ IsFiniteSet(N) /\ nullifiers \subseteq N
        /\ money \in Nat /\ money <= SumOf(val, nullifiers)
    BY DEF PaymentInv, PaymentsFit
  <2>2. DOMAIN val = N
    BY DEF DearestOf
  <2>3. \A n \in N : val[n] \in Nat
    BY <2>1, DearestIsAWin
  <2>4. ChargedOncePerNonce <=> money <= Total(val)
    BY DEF ChargedOncePerNonce
  <2> HIDE DEF wins, val, N, money
  <2>5. Total(val) = SumOf(val, N)
    BY <2>1, <2>2, TotalIsSum
  <2>6. SumOf(val, nullifiers) \in Nat /\ SumOf(val, N) \in Nat
        /\ SumOf(val, nullifiers) <= SumOf(val, N)
    <3>1. \A n \in N : val[n] <= val[n]
      BY <2>3
    <3> QED
      BY <2>1, <2>3, <3>1, SumCompare
  <2> QED
    BY <2>1, <2>4, <2>5, <2>6
<1>2. SystemInit => PaymentInv
  BY InitPaymentInv
<1>3. PaymentInv /\ (SeedInv /\ WorkerInv) /\ [SystemNext]_systemVars => PaymentInv'
  BY StepKeepsPaymentInv
<1> QED
  BY <1>1, <1>2, <1>3, SystemInvariance, PTL DEF SystemSpec

(* What the worker and the contract promise alone they keep in the system: *)
(* no task is forgotten, no claim broadcast twice, the escrow can pay all  *)
(* it owes and moves money only as the payment ledger does.                *)
THEOREM PartsKeepTheirPromises ==
  SystemSpec => /\ [](EveryTaskHasOnePlace /\ BroadcastOnceInOrder /\ Solvent)
                /\ RevertsAreExplained /\ ImplementsLedger
<1> QED
  BY SystemIsWorker, WorkerIsContract, NoTaskIsForgotten, NoClaimIsBroadcastTwice, RevertsHaveReasons,
     EscrowStaysSolvent, EscrowImplementsLedger, PTL

=============================================================================
