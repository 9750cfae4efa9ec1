-------------------------- MODULE SettlementWorker --------------------------
(***************************************************************************)
(* The provider's settlement worker against the escrow contract.  Winning  *)
(* tickets wait in a bounded queue; the worker takes them one at a time,   *)
(* has the node estimate and broadcast claimTicket, and watches for the    *)
(* transaction before it takes the next.  A failure is logged and the task *)
(* dropped.  Other transactions are mined at any moment in between, and    *)
(* the daemon may be restarted: queue and task in hand live in memory only.*)
(*                                                                         *)
(* The RPC node is external: it may fail at any call, it estimates a       *)
(* transaction against the present state and refuses one that would        *)
(* revert, and it mines the wallet's transactions in order.                *)
(***************************************************************************)
EXTENDS SPMPEscrow, SequencesExt

CONSTANTS Provider,        \* the worker's wallet
          QueueCapacity,   \* of the mpsc channel the worker is given
          MaxRestarts,     \* bound on the daemon's restarts, for model checking
          RpcUrlParses     \* the answers parsing the configured RPC URL may give

ASSUME WorkerAssumption ==
  /\ Provider \in Accounts
  /\ QueueCapacity \in Nat \ {0}
  /\ MaxRestarts \in Nat
  /\ RpcUrlParses \subseteq BOOLEAN

VARIABLES queue,      \* task_rx: the claims not yet received
          closed,     \* all senders are gone
          worker,     \* where run() stands
          current,    \* the task in hand
          mempool,    \* the wallet's transactions not yet mined, in order
          mined,      \* the tasks whose transaction is in a block
          enqueued,   \* history: the tasks handed over, in order
          broadcasts, \* history: the tasks broadcast, in order
          confirmed,  \* the tasks logged "Claim confirmed on-chain!"
          failed,     \* the tasks logged as failed
          restarts,   \* of the provider daemon
          lost        \* history: the tasks a restart dropped

workerVars == <<queue, closed, worker, current>>
nodeVars == <<mempool, mined>>
logVars == <<enqueued, broadcasts, confirmed, failed>>
crashVars == <<restarts, lost>>
allVars == <<vars, workerVars, nodeVars, logVars, crashVars>>

NoTask == <<>>

WorkerInit ==
  /\ Init
  /\ queue = <<>> /\ closed = FALSE
  /\ worker = "starting" /\ current = NoTask
  /\ mempool = <<>> /\ mined = {}
  /\ enqueued = <<>> /\ broadcasts = <<>> /\ confirmed = {} /\ failed = {}
  /\ restarts = 0 /\ lost = {}

-----------------------------------------------------------------------------
(* The sender's side: each win is handed over once; a full queue waits, and *)
(* a worker that is gone refuses.                                          *)
Enqueue(task) ==
  /\ ~closed /\ worker # "exited"
  /\ Len(queue) < QueueCapacity
  /\ task \notin ToSet(enqueued)
  /\ queue' = Append(queue, task)
  /\ enqueued' = Append(enqueued, task)
  /\ UNCHANGED <<vars, closed, worker, current, nodeVars, broadcasts, confirmed, failed, crashVars>>

CloseQueue ==
  /\ ~closed
  /\ closed' = TRUE
  /\ UNCHANGED <<vars, queue, worker, current, nodeVars, logVars, crashVars>>

(* An RPC URL that does not parse ends the worker before its loop.         *)
Start ==
  /\ worker = "starting"
  /\ \E parses \in RpcUrlParses : worker' = IF parses THEN "receiving" ELSE "exited"
  /\ UNCHANGED <<vars, queue, closed, current, nodeVars, logVars, crashVars>>

Recv ==
  /\ worker = "receiving"
  /\ queue # <<>>
  /\ current' = Head(queue)
  /\ queue' = Tail(queue)
  /\ worker' = "sending"
  /\ UNCHANGED <<vars, closed, nodeVars, logVars, crashVars>>

Exit ==
  /\ worker = "receiving"
  /\ queue = <<>> /\ closed
  /\ worker' = "exited"
  /\ UNCHANGED <<vars, queue, closed, current, nodeVars, logVars, crashVars>>

-----------------------------------------------------------------------------
(* The gas estimate of send() runs the call against the present state.     *)
Estimates(task) == CanClaim(Provider, task)

(* A fault: a fixed gas limit spares the estimate.                         *)
BroadcastUnestimated ==
  /\ worker = "sending"
  /\ mempool' = Append(mempool, current)
  /\ broadcasts' = Append(broadcasts, current)
  /\ worker' = "watching"
  /\ UNCHANGED <<vars, queue, closed, current, mined, enqueued, confirmed, failed, crashVars>>

NodeAccepts ==
  /\ worker = "sending"
  /\ Estimates(current)
  /\ mempool' = Append(mempool, current)
  /\ broadcasts' = Append(broadcasts, current)
  /\ UNCHANGED <<vars, queue, closed, mined, enqueued, confirmed, crashVars>>

Broadcast ==
  /\ NodeAccepts
  /\ worker' = "watching"
  /\ UNCHANGED <<current, failed>>

(* A fault: the task stays in hand after its end.                          *)
GiveUpKeepsTask ==
  /\ worker' = "receiving"
  /\ failed' = failed \cup {current}
  /\ UNCHANGED <<vars, queue, closed, current, nodeVars, enqueued, broadcasts, confirmed, crashVars>>

(* A fault: the failed task is forgotten.                                  *)
GiveUpSilently ==
  /\ worker' = "receiving"
  /\ current' = NoTask
  /\ UNCHANGED <<vars, queue, closed, nodeVars, logVars, crashVars>>

(* The end of a failed task: it is logged and never tried again.           *)
GiveUp ==
  /\ worker' = "receiving"
  /\ current' = NoTask
  /\ failed' = failed \cup {current}
  /\ UNCHANGED <<vars, queue, closed, nodeVars, enqueued, broadcasts, confirmed, crashVars>>

(* The call would revert, or the node is unreachable.                      *)
SendFails == worker = "sending" /\ GiveUp

(* The node has the transaction, and its answer is lost: send() fails too. *)
SendUnanswered ==
  /\ NodeAccepts
  /\ worker' = "receiving" /\ current' = NoTask
  /\ failed' = failed \cup {current}

(* The node is unreachable while the transaction waits, which stays in the *)
(* mempool all the same.                                                   *)
WatchFails == worker = "watching" /\ GiveUp

(* A fault: the worker waits for the payout instead of the transaction.    *)
WatchForPayout ==
  /\ worker = "watching"
  /\ Nullifier(current.ticket) \in nullifiers
  /\ worker' = "receiving"
  /\ current' = NoTask
  /\ confirmed' = confirmed \cup {current}
  /\ UNCHANGED <<vars, queue, closed, nodeVars, enqueued, broadcasts, failed, crashVars>>

(* watch() answers once the transaction is in a block, reverted or not.    *)
WatchOk ==
  /\ worker = "watching"
  /\ current \in mined
  /\ worker' = "receiving"
  /\ current' = NoTask
  /\ confirmed' = confirmed \cup {current}
  /\ UNCHANGED <<vars, queue, closed, nodeVars, enqueued, broadcasts, failed, crashVars>>

-----------------------------------------------------------------------------
InHand == IF current = NoTask THEN {} ELSE {current}

(* A fault: the task in hand is restored and broadcast once more.          *)
RestartRequeues ==
  /\ restarts < MaxRestarts
  /\ restarts' = restarts + 1
  /\ queue' = IF current = NoTask THEN <<>> ELSE <<current>>
  /\ lost' = lost \cup ToSet(queue)
  /\ closed' = FALSE /\ worker' = "starting" /\ current' = NoTask
  /\ UNCHANGED <<vars, nodeVars, logVars>>

(* The daemon ends, and a new one starts with an empty queue: nothing of   *)
(* the old one was written down.  What it broadcast stays in the mempool.  *)
Restart ==
  /\ restarts < MaxRestarts
  /\ restarts' = restarts + 1
  /\ lost' = lost \cup ToSet(queue) \cup InHand
  /\ queue' = <<>> /\ closed' = FALSE
  /\ worker' = "starting" /\ current' = NoTask
  /\ UNCHANGED <<vars, nodeVars, logVars>>

(* A block takes the wallet's next transaction: it executes, or reverts.   *)
Mine ==
  /\ mempool # <<>>
  /\ mempool' = Tail(mempool)
  /\ mined' = mined \cup {Head(mempool)}
  /\ IF CanClaim(Provider, Head(mempool)) THEN claimTicket(Provider, Head(mempool))
     ELSE UNCHANGED vars
  /\ UNCHANGED <<workerVars, logVars, crashVars>>

Elsewhere == Next /\ UNCHANGED <<workerVars, nodeVars, logVars, crashVars>>

WorkerNext ==
  \/ \E task \in ClaimSet : Enqueue(task)
  \/ CloseQueue \/ Start \/ Recv \/ Exit
  \/ Broadcast \/ SendFails \/ SendUnanswered \/ WatchFails \/ WatchOk
  \/ Restart
  \/ Mine
  \/ Elsewhere

WorkerSpec == WorkerInit /\ [][WorkerNext]_allVars

(* The worker's task is scheduled, the node answers each call one way or   *)
(* the other, and blocks keep coming.                                      *)
FairWorkerSpec ==
  /\ WorkerSpec
  /\ WF_allVars(Start) /\ WF_allVars(Recv) /\ WF_allVars(Exit)
  /\ WF_allVars(Broadcast \/ SendFails \/ SendUnanswered)
  /\ WF_allVars(Mine)
  /\ WF_allVars(WatchOk)

-----------------------------------------------------------------------------
WorkerTypeOK ==
  /\ TypeOK
  /\ queue \in Seq(ClaimSet) /\ Len(queue) <= QueueCapacity
  /\ closed \in BOOLEAN
  /\ worker \in {"starting", "receiving", "sending", "watching", "exited"}
  /\ current \in ClaimSet \cup {NoTask}
  /\ current # NoTask <=> worker \in {"sending", "watching"}
  /\ mempool \in Seq(ClaimSet) /\ mined \subseteq ClaimSet
  /\ enqueued \in Seq(ClaimSet) /\ broadcasts \in Seq(ClaimSet)
  /\ confirmed \subseteq ClaimSet /\ failed \subseteq ClaimSet /\ lost \subseteq ClaimSet
  /\ restarts \in 0 .. MaxRestarts

(* Every task handed over is in exactly one place: waiting, in hand,       *)
(* confirmed, logged as failed, or lost with a daemon.  None is dropped    *)
(* without a trace and none has two outcomes.                              *)
EveryTaskHasOnePlace ==
  LET places == <<ToSet(queue), InHand, confirmed, failed, lost>>
  IN  /\ ToSet(enqueued) = UNION ToSet(places)
      /\ \A i, j \in DOMAIN places : i # j => places[i] \cap places[j] = {}

(* A claim is broadcast at most once, in the order the wins were handed    *)
(* over, also across restarts: the provider never pays gas twice for one   *)
(* ticket.                                                                 *)
BroadcastOnceInOrder ==
  /\ ToSet(broadcasts) \subseteq ToSet(enqueued)
  /\ \A i, j \in DOMAIN broadcasts, k, l \in DOMAIN enqueued :
       i < j /\ broadcasts[i] = enqueued[k] /\ broadcasts[j] = enqueued[l] => k < l

(* A mined claim that reverts was sound when it was broadcast and was lost *)
(* since: it expired, its nonce was paid, or the channel is gone or can no *)
(* longer pay for it.  A ticket over nothing is covered by any balance and *)
(* still reverts once its channel was withdrawn.                           *)
RevertsAreExplained ==
  [][mined' # mined /\ nullifiers' = nullifiers =>
       LET ticket == Head(mempool).ticket
       IN  \/ ~NotExpired(ticket) \/ ~Unclaimed(ticket)
           \/ ~Exists(ticket.channelId) \/ ~Covered(ticket)]_allVars

(* Every task handed to a running worker gets an outcome, as long as the   *)
(* node keeps mining and the daemon lives: watching one claim does not     *)
(* block the rest forever.                                                 *)
TasksAreSettled ==
  \A task \in ClaimSet :
    (task \in ToSet(enqueued) /\ worker \notin {"starting", "exited"})
      ~> (task \in confirmed \cup failed \cup lost)

(* settlement.rs logs "Claim confirmed on-chain! Payout transferred." for  *)
(* every transaction watch() reports.  Violated by a mined revert.         *)
ConfirmedMeansPaid ==
  \A task \in confirmed : Nullifier(task.ticket) \in nullifiers

=============================================================================
