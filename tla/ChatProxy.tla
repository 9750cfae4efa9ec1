----------------------------- MODULE ChatProxy ------------------------------
(***************************************************************************)
(* The client daemon's HTTP proxy: each chat request spawns a task that    *)
(* runs the engine, which sends tokens into a bounded channel, and answers *)
(* with a body that is polled as the HTTP client reads it.                 *)
(*                                                                         *)
(* The engine is external: it may compute for ever, send any number of     *)
(* tokens, end, fail or panic at any point; it learns of a disconnection   *)
(* only from a send, and what it does then is its own matter.  So is the   *)
(* HTTP client, which may stop reading or disconnect.  Tokens are numbered *)
(* in the order they are sent.                                             *)
(***************************************************************************)
EXTENDS Integers, SequencesExt

CONSTANTS Requests,
          Capacity,    \* of the token channel: 32
          MaxTokens    \* bound on the tokens of a request, for model checking

ASSUME ProxyAssumption == Capacity \in Nat \ {0} /\ MaxTokens \in Nat

VARIABLES engine,    \* "idle", "running", "sending", "ok" or "failed", per request
          channel,   \* tokens sent and not yet received
          body,      \* "none", "streaming", "reading" (polled, in recv), "done", "dropped"
          tokens,    \* history: tokens the engine has sent
          chunks     \* what the HTTP client has been given

vars == <<engine, channel, body, tokens, chunks>>

DONE == 0   \* the marker; tokens are numbered from 1

Init ==
  /\ engine = [r \in Requests |-> "idle"]
  /\ channel = [r \in Requests |-> <<>>]
  /\ body = [r \in Requests |-> "none"]
  /\ tokens = [r \in Requests |-> 0]
  /\ chunks = [r \in Requests |-> <<>>]

(* The handler makes the channel, spawns the engine and returns the body.  *)
chat_completions(r) ==
  /\ body[r] = "none"
  /\ engine' = [engine EXCEPT ![r] = "running"]
  /\ body' = [body EXCEPT ![r] = "streaming"]
  /\ UNCHANGED <<channel, tokens, chunks>>

-----------------------------------------------------------------------------
(* token_tx.send: waits for room while there is a receiver.                *)
Working(r) == engine[r] \in {"running", "sending"}
Open(r) == body[r] \in {"streaming", "reading"}

Room(r) == Open(r) /\ Len(channel[r]) < Capacity

EngineTries(r) ==
  /\ engine[r] = "running" /\ tokens[r] < MaxTokens
  /\ engine' = [engine EXCEPT ![r] = "sending"]
  /\ UNCHANGED <<channel, body, tokens, chunks>>

EngineSends(r) ==
  /\ engine[r] = "sending" /\ Room(r)
  /\ engine' = [engine EXCEPT ![r] = "running"]
  /\ channel' = [channel EXCEPT ![r] = Append(@, tokens[r] + 1)]
  /\ tokens' = [tokens EXCEPT ![r] = @ + 1]
  /\ UNCHANGED <<body, chunks>>

EngineEnds(r) ==
  /\ Working(r)
  /\ \E how \in {"ok", "failed"} : engine' = [engine EXCEPT ![r] = how]
  /\ UNCHANGED <<channel, body, tokens, chunks>>

(* A fault: the receiver outlives the body, so a pending send waits on.    *)
SendFailsNever(r) == FALSE

SendFails(r) == ~Open(r)

(* The send returns an error; the engine fails with it or goes on.         *)
EngineIsTold(r) ==
  /\ engine[r] = "sending" /\ SendFails(r)
  /\ \E next \in {"failed", "running"} : engine' = [engine EXCEPT ![r] = next]
  /\ UNCHANGED <<channel, body, tokens, chunks>>

-----------------------------------------------------------------------------
(* The body's stream is polled when the HTTP client has read what it was   *)
(* given; recv gets a token if there is one, and [DONE] is written once    *)
(* the channel is empty and its sender, which dies with the engine's task, *)
(* is gone.                                                                *)
BodyPolled(r) ==
  /\ body[r] = "streaming"
  /\ body' = [body EXCEPT ![r] = "reading"]
  /\ UNCHANGED <<engine, channel, tokens, chunks>>

BodyYields(r) ==
  /\ body[r] = "reading" /\ channel[r] # <<>>
  /\ body' = [body EXCEPT ![r] = "streaming"]
  /\ chunks' = [chunks EXCEPT ![r] = Append(@, Head(channel[r]))]
  /\ channel' = [channel EXCEPT ![r] = Tail(@)]
  /\ UNCHANGED <<engine, tokens>>

(* A fault: the end of the engine is taken for the end of the answer.      *)
EngineGone(r) == ~Working(r)

Drained(r) == channel[r] = <<>> /\ ~Working(r)

BodyEnds(r) ==
  /\ body[r] = "reading" /\ Drained(r)
  /\ chunks' = [chunks EXCEPT ![r] = Append(@, DONE)]
  /\ body' = [body EXCEPT ![r] = "done"]
  /\ UNCHANGED <<engine, channel, tokens>>

(* The HTTP client goes away, and the body with its receiver is dropped.   *)
Disconnect(r) ==
  /\ Open(r)
  /\ body' = [body EXCEPT ![r] = "dropped"]
  /\ channel' = [channel EXCEPT ![r] = <<>>]
  /\ UNCHANGED <<engine, tokens, chunks>>

Next == \E r \in Requests :
  \/ chat_completions(r)
  \/ EngineTries(r) \/ EngineSends(r) \/ EngineIsTold(r) \/ EngineEnds(r)
  \/ BodyPolled(r) \/ BodyYields(r) \/ BodyEnds(r) \/ Disconnect(r)

Spec == Init /\ [][Next]_vars

(* Only the runtime's part: a send or a recv that can complete does.  The  *)
(* engine may compute for ever, the HTTP client may never read again.      *)
FairSpec ==
  /\ Spec
  /\ \A r \in Requests :
       /\ WF_vars(EngineSends(r) \/ EngineIsTold(r))
       /\ WF_vars(BodyYields(r) \/ BodyEnds(r))

-----------------------------------------------------------------------------
(* The HTTP client gets the engine's tokens in order, none twice, and sees *)
(* [DONE] once, at the end, after every token the engine sent, even when   *)
(* the engine failed after sending them.  At most a channel's worth is     *)
(* ever held back from a slow reader.                                      *)
DoneAfterEveryToken ==
  \A r \in Requests :
    IF body[r] = "done" THEN chunks[r] = Append([i \in 1 .. tokens[r] |-> i], DONE)
    ELSE /\ chunks[r] = [i \in 1 .. Len(chunks[r]) |-> i]
         /\ Len(channel[r]) <= Capacity
         /\ Open(r) => Len(chunks[r]) + Len(channel[r]) = tokens[r]

(* Engine and body never wait on each other, nor on one that is gone: a    *)
(* send that waits for ever waits for a connected HTTP client that has     *)
(* stopped reading a full channel, and a recv that waits for ever waits    *)
(* for an engine that computes.                                            *)
OnlyThePeerBlocks ==
  \A r \in Requests :
    /\ <>[](engine[r] = "sending")
         => <>[](body[r] = "streaming" /\ Len(channel[r]) = Capacity)
    /\ <>[](body[r] = "reading")
         => <>[](engine[r] = "running" /\ channel[r] = <<>>)
=============================================================================
