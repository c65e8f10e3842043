-------------------------- MODULE CredentialBroker --------------------------
(***************************************************************************)
(* What a child asks of its parent over the private channel: model calls,    *)
(* streamed or compacting, through the credential handle it was given, and   *)
(* calls of the parent's MCP tools.                                          *)
(*                                                                          *)
(* ChildCredentialBrokerIpcClient and ChildMcpBrokerIpcClient send a request *)
(* and may cancel it; the two servers of the parent run it and answer in     *)
(* messages; InMemoryChildCredentialBroker guards the handle: one model call *)
(* at a time, no request twice, a budget of tokens, a deadline, revocation,  *)
(* and retries as long as the child has seen nothing of the answer.  The two *)
(* directions of the channel are in order, and independent.                  *)
(***************************************************************************)
EXTENDS Naturals, Sequences, FiniteSetsExt

CONSTANTS
  Request,        \* requests of the child: numbers, in the order it makes them
  Mix,            \* bound: the kinds the requests may have
  MaxTokens,      \* budget of the handle
  MaxTries,       \* maxProviderAttempts
  MaxChunks       \* bound: chunks of an answer before its end

ModelCall == {"stream", "compact"}
Kind == ModelCall \cup {"mcp"}

ASSUME BrokerAssumption ==
  /\ IsFiniteSet(Request) /\ Request \subseteq Nat \ {0} /\ Mix \subseteq [Request -> Kind]
  /\ MaxTokens \in Nat /\ MaxTries \in Nat \ {0} /\ MaxChunks \in Nat

VARIABLES
  kind,      \* what each request is: a stream, a compaction, or an MCP tool call
  client,    \* state of the request in the child
  got,       \* nextSequence of its record
  up, down,  \* messages on their way to the parent, and to the child
  server,    \* what the parent is doing with the request
  aborted,   \* requests whose controller in the parent is aborted
  sent,      \* sequence of its record in the parent
  final,     \* requests whose completed chunk, with its usage, has been seen
  tries,     \* attempts of the provider for the request
  cost,      \* tokens its usage reported
  token,     \* state of the handle
  late,      \* its deadline has passed
  busy,      \* the request of invocationActive, or 0
  used,      \* usedTokens
  shut       \* the server is closed

brokerVars == <<kind, client, got, up, down, server, aborted, sent, final, tries, cost, token, late,
          busy, used, shut>>

ClientState == {"new", "waiting", "done", "failed", "invalid", "cancelled"}
ServerState == {"none", "starting", "calling", "delay", "chunk", "last", "failing", "ended"}
Message == [r : Request, type : {"invoke", "cancel", "chunk", "done", "result", "failed"}, n : Nat]

BrokerTypeOK ==
  /\ kind \in [Request -> Kind] /\ client \in [Request -> ClientState]
  /\ got \in [Request -> 0 .. MaxChunks + 1] /\ sent \in [Request -> 0 .. MaxChunks + 1]
  /\ up \in Seq(Message) /\ down \in Seq(Message)
  /\ server \in [Request -> ServerState]
  /\ aborted \subseteq Request /\ final \subseteq Request
  /\ tries \in [Request -> 0 .. MaxTries] /\ cost \in [Request -> 0 .. MaxTokens]
  /\ token \in {"active", "revoked"} /\ late \in BOOLEAN
  /\ busy \in Request \cup {0} /\ used \in 0 .. MaxTokens /\ shut \in BOOLEAN

BrokerInit ==
  /\ kind \in Mix
  /\ client = [r \in Request |-> "new"] /\ got = [r \in Request |-> 0]
  /\ up = <<>> /\ down = <<>>
  /\ server = [r \in Request |-> "none"] /\ aborted = {} /\ sent = [r \in Request |-> 0]
  /\ final = {} /\ tries = [r \in Request |-> 0] /\ cost = [r \in Request |-> 0]
  /\ token = "active" /\ late = FALSE /\ busy = 0 /\ used = 0 /\ shut = FALSE

SetServer(r, s) == server' = [server EXCEPT ![r] = s]
SetClient(r, s) == client' = [client EXCEPT ![r] = s]
Msg(r, t, n) == [r |-> r, type |-> t, n |-> n]
Say(m) == down' = IF shut THEN down ELSE Append(down, m)
Running(r) == server[r] \notin {"none", "ended"}

childSide == <<kind, client, got>>
handleVars == <<token, late, used>>

(***************************************************************************)
(* The child.                                                               *)
(***************************************************************************)

\* invoke and compact of the two clients.  The child's loop makes one model call at a
\* time: it starts the next when it is done with the last, cancelled or not.
Invoke(r) ==
  /\ ~shut /\ client[r] = "new" /\ \A q \in Request : q < r => client[q] # "new"
  /\ kind[r] \in ModelCall => \A q \in Request : kind[q] \in ModelCall => client[q] # "waiting"
  /\ SetClient(r, "waiting") /\ up' = Append(up, Msg(r, "invoke", 0))
  /\ UNCHANGED <<kind, got, down, server, aborted, sent, final, tries, cost, handleVars, busy, shut>>

\* The abort listener: cancel is sent, and the child does not wait for its answer.
CancelRequest(r) ==
  /\ ~shut /\ client[r] = "waiting"
  /\ SetClient(r, "cancelled") /\ up' = Append(up, Msg(r, "cancel", 0))
  /\ UNCHANGED <<kind, got, down, server, aborted, sent, final, tries, cost, handleVars, busy, shut>>

\* receive in the child; a record that is gone ignores what still comes for it.
ChildReceive ==
  /\ down # <<>> /\ down' = Tail(down)
  /\ LET m == Head(down) IN
       \/ client[m.r] # "waiting" /\ UNCHANGED <<client, got>>
       \/ /\ client[m.r] = "waiting" /\ m.n # got[m.r] /\ kind[m.r] # "mcp"
          /\ SetClient(m.r, "invalid") /\ UNCHANGED got
       \/ /\ client[m.r] = "waiting" /\ (m.n = got[m.r] \/ kind[m.r] = "mcp")
          /\ IF m.type = "chunk"
               THEN got' = [got EXCEPT ![m.r] = @ + 1] /\ UNCHANGED client
               ELSE SetClient(m.r, IF m.type = "failed" THEN "failed" ELSE "done") /\ UNCHANGED got
  /\ UNCHANGED <<kind, up, server, aborted, sent, final, tries, cost, handleVars, busy, shut>>

(***************************************************************************)
(* The parent.                                                              *)
(***************************************************************************)

\* The checks without the one for a call in progress.
AuthorizedTogether == token = "active" /\ ~late /\ used < MaxTokens

\* authorize: a handle revoked or expired, busy with another request, or spent.
Authorized == token = "active" /\ ~late /\ busy = 0 /\ used < MaxTokens

Admit(r) ==
  IF kind[r] \in ModelCall
    THEN IF Authorized
           THEN SetServer(r, "starting") /\ busy' = r
           ELSE SetServer(r, "failing") /\ UNCHANGED busy
    ELSE SetServer(r, "calling") /\ UNCHANGED busy

\* receive in the parent.  A cancel of a request that is not active has no effect.
ParentReceive ==
  /\ up # <<>> /\ up' = Tail(up)
  /\ LET m == Head(up) IN
       \/ /\ m.type = "cancel"
          /\ aborted' = IF Running(m.r) THEN aborted \cup {m.r} ELSE aborted
          /\ UNCHANGED <<server, busy>>
       \/ m.type = "invoke" /\ Admit(m.r) /\ UNCHANGED aborted
  /\ UNCHANGED <<childSide, down, sent, final, tries, cost, handleVars, shut>>

\* The event that the call has started is emitted, and awaited; the first attempt follows
\* whatever has happened since.
StartCall(r) ==
  /\ server[r] = "starting"
  /\ SetServer(r, "calling") /\ tries' = [tries EXCEPT ![r] = 1]
  /\ UNCHANGED <<childSide, up, down, aborted, sent, final, cost, handleVars, busy, shut>>

\* A signal the delay before a retry does not watch.
InterruptedCalling(r) == server[r] = "calling" /\ (r \in aborted \/ token = "revoked" \/ late)

\* A signal without the deadline.
InterruptedByHand(r) == r \in aborted \/ (kind[r] \in ModelCall /\ token = "revoked")

\* The signal of the invocation: the caller's, the handle's, and the deadline.
Interrupted(r) == r \in aborted \/ (kind[r] \in ModelCall /\ (token = "revoked" \/ late))

\* The invocation throws; its finally clears invocationActive.
Fails(r) ==
  /\ SetServer(r, "failing")
  /\ busy' = IF busy = r THEN 0 ELSE busy

\* A chunk, or the result of a tool.
Chunk(r) ==
  /\ server[r] = "calling" /\ ~Interrupted(r) /\ r \notin final
  /\ kind[r] = "stream" => sent[r] < MaxChunks
  /\ kind[r] # "compact"
  /\ SetServer(r, IF kind[r] = "mcp" THEN "last" ELSE "chunk")
  /\ UNCHANGED <<childSide, up, down, aborted, sent, final, tries, cost, handleVars, busy, shut>>

\* A budget that is checked for each request alone.
OverrunAlone(tokens) == tokens > MaxTokens

Overrun(tokens) == used + tokens > MaxTokens

\* The completed chunk, or the compaction: usage that is unknown or exceeds the budget
\* revokes the handle and fails the call.
Completed(r) ==
  /\ server[r] = "calling" /\ ~Interrupted(r) /\ kind[r] \in ModelCall /\ r \notin final
  /\ \E tokens \in {0, 1, MaxTokens} :
       /\ IF tokens = 0 \/ Overrun(tokens)
            THEN /\ Fails(r) /\ token' = "revoked" /\ UNCHANGED <<final, cost>>
                 /\ used' = IF tokens = 0 THEN used ELSE MaxTokens
            ELSE /\ final' = final \cup {r} /\ cost' = [cost EXCEPT ![r] = tokens]
                 /\ used' = Min({used + tokens, MaxTokens})
                 /\ SetServer(r, IF kind[r] = "stream" THEN "chunk" ELSE "last")
                 /\ busy' = IF kind[r] = "stream" THEN r ELSE 0
                 /\ UNCHANGED token
  /\ UNCHANGED <<childSide, up, down, aborted, sent, tries, late, shut>>

\* A retry without an end.
RetryForever(r) == sent[r] = 0

\* A retry whatever has been sent.
RetryAnyway(r) == tries[r] < MaxTries

\* retryDelay: not once a chunk has been emitted.
Retry(r) == tries[r] < MaxTries /\ sent[r] = 0

\* The provider fails: the call is tried again after a delay, or the request fails.
ProviderFails(r) ==
  /\ server[r] = "calling" /\ ~Interrupted(r) /\ r \notin final
  /\ \/ kind[r] \in ModelCall /\ Retry(r) /\ SetServer(r, "delay") /\ UNCHANGED busy
     \/ Fails(r)
  /\ UNCHANGED <<childSide, up, down, aborted, sent, final, tries, cost, handleVars, shut>>

TryAgain(r) ==
  /\ server[r] = "delay" /\ ~Interrupted(r)
  /\ SetServer(r, "calling") /\ tries' = [tries EXCEPT ![r] = @ + 1]
  /\ UNCHANGED <<childSide, up, down, aborted, sent, final, cost, handleVars, busy, shut>>

\* The stream ends: usage has been seen, unless the provider left it out.
StreamEnds(r) ==
  /\ server[r] = "calling" /\ ~Interrupted(r) /\ kind[r] = "stream"
  /\ \/ /\ r \in final /\ SetServer(r, "last")
        /\ busy' = 0 /\ UNCHANGED token
     \/ r \notin final /\ Fails(r) /\ token' = "revoked"
  /\ UNCHANGED <<childSide, up, down, aborted, sent, final, tries, cost, late, used, shut>>

\* An aborted signal rejects the chunk, the result or the delay that is awaited.
Interrupt(r) ==
  /\ server[r] \in {"calling", "delay"} /\ Interrupted(r)
  /\ Fails(r)
  /\ UNCHANGED <<childSide, up, down, aborted, sent, final, tries, cost, handleVars, shut>>

\* A chunk sent without counting it.
WriteChunkUncounted(r) ==
  /\ server[r] = "chunk"
  /\ Say(Msg(r, "chunk", sent[r]))
  /\ SetServer(r, "calling")
  /\ UNCHANGED <<childSide, up, aborted, sent, final, tries, cost, handleVars, busy, shut>>

\* write, and the record's sequence; a server that is closed throws instead.
WriteChunk(r) ==
  /\ server[r] = "chunk"
  /\ \/ ~shut /\ Say(Msg(r, "chunk", sent[r])) /\ sent' = [sent EXCEPT ![r] = @ + 1]
        /\ SetServer(r, "calling") /\ UNCHANGED busy
     \/ shut /\ Fails(r) /\ UNCHANGED <<down, sent>>
  /\ UNCHANGED <<childSide, up, aborted, final, tries, cost, handleVars, shut>>

\* The type of the last message.
Ending(r) == IF server[r] = "failing" THEN "failed" ELSE IF kind[r] = "stream" THEN "done" ELSE "result"

\* done, compacted, result or failed, and the request leaves active.
WriteEnd(r) ==
  /\ server[r] \in {"last", "failing"}
  /\ Say(Msg(r, Ending(r), IF kind[r] = "stream" THEN sent[r] ELSE 0))
  /\ SetServer(r, "ended")
  /\ UNCHANGED <<childSide, up, aborted, sent, final, tries, cost, handleVars, busy, shut>>

(***************************************************************************)
(* What happens to the handle and the channel.                              *)
(***************************************************************************)

\* revokeHandle, revokeChild, revokeParent.
Revoke ==
  /\ token = "active" /\ token' = "revoked"
  /\ UNCHANGED <<childSide, up, down, server, aborted, sent, final, tries, cost, late, busy, used, shut>>

\* The deadline timer of an invocation, and now of authorize.
Expire ==
  /\ ~late /\ late' = TRUE
  /\ UNCHANGED <<childSide, up, down, server, aborted, sent, final, tries, cost, token, busy, used, shut>>

\* close of the servers, when the host closes the connection: the process of the child,
\* and what was on its way to it or from it, are gone.
Shut ==
  /\ ~shut /\ shut' = TRUE
  /\ aborted' = aborted \cup {r \in Request : Running(r)}
  /\ up' = <<>> /\ down' = <<>>
  /\ UNCHANGED <<childSide, server, sent, final, tries, cost, handleVars, busy>>

\* What the parent and the channel do by themselves.
ServerStep(r) ==
  \/ StartCall(r) \/ TryAgain(r) \/ Interrupt(r) \/ WriteChunk(r) \/ WriteEnd(r)

BrokerNext ==
  \/ \E r \in Request :
       \/ Invoke(r) \/ CancelRequest(r) \/ ServerStep(r)
       \/ Chunk(r) \/ Completed(r) \/ ProviderFails(r) \/ StreamEnds(r)
  \/ ChildReceive \/ ParentReceive \/ Revoke \/ Expire \/ Shut

\* Messages arrive, and the deadline passes; a provider or a tool may never answer.
BrokerSpec ==
  /\ BrokerInit /\ [][BrokerNext]_brokerVars
  /\ WF_brokerVars(ChildReceive) /\ WF_brokerVars(ParentReceive) /\ WF_brokerVars(Expire)
  /\ \A r \in Request : WF_brokerVars(ServerStep(r))

(***************************************************************************)
(* Properties.                                                              *)
(***************************************************************************)

\* The child never finds a gap or a repetition in the sequence of an answer: not after
\* a retry, which starts again from 0, nor in the failure that ends a stream.
NoGap == \A r \in Request : client[r] # "invalid"

\* The answers the child was told are complete were paid for, and together they cost no
\* more tokens than the budget of the handle has.
BudgetKept ==
  /\ \A r \in Request : client[r] = "done" /\ kind[r] \in ModelCall => r \in final
  /\ Cardinality({t \in Request \X (1 .. MaxTokens) : client[t[1]] = "done" /\ t[2] <= cost[t[1]]})
       <= MaxTokens

\* At most one model call is in progress, although a child that has cancelled one sends
\* the next before the parent has stopped.
OneCall == \A q, r \in Request :
  /\ kind[q] \in ModelCall /\ server[q] \in {"starting", "calling", "delay", "chunk"}
  /\ kind[r] \in ModelCall /\ server[r] \in {"starting", "calling", "delay", "chunk"}
  => q = r

\* The provider is not called again once the handle is revoked, nor for a request of
\* whose answer the child has seen a part, or has cancelled.  Again: the first attempt is
\* made though the one or the other came while its start was announced, and a compaction
\* reaches the provider (credentialDelegation.ts).
NotCalledAgain == [][\A r \in Request :
  tries[r] > 0 /\ (token = "revoked" \/ sent[r] > 0 \/ r \in aborted) => tries'[r] = tries[r]]_brokerVars

\* A model call the child waits for is answered, by its deadline at the latest, as long
\* as the channel is open; a tool call may hang until it is cancelled.
CallEnds == <>[](\A r \in Request :
  client[r] = "waiting" /\ kind[r] \in ModelCall => shut)

\* Answers arrive whole and in order, one model call at a time, within the budget
\* (InMemoryChildCredentialBroker, the two ends of the channel).
ChannelSound == BrokerTypeOK /\ NoGap /\ BudgetKept /\ OneCall
=============================================================================
