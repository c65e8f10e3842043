---------------------------- MODULE ClientEvents ----------------------------
(***************************************************************************)
(* The typed client of a Runtime: one connection, one event pump that       *)
(* checks the sequence, a channel for each prompt and for the listener of    *)
(* all events, and the reconnection that the pump and the read-only          *)
(* requests share.                                                           *)
(*                                                                           *)
(*   packages/client/src/index.ts           PraxisClient, its channels       *)
(*   process/ndjsonProcessConnection.ts     the connection and its queue     *)
(*   framework/runtimeKernel.ts             emit, events.subscribe, replay   *)
(*                                                                           *)
(* A Runtime is a process behind the connection.  It numbers its events from *)
(* one; a run has RunLength of them and the last is terminal.  Requests are  *)
(* prompts, and one read-only request that may be refused by the Runtime.    *)
(* Closing a connection ends the Runtime of a process transport; the client  *)
(* also supports a transport that comes back to the same Runtime (Reattach), *)
(* and then asks for the events it missed.  What the pump does on a closed   *)
(* or failed queue takes no I/O and so happens before a new connection.      *)
(***************************************************************************)
EXTENDS Naturals, Sequences, FiniteSets

CONSTANTS
  Prompt,        \* prompts, each of which is a run
  RunLength,     \* events of a run, the last of them terminal
  Capacity,      \* eventBufferCapacity
  Attempts,      \* reconnectAttempts
  Window,        \* events a Runtime keeps for replay
  Reattach,      \* {TRUE}, {FALSE} or both: whether a new connection finds the old Runtime
  MaxReads,      \* bound: read-only requests
  MaxLinkFaults  \* bound: failed connections

ASSUME ClientAssumption ==
  /\ IsFiniteSet(Prompt) /\ RunLength \in Nat \ {0}
  /\ {Capacity, Attempts, Window, MaxReads, MaxLinkFaults} \subseteq Nat
  /\ Reattach \subseteq BOOLEAN

VARIABLES
  runtime,   \* the Runtime: its number and the events it has emitted
  home,      \* the Runtime a run was accepted by (0: none)
  emitted,   \* events a run has emitted
  conn,      \* the connection: its state and the notifications not yet taken
  link,      \* what the client does about its connection
  cursor,    \* lastSequence, and the Runtime it belongs to
  pump,      \* the event pump and its reconnections in a row
  prompt,    \* the prompts of the client
  listener,  \* the consumer of all events: open, or why it ended
  reader,    \* the read-only request
  faults

clientVars == <<runtime, home, emitted, conn, link, cursor, pump, prompt, listener, reader, faults>>

Fresh == [pc |-> "idle", chan |-> <<>>, open |-> FALSE, failed |-> FALSE, seen |-> 0,
          early |-> <<>>, overflow |-> FALSE, ignored |-> FALSE, out |-> "none"]

ClientInit ==
  /\ runtime = [id |-> 1, log |-> <<>>]
  /\ home = [p \in Prompt |-> 0]
  /\ emitted = [p \in Prompt |-> 0]
  /\ conn = [state |-> "open", notes |-> <<>>, replay |-> <<>>]
  /\ link = "open"
  /\ cursor = [seq |-> 0, runtime |-> 1]
  /\ pump = [pc |-> "reading", tries |-> 0]
  /\ prompt = [p \in Prompt |-> Fresh]
  /\ listener = "open"
  /\ reader = [pc |-> "idle", tries |-> 0, made |-> 0]
  /\ faults = 0

-----------------------------------------------------------------------------
(* The Runtime *)

Alive(p) == home[p] = runtime.id /\ emitted[p] < RunLength

\* A prompt arrives and is accepted: a run begins.
Accept(p) ==
  /\ prompt[p].pc = "sent" /\ conn.state = "open"
  /\ home' = [home EXCEPT ![p] = runtime.id]
  /\ prompt' = [prompt EXCEPT ![p].pc = "accepted"]
  /\ UNCHANGED <<runtime, emitted, conn, link, cursor, pump, listener, reader, faults>>

\* emit: the event gets the next number, is kept for replay and written to the subscriber.
Emit(p) ==
  /\ Alive(p)
  /\ emitted' = [emitted EXCEPT ![p] = @ + 1]
  /\ LET note == [seq |-> Len(runtime.log) + 1, run |-> p, nth |-> emitted[p] + 1] IN
     /\ runtime' = [runtime EXCEPT !.log = Append(@, note)]
     /\ conn' = IF conn.state = "open" THEN [conn EXCEPT !.notes = Append(@, note)] ELSE conn
  /\ UNCHANGED <<home, link, cursor, pump, prompt, listener, reader, faults>>

\* The replay of a subscription is written in a later turn of the event loop.
Replay ==
  /\ conn.replay # <<>> /\ conn.state = "open"
  /\ conn' = [conn EXCEPT !.notes = @ \o conn.replay, !.replay = <<>>]
  /\ UNCHANGED <<runtime, home, emitted, link, cursor, pump, prompt, listener, reader, faults>>

-----------------------------------------------------------------------------
(* Channels and runs *)

Terminal(n) == n = RunLength

\* A channel without a capacity.
PushUnbounded(q, n) == IF q.open THEN [q EXCEPT !.chan = Append(@, n)] ELSE q

\* AsyncEventChannel.push: a consumer that has fallen behind by Capacity loses its channel.
Push(q, n) ==
  CASE ~q.open -> q
    [] q.open /\ Len(q.chan) < Capacity -> [q EXCEPT !.chan = Append(@, n)]
    [] q.open /\ Len(q.chan) >= Capacity ->
         [q EXCEPT !.open = FALSE, !.failed = TRUE, !.chan = <<>>, !.ignored = ~Terminal(n)]

Completed(q) == IF q.open THEN [q EXCEPT !.open = FALSE] ELSE q
Failed(q) == IF q.open THEN [q EXCEPT !.open = FALSE, !.failed = TRUE, !.chan = <<>>] ELSE q

\* Prompts whose request has not been answered: pendingRunRequests.
Pending == {p \in Prompt : prompt[p].pc \in {"dialing", "sent", "accepted"}}

\* publishEvent: to the channel of the run, or kept while a request is pending, or dropped.
Routed(q, n) ==
  CASE q.ignored -> [q EXCEPT !.ignored = ~Terminal(n)]
    [] ~q.ignored /\ q.open ->
         LET pushed == Push(q, n) IN IF Terminal(n) THEN Completed(pushed) ELSE pushed
    [] ~q.ignored /\ ~q.open /\ Pending # {} ->
         IF Len(q.early) < Capacity
         THEN [q EXCEPT !.early = Append(@, n)]
         ELSE [q EXCEPT !.early = <<>>, !.overflow = TRUE]
    [] OTHER -> q

\* The answer to one request discards what was kept for the others.
DiscardedEarly(ps, left) == [p \in Prompt |-> [ps[p] EXCEPT !.early = <<>>, !.overflow = FALSE]]

\* Events that were kept for nobody go once no request is pending.
Discarded(ps, left) ==
  IF left = {} THEN [p \in Prompt |-> [ps[p] EXCEPT !.early = <<>>, !.overflow = FALSE]] ELSE ps

\* subscribeRun: the channel takes what came early, whose overflow fails it.
Subscribed(q) ==
  LET taken == [q EXCEPT !.pc = "consuming", !.chan = q.early, !.early = <<>>,
                        !.overflow = FALSE, !.ignored = FALSE]
  IN CASE pump.pc = "failed" \/ q.overflow -> [taken EXCEPT !.failed = TRUE, !.chan = <<>>]
       [] pump.pc = "ended" /\ ~q.overflow -> [taken EXCEPT !.chan = <<>>]
       [] OTHER -> [taken EXCEPT !.open = q.early = <<>> \/ ~Terminal(q.early[Len(q.early)])]

\* prompt and followUp: a request that is written once and never again.  Without a
\* connection it waits for one; a connection that has failed or closes rejects it.
SendPrompt(p) ==
  /\ prompt[p].pc = "idle"
  /\ prompt' =
       CASE link \in {"none", "connecting"} -> [prompt EXCEPT ![p].pc = "dialing"]
         [] link \in {"open", "closing"} /\ conn.state = "open" -> [prompt EXCEPT ![p].pc = "sent"]
         [] OTHER -> [prompt EXCEPT ![p].pc = "done", ![p].out = "rejected"]
  /\ UNCHANGED <<runtime, home, emitted, conn, link, cursor, pump, listener, reader, faults>>

\* The answer reaches the caller, before or after the first events of the run.
Answered(p) ==
  /\ prompt[p].pc = "accepted" /\ conn.state = "open"
  /\ prompt' = Discarded([prompt EXCEPT ![p] = Subscribed(@)], Pending \ {p})
  /\ UNCHANGED <<runtime, home, emitted, conn, link, cursor, pump, listener, reader, faults>>

\* The first event of the channel, and the end of the iteration when it is the last.
Taken(q) ==
  [q EXCEPT !.chan = Tail(@), !.seen = @ + 1,
            !.pc = IF Terminal(Head(q.chan)) THEN "done" ELSE @,
            !.out = IF Terminal(Head(q.chan)) THEN "terminal" ELSE @]

\* The consumer takes what its channel holds, and ends with it.
Consume(p) ==
  LET q == prompt[p] IN
  /\ q.pc = "consuming"
  /\ \/ /\ q.chan # <<>>
        /\ prompt' = [prompt EXCEPT ![p] = Taken(q)]
     \/ /\ q.chan = <<>> /\ ~q.open
        /\ prompt' = [prompt EXCEPT ![p] =
              [q EXCEPT !.pc = "done", !.ignored = pump.pc \notin {"ended", "failed"},
                        !.out = IF q.failed THEN "failed" ELSE "ended"]]
  /\ UNCHANGED <<runtime, home, emitted, conn, link, cursor, pump, listener, reader, faults>>

\* The consumer stops early: what its run still emits is ignored.
Leave(p) ==
  /\ prompt[p].pc = "consuming"
  /\ prompt' = [prompt EXCEPT ![p] =
        [@ EXCEPT !.pc = "done", !.out = "left", !.chan = <<>>, !.open = FALSE,
                  !.ignored = pump.pc \notin {"ended", "failed"}]]
  /\ UNCHANGED <<runtime, home, emitted, conn, link, cursor, pump, listener, reader, faults>>

-----------------------------------------------------------------------------
(* The event pump *)

\* completeEventSubscribers and failEventSubscribers, on every channel.
EndAll(failing) ==
  [p \in Prompt |->
     [IF failing THEN Failed(prompt[p]) ELSE Completed(prompt[p])
        EXCEPT !.early = <<>>, !.overflow = FALSE, !.ignored = FALSE]]

\* A notification that is taken whatever its number.
DeliverAny ==
  /\ pump.pc = "reading" /\ conn.notes # <<>>
  /\ LET note == Head(conn.notes) IN
     /\ cursor' = [cursor EXCEPT !.seq = note.seq]
     /\ pump' = [pump EXCEPT !.tries = 0]
     /\ prompt' = [prompt EXCEPT ![note.run] = Routed(@, note.nth)]
     /\ conn' = [conn EXCEPT !.notes = Tail(@)]
  /\ UNCHANGED <<runtime, home, emitted, link, listener, reader, faults>>

\* The next notification continues the sequence, or the stream fails for good.
Deliver ==
  /\ pump.pc = "reading" /\ conn.notes # <<>>
  /\ LET note == Head(conn.notes) IN
     IF note.seq = cursor.seq + 1
     THEN /\ cursor' = [cursor EXCEPT !.seq = note.seq]
          /\ pump' = [pump EXCEPT !.tries = 0]
          /\ prompt' = [prompt EXCEPT ![note.run] = Routed(@, note.nth)]
          /\ conn' = [conn EXCEPT !.notes = Tail(@)]
          /\ UNCHANGED listener
     ELSE /\ pump' = [pump EXCEPT !.pc = "failed"]
          /\ prompt' = EndAll(TRUE)
          /\ listener' = "failed"
          /\ UNCHANGED <<cursor, conn>>
  /\ UNCHANGED <<runtime, home, emitted, link, reader, faults>>

\* The queue of a connection that was closed is at its end: so is the stream.
StreamEnds ==
  /\ pump.pc = "reading" /\ conn.notes = <<>> /\ conn.state = "closed"
  /\ pump' = [pump EXCEPT !.pc = "ended"]
  /\ prompt' = EndAll(FALSE)
  /\ listener' = "ended"
  /\ UNCHANGED <<runtime, home, emitted, conn, link, cursor, reader, faults>>

\* That of one that failed throws: the pump reconnects, a bounded number of times in a row.
StreamFails ==
  /\ pump.pc = "reading" /\ conn.notes = <<>> /\ conn.state = "failed"
  /\ IF pump.tries < Attempts
     THEN /\ pump' = [pc |-> "reconnecting", tries |-> pump.tries + 1]
          /\ UNCHANGED <<prompt, listener>>
     ELSE /\ pump' = [pump EXCEPT !.pc = "failed"]
          /\ prompt' = EndAll(TRUE)
          /\ listener' = "failed"
  /\ UNCHANGED <<runtime, home, emitted, conn, link, cursor, reader, faults>>

-----------------------------------------------------------------------------
(* The connection *)

\* The end of a connection leaves its requests without an answer.
RejectedNone(ps) == ps

\* Requests that the end of a connection rejects.
Rejected(ps) ==
  Discarded([p \in Prompt |-> IF ps[p].pc \in {"dialing", "sent", "accepted"}
                              THEN [ps[p] EXCEPT !.pc = "done", !.out = "rejected"] ELSE ps[p]], {})

\* fail: the process exits, or writes what it must not.
LinkFails ==
  /\ faults < MaxLinkFaults /\ conn.state = "open"
  /\ faults' = faults + 1
  /\ conn' = [conn EXCEPT !.state = "failed", !.replay = <<>>]
  /\ prompt' = Rejected(prompt)
  /\ reader' = IF reader.pc = "sent" THEN [reader EXCEPT !.pc = "refused"] ELSE reader
  /\ UNCHANGED <<runtime, home, emitted, link, cursor, pump, listener>>

Reconnecting == pump.pc = "reconnecting" \/ reader.pc = "reconnecting"
Dialing == Reconnecting \/ reader.pc = "dialing" \/ \E p \in Prompt : prompt[p].pc = "dialing"

\* reconnect, shared by whoever asks for it, closes the connection there is ...
Close ==
  /\ Reconnecting /\ link = "open"
  /\ link' = "closing"
  /\ conn' = [conn EXCEPT !.state = IF @ = "open" THEN "closed" ELSE @, !.replay = <<>>]
  /\ prompt' = Rejected(prompt)
  /\ UNCHANGED <<runtime, home, emitted, cursor, pump, listener, reader, faults>>

\* ... forgets it ...
Forget ==
  /\ \/ link = "closing" /\ pump.pc # "reading"
     \/ link = "none" /\ Dialing
  /\ link' = "connecting"
  /\ UNCHANGED <<runtime, home, emitted, conn, cursor, pump, prompt, listener, reader, faults>>

\* Those who waited for the connection go on.
Resumed ==
  /\ pump' = IF pump.pc = "reconnecting" THEN [pump EXCEPT !.pc = "reading"] ELSE pump
  /\ reader' = IF reader.pc \in {"dialing", "reconnecting"} THEN [reader EXCEPT !.pc = "sent"] ELSE reader
  /\ prompt' = [p \in Prompt |-> IF prompt[p].pc = "dialing" THEN [prompt[p] EXCEPT !.pc = "sent"]
                                                             ELSE prompt[p]]

\* Only the pump learns that there is no connection.
DisappointedPump ==
  /\ pump' = IF pump.pc = "reconnecting" THEN [pump EXCEPT !.pc = "failed"] ELSE pump
  /\ prompt' = Rejected(IF pump.pc = "reconnecting" THEN EndAll(TRUE) ELSE prompt)
  /\ listener' = IF pump.pc = "reconnecting" THEN "failed" ELSE listener
  /\ UNCHANGED reader

\* Those who waited are told; the reader may try again when the attempt was not its own.
Disappointed ==
  /\ pump' = IF pump.pc = "reconnecting" THEN [pump EXCEPT !.pc = "failed"] ELSE pump
  /\ prompt' = Rejected(IF pump.pc = "reconnecting" THEN EndAll(TRUE) ELSE prompt)
  /\ listener' = IF pump.pc = "reconnecting" THEN "failed" ELSE listener
  /\ reader' = [reader EXCEPT !.pc = CASE @ = "reconnecting" -> "idle"
                                      [] @ = "dialing" -> "refused"
                                      [] OTHER -> @]

\* ... and opens another: a new Runtime is a new epoch, read from its first event.
ConnectNew ==
  /\ link = "connecting" /\ FALSE \in Reattach
  /\ link' = "open"
  /\ runtime' = [id |-> runtime.id + 1, log |-> <<>>]
  /\ conn' = [state |-> "open", notes |-> <<>>, replay |-> <<>>]
  /\ cursor' = [seq |-> 0, runtime |-> runtime.id + 1]
  /\ Resumed
  /\ UNCHANGED <<home, emitted, listener, faults>>

\* The events of a Runtime from a number on, which is their place in its log.
Kept(from) == SubSeq(runtime.log, from, Len(runtime.log))
Expired(from) == from + Window <= Len(runtime.log)

\* The same Runtime is asked for what came after the last event seen.
ConnectSame ==
  LET from == cursor.seq + 1 IN
  /\ link = "connecting" /\ TRUE \in Reattach
  /\ ~Expired(from)
  /\ link' = "open"
  /\ conn' = [state |-> "open", notes |-> <<>>, replay |-> Kept(from)]
  /\ Resumed
  /\ UNCHANGED <<runtime, home, emitted, cursor, listener, faults>>

\* No connection: the Runtime does not start, or no longer has the events asked for.
ConnectFails ==
  /\ link = "connecting"
  /\ \/ faults < MaxLinkFaults /\ faults' = faults + 1
     \/ TRUE \in Reattach /\ Expired(cursor.seq + 1) /\ UNCHANGED faults
  /\ link' = "none"
  /\ Disappointed
  /\ UNCHANGED <<runtime, home, emitted, conn, cursor>>

-----------------------------------------------------------------------------
(* The read-only request *)

\* It is written, or rejected at once, or waits for a connection.
Read ==
  /\ reader.pc = "idle" /\ reader.made < MaxReads
  /\ reader' = [pc |-> CASE link \in {"none", "connecting"} -> "dialing"
                         [] link \in {"open", "closing"} /\ conn.state = "open" -> "sent"
                         [] OTHER -> "refused",
                tries |-> 0, made |-> reader.made + 1]
  /\ UNCHANGED <<runtime, home, emitted, conn, link, cursor, pump, prompt, listener, faults>>

\* The Runtime answers it, with a result or with an error of its own.
ReadAnswered ==
  /\ reader.pc = "sent" /\ conn.state = "open"
  /\ \E pc \in {"idle", "refused"} : reader' = [reader EXCEPT !.pc = pc]
  /\ UNCHANGED <<runtime, home, emitted, conn, link, cursor, pump, prompt, listener, faults>>

\* Any error of a read-only request makes the client reconnect and ask again.
ReadRefused ==
  /\ reader.pc = "refused"
  /\ reader' = IF reader.tries < Attempts
               THEN [reader EXCEPT !.pc = "reconnecting", !.tries = @ + 1]
               ELSE [reader EXCEPT !.pc = "idle"]
  /\ UNCHANGED <<runtime, home, emitted, conn, link, cursor, pump, prompt, listener, faults>>

-----------------------------------------------------------------------------

PromptStep(p) == Accept(p) \/ Emit(p) \/ Answered(p) \/ Consume(p)
PumpStep == Deliver \/ StreamEnds \/ StreamFails
LinkStep == Replay \/ Close \/ Forget \/ ConnectNew \/ ConnectSame \/ ConnectFails
ReadStep == ReadAnswered \/ ReadRefused

ClientNext ==
  \/ \E p \in Prompt : PromptStep(p) \/ SendPrompt(p) \/ Leave(p)
  \/ PumpStep \/ LinkStep \/ ReadStep \/ LinkFails \/ Read

\* Runs end, answers come, a connection is made or refused; a consumer that has not left reads.
ClientFairness ==
  /\ \A p \in Prompt : WF_clientVars(PromptStep(p))
  /\ WF_clientVars(PumpStep) /\ WF_clientVars(LinkStep) /\ WF_clientVars(ReadStep)

ClientSpec == ClientInit /\ [][ClientNext]_clientVars /\ ClientFairness

-----------------------------------------------------------------------------
(* Properties *)

\* The connection, the pump, the channels and the sequence have their shapes.
ClientTypeOK ==
  /\ conn.state \in {"open", "failed", "closed"}
  /\ link \in {"open", "closing", "connecting", "none"}
  /\ pump.pc \in {"reading", "reconnecting", "ended", "failed"} /\ pump.tries \in 0..Attempts
  /\ listener \in {"open", "ended", "failed"}
  /\ cursor.seq \in 0..(RunLength * Cardinality(Prompt))
  /\ \A p \in Prompt : /\ Len(prompt[p].chan) <= Capacity
                       /\ Len(prompt[p].early) <= Capacity
                       /\ prompt[p].seen \in 0..RunLength

\* What a prompt has consumed and what waits in its channel are the events of its run
\* from the first on, none missing, none twice, in order: also when they came before the
\* answer to its request, over a reconnection, and beside a consumer that overflows.
RunInOrder ==
  \A p \in Prompt :
    /\ \A i \in DOMAIN prompt[p].chan : prompt[p].chan[i] = prompt[p].seen + i
    /\ prompt[p].out = "terminal" => prompt[p].seen = RunLength

\* While the stream lives, the client has seen every event of its Runtime up to its
\* cursor, and the open channel of a run holds all of them that are the run's.
NothingDropped ==
  cursor.runtime = runtime.id =>
    /\ cursor.seq <= Len(runtime.log)
    /\ \A p \in Prompt :
         prompt[p].open /\ home[p] = runtime.id =>
           prompt[p].seen + Len(prompt[p].chan) =
             Cardinality({i \in 1..cursor.seq : runtime.log[i].run = p})

\* A prompt of a Runtime that is still there comes to an end: by its terminal event, or
\* because the stream, the channel or the request failed.
PromptsEnd ==
  \A p \in Prompt :
    <>[](prompt[p].pc \in {"idle", "done"} \/ home[p] \notin {0, runtime.id})

\* A connection that is lost is replaced or given up, and whoever waited is told.
LinkSettles == <>[](link \in {"open", "none"} /\ ~Reconnecting)

\* The stream of events ends only when it fails: a Runtime that is replaced is read from
\* its current event on (docs/frontend-runtime-communication.md, 4.4).
StreamGoesOn == listener # "ended"


\* A consumer sees the events of its run in order, and none is lost on the way to it
\* (publishEvent, the event pump).
StreamSound == ClientTypeOK /\ RunInOrder /\ NothingDropped
=============================================================================
