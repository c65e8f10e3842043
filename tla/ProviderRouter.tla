--------------------------- MODULE ProviderRouter ---------------------------
(***************************************************************************)
(* ProviderRouter: model calls with retries, fallback candidates and a       *)
(* circuit breaker per provider.                                             *)
(*                                                                          *)
(* The calls of stream run side by side and share the health of the          *)
(* providers, which each reads when it takes up a candidate and writes when  *)
(* an attempt ends.  A step ends where the generator awaits: the lookup, the *)
(* preparation of the request, the next chunk, the delay of a retry, and the *)
(* consumer, to whom it yields and who may close it.  An abort may come at   *)
(* any time; a failure that is met after it counts as a cancellation, as     *)
(* does an AbortError of the provider itself.                                *)
(***************************************************************************)
EXTENDS Naturals, Sequences

CONSTANTS
  Stream,         \* calls of stream
  Provider,
  Candidates,     \* [Stream -> Seq(Provider)]: the primary provider and the fallbacks
  RetryAttempts,
  Threshold,      \* circuitFailureThreshold
  Cooldown,       \* circuitCooldownMs
  MaxParts,       \* bound: chunks of an answer
  MaxClock        \* bound of the clock

\* The constructor rounds and clamps its options; a stream has its primary provider.
ASSUME RouterAssumption ==
  /\ RetryAttempts \in Nat /\ Threshold \in Nat \ {0} /\ Cooldown \in Nat \ {0}
  /\ MaxParts \in Nat /\ MaxClock \in Nat
  /\ Candidates \in [Stream -> Seq(Provider) \ {<<>>}]

VARIABLES
  health,    \* [Provider -> healthByProvider]
  clock,
  at,        \* [Stream -> where the generator is]
  index,     \* [Stream -> candidateIndex]
  attempt,   \* [Stream -> attempt]
  output,    \* [Stream -> the candidate and attempt of each chunk it has yielded]
  open,      \* [Stream -> provider.started records without a completed or failed one]
  cause,     \* [Stream -> lastError]
  quit       \* streams whose signal is aborted

routerVars == <<health, clock, at, index, attempt, output, open, cause, quit>>

(* What normalizeProviderError tells apart: a failure that may pass, one    *)
(* that will not, one that says nothing about the provider (credentials,    *)
(* account, model, context limit, capabilities), and a cancellation.        *)
Failure == {"transient", "permanent", "denied", "cancelled"}
Place == {"start", "pick", "lookup", "prepare", "stream", "sleep", "returned", "thrown", "closed"}
Over == {"returned", "thrown", "closed"}

RouterTypeOK ==
  /\ health \in [Provider -> [state : {"healthy", "degraded", "unhealthy", "circuit_open"},
                              failures : Nat, openedAt : 0 .. MaxClock]]
  /\ clock \in 0 .. MaxClock
  /\ at \in [Stream -> Place] /\ attempt \in [Stream -> 0 .. RetryAttempts]
  /\ \A s \in Stream : index[s] \in 1 .. Len(Candidates[s]) + 1
  /\ \A s \in Stream : Len(output[s]) <= MaxParts
  /\ quit \subseteq Stream /\ open \in [Stream -> 0 .. 1]
  /\ cause \in [Stream -> Failure \cup {"none", "circuit", "unavailable"}]

Healthy == [state |-> "healthy", failures |-> 0, openedAt |-> 0]

RouterInit ==
  /\ health = [p \in Provider |-> Healthy] /\ clock = 0
  /\ at = [s \in Stream |-> "start"] /\ index = [s \in Stream |-> 1]
  /\ attempt = [s \in Stream |-> 0] /\ output = [s \in Stream |-> <<>>]
  /\ open = [s \in Stream |-> 0]
  /\ cause = [s \in Stream |-> "none"] /\ quit = {}

Candidate(s) == Candidates[s][index[s]]
LastCandidate(s) == index[s] = Len(Candidates[s])
Go(s, place) == at' = [at EXCEPT ![s] = place]

(***************************************************************************)
(* The health of a provider.                                                *)
(***************************************************************************)

\* A breaker that stays open.
CurrentStuck(p) == health[p]

\* currentHealth: an open circuit whose cooldown has passed is only degraded.
Current(p) ==
  IF health[p].state = "circuit_open" /\ clock - health[p].openedAt >= Cooldown
  THEN [state |-> "degraded", failures |-> health[p].failures, openedAt |-> 0] ELSE health[p]

\* affectsProviderHealth.
Affects(f) == f \in {"transient", "permanent"}

\* noteFailure.
Failed(p, f) ==
  LET n == Current(p).failures + 1 IN
  IF f = "transient" /\ n >= Threshold
  THEN [state |-> "circuit_open", failures |-> n, openedAt |-> clock]
  ELSE [state |-> IF f = "transient" THEN "degraded" ELSE "unhealthy", failures |-> n,
        openedAt |-> 0]

(***************************************************************************)
(* stream.                                                                  *)
(***************************************************************************)

Call(s) ==
  /\ at[s] = "start" /\ Go(s, "pick")
  /\ UNCHANGED <<health, clock, index, attempt, output, open, cause, quit>>

\* The next candidate, or the last error when there is none left.
Pick(s) ==
  /\ at[s] = "pick"
  /\ \/ /\ index[s] > Len(Candidates[s])
        /\ Go(s, "thrown") /\ UNCHANGED <<health, index, cause>>
     \/ /\ index[s] <= Len(Candidates[s])
        /\ health' = [health EXCEPT ![Candidate(s)] = Current(Candidate(s))]
        /\ IF Current(Candidate(s)).state = "circuit_open"
           THEN /\ cause' = [cause EXCEPT ![s] = "circuit"]
                /\ index' = [index EXCEPT ![s] = @ + 1] /\ UNCHANGED at
           ELSE Go(s, "lookup") /\ UNCHANGED <<index, cause>>
  /\ UNCHANGED <<clock, attempt, output, open, quit>>

Lookup(s) ==
  /\ at[s] = "lookup"
  /\ \/ /\ Go(s, "prepare") /\ attempt' = [attempt EXCEPT ![s] = 0]
        /\ UNCHANGED <<index, cause>>
     \/ /\ cause' = [cause EXCEPT ![s] = "unavailable"]
        /\ index' = [index EXCEPT ![s] = @ + 1] /\ Go(s, "pick") /\ UNCHANGED attempt
  /\ UNCHANGED <<health, clock, output, open, quit>>

\* The request is prepared and supported, and the provider called.
Open(s) ==
  /\ at[s] = "prepare" /\ Go(s, "stream")
  /\ open' = [open EXCEPT ![s] = @ + 1]
  /\ UNCHANGED <<health, clock, index, attempt, output, cause, quit>>

\* A chunk, which the consumer takes.
Yield(s) ==
  /\ at[s] = "stream" /\ Len(output[s]) < MaxParts
  /\ output' = [output EXCEPT ![s] = Append(@, <<index[s], attempt[s]>>)]
  /\ UNCHANGED <<health, clock, at, index, attempt, open, cause, quit>>

\* traceCompleted, noteSuccess.
FinishStream(s) ==
  /\ at[s] = "stream" /\ Go(s, "returned")
  /\ open' = [open EXCEPT ![s] = @ - 1]
  /\ health' = [health EXCEPT ![Candidate(s)] = Healthy]
  /\ UNCHANGED <<clock, index, attempt, output, cause, quit>>

\* The consumer returns from its loop: finally ends the trace, with a completed record if
\* the completed chunk has been yielded, else with a failed one.
CloseStream(s) ==
  /\ at[s] = "stream" /\ output[s] # <<>> /\ Go(s, "closed")
  /\ open' = [open EXCEPT ![s] = @ - 1]
  /\ UNCHANGED <<health, clock, index, attempt, output, cause, quit>>

\* A retry for whatever can be retried, as if nothing had been yielded.
AfterFailureAlways(s, f) ==
  IF f = "transient" /\ attempt[s] < RetryAttempts THEN "sleep"
  ELSE IF LastCandidate(s) \/ f = "cancelled" THEN "thrown" ELSE "pick"

\* A cancellation that goes on to the next candidate.
AfterFailureAnyway(s, f) ==
  IF output[s] # <<>> THEN "thrown"
  ELSE IF f = "transient" /\ attempt[s] < RetryAttempts THEN "sleep"
  ELSE IF LastCandidate(s) THEN "thrown" ELSE "pick"

\* What follows a failure: nothing more once the consumer has seen a chunk.
AfterFailure(s, f) ==
  IF output[s] # <<>> THEN "thrown"
  ELSE IF f = "transient" /\ attempt[s] < RetryAttempts THEN "sleep"
  ELSE IF LastCandidate(s) \/ f = "cancelled" THEN "thrown" ELSE "pick"

\* catch: the error is normalized, noted and traced.
Fail(s, f) ==
  /\ at[s] \in {"prepare", "stream"}
  /\ s \in quit => f = "cancelled"
  /\ health' = IF Affects(f) THEN [health EXCEPT ![Candidate(s)] = Failed(Candidate(s), f)]
               ELSE [health EXCEPT ![Candidate(s)] = Current(Candidate(s))]
  /\ cause' = [cause EXCEPT ![s] = f]
  /\ open' = [open EXCEPT ![s] = 0]
  /\ Go(s, AfterFailure(s, f))
  /\ index' = IF AfterFailure(s, f) = "pick" THEN [index EXCEPT ![s] = @ + 1] ELSE index
  /\ UNCHANGED <<clock, attempt, output, quit>>

\* abortableDelay: an abort ends the delay, but a delay of nothing is not one.
Wake(s) ==
  /\ at[s] = "sleep"
  /\ \/ attempt' = [attempt EXCEPT ![s] = @ + 1] /\ Go(s, "prepare") /\ UNCHANGED cause
     \/ /\ s \in quit
        /\ cause' = [cause EXCEPT ![s] = "cancelled"] /\ Go(s, "thrown") /\ UNCHANGED attempt
  /\ UNCHANGED <<health, clock, index, output, open, quit>>

Abort(s) ==
  /\ at[s] \notin Over /\ s \notin quit /\ quit' = quit \cup {s}
  /\ UNCHANGED <<health, clock, at, index, attempt, output, open, cause>>

Elapse ==
  /\ clock < MaxClock /\ clock' = clock + 1
  /\ UNCHANGED <<health, at, index, attempt, output, open, cause, quit>>

StreamStep(s) ==
  \/ Pick(s) \/ Lookup(s) \/ Open(s) \/ FinishStream(s) \/ Wake(s)
  \/ \E f \in Failure : Fail(s, f)

RouterNext ==
  \/ \E s \in Stream : Call(s) \/ StreamStep(s) \/ Yield(s) \/ CloseStream(s) \/ Abort(s)
  \/ Elapse

RouterSpec == RouterInit /\ [][RouterNext]_routerVars /\ \A s \in Stream : WF_routerVars(StreamStep(s))

(***************************************************************************)
(* Properties.                                                              *)
(***************************************************************************)

\* All chunks a consumer gets are of one attempt of one candidate: an answer is never
\* continued by another try or another model (emitted).
OneSource == \A s \in Stream : \A i, j \in DOMAIN output[s] : output[s][i] = output[s][j]

\* A call whose consumer has seen a part of the answer, or which was cancelled, calls no
\* provider again, whatever candidates are left.
NoFurtherCall == \A s \in Stream :
  /\ output[s] # <<>> => at[s] \in Over \cup {"stream"}
  /\ cause[s] = "cancelled" => at[s] = "thrown"

\* Each provider.started record gets one record of its end, on every way out (terminal).
TracePaired == \A s \in Stream : open[s] = IF at[s] = "stream" THEN 1 ELSE 0

\* A circuit is open only after Threshold failures with no success in between, and never
\* keeps a provider out for longer than its cooldown, although several calls write the
\* health of one provider in any order (noteFailure, currentHealth).
CircuitHonest == \A p \in Provider :
  /\ health[p].state = "circuit_open" => health[p].failures >= Threshold
  /\ clock - health[p].openedAt >= Cooldown => Current(p).state # "circuit_open"
  /\ health[p].state = "healthy" <=> health[p].failures = 0

\* What holds of the router in every state: the chunks of an answer are of one attempt, no
\* provider is called again for it or after a cancellation, each attempt is traced to its
\* end, and a circuit opens and closes as its failures say (stream, noteFailure).
RouterSound == RouterTypeOK /\ OneSource /\ NoFurtherCall /\ TracePaired /\ CircuitHonest

\* A call that was made ends, when its provider and its consumer go on.
RouterEnds == \A s \in Stream : at[s] # "start" ~> at[s] \in Over
=============================================================================
