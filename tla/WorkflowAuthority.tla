-------------------------- MODULE WorkflowAuthority --------------------------
(***************************************************************************)
(* The durable workflow authority of the Praxis runtime, driven through the *)
(* orchestrator: the rows SqliteWorkflowAuthorityV1 keeps for workflows,    *)
(* nodes, attempts, tasks, leases and effect reservations, and one action   *)
(* for each transaction that WorkflowOrchestratorV1, WorkflowEffectBrokerV1 *)
(* and the operator's protocol methods commit on them.                      *)
(*                                                                         *)
(* Every transaction runs under one BEGIN IMMEDIATE and is rejected when    *)
(* the projection's sequence moved since it was read, so reading, deciding  *)
(* and committing are one atomic step; an operation that throws is rolled   *)
(* back and is a disabled action.  Workers are the most general clients:    *)
(* whoever was handed a claim may use it in any order, at any later time,   *)
(* or never again (a crash).                                                *)
(***************************************************************************)
EXTENDS WorkflowGraph

CONSTANTS
  Workflow,
  WorkflowOf,      \* [Node -> Workflow]
  RootOf,          \* [Workflow -> Node]
  Graph,           \* the sets of nodes admitted together by admitAgentGraph
  EffectClass,     \* [Node -> effect class]
  MaxAttempts,     \* [Node -> Nat], 0 for a decision node, which has no task
  ConflictKeys,    \* [Node -> SUBSET keys]
  EffectKey,       \* the idempotency keys, each used in one workflow only
  IdempotencyKey,  \* [Node -> EffectKey \cup {NoKey}]
  NoKey,
  InputDigest,     \* [Node -> digest of the tool input]
  CapacityGroup,
  CapacityLimit,   \* [Workflow -> [CapacityGroup -> Nat]], 0 not in the group
  MaxAgentTasks,   \* [Workflow -> Nat]: budget.maxAgentTasks
  CandidateLimit,  \* the LIMIT of claim's candidate query
  LeaseTime,       \* claim's leaseMs
  HeartbeatTime,   \* max(1s, 3 * heartbeatMs)
  HeartbeatAge,    \* how old a heartbeat's own timestamp may be at its commit
  InitialBackoff,
  MaxBackoff,
  MaxTime          \* bound on the clock

\* Attempts and tasks are in bijection: attempt <<n, k>> is the k-th of node n
\* and its task has the same name.
Attempt == UNION {{n} \X (1 .. MaxAttempts[n]) : n \in Node}

EffectClasses ==
  {"pure", "read", "workspace_write", "external_idempotent", "external_non_idempotent"}

ASSUME AuthorityAssumption ==
  /\ WorkflowOf \in [Node -> Workflow]
  /\ RootOf \in [Workflow -> Node]
  /\ \A w \in Workflow : WorkflowOf[RootOf[w]] = w /\ Kind[RootOf[w]] = "agent"
  /\ Graph \subseteq SUBSET Node
  /\ EffectClass \in [Node -> EffectClasses]
  /\ MaxAttempts \in [Node -> Nat]
  /\ \A n \in Node : Kind[n] = "decision" <=> MaxAttempts[n] = 0
  /\ IdempotencyKey \in [Node -> EffectKey \cup {NoKey}]
  /\ NoKey \notin EffectKey
  /\ \A n \in Node : IdempotencyKey[n] # NoKey => Kind[n] = "tool"
  /\ CapacityLimit \in [Workflow -> [CapacityGroup -> Nat]]
  /\ MaxAgentTasks \in [Workflow -> Nat]
  /\ CandidateLimit \in Nat \ {0}
  /\ LeaseTime \in Nat \ {0}
  /\ HeartbeatTime \in Nat \ {0}
  /\ HeartbeatAge \in Nat
  /\ InitialBackoff \in Nat
  /\ MaxBackoff \in Nat
  /\ MaxTime \in Nat

VARIABLES
  now,         \* the authority's clock
  wf,          \* [Workflow -> state or Absent]
  node,        \* [Node -> state or Absent]
  ordinal,     \* [Node -> Nat]: number of attempts created so far
  att,         \* [Attempt -> state or Absent]
  task,        \* [Attempt -> state or Absent]
  readyAt,     \* [Attempt -> time]
  expires,     \* [Attempt -> time]: lease_expires_at, 0 without a lease
  lastClaimed, \* [Workflow -> time]: workflow_scheduler_fairness, 0 never
  ledger,      \* [EffectKey -> reservation]
  claims,      \* the claims (task and lease token) workers have been handed
  admission    \* [Attempt -> what reserveEffect answered to the broker]

vars == <<now, wf, node, ordinal, att, task, readyAt, expires, lastClaimed,
          ledger, claims, admission>>

NoOwner == <<>>

Reservation ==
  [state  : {"free", "reserved", "committed", "released", "unknown"},
   owner  : Attempt \cup {NoOwner},
   digest : {InputDigest[n] : n \in Node} \cup {NoKey}]

Admission == {"none", "execute", "replay", "denied"}

TypeOK ==
  /\ now \in Nat
  /\ wf \in [Workflow -> WorkflowState \cup {Absent}]
  /\ node \in [Node -> NodeState \cup {Absent, Superseded}]
  /\ ordinal \in [Node -> Nat]
  /\ att \in [Attempt -> AttemptState \cup {Absent}]
  /\ task \in [Attempt -> TaskState \cup {Absent}]
  /\ readyAt \in [Attempt -> Nat]
  /\ expires \in [Attempt -> Nat]
  /\ lastClaimed \in [Workflow -> Nat]
  /\ ledger \in [EffectKey -> Reservation]
  /\ claims \subseteq Attempt
  /\ admission \in [Attempt -> Admission]

Init ==
  /\ now = 1
  /\ wf = [w \in Workflow |-> Absent]
  /\ node = [n \in Node |-> Absent]
  /\ ordinal = [n \in Node |-> 0]
  /\ att = [t \in Attempt |-> Absent]
  /\ task = [t \in Attempt |-> Absent]
  /\ readyAt = [t \in Attempt |-> 0]
  /\ expires = [t \in Attempt |-> 0]
  /\ lastClaimed = [w \in Workflow |-> 0]
  /\ ledger = [k \in EffectKey |-> [state |-> "free", owner |-> NoOwner, digest |-> NoKey]]
  /\ claims = {}
  /\ admission = [t \in Attempt |-> "none"]

-----------------------------------------------------------------------------
(* Derived sets *)

Root           == {RootOf[w] : w \in Workflow}
NodesOf(w)     == {n \in Node : WorkflowOf[n] = w /\ node[n] \in NodeState}
Descendants(w) == NodesOf(w) \ {RootOf[w]}
Ended(w)       == wf[w] \in TerminalWorkflow
Last(n)        == <<n, ordinal[n]>>
NextOf(t)      == <<t[1], t[2] + 1>>

\* Leases the authority counts as held: expired ones no longer occupy anything.
LiveLeases == {u \in Attempt : task[u] = "leased" /\ expires[u] > now}

InGroup(g) ==
  {u \in LiveLeases : Kind[u[1]] = "agent" /\ CapacityLimit[WorkflowOf[u[1]]][g] > 0}

\* The ledger after the reservation of k has moved to this state.
Reserving(k, state) == [ledger EXCEPT ![k].state = state]

\* backoffMs and workflowRetryBackoffMs
Backoff(k) ==
  LET delay == InitialBackoff * 2 ^ (k - 1)
  IN  IF delay \in 0 .. MaxBackoff THEN delay ELSE MaxBackoff

-----------------------------------------------------------------------------
(* Admission: start, admitDelegate, admitToolActivity and admitAgentGraph.  *)
(* None of them looks at the workflow's state.                              *)

Create(S) ==
  LET tasks == {<<n, 1>> : n \in {m \in S : Kind[m] # "decision"}} IN
  /\ node' = [n \in Node |->
                IF n \notin S THEN node[n]
                ELSE IF Kind[n] # "decision" /\ Incoming(n) = {} THEN "scheduled" ELSE "admitted"]
  /\ ordinal' = [n \in Node |-> IF n \in S /\ Kind[n] # "decision" THEN 1 ELSE ordinal[n]]
  /\ att' = [t \in Attempt |-> IF t \in tasks THEN "scheduled" ELSE att[t]]
  /\ task' = [t \in Attempt |-> IF t \in tasks THEN "ready" ELSE task[t]]
  /\ readyAt' = [t \in Attempt |-> IF t \in tasks THEN now ELSE readyAt[t]]
  /\ UNCHANGED <<now, expires, lastClaimed, ledger, claims, admission>>

Start(w) ==
  /\ wf[w] = Absent
  /\ wf' = [wf EXCEPT ![w] = "running"]
  /\ Create({RootOf[w]})

AdmitTask(n) ==
  LET w == WorkflowOf[n] IN
  /\ n \notin Root \cup UNION Graph
  /\ node[n] = Absent
  /\ wf[w] # Absent
  /\ Cardinality({m \in NodesOf(w) \cup {n} : Kind[m] = "agent"}) <= MaxAgentTasks[w]
  /\ Create({n})
  /\ UNCHANGED wf

AdmitAgentGraph(S) ==
  /\ \A n \in S : node[n] = Absent
  /\ \E w \in Workflow :
        /\ wf[w] # Absent
        /\ \A n \in S : WorkflowOf[n] = w
        /\ \A e \in Edge : e[2] \in S => e[1] \in S \cup NodesOf(w)
        /\ Cardinality(NodesOf(w)) + Cardinality({n \in S : Kind[n] = "agent"})
             <= MaxAgentTasks[w]
  /\ Create(S)
  /\ UNCHANGED wf

-----------------------------------------------------------------------------
(* Leases *)

Priority(n) == IF n \in Root THEN 100 ELSE 50

Candidate == {t \in Attempt : /\ task[t] = "ready"
                              /\ readyAt[t] <= now
                              /\ wf[WorkflowOf[t[1]]] = "running"}

\* ORDER BY priority DESC, last_claimed_at, ready_at; the final order on the
\* random task ids is left open.
Before(u, t) ==
  LET pu == Priority(u[1])  pt == Priority(t[1])
      lu == lastClaimed[WorkflowOf[u[1]]]  lt == lastClaimed[WorkflowOf[t[1]]]
  IN  \/ pu > pt
      \/ pu = pt /\ lu < lt
      \/ pu = pt /\ lu = lt /\ readyAt[u] < readyAt[t]

\* Fault: a lease excludes others only once its attempt is running.
NoRunningConflict(n) ==
  \A u \in LiveLeases : att[u] = "running" => ConflictKeys[u[1]] \cap ConflictKeys[n] = {}

NoConflict(n) == \A u \in LiveLeases : ConflictKeys[u[1]] \cap ConflictKeys[n] = {}

\* Fault: a workflow looks at its own limit only.
OwnCapacityAvailable(w) ==
  \A g \in CapacityGroup :
     CapacityLimit[w][g] > 0 => Cardinality(InGroup(g)) < CapacityLimit[w][g]

CapacityAvailable(w) ==
  \A g \in CapacityGroup : CapacityLimit[w][g] > 0 =>
     \A v \in {w} \cup {WorkflowOf[u[1]] : u \in InGroup(g)} :
        Cardinality(InGroup(g)) < CapacityLimit[v][g]

Claim(t) ==
  LET n == t[1]  w == WorkflowOf[n] IN
  /\ t \in Candidate
  /\ Cardinality({u \in Candidate : Before(u, t)}) < CandidateLimit
  /\ NoConflict(n)
  /\ node[n] = "scheduled"
  /\ Kind[n] = "agent" => CapacityAvailable(w)
  /\ AttemptMay(att[t], "leased")
  /\ task' = [task EXCEPT ![t] = "leased"]
  /\ expires' = [expires EXCEPT ![t] = now + LeaseTime]
  /\ lastClaimed' = [lastClaimed EXCEPT ![w] = now]
  /\ node' = [node EXCEPT ![n] = "leased"]
  /\ att' = [att EXCEPT ![t] = "leased"]
  /\ claims' = claims \cup {t}
  /\ UNCHANGED <<now, wf, ordinal, readyAt, ledger, admission>>

\* The worker stamps the heartbeat when it sends it: at is not later than now.
Heartbeat(t, at) ==
  /\ t \in claims
  /\ task[t] = "leased"
  /\ expires[t] > at
  /\ expires' = [expires EXCEPT ![t] = at + HeartbeatTime]
  /\ UNCHANGED <<now, wf, node, ordinal, att, task, readyAt, lastClaimed, ledger,
                 claims, admission>>

MarkRunning(t) ==
  /\ t \in claims
  /\ NodeMay(node[t[1]], "running")
  /\ AttemptMay(att[t], "running")
  /\ node' = [node EXCEPT ![t[1]] = "running"]
  /\ att' = [att EXCEPT ![t] = "running"]
  /\ UNCHANGED <<now, wf, ordinal, task, readyAt, expires, lastClaimed, ledger,
                 claims, admission>>

-----------------------------------------------------------------------------
(* Settling a claim.  acknowledgeTask requires the task to be leased under  *)
(* the claim's token, but does not look at the expiry of the lease.         *)

LeaseHeld(t) == t \in claims /\ task[t] = "leased"

Acknowledge(t, state) ==
  /\ LeaseHeld(t)
  /\ task' = [task EXCEPT ![t] = state]
  /\ expires' = [expires EXCEPT ![t] = 0]

\* effectReservationTerminal: only the owner may settle a reservation.
SettleReservation(t, state) ==
  LET k == IdempotencyKey[t[1]] IN
  IF admission[t] = "execute"
  THEN /\ ledger[k].owner = t
       /\ ledger' = Reserving(k, state)
  ELSE UNCHANGED ledger

\* complete returns early, writing nothing, in these states.
CompletionIgnored(n) ==
  \/ Ended(WorkflowOf[n])
  \/ node[n] \in {"succeeded", "failed", "cancelled", "manual_intervention"}

\* What the broker may report: it reserves its key before it invokes the tool.
MayReport(t, answers) ==
  IdempotencyKey[t[1]] # NoKey => admission[t] \in answers

\* The reconciliation that follows a success runs in transactions of its own,
\* ScheduleReady, ResolveJoin and Settle below, which others may interleave.
CompleteOk(t) ==
  LET n == t[1] IN
  /\ ~CompletionIgnored(n)
  /\ MayReport(t, {"execute", "replay"})
  /\ AttemptMay(att[t], "succeeded")
  /\ NodeMay(node[n], "succeeded")
  /\ Acknowledge(t, "completed")
  /\ SettleReservation(t, "committed")
  /\ att' = [att EXCEPT ![t] = "succeeded"]
  /\ node' = [node EXCEPT ![n] = "succeeded"]
  /\ UNCHANGED <<now, wf, ordinal, readyAt, lastClaimed, claims, admission>>

\* A failure the tool or the agent reported, with no retry: a root failure
\* ends the workflow in the same transaction.
CompleteFailed(t) ==
  LET n == t[1]  w == WorkflowOf[n] IN
  /\ ~CompletionIgnored(n)
  /\ MayReport(t, {"execute", "denied"})
  /\ AttemptMay(att[t], "failed")
  /\ NodeMay(node[n], "failed")
  /\ Acknowledge(t, "failed")
  /\ SettleReservation(t, "released")
  /\ IF n = RootOf[w]
     THEN WorkflowMay(wf[w], "failed") /\ wf' = [wf EXCEPT ![w] = "failed"]
     ELSE UNCHANGED wf
  /\ att' = [att EXCEPT ![t] = "failed"]
  /\ node' = [node EXCEPT ![n] = "failed"]
  /\ UNCHANGED <<now, ordinal, readyAt, lastClaimed, claims, admission>>

\* A retryable agent failure with attempts left: the failed attempt and its
\* successor are committed together, so the node is never seen failed.
CompleteRetry(t) ==
  LET n == t[1]  u == NextOf(t) IN
  /\ Kind[n] = "agent"
  /\ ~CompletionIgnored(n)
  /\ t[2] < MaxAttempts[n]
  /\ ordinal[n] = t[2]
  /\ AttemptMay(att[t], "failed")
  /\ NodeMay(node[n], "failed")
  /\ LeaseHeld(t)
  /\ task' = [task EXCEPT ![t] = "failed", ![u] = "ready"]
  /\ expires' = [expires EXCEPT ![t] = 0]
  /\ readyAt' = [readyAt EXCEPT ![u] = now + Backoff(t[2])]
  /\ att' = [att EXCEPT ![t] = "failed", ![u] = "scheduled"]
  /\ node' = [node EXCEPT ![n] = "scheduled"]
  /\ ordinal' = [ordinal EXCEPT ![n] = t[2] + 1]
  /\ UNCHANGED <<now, wf, lastClaimed, ledger, claims, admission>>

CompleteCancelled(t) ==
  LET n == t[1]  w == WorkflowOf[n] IN
  /\ Kind[n] = "agent"
  /\ ~CompletionIgnored(n)
  /\ AttemptMay(att[t], "cancelled")
  /\ NodeMay(node[n], "cancelled")
  /\ n = RootOf[w] => WorkflowMay(wf[w], "cancelled")
  /\ Acknowledge(t, "failed")
  /\ wf' = IF n = RootOf[w] THEN [wf EXCEPT ![w] = "cancelled"] ELSE wf
  /\ att' = [att EXCEPT ![t] = "cancelled"]
  /\ node' = [node EXCEPT ![n] = "cancelled"]
  /\ UNCHANGED <<now, ordinal, readyAt, lastClaimed, ledger, claims, admission>>

MarkUnknown(t) ==
  LET n == t[1] IN
  /\ node[n] # "unknown"
  /\ AttemptMay(att[t], "unknown")
  /\ NodeMay(node[n], "unknown")
  /\ Acknowledge(t, "unknown")
  /\ SettleReservation(t, "unknown")
  /\ att' = [att EXCEPT ![t] = "unknown"]
  /\ node' = [node EXCEPT ![n] = "unknown"]
  /\ UNCHANGED <<now, wf, ordinal, readyAt, lastClaimed, claims, admission>>

CancelClaim(t) ==
  LET n == t[1] IN
  /\ Kind[n] = "agent"
  /\ node[n] \notin {"succeeded", "failed", "cancelled", "manual_intervention"}
  /\ AttemptMay(att[t], "cancelled")
  /\ NodeMay(node[n], "cancelled")
  /\ Acknowledge(t, "cancelled")
  /\ att' = [att EXCEPT ![t] = "cancelled"]
  /\ node' = [node EXCEPT ![n] = "cancelled"]
  /\ UNCHANGED <<now, wf, ordinal, readyAt, lastClaimed, ledger, claims, admission>>

-----------------------------------------------------------------------------
(* Effect reservations.  reserveEffect checks neither the lease nor the     *)
(* state of the attempt that asks.                                          *)

\* Fault: an undecided effect may be executed again.
AnswerAfterUnknown(prior, digest) ==
  IF prior.state = "free" THEN "execute"
  ELSE IF prior.digest # digest THEN "denied"
  ELSE IF prior.state = "committed" THEN "replay"
  ELSE IF prior.state \in {"released", "unknown"} THEN "execute"
  ELSE "denied"

Answer(prior, digest) ==
  IF prior.state = "free" THEN "execute"
  ELSE IF prior.digest # digest THEN "denied"
  ELSE IF prior.state = "committed" THEN "replay"
  ELSE IF prior.state = "released" THEN "execute"
  ELSE "denied"

ReserveEffect(t) ==
  LET n == t[1]  k == IdempotencyKey[n] IN
  /\ t \in claims
  /\ k # NoKey
  /\ admission[t] = "none"
  /\ LET prior  == ledger[k]
         answer == Answer(prior, InputDigest[n])
     IN  /\ admission' = [admission EXCEPT ![t] = answer]
         /\ ledger' = IF answer = "execute"
                      THEN [ledger EXCEPT ![k] = [state  |-> "reserved",
                                                  owner  |-> t,
                                                  digest |-> InputDigest[n]]]
                      ELSE ledger
  /\ UNCHANGED <<now, wf, node, ordinal, att, task, readyAt, expires, lastClaimed, claims>>

-----------------------------------------------------------------------------
(* recoverExpired: every lease past its expiry, in one transaction.  One    *)
(* illegal transition would roll the whole recovery back.                   *)

Expired  == {t \in Attempt : task[t] = "leased" /\ expires[t] <= now}
Safe(n)  == EffectClass[n] \in {"pure", "read", "external_idempotent"}

RecoveryRetries(t) ==
  ~Ended(WorkflowOf[t[1]]) /\ Safe(t[1]) /\ t[2] < MaxAttempts[t[1]]

RecoveryLegal(t) ==
  LET n == t[1] IN
  IF Ended(WorkflowOf[n])
  THEN /\ att[t] \in {"succeeded", "failed", "cancelled", "unknown"}
            \/ AttemptMay(att[t], "cancelled")
       /\ node[n] \in {"succeeded", "failed", "cancelled", "skipped", "unknown", Superseded}
            \/ NodeMay(node[n], "cancelled")
  ELSE /\ AttemptMay(att[t], "unknown")
       /\ NodeMay(node[n], "unknown")
       /\ RecoveryRetries(t) => ordinal[n] = t[2]

RecoveredTask(t) ==
  IF Ended(WorkflowOf[t[1]]) THEN "cancelled"
  ELSE IF Safe(t[1]) THEN "failed" ELSE "unknown"

RecoveredAttempt(t) ==
  IF Ended(WorkflowOf[t[1]])
  THEN IF att[t] \in {"succeeded", "failed", "cancelled", "unknown"} THEN att[t] ELSE "cancelled"
  ELSE IF RecoveryRetries(t) THEN "failed"
  ELSE IF Safe(t[1]) THEN "manual_intervention" ELSE "unknown"

\* Fault: recovery of an ended workflow leaves the node as it is, and so does
\* a recovery that creates no retry.
RecoveredNodeKept(t) ==
  IF ~Ended(WorkflowOf[t[1]]) /\ RecoveryRetries(t) THEN "scheduled" ELSE node[t[1]]

RecoveredNode(t) ==
  IF Ended(WorkflowOf[t[1]])
  THEN IF node[t[1]] \in {"succeeded", "failed", "cancelled", "skipped", "unknown", Superseded}
       THEN node[t[1]] ELSE "cancelled"
  ELSE IF RecoveryRetries(t) THEN "scheduled"
  ELSE IF Safe(t[1]) THEN "manual_intervention" ELSE "unknown"

\* Fault: the reservation is released although no attempt is left.
RecoveryReleasesAlways(k) ==
  /\ ledger[k].state = "reserved"
  /\ ledger[k].owner \in Expired
  /\ EffectClass[ledger[k].owner[1]] = "external_idempotent"

\* The retry inherits a reserved key: the reservation is released for it.
RecoveryReleases(k) ==
  /\ ledger[k].state = "reserved"
  /\ ledger[k].owner \in Expired
  /\ RecoveryRetries(ledger[k].owner)
  /\ EffectClass[ledger[k].owner[1]] = "external_idempotent"

RecoverExpired ==
  LET retried == {NextOf(t) : t \in {u \in Expired : RecoveryRetries(u)}} IN
  /\ Expired # {}
  /\ \A t \in Expired : RecoveryLegal(t)
  /\ task' = [t \in Attempt |-> IF t \in Expired THEN RecoveredTask(t)
                               ELSE IF t \in retried THEN "ready" ELSE task[t]]
  /\ att' = [t \in Attempt |-> IF t \in Expired THEN RecoveredAttempt(t)
                              ELSE IF t \in retried THEN "scheduled" ELSE att[t]]
  /\ node' = [n \in Node |-> IF Last(n) \in Expired THEN RecoveredNode(Last(n)) ELSE node[n]]
  /\ ordinal' = [n \in Node |-> IF NextOf(Last(n)) \in retried THEN ordinal[n] + 1 ELSE ordinal[n]]
  /\ readyAt' = [t \in Attempt |-> IF t \in retried THEN now + Backoff(t[2] - 1) ELSE readyAt[t]]
  /\ expires' = [t \in Attempt |-> IF t \in Expired THEN 0 ELSE expires[t]]
  /\ ledger' = [k \in EffectKey |-> IF RecoveryReleases(k)
                                    THEN [ledger[k] EXCEPT !.state = "released"]
                                    ELSE ledger[k]]
  /\ UNCHANGED <<now, wf, lastClaimed, claims, admission>>

-----------------------------------------------------------------------------
(* The operator: retry-node, resolve-unknown, pause, resume, cancel,        *)
(* terminate.  retryNode does not look at the workflow's state.             *)

RetryNode(n) ==
  LET t == Last(n)  u == NextOf(t) IN
  /\ node[n] = "failed"
  /\ ordinal[n] > 0
  /\ att[t] = "failed"
  /\ ordinal[n] < MaxAttempts[n]
  /\ node' = [node EXCEPT ![n] = "scheduled"]
  /\ ordinal' = [ordinal EXCEPT ![n] = ordinal[n] + 1]
  /\ att' = [att EXCEPT ![u] = "scheduled"]
  /\ task' = [task EXCEPT ![u] = "ready"]
  /\ readyAt' = [readyAt EXCEPT ![u] = now + Backoff(ordinal[n])]
  /\ UNCHANGED <<now, wf, expires, lastClaimed, ledger, claims, admission>>

ResolveUnknown(n, resolution) ==
  LET t == Last(n)  k == IdempotencyKey[n]  keyed == k # NoKey /\ task[t] = "unknown" IN
  /\ node[n] = "unknown"
  /\ ordinal[n] > 0
  /\ att[t] = "unknown"
  /\ resolution = "succeeded" => ~keyed
  /\ resolution = "failed" /\ keyed => ledger[k].owner = t
  /\ node' = [node EXCEPT ![n] = resolution]
  /\ att' = [att EXCEPT ![t] = resolution]
  /\ ledger' = IF resolution = "failed" /\ keyed
               THEN Reserving(k, "released") ELSE ledger
  /\ UNCHANGED <<now, wf, ordinal, task, readyAt, expires, lastClaimed, claims, admission>>

\* Fault: a node a worker holds can be cancelled under it.
CancellableWhileLeased(state) ==
  state \in {"proposed", "admitted", "scheduled", "leased", "retry_wait"}

Cancellable(state) == state \in {"proposed", "admitted", "scheduled", "retry_wait"}

\* cancelNodes: of the nodes asked for, those no worker holds; their attempts
\* are left as they are.
CancelNodes(S) ==
  LET cancelled == {n \in S : Cancellable(node[n])} IN
  /\ cancelled # {}
  /\ node' = [n \in Node |-> IF n \in cancelled THEN "cancelled" ELSE node[n]]
  /\ task' = [t \in Attempt |->
                IF t[1] \in cancelled /\ task[t] = "ready" THEN "cancelled" ELSE task[t]]
  /\ UNCHANGED <<now, wf, ordinal, att, readyAt, expires, lastClaimed, ledger, claims, admission>>

\* supersedeFailedNodes: S leaves the graph once a replacement has succeeded.
Supersede(S) ==
  /\ S # {} /\ S \cap Root = {}
  /\ \A n \in S : node[n] \in {"failed", "cancelled"} /\ Kind[n] # "tool"
  /\ \A e \in Edge : e[1] \in S => e[2] \in S \/ node[e[2]] \in {Absent, Superseded}
  /\ \E r \in Node \ Root : node[r] = "succeeded" /\ \A n \in S : WorkflowOf[n] = WorkflowOf[r]
  /\ node' = [n \in Node |-> IF n \in S THEN Superseded ELSE node[n]]
  /\ UNCHANGED <<now, wf, ordinal, att, task, readyAt, expires, lastClaimed, ledger, claims,
                 admission>>

MoveWorkflow(w, from, to) ==
  /\ wf[w] \in from
  /\ WorkflowMay(wf[w], to)
  /\ wf' = [wf EXCEPT ![w] = to]

Pause(w) ==
  /\ MoveWorkflow(w, {"running", "waiting"}, "paused")
  /\ UNCHANGED <<now, node, ordinal, att, task, readyAt, expires, lastClaimed, ledger,
                 claims, admission>>

Resume(w) ==
  /\ MoveWorkflow(w, {"paused", "waiting"}, "running")
  /\ UNCHANGED <<now, node, ordinal, att, task, readyAt, expires, lastClaimed, ledger,
                 claims, admission>>

\* Tasks keep their state: a leased one is cancelled when its lease expires.
Cancel(w) ==
  /\ wf[w] # Absent
  /\ WorkflowMay(wf[w], "cancelling")
  /\ wf' = [wf EXCEPT ![w] = "cancelled"]
  /\ node' = [n \in Node |->
                IF /\ WorkflowOf[n] = w
                   /\ node[n] \in {"proposed", "admitted", "scheduled", "leased", "running",
                                   "waiting", "retry_wait"}
                THEN "cancelled" ELSE node[n]]
  /\ UNCHANGED <<now, ordinal, att, task, readyAt, expires, lastClaimed, ledger, claims,
                 admission>>

Terminate(w) ==
  /\ ~Ended(w)
  /\ MoveWorkflow(w, WorkflowState, "terminated")
  /\ UNCHANGED <<now, node, ordinal, att, task, readyAt, expires, lastClaimed, ledger,
                 claims, admission>>

-----------------------------------------------------------------------------
(* reconcileWorkflow, and the calls of scheduleReadyNodes and               *)
(* resolveJoinNode a foreground graph makes: each is its own transaction.   *)

\* The non-join nodes reconciliation offers, or those of one foreground graph.
Ordinary(w) == {n \in Descendants(w) : ~IsJoin(n)}

ScheduleReady(w, S) ==
  LET offered == {n \in S : node[n] = "admitted" /\ Readiness(node, n) # "waiting"}
      pruned  == {n \in offered : Readiness(node, n) # "ready"} IN
  /\ ~Ended(w)
  /\ offered # {}
  /\ \A n \in pruned : ordinal[n] > 0 => AttemptMay(att[Last(n)], "cancelled")
  /\ node' = [n \in Node |->
                IF n \notin offered THEN node[n]
                ELSE IF Readiness(node, n) = "ready" THEN "scheduled"
                ELSE IF Readiness(node, n) = "skipped" THEN "skipped" ELSE "failed"]
  /\ att' = [t \in Attempt |->
               IF t[1] \in pruned /\ t = Last(t[1]) THEN "cancelled" ELSE att[t]]
  /\ task' = [t \in Attempt |->
                IF t[1] \in pruned /\ task[t] = "ready" THEN "cancelled" ELSE task[t]]
  /\ UNCHANGED <<now, wf, ordinal, readyAt, expires, lastClaimed, ledger, claims, admission>>

\* A join has no task; it is decided once, from the states of its branches.
ResolveJoin(n) ==
  /\ IsJoin(n)
  /\ node[n] = "admitted"
  /\ Readiness(node, n) # "waiting"
  /\ node' = [node EXCEPT ![n] = IF Readiness(node, n) = "ready" THEN "succeeded"
                                 ELSE IF Readiness(node, n) = "skipped" THEN "skipped" ELSE "failed"]
  /\ UNCHANGED <<now, wf, ordinal, att, task, readyAt, expires, lastClaimed, ledger, claims,
                 admission>>

\* The last transaction of reconcileWorkflow, reached when the two above have
\* nothing left to do.  On a cancelled join resolveJoinNode throws instead.
Settle(w) ==
  LET outcome == Settlement(node, RootOf[w], Descendants(w)) IN
  /\ wf[w] # Absent /\ ~Ended(w)
  /\ \A n \in Ordinary(w) : node[n] = "admitted" => Readiness(node, n) = "waiting"
  /\ \A n \in Descendants(w) \ Ordinary(w) :
        node[n] \in {"succeeded", "failed", "skipped"} \/ Readiness(node, n) = "waiting"
  /\ outcome # "open"
  /\ MoveWorkflow(w, WorkflowState, outcome)
  /\ UNCHANGED <<now, node, ordinal, att, task, readyAt, expires, lastClaimed, ledger,
                 claims, admission>>

Tick ==
  /\ now < MaxTime
  /\ now' = now + 1
  /\ UNCHANGED <<wf, node, ordinal, att, task, readyAt, expires, lastClaimed, ledger, claims,
                 admission>>

-----------------------------------------------------------------------------
Lifecycle ==
  \E w \in Workflow :
     Start(w) \/ Pause(w) \/ Resume(w) \/ Cancel(w) \/ Terminate(w) \/ Settle(w)

Admit ==
  \/ \E n \in Node : AdmitTask(n)
  \/ \E S \in Graph : AdmitAgentGraph(S)

Frontier ==
  \/ \E w \in Workflow : \E S \in Graph \cup {Node} : ScheduleReady(w, S \cap Ordinary(w))
  \/ \E n \in Node : ResolveJoin(n)

Work(t) ==
  \/ Claim(t)
  \/ \E age \in 0 .. HeartbeatAge : age <= now /\ Heartbeat(t, now - age)
  \/ MarkRunning(t)
  \/ ReserveEffect(t)
  \/ CompleteOk(t)
  \/ CompleteFailed(t)
  \/ CompleteRetry(t)
  \/ CompleteCancelled(t)
  \/ MarkUnknown(t)
  \/ CancelClaim(t)

Operator ==
  \/ \E n \in Node : RetryNode(n)
  \/ \E n \in Node : \E r \in {"succeeded", "failed", "manual_intervention"} :
        ResolveUnknown(n, r)
  \/ \E w \in Workflow :
        \/ \E S \in SUBSET {n \in NodesOf(w) : Cancellable(node[n])} : CancelNodes(S)
        \/ \E S \in SUBSET {n \in NodesOf(w) : node[n] \in {"failed", "cancelled"}} : Supersede(S)

Next ==
  \/ Lifecycle
  \/ Admit
  \/ Frontier
  \/ \E t \in Attempt : Work(t)
  \/ RecoverExpired
  \/ Operator
  \/ Tick

Spec == Init /\ [][Next]_vars

-----------------------------------------------------------------------------
(* Properties *)

(***************************************************************************)
(* Occupancy.  claim compares a task with every lease that has not expired; *)
(* heartbeat compares the lease with the worker's timestamp and with no     *)
(* other lease.  ConflictExclusion and CapacityRespected are what claim     *)
(* means to keep; they hold while every heartbeat is stamped at its commit, *)
(* and one that was delayed breaks them.                                    *)
(***************************************************************************)

(***************************************************************************)
(* Two leases that the authority counts as held never share a conflict key. *)
(***************************************************************************)
ConflictExclusion ==
  \A t, u \in LiveLeases : t # u => ConflictKeys[t[1]] \cap ConflictKeys[u[1]] = {}

(***************************************************************************)
(* A capacity group never holds more unexpired agent leases than the limit  *)
(* of any workflow in it, although the workflows may carry different limits *)
(* and each claim only looks once (capacityAvailable).                      *)
(***************************************************************************)
CapacityRespected ==
  \A g \in CapacityGroup : \A u \in InGroup(g) :
     Cardinality(InGroup(g)) <= CapacityLimit[WorkflowOf[u[1]]][g]

\* The leases a delayed heartbeat may bring back: expired, but for a shorter time than
\* a heartbeat can be delayed.
Revivable ==
  {t \in Attempt : task[t] = "leased" /\ expires[t] <= now /\ now < expires[t] + HeartbeatAge}

(***************************************************************************)
(* However claims, heartbeats, expiry, recovery and retries interleave, two *)
(* live leases come to share a conflict key in one way only: a heartbeat    *)
(* that was stamped before its lease expired brings it back, less than      *)
(* HeartbeatAge later, beside the lease that was granted meanwhile.  No     *)
(* claim is granted beside a live lease of its key, one that was brought    *)
(* back included, and nothing else revives a lease (claim, heartbeat).      *)
(***************************************************************************)
SharedKeyIsRevival ==
  [][\A t, u \in LiveLeases' :
       t # u /\ ConflictKeys[t[1]] \cap ConflictKeys[u[1]] # {}
       => {t, u} \subseteq LiveLeases \/ t \in Revivable \/ u \in Revivable]_vars

(***************************************************************************)
(* The same of capacity: a step that leaves a group above the limit of any  *)
(* workflow with a lease in it has added no lease to it, or brought one     *)
(* back.  A group in excess hands out no further lease, whichever workflow  *)
(* asks and whatever its own limit (capacityAvailable).                     *)
(***************************************************************************)
ExcessIsRevival ==
  [][\A g \in CapacityGroup : \A u \in InGroup(g)' :
       \/ Cardinality(InGroup(g)') <= CapacityLimit[WorkflowOf[u[1]]][g]
       \/ InGroup(g)' \subseteq InGroup(g)
       \/ InGroup(g)' \cap Revivable # {}]_vars

(***************************************************************************)
(* A leased task is the latest attempt of its node, and the node and the    *)
(* attempt agree on how far it is; only the end of the workflow may take    *)
(* the node away.  The rows are written by different transactions of the    *)
(* worker, the operator and recovery.                                       *)
(***************************************************************************)
LeaseAgreement ==
  \A t \in Attempt : task[t] = "leased" =>
     /\ t \in claims
     /\ t = Last(t[1])
     /\ att[t] \in {"leased", "running"}
     /\ \/ node[t[1]] = att[t]
        \/ Ended(WorkflowOf[t[1]]) /\ node[t[1]] \in {"cancelled", Superseded}

(***************************************************************************)
(* A node that is shown as leased or running has a leased task, so expiry   *)
(* will find it: no transaction leaves a node held by nobody.               *)
(***************************************************************************)
NoOrphanRunning ==
  \A n \in Node : node[n] \in {"leased", "running"} =>
     \E t \in Attempt : t[1] = n /\ task[t] = "leased"

(***************************************************************************)
(* Once a node has a later attempt, the earlier ones have failed and their  *)
(* tasks can neither be claimed nor acknowledged: a node is executed by at  *)
(* most one attempt at a time.                                              *)
(***************************************************************************)
OldAttemptsClosed ==
  \A t \in Attempt : t[2] < ordinal[t[1]] =>
     att[t] = "failed" /\ task[t] \notin {"ready", "leased"}

(***************************************************************************)
(* The rows of leases tell one story through claim, complete, expiry,       *)
(* recoverExpired, retryNode and cancellation: a lease has its node, a held *)
(* node its lease, and nobody else may work on it.                          *)
(***************************************************************************)
LeasesSound == LeaseAgreement /\ NoOrphanRunning /\ OldAttemptsClosed

(***************************************************************************)
(* What the three properties above need to be inductive: nothing exists     *)
(* before it is admitted, and a task that may be claimed belongs to an      *)
(* attempt that may be leased.                                              *)
(***************************************************************************)
HistoryShape ==
  /\ \A n \in Node : wf[WorkflowOf[n]] = Absent => node[n] = Absent
  /\ \A n \in Node : node[n] = Absent => ordinal[n] = 0
  /\ \A t \in Attempt : t[2] > ordinal[t[1]] => att[t] = Absent /\ task[t] = Absent
  /\ \A t \in Attempt : task[t] = "ready" => att[t] = "scheduled"

(***************************************************************************)
(* recoverExpired handles every expired lease in one transaction and rolls  *)
(* all of it back on one illegal transition; no leased task may be in a     *)
(* state that would make it do so.                                          *)
(***************************************************************************)
RecoveryNeverPoisoned ==
  \A t \in Attempt : task[t] = "leased" => RecoveryLegal(t)

(***************************************************************************)
(* A workflow that was reported as completed has no task in a worker's      *)
(* hands, nor can one be claimed in it again.                               *)
(***************************************************************************)
NoWorkAfterCompletion ==
  \A t \in Attempt : wf[WorkflowOf[t[1]]] = "completed" => task[t] # "leased"

(***************************************************************************)
(* The reservation of an idempotency key agrees with the attempt that owns  *)
(* it: a commit belongs to a success, a release to a failure, and an        *)
(* undecided outcome stays with an undecided attempt.                       *)
(***************************************************************************)
LedgerSound ==
  \A k \in EffectKey :
     LET owner == ledger[k].owner IN
     /\ ledger[k].state = "committed" => owner # NoOwner /\ att[owner] = "succeeded"
     /\ ledger[k].state = "released" => owner # NoOwner /\ att[owner] = "failed"
     /\ ledger[k].state = "unknown" =>
          owner # NoOwner /\ att[owner] \in {"unknown", "manual_intervention"}

(***************************************************************************)
(* Of the attempts reserveEffect told to execute under one key, all but one *)
(* have failed, and none that was told to replay did so without a committed *)
(* result for the same input.                                               *)
(***************************************************************************)
OneExecutor ==
  /\ \A t, u \in {v \in Attempt : admission[v] = "execute"} :
        t # u /\ IdempotencyKey[t[1]] = IdempotencyKey[u[1]]
        => att[t] = "failed" \/ att[u] = "failed"
  /\ \A t \in Attempt : admission[t] = "replay" =>
        LET prior == ledger[IdempotencyKey[t[1]]]
        IN  prior.state = "committed" /\ prior.digest = InputDigest[t[1]]

(***************************************************************************)
(* A join that has succeeded has its quorum of succeeded branches, whatever *)
(* was retried, cancelled, superseded or recovered since.                   *)
(***************************************************************************)
JoinJustified ==
  \A n \in Node : Counts(n) /\ node[n] = "succeeded" =>
     Cardinality({e \in Incoming(n) : node[e[1]] = "succeeded"}) >= JoinMinimum[n]

(***************************************************************************)
(* A node that has left admission towards execution, and a join of all that *)
(* has succeeded, has every unconditional dependency succeeded or skipped,  *)
(* and at least one of them succeeded.                                      *)
(***************************************************************************)
DependenciesRespected ==
  \A n \in Node :
     /\ Incoming(n) # {} /\ ~Counts(n)
     /\ node[n] \in {"scheduled", "leased", "running", "succeeded", "unknown"}
     => /\ \A e \in Incoming(n) :
             EdgeStatus[e] = NoCondition => node[e[1]] \in {"succeeded", "skipped"}
        /\ \E e \in Incoming(n) : node[e[1]] = "succeeded"
=============================================================================
