----------------------- MODULE WorkflowAuthorityProofs -----------------------
(***************************************************************************)
(* Machine-checked proofs about WorkflowAuthority, for every set of nodes,  *)
(* workflows, conflict keys and effect keys and every value of the bounds.  *)
(***************************************************************************)
EXTENDS WorkflowAuthority, FiniteSetTheorems, TLAPS

(***************************************************************************)
(* An attempt is a pair of a node and one of its ordinals.                  *)
(***************************************************************************)
LEMMA AttemptPair ==
  ASSUME NEW t \in Attempt
  PROVE  /\ t[1] \in Node
         /\ t[2] \in 1 .. MaxAttempts[t[1]]
         /\ t = <<t[1], t[2]>>
  BY DEF Attempt

LEMMA AttemptIntro ==
  ASSUME NEW n \in Node, NEW k \in 1 .. MaxAttempts[n]
  PROVE  <<n, k>> \in Attempt
  BY DEF Attempt

LEMMA BackoffType == \A k : Backoff(k) \in Nat
  BY AuthorityAssumption DEF Backoff, AuthorityAssumption

-----------------------------------------------------------------------------
(* Type correctness *)

LEMMA ReservationState ==
  ASSUME TypeOK, NEW k, NEW state \in {"free", "reserved", "committed", "released", "unknown"}
  PROVE  /\ Reserving(k, state) \in [EffectKey -> Reservation]
         /\ \A j \in EffectKey : [ledger[j] EXCEPT !.state = state] \in Reservation
<1>1. ledger \in [EffectKey -> Reservation]
  BY DEF TypeOK
<1>2. \A r \in Reservation : [r EXCEPT !.state = state] \in Reservation
  BY DEF Reservation
<1> QED
  BY <1>1, <1>2 DEF Reserving

LEMMA TypeInit == Init => TypeOK
  BY AuthorityAssumption, GraphAssumption
  DEF Init, TypeOK, AuthorityAssumption, GraphAssumption, Reservation, Admission

(***************************************************************************)
(* Each action of the authority keeps every row in its column's type.       *)
(***************************************************************************)
LEMMA TypeNext == TypeOK /\ [Next]_vars => TypeOK'
<1> SUFFICES ASSUME TypeOK, [Next]_vars PROVE TypeOK'
  OBVIOUS
<1> USE AuthorityAssumption DEF AuthorityAssumption, TypeOK, WorkflowState, NodeState, AttemptState,
      TaskState
<1>1. ASSUME NEW w \in Workflow, Start(w) PROVE TypeOK'
  BY <1>1 DEF Start, Create
<1>2. ASSUME NEW w \in Workflow, Pause(w) PROVE TypeOK'
  BY <1>2 DEF Pause, MoveWorkflow
<1>3. ASSUME NEW w \in Workflow, Resume(w) PROVE TypeOK'
  BY <1>3 DEF Resume, MoveWorkflow
<1>4. ASSUME NEW w \in Workflow, Cancel(w) PROVE TypeOK'
  BY <1>4 DEF Cancel
<1>5. ASSUME NEW w \in Workflow, Terminate(w) PROVE TypeOK'
  BY <1>5 DEF Terminate, MoveWorkflow
<1>6. ASSUME NEW w \in Workflow, Settle(w) PROVE TypeOK'
  BY <1>6 DEF Settle, MoveWorkflow, Settlement
<1>7. ASSUME NEW n \in Node, AdmitTask(n) PROVE TypeOK'
  BY <1>7 DEF AdmitTask, Create
<1>8. ASSUME NEW S \in Graph, AdmitAgentGraph(S) PROVE TypeOK'
  BY <1>8 DEF AdmitAgentGraph, Create
<1>9. ASSUME NEW w \in Workflow, NEW S, ScheduleReady(w, S) PROVE TypeOK'
  BY <1>9 DEF ScheduleReady
<1>10. ASSUME NEW n \in Node, ResolveJoin(n) PROVE TypeOK'
  BY <1>10 DEF ResolveJoin
<1>11. ASSUME NEW t \in Attempt, Claim(t) PROVE TypeOK'
  <2>1. now + LeaseTime \in Nat
    OBVIOUS
  <2> QED
    BY <1>11, <2>1, ZenonT(60) DEF Claim
<1>12. ASSUME NEW t \in Attempt, NEW at \in Nat, Heartbeat(t, at) PROVE TypeOK'
  BY <1>12 DEF Heartbeat
<1>13. ASSUME NEW t \in Attempt, MarkRunning(t) PROVE TypeOK'
  BY <1>13 DEF MarkRunning
<1>14. ASSUME NEW t \in Attempt, ReserveEffect(t) PROVE TypeOK'
  BY <1>14, AttemptPair DEF ReserveEffect, Answer, Reservation, Admission
<1>15. ASSUME NEW t \in Attempt, CompleteOk(t) PROVE TypeOK'
  <2>1. ledger' \in [EffectKey -> Reservation]
    BY <1>15, ReservationState DEF CompleteOk, SettleReservation
  <2> QED
    BY <1>15, <2>1 DEF CompleteOk, Acknowledge
<1>16. ASSUME NEW t \in Attempt, CompleteFailed(t) PROVE TypeOK'
  <2>1. ledger' \in [EffectKey -> Reservation]
    BY <1>16, ReservationState DEF CompleteFailed, SettleReservation
  <2> QED
    BY <1>16, <2>1, ZenonT(60) DEF CompleteFailed, Acknowledge
<1>17. ASSUME NEW t \in Attempt, CompleteRetry(t) PROVE TypeOK'
  <2>1. t[2] + 1 \in Nat /\ now + Backoff(t[2]) \in Nat
    BY AttemptPair, BackoffType
  <2> QED
    BY <1>17, <2>1 DEF CompleteRetry
<1>18. ASSUME NEW t \in Attempt, CompleteCancelled(t) PROVE TypeOK'
  BY <1>18 DEF CompleteCancelled, Acknowledge
<1>19. ASSUME NEW t \in Attempt, MarkUnknown(t) PROVE TypeOK'
  <2>1. ledger' \in [EffectKey -> Reservation]
    BY <1>19, ReservationState DEF MarkUnknown, SettleReservation
  <2> QED
    BY <1>19, <2>1 DEF MarkUnknown, Acknowledge
<1>20. ASSUME NEW t \in Attempt, CancelClaim(t) PROVE TypeOK'
  BY <1>20 DEF CancelClaim, Acknowledge
<1>21. ASSUME RecoverExpired PROVE TypeOK'
  <2>1. ledger' \in [EffectKey -> Reservation]
    BY <1>21, ReservationState DEF RecoverExpired
  <2>2. \A t \in Attempt : now + Backoff(t[2] - 1) \in Nat
    BY BackoffType
  <2>3. /\ readyAt' \in [Attempt -> Nat]
        /\ expires' \in [Attempt -> Nat]
        /\ ordinal' \in [Node -> Nat]
    BY <1>21, <2>2 DEF RecoverExpired
  <2>4. \A t \in Attempt : RecoveredTask(t) \in TaskState
    BY DEF RecoveredTask
  <2>5. \A t \in Attempt : RecoveredAttempt(t) \in AttemptState \cup {Absent}
    BY DEF RecoveredAttempt
  <2>6. \A n \in Node : Last(n) \in Expired => RecoveredNode(Last(n)) \in NodeState \cup {Absent, Superseded}
    BY DEF RecoveredNode, Last
  <2>7. /\ task' \in [Attempt -> TaskState \cup {Absent}]
        /\ att' \in [Attempt -> AttemptState \cup {Absent}]
        /\ node' \in [Node -> NodeState \cup {Absent, Superseded}]
    BY <1>21, <2>4, <2>5, <2>6 DEF RecoverExpired
  <2> QED
    BY <1>21, <2>1, <2>3, <2>7 DEF RecoverExpired
<1>22. ASSUME NEW n \in Node, RetryNode(n) PROVE TypeOK'
  <2>1. ordinal[n] + 1 \in Nat /\ now + Backoff(ordinal[n]) \in Nat
    BY BackoffType
  <2> QED
    BY <1>22, <2>1 DEF RetryNode
<1>23. ASSUME NEW n \in Node, NEW r \in {"succeeded", "failed", "manual_intervention"},
            ResolveUnknown(n, r) PROVE TypeOK'
  <2>1. ledger' \in [EffectKey -> Reservation]
    BY <1>23, ReservationState DEF ResolveUnknown
  <2> QED
    BY <1>23, <2>1 DEF ResolveUnknown
<1>24. ASSUME NEW S, CancelNodes(S) PROVE TypeOK'
  BY <1>24 DEF CancelNodes
<1>25. ASSUME NEW S, Supersede(S) PROVE TypeOK'
  BY <1>25 DEF Supersede
<1>26. ASSUME Tick PROVE TypeOK'
  BY <1>26 DEF Tick
<1>27. ASSUME UNCHANGED vars PROVE TypeOK'
  BY <1>27 DEF vars
<1>28. ASSUME NEW t \in Attempt, Work(t) PROVE TypeOK'
  <2>1. ASSUME NEW age \in 0 .. HeartbeatAge, age <= now, Heartbeat(t, now - age) PROVE TypeOK'
    <3>1. now - age \in Nat
      BY <2>1
    <3> QED
      BY <2>1, <3>1, <1>12
  <2> QED
    BY <1>28, <2>1, <1>11, <1>13, <1>14, <1>15, <1>16, <1>17, <1>18, <1>19, <1>20 DEF Work
<1> HIDE DEF TypeOK
<1>29. CASE Lifecycle
  BY <1>29, <1>1, <1>2, <1>3, <1>4, <1>5, <1>6 DEF Lifecycle
<1>30. CASE Admit
  BY <1>30, <1>7, <1>8 DEF Admit
<1>31. CASE Frontier
  BY <1>31, <1>9, <1>10 DEF Frontier
<1>32. CASE Operator
  BY <1>32, <1>22, <1>23, <1>24, <1>25 DEF Operator
<1> QED
  BY <1>21, <1>26, <1>27, <1>28, <1>29, <1>30, <1>31, <1>32 DEF Next

(***************************************************************************)
(* Type correctness: every row the authority can write is of its column's   *)
(* declared type, whatever the graph and the bounds.                        *)
(***************************************************************************)
THEOREM TypeCorrect == Spec => []TypeOK
  BY TypeInit, TypeNext, PTL DEF Spec

-----------------------------------------------------------------------------
(* Conflict keys *)

(***************************************************************************)
(* Only a claim makes a lease live, or a heartbeat that was delayed and     *)
(* finds a lease that expired meanwhile: every other step leaves the live   *)
(* leases as they are or takes some away.                                   *)
(***************************************************************************)
LEMMA OnlyClaimAddsLeases ==
  ASSUME TypeOK, [Next]_vars, \A t \in Attempt : ~Claim(t)
  PROVE  LiveLeases' \subseteq LiveLeases \cup Revivable
<1> USE DEF TypeOK, LiveLeases
<1>1. ASSUME NEW w \in Workflow, Start(w)
      PROVE  LiveLeases' \subseteq LiveLeases
  BY <1>1 DEF Start, Create
<1>2. ASSUME NEW w \in Workflow, Pause(w) \/ Resume(w) \/ Terminate(w) \/ Settle(w) \/ Cancel(w)
      PROVE  LiveLeases' \subseteq LiveLeases
  BY <1>2 DEF Pause, Resume, Terminate, Settle, Cancel
<1>3. ASSUME NEW n \in Node, AdmitTask(n)
      PROVE  LiveLeases' \subseteq LiveLeases
  BY <1>3 DEF AdmitTask, Create
<1>4. ASSUME NEW S \in Graph, AdmitAgentGraph(S)
      PROVE  LiveLeases' \subseteq LiveLeases
  BY <1>4 DEF AdmitAgentGraph, Create
<1>5. ASSUME NEW w \in Workflow, NEW S, ScheduleReady(w, S)
      PROVE  LiveLeases' \subseteq LiveLeases
  BY <1>5 DEF ScheduleReady
<1>6. ASSUME NEW n \in Node, ResolveJoin(n)
      PROVE  LiveLeases' \subseteq LiveLeases
  BY <1>6 DEF ResolveJoin
<1>7. ASSUME NEW t \in Attempt, MarkRunning(t) \/ ReserveEffect(t)
      PROVE  LiveLeases' \subseteq LiveLeases
  BY <1>7 DEF MarkRunning, ReserveEffect
<1>8. ASSUME NEW t \in Attempt,
            CompleteOk(t) \/ CompleteFailed(t) \/ CompleteCancelled(t) \/ MarkUnknown(t) \/ CancelClaim(t)
      PROVE  LiveLeases' \subseteq LiveLeases
  BY <1>8 DEF CompleteOk, CompleteFailed, CompleteCancelled, MarkUnknown, CancelClaim, Acknowledge
<1>9. ASSUME NEW t \in Attempt, CompleteRetry(t)
      PROVE  LiveLeases' \subseteq LiveLeases
  BY <1>9 DEF CompleteRetry
<1>10. ASSUME RecoverExpired
      PROVE  LiveLeases' \subseteq LiveLeases
  BY <1>10 DEF RecoverExpired, RecoveredTask
<1>11. ASSUME NEW n \in Node, RetryNode(n)
      PROVE  LiveLeases' \subseteq LiveLeases
  BY <1>11 DEF RetryNode
<1>12. ASSUME NEW n \in Node, NEW r, ResolveUnknown(n, r)
      PROVE  LiveLeases' \subseteq LiveLeases
  BY <1>12 DEF ResolveUnknown
<1>13. ASSUME NEW S, CancelNodes(S) \/ Supersede(S)
      PROVE  LiveLeases' \subseteq LiveLeases
  BY <1>13 DEF CancelNodes, Supersede
<1>14. ASSUME Tick
      PROVE  LiveLeases' \subseteq LiveLeases
  BY <1>14 DEF Tick
<1>15. ASSUME UNCHANGED vars
      PROVE  LiveLeases' \subseteq LiveLeases
  BY <1>15 DEF vars
<1>16. ASSUME NEW t \in Attempt, NEW age \in 0 .. HeartbeatAge, Heartbeat(t, now - age)
       PROVE  LiveLeases' \subseteq LiveLeases \cup Revivable
  <2>1. /\ task' = task /\ now' = now /\ task[t] = "leased" /\ expires[t] > now - age
        /\ \A u \in Attempt \ {t} : expires'[u] = expires[u]
    BY <1>16 DEF Heartbeat
  <2>2. HeartbeatAge \in Nat
    BY AuthorityAssumption DEF AuthorityAssumption
  <2>3. expires[t] <= now => now < expires[t] + HeartbeatAge
    BY <2>1, <2>2
  <2>4. t \in LiveLeases \cup Revivable
    BY <2>1, <2>3 DEF Revivable
  <2> QED
    BY <2>1, <2>4
<1> HIDE DEF TypeOK, LiveLeases
<1>17. ASSUME NEW t \in Attempt, Work(t) PROVE LiveLeases' \subseteq LiveLeases \cup Revivable
  BY <1>17, <1>7, <1>8, <1>9, <1>16 DEF Work
<1>18. CASE Lifecycle
  BY <1>18, <1>1, <1>2 DEF Lifecycle
<1>19. CASE Admit
  BY <1>19, <1>3, <1>4 DEF Admit
<1>20. CASE Frontier
  BY <1>20, <1>5, <1>6 DEF Frontier
<1>21. CASE Operator
  BY <1>21, <1>11, <1>12, <1>13 DEF Operator
<1> QED
  BY <1>10, <1>14, <1>15, <1>17, <1>18, <1>19, <1>20, <1>21 DEF Next

LEMMA ClaimExcludes ==
  ASSUME TypeOK, NEW t \in Attempt, Claim(t),
         NEW u \in LiveLeases', NEW v \in LiveLeases', u # v,
         ConflictKeys[u[1]] \cap ConflictKeys[v[1]] # {}
  PROVE  {u, v} \subseteq LiveLeases
<1>1. LiveLeases' \subseteq LiveLeases \cup {t}
  BY DEF TypeOK, Claim, LiveLeases
<1>2. \A w \in LiveLeases : ConflictKeys[w[1]] \cap ConflictKeys[t[1]] = {}
  BY DEF Claim, NoConflict
<1> QED
  BY <1>1, <1>2

(***************************************************************************)
(* Exclusion of conflict keys, for every graph, every assignment of keys,   *)
(* every clock and every delay of the heartbeats: a claim is never granted  *)
(* beside a live lease of its key, and a shared key is the work of a        *)
(* delayed heartbeat.                                                       *)
(***************************************************************************)
THEOREM SharedKeysAreRevivals == Spec => SharedKeyIsRevival
<1>1. TypeOK /\ [Next]_vars =>
        [\A t, u \in LiveLeases' :
           t # u /\ ConflictKeys[t[1]] \cap ConflictKeys[u[1]] # {}
           => {t, u} \subseteq LiveLeases \/ t \in Revivable \/ u \in Revivable]_vars
  <2> SUFFICES ASSUME TypeOK, [Next]_vars, NEW t \in LiveLeases', NEW u \in LiveLeases', t # u,
                      ConflictKeys[t[1]] \cap ConflictKeys[u[1]] # {}
               PROVE  {t, u} \subseteq LiveLeases \/ t \in Revivable \/ u \in Revivable
    OBVIOUS
  <2>1. CASE \E v \in Attempt : Claim(v)
    BY <2>1, ClaimExcludes
  <2>2. CASE \A v \in Attempt : ~Claim(v)
    BY <2>2, OnlyClaimAddsLeases
  <2> QED
    BY <2>1, <2>2
<1> QED
  BY <1>1, TypeCorrect, PTL DEF Spec, SharedKeyIsRevival

(***************************************************************************)
(* What claim means to keep, and does while every heartbeat carries the     *)
(* time of its commit: nothing is revived then.  The hypothesis is needed,  *)
(* as the model checker shows of capacity with a heartbeat of age one.      *)
(***************************************************************************)
THEOREM PunctualKeysExclude ==
  ASSUME HeartbeatAge = 0
  PROVE  Spec => []ConflictExclusion
<1>1. Init => ConflictExclusion
  BY DEF Init, ConflictExclusion, LiveLeases
<1>2. ConflictExclusion /\ TypeOK /\ [Next]_vars => ConflictExclusion'
  <2> SUFFICES ASSUME ConflictExclusion, TypeOK, [Next]_vars PROVE ConflictExclusion'
    OBVIOUS
  <2>1. CASE \E t \in Attempt : Claim(t)
    <3> SUFFICES ASSUME NEW u \in LiveLeases', NEW v \in LiveLeases', u # v
                 PROVE  ConflictKeys[u[1]] \cap ConflictKeys[v[1]] = {}
      BY DEF ConflictExclusion
    <3> QED
      BY <2>1, ClaimExcludes DEF ConflictExclusion
  <2>2. CASE \A t \in Attempt : ~Claim(t)
    <3>1. Revivable = {}
      BY DEF Revivable, TypeOK
    <3>2. LiveLeases' \subseteq LiveLeases
      BY <2>2, <3>1, OnlyClaimAddsLeases
    <3> QED
      BY <3>2 DEF ConflictExclusion
  <2> QED
    BY <2>1, <2>2
<1> QED
  BY <1>1, <1>2, TypeCorrect, PTL DEF Spec

-----------------------------------------------------------------------------
(* Leases, attempts and nodes *)

LeaseInv ==
  /\ TypeOK
  /\ HistoryShape
  /\ LeaseAgreement
  /\ NoOrphanRunning
  /\ OldAttemptsClosed

\* The rows of the transition tables the argument depends on.
LEMMA NodeTable ==
  /\ \A s : NodeMay(s, "running") => s = "leased"
  /\ \A s \in {"leased", "running"} : NodeMay(s, "unknown") /\ NodeMay(s, "cancelled")
<1>1. \A s \in NodeState : "running" \in NodeTransitions[s] => s = "leased"
  BY DEF NodeState, NodeTransitions
<1>2. \A s \in {"leased", "running"} :
        s \in NodeState /\ "unknown" \in NodeTransitions[s] /\ "cancelled" \in NodeTransitions[s]
  BY DEF NodeState, NodeTransitions
<1> QED
  BY <1>1, <1>2 DEF NodeMay

LEMMA AttemptTable ==
  /\ \A s : AttemptMay(s, "running") => s \in {"leased", "waiting"}
  /\ \A s \in {"leased", "running"} : AttemptMay(s, "unknown") /\ AttemptMay(s, "cancelled")
<1>1. \A s \in AttemptState : "running" \in AttemptTransitions[s] => s \in {"leased", "waiting"}
  BY DEF AttemptState, AttemptTransitions
<1>2. \A s \in {"leased", "running"} : s \in AttemptState
  BY DEF AttemptState
<1>3. {"unknown", "cancelled"} \subseteq AttemptTransitions["leased"]
  BY DEF AttemptTransitions
<1>4. {"unknown", "cancelled"} \subseteq AttemptTransitions["running"]
  BY DEF AttemptTransitions
<1> QED
  BY <1>1, <1>2, <1>3, <1>4 DEF AttemptMay

LEMMA WorkflowTable == \A s \in TerminalWorkflow : \A r : ~WorkflowMay(s, r)
<1>1. \A s \in TerminalWorkflow : WorkflowTransitions[s] = {}
  BY DEF TerminalWorkflow, WorkflowTransitions
<1> QED
  BY <1>1 DEF WorkflowMay

LEMMA LeaseInit == Init => LeaseInv
<1> SUFFICES ASSUME Init PROVE LeaseInv
  OBVIOUS
<1>1. \A t \in Attempt : t[1] \in Node /\ t[2] \in Nat /\ t[2] > 0
  BY AttemptPair, AuthorityAssumption DEF AuthorityAssumption
<1>2. \A n \in Node : node[n] = Absent /\ ordinal[n] = 0
  BY DEF Init
<1>3. \A t \in Attempt : task[t] = Absent /\ att[t] = Absent
  BY DEF Init
<1>4. HistoryShape
  BY <1>1, <1>2, <1>3 DEF HistoryShape, Absent
<1>5. LeaseAgreement /\ NoOrphanRunning /\ OldAttemptsClosed
  BY <1>1, <1>2, <1>3 DEF LeaseAgreement, NoOrphanRunning, OldAttemptsClosed, Absent
<1> QED
  BY <1>4, <1>5, TypeInit DEF LeaseInv

(***************************************************************************)
(* A workflow that has ended stays ended, and one that exists stays.        *)
(***************************************************************************)
LEMMA WorkflowMonotone ==
  ASSUME TypeOK, [Next]_vars, NEW w \in Workflow
  PROVE  /\ wf'[w] = Absent => wf[w] = Absent
         /\ Ended(w) => Ended(w)'
<1> DEFINE Kept == (wf'[w] = Absent => wf[w] = Absent) /\ (Ended(w) => Ended(w)')
<1> SUFFICES Kept
  OBVIOUS
<1> USE DEF TypeOK, Ended, TerminalWorkflow, Absent
<1>1. CASE UNCHANGED wf
  BY <1>1
<1>2. ASSUME NEW v \in Workflow, NEW r, r # Absent, wf[v] \notin TerminalWorkflow,
             wf' = [wf EXCEPT ![v] = r]
      PROVE  Kept
  BY <1>2
<1>3. ASSUME NEW v \in Workflow, Start(v) PROVE Kept
  BY <1>3, <1>2 DEF Start
<1>4. ASSUME NEW v \in Workflow, Pause(v) \/ Resume(v) \/ Terminate(v) PROVE Kept
  BY <1>4, <1>2, WorkflowTable DEF Pause, Resume, Terminate, MoveWorkflow
<1>5. ASSUME NEW v \in Workflow, Settle(v) PROVE Kept
  BY <1>5, <1>2, WorkflowTable DEF Settle, MoveWorkflow, Settlement
<1>6. ASSUME NEW v \in Workflow, Cancel(v) PROVE Kept
  BY <1>6, <1>2, WorkflowTable DEF Cancel
<1>7. ASSUME NEW t \in Attempt, CompleteFailed(t) PROVE Kept
  <2>1. t[1] \in Node /\ WorkflowOf[t[1]] \in Workflow
    BY AttemptPair, AuthorityAssumption DEF AuthorityAssumption
  <2> QED
    BY <1>7, <1>1, <1>2, <2>1, WorkflowTable DEF CompleteFailed
<1>8. ASSUME NEW t \in Attempt, CompleteCancelled(t) PROVE Kept
  <2>1. t[1] \in Node /\ WorkflowOf[t[1]] \in Workflow
    BY AttemptPair, AuthorityAssumption DEF AuthorityAssumption
  <2> QED
    BY <1>8, <1>1, <1>2, <2>1, WorkflowTable DEF CompleteCancelled
<1> HIDE DEF Kept, TypeOK, Ended, TerminalWorkflow, Absent
<1>9. ASSUME NEW t \in Attempt, Work(t) PROVE Kept
  BY <1>9, <1>1, <1>7, <1>8 DEF Work, Claim, Heartbeat, MarkRunning, ReserveEffect, CompleteOk,
     CompleteRetry, MarkUnknown, CancelClaim
<1>10. CASE Lifecycle
  BY <1>10, <1>3, <1>4, <1>5, <1>6 DEF Lifecycle
<1>11. CASE Admit
  BY <1>11, <1>1 DEF Admit, AdmitTask, AdmitAgentGraph
<1>12. CASE Frontier
  BY <1>12, <1>1 DEF Frontier, ScheduleReady, ResolveJoin
<1>13. CASE Operator
  BY <1>13, <1>1 DEF Operator, RetryNode, ResolveUnknown, CancelNodes, Supersede
<1>14. CASE RecoverExpired \/ Tick \/ UNCHANGED vars
  BY <1>14, <1>1 DEF RecoverExpired, Tick, vars
<1> QED
  BY <1>9, <1>10, <1>11, <1>12, <1>13, <1>14 DEF Next

(***************************************************************************)
(* The invariant in coordinates: t is the latest attempt of its node when   *)
(* its ordinal is the node's.                                               *)
(***************************************************************************)
Held(t) ==
  /\ t \in claims
  /\ t[2] = ordinal[t[1]]
  /\ att[t] \in {"leased", "running"}
  /\ \/ node[t[1]] = att[t]
     \/ Ended(WorkflowOf[t[1]]) /\ node[t[1]] \in {"cancelled", Superseded}

HeldRows == \A t \in Attempt : task[t] = "leased" => Held(t)

Rows == HistoryShape /\ HeldRows /\ NoOrphanRunning /\ OldAttemptsClosed

LEMMA Coordinates == \A t, u \in Attempt : t[1] = u[1] /\ t[2] = u[2] => t = u
  BY AttemptPair

LEMMA BelowNext == \A a, b \in Nat : a < b + 1 /\ a # b => a < b
  OBVIOUS

LEMMA AboveGrown == \A a, b, c \in Nat : a > c /\ (c = b \/ c = b + 1) => a > b
  OBVIOUS

LEMMA RowsForm ==
  ASSUME TypeOK
  PROVE  LeaseInv <=> Rows
<1>1. \A t \in Attempt : t = Last(t[1]) <=> t[2] = ordinal[t[1]]
  BY AttemptPair DEF Last
<1> QED
  BY <1>1 DEF LeaseInv, Rows, HeldRows, Held, LeaseAgreement

LEMMA RowsNext ==
  ASSUME TypeOK, TypeOK', Rows, [Next]_vars
  PROVE  Rows'
<1>0. /\ \A n \in Node : WorkflowOf[n] \in Workflow
      /\ \A t \in Attempt : t[1] \in Node /\ t[2] \in Nat /\ t[2] >= 1
  BY AttemptPair, AuthorityAssumption DEF AuthorityAssumption
<1>00. \A w \in Workflow : (wf'[w] = Absent => wf[w] = Absent) /\ (Ended(w) => Ended(w)')
  BY WorkflowMonotone
<1>01. ASSUME NEW t \in Attempt, task[t] = "ready" \/ att[t] \notin {Absent, "failed"}
       PROVE  t[2] = ordinal[t[1]]
  <2>1. ordinal[t[1]] \in Nat /\ t[2] \in Nat
    BY <1>0 DEF TypeOK
  <2>2. ~(t[2] > ordinal[t[1]])
    BY <1>01 DEF Rows, HistoryShape, Absent
  <2>3. ~(t[2] < ordinal[t[1]])
    BY <1>01 DEF Rows, OldAttemptsClosed
  <2> QED
    BY <2>1, <2>2, <2>3
<1> USE <1>0, <1>00, Coordinates
    DEF Rows, TypeOK, Held, HeldRows, HistoryShape, NoOrphanRunning, OldAttemptsClosed
<1>1. ASSUME UNCHANGED <<node, ordinal, att, task, claims>> PROVE Rows'
  BY <1>1 DEF Last, Absent, Superseded
<1>2. ASSUME NEW w \in Workflow, Start(w) PROVE Rows'
  <2>1. RootOf[w] \in Node /\ WorkflowOf[RootOf[w]] = w /\ Kind[RootOf[w]] # "decision"
    BY AuthorityAssumption DEF AuthorityAssumption
  <2> QED
    BY <1>2, <2>1 DEF Start, Create, Absent, Superseded
<1>3. ASSUME NEW w \in Workflow, Cancel(w) PROVE Rows'
  BY <1>3 DEF Cancel, Ended, TerminalWorkflow, Absent, Superseded
<1>4. ASSUME NEW n \in Node, AdmitTask(n) PROVE Rows'
  BY <1>4 DEF AdmitTask, Create, Absent, Superseded
<1>5. ASSUME NEW S \in Graph, AdmitAgentGraph(S) PROVE Rows'
  BY <1>5 DEF AdmitAgentGraph, Create, Absent, Superseded
<1>6. ASSUME NEW w \in Workflow, NEW S, ScheduleReady(w, S) PROVE Rows'
  BY <1>6 DEF ScheduleReady, Last, Absent, Superseded
<1>7. ASSUME NEW n \in Node, ResolveJoin(n) PROVE Rows'
  BY <1>7 DEF ResolveJoin, Absent, Superseded
<1>8. ASSUME NEW t \in Attempt, Claim(t) PROVE Rows'
  <2>1. t[2] = ordinal[t[1]] /\ att[t] = "scheduled"
    BY <1>8, <1>01 DEF Claim, Candidate
  <2>2. \A u \in Attempt : u[1] = t[1] => task[u] # "leased"
    BY <1>8, <2>1 DEF Claim, Candidate
  <2> QED
    BY <1>8, <2>1, <2>2 DEF Claim, Candidate, Absent, Superseded
<1>9. ASSUME NEW t \in Attempt, MarkRunning(t) PROVE Rows'
  <2>1. node[t[1]] = "leased" /\ att[t] \in {"leased", "waiting"}
    BY <1>9, NodeTable, AttemptTable DEF MarkRunning
  <2>2. PICK u \in Attempt : u[1] = t[1] /\ task[u] = "leased"
    BY <2>1
  <2>3. u = t
    BY <2>1, <2>2, <1>01 DEF Absent
  <2> QED
    BY <1>9, <2>1, <2>2, <2>3 DEF MarkRunning, Absent, Superseded
<1>10. ASSUME NEW t \in Attempt, CompleteOk(t) PROVE Rows'
  BY <1>10 DEF CompleteOk, Acknowledge, LeaseHeld, Absent, Superseded
<1>11. ASSUME NEW t \in Attempt, CompleteFailed(t) PROVE Rows'
  BY <1>11 DEF CompleteFailed, Acknowledge, LeaseHeld, Absent, Superseded
<1>12. ASSUME NEW t \in Attempt, CompleteRetry(t) PROVE Rows'
  <2> DEFINE u == NextOf(t)
  <2>1. u \in Attempt /\ u[1] = t[1] /\ u[2] = t[2] + 1
    BY <1>12, AttemptPair, AttemptIntro, AuthorityAssumption
    DEF CompleteRetry, NextOf, AuthorityAssumption
  <2>2. task[t] = "leased" /\ ordinal[t[1]] = t[2]
    BY <1>12 DEF CompleteRetry, LeaseHeld
  <2>3. /\ \A x \in Attempt :
             /\ task'[x] = IF x = u THEN "ready" ELSE IF x = t THEN "failed" ELSE task[x]
             /\ att'[x] = IF x = u THEN "scheduled" ELSE IF x = t THEN "failed" ELSE att[x]
        /\ \A n \in Node :
             /\ node'[n] = IF n = t[1] THEN "scheduled" ELSE node[n]
             /\ ordinal'[n] = IF n = t[1] THEN t[2] + 1 ELSE ordinal[n]
        /\ UNCHANGED <<wf, claims>>
    BY <1>12 DEF CompleteRetry
  <2> HIDE DEF u
  <2>4. HistoryShape'
    <3>0. node[t[1]] # Absent
      BY <2>1, <2>2 DEF Absent, Superseded
    <3>1. \A n \in Node : wf'[WorkflowOf[n]] = Absent => node'[n] = Absent
      BY <3>0, <2>3
    <3>4. \A n \in Node : node'[n] = Absent => ordinal'[n] = 0
      BY <2>3 DEF Absent
    <3>2. \A x \in Attempt : x[2] > ordinal'[x[1]] => att'[x] = Absent /\ task'[x] = Absent
      BY <2>1, <2>2, <2>3, SMTT(30)
    <3>3. \A x \in Attempt : task'[x] = "ready" => att'[x] = "scheduled"
      BY <2>3
    <3> QED
      BY <3>1, <3>2, <3>3, <3>4
  <2>5. HeldRows'
    <3> SUFFICES ASSUME NEW x \in Attempt, task'[x] = "leased"
                 PROVE  Held(x)'
      OBVIOUS
    <3>1. x # u /\ x # t /\ task[x] = "leased" /\ att'[x] = att[x]
      BY <2>3
    <3>2. Held(x)
      BY <3>1
    <3>3. x[1] # t[1]
      BY <3>1, <3>2, <2>2
    <3>4. ordinal'[x[1]] = ordinal[x[1]] /\ node'[x[1]] = node[x[1]]
      BY <3>3, <2>3
    <3> QED
      BY <3>1, <3>2, <3>4, <2>3
  <2>6. NoOrphanRunning'
    <3> SUFFICES ASSUME NEW n \in Node, node'[n] \in {"leased", "running"}
                 PROVE  \E x \in Attempt : x[1] = n /\ task'[x] = "leased"
      OBVIOUS
    <3>1. n # t[1] /\ node'[n] = node[n]
      BY <2>3
    <3>2. PICK x \in Attempt : x[1] = n /\ task[x] = "leased"
      BY <3>1
    <3>3. x # u /\ x # t
      BY <3>1, <3>2, <2>1
    <3> QED
      BY <3>2, <3>3, <2>3
  <2>7. OldAttemptsClosed'
    <3> SUFFICES ASSUME NEW x \in Attempt, x[2] < ordinal'[x[1]]
                 PROVE  att'[x] = "failed" /\ task'[x] \notin {"ready", "leased"}
      OBVIOUS
    <3>1. x # u
      BY <2>1, <2>3
    <3>2. CASE x[1] # t[1]
      BY <3>1, <3>2, <2>3
    <3>3. CASE x[1] = t[1] /\ x[2] = t[2]
      BY <3>1, <3>3, <2>3
    <3>4. CASE x[1] = t[1] /\ x[2] # t[2]
      <4>1. x[2] < ordinal[x[1]]
        <5>1. x[2] \in Nat /\ t[2] \in Nat /\ x[2] < t[2] + 1 /\ ordinal[x[1]] = t[2]
          BY <3>4, <2>2, <2>3
        <5>2. x[2] < t[2]
          BY <5>1, <3>4, BelowNext
        <5> QED
          BY <5>1, <5>2
      <4> QED
        BY <3>1, <3>4, <4>1, <2>3
    <3> QED
      BY <3>2, <3>3, <3>4
  <2> QED
    BY <2>4, <2>5, <2>6, <2>7
<1>13. ASSUME NEW t \in Attempt, CompleteCancelled(t) PROVE Rows'
  BY <1>13 DEF CompleteCancelled, Acknowledge, LeaseHeld, Absent, Superseded
<1>14. ASSUME NEW t \in Attempt, MarkUnknown(t) PROVE Rows'
  BY <1>14 DEF MarkUnknown, Acknowledge, LeaseHeld, Absent, Superseded
<1>15. ASSUME NEW t \in Attempt, CancelClaim(t) PROVE Rows'
  BY <1>15 DEF CancelClaim, Acknowledge, LeaseHeld, Absent, Superseded
<1>16. ASSUME RecoverExpired PROVE Rows'
  <2> DEFINE retried == {NextOf(t) : t \in {u \in Expired : RecoveryRetries(u)}}
  <2>1. \A t \in Expired : t \in Attempt /\ task[t] = "leased"
    BY DEF Expired
  <2>2. \A n \in Node : Last(n)[1] = n /\ Last(n)[2] = ordinal[n]
    BY DEF Last
  <2>3. \A t \in Expired : t = Last(t[1])
    BY <2>1, AttemptPair DEF Last
  <2>4. \A u \in Attempt : u \in retried <=>
          Last(u[1]) \in Expired /\ RecoveryRetries(Last(u[1])) /\ u[2] = ordinal[u[1]] + 1
    <3> SUFFICES ASSUME NEW u \in Attempt
                 PROVE  u \in retried <=>
                          /\ Last(u[1]) \in Expired /\ RecoveryRetries(Last(u[1]))
                          /\ u[2] = ordinal[u[1]] + 1
      OBVIOUS
    <3>1. ASSUME u \in retried
          PROVE  /\ Last(u[1]) \in Expired /\ RecoveryRetries(Last(u[1]))
                 /\ u[2] = ordinal[u[1]] + 1
      <4>1. PICK t \in Expired : RecoveryRetries(t) /\ u = NextOf(t)
        BY <3>1
      <4>2. u[1] = t[1] /\ u[2] = t[2] + 1
        BY <4>1 DEF NextOf
      <4> QED
        BY <4>1, <4>2, <2>1, <2>3
    <3>2. ASSUME Last(u[1]) \in Expired, RecoveryRetries(Last(u[1])), u[2] = ordinal[u[1]] + 1
          PROVE  u \in retried
      <4>1. u = NextOf(Last(u[1]))
        BY <3>2, AttemptPair DEF Last, NextOf
      <4> QED
        BY <3>2, <4>1
    <3> QED
      BY <3>1, <3>2
  <2>5. \A n \in Node : ordinal'[n] =
          IF Last(n) \in Expired /\ RecoveryRetries(Last(n)) THEN ordinal[n] + 1 ELSE ordinal[n]
    <3> SUFFICES ASSUME NEW n \in Node
                 PROVE  NextOf(Last(n)) \in retried <=>
                          Last(n) \in Expired /\ RecoveryRetries(Last(n))
      BY <1>16 DEF RecoverExpired
    <3>1. ASSUME NEW t \in Expired, NextOf(Last(n)) = NextOf(t) PROVE t = Last(n)
      <4>1. t[1] = n /\ t[2] + 1 = ordinal[n] + 1
        BY <3>1, <2>2 DEF NextOf
      <4> QED
        BY <4>1, <2>1, <2>3
    <3> QED
      BY <3>1
  <2>6. \A t \in Attempt :
          /\ task'[t] = IF t \in Expired THEN RecoveredTask(t)
                        ELSE IF t \in retried THEN "ready" ELSE task[t]
          /\ att'[t] = IF t \in Expired THEN RecoveredAttempt(t)
                       ELSE IF t \in retried THEN "scheduled" ELSE att[t]
    BY <1>16 DEF RecoverExpired
  <2>7. /\ \A n \in Node : node'[n] = IF Last(n) \in Expired THEN RecoveredNode(Last(n)) ELSE node[n]
        /\ UNCHANGED <<wf, claims>>
    BY <1>16 DEF RecoverExpired
  <2> HIDE DEF retried
  <2>8. HistoryShape'
    <3>1. ASSUME NEW n \in Node, node'[n] = Absent PROVE node[n] = Absent /\ ordinal'[n] = ordinal[n]
      <4>1. Last(n) \notin Expired
        <5>1. ASSUME Last(n) \in Expired PROVE node[n] # Absent /\ node'[n] # Absent
          <6>1. Last(n) \in Attempt /\ task[Last(n)] = "leased" /\ Last(n)[1] = n
            BY <5>1, <2>1, <2>2
          <6>2. node[n] # Absent
            BY <6>1 DEF Absent, Superseded
          <6>3. node'[n] = RecoveredNode(Last(n))
            BY <5>1, <2>7
          <6> QED
            BY <6>1, <6>2, <6>3 DEF RecoveredNode, Absent
        <5> QED
          BY <5>1, <3>1
      <4> QED
        BY <3>1, <4>1, <2>5, <2>7
    <3>2. \A n \in Node : wf'[WorkflowOf[n]] = Absent => node'[n] = Absent
      <4> SUFFICES ASSUME NEW n \in Node, wf'[WorkflowOf[n]] = Absent PROVE node'[n] = Absent
        OBVIOUS
      <4>1. node[n] = Absent /\ ordinal[n] = 0
        OBVIOUS
      <4>2. Last(n) \notin Expired
        BY <4>1, <2>1, <2>2
      <4> QED
        BY <4>1, <4>2, <2>7
    <3>3. \A x \in Attempt : x[2] > ordinal'[x[1]] => att'[x] = Absent /\ task'[x] = Absent
      <4> SUFFICES ASSUME NEW x \in Attempt, x[2] > ordinal'[x[1]]
                   PROVE  att'[x] = Absent /\ task'[x] = Absent
        OBVIOUS
      <4>1. x[2] > ordinal[x[1]]
        <5>1. x[2] \in Nat /\ ordinal[x[1]] \in Nat /\ ordinal'[x[1]] \in Nat
          OBVIOUS
        <5>2. ordinal'[x[1]] = ordinal[x[1]] \/ ordinal'[x[1]] = ordinal[x[1]] + 1
          BY <2>5
        <5> QED
          BY <5>1, <5>2, AboveGrown
      <4>2. x \notin Expired /\ x \notin retried
        BY <4>1, <2>1, <2>4, <2>5
      <4> QED
        BY <4>1, <4>2, <2>6
    <3>4. \A x \in Attempt : task'[x] = "ready" => att'[x] = "scheduled"
      BY <2>6 DEF RecoveredTask
    <3> QED
      BY <3>1, <3>2, <3>3, <3>4
  <2>9. HeldRows'
    <3> SUFFICES ASSUME NEW x \in Attempt, task'[x] = "leased"
                 PROVE  Held(x)'
      OBVIOUS
    <3>1. x \notin Expired /\ x \notin retried
      BY <2>6 DEF RecoveredTask
    <3>2. task[x] = "leased" /\ att'[x] = att[x]
      BY <3>1, <2>6
    <3>3. Held(x)
      BY <3>2
    <3>4. Last(x[1]) \notin Expired
      <4>1. x = Last(x[1])
        BY <3>3, AttemptPair DEF Last
      <4> QED
        BY <3>1, <4>1
    <3>5. ordinal'[x[1]] = ordinal[x[1]] /\ node'[x[1]] = node[x[1]]
      BY <3>4, <2>5, <2>7
    <3> QED
      BY <3>2, <3>3, <3>5, <2>7
  <2>10. NoOrphanRunning'
    <3> SUFFICES ASSUME NEW n \in Node, node'[n] \in {"leased", "running"}
                 PROVE  \E t \in Attempt : t[1] = n /\ task'[t] = "leased"
      OBVIOUS
    <3>1. Last(n) \notin Expired
      BY <2>7 DEF RecoveredNode, Superseded
    <3>2. PICK t \in Attempt : t[1] = n /\ task[t] = "leased"
      BY <3>1, <2>7
    <3>3. t \notin Expired /\ t \notin retried
      BY <3>1, <3>2, <2>3, <2>4
    <3> QED
      BY <3>2, <3>3, <2>6
  <2>11. OldAttemptsClosed'
    <3> SUFFICES ASSUME NEW x \in Attempt, x[2] < ordinal'[x[1]]
                 PROVE  att'[x] = "failed" /\ task'[x] \notin {"ready", "leased"}
      OBVIOUS
    <3>1. CASE x \in Expired
      <4>1. x[2] = ordinal[x[1]] /\ x = Last(x[1])
        BY <3>1, <2>1, <2>3
      <4>2. RecoveryRetries(x)
        BY <4>1, <2>5
      <4> QED
        BY <3>1, <4>2, <2>6 DEF RecoveredTask, RecoveredAttempt, RecoveryRetries
    <3>2. CASE x \notin Expired
      <4>1. x[2] < ordinal[x[1]]
        <5>1. CASE x[2] = ordinal[x[1]]
          <6>1. x = Last(x[1])
            BY <5>1, AttemptPair DEF Last
          <6>2. ordinal'[x[1]] = ordinal[x[1]]
            BY <3>2, <6>1, <2>5
          <6> QED
            BY <5>1, <6>2
        <5>2. CASE x[2] # ordinal[x[1]]
          <6>1. x[2] \in Nat /\ ordinal[x[1]] \in Nat
            OBVIOUS
          <6>2. ordinal'[x[1]] = ordinal[x[1]] \/ ordinal'[x[1]] = ordinal[x[1]] + 1
            BY <2>5
          <6>3. CASE ordinal'[x[1]] = ordinal[x[1]]
            BY <6>3
          <6>4. CASE ordinal'[x[1]] = ordinal[x[1]] + 1
            <7>1. x[2] < ordinal[x[1]] + 1
              BY <6>4
            <7> QED
              BY <7>1, <5>2, <6>1, BelowNext
          <6> QED
            BY <6>2, <6>3, <6>4
        <5> QED
          BY <5>1, <5>2
      <4>2. x \notin retried
        BY <4>1, <2>4
      <4> QED
        BY <3>2, <4>1, <4>2, <2>6
    <3> QED
      BY <3>1, <3>2
  <2> QED
    BY <2>8, <2>9, <2>10, <2>11
<1>17. ASSUME NEW n \in Node, RetryNode(n) PROVE Rows'
  <2> DEFINE t == Last(n)
             u == NextOf(t)
  <2>1. /\ t \in Attempt /\ t[1] = n /\ t[2] = ordinal[n]
        /\ u \in Attempt /\ u[1] = n /\ u[2] = ordinal[n] + 1
    <3>1. ordinal[n] \in 1 .. MaxAttempts[n] /\ ordinal[n] + 1 \in 1 .. MaxAttempts[n]
      <4>1. MaxAttempts[n] \in Nat /\ ordinal[n] \in Nat
        BY AuthorityAssumption DEF AuthorityAssumption
      <4>2. ordinal[n] > 0 /\ ordinal[n] < MaxAttempts[n]
        BY <1>17 DEF RetryNode
      <4> QED
        BY <4>1, <4>2
    <3>2. t = <<n, ordinal[n]>> /\ u = <<n, ordinal[n] + 1>>
      BY DEF Last, NextOf
    <3> QED
      BY <3>1, <3>2, AttemptIntro
  <2>2. /\ node[n] = "failed" /\ att[t] = "failed"
        /\ \A x \in Attempt : /\ task'[x] = IF x = u THEN "ready" ELSE task[x]
                              /\ att'[x] = IF x = u THEN "scheduled" ELSE att[x]
        /\ \A m \in Node : /\ node'[m] = IF m = n THEN "scheduled" ELSE node[m]
                           /\ ordinal'[m] = IF m = n THEN ordinal[n] + 1 ELSE ordinal[m]
        /\ UNCHANGED <<wf, claims>>
    BY <1>17 DEF RetryNode
  <2> HIDE DEF t, u
  <2>3. HistoryShape'
    <3>1. \A m \in Node : node'[m] = Absent => ordinal'[m] = 0
      BY <2>2 DEF Absent
    <3>2. \A m \in Node : wf'[WorkflowOf[m]] = Absent => node'[m] = Absent
      BY <2>2 DEF Absent
    <3>3. \A x \in Attempt : x[2] > ordinal'[x[1]] => att'[x] = Absent /\ task'[x] = Absent
      BY <2>1, <2>2
    <3>4. \A x \in Attempt : task'[x] = "ready" => att'[x] = "scheduled"
      BY <2>2
    <3> QED
      BY <3>1, <3>2, <3>3, <3>4
  <2>4. HeldRows'
    BY <2>1, <2>2, SMTT(30)
  <2>5. NoOrphanRunning'
    BY <2>1, <2>2, SMTT(30)
  <2>6. OldAttemptsClosed'
    BY <2>1, <2>2, SMTT(30)
  <2> QED
    BY <2>3, <2>4, <2>5, <2>6
<1>18. ASSUME NEW n \in Node, NEW r \in {"succeeded", "failed", "manual_intervention"},
             ResolveUnknown(n, r) PROVE Rows'
  BY <1>18 DEF ResolveUnknown, Last, Absent, Superseded
<1>19. ASSUME NEW S, CancelNodes(S) PROVE Rows'
  BY <1>19 DEF CancelNodes, Cancellable, Absent, Superseded
<1>20. ASSUME NEW S, Supersede(S) PROVE Rows'
  BY <1>20 DEF Supersede, Absent, Superseded
<1> HIDE DEF Rows, TypeOK, Held, HeldRows, HistoryShape, NoOrphanRunning, OldAttemptsClosed
<1>21. ASSUME NEW t \in Attempt, Work(t) PROVE Rows'
  BY <1>21, <1>1, <1>8, <1>9, <1>10, <1>11, <1>12, <1>13, <1>14, <1>15 DEF Work, Heartbeat, ReserveEffect
<1>22. CASE Lifecycle
  BY <1>22, <1>1, <1>2, <1>3 DEF Lifecycle, Pause, Resume, Terminate, Settle
<1>23. CASE Admit
  BY <1>23, <1>4, <1>5 DEF Admit
<1>24. CASE Frontier
  BY <1>24, <1>6, <1>7 DEF Frontier
<1>25. CASE Operator
  BY <1>25, <1>17, <1>18, <1>19, <1>20 DEF Operator
<1>26. CASE Tick \/ UNCHANGED vars
  BY <1>26, <1>1 DEF Tick, vars
<1> QED
  BY <1>16, <1>21, <1>22, <1>23, <1>24, <1>25, <1>26 DEF Next

LEMMA LeaseNext == LeaseInv /\ [Next]_vars => LeaseInv'
<1> SUFFICES ASSUME LeaseInv, [Next]_vars PROVE LeaseInv'
  OBVIOUS
<1>1. TypeOK /\ TypeOK'
  BY TypeNext DEF LeaseInv
<1>2. Rows
  BY <1>1, RowsForm
<1>3. Rows'
  BY <1>1, <1>2, RowsNext
<1>4. \A t \in Attempt : t = Last(t[1])' <=> t[2] = ordinal'[t[1]]
  BY AttemptPair DEF Last
<1> QED
  BY <1>1, <1>3, <1>4 DEF LeaseInv, Rows, HeldRows, Held, LeaseAgreement

(***************************************************************************)
(* The inductive invariant holds throughout: the node, attempt, task and    *)
(* ordinal rows that claim, complete, recoverExpired, retryNode, cancel and *)
(* the frontier write in separate transactions stay consistent.             *)
(***************************************************************************)
THEOREM LeaseInvariant == Spec => []LeaseInv
  BY LeaseInit, LeaseNext, PTL DEF Spec

(***************************************************************************)
(* A leased task is its node's latest attempt and agrees with its node, no  *)
(* transaction leaves a held node that recoverExpired could not find, and   *)
(* all attempts but the latest are closed when completeOnce, recoverExpired *)
(* or retryNode create one: for every graph, clock and number of attempts.  *)
(***************************************************************************)
THEOREM LeasesAgree == Spec => []LeasesSound
<1>1. LeaseInv => LeasesSound
  BY DEF LeaseInv, LeasesSound
<1> QED
  BY <1>1, LeaseInvariant, PTL

(***************************************************************************)
(* One lease never makes recoverExpired roll back the recovery of others:   *)
(* every transition it would make on a leased task is legal.                *)
(***************************************************************************)
THEOREM RecoveryProceeds == Spec => []RecoveryNeverPoisoned
<1>1. LeaseInv => RecoveryNeverPoisoned
  <2> SUFFICES ASSUME LeaseInv, NEW t \in Attempt, task[t] = "leased"
               PROVE  RecoveryLegal(t)
    BY DEF RecoveryNeverPoisoned
  <2>1. Rows /\ Held(t)
    BY RowsForm DEF LeaseInv, Rows, HeldRows
  <2>2. CASE Ended(WorkflowOf[t[1]])
    BY <2>1, <2>2, NodeTable, AttemptTable DEF RecoveryLegal, Held
  <2>3. CASE ~Ended(WorkflowOf[t[1]])
    BY <2>1, <2>3, NodeTable, AttemptTable DEF RecoveryLegal, Held
  <2> QED
    BY <2>2, <2>3
<1> QED
  BY <1>1, LeaseInvariant, PTL

-----------------------------------------------------------------------------
(***************************************************************************)
(* Only claim leases a task.                                                *)
(***************************************************************************)
LEMMA OnlyClaimLeases ==
  ASSUME TypeOK, [Next]_vars, NEW t \in Attempt, task'[t] = "leased", task[t] # "leased"
  PROVE  Claim(t)
<1> USE DEF TypeOK
<1>1. ASSUME NEW S, Create(S) PROVE FALSE
  BY <1>1 DEF Create
<1>2. ASSUME NEW w \in Workflow, NEW S, ScheduleReady(w, S) PROVE FALSE
  BY <1>2 DEF ScheduleReady
<1>3. ASSUME NEW u \in Attempt, Claim(u) PROVE u = t
  BY <1>3 DEF Claim
<1>4. ASSUME NEW u \in Attempt, NEW s \in {"completed", "failed", "unknown", "cancelled"},
             Acknowledge(u, s) PROVE FALSE
  BY <1>4 DEF Acknowledge
<1>5. ASSUME NEW u \in Attempt, CompleteRetry(u) PROVE FALSE
  BY <1>5 DEF CompleteRetry
<1>6. ASSUME RecoverExpired PROVE FALSE
  BY <1>6 DEF RecoverExpired, RecoveredTask
<1>7. ASSUME NEW n \in Node, RetryNode(n) PROVE FALSE
  BY <1>7 DEF RetryNode
<1>8. ASSUME NEW S, CancelNodes(S) PROVE FALSE
  BY <1>8 DEF CancelNodes
<1> HIDE DEF TypeOK
<1>9. CASE Lifecycle
  BY <1>9, <1>1 DEF Lifecycle, Start, Pause, Resume, Cancel, Terminate, Settle
<1>10. CASE Admit
  BY <1>10, <1>1 DEF Admit, AdmitTask, AdmitAgentGraph
<1>11. CASE Frontier
  BY <1>11, <1>2 DEF Frontier, ResolveJoin
<1>12. ASSUME NEW u \in Attempt, Work(u) PROVE Claim(t)
  BY <1>12, <1>3, <1>4, <1>5 DEF Work, Heartbeat, MarkRunning, ReserveEffect, CompleteOk,
     CompleteFailed, CompleteCancelled, MarkUnknown, CancelClaim
<1>13. CASE Operator
  BY <1>13, <1>7, <1>8 DEF Operator, ResolveUnknown, Supersede
<1>14. CASE Tick \/ UNCHANGED vars
  BY <1>14 DEF Tick, vars
<1> QED
  BY <1>6, <1>9, <1>10, <1>11, <1>12, <1>13, <1>14 DEF Next

(***************************************************************************)
(* Only the settlement of a workflow completes it.                          *)
(***************************************************************************)
LEMMA OnlySettleCompletes ==
  ASSUME TypeOK, [Next]_vars, NEW w \in Workflow, wf'[w] = "completed", wf[w] # "completed"
  PROVE  Settle(w)
<1> USE DEF TypeOK
<1>0. UNCHANGED wf => FALSE
  OBVIOUS
<1>1. ASSUME NEW v \in Workflow, NEW r, r # "completed", wf' = [wf EXCEPT ![v] = r]
      PROVE  FALSE
  BY <1>1
<1>2. ASSUME NEW v \in Workflow, Settle(v) PROVE v = w
  BY <1>2 DEF Settle, MoveWorkflow
<1> HIDE DEF TypeOK
<1>3. \A t \in Attempt : WorkflowOf[t[1]] \in Workflow
  BY AttemptPair, AuthorityAssumption DEF AuthorityAssumption
<1>4. CASE Lifecycle
  BY <1>4, <1>1, <1>2 DEF Lifecycle, Start, Pause, Resume, Cancel, Terminate, MoveWorkflow
<1>5. CASE Admit \/ Frontier
  BY <1>5, <1>0 DEF Admit, AdmitTask, AdmitAgentGraph, Frontier, ScheduleReady, ResolveJoin
<1>6. ASSUME NEW t \in Attempt, CompleteFailed(t) PROVE FALSE
  BY <1>6, <1>0, <1>1, <1>3 DEF CompleteFailed
<1>7. ASSUME NEW t \in Attempt, CompleteCancelled(t) PROVE FALSE
  BY <1>7, <1>0, <1>1, <1>3 DEF CompleteCancelled
<1>8. ASSUME NEW t \in Attempt, Work(t) PROVE FALSE
  BY <1>8, <1>0, <1>6, <1>7 DEF Work, Claim, Heartbeat, MarkRunning, ReserveEffect, CompleteOk,
     CompleteRetry, MarkUnknown, CancelClaim
<1>9. CASE RecoverExpired \/ Tick \/ UNCHANGED vars
  BY <1>9, <1>0 DEF RecoverExpired, Tick, vars
<1>10. CASE Operator
  BY <1>10, <1>0 DEF Operator, RetryNode, ResolveUnknown, CancelNodes, Supersede
<1> QED
  BY <1>4, <1>5, <1>8, <1>9, <1>10 DEF Next

(***************************************************************************)
(* A completed workflow has no task in a worker's hands: reconcileWorkflow  *)
(* settles only when every admitted node has settled, a leased task keeps   *)
(* its node from settling, and claim refuses the workflow afterwards.       *)
(***************************************************************************)
THEOREM CompletionIsQuiet == Spec => []NoWorkAfterCompletion
<1>1. Init => NoWorkAfterCompletion
  BY DEF Init, NoWorkAfterCompletion, Absent
<1>2. LeaseInv /\ NoWorkAfterCompletion /\ [Next]_vars => NoWorkAfterCompletion'
  <2> SUFFICES ASSUME LeaseInv, NoWorkAfterCompletion, [Next]_vars, NEW t \in Attempt,
                      wf'[WorkflowOf[t[1]]] = "completed", task'[t] = "leased"
               PROVE  FALSE
    BY DEF NoWorkAfterCompletion
  <2> DEFINE n == t[1]
             w == WorkflowOf[n]
  <2>1. n \in Node /\ w \in Workflow /\ TypeOK
    BY AttemptPair, AuthorityAssumption DEF AuthorityAssumption, LeaseInv
  <2>2. CASE task[t] # "leased"
    BY <2>1, <2>2, OnlyClaimLeases DEF Claim, Candidate
  <2>3. CASE task[t] = "leased"
    <3>1. wf[w] # "completed"
      BY <2>3 DEF NoWorkAfterCompletion
    <3>2. Settle(w)
      BY <2>1, <3>1, OnlySettleCompletes
    <3>3. node[n] \in {"leased", "running"}
      <4>1. ~Ended(w)
        BY <3>2 DEF Settle
      <4> QED
        BY <2>3, <4>1 DEF LeaseInv, LeaseAgreement
    <3>4. Settlement(node, RootOf[w], Descendants(w)) = "completed"
      BY <2>1, <3>2 DEF Settle, MoveWorkflow, TypeOK
    <3>5. node[RootOf[w]] = "succeeded" /\ \A m \in Descendants(w) : node[m] \in SettledNode
      BY <3>4 DEF Settlement
    <3>6. n \in Descendants(w)
      BY <2>1, <3>3, <3>5 DEF Descendants, NodesOf, NodeState
    <3> QED
      BY <3>3, <3>5, <3>6 DEF SettledNode
  <2> QED
    BY <2>2, <2>3
<1> QED
  BY <1>1, <1>2, LeaseInvariant, PTL DEF Spec

-----------------------------------------------------------------------------
(***************************************************************************)
(* Capacity groups hold, for every assignment of limits to workflows.       *)
(***************************************************************************)

LEMMA AttemptsFinite == IsFiniteSet(Attempt)
<1> DEFINE row == [n \in Node |-> {n} \X (1 .. MaxAttempts[n])]
           rows == {row[n] : n \in Node}
<1>1. row \in Surjection(Node, rows)
  BY DEF Surjection
<1>2. IsFiniteSet(rows)
  BY <1>1, FS_Surjection, GraphAssumption, Zenon DEF GraphAssumption
<1>3. \A R \in rows : IsFiniteSet(R)
  <2> SUFFICES ASSUME NEW n \in Node PROVE IsFiniteSet({n} \X (1 .. MaxAttempts[n]))
    OBVIOUS
  <2>1. MaxAttempts[n] \in Int
    BY AuthorityAssumption DEF AuthorityAssumption
  <2>2. IsFiniteSet({n})
    BY FS_Singleton
  <2>3. 1 \in Int
    OBVIOUS
  <2>4. IsFiniteSet(1 .. MaxAttempts[n])
    BY <2>1, <2>3, FS_Interval, Zenon
  <2> QED
    BY <2>2, <2>4, FS_Product
<1>4. Attempt = UNION rows
  BY DEF Attempt
<1> QED
  BY <1>2, <1>3, <1>4, FS_UNION

LEMMA GroupsFinite ==
  ASSUME NEW g
  PROVE  /\ InGroup(g) \subseteq Attempt /\ IsFiniteSet(InGroup(g))
         /\ Cardinality(InGroup(g)) \in Nat
<1>1. InGroup(g) \in SUBSET Attempt
  BY DEF InGroup, LiveLeases
<1> QED
  BY <1>1, AttemptsFinite, FS_Subset, FS_CardinalityType

\* A group that only loses leases stays within every limit.
LEMMA FewerLeases ==
  ASSUME CapacityRespected, NEW g \in CapacityGroup, InGroup(g)' \subseteq InGroup(g),
         NEW u \in InGroup(g)'
  PROVE  Cardinality(InGroup(g)') <= CapacityLimit[WorkflowOf[u[1]]][g]
<1>1. Cardinality(InGroup(g)') <= Cardinality(InGroup(g)) /\ Cardinality(InGroup(g)') \in Nat
  BY GroupsFinite, FS_Subset, FS_CardinalityType
<1>2. Cardinality(InGroup(g)) <= CapacityLimit[WorkflowOf[u[1]]][g]
  BY DEF CapacityRespected
<1>3. CapacityLimit[WorkflowOf[u[1]]][g] \in Nat
  BY GroupsFinite, AttemptPair, AuthorityAssumption DEF AuthorityAssumption
<1> QED
  BY <1>1, <1>2, <1>3, GroupsFinite

(***************************************************************************)
(* A claim that adds a lease to a group has seen every limit in it.         *)
(***************************************************************************)
LEMMA ClaimWithinLimits ==
  ASSUME TypeOK, NEW t \in Attempt, Claim(t), NEW g \in CapacityGroup, NEW u \in InGroup(g)'
  PROVE  \/ InGroup(g)' \subseteq InGroup(g)
         \/ Cardinality(InGroup(g)') <= CapacityLimit[WorkflowOf[u[1]]][g]
<1> DEFINE w == WorkflowOf[t[1]]
<1>1. InGroup(g)' \subseteq InGroup(g) \cup {t}
  BY DEF InGroup, LiveLeases, Claim, TypeOK
<1>2. CASE t \notin InGroup(g)'
  BY <1>1, <1>2
<1>3. CASE t \in InGroup(g)'
  <2>1. Kind[t[1]] = "agent" /\ CapacityLimit[w][g] > 0
    BY <1>3 DEF InGroup
  <2>2. Cardinality(InGroup(g)) < CapacityLimit[WorkflowOf[u[1]]][g]
    BY <1>1, <2>1 DEF Claim, CapacityAvailable
  <2>3. /\ Cardinality(InGroup(g)') <= Cardinality(InGroup(g) \cup {t})
        /\ Cardinality(InGroup(g)') \in Nat
    BY <1>1, GroupsFinite, FS_AddElement, FS_Subset, FS_CardinalityType
  <2>4. Cardinality(InGroup(g) \cup {t}) <= Cardinality(InGroup(g)) + 1
    <3>1. Cardinality(InGroup(g) \cup {t}) =
            IF t \in InGroup(g) THEN Cardinality(InGroup(g)) ELSE Cardinality(InGroup(g)) + 1
      BY GroupsFinite, FS_AddElement, Zenon
    <3> QED
      BY <3>1, GroupsFinite
  <2>5. u \in Attempt
    BY DEF InGroup, LiveLeases
  <2>6. CapacityLimit[WorkflowOf[u[1]]][g] \in Nat
    BY <2>5, AttemptPair, AuthorityAssumption DEF AuthorityAssumption
  <2>7. Cardinality(InGroup(g) \cup {t}) \in Nat
    BY GroupsFinite, FS_AddElement, FS_CardinalityType
  <2> QED
    BY <2>2, <2>3, <2>4, <2>6, <2>7, GroupsFinite
<1> QED
  BY <1>2, <1>3

(***************************************************************************)
(* Capacity, for every number of workflows, every mix of limits and every   *)
(* delay of the heartbeats: no claim leaves a group above any of its        *)
(* limits, so an excess is the work of a delayed heartbeat (claim,          *)
(* capacityAvailable).                                                      *)
(***************************************************************************)
THEOREM ExcessesAreRevivals == Spec => ExcessIsRevival
<1>1. TypeOK /\ [Next]_vars =>
        [\A g \in CapacityGroup : \A u \in InGroup(g)' :
           \/ Cardinality(InGroup(g)') <= CapacityLimit[WorkflowOf[u[1]]][g]
           \/ InGroup(g)' \subseteq InGroup(g)
           \/ InGroup(g)' \cap Revivable # {}]_vars
  <2> SUFFICES ASSUME TypeOK, [Next]_vars, NEW g \in CapacityGroup, NEW u \in InGroup(g)'
               PROVE  \/ Cardinality(InGroup(g)') <= CapacityLimit[WorkflowOf[u[1]]][g]
                      \/ InGroup(g)' \subseteq InGroup(g)
                      \/ InGroup(g)' \cap Revivable # {}
    OBVIOUS
  <2>1. CASE \E t \in Attempt : Claim(t)
    BY <2>1, ClaimWithinLimits
  <2>2. CASE \A t \in Attempt : ~Claim(t)
    <3>1. LiveLeases' \subseteq LiveLeases \cup Revivable
      BY <2>2, OnlyClaimAddsLeases
    <3> QED
      BY <3>1 DEF InGroup
  <2> QED
    BY <2>1, <2>2
<1> QED
  BY <1>1, TypeCorrect, PTL DEF Spec, ExcessIsRevival

(***************************************************************************)
(* While every heartbeat carries the time of its commit, a capacity group   *)
(* never exceeds the limit of any workflow that holds a lease in it.        *)
(***************************************************************************)
THEOREM PunctualCapacityHolds ==
  ASSUME HeartbeatAge = 0
  PROVE  Spec => []CapacityRespected
<1>1. Init => CapacityRespected
  BY DEF Init, CapacityRespected, InGroup, LiveLeases, Absent
<1>2. CapacityRespected /\ TypeOK /\ [Next]_vars => CapacityRespected'
  <2> SUFFICES ASSUME CapacityRespected, TypeOK, [Next]_vars,
                      NEW g \in CapacityGroup, NEW u \in InGroup(g)'
               PROVE  Cardinality(InGroup(g)') <= CapacityLimit[WorkflowOf[u[1]]][g]
    BY DEF CapacityRespected
  <2>1. CASE \E t \in Attempt : Claim(t)
    BY <2>1, ClaimWithinLimits, FewerLeases
  <2>2. CASE \A t \in Attempt : ~Claim(t)
    <3>1. Revivable = {}
      BY DEF Revivable, TypeOK
    <3>2. LiveLeases' \subseteq LiveLeases
      BY <2>2, <3>1, OnlyClaimAddsLeases
    <3>3. InGroup(g)' \subseteq InGroup(g)
      BY <3>2 DEF InGroup
    <3> QED
      BY <3>3, FewerLeases
  <2> QED
    BY <2>1, <2>2
<1> QED
  BY <1>1, <1>2, TypeCorrect, PTL DEF Spec

-----------------------------------------------------------------------------
(***************************************************************************)
(* What the recorded outcomes may be relied on for: the effect ledger       *)
(* agrees with the attempts that own its keys, a key is executed by one     *)
(* attempt at a time, and a node or a join only leaves admission on the     *)
(* strength of the nodes it depends on.  Proved for every graph, every      *)
(* assignment of keys and every value of the bounds.                        *)
(***************************************************************************)


(***************************************************************************)
(* The attempt that owns the reservation of k was told to execute k, with   *)
(* the input the reservation records, and its own outcome decides how the   *)
(* reservation may be settled.  An undecided one keeps its task "unknown",  *)
(* which is what resolve-unknown goes by.                                   *)
(***************************************************************************)
Owned(k) ==
  LET o == ledger[k].owner IN
  /\ o \in Attempt
  /\ IdempotencyKey[o[1]] = k
  /\ admission[o] = "execute"
  /\ ledger[k].digest = InputDigest[o[1]]
  /\ ledger[k].state = "committed" => att[o] = "succeeded"
  /\ ledger[k].state = "released" => att[o] = "failed"
  /\ ledger[k].state = "unknown" =>
       task[o] = "unknown" /\ att[o] \in {"unknown", "manual_intervention"}

LedgerRows ==
  \A k \in EffectKey : (ledger[k].state = "free" /\ ledger[k].owner = NoOwner) \/ Owned(k)

\* Whoever was told to execute still owns the key, or has failed.
Executors ==
  \A t \in Attempt : admission[t] = "execute" =>
     /\ IdempotencyKey[t[1]] \in EffectKey
     /\ ledger[IdempotencyKey[t[1]]].state # "free"
     /\ ledger[IdempotencyKey[t[1]]].owner = t \/ att[t] = "failed"

\* Whoever was told to replay finds the result committed, for good.
Replays ==
  \A t \in Attempt : admission[t] = "replay" =>
     /\ IdempotencyKey[t[1]] \in EffectKey
     /\ ledger[IdempotencyKey[t[1]]].state = "committed"
     /\ ledger[IdempotencyKey[t[1]]].digest = InputDigest[t[1]]

LedgerInv == LedgerRows /\ Executors /\ Replays

(***************************************************************************)
(* The dependencies of n are met: every unconditional one has succeeded or  *)
(* was skipped and at least one has succeeded.                              *)
(***************************************************************************)
Met(n) ==
  /\ \A e \in Incoming(n) : EdgeStatus[e] = NoCondition => node[e[1]] \in {"succeeded", "skipped"}
  /\ \E e \in Incoming(n) : node[e[1]] = "succeeded"

\* n has been on its way to execution: also a failure that was an execution's,
\* which retry-node may schedule again.
Released(n) ==
  \/ node[n] \in {"scheduled", "leased", "running", "succeeded", "unknown"}
  \/ node[n] = "failed" /\ ordinal[n] > 0 /\ att[Last(n)] = "failed"

OrdinalBound == \A n \in Node : ordinal[n] <= MaxAttempts[n]

GraphInv ==
  /\ OrdinalBound
  /\ \A n \in Node : Incoming(n) # {} /\ ~Counts(n) /\ Released(n) => Met(n)
  /\ JoinJustified
-----------------------------------------------------------------------------
(* The effect ledger *)

Closed == {"succeeded", "failed", "cancelled", "manual_intervention"}

LEMMA ClosedTable == \A s \in Closed : \A r : ~AttemptMay(s, r)
<1>1. \A s \in Closed : AttemptTransitions[s] = {}
  BY DEF Closed, AttemptTransitions
<1> QED
  BY <1>1 DEF AttemptMay

\* Only a resolution decides an unknown attempt of this model's authority.
LEMMA UnknownTable ==
  \A r : AttemptMay("unknown", r) => r \in {"succeeded", "failed", "manual_intervention"}
<1>1. AttemptTransitions["unknown"] = {"succeeded", "failed", "manual_intervention"}
  BY DEF AttemptTransitions
<1> QED
  BY <1>1 DEF AttemptMay

Resolution == {"succeeded", "failed", "manual_intervention"}

(***************************************************************************)
(* Outcomes are kept: no step takes back a closed attempt, and only         *)
(* resolve-unknown decides an undecided one.                                *)
(***************************************************************************)
Kept(t) ==
  /\ att[t] \in Closed => att'[t] = att[t]
  /\ att[t] = "unknown" => att'[t] = "unknown"
  /\ task[t] = "unknown" => task'[t] = "unknown"

LEMMA OutcomesKept ==
  ASSUME LeaseInv, [Next]_vars, NEW t \in Attempt,
         \A n \in Node : \A r \in Resolution : ~ResolveUnknown(n, r)
  PROVE  Kept(t)
<1>0. TypeOK /\ Rows /\ HeldRows /\ t[1] \in Node /\ t[2] \in Nat /\ t[2] >= 1
  BY RowsForm, AttemptPair, AuthorityAssumption DEF LeaseInv, Rows, AuthorityAssumption
<1>01. \A u \in Attempt : task[u] = "leased" => att[u] \in {"leased", "running"}
  BY <1>0 DEF HeldRows, Held
<1>02. \A u \in Attempt : u[2] > ordinal[u[1]] => att[u] = Absent /\ task[u] = Absent
  BY <1>0 DEF Rows, HistoryShape
<1>03. \A n \in Node : node[n] = Absent => ordinal[n] = 0
  BY <1>0 DEF Rows, HistoryShape
<1>04. ASSUME att[t] = Absent /\ task[t] = Absent PROVE Kept(t)
  BY <1>04 DEF Kept, Closed, Absent
<1>05. ASSUME att'[t] = att[t], task'[t] = task[t] PROVE Kept(t)
  BY <1>05 DEF Kept
<1>1. ASSUME NEW S, Create(S), \A n \in S : n \in Node => node[n] = Absent PROVE Kept(t)
  <2>1. CASE t[1] \in S
    BY <2>1, <1>0, <1>02, <1>03, <1>04, <1>1
  <2>2. CASE t[1] \notin S
    BY <2>2, <1>05, <1>1 DEF Create
  <2> QED
    BY <2>1, <2>2
<1>2. ASSUME NEW w \in Workflow, Start(w) PROVE Kept(t)
  <2>1. node[RootOf[w]] = Absent
    BY <1>0, <1>2, AuthorityAssumption DEF Start, Rows, HistoryShape, AuthorityAssumption
  <2> QED
    BY <1>1, <1>2, <2>1 DEF Start
<1>3. CASE Admit
  BY <1>1, <1>3 DEF Admit, AdmitTask, AdmitAgentGraph
<1>4. ASSUME NEW w \in Workflow, NEW S, S \subseteq Node, ScheduleReady(w, S) PROVE Kept(t)
  <2>1. \A s \in {"unknown"} \cup Closed : ~AttemptMay(s, "cancelled")
    BY ClosedTable, UnknownTable
  <2>2. CASE ordinal[t[1]] > 0 /\ AttemptMay(att[Last(t[1])], "cancelled")
    BY <1>0, <1>4, <2>1, <2>2 DEF ScheduleReady, TypeOK, Kept
  <2>3. CASE ordinal[t[1]] = 0
    BY <1>0, <1>02, <1>04, <2>3
  <2>4. CASE ordinal[t[1]] > 0 /\ ~AttemptMay(att[Last(t[1])], "cancelled")
    BY <1>0, <1>4, <2>4 DEF ScheduleReady, TypeOK, Kept
  <2> QED
    BY <1>0, <2>2, <2>3, <2>4 DEF TypeOK
<1>5. ASSUME NEW u \in Attempt, NEW a, att' = [att EXCEPT ![u] = a], AttemptMay(att[u], a),
             a \notin Resolution, \A x \in Attempt : task[x] = "unknown" => task'[x] = "unknown"
      PROVE  Kept(t)
  BY <1>0, <1>5, ClosedTable, UnknownTable DEF TypeOK, Kept, Resolution
<1>6. ASSUME NEW u \in Attempt, NEW a, NEW b, att' = [att EXCEPT ![u] = a], Acknowledge(u, b)
      PROVE  Kept(t)
  BY <1>0, <1>01, <1>6 DEF TypeOK, Kept, Acknowledge, LeaseHeld, Closed
<1>7. ASSUME NEW u \in Attempt, CompleteRetry(u) PROVE Kept(t)
  <2>1. CASE t = u
    BY <1>01, <1>7, <2>1 DEF CompleteRetry, LeaseHeld, Kept, Closed
  <2>2. CASE t = NextOf(u)
    BY <1>0, <1>02, <1>04, <1>7, <2>2, AttemptPair DEF CompleteRetry, NextOf
  <2>3. CASE t # u /\ t # NextOf(u)
    BY <1>0, <1>05, <1>7, <2>3 DEF CompleteRetry, TypeOK
  <2> QED
    BY <2>1, <2>2, <2>3
<1>8. CASE RecoverExpired
  <2>1. CASE t \in Expired
    BY <1>01, <2>1 DEF Expired, Kept, Closed
  <2>2. CASE t \notin Expired /\ \E u \in Expired : t = NextOf(u)
    <3>1. PICK u \in Expired : t = NextOf(u)
      BY <2>2
    <3>2. u \in Attempt /\ u[2] = ordinal[u[1]]
      BY <1>0, <3>1 DEF Expired, HeldRows, Held
    <3>3. t[1] = u[1] /\ t[2] = u[2] + 1
      BY <3>1 DEF NextOf
    <3> QED
      BY <1>0, <1>02, <1>04, <3>2, <3>3, AttemptPair
  <2>3. CASE t \notin Expired /\ \A u \in Expired : t # NextOf(u)
    BY <1>05, <1>8, <2>3 DEF RecoverExpired
  <2> QED
    BY <2>1, <2>2, <2>3
<1>9. ASSUME NEW n \in Node, RetryNode(n) PROVE Kept(t)
  <2>1. CASE t = NextOf(Last(n))
    BY <1>0, <1>02, <1>04, <2>1 DEF NextOf, Last, TypeOK
  <2>2. CASE t # NextOf(Last(n))
    BY <1>0, <1>05, <1>9, <2>2 DEF RetryNode, TypeOK
  <2> QED
    BY <2>1, <2>2
<1>10. ASSUME NEW S, CancelNodes(S) PROVE Kept(t)
  BY <1>10 DEF CancelNodes, Kept
<1>11. ASSUME UNCHANGED <<att, task>> PROVE Kept(t)
  BY <1>05, <1>11
<1>12. ASSUME NEW u \in Attempt, Claim(u) PROVE Kept(t)
  BY <1>0, <1>5, <1>12 DEF Claim, Candidate, Resolution, TypeOK
<1>13. ASSUME NEW u \in Attempt, MarkRunning(u) PROVE Kept(t)
  BY <1>5, <1>13 DEF MarkRunning, Resolution
<1>14. ASSUME NEW u \in Attempt, Work(u) PROVE Kept(t)
  BY <1>6, <1>7, <1>11, <1>12, <1>13, <1>14
  DEF Work, Heartbeat, ReserveEffect, CompleteOk, CompleteFailed, CompleteCancelled, MarkUnknown,
      CancelClaim
<1>15. CASE Lifecycle
  BY <1>2, <1>11, <1>15 DEF Lifecycle, Pause, Resume, Cancel, Terminate, Settle
<1>16. CASE Frontier
  <2>1. \A w \in Workflow : \A S : S \cap Ordinary(w) \subseteq Node
    BY DEF Ordinary, Descendants, NodesOf
  <2> QED
    BY <1>4, <1>11, <1>16, <2>1 DEF Frontier, ResolveJoin
<1>17. CASE Operator
  BY <1>9, <1>10, <1>11, <1>17 DEF Operator, Supersede, Resolution
<1> QED
  BY <1>3, <1>8, <1>11, <1>14, <1>15, <1>16, <1>17 DEF Next, Tick, vars

LEMMA ReservingRow ==
  ASSUME TypeOK, NEW k \in EffectKey, NEW s, ledger' = Reserving(k, s)
  PROVE  /\ ledger'[k].state = s /\ ledger'[k].owner = ledger[k].owner
         /\ ledger'[k].digest = ledger[k].digest
         /\ \A j \in EffectKey : j # k => ledger'[j] = ledger[j]
  BY DEF TypeOK, Reserving, Reservation

LEMMA LedgerInit == Init => LedgerInv
<1> SUFFICES ASSUME Init PROVE LedgerInv
  OBVIOUS
<1>1. \A k \in EffectKey : ledger[k].state = "free" /\ ledger[k].owner = NoOwner
  BY DEF Init
<1>2. \A t \in Attempt : admission[t] = "none"
  BY DEF Init
<1> QED
  BY <1>1, <1>2 DEF LedgerInv, LedgerRows, Executors, Replays

(***************************************************************************)
(* A step that neither touches the ledger nor answers the broker keeps the  *)
(* ledger sound, because outcomes are kept.                                 *)
(***************************************************************************)
LEMMA LedgerFrame ==
  ASSUME LedgerInv, UNCHANGED <<ledger, admission>>, \A t \in Attempt : Kept(t)
  PROVE  LedgerInv'
<1>1. LedgerRows'
  BY DEF LedgerInv, LedgerRows, Owned, Kept, Closed
<1>2. Executors' /\ Replays'
  BY DEF LedgerInv, Executors, Replays, Kept, Closed
<1> QED
  BY <1>1, <1>2 DEF LedgerInv

(***************************************************************************)
(* A report under a held lease: the attempt is open, so if it owns its key  *)
(* the reservation is still reserved and moves with the attempt; if it does *)
(* not, the ledger stays.                                                   *)
(***************************************************************************)
LEMMA LedgerSettled ==
  ASSUME TypeOK, LedgerInv, NEW t \in Attempt, att[t] \in {"leased", "running"},
         NEW s, NEW a, NEW b,
         \/ s = "committed" /\ a = "succeeded"
         \/ s = "released" /\ a = "failed"
         \/ s = "unknown" /\ a = "unknown" /\ b = "unknown",
         SettleReservation(t, s), Acknowledge(t, b),
         att' = [att EXCEPT ![t] = a], UNCHANGED admission
  PROVE  LedgerInv'
<1>0. /\ \A u \in Attempt : u # t => att'[u] = att[u] /\ task'[u] = task[u]
      /\ att'[t] = a /\ task'[t] = b
  BY DEF TypeOK, Acknowledge
<1>1. \A k \in EffectKey : Owned(k) /\ ledger[k].owner = t => ledger[k].state \notin {"committed", "released", "unknown"}
  BY DEF Owned
<1>2. CASE admission[t] # "execute"
  <2>1. UNCHANGED ledger
    BY <1>2 DEF SettleReservation
  <2>2. LedgerRows'
    BY <1>0, <1>2, <2>1 DEF LedgerInv, LedgerRows, Owned
  <2>3. Executors' /\ Replays'
    BY <1>0, <1>2, <2>1 DEF LedgerInv, Executors, Replays
  <2> QED
    BY <2>2, <2>3 DEF LedgerInv
<1>3. CASE admission[t] = "execute"
  <2> DEFINE k == IdempotencyKey[t[1]]
  <2>1. k \in EffectKey /\ ledger[k].owner = t /\ ledger[k].state # "free" /\ ledger' = Reserving(k, s)
    BY <1>3 DEF LedgerInv, Executors, SettleReservation
  <2>2. Owned(k)
    BY <2>1 DEF LedgerInv, LedgerRows
  <2>3. /\ ledger'[k].state = s /\ ledger'[k].owner = t
        /\ ledger'[k].digest = ledger[k].digest
        /\ \A j \in EffectKey : j # k => ledger'[j] = ledger[j]
    BY <2>1, ReservingRow
  <2> HIDE DEF k
  <2>4. Owned(k)'
    <3>1. /\ t \in Attempt /\ IdempotencyKey[t[1]] = k /\ admission'[t] = "execute"
          /\ ledger'[k].digest = InputDigest[t[1]]
      BY <1>3, <2>1, <2>2, <2>3 DEF Owned
    <3>2. /\ s = "committed" => att'[t] = "succeeded"
          /\ s = "released" => att'[t] = "failed"
          /\ s = "unknown" => task'[t] = "unknown" /\ att'[t] = "unknown"
      BY <1>0
    <3> QED
      BY <2>3, <3>1, <3>2 DEF Owned
  <2>5. \A j \in EffectKey : j # k /\ Owned(j) => Owned(j)'
    <3>1. \A j \in EffectKey : j # k /\ Owned(j) => ledger[j].owner # t
      BY <2>1, <2>2 DEF Owned
    <3> QED
      BY <1>0, <2>3, <3>1 DEF Owned
  <2>6. LedgerRows'
    BY <2>3, <2>4, <2>5 DEF LedgerInv, LedgerRows
  <2>7. Executors'
    BY <1>0, <2>1, <2>2, <2>3 DEF LedgerInv, Executors, k
  <2>8. Replays'
    BY <1>1, <2>1, <2>2, <2>3 DEF LedgerInv, Replays
  <2> QED
    BY <2>6, <2>7, <2>8 DEF LedgerInv
<1> QED
  BY <1>2, <1>3

LEMMA LedgerReserved ==
  ASSUME TypeOK, LedgerInv, NEW t \in Attempt, ReserveEffect(t)
  PROVE  LedgerInv'
<1> DEFINE k == IdempotencyKey[t[1]]
           answer == Answer(ledger[k], InputDigest[t[1]])
           new == [state |-> "reserved", owner |-> t, digest |-> InputDigest[t[1]]]
<1>1. /\ t[1] \in Node /\ k \in EffectKey /\ admission[t] = "none"
      /\ \A u \in Attempt : admission'[u] = IF u = t THEN answer ELSE admission[u]
      /\ ledger' = IF answer = "execute" THEN [ledger EXCEPT ![k] = new] ELSE ledger
      /\ UNCHANGED <<att, task>>
  BY AttemptPair, AuthorityAssumption DEF ReserveEffect, TypeOK, AuthorityAssumption
<1>2. ledger[k].state # "free" => Owned(k)
  BY <1>1 DEF LedgerInv, LedgerRows
<1>3. CASE answer = "execute"
  <2>1. ledger[k].state = "free" \/ ledger[k].state = "released"
    BY <1>3 DEF Answer
  <2>2. \A j \in EffectKey : ledger'[j] = IF j = k THEN new ELSE ledger[j]
    BY <1>1, <1>3 DEF TypeOK
  <2>3. new.state = "reserved" /\ new.owner = t /\ new.digest = InputDigest[t[1]]
    OBVIOUS
  <2>4. \A u \in Attempt : admission[u] = "execute" /\ IdempotencyKey[u[1]] = k => att[u] = "failed"
    BY <1>1, <1>2, <2>1 DEF LedgerInv, Executors, Owned
  <2> HIDE DEF k, answer, new
  <2>5. LedgerRows'
    <3> SUFFICES ASSUME NEW j \in EffectKey, ledger'[j].state # "free" \/ ledger'[j].owner # NoOwner
                 PROVE  Owned(j)'
      BY DEF LedgerRows
    <3>1. CASE j = k
      BY <1>1, <1>3, <2>2, <2>3, <3>1 DEF Owned, k
    <3>2. CASE j # k
      <4>1. Owned(j)
        BY <2>2, <3>2 DEF LedgerInv, LedgerRows
      <4> QED
        BY <1>1, <2>2, <3>2, <4>1 DEF Owned
    <3> QED
      BY <3>1, <3>2
  <2>6. Executors'
    BY <1>1, <1>3, <2>2, <2>3, <2>4 DEF LedgerInv, Executors, k
  <2>7. Replays'
    BY <1>1, <1>3, <2>1, <2>2 DEF LedgerInv, Replays
  <2> QED
    BY <2>5, <2>6, <2>7 DEF LedgerInv
<1>4. CASE answer # "execute"
  <2>1. ledger' = ledger
    BY <1>1, <1>4
  <2>2. answer = "replay" => ledger[k].state = "committed" /\ ledger[k].digest = InputDigest[t[1]]
    BY DEF Answer
  <2> HIDE DEF answer
  <2>3. LedgerRows'
    BY <1>1, <2>1 DEF LedgerInv, LedgerRows, Owned
  <2>4. Executors' /\ Replays'
    BY <1>1, <1>4, <2>1, <2>2 DEF LedgerInv, Executors, Replays
  <2> QED
    BY <2>3, <2>4 DEF LedgerInv
<1> QED
  BY <1>3, <1>4

(***************************************************************************)
(* Recovery releases a reservation only together with the failure of the    *)
(* attempt that owns it.                                                    *)
(***************************************************************************)
LEMMA LedgerRecovered ==
  ASSUME LeaseInv, LedgerInv, RecoverExpired, \A t \in Attempt : Kept(t)
  PROVE  LedgerInv'
<1>1. /\ ledger \in [EffectKey -> Reservation] /\ UNCHANGED admission
      /\ \A t \in Attempt : t \in Expired => att'[t] = RecoveredAttempt(t)
  BY DEF RecoverExpired, LeaseInv, TypeOK
<1>2. \A r \in Reservation : LET q == [r EXCEPT !.state = "released"] IN
        q.state = "released" /\ q.owner = r.owner /\ q.digest = r.digest
  BY DEF Reservation
<1>3. \A k \in EffectKey :
        /\ ledger'[k].owner = ledger[k].owner /\ ledger'[k].digest = ledger[k].digest
        /\ ledger'[k].state = IF RecoveryReleases(k) THEN "released" ELSE ledger[k].state
  BY <1>1, <1>2 DEF RecoverExpired
<1>4. \A k \in EffectKey : RecoveryReleases(k) =>
        ledger[k].state = "reserved" /\ att'[ledger[k].owner] = "failed"
  BY <1>1 DEF RecoveryReleases, RecoveryRetries, RecoveredAttempt, Expired
<1>5. LedgerRows'
  <2> SUFFICES ASSUME NEW k \in EffectKey, ledger'[k].state # "free" \/ ledger'[k].owner # NoOwner
               PROVE  Owned(k)'
    BY DEF LedgerRows
  <2>1. Owned(k)
    BY <1>3, <1>4 DEF LedgerInv, LedgerRows
  <2>2. CASE RecoveryReleases(k)
    BY <1>1, <1>3, <1>4, <2>1, <2>2 DEF Owned
  <2>3. CASE ~RecoveryReleases(k)
    BY <1>1, <1>3, <2>1, <2>3 DEF Owned, Kept, Closed
  <2> QED
    BY <2>2, <2>3
<1>6. Executors' /\ Replays'
  BY <1>1, <1>3, <1>4 DEF LedgerInv, Executors, Replays, Kept, Closed
<1> QED
  BY <1>5, <1>6 DEF LedgerInv

(***************************************************************************)
(* A resolution moves the reservation with the attempt it resolves, because *)
(* an undecided reservation keeps its owner's task "unknown".               *)
(***************************************************************************)
LEMMA LedgerResolved ==
  ASSUME LeaseInv, LedgerInv, NEW n \in Node, NEW r \in Resolution, ResolveUnknown(n, r)
  PROVE  LedgerInv'
<1> DEFINE t == Last(n)
           key == IdempotencyKey[n]
           moved == r = "failed" /\ key # NoKey /\ task[t] = "unknown"
<1>0. TypeOK /\ t[1] = n
  BY DEF LeaseInv, Last
<1>1. /\ att[t] = "unknown" /\ UNCHANGED <<task, admission>>
      /\ \A u \in Attempt : att'[u] = IF u = t THEN r ELSE att[u]
      /\ moved => ledger[key].owner = t /\ ledger' = Reserving(key, "released")
      /\ ~moved => ledger' = ledger
      /\ r = "succeeded" => key = NoKey \/ task[t] # "unknown"
  BY <1>0 DEF ResolveUnknown, TypeOK
<1>2. key \in EffectKey \cup {NoKey} /\ NoKey \notin EffectKey
  BY AuthorityAssumption DEF AuthorityAssumption
<1>3. \A u \in Attempt : u # t => Kept(u)
  BY <1>1 DEF Kept
<1>4. \A u \in Attempt : att[u] = "failed" => att'[u] = "failed"
  BY <1>1
<1>5. CASE moved
  <2>1. key \in EffectKey
    BY <1>2, <1>5
  <2>2. /\ ledger'[key].state = "released" /\ ledger'[key].owner = t
        /\ ledger'[key].digest = ledger[key].digest
        /\ \A j \in EffectKey : j # key => ledger'[j] = ledger[j]
    BY <1>0, <1>1, <1>5, <2>1, ReservingRow
  <2>3. Owned(key)
    <3>1. t # NoOwner
      BY DEF Last, NoOwner
    <3> QED
      BY <1>1, <1>5, <2>1, <3>1 DEF LedgerInv, LedgerRows
  <2>4. ledger[key].state # "committed"
    BY <1>1, <1>5, <2>3 DEF Owned
  <2> HIDE DEF t, key
  <2>5. Owned(key)'
    BY <1>1, <1>5, <2>2, <2>3 DEF Owned
  <2>6. \A j \in EffectKey : j # key /\ Owned(j) => Owned(j)'
    <3>1. \A j \in EffectKey : j # key /\ Owned(j) => ledger[j].owner # t
      BY <1>1, <1>5, <2>3 DEF Owned
    <3> QED
      BY <1>1, <2>2, <3>1 DEF Owned
  <2>7. LedgerRows'
    BY <2>2, <2>5, <2>6 DEF LedgerInv, LedgerRows
  <2>8. Executors'
    BY <1>1, <1>4, <1>5, <2>1, <2>2 DEF LedgerInv, Executors
  <2>9. Replays'
    BY <1>1, <2>2, <2>4 DEF LedgerInv, Replays
  <2> QED
    BY <2>7, <2>8, <2>9 DEF LedgerInv
<1>6. CASE ~moved
  <2>1. \A k \in EffectKey : Owned(k) /\ ledger[k].owner = t => ledger[k].state \notin {"committed", "released"}
    BY <1>1 DEF Owned
  <2>2. \A k \in EffectKey : Owned(k) /\ ledger[k].owner = t => k = key
    BY <1>0 DEF Owned
  <2> HIDE DEF t, key
  <2>3. \A k \in EffectKey : Owned(k) => Owned(k)'
    <3> SUFFICES ASSUME NEW k \in EffectKey, Owned(k) PROVE Owned(k)'
      OBVIOUS
    <3>1. CASE ledger[k].owner # t
      BY <1>1, <1>6, <3>1 DEF Owned
    <3>2. CASE ledger[k].owner = t /\ ledger[k].state = "unknown"
      BY <1>1, <1>2, <1>6, <2>1, <2>2, <3>2 DEF Owned, Resolution
    <3>3. CASE ledger[k].owner = t /\ ledger[k].state # "unknown"
      BY <1>1, <1>6, <2>1, <2>2, <3>3 DEF Owned
    <3> QED
      BY <3>1, <3>2, <3>3
  <2>4. LedgerRows'
    BY <1>1, <1>6, <2>3 DEF LedgerInv, LedgerRows
  <2>5. Executors' /\ Replays'
    BY <1>1, <1>4, <1>6 DEF LedgerInv, Executors, Replays
  <2> QED
    BY <2>4, <2>5 DEF LedgerInv
<1> QED
  BY <1>5, <1>6

LEMMA LedgerNext == LeaseInv /\ LedgerInv /\ [Next]_vars => LedgerInv'
<1> SUFFICES ASSUME LeaseInv, LedgerInv, [Next]_vars PROVE LedgerInv'
  OBVIOUS
<1>0. TypeOK /\ \A t \in Attempt : LeaseHeld(t) => att[t] \in {"leased", "running"}
  BY DEF LeaseInv, LeaseHeld, LeaseAgreement
<1>1. CASE \E n \in Node : \E r \in Resolution : ResolveUnknown(n, r)
  BY <1>1, LedgerResolved
<1>2. CASE \A n \in Node : \A r \in Resolution : ~ResolveUnknown(n, r)
  <2>0. \A t \in Attempt : Kept(t)
    BY <1>2, OutcomesKept
  <2>1. CASE UNCHANGED <<ledger, admission>>
    BY <2>0, <2>1, LedgerFrame
  <2>2. CASE RecoverExpired
    BY <2>0, <2>2, LedgerRecovered
  <2>3. ASSUME NEW t \in Attempt, ReserveEffect(t) PROVE LedgerInv'
    BY <1>0, <2>3, LedgerReserved
  <2>4. ASSUME NEW t \in Attempt, CompleteOk(t) PROVE LedgerInv'
    BY <1>0, <2>4, LedgerSettled DEF CompleteOk, Acknowledge
  <2>5. ASSUME NEW t \in Attempt, CompleteFailed(t) PROVE LedgerInv'
    BY <1>0, <2>5, LedgerSettled DEF CompleteFailed, Acknowledge
  <2>6. ASSUME NEW t \in Attempt, MarkUnknown(t) PROVE LedgerInv'
    BY <1>0, <2>6, LedgerSettled DEF MarkUnknown, Acknowledge
  <2>7. ASSUME NEW t \in Attempt, Work(t) PROVE LedgerInv'
    BY <2>1, <2>3, <2>4, <2>5, <2>6, <2>7
    DEF Work, Claim, Heartbeat, MarkRunning, CompleteRetry, CompleteCancelled, CancelClaim
  <2>8. CASE Lifecycle \/ Admit
    BY <2>1, <2>8 DEF Lifecycle, Admit, Start, AdmitTask, AdmitAgentGraph, Create, Pause, Resume,
       Cancel, Terminate, Settle
  <2>9. CASE Frontier \/ Operator
    BY <1>2, <2>1, <2>9 DEF Frontier, Operator, ScheduleReady, ResolveJoin, RetryNode, CancelNodes,
       Supersede, Resolution
  <2> QED
    BY <2>1, <2>2, <2>7, <2>8, <2>9 DEF Next, Tick, vars
<1> QED
  BY <1>1, <1>2

(***************************************************************************)
(* The inductive invariant of the effect ledger, whatever workers, recovery *)
(* and the operator commit and in whatever order.                           *)
(***************************************************************************)
THEOREM LedgerInvariant == Spec => []LedgerInv
  BY LedgerInit, LedgerNext, LeaseInvariant, PTL DEF Spec

(***************************************************************************)
(* A committed reservation belongs to a success, a released one to a        *)
(* failure and an undecided one to an undecided attempt, although           *)
(* reserveEffect looks at neither the lease nor the attempt that asks.      *)
(***************************************************************************)
THEOREM LedgerAgrees == Spec => []LedgerSound
<1>1. LedgerInv => LedgerSound
  <2>1. NoOwner \notin Attempt
    BY DEF Attempt, NoOwner
  <2> QED
    BY <2>1 DEF LedgerInv, LedgerRows, Owned, LedgerSound
<1> QED
  BY <1>1, LedgerInvariant, PTL

(***************************************************************************)
(* No two attempts execute under one idempotency key unless one has failed, *)
(* and every replay has a committed result for the same input behind it.    *)
(***************************************************************************)
THEOREM ExecutorIsUnique == Spec => []OneExecutor
<1>1. LedgerInv => OneExecutor
  BY DEF LedgerInv, Executors, Replays, OneExecutor
<1> QED
  BY <1>1, LedgerInvariant, PTL

-----------------------------------------------------------------------------
(* The graph *)

LEMMA EdgesFinite ==
  ASSUME NEW n \in Node
  PROVE  IsFiniteSet(Incoming(n)) /\ \A S \in SUBSET Incoming(n) : IsFiniteSet(S) /\ Cardinality(S) \in Nat
<1>1. IsFiniteSet(Node \X Node)
  BY GraphAssumption, FS_Product DEF GraphAssumption
<1>2. Incoming(n) \in SUBSET (Node \X Node)
  BY GraphAssumption DEF GraphAssumption, Incoming
<1>3. IsFiniteSet(Incoming(n))
  BY <1>1, <1>2, FS_Subset
<1> QED
  BY <1>3, FS_Subset, FS_CardinalityType

(***************************************************************************)
(* workflowNodeReadinessV1: an ordinary node with dependencies is ready     *)
(* only when they are met.  As many successes as active edges means that    *)
(* all active edges succeeded.                                              *)
(***************************************************************************)
LEMMA ReadyIsMet ==
  ASSUME NEW n \in Node, ~Counts(n), Incoming(n) # {}, Readiness(node, n) = "ready"
  PROVE  Met(n)
<1> DEFINE pending   == {e \in Incoming(n) : node[e[1]] \notin SettledNode}
           active    == pending \cup {e \in Incoming(n) : node[e[1]] \in SettledNode /\ EdgeSelected(node, e)}
           succeeded == {e \in active : node[e[1]] = "succeeded"}
<1>1. active # {} /\ Cardinality(succeeded) >= Cardinality(active)
  BY DEF Readiness, SucceededEdges
<1>2. active \in SUBSET Incoming(n) /\ succeeded \in SUBSET active
  OBVIOUS
<1>3. IsFiniteSet(active) /\ Cardinality(active) \in Nat /\ Cardinality(succeeded) \in Nat
  BY <1>2, EdgesFinite
<1> HIDE DEF active, succeeded
<1>4. succeeded = active
  BY <1>1, <1>2, <1>3, FS_Subset
<1>5. \A e \in active : e \in Incoming(n) /\ node[e[1]] = "succeeded"
  BY <1>4 DEF active, succeeded
<1>6. \E e \in Incoming(n) : node[e[1]] = "succeeded"
  BY <1>1, <1>5
<1>7. \A e \in Incoming(n) : EdgeStatus[e] = NoCondition => node[e[1]] \in {"succeeded", "skipped"}
  BY <1>5 DEF active, EdgeSelected
<1> QED
  BY <1>6, <1>7 DEF Met

(***************************************************************************)
(* The same function offers a join only on its quorum of successes.         *)
(***************************************************************************)
LEMMA ReadyJoin ==
  ASSUME NEW n \in Node, Counts(n), Readiness(node, n) = "ready"
  PROVE  Cardinality({e \in Incoming(n) : node[e[1]] = "succeeded"}) >= JoinMinimum[n]
<1> DEFINE pending   == {e \in Incoming(n) : node[e[1]] \notin SettledNode}
           active    == pending \cup {e \in Incoming(n) : node[e[1]] \in SettledNode /\ EdgeSelected(node, e)}
           succeeded == {e \in active : node[e[1]] = "succeeded"}
           all       == {e \in Incoming(n) : node[e[1]] = "succeeded"}
<1>1. Cardinality(succeeded) >= JoinMinimum[n]
  BY JoinAssumption DEF Readiness, SucceededEdges, JoinAssumption, IsJoin
<1>2. succeeded \in SUBSET all /\ all \in SUBSET Incoming(n)
  OBVIOUS
<1>3. IsFiniteSet(all) /\ Cardinality(all) \in Nat /\ Cardinality(succeeded) \in Nat /\ JoinMinimum[n] \in Nat
  BY <1>2, EdgesFinite, GraphAssumption DEF GraphAssumption
<1> HIDE DEF succeeded, all
<1>4. Cardinality(succeeded) <= Cardinality(all)
  BY <1>2, <1>3, FS_Subset
<1>5. Cardinality(all) >= JoinMinimum[n]
  BY <1>1, <1>3, <1>4
<1> QED
  BY <1>5 DEF all

LEMMA FinalTable == \A s \in {"succeeded", "skipped"} : \A r : ~NodeMay(s, r)
<1>1. NodeTransitions["succeeded"] = {} /\ NodeTransitions["skipped"] = {}
  BY DEF NodeTransitions
<1> QED
  BY <1>1 DEF NodeMay

LEMMA LostTable ==
  /\ ~NodeMay(Superseded, "unknown") /\ ~NodeMay("cancelled", "unknown")
  /\ \A s : NodeMay(s, "running") => s = "leased"
<1>1. NodeTransitions["cancelled"] = {}
  BY DEF NodeTransitions
<1>2. Superseded \notin NodeState
  BY DEF Superseded, NodeState
<1> QED
  BY <1>1, <1>2, NodeTable DEF NodeMay

(***************************************************************************)
(* What a step of the authority does to the node, ordinal and attempt rows  *)
(* of one node n, in the cases the graph invariant tells apart.             *)
(***************************************************************************)
Same(n) ==
  /\ node'[n] = node[n] /\ ordinal'[n] = ordinal[n]
  /\ \A t \in Attempt : t[1] = n => att'[t] = att[t]

Final == {"succeeded", "skipped"}
OnItsWay == {"scheduled", "leased", "running", "unknown"}

NodeStep(n) ==
  \/ Same(n)
  \/ node[n] = Absent /\ (node'[n] = "admitted" \/ (node'[n] = "scheduled" /\ Incoming(n) = {}))
  \/ node[n] \notin Final /\ node'[n] \in {"cancelled", "manual_intervention", Superseded}
  \/ node[n] = "admitted" /\ node'[n] = "scheduled" /\ Readiness(node, n) = "ready"
  \/ node[n] = "admitted" /\ node'[n] = "skipped"
  \/ /\ node[n] = "admitted" /\ node'[n] = "failed"
     /\ ordinal'[n] > 0 => att'[<<n, ordinal'[n]>>] = "cancelled"
  \/ ResolveJoin(n)
  \/ /\ node[n] \in OnItsWay /\ MaxAttempts[n] > 0
     /\ node'[n] \in OnItsWay \cup {"succeeded", "failed"}
  \/ node[n] = "failed" /\ Released(n) /\ node'[n] = "scheduled"

LEMMA NodeSteps ==
  ASSUME LeaseInv, OrdinalBound, [Next]_vars, NEW n \in Node
  PROVE  NodeStep(n)
<1>0. TypeOK /\ Rows /\ HeldRows /\ ordinal[n] \in Nat /\ MaxAttempts[n] \in Nat
  BY RowsForm, AuthorityAssumption DEF LeaseInv, Rows, AuthorityAssumption, TypeOK
<1>01. \A t \in Attempt : t[1] \in Node /\ t[2] \in Nat /\ t[2] >= 1 /\ MaxAttempts[t[1]] > 0
  BY AttemptPair, AuthorityAssumption DEF AuthorityAssumption
<1>02. ordinal[n] > 0 => MaxAttempts[n] > 0 /\ Last(n) \in Attempt
  <2>1. ordinal[n] > 0 => ordinal[n] \in 1 .. MaxAttempts[n] /\ MaxAttempts[n] > 0
    BY <1>0 DEF OrdinalBound
  <2> QED
    BY <2>1, AttemptIntro DEF Last
<1>03. Last(n)[1] = n /\ Last(n)[2] = ordinal[n]
  BY DEF Last
<1>04. ASSUME UNCHANGED <<node, ordinal, att>> PROVE NodeStep(n)
  BY <1>04 DEF NodeStep, Same
<1>05. ASSUME NEW t \in Attempt, LeaseHeld(t), t[1] = n
       PROVE  \/ node[n] \in {"leased", "running"}
              \/ Ended(WorkflowOf[n]) /\ node[n] \in {"cancelled", Superseded}
  BY <1>0, <1>05 DEF LeaseHeld, HeldRows, Held
<1>06. ASSUME NEW t \in Attempt, t[1] # n, NEW x, NEW y,
              node' = [node EXCEPT ![t[1]] = x], att' = [att EXCEPT ![t] = y], UNCHANGED ordinal
       PROVE  NodeStep(n)
  BY <1>0, <1>06 DEF NodeStep, Same, TypeOK
<1>1. ASSUME NEW S, Create(S), \A m \in S : m \in Node => node[m] = Absent PROVE NodeStep(n)
  <2>1. CASE n \in S
    <3>1. node[n] = Absent
      BY <1>1, <2>1
    <3>2. node'[n] = IF Kind[n] # "decision" /\ Incoming(n) = {} THEN "scheduled" ELSE "admitted"
      BY <1>1, <2>1 DEF Create
    <3>3. node'[n] = "admitted" \/ (node'[n] = "scheduled" /\ Incoming(n) = {})
      BY <3>2
    <3> QED
      BY <3>1, <3>3 DEF NodeStep
  <2>2. CASE n \notin S
    <3>1. node'[n] = node[n] /\ ordinal'[n] = ordinal[n]
      BY <1>1, <2>2 DEF Create
    <3>2. \A t \in Attempt : t[1] = n => att'[t] = att[t]
      BY <1>1, <2>2 DEF Create
    <3> QED
      BY <3>1, <3>2 DEF NodeStep, Same
  <2> QED
    BY <2>1, <2>2
<1>2. ASSUME NEW w \in Workflow, Start(w) PROVE NodeStep(n)
  <2>1. node[RootOf[w]] = Absent
    BY <1>0, <1>2, AuthorityAssumption DEF Start, Rows, HistoryShape, AuthorityAssumption
  <2> QED
    BY <1>1, <1>2, <2>1 DEF Start
<1>3. CASE Admit
  BY <1>1, <1>3 DEF Admit, AdmitTask, AdmitAgentGraph
<1>4. ASSUME NEW w \in Workflow, Cancel(w) PROVE NodeStep(n)
  BY <1>4 DEF Cancel, NodeStep, Same, Final
<1>5. ASSUME NEW w \in Workflow, NEW S, ScheduleReady(w, S) PROVE NodeStep(n)
  <2>1. CASE n \in S /\ node[n] = "admitted" /\ Readiness(node, n) = "ready"
    <3>1. node'[n] = "scheduled"
      BY <1>5, <2>1 DEF ScheduleReady
    <3> QED
      BY <2>1, <3>1 DEF NodeStep
  <2>2. CASE n \in S /\ node[n] = "admitted" /\ Readiness(node, n) = "skipped"
    <3>1. node'[n] = "skipped"
      BY <1>5, <2>2 DEF ScheduleReady
    <3> QED
      BY <2>2, <3>1 DEF NodeStep
  <2>3. CASE n \in S /\ node[n] = "admitted" /\ Readiness(node, n) \notin {"ready", "skipped", "waiting"}
    <3>1. node'[n] = "failed" /\ ordinal' = ordinal
      BY <1>5, <2>3 DEF ScheduleReady
    <3>2. ordinal[n] > 0 => att'[Last(n)] = "cancelled"
      BY <1>5, <1>02, <1>03, <2>3 DEF ScheduleReady
    <3> QED
      BY <2>3, <3>1, <3>2 DEF NodeStep, Last
  <2>4. CASE ~(n \in S /\ node[n] = "admitted" /\ Readiness(node, n) # "waiting")
    <3>1. node'[n] = node[n] /\ ordinal' = ordinal
      BY <1>5, <2>4 DEF ScheduleReady
    <3>2. \A t \in Attempt : t[1] = n => att'[t] = att[t]
      BY <1>5, <2>4 DEF ScheduleReady
    <3> QED
      BY <3>1, <3>2 DEF NodeStep, Same
  <2> QED
    BY <2>1, <2>2, <2>3, <2>4
<1>6. ASSUME NEW m \in Node, ResolveJoin(m) PROVE NodeStep(n)
  <2>1. CASE m # n
    BY <1>0, <1>6, <2>1 DEF ResolveJoin, NodeStep, Same, TypeOK
  <2> QED
    BY <1>6, <2>1 DEF NodeStep
<1>7. ASSUME NEW t \in Attempt, Claim(t) PROVE NodeStep(n)
  <2>1. CASE t[1] = n
    BY <1>0, <1>01, <1>7, <2>1 DEF Claim, NodeStep, OnItsWay, TypeOK
  <2> QED
    BY <1>06, <1>7, <2>1 DEF Claim
<1>8. ASSUME NEW t \in Attempt, MarkRunning(t) PROVE NodeStep(n)
  <2>1. CASE t[1] = n
    BY <1>0, <1>01, <1>8, <2>1, LostTable DEF MarkRunning, NodeStep, OnItsWay, TypeOK
  <2> QED
    BY <1>06, <1>8, <2>1 DEF MarkRunning
<1>9. ASSUME NEW t \in Attempt, CompleteOk(t) PROVE NodeStep(n)
  <2>1. CASE t[1] = n
    <3>1. node[n] \in {"leased", "running"}
      BY <1>05, <1>9, <2>1 DEF CompleteOk, CompletionIgnored, Acknowledge
    <3> QED
      BY <1>0, <1>01, <1>9, <2>1, <3>1 DEF CompleteOk, NodeStep, OnItsWay, TypeOK
  <2> QED
    BY <1>06, <1>9, <2>1 DEF CompleteOk
<1>10. ASSUME NEW t \in Attempt, CompleteFailed(t) PROVE NodeStep(n)
  <2>1. CASE t[1] = n
    <3>1. node[n] \in {"leased", "running"}
      BY <1>05, <1>10, <2>1 DEF CompleteFailed, CompletionIgnored, Acknowledge
    <3> QED
      BY <1>0, <1>01, <1>10, <2>1, <3>1 DEF CompleteFailed, NodeStep, OnItsWay, TypeOK
  <2> QED
    BY <1>06, <1>10, <2>1 DEF CompleteFailed
<1>11. ASSUME NEW t \in Attempt, CompleteRetry(t) PROVE NodeStep(n)
  <2>1. CASE t[1] = n
    <3>1. node[n] \in {"leased", "running"}
      BY <1>05, <1>11, <2>1 DEF CompleteRetry, CompletionIgnored
    <3> QED
      BY <1>0, <1>01, <1>11, <2>1, <3>1 DEF CompleteRetry, NodeStep, OnItsWay, TypeOK
  <2>2. CASE t[1] # n
    <3>1. node'[n] = node[n] /\ ordinal'[n] = ordinal[n]
      BY <1>0, <1>11, <2>2 DEF CompleteRetry, TypeOK
    <3>2. NextOf(t)[1] = t[1]
      BY DEF NextOf
    <3>3. \A u \in Attempt : u[1] = n => att'[u] = att[u]
      BY <1>0, <1>11, <2>2, <3>2 DEF CompleteRetry, TypeOK
    <3> QED
      BY <3>1, <3>3 DEF NodeStep, Same
  <2> QED
    BY <2>1, <2>2
<1>12. ASSUME NEW t \in Attempt, CompleteCancelled(t) \/ CancelClaim(t) PROVE NodeStep(n)
  <2>1. CASE t[1] = n
    BY <1>0, <1>12, <2>1, FinalTable DEF CompleteCancelled, CancelClaim, NodeStep, Final, TypeOK
  <2> QED
    BY <1>06, <1>12, <2>1 DEF CompleteCancelled, CancelClaim
<1>13. ASSUME NEW t \in Attempt, MarkUnknown(t) PROVE NodeStep(n)
  <2>1. CASE t[1] = n
    <3>1. node[n] \in {"leased", "running"}
      BY <1>05, <1>13, <2>1, LostTable DEF MarkUnknown, Acknowledge
    <3> QED
      BY <1>0, <1>01, <1>13, <2>1, <3>1 DEF MarkUnknown, NodeStep, OnItsWay, TypeOK
  <2> QED
    BY <1>06, <1>13, <2>1 DEF MarkUnknown
<1>14. CASE RecoverExpired
  <2>1. \A t \in Expired : t \in Attempt /\ LeaseHeld(t) /\ t = Last(t[1])
    BY <1>0, AttemptPair DEF Expired, HeldRows, Held, LeaseHeld, Last
  <2>2. CASE Last(n) \in Expired
    <3>1. node'[n] = RecoveredNode(Last(n)) /\ Last(n) \in Attempt
      BY <1>14, <2>1, <2>2 DEF RecoverExpired
    <3>2. \/ node[n] \in {"leased", "running"}
          \/ Ended(WorkflowOf[n]) /\ node[n] \in {"cancelled", Superseded}
      BY <1>03, <1>05, <2>1, <2>2
    <3>3. CASE Ended(WorkflowOf[n])
      BY <1>03, <3>1, <3>2, <3>3 DEF RecoveredNode, NodeStep, Final, Superseded
    <3>4. CASE ~Ended(WorkflowOf[n])
      BY <1>01, <1>03, <3>1, <3>2, <3>4 DEF RecoveredNode, NodeStep, Final, OnItsWay
    <3> QED
      BY <3>3, <3>4
  <2>3. CASE Last(n) \notin Expired
    <3>1. \A t \in Expired : t[1] # n
      BY <2>1, <2>3
    <3>2. \A t \in Expired : NextOf(t)[1] # n
      BY <3>1 DEF NextOf
    <3>3. NextOf(Last(n))[1] = n
      BY DEF NextOf, Last
    <3>4. node'[n] = node[n] /\ ordinal'[n] = ordinal[n]
      BY <1>14, <2>3, <3>2, <3>3 DEF RecoverExpired
    <3>5. \A t \in Attempt : t[1] = n => att'[t] = att[t]
      BY <1>14, <3>1, <3>2 DEF RecoverExpired
    <3> QED
      BY <3>4, <3>5 DEF NodeStep, Same
  <2> QED
    BY <2>2, <2>3
<1>15. ASSUME NEW m \in Node, RetryNode(m) PROVE NodeStep(n)
  <2>1. CASE m = n
    BY <1>0, <1>15, <2>1 DEF RetryNode, NodeStep, Released, TypeOK
  <2>2. CASE m # n
    <3>1. NextOf(Last(m))[1] = m
      BY DEF NextOf, Last
    <3> QED
      BY <1>0, <1>15, <2>2, <3>1 DEF RetryNode, NodeStep, Same, TypeOK
  <2> QED
    BY <2>1, <2>2
<1>16. ASSUME NEW m \in Node, NEW r \in Resolution, ResolveUnknown(m, r) PROVE NodeStep(n)
  <2>1. CASE m = n
    BY <1>0, <1>02, <1>16, <2>1 DEF ResolveUnknown, NodeStep, OnItsWay, Final, Resolution, TypeOK
  <2>2. CASE m # n
    <3>1. Last(m)[1] = m
      BY DEF Last
    <3> QED
      BY <1>0, <1>16, <2>2, <3>1 DEF ResolveUnknown, NodeStep, Same, TypeOK
  <2> QED
    BY <2>1, <2>2
<1>17. ASSUME NEW S, CancelNodes(S) \/ Supersede(S) PROVE NodeStep(n)
  BY <1>17 DEF CancelNodes, Cancellable, Supersede, NodeStep, Same, Final
<1>18. ASSUME NEW t \in Attempt, Work(t) PROVE NodeStep(n)
  BY <1>04, <1>7, <1>8, <1>9, <1>10, <1>11, <1>12, <1>13, <1>18 DEF Work, Heartbeat, ReserveEffect
<1>19. CASE Lifecycle
  BY <1>2, <1>4, <1>04, <1>19 DEF Lifecycle, Pause, Resume, Terminate, Settle
<1>20. CASE Frontier
  BY <1>5, <1>6, <1>20 DEF Frontier
<1>21. CASE Operator
  BY <1>15, <1>16, <1>17, <1>21 DEF Operator, Resolution
<1> QED
  BY <1>3, <1>14, <1>18, <1>19, <1>20, <1>21, <1>04 DEF Next, Tick, vars

LEMMA OrdinalNext ==
  ASSUME LeaseInv, OrdinalBound, [Next]_vars
  PROVE  OrdinalBound'
<1>0. TypeOK /\ Rows /\ HeldRows /\ \A n \in Node : ordinal[n] \in Nat /\ MaxAttempts[n] \in Nat
  BY RowsForm, AuthorityAssumption DEF LeaseInv, Rows, AuthorityAssumption, TypeOK
<1>1. ASSUME NEW S, Create(S) PROVE OrdinalBound'
  BY <1>0, <1>1, AuthorityAssumption DEF Create, OrdinalBound, AuthorityAssumption
<1>2. ASSUME NEW t \in Attempt, CompleteRetry(t) PROVE OrdinalBound'
  BY <1>0, <1>2, AttemptPair DEF CompleteRetry, OrdinalBound, TypeOK
<1>3. ASSUME NEW m \in Node, RetryNode(m) PROVE OrdinalBound'
  BY <1>0, <1>3 DEF RetryNode, OrdinalBound, TypeOK
<1>4. CASE RecoverExpired
  <2> SUFFICES ASSUME NEW n \in Node PROVE ordinal'[n] <= MaxAttempts[n]
    BY DEF OrdinalBound
  <2>1. CASE \E t \in Expired : RecoveryRetries(t) /\ NextOf(Last(n)) = NextOf(t)
    <3>1. PICK t \in Expired : RecoveryRetries(t) /\ NextOf(Last(n)) = NextOf(t)
      BY <2>1
    <3>2. t \in Attempt /\ t[1] = n /\ t[2] + 1 = ordinal[n] + 1 /\ t[2] < MaxAttempts[n]
      BY <3>1 DEF Expired, RecoveryRetries, NextOf, Last
    <3>3. ordinal'[n] = ordinal[n] + 1 \/ ordinal'[n] = ordinal[n]
      BY <1>4 DEF RecoverExpired
    <3> QED
      BY <1>0, <3>2, <3>3, AttemptPair
  <2>2. CASE \A t \in Expired : RecoveryRetries(t) => NextOf(Last(n)) # NextOf(t)
    <3>1. ordinal'[n] = ordinal[n]
      BY <1>4, <2>2 DEF RecoverExpired
    <3> QED
      BY <3>1 DEF OrdinalBound
  <2> QED
    BY <2>1, <2>2
<1>5. CASE UNCHANGED ordinal
  BY <1>5 DEF OrdinalBound
<1>6. ASSUME NEW t \in Attempt, Work(t) PROVE OrdinalBound'
  BY <1>2, <1>5, <1>6 DEF Work, Claim, Heartbeat, MarkRunning, ReserveEffect, CompleteOk, CompleteFailed,
     CompleteCancelled, MarkUnknown, CancelClaim
<1>7. CASE Lifecycle \/ Admit
  BY <1>1, <1>5, <1>7 DEF Lifecycle, Admit, Start, AdmitTask, AdmitAgentGraph, Pause, Resume, Cancel,
     Terminate, Settle
<1>8. CASE Frontier \/ Operator
  BY <1>3, <1>5, <1>8 DEF Frontier, Operator, ScheduleReady, ResolveJoin, ResolveUnknown, CancelNodes,
     Supersede
<1> QED
  BY <1>4, <1>5, <1>6, <1>7, <1>8 DEF Next, Tick, vars

\* Successes and skips are final.
LEMMA FinalKept ==
  ASSUME NEW n \in Node, NodeStep(n), node[n] \in Final
  PROVE  node'[n] = node[n]
  BY DEF NodeStep, Same, Final, OnItsWay, Absent, ResolveJoin

LEMMA EdgeSource == \A n \in Node : \A e \in Incoming(n) : e[1] \in Node
  BY GraphAssumption DEF GraphAssumption, Incoming

(***************************************************************************)
(* The invariant is kept: a node becomes ready by Readiness alone, and what *)
(* it was ready for is final.                                               *)
(***************************************************************************)
LEMMA GraphNext == LeaseInv /\ GraphInv /\ [Next]_vars => GraphInv'
<1> SUFFICES ASSUME LeaseInv, GraphInv, [Next]_vars PROVE GraphInv'
  OBVIOUS
<1>0. OrdinalBound /\ OrdinalBound' /\ TypeOK /\ TypeOK'
  BY OrdinalNext, TypeNext DEF GraphInv, LeaseInv
<1>1. \A n \in Node : NodeStep(n)
  BY <1>0, NodeSteps
<1>2. \A n \in Node : node[n] \in Final => node'[n] = node[n]
  BY <1>1, FinalKept
<1>3. \A n \in Node : Met(n) => Met(n)'
  BY <1>2, EdgeSource DEF Met, Final
<1>4. \A n \in Node : Incoming(n) # {} /\ ~Counts(n) /\ Released(n)' => Met(n)'
  <2> SUFFICES ASSUME NEW n \in Node, Incoming(n) # {}, ~Counts(n), Released(n)' PROVE Met(n)'
    OBVIOUS
  <2>0. /\ ordinal'[n] > 0 => <<n, ordinal'[n]>> \in Attempt
        /\ \/ node'[n] \in OnItsWay \cup {"succeeded"}
           \/ node'[n] = "failed" /\ ordinal'[n] > 0 /\ att'[<<n, ordinal'[n]>>] = "failed"
    <3>1. ordinal'[n] \in Nat /\ MaxAttempts[n] \in Nat /\ ordinal'[n] <= MaxAttempts[n]
      BY <1>0, AuthorityAssumption DEF TypeOK, OrdinalBound, AuthorityAssumption
    <3>2. ordinal'[n] > 0 => ordinal'[n] \in 1 .. MaxAttempts[n]
      BY <3>1
    <3> QED
      BY <3>2, AttemptIntro DEF Released, Last, OnItsWay
  <2>1. Released(n) \/ Met(n)
    <3>1. CASE Same(n)
      <4>1. CASE node'[n] = "failed"
        <5>1. att[<<n, ordinal[n]>>] = att'[<<n, ordinal'[n]>>]
          BY <2>0, <3>1, <4>1 DEF Same, OnItsWay
        <5> QED
          BY <2>0, <3>1, <4>1, <5>1 DEF Same, Released, Last, OnItsWay
      <4>2. CASE node'[n] # "failed"
        BY <2>0, <3>1, <4>2 DEF Same, Released, OnItsWay
      <4> QED
        BY <4>1, <4>2
    <3>2. CASE node[n] = "admitted" /\ node'[n] = "scheduled" /\ Readiness(node, n) = "ready"
      BY <3>2, ReadyIsMet
    <3>3. CASE node[n] \in OnItsWay \/ (node[n] = "failed" /\ Released(n))
      BY <3>3 DEF Released, OnItsWay
    <3>4. CASE ResolveJoin(n) /\ ~Met(n)
      <4>1. Readiness(node, n) # "ready" /\ IsJoin(n) /\ ordinal'[n] = ordinal[n]
        BY <3>4, ReadyIsMet DEF ResolveJoin
      <4>2. node'[n] \in {"skipped", "failed"}
        BY <1>0, <3>4, <4>1 DEF ResolveJoin, TypeOK
      <4>3. MaxAttempts[n] = 0
        BY <4>1, JoinAssumption, AuthorityAssumption DEF JoinAssumption, AuthorityAssumption
      <4>4. ~(ordinal'[n] > 0)
        BY <1>0, <4>1, <4>3 DEF OrdinalBound, TypeOK
      <4> QED
        BY <2>0, <4>2, <4>4 DEF OnItsWay
    <3>5. /\ node'[n] \notin {"admitted", "skipped", "cancelled", "manual_intervention", Superseded}
          /\ ~(node'[n] = "failed" /\ (ordinal'[n] > 0 => att'[<<n, ordinal'[n]>>] = "cancelled"))
      BY <2>0 DEF OnItsWay, Superseded
    <3> QED
      BY <1>1, <3>1, <3>2, <3>3, <3>4, <3>5 DEF NodeStep
  <2> QED
    BY <1>3, <2>1 DEF GraphInv
<1>5. JoinJustified'
  <2> SUFFICES ASSUME NEW n \in Node, Counts(n), node'[n] = "succeeded"
               PROVE  Cardinality({e \in Incoming(n) : node'[e[1]] = "succeeded"}) >= JoinMinimum[n]
    BY DEF JoinJustified
  <2> DEFINE before == {e \in Incoming(n) : node[e[1]] = "succeeded"}
             after  == {e \in Incoming(n) : node'[e[1]] = "succeeded"}
  <2>1. Cardinality(before) >= JoinMinimum[n]
    <3>1. CASE node[n] = "succeeded"
      BY <3>1 DEF GraphInv, JoinJustified
    <3>2. CASE ResolveJoin(n) /\ node[n] # "succeeded"
      <4>1. Readiness(node, n) = "ready"
        BY <1>0, <3>2 DEF ResolveJoin, TypeOK
      <4> QED
        BY <4>1, ReadyJoin
    <3>3. MaxAttempts[n] = 0
      BY JoinAssumption, AuthorityAssumption DEF JoinAssumption, AuthorityAssumption, IsJoin
    <3>4. Same(n) => node[n] = "succeeded"
      BY DEF Same
    <3>5. node'[n] \notin {"admitted", "scheduled", "skipped", "failed", "cancelled",
                        "manual_intervention", Superseded}
      BY DEF Superseded
    <3>6. ~(MaxAttempts[n] > 0)
      BY <3>3
    <3> QED
      BY <1>1, <3>1, <3>2, <3>4, <3>5, <3>6 DEF NodeStep
  <2>2. before \in SUBSET after /\ after \in SUBSET Incoming(n) /\ before \in SUBSET Incoming(n)
    BY <1>2, EdgeSource DEF Final
  <2>3. IsFiniteSet(after) /\ Cardinality(after) \in Nat /\ Cardinality(before) \in Nat /\ JoinMinimum[n] \in Nat
    BY <2>2, EdgesFinite, GraphAssumption DEF GraphAssumption
  <2> HIDE DEF before, after
  <2>4. Cardinality(before) <= Cardinality(after)
    BY <2>2, <2>3, FS_Subset
  <2>5. Cardinality(after) >= JoinMinimum[n]
    BY <2>1, <2>3, <2>4
  <2> QED
    BY <2>5 DEF after
<1> QED
  BY <1>0, <1>4, <1>5 DEF GraphInv

LEMMA GraphInit == Init => GraphInv
<1> SUFFICES ASSUME Init PROVE GraphInv
  OBVIOUS
<1>1. \A n \in Node : node[n] = Absent /\ ordinal[n] = 0 /\ MaxAttempts[n] \in Nat
  BY AuthorityAssumption DEF Init, AuthorityAssumption
<1> QED
  BY <1>1 DEF GraphInv, OrdinalBound, Released, JoinJustified, Absent

(***************************************************************************)
(* The inductive invariant of the graph: what lets a node leave admission   *)
(* is never taken back by a retry, a cancellation, a supersession or a      *)
(* recovery.                                                                *)
(***************************************************************************)
THEOREM GraphInvariant == Spec => []GraphInv
  BY GraphInit, GraphNext, LeaseInvariant, PTL DEF Spec

(***************************************************************************)
(* Every node that left admission towards execution has its unconditional   *)
(* dependencies succeeded or skipped and at least one succeeded.            *)
(***************************************************************************)
THEOREM DependenciesHold == Spec => []DependenciesRespected
<1>1. GraphInv => DependenciesRespected
  BY DEF GraphInv, Released, Met, DependenciesRespected
<1> QED
  BY <1>1, GraphInvariant, PTL

(***************************************************************************)
(* A succeeded join keeps its quorum of succeeded branches.                 *)
(***************************************************************************)
THEOREM JoinsAreJustified == Spec => []JoinJustified
<1>1. GraphInv => JoinJustified
  BY DEF GraphInv
<1> QED
  BY <1>1, GraphInvariant, PTL
=============================================================================
