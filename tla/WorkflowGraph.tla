---------------------------- MODULE WorkflowGraph ----------------------------
(***************************************************************************)
(* The pure decisions over a workflow graph: when a node may be scheduled,  *)
(* what a join resolves to, and whether the workflow as a whole has         *)
(* settled.  Each takes the function st from nodes to their states, so that *)
(* the same operator speaks about the current and about the next state.     *)
(***************************************************************************)
EXTENDS WorkflowTransitions, Naturals, FiniteSets

CONSTANTS
  Node,         \* every node a behaviour may admit
  Edge,         \* the dependency edges, a set of pairs <<from, to>>
  EdgeStatus,   \* [Edge -> NodeState \cup {NoCondition}]: a status_is condition
  NoCondition,
  JoinMinimum,  \* [Node -> Nat]: 0 no minimum, 1 the join 'any', m 'quorum' of m
  JoinsAll,     \* nodes with the join 'all'
  Required,     \* [Node -> BOOLEAN]
  Kind          \* [Node -> {"agent", "tool", "decision"}]

ASSUME GraphAssumption ==
  /\ IsFiniteSet(Node)
  /\ Edge \subseteq Node \X Node
  /\ EdgeStatus \in [Edge -> NodeState \cup {NoCondition}]
  /\ JoinMinimum \in [Node -> Nat]
  /\ JoinsAll \subseteq {n \in Node : JoinMinimum[n] = 0}
  /\ Required \in [Node -> BOOLEAN]
  /\ Kind \in [Node -> {"agent", "tool", "decision"}]

Incoming(n)   == {e \in Edge : e[2] = n}
Successors(n) == {e[2] : e \in {f \in Edge : f[1] = n}}
Counts(n)     == JoinMinimum[n] > 0
IsJoin(n)     == Counts(n) \/ n \in JoinsAll

\* validateWorkflowSpecV1: a join is a decision over at least one branch.
ASSUME JoinAssumption ==
  \A n \in Node : IsJoin(n) => Kind[n] = "decision" /\ Incoming(n) # {}

\* Fault: an unconditional edge from a failed source drops out of the count.
EdgeSelectedOnSuccess(st, e) ==
  IF EdgeStatus[e] = NoCondition
  THEN st[e[1]] = "succeeded"
  ELSE st[e[1]] = EdgeStatus[e]

\* An edge without a condition is selected unless its source was skipped; a
\* status_is condition compares the source's terminal state.
EdgeSelected(st, e) ==
  IF EdgeStatus[e] = NoCondition
  THEN st[e[1]] # "skipped"
  ELSE st[e[1]] = EdgeStatus[e]

\* Fault: every settled source counts towards a join's quorum.
SettledEdges(st, S) == {e \in S : st[e[1]] \in SettledNode}

SucceededEdges(st, S) == {e \in S : st[e[1]] = "succeeded"}

(***************************************************************************)
(* workflowNodeReadinessV1.  An edge whose source has not settled is both   *)
(* active and pending; a settled source counts only if its edge is selected.*)
(***************************************************************************)
Readiness(st, n) ==
  LET pending   == {e \in Incoming(n) : st[e[1]] \notin SettledNode}
      active    == pending \cup {e \in Incoming(n) : /\ st[e[1]] \in SettledNode
                                                     /\ EdgeSelected(st, e)}
      succeeded == SucceededEdges(st, active)
      minimum   == IF Counts(n) THEN JoinMinimum[n] ELSE Cardinality(active)
  IN  IF Incoming(n) = {} THEN "ready"
      ELSE IF \E e \in Incoming(n) : st[e[1]] = Absent THEN "blocked"
      ELSE IF active = {} THEN (IF Counts(n) THEN "blocked" ELSE "skipped")
      ELSE IF Cardinality(succeeded) >= minimum THEN "ready"
      ELSE IF Cardinality(succeeded) + Cardinality(pending) < minimum THEN "blocked"
      ELSE "waiting"

\* The nodes reachable from n along at least one edge (the breadth-first walk
\* of reachesSatisfiedJoin, which stops early but visits the same nodes).
Downstream(n) ==
  LET reach[k \in Nat] ==
        IF k = 0 THEN Successors(n)
        ELSE reach[k-1] \cup UNION {Successors(m) : m \in reach[k-1]}
  IN  reach[Cardinality(Node)]

ReachesSatisfiedJoin(st, n) ==
  \E j \in Downstream(n) : IsJoin(j) /\ st[j] = "succeeded"

\* A settled descendant that forbids completing the workflow.
FailsWorkflow(st, n) ==
  /\ Required[n]
  /\ st[n] \notin {"succeeded", "skipped"}
  /\ \/ st[n] \in {"unknown", "manual_intervention"}
     \/ Kind[n] # "tool" /\ ~ReachesSatisfiedJoin(st, n)

\* Fault: only required descendants keep the workflow open.
SettlementOfRequired(st, root, descendants) ==
  IF st[root] \in {"failed", "cancelled", "unknown", "manual_intervention"} THEN "failed"
  ELSE IF \/ st[root] # "succeeded"
          \/ \E n \in descendants : Required[n] /\ st[n] \notin SettledNode
       THEN "open"
  ELSE IF \E n \in descendants : FailsWorkflow(st, n) THEN "failed"
  ELSE "completed"

\* workflowSettlement for a workflow with this root and these admitted
\* descendants: "open" while it must keep running.
Settlement(st, root, descendants) ==
  IF st[root] \in {"failed", "cancelled", "unknown", "manual_intervention"} THEN "failed"
  ELSE IF \/ st[root] # "succeeded"
          \/ \E n \in descendants : st[n] \notin SettledNode
       THEN "open"
  ELSE IF \E n \in descendants : FailsWorkflow(st, n) THEN "failed"
  ELSE "completed"
=============================================================================
