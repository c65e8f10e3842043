-------------------------- MODULE MCWorkflowLeases --------------------------
(***************************************************************************)
(* Two instances in one run, of which a behaviour enters only one.          *)
(*                                                                         *)
(* main alone: a root and two children that write the same workspace, of    *)
(* which a may be attempted twice.  The clock is long enough for a lease to *)
(* expire, to be recovered, and for the retry to be claimed and to expire;  *)
(* a heartbeat may be one tick old when it is committed, so that an expired *)
(* lease comes back beside the one that was granted meanwhile.              *)
(*                                                                         *)
(* main without a, beside strict: two workflows of one provider capacity    *)
(* group during a rolling change of its limit.  main still allows two       *)
(* leases, strict only one, and the strictest workflow that holds a lease   *)
(* decides.                                                                 *)
(***************************************************************************)
EXTENDS WorkflowAuthority

CONSTANTS main, root, a, b, strict, other,
  CapacityTime   \* the clock's bound in the instance with strict

MCWorkflow       == {main, strict}
MCNode           == {root, a, b, other}
MCEdge           == {}
MCEdgeStatus     == [e \in MCEdge |-> NoCondition]
MCJoinMinimum    == [n \in MCNode |-> 0]
MCRequired       == [n \in MCNode |-> n # b]
MCKind           == [n \in MCNode |-> "agent"]
MCWorkflowOf     == [n \in MCNode |-> IF n = other THEN strict ELSE main]
MCRootOf         == [w \in MCWorkflow |-> IF w = strict THEN other ELSE root]
MCEffectClass    == [n \in MCNode |-> IF n = b THEN "workspace_write" ELSE "pure"]
MCMaxAttempts    == [n \in MCNode |-> IF n = a THEN 2 ELSE 1]
MCConflictKeys   == [n \in MCNode |-> IF n \in {a, b} THEN {"workspace"} ELSE {}]
MCIdempotencyKey == [n \in MCNode |-> NoKey]
MCInputDigest    == [n \in MCNode |-> "input"]
MCCapacityLimit  == [w \in MCWorkflow |-> [g \in {"provider"} |-> IF w = strict THEN 1 ELSE 2]]
MCMaxAgentTasks  == [w \in MCWorkflow |-> 3]

\* Only the states of one instance are explored: strict never meets a, and meets b only
\* before a lease can expire.  A workflow that is paused, failed or terminated is not
\* followed to the last tick of the clock.
OneInstance ==
  /\ now = MaxTime => wf[main] \in {"running", "completed", "cancelled", Absent}
  /\ wf[strict] # Absent =>
       /\ node[a] = Absent
       /\ now <= IF node[b] = Absent THEN CapacityTime ELSE 1
=============================================================================
