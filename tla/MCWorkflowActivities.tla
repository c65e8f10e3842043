------------------------- MODULE MCWorkflowActivities -------------------------
(***************************************************************************)
(* A root that admits one of two things.  Tool activities that carry one    *)
(* idempotency key: send, which may be attempted twice, and beside it       *)
(* either resend with the same input or write with another input and an     *)
(* unsafe effect.  Or a graph of agents: c waits for b, and for a only if a *)
(* succeeds; a quorum join wants two of the three, or a join of all waits   *)
(* for a and b on the same conditions.                                      *)
(***************************************************************************)
EXTENDS WorkflowAuthority

CONSTANTS main, root, send, resend, write, key, a, b, c, join, all

Tool   == {send, resend, write}
Branch == {a, b, c}
Join   == {join, all}

MCWorkflow       == {main}
MCNode           == {root} \cup Tool \cup Branch \cup Join
MCEdge           == {<<a, c>>, <<b, c>>, <<a, all>>, <<b, all>>} \cup {<<n, join>> : n \in Branch}
MCEdgeStatus     == [e \in MCEdge |-> IF e \in {<<a, c>>, <<a, all>>} THEN "succeeded" ELSE NoCondition]
MCJoinMinimum    == [n \in MCNode |-> IF n = join THEN 2 ELSE 0]
MCRequired       == [n \in MCNode |-> TRUE]
MCKind           == [n \in MCNode |-> IF n \in Tool THEN "tool"
                                      ELSE IF n \in Join THEN "decision" ELSE "agent"]
MCWorkflowOf     == [n \in MCNode |-> main]
MCRootOf         == [w \in MCWorkflow |-> root]
MCEffectClass    == [n \in MCNode |-> IF n = write THEN "workspace_write"
                                      ELSE IF n \in Tool THEN "external_idempotent" ELSE "pure"]
MCMaxAttempts    == [n \in MCNode |-> IF n \in {send, a} THEN 2 ELSE IF n \in Join THEN 0 ELSE 1]
MCConflictKeys   == [n \in MCNode |-> IF n \in Tool THEN {"workspace"} ELSE {}]
MCIdempotencyKey == [n \in MCNode |-> IF n \in Tool THEN key ELSE NoKey]
MCInputDigest    == [n \in MCNode |-> IF n = write THEN "written" ELSE "sent"]
MCCapacityLimit  == [w \in MCWorkflow |-> [g \in {} |-> 0]]
MCMaxAgentTasks  == [w \in MCWorkflow |-> 4]

(***************************************************************************)
(* Only these states are explored further: what the root admits once it     *)
(* runs, be it tools, of which one of resend and write, or a graph, whose   *)
(* leases do not expire.  Pausing, which leases explores, is not followed,  *)
(* and a workflow that failed or was terminated not to the last tick.       *)
(***************************************************************************)
OneInstance ==
  /\ node[root] \in {"scheduled", "leased"} => NodesOf(main) = {root}
  /\ node[resend] = Absent \/ node[write] = Absent
  /\ wf[main] # "paused"
  /\ now = MaxTime => wf[main] \in {"running", "completed", "cancelled"}
  /\ node[a] # Absent => now <= LeaseTime /\ \A m \in Tool : node[m] = Absent
=============================================================================
