------------------------ MODULE WorkflowTransitions ------------------------
(***************************************************************************)
(* The transition tables of a durable workflow, from                       *)
(* packages/core-sdk/src/workflow.ts.  The event reducer rejects an event   *)
(* whose transition is not in its table; the rejected transaction is then   *)
(* rolled back, so in the models an illegal event disables the action.      *)
(***************************************************************************)

WorkflowState ==
  {"created", "running", "waiting", "paused", "cancelling",
   "cancelled", "completed", "failed", "terminated"}

NodeState ==
  {"proposed", "admitted", "scheduled", "leased", "running", "waiting",
   "verifying", "retry_wait", "unknown", "skipped", "succeeded", "failed",
   "cancelled", "manual_intervention"}

AttemptState ==
  {"scheduled", "leased", "running", "waiting", "verifying", "retry_wait",
   "unknown", "succeeded", "failed", "cancelled", "manual_intervention"}

TaskState ==
  {"ready", "leased", "completed", "failed", "cancelled", "unknown"}

WorkflowTransitions ==
  [created    |-> {"running", "cancelled", "terminated"},
   running    |-> {"waiting", "paused", "cancelling", "completed", "failed", "terminated"},
   waiting    |-> {"running", "paused", "cancelling", "failed", "terminated"},
   paused     |-> {"running", "cancelling", "terminated"},
   cancelling |-> {"cancelled", "failed", "terminated"},
   cancelled  |-> {},
   completed  |-> {},
   failed     |-> {},
   terminated |-> {}]

NodeTransitions ==
  [proposed   |-> {"admitted", "cancelled", "failed"},
   admitted   |-> {"scheduled", "waiting", "skipped", "cancelled", "failed"},
   scheduled  |-> {"leased", "succeeded", "cancelled", "failed"},
   leased     |-> {"running", "scheduled", "unknown", "cancelled"},
   running    |-> {"waiting", "verifying", "retry_wait", "unknown", "succeeded",
                   "failed", "cancelled"},
   waiting    |-> {"scheduled", "succeeded", "cancelled", "failed"},
   verifying  |-> {"succeeded", "retry_wait", "failed", "manual_intervention"},
   retry_wait |-> {"scheduled", "failed", "cancelled"},
   unknown    |-> {"succeeded", "failed", "manual_intervention"},
   skipped    |-> {},
   succeeded  |-> {},
   failed     |-> {"retry_wait"},
   cancelled  |-> {},
   manual_intervention |-> {}]

AttemptTransitions ==
  [scheduled  |-> {"leased", "cancelled"},
   leased     |-> {"running", "scheduled", "unknown", "cancelled"},
   running    |-> {"waiting", "verifying", "retry_wait", "unknown", "succeeded",
                   "failed", "cancelled"},
   waiting    |-> {"running", "retry_wait", "succeeded", "failed", "cancelled"},
   verifying  |-> {"succeeded", "retry_wait", "failed", "manual_intervention"},
   retry_wait |-> {"scheduled", "failed", "cancelled"},
   unknown    |-> {"succeeded", "failed", "manual_intervention"},
   succeeded  |-> {},
   failed     |-> {},
   cancelled  |-> {},
   manual_intervention |-> {}]

\* The states the code lists as the end of a workflow, and those in which a
\* node counts as settled (an unknown node is settled, yet may be resolved).
TerminalWorkflow == {"cancelled", "completed", "failed", "terminated"}

SettledNode ==
  {"unknown", "skipped", "succeeded", "failed", "cancelled", "manual_intervention"}

\* The value of a workflow, node or attempt the projection does not contain
\* yet, and of a node that supersedeFailedNodes has removed from it.
Absent == "absent"
Superseded == "superseded"

\* Legality of one reducer event.
WorkflowMay(from, to) == from \in WorkflowState /\ to \in WorkflowTransitions[from]
NodeMay(from, to)     == from \in NodeState /\ to \in NodeTransitions[from]
AttemptMay(from, to)  == from \in AttemptState /\ to \in AttemptTransitions[from]
=============================================================================
