----------------------------- MODULE MCPlanning -----------------------------
(***************************************************************************)
(* Four instances in one run, of which a behaviour takes one (part): a      *)
(* plan of three steps, in which 3 depends on 1 and shares a conflict key   *)
(* with 2, and only 1 may be repeated; two attempts that write in Git       *)
(* worktrees of one workspace; two that write in copies of one directory;   *)
(* and a strict review plan of two items, of which a revision drops the one *)
(* and may change the text of the other, under two actors.                  *)
(* The supervisor hands a step to its executor and waits for the result:    *)
(* what an attempt does to the workspace is no part of its state.  A strict *)
(* plan is the Runtime's own and no supervisor runs it.  So the four are    *)
(* checked side by side.                                                    *)
(***************************************************************************)
EXTENDS PlanExecution, GitWorkspace, DirectoryWorkspace, ReviewPlan

VARIABLE part

MCDeps == [s \in Step |-> IF s = 3 THEN {1} ELSE {}]
MCKeys == [s \in Step |-> IF s = 1 THEN {"a"} ELSE {"b"}]

MCItemsOf == [d1 |-> {"i1", "i2"}, d2 |-> {"i1"}, d3 |-> {"i1"}]
MCTextOf == [d1 |-> [i1 |-> "t", i2 |-> "t"], d2 |-> [i1 |-> "t"], d3 |-> [i1 |-> "u"]]
MCCriteriaOf == [d1 |-> [i1 |-> {"c"}, i2 |-> {"c"}], d2 |-> [i1 |-> {"c"}], d3 |-> [i1 |-> {"c"}]]

MCInit ==
  /\ part \in {"plan", "git", "directory", "strict"}
  /\ Init /\ GitInit /\ DirInit /\ PlanInit
  /\ part # "plan" => input = [failFast |-> TRUE, owns |-> TRUE]

MCNext ==
  /\ UNCHANGED part
  /\ \/ part = "plan" /\ Next /\ UNCHANGED <<gitVars, dirVars, planVars>>
     \/ part = "git" /\ GitNext /\ UNCHANGED <<vars, dirVars, planVars>>
     \/ part = "directory" /\ DirNext /\ UNCHANGED <<vars, gitVars, planVars>>
     \/ part = "strict" /\ PlanNext /\ UNCHANGED <<vars, gitVars, dirVars>>

MCSpec ==
  /\ MCInit /\ [][MCNext]_<<part, vars, gitVars, dirVars, planVars>>
  /\ WF_vars(part = "plan" /\ (Schedule \/ Overtaken \/ Join))
  /\ \A s \in Step : WF_vars(part = "plan" /\ Worker(s))
  /\ \A t \in GitAttempt : WF_gitVars(part = "git" /\ Advance(t))
  /\ \A t \in DirAttempt : WF_dirVars(part = "directory" /\ Proceed(t))
  /\ \A a \in Actor : WF_planVars(part = "strict" /\ PlanStep(a))

-----------------------------------------------------------------------------
(* The properties of the instances *)

\* A plan in execution, an attempt in a worktree or a copy, a tool and a review: whatever
\* has started ends, and every way out gives back the lease it held.
WorkEnds == PlanEnds /\ AttemptsEnd /\ CopiesEnd /\ ReviewsReturn
=============================================================================
