--------------------------- MODULE PlanExecution ---------------------------
(***************************************************************************)
(* A plan of dependent steps, executed by DagSupervisorV1: the scheduler    *)
(* that claims batches of ready steps, the workers that bind, execute,      *)
(* record and verify each attempt, retries, the end of the plan, the        *)
(* recovery after a crash (DagRecoveryV1) and the revision of a plan that   *)
(* made no progress (ReplanCoordinatorV1).                                  *)
(*                                                                          *)
(* Every change is one commit of the session journal.  A commit whose       *)
(* revision is stale is rebuilt on the current projection, so a commit is   *)
(* one step; it may also fail, and then the worker or supervisor that asked *)
(* for it throws.  Tokens, tool calls and turns are budgeted alike: the     *)
(* model keeps the turns.                                                   *)
(***************************************************************************)
EXTENDS Naturals, FiniteSetsExt

CONSTANTS
  Step,          \* steps of the plan, numbered by their order
  Deps,          \* dependencies of a step
  Keys,          \* conflict keys of a step
  Idempotent,    \* steps whose retry safety is read_only_idempotent
  Ceiling,       \* maxTurns of every step's own budget
  MaxAttempts,   \* maxAttempts of every step
  ParentTurns, MaxChildRuns, MaxParallel,  \* the parent's budget
  MaxEvents      \* bound: crashes, commits that fail, deadlines that pass, aborts and
                 \* revisions without progress, together

\* A definition has finitely many steps and positive limits (validatePlanStepV1,
\* validateBudget).
ASSUME PlanAssumption ==
  /\ IsFiniteSet(Step) /\ Step \subseteq Nat
  /\ Deps \in [Step -> SUBSET Step]
  /\ Idempotent \subseteq Step
  /\ Ceiling \in Nat \ {0} /\ MaxAttempts \in Nat \ {0}
  /\ ParentTurns \in Nat /\ MaxChildRuns \in Nat /\ MaxParallel \in Nat
  /\ MaxEvents \in Nat

VARIABLES
  input,    \* failureMode is fail_fast, and the supervisor is the terminalOwner
  plan,     \* state of the plan, its revision, and its replan decisions
  run,      \* state of the parent run
  step,     \* state of each step
  att,      \* the attempts of each step: their number, and of the last one its state,
            \* whether a request is bound to it and a result recorded
  usage,    \* turns recorded for the run
  made,     \* attempts created in the run, those of replaced steps included
  sup,      \* position of execute
  work,     \* position of each step's worker, its lease and the usage it has read
  resumed,  \* steps with a claim that recovery handed to the next execute
  abort,    \* input.signal is aborted
  stop,     \* the controller of the batch is aborted
  late,     \* steps whose deadline has passed
  ran,      \* executions started, in this revision of the plan, of the steps that
            \* are not idempotent
  events

vars == <<input, plan, run, step, att, usage, made, sup, work, resumed, abort, stop, late, ran, events>>

PlanStates == {"draft", "running", "blocked", "succeeded", "failed", "cancelled"}
StepStates == {"pending", "running", "verifying", "succeeded", "failed", "blocked",
               "cancelled", "interrupted"}
AttemptStates == {"none", "running", "execution_failed", "verifying", "verified", "rejected",
                  "cancelled", "interrupted"}
AttemptRow == [n : 0 .. MaxAttempts, state : AttemptStates, bound : BOOLEAN, result : BOOLEAN]
WorkPositions == {"none", "begin", "request", "execute", "result", "verify", "done", "threw"}
WorkOutcomes == {"none", "succeeded", "failed", "blocked", "cancelled", "interrupted"}

TypeOK ==
  /\ input \in [failFast : BOOLEAN, owns : BOOLEAN]
  /\ plan \in [state : PlanStates, revision : 1 .. 2, idle : 0 .. 2]
  /\ run \in {"running", "completed", "failed", "aborted", "interrupted"}
  /\ step \in [Step -> StepStates]
  /\ att \in [Step -> AttemptRow]
  /\ usage \in Nat
  /\ made \in 0 .. MaxChildRuns
  /\ sup \in {"idle", "loop", "batch", "ended", "threw", "crashed"}
  /\ work \in [Step -> [at : WorkPositions, lease : 0 .. Ceiling, used : 0 .. Ceiling,
                        read : Nat, out : WorkOutcomes]]
  /\ resumed \subseteq Step
  /\ abort \in BOOLEAN /\ stop \in BOOLEAN
  /\ late \subseteq Step
  /\ ran \in [Step -> 0 .. MaxAttempts]
  /\ events \in 0 .. MaxEvents

NoAttempt == [n |-> 0, state |-> "none", bound |-> FALSE, result |-> FALSE]
NoWork == [at |-> "none", lease |-> 0, used |-> 0, read |-> 0, out |-> "none"]

Init ==
  /\ input \in [failFast : BOOLEAN, owns : BOOLEAN]
  /\ plan = [state |-> "draft", revision |-> 1, idle |-> 0]
  /\ run = "running"
  /\ step = [s \in Step |-> "pending"]
  /\ att = [s \in Step |-> NoAttempt]
  /\ usage = 0 /\ made = 0 /\ events = 0
  /\ sup = "idle"
  /\ work = [s \in Step |-> NoWork]
  /\ resumed = {} /\ late = {}
  /\ abort = FALSE /\ stop = FALSE
  /\ ran = [s \in Step |-> 0]

journalVars == <<input, plan, run, step, att, usage, made>>
hostVars == <<resumed, abort, stop, late, ran>>

(***************************************************************************)
(* Counting.                                                                *)
(***************************************************************************)

Min2(a, b) == IF a < b THEN a ELSE b
Less(a, b) == IF a < b THEN 0 ELSE a - b     \* Math.max(0, a - b)

Active == {s \in Step : step[s] \in {"running", "verifying"}}
ActiveAttempt(s) == att[s].state \in {"running", "verifying"}

\* countCapacity: the attempts of the steps of the current revision.
Attempts == Cardinality({p \in Step \X (1 .. MaxAttempts) : p[2] <= att[p[1]].n})

\* readyPlanStepIds, with the test of the dependencies dropped.
ReadyAnyway == {s \in Step : step[s] = "pending" /\ att[s].n < MaxAttempts}

Ready == {s \in Step : /\ step[s] = "pending"
                       /\ att[s].n < MaxAttempts
                       /\ \A d \in Deps[s] : step[d] = "succeeded"}

\* selectConflictFree: in order, skip a step that shares a key with one taken, up
\* to n steps.
Free(s, taken) == \A t \in taken : Keys[s] \cap Keys[t] = {}
\* The selection, with a step compared with the active steps only.
SelectTogether(ready, n) ==
  {chosen \in SUBSET ready : \A s \in ready :
     LET before == {t \in chosen : t < s}
     IN s \in chosen <=> Cardinality(before) < n /\ Free(s, Active)}

\* The set of the one selection.
Select(ready, n) ==
  {chosen \in SUBSET ready : \A s \in ready :
     LET before == {t \in chosen : t < s}
     IN s \in chosen <=> Cardinality(before) < n /\ Free(s, before)}

\* allocateBudgetLeases: in order, an equal share of what remains, at least one turn.
\* The set of the one allocation.
Leases(steps, remaining) ==
  {lease \in [steps -> 0 .. Ceiling] : \A s \in steps :
     LET before == {t \in steps : t < s}
         left == Less(remaining, MapThenSumSet(LAMBDA t : lease[t], before))
         share == left \div (Cardinality(steps) - Cardinality(before))
     IN lease[s] = Min2(Ceiling, IF share < 1 THEN 1 ELSE share)}

RemainingTurns == Less(ParentTurns, usage)

(***************************************************************************)
(* Commits that succeed or fail.                                            *)
(***************************************************************************)

Commits == UNCHANGED events
Happens == events < MaxEvents /\ events' = events + 1
Throws == Happens /\ UNCHANGED journalVars

At(s, p) == work' = [work EXCEPT ![s].at = p]
Done(s, o) == work' = [work EXCEPT ![s] = [NoWork EXCEPT !.at = "done", !.out = o]]

\* runBatch: under fail_fast the first outcome that is not a success aborts the
\* controller that all workers of the batch share.
Signals(o) == stop' = (stop \/ (input.failFast /\ o # "succeeded"))

\* A new attempt is created and set running.
NewAttempt(s) == [n |-> att[s].n + 1, state |-> "running", bound |-> FALSE, result |-> FALSE]
LastState(s, st) == [att EXCEPT ![s].state = st]

(***************************************************************************)
(* finalize: pending steps are cancelled, the plan ends, and so does the    *)
(* run when the supervisor owns its end, in one commit.                     *)
(***************************************************************************)

RunEnd(state) == CASE state = "succeeded" -> "completed"
                   [] state = "cancelled" -> "aborted"
                   [] OTHER -> "failed"

\* The end of a plan that leaves its pending steps as they are.
TerminalLeavesPending(state) ==
  /\ plan' = [plan EXCEPT !.state = state]
  /\ run' = IF input.owns THEN RunEnd(state) ELSE run
  /\ UNCHANGED <<input, step, att, usage, made>>

Terminal(state) ==
  /\ plan' = [plan EXCEPT !.state = state]
  /\ step' = [s \in Step |-> IF step[s] = "pending" THEN "cancelled" ELSE step[s]]
  /\ run' = IF input.owns THEN RunEnd(state) ELSE run
  /\ UNCHANGED <<input, att, usage, made>>

finalize(state) ==
  \/ /\ plan.state = "running" /\ Active = {}
     /\ Terminal(state) /\ sup' = "ended" /\ Commits
  \/ /\ plan.state # "running" /\ sup' = "ended"
     /\ UNCHANGED journalVars /\ Commits
  \/ /\ plan.state = "running" /\ Active # {} /\ sup' = "threw"
     /\ UNCHANGED journalVars /\ Commits
  \/ Throws /\ sup' = "threw"

(***************************************************************************)
(* execute: start the plan, run the claims that recovery resumed, then      *)
(* schedule batch after batch.                                              *)
(***************************************************************************)

\* validateResumedClaims: the resumed steps run within the parent's budget, at the
\* full ceiling of their steps.
ResumeFits ==
  /\ Cardinality(resumed) <= MaxParallel
  /\ Attempts <= MaxChildRuns
  /\ usage + Ceiling * Cardinality(resumed) <= ParentTurns

Begins(steps, lease) ==
  work' = [s \in Step |-> IF s \in steps
                          THEN [NoWork EXCEPT !.at = "begin", !.lease = lease[s]]
                          ELSE IF work[s].at \in {"done", "threw"} THEN NoWork ELSE work[s]]

Execute ==
  /\ sup \in {"idle", "threw"} /\ run = "running" /\ plan.state \in {"draft", "running"}
  /\ \A s \in Step : work[s].at \in {"none", "done", "threw"}
  /\ \/ /\ plan.state = "draft" /\ plan' = [plan EXCEPT !.state = "running"]
        /\ sup' = "loop" /\ UNCHANGED <<work, resumed>> /\ Commits
     \/ /\ plan.state = "running" /\ resumed = {} /\ UNCHANGED <<plan, work, resumed>>
        /\ sup' = "loop" /\ Commits
     \/ /\ plan.state = "running" /\ resumed # {} /\ UNCHANGED plan
        /\ resumed' = {} /\ Commits
        /\ IF ResumeFits
           THEN Begins(resumed, [s \in Step |-> Ceiling]) /\ sup' = "batch"
           ELSE UNCHANGED work /\ sup' = "threw"
  /\ stop' = abort
  /\ UNCHANGED <<input, run, step, att, usage, made, abort, late, ran>>

Capacity == Min2(MaxParallel, Less(MaxChildRuns, Attempts))
Chosen == Select(Ready \ late, IF RemainingTurns = 0 THEN 0 ELSE Capacity)
Spoiled == {s \in Step : step[s] \in {"failed", "interrupted", "blocked"}}

\* claim: every selected step gets an attempt, in one commit.
Claim ==
  /\ Active = {}
  /\ ~ (input.failFast /\ (Spoiled # {} \/ Ready \cap late # {}))
  /\ \E chosen \in Chosen \ {{}} :
     \/ /\ att' = [s \in Step |-> IF s \in chosen THEN NewAttempt(s) ELSE att[s]]
        /\ step' = [s \in Step |-> IF s \in chosen THEN "running" ELSE step[s]]
        /\ made' = made + Cardinality(chosen)
        /\ \E lease \in Leases(chosen, RemainingTurns) : Begins(chosen, lease)
        /\ sup' = "batch"
        /\ Commits
        /\ UNCHANGED <<input, plan, run, usage>>
     \/ Throws /\ sup' = "threw" /\ UNCHANGED work

\* The plan is ended only by a success or a spoiled step.
SettlesWhenSpoiled ==
  /\ Active = {} /\ UNCHANGED work
  /\ \/ (\A s \in Step : step[s] = "succeeded") /\ finalize("succeeded")
     \/ {} \in Chosen /\ Spoiled # {} /\ finalize("failed")

\* No batch can be claimed: the plan is complete, or it is blocked, failed, out of
\* budget or deadlocked.
Settles ==
  /\ Active = {}
  /\ \/ {} \in Chosen
     \/ input.failFast /\ (Spoiled # {} \/ Ready \cap late # {})
  /\ UNCHANGED work
  /\ finalize(IF \A s \in Step : step[s] = "succeeded" THEN "succeeded"
              ELSE IF \E s \in Step : step[s] \in {"failed", "interrupted"} THEN "failed"
              ELSE "blocked")

Schedule ==
  /\ sup = "loop" /\ plan.state = "running"
  /\ \/ abort /\ finalize("cancelled") /\ UNCHANGED work
     \/ ~ abort /\ Active # {} /\ sup' = "threw" /\ Commits /\ UNCHANGED <<journalVars, work>>
     \/ ~ abort /\ Claim
     \/ ~ abort /\ Settles
  /\ UNCHANGED hostVars

\* The plan ended under the supervisor, which returns what the journal holds.
Overtaken ==
  /\ sup = "loop" /\ plan.state # "running"
  /\ sup' = "ended"
  /\ UNCHANGED <<journalVars, work, hostVars, events>>

Batch == {s \in Step : work[s].at # "none"}

\* terminalWorkerOutcome and terminalPlanState.
BatchEnd ==
  LET outs == {work[s].out : s \in Batch}
  IN IF "blocked" \in outs THEN "blocked"
     ELSE IF outs \cap {"failed", "interrupted"} # {} THEN "failed"
     ELSE "cancelled"

Join ==
  /\ sup = "batch"
  /\ \/ /\ \E s \in Batch : work[s].at = "threw"
        /\ sup' = "threw" /\ Commits /\ UNCHANGED journalVars
     \/ /\ \A s \in Batch : work[s].at = "done"
        /\ IF abort THEN finalize("cancelled")
           ELSE IF input.failFast /\ \E s \in Batch : work[s].out # "succeeded"
                THEN finalize(BatchEnd)
                ELSE sup' = "loop" /\ Commits /\ UNCHANGED journalVars
  /\ UNCHANGED <<work, hostVars>>

(***************************************************************************)
(* runClaim: one worker.                                                    *)
(***************************************************************************)

\* terminateAttempt: attempt and step leave their active states together; u turns
\* are recorded.
terminateAttempt(s, o, u) ==
  \/ /\ att' = IF ActiveAttempt(s)
               THEN LastState(s, IF o = "cancelled" THEN o ELSE "interrupted") ELSE att
     /\ step' = [step EXCEPT ![s] = IF ActiveAttempt(s) THEN o ELSE @]
     /\ usage' = IF ActiveAttempt(s) THEN usage + u ELSE usage
     /\ Done(s, o) /\ Signals(o) /\ Commits
     /\ UNCHANGED <<input, plan, run, made>>
  \/ Throws /\ At(s, "threw") /\ UNCHANGED stop

\* It reads the projection, the usage included, before it asks for the request.
Begin(s) ==
  /\ work[s].at = "begin"
  /\ \/ s \in late /\ terminateAttempt(s, "failed", 0)
     \/ s \notin late /\ stop /\ terminateAttempt(s, "cancelled", 0)
     \/ /\ s \notin late /\ ~ stop
        /\ work' = [work EXCEPT ![s].at = IF att[s].bound THEN "execute" ELSE "request",
                                ![s].read = usage]
        /\ UNCHANGED <<journalVars, stop, events>>
  /\ UNCHANGED <<sup, resumed, abort, late, ran>>

\* The request is built and bound to the attempt; a request that cannot be built
\* or bound interrupts the attempt.
Bind(s) ==
  /\ work[s].at = "request"
  /\ \/ terminateAttempt(s, "interrupted", 0)
     \/ /\ att' = [att EXCEPT ![s].bound = TRUE]
        /\ At(s, "execute") /\ Commits
        /\ UNCHANGED <<input, plan, run, step, usage, made, stop>>
  /\ UNCHANGED <<sup, resumed, abort, late, ran>>

\* executor.execute: the child ends with a result, or crashes, or its result is
\* invalid or cannot be stored.  A child uses at most its lease.
Execution(s) ==
  /\ work[s].at = "execute"
  /\ \/ stop /\ terminateAttempt(s, "cancelled", 0) /\ UNCHANGED ran
     \/ /\ ran' = [ran EXCEPT ![s] = @ + (IF s \in Idempotent THEN 0 ELSE 1)]
        /\ \E u \in 0 .. work[s].lease :
             \/ /\ work' = [work EXCEPT ![s].at = "result", ![s].used = u]
                /\ UNCHANGED <<journalVars, stop, events>>
             \/ terminateAttempt(s, IF stop THEN "cancelled" ELSE "interrupted", Ceiling)
  /\ UNCHANGED <<sup, resumed, abort, late>>

\* The retry of an attempt that failed: the step is idempotent, attempts, children
\* and turns are left.  read is the usage known when the worker began.
hasRemainingRunBudget(recorded, current) == recorded + current < ParentTurns
\* A retry that does not ask whether the step may be repeated.
RetryAllowedAnyStep(s, read, u) ==
  /\ ~ stop /\ s \notin late
  /\ att[s].n < MaxAttempts
  /\ Attempts < MaxChildRuns
  /\ hasRemainingRunBudget(read, u) /\ hasRemainingRunBudget(usage, u)

\* A retry that does not look at maxAttempts.
RetryAllowedUnlimited(s, read, u) ==
  /\ s \in Idempotent
  /\ ~ stop /\ s \notin late
  /\ Attempts < MaxChildRuns
  /\ hasRemainingRunBudget(read, u) /\ hasRemainingRunBudget(usage, u)

RetryAllowed(s, read, u) ==
  /\ s \in Idempotent
  /\ ~ stop /\ s \notin late
  /\ att[s].n < MaxAttempts
  /\ Attempts < MaxChildRuns
  /\ hasRemainingRunBudget(read, u) /\ hasRemainingRunBudget(usage, u)

remainingAttemptBudget(read, u) ==
  LET left == Min2(Ceiling, Less(ParentTurns, read + u)) IN IF left < 1 THEN 1 ELSE left

\* The retry without its successor in the same commit: the step is left pending.
RetryLater(s, read, u) ==
  /\ att' = LastState(s, "execution_failed")
  /\ step' = [step EXCEPT ![s] = "pending"]
  /\ work' = [work EXCEPT ![s] = [NoWork EXCEPT !.at = "begin",
                                               !.lease = remainingAttemptBudget(read, u)]]
  /\ UNCHANGED <<input, plan, run, stop, made>>

\* The failed attempt, its successor and the step's way back to running are one commit.
Retry(s, read, u) ==
  /\ att' = [att EXCEPT ![s] = NewAttempt(s)]
  /\ step' = [step EXCEPT ![s] = "running"]
  /\ made' = made + 1
  /\ work' = [work EXCEPT ![s] = [NoWork EXCEPT !.at = "begin",
                                               !.lease = remainingAttemptBudget(read, u)]]
  /\ UNCHANGED <<input, plan, run, stop>>

\* The result is recorded: a success goes to verification, a failure is retried or
\* ends the step.
Result(s) ==
  LET w == work[s]
      recorded == [att EXCEPT ![s].state = "verifying", ![s].result = TRUE]
  IN
  /\ w.at = "result"
  /\ \/ /\ att' = recorded                                     \* succeeded
        /\ step' = [step EXCEPT ![s] = "verifying"]
        /\ usage' = usage + w.used
        /\ work' = [work EXCEPT ![s] = [NoWork EXCEPT !.at = "verify"]] /\ Commits
        /\ UNCHANGED <<input, plan, run, made, stop>>
     \/ /\ RetryAllowed(s, w.read, w.used)                     \* failed, retryable
        /\ Retry(s, w.read, w.used)
        /\ usage' = usage + w.used /\ Commits
     \/ \E o \in {"failed", "cancelled"} :                     \* failed or cancelled
        /\ att' = [att EXCEPT ![s].state = IF o = "failed" THEN "execution_failed" ELSE o,
                             ![s].result = TRUE]
        /\ step' = [step EXCEPT ![s] = o]
        /\ usage' = usage + w.used
        /\ Done(s, o) /\ Signals(o) /\ Commits
        /\ UNCHANGED <<input, plan, run, made>>
     \/ Throws /\ At(s, "threw") /\ UNCHANGED stop
  /\ UNCHANGED <<sup, resumed, abort, late, ran>>

\* The verifiers decide: a pass, a rejection that may be retried, a rejection or a
\* block.  An abort during the verification cancels the attempt.
Verdict(s) ==
  /\ work[s].at = "verify"
  /\ \/ stop /\ terminateAttempt(s, "cancelled", 0)
     \/ /\ ~ stop /\ RetryAllowed(s, usage, 0)
        /\ Retry(s, usage, 0) /\ Commits /\ UNCHANGED usage
     \/ /\ ~ stop
        /\ \E o \in {"succeeded", "failed", "blocked"} :
             /\ att' = LastState(s, IF o = "succeeded" THEN "verified" ELSE "rejected")
             /\ step' = [step EXCEPT ![s] = o]
             /\ Done(s, o) /\ Signals(o) /\ Commits
        /\ UNCHANGED <<input, plan, run, usage, made>>
     \/ ~ stop /\ Throws /\ At(s, "threw") /\ UNCHANGED stop
  /\ UNCHANGED <<sup, resumed, abort, late, ran>>

(***************************************************************************)
(* Crash, recovery and revision.                                            *)
(***************************************************************************)

Crash ==
  /\ Happens
  /\ sup \in {"loop", "batch", "threw"}
  /\ sup' = "crashed"
  /\ work' = [s \in Step |-> NoWork]
  /\ resumed' = {} /\ abort' = FALSE /\ stop' = FALSE
  /\ UNCHANGED <<journalVars, late, ran>>

Candidates == {s \in Step : ActiveAttempt(s)}

\* conservativeUsage: a bound attempt without a result may have used its ceiling.
Unknown == {s \in Candidates : att[s].bound /\ ~ att[s].result}

\* Recovery that repeats a step whatever its retry safety.
ReschedulableAnyStep(s, kept, turns) ==
  /\ att[s].bound
  /\ s \notin late
  /\ att[s].n < MaxAttempts
  /\ Cardinality(kept) < Less(MaxChildRuns, Attempts)
  /\ Cardinality(kept) < MaxParallel
  /\ Free(s, kept)
  /\ Ceiling <= turns

\* recoveryBlock, for a step when the steps of kept are already rescheduled and
\* turns remain.
Reschedulable(s, kept, turns) ==
  /\ att[s].bound
  /\ s \in Idempotent
  /\ s \notin late
  /\ att[s].n < MaxAttempts
  /\ Cardinality(kept) < Less(MaxChildRuns, Attempts)
  /\ Cardinality(kept) < MaxParallel
  /\ Free(s, kept)
  /\ Ceiling <= turns

\* The candidates are decided in order: each first pays its own unknown usage, and
\* a rescheduled one then reserves its ceiling.  ok are those whose dependencies
\* the resolver can rebuild.  The set of the one decision.
Rescheduled(ok) ==
  {kept \in SUBSET Candidates : \A s \in Candidates :
     LET before == {t \in kept : t < s}
         spent == Cardinality({t \in Unknown : t <= s}) + Cardinality(before)
     IN s \in kept <=> /\ s \in ok
                      /\ Reschedulable(s, before, Less(RemainingTurns, Ceiling * spent))}

Recovered(kept) ==
  /\ att' = [s \in Step |->
       IF s \notin Candidates THEN att[s]
       ELSE IF s \in kept
            THEN [NewAttempt(s) EXCEPT !.bound = TRUE]
            ELSE [att[s] EXCEPT !.state = "interrupted"]]
  /\ step' = [s \in Step |-> IF s \notin Candidates THEN step[s]
                             ELSE IF s \in kept THEN "running" ELSE "blocked"]
  /\ usage' = usage + Ceiling * Cardinality(Unknown)
  /\ made' = made + Cardinality(kept)
  /\ resumed' = kept
  /\ UNCHANGED <<input, plan, run>>

Recover ==
  /\ sup = "crashed" /\ run = "running" /\ plan.state = "running"
  /\ \/ /\ \E ok \in SUBSET Candidates : \E kept \in Rescheduled(ok) : Recovered(kept)
        /\ Commits /\ sup' = "idle"
     \/ Throws /\ UNCHANGED <<sup, resumed>>
  /\ UNCHANGED <<work, abort, stop, late, ran>>

\* The session repository starts first and ends the run it finds running.
InterruptRun ==
  /\ sup = "crashed" /\ run = "running"
  /\ run' = "interrupted"
  /\ UNCHANGED <<input, plan, step, att, usage, made, sup, work, hostVars, events>>

\* requireReplannablePlan: nothing is active, and the plan has not succeeded or been
\* cancelled.
Replannable ==
  /\ run = "running" /\ plan.state \in {"running", "blocked", "failed"}
  /\ \A s \in Step : s \notin Active /\ ~ ActiveAttempt(s)

\* The fit, with the attempts of the replaced steps forgotten.
ReplanFitsAfresh(keep) ==
  Cardinality({p \in keep \X (1 .. MaxAttempts) : p[2] <= att[p[1]].n})
    + MaxAttempts * Cardinality(Step \ keep) <= MaxChildRuns

\* The new steps' attempts fit the children that are left.
ReplanFits(keep) == made + MaxAttempts * Cardinality(Step \ keep) <= MaxChildRuns

\* A new definition replaces every step that is not reused; a reused one is verified
\* and so are its dependencies.  One revision is applied per run.
Replan ==
  /\ Replannable /\ plan.revision = 1
  /\ sup \in {"idle", "loop", "ended", "threw"}
  /\ \E keep \in SUBSET {s \in Step : step[s] = "succeeded"} :
       /\ \A s \in keep : Deps[s] \subseteq keep
       /\ ReplanFits(keep)
       /\ plan' = [plan EXCEPT !.revision = 2, !.state = "running"]
       /\ step' = [s \in Step |-> IF s \in keep THEN step[s] ELSE "pending"]
       /\ att' = [s \in Step |-> IF s \in keep THEN att[s] ELSE NoAttempt]
       /\ ran' = [s \in Step |-> IF s \in keep THEN ran[s] ELSE 0]
       /\ late' = late \cap keep
       /\ work' = [s \in Step |-> NoWork]
       /\ sup' = IF sup = "loop" THEN sup ELSE "idle"
  /\ UNCHANGED <<input, run, usage, made, resumed, abort, stop, events>>

\* The same definition again: recorded as no progress, and the second time a
\* running plan is blocked.
NoProgress ==
  /\ Happens /\ Replannable /\ plan.revision = 1 /\ plan.idle < 2
  /\ sup \in {"idle", "loop", "ended", "threw"}
  /\ plan' = [plan EXCEPT !.idle = @ + 1,
                          !.state = IF plan.idle = 1 /\ @ = "running" THEN "blocked" ELSE @]
  /\ UNCHANGED <<input, run, step, att, usage, made, sup, work, hostVars>>

\* The parent aborts the signal, which aborts the controller of a running execute.
Abort ==
  /\ Happens /\ ~ abort /\ sup \in {"idle", "loop", "batch"}
  /\ abort' = TRUE /\ stop' = (sup # "idle")
  /\ UNCHANGED <<journalVars, sup, work, resumed, late, ran>>

\* A deadline passes.
Expire(s) ==
  /\ Happens /\ s \notin late /\ step[s] \in {"pending", "running"}
  /\ late' = late \cup {s}
  /\ UNCHANGED <<journalVars, sup, work, resumed, abort, stop, ran>>

Worker(s) == Begin(s) \/ Bind(s) \/ Execution(s) \/ Result(s) \/ Verdict(s)
\* A second execute is called when the workers of the first one are at rest.
Supervisor == Execute \/ Schedule \/ Overtaken \/ Join
Host == Crash \/ Recover \/ InterruptRun \/ Replan \/ NoProgress \/ Abort

Next == \/ Supervisor \/ Host
        \/ \E s \in Step : Worker(s) \/ Expire(s)

\* Timers fire and promises settle: a worker and a supervisor that can go on do.
Fairness == /\ WF_vars(Schedule \/ Overtaken \/ Join)
            /\ \A s \in Step : WF_vars(Worker(s))

Spec == Init /\ [][Next]_vars /\ Fairness

(***************************************************************************)
(* Properties.                                                              *)
(***************************************************************************)

\* A step is active, or has succeeded, only after all its dependencies, also when a
\* revision has replaced some of them and when recovery resumed it
\* (readyPlanStepIdsV1, plan.revised).
DependenciesFirst ==
  \A s \in Step : step[s] \in {"running", "verifying", "succeeded"} =>
    \A d \in Deps[s] : step[d] = "succeeded"

\* Two steps that share a conflict key are never active together, whether the
\* scheduler, a retry or the recovery made them active (selectConflictFree).
ConflictKeysExclusive ==
  \A s, t \in Active : s # t => Keys[s] \cap Keys[t] = {}

\* All attempts of the run, those of replaced steps included, stay within the
\* parent's maxChildRuns, although scheduler, workers and recovery count only the
\* attempts of the current revision (dagScheduler.ts, replanCoordinator.ts).
ChildRunsBounded == made <= MaxChildRuns

\* A step that is not known to be idempotent is executed once per revision, whatever
\* fails, crashes or is recovered (retrySafety in runClaim and recoveryBlock).
UnsafeOnce == \A s \in Step \ Idempotent : ran[s] <= 1

\* A plan ends with nothing active and nothing pending, and with the run when the
\* supervisor owns it; a plan that succeeded has verified every step (finalize).
EndIsWhole ==
  plan.state \notin {"draft", "running"} =>
    /\ Active = {} /\ \A s \in Step : ~ ActiveAttempt(s)
    /\ plan.state # "blocked" \/ plan.idle < 2 => \A s \in Step : step[s] # "pending"
    /\ input.owns /\ plan.idle < 2 => run # "running"
    /\ plan.state = "succeeded" => \A s \in Step : att[s].state = "verified"

\* A worker is at work only on a step whose last attempt is active, so no two
\* processes ever work on one attempt and no result is recorded twice
\* (requireRunningAttempt, requireVerifyingAttempt).
WorkIsOwned ==
  \A s \in Step : work[s].at \in {"begin", "request", "execute", "result", "verify"} =>
    /\ ActiveAttempt(s)
    /\ step[s] = IF work[s].at = "verify" THEN "verifying" ELSE "running"

\* A plan that is being executed ends, whatever is retried or cancelled, unless a
\* commit failed or the process died (execute, runClaim).
PlanEnds == []<>(sup \notin {"loop", "batch"})


\* What holds of a plan in every state: steps run after their dependencies, apart from
\* those they conflict with, under one worker and within the budget of child runs, and a
\* plan that has ended is whole (DagSupervisorV1, DagRecoveryV1, ReplanCoordinatorV1).
PlanSound ==
  /\ TypeOK /\ DependenciesFirst /\ ConflictKeysExclusive
  /\ ChildRunsBounded /\ WorkIsOwned /\ EndIsWhole
============================================================================
