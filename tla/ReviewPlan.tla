----------------------------- MODULE ReviewPlan -----------------------------
(***************************************************************************)
(* The strict review plan of a required run: the plan a session's journal  *)
(* folds to (core-sdk/review-plan-events.ts), the operations of            *)
(* PlanControlServiceV1 on it, the broker that binds work tools to the     *)
(* focused item attempt, and ReviewCoordinatorV1.review, which freezes the *)
(* evidence, asks an isolated reviewer, keeps every provider call in the   *)
(* review call store and every reservation in the journal, and records     *)
(* the decision.                                                           *)
(*                                                                         *)
(* Every operation of the control service is one step: it commits with a   *)
(* compare-and-swap on the journal's revision and rebuilds its events from *)
(* the new plan when it loses.  review() is not: an actor (a root loop of  *)
(* some runtime process over the shared journal) walks through its await   *)
(* points, may crash or be aborted between them, and may be called again   *)
(* for the same invocation.                                                *)
(***************************************************************************)
EXTENDS Naturals, FiniteSets

CONSTANTS
    Actor,          \* root loops that share the session's journal
    Reviewer,       \* the ones that may call plan.review; the others run work tools
    Item,           \* item ids
    Definition,     \* the plan definitions a model may submit
    FirstDefinition, \* the ones it submits to plan.create
    ItemsOf,        \* the items of a definition
    TextOf,         \* title, checkpoint and criteria of each item of a definition
    CriteriaOf,     \* the (required) criteria of each item
    Mechanical,     \* items all of whose criteria are file rules or digests
    MaxRepair,      \* policy.maxRepairAttemptsPerItem
    MaxReplans,     \* policy.maxReplans
    MaxTries,       \* policy.maxReviewAttempts: provider attempts of one review
    MaxReviews,     \* bound: review invocations
    MaxEvidence,    \* bound: tool results of one attempt
    MaxNoProgress,  \* bound: updates that change nothing
    MaxTrouble      \* bound: failed journal commits, crashes and aborts

ASSUME ReviewAssumption ==
    /\ "final" \notin Item                       \* an item id is no scope of its own
    /\ FirstDefinition \subseteq Definition /\ Reviewer \subseteq Actor
    /\ \A d \in Definition : ItemsOf[d] \subseteq Item
    /\ {MaxRepair, MaxReplans, MaxTries, MaxReviews, MaxEvidence, MaxNoProgress, MaxTrouble}
            \subseteq Nat

VARIABLES
    strict,    \* the projection: NoPlan or a member of ReviewedPlan
    reviews,   \* per review invocation: scope, frozen input, request, verdict
    calls,     \* ReviewCallStoreV1: per review and attempt number
    budget,    \* reviewBudgets of the projection, per review and attempt number
    actor,     \* where each actor is
    completed, \* a run was allowed to end as completed
    trouble    \* commits that failed, crashes and aborts so far

planVars == <<strict, reviews, calls, budget, actor, completed, trouble>>

Review == 1..MaxReviews
Try == 1..MaxTries
NoPlan == [state |-> "none"]
Final == "final"
Verdicts == {"accepted", "needs_fix", "blocked"}
Settled == {"actual", "released", "unknown"}

Absent == [state |-> "absent", text |-> "", count |-> 0, attempt |-> 0,
           open |-> FALSE, evidence |-> 0, prepared |-> 0, by |-> 0]

\* items.map((item, order) => ({...item, state: 'pending', attemptCount: 0, ...}))
Fresh(d, i) ==
    IF i \in ItemsOf[d] THEN [Absent EXCEPT !.state = "pending", !.text = TextOf[d][i]]
    ELSE Absent

PlanOver(p) == p.state \in {"completed", "abandoned", "cancelled"}
HasPlan == strict # NoPlan

\* hasFence: a frozen review of the whole plan or of an item
HasFence(p) == p.final # 0 \/ \E i \in Item : p.items[i].prepared # 0

\* preparedExists
PreparedExists(p, r) == p.final = r \/ \E i \in Item : p.items[i].prepared = r

\* an attempt check that does not look at the frozen reviews
AttemptLiveUnfenced(p, i, attempt) ==
    /\ p.items[i].state \notin {"absent", "accepted"}
    /\ p.items[i].attempt = attempt

\* requireItem and assertAttempt: the attempt is current and nothing is frozen over it
AttemptLive(p, i, attempt) ==
    /\ p.items[i].state \notin {"absent", "accepted"}
    /\ p.items[i].attempt = attempt
    /\ p.items[i].prepared = 0 /\ p.final = 0

----------------------------------------------------------------------------
(* plan.create, plan.update and plan.progress                              *)

\* A plan that ended is refused too: the guard of create lets it pass, the
\* reducer rejects 'review_plan.created' over any current plan.
Create(d) ==
    /\ ~HasPlan
    /\ strict' = [state |-> "active", rev |-> 1, def |-> d, focus |-> 0, final |-> 0,
                  attempts |-> 0, replans |-> 0, noProgress |-> 0,
                  items |-> [i \in Item |-> Fresh(d, i)]]
    /\ UNCHANGED <<reviews, calls, budget, actor, completed, trouble>>

\* a revision that forgets to compare the definition of an accepted item
CarriedById(p, d) ==
    [i \in Item |->
        IF i \in ItemsOf[d] /\ p.items[i].state = "accepted"
        THEN p.items[i] ELSE Fresh(d, i)]

\* The items of the next revision: an accepted item whose definition is the
\* same keeps its acceptance, every other one starts again.
Carried(p, d) ==
    [i \in Item |->
        IF i \in ItemsOf[d] /\ p.items[i].state = "accepted" /\ p.items[i].text = TextOf[d][i]
        THEN p.items[i] ELSE Fresh(d, i)]

InFlight(p) == \E i \in Item : p.items[i].attempt # 0

Updatable(p) == ~PlanOver(p) /\ ~HasFence(p) /\ ~InFlight(p)

Update(d) ==
    /\ HasPlan /\ Updatable(strict)
    /\ \/ /\ d = strict.def
          /\ strict.noProgress < MaxNoProgress
          /\ strict' = [strict EXCEPT !.noProgress = @ + 1]
       \/ /\ d # strict.def
          /\ strict.replans < MaxReplans
          /\ strict' = [strict EXCEPT !.rev = @ + 1, !.def = d, !.replans = @ + 1,
                                      !.state = "active", !.items = Carried(strict, d)]
    /\ UNCHANGED <<reviews, calls, budget, actor, completed, trouble>>

\* what progress() checks before it looks at the action
Progressable(i) ==
    /\ HasPlan /\ ~PlanOver(strict) /\ strict.final = 0
    /\ strict.items[i].state \notin {"absent", "accepted"}
    /\ strict.items[i].prepared = 0

Start(i) ==
    /\ Progressable(i)
    /\ strict.items[i].count < MaxRepair + 1
    /\ strict.items[i].attempt = 0
    /\ strict.items[i].state \in {"pending", "needs_fix", "blocked"}
    /\ LET n == strict.attempts + 1  item == strict.items[i] IN
       strict' = [strict EXCEPT !.attempts = n, !.focus = n,
                                !.items[i] = [item EXCEPT !.state = "running",
                                                          !.count = item.count + 1, !.attempt = n,
                                                          !.open = TRUE, !.evidence = 0]]
    /\ UNCHANGED <<reviews, calls, budget, actor, completed, trouble>>

Focus(i) ==
    /\ Progressable(i)
    /\ strict.items[i].attempt # 0 /\ strict.focus # strict.items[i].attempt
    /\ strict' = [strict EXCEPT !.focus = strict.items[i].attempt]
    /\ UNCHANGED <<reviews, calls, budget, actor, completed, trouble>>

\* requiredOnlyHere: no other item that is not skipped has the criterion
RequiredOnlyHere(p, i, c) ==
    ~\E j \in ItemsOf[p.def] \ {i} :
        p.items[j].state # "skipped" /\ c \in CriteriaOf[p.def][j]

Skip(i) ==
    /\ Progressable(i)
    /\ strict.items[i].state \in {"pending", "needs_fix", "blocked"}
    /\ \A c \in CriteriaOf[strict.def][i] : ~RequiredOnlyHere(strict, i, c)
    /\ strict' = [strict EXCEPT !.items[i].state = "skipped"]
    /\ UNCHANGED <<reviews, calls, budget, actor, completed, trouble>>

\* an item that keeps the attempt it closed
CloseAttemptKept(item) == [item EXCEPT !.open = FALSE, !.evidence = 0]

\* Without its attempt: the current attempt is closed with the block.
CloseAttempt(item) == [item EXCEPT !.attempt = 0, !.open = FALSE, !.evidence = 0]

Unfocused(p, attempt) == IF p.focus = attempt THEN 0 ELSE p.focus

Block(i) ==
    /\ Progressable(i)
    /\ strict.items[i].state \in {"pending", "running", "needs_fix"}
    /\ strict' = [strict EXCEPT !.items[i] = [CloseAttempt(@) EXCEPT !.state = "blocked"],
                                !.focus = Unfocused(strict, strict.items[i].attempt)]
    /\ UNCHANGED <<reviews, calls, budget, actor, completed, trouble>>

----------------------------------------------------------------------------
(* RootToolExecutionBrokerV1: a work tool runs for the focused attempt     *)

Idle == [pc |-> "idle"]

ToolStart(a) ==
    /\ actor[a] = Idle
    /\ HasPlan /\ ~PlanOver(strict) /\ strict.final = 0
    /\ \E i \in Item :
        /\ strict.items[i].attempt # 0 /\ strict.items[i].attempt = strict.focus
        /\ strict.items[i].open /\ strict.items[i].prepared = 0
        /\ strict.items[i].evidence + Cardinality({b \in Actor : actor[b].pc = "tool"}) < MaxEvidence
        /\ actor' = [actor EXCEPT ![a] = [pc |-> "tool", item |-> i, rev |-> strict.rev,
                                          attempt |-> strict.focus]]
    /\ UNCHANGED <<strict, reviews, calls, budget, completed, trouble>>

\* The tool has run; its result is evidence only if the attempt is still live.
ToolEnd(a) ==
    /\ actor[a].pc = "tool"
    /\ LET i == actor[a].item IN
       strict' = IF strict.rev = actor[a].rev /\ AttemptLive(strict, i, actor[a].attempt)
                 THEN [strict EXCEPT !.items[i].evidence = @ + 1] ELSE strict
    /\ actor' = [actor EXCEPT ![a] = Idle]
    /\ UNCHANGED <<reviews, calls, budget, completed, trouble>>

----------------------------------------------------------------------------
(* ReviewCoordinatorV1.review                                              *)

Go(a, pc) == actor' = [actor EXCEPT ![a].pc = pc]
Decide(a, v) == actor' = [actor EXCEPT ![a] = [@ EXCEPT !.pc = "apply", !.verdict = v]]
Throw(a) == actor' = [actor EXCEPT ![a] = Idle]

NewReview == [scope |-> Final, frozen |-> [rev |-> 0], requested |-> FALSE, verdict |-> "none"]

InUse(r) == \E a \in Actor : actor[a].pc \notin {"idle", "tool"} /\ actor[a].r = r
Invoked(r) == reviews[r] # NewReview

\* The projection is loaded and the evidence is collected: what will be frozen.
\* A review invocation that was already made may be executed again.
ReviewStart(a, r, scope) ==
    /\ actor[a] = Idle /\ ~InUse(r)
    /\ HasPlan
    /\ Invoked(r) => scope = reviews[r].scope
    /\ scope # Final => strict.items[scope].attempt # 0 /\ strict.items[scope].open
    /\ actor' = [actor EXCEPT ![a] =
                    [pc |-> "prepare", r |-> r, scope |-> scope, k |-> 1, verdict |-> "none",
                     settle |-> "none", next |-> "none", caught |-> FALSE, started |-> FALSE,
                     saved |-> "none", frozen |-> IF scope = Final
                                THEN [rev |-> strict.rev, attempt |-> 0, evidence |-> 0]
                                ELSE [rev |-> strict.rev,
                                      attempt |-> strict.items[scope].attempt,
                                      evidence |-> strict.items[scope].evidence]]]
    /\ reviews' = [reviews EXCEPT ![r].scope = scope]
    /\ UNCHANGED <<strict, calls, budget, completed, trouble>>

AllAccepted(p) == \A i \in ItemsOf[p.def] : p.items[i].state = "accepted"

\* the guard of prepareReview
Preparable(p, scope, frozen) ==
    /\ ~PlanOver(p) /\ ~HasFence(p) /\ p.rev = frozen.rev
    /\ IF scope = Final THEN AllAccepted(p)
       ELSE p.items[scope].state # "accepted" /\ p.items[scope].attempt = frozen.attempt

Prepare(a) ==
    LET me == actor[a]  r == me.r IN
    /\ me.pc = "prepare"
    /\ IF reviews[r].frozen.rev # 0
       THEN /\ IF reviews[r].frozen = me.frozen THEN Go(a, "check") ELSE Throw(a)
            /\ UNCHANGED <<strict, reviews>>
       ELSE IF Preparable(strict, me.scope, me.frozen)
            THEN /\ strict' = IF me.scope = Final THEN [strict EXCEPT !.final = r]
                              ELSE [strict EXCEPT !.items[me.scope].prepared = r]
                 /\ reviews' = [reviews EXCEPT ![r].frozen = me.frozen]
                 /\ Go(a, "check")
            ELSE Throw(a) /\ UNCHANGED <<strict, reviews>>
    /\ UNCHANGED <<calls, budget, completed, trouble>>

\* deterministicChecks: a failed check decides, and so does a passed one for an item
\* whose criteria are all mechanical, or a plan of old without the contract of its task,
\* which no final review can accept; the rest goes to the reviewer.
Check(a) ==
    /\ actor[a].pc = "check"
    /\ \/ Decide(a, "needs_fix")
       \/ /\ actor[a].scope = Final
          /\ Decide(a, "blocked")
       \/ /\ actor[a].scope \in Mechanical
          /\ Decide(a, "accepted")
       \/ /\ actor[a].scope \notin Mechanical
          /\ Go(a, "request")
    /\ UNCHANGED <<strict, reviews, calls, budget, completed, trouble>>

\* requestSemanticReview and the reducer's 'review_requested'
Request(a) ==
    LET me == actor[a]  r == me.r IN
    /\ me.pc = "request"
    /\ IF reviews[r].requested THEN Go(a, "reserve") /\ UNCHANGED <<strict, reviews>>
       ELSE IF /\ PreparedExists(strict, r) /\ strict.rev = me.frozen.rev
               /\ me.scope = Final => strict.state = "active"
            THEN /\ strict' = IF me.scope = Final THEN [strict EXCEPT !.state = "reviewing"]
                              ELSE [strict EXCEPT !.items[me.scope] =
                                      [@ EXCEPT !.state = "review_requested", !.open = FALSE]]
                 /\ reviews' = [reviews EXCEPT ![r].requested = TRUE]
                 /\ Go(a, "reserve")
            ELSE Throw(a) /\ UNCHANGED <<strict, reviews>>
    /\ UNCHANGED <<calls, budget, completed, trouble>>

\* No attempt is left: a replayed decision whose settlement failed still stands.
Exhausted(a) == Decide(a, IF actor[a].saved = "none" THEN "blocked" ELSE actor[a].saved)

\* an attempt that goes to the provider before its budget is reserved
ReserveNothing(a) ==
    LET me == actor[a] IN
    /\ me.pc = "reserve"
    /\ UNCHANGED budget
    /\ IF me.k > MaxTries
       THEN Exhausted(a)
       ELSE Go(a, "call")
    /\ UNCHANGED <<strict, reviews, calls, completed, trouble>>

\* The next provider attempt: reserve its budget, or give up.
Reserve(a) ==
    LET me == actor[a] IN
    /\ me.pc = "reserve"
    /\ IF me.k > MaxTries
       THEN Exhausted(a) /\ UNCHANGED budget
       ELSE /\ budget' = [budget EXCEPT ![me.r][me.k] = IF @ = "none" THEN "reserved" ELSE @]
            /\ Go(a, "call")
    /\ UNCHANGED <<strict, reviews, calls, completed, trouble>>

\* Settle next, as part of the try block or of its catch.  A saved decision is taken
\* before its settlement, a fresh one after it.
ToSettle(a, disposition, next, caught, started, v) ==
    actor' = [actor EXCEPT ![a] = [@ EXCEPT !.pc = "settle", !.settle = disposition,
                                            !.next = next, !.caught = caught,
                                            !.started = started, !.verdict = v,
                                            !.saved = IF started \/ v = "none" THEN actor[a].saved
                                                      ELSE v]]

\* a store that forgets that the provider was started
MayStartAgain(call) == call.state \in {"none", "reserved", "provider_started"}

\* what a saved attempt makes the coordinator do: call the provider only when it
\* was reserved and never started
MayStart(call) == call.state \in {"none", "reserved"}

\* reviewCalls.reserve, the replay of a saved attempt, and markProviderStarted
Call(a) ==
    LET me == actor[a]  call == calls[me.r][me.k] IN
    /\ me.pc = "call"
    /\ IF MayStart(call)
       THEN /\ calls' = [calls EXCEPT ![me.r][me.k] = [call EXCEPT !.state = "provider_started",
                                                                  !.sent = call.sent + 1]]
            /\ Go(a, "provider")
       ELSE /\ UNCHANGED calls
            /\ CASE call.state \in {"provider_invalid", "provider_unknown"} ->
                        ToSettle(a, IF call.billed THEN "actual" ELSE "unknown", "reserve",
                                 FALSE, FALSE, "none")
                 [] call.state \in {"provider_completed", "decision_committed"} ->
                        ToSettle(a, "actual", "apply", FALSE, FALSE, call.verdict)
                 [] OTHER -> ToSettle(a, "unknown", "reserve", TRUE, TRUE, "none")
    /\ UNCHANGED <<strict, reviews, budget, completed, trouble>>

\* reviewer.review returned a decision, failed with a diagnostic (its usage was
\* measured in full or not), or its decision could not be saved.
Provider(a) ==
    LET me == actor[a] IN
    /\ me.pc = "provider"
    /\ \/ \E v \in Verdicts :
            /\ calls' = [calls EXCEPT ![me.r][me.k] =
                            [@ EXCEPT !.state = "provider_completed", !.verdict = v]]
            /\ ToSettle(a, "actual", "apply", FALSE, TRUE, v)
       \/ \E billed \in BOOLEAN :
            /\ calls' = [calls EXCEPT ![me.r][me.k] =
                            [@ EXCEPT !.state = IF billed THEN "provider_invalid"
                                                ELSE "provider_unknown",
                                      !.billed = billed]]
            /\ ToSettle(a, IF billed THEN "actual" ELSE "unknown", "reserve", TRUE, TRUE, "none")
       \/ /\ UNCHANGED calls
          /\ ToSettle(a, "unknown", "reserve", TRUE, TRUE, "none")
    /\ UNCHANGED <<strict, reviews, budget, completed, trouble>>

\* The signal is aborted during the call: the catch settles, then rethrows.
Aborted(a) ==
    LET me == actor[a] IN
    /\ me.pc = "provider" /\ trouble < MaxTrouble
    /\ trouble' = trouble + 1
    /\ calls' = [calls EXCEPT ![me.r][me.k].state = "provider_unknown"]
    /\ ToSettle(a, "unknown", "throw", TRUE, TRUE, "none")
    /\ UNCHANGED <<strict, reviews, budget, completed>>

\* a retry that does not count the attempt that failed
AfterSettleUncounted(a) ==
    LET me == [actor[a] EXCEPT !.settle = "none", !.caught = FALSE, !.started = FALSE] IN
    CASE me.next = "reserve" -> actor' = [actor EXCEPT ![a] = [me EXCEPT !.pc = "reserve"]]
      [] me.next = "apply" -> actor' = [actor EXCEPT ![a] = [me EXCEPT !.pc = "apply"]]
      [] OTHER -> Throw(a)

AfterSettle(a) ==
    LET me == [actor[a] EXCEPT !.settle = "none", !.caught = FALSE, !.started = FALSE] IN
    CASE me.next = "reserve" ->
            actor' = [actor EXCEPT ![a] = [me EXCEPT !.pc = "reserve", !.k = me.k + 1, !.next = "none"]]
      [] me.next = "apply" -> actor' = [actor EXCEPT ![a] = [me EXCEPT !.pc = "apply"]]
      [] OTHER -> Throw(a)

\* A settlement that fails inside the try block is caught: the catch settles with
\* what it knows about the provider; one that fails in the catch leaves review().
SettleFails(a) ==
    LET me == actor[a] IN
    IF me.caught THEN Throw(a)
    ELSE ToSettle(a, IF me.started THEN "unknown" ELSE "released", "reserve", TRUE,
                  me.started, "none")

SettleAs(old, want) == old \in {"reserved", want}

Settle(a) ==
    LET me == actor[a] IN
    /\ me.pc = "settle"
    /\ IF SettleAs(budget[me.r][me.k], me.settle)
       THEN /\ budget' = [budget EXCEPT ![me.r][me.k] = me.settle]
            /\ AfterSettle(a)
       ELSE SettleFails(a) /\ UNCHANGED budget
    /\ UNCHANGED <<strict, reviews, calls, completed, trouble>>

\* the reducer's 'review_recorded' for an item and for the whole plan
RecordItem(p, i, r, v) ==
    LET item == p.items[i] IN
    [p EXCEPT !.focus = Unfocused(p, item.attempt),
              !.items[i] = [CloseAttempt(item) EXCEPT
                                !.state = v, !.prepared = 0,
                                !.by = IF v = "accepted" THEN r ELSE item.by]]

RecordFinal(p, v) ==
    [p EXCEPT !.final = 0,
              !.state = CASE v = "accepted" -> "completed"
                          [] v = "blocked"  -> "blocked"
                          [] OTHER          -> "active"]

\* applyReviewDecision, then markDecisionCommitted
Apply(a) ==
    LET me == actor[a]  r == me.r IN
    /\ me.pc = "apply"
    /\ IF reviews[r].verdict = "none" /\ PreparedExists(strict, r) /\ strict.rev = me.frozen.rev
       THEN /\ strict' = IF me.scope = Final THEN RecordFinal(strict, me.verdict)
                         ELSE RecordItem(strict, me.scope, r, me.verdict)
            /\ reviews' = [reviews EXCEPT ![r].verdict = me.verdict]
            /\ IF me.next = "apply" THEN Go(a, "mark") ELSE Throw(a)
       ELSE /\ UNCHANGED <<strict, reviews>>
            /\ IF reviews[r].verdict = me.verdict /\ me.next = "apply" THEN Go(a, "mark")
               ELSE Throw(a)
    /\ UNCHANGED <<calls, budget, completed, trouble>>

Mark(a) ==
    LET me == actor[a] IN
    /\ me.pc = "mark"
    /\ calls' = [calls EXCEPT ![me.r][me.k].state = "decision_committed"]
    /\ Throw(a)
    /\ UNCHANGED <<strict, reviews, budget, completed, trouble>>

\* An append fails: a settlement inside the try block is caught, the rest leaves review().
JournalFails(a) ==
    /\ actor[a].pc \in {"prepare", "request", "reserve", "settle", "apply", "tool"}
    /\ trouble < MaxTrouble
    /\ trouble' = trouble + 1
    /\ IF actor[a].pc = "settle" THEN SettleFails(a) ELSE Throw(a)
    /\ UNCHANGED <<strict, reviews, calls, budget, completed>>

\* The process of an actor dies, or its run is stopped between two calls.
CrashActor(a) ==
    /\ actor[a] # Idle /\ trouble < MaxTrouble
    /\ trouble' = trouble + 1
    /\ Throw(a)
    /\ UNCHANGED <<strict, reviews, calls, budget, completed>>

\* reviewPlanCompletionGuidance: a required run ends as completed only then.
CompleteRun ==
    /\ HasPlan /\ strict.state = "completed" /\ ~completed
    /\ completed' = TRUE
    /\ UNCHANGED <<strict, reviews, calls, budget, actor, trouble>>

----------------------------------------------------------------------------

PlanInit ==
    /\ strict = NoPlan
    /\ reviews = [r \in Review |-> NewReview]
    /\ calls = [r \in Review |-> [k \in Try |->
                    [state |-> "none", verdict |-> "none", billed |-> FALSE, sent |-> 0]]]
    /\ budget = [r \in Review |-> [k \in Try |-> "none"]]
    /\ actor = [a \in Actor |-> Idle]
    /\ completed = FALSE
    /\ trouble = 0

PlanStep(a) ==
    \/ ToolEnd(a) \/ Prepare(a) \/ Check(a) \/ Request(a) \/ Reserve(a)
    \/ Call(a) \/ Provider(a) \/ Settle(a) \/ Apply(a) \/ Mark(a)

PlanNext ==
    \/ \E d \in FirstDefinition : Create(d)
    \/ \E d \in Definition : Update(d)
    \/ \E i \in Item : Start(i) \/ Focus(i) \/ Skip(i) \/ Block(i)
    \/ \E a \in Actor : PlanStep(a) \/ Aborted(a) \/ JournalFails(a) \/ CrashActor(a)
    \/ \E a \in Actor \ Reviewer : ToolStart(a)
    \/ \E a \in Reviewer, r \in Review, s \in Item \union {Final} :
        (Invoked(r) \/ \A q \in 1..(r - 1) : Invoked(q)) /\ ReviewStart(a, r, s)
    \/ CompleteRun

PlanFairness == \A a \in Actor : WF_planVars(PlanStep(a))

PlanSpec == PlanInit /\ [][PlanNext]_planVars /\ PlanFairness

----------------------------------------------------------------------------
(* Properties                                                              *)

Scope == Item \union {Final}
FrozenInput == [rev : Nat, attempt : Nat, evidence : Nat]
Text == {""} \union UNION {{TextOf[d][i] : i \in ItemsOf[d]} : d \in Definition}

PlanItem == [state : Verdicts \union {"absent", "pending", "running", "review_requested", "skipped"},
             text : Text, count : 0..(MaxRepair + 1), attempt : Nat, open : BOOLEAN,
             evidence : Nat, prepared : Review \union {0}, by : Review \union {0}]

ReviewedPlan == [state : {"active", "reviewing", "blocked", "completed"},
                 rev : Nat, def : Definition, focus : Nat, final : Review \union {0},
                 attempts : Nat, replans : 0..MaxReplans, noProgress : 0..MaxNoProgress,
                 items : [Item -> PlanItem]]

ReviewRecord == [scope : Scope, frozen : FrozenInput \union {[rev |-> 0]},
                 requested : BOOLEAN, verdict : Verdicts \union {"none"}]

CallState == {"none", "reserved", "provider_started", "provider_completed", "provider_invalid",
              "provider_unknown", "decision_committed"}

CallRecord == [state : CallState, verdict : Verdicts \union {"none"}, billed : BOOLEAN, sent : Nat]

ToolCall == [pc : {"tool"}, item : Item, rev : Nat, attempt : Nat]

Reviewing == [pc : {"prepare", "check", "request", "reserve", "call", "provider", "settle",
                    "apply", "mark"},
              r : Review, scope : Scope, k : Nat \ {0}, verdict : Verdicts \union {"none"},
              settle : Settled \union {"none"}, next : {"none", "reserve", "apply", "throw"},
              caught : BOOLEAN, started : BOOLEAN,
              saved : Verdicts \union {"none"}, frozen : FrozenInput]

\* An item has an attempt while it is worked on or reviewed, which is open only before.
PlanShape ==
    /\ strict \in ReviewedPlan /\ strict.rev = strict.replans + 1
    /\ \A i \in Item :
        /\ strict.items[i].state = "absent" <=> i \notin ItemsOf[strict.def]
        /\ strict.items[i].attempt # 0 <=> strict.items[i].state \in {"running", "review_requested"}
        /\ strict.items[i].open <=> strict.items[i].state = "running"

\* The shape of the plan, of the stores and of an actor, and the policies' bounds.
ReviewTypeOK ==
    /\ HasPlan => PlanShape
    /\ reviews \in [Review -> ReviewRecord]
    /\ calls \in [Review -> [Try -> CallRecord]]
    /\ budget \in [Review -> [Try -> Settled \union {"none", "reserved"}]]
    /\ actor \in [Actor -> {Idle} \union ToolCall \union Reviewing]
    /\ completed \in BOOLEAN
    /\ trouble \in 0..MaxTrouble

\* When a required run was let through as completed, every item of the plan's
\* current definition was accepted by a review of that very item, with the text
\* it has now, and a final review of the current revision accepted the whole.
CompletionEarned ==
    completed =>
        /\ \A i \in ItemsOf[strict.def] :
            LET r == strict.items[i].by IN
            /\ r # 0 /\ reviews[r].scope = i /\ reviews[r].verdict = "accepted"
            /\ strict.items[i].text = TextOf[strict.def][i]
        /\ \E r \in Review : /\ reviews[r].scope = Final /\ reviews[r].verdict = "accepted"
                             /\ reviews[r].frozen.rev = strict.rev

\* While a review of an item is frozen (the prepared fence), no tool result, no
\* progress call and no revision touches the attempt the reviewer is looking at.
FenceKept ==
    HasPlan => \A i \in Item :
        (/\ strict.items[i].prepared # 0
         /\ strict'.items[i].prepared = strict.items[i].prepared)
        => /\ strict'.items[i].evidence = strict.items[i].evidence
           /\ strict'.items[i].attempt = strict.items[i].attempt
           /\ strict'.rev = strict.rev

\* No step of any actor breaks a fence.
FenceHolds == [][FenceKept]_planVars

\* No provider call without a reservation in the journal, and a reservation is
\* settled as measured only when the call store holds a measured outcome.
CallsBudgeted ==
    \A r \in Review, k \in Try :
        /\ calls[r][k].state # "none" => budget[r][k] # "none"
        /\ budget[r][k] = "actual" =>
            \/ calls[r][k].state \in {"provider_completed", "decision_committed"}
            \/ calls[r][k].state = "provider_invalid" /\ calls[r][k].billed

\* Whatever crashes and is executed again, one attempt of one review is sent to
\* the provider at most once.
ProviderOnce ==
    \A r \in Review, k \in Try : calls[r][k].sent <= 1

\* Every tool and every review an actor started returns: no retry, replay or
\* failed settlement keeps it in the coordinator.
ReviewsReturn ==
    \A a \in Actor : []<>(actor[a] = Idle)


\* Every call of the reviewer's model is reserved, sent once and settled by its outcome,
\* whatever crashes and is replayed (reserveReviewAttempt, markProviderStarted, settle).
ReviewsPaid == ReviewTypeOK /\ CallsBudgeted /\ ProviderOnce
=============================================================================
