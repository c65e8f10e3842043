--------------------------- MODULE RuntimeKernel ---------------------------
(***************************************************************************)
(* One session of a Runtime: the prompts that clients start in it, the      *)
(* agent loop that executes each run, the session service with its lock,    *)
(* and the ways a run ends: completion, failure, abort and shutdown.        *)
(*                                                                          *)
(* The Runtime is one JavaScript process.  A step of the model is the code  *)
(* between two awaits, so the interleavings are those of the awaits.  The   *)
(* session lock is a FIFO chain of promises; a section under the lock is    *)
(* one step, because only sections of the same lock change what it reads.   *)
(***************************************************************************)
EXTENDS Naturals, Sequences, FiniteSetsExt

CONSTANTS
  Run,             \* the runs that prompts may start, numbered in that order
  Request,         \* client request ids
  MaxTurns,        \* run.budget.maxTurns
  MaxEvents,       \* bound: instructions sent, checkpoints made and calls of the
                   \* repository that fail, all together
  NoRun            \* no active run, no request

ASSUME KernelAssumption == NoRun \notin Run /\ MaxTurns \in Nat

VARIABLES
  session,   \* the ManagedSession object that is, or was last, in the sessions map
  life,      \* the lifecycle the journal records for the session
  record,    \* the state the journal records for each run
  stored,    \* the checkpoint ids the journal records, oldest first
  queue,     \* the sections waiting for the session lock, the first one in it
  phase,     \* position of startPrompt, then of AgentLoop.execute, for each run
  request,   \* the client request id of each prompt
  held,      \* the generation of the session object startPrompt holds
  fin,       \* position of finishRun
  fate,      \* the terminal event finishRun works with
  snapshot,  \* the checkpoint in the memory that finalize will save
  aborted,   \* runs with run.aborted
  terminal,  \* runs with run.terminal
  steer,     \* instructions of a run: sent by clients, being posted, queued, taken
  perm,      \* the permission request of a run's tool call
  turn,      \* provider turns of a run
  ends,      \* terminal events emitted for a run
  up,        \* the Runtime: serving, shutting down, composition closed
  faults     \* persistence calls that have failed

vars == <<session, life, record, stored, queue, phase, request, held, fin, fate, snapshot,
          aborted, terminal, steer, perm, turn, ends, up, faults>>

diskVars == <<life, record, stored>>
finVars  == <<terminal, fate, fin, snapshot>>
toolVars == <<steer, perm, turn>>
hostVars == <<request, held, ends, up>>

Phases == {"idle", "prepare", "begin", "extra", "launch", "provider", "round", "steering",
           "compacting", "model", "assistant", "tool", "asking", "running", "settle",
           "guidance", "out", "refused", "stranded"}
Fates  == {"none", "completed", "failed", "blocked", "aborted", "persistence"}
Ends   == {"completed", "failed", "blocked", "aborted", "persistence", "workflow"}
LoopOps == {"steering", "assistant", "settle"}   \* messages the loop commits
Ops    == {"begin", "extra", "compacting", "finalize"} \cup LoopOps

TypeOK ==
  /\ session \in [gen : Nat, inMap : BOOLEAN, closed : BOOLEAN,
                  active : Run \cup {NoRun}, seen : SUBSET Request, memory : Nat]
  /\ life \in {"open", "closed", "deleted"}
  /\ record \in [Run -> {"none", "running", "completed", "failed", "aborted"}]
  /\ stored \in Seq(Nat)
  /\ queue \in Seq([op : Ops, run : Run])
  /\ phase \in [Run -> Phases]
  /\ request \in [Run -> Request \cup {NoRun}]
  /\ held \in [Run -> Nat]
  /\ fin \in [Run -> {"none", "guard", "queued", "workflow", "done"}]
  /\ fate \in [Run -> Fates]
  /\ snapshot \in [Run -> Nat]
  /\ aborted \subseteq Run
  /\ terminal \subseteq Run
  /\ steer \in [Run -> [sent : Nat, posting : Nat, queued : Nat, taken : Nat]]
  /\ perm \in [Run -> {"none", "pending", "deciding", "allowed", "denied", "lost"}]
  /\ turn \in [Run -> 0 .. MaxTurns]
  /\ ends \in [Run -> Seq(Ends)]
  /\ up \in {"up", "stopping", "closed"}
  /\ faults \in Nat

Loaded == [gen |-> 0, inMap |-> TRUE, closed |-> FALSE, active |-> NoRun,
           seen |-> {}, memory |-> 0]
NoSteer == [sent |-> 0, posting |-> 0, queued |-> 0, taken |-> 0]

Init ==
  /\ session = Loaded
  /\ life = "open"
  /\ record = [r \in Run |-> "none"]
  /\ stored = <<>>
  /\ queue = <<>>
  /\ phase = [r \in Run |-> "idle"]
  /\ request = [r \in Run |-> NoRun]
  /\ held = [r \in Run |-> 0]
  /\ fin = [r \in Run |-> "none"]
  /\ fate = [r \in Run |-> "none"]
  /\ snapshot = [r \in Run |-> 0]
  /\ aborted = {}
  /\ terminal = {}
  /\ steer = [r \in Run |-> NoSteer]
  /\ perm = [r \in Run |-> "none"]
  /\ turn = [r \in Run |-> 0]
  /\ ends = [r \in Run |-> <<>>]
  /\ up = "up"
  /\ faults = 0

(***************************************************************************)
(* Small parts.                                                             *)
(***************************************************************************)

shouldStop(r) == r \in aborted \cup terminal

Running == {r \in Run : record[r] = "running"}

Go(r, p) == phase' = [phase EXCEPT ![r] = p]

\* A section asks for the session lock; q is the queue without the section that
\* is being left.
withSessionLock(q, o, r) == queue' = Append(q, [op |-> o, run |-> r])
InLock(o, r) == queue # <<>> /\ Head(queue) = [op |-> o, run |-> r]

Compacting == {i \in DOMAIN queue : queue[i].op = "compacting"}

\* One more of the events that MaxEvents bounds may occur.
Room == MapThenSumSet(LAMBDA q : steer[q].sent, Run)
          + Len(stored) + Cardinality(Compacting) + faults < MaxEvents

\* A repository call returns, or throws.
Persists == UNCHANGED faults
Throws   == Room /\ faults' = faults + 1

(***************************************************************************)
(* AgentLoop.finish: the first caller decides how the run ends, and starts  *)
(* finishRun.  A completion is checked against the plan once more; for any  *)
(* other end RunCoordinator reads the session's memory at once and asks for *)
(* the lock.                                                                *)
(***************************************************************************)

finishRun(q, r, f) ==
  /\ terminal' = terminal \cup {r}
  /\ fate' = [fate EXCEPT ![r] = f]
  /\ fin' = [fin EXCEPT ![r] = IF f = "completed" THEN "guard" ELSE "queued"]
  /\ snapshot' = [snapshot EXCEPT ![r] = session.memory]
  /\ IF f = "completed" THEN queue' = q ELSE withSessionLock(q, "finalize", r)

\* Fault: a run that is terminal is finished once more.
finishAgain(q, r, f) == finishRun(q, r, f)

finish(q, r, f) == IF r \in terminal THEN queue' = q /\ UNCHANGED finVars
                   ELSE finishRun(q, r, f)

EndRun(q, r, f) == finish(q, r, f) /\ Go(r, "out")

\* The loop goes on at position p without the lock.
GoOn(q, r, p) == Go(r, p) /\ queue' = q /\ UNCHANGED finVars

\* The loop goes on into a section o of the lock.
Enter(q, r, o) == Go(r, o) /\ withSessionLock(q, o, r) /\ UNCHANGED finVars

\* Fault: the finally block does not finish the run.
LeaveUnfinished(q, r, spent) == GoOn(q, r, "out")

\* The loop returns; its finally block finishes a run that was cancelled and
\* that nobody has finished: one whose budget is spent.
Leave(q, r, spent) ==
  IF (spent \/ r \in aborted) /\ r \notin terminal
  THEN EndRun(q, r, "aborted")
  ELSE GoOn(q, r, "out")

\* The catch block of execute: a failure is reported unless the run has stopped.
Catch(q, r) == IF shouldStop(r) THEN Leave(q, r, FALSE) ELSE EndRun(q, r, "failed")

\* Fault: the loop's port commits for a run that has stopped.
CommitsAlways(r) == TRUE

\* commitMessage of the loop's ports: nothing for a run that is not the active one.
MayCommit(r) == ~shouldStop(r) /\ session.active = r

(***************************************************************************)
(* startPrompt.                                                             *)
(***************************************************************************)

\* session.prompt and session.follow_up, up to the first await.
Prompt(r) ==
  /\ up = "up"
  /\ phase[r] = "idle"
  /\ \A q \in Run : q < r => phase[q] # "idle"
  /\ session.inMap
  /\ \E q \in Request :
       /\ \A p \in Request : p < q => \E o \in Run : request[o] = p   \* named in order of use
       /\ request' = [request EXCEPT ![r] = q]
       /\ Go(r, IF q \in session.seen THEN "refused" ELSE "prepare")
  /\ held' = [held EXCEPT ![r] = session.gen]
  /\ UNCHANGED <<session, diskVars, queue, finVars, aborted, toolVars, ends, up, faults>>

\* Capabilities, credentials, resources and long-term memory have been read:
\* beginRun asks for the lock.  Any of them may also refuse the prompt.
Prepared(r) ==
  /\ phase[r] = "prepare"
  /\ \/ Enter(queue, r, "begin")
     \/ GoOn(queue, r, "refused")
  /\ UNCHANGED <<session, diskVars, aborted, toolVars, hostVars, faults>>

\* appendRequestMessage finds a run of the journal with this request id.
JournalKnows(r) == \E q \in Run : record[q] # "none" /\ request[q] = request[r]

\* Fault: neither the map nor the journal is asked for the request id again.
BeginsUnseen(r) == /\ held[r] = session.gen
                   /\ ~session.closed
                   /\ session.active = NoRun
                   /\ life = "open"
                   /\ Running = {}

\* Fault: only the session object is asked whether a run is running.
BeginsBeside(r) == /\ held[r] = session.gen
                   /\ ~session.closed
                   /\ session.active = NoRun
                   /\ request[r] \notin session.seen
                   /\ life = "open"
                   /\ ~JournalKnows(r)

\* What beginRun and appendRequestMessage require of a run they start.
Begins(r) == /\ held[r] = session.gen
             /\ ~session.closed
             /\ session.active = NoRun
             /\ request[r] \notin session.seen
             /\ life = "open"
             /\ ~JournalKnows(r)
             /\ Running = {}

\* A run that has begun commits the messages of a command or a skill, if any,
\* before startPrompt starts its execution and answers.
beginRun(r) ==
  LET rest == Tail(queue) IN
  /\ InLock("begin", r)
  /\ \/ /\ Begins(r)
        /\ Persists
        /\ record' = [record EXCEPT ![r] = "running"]
        /\ session' = [session EXCEPT !.active = r, !.seen = @ \cup {request[r]}]
        /\ Enter(rest, r, "extra") \/ GoOn(rest, r, "launch")
     \/ /\ Begins(r)
        /\ Throws
        /\ GoOn(rest, r, "refused")
        /\ UNCHANGED <<record, session>>
     \/ /\ ~Begins(r)
        /\ GoOn(rest, r, "refused")
        /\ UNCHANGED <<record, session, faults>>
  /\ held' = [held EXCEPT ![r] = 0]
  /\ UNCHANGED <<life, stored, aborted, toolVars, request, ends, up>>

\* When such a commit throws, the prompt is refused although its run has begun.
ExtraCommitted(r) ==
  /\ InLock("extra", r)
  /\ \/ life = "open" /\ Persists /\ GoOn(Tail(queue), r, "launch")
     \/ life = "open" /\ Throws /\ GoOn(Tail(queue), r, "stranded")
     \/ life # "open" /\ UNCHANGED faults /\ GoOn(Tail(queue), r, "stranded")
  /\ UNCHANGED <<session, diskVars, aborted, toolVars, hostVars>>

(***************************************************************************)
(* AgentLoop.execute.                                                       *)
(***************************************************************************)

\* The planner starts the loop, which announces the run and asks for its
\* provider and system prompt; or the planner throws and startPrompt's handler
\* finishes the run.
Launch(r) ==
  /\ phase[r] = "launch"
  /\ GoOn(queue, r, "provider") \/ EndRun(queue, r, "failed")
  /\ UNCHANGED <<session, diskVars, aborted, toolVars, hostVars, faults>>

\* The provider and the prompt are there, or are not.
ProviderReady(r) ==
  /\ phase[r] = "provider"
  /\ \/ shouldStop(r) /\ Leave(queue, r, FALSE)
     \/ ~shouldStop(r) /\ GoOn(queue, r, "round")
     \/ Catch(queue, r)
  /\ UNCHANGED <<session, diskVars, aborted, toolVars, hostVars, faults>>

\* The context is selected; above the threshold it is compacted first, and the
\* new checkpoint asks for the lock.
SelectContext(q, r) ==
  \/ GoOn(q, r, "model")
  \/ Room /\ Enter(q, r, "compacting")

\* Fault: turns are not limited.
NoCeiling(r) == FALSE

TurnCeiling(r) == turn[r] = MaxTurns

\* The head of the for loop: the turn ceiling, then applySteers, which takes the
\* whole queue.
Round(r) ==
  LET take == steer[r].queued IN
  /\ phase[r] = "round"
  /\ IF TurnCeiling(r)
     THEN Catch(queue, r) /\ UNCHANGED steer
     ELSE /\ steer' = [steer EXCEPT ![r].taken = take, ![r].queued = 0]
          /\ \/ shouldStop(r) /\ Leave(queue, r, FALSE)
             \/ ~shouldStop(r) /\ take > 0 /\ Enter(queue, r, "steering")
             \/ ~shouldStop(r) /\ take = 0 /\ SelectContext(queue, r)
  /\ UNCHANGED <<session, diskVars, aborted, perm, turn, hostVars, faults>>

\* A taken instruction is committed, acknowledged and announced.
SteerCommitted(r) ==
  LET rest == Tail(queue) IN
  /\ InLock("steering", r)
  /\ \/ /\ life = "open" /\ Persists
        /\ steer' = [steer EXCEPT ![r].taken = @ - 1]
        /\ \/ shouldStop(r) /\ Leave(rest, r, FALSE)
           \/ ~shouldStop(r) /\ steer'[r].taken > 0 /\ Enter(rest, r, "steering")
           \/ ~shouldStop(r) /\ steer'[r].taken = 0 /\ SelectContext(rest, r)
     \/ life = "open" /\ Throws /\ Catch(rest, r) /\ UNCHANGED steer
  /\ UNCHANGED <<session, diskVars, aborted, perm, turn, hostVars>>

\* saveMemory for a new checkpoint; making it may have spent the run's budget.
Compacted(r) ==
  LET rest == Tail(queue) IN
  /\ InLock("compacting", r)
  /\ \/ /\ Persists
        /\ stored' = Append(stored, Len(stored) + 1)
        /\ session' = [session EXCEPT !.memory = Len(stored) + 1]
        /\ \/ GoOn(rest, r, "model") /\ UNCHANGED aborted
           \/ aborted' = aborted \cup {r} /\ Leave(rest, r, TRUE)
     \/ Throws /\ Catch(rest, r) /\ UNCHANGED <<stored, session, aborted>>
  /\ UNCHANGED <<life, record, toolVars, hostVars>>

\* The provider's stream ends.  An overflow of the context compacts it and asks
\* again.  Otherwise the turn is counted; a spent budget cancels the run, and the
\* assistant message asks for the lock.
ModelAnswers(r) ==
  /\ phase[r] = "model"
  /\ \/ Catch(queue, r) /\ UNCHANGED <<aborted, turn>>
     \/ Room /\ Enter(queue, r, "compacting") /\ UNCHANGED <<aborted, turn>>
     \/ shouldStop(r) /\ Leave(queue, r, FALSE) /\ UNCHANGED <<aborted, turn>>
     \/ /\ ~shouldStop(r)
        /\ turn' = [turn EXCEPT ![r] = @ + 1]
        /\ aborted' = aborted \cup {r}
        /\ Leave(queue, r, TRUE)
     \/ /\ MayCommit(r)
        /\ turn' = [turn EXCEPT ![r] = @ + 1]
        /\ Enter(queue, r, "assistant")
        /\ UNCHANGED aborted
  /\ UNCHANGED <<session, diskVars, steer, perm, hostVars, faults>>

\* The committed answer holds a tool call, or was cut off by the output limit,
\* or is the end of the turn: then a queued instruction goes first, and otherwise
\* the plan and the children are asked whether the run may complete.
AnswerCommitted(r) ==
  LET rest == Tail(queue) IN
  /\ InLock("assistant", r)
  /\ \/ /\ life = "open" /\ Persists
        /\ \/ shouldStop(r) /\ Leave(rest, r, FALSE)
           \/ ~shouldStop(r) /\ GoOn(rest, r, "tool")
           \/ ~shouldStop(r) /\ EndRun(rest, r, "failed")
           \/ ~shouldStop(r) /\ GoOn(rest, r, IF steer[r].queued > 0 THEN "round" ELSE "guidance")
     \/ life = "open" /\ Throws /\ Catch(rest, r)
  /\ UNCHANGED <<session, diskVars, aborted, toolVars, hostVars>>

\* executeToolCall after it has traced the start of the call: the run is not
\* looked at again before the user is asked.
ToolCall(r) ==
  /\ phase[r] = "tool"
  /\ \/ Go(r, "running") /\ UNCHANGED perm
     \/ Go(r, "asking") /\ perm' = [perm EXCEPT ![r] = "pending"]
  /\ UNCHANGED <<session, diskVars, queue, finVars, aborted, steer, turn, hostVars, faults>>

\* settleToolCall: the result of a stopped run is dropped.
Settle(r) == IF MayCommit(r) THEN Enter(queue, r, "settle") ELSE Leave(queue, r, FALSE)

\* The decision reaches the waiting call.
Decided(r) ==
  /\ phase[r] = "asking"
  /\ perm[r] \in {"allowed", "denied"}
  /\ perm' = [perm EXCEPT ![r] = "none"]
  /\ IF perm[r] = "allowed" /\ ~shouldStop(r) THEN GoOn(queue, r, "running") ELSE Settle(r)
  /\ UNCHANGED <<session, diskVars, aborted, steer, turn, hostVars, faults>>

ToolReturns(r) ==
  /\ phase[r] = "running"
  /\ Settle(r)
  /\ UNCHANGED <<session, diskVars, aborted, toolVars, hostVars, faults>>

\* The result is committed: the next round begins, unless the tool was the
\* terminal tool of a child Runtime.
ResultCommitted(r) ==
  LET rest == Tail(queue) IN
  /\ InLock("settle", r)
  /\ \/ /\ life = "open" /\ Persists
        /\ \/ shouldStop(r) /\ Leave(rest, r, FALSE)
           \/ ~shouldStop(r) /\ (GoOn(rest, r, "round") \/ EndRun(rest, r, "completed"))
     \/ life = "open" /\ Throws /\ Catch(rest, r)
  /\ UNCHANGED <<session, diskVars, aborted, toolVars, hostVars>>

\* completionGuidance answers: the run is blocked, or is told what is missing in
\* a message, or completes.  The steer queue is not looked at again.
Guided(r) ==
  /\ phase[r] = "guidance"
  /\ EndRun(queue, r, "blocked") \/ Settle(r) \/ EndRun(queue, r, "completed")
  /\ UNCHANGED <<session, diskVars, aborted, toolVars, hostVars, faults>>

(***************************************************************************)
(* finishRun.                                                               *)
(***************************************************************************)

\* A completion that the plan does not allow becomes a block.
FinishGuard(r) ==
  /\ fin[r] = "guard"
  /\ \E f \in {"completed", "blocked"} : fate' = [fate EXCEPT ![r] = f]
  /\ fin' = [fin EXCEPT ![r] = "queued"]
  /\ snapshot' = [snapshot EXCEPT ![r] = session.memory]
  /\ withSessionLock(queue, "finalize", r)
  /\ UNCHANGED <<session, diskVars, phase, terminal, aborted, toolVars, hostVars, faults>>

TerminalState(f) == IF f \in {"completed", "aborted"} THEN f ELSE "failed"

\* saveMemory appends a checkpoint that is not the journal's last one, and the
\* journal rejects an id that it holds already.
MemorySaves(r) == \/ snapshot[r] = 0
                  \/ stored # <<>> /\ stored[Len(stored)] = snapshot[r]

\* failFinalization: the session is given up.
failFinalization == [session EXCEPT !.active = NoRun, !.closed = TRUE, !.inMap = FALSE]

\* Fault: the event that was to be announced is announced all the same.
AnnouncedAnyway(r) == fate[r]

\* The event RunCoordinator announces instead when a run could not be finalized.
FailureEvent(r) == "persistence"

finalizeRun(r) ==
  /\ InLock("finalize", r)
  /\ queue' = Tail(queue)
  /\ fin' = [fin EXCEPT ![r] = "workflow"]
  /\ snapshot' = [snapshot EXCEPT ![r] = 0]
  /\ \/ /\ session.active = r
        /\ MemorySaves(r)
        /\ Running # {}
        /\ Persists
        /\ record' = [q \in Run |-> IF q \in Running THEN TerminalState(fate[r]) ELSE record[q]]
        /\ session' = [session EXCEPT !.active = NoRun, !.memory = snapshot[r]]
        /\ UNCHANGED fate
     \/ /\ \/ Throws
           \/ /\ ~(session.active = r /\ MemorySaves(r) /\ Running # {})
              /\ UNCHANGED faults
        /\ session' = IF session.active = r THEN failFinalization ELSE session
        /\ fate' = [fate EXCEPT ![r] = FailureEvent(r)]
        /\ UNCHANGED record
  /\ UNCHANGED <<life, stored, phase, terminal, aborted, toolVars, hostVars>>

\* The workflow is finalized and the terminal event is emitted; the run object is
\* not used again, except by a loop that has still to notice that it has stopped.
EmitEnd(r) ==
  /\ fin[r] = "workflow"
  /\ fin' = [fin EXCEPT ![r] = "done"]
  /\ fate' = [fate EXCEPT ![r] = "none"]
  /\ \/ /\ ends' = [ends EXCEPT ![r] = Append(@, fate[r])]
        /\ UNCHANGED faults
     \/ /\ Throws
        /\ ends' = [ends EXCEPT ![r] = Append(@, "workflow")]
  /\ steer' = [steer EXCEPT ![r].queued = 0, ![r].taken = 0]
  /\ turn' = [turn EXCEPT ![r] = 0]
  /\ UNCHANGED <<session, diskVars, queue, phase, request, held, terminal, snapshot,
                 aborted, perm, up>>

(***************************************************************************)
(* The other requests of clients, and shutdown.                             *)
(***************************************************************************)

\* A client knows the run id once startPrompt has answered.
Known(r) == phase[r] \notin {"idle", "prepare", "begin", "extra", "refused", "stranded"}

Active(r) == session.inMap /\ session.active = r

\* session.steer: the instruction is posted to the workflow's mailbox first.
Steer(r) ==
  /\ up = "up"
  /\ Known(r) /\ Active(r) /\ ~shouldStop(r)
  /\ Room
  /\ steer' = [steer EXCEPT ![r].sent = @ + 1, ![r].posting = @ + 1]
  /\ UNCHANGED <<session, diskVars, queue, phase, finVars, aborted, perm, turn, hostVars, faults>>

\* The post returns: the instruction is queued, whatever became of the run.
SteerQueued(r) ==
  /\ steer[r].posting > 0
  /\ steer' = [steer EXCEPT ![r].posting = @ - 1, ![r].queued = @ + 1]
  /\ UNCHANGED <<session, diskVars, queue, phase, finVars, aborted, perm, turn, hostVars, faults>>

Deny(S) == perm' = [r \in Run |-> IF r \in S /\ perm[r] = "pending" THEN "denied" ELSE perm[r]]

\* Fault: the abort leaves it to the loop to finish the run.
AbortFlags(r) ==
  /\ up = "up"
  /\ Known(r) /\ Active(r)
  /\ aborted' = aborted \cup {r}
  /\ Deny({r})
  /\ UNCHANGED <<session, diskVars, queue, finVars, phase, steer, turn, hostVars, faults>>

\* session.abort, and the cancellation of the run's workflow.
Abort(r) ==
  /\ up = "up"
  /\ Known(r) /\ Active(r)
  /\ aborted' = aborted \cup {r}
  /\ Deny({r})
  /\ finish(queue, r, "aborted")
  /\ UNCHANGED <<session, diskVars, phase, steer, turn, hostVars, faults>>

\* permission.decide takes the request out of the map and records the decision.
Decide(r) ==
  /\ up = "up"
  /\ perm[r] = "pending"
  /\ perm' = [perm EXCEPT ![r] = "deciding"]
  /\ UNCHANGED <<session, diskVars, queue, phase, finVars, aborted, steer, turn, hostVars, faults>>

\* The policy file is written and the call is answered.  When the write throws,
\* the request is neither pending nor answered any more.
DecisionRecorded(r) ==
  /\ perm[r] = "deciding"
  /\ \/ /\ \E d \in {"allowed", "denied"} : perm' = [perm EXCEPT ![r] = d]
        /\ UNCHANGED faults
     \/ /\ Throws
        /\ perm' = [perm EXCEPT ![r] = "lost"]
  /\ UNCHANGED <<session, diskVars, queue, phase, finVars, aborted, steer, turn, hostVars>>

sessionOnly == <<record, stored, queue, phase, finVars, aborted, toolVars, hostVars, faults>>

\* session.close, under the lock; the journal's reducer refuses while a run is running.
closeSession ==
  /\ up = "up"
  /\ session.inMap /\ session.active = NoRun
  /\ life = "open" /\ Running = {}
  /\ life' = "closed"
  /\ session' = [session EXCEPT !.closed = TRUE]
  /\ UNCHANGED sessionOnly

\* session.resume, under the lock: a loaded session is reopened, another one is
\* read from the journal.
resumeSession ==
  /\ up = "up"
  /\ life # "deleted"
  /\ life' = "open"
  /\ \/ /\ session.inMap
        /\ session.closed
        /\ session' = [session EXCEPT !.closed = FALSE]
     \/ /\ ~session.inMap
        /\ session' = [gen |-> session.gen + 1, inMap |-> TRUE, closed |-> FALSE,
                       active |-> NoRun,
                       seen |-> {request[r] : r \in {q \in Run : record[q] # "none"}},
                       memory |-> Len(stored)]
  /\ UNCHANGED sessionOnly

\* session.delete: the reducer refuses the tombstone while a run is running, so
\* the look at activeRun before the await does not matter.
deleteSession ==
  /\ up = "up"
  /\ life # "deleted"
  /\ Running = {}
  /\ life' = "deleted"
  /\ session' = [session EXCEPT !.inMap = FALSE]
  /\ UNCHANGED sessionOnly

\* shutdown: the active run is cancelled and finished, every request is denied.
Shutdown ==
  /\ up = "up"
  /\ up' = "stopping"
  /\ Deny(Run)
  /\ IF session.inMap /\ session.active # NoRun
     THEN /\ aborted' = aborted \cup {session.active}
          /\ finish(queue, session.active, "aborted")
     ELSE UNCHANGED <<aborted, finVars, queue>>
  /\ UNCHANGED <<session, diskVars, phase, steer, turn, request, held, ends, faults>>

\* The composition is closed after the finalizations and the executions, or
\* when the wait for them has timed out, and the process exits: the journal and
\* the events that clients have seen remain.
finalizeComposition ==
  /\ up = "stopping"
  /\ up' = "closed"
  /\ session' = [Loaded EXCEPT !.inMap = FALSE]
  /\ queue' = <<>>
  /\ phase' = [r \in Run |-> "idle"]
  /\ held' = [r \in Run |-> 0]
  /\ fin' = [r \in Run |-> "none"]
  /\ fate' = [r \in Run |-> "none"]
  /\ snapshot' = [r \in Run |-> 0]
  /\ aborted' = {}
  /\ terminal' = {}
  /\ steer' = [r \in Run |-> NoSteer]
  /\ perm' = [r \in Run |-> "none"]
  /\ turn' = [r \in Run |-> 0]
  /\ UNCHANGED <<diskVars, request, ends, faults>>

LoopStep(r) ==
  \/ Launch(r) \/ ProviderReady(r) \/ Round(r) \/ SteerCommitted(r) \/ Compacted(r)
  \/ ModelAnswers(r) \/ AnswerCommitted(r) \/ ToolCall(r) \/ Decided(r) \/ ToolReturns(r)
  \/ ResultCommitted(r) \/ Guided(r)

StartStep(r) == Prepared(r) \/ beginRun(r) \/ ExtraCommitted(r)

FinishStep(r) == FinishGuard(r) \/ finalizeRun(r) \/ EmitEnd(r)

ClientStep(r) == Prompt(r) \/ Steer(r) \/ Abort(r) \/ Decide(r)

HostStep(r) == SteerQueued(r) \/ DecisionRecorded(r)

\* The process exits when the composition is closed.
Next ==
  /\ up # "closed"
  /\ \/ \E r \in Run : \/ ClientStep(r) \/ StartStep(r) \/ LoopStep(r)
                       \/ FinishStep(r) \/ HostStep(r)
     \/ closeSession \/ resumeSession \/ deleteSession
     \/ Shutdown \/ finalizeComposition

\* The event loop runs every continuation that is ready; repository, provider,
\* tools and planner answer, and so does the user who is asked for a permission.
\* The waits of a shutdown have a timeout.
Work ==
  /\ up # "closed"
  /\ \/ finalizeComposition
     \/ \E r \in Run : FinishStep(r) \/ StartStep(r) \/ LoopStep(r) \/ HostStep(r) \/ Decide(r)

Spec == Init /\ [][Next]_vars /\ WF_vars(Work)

(***************************************************************************)
(* Properties.                                                              *)
(***************************************************************************)

\* A run is announced as ended at most once, however abort, completion, failure
\* and shutdown meet (AgentLoop.finish sets run.terminal before it awaits).
OneTerminalEvent == \A r \in Run : Len(ends[r]) <= 1

\* The terminal event tells what the journal records, unless the record or the
\* workflow could not be written (RunCoordinator.finalize, finishRun).
EventTellsRecord ==
  \A r \in Run : ends[r] # <<>> =>
    CASE ends[r][1] = "persistence" -> record[r] = "running"
      [] ends[r][1] = "workflow"    -> TRUE
      [] OTHER                      -> record[r] = TerminalState(ends[r][1])

\* A message of the loop reaches the journal only while its run is running: the
\* section that ends the run waits behind every message already on its way.
MessagesPrecedeEnd ==
  \A i \in DOMAIN queue :
    queue[i].op \in LoopOps =>
      /\ record[queue[i].run] = "running"
      /\ \A j \in 1 .. i : queue[j] # [op |-> "finalize", run |-> queue[i].run]

\* Two prompts with one client request id start one run, also when both have
\* passed the first check before either began, and after a restart of the session.
OneRunPerRequest ==
  \A q, r \in Run : q # r /\ request[q] = request[r]
                      => record[q] = "none" \/ record[r] = "none"

Spoiled(r) == fate[r] = "persistence" \/ ends[r] \in {<<"persistence">>, <<"workflow">>}

\* The session object and the journal agree on the running run; they may differ
\* only after a finalization failed, and then the object has been given up.
SessionAgrees ==
  /\ Cardinality(Running) <= 1
  /\ session.active # NoRun => record[session.active] = "running"
  /\ \A r \in Running : session.active = r \/ Spoiled(r) \/ up = "closed"
  /\ life = "deleted" => Running = {}

\* While the repository works and the Runtime is up, every run that began ends.
EveryRunEnds ==
  <>[](\A r \in Run : record[r] = "running" => ends[r] # <<>> \/ faults > 0 \/ up = "closed")

\* An abort that finds its run active ends it, whatever fails and whatever the
\* run is waiting for.
AbortEnds == <>[](\A r \in aborted : ends[r] # <<>> \/ up = "closed")


\* How a run ends is told once, and as the journal has it (finish, finalize).
EndTold == OneTerminalEvent /\ EventTellsRecord

\* The session object, the journal and the positions of the runs fit together.
SessionSound == TypeOK /\ SessionAgrees

\* Every run that began ends while the repository works, and one that is aborted ends
\* even if it does not (AgentLoop.execute, abortRun, shutdown).
RunsEnd == EveryRunEnds /\ AbortEnds
=============================================================================
