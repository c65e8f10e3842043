----------------------------- MODULE ChildHost -----------------------------
(***************************************************************************)
(* Child runtimes: how ChildRuntimeHost admits, starts, watches, cancels     *)
(* and settles the child processes that LocalWorkflowAgentWorkerV1 asks for. *)
(*                                                                          *)
(* Each child run delegates a credential, reserves a slot in the admission   *)
(* ledger, is linked into the cancellation tree, connects, is accepted (and  *)
(* charged), is bound to a session and a run, and then its events are read,  *)
(* one at a time: a permission request is answered by the user before the    *)
(* next event is read.  Cancellation and steering come from other callers    *)
(* at any moment.  A child may not have children (assertChildExecutionMvp),  *)
(* so the ledger has one scope and the tree one level.                       *)
(***************************************************************************)
EXTENDS Naturals, FiniteSetsExt

CONSTANTS
  Child,          \* child runs
  ParentTurns, MaxChildRuns, MaxParallel,  \* the budget of the parent's scope
  ChildTurns,     \* turns every child asks for
  MaxHostFaults   \* bound: requests, processes and stores that fail

ASSUME HostAssumption ==
  /\ IsFiniteSet(Child)
  /\ ParentTurns \in Nat /\ MaxChildRuns \in Nat /\ MaxParallel \in Nat /\ ChildTurns \in Nat
  /\ MaxHostFaults \in Nat

VARIABLES
  stage,      \* where the worker and the host are with each child
  admission,  \* the state of its reservation
  lease,      \* turns granted to it
  spent,      \* turns its process has used
  ledger,     \* the scope's reservedChildRuns, chargedChildRuns, activeChildren and the
              \* turns of terminalUsage
  cancelled,  \* CancellationTree.cancelled, true for a run with a reason
  told,       \* children whose control has a reason
  aborting,   \* children whose abort has been requested: the close is scheduled
  process,    \* the child's process
  asked,      \* children with a permission request pending at the parent
  handle,     \* its credential handle
  steered,    \* an instruction sent to the child
  hostFaults

hostVars == <<stage, admission, lease, spent, ledger, cancelled, told, aborting, process, asked,
              handle, steered, hostFaults>>

Stage == {"idle", "prepared", "connecting", "starting", "reading", "deciding", "finishing",
          "closing", "refused", "ended"}
\* children has a control for the child: from attachConnection to the finally block.
Attached == {"connecting", "starting", "reading", "deciding", "finishing"}
Bound == {"reading", "deciding", "finishing"}

HostTypeOK ==
  /\ stage \in [Child -> Stage]
  /\ admission \in [Child -> {"none", "slot_reserved", "execution_accepted", "released", "terminal"}]
  /\ lease \in [Child -> 0 .. ChildTurns] /\ spent \in [Child -> 0 .. ChildTurns]
  /\ ledger \in [reserved : 0 .. MaxChildRuns, charged : 0 .. MaxChildRuns,
                 active : 0 .. MaxParallel, used : Nat]
  /\ cancelled \subseteq Child /\ told \subseteq Child /\ aborting \subseteq Child
  /\ process \in [Child -> {"none", "up", "completed", "aborted", "gone"}]
  /\ asked \subseteq Child
  /\ handle \in [Child -> {"none", "active", "revoked"}]
  /\ steered \in [Child -> {"none", "unconnected", "unbound", "sent", "accepted", "refused"}]
  /\ hostFaults \in 0 .. MaxHostFaults

HostInit ==
  /\ stage = [c \in Child |-> "idle"]
  /\ admission = [c \in Child |-> "none"]
  /\ lease = [c \in Child |-> 0] /\ spent = [c \in Child |-> 0]
  /\ ledger = [reserved |-> 0, charged |-> 0, active |-> 0, used |-> 0]
  /\ cancelled = {} /\ told = {} /\ aborting = {} /\ asked = {}
  /\ process = [c \in Child |-> "none"]
  /\ handle = [c \in Child |-> "none"]
  /\ steered = [c \in Child |-> "none"]
  /\ hostFaults = 0

Fault == hostFaults < MaxHostFaults /\ hostFaults' = hostFaults + 1
SetStage(c, s) == stage' = [stage EXCEPT ![c] = s]
SetAdmission(c, s) == admission' = [admission EXCEPT ![c] = s]

childVars == <<spent, process, asked>>
controlVars == <<cancelled, told, aborting>>

(***************************************************************************)
(* The admission ledger.                                                    *)
(***************************************************************************)

\* clampChildBudget: the leases of children that still run are not subtracted.
Remaining == IF ledger.used > ParentTurns THEN 0 ELSE ParentTurns - ledger.used
Granted == Min({ChildTurns, Remaining})

Admissible ==
  /\ ledger.charged + ledger.reserved < MaxChildRuns
  /\ ledger.active < MaxParallel
  /\ Granted > 0

Reserve(c) ==
  /\ SetAdmission(c, "slot_reserved")
  /\ lease' = [lease EXCEPT ![c] = Granted]
  /\ ledger' = [ledger EXCEPT !.reserved = @ + 1, !.active = @ + 1]

Accept(c) ==
  /\ SetAdmission(c, "execution_accepted")
  /\ ledger' = [ledger EXCEPT !.reserved = @ - 1, !.charged = @ + 1]

\* releaseAdmission that forgets the active slot.
ReleaseKeepsSlot(c) ==
  /\ SetAdmission(c, "released")
  /\ ledger' = [ledger EXCEPT !.reserved = @ - 1]

Release(c) ==
  /\ SetAdmission(c, "released")
  /\ ledger' = [ledger EXCEPT !.reserved = @ - 1, !.active = @ - 1]

\* prepareSpawn, or the bootstrap, refuses after the slot was reserved; the release that
\* prepareSpawn calls twice, if the ledger counted it twice:
RefuseTwice(c) ==
  /\ SetStage(c, "refused") /\ SetAdmission(c, "released")
  /\ ledger' = [ledger EXCEPT !.reserved = @ - 1, !.active = @ - 1]
  /\ UNCHANGED lease

Refuse(c) ==
  /\ SetStage(c, "refused") /\ SetAdmission(c, "released")
  /\ UNCHANGED <<lease, ledger>>

\* settleTerminal that charges nothing for an execution whose usage is unknown.
UsageForgotten(c, reported) == IF reported THEN spent[c] ELSE 0

\* An execution whose usage is unknown is charged its whole budget.
Usage(c, reported) == IF reported THEN spent[c] ELSE lease[c]

Settle(c, reported) ==
  /\ SetAdmission(c, "terminal")
  /\ ledger' = [ledger EXCEPT !.active = @ - 1, !.used = @ + Usage(c, reported)]

(***************************************************************************)
(* The worker and the host, for one child.                                  *)
(***************************************************************************)

\* LocalWorkflowAgentWorkerV1.execute up to host.run.
Delegate(c) ==
  /\ stage[c] = "idle"
  /\ SetStage(c, "prepared")
  /\ handle' = [handle EXCEPT ![c] = "active"]
  /\ UNCHANGED <<admission, lease, ledger, childVars, controlVars, steered, hostFaults>>

\* prepareSpawn and childBootstrapLaunch.  A refusal, by the budget, by a reason the
\* child has already, or by the profile, is thrown before the finally block is entered:
\* nothing revokes the handle.
Spawn(c) ==
  /\ stage[c] = "prepared"
  /\ \/ /\ ~Admissible
        /\ SetStage(c, "refused") /\ UNCHANGED <<admission, lease, ledger, hostFaults>>
     \/ Admissible /\ c \in cancelled /\ Refuse(c) /\ UNCHANGED hostFaults
     \/ /\ Admissible /\ c \notin cancelled
        /\ SetStage(c, "connecting") /\ Reserve(c) /\ UNCHANGED hostFaults
     \/ Admissible /\ c \notin cancelled /\ Fault /\ Refuse(c)
  /\ steered' = [steered EXCEPT ![c] = IF @ = "unconnected" /\ stage'[c] = "connecting"
                                         THEN "unbound" ELSE @]
  /\ UNCHANGED <<childVars, controlVars, handle>>

\* Waiters that only a bound session wakes.
UnblockSent(c, answer) ==
  steered' = [steered EXCEPT ![c] = IF @ = "unbound" /\ answer = "sent" THEN answer ELSE @]

\* settleBindWaiters.
Unblock(c, answer) == steered' = [steered EXCEPT ![c] = IF @ = "unbound" THEN answer ELSE @]

\* The operation throws: the tree is told plugin_failure unless the child has a reason,
\* the child leaves children, and the connection is closed.
Throws(c) ==
  /\ SetStage(c, "closing")
  /\ cancelled' = cancelled \cup {c}
  /\ process' = [process EXCEPT ![c] = "gone"]
  /\ Unblock(c, "refused")
  /\ UNCHANGED <<lease, spent, asked, told, aborting, handle>>

\* client.connect has returned: a deadline that has passed, or a reason, is an error;
\* otherwise the execution is accepted.  Accepting whatever happened meanwhile:
ConnectedBlindly(c) ==
  /\ stage[c] = "connecting"
  /\ SetStage(c, "starting") /\ Accept(c)
  /\ UNCHANGED <<lease, childVars, controlVars, handle, steered, hostFaults>>

Connected(c) ==
  /\ stage[c] = "connecting"
  /\ \/ c \in cancelled /\ Throws(c) /\ UNCHANGED <<admission, ledger>>
     \/ /\ c \notin cancelled
        /\ SetStage(c, "starting") /\ Accept(c)
        /\ UNCHANGED <<lease, childVars, controlVars, handle, steered>>
  /\ UNCHANGED hostFaults

\* session.prompt is accepted and control.bind called, which does not look at a reason:
BindUnaware(c) ==
  /\ stage[c] = "starting"
  /\ SetStage(c, "reading")
  /\ process' = [process EXCEPT ![c] = "up"]
  /\ Unblock(c, "sent")
  /\ UNCHANGED <<admission, lease, ledger, spent, asked, controlVars, handle, hostFaults>>

Bind(c) ==
  /\ stage[c] = "starting"
  /\ SetStage(c, "reading")
  /\ process' = [process EXCEPT ![c] = "up"]
  /\ aborting' = IF c \in told THEN aborting \cup {c} ELSE aborting
  /\ Unblock(c, IF c \in told THEN "refused" ELSE "sent")
  /\ UNCHANGED <<admission, lease, ledger, spent, asked, cancelled, told, handle, hostFaults>>

\* A permission request inside the grant, for a rule that is not allowed yet.
Ask(c) ==
  /\ stage[c] = "reading" /\ process[c] = "up"
  /\ SetStage(c, "deciding") /\ asked' = asked \cup {c}
  /\ UNCHANGED <<admission, lease, ledger, spent, process, controlVars, handle, steered, hostFaults>>

\* decidePermission is sent to the child, unless its connection is closed.
Decided(c) ==
  /\ stage[c] = "deciding" /\ c \notin asked
  /\ \/ process[c] = "gone" /\ Throws(c)
     \/ /\ process[c] # "gone"
        /\ SetStage(c, "reading")
        /\ UNCHANGED <<lease, childVars, controlVars, handle, steered>>
  /\ UNCHANGED <<admission, ledger, hostFaults>>

\* The terminal event: complete clears the timers; events that end without one throw.
Terminal(c) ==
  /\ stage[c] = "reading"
  /\ \/ /\ process[c] \in {"completed", "aborted"}
        /\ SetStage(c, "finishing") /\ Unblock(c, "refused")
        /\ UNCHANGED <<lease, childVars, controlVars, handle>>
     \/ process[c] = "gone" /\ Throws(c)
  /\ UNCHANGED <<admission, ledger, hostFaults>>

\* shutdown, the usage and the artifact of the result.
Finish(c) ==
  /\ stage[c] = "finishing"
  /\ SetStage(c, "closing")
  /\ UNCHANGED <<admission, lease, ledger, childVars, controlVars, handle, steered, hostFaults>>

\* A request that times out, a process that dies, a store that fails.
HostFault(c) ==
  /\ Fault
  /\ stage[c] \in {"connecting", "starting", "reading", "finishing"}
  /\ Throws(c)
  /\ UNCHANGED <<admission, ledger>>

\* The finally block with the handle left for its deadline.
CloseKeepsHandle(c) ==
  /\ stage[c] = "closing"
  /\ SetStage(c, "ended")
  /\ IF admission[c] = "execution_accepted"
       THEN Settle(c, process[c] \in {"completed", "aborted"}) ELSE Release(c)
  /\ UNCHANGED <<lease, childVars, controlVars, handle, steered, hostFaults>>

\* The finally block: close, cleanup, revokeChild, then settleTerminal or releaseAdmission.
\* Each is tried whatever became of the one before.
Close(c) ==
  /\ stage[c] = "closing"
  /\ SetStage(c, "ended")
  /\ handle' = [handle EXCEPT ![c] = "revoked"]
  /\ IF admission[c] = "execution_accepted"
       THEN Settle(c, process[c] \in {"completed", "aborted"}) ELSE Release(c)
  /\ UNCHANGED <<lease, childVars, controlVars, steered, hostFaults>>

(***************************************************************************)
(* The child's process.                                                     *)
(***************************************************************************)

ChildTurn(c) ==
  /\ process[c] = "up" /\ c \notin asked /\ spent[c] < lease[c]
  /\ spent' = [spent EXCEPT ![c] = @ + 1]
  /\ UNCHANGED <<stage, admission, lease, ledger, process, asked, controlVars, handle, steered, hostFaults>>

ChildStops(c) ==
  /\ process[c] = "up"
  /\ \/ c \notin asked /\ process' = [process EXCEPT ![c] = "completed"]
     \/ c \in aborting /\ process' = [process EXCEPT ![c] = "aborted"]
  /\ UNCHANGED <<stage, admission, lease, ledger, spent, asked, controlVars, handle, steered, hostFaults>>

\* The close that startAbort schedules, until complete clears it.
ForceClose(c) ==
  /\ c \in aborting /\ stage[c] \in {"reading", "deciding"} /\ process[c] # "gone"
  /\ process' = [process EXCEPT ![c] = "gone"]
  /\ UNCHANGED <<stage, admission, lease, ledger, spent, asked, controlVars, handle, steered, hostFaults>>

(***************************************************************************)
(* The callers.                                                             *)
(***************************************************************************)

\* host.cancel when only the tree is told.
CancelTreeOnly(c) ==
  /\ stage[c] \notin {"idle", "refused", "ended"} /\ c \notin cancelled
  /\ cancelled' = cancelled \cup {c}
  /\ UNCHANGED <<stage, admission, lease, ledger, childVars, told, aborting, handle, steered, hostFaults>>

\* host.cancel, from worker.cancel at any time or from the deadlines once they are armed.
\* A run that has a reason already is not told again.
Cancel(c) ==
  /\ stage[c] \notin {"idle", "refused", "ended"} /\ c \notin cancelled
  /\ cancelled' = cancelled \cup {c}
  /\ IF stage[c] \in Attached
       THEN /\ told' = told \cup {c}
            /\ aborting' = IF stage[c] \in Bound THEN aborting \cup {c} ELSE aborting
            /\ Unblock(c, "refused")
       ELSE UNCHANGED <<told, aborting, steered>>
  /\ UNCHANGED <<stage, admission, lease, ledger, childVars, handle, hostFaults>>

\* The user answers, or cancelChildPermissions or cancelPendingPermissions denies.
Answer(c) ==
  /\ c \in asked /\ asked' = asked \ {c}
  /\ UNCHANGED <<stage, admission, lease, ledger, spent, process, controlVars, handle, steered, hostFaults>>

\* host.steer: it waits for the connection, then for the session.
Steer(c) ==
  /\ stage[c] # "idle" /\ steered[c] = "none"
  /\ steered' = [steered EXCEPT ![c] =
       CASE stage[c] \notin Attached -> "unconnected"
         [] stage[c] \in Attached /\ c \in told -> "refused"
         [] stage[c] \in Attached \ Bound /\ c \notin told -> "unbound"
         [] OTHER -> "sent"]
  /\ UNCHANGED <<stage, admission, lease, ledger, childVars, controlVars, handle, hostFaults>>

\* The waiter for the connection times out, or the host is done with the child.
SteerUnconnected(c) ==
  /\ steered[c] = "unconnected"
  /\ steered' = [steered EXCEPT ![c] = "refused"]
  /\ UNCHANGED <<stage, admission, lease, ledger, childVars, controlVars, handle, hostFaults>>

\* session.steer is answered, or the connection is closed under it.
SteerAnswered(c) ==
  /\ steered[c] = "sent"
  /\ steered' = [steered EXCEPT ![c] =
       IF stage[c] \in Attached /\ process[c] = "up" THEN "accepted" ELSE "refused"]
  /\ UNCHANGED <<stage, admission, lease, ledger, childVars, controlVars, handle, hostFaults>>

\* What the host does by itself: its own steps and its timers.
HostStep(c) ==
  \/ Spawn(c) \/ Connected(c) \/ Bind(c) \/ Decided(c) \/ Terminal(c) \/ Finish(c)
  \/ Close(c) \/ ForceClose(c)

HostNext == \E c \in Child :
  \/ Delegate(c) \/ HostStep(c) \/ Ask(c) \/ HostFault(c)
  \/ ChildTurn(c) \/ ChildStops(c)
  \/ Cancel(c) \/ Answer(c) \/ Steer(c) \/ SteerUnconnected(c) \/ SteerAnswered(c)

\* A client request ends or times out, and a scheduled close happens; the child, the
\* user and the callers owe nothing.
HostSpec ==
  /\ HostInit /\ [][HostNext]_hostVars
  /\ \A c \in Child : WF_hostVars(HostStep(c)) /\ WF_hostVars(SteerUnconnected(c) \/ SteerAnswered(c))

(***************************************************************************)
(* Properties.                                                              *)
(***************************************************************************)

\* The slots of the scope are those of the children between their admission and their
\* end, whichever of the many ways out a child took: none leaks, none is freed twice.
SlotsAgree ==
  LET count(states) == Cardinality({c \in Child : admission[c] \in states}) IN
  /\ ledger.active = count({"slot_reserved", "execution_accepted"})
  /\ ledger.reserved = count({"slot_reserved"})
  /\ \A c \in Child : stage[c] \in {"refused", "ended"}
       => admission[c] \notin {"slot_reserved", "execution_accepted"}

\* The scope is charged at least the turns its ended children used, although a child
\* that failed, was closed by force or lost its connection reported none.
TurnsAccounted ==
  ledger.used >=
    Cardinality({t \in Child \X (1 .. ChildTurns) : stage[t[1]] = "ended" /\ t[2] <= spent[t[1]]})

\* A cancellation reaches the child wherever it was: a run the host is reading, and
\* that has a reason, has been asked to abort, even if the reason came before the
\* session existed.
CancelReaches == \A c \in Child :
  stage[c] \in {"reading", "deciding"} /\ c \in cancelled => c \in aborting

\* A child that was started holds no credential handle once it has ended, however it
\* ended.
HandleRevoked == \A c \in Child : stage[c] = "ended" => handle[c] # "active"

\* A child cancelled before it was accepted is never charged, and never runs.
NeverCharged == [][\A c \in Child :
  c \in cancelled /\ admission[c] \in {"none", "slot_reserved"}
    => admission'[c] # "execution_accepted" /\ process'[c] # "up"]_hostVars

\* A cancelled child ends, and its slot is given back, even if its process ignores the
\* abort: unless the host is still waiting for the user to answer it.
CancelledEnds == \A c \in Child :
  []<>(c \in cancelled => stage[c] \in {"idle", "refused", "ended"} \/ c \in asked)

\* An instruction to a child is answered, even if the child never connects, is cancelled
\* before its session exists, or fails.
SteerEnds == <>[](\A c \in Child : steered[c] \in {"none", "accepted", "refused"})


\* Slots, turns and credential of a child are accounted for however it ends, and a
\* cancellation has reached it (ChildAdmissionLedger, ChildRuntimeHost).
HostSound == HostTypeOK /\ SlotsAgree /\ TurnsAccounted /\ CancelReaches /\ HandleRevoked
=============================================================================
