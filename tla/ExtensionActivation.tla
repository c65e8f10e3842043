------------------------- MODULE ExtensionActivation -------------------------
(***************************************************************************)
(* Process plugins of one workspace: the installation registry and its     *)
(* lock, the workspace's enablement file, the activation service with its  *)
(* per-workspace queue, and the supervisor that owns the plugin processes. *)
(*                                                                         *)
(*   installationService.ts       install, uninstall, enable, disable,     *)
(*                                setHealth, processPluginSelections       *)
(*   processActivationService.ts  snapshot, deactivate, shutdown, the      *)
(*                                failure handler of a published tool      *)
(*   extensionSupervisor.ts       register, start, invoke, quarantine,     *)
(*                                remove, the invocation semaphore         *)
(*   processPluginHost.ts         the life of one plugin process           *)
(*   runtimeKernel.ts             the plugin.* methods that drive them     *)
(*                                                                         *)
(* A caller is one request in progress.  Every await of the code between   *)
(* two accesses of shared state separates two steps: the enablement file   *)
(* and the registry are read in one step and written in a later one, and   *)
(* only the registry's writers hold a lock.  Contents, grants, versions    *)
(* and capability names are left out: a plugin has one version, and its    *)
(* store is absent, partial (a copy or a removal cut short) or whole.      *)
(***************************************************************************)
EXTENDS Naturals, Sequences, FiniteSets

CONSTANTS
    Plugin,           \* process plugins that may be installed
    Caller,           \* requests that may be in progress at once
    FirstInstalled,   \* plugins installed when the model starts
    FirstPublished,   \* sequence of those enabled and running by then
    MaxSlots,         \* maxConcurrency of one instance
    MaxRequests,      \* bound: requests made in all
    MaxFaults         \* bound: crashes, failed copies and dead plugins

ASSUME ExtensionAssumption ==
    /\ FirstInstalled \subseteq Plugin
    /\ FirstPublished \in Seq(FirstInstalled)
    /\ \A i, j \in DOMAIN FirstPublished : FirstPublished[i] = FirstPublished[j] => i = j
    /\ MaxSlots \in Nat \ {0}
    /\ {MaxRequests, MaxFaults} \subseteq Nat
    /\ IsFiniteSet(Plugin)
    /\ {"free", "orphan"} \cap Caller = {} /\ "no plugin" \notin Plugin

VARIABLES
    registry,   \* plugins listed in registry.json
    store,      \* content-addressed copy of each plugin
    lock,       \* registry.lock: its holder, free, or left by a crash
    file,       \* the workspace's enablement file
    act,        \* activations: a supervised instance and its process
    current,    \* #workspaces: the published activations
    queue,      \* #workspaceQueues: callers in turn, the head is running
    calls,      \* what each caller is doing
    acked,      \* plugins whose installation was answered, until they are removed
    used        \* counters behind the bounds

extVars == <<registry, store, lock, file, act, current, queue, calls, acked, used>>

\* A request enables at most one plugin and starts each plugin at most once.
First == DOMAIN FirstPublished
Instance == 0..(Len(FirstPublished) + MaxRequests)
Activation == 1..(Len(FirstPublished) + MaxRequests * Cardinality(Plugin))
Persisted == {"stopped", "healthy", "quarantined"}
Entry == [inst : Instance, enabled : BOOLEAN, health : Persisted]
NoEntry == [inst |-> 0, enabled |-> FALSE, health |-> "stopped"]
NoPlugin == "no plugin"
File == [Plugin -> Entry]
NoFile == [p \in Plugin |-> NoEntry]
Row == [plugin : Plugin \cup {NoPlugin}, inst : Instance, health : Persisted \cup {"starting"},
        proc : {"none", "starting", "live", "late", "stopping"}, client : BOOLEAN, reg : BOOLEAN]
Unused == [plugin |-> NoPlugin, inst |-> 0, health |-> "stopped",
           proc |-> "none", client |-> FALSE, reg |-> FALSE]

\* What a caller is doing.  seen: the file as it read it; todo, next: the
\* snapshot under construction; a: the activation in hand; told: the health
\* it still has to write for each plugin, reading: those for which it has
\* read the file, and read: what it read; listed: the registry as it read it.
Call == [op : {"none", "install", "uninstall", "enable", "disable", "snapshot", "tool"},
         pc : {"idle", "lock", "install", "uninstall", "register", "unregister", "remove store",
               "unlock", "failed", "enable", "write enabled", "disable", "read disabled",
               "write disabled", "enqueue", "queued", "verify", "each", "starting", "waiting",
               "refreshing", "health", "running", "reporting"},
         p : Plugin \cup {NoPlugin}, a : Activation \cup {0}, seen : File,
         todo : SUBSET Plugin, next : SUBSET Activation,
         told : [Plugin -> Persisted \cup {"none"}], reading : SUBSET Plugin,
         read : [Plugin -> File], listed : SUBSET Plugin]

\* Nothing to tell, and a caller that asks for nothing.
Quiet == [p \in Plugin |-> "none"]
Idle == [op |-> "none", pc |-> "idle", p |-> NoPlugin, a |-> 0, seen |-> NoFile, todo |-> {},
         next |-> {}, told |-> Quiet, reading |-> {}, read |-> [p \in Plugin |-> NoFile],
         listed |-> {}]

ExtInit ==
    /\ registry = FirstInstalled
    /\ store = [p \in Plugin |-> IF p \in FirstInstalled THEN "whole" ELSE "absent"]
    /\ lock = "free"
    /\ file = [p \in Plugin |->
          IF \E i \in First : FirstPublished[i] = p
          THEN [inst |-> CHOOSE i \in First : FirstPublished[i] = p,
                enabled |-> TRUE, health |-> "healthy"]
          ELSE NoEntry]
    /\ act = [a \in Activation |->
          IF a \in First
          THEN [plugin |-> FirstPublished[a], inst |-> a, health |-> "healthy",
                proc |-> "live", client |-> TRUE, reg |-> TRUE]
          ELSE Unused]
    /\ current = First
    /\ queue = <<>>
    /\ calls = [c \in Caller |-> Idle]
    /\ acked = FirstInstalled
    /\ used = [inst |-> Len(FirstPublished), act |-> Len(FirstPublished), requests |-> 0, faults |-> 0]

Become(c, call) == calls' = [calls EXCEPT ![c] = call]
Goto(c, pc) == Become(c, [calls[c] EXCEPT !.pc = pc])
Return(c) == Become(c, Idle)
Fault == used.faults < MaxFaults /\ used' = [used EXCEPT !.faults = @ + 1]

(***************************************************************************)
(* The registry, under its lock                                            *)
(***************************************************************************)

\* install and uninstall open registry.lock exclusively.
Acquire(c) ==
    /\ calls[c].pc = "lock"
    /\ lock = "free"
    /\ lock' = c
    /\ Become(c, [calls[c] EXCEPT !.pc = calls[c].op, !.listed = registry])
    /\ UNCHANGED <<registry, store, file, act, current, queue, acked, used>>

\* A lock that is waited for however long (a mutation).
LockWait(c) ==
    /\ calls[c].pc = "lock"
    /\ lock # "free"
    /\ UNCHANGED extVars

\* ... and give up with PLUGIN_REGISTRY_BUSY after five seconds.
LockTimeout(c) ==
    /\ calls[c].pc = "lock"
    /\ lock # "free"
    /\ Return(c)
    /\ UNCHANGED <<registry, store, lock, file, act, current, queue, acked, used>>

\* The directory is created first: one that exists is taken to be complete.
CopyDirectory(c) ==
    LET p == calls[c].p IN
    /\ calls[c].pc = "install"
    /\ IF p \in calls[c].listed
       THEN Goto(c, "unlock") /\ UNCHANGED <<store, used>>
       ELSE \/ /\ store' = [store EXCEPT ![p] = IF @ = "absent" THEN "whole" ELSE @]
               /\ Goto(c, "register")
               /\ UNCHANGED used
            \/ /\ Fault    \* a file could not be copied
               /\ store[p] = "absent"
               /\ store' = [store EXCEPT ![p] = "partial"]
               /\ Goto(c, "failed")
    /\ UNCHANGED <<registry, lock, file, act, current, queue, acked>>

\* writeRegistry: the registry as it was read, with one entry more or less.
WriteRegistry(c) ==
    LET p == calls[c].p IN
    /\ \/ /\ calls[c].pc = "register"
          /\ registry' = calls[c].listed \cup {p}
          /\ Goto(c, "unlock")
          /\ UNCHANGED acked
       \/ /\ calls[c].pc = "unregister"
          /\ registry' = calls[c].listed \ {p}
          /\ Goto(c, "remove store")
          /\ acked' = acked \ {p}
    /\ UNCHANGED <<store, lock, file, act, current, queue, used>>

\* uninstall refuses a plugin that is not installed or that a workspace enables.
CheckUnused(c) ==
    LET p == calls[c].p IN
    /\ calls[c].pc = "uninstall"
    /\ Goto(c, IF p \in calls[c].listed /\ ~file[p].enabled THEN "unregister" ELSE "failed")
    /\ UNCHANGED <<registry, store, lock, file, act, current, queue, acked, used>>

\* A lock that is given up before the removal of the store (a mutation).
RemoveStoreUnlocked(c) ==
    /\ calls[c].pc = "remove store"
    /\ IF lock = c
       THEN lock' = "free" /\ UNCHANGED <<store, calls>>
       ELSE /\ store' = [store EXCEPT ![calls[c].p] = "absent"]
            /\ Return(c) /\ UNCHANGED lock
    /\ UNCHANGED <<registry, file, act, current, queue, acked, used>>

RemoveStore(c) ==
    /\ calls[c].pc = "remove store"
    /\ store' = [store EXCEPT ![calls[c].p] = "absent"]
    /\ Goto(c, "unlock")
    /\ UNCHANGED <<registry, lock, file, act, current, queue, acked, used>>

Unlock(c) ==
    /\ calls[c].pc \in {"unlock", "failed"}
    /\ lock' = "free"
    /\ acked' = IF calls[c].op = "install" /\ calls[c].pc = "unlock"
                THEN acked \cup {calls[c].p} ELSE acked
    /\ Return(c)
    /\ UNCHANGED <<registry, store, file, act, current, queue, used>>

\* The process of an installation or a removal dies: nothing takes its lock back.
CrashLocked(c) ==
    LET p == calls[c].p IN
    /\ lock = c
    /\ Fault
    /\ lock' = "orphan"
    /\ store' = IF \/ calls[c].pc = "remove store"
                   \/ /\ calls[c].pc = "install" /\ p \notin calls[c].listed
                      /\ store[p] = "absent"
                THEN [store EXCEPT ![p] = "partial"] ELSE store
    /\ Return(c)
    /\ UNCHANGED <<registry, file, act, current, queue, acked>>

(***************************************************************************)
(* The enablement file: read, modify, write, without a lock                *)
(***************************************************************************)

\* enable: inspect finds the installation, readWorkspace the file.
ReadToEnable(c) ==
    /\ calls[c].pc = "enable"
    /\ IF calls[c].p \in registry
       THEN Become(c, [calls[c] EXCEPT !.seen = file, !.pc = "write enabled"])
       ELSE Return(c)
    /\ UNCHANGED <<registry, store, lock, file, act, current, queue, acked, used>>

\* An entry that is written with the supervisor's health (a mutation).
WriteStarting(c) ==
    /\ calls[c].pc = "write enabled" /\ used.inst + 1 \in Instance
    /\ used' = [used EXCEPT !.inst = @ + 1]
    /\ file' = [calls[c].seen EXCEPT ![calls[c].p] =
                   [inst |-> used.inst + 1, enabled |-> TRUE, health |-> "starting"]]
    /\ Become(c, [Idle EXCEPT !.op = "snapshot", !.pc = "enqueue"])
    /\ UNCHANGED <<registry, store, lock, act, current, queue, acked>>

\* The entry is replaced by one with an identity of its own; the snapshot follows.
WriteEnabled(c) ==
    /\ calls[c].pc = "write enabled" /\ used.inst + 1 \in Instance
    /\ used' = [used EXCEPT !.inst = @ + 1]
    /\ file' = [calls[c].seen EXCEPT ![calls[c].p] =
                   [inst |-> used.inst + 1, enabled |-> TRUE, health |-> "stopped"]]
    /\ Become(c, [Idle EXCEPT !.op = "snapshot", !.pc = "enqueue"])
    /\ UNCHANGED <<registry, store, lock, act, current, queue, acked>>

\* plugin.disable deactivates first a plugin it finds enabled ...
LookToDisable(c) ==
    LET p == calls[c].p IN
    /\ calls[c].pc = "disable"
    /\ Goto(c, IF p \in registry /\ file[p].enabled THEN "enqueue" ELSE "read disabled")
    /\ UNCHANGED <<registry, store, lock, file, act, current, queue, acked, used>>

\* ... and then clears the flag, outside the workspace queue.
Disable(c) ==
    /\ \/ /\ calls[c].pc = "read disabled"
          /\ Become(c, [calls[c] EXCEPT !.seen = file, !.pc = "write disabled"])
          /\ UNCHANGED file
       \/ /\ calls[c].pc = "write disabled"
          /\ file' = [calls[c].seen EXCEPT ![calls[c].p] =
                          [@ EXCEPT !.enabled = FALSE, !.health = "stopped"]]
          /\ Return(c)
    /\ UNCHANGED <<registry, store, lock, act, current, queue, acked, used>>

\* setHealth for every plugin a caller has news of, all at once: each reads
\* the whole file and later writes it back with its own entry changed.
SetHealth(c) ==
    LET call == calls[c] IN
    /\ call.pc = "health"
    /\ \E p \in {q \in Plugin : call.told[q] # "none"} :
         \/ /\ p \notin call.reading
            /\ Become(c, [call EXCEPT !.reading = @ \cup {p}, !.read = [@ EXCEPT ![p] = file]])
            /\ UNCHANGED file
         \/ /\ p \in call.reading
            /\ file' = [call.read[p] EXCEPT ![p] = [@ EXCEPT !.health = call.told[p]]]
            /\ Become(c, [call EXCEPT !.told = [@ EXCEPT ![p] = "none"], !.reading = @ \ {p},
                                      !.read = [@ EXCEPT ![p] = NoFile]])
    /\ UNCHANGED <<registry, store, lock, act, current, queue, acked, used>>

(***************************************************************************)
(* The supervisor and its processes                                        *)
(***************************************************************************)

\* Callers that hold a slot of the activation's semaphore.
Holders(a) == {c \in Caller : calls[c].a = a /\ calls[c].pc \in {"running", "refreshing"}}

\* adapter.stop: the client is dropped at once, the process dies in its own time.
StopProcess(r) == [r EXCEPT !.client = FALSE,
                            !.proc = IF @ = "live" THEN "stopping" ELSE @]

Quarantined(r) == [StopProcess(r) EXCEPT !.health = "quarantined"]

\* A removal that forgets the instance but leaves its process (a mutation).
RemovedRunning(r) == [r EXCEPT !.reg = FALSE, !.health = "stopped"]

\* remove forgets the instance and stops it.
Removed(r) == [StopProcess(r) EXCEPT !.reg = FALSE, !.health = "stopped"]
RemoveAll(S) == [a \in Activation |-> IF a \in S THEN Removed(act[a]) ELSE act[a]]

\* A start that does not look whether its deadline has passed (a mutation).
ReapStopping(a) ==
    /\ act[a].proc = "stopping"
    /\ act' = [act EXCEPT ![a].proc = "none"]
    /\ UNCHANGED <<registry, store, lock, file, current, queue, calls, acked, used>>

\* A process that was asked to stop, or that answered too late to be used, ends.
Reap(a) ==
    /\ act[a].proc \in {"stopping", "late"}
    /\ act' = [act EXCEPT ![a].proc = "none"]
    /\ UNCHANGED <<registry, store, lock, file, current, queue, calls, acked, used>>

\* A plugin process exits on its own; only its next use finds out.
PluginExits(a) ==
    /\ act[a].proc = "live"
    /\ Fault
    /\ act' = [act EXCEPT ![a].proc = "none"]
    /\ UNCHANGED <<registry, store, lock, file, current, queue, calls, acked>>

(***************************************************************************)
(* The workspace queue                                                     *)
(***************************************************************************)

Enqueue(c) ==
    /\ calls[c].pc = "enqueue"
    /\ queue' = Append(queue, c)
    /\ Goto(c, "queued")
    /\ UNCHANGED <<registry, store, lock, file, act, current, acked, used>>

Turn(c) == calls[c].pc = "queued" /\ queue # <<>> /\ Head(queue) = c

\* The queue's promise settles: the next caller runs, a disable goes on.
LeaveQueue(c) ==
    /\ calls[c].pc = "health"
    /\ calls[c].told = Quiet
    /\ queue' = Tail(queue)
    /\ IF calls[c].op = "disable" THEN Goto(c, "read disabled") ELSE Return(c)
    /\ UNCHANGED <<registry, store, lock, file, act, current, acked, used>>

\* snapshot: the enabled, not quarantined plugins of the file ...
Select(c) ==
    /\ Turn(c) /\ calls[c].op = "snapshot"
    /\ Become(c, [calls[c] EXCEPT !.pc = "verify", !.seen = file,
                    !.todo = {p \in Plugin : file[p].enabled /\ file[p].health # "quarantined"}])
    /\ UNCHANGED <<registry, store, lock, file, act, current, queue, acked, used>>

\* ... each of which must be installed with its digest unchanged.
Resolved(c) == \A p \in calls[c].todo : p \in registry /\ store[p] = "whole"

Verify(c) ==
    /\ calls[c].pc = "verify" /\ Resolved(c)
    /\ Goto(c, "each")
    /\ UNCHANGED <<registry, store, lock, file, act, current, queue, acked, used>>

\* If one is not, every plugin is unpublished and every enabled plugin that
\* is still installed is quarantined.
Unresolved(c) ==
    /\ calls[c].pc = "verify" /\ ~Resolved(c)
    /\ current' = {}
    /\ act' = RemoveAll(current)
    /\ Become(c, [calls[c] EXCEPT !.pc = "health", !.todo = {}, !.seen = NoFile,
          !.told = [p \in Plugin |->
              IF p \in registry /\ file[p].enabled THEN "quarantined" ELSE "none"]])
    /\ UNCHANGED <<registry, store, lock, file, queue, acked, used>>

\* The published activation of a selected instance, if there is one.
Existing(c, p) == {a \in current : act[a].inst = calls[c].seen[p].inst}

\* register: a new instance, about to be started.
Registered(p, inst) ==
    [plugin |-> p, inst |-> inst, health |-> "starting",
     proc |-> "starting", client |-> FALSE, reg |-> TRUE]

\* One selection: refresh what is published, or register and start it.
Activate(c) ==
    /\ calls[c].pc = "each"
    /\ \E p \in calls[c].todo :
         \/ \E a \in Existing(c, p) :
              /\ Become(c, [calls[c] EXCEPT !.p = p, !.a = a, !.pc = "waiting"])
              /\ UNCHANGED <<act, used>>
         \/ /\ Existing(c, p) = {} /\ used.act + 1 \in Activation
            /\ used' = [used EXCEPT !.act = @ + 1]
            /\ act' = [act EXCEPT ![used.act + 1] = Registered(p, calls[c].seen[p].inst)]
            /\ Become(c, [calls[c] EXCEPT !.p = p, !.a = used.act + 1, !.pc = "starting"])
    /\ UNCHANGED <<registry, store, lock, file, current, queue, acked>>

\* The selection's status, and on to the next one.
Settled(call, health) ==
    [call EXCEPT !.pc = "each", !.todo = @ \ {call.p}, !.a = 0, !.p = NoPlugin,
                 !.told = [@ EXCEPT ![call.p] = health],
                 !.next = IF health = "healthy" THEN @ \cup {call.a} ELSE @]

\* adapter.start: a client, unless the deadline has passed by then, in which
\* case the process that answered too late is told to stop.
Started(r) == [r EXCEPT !.health = "healthy", !.proc = "live", !.client = TRUE]
NotStarted(r, left) == Removed([Quarantined(r) EXCEPT !.proc = left])

\* startInstance: the handshake and the health check succeed; or one fails,
\* or the deadline passes, and the instance is quarantined and removed.
FinishStart(c) ==
    LET a == calls[c].a IN
    /\ calls[c].pc = "starting"
    /\ \/ /\ act' = [act EXCEPT ![a] = Started(@)]
          /\ Become(c, Settled(calls[c], "healthy"))
       \/ \E left \in {"stopping", "late"} :
          /\ act' = [act EXCEPT ![a] = NotStarted(@, left)]
          /\ Become(c, Settled(calls[c], "quarantined"))
    /\ UNCHANGED <<registry, store, lock, file, current, queue, acked, used>>

\* adapter.invoke: a client is there, and its process answers.
Answers(a) == act[a].client /\ act[a].proc = "live"

\* A refresh goes through invoke: it fails on a quarantined or dead instance,
\* and a failure quarantines and removes it.
Refresh(c) ==
    LET a == calls[c].a IN
    /\ calls[c].op = "snapshot"
    /\ \/ /\ calls[c].pc = "waiting"
          /\ act[a].health = "healthy"
          /\ Cardinality(Holders(a)) < MaxSlots
          /\ Goto(c, "refreshing")
          /\ UNCHANGED act
       \/ /\ calls[c].pc = "waiting"
          /\ act[a].health # "healthy"
          /\ act' = [act EXCEPT ![a] = Removed(@)]
          /\ Become(c, Settled(calls[c], "quarantined"))
       \/ /\ calls[c].pc = "refreshing"
          /\ Answers(a)
          /\ Become(c, Settled(calls[c], "healthy"))
          /\ UNCHANGED act
       \/ /\ calls[c].pc = "refreshing"
          /\ act' = [act EXCEPT ![a] = Removed(Quarantined(@))]
          /\ Become(c, Settled(calls[c], "quarantined"))
    /\ UNCHANGED <<registry, store, lock, file, current, queue, acked, used>>

\* A publication that keeps the old activations it replaces (a mutation).
PublishOver(c) ==
    LET call == calls[c] IN
    /\ call.pc = "each" /\ call.todo = {}
    /\ current' = call.next
    /\ Become(c, [call EXCEPT !.pc = "health", !.next = {}, !.seen = NoFile])
    /\ UNCHANGED <<registry, store, lock, file, act, queue, acked, used>>

\* publishCapabilities needs a client of every activation: one that an
\* invocation quarantined meanwhile makes it throw.
Publishable(S) == \A a \in S : act[a].client

\* The new map replaces the old one, and what it no longer holds is removed;
\* when publication throws, nothing stays published.
Publish(c) ==
    LET call == calls[c]
        old == current
        published == Publishable(call.next)
    IN
    /\ call.pc = "each" /\ call.todo = {}
    /\ current' = IF published THEN call.next ELSE {}
    /\ act' = RemoveAll(IF published THEN old \ call.next ELSE old \cup call.next)
    /\ Become(c, [call EXCEPT !.pc = "health", !.next = {}, !.seen = NoFile,
          !.told = IF published THEN @
                   ELSE [p \in Plugin |-> IF @[p] = "none" THEN "none" ELSE "quarantined"]])
    /\ UNCHANGED <<registry, store, lock, file, queue, acked, used>>

\* deactivate, before plugin.disable clears the flag.
Deactivate(c) ==
    LET p == calls[c].p
        gone == {a \in current : act[a].plugin = p}
    IN
    /\ Turn(c) /\ calls[c].op = "disable"
    /\ current' = current \ gone
    /\ act' = RemoveAll(gone)
    /\ Become(c, [calls[c] EXCEPT !.pc = "health", !.told = [@ EXCEPT ![p] = "stopped"]])
    /\ UNCHANGED <<registry, store, lock, file, queue, acked, used>>

(***************************************************************************)
(* A call of a published tool                                              *)
(***************************************************************************)

\* isCurrent, then supervisor.invoke, which refuses a quarantined instance.
CallTool(c) ==
    /\ calls[c].pc = "idle" /\ used.requests < MaxRequests
    /\ used' = [used EXCEPT !.requests = @ + 1]
    /\ \E a \in current :
         Become(c, [calls[c] EXCEPT !.op = "tool", !.a = a,
             !.pc = IF act[a].reg /\ act[a].health = "healthy" THEN "waiting" ELSE "reporting"])
    /\ UNCHANGED <<registry, store, lock, file, act, current, queue, acked>>

\* The semaphore: nothing is checked again once a slot is free.
TakeSlot(c) ==
    /\ calls[c].op = "tool" /\ calls[c].pc = "waiting"
    /\ \/ Cardinality(Holders(calls[c].a)) < MaxSlots /\ Goto(c, "running")
       \/ Return(c)    \* the run is aborted while it waits
    /\ UNCHANGED <<registry, store, lock, file, act, current, queue, acked, used>>

\* The process answers; or the run is aborted; or the call fails (an error,
\* a dead process, a dropped client, the deadline), which quarantines an
\* instance the supervisor still knows.
FinishCall(c) ==
    LET a == calls[c].a IN
    /\ calls[c].op = "tool" /\ calls[c].pc = "running"
    /\ \/ /\ Answers(a)
          /\ Return(c)
          /\ UNCHANGED act
       \/ /\ act' = [act EXCEPT ![a] = IF @.reg THEN Quarantined(@) ELSE @]
          /\ Goto(c, "reporting")
    /\ UNCHANGED <<registry, store, lock, file, current, queue, acked, used>>

\* #handleInvocationFailure: only a quarantined instance is unpublished.
Report(c) ==
    LET a == calls[c].a IN
    /\ calls[c].op = "tool" /\ calls[c].pc = "reporting"
    /\ IF act[a].reg /\ act[a].health = "quarantined" THEN Goto(c, "enqueue") ELSE Return(c)
    /\ UNCHANGED <<registry, store, lock, file, act, current, queue, acked, used>>

\* In its turn it looks whether that very activation is still published.
Unpublish(c) ==
    LET a == calls[c].a
        p == act[a].plugin
        mine == a \in current
    IN
    /\ Turn(c) /\ calls[c].op = "tool"
    /\ current' = IF mine THEN {b \in current : act[b].plugin # p} ELSE current
    /\ act' = IF mine THEN RemoveAll({a}) ELSE act
    /\ Become(c, [calls[c] EXCEPT !.pc = "health", !.a = 0,
                      !.told = [@ EXCEPT ![p] = IF mine THEN "quarantined" ELSE "none"]])
    /\ UNCHANGED <<registry, store, lock, file, queue, acked, used>>

(***************************************************************************)
(* Requests                                                                *)
(***************************************************************************)

\* The plugin.* methods, and the snapshot every prompt takes.
Request(c) ==
    /\ calls[c].pc = "idle" /\ used.requests < MaxRequests
    /\ used' = [used EXCEPT !.requests = @ + 1]
    /\ \/ Become(c, [calls[c] EXCEPT !.op = "snapshot", !.pc = "enqueue"])
       \/ \E p \in Plugin :
            \/ Become(c, [calls[c] EXCEPT !.op = "enable", !.p = p, !.pc = "enable"])
            \/ /\ file[p].inst # 0
               /\ Become(c, [calls[c] EXCEPT !.op = "disable", !.p = p, !.pc = "disable"])
            \/ \E op \in {"install", "uninstall"} :
                 Become(c, [calls[c] EXCEPT !.op = op, !.p = p, !.pc = "lock"])
    /\ UNCHANGED <<registry, store, lock, file, act, current, queue, acked>>

RegistryStep(c) ==
    \/ Acquire(c) \/ LockTimeout(c) \/ CopyDirectory(c) \/ WriteRegistry(c)
    \/ CheckUnused(c) \/ RemoveStore(c) \/ Unlock(c)

FileStep(c) ==
    \/ ReadToEnable(c) \/ WriteEnabled(c) \/ LookToDisable(c) \/ Disable(c) \/ SetHealth(c)

QueueStep(c) ==
    \/ Enqueue(c) \/ LeaveQueue(c) \/ Select(c) \/ Verify(c) \/ Unresolved(c) \/ Activate(c)
    \/ FinishStart(c) \/ Refresh(c) \/ Publish(c) \/ Deactivate(c)

ToolStep(c) == TakeSlot(c) \/ FinishCall(c) \/ Report(c) \/ Unpublish(c)

CallerStep(c) == RegistryStep(c) \/ FileStep(c) \/ QueueStep(c) \/ ToolStep(c)

ExtNext ==
    \/ \E c \in Caller : CallerStep(c) \/ Request(c) \/ CallTool(c) \/ CrashLocked(c)
    \/ \E a \in Activation : Reap(a) \/ PluginExits(a)

\* Every await ends: files answer, and calls, starts and stops have deadlines.
ExtFairness ==
    /\ \A c \in Caller : WF_extVars(CallerStep(c))
    /\ \A a \in Activation : WF_extVars(Reap(a))

ExtSpec == ExtInit /\ [][ExtNext]_extVars /\ ExtFairness

(***************************************************************************)
(* Properties                                                              *)
(***************************************************************************)

\* The registry, the file, the activations and the queue have their shapes.
ExtTypeOK ==
    /\ registry \subseteq Plugin
    /\ store \in [Plugin -> {"absent", "partial", "whole"}]
    /\ lock \in Caller \cup {"free", "orphan"}
    /\ file \in File
    /\ act \in [Activation -> Row]
    /\ current \subseteq Activation
    /\ queue \in Seq(Caller)
    /\ calls \in [Caller -> Call]
    /\ acked \subseteq Plugin
    /\ used \in [inst : Instance, act : Activation \cup {0}, requests : 0 .. MaxRequests,
                 faults : 0 .. MaxFaults]

\* No answered installation is lost from registry.json, whoever else writes
\* it, and without a failed copy or a crash what is listed is in the store.
RegistrySound ==
    /\ acked \subseteq registry
    /\ used.faults = 0 => \A p \in registry : store[p] = "whole"

\* Between two turns of the workspace queue the published activations are
\* exactly the instances the supervisor knows, one for each enablement: no
\* tool is left without an instance and no instance without its tools.
SupervisorAgrees ==
    queue = <<>> =>
        /\ current = {a \in Activation : act[a].reg}
        /\ \A a, b \in current : act[a].inst = act[b].inst => a = b

\* A process that runs and can be called is published or about to be: once
\* a disable, a replacement, a failure or a failed publication has taken an
\* activation away, no call that was already waiting for it is answered.
RunningIsPublished ==
    \A a \in Activation :
        act[a].proc = "live" =>
            /\ act[a].client
            /\ a \in current \cup UNION {calls[c].next : c \in Caller}

\* Every request comes to an end: the lock, the workspace queue and the
\* semaphore never leave a caller waiting, a dead plugin or a dead holder
\* of the lock included.
RequestsEnd == \A c \in Caller : []<>(calls[c].pc = "idle")

\* Every plugin process is in the end one that is published: replaced,
\* quarantined, removed and late processes are stopped.
ProcessesReaped == <>[](\A a \in Activation : act[a].proc # "none" => a \in current)


\* The registry loses no installation, and what the supervisor knows, what is published
\* and what runs agree (installationService, processActivationService).
PluginsSound == ExtTypeOK /\ RegistrySound /\ SupervisorAgrees /\ RunningIsPublished
=============================================================================
