--------------------------- MODULE ProcessesProofs ---------------------------
(***************************************************************************)
(* Proofs about the processes on either side of a Runtime.                  *)
(*                                                                          *)
(* Plugins.                                                                 *)
(* The registry is written as its reader saw it, which is right because the *)
(* lock is held in between (Locked).  The file is written without a lock as *)
(* somebody saw it once, which may lose a change but never makes an         *)
(* instance the name of two plugins, whatever mixture of old files is       *)
(* written (Owned).  The published activations are changed by the head of   *)
(* the workspace queue only (InTurn): while it builds a snapshot, what the  *)
(* supervisor knows is what was published, what is in the snapshot so far   *)
(* and the one that is being started (Building).                            *)
(*                                                                          *)
(* The client.  A notification is an entry of the Runtime's log (Noted), an *)
(* entry knows its place in its run (Logged), and so the pump, which takes  *)
(* no notification but the next, gives each open channel and each prompt    *)
(* that waits for its answer the run so far (Channel, Early).               *)
(***************************************************************************)
EXTENDS ExtensionActivation, ClientEvents, FiniteSetTheorems, TLAPS

-----------------------------------------------------------------------------
(* The inductive invariant *)

Inside == {"install", "uninstall", "register", "unregister", "remove store", "unlock", "failed"}
Holding(call) == call.pc \in Inside

\* The steps of a request follow from what it asks for.
Orderly(call) ==
  /\ call.op \in {"install", "uninstall", "enable", "disable"} => call.p \in Plugin
  /\ call.pc = "idle" => call = Idle
  /\ call.pc \in Inside \cup {"lock"} => call.op \in {"install", "uninstall"}
  /\ call.pc \in {"install", "register"} => call.op = "install"
  /\ call.pc \in {"uninstall", "unregister", "remove store"} => call.op = "uninstall"
  /\ call.pc \in {"enable", "write enabled"} => call.op = "enable"
  /\ call.pc \in {"disable", "read disabled", "write disabled"} => call.op = "disable"
  /\ call.pc \in {"running", "reporting"} => call.op = "tool"
  /\ call.pc \in {"verify", "each", "starting", "refreshing"} => call.op = "snapshot"
  /\ call.pc = "waiting" => call.op \in {"snapshot", "tool"}
  /\ call.pc \in {"enqueue", "queued", "health"} => call.op \in {"disable", "snapshot", "tool"}

\* Who is between Acquire and Unlock holds the lock and knows the registry as it is.
Locked(c, call) ==
  /\ Holding(call) <=> lock = c
  /\ call.pc \in {"install", "uninstall", "register", "unregister"} => call.listed = registry
  /\ call.pc = "register" /\ used.faults = 0 => store[call.p] = "whole"
  /\ call.pc = "unlock" /\ call.op = "install" => call.p \in registry
  /\ call.pc = "remove store" => call.p \notin registry

Registry ==
  /\ RegistrySound
  /\ used.faults = 0 => \A p \in Plugin : store[p] # "partial"
  /\ \A c \in Caller : Locked(c, calls[c])

\* Every file that was written or read names each plugin by instances of its own, as do
\* the activations.
Files == {file, NoFile} \cup {calls[c].seen : c \in Caller}
           \cup {calls[c].read[p] : c \in Caller, p \in Plugin}
Named(i, p) ==
  \/ \E f \in Files : f[p].inst = i
  \/ \E a \in Activation : act[a].inst = i /\ act[a].plugin = p

Owned ==
  /\ \A i \in Instance \ {0} : \A p, q \in Plugin : Named(i, p) /\ Named(i, q) => p = q
  /\ \A i \in Instance, p \in Plugin : Named(i, p) => i <= used.inst
  /\ \A f \in Files, p \in Plugin : f[p].enabled => f[p].inst # 0

\* Activations are made one after the other.
Made ==
  \A a \in Activation :
    /\ a <= used.act => act[a].plugin \in Plugin /\ act[a].inst # 0
    /\ a > used.act => act[a] = Unused

\* The workspace queue: each caller in it once, and only its head at work.
AtWork(call) ==
  \/ call.pc \in {"verify", "each", "starting", "refreshing", "health"}
  \/ call.pc = "waiting" /\ call.op = "snapshot"
Queued(call) == call.pc = "queued" \/ AtWork(call)

InTurn ==
  /\ \A i, j \in 1 .. Len(queue) : queue[i] = queue[j] => i = j
  /\ \A i \in 1 .. Len(queue) : Queued(calls[queue[i]])
  /\ \A c \in Caller : Queued(calls[c]) => \E i \in 1 .. Len(queue) : queue[i] = c
  /\ \A c \in Caller : AtWork(calls[c]) => queue[1] = c

\* A snapshot under construction.
Builds(call) == AtWork(call) /\ call.pc # "health"

Building(call) ==
  /\ ~Builds(call) \/ call.pc = "verify" => call.next = {}
  /\ Builds(call) =>
       /\ \A p \in call.todo : call.seen[p].enabled
       /\ \A a \in call.next :
            /\ a <= used.act /\ act[a].reg /\ act[a].health # "starting"
            /\ act[a].plugin \notin call.todo
       /\ \A a, b \in call.next : act[a].plugin = act[b].plugin => a = b
       /\ \A a \in current : act[a].plugin \in call.todo => act[a].reg
       /\ \A a \in Activation : act[a].reg =>
            a \in current \cup call.next \/ (call.pc = "starting" /\ a = call.a)
       /\ call.pc = "verify" => \A a \in current : act[a].reg
       /\ call.pc \in {"starting", "waiting", "refreshing"} =>
            /\ call.p \in call.todo /\ call.a \in Activation /\ call.a <= used.act
            /\ act[call.a].plugin = call.p
       /\ call.pc \in {"waiting", "refreshing"} => call.a \in current
       /\ call.pc = "starting" =>
            act[call.a].reg /\ act[call.a].health = "starting" /\ act[call.a].proc = "starting"

\* A tool is called on an activation that was published once.
Calling(call) ==
  call.op = "tool" /\ call.pc # "health" =>
    call.a \in Activation /\ call.a <= used.act /\ act[call.a].health # "starting"

\* What is published: one activation of a plugin, known to the supervisor unless a snapshot
\* is under construction; and what runs can be called and is known to it.
Published ==
  /\ \A a \in current : a <= used.act /\ act[a].health # "starting"
  /\ \A a, b \in current : act[a].plugin = act[b].plugin => a = b
  /\ (\A c \in Caller : ~Builds(calls[c])) => current = {a \in Activation : act[a].reg}
  /\ \A a \in Activation : act[a].proc = "live" => act[a].client /\ act[a].reg

Supervised == Published /\ \A c \in Caller : Building(calls[c]) /\ Calling(calls[c])

ExtInv ==
  /\ ExtTypeOK /\ \A c \in Caller : Orderly(calls[c])
  /\ Registry /\ Owned /\ Made /\ InTurn /\ Supervised

-----------------------------------------------------------------------------
(* Records and bounds *)

Steps == {"idle", "lock", "install", "uninstall", "register", "unregister", "remove store",
          "unlock", "failed", "enable", "write enabled", "disable", "read disabled",
          "write disabled", "enqueue", "queued", "verify", "each", "starting", "waiting",
          "refreshing", "health", "running", "reporting"}

LEMMA Bounds ==
  /\ Activation \subseteq Nat \ {0} /\ 0 \in Instance /\ Instance \subseteq Nat
  /\ First \subseteq Activation /\ Len(FirstPublished) \in Instance
  /\ Len(FirstPublished) \in Activation \cup {0}
  /\ First = 1 .. Len(FirstPublished)
<1>1. /\ FirstPublished \in Seq(FirstInstalled) /\ MaxRequests \in Nat
      /\ Cardinality(Plugin) \in Nat
  BY ExtensionAssumption, FS_CardinalityType
<1>2. PICK len \in Nat : len = Len(FirstPublished) /\ First = 1 .. len
  BY <1>1 DEF First
<1>3. PICK n \in Nat : n = MaxRequests * Cardinality(Plugin)
  BY <1>1
<1>4. Activation = 1 .. (len + n) /\ Instance = 0 .. (len + MaxRequests)
  BY <1>2, <1>3 DEF Activation, Instance
<1> QED BY <1>1, <1>2, <1>3, <1>4

LEMMA IdleCall == Idle \in Call /\ NoFile \in File
BY Bounds DEF Idle, Call, NoFile, File, Entry, NoEntry, Persisted, Quiet

\* A step to another position.
At(call, pc) == [call EXCEPT !.pc = pc]

Alike(m, call) ==
  /\ m.op = call.op /\ m.p = call.p /\ m.a = call.a /\ m.seen = call.seen /\ m.todo = call.todo
  /\ m.next = call.next /\ m.told = call.told /\ m.reading = call.reading /\ m.read = call.read
  /\ m.listed = call.listed

LEMMA Moved ==
  ASSUME NEW call \in Call, NEW pc \in Steps
  PROVE  At(call, pc) \in Call /\ At(call, pc).pc = pc /\ Alike(At(call, pc), call)
<1>1. PICK m : m = [call EXCEPT !.pc = pc]
  OBVIOUS
<1>2. m \in Call
  BY <1>1 DEF Call, Steps
<1>3. m.pc = pc /\ Alike(m, call)
  BY <1>1 DEF Call, Alike
<1> QED BY <1>1, <1>2, <1>3 DEF At

\* A caller moves and the others stay.
LEMMA OthersStay ==
  ASSUME ExtTypeOK, NEW c \in Caller, NEW m \in Call, Become(c, m)
  PROVE  /\ calls' \in [Caller -> Call] /\ calls'[c] = m
         /\ \A d \in Caller : d # c => calls'[d] = calls[d]
BY DEF ExtTypeOK, Become

-----------------------------------------------------------------------------
(* What a step leaves alone *)

\* Steps outside the registry's lock.
LEMMA RegistryKept ==
  ASSUME ExtTypeOK, Registry, NEW c \in Caller, NEW m \in Call, Become(c, m),
         UNCHANGED <<registry, store, lock, acked>>, used'.faults = used.faults,
         ~Holding(calls[c]), ~Holding(m)
  PROVE  Registry'
<1>1. /\ calls'[c] = m /\ \A d \in Caller : d # c => calls'[d] = calls[d]
  BY OthersStay
<1>2. ASSUME NEW d \in Caller PROVE Locked(d, calls[d])'
  <2>1. CASE d = c
    BY <1>1, <2>1 DEF Registry, Locked, Holding, Inside
  <2>2. CASE d # c
    BY <1>1, <2>2 DEF Registry, Locked, Holding, Inside
  <2> QED BY <2>1, <2>2
<1> QED BY <1>2 DEF Registry, RegistrySound

\* Steps that write no new name: every file of afterwards names each plugin as one of
\* before did.
LEMMA NamesKept ==
  ASSUME Owned, used'.inst = used.inst,
         \A f \in Files' : \A p \in Plugin :
            \E g \in Files : g[p].inst = f[p].inst /\ (f[p].enabled => g[p].enabled),
         \A a \in Activation : Named(act'[a].inst, act'[a].plugin) \/ act'[a].plugin \notin Plugin
  PROVE  Owned'
<1>1. \A i \in Instance, p \in Plugin : Named(i, p)' => Named(i, p)
  BY DEF Named
<1> QED BY <1>1 DEF Owned

\* The files after a step of one caller.
LEMMA FilesAfter ==
  ASSUME ExtTypeOK, NEW c \in Caller, NEW m \in Call, Become(c, m), NEW f \in Files'
  PROVE  \/ f = file' \/ f \in Files \/ f = m.seen \/ \E p \in Plugin : f = m.read[p]
<1>1. /\ calls'[c] = m /\ \A d \in Caller : d # c => calls'[d] = calls[d]
  BY OthersStay
<1> QED BY <1>1 DEF Files

\* A step of one caller that writes no file and leaves the activations their names.
LEMMA NamesStay ==
  ASSUME ExtTypeOK, Owned, NEW c \in Caller, NEW m \in Call, Become(c, m), used'.inst = used.inst,
         file' = file, m.seen \in Files, \A p \in Plugin : m.read[p] \in Files,
         \A a \in Activation : act'[a].inst = act[a].inst /\ act'[a].plugin = act[a].plugin
  PROVE  Owned'
<1>0. file' \in Files
  BY DEF Files
<1>1. \A f \in Files' : f \in Files
  BY <1>0, FilesAfter
<1>2. \A a \in Activation : Named(act'[a].inst, act'[a].plugin)
  BY DEF Named
<1> QED BY <1>1, <1>2, NamesKept

LEMMA OwnFiles ==
  ASSUME NEW c \in Caller
  PROVE  /\ file \in Files /\ NoFile \in Files /\ calls[c].seen \in Files
         /\ \A p \in Plugin : calls[c].read[p] \in Files
         /\ Idle.seen \in Files /\ \A p \in Plugin : Idle.read[p] \in Files
BY DEF Files, Idle

\* A step that does not change the queue, nor who is in it or at work.
LEMMA TurnKept ==
  ASSUME ExtTypeOK, InTurn, NEW c \in Caller, NEW m \in Call, Become(c, m), queue' = queue,
         Queued(m) <=> Queued(calls[c]),
         AtWork(m) => AtWork(calls[c]) \/ Turn(c)
  PROVE  InTurn'
<1>1. /\ calls'[c] = m /\ \A d \in Caller : d # c => calls'[d] = calls[d]
  BY OthersStay
<1>2. \A d \in Caller : Queued(calls'[d]) <=> Queued(calls[d])
  BY <1>1
<1>3. \A i \in 1 .. Len(queue) : queue[i] \in Caller
  BY DEF ExtTypeOK
<1>4. Turn(c) => queue[1] = c
  BY DEF Turn, ExtTypeOK
<1>5. \A d \in Caller : AtWork(calls'[d]) => queue[1] = d
  BY <1>1, <1>4 DEF InTurn
<1> QED BY <1>2, <1>3, <1>5 DEF InTurn, Queued, AtWork

\* At most one caller is at work, and none is when another has its turn.
LEMMA OneAtWork ==
  ASSUME ExtTypeOK, InTurn, NEW c \in Caller, AtWork(calls[c]) \/ Turn(c)
  PROVE  \A d \in Caller : AtWork(calls[d]) => d = c /\ ~Turn(c)
<1>1. Turn(c) => queue[1] = c /\ ~AtWork(calls[c])
  BY DEF Turn, ExtTypeOK, AtWork
<1> QED BY <1>1 DEF InTurn

\* Building and Calling speak of a call and of what is published.
LEMMA BuildingStays ==
  ASSUME NEW call \in Call, UNCHANGED <<act, current>>, used'.act = used.act
  PROVE  (Building(call) => Building(call)') /\ (Calling(call) => Calling(call)')
BY DEF Building, Calling

\* Steps of a caller that builds no snapshot and leaves what is published alone.
LEMMA SupervisedKept ==
  ASSUME ExtTypeOK, Supervised, NEW c \in Caller, NEW m \in Call, Become(c, m),
         UNCHANGED <<act, current>>, used'.act = used.act,
         ~Builds(calls[c]), ~Builds(m), m.next = {}, Calling(m)
  PROVE  Supervised'
<1>1. /\ calls'[c] = m /\ \A d \in Caller : d # c => calls'[d] = calls[d]
  BY OthersStay
<1>2. ASSUME NEW d \in Caller PROVE (Building(calls[d]) /\ Calling(calls[d]))'
  <2>1. CASE d = c
    <3>1. Building(m) /\ Calling(m)
      BY DEF Building
    <3> QED BY <1>1, <2>1, <3>1, BuildingStays DEF Building, Calling
  <2>2. CASE d # c
    <3>1. calls[d] \in Call /\ Building(calls[d]) /\ Calling(calls[d])
      BY DEF Supervised, ExtTypeOK
    <3> QED BY <1>1, <2>2, <3>1 DEF Building, Calling
  <2> QED BY <2>1, <2>2
<1>3. (\A d \in Caller : ~Builds(calls'[d])) => \A d \in Caller : ~Builds(calls[d])
  BY <1>1
<1>4. Published'
  BY <1>3 DEF Published, Supervised, Builds, AtWork
<1> QED BY <1>2, <1>4 DEF Supervised

\* Steps outside the workspace queue that leave the file and what is published alone.
LEMMA RestKept ==
  ASSUME ExtInv, NEW c \in Caller, NEW m \in Call, Become(c, m),
         UNCHANGED <<file, act, current, queue>>, used'.inst = used.inst, used'.act = used.act,
         ~Queued(calls[c]), ~Queued(m), m.next = {}, Calling(m),
         m.seen \in Files, \A p \in Plugin : m.read[p] \in Files
  PROVE  Owned' /\ Made' /\ InTurn' /\ Supervised'
<1>1. ExtTypeOK /\ Owned /\ Made /\ InTurn /\ Supervised
  BY DEF ExtInv
<1>2. /\ ~AtWork(calls[c]) /\ ~AtWork(m) /\ ~Builds(calls[c]) /\ ~Builds(m)
  BY DEF Queued, Builds
<1>3. Owned'
  BY <1>1, NamesStay
<1>4. Made'
  BY <1>1 DEF Made
<1>5. InTurn'
  BY <1>1, <1>2, TurnKept
<1>6. Supervised'
  BY <1>1, <1>2, SupervisedKept
<1> QED BY <1>3, <1>4, <1>5, <1>6

LEMMA OrderKept ==
  ASSUME ExtInv, NEW c \in Caller, NEW m \in Call, Become(c, m), Orderly(m)
  PROVE  calls' \in [Caller -> Call] /\ \A d \in Caller : Orderly(calls[d])'
<1>1. /\ calls' \in [Caller -> Call] /\ calls'[c] = m
      /\ \A d \in Caller : d # c => calls'[d] = calls[d]
  BY OthersStay DEF ExtInv
<1>2. \A d \in Caller : Orderly(calls'[d])
  BY <1>1 DEF ExtInv
<1> QED BY <1>1, <1>2 DEF Orderly

\* A call that has returned.
LEMMA Returned ==
  ASSUME ExtInv
  PROVE  /\ Idle \in Call /\ Idle.pc = "idle" /\ Idle.op = "none" /\ Idle.next = {}
         /\ Orderly(Idle) /\ Calling(Idle) /\ ~Queued(Idle) /\ ~Holding(Idle)
         /\ Idle.seen \in Files /\ \A p \in Plugin : Idle.read[p] \in Files
<1>1. Idle \in Call /\ Idle.pc = "idle" /\ Idle.op = "none" /\ Idle.next = {}
  BY IdleCall DEF Idle
<1>2. Idle.seen \in Files /\ \A p \in Plugin : Idle.read[p] \in Files
  BY DEF Files, Idle
<1> QED BY <1>1, <1>2 DEF Orderly, Calling, Queued, AtWork, Holding, Inside

-----------------------------------------------------------------------------
(* The registry *)

\* The next call of a caller that waits for the lock or has it.
Onward(call, m) ==
  \/ m = Idle
  \/ /\ m.pc \in Inside /\ m.op = call.op /\ m.p = call.p /\ m.next = call.next
     /\ m.seen = call.seen /\ m.read = call.read
     /\ m.pc \in {"install", "register"} => m.op = "install"
     /\ m.pc \in {"uninstall", "unregister", "remove store"} => m.op = "uninstall"

LEMMA OnwardMove ==
  ASSUME NEW call \in Call, NEW pc \in Inside,
         pc \in {"install", "register"} => call.op = "install",
         pc \in {"uninstall", "unregister", "remove store"} => call.op = "uninstall"
  PROVE  /\ At(call, pc) \in Call /\ At(call, pc).pc = pc /\ Alike(At(call, pc), call)
         /\ Onward(call, At(call, pc))
<1>1. pc \in Steps
  BY DEF Steps, Inside
<1> QED BY <1>1, Moved DEF Onward, Alike

LEMMA RegistryMoves ==
  ASSUME ExtInv, NEW c \in Caller, NEW m \in Call, Become(c, m), Onward(calls[c], m),
         calls[c].pc \in Inside \cup {"lock"},
         UNCHANGED <<file, act, current, queue>>, used'.inst = used.inst, used'.act = used.act,
         registry' \subseteq Plugin, store' \in [Plugin -> {"absent", "partial", "whole"}],
         lock' \in Caller \cup {"free", "orphan"}, acked' \subseteq Plugin,
         used' \in [inst : Instance, act : Activation \cup {0}, requests : 0 .. MaxRequests,
                    faults : 0 .. MaxFaults],
         Registry'
  PROVE  ExtInv'
<1>1. /\ calls[c] \in Call /\ Orderly(calls[c]) /\ calls[c].op \in {"install", "uninstall"}
      /\ ~Queued(calls[c]) /\ ~Builds(calls[c]) /\ Building(calls[c])
  BY DEF ExtInv, ExtTypeOK, Supervised, Orderly, Inside, Queued, AtWork, Builds
<1>2. calls[c].next = {}
  BY <1>1 DEF Building
<1>3. Orderly(m) /\ ~Queued(m) /\ Calling(m) /\ m.next = {}
  <2>1. CASE m = Idle
    BY <2>1, Returned
  <2>2. CASE m # Idle
    <3>1. m.pc \in Inside /\ m.op \in {"install", "uninstall"} /\ m.p = calls[c].p
      BY <1>1, <2>2 DEF Onward
    <3> QED BY <1>1, <1>2, <2>2, <3>1 DEF Onward, Orderly, Inside, Queued, AtWork, Calling
  <2> QED BY <2>1, <2>2
<1>4. m.seen \in Files /\ \A p \in Plugin : m.read[p] \in Files
  BY OwnFiles DEF Onward
<1>5. Owned' /\ Made' /\ InTurn' /\ Supervised'
  BY <1>1, <1>3, <1>4, RestKept
<1>6. calls' \in [Caller -> Call] /\ \A d \in Caller : Orderly(calls[d])'
  BY <1>3, OrderKept
<1>7. ExtTypeOK'
  BY <1>6 DEF ExtInv, ExtTypeOK
<1> QED BY <1>5, <1>6, <1>7 DEF ExtInv

\* Only the holder of the lock has a call inside.
LEMMA OneHolds ==
  ASSUME ExtInv, NEW c \in Caller, Holding(calls[c])
  PROVE  lock = c /\ \A d \in Caller : d # c => ~Holding(calls[d])
BY DEF ExtInv, Registry, Locked

\* The registry after a step of one who holds the lock or takes it.
LEMMA RegistryAfter ==
  ASSUME ExtInv, NEW c \in Caller, NEW m \in Call, Become(c, m),
         \A d \in Caller : d # c => ~Holding(calls[d]) /\ lock' # d,
         Locked(c, m)', RegistrySound',
         used'.faults = 0 => \A p \in Plugin : store'[p] # "partial"
  PROVE  Registry'
<1>1. /\ calls'[c] = m /\ \A d \in Caller : d # c => calls'[d] = calls[d]
  BY OthersStay DEF ExtInv
<1>2. ASSUME NEW d \in Caller PROVE Locked(d, calls[d])'
  <2>1. CASE d = c
    BY <1>1, <2>1 DEF Locked
  <2>2. CASE d # c
    BY <1>1, <2>2 DEF Locked, Holding, Inside
  <2> QED BY <2>1, <2>2
<1> QED BY <1>2 DEF Registry

LEMMA RegistrySteps ==
  ASSUME ExtInv, NEW c \in Caller, RegistryStep(c) \/ CrashLocked(c)
  PROVE  ExtInv'
<1> DEFINE call == calls[c]
<1>0. /\ ExtTypeOK /\ Registry /\ RegistrySound /\ Locked(c, call) /\ Orderly(call) /\ call \in Call
      /\ c \notin {"free", "orphan"} /\ used \in [inst : Instance, act : Activation \cup {0},
                 requests : 0 .. MaxRequests, faults : 0 .. MaxFaults]
  BY ExtensionAssumption DEF ExtInv, ExtTypeOK, Registry
<1>a. /\ MaxFaults \in Nat /\ used.faults \in 0 .. MaxFaults /\ used.faults \in Nat
      /\ used.faults = 0 => \A p \in Plugin : store[p] # "partial"
  <2>1. MaxFaults \in Nat
    BY ExtensionAssumption
  <2> QED BY <1>0, <2>1 DEF Registry
<1> HIDE DEF call
<1>1. CASE Acquire(c)
  <2>1. PICK m : m = [call EXCEPT !.pc = call.op, !.listed = registry]
    OBVIOUS
  <2>2. call.pc = "lock" /\ call.op \in {"install", "uninstall"}
    BY <1>0, <1>1 DEF Acquire, Orderly, call
  <2>3. /\ m \in Call /\ m.pc = call.op /\ m.op = call.op /\ m.p = call.p /\ m.next = call.next
        /\ m.seen = call.seen /\ m.read = call.read /\ m.listed = registry
    BY <1>0, <2>1, <2>2 DEF Call, ExtTypeOK
  <2>4. Become(c, m) /\ Onward(calls[c], m) /\ calls[c].pc \in Inside \cup {"lock"}
    BY <1>1, <2>1, <2>2, <2>3 DEF Acquire, Onward, Inside, call
  <2>5. \A d \in Caller : d # c => ~Holding(calls[d]) /\ lock' # d
    BY <1>0, <1>1, ExtensionAssumption DEF Acquire, Registry, Locked
  <2>6. Locked(c, m)'
    BY <1>1, <2>2, <2>3 DEF Acquire, Locked, Holding, Inside
  <2>7. RegistrySound' /\ (used'.faults = 0 => \A p \in Plugin : store'[p] # "partial")
    BY <1>0, <1>a, <1>1 DEF Acquire, RegistrySound
  <2>8. Registry'
    BY <2>3, <2>4, <2>5, <2>6, <2>7, RegistryAfter
  <2> QED BY <1>0, <1>1, <2>3, <2>4, <2>8, RegistryMoves DEF Acquire, ExtTypeOK
<1>2. CASE LockTimeout(c)
  <2>1. Become(c, Idle) /\ call.pc = "lock" /\ UNCHANGED <<registry, store, lock, file, act, current, queue, acked, used>>
    BY <1>2 DEF LockTimeout, Return, call
  <2>2. ~Holding(call) /\ ~Holding(Idle) /\ Idle \in Call
    BY <2>1, Returned DEF Holding, Inside
  <2>3. Registry'
    BY <1>0, <2>1, <2>2, RegistryKept DEF call
  <2> QED BY <1>0, <2>1, <2>2, <2>3, RegistryMoves DEF Onward, ExtTypeOK, call
<1>3. ASSUME Holding(call), NEW m \in Call, Become(c, m), Onward(call, m),
             UNCHANGED <<file, act, current, queue>>,
             used' = used \/ (used.faults < MaxFaults /\ used' = [used EXCEPT !.faults = @ + 1]),
             registry' \subseteq Plugin, store' \in [Plugin -> {"absent", "partial", "whole"}],
             lock' \in {c, "free", "orphan"}, acked' \subseteq Plugin,
             Locked(c, m)', RegistrySound',
             used'.faults = 0 => \A p \in Plugin : store'[p] # "partial"
      PROVE  ExtInv'
  <2>1. \A d \in Caller : d # c => ~Holding(calls[d]) /\ lock' # d
    BY <1>3, OneHolds, ExtensionAssumption DEF call
  <2>2. Registry'
    BY <1>3, <2>1, RegistryAfter
  <2>3. /\ used'.inst = used.inst /\ used'.act = used.act
        /\ used' \in [inst : Instance, act : Activation \cup {0}, requests : 0 .. MaxRequests,
                      faults : 0 .. MaxFaults]
    BY <1>0, <1>a, <1>3
  <2> QED BY <1>3, <2>2, <2>3, RegistryMoves DEF Holding, call
<1>4. CASE CopyDirectory(c)
  <2>1. /\ call.pc = "install" /\ call.op = "install" /\ call.p \in Plugin /\ call.listed = registry
        /\ lock = c /\ UNCHANGED <<registry, lock, file, act, current, queue, acked>>
    BY <1>0, <1>4 DEF CopyDirectory, Orderly, Locked, Holding, Inside, call
  <2>2. PICK pc \in {"unlock", "register", "failed"} :
          /\ Become(c, At(call, pc))
          /\ \/ pc = "unlock" /\ call.p \in registry /\ UNCHANGED <<store, used>>
             \/ /\ pc = "register" /\ UNCHANGED used
                /\ store' = [store EXCEPT ![call.p] = IF @ = "absent" THEN "whole" ELSE @]
             \/ /\ pc = "failed" /\ Fault /\ store' = [store EXCEPT ![call.p] = "partial"]
    BY <1>4, <2>1 DEF CopyDirectory, Goto, At, call
  <2>3. PICK m : m = At(call, pc)
    OBVIOUS
  <2>4. m \in Call /\ m.pc = pc /\ m.op = "install" /\ m.p = call.p /\ m.listed = registry /\ Onward(call, m)
    <3>1. /\ pc \in Inside /\ (pc \in {"install", "register"} => call.op = "install")
          /\ pc \in {"uninstall", "unregister", "remove store"} => call.op = "uninstall"
      BY <2>1, <2>2 DEF Inside
    <3> QED BY <1>0, <2>1, <2>3, <3>1, OnwardMove DEF Alike
  <2>5. /\ store' \in [Plugin -> {"absent", "partial", "whole"}]
        /\ used' = used \/ (used.faults < MaxFaults /\ used' = [used EXCEPT !.faults = @ + 1])
    BY <1>0, <2>1, <2>2 DEF ExtTypeOK, Fault
  <2>6. used' # used => used'.faults # 0
    BY <1>0, <1>a, <2>5
  <2>7. /\ used'.faults = 0 => \A p \in Plugin : store'[p] # "partial"
        /\ pc = "register" /\ used'.faults = 0 => store'[call.p] = "whole"
        /\ \A p \in Plugin : store[p] = "whole" /\ used'.faults = 0 => store'[p] = "whole"
    BY <1>0, <1>a, <2>1, <2>2, <2>6 DEF ExtTypeOK, Fault
  <2>8. RegistrySound'
    BY <1>0, <2>1, <2>6, <2>7 DEF RegistrySound, ExtTypeOK
  <2>9. Locked(c, m)'
    BY <2>1, <2>2, <2>4, <2>7 DEF Locked, Holding, Inside
  <2> QED BY <1>0, <1>3, <2>1, <2>2, <2>3, <2>4, <2>5, <2>7, <2>8, <2>9 DEF Holding, Inside, ExtTypeOK
<1>5. CASE WriteRegistry(c)
  <2>1. /\ call.pc \in {"register", "unregister"} /\ call.p \in Plugin /\ call.listed = registry
        /\ (call.pc = "register" => call.op = "install") /\ (call.pc = "unregister" => call.op = "uninstall")
        /\ lock = c /\ UNCHANGED <<store, lock, file, act, current, queue, used>>
    BY <1>0, <1>5 DEF WriteRegistry, Orderly, Locked, Holding, Inside, call
  <2>2. PICK pc \in {"unlock", "remove store"} :
          /\ Become(c, At(call, pc))
          /\ \/ call.pc = "register" /\ pc = "unlock" /\ registry' = registry \cup {call.p} /\ acked' = acked
             \/ call.pc = "unregister" /\ pc = "remove store" /\ registry' = registry \ {call.p}
                /\ acked' = acked \ {call.p}
    BY <1>5, <2>1 DEF WriteRegistry, Goto, At, call
  <2>3. PICK m : m = At(call, pc)
    OBVIOUS
  <2>4. m \in Call /\ m.pc = pc /\ m.op = call.op /\ m.p = call.p /\ Onward(call, m)
    <3>1. /\ pc \in Inside /\ (pc \in {"install", "register"} => call.op = "install")
          /\ pc \in {"uninstall", "unregister", "remove store"} => call.op = "uninstall"
      BY <2>1, <2>2 DEF Inside
    <3> QED BY <1>0, <2>1, <2>3, <3>1, OnwardMove DEF Alike
  <2>5. registry' \subseteq Plugin /\ acked' \subseteq Plugin
    BY <1>0, <2>1, <2>2 DEF ExtTypeOK
  <2>6. RegistrySound'
    BY <1>0, <2>1, <2>2 DEF RegistrySound, Locked, call
  <2>7. Locked(c, m)'
    BY <2>1, <2>2, <2>4 DEF Locked, Holding, Inside
  <2> QED BY <1>0, <1>a, <1>3, <2>1, <2>2, <2>3, <2>4, <2>5, <2>6, <2>7 DEF Holding, Inside, ExtTypeOK
<1>6. CASE CheckUnused(c)
  <2>1. /\ call.pc = "uninstall" /\ call.op = "uninstall" /\ call.listed = registry
        /\ lock = c /\ UNCHANGED <<registry, store, lock, file, act, current, queue, acked, used>>
    BY <1>0, <1>6 DEF CheckUnused, Orderly, Locked, Holding, Inside, call
  <2>2. PICK pc \in {"unregister", "failed"} : Become(c, At(call, pc))
    BY <1>6 DEF CheckUnused, Goto, At, call
  <2>3. PICK m : m = At(call, pc)
    OBVIOUS
  <2>4. m \in Call /\ m.pc = pc /\ m.op = "uninstall" /\ m.p = call.p /\ m.listed = registry /\ Onward(call, m)
    <3>1. /\ pc \in Inside /\ (pc \in {"install", "register"} => call.op = "install")
          /\ pc \in {"uninstall", "unregister", "remove store"} => call.op = "uninstall"
      BY <2>1, <2>2 DEF Inside
    <3> QED BY <1>0, <2>1, <2>3, <3>1, OnwardMove DEF Alike
  <2>6. RegistrySound'
    BY <1>0, <2>1 DEF RegistrySound
  <2>7. Locked(c, m)'
    BY <2>1, <2>2, <2>4 DEF Locked, Holding, Inside
  <2> QED BY <1>0, <1>a, <1>3, <2>1, <2>2, <2>3, <2>4, <2>6, <2>7 DEF Holding, Inside, ExtTypeOK
<1>7. CASE RemoveStore(c)
  <2>1. /\ call.pc = "remove store" /\ call.op = "uninstall" /\ call.p \notin registry
        /\ lock = c /\ UNCHANGED <<registry, lock, file, act, current, queue, acked, used>>
        /\ store' = [store EXCEPT ![call.p] = "absent"] /\ Become(c, At(call, "unlock"))
    BY <1>0, <1>7 DEF RemoveStore, Orderly, Locked, Holding, Inside, Goto, At, call
  <2>3. PICK m : m = At(call, "unlock")
    OBVIOUS
  <2>4. m \in Call /\ m.pc = "unlock" /\ m.op = "uninstall" /\ m.p = call.p /\ Onward(call, m)
    BY <1>0, <2>1, <2>3, OnwardMove DEF Inside, Alike
  <2>5. /\ store' \in [Plugin -> {"absent", "partial", "whole"}]
        /\ used.faults = 0 => \A p \in Plugin : store'[p] # "partial"
    BY <1>0, <1>a, <2>1 DEF ExtTypeOK
  <2>6. RegistrySound'
    BY <1>0, <2>1 DEF RegistrySound, ExtTypeOK
  <2>7. Locked(c, m)'
    BY <2>1, <2>4 DEF Locked, Holding, Inside
  <2> QED BY <1>0, <1>3, <2>1, <2>3, <2>4, <2>5, <2>6, <2>7 DEF Holding, Inside, ExtTypeOK
<1>8. CASE Unlock(c)
  <2>1. /\ call.pc \in {"unlock", "failed"} /\ Become(c, Idle) /\ lock' = "free"
        /\ acked' = (IF call.op = "install" /\ call.pc = "unlock" THEN acked \cup {call.p} ELSE acked)
        /\ UNCHANGED <<registry, store, file, act, current, queue, used>>
    BY <1>8 DEF Unlock, Return, call
  <2>2. RegistrySound' /\ acked' \subseteq Plugin
    BY <1>0, <2>1 DEF RegistrySound, Locked, ExtTypeOK
  <2>3. Locked(c, Idle)'
    BY <1>0, <2>1, Returned DEF Locked, Holding
  <2> QED BY <1>0, <1>a, <1>3, <2>1, <2>2, <2>3, Returned DEF Holding, Inside, Onward, ExtTypeOK
<1>9. CASE CrashLocked(c)
  <2>1. /\ lock = c /\ Fault /\ lock' = "orphan" /\ Become(c, Idle)
        /\ store' = store \/ store' = [store EXCEPT ![call.p] = "partial"]
        /\ UNCHANGED <<registry, file, act, current, queue, acked>>
    BY <1>9 DEF CrashLocked, Return, call
  <2>2. Holding(call)
    BY <1>0, <2>1 DEF Locked
  <2>3. used.faults < MaxFaults /\ used' = [used EXCEPT !.faults = @ + 1] /\ used'.faults # 0
    BY <1>0, <1>a, <2>1 DEF Fault
  <2>4. store' \in [Plugin -> {"absent", "partial", "whole"}]
    BY <1>0, <2>1 DEF ExtTypeOK
  <2>5. RegistrySound'
    BY <1>0, <2>1, <2>3 DEF RegistrySound
  <2>6. Locked(c, Idle)'
    BY <1>0, <2>1, Returned DEF Locked, Holding
  <2> QED BY <1>0, <1>3, <2>1, <2>2, <2>3, <2>4, <2>5, <2>6, Returned DEF Onward, ExtTypeOK
<1> QED BY <1>1, <1>2, <1>4, <1>5, <1>6, <1>7, <1>8, <1>9 DEF RegistryStep

-----------------------------------------------------------------------------
(* Requests, and the enablement file *)

Counters == [inst : Instance, act : Activation \cup {0}, requests : 0 .. MaxRequests,
             faults : 0 .. MaxFaults]

LEMMA FileTypes ==
  ASSUME ExtInv
  PROVE  /\ Files \subseteq File /\ used \in Counters
         /\ \A f \in File, p \in Plugin : f[p] \in Entry /\ f[p].inst \in Instance
<1>1. ASSUME NEW c \in Caller
      PROVE  calls[c].seen \in File /\ \A p \in Plugin : calls[c].read[p] \in File
  <2>1. calls[c] \in Call
    BY DEF ExtInv, ExtTypeOK
  <2> QED BY <2>1 DEF Call
<1>2. Files \subseteq File
  BY <1>1, IdleCall DEF Files, ExtInv, ExtTypeOK
<1> QED BY <1>2 DEF ExtInv, ExtTypeOK, Counters, File, Entry

\* Steps that leave the registry and what is published alone.
LEMMA Aside ==
  ASSUME ExtInv, NEW c \in Caller, NEW m \in Call, Become(c, m), Orderly(m),
         UNCHANGED <<registry, store, lock, acked, act, current>>,
         used' \in Counters, used'.act = used.act, used'.faults = used.faults,
         ~Holding(calls[c]), ~Holding(m), ~Builds(calls[c]), ~Builds(m), m.next = {}, Calling(m),
         file' \in File, queue' \in Seq(Caller), Owned', InTurn'
  PROVE  ExtInv'
<1>1. ExtTypeOK /\ Registry /\ Made /\ Supervised
  BY DEF ExtInv
<1>2. Registry'
  BY <1>1, RegistryKept
<1>3. Supervised'
  BY <1>1, SupervisedKept
<1>4. Made'
  BY <1>1 DEF Made
<1>5. calls' \in [Caller -> Call] /\ \A d \in Caller : Orderly(calls[d])'
  BY OrderKept
<1>6. ExtTypeOK'
  BY <1>1, <1>5 DEF ExtTypeOK, Counters
<1> QED BY <1>2, <1>3, <1>4, <1>5, <1>6 DEF ExtInv

\* Among them those outside the queue that write no file.
LEMMA AsideQuiet ==
  ASSUME ExtInv, NEW c \in Caller, NEW m \in Call, Become(c, m), Orderly(m),
         UNCHANGED <<registry, store, lock, file, acked, act, current, queue>>,
         used' \in Counters, used'.inst = used.inst, used'.act = used.act, used'.faults = used.faults,
         ~Holding(calls[c]), ~Holding(m), ~Queued(calls[c]), ~Queued(m), m.next = {}, Calling(m),
         m.seen \in Files, \A p \in Plugin : m.read[p] \in Files
  PROVE  ExtInv'
<1>1. ~Builds(calls[c]) /\ ~Builds(m)
  BY DEF Builds, Queued
<1>2. Owned' /\ InTurn'
  BY RestKept
<1>3. file' \in File /\ queue' \in Seq(Caller)
  BY DEF ExtInv, ExtTypeOK
<1> QED BY <1>1, <1>2, <1>3, Aside

LEMMA ReturnStep ==
  ASSUME ExtInv, NEW c \in Caller, Return(c), ~Holding(calls[c]), ~Queued(calls[c]),
         UNCHANGED <<registry, store, lock, file, acked, act, current, queue, used>>
  PROVE  ExtInv'
<1>1. /\ Idle \in Call /\ Idle.next = {} /\ Orderly(Idle) /\ Calling(Idle) /\ ~Queued(Idle)
      /\ ~Holding(Idle) /\ Idle.seen \in Files /\ (\A p \in Plugin : Idle.read[p] \in Files)
      /\ Become(c, Idle) /\ used' \in Counters
  BY Returned, FileTypes DEF Return
<1> QED BY <1>1, AsideQuiet

\* A caller outside the queue goes to another position outside it.
LEMMA GotoStep ==
  ASSUME ExtInv, NEW c \in Caller, NEW pc \in Steps, Goto(c, pc),
         ~Holding(calls[c]), ~Queued(calls[c]), ~Holding(At(calls[c], pc)), ~Queued(At(calls[c], pc)),
         Orderly(At(calls[c], pc)), calls[c].op = "tool" => pc # "health" /\ calls[c].pc # "health",
         UNCHANGED <<registry, store, lock, file, acked, act, current, queue, used>>
  PROVE  ExtInv'
<1>1. PICK m : m = At(calls[c], pc)
  OBVIOUS
<1>2. calls[c] \in Call /\ Building(calls[c]) /\ Calling(calls[c]) /\ ~Builds(calls[c])
  BY DEF ExtInv, ExtTypeOK, Supervised, Builds, Queued
<1>3. m \in Call /\ m.pc = pc /\ Alike(m, calls[c]) /\ Become(c, m)
  BY <1>1, <1>2, Moved DEF Goto, At
<1>4. m.next = {} /\ Calling(m)
  BY <1>2, <1>3 DEF Building, Calling, Alike
<1>5. m.seen \in Files /\ \A p \in Plugin : m.read[p] \in Files
  BY <1>3, OwnFiles DEF Alike
<1>6. used' \in Counters
  BY FileTypes
<1> QED BY <1>1, <1>3, <1>4, <1>5, <1>6, AsideQuiet

\* A file is written with the names of another.
LEMMA NamesWritten ==
  ASSUME ExtTypeOK, Owned, NEW c \in Caller, NEW m \in Call, Become(c, m), used'.inst = used.inst,
         act' = act, NEW g \in Files,
         \A q \in Plugin : file'[q].inst = g[q].inst /\ (file'[q].enabled => g[q].enabled),
         m.seen \in Files, \A p \in Plugin : m.read[p] \in Files
  PROVE  Owned'
<1>1. \A f \in Files' : \A p \in Plugin :
        \E h \in Files : h[p].inst = f[p].inst /\ (f[p].enabled => h[p].enabled)
  BY FilesAfter
<1>2. \A a \in Activation : Named(act'[a].inst, act'[a].plugin)
  BY DEF Named
<1> QED BY <1>1, <1>2, NamesKept

\* A step that may write the file, with names it has seen, and changes nobody's turn.
LEMMA WriteStep ==
  ASSUME ExtInv, NEW c \in Caller, NEW m \in Call, Become(c, m), Orderly(m),
         UNCHANGED <<registry, store, lock, acked, act, current, queue, used>>,
         ~Holding(calls[c]), ~Holding(m), ~Builds(calls[c]), ~Builds(m), m.next = {}, Calling(m),
         Queued(m) <=> Queued(calls[c]), AtWork(m) => AtWork(calls[c]),
         file' \in File, NEW g \in Files,
         \A q \in Plugin : file'[q].inst = g[q].inst /\ (file'[q].enabled => g[q].enabled),
         m.seen \in Files, \A p \in Plugin : m.read[p] \in Files
  PROVE  ExtInv'
<1>1. ExtTypeOK /\ Owned /\ InTurn /\ queue' \in Seq(Caller)
  BY DEF ExtInv, ExtTypeOK
<1>2. Owned'
  BY <1>1, NamesWritten
<1>3. InTurn'
  BY <1>1, TurnKept
<1>4. used' \in Counters
  BY FileTypes
<1> QED BY <1>1, <1>2, <1>3, <1>4, Aside

\* The instance of a new entry is nobody's yet.
LEMMA NewName ==
  ASSUME ExtInv, NEW c \in Caller, NEW m \in Call, Become(c, m), act' = act,
         used.inst + 1 \in Instance, used'.inst = used.inst + 1, NEW p \in Plugin,
         file'[p].inst = used.inst + 1, NEW g \in Files,
         \A q \in Plugin : q # p => file'[q] = g[q],
         m.seen \in Files, \A q \in Plugin : m.read[q] \in Files
  PROVE  Owned'
<1>0. ExtTypeOK /\ Owned /\ used.inst \in Nat /\ Instance \subseteq Nat
  BY FileTypes, Bounds DEF ExtInv, Counters
<1>1. \A f \in Files' : f = file' \/ f \in Files
  BY <1>0, FilesAfter
<1>2. \A i \in Instance, q \in Plugin : Named(i, q)' => Named(i, q) \/ (i = used.inst + 1 /\ q = p)
  BY <1>1 DEF Named
<1>3. \A i \in Instance, q \in Plugin : Named(i, q) => i <= used.inst
  BY <1>0 DEF Owned
<1>4. \A i \in Instance, q \in Plugin : Named(i, q)' => i <= used'.inst
  BY <1>0, <1>2, <1>3
<1>5. \A i \in Instance \ {0} : \A q, r \in Plugin : Named(i, q)' /\ Named(i, r)' => q = r
  <2> SUFFICES ASSUME NEW i \in Instance \ {0}, NEW q \in Plugin, NEW r \in Plugin, Named(i, q)', Named(i, r)'
               PROVE  q = r
    OBVIOUS
  <2>1. CASE i = used.inst + 1
    BY <1>0, <1>2, <1>3, <2>1
  <2>2. CASE i # used.inst + 1
    BY <1>0, <1>2, <2>2 DEF Owned
  <2> QED BY <2>1, <2>2
<1>6. \A f \in Files', q \in Plugin : f[q].enabled => f[q].inst # 0
  BY <1>0, <1>1 DEF Owned
<1> QED BY <1>4, <1>5, <1>6 DEF Owned

LEMMA FileSteps ==
  ASSUME ExtInv, NEW c \in Caller, FileStep(c)
  PROVE  ExtInv'
<1> DEFINE call == calls[c]
<1>0. /\ ExtTypeOK /\ Orderly(call) /\ call \in Call /\ Building(call) /\ Calling(call)
      /\ file \in File /\ InTurn /\ queue \in Seq(Caller)
  BY DEF ExtInv, ExtTypeOK, Supervised
<1>a. /\ file \in Files /\ NoFile \in Files /\ call.seen \in Files /\ call.seen \in File
      /\ \A p \in Plugin : call.read[p] \in Files /\ call.read[p] \in File
  BY OwnFiles, FileTypes
<1>b. \A f \in File : \A p \in Plugin : f[p] \in Entry
  BY FileTypes
<1> HIDE DEF call
<1>1. CASE ReadToEnable(c)
  <2>1. /\ call.pc = "enable" /\ call.op = "enable" /\ call.p \in Plugin
        /\ UNCHANGED <<registry, store, lock, file, act, current, queue, acked, used>>
    BY <1>0, <1>1 DEF ReadToEnable, Orderly, call
  <2>2. ~Holding(call) /\ ~Queued(call) /\ ~Builds(call) /\ call.next = {}
    BY <1>0, <2>1 DEF Holding, Inside, Queued, AtWork, Builds, Building
  <2>3. CASE Return(c)
    BY <2>1, <2>2, <2>3, ReturnStep DEF call
  <2>4. CASE Become(c, [call EXCEPT !.seen = file, !.pc = "write enabled"])
    <3>1. PICK m : m = [call EXCEPT !.seen = file, !.pc = "write enabled"]
      OBVIOUS
    <3>2. m \in Call
      BY <1>0, <3>1 DEF Call
    <3>3. /\ m.pc = "write enabled" /\ m.op = "enable" /\ m.p = call.p /\ m.next = {}
          /\ m.seen = file /\ m.read = call.read
      BY <1>0, <2>1, <2>2, <3>1 DEF Call
    <3>4. Orderly(m) /\ ~Holding(m) /\ ~Queued(m) /\ Calling(m)
      BY <2>1, <3>3 DEF Orderly, Holding, Inside, Queued, AtWork, Calling
    <3>5. used' \in Counters /\ Become(c, m)
      BY <2>1, <2>4, <3>1, FileTypes
    <3> QED BY <1>a, <2>1, <2>2, <3>2, <3>3, <3>4, <3>5, AsideQuiet DEF call
  <2> QED BY <1>1, <2>3, <2>4 DEF ReadToEnable, call
<1>2. CASE WriteEnabled(c)
  <2>1. /\ call.pc = "write enabled" /\ call.op = "enable" /\ call.p \in Plugin
        /\ used.inst + 1 \in Instance /\ used' = [used EXCEPT !.inst = @ + 1]
        /\ file' = [call.seen EXCEPT ![call.p] =
                      [inst |-> used.inst + 1, enabled |-> TRUE, health |-> "stopped"]]
        /\ Become(c, [Idle EXCEPT !.op = "snapshot", !.pc = "enqueue"])
        /\ UNCHANGED <<registry, store, lock, act, current, queue, acked>>
    BY <1>0, <1>2 DEF WriteEnabled, Orderly, call
  <2>2. ~Holding(call) /\ ~Queued(call) /\ ~Builds(call)
    BY <2>1 DEF Holding, Inside, Queued, AtWork, Builds
  <2>3. PICK m : m = [Idle EXCEPT !.op = "snapshot", !.pc = "enqueue"]
    OBVIOUS
  <2>4. m \in Call
    BY <2>3, IdleCall DEF Call
  <2>5. /\ m.pc = "enqueue" /\ m.op = "snapshot" /\ m.next = {} /\ m.seen = Idle.seen /\ m.read = Idle.read
    BY <2>3 DEF Idle
  <2>6. Orderly(m) /\ ~Holding(m) /\ ~Queued(m) /\ ~Builds(m) /\ ~AtWork(m) /\ Calling(m)
    BY <2>5 DEF Orderly, Holding, Inside, Queued, AtWork, Builds, Calling
  <2>7. /\ used' \in Counters /\ used'.inst = used.inst + 1 /\ used'.act = used.act
        /\ used'.faults = used.faults
    <3>1. used \in Counters
      BY FileTypes
    <3> QED BY <2>1, <3>1 DEF Counters
  <2>8. /\ file' \in File /\ file'[call.p].inst = used.inst + 1
        /\ \A q \in Plugin : q # call.p => file'[q] = call.seen[q]
    BY <1>a, <2>1 DEF File, Entry, Persisted
  <2>9. m.seen \in Files /\ \A q \in Plugin : m.read[q] \in Files
    BY <2>5, OwnFiles
  <2>10. Owned'
    BY <1>a, <2>1, <2>3, <2>4, <2>7, <2>8, <2>9, NewName
  <2>11. InTurn'
    BY <1>0, <2>1, <2>2, <2>3, <2>4, <2>6, TurnKept DEF call
  <2> QED BY <1>0, <2>1, <2>2, <2>3, <2>4, <2>5, <2>6, <2>7, <2>8, <2>10, <2>11, Aside DEF call
<1>3. CASE LookToDisable(c)
  <2>1. PICK pc \in {"enqueue", "read disabled"} : Goto(c, pc)
    BY <1>3 DEF LookToDisable
  <2>2. /\ call.pc = "disable" /\ call.op = "disable" /\ call.p \in Plugin
        /\ UNCHANGED <<registry, store, lock, file, act, current, queue, acked, used>>
    BY <1>0, <1>3 DEF LookToDisable, Orderly, call
  <2>a. pc \in Steps
    BY <2>1 DEF Steps
  <2>3. At(call, pc).pc = pc /\ Alike(At(call, pc), call)
    BY <1>0, <2>a, Moved
  <2>4. ~Holding(call) /\ ~Queued(call)
    BY <2>2 DEF Holding, Inside, Queued, AtWork
  <2>5. ~Holding(At(call, pc)) /\ ~Queued(At(call, pc)) /\ Orderly(At(call, pc))
    BY <2>1, <2>2, <2>3 DEF Holding, Inside, Queued, AtWork, Orderly, Alike
  <2> QED BY <2>1, <2>a, <2>2, <2>3, <2>4, <2>5, GotoStep DEF call
<1>4. CASE Disable(c)
  <2>1. /\ call.pc \in {"read disabled", "write disabled"} /\ call.op = "disable" /\ call.p \in Plugin
        /\ UNCHANGED <<registry, store, lock, act, current, queue, acked, used>>
    BY <1>0, <1>4 DEF Disable, Orderly, call
  <2>2. ~Holding(call) /\ ~Queued(call) /\ ~Builds(call) /\ call.next = {}
    BY <1>0, <2>1 DEF Holding, Inside, Queued, AtWork, Builds, Building
  <2>3. CASE Become(c, [call EXCEPT !.seen = file, !.pc = "write disabled"]) /\ UNCHANGED file
    <3>1. PICK m : m = [call EXCEPT !.seen = file, !.pc = "write disabled"]
      OBVIOUS
    <3>2. m \in Call
      BY <1>0, <3>1 DEF Call
    <3>3. /\ m.pc = "write disabled" /\ m.op = "disable" /\ m.p = call.p /\ m.next = {}
          /\ m.seen = file /\ m.read = call.read
      BY <1>0, <2>1, <2>2, <3>1 DEF Call
    <3>4. Orderly(m) /\ ~Holding(m) /\ ~Queued(m) /\ Calling(m)
      BY <2>1, <3>3 DEF Orderly, Holding, Inside, Queued, AtWork, Calling
    <3>5. used' \in Counters /\ Become(c, m)
      BY <2>1, <2>3, <3>1, FileTypes
    <3> QED BY <1>a, <2>1, <2>2, <2>3, <3>2, <3>3, <3>4, <3>5, AsideQuiet DEF call
  <2>4. CASE /\ file' = [call.seen EXCEPT ![call.p] = [@ EXCEPT !.enabled = FALSE, !.health = "stopped"]]
             /\ Return(c)
    <3>1. /\ Idle \in Call /\ Idle.next = {} /\ Orderly(Idle) /\ Calling(Idle) /\ ~Queued(Idle)
          /\ ~Holding(Idle) /\ Idle.seen \in Files /\ (\A p \in Plugin : Idle.read[p] \in Files)
          /\ Become(c, Idle)
      BY <2>4, Returned DEF Return
    <3>2. ~Builds(Idle) /\ ~AtWork(Idle)
      BY <3>1 DEF Builds, Queued
    <3>3. PICK e : e = [call.seen[call.p] EXCEPT !.enabled = FALSE, !.health = "stopped"]
      OBVIOUS
    <3>4. call.seen[call.p] \in Entry
      BY <1>a, <1>b, <2>1
    <3>5. e \in Entry /\ e.inst = call.seen[call.p].inst /\ ~e.enabled
      BY <3>3, <3>4 DEF Entry, Persisted
    <3>6. file' = [call.seen EXCEPT ![call.p] = e]
      BY <2>4, <3>3
    <3>7. /\ file' \in File
          /\ \A q \in Plugin : file'[q].inst = call.seen[q].inst /\ (file'[q].enabled => call.seen[q].enabled)
      BY <1>a, <2>1, <3>5, <3>6 DEF File
    <3> QED BY <1>a, <2>1, <2>2, <3>1, <3>2, <3>7, WriteStep DEF call
  <2> QED BY <1>4, <2>3, <2>4 DEF Disable, call
<1>5. CASE SetHealth(c)
  <2>1. /\ call.pc = "health" /\ call.op \in {"disable", "snapshot", "tool"}
        /\ UNCHANGED <<registry, store, lock, act, current, queue, acked, used>>
    BY <1>0, <1>5 DEF SetHealth, Orderly, call
  <2>2. ~Holding(call) /\ Queued(call) /\ AtWork(call) /\ ~Builds(call) /\ call.next = {}
    BY <1>0, <2>1 DEF Holding, Inside, Queued, AtWork, Builds, Building
  <2>3. PICK p \in {q \in Plugin : call.told[q] # "none"} :
         \/ /\ p \notin call.reading
            /\ Become(c, [call EXCEPT !.reading = @ \cup {p}, !.read = [@ EXCEPT ![p] = file]])
            /\ UNCHANGED file
         \/ /\ p \in call.reading
            /\ file' = [call.read[p] EXCEPT ![p] = [@ EXCEPT !.health = call.told[p]]]
            /\ Become(c, [call EXCEPT !.told = [@ EXCEPT ![p] = "none"], !.reading = @ \ {p},
                                      !.read = [@ EXCEPT ![p] = NoFile]])
    BY <1>5 DEF SetHealth, call
  <2>4. /\ p \in Plugin /\ call.told[p] \in Persisted /\ call.read \in [Plugin -> File]
        /\ call.reading \subseteq Plugin /\ call.told \in [Plugin -> Persisted \cup {"none"}]
    BY <1>0, <2>3 DEF Call
  <2>5. ASSUME NEW m \in Call, m.pc = "health", m.op = call.op, m.p = call.p, m.next = {}
        PROVE  Orderly(m) /\ ~Holding(m) /\ Queued(m) /\ AtWork(m) /\ ~Builds(m) /\ Calling(m)
    BY <1>0, <2>1, <2>5 DEF Orderly, Holding, Inside, Queued, AtWork, Builds, Calling
  <2>6. CASE /\ Become(c, [call EXCEPT !.reading = @ \cup {p}, !.read = [@ EXCEPT ![p] = file]])
             /\ UNCHANGED file
    <3>1. PICK m : m = [call EXCEPT !.reading = @ \cup {p}, !.read = [@ EXCEPT ![p] = file]]
      OBVIOUS
    <3>2. m \in Call
      BY <1>0, <2>4, <3>1 DEF Call
    <3>3. /\ m.pc = "health" /\ m.op = call.op /\ m.p = call.p /\ m.next = {}
          /\ m.seen = call.seen /\ m.read = [call.read EXCEPT ![p] = file]
      BY <1>0, <2>1, <2>2, <3>1 DEF Call
    <3>4. m.seen \in Files /\ \A q \in Plugin : m.read[q] \in Files
      BY <1>a, <2>4, <3>3
    <3>5. Become(c, m) /\ file' \in File /\ file' = file
      BY <1>0, <2>6, <3>1
    <3> QED BY <1>a, <2>1, <2>2, <2>5, <3>2, <3>3, <3>4, <3>5, WriteStep DEF call
  <2>7. CASE /\ file' = [call.read[p] EXCEPT ![p] = [@ EXCEPT !.health = call.told[p]]]
             /\ Become(c, [call EXCEPT !.told = [@ EXCEPT ![p] = "none"], !.reading = @ \ {p},
                                      !.read = [@ EXCEPT ![p] = NoFile]])
    <3>1. PICK m : m = [call EXCEPT !.told = [@ EXCEPT ![p] = "none"], !.reading = @ \ {p},
                                      !.read = [@ EXCEPT ![p] = NoFile]]
      OBVIOUS
    <3>2. m \in Call
      BY <1>0, <2>4, <3>1, IdleCall DEF Call
    <3>3. /\ m.pc = "health" /\ m.op = call.op /\ m.p = call.p /\ m.next = {}
          /\ m.seen = call.seen /\ m.read = [call.read EXCEPT ![p] = NoFile]
      BY <1>0, <2>1, <2>2, <3>1 DEF Call
    <3>4. m.seen \in Files /\ \A q \in Plugin : m.read[q] \in Files
      BY <1>a, <2>4, <3>3
    <3>5. PICK g : g = call.read[p]
      OBVIOUS
    <3>6. g \in Files /\ g \in File /\ g[p] \in Entry
      BY <1>a, <1>b, <2>4, <3>5
    <3>7. PICK e : e = [g[p] EXCEPT !.health = call.told[p]]
      OBVIOUS
    <3>8. e \in Entry /\ e.inst = g[p].inst /\ e.enabled = g[p].enabled
      BY <2>4, <3>6, <3>7 DEF Entry
    <3>9. file' = [g EXCEPT ![p] = e] /\ Become(c, m)
      BY <2>7, <3>1, <3>5, <3>7
    <3>10. /\ file' \in File
           /\ \A q \in Plugin : file'[q].inst = g[q].inst /\ (file'[q].enabled => g[q].enabled)
      BY <2>4, <3>6, <3>8, <3>9 DEF File
    <3> QED BY <2>1, <2>2, <2>5, <3>2, <3>3, <3>4, <3>6, <3>9, <3>10, WriteStep DEF call
  <2> QED BY <2>3, <2>6, <2>7
<1> QED BY <1>1, <1>2, <1>3, <1>4, <1>5 DEF FileStep

-----------------------------------------------------------------------------
(* Requests and calls of a tool *)

LEMMA RequestSteps ==
  ASSUME ExtInv, NEW c \in Caller, Request(c) \/ CallTool(c)
  PROVE  ExtInv'
<1> DEFINE call == calls[c]
<1>0. /\ call \in Call /\ call.pc = "idle" /\ call = Idle /\ current \subseteq Activation
      /\ UNCHANGED <<registry, store, lock, file, act, current, queue, acked>>
      /\ used.requests < MaxRequests /\ used' = [used EXCEPT !.requests = @ + 1]
  BY DEF ExtInv, ExtTypeOK, Orderly, Request, CallTool
<1>1. /\ used' \in Counters /\ used'.inst = used.inst /\ used'.act = used.act
      /\ used'.faults = used.faults
  <2>1. used \in Counters /\ MaxRequests \in Nat
    BY FileTypes, ExtensionAssumption
  <2> QED BY <1>0, <2>1 DEF Counters
<1>2. /\ ~Holding(call) /\ ~Queued(call) /\ Idle.next = {}
      /\ Idle.seen \in Files /\ \A p \in Plugin : Idle.read[p] \in Files
  BY <1>0, Returned
<1> HIDE DEF call
<1>3. ASSUME NEW m \in Call, Become(c, m), m.next = {}, m.seen = Idle.seen, m.read = Idle.read,
             Orderly(m), m.pc \in {"enqueue", "enable", "disable", "lock", "waiting", "reporting"},
             m.pc = "waiting" => m.op = "tool", Calling(m)
      PROVE  ExtInv'
  <2>1. ~Holding(m) /\ ~Queued(m) /\ m.seen \in Files /\ \A p \in Plugin : m.read[p] \in Files
    BY <1>2, <1>3 DEF Holding, Inside, Queued, AtWork
  <2> QED BY <1>0, <1>1, <1>2, <1>3, <2>1, AsideQuiet DEF call
<1>4. ASSUME NEW p \in Plugin, NEW op \in {"enable", "disable", "install", "uninstall"},
             NEW pc \in {"enable", "disable", "lock"},
             pc = "enable" => op = "enable", pc = "disable" => op = "disable",
             pc = "lock" => op \in {"install", "uninstall"},
             Become(c, [call EXCEPT !.op = op, !.p = p, !.pc = pc])
      PROVE  ExtInv'
  <2>1. PICK m : m = [call EXCEPT !.op = op, !.p = p, !.pc = pc]
    OBVIOUS
  <2>2. m \in Call
    <3>1. /\ call \in Call /\ p \in Plugin /\ op \in {"enable", "disable", "install", "uninstall"}
          /\ pc \in {"enable", "disable", "lock"}
      BY <1>0
    <3> QED BY ONLY <2>1, <3>1 DEF Call
  <2>3. /\ m.op = op /\ m.p = p /\ m.pc = pc /\ m.next = call.next /\ m.seen = call.seen
        /\ m.read = call.read
    BY <1>0, <2>1 DEF Call
  <2>4. Orderly(m) /\ Calling(m)
    BY <1>4, <2>3 DEF Orderly, Inside, Calling
  <2> QED BY <1>0, <1>2, <1>3, <1>4, <2>1, <2>2, <2>3, <2>4
<1>5. CASE Request(c)
  <2>1. CASE Become(c, [call EXCEPT !.op = "snapshot", !.pc = "enqueue"])
    <3>1. PICK m : m = [call EXCEPT !.op = "snapshot", !.pc = "enqueue"]
      OBVIOUS
    <3>2. m \in Call
      BY <1>0, <3>1 DEF Call
    <3>3. /\ m.op = "snapshot" /\ m.pc = "enqueue" /\ m.next = call.next /\ m.seen = call.seen
          /\ m.read = call.read
      BY <1>0, <3>1 DEF Call
    <3>4. Orderly(m) /\ Calling(m)
      BY <3>3 DEF Orderly, Inside, Calling
    <3> QED BY <1>0, <1>2, <1>3, <2>1, <3>1, <3>2, <3>3, <3>4
  <2>2. CASE ~Become(c, [call EXCEPT !.op = "snapshot", !.pc = "enqueue"])
    <3>1. PICK p \in Plugin :
            \/ Become(c, [call EXCEPT !.op = "enable", !.p = p, !.pc = "enable"])
            \/ Become(c, [call EXCEPT !.op = "disable", !.p = p, !.pc = "disable"])
            \/ \E op \in {"install", "uninstall"} :
                 Become(c, [call EXCEPT !.op = op, !.p = p, !.pc = "lock"])
      BY <1>5, <2>2 DEF Request, call
    <3> QED BY <1>4, <3>1
  <2> QED BY <2>1, <2>2
<1>6. CASE CallTool(c)
  <2>1. PICK a \in current, pc \in {"waiting", "reporting"} :
          Become(c, [call EXCEPT !.op = "tool", !.a = a, !.pc = pc])
    BY <1>6 DEF CallTool, call
  <2>2. a \in Activation /\ a <= used.act /\ act[a].health # "starting"
    BY <1>0, <2>1 DEF ExtInv, Supervised, Published
  <2>3. PICK m : m = [call EXCEPT !.op = "tool", !.a = a, !.pc = pc]
    OBVIOUS
  <2>4. m \in Call
    <3>1. call \in Call /\ a \in Activation /\ pc \in {"waiting", "reporting"}
      BY <1>0, <2>1, <2>2
    <3> QED BY ONLY <2>3, <3>1 DEF Call
  <2>5. /\ m.op = "tool" /\ m.pc = pc /\ m.a = a /\ m.next = call.next /\ m.seen = call.seen
        /\ m.read = call.read
    BY <1>0, <2>3 DEF Call
  <2>6. Orderly(m) /\ Calling(m)
    BY <2>1, <2>2, <2>5 DEF Orderly, Inside, Calling
  <2> QED BY <1>0, <1>2, <1>3, <2>1, <2>3, <2>4, <2>5, <2>6
<1> QED BY <1>5, <1>6

\* What becomes of an activation that is stopped, quarantined or removed.
LEMMA RowsStopped ==
  ASSUME NEW r \in Row
  PROVE  /\ StopProcess(r) \in Row /\ Quarantined(r) \in Row /\ Removed(r) \in Row
         /\ \A q \in {StopProcess(r), Quarantined(r), Removed(r)} :
              q.plugin = r.plugin /\ q.inst = r.inst /\ q.proc # "live" /\ ~q.client
         /\ StopProcess(r).reg = r.reg /\ Quarantined(r).reg = r.reg /\ ~Removed(r).reg
         /\ Quarantined(r).health = "quarantined" /\ Removed(r).health = "stopped"
<1>1. PICK s : s = StopProcess(r)
  OBVIOUS
<1>2. s \in Row
  BY <1>1 DEF StopProcess, Row
<1>3. s.plugin = r.plugin /\ s.inst = r.inst /\ s.proc # "live" /\ ~s.client /\ s.reg = r.reg
  BY <1>1 DEF StopProcess, Row
<1>4. PICK q : q = [s EXCEPT !.health = "quarantined"]
  OBVIOUS
<1>5. q \in Row
  BY <1>2, <1>4 DEF Row, Persisted
<1>6. /\ q.plugin = s.plugin /\ q.inst = s.inst /\ q.proc = s.proc /\ q.client = s.client
      /\ q.reg = s.reg /\ q.health = "quarantined"
  BY <1>2, <1>4 DEF Row
<1>7. PICK e : e = [s EXCEPT !.reg = FALSE, !.health = "stopped"]
  OBVIOUS
<1>8. e \in Row
  BY <1>2, <1>7 DEF Row, Persisted
<1>9. /\ e.plugin = s.plugin /\ e.inst = s.inst /\ e.proc = s.proc /\ e.client = s.client
      /\ ~e.reg /\ e.health = "stopped"
  BY <1>2, <1>7 DEF Row
<1>10. q = Quarantined(r) /\ e = Removed(r)
  BY <1>1, <1>4, <1>7 DEF Quarantined, Removed
<1> QED BY <1>1, <1>2, <1>3, <1>5, <1>6, <1>8, <1>9, <1>10

\* Processes end, or are stopped, and nothing else becomes of an activation that is not
\* being started.
Fades ==
  /\ act' \in [Activation -> Row]
  /\ \A b \in Activation :
       /\ act'[b].plugin = act[b].plugin /\ act'[b].inst = act[b].inst /\ act'[b].reg = act[b].reg
       /\ act[b].health # "starting" => act'[b].health # "starting"
       /\ act[b].health = "starting" /\ act[b].proc = "starting" => act'[b] = act[b]
       /\ b > used.act => act'[b] = act[b]
       /\ act'[b] = act[b] \/ act'[b].proc # "live"

LEMMA FadesQuietly ==
  ASSUME ExtInv, Fades, UNCHANGED <<current>>, used'.act = used.act,
         \A d \in Caller : calls'[d] \in Call /\ Building(calls'[d]) /\ Calling(calls'[d]),
         (\A d \in Caller : ~Builds(calls'[d])) => \A d \in Caller : ~Builds(calls[d])
  PROVE  Supervised' /\ Made'
<1>1. Published /\ Made /\ current \subseteq Activation
  BY DEF ExtInv, ExtTypeOK, Supervised
<1>2. Made'
  BY <1>1 DEF Made, Fades
<1>3. Published'
  BY <1>1 DEF Published, Fades, Builds, AtWork
<1>4. ASSUME NEW call \in Call PROVE (Building(call) => Building(call)') /\ (Calling(call) => Calling(call)')
  <2>1. call.next \subseteq Activation /\ call.a \in Activation \cup {0}
    BY DEF Call
  <2>2. Calling(call) => Calling(call)'
    BY DEF Calling, Fades
  <2>3. Building(call) => Building(call)'
    BY <1>1, <2>1 DEF Building, Fades
  <2> QED BY <2>2, <2>3
<1>5. \A d \in Caller : (Building(calls[d]) /\ Calling(calls[d]))'
  BY <1>4 DEF Building, Calling
<1> QED BY <1>2, <1>3, <1>5 DEF Supervised

LEMMA ToolSteps ==
  ASSUME ExtInv, NEW c \in Caller, TakeSlot(c) \/ FinishCall(c) \/ Report(c)
  PROVE  ExtInv'
<1> DEFINE call == calls[c]
<1>0. /\ call \in Call /\ call.op = "tool" /\ call.pc \in {"waiting", "running", "reporting"}
      /\ Orderly(call) /\ Calling(call) /\ Building(call)
      /\ UNCHANGED <<registry, store, lock, file, current, queue, acked, used>>
  BY DEF ExtInv, ExtTypeOK, Supervised, TakeSlot, FinishCall, Report
<1>1. /\ ~Holding(call) /\ ~Queued(call) /\ ~Builds(call) /\ call.next = {}
      /\ call.a \in Activation /\ call.a <= used.act /\ act[call.a].health # "starting"
  BY <1>0 DEF Holding, Inside, Queued, AtWork, Builds, Building, Calling
<1> HIDE DEF call
<1>2. ASSUME NEW pc \in {"running", "reporting", "enqueue"}
      PROVE  /\ pc \in Steps /\ At(call, pc) \in Call /\ At(call, pc).pc = pc /\ Alike(At(call, pc), call)
             /\ ~Holding(At(call, pc)) /\ ~Queued(At(call, pc)) /\ ~Builds(At(call, pc))
             /\ Orderly(At(call, pc)) /\ Calling(At(call, pc)) /\ Building(At(call, pc))
             /\ At(call, pc).next = {}
  <2>1. pc \in Steps
    BY DEF Steps
  <2>2. At(call, pc) \in Call /\ At(call, pc).pc = pc /\ Alike(At(call, pc), call)
    BY <1>0, <2>1, Moved
  <2>3. ~Holding(At(call, pc)) /\ ~Queued(At(call, pc)) /\ ~Builds(At(call, pc)) /\ At(call, pc).next = {}
    BY <1>0, <1>1, <2>2 DEF Holding, Inside, Queued, AtWork, Builds, Alike
  <2>4. Orderly(At(call, pc)) /\ Calling(At(call, pc)) /\ Building(At(call, pc))
    BY <1>0, <1>1, <2>2, <2>3 DEF Orderly, Inside, Calling, Building, Alike
  <2> QED BY <2>1, <2>2, <2>3, <2>4
<1>3. ASSUME Return(c), UNCHANGED act PROVE ExtInv'
  BY <1>0, <1>1, <1>3, ReturnStep DEF call
<1>4. ASSUME NEW pc \in {"running", "reporting", "enqueue"}, Goto(c, pc), UNCHANGED act PROVE ExtInv'
  BY <1>0, <1>1, <1>2, <1>4, GotoStep DEF call
<1>5. CASE TakeSlot(c)
  BY <1>3, <1>4, <1>5 DEF TakeSlot
<1>6. CASE Report(c)
  BY <1>3, <1>4, <1>6 DEF Report
<1>7. CASE FinishCall(c) /\ ~(Return(c) /\ UNCHANGED act)
  <2>1. /\ act' = [act EXCEPT ![call.a] = IF @.reg THEN Quarantined(@) ELSE @]
        /\ Goto(c, "reporting")
    BY <1>7 DEF FinishCall, call
  <2>2. PICK m : m = At(call, "reporting")
    OBVIOUS
  <2>3. /\ m \in Call /\ Become(c, m) /\ Alike(m, call) /\ ~Holding(m) /\ ~Queued(m) /\ ~Builds(m)
        /\ Orderly(m) /\ Calling(m) /\ Building(m) /\ m.next = {}
    BY <1>2, <2>1, <2>2 DEF Goto, At, call
  <2>4. ExtTypeOK /\ Registry /\ Owned /\ InTurn /\ act \in [Activation -> Row] /\ act[call.a] \in Row
    BY <1>1 DEF ExtInv, ExtTypeOK
  <2>5. \E r \in Row : /\ act' = [act EXCEPT ![call.a] = r] /\ r.plugin = act[call.a].plugin
                       /\ r.inst = act[call.a].inst /\ r.reg = act[call.a].reg
                       /\ r.health # "starting" /\ (r = act[call.a] \/ r.proc # "live")
    <3>1. CASE act[call.a].reg
      <4>1. PICK r : r = Quarantined(act[call.a])
        OBVIOUS
      <4>2. /\ r \in Row /\ r.plugin = act[call.a].plugin /\ r.inst = act[call.a].inst
            /\ r.reg = act[call.a].reg /\ r.health = "quarantined" /\ r.proc # "live"
        BY <2>4, <4>1, RowsStopped
      <4>3. act' = [act EXCEPT ![call.a] = r]
        BY <2>1, <3>1, <4>1
      <4> QED BY <4>2, <4>3
    <3>2. CASE ~act[call.a].reg
      BY <1>1, <2>1, <2>4, <3>2
    <3> QED BY <3>1, <3>2
  <2>6. Fades
    <3>1. used.act \in Nat /\ Activation \subseteq Nat
      <4>1. used.act \in Activation \cup {0}
        BY FileTypes DEF Counters
      <4> QED BY <4>1, Bounds
    <3> QED BY <1>1, <2>4, <2>5, <3>1 DEF Fades
  <2>7. /\ calls' \in [Caller -> Call] /\ calls'[c] = m /\ \A d \in Caller : d # c => calls'[d] = calls[d]
    BY <2>3, <2>4, OthersStay
  <2>8. /\ \A d \in Caller : calls'[d] \in Call /\ Building(calls'[d]) /\ Calling(calls'[d])
        /\ (\A d \in Caller : ~Builds(calls'[d])) => \A d \in Caller : ~Builds(calls[d])
    BY <1>1, <2>3, <2>7 DEF ExtInv, Supervised, call
  <2>9. Supervised' /\ Made'
    BY <1>0, <2>6, <2>8, FadesQuietly
  <2>10. m.seen \in Files /\ \A p \in Plugin : m.read[p] \in Files
    BY <2>3, OwnFiles DEF Alike, call
  <2>11. Owned'
    BY <1>0, <2>3, <2>4, <2>6, <2>10, NamesStay DEF Fades
  <2>12. InTurn'
    BY <1>0, <1>1, <2>3, <2>4, TurnKept DEF Queued, call
  <2>13. Registry'
    BY <1>0, <1>1, <2>3, <2>4, RegistryKept DEF call
  <2>14. calls' \in [Caller -> Call] /\ \A d \in Caller : Orderly(calls[d])'
    BY <2>3, OrderKept
  <2>15. ExtTypeOK'
    BY <1>0, <2>4, <2>6, <2>14 DEF ExtTypeOK, Fades
  <2> QED BY <2>9, <2>11, <2>12, <2>13, <2>14, <2>15 DEF ExtInv
<1> QED BY <1>3, <1>5, <1>6, <1>7

\* A process ends by itself or because it was told to.
LEMMA ProcessSteps ==
  ASSUME ExtInv, NEW a \in Activation, Reap(a) \/ PluginExits(a)
  PROVE  ExtInv'
<1>0. /\ ExtTypeOK /\ Registry /\ Owned /\ InTurn /\ act \in [Activation -> Row] /\ act[a] \in Row /\ Made
      /\ UNCHANGED <<registry, store, lock, file, current, queue, acked, calls>>
      /\ act' = [act EXCEPT ![a].proc = "none"] /\ act[a].proc \in {"stopping", "late", "live"}
  BY DEF ExtInv, ExtTypeOK, Reap, PluginExits
<1>1. /\ used' \in Counters /\ used'.inst = used.inst /\ used'.act = used.act
      /\ used'.faults = used.faults \/ used'.faults # 0
  <2>1. used \in Counters /\ MaxFaults \in Nat
    BY FileTypes, ExtensionAssumption
  <2> QED BY <2>1 DEF Counters, Reap, PluginExits, Fault
<1>2. PICK r : r = [act[a] EXCEPT !.proc = "none"]
  OBVIOUS
<1>3. r \in Row
  BY <1>0, <1>2 DEF Row
<1>4. /\ r.plugin = act[a].plugin /\ r.inst = act[a].inst /\ r.reg = act[a].reg /\ r.proc = "none"
      /\ r.health = act[a].health
  BY <1>0, <1>2 DEF Row
<1>5. act' = [act EXCEPT ![a] = r]
  BY <1>0, <1>2
<1>6. ~(a > used.act)
  BY <1>0 DEF Made, Unused
<1>7. Fades
  BY <1>0, <1>3, <1>4, <1>5, <1>6 DEF Fades
<1>8. Supervised' /\ Made'
  <2>1. \A d \in Caller : calls'[d] \in Call /\ Building(calls'[d]) /\ Calling(calls'[d])
    BY <1>0 DEF ExtInv, ExtTypeOK, Supervised
  <2> QED BY <1>0, <1>1, <1>7, <2>1, FadesQuietly
<1>9. Owned'
  <2>1. Files' = Files
    BY <1>0 DEF Files
  <2>2. \A b \in Activation : Named(act'[b].inst, act'[b].plugin)
    BY <1>7 DEF Named, Fades
  <2> QED BY <1>0, <1>1, <2>1, <2>2, NamesKept
<1>10. Registry'
  BY <1>0, <1>1 DEF Registry, RegistrySound, Locked, Holding
<1>11. InTurn' /\ \A c \in Caller : Orderly(calls[c])'
  <2>1. InTurn'
    BY <1>0 DEF InTurn, Queued, AtWork
  <2>2. \A c \in Caller : Orderly(calls[c])'
    BY <1>0 DEF ExtInv, Orderly
  <2> QED BY <2>1, <2>2
<1>12. ExtTypeOK'
  BY <1>0, <1>1, <1>7 DEF ExtTypeOK, Fades, Counters
<1> QED BY <1>8, <1>9, <1>10, <1>11, <1>12 DEF ExtInv

-----------------------------------------------------------------------------
(* The workspace queue *)

\* What the head of the queue leaves behind when its call is m.
Tidy(m) ==
  /\ \A a \in current : a <= used.act /\ act[a].health # "starting"
  /\ \A a, b \in current : act[a].plugin = act[b].plugin => a = b
  /\ ~Builds(m) => current = {a \in Activation : act[a].reg}
  /\ \A a \in Activation : act[a].proc = "live" => act[a].client /\ act[a].reg
  /\ Building(m)

\* Nobody else is at work in its turn: the others depend on it in nothing but their calls.
LEMMA HeadStep ==
  ASSUME ExtInv, NEW c \in Caller, AtWork(calls[c]) \/ Turn(c),
         NEW m \in Call, Become(c, m), Orderly(m), AtWork(m), m.op = "tool" => m.pc = "health",
         UNCHANGED <<registry, store, lock, file, queue, acked>>,
         used' \in Counters, used'.inst = used.inst, used'.faults = used.faults,
         used'.act >= used.act, act' \in [Activation -> Row], current' \subseteq Activation,
         \A a \in Activation : a <= used.act /\ act[a].health # "starting" => act'[a].health # "starting",
         Owned', Made', Tidy(m)'
  PROVE  ExtInv'
<1>0. ExtTypeOK /\ Registry /\ InTurn /\ Supervised
  BY DEF ExtInv
<1>1. \A d \in Caller : AtWork(calls[d]) => d = c
  BY <1>0, OneAtWork
<1>2. /\ calls' \in [Caller -> Call] /\ calls'[c] = m /\ \A d \in Caller : d # c => calls'[d] = calls[d]
  BY <1>0, OthersStay
<1>3. Published'
  <2>1. (\A d \in Caller : ~Builds(calls[d])') => ~Builds(m)
    BY <1>2 DEF Builds, AtWork
  <2> QED BY <2>1 DEF Published, Tidy
<1>4. ASSUME NEW d \in Caller PROVE (Building(calls[d]) /\ Calling(calls[d]))'
  <2>1. CASE d = c
    <3>1. Calling(m)'
      BY DEF Calling, AtWork
    <3>2. Building(m)'
      BY DEF Tidy
    <3> QED BY <1>2, <2>1, <3>1, <3>2 DEF Building, Calling
  <2>2. CASE d # c
    <3>1. PICK call : call = calls[d]
      OBVIOUS
    <3>2. call \in Call /\ Building(call) /\ Calling(call) /\ ~Builds(call) /\ calls'[d] = call
      BY <1>0, <1>1, <1>2, <2>2, <3>1 DEF ExtTypeOK, Supervised, Builds
    <3>3. Building(call)'
      BY <3>2 DEF Building
    <3>4. Calling(call)'
      <4>1. used.act \in Nat /\ used'.act \in Nat /\ Activation \subseteq Nat
        <5>1. used.act \in Activation \cup {0} /\ used'.act \in Activation \cup {0}
          BY FileTypes DEF Counters
        <5> QED BY <5>1, Bounds
      <4> SUFFICES ASSUME call.op = "tool", call.pc # "health"
                   PROVE  call.a \in Activation /\ call.a <= used'.act /\ act'[call.a].health # "starting"
        BY DEF Calling
      <4>2. call.a \in Activation /\ call.a <= used.act /\ act[call.a].health # "starting"
        BY <3>2 DEF Calling
      <4>3. call.a \in Nat /\ call.a <= used'.act
        <5>1. PICK x \in Nat : x = call.a
          BY <4>1, <4>2
        <5>2. PICK y \in Nat : y = used.act
          BY <4>1
        <5>3. PICK z \in Nat : z = used'.act
          BY <4>1
        <5>4. x <= y /\ y <= z
          BY <4>2, <5>1, <5>2, <5>3
        <5> QED BY <5>1, <5>3, <5>4
      <4> QED BY <4>2, <4>3
    <3> QED BY <3>2, <3>3, <3>4 DEF Building, Calling
  <2> QED BY <2>1, <2>2
<1>5. InTurn'
  <2>1. Queued(m) /\ Queued(calls[c])
    BY DEF Queued, Turn
  <2> QED BY <1>0, <2>1, TurnKept
<1>6. Registry'
  <2>1. ~Holding(calls[c]) /\ ~Holding(m)
    BY DEF Holding, Inside, AtWork, Turn
  <2> QED BY <1>0, <2>1, RegistryKept
<1>7. calls' \in [Caller -> Call] /\ \A d \in Caller : Orderly(calls[d])'
  BY OrderKept
<1>8. ExtTypeOK'
  BY <1>0, <1>7 DEF ExtTypeOK, Counters
<1> QED BY <1>3, <1>4, <1>5, <1>6, <1>7, <1>8 DEF ExtInv, Supervised

\* What the head does to activations that exist: they keep their names, and none goes back
\* to being started.
Tamed ==
  /\ act' \in [Activation -> Row]
  /\ \A a \in Activation :
       /\ act'[a].plugin = act[a].plugin /\ act'[a].inst = act[a].inst
       /\ act[a].health # "starting" => act'[a].health # "starting"
       /\ a > used.act => act'[a] = act[a]

LEMMA HeadTames ==
  ASSUME ExtInv, NEW c \in Caller, AtWork(calls[c]) \/ Turn(c),
         NEW m \in Call, Become(c, m), Orderly(m), AtWork(m), m.op = "tool" => m.pc = "health",
         UNCHANGED <<registry, store, lock, file, queue, acked, used>>,
         current' \subseteq Activation, Tamed, Tidy(m)',
         m.seen \in Files, \A p \in Plugin : m.read[p] \in Files
  PROVE  ExtInv'
<1>0. ExtTypeOK /\ Owned /\ Made /\ used \in Counters /\ used' \in Counters
  BY FileTypes DEF ExtInv
<1>1. used'.act >= used.act
  <2>1. used.act \in Activation \cup {0}
    BY <1>0 DEF Counters
  <2>2. used.act \in Nat
    BY <2>1, Bounds
  <2> QED BY <2>2
<1>2. Owned'
  BY <1>0, NamesStay DEF Tamed
<1>3. Made'
  BY <1>0 DEF Made, Tamed
<1>4. /\ act' \in [Activation -> Row]
      /\ \A a \in Activation : a <= used.act /\ act[a].health # "starting" => act'[a].health # "starting"
  BY DEF Tamed
<1> QED BY <1>0, <1>1, <1>2, <1>3, <1>4, HeadStep

LEMMA Numbers ==
  ASSUME ExtInv
  PROVE  /\ used.act \in Nat /\ Activation \subseteq Nat \ {0} /\ act \in [Activation -> Row]
         /\ current \subseteq Activation /\ used \in Counters
<1>1. used.act \in Activation \cup {0} /\ used \in Counters
  BY FileTypes DEF Counters
<1> QED BY <1>1, Bounds DEF ExtInv, ExtTypeOK

LEMMA AllRemoved ==
  ASSUME ExtInv, NEW S \in SUBSET Activation, act' = RemoveAll(S), \A a \in S : a <= used.act
  PROVE  /\ Tamed
         /\ \A a \in Activation \ S : act'[a] = act[a]
         /\ \A a \in S : ~act'[a].reg /\ act'[a].proc # "live"
<1>1. act \in [Activation -> Row] /\ used.act \in Nat /\ Activation \subseteq Nat
  BY Numbers
<1>2. \A a \in Activation : act'[a] = IF a \in S THEN Removed(act[a]) ELSE act[a]
  BY DEF RemoveAll
<1>3. \A a \in Activation : act[a] \in Row
  BY <1>1
<1>4. act' \in [Activation -> Row]
  BY <1>3, RowsStopped DEF RemoveAll
<1>5. \A a \in S : /\ act'[a].plugin = act[a].plugin /\ act'[a].inst = act[a].inst
                   /\ act'[a].health = "stopped" /\ ~act'[a].reg /\ act'[a].proc # "live"
  BY <1>2, <1>3, RowsStopped
<1>6. \A a \in S : ~(a > used.act)
  BY <1>1
<1> QED BY <1>2, <1>4, <1>5, <1>6 DEF Tamed

LEMMA RowSet ==
  ASSUME ExtInv, NEW a \in Activation, a <= used.act, NEW r \in Row, act' = [act EXCEPT ![a] = r],
         r.plugin = act[a].plugin, r.inst = act[a].inst, r.health # "starting"
  PROVE  Tamed /\ act'[a] = r /\ \A b \in Activation : b # a => act'[b] = act[b]
<1>1. act \in [Activation -> Row] /\ used.act \in Nat /\ Activation \subseteq Nat
  BY Numbers
<1>2. ~(a > used.act)
  BY <1>1
<1> QED BY <1>1, <1>2 DEF Tamed

\* Before its turn begins, what is published is what the supervisor knows.
LEMMA TurnBegins ==
  ASSUME ExtInv, NEW c \in Caller, Turn(c)
  PROVE  /\ \A d \in Caller : ~AtWork(calls[d])
         /\ current = {a \in Activation : act[a].reg} /\ calls[c].next = {}
<1>1. \A d \in Caller : ~AtWork(calls[d])
  BY OneAtWork DEF ExtInv
<1>2. \A d \in Caller : ~Builds(calls[d])
  BY <1>1 DEF Builds
<1> QED BY <1>1, <1>2 DEF ExtInv, Supervised, Published, Building

LEMMA EnqueueStep ==
  ASSUME ExtInv, NEW c \in Caller, Enqueue(c)
  PROVE  ExtInv'
<1> DEFINE call == calls[c]
<1>0. /\ call \in Call /\ call.pc = "enqueue" /\ Orderly(call) /\ Calling(call) /\ Building(call)
      /\ ExtTypeOK /\ InTurn /\ Owned /\ queue \in Seq(Caller) /\ file \in File
      /\ UNCHANGED <<registry, store, lock, file, act, current, acked, used>>
      /\ queue' = Append(queue, c) /\ Goto(c, "queued")
  BY DEF ExtInv, ExtTypeOK, Supervised, Enqueue
<1> HIDE DEF call
<1>1. PICK m : m = At(call, "queued")
  OBVIOUS
<1>2. m \in Call /\ m.pc = "queued" /\ Alike(m, call) /\ Become(c, m)
  BY <1>0, <1>1, Moved DEF Steps, Goto, At, call
<1>3. /\ ~Holding(call) /\ ~Queued(call) /\ ~Builds(call) /\ call.next = {}
      /\ ~Holding(m) /\ Queued(m) /\ ~AtWork(m) /\ ~Builds(m) /\ m.next = {} /\ Orderly(m) /\ Calling(m)
  BY <1>0, <1>2 DEF Holding, Inside, Queued, AtWork, Builds, Building, Orderly, Calling, Alike
<1>4. /\ calls'[c] = m /\ \A d \in Caller : d # c => calls'[d] = calls[d]
  BY <1>0, <1>2, OthersStay
<1>5. PICK n \in Nat : n = Len(queue)
  BY <1>0
<1>6. /\ Len(queue') = n + 1 /\ queue'[n + 1] = c /\ \A i \in 1 .. n : queue'[i] = queue[i] /\ queue[i] \in Caller
      /\ queue' \in Seq(Caller)
  BY <1>0, <1>5
<1>7. \A i \in 1 .. n : queue[i] # c
  BY <1>0, <1>3, <1>5 DEF InTurn, call
<1>8. \A i \in 1 .. (n + 1) : i \in 1 .. n \/ i = n + 1
  BY <1>5
<1>9. \A i, j \in 1 .. (n + 1) : queue'[i] = queue'[j] => i = j
  BY <1>0, <1>5, <1>6, <1>7, <1>8 DEF InTurn
<1>10. \A i \in 1 .. (n + 1) : Queued(calls'[queue'[i]])
  BY <1>0, <1>3, <1>4, <1>5, <1>6, <1>7, <1>8 DEF InTurn
<1>11. \A d \in Caller : Queued(calls'[d]) => \E i \in 1 .. (n + 1) : queue'[i] = d
  <2> SUFFICES ASSUME NEW d \in Caller, Queued(calls'[d]) PROVE \E i \in 1 .. (n + 1) : queue'[i] = d
    OBVIOUS
  <2>1. CASE d = c
    BY <1>5, <1>6, <2>1
  <2>2. CASE d # c
    <3>1. PICK i \in 1 .. n : queue[i] = d
      BY <1>0, <1>4, <1>5, <2>2 DEF InTurn
    <3> QED BY <1>5, <1>6, <3>1
  <2> QED BY <2>1, <2>2
<1>12. \A d \in Caller : AtWork(calls'[d]) => queue'[1] = d
  <2> SUFFICES ASSUME NEW d \in Caller, AtWork(calls'[d]) PROVE queue'[1] = d
    OBVIOUS
  <2>1. d # c /\ AtWork(calls[d])
    BY <1>3, <1>4
  <2>2. PICK i \in 1 .. n : queue[i] = d
    BY <1>0, <1>5, <2>1 DEF InTurn, Queued
  <2>3. 1 \in 1 .. n
    BY <1>5, <2>2
  <2> QED BY <1>0, <1>6, <2>1, <2>3 DEF InTurn
<1>13. InTurn'
  BY <1>5, <1>6, <1>9, <1>10, <1>11, <1>12 DEF InTurn, Queued, AtWork
<1>14. Owned'
  <2>1. m.seen \in Files /\ \A p \in Plugin : m.read[p] \in Files
    BY <1>2, OwnFiles DEF Alike, call
  <2> QED BY <1>0, <1>2, <2>1, NamesStay
<1>15. used' \in Counters
  BY <1>0, FileTypes
<1> QED BY <1>0, <1>2, <1>3, <1>6, <1>13, <1>14, <1>15, Aside DEF call

\* The head leaves: the rest of the queue moves up.
LEMMA LeaveStep ==
  ASSUME ExtInv, NEW c \in Caller, LeaveQueue(c)
  PROVE  ExtInv'
<1> DEFINE call == calls[c]
<1>0. /\ call \in Call /\ call.pc = "health" /\ Orderly(call) /\ Building(call)
      /\ ExtTypeOK /\ InTurn /\ Owned /\ queue \in Seq(Caller) /\ file \in File
      /\ UNCHANGED <<registry, store, lock, file, act, current, acked, used>>
      /\ queue' = Tail(queue)
      /\ Become(c, Idle) \/ (call.op = "disable" /\ Become(c, At(call, "read disabled")))
  BY DEF ExtInv, ExtTypeOK, Supervised, LeaveQueue, Goto, Return, At
<1>a. queue \in Seq(Caller) /\ queue' = Tail(queue)
  BY <1>0
<1>b. InTurn
  BY <1>0
<1> HIDE DEF call
<1>1. ~Holding(call) /\ Queued(call) /\ AtWork(call) /\ ~Builds(call) /\ call.next = {}
  BY <1>0 DEF Holding, Inside, Queued, AtWork, Builds, Building
<1>2. PICK m \in Call : /\ Become(c, m) /\ ~Holding(m) /\ ~Queued(m) /\ m.next = {} /\ Orderly(m) /\ Calling(m)
                        /\ m.seen \in Files /\ \A p \in Plugin : m.read[p] \in Files
  <2>1. CASE Become(c, Idle)
    BY <2>1, Returned
  <2>2. CASE call.op = "disable" /\ Become(c, At(call, "read disabled"))
    <3>1. PICK m : m = At(call, "read disabled")
      OBVIOUS
    <3>2. m \in Call /\ m.pc = "read disabled" /\ Alike(m, call)
      BY <1>0, <3>1, Moved DEF Steps
    <3>3. /\ ~Holding(m) /\ ~Queued(m) /\ m.next = {} /\ Orderly(m) /\ Calling(m)
      BY <1>0, <1>1, <2>2, <3>2 DEF Holding, Inside, Queued, AtWork, Orderly, Calling, Alike
    <3>4. m.seen \in Files /\ \A p \in Plugin : m.read[p] \in Files
      BY <3>2, OwnFiles DEF Alike, call
    <3> QED BY <2>2, <3>1, <3>2, <3>3, <3>4
  <2> QED BY <1>0, <2>1, <2>2
<1>3. ~AtWork(m) /\ ~Builds(m)
  BY <1>2 DEF Queued, Builds
<1>4. /\ calls'[c] = m /\ \A d \in Caller : d # c => calls'[d] = calls[d]
  BY <1>0, <1>2, OthersStay
<1>5. PICK n \in Nat : n = Len(queue)
  BY <1>a
<1>6. queue[1] = c /\ \E i \in 1 .. n : queue[i] = c
  BY <1>a, <1>b, <1>1, <1>5 DEF InTurn, call
<1>7. /\ n >= 1 /\ Len(queue') = n - 1 /\ queue' \in Seq(Caller)
      /\ \A i \in 1 .. (n - 1) : queue'[i] = queue[i + 1]
      /\ \A i \in 1 .. n : queue[i] \in Caller
  <2>1. n >= 1 /\ queue # <<>>
    BY <1>a, <1>5, <1>6
  <2> QED BY <1>a, <1>5, <2>1
<1>8. \A i \in 1 .. (n - 1) : i + 1 \in 1 .. n /\ i + 1 # 1
  BY <1>5
<1>9. \A i \in 1 .. (n - 1) : queue'[i] # c /\ queue'[i] \in Caller
  <2>1. 1 \in 1 .. n
    BY <1>5, <1>7
  <2> QED BY <1>a, <1>b, <1>5, <1>6, <1>7, <1>8, <2>1 DEF InTurn
<1>10. \A i, j \in 1 .. (n - 1) : queue'[i] = queue'[j] => i = j
  <2> SUFFICES ASSUME NEW i \in 1 .. (n - 1), NEW j \in 1 .. (n - 1), queue'[i] = queue'[j] PROVE i = j
    OBVIOUS
  <2>1. i + 1 = j + 1
    BY <1>a, <1>b, <1>5, <1>7, <1>8 DEF InTurn
  <2> QED BY <1>5, <2>1
<1>11. \A i \in 1 .. (n - 1) : Queued(calls'[queue'[i]])
  BY <1>a, <1>b, <1>4, <1>5, <1>7, <1>8, <1>9 DEF InTurn
<1>12. \A d \in Caller : Queued(calls'[d]) => \E i \in 1 .. (n - 1) : queue'[i] = d
  <2> SUFFICES ASSUME NEW d \in Caller, Queued(calls'[d]) PROVE \E i \in 1 .. (n - 1) : queue'[i] = d
    OBVIOUS
  <2>1. d # c /\ Queued(calls[d])
    BY <1>2, <1>4
  <2>2. PICK i \in 1 .. n : queue[i] = d
    BY <1>a, <1>b, <1>5, <2>1 DEF InTurn
  <2>3. i - 1 \in 1 .. (n - 1) /\ (i - 1) + 1 = i
    BY <1>5, <1>6, <2>1, <2>2
  <2>4. queue'[i - 1] = d
    BY <1>7, <2>2, <2>3
  <2> QED BY <2>3, <2>4
<1>13. \A d \in Caller : ~AtWork(calls'[d])
  <2>1. \A d \in Caller : AtWork(calls[d]) => d = c
    BY <1>0, <1>1, OneAtWork DEF call
  <2> QED BY <1>3, <1>4, <2>1
<1>14. InTurn'
  BY <1>5, <1>7, <1>10, <1>11, <1>12, <1>13 DEF InTurn, Queued, AtWork
<1>15. Owned'
  BY <1>0, <1>2, NamesStay
<1>16. used' \in Counters
  BY <1>0, FileTypes
<1> QED BY <1>0, <1>1, <1>2, <1>3, <1>7, <1>14, <1>15, <1>16, Aside DEF call

\* Steps of the head that change nothing but its call.
LEMMA HeadMoves ==
  ASSUME ExtInv, NEW c \in Caller, AtWork(calls[c]) \/ Turn(c),
         NEW m \in Call, Become(c, m), Orderly(m), AtWork(m), m.op = "tool" => m.pc = "health",
         UNCHANGED <<registry, store, lock, file, queue, acked, used, act, current>>,
         Building(m), Builds(m),
         m.seen \in Files, \A p \in Plugin : m.read[p] \in Files
  PROVE  ExtInv'
<1>1. Published /\ act \in [Activation -> Row] /\ current' \subseteq Activation
  BY Numbers DEF ExtInv, Supervised
<1>2. Tamed
  BY <1>1 DEF Tamed
<1>3. Building(m)'
  BY DEF Building
<1>4. Tidy(m)'
  BY <1>1, <1>3 DEF Tidy, Published
<1> QED BY <1>1, <1>2, <1>4, HeadTames

LEMMA SelectStep ==
  ASSUME ExtInv, NEW c \in Caller, Select(c)
  PROVE  ExtInv'
<1> DEFINE call == calls[c]
       chosen == {p \in Plugin : file[p].enabled /\ file[p].health # "quarantined"}
<1>0. /\ call \in Call /\ Turn(c) /\ call.op = "snapshot" /\ file \in File
      /\ UNCHANGED <<registry, store, lock, file, act, current, queue, acked, used>>
      /\ Become(c, [call EXCEPT !.pc = "verify", !.seen = file, !.todo = chosen])
  BY DEF ExtInv, ExtTypeOK, Select
<1>1. /\ chosen \subseteq Plugin /\ \A p \in chosen : file[p].enabled
      /\ call.next = {} /\ current = {a \in Activation : act[a].reg}
  BY <1>0, TurnBegins
<1> HIDE DEF call, chosen
<1>2. PICK m : m = [call EXCEPT !.pc = "verify", !.seen = file, !.todo = chosen]
  OBVIOUS
<1>3. m \in Call
  BY <1>0, <1>1, <1>2 DEF Call
<1>4. /\ m.pc = "verify" /\ m.op = "snapshot" /\ m.next = {} /\ m.seen = file /\ m.read = call.read
      /\ m.todo = chosen
  BY <1>0, <1>1, <1>2 DEF Call
<1>5. Orderly(m) /\ AtWork(m) /\ Builds(m)
  BY <1>4 DEF Orderly, Inside, AtWork, Builds
<1>6. Building(m)
  BY <1>1, <1>4, <1>5 DEF Building
<1>7. m.seen \in Files /\ \A p \in Plugin : m.read[p] \in Files
  BY <1>4, OwnFiles DEF call
<1>8. Become(c, m)
  BY <1>0, <1>2
<1> QED BY <1>0, <1>3, <1>4, <1>5, <1>6, <1>7, <1>8, HeadMoves

LEMMA VerifyStep ==
  ASSUME ExtInv, NEW c \in Caller, Verify(c)
  PROVE  ExtInv'
<1> DEFINE call == calls[c]
<1>0. /\ call \in Call /\ call.pc = "verify" /\ Orderly(call) /\ Building(call)
      /\ UNCHANGED <<registry, store, lock, file, act, current, queue, acked, used>>
      /\ Goto(c, "each")
  BY DEF ExtInv, ExtTypeOK, Supervised, Verify
<1> HIDE DEF call
<1>1. PICK m : m = At(call, "each")
  OBVIOUS
<1>2. m \in Call /\ m.pc = "each" /\ Alike(m, call) /\ Become(c, m)
  BY <1>0, <1>1, Moved DEF Steps, Goto, At, call
<1>3. call.op = "snapshot" /\ AtWork(call) /\ Builds(call) /\ m.op = "snapshot"
  BY <1>0, <1>2 DEF Orderly, AtWork, Builds, Alike
<1>4. Orderly(m) /\ AtWork(m) /\ Builds(m)
  BY <1>2, <1>3 DEF Orderly, Inside, AtWork, Builds
<1>5. Building(m)
  BY <1>0, <1>2, <1>3, <1>4 DEF Building, Alike
<1>6. m.seen \in Files /\ \A p \in Plugin : m.read[p] \in Files
  BY <1>2, OwnFiles DEF Alike, call
<1> QED BY <1>0, <1>2, <1>3, <1>4, <1>5, <1>6, HeadMoves DEF call

\* The head ends its work by removing S: what is left is what is published.
LEMMA RemovalStep ==
  ASSUME ExtInv, NEW c \in Caller, AtWork(calls[c]) \/ Turn(c),
         NEW m \in Call, Become(c, m), Orderly(m), m.pc = "health", m.next = {},
         UNCHANGED <<registry, store, lock, file, queue, acked, used>>,
         NEW S \in SUBSET Activation, act' = RemoveAll(S), \A a \in S : a <= used.act,
         current' = {a \in Activation : act[a].reg} \ S,
         \A a \in current' : a <= used.act /\ act[a].health # "starting",
         \A a, b \in current' : act[a].plugin = act[b].plugin => a = b,
         m.seen \in Files, \A p \in Plugin : m.read[p] \in Files
  PROVE  ExtInv'
<1>0. Published /\ act \in [Activation -> Row]
  BY Numbers DEF ExtInv, Supervised
<1>1. /\ Tamed /\ \A a \in Activation \ S : act'[a] = act[a]
      /\ \A a \in S : ~act'[a].reg /\ act'[a].proc # "live"
  BY AllRemoved
<1>2. AtWork(m) /\ ~Builds(m)
  BY DEF AtWork, Builds
<1>3. \A a \in current' : a \in Activation /\ act'[a] = act[a]
  BY <1>1
<1>4. current' = {a \in Activation : act'[a].reg}
  BY <1>1
<1>5. \A a \in Activation : act'[a].proc = "live" => act'[a].client /\ act'[a].reg
  BY <1>0, <1>1 DEF Published
<1>6. Building(m)'
  BY <1>2 DEF Building
<1>7. Tidy(m)'
  BY <1>3, <1>4, <1>5, <1>6 DEF Tidy
<1>8. current' \subseteq Activation
  BY <1>3
<1> QED BY <1>1, <1>2, <1>7, <1>8, HeadTames

LEMMA UnresolvedStep ==
  ASSUME ExtInv, NEW c \in Caller, Unresolved(c)
  PROVE  ExtInv'
<1> DEFINE call == calls[c]
           news == [p \in Plugin |-> IF p \in registry /\ file[p].enabled THEN "quarantined" ELSE "none"]
<1>0. /\ call \in Call /\ call.pc = "verify" /\ Orderly(call) /\ Building(call) /\ Published
      /\ UNCHANGED <<registry, store, lock, file, queue, acked, used>>
      /\ current' = {} /\ act' = RemoveAll(current) /\ current \subseteq Activation
      /\ Become(c, [call EXCEPT !.pc = "health", !.todo = {}, !.seen = NoFile, !.told = news])
  BY DEF ExtInv, ExtTypeOK, Supervised, Unresolved
<1>1. news \in [Plugin -> Persisted \cup {"none"}]
  BY DEF Persisted
<1> HIDE DEF call, news
<1>2. PICK m : m = [call EXCEPT !.pc = "health", !.todo = {}, !.seen = NoFile, !.told = news]
  OBVIOUS
<1>3. m \in Call
  BY <1>0, <1>1, <1>2, IdleCall DEF Call
<1>4. call.op = "snapshot" /\ AtWork(call) /\ Builds(call)
  BY <1>0 DEF Orderly, AtWork, Builds
<1>5. call.next = {} /\ \A a \in Activation : act[a].reg => a \in current
  BY <1>0, <1>4 DEF Building
<1>6. m.pc = "health" /\ m.op = "snapshot" /\ m.next = {} /\ m.seen = NoFile /\ m.read = call.read
  BY <1>0, <1>2, <1>4, <1>5 DEF Call
<1>7. Orderly(m) /\ Become(c, m)
  BY <1>0, <1>2, <1>6 DEF Orderly, Inside
<1>8. m.seen \in Files /\ \A p \in Plugin : m.read[p] \in Files
  BY <1>6, OwnFiles DEF call
<1>9. current' = {a \in Activation : act[a].reg} \ current /\ \A a \in current : a <= used.act
  BY <1>0, <1>5 DEF Published
<1> QED BY <1>0, <1>3, <1>4, <1>6, <1>7, <1>8, <1>9, RemovalStep DEF call

LEMMA PublishStep ==
  ASSUME ExtInv, NEW c \in Caller, Publish(c)
  PROVE  ExtInv'
<1> DEFINE call == calls[c]
           news == IF Publishable(call.next) THEN call.told
                   ELSE [p \in Plugin |-> IF call.told[p] = "none" THEN "none" ELSE "quarantined"]
           gone == IF Publishable(call.next) THEN current \ call.next ELSE current \cup call.next
<1>0. /\ call \in Call /\ call.pc = "each" /\ Orderly(call) /\ Building(call) /\ Published
      /\ current \subseteq Activation
  BY DEF ExtInv, ExtTypeOK, Supervised, Publish
<1>a. /\ UNCHANGED <<registry, store, lock, file, queue, acked, used>>
      /\ current' = (IF Publishable(call.next) THEN call.next ELSE {}) /\ act' = RemoveAll(gone)
      /\ Become(c, [call EXCEPT !.pc = "health", !.next = {}, !.seen = NoFile, !.told = news])
  BY <1>0 DEF Publish, Call
<1>1. news \in [Plugin -> Persisted \cup {"none"}] /\ call.next \subseteq Activation /\ gone \subseteq Activation
  <2>1. call.told \in [Plugin -> Persisted \cup {"none"}] /\ call.next \subseteq Activation
    BY <1>0 DEF Call
  <2> QED BY <1>0, <2>1 DEF Persisted
<1>2. call.op = "snapshot" /\ AtWork(call) /\ Builds(call)
  BY <1>0 DEF Orderly, AtWork, Builds
<1>3. /\ \A a \in Activation : act[a].reg => a \in current \cup call.next
      /\ \A a \in call.next : a <= used.act /\ act[a].reg /\ act[a].health # "starting"
      /\ \A a, b \in call.next : act[a].plugin = act[b].plugin => a = b
      /\ \A a \in current : a <= used.act
  BY <1>0, <1>2 DEF Building, Published
<1>4. /\ current' = {a \in Activation : act[a].reg} \ gone /\ \A a \in gone : a <= used.act
      /\ \A a \in current' : a <= used.act /\ act[a].health # "starting"
      /\ \A a, b \in current' : act[a].plugin = act[b].plugin => a = b
  <2>1. CASE Publishable(call.next)
    BY <1>a, <1>1, <1>3, <2>1
  <2>2. CASE ~Publishable(call.next)
    BY <1>a, <1>1, <1>3, <2>2
  <2> QED BY <2>1, <2>2
<1> HIDE DEF call, news, gone
<1>5. PICK m : m = [call EXCEPT !.pc = "health", !.next = {}, !.seen = NoFile, !.told = news]
  OBVIOUS
<1>6. m \in Call
  BY <1>0, <1>1, <1>5, IdleCall DEF Call
<1>7. m.pc = "health" /\ m.op = "snapshot" /\ m.next = {} /\ m.seen = NoFile /\ m.read = call.read
  BY <1>0, <1>2, <1>5 DEF Call
<1>8. Orderly(m) /\ Become(c, m)
  BY <1>a, <1>5, <1>7 DEF Orderly, Inside
<1>9. m.seen \in Files /\ \A p \in Plugin : m.read[p] \in Files
  BY <1>7, OwnFiles DEF call
<1> QED BY <1>a, <1>1, <1>2, <1>4, <1>6, <1>7, <1>8, <1>9, RemovalStep DEF call

LEMMA DeactivateStep ==
  ASSUME ExtInv, NEW c \in Caller, Deactivate(c)
  PROVE  ExtInv'
<1> DEFINE call == calls[c]
           gone == {a \in current : act[a].plugin = call.p}
           news == [call.told EXCEPT ![call.p] = "stopped"]
<1>0. /\ call \in Call /\ Turn(c) /\ call.op = "disable" /\ Orderly(call) /\ Published
      /\ current \subseteq Activation
      /\ UNCHANGED <<registry, store, lock, file, queue, acked, used>>
      /\ current' = current \ gone /\ act' = RemoveAll(gone)
      /\ Become(c, [call EXCEPT !.pc = "health", !.told = news])
  BY DEF ExtInv, ExtTypeOK, Supervised, Deactivate
<1>1. news \in [Plugin -> Persisted \cup {"none"}] /\ call.p \in Plugin
  <2>1. call.told \in [Plugin -> Persisted \cup {"none"}]
    BY <1>0 DEF Call
  <2>2. call.p \in Plugin
    BY <1>0 DEF Orderly
  <2> QED BY <2>1, <2>2 DEF Persisted
<1>2. call.next = {} /\ current = {a \in Activation : act[a].reg}
  BY <1>0, TurnBegins
<1>3. /\ current' = {a \in Activation : act[a].reg} \ gone /\ gone \subseteq Activation
      /\ \A a \in gone : a <= used.act
      /\ \A a \in current' : a <= used.act /\ act[a].health # "starting"
      /\ \A a, b \in current' : act[a].plugin = act[b].plugin => a = b
  BY <1>0, <1>2 DEF Published
<1> HIDE DEF call, gone, news
<1>4. PICK m : m = [call EXCEPT !.pc = "health", !.told = news]
  OBVIOUS
<1>5. m \in Call
  BY <1>0, <1>1, <1>4 DEF Call
<1>6. /\ m.pc = "health" /\ m.op = "disable" /\ m.p = call.p /\ m.next = {} /\ m.seen = call.seen
      /\ m.read = call.read
  BY <1>0, <1>2, <1>4 DEF Call
<1>7. Orderly(m) /\ Become(c, m)
  BY <1>0, <1>1, <1>4, <1>6 DEF Orderly, Inside
<1>8. m.seen \in Files /\ \A p \in Plugin : m.read[p] \in Files
  BY <1>6, OwnFiles DEF call
<1> QED BY <1>0, <1>3, <1>5, <1>6, <1>7, <1>8, RemovalStep

LEMMA UnpublishStep ==
  ASSUME ExtInv, NEW c \in Caller, Unpublish(c)
  PROVE  ExtInv'
<1> DEFINE call == calls[c]
           S == {call.a} \cap current
           plug == act[call.a].plugin
           news == [call.told EXCEPT ![plug] = IF call.a \in current THEN "quarantined" ELSE "none"]
<1>0. /\ call \in Call /\ Turn(c) /\ call.op = "tool" /\ Orderly(call) /\ Published /\ Calling(call)
      /\ current \subseteq Activation /\ Made
      /\ UNCHANGED <<registry, store, lock, file, queue, acked, used>>
      /\ current' = (IF call.a \in current THEN {b \in current : act[b].plugin # plug} ELSE current)
      /\ act' = (IF call.a \in current THEN RemoveAll({call.a}) ELSE act)
      /\ Become(c, [call EXCEPT !.pc = "health", !.a = 0, !.told = news])
  BY DEF ExtInv, ExtTypeOK, Supervised, Unpublish
<1>1. /\ call.a \in Activation /\ call.a <= used.act /\ plug \in Plugin
  BY <1>0 DEF Calling, Turn, Made
<1>2. news \in [Plugin -> Persisted \cup {"none"}]
  <2>1. call.told \in [Plugin -> Persisted \cup {"none"}]
    BY <1>0 DEF Call
  <2> QED BY <1>1, <2>1 DEF Persisted
<1>3. call.next = {} /\ current = {a \in Activation : act[a].reg}
  BY <1>0, TurnBegins
<1>4. act' = RemoveAll(S)
  <2>1. CASE call.a \in current
    <3>1. S = {call.a}
      BY <2>1
    <3> QED BY <1>0, <2>1, <3>1
  <2>2. CASE call.a \notin current
    <3>1. S = {} /\ act \in [Activation -> Row]
      BY <2>2, Numbers
    <3> QED BY <1>0, <2>2, <3>1 DEF RemoveAll
  <2> QED BY <2>1, <2>2
<1>5. current' = current \ S
  BY <1>0 DEF Published
<1>6. /\ current' = {a \in Activation : act[a].reg} \ S /\ S \subseteq Activation
      /\ \A a \in S : a <= used.act
      /\ \A a \in current' : a <= used.act /\ act[a].health # "starting"
      /\ \A a, b \in current' : act[a].plugin = act[b].plugin => a = b
  BY <1>0, <1>3, <1>5 DEF Published
<1> HIDE DEF call, S, news, plug
<1>7. PICK m : m = [call EXCEPT !.pc = "health", !.a = 0, !.told = news]
  OBVIOUS
<1>8. m \in Call
  BY <1>0, <1>2, <1>7 DEF Call
<1>9. /\ m.pc = "health" /\ m.op = "tool" /\ m.next = {} /\ m.seen = call.seen /\ m.read = call.read
  BY <1>0, <1>3, <1>7 DEF Call
<1>10. Orderly(m) /\ Become(c, m)
  BY <1>0, <1>7, <1>9 DEF Orderly, Inside
<1>11. m.seen \in Files /\ \A p \in Plugin : m.read[p] \in Files
  BY <1>9, OwnFiles DEF call
<1> QED BY <1>0, <1>4, <1>6, <1>8, <1>9, <1>10, <1>11, RemovalStep

\* A selected plugin is enabled under a name of its own.
LEMMA ChosenName ==
  ASSUME ExtInv, NEW c \in Caller, Builds(calls[c]), NEW p \in calls[c].todo
  PROVE  /\ p \in Plugin /\ calls[c].seen[p].inst \in Instance \ {0} /\ Named(calls[c].seen[p].inst, p)
         /\ \A a \in Activation : act[a].inst = calls[c].seen[p].inst /\ act[a].plugin \in Plugin
                                    => act[a].plugin = p
<1>1. calls[c] \in Call /\ Building(calls[c]) /\ Owned
  BY DEF ExtInv, ExtTypeOK, Supervised
<1>2. p \in Plugin /\ calls[c].seen[p].enabled
  BY <1>1 DEF Call, Building
<1>3. calls[c].seen \in Files /\ calls[c].seen \in File
  BY OwnFiles, FileTypes
<1>4. calls[c].seen[p].inst \in Instance /\ calls[c].seen[p].inst # 0
  BY <1>1, <1>2, <1>3, FileTypes DEF Owned
<1>5. Named(calls[c].seen[p].inst, p)
  BY <1>3 DEF Named
<1>6. \A a \in Activation : Named(act[a].inst, act[a].plugin)
  BY DEF Named
<1> QED BY <1>1, <1>2, <1>4, <1>5, <1>6 DEF Owned

LEMMA ActivateStep ==
  ASSUME ExtInv, NEW c \in Caller, Activate(c)
  PROVE  ExtInv'
<1> DEFINE call == calls[c]
<1>0. /\ call \in Call /\ call.pc = "each" /\ Orderly(call) /\ Building(call) /\ Published /\ Owned /\ Made
      /\ ExtTypeOK /\ UNCHANGED <<registry, store, lock, file, current, queue, acked>>
  BY DEF ExtInv, ExtTypeOK, Supervised, Activate
<1>1. call.op = "snapshot" /\ AtWork(call) /\ Builds(call)
  BY <1>0 DEF Orderly, AtWork, Builds
<1>2. PICK p \in call.todo :
         \/ \E a \in Existing(c, p) :
              /\ Become(c, [call EXCEPT !.p = p, !.a = a, !.pc = "waiting"])
              /\ UNCHANGED <<act, used>>
         \/ /\ Existing(c, p) = {} /\ used.act + 1 \in Activation
            /\ used' = [used EXCEPT !.act = @ + 1]
            /\ act' = [act EXCEPT ![used.act + 1] = Registered(p, call.seen[p].inst)]
            /\ Become(c, [call EXCEPT !.p = p, !.a = used.act + 1, !.pc = "starting"])
  BY DEF Activate
<1>3. /\ p \in Plugin /\ call.seen[p].inst \in Instance \ {0} /\ Named(call.seen[p].inst, p)
      /\ \A a \in Activation : act[a].inst = call.seen[p].inst /\ act[a].plugin \in Plugin
                                    => act[a].plugin = p
  BY <1>1, ChosenName
<1>4. /\ used.act \in Nat /\ Activation \subseteq Nat \ {0} /\ act \in [Activation -> Row]
      /\ current \subseteq Activation /\ used \in Counters
  BY Numbers
<1>5. \A q \in Plugin : call.read[q] \in Files /\ call.seen \in Files
  BY OwnFiles
<1>6. CASE \E a \in Existing(c, p) :
              /\ Become(c, [call EXCEPT !.p = p, !.a = a, !.pc = "waiting"])
              /\ UNCHANGED <<act, used>>
  <2>1. PICK a \in current : /\ act[a].inst = call.seen[p].inst
                             /\ Become(c, [call EXCEPT !.p = p, !.a = a, !.pc = "waiting"])
                             /\ UNCHANGED <<act, used>>
    BY <1>6 DEF Existing
  <2>2. a \in Activation /\ a <= used.act /\ act[a].plugin = p /\ act[a].health # "starting"
    BY <1>0, <1>3, <1>4, <2>1 DEF Made, Published
  <2> HIDE DEF call
  <2>3. PICK m : m = [call EXCEPT !.p = p, !.a = a, !.pc = "waiting"]
    OBVIOUS
  <2>4. m \in Call
    <3>1. call \in Call /\ a \in Activation /\ p \in Plugin
      BY <1>0, <1>3, <2>2
    <3> QED BY ONLY <2>3, <3>1 DEF Call
  <2>5. /\ m.pc = "waiting" /\ m.op = "snapshot" /\ m.p = p /\ m.a = a /\ m.seen = call.seen
        /\ m.read = call.read /\ m.next = call.next /\ m.todo = call.todo
    BY <1>0, <1>1, <2>3 DEF Call
  <2>6. Orderly(m) /\ AtWork(m) /\ Builds(m) /\ Become(c, m)
    BY <2>1, <2>3, <2>5 DEF Orderly, Inside, AtWork, Builds
  <2>7. Building(m)
    BY <1>0, <1>1, <1>2, <2>1, <2>2, <2>5, <2>6 DEF Building
  <2>8. m.seen \in Files /\ \A q \in Plugin : m.read[q] \in Files
    BY <1>3, <1>5, <2>5
  <2> QED BY <1>0, <1>1, <2>1, <2>4, <2>5, <2>6, <2>7, <2>8, HeadMoves DEF call
<1>7. CASE /\ Existing(c, p) = {} /\ used.act + 1 \in Activation
           /\ used' = [used EXCEPT !.act = @ + 1]
           /\ act' = [act EXCEPT ![used.act + 1] = Registered(p, call.seen[p].inst)]
           /\ Become(c, [call EXCEPT !.p = p, !.a = used.act + 1, !.pc = "starting"])
  <2>1. PICK a \in Nat : a = used.act + 1
    BY <1>4
  <2>2. /\ used' \in Counters /\ used'.act = a /\ used'.inst = used.inst /\ used'.faults = used.faults
        /\ used'.act >= used.act
    BY <1>4, <1>7, <2>1 DEF Counters
  <2>3. PICK r : r = Registered(p, call.seen[p].inst)
    OBVIOUS
  <2>4. r \in Row
    BY <1>3, <2>3 DEF Registered, Row
  <2>5. /\ r.plugin = p /\ r.inst = call.seen[p].inst /\ r.health = "starting" /\ r.proc = "starting" /\ r.reg
    BY <2>3 DEF Registered
  <2>6. /\ a \in Activation /\ act' = [act EXCEPT ![a] = r] /\ act'[a] = r /\ act' \in [Activation -> Row]
        /\ \A b \in Activation : b # a => act'[b] = act[b]
    BY <1>4, <1>7, <2>1, <2>3, <2>4
  <2>7. \A b \in Activation : b <= used.act => b # a /\ b <= a /\ act'[b] = act[b]
    BY <1>4, <2>1, <2>6
  <2>8. Made'
    <3>1. \A b \in Activation : (b <= a => b <= used.act \/ b = a) /\ (b > a => b > used.act /\ b # a)
      <4>1. PICK k \in Nat : k = used.act /\ a = k + 1
        BY <1>4, <2>1
      <4>2. Activation \subseteq Nat
        BY DEF Activation
      <4>3. \A b \in Nat : (b <= k + 1 => b <= k \/ b = k + 1) /\ (b > k + 1 => b > k /\ b # k + 1)
        BY ONLY k \in Nat
      <4> QED BY <4>1, <4>2, <4>3
    <3> QED BY <1>0, <1>3, <2>2, <2>5, <2>6, <3>1 DEF Made
  <2> HIDE DEF call
  <2>9. PICK m : m = [call EXCEPT !.p = p, !.a = a, !.pc = "starting"]
    OBVIOUS
  <2>10. m \in Call
    <3>1. call \in Call /\ a \in Activation /\ p \in Plugin
      BY <1>0, <1>3, <2>6
    <3> QED BY ONLY <2>9, <3>1 DEF Call
  <2>11. /\ m.pc = "starting" /\ m.op = "snapshot" /\ m.p = p /\ m.a = a /\ m.seen = call.seen
        /\ m.read = call.read /\ m.next = call.next /\ m.todo = call.todo
    BY <1>0, <1>1, <2>9 DEF Call
  <2>12. Orderly(m) /\ AtWork(m) /\ Builds(m) /\ Become(c, m)
    BY <1>7, <2>1, <2>9, <2>11 DEF Orderly, Inside, AtWork, Builds
  <2>13. m.seen \in Files /\ \A q \in Plugin : m.read[q] \in Files
    BY <1>3, <1>5, <2>11 DEF call
  <2>14. Owned'
    <3>1. \A f \in Files' : f \in Files
      <4>1. file' \in Files
        BY <1>0, OwnFiles
      <4> QED BY <1>0, <2>10, <2>12, <2>13, <4>1, FilesAfter
    <3>2. \A b \in Activation : Named(act'[b].inst, act'[b].plugin)
      <4> SUFFICES ASSUME NEW b \in Activation PROVE Named(act'[b].inst, act'[b].plugin)
        OBVIOUS
      <4>1. CASE b = a
        BY <1>3, <2>5, <2>6, <4>1
      <4>2. CASE b # a
        BY <2>6, <4>2 DEF Named
      <4> QED BY <4>1, <4>2
    <3> QED BY <1>0, <2>2, <3>1, <3>2, NamesKept
  <2>15. /\ call.next \subseteq Activation
         /\ \A b \in call.next : b <= used.act /\ act[b].reg /\ act[b].health # "starting" /\ act[b].plugin \notin call.todo
         /\ \A b, d \in call.next : act[b].plugin = act[d].plugin => b = d
         /\ \A b \in current : act[b].plugin \in call.todo => act[b].reg
         /\ \A b \in Activation : act[b].reg => b \in current \cup call.next
         /\ \A q \in call.todo : call.seen[q].enabled
    <3>1. call.next \subseteq Activation
      BY <1>0 DEF Call
    <3> QED BY <1>0, <1>1, <3>1 DEF Building
  <2>16. \A b \in current : b \in Activation /\ b <= used.act /\ b <= a /\ act'[b] = act[b] /\ act[b].health # "starting"
    BY <1>0, <1>4, <2>7 DEF Published
  <2>17. Building(m)'
    <3>1. \A b \in call.next : b <= a /\ act'[b] = act[b]
      BY <2>7, <2>15
    <3>2. a <= a
      BY <2>1
    <3>3. \A b \in m.next : /\ b <= used'.act /\ act'[b].reg /\ act'[b].health # "starting"
                             /\ act'[b].plugin \notin m.todo
      BY <2>2, <2>11, <2>15, <3>1
    <3>4. \A b, d \in m.next : act'[b].plugin = act'[d].plugin => b = d
      BY <2>11, <2>15, <3>1
    <3>5. current' = current /\ \A b \in current' : act'[b].plugin \in m.todo => act'[b].reg
      BY <1>0, <2>11, <2>15, <2>16
    <3>6. \A b \in Activation : act'[b].reg => b \in current' \cup m.next \/ b = m.a
      BY <2>6, <2>11, <2>15, <3>5
    <3>7. /\ m.p \in m.todo /\ m.a \in Activation /\ m.a <= used'.act /\ act'[m.a].plugin = m.p
          /\ act'[m.a].reg /\ act'[m.a].health = "starting" /\ act'[m.a].proc = "starting"
      BY <1>2, <2>2, <2>5, <2>6, <2>11, <3>2 DEF call
    <3> QED BY <2>11, <2>12, <2>15, <3>3, <3>4, <3>5, <3>6, <3>7 DEF Building
  <2>18. \A b \in Activation : act'[b].proc = "live" => act'[b].client /\ act'[b].reg
    BY <1>0, <2>5, <2>6 DEF Published
  <2>19. \A b, d \in current : act[b].plugin = act[d].plugin => b = d
    BY <1>0 DEF Published
  <2>20. Tidy(m)'
    BY <1>0, <2>2, <2>12, <2>16, <2>17, <2>18, <2>19 DEF Tidy
  <2>21. /\ current' \subseteq Activation
         /\ \A b \in Activation : b <= used.act /\ act[b].health # "starting" => act'[b].health # "starting"
    BY <1>0, <1>4, <2>7
  <2> QED BY <1>0, <1>1, <2>2, <2>6, <2>8, <2>10, <2>11, <2>12, <2>14, <2>20, <2>21, HeadStep DEF call
<1> QED BY <1>2, <1>6, <1>7

\* A selection is dealt with.
LEMMA SettledCall ==
  ASSUME NEW call \in Call, NEW health \in {"healthy", "quarantined"}, call.p \in Plugin,
         call.a \in Activation, call.op = "snapshot"
  PROVE  LET m == Settled(call, health) IN
         /\ m \in Call /\ m.pc = "each" /\ m.op = "snapshot" /\ m.todo = call.todo \ {call.p}
         /\ m.seen = call.seen /\ m.read = call.read
         /\ m.next = (IF health = "healthy" THEN call.next \cup {call.a} ELSE call.next)
         /\ Orderly(m) /\ AtWork(m) /\ Builds(m)
<1> DEFINE news == [call.told EXCEPT ![call.p] = health]
           more == IF health = "healthy" THEN call.next \cup {call.a} ELSE call.next
           left == call.todo \ {call.p}
<1>1. news \in [Plugin -> Persisted \cup {"none"}] /\ more \subseteq Activation /\ left \subseteq Plugin
  <2>1. /\ call.told \in [Plugin -> Persisted \cup {"none"}] /\ call.next \subseteq Activation
        /\ call.todo \subseteq Plugin
    BY DEF Call
  <2>2. health \in Persisted
    BY DEF Persisted
  <2> QED BY <2>1, <2>2
<1>2. Settled(call, health) = [call EXCEPT !.pc = "each", !.todo = left, !.a = 0, !.p = NoPlugin,
                                           !.told = news, !.next = more]
  BY DEF Settled, Call
<1> HIDE DEF news, more, left
<1>3. PICK m : m = [call EXCEPT !.pc = "each", !.todo = left, !.a = 0, !.p = NoPlugin,
                                !.told = news, !.next = more]
  OBVIOUS
<1>4. m \in Call
  BY <1>1, <1>3 DEF Call
<1>5. /\ m.pc = "each" /\ m.op = "snapshot" /\ m.todo = left /\ m.seen = call.seen /\ m.read = call.read
      /\ m.next = more
  BY <1>3 DEF Call
<1>6. Orderly(m) /\ AtWork(m) /\ Builds(m)
  BY <1>5 DEF Orderly, Inside, AtWork, Builds
<1> QED BY <1>2, <1>3, <1>4, <1>5, <1>6 DEF more, left

\* The selection in hand is dealt with: its activation goes on as r, in the snapshot when it
\* is healthy and forgotten when it is not.
LEMMA SettleStep ==
  ASSUME ExtInv, NEW c \in Caller, calls[c].pc \in {"starting", "waiting", "refreshing"},
         calls[c].op = "snapshot", NEW health \in {"healthy", "quarantined"},
         Become(c, Settled(calls[c], health)),
         UNCHANGED <<registry, store, lock, file, current, queue, acked, used>>,
         NEW r \in Row, act' = [act EXCEPT ![calls[c].a] = r],
         r.plugin = act[calls[c].a].plugin, r.inst = act[calls[c].a].inst, r.health # "starting",
         r.reg <=> health = "healthy", r.proc = "live" => r.client /\ r.reg
  PROVE  ExtInv'
<1>0. /\ calls[c] \in Call /\ Building(calls[c]) /\ Published /\ AtWork(calls[c]) /\ Builds(calls[c])
  BY DEF ExtInv, ExtTypeOK, Supervised, AtWork, Builds
<1>1. PICK call \in Call : call = calls[c]
  BY <1>0
<1>2. /\ call.p \in call.todo /\ call.a \in Activation /\ call.a <= used.act /\ act[call.a].plugin = call.p
      /\ call.todo \subseteq Plugin /\ call.p \in Plugin /\ call.next \subseteq Activation
  <2>1. call.todo \subseteq Plugin /\ call.next \subseteq Activation
    BY DEF Call
  <2> QED BY <1>0, <1>1, <2>1 DEF Building
<1>3. /\ \A b \in call.next : b <= used.act /\ act[b].reg /\ act[b].health # "starting" /\ act[b].plugin \notin call.todo
      /\ \A b, d \in call.next : act[b].plugin = act[d].plugin => b = d
      /\ \A b \in current : act[b].plugin \in call.todo => act[b].reg
      /\ \A b \in Activation : act[b].reg => b \in current \cup call.next \/ b = call.a
      /\ \A q \in call.todo : call.seen[q].enabled
      /\ call.pc # "starting" => call.a \in current
      /\ call.pc = "starting" => act[call.a].health = "starting"
  BY <1>0, <1>1, <1>2 DEF Building
<1>4. PICK m : m = Settled(call, health)
  OBVIOUS
<1>5. /\ m \in Call /\ m.pc = "each" /\ m.op = "snapshot" /\ m.todo = call.todo \ {call.p}
      /\ m.seen = call.seen /\ m.read = call.read
      /\ m.next = (IF health = "healthy" THEN call.next \cup {call.a} ELSE call.next)
      /\ Orderly(m) /\ AtWork(m) /\ Builds(m)
  BY <1>1, <1>2, <1>4, SettledCall
<1>6. Tamed /\ act'[call.a] = r /\ \A b \in Activation : b # call.a => act'[b] = act[b]
  BY <1>1, <1>2, RowSet
<1>7. call.a \notin call.next
  BY <1>2, <1>3
<1>8. /\ current' = current /\ current \subseteq Activation /\ used' = used
      /\ \A b \in current : /\ b <= used.act /\ act[b].health # "starting" /\ act'[b].health # "starting"
                            /\ act'[b].plugin = act[b].plugin
      /\ \A b, d \in current : act[b].plugin = act[d].plugin => b = d
  BY <1>0, <1>6, Numbers DEF Published, Tamed
<1>9. Building(m)'
  <2>1. \A b \in m.next : /\ b <= used'.act /\ act'[b].reg /\ act'[b].health # "starting"
                          /\ act'[b].plugin \notin m.todo
    <3> SUFFICES ASSUME NEW b \in m.next
                 PROVE  /\ b <= used'.act /\ act'[b].reg /\ act'[b].health # "starting"
                        /\ act'[b].plugin \notin m.todo
      OBVIOUS
    <3>1. CASE b \in call.next
      BY <1>2, <1>3, <1>5, <1>6, <1>7, <1>8, <3>1
    <3>2. CASE b = call.a /\ health = "healthy"
      BY <1>1, <1>2, <1>5, <1>6, <1>8, <3>2
    <3> QED BY <1>5, <3>1, <3>2
  <2>2. \A b, d \in m.next : act'[b].plugin = act'[d].plugin => b = d
    <3>1. \A b \in call.next : act'[b] = act[b] /\ act[b].plugin # call.p
      BY <1>2, <1>3, <1>6, <1>7
    <3>2. act'[call.a].plugin = call.p
      BY <1>1, <1>2, <1>6
    <3> QED BY <1>3, <1>5, <3>1, <3>2
  <2>3. \A b \in current' : act'[b].plugin \in m.todo => act'[b].reg
    BY <1>2, <1>3, <1>5, <1>6, <1>8
  <2>4. \A b \in Activation : act'[b].reg => b \in current' \cup m.next
    BY <1>3, <1>5, <1>6, <1>8
  <2>5. \A q \in m.todo : m.seen[q].enabled
    BY <1>3, <1>5
  <2> QED BY <1>5, <2>1, <2>2, <2>3, <2>4, <2>5 DEF Building
<1>10. \A b \in Activation : act'[b].proc = "live" => act'[b].client /\ act'[b].reg
  BY <1>0, <1>6 DEF Published
<1>11. Tidy(m)'
  BY <1>5, <1>8, <1>9, <1>10 DEF Tidy
<1>12. m.seen \in Files /\ \A p \in Plugin : m.read[p] \in Files
  BY <1>1, <1>5, OwnFiles
<1>13. Become(c, m)
  BY <1>1, <1>4
<1> QED BY <1>0, <1>5, <1>6, <1>8, <1>11, <1>12, <1>13, HeadTames

LEMMA StartAndRefreshSteps ==
  ASSUME ExtInv, NEW c \in Caller, FinishStart(c) \/ Refresh(c)
  PROVE  ExtInv'
<1> DEFINE call == calls[c]
<1>0. /\ call \in Call /\ call.pc \in {"starting", "waiting", "refreshing"} /\ call.op = "snapshot"
      /\ Building(call) /\ Orderly(call) /\ Published
      /\ UNCHANGED <<registry, store, lock, file, current, queue, acked, used>>
  BY DEF ExtInv, ExtTypeOK, Supervised, Orderly, FinishStart, Refresh
<1>1. AtWork(call) /\ Builds(call)
  BY <1>0 DEF AtWork, Builds
<1>2. /\ call.a \in Activation /\ call.a <= used.act
      /\ call.pc # "starting" => call.a \in current
      /\ call.pc = "starting" => act[call.a].reg
  BY <1>0, <1>1 DEF Building
<1>3. act \in [Activation -> Row] /\ act[call.a] \in Row
  BY <1>2, Numbers
<1> HIDE DEF call
<1>4. ASSUME NEW health \in {"healthy", "quarantined"}, Become(c, Settled(call, health)),
             NEW r \in Row, act' = [act EXCEPT ![call.a] = r],
             r.plugin = act[call.a].plugin, r.inst = act[call.a].inst, r.health # "starting",
             r.reg <=> health = "healthy", r.proc = "live" => r.client /\ r.reg
      PROVE  ExtInv'
  BY <1>0, <1>4, SettleStep DEF call
<1>5. ASSUME Become(c, Settled(call, "quarantined")), act' = [act EXCEPT ![call.a] = Removed(@)]
      PROVE  ExtInv'
  <2>1. PICK r : r = Removed(act[call.a])
    OBVIOUS
  <2>2. /\ r \in Row /\ r.plugin = act[call.a].plugin /\ r.inst = act[call.a].inst
        /\ r.health = "stopped" /\ ~r.reg /\ r.proc # "live"
    BY <1>3, <2>1, RowsStopped
  <2> QED BY <1>4, <1>5, <2>1, <2>2
<1>6. ASSUME Become(c, Settled(call, "quarantined")), act' = [act EXCEPT ![call.a] = Removed(Quarantined(@))]
      PROVE  ExtInv'
  <2>1. PICK q \in Row : /\ q = Quarantined(act[call.a]) /\ q.plugin = act[call.a].plugin
                         /\ q.inst = act[call.a].inst
    BY <1>3, RowsStopped
  <2>2. PICK r : r = Removed(q)
    OBVIOUS
  <2>3. /\ r \in Row /\ r.plugin = act[call.a].plugin /\ r.inst = act[call.a].inst
        /\ r.health = "stopped" /\ ~r.reg /\ r.proc # "live"
    BY <2>1, <2>2, RowsStopped
  <2> QED BY <1>4, <1>6, <2>1, <2>2, <2>3
<1>7. CASE FinishStart(c)
  <2>1. call.pc = "starting" /\ act[call.a].reg
    BY <1>2, <1>7 DEF FinishStart, call
  <2>2. CASE act' = [act EXCEPT ![call.a] = Started(@)] /\ Become(c, Settled(call, "healthy"))
    <3>1. PICK r : r = Started(act[call.a])
      OBVIOUS
    <3>2. r \in Row
      BY <1>3, <3>1 DEF Started, Row, Persisted
    <3>3. /\ r.plugin = act[call.a].plugin /\ r.inst = act[call.a].inst /\ r.health = "healthy"
          /\ r.reg = act[call.a].reg /\ r.client
      BY <1>3, <3>1 DEF Started, Row
    <3> QED BY <1>4, <2>1, <2>2, <3>1, <3>2, <3>3
  <2>3. CASE \E left \in {"stopping", "late"} :
               /\ act' = [act EXCEPT ![call.a] = NotStarted(@, left)]
               /\ Become(c, Settled(call, "quarantined"))
    <3>1. PICK left \in {"stopping", "late"} :
               /\ act' = [act EXCEPT ![call.a] = NotStarted(@, left)]
               /\ Become(c, Settled(call, "quarantined"))
      BY <2>3
    <3>2. PICK q \in Row : /\ q = Quarantined(act[call.a]) /\ q.plugin = act[call.a].plugin
                           /\ q.inst = act[call.a].inst
      BY <1>3, RowsStopped
    <3>3. PICK e : e = [q EXCEPT !.proc = left]
      OBVIOUS
    <3>4. e \in Row
      BY <3>1, <3>3 DEF Row
    <3>5. e.plugin = q.plugin /\ e.inst = q.inst
      BY <3>3 DEF Row
    <3>6. PICK r : r = Removed(e)
      OBVIOUS
    <3>7. /\ r \in Row /\ r.plugin = act[call.a].plugin /\ r.inst = act[call.a].inst
          /\ r.health = "stopped" /\ ~r.reg /\ r.proc # "live"
      BY <3>2, <3>4, <3>5, <3>6, RowsStopped
    <3>8. act' = [act EXCEPT ![call.a] = r]
      BY <3>1, <3>2, <3>3, <3>6 DEF NotStarted
    <3> QED BY <1>4, <3>1, <3>7, <3>8
  <2> QED BY <1>7, <2>2, <2>3 DEF FinishStart, call
<1>8. CASE Refresh(c)
  <2>1. CASE call.pc = "waiting" /\ Goto(c, "refreshing") /\ UNCHANGED act
    <3>1. PICK m : m = At(call, "refreshing")
      OBVIOUS
    <3>2. m \in Call /\ m.pc = "refreshing" /\ Alike(m, call) /\ Become(c, m)
      BY <1>0, <2>1, <3>1, Moved DEF Steps, Goto, At, call
    <3>3. Orderly(m) /\ AtWork(m) /\ Builds(m) /\ m.op = "snapshot"
      BY <1>0, <3>2 DEF Orderly, Inside, AtWork, Builds, Alike
    <3>4. Building(m)
      BY <1>0, <1>1, <2>1, <3>2, <3>3 DEF Building, Alike
    <3>5. m.seen \in Files /\ \A p \in Plugin : m.read[p] \in Files
      BY <3>2, OwnFiles DEF Alike, call
    <3> QED BY <1>0, <1>1, <2>1, <3>2, <3>3, <3>4, <3>5, HeadMoves DEF call
  <2>2. CASE /\ act' = [act EXCEPT ![call.a] = Removed(@)]
             /\ Become(c, Settled(call, "quarantined"))
    BY <1>5, <2>2
  <2>3. CASE call.pc = "refreshing" /\ Answers(call.a) /\ Become(c, Settled(call, "healthy")) /\ UNCHANGED act
    <3>1. act[call.a].reg /\ act[call.a].client /\ act[call.a].health # "starting"
      BY <1>0, <1>2, <2>3 DEF Answers, Published
    <3>2. act' = [act EXCEPT ![call.a] = act[call.a]]
      BY <1>3, <2>3
    <3> QED BY <1>3, <1>4, <2>3, <3>1, <3>2
  <2>4. CASE /\ act' = [act EXCEPT ![call.a] = Removed(Quarantined(@))]
             /\ Become(c, Settled(call, "quarantined"))
    BY <1>6, <2>4
  <2> QED BY <1>8, <2>1, <2>2, <2>3, <2>4 DEF Refresh, call
<1> QED BY <1>7, <1>8

-----------------------------------------------------------------------------
(* The theorem *)

\* When the Runtime starts, the published plugins run and the file names them.
LEMMA ExtStarts == ExtInit => ExtInv
<1> SUFFICES ASSUME ExtInit PROVE ExtInv
  OBVIOUS
<1>1. /\ FirstPublished \in Seq(FirstInstalled) /\ FirstInstalled \subseteq Plugin
      /\ \A i, j \in First : FirstPublished[i] = FirstPublished[j] => i = j
      /\ {MaxRequests, MaxFaults} \subseteq Nat /\ NoPlugin \notin Plugin
      /\ \A c \in Caller : c # "free"
  BY ExtensionAssumption DEF First, NoPlugin
<1>2. PICK len \in Nat : len = Len(FirstPublished) /\ First = 1 .. len
  BY <1>1, Bounds
<1>3. /\ First \subseteq Activation /\ First \subseteq Instance /\ len \in Instance /\ len \in Activation \cup {0}
      /\ Activation \subseteq Nat \ {0} /\ Instance \subseteq Nat /\ 0 \in Instance
  <2>1. Instance = 0 .. (len + MaxRequests) /\ MaxRequests \in Nat
    BY <1>1, <1>2 DEF Instance
  <2> QED BY <1>2, <2>1, Bounds
<1>4. \A i \in First : FirstPublished[i] \in Plugin
  BY <1>1, <1>2
<1>5. \A p \in Plugin :
        \/ file[p].inst \in First /\ FirstPublished[file[p].inst] = p /\ file[p] \in Entry
        \/ file[p] = NoEntry
  <2> SUFFICES ASSUME NEW p \in Plugin
               PROVE  \/ file[p].inst \in First /\ FirstPublished[file[p].inst] = p /\ file[p] \in Entry
                      \/ file[p] = NoEntry
    OBVIOUS
  <2>1. CASE \E i \in First : FirstPublished[i] = p
    <3>1. PICK i \in First : i = CHOOSE j \in First : FirstPublished[j] = p
      BY <2>1
    <3>2. FirstPublished[i] = p
      BY <2>1, <3>1
    <3>3. file[p] = [inst |-> i, enabled |-> TRUE, health |-> "healthy"]
      BY <2>1, <3>1 DEF ExtInit
    <3> QED BY <1>3, <3>2, <3>3 DEF Entry, Persisted
  <2>2. CASE ~\E i \in First : FirstPublished[i] = p
    BY <2>2 DEF ExtInit
  <2> QED BY <2>1, <2>2
<1>6. NoEntry \in Entry /\ NoEntry.inst = 0 /\ ~NoEntry.enabled
  BY <1>3 DEF NoEntry, Entry, Persisted
<1>7. \A a \in Activation :
        /\ a \in First => act[a] = [plugin |-> FirstPublished[a], inst |-> a, health |-> "healthy",
                                    proc |-> "live", client |-> TRUE, reg |-> TRUE]
        /\ a \notin First => act[a] = Unused
  BY DEF ExtInit
<1>a. ASSUME NEW a \in Activation
      PROVE  /\ a \in First => /\ act[a].plugin = FirstPublished[a] /\ act[a].inst = a
                               /\ act[a].health = "healthy" /\ act[a].client /\ act[a].reg
             /\ a \notin First => /\ act[a].plugin = NoPlugin /\ act[a].inst = 0 /\ ~act[a].reg
                                  /\ act[a].proc = "none"
  <2>1. CASE a \in First
    <3>1. PICK r : r = [plugin |-> FirstPublished[a], inst |-> a, health |-> "healthy",
                        proc |-> "live", client |-> TRUE, reg |-> TRUE]
      OBVIOUS
    <3>2. /\ r.plugin = FirstPublished[a] /\ r.inst = a /\ r.health = "healthy" /\ r.client /\ r.reg
      BY <3>1
    <3>3. act[a] = r
      BY <1>7, <2>1, <3>1, Zenon
    <3> QED BY <2>1, <3>2, <3>3
  <2>2. CASE a \notin First
    <3>1. PICK r : r = Unused
      OBVIOUS
    <3>2. r.plugin = NoPlugin /\ r.inst = 0 /\ ~r.reg /\ r.proc = "none"
      BY <3>1 DEF Unused
    <3>3. act[a] = r
      BY <1>7, <2>2, <3>1, Zenon
    <3> QED BY <2>2, <3>2, <3>3
  <2> QED BY <2>1, <2>2
<1>8. \A a \in Activation : act[a] \in Row
  <2>1. Unused \in Row
    BY <1>3 DEF Unused, Row, Persisted
  <2>2. \A a \in First : [plugin |-> FirstPublished[a], inst |-> a, health |-> "healthy",
                          proc |-> "live", client |-> TRUE, reg |-> TRUE] \in Row
    BY <1>3, <1>4 DEF Row, Persisted
  <2> QED BY <1>7, <2>1, <2>2
<1>9. /\ used.inst = len /\ used.act = len /\ used.requests = 0 /\ used.faults = 0 /\ used \in Counters
  <2>1. used = [inst |-> len, act |-> len, requests |-> 0, faults |-> 0]
    BY <1>2 DEF ExtInit
  <2>2. 0 \in 0 .. MaxRequests /\ 0 \in 0 .. MaxFaults
    BY <1>1
  <2> QED BY <1>3, <2>1, <2>2 DEF Counters
<1>10. /\ calls \in [Caller -> Call] /\ \A c \in Caller : calls[c] = Idle
  BY IdleCall DEF ExtInit
<1>11. ExtTypeOK
  <2>1. file \in File
    BY <1>5, <1>6 DEF ExtInit, File
  <2>2. act \in [Activation -> Row]
    BY <1>8 DEF ExtInit
  <2>3. /\ registry \subseteq Plugin /\ acked \subseteq Plugin /\ current \subseteq Activation
        /\ lock \in Caller \cup {"free", "orphan"} /\ queue \in Seq(Caller)
        /\ store \in [Plugin -> {"absent", "partial", "whole"}]
    BY <1>1, <1>3 DEF ExtInit
  <2> QED BY <1>9, <1>10, <2>1, <2>2, <2>3 DEF ExtTypeOK, Counters
<1>12. /\ Idle.pc = "idle" /\ Idle.op = "none" /\ Idle.next = {} /\ Idle.seen = NoFile
       /\ \A p \in Plugin : Idle.read[p] = NoFile
  BY DEF Idle
<1>13. /\ Orderly(Idle) /\ ~Holding(Idle) /\ ~Queued(Idle) /\ ~AtWork(Idle) /\ ~Builds(Idle)
       /\ Building(Idle) /\ Calling(Idle)
  BY <1>12 DEF Orderly, Holding, Inside, Queued, AtWork, Builds, Building, Calling
<1>14. Registry
  <2>1. RegistrySound /\ \A p \in Plugin : store[p] # "partial"
    BY <1>1 DEF ExtInit, RegistrySound
  <2>2. \A c \in Caller : Locked(c, Idle)
    BY <1>1, <1>12, <1>13 DEF ExtInit, Locked
  <2> QED BY <1>10, <2>1, <2>2 DEF Registry
<1>15. Files = {file, NoFile}
  BY <1>10, <1>12 DEF Files
<1>16. Owned
  <2>1. \A p \in Plugin : NoFile[p] = NoEntry
    BY DEF NoFile
  <2>2. \A i \in Instance \ {0}, p \in Plugin : Named(i, p) => i \in First /\ FirstPublished[i] = p
    <3> SUFFICES ASSUME NEW i \in Instance \ {0}, NEW p \in Plugin, Named(i, p)
                 PROVE  i \in First /\ FirstPublished[i] = p
      OBVIOUS
    <3>1. CASE \E f \in Files : f[p].inst = i
      BY <1>5, <1>6, <1>15, <2>1, <3>1
    <3>2. CASE \E a \in Activation : act[a].inst = i /\ act[a].plugin = p
      BY <1>a, <3>2
    <3> QED BY <3>1, <3>2 DEF Named
  <2>3. \A i \in Instance, p \in Plugin : Named(i, p) => i <= len
    <3>1. \A i \in First : i <= len
      BY <1>2
    <3>2. 0 <= len
      BY <1>2
    <3> QED BY <2>2, <3>1, <3>2
  <2>4. \A f \in Files, p \in Plugin : f[p].enabled => f[p].inst # 0
    BY <1>2, <1>5, <1>6, <1>15, <2>1
  <2> QED BY <1>1, <1>9, <2>2, <2>3, <2>4 DEF Owned
<1>17. \A a \in Activation : (a <= len <=> a \in First) /\ (a > len => a \notin First)
  BY <1>2, <1>3
<1>18. Made
  <2>1. \A a \in First : act[a].plugin \in Plugin /\ act[a].inst # 0
    BY <1>3, <1>4, <1>a
  <2> QED BY <1>7, <1>9, <1>17, <2>1 DEF Made
<1>19. InTurn
  BY <1>10, <1>13 DEF InTurn, ExtInit
<1>20. Published
  <2>1. current = First
    BY DEF ExtInit
  <2>2. \A a \in First : a <= used.act /\ act[a].health # "starting" /\ act[a].plugin = FirstPublished[a] /\ act[a].reg
    BY <1>3, <1>a, <1>9, <1>17
  <2>3. \A a \in Activation : /\ a \notin First => ~act[a].reg /\ act[a].proc # "live"
                              /\ a \in First => act[a].client
    BY <1>a
  <2>4. current = {a \in Activation : act[a].reg}
    BY <1>3, <2>1, <2>2, <2>3
  <2> QED BY <1>1, <2>1, <2>2, <2>3, <2>4 DEF Published
<1> QED BY <1>10, <1>11, <1>13, <1>14, <1>16, <1>18, <1>19, <1>20 DEF ExtInv, Supervised

LEMMA ExtStutters == ExtInv /\ UNCHANGED extVars => ExtInv'
<1> SUFFICES ASSUME ExtInv, UNCHANGED extVars PROVE ExtInv'
  OBVIOUS
<1>1. /\ UNCHANGED <<registry, store, lock, file, act, current, queue, calls, acked, used>>
  BY DEF extVars
<1>2. ExtTypeOK' /\ Registry' /\ \A c \in Caller : Orderly(calls[c])'
  BY <1>1 DEF ExtInv, ExtTypeOK, Registry, RegistrySound, Locked, Holding, Orderly
<1>3. Owned' /\ Made' /\ InTurn'
  BY <1>1 DEF ExtInv, Owned, Named, Files, Made, InTurn, Queued, AtWork
<1>4. Supervised'
  BY <1>1 DEF ExtInv, Supervised, Published, Building, Calling, Builds, AtWork
<1> QED BY <1>2, <1>3, <1>4 DEF ExtInv

LEMMA ExtStep == ExtInv /\ [ExtNext]_extVars => ExtInv'
<1> SUFFICES ASSUME ExtInv, ExtNext PROVE ExtInv'
  BY ExtStutters
<1>1. ASSUME NEW c \in Caller, CallerStep(c) PROVE ExtInv'
  <2>1. CASE RegistryStep(c)
    BY <2>1, RegistrySteps
  <2>2. CASE FileStep(c)
    BY <2>2, FileSteps
  <2>3. CASE QueueStep(c)
    BY <2>3, EnqueueStep, LeaveStep, SelectStep, VerifyStep, UnresolvedStep, ActivateStep,
       StartAndRefreshSteps, PublishStep, DeactivateStep DEF QueueStep
  <2>4. CASE ToolStep(c)
    BY <2>4, ToolSteps, UnpublishStep DEF ToolStep
  <2> QED BY <1>1, <2>1, <2>2, <2>3, <2>4 DEF CallerStep
<1>2. ASSUME NEW c \in Caller, Request(c) \/ CallTool(c) \/ CrashLocked(c) PROVE ExtInv'
  BY <1>2, RequestSteps, RegistrySteps
<1>3. ASSUME NEW a \in Activation, Reap(a) \/ PluginExits(a) PROVE ExtInv'
  BY <1>3, ProcessSteps
<1> QED BY <1>1, <1>2, <1>3 DEF ExtNext

\* What the invariant says when nobody is in the queue, and of what runs.
LEMMA ExtSound == ExtInv => PluginsSound
<1> SUFFICES ASSUME ExtInv PROVE PluginsSound
  OBVIOUS
<1>0. /\ ExtTypeOK /\ RegistrySound /\ Owned /\ Made /\ InTurn /\ Published
      /\ \A c \in Caller : Building(calls[c])
  BY DEF ExtInv, Registry, Supervised
<1>1. act \in [Activation -> Row] /\ current \subseteq Activation
  BY Numbers
<1>2. SupervisorAgrees
  <2> SUFFICES ASSUME queue = <<>>
               PROVE  /\ current = {a \in Activation : act[a].reg}
                      /\ \A a, b \in current : act[a].inst = act[b].inst => a = b
    BY DEF SupervisorAgrees
  <2>1. \A c \in Caller : ~Builds(calls[c])
    BY <1>0 DEF InTurn, Queued, Builds
  <2>2. current = {a \in Activation : act[a].reg}
    BY <1>0, <2>1 DEF Published
  <2>3. ASSUME NEW a \in current, NEW b \in current, act[a].inst = act[b].inst PROVE a = b
    <3>1. /\ a \in Activation /\ b \in Activation /\ act[a].plugin \in Plugin /\ act[b].plugin \in Plugin
          /\ act[a].inst # 0
      BY <1>0, <1>1 DEF Published, Made
    <3>2. act[a].inst \in Instance
      BY <1>1, <3>1 DEF Row
    <3>3. Named(act[a].inst, act[a].plugin) /\ Named(act[a].inst, act[b].plugin)
      BY <2>3, <3>1 DEF Named
    <3>4. act[a].plugin = act[b].plugin
      BY <1>0, <3>1, <3>2, <3>3 DEF Owned
    <3> QED BY <1>0, <3>4 DEF Published
  <2> QED BY <2>2, <2>3
<1>3. RunningIsPublished
  <2> SUFFICES ASSUME NEW a \in Activation, act[a].proc = "live"
               PROVE  act[a].client /\ a \in current \cup UNION {calls[c].next : c \in Caller}
    BY DEF RunningIsPublished
  <2>1. act[a].client /\ act[a].reg
    BY <1>0 DEF Published
  <2>2. CASE \A c \in Caller : ~Builds(calls[c])
    BY <1>0, <2>1, <2>2 DEF Published
  <2>3. CASE \E c \in Caller : Builds(calls[c])
    <3>1. PICK c \in Caller : Builds(calls[c])
      BY <2>3
    <3>2. a \in current \cup calls[c].next
      BY <1>0, <2>1, <3>1 DEF Building
    <3> QED BY <2>1, <3>2
  <2> QED BY <2>2, <2>3
<1> QED BY <1>0, <1>2, <1>3 DEF PluginsSound

\* Whatever requests, crashes and dead processes there are, no answered installation is
\* lost, what is published between two turns of the queue is what the supervisor knows,
\* and nothing runs that nobody can stop (installationService, processActivationService).
THEOREM PluginsAreSound == ExtSpec => []PluginsSound
<1>1. ExtInit => ExtInv
  BY ExtStarts
<1>2. ExtInv /\ [ExtNext]_extVars => ExtInv'
  BY ExtStep
<1>3. ExtInv => PluginsSound
  BY ExtSound
<1> QED BY <1>1, <1>2, <1>3, PTL DEF ExtSpec

-----------------------------------------------------------------------------
(* The client: the inductive invariant *)

Note == [seq : Nat, run : Prompt, nth : 1 .. RunLength]
Events == Seq(1 .. RunLength)
Asking == {"idle", "dialing", "sent", "accepted", "consuming", "done"}
Ask == [pc : Asking, chan : Events, open : BOOLEAN, failed : BOOLEAN, seen : 0 .. RunLength,
        early : Events, overflow : BOOLEAN, ignored : BOOLEAN,
        out : {"none", "rejected", "terminal", "failed", "ended", "left"}]

Connections == [state : {"open", "failed", "closed"}, notes : Seq(Note), replay : Seq(Note)]
Pumps == [pc : {"reading", "reconnecting", "ended", "failed"}, tries : 0 .. Attempts]
Links == {"open", "closing", "connecting", "none"}
Listening == {"open", "ended", "failed"}

ClientShape ==
  /\ runtime \in [id : Nat \ {0}, log : Seq(Note)]
  /\ home \in [Prompt -> Nat] /\ emitted \in [Prompt -> 0 .. RunLength]
  /\ conn \in Connections
  /\ link \in Links
  /\ cursor \in [seq : Nat, runtime : Nat]
  /\ pump \in Pumps
  /\ prompt \in [Prompt -> Ask]
  /\ listener \in Listening

\* The events of a run among the first of a log.
Of(log, p, i) == {k \in 1 .. i : log[k].run = p}
Count(log, p, i) == Cardinality(Of(log, p, i))

\* The log of the Runtime has its own runs, each from its first event on.
Logged ==
  /\ \A i \in 1 .. Len(runtime.log) :
       LET note == runtime.log[i] IN
       note.seq = i /\ note.nth = Count(runtime.log, note.run, i) /\ home[note.run] = runtime.id
  /\ \A p \in Prompt : home[p] <= runtime.id /\ (home[p] = 0 => emitted[p] = 0)
  /\ \A p \in Prompt : home[p] = runtime.id => emitted[p] = Count(runtime.log, p, Len(runtime.log))

\* What is on its way is in the log.
Noted(log, s) == \A i \in 1 .. Len(s) : s[i].seq \in 1 .. Len(log) /\ s[i] = log[s[i].seq]

Linked ==
  /\ Noted(runtime.log, conn.notes) /\ Noted(runtime.log, conn.replay)
  /\ cursor.runtime = runtime.id /\ cursor.seq <= Len(runtime.log)
  /\ conn.state = "open" => link = "open"

\* What came early is the run so far, while the stream lives and has not been too fast.
Early(p, q) ==
  pump.pc \in {"reading", "reconnecting"} /\ ~q.overflow =>
    Len(q.early) = Count(runtime.log, p, cursor.seq) /\ \A i \in 1 .. Len(q.early) : q.early[i] = i

\* A prompt before its answer, and after it.
Unanswered(p, q) ==
  /\ ~q.open /\ ~q.ignored /\ q.chan = <<>> /\ q.seen = 0
  /\ q.pc # "accepted" => home[p] = 0 /\ q.early = <<>> /\ ~q.overflow
  /\ q.pc = "accepted" => home[p] = runtime.id /\ Early(p, q)
  /\ q.pc \in {"sent", "accepted"} => conn.state = "open"

Channel(p, q) ==
  /\ Len(q.chan) <= Capacity /\ Len(q.early) <= Capacity
  /\ q.seen + Len(q.chan) <= RunLength /\ \A i \in 1 .. Len(q.chan) : q.chan[i] = q.seen + i
  /\ q.open => /\ q.pc = "consuming" /\ ~q.ignored /\ q.seen + Len(q.chan) < RunLength
               /\ home[p] # 0
               /\ home[p] = runtime.id => q.seen + Len(q.chan) = Count(runtime.log, p, cursor.seq)
  /\ q.out = "terminal" => q.seen = RunLength

Asked(p, q) ==
  Channel(p, q) /\ (q.pc \in {"idle", "dialing", "sent", "accepted"} => Unanswered(p, q))

ClientInv == ClientShape /\ Logged /\ Linked /\ \A p \in Prompt : Asked(p, prompt[p])

-----------------------------------------------------------------------------
(* Channels *)

LEMMA ClientNumbers ==
  /\ RunLength \in Nat \ {0} /\ Capacity \in Nat /\ Attempts \in Nat /\ IsFiniteSet(Prompt)
  /\ 0 \in 0 .. RunLength /\ 0 \in 0 .. Attempts
BY ClientAssumption

LEMMA EmptyChannel == <<>> \in Events /\ <<>> \in Seq(Note)
BY DEF Events

LEMMA FreshAsk == Fresh \in Ask /\ Fresh.pc = "idle" /\ ~Fresh.open /\ ~Fresh.ignored /\ Fresh.chan = <<>>
                  /\ Fresh.seen = 0 /\ Fresh.early = <<>> /\ ~Fresh.overflow /\ Fresh.out = "none"
BY ClientNumbers, EmptyChannel DEF Fresh, Ask, Asking

\* A prompt that was told less, or ended, or moved on without an answer.
Quieter(q, r) ==
  /\ r \in Ask /\ r.seen = q.seen
  /\ r.chan = q.chan \/ (r.chan = <<>> /\ ~r.open)
  /\ r.open => q.open /\ r.pc = q.pc
  /\ r.early = q.early \/ r.early = <<>>
  /\ r.ignored => q.ignored
  /\ r.overflow => q.overflow
  /\ \/ r.pc = q.pc \/ r.pc = "done"
     \/ q.pc = "dialing" /\ r.pc = "sent"
     \/ q.pc = "idle" /\ r.pc \in {"dialing", "sent"}
  /\ r.out = q.out \/ r.out = "rejected"

LEMMA QuieterChain ==
  ASSUME NEW q \in Ask, NEW r, NEW s, Quieter(q, r), Quieter(r, s), r.pc \in {q.pc, "done"}
  PROVE  Quieter(q, s)
BY DEF Quieter

LEMMA CompletedIsQuieter ==
  ASSUME NEW q \in Ask
  PROVE  /\ Quieter(q, q) /\ Quieter(q, Completed(q)) /\ Completed(q).pc = q.pc /\ ~Completed(q).open
         /\ Completed(q).chan = q.chan /\ Completed(q).early = q.early
         /\ Completed(q).overflow = q.overflow /\ Completed(q).ignored = q.ignored
         /\ Completed(q).out = q.out
<1>1. Quieter(q, q)
  BY DEF Quieter
<1>2. PICK r : r = [q EXCEPT !.open = FALSE]
  OBVIOUS
<1>3. r \in Ask
  BY <1>2, EmptyChannel DEF Ask
<1>4. /\ r.seen = q.seen /\ r.chan = q.chan /\ r.early = q.early /\ r.ignored = q.ignored /\ r.overflow = q.overflow
      /\ r.pc = q.pc /\ r.out = q.out /\ ~r.open
  BY <1>2 DEF Ask
<1>5. Completed(q) = IF q.open THEN r ELSE q
  BY <1>2 DEF Completed
<1> QED BY <1>1, <1>3, <1>4, <1>5 DEF Quieter

LEMMA FailedIsQuieter ==
  ASSUME NEW q \in Ask
  PROVE  Quieter(q, Failed(q)) /\ Failed(q).pc = q.pc /\ ~Failed(q).open
<1>1. Quieter(q, q)
  BY DEF Quieter
<1>2. PICK r : r = [q EXCEPT !.open = FALSE, !.failed = TRUE, !.chan = <<>>]
  OBVIOUS
<1>3. r \in Ask
  BY <1>2, EmptyChannel DEF Ask
<1>4. /\ r.seen = q.seen /\ r.chan = <<>> /\ r.early = q.early /\ r.ignored = q.ignored /\ r.overflow = q.overflow
      /\ r.pc = q.pc /\ r.out = q.out /\ ~r.open
  BY <1>2 DEF Ask
<1>5. Failed(q) = IF q.open THEN r ELSE q
  BY <1>2 DEF Failed
<1> QED BY <1>1, <1>3, <1>4, <1>5 DEF Quieter

\* The end of the stream, for every channel.
LEMMA EndIsQuieter ==
  ASSUME prompt \in [Prompt -> Ask], NEW failing \in BOOLEAN
  PROVE  /\ EndAll(failing) \in [Prompt -> Ask]
         /\ \A p \in Prompt : Quieter(prompt[p], EndAll(failing)[p]) /\ EndAll(failing)[p].pc = prompt[p].pc
<1> SUFFICES ASSUME NEW p \in Prompt
             PROVE  /\ EndAll(failing)[p] \in Ask
                    /\ Quieter(prompt[p], EndAll(failing)[p]) /\ EndAll(failing)[p].pc = prompt[p].pc
  BY DEF EndAll
<1>1. PICK q \in Ask : q = prompt[p]
  OBVIOUS
<1>2. PICK r : r = IF failing THEN Failed(q) ELSE Completed(q)
  OBVIOUS
<1>3. Quieter(q, r) /\ r.pc = q.pc /\ ~r.open /\ r \in Ask
  BY <1>2, CompletedIsQuieter, FailedIsQuieter DEF Quieter
<1>4. PICK s : s = [r EXCEPT !.early = <<>>, !.overflow = FALSE, !.ignored = FALSE]
  OBVIOUS
<1>5. s \in Ask
  BY <1>3, <1>4, EmptyChannel DEF Ask
<1>6. /\ s.seen = r.seen /\ s.chan = r.chan /\ s.early = <<>> /\ ~s.ignored /\ ~s.overflow
      /\ s.pc = r.pc /\ s.out = r.out /\ s.open = r.open
  BY <1>3, <1>4 DEF Ask
<1>7. Quieter(q, s)
  BY <1>3, <1>5, <1>6 DEF Quieter
<1>8. EndAll(failing)[p] = s
  BY <1>1, <1>2, <1>4 DEF EndAll
<1> QED BY <1>1, <1>3, <1>5, <1>6, <1>7, <1>8

\* The end of a connection, for every request.
LEMMA RejectedIsQuieter ==
  ASSUME NEW ps \in [Prompt -> Ask], \A p \in Prompt : ps[p].open => ps[p].pc = "consuming"
  PROVE  /\ Rejected(ps) \in [Prompt -> Ask]
         /\ \A p \in Prompt : /\ Quieter(ps[p], Rejected(ps)[p])
                              /\ Rejected(ps)[p].pc \notin {"dialing", "sent", "accepted"}
                              /\ Rejected(ps)[p].pc \in {ps[p].pc, "done"}
<1> SUFFICES ASSUME NEW p \in Prompt
             PROVE  /\ Rejected(ps)[p] \in Ask
                    /\ Quieter(ps[p], Rejected(ps)[p])
                    /\ Rejected(ps)[p].pc \notin {"dialing", "sent", "accepted"}
                    /\ Rejected(ps)[p].pc \in {ps[p].pc, "done"}
  BY DEF Rejected, Discarded
<1>1. PICK q \in Ask : q = ps[p]
  OBVIOUS
<1>2. PICK e : e = [q EXCEPT !.pc = "done", !.out = "rejected"]
  OBVIOUS
<1>3. e \in Ask
  BY <1>2 DEF Ask, Asking
<1>4. /\ e.seen = q.seen /\ e.chan = q.chan /\ e.early = q.early /\ e.ignored = q.ignored /\ e.overflow = q.overflow
      /\ e.pc = "done" /\ e.out = "rejected" /\ e.open = q.open
  BY <1>2 DEF Ask
<1>5. PICK r : r = IF q.pc \in {"dialing", "sent", "accepted"} THEN e ELSE q
  OBVIOUS
<1>6. r \in Ask /\ r.pc \notin {"dialing", "sent", "accepted"} /\ r.pc \in {q.pc, "done"}
  BY <1>3, <1>4, <1>5
<1>7. PICK s : s = [r EXCEPT !.early = <<>>, !.overflow = FALSE]
  OBVIOUS
<1>8. s \in Ask
  BY ONLY <1>6, <1>7, EmptyChannel DEF Ask
<1>9. /\ s.seen = r.seen /\ s.chan = r.chan /\ s.early = <<>> /\ s.ignored = r.ignored /\ ~s.overflow
      /\ s.pc = r.pc /\ s.out = r.out /\ s.open = r.open
  BY <1>6, <1>7 DEF Ask
<1>10. Rejected(ps)[p] = s
  BY <1>1, <1>2, <1>5, <1>7 DEF Rejected, Discarded
<1>11. Quieter(q, s)
  BY <1>1, <1>4, <1>5, <1>6, <1>8, <1>9 DEF Quieter
<1> QED BY <1>1, <1>6, <1>8, <1>9, <1>10, <1>11

-----------------------------------------------------------------------------
(* Counting the events of a run *)

LEMMA CountIsNat ==
  ASSUME NEW log, NEW p, NEW i \in Nat
  PROVE  IsFiniteSet(Of(log, p, i)) /\ Count(log, p, i) \in Nat
<1>1. IsFiniteSet(1 .. i)
  BY FS_Interval
<1>2. Of(log, p, i) \in SUBSET (1 .. i)
  BY DEF Of
<1>3. IsFiniteSet(Of(log, p, i))
  BY <1>1, <1>2, FS_Subset
<1> QED BY <1>3, FS_CardinalityType DEF Count

LEMMA CountNone ==
  ASSUME NEW log, NEW p, NEW i \in Nat, \A k \in 1 .. i : log[k].run # p
  PROVE  Count(log, p, i) = 0
BY FS_EmptySet DEF Count, Of

LEMMA CountNext ==
  ASSUME NEW log, NEW p, NEW i \in Nat
  PROVE  Count(log, p, i + 1) = IF log[i + 1].run = p THEN Count(log, p, i) + 1 ELSE Count(log, p, i)
<1>1. 1 .. (i + 1) = (1 .. i) \cup {i + 1} /\ i + 1 \notin 1 .. i
  OBVIOUS
<1>2. IsFiniteSet(Of(log, p, i)) /\ i + 1 \notin Of(log, p, i)
  BY <1>1, CountIsNat DEF Of
<1>3. CASE log[i + 1].run = p
  <2>1. Of(log, p, i + 1) = Of(log, p, i) \cup {i + 1}
    BY <1>1, <1>3 DEF Of
  <2> QED BY <1>2, <1>3, <2>1, FS_AddElement DEF Count
<1>4. CASE log[i + 1].run # p
  <2>1. Of(log, p, i + 1) = Of(log, p, i)
    BY <1>1, <1>4 DEF Of
  <2> QED BY <1>4, <2>1 DEF Count
<1> QED BY <1>3, <1>4

LEMMA CountAppend ==
  ASSUME NEW log \in Seq(Note), NEW note \in Note, NEW p, NEW i \in 0 .. Len(log)
  PROVE  Count(Append(log, note), p, i) = Count(log, p, i)
<1>1. \A k \in 1 .. i : Append(log, note)[k] = log[k]
  OBVIOUS
<1>2. Of(Append(log, note), p, i) = Of(log, p, i)
  BY <1>1 DEF Of
<1> QED BY <1>2 DEF Count

\* An event later in the log is later in its run.
LEMMA CountGrows ==
  ASSUME NEW log, NEW i \in Nat, NEW j \in Nat, i < j, NEW p, log[j].run = p
  PROVE  Count(log, p, i) < Count(log, p, j)
<1>1. Of(log, p, i) \in SUBSET Of(log, p, j) /\ j \in Of(log, p, j) /\ j \notin Of(log, p, i)
  <2>1. 1 .. i \subseteq 1 .. j /\ j \in 1 .. j /\ j \notin 1 .. i
    OBVIOUS
  <2> QED BY <2>1 DEF Of
<1>2. Count(log, p, i) \in Nat /\ Count(log, p, j) \in Nat /\ IsFiniteSet(Of(log, p, j))
  BY CountIsNat
<1>3. /\ Cardinality(Of(log, p, i)) <= Cardinality(Of(log, p, j))
      /\ Cardinality(Of(log, p, j)) = Cardinality(Of(log, p, i)) => Of(log, p, j) = Of(log, p, i)
  BY <1>1, <1>2, FS_Subset
<1>4. Count(log, p, i) # Count(log, p, j)
  BY <1>1, <1>3 DEF Count
<1>5. Count(log, p, i) <= Count(log, p, j)
  BY <1>3 DEF Count
<1> QED BY <1>2, <1>4, <1>5

-----------------------------------------------------------------------------
(* The steps keep the invariant *)

Live(state) == state \in {"reading", "reconnecting"}

\* The parts of Channel that are about the prompt alone.
LEMMA QuieterBounds ==
  ASSUME NEW p \in Prompt, NEW q \in Ask, NEW r, Channel(p, q), Quieter(q, r)
  PROVE  /\ Len(r.chan) <= Capacity /\ Len(r.early) <= Capacity
         /\ r.seen + Len(r.chan) <= RunLength /\ \A i \in 1 .. Len(r.chan) : r.chan[i] = r.seen + i
<1>1. Len(<<>>) = 0 /\ q.seen \in 0 .. RunLength /\ RunLength \in Nat /\ Capacity \in Nat
  BY ClientNumbers DEF Ask
<1>2. /\ Len(q.chan) <= Capacity /\ Len(q.early) <= Capacity
      /\ q.seen + Len(q.chan) <= RunLength /\ \A i \in 1 .. Len(q.chan) : q.chan[i] = q.seen + i
  BY DEF Channel
<1>3. r.seen = q.seen /\ (r.early = q.early \/ r.early = <<>>)
  BY DEF Quieter
<1>4. CASE r.chan = q.chan
  BY <1>1, <1>2, <1>3, <1>4
<1>5. CASE r.chan = <<>>
  BY <1>1, <1>2, <1>3, <1>5
<1> QED BY <1>4, <1>5 DEF Quieter

\* A prompt that hears nothing new, from the same Runtime.
LEMMA QuieterChannel ==
  ASSUME ClientInv, NEW p \in Prompt, NEW r, Quieter(prompt[p], r),
         runtime' = runtime, home' = home, cursor' = cursor
  PROVE  Channel(p, r)'
<1>1. PICK q : q = prompt[p]
  OBVIOUS
<1>2. Channel(p, q) /\ Quieter(q, r) /\ q \in Ask
  BY <1>1 DEF ClientInv, ClientShape, Asked
<1>5. /\ Len(r.chan) <= Capacity /\ Len(r.early) <= Capacity
      /\ r.seen + Len(r.chan) <= RunLength /\ \A i \in 1 .. Len(r.chan) : r.chan[i] = r.seen + i
  BY <1>2, QuieterBounds
<1>6. r.open => r.chan = q.chan /\ q.open /\ r.pc = q.pc /\ r.seen = q.seen /\ ~r.ignored
  BY <1>2 DEF Channel, Quieter
<1>7. r.out = "terminal" => r.seen = RunLength
  BY <1>2 DEF Channel, Quieter
<1> QED BY <1>2, <1>5, <1>6, <1>7 DEF Channel

LEMMA QuietStep ==
  ASSUME ClientInv, UNCHANGED <<runtime, home, emitted, cursor>>,
         conn' \in Connections,
         Noted(runtime.log, conn'.notes), Noted(runtime.log, conn'.replay),
         link' \in Links, conn'.state = "open" => link' = "open",
         pump' \in Pumps,
         Live(pump'.pc) => Live(pump.pc),
         listener' \in Listening,
         prompt' \in [Prompt -> Ask],
         \A p \in Prompt : Quieter(prompt[p], prompt'[p]),
         \A p \in Prompt : prompt'[p].pc \in {"sent", "accepted"} => conn'.state = "open",
         \A p \in Prompt : prompt'[p].pc = "accepted" /\ Live(pump'.pc) =>
            prompt'[p].early = prompt[p].early /\ prompt'[p].overflow = prompt[p].overflow
  PROVE  ClientInv'
<1>1. ClientShape'
  BY DEF ClientInv, ClientShape
<1>2. Logged' /\ Linked'
  BY DEF ClientInv, Logged, Linked
<1>3. ASSUME NEW p \in Prompt
      PROVE  Asked(p, prompt[p])'
  <2>1. PICK q : q = prompt[p]
    OBVIOUS
  <2>2. PICK r : r = prompt'[p]
    OBVIOUS
  <2>3. Quieter(q, r) /\ Asked(p, q)
    BY <2>1, <2>2 DEF ClientInv
  <2>4. Channel(p, r)'
    BY <2>1, <2>3, QuieterChannel
  <2>5. ASSUME r.pc \in {"idle", "dialing", "sent", "accepted"}
        PROVE  Unanswered(p, r)'
    <3>1. q.pc \in {"idle", "dialing", "sent", "accepted"} /\ (r.pc = "accepted" <=> q.pc = "accepted")
      BY <2>3, <2>5 DEF Quieter
    <3>2. Unanswered(p, q)
      BY <2>3, <3>1 DEF Asked
    <3>3. ~r.open /\ ~r.ignored /\ r.chan = <<>> /\ r.seen = 0
      BY <2>3, <3>2 DEF Quieter, Unanswered
    <3>4. r.pc # "accepted" => home[p] = 0 /\ r.early = <<>> /\ ~r.overflow
      BY <2>3, <3>1, <3>2 DEF Quieter, Unanswered
    <3>5. r.pc = "accepted" => home[p] = runtime.id /\ Early(p, r)'
      BY <2>1, <2>2, <3>1, <3>2 DEF Unanswered, Early, Live
    <3> QED BY <2>2, <3>3, <3>4, <3>5 DEF Unanswered
  <2> QED BY <2>2, <2>4, <2>5 DEF Asked
<1> QED BY <1>1, <1>2, <1>3 DEF ClientInv

LEMMA Prompts ==
  ASSUME ClientInv, NEW p \in Prompt
  PROVE  /\ prompt[p] \in Ask /\ Asked(p, prompt[p]) /\ Quieter(prompt[p], prompt[p])
         /\ prompt[p].open => prompt[p].pc = "consuming"
         /\ prompt[p].pc \in {"sent", "accepted"} => conn.state = "open"
<1>1. prompt[p] \in Ask /\ Asked(p, prompt[p])
  BY DEF ClientInv, ClientShape
<1> QED BY <1>1, CompletedIsQuieter DEF Asked, Channel, Unanswered

\* The end of the stream.
LEMMA EndStep ==
  ASSUME ClientInv, UNCHANGED <<runtime, home, emitted, cursor, conn, link>>,
         pump' \in Pumps,
         ~Live(pump'.pc), listener' \in Listening,
         NEW failing \in BOOLEAN, prompt' = EndAll(failing)
  PROVE  ClientInv'
<1>1. conn \in Connections
  BY DEF ClientInv, ClientShape
<1>2. /\ Noted(runtime.log, conn.notes) /\ Noted(runtime.log, conn.replay)
      /\ link \in Links
      /\ conn.state = "open" => link = "open"
  BY DEF ClientInv, ClientShape, Linked
<1>3. prompt \in [Prompt -> Ask]
  BY DEF ClientInv, ClientShape
<1>4. prompt' \in [Prompt -> Ask]
  BY <1>3, EndIsQuieter
<1>5. \A p \in Prompt : Quieter(prompt[p], prompt'[p]) /\ prompt'[p].pc = prompt[p].pc
  BY <1>3, EndIsQuieter
<1>6. \A p \in Prompt : prompt'[p].pc \in {"sent", "accepted"} => conn'.state = "open"
  BY <1>5, Prompts
<1>7. /\ conn' \in Connections
      /\ Noted(runtime.log, conn'.notes) /\ Noted(runtime.log, conn'.replay)
      /\ link' \in Links
      /\ conn'.state = "open" => link' = "open"
  BY <1>1, <1>2
<1>8. \A p \in Prompt : Quieter(prompt[p], prompt'[p])
  BY <1>5
<1> QED BY <1>4, <1>6, <1>7, <1>8, QuietStep

\* A step that only changes what the client does about its connection.
LEMMA SilentStep ==
  ASSUME ClientInv, UNCHANGED <<runtime, home, emitted, cursor, prompt, listener>>,
         conn' \in Connections,
         conn'.state = conn.state,
         Noted(runtime.log, conn'.notes), Noted(runtime.log, conn'.replay),
         link' \in Links, conn'.state = "open" => link' = "open",
         pump' \in Pumps,
         Live(pump'.pc) => Live(pump.pc)
  PROVE  ClientInv'
<1>1. prompt' \in [Prompt -> Ask] /\ listener' \in Listening
  BY DEF ClientInv, ClientShape
<1>2. \A p \in Prompt : /\ Quieter(prompt[p], prompt'[p])
                        /\ prompt'[p].pc \in {"sent", "accepted"} => conn'.state = "open"
                        /\ prompt'[p].early = prompt[p].early /\ prompt'[p].overflow = prompt[p].overflow
  BY Prompts
<1> QED BY <1>1, <1>2, QuietStep

LEMMA Unlinked ==
  ASSUME ClientInv
  PROVE  /\ conn \in Connections
         /\ Noted(runtime.log, conn.notes) /\ Noted(runtime.log, conn.replay)
         /\ link \in Links
         /\ conn.state = "open" => link = "open"
         /\ pump \in Pumps
         /\ listener \in Listening
         /\ prompt \in [Prompt -> Ask]
         /\ cursor.seq \in Nat /\ runtime.log \in Seq(Note) /\ cursor.seq <= Len(runtime.log)
BY DEF ClientInv, ClientShape, Linked

LEMMA NotedTogether ==
  ASSUME NEW log, NEW s \in Seq(Note), NEW t \in Seq(Note), Noted(log, s), Noted(log, t)
  PROVE  Noted(log, s \o t)
<1> SUFFICES ASSUME NEW i \in 1 .. Len(s \o t)
             PROVE  (s \o t)[i].seq \in 1 .. Len(log) /\ (s \o t)[i] = log[(s \o t)[i].seq]
  BY DEF Noted
<1>1. CASE i <= Len(s)
  <2>1. (s \o t)[i] = s[i] /\ i \in 1 .. Len(s)
    BY <1>1
  <2> QED BY <2>1 DEF Noted
<1>2. CASE i > Len(s)
  <2>1. PICK j \in 1 .. Len(t) : j = i - Len(s)
    <3>1. Len(s) \in Nat /\ Len(t) \in Nat /\ Len(s \o t) = Len(s) + Len(t)
      OBVIOUS
    <3>2. i \in Int /\ i <= Len(s) + Len(t)
      BY <3>1
    <3>3. i - Len(s) \in 1 .. Len(t)
      BY ONLY <1>2, <3>1, <3>2
    <3> QED BY <3>3
  <2>2. (s \o t)[i] = t[j]
    BY <1>2, <2>1
  <2> QED BY <2>2 DEF Noted
<1> QED BY <1>1, <1>2

LEMMA ReplayStep ==
  ASSUME ClientInv, Replay
  PROVE  ClientInv'
<1> USE Unlinked DEF Connections
<1>1. PICK n : n = conn.notes \o conn.replay
  OBVIOUS
<1>2. n \in Seq(Note) /\ Noted(runtime.log, n) /\ Noted(runtime.log, <<>>)
  <2>1. PICK s \in Seq(Note), t \in Seq(Note) : s = conn.notes /\ t = conn.replay
    OBVIOUS
  <2>2. Noted(runtime.log, s) /\ Noted(runtime.log, t)
    BY <2>1
  <2>3. n = s \o t
    BY <1>1, <2>1
  <2>4. n \in Seq(Note)
    BY ONLY <2>3, s \in Seq(Note), t \in Seq(Note)
  <2>5. Noted(runtime.log, n)
    BY ONLY <2>2, <2>3, NotedTogether
  <2> QED BY <2>4, <2>5 DEF Noted
<1>3. conn' = [conn EXCEPT !.notes = n, !.replay = <<>>]
  BY <1>1 DEF Replay
<1>4. conn' \in Connections
  BY <1>2, <1>3, EmptyChannel
<1>5. conn'.notes = n /\ conn'.replay = <<>> /\ conn'.state = conn.state
  BY <1>3
<1> QED BY <1>2, <1>4, <1>5, SilentStep DEF Replay

LEMMA StreamEndsStep ==
  ASSUME ClientInv, StreamEnds \/ StreamFails
  PROVE  ClientInv'
<1> USE Unlinked DEF Pumps, Listening
<1>1. CASE StreamEnds
  <2>1. pump' \in Pumps /\ ~Live(pump'.pc)
    BY <1>1 DEF StreamEnds, Live
  <2> QED BY <1>1, <2>1, EndStep DEF StreamEnds
<1>2. CASE StreamFails /\ pump.tries < Attempts
  <2>1. pump.tries + 1 \in 0 .. Attempts /\ Live(pump.pc)
    BY <1>2, ClientNumbers DEF Live, StreamFails
  <2>2. pump' \in Pumps
    BY <1>2, <2>1 DEF StreamFails
  <2> QED BY <1>2, <2>1, <2>2, SilentStep DEF StreamFails
<1>3. CASE StreamFails /\ ~(pump.tries < Attempts)
  <2>1. pump' \in Pumps /\ ~Live(pump'.pc)
    BY <1>3 DEF StreamFails, Live
  <2> QED BY <1>3, <2>1, EndStep DEF StreamFails
<1> QED BY <1>1, <1>2, <1>3

LEMMA SendPromptStep ==
  ASSUME ClientInv, NEW p \in Prompt, SendPrompt(p)
  PROVE  ClientInv'
<1> USE Unlinked
<1>1. PICK q \in Ask : q = prompt[p]
  BY Prompts
<1>2. q.pc = "idle"
  BY <1>1 DEF SendPrompt
<1>3. PICK r \in Ask :
        /\ prompt' = [prompt EXCEPT ![p] = r]
        /\ r.seen = q.seen /\ r.chan = q.chan /\ r.early = q.early /\ r.ignored = q.ignored
        /\ r.overflow = q.overflow /\ r.open = q.open
        /\ r.pc \in {"dialing", "sent", "done"} /\ r.out \in {q.out, "rejected"}
        /\ r.pc = "sent" => conn.state = "open"
  <2>1. PICK d : d = [q EXCEPT !.pc = "dialing"]
    OBVIOUS
  <2>2. PICK s : s = [q EXCEPT !.pc = "sent"]
    OBVIOUS
  <2>3. PICK e : e = [q EXCEPT !.pc = "done", !.out = "rejected"]
    OBVIOUS
  <2>4. d \in Ask /\ s \in Ask /\ e \in Ask
    BY <2>1, <2>2, <2>3 DEF Ask, Asking
  <2>5. /\ d.seen = q.seen /\ d.chan = q.chan /\ d.early = q.early /\ d.ignored = q.ignored
        /\ d.overflow = q.overflow /\ d.open = q.open /\ d.pc = "dialing" /\ d.out = q.out
    BY <2>1 DEF Ask
  <2>6. /\ s.seen = q.seen /\ s.chan = q.chan /\ s.early = q.early /\ s.ignored = q.ignored
        /\ s.overflow = q.overflow /\ s.open = q.open /\ s.pc = "sent" /\ s.out = q.out
    BY <2>2 DEF Ask
  <2>7. /\ e.seen = q.seen /\ e.chan = q.chan /\ e.early = q.early /\ e.ignored = q.ignored
        /\ e.overflow = q.overflow /\ e.open = q.open /\ e.pc = "done" /\ e.out = "rejected"
    BY <2>3 DEF Ask
  <2>8. \/ prompt' = [prompt EXCEPT ![p] = d] \/ prompt' = [prompt EXCEPT ![p] = e]
        \/ conn.state = "open" /\ prompt' = [prompt EXCEPT ![p] = s]
    <3>1. CASE link \in {"none", "connecting"}
      BY <1>1, <2>1, <3>1 DEF SendPrompt
    <3>2. CASE link \in {"open", "closing"} /\ conn.state = "open"
      BY <1>1, <2>2, <3>2 DEF SendPrompt
    <3>3. CASE link \notin {"none", "connecting"} /\ ~(link \in {"open", "closing"} /\ conn.state = "open")
      BY <1>1, <2>3, <3>3 DEF SendPrompt
    <3> QED BY <3>1, <3>2, <3>3
  <2> QED BY <2>4, <2>5, <2>6, <2>7, <2>8
<1>4. Quieter(q, r)
  <2>1. ~q.open
    BY <1>1, <1>2, Prompts
  <2> QED BY <1>2, <1>3, <2>1 DEF Quieter
<1>5. prompt' \in [Prompt -> Ask] /\ \A s \in Prompt : s # p => prompt'[s] = prompt[s]
  BY <1>3
<1>6. prompt'[p] = r
  BY <1>3
<1>7. \A s \in Prompt : /\ Quieter(prompt[s], prompt'[s])
                        /\ prompt'[s].pc \in {"sent", "accepted"} => conn.state = "open"
                        /\ prompt'[s].early = prompt[s].early /\ prompt'[s].overflow = prompt[s].overflow
  BY <1>1, <1>3, <1>4, <1>5, <1>6, Prompts
<1>8. UNCHANGED <<runtime, home, emitted, cursor, conn, link, pump, listener>>
  BY DEF SendPrompt
<1>9. conn' \in Connections /\ Noted(runtime.log, conn'.notes) /\ Noted(runtime.log, conn'.replay)
  BY <1>8
<1> QED BY <1>5, <1>7, <1>8, <1>9, QuietStep

\* A stream that fails because it was not continued.
LEMMA DeliverNothingStep ==
  ASSUME ClientInv, Deliver, Head(conn.notes).seq # cursor.seq + 1
  PROVE  ClientInv'
<1>1. pump' \in Pumps /\ ~Live(pump'.pc)
  BY Unlinked DEF Deliver, Live, Pumps
<1> QED BY <1>1, EndStep DEF Deliver, Listening

\* The requests are rejected with their connection.
LEMMA RejectStep ==
  ASSUME ClientInv, UNCHANGED <<runtime, home, emitted, cursor>>,
         conn' \in Connections, Noted(runtime.log, conn'.notes), Noted(runtime.log, conn'.replay),
         link' \in Links, conn'.state = "open" => link' = "open",
         pump' \in Pumps, Live(pump'.pc) => Live(pump.pc), listener' \in Listening,
         NEW ps \in [Prompt -> Ask], \A p \in Prompt : Quieter(prompt[p], ps[p]) /\ ps[p].pc = prompt[p].pc,
         prompt' = Rejected(ps)
  PROVE  ClientInv'
<1>1. \A p \in Prompt : ps[p].open => ps[p].pc = "consuming"
  BY Prompts DEF Quieter
<1>2. prompt' \in [Prompt -> Ask]
  BY <1>1, RejectedIsQuieter
<1>3. ASSUME NEW p \in Prompt
      PROVE  Quieter(prompt[p], prompt'[p]) /\ prompt'[p].pc \notin {"dialing", "sent", "accepted"}
  <2>1. Quieter(ps[p], prompt'[p]) /\ prompt'[p].pc \notin {"dialing", "sent", "accepted"}
        /\ prompt'[p].pc \in {ps[p].pc, "done"}
    BY <1>1, RejectedIsQuieter
  <2>2. prompt[p] \in Ask /\ Quieter(prompt[p], ps[p]) /\ ps[p].pc = prompt[p].pc
    BY Prompts
  <2>3. prompt'[p].pc \in {prompt[p].pc, "done"}
    BY <2>1, <2>2
  <2> QED BY <2>1, <2>2, <2>3, QuieterChain
<1> QED BY <1>2, <1>3, QuietStep

LEMMA LinkFailsStep ==
  ASSUME ClientInv, LinkFails \/ Close
  PROVE  ClientInv'
<1> USE Unlinked
<1>1. \A p \in Prompt : Quieter(prompt[p], prompt[p])
  BY Prompts
<1>2. conn'.notes = conn.notes /\ conn'.replay = <<>> /\ conn'.state # "open"
  BY DEF LinkFails, Close, Connections
<1>3. conn' \in Connections
  BY EmptyChannel DEF LinkFails, Close, Connections
<1>4. Noted(runtime.log, <<>>)
  BY DEF Noted
<1>5. link' \in Links /\ prompt' = Rejected(prompt) /\ UNCHANGED <<runtime, home, emitted, cursor, pump, listener>>
  BY DEF LinkFails, Close, Links
<1> QED BY <1>1, <1>2, <1>3, <1>4, <1>5, RejectStep

LEMMA ForgetStep ==
  ASSUME ClientInv, Forget
  PROVE  ClientInv'
<1> USE Unlinked
<1>1. conn.state # "open" /\ link' \in Links
  BY DEF Forget, Links
<1> QED BY <1>1, SilentStep DEF Forget

LEMMA ReadStepKeeps ==
  ASSUME ClientInv, Read \/ ReadAnswered \/ ReadRefused
  PROVE  ClientInv'
BY Unlinked, SilentStep DEF Read, ReadAnswered, ReadRefused

LEMMA ConnectFailsStep ==
  ASSUME ClientInv, ConnectFails
  PROVE  ClientInv'
<1> USE Unlinked
<1>1. conn.state # "open" /\ link' \in Links /\ listener' \in Listening
  BY DEF ConnectFails, Disappointed, Links, Listening
<1>2. pump' \in Pumps /\ (Live(pump'.pc) => Live(pump.pc))
  BY DEF ConnectFails, Disappointed, Pumps, Live
<1>3. PICK ps : ps = IF pump.pc = "reconnecting" THEN EndAll(TRUE) ELSE prompt
  OBVIOUS
<1>4. ps \in [Prompt -> Ask] /\ \A p \in Prompt : Quieter(prompt[p], ps[p]) /\ ps[p].pc = prompt[p].pc
  BY <1>3, EndIsQuieter, Prompts
<1>5. prompt' = Rejected(ps) /\ UNCHANGED <<runtime, home, emitted, cursor, conn>>
  BY <1>3 DEF ConnectFails, Disappointed
<1> QED BY <1>1, <1>2, <1>4, <1>5, RejectStep

\* Those that waited go on with the new connection.
LEMMA ResumedPrompts ==
  ASSUME ClientInv, Resumed
  PROVE  /\ prompt' \in [Prompt -> Ask]
         /\ \A p \in Prompt : /\ Quieter(prompt[p], prompt'[p])
                              /\ prompt'[p].pc = "accepted" <=> prompt[p].pc = "accepted"
                              /\ prompt'[p].early = prompt[p].early
                              /\ prompt'[p].overflow = prompt[p].overflow
         /\ pump' \in Pumps /\ (Live(pump'.pc) => Live(pump.pc))
<1>1. pump' \in Pumps /\ (Live(pump'.pc) => Live(pump.pc))
  BY Unlinked DEF Resumed, Pumps, Live
<1>2. ASSUME NEW p \in Prompt
      PROVE  /\ prompt'[p] \in Ask /\ Quieter(prompt[p], prompt'[p])
             /\ prompt'[p].pc = "accepted" <=> prompt[p].pc = "accepted"
             /\ prompt'[p].early = prompt[p].early
             /\ prompt'[p].overflow = prompt[p].overflow
  <2>1. PICK q \in Ask : q = prompt[p]
    BY Prompts
  <2>2. PICK s : s = [q EXCEPT !.pc = "sent"]
    OBVIOUS
  <2>3. s \in Ask
    BY <2>2 DEF Ask, Asking
  <2>4. /\ s.seen = q.seen /\ s.chan = q.chan /\ s.early = q.early /\ s.ignored = q.ignored
        /\ s.overflow = q.overflow /\ s.open = q.open /\ s.pc = "sent" /\ s.out = q.out
    BY <2>2 DEF Ask
  <2>5. prompt'[p] = IF q.pc = "dialing" THEN s ELSE q
    BY <2>1, <2>2 DEF Resumed
  <2>6. q.open => q.pc = "consuming"
    BY <2>1, Prompts
  <2>7. Quieter(q, q)
    BY CompletedIsQuieter
  <2> QED BY <2>1, <2>3, <2>4, <2>5, <2>6, <2>7 DEF Quieter
<1>3. prompt' \in [Prompt -> Ask]
  BY <1>2 DEF Resumed
<1> QED BY <1>1, <1>2, <1>3

LEMMA KeptIsNoted ==
  ASSUME ClientInv, NEW from \in Nat \ {0}, from <= Len(runtime.log) + 1
  PROVE  Kept(from) \in Seq(Note) /\ Noted(runtime.log, Kept(from))
<1>1. PICK log \in Seq(Note) : log = runtime.log
  BY Unlinked
<1>2. \A i \in 1 .. Len(log) : log[i].seq = i
  BY <1>1 DEF ClientInv, Logged
<1>3. PICK s : s = SubSeq(log, from, Len(log))
  OBVIOUS
<1>4. s \in Seq(Note) /\ Len(s) = Len(log) + 1 - from
  BY ONLY <1>1, <1>3, from \in Nat \ {0}, from <= Len(log) + 1
<1>5. \A i \in 1 .. Len(s) : from + i - 1 \in 1 .. Len(log) /\ s[i] = log[from + i - 1]
  BY <1>1, <1>3, <1>4
<1>6. Noted(log, s)
  BY <1>2, <1>5 DEF Noted
<1> QED BY <1>1, <1>3, <1>4, <1>6 DEF Kept

LEMMA ConnectSameStep ==
  ASSUME ClientInv, ConnectSame
  PROVE  ClientInv'
<1> USE Unlinked
<1>1. PICK from \in Nat \ {0} : from = cursor.seq + 1
  OBVIOUS
<1>2. from <= Len(runtime.log) + 1
  BY <1>1
<1>3. Kept(from) \in Seq(Note) /\ Noted(runtime.log, Kept(from)) /\ Noted(runtime.log, <<>>)
  BY <1>2, KeptIsNoted DEF Noted
<1>4. PICK s \in Seq(Note) : s = Kept(from)
  BY <1>3
<1>5. conn' = [state |-> "open", notes |-> <<>>, replay |-> s]
  BY <1>1, <1>4 DEF ConnectSame
<1>6. conn' \in Connections /\ conn'.state = "open" /\ conn'.notes = <<>> /\ conn'.replay = s
  BY <1>5, EmptyChannel DEF Connections
<1>7. link' = "open" /\ link' \in Links /\ Resumed /\ UNCHANGED <<runtime, home, emitted, cursor, listener>>
  BY DEF ConnectSame, Links
<1> QED BY <1>3, <1>4, <1>6, <1>7, ResumedPrompts, QuietStep

LEMMA ConnectNewStep ==
  ASSUME ClientInv, ConnectNew
  PROVE  ClientInv'
<1> USE Unlinked
<1>1. runtime.id \in Nat \ {0} /\ \A p \in Prompt : home[p] \in Nat /\ home[p] <= runtime.id
  BY DEF ClientInv, ClientShape, Logged
<1>2. PICK id \in Nat \ {0} : id = runtime.id + 1
  BY <1>1
<1>3. /\ runtime' = [id |-> id, log |-> <<>>] /\ cursor' = [seq |-> 0, runtime |-> id]
      /\ conn' = [state |-> "open", notes |-> <<>>, replay |-> <<>>] /\ link' = "open"
      /\ conn.state # "open" /\ Resumed /\ UNCHANGED <<home, emitted, listener>>
  BY <1>2 DEF ConnectNew
<1>4. /\ runtime'.id = id /\ runtime'.log = <<>> /\ Len(runtime'.log) = 0
      /\ cursor'.seq = 0 /\ cursor'.runtime = id
      /\ conn'.state = "open" /\ conn'.notes = <<>> /\ conn'.replay = <<>>
  BY <1>3
<1>5. \A p \in Prompt : home[p] <= id /\ home[p] # id
  BY <1>1, <1>2
<1>6. ClientShape'
  <2>1. runtime' \in [id : Nat \ {0}, log : Seq(Note)] /\ conn' \in Connections /\ cursor' \in [seq : Nat, runtime : Nat]
    BY <1>2, <1>3, EmptyChannel DEF Connections
  <2>2. home' \in [Prompt -> Nat] /\ emitted' \in [Prompt -> 0 .. RunLength] /\ link' \in Links /\ listener' \in Listening
    BY <1>3 DEF ClientInv, ClientShape, Links
  <2> QED BY <1>3, <2>1, <2>2, ResumedPrompts DEF ClientShape
<1>7. Logged'
  <2>1. \A p \in Prompt : home[p] = 0 => emitted[p] = 0
    BY DEF ClientInv, Logged
  <2> QED BY <1>3, <1>4, <1>5, <2>1 DEF Logged
<1>8. Linked'
  BY <1>3, <1>4 DEF Linked, Noted
<1>9. ASSUME NEW p \in Prompt
      PROVE  Asked(p, prompt[p])'
  <2>1. PICK q \in Ask : q = prompt[p] /\ Asked(p, q) /\ q.pc \notin {"sent", "accepted"}
    BY <1>3, Prompts
  <2>2. PICK r \in Ask : r = prompt'[p] /\ Quieter(q, r) /\ r.pc # "accepted"
    BY <1>3, <2>1, ResumedPrompts
  <2>3. Channel(p, r)'
    <3>2. Channel(p, q)
      BY <2>1 DEF Asked
    <3>3. /\ Len(r.chan) <= Capacity /\ Len(r.early) <= Capacity
          /\ r.seen + Len(r.chan) <= RunLength /\ \A i \in 1 .. Len(r.chan) : r.chan[i] = r.seen + i
      BY <2>2, <3>2, QuieterBounds
    <3>4. r.open => /\ r.pc = "consuming" /\ ~r.ignored /\ r.seen + Len(r.chan) < RunLength
                    /\ home[p] # 0
      BY <2>2, <3>2 DEF Channel, Quieter
    <3>5. r.out = "terminal" => r.seen = RunLength
      BY <2>2, <3>2 DEF Channel, Quieter
    <3> QED BY <1>3, <1>4, <1>5, <3>3, <3>4, <3>5 DEF Channel
  <2>4. ASSUME r.pc \in {"idle", "dialing", "sent"}
        PROVE  Unanswered(p, r)'
    <3>1. q.pc \in {"idle", "dialing"}
      BY <2>1, <2>2, <2>4 DEF Quieter
    <3>2. Unanswered(p, q)
      BY <2>1, <3>1 DEF Asked
    <3>3. ~r.open /\ ~r.ignored /\ r.chan = <<>> /\ r.seen = 0 /\ home[p] = 0 /\ r.early = <<>> /\ ~r.overflow
      BY <2>2, <3>1, <3>2 DEF Quieter, Unanswered
    <3> QED BY <1>3, <1>4, <2>2, <3>3 DEF Unanswered
  <2> QED BY <2>2, <2>3, <2>4 DEF Asked
<1> QED BY <1>6, <1>7, <1>8, <1>9 DEF ClientInv

\* A prompt that the step is not about.
LEMMA OtherPrompt ==
  ASSUME ClientInv, NEW p \in Prompt, prompt'[p] = prompt[p], conn'.state = conn.state,
         home'[p] = home[p], runtime'.id = runtime.id, Live(pump'.pc) => Live(pump.pc),
         Count(runtime'.log, p, cursor'.seq) = Count(runtime.log, p, cursor.seq)
  PROVE  Asked(p, prompt[p])'
<1>1. PICK q : q = prompt[p] /\ q = prompt'[p]
  OBVIOUS
<1>2. Asked(p, q)
  BY <1>1, Prompts
<1>3. Channel(p, q)'
  BY <1>2 DEF Asked, Channel
<1>4. Unanswered(p, q) => Unanswered(p, q)'
  BY DEF Unanswered, Early, Live
<1> QED BY <1>1, <1>2, <1>3, <1>4 DEF Asked

LEMMA AcceptStep ==
  ASSUME ClientInv, NEW p \in Prompt, Accept(p)
  PROVE  ClientInv'
<1> USE Unlinked
<1>1. PICK q \in Ask : q = prompt[p] /\ Asked(p, q) /\ q.pc = "sent"
  BY Prompts DEF Accept
<1>2. Channel(p, q) /\ Unanswered(p, q) /\ home[p] = 0 /\ q.early = <<>> /\ ~q.overflow
  BY <1>1 DEF Asked, Unanswered
<1>3. PICK r : r = [q EXCEPT !.pc = "accepted"]
  OBVIOUS
<1>4. r \in Ask
  BY <1>3 DEF Ask, Asking
<1>5. /\ r.seen = q.seen /\ r.chan = q.chan /\ r.early = q.early /\ r.ignored = q.ignored
      /\ r.overflow = q.overflow /\ r.open = q.open /\ r.pc = "accepted" /\ r.out = q.out
  BY <1>3 DEF Ask
<1>6. /\ prompt' = [prompt EXCEPT ![p] = r] /\ conn.state = "open"
      /\ UNCHANGED <<runtime, emitted, conn, link, cursor, pump, listener>>
  BY <1>1, <1>3 DEF Accept
<1>7. /\ prompt'[p] = r /\ prompt' \in [Prompt -> Ask]
      /\ \A s \in Prompt : s # p => prompt'[s] = prompt[s]
  BY <1>4, <1>6
<1>8. PICK id \in Nat \ {0} : id = runtime.id
  BY DEF ClientInv, ClientShape
<1>9. /\ home \in [Prompt -> Nat] /\ home' = [home EXCEPT ![p] = id]
  BY <1>8 DEF Accept, ClientInv, ClientShape
<1>10. /\ home' \in [Prompt -> Nat] /\ home'[p] = id /\ \A s \in Prompt : s # p => home'[s] = home[s]
  BY <1>8, <1>9
<1>11. \A i \in 1 .. Len(runtime.log) : runtime.log[i].run # p
  BY <1>2, <1>8 DEF ClientInv, Logged
<1>12. ClientShape'
  BY <1>6, <1>7, <1>10 DEF ClientInv, ClientShape
<1>13. Logged'
  <2>1. \A i \in 1 .. Len(runtime.log) :
          LET note == runtime.log[i] IN
          /\ note.seq = i /\ note.nth = Count(runtime.log, note.run, i)
          /\ note.run \in Prompt /\ home'[note.run] = id
    <3> SUFFICES ASSUME NEW i \in 1 .. Len(runtime.log)
                 PROVE  /\ runtime.log[i].seq = i
                        /\ runtime.log[i].nth = Count(runtime.log, runtime.log[i].run, i)
                        /\ runtime.log[i].run \in Prompt /\ home'[runtime.log[i].run] = id
      OBVIOUS
    <3>1. runtime.log[i] \in Note
      OBVIOUS
    <3>2. PICK s \in Prompt : s = runtime.log[i].run /\ s # p
      BY <1>11, <3>1 DEF Note
    <3>3. runtime.log[i].seq = i /\ runtime.log[i].nth = Count(runtime.log, s, i) /\ home[s] = id
      BY <1>8, <3>2 DEF ClientInv, Logged
    <3>4. home'[s] = id
      BY <1>10, <3>2, <3>3
    <3> QED BY <3>2, <3>3, <3>4
  <2>2. emitted[p] = 0 /\ Count(runtime.log, p, Len(runtime.log)) = 0
    <3>1. emitted[p] = 0
      BY <1>2 DEF ClientInv, Logged
    <3>2. Len(runtime.log) \in Nat
      OBVIOUS
    <3> QED BY <1>11, <3>1, <3>2, CountNone
  <2>3. \A s \in Prompt : home'[s] <= id /\ (home'[s] = 0 => emitted[s] = 0)
    BY <1>8, <1>10 DEF ClientInv, Logged
  <2>4. \A s \in Prompt : home'[s] = id => emitted[s] = Count(runtime.log, s, Len(runtime.log))
    BY <1>8, <1>10, <2>2 DEF ClientInv, Logged
  <2> QED BY <1>6, <1>8, <2>1, <2>3, <2>4 DEF Logged
<1>14. Linked'
  BY <1>6 DEF ClientInv, Linked
<1>15. Asked(p, r)'
  <2>1. Count(runtime.log, p, cursor.seq) = 0
    <3>1. \A k \in 1 .. cursor.seq : runtime.log[k].run # p
      BY <1>11
    <3> QED BY <3>1, CountNone
  <2>2. Len(<<>>) = 0
    OBVIOUS
  <2>3. Channel(p, r)'
    BY <1>2, <1>5, <1>6 DEF Channel, Unanswered
  <2>4. Early(p, r)'
    BY <1>2, <1>5, <1>6, <2>1, <2>2 DEF Early
  <2>5. Unanswered(p, r)'
    BY <1>2, <1>5, <1>6, <1>8, <1>10, <2>4 DEF Unanswered
  <2> QED BY <2>3, <2>5 DEF Asked
<1>16. ASSUME NEW s \in Prompt, s # p
       PROVE  Asked(s, prompt[s])'
  BY <1>6, <1>7, <1>10, <1>16, OtherPrompt
<1>17. \A s \in Prompt : Asked(s, prompt[s])'
  BY <1>7, <1>15, <1>16
<1> QED BY <1>12, <1>13, <1>14, <1>17 DEF ClientInv

LEMMA EmitStep ==
  ASSUME ClientInv, NEW p \in Prompt, Emit(p)
  PROVE  ClientInv'
<1>1. PICK log \in Seq(Note) : log = runtime.log /\ cursor.seq \in Nat /\ cursor.seq <= Len(log)
  BY Unlinked
<1>2. PICK id \in Nat \ {0} : id = runtime.id /\ runtime = [id |-> id, log |-> log]
  BY <1>1 DEF ClientInv, ClientShape
<1>3. PICK n \in Nat : n = emitted[p] /\ n < RunLength /\ n = Count(log, p, Len(log)) /\ home[p] = id
  BY <1>1, <1>2 DEF Emit, Alive, ClientInv, ClientShape, Logged
<1>4. PICK note \in Note :
        /\ note = [seq |-> Len(log) + 1, run |-> p, nth |-> n + 1]
        /\ note.seq = Len(log) + 1 /\ note.run = p /\ note.nth = n + 1
  <2>1. n + 1 \in 1 .. RunLength /\ Len(log) + 1 \in Nat
    BY <1>3, ClientNumbers
  <2>2. PICK note : note = [seq |-> Len(log) + 1, run |-> p, nth |-> n + 1]
    OBVIOUS
  <2>3. note \in Note
    BY <2>1, <2>2 DEF Note
  <2> QED BY <2>2, <2>3
<1>6. PICK long \in Seq(Note) : long = Append(log, note)
  <2>1. Append(log, note) \in Seq(Note)
    BY ONLY log \in Seq(Note), note \in Note
  <2> QED BY <2>1
<1>7. /\ runtime' = [id |-> id, log |-> long]
      /\ conn' = IF conn.state = "open" THEN [conn EXCEPT !.notes = Append(@, note)] ELSE conn
      /\ emitted' = [emitted EXCEPT ![p] = n + 1]
      /\ UNCHANGED <<home, link, cursor, pump, prompt, listener>>
  BY <1>1, <1>2, <1>3, <1>4, <1>6 DEF Emit
<1>8. Len(long) = Len(log) + 1 /\ long[Len(log) + 1] = note /\ \A i \in 1 .. Len(log) : long[i] = log[i]
  BY <1>6
<1>9. runtime'.id = id /\ runtime'.log = long /\ runtime' \in [id : Nat \ {0}, log : Seq(Note)]
  BY <1>7
<1>10. \A s \in Prompt, i \in 0 .. Len(log) : Count(long, s, i) = Count(log, s, i)
  BY <1>6, CountAppend
<1>11. \A s : Count(long, s, Len(long)) = IF s = p THEN Count(long, s, Len(log)) + 1 ELSE Count(long, s, Len(log))
  <2>1. Len(log) \in Nat
    OBVIOUS
  <2> QED BY <1>4, <1>8, <2>1, CountNext
<1>12. \A s \in Prompt : Count(long, s, Len(long)) =
          IF s = p THEN Count(log, s, Len(log)) + 1 ELSE Count(log, s, Len(log))
  <2>1. Len(log) \in 0 .. Len(log)
    OBVIOUS
  <2> QED BY <1>10, <1>11, <2>1
<1>13. PICK notes \in Seq(Note) :
         notes = conn'.notes /\ conn'.state = conn.state /\ conn'.replay = conn.replay /\ conn' \in Connections
         /\ (notes = conn.notes \/ notes = Append(conn.notes, note))
         /\ conn.notes \in Seq(Note) /\ conn.replay \in Seq(Note)
         /\ Noted(log, conn.notes) /\ Noted(log, conn.replay)
  <2>1. conn \in Connections /\ Noted(log, conn.notes) /\ Noted(log, conn.replay)
    BY <1>1, Unlinked
  <2>2. conn.notes \in Seq(Note) /\ conn.replay \in Seq(Note)
    BY <2>1 DEF Connections
  <2>3. PICK more : more = Append(conn.notes, note)
    OBVIOUS
  <2>4. more \in Seq(Note)
    BY ONLY <2>2, <2>3, note \in Note
  <2>5. conn' = [conn EXCEPT !.notes = more] \/ conn' = conn
    BY <1>7, <2>3
  <2>6. /\ conn' \in Connections /\ conn'.state = conn.state /\ conn'.replay = conn.replay
        /\ conn'.notes = more \/ conn'.notes = conn.notes
    BY <2>1, <2>4, <2>5 DEF Connections
  <2> QED BY <2>1, <2>2, <2>3, <2>4, <2>6
<1>14. ASSUME NEW s \in Seq(Note), Noted(log, s)
       PROVE  Noted(long, s) /\ Noted(long, Append(s, note))
  <2>1. \A i \in 1 .. Len(s) : s[i].seq \in 1 .. Len(log) /\ s[i] = log[s[i].seq]
    BY <1>14 DEF Noted
  <2>2. \A i \in 1 .. Len(s) : s[i].seq \in 1 .. Len(long) /\ s[i] = long[s[i].seq]
    <3>1. PICK k \in Nat : k = Len(log) /\ Len(long) = k + 1
      BY <1>8
    <3>2. \A i \in 1 .. k : i \in 1 .. (k + 1)
      BY ONLY k \in Nat
    <3>3. \A i \in 1 .. k : long[i] = log[i]
      BY <1>8, <3>1
    <3> QED BY ONLY <2>1, <3>1, <3>2, <3>3
  <2>3. note.seq \in 1 .. Len(long) /\ note = long[note.seq]
    BY <1>4, <1>8
  <2>4. \A i \in 1 .. Len(Append(s, note)) : Append(s, note)[i] = note \/ (i \in 1 .. Len(s) /\ Append(s, note)[i] = s[i])
    OBVIOUS
  <2> QED BY <2>2, <2>3, <2>4 DEF Noted
<1>15. ClientShape'
  <2>1. emitted \in [Prompt -> 0 .. RunLength] /\ n + 1 \in 0 .. RunLength
    BY <1>3, ClientNumbers DEF ClientInv, ClientShape
  <2>2. emitted' \in [Prompt -> 0 .. RunLength]
    BY <1>7, <2>1
  <2> QED BY <1>7, <1>9, <1>13, <2>2 DEF ClientInv, ClientShape
<1>16. Logged'
  <2>1. ASSUME NEW i \in 1 .. Len(long)
        PROVE  /\ long[i].seq = i /\ long[i].nth = Count(long, long[i].run, i) /\ home[long[i].run] = id
    <3>1. CASE i \in 1 .. Len(log)
      <4>1. long[i] = log[i] /\ i \in 0 .. Len(log)
        BY <1>8, <3>1
      <4>2. log[i] \in Note
        BY <3>1
      <4>3. log[i].run \in Prompt
        BY <4>2 DEF Note
      <4> QED BY <1>1, <1>2, <1>10, <3>1, <4>1, <4>3 DEF ClientInv, Logged
    <3>2. CASE i = Len(long)
      <4>1. Count(long, p, Len(long)) = n + 1 /\ i = Len(log) + 1 /\ long[i] = note
        BY <1>3, <1>8, <1>12, <3>2
      <4> QED BY <1>3, <1>4, <1>8, <3>2, <4>1
    <3>3. i \in 1 .. Len(log) \/ i = Len(long)
      BY <1>8
    <3> QED BY <3>1, <3>2, <3>3
  <2>2. \A s \in Prompt : home[s] <= id /\ (home[s] = 0 => emitted'[s] = 0)
    <3>1. home[p] # 0
      BY <1>3
    <3> QED BY <1>2, <1>7, <3>1 DEF ClientInv, ClientShape, Logged
  <2>3. \A s \in Prompt : home[s] = id => emitted'[s] = Count(long, s, Len(long))
    BY <1>1, <1>2, <1>3, <1>7, <1>12 DEF ClientInv, ClientShape, Logged
  <2> QED BY <1>7, <1>9, <2>1, <2>2, <2>3 DEF Logged
<1>17. Linked'
  <2>1. Noted(long, conn'.notes) /\ Noted(long, conn'.replay)
    BY <1>13, <1>14
  <2>2. cursor.runtime = id /\ cursor.seq <= Len(long)
    BY <1>1, <1>2, <1>8 DEF ClientInv, Linked
  <2>3. conn.state = "open" => link = "open"
    BY Unlinked
  <2> QED BY <1>7, <1>9, <1>13, <2>1, <2>2, <2>3 DEF Linked
<1>18. ASSUME NEW s \in Prompt
       PROVE  Asked(s, prompt[s])'
  <2>1. cursor.seq \in 0 .. Len(log)
    BY <1>1
  <2>2. Count(runtime'.log, s, cursor'.seq) = Count(runtime.log, s, cursor.seq)
    BY <1>1, <1>7, <1>9, <1>10, <2>1
  <2> QED BY <1>2, <1>7, <1>9, <1>13, <2>2, OtherPrompt
<1> QED BY <1>15, <1>16, <1>17, <1>18 DEF ClientInv

-----------------------------------------------------------------------------
(* An event on its way to its run *)

\* What an event leaves of a prompt: the run up to it, in the open channel or kept until
\* the answer.
Heard(q, n, r) ==
  /\ r \in Ask /\ r.pc = q.pc /\ r.seen = q.seen /\ r.out = q.out
  /\ Len(r.chan) <= Capacity /\ Len(r.early) <= Capacity
  /\ r.seen + Len(r.chan) <= RunLength /\ \A i \in 1 .. Len(r.chan) : r.chan[i] = r.seen + i
  /\ r.open => q.open /\ ~r.ignored /\ n < RunLength /\ r.seen + Len(r.chan) = n
  /\ q.pc = "accepted" =>
       /\ ~r.ignored /\ r.chan = <<>>
       /\ r.overflow \/ (Len(r.early) = n /\ \A i \in 1 .. Len(r.early) : r.early[i] = i)
                     \/ ~Live(pump.pc)

LEMMA AppendEvent ==
  ASSUME NEW s \in Events, NEW n \in 1 .. RunLength
  PROVE  /\ Append(s, n) \in Events /\ Len(Append(s, n)) = Len(s) + 1 /\ Append(s, n)[Len(s) + 1] = n
         /\ \A i \in 1 .. Len(s) : Append(s, n)[i] = s[i]
         /\ Len(s) \in Nat
BY DEF Events

LEMMA RoutedIsHeard ==
  ASSUME ClientInv, NEW p \in Prompt, NEW n \in 1 .. RunLength, home[p] = runtime.id,
         NEW c \in Nat, c = Count(runtime.log, p, cursor.seq), n = c + 1
  PROVE  Heard(prompt[p], n, Routed(prompt[p], n))
<1>1. PICK q \in Ask : q = prompt[p] /\ Asked(p, q) /\ Channel(p, q)
  BY Prompts DEF Asked
<1>2. RunLength \in Nat \ {0} /\ Capacity \in Nat /\ q.seen \in 0 .. RunLength /\ Len(<<>>) = 0
  BY <1>1, ClientNumbers DEF Ask
<1>3. /\ q.chan \in Events /\ q.early \in Events
      /\ q.open \in BOOLEAN /\ q.ignored \in BOOLEAN /\ q.overflow \in BOOLEAN
  BY <1>1 DEF Ask
<1>4. /\ Len(q.chan) <= Capacity /\ Len(q.early) <= Capacity
      /\ q.seen + Len(q.chan) <= RunLength /\ \A i \in 1 .. Len(q.chan) : q.chan[i] = q.seen + i
      /\ q.open => q.pc = "consuming" /\ ~q.ignored /\ q.seen + Len(q.chan) = c
  BY <1>1 DEF Channel
<1>5. home[p] # 0
  BY DEF ClientInv, ClientShape
<1>6. q.pc = "accepted" => /\ ~q.open /\ ~q.ignored /\ q.chan = <<>>
                           /\ q.overflow \/ (Len(q.early) = c /\ \A i \in 1 .. Len(q.early) : q.early[i] = i)
                                         \/ ~Live(pump.pc)
  BY <1>1 DEF Asked, Unanswered, Early, Live
<1>7. q.pc = "accepted" => Pending # {}
  BY <1>1 DEF Pending
<1>8. CASE q.ignored
  <2>1. PICK r : r = [q EXCEPT !.ignored = ~Terminal(n)]
    OBVIOUS
  <2>2. r \in Ask
    BY <2>1 DEF Ask, Terminal
  <2>3. /\ r.pc = q.pc /\ r.seen = q.seen /\ r.out = q.out /\ r.chan = q.chan /\ r.early = q.early
        /\ r.open = q.open /\ r.overflow = q.overflow
    BY <2>1 DEF Ask
  <2>4. Routed(q, n) = r
    BY <1>8, <2>1 DEF Routed
  <2>5. ~r.open /\ q.pc # "accepted"
    BY <1>4, <1>6, <1>8, <2>3
  <2>6. Heard(q, n, r)
    BY ONLY <1>4, <2>2, <2>3, <2>5 DEF Heard
  <2> QED BY <1>1, <2>4, <2>6
<1>9. CASE ~q.ignored /\ q.open /\ Len(q.chan) < Capacity
  <2>1. PICK s \in Events : s = Append(q.chan, n)
    BY <1>3, AppendEvent
  <2>2. PICK a : a = [q EXCEPT !.chan = s]
    OBVIOUS
  <2>3. a \in Ask
    BY <2>1, <2>2 DEF Ask
  <2>4. /\ a.pc = q.pc /\ a.seen = q.seen /\ a.out = q.out /\ a.chan = s /\ a.early = q.early
        /\ a.open = q.open /\ a.overflow = q.overflow /\ a.ignored = q.ignored
    BY <2>2 DEF Ask
  <2>5. PICK r : r = IF Terminal(n) THEN Completed(a) ELSE a
    OBVIOUS
  <2>6. r \in Ask /\ r.pc = a.pc /\ r.seen = a.seen /\ r.out = a.out /\ r.chan = s /\ r.early = a.early
        /\ (r.open => ~Terminal(n))
    BY <2>3, <2>4, <2>5, CompletedIsQuieter DEF Quieter
  <2>7. ~r.ignored
    BY <1>9, <2>3, <2>4, <2>5, CompletedIsQuieter
  <2>8. Routed(q, n) = r
    <3>1. PICK k \in Nat : k = Len(q.chan) /\ k < Capacity
      BY <1>3, <1>9 DEF Events
    <3>2. ~(k >= Capacity)
      BY ONLY <1>2, <3>1
    <3>3. a = [q EXCEPT !.chan = Append(@, n)]
      BY <2>1, <2>2
    <3>4. Push(q, n) = a
      BY ONLY <1>9, <3>1, <3>2, <3>3 DEF Push
    <3> QED BY <1>9, <2>5, <3>4 DEF Routed
  <2>9. Len(s) = Len(q.chan) + 1 /\ s[Len(s)] = n /\ \A i \in 1 .. Len(q.chan) : s[i] = q.chan[i]
    BY ONLY <1>3, <2>1, n \in 1 .. RunLength, AppendEvent
  <2>10. Len(q.chan) \in Nat
    BY <1>3, AppendEvent
  <2>11. q.seen + Len(s) = n
    <3>1. PICK k \in Nat : k = Len(q.chan) /\ Len(s) = k + 1
      BY <2>9, <2>10
    <3>2. PICK m \in Nat : m = q.seen /\ m + k = c
      BY <1>2, <1>4, <1>9, <3>1
    <3>3. m + (k + 1) = n
      BY ONLY <3>2, n = c + 1, c \in Nat
    <3> QED BY <3>1, <3>2, <3>3
  <2>12. \A i \in 1 .. Len(s) : s[i] = q.seen + i
    <3>1. \A i \in 1 .. Len(s) : i \in 1 .. Len(q.chan) \/ i = Len(s)
      BY <2>9, <2>10
    <3> QED BY <1>4, <2>9, <2>11, <3>1
  <2>13. Len(s) <= Capacity /\ q.seen + Len(s) <= RunLength /\ (r.open => n < RunLength)
    <3>1. r.open => n # RunLength
      BY <2>6 DEF Terminal
    <3> QED BY <1>2, <1>9, <2>9, <2>10, <2>11, <3>1
  <2>14. q.pc # "accepted"
    BY <1>4, <1>9
  <2>15. Heard(q, n, r)
    BY <1>4, <1>9, <2>4, <2>6, <2>7, <2>11, <2>12, <2>13, <2>14 DEF Heard
  <2> QED BY <1>1, <2>8, <2>15
<1>10. CASE ~q.ignored /\ q.open /\ ~(Len(q.chan) < Capacity)
  <2>1. PICK r : r = [q EXCEPT !.open = FALSE, !.failed = TRUE, !.chan = <<>>, !.ignored = ~Terminal(n)]
    OBVIOUS
  <2>2. r \in Ask
    BY <2>1, EmptyChannel DEF Ask, Terminal
  <2>3. /\ r.pc = q.pc /\ r.seen = q.seen /\ r.out = q.out /\ r.chan = <<>> /\ r.early = q.early /\ ~r.open
    BY <2>1 DEF Ask
  <2>4. Len(q.chan) >= Capacity
    <3>1. PICK k \in Nat : k = Len(q.chan)
      BY <1>3 DEF Events
    <3>2. ~(k < Capacity)
      BY <1>10, <3>1
    <3>3. k >= Capacity
      BY ONLY <1>2, <3>2
    <3> QED BY <3>1, <3>3
  <2>5. Push(q, n) = r
    BY <1>10, <2>1, <2>4 DEF Push
  <2>6. Completed(r) = r
    BY <2>3 DEF Completed
  <2>7. Routed(q, n) = r
    BY <1>10, <2>5, <2>6 DEF Routed
  <2>8. q.pc # "accepted"
    BY <1>4, <1>10
  <2>9. Heard(q, n, r)
    BY <1>2, <1>4, <2>2, <2>3, <2>8 DEF Heard
  <2> QED BY <1>1, <2>7, <2>9
<1>11. CASE ~q.ignored /\ ~q.open /\ Pending # {} /\ Len(q.early) < Capacity
  <2>1. PICK s \in Events : s = Append(q.early, n)
    BY <1>3, AppendEvent
  <2>2. PICK r : r = [q EXCEPT !.early = s]
    OBVIOUS
  <2>3. r \in Ask
    BY <2>1, <2>2 DEF Ask
  <2>4. /\ r.pc = q.pc /\ r.seen = q.seen /\ r.out = q.out /\ r.chan = q.chan /\ r.early = s
        /\ ~r.open /\ r.overflow = q.overflow /\ ~r.ignored
    BY <1>11, <2>2 DEF Ask
  <2>5. Routed(q, n) = r
    BY <1>11, <2>1, <2>2 DEF Routed
  <2>6. Len(s) = Len(q.early) + 1 /\ s[Len(s)] = n /\ \A i \in 1 .. Len(q.early) : s[i] = q.early[i]
    BY <1>3, <2>1, AppendEvent
  <2>7. Len(q.early) \in Nat
    BY <1>3, AppendEvent
  <2>8. Len(s) <= Capacity /\ \A i \in 1 .. Len(s) : i \in 1 .. Len(q.early) \/ i = Len(s)
    BY <1>2, <1>11, <2>6, <2>7
  <2>9. q.pc = "accepted" => q.overflow \/ ~Live(pump.pc) \/ (Len(s) = n /\ \A i \in 1 .. Len(s) : s[i] = i)
    BY <1>6, <2>6, <2>8
  <2>10. Heard(q, n, r)
    BY <1>4, <1>6, <2>3, <2>4, <2>8, <2>9 DEF Heard
  <2> QED BY <1>1, <2>5, <2>10
<1>12. CASE ~q.ignored /\ ~q.open /\ Pending # {} /\ ~(Len(q.early) < Capacity)
  <2>1. PICK r : r = [q EXCEPT !.early = <<>>, !.overflow = TRUE]
    OBVIOUS
  <2>2. r \in Ask
    BY <2>1, EmptyChannel DEF Ask
  <2>3. /\ r.pc = q.pc /\ r.seen = q.seen /\ r.out = q.out /\ r.chan = q.chan /\ r.early = <<>>
        /\ ~r.open /\ r.overflow /\ ~r.ignored
    BY <1>12, <2>1 DEF Ask
  <2>4. Routed(q, n) = r
    BY <1>12, <2>1 DEF Routed
  <2>5. Heard(q, n, r)
    BY <1>2, <1>4, <1>6, <2>2, <2>3 DEF Heard
  <2> QED BY <1>1, <2>4, <2>5
<1>13. CASE ~q.ignored /\ ~q.open /\ Pending = {}
  <2>1. Routed(q, n) = q /\ q.pc # "accepted"
    BY <1>7, <1>13 DEF Routed
  <2>2. Heard(q, n, q)
    BY <1>1, <1>4, <1>13, <2>1 DEF Heard
  <2> QED BY <1>1, <2>1, <2>2
<1> QED BY <1>8, <1>9, <1>10, <1>11, <1>12, <1>13

LEMMA NotedTail ==
  ASSUME NEW log, NEW s \in Seq(Note), s # <<>>, Noted(log, s)
  PROVE  /\ Head(s) \in Note /\ Head(s).seq \in 1 .. Len(log) /\ Head(s) = log[Head(s).seq]
         /\ Tail(s) \in Seq(Note) /\ Noted(log, Tail(s))
<1>1. 1 \in 1 .. Len(s) /\ Head(s) = s[1] /\ Head(s) \in Note
  OBVIOUS
<1>2. Tail(s) \in Seq(Note) /\ \A i \in 1 .. Len(Tail(s)) : i + 1 \in 1 .. Len(s) /\ Tail(s)[i] = s[i + 1]
  OBVIOUS
<1> QED BY <1>1, <1>2 DEF Noted

LEMMA DeliverStep ==
  ASSUME ClientInv, Deliver, Head(conn.notes).seq = cursor.seq + 1
  PROVE  ClientInv'
<1>1. PICK log \in Seq(Note) :
        log = runtime.log /\ cursor.seq \in Nat /\ cursor.seq <= Len(log) /\ Noted(log, conn.notes)
        /\ Noted(log, conn.replay)
  BY Unlinked
<1>2. conn \in Connections /\ conn.notes \in Seq(Note) /\ conn.notes # <<>>
  BY Unlinked DEF Connections, Deliver
<1>3. PICK note \in Note : note = Head(conn.notes) /\ note.seq \in 1 .. Len(log) /\ note = log[note.seq]
  BY <1>1, <1>2, NotedTail
<1>4. PICK rest \in Seq(Note) : rest = Tail(conn.notes) /\ Noted(log, rest)
  BY <1>1, <1>2, NotedTail
<1>5. PICK at \in Nat : at = cursor.seq
  BY <1>1
<1>6. PICK p \in Prompt : p = note.run
  BY DEF Note
<1>7. PICK n \in 1 .. RunLength : n = note.nth
  BY DEF Note
<1>8. note.seq = at + 1 /\ at + 1 \in 1 .. Len(log) /\ log[at + 1] = note
  BY <1>3, <1>5
<1>9. n = Count(log, p, at + 1) /\ home[p] = runtime.id
  BY <1>1, <1>6, <1>7, <1>8 DEF ClientInv, Logged
<1>10. PICK c \in Nat : c = Count(log, p, at)
  BY CountIsNat
<1>11. n = c + 1
  BY <1>6, <1>8, <1>9, <1>10, CountNext
<1>12. \A s \in Prompt : s # p => Count(log, s, at + 1) = Count(log, s, at)
  BY <1>6, <1>8, CountNext
<1>13. PICK r : r = Routed(prompt[p], n)
  OBVIOUS
<1>14. Heard(prompt[p], n, r)
  BY <1>1, <1>5, <1>9, <1>10, <1>11, <1>13, RoutedIsHeard
<1>15. /\ cursor' = [cursor EXCEPT !.seq = at + 1] /\ pump' = [pump EXCEPT !.tries = 0]
       /\ prompt' = [prompt EXCEPT ![p] = r] /\ conn' = [conn EXCEPT !.notes = rest]
       /\ UNCHANGED <<runtime, home, emitted, link, listener>>
  BY <1>3, <1>4, <1>5, <1>6, <1>7, <1>8, <1>13 DEF Deliver
<1>16. /\ cursor' \in [seq : Nat, runtime : Nat] /\ cursor'.seq = at + 1 /\ cursor'.runtime = cursor.runtime
       /\ pump' \in Pumps /\ pump'.pc = pump.pc
       /\ conn' \in Connections /\ conn'.state = conn.state /\ conn'.replay = conn.replay /\ conn'.notes = rest
  <2>1. cursor \in [seq : Nat, runtime : Nat] /\ pump \in Pumps
    BY DEF ClientInv, ClientShape
  <2>2. cursor' \in [seq : Nat, runtime : Nat] /\ cursor'.seq = at + 1 /\ cursor'.runtime = cursor.runtime
    <3>1. PICK next \in Nat : next = at + 1
      OBVIOUS
    <3>2. cursor' = [cursor EXCEPT !.seq = next]
      BY <1>15, <3>1
    <3> QED BY ONLY <2>1, <3>1, <3>2
  <2>3. pump' \in Pumps /\ pump'.pc = pump.pc
    BY <1>15, <2>1, ClientNumbers DEF Pumps
  <2>4. conn' \in Connections /\ conn'.state = conn.state /\ conn'.replay = conn.replay /\ conn'.notes = rest
    BY <1>2, <1>15 DEF Connections
  <2> QED BY <2>2, <2>3, <2>4
<1>17. /\ prompt' \in [Prompt -> Ask] /\ prompt'[p] = r
       /\ \A s \in Prompt : s # p => prompt'[s] = prompt[s]
  <2>1. r \in Ask /\ prompt \in [Prompt -> Ask]
    BY <1>14, Unlinked DEF Heard
  <2> QED BY <1>15, <2>1
<1>18. ClientShape'
  BY <1>15, <1>16, <1>17 DEF ClientInv, ClientShape
<1>19. Logged'
  BY <1>15 DEF ClientInv, Logged
<1>20. Linked'
  <2>1. cursor.runtime = runtime.id /\ (conn.state = "open" => link = "open")
    BY DEF ClientInv, Linked
  <2>2. at + 1 <= Len(log)
    BY <1>8
  <2> QED BY <1>1, <1>4, <1>15, <1>16, <2>1, <2>2 DEF Linked
<1>21. ASSUME NEW s \in Prompt, s # p
       PROVE  Asked(s, prompt[s])'
  <2>1. Count(runtime'.log, s, cursor'.seq) = Count(runtime.log, s, cursor.seq)
    BY <1>1, <1>5, <1>12, <1>15, <1>16, <1>21
  <2> QED BY <1>15, <1>16, <1>17, <1>21, <2>1, OtherPrompt
<1>22. Asked(p, r)'
  <2>1. PICK q \in Ask : q = prompt[p] /\ Asked(p, q) /\ Heard(q, n, r)
    BY <1>14, Prompts
  <2>2. Count(log, p, at + 1) = n /\ runtime'.log = log /\ cursor'.seq = at + 1 /\ home' = home /\ runtime' = runtime
        /\ conn'.state = conn.state
    BY <1>1, <1>9, <1>15, <1>16
  <2>3. Channel(p, q)
    BY <2>1 DEF Asked
  <2>4. q.pc \in {"idle", "dialing", "sent", "accepted"} =>
          /\ Unanswered(p, q) /\ q.pc = "accepted" /\ ~q.open /\ q.seen = 0 /\ conn.state = "open"
    <3>1. home[p] # 0
      BY <1>9 DEF ClientInv, ClientShape
    <3> QED BY <2>1, <3>1 DEF Asked, Unanswered
  <2>5. Channel(p, r)'
    <3>1. home[p] # 0
      BY <1>9 DEF ClientInv, ClientShape
    <3>2. r.open => r.pc = "consuming" /\ ~r.ignored /\ r.seen + Len(r.chan) = n /\ n < RunLength
      BY <2>1, <2>3 DEF Channel, Heard
    <3>3. r.out = "terminal" => r.seen = RunLength
      BY <2>1, <2>3 DEF Channel, Heard
    <3>4. /\ Len(r.chan) <= Capacity /\ Len(r.early) <= Capacity
          /\ r.seen + Len(r.chan) <= RunLength /\ \A i \in 1 .. Len(r.chan) : r.chan[i] = r.seen + i
      BY <2>1 DEF Heard
    <3> QED BY <2>2, <3>1, <3>2, <3>3, <3>4 DEF Channel
  <2>6. ASSUME r.pc \in {"idle", "dialing", "sent", "accepted"}
        PROVE  Unanswered(p, r)'
    <3>1. q.pc = "accepted" /\ r.pc = "accepted" /\ ~r.open /\ r.seen = 0 /\ conn.state = "open"
          /\ ~r.ignored /\ r.chan = <<>>
      BY <2>1, <2>4, <2>6 DEF Heard
    <3>2. Early(p, r)'
      BY <1>16, <2>1, <2>2, <3>1 DEF Heard, Early, Live
    <3> QED BY <1>9, <2>2, <3>1, <3>2 DEF Unanswered
  <2> QED BY <2>5, <2>6 DEF Asked
<1>23. \A s \in Prompt : Asked(s, prompt[s])'
  BY <1>17, <1>21, <1>22
<1> QED BY <1>18, <1>19, <1>20, <1>23 DEF ClientInv

-----------------------------------------------------------------------------
(* The answer and the consumer *)

\* A step of the client about one prompt.
LEMMA OneStep ==
  ASSUME ClientInv, NEW p \in Prompt, NEW r \in Ask, prompt' = [prompt EXCEPT ![p] = r], Channel(p, r),
         r.pc \in {"consuming", "done"},
         UNCHANGED <<runtime, home, emitted, conn, link, cursor, pump, listener>>
  PROVE  ClientInv'
<1>1. /\ prompt' \in [Prompt -> Ask] /\ prompt'[p] = r
      /\ \A s \in Prompt : s # p => prompt'[s] = prompt[s]
  BY Unlinked
<1>2. ClientShape' /\ Logged' /\ Linked'
  BY <1>1 DEF ClientInv, ClientShape, Logged, Linked
<1>3. Channel(p, r)'
  BY DEF Channel
<1>4. Asked(p, prompt[p])'
  BY <1>1, <1>3 DEF Asked
<1>5. ASSUME NEW s \in Prompt, s # p
      PROVE  Asked(s, prompt[s])'
  BY <1>1, <1>5, OtherPrompt
<1> QED BY <1>2, <1>4, <1>5 DEF ClientInv

LEMMA ConsumerLeavesStep ==
  ASSUME ClientInv, NEW p \in Prompt, Leave(p)
  PROVE  ClientInv'
<1>1. PICK q \in Ask : q = prompt[p] /\ q.pc = "consuming" /\ Channel(p, q)
  BY Prompts DEF Leave, Asked
<1>2. PICK r : r = [q EXCEPT !.pc = "done", !.out = "left", !.chan = <<>>, !.open = FALSE,
                             !.ignored = pump.pc \notin {"ended", "failed"}]
  OBVIOUS
<1>3. r \in Ask
  BY <1>2, EmptyChannel DEF Ask, Asking
<1>4. r.pc = "done" /\ r.out = "left" /\ r.chan = <<>> /\ ~r.open /\ r.seen = q.seen /\ r.early = q.early
  BY <1>2 DEF Ask
<1>5. Len(<<>>) = 0 /\ q.seen \in 0 .. RunLength /\ RunLength \in Nat /\ Capacity \in Nat
  BY <1>1, ClientNumbers DEF Ask
<1>6. Channel(p, r)
  BY <1>1, <1>4, <1>5 DEF Channel
<1>7. prompt' = [prompt EXCEPT ![p] = r]
  BY <1>1, <1>2 DEF Leave
<1> QED BY <1>3, <1>4, <1>6, <1>7, OneStep DEF Leave

LEMMA TakeFirst ==
  ASSUME NEW S, NEW s \in Seq(S), s # <<>>
  PROVE  /\ Len(s) \in Nat \ {0} /\ Head(s) = s[1] /\ Head(s) \in S
         /\ Tail(s) \in Seq(S) /\ Len(Tail(s)) = Len(s) - 1
         /\ \A i \in 1 .. Len(Tail(s)) : Tail(s)[i] = s[i + 1] /\ i + 1 \in 1 .. Len(s)
OBVIOUS

LEMMA Elements ==
  ASSUME NEW S, NEW s \in Seq(S)
  PROVE  Len(s) \in Nat /\ (Len(s) = 0 <=> s = <<>>) /\ \A i \in 1 .. Len(s) : s[i] \in S
OBVIOUS

LEMMA EventElements ==
  ASSUME NEW s \in Events
  PROVE  Len(s) \in Nat /\ (Len(s) = 0 <=> s = <<>>) /\ \A i \in 1 .. Len(s) : s[i] \in 1 .. RunLength
<1>1. PICK S : S = 1 .. RunLength
  OBVIOUS
<1>2. s \in Seq(S)
  BY <1>1 DEF Events
<1> QED BY <1>1, <1>2, Elements

LEMMA TakeEvent ==
  ASSUME NEW s \in Events, s # <<>>
  PROVE  /\ Len(s) \in Nat \ {0} /\ Head(s) = s[1] /\ Head(s) \in 1 .. RunLength
         /\ Tail(s) \in Events /\ Len(Tail(s)) = Len(s) - 1
         /\ \A i \in 1 .. Len(Tail(s)) : Tail(s)[i] = s[i + 1] /\ i + 1 \in 1 .. Len(s)
<1>1. PICK S : S = 1 .. RunLength
  OBVIOUS
<1>2. s \in Seq(S)
  BY <1>1 DEF Events
<1> QED BY <1>1, <1>2, TakeFirst DEF Events

LEMMA ConsumeStep ==
  ASSUME ClientInv, NEW p \in Prompt, Consume(p)
  PROVE  ClientInv'
<1>1. PICK q \in Ask : q = prompt[p] /\ q.pc = "consuming" /\ Channel(p, q)
  BY Prompts DEF Consume, Asked
<1>2. q.seen \in 0 .. RunLength /\ RunLength \in Nat \ {0} /\ Capacity \in Nat
  BY <1>1, ClientNumbers DEF Ask
<1>3. UNCHANGED <<runtime, home, emitted, conn, link, cursor, pump, listener>>
  BY DEF Consume
<1>4. CASE q.chan # <<>> /\ prompt' = [prompt EXCEPT ![p] = Taken(q)]
  <2>1. PICK h \in 1 .. RunLength : h = Head(q.chan) /\ h = q.chan[1]
    BY <1>1, <1>4, TakeEvent DEF Ask
  <2>2. PICK t \in Events : t = Tail(q.chan) /\ Len(t) = Len(q.chan) - 1
                            /\ \A i \in 1 .. Len(t) : t[i] = q.chan[i + 1] /\ i + 1 \in 1 .. Len(q.chan)
    BY <1>1, <1>4, TakeEvent DEF Ask
  <2>3. PICK k \in Nat : Len(t) = k /\ Len(q.chan) = k + 1
    <3>1. PICK j \in Nat \ {0} : j = Len(q.chan) /\ Len(t) = j - 1
      BY <1>1, <1>4, <2>2, TakeEvent DEF Ask
    <3>2. j - 1 \in Nat /\ j = (j - 1) + 1
      BY ONLY j \in Nat \ {0}
    <3> QED BY <3>1, <3>2
  <2>4. PICK m \in Nat : m = q.seen
    BY <1>2
  <2>5. h = m + 1 /\ m + (k + 1) <= RunLength /\ k + 1 <= Capacity
        /\ \A i \in 1 .. (k + 1) : q.chan[i] = m + i
    BY <1>1, <2>1, <2>3, <2>4 DEF Channel
  <2>6. PICK r : r = Taken(q)
    OBVIOUS
  <2>7. r = [q EXCEPT !.chan = t, !.seen = m + 1,
                      !.pc = IF Terminal(h) THEN "done" ELSE q.pc,
                      !.out = IF Terminal(h) THEN "terminal" ELSE q.out]
    BY <2>1, <2>2, <2>4, <2>6 DEF Taken
  <2>8. m + 1 \in 0 .. RunLength
    BY <1>2, <2>5
  <2>9. r \in Ask
    BY <2>7, <2>8 DEF Ask, Asking
  <2>10. /\ r.chan = t /\ r.seen = m + 1 /\ r.pc = (IF Terminal(h) THEN "done" ELSE q.pc)
         /\ r.out = (IF Terminal(h) THEN "terminal" ELSE q.out)
         /\ r.open = q.open /\ r.early = q.early /\ r.ignored = q.ignored
    BY <2>7 DEF Ask
  <2>11. /\ Len(r.chan) <= Capacity /\ r.seen + Len(r.chan) = m + (k + 1) /\ r.seen + Len(r.chan) <= RunLength
         /\ q.seen + Len(q.chan) = m + (k + 1)
    <3>1. Len(r.chan) = k /\ r.seen = m + 1
      BY <2>3, <2>10
    <3>2. k <= Capacity /\ (m + 1) + k = m + (k + 1) /\ (m + 1) + k <= RunLength
      BY ONLY <1>2, <2>5, m \in Nat, k \in Nat
    <3> QED BY <2>3, <2>4, <3>1, <3>2
  <2>12. \A i \in 1 .. Len(r.chan) : r.chan[i] = r.seen + i
    BY <2>2, <2>3, <2>5, <2>10
  <2>13. r.open => r.pc = "consuming"
    <3>1. q.open => m + (k + 1) < RunLength
      BY <1>1, <2>11 DEF Channel
    <3>2. q.open => ~Terminal(h)
      BY <1>2, <2>5, <3>1 DEF Terminal
    <3> QED BY <1>1, <2>10, <3>2
  <2>14. r.out = "terminal" => r.seen = RunLength
    <3>1. Terminal(h) => m + 1 = RunLength
      BY <2>5 DEF Terminal
    <3>2. q.out = "terminal" => m = RunLength
      BY <1>1, <2>4 DEF Channel
    <3>3. q.out # "terminal"
      BY <1>2, <2>5, <3>2
    <3> QED BY <2>10, <3>1, <3>3
  <2>15. Channel(p, r)
    BY <1>1, <2>10, <2>11, <2>12, <2>13, <2>14 DEF Channel
  <2>16. r.pc \in {"consuming", "done"}
    BY <1>1, <2>10
  <2> QED BY <1>3, <1>4, <2>6, <2>9, <2>15, <2>16, OneStep
<1>5. CASE /\ q.chan = <<>> /\ ~q.open
           /\ prompt' = [prompt EXCEPT ![p] =
                 [q EXCEPT !.pc = "done", !.ignored = pump.pc \notin {"ended", "failed"},
                           !.out = IF q.failed THEN "failed" ELSE "ended"]]
  <2>1. PICK r : r = [q EXCEPT !.pc = "done", !.ignored = pump.pc \notin {"ended", "failed"},
                               !.out = IF q.failed THEN "failed" ELSE "ended"]
    OBVIOUS
  <2>2. r \in Ask
    BY <2>1 DEF Ask, Asking
  <2>3. /\ r.pc = "done" /\ r.chan = q.chan /\ r.seen = q.seen /\ r.early = q.early /\ ~r.open /\ r.out # "terminal"
    BY <1>5, <2>1 DEF Ask
  <2>4. Channel(p, r)
    BY <1>1, <2>3 DEF Channel
  <2> QED BY <1>3, <1>5, <2>1, <2>2, <2>3, <2>4, OneStep
<1> QED BY <1>1, <1>4, <1>5 DEF Consume

\* Discarding what was kept for nobody.
LEMMA ForgottenPrompt ==
  ASSUME ClientInv, NEW p \in Prompt, NEW q \in Ask, q = prompt[p], q.pc # "accepted",
         UNCHANGED <<runtime, home, cursor, conn, pump>>,
         NEW r, r = [q EXCEPT !.early = <<>>, !.overflow = FALSE]
  PROVE  r \in Ask /\ Asked(p, r)'
<1>1. r \in Ask
  BY EmptyChannel DEF Ask
<1>2. /\ r.seen = q.seen /\ r.chan = q.chan /\ r.early = <<>> /\ r.ignored = q.ignored
      /\ ~r.overflow /\ r.open = q.open /\ r.pc = q.pc /\ r.out = q.out
  BY DEF Ask
<1>3. Asked(p, q)
  BY Prompts
<1>4. Quieter(q, r)
  BY <1>1, <1>2 DEF Quieter
<1>5. Channel(p, r)'
  BY <1>4, QuieterChannel
<1>6. Unanswered(p, q) => Unanswered(p, r)'
  BY <1>2 DEF Unanswered
<1> QED BY <1>1, <1>2, <1>3, <1>5, <1>6 DEF Asked

\* The channel of an answered prompt has the run so far.
LEMMA SubscribedIsChannel ==
  ASSUME ClientInv, NEW p \in Prompt, prompt[p].pc = "accepted"
  PROVE  /\ Subscribed(prompt[p]) \in Ask /\ Channel(p, Subscribed(prompt[p]))
         /\ Subscribed(prompt[p]).pc = "consuming"
         /\ Subscribed(prompt[p]).early = <<>> /\ ~Subscribed(prompt[p]).overflow
<1>1. PICK q \in Ask : q = prompt[p] /\ Channel(p, q) /\ Unanswered(p, q) /\ q.pc = "accepted"
  BY Prompts DEF Asked
<1>2. /\ RunLength \in Nat \ {0} /\ Capacity \in Nat /\ Len(<<>>) = 0 /\ q.seen = 0 /\ ~q.open
      /\ home[p] = runtime.id /\ home[p] # 0 /\ Early(p, q) /\ q.out # "terminal"
  <2>1. home[p] = runtime.id /\ home[p] # 0
    BY <1>1 DEF Unanswered, ClientInv, ClientShape
  <2>2. RunLength \in Nat \ {0} /\ Capacity \in Nat /\ Len(<<>>) = 0
    BY ClientNumbers
  <2>3. q.seen = 0 /\ ~q.open /\ Early(p, q)
    BY <1>1 DEF Unanswered
  <2>4. q.out # "terminal"
    BY <1>1, <2>2, <2>3 DEF Channel
  <2> QED BY <2>1, <2>2, <2>3, <2>4
<1>3. PICK e \in Events : e = q.early /\ Len(e) <= Capacity
  BY <1>1 DEF Ask, Channel
<1>4. PICK t : t = [q EXCEPT !.pc = "consuming", !.chan = e, !.early = <<>>, !.overflow = FALSE, !.ignored = FALSE]
  OBVIOUS
<1>5. t \in Ask
  BY <1>4, EmptyChannel DEF Ask, Asking
<1>6. /\ t.pc = "consuming" /\ t.chan = e /\ t.early = <<>> /\ ~t.overflow /\ ~t.ignored /\ t.open = q.open
      /\ t.seen = q.seen /\ t.out = q.out
  BY <1>4 DEF Ask
<1>7. ASSUME NEW r \in Ask, r.pc = "consuming", r.early = <<>>, ~r.open, r.seen = q.seen, r.out = q.out,
             r.chan = <<>>
      PROVE  Channel(p, r)
  BY <1>2, <1>7 DEF Channel
<1>8. CASE pump.pc = "failed" \/ q.overflow
  <2>1. PICK r : r = [t EXCEPT !.failed = TRUE, !.chan = <<>>]
    OBVIOUS
  <2>2. r \in Ask
    BY <1>5, <2>1, EmptyChannel DEF Ask
  <2>3. /\ r.pc = "consuming" /\ r.early = <<>> /\ ~r.open /\ r.seen = q.seen /\ r.out = q.out
        /\ r.chan = <<>> /\ ~r.overflow
    BY <1>2, <1>5, <1>6, <2>1 DEF Ask
  <2>4. Subscribed(q) = r
    <3>1. ~(pump.pc = "ended" /\ ~q.overflow)
      BY <1>8
    <3> QED BY <1>3, <1>4, <1>8, <2>1, <3>1 DEF Subscribed
  <2> QED BY <1>1, <1>7, <2>2, <2>3, <2>4
<1>9. CASE pump.pc = "ended" /\ ~q.overflow
  <2>1. PICK r : r = [t EXCEPT !.chan = <<>>]
    OBVIOUS
  <2>2. r \in Ask
    BY <1>5, <2>1, EmptyChannel DEF Ask
  <2>3. /\ r.pc = "consuming" /\ r.early = <<>> /\ ~r.open /\ r.seen = q.seen /\ r.out = q.out
        /\ r.chan = <<>> /\ ~r.overflow
    BY <1>2, <1>5, <1>6, <2>1 DEF Ask
  <2>4. Subscribed(q) = r
    <3>1. ~(pump.pc = "failed" \/ q.overflow)
      BY <1>9
    <3> QED BY <1>3, <1>4, <1>9, <2>1, <3>1 DEF Subscribed
  <2> QED BY <1>1, <1>7, <2>2, <2>3, <2>4
<1>10. CASE Live(pump.pc) /\ ~q.overflow
  <2>1. PICK open \in BOOLEAN : open = (e = <<>> \/ ~Terminal(e[Len(e)]))
    OBVIOUS
  <2>2. PICK r : r = [t EXCEPT !.open = open]
    OBVIOUS
  <2>3. r \in Ask
    BY <1>5, <2>2 DEF Ask
  <2>4. /\ r.pc = "consuming" /\ r.early = <<>> /\ r.open = open /\ r.seen = 0 /\ r.out = q.out
        /\ r.chan = e /\ ~r.overflow /\ ~r.ignored
    BY <1>2, <1>5, <1>6, <2>2 DEF Ask
  <2>5. Subscribed(q) = r
    <3>1. ~(pump.pc = "failed" \/ q.overflow) /\ ~(pump.pc = "ended" /\ ~q.overflow)
      BY <1>10 DEF Live
    <3>2. r = [t EXCEPT !.open = e = <<>> \/ ~Terminal(e[Len(e)])]
      BY <2>1, <2>2
    <3> QED BY <1>3, <1>4, <3>1, <3>2 DEF Subscribed
  <2>6. PICK k \in Nat : k = Len(e) /\ k = Count(runtime.log, p, cursor.seq) /\ \A i \in 1 .. k : e[i] = i
    BY <1>2, <1>3, <1>10 DEF Early, Live, Events
  <2>7. k = 0 <=> e = <<>>
    BY <2>6, EventElements
  <2>8. k # 0 => k \in 1 .. RunLength /\ e[k] = k
    <3>1. k # 0 => k \in 1 .. k
      OBVIOUS
    <3>2. k # 0 => e[k] \in 1 .. RunLength
      BY <2>6, <3>1, EventElements
    <3> QED BY <2>6, <3>1, <3>2
  <2>9. k <= RunLength /\ (open => k < RunLength)
    <3>1. CASE k = 0
      BY <1>2, <3>1
    <3>2. CASE k # 0
      <4>1. open => k # RunLength
        BY <2>1, <2>6, <2>7, <2>8, <3>2 DEF Terminal
      <4> QED BY <1>2, <2>8, <3>2, <4>1
    <3> QED BY <3>1, <3>2
  <2>10. /\ Len(r.chan) <= Capacity /\ Len(r.early) <= Capacity /\ r.seen + Len(r.chan) = k
         /\ \A i \in 1 .. Len(r.chan) : r.chan[i] = r.seen + i
    BY <1>2, <1>3, <2>4, <2>6
  <2>11. Channel(p, r)
    BY <1>2, <2>4, <2>6, <2>9, <2>10 DEF Channel
  <2> QED BY <1>1, <2>3, <2>4, <2>5, <2>11
<1>11. Live(pump.pc) \/ pump.pc \in {"ended", "failed"}
  BY Unlinked DEF Pumps, Live
<1> QED BY <1>8, <1>9, <1>10, <1>11

LEMMA AnsweredStep ==
  ASSUME ClientInv, NEW p \in Prompt, Answered(p)
  PROVE  ClientInv'
<1>1. PICK r \in Ask : r = Subscribed(prompt[p]) /\ Channel(p, r) /\ r.pc = "consuming" /\ r.early = <<>> /\ ~r.overflow
  BY SubscribedIsChannel DEF Answered
<1>2. UNCHANGED <<runtime, home, emitted, conn, link, cursor, pump, listener>>
  BY DEF Answered
<1>3. PICK ps \in [Prompt -> Ask] : ps = [prompt EXCEPT ![p] = r]
  BY Unlinked
<1>4. prompt' = Discarded(ps, Pending \ {p})
  BY <1>1, <1>3 DEF Answered
<1>5. CASE Pending \ {p} # {}
  <2>1. prompt' = ps
    BY <1>4, <1>5 DEF Discarded
  <2> QED BY <1>1, <1>2, <1>3, <2>1, OneStep
<1>6. CASE Pending \ {p} = {}
  <2>1. prompt' = [s \in Prompt |-> [ps[s] EXCEPT !.early = <<>>, !.overflow = FALSE]]
    BY <1>4, <1>6 DEF Discarded
  <2>2. \A s \in Prompt : prompt'[s] = [ps[s] EXCEPT !.early = <<>>, !.overflow = FALSE]
    BY <2>1
  <2>3. ps[p] = r /\ \A s \in Prompt : s # p => ps[s] = prompt[s]
    BY <1>3, Unlinked
  <2>4. prompt'[p] \in Ask /\ Asked(p, prompt[p])'
    <3>1. PICK e : e = [r EXCEPT !.early = <<>>, !.overflow = FALSE]
      OBVIOUS
    <3>2. e \in Ask
      BY <3>1, EmptyChannel DEF Ask
    <3>3. /\ e.seen = r.seen /\ e.chan = r.chan /\ e.early = r.early /\ e.ignored = r.ignored
          /\ e.open = r.open /\ e.pc = r.pc /\ e.out = r.out
      BY <1>1, <3>1 DEF Ask
    <3>4. Channel(p, e)'
      BY <1>1, <1>2, <3>3 DEF Channel
    <3>5. prompt'[p] = e
      BY <2>2, <2>3, <3>1
    <3> QED BY <1>1, <3>2, <3>3, <3>4, <3>5 DEF Asked
  <2>5. ASSUME NEW s \in Prompt, s # p
        PROVE  prompt'[s] \in Ask /\ Asked(s, prompt[s])'
    <3>1. PICK q \in Ask : q = prompt[s] /\ q.pc # "accepted"
      BY <1>6, <2>5, Prompts DEF Pending
    <3>2. PICK e : e = [q EXCEPT !.early = <<>>, !.overflow = FALSE]
      OBVIOUS
    <3>3. prompt'[s] = e
      BY <2>2, <2>3, <2>5, <3>1, <3>2
    <3>4. e \in Ask /\ Asked(s, e)'
      BY <1>2, <3>1, <3>2, ForgottenPrompt
    <3> QED BY <3>3, <3>4
  <2>6. prompt' \in [Prompt -> Ask]
    BY <2>1, <2>4, <2>5
  <2>7. ClientShape' /\ Logged' /\ Linked'
    BY <1>2, <2>6 DEF ClientInv, ClientShape, Logged, Linked
  <2> QED BY <2>4, <2>5, <2>7 DEF ClientInv
<1> QED BY <1>5, <1>6

-----------------------------------------------------------------------------
(* The theorems *)

LEMMA ClientStarts == ClientInit => ClientInv
<1> SUFFICES ASSUME ClientInit
             PROVE  ClientInv
  OBVIOUS
<1>1. Len(<<>>) = 0 /\ 0 \in 0 .. RunLength /\ 0 \in 0 .. Attempts /\ RunLength \in Nat \ {0} /\ Capacity \in Nat
  BY ClientNumbers
<1>2. /\ runtime = [id |-> 1, log |-> <<>>] /\ conn = [state |-> "open", notes |-> <<>>, replay |-> <<>>]
      /\ cursor = [seq |-> 0, runtime |-> 1] /\ pump = [pc |-> "reading", tries |-> 0]
      /\ home = [p \in Prompt |-> 0] /\ emitted = [p \in Prompt |-> 0] /\ prompt = [p \in Prompt |-> Fresh]
      /\ link = "open" /\ listener = "open"
  BY DEF ClientInit
<1>3. ClientShape
  <2>1. runtime \in [id : Nat \ {0}, log : Seq(Note)] /\ conn \in Connections /\ cursor \in [seq : Nat, runtime : Nat]
    BY <1>2, EmptyChannel DEF Connections
  <2>2. home \in [Prompt -> Nat] /\ emitted \in [Prompt -> 0 .. RunLength] /\ pump \in Pumps /\ link \in Links
        /\ listener \in Listening
    BY <1>1, <1>2 DEF Pumps, Links, Listening
  <2>3. prompt \in [Prompt -> Ask]
    BY <1>2, FreshAsk
  <2> QED BY <2>1, <2>2, <2>3 DEF ClientShape
<1>4. /\ runtime.id = 1 /\ runtime.log = <<>> /\ conn.state = "open" /\ conn.notes = <<>> /\ conn.replay = <<>>
      /\ cursor.seq = 0 /\ cursor.runtime = 1 /\ \A p \in Prompt : home[p] = 0 /\ emitted[p] = 0 /\ prompt[p] = Fresh
  BY <1>2
<1>5. Logged
  BY <1>1, <1>4 DEF Logged
<1>6. Linked
  BY <1>1, <1>2, <1>4 DEF Linked, Noted
<1>7. ASSUME NEW p \in Prompt
      PROVE  Asked(p, Fresh)
  BY <1>1, <1>4, FreshAsk DEF Asked, Channel, Unanswered
<1> QED BY <1>3, <1>4, <1>5, <1>6, <1>7 DEF ClientInv

LEMMA ClientSteps == ClientInv /\ [ClientNext]_clientVars => ClientInv'
<1> SUFFICES ASSUME ClientInv, [ClientNext]_clientVars
             PROVE  ClientInv'
  OBVIOUS
<1>1. CASE UNCHANGED clientVars
  BY <1>1 DEF clientVars, ClientInv, ClientShape, Logged, Linked, Asked, Channel, Unanswered, Early
<1>2. ASSUME NEW p \in Prompt, PromptStep(p) \/ SendPrompt(p) \/ Leave(p)
      PROVE  ClientInv'
  BY <1>2, AcceptStep, EmitStep, AnsweredStep, ConsumeStep, SendPromptStep, ConsumerLeavesStep DEF PromptStep
<1>3. CASE PumpStep
  BY <1>3, DeliverStep, DeliverNothingStep, StreamEndsStep DEF PumpStep
<1>4. CASE LinkStep \/ LinkFails
  BY <1>4, ReplayStep, LinkFailsStep, ForgetStep, ConnectNewStep, ConnectSameStep, ConnectFailsStep DEF LinkStep
<1>5. CASE ReadStep \/ Read
  BY <1>5, ReadStepKeeps DEF ReadStep
<1> QED BY <1>1, <1>2, <1>3, <1>4, <1>5 DEF ClientNext

\* A log has no more events than its runs.
LEMMA LogBound ==
  ASSUME ClientInv
  PROVE  Len(runtime.log) <= RunLength * Cardinality(Prompt)
<1>1. PICK log \in Seq(Note) : log = runtime.log
  BY Unlinked
<1>2. PICK n \in Nat : n = Len(log)
  OBVIOUS
<1>3. \A i \in 1 .. n : log[i].run \in Prompt /\ log[i].nth \in 1 .. RunLength
  <2>1. \A i \in 1 .. n : log[i] \in Note
    BY <1>2
  <2> QED BY <2>1 DEF Note
<1>4. \A i \in 1 .. n : log[i].nth = Count(log, log[i].run, i)
  BY <1>1, <1>2 DEF ClientInv, Logged
<1>5. PICK f : f = [i \in 1 .. n |-> <<log[i].run, log[i].nth>>]
  OBVIOUS
<1>6. ASSUME NEW i \in 1 .. n, NEW j \in 1 .. n, i < j
      PROVE  f[i] # f[j]
  <2>1. CASE log[i].run # log[j].run
    BY <1>5, <2>1
  <2>2. CASE log[i].run = log[j].run
    <3>1. PICK p \in Prompt : p = log[i].run /\ p = log[j].run
      BY <1>3, <2>2
    <3>2. Count(log, p, i) < Count(log, p, j)
      BY <1>6, <3>1, CountGrows
    <3>3. Count(log, p, i) \in Nat /\ Count(log, p, j) \in Nat
      BY CountIsNat
    <3>4. log[i].nth # log[j].nth
      <4>1. log[i].nth = Count(log, p, i) /\ log[j].nth = Count(log, p, j)
        BY <1>4, <3>1
      <4>2. Count(log, p, i) # Count(log, p, j)
        BY ONLY <3>2, <3>3
      <4> QED BY <4>1, <4>2
    <3> QED BY <1>5, <3>4
  <2> QED BY <2>1, <2>2
<1>7. f \in [1 .. n -> Prompt \X (1 .. RunLength)]
  BY <1>3, <1>5
<1>8. /\ IsFiniteSet(1 .. RunLength) /\ Cardinality(1 .. RunLength) = RunLength
      /\ Cardinality(1 .. n) = n
  BY ClientNumbers, FS_Interval
<1>9. /\ IsFiniteSet(Prompt \X (1 .. RunLength))
      /\ Cardinality(Prompt \X (1 .. RunLength)) = Cardinality(Prompt) * RunLength
  BY <1>8, ClientNumbers, FS_Product
<1>10. PICK k \in Nat : k = Cardinality(Prompt)
  BY ClientNumbers, FS_CardinalityType
<1>11. ASSUME k * RunLength < n
       PROVE  FALSE
  <2>1. IsFiniteSet(1 .. n)
    BY FS_Interval
  <2>2. PICK i \in 1 .. n, j \in 1 .. n : i # j /\ f[i] = f[j]
    BY <1>7, <1>8, <1>9, <1>10, <1>11, <2>1, FS_PigeonHole
  <2>3. i < j \/ j < i
    BY <2>2
  <2> QED BY <1>6, <2>2, <2>3
<1>12. k * RunLength \in Nat /\ RunLength * k = k * RunLength
  BY <1>10, ClientNumbers
<1> QED BY <1>1, <1>2, <1>10, <1>11, <1>12

LEMMA ClientInvIsSound == ClientInv => StreamSound
<1> SUFFICES ASSUME ClientInv
             PROVE  StreamSound
  OBVIOUS
<1>1. ClientTypeOK
  <2>1. cursor.seq \in 0 .. (RunLength * Cardinality(Prompt))
    <3>1. PICK n \in Nat : n = Len(runtime.log)
      BY Unlinked
    <3>2. PICK b \in Nat : b = RunLength * Cardinality(Prompt)
      BY ClientNumbers, FS_CardinalityType
    <3>3. PICK s \in Nat : s = cursor.seq
      BY Unlinked
    <3>4. s <= n /\ n <= b
      BY <3>1, <3>2, <3>3, Unlinked, LogBound
    <3>5. s \in 0 .. b
      BY ONLY <3>4, n \in Nat, b \in Nat, s \in Nat
    <3> QED BY <3>2, <3>3, <3>5
  <2>2. ASSUME NEW p \in Prompt
        PROVE  /\ Len(prompt[p].chan) <= Capacity /\ Len(prompt[p].early) <= Capacity
               /\ prompt[p].seen \in 0 .. RunLength
    BY Prompts DEF Asked, Channel, Ask
  <2>3. /\ conn.state \in {"open", "failed", "closed"} /\ link \in {"open", "closing", "connecting", "none"}
        /\ pump.pc \in {"reading", "reconnecting", "ended", "failed"} /\ pump.tries \in 0 .. Attempts
        /\ listener \in {"open", "ended", "failed"}
    BY Unlinked DEF Connections, Links, Pumps, Listening
  <2> QED BY <2>1, <2>2, <2>3 DEF ClientTypeOK
<1>2. RunInOrder
  <2>1. ASSUME NEW p \in Prompt
        PROVE  /\ \A i \in DOMAIN prompt[p].chan : prompt[p].chan[i] = prompt[p].seen + i
               /\ prompt[p].out = "terminal" => prompt[p].seen = RunLength
    <3>1. PICK q \in Ask : q = prompt[p] /\ Channel(p, q)
      BY Prompts DEF Asked
    <3>2. DOMAIN q.chan = 1 .. Len(q.chan)
      BY <3>1 DEF Ask, Events
    <3> QED BY <3>1, <3>2 DEF Channel
  <2> QED BY <2>1 DEF RunInOrder
<1>3. NothingDropped
  <2>1. cursor.seq <= Len(runtime.log)
    BY Unlinked
  <2>2. ASSUME NEW p \in Prompt, prompt[p].open, home[p] = runtime.id
        PROVE  prompt[p].seen + Len(prompt[p].chan) = Cardinality({i \in 1 .. cursor.seq : runtime.log[i].run = p})
    BY <2>2, Prompts DEF Asked, Channel, Count, Of
  <2> QED BY <2>1, <2>2 DEF NothingDropped
<1> QED BY <1>1, <1>2, <1>3 DEF StreamSound

\* A prompt consumes the events of its run in order and to the last, and the channel that
\* is open for it has every event of it up to the client's cursor: over early events,
\* overflows, lost connections and new Runtimes (publishEvent, subscribeRun, reconnect).
THEOREM StreamIsSound == ClientSpec => []StreamSound
<1>1. ClientInit => ClientInv
  BY ClientStarts
<1>2. ClientInv /\ [ClientNext]_clientVars => ClientInv'
  BY ClientSteps
<1>3. ClientInv => StreamSound
  BY ClientInvIsSound
<1> QED BY <1>1, <1>2, <1>3, PTL DEF ClientSpec
=============================================================================
