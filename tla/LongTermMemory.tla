--------------------------- MODULE LongTermMemory ---------------------------
(***************************************************************************)
(* MemoryServiceV1 and its use by the kernel: notes kept across sessions in  *)
(* one SQLite file, which the sessions of a project read and the user        *)
(* revokes.  A session that has read a revoked note must not send its        *)
(* transcript to a model again, nor must a fork of it.                       *)
(*                                                                          *)
(* A transaction is one step.  Between them lie the awaits: a start and a    *)
(* management request look their project up first, a fork inherits first and *)
(* copies the messages later, and a write by a tool waits for its approval.  *)
(* A project, like the user, keeps one note (one key): the revisions of one  *)
(* key are what conflicts.  Importing a batch is a sequence of such writes   *)
(* in one transaction.                                                       *)
(***************************************************************************)
EXTENDS Naturals, FiniteSets

CONSTANTS
  Session,
  Nobody,        \* no session: who asks with the management command
  Dir,           \* workspaces, each an identity of its own
  Project,       \* project ids, the random ones still to come included
  Home,          \* [Session -> Dir]
  Manager,       \* requests of the management command under way
  Operation,     \* operation ids
  MaxNotes,      \* bound: ids of notes
  MaxChanges     \* bound: management requests and writes of tools

\* A project is a positive number: 0 stands for none, and for the user as an owner.
ASSUME MemoryAssumption ==
  /\ Project \subseteq Nat \ {0} /\ 1 \in Project /\ Nobody \notin Session
  /\ Home \in [Session -> Dir] /\ Operation # {} /\ MaxNotes \in Nat \ {0}

VARIABLES
  mode, grant,   \* [Project -> mode], [Project -> user_access]
  identity,      \* [Dir -> project_id], 0 for none
  note,          \* [Owner -> the row of memories]
  notes,         \* ids given out
  exposure,      \* rows of exposures
  blocked,       \* blocked_sessions
  receipt,       \* operations with a row in receipts
  run,           \* [Session -> the run under way, its memoryAccess and whether it has the tools]
  history,       \* sessions with messages
  carries,       \* [Session -> what of the notes its messages and context hold]
  fork,          \* [Session -> the session it is being forked from, or Nobody, and what
                 \* that one held, with an exposure, when its exposures were inherited]
  overtaken,     \* forks that copied what their source read after they had inherited, and
                 \* the forks of these
  manager,       \* [Manager -> its directory and the project and mode it has looked up]
  request,       \* [Operation -> the request sent under that id]
  effect,        \* [Operation -> how often it took effect]
  withdrawn,     \* [Project -> how often it was turned off or lost the user's notes]
  changes

memoryVars == <<mode, grant, identity, note, notes, exposure, blocked, receipt, run, history,
                carries, fork, overtaken, manager, request, effect, withdrawn, changes>>

User == 0                      \* the owner user:local; a project is a positive number
Owner == Project \cup {User}
Mode == {"off", "read-only", "explicit"}
NoNote == [id |-> 0, revision |-> 0, expiry |-> "none"]
Idle == [stage |-> "idle", project |-> 0, tools |-> FALSE]
NoFork == [from |-> Nobody, held |-> {}]
NoManager == [dir |-> CHOOSE d \in Dir : TRUE, project |-> 0, mode |-> "off"]
FirstHome == CHOOSE d \in Dir : \E s \in Session : Home[s] = d   \* registered for project 1
Unused == [by |-> Nobody, action |-> "none", owner |-> User, id |-> 0, revision |-> 0,
           expiry |-> "none"]

MemoryTypeOK ==
  /\ mode \in [Project -> Mode] /\ grant \in [Project -> BOOLEAN]
  /\ identity \in [Dir -> Project \cup {0}]
  /\ \A o \in Owner : note[o].id <= notes /\ (note[o].id = 0 <=> note[o].revision = 0)
  /\ notes <= MaxNotes
  /\ \A o, q \in Owner : note[o].id = note[q].id => o = q \/ note[o].id = 0
  /\ exposure \subseteq Session \X Project \X (1 .. MaxNotes)
  /\ blocked \subseteq Session /\ receipt \subseteq Operation
  /\ \A s \in Session :
       run[s].stage \in {"idle", "start", "with", "without"} /\ run[s].project \in Project \cup {0}

MemoryInit ==
  /\ mode = [p \in Project |-> IF p = 1 THEN "explicit" ELSE "off"]
  /\ grant = [p \in Project |-> p = 1]
  /\ identity = [d \in Dir |-> IF d = FirstHome THEN 1 ELSE 0]
  /\ manager = [h \in Manager |-> NoManager]
  /\ note = [o \in Owner |-> IF o = User THEN [id |-> 1, revision |-> 1, expiry |-> "none"]
                             ELSE NoNote]
  /\ notes = 1 /\ exposure = {} /\ blocked = {} /\ receipt = {}
  /\ run = [s \in Session |-> Idle] /\ history = {} /\ carries = [s \in Session |-> {}]
  /\ fork = [s \in Session |-> NoFork] /\ overtaken = {}
  /\ request = [o \in Operation |-> Unused] /\ effect = [o \in Operation |-> 0]
  /\ withdrawn = [p \in Project |-> 0] /\ changes = 0

(***************************************************************************)
(* The tables.                                                              *)
(***************************************************************************)

Registered(p) == \E d \in Dir : identity[d] = p
Known(p) ==
  \/ p = 1 \/ Registered(p) \/ mode[p] # "off" \/ withdrawn[p] > 0 \/ note[p].id # 0
  \/ (\E s \in Session : run[s].project = p) \/ (\E h \in Manager : manager[h].project = p)

\* project: the id registered for a directory, or a new one, turned off.
Lookup(d, p) ==
  \/ identity[d] = p /\ p # 0 /\ UNCHANGED identity
  \/ identity[d] = 0 /\ p \in Project /\ ~ Known(p) /\ identity' = [identity EXCEPT ![d] = p]

\* A check of the blocked sessions only.
RevokedIfBlocked(s) == s \in blocked

\* assertSession: blocked, or exposed to a note that has expired.
Revoked(s) ==
  \/ s \in blocked
  \/ \E e \in exposure, o \in Owner :
       e[1] = s /\ note[o].id = e[3] /\ note[o].expiry = "past"

\* owner: what a run may read and write; the host may do everything.
MayRead(p, o) == mode[p] # "off" /\ (o = p \/ (o = User /\ grant[p]))
MayWrite(p, o) == mode[p] = "explicit" /\ o = p

Readable(o) == note[o].id # 0 /\ note[o].expiry # "past"
Item(p, o) == <<note[o].id, p, withdrawn[p]>>

(***************************************************************************)
(* A run: startPrompt, the tools of memory, beforeModel.                    *)
(***************************************************************************)

StartRead(s) ==
  /\ run[s].stage = "idle" /\ fork[s].from = Nobody
  /\ \E p \in Project :
       /\ Lookup(Home[s], p)
       /\ run' = [run EXCEPT ![s] = [stage |-> "start", project |-> p, tools |-> mode[p] # "off"]]
  /\ UNCHANGED <<mode, grant, note, notes, exposure, blocked, receipt, history, carries, fork,
                 overtaken, manager, request, effect, withdrawn, changes>>

\* The notes that match the prompt are in the context of the run.  A search that is refused by
\* now ends the start of a session that has messages.
EnterRun(s) ==
  LET p == run[s].project IN
  /\ run[s].stage = "start"
  /\ \/ /\ Revoked(s) \/ (run[s].tools /\ mode[p] = "off" /\ s \in history)
        /\ run' = [run EXCEPT ![s] = Idle] /\ UNCHANGED <<exposure, carries, history>>
     \/ /\ ~ Revoked(s) /\ run[s].tools /\ mode[p] # "off"
        /\ \E found \in SUBSET {o \in Owner : Readable(o) /\ MayRead(p, o)} :
             /\ exposure' = exposure \cup {<<s, p, note[o].id>> : o \in found}
             /\ carries' = [carries EXCEPT ![s] = @ \cup {Item(p, o) : o \in found}]
        /\ history' = history \cup {s} /\ run' = [run EXCEPT ![s] = [stage |-> "with", project |-> p, tools |-> TRUE]]
     \/ /\ ~ Revoked(s) /\ (~ run[s].tools \/ (mode[p] = "off" /\ s \notin history))
        /\ history' = history \cup {s}
        /\ run' = [run EXCEPT ![s] = [stage |-> "with", project |-> p, tools |-> FALSE]]
        /\ UNCHANGED <<exposure, carries>>
  /\ UNCHANGED <<mode, grant, identity, note, notes, blocked, receipt, fork, overtaken, manager,
                 request, effect, withdrawn, changes>>

\* An unavailable file: a session with messages is refused, an empty one runs without notes.
StartUnavailable(s) ==
  /\ run[s].stage \in {"idle", "start"} /\ fork[s].from = Nobody
  /\ IF s \in history THEN run' = [run EXCEPT ![s] = Idle] /\ UNCHANGED history
     ELSE /\ run' = [run EXCEPT ![s] = [stage |-> "without", project |-> 0, tools |-> FALSE]]
          /\ history' = history \cup {s}
  /\ UNCHANGED <<mode, grant, identity, note, notes, exposure, blocked, receipt, carries, fork,
                 overtaken, manager, request, effect, withdrawn, changes>>

\* A read that leaves no trace of who saw the note.
ExposeNothing(s, p, o) == exposure

\* expose.
Expose(s, p, o) == exposure \cup {<<s, p, note[o].id>>}

\* memory.get and memory.search.
ToolRead(s, o) ==
  LET p == run[s].project IN
  /\ run[s].stage = "with" /\ run[s].tools /\ MayRead(p, o) /\ Readable(o) /\ ~ Revoked(s)
  /\ exposure' = Expose(s, p, o)
  /\ carries' = [carries EXCEPT ![s] = @ \cup {Item(p, o)}]
  /\ UNCHANGED <<mode, grant, identity, note, notes, blocked, receipt, run, history, fork,
                 overtaken, manager, request, effect, withdrawn, changes>>

\* The calls of tools that wait for their approval end with the run.
LeaveRun(s) ==
  /\ run[s].stage \in {"with", "without"} /\ run' = [run EXCEPT ![s] = Idle]
  /\ request' = [op \in Operation |->
       IF request[op].by = s /\ op \notin receipt THEN Unused ELSE request[op]]
  /\ UNCHANGED <<mode, grant, identity, note, notes, exposure, blocked, receipt, history, carries,
                 fork, overtaken, manager, effect, withdrawn, changes>>

\* beforeModel: whether a request of the run goes out.
Sends(s) == run[s].stage = "without" \/ (run[s].stage = "with" /\ ~ Revoked(s))

(***************************************************************************)
(* Writes.  A client that has no answer sends its request again under the   *)
(* same operation id.                                                       *)
(***************************************************************************)

\* A tool of a run, or the management command, asks for a change of a note.
Ask(op, by, p) ==
  /\ request[op] = Unused
  /\ \E action \in {"upsert", "forget"}, o \in {p, User}, expiry \in {"none", "ahead"} :
       /\ by # Nobody => o = p
       /\ action = "forget" => note[o].id # 0 /\ expiry = "none"
       /\ request' = [request EXCEPT ![op] =
            [by |-> by, action |-> action, owner |-> o, id |-> note[o].id,
             revision |-> note[o].revision, expiry |-> expiry]]
  /\ UNCHANGED <<mode, grant, identity, note, notes, exposure, blocked, receipt, run, history,
                 carries, fork, overtaken, effect, withdrawn>>

AskTool(op, s) ==
  /\ run[s].stage = "with" /\ run[s].tools /\ ~ Revoked(s)
  /\ Ask(op, s, run[s].project) /\ UNCHANGED manager
  /\ changes < MaxChanges /\ changes' = changes + 1

AskHost(op, h) ==
  /\ manager[h].project # 0 /\ Ask(op, Nobody, manager[h].project) /\ UNCHANGED changes
  /\ manager' = [manager EXCEPT ![h] = NoManager]

\* Only the revision is compared, as in a store without receipts.
FreshByRevision(op) == TRUE

\* receipt.
Fresh(op) == op \notin receipt

\* The sessions of one project only.
ExposedInProject(id, o) == {e[1] : e \in {x \in exposure : x[3] = id /\ x[2] = o}}

\* Sessions that have seen a note.
Exposed(id, o) == {e[1] : e \in {x \in exposure : x[3] = id}}

\* write and forget.
Deliver(op) ==
  LET r == request[op]
      old == note[r.owner] IN
  /\ r # Unused /\ Fresh(op)
  /\ r.by # Nobody => MayWrite(r.owner, r.owner) /\ run[r.by].stage = "with" /\ ~ Revoked(r.by)
  /\ old.revision = r.revision
  /\ \/ /\ r.action = "upsert" /\ old.id = 0 => notes < MaxNotes
        /\ r.action = "upsert"
        /\ note' = [note EXCEPT ![r.owner] =
             [id |-> IF old.id = 0 THEN notes + 1 ELSE old.id, revision |-> old.revision + 1,
              expiry |-> r.expiry]]
        /\ notes' = IF old.id = 0 THEN notes + 1 ELSE notes
        /\ UNCHANGED blocked
     \/ /\ r.action = "forget" /\ old.id = r.id
        /\ blocked' = blocked \cup Exposed(r.id, r.owner)
        /\ note' = [note EXCEPT ![r.owner] = NoNote] /\ UNCHANGED notes
  /\ receipt' = receipt \cup {op} /\ effect' = [effect EXCEPT ![op] = @ + 1]
  /\ UNCHANGED <<mode, grant, identity, exposure, run, history, carries, fork, overtaken, manager,
                 request, withdrawn, changes>>

Expire(o) ==
  /\ note[o].expiry = "ahead" /\ note' = [note EXCEPT ![o].expiry = "past"]
  /\ UNCHANGED <<mode, grant, identity, notes, exposure, blocked, receipt, run, history, carries,
                 fork, overtaken, manager, request, effect, withdrawn, changes>>

(***************************************************************************)
(* manage: configure and rebind.                                            *)
(***************************************************************************)

Manage(h, d) ==
  /\ manager[h].project = 0 /\ changes < MaxChanges /\ changes' = changes + 1
  /\ \E p \in Project :
       /\ Lookup(d, p)
       /\ manager' = [manager EXCEPT ![h] = [dir |-> d, project |-> p, mode |-> mode[p]]]
  /\ UNCHANGED <<mode, grant, note, notes, exposure, blocked, receipt, run, history, carries, fork,
                 overtaken, request, effect, withdrawn>>

\* A change of the mode alone withdraws.
WithdrawsByMode(p, m, g) == m = "off" /\ mode[p] # "off"

Withdraws(p, m, g) == (m = "off" /\ mode[p] # "off") \/ (~ g /\ grant[p])

Configure(h, m, g) ==
  LET p == manager[h].project IN
  /\ p # 0
  /\ blocked' = IF Withdraws(p, m, g) THEN blocked \cup {e[1] : e \in {x \in exposure : x[2] = p}}
                ELSE blocked
  /\ withdrawn' = IF (m = "off" /\ mode[p] # "off") \/ (~ g /\ grant[p])
                  THEN [withdrawn EXCEPT ![p] = @ + 1] ELSE withdrawn
  /\ mode' = [mode EXCEPT ![p] = m] /\ grant' = [grant EXCEPT ![p] = g]
  /\ manager' = [manager EXCEPT ![h] = NoManager]
  /\ UNCHANGED <<identity, note, notes, exposure, receipt, run, history, carries, fork, overtaken,
                 request, effect, changes>>

\* The old place keeps the project it had.
MovedBoth(d, target) == [identity EXCEPT ![d] = target]

\* The identities after a move.
Moved(d, target) == [e \in Dir |-> IF e = d THEN target ELSE IF identity[e] = target THEN 0
                                   ELSE identity[e]]

Rebind(h, target) ==
  LET p == manager[h].project IN
  /\ p # 0 /\ Known(target)
  /\ target # p => note[p].id = 0 /\ manager[h].mode = "off"
  /\ identity' = Moved(manager[h].dir, target)
  /\ manager' = [manager EXCEPT ![h] = NoManager]
  /\ UNCHANGED <<mode, grant, note, notes, exposure, blocked, receipt, run, history, carries, fork,
                 overtaken, request, effect, withdrawn, changes>>

(***************************************************************************)
(* forkSession.                                                             *)
(***************************************************************************)

\* Only those that are blocked already are told apart.
InheritedBlock(s, t) == exposure

\* inheritSession, of what a session was exposed to.
Inherited(s, t) == exposure \cup {<<t, e[2], e[3]>> : e \in {x \in exposure : x[1] = s}}

Inherit(s, t) ==
  /\ s \in history /\ t \notin history /\ s # t /\ run[t].stage = "idle" /\ fork[t].from = Nobody
  /\ Home[s] = Home[t]
  /\ fork' = [fork EXCEPT ![t] =
       [from |-> s, held |-> IF s \in overtaken THEN {} ELSE carries[s]]]
  /\ exposure' = Inherited(s, t)
  /\ blocked' = IF s \in blocked THEN blocked \cup {t} ELSE blocked
  /\ UNCHANGED <<mode, grant, identity, note, notes, receipt, run, history, carries, overtaken,
                 manager, request, effect, withdrawn, changes>>

\* The messages are copied up to throughMessage, all of them or none that carries a note.
Copy(t) ==
  LET s == fork[t].from IN
  /\ s # Nobody /\ fork' = [fork EXCEPT ![t] = NoFork] /\ history' = history \cup {t}
  /\ \E copied \in {{}, carries[s]} :
       /\ carries' = [carries EXCEPT ![t] = copied]
       /\ overtaken' = IF copied \subseteq fork[t].held THEN overtaken ELSE overtaken \cup {t}
  /\ UNCHANGED <<mode, grant, identity, note, notes, exposure, blocked, receipt, run, manager,
                 request, effect, withdrawn, changes>>

MemoryNext ==
  \/ \E s \in Session :
       \/ StartRead(s) \/ EnterRun(s) \/ StartUnavailable(s) \/ LeaveRun(s) \/ Copy(s)
       \/ \E o \in Owner : ToolRead(s, o)
       \/ \E op \in Operation : AskTool(op, s)
       \/ \E t \in Session : Inherit(s, t)
  \/ \E op \in Operation : Deliver(op) \/ \E h \in Manager : AskHost(op, h)
  \/ \E h \in Manager, d \in Dir : Manage(h, d)
  \/ \E h \in Manager, p \in Project : Rebind(h, p)
  \/ \E h \in Manager, m \in Mode, g \in BOOLEAN : Configure(h, m, g)
  \/ \E o \in Owner : Expire(o)

MemorySpec == MemoryInit /\ [][MemoryNext]_memoryVars

(***************************************************************************)
(* Properties.                                                              *)
(***************************************************************************)

\* What may no longer be sent: a note that is forgotten or expired, and what was read under
\* a permission that has been withdrawn since.
Withdrawn(i) ==
  \/ \A o \in Owner : note[o].id # i[1]
  \/ \E o \in Owner : note[o].id = i[1] /\ note[o].expiry = "past"
  \/ withdrawn[i[2]] > i[3]

\* No request goes to a model with a revoked note in its transcript, of a session that read
\* the note itself or of a fork of one, unless the fork copied a message of its source that
\* is newer than what it had inherited (assertSession, expose, inheritSession).
RevokedNotSent == \A s \in Session \ overtaken : Sends(s) => \A i \in carries[s] : ~ Withdrawn(i)

\* An operation takes effect once, however often and late it is sent: a repeated write does
\* not bring a forgotten note back (receipt).
EffectOnce == \A op \in Operation : effect[op] <= 1

\* A project is that of one directory: a directory that was moved away leaves nothing to
\* whatever takes its place (rebind).
OneHome == \A d, e \in Dir : identity[d] = identity[e] => d = e \/ identity[d] = 0

\* What holds of the notes in every state: no request carries a revoked note, an operation
\* takes effect once, and a project has one home (assertSession, receipt, rebind).
MemorySound == MemoryTypeOK /\ RevokedNotSent /\ EffectOnce /\ OneHome
=============================================================================
