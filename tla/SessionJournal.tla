--------------------------- MODULE SessionJournal ---------------------------
(***************************************************************************)
(* The JSONL session journal, JsonlSessionJournalV3: one file of commits    *)
(* per session, a projection cache per session, a catalog made of a base    *)
(* file, a state file with the base's checksum and a file of deltas, one    *)
(* pending marker per session, and lock files.  Processes (hosts) share the *)
(* directory; a host runs several asynchronous operations (actors).         *)
(*                                                                         *)
(* A step is one call that reads or changes the disk.  Writing through a    *)
(* temporary file and a rename is atomic; appending to a file is not: the   *)
(* line is partial until its newline is written.  A host may crash and a    *)
(* write may fail between any two steps.                                    *)
(***************************************************************************)
EXTENDS SessionLog, FiniteSets

CONSTANTS
  Host,
  Actor,
  HostOf,      \* [Actor -> Host]
  May,         \* [Actor -> SUBSET Session]: the sessions an actor appends to
  Running,     \* the hosts that are up at the start, over an empty store
  LiveScrub,   \* whether deepScrub is called while the host is serving
  MaxFaults    \* bound on crashes and failed writes

\* The lock files, and the two kinds of file that are appended to.
Lock == Session \cup {"catalog"}
File == Session \cup {"catalog"}

Free   == "free"
Orphan == "orphan"     \* a lock file whose process has died
Clean  == "clean"

\* What the instances of the run assume of the constants.
JournalAssumption ==
  /\ HostOf \in [Actor -> Host]
  /\ May \in [Actor -> SUBSET Session]
  /\ Running \subseteq Host
  /\ LiveScrub \in BOOLEAN
  /\ MaxFaults \in Nat
  /\ IsFiniteSet(Commit) /\ Session # {}
  /\ NoCommit \notin Commit \cup Proposal
  /\ "catalog" \notin Session
  /\ Actor \cap {Free, Orphan, Clean} = {}

\* One process whose operations append to sessions of their own, scrubbed only while it
\* starts.
Apart ==
  /\ ~LiveScrub
  /\ \A a, b \in Actor : HostOf[a] = HostOf[b] /\ (a # b => May[a] \cap May[b] = {})

\* Any number of processes and of operations on shared sessions, scrubbed while they serve;
\* all are up, none dies and no write fails.
Steady ==
  /\ MaxFaults = 0
  /\ \A a \in Actor : HostOf[a] \in Running

VARIABLES
  tail,     \* [File -> Clean or the actor whose partial last line it is]
  bad,      \* the files that contain a complete line which does not parse
  proj,     \* [Session -> revision of the projection cache], 0 none
  base,     \* [Session -> revision in catalog.json], 0 not listed
  mark,     \* {the contents whose checksum catalog-state.json holds}, {} no file
  overlay,  \* [Session -> revision of the last delta record], 0 none
  pending,  \* the sessions with a pending marker
  lock,     \* [Lock -> Free, Orphan or the actor that created the file]
  up,       \* [Host -> "down", "starting", "up"]
  pc,       \* [Actor -> the next call of its operation]
  sess,     \* [Actor -> the session it works on]
  com,      \* [Actor -> the commit it appends]
  seen,     \* [Actor -> the records it has parsed]
  fresh,    \* [Actor -> whether its commit is no duplicate]
  todo,     \* [Actor -> the sessions a start or a scrub has yet to visit]
  view,     \* [Actor -> the catalog a scrub builds]
  doomed,   \* the actors that found their lock stale and will unlink it
  faults

disk   == <<tail, bad, proj, base, mark, overlay, pending>>
memory == <<sess, com, seen, fresh, todo, view>>
vars   == <<logVars, disk, memory, lock, up, pc, doomed, faults>>

\* readCatalogUnlocked: the deltas over the base, unless either is rejected.
Catalog(s)   == IF overlay[s] # 0 THEN overlay[s] ELSE base[s]
CatalogValid == mark = {base} /\ "catalog" \notin bad
Occurs(c, q) == \E i \in 1 .. Len(q) : q[i] = c

\* parseJournal accepts the file: no garbage line, every commit at its revision.
Readable(s) ==
  /\ s \notin bad
  /\ \A i \in 1 .. Len(log[s]) : made[log[s][i]] = [session |-> s, revision |-> i]

JournalInit ==
  /\ LogInit
  /\ tail = [f \in File |-> Clean]
  /\ bad = {}
  /\ proj = [s \in Session |-> 0]
  /\ base = [s \in Session |-> 0]
  /\ mark = IF Running = {} THEN {} ELSE {base}
  /\ overlay = [s \in Session |-> 0]
  /\ pending = {}
  /\ lock = [l \in Lock |-> Free]
  /\ up = [h \in Host |-> IF h \in Running THEN "up" ELSE "down"]
  /\ pc = [a \in Actor |-> "idle"]
  /\ sess = [a \in Actor |-> CHOOSE s \in Session : TRUE]
  /\ com = [a \in Actor |-> NoCommit]
  /\ seen = [a \in Actor |-> <<>>]
  /\ fresh = [a \in Actor |-> FALSE]
  /\ todo = [a \in Actor |-> {}]
  /\ view = [a \in Actor |-> [s \in Session |-> 0]]
  /\ doomed = {}
  /\ faults = 0

-----------------------------------------------------------------------------
(* The order of the calls of an operation: the one that follows each.       *)

\* Fault: the marker is removed once the projection is written.
ThenClearedEarly ==
  [pend |-> "append", append |-> "appending", appending |-> "project",
   project |-> "clear", catalog |-> "delta", delta |-> "deltaing",
   rec_repair |-> "rec_project", rec_project |-> "rec_delta", rec_delta |-> "rec_deltaing",
   rec_deltaing |-> "rec_unlink"]

Then ==
  [pend |-> "append", append |-> "appending", appending |-> "project",
   project |-> "catalog", catalog |-> "delta", delta |-> "deltaing",
   rec_repair |-> "rec_project", rec_project |-> "rec_delta", rec_delta |-> "rec_deltaing",
   rec_deltaing |-> "rec_unlink"]

Goto(a, label) == pc' = [pc EXCEPT ![a] = label]

\* The local variables of the operations that end with their actors' last call.
Forget(who) ==
  /\ com' = [a \in Actor |-> IF a \in who THEN NoCommit ELSE com[a]]
  /\ seen' = [a \in Actor |-> IF a \in who THEN <<>> ELSE seen[a]]
  /\ fresh' = [a \in Actor |-> fresh[a] /\ a \notin who]
  /\ todo' = [a \in Actor |-> IF a \in who THEN {} ELSE todo[a]]
  /\ view' = [a \in Actor |-> [s \in Session |-> IF a \in who THEN 0 ELSE view[a][s]]]
  /\ UNCHANGED sess

Return(a) == Goto(a, "idle") /\ Forget({a})

\* The lock an actor is waiting for.
Wanted(a) == IF pc[a] = "lock" THEN sess[a] ELSE "catalog"
Waiting(a) == pc[a] \in {"lock", "catalog", "open_lock", "scrub_lock", "list_lock"}

\* Fault: the lock belongs to the process, whose operations all pass.
AcquireByProcess(a, l, label) ==
  /\ a \notin doomed
  /\ lock[l] \in {Free, HostOf[a]}
  /\ lock' = [lock EXCEPT ![l] = HostOf[a]]
  /\ Goto(a, label)
  /\ UNCHANGED <<logVars, disk, memory, up, doomed, faults>>

\* withLock: create the file exclusively.
Acquire(a, l, label) ==
  /\ a \notin doomed
  /\ lock[l] = Free
  /\ lock' = [lock EXCEPT ![l] = a]
  /\ Goto(a, label)
  /\ UNCHANGED <<logVars, disk, memory, up, doomed, faults>>

\* isStaleLock, then unlink: two calls, and the second removes what it finds.
\* A living holder is assumed to finish within STALE_LOCK_MS.
SeeStale(a) ==
  /\ Waiting(a)
  /\ a \notin doomed
  /\ lock[Wanted(a)] = Orphan
  /\ doomed' = doomed \cup {a}
  /\ UNCHANGED <<logVars, disk, memory, lock, up, pc, faults>>

UnlinkStale(a) ==
  /\ a \in doomed
  /\ lock' = [lock EXCEPT ![Wanted(a)] = Free]
  /\ doomed' = doomed \ {a}
  /\ UNCHANGED <<logVars, disk, memory, up, pc, faults>>

-----------------------------------------------------------------------------
(* appendCommit *)

\* The repository builds a commit on the cached projection, or a client
\* retries one it has no receipt for.
Begin(a, s, c) ==
  /\ up[HostOf[a]] = "up"
  /\ pc[a] = "idle"
  /\ s \in May[a]
  /\ \/ Make(c, s, proj[s] + 1)
     \/ /\ made[c] # NoCommit /\ made[c].session = s
        /\ c \notin acked
        /\ \A b \in Actor : com[b] = c => pc[b] = "idle"
        /\ UNCHANGED logVars
  /\ sess' = [sess EXCEPT ![a] = s]
  /\ com' = [com EXCEPT ![a] = c]
  /\ Goto(a, "lock")
  /\ UNCHANGED <<disk, seen, fresh, todo, view, lock, up, doomed, faults>>

\* Faults: any revision up to the head is taken; a commit whose revision is
\* taken counts as a duplicate.
DecisionAnyRevision(c, parsed) ==
  IF Occurs(c, parsed) THEN "project"
  ELSE IF made[c].revision > Len(parsed) + 1 THEN "abort" ELSE "pend"

DecisionByRevision(c, parsed) ==
  IF made[c].revision <= Len(parsed) THEN "project"
  ELSE IF made[c].revision # Len(parsed) + 1 THEN "abort" ELSE "pend"

\* findDuplicate, then assertSessionCommitAgainstHeadV3.
Decision(c, parsed) ==
  IF Occurs(c, parsed) THEN "project"
  ELSE IF made[c].revision # Len(parsed) + 1 THEN "abort" ELSE "pend"

ReadJournal(a) ==
  LET s == sess[a] IN
  /\ pc[a] = "read"
  /\ IF ~Readable(s)
     THEN Goto(a, "abort") /\ UNCHANGED <<seen, fresh>>
     ELSE /\ seen' = [seen EXCEPT ![a] = log[s]]
          /\ fresh' = [fresh EXCEPT ![a] = Decision(com[a], log[s]) = "pend"]
          /\ Goto(a, IF tail[s] # Clean THEN "repair" ELSE Decision(com[a], log[s]))
  /\ UNCHANGED <<logVars, disk, sess, com, todo, view, lock, up, doomed, faults>>

\* repairTail truncates the file to the length parsed before, whatever was
\* written since; a file that has become shorter is filled up with zeros.
Truncate(s, parsed) ==
  /\ log' = [log EXCEPT ![s] = SubSeq(@, 1, IF Len(@) < Len(parsed) THEN Len(@) ELSE Len(parsed))]
  /\ tail' = [tail EXCEPT ![s] = IF Len(log[s]) < Len(parsed) THEN Orphan ELSE Clean]
  /\ bad' = bad \ {s}
  /\ UNCHANGED <<made, acked, proj, base, mark, overlay, pending>>

RepairTail(a) ==
  /\ pc[a] \in {"repair", "rec_repair"}
  /\ Truncate(sess[a], seen[a])
  /\ Goto(a, IF pc[a] = "repair" THEN Decision(com[a], seen[a])
             ELSE IF seen[a] = <<>> THEN "rec_unlink" ELSE Then[pc[a]])
  /\ UNCHANGED <<memory, lock, up, doomed, faults>>

MarkPending(a) ==
  /\ pc[a] = "pend"
  /\ pending' = pending \cup {sess[a]}
  /\ Goto(a, Then[pc[a]])
  /\ UNCHANGED <<logVars, tail, bad, proj, base, mark, overlay, memory, lock, up, doomed, faults>>

\* The first bytes of a line, and its last: an interrupted or a foreign
\* partial line in between makes the line unreadable.
BeginLine(a, f) == tail' = [tail EXCEPT ![f] = IF tail[f] = Clean THEN a ELSE Orphan]

EndLine(a, f) ==
  /\ tail' = [tail EXCEPT ![f] = Clean]
  /\ bad' = IF tail[f] = a THEN bad ELSE bad \cup {f}

AppendRecord(a) ==
  /\ pc[a] = "append"
  /\ BeginLine(a, sess[a])
  /\ Goto(a, Then[pc[a]])
  /\ UNCHANGED <<logVars, bad, proj, base, mark, overlay, pending, memory, lock, up, doomed, faults>>

AppendSynced(a) ==
  LET s == sess[a] IN
  /\ pc[a] = "appending"
  /\ EndLine(a, s)
  /\ log' = IF tail[s] = a THEN [log EXCEPT ![s] = Append(log[s], com[a])] ELSE log
  /\ seen' = [seen EXCEPT ![a] = Append(seen[a], com[a])]
  /\ Goto(a, Then[pc[a]])
  /\ UNCHANGED <<made, acked, proj, base, mark, overlay, pending, sess, com, fresh, todo, view,
                 lock, up, doomed, faults>>

WriteProjection(a) ==
  /\ pc[a] \in {"project", "rec_project"}
  /\ proj' = [proj EXCEPT ![sess[a]] = Len(seen[a])]
  /\ Goto(a, Then[pc[a]])
  /\ UNCHANGED <<logVars, tail, bad, base, mark, overlay, pending, memory, lock, up, doomed, faults>>

\* appendCatalogDeltaUnlocked does not repair the tail it appends to.
AppendDelta(a) ==
  /\ pc[a] \in {"delta", "rec_delta"}
  /\ BeginLine(a, "catalog")
  /\ Goto(a, Then[pc[a]])
  /\ UNCHANGED <<logVars, bad, proj, base, mark, overlay, pending, memory, lock, up, doomed, faults>>

DeltaSynced(a) ==
  /\ pc[a] \in {"deltaing", "rec_deltaing"}
  /\ EndLine(a, "catalog")
  /\ overlay' = IF tail["catalog"] = a THEN [overlay EXCEPT ![sess[a]] = Len(seen[a])]
                ELSE overlay
  /\ IF pc[a] = "rec_deltaing"
     THEN Goto(a, Then[pc[a]]) /\ UNCHANGED lock
     ELSE /\ lock' = [lock EXCEPT !["catalog"] = Free]
          /\ Goto(a, IF fresh[a] THEN "clear" ELSE "receipt")
  /\ UNCHANGED <<logVars, proj, base, mark, pending, memory, up, doomed, faults>>

ClearPending(a) ==
  /\ pc[a] = "clear"
  /\ pending' = pending \ {sess[a]}
  /\ Goto(a, "receipt")
  /\ UNCHANGED <<logVars, tail, bad, proj, base, mark, overlay, memory, lock, up, doomed, faults>>

\* The lock file is unlinked, whoever created it, and the receipt returned.
Receipt(a) ==
  /\ pc[a] = "receipt"
  /\ lock' = [lock EXCEPT ![sess[a]] = Free]
  /\ acked' = acked \cup {com[a]}
  /\ Return(a)
  /\ UNCHANGED <<made, log, disk, up, doomed, faults>>

Abort(a) ==
  /\ pc[a] = "abort"
  /\ lock' = [lock EXCEPT ![sess[a]] = Free]
  /\ Return(a)
  /\ UNCHANGED <<logVars, disk, up, doomed, faults>>

\* LOCK_TIMEOUT_MS.
GiveUp(a) ==
  /\ Waiting(a)
  /\ a \notin doomed
  /\ lock[Wanted(a)] # Free
  /\ Goto(a, IF pc[a] = "catalog" THEN "abort" ELSE "idle")
  /\ up' = IF pc[a] = "open_lock" THEN [up EXCEPT ![HostOf[a]] = "down"] ELSE up
  /\ UNCHANGED <<logVars, disk, memory, lock, doomed, faults>>

-----------------------------------------------------------------------------
(* initialize, with the ordinary and the deep path, and deepScrub           *)

Start(a) ==
  /\ up[HostOf[a]] = "down"
  /\ up' = [up EXCEPT ![HostOf[a]] = "starting"]
  /\ Goto(a, "open_lock")
  /\ UNCHANGED <<logVars, disk, memory, lock, doomed, faults>>

Scrub(a) ==
  /\ LiveScrub
  /\ up[HostOf[a]] = "up"
  /\ pc[a] = "idle"
  /\ Goto(a, "scrub_lock")
  /\ UNCHANGED <<logVars, disk, memory, lock, up, doomed, faults>>

\* readCatalogUnlocked validates the base against the state file and every
\* delta line, truncates a partial last one, and the pending markers are listed.
OpenFast(a) ==
  /\ pc[a] = "open"
  /\ mark # {}
  /\ IF CatalogValid
     THEN /\ tail' = [tail EXCEPT !["catalog"] = Clean]
          /\ todo' = [todo EXCEPT ![a] = pending]
          /\ Goto(a, "recover")
     ELSE Goto(a, "abort_open") /\ UNCHANGED <<tail, todo>>
  /\ UNCHANGED <<logVars, bad, proj, base, mark, overlay, pending, sess, com, seen, fresh, view,
                 lock, up, doomed, faults>>

\* PRAXIS_SESSION_SCRUB=deep, or a store without the state file.
OpenDeep(a) ==
  /\ pc[a] \in {"open", "scrub"}
  /\ todo' = [todo EXCEPT ![a] = Session]
  /\ view' = [view EXCEPT ![a] = [s \in Session |-> 0]]
  /\ Goto(a, "scan")
  /\ UNCHANGED <<logVars, disk, sess, com, seen, fresh, lock, up, doomed, faults>>

\* recoverPendingUnlocked, one marker: it holds the catalog lock but not the
\* session's.  A marker that has gone meanwhile is an error.
RecoverRead(a, s) ==
  /\ pc[a] = "recover"
  /\ s \in todo[a]
  /\ sess' = [sess EXCEPT ![a] = s]
  /\ IF s \notin pending \/ ~Readable(s)
     THEN Goto(a, "abort_open") /\ UNCHANGED seen
     ELSE /\ seen' = [seen EXCEPT ![a] = log[s]]
          /\ Goto(a, IF tail[s] # Clean THEN "rec_repair"
                     ELSE IF log[s] = <<>> THEN "rec_unlink" ELSE "rec_project")
  /\ UNCHANGED <<logVars, disk, com, fresh, todo, view, lock, up, doomed, faults>>

RecoverUnlink(a) ==
  /\ pc[a] = "rec_unlink"
  /\ pending' = pending \ {sess[a]}
  /\ todo' = [todo EXCEPT ![a] = @ \ {sess[a]}]
  /\ Goto(a, IF sess[a] \in pending THEN "recover" ELSE "abort_open")
  /\ UNCHANGED <<logVars, tail, bad, proj, base, mark, overlay, sess, com, seen, fresh, view, lock,
                 up, doomed, faults>>

\* scanProjections(true): read one journal, then rewrite its projection.
ScanRead(a, s) ==
  /\ pc[a] = "scan"
  /\ s \in todo[a]
  /\ sess' = [sess EXCEPT ![a] = s]
  /\ IF ~Readable(s)
     THEN Goto(a, "abort_open") /\ UNCHANGED <<seen, todo>>
     ELSE /\ seen' = [seen EXCEPT ![a] = log[s]]
          /\ todo' = [todo EXCEPT ![a] = @ \ {s}]
          /\ Goto(a, IF log[s] = <<>> THEN "scan" ELSE "scan_write")
  /\ UNCHANGED <<logVars, disk, com, fresh, view, lock, up, doomed, faults>>

ScanWrite(a) ==
  /\ pc[a] = "scan_write"
  /\ proj' = [proj EXCEPT ![sess[a]] = Len(seen[a])]
  /\ view' = [view EXCEPT ![a][sess[a]] = Len(seen[a])]
  /\ Goto(a, "scan")
  /\ UNCHANGED <<logVars, tail, bad, base, mark, overlay, pending, sess, com, seen, fresh, todo,
                 lock, up, doomed, faults>>

\* rebuildCatalogUnlocked: base, empty deltas, state file, markers, in this
\* order and each on its own.
WriteBase(a) ==
  /\ pc[a] = "scan" /\ todo[a] = {}
  /\ base' = view[a]
  /\ Goto(a, "reset")
  /\ UNCHANGED <<logVars, tail, bad, proj, mark, overlay, pending, memory, lock, up, doomed, faults>>

ResetDeltas(a) ==
  /\ pc[a] = "reset"
  /\ overlay' = [s \in Session |-> 0]
  /\ tail' = [tail EXCEPT !["catalog"] = Clean]
  /\ bad' = bad \ {"catalog"}
  /\ Goto(a, "mark")
  /\ UNCHANGED <<logVars, proj, base, mark, pending, memory, lock, up, doomed, faults>>

WriteMark(a) ==
  /\ pc[a] = "mark"
  /\ mark' = {view[a]}
  /\ Goto(a, "unpend")
  /\ UNCHANGED <<logVars, tail, bad, proj, base, overlay, pending, memory, lock, up, doomed, faults>>

ClearAllPending(a) ==
  /\ pc[a] = "unpend"
  /\ pending' = {}
  /\ Goto(a, "opened")
  /\ UNCHANGED <<logVars, tail, bad, proj, base, mark, overlay, memory, lock, up, doomed, faults>>

Opened(a) ==
  /\ pc[a] = "opened" \/ (pc[a] = "recover" /\ todo[a] = {})
  /\ lock' = [lock EXCEPT !["catalog"] = Free]
  /\ up' = [up EXCEPT ![HostOf[a]] = "up"]
  /\ Return(a)
  /\ UNCHANGED <<logVars, disk, doomed, faults>>

AbortOpen(a) ==
  /\ pc[a] = "abort_open"
  /\ lock' = [lock EXCEPT !["catalog"] = Free]
  /\ up' = [up EXCEPT ![HostOf[a]] = IF @ = "starting" THEN "down" ELSE @]
  /\ Return(a)
  /\ UNCHANGED <<logVars, disk, doomed, faults>>

\* listCatalog and listRecoverableSessionIds read the catalog under its lock
\* and truncate a partial last delta.
List(a) ==
  /\ up[HostOf[a]] = "up"
  /\ pc[a] = "idle"
  /\ Goto(a, "list_lock")
  /\ UNCHANGED <<logVars, disk, memory, lock, up, doomed, faults>>

ListCatalog(a) ==
  /\ pc[a] = "list"
  /\ tail' = [tail EXCEPT !["catalog"] = IF CatalogValid THEN Clean ELSE @]
  /\ lock' = [lock EXCEPT !["catalog"] = Free]
  /\ Goto(a, "idle")
  /\ UNCHANGED <<logVars, bad, proj, base, mark, overlay, pending, memory, up, doomed, faults>>

-----------------------------------------------------------------------------
(* Failures *)

\* A write that throws, a partial line included: the locks are released on
\* the way out.
WriteFails(a) ==
  /\ faults < MaxFaults
  /\ faults' = faults + 1
  /\ \/ /\ pc[a] \in {"repair", "pend", "append", "appending", "project", "clear"}
        /\ Goto(a, "abort")
        /\ UNCHANGED lock
     \/ /\ pc[a] \in {"delta", "deltaing"}
        /\ lock' = [lock EXCEPT !["catalog"] = Free]
        /\ Goto(a, "abort")
     \/ /\ pc[a] \in {"rec_repair", "rec_project", "rec_delta", "rec_deltaing", "rec_unlink",
                      "scan", "scan_write", "reset", "mark", "unpend"}
        /\ Goto(a, "abort_open")
        /\ UNCHANGED lock
  /\ UNCHANGED <<logVars, disk, memory, up, doomed>>

Crash(h) ==
  LET dead == {a \in Actor : HostOf[a] = h} IN
  /\ up[h] # "down"
  /\ faults < MaxFaults
  /\ faults' = faults + 1
  /\ up' = [up EXCEPT ![h] = "down"]
  /\ lock' = [l \in Lock |-> IF lock[l] \in dead THEN Orphan ELSE lock[l]]
  /\ pc' = [a \in Actor |-> IF a \in dead THEN "idle" ELSE pc[a]]
  /\ doomed' = doomed \ dead
  /\ tail' = [f \in File |-> IF tail[f] \in dead THEN Orphan ELSE tail[f]]
  /\ Forget(dead)
  /\ UNCHANGED <<logVars, bad, proj, base, mark, overlay, pending>>

-----------------------------------------------------------------------------
AppendCommit(a) ==
  \/ \E s \in Session : \E c \in Commit : Begin(a, s, c)
  \/ pc[a] = "lock" /\ Acquire(a, sess[a], "read")
  \/ ReadJournal(a)
  \/ RepairTail(a)
  \/ MarkPending(a)
  \/ AppendRecord(a)
  \/ AppendSynced(a)
  \/ WriteProjection(a)
  \/ pc[a] = "catalog" /\ Acquire(a, "catalog", Then[pc[a]])
  \/ AppendDelta(a)
  \/ DeltaSynced(a)
  \/ ClearPending(a)
  \/ Receipt(a)
  \/ Abort(a)

Initialize(a) ==
  \/ Start(a)
  \/ pc[a] = "open_lock" /\ Acquire(a, "catalog", "open")
  \/ OpenFast(a)
  \/ OpenDeep(a)
  \/ \E s \in Session : RecoverRead(a, s) \/ ScanRead(a, s)
  \/ RecoverUnlink(a)
  \/ Scrub(a)
  \/ pc[a] = "scrub_lock" /\ Acquire(a, "catalog", "scrub")
  \/ ScanWrite(a)
  \/ WriteBase(a)
  \/ ResetDeltas(a)
  \/ WriteMark(a)
  \/ ClearAllPending(a)
  \/ Opened(a)
  \/ AbortOpen(a)
  \/ List(a)
  \/ pc[a] = "list_lock" /\ Acquire(a, "catalog", "list")
  \/ ListCatalog(a)

JournalNext ==
  \/ \E a \in Actor :
        AppendCommit(a) \/ Initialize(a) \/ SeeStale(a) \/ UnlinkStale(a) \/ GiveUp(a) \/ WriteFails(a)
  \/ \E h \in Host : Crash(h)

JournalSpec == JournalInit /\ [][JournalNext]_vars

-----------------------------------------------------------------------------
(* Properties *)

Revision == 0 .. Cardinality(Commit)

TypeOK ==
  /\ made \in [Commit -> Proposal \cup {NoCommit}]
  /\ log \in [Session -> Seq(Commit)]
  /\ acked \subseteq Commit
  /\ tail \in [File -> Actor \cup {Clean, Orphan}]
  /\ bad \subseteq File
  /\ proj \in [Session -> Revision]
  /\ base \in [Session -> Revision]
  /\ mark \subseteq [Session -> Revision]
  /\ overlay \in [Session -> Revision]
  /\ pending \subseteq Session
  /\ lock \in [Lock -> Actor \cup {Free, Orphan}]
  /\ up \in [Host -> {"down", "starting", "up"}]
  /\ sess \in [Actor -> Session]
  /\ com \in [Actor -> Commit \cup {NoCommit}]
  /\ seen \in [Actor -> Seq(Commit)]
  /\ fresh \in [Actor -> BOOLEAN]
  /\ todo \in [Actor -> SUBSET Session]
  /\ view \in [Actor -> [Session -> Revision]]
  /\ doomed \subseteq Actor
  /\ faults \in 0 .. MaxFaults

(***************************************************************************)
(* The journal of every session parses at all times: each commit stands at  *)
(* the revision it was made for and no line is garbage, although writers    *)
(* contend for lock files, crash with partial lines and repair each other's *)
(* tails (appendCommit, repairTail).                                        *)
(***************************************************************************)
InOrder == \A s \in Session : Readable(s)

(***************************************************************************)
(* A session whose projection or catalog entry lags behind its journal has  *)
(* a pending marker, in every state a crash may leave behind: an ordinary   *)
(* start looks at nothing else (recoverPendingUnlocked), and the repository *)
(* builds its next commit on the projection.  A catalog that is rejected    *)
(* as a whole waits for a deep start.                                       *)
(***************************************************************************)
StaleIsPending ==
  \A s \in Session :
     \/ proj[s] # Len(log[s])
     \/ CatalogValid /\ Catalog(s) # Len(log[s])
     => s \in pending

(***************************************************************************)
(* Journals hold their commits in the order of the revisions, and a process *)
(* that has the store to itself may crash between any two calls and find    *)
(* every stale projection and catalog entry marked (appendCommit,           *)
(* recoverPendingUnlocked).                                                 *)
(***************************************************************************)
JournalSound == TypeOK /\ InOrder /\ (Apart => StaleIsPending)

(***************************************************************************)
(* The JSONL journal implements the abstract log: an acknowledged commit    *)
(* stays, at its revision, as long as the store is one process's own        *)
(* (Apart), or all its processes are up and stay so (Steady); of a process  *)
(* that starts while another appends it is false (Durable).                 *)
(***************************************************************************)
JsonlImplementsLog == LogSpec

(***************************************************************************)
(* A commit whose receipt was returned stays in the journal, whatever other *)
(* process starts on the same directory meanwhile (appendCommit).           *)
(***************************************************************************)
Durable == \A c \in acked : \E s \in Session : Occurs(c, log[s])
=============================================================================
