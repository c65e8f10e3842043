--------------------------- MODULE SessionStorage ---------------------------
(***************************************************************************)
(* Which store a PRAXIS_HOME uses: the start of a Runtime                   *)
(* (createSessionJournalCompositionV3, SessionRepositoryV3.initialize) and  *)
(* the offline migration to another store (migrateSessionStorageV3).  They  *)
(* meet only in files: the authority marker, the authority lock, the        *)
(* migration lock, one lease per Runtime, and the stores themselves.        *)
(*                                                                         *)
(* A step is one call that reads or changes these files.  A process lives   *)
(* once; it may crash at any step.  A store is the set of run events that   *)
(* were committed to it.                                                    *)
(***************************************************************************)
EXTENDS Naturals, FiniteSets

CONSTANTS
  Runtime,
  Migrator,
  Requested,   \* [Runtime -> Kind]: the store a Runtime is configured for
  Absent,      \* no such store, marker or lock file
  MaxFaults    \* bound on crashes and failed moves

Kind    == {"jsonl", "sqlite"}
Process == Runtime \cup Migrator

Event == Runtime \X {"started", "ended", "interrupted"}
Store == (SUBSET Event) \cup {Absent}

ASSUME StorageAssumption ==
  /\ Requested \in [Runtime -> Kind]
  /\ Runtime \cap Migrator = {}
  /\ Absent \notin Process \cup Kind
  /\ MaxFaults \in Nat

ASSUME AbsentAssumption == \A store \in SUBSET Event : store # Absent

VARIABLES
  home,      \* [Kind -> the store in the root directory, or Absent]
  marker,    \* session-authority.json: the kind it names, or Absent
  migration, \* the process that created the migration lock, or Absent
  authority, \* the process that created the authority lock, or Absent
  lease,     \* the Runtimes whose lease file exists
  pc,        \* [Process -> its next call]
  found,     \* [Runtime -> the stores it detected]
  existing,  \* [Process -> the marker it read]
  peer,      \* [Runtime -> hasLivePeer]
  todo,      \* [Runtime -> the runs its recovery has yet to visit]
  target,    \* [Migrator -> the kind it was asked for]
  staged,    \* [Migrator -> the imported store, or Absent]
  backup,    \* [Migrator -> the store it moved to the backup, or Absent]
  saved,     \* [Migrator -> the marker it moved to the backup, or Absent]
  acked,     \* the events whose commit returned
  faults

stores     == <<home, marker, acked>>
locks      == <<migration, authority, lease>>
ofRuntime  == <<found, peer, todo>>
ofMigrator == <<target, staged, backup, saved>>
vars       == <<stores, locks, pc, existing, ofRuntime, ofMigrator, faults>>

Gone     == {"dead", "failed", "closed", "done"}
Alive(p) == pc[p] \notin Gone \cup {"new"}
Serving  == {"recover", "recovering", "open"}
Moving   == {"export", "move_marker", "move_source", "install", "replace_marker",
             "undo_install", "undo_source", "undo_marker"}

\* A home nobody has claimed, or one with an empty store.
Init ==
  /\ \/ home = [k \in Kind |-> Absent] /\ marker = Absent
     \/ \E k \in Kind : /\ home = [j \in Kind |-> IF j = k THEN {} ELSE Absent]
                        /\ marker = k
  /\ migration = Absent
  /\ authority = Absent
  /\ lease = {}
  /\ pc = [p \in Process |-> "new"]
  /\ found = [p \in Runtime |-> {}]
  /\ existing = [p \in Process |-> Absent]
  /\ peer = [p \in Runtime |-> FALSE]
  /\ todo = [p \in Runtime |-> {}]
  /\ target = [m \in Migrator |-> "jsonl"]
  /\ staged = [m \in Migrator |-> Absent]
  /\ backup = [m \in Migrator |-> Absent]
  /\ saved = [m \in Migrator |-> Absent]
  /\ acked = {}
  /\ faults = 0

Goto(p, label) == pc' = [pc EXCEPT ![p] = label]

\* initialize creates a store that is not there.
Initialized(k) == [home EXCEPT ![k] = IF @ = Absent THEN {} ELSE @]

-----------------------------------------------------------------------------
(* The start of a Runtime *)

Launch(p) ==
  /\ pc[p] = "new"
  /\ Goto(p, IF migration = Absent THEN "claim" ELSE "failed")
  /\ UNCHANGED <<stores, locks, existing, ofRuntime, ofMigrator, faults>>

\* Fault: the file is written without the exclusive flag.
TakeAuthorityAnyway(p) ==
  /\ pc[p] \in {"claim", "lease"}
  /\ authority' = p
  /\ Goto(p, IF pc[p] = "claim" THEN "detect" ELSE "list_peers")
  /\ UNCHANGED <<stores, migration, lease, existing, ofRuntime, ofMigrator, faults>>

\* withAuthorityLock: the file of a dead process is unlinked as stale.
TakeAuthority(p) ==
  /\ pc[p] \in {"claim", "lease"}
  /\ authority \in {Absent} \cup {q \in Runtime : pc[q] = "dead"}
  /\ authority' = p
  /\ Goto(p, IF pc[p] = "claim" THEN "detect" ELSE "list_peers")
  /\ UNCHANGED <<stores, migration, lease, existing, ofRuntime, ofMigrator, faults>>

\* LOCK_TIMEOUT_MS.
GiveUp(p) ==
  /\ pc[p] \in {"claim", "lease"}
  /\ authority # Absent
  /\ Goto(p, "failed")
  /\ UNCHANGED <<stores, locks, existing, ofRuntime, ofMigrator, faults>>

Detect(p) ==
  /\ pc[p] = "detect"
  /\ found' = [found EXCEPT ![p] = {k \in Kind : home[k] # Absent}]
  /\ Goto(p, "read_marker")
  /\ UNCHANGED <<stores, locks, existing, peer, todo, ofMigrator, faults>>

\* Neither the marker nor a store found names another kind.
Admissible(p, named) ==
  /\ found[p] \subseteq {Requested[p]}
  /\ named \in {Absent, Requested[p]}

ReadMarker(p) ==
  LET unclaimed == marker = Absent \/ found[p] = {} IN
  /\ pc[p] = "read_marker"
  /\ existing' = [existing EXCEPT ![p] = marker]
  /\ Goto(p, IF ~Admissible(p, marker) THEN "failed"
             ELSE IF unclaimed THEN "init_claim" ELSE "init")
  /\ authority' = IF Admissible(p, marker) /\ unclaimed THEN authority ELSE Absent
  /\ UNCHANGED <<stores, migration, lease, ofRuntime, ofMigrator, faults>>

\* The first start of a home: the store is initialized, and then the marker
\* written, under the authority lock.
InitClaim(p) ==
  /\ pc[p] = "init_claim"
  /\ home' = Initialized(Requested[p])
  /\ Goto(p, "write_marker")
  /\ UNCHANGED <<marker, acked, locks, existing, ofRuntime, ofMigrator, faults>>

WriteMarker(p) ==
  /\ pc[p] = "write_marker"
  /\ marker' = IF existing[p] = Absent THEN Requested[p] ELSE marker
  /\ authority' = Absent
  /\ Goto(p, "lease")
  /\ UNCHANGED <<home, acked, migration, lease, existing, ofRuntime, ofMigrator, faults>>

InitStore(p) ==
  /\ pc[p] = "init"
  /\ home' = Initialized(Requested[p])
  /\ Goto(p, "lease")
  /\ UNCHANGED <<marker, acked, locks, existing, ofRuntime, ofMigrator, faults>>

\* createRuntimeLease: look for living peers, unlink the leases of dead ones,
\* create the own one.
ListPeers(p) ==
  /\ pc[p] = "list_peers"
  /\ peer' = [peer EXCEPT ![p] = \E q \in lease : Alive(q)]
  /\ lease' = {q \in lease : Alive(q)}
  /\ Goto(p, "create_lease")
  /\ UNCHANGED <<stores, migration, authority, existing, found, todo, ofMigrator, faults>>

\* Fault: the lock is released before the lease file exists.
CreateLeaseUnlocked(p) ==
  /\ pc[p] = "create_lease"
  /\ IF authority = p
     THEN authority' = Absent /\ UNCHANGED <<lease, pc>>
     ELSE lease' = lease \cup {p} /\ Goto(p, "recheck") /\ UNCHANGED authority
  /\ UNCHANGED <<stores, migration, existing, ofRuntime, ofMigrator, faults>>

CreateLease(p) ==
  /\ pc[p] = "create_lease"
  /\ lease' = lease \cup {p}
  /\ authority' = Absent
  /\ Goto(p, "recheck")
  /\ UNCHANGED <<stores, migration, existing, ofRuntime, ofMigrator, faults>>

\* Fault: the migration lock is looked at only when the start begins.
RecheckNothing(p) ==
  /\ pc[p] = "recheck"
  /\ Goto(p, IF peer[p] THEN "open" ELSE "recover")
  /\ UNCHANGED <<stores, locks, existing, ofRuntime, ofMigrator, faults>>

\* The second look at the migration lock, with the lease in place.
Recheck(p) ==
  /\ pc[p] = "recheck"
  /\ IF migration = Absent
     THEN Goto(p, IF peer[p] THEN "open" ELSE "recover") /\ UNCHANGED lease
     ELSE Goto(p, "failed") /\ lease' = lease \ {p}
  /\ UNCHANGED <<stores, migration, authority, existing, ofRuntime, ofMigrator, faults>>

-----------------------------------------------------------------------------
(* A Runtime at work *)

\* A commit.  A store that was moved away receives it where no start looks.
Commit(p, what) ==
  LET k == Requested[p] IN
  /\ home' = [home EXCEPT ![k] = IF @ = Absent THEN Absent ELSE @ \cup {what}]
  /\ acked' = acked \cup {what}
  /\ UNCHANGED marker

RunState(q, store) ==
  IF store = Absent \/ <<q, "started">> \notin store THEN "none"
  ELSE IF <<q, "ended">> \in store \/ <<q, "interrupted">> \in store THEN "terminal"
  ELSE "running"

\* recoverInterruptedRuns, only for a Runtime that saw no living peer: list
\* the sessions with a running run, then interrupt them one by one.
ListRuns(p) ==
  /\ pc[p] = "recover"
  /\ todo' = [todo EXCEPT ![p] = {q \in Runtime : RunState(q, home[Requested[p]]) = "running"}]
  /\ Goto(p, "recovering")
  /\ UNCHANGED <<stores, locks, existing, found, peer, ofMigrator, faults>>

RecoverRun(p, q) ==
  /\ pc[p] = "recovering"
  /\ q \in todo[p]
  /\ todo' = [todo EXCEPT ![p] = @ \ {q}]
  /\ IF RunState(q, home[Requested[p]]) = "running"
     THEN Commit(p, <<q, "interrupted">>)
     ELSE UNCHANGED stores
  /\ UNCHANGED <<locks, pc, existing, found, peer, ofMigrator, faults>>

Recovered(p) ==
  /\ pc[p] = "recovering"
  /\ todo[p] = {}
  /\ Goto(p, "open")
  /\ UNCHANGED <<stores, locks, existing, ofRuntime, ofMigrator, faults>>

StartRun(p) ==
  /\ pc[p] = "open"
  /\ <<p, "started">> \notin acked
  /\ Commit(p, <<p, "started">>)
  /\ UNCHANGED <<locks, pc, existing, ofRuntime, ofMigrator, faults>>

EndRun(p) ==
  /\ pc[p] = "open"
  /\ RunState(p, home[Requested[p]]) = "running"
  /\ Commit(p, <<p, "ended">>)
  /\ UNCHANGED <<locks, pc, existing, ofRuntime, ofMigrator, faults>>

\* close, and a lease that is left to the end of the process.
Close(p) ==
  /\ pc[p] = "open"
  /\ lease' = lease \ {p}
  /\ Goto(p, "closed")
  /\ UNCHANGED <<stores, migration, authority, existing, ofRuntime, ofMigrator, faults>>

-----------------------------------------------------------------------------
(* The migration *)

\* The source is read before the lock is taken.  A home without a marker is
\* claimed the way a Runtime claims it, and nothing is migrated.
Inspect(m, k) ==
  /\ pc[m] = "new"
  /\ marker # Absent
  /\ existing' = [existing EXCEPT ![m] = marker]
  /\ target' = [target EXCEPT ![m] = k]
  /\ Goto(m, "lock")
  /\ UNCHANGED <<stores, locks, ofRuntime, staged, backup, saved, faults>>

TakeMigration(m) ==
  /\ pc[m] = "lock"
  /\ IF migration = Absent
     THEN migration' = m /\ Goto(m, "check_leases")
     ELSE Goto(m, "failed") /\ UNCHANGED migration
  /\ UNCHANGED <<stores, authority, lease, existing, ofRuntime, ofMigrator, faults>>

\* assertNoActiveRuntimeLeases, which also unlinks the leases of dead processes.
CheckLeases(m) ==
  /\ pc[m] = "check_leases"
  /\ lease' = {q \in lease : Alive(q)}
  /\ Goto(m, IF \E q \in lease : Alive(q) THEN "unlock_failed" ELSE "export")
  /\ UNCHANGED <<stores, migration, authority, existing, ofRuntime, ofMigrator, faults>>

\* Fault: a partial import is not noticed, the verification being left out.
ExportUnverified(m) ==
  LET source == existing[m] IN
  /\ pc[m] = "export"
  /\ source # target[m]
  /\ home' = Initialized(source)
  /\ \E part \in SUBSET Initialized(source)[source] : staged' = [staged EXCEPT ![m] = part]
  /\ Goto(m, "move_marker")
  /\ UNCHANGED <<marker, acked, locks, existing, ofRuntime, target, backup, saved, faults>>

\* initialize the source, export it and import it into a staging directory; the
\* same kind needs nothing more.
Export(m) ==
  LET source == existing[m] IN
  /\ pc[m] = "export"
  /\ home' = Initialized(source)
  /\ staged' = [staged EXCEPT ![m] = IF source = target[m] THEN Absent ELSE Initialized(source)[source]]
  /\ Goto(m, IF source = target[m] THEN "unlock" ELSE "move_marker")
  /\ UNCHANGED <<marker, acked, locks, existing, ofRuntime, target, backup, saved, faults>>

MoveMarker(m) ==
  /\ pc[m] = "move_marker"
  /\ saved' = [saved EXCEPT ![m] = marker]
  /\ marker' = Absent
  /\ Goto(m, "move_source")
  /\ UNCHANGED <<home, acked, locks, existing, ofRuntime, target, staged, backup, faults>>

MoveSource(m) ==
  /\ pc[m] = "move_source"
  /\ backup' = [backup EXCEPT ![m] = home[existing[m]]]
  /\ home' = [home EXCEPT ![existing[m]] = Absent]
  /\ Goto(m, "install")
  /\ UNCHANGED <<marker, acked, locks, existing, ofRuntime, target, staged, saved, faults>>

\* A rename replaces a database file, and fails on a directory with content.
MayReplace(k) == home[k] = Absent \/ k = "sqlite"

Install(m) ==
  /\ pc[m] = "install"
  /\ IF MayReplace(target[m])
     THEN /\ home' = [home EXCEPT ![target[m]] = staged[m]]
          /\ staged' = [staged EXCEPT ![m] = Absent]
          /\ Goto(m, "replace_marker")
     ELSE Goto(m, "undo_install") /\ UNCHANGED <<home, staged>>
  /\ UNCHANGED <<marker, acked, locks, existing, ofRuntime, target, backup, saved, faults>>

ReplaceMarker(m) ==
  /\ pc[m] = "replace_marker"
  /\ marker' = target[m]
  /\ Goto(m, "unlock")
  /\ UNCHANGED <<home, acked, locks, existing, ofRuntime, ofMigrator, faults>>

\* The rollback, whose own failures are swallowed.  The target goes back to
\* the staging directory, which is then deleted, unless it never left it and
\* is a directory that cannot be replaced.
UndoInstall(m) ==
  /\ pc[m] = "undo_install"
  /\ home' = IF staged[m] # Absent /\ target[m] = "jsonl" THEN home
             ELSE [home EXCEPT ![target[m]] = Absent]
  /\ staged' = [staged EXCEPT ![m] = Absent]
  /\ Goto(m, "undo_source")
  /\ UNCHANGED <<marker, acked, locks, existing, ofRuntime, target, backup, saved, faults>>

UndoSource(m) ==
  LET source == existing[m] IN
  /\ pc[m] = "undo_source"
  /\ IF backup[m] # Absent /\ MayReplace(source)
     THEN /\ home' = [home EXCEPT ![source] = backup[m]]
          /\ backup' = [backup EXCEPT ![m] = Absent]
     ELSE UNCHANGED <<home, backup>>
  /\ Goto(m, "undo_marker")
  /\ UNCHANGED <<marker, acked, locks, existing, ofRuntime, target, staged, saved, faults>>

UndoMarker(m) ==
  /\ pc[m] = "undo_marker"
  /\ marker' = IF saved[m] = Absent THEN marker ELSE saved[m]
  /\ saved' = [saved EXCEPT ![m] = Absent]
  /\ Goto(m, "unlock_failed")
  /\ UNCHANGED <<home, acked, locks, existing, ofRuntime, target, staged, backup, faults>>

Unlock(m) ==
  /\ pc[m] \in {"unlock", "unlock_failed"}
  /\ migration' = Absent
  /\ Goto(m, IF pc[m] = "unlock" THEN "done" ELSE "failed")
  /\ UNCHANGED <<stores, authority, lease, existing, ofRuntime, ofMigrator, faults>>

-----------------------------------------------------------------------------
(* Failures *)

\* A failed export or move: what precedes the try block is not rolled back.
MoveFails(m) ==
  /\ faults < MaxFaults
  /\ faults' = faults + 1
  /\ pc[m] \in {"export", "move_marker", "move_source", "install", "replace_marker"}
  /\ Goto(m, IF pc[m] \in {"install", "replace_marker"} THEN "undo_install" ELSE "unlock_failed")
  /\ UNCHANGED <<stores, locks, existing, ofRuntime, ofMigrator>>

Crash(p) ==
  /\ faults < MaxFaults
  /\ faults' = faults + 1
  /\ Alive(p)
  /\ Goto(p, "dead")
  /\ UNCHANGED <<stores, locks, existing, ofRuntime, ofMigrator>>

-----------------------------------------------------------------------------
RuntimeStep(p) ==
  \/ Launch(p) \/ TakeAuthority(p) \/ GiveUp(p) \/ Detect(p) \/ ReadMarker(p)
  \/ InitClaim(p) \/ WriteMarker(p) \/ InitStore(p)
  \/ ListPeers(p) \/ CreateLease(p) \/ Recheck(p)
  \/ ListRuns(p) \/ (\E q \in Runtime : RecoverRun(p, q)) \/ Recovered(p)
  \/ StartRun(p) \/ EndRun(p) \/ Close(p)

MigratorStep(m) ==
  \/ (\E k \in Kind : Inspect(m, k)) \/ TakeMigration(m) \/ CheckLeases(m) \/ Export(m)
  \/ MoveMarker(m) \/ MoveSource(m) \/ Install(m) \/ ReplaceMarker(m)
  \/ UndoInstall(m) \/ UndoSource(m) \/ UndoMarker(m) \/ Unlock(m)
  \/ MoveFails(m)

Next ==
  \/ \E p \in Runtime : RuntimeStep(p)
  \/ \E m \in Migrator : MigratorStep(m)
  \/ \E p \in Process : Crash(p)

Spec == Init /\ [][Next]_vars

-----------------------------------------------------------------------------
(* Properties *)

TypeOK ==
  /\ home \in [Kind -> Store]
  /\ marker \in Kind \cup {Absent}
  /\ migration \in Migrator \cup {Absent}
  /\ authority \in Runtime \cup {Absent}
  /\ lease \subseteq Runtime
  /\ pc \in [Process -> Gone \cup Serving \cup Moving \cup
               {"new", "claim", "lease", "detect", "list_peers", "read_marker", "init_claim",
                "init", "write_marker", "create_lease", "recheck", "lock", "check_leases",
                "unlock", "unlock_failed"}]
  /\ found \in [Runtime -> SUBSET Kind]
  /\ existing \in [Process -> Kind \cup {Absent}]
  /\ peer \in [Runtime -> BOOLEAN]
  /\ todo \in [Runtime -> SUBSET Runtime]
  /\ target \in [Migrator -> Kind]
  /\ staged \in [Migrator -> Store]
  /\ backup \in [Migrator -> Store]
  /\ saved \in [Migrator -> Kind \cup {Absent}]
  /\ acked \subseteq Event
  /\ faults \in 0 .. MaxFaults

(***************************************************************************)
(* While a migration exports and moves the stores no Runtime serves from    *)
(* them: a Runtime publishes its lease before it looks at the migration     *)
(* lock again, and a migration takes the lock before it looks for leases    *)
(* (createSessionJournalCompositionV3, assertNoActiveRuntimeLeases).        *)
(***************************************************************************)
MigrationAlone ==
  \A m \in Migrator : \A p \in Runtime : ~(pc[m] \in Moving /\ pc[p] \in Serving)

(***************************************************************************)
(* Of the Runtimes that serve a home at one time, at most one believes that *)
(* it has no living peer and may interrupt runs (createRuntimeLease), with  *)
(* starts, closes and crashes in any order.                                 *)
(***************************************************************************)
OneRecoverer ==
  \A p, q \in Runtime :
     pc[p] \in Serving /\ pc[q] \in Serving /\ ~peer[p] /\ ~peer[q] => p = q

(***************************************************************************)
(* Before any migration begins, every Runtime that serves does so from the  *)
(* store the marker names, although several that ask for different stores   *)
(* claim an empty home at once (withAuthorityLock, detectBackendAuthorities)*)
(***************************************************************************)
ClaimsConverge ==
  (\A m \in Migrator : pc[m] = "new") =>
     \A p \in Runtime : pc[p] \in Serving => marker = Requested[p]

(***************************************************************************)
(* A migration that has put its marker in place has moved every commit that *)
(* was acknowledged until then (migrateSessionStorageV3).                   *)
(***************************************************************************)
MigratedWhole ==
  \A m \in Migrator : pc[m] = "unlock" => acked \subseteq home[target[m]]
=============================================================================
