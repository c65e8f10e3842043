------------------------ MODULE SessionStorageProofs ------------------------
(***************************************************************************)
(* Proofs about the storage composition, for any number of Runtimes and     *)
(* migrations: the types, the exclusion of serving Runtimes by a migration, *)
(* the uniqueness of the Runtime that may recover runs, the agreement of    *)
(* claims, and the completeness of what one migration puts in place.  Then  *)
(* the notes of the long-term memory, for any sessions and projects.        *)
(***************************************************************************)
EXTENDS SessionStorage, LongTermMemory, TLAPS

\* The calls a process makes while it holds the migration lock.
Locked == Moving \cup {"check_leases", "unlock", "unlock_failed"}

\* A Runtime has its lease from the recheck until it closes.
Held == Serving \cup {"recheck"}

(***************************************************************************)
(* The inductive invariant of the exclusion.  Who moves stores owns the     *)
(* migration lock; who serves or rechecks has a lease.  The last part is    *)
(* the exclusion itself, which needs both: a recheck passes only when the   *)
(* lock is free, and a migration passes its check only without live leases. *)
(***************************************************************************)
LockOwned == \A m \in Migrator : pc[m] \in Locked => migration = m
LeaseKept == \A p \in Runtime : pc[p] \in Held => p \in lease

\* A migration that has started knows its source.
SourceKnown == \A m \in Migrator : pc[m] \in Locked \cup {"lock"} => existing[m] \in Kind
TypeInv     == TypeOK /\ SourceKnown

\* Each action keeps every file and every process within its type; a
\* migration indexes the stores by its source.
LEMMA TypeStep == TypeInv /\ [Next]_vars => TypeOK'
<1> SUFFICES ASSUME TypeOK, SourceKnown, [Next]_vars PROVE TypeOK'
  BY DEF TypeInv
<1> USE StorageAssumption DEF Process, Kind, Store
<1>1. CASE UNCHANGED vars
  BY <1>1 DEF TypeOK, vars, stores, locks, ofRuntime, ofMigrator
<1>2. ASSUME NEW p \in Runtime, RuntimeStep(p) PROVE TypeOK'
  <2>1. CASE Launch(p)
    BY <2>1 DEF TypeOK, Launch, Goto, Gone, stores, locks, ofRuntime, ofMigrator
  <2>2. CASE TakeAuthority(p)
    BY <2>2 DEF TypeOK, TakeAuthority, Goto, Gone, stores, ofRuntime, ofMigrator
  <2>3. CASE GiveUp(p)
    BY <2>3 DEF TypeOK, GiveUp, Goto, Gone, stores, locks, ofRuntime, ofMigrator
  <2>4. CASE Detect(p)
    BY <2>4 DEF TypeOK, Detect, Goto, stores, locks, ofMigrator
  <2>5. CASE ReadMarker(p)
    BY <2>5 DEF TypeOK, ReadMarker, Goto, Gone, stores, ofRuntime, ofMigrator
  <2>6. CASE InitClaim(p)
    BY <2>6 DEF TypeOK, InitClaim, Initialized, Goto, locks, ofRuntime, ofMigrator
  <2>7. CASE WriteMarker(p)
    BY <2>7 DEF TypeOK, WriteMarker, Goto, ofRuntime, ofMigrator
  <2>8. CASE InitStore(p)
    BY <2>8 DEF TypeOK, InitStore, Initialized, Goto, locks, ofRuntime, ofMigrator
  <2>9. CASE ListPeers(p)
    <3>1. (\E q \in lease : Alive(q)) \in BOOLEAN
      OBVIOUS
    <3>2. peer' \in [Runtime -> BOOLEAN]
      BY <2>9, <3>1, Zenon DEF TypeOK, ListPeers
    <3>3. lease' \subseteq Runtime
      BY <2>9 DEF TypeOK, ListPeers
    <3> QED BY <2>9, <3>2, <3>3 DEF TypeOK, ListPeers, Goto, stores, ofMigrator
  <2>10. CASE CreateLease(p)
    BY <2>10 DEF TypeOK, CreateLease, Goto, stores, ofRuntime, ofMigrator
  <2>11. CASE Recheck(p)
    BY <2>11 DEF TypeOK, Recheck, Goto, Gone, Serving, stores, ofRuntime, ofMigrator
  <2>12. CASE ListRuns(p)
    BY <2>12 DEF TypeOK, ListRuns, Goto, Serving, stores, locks, ofMigrator
  <2>18. ASSUME NEW what, what \in Event, Commit(p, what)
        PROVE  home' \in [Kind -> Store] /\ acked' \subseteq Event /\ marker' = marker
    BY <2>18 DEF TypeOK, Commit
  <2>13. ASSUME NEW q \in Runtime, RecoverRun(p, q) PROVE TypeOK'
    <3>1. <<q, "interrupted">> \in Event
      BY DEF Event
    <3>2. home' \in [Kind -> Store] /\ acked' \subseteq Event /\ marker' = marker
      BY <2>18, <2>13, <3>1 DEF RecoverRun, stores, TypeOK
    <3> QED BY <2>13, <3>2 DEF TypeOK, RecoverRun, locks, ofMigrator
  <2>14. CASE Recovered(p)
    BY <2>14 DEF TypeOK, Recovered, Goto, Serving, stores, locks, ofRuntime, ofMigrator
  <2>15. CASE StartRun(p)
    <3>1. <<p, "started">> \in Event
      BY DEF Event
    <3>2. home' \in [Kind -> Store] /\ acked' \subseteq Event /\ marker' = marker
      BY <2>18, <2>15, <3>1 DEF StartRun
    <3> QED BY <2>15, <3>2 DEF TypeOK, StartRun, locks, ofRuntime, ofMigrator
  <2>16. CASE EndRun(p)
    <3>1. <<p, "ended">> \in Event
      BY DEF Event
    <3>2. home' \in [Kind -> Store] /\ acked' \subseteq Event /\ marker' = marker
      BY <2>18, <2>16, <3>1 DEF EndRun
    <3> QED BY <2>16, <3>2 DEF TypeOK, EndRun, locks, ofRuntime, ofMigrator
  <2>17. CASE Close(p)
    BY <2>17 DEF TypeOK, Close, Goto, Gone, stores, ofRuntime, ofMigrator
  <2> QED BY <1>2, <2>1, <2>2, <2>3, <2>4, <2>5, <2>6, <2>7, <2>8, <2>9, <2>10, <2>11, <2>12,
             <2>13, <2>14, <2>15, <2>16, <2>17 DEF RuntimeStep
<1>3. ASSUME NEW m \in Migrator, MigratorStep(m) PROVE TypeOK'
  <2>1. ASSUME NEW k \in Kind, Inspect(m, k) PROVE TypeOK'
    BY <2>1 DEF TypeOK, Inspect, Goto, stores, locks, ofRuntime
  <2>2. CASE TakeMigration(m)
    BY <2>2 DEF TypeOK, TakeMigration, Goto, Gone, stores, ofRuntime, ofMigrator
  <2>3. CASE CheckLeases(m)
    BY <2>3 DEF TypeOK, CheckLeases, Goto, Moving, stores, ofRuntime, ofMigrator
  <2>4. CASE Export(m)
    <3>1. existing[m] \in Kind
      BY <2>4 DEF SourceKnown, Export, Locked, Moving
    <3>2. Initialized(existing[m]) \in [Kind -> Store]
      BY DEF TypeOK, Initialized
    <3>3. Initialized(existing[m])[existing[m]] \in Store
      BY <3>1, <3>2
    <3> QED BY <2>4, <3>1, <3>2, <3>3 DEF TypeOK, Export, Goto, Moving, locks, ofRuntime
  <2>5. CASE MoveMarker(m)
    BY <2>5 DEF TypeOK, MoveMarker, Goto, Moving, locks, ofRuntime
  <2>6. CASE MoveSource(m)
    <3>1. existing[m] \in Kind
      BY <2>6 DEF SourceKnown, MoveSource, Locked, Moving
    <3> QED BY <2>6, <3>1 DEF TypeOK, MoveSource, Goto, Moving, locks, ofRuntime
  <2>7. CASE Install(m)
    BY <2>7 DEF TypeOK, Install, Goto, Moving, locks, ofRuntime
  <2>8. CASE ReplaceMarker(m)
    BY <2>8 DEF TypeOK, ReplaceMarker, Goto, locks, ofRuntime, ofMigrator
  <2>9. CASE UndoInstall(m)
    BY <2>9 DEF TypeOK, UndoInstall, Goto, Moving, locks, ofRuntime
  <2>10. CASE UndoSource(m)
    BY <2>10 DEF TypeOK, UndoSource, Goto, Moving, locks, ofRuntime
  <2>11. CASE UndoMarker(m)
    BY <2>11 DEF TypeOK, UndoMarker, Goto, locks, ofRuntime
  <2>12. CASE Unlock(m)
    BY <2>12 DEF TypeOK, Unlock, Goto, Gone, stores, ofRuntime, ofMigrator
  <2>13. CASE MoveFails(m)
    BY <2>13 DEF TypeOK, MoveFails, Goto, Moving, stores, locks, ofRuntime, ofMigrator
  <2> QED BY <1>3, <2>1, <2>2, <2>3, <2>4, <2>5, <2>6, <2>7, <2>8, <2>9, <2>10, <2>11, <2>12,
             <2>13 DEF MigratorStep
<1>4. ASSUME NEW p \in Process, Crash(p) PROVE TypeOK'
  BY <1>4 DEF TypeOK, Crash, Goto, Gone, stores, locks, ofRuntime, ofMigrator
<1> QED BY <1>1, <1>2, <1>3, <1>4 DEF Next

\* What a step of a Runtime does to the labels and to the migration's files.
LEMMA RuntimeMoves ==
  ASSUME TypeOK, NEW p \in Runtime, RuntimeStep(p)
  PROVE  /\ \A q \in Process : q # p => pc'[q] = pc[q]
         /\ migration' = migration
         /\ \A m \in Migrator : existing'[m] = existing[m]
         /\ pc'[p] \in Serving => pc[p] \in Serving \/ migration = Absent
         /\ pc'[p] \in Held => pc[p] \in Held \/ pc[p] = "create_lease"
         /\ pc'[p] \in Held => p \in lease' \/ (pc[p] \in Held /\ lease' = lease)
         /\ \A q \in lease : q # p /\ Alive(q) => q \in lease'
<1> USE StorageAssumption DEF Process, Goto
<1>1. CASE Launch(p)
  BY <1>1 DEF TypeOK, Launch, Serving, Held, locks
<1>2. CASE TakeAuthority(p)
  BY <1>2 DEF TypeOK, TakeAuthority, Serving, Held
<1>3. CASE GiveUp(p)
  BY <1>3 DEF TypeOK, GiveUp, Serving, Held, locks
<1>4. CASE Detect(p)
  BY <1>4 DEF TypeOK, Detect, Serving, Held, locks
<1>5. CASE ReadMarker(p)
  BY <1>5 DEF TypeOK, ReadMarker, Serving, Held
<1>6. CASE InitClaim(p)
  BY <1>6 DEF TypeOK, InitClaim, Serving, Held, locks
<1>7. CASE WriteMarker(p)
  BY <1>7 DEF TypeOK, WriteMarker, Serving, Held
<1>8. CASE InitStore(p)
  BY <1>8 DEF TypeOK, InitStore, Serving, Held, locks
<1>9. CASE ListPeers(p)
  BY <1>9 DEF TypeOK, ListPeers, Serving, Held
<1>10. CASE CreateLease(p)
  BY <1>10 DEF TypeOK, CreateLease, Serving, Held
<1>11. CASE Recheck(p)
  BY <1>11 DEF TypeOK, Recheck, Serving, Held
<1>12. CASE ListRuns(p)
  BY <1>12 DEF TypeOK, ListRuns, Serving, Held, locks
<1>13. ASSUME NEW q \in Runtime, RecoverRun(p, q)
       PROVE  UNCHANGED <<locks, pc, existing>>
  BY <1>13 DEF RecoverRun
<1>14. CASE Recovered(p)
  BY <1>14 DEF TypeOK, Recovered, Serving, Held, locks
<1>15. CASE StartRun(p) \/ EndRun(p) \/ \E q \in Runtime : RecoverRun(p, q)
  <2>1. UNCHANGED <<locks, pc, existing>>
    BY <1>13, <1>15 DEF StartRun, EndRun
  <2> QED BY <2>1 DEF Held, locks
<1>16. CASE Close(p)
  BY <1>16 DEF TypeOK, Close, Serving, Held
<1> QED BY <1>1, <1>2, <1>3, <1>4, <1>5, <1>6, <1>7, <1>8, <1>9, <1>10, <1>11, <1>12, <1>14, <1>15,
           <1>16 DEF RuntimeStep

\* What a step of a migration does to them.
LEMMA MigratorMoves ==
  ASSUME TypeOK, NEW m \in Migrator, MigratorStep(m)
  PROVE  /\ \A q \in Process : q # m => pc'[q] = pc[q] /\ existing'[q] = existing[q]
         /\ authority' = authority /\ peer' = peer
         /\ pc'[m] \in Locked =>
              \/ pc[m] \in Locked /\ migration' = migration
              \/ migration = Absent /\ migration' = m
         /\ \/ migration' = migration
            \/ migration = Absent
            \/ pc[m] \in Locked
         /\ pc'[m] \in Locked \cup {"lock"} =>
              \/ pc[m] \in Locked \cup {"lock"} /\ existing' = existing
              \/ existing'[m] \in Kind
         /\ pc'[m] \in Moving => pc[m] \in Moving \/ \A q \in lease : ~Alive(q)
         /\ \A q \in lease : Alive(q) => q \in lease'
<1> USE StorageAssumption DEF Process, Goto, Locked
<1>1. ASSUME NEW k \in Kind, Inspect(m, k)
      PROVE  /\ \A q \in Process : q # m => pc'[q] = pc[q] /\ existing'[q] = existing[q]
             /\ UNCHANGED <<locks, peer>>
             /\ pc'[m] = "lock" /\ existing'[m] \in Kind
  BY <1>1 DEF TypeOK, Inspect, ofRuntime
<1>2. CASE \E k \in Kind : Inspect(m, k)
  BY <1>1, <1>2 DEF Moving, locks
<1>3. CASE TakeMigration(m)
  BY <1>3 DEF TypeOK, TakeMigration, Moving, ofRuntime
<1>4. CASE CheckLeases(m)
  BY <1>4 DEF TypeOK, CheckLeases, Moving, ofRuntime
<1>5. CASE Export(m)
  BY <1>5 DEF TypeOK, Export, Moving, locks, ofRuntime
<1>6. CASE MoveMarker(m)
  BY <1>6 DEF TypeOK, MoveMarker, Moving, locks, ofRuntime
<1>7. CASE MoveSource(m)
  BY <1>7 DEF TypeOK, MoveSource, Moving, locks, ofRuntime
<1>8. CASE Install(m)
  BY <1>8 DEF TypeOK, Install, Moving, locks, ofRuntime
<1>9. CASE ReplaceMarker(m)
  BY <1>9 DEF TypeOK, ReplaceMarker, Moving, locks, ofRuntime
<1>10. CASE UndoInstall(m)
  BY <1>10 DEF TypeOK, UndoInstall, Moving, locks, ofRuntime
<1>11. CASE UndoSource(m)
  BY <1>11 DEF TypeOK, UndoSource, Moving, locks, ofRuntime
<1>12. CASE UndoMarker(m)
  BY <1>12 DEF TypeOK, UndoMarker, Moving, locks, ofRuntime
<1>13. CASE Unlock(m)
  BY <1>13 DEF TypeOK, Unlock, Moving, ofRuntime
<1>14. CASE MoveFails(m)
  BY <1>14 DEF TypeOK, MoveFails, Moving, locks, ofRuntime
<1> QED BY <1>2, <1>3, <1>4, <1>5, <1>6, <1>7, <1>8, <1>9, <1>10, <1>11, <1>12, <1>13, <1>14
        DEF MigratorStep

\* A crash leaves every file where it is.
LEMMA CrashMoves ==
  ASSUME TypeOK, NEW p \in Process, Crash(p)
  PROVE  /\ pc'[p] = "dead"
         /\ \A q \in Process : q # p => pc'[q] = pc[q]
         /\ UNCHANGED <<migration, authority, lease, existing, peer>>
BY DEF TypeOK, Crash, Goto, locks, ofRuntime

\* The source of a migration stays known.
LEMMA SourceStep == TypeInv /\ [Next]_vars => SourceKnown'
<1> SUFFICES ASSUME TypeOK, SourceKnown, [Next]_vars,
                    NEW m \in Migrator, pc'[m] \in Locked \cup {"lock"}
             PROVE  existing'[m] \in Kind
  BY DEF TypeInv, SourceKnown
<1> USE StorageAssumption DEF Process
<1>1. CASE UNCHANGED vars
  BY <1>1 DEF SourceKnown, vars
<1>2. ASSUME NEW p \in Runtime, RuntimeStep(p) PROVE existing'[m] \in Kind
  BY <1>2, RuntimeMoves DEF SourceKnown
<1>3. ASSUME NEW n \in Migrator, MigratorStep(n) PROVE existing'[m] \in Kind
  BY <1>3, MigratorMoves DEF SourceKnown
<1>4. ASSUME NEW p \in Process, Crash(p) PROVE existing'[m] \in Kind
  BY <1>4, CrashMoves DEF SourceKnown, Locked, Moving
<1> QED BY <1>1, <1>2, <1>3, <1>4 DEF Next

\* Both, at every step.
LEMMA TypesHold == Spec => []TypeInv
<1>1. Init => TypeInv
  <2> SUFFICES ASSUME Init PROVE TypeInv
    OBVIOUS
  <2> USE StorageAssumption DEF Init, Process, Kind
  <2>1. TypeOK
    BY DEF TypeOK, Store, Gone
  <2>2. SourceKnown
    BY DEF SourceKnown, Locked, Moving
  <2> QED BY <2>1, <2>2 DEF TypeInv
<1>2. TypeInv /\ [Next]_vars => TypeInv'
  BY TypeStep, SourceStep DEF TypeInv
<1> QED BY <1>1, <1>2, PTL DEF Spec

(***************************************************************************)
(* Every file and every process stays within its type, for every number of  *)
(* Runtimes and migrations.                                                 *)
(***************************************************************************)
THEOREM TypeCorrect == Spec => []TypeOK
<1>1. TypeInv => TypeOK
  BY DEF TypeInv
<1> QED BY <1>1, TypesHold, PTL

\* Locks, leases and the exclusion hold together.
LEMMA LocksKept == Spec => [](LockOwned /\ LeaseKept /\ MigrationAlone)
<1> USE StorageAssumption DEF Process
<1>1. Init => LockOwned /\ LeaseKept /\ MigrationAlone
  BY DEF Init, LockOwned, LeaseKept, MigrationAlone, Locked, Moving, Held, Serving
<1>2. ASSUME TypeOK, LockOwned, LeaseKept, MigrationAlone, [Next]_vars
      PROVE  (LockOwned /\ LeaseKept /\ MigrationAlone)'
  <2>1. CASE UNCHANGED vars
    BY <1>2, <2>1 DEF LockOwned, LeaseKept, MigrationAlone, vars, locks
  <2>2. ASSUME NEW p \in Runtime, RuntimeStep(p)
        PROVE  (LockOwned /\ LeaseKept /\ MigrationAlone)'
    <3>1. LockOwned'
      BY <1>2, <2>2, RuntimeMoves DEF LockOwned
    <3>2. LeaseKept'
      BY <1>2, <2>2, RuntimeMoves DEF LeaseKept, Held, Serving, Alive, Gone
    <3>3. MigrationAlone'
      BY <1>2, <2>2, RuntimeMoves DEF MigrationAlone, LockOwned, Locked
    <3> QED BY <3>1, <3>2, <3>3
  <2>3. ASSUME NEW m \in Migrator, MigratorStep(m)
        PROVE  (LockOwned /\ LeaseKept /\ MigrationAlone)'
    <3>1. LockOwned'
      BY <1>2, <2>3, MigratorMoves DEF LockOwned
    <3>2. LeaseKept'
      BY <1>2, <2>3, MigratorMoves DEF LeaseKept, Held, Serving, Alive, Gone
    <3>3. MigrationAlone'
      BY <1>2, <2>3, MigratorMoves DEF MigrationAlone, LeaseKept, Held, Serving, Alive, Gone
    <3> QED BY <3>1, <3>2, <3>3
  <2>4. ASSUME NEW p \in Process, Crash(p)
        PROVE  (LockOwned /\ LeaseKept /\ MigrationAlone)'
    <3>1. LockOwned'
      BY <1>2, <2>4, CrashMoves DEF LockOwned, Locked, Moving
    <3>2. LeaseKept'
      BY <1>2, <2>4, CrashMoves DEF LeaseKept, Held, Serving
    <3>3. MigrationAlone'
      BY <1>2, <2>4, CrashMoves DEF MigrationAlone, Moving, Serving
    <3> QED BY <3>1, <3>2, <3>3
  <2> QED BY <1>2, <2>1, <2>2, <2>3, <2>4 DEF Next
<1> QED BY <1>1, <1>2, TypeCorrect, PTL DEF Spec

(***************************************************************************)
(* While a migration moves the stores no Runtime serves from them.          *)
(***************************************************************************)
THEOREM MigrationsAreAlone == Spec => []MigrationAlone
BY LocksKept, PTL

-----------------------------------------------------------------------------
(***************************************************************************)
(* The inductive invariant of recovery.  The calls under the authority lock *)
(* are made by its owner alone; between its look for peers and its lease a  *)
(* Runtime that saw nobody is alone; of two with a lease one has seen the   *)
(* other.  A lease outlives its Runtime, so LeaseKept is what makes a peer  *)
(* visible.                                                                 *)
(***************************************************************************)
UnderLock == {"detect", "read_marker", "init_claim", "write_marker", "list_peers", "create_lease"}

AuthorityOwned == \A p \in Runtime : pc[p] \in UnderLock => authority = p
NobodyElse ==
  \A p, q \in Runtime :
     pc[p] = "create_lease" /\ ~peer[p] /\ q # p => pc[q] \notin Held
OneUnaware ==
  \A p, q \in Runtime :
     pc[p] \in Held /\ pc[q] \in Held /\ ~peer[p] /\ ~peer[q] => p = q

RecoveryInv == LeaseKept /\ AuthorityOwned /\ NobodyElse /\ OneUnaware

\* What a step of a Runtime does to the authority lock and to what it knows.
LEMMA RuntimeKnows ==
  ASSUME TypeOK, AuthorityOwned, LeaseKept, NEW p \in Runtime, RuntimeStep(p)
  PROVE  /\ \A q \in Runtime : q # p => peer'[q] = peer[q]
         /\ peer' = peer \/ pc[p] = "list_peers"
         /\ pc'[p] \in UnderLock => authority' = p
         /\ \/ authority' = authority
            \/ authority = Absent
            \/ pc[p] \in UnderLock
            \/ authority \in Runtime /\ pc[authority] = "dead"
         /\ pc'[p] = "create_lease" =>
              pc[p] = "list_peers" /\ (peer'[p] \/ \A q \in Runtime : pc[q] \notin Held)
         /\ pc[p] = "list_peers" => pc'[p] = "create_lease"
<1> USE StorageAssumption DEF Process, Goto, UnderLock
<1>1. CASE Launch(p)
  BY <1>1 DEF TypeOK, Launch, locks, ofRuntime
<1>2. CASE TakeAuthority(p)
  BY <1>2 DEF TypeOK, TakeAuthority, ofRuntime
<1>3. CASE GiveUp(p)
  BY <1>3 DEF TypeOK, GiveUp, locks, ofRuntime
<1>4. CASE Detect(p)
  BY <1>4 DEF TypeOK, AuthorityOwned, Detect, locks
<1>5. CASE ReadMarker(p)
  BY <1>5 DEF TypeOK, AuthorityOwned, ReadMarker, ofRuntime
<1>6. CASE InitClaim(p)
  BY <1>6 DEF TypeOK, AuthorityOwned, InitClaim, locks, ofRuntime
<1>7. CASE WriteMarker(p)
  BY <1>7 DEF TypeOK, WriteMarker, ofRuntime
<1>8. CASE InitStore(p)
  BY <1>8 DEF TypeOK, InitStore, locks, ofRuntime
<1>9. CASE ListPeers(p)
  <2>1. (\E q \in lease : Alive(q)) \/ \A q \in Runtime : pc[q] \notin Held
    BY DEF LeaseKept, Held, Serving, Alive, Gone
  <2>2. peer'[p] = (\E q \in lease : Alive(q)) /\ \A q \in Runtime : q # p => peer'[q] = peer[q]
    BY <1>9, Zenon DEF TypeOK, ListPeers
  <2>3. peer'[p] \/ \A q \in Runtime : pc[q] \notin Held
    BY <2>1, <2>2, Zenon
  <2>4. pc[p] = "list_peers" /\ pc'[p] = "create_lease" /\ authority' = authority
    BY <1>9 DEF TypeOK, ListPeers
  <2> QED BY <2>2, <2>3, <2>4 DEF AuthorityOwned
<1>10. CASE CreateLease(p)
  BY <1>10 DEF TypeOK, CreateLease, ofRuntime
<1>11. CASE Recheck(p)
  BY <1>11 DEF TypeOK, Recheck, ofRuntime
<1>12. CASE ListRuns(p)
  BY <1>12 DEF TypeOK, ListRuns, locks
<1>13. CASE Recovered(p)
  BY <1>13 DEF TypeOK, Recovered, locks, ofRuntime
<1>14. CASE StartRun(p) \/ EndRun(p) \/ \E q \in Runtime : RecoverRun(p, q)
  <2>1. UNCHANGED <<authority, peer, pc>> /\ pc[p] \in {"open", "recovering"}
    BY <1>14 DEF StartRun, EndRun, RecoverRun, locks, ofRuntime
  <2> QED BY <2>1
<1>15. CASE Close(p)
  BY <1>15 DEF TypeOK, Close, ofRuntime
<1> QED BY <1>1, <1>2, <1>3, <1>4, <1>5, <1>6, <1>7, <1>8, <1>9, <1>10, <1>11, <1>12, <1>13, <1>14,
           <1>15 DEF RuntimeStep

\* The invariant of recovery, for all Runtimes and migrations.
THEOREM RecoveryInvariant == Spec => []RecoveryInv
<1> USE StorageAssumption DEF Process, RecoveryInv
<1>1. Init => RecoveryInv
  BY DEF Init, LeaseKept, AuthorityOwned, NobodyElse, OneUnaware, Held, Serving, UnderLock
<1>2. ASSUME TypeOK, RecoveryInv, [Next]_vars PROVE RecoveryInv'
  <2>1. CASE UNCHANGED vars
    BY <1>2, <2>1 DEF LeaseKept, AuthorityOwned, NobodyElse, OneUnaware, vars, locks, ofRuntime
  <2>2. ASSUME NEW p \in Runtime, RuntimeStep(p) PROVE RecoveryInv'
    <3>1. LeaseKept'
      BY <1>2, <2>2, RuntimeMoves DEF LeaseKept, Held, Serving, Alive, Gone
    <3>2. AuthorityOwned'
      BY <1>2, <2>2, RuntimeMoves, RuntimeKnows DEF AuthorityOwned, UnderLock
    <3>3. NobodyElse'
      BY <1>2, <2>2, RuntimeMoves, RuntimeKnows DEF NobodyElse, AuthorityOwned, UnderLock, Held, Serving
    <3>4. OneUnaware'
      BY <1>2, <2>2, RuntimeMoves, RuntimeKnows DEF OneUnaware, NobodyElse, Held, Serving
    <3> QED BY <3>1, <3>2, <3>3, <3>4
  <2>3. ASSUME NEW m \in Migrator, MigratorStep(m) PROVE RecoveryInv'
    <3>1. LeaseKept'
      BY <1>2, <2>3, MigratorMoves DEF LeaseKept, Held, Serving, Alive, Gone
    <3>2. AuthorityOwned' /\ NobodyElse' /\ OneUnaware'
      BY <1>2, <2>3, MigratorMoves DEF AuthorityOwned, NobodyElse, OneUnaware
    <3> QED BY <3>1, <3>2
  <2>4. ASSUME NEW p \in Process, Crash(p) PROVE RecoveryInv'
    BY <1>2, <2>4, CrashMoves
       DEF LeaseKept, AuthorityOwned, NobodyElse, OneUnaware, Held, Serving, UnderLock
  <2> QED BY <1>2, <2>1, <2>2, <2>3, <2>4 DEF Next
<1> QED BY <1>1, <1>2, TypeCorrect, PTL DEF Spec

(***************************************************************************)
(* At most one of the Runtimes that serve a home may recover runs.          *)
(***************************************************************************)
THEOREM RecovererIsUnique == Spec => []OneRecoverer
<1>1. RecoveryInv => OneRecoverer
  BY DEF RecoveryInv, OneUnaware, OneRecoverer, Held
<1> QED BY <1>1, RecoveryInvariant, PTL

-----------------------------------------------------------------------------
(***************************************************************************)
(* The inductive invariant of the claims, as long as no migration has       *)
(* begun: a Runtime past its claim agrees with the marker, and one within   *)
(* it has read the marker as it is, because it owns the authority lock.     *)
(***************************************************************************)
Quiet   == \A m \in Migrator : pc[m] = "new"
Claimed == Held \cup {"init", "lease", "list_peers", "create_lease"}
ClaimInv ==
  Quiet => \A p \in Runtime :
     /\ pc[p] \in Claimed => marker = Requested[p]
     /\ pc[p] \in {"init_claim", "write_marker"} =>
          existing[p] = marker /\ marker \in {Absent, Requested[p]}

\* What a step of a Runtime does to the marker and its own claim.
LEMMA RuntimeClaims ==
  ASSUME TypeOK, NEW p \in Runtime, RuntimeStep(p)
  PROVE  /\ \A q \in Runtime : q # p => existing'[q] = existing[q]
         /\ marker' = marker \/ (pc[p] = "write_marker" /\ existing[p] = Absent)
         /\ pc'[p] \in Claimed =>
              \/ pc[p] \in Claimed /\ marker' = marker
              \/ pc[p] = "write_marker" /\ marker' = (IF existing[p] = Absent THEN Requested[p] ELSE marker)
              \/ marker' = Requested[p]
         /\ pc'[p] \in {"init_claim", "write_marker"} =>
              \/ pc[p] = "init_claim" /\ existing' = existing /\ marker' = marker
              \/ existing'[p] = marker' /\ marker' \in {Absent, Requested[p]}
<1> USE StorageAssumption DEF Process, Goto, Claimed, Held, Serving
<1>1. CASE Launch(p)
  BY <1>1 DEF TypeOK, Launch, stores
<1>2. CASE TakeAuthority(p)
  BY <1>2 DEF TypeOK, TakeAuthority, stores
<1>3. CASE GiveUp(p)
  BY <1>3 DEF TypeOK, GiveUp, stores
<1>4. CASE Detect(p)
  BY <1>4 DEF TypeOK, Detect, stores
<1>5. CASE ReadMarker(p)
  BY <1>5 DEF TypeOK, ReadMarker, Admissible, stores
<1>6. CASE InitClaim(p)
  BY <1>6 DEF TypeOK, InitClaim
<1>7. CASE WriteMarker(p)
  BY <1>7 DEF TypeOK, WriteMarker
<1>8. CASE InitStore(p)
  BY <1>8 DEF TypeOK, InitStore
<1>9. CASE ListPeers(p)
  BY <1>9 DEF TypeOK, ListPeers, stores
<1>10. CASE CreateLease(p)
  BY <1>10 DEF TypeOK, CreateLease, stores
<1>11. CASE Recheck(p)
  BY <1>11 DEF TypeOK, Recheck, stores
<1>12. CASE ListRuns(p)
  BY <1>12 DEF TypeOK, ListRuns, stores
<1>13. CASE Recovered(p)
  BY <1>13 DEF TypeOK, Recovered, stores
<1>14. CASE StartRun(p) \/ EndRun(p) \/ \E q \in Runtime : RecoverRun(p, q)
  <2>1. UNCHANGED <<marker, existing, pc>> /\ pc[p] \in {"open", "recovering"}
    BY <1>14 DEF StartRun, EndRun, RecoverRun, Commit, stores
  <2> QED BY <2>1
<1>15. CASE Close(p)
  BY <1>15 DEF TypeOK, Close, stores
<1> QED BY <1>1, <1>2, <1>3, <1>4, <1>5, <1>6, <1>7, <1>8, <1>9, <1>10, <1>11, <1>12, <1>13, <1>14,
           <1>15 DEF RuntimeStep

(***************************************************************************)
(* Before a migration begins every serving Runtime uses the store that the  *)
(* marker names, however many claim an empty home at once.                  *)
(***************************************************************************)
THEOREM ClaimsAgree == Spec => []ClaimsConverge
<1> USE StorageAssumption DEF Process
<1>1. Init => ClaimInv
  BY DEF Init, ClaimInv, Claimed, Held, Serving
<1>2. ASSUME TypeOK, RecoveryInv, ClaimInv, [Next]_vars PROVE ClaimInv'
  <2>1. CASE UNCHANGED vars
    BY <1>2, <2>1 DEF ClaimInv, Quiet, vars, stores
  <2>2. ASSUME NEW p \in Runtime, RuntimeStep(p), Quiet' PROVE ClaimInv'
    <3>1. Quiet
      BY <1>2, <2>2, RuntimeMoves DEF Quiet
    <3>2. ASSUME NEW q \in Runtime, q # p
          PROVE  /\ pc'[q] \in Claimed => marker' = Requested[q]
                 /\ pc'[q] \in {"init_claim", "write_marker"} =>
                      existing'[q] = marker' /\ marker' \in {Absent, Requested[q]}
      <4>1. pc'[q] = pc[q] /\ existing'[q] = existing[q]
        BY <1>2, <2>2, <3>2, RuntimeMoves, RuntimeClaims
      <4>2. CASE marker' = marker
        BY <1>2, <3>1, <4>1, <4>2 DEF ClaimInv
      <4>3. CASE pc[p] = "write_marker" /\ existing[p] = Absent
        <5>1. authority = p /\ marker = Absent
          BY <1>2, <3>1, <4>3 DEF RecoveryInv, AuthorityOwned, UnderLock, ClaimInv
        <5>2. pc[q] \notin {"init_claim", "write_marker"}
          BY <1>2, <3>2, <5>1 DEF RecoveryInv, AuthorityOwned, UnderLock
        <5>3. pc[q] \notin Claimed
          BY <1>2, <3>1, <5>1 DEF ClaimInv, Kind
        <5> QED BY <4>1, <5>2, <5>3
      <4> QED BY <1>2, <2>2, <4>2, <4>3, RuntimeClaims
    <3>3. pc'[p] \in Claimed => marker' = Requested[p]
      BY <1>2, <2>2, <3>1, RuntimeClaims DEF ClaimInv
    <3>4. pc'[p] \in {"init_claim", "write_marker"} =>
            existing'[p] = marker' /\ marker' \in {Absent, Requested[p]}
      BY <1>2, <2>2, <3>1, RuntimeClaims DEF ClaimInv
    <3> QED BY <3>2, <3>3, <3>4 DEF ClaimInv
  <2>3. ASSUME NEW m \in Migrator, MigratorStep(m), Quiet' PROVE FALSE
    BY <1>2, <2>3 DEF TypeOK, Quiet, MigratorStep, Inspect, TakeMigration, CheckLeases, Export,
       MoveMarker, MoveSource, Install, ReplaceMarker, UndoInstall, UndoSource, UndoMarker, Unlock,
       MoveFails, Goto
  <2>4. ASSUME NEW p \in Process, Crash(p), Quiet' PROVE ClaimInv'
    BY <1>2, <2>4, CrashMoves DEF Quiet, ClaimInv, Crash, stores, Claimed, Held, Serving
  <2>5. ~Quiet' => ClaimInv'
    BY DEF ClaimInv
  <2> QED BY <1>2, <2>1, <2>2, <2>3, <2>4, <2>5 DEF Next
<1>3. ClaimInv => ClaimsConverge
  BY DEF ClaimInv, ClaimsConverge, Quiet, Claimed, Held
<1> QED BY <1>1, <1>2, <1>3, TypeCorrect, RecoveryInvariant, PTL DEF Spec

-----------------------------------------------------------------------------
(***************************************************************************)
(* The inductive invariant of a migration, as long as one has started.      *)
(* Until it moves the marker, the store that the marker names has every     *)
(* acknowledged commit; then the staged import has them, and then the       *)
(* target: nothing is acknowledged in between, because no Runtime serves.   *)
(* With a second migration SourceNamed fails: it reads the marker before    *)
(* it takes the lock.                                                       *)
(***************************************************************************)
\* What a migration does before it moves anything is in Before.
OneMigration == \A m, n \in Migrator : pc[m] # "new" /\ pc[n] # "new" => m = n
Before       == {"new", "lock", "check_leases", "export"}
NotMoved     == \A m \in Migrator : pc[m] \in Before

ClaimsNamed ==
  \A p \in Runtime :
     /\ pc[p] \in Claimed => marker = Requested[p]
     /\ pc[p] \in {"init_claim", "write_marker"} =>
          existing[p] = marker /\ marker \in {Absent, Requested[p]}
     /\ pc[p] = "write_marker" => home[Requested[p]] # Absent
NamedWhole ==
  IF marker = Absent THEN acked = {} ELSE home[marker] # Absent /\ acked \subseteq home[marker]
SourceNamed == \A m \in Migrator : pc[m] \in {"lock", "check_leases", "export"} => existing[m] = marker
StagedWhole ==
  \A m \in Migrator : pc[m] \in {"move_marker", "move_source", "install"} =>
     staged[m] # Absent /\ acked \subseteq staged[m]
MovedWhole ==
  \A m \in Migrator : pc[m] \in {"replace_marker", "unlock"} =>
     home[target[m]] # Absent /\ acked \subseteq home[target[m]]
UnlockAlone == \A m \in Migrator : \A p \in Runtime : ~(pc[m] = "unlock" /\ pc[p] \in Serving)

MoveInv ==
  OneMigration => /\ NotMoved => ClaimsNamed /\ NamedWhole /\ SourceNamed
                  /\ StagedWhole /\ MovedWhole /\ UnlockAlone

\* What a step of a Runtime does to the stores: they only grow, and a commit
\* is made by a Runtime that serves.
LEMMA RuntimeStores ==
  ASSUME TypeOK, NEW p \in Runtime, RuntimeStep(p)
  PROVE  /\ UNCHANGED ofMigrator
         /\ \A k \in Kind : home[k] # Absent => home'[k] # Absent /\ home[k] \subseteq home'[k]
         /\ \/ acked' = acked
            \/ /\ pc[p] \in Serving /\ pc'[p] = pc[p] /\ marker' = marker
               /\ home[Requested[p]] # Absent =>
                    \A e \in acked' : e \in acked \/ e \in home'[Requested[p]]
         /\ pc'[p] = "write_marker" => home'[Requested[p]] # Absent
         /\ pc[p] = "write_marker" =>
              /\ home' = home /\ acked' = acked
              /\ marker' = (IF existing[p] = Absent THEN Requested[p] ELSE marker)
<1> USE StorageAssumption, AbsentAssumption DEF Process, Goto
<1>1. ASSUME UNCHANGED home, UNCHANGED acked
      PROVE  /\ \A k \in Kind : home[k] # Absent => home'[k] # Absent /\ home[k] \subseteq home'[k]
             /\ acked' = acked
  BY <1>1
<1>2. ASSUME NEW what, what \in Event, Commit(p, what)
      PROVE  /\ \A k \in Kind : home[k] # Absent => home'[k] # Absent /\ home[k] \subseteq home'[k]
             /\ home[Requested[p]] # Absent => \A e \in acked' : e \in acked \/ e \in home'[Requested[p]]
             /\ marker' = marker
  <2>1. ASSUME NEW k \in Kind, home[k] # Absent
        PROVE  home'[k] # Absent /\ home[k] \subseteq home'[k]
    <3>1. home'[k] = home[k] \/ home'[k] = home[k] \cup {what}
      BY <1>2, <2>1 DEF TypeOK, Commit
    <3> QED BY <1>2, <2>1, <3>1 DEF TypeOK, Store
  <2> QED BY <1>2, <2>1 DEF TypeOK, Commit
<1>3. CASE Launch(p)
  BY <1>3 DEF TypeOK, Launch, stores
<1>4. CASE TakeAuthority(p)
  BY <1>4 DEF TypeOK, TakeAuthority, stores
<1>5. CASE GiveUp(p)
  BY <1>5 DEF TypeOK, GiveUp, stores
<1>6. CASE Detect(p)
  BY <1>6 DEF TypeOK, Detect, stores
<1>7. CASE ReadMarker(p)
  BY <1>7 DEF TypeOK, ReadMarker, stores
<1>8. CASE InitClaim(p) \/ InitStore(p)
  <2>1. /\ UNCHANGED <<acked, ofMigrator>>
        /\ pc[p] # "write_marker"
        /\ home' = [home EXCEPT ![Requested[p]] = IF @ = Absent THEN {} ELSE @]
    BY <1>8 DEF InitClaim, InitStore, Initialized
  <2>2. Requested[p] \in Kind /\ {} \in SUBSET Event /\ {} # Absent
    OBVIOUS
  <2> QED BY <2>1, <2>2 DEF TypeOK
<1>9. CASE WriteMarker(p)
  BY <1>9 DEF TypeOK, WriteMarker
<1>10. CASE ListPeers(p)
  BY <1>10 DEF TypeOK, ListPeers, stores
<1>11. CASE CreateLease(p)
  BY <1>11 DEF TypeOK, CreateLease, stores
<1>12. CASE Recheck(p)
  BY <1>12 DEF TypeOK, Recheck, stores
<1>13. CASE ListRuns(p)
  BY <1>13 DEF TypeOK, ListRuns, stores
<1>14. CASE Recovered(p)
  BY <1>14 DEF TypeOK, Recovered, stores
<1>15. ASSUME NEW q \in Runtime, RecoverRun(p, q)
       PROVE  /\ UNCHANGED <<pc, ofMigrator>> /\ pc[p] \in Serving
              /\ UNCHANGED stores \/ Commit(p, <<q, "interrupted">>)
              /\ <<q, "interrupted">> \in Event
  BY <1>15 DEF RecoverRun, Serving, Event
<1>16. CASE StartRun(p) \/ EndRun(p) \/ \E q \in Runtime : RecoverRun(p, q)
  <2>1. /\ UNCHANGED <<pc, ofMigrator>>
        /\ pc[p] \in Serving
        /\ UNCHANGED stores \/ \E what \in Event : Commit(p, what)
    BY <1>15, <1>16 DEF StartRun, EndRun, Serving, Event
  <2>2. CASE UNCHANGED stores
    BY <2>1, <2>2 DEF stores, Serving
  <2>3. CASE \E what \in Event : Commit(p, what)
    BY <1>2, <2>1, <2>3 DEF Serving
  <2> QED BY <2>1, <2>2, <2>3
<1>17. CASE Close(p)
  BY <1>17 DEF TypeOK, Close, stores
<1> QED BY <1>3, <1>4, <1>5, <1>6, <1>7, <1>8, <1>9, <1>10, <1>11, <1>12, <1>13, <1>14, <1>16, <1>17
        DEF RuntimeStep

\* A step of the one migration keeps its invariant.
LEMMA MigratorKeeps ==
  ASSUME TypeInv, MoveInv, OneMigration, OneMigration', MigrationAlone, MigrationAlone',
         NEW m \in Migrator, MigratorStep(m)
  PROVE  MoveInv'
<1> USE StorageAssumption, AbsentAssumption DEF Process, Kind, TypeInv
<1> DEFINE Others == \A n \in Migrator : n # m => pc[n] = "new" /\ pc'[n] = "new"
<1>1. Others /\ \A p \in Runtime : pc'[p] = pc[p] /\ existing'[p] = existing[p]
  <2>1. pc'[m] # "new"
    BY DEF MigratorStep, Inspect, TakeMigration, CheckLeases, Export, MoveMarker, MoveSource,
       Install, ReplaceMarker, UndoInstall, UndoSource, UndoMarker, Unlock, MoveFails, Goto, TypeOK
  <2> QED BY <2>1, MigratorMoves DEF OneMigration
<1> HIDE DEF Others
<1>2. CASE pc[m] \in Before /\ pc'[m] \in Before /\ UNCHANGED stores
           /\ (existing' = existing \/ existing'[m] = marker)
           /\ (pc[m] = "new" => existing'[m] = marker)
  BY <1>1, <1>2 DEF MoveInv, Others, NotMoved, ClaimsNamed, NamedWhole, SourceNamed, StagedWhole,
     MovedWhole, UnlockAlone, Before, stores
<1>3. CASE pc'[m] \notin Before \cup {"move_marker", "move_source", "install", "replace_marker", "unlock"}
  BY <1>1, <1>3 DEF MoveInv, Others, NotMoved, StagedWhole, MovedWhole, UnlockAlone, Before
<1>4. ASSUME NEW k \in Kind, Inspect(m, k) PROVE MoveInv'
  BY <1>2, <1>4 DEF Inspect, Goto, Before, TypeOK
<1>5. CASE TakeMigration(m)
  BY <1>2, <1>3, <1>5 DEF TakeMigration, Goto, Before, TypeOK
<1>6. CASE CheckLeases(m)
  BY <1>2, <1>3, <1>6 DEF CheckLeases, Goto, Before, TypeOK
<1>7. CASE Export(m)
  <2>1. /\ existing[m] \in Kind /\ existing[m] = marker /\ target[m] \in Kind
        /\ home[marker] # Absent /\ acked \subseteq home[marker]
    <3>1. NotMoved
      BY <1>1, <1>7 DEF NotMoved, Before, Others, Export
    <3>2. pc[m] = "export"
      BY <1>7 DEF Export
    <3> QED BY <3>1, <3>2 DEF MoveInv, SourceNamed, NamedWhole, SourceKnown, Locked, Moving, TypeOK
  <2>2. Initialized(existing[m]) = home
    BY <2>1 DEF TypeOK, Initialized
  <2>3. /\ acked' = acked /\ target' = target /\ home' = home /\ marker' = marker
        /\ staged'[m] = (IF existing[m] = target[m] THEN Absent ELSE home[marker])
        /\ pc'[m] = (IF existing[m] = target[m] THEN "unlock" ELSE "move_marker")
    BY <1>7, <2>1, <2>2 DEF TypeOK, Export, Goto
  <2>4. \A p \in Runtime : pc[p] \notin Serving
    BY <1>7 DEF MigrationAlone, Export, Moving
  <2> QED BY <1>1, <2>1, <2>3, <2>4
             DEF MoveInv, Others, NotMoved, Before, StagedWhole, MovedWhole, UnlockAlone
<1>8. CASE MoveMarker(m) \/ MoveSource(m)
  <2>1. /\ UNCHANGED <<acked, staged, target>>
        /\ pc[m] \in {"move_marker", "move_source"} /\ pc'[m] \in {"move_source", "install"}
    BY <1>8 DEF TypeOK, MoveMarker, MoveSource, Goto
  <2> QED BY <1>1, <2>1 DEF MoveInv, Others, NotMoved, Before, StagedWhole, MovedWhole, UnlockAlone
<1>9. CASE Install(m)
  <2>1. CASE MayReplace(target[m])
    <3>1. /\ UNCHANGED <<acked, target>> /\ pc[m] = "install" /\ pc'[m] = "replace_marker"
          /\ home'[target[m]] = staged[m]
      BY <1>9, <2>1 DEF TypeOK, Install, Goto
    <3> QED BY <1>1, <3>1 DEF MoveInv, Others, NotMoved, Before, StagedWhole, MovedWhole, UnlockAlone
  <2>2. CASE ~MayReplace(target[m])
    BY <1>3, <1>9, <2>2 DEF TypeOK, Install, Goto, Before
  <2> QED BY <2>1, <2>2
<1>10. CASE ReplaceMarker(m)
  <2>1. /\ UNCHANGED <<acked, target, home>> /\ pc[m] = "replace_marker" /\ pc'[m] = "unlock"
    BY <1>10 DEF TypeOK, ReplaceMarker, Goto, ofMigrator
  <2>2. \A p \in Runtime : pc[p] \notin Serving
    BY <1>10 DEF MigrationAlone, ReplaceMarker, Moving
  <2> QED BY <1>1, <2>1, <2>2 DEF MoveInv, Others, NotMoved, Before, StagedWhole, MovedWhole, UnlockAlone
<1>11. CASE UndoInstall(m) \/ UndoSource(m) \/ UndoMarker(m) \/ Unlock(m)
  BY <1>3, <1>11 DEF TypeOK, UndoInstall, UndoSource, UndoMarker, Unlock, Goto, Before
<1>12. CASE MoveFails(m)
  BY <1>3, <1>12 DEF TypeOK, MoveFails, Goto, Before
<1> QED BY <1>4, <1>5, <1>6, <1>7, <1>8, <1>9, <1>10, <1>11, <1>12 DEF MigratorStep

\* A step of a Runtime keeps it.
LEMMA RuntimeKeeps ==
  ASSUME TypeInv, MoveInv, OneMigration, AuthorityOwned, LockOwned, MigrationAlone,
         NEW p \in Runtime, RuntimeStep(p)
  PROVE  MoveInv'
<1> USE StorageAssumption, AbsentAssumption DEF Process, Kind, TypeInv
<1>1. \A m \in Migrator : /\ pc'[m] = pc[m] /\ existing'[m] = existing[m]
                          /\ staged'[m] = staged[m] /\ target'[m] = target[m]
  BY RuntimeMoves, RuntimeStores DEF ofMigrator
<1>2. \A k \in Kind : home[k] # Absent => home'[k] # Absent /\ home[k] \subseteq home'[k]
  BY RuntimeStores
<1>3. UnlockAlone'
  BY <1>1, RuntimeMoves DEF MoveInv, UnlockAlone, LockOwned, Locked
<1>4. ASSUME NEW m \in Migrator, pc[m] \in Moving \cup {"unlock"} PROVE acked' = acked
  BY <1>4, RuntimeStores DEF MoveInv, UnlockAlone, MigrationAlone
<1>5. StagedWhole'
  BY <1>1, <1>4 DEF MoveInv, StagedWhole, Moving
<1>6. MovedWhole'
  BY <1>1, <1>2, <1>4 DEF MoveInv, MovedWhole, Moving, TypeOK
<1>7. ASSUME NotMoved' PROVE ClaimsNamed' /\ NamedWhole' /\ SourceNamed'
  <2>1. NotMoved
    BY <1>1, <1>7 DEF NotMoved, Before
  <2>2. ClaimsNamed /\ NamedWhole /\ SourceNamed
    BY <2>1 DEF MoveInv
  <2>3. marker' = marker \/ (marker = Absent /\ marker' = Requested[p])
    BY <2>2, RuntimeClaims, RuntimeStores DEF ClaimsNamed
  <2>4. SourceNamed'
    BY <1>1, <2>2, <2>3 DEF SourceNamed, SourceKnown, Locked, Moving
  <2>5. NamedWhole'
    <3>1. CASE acked' = acked /\ marker' = marker
      BY <1>2, <2>2, <3>1 DEF NamedWhole, TypeOK
    <3>2. CASE marker' # marker
      <4>1. pc[p] = "write_marker" /\ marker = Absent /\ marker' = Requested[p]
        BY <2>3, <3>2, RuntimeClaims
      <4>2. home' = home /\ acked' = acked /\ home[Requested[p]] # Absent
        BY <2>2, <4>1, RuntimeStores DEF ClaimsNamed
      <4> QED BY <2>2, <4>1, <4>2 DEF NamedWhole
    <3>3. CASE acked' # acked
      <4>1. marker' = marker /\ marker = Requested[p]
        BY <2>2, <3>3, RuntimeStores DEF ClaimsNamed, Claimed, Held
      <4>2. \A e \in acked' : e \in acked \/ e \in home'[Requested[p]]
        BY <2>2, <3>3, <4>1, RuntimeStores DEF NamedWhole
      <4> QED BY <1>2, <2>2, <4>1, <4>2 DEF NamedWhole
    <3> QED BY <3>1, <3>2, <3>3
  <2>6. ClaimsNamed'
    <3>1. ASSUME NEW q \in Runtime, q # p
          PROVE  /\ pc'[q] \in Claimed => marker' = Requested[q]
                 /\ pc'[q] \in {"init_claim", "write_marker"} =>
                      existing'[q] = marker' /\ marker' \in {Absent, Requested[q]}
                 /\ pc'[q] = "write_marker" => home'[Requested[q]] # Absent
      <4>1. pc'[q] = pc[q] /\ existing'[q] = existing[q]
        BY <3>1, RuntimeMoves, RuntimeClaims
      <4>2. pc'[q] = "write_marker" => home'[Requested[q]] # Absent
        BY <1>2, <2>2, <4>1 DEF ClaimsNamed
      <4>3. CASE marker' = marker
        BY <2>2, <4>1, <4>2, <4>3 DEF ClaimsNamed
      <4>4. CASE pc[p] = "write_marker" /\ marker = Absent
        <5>1. pc[q] \notin {"init_claim", "write_marker"}
          BY <3>1, <4>4 DEF AuthorityOwned, UnderLock
        <5>2. pc[q] \notin Claimed
          BY <2>2, <4>4 DEF ClaimsNamed
        <5> QED BY <4>1, <5>1, <5>2
      <4>5. marker' # marker => pc[p] = "write_marker" /\ marker = Absent
        BY <2>3, RuntimeClaims
      <4> QED BY <4>3, <4>4, <4>5
    <3>2. pc'[p] \in Claimed => marker' = Requested[p]
      BY <2>2, RuntimeClaims DEF ClaimsNamed
    <3>3. pc'[p] \in {"init_claim", "write_marker"} =>
            existing'[p] = marker' /\ marker' \in {Absent, Requested[p]}
      BY <2>2, RuntimeClaims DEF ClaimsNamed
    <3>4. pc'[p] = "write_marker" => home'[Requested[p]] # Absent
      BY RuntimeStores
    <3> QED BY <3>1, <3>2, <3>3, <3>4 DEF ClaimsNamed
  <2> QED BY <2>4, <2>5, <2>6
<1> QED BY <1>3, <1>5, <1>6, <1>7 DEF MoveInv

(***************************************************************************)
(* As long as one migration has started, the store it puts in place has     *)
(* every commit that was acknowledged, for any number of Runtimes that      *)
(* claim, serve and crash around it.                                        *)
(***************************************************************************)
THEOREM MigrationIsWhole == Spec => [](OneMigration => MigratedWhole)
<1> USE StorageAssumption, AbsentAssumption DEF Process
<1>1. Init => MoveInv
  BY DEF Init, MoveInv, NotMoved, Before, ClaimsNamed, NamedWhole, SourceNamed, StagedWhole, MovedWhole,
     UnlockAlone, Claimed, Held, Serving, Kind
<1>2. ASSUME TypeInv, TypeOK', AuthorityOwned, LockOwned, MigrationAlone, MigrationAlone', MoveInv,
             [Next]_vars
      PROVE  MoveInv'
  <2> SUFFICES ASSUME OneMigration' PROVE MoveInv'
    BY DEF MoveInv
  <2>1. CASE UNCHANGED vars
    BY <1>2, <2>1 DEF MoveInv, OneMigration, NotMoved, Before, ClaimsNamed, NamedWhole, SourceNamed,
       StagedWhole, MovedWhole, UnlockAlone, vars, stores, ofMigrator
  <2>2. ASSUME NEW p \in Runtime, RuntimeStep(p) PROVE MoveInv'
    <3>1. OneMigration
      BY <1>2, <2>2, RuntimeMoves DEF OneMigration, TypeInv
    <3> QED BY <1>2, <2>2, <3>1, RuntimeKeeps
  <2>3. ASSUME NEW m \in Migrator, MigratorStep(m) PROVE MoveInv'
    <3>1. pc'[m] # "new"
      BY <1>2, <2>3 DEF MigratorStep, Inspect, TakeMigration, CheckLeases, Export, MoveMarker,
         MoveSource, Install, ReplaceMarker, UndoInstall, UndoSource, UndoMarker, Unlock,
         MoveFails, Goto, TypeOK, TypeInv
    <3>2. OneMigration
      BY <1>2, <2>3, <3>1, MigratorMoves DEF OneMigration, TypeInv
    <3> QED BY <1>2, <2>3, <3>2, MigratorKeeps
  <2>4. ASSUME NEW p \in Process, Crash(p) PROVE MoveInv'
    <3>1. UNCHANGED <<home, marker, acked, existing, target, staged>>
      BY <2>4 DEF Crash, stores, ofMigrator
    <3>2. pc'[p] = "dead" /\ pc[p] # "new" /\ \A q \in Process : q # p => pc'[q] = pc[q]
      BY <1>2, <2>4, CrashMoves DEF Crash, Alive, TypeInv
    <3>3. OneMigration
      BY <3>2 DEF OneMigration
    <3> QED BY <1>2, <3>1, <3>2, <3>3
               DEF MoveInv, NotMoved, Before, ClaimsNamed, NamedWhole, SourceNamed,
               StagedWhole, MovedWhole, UnlockAlone, Claimed, Held, Serving
  <2> QED BY <1>2, <2>1, <2>2, <2>3, <2>4 DEF Next
<1>3. MoveInv => (OneMigration => MigratedWhole)
  BY DEF MoveInv, MovedWhole, MigratedWhole
<1>4. RecoveryInv => AuthorityOwned
  BY DEF RecoveryInv
<1> QED BY <1>1, <1>2, <1>3, <1>4, TypesHold, TypeCorrect, LocksKept, RecoveryInvariant,
           PTL DEF Spec

-----------------------------------------------------------------------------
(***************************************************************************)
(* The long-term memory: MemorySound for any number of sessions,             *)
(* directories, projects, requests of the management command and             *)
(* operations, and for any bounds.                                           *)
(*                                                                          *)
(* A session sends only after assertSession, which looks at rows: so the     *)
(* invariant is about the rows that must be there.  What a session carries   *)
(* has its exposure (Covered), and once the note is gone or the permission   *)
(* withdrawn, the session is blocked (BlockedInTime).  Both must hold of a   *)
(* fork from the moment it inherits, before it has a single message          *)
(* (ForkCovered): that is why fork keeps what the source held.               *)
(***************************************************************************)

Expiry == {"none", "ahead", "past"}
Items == Nat \X Project \X Nat
NoteRow == [id : 0 .. MaxNotes, revision : Nat, expiry : Expiry]
RunRow == [stage : {"idle", "start", "with", "without"}, project : Project \cup {0}, tools : BOOLEAN]
ManagerRow == [dir : Dir \cup {NoManager.dir}, project : Project \cup {0}, mode : Mode]
RequestRow == [by : Session \cup {Nobody}, action : {"none", "upsert", "forget"}, owner : Owner,
               id : 0 .. MaxNotes, revision : Nat, expiry : Expiry]

MemoryTypes ==
  /\ mode \in [Project -> Mode] /\ grant \in [Project -> BOOLEAN]
  /\ identity \in [Dir -> Project \cup {0}]
  /\ note \in [Owner -> NoteRow]
  /\ notes \in 1 .. MaxNotes
  /\ exposure \subseteq Session \X Project \X (1 .. MaxNotes)
  /\ blocked \subseteq Session /\ receipt \subseteq Operation
  /\ run \in [Session -> RunRow]
  /\ history \subseteq Session /\ carries \in [Session -> SUBSET Items]
  /\ fork \in [Session -> [from : Session \cup {Nobody}, held : SUBSET Items]]
  /\ overtaken \subseteq Session
  /\ manager \in [Manager -> ManagerRow]
  /\ request \in [Operation -> RequestRow]
  /\ effect \in [Operation -> Nat] /\ withdrawn \in [Project -> Nat]

\* The ids of notes are given out once.
NotesDistinct ==
  /\ \A o \in Owner : note[o].id <= notes /\ (note[o].id = 0 <=> note[o].revision = 0)
  /\ \A o, q \in Owner : note[o].id = note[q].id => o = q \/ note[o].id = 0

\* A receipt is what keeps an operation from taking effect again.
ReceiptKept == \A op \in Operation : effect[op] = IF op \in receipt THEN 1 ELSE 0

\* A session of which the messages are still to come has no run, and carries nothing; one
\* that runs without the service had no messages, any other has looked its project up.
Later(s) ==
  /\ s \notin history => carries[s] = {}
  /\ run[s].stage \in {"start", "with"} => run[s].project \in Project
  /\ run[s].stage \in {"with", "without"} => s \in history
  /\ run[s].stage = "without" => carries[s] = {}
  /\ fork[s].from # Nobody => s \notin history /\ run[s].stage = "idle"

CarriesLater == \A s \in Session : Later(s)

\* What was read is told by a row, and withdrawn only with those who have the row.
Told(s, i) ==
  /\ <<s, i[2], i[1]>> \in exposure
  /\ i[1] \in 1 .. notes /\ i[3] <= withdrawn[i[2]]
  /\ (\A o \in Owner : note[o].id # i[1]) \/ withdrawn[i[2]] > i[3] => s \in blocked

Covered == \A s \in Session \ overtaken : \A i \in carries[s] : Told(s, i)
ForkCovered == \A t \in Session : fork[t].from # Nobody => \A i \in fork[t].held : Told(t, i)

MemoryInv ==
  /\ MemoryTypes /\ NotesDistinct /\ ReceiptKept /\ CarriesLater /\ Covered /\ ForkCovered
  /\ OneHome

-----------------------------------------------------------------------------
(* The tables. *)

\* A look at a project gives one that is registered for this directory only.
LEMMA LookupKeeps ==
  ASSUME MemoryTypes, OneHome, NEW d \in Dir, NEW p \in Project, Lookup(d, p)
  PROVE  identity' \in [Dir -> Project \cup {0}] /\ OneHome'
<1>1. CASE UNCHANGED identity
  BY <1>1 DEF MemoryTypes, OneHome
<1>2. CASE /\ identity[d] = 0 /\ ~ Known(p) /\ identity' = [identity EXCEPT ![d] = p]
  <2>1. \A e \in Dir : identity[e] # p
    BY <1>2 DEF Known, Registered
  <2>2. identity' \in [Dir -> Project \cup {0}]
    BY <1>2 DEF MemoryTypes
  <2>3. OneHome'
    BY <1>2, <2>1 DEF MemoryTypes, OneHome
  <2>q. QED BY <2>2, <2>3
<1>q. QED BY <1>1, <1>2 DEF Lookup

\* Rows are only added, so what is told stays told, unless a note goes or a permission is
\* withdrawn from a session that is not blocked with it.
LEMMA ToldStays ==
  ASSUME NEW s, NEW i \in Items, Told(s, i), MemoryTypes,
         exposure \subseteq exposure', blocked \subseteq blocked',
         notes \in Nat, notes' \in Nat, notes <= notes',
         \A p \in Project : withdrawn'[p] \in Nat /\ withdrawn[p] <= withdrawn'[p],
         withdrawn'[i[2]] # withdrawn[i[2]] => s \in blocked',
         \A o \in Owner : note[o].id = i[1] =>
           (\E q \in Owner : note'[q].id = i[1]) \/ s \in blocked'
  PROVE  Told(s, i)'
<1>1. i[1] \in Nat /\ i[2] \in Project /\ i[3] \in Nat
  BY DEF Items
<1>2. withdrawn[i[2]] \in Nat
  BY <1>1 DEF MemoryTypes
<1>3. <<s, i[2], i[1]>> \in exposure' /\ i[1] \in 1 .. notes' /\ i[3] <= withdrawn'[i[2]]
  BY <1>1, <1>2 DEF Told
<1>4. ASSUME \A o \in Owner : note'[o].id # i[1] PROVE s \in blocked'
  BY <1>4 DEF Told
<1>5. ASSUME withdrawn'[i[2]] > i[3] PROVE s \in blocked'
  BY <1>5 DEF Told
<1>q. QED BY <1>3, <1>4, <1>5 DEF Told

\* Nothing a step leaves alone is told anew.
LEMMA ToldSame ==
  ASSUME UNCHANGED <<exposure, notes, note, withdrawn, blocked>>
  PROVE  \A s, i : Told(s, i)' = Told(s, i)
BY DEF Told

\* What a run may read now has a note and a permission.
LEMMA ToldNow ==
  ASSUME MemoryTypes, NotesDistinct, NEW s \in Session, NEW p \in Project, NEW o \in Owner,
         NEW i, i = Item(p, o), Readable(o), <<s, p, note[o].id>> \in exposure',
         UNCHANGED <<notes, note, withdrawn, blocked>>
  PROVE  i \in Items /\ Told(s, i)'
<1>1. note[o].id \in 1 .. notes /\ note[o].id \in Nat /\ withdrawn[p] \in Nat /\ notes \in Nat
  BY DEF MemoryTypes, NoteRow, NotesDistinct, Readable
<1>2. i = <<note[o].id, p, withdrawn[p]>> /\ i \in Items
  BY <1>1 DEF Item, Items
<1>3. i[1] = note[o].id /\ i[2] = p /\ i[3] = withdrawn[p]
  BY <1>2
<1>q. QED BY <1>1, <1>2, <1>3 DEF Told

\* A step of one session leaves the others where they are.
LEMMA OneMoves ==
  ASSUME MemoryTypes, CarriesLater, NEW s \in Session, NEW r \in RunRow,
         run' = [run EXCEPT ![s] = r], history' \in {history, history \cup {s}},
         \A t \in Session \ {s} : carries'[t] = carries[t] /\ fork'[t] = fork[t],
         Later(s)'
  PROVE  run' \in [Session -> RunRow] /\ history' \subseteq Session /\ CarriesLater'
<1>1. run' \in [Session -> RunRow] /\ history' \subseteq Session
  BY DEF MemoryTypes
<1>2. \A t \in Session \ {s} : run'[t] = run[t] /\ (t \in history' <=> t \in history)
  BY DEF MemoryTypes
<1>3. \A t \in Session \ {s} : Later(t)'
  BY <1>2 DEF CarriesLater, Later
<1>q. QED BY <1>1, <1>3 DEF CarriesLater

-----------------------------------------------------------------------------

LEMMA InitEstablishes == MemoryInit => MemoryInv
<1> SUFFICES ASSUME MemoryInit PROVE MemoryInv
  OBVIOUS
<1> USE MemoryAssumption
<1>1. MemoryTypes
  <2>1. note \in [Owner -> NoteRow]
    BY DEF MemoryInit, NoNote, Expiry, NoteRow
  <2>2. manager \in [Manager -> ManagerRow]
    BY DEF MemoryInit, NoManager, Mode, ManagerRow
  <2>3. request \in [Operation -> RequestRow]
    BY DEF MemoryInit, Unused, Owner, User, Expiry, RequestRow
  <2>4. run \in [Session -> RunRow]
    BY DEF MemoryInit, Idle, RunRow
  <2>5. fork \in [Session -> [from : Session \cup {Nobody}, held : SUBSET Items]]
    BY DEF MemoryInit, NoFork
  <2>6. /\ mode \in [Project -> Mode] /\ grant \in [Project -> BOOLEAN]
        /\ identity \in [Dir -> Project \cup {0}] /\ notes \in 1 .. MaxNotes
        /\ exposure \subseteq Session \X Project \X (1 .. MaxNotes)
        /\ blocked \subseteq Session /\ receipt \subseteq Operation /\ history \subseteq Session
        /\ carries \in [Session -> SUBSET Items] /\ overtaken \subseteq Session
        /\ effect \in [Operation -> Nat] /\ withdrawn \in [Project -> Nat]
    BY DEF MemoryInit, Mode
  <2>q. QED BY <2>1, <2>2, <2>3, <2>4, <2>5, <2>6 DEF MemoryTypes
<1>2. NotesDistinct
  BY DEF MemoryInit, NotesDistinct, NoNote, Owner, User
<1>3. ReceiptKept /\ CarriesLater /\ Covered /\ ForkCovered
  BY DEF MemoryInit, ReceiptKept, CarriesLater, Later, Covered, ForkCovered, Idle, NoFork
<1>4. OneHome
  BY DEF MemoryInit, OneHome
<1>q. QED BY <1>1, <1>2, <1>3, <1>4 DEF MemoryInv

-----------------------------------------------------------------------------
(* The steps.  A group of steps disturbs the same conjuncts. *)

\* A run looks its project up, goes without the service, or ends; a change is asked for: the
\* rows of notes, exposures and blocked sessions stay as they are.
LEMMA QuietSteps ==
  ASSUME MemoryInv,
         \/ \E s \in Session :
              \/ StartRead(s) \/ StartUnavailable(s) \/ LeaveRun(s)
              \/ \E op \in Operation : AskTool(op, s)
         \/ \E op \in Operation, h \in Manager : AskHost(op, h)
         \/ \E h \in Manager, d \in Dir : Manage(h, d)
         \/ \E h \in Manager, p \in Project : Rebind(h, p)
  PROVE  MemoryInv'
<1> USE MemoryAssumption
<1>a. /\ MemoryTypes /\ NotesDistinct /\ ReceiptKept /\ CarriesLater /\ Covered /\ ForkCovered
      /\ OneHome
  BY DEF MemoryInv
<1>b. UNCHANGED <<mode, grant, note, notes, exposure, blocked, receipt, carries, fork, overtaken,
                  effect, withdrawn>>
  BY DEF StartRead, StartUnavailable, LeaveRun, AskTool, AskHost, Ask, Manage, Rebind
<1>1. NotesDistinct' /\ ReceiptKept' /\ Covered' /\ ForkCovered'
  <2>1. NotesDistinct' /\ ReceiptKept'
    BY <1>a, <1>b DEF NotesDistinct, ReceiptKept
  <2>2. Covered' /\ ForkCovered'
    BY <1>a, <1>b, ToldSame DEF Covered, ForkCovered
  <2>q. QED BY <2>1, <2>2
<1>2. ASSUME NEW s \in Session, StartRead(s) PROVE MemoryTypes' /\ CarriesLater' /\ OneHome'
  <2>1. PICK p \in Project : /\ Lookup(Home[s], p)
                             /\ run' = [run EXCEPT ![s] = [stage |-> "start", project |-> p,
                                                           tools |-> mode[p] # "off"]]
    BY <1>2 DEF StartRead
  <2>2. Home[s] \in Dir
    OBVIOUS
  <2>3. identity' \in [Dir -> Project \cup {0}] /\ OneHome'
    BY <1>a, <2>1, <2>2, LookupKeeps
  <2>4. /\ [stage |-> "start", project |-> p, tools |-> mode[p] # "off"] \in RunRow
        /\ fork[s].from = Nobody /\ UNCHANGED <<history, manager, request>>
    BY <1>2 DEF RunRow, StartRead
  <2>5. Later(s)'
    BY <1>a, <1>b, <2>1, <2>4 DEF Later, CarriesLater, MemoryTypes
  <2>6. run' \in [Session -> RunRow] /\ CarriesLater'
    BY <1>a, <1>b, <2>1, <2>4, <2>5, OneMoves
  <2>q. QED BY <1>a, <1>b, <2>3, <2>4, <2>6 DEF MemoryTypes
<1>3. ASSUME NEW s \in Session, StartUnavailable(s) PROVE MemoryTypes' /\ CarriesLater' /\ OneHome'
  <2>1. fork[s].from = Nobody /\ UNCHANGED <<identity, manager, request>>
    BY <1>3 DEF StartUnavailable
  <2>2. PICK r \in RunRow : /\ run' = [run EXCEPT ![s] = r]
                            /\ history' \in {history, history \cup {s}}
                            /\ \/ r.stage = "idle" /\ history' = history
                               \/ r.stage = "without" /\ s \notin history /\ s \in history'
    <3>1. CASE s \in history
      <4>1. Idle \in RunRow /\ Idle.stage = "idle"
        BY DEF RunRow, Idle
      <4>q. QED BY <1>3, <3>1, <4>1 DEF StartUnavailable
    <3>2. CASE s \notin history
      <4> DEFINE r == [stage |-> "without", project |-> 0, tools |-> FALSE]
      <4>1. r \in RunRow /\ r.stage = "without"
        BY DEF RunRow
      <4>2. run' = [run EXCEPT ![s] = r] /\ history' = history \cup {s}
        BY <1>3, <3>2 DEF StartUnavailable
      <4>q. QED BY <3>2, <4>1, <4>2
    <3>q. QED BY <3>1, <3>2
  <2>3. Later(s)'
    BY <1>a, <1>b, <2>1, <2>2 DEF Later, CarriesLater, MemoryTypes
  <2>4. run' \in [Session -> RunRow] /\ history' \subseteq Session /\ CarriesLater'
    BY <1>a, <1>b, <2>2, <2>3, OneMoves
  <2>q. QED BY <1>a, <1>b, <2>1, <2>4 DEF MemoryTypes, OneHome
<1>4. ASSUME NEW s \in Session, LeaveRun(s) PROVE MemoryTypes' /\ CarriesLater' /\ OneHome'
  <2>1. /\ run' = [run EXCEPT ![s] = Idle] /\ Idle \in RunRow /\ Idle.stage = "idle"
        /\ run[s].stage \in {"with", "without"} /\ UNCHANGED <<identity, history, manager>>
    BY <1>4 DEF LeaveRun, Idle, RunRow
  <2>2. Unused \in RequestRow
    BY DEF Unused, Owner, User, Expiry, RequestRow
  <2>3. request' \in [Operation -> RequestRow]
    BY <1>a, <1>4, <2>2 DEF MemoryTypes, LeaveRun
  <2>4. Later(s)'
    BY <1>a, <1>b, <2>1 DEF Later, CarriesLater, MemoryTypes
  <2>5. run' \in [Session -> RunRow] /\ history' \subseteq Session /\ CarriesLater'
    BY <1>a, <1>b, <2>1, <2>4, OneMoves
  <2>q. QED BY <1>a, <1>b, <2>1, <2>3, <2>5 DEF MemoryTypes, OneHome
<1>5. ASSUME NEW op \in Operation, NEW by \in Session \cup {Nobody}, NEW p \in Owner, Ask(op, by, p)
      PROVE  request' \in [Operation -> RequestRow]
  <2>1. PICK action \in {"upsert", "forget"}, o \in {p, User}, expiry \in {"none", "ahead"} :
          request' = [request EXCEPT ![op] =
            [by |-> by, action |-> action, owner |-> o, id |-> note[o].id,
             revision |-> note[o].revision, expiry |-> expiry]]
    BY <1>5 DEF Ask
  <2>2. o \in Owner
    BY DEF Owner, User
  <2>3. note[o].id \in 0 .. MaxNotes /\ note[o].revision \in Nat
    BY <1>a, <2>2 DEF MemoryTypes, NoteRow
  <2>4. [by |-> by, action |-> action, owner |-> o, id |-> note[o].id,
         revision |-> note[o].revision, expiry |-> expiry] \in RequestRow
    BY <2>2, <2>3 DEF RequestRow, Expiry
  <2>q. QED BY <1>a, <2>1, <2>4 DEF MemoryTypes
<1>6. ASSUME NEW s \in Session, NEW op \in Operation, AskTool(op, s)
      PROVE  MemoryTypes' /\ CarriesLater' /\ OneHome'
  <2>1. run[s].project \in Owner
    BY <1>a DEF MemoryTypes, Owner, User, RunRow
  <2>2. request' \in [Operation -> RequestRow]
    BY <1>5, <1>6, <2>1 DEF AskTool
  <2>3. UNCHANGED <<identity, run, history, manager>>
    BY <1>6 DEF AskTool, Ask
  <2>q. QED BY <1>a, <1>b, <2>2, <2>3 DEF MemoryTypes, CarriesLater, Later, OneHome
<1>7. ASSUME NEW op \in Operation, NEW h \in Manager, AskHost(op, h)
      PROVE  MemoryTypes' /\ CarriesLater' /\ OneHome'
  <2>1. manager[h].project \in Owner
    BY <1>a DEF MemoryTypes, Owner, User, ManagerRow
  <2>2. request' \in [Operation -> RequestRow]
    BY <1>5, <1>7, <2>1 DEF AskHost
  <2>3. manager' \in [Manager -> ManagerRow]
    BY <1>a, <1>7 DEF MemoryTypes, AskHost, NoManager, Mode, ManagerRow
  <2>4. UNCHANGED <<identity, run, history>>
    BY <1>7 DEF AskHost, Ask
  <2>q. QED BY <1>a, <1>b, <2>2, <2>3, <2>4 DEF MemoryTypes, CarriesLater, Later, OneHome
<1>8. ASSUME NEW h \in Manager, NEW d \in Dir, Manage(h, d)
      PROVE  MemoryTypes' /\ CarriesLater' /\ OneHome'
  <2>1. PICK p \in Project :
          /\ Lookup(d, p)
          /\ manager' = [manager EXCEPT ![h] = [dir |-> d, project |-> p, mode |-> mode[p]]]
    BY <1>8 DEF Manage
  <2>2. identity' \in [Dir -> Project \cup {0}] /\ OneHome'
    BY <1>a, <2>1, LookupKeeps
  <2>3. manager' \in [Manager -> ManagerRow]
    BY <1>a, <2>1 DEF MemoryTypes, ManagerRow
  <2>4. UNCHANGED <<run, history, request>>
    BY <1>8 DEF Manage
  <2>q. QED BY <1>a, <1>b, <2>2, <2>3, <2>4 DEF MemoryTypes, CarriesLater, Later
<1>9. ASSUME NEW h \in Manager, NEW p \in Project, Rebind(h, p)
      PROVE  MemoryTypes' /\ CarriesLater' /\ OneHome'
  <2>1. identity' = Moved(manager[h].dir, p)
    BY <1>9 DEF Rebind
  <2>2. identity' \in [Dir -> Project \cup {0}]
    BY <1>a, <2>1 DEF MemoryTypes, Moved
  <2>3. OneHome'
    BY <1>a, <2>1 DEF MemoryTypes, Moved, OneHome
  <2>4. manager' \in [Manager -> ManagerRow]
    BY <1>a, <1>9 DEF MemoryTypes, Rebind, NoManager, Mode, ManagerRow
  <2>5. UNCHANGED <<run, history, request>>
    BY <1>9 DEF Rebind
  <2>q. QED BY <1>a, <1>b, <2>2, <2>3, <2>4, <2>5 DEF MemoryTypes, CarriesLater, Later
<1>10. MemoryTypes' /\ CarriesLater' /\ OneHome'
  BY <1>2, <1>3, <1>4, <1>6, <1>7, <1>8, <1>9
<1>q. QED BY <1>1, <1>10 DEF MemoryInv

\* Whatever a step reads into a session's context it also writes into the exposures; what the
\* others carry stays told.
LEMMA ReadsAreTold ==
  ASSUME MemoryInv, NEW s \in Session, NEW p \in Project,
         NEW readable \in SUBSET {o \in Owner : Readable(o)},
         exposure' = exposure \cup {<<s, p, note[o].id>> : o \in readable},
         carries' = [carries EXCEPT ![s] = @ \cup {Item(p, o) : o \in readable}],
         UNCHANGED <<note, notes, blocked, withdrawn, fork, overtaken>>
  PROVE  /\ exposure' \subseteq Session \X Project \X (1 .. MaxNotes)
         /\ carries' \in [Session -> SUBSET Items]
         /\ Covered' /\ ForkCovered'
<1> USE MemoryAssumption
<1>a. MemoryTypes /\ NotesDistinct /\ Covered /\ ForkCovered
  BY DEF MemoryInv
<1>1. \A o \in readable : note[o].id \in 1 .. MaxNotes
  BY <1>a DEF MemoryTypes, NoteRow, Readable
<1>2. exposure' \subseteq Session \X Project \X (1 .. MaxNotes)
  BY <1>a, <1>1 DEF MemoryTypes
<1>3. ASSUME NEW i \in {Item(p, o) : o \in readable} PROVE i \in Items /\ Told(s, i)'
  BY <1>a, <1>3, ToldNow
<1>4. carries' \in [Session -> SUBSET Items]
  BY <1>a, <1>3 DEF MemoryTypes
<1>5. ASSUME NEW t \in Session, NEW i \in Items, Told(t, i) PROVE Told(t, i)'
  <2>1. /\ exposure \subseteq exposure' /\ blocked \subseteq blocked'
        /\ notes \in Nat /\ notes' \in Nat /\ notes <= notes'
        /\ \A q \in Project : withdrawn'[q] \in Nat /\ withdrawn[q] <= withdrawn'[q]
        /\ withdrawn'[i[2]] = withdrawn[i[2]]
        /\ \A o \in Owner : note[o].id = i[1] => \E q \in Owner : note'[q].id = i[1]
    BY <1>a DEF MemoryTypes
  <2>q. QED BY <1>a, <1>5, <2>1, ToldStays
<1>6. Covered'
  <2> SUFFICES ASSUME NEW t \in Session \ overtaken, NEW i \in carries'[t] PROVE Told(t, i)'
    BY DEF Covered
  <2>1. CASE i \in carries[t]
    BY <1>a, <1>5, <2>1 DEF MemoryTypes, Covered
  <2>2. CASE t = s /\ i \in {Item(p, o) : o \in readable}
    BY <1>3, <2>2
  <2>q. QED BY <1>a, <2>1, <2>2 DEF MemoryTypes
<1>7. ForkCovered'
  <2> SUFFICES ASSUME NEW t \in Session, fork[t].from # Nobody, NEW i \in fork[t].held
               PROVE  Told(t, i)'
    BY DEF ForkCovered
  <2>1. i \in Items /\ Told(t, i)
    BY <1>a DEF MemoryTypes, ForkCovered
  <2>q. QED BY <1>5, <2>1
<1>q. QED BY <1>2, <1>4, <1>6, <1>7

\* The start of a run puts the notes that match into its context; a tool reads one more.
LEMMA ReadSteps ==
  ASSUME MemoryInv, NEW s \in Session, EnterRun(s) \/ \E o \in Owner : ToolRead(s, o)
  PROVE  MemoryInv'
<1> USE MemoryAssumption
<1>a. /\ MemoryTypes /\ NotesDistinct /\ ReceiptKept /\ CarriesLater /\ Covered /\ ForkCovered
      /\ OneHome
  BY DEF MemoryInv
<1>b. UNCHANGED <<mode, grant, identity, note, notes, blocked, receipt, fork, overtaken, manager,
                  request, effect, withdrawn>>
  BY DEF EnterRun, ToolRead
<1>1. NotesDistinct' /\ ReceiptKept' /\ OneHome'
  BY <1>a, <1>b DEF NotesDistinct, ReceiptKept, OneHome
<1>2. ASSUME history' \subseteq Session, exposure' \subseteq Session \X Project \X (1 .. MaxNotes),
             carries' \in [Session -> SUBSET Items],
             run' \in [Session -> RunRow],
             CarriesLater', Covered', ForkCovered'
      PROVE  MemoryInv'
  <2>1. MemoryTypes'
    BY <1>a, <1>b, <1>2 DEF MemoryTypes
  <2>q. QED BY <1>1, <1>2, <2>1 DEF MemoryInv
<1>3. CASE EnterRun(s) /\ UNCHANGED <<exposure, carries>>
  <2> DEFINE p == run[s].project
  <2>1. run[s].stage = "start" /\ p \in Project
    BY <1>a, <1>3 DEF EnterRun, CarriesLater, Later
  <2>2. PICK r \in RunRow : /\ run' = [run EXCEPT ![s] = r]
                            /\ history' \in {history, history \cup {s}}
                            /\ \/ r.stage = "idle" /\ history' = history
                               \/ r.stage = "with" /\ r.project = p /\ s \in history'
    <3>1. \A b \in BOOLEAN : [stage |-> "with", project |-> p, tools |-> b] \in RunRow
      BY <2>1 DEF RunRow
    <3>2. Idle \in RunRow /\ Idle.stage = "idle"
      BY DEF RunRow, Idle
    <3>q. QED BY <1>3, <3>1, <3>2 DEF EnterRun
  <2>3. Covered' /\ ForkCovered'
    BY <1>a, <1>b, <1>3, ToldSame DEF Covered, ForkCovered
  <2>4. Later(s)'
    BY <1>a, <1>b, <1>3, <2>1, <2>2 DEF MemoryTypes, CarriesLater, Later
  <2>5. run' \in [Session -> RunRow] /\ history' \subseteq Session /\ CarriesLater'
    BY <1>a, <1>b, <1>3, <2>2, <2>4, OneMoves
  <2>q. QED BY <1>a, <1>2, <1>3, <2>3, <2>5 DEF MemoryTypes
<1>4. CASE EnterRun(s) /\ ~ UNCHANGED <<exposure, carries>>
  <2> DEFINE p == run[s].project
  <2>1. /\ mode[p] # "off" /\ history' = history \cup {s}
        /\ run' = [run EXCEPT ![s] = [stage |-> "with", project |-> p, tools |-> TRUE]]
        /\ run[s].stage = "start"
    BY <1>4 DEF EnterRun
  <2>2. PICK readable \in SUBSET {o \in Owner : Readable(o) /\ MayRead(p, o)} :
             /\ exposure' = exposure \cup {<<s, p, note[o].id>> : o \in readable}
             /\ carries' = [carries EXCEPT ![s] = @ \cup {Item(p, o) : o \in readable}]
    BY <1>4 DEF EnterRun
  <2>3. p \in Project
    BY <1>a, <2>1 DEF CarriesLater, Later
  <2>4. readable \in SUBSET {o \in Owner : Readable(o)}
    OBVIOUS
  <2>5. /\ exposure' \subseteq Session \X Project \X (1 .. MaxNotes)
        /\ carries' \in [Session -> SUBSET Items] /\ Covered' /\ ForkCovered'
    BY <1>b, <2>2, <2>3, <2>4, ReadsAreTold
  <2>6. [stage |-> "with", project |-> p, tools |-> TRUE] \in RunRow
    BY <2>3 DEF RunRow
  <2>7. Later(s)'
    BY <1>a, <1>b, <2>1, <2>3 DEF MemoryTypes, CarriesLater, Later
  <2>8. run' \in [Session -> RunRow] /\ history' \subseteq Session /\ CarriesLater'
    <3>1. \A t \in Session \ {s} : carries'[t] = carries[t] /\ fork'[t] = fork[t]
      BY <1>a, <1>b, <2>2 DEF MemoryTypes
    <3>q. QED BY <1>a, <2>1, <2>6, <2>7, <3>1, OneMoves
  <2>q. QED BY <1>2, <2>5, <2>8
<1>5. CASE \E o \in Owner : ToolRead(s, o)
  <2> DEFINE p == run[s].project
  <2>1. PICK o \in Owner : ToolRead(s, o)
    BY <1>5
  <2>2. run[s].stage = "with" /\ Readable(o) /\ UNCHANGED <<run, history>>
    BY <2>1 DEF ToolRead
  <2>3. exposure' = exposure \cup {<<s, p, note[q].id>> : q \in {o}}
    BY <2>1 DEF ToolRead, Expose
  <2>4. carries' = [carries EXCEPT ![s] = @ \cup {Item(p, q) : q \in {o}}]
    <3>1. {Item(p, q) : q \in {o}} = {Item(p, o)}
      OBVIOUS
    <3>2. carries' = [carries EXCEPT ![s] = @ \cup {Item(p, o)}]
      BY <2>1 DEF ToolRead
    <3>q. QED BY <3>1, <3>2
  <2>5. p \in Project /\ {o} \in SUBSET {q \in Owner : Readable(q)}
    BY <1>a, <2>2 DEF CarriesLater, Later
  <2>6. /\ exposure' \subseteq Session \X Project \X (1 .. MaxNotes)
        /\ carries' \in [Session -> SUBSET Items] /\ Covered' /\ ForkCovered'
    BY <1>b, <2>3, <2>4, <2>5, ReadsAreTold
  <2>7. CarriesLater'
    BY <1>a, <1>b, <2>2, <2>4 DEF MemoryTypes, CarriesLater, Later
  <2>q. QED BY <1>a, <1>2, <2>2, <2>6, <2>7 DEF MemoryTypes
<1>q. QED BY <1>3, <1>4, <1>5

\* A write gives out a fresh id or keeps the id it finds, and a note that expires keeps its
\* own; forget blocks whoever has a row of the note.
LEMMA NoteSteps ==
  ASSUME MemoryInv, (\E op \in Operation : Deliver(op)) \/ (\E o \in Owner : Expire(o))
  PROVE  MemoryInv'
<1> USE MemoryAssumption
<1>a. /\ MemoryTypes /\ NotesDistinct /\ ReceiptKept /\ CarriesLater /\ Covered /\ ForkCovered
      /\ OneHome
  BY DEF MemoryInv
<1>b. UNCHANGED <<mode, grant, identity, exposure, run, history, carries, fork, overtaken, manager,
                  request, withdrawn>>
  BY DEF Deliver, Expire
<1>1. CarriesLater' /\ OneHome'
  BY <1>a, <1>b DEF CarriesLater, Later, OneHome
<1>2. ASSUME note' \in [Owner -> NoteRow], notes' \in 1 .. MaxNotes, notes <= notes',
             blocked' \subseteq Session, blocked \subseteq blocked', receipt' \subseteq Operation,
             effect' \in [Operation -> Nat], NotesDistinct', ReceiptKept',
             \A o \in Owner, e \in exposure : note[o].id = e[3] =>
               (\E q \in Owner : note'[q].id = e[3]) \/ e[1] \in blocked'
      PROVE  MemoryInv'
  <2>1. MemoryTypes'
    BY <1>a, <1>b, <1>2 DEF MemoryTypes
  <2>2. ASSUME NEW s \in Session, NEW i \in Items, Told(s, i) PROVE Told(s, i)'
    <3>1. <<s, i[2], i[1]>> \in exposure
      BY <2>2 DEF Told
    <3>2. \A o \in Owner : note[o].id = i[1] =>
            (\E q \in Owner : note'[q].id = i[1]) \/ s \in blocked'
      BY <1>2, <3>1
    <3>3. /\ exposure \subseteq exposure' /\ notes \in Nat /\ notes' \in Nat
          /\ \A p \in Project : withdrawn'[p] \in Nat /\ withdrawn[p] <= withdrawn'[p]
          /\ withdrawn'[i[2]] = withdrawn[i[2]]
      BY <1>a, <1>b, <1>2 DEF MemoryTypes
    <3>q. QED BY <1>a, <1>2, <2>2, <3>2, <3>3, ToldStays
  <2>3. Covered'
    BY <1>a, <1>b, <2>2 DEF Covered, MemoryTypes
  <2>4. ForkCovered'
    BY <1>a, <1>b, <2>2 DEF ForkCovered, MemoryTypes
  <2>q. QED BY <1>1, <1>2, <2>1, <2>3, <2>4 DEF MemoryInv
<1>3. ASSUME NEW o \in Owner, Expire(o) PROVE MemoryInv'
  <2>1. /\ note' = [note EXCEPT ![o].expiry = "past"]
        /\ UNCHANGED <<notes, blocked, receipt, effect>>
    BY <1>3 DEF Expire
  <2>2. note' \in [Owner -> NoteRow]
    BY <1>a, <2>1 DEF MemoryTypes, NoteRow, Expiry
  <2>3. \A q \in Owner : note'[q].id = note[q].id /\ note'[q].revision = note[q].revision
    BY <1>a, <2>1 DEF MemoryTypes, NoteRow
  <2>4. NotesDistinct' /\ ReceiptKept'
    BY <1>a, <2>1, <2>3 DEF NotesDistinct, ReceiptKept
  <2>q. QED BY <1>a, <1>2, <2>1, <2>2, <2>3, <2>4 DEF MemoryTypes
<1>4. ASSUME NEW op \in Operation, Deliver(op) PROVE MemoryInv'
  <2> DEFINE r == request[op]
             old == note[r.owner]
  <2>1. r \in RequestRow /\ r.owner \in Owner /\ r.expiry \in Expiry /\ old \in NoteRow
    BY <1>a DEF MemoryTypes, RequestRow
  <2>2. /\ op \notin receipt /\ receipt' = receipt \cup {op}
        /\ effect' = [effect EXCEPT ![op] = @ + 1]
    BY <1>4 DEF Deliver, Fresh
  <2>3. receipt' \subseteq Operation /\ effect' \in [Operation -> Nat] /\ ReceiptKept'
    BY <1>a, <2>2 DEF MemoryTypes, ReceiptKept
  <2>4. CASE r.action = "upsert"
    <3> DEFINE new == [id |-> IF old.id = 0 THEN notes + 1 ELSE old.id,
                       revision |-> old.revision + 1, expiry |-> r.expiry]
    <3>1. /\ note' = [note EXCEPT ![r.owner] = new] /\ UNCHANGED blocked
          /\ notes' = IF old.id = 0 THEN notes + 1 ELSE notes
          /\ old.id = 0 => notes < MaxNotes
      BY <1>4, <2>4 DEF Deliver
    <3>2. /\ notes' \in 1 .. MaxNotes /\ notes <= notes' /\ new.id \in 1 .. notes'
          /\ new.revision \in Nat \ {0} /\ new \in NoteRow
      BY <1>a, <2>1, <3>1 DEF MemoryTypes, NoteRow, NotesDistinct
    <3>3. note' \in [Owner -> NoteRow] /\ note'[r.owner] = new
      BY <1>a, <2>1, <3>1, <3>2 DEF MemoryTypes
    <3>4. \A q \in Owner : q # r.owner => note'[q] = note[q]
      BY <1>a, <3>1 DEF MemoryTypes
    <3>5. \A q \in Owner : note[q] \in NoteRow /\ note[q].id \in Nat
      BY <1>a DEF MemoryTypes, NoteRow
    <3>6. notes \in Nat /\ notes' \in Nat
      BY <1>a, <3>2 DEF MemoryTypes
    <3>7. \A q \in Owner : note'[q].id <= notes' /\ (note'[q].id = 0 <=> note'[q].revision = 0)
      <4> TAKE q \in Owner
      <4>1. CASE q = r.owner
        BY <3>2, <3>3, <3>6, <4>1
      <4>2. CASE q # r.owner
        BY <1>a, <3>2, <3>4, <3>5, <3>6, <4>2 DEF NotesDistinct
      <4>q. QED BY <4>1, <4>2
    <3>8. \A q \in Owner : q # r.owner => note[q].id # new.id
      <4>1. CASE old.id = 0
        BY <1>a, <3>5, <3>6, <4>1 DEF NotesDistinct
      <4>2. CASE old.id # 0
        BY <1>a, <2>1, <4>2 DEF NotesDistinct
      <4>q. QED BY <4>1, <4>2
    <3>9. NotesDistinct'
      BY <1>a, <3>3, <3>4, <3>7, <3>8 DEF NotesDistinct
    <3>10. \A q \in Owner : note[q].id # 0 => note'[q].id = note[q].id
      BY <3>3, <3>4
    <3>11. \A q \in Owner, e \in exposure : note[q].id = e[3] => \E x \in Owner : note'[x].id = e[3]
      BY <1>a, <3>10 DEF MemoryTypes
    <3>q. QED BY <1>a, <1>2, <2>3, <3>1, <3>2, <3>3, <3>9, <3>11 DEF MemoryTypes
  <2>5. CASE r.action = "forget"
    <3>1. /\ old.id = r.id /\ blocked' = blocked \cup Exposed(r.id, r.owner)
          /\ note' = [note EXCEPT ![r.owner] = NoNote] /\ UNCHANGED notes
      BY <1>4, <2>5 DEF Deliver
    <3>2. NoNote \in NoteRow /\ NoNote.id = 0 /\ NoNote.revision = 0
      BY DEF NoNote, NoteRow, Expiry
    <3>3. note' \in [Owner -> NoteRow] /\ note'[r.owner] = NoNote
      BY <1>a, <2>1, <3>1, <3>2 DEF MemoryTypes
    <3>4. \A q \in Owner : q # r.owner => note'[q] = note[q]
      BY <1>a, <3>1 DEF MemoryTypes
    <3>5. NotesDistinct'
      BY <1>a, <3>1, <3>2, <3>3, <3>4 DEF NotesDistinct, MemoryTypes
    <3>6. \A e \in exposure : e[1] \in Session /\ (e[3] = r.id => e[1] \in blocked')
      BY <1>a, <3>1 DEF Exposed, MemoryTypes
    <3>7. blocked' \subseteq Session /\ blocked \subseteq blocked'
      BY <1>a, <3>1, <3>6 DEF Exposed, MemoryTypes
    <3>8. \A q \in Owner, e \in exposure : note[q].id = e[3] =>
            (\E x \in Owner : note'[x].id = e[3]) \/ e[1] \in blocked'
      BY <3>1, <3>4, <3>6
    <3>q. QED BY <1>a, <1>2, <2>3, <3>1, <3>3, <3>5, <3>7, <3>8 DEF MemoryTypes
  <2>q. QED BY <1>4, <2>4, <2>5 DEF Deliver
<1>q. QED BY <1>3, <1>4

\* configure blocks whoever has a row of the project it withdraws.
LEMMA ConfigureStep ==
  ASSUME MemoryInv, NEW h \in Manager, NEW m \in Mode, NEW g \in BOOLEAN, Configure(h, m, g)
  PROVE  MemoryInv'
<1> USE MemoryAssumption
<1> DEFINE p == manager[h].project
<1>a. /\ MemoryTypes /\ NotesDistinct /\ ReceiptKept /\ CarriesLater /\ Covered /\ ForkCovered
      /\ OneHome
  BY DEF MemoryInv
<1>b. UNCHANGED <<identity, note, notes, exposure, receipt, run, history, carries, fork, overtaken,
                  request, effect>>
  BY DEF Configure
<1>c. p \in Project
  BY <1>a DEF Configure, MemoryTypes, ManagerRow
<1>1. NotesDistinct' /\ ReceiptKept' /\ CarriesLater' /\ OneHome'
  BY <1>a, <1>b DEF NotesDistinct, ReceiptKept, CarriesLater, Later, OneHome
<1>2. \/ UNCHANGED <<blocked, withdrawn>>
      \/ /\ blocked' = blocked \cup {e[1] : e \in {x \in exposure : x[2] = p}}
         /\ withdrawn' = [withdrawn EXCEPT ![p] = @ + 1]
  BY DEF Configure, Withdraws
<1>3. /\ blocked \subseteq blocked' /\ blocked' \subseteq Session
      /\ withdrawn' \in [Project -> Nat]
      /\ \A q \in Project : withdrawn'[q] \in Nat /\ withdrawn[q] <= withdrawn'[q]
      /\ \A q \in Project : q # p => withdrawn'[q] = withdrawn[q]
  BY <1>a, <1>2, <1>c DEF MemoryTypes
<1>4. \A e \in exposure : withdrawn'[e[2]] # withdrawn[e[2]] => e[1] \in blocked'
  BY <1>a, <1>2, <1>3 DEF MemoryTypes
<1>5. mode' \in [Project -> Mode] /\ grant' \in [Project -> BOOLEAN] /\ manager' \in [Manager -> ManagerRow]
  <2>1. NoManager \in ManagerRow
    BY DEF NoManager, ManagerRow, Mode
  <2>2. mode' = [mode EXCEPT ![p] = m] /\ grant' = [grant EXCEPT ![p] = g]
        /\ manager' = [manager EXCEPT ![h] = NoManager]
    BY DEF Configure
  <2>q. QED BY <1>a, <1>c, <2>1, <2>2 DEF MemoryTypes
<1>6. MemoryTypes'
  BY <1>a, <1>b, <1>3, <1>5 DEF MemoryTypes
<1>7. ASSUME NEW s \in Session, NEW i \in Items, Told(s, i) PROVE Told(s, i)'
  <2>1. <<s, i[2], i[1]>> \in exposure
    BY <1>7 DEF Told
  <2>2. withdrawn'[i[2]] # withdrawn[i[2]] => s \in blocked'
    BY <1>4, <2>1
  <2>3. /\ exposure \subseteq exposure' /\ notes \in Nat /\ notes' \in Nat /\ notes <= notes'
        /\ \A o \in Owner : note[o].id = i[1] => \E q \in Owner : note'[q].id = i[1]
    BY <1>a, <1>b DEF MemoryTypes
  <2>q. QED BY <1>a, <1>3, <1>7, <2>2, <2>3, ToldStays
<1>8. Covered' /\ ForkCovered'
  BY <1>a, <1>b, <1>7 DEF Covered, ForkCovered, MemoryTypes
<1>q. QED BY <1>1, <1>6, <1>8 DEF MemoryInv

\* A fork inherits the rows of what its source holds, if the source has them itself.
LEMMA InheritStep ==
  ASSUME MemoryInv, NEW s \in Session, NEW t \in Session, Inherit(s, t)
  PROVE  MemoryInv'
<1> USE MemoryAssumption
<1>a. /\ MemoryTypes /\ NotesDistinct /\ ReceiptKept /\ CarriesLater /\ Covered /\ ForkCovered
      /\ OneHome
  BY DEF MemoryInv
<1>b. UNCHANGED <<mode, grant, identity, note, notes, receipt, run, history, carries, overtaken,
                  manager, request, effect, withdrawn>>
  BY DEF Inherit
<1> DEFINE held == IF s \in overtaken THEN {} ELSE carries[s]
<1>c. /\ t \notin history /\ run[t].stage = "idle"
      /\ fork' = [fork EXCEPT ![t] = [from |-> s, held |-> held]]
      /\ exposure' = exposure \cup {<<t, e[2], e[3]>> : e \in {x \in exposure : x[1] = s}}
      /\ blocked' = IF s \in blocked THEN blocked \cup {t} ELSE blocked
  BY DEF Inherit, Inherited
<1>1. NotesDistinct' /\ ReceiptKept' /\ OneHome'
  BY <1>a, <1>b DEF NotesDistinct, ReceiptKept, OneHome
<1>2. /\ exposure' \subseteq Session \X Project \X (1 .. MaxNotes) /\ exposure \subseteq exposure'
      /\ blocked' \subseteq Session /\ blocked \subseteq blocked'
  BY <1>a, <1>c DEF MemoryTypes
<1>3. /\ fork' \in [Session -> [from : Session \cup {Nobody}, held : SUBSET Items]]
      /\ fork'[t] = [from |-> s, held |-> held] /\ \A x \in Session \ {t} : fork'[x] = fork[x]
  BY <1>a, <1>c DEF MemoryTypes
<1>4. MemoryTypes'
  BY <1>a, <1>b, <1>2, <1>3 DEF MemoryTypes
<1>5. CarriesLater'
  <2>1. \A x \in Session \ {t} : Later(x)'
    BY <1>a, <1>b, <1>3 DEF CarriesLater, Later
  <2>2. Later(t)'
    BY <1>a, <1>b, <1>c DEF CarriesLater, Later
  <2>q. QED BY <2>1, <2>2 DEF CarriesLater
<1>6. ASSUME NEW x \in Session, NEW i \in Items, Told(x, i) PROVE Told(x, i)'
  <2>1. /\ notes \in Nat /\ notes' \in Nat /\ notes <= notes'
        /\ \A q \in Project : withdrawn'[q] \in Nat /\ withdrawn[q] <= withdrawn'[q]
        /\ withdrawn'[i[2]] = withdrawn[i[2]]
        /\ \A o \in Owner : note[o].id = i[1] => \E q \in Owner : note'[q].id = i[1]
    BY <1>a, <1>b DEF MemoryTypes
  <2>q. QED BY <1>a, <1>2, <1>6, <2>1, ToldStays
<1>7. Covered'
  BY <1>a, <1>b, <1>6 DEF Covered, MemoryTypes
<1>8. ForkCovered'
  <2> SUFFICES ASSUME NEW x \in Session, fork'[x].from # Nobody, NEW i \in fork'[x].held
               PROVE  Told(x, i)'
    BY DEF ForkCovered
  <2>1. CASE x # t
    BY <1>a, <1>3, <1>6, <2>1 DEF ForkCovered, MemoryTypes
  <2>2. CASE x = t
    <3>1. s \notin overtaken /\ i \in carries[s]
      BY <1>3, <2>2
    <3>2. i \in Items /\ Told(s, i)
      BY <1>a, <3>1 DEF Covered, MemoryTypes
    <3>3. <<s, i[2], i[1]>> \in {y \in exposure : y[1] = s}
      BY <3>2 DEF Told
    <3>4. <<t, i[2], i[1]>> \in exposure'
      <4> DEFINE e == <<s, i[2], i[1]>>
      <4>1. <<t, i[2], i[1]>> = <<t, e[2], e[3]>>
        OBVIOUS
      <4>q. QED BY <1>c, <3>3, <4>1
    <3>5. s \in blocked => t \in blocked'
      BY <1>c
    <3>q. QED BY <1>b, <2>2, <3>2, <3>4, <3>5 DEF Told
  <2>q. QED BY <2>1, <2>2
<1>q. QED BY <1>1, <1>4, <1>5, <1>7, <1>8 DEF MemoryInv

\* The copy holds what was inherited, or the fork counts as overtaken.
LEMMA CopyStep ==
  ASSUME MemoryInv, NEW t \in Session, Copy(t)
  PROVE  MemoryInv'
<1> USE MemoryAssumption
<1>a. /\ MemoryTypes /\ NotesDistinct /\ ReceiptKept /\ CarriesLater /\ Covered /\ ForkCovered
      /\ OneHome
  BY DEF MemoryInv
<1>b. UNCHANGED <<mode, grant, identity, note, notes, exposure, blocked, receipt, run, manager,
                  request, effect, withdrawn>>
  BY DEF Copy
<1> DEFINE s == fork[t].from
<1>c. PICK copied \in {{}, carries[s]} :
        /\ s # Nobody /\ fork' = [fork EXCEPT ![t] = NoFork] /\ history' = history \cup {t}
        /\ carries' = [carries EXCEPT ![t] = copied]
        /\ overtaken' = IF copied \subseteq fork[t].held THEN overtaken ELSE overtaken \cup {t}
  BY DEF Copy
<1>1. NotesDistinct' /\ ReceiptKept' /\ OneHome'
  BY <1>a, <1>b DEF NotesDistinct, ReceiptKept, OneHome
<1>2. s \in Session /\ copied \subseteq Items
  BY <1>a, <1>c DEF MemoryTypes
<1>3. NoFork \in [from : Session \cup {Nobody}, held : SUBSET Items] /\ NoFork.from = Nobody
  BY DEF NoFork
<1>4. /\ fork' \in [Session -> [from : Session \cup {Nobody}, held : SUBSET Items]]
      /\ carries' \in [Session -> SUBSET Items] /\ history' \subseteq Session
      /\ overtaken' \subseteq Session
      /\ fork'[t] = NoFork /\ carries'[t] = copied
      /\ \A x \in Session \ {t} : fork'[x] = fork[x] /\ carries'[x] = carries[x]
  BY <1>a, <1>c, <1>2, <1>3 DEF MemoryTypes
<1>5. MemoryTypes'
  BY <1>a, <1>b, <1>4 DEF MemoryTypes
<1>6. CarriesLater'
  <2>1. \A x \in Session \ {t} : Later(x)'
    BY <1>a, <1>b, <1>c, <1>4 DEF CarriesLater, Later
  <2>2. run[t].stage = "idle"
    BY <1>a, <1>c DEF CarriesLater, Later
  <2>3. Later(t)'
    BY <1>b, <1>c, <1>3, <1>4, <2>2 DEF Later
  <2>q. QED BY <2>1, <2>3 DEF CarriesLater
<1>7. Covered'
  <2> SUFFICES ASSUME NEW x \in Session \ overtaken', NEW i \in carries'[x] PROVE Told(x, i)'
    BY DEF Covered
  <2>1. Told(x, i)
    <3>1. CASE x # t
      BY <1>a, <1>c, <1>4, <3>1 DEF Covered
    <3>2. CASE x = t
      BY <1>a, <1>c, <1>4, <3>2 DEF ForkCovered
    <3>q. QED BY <3>1, <3>2
  <2>q. QED BY <1>b, <2>1, ToldSame
<1>8. ForkCovered'
  BY <1>a, <1>b, <1>3, <1>4, ToldSame DEF ForkCovered
<1>q. QED BY <1>1, <1>5, <1>6, <1>7, <1>8 DEF MemoryInv

-----------------------------------------------------------------------------

LEMMA StepPreserves == MemoryInv /\ [MemoryNext]_memoryVars => MemoryInv'
<1> SUFFICES ASSUME MemoryInv, [MemoryNext]_memoryVars PROVE MemoryInv'
  OBVIOUS
<1>1. CASE UNCHANGED memoryVars
  BY <1>1 DEF memoryVars, MemoryInv, MemoryTypes, NotesDistinct, ReceiptKept, CarriesLater, Later,
              Covered, ForkCovered, Told, OneHome
<1>2. CASE MemoryNext
  BY <1>2, QuietSteps, ReadSteps, NoteSteps, ConfigureStep, InheritStep, CopyStep DEF MemoryNext
<1>q. QED BY <1>1, <1>2

\* assertSession tells from the rows whatever must not be sent.
LEMMA InvIsSound == MemoryInv => MemorySound
<1> SUFFICES ASSUME MemoryInv PROVE MemorySound
  OBVIOUS
<1> USE MemoryAssumption
<1>a. /\ MemoryTypes /\ NotesDistinct /\ ReceiptKept /\ CarriesLater /\ Covered /\ OneHome
  BY DEF MemoryInv
<1>1. MemoryTypeOK
  BY <1>a DEF MemoryTypes, NotesDistinct, MemoryTypeOK, RunRow
<1>2. EffectOnce
  BY <1>a DEF ReceiptKept, EffectOnce
<1>3. RevokedNotSent
  <2> SUFFICES ASSUME NEW s \in Session \ overtaken, Sends(s), NEW i \in carries[s], Withdrawn(i)
               PROVE  FALSE
    BY DEF RevokedNotSent
  <2>1. Told(s, i) /\ run[s].stage # "without"
    BY <1>a DEF Covered, CarriesLater, Later
  <2>2. s \notin blocked /\ ~ Revoked(s)
    BY <2>1 DEF Sends, Revoked
  <2>3. PICK o \in Owner : note[o].id = i[1] /\ note[o].expiry = "past"
    BY <2>1, <2>2 DEF Withdrawn, Told
  <2>4. <<s, i[2], i[1]>> \in exposure
    BY <2>1 DEF Told
  <2>5. Revoked(s)
    <3> DEFINE e == <<s, i[2], i[1]>>
    <3>1. e[1] = s /\ note[o].id = e[3]
      BY <2>3
    <3>q. QED BY <2>3, <2>4, <3>1 DEF Revoked
  <2>q. QED BY <2>2, <2>5
<1>q. QED BY <1>a, <1>1, <1>2, <1>3 DEF MemorySound

\* The rows keep pace with what sessions and forks carry, whatever is written, forgotten,
\* withdrawn, moved or forked between the awaits of the others.
THEOREM MemoryInvariant == MemorySpec => []MemoryInv
<1>1. MemoryInit => MemoryInv
  BY InitEstablishes
<1>2. MemoryInv /\ [MemoryNext]_memoryVars => MemoryInv'
  BY StepPreserves
<1>q. QED BY <1>1, <1>2, PTL DEF MemorySpec

\* No request goes to a model with a revoked note in its transcript, an operation takes
\* effect once, and a project has one home (assertSession, receipt, rebind).
THEOREM NotesAreRevoked == MemorySpec => []MemorySound
<1>1. MemoryInv => MemorySound
  BY InvIsSound
<1>q. QED BY <1>1, MemoryInvariant, PTL

=============================================================================
