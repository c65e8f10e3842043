--------------------------- MODULE SqliteJournal ---------------------------
(***************************************************************************)
(* SqliteSessionJournalV3, the second session store: the tables commits,    *)
(* entries and sessions, written in one BEGIN IMMEDIATE transaction by      *)
(* appendExclusive, behind the in-process queue of appendCommit; the reads  *)
(* in pages, deepScrub, and the creation of the schema.  On top of it the   *)
(* publication of ReducingSessionJournalV3 and the compare-and-set of       *)
(* SessionRepositoryV3.append.  Several processes may open one file.        *)
(*                                                                         *)
(* It implements SessionLog with the rows of commits as the log.            *)
(***************************************************************************)
EXTENDS Naturals, Sequences, Functions

CONSTANTS
  Session, Commit, NoCommit,   \* as in SessionLog
  KeyOf,        \* [Commit -> idempotency key]
  Size,         \* [Commit -> number of entries]
  Host, Actor,
  HostOf,       \* [Actor -> Host]
  Mine,         \* [Actor -> the commits it makes and sends]
  PageLimit,    \* entries in a page
  MaxReads,     \* bound: reads in pages and scrubs
  MaxSqlFaults  \* bound: crashes and failing statements

None == "none"

\* What the proofs assume of the constants; the run's module states it of its instance.
SqlAssumption ==
  /\ HostOf \in [Actor -> Host] /\ Mine \in [Actor -> SUBSET Commit] /\ Size \in [Commit -> Nat]
  /\ PageLimit \in Nat /\ MaxReads \in Nat /\ MaxSqlFaults \in Nat
  /\ None \notin Actor \cup Session /\ NoCommit \notin Commit
  /\ NoCommit \notin [session : Session, revision : Nat]
  /\ NoCommit \notin [session : Session, revision : Nat, first : Nat]

VARIABLES
  made,       \* [Commit -> [session, revision, first] or NoCommit]
  acked,      \* commits whose receipt was returned
  told,       \* [Commit -> times the listeners were told of it]
  db,         \* the committed tables
  draft,      \* the tables as the open write transaction sees them
  schema,     \* user_version
  writer,     \* the actor whose transaction holds the write lock, or None
  queue,      \* [Host -> the appends chained on #writer]
  open,       \* [Host -> #database is set]
  pc,         \* [Actor -> position in its operation]
  com, fresh, \* [Actor -> its commit, and whether it was no duplicate]
  reading,    \* [Actor -> the session, throughSequence and entries of a read in pages]
  reads, sqlFaults

sqlVars == <<made, acked, told, db, draft, schema, writer, queue, open, pc, com, fresh, reading,
             reads, sqlFaults>>
clientVars == <<made, acked, told>>
callVars == <<com, fresh>>
readVars == <<reading, reads>>

\* One row of sessions is the head and what its projection was reduced from; an entry is
\* named by its commit.
Heads  == [revision : Nat, sequence : Nat, projected : Seq(Commit)]
Tables == [commits : [Session -> Seq(Commit)], entries : [Session -> Seq(Commit)],
           head : [Session -> Heads]]
TablesOf(cs, es, hs) == [commits |-> cs, entries |-> es, head |-> hs]
Offers == [session : Session, revision : Nat, first : Nat]
Reads == [session : Session \cup {None}, through : Nat, after : Nat, got : Seq(Commit)]
NoRow == [revision |-> 0, sequence |-> 0, projected |-> <<>>]
NoRead == [session |-> None, through |-> 0, after |-> 0, got |-> <<>>]

Position == {"idle", "version", "migrate", "queued", "find", "commit_row", "entries", "projection",
             "commit", "receipt", "head", "rows", "scrub"}

SqlTypeOK ==
  /\ made \in [Commit -> Offers \cup {NoCommit}]
  /\ acked \subseteq Commit /\ told \in [Commit -> Nat]
  /\ db \in Tables /\ draft \in Tables /\ schema \in {0, 1}
  /\ writer \in Actor \cup {None} /\ queue \in [Host -> Seq(Actor)] /\ open \subseteq Host
  /\ pc \in [Actor -> Position]
  /\ com \in [Actor -> Commit \cup {NoCommit}] /\ fresh \in [Actor -> BOOLEAN]
  /\ reading \in [Actor -> Reads] /\ reads \in 0 .. MaxReads /\ sqlFaults \in 0 .. MaxSqlFaults

SqlInit ==
  /\ made = [c \in Commit |-> NoCommit] /\ acked = {} /\ told = [c \in Commit |-> 0]
  /\ db = TablesOf([s \in Session |-> <<>>], [s \in Session |-> <<>>], [s \in Session |-> NoRow])
  /\ draft = db /\ schema = 0 /\ writer = None
  /\ queue = [h \in Host |-> <<>>] /\ open = {}
  /\ pc = [a \in Actor |-> "idle"] /\ com = [a \in Actor |-> NoCommit]
  /\ fresh = [a \in Actor |-> FALSE] /\ reading = [a \in Actor |-> NoRead]
  /\ reads = 0 /\ sqlFaults = 0

Goto(a, p) == pc' = [pc EXCEPT ![a] = p]
Ready(a) == HostOf[a] \in open /\ pc[a] = "idle"

(***************************************************************************)
(* initialize.                                                              *)
(***************************************************************************)

Starting(h) == \E a \in Actor : HostOf[a] = h /\ pc[a] \in {"version", "migrate"}

Initialize(a) ==
  /\ pc[a] = "idle" /\ HostOf[a] \notin open /\ ~Starting(HostOf[a])
  /\ Goto(a, "version")
  /\ UNCHANGED <<clientVars, db, draft, schema, writer, queue, open, callVars, readVars, sqlFaults>>

\* migrate looks at user_version before its transaction.
ReadVersion(a) ==
  /\ pc[a] = "version"
  /\ \/ schema = 1 /\ open' = open \cup {HostOf[a]} /\ Goto(a, "idle")
     \/ schema = 0 /\ Goto(a, "migrate") /\ UNCHANGED open
  /\ UNCHANGED <<clientVars, db, draft, schema, writer, queue, callVars, readVars, sqlFaults>>

\* A version that counts the migrations.
VersionBumped == schema + 1

Version == 1

\* The tables are created, unless somebody else has created them since: then the
\* statement fails and so does initialize.
Migrate(a) ==
  /\ pc[a] = "migrate" /\ writer = None
  /\ open' = IF schema = 0 THEN open \cup {HostOf[a]} ELSE open
  /\ schema' = Version /\ Goto(a, "idle")
  /\ UNCHANGED <<clientVars, db, draft, writer, queue, callVars, readVars, sqlFaults>>

(***************************************************************************)
(* appendCommit.                                                            *)
(***************************************************************************)

HeadOf(s) == db.head[s]

Offer(s) == [session |-> s, revision |-> HeadOf(s).revision + 1, first |-> HeadOf(s).sequence + 1]

\* append of the repository reads the projection and builds the next commit on it; or a
\* client sends a commit again.
Call(a, s, c) ==
  /\ Ready(a) /\ c \in Mine[a]
  /\ \/ /\ made[c] = NoCommit
        /\ made' = [made EXCEPT ![c] = Offer(s)]
     \/ /\ made[c] # NoCommit /\ made[c].session = s
        /\ UNCHANGED made
  /\ com' = [com EXCEPT ![a] = c] /\ fresh' = [fresh EXCEPT ![a] = FALSE]
  /\ queue' = [queue EXCEPT ![HostOf[a]] = Append(@, a)]
  /\ Goto(a, "queued")
  /\ UNCHANGED <<acked, told, db, draft, schema, writer, open, readVars, sqlFaults>>

\* A chain that stops at an operation that failed.
AdvanceOnSuccess(a) ==
  queue' = [queue EXCEPT ![HostOf[a]] = IF pc[a] = "receipt" THEN Tail(@) ELSE @]

\* #writer goes on to the next operation, whether this one succeeded or not.
Advance(a) == queue' = [queue EXCEPT ![HostOf[a]] = Tail(@)]

\* The operation rejects, its transaction rolled back.
Reject(a) ==
  /\ writer' = IF writer = a THEN None ELSE writer
  /\ draft' = IF writer = a THEN db ELSE draft
  /\ Advance(a) /\ Goto(a, "idle")
  /\ UNCHANGED <<clientVars, db, schema, open, callVars, readVars>>

BeginImmediate(a) ==
  /\ pc[a] = "queued" /\ Head(queue[HostOf[a]]) = a
  /\ writer = None /\ writer' = a /\ draft' = db
  /\ Goto(a, "find")
  /\ UNCHANGED <<clientVars, db, schema, queue, open, callVars, readVars, sqlFaults>>

\* The lock of another process outlasts busy_timeout.
Busy(a) ==
  /\ pc[a] = "queued" /\ Head(queue[HostOf[a]]) = a /\ writer # None
  /\ Reject(a) /\ UNCHANGED sqlFaults

Same(c, d) == c = d \/ KeyOf[c] = KeyOf[d]

\* A search by commit id only.
DuplicatesById(c) == {d \in Range(draft.commits[made[c].session]) : c = d}

Duplicates(c) == {d \in Range(draft.commits[made[c].session]) : Same(c, d)}

\* A head that only bounds the commit.
FitsLate(c) == made[c].revision <= draft.head[made[c].session].revision + 1

\* assertSessionCommitAgainstHeadV3.
Fits(c) ==
  LET h == draft.head[made[c].session] IN
  made[c].revision = h.revision + 1 /\ made[c].first = h.sequence + 1

\* findDuplicate, then the head: a duplicate is acknowledged without a write, another
\* commit of the same key or at another place in the log is rejected.
FindDuplicate(a) ==
  /\ pc[a] = "find"
  /\ \/ /\ com[a] \in Duplicates(com[a])
        /\ writer' = None /\ Goto(a, "receipt")
        /\ UNCHANGED <<clientVars, db, draft, schema, queue, open, callVars, readVars>>
     \/ /\ Duplicates(com[a]) \ {com[a]} # {} \/ (Duplicates(com[a]) = {} /\ ~Fits(com[a]))
        /\ Reject(a)
     \/ /\ Duplicates(com[a]) = {} /\ Fits(com[a])
        /\ fresh' = [fresh EXCEPT ![a] = TRUE] /\ Goto(a, "commit_row")
        /\ UNCHANGED <<clientVars, db, draft, schema, writer, queue, open, com, readVars>>
  /\ UNCHANGED sqlFaults

InsertCommit(a) ==
  /\ pc[a] = "commit_row"
  /\ draft' = TablesOf([draft.commits EXCEPT ![made[com[a]].session] = Append(@, com[a])],
                       draft.entries, draft.head)
  /\ Goto(a, "entries")
  /\ UNCHANGED <<clientVars, db, schema, writer, queue, open, callVars, readVars, sqlFaults>>

Entries(c) == [i \in 1 .. Size[c] |-> c]

InsertEntries(a) ==
  /\ pc[a] = "entries"
  /\ draft' = TablesOf(draft.commits,
                       [draft.entries EXCEPT ![made[com[a]].session] = @ \o Entries(com[a])], draft.head)
  /\ Goto(a, "projection")
  /\ UNCHANGED <<clientVars, db, schema, writer, queue, open, callVars, readVars, sqlFaults>>

\* A row written from what its caller had read.
RowFromBase(c) ==
  [revision |-> made[c].revision, sequence |-> made[c].first, projected |-> draft.entries[made[c].session]]

\* reduceSessionEntriesV3 of the entries before the commit and its own.
Row(c) ==
  [revision |-> made[c].revision, sequence |-> made[c].first + Size[c] - 1,
   projected |-> draft.entries[made[c].session]]

UpsertSession(a) ==
  /\ pc[a] = "projection"
  /\ draft' = TablesOf(draft.commits, draft.entries,
                       [draft.head EXCEPT ![made[com[a]].session] = Row(com[a])])
  /\ Goto(a, "commit")
  /\ UNCHANGED <<clientVars, db, schema, writer, queue, open, callVars, readVars, sqlFaults>>

CommitTransaction(a) ==
  /\ pc[a] = "commit" /\ db' = draft /\ writer' = None /\ Goto(a, "receipt")
  /\ UNCHANGED <<clientVars, draft, schema, queue, open, callVars, readVars, sqlFaults>>

\* Listeners that are told of every receipt.
NewsAlways(a) == TRUE

\* The listeners are told of a commit that is no duplicate.
News(a) == fresh[a]

\* The promise resolves: to the queue, to the listeners, and to the caller.
Receipt(a) ==
  /\ pc[a] = "receipt"
  /\ acked' = acked \cup {com[a]}
  /\ told' = IF News(a) THEN [told EXCEPT ![com[a]] = @ + 1] ELSE told
  /\ Advance(a) /\ Goto(a, "idle")
  /\ UNCHANGED <<made, db, draft, schema, writer, open, callVars, readVars, sqlFaults>>

(***************************************************************************)
(* Reads.                                                                   *)
(***************************************************************************)

\* readAll of the callers: from the start, through the head of the first page.
ReadAll(a, s) ==
  /\ Ready(a) /\ HeadOf(s).revision > 0 /\ reads < MaxReads /\ reads' = reads + 1
  /\ reading' = [reading EXCEPT ![a] = [session |-> s, through |-> 0, after |-> 0, got |-> <<>>]]
  /\ Goto(a, "head")
  /\ UNCHANGED <<clientVars, db, draft, schema, writer, queue, open, callVars, sqlFaults>>

ReadHead(a) ==
  /\ pc[a] = "head"
  /\ LET r == reading[a] IN
       reading' = [reading EXCEPT ![a] =
         [session |-> r.session, after |-> r.after, got |-> r.got,
          through |-> IF r.through = 0 THEN HeadOf(r.session).sequence ELSE r.through]]
  /\ Goto(a, "rows")
  /\ UNCHANGED <<clientVars, db, draft, schema, writer, queue, open, callVars, reads, sqlFaults>>

\* A page that may go beyond its bound.
LastOfUnbounded(r) == LET n == Len(db.entries[r.session]) IN
  IF r.after + PageLimit < n THEN r.after + PageLimit ELSE n

\* sequence > after AND sequence <= through, LIMIT.
LastOf(r) == IF r.after + PageLimit < r.through THEN r.after + PageLimit ELSE r.through

ReadRows(a) ==
  /\ pc[a] = "rows"
  /\ LET r == reading[a] IN
       /\ reading' = [reading EXCEPT ![a] =
            [session |-> r.session, through |-> r.through, after |-> LastOf(r),
             got |-> r.got \o SubSeq(db.entries[r.session], r.after + 1, LastOf(r))]]
       /\ Goto(a, IF LastOf(r) < r.through THEN "head" ELSE "idle")
  /\ UNCHANGED <<clientVars, db, draft, schema, writer, queue, open, callVars, reads, sqlFaults>>

\* deepScrub reads the entries of a session, and then its projection.
ScrubEntries(a, s) ==
  /\ Ready(a) /\ HeadOf(s).revision > 0 /\ reads < MaxReads /\ reads' = reads + 1
  /\ reading' = [reading EXCEPT ![a] =
       [session |-> s, through |-> 0, after |-> 0, got |-> db.entries[s]]]
  /\ Goto(a, "scrub")
  /\ UNCHANGED <<clientVars, db, draft, schema, writer, queue, open, callVars, sqlFaults>>

\* The two are compared; through tells the verdict, 1 for a mismatch.
ScrubProjection(a) ==
  /\ pc[a] = "scrub"
  /\ LET r == reading[a] IN
       reading' = [reading EXCEPT ![a] =
         [session |-> None, after |-> 0, got |-> <<>>,
          through |-> IF r.got = HeadOf(r.session).projected THEN 0 ELSE 1]]
  /\ Goto(a, "idle")
  /\ UNCHANGED <<clientVars, db, draft, schema, writer, queue, open, callVars, reads, sqlFaults>>

(***************************************************************************)
(* Failures.                                                                *)
(***************************************************************************)

Fault == sqlFaults < MaxSqlFaults /\ sqlFaults' = sqlFaults + 1

\* A statement throws; ROLLBACK.
StatementFails(a) ==
  /\ pc[a] \in {"find", "commit_row", "entries", "projection", "commit"}
  /\ Fault /\ Reject(a)

\* The process dies: its transaction is never committed.
Crash(h) ==
  /\ h \in open /\ Fault
  /\ LET dead == {a \in Actor : HostOf[a] = h} IN
       /\ writer' = IF writer \in dead THEN None ELSE writer
       /\ draft' = IF writer \in dead THEN db ELSE draft
       /\ pc' = [a \in Actor |-> IF a \in dead THEN "idle" ELSE pc[a]]
       /\ reading' = [a \in Actor |-> IF a \in dead THEN NoRead ELSE reading[a]]
  /\ queue' = [queue EXCEPT ![h] = <<>>] /\ open' = open \ {h}
  /\ UNCHANGED <<clientVars, db, schema, callVars, reads>>

AppendStep(a) ==
  \/ BeginImmediate(a) \/ Busy(a) \/ FindDuplicate(a) \/ InsertCommit(a) \/ InsertEntries(a)
  \/ UpsertSession(a) \/ CommitTransaction(a) \/ Receipt(a)

SqlNext ==
  \/ \E a \in Actor :
       \/ Initialize(a) \/ ReadVersion(a) \/ Migrate(a)
       \/ \E s \in Session : (\E c \in Commit : Call(a, s, c)) \/ ReadAll(a, s) \/ ScrubEntries(a, s)
       \/ AppendStep(a) \/ ReadHead(a) \/ ReadRows(a) \/ ScrubProjection(a) \/ StatementFails(a)
  \/ \E h \in Host : Crash(h)

SqlSpec == SqlInit /\ [][SqlNext]_sqlVars

(***************************************************************************)
(* Properties.                                                              *)
(***************************************************************************)

Log == INSTANCE SessionLog WITH
  made <- [c \in Commit |-> IF made[c] = NoCommit THEN NoCommit
                            ELSE [session |-> made[c].session, revision |-> made[c].revision]],
  log <- db.commits

\* The rows of commits are the log that SessionJournalCommitStoreV3 promises, whoever
\* crashes or contends for the lock: each commit at the revision it was made for, at most
\* once, in the log before its receipt, and never taken out.
SqliteImplementsLog == Log!LogSpec

Follows(c, d) == made[d].first = made[c].first + Size[c]
Span(c) == made[c].first .. made[c].first + Size[c] - 1

SessionAgrees(s, cs, es, h) ==
  /\ h = [revision |-> Len(cs), sequence |-> Len(es), projected |-> es]
  /\ \A i \in 1 .. Len(cs) :
       /\ made[cs[i]] # NoCommit /\ made[cs[i]].session = s /\ made[cs[i]].revision = i
       /\ IF i = 1 THEN made[cs[i]].first = 1 ELSE Follows(cs[i - 1], cs[i])
       /\ made[cs[i]].first + Size[cs[i]] <= Len(es) + 1
       /\ \A p \in Span(cs[i]) : es[p] = cs[i]
  /\ IF cs = <<>> THEN es = <<>> ELSE made[cs[Len(cs)]].first + Size[cs[Len(cs)]] = Len(es) + 1

\* The three tables of a session agree in every committed state: its commits are those made
\* for it, each at its revision; their entries follow one another without a gap, each where
\* its commit says; and the head and the projection cover all of them.
TablesAgree == \A s \in Session : SessionAgrees(s, db.commits[s], db.entries[s], db.head[s])

\* Of the commits that carry one idempotency key at most one is in the log of a session,
\* although a client that lost a race builds another (findDuplicate).
OncePerKey == \A s \in Session : \A i, j \in DOMAIN db.commits[s] :
  KeyOf[db.commits[s][i]] = KeyOf[db.commits[s][j]] => i = j

\* A read in pages that has ended got all entries up to the head of its first page and no
\* others, whatever was appended between its pages.
PagesWhole == \A a \in Actor :
  pc[a] = "idle" /\ reading[a].session # None
    => reading[a].got = SubSeq(db.entries[reading[a].session], 1, reading[a].through)

\* The listeners are told of a commit at most once, and only when it is durable.
ToldOnce == \A c \in Commit :
  told[c] <= 1 /\ (told[c] = 1 => \E s \in Session : c \in Range(db.commits[s]))

\* The chain of a process holds the appends in progress, each once, and nothing else: one
\* that failed or was refused never stays at its head, where all later ones wait for it.
ChainMoves == \A h \in Host :
  /\ \A i, j \in DOMAIN queue[h] : queue[h][i] = queue[h][j] => i = j
  /\ Range(queue[h]) = {a \in Actor : HostOf[a] = h /\ pc[a] \in
                          {"queued", "find", "commit_row", "entries", "projection", "commit", "receipt"}}


\* What holds of the tables and of the chain of appends in every state, whichever
\* statement failed and wherever a process died (appendExclusive, #writer).
TablesSound == SqlTypeOK /\ TablesAgree /\ OncePerKey /\ PagesWhole /\ ToldOnce /\ ChainMoves
=============================================================================
