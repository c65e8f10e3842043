------------------------- MODULE SqliteJournalProofs -------------------------
(***************************************************************************)
(* SqliteJournal keeps its tables sound and implements SessionLog, for any  *)
(* number of processes, appends, sessions and commits, wherever statements  *)
(* fail and processes die.                                                  *)
(***************************************************************************)
EXTENDS SqliteJournal, SequenceTheorems, TLAPS

Writing   == {"find", "commit_row", "entries", "projection", "commit"}
Appending == Writing \cup {"queued", "receipt"}
Reading   == {"head", "rows", "scrub"}

\* The write lock and the positions inside a transaction are one thing.
OneWriter == \A a \in Actor : pc[a] \in Writing <=> writer = a

\* Every commit that is sent was made, for a place in the log.
Made(c) == c \in Commit /\ made[c] # NoCommit
Sent ==
  /\ \A c \in Commit : made[c] # NoCommit =>
       made[c].revision >= 1 /\ made[c].first >= 1
  /\ \A a \in Actor : pc[a] \in Appending => Made(com[a])
  /\ \A a \in Actor : pc[a] \in {"queued", "find"} => ~fresh[a]

\* The open transaction is the committed tables and the statements run so far.
CommitsWith(c) == LET s == made[c].session IN [db.commits EXCEPT ![s] = Append(db.commits[s], c)]
EntriesWith(c) == LET s == made[c].session IN [db.entries EXCEPT ![s] = db.entries[s] \o Entries(c)]
NewHead(c) ==
  [revision |-> made[c].revision, sequence |-> made[c].first + Size[c] - 1,
   projected |-> db.entries[made[c].session] \o Entries(c)]
HeadsWith(c) == [db.head EXCEPT ![made[c].session] = NewHead(c)]

\* The commit is new to its session and next in it.
IsNext(c) == LET s == made[c].session IN
  /\ \A i \in 1 .. Len(db.commits[s]) : ~Same(c, db.commits[s][i])
  /\ made[c].revision = db.head[s].revision + 1
  /\ made[c].first = db.head[s].sequence + 1

InTransaction(a) ==
  /\ draft.commits = IF pc[a] \in {"entries", "projection", "commit"}
                     THEN CommitsWith(com[a]) ELSE db.commits
  /\ draft.entries = IF pc[a] \in {"projection", "commit"} THEN EntriesWith(com[a]) ELSE db.entries
  /\ draft.head = IF pc[a] = "commit" THEN HeadsWith(com[a]) ELSE db.head
  /\ pc[a] # "find" => fresh[a] /\ IsNext(com[a])

Drafts == \A a \in Actor : pc[a] \in Writing => InTransaction(a)

\* A commit of which a receipt is being returned is in the log.
Durable(c) == \E i \in 1 .. Len(db.commits[made[c].session]) : db.commits[made[c].session][i] = c

Receipts ==
  /\ \A a \in Actor : pc[a] = "receipt" => Durable(com[a])
  /\ \A c \in acked : Made(c) /\ Durable(c)
  /\ \A c \in Commit : told[c] = 0 \/ (told[c] = 1 /\ Made(c) /\ Durable(c))
  /\ \A a \in Actor : pc[a] = "receipt" /\ fresh[a] =>
       /\ told[com[a]] = 0
       /\ \A b \in Actor : pc[b] = "receipt" /\ fresh[b] /\ com[b] = com[a] => b = a

\* The append in progress is the head of its process's chain.
AtHead ==
  \A a \in Actor : pc[a] \in Writing \cup {"receipt"} =>
     queue[HostOf[a]] # <<>> /\ Head(queue[HostOf[a]]) = a

\* What a read in pages has got so far.
PageOf(r, p) ==
  /\ p \in Reading => r.session # None
  /\ r.session # None /\ p # "scrub" =>
       /\ r.after <= r.through
       /\ r.through <= Len(db.entries[r.session])
       /\ r.got = SubSeq(db.entries[r.session], 1, IF p \in Reading THEN r.after ELSE r.through)

Paged == reading \in [Actor -> Reads] /\ \A a \in Actor : PageOf(reading[a], pc[a])

\* The types of the variables that neither the chains nor the reads are about.
CoreTypes ==
  /\ made \in [Commit -> Offers \cup {NoCommit}]
  /\ acked \subseteq Commit /\ told \in [Commit -> Nat]
  /\ db \in Tables /\ draft \in Tables /\ schema \in {0, 1}
  /\ writer \in Actor \cup {None} /\ open \subseteq Host
  /\ pc \in [Actor -> Position]
  /\ com \in [Actor -> Commit \cup {NoCommit}] /\ fresh \in [Actor -> BOOLEAN]
  /\ reads \in 0 .. MaxReads /\ sqlFaults \in 0 .. MaxSqlFaults

Control == CoreTypes /\ OneWriter /\ Sent

-----------------------------------------------------------------------------
(* The operators of the tables *)

LEMMA TableFields ==
  ASSUME NEW T \in Tables
  PROVE  /\ T.commits \in [Session -> Seq(Commit)] /\ T.entries \in [Session -> Seq(Commit)]
         /\ T.head \in [Session -> Heads]
  BY DEF Tables

LEMMA TablesOfFields ==
  ASSUME NEW cs \in [Session -> Seq(Commit)], NEW es \in [Session -> Seq(Commit)],
         NEW hs \in [Session -> Heads]
  PROVE  /\ TablesOf(cs, es, hs) \in Tables
         /\ TablesOf(cs, es, hs).commits = cs /\ TablesOf(cs, es, hs).entries = es
         /\ TablesOf(cs, es, hs).head = hs
  BY DEF Tables, TablesOf

LEMMA EntriesSeq ==
  ASSUME SqlAssumption, NEW c \in Commit
  PROVE  /\ Entries(c) \in Seq(Commit) /\ Len(Entries(c)) = Size[c] /\ Size[c] \in Nat
         /\ \A i \in 1 .. Size[c] : Entries(c)[i] = c
<1>1. Size[c] \in Nat
  BY DEF SqlAssumption
<1>2. Entries(c) \in [1 .. Size[c] -> Commit]
  BY DEF Entries
<1> QED
  BY <1>1, <1>2 DEF Entries

LEMMA Appended ==
  ASSUME NEW cs \in Seq(Commit), NEW c \in Commit
  PROVE  /\ Append(cs, c) \in Seq(Commit) /\ Len(Append(cs, c)) = Len(cs) + 1 /\ Len(cs) \in Nat
         /\ DOMAIN Append(cs, c) = 1 .. Len(cs) + 1 /\ DOMAIN cs = 1 .. Len(cs)
         /\ \A i \in 1 .. Len(cs) : i \in 1 .. Len(cs) + 1 /\ Append(cs, c)[i] = cs[i]
         /\ Append(cs, c)[Len(cs) + 1] = c
  OBVIOUS

LEMMA AppendedOnce ==
  ASSUME NEW cs \in Seq(Commit), NEW c \in Commit,
         \A k \in 1 .. Len(cs) : KeyOf[cs[k]] # KeyOf[c],
         \A i, j \in DOMAIN cs : KeyOf[cs[i]] = KeyOf[cs[j]] => i = j
  PROVE  \A i, j \in DOMAIN Append(cs, c) :
           KeyOf[Append(cs, c)[i]] = KeyOf[Append(cs, c)[j]] => i = j
<1> DEFINE ds == Append(cs, c)
<1>1. /\ DOMAIN ds = 1 .. Len(cs) + 1 /\ DOMAIN cs = 1 .. Len(cs) /\ Len(cs) \in Nat
      /\ \A i \in 1 .. Len(cs) : ds[i] = cs[i]
      /\ ds[Len(cs) + 1] = c
  BY Appended
<1> HIDE DEF ds
<1>2. \A i \in DOMAIN ds : i \in 1 .. Len(cs) \/ i = Len(cs) + 1
  BY <1>1
<1>3. \A i, j \in DOMAIN ds : KeyOf[ds[i]] = KeyOf[ds[j]] => i = j
  BY <1>1, <1>2
<1> QED
  BY <1>3 DEF ds

-----------------------------------------------------------------------------
(* Control: types, the write lock, and what is sent *)

LEMMA ControlInit ==
  ASSUME SqlAssumption, SqlInit
  PROVE  Control
<1>1. CoreTypes
  <2>1. NoRow \in Heads
    BY DEF NoRow, Heads
  <2>2. /\ [s \in Session |-> <<>>] \in [Session -> Seq(Commit)]
        /\ [s \in Session |-> NoRow] \in [Session -> Heads]
    BY <2>1
  <2>3. db \in Tables
    BY <2>2, TablesOfFields, Zenon DEF SqlInit
  <2> QED
    BY <2>3 DEF SqlAssumption, SqlInit, CoreTypes, Position
<1>2. OneWriter /\ Sent
  BY DEF SqlAssumption, SqlInit, OneWriter, Sent, Writing, Appending
<1> QED
  BY <1>1, <1>2 DEF Control

\* The commit of an append in progress.
LEMMA SentCommit ==
  ASSUME SqlAssumption, Control, NEW a \in Actor, pc[a] \in Appending
  PROVE  /\ com[a] \in Commit /\ made[com[a]] # NoCommit /\ made[com[a]] \in Offers
         /\ made[com[a]].session \in Session /\ Size[com[a]] \in Nat
         /\ made[com[a]].revision \in Nat /\ made[com[a]].revision >= 1
         /\ made[com[a]].first \in Nat /\ made[com[a]].first >= 1
<1>1. com[a] \in Commit /\ made[com[a]] # NoCommit /\ made[com[a]].revision >= 1 /\ made[com[a]].first >= 1
  BY DEF Control, Sent, Made
<1>2. made[com[a]] \in Offers
  BY <1>1 DEF Control, CoreTypes
<1>3. /\ made[com[a]].session \in Session
      /\ made[com[a]].revision \in Nat /\ made[com[a]].first \in Nat
  BY <1>2 DEF Offers
<1> QED
  BY <1>1, <1>2, <1>3 DEF SqlAssumption

\* What each statement of a transaction writes.
LEMMA Statements ==
  ASSUME SqlAssumption, Control, NEW a \in Actor
  PROVE  /\ InsertCommit(a) =>
              /\ draft' \in Tables /\ draft'.entries = draft.entries /\ draft'.head = draft.head
              /\ draft'.commits = [draft.commits EXCEPT ![made[com[a]].session] =
                                     Append(draft.commits[made[com[a]].session], com[a])]
         /\ InsertEntries(a) =>
              /\ draft' \in Tables /\ draft'.commits = draft.commits /\ draft'.head = draft.head
              /\ draft'.entries = [draft.entries EXCEPT ![made[com[a]].session] =
                                     draft.entries[made[com[a]].session] \o Entries(com[a])]
         /\ UpsertSession(a) =>
              /\ draft' \in Tables /\ draft'.commits = draft.commits /\ draft'.entries = draft.entries
              /\ draft'.head = [draft.head EXCEPT ![made[com[a]].session] = Row(com[a])]
<1> DEFINE c == com[a]
           s == made[c].session
<1>0. /\ draft \in Tables /\ draft.commits \in [Session -> Seq(Commit)]
      /\ draft.entries \in [Session -> Seq(Commit)] /\ draft.head \in [Session -> Heads]
  BY TableFields DEF Control, CoreTypes
<1>1. ASSUME InsertCommit(a)
      PROVE  /\ draft' \in Tables /\ draft'.entries = draft.entries /\ draft'.head = draft.head
             /\ draft'.commits = [draft.commits EXCEPT ![s] = Append(draft.commits[s], c)]
  <2> DEFINE q == [draft.commits EXCEPT ![s] = Append(draft.commits[s], c)]
  <2>1. c \in Commit /\ s \in Session
    BY <1>1, SentCommit DEF InsertCommit, Appending, Writing
  <2>2. q \in [Session -> Seq(Commit)]
    <3> HIDE DEF c, s
    <3>1. Append(draft.commits[s], c) \in Seq(Commit)
      BY <1>0, <2>1
    <3> QED
      BY <1>0, <2>1, <3>1
  <2>3. draft' = TablesOf(q, draft.entries, draft.head)
    BY <1>1 DEF InsertCommit
  <2> HIDE DEF q
  <2>4. /\ draft' \in Tables /\ draft'.commits = q
        /\ draft'.entries = draft.entries /\ draft'.head = draft.head
    BY <1>0, <2>2, <2>3 DEF TablesOf, Tables
  <2> QED
    BY <2>4 DEF q
<1>2. ASSUME InsertEntries(a)
      PROVE  /\ draft' \in Tables /\ draft'.commits = draft.commits /\ draft'.head = draft.head
             /\ draft'.entries = [draft.entries EXCEPT ![s] = draft.entries[s] \o Entries(c)]
  <2> DEFINE q == [draft.entries EXCEPT ![s] = draft.entries[s] \o Entries(c)]
  <2>1. c \in Commit /\ s \in Session
    BY <1>2, SentCommit DEF InsertEntries, Appending, Writing
  <2>2. q \in [Session -> Seq(Commit)]
    <3> HIDE DEF c, s
    <3>1. Entries(c) \in Seq(Commit)
      BY <2>1, EntriesSeq
    <3>2. draft.entries[s] \o Entries(c) \in Seq(Commit)
      BY <1>0, <2>1, <3>1
    <3> QED
      BY <1>0, <2>1, <3>2
  <2>3. draft' = TablesOf(draft.commits, q, draft.head)
    BY <1>2 DEF InsertEntries
  <2> HIDE DEF q
  <2>4. /\ draft' \in Tables /\ draft'.commits = draft.commits
        /\ draft'.entries = q /\ draft'.head = draft.head
    BY <1>0, <2>2, <2>3 DEF TablesOf, Tables
  <2> QED
    BY <2>4 DEF q
<1>3. ASSUME UpsertSession(a)
      PROVE  /\ draft' \in Tables /\ draft'.commits = draft.commits /\ draft'.entries = draft.entries
             /\ draft'.head = [draft.head EXCEPT ![s] = Row(c)]
  <2> DEFINE q == [draft.head EXCEPT ![s] = Row(c)]
  <2>1. c \in Commit /\ s \in Session /\ Row(c) \in Heads
    <3>1. /\ c \in Commit /\ s \in Session /\ Size[c] \in Nat
          /\ made[c].revision \in Nat /\ made[c].first \in Nat /\ made[c].first >= 1
      BY <1>3, SentCommit DEF UpsertSession, Appending, Writing
    <3>2. draft.entries[s] \in Seq(Commit) /\ made[c].first + Size[c] - 1 \in Nat
      BY <1>0, <3>1
    <3> QED
      BY <3>1, <3>2 DEF Row, Heads
  <2>2. q \in [Session -> Heads]
    BY <1>0, <2>1
  <2>3. draft' = TablesOf(draft.commits, draft.entries, q)
    BY <1>3 DEF UpsertSession
  <2> HIDE DEF q
  <2>4. /\ draft' \in Tables /\ draft'.commits = draft.commits
        /\ draft'.entries = draft.entries /\ draft'.head = q
    BY <1>0, <2>2, <2>3 DEF TablesOf, Tables
  <2> QED
    BY <2>4 DEF q
<1> QED
  BY <1>1, <1>2, <1>3

LEMMA ControlNext ==
  ASSUME SqlAssumption, Control, [SqlNext]_sqlVars
  PROVE  Control'
<1> USE DEF Control, clientVars, callVars, readVars, Goto
<1>0. /\ \A a \in Actor : HostOf[a] \in Host /\ a # None
      /\ MaxReads \in Nat /\ MaxSqlFaults \in Nat
  BY DEF SqlAssumption
<1>1. ASSUME NEW a \in Actor, Initialize(a) PROVE Control'
  BY <1>0, <1>1 DEF Initialize, CoreTypes, OneWriter, Sent, Made, Writing, Appending, Position
<1>2. ASSUME NEW a \in Actor, ReadVersion(a) PROVE Control'
  BY <1>0, <1>2 DEF ReadVersion, CoreTypes, OneWriter, Sent, Made, Writing, Appending, Position
<1>3. ASSUME NEW a \in Actor, Migrate(a) PROVE Control'
  BY <1>0, <1>3 DEF Migrate, Version, CoreTypes, OneWriter, Sent, Made, Writing, Appending, Position
<1>4. ASSUME NEW a \in Actor, NEW s \in Session, NEW c \in Commit, Call(a, s, c) PROVE Control'
  <2>1. /\ Offer(s) \in Offers /\ Offer(s) # NoCommit
        /\ Offer(s).revision >= 1 /\ Offer(s).first >= 1
    <3>1. db.head[s] \in Heads
      BY TableFields DEF CoreTypes
    <3>2. db.head[s].revision \in Nat /\ db.head[s].sequence \in Nat
      BY <3>1 DEF Heads
    <3> QED
      BY <3>2 DEF Offer, HeadOf, Offers, SqlAssumption
  <2>2. made' \in [Commit -> Offers \cup {NoCommit}]
    BY <1>4, <2>1 DEF Call, CoreTypes
  <2>3. \A d \in Commit : /\ made[d] # NoCommit => made'[d] = made[d]
                          /\ made'[d] # NoCommit => made'[d].revision >= 1 /\ made'[d].first >= 1
    BY <1>4, <2>1 DEF Call, CoreTypes, Sent
  <2>4. Made(c)'
    BY <1>4, <2>1, <2>3 DEF Call, Made, CoreTypes
  <2>5. CoreTypes'
    BY <1>0, <1>4, <2>2 DEF Call, CoreTypes, Position
  <2>6. OneWriter'
    BY <1>0, <1>4 DEF Call, Ready, CoreTypes, OneWriter, Writing
  <2>7. Sent'
    BY <1>4, <2>3, <2>4 DEF Call, CoreTypes, Sent, Made, Appending, Writing
  <2> QED
    BY <2>5, <2>6, <2>7
<1>5. ASSUME NEW a \in Actor, NEW s \in Session, ReadAll(a, s) \/ ScrubEntries(a, s) PROVE Control'
  <2>1. /\ pc[a] = "idle" /\ \E p \in {"head", "scrub"} : pc' = [pc EXCEPT ![a] = p]
        /\ UNCHANGED <<made, acked, told, db, draft, schema, writer, queue, open, com, fresh, sqlFaults>>
        /\ reads' \in 0 .. MaxReads
    BY <1>0, <1>5 DEF ReadAll, ScrubEntries, Ready, CoreTypes
  <2> QED
    BY <1>0, <2>1 DEF CoreTypes, OneWriter, Sent, Made, Writing, Appending, Position
<1>6. ASSUME NEW a \in Actor, ReadHead(a) \/ ReadRows(a) \/ ScrubProjection(a) PROVE Control'
  <2>1. /\ pc[a] \in Reading /\ \E p \in {"head", "rows", "idle"} : pc' = [pc EXCEPT ![a] = p]
        /\ UNCHANGED <<made, acked, told, db, draft, schema, writer, queue, open, com, fresh, reads, sqlFaults>>
    BY <1>6 DEF ReadHead, ReadRows, ScrubProjection, Reading
  <2> QED
    BY <1>0, <2>1 DEF CoreTypes, OneWriter, Sent, Made, Writing, Appending, Position, Reading
<1>7. ASSUME NEW a \in Actor, BeginImmediate(a) PROVE Control'
  BY <1>0, <1>7 DEF BeginImmediate, CoreTypes, OneWriter, Sent, Made, Writing, Appending, Position
<1>8. ASSUME NEW a \in Actor, pc[a] \in Writing \cup {"queued"}, Reject(a), sqlFaults' \in 0 .. MaxSqlFaults
      PROVE  Control'
  BY <1>0, <1>8 DEF Reject, CoreTypes, OneWriter, Sent, Made, Writing, Appending, Position
<1>9. ASSUME NEW a \in Actor, Busy(a) \/ StatementFails(a) PROVE Control'
  <2>1. pc[a] \in Writing \cup {"queued"} /\ Reject(a) /\ sqlFaults' \in 0 .. MaxSqlFaults
    BY <1>0, <1>9 DEF Busy, StatementFails, Fault, Writing, CoreTypes
  <2> QED
    BY <2>1, <1>8
<1>10. ASSUME NEW a \in Actor, FindDuplicate(a) PROVE Control'
  <2>1. CASE Reject(a)
    BY <1>8, <1>10, <2>1 DEF FindDuplicate, Writing, CoreTypes
  <2>2. CASE ~Reject(a)
    <3>1. /\ pc[a] = "find" /\ UNCHANGED <<made, acked, told, db, draft, schema, queue, open, com, readVars, sqlFaults>>
          /\ \/ writer' = None /\ pc' = [pc EXCEPT ![a] = "receipt"] /\ fresh' = fresh
             \/ writer' = writer /\ pc' = [pc EXCEPT ![a] = "commit_row"] /\ fresh' = [fresh EXCEPT ![a] = TRUE]
      BY <1>10, <2>2 DEF FindDuplicate
    <3> QED
      BY <1>0, <3>1 DEF CoreTypes, OneWriter, Sent, Made, Writing, Appending, Position
  <2> QED
    BY <2>1, <2>2
<1>11. ASSUME NEW a \in Actor, InsertCommit(a) \/ InsertEntries(a) \/ UpsertSession(a) PROVE Control'
  <2>2. draft' \in Tables
    BY <1>11, Statements
  <2>3. /\ pc[a] \in {"commit_row", "entries", "projection"}
        /\ \E p \in {"entries", "projection", "commit"} : pc' = [pc EXCEPT ![a] = p]
        /\ UNCHANGED <<made, acked, told, db, schema, writer, queue, open, com, fresh, readVars, sqlFaults>>
    BY <1>11 DEF InsertCommit, InsertEntries, UpsertSession
  <2> QED
    BY <1>0, <2>2, <2>3 DEF CoreTypes, OneWriter, Sent, Made, Writing, Appending, Position
<1>12. ASSUME NEW a \in Actor, CommitTransaction(a) PROVE Control'
  BY <1>0, <1>12 DEF CommitTransaction, CoreTypes, OneWriter, Sent, Made, Writing, Appending, Position
<1>13. ASSUME NEW a \in Actor, Receipt(a) PROVE Control'
  BY <1>0, <1>13 DEF Receipt, Advance, News, CoreTypes, OneWriter, Sent, Made, Writing, Appending, Position
<1>14. ASSUME NEW h \in Host, Crash(h) PROVE Control'
  BY <1>0, <1>14 DEF Crash, Fault, CoreTypes, OneWriter, Sent, Made, Writing, Appending, Position
<1>15. CASE UNCHANGED sqlVars
  BY <1>15 DEF sqlVars, CoreTypes, OneWriter, Sent, Made
<1> QED
  BY <1>1, <1>2, <1>3, <1>4, <1>5, <1>6, <1>7, <1>9, <1>10, <1>11, <1>12, <1>13, <1>14, <1>15
     DEF SqlNext, AppendStep
-----------------------------------------------------------------------------
(* The tables and the receipts *)

History == Drafts /\ TablesAgree /\ OncePerKey /\ Receipts

\* A step that leaves the tables alone and takes nobody further in a transaction.
Quiet ==
  /\ UNCHANGED <<acked, told, db>>
  /\ \A c \in Commit : made[c] # NoCommit => made'[c] = made[c]
  /\ \A a \in Actor : pc'[a] \in Writing \cup {"receipt"} =>
       /\ pc'[a] = pc[a] /\ com'[a] = com[a] /\ fresh'[a] = fresh[a]
       /\ pc[a] \in Writing => draft' = draft

\* The commits of the log were made.
LEMMA LogMade ==
  ASSUME Control, TablesAgree, NEW s \in Session
  PROVE  /\ db.commits[s] \in Seq(Commit) /\ db.entries[s] \in Seq(Commit)
         /\ \A i \in 1 .. Len(db.commits[s]) :
              /\ db.commits[s][i] \in Commit /\ made[db.commits[s][i]] # NoCommit
              /\ made[db.commits[s][i]].session = s
<1>1. db.commits[s] \in Seq(Commit) /\ db.entries[s] \in Seq(Commit)
  BY TableFields DEF Control, CoreTypes
<1>2. SessionAgrees(s, db.commits[s], db.entries[s], db.head[s])
  BY DEF TablesAgree
<1>3. \A cs \in Seq(Commit) : \A es, h : SessionAgrees(s, cs, es, h) =>
        \A i \in 1 .. Len(cs) : cs[i] \in Commit /\ made[cs[i]] # NoCommit /\ made[cs[i]].session = s
  BY DEF SessionAgrees
<1> QED
  BY <1>1, <1>2, <1>3

LEMMA QuietHistory ==
  ASSUME SqlAssumption, Control, Control', History, Quiet
  PROVE  History'
<1>1. TablesAgree'
  <2>1. SUFFICES ASSUME NEW s \in Session
                 PROVE  SessionAgrees(s, db.commits[s], db.entries[s], db.head[s])'
    BY DEF TablesAgree
  <2>2. \A i \in 1 .. Len(db.commits[s]) : made'[db.commits[s][i]] = made[db.commits[s][i]]
    BY LogMade DEF Quiet, History
  <2>3. SessionAgrees(s, db.commits[s], db.entries[s], db.head[s])
    BY DEF History, TablesAgree
  <2>4. db' = db
    BY DEF Quiet
  <2>5. db.commits[s] \in Seq(Commit)
    BY LogMade DEF History
  <2>6. ASSUME NEW cs \in Seq(Commit), NEW es, NEW h, SessionAgrees(s, cs, es, h),
               \A i \in 1 .. Len(cs) : made'[cs[i]] = made[cs[i]]
        PROVE  SessionAgrees(s, cs, es, h)'
    <3>1. \A i \in 1 .. Len(cs) : /\ i # 1 => (Follows(cs[i - 1], cs[i])' <=> Follows(cs[i - 1], cs[i]))
                                  /\ Span(cs[i])' = Span(cs[i])
      BY <2>6 DEF Follows, Span
    <3>2. cs # <<>> => made'[cs[Len(cs)]] = made[cs[Len(cs)]]
      BY <2>6
    <3> QED
      BY <2>6, <3>1, <3>2 DEF SessionAgrees
  <2> QED
    BY <2>2, <2>3, <2>4, <2>5, <2>6
<1>2. Drafts'
  <2>1. SUFFICES ASSUME NEW a \in Actor, pc'[a] \in Writing PROVE InTransaction(a)'
    BY DEF Drafts
  <2>2. pc'[a] = pc[a] /\ com'[a] = com[a] /\ fresh'[a] = fresh[a] /\ draft' = draft /\ db' = db
    BY <2>1 DEF Quiet
  <2>3. made'[com[a]] = made[com[a]]
    BY <2>1, <2>2, SentCommit DEF Quiet, Appending
  <2>4. InTransaction(a)
    BY <2>1, <2>2 DEF History, Drafts
  <2> QED
    BY <2>2, <2>3, <2>4 DEF InTransaction, CommitsWith, EntriesWith, HeadsWith, NewHead, IsNext
<1>3. OncePerKey'
  BY DEF History, OncePerKey, Quiet
<1>4. Receipts'
  <2>1. \A c \in Commit : Made(c) /\ Durable(c) => Made(c)' /\ Durable(c)'
    BY DEF Made, Durable, Quiet
  <2>2. \A a \in Actor : pc'[a] = "receipt" => pc[a] = "receipt" /\ com'[a] = com[a] /\ fresh'[a] = fresh[a]
    BY DEF Quiet
  <2>3. \A a \in Actor : pc[a] = "receipt" => Made(com[a])
    BY DEF Control, Sent, Appending
  <2>4. acked' = acked /\ told' = told /\ acked \subseteq Commit
    BY DEF Quiet, Control, CoreTypes
  <2>5. Receipts
    BY DEF History
  <2>6. (\A a \in Actor : pc[a] = "receipt" => Durable(com[a]))'
    BY <2>1, <2>2, <2>3, <2>5 DEF Receipts, Made
  <2> HIDE DEF Quiet
  <2> QED
    BY <2>1, <2>2, <2>4, <2>5, <2>6 DEF Receipts
<1> QED
  BY <1>1, <1>2, <1>3, <1>4 DEF History

\* A session whose next commit is added to all three of its tables agrees again.
LEMMA AgreesGrow ==
  ASSUME SqlAssumption, Control, NEW s \in Session, NEW cs \in Seq(Commit), NEW es \in Seq(Commit), NEW h,
         SessionAgrees(s, cs, es, h), NEW c \in Commit, made[c] # NoCommit, made[c].session = s,
         made[c].revision = h.revision + 1, made[c].first = h.sequence + 1
  PROVE  SessionAgrees(s, Append(cs, c), es \o Entries(c),
                       [revision |-> made[c].revision, sequence |-> made[c].first + Size[c] - 1,
                        projected |-> es \o Entries(c)])
<1> DEFINE ds == Append(cs, c)
           fs == es \o Entries(c)
<1>1. /\ Entries(c) \in Seq(Commit) /\ Len(Entries(c)) = Size[c] /\ Size[c] \in Nat
      /\ \A i \in 1 .. Size[c] : Entries(c)[i] = c
  BY EntriesSeq
<1>2. /\ ds \in Seq(Commit) /\ Len(ds) = Len(cs) + 1 /\ ds[Len(ds)] = c /\ ds # <<>>
      /\ \A i \in 1 .. Len(cs) : ds[i] = cs[i] /\ cs[i] \in Commit
  OBVIOUS
<1>3. /\ fs \in Seq(Commit) /\ Len(fs) = Len(es) + Size[c]
      /\ \A p \in 1 .. Len(es) : fs[p] = es[p]
      /\ \A p \in Len(es) + 1 .. Len(es) + Size[c] : fs[p] = c
  <2>0. fs \in Seq(Commit) /\ Len(fs) = Len(es) + Len(Entries(c))
    BY <1>1, ConcatProperties
  <2>1. fs \in Seq(Commit) /\ Len(fs) = Len(es) + Size[c]
    BY <1>1, <2>0
  <2>2. ASSUME NEW p \in 1 .. Len(es) PROVE fs[p] = es[p]
    BY <1>1, <2>2
  <2>3. ASSUME NEW p \in Len(es) + 1 .. Len(es) + Size[c] PROVE fs[p] = c
    <3>1. p - Len(es) \in 1 .. Size[c] /\ fs[p] = Entries(c)[p - Len(es)]
      BY <1>1, <2>3
    <3> QED
      BY <1>1, <3>1
  <2> QED
    BY <2>1, <2>2, <2>3
<1>4. /\ made[c].revision = Len(cs) + 1 /\ made[c].first = Len(es) + 1
      /\ Len(cs) \in Nat /\ Len(es) \in Nat
  BY DEF SessionAgrees
<1>5. \A i \in 1 .. Len(cs) : made[cs[i]].first \in Nat /\ made[cs[i]].first >= 1 /\ Size[cs[i]] \in Nat
  <2>1. \A i \in 1 .. Len(cs) : made[cs[i]] # NoCommit
    BY DEF SessionAgrees
  <2>2. \A i \in 1 .. Len(cs) : made[cs[i]] \in Offers /\ made[cs[i]].first >= 1
    BY <1>2, <2>1 DEF Control, CoreTypes, Sent
  <2> QED
    BY <1>2, <2>2 DEF Offers, SqlAssumption
<1> HIDE DEF ds, fs
<1>6. /\ made[c].revision = Len(ds) /\ made[c].first + Size[c] - 1 = Len(fs)
      /\ made[c].first + Size[c] = Len(fs) + 1
  <2>1. \A n, l \in Nat : (l + 1) + n - 1 = l + n /\ (l + 1) + n = l + n + 1
    OBVIOUS
  <2>2. Size[c] \in Nat /\ Len(es) \in Nat
    BY <1>1, <1>4
  <2>3. (Len(es) + 1) + Size[c] - 1 = Len(es) + Size[c] /\ (Len(es) + 1) + Size[c] = Len(es) + Size[c] + 1
    BY <2>1, <2>2, Zenon
  <2> QED
    BY <1>2, <1>3, <1>4, <2>3, Zenon
<1>7. ASSUME NEW i \in 1 .. Len(ds)
      PROVE  /\ made[ds[i]] # NoCommit /\ made[ds[i]].session = s /\ made[ds[i]].revision = i
             /\ IF i = 1 THEN made[ds[i]].first = 1 ELSE Follows(ds[i - 1], ds[i])
             /\ made[ds[i]].first + Size[ds[i]] <= Len(fs) + 1
             /\ \A p \in Span(ds[i]) : fs[p] = ds[i]
  <2>1. CASE i = Len(ds)
    <3>1. ds[i] = c
      BY <1>2, <2>1
    <3>2. IF i = 1 THEN made[ds[i]].first = 1 ELSE Follows(ds[i - 1], ds[i])
      <4>1. CASE i = 1
        <5>1. cs = <<>> /\ es = <<>>
          BY <1>2, <2>1, <4>1 DEF SessionAgrees
        <5> QED
          BY <1>4, <3>1, <4>1, <5>1
      <4>2. CASE i # 1
        <5>1. cs # <<>> /\ ds[i - 1] = cs[Len(cs)]
          BY <1>2, <2>1, <4>2
        <5>2. made[cs[Len(cs)]].first + Size[cs[Len(cs)]] = Len(es) + 1
          BY <5>1 DEF SessionAgrees
        <5> QED
          BY <1>4, <3>1, <4>2, <5>1, <5>2 DEF Follows
      <4> QED
        BY <4>1, <4>2
    <3>3. \A p \in Span(ds[i]) : fs[p] = ds[i]
      <4>1. made[c].first + Size[c] - 1 = Len(es) + Size[c] /\ made[c].first = Len(es) + 1
        BY <1>3, <1>4, <1>6
      <4>2. Span(c) = Len(es) + 1 .. Len(es) + Size[c]
        BY <4>1, Zenon DEF Span
      <4> QED
        BY <1>3, <3>1, <4>2
    <3>4. made[c].first + Size[c] <= Len(fs) + 1 /\ made[c].revision = i
      BY <1>3, <1>4, <1>6, <2>1
    <3> QED
      BY <3>1, <3>2, <3>3, <3>4
  <2>2. CASE i # Len(ds)
    <3>1. i \in 1 .. Len(cs) /\ ds[i] = cs[i] /\ (i # 1 => ds[i - 1] = cs[i - 1])
      BY <1>2, <2>2
    <3>2. /\ made[cs[i]] # NoCommit /\ made[cs[i]].session = s /\ made[cs[i]].revision = i
          /\ IF i = 1 THEN made[cs[i]].first = 1 ELSE Follows(cs[i - 1], cs[i])
          /\ made[cs[i]].first + Size[cs[i]] <= Len(es) + 1
          /\ \A p \in Span(cs[i]) : es[p] = cs[i]
      BY <3>1 DEF SessionAgrees
    <3>3. \A p \in Span(cs[i]) : p \in 1 .. Len(es)
      <4>1. \A f, n, l \in Nat : f >= 1 /\ f + n <= l + 1 => \A p \in f .. f + n - 1 : p \in 1 .. l
        OBVIOUS
      <4>2. /\ made[cs[i]].first \in Nat /\ Size[cs[i]] \in Nat /\ Len(es) \in Nat
            /\ made[cs[i]].first >= 1 /\ made[cs[i]].first + Size[cs[i]] <= Len(es) + 1
        BY <1>4, <1>5, <3>1, <3>2
      <4> QED
        BY <4>1, <4>2, Zenon DEF Span
    <3>4. \A p \in Span(ds[i]) : fs[p] = ds[i]
      BY <1>3, <3>1, <3>2, <3>3
    <3>5. made[ds[i]].first + Size[ds[i]] <= Len(fs) + 1
      <4>1. made[cs[i]].first + Size[cs[i]] \in Nat /\ made[cs[i]].first + Size[cs[i]] <= Len(es) + 1
        BY <1>5, <3>1, <3>2
      <4>2. Len(fs) = Len(es) + Size[c] /\ Size[c] \in Nat /\ Len(es) \in Nat
        BY <1>1, <1>3, <1>4
      <4>3. ASSUME NEW x \in Nat, NEW y \in Nat, NEW z \in Nat, x <= y + 1 PROVE x <= y + z + 1
        BY <4>3
      <4> QED
        BY <3>1, <4>1, <4>2, <4>3
    <3> QED
      BY <3>1, <3>2, <3>4, <3>5
  <2> QED
    BY <2>1, <2>2
<1>8. made[ds[Len(ds)]].first + Size[ds[Len(ds)]] = Len(fs) + 1
  BY <1>2, <1>6
<1> QED
  BY <1>2, <1>6, <1>7, <1>8 DEF SessionAgrees, ds, fs

LEMMA HistoryInit ==
  ASSUME SqlAssumption, SqlInit
  PROVE  History
<1>1. Drafts /\ Receipts
  BY DEF SqlInit, Drafts, Receipts, Writing
<1>2. \A s \in Session : db.commits[s] = <<>> /\ db.entries[s] = <<>> /\ db.head[s] = NoRow
  BY DEF SqlInit, TablesOf
<1>3. TablesAgree
  BY <1>2 DEF TablesAgree, SessionAgrees, NoRow
<1>4. OncePerKey
  BY <1>2 DEF OncePerKey
<1> QED
  BY <1>1, <1>3, <1>4 DEF History

LEMMA QuietSteps ==
  ASSUME SqlAssumption, Control, NEW a \in Actor,
         \/ Initialize(a) \/ ReadVersion(a) \/ Migrate(a)
         \/ \E s \in Session : (\E c \in Commit : Call(a, s, c)) \/ ReadAll(a, s) \/ ScrubEntries(a, s)
         \/ ReadHead(a) \/ ReadRows(a) \/ ScrubProjection(a)
         \/ Busy(a) \/ StatementFails(a) \/ (pc[a] = "find" /\ Reject(a))
  PROVE  Quiet
<1> USE DEF Control, clientVars, callVars, readVars, Goto
<1>0. pc \in [Actor -> Position] /\ made \in [Commit -> Offers \cup {NoCommit}]
  BY DEF CoreTypes
<1>1. ASSUME Initialize(a) PROVE Quiet
  BY <1>0, <1>1 DEF Initialize, Quiet, Writing
<1>2. ASSUME ReadVersion(a) PROVE Quiet
  BY <1>0, <1>2 DEF ReadVersion, Quiet, Writing
<1>3. ASSUME Migrate(a) PROVE Quiet
  BY <1>0, <1>3 DEF Migrate, Quiet, Writing
<1>4. ASSUME NEW s \in Session, NEW c \in Commit, Call(a, s, c) PROVE Quiet
  <2>1. \A b \in Actor : pc'[b] \in Writing \cup {"receipt"} =>
          pc'[b] = pc[b] /\ com'[b] = com[b] /\ fresh'[b] = fresh[b] /\ draft' = draft
    BY <1>0, <1>4 DEF Call, Writing, CoreTypes
  <2> QED
    BY <1>0, <1>4, <2>1 DEF Call, Quiet
<1>5. ASSUME NEW s \in Session, ReadAll(a, s) PROVE Quiet
  BY <1>0, <1>5 DEF ReadAll, Quiet, Writing
<1>6. ASSUME NEW s \in Session, ScrubEntries(a, s) PROVE Quiet
  BY <1>0, <1>6 DEF ScrubEntries, Quiet, Writing
<1>7. ASSUME ReadHead(a) \/ ReadRows(a) \/ ScrubProjection(a) PROVE Quiet
  <2>1. /\ \E p \in {"head", "rows", "idle"} : pc' = [pc EXCEPT ![a] = p]
        /\ UNCHANGED <<made, acked, told, db, draft, com, fresh>>
    BY <1>7 DEF ReadHead, ReadRows, ScrubProjection
  <2> QED
    BY <1>0, <2>1 DEF Quiet, Writing
<1>8. ASSUME Reject(a) PROVE Quiet
  <2>1. pc' = [pc EXCEPT ![a] = "idle"] /\ UNCHANGED <<made, acked, told, db, com, fresh>>
    BY <1>8 DEF Reject
  <2>2. \A b \in Actor : pc'[b] \in Writing => draft' = draft
    <3>1. \A b \in Actor : pc'[b] \in Writing => writer = b /\ b # a
      BY <1>0, <2>1 DEF OneWriter, Writing
    <3> QED
      BY <1>8, <3>1 DEF Reject
  <2> QED
    BY <1>0, <2>1, <2>2 DEF Quiet, Writing
<1> QED
  BY <1>1, <1>2, <1>3, <1>4, <1>5, <1>6, <1>7, <1>8 DEF Busy, StatementFails

LEMMA QuietCrash ==
  ASSUME SqlAssumption, Control, NEW h \in Host, Crash(h)
  PROVE  Quiet
<1>1. /\ UNCHANGED <<made, acked, told, db, com, fresh>>
      /\ \A a \in Actor : pc'[a] # "idle" => HostOf[a] # h /\ pc'[a] = pc[a]
  BY DEF Crash, clientVars, callVars
<1>2. \A a \in Actor : pc'[a] \in Writing => draft' = draft
  <2>1. \A a \in Actor : pc'[a] \in Writing => writer = a /\ HostOf[a] # h
    BY <1>1 DEF Control, OneWriter, Writing
  <2> QED
    BY <2>1 DEF Crash
<1> QED
  BY <1>1, <1>2 DEF Quiet, Writing

\* The log and what was made stay as they are.
LEMMA SameLog ==
  ASSUME TablesAgree, OncePerKey, UNCHANGED <<made, db>>
  PROVE  /\ TablesAgree' /\ OncePerKey'
         /\ \A c \in Commit : (Made(c)' <=> Made(c)) /\ (Durable(c)' <=> Durable(c))
<1>1. \A s, cs, es, h : SessionAgrees(s, cs, es, h)' <=> SessionAgrees(s, cs, es, h)
  BY DEF SessionAgrees, Follows, Span
<1>2. TablesAgree'
  BY <1>1 DEF TablesAgree
<1> QED
  BY <1>2 DEF OncePerKey, Made, Durable

\* A step of the one append that is in a transaction, up to its COMMIT.
LEMMA InsideStep ==
  ASSUME SqlAssumption, Control, History, NEW a \in Actor,
         UNCHANGED <<made, acked, told, db, com>>,
         \A b \in Actor : b # a => pc'[b] = pc[b] /\ pc[b] \notin Writing /\ fresh'[b] = fresh[b],
         pc'[a] \in Writing, InTransaction(a)'
  PROVE  History'
<1>1. TablesAgree' /\ OncePerKey' /\ \A c \in Commit : (Made(c)' <=> Made(c)) /\ (Durable(c)' <=> Durable(c))
  BY SameLog DEF History
<1>2. Drafts'
  BY DEF Drafts
<1>3. \A b \in Actor : pc'[b] = "receipt" => pc[b] = "receipt" /\ fresh'[b] = fresh[b] /\ com[b] \in Commit
  BY DEF Writing, Control, Sent, Made, Appending
<1>4. Receipts'
  BY <1>1, <1>3 DEF History, Receipts, Control, CoreTypes
<1> QED
  BY <1>1, <1>2, <1>4 DEF History

LEMMA HistoryInside ==
  ASSUME SqlAssumption, Control, Control', History, NEW a \in Actor,
         \/ BeginImmediate(a) \/ InsertCommit(a) \/ InsertEntries(a) \/ UpsertSession(a)
         \/ FindDuplicate(a) /\ pc'[a] = "commit_row"
  PROVE  History'
<1> USE DEF clientVars, callVars, readVars, Goto
<1>0. pc \in [Actor -> Position] /\ fresh \in [Actor -> BOOLEAN]
  BY DEF Control, CoreTypes
<1>1. ASSUME NEW b \in Actor, b # a, pc[a] \in Writing \/ writer = None PROVE pc[b] \notin Writing
  BY <1>1 DEF SqlAssumption, Control, OneWriter
<1>2. ASSUME BeginImmediate(a) PROVE History'
  <2>1. /\ UNCHANGED <<made, acked, told, db, com, fresh>> /\ pc' = [pc EXCEPT ![a] = "find"]
        /\ writer = None /\ draft' = db
    BY <1>2 DEF BeginImmediate
  <2>2. InTransaction(a)'
    BY <1>0, <2>1 DEF InTransaction
  <2>3. \A b \in Actor : b # a => pc'[b] = pc[b] /\ pc[b] \notin Writing /\ fresh'[b] = fresh[b]
    BY <1>0, <1>1, <2>1
  <2>4. pc'[a] \in Writing
    BY <1>0, <2>1 DEF Writing
  <2> QED
    BY <2>1, <2>2, <2>3, <2>4, InsideStep
<1>3. ASSUME pc[a] \in Writing PROVE InTransaction(a) /\ com[a] \in Commit /\ made[com[a]].session \in Session
  BY <1>3, SentCommit DEF History, Drafts, Appending
<1>4. ASSUME FindDuplicate(a), pc'[a] = "commit_row" PROVE History'
  <2>1. /\ UNCHANGED <<made, acked, told, db, com, draft>> /\ pc' = [pc EXCEPT ![a] = "commit_row"]
        /\ fresh' = [fresh EXCEPT ![a] = TRUE] /\ pc[a] = "find"
        /\ Duplicates(com[a]) = {} /\ Fits(com[a])
    BY <1>0, <1>4 DEF FindDuplicate, Reject
  <2>2. /\ draft.commits = db.commits /\ draft.entries = db.entries /\ draft.head = db.head
        /\ com[a] \in Commit /\ made[com[a]].session \in Session
    BY <1>3, <2>1 DEF InTransaction, Writing
  <2>3. IsNext(com[a])
    <3>1. \A i \in 1 .. Len(db.commits[made[com[a]].session]) : ~Same(com[a], db.commits[made[com[a]].session][i])
      <4>1. db.commits[made[com[a]].session] \in Seq(Commit)
        BY <2>2, LogMade DEF History
      <4> QED
        BY <2>1, <2>2, <4>1 DEF Duplicates, Range
    <3> QED
      BY <2>1, <2>2, <3>1 DEF IsNext, Fits
  <2>4. InTransaction(a)'
    BY <1>0, <2>1, <2>2, <2>3 DEF InTransaction, IsNext
  <2>5. \A b \in Actor : b # a => pc'[b] = pc[b] /\ pc[b] \notin Writing /\ fresh'[b] = fresh[b]
    BY <1>0, <1>1, <2>1 DEF Writing
  <2>6. pc'[a] \in Writing
    BY <1>0, <2>1 DEF Writing
  <2> QED
    BY <2>1, <2>4, <2>5, <2>6, InsideStep
<1>5. ASSUME InsertCommit(a) \/ InsertEntries(a) \/ UpsertSession(a) PROVE History'
  <2>1. /\ UNCHANGED <<made, acked, told, db, com, fresh>>
        /\ \/ InsertCommit(a) /\ pc[a] = "commit_row" /\ pc' = [pc EXCEPT ![a] = "entries"]
           \/ InsertEntries(a) /\ pc[a] = "entries" /\ pc' = [pc EXCEPT ![a] = "projection"]
           \/ UpsertSession(a) /\ pc[a] = "projection" /\ pc' = [pc EXCEPT ![a] = "commit"]
    BY <1>5 DEF InsertCommit, InsertEntries, UpsertSession
  <2>2. pc[a] \in Writing /\ pc'[a] \in Writing /\ pc[a] # "find"
    BY <1>0, <2>1 DEF Writing
  <2>3. /\ InTransaction(a) /\ com[a] \in Commit /\ made[com[a]].session \in Session
        /\ fresh[a] /\ IsNext(com[a])
    BY <1>3, <2>2 DEF InTransaction
  <2>4. ASSUME InsertCommit(a) PROVE InTransaction(a)'
    <3>1. pc[a] = "commit_row" /\ pc'[a] = "entries"
      BY <1>0, <2>1, <2>4 DEF InsertCommit
    <3>2. draft.commits = db.commits /\ draft.entries = db.entries /\ draft.head = db.head
      BY <2>3, <3>1 DEF InTransaction
    <3>3. draft'.commits = CommitsWith(com[a]) /\ draft'.entries = db.entries /\ draft'.head = db.head
      BY <2>4, <3>2, Statements DEF CommitsWith
    <3> QED
      BY <2>1, <2>3, <3>1, <3>3 DEF InTransaction, IsNext, CommitsWith
  <2>5. ASSUME InsertEntries(a) PROVE InTransaction(a)'
    <3>1. pc[a] = "entries" /\ pc'[a] = "projection"
      BY <1>0, <2>1, <2>5 DEF InsertEntries
    <3>2. draft.commits = CommitsWith(com[a]) /\ draft.entries = db.entries /\ draft.head = db.head
      BY <2>3, <3>1 DEF InTransaction
    <3>3. draft'.commits = CommitsWith(com[a]) /\ draft'.entries = EntriesWith(com[a]) /\ draft'.head = db.head
      BY <2>5, <3>2, Statements DEF EntriesWith
    <3> QED
      BY <2>1, <2>3, <3>1, <3>3 DEF InTransaction, IsNext, CommitsWith, EntriesWith
  <2>6. ASSUME UpsertSession(a) PROVE InTransaction(a)'
    <3>1. pc[a] = "projection" /\ pc'[a] = "commit"
      BY <1>0, <2>1, <2>6 DEF UpsertSession
    <3>2. draft.commits = CommitsWith(com[a]) /\ draft.entries = EntriesWith(com[a]) /\ draft.head = db.head
      BY <2>3, <3>1 DEF InTransaction
    <3>3. Row(com[a]) = NewHead(com[a])
      <4>1. db.entries \in [Session -> Seq(Commit)]
        BY TableFields DEF Control, CoreTypes
      <4>2. draft.entries[made[com[a]].session] = db.entries[made[com[a]].session] \o Entries(com[a])
        BY <2>3, <3>2, <4>1 DEF EntriesWith
      <4> QED
        BY <4>2 DEF Row, NewHead
    <3>4. /\ draft'.commits = CommitsWith(com[a]) /\ draft'.entries = EntriesWith(com[a])
          /\ draft'.head = HeadsWith(com[a])
      BY <2>6, <3>2, <3>3, Statements DEF HeadsWith
    <3> QED
      BY <2>1, <2>3, <3>1, <3>4 DEF InTransaction, IsNext, CommitsWith, EntriesWith, HeadsWith, NewHead
  <2>7. \A b \in Actor : b # a => pc'[b] = pc[b] /\ pc[b] \notin Writing /\ fresh'[b] = fresh[b]
    BY <1>0, <1>1, <2>1, <2>2
  <2> QED
    BY <1>5, <2>1, <2>2, <2>4, <2>5, <2>6, <2>7, InsideStep
<1> QED
  BY <1>2, <1>4, <1>5

\* The duplicate is in the log already.
LEMMA HistoryDuplicate ==
  ASSUME SqlAssumption, Control, Control', History, NEW a \in Actor, FindDuplicate(a), pc'[a] = "receipt"
  PROVE  History'
<1> USE DEF clientVars, callVars, readVars, Goto
<1>0. pc \in [Actor -> Position]
  BY DEF Control, CoreTypes
<1>1. /\ UNCHANGED <<made, acked, told, db, com, fresh>> /\ pc' = [pc EXCEPT ![a] = "receipt"]
      /\ pc[a] = "find" /\ writer' = None /\ com[a] \in Duplicates(com[a])
  BY <1>0 DEF FindDuplicate, Reject
<1>2. TablesAgree' /\ OncePerKey' /\ \A c \in Commit : (Made(c)' <=> Made(c)) /\ (Durable(c)' <=> Durable(c))
  BY <1>1, SameLog DEF History
<1>3. Drafts'
  BY <1>1 DEF Drafts, Control, OneWriter, SqlAssumption
<1>4. com[a] \in Commit /\ Durable(com[a])
  <2>1. InTransaction(a) /\ com[a] \in Commit /\ made[com[a]].session \in Session
    BY <1>1, SentCommit DEF History, Drafts, Writing, Appending
  <2>2. draft.commits = db.commits /\ db.commits[made[com[a]].session] \in Seq(Commit)
    BY <1>1, <2>1, LogMade DEF InTransaction, History
  <2>3. com[a] \in Range(db.commits[made[com[a]].session])
    BY <1>1, <2>2 DEF Duplicates
  <2>4. \E i \in DOMAIN db.commits[made[com[a]].session] : db.commits[made[com[a]].session][i] = com[a]
    BY <2>3 DEF Range
  <2>5. DOMAIN db.commits[made[com[a]].session] = 1 .. Len(db.commits[made[com[a]].session])
    BY <2>2
  <2> QED
    BY <2>1, <2>4, <2>5 DEF Durable
<1>5. ~fresh[a]
  BY <1>1 DEF Control, Sent
<1>6. \A b \in Actor : pc'[b] = "receipt" => (pc[b] = "receipt" \/ b = a) /\ com[b] \in Commit
  BY <1>0, <1>1, <1>4 DEF Control, Sent, Made, Appending
<1>7. Receipts'
  BY <1>1, <1>2, <1>4, <1>5, <1>6 DEF History, Receipts, Control, CoreTypes
<1> QED
  BY <1>2, <1>3, <1>7 DEF History

\* COMMIT: the tables of one session grow by one commit.
LEMMA Committed ==
  ASSUME SqlAssumption, Control, History, NEW a \in Actor, CommitTransaction(a)
  PROVE  LET c == com[a]  s == made[c].session IN
         /\ c \in Commit /\ s \in Session /\ made[c] # NoCommit /\ fresh[a] /\ IsNext(c)
         /\ db'.commits[s] = Append(db.commits[s], c)
         /\ db'.entries[s] = db.entries[s] \o Entries(c)
         /\ db'.head[s] = NewHead(c)
         /\ \A t \in Session : t # s =>
              db'.commits[t] = db.commits[t] /\ db'.entries[t] = db.entries[t] /\ db'.head[t] = db.head[t]
         /\ db'.commits = CommitsWith(c)
<1>1. pc[a] = "commit" /\ db' = draft
  BY DEF CommitTransaction
<1>2. InTransaction(a) /\ com[a] \in Commit /\ made[com[a]].session \in Session /\ made[com[a]] # NoCommit
  BY <1>1, SentCommit DEF History, Drafts, Writing, Appending
<1>3. /\ db'.commits = CommitsWith(com[a]) /\ db'.entries = EntriesWith(com[a])
      /\ db'.head = HeadsWith(com[a]) /\ fresh[a] /\ IsNext(com[a])
  BY <1>1, <1>2 DEF InTransaction
<1>4. /\ db.commits \in [Session -> Seq(Commit)] /\ db.entries \in [Session -> Seq(Commit)]
      /\ db.head \in [Session -> Heads]
  BY TableFields DEF Control, CoreTypes
<1>5. db'.commits[made[com[a]].session] = Append(db.commits[made[com[a]].session], com[a])
  BY <1>2, <1>3, <1>4 DEF CommitsWith
<1>6. db'.entries[made[com[a]].session] = db.entries[made[com[a]].session] \o Entries(com[a])
  BY <1>2, <1>3, <1>4 DEF EntriesWith
<1>7. db'.head[made[com[a]].session] = NewHead(com[a])
  BY <1>2, <1>3, <1>4 DEF HeadsWith
<1>8. \A t \in Session : t # made[com[a]].session =>
              db'.commits[t] = db.commits[t] /\ db'.entries[t] = db.entries[t] /\ db'.head[t] = db.head[t]
  BY <1>2, <1>3, <1>4 DEF CommitsWith, EntriesWith, HeadsWith
<1> QED
  BY <1>2, <1>3, <1>5, <1>6, <1>7, <1>8

LEMMA HistoryCommit ==
  ASSUME SqlAssumption, Control, Control', History, NEW a \in Actor, CommitTransaction(a)
  PROVE  History'
<1> DEFINE c == com[a]
           s == made[c].session
<1> USE DEF clientVars, callVars, readVars, Goto
<1>0. /\ pc' = [pc EXCEPT ![a] = "receipt"] /\ pc \in [Actor -> Position] /\ pc[a] = "commit"
      /\ UNCHANGED <<made, acked, told, com, fresh>> /\ writer' = None
  BY DEF CommitTransaction, Control, CoreTypes
<1>1. /\ c \in Commit /\ s \in Session /\ made[c] # NoCommit /\ fresh[a] /\ IsNext(c)
      /\ db'.commits[s] = Append(db.commits[s], c)
      /\ db'.entries[s] = db.entries[s] \o Entries(c)
      /\ db'.head[s] = NewHead(c)
      /\ \A t \in Session : t # s =>
           db'.commits[t] = db.commits[t] /\ db'.entries[t] = db.entries[t] /\ db'.head[t] = db.head[t]
  BY Committed
<1>2. /\ \A t \in Session : db.commits[t] \in Seq(Commit) /\ db.entries[t] \in Seq(Commit)
      /\ \A i \in 1 .. Len(db.commits[s]) : ~Same(c, db.commits[s][i])
  BY <1>1, LogMade DEF IsNext, History
<1>3. TablesAgree'
  <2>1. SUFFICES ASSUME NEW t \in Session
                 PROVE  SessionAgrees(t, db.commits[t], db.entries[t], db.head[t])'
    BY DEF TablesAgree
  <2>2. \A cs, es, h : SessionAgrees(t, cs, es, h)' <=> SessionAgrees(t, cs, es, h)
    BY <1>0 DEF SessionAgrees, Follows, Span
  <2>3. SessionAgrees(t, db.commits[t], db.entries[t], db.head[t])
    BY DEF History, TablesAgree
  <2>4. CASE t = s
    <3>1. made[c].revision = db.head[t].revision + 1 /\ made[c].first = db.head[t].sequence + 1
      BY <1>1, <2>4 DEF IsNext
    <3>2. SessionAgrees(t, Append(db.commits[t], c), db.entries[t] \o Entries(c), NewHead(c))
      BY <1>1, <1>2, <2>3, <2>4, <3>1, AgreesGrow DEF NewHead
    <3>3. /\ db'.commits[t] = Append(db.commits[t], c) /\ db'.head[t] = NewHead(c)
          /\ db'.entries[t] = db.entries[t] \o Entries(c)
      BY <1>1, <2>4
    <3> HIDE DEF c, s
    <3> QED
      BY <2>2, <3>2, <3>3
  <2>5. CASE t # s
    BY <1>1, <2>2, <2>3, <2>5
  <2> QED
    BY <2>4, <2>5
<1>4. OncePerKey'
  <2>1. \A k \in 1 .. Len(db.commits[s]) : KeyOf[db.commits[s][k]] # KeyOf[c]
    BY <1>2 DEF Same
  <2>2. \A i, j \in DOMAIN db.commits[s] : KeyOf[db.commits[s][i]] = KeyOf[db.commits[s][j]] => i = j
    BY <1>1 DEF History, OncePerKey
  <2>3. \A i, j \in DOMAIN db'.commits[s] : KeyOf[db'.commits[s][i]] = KeyOf[db'.commits[s][j]] => i = j
    <3> HIDE DEF c, s
    <3>1. db.commits[s] \in Seq(Commit) /\ c \in Commit
      BY <1>1, <1>2
    <3>2. \A i, j \in DOMAIN Append(db.commits[s], c) :
             KeyOf[Append(db.commits[s], c)[i]] = KeyOf[Append(db.commits[s], c)[j]] => i = j
      BY <2>1, <2>2, <3>1, AppendedOnce
    <3> QED
      BY <1>1, <3>2
  <2>4. ASSUME NEW t \in Session
        PROVE  \A i, j \in DOMAIN db'.commits[t] : KeyOf[db'.commits[t][i]] = KeyOf[db'.commits[t][j]] => i = j
    <3>1. CASE t # s
      <4>1. db'.commits[t] = db.commits[t]
        BY <1>1, <2>4, <3>1
      <4>2. \A i, j \in DOMAIN db.commits[t] : KeyOf[db.commits[t][i]] = KeyOf[db.commits[t][j]] => i = j
        BY <2>4 DEF History, OncePerKey
      <4> QED
        BY <4>1, <4>2
    <3> QED
      BY <2>3, <3>1
  <2> QED
    BY <2>4 DEF OncePerKey
<1>5. Drafts'
  BY <1>0 DEF Drafts, Control, OneWriter, SqlAssumption
<1>6. \A d \in Commit : Made(d) /\ Durable(d) => Made(d)' /\ Durable(d)'
  <2>1. SUFFICES ASSUME NEW d \in Commit, Made(d), Durable(d) PROVE Durable(d)'
    BY <1>0 DEF Made
  <2>2. made[d].session \in Session
    BY <2>1 DEF Control, CoreTypes, Offers, Made
  <2>3. PICK i \in 1 .. Len(db.commits[made[d].session]) : db.commits[made[d].session][i] = d
    BY <2>1 DEF Durable
  <2>4. i \in 1 .. Len(db'.commits[made[d].session]) /\ db'.commits[made[d].session][i] = d
    <3> HIDE DEF c, s
    <3>1. CASE made[d].session = s
      <4>1. i \in 1 .. Len(db.commits[s]) /\ db.commits[s][i] = d
        BY <2>3, <3>1
      <4>2. i \in 1 .. Len(Append(db.commits[s], c)) /\ Append(db.commits[s], c)[i] = db.commits[s][i]
        BY <1>1, <1>2, <4>1, Appended
      <4> QED
        BY <1>1, <3>1, <4>1, <4>2
    <3>2. CASE made[d].session # s
      BY <1>1, <2>2, <2>3, <3>2
    <3> QED
      BY <3>1, <3>2
  <2> QED
    BY <1>0, <2>4 DEF Durable
<1>7. Durable(c)'
  <2>1. Len(db.commits[s]) + 1 \in 1 .. Len(db'.commits[s]) /\ db'.commits[s][Len(db.commits[s]) + 1] = c
    <3> HIDE DEF c, s
    <3> QED
      BY <1>1, <1>2, Appended
  <2>2. c' = c /\ made'[c] = made[c]
    BY <1>0
  <2> QED
    BY <2>1, <2>2 DEF Durable
<1>8. ~Durable(c)
  BY <1>1, <1>2 DEF Durable, Same
<1>9. told[c] = 0 /\ \A b \in Actor : pc[b] = "receipt" => com[b] # c
  BY <1>1, <1>8 DEF History, Receipts
<1>10. \A b \in Actor : pc'[b] = "receipt" => b = a \/ (pc[b] = "receipt" /\ Made(com[b]))
  BY <1>0 DEF Control, Sent, Appending
<1>11. Receipts'
  <2>0. Receipts
    BY DEF History
  <2>1. \A b \in Actor : pc'[b] = "receipt" => Durable(com[b])'
    <3>1. ASSUME NEW b \in Actor, pc'[b] = "receipt", b # a PROVE Durable(com[b])'
      <4>1. com[b] \in Commit /\ Made(com[b]) /\ Durable(com[b]) /\ com'[b] = com[b]
        BY <1>0, <1>10, <2>0, <3>1 DEF Receipts, Made
      <4> QED
        BY <1>6, <4>1 DEF Durable
    <3> QED
      BY <1>7, <3>1
  <2>2. (\A d \in acked : Made(d) /\ Durable(d))'
    BY <1>0, <1>6, <2>0 DEF Receipts, Made
  <2>3. (\A d \in Commit : told[d] = 0 \/ (told[d] = 1 /\ Made(d) /\ Durable(d)))'
    BY <1>0, <1>6, <2>0 DEF Receipts
  <2>4. (\A b \in Actor : pc[b] = "receipt" /\ fresh[b] =>
          /\ told[com[b]] = 0
          /\ \A e \in Actor : pc[e] = "receipt" /\ fresh[e] /\ com[e] = com[b] => e = b)'
    BY <1>0, <1>9, <1>10, <2>0 DEF Receipts
  <2> QED
    BY <1>0, <2>1, <2>2, <2>3, <2>4 DEF Receipts
<1> QED
  BY <1>3, <1>4, <1>5, <1>11 DEF History

LEMMA HistoryReceipt ==
  ASSUME SqlAssumption, Control, Control', History, NEW a \in Actor, Receipt(a)
  PROVE  History'
<1> USE DEF clientVars, callVars, readVars, Goto
<1>0. /\ pc' = [pc EXCEPT ![a] = "idle"] /\ pc \in [Actor -> Position] /\ pc[a] = "receipt"
      /\ UNCHANGED <<made, db, draft, com, fresh>> /\ acked' = acked \cup {com[a]}
      /\ told' = IF fresh[a] THEN [told EXCEPT ![com[a]] = @ + 1] ELSE told
      /\ told \in [Commit -> Nat]
  BY DEF Receipt, News, Control, CoreTypes
<1>1. TablesAgree' /\ OncePerKey' /\ \A c \in Commit : (Made(c)' <=> Made(c)) /\ (Durable(c)' <=> Durable(c))
  BY <1>0, SameLog DEF History
<1>2. Made(com[a]) /\ Durable(com[a]) /\ com[a] \in Commit
  BY <1>0 DEF History, Receipts, Control, Sent, Appending, Made
<1>3. Drafts'
  <2>1. SUFFICES ASSUME NEW b \in Actor, pc'[b] \in Writing PROVE InTransaction(b)'
    BY DEF Drafts
  <2>2. pc'[b] = pc[b] /\ InTransaction(b)
    BY <1>0, <2>1 DEF Writing, History, Drafts
  <2> QED
    BY <1>0, <2>2 DEF InTransaction, CommitsWith, EntriesWith, HeadsWith, NewHead, IsNext
<1>4. Receipts'
  <2>0. Receipts /\ \A b \in Actor : pc'[b] = "receipt" => pc[b] = "receipt" /\ b # a /\ com[b] \in Commit
    BY <1>0 DEF History, Control, Sent, Appending, Made
  <2>1. \A b \in Actor : pc'[b] = "receipt" => Durable(com[b])'
    BY <1>0, <1>1, <2>0 DEF Receipts
  <2>2. (\A d \in acked : Made(d) /\ Durable(d))'
    BY <1>0, <1>1, <1>2, <2>0 DEF Receipts, Made
  <2>3. \A d \in Commit : told'[d] = 0 \/ (told'[d] = 1 /\ Made(d)' /\ Durable(d)')
    <3>1. CASE fresh[a]
      <4>1. told[com[a]] = 0 /\ told' = [told EXCEPT ![com[a]] = @ + 1]
        BY <1>0, <2>0, <3>1 DEF Receipts
      <4>2. told'[com[a]] = 1 /\ \A d \in Commit : d # com[a] => told'[d] = told[d]
        BY <1>0, <1>2, <4>1
      <4> QED
        BY <1>1, <1>2, <2>0, <4>2 DEF Receipts
    <3>2. CASE ~fresh[a]
      BY <1>0, <1>1, <2>0, <3>2 DEF Receipts
    <3> QED
      BY <3>1, <3>2
  <2>4. \A b \in Actor : pc'[b] = "receipt" /\ fresh[b] =>
          /\ told'[com[b]] = 0
          /\ \A e \in Actor : pc'[e] = "receipt" /\ fresh[e] /\ com[e] = com[b] => e = b
    <3>1. ASSUME NEW b \in Actor, pc'[b] = "receipt", fresh[b] PROVE told'[com[b]] = 0
      <4>1. pc[b] = "receipt" /\ b # a /\ told[com[b]] = 0 /\ com[b] \in Commit
        BY <2>0, <3>1 DEF Receipts
      <4>2. fresh[a] => com[b] # com[a]
        BY <1>0, <2>0, <3>1, <4>1 DEF Receipts
      <4> QED
        BY <1>0, <4>1, <4>2
    <3> QED
      BY <2>0, <3>1 DEF Receipts
  <2> QED
    BY <1>0, <2>1, <2>2, <2>3, <2>4 DEF Receipts
<1> QED
  BY <1>1, <1>3, <1>4 DEF History

LEMMA HistoryNext ==
  ASSUME SqlAssumption, Control, Control', History, [SqlNext]_sqlVars
  PROVE  History'
<1>1. ASSUME NEW a \in Actor, FindDuplicate(a) PROVE History'
  <2>1. pc'[a] = "receipt" \/ (pc[a] = "find" /\ Reject(a)) \/ pc'[a] = "commit_row"
    BY <1>1 DEF FindDuplicate, Goto, Control, CoreTypes
  <2> QED
    BY <1>1, <2>1, QuietSteps, QuietHistory, HistoryInside, HistoryDuplicate
<1>2. CASE UNCHANGED sqlVars
  <2>1. Quiet
    BY <1>2 DEF sqlVars, Quiet
  <2> QED
    BY <2>1, QuietHistory
<1>3. ASSUME NEW h \in Host, Crash(h) PROVE History'
  BY <1>3, QuietCrash, QuietHistory
<1>4. ASSUME NEW a \in Actor, AppendStep(a) PROVE History'
  BY <1>1, <1>4, QuietSteps, QuietHistory, HistoryInside, HistoryCommit, HistoryReceipt DEF AppendStep
<1>5. ASSUME NEW a \in Actor,
             \/ Initialize(a) \/ ReadVersion(a) \/ Migrate(a)
             \/ \E s \in Session : (\E c \in Commit : Call(a, s, c)) \/ ReadAll(a, s) \/ ScrubEntries(a, s)
             \/ ReadHead(a) \/ ReadRows(a) \/ ScrubProjection(a) \/ StatementFails(a)
      PROVE  History'
  BY <1>5, QuietSteps, QuietHistory
<1> QED
  BY <1>2, <1>3, <1>4, <1>5 DEF SqlNext

-----------------------------------------------------------------------------
(* The chain of appends of a process *)

Distinct(q) == \A i, j \in DOMAIN q : q[i] = q[j] => i = j
Appends(h) == {a \in Actor : HostOf[a] = h /\ pc[a] \in Appending}

Chain ==
  /\ queue \in [Host -> Seq(Actor)]
  /\ \A h \in Host : Distinct(queue[h]) /\ Range(queue[h]) = Appends(h)
  /\ AtHead

LEMMA QueueTail ==
  ASSUME NEW q \in Seq(Actor), q # <<>>, Distinct(q)
  PROVE  Tail(q) \in Seq(Actor) /\ Distinct(Tail(q)) /\ Range(Tail(q)) = Range(q) \ {Head(q)}
<1>1. /\ Tail(q) \in Seq(Actor) /\ Len(q) \in Nat /\ Len(q) >= 1 /\ Head(q) = q[1]
      /\ DOMAIN q = 1 .. Len(q) /\ DOMAIN Tail(q) = 1 .. Len(q) - 1
      /\ \A i \in 1 .. Len(q) - 1 : i + 1 \in 1 .. Len(q) /\ Tail(q)[i] = q[i + 1]
  OBVIOUS
<1>2. Distinct(Tail(q))
  <2>1. SUFFICES ASSUME NEW i \in 1 .. Len(q) - 1, NEW j \in 1 .. Len(q) - 1, q[i + 1] = q[j + 1]
                 PROVE  i = j
    BY <1>1 DEF Distinct
  <2>2. i + 1 = j + 1
    BY <1>1, <2>1 DEF Distinct
  <2> QED
    BY <2>2
<1>3. ASSUME NEW x \in Range(Tail(q)) PROVE x \in Range(q) /\ x # Head(q)
  <2>1. PICK i \in 1 .. Len(q) - 1 : x = Tail(q)[i]
    BY <1>1, <1>3 DEF Range
  <2>2. x = q[i + 1] /\ i + 1 \in DOMAIN q /\ 1 \in DOMAIN q /\ i + 1 # 1
    BY <1>1, <2>1
  <2> QED
    BY <1>1, <2>2 DEF Range, Distinct
<1>4. ASSUME NEW x \in Range(q), x # Head(q) PROVE x \in Range(Tail(q))
  <2>1. PICK i \in 1 .. Len(q) : x = q[i]
    BY <1>1, <1>4 DEF Range
  <2>2. i # 1
    BY <1>1, <1>4, <2>1
  <2>3. i - 1 \in 1 .. Len(q) - 1 /\ Tail(q)[i - 1] = q[(i - 1) + 1] /\ (i - 1) + 1 = i
    BY <1>1, <2>1, <2>2
  <2> QED
    BY <1>1, <2>1, <2>3 DEF Range
<1> QED
  BY <1>1, <1>2, <1>3, <1>4

LEMMA QueueAppend ==
  ASSUME NEW q \in Seq(Actor), NEW a \in Actor, a \notin Range(q), Distinct(q)
  PROVE  /\ Append(q, a) \in Seq(Actor) /\ Distinct(Append(q, a))
         /\ Range(Append(q, a)) = Range(q) \cup {a}
         /\ q # <<>> => Append(q, a) # <<>> /\ Head(Append(q, a)) = Head(q)
<1> DEFINE r == Append(q, a)
<1>1. /\ r \in Seq(Actor) /\ Len(q) \in Nat /\ DOMAIN q = 1 .. Len(q) /\ DOMAIN r = 1 .. Len(q) + 1
      /\ \A i \in 1 .. Len(q) : r[i] = q[i]
      /\ r[Len(q) + 1] = a
  OBVIOUS
<1>2. q # <<>> => r # <<>> /\ Head(r) = Head(q)
  OBVIOUS
<1> HIDE DEF r
<1>3. \A i \in DOMAIN r : i \in DOMAIN q \/ i = Len(q) + 1
  BY <1>1
<1>4. Distinct(r)
  BY <1>1, <1>3 DEF Distinct, Range
<1>5. Range(r) = Range(q) \cup {a}
  <2>1. \A i \in DOMAIN q : i \in DOMAIN r /\ r[i] = q[i]
    BY <1>1
  <2>2. Len(q) + 1 \in DOMAIN r
    BY <1>1
  <2> QED
    BY <1>1, <1>3, <2>1, <2>2 DEF Range
<1> QED
  BY <1>1, <1>2, <1>4, <1>5 DEF r

\* A member of a chain, and what its being there says.
LEMMA InChain ==
  ASSUME SqlAssumption, Chain, NEW a \in Actor
  PROVE  /\ HostOf[a] \in Host /\ queue[HostOf[a]] \in Seq(Actor)
         /\ pc[a] \in Appending <=> a \in Range(queue[HostOf[a]])
         /\ pc[a] \in Appending => queue[HostOf[a]] # <<>>
<1>1. HostOf[a] \in Host
  BY DEF SqlAssumption
<1>2. queue[HostOf[a]] \in Seq(Actor) /\ Range(queue[HostOf[a]]) = Appends(HostOf[a])
  BY <1>1 DEF Chain
<1>3. pc[a] \in Appending <=> a \in Range(queue[HostOf[a]])
  BY <1>2 DEF Appends
<1>4. \A q : q = <<>> => Range(q) = {}
  BY DEF Range
<1> QED
  BY <1>1, <1>2, <1>3, <1>4

\* Steps that add nothing to a chain and take nothing from it.
LEMMA ChainFrame ==
  ASSUME SqlAssumption, Chain, UNCHANGED queue,
         \A b \in Actor : pc'[b] \in Appending <=> pc[b] \in Appending,
         \A b \in Actor : pc'[b] \in Writing \cup {"receipt"} =>
            pc[b] \in Writing \cup {"receipt"} \/ Head(queue[HostOf[b]]) = b
  PROVE  Chain'
<1>1. \A h \in Host : Appends(h)' = Appends(h)
  BY DEF Appends
<1>2. AtHead'
  <2>1. SUFFICES ASSUME NEW b \in Actor, pc'[b] \in Writing \cup {"receipt"}
                 PROVE  queue[HostOf[b]] # <<>> /\ Head(queue[HostOf[b]]) = b
    BY DEF AtHead
  <2>2. pc[b] \in Appending
    BY <2>1 DEF Appending
  <2> QED
    BY <2>1, <2>2, InChain DEF Chain, AtHead
<1> QED
  BY <1>1, <1>2 DEF Chain

\* The append at the head of its chain ends.
LEMMA ChainAdvance ==
  ASSUME SqlAssumption, Control, Chain, NEW a \in Actor, Advance(a), pc' = [pc EXCEPT ![a] = "idle"],
         pc[a] \in Appending, Head(queue[HostOf[a]]) = a
  PROVE  Chain'
<1> DEFINE h == HostOf[a]
           q == queue[h]
<1>0. pc \in [Actor -> Position] /\ queue \in [Host -> Seq(Actor)]
  BY DEF Control, CoreTypes, Chain
<1>1. h \in Host /\ q \in Seq(Actor) /\ q # <<>> /\ Distinct(q) /\ Range(q) = Appends(h)
  BY InChain DEF Chain
<1>2. Tail(q) \in Seq(Actor) /\ Distinct(Tail(q)) /\ Range(Tail(q)) = Range(q) \ {a}
  <2> HIDE DEF h, q
  <2>1. Head(q) = a
    BY DEF q, h
  <2> QED
    BY <1>1, <2>1, QueueTail
<1>3. queue' = [queue EXCEPT ![h] = Tail(q)]
  BY DEF Advance
<1>4. Appends(h)' = Appends(h) \ {a}
  BY <1>0 DEF Appends, Appending, Writing
<1>5. \A g \in Host : g # h => Appends(g)' = Appends(g) /\ queue'[g] = queue[g]
  BY <1>0, <1>1, <1>3 DEF Appends, Appending, Writing
<1>6. queue'[h] = Tail(q) /\ queue' \in [Host -> Seq(Actor)]
  BY <1>0, <1>1, <1>2, <1>3
<1>7. AtHead'
  <2>1. SUFFICES ASSUME NEW b \in Actor, pc'[b] \in Writing \cup {"receipt"}
                 PROVE  queue'[HostOf[b]] # <<>> /\ Head(queue'[HostOf[b]]) = b
    BY DEF AtHead
  <2>2. b # a /\ pc[b] \in Writing \cup {"receipt"}
    BY <1>0, <2>1 DEF Writing
  <2>3. queue[HostOf[b]] # <<>> /\ Head(queue[HostOf[b]]) = b
    BY <2>2 DEF Chain, AtHead
  <2>4. HostOf[b] # h /\ HostOf[b] \in Host
    BY <2>2, <2>3 DEF SqlAssumption
  <2> QED
    BY <1>5, <2>3, <2>4
<1>8. \A g \in Host : (Distinct(queue[g]) /\ Range(queue[g]) = Appends(g))'
  <2> HIDE DEF h, q
  <2>1. ASSUME NEW g \in Host, g # h PROVE (Distinct(queue[g]) /\ Range(queue[g]) = Appends(g))'
    <3>1. Distinct(queue[g]) /\ Range(queue[g]) = Appends(g) /\ queue'[g] = queue[g] /\ Appends(g)' = Appends(g)
      BY <1>5, <2>1 DEF Chain
    <3> QED
      BY <3>1
  <2>2. Distinct(queue'[h]) /\ Range(queue'[h]) = Appends(h)'
    BY <1>1, <1>2, <1>4, <1>6
  <2> QED
    BY <2>1, <2>2
<1> QED
  BY <1>6, <1>7, <1>8 DEF Chain

LEMMA ChainInit ==
  ASSUME SqlAssumption, SqlInit
  PROVE  Chain
<1>1. \A h \in Host : queue[h] = <<>> /\ Appends(h) = {}
  BY DEF SqlInit, Appends, Appending, Writing
<1>2. Distinct(<<>>) /\ Range(<<>>) = {}
  BY DEF Distinct, Range
<1>3. AtHead /\ queue \in [Host -> Seq(Actor)]
  BY DEF SqlInit, AtHead, Writing
<1> QED
  BY <1>1, <1>2, <1>3 DEF Chain

LEMMA ChainCall ==
  ASSUME SqlAssumption, Control, Chain, NEW a \in Actor, NEW s \in Session, NEW c \in Commit, Call(a, s, c)
  PROVE  Chain'
<1> DEFINE h == HostOf[a]
           q == queue[h]
<1>0. /\ pc \in [Actor -> Position] /\ queue \in [Host -> Seq(Actor)] /\ pc[a] = "idle"
      /\ pc' = [pc EXCEPT ![a] = "queued"] /\ queue' = [queue EXCEPT ![h] = Append(q, a)]
  BY DEF Control, CoreTypes, Chain, Call, Goto, Ready
<1>1. h \in Host /\ q \in Seq(Actor) /\ Distinct(q) /\ Range(q) = Appends(h) /\ a \notin Range(q)
  BY <1>0, InChain DEF Chain, Appending, Writing
<1>2. /\ Append(q, a) \in Seq(Actor) /\ Distinct(Append(q, a)) /\ Range(Append(q, a)) = Range(q) \cup {a}
      /\ q # <<>> => Append(q, a) # <<>> /\ Head(Append(q, a)) = Head(q)
  <2> HIDE DEF h, q
  <2> QED
    BY <1>1, QueueAppend
<1>4. Appends(h)' = Appends(h) \cup {a}
  BY <1>0 DEF Appends, Appending, Writing
<1>5. \A g \in Host : g # h => Appends(g)' = Appends(g) /\ queue'[g] = queue[g]
  BY <1>0, <1>1 DEF Appends, Appending, Writing
<1>6. queue'[h] = Append(q, a) /\ queue' \in [Host -> Seq(Actor)]
  <2> HIDE DEF h, q
  <2> QED
    BY <1>0, <1>1, <1>2
<1>7. AtHead'
  <2>1. SUFFICES ASSUME NEW b \in Actor, pc'[b] \in Writing \cup {"receipt"}
                 PROVE  queue'[HostOf[b]] # <<>> /\ Head(queue'[HostOf[b]]) = b
    BY DEF AtHead
  <2>2. pc[b] \in Writing \cup {"receipt"}
    BY <1>0, <2>1 DEF Writing
  <2>3. queue[HostOf[b]] # <<>> /\ Head(queue[HostOf[b]]) = b /\ HostOf[b] \in Host
    BY <2>2 DEF Chain, AtHead, SqlAssumption
  <2>4. CASE HostOf[b] # h
    BY <1>5, <2>3, <2>4
  <2>5. CASE HostOf[b] = h
    <3>1. q # <<>> /\ Head(q) = b
      BY <2>3, <2>5
    <3> HIDE DEF h, q
    <3> QED
      BY <1>2, <1>6, <2>5, <3>1
  <2> QED
    BY <2>4, <2>5
<1>8. \A g \in Host : (Distinct(queue[g]) /\ Range(queue[g]) = Appends(g))'
  <2> HIDE DEF h, q
  <2>1. ASSUME NEW g \in Host, g # h PROVE (Distinct(queue[g]) /\ Range(queue[g]) = Appends(g))'
    <3>1. Distinct(queue[g]) /\ Range(queue[g]) = Appends(g) /\ queue'[g] = queue[g] /\ Appends(g)' = Appends(g)
      BY <1>5, <2>1 DEF Chain
    <3> QED
      BY <3>1
  <2>2. Distinct(queue'[h]) /\ Range(queue'[h]) = Appends(h)'
    BY <1>1, <1>2, <1>4, <1>6
  <2> QED
    BY <2>1, <2>2
<1> QED
  BY <1>6, <1>7, <1>8 DEF Chain

LEMMA ChainCrash ==
  ASSUME SqlAssumption, Control, Chain, NEW h \in Host, Crash(h)
  PROVE  Chain'
<1>0. /\ queue \in [Host -> Seq(Actor)] /\ queue' = [queue EXCEPT ![h] = <<>>]
      /\ pc' = [a \in Actor |-> IF HostOf[a] = h THEN "idle" ELSE pc[a]]
  BY DEF Crash, Chain
<1>1. queue' \in [Host -> Seq(Actor)] /\ queue'[h] = <<>> /\ \A g \in Host : g # h => queue'[g] = queue[g]
  BY <1>0
<1>2. Appends(h)' = {} /\ \A g \in Host : g # h => Appends(g)' = Appends(g)
  BY <1>0 DEF Appends, Appending, Writing
<1>3. Distinct(<<>>) /\ Range(<<>>) = {}
  BY DEF Distinct, Range
<1>4. \A g \in Host : (Distinct(queue[g]) /\ Range(queue[g]) = Appends(g))'
  <2>1. ASSUME NEW g \in Host, g # h PROVE (Distinct(queue[g]) /\ Range(queue[g]) = Appends(g))'
    <3>1. Distinct(queue[g]) /\ Range(queue[g]) = Appends(g) /\ queue'[g] = queue[g] /\ Appends(g)' = Appends(g)
      BY <1>1, <1>2, <2>1 DEF Chain
    <3> QED
      BY <3>1
  <2>2. Distinct(queue'[h]) /\ Range(queue'[h]) = Appends(h)'
    BY <1>1, <1>2, <1>3
  <2> QED
    BY <2>1, <2>2
<1>5. AtHead'
  <2>1. SUFFICES ASSUME NEW b \in Actor, pc'[b] \in Writing \cup {"receipt"}
                 PROVE  queue'[HostOf[b]] # <<>> /\ Head(queue'[HostOf[b]]) = b
    BY DEF AtHead
  <2>2. HostOf[b] # h /\ pc[b] \in Writing \cup {"receipt"} /\ HostOf[b] \in Host
    BY <1>0, <2>1 DEF Writing, SqlAssumption
  <2> QED
    BY <1>1, <2>2 DEF Chain, AtHead
<1> QED
  BY <1>1, <1>4, <1>5 DEF Chain

LEMMA ChainNext ==
  ASSUME SqlAssumption, Control, Chain, [SqlNext]_sqlVars
  PROVE  Chain'
<1> USE DEF clientVars, callVars, readVars, Goto
<1>0. pc \in [Actor -> Position]
  BY DEF Control, CoreTypes
<1>1. ASSUME NEW a \in Actor, UNCHANGED queue,
             \E p \in Position \ Appending : pc[a] \notin Appending /\ pc' = [pc EXCEPT ![a] = p]
      PROVE  Chain'
  <2>1. \A b \in Actor : pc'[b] = pc[b] \/ (pc'[b] \notin Appending /\ pc[b] \notin Appending)
    BY <1>0, <1>1
  <2>2. \A b \in Actor : pc'[b] \in Writing \cup {"receipt"} => pc[b] \in Writing \cup {"receipt"}
    BY <2>1 DEF Appending
  <2> QED
    BY <1>1, <2>1, <2>2, ChainFrame
<1>2. ASSUME NEW a \in Actor, Initialize(a) PROVE Chain'
  <2>1. UNCHANGED queue /\ pc[a] \notin Appending /\ pc' = [pc EXCEPT ![a] = "version"]
    BY <1>2 DEF Initialize, Appending, Writing
  <2> QED
    BY <1>1, <2>1 DEF Position, Appending, Writing
<1>3. ASSUME NEW a \in Actor, ReadVersion(a) \/ Migrate(a) PROVE Chain'
  <2>1. UNCHANGED queue /\ pc[a] \notin Appending /\ \E p \in {"idle", "migrate"} : pc' = [pc EXCEPT ![a] = p]
    BY <1>3 DEF ReadVersion, Migrate, Appending, Writing
  <2>2. {"idle", "migrate"} \subseteq Position \ Appending
    BY DEF Position, Appending, Writing
  <2> QED
    BY <1>1, <2>1, <2>2
<1>4. ASSUME NEW a \in Actor, (\E s \in Session : ReadAll(a, s) \/ ScrubEntries(a, s))
             \/ ReadHead(a) \/ ReadRows(a) \/ ScrubProjection(a)
      PROVE  Chain'
  <2>1. /\ UNCHANGED queue /\ pc[a] \notin Appending
        /\ \E p \in {"idle", "head", "rows", "scrub"} : pc' = [pc EXCEPT ![a] = p]
    BY <1>4 DEF ReadAll, ScrubEntries, ReadHead, ReadRows, ScrubProjection, Ready, Appending, Writing
  <2>2. {"idle", "head", "rows", "scrub"} \subseteq Position \ Appending
    BY DEF Position, Appending, Writing
  <2> QED
    BY <1>1, <2>1, <2>2
<1>5. ASSUME NEW a \in Actor, UNCHANGED queue, pc[a] \in Appending,
             \E p \in Appending : pc' = [pc EXCEPT ![a] = p],
             pc[a] \in Writing \/ Head(queue[HostOf[a]]) = a
      PROVE  Chain'
  <2>1. \A b \in Actor : pc'[b] = pc[b] \/ (b = a /\ pc'[b] \in Appending)
    BY <1>0, <1>5
  <2> QED
    BY <1>5, <2>1, ChainFrame
<1>6. ASSUME NEW a \in Actor, BeginImmediate(a) PROVE Chain'
  BY <1>5, <1>6 DEF BeginImmediate, Appending, Writing
<1>7. ASSUME NEW a \in Actor, Busy(a) \/ StatementFails(a) \/ (pc[a] = "find" /\ Reject(a)) PROVE Chain'
  <2>1. /\ Advance(a) /\ pc' = [pc EXCEPT ![a] = "idle"] /\ pc[a] \in Appending
        /\ pc[a] \in Writing \/ Head(queue[HostOf[a]]) = a
    BY <1>7 DEF Busy, StatementFails, Reject, Appending, Writing
  <2>2. Head(queue[HostOf[a]]) = a
    BY <2>1 DEF Chain, AtHead
  <2> QED
    BY <2>1, <2>2, ChainAdvance
<1>8. ASSUME NEW a \in Actor, FindDuplicate(a) PROVE Chain'
  <2>1. CASE Reject(a)
    BY <1>7, <1>8, <2>1 DEF FindDuplicate
  <2>2. CASE ~Reject(a)
    <3>1. UNCHANGED queue /\ pc[a] = "find" /\ \E p \in {"receipt", "commit_row"} : pc' = [pc EXCEPT ![a] = p]
      BY <1>8, <2>2 DEF FindDuplicate
    <3> QED
      BY <1>5, <3>1 DEF Appending, Writing
  <2> QED
    BY <2>1, <2>2
<1>9. ASSUME NEW a \in Actor, InsertCommit(a) \/ InsertEntries(a) \/ UpsertSession(a) \/ CommitTransaction(a)
      PROVE  Chain'
  <2>1. /\ UNCHANGED queue /\ pc[a] \in Writing
        /\ \E p \in {"entries", "projection", "commit", "receipt"} : pc' = [pc EXCEPT ![a] = p]
    BY <1>9 DEF InsertCommit, InsertEntries, UpsertSession, CommitTransaction, Writing
  <2> QED
    BY <1>5, <2>1 DEF Appending, Writing
<1>10. ASSUME NEW a \in Actor, Receipt(a) PROVE Chain'
  <2>1. Advance(a) /\ pc' = [pc EXCEPT ![a] = "idle"] /\ pc[a] = "receipt"
    BY <1>10 DEF Receipt
  <2>2. Head(queue[HostOf[a]]) = a /\ pc[a] \in Appending
    BY <2>1 DEF Chain, AtHead, Appending
  <2> QED
    BY <2>1, <2>2, ChainAdvance
<1>11. CASE UNCHANGED sqlVars
  BY <1>11, ChainFrame DEF sqlVars
<1> QED
  BY <1>2, <1>3, <1>4, <1>6, <1>7, <1>8, <1>9, <1>10, <1>11, ChainCall, ChainCrash DEF SqlNext, AppendStep

-----------------------------------------------------------------------------
(* Reads in pages *)

LEMMA PrefixKept ==
  ASSUME NEW es \in Seq(Commit), NEW fs \in Seq(Commit), NEW n \in Nat, n <= Len(es)
  PROVE  n <= Len(es \o fs) /\ SubSeq(es \o fs, 1, n) = SubSeq(es, 1, n)
<1>1. Len(es \o fs) = Len(es) + Len(fs) /\ Len(es) \in Nat /\ Len(fs) \in Nat
  BY ConcatProperties
<1>2. CASE n = 0
  BY <1>1, <1>2, SubSeqEmpty
<1>3. CASE n # 0
  BY <1>1, <1>3, SubSeqOfConcat1
<1> QED
  BY <1>1, <1>2, <1>3

\* The steps that neither make a commit, nor write the committed tables, nor answer.
LEMMA Aside ==
  ASSUME NEW a \in Actor,
         \/ Initialize(a) \/ ReadVersion(a) \/ Migrate(a)
         \/ \E s \in Session : ReadAll(a, s) \/ ScrubEntries(a, s)
         \/ BeginImmediate(a) \/ Busy(a) \/ FindDuplicate(a)
         \/ InsertCommit(a) \/ InsertEntries(a) \/ UpsertSession(a)
         \/ ReadHead(a) \/ ReadRows(a) \/ ScrubProjection(a) \/ StatementFails(a)
  PROVE  UNCHANGED <<made, db, acked>>
<1>1. CASE Initialize(a) \/ ReadVersion(a) \/ Migrate(a)
  BY <1>1 DEF Initialize, ReadVersion, Migrate, clientVars
<1>2. CASE (\E s \in Session : ReadAll(a, s) \/ ScrubEntries(a, s)) \/ ReadHead(a) \/ ReadRows(a)
           \/ ScrubProjection(a)
  BY <1>2 DEF ReadAll, ScrubEntries, ReadHead, ReadRows, ScrubProjection, clientVars
<1>3. CASE Busy(a) \/ FindDuplicate(a) \/ StatementFails(a)
  BY <1>3 DEF Busy, FindDuplicate, StatementFails, Reject, clientVars
<1>4. CASE BeginImmediate(a) \/ InsertCommit(a) \/ InsertEntries(a) \/ UpsertSession(a)
  BY <1>4 DEF BeginImmediate, InsertCommit, InsertEntries, UpsertSession, clientVars
<1> QED
  BY <1>1, <1>2, <1>3, <1>4

LEMMA OnlyCommitWrites ==
  ASSUME [SqlNext]_sqlVars
  PROVE  (\E a \in Actor : CommitTransaction(a)) \/ db' = db
<1>1. ASSUME NEW a \in Actor, NEW s \in Session, NEW c \in Commit, Call(a, s, c) PROVE db' = db
  BY <1>1 DEF Call
<1>2. ASSUME NEW a \in Actor, Receipt(a) PROVE db' = db
  BY <1>2 DEF Receipt
<1>3. ASSUME NEW h \in Host, Crash(h) PROVE db' = db
  BY <1>3 DEF Crash
<1>4. CASE UNCHANGED sqlVars
  BY <1>4 DEF sqlVars
<1>5. CASE SqlNext
  BY <1>1, <1>2, <1>3, <1>5, Aside DEF SqlNext, AppendStep
<1> QED
  BY <1>4, <1>5

\* The entries of a session only grow.
LEMMA EntriesGrow ==
  ASSUME SqlAssumption, Control, History, [SqlNext]_sqlVars, NEW s \in Session
  PROVE  /\ db.entries[s] \in Seq(Commit)
         /\ \A n \in Nat : n <= Len(db.entries[s]) =>
              /\ n <= Len(db'.entries[s])
              /\ SubSeq(db'.entries[s], 1, n) = SubSeq(db.entries[s], 1, n)
<1>1. db.entries[s] \in Seq(Commit)
  BY LogMade DEF History
<1>2. ASSUME NEW a \in Actor, CommitTransaction(a)
      PROVE  db'.entries[s] = db.entries[s] \/ \E c \in Commit : db'.entries[s] = db.entries[s] \o Entries(c)
  <2>1. /\ com[a] \in Commit
        /\ db'.entries[made[com[a]].session] = db.entries[made[com[a]].session] \o Entries(com[a])
        /\ \A t \in Session : t # made[com[a]].session => db'.entries[t] = db.entries[t]
    BY <1>2, Committed, Zenon
  <2> QED
    BY <2>1
<1>3. (\E a \in Actor : CommitTransaction(a)) \/ db' = db
  BY OnlyCommitWrites, Zenon
<1>4. db'.entries[s] = db.entries[s] \/ \E c \in Commit : db'.entries[s] = db.entries[s] \o Entries(c)
  BY <1>2, <1>3
<1>5. \A c \in Commit : Entries(c) \in Seq(Commit)
  BY EntriesSeq
<1> QED
  BY <1>1, <1>4, <1>5, PrefixKept

\* A read that this step does not touch.
LEMMA PageKept ==
  ASSUME SqlAssumption, Control, History, [SqlNext]_sqlVars, NEW r \in Reads, NEW p, NEW q,
         PageOf(r, p), q = p \/ (p \notin Reading /\ q \notin Reading)
  PROVE  PageOf(r, q)'
<1>1. q \in Reading => r.session # None
  BY DEF PageOf
<1>2. ASSUME r.session # None, q # "scrub"
      PROVE  /\ r.after <= r.through
             /\ r.through <= Len(db'.entries[r.session])
             /\ r.got = SubSeq(db'.entries[r.session], 1, IF q \in Reading THEN r.after ELSE r.through)
  <2>1. r.session \in Session /\ r.through \in Nat /\ r.after \in Nat
    BY <1>2 DEF Reads
  <2>2. p # "scrub" /\ (q \in Reading <=> p \in Reading)
    BY <1>2 DEF Reading
  <2>3. /\ r.after <= r.through /\ r.through <= Len(db.entries[r.session])
        /\ r.got = SubSeq(db.entries[r.session], 1, IF p \in Reading THEN r.after ELSE r.through)
    BY <1>2, <2>2 DEF PageOf
  <2>4. /\ db.entries[r.session] \in Seq(Commit) /\ Len(db.entries[r.session]) \in Nat
        /\ \A n \in Nat : n <= Len(db.entries[r.session]) =>
              /\ n <= Len(db'.entries[r.session])
              /\ SubSeq(db'.entries[r.session], 1, n) = SubSeq(db.entries[r.session], 1, n)
    BY <2>1, EntriesGrow
  <2>5. r.after <= Len(db.entries[r.session])
    BY <2>1, <2>3, <2>4
  <2> QED
    BY <2>1, <2>2, <2>3, <2>4, <2>5
<1> QED
  BY <1>1, <1>2 DEF PageOf

LEMMA PagedInit ==
  ASSUME SqlAssumption, SqlInit
  PROVE  Paged
  BY DEF SqlInit, Paged, PageOf, Reads, NoRead, Reading, SqlAssumption

LEMMA PagedNext ==
  ASSUME SqlAssumption, Control, History, Paged, [SqlNext]_sqlVars
  PROVE  Paged'
<1> USE DEF clientVars, callVars, Goto
<1>0. pc \in [Actor -> Position] /\ reading \in [Actor -> Reads] /\ \A b \in Actor : PageOf(reading[b], pc[b])
  BY DEF Control, CoreTypes, Paged
\* One actor moves, outside of the reads, or from a page to the next.
<1>1. ASSUME NEW a \in Actor, UNCHANGED reading,
             \E p \in Position : pc' = [pc EXCEPT ![a] = p] /\ p \notin Reading /\ pc[a] \notin Reading
      PROVE  Paged'
  <2>1. \A b \in Actor : pc'[b] = pc[b] \/ (pc[b] \notin Reading /\ pc'[b] \notin Reading)
    BY <1>0, <1>1
  <2> QED
    BY <1>0, <1>1, <2>1, PageKept DEF Paged
<1>2. ASSUME NEW a \in Actor, NEW r \in Reads, NEW p \in Position, reading' = [reading EXCEPT ![a] = r],
             pc' = [pc EXCEPT ![a] = p], PageOf(r, p), UNCHANGED db
      PROVE  Paged'
  <2>1. \A b \in Actor : PageOf(reading'[b], pc'[b])
    BY <1>0, <1>2
  <2>2. \A x, y : PageOf(x, y)' <=> PageOf(x, y)
    BY <1>2 DEF PageOf
  <2>3. reading' \in [Actor -> Reads]
    BY <1>0, <1>2
  <2> QED
    BY <2>1, <2>2, <2>3 DEF Paged
<1>3. ASSUME NEW a \in Actor, NEW s \in Session, ReadAll(a, s) PROVE Paged'
  <2> DEFINE r == [session |-> s, through |-> 0, after |-> 0, got |-> <<>>]
  <2>1. r \in Reads /\ r.session = s /\ r.through = 0 /\ r.after = 0 /\ r.got = <<>> /\ s # None
    BY DEF Reads, SqlAssumption
  <2>2. db.entries[s] \in Seq(Commit) /\ SubSeq(db.entries[s], 1, 0) = <<>> /\ 0 <= Len(db.entries[s])
    BY SubSeqEmpty, LogMade DEF History
  <2>3. reading' = [reading EXCEPT ![a] = r] /\ pc' = [pc EXCEPT ![a] = "head"] /\ UNCHANGED db
    BY <1>3 DEF ReadAll
  <2> HIDE DEF r
  <2>4. PageOf(r, "head")
    BY <2>1, <2>2 DEF PageOf, Reading
  <2> QED
    BY <1>2, <2>1, <2>3, <2>4 DEF Position
<1>4. ASSUME NEW a \in Actor, NEW s \in Session, ScrubEntries(a, s) PROVE Paged'
  <2> DEFINE r == [session |-> s, through |-> 0, after |-> 0, got |-> db.entries[s]]
  <2>1. r \in Reads /\ r.session # None
    <3>1. db.entries[s] \in Seq(Commit)
      BY LogMade DEF History
    <3> QED
      BY <3>1 DEF Reads, SqlAssumption
  <2>2. reading' = [reading EXCEPT ![a] = r] /\ pc' = [pc EXCEPT ![a] = "scrub"] /\ UNCHANGED db
    BY <1>4 DEF ScrubEntries
  <2> HIDE DEF r
  <2>3. PageOf(r, "scrub")
    BY <2>1 DEF PageOf
  <2> QED
    BY <1>2, <2>1, <2>2, <2>3 DEF Position
<1>5. ASSUME NEW a \in Actor, pc[a] \in {"head", "rows"}
      PROVE  /\ reading[a].session \in Session /\ reading[a].through \in Nat /\ reading[a].after \in Nat
             /\ reading[a].got \in Seq(Commit) /\ reading[a].session # None
             /\ db.entries[reading[a].session] \in Seq(Commit)
             /\ reading[a].after <= reading[a].through
             /\ reading[a].through <= Len(db.entries[reading[a].session])
             /\ reading[a].got = SubSeq(db.entries[reading[a].session], 1, reading[a].after)
  <2>1. PageOf(reading[a], pc[a]) /\ pc[a] \in Reading /\ pc[a] # "scrub" /\ reading[a] \in Reads
    BY <1>0, <1>5 DEF Reading
  <2>2. /\ reading[a].session # None /\ reading[a].after <= reading[a].through
        /\ reading[a].through <= Len(db.entries[reading[a].session])
        /\ reading[a].got = SubSeq(db.entries[reading[a].session], 1, reading[a].after)
    BY <2>1 DEF PageOf
  <2>3. /\ reading[a].session \in Session /\ reading[a].through \in Nat /\ reading[a].after \in Nat
        /\ reading[a].got \in Seq(Commit)
    BY <2>1, <2>2 DEF Reads
  <2> QED
    BY <2>2, <2>3, LogMade DEF History
<1>6. ASSUME NEW a \in Actor, ReadHead(a) PROVE Paged'
  <2> DEFINE t == reading[a]
             n == IF t.through = 0 THEN HeadOf(t.session).sequence ELSE t.through
             r == [session |-> t.session, after |-> t.after, got |-> t.got, through |-> n]
  <2>1. pc[a] = "head" /\ reading' = [reading EXCEPT ![a] = r] /\ pc' = [pc EXCEPT ![a] = "rows"] /\ UNCHANGED db
    BY <1>6 DEF ReadHead
  <2>2. /\ t.session \in Session /\ t.through \in Nat /\ t.after \in Nat /\ t.got \in Seq(Commit)
        /\ t.session # None /\ db.entries[t.session] \in Seq(Commit) /\ t.after <= t.through
        /\ t.through <= Len(db.entries[t.session]) /\ t.got = SubSeq(db.entries[t.session], 1, t.after)
    BY <1>5, <2>1
  <2>3. HeadOf(t.session).sequence = Len(db.entries[t.session])
    <3> HIDE DEF t
    <3>1. SessionAgrees(t.session, db.commits[t.session], db.entries[t.session], db.head[t.session])
      BY <2>2 DEF History, TablesAgree
    <3>2. db.head[t.session] = [revision |-> Len(db.commits[t.session]),
                                sequence |-> Len(db.entries[t.session]),
                                projected |-> db.entries[t.session]]
      BY <3>1 DEF SessionAgrees
    <3> QED
      BY <3>2 DEF HeadOf
  <2>4. n \in Nat /\ t.after <= n /\ n <= Len(db.entries[t.session])
    <3> HIDE DEF t
    <3> QED
      BY <2>2, <2>3
  <2>5. r \in Reads /\ PageOf(r, "rows")
    <3> HIDE DEF t, n
    <3> QED
      BY <2>2, <2>4 DEF Reads, PageOf, Reading
  <2> HIDE DEF r, t, n
  <2> QED
    BY <1>2, <2>1, <2>5 DEF Position
<1>7. ASSUME NEW a \in Actor, ReadRows(a) PROVE Paged'
  <2> DEFINE t == reading[a]
             es == db.entries[t.session]
             n == LastOf(t)
             r == [session |-> t.session, through |-> t.through, after |-> n,
                   got |-> t.got \o SubSeq(es, t.after + 1, n)]
             p == IF n < t.through THEN "head" ELSE "idle"
  <2>1. pc[a] = "rows" /\ reading' = [reading EXCEPT ![a] = r] /\ pc' = [pc EXCEPT ![a] = p] /\ UNCHANGED db
    BY <1>7 DEF ReadRows
  <2>2. /\ t.session \in Session /\ t.through \in Nat /\ t.after \in Nat /\ t.got \in Seq(Commit)
        /\ t.session # None /\ es \in Seq(Commit) /\ t.after <= t.through
        /\ t.through <= Len(es) /\ t.got = SubSeq(es, 1, t.after)
    BY <1>5, <2>1
  <2>3. n \in Nat /\ t.after <= n /\ n <= t.through /\ n <= Len(es)
    <3>1. PageLimit \in Nat /\ Len(es) \in Nat
      BY <2>2 DEF SqlAssumption
    <3> HIDE DEF t, es
    <3> QED
      BY <2>2, <3>1 DEF LastOf
  <2>4. t.got \o SubSeq(es, t.after + 1, n) = SubSeq(es, 1, n)
    <3> HIDE DEF t, es, n
    <3>1. /\ t.after \in 0 .. Len(es) /\ n \in t.after .. Len(es) /\ 1 \in 1 .. Len(es) + 1
          /\ t.after \in 1 - 1 .. Len(es)
      BY <2>2, <2>3
    <3> QED
      BY <2>2, <3>1, ConcatAdjacentSubSeq
  <2>5. SubSeq(es, 1, n) \in Seq(Commit)
    <3> HIDE DEF t, es, n
    <3> QED
      BY <2>2, <2>3
  <2>6. r \in Reads /\ PageOf(r, p) /\ p \in Position
    <3>1. /\ r.session = t.session /\ r.through = t.through /\ r.after = n /\ r.got = SubSeq(es, 1, n)
          /\ r \in Reads
      <4> HIDE DEF t, es, n
      <4> QED
        BY <2>2, <2>3, <2>4, <2>5 DEF Reads
    <3>2. p = "idle" => n = t.through
      <4> HIDE DEF t, es, n
      <4> QED
        BY <2>2, <2>3
    <3>3. p \in {"head", "idle"}
      OBVIOUS
    <3> HIDE DEF r, p, n
    <3> QED
      BY <2>2, <2>3, <3>1, <3>2, <3>3 DEF PageOf, Reading, Position
  <2> HIDE DEF r, t, n, es, p
  <2> QED
    BY <1>2, <2>1, <2>6
<1>8. ASSUME NEW a \in Actor, ScrubProjection(a) PROVE Paged'
  <2>1. PICK n \in {0, 1} :
           reading' = [reading EXCEPT ![a] = [session |-> None, after |-> 0, got |-> <<>>, through |-> n]]
    BY <1>8 DEF ScrubProjection
  <2> DEFINE r == [session |-> None, after |-> 0, got |-> <<>>, through |-> n]
  <2>2. r \in Reads /\ r.session = None
    BY DEF Reads
  <2>3. reading' = [reading EXCEPT ![a] = r] /\ pc' = [pc EXCEPT ![a] = "idle"] /\ UNCHANGED db
    BY <1>8, <2>1 DEF ScrubProjection
  <2> HIDE DEF r
  <2>4. PageOf(r, "idle")
    BY <2>2 DEF PageOf, Reading
  <2> QED
    BY <1>2, <2>2, <2>3, <2>4 DEF Position
<1>9. ASSUME NEW a \in Actor,
             \/ Initialize(a) \/ ReadVersion(a) \/ Migrate(a) \/ \E s \in Session : \E c \in Commit : Call(a, s, c)
             \/ AppendStep(a) \/ StatementFails(a)
      PROVE  Paged'
  <2> DEFINE Elsewhere == Position \ Reading
  <2>1. UNCHANGED reading /\ pc[a] \notin Reading /\ \E p \in Elsewhere : pc' = [pc EXCEPT ![a] = p]
    <3>1. Elsewhere = {"idle", "version", "migrate"} \cup Appending
      BY DEF Position, Reading, Appending, Writing
    <3> HIDE DEF Elsewhere
    <3>2. CASE Initialize(a) \/ ReadVersion(a) \/ Migrate(a) \/ \E s \in Session : \E c \in Commit : Call(a, s, c)
      BY <3>1, <3>2 DEF Initialize, ReadVersion, Migrate, Call, Ready, readVars, Reading, Appending
    <3>3. CASE StatementFails(a) \/ Busy(a) \/ FindDuplicate(a)
      BY <3>1, <3>3 DEF StatementFails, Busy, FindDuplicate, Reject, readVars, Reading, Appending, Writing
    <3>4. CASE BeginImmediate(a) \/ InsertCommit(a) \/ InsertEntries(a) \/ UpsertSession(a)
               \/ CommitTransaction(a) \/ Receipt(a)
      BY <3>1, <3>4 DEF BeginImmediate, InsertCommit, InsertEntries, UpsertSession, CommitTransaction,
         Receipt, readVars, Reading, Appending, Writing
    <3> QED
      BY <1>9, <3>2, <3>3, <3>4 DEF AppendStep
  <2> QED
    BY <1>1, <2>1
<1>10. ASSUME NEW h \in Host, Crash(h) PROVE Paged'
  <2>1. /\ pc' = [b \in Actor |-> IF HostOf[b] = h THEN "idle" ELSE pc[b]]
        /\ reading' = [b \in Actor |-> IF HostOf[b] = h THEN NoRead ELSE reading[b]]
    BY <1>10 DEF Crash
  <2>2. NoRead \in Reads /\ NoRead.session = None
    BY DEF NoRead, Reads
  <2>3. PageOf(NoRead, "idle")'
    BY <2>2 DEF PageOf, Reading
  <2>4. ASSUME NEW b \in Actor PROVE PageOf(reading[b], pc[b])'
    <3>1. CASE HostOf[b] = h
      BY <2>1, <2>3, <3>1
    <3>2. CASE HostOf[b] # h
      BY <1>0, <2>1, <3>2, PageKept
    <3> QED
      BY <3>1, <3>2
  <2> QED
    BY <1>0, <2>1, <2>2, <2>4 DEF Paged
<1>11. CASE UNCHANGED sqlVars
  BY <1>0, <1>11, PageKept DEF Paged, sqlVars
<1> QED
  BY <1>3, <1>4, <1>6, <1>7, <1>8, <1>9, <1>10, <1>11 DEF SqlNext

-----------------------------------------------------------------------------
(* The theorems *)

\* The inductive invariant.
SqlInv == Control /\ History /\ Chain /\ Paged

LEMMA SqlInvariant ==
  ASSUME SqlAssumption
  PROVE  SqlSpec => []SqlInv
<1>1. SqlInit => SqlInv
  BY ControlInit, HistoryInit, ChainInit, PagedInit DEF SqlInv
<1>2. SqlInv /\ [SqlNext]_sqlVars => SqlInv'
  <2>1. SUFFICES ASSUME SqlInv, [SqlNext]_sqlVars PROVE SqlInv'
    OBVIOUS
  <2>2. Control /\ History /\ Chain /\ Paged
    BY <2>1 DEF SqlInv
  <2>3. Control'
    BY <2>1, <2>2, ControlNext
  <2>4. History'
    BY <2>1, <2>2, <2>3, HistoryNext
  <2>5. Chain' /\ Paged'
    BY <2>1, <2>2, ChainNext, PagedNext
  <2> QED
    BY <2>3, <2>4, <2>5 DEF SqlInv
<1> QED
  BY <1>1, <1>2, PTL DEF SqlSpec

\* What the inductive invariant says of the tables, the listeners and the chains.
LEMMA SqlInvSound ==
  ASSUME SqlAssumption, SqlInv
  PROVE  TablesSound
<1> USE DEF SqlInv
<1>1. SqlTypeOK
  BY DEF Control, CoreTypes, Chain, Paged, SqlTypeOK
<1>2. TablesAgree /\ OncePerKey
  BY DEF History
<1>3. PagesWhole
  <2>1. SUFFICES ASSUME NEW a \in Actor, pc[a] = "idle", reading[a].session # None
                 PROVE  reading[a].got = SubSeq(db.entries[reading[a].session], 1, reading[a].through)
    BY DEF PagesWhole
  <2> QED
    BY <2>1 DEF Paged, PageOf, Reading
<1>4. ToldOnce
  <2>1. SUFFICES ASSUME NEW c \in Commit
                 PROVE  told[c] <= 1 /\ (told[c] = 1 => \E s \in Session : c \in Range(db.commits[s]))
    BY DEF ToldOnce
  <2>2. told[c] = 0 \/ (told[c] = 1 /\ Made(c) /\ Durable(c))
    BY DEF History, Receipts
  <2>3. ASSUME Made(c), Durable(c) PROVE \E s \in Session : c \in Range(db.commits[s])
    <3>1. made[c].session \in Session
      BY <2>3 DEF Control, CoreTypes, Offers, Made
    <3>2. db.commits[made[c].session] \in Seq(Commit)
      BY <3>1, LogMade DEF History
    <3>3. c \in Range(db.commits[made[c].session])
      BY <2>3, <3>2 DEF Durable, Range
    <3> QED
      BY <3>1, <3>3
  <2> QED
    BY <2>2, <2>3
<1>5. ChainMoves
  <2>1. Appending = {"queued", "find", "commit_row", "entries", "projection", "commit", "receipt"}
    BY DEF Appending, Writing
  <2> QED
    BY <2>1 DEF Chain, ChainMoves, Distinct, Appends
<1> QED
  BY <1>1, <1>2, <1>3, <1>4, <1>5 DEF TablesSound

\* The three tables of the SQLite journal agree in every committed state, no key is in a
\* session twice, reads in pages are whole, the listeners hear once of what is durable, and
\* no append blocks those behind it (appendExclusive, #writer, readAll).
THEOREM TablesAreSound ==
  ASSUME SqlAssumption
  PROVE  SqlSpec => []TablesSound
<1>1. SqlInv => TablesSound
  BY SqlInvSound
<1> QED
  BY <1>1, SqlInvariant, PTL

\* The step of the log that a step of the journal is.
LEMMA LogStep ==
  ASSUME SqlAssumption, SqlInv, SqlInv', [SqlNext]_sqlVars
  PROVE  [Log!LogNext]_Log!logVars
<1> USE DEF SqlInv
<1> DEFINE log == db.commits
           view(c) == IF made[c] = NoCommit THEN NoCommit
                      ELSE [session |-> made[c].session, revision |-> made[c].revision]
           views == [c \in Commit |-> view(c)]
<1>0. ASSUME NEW s \in Session PROVE log[s] \in Seq(Commit) /\ db.head[s].revision = Len(log[s])
  <2>1. SessionAgrees(s, db.commits[s], db.entries[s], db.head[s])
    BY DEF History, TablesAgree
  <2>2. db.head[s] = [revision |-> Len(db.commits[s]), sequence |-> Len(db.entries[s]),
                      projected |-> db.entries[s]]
    BY <2>1 DEF SessionAgrees
  <2> QED
    BY <2>2, LogMade DEF History
<1>1. ASSUME NEW a \in Actor, NEW s \in Session, NEW c \in Commit, Call(a, s, c)
      PROVE  [Log!LogNext]_Log!logVars
  <2>1. UNCHANGED <<db, acked>>
    BY <1>1 DEF Call
  <2>2. CASE made' = made
    BY <2>1, <2>2 DEF Log!logVars
  <2>3. CASE made' # made
    <3>1. made[c] = NoCommit /\ made' = [made EXCEPT ![c] = Offer(s)]
      BY <1>1, <2>3 DEF Call
    <3>2. /\ made \in [Commit -> Offers \cup {NoCommit}] /\ Offer(s) # NoCommit /\ Offer(s).session = s
          /\ Offer(s).revision = Len(log[s]) + 1 /\ Len(log[s]) + 1 \in 1 .. Len(log[s]) + 1
      <4>1. Len(log[s]) \in Nat /\ db.head[s].sequence \in Nat /\ db.head[s].revision = Len(log[s])
        <5>1. db.head[s] \in Heads
          BY TableFields DEF Control, CoreTypes
        <5> QED
          BY <1>0, <5>1 DEF Heads
      <4>2. /\ Offer(s) \in Offers /\ Offer(s).session = s
            /\ Offer(s).revision = Len(log[s]) + 1
        BY <4>1 DEF Offer, HeadOf, Offers
      <4>3. Offer(s) # NoCommit
        BY <4>2 DEF SqlAssumption, Offers
      <4>4. made \in [Commit -> Offers \cup {NoCommit}]
        BY DEF Control, CoreTypes
      <4>5. Len(log[s]) + 1 \in 1 .. Len(log[s]) + 1
        BY <4>1
      <4> QED
        BY <4>2, <4>3, <4>4, <4>5
    <3>3. views[c] = NoCommit
      BY <3>1
    <3>4. views' = [views EXCEPT ![c] = [session |-> s, revision |-> Len(log[s]) + 1]]
      <4>1. view(c)' = [session |-> s, revision |-> Len(log[s]) + 1]
        BY <3>1, <3>2
      <4>2. \A d \in Commit : d # c => view(d)' = view(d)
        BY <3>1, <3>2
      <4> HIDE DEF view
      <4> QED
        BY <4>1, <4>2
    <3>5. PICK r \in 1 .. Len(db.commits[s]) + 1 : r = Len(db.commits[s]) + 1
      BY <3>2
    <3>6. Log!Make(c, s, r)
      BY <2>1, <3>3, <3>4, <3>5 DEF Log!Make
    <3>7. Log!LogNext
      BY <3>5, <3>6, Zenon DEF Log!LogNext
    <3> QED
      BY <3>7
  <2> QED
    BY <2>2, <2>3
<1>2. ASSUME NEW a \in Actor, CommitTransaction(a) PROVE [Log!LogNext]_Log!logVars
  <2> DEFINE c == com[a]
             s == made[c].session
  <2>1. /\ c \in Commit /\ s \in Session /\ made[c] # NoCommit
        /\ made[c].revision = Len(log[s]) + 1
        /\ log' = [log EXCEPT ![s] = Append(log[s], c)]
    <3>1. /\ c \in Commit /\ s \in Session /\ made[c] # NoCommit /\ IsNext(c) /\ db'.commits = CommitsWith(c)
      BY <1>2, Committed
    <3> QED
      BY <1>0, <3>1 DEF IsNext, CommitsWith
  <2>2. UNCHANGED <<made, acked>>
    BY <1>2 DEF CommitTransaction, clientVars
  <2>3. views[c] = [session |-> s, revision |-> Len(log[s]) + 1] /\ views' = views
    BY <2>1, <2>2
  <2>4. Log!Extend(c, s)
    BY <2>1, <2>2, <2>3 DEF Log!Extend
  <2> QED
    BY <2>1, <2>4 DEF Log!LogNext
<1>3. ASSUME NEW a \in Actor, Receipt(a) PROVE [Log!LogNext]_Log!logVars
  <2>1. com[a] \in Commit /\ made[com[a]].session \in Session /\ Durable(com[a])
    BY <1>3, SentCommit DEF Receipt, Appending, History, Receipts
  <2>2. UNCHANGED <<made, db>> /\ acked' = acked \cup {com[a]}
    BY <1>3 DEF Receipt
  <2>3. Log!Ack(com[a])
    BY <2>1, <2>2 DEF Log!Ack, Durable
  <2> QED
    BY <2>1, <2>3 DEF Log!LogNext
<1>4. CASE UNCHANGED <<made, db, acked>>
  BY <1>4 DEF Log!logVars
<1>5. ASSUME NEW h \in Host, Crash(h) PROVE UNCHANGED <<made, db, acked>>
  BY <1>5 DEF Crash, clientVars
<1>6. CASE UNCHANGED sqlVars
  BY <1>6 DEF sqlVars, Log!logVars
<1> QED
  BY <1>1, <1>2, <1>3, <1>4, <1>5, <1>6, Aside DEF SqlNext, AppendStep

\* Whatever crashes or contends for the lock, the rows of commits are the log that
\* SessionJournalCommitStoreV3 promises.
THEOREM SqliteIsALog ==
  ASSUME SqlAssumption
  PROVE  SqlSpec => SqliteImplementsLog
<1>1. SqlInit => Log!LogInit
  BY DEF SqlInit, Log!LogInit, TablesOf
<1>2. SqlInv /\ SqlInv' /\ [SqlNext]_sqlVars => [Log!LogNext]_Log!logVars
  BY LogStep
<1> QED
  BY <1>1, <1>2, SqlInvariant, PTL DEF SqlSpec, SqliteImplementsLog, Log!LogSpec
=============================================================================
