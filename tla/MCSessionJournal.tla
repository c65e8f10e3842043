-------------------------- MODULE MCSessionJournal --------------------------
(***************************************************************************)
(* The two journals that promise what SessionLog says, in one run: a        *)
(* behaviour takes one of three instances.                                  *)
(*                                                                          *)
(*   SQLite            h1 with two operations and h2 with one, on one       *)
(*                     session; two commits share an idempotency key        *)
(*   JSONL alone       one process, h1, that starts without a store, with   *)
(*                     two operations on sessions of their own; it crashes  *)
(*                     and loses writes                                     *)
(*   JSONL contended   h1 and h2 are up, with one operation each on the     *)
(*                     same session, which they scrub while it is in use    *)
(***************************************************************************)
EXTENDS SqliteJournal, TLC

CONSTANTS
  h1, h2, a1, a2, a3, s1, s2, c1, c2,
  MaxFaults   \* see SessionJournal

VARIABLES
  part,
  lineMade, log, lineAcked,
  tail, bad, proj, base, mark, overlay, pending, lock, up, linePc, sess, lineCom, seen,
  lineFresh, todo, view, doomed, faults

\* The first commit has two entries; the first and the third have one idempotency key.
SqlKeyOf  == [first |-> "x", second |-> "y", third |-> "x"]
SqlSize   == [first |-> 2, second |-> 1, third |-> 1]
SqlHostOf == (a1 :> h1) @@ (a2 :> h1) @@ (a3 :> h2)
SqlMine   == (a1 :> {"first"}) @@ (a2 :> {"second"}) @@ (a3 :> {"third"})

ASSUME SqliteInstance == SqlAssumption

\* One host with two operations on sessions of their own.
OneHostOf   == [a \in {a1, a2} |-> h1]
OwnSessions == [a \in {a1, a2} |-> IF a = a1 THEN {s1} ELSE {s2}]

\* Two hosts with one operation each, both on one session.
TwoHostsOf  == [a \in {a1, a2} |-> IF a = a1 THEN h1 ELSE h2]
OneSession  == [a \in {a1, a2} |-> {s1}]

Solitude == INSTANCE SessionJournal WITH
  Session <- {s1, s2}, Commit <- {c1, c2}, Actor <- {a1, a2},
  HostOf <- OneHostOf, May <- OwnSessions, Running <- {}, LiveScrub <- FALSE,
  made <- lineMade, acked <- lineAcked, pc <- linePc, com <- lineCom, fresh <- lineFresh

Contention == INSTANCE SessionJournal WITH
  Session <- {s1, s2}, Commit <- {c1, c2}, Actor <- {a1, a2},
  HostOf <- TwoHostsOf, May <- OneSession, Running <- {h1, h2}, LiveScrub <- TRUE,
  MaxFaults <- 0,
  made <- lineMade, acked <- lineAcked, pc <- linePc, com <- lineCom, fresh <- lineFresh

ASSUME JsonlInstances == Solitude!JournalAssumption /\ Contention!JournalAssumption

Alone == up[h2] = "down"

lineVars == <<lineMade, log, lineAcked, tail, bad, proj, base, mark, overlay, pending, lock, up,
              linePc, sess, lineCom, seen, lineFresh, todo, view, doomed, faults>>

MCInit ==
  /\ part \in {"jsonl", "sqlite"}
  /\ Solitude!JournalInit \/ (part = "jsonl" /\ Contention!JournalInit)
  /\ SqlInit

MCNext ==
  /\ UNCHANGED part
  /\ \/ part = "jsonl" /\ Alone /\ Solitude!JournalNext /\ UNCHANGED sqlVars
     \/ part = "jsonl" /\ ~Alone /\ Contention!JournalNext /\ UNCHANGED sqlVars
     \/ part = "sqlite" /\ SqlNext /\ UNCHANGED lineVars

MCSpec == MCInit /\ [][MCNext]_<<part, lineVars, sqlVars>>

\* The commits of the JSONL instances are interchangeable until one is made.
Interchangeable == Permutations({c1, c2})

-----------------------------------------------------------------------------

\* Journals hold their commits in the order of the revisions, and a process alone on its
\* store finds every stale projection and catalog entry marked after a crash between any
\* two calls (appendCommit, recoverPendingUnlocked).
JournalSound == IF Alone THEN Solitude!JournalSound ELSE Contention!JournalSound

\* The JSONL journal implements the log that the SQLite journal implements: an
\* acknowledged commit stays, at its revision, through the crashes, lost writes and starts
\* of a process that has the store to itself, and beside the appends and scrubs of others
\* that are up (appendCommit).  A process that starts while another appends is in neither
\* instance: Durable, checked apart, is false of it.  (LogSpec is the same formula in both.)
JsonlImplementsLog == Solitude!JsonlImplementsLog
=============================================================================
