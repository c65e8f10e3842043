----------------------------- MODULE SessionLog -----------------------------
(***************************************************************************)
(* What a session journal promises (SessionJournalCommitStoreV3): commits   *)
(* are appended one after another, each only at the revision it was made    *)
(* for and at most once; a commit is acknowledged only once it is in the    *)
(* log, and nothing is ever taken out of the log.                           *)
(***************************************************************************)
EXTENDS Naturals, Sequences

CONSTANTS Session, Commit, NoCommit

VARIABLES
  made,   \* [Commit -> [session, revision] or NoCommit]: what clients have built
  log,    \* [Session -> Seq(Commit)]
  acked   \* the commits whose receipt was returned

logVars == <<made, log, acked>>

Proposal == [session : Session, revision : Nat]

LogInit ==
  /\ made = [c \in Commit |-> NoCommit]
  /\ log = [s \in Session |-> <<>>]
  /\ acked = {}

\* createSessionCommitV3: the content of a commit is fixed when it is made.
Make(c, s, r) ==
  /\ made[c] = NoCommit
  /\ made' = [made EXCEPT ![c] = [session |-> s, revision |-> r]]
  /\ UNCHANGED <<log, acked>>

\* A durable append, under the compare-and-set on the revision.
Extend(c, s) ==
  /\ made[c] = [session |-> s, revision |-> Len(log[s]) + 1]
  /\ log' = [log EXCEPT ![s] = Append(log[s], c)]
  /\ UNCHANGED <<made, acked>>

\* The receipt, for the first append or for a duplicate of it.
Ack(c) ==
  /\ \E s \in Session : \E i \in 1 .. Len(log[s]) : log[s][i] = c
  /\ acked' = acked \cup {c}
  /\ UNCHANGED <<made, log>>

LogNext ==
  \E c \in Commit :
     \/ \E s \in Session : \E r \in 1 .. Len(log[s]) + 1 : Make(c, s, r)
     \/ \E s \in Session : Extend(c, s)
     \/ Ack(c)

LogSpec == LogInit /\ [][LogNext]_logVars
=============================================================================
