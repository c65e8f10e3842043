------------------------ MODULE SessionJournalProofs ------------------------
(***************************************************************************)
(* Proofs about the JSONL session journal.                                 *)
(*                                                                         *)
(* Two operations never work on one session at a time: the lock file sees  *)
(* to it as long as no process dies (Queued), and a process alone on its   *)
(* store gives its operations sessions of their own and does nothing else  *)
(* while it starts (Staged).  So an operation still knows the journal it   *)
(* has read (Informed), and what it writes next is in order.  A rebuild of *)
(* the catalog never replaces a delta by something newer (Newer), which is *)
(* why a crash between its four writes leaves no unmarked stale entry.     *)
(***************************************************************************)
EXTENDS SessionJournal, FiniteSetTheorems, SequenceTheorems, TLAPS

-----------------------------------------------------------------------------
(* The inductive invariant *)

Held  == {"repair", "pend", "append", "appending", "project", "catalog", "delta", "deltaing",
          "clear", "receipt"}
Done  == {"project", "catalog", "delta", "deltaing", "clear", "receipt"}
Calls == Held \cup {"read", "abort"}
Recs  == {"rec_repair", "rec_project", "rec_delta", "rec_deltaing", "rec_unlink"}
Scans == {"scan", "scan_write"}
Builds == {"reset", "mark", "unpend"}
Opens == {"open_lock", "open", "recover"} \cup Recs
Scrubs == {"scrub_lock", "scrub"}
Ends  == {"opened", "abort_open"}
Lists == {"list_lock", "list"}
Label == {"idle", "lock"} \cup Calls \cup Opens \cup Scrubs \cup Scans \cup Builds \cup Ends \cup Lists

Works(a) == pc[a] \in Calls \cup Recs

\* No cache is ahead of its journal.
Behind ==
  \A s \in Session :
    /\ proj[s] <= Len(log[s]) /\ base[s] <= Len(log[s]) /\ overlay[s] <= Len(log[s])
    /\ \A m \in mark : m[s] <= Len(log[s])
    /\ \A a \in Actor : view[a][s] <= Len(log[s])

\* While nobody dies, an operation on a session has the session's lock file.
Queued ==
  /\ doomed = {}
  /\ \A l \in Lock : lock[l] # Orphan
  /\ \A a \in Actor :
       /\ up[HostOf[a]] = "up"
       /\ pc[a] \notin Opens
       /\ pc[a] \in Calls => lock[sess[a]] = a

\* A process alone on its store does one thing while it starts.
Staged ==
  \A a \in Actor :
    /\ pc[a] \notin Scrubs
    /\ pc[a] \in Calls \cup {"lock"} => sess[a] \in May[a]
    /\ up[HostOf[a]] = "down" => pc[a] = "idle"
    /\ up[HostOf[a]] = "starting" => \A b \in Actor \ {a} : pc[a] = "idle" \/ pc[b] = "idle"
    /\ pc[a] \in Opens \cup Scans \cup Builds \cup Ends => up[HostOf[a]] = "starting"

\* What an operation knows of its commit and of the journal it works on.
Informed(a) ==
  /\ pc[a] \in Calls \cup {"lock"} =>
       com[a] \in Commit /\ made[com[a]] # NoCommit /\ made[com[a]].session = sess[a]
  /\ pc[a] \in Held \cup Recs => seen[a] = log[sess[a]]
  /\ pc[a] \in Done => Occurs(com[a], log[sess[a]])
  /\ pc[a] \in {"pend", "append", "appending"} =>
       made[com[a]].revision = Len(log[sess[a]]) + 1
  /\ pc[a] \in {"pend", "append"} => tail[sess[a]] = Clean
  /\ pc[a] = "appending" => tail[sess[a]] = a
  /\ pc[a] = "scan_write" => Len(seen[a]) <= Len(log[sess[a]])

Inv ==
  /\ TypeOK /\ pc \in [Actor -> Label]
  /\ InOrder
  /\ Behind
  /\ Apart \/ Queued
  /\ Apart => Staged
  /\ \A a \in Actor : Informed(a)

\* No delta record is older than the base it lies over.
Newer == \A m \in mark : \A s \in Session : overlay[s] = 0 \/ m[s] <= overlay[s]

Listed(s) == CatalogValid => Catalog(s) = Len(log[s])

\* What an operation leaves behind when its process dies at this call.
Prepared(a) ==
  /\ pc[a] \in {"append", "appending"} => sess[a] \in pending
  /\ pc[a] \in {"catalog", "delta", "deltaing", "clear", "rec_delta", "rec_deltaing", "rec_unlink"} =>
       proj[sess[a]] = Len(log[sess[a]])
  /\ pc[a] \in {"clear", "rec_unlink"} => Listed(sess[a])
  /\ pc[a] = "scan_write" => seen[a] = log[sess[a]] /\ sess[a] \notin todo[a]
  /\ pc[a] \in Scans => 
       \A s \in Session \ todo[a] :
         \/ pc[a] = "scan_write" /\ s = sess[a]
         \/ proj[s] = Len(log[s]) /\ view[a][s] = Len(log[s])
  /\ pc[a] \in Builds => 
       base = view[a] /\ \A s \in Session : proj[s] = Len(log[s]) /\ view[a][s] = Len(log[s])
  /\ pc[a] \in {"mark", "unpend"} => \A s \in Session : overlay[s] = 0
  /\ pc[a] = "unpend" => mark = {view[a]}

CrashInv == StaleIsPending /\ Newer /\ \A a \in Actor : Prepared(a)

-----------------------------------------------------------------------------
(* What holds of the invariant in one state *)

Starting == Opens \cup Scans \cup Builds \cup Ends

\* The lock of an operation of either kind, and what the constants say of names.
LEMMA Names ==
  ASSUME JournalAssumption
  PROVE  /\ Free \notin Actor /\ Orphan \notin Actor /\ Clean \notin Actor
         /\ Free # Orphan /\ Clean # Orphan
         /\ "catalog" \notin Session /\ "catalog" \in Lock /\ "catalog" \in File
         /\ Session \subseteq Lock /\ Session \subseteq File
         /\ NoCommit \notin Commit /\ NoCommit \notin Proposal
BY DEF JournalAssumption, Free, Orphan, Clean, Lock, File

\* The call that follows each.
LEMMA Following ==
  /\ Then["pend"] = "append" /\ Then["append"] = "appending" /\ Then["appending"] = "project"
  /\ Then["project"] = "catalog" /\ Then["catalog"] = "delta" /\ Then["delta"] = "deltaing"
  /\ Then["rec_repair"] = "rec_project" /\ Then["rec_project"] = "rec_delta"
  /\ Then["rec_delta"] = "rec_deltaing" /\ Then["rec_deltaing"] = "rec_unlink"
BY DEF Then

\* findDuplicate and the check of the revision have three outcomes.
LEMMA Decided ==
  ASSUME NEW c, NEW parsed
  PROVE  /\ Decision(c, parsed) \in {"project", "abort", "pend"}
         /\ Decision(c, parsed) = "project" => Occurs(c, parsed)
         /\ Decision(c, parsed) = "pend" => made[c].revision = Len(parsed) + 1
BY DEF Decision

\* A journal in order holds a commit once.
LEMMA LogBounded ==
  ASSUME JournalAssumption, TypeOK, InOrder, NEW s \in Session
  PROVE  Len(log[s]) \in Nat /\ Len(log[s]) <= Cardinality(Commit) /\ Cardinality(Commit) \in Nat
<1> DEFINE S == 1 .. Len(log[s])
           g == [i \in S |-> log[s][i]]
<1>1. log[s] \in Seq(Commit) BY DEF TypeOK
<1>2. Len(log[s]) \in Nat BY <1>1
<1>3. \A i \in S : log[s][i] \in Commit BY <1>1
<1>4. \A i \in S : made[log[s][i]] = [session |-> s, revision |-> i] BY DEF InOrder, Readable
<1>5. IsFiniteSet(Commit) BY DEF JournalAssumption
<1>6. Cardinality(Commit) \in Nat BY <1>5, FS_CardinalityType
<1>7. IsFiniteSet(S) /\ Cardinality(S) = Len(log[s]) BY <1>2, FS_Interval
<1>8. g \in [S -> Commit] BY <1>3
<1>9. ~(\E i, j \in S : i # j /\ g[i] = g[j])
  <2> SUFFICES ASSUME NEW i \in S, NEW j \in S, g[i] = g[j] PROVE i = j
    OBVIOUS
  <2>1. made[log[s][i]] = made[log[s][j]] OBVIOUS
  <2>2. made[log[s][i]] = [session |-> s, revision |-> i] BY ONLY i \in S, <1>4
  <2>3. made[log[s][j]] = [session |-> s, revision |-> j] BY ONLY j \in S, <1>4
  <2>4. [session |-> s, revision |-> i] = [session |-> s, revision |-> j]
    BY ONLY <2>1, <2>2, <2>3
  <2> QED BY ONLY <2>4
<1> HIDE DEF S, g
<1> QED BY <1>2, <1>5, <1>6, <1>7, <1>8, <1>9, FS_PigeonHole

\* Two operations never work on one session.
LEMMA Exclusive ==
  ASSUME JournalAssumption, Inv, NEW a \in Actor, NEW b \in Actor, a # b, Works(a), Works(b)
  PROVE  sess[a] # sess[b]
<1>1. CASE Apart
  <2>1. Staged /\ HostOf[a] = HostOf[b] /\ May[a] \cap May[b] = {} BY <1>1 DEF Inv, Apart
  <2>2. pc[a] \notin Recs
    BY <2>1 DEF Staged, Works, Opens, Recs, Calls, Held
  <2>3. pc[b] \notin Recs
    BY <2>1 DEF Staged, Works, Opens, Recs, Calls, Held
  <2> QED BY <2>1, <2>2, <2>3 DEF Staged, Works
<1>2. CASE ~Apart
  <2>1. Queued BY <1>2 DEF Inv
  <2> QED BY <2>1 DEF Queued, Works, Opens
<1> QED BY <1>1, <1>2

-----------------------------------------------------------------------------
(* What a step leaves alone *)

\* One operation moves.
Moves(a) ==
  /\ \A b \in Actor \ {a} :
       pc'[b] = pc[b] /\ sess'[b] = sess[b] /\ com'[b] = com[b] /\ seen'[b] = seen[b]
  /\ \A b \in Actor \ {a} : todo'[b] = todo[b] /\ view'[b] = view[b]

\* No journal is touched.
Quiet ==
  /\ made' = made /\ log' = log
  /\ \A s \in Session : tail'[s] = tail[s] /\ (s \in bad' => s \in bad)

LEMMA QuietInOrder ==
  ASSUME InOrder, Quiet PROVE InOrder'
BY DEF InOrder, Readable, Quiet

LEMMA Unmoved ==
  ASSUME NEW b, Informed(b),
         pc'[b] = pc[b], sess'[b] = sess[b], com'[b] = com[b], seen'[b] = seen[b],
         com[b] \in Commit /\ made[com[b]] # NoCommit => made'[com[b]] = made[com[b]],
         Works(b) => log'[sess[b]] = log[sess[b]] /\ tail'[sess[b]] = tail[sess[b]],
         Len(log'[sess[b]]) \in Nat, Len(log[sess[b]]) \in Nat, Len(seen[b]) \in Nat,
         Len(log[sess[b]]) <= Len(log'[sess[b]])
  PROVE  Informed(b)'
<1>1. (pc[b] \in Calls \cup {"lock"} =>
       com[b] \in Commit /\ made[com[b]] # NoCommit /\ made[com[b]].session = sess[b])'
  BY DEF Informed
<1>2. (pc[b] \in Held \cup Recs => seen[b] = log[sess[b]])'
  BY DEF Informed, Works, Calls
<1>3. (pc[b] \in Done => Occurs(com[b], log[sess[b]]))'
  BY DEF Informed, Works, Calls, Held, Done, Occurs
<1>4. (pc[b] \in {"pend", "append", "appending"} =>
       made[com[b]].revision = Len(log[sess[b]]) + 1)'
  BY DEF Informed, Works, Calls, Held
<1>5. (pc[b] \in {"pend", "append"} => tail[sess[b]] = Clean)'
  BY DEF Informed, Works, Calls, Held
<1>6. (pc[b] = "appending" => tail[sess[b]] = b)'
  BY DEF Informed, Works, Calls, Held
<1>7. (pc[b] = "scan_write" => Len(seen[b]) <= Len(log[sess[b]]))'
  BY DEF Informed
<1> QED BY <1>1, <1>2, <1>3, <1>4, <1>5, <1>6, <1>7 DEF Informed

LEMMA Lengths ==
  ASSUME TypeOK
  PROVE  /\ \A s \in Session : Len(log[s]) \in Nat
         /\ \A a \in Actor : Len(seen[a]) \in Nat /\ sess[a] \in Session
BY DEF TypeOK

LEMMA QuietOthers ==
  ASSUME TypeOK, NEW a \in Actor, \A b \in Actor : Informed(b), Moves(a), Quiet
  PROVE  \A b \in Actor \ {a} : Informed(b)'
<1> SUFFICES ASSUME NEW b \in Actor \ {a} PROVE Informed(b)'
  OBVIOUS
<1>1. sess[b] \in Session /\ Len(seen[b]) \in Nat /\ Len(log[sess[b]]) \in Nat BY Lengths
<1>2. pc'[b] = pc[b] /\ sess'[b] = sess[b] /\ com'[b] = com[b] /\ seen'[b] = seen[b] BY DEF Moves
<1>3. made' = made /\ log' = log /\ tail'[sess[b]] = tail[sess[b]] BY <1>1 DEF Quiet
<1>4. Informed(b) OBVIOUS
<1> QED BY <1>1, <1>2, <1>3, <1>4, Unmoved

\* The step of an operation that neither starts nor ends it, as far as locks go.
LEMMA Onward ==
  ASSUME JournalAssumption, Inv, NEW a \in Actor, Moves(a), sess'[a] \in Session,
         up' = up, doomed' = doomed, pc[a] # "idle",
         pc'[a] \in Scrubs => pc[a] \in Scrubs,
         pc'[a] \in Opens => pc[a] \in Opens,
         pc'[a] \in Scans \cup Builds \cup Ends => pc[a] \in Starting \cup Scrubs,
         pc'[a] \in Calls \cup {"lock"} => pc[a] \in Calls \cup {"lock"} /\ sess'[a] = sess[a],
         ~Apart => /\ \A l \in Lock : lock'[l] # Orphan
                   /\ pc'[a] \in Calls => lock'[sess[a]] = a
                   /\ \A b \in Actor \ {a} : pc[b] \in Calls => lock'[sess[b]] = lock[sess[b]]
  PROVE  (Apart \/ Queued') /\ (Apart => Staged')
<1>1. ASSUME ~Apart PROVE Queued'
  <2>1. Queued BY <1>1 DEF Inv
  <2>2. doomed' = {} /\ \A l \in Lock : lock'[l] # Orphan BY <1>1, <2>1 DEF Queued
  <2>3. \A b \in Actor : up'[HostOf[b]] = "up" BY <2>1 DEF Queued
  <2>4. \A b \in Actor : pc'[b] \notin Opens BY <2>1 DEF Queued, Moves
  <2>5. \A b \in Actor \ {a} : pc'[b] \in Calls => lock'[sess'[b]] = b
    BY <1>1, <2>1 DEF Queued, Moves
  <2>6. pc'[a] \in Calls => lock'[sess'[a]] = a BY <1>1
  <2> QED BY <2>2, <2>3, <2>4, <2>5, <2>6 DEF Queued
<1>2. ASSUME Apart PROVE Staged'
  <2>1. Staged BY <1>2 DEF Inv
  <2>2. \A b \in Actor : pc'[b] \notin Scrubs BY <2>1 DEF Staged, Moves
  <2>3. \A b \in Actor : pc'[b] \in Calls \cup {"lock"} => sess'[b] \in May[b]
    BY <2>1 DEF Staged, Moves
  <2>4. \A b \in Actor : HostOf[b] = HostOf[a] BY <1>2 DEF Apart
  <2>5. up[HostOf[a]] # "down" BY <2>1 DEF Staged
  <2>6. \A b \in Actor : up'[HostOf[b]] = "down" => pc'[b] = "idle" BY <2>4, <2>5
  <2>7. \A b \in Actor : pc'[b] \in Starting => up'[HostOf[b]] = "starting"
    BY <2>1 DEF Staged, Moves, Starting
  <2>8. up[HostOf[a]] = "starting" => \A b \in Actor \ {a} : pc'[b] = "idle"
    BY <2>1 DEF Staged, Moves
  <2>9. \A b \in Actor : up'[HostOf[b]] = "starting" =>
          \A d \in Actor \ {b} : pc'[b] = "idle" \/ pc'[d] = "idle"
    BY <2>4, <2>8
  <2> QED BY <2>2, <2>3, <2>6, <2>7, <2>9 DEF Staged, Starting
<1> QED BY <1>1, <1>2

\* What is left to show of a step that touches no journal.
LEMMA QuietStep ==
  ASSUME Inv, NEW a \in Actor, Moves(a), Quiet, TypeOK', pc' \in [Actor -> Label], Behind',
         (Apart \/ Queued') /\ (Apart => Staged'), Informed(a)'
  PROVE  Inv'
<1>1. InOrder' BY QuietInOrder DEF Inv
<1>2. \A b \in Actor \ {a} : Informed(b)' BY QuietOthers DEF Inv
<1> QED BY <1>1, <1>2 DEF Inv

LEMMA Uncached ==
  ASSUME Behind, log' = log, proj' = proj, base' = base, overlay' = overlay, mark' = mark,
         view' = view
  PROVE  Behind'
BY DEF Behind

LEMMA Sorted ==
  ASSUME NEW a \in Actor, pc \in [Actor -> Label], NEW label \in Label, Goto(a, label)
  PROVE  /\ pc' \in [Actor -> Label] /\ pc'[a] = label
         /\ \A b \in Actor \ {a} : pc'[b] = pc[b]
BY DEF Goto

-----------------------------------------------------------------------------
(* Locks *)

LEMMA AcquireKeeps ==
  ASSUME JournalAssumption, Inv, NEW a \in Actor, NEW l \in Lock, NEW label,
         Acquire(a, l, label),
         <<pc[a], label>> \in {<<"lock", "read">>, <<"catalog", "delta">>,
            <<"open_lock", "open">>, <<"scrub_lock", "scrub">>, <<"list_lock", "list">>},
         pc[a] = "lock" => l = sess[a]
  PROVE  Inv'
<1> USE DEF Label, Calls, Held
<1>0. TypeOK /\ pc \in [Actor -> Label] /\ Behind /\ Informed(a) /\ sess[a] \in Session
  BY Lengths DEF Inv
<1>1. /\ UNCHANGED <<logVars, disk, memory, up, doomed, faults>>
      /\ lock[l] = Free /\ lock' = [lock EXCEPT ![l] = a] /\ Goto(a, label)
  BY DEF Acquire
<1>2. label \in Label BY DEF Opens, Scrubs, Lists
<1>3. /\ pc' \in [Actor -> Label] /\ pc'[a] = label /\ \A b \in Actor \ {a} : pc'[b] = pc[b]
  BY <1>0, <1>1, <1>2, Sorted
<1>4. TypeOK' BY <1>0, <1>1 DEF TypeOK, logVars, disk, memory
<1>5. Behind' BY <1>0, <1>1, Uncached DEF logVars, disk, memory
<1>6. Moves(a) BY <1>1, <1>3 DEF Moves, memory
<1>7. Quiet BY <1>1 DEF Quiet, logVars, disk
<1>8. Informed(a)'
  BY <1>0, <1>1, <1>3 DEF Informed, logVars, disk, memory, Done, Recs
<1>9. (Apart \/ Queued') /\ (Apart => Staged')
  <2>1. up' = up /\ doomed' = doomed /\ sess' = sess BY <1>1 DEF memory
  <2>2. lock \in [Lock -> Actor \cup {Free, Orphan}] BY <1>0 DEF TypeOK
  <2>3. ASSUME ~Apart
        PROVE  /\ \A k \in Lock : lock'[k] # Orphan
               /\ pc'[a] \in Calls => lock'[sess[a]] = a
               /\ \A b \in Actor \ {a} : pc[b] \in Calls => lock'[sess[b]] = lock[sess[b]]
    <3>1. Queued BY <2>3 DEF Inv
    <3>2. \A k \in Lock : lock'[k] # Orphan BY <1>1, <2>2, <3>1, Names DEF Queued
    <3>3. \A b \in Actor : pc[b] \in Calls => sess[b] \in Session /\ lock[sess[b]] = b
      BY <1>0, <3>1, Lengths DEF Queued
    <3>4. \A b \in Actor : pc[b] \in Calls => sess[b] # l
      BY <3>3, <1>1, Names
    <3>5. \A b \in Actor : pc[b] \in Calls => lock'[sess[b]] = lock[sess[b]]
      BY <1>1, <2>2, <3>4
    <3>6. pc'[a] \in Calls => lock'[sess[a]] = a
      <4>1. CASE pc[a] = "lock" BY <4>1, <1>1, <2>2
      <4>2. CASE pc[a] = "catalog" BY <4>2, <3>3, <3>5
      <4>3. CASE pc[a] \notin {"lock", "catalog"} BY <4>3, <1>3
      <4> QED BY <4>1, <4>2, <4>3
    <3> QED BY <3>2, <3>5, <3>6
  <2>4. /\ pc[a] # "idle" /\ sess'[a] = sess[a]
        /\ pc'[a] \in Scrubs => pc[a] \in Scrubs
        /\ pc'[a] \in Opens => pc[a] \in Opens
        /\ pc'[a] \in Scans \cup Builds \cup Ends => pc[a] \in Starting \cup Scrubs
        /\ pc'[a] \in Calls \cup {"lock"} => pc[a] \in Calls \cup {"lock"}
    BY <1>3, <2>1 DEF Scrubs, Opens, Scans, Builds, Ends, Starting, Recs
  <2> QED BY <1>0, <1>6, <2>1, <2>3, <2>4, Onward
<1> QED BY <1>3, <1>4, <1>5, <1>6, <1>7, <1>8, <1>9, QuietStep

\* A stale lock file is another process's: only one that is alone meets it.
LEMMA StaleKeeps ==
  ASSUME JournalAssumption, Inv, NEW a \in Actor, SeeStale(a) \/ UnlinkStale(a)
  PROVE  Inv'
<1>0. TypeOK /\ pc \in [Actor -> Label] /\ Behind /\ Informed(a) /\ sess[a] \in Session
  BY Lengths DEF Inv
<1>1. UNCHANGED <<logVars, disk, memory, up, pc, faults>> BY DEF SeeStale, UnlinkStale
<1>2. TypeOK' 
  BY <1>0, <1>1 DEF TypeOK, logVars, disk, memory, SeeStale, UnlinkStale
<1>3. Behind' BY <1>0, <1>1, Uncached DEF logVars, disk, memory
<1>4. Moves(a) BY <1>1 DEF Moves, memory
<1>5. Quiet BY <1>1 DEF Quiet, logVars, disk
<1>6. Informed(a)' BY <1>0, <1>1 DEF Informed, logVars, disk, memory
<1>7. Wanted(a) \in Lock BY <1>0, Names DEF Wanted
<1>8. Apart BY <1>7 DEF Inv, Queued, SeeStale, UnlinkStale
<1>9. Staged' BY <1>1, <1>8 DEF Inv, Staged, memory
<1> QED BY <1>0, <1>1, <1>2, <1>3, <1>4, <1>5, <1>6, <1>8, <1>9, QuietStep

LEMMA GiveUpKeeps ==
  ASSUME JournalAssumption, Inv, NEW a \in Actor, GiveUp(a)
  PROVE  Inv'
<1> USE DEF Label, Calls, Held
<1> DEFINE label == IF pc[a] = "catalog" THEN "abort" ELSE "idle"
<1>0. TypeOK /\ pc \in [Actor -> Label] /\ Behind /\ Informed(a) /\ sess[a] \in Session
  BY Lengths DEF Inv
<1>1. /\ UNCHANGED <<logVars, disk, memory, lock, doomed, faults>> /\ Goto(a, label)
      /\ up' = IF pc[a] = "open_lock" THEN [up EXCEPT ![HostOf[a]] = "down"] ELSE up
  BY DEF GiveUp
<1>2. label \in Label OBVIOUS
<1>3. /\ pc' \in [Actor -> Label] /\ pc'[a] = label /\ \A b \in Actor \ {a} : pc'[b] = pc[b]
  BY <1>0, <1>1, <1>2, Sorted
<1>4. TypeOK' BY <1>0, <1>1 DEF TypeOK, logVars, disk, memory
<1>5. Behind' BY <1>0, <1>1, Uncached DEF logVars, disk, memory
<1>6. Moves(a) BY <1>1, <1>3 DEF Moves, memory
<1>7. Quiet BY <1>1 DEF Quiet, logVars, disk
<1>8. Informed(a)'
  BY <1>0, <1>1, <1>3 DEF Informed, logVars, disk, memory, Done, Recs
<1>9. (Apart \/ Queued') /\ (Apart => Staged')
  <2>0. HostOf \in [Actor -> Host] /\ up \in [Host -> {"down", "starting", "up"}]
    BY <1>0 DEF JournalAssumption, TypeOK
  <2>1. ASSUME ~Apart PROVE Queued'
    <3>1. Queued BY <2>1 DEF Inv
    <3>2. pc[a] # "open_lock" BY <3>1 DEF Queued, Opens
    <3>3. up' = up /\ doomed' = doomed /\ sess' = sess /\ lock' = lock
      BY <1>1, <3>2 DEF memory
    <3>4. pc'[a] \notin Opens /\ (pc'[a] \in Calls => pc[a] \in Calls)
      BY <1>3 DEF Opens, Recs
    <3> QED BY <1>3, <3>1, <3>3, <3>4 DEF Queued
  <2>2. ASSUME Apart, pc[a] = "open_lock" PROVE Staged'
    <3>1. Staged /\ \A b \in Actor : HostOf[b] = HostOf[a] BY <2>2 DEF Inv, Apart
    <3>2. up[HostOf[a]] = "starting" BY <2>2, <3>1 DEF Staged, Opens
    <3>3. pc'[a] = "idle" BY <2>2, <1>3
    <3>4. \A b \in Actor \ {a} : pc[b] = "idle" BY <2>2, <3>1, <3>2 DEF Staged
    <3>5. \A b \in Actor : pc'[b] = "idle" BY <1>3, <3>3, <3>4
    <3>6. \A b \in Actor : up'[HostOf[b]] = "down" BY <1>1, <2>0, <2>2, <3>1
    <3> QED BY <3>5, <3>6 DEF Staged, Opens, Recs, Scans, Builds, Ends, Scrubs
  <2>3. ASSUME Apart, pc[a] # "open_lock" PROVE Staged'
    <3>1. Staged BY <2>3 DEF Inv
    <3>2. up' = up /\ sess' = sess BY <1>1, <2>3 DEF memory
    <3>3. pc'[a] = "idle" \/ (pc'[a] = "abort" /\ pc[a] = "catalog") BY <1>3
    <3>4. \A b \in Actor : pc'[b] \notin Scrubs
      BY <1>3, <3>1, <3>3 DEF Staged, Scrubs
    <3>5. \A b \in Actor : pc'[b] \in Calls \cup {"lock"} => sess[b] \in May[b]
      BY <1>3, <3>1, <3>3 DEF Staged
    <3>6. \A b \in Actor : pc[b] = "idle" => pc'[b] = "idle" BY <1>3, <3>3
    <3>7. \A b \in Actor : pc'[b] \in Starting => up[HostOf[b]] = "starting"
      BY <1>3, <3>1, <3>3 DEF Staged, Starting, Opens, Recs, Scans, Builds, Ends
    <3> QED BY <3>1, <3>2, <3>4, <3>5, <3>6, <3>7 DEF Staged, Starting
  <2> QED BY <2>1, <2>2, <2>3
<1> HIDE DEF label
<1> QED BY <1>3, <1>4, <1>5, <1>6, <1>7, <1>8, <1>9, QuietStep

-----------------------------------------------------------------------------
(* appendCommit *)

LEMMA BeginKeeps ==
  ASSUME JournalAssumption, Inv, NEW a \in Actor, NEW s \in Session, NEW c \in Commit,
         Begin(a, s, c)
  PROVE  Inv' /\ (UNCHANGED logVars \/ Make(c, s, proj[s] + 1))
         /\ proj[s] + 1 \in 1 .. Len(log[s]) + 1
<1> USE DEF Label, Calls, Held
<1>0. TypeOK /\ pc \in [Actor -> Label] /\ Behind /\ Informed(a) /\ InOrder BY DEF Inv
<1>1. /\ UNCHANGED <<disk, seen, fresh, todo, view, lock, up, doomed, faults>>
      /\ up[HostOf[a]] = "up" /\ pc[a] = "idle" /\ s \in May[a]
      /\ sess' = [sess EXCEPT ![a] = s] /\ com' = [com EXCEPT ![a] = c] /\ Goto(a, "lock")
  BY DEF Begin
<1>2. /\ pc' \in [Actor -> Label] /\ pc'[a] = "lock" /\ \A b \in Actor \ {a} : pc'[b] = pc[b]
  BY <1>0, <1>1, Sorted
<1>3. log' = log /\ acked' = acked BY DEF Begin, Make, logVars
<1>4. /\ made' \in [Commit -> Proposal \cup {NoCommit}]
      /\ made'[c] # NoCommit /\ made'[c].session = s
      /\ \A d \in Commit : made[d] # NoCommit => made'[d] = made[d]
  <2>1. made \in [Commit -> Proposal \cup {NoCommit}] /\ proj[s] \in Nat
    <3>1. Cardinality(Commit) \in Nat BY FS_CardinalityType DEF JournalAssumption
    <3> QED BY <1>0, <3>1 DEF TypeOK, Revision
  <2>2. CASE Make(c, s, proj[s] + 1)
    <3> DEFINE new == [session |-> s, revision |-> proj[s] + 1]
    <3>1. made[c] = NoCommit /\ made' = [made EXCEPT ![c] = new] BY <2>2 DEF Make
    <3>2. new \in Proposal /\ new.session = s BY <2>1 DEF Proposal
    <3>3. new # NoCommit BY <3>2, Names
    <3> HIDE DEF new
    <3> QED BY <2>1, <3>1, <3>2, <3>3
  <2>3. CASE made[c] # NoCommit /\ made[c].session = s /\ UNCHANGED logVars
    BY <2>1, <2>3 DEF logVars
  <2> QED BY <2>2, <2>3 DEF Begin
<1>5. TypeOK' 
  BY <1>0, <1>1, <1>3, <1>4 DEF TypeOK, disk
<1>6. Behind' BY <1>0, <1>1, <1>3, Uncached DEF disk
<1>7. sess' \in [Actor -> Session] /\ \A b \in Actor \ {a} : sess'[b] = sess[b] /\ com'[b] = com[b]
  BY <1>0, <1>1 DEF TypeOK
<1>8. Moves(a) BY <1>1, <1>2, <1>7 DEF Moves
<1>9. sess'[a] = s /\ com'[a] = c BY <1>0, <1>1 DEF TypeOK
<1>10. InOrder'
  <2>1. ASSUME NEW t \in Session PROVE t \notin bad'
    BY <1>0, <1>1 DEF InOrder, Readable, disk
  <2>2. ASSUME NEW t \in Session, NEW i \in 1 .. Len(log'[t])
        PROVE  made'[log'[t][i]] = [session |-> t, revision |-> i]
    <3>1. made[log[t][i]] = [session |-> t, revision |-> i]
      BY <1>0, <1>3 DEF InOrder, Readable
    <3>2. log[t][i] \in Commit /\ i \in Nat BY <1>0, <1>3 DEF TypeOK
    <3>3. [session |-> t, revision |-> i] \in Proposal BY <3>2 DEF Proposal
    <3>4. made[log[t][i]] # NoCommit BY <3>1, <3>3, Names
    <3> QED BY <1>3, <1>4, <3>1, <3>2, <3>4
  <2> QED BY <2>1, <2>2 DEF InOrder, Readable
<1>11. \A b \in Actor : Informed(b)'
  <2> SUFFICES ASSUME NEW b \in Actor PROVE Informed(b)'
    OBVIOUS
  <2>1. CASE b = a
    BY <1>2, <1>4, <1>9, <2>1 DEF Informed, Done, Recs
  <2>2. CASE b # a
    <3>1. sess[b] \in Session /\ Len(seen[b]) \in Nat /\ Len(log[sess[b]]) \in Nat
      BY <1>0, Lengths
    <3>2. pc'[b] = pc[b] /\ sess'[b] = sess[b] /\ com'[b] = com[b] /\ seen'[b] = seen[b]
      BY <1>8, <2>2 DEF Moves
    <3>3. tail' = tail BY <1>1 DEF disk
    <3>4. Informed(b) BY DEF Inv
    <3> QED BY <1>3, <1>4, <3>1, <3>2, <3>3, <3>4, Unmoved
  <2> QED BY <2>1, <2>2
<1>12. (Apart \/ Queued') /\ (Apart => Staged')
  <2>1. ASSUME ~Apart PROVE Queued'
    <3>1. Queued BY <2>1 DEF Inv
    <3>2. \A b \in Actor : pc'[b] \notin Opens BY <1>2, <3>1 DEF Queued, Opens, Recs
    <3>3. \A b \in Actor : pc'[b] \in Calls => lock[sess'[b]] = b
      BY <1>2, <1>7, <3>1 DEF Queued
    <3> QED BY <1>1, <3>1, <3>2, <3>3 DEF Queued
  <2>2. ASSUME Apart PROVE Staged'
    <3>1. Staged /\ \A b \in Actor : HostOf[b] = HostOf[a] BY <2>2 DEF Inv, Apart
    <3>2. up' = up /\ \A b \in Actor : up[HostOf[b]] = "up" BY <1>1, <3>1
    <3>3. \A b \in Actor : pc'[b] \notin Scrubs BY <1>2, <3>1 DEF Staged, Scrubs
    <3>4. \A b \in Actor : pc'[b] \in Calls \cup {"lock"} => sess'[b] \in May[b]
      BY <1>1, <1>2, <1>7, <1>9, <3>1 DEF Staged
    <3>5. \A b \in Actor : pc'[b] \notin Starting
      BY <1>2, <3>1, <3>2 DEF Staged, Starting, Opens, Recs, Scans, Builds, Ends
    <3> QED BY <3>2, <3>3, <3>4, <3>5 DEF Staged, Starting
  <2> QED BY <2>1, <2>2
<1>13. UNCHANGED logVars \/ Make(c, s, proj[s] + 1) BY DEF Begin
<1>14. proj[s] + 1 \in 1 .. Len(log[s]) + 1
  <2>1. Len(log[s]) \in Nat /\ Cardinality(Commit) \in Nat BY <1>0, LogBounded
  <2>2. proj[s] \in Nat BY <1>0, <2>1 DEF TypeOK, Revision
  <2> QED BY <1>0, <2>1, <2>2 DEF Behind
<1> QED BY <1>2, <1>5, <1>6, <1>10, <1>11, <1>12, <1>13, <1>14 DEF Inv

LEMMA ReadJournalKeeps ==
  ASSUME JournalAssumption, Inv, NEW a \in Actor, ReadJournal(a)
  PROVE  Inv'
<1> USE DEF Label, Calls, Held
<1> DEFINE s == sess[a]
           next == IF tail[s] # Clean THEN "repair" ELSE Decision(com[a], log[s])
<1>0. TypeOK /\ pc \in [Actor -> Label] /\ Behind /\ Informed(a) /\ s \in Session /\ InOrder
  BY Lengths DEF Inv
<1>1. /\ UNCHANGED <<logVars, disk, sess, com, todo, view, lock, up, doomed, faults>>
      /\ pc[a] = "read" /\ seen' = [seen EXCEPT ![a] = log[s]] /\ Goto(a, next)
      /\ fresh' = [fresh EXCEPT ![a] = Decision(com[a], log[s]) = "pend"]
  BY <1>0 DEF ReadJournal, InOrder
<1>2. /\ next \in {"repair", "project", "abort", "pend"}
      /\ next = "project" => Occurs(com[a], log[s])
      /\ next = "pend" => made[com[a]].revision = Len(log[s]) + 1
      /\ next = "pend" => tail[s] = Clean
  BY Decided
<1> HIDE DEF next
<1>3. /\ pc' \in [Actor -> Label] /\ pc'[a] = next /\ \A b \in Actor \ {a} : pc'[b] = pc[b]
  BY <1>0, <1>1, <1>2, Sorted
<1>4. seen' \in [Actor -> Seq(Commit)] /\ seen'[a] = log[s]
      /\ \A b \in Actor \ {a} : seen'[b] = seen[b]
  BY <1>0, <1>1 DEF TypeOK
<1>5. TypeOK' BY <1>0, <1>1, <1>4 DEF TypeOK, logVars, disk
<1>6. Behind' BY <1>0, <1>1, Uncached DEF logVars, disk
<1>7. Moves(a) BY <1>1, <1>3, <1>4 DEF Moves
<1>8. Quiet BY <1>1 DEF Quiet, logVars, disk
<1>9. Informed(a)'
  BY <1>0, <1>1, <1>2, <1>3, <1>4 DEF Informed, logVars, disk, Done, Recs
<1>10. (Apart \/ Queued') /\ (Apart => Staged')
  <2>1. pc'[a] \in Calls /\ pc[a] \in Calls /\ pc[a] # "idle" BY <1>1, <1>2, <1>3
  <2>2. pc'[a] \notin Starting \cup Scrubs
    BY <1>2, <1>3 DEF Starting, Scrubs, Opens, Recs, Scans, Builds, Ends
  <2>3. ~Apart => Queued BY DEF Inv
  <2> QED BY <1>0, <1>1, <1>7, <2>1, <2>2, <2>3, Onward DEF Starting, Queued
<1> QED BY <1>3, <1>5, <1>6, <1>7, <1>8, <1>9, <1>10, QuietStep

\* The other operations work on other sessions.
LEMMA OthersInformed ==
  ASSUME JournalAssumption, Inv, NEW a \in Actor, Moves(a), Works(a), made' = made,
         \A s \in Session \ {sess[a]} : log'[s] = log[s] /\ tail'[s] = tail[s],
         Len(log'[sess[a]]) \in Nat, Len(log[sess[a]]) <= Len(log'[sess[a]])
  PROVE  \A b \in Actor \ {a} : Informed(b)'
<1> SUFFICES ASSUME NEW b \in Actor \ {a} PROVE Informed(b)'
  OBVIOUS
<1>1. /\ sess[b] \in Session /\ Len(seen[b]) \in Nat
      /\ Len(log[sess[b]]) \in Nat /\ Len(log[sess[a]]) \in Nat
  BY Lengths DEF Inv
<1>2. pc'[b] = pc[b] /\ sess'[b] = sess[b] /\ com'[b] = com[b] /\ seen'[b] = seen[b] BY DEF Moves
<1>3. Works(b) => sess[b] # sess[a] BY Exclusive
<1>4. Works(b) => log'[sess[b]] = log[sess[b]] /\ tail'[sess[b]] = tail[sess[b]]
  BY <1>1, <1>3
<1>5. Len(log'[sess[b]]) \in Nat /\ Len(log[sess[b]]) <= Len(log'[sess[b]])
  BY <1>1
<1>6. Informed(b) BY DEF Inv
<1> QED BY <1>1, <1>2, <1>4, <1>5, <1>6, Unmoved

\* The step of an operation that keeps its session and changes no lock.
LEMMA OnwardUnlocked ==
  ASSUME JournalAssumption, Inv, NEW a \in Actor, Moves(a),
         up' = up, doomed' = doomed, lock' = lock, sess'[a] = sess[a], pc[a] # "idle",
         pc'[a] \in Scrubs => pc[a] \in Scrubs,
         pc'[a] \in Opens => pc[a] \in Opens,
         pc'[a] \in Scans \cup Builds \cup Ends => pc[a] \in Starting \cup Scrubs,
         pc'[a] \in Calls => pc[a] \in Calls, pc'[a] # "lock"
  PROVE  (Apart \/ Queued') /\ (Apart => Staged')
<1>1. sess[a] \in Session BY Lengths DEF Inv
<1>2. ~Apart => Queued BY DEF Inv
<1> QED BY <1>1, <1>2, Onward DEF Queued

LEMMA RepairTailKeeps ==
  ASSUME JournalAssumption, Inv, NEW a \in Actor, RepairTail(a)
  PROVE  Inv' /\ UNCHANGED logVars
<1> USE DEF Label, Calls, Held
<1> DEFINE s == sess[a]
           next == IF pc[a] = "repair" THEN Decision(com[a], seen[a])
                   ELSE IF seen[a] = <<>> THEN "rec_unlink" ELSE Then[pc[a]]
<1>0. /\ TypeOK /\ pc \in [Actor -> Label] /\ Behind /\ Informed(a) /\ s \in Session /\ InOrder
      /\ Len(log[s]) \in Nat
  BY Lengths DEF Inv
<1>1. /\ pc[a] \in {"repair", "rec_repair"} /\ Truncate(s, seen[a]) /\ Goto(a, next)
      /\ UNCHANGED <<memory, lock, up, doomed, faults>>
  BY DEF RepairTail
<1>2. seen[a] = log[s] BY <1>0, <1>1 DEF Informed, Recs
<1>3. log' = log
  <2>1. log \in [Session -> Seq(Commit)] BY <1>0 DEF TypeOK
  <2>2. SubSeq(log[s], 1, Len(log[s])) = log[s] BY <1>0, <2>1
  <2>3. log' = [log EXCEPT ![s] = SubSeq(log[s], 1, Len(log[s]))]
    BY <1>1, <1>2 DEF Truncate
  <2> QED BY <2>1, <2>2, <2>3
<1>4. tail' = [tail EXCEPT ![s] = Clean]
  <2>1. ~(Len(log[s]) < Len(seen[a])) BY <1>0, <1>2
  <2> QED BY <1>1, <2>1 DEF Truncate
<1>5. bad' = bad \ {s} /\ UNCHANGED <<made, acked, proj, base, mark, overlay, pending>>
  BY <1>1 DEF Truncate
<1>6. /\ next \in {"project", "abort", "pend", "rec_unlink", "rec_project"}
      /\ pc[a] = "repair" <=> next \in {"project", "abort", "pend"}
      /\ next = "project" => Occurs(com[a], log[s])
      /\ next = "pend" => made[com[a]].revision = Len(log[s]) + 1
  BY <1>1, <1>2, Decided, Following
<1> HIDE DEF next
<1>7. /\ pc' \in [Actor -> Label] /\ pc'[a] = next /\ \A b \in Actor \ {a} : pc'[b] = pc[b]
  <2>1. next \in Label BY <1>6 DEF Opens, Recs
  <2> QED BY <1>0, <1>1, <2>1, Sorted
<1>8. tail \in [File -> Actor \cup {Clean, Orphan}] BY <1>0 DEF TypeOK
<1>9. tail' \in [File -> Actor \cup {Clean, Orphan}] /\ tail'[s] = Clean
      /\ \A t \in Session \ {s} : tail'[t] = tail[t]
  BY <1>0, <1>4, <1>8, Names
<1>10. TypeOK' BY <1>0, <1>1, <1>3, <1>5, <1>9 DEF TypeOK, memory
<1>11. Behind' BY <1>0, <1>1, <1>3, <1>5, Uncached DEF memory
<1>12. Moves(a) BY <1>1, <1>7 DEF Moves, memory
<1>13. InOrder' BY <1>0, <1>3, <1>5 DEF InOrder, Readable
<1>14. Informed(a)'
  BY <1>0, <1>1, <1>2, <1>3, <1>5, <1>6, <1>7, <1>9 DEF Informed, memory, Done, Recs
<1>15. \A b \in Actor \ {a} : Informed(b)'
  <2>1. Works(a) BY <1>1 DEF Works, Recs
  <2> QED BY <1>0, <1>3, <1>5, <1>9, <1>12, <2>1, OthersInformed
<1>16. (Apart \/ Queued') /\ (Apart => Staged')
  <2>1. pc[a] # "idle" /\ pc'[a] # "lock" /\ sess' = sess BY <1>1, <1>6, <1>7 DEF memory
  <2>2. pc'[a] \in Calls => pc[a] \in Calls BY <1>6, <1>7 DEF Recs
  <2>3. pc'[a] \in Opens => pc[a] \in Opens BY <1>1, <1>6, <1>7 DEF Opens, Recs
  <2>4. pc'[a] \notin Scrubs \cup Scans \cup Builds \cup Ends
    BY <1>6, <1>7 DEF Scrubs, Scans, Builds, Ends
  <2> QED BY <1>1, <1>12, <2>1, <2>2, <2>3, <2>4, OnwardUnlocked
<1> QED BY <1>3, <1>5, <1>7, <1>10, <1>11, <1>13, <1>14, <1>15, <1>16 DEF Inv, logVars

\* The marker, and its removal, touch nothing an operation relies on.
LEMMA MarkersKeep ==
  ASSUME JournalAssumption, Inv, NEW a \in Actor,
         MarkPending(a) \/ ClearPending(a) \/ RecoverUnlink(a) \/ ClearAllPending(a)
  PROVE  Inv'
<1> USE DEF Label, Calls, Held
<1>0. TypeOK /\ pc \in [Actor -> Label] /\ Behind /\ Informed(a) /\ sess[a] \in Session
  BY Lengths DEF Inv
<1>1. /\ UNCHANGED <<logVars, tail, bad, proj, base, mark, overlay, sess, com, seen, fresh, view,
                     lock, up, doomed, faults>>
      /\ \A b \in Actor \ {a} : todo'[b] = todo[b]
  BY <1>0 DEF MarkPending, ClearPending, RecoverUnlink, ClearAllPending, memory, TypeOK
<1>2. PICK label \in {"append", "receipt", "recover", "abort_open", "opened"} :
        /\ Goto(a, label)
        /\ <<pc[a], label>> \in {<<"pend", "append">>, <<"clear", "receipt">>,
             <<"rec_unlink", "recover">>, <<"rec_unlink", "abort_open">>, <<"unpend", "opened">>}
        /\ label = "receipt" => pc[a] = "clear"
  BY Following DEF MarkPending, ClearPending, RecoverUnlink, ClearAllPending
<1>3. /\ pc' \in [Actor -> Label] /\ pc'[a] = label /\ \A b \in Actor \ {a} : pc'[b] = pc[b]
  <2>1. label \in Label BY <1>2 DEF Opens, Ends
  <2> QED BY <1>0, <1>2, <2>1, Sorted
<1>4. TypeOK'
  <2>1. pending' \subseteq Session
    BY <1>0 DEF MarkPending, ClearPending, RecoverUnlink, ClearAllPending, TypeOK
  <2>2. todo' \in [Actor -> SUBSET Session]
    <3>1. todo \in [Actor -> SUBSET Session] BY <1>0 DEF TypeOK
    <3>2. todo' = todo \/ todo' = [todo EXCEPT ![a] = todo[a] \ {sess[a]}]
      BY DEF MarkPending, ClearPending, RecoverUnlink, ClearAllPending, memory
    <3> QED BY <3>1, <3>2
  <2> QED BY <1>0, <1>1, <2>1, <2>2 DEF TypeOK, logVars
<1>5. Behind' BY <1>0, <1>1, Uncached DEF logVars
<1>6. Moves(a) BY <1>1, <1>3 DEF Moves
<1>7. Quiet BY <1>1 DEF Quiet, logVars
<1>8. Informed(a)' BY <1>0, <1>1, <1>2, <1>3 DEF Informed, logVars, Done, Recs
<1>9. (Apart \/ Queued') /\ (Apart => Staged')
  <2>1. /\ pc[a] # "idle" /\ pc'[a] # "lock" /\ sess' = sess
        /\ pc'[a] \notin Scrubs \cup Scans \cup Builds
    BY <1>1, <1>2, <1>3 DEF Scrubs, Scans, Builds
  <2>2. pc'[a] \in Calls => pc[a] \in Calls BY <1>2, <1>3
  <2>3. pc'[a] \in Opens => pc[a] \in Opens BY <1>2, <1>3 DEF Opens, Recs
  <2>4. pc'[a] \in Ends => pc[a] \in Starting
    BY <1>2, <1>3 DEF Ends, Starting, Opens, Recs, Builds
  <2> QED BY <1>1, <1>6, <2>1, <2>2, <2>3, <2>4, OnwardUnlocked
<1> QED BY <1>3, <1>4, <1>5, <1>6, <1>7, <1>8, <1>9, QuietStep

LEMMA AppendRecordKeeps ==
  ASSUME JournalAssumption, Inv, NEW a \in Actor, AppendRecord(a)
  PROVE  Inv'
<1> USE DEF Label, Calls, Held
<1> DEFINE s == sess[a]
<1>0. /\ TypeOK /\ pc \in [Actor -> Label] /\ Behind /\ Informed(a) /\ s \in Session /\ InOrder
      /\ Len(log[s]) \in Nat
  BY Lengths DEF Inv
<1>1. /\ UNCHANGED <<logVars, bad, proj, base, mark, overlay, pending, memory, lock, up, doomed,
                     faults>>
      /\ pc[a] = "append" /\ Goto(a, "appending") /\ BeginLine(a, s)
  BY Following DEF AppendRecord
<1>2. tail[s] = Clean BY <1>0, <1>1 DEF Informed
<1>3. tail' = [tail EXCEPT ![s] = a] BY <1>1, <1>2 DEF BeginLine
<1>4. tail \in [File -> Actor \cup {Clean, Orphan}] BY <1>0 DEF TypeOK
<1>5. tail' \in [File -> Actor \cup {Clean, Orphan}] /\ tail'[s] = a
      /\ \A t \in Session \ {s} : tail'[t] = tail[t]
  BY <1>0, <1>3, <1>4, Names
<1>6. /\ pc' \in [Actor -> Label] /\ pc'[a] = "appending" /\ \A b \in Actor \ {a} : pc'[b] = pc[b]
  BY <1>0, <1>1, Sorted
<1>7. TypeOK' BY <1>0, <1>1, <1>5 DEF TypeOK, memory, logVars
<1>8. Behind' BY <1>0, <1>1, Uncached DEF memory, logVars
<1>9. Moves(a) BY <1>1, <1>6 DEF Moves, memory
<1>10. InOrder' BY <1>0, <1>1 DEF InOrder, Readable, logVars
<1>11. Informed(a)' BY <1>0, <1>1, <1>5, <1>6 DEF Informed, memory, logVars, Done, Recs
<1>12. \A b \in Actor \ {a} : Informed(b)'
  <2>1. Works(a) /\ made' = made /\ log' = log BY <1>1 DEF Works, logVars
  <2> QED BY <1>0, <1>5, <1>9, <2>1, OthersInformed
<1>13. (Apart \/ Queued') /\ (Apart => Staged')
  <2>1. pc[a] # "idle" /\ pc'[a] # "lock" /\ sess' = sess BY <1>1, <1>6 DEF memory
  <2>2. pc'[a] \in Calls /\ pc[a] \in Calls BY <1>1, <1>6
  <2>3. pc'[a] \notin Opens \cup Scrubs \cup Scans \cup Builds \cup Ends
    BY <1>6 DEF Opens, Recs, Scrubs, Scans, Builds, Ends
  <2> QED BY <1>1, <1>9, <2>1, <2>2, <2>3, OnwardUnlocked
<1> QED BY <1>6, <1>7, <1>8, <1>10, <1>11, <1>12, <1>13 DEF Inv

LEMMA AppendSyncedKeeps ==
  ASSUME JournalAssumption, Inv, NEW a \in Actor, AppendSynced(a)
  PROVE  Inv' /\ com[a] \in Commit /\ sess[a] \in Session /\ Extend(com[a], sess[a])
<1> USE DEF Label, Calls, Held
<1> DEFINE s == sess[a]
           c == com[a]
           n == Len(log[s])
<1>0. /\ TypeOK /\ pc \in [Actor -> Label] /\ Behind /\ Informed(a) /\ s \in Session /\ InOrder
      /\ n \in Nat /\ log \in [Session -> Seq(Commit)] /\ seen \in [Actor -> Seq(Commit)]
  BY Lengths DEF Inv, TypeOK
<1>1. /\ UNCHANGED <<made, acked, proj, base, mark, overlay, pending, sess, com, fresh, todo, view,
                     lock, up, doomed, faults>>
      /\ pc[a] = "appending" /\ Goto(a, "project") /\ EndLine(a, s)
      /\ log' = IF tail[s] = a THEN [log EXCEPT ![s] = Append(log[s], com[a])] ELSE log
      /\ seen' = [seen EXCEPT ![a] = Append(seen[a], c)]
  BY Following DEF AppendSynced
<1>2. /\ tail[s] = a /\ seen[a] = log[s] /\ c \in Commit
      /\ made[c] # NoCommit /\ made[c].session = s /\ made[c].revision = n + 1
  BY <1>0, <1>1 DEF Informed
<1>3. made[c] = [session |-> s, revision |-> n + 1]
  <2>1. made[c] \in Proposal BY <1>0, <1>2 DEF TypeOK
  <2> QED BY <1>2, <2>1 DEF Proposal
<1>4. log' = [log EXCEPT ![s] = Append(log[s], c)] BY <1>1, <1>2
<1>5. Extend(c, s) BY <1>1, <1>3, <1>4 DEF Extend
<1>6. tail' = [tail EXCEPT ![s] = Clean] /\ bad' = bad BY <1>1, <1>2 DEF EndLine
<1>7. tail \in [File -> Actor \cup {Clean, Orphan}] BY <1>0 DEF TypeOK
<1>8. tail' \in [File -> Actor \cup {Clean, Orphan}] /\ tail'[s] = Clean
      /\ \A t \in Session \ {s} : tail'[t] = tail[t]
  BY <1>0, <1>6, <1>7, Names
<1>9. /\ Append(log[s], c) \in Seq(Commit) /\ Len(Append(log[s], c)) = n + 1
      /\ Append(log[s], c)[n + 1] = c
      /\ \A i \in 1 .. n : Append(log[s], c)[i] = log[s][i]
  <2>1. log[s] \in Seq(Commit) BY <1>0
  <2> QED BY <1>2, <2>1
<1>10. /\ log' \in [Session -> Seq(Commit)] /\ log'[s] = Append(log[s], c)
       /\ \A t \in Session \ {s} : log'[t] = log[t]
  BY <1>0, <1>4, <1>9
<1>11. /\ seen' \in [Actor -> Seq(Commit)] /\ seen'[a] = Append(log[s], c)
       /\ \A b \in Actor \ {a} : seen'[b] = seen[b]
  BY <1>0, <1>1, <1>2, <1>9
<1>12. /\ pc' \in [Actor -> Label] /\ pc'[a] = "project" /\ \A b \in Actor \ {a} : pc'[b] = pc[b]
  BY <1>0, <1>1, Sorted
<1>13. TypeOK' BY <1>0, <1>1, <1>6, <1>8, <1>10, <1>11 DEF TypeOK
<1>14. \A t \in Session : Len(log[t]) \in Nat /\ Len(log'[t]) \in Nat /\ Len(log[t]) <= Len(log'[t])
  <2> TAKE t \in Session
  <2>1. Len(log[t]) \in Nat BY <1>0, Lengths
  <2>2. CASE t = s BY <1>0, <1>9, <1>10, <2>2
  <2>3. CASE t # s BY <1>10, <2>1, <2>3
  <2> QED BY <2>2, <2>3
<1>15. Behind'
  <2> SUFFICES ASSUME NEW t \in Session
               PROVE /\ proj[t] <= Len(log'[t]) /\ base[t] <= Len(log'[t])
                     /\ overlay[t] <= Len(log'[t])
                     /\ \A m \in mark : m[t] <= Len(log'[t])
                     /\ \A b \in Actor : view[b][t] <= Len(log'[t])
    BY <1>1 DEF Behind
  <2>0. Cardinality(Commit) \in Nat BY FS_CardinalityType DEF JournalAssumption
  <2>1. /\ proj[t] \in Nat /\ base[t] \in Nat /\ overlay[t] \in Nat
        /\ \A m \in mark : m[t] \in Nat
        /\ \A b \in Actor : view[b][t] \in Nat
    BY <1>0, <2>0 DEF TypeOK, Revision
  <2>2. /\ proj[t] <= Len(log[t]) /\ base[t] <= Len(log[t])
        /\ overlay[t] <= Len(log[t])
        /\ \A m \in mark : m[t] <= Len(log[t])
        /\ \A b \in Actor : view[b][t] <= Len(log[t])
    BY <1>0 DEF Behind
  <2>3. Len(log[t]) \in Nat /\ Len(log'[t]) \in Nat /\ Len(log[t]) <= Len(log'[t]) BY <1>14
  <2> QED BY <2>1, <2>2, <2>3
<1>16. Moves(a) BY <1>1, <1>11, <1>12 DEF Moves
<1>17. InOrder'
  <2>1. ASSUME NEW t \in Session PROVE t \notin bad'
    BY <1>0, <1>6 DEF InOrder, Readable
  <2>2. ASSUME NEW t \in Session, NEW i \in 1 .. Len(log'[t])
        PROVE  made'[log'[t][i]] = [session |-> t, revision |-> i]
    <3>1. CASE t # s BY <1>0, <1>1, <1>10, <3>1 DEF InOrder, Readable
    <3>2. CASE t = s /\ i \in 1 .. n BY <1>0, <1>1, <1>9, <1>10, <3>2 DEF InOrder, Readable
    <3>3. CASE t = s /\ i = n + 1 BY <1>1, <1>3, <1>9, <1>10, <3>3
    <3> QED BY <1>0, <1>9, <1>10, <3>1, <3>2, <3>3
  <2> QED BY <2>1, <2>2 DEF InOrder, Readable
<1>18. Informed(a)'
  <2>1. Occurs(com'[a], log'[sess'[a]])
    <3>1. n + 1 \in 1 .. Len(log'[s]) /\ log'[s][n + 1] = c BY <1>0, <1>9, <1>10
    <3> QED BY <1>1, <3>1 DEF Occurs
  <2> QED BY <1>1, <1>2, <1>10, <1>11, <1>12, <2>1 DEF Informed, Done, Recs
<1>19. \A b \in Actor \ {a} : Informed(b)'
  <2>1. Works(a) /\ made' = made BY <1>1 DEF Works
  <2>2. Len(log'[s]) \in Nat /\ n <= Len(log'[s]) BY <1>0, <1>14
  <2>3. \A t \in Session \ {s} : log'[t] = log[t] /\ tail'[t] = tail[t] BY <1>8, <1>10
  <2> QED BY <1>16, <2>1, <2>2, <2>3, OthersInformed
<1>20. (Apart \/ Queued') /\ (Apart => Staged')
  <2>1. pc[a] # "idle" /\ pc'[a] # "lock" /\ sess' = sess BY <1>1, <1>12
  <2>2. pc'[a] \in Calls /\ pc[a] \in Calls BY <1>1, <1>12
  <2>3. pc'[a] \notin Opens \cup Scrubs \cup Scans \cup Builds \cup Ends
    BY <1>12 DEF Opens, Recs, Scrubs, Scans, Builds, Ends
  <2> QED BY <1>1, <1>16, <2>1, <2>2, <2>3, OnwardUnlocked
<1> QED BY <1>0, <1>2, <1>5, <1>12, <1>13, <1>15, <1>17, <1>18, <1>19, <1>20 DEF Inv

\* What an operation has parsed is no longer than the journal.
LEMMA ParsedBounded ==
  ASSUME JournalAssumption, Inv, NEW a \in Actor, pc[a] \in Held \cup Recs \cup {"scan_write"}
  PROVE  Len(seen[a]) \in Revision /\ Len(seen[a]) <= Len(log[sess[a]])
<1>1. sess[a] \in Session /\ Len(seen[a]) \in Nat /\ TypeOK /\ InOrder /\ Informed(a)
  BY Lengths DEF Inv
<1>2. /\ Len(log[sess[a]]) \in Nat /\ Len(log[sess[a]]) <= Cardinality(Commit)
      /\ Cardinality(Commit) \in Nat
  BY <1>1, LogBounded
<1>3. Len(seen[a]) <= Len(log[sess[a]]) BY <1>1, <1>2 DEF Informed
<1> QED BY <1>1, <1>2, <1>3 DEF Revision

\* The projection is written by an append, a recovery or a scan.
LEMMA ProjectionKeeps ==
  ASSUME JournalAssumption, Inv, NEW a \in Actor, WriteProjection(a) \/ ScanWrite(a)
  PROVE  Inv'
<1> USE DEF Label, Calls, Held
<1> DEFINE s == sess[a]
           n == Len(seen[a])
<1>0. TypeOK /\ pc \in [Actor -> Label] /\ Behind /\ Informed(a) /\ s \in Session
  BY Lengths DEF Inv
<1>1. /\ UNCHANGED <<logVars, tail, bad, base, mark, overlay, pending, sess, com, seen, fresh, todo,
                     lock, up, doomed, faults>>
      /\ proj' = [proj EXCEPT ![s] = n]
      /\ view' = view \/ view' = [view EXCEPT ![a][s] = n]
  BY DEF WriteProjection, ScanWrite, memory
<1>2. PICK label \in {"catalog", "rec_delta", "scan"} :
        /\ Goto(a, label)
        /\ <<pc[a], label>> \in {<<"project", "catalog">>, <<"rec_project", "rec_delta">>,
                                 <<"scan_write", "scan">>}
  BY Following DEF WriteProjection, ScanWrite
<1>3. n \in Revision /\ n <= Len(log[s])
  <2>1. pc[a] \in Held \cup Recs \cup {"scan_write"} BY <1>2 DEF Recs
  <2> QED BY <2>1, ParsedBounded
<1>4. /\ proj \in [Session -> Revision] /\ view \in [Actor -> [Session -> Revision]] BY <1>0 DEF TypeOK
<1>5. /\ proj' \in [Session -> Revision] /\ proj'[s] = n
      /\ \A t \in Session \ {s} : proj'[t] = proj[t]
  BY <1>0, <1>1, <1>3, <1>4
<1>6. /\ view' \in [Actor -> [Session -> Revision]]
      /\ \A b \in Actor \ {a} : view'[b] = view[b]
      /\ view'[a][s] \in {view[a][s], n} /\ \A t \in Session \ {s} : view'[a][t] = view[a][t]
  <2>1. CASE view' = view BY <1>4, <2>1
  <2>2. CASE view' = [view EXCEPT ![a][s] = n] BY <1>0, <1>3, <1>4, <2>2
  <2> QED BY <1>1, <2>1, <2>2
<1>7. /\ pc' \in [Actor -> Label] /\ pc'[a] = label /\ \A b \in Actor \ {a} : pc'[b] = pc[b]
  <2>1. label \in Label BY <1>2 DEF Opens, Recs, Scans
  <2> QED BY <1>0, <1>2, <2>1, Sorted
<1>8. TypeOK' BY <1>0, <1>1, <1>5, <1>6 DEF TypeOK, logVars
<1>9. Behind'
  <2>1. ASSUME NEW t \in Session PROVE proj'[t] <= Len(log[t])
    BY <1>0, <1>3, <1>5 DEF Behind
  <2>2. ASSUME NEW t \in Session, NEW b \in Actor PROVE view'[b][t] <= Len(log[t])
    BY <1>0, <1>3, <1>6 DEF Behind
  <2> QED BY <1>0, <1>1, <2>1, <2>2 DEF Behind, logVars
<1>10. Moves(a) BY <1>1, <1>6, <1>7 DEF Moves
<1>11. Quiet BY <1>1 DEF Quiet, logVars
<1>12. Informed(a)' BY <1>0, <1>1, <1>2, <1>7 DEF Informed, logVars, Done, Recs
<1>13. (Apart \/ Queued') /\ (Apart => Staged')
  <2>1. pc[a] # "idle" /\ pc'[a] # "lock" /\ sess' = sess BY <1>1, <1>2, <1>7
  <2>2. pc'[a] \in Calls => pc[a] \in Calls BY <1>2, <1>7 DEF Recs
  <2>3. pc'[a] \in Opens => pc[a] \in Opens BY <1>2, <1>7 DEF Opens, Recs
  <2>4. pc'[a] \in Scans => pc[a] \in Starting BY <1>2, <1>7 DEF Scans, Starting
  <2>5. pc'[a] \notin Scrubs \cup Builds \cup Ends BY <1>2, <1>7 DEF Scrubs, Builds, Ends
  <2> QED BY <1>1, <1>10, <2>1, <2>2, <2>3, <2>4, <2>5, OnwardUnlocked
<1> QED BY <1>7, <1>8, <1>9, <1>10, <1>11, <1>12, <1>13, QuietStep

-----------------------------------------------------------------------------
(* The catalog *)

\* A delta is appended by a commit or by a recovery.
LEMMA DeltaKeeps ==
  ASSUME JournalAssumption, Inv, NEW a \in Actor, AppendDelta(a)
  PROVE  Inv'
<1> USE DEF Label, Calls, Held
<1>0. TypeOK /\ pc \in [Actor -> Label] /\ Behind /\ Informed(a) /\ sess[a] \in Session
  BY Lengths DEF Inv
<1>1. /\ UNCHANGED <<logVars, bad, proj, base, mark, overlay, pending, memory, lock, up, doomed,
                     faults>>
      /\ tail' = [tail EXCEPT !["catalog"] = IF tail["catalog"] = Clean THEN a ELSE Orphan]
  BY DEF AppendDelta, BeginLine
<1>2. PICK label \in {"deltaing", "rec_deltaing"} :
        /\ Goto(a, label)
        /\ <<pc[a], label>> \in {<<"delta", "deltaing">>, <<"rec_delta", "rec_deltaing">>}
  BY Following DEF AppendDelta
<1>3. tail \in [File -> Actor \cup {Clean, Orphan}] BY <1>0 DEF TypeOK
<1>4. /\ tail' \in [File -> Actor \cup {Clean, Orphan}]
      /\ \A t \in Session : tail'[t] = tail[t]
  BY <1>1, <1>3, Names
<1>5. /\ pc' \in [Actor -> Label] /\ pc'[a] = label /\ \A b \in Actor \ {a} : pc'[b] = pc[b]
  <2>1. label \in Label BY <1>2 DEF Opens, Recs
  <2> QED BY <1>0, <1>2, <2>1, Sorted
<1>6. TypeOK' BY <1>0, <1>1, <1>4 DEF TypeOK, logVars, memory
<1>7. Behind' BY <1>0, <1>1, Uncached DEF logVars, memory
<1>8. Moves(a) BY <1>1, <1>5 DEF Moves, memory
<1>9. Quiet BY <1>1, <1>4 DEF Quiet, logVars
<1>10. Informed(a)' BY <1>0, <1>1, <1>2, <1>5 DEF Informed, logVars, memory, Done, Recs
<1>11. (Apart \/ Queued') /\ (Apart => Staged')
  <2>1. pc[a] # "idle" /\ pc'[a] # "lock" /\ sess' = sess BY <1>1, <1>2, <1>5 DEF memory
  <2>2. pc'[a] \in Calls => pc[a] \in Calls BY <1>2, <1>5 DEF Recs
  <2>3. pc'[a] \in Opens => pc[a] \in Opens BY <1>2, <1>5 DEF Opens, Recs
  <2>4. pc'[a] \notin Scrubs \cup Scans \cup Builds \cup Ends
    BY <1>2, <1>5 DEF Scrubs, Scans, Builds, Ends
  <2> QED BY <1>1, <1>8, <2>1, <2>2, <2>3, <2>4, OnwardUnlocked
<1> QED BY <1>5, <1>6, <1>7, <1>8, <1>9, <1>10, <1>11, QuietStep

LEMMA DeltaSyncedKeeps ==
  ASSUME JournalAssumption, Inv, NEW a \in Actor, DeltaSynced(a)
  PROVE  Inv'
<1> USE DEF Label, Calls, Held
<1> DEFINE s == sess[a]
           n == Len(seen[a])
<1>0. TypeOK /\ pc \in [Actor -> Label] /\ Behind /\ Informed(a) /\ s \in Session
  BY Lengths DEF Inv
<1>1. /\ UNCHANGED <<logVars, proj, base, mark, pending, memory, up, doomed, faults>>
      /\ tail' = [tail EXCEPT !["catalog"] = Clean]
      /\ bad' = bad \/ bad' = bad \cup {"catalog"}
      /\ overlay' = overlay \/ overlay' = [overlay EXCEPT ![s] = n]
      /\ pc[a] \in {"deltaing", "rec_deltaing"}
      /\ lock' = lock \/ lock' = [lock EXCEPT !["catalog"] = Free]
  BY DEF DeltaSynced, EndLine
<1>2. PICK label \in {"clear", "receipt", "rec_unlink"} :
        /\ Goto(a, label)
        /\ <<pc[a], label>> \in {<<"deltaing", "clear">>, <<"deltaing", "receipt">>,
                                 <<"rec_deltaing", "rec_unlink">>}
  BY Following DEF DeltaSynced
<1>3. n \in Revision /\ n <= Len(log[s])
  <2>1. pc[a] \in Held \cup Recs \cup {"scan_write"} BY <1>2 DEF Recs
  <2> QED BY <2>1, ParsedBounded
<1>4. /\ tail \in [File -> Actor \cup {Clean, Orphan}] /\ overlay \in [Session -> Revision]
      /\ lock \in [Lock -> Actor \cup {Free, Orphan}]
  BY <1>0 DEF TypeOK
<1>5. /\ tail' \in [File -> Actor \cup {Clean, Orphan}]
      /\ \A t \in Session : tail'[t] = tail[t]
  BY <1>1, <1>4, Names
<1>6. /\ overlay' \in [Session -> Revision] /\ overlay'[s] \in {overlay[s], n}
      /\ \A t \in Session \ {s} : overlay'[t] = overlay[t]
  <2>1. CASE overlay' = overlay BY <1>4, <2>1
  <2>2. CASE overlay' = [overlay EXCEPT ![s] = n] BY <1>0, <1>3, <1>4, <2>2
  <2> QED BY <1>1, <2>1, <2>2
<1>7. /\ lock' \in [Lock -> Actor \cup {Free, Orphan}]
      /\ \A l \in Lock : lock'[l] \in {lock[l], Free}
      /\ \A t \in Session : lock'[t] = lock[t]
  <2>1. CASE lock' = lock BY <1>4, <2>1
  <2>2. CASE lock' = [lock EXCEPT !["catalog"] = Free] BY <1>4, <2>2, Names
  <2> QED BY <1>1, <2>1, <2>2
<1>8. /\ pc' \in [Actor -> Label] /\ pc'[a] = label /\ \A b \in Actor \ {a} : pc'[b] = pc[b]
  <2>1. label \in Label BY <1>2 DEF Opens, Recs
  <2> QED BY <1>0, <1>2, <2>1, Sorted
<1>9. TypeOK'
  <2>1. bad' \subseteq File BY <1>0, <1>1, Names DEF TypeOK
  <2> QED BY <1>0, <1>1, <1>5, <1>6, <1>7, <2>1 DEF TypeOK, logVars, memory
<1>10. Behind'
  <2>1. ASSUME NEW t \in Session PROVE overlay'[t] <= Len(log[t])
    BY <1>0, <1>3, <1>6 DEF Behind
  <2> QED BY <1>0, <1>1, <2>1 DEF Behind, logVars, memory
<1>11. Moves(a) BY <1>1, <1>8 DEF Moves, memory
<1>12. Quiet BY <1>1, <1>5, Names DEF Quiet, logVars
<1>13. Informed(a)' BY <1>0, <1>1, <1>2, <1>8 DEF Informed, logVars, memory, Done, Recs
<1>14. (Apart \/ Queued') /\ (Apart => Staged')
  <2>1. pc[a] # "idle" /\ pc'[a] # "lock" /\ sess' = sess BY <1>1, <1>2, <1>8 DEF memory
  <2>2. pc'[a] \in Calls => pc[a] \in Calls BY <1>2, <1>8 DEF Recs
  <2>3. pc'[a] \in Opens => pc[a] \in Opens BY <1>2, <1>8 DEF Opens, Recs
  <2>4. pc'[a] \notin Scrubs \cup Scans \cup Builds \cup Ends
    BY <1>2, <1>8 DEF Scrubs, Scans, Builds, Ends
  <2>5. ASSUME ~Apart
        PROVE  /\ \A k \in Lock : lock'[k] # Orphan
               /\ pc'[a] \in Calls => lock'[sess[a]] = a
               /\ \A b \in Actor \ {a} : pc[b] \in Calls => lock'[sess[b]] = lock[sess[b]]
    <3>1. Queued BY <2>5 DEF Inv
    <3>2. \A k \in Lock : lock'[k] # Orphan BY <1>7, <3>1, Names DEF Queued
    <3>3. \A b \in Actor : lock'[sess[b]] = lock[sess[b]] BY <1>0, <1>7, Lengths
    <3> QED BY <2>2, <3>1, <3>2, <3>3 DEF Queued
  <2> QED BY <1>0, <1>1, <1>11, <2>1, <2>2, <2>3, <2>4, <2>5, Onward
<1> QED BY <1>8, <1>9, <1>10, <1>11, <1>12, <1>13, <1>14, QuietStep

\* readCatalogUnlocked on a start truncates a partial delta; rebuildCatalogUnlocked
\* rewrites base, deltas and state file.
LEMMA RebuildKeeps ==
  ASSUME JournalAssumption, Inv, NEW a \in Actor,
         OpenFast(a) \/ OpenDeep(a) \/ WriteBase(a) \/ ResetDeltas(a) \/ WriteMark(a)
  PROVE  Inv'
<1> USE DEF Label, Calls, Held
<1>0. TypeOK /\ pc \in [Actor -> Label] /\ Behind /\ Informed(a) /\ sess[a] \in Session
  BY Lengths DEF Inv
<1>a. Cardinality(Commit) \in Nat BY FS_CardinalityType DEF JournalAssumption
<1>b. /\ tail \in [File -> Actor \cup {Clean, Orphan}] /\ overlay \in [Session -> Revision]
      /\ base \in [Session -> Revision] /\ mark \subseteq [Session -> Revision]
      /\ view \in [Actor -> [Session -> Revision]] /\ todo \in [Actor -> SUBSET Session]
      /\ bad \subseteq File /\ pending \subseteq Session
  BY <1>0 DEF TypeOK
<1>c. \A s \in Session : Len(log[s]) \in Nat BY <1>0, Lengths
<1>1. /\ UNCHANGED <<logVars, proj, pending, sess, com, seen, fresh, lock, up, doomed, faults>>
      /\ tail' = tail \/ tail' = [tail EXCEPT !["catalog"] = Clean]
      /\ bad' = bad \/ bad' = bad \ {"catalog"}
      /\ base' = base \/ base' = view[a]
      /\ mark' = mark \/ mark' = {view[a]}
      /\ overlay' = overlay \/ overlay' = [s \in Session |-> 0]
      /\ \/ todo' = todo
         \/ todo' = [todo EXCEPT ![a] = pending]
         \/ todo' = [todo EXCEPT ![a] = Session]
      /\ view' = view \/ view' = [view EXCEPT ![a] = [s \in Session |-> 0]]
  BY DEF OpenFast, OpenDeep, WriteBase, ResetDeltas, WriteMark, memory, disk
<1>2. PICK label \in {"recover", "abort_open", "scan", "reset", "mark", "unpend"} :
        /\ Goto(a, label)
        /\ <<pc[a], label>> \in {<<"open", "recover">>, <<"open", "abort_open">>, <<"open", "scan">>,
             <<"scrub", "scan">>, <<"scan", "reset">>, <<"reset", "mark">>, <<"mark", "unpend">>}
  BY DEF OpenFast, OpenDeep, WriteBase, ResetDeltas, WriteMark
<1>3. /\ tail' \in [File -> Actor \cup {Clean, Orphan}] /\ \A t \in Session : tail'[t] = tail[t]
  BY <1>1, <1>b, Names
<1>4. /\ overlay' \in [Session -> Revision]
      /\ \A s \in Session : overlay'[s] \in {overlay[s], 0}
  <2>1. 0 \in Revision BY <1>a DEF Revision
  <2> QED BY <1>1, <1>b, <2>1
<1>5. /\ view' \in [Actor -> [Session -> Revision]] /\ \A b \in Actor \ {a} : view'[b] = view[b]
      /\ \A s \in Session : view'[a][s] \in {view[a][s], 0}
  <2>1. 0 \in Revision BY <1>a DEF Revision
  <2> QED BY <1>1, <1>b, <2>1
<1>6. todo' \in [Actor -> SUBSET Session] /\ \A b \in Actor \ {a} : todo'[b] = todo[b]
  BY <1>1, <1>b
<1>7. /\ base' \in [Session -> Revision] /\ mark' \subseteq [Session -> Revision]
      /\ bad' \subseteq File
  BY <1>1, <1>b
<1>8. /\ pc' \in [Actor -> Label] /\ pc'[a] = label /\ \A b \in Actor \ {a} : pc'[b] = pc[b]
  <2>1. label \in Label BY <1>2 DEF Opens, Recs, Scans, Builds, Ends
  <2> QED BY <1>0, <1>2, <2>1, Sorted
<1>9. TypeOK' BY <1>0, <1>1, <1>3, <1>4, <1>5, <1>6, <1>7 DEF TypeOK, logVars
<1>10. Behind'
  <2> SUFFICES ASSUME NEW t \in Session
               PROVE /\ proj[t] <= Len(log[t]) /\ base'[t] <= Len(log[t])
                     /\ overlay'[t] <= Len(log[t])
                     /\ \A m \in mark' : m[t] <= Len(log[t])
                     /\ \A b \in Actor : view'[b][t] <= Len(log[t])
    BY <1>1 DEF Behind, logVars
  <2>1. /\ proj[t] <= Len(log[t]) /\ base[t] <= Len(log[t])
        /\ overlay[t] <= Len(log[t])
        /\ \A m \in mark : m[t] <= Len(log[t])
        /\ \A b \in Actor : view[b][t] <= Len(log[t])
    BY <1>0 DEF Behind
  <2>2. Len(log[t]) \in Nat BY <1>c
  <2>3. base'[t] <= Len(log[t]) BY <1>1, <2>1
  <2>4. overlay'[t] <= Len(log[t]) BY <1>4, <2>1, <2>2
  <2>5. \A m \in mark' : m[t] <= Len(log[t]) BY <1>1, <2>1
  <2>6. \A b \in Actor : view'[b][t] <= Len(log[t]) BY <1>5, <2>1, <2>2
  <2> QED BY <2>1, <2>3, <2>4, <2>5, <2>6
<1>11. Moves(a) BY <1>1, <1>5, <1>6, <1>8 DEF Moves
<1>12. Quiet BY <1>1, <1>3 DEF Quiet, logVars
<1>13. Informed(a)' BY <1>0, <1>1, <1>2, <1>8 DEF Informed, logVars, Done, Recs
<1>14. (Apart \/ Queued') /\ (Apart => Staged')
  <2>1. pc[a] # "idle" /\ pc'[a] # "lock" /\ pc'[a] \notin Calls \cup Scrubs /\ sess' = sess
    BY <1>1, <1>2, <1>8 DEF Scrubs
  <2>2. pc'[a] \in Opens => pc[a] \in Opens BY <1>2, <1>8 DEF Opens, Recs
  <2>3. pc[a] \in Starting \cup Scrubs
    BY <1>2 DEF Starting, Opens, Scans, Builds, Scrubs
  <2> QED BY <1>1, <1>11, <2>1, <2>2, <2>3, OnwardUnlocked
<1> QED BY <1>8, <1>9, <1>10, <1>11, <1>12, <1>13, <1>14, QuietStep

\* recoverPendingUnlocked and scanProjections parse a journal without its lock.
LEMMA StartReadsKeep ==
  ASSUME JournalAssumption, Inv, NEW a \in Actor, NEW s \in Session,
         RecoverRead(a, s) \/ ScanRead(a, s)
  PROVE  Inv'
<1> USE DEF Label, Calls, Held
<1>0. /\ TypeOK /\ pc \in [Actor -> Label] /\ Behind /\ Informed(a) /\ InOrder
      /\ log[s] \in Seq(Commit)
  BY DEF Inv, TypeOK
<1>1. /\ UNCHANGED <<logVars, disk, com, fresh, view, lock, up, doomed, faults>>
      /\ sess' = [sess EXCEPT ![a] = s]
      /\ seen' = seen \/ seen' = [seen EXCEPT ![a] = log[s]]
      /\ todo' = todo \/ todo' = [todo EXCEPT ![a] = todo[a] \ {s}]
  BY <1>0 DEF RecoverRead, ScanRead, InOrder
<1>2. PICK label \in {"abort_open", "rec_repair", "rec_unlink", "rec_project", "scan", "scan_write"} :
        /\ Goto(a, label)
        /\ label # "abort_open" => seen' = [seen EXCEPT ![a] = log[s]]
        /\ pc[a] = "recover" => label \in {"abort_open", "rec_repair", "rec_unlink", "rec_project"}
        /\ pc[a] = "scan" => label \in {"scan", "scan_write"}
        /\ pc[a] \in {"recover", "scan"}
  <2>1. CASE RecoverRead(a, s)
    <3>1. CASE s \notin pending \/ ~Readable(s) BY <2>1, <3>1 DEF RecoverRead
    <3>2. CASE ~(s \notin pending \/ ~Readable(s)) BY <2>1, <3>2 DEF RecoverRead
    <3> QED BY <3>1, <3>2
  <2>2. CASE ScanRead(a, s)
    <3>1. Readable(s) BY <1>0 DEF InOrder
    <3> QED BY <2>2, <3>1 DEF ScanRead
  <2> QED BY <2>1, <2>2
<1>3. /\ sess \in [Actor -> Session] /\ seen \in [Actor -> Seq(Commit)]
      /\ todo \in [Actor -> SUBSET Session]
  BY <1>0 DEF TypeOK
<1>4. /\ sess' \in [Actor -> Session] /\ sess'[a] = s /\ \A b \in Actor \ {a} : sess'[b] = sess[b]
      /\ seen' \in [Actor -> Seq(Commit)] /\ \A b \in Actor \ {a} : seen'[b] = seen[b]
      /\ todo' \in [Actor -> SUBSET Session] /\ \A b \in Actor \ {a} : todo'[b] = todo[b]
  BY <1>0, <1>1, <1>3
<1>5. label # "abort_open" => seen'[a] = log[s] BY <1>2, <1>3
<1>6. /\ pc' \in [Actor -> Label] /\ pc'[a] = label /\ \A b \in Actor \ {a} : pc'[b] = pc[b]
  <2>1. label \in Label BY <1>2 DEF Opens, Recs, Scans, Ends
  <2> QED BY <1>0, <1>2, <2>1, Sorted
<1>7. TypeOK' BY <1>0, <1>1, <1>4 DEF TypeOK, logVars, disk
<1>8. Behind' BY <1>0, <1>1, Uncached DEF logVars, disk
<1>9. Moves(a) BY <1>1, <1>4, <1>6 DEF Moves
<1>10. Quiet BY <1>1 DEF Quiet, logVars, disk
<1>11. Informed(a)'
  <2>1. Len(log[s]) \in Nat BY <1>0
  <2> QED BY <1>1, <1>2, <1>4, <1>5, <1>6, <2>1 DEF Informed, logVars, Done, Recs
<1>12. (Apart \/ Queued') /\ (Apart => Staged')
  <2>1. pc[a] # "idle" /\ pc'[a] \notin Calls \cup {"lock"} \cup Scrubs
    BY <1>2, <1>6 DEF Scrubs
  <2>2. pc'[a] \in Opens => pc[a] \in Opens BY <1>2, <1>6 DEF Opens, Recs
  <2>3. pc[a] \in Starting BY <1>2 DEF Starting, Opens, Scans
  <2>4. ~Apart => Queued BY DEF Inv
  <2>5. ~Apart => \A l \in Lock : lock'[l] # Orphan BY <1>1, <2>4 DEF Queued
  <2>6. up' = up /\ doomed' = doomed /\ lock' = lock /\ sess'[a] \in Session BY <1>1, <1>4
  <2> QED BY <1>9, <2>1, <2>2, <2>3, <2>5, <2>6, Onward
<1> QED BY <1>6, <1>7, <1>8, <1>9, <1>10, <1>11, <1>12, QuietStep

-----------------------------------------------------------------------------
(* Starts, ends and failures *)

LEMMA Forgotten ==
  ASSUME JournalAssumption, TypeOK, NEW who \in SUBSET Actor, Forget(who)
  PROVE  /\ com' \in [Actor -> Commit \cup {NoCommit}] /\ seen' \in [Actor -> Seq(Commit)]
         /\ fresh' \in [Actor -> BOOLEAN] /\ todo' \in [Actor -> SUBSET Session]
         /\ view' \in [Actor -> [Session -> Revision]] /\ sess' = sess
         /\ \A b \in Actor \ who :
              com'[b] = com[b] /\ seen'[b] = seen[b] /\ todo'[b] = todo[b] /\ view'[b] = view[b]
         /\ \A b \in Actor : \A s \in Session : view'[b][s] \in {view[b][s], 0}
<1>1. /\ com \in [Actor -> Commit \cup {NoCommit}] /\ seen \in [Actor -> Seq(Commit)]
      /\ fresh \in [Actor -> BOOLEAN] /\ todo \in [Actor -> SUBSET Session]
      /\ view \in [Actor -> [Session -> Revision]]
  BY DEF TypeOK
<1>2. Cardinality(Commit) \in Nat BY FS_CardinalityType DEF JournalAssumption
<1>3. 0 \in Revision BY <1>2 DEF Revision
<1>4. <<>> \in Seq(Commit) OBVIOUS
<1>5. /\ com' = [a \in Actor |-> IF a \in who THEN NoCommit ELSE com[a]]
      /\ seen' = [a \in Actor |-> IF a \in who THEN <<>> ELSE seen[a]]
      /\ fresh' = [a \in Actor |-> fresh[a] /\ a \notin who]
      /\ todo' = [a \in Actor |-> IF a \in who THEN {} ELSE todo[a]]
      /\ view' = [a \in Actor |-> [s \in Session |-> IF a \in who THEN 0 ELSE view[a][s]]]
      /\ sess' = sess
  BY DEF Forget
<1>6. com' \in [Actor -> Commit \cup {NoCommit}] /\ seen' \in [Actor -> Seq(Commit)]
  BY <1>1, <1>4, <1>5
<1>7. fresh' \in [Actor -> BOOLEAN] /\ todo' \in [Actor -> SUBSET Session] BY <1>1, <1>5
<1>8. view' \in [Actor -> [Session -> Revision]] BY <1>1, <1>3, <1>5
<1>9. \A b \in Actor \ who : com'[b] = com[b] /\ seen'[b] = seen[b] /\ todo'[b] = todo[b]
  BY <1>5
<1>10. \A b \in Actor \ who : view'[b] = view[b]
  <2> TAKE b \in Actor \ who
  <2>1. view'[b] = [s \in Session |-> view[b][s]] BY <1>5
  <2> QED BY <1>1, <2>1
<1>11. \A b \in Actor : \A s \in Session : view'[b][s] \in {view[b][s], 0} BY <1>5
<1> QED BY <1>5, <1>6, <1>7, <1>8, <1>9, <1>10, <1>11

LEMMA BehindForgotten ==
  ASSUME TypeOK, Behind, log' = log, proj' = proj, base' = base, overlay' = overlay, mark' = mark,
         \A b \in Actor : \A s \in Session : view'[b][s] \in {view[b][s], 0}
  PROVE  Behind'
<1>1. ASSUME NEW t \in Session, NEW b \in Actor PROVE view'[b][t] <= Len(log[t])
  <2>1. Len(log[t]) \in Nat BY Lengths
  <2> QED BY <2>1 DEF Behind
<1> QED BY <1>1 DEF Behind

\* The receipt, and the error thrown out of an append, free the lock of the session.
LEMMA ReleaseKeeps ==
  ASSUME JournalAssumption, Inv, NEW a \in Actor, Receipt(a) \/ Abort(a)
  PROVE  Inv' /\ (UNCHANGED logVars \/ (com[a] \in Commit /\ Ack(com[a])))
<1> USE DEF Label, Calls, Held
<1> DEFINE s == sess[a]
<1>0. /\ TypeOK /\ pc \in [Actor -> Label] /\ Behind /\ Informed(a) /\ s \in Session
  BY Lengths DEF Inv
<1>1. /\ UNCHANGED <<made, log, disk, up, doomed, faults>> /\ pc[a] \in {"receipt", "abort"}
      /\ lock' = [lock EXCEPT ![s] = Free] /\ Goto(a, "idle") /\ Forget({a})
      /\ acked' = acked \/ (pc[a] = "receipt" /\ acked' = acked \cup {com[a]})
  BY DEF Receipt, Abort, Return, logVars
<1>2. /\ pc' \in [Actor -> Label] /\ pc'[a] = "idle" /\ \A b \in Actor \ {a} : pc'[b] = pc[b]
  BY <1>0, <1>1, Sorted
<1>3. /\ com' \in [Actor -> Commit \cup {NoCommit}] /\ seen' \in [Actor -> Seq(Commit)]
      /\ fresh' \in [Actor -> BOOLEAN] /\ todo' \in [Actor -> SUBSET Session]
      /\ view' \in [Actor -> [Session -> Revision]] /\ sess' = sess
      /\ \A b \in Actor \ {a} :
           com'[b] = com[b] /\ seen'[b] = seen[b] /\ todo'[b] = todo[b] /\ view'[b] = view[b]
      /\ \A b \in Actor : \A t \in Session : view'[b][t] \in {view[b][t], 0}
  BY <1>0, <1>1, Forgotten
<1>4. lock \in [Lock -> Actor \cup {Free, Orphan}] BY <1>0 DEF TypeOK
<1>5. /\ lock' \in [Lock -> Actor \cup {Free, Orphan}]
      /\ \A l \in Lock : lock'[l] \in {lock[l], Free}
      /\ \A t \in Session \ {s} : lock'[t] = lock[t]
  BY <1>0, <1>1, <1>4, Names
<1>6. pc[a] = "receipt" => com[a] \in Commit /\ Occurs(com[a], log[s])
  BY <1>0 DEF Informed, Done
<1>7. TypeOK'
  <2>1. acked' \subseteq Commit BY <1>0, <1>1, <1>6 DEF TypeOK
  <2> QED BY <1>0, <1>1, <1>3, <1>5, <2>1 DEF TypeOK, disk
<1>8. Behind' BY <1>0, <1>1, <1>3, BehindForgotten DEF disk
<1>9. Moves(a) BY <1>2, <1>3 DEF Moves
<1>10. Quiet BY <1>1 DEF Quiet, disk
<1>11. Informed(a)' BY <1>2 DEF Informed, Done, Recs
<1>12. (Apart \/ Queued') /\ (Apart => Staged')
  <2>1. pc[a] # "idle" /\ pc'[a] \notin Calls \cup {"lock"} \cup Scrubs \cup Starting
    BY <1>1, <1>2 DEF Scrubs, Starting, Opens, Recs, Scans, Builds, Ends
  <2>2. ASSUME ~Apart
        PROVE  /\ \A k \in Lock : lock'[k] # Orphan
               /\ \A b \in Actor \ {a} : pc[b] \in Calls => lock'[sess[b]] = lock[sess[b]]
    <3>1. Queued BY <2>2 DEF Inv
    <3>2. \A k \in Lock : lock'[k] # Orphan BY <1>5, <3>1, Names DEF Queued
    <3>3. ASSUME NEW b \in Actor \ {a}, pc[b] \in Calls PROVE lock'[sess[b]] = lock[sess[b]]
      <4>1. Works(a) /\ Works(b) BY <1>1, <3>3 DEF Works
      <4>2. sess[b] # s /\ sess[b] \in Session BY <4>1, <1>0, Exclusive, Lengths
      <4> QED BY <4>2, <1>5
    <3> QED BY <3>2, <3>3
  <2>3. up' = up /\ doomed' = doomed /\ sess'[a] \in Session BY <1>0, <1>1, <1>3
  <2> QED BY <1>9, <2>1, <2>2, <2>3, Onward DEF Starting
<1>13. UNCHANGED logVars \/ (com[a] \in Commit /\ Ack(com[a]))
  <2>0. made' = made /\ log' = log BY <1>1
  <2>1. ASSUME acked' = acked PROVE UNCHANGED logVars BY <2>0, <2>1 DEF logVars
  <2>2. ASSUME pc[a] = "receipt", acked' = acked \cup {com[a]} PROVE com[a] \in Commit /\ Ack(com[a])
    BY <1>0, <1>6, <2>0, <2>2 DEF Ack, Occurs
  <2>3. acked' = acked \/ (pc[a] = "receipt" /\ acked' = acked \cup {com[a]}) BY <1>1
  <2> QED BY <2>1, <2>2, <2>3
<1> QED BY <1>2, <1>7, <1>8, <1>9, <1>10, <1>11, <1>12, <1>13, QuietStep

\* A start, a scrub and a reading of the catalog begin.
LEMMA EnterKeeps ==
  ASSUME JournalAssumption, Apart \/ Steady, Inv, NEW a \in Actor, Start(a) \/ Scrub(a) \/ List(a)
  PROVE  Inv'
<1> USE DEF Label, Calls, Held
<1>0. /\ TypeOK /\ pc \in [Actor -> Label] /\ Behind /\ Informed(a)
      /\ HostOf \in [Actor -> Host] /\ up \in [Host -> {"down", "starting", "up"}]
  BY DEF Inv, TypeOK, JournalAssumption
<1>1. /\ UNCHANGED <<logVars, disk, memory, lock, doomed, faults>>
      /\ \/ pc[a] = "idle" /\ up' = up /\ up[HostOf[a]] = "up"
         \/ up[HostOf[a]] = "down" /\ up' = [up EXCEPT ![HostOf[a]] = "starting"]
  BY DEF Start, Scrub, List
<1>2. PICK label \in {"open_lock", "scrub_lock", "list_lock"} :
        /\ Goto(a, label)
        /\ label = "open_lock" => up[HostOf[a]] = "down" /\ up' = [up EXCEPT ![HostOf[a]] = "starting"]
        /\ label # "open_lock" => pc[a] = "idle" /\ up' = up /\ up[HostOf[a]] = "up"
        /\ label = "scrub_lock" => LiveScrub
  BY DEF Start, Scrub, List
<1>3. /\ pc' \in [Actor -> Label] /\ pc'[a] = label /\ \A b \in Actor \ {a} : pc'[b] = pc[b]
  <2>1. label \in Label BY <1>2 DEF Opens, Scrubs, Lists
  <2> QED BY <1>0, <1>2, <2>1, Sorted
<1>4. TypeOK'
  <2>1. up' \in [Host -> {"down", "starting", "up"}] BY <1>0, <1>1
  <2> QED BY <1>0, <1>1, <2>1 DEF TypeOK, logVars, disk, memory
<1>5. Behind' BY <1>0, <1>1, Uncached DEF logVars, disk, memory
<1>6. Moves(a) BY <1>1, <1>3 DEF Moves, memory
<1>7. Quiet BY <1>1 DEF Quiet, logVars, disk
<1>8. Informed(a)' BY <1>2, <1>3 DEF Informed, Done, Recs
<1>9. ASSUME ~Apart PROVE Queued'
  <2>1. Queued BY <1>9 DEF Inv
  <2>2. label # "open_lock" BY <1>2, <2>1 DEF Queued
  <2>3. pc'[a] \notin Opens \cup Calls BY <1>2, <1>3, <2>2 DEF Opens, Recs
  <2>4. up' = up /\ lock' = lock /\ doomed' = doomed /\ sess' = sess BY <1>1, <1>2, <2>2 DEF memory
  <2> QED BY <1>3, <2>1, <2>3, <2>4 DEF Queued
<1>10. ASSUME Apart PROVE Staged'
  <2>1. Staged /\ \A b \in Actor : HostOf[b] = HostOf[a] BY <1>10 DEF Inv, Apart
  <2>2. sess' = sess /\ label # "scrub_lock" BY <1>1, <1>2, <1>10 DEF memory, Apart
  <2>3. CASE label = "open_lock"
    <3>1. \A b \in Actor : pc[b] = "idle" BY <1>2, <2>1, <2>3 DEF Staged
    <3>2. \A b \in Actor : up'[HostOf[b]] = "starting" BY <1>0, <1>2, <2>1, <2>3
    <3> QED BY <1>3, <2>3, <3>1, <3>2 DEF Staged, Scrubs
  <2>4. CASE label = "list_lock"
    <3>1. up' = up /\ \A b \in Actor : up[HostOf[b]] = "up" BY <1>2, <2>1, <2>4
    <3>2. pc'[a] \notin Scrubs \cup Calls \cup {"lock"} \cup Starting
      BY <1>3, <2>4 DEF Scrubs, Starting, Opens, Recs, Scans, Builds, Ends
    <3> QED BY <1>3, <2>1, <2>2, <3>1, <3>2 DEF Staged, Starting
  <2> QED BY <1>2, <2>2, <2>3, <2>4
<1> QED BY <1>3, <1>4, <1>5, <1>6, <1>7, <1>8, <1>9, <1>10, QuietStep

\* A start or a scrub ends.
LEMMA EndKeeps ==
  ASSUME JournalAssumption, Inv, NEW a \in Actor, Opened(a) \/ AbortOpen(a)
  PROVE  Inv'
<1> USE DEF Label, Calls, Held
<1>0. /\ TypeOK /\ pc \in [Actor -> Label] /\ Behind
      /\ HostOf \in [Actor -> Host] /\ up \in [Host -> {"down", "starting", "up"}]
      /\ lock \in [Lock -> Actor \cup {Free, Orphan}]
  BY DEF Inv, TypeOK, JournalAssumption
<1>1. /\ UNCHANGED <<logVars, disk, doomed, faults>> /\ Forget({a}) /\ Goto(a, "idle")
      /\ lock' = [lock EXCEPT !["catalog"] = Free]
      /\ pc[a] \in {"opened", "recover", "abort_open"}
  BY DEF Opened, AbortOpen, Return
<1>2. /\ up' \in [Host -> {"down", "starting", "up"}]
      /\ \A h \in Host : up[h] = "up" => up'[h] = "up"
  BY <1>0 DEF Opened, AbortOpen
<1>3. /\ pc' \in [Actor -> Label] /\ pc'[a] = "idle" /\ \A b \in Actor \ {a} : pc'[b] = pc[b]
  BY <1>0, <1>1, Sorted
<1>4. /\ com' \in [Actor -> Commit \cup {NoCommit}] /\ seen' \in [Actor -> Seq(Commit)]
      /\ fresh' \in [Actor -> BOOLEAN] /\ todo' \in [Actor -> SUBSET Session]
      /\ view' \in [Actor -> [Session -> Revision]] /\ sess' = sess
      /\ \A b \in Actor \ {a} :
           com'[b] = com[b] /\ seen'[b] = seen[b] /\ todo'[b] = todo[b] /\ view'[b] = view[b]
      /\ \A b \in Actor : \A t \in Session : view'[b][t] \in {view[b][t], 0}
  BY <1>0, <1>1, Forgotten
<1>5. /\ lock' \in [Lock -> Actor \cup {Free, Orphan}]
      /\ \A l \in Lock : lock'[l] \in {lock[l], Free}
      /\ \A t \in Session : lock'[t] = lock[t]
  BY <1>0, <1>1, Names
<1>6. TypeOK' BY <1>0, <1>1, <1>2, <1>4, <1>5 DEF TypeOK, disk, logVars
<1>7. Behind' BY <1>0, <1>1, <1>4, BehindForgotten DEF disk, logVars
<1>8. Moves(a) BY <1>3, <1>4 DEF Moves
<1>9. Quiet BY <1>1 DEF Quiet, disk, logVars
<1>10. Informed(a)' BY <1>3 DEF Informed, Done, Recs
<1>11. ASSUME ~Apart PROVE Queued'
  <2>1. Queued BY <1>11 DEF Inv
  <2>2. \A k \in Lock : lock'[k] # Orphan BY <1>5, <2>1, Names DEF Queued
  <2>3. \A b \in Actor : up'[HostOf[b]] = "up" BY <1>0, <1>2, <2>1 DEF Queued
  <2>4. \A b \in Actor : pc'[b] \notin Opens BY <1>3, <2>1 DEF Queued, Opens, Recs
  <2>5. \A b \in Actor : pc'[b] \in Calls => lock'[sess'[b]] = b
    BY <1>3, <1>4, <1>5, <1>0, <2>1, Lengths DEF Queued
  <2> QED BY <1>1, <2>1, <2>2, <2>3, <2>4, <2>5 DEF Queued
<1>12. ASSUME Apart PROVE Staged'
  <2>1. Staged BY <1>12 DEF Inv
  <2>2. up[HostOf[a]] = "starting" BY <1>1, <2>1 DEF Staged, Opens, Ends
  <2>3. \A b \in Actor \ {a} : pc[b] = "idle" BY <1>1, <2>1, <2>2 DEF Staged
  <2>4. \A b \in Actor : pc'[b] = "idle" BY <1>3, <2>3
  <2> QED BY <2>4 DEF Staged, Opens, Recs, Scans, Builds, Ends, Scrubs
<1> QED BY <1>3, <1>6, <1>7, <1>8, <1>9, <1>10, <1>11, <1>12, QuietStep

LEMMA ListCatalogKeeps ==
  ASSUME JournalAssumption, Inv, NEW a \in Actor, ListCatalog(a)
  PROVE  Inv'
<1> USE DEF Label, Calls, Held
<1>0. /\ TypeOK /\ pc \in [Actor -> Label] /\ Behind /\ sess[a] \in Session
      /\ lock \in [Lock -> Actor \cup {Free, Orphan}]
      /\ tail \in [File -> Actor \cup {Clean, Orphan}]
  BY Lengths DEF Inv, TypeOK
<1>1. /\ UNCHANGED <<logVars, bad, proj, base, mark, overlay, pending, memory, up, doomed, faults>>
      /\ pc[a] = "list" /\ Goto(a, "idle")
      /\ lock' = [lock EXCEPT !["catalog"] = Free]
      /\ tail' = [tail EXCEPT !["catalog"] = IF CatalogValid THEN Clean ELSE @]
  BY DEF ListCatalog
<1>2. /\ tail' \in [File -> Actor \cup {Clean, Orphan}]
      /\ \A t \in Session : tail'[t] = tail[t]
  BY <1>0, <1>1, Names
<1>3. /\ lock' \in [Lock -> Actor \cup {Free, Orphan}]
      /\ \A l \in Lock : lock'[l] \in {lock[l], Free}
      /\ \A t \in Session : lock'[t] = lock[t]
  BY <1>0, <1>1, Names
<1>4. /\ pc' \in [Actor -> Label] /\ pc'[a] = "idle" /\ \A b \in Actor \ {a} : pc'[b] = pc[b]
  BY <1>0, <1>1, Sorted
<1>5. TypeOK' BY <1>0, <1>1, <1>2, <1>3 DEF TypeOK, logVars, memory
<1>6. Behind' BY <1>0, <1>1, Uncached DEF logVars, memory
<1>7. Moves(a) BY <1>1, <1>4 DEF Moves, memory
<1>8. Quiet BY <1>1, <1>2 DEF Quiet, logVars
<1>9. Informed(a)' BY <1>4 DEF Informed, Done, Recs
<1>10. (Apart \/ Queued') /\ (Apart => Staged')
  <2>1. pc[a] # "idle" /\ pc'[a] \notin Calls \cup {"lock"} \cup Scrubs \cup Starting
    BY <1>1, <1>4 DEF Scrubs, Starting, Opens, Recs, Scans, Builds, Ends
  <2>2. ASSUME ~Apart
        PROVE  /\ \A k \in Lock : lock'[k] # Orphan
               /\ \A b \in Actor \ {a} : pc[b] \in Calls => lock'[sess[b]] = lock[sess[b]]
    <3>1. Queued BY <2>2 DEF Inv
    <3>2. \A k \in Lock : lock'[k] # Orphan BY <1>3, <3>1, Names DEF Queued
    <3> QED BY <1>0, <1>3, <3>2, Lengths
  <2>3. up' = up /\ doomed' = doomed /\ sess'[a] \in Session BY <1>0, <1>1 DEF memory
  <2> QED BY <1>7, <2>1, <2>2, <2>3, Onward DEF Starting
<1> QED BY <1>4, <1>5, <1>6, <1>7, <1>8, <1>9, <1>10, QuietStep

\* A write throws: only a process alone on its store is let fail.
LEMMA WriteFailsKeeps ==
  ASSUME JournalAssumption, Apart \/ Steady, Inv, NEW a \in Actor, WriteFails(a)
  PROVE  Inv'
<1> USE DEF Label, Calls, Held
<1>0. /\ TypeOK /\ pc \in [Actor -> Label] /\ Behind /\ Informed(a) /\ sess[a] \in Session
      /\ lock \in [Lock -> Actor \cup {Free, Orphan}] /\ faults \in 0 .. MaxFaults
  BY Lengths DEF Inv, TypeOK
<1>1. /\ UNCHANGED <<logVars, disk, memory, up, doomed>>
      /\ faults < MaxFaults /\ faults' = faults + 1
      /\ lock' = lock \/ lock' = [lock EXCEPT !["catalog"] = Free]
  BY DEF WriteFails
<1>2. PICK label \in {"abort", "abort_open"} :
        /\ Goto(a, label)
        /\ label = "abort" => pc[a] \in Calls
        /\ label = "abort_open" => pc[a] \in Recs \cup Scans \cup Builds
        /\ pc[a] # "idle"
  <2>1. CASE pc[a] \in {"repair", "pend", "append", "appending", "project", "clear"} /\ Goto(a, "abort")
    BY <2>1
  <2>2. CASE pc[a] \in {"delta", "deltaing"} /\ Goto(a, "abort") BY <2>2
  <2>3. CASE /\ pc[a] \in {"rec_repair", "rec_project", "rec_delta", "rec_deltaing", "rec_unlink",
                           "scan", "scan_write", "reset", "mark", "unpend"}
             /\ Goto(a, "abort_open")
    BY <2>3 DEF Recs, Scans, Builds
  <2> QED BY <2>1, <2>2, <2>3 DEF WriteFails
<1>3. /\ lock' \in [Lock -> Actor \cup {Free, Orphan}] BY <1>0, <1>1
<1>4. /\ pc' \in [Actor -> Label] /\ pc'[a] = label /\ \A b \in Actor \ {a} : pc'[b] = pc[b]
  <2>1. label \in Label BY <1>2 DEF Ends
  <2> QED BY <1>0, <1>2, <2>1, Sorted
<1>5. TypeOK'
  <2>1. faults' \in 0 .. MaxFaults BY <1>0, <1>1 DEF JournalAssumption
  <2> QED BY <1>0, <1>1, <1>3, <2>1 DEF TypeOK, logVars, disk, memory
<1>6. Behind' BY <1>0, <1>1, Uncached DEF logVars, disk, memory
<1>7. Moves(a) BY <1>1, <1>4 DEF Moves, memory
<1>8. Quiet BY <1>1 DEF Quiet, logVars, disk
<1>9. Informed(a)' BY <1>0, <1>1, <1>2, <1>4 DEF Informed, logVars, disk, memory, Done, Recs
<1>10. Apart BY <1>0, <1>1 DEF Steady
<1>11. (Apart \/ Queued') /\ (Apart => Staged')
  <2>1. pc'[a] \notin Scrubs \cup Opens /\ pc'[a] # "lock"
    BY <1>2, <1>4 DEF Scrubs, Opens, Recs
  <2>2. pc'[a] \in Calls => pc[a] \in Calls BY <1>2, <1>4
  <2>3. pc'[a] \in Scans \cup Builds \cup Ends => pc[a] \in Starting
    BY <1>2, <1>4 DEF Scans, Builds, Ends, Starting, Opens
  <2>4. up' = up /\ doomed' = doomed /\ sess' = sess BY <1>1 DEF memory
  <2> QED BY <1>0, <1>2, <1>7, <1>10, <2>1, <2>2, <2>3, <2>4, Onward
<1> QED BY <1>4, <1>5, <1>6, <1>7, <1>8, <1>9, <1>11, QuietStep

\* A process dies: only one that is alone on its store is let die.
LEMMA CrashKeeps ==
  ASSUME JournalAssumption, Apart \/ Steady, Inv, NEW h \in Host, Crash(h)
  PROVE  Inv'
<1> DEFINE dead == {a \in Actor : HostOf[a] = h}
<1>0. /\ TypeOK /\ pc \in [Actor -> Label] /\ Behind /\ InOrder
      /\ lock \in [Lock -> Actor \cup {Free, Orphan}] /\ faults \in 0 .. MaxFaults
      /\ tail \in [File -> Actor \cup {Clean, Orphan}]
      /\ up \in [Host -> {"down", "starting", "up"}] /\ doomed \subseteq Actor
      /\ HostOf \in [Actor -> Host]
  BY DEF Inv, TypeOK, JournalAssumption
<1>1. /\ faults < MaxFaults /\ faults' = faults + 1
      /\ up' = [up EXCEPT ![h] = "down"]
      /\ lock' = [l \in Lock |-> IF lock[l] \in dead THEN Orphan ELSE lock[l]]
      /\ pc' = [a \in Actor |-> IF a \in dead THEN "idle" ELSE pc[a]]
      /\ doomed' = doomed \ dead
      /\ tail' = [f \in File |-> IF tail[f] \in dead THEN Orphan ELSE tail[f]]
      /\ Forget(dead)
      /\ UNCHANGED <<logVars, bad, proj, base, mark, overlay, pending>>
  BY DEF Crash
<1>2. Apart BY <1>0, <1>1 DEF Steady
<1>3. dead \in SUBSET Actor OBVIOUS
<1>4. /\ com' \in [Actor -> Commit \cup {NoCommit}] /\ seen' \in [Actor -> Seq(Commit)]
      /\ fresh' \in [Actor -> BOOLEAN] /\ todo' \in [Actor -> SUBSET Session]
      /\ view' \in [Actor -> [Session -> Revision]] /\ sess' = sess
      /\ \A b \in Actor \ dead :
           com'[b] = com[b] /\ seen'[b] = seen[b] /\ todo'[b] = todo[b] /\ view'[b] = view[b]
      /\ \A b \in Actor : \A t \in Session : view'[b][t] \in {view[b][t], 0}
  BY <1>0, <1>1, <1>3, Forgotten
<1>5. pc' \in [Actor -> Label]
  <2>1. "idle" \in Label BY DEF Label
  <2> QED BY <1>0, <1>1, <2>1
<1>6. TypeOK'
  <2>1. lock' \in [Lock -> Actor \cup {Free, Orphan}] /\ tail' \in [File -> Actor \cup {Clean, Orphan}]
    BY <1>0, <1>1
  <2>2. up' \in [Host -> {"down", "starting", "up"}] /\ doomed' \subseteq Actor BY <1>0, <1>1
  <2>3. faults' \in 0 .. MaxFaults BY <1>0, <1>1 DEF JournalAssumption
  <2> HIDE DEF dead
  <2> QED BY <1>0, <1>1, <1>4, <2>1, <2>2, <2>3 DEF TypeOK, logVars
<1>7. Behind' BY <1>0, <1>1, <1>4, BehindForgotten DEF logVars
<1>8. InOrder' BY <1>0, <1>1 DEF InOrder, Readable, logVars
<1>9. CASE \A b \in Actor : HostOf[b] = h
  <2>1. \A b \in Actor : pc'[b] = "idle" BY <1>1, <1>9
  <2>2. Staged' BY <2>1 DEF Staged, Opens, Recs, Scans, Builds, Ends, Scrubs, Calls, Held
  <2>3. \A b \in Actor : Informed(b)' BY <2>1 DEF Informed, Recs, Calls, Held, Done
  <2> QED BY <1>2, <1>5, <1>6, <1>7, <1>8, <2>2, <2>3 DEF Inv
<1>10. CASE \A b \in Actor : HostOf[b] # h
  <2>1. dead = {} BY <1>10
  <2>2. tail' = tail /\ pc' = pc BY <1>0, <1>1, <2>1
  <2>3. \A b \in Actor : up'[HostOf[b]] = up[HostOf[b]] BY <1>0, <1>1, <1>10
  <2>4. Staged BY <1>2 DEF Inv
  <2>5. Staged' BY <1>4, <2>2, <2>3, <2>4 DEF Staged
  <2>6. \A b \in Actor : Informed(b)'
    <3> SUFFICES ASSUME NEW b \in Actor PROVE Informed(b)'
      OBVIOUS
    <3>1. Informed(b) BY DEF Inv
    <3>2. com'[b] = com[b] /\ seen'[b] = seen[b] /\ sess' = sess BY <1>4, <2>1
    <3>3. made' = made /\ log' = log BY <1>1 DEF logVars
    <3> QED BY <2>2, <3>1, <3>2, <3>3 DEF Informed
  <2> QED BY <1>2, <1>5, <1>6, <1>7, <1>8, <2>5, <2>6 DEF Inv
<1> QED BY <1>2, <1>9, <1>10 DEF Apart

-----------------------------------------------------------------------------
(* The journal is in order and implements the log *)

LEMMA InitInv ==
  ASSUME JournalAssumption, Apart \/ Steady, JournalInit
  PROVE  Inv
<1>1. /\ made = [c \in Commit |-> NoCommit] /\ log = [s \in Session |-> <<>>] /\ acked = {}
      /\ tail = [f \in File |-> Clean] /\ bad = {}
      /\ proj = [s \in Session |-> 0] /\ base = [s \in Session |-> 0]
      /\ mark = IF Running = {} THEN {} ELSE {base}
      /\ overlay = [s \in Session |-> 0] /\ pending = {}
      /\ lock = [l \in Lock |-> Free]
      /\ up = [h \in Host |-> IF h \in Running THEN "up" ELSE "down"]
      /\ pc = [a \in Actor |-> "idle"]
      /\ sess = [a \in Actor |-> CHOOSE s \in Session : TRUE]
      /\ com = [a \in Actor |-> NoCommit] /\ seen = [a \in Actor |-> <<>>]
      /\ fresh = [a \in Actor |-> FALSE] /\ todo = [a \in Actor |-> {}]
      /\ view = [a \in Actor |-> [s \in Session |-> 0]]
      /\ doomed = {} /\ faults = 0
  BY DEF JournalInit, LogInit
<1>2. Cardinality(Commit) \in Nat BY FS_CardinalityType DEF JournalAssumption
<1>3. 0 \in Revision BY <1>2 DEF Revision
<1>4. <<>> \in Seq(Commit) /\ Len(<<>>) = 0 OBVIOUS
<1>5. (CHOOSE s \in Session : TRUE) \in Session BY DEF JournalAssumption
<1>6. TypeOK
  <2>1. made \in [Commit -> Proposal \cup {NoCommit}] /\ log \in [Session -> Seq(Commit)]
        /\ acked \subseteq Commit
    BY <1>1, <1>4
  <2>2. tail \in [File -> Actor \cup {Clean, Orphan}] /\ bad \subseteq File /\ pending \subseteq Session
        /\ lock \in [Lock -> Actor \cup {Free, Orphan}] /\ doomed \subseteq Actor
    BY <1>1
  <2>3. /\ proj \in [Session -> Revision] /\ base \in [Session -> Revision]
        /\ overlay \in [Session -> Revision] /\ view \in [Actor -> [Session -> Revision]]
    BY <1>1, <1>3
  <2>4. mark \subseteq [Session -> Revision] BY <1>1, <2>3
  <2>5. up \in [Host -> {"down", "starting", "up"}] BY <1>1
  <2>6. sess \in [Actor -> Session] BY <1>1, <1>5
  <2>7. com \in [Actor -> Commit \cup {NoCommit}] /\ seen \in [Actor -> Seq(Commit)]
        /\ fresh \in [Actor -> BOOLEAN] /\ todo \in [Actor -> SUBSET Session]
    BY <1>1, <1>4
  <2>8. faults \in 0 .. MaxFaults BY <1>1 DEF JournalAssumption
  <2> QED BY <2>1, <2>2, <2>3, <2>4, <2>5, <2>6, <2>7, <2>8 DEF TypeOK
<1>7. pc \in [Actor -> Label] BY <1>1 DEF Label
<1>a. \A s \in Session : Len(log[s]) = 0
  <2> TAKE s \in Session
  <2>1. log[s] = <<>> BY <1>1
  <2> QED BY <2>1
<1>b. bad = {} /\ \A s \in Session : 1 .. Len(log[s]) = {} BY <1>1, <1>a
<1>8. InOrder BY ONLY <1>b DEF InOrder, Readable
<1>9. Behind
  <2>1. \A m \in mark : m = base BY <1>1
  <2>2. \A s \in Session : proj[s] = 0 /\ base[s] = 0 /\ overlay[s] = 0 BY <1>1
  <2>3. \A a \in Actor : \A s \in Session : view[a][s] = 0 BY <1>1
  <2>4. ASSUME NEW s \in Session
        PROVE  /\ proj[s] <= Len(log[s]) /\ base[s] <= Len(log[s]) /\ overlay[s] <= Len(log[s])
               /\ \A m \in mark : m[s] <= Len(log[s])
               /\ \A a \in Actor : view[a][s] <= Len(log[s])
    <3>1. proj[s] = 0 /\ base[s] = 0 /\ overlay[s] = 0 /\ Len(log[s]) = 0 BY <1>a, <2>2
    <3>2. \A m \in mark : m[s] = 0 BY <2>1, <3>1
    <3>3. \A a \in Actor : view[a][s] = 0 BY <2>3
    <3> QED BY ONLY <3>1, <3>2, <3>3
  <2> QED BY ONLY <2>4 DEF Behind
<1>10. ASSUME ~Apart PROVE Queued
  <2>1. Steady BY <1>10
  <2>2. \A a \in Actor : up[HostOf[a]] = "up" BY <1>1, <2>1 DEF Steady, JournalAssumption
  <2>3. \A l \in Lock : lock[l] # Orphan BY <1>1, Names
  <2> QED BY <1>1, <2>2, <2>3 DEF Queued, Opens, Recs, Calls, Held
<1>11. Staged BY <1>1 DEF Staged, Opens, Recs, Scans, Builds, Ends, Scrubs, Calls, Held
<1>12. \A a \in Actor : Informed(a) BY <1>1 DEF Informed, Recs, Calls, Held, Done
<1> QED BY <1>6, <1>7, <1>8, <1>9, <1>10, <1>11, <1>12 DEF Inv

LEMMA AppendCommitKeeps ==
  ASSUME JournalAssumption, Apart \/ Steady, Inv, NEW a \in Actor, AppendCommit(a)
  PROVE  Inv' /\ [LogNext]_logVars
<1>0. sess[a] \in Session /\ sess[a] \in Lock /\ "catalog" \in Lock
  BY Lengths, Names DEF Inv
<1>1. ASSUME NEW s \in Session, NEW c \in Commit, Begin(a, s, c) PROVE Inv' /\ [LogNext]_logVars
  <2>1. Inv' /\ (UNCHANGED logVars \/ Make(c, s, proj[s] + 1))
        /\ proj[s] + 1 \in 1 .. Len(log[s]) + 1
    BY <1>1, BeginKeeps
  <2> QED BY <2>1 DEF LogNext
<1>2. CASE pc[a] = "lock" /\ Acquire(a, sess[a], "read")
  <2>1. Inv' BY <1>0, <1>2, AcquireKeeps
  <2> QED BY <1>2, <2>1 DEF Acquire
<1>3. CASE ReadJournal(a)
  <2>1. Inv' BY <1>3, ReadJournalKeeps
  <2> QED BY <1>3, <2>1 DEF ReadJournal
<1>4. CASE RepairTail(a) BY <1>4, RepairTailKeeps
<1>5. CASE MarkPending(a) \/ ClearPending(a)
  <2>1. Inv' BY <1>5, MarkersKeep
  <2> QED BY <1>5, <2>1 DEF MarkPending, ClearPending
<1>6. CASE AppendRecord(a)
  <2>1. Inv' BY <1>6, AppendRecordKeeps
  <2> QED BY <1>6, <2>1 DEF AppendRecord
<1>7. CASE AppendSynced(a)
  <2>1. Inv' /\ com[a] \in Commit /\ sess[a] \in Session /\ Extend(com[a], sess[a])
    BY <1>7, AppendSyncedKeeps
  <2> QED BY <2>1 DEF LogNext
<1>8. CASE WriteProjection(a)
  <2>1. Inv' BY <1>8, ProjectionKeeps
  <2> QED BY <1>8, <2>1 DEF WriteProjection
<1>9. CASE pc[a] = "catalog" /\ Acquire(a, "catalog", Then[pc[a]])
  <2>1. Inv' BY <1>0, <1>9, AcquireKeeps, Following
  <2> QED BY <1>9, <2>1 DEF Acquire
<1>10. CASE AppendDelta(a)
  <2>1. Inv' BY <1>10, DeltaKeeps
  <2> QED BY <1>10, <2>1 DEF AppendDelta
<1>11. CASE DeltaSynced(a)
  <2>1. Inv' BY <1>11, DeltaSyncedKeeps
  <2> QED BY <1>11, <2>1 DEF DeltaSynced
<1>12. CASE Receipt(a) \/ Abort(a)
  <2>1. Inv' /\ (UNCHANGED logVars \/ (com[a] \in Commit /\ Ack(com[a])))
    BY <1>12, ReleaseKeeps
  <2> QED BY <2>1 DEF LogNext
<1> QED BY <1>1, <1>2, <1>3, <1>4, <1>5, <1>6, <1>7, <1>8, <1>9, <1>10, <1>11, <1>12
    DEF AppendCommit

LEMMA InitializeKeeps ==
  ASSUME JournalAssumption, Apart \/ Steady, Inv, NEW a \in Actor, Initialize(a)
  PROVE  Inv' /\ UNCHANGED logVars
<1>0. "catalog" \in Lock BY Names
<1>1. CASE Start(a) \/ Scrub(a) \/ List(a)
  <2>1. Inv' BY <1>1, EnterKeeps
  <2> QED BY <1>1, <2>1 DEF Start, Scrub, List
<1>2. CASE pc[a] = "open_lock" /\ Acquire(a, "catalog", "open")
  <2>1. Inv' BY <1>0, <1>2, AcquireKeeps
  <2> QED BY <1>2, <2>1 DEF Acquire
<1>3. CASE pc[a] = "scrub_lock" /\ Acquire(a, "catalog", "scrub")
  <2>1. Inv' BY <1>0, <1>3, AcquireKeeps
  <2> QED BY <1>3, <2>1 DEF Acquire
<1>4. CASE pc[a] = "list_lock" /\ Acquire(a, "catalog", "list")
  <2>1. Inv' BY <1>0, <1>4, AcquireKeeps
  <2> QED BY <1>4, <2>1 DEF Acquire
<1>5. CASE OpenFast(a) \/ OpenDeep(a) \/ WriteBase(a) \/ ResetDeltas(a) \/ WriteMark(a)
  <2>1. Inv' BY <1>5, RebuildKeeps
  <2> QED BY <1>5, <2>1 DEF OpenFast, OpenDeep, WriteBase, ResetDeltas, WriteMark
<1>6. ASSUME NEW s \in Session, RecoverRead(a, s) \/ ScanRead(a, s) PROVE Inv' /\ UNCHANGED logVars
  <2>1. Inv' BY <1>6, StartReadsKeep
  <2> QED BY <1>6, <2>1 DEF RecoverRead, ScanRead
<1>7. CASE RecoverUnlink(a) \/ ClearAllPending(a)
  <2>1. Inv' BY <1>7, MarkersKeep
  <2> QED BY <1>7, <2>1 DEF RecoverUnlink, ClearAllPending
<1>8. CASE ScanWrite(a)
  <2>1. Inv' BY <1>8, ProjectionKeeps
  <2> QED BY <1>8, <2>1 DEF ScanWrite
<1>9. CASE Opened(a) \/ AbortOpen(a)
  <2>1. Inv' BY <1>9, EndKeeps
  <2> QED BY <1>9, <2>1 DEF Opened, AbortOpen
<1>10. CASE ListCatalog(a)
  <2>1. Inv' BY <1>10, ListCatalogKeeps
  <2> QED BY <1>10, <2>1 DEF ListCatalog
<1> QED BY <1>1, <1>2, <1>3, <1>4, <1>5, <1>6, <1>7, <1>8, <1>9, <1>10 DEF Initialize

\* Every step keeps the invariant, and is a step of the log or none.
LEMMA JournalKeeps ==
  ASSUME JournalAssumption, Apart \/ Steady, Inv, [JournalNext]_vars
  PROVE  Inv' /\ [LogNext]_logVars
<1>1. ASSUME NEW a \in Actor, AppendCommit(a) PROVE Inv' /\ [LogNext]_logVars
  BY <1>1, AppendCommitKeeps
<1>2. ASSUME NEW a \in Actor, Initialize(a) PROVE Inv' /\ [LogNext]_logVars
  BY <1>2, InitializeKeeps
<1>3. ASSUME NEW a \in Actor, SeeStale(a) \/ UnlinkStale(a) PROVE Inv' /\ [LogNext]_logVars
  <2>1. Inv' BY <1>3, StaleKeeps
  <2> QED BY <1>3, <2>1 DEF SeeStale, UnlinkStale
<1>4. ASSUME NEW a \in Actor, GiveUp(a) PROVE Inv' /\ [LogNext]_logVars
  <2>1. Inv' BY <1>4, GiveUpKeeps
  <2> QED BY <1>4, <2>1 DEF GiveUp
<1>5. ASSUME NEW a \in Actor, WriteFails(a) PROVE Inv' /\ [LogNext]_logVars
  <2>1. Inv' BY <1>5, WriteFailsKeeps
  <2> QED BY <1>5, <2>1 DEF WriteFails
<1>6. ASSUME NEW h \in Host, Crash(h) PROVE Inv' /\ [LogNext]_logVars
  <2>1. Inv' BY <1>6, CrashKeeps
  <2> QED BY <1>6, <2>1 DEF Crash
<1>7. CASE UNCHANGED vars
  <2>1. UNCHANGED <<logVars, disk, memory, lock, up, pc, doomed, faults>> BY <1>7 DEF vars
  <2>2. /\ UNCHANGED <<made, log, acked, tail, bad, proj, base, mark, overlay, pending>>
        /\ UNCHANGED <<sess, com, seen, fresh, todo, view, lock, up, pc, doomed, faults>>
    BY <2>1 DEF logVars, disk, memory
  <2>3. TypeOK' BY <2>2 DEF Inv, TypeOK
  <2>4. InOrder' /\ Behind' BY <2>2 DEF Inv, InOrder, Readable, Behind
  <2>5. (Apart \/ Queued') /\ (Apart => Staged') BY <2>2 DEF Inv, Queued, Staged
  <2>6. \A a \in Actor : Informed(a)' BY <2>2 DEF Inv, Informed, Occurs
  <2>7. pc' \in [Actor -> Label] BY <2>2 DEF Inv
  <2>8. Inv' BY <2>3, <2>4, <2>5, <2>6, <2>7 DEF Inv
  <2> QED BY <2>1, <2>8
<1> QED BY <1>1, <1>2, <1>3, <1>4, <1>5, <1>6, <1>7 DEF JournalNext

-----------------------------------------------------------------------------
(* A process alone on its store leaves no unmarked stale entry *)

Marked(s) ==
  proj[s] # Len(log[s]) \/ (CatalogValid /\ Catalog(s) # Len(log[s])) => s \in pending

\* The calls whose operation leaves something behind.
Guarded == {"append", "appending", "catalog", "delta", "deltaing", "clear", "rec_delta",
            "rec_deltaing", "rec_unlink"} \cup Scans \cup Builds

LEMMA AllMarked == StaleIsPending <=> \A s \in Session : Marked(s)
BY DEF StaleIsPending, Marked

LEMMA Unguarded == ASSUME NEW a, pc[a] \notin Guarded PROVE Prepared(a)
BY DEF Prepared, Guarded, Scans, Builds

\* No cache, marker or journal is changed; a partial line may be.
Calm ==
  /\ log' = log /\ proj' = proj /\ base' = base /\ mark' = mark /\ overlay' = overlay
  /\ pending' = pending /\ ("catalog" \in bad' <=> "catalog" \in bad)

LEMMA CalmStale ==
  ASSUME StaleIsPending, Newer, Calm PROVE (StaleIsPending /\ Newer)'
BY DEF StaleIsPending, Newer, Calm, CatalogValid, Catalog

LEMMA CalmPrepared ==
  ASSUME NEW b, Prepared(b), Calm,
         pc'[b] = pc[b], sess'[b] = sess[b], seen'[b] = seen[b], todo'[b] = todo[b],
         view'[b] = view[b]
  PROVE  Prepared(b)'
BY DEF Prepared, Calm, Listed, CatalogValid, Catalog

LEMMA CalmStep ==
  ASSUME CrashInv, NEW a \in Actor, Calm, Moves(a), Prepared(a)'
  PROVE  CrashInv'
<1>1. ASSUME NEW b \in Actor \ {a} PROVE Prepared(b)'
  BY CalmPrepared DEF CrashInv, Moves
<1>2. (StaleIsPending /\ Newer)' BY CalmStale DEF CrashInv
<1> QED BY <1>1, <1>2 DEF CrashInv

LEMMA CalmUnguarded ==
  ASSUME CrashInv, NEW a \in Actor, Calm, Moves(a), pc'[a] \notin Guarded
  PROVE  CrashInv'
<1>1. Prepared(a)' BY DEF Prepared, Guarded, Scans, Builds
<1> QED BY <1>1, CalmStep

\* While one operation starts the process, the others are idle.
LEMMA OthersIdle ==
  ASSUME Apart, Inv, NEW a \in Actor, pc[a] \in Starting
  PROVE  \A b \in Actor \ {a} : pc[b] = "idle"
<1>1. Staged BY DEF Inv
<1>2. up[HostOf[a]] = "starting" /\ pc[a] # "idle"
  BY <1>1 DEF Staged, Starting, Opens, Recs, Scans, Builds, Ends
<1> QED BY <1>1, <1>2 DEF Staged

LEMMA OthersServe ==
  ASSUME Apart, Inv, NEW a \in Actor, pc[a] # "idle", NEW b \in Actor \ {a}
  PROVE  pc[b] \notin Starting
<1>1. pc[b] \in Starting => pc[a] = "idle" BY OthersIdle
<1> QED BY <1>1

\* A step of an operation touches nothing of the sessions of others.
LEMMA SessionStep ==
  ASSUME JournalAssumption, Apart, Inv, CrashInv, NEW a \in Actor, Moves(a), Works(a),
         sess'[a] = sess[a], base' = base, mark' = mark, "catalog" \in bad => "catalog" \in bad',
         \A t \in Session \ {sess[a]} :
            /\ t \in pending => t \in pending'
            /\ proj'[t] = proj[t] /\ log'[t] = log[t] /\ overlay'[t] = overlay[t],
         Marked(sess[a])',
         \A m \in mark : overlay'[sess[a]] = 0 \/ m[sess[a]] <= overlay'[sess[a]],
         Prepared(a)'
  PROVE  CrashInv'
<1>0. CatalogValid' => CatalogValid BY DEF CatalogValid
<1>1. ASSUME NEW t \in Session, t # sess[a] PROVE Marked(t)' /\ (Listed(t) => Listed(t)')
  <2>1. /\ t \in pending => t \in pending'
        /\ proj'[t] = proj[t] /\ log'[t] = log[t] /\ overlay'[t] = overlay[t]
    BY <1>1
  <2>2. Marked(t) BY AllMarked DEF CrashInv
  <2>3. Catalog(t)' = Catalog(t) BY <2>1 DEF Catalog
  <2> QED BY <1>0, <2>1, <2>2, <2>3 DEF Marked, Listed
<1>2. \A t \in Session : Marked(t)'
  <2>1. \A t \in Session \ {sess[a]} : Marked(t)' BY <1>1
  <2>2. ASSUME NEW t \in Session, t = sess[a] PROVE Marked(t)'
    BY <2>2 DEF Marked, CatalogValid, Catalog
  <2> QED BY <2>1, <2>2
<1>3. StaleIsPending' BY <1>2 DEF StaleIsPending, Marked
<1>4. Newer'
  <2> SUFFICES ASSUME NEW m \in mark, NEW t \in Session PROVE overlay'[t] = 0 \/ m[t] <= overlay'[t]
    BY DEF Newer
  <2>1. CASE t = sess[a] BY <2>1
  <2>2. CASE t # sess[a] BY <2>2 DEF CrashInv, Newer
  <2> QED BY <2>1, <2>2
<1>5. ASSUME NEW b \in Actor \ {a} PROVE Prepared(b)'
  <2>1. /\ pc'[b] = pc[b] /\ sess'[b] = sess[b] /\ seen'[b] = seen[b] /\ sess[b] \in Session
    BY Lengths DEF Moves, Inv
  <2>2. pc[b] \notin Starting
    BY OthersServe DEF Works, Calls, Held, Recs
  <2>3. CASE pc[b] \notin Calls
    <3>1. pc'[b] \notin Guarded
      BY <2>1, <2>2, <2>3 DEF Guarded, Starting, Opens, Recs, Scans, Builds, Calls, Held
    <3> QED BY <3>1 DEF Prepared, Guarded, Scans, Builds
  <2>4. CASE pc[b] \in Calls
    <3>1. sess[b] # sess[a] BY <2>4, Exclusive DEF Works
    <3>2. /\ sess[b] \in pending => sess[b] \in pending'
          /\ proj'[sess[b]] = proj[sess[b]] /\ log'[sess[b]] = log[sess[b]]
      BY <2>1, <3>1
    <3>3. Listed(sess[b]) => Listed(sess[b])' BY <1>1, <2>1, <3>1
    <3>5. Prepared(b) BY DEF CrashInv
    <3>6. pc'[b] \notin Scans \cup Builds BY <2>1, <2>2 DEF Starting
    <3>7. pc'[b] # "rec_unlink" /\ pc'[b] # "scan_write" BY <2>1, <2>4 DEF Calls, Held
    <3> QED BY <2>1, <3>2, <3>3, <3>5, <3>6, <3>7 DEF Prepared, Builds
  <2> QED BY <2>3, <2>4
<1> QED BY <1>3, <1>4, <1>5 DEF CrashInv

\* An empty journal has nothing stale.
LEMMA EmptyListed ==
  ASSUME JournalAssumption, Inv, NEW s \in Session, log[s] = <<>>
  PROVE  proj[s] = Len(log[s]) /\ view \in [Actor -> [Session -> Nat]] /\ Listed(s)
         /\ \A a \in Actor : view[a][s] = Len(log[s])
<1>1. Cardinality(Commit) \in Nat BY FS_CardinalityType DEF JournalAssumption
<1>2. /\ proj \in [Session -> Nat] /\ base \in [Session -> Nat] /\ overlay \in [Session -> Nat]
      /\ view \in [Actor -> [Session -> Nat]]
  BY <1>1 DEF Inv, TypeOK, Revision
<1>3. Len(log[s]) = 0 OBVIOUS
<1>4. proj[s] <= 0 /\ base[s] <= 0 /\ overlay[s] <= 0 /\ \A a \in Actor : view[a][s] <= 0
  BY <1>3 DEF Inv, Behind
<1>5. proj[s] = 0 /\ base[s] = 0 /\ overlay[s] = 0 BY <1>2, <1>4
<1>6. \A a \in Actor : view[a][s] = 0 BY <1>2, <1>4
<1> QED BY <1>2, <1>3, <1>5, <1>6 DEF Listed, Catalog

\* The steps of appendCommit that change no cache.
LEMMA CalmAppend ==
  ASSUME JournalAssumption, Inv, CrashInv, NEW a \in Actor,
         \/ \E s \in Session : \E c \in Commit : Begin(a, s, c)
         \/ pc[a] = "lock" /\ Acquire(a, sess[a], "read")
         \/ ReadJournal(a)
         \/ pc[a] = "catalog" /\ Acquire(a, "catalog", Then[pc[a]])
         \/ Receipt(a) \/ Abort(a)
  PROVE  CrashInv'
<1>0. TypeOK /\ pc \in [Actor -> Label] /\ Prepared(a) BY DEF Inv, CrashInv
<1>1. ASSUME NEW s \in Session, NEW c \in Commit, Begin(a, s, c) PROVE CrashInv'
  <2>1. pc'[a] = "lock" /\ \A b \in Actor \ {a} : pc'[b] = pc[b] BY <1>0, <1>1 DEF Begin, Goto
  <2>2. \A b \in Actor \ {a} : sess'[b] = sess[b] /\ com'[b] = com[b]
    BY <1>0, <1>1 DEF Begin, TypeOK
  <2>3. Moves(a) BY <1>1, <2>1, <2>2 DEF Begin, Moves
  <2>4. log' = log BY <1>1 DEF Begin, Make, logVars
  <2>5. Calm BY <1>1, <2>4 DEF Calm, Begin, disk
  <2>6. pc'[a] \notin Guarded BY <2>1 DEF Guarded, Scans, Builds
  <2> QED BY <2>3, <2>5, <2>6, CalmUnguarded
<1>2. CASE pc[a] = "lock" /\ Acquire(a, sess[a], "read")
  <2>1. pc'[a] = "read" /\ \A b \in Actor \ {a} : pc'[b] = pc[b] BY <1>0, <1>2 DEF Acquire, Goto
  <2>2. Moves(a) /\ Calm BY <1>2, <2>1 DEF Acquire, Moves, Calm, memory, disk, logVars
  <2>3. pc'[a] \notin Guarded BY <2>1 DEF Guarded, Scans, Builds
  <2> QED BY <2>2, <2>3, CalmUnguarded
<1>3. CASE ReadJournal(a)
  <2>1. /\ pc'[a] \in {"abort", "repair", "project", "pend"}
        /\ \A b \in Actor \ {a} : pc'[b] = pc[b]
    BY <1>0, <1>3, Decided DEF ReadJournal, Goto
  <2>2. \A b \in Actor \ {a} : seen'[b] = seen[b]
    <3>1. seen' = seen \/ seen' = [seen EXCEPT ![a] = log[sess[a]]] BY <1>3 DEF ReadJournal
    <3> QED BY <1>0, <3>1 DEF TypeOK
  <2>3. Moves(a) /\ Calm BY <1>3, <2>1, <2>2 DEF ReadJournal, Moves, Calm, disk, logVars
  <2>4. pc'[a] \notin Guarded BY <2>1 DEF Guarded, Scans, Builds
  <2> QED BY <2>3, <2>4, CalmUnguarded
<1>4. CASE pc[a] = "catalog" /\ Acquire(a, "catalog", Then[pc[a]])
  <2>1. pc'[a] = "delta" /\ \A b \in Actor \ {a} : pc'[b] = pc[b]
    BY <1>0, <1>4, Following DEF Acquire, Goto
  <2>2. Moves(a) /\ Calm /\ sess' = sess
    BY <1>4, <2>1 DEF Acquire, Moves, Calm, memory, disk, logVars
  <2>3. proj[sess[a]] = Len(log[sess[a]]) BY <1>0, <1>4 DEF Prepared
  <2>4. Prepared(a)' BY <2>1, <2>2, <2>3 DEF Prepared, Calm, Scans, Builds
  <2> QED BY <2>2, <2>4, CalmStep
<1>5. CASE Receipt(a) \/ Abort(a)
  <2>1. /\ Forget({a}) /\ Goto(a, "idle") /\ log' = log /\ UNCHANGED disk
    BY <1>5 DEF Receipt, Abort, Return, logVars
  <2>2. pc'[a] = "idle" /\ \A b \in Actor \ {a} : pc'[b] = pc[b] BY <1>0, <2>1 DEF Goto
  <2>3. Moves(a) BY <1>0, <2>1, <2>2, Forgotten DEF Moves
  <2>4. Calm BY <2>1 DEF Calm, disk
  <2>5. pc'[a] \notin Guarded BY <2>2 DEF Guarded, Scans, Builds
  <2> QED BY <2>3, <2>4, <2>5, CalmUnguarded
<1> QED BY <1>1, <1>2, <1>3, <1>4, <1>5

\* The steps that change a partial line only.
LEMMA CalmLines ==
  ASSUME JournalAssumption, Inv, CrashInv, NEW a \in Actor,
         RepairTail(a) \/ AppendRecord(a) \/ AppendDelta(a)
  PROVE  CrashInv'
<1>0. TypeOK /\ pc \in [Actor -> Label] /\ Prepared(a) /\ Informed(a) /\ sess[a] \in Session
  BY Lengths DEF Inv, CrashInv
<1>1. CASE RepairTail(a)
  <2>1. log' = log BY <1>1, RepairTailKeeps DEF logVars
  <2>2. /\ bad' = bad \ {sess[a]} /\ UNCHANGED <<proj, base, mark, overlay, pending>>
        /\ UNCHANGED memory
    BY <1>1 DEF RepairTail, Truncate
  <2>3. Calm BY <1>0, <2>1, <2>2, Names DEF Calm
  <2>4. PICK label \in {"project", "abort", "pend", "rec_unlink", "rec_project"} :
          /\ Goto(a, label)
          /\ label = "rec_unlink" => pc[a] = "rec_repair" /\ seen[a] = <<>>
    BY <1>1, Decided, Following DEF RepairTail
  <2>5. pc'[a] = label /\ \A b \in Actor \ {a} : pc'[b] = pc[b] BY <1>0, <2>4 DEF Goto
  <2>6. Moves(a) BY <2>2, <2>5 DEF Moves, memory
  <2>7. CASE label = "rec_unlink"
    <3>1. log[sess[a]] = <<>> BY <1>0, <2>4, <2>7 DEF Informed, Recs
    <3>2. proj[sess[a]] = Len(log[sess[a]]) /\ Listed(sess[a]) BY <1>0, <3>1, EmptyListed
    <3>3. sess' = sess BY <2>2 DEF memory
    <3>4. Prepared(a)'
      BY <2>3, <2>5, <2>7, <3>2, <3>3 DEF Prepared, Calm, Listed, CatalogValid, Catalog, Scans, Builds
    <3> QED BY <2>3, <2>6, <3>4, CalmStep
  <2>8. CASE label # "rec_unlink"
    <3>1. pc'[a] \notin Guarded BY <2>4, <2>5, <2>8 DEF Guarded, Scans, Builds
    <3> QED BY <2>3, <2>6, <3>1, CalmUnguarded
  <2> QED BY <2>7, <2>8
<1>2. CASE AppendRecord(a)
  <2>1. pc[a] = "append" /\ Goto(a, "appending") BY <1>2, Following DEF AppendRecord
  <2>2. pc'[a] = "appending" /\ \A b \in Actor \ {a} : pc'[b] = pc[b] BY <1>0, <2>1 DEF Goto
  <2>3. Moves(a) /\ Calm /\ sess' = sess
    BY <1>2, <2>2 DEF AppendRecord, Moves, Calm, memory, logVars
  <2>4. sess[a] \in pending BY <1>0, <2>1 DEF Prepared
  <2>5. Prepared(a)' BY <2>2, <2>3, <2>4 DEF Prepared, Calm, Scans, Builds
  <2> QED BY <2>3, <2>5, CalmStep
<1>3. CASE AppendDelta(a)
  <2>1. PICK label \in {"deltaing", "rec_deltaing"} : Goto(a, label)
    BY <1>3, Following DEF AppendDelta
  <2>2. pc'[a] = label /\ \A b \in Actor \ {a} : pc'[b] = pc[b] BY <1>0, <2>1 DEF Goto
  <2>3. Moves(a) /\ Calm /\ sess' = sess
    BY <1>3, <2>2 DEF AppendDelta, Moves, Calm, memory, logVars
  <2>4. proj[sess[a]] = Len(log[sess[a]]) BY <1>0, <1>3 DEF Prepared, AppendDelta
  <2>5. Prepared(a)' BY <2>1, <2>2, <2>3, <2>4 DEF Prepared, Calm, Scans, Builds
  <2> QED BY <2>3, <2>5, CalmStep
<1> QED BY <1>1, <1>2, <1>3

\* The steps of a start and of a reading that change no cache.
LEMMA CalmStart ==
  ASSUME JournalAssumption, Apart, Inv, CrashInv, NEW a \in Actor,
         \/ Start(a) \/ Scrub(a) \/ List(a) \/ OpenFast(a) \/ Opened(a) \/ AbortOpen(a)
         \/ ListCatalog(a)
         \/ pc[a] = "open_lock" /\ Acquire(a, "catalog", "open")
         \/ pc[a] = "scrub_lock" /\ Acquire(a, "catalog", "scrub")
         \/ pc[a] = "list_lock" /\ Acquire(a, "catalog", "list")
         \/ GiveUp(a) \/ WriteFails(a)
  PROVE  CrashInv'
<1>0. TypeOK /\ pc \in [Actor -> Label] BY DEF Inv
<1>1. Calm
  BY DEF Start, Scrub, List, OpenFast, Opened, AbortOpen, ListCatalog, Acquire, GiveUp, WriteFails,
         Calm, disk, logVars
<1>2. PICK label \in {"open_lock", "scrub_lock", "list_lock", "recover", "abort_open", "idle", "open",
                      "scrub", "list", "abort"} : Goto(a, label)
  BY DEF Start, Scrub, List, OpenFast, Opened, AbortOpen, ListCatalog, Acquire, GiveUp, WriteFails,
         Return
<1>3. pc'[a] = label /\ \A b \in Actor \ {a} : pc'[b] = pc[b] BY <1>0, <1>2 DEF Goto
<1>4. pc'[a] \notin Guarded BY <1>2, <1>3 DEF Guarded, Scans, Builds
<1>5. CASE Opened(a) \/ AbortOpen(a)
  <2>1. Forget({a}) BY <1>5 DEF Opened, AbortOpen, Return
  <2>2. Moves(a) BY <1>0, <1>3, <2>1, Forgotten DEF Moves
  <2> QED BY <1>1, <1>4, <2>2, CalmUnguarded
<1>6. CASE OpenFast(a)
  <2>1. /\ UNCHANGED <<sess, com, seen, view>>
        /\ todo' = todo \/ todo' = [todo EXCEPT ![a] = pending]
    BY <1>6 DEF OpenFast
  <2>2. \A b \in Actor \ {a} : todo'[b] = todo[b] BY <1>0, <2>1 DEF TypeOK
  <2>3. Moves(a) BY <1>3, <2>1, <2>2 DEF Moves
  <2> QED BY <1>1, <1>4, <2>3, CalmUnguarded
<1>7. CASE ~(Opened(a) \/ AbortOpen(a) \/ OpenFast(a))
  <2>1. UNCHANGED memory
    BY <1>7 DEF Start, Scrub, List, ListCatalog, Acquire, GiveUp, WriteFails
  <2>2. Moves(a) BY <1>3, <2>1 DEF Moves, memory
  <2> QED BY <1>1, <1>4, <2>2, CalmUnguarded
<1> QED BY <1>5, <1>6, <1>7

LEMMA CalmStaleLocks ==
  ASSUME JournalAssumption, Inv, CrashInv, NEW a \in Actor, SeeStale(a) \/ UnlinkStale(a)
  PROVE  CrashInv'
<1>1. UNCHANGED <<logVars, disk, memory, pc>> BY DEF SeeStale, UnlinkStale
<1>2. Calm /\ Moves(a) BY <1>1 DEF Calm, Moves, logVars, disk, memory
<1>3. Prepared(a)' BY <1>1, <1>2, CalmPrepared DEF CrashInv, memory
<1> QED BY <1>2, <1>3, CalmStep

\* What a start reads without changing the disk.
LEMMA CalmReads ==
  ASSUME JournalAssumption, Inv, CrashInv, NEW a \in Actor,
         OpenDeep(a) \/ \E s \in Session : RecoverRead(a, s) \/ ScanRead(a, s)
  PROVE  CrashInv'
<1>0. /\ TypeOK /\ pc \in [Actor -> Label] /\ Prepared(a) /\ InOrder
      /\ sess \in [Actor -> Session] /\ seen \in [Actor -> Seq(Commit)]
      /\ todo \in [Actor -> SUBSET Session] /\ view \in [Actor -> [Session -> Revision]]
  BY DEF Inv, CrashInv, TypeOK
<1>1. CASE OpenDeep(a)
  <2>1. /\ UNCHANGED <<logVars, disk, sess, com, seen>> /\ Goto(a, "scan")
        /\ todo' = [todo EXCEPT ![a] = Session]
        /\ view' = [view EXCEPT ![a] = [s \in Session |-> 0]]
    BY <1>1 DEF OpenDeep
  <2>2. pc'[a] = "scan" /\ \A b \in Actor \ {a} : pc'[b] = pc[b] BY <1>0, <2>1 DEF Goto
  <2>3. todo'[a] = Session /\ \A b \in Actor \ {a} : todo'[b] = todo[b] /\ view'[b] = view[b]
    BY <1>0, <2>1
  <2>4. Moves(a) BY <2>1, <2>2, <2>3 DEF Moves
  <2>5. Calm BY <2>1 DEF Calm, disk, logVars
  <2>6. Prepared(a)' BY <2>2, <2>3 DEF Prepared, Builds
  <2> QED BY <2>4, <2>5, <2>6, CalmStep
<1>2. ASSUME NEW s \in Session, RecoverRead(a, s) PROVE CrashInv'
  <2>1. /\ UNCHANGED <<logVars, disk, com, todo, view>> /\ sess' = [sess EXCEPT ![a] = s]
        /\ seen' = seen \/ seen' = [seen EXCEPT ![a] = log[s]]
    BY <1>2 DEF RecoverRead
  <2>2. PICK label \in {"abort_open", "rec_repair", "rec_unlink", "rec_project"} :
          Goto(a, label) /\ (label = "rec_unlink" => log[s] = <<>>)
    <3>1. CASE s \notin pending \/ ~Readable(s) BY <1>2, <3>1 DEF RecoverRead
    <3>2. CASE ~(s \notin pending \/ ~Readable(s)) BY <1>2, <3>2 DEF RecoverRead
    <3> QED BY <3>1, <3>2
  <2>3. pc'[a] = label /\ \A b \in Actor \ {a} : pc'[b] = pc[b] BY <1>0, <2>2 DEF Goto
  <2>4. sess'[a] = s /\ \A b \in Actor \ {a} : sess'[b] = sess[b] /\ seen'[b] = seen[b]
    BY <1>0, <2>1
  <2>5. Moves(a) /\ Calm BY <2>1, <2>3, <2>4 DEF Moves, Calm, disk, logVars
  <2>6. CASE label = "rec_unlink"
    <3>1. proj[s] = Len(log[s]) /\ Listed(s) BY <2>2, <2>6, EmptyListed
    <3>2. Prepared(a)'
      BY <2>3, <2>4, <2>5, <2>6, <3>1 DEF Prepared, Calm, Listed, CatalogValid, Catalog, Scans, Builds
    <3> QED BY <2>5, <3>2, CalmStep
  <2>7. CASE label # "rec_unlink"
    <3>1. pc'[a] \notin Guarded BY <2>2, <2>3, <2>7 DEF Guarded, Scans, Builds
    <3> QED BY <2>5, <3>1, CalmUnguarded
  <2> QED BY <2>6, <2>7
<1>3. ASSUME NEW s \in Session, ScanRead(a, s) PROVE CrashInv'
  <2>1. /\ UNCHANGED <<logVars, disk, com, view>> /\ sess' = [sess EXCEPT ![a] = s]
        /\ seen' = [seen EXCEPT ![a] = log[s]]
        /\ todo' = [todo EXCEPT ![a] = todo[a] \ {s}]
        /\ Goto(a, IF log[s] = <<>> THEN "scan" ELSE "scan_write")
        /\ pc[a] = "scan"
    <3>1. Readable(s) BY <1>0 DEF InOrder
    <3> QED BY <1>3, <3>1 DEF ScanRead
  <2>2. /\ pc'[a] = IF log[s] = <<>> THEN "scan" ELSE "scan_write"
        /\ \A b \in Actor \ {a} : pc'[b] = pc[b]
    BY <1>0, <2>1 DEF Goto
  <2>3. /\ sess'[a] = s /\ seen'[a] = log[s] /\ todo'[a] = todo[a] \ {s}
        /\ \A b \in Actor \ {a} :
             sess'[b] = sess[b] /\ seen'[b] = seen[b] /\ todo'[b] = todo[b]
    BY <1>0, <2>1
  <2>4. Moves(a) /\ Calm /\ view' = view BY <2>1, <2>2, <2>3 DEF Moves, Calm, disk, logVars
  <2>5. \A t \in Session \ todo[a] : proj[t] = Len(log[t]) /\ view[a][t] = Len(log[t])
    BY <1>0, <2>1 DEF Prepared, Scans
  <2>6. log[s] = <<>> => proj[s] = Len(log[s]) /\ view[a][s] = Len(log[s]) BY EmptyListed
  <2>7. Prepared(a)'
    <3>1. \A t \in Session \ todo'[a] :
            \/ pc'[a] = "scan_write" /\ t = sess'[a]
            \/ proj'[t] = Len(log'[t]) /\ view'[a][t] = Len(log'[t])
      BY <2>2, <2>3, <2>4, <2>5, <2>6 DEF Calm
    <3>2. pc'[a] = "scan_write" => seen'[a] = log'[sess'[a]] /\ sess'[a] \notin todo'[a]
      BY <2>3, <2>4 DEF Calm
    <3>3. pc'[a] \in Scans BY <2>2 DEF Scans
    <3> QED BY <3>1, <3>2, <3>3 DEF Prepared, Scans, Builds
  <2> QED BY <2>4, <2>7, CalmStep
<1> QED BY <1>1, <1>2, <1>3

\* The steps that write a marker, a record, a projection or a delta.
LEMMA WritesMark ==
  ASSUME JournalAssumption, Apart, Inv, CrashInv, NEW a \in Actor,
         MarkPending(a) \/ AppendSynced(a) \/ WriteProjection(a) \/ DeltaSynced(a)
         \/ ClearPending(a) \/ RecoverUnlink(a)
  PROVE  CrashInv'
<1> DEFINE s == sess[a]
           n == Len(log[s])
<1>0. /\ TypeOK /\ pc \in [Actor -> Label] /\ Prepared(a) /\ Informed(a) /\ s \in Session
      /\ n \in Nat /\ Marked(s) /\ Newer
  BY Lengths, AllMarked DEF Inv, CrashInv
<1>a. /\ proj \in [Session -> Revision] /\ overlay \in [Session -> Revision]
      /\ log \in [Session -> Seq(Commit)] /\ seen \in [Actor -> Seq(Commit)]
      /\ base \in [Session -> Revision] /\ mark \subseteq [Session -> Revision]
      /\ todo \in [Actor -> SUBSET Session]
  BY <1>0 DEF TypeOK
<1>b. Cardinality(Commit) \in Nat BY FS_CardinalityType DEF JournalAssumption
<1>c. /\ overlay[s] \in Nat /\ base[s] \in Nat /\ \A m \in mark : m[s] \in Nat
      /\ base[s] <= n /\ \A m \in mark : m[s] <= n
  BY <1>0, <1>a, <1>b DEF Revision, Inv, Behind
<1>d. \A m \in mark : overlay[s] = 0 \/ m[s] <= overlay[s] BY <1>0 DEF Newer
<1>1. CASE MarkPending(a)
  <2>1. /\ pending' = pending \cup {s} /\ Goto(a, "append")
        /\ UNCHANGED <<logVars, tail, bad, proj, base, mark, overlay, memory>> /\ pc[a] = "pend"
    BY <1>1, Following DEF MarkPending
  <2>2. pc'[a] = "append" /\ \A b \in Actor \ {a} : pc'[b] = pc[b] BY <1>0, <2>1 DEF Goto
  <2>3. Moves(a) /\ sess' = sess BY <2>1, <2>2 DEF Moves, memory
  <2>4. Marked(s)' BY <2>1, <2>3 DEF Marked
  <2>5. Prepared(a)' BY <2>1, <2>2, <2>3 DEF Prepared, Scans, Builds
  <2>6. Works(a) BY <2>1 DEF Works, Calls, Held
  <2>7. Marked(sess[a])' BY <2>4
  <2>8. \A m \in mark : overlay'[sess[a]] = 0 \/ m[sess[a]] <= overlay'[sess[a]] BY <1>d, <2>1
  <2>9. \A t \in Session \ {sess[a]} :
          /\ t \in pending => t \in pending'
          /\ proj'[t] = proj[t] /\ log'[t] = log[t] /\ overlay'[t] = overlay[t]
    BY <2>1 DEF logVars
  <2> QED BY <2>1, <2>3, <2>5, <2>6, <2>7, <2>8, <2>9, SessionStep
<1>2. CASE AppendSynced(a)
  <2>1. /\ UNCHANGED <<proj, base, mark, overlay, pending, sess, com, todo, view>>
        /\ Goto(a, "project") /\ pc[a] = "appending"
        /\ log' = log \/ log' = [log EXCEPT ![s] = Append(log[s], com[a])]
        /\ seen' = [seen EXCEPT ![a] = Append(seen[a], com[a])]
        /\ bad' = bad \/ bad' = bad \cup {s}
    BY <1>2, Following DEF AppendSynced, EndLine
  <2>2. pc'[a] = "project" /\ \A b \in Actor \ {a} : pc'[b] = pc[b] BY <1>0, <2>1 DEF Goto
  <2>3. \A b \in Actor \ {a} : seen'[b] = seen[b] BY <1>a, <2>1
  <2>4. Moves(a) BY <2>1, <2>2, <2>3 DEF Moves
  <2>5. s \in pending' BY <1>0, <2>1 DEF Prepared
  <2>6. Marked(sess[a])' BY <2>1, <2>5 DEF Marked
  <2>7. Prepared(a)' BY <2>2 DEF Prepared, Scans, Builds
  <2>8. Works(a) BY <2>1 DEF Works, Calls, Held
  <2>9. \A t \in Session \ {sess[a]} : log'[t] = log[t] BY <1>a, <2>1
  <2>10. \A m \in mark : overlay'[sess[a]] = 0 \/ m[sess[a]] <= overlay'[sess[a]] BY <1>d, <2>1
  <2>11. \A t \in Session \ {sess[a]} :
          /\ t \in pending => t \in pending'
          /\ proj'[t] = proj[t] /\ log'[t] = log[t] /\ overlay'[t] = overlay[t]
    BY <2>1, <2>9
  <2>12. "catalog" \in bad => "catalog" \in bad' BY <2>1
  <2>13. sess'[a] = sess[a] /\ base' = base /\ mark' = mark BY <2>1
  <2> QED BY <2>4, <2>6, <2>7, <2>8, <2>10, <2>11, <2>12, <2>13, SessionStep
<1>3. CASE WriteProjection(a)
  <2>1. /\ UNCHANGED <<logVars, tail, bad, base, mark, overlay, pending, memory>>
        /\ proj' = [proj EXCEPT ![s] = Len(seen[a])] /\ pc[a] \in {"project", "rec_project"}
    BY <1>3 DEF WriteProjection
  <2>2. PICK label \in {"catalog", "rec_delta"} : Goto(a, label)
    BY <1>3, Following DEF WriteProjection
  <2>3. pc'[a] = label /\ \A b \in Actor \ {a} : pc'[b] = pc[b] BY <1>0, <2>2 DEF Goto
  <2>4. Moves(a) /\ sess' = sess /\ log' = log BY <2>1, <2>3 DEF Moves, memory, logVars
  <2>5. seen[a] = log[s] BY <1>0, <2>1 DEF Informed, Held, Recs
  <2>6. proj'[s] = n /\ \A t \in Session \ {s} : proj'[t] = proj[t] BY <1>0, <1>a, <2>1, <2>5
  <2>7. Marked(sess[a])' BY <1>0, <2>1, <2>4, <2>6 DEF Marked, CatalogValid, Catalog
  <2>8. Prepared(a)' BY <2>2, <2>3, <2>4, <2>6 DEF Prepared, Scans, Builds
  <2>9. Works(a) BY <2>1 DEF Works, Calls, Held, Recs
  <2>10. \A m \in mark : overlay'[sess[a]] = 0 \/ m[sess[a]] <= overlay'[sess[a]] BY <1>d, <2>1
  <2>11. \A t \in Session \ {sess[a]} :
          /\ t \in pending => t \in pending'
          /\ proj'[t] = proj[t] /\ log'[t] = log[t] /\ overlay'[t] = overlay[t]
    BY <2>1, <2>4, <2>6
  <2>12. sess'[a] = sess[a] /\ base' = base /\ mark' = mark /\ bad' = bad BY <2>1, <2>4
  <2> QED BY <2>4, <2>7, <2>8, <2>9, <2>10, <2>11, <2>12, SessionStep
<1>4. CASE DeltaSynced(a)
  <2>1. /\ UNCHANGED <<logVars, proj, base, mark, pending, memory>>
        /\ bad' = IF tail["catalog"] = a THEN bad ELSE bad \cup {"catalog"}
        /\ overlay' = IF tail["catalog"] = a THEN [overlay EXCEPT ![s] = Len(seen[a])] ELSE overlay
        /\ pc[a] \in {"deltaing", "rec_deltaing"}
    BY <1>4 DEF DeltaSynced, EndLine
  <2>2. PICK label \in {"clear", "receipt", "rec_unlink"} : Goto(a, label)
    BY <1>4, Following DEF DeltaSynced
  <2>3. pc'[a] = label /\ \A b \in Actor \ {a} : pc'[b] = pc[b] BY <1>0, <2>2 DEF Goto
  <2>4. Moves(a) /\ sess' = sess /\ log' = log BY <2>1, <2>3 DEF Moves, memory, logVars
  <2>5. seen[a] = log[s] /\ proj[s] = n BY <1>0, <2>1 DEF Informed, Held, Recs, Prepared
  <2>6. /\ \A t \in Session \ {s} : overlay'[t] = overlay[t]
        /\ overlay'[s] = n \/ (overlay'[s] = overlay[s] /\ "catalog" \in bad')
    BY <1>0, <1>a, <2>1, <2>5
  <2>7. Listed(s)'
    <3>1. CASE "catalog" \in bad' BY <3>1 DEF Listed, CatalogValid
    <3>2. CASE overlay'[s] = n
      <4>1. base'[s] = base[s] /\ log'[s] = log[s] /\ (n = 0 => base[s] = 0) BY <1>0, <1>c, <2>1, <2>4
      <4>2. Catalog(s)' = n BY <2>4, <3>2, <4>1 DEF Catalog
      <4> QED BY <2>4, <4>2 DEF Listed
    <3> QED BY <2>6, <3>1, <3>2
  <2>8. Marked(sess[a])' BY <2>1, <2>4, <2>5, <2>7 DEF Marked, Listed, CatalogValid, Catalog
  <2>9. Prepared(a)'
    BY <2>1, <2>2, <2>3, <2>4, <2>5, <2>7 DEF Prepared, Scans, Builds, Listed, CatalogValid, Catalog
  <2>10. Works(a) BY <2>1 DEF Works, Calls, Held, Recs
  <2>11. \A m \in mark : overlay'[sess[a]] = 0 \/ m[sess[a]] <= overlay'[sess[a]]
    BY <1>c, <1>d, <2>6
  <2>12. \A t \in Session \ {sess[a]} :
          /\ t \in pending => t \in pending'
          /\ proj'[t] = proj[t] /\ log'[t] = log[t] /\ overlay'[t] = overlay[t]
    BY <2>1, <2>4, <2>6
  <2>13. sess'[a] = sess[a] /\ base' = base /\ mark' = mark /\ ("catalog" \in bad => "catalog" \in bad')
    BY <2>1, <2>4
  <2> QED BY <2>4, <2>8, <2>9, <2>10, <2>11, <2>12, <2>13, SessionStep
<1>5. CASE ClearPending(a) \/ RecoverUnlink(a)
  <2>1. /\ UNCHANGED <<logVars, tail, bad, proj, base, mark, overlay, sess, com, seen, view>>
        /\ pending' = pending \ {s} /\ pc[a] \in {"clear", "rec_unlink"}
        /\ todo' = todo \/ todo' = [todo EXCEPT ![a] = todo[a] \ {s}]
    BY <1>5 DEF ClearPending, RecoverUnlink, memory
  <2>2. PICK label \in {"receipt", "recover", "abort_open"} : Goto(a, label)
    BY <1>5 DEF ClearPending, RecoverUnlink
  <2>3. pc'[a] = label /\ \A b \in Actor \ {a} : pc'[b] = pc[b] BY <1>0, <2>2 DEF Goto
  <2>4. \A b \in Actor \ {a} : todo'[b] = todo[b] BY <1>a, <2>1
  <2>5. Moves(a) /\ log' = log BY <2>1, <2>3, <2>4 DEF Moves, logVars
  <2>6. proj[s] = n /\ Listed(s) BY <1>0, <2>1 DEF Prepared
  <2>7. Marked(sess[a])' BY <2>1, <2>5, <2>6 DEF Marked, Listed, CatalogValid, Catalog
  <2>8. Prepared(a)' BY <2>2, <2>3 DEF Prepared, Scans, Builds
  <2>9. Works(a) BY <2>1 DEF Works, Calls, Held, Recs
  <2>10. \A m \in mark : overlay'[sess[a]] = 0 \/ m[sess[a]] <= overlay'[sess[a]] BY <1>d, <2>1
  <2>11. \A t \in Session \ {sess[a]} :
          /\ t \in pending => t \in pending'
          /\ proj'[t] = proj[t] /\ log'[t] = log[t] /\ overlay'[t] = overlay[t]
    BY <2>1, <2>5
  <2>12. sess'[a] = sess[a] /\ base' = base /\ mark' = mark /\ bad' = bad BY <2>1
  <2> QED BY <2>5, <2>7, <2>8, <2>9, <2>10, <2>11, <2>12, SessionStep
<1> QED BY <1>1, <1>2, <1>3, <1>4, <1>5

\* A start has the process to itself.
LEMMA StartStep ==
  ASSUME Apart, Inv, NEW a \in Actor, pc[a] \in Starting, Moves(a),
         \A s \in Session : Marked(s)', Newer', Prepared(a)'
  PROVE  CrashInv'
<1>1. ASSUME NEW b \in Actor \ {a} PROVE Prepared(b)'
  <2>1. pc'[b] = "idle" BY OthersIdle DEF Moves
  <2> QED BY <2>1 DEF Prepared, Scans, Builds
<1>2. StaleIsPending' BY DEF StaleIsPending, Marked
<1> QED BY <1>1, <1>2 DEF CrashInv

\* scanProjections and rebuildCatalogUnlocked, write by write.
LEMMA RebuildMarks ==
  ASSUME JournalAssumption, Apart, Inv, CrashInv, NEW a \in Actor,
         ScanWrite(a) \/ WriteBase(a) \/ ResetDeltas(a) \/ WriteMark(a) \/ ClearAllPending(a)
  PROVE  CrashInv'
<1>0. /\ TypeOK /\ pc \in [Actor -> Label] /\ Prepared(a) /\ Newer /\ StaleIsPending
      /\ \A s \in Session : Marked(s)
      /\ sess[a] \in Session /\ \A s \in Session : Len(log[s]) \in Nat
  BY Lengths, AllMarked DEF Inv, CrashInv
<1>a. /\ proj \in [Session -> Revision] /\ overlay \in [Session -> Revision]
      /\ view \in [Actor -> [Session -> Revision]]
  BY <1>0 DEF TypeOK
<1>b. Cardinality(Commit) \in Nat BY FS_CardinalityType DEF JournalAssumption
<1>c. \A s \in Session : overlay[s] \in Nat /\ overlay[s] <= Len(log[s])
  <2>1. Revision \subseteq Nat BY <1>b DEF Revision
  <2>2. \A s \in Session : overlay[s] \in Nat BY <1>a, <2>1
  <2>3. Behind BY DEF Inv
  <2>4. \A s \in Session : overlay[s] <= Len(log[s]) BY <2>3 DEF Behind
  <2> QED BY <2>2, <2>4
<1>1. CASE ScanWrite(a)
  <2> DEFINE s == sess[a]
  <2>1. /\ UNCHANGED <<logVars, tail, bad, base, mark, overlay, pending, sess, com, seen, fresh, todo>>
        /\ proj' = [proj EXCEPT ![s] = Len(seen[a])]
        /\ view' = [view EXCEPT ![a][s] = Len(seen[a])]
        /\ Goto(a, "scan") /\ pc[a] = "scan_write"
    BY <1>1 DEF ScanWrite
  <2>2. seen[a] = log[s] /\ s \notin todo[a] BY <1>0, <2>1 DEF Prepared
  <2>3. /\ proj'[s] = Len(log[s]) /\ view'[a][s] = Len(log[s])
        /\ \A t \in Session \ {s} : proj'[t] = proj[t] /\ view'[a][t] = view[a][t]
        /\ \A b \in Actor \ {a} : view'[b] = view[b]
    BY <1>0, <1>a, <2>1, <2>2
  <2>4. pc'[a] = "scan" /\ \A b \in Actor \ {a} : pc'[b] = pc[b] BY <1>0, <2>1 DEF Goto
  <2>5. Moves(a) /\ log' = log BY <2>1, <2>3, <2>4 DEF Moves, logVars
  <2>6. ASSUME NEW t \in Session PROVE Marked(t)'
    <3>1. Catalog(t)' = Catalog(t) /\ CatalogValid' = CatalogValid BY <2>1 DEF Catalog, CatalogValid
    <3>2. proj'[t] # Len(log[t]) => proj[t] # Len(log[t]) BY <2>3
    <3>3. Marked(t) BY <1>0
    <3> QED BY <2>1, <2>5, <3>1, <3>2, <3>3 DEF Marked
  <2>7. Newer' BY <1>0, <2>1 DEF Newer
  <2>8. \A t \in Session \ todo[a] : t = s \/ (proj[t] = Len(log[t]) /\ view[a][t] = Len(log[t]))
    BY <1>0, <2>1 DEF Prepared, Scans
  <2>9. \A t \in Session \ todo'[a] : proj'[t] = Len(log'[t]) /\ view'[a][t] = Len(log'[t])
    BY <2>1, <2>3, <2>5, <2>8
  <2>10. Prepared(a)' BY <2>4, <2>9 DEF Prepared, Builds
  <2>11. pc[a] \in Starting BY <2>1 DEF Starting, Scans
  <2> QED BY <2>5, <2>6, <2>7, <2>10, <2>11, StartStep
<1>2. CASE WriteBase(a)
  <2>1. /\ UNCHANGED <<logVars, tail, bad, proj, mark, overlay, pending, memory>>
        /\ base' = view[a] /\ Goto(a, "reset") /\ pc[a] = "scan" /\ todo[a] = {}
    BY <1>2 DEF WriteBase
  <2>2. pc'[a] = "reset" /\ \A b \in Actor \ {a} : pc'[b] = pc[b] BY <1>0, <2>1 DEF Goto
  <2>3. Moves(a) /\ log' = log /\ view' = view BY <2>1, <2>2 DEF Moves, logVars, memory
  <2>4. \A t \in Session : proj[t] = Len(log[t]) /\ view[a][t] = Len(log[t])
    BY <1>0, <2>1 DEF Prepared, Scans
  <2>5. ASSUME NEW t \in Session PROVE Marked(t)'
    <3>1. ASSUME CatalogValid' PROVE Catalog(t)' = Len(log[t])
      <4>1. mark = {view[a]} BY <2>1, <3>1 DEF CatalogValid
      <4>2. overlay[t] = 0 \/ view[a][t] <= overlay[t] BY <1>0, <4>1 DEF Newer
      <4>3. overlay[t] = 0 \/ overlay[t] = Len(log[t]) BY <1>0, <1>c, <2>4, <4>2
      <4> QED BY <2>1, <2>4, <4>3 DEF Catalog
    <3> QED BY <2>1, <2>3, <2>4, <3>1 DEF Marked
  <2>6. Newer' BY <1>0, <2>1 DEF Newer
  <2>7. Prepared(a)' BY <2>1, <2>2, <2>3, <2>4 DEF Prepared, Scans, Builds
  <2>8. pc[a] \in Starting BY <2>1 DEF Starting, Scans
  <2> QED BY <2>3, <2>5, <2>6, <2>7, <2>8, StartStep
<1>3. CASE ResetDeltas(a)
  <2>1. /\ UNCHANGED <<logVars, proj, base, mark, pending, memory>>
        /\ overlay' = [s \in Session |-> 0] /\ Goto(a, "mark") /\ pc[a] = "reset"
    BY <1>3 DEF ResetDeltas
  <2>2. pc'[a] = "mark" /\ \A b \in Actor \ {a} : pc'[b] = pc[b] BY <1>0, <2>1 DEF Goto
  <2>3. Moves(a) /\ log' = log /\ view' = view BY <2>1, <2>2 DEF Moves, logVars, memory
  <2>4. base = view[a] /\ \A t \in Session : proj[t] = Len(log[t]) /\ view[a][t] = Len(log[t])
    BY <1>0, <2>1 DEF Prepared, Builds
  <2>5. \A t \in Session : overlay'[t] = 0 BY <2>1
  <2>6. \A t \in Session : Marked(t)' BY <2>1, <2>3, <2>4, <2>5 DEF Marked, Catalog
  <2>7. Newer' BY <2>5 DEF Newer
  <2>8. Prepared(a)' BY <2>1, <2>2, <2>3, <2>4, <2>5 DEF Prepared, Scans, Builds
  <2>9. pc[a] \in Starting BY <2>1 DEF Starting, Builds
  <2> QED BY <2>3, <2>6, <2>7, <2>8, <2>9, StartStep
<1>4. CASE WriteMark(a) \/ ClearAllPending(a)
  <2>1. /\ UNCHANGED <<logVars, proj, base, overlay, memory>>
        /\ pc[a] \in {"mark", "unpend"}
        /\ mark' = {view[a]} \/ (mark' = mark /\ pc[a] = "unpend")
    BY <1>4 DEF WriteMark, ClearAllPending
  <2>2. PICK label \in {"unpend", "opened"} : Goto(a, label) /\ (label = "unpend" => mark' = {view[a]})
    BY <1>4 DEF WriteMark, ClearAllPending
  <2>3. pc'[a] = label /\ \A b \in Actor \ {a} : pc'[b] = pc[b] BY <1>0, <2>2 DEF Goto
  <2>4. Moves(a) /\ log' = log /\ view' = view BY <2>1, <2>3 DEF Moves, logVars, memory
  <2>5. /\ base = view[a] /\ \A t \in Session : proj[t] = Len(log[t]) /\ view[a][t] = Len(log[t])
        /\ \A t \in Session : overlay[t] = 0
    BY <1>0, <2>1 DEF Prepared, Builds
  <2>6. \A t \in Session : Marked(t)' BY <2>1, <2>4, <2>5 DEF Marked, Catalog
  <2>7. Newer' BY <2>1, <2>5 DEF Newer
  <2>8. Prepared(a)' BY <2>1, <2>2, <2>3, <2>4, <2>5 DEF Prepared, Scans, Builds
  <2>9. pc[a] \in Starting BY <2>1 DEF Starting, Builds
  <2> QED BY <2>4, <2>6, <2>7, <2>8, <2>9, StartStep
<1> QED BY <1>1, <1>2, <1>3, <1>4

LEMMA CrashMarks ==
  ASSUME JournalAssumption, Apart, Inv, CrashInv, NEW h \in Host, Crash(h)
  PROVE  CrashInv'
<1> DEFINE dead == {a \in Actor : HostOf[a] = h}
<1>1. /\ pc' = [a \in Actor |-> IF a \in dead THEN "idle" ELSE pc[a]] /\ Forget(dead)
      /\ UNCHANGED <<logVars, bad, proj, base, mark, overlay, pending>>
  BY DEF Crash
<1>2. TypeOK /\ pc \in [Actor -> Label] /\ StaleIsPending /\ Newer BY DEF Inv, CrashInv
<1>3. Calm BY <1>1 DEF Calm, logVars
<1>4. (StaleIsPending /\ Newer)' BY <1>2, <1>3, CalmStale
<1>5. ASSUME NEW b \in Actor PROVE Prepared(b)'
  <2>1. CASE b \in dead
    <3>1. pc'[b] = "idle" BY <1>1, <2>1
    <3> QED BY <3>1 DEF Prepared, Scans, Builds
  <2>2. CASE b \notin dead
    <3>1. pc'[b] = pc[b] BY <1>1, <2>2
    <3>2. /\ com'[b] = com[b] /\ seen'[b] = seen[b] /\ todo'[b] = todo[b] /\ view'[b] = view[b]
          /\ sess' = sess
      BY <1>1, <1>2, <2>2, Forgotten
    <3>3. Prepared(b) BY DEF CrashInv
    <3> QED BY <1>3, <3>1, <3>2, <3>3, CalmPrepared
  <2> QED BY <2>1, <2>2
<1> QED BY <1>4, <1>5 DEF CrashInv

LEMMA InitCrashInv ==
  ASSUME JournalAssumption, Apart, JournalInit
  PROVE  CrashInv
<1>1. /\ log = [s \in Session |-> <<>>] /\ proj = [s \in Session |-> 0]
      /\ base = [s \in Session |-> 0] /\ overlay = [s \in Session |-> 0]
      /\ pc = [a \in Actor |-> "idle"]
  BY DEF JournalInit, LogInit
<1>2. \A s \in Session : Len(log[s]) = 0
  <2> TAKE s \in Session
  <2>1. log[s] = <<>> BY <1>1
  <2> QED BY <2>1
<1>3. StaleIsPending BY <1>1, <1>2 DEF StaleIsPending, Catalog
<1>4. Newer BY <1>1 DEF Newer
<1>5. \A a \in Actor : Prepared(a) BY <1>1 DEF Prepared, Scans, Builds
<1> QED BY <1>3, <1>4, <1>5 DEF CrashInv

LEMMA CrashInvKeeps ==
  ASSUME JournalAssumption, Apart, Inv, CrashInv, [JournalNext]_vars
  PROVE  CrashInv'
<1>1. ASSUME NEW a \in Actor, AppendCommit(a) PROVE CrashInv'
  <2>1. CASE \/ \E s \in Session : \E c \in Commit : Begin(a, s, c)
             \/ pc[a] = "lock" /\ Acquire(a, sess[a], "read")
             \/ ReadJournal(a)
             \/ pc[a] = "catalog" /\ Acquire(a, "catalog", Then[pc[a]])
             \/ Receipt(a) \/ Abort(a)
    BY <2>1, CalmAppend
  <2>2. CASE RepairTail(a) \/ AppendRecord(a) \/ AppendDelta(a) BY <2>2, CalmLines
  <2>3. CASE MarkPending(a) \/ AppendSynced(a) \/ WriteProjection(a) \/ DeltaSynced(a)
             \/ ClearPending(a)
    BY <2>3, WritesMark
  <2> QED BY <1>1, <2>1, <2>2, <2>3 DEF AppendCommit
<1>2. ASSUME NEW a \in Actor, Initialize(a) PROVE CrashInv'
  <2>1. CASE OpenDeep(a) \/ \E s \in Session : RecoverRead(a, s) \/ ScanRead(a, s)
    BY <2>1, CalmReads
  <2>2. CASE ScanWrite(a) \/ WriteBase(a) \/ ResetDeltas(a) \/ WriteMark(a) \/ ClearAllPending(a)
    BY <2>2, RebuildMarks
  <2>3. CASE RecoverUnlink(a) BY <2>3, WritesMark
  <2>4. CASE \/ Start(a) \/ Scrub(a) \/ List(a) \/ OpenFast(a) \/ Opened(a) \/ AbortOpen(a)
             \/ ListCatalog(a)
             \/ pc[a] = "open_lock" /\ Acquire(a, "catalog", "open")
             \/ pc[a] = "scrub_lock" /\ Acquire(a, "catalog", "scrub")
             \/ pc[a] = "list_lock" /\ Acquire(a, "catalog", "list")
    BY <2>4, CalmStart
  <2> QED BY <1>2, <2>1, <2>2, <2>3, <2>4 DEF Initialize
<1>3. ASSUME NEW a \in Actor, SeeStale(a) \/ UnlinkStale(a) PROVE CrashInv'
  BY <1>3, CalmStaleLocks
<1>4. ASSUME NEW a \in Actor, GiveUp(a) \/ WriteFails(a) PROVE CrashInv'
  BY <1>4, CalmStart
<1>5. ASSUME NEW h \in Host, Crash(h) PROVE CrashInv' BY <1>5, CrashMarks
<1>6. CASE UNCHANGED vars
  <2>1. UNCHANGED <<logVars, disk, memory, pc>> BY <1>6 DEF vars
  <2>2. Calm BY <2>1 DEF Calm, logVars, disk
  <2>3. (StaleIsPending /\ Newer)' BY <2>2, CalmStale DEF CrashInv
  <2>4. UNCHANGED <<sess, seen, todo, view, pc>> BY <2>1 DEF memory
  <2>5. \A a \in Actor : Prepared(a)' BY <2>2, <2>4, CalmPrepared DEF CrashInv
  <2> QED BY <2>3, <2>5 DEF CrashInv
<1> QED BY <1>1, <1>2, <1>3, <1>4, <1>5, <1>6 DEF JournalNext

-----------------------------------------------------------------------------
(* The theorems *)

\* The invariant is inductive: two operations never work on one session, what an operation
\* has parsed is still the journal, and a rebuild of the catalog never goes back behind a
\* delta (withLock, appendCommit, rebuildCatalogUnlocked).
THEOREM JournalInductive ==
  ASSUME JournalAssumption, Apart \/ Steady
  PROVE  JournalSpec => [](Inv /\ (Apart => CrashInv))
<1>1. JournalInit => Inv /\ (Apart => CrashInv) BY InitInv, InitCrashInv
<1>2. Inv /\ (Apart => CrashInv) /\ [JournalNext]_vars => (Inv /\ (Apart => CrashInv))'
  BY JournalKeeps, CrashInvKeeps
<1> QED BY <1>1, <1>2, PTL DEF JournalSpec

\* A journal parses and holds its commits in the order of their revisions, and a process
\* alone on its store finds every stale projection and catalog entry marked after a crash
\* between any two calls (appendCommit, recoverPendingUnlocked).
THEOREM JournalIsSound ==
  ASSUME JournalAssumption, Apart \/ Steady
  PROVE  JournalSpec => []JournalSound
<1>1. Inv /\ (Apart => CrashInv) => JournalSound BY DEF Inv, CrashInv, JournalSound
<1> QED BY <1>1, JournalInductive, PTL

\* Every step of the JSONL journal is a step of the abstract log or none: an acknowledged
\* commit stays at its revision, through crashes and starts of one process, or beside any
\* number of processes that are up (appendCommit).
THEOREM JsonlRefinesLog ==
  ASSUME JournalAssumption, Apart \/ Steady
  PROVE  JournalSpec => JsonlImplementsLog
<1>1. JournalInit => LogInit BY DEF JournalInit
<1>2. Inv /\ [JournalNext]_vars => [LogNext]_logVars BY JournalKeeps
<1>3. Inv /\ (Apart => CrashInv) => Inv OBVIOUS
<1> QED BY <1>1, <1>2, <1>3, JournalInductive, PTL DEF JournalSpec, JsonlImplementsLog, LogSpec
=============================================================================
