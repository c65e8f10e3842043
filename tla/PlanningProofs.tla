--------------------------- MODULE PlanningProofs ---------------------------
(***************************************************************************)
(* Proofs about a plan in execution and about the workspaces its attempts   *)
(* write in.                                                                *)
(*                                                                          *)
(* Git worktrees: HEAD only grows and every base is a prefix of it, so what *)
(* was merged stays; an attempt is merged only where it may say so; what a  *)
(* child wrote stays in its worktree until the workspace has its commit.    *)
(*                                                                          *)
(* Directory copies: every content is numbered by the event that wrote it   *)
(* and lies in one place, so what a backup holds tells who replaced it; an  *)
(* attempt whose merge nobody observed can still be undone file by file,    *)
(* and the file a merge replaced is in no other backup.                     *)
(*                                                                          *)
(* Plans: the attempts of the first definition are all that were made, and  *)
(* after a revision those its open steps may still need fit the children    *)
(* that are left; what is not safe to repeat has not run while it is still  *)
(* to run.                                                                  *)
(*                                                                          *)
(* Review plans: a review is in the hands of one actor at a time, keeps the *)
(* scope and the frozen input it was prepared with, and a fence names the   *)
(* review of its item (Fenced, Held).  An accepted item names the review    *)
(* that accepted it (Earned), a final review is frozen only over accepted   *)
(* items, and a completed plan can no longer be touched (Whole).  A call is *)
(* started from a reservation and never twice (Sent), and what an actor is  *)
(* about to settle is what the call store holds (Owed).                     *)
(***************************************************************************)
EXTENDS PlanExecution, ReviewPlan, GitWorkspace, DirectoryWorkspace, FiniteSetTheorems,
        SequenceTheorems, TLAPS

-----------------------------------------------------------------------------
(* Sequences: prefixes, members and the removal of an element *)

\* A prefix agrees with the whole on its indices (IsPrefix of SequencesExt).
LEMMA PrefixIs ==
  ASSUME NEW S, NEW s \in Seq(S), NEW t \in Seq(S)
  PROVE  IsPrefix(s, t) <=> Len(s) <= Len(t) /\ \A i \in 1 .. Len(s) : s[i] = t[i]
<1>1. ASSUME IsPrefix(s, t) PROVE Len(s) <= Len(t) /\ \A i \in 1 .. Len(s) : s[i] = t[i]
  <2>1. Len(s) <= Len(t) /\ SubSeq(s, 1, Len(s)) = SubSeq(t, 1, Len(s))
    BY <1>1 DEF IsPrefix
  <2>2. \A i \in 1 .. Len(s) : SubSeq(s, 1, Len(s))[i] = s[i] /\ SubSeq(t, 1, Len(s))[i] = t[i]
    BY <2>1
  <2> QED BY <2>1, <2>2
<1>2. ASSUME Len(s) <= Len(t), \A i \in 1 .. Len(s) : s[i] = t[i] PROVE IsPrefix(s, t)
  <2>1. SubSeq(s, 1, Len(s)) = SubSeq(t, 1, Len(s))
    BY <1>2
  <2> QED BY <2>1, <1>2 DEF IsPrefix
<1> QED BY <1>1, <1>2

\* The members of a prefix are members of the whole.
LEMMA PrefixMembers ==
  ASSUME NEW S, NEW s \in Seq(S), NEW t \in Seq(S), IsPrefix(s, t), NEW e \in ToSet(s)
  PROVE  e \in ToSet(t)
<1>1. PICK i \in 1 .. Len(s) : s[i] = e
  BY DEF ToSet
<1>2. i \in 1 .. Len(t) /\ t[i] = e
  BY <1>1, PrefixIs
<1> QED BY <1>2 DEF ToSet

\* A prefix of a prefix is a prefix.
LEMMA PrefixTransitive ==
  ASSUME NEW S, NEW s \in Seq(S), NEW t \in Seq(S), NEW u \in Seq(S), IsPrefix(s, t), IsPrefix(t, u)
  PROVE  IsPrefix(s, u)
<1>1. Len(s) <= Len(t) /\ Len(t) <= Len(u) /\ Len(s) \in Nat /\ Len(t) \in Nat /\ Len(u) \in Nat
  BY PrefixIs
<1>2. ASSUME NEW i \in 1 .. Len(s) PROVE s[i] = u[i]
  BY <1>1, PrefixIs
<1> QED BY <1>1, <1>2, PrefixIs

\* A commit on top of a sequence: its type, its members and its base.
LEMMA OnTop ==
  ASSUME NEW S, NEW s \in Seq(S), NEW e \in S
  PROVE  /\ Append(s, e) \in Seq(S)
         /\ ToSet(Append(s, e)) = ToSet(s) \cup {e}
         /\ IsPrefix(s, s) /\ IsPrefix(s, Append(s, e))
<1>1. Append(s, e) \in Seq(S) /\ Len(Append(s, e)) = Len(s) + 1 /\ Len(s) \in Nat
  OBVIOUS
<1>2. \A i \in 1 .. Len(s) : Append(s, e)[i] = s[i]
  OBVIOUS
<1>3. Append(s, e)[Len(s) + 1] = e
  OBVIOUS
<1>4. ToSet(Append(s, e)) = ToSet(s) \cup {e}
  BY <1>1, <1>2, <1>3 DEF ToSet
<1>5. PICK a \in Seq(S) : a = Append(s, e)
  BY <1>1
<1>6. Len(s) <= Len(a) /\ \A i \in 1 .. Len(s) : s[i] = a[i]
  BY <1>1, <1>2, <1>5
<1>7. IsPrefix(s, a) /\ IsPrefix(s, s)
  BY <1>6, PrefixIs
<1> QED BY <1>1, <1>4, <1>5, <1>7

\* Whoever leaves a queue in which everyone waits once is in it no more, and nobody
\* comes in (the promise chain of acquireWorkspaceLock).
LEMMA LeavesQueue ==
  ASSUME NEW S, NEW q \in Seq(S), IsInjective(q), NEW i \in DOMAIN q
  PROVE  /\ RemoveAt(q, i) \in Seq(S) /\ IsInjective(RemoveAt(q, i))
         /\ ToSet(RemoveAt(q, i)) = ToSet(q) \ {q[i]}
<1> DEFINE n == RemoveAt(q, i)
<1>1. Len(q) \in Nat /\ DOMAIN q = 1 .. Len(q) /\ i \in 1 .. Len(q)
  OBVIOUS
<1>2. PICK m \in Int : m = i - 1
  BY <1>1
<1>e. PICK l \in Int : l = i + 1
  BY <1>1
<1>f. /\ SubSeq(q, 1, m) \in Seq(S)
      /\ Len(SubSeq(q, 1, m)) = IF 1 <= m THEN m - 1 + 1 ELSE 0
      /\ \A j \in 1 .. m - 1 + 1 : SubSeq(q, 1, m)[j] = q[1 + j - 1]
  <2>1. 1 \in Int /\ \A j \in 1 .. m : q[j] \in S
    BY <1>1, <1>2
  <2> QED BY <2>1, SubSeqProperties
<1>g. /\ SubSeq(q, l, Len(q)) \in Seq(S)
      /\ Len(SubSeq(q, l, Len(q))) = IF l <= Len(q) THEN Len(q) - l + 1 ELSE 0
      /\ \A j \in 1 .. Len(q) - l + 1 : SubSeq(q, l, Len(q))[j] = q[l + j - 1]
  <2>1. Len(q) \in Int /\ \A j \in l .. Len(q) : q[j] \in S
    BY <1>1, <1>e
  <2> QED BY <2>1, SubSeqProperties
<1>3. PICK a : a = SubSeq(q, 1, m)
  OBVIOUS
<1>h. PICK b : b = SubSeq(q, l, Len(q))
  OBVIOUS
<1>4. a \in Seq(S) /\ Len(a) = i - 1 /\ \A j \in 1 .. i - 1 : a[j] = q[j]
  BY <1>1, <1>2, <1>3, <1>f
<1>c. b \in Seq(S) /\ Len(b) = Len(q) - i /\ \A j \in 1 .. Len(q) - i : b[j] = q[j + i]
  BY <1>1, <1>e, <1>h, <1>g
<1>a. n = a \o b
  BY <1>2, <1>3, <1>e, <1>h DEF RemoveAt
<1>i. /\ a \o b \in Seq(S) /\ Len(a \o b) = Len(a) + Len(b)
      /\ \A j \in 1 .. Len(a) + Len(b) : (a \o b)[j] = IF j <= Len(a) THEN a[j] ELSE b[j - Len(a)]
  BY <1>4, <1>c, ConcatProperties, Zenon
<1>d. /\ n \in Seq(S) /\ Len(n) = Len(a) + Len(b)
      /\ \A j \in 1 .. Len(a) + Len(b) : n[j] = IF j <= Len(a) THEN a[j] ELSE b[j - Len(a)]
  BY <1>a, <1>i
<1> HIDE DEF n
<1>b. n \in Seq(S) /\ Len(n) = Len(q) - 1 /\ DOMAIN n = 1 .. Len(q) - 1
  BY <1>1, <1>4, <1>c, <1>d
<1>5. \A j \in 1 .. Len(q) - 1 : n[j] = IF j < i THEN q[j] ELSE q[j + 1]
  <2>1. SUFFICES ASSUME NEW j \in 1 .. Len(q) - 1 PROVE n[j] = IF j < i THEN q[j] ELSE q[j + 1]
    OBVIOUS
  <2>2. j \in 1 .. Len(a) + Len(b) /\ (j <= Len(a)) = (j < i)
    BY <1>1, <1>4, <1>c
  <2>3. CASE j < i
    BY <2>2, <2>3, <1>1, <1>4, <1>d
  <2>4. CASE ~(j < i)
    <3>1. PICK o : o = j - Len(a)
      OBVIOUS
    <3>2. n[j] = b[o]
      BY <2>2, <2>4, <3>1, <1>d
    <3>3. o \in 1 .. Len(q) - i /\ o + i = j + 1
      BY <2>4, <3>1, <1>1, <1>4
    <3>4. b[o] = q[o + i]
      BY <3>3, <1>c
    <3> QED BY <2>4, <3>2, <3>3, <3>4
  <2> QED BY <2>3, <2>4
<1>6. \A j, k \in 1 .. Len(q) : q[j] = q[k] => j = k
  BY <1>1 DEF IsInjective
<1>7. ASSUME NEW j \in 1 .. Len(q) - 1, NEW k \in 1 .. Len(q) - 1, n[j] = n[k] PROVE j = k
  BY <1>1, <1>5, <1>6, <1>7
<1>8. ToSet(n) \subseteq ToSet(q) \ {q[i]}
  <2>1. SUFFICES ASSUME NEW j \in 1 .. Len(q) - 1
                 PROVE  n[j] \in {q[k] : k \in 1 .. Len(q)} /\ n[j] # q[i]
    BY <1>1, <1>b DEF ToSet
  <2>2. CASE j < i
    BY <2>2, <1>1, <1>5, <1>6
  <2>3. CASE ~(j < i)
    <3>1. j + 1 \in 1 .. Len(q) /\ n[j] = q[j + 1] /\ j + 1 # i
      BY <2>3, <1>1, <1>5
    <3> QED BY <3>1, <1>1, <1>6
  <2> QED BY <2>2, <2>3
<1>9. ToSet(q) \ {q[i]} \subseteq ToSet(n)
  <2>1. SUFFICES ASSUME NEW k \in 1 .. Len(q), k # i
                 PROVE  \E j \in 1 .. Len(q) - 1 : n[j] = q[k]
    BY <1>1, <1>b DEF ToSet
  <2>2. CASE k < i
    BY <2>2, <1>1, <1>5
  <2>3. CASE k > i
    <3>1. k - 1 \in 1 .. Len(q) - 1 /\ ~(k - 1 < i) /\ k - 1 + 1 = k
      BY <2>3, <1>1
    <3> QED BY <3>1, <1>5
  <2> QED BY <2>1, <2>2, <2>3, <1>1
<1> QED BY <1>b, <1>7, <1>8, <1>9 DEF n, IsInjective

\* Unless the first one leaves, the first one stays.
LEMMA FirstStays ==
  ASSUME NEW S, NEW q \in Seq(S), NEW i \in DOMAIN q, i # 1
  PROVE  RemoveAt(q, i)[1] = q[1]
<1>1. Len(q) \in Nat /\ DOMAIN q = 1 .. Len(q) /\ i \in 2 .. Len(q)
  OBVIOUS
<1>2. PICK m \in Int : m = i - 1
  BY <1>1
<1>3. /\ SubSeq(q, 1, m) \in Seq(S)
      /\ Len(SubSeq(q, 1, m)) = IF 1 <= m THEN m - 1 + 1 ELSE 0
      /\ \A j \in 1 .. m - 1 + 1 : SubSeq(q, 1, m)[j] = q[1 + j - 1]
  <2>1. 1 \in Int /\ \A j \in 1 .. m : q[j] \in S
    BY <1>1, <1>2
  <2> QED BY <2>1, SubSeqProperties
<1>4. PICK l \in Int : l = i + 1
  BY <1>1
<1>5. SubSeq(q, l, Len(q)) \in Seq(S)
  <2>1. Len(q) \in Int /\ \A j \in l .. Len(q) : q[j] \in S
    BY <1>1, <1>4
  <2> QED BY <2>1, SubSeqProperties
<1>6. PICK a \in Seq(S), b \in Seq(S) : a = SubSeq(q, 1, m) /\ b = SubSeq(q, l, Len(q))
  BY <1>3, <1>5
<1>7. Len(a) \in Nat /\ Len(a) >= 1 /\ a[1] = q[1]
  BY <1>1, <1>2, <1>3, <1>6
<1>8. (a \o b)[1] = a[1]
  <2>1. \A j \in 1 .. Len(a) + Len(b) : (a \o b)[j] = IF j <= Len(a) THEN a[j] ELSE b[j - Len(a)]
    BY ConcatProperties, Zenon
  <2>2. Len(b) \in Nat
    OBVIOUS
  <2> QED BY <2>1, <2>2, <1>7
<1>9. RemoveAt(q, i) = a \o b
  BY <1>2, <1>4, <1>6 DEF RemoveAt
<1> QED BY <1>7, <1>8, <1>9

\* Who was in no queue and joins one is in it once, at its end.
LEMMA JoinsQueue ==
  ASSUME NEW S, NEW q \in Seq(S), IsInjective(q), NEW t \in S, t \notin ToSet(q)
  PROVE  /\ Append(q, t) \in Seq(S) /\ IsInjective(Append(q, t))
         /\ ToSet(Append(q, t)) = ToSet(q) \cup {t}
         /\ q # <<>> => Append(q, t)[1] = q[1]
<1>1. PICK n : n = Append(q, t)
  OBVIOUS
<1>2. /\ n \in Seq(S) /\ Len(n) = Len(q) + 1 /\ Len(q) \in Nat
      /\ \A i \in 1 .. Len(q) : n[i] = q[i]
      /\ n[Len(q) + 1] = t
  BY <1>1, AppendProperties
<1>3. \A i \in 1 .. Len(q) : q[i] # t
  BY DEF ToSet
<1>4. DOMAIN n = 1 .. Len(q) + 1 /\ DOMAIN q = 1 .. Len(q)
  BY <1>2
<1>5. ASSUME NEW i \in 1 .. Len(q) + 1, NEW j \in 1 .. Len(q) + 1, n[i] = n[j]
      PROVE  i = j
  <2>1. \A k \in 1 .. Len(q) + 1 : k \in 1 .. Len(q) \/ k = Len(q) + 1
    BY <1>2
  <2> QED BY <2>1, <1>2, <1>3, <1>4, <1>5 DEF IsInjective
<1>6. IsInjective(n)
  BY <1>4, <1>5 DEF IsInjective
<1>7. ToSet(n) = ToSet(q) \cup {t}
  BY <1>1, OnTop
<1>8. q # <<>> => n[1] = q[1]
  <2>1. q # <<>> => Len(q) \in Nat \ {0}
    BY EmptySeq
  <2> QED BY <2>1, <1>2
<1> QED BY <1>1, <1>2, <1>6, <1>7, <1>8

-----------------------------------------------------------------------------
(* Git worktrees *)

Histories == Seq(GitAttempt \cup {User})

\* Where an attempt whose commit is in the workspace may be.
Merging == {"after", "verify", "seal", "finalize", "merged", "mergedKept", "blocked", "threw", "crashed"}

\* Who waits for the lease or holds it is in the merge.
Queued == \A t \in ToSet(lock) : pos[t] \in Waiting \cup Inside

\* The workspace has grown from every base.
Based == \A t \in GitAttempt : IsPrefix(base[t], head)

MergedWhere == \A t \in GitAttempt : Merged(t) => pos[t] \in Merging

\* The worktree of a child that wrote is left alone until its commit is merged.
KeptUntil == \A t \in wrote :
  /\ pos[t] \notin {"idle", "create", "child"}
  /\ Holds(t) \/ (pos[t] = "merged" /\ Merged(t))

GitInv == GitTypeOK /\ Queued /\ Based /\ MergedWhere /\ MergedOntoBase /\ KeptUntil

\* What a step may do to HEAD and to the bases.
HeadMoves ==
  /\ \/ head' = head
     \/ head' = Append(head, User)
     \/ \E t \in GitAttempt : Forwardable(t) /\ head' = Commit(t) /\ pos'[t] = "after"
  /\ \A t \in GitAttempt : \/ base'[t] = base[t]
                           \/ pos[t] = "idle" /\ base'[t] = head /\ head' = head
  /\ \A t \in GitAttempt : pos[t] \in Merging => pos'[t] \in Merging

\* A member of a sequence stands somewhere in it.
LEMMA InQueue ==
  ASSUME NEW S, NEW q \in Seq(S), NEW i \in DOMAIN q
  PROVE  q[i] \in ToSet(q) /\ q[i] \in S
BY DEF ToSet

LEMMA ReleaseKeeps ==
  ASSUME GitTypeOK, Queued, NEW t \in GitAttempt, Release(t)
  PROVE  lock' \in Seq(GitAttempt) /\ IsInjective(lock') /\ ToSet(lock') = ToSet(lock) \ {t}
<1>1. PICK i \in DOMAIN lock : lock[i] = t /\ lock' = RemoveAt(lock, i)
  BY DEF Release
<1>2. lock \in Seq(GitAttempt) /\ IsInjective(lock)
  BY DEF GitTypeOK
<1> QED BY <1>1, <1>2, LeavesQueue

\* Nothing is waiting at first.
LEMMA GitInitEstablishes == GitInit => GitInv
<1> SUFFICES ASSUME GitInit PROVE GitInv
  OBVIOUS
<1>1. <<>> \in Histories /\ <<>> \in Seq(GitAttempt) /\ Len(<<>>) = 0 /\ DOMAIN <<>> = {}
  BY DEF Histories
<1>a. IsInjective(lock)
  BY <1>1 DEF GitInit, IsInjective
<1>b. gitEvents \in 0 .. MaxGitEvents
  BY GitAssumption DEF GitInit
<1>c. base \in [GitAttempt -> Histories] /\ head \in Histories /\ lock \in Seq(GitAttempt)
  BY <1>1 DEF GitInit
<1>2. GitTypeOK
  BY <1>a, <1>b, <1>c DEF GitInit, GitTypeOK, Histories, Positions, Trees
<1>3. Queued /\ MergedWhere /\ MergedOntoBase /\ KeptUntil
  BY <1>1 DEF GitInit, Queued, MergedWhere, MergedOntoBase, KeptUntil, Merged, ToSet
<1>4. IsPrefix(<<>>, <<>>)
  BY <1>1 DEF IsPrefix
<1>5. Based
  BY <1>4 DEF GitInit, Based
<1> QED BY <1>2, <1>3, <1>5 DEF GitInv

\* What a step does to HEAD keeps the bases below it and the merged attempts where
\* they may say so.
LEMMA HeadMovesKeep ==
  ASSUME GitInv, HeadMoves, GitTypeOK', KeptUntil', Queued'
  PROVE  GitInv'
<1> DEFINE S == GitAttempt \cup {User}
<1>1. head \in Seq(S) /\ head' \in Seq(S) /\ \A t \in GitAttempt : base[t] \in Seq(S) /\ base'[t] \in Seq(S)
  BY DEF GitInv, GitTypeOK
<1>2. \A t \in GitAttempt : /\ Commit(t) \in Seq(S) /\ IsPrefix(base[t], Commit(t))
                            /\ ToSet(Commit(t)) = ToSet(base[t]) \cup {t}
  BY <1>1, OnTop DEF Commit
<1>3. IsPrefix(head, head) /\ IsPrefix(head, Append(head, User))
      /\ ToSet(Append(head, User)) = ToSet(head) \cup {User}
  BY <1>1, OnTop
<1> HIDE DEF S
<1>4. IsPrefix(head, head')
  BY <1>3 DEF HeadMoves, Forwardable
<1>5. \A t \in GitAttempt : Merged(t)' => Merged(t) \/ pos'[t] = "after"
  <2>1. SUFFICES ASSUME NEW t \in GitAttempt, t \in ToSet(head') PROVE t \in ToSet(head) \/ pos'[t] = "after"
    BY DEF Merged
  <2>2. CASE head' = head
    BY <2>1, <2>2
  <2>3. CASE head' = Append(head, User)
    BY <2>1, <2>3, <1>3, GitAssumption
  <2>4. CASE \E u \in GitAttempt : Forwardable(u) /\ head' = Commit(u) /\ pos'[u] = "after"
    <3>1. PICK u \in GitAttempt : head' = Commit(u) /\ pos'[u] = "after"
      BY <2>4
    <3>2. t = u \/ t \in ToSet(base[u])
      BY <2>1, <3>1, <1>2
    <3>3. IsPrefix(base[u], head)
      BY DEF GitInv, Based
    <3>4. t \in ToSet(base[u]) => t \in ToSet(head)
      BY <1>1, <3>3, PrefixMembers
    <3> QED BY <3>1, <3>2, <3>4
  <2> QED BY <2>2, <2>3, <2>4 DEF HeadMoves
<1>6. MergedWhere'
  BY <1>5 DEF GitInv, MergedWhere, HeadMoves, Merging
<1>7. Based'
  <2>1. SUFFICES ASSUME NEW t \in GitAttempt PROVE IsPrefix(base'[t], head')
    BY DEF Based
  <2>2. CASE base'[t] = base[t]
    <3>1. IsPrefix(base[t], head)
      BY DEF GitInv, Based
    <3> QED BY <3>1, <2>2, <1>1, <1>4, PrefixTransitive
  <2>3. CASE base'[t] = head /\ head' = head
    BY <2>3, <1>3
  <2> QED BY <2>2, <2>3 DEF HeadMoves
<1>8. MergedOntoBase'
  <2>1. SUFFICES ASSUME NEW t \in GitAttempt, t \in ToSet(head') PROVE IsPrefix(Commit(t)', head')
    BY DEF MergedOntoBase, Merged
  <2>2. CASE t \in ToSet(head)
    <3>1. pos[t] \in Merging /\ IsPrefix(Commit(t), head)
      BY <2>2 DEF GitInv, MergedWhere, MergedOntoBase, Merged
    <3>2. Commit(t)' = Commit(t)
      BY <3>1 DEF HeadMoves, Merging, Commit
    <3> QED BY <3>1, <3>2, <1>1, <1>2, <1>4, PrefixTransitive
  <2>3. CASE t \notin ToSet(head)
    <3>1. head' # head /\ head' # Append(head, User)
      BY <2>1, <2>3, <1>3, GitAssumption
    <3>2. PICK u \in GitAttempt : Forwardable(u) /\ head' = Commit(u)
      BY <3>1 DEF HeadMoves
    <3>3. IsPrefix(base[u], head)
      BY DEF GitInv, Based
    <3>4. t = u
      BY <2>1, <2>3, <3>2, <3>3, <1>1, <1>2, PrefixMembers
    <3>5. base'[t] = base[t]
      BY <3>1 DEF HeadMoves
    <3>6. head' = Append(base[t], t) /\ Commit(t)' = Append(base[t], t)
      BY <3>2, <3>4, <3>5 DEF Commit
    <3>7. IsPrefix(head', head')
      BY <1>1 DEF IsPrefix
    <3> QED BY <3>6, <3>7
  <2> QED BY <2>2, <2>3
<1> QED BY <1>6, <1>7, <1>8 DEF GitInv

\* What is merged stays merged.
LEMMA MergedStays ==
  ASSUME GitInv, HeadMoves, GitTypeOK', NEW t \in GitAttempt, Merged(t)
  PROVE  Merged(t)'
<1> DEFINE S == GitAttempt \cup {User}
<1>1. head \in Seq(S) /\ head' \in Seq(S) /\ User \in S
  BY DEF GitInv, GitTypeOK
<1>2. IsPrefix(head, head) /\ IsPrefix(head, Append(head, User))
  BY <1>1, OnTop
<1>3. IsPrefix(head, head')
  BY <1>2 DEF HeadMoves, Forwardable
<1> QED BY <1>1, <1>3, PrefixMembers DEF Merged

\* A step that leaves HEAD, the bases and the queue alone, and moves one attempt on.
LEMMA QuietStep ==
  ASSUME GitInv, UNCHANGED <<head, base>>,
         NEW t \in GitAttempt, NEW p \in Positions, pos' = [pos EXCEPT ![t] = p],
         pos[t] \in Merging => p \in Merging
  PROVE  HeadMoves
BY DEF GitInv, GitTypeOK, HeadMoves

\* A wait that ends.
LEMMA QueueStep ==
  ASSUME GitInv, NEW t \in GitAttempt, NEW p \in Positions, pos' = [pos EXCEPT ![t] = p],
         \/ lock' = lock /\ (pos[t] \in Waiting \cup Inside => p \in Waiting \cup Inside)
         \/ Release(t)
  PROVE  lock' \in Seq(GitAttempt) /\ IsInjective(lock') /\ Queued'
<1>1. GitTypeOK /\ Queued
  BY DEF GitInv
<1>2. pos \in [GitAttempt -> Positions] /\ lock \in Seq(GitAttempt) /\ IsInjective(lock)
  BY <1>1 DEF GitTypeOK
<1>3. ToSet(lock) \subseteq GitAttempt
  BY <1>2, InQueue DEF ToSet
<1>4. CASE lock' = lock /\ (pos[t] \in Waiting \cup Inside => p \in Waiting \cup Inside)
  BY <1>1, <1>2, <1>3, <1>4 DEF Queued
<1>5. CASE Release(t)
  <2>1. lock' \in Seq(GitAttempt) /\ IsInjective(lock') /\ ToSet(lock') = ToSet(lock) \ {t}
    BY <1>1, <1>5, ReleaseKeeps
  <2>2. Queued'
    BY <2>1, <1>1, <1>2, <1>3 DEF Queued
  <2> QED BY <2>1, <2>2
<1> QED BY <1>4, <1>5

\* What every step of one attempt keeps: it is enough to look at where the attempt
\* goes, what becomes of its worktree, and whether it still has its place in the queue.
LEMMA AttemptStep ==
  ASSUME GitInv, HeadMoves,
         NEW t \in GitAttempt, NEW p \in Positions, NEW w \in Trees,
         pos' = [pos EXCEPT ![t] = p], tree' = [tree EXCEPT ![t] = w],
         head' \in Histories, base' \in [GitAttempt -> Histories], dirty' \in BOOLEAN,
         wrote' \subseteq wrote \cup {t}, junk' \subseteq GitAttempt, wrong' \subseteq GitAttempt,
         passed' \subseteq GitAttempt, aborted' = aborted, gitEvents' \in 0 .. MaxGitEvents,
         \/ lock' = lock /\ (pos[t] \in Waiting \cup Inside => p \in Waiting \cup Inside)
         \/ Release(t)
         \/ lock' = Append(lock, t) /\ pos[t] \notin Waiting \cup Inside /\ p \in Waiting,
         t \in wrote' => /\ p \notin {"idle", "create", "child"}
                         /\ \/ w \notin {"none", "clean", "removed"}
                            \/ p = "merged" /\ Merged(t)
  PROVE  GitInv'
<1>0. GitTypeOK /\ Queued /\ KeptUntil
  BY DEF GitInv
<1>1. /\ pos \in [GitAttempt -> Positions] /\ tree \in [GitAttempt -> Trees]
      /\ lock \in Seq(GitAttempt) /\ IsInjective(lock)
      /\ wrote \subseteq GitAttempt /\ aborted \subseteq GitAttempt
  BY <1>0 DEF GitTypeOK
<1>2. lock' \in Seq(GitAttempt) /\ IsInjective(lock') /\ Queued'
  <2>1. CASE lock' = lock /\ (pos[t] \in Waiting \cup Inside => p \in Waiting \cup Inside)
    BY <2>1, QueueStep
  <2>2. CASE Release(t)
    BY <2>2, QueueStep
  <2>3. CASE lock' = Append(lock, t) /\ pos[t] \notin Waiting \cup Inside /\ p \in Waiting
    <3>1. t \notin ToSet(lock) /\ ToSet(lock) \subseteq GitAttempt
      BY <2>3, <1>0, <1>1, InQueue DEF Queued, ToSet
    <3>2. lock' \in Seq(GitAttempt) /\ IsInjective(lock') /\ ToSet(lock') = ToSet(lock) \cup {t}
      BY <2>3, <3>1, <1>1, JoinsQueue
    <3> QED BY <2>3, <3>1, <3>2, <1>0, <1>1 DEF Queued
  <2> QED BY <2>1, <2>2, <2>3
<1>3. GitTypeOK'
  BY <1>1, <1>2 DEF GitTypeOK, Histories
<1>4. KeptUntil'
  <2>1. SUFFICES ASSUME NEW u \in wrote'
                 PROVE  /\ pos'[u] \notin {"idle", "create", "child"}
                        /\ tree'[u] \notin {"none", "clean", "removed"} \/ (pos'[u] = "merged" /\ Merged(u)')
    BY DEF KeptUntil, Holds
  <2>2. u \in GitAttempt
    BY <1>1
  <2>3. Merged(u) => Merged(u)'
    BY <2>2, <1>3, MergedStays
  <2>4. CASE u = t
    BY <2>2, <2>3, <2>4, <1>1
  <2>5. CASE u # t
    <3>1. u \in wrote /\ pos'[u] = pos[u] /\ tree'[u] = tree[u]
      BY <2>2, <2>5, <1>1
    <3> QED BY <3>1, <2>3, <1>0 DEF KeptUntil, Holds
  <2> QED BY <2>4, <2>5
<1> QED BY <1>2, <1>3, <1>4, HeadMovesKeep

\* The worktree and its child, up to the offer of the candidate.
LEMMA WorktreeSteps ==
  ASSUME GitInv, NEW t \in GitAttempt,
         PrepareIsolation(t) \/ CreateWorktree(t) \/ ChildEnds(t) \/ Status(t) \/ Cleanup(t)
  PROVE  GitInv'
<1> USE DEF MoveTo, SetTree, mainVars
<1>0. /\ pos \in [GitAttempt -> Positions] /\ tree \in [GitAttempt -> Trees]
      /\ head \in Histories /\ base \in [GitAttempt -> Histories] /\ dirty \in BOOLEAN
      /\ wrote \subseteq GitAttempt /\ junk \subseteq GitAttempt /\ wrong \subseteq GitAttempt
      /\ passed \subseteq GitAttempt /\ gitEvents \in 0 .. MaxGitEvents
      /\ GitHappens => gitEvents' \in 0 .. MaxGitEvents
  BY GitAssumption DEF GitInv, GitTypeOK, Histories, GitHappens
<1>k. /\ pos[t] \in {"idle", "create", "child"} => t \notin wrote
      /\ pos[t] # "merged" /\ t \in wrote => tree[t] \notin {"none", "clean", "removed"}
  BY DEF GitInv, KeptUntil, Holds
<1>1. CASE PrepareIsolation(t)
  <2>1. PICK p \in {"threw", "create"}, w \in Trees :
          /\ pos' = [pos EXCEPT ![t] = p] /\ tree' = [tree EXCEPT ![t] = w]
          /\ t \in wrote' => w \notin {"none", "clean", "removed"} /\ p \notin {"idle", "create", "child"}
    BY <1>1, <1>0, <1>k DEF PrepareIsolation
  <2>2. p \in Positions /\ w \in Trees /\ pos[t] \notin Merging \cup Waiting \cup Inside
    BY <2>1, <1>1, <1>0 DEF PrepareIsolation, Merging, Trees, Positions, Waiting, Inside, Outside, Outcomes
  <2>3. HeadMoves
    BY <1>1, <2>1, <2>2, <1>0 DEF PrepareIsolation, HeadMoves, GitInv
  <2>4. /\ head' \in Histories /\ base' \in [GitAttempt -> Histories] /\ dirty' \in BOOLEAN
        /\ wrote' \subseteq wrote \cup {t} /\ junk' \subseteq GitAttempt /\ wrong' \subseteq GitAttempt
        /\ passed' \subseteq GitAttempt /\ aborted' = aborted /\ lock' = lock
        /\ gitEvents' \in 0 .. MaxGitEvents
    BY <1>1, <1>0 DEF PrepareIsolation
  <2> QED BY <2>1, <2>2, <2>3, <2>4, AttemptStep
<1>2. CASE CreateWorktree(t)
  <2>1. PICK p \in {"threw", "child"}, w \in {"none", "clean"} :
          /\ pos' = [pos EXCEPT ![t] = p] /\ tree' = [tree EXCEPT ![t] = w]
          /\ t \in wrote' => w \notin {"none", "clean", "removed"} /\ p \notin {"idle", "create", "child"}
    BY <1>2, <1>0, <1>k DEF CreateWorktree
  <2>2. p \in Positions /\ w \in Trees /\ pos[t] \notin Merging \cup Waiting \cup Inside
    BY <2>1, <1>2, <1>0 DEF CreateWorktree, Merging, Trees, Positions, Waiting, Inside, Outside, Outcomes
  <2>3. HeadMoves
    BY <1>2, <2>1, <2>2, <1>0, QuietStep DEF CreateWorktree
  <2>4. /\ head' \in Histories /\ base' \in [GitAttempt -> Histories] /\ dirty' \in BOOLEAN
        /\ wrote' \subseteq wrote \cup {t} /\ junk' \subseteq GitAttempt /\ wrong' \subseteq GitAttempt
        /\ passed' \subseteq GitAttempt /\ aborted' = aborted /\ lock' = lock
        /\ gitEvents' \in 0 .. MaxGitEvents
    BY <1>2, <1>0 DEF CreateWorktree
  <2> QED BY <2>1, <2>2, <2>3, <2>4, AttemptStep
<1>3. CASE ChildEnds(t)
  <2>1. PICK p \in {"status", "unmerged"}, w \in {"clean", "edited", "own", "ownEdited"} :
          /\ pos' = [pos EXCEPT ![t] = p] /\ tree' = [tree EXCEPT ![t] = w]
          /\ t \in wrote' => w \notin {"none", "clean", "removed"} /\ p \notin {"idle", "create", "child"}
    BY <1>3, <1>0, <1>k DEF ChildEnds
  <2>2. p \in Positions /\ w \in Trees /\ pos[t] \notin Merging \cup Waiting \cup Inside
    BY <2>1, <1>3, <1>0 DEF ChildEnds, Merging, Trees, Positions, Waiting, Inside, Outside, Outcomes
  <2>3. HeadMoves
    BY <1>3, <2>1, <2>2, <1>0, QuietStep DEF ChildEnds
  <2>4. /\ head' \in Histories /\ base' \in [GitAttempt -> Histories] /\ dirty' \in BOOLEAN
        /\ wrote' \subseteq wrote \cup {t} /\ junk' \subseteq GitAttempt /\ wrong' \subseteq GitAttempt
        /\ passed' \subseteq GitAttempt /\ aborted' = aborted /\ lock' = lock
        /\ gitEvents' \in 0 .. MaxGitEvents
    BY <1>3, <1>0 DEF ChildEnds
  <2> QED BY <2>1, <2>2, <2>3, <2>4, AttemptStep
<1>4. CASE Status(t)
  <2>1. PICK p \in {"threw", "cleanup", "offer"}, w \in Trees :
          /\ pos' = [pos EXCEPT ![t] = p] /\ tree' = [tree EXCEPT ![t] = w]
          /\ t \in wrote' => w \notin {"none", "clean", "removed"} /\ p \notin {"idle", "create", "child"}
    BY <1>4, <1>0, <1>k DEF Status, Trees
  <2>2. p \in Positions /\ w \in Trees /\ pos[t] \notin Merging \cup Waiting \cup Inside
    BY <2>1, <1>4, <1>0 DEF Status, Merging, Trees, Positions, Waiting, Inside, Outside, Outcomes
  <2>3. HeadMoves
    BY <1>4, <2>1, <2>2, <1>0, QuietStep DEF Status
  <2>4. /\ head' \in Histories /\ base' \in [GitAttempt -> Histories] /\ dirty' \in BOOLEAN
        /\ wrote' \subseteq wrote \cup {t} /\ junk' \subseteq GitAttempt /\ wrong' \subseteq GitAttempt
        /\ passed' \subseteq GitAttempt /\ aborted' = aborted /\ lock' = lock
        /\ gitEvents' \in 0 .. MaxGitEvents
    BY <1>4, <1>0 DEF Status
  <2> QED BY <2>1, <2>2, <2>3, <2>4, AttemptStep
<1>5. CASE Cleanup(t)
  <2>1. PICK p \in {"threw", "unchanged"}, w \in Trees :
          /\ pos' = [pos EXCEPT ![t] = p] /\ tree' = [tree EXCEPT ![t] = w]
          /\ t \in wrote' => w \notin {"none", "clean", "removed"} /\ p \notin {"idle", "create", "child"}
    BY <1>5, <1>0, <1>k DEF Cleanup, Disposable, Trees
  <2>2. p \in Positions /\ w \in Trees /\ pos[t] \notin Merging \cup Waiting \cup Inside
    BY <2>1, <1>5, <1>0 DEF Cleanup, Merging, Trees, Positions, Waiting, Inside, Outside, Outcomes
  <2>3. HeadMoves
    BY <1>5, <2>1, <2>2, <1>0, QuietStep DEF Cleanup
  <2>4. /\ head' \in Histories /\ base' \in [GitAttempt -> Histories] /\ dirty' \in BOOLEAN
        /\ wrote' \subseteq wrote \cup {t} /\ junk' \subseteq GitAttempt /\ wrong' \subseteq GitAttempt
        /\ passed' \subseteq GitAttempt /\ aborted' = aborted /\ lock' = lock
        /\ gitEvents' \in 0 .. MaxGitEvents
    BY <1>5, <1>0 DEF Cleanup
  <2> QED BY <2>1, <2>2, <2>3, <2>4, AttemptStep
<1> QED BY <1>1, <1>2, <1>3, <1>4, <1>5

\* The merge, from the offer to the way out (ControlledWorkspaceMergeV1.execute).
LEMMA MergeSteps ==
  ASSUME GitInv, NEW t \in GitAttempt,
         \/ Offer(t) \/ Acquire(t) \/ GiveUp(t) \/ Preflight(t) \/ Inspect(t) \/ Forward(t)
         \/ After(t) \/ Verify(t) \/ Seal(t) \/ Finalize(t)
  PROVE  GitInv'
<1> USE DEF MoveTo, SetTree, Leave, mainVars, childVars
<1>0. /\ pos \in [GitAttempt -> Positions] /\ tree \in [GitAttempt -> Trees]
      /\ head \in Histories /\ base \in [GitAttempt -> Histories] /\ dirty \in BOOLEAN
      /\ wrote \subseteq GitAttempt /\ junk \subseteq GitAttempt /\ wrong \subseteq GitAttempt
      /\ passed \subseteq GitAttempt /\ gitEvents \in 0 .. MaxGitEvents
      /\ GitHappens => gitEvents' \in 0 .. MaxGitEvents
  BY GitAssumption DEF GitInv, GitTypeOK, Histories, GitHappens
<1>k. pos[t] # "merged" /\ t \in wrote => tree[t] \notin {"none", "clean", "removed"}
  BY DEF GitInv, KeptUntil, Holds
<1>c. Commit(t) \in Histories
  BY <1>0, AppendProperties DEF Commit, Histories
<1>1. CASE Offer(t)
  <2>1. PICK p \in {"cancelled", "wait"} :
          /\ pos' = [pos EXCEPT ![t] = p] /\ tree' = [tree EXCEPT ![t] = tree[t]] /\ wrote' = wrote
          /\ (p = "wait" /\ lock' = Append(lock, t)) \/ lock' = lock
    BY <1>1, <1>0 DEF Offer
  <2>2. p \in Positions /\ tree[t] \in Trees /\ (pos[t] \in Merging => p \in Merging) /\ pos[t] \notin Waiting \cup Inside
    BY <2>1, <1>1, <1>0 DEF Offer, Merging, Positions, Waiting, Inside, Outside, Outcomes
  <2>3. HeadMoves
    BY <1>1, <2>1, <2>2, QuietStep DEF Offer
  <2>4. /\ head' \in Histories /\ base' \in [GitAttempt -> Histories] /\ dirty' \in BOOLEAN
        /\ junk' \subseteq GitAttempt /\ wrong' \subseteq GitAttempt
        /\ passed' \subseteq GitAttempt /\ aborted' = aborted /\ gitEvents' \in 0 .. MaxGitEvents
    BY <1>1, <1>0, <1>c DEF Offer
  <2>5. t \in wrote' => tree[t] \notin {"none", "clean", "removed"} /\ p \notin {"idle", "create", "child"}
    BY <2>1, <1>1, <1>k DEF Offer
  <2>6. \/ lock' = lock /\ (pos[t] \in Waiting \cup Inside => p \in Waiting \cup Inside)
        \/ Release(t)
        \/ lock' = Append(lock, t) /\ pos[t] \notin Waiting \cup Inside /\ p \in Waiting
    BY <2>1, <2>2, <1>1 DEF Offer, Waiting, Inside
  <2> QED BY <2>1, <2>2, <2>3, <2>4, <2>5, <2>6, AttemptStep
<1>2. CASE Acquire(t)
  <2>1. PICK p \in {"preflight"} :
          /\ pos' = [pos EXCEPT ![t] = p] /\ tree' = [tree EXCEPT ![t] = tree[t]] /\ wrote' = wrote
          /\ lock' = lock
    BY <1>2, <1>0 DEF Acquire
  <2>2. p \in Positions /\ tree[t] \in Trees /\ (pos[t] \in Merging => p \in Merging) /\ pos[t] \in Waiting
    BY <2>1, <1>2, <1>0 DEF Acquire, Merging, Positions, Waiting, Inside, Outside, Outcomes
  <2>3. HeadMoves
    BY <1>2, <2>1, <2>2, QuietStep DEF Acquire
  <2>4. /\ head' \in Histories /\ base' \in [GitAttempt -> Histories] /\ dirty' \in BOOLEAN
        /\ junk' \subseteq GitAttempt /\ wrong' \subseteq GitAttempt
        /\ passed' \subseteq GitAttempt /\ aborted' = aborted /\ gitEvents' \in 0 .. MaxGitEvents
    BY <1>2, <1>0, <1>c DEF Acquire
  <2>5. t \in wrote' => tree[t] \notin {"none", "clean", "removed"} /\ p \notin {"idle", "create", "child"}
    BY <2>1, <1>2, <1>k DEF Acquire
  <2>6. \/ lock' = lock /\ (pos[t] \in Waiting \cup Inside => p \in Waiting \cup Inside)
        \/ Release(t)
        \/ lock' = Append(lock, t) /\ pos[t] \notin Waiting \cup Inside /\ p \in Waiting
    BY <2>1, <2>2, <1>2 DEF Acquire, Waiting, Inside
  <2> QED BY <2>1, <2>2, <2>3, <2>4, <2>5, <2>6, AttemptStep
<1>3. CASE GiveUp(t)
  <2>1. PICK p \in {"threw"} :
          /\ pos' = [pos EXCEPT ![t] = p] /\ tree' = [tree EXCEPT ![t] = tree[t]] /\ wrote' = wrote
          /\ Release(t)
    BY <1>3, <1>0 DEF GiveUp
  <2>2. p \in Positions /\ tree[t] \in Trees /\ (pos[t] \in Merging => p \in Merging) /\ pos[t] \in Waiting
    BY <2>1, <1>3, <1>0 DEF GiveUp, Merging, Positions, Waiting, Inside, Outside, Outcomes
  <2>3. HeadMoves
    BY <1>3, <2>1, <2>2, QuietStep DEF GiveUp
  <2>4. /\ head' \in Histories /\ base' \in [GitAttempt -> Histories] /\ dirty' \in BOOLEAN
        /\ junk' \subseteq GitAttempt /\ wrong' \subseteq GitAttempt
        /\ passed' \subseteq GitAttempt /\ aborted' = aborted /\ gitEvents' \in 0 .. MaxGitEvents
    BY <1>3, <1>0, <1>c DEF GiveUp
  <2>5. t \in wrote' => tree[t] \notin {"none", "clean", "removed"} /\ p \notin {"idle", "create", "child"}
    BY <2>1, <1>3, <1>k DEF GiveUp
  <2>6. \/ lock' = lock /\ (pos[t] \in Waiting \cup Inside => p \in Waiting \cup Inside)
        \/ Release(t)
        \/ lock' = Append(lock, t) /\ pos[t] \notin Waiting \cup Inside /\ p \in Waiting
    BY <2>1, <2>2, <1>3 DEF GiveUp, Waiting, Inside
  <2> QED BY <2>1, <2>2, <2>3, <2>4, <2>5, <2>6, AttemptStep
<1>4. CASE Preflight(t)
  <2>1. PICK p \in {"threw", "blocked", "cancelled", "inspect"} :
          /\ pos' = [pos EXCEPT ![t] = p] /\ tree' = [tree EXCEPT ![t] = tree[t]] /\ wrote' = wrote
          /\ (p = "inspect" /\ lock' = lock) \/ Release(t)
    BY <1>4, <1>0 DEF Preflight
  <2>2. p \in Positions /\ tree[t] \in Trees /\ (pos[t] \in Merging => p \in Merging) /\ pos[t] \in Inside
    BY <2>1, <1>4, <1>0 DEF Preflight, Merging, Positions, Waiting, Inside, Outside, Outcomes
  <2>3. HeadMoves
    BY <1>4, <2>1, <2>2, QuietStep DEF Preflight
  <2>4. /\ head' \in Histories /\ base' \in [GitAttempt -> Histories] /\ dirty' \in BOOLEAN
        /\ junk' \subseteq GitAttempt /\ wrong' \subseteq GitAttempt
        /\ passed' \subseteq GitAttempt /\ aborted' = aborted /\ gitEvents' \in 0 .. MaxGitEvents
    BY <1>4, <1>0, <1>c DEF Preflight
  <2>5. t \in wrote' => tree[t] \notin {"none", "clean", "removed"} /\ p \notin {"idle", "create", "child"}
    BY <2>1, <1>4, <1>k DEF Preflight
  <2>6. \/ lock' = lock /\ (pos[t] \in Waiting \cup Inside => p \in Waiting \cup Inside)
        \/ Release(t)
        \/ lock' = Append(lock, t) /\ pos[t] \notin Waiting \cup Inside /\ p \in Waiting
    BY <2>1, <2>2, <1>4 DEF Preflight, Waiting, Inside
  <2> QED BY <2>1, <2>2, <2>3, <2>4, <2>5, <2>6, AttemptStep
<1>5. CASE Inspect(t)
  <2>1. PICK p \in {"blocked", "forward"} :
          /\ pos' = [pos EXCEPT ![t] = p] /\ tree' = [tree EXCEPT ![t] = tree[t]] /\ wrote' = wrote
          /\ (p = "forward" /\ lock' = lock) \/ Release(t)
    BY <1>5, <1>0 DEF Inspect
  <2>2. p \in Positions /\ tree[t] \in Trees /\ (pos[t] \in Merging => p \in Merging) /\ pos[t] \in Inside
    BY <2>1, <1>5, <1>0 DEF Inspect, Merging, Positions, Waiting, Inside, Outside, Outcomes
  <2>3. HeadMoves
    BY <1>5, <2>1, <2>2, QuietStep DEF Inspect
  <2>4. /\ head' \in Histories /\ base' \in [GitAttempt -> Histories] /\ dirty' \in BOOLEAN
        /\ junk' \subseteq GitAttempt /\ wrong' \subseteq GitAttempt
        /\ passed' \subseteq GitAttempt /\ aborted' = aborted /\ gitEvents' \in 0 .. MaxGitEvents
    BY <1>5, <1>0, <1>c DEF Inspect
  <2>5. t \in wrote' => tree[t] \notin {"none", "clean", "removed"} /\ p \notin {"idle", "create", "child"}
    BY <2>1, <1>5, <1>k DEF Inspect
  <2>6. \/ lock' = lock /\ (pos[t] \in Waiting \cup Inside => p \in Waiting \cup Inside)
        \/ Release(t)
        \/ lock' = Append(lock, t) /\ pos[t] \notin Waiting \cup Inside /\ p \in Waiting
    BY <2>1, <2>2, <1>5 DEF Inspect, Waiting, Inside
  <2> QED BY <2>1, <2>2, <2>3, <2>4, <2>5, <2>6, AttemptStep
<1>6. CASE Forward(t)
  <2>1. PICK p \in {"after"} :
          /\ pos' = [pos EXCEPT ![t] = p] /\ tree' = [tree EXCEPT ![t] = tree[t]] /\ wrote' = wrote
          /\ lock' = lock
    BY <1>6, <1>0 DEF Forward
  <2>2. p \in Positions /\ tree[t] \in Trees /\ (pos[t] \in Merging => p \in Merging) /\ pos[t] \in Inside
    BY <2>1, <1>6, <1>0 DEF Forward, Merging, Positions, Waiting, Inside, Outside, Outcomes
  <2>3. HeadMoves
    BY <1>6, <2>1, <2>2, <1>0 DEF Forward, HeadMoves
  <2>4. /\ head' \in Histories /\ base' \in [GitAttempt -> Histories] /\ dirty' \in BOOLEAN
        /\ junk' \subseteq GitAttempt /\ wrong' \subseteq GitAttempt
        /\ passed' \subseteq GitAttempt /\ aborted' = aborted /\ gitEvents' \in 0 .. MaxGitEvents
    BY <1>6, <1>0, <1>c DEF Forward
  <2>5. t \in wrote' => tree[t] \notin {"none", "clean", "removed"} /\ p \notin {"idle", "create", "child"}
    BY <2>1, <1>6, <1>k DEF Forward
  <2>6. \/ lock' = lock /\ (pos[t] \in Waiting \cup Inside => p \in Waiting \cup Inside)
        \/ Release(t)
        \/ lock' = Append(lock, t) /\ pos[t] \notin Waiting \cup Inside /\ p \in Waiting
    BY <2>1, <2>2, <1>6 DEF Forward, Waiting, Inside
  <2> QED BY <2>1, <2>2, <2>3, <2>4, <2>5, <2>6, AttemptStep
<1>7. CASE After(t)
  <2>1. PICK p \in {"blocked", "verify"} :
          /\ pos' = [pos EXCEPT ![t] = p] /\ tree' = [tree EXCEPT ![t] = tree[t]] /\ wrote' = wrote
          /\ (p = "verify" /\ lock' = lock) \/ Release(t)
    BY <1>7, <1>0 DEF After
  <2>2. p \in Positions /\ tree[t] \in Trees /\ (pos[t] \in Merging => p \in Merging) /\ pos[t] \in Inside
    BY <2>1, <1>7, <1>0 DEF After, Merging, Positions, Waiting, Inside, Outside, Outcomes
  <2>3. HeadMoves
    BY <1>7, <2>1, <2>2, QuietStep DEF After
  <2>4. /\ head' \in Histories /\ base' \in [GitAttempt -> Histories] /\ dirty' \in BOOLEAN
        /\ junk' \subseteq GitAttempt /\ wrong' \subseteq GitAttempt
        /\ passed' \subseteq GitAttempt /\ aborted' = aborted /\ gitEvents' \in 0 .. MaxGitEvents
    BY <1>7, <1>0, <1>c DEF After
  <2>5. t \in wrote' => tree[t] \notin {"none", "clean", "removed"} /\ p \notin {"idle", "create", "child"}
    BY <2>1, <1>7, <1>k DEF After
  <2>6. \/ lock' = lock /\ (pos[t] \in Waiting \cup Inside => p \in Waiting \cup Inside)
        \/ Release(t)
        \/ lock' = Append(lock, t) /\ pos[t] \notin Waiting \cup Inside /\ p \in Waiting
    BY <2>1, <2>2, <1>7 DEF After, Waiting, Inside
  <2> QED BY <2>1, <2>2, <2>3, <2>4, <2>5, <2>6, AttemptStep
<1>8. CASE Verify(t)
  <2>1. PICK p \in {"seal"} :
          /\ pos' = [pos EXCEPT ![t] = p] /\ tree' = [tree EXCEPT ![t] = tree[t]] /\ wrote' = wrote
          /\ lock' = lock
    BY <1>8, <1>0 DEF Verify
  <2>2. p \in Positions /\ tree[t] \in Trees /\ (pos[t] \in Merging => p \in Merging) /\ pos[t] \in Inside
    BY <2>1, <1>8, <1>0 DEF Verify, Merging, Positions, Waiting, Inside, Outside, Outcomes
  <2>3. HeadMoves
    BY <1>8, <2>1, <2>2, QuietStep DEF Verify
  <2>4. /\ head' \in Histories /\ base' \in [GitAttempt -> Histories] /\ dirty' \in BOOLEAN
        /\ junk' \subseteq GitAttempt /\ wrong' \subseteq GitAttempt
        /\ passed' \subseteq GitAttempt /\ aborted' = aborted /\ gitEvents' \in 0 .. MaxGitEvents
    BY <1>8, <1>0, <1>c DEF Verify
  <2>5. t \in wrote' => tree[t] \notin {"none", "clean", "removed"} /\ p \notin {"idle", "create", "child"}
    BY <2>1, <1>8, <1>k DEF Verify
  <2>6. \/ lock' = lock /\ (pos[t] \in Waiting \cup Inside => p \in Waiting \cup Inside)
        \/ Release(t)
        \/ lock' = Append(lock, t) /\ pos[t] \notin Waiting \cup Inside /\ p \in Waiting
    BY <2>1, <2>2, <1>8 DEF Verify, Waiting, Inside
  <2> QED BY <2>1, <2>2, <2>3, <2>4, <2>5, <2>6, AttemptStep
<1>9. CASE Seal(t)
  <2>1. PICK p \in {"blocked", "finalize"} :
          /\ pos' = [pos EXCEPT ![t] = p] /\ tree' = [tree EXCEPT ![t] = tree[t]] /\ wrote' = wrote
          /\ (p = "finalize" /\ lock' = lock) \/ Release(t)
    BY <1>9, <1>0 DEF Seal
  <2>2. p \in Positions /\ tree[t] \in Trees /\ (pos[t] \in Merging => p \in Merging) /\ pos[t] \in Inside
    BY <2>1, <1>9, <1>0 DEF Seal, Merging, Positions, Waiting, Inside, Outside, Outcomes
  <2>3. HeadMoves
    BY <1>9, <2>1, <2>2, QuietStep DEF Seal
  <2>4. /\ head' \in Histories /\ base' \in [GitAttempt -> Histories] /\ dirty' \in BOOLEAN
        /\ junk' \subseteq GitAttempt /\ wrong' \subseteq GitAttempt
        /\ passed' \subseteq GitAttempt /\ aborted' = aborted /\ gitEvents' \in 0 .. MaxGitEvents
    BY <1>9, <1>0, <1>c DEF Seal
  <2>5. t \in wrote' => tree[t] \notin {"none", "clean", "removed"} /\ p \notin {"idle", "create", "child"}
    BY <2>1, <1>9, <1>k DEF Seal
  <2>6. \/ lock' = lock /\ (pos[t] \in Waiting \cup Inside => p \in Waiting \cup Inside)
        \/ Release(t)
        \/ lock' = Append(lock, t) /\ pos[t] \notin Waiting \cup Inside /\ p \in Waiting
    BY <2>1, <2>2, <1>9 DEF Seal, Waiting, Inside
  <2> QED BY <2>1, <2>2, <2>3, <2>4, <2>5, <2>6, AttemptStep
<1>10. CASE Finalize(t)
  <2>1. PICK p \in {"threw", "merged", "mergedKept"}, w \in {tree[t], "removed"} :
          /\ pos' = [pos EXCEPT ![t] = p] /\ tree' = [tree EXCEPT ![t] = w] /\ wrote' = wrote
          /\ w = tree[t] \/ (p = "merged" /\ head = Commit(t))
          /\ Release(t)
    BY <1>10, <1>0 DEF Finalize
  <2>2. p \in Positions /\ w \in Trees /\ p \in Merging
    BY <2>1, <1>0 DEF Merging, Trees, Positions, Outcomes
  <2>3. HeadMoves
    BY <1>10, <2>1, <2>2, QuietStep DEF Finalize
  <2>4. /\ head' \in Histories /\ base' \in [GitAttempt -> Histories] /\ dirty' \in BOOLEAN
        /\ junk' \subseteq GitAttempt /\ wrong' \subseteq GitAttempt
        /\ passed' \subseteq GitAttempt /\ aborted' = aborted /\ gitEvents' \in 0 .. MaxGitEvents
    BY <1>10, <1>0 DEF Finalize
  <2>5. head = Commit(t) => Merged(t)
    BY <1>0, OnTop DEF Merged, Commit, Histories
  <2>6. t \in wrote' => /\ p \notin {"idle", "create", "child"}
                        /\ w \notin {"none", "clean", "removed"} \/ (p = "merged" /\ Merged(t))
    BY <2>1, <2>5, <1>10, <1>k DEF Finalize
  <2> QED BY <2>1, <2>2, <2>3, <2>4, <2>6, AttemptStep
<1> QED BY <1>1, <1>2, <1>3, <1>4, <1>5, <1>6, <1>7, <1>8, <1>9, <1>10

\* The user, a process the child left, an abort and a crash of the Runtime.
LEMMA OtherSteps ==
  ASSUME GitInv,
         \/ UserCommits \/ UserEdits \/ GitCrash
         \/ \E t \in GitAttempt : Stray(t) \/ AbortAttempt(t)
  PROVE  GitInv'
<1> USE DEF mainVars, childVars
<1>0. /\ GitTypeOK /\ Queued /\ KeptUntil
      /\ pos \in [GitAttempt -> Positions] /\ head \in Histories
      /\ gitEvents \in 0 .. MaxGitEvents
      /\ GitHappens => gitEvents' \in 0 .. MaxGitEvents
  BY GitAssumption DEF GitInv, GitTypeOK, Histories, GitHappens
<1>1. CASE UserCommits
  <2>1. head' \in Histories /\ head' = Append(head, User)
    BY <1>1, <1>0, AppendProperties DEF UserCommits, Histories
  <2>2. GitTypeOK'
    BY <1>0, <1>1, <2>1 DEF UserCommits, GitTypeOK, Histories
  <2>3. HeadMoves
    BY <1>1 DEF UserCommits, HeadMoves
  <2>4. \A t \in GitAttempt : Merged(t) => Merged(t)'
    BY <2>2, <2>3, MergedStays
  <2>5. Queued' /\ KeptUntil'
    BY <1>0, <1>1, <2>4 DEF UserCommits, Queued, KeptUntil, Holds, GitTypeOK
  <2> QED BY <2>2, <2>3, <2>5, HeadMovesKeep
<1>2. CASE UserEdits \/ \E t \in GitAttempt : Stray(t) \/ AbortAttempt(t)
  <2>1. /\ UNCHANGED <<head, pos, base, tree, wrote, wrong, passed, lock>>
        /\ dirty' \in BOOLEAN /\ junk' \subseteq GitAttempt /\ aborted' \subseteq GitAttempt
        /\ gitEvents' \in 0 .. MaxGitEvents
    BY <1>0, <1>2 DEF UserEdits, Stray, AbortAttempt, GitTypeOK
  <2>2. GitTypeOK'
    BY <1>0, <2>1 DEF GitTypeOK
  <2>3. HeadMoves /\ Queued' /\ KeptUntil'
    BY <1>0, <2>1 DEF HeadMoves, Queued, KeptUntil, Holds, Merged
  <2> QED BY <2>2, <2>3, HeadMovesKeep
<1>3. CASE GitCrash
  <2>1. lock' = <<>> /\ lock' \in Seq(GitAttempt) /\ DOMAIN lock' = {}
    BY <1>3 DEF GitCrash
  <2>2. IsInjective(lock') /\ ToSet(lock') = {}
    BY <2>1 DEF IsInjective, ToSet
  <2>3. pos' \in [GitAttempt -> Positions]
    BY <1>0, <1>3 DEF GitCrash, Positions, Outcomes
  <2>4. GitTypeOK'
    BY <1>0, <1>3, <2>1, <2>2, <2>3 DEF GitCrash, GitTypeOK
  <2>5. HeadMoves
    BY <1>0, <1>3 DEF GitCrash, HeadMoves, Merging, Outcomes
  <2>6. Queued'
    BY <2>2 DEF Queued
  <2>7. KeptUntil'
    BY <1>0, <1>3 DEF GitCrash, GitTypeOK, KeptUntil, Holds, Merged, Outcomes
  <2> QED BY <2>4, <2>5, <2>6, <2>7, HeadMovesKeep
<1> QED BY <1>1, <1>2, <1>3

LEMMA GitStepPreserves == GitInv /\ [GitNext]_gitVars => GitInv'
<1> SUFFICES ASSUME GitInv, [GitNext]_gitVars PROVE GitInv'
  OBVIOUS
<1>1. CASE UNCHANGED gitVars
  BY <1>1 DEF gitVars, GitInv, GitTypeOK, Queued, Based, MergedWhere, MergedOntoBase, KeptUntil,
             Merged, Holds, Commit
<1>2. CASE \E t \in GitAttempt : PrepareIsolation(t) \/ Advance(t)
  BY <1>2, WorktreeSteps, MergeSteps DEF Advance
<1>3. CASE \/ UserCommits \/ UserEdits \/ GitCrash
           \/ \E t \in GitAttempt : Stray(t) \/ AbortAttempt(t)
  BY <1>3, OtherSteps
<1> QED BY <1>1, <1>2, <1>3 DEF GitNext

LEMMA GitInvIsSafe == GitInv => WorkSafe
BY DEF GitInv, WorkSafe, WorkKept, RecoveryKept, UntouchedUnlessSaid, KeptUntil, MergedWhere, Merging, GitTypeOK

\* What a child wrote is in the workspace, on the base the child saw and only as its
\* result says, or in a worktree that nobody removes: for any number of attempts, edits,
\* commits, aborts and crashes (WorkspaceIsolationManagerV1, ControlledWorkspaceMergeV1).
THEOREM WorkIsSafe == GitSpec => []WorkSafe
BY GitInitEstablishes, GitStepPreserves, GitInvIsSafe, PTL DEF GitSpec

-----------------------------------------------------------------------------
(* Copies of a directory *)

Started == {"copying", "undo", "after", "verify", "seal", "rollback", "applied", "merged", "blocked", "crashed"}
CopyingBack == {"copying", "undo", "after", "verify", "seal"}
Keeping == {"copying", "after", "verify", "seal"}
Kept == {"applied", "merged"}
Trying == CopyingBack \cup Kept \cup {"rollback"}
Lining == {"wait"} \cup Holder

Backed(t, p) == p \in DOMAIN backup[t]

\* The contents there have been so far.
Known == DirAttempt \cup (0 .. dirEvents)

\* The lease is with the first of the queue.
InLine == \A t \in DirAttempt :
  /\ t \in ToSet(queue) <=> at[t] \in Lining
  /\ at[t] \in Holder => queue[1] = t

Numbered == \A p \in Path :
  /\ files[p] \in Known
  /\ \A t \in DirAttempt : baseline[t] # None => baseline[t][p] \in Known
  /\ \A t \in DirAttempt : Backed(t, p) => backup[t][p] \in Known

\* Snapshot, copy and backups as far as an attempt has got.
Shaped == \A t \in DirAttempt :
  /\ IF at[t] = "idle" THEN baseline[t] = None ELSE baseline[t] \in Snapshot
  /\ at[t] \notin {"idle", "unchanged", "merged", "threw"} => copy[t] \in Snapshot
  /\ at[t] \in {"candidate"} \cup Lining => \A p \in Path : copy[t][p] \in {t, baseline[t][p]}
  /\ at[t] \notin Started => DOMAIN backup[t] = {}

\* The content of an attempt is nowhere before the attempt has copied it back.
Found(u, p) ==
  \/ files[p] = u
  \/ \E x \in DirAttempt : baseline[x] # None /\ baseline[x][p] = u
  \/ \E x \in DirAttempt : Backed(x, p) /\ backup[x][p] = u
Traced == \A u \in DirAttempt, p \in Path :
  Found(u, p) => at[u] \in Started /\ (at[u] = "copying" => Backed(u, p))

\* A file of an attempt in the workspace is one it can still restore, or may keep.
Restorable == \A t \in DirAttempt, p \in Path :
  Unobserved(t) /\ t \notin torn /\ files[p] = t => Backed(t, p) /\ at[t] \in Trying

\* No backup holds what an attempt tried out unobserved,
BackupsOld == \A t, x \in DirAttempt, p \in Path :
  Unobserved(t) /\ Backed(x, p) => backup[x][p] # t

\* and it is gone from the workspace when the next one copies back.
Alone == \A t, x \in DirAttempt, p \in Path :
  Unobserved(t) /\ at[x] \in CopyingBack /\ x # t => files[p] # t

\* A content of a file is in one place: in the workspace or in one backup.
OnePlace == \A x \in DirAttempt, p \in Path : Backed(x, p) =>
  /\ backup[x][p] # files[p]
  /\ \A y \in DirAttempt : y # x /\ Backed(y, p) => backup[y][p] # backup[x][p]

\* What a file held in the snapshot of an attempt that copied it back is in no other
\* backup, and not in the workspace: nobody can put it back.
Replaced == \A t \in DirAttempt, p \in Path :
  /\ at[t] \in Keeping \cup Kept /\ Backed(t, p) => files[p] # baseline[t][p]
  /\ at[t] \in Keeping \/ (at[t] \in Kept /\ Backed(t, p)) =>
       \A x \in DirAttempt : x # t /\ Backed(x, p) => backup[x][p] # baseline[t][p]

\* An attempt that copies back was in no snapshot of those before it.
Later == \A t, u \in DirAttempt, p \in Path :
  at[u] = "copying" /\ at[t] \in Kept => baseline[t][p] # u

ContentInv == Numbered /\ Traced /\ Restorable /\ BackupsOld /\ Alone /\ OnePlace /\ Replaced /\ Later

DirInv == DirTypeOK /\ InLine /\ Shaped /\ ContentInv

\* No directory is empty, so none is a snapshot.
LEMMA NoneIsNoSnapshot == None \notin Snapshot
<1>1. PICK p \in Path : TRUE
  BY DirAssumption
<1>2. p \notin DOMAIN None
  BY DEF None
<1> QED BY <1>1, <1>2 DEF Snapshot

\* At most one attempt holds the lease.
LEMMA OneHolder ==
  ASSUME InLine, NEW t \in DirAttempt, NEW u \in DirAttempt, at[t] \in Holder, at[u] \in Holder
  PROVE  t = u
BY DEF InLine

LEMMA DirInitEstablishes == DirInit => DirInv
<1> SUFFICES ASSUME DirInit PROVE DirInv
  OBVIOUS
<1>1. <<>> \in Seq(DirAttempt) /\ DOMAIN <<>> = {}
  OBVIOUS
<1>2. IsInjective(queue) /\ ToSet(queue) = {}
  BY <1>1 DEF DirInit, IsInjective, ToSet
<1>3. DOMAIN None = {} /\ None \in [{} -> Content]
  BY DEF None
<1>4. None \in UNION {[P -> Content] : P \in SUBSET Path}
  BY <1>3
<1>5. 0 \in 0 .. MaxDirEvents
  BY DirAssumption
<1>6. [p \in Path |-> 0] \in Snapshot
  BY <1>5 DEF Snapshot, Content
<1>7. DirTypeOK
  BY <1>1, <1>2, <1>4, <1>5, <1>6 DEF DirInit, DirTypeOK, Position
<1>8. InLine
  BY <1>2 DEF DirInit, InLine, Lining, Holder
<1>9. \A t \in DirAttempt : DOMAIN backup[t] = {} /\ baseline[t] = None /\ at[t] = "idle"
  BY <1>3 DEF DirInit
<1>10. \A p \in Path : files[p] = 0
  BY DEF DirInit
<1>11. Shaped
  BY <1>9 DEF Shaped, Lining, Holder
<1>12. 0 \in 0 .. dirEvents /\ 0 \notin DirAttempt
  BY DirAssumption DEF DirInit
<1>13. ContentInv
  BY <1>9, <1>10, <1>12 DEF ContentInv, Numbered, Known, Traced, Found, Restorable, BackupsOld, Alone,
     OnePlace, Replaced, Later, Backed, CopyingBack, Keeping, Kept
<1> QED BY <1>7, <1>8, <1>11, <1>13 DEF DirInv

LEMMA VacateKeeps ==
  ASSUME DirTypeOK, NEW t \in DirAttempt, Vacate(t)
  PROVE  /\ queue' \in Seq(DirAttempt) /\ IsInjective(queue') /\ ToSet(queue') = ToSet(queue) \ {t}
         /\ queue[1] # t => queue'[1] = queue[1]
<1>1. PICK i \in DOMAIN queue : queue[i] = t /\ queue' = RemoveAt(queue, i)
  BY DEF Vacate
<1>2. queue \in Seq(DirAttempt) /\ IsInjective(queue)
  BY DEF DirTypeOK
<1>3. queue[1] # t => i # 1
  BY <1>1
<1>4. queue[1] # t => queue'[1] = queue[1]
  BY <1>1, <1>2, <1>3, FirstStays
<1> QED BY <1>1, <1>2, <1>4, LeavesQueue

\* The queue after a step of one attempt.
LEMMA LineStep ==
  ASSUME DirInv, NEW t \in DirAttempt, NEW b \in Position, at' = [at EXCEPT ![t] = b],
         \/ /\ queue' = queue /\ (at[t] \in Lining <=> b \in Lining)
            /\ b \in Holder => at[t] \in Holder \/ Head(queue) = t
         \/ Vacate(t) /\ at[t] \in Lining /\ b \notin Lining
         \/ queue' = Append(queue, t) /\ at[t] \notin Lining /\ b = "wait"
  PROVE  queue' \in Seq(DirAttempt) /\ IsInjective(queue') /\ InLine'
<1>0. DirTypeOK /\ InLine /\ at \in [DirAttempt -> Position] /\ queue \in Seq(DirAttempt) /\ IsInjective(queue)
  BY DEF DirInv, DirTypeOK
<1>a. Holder \subseteq Lining /\ "wait" \notin Holder /\ "wait" \in Lining
  BY DEF Lining, Holder
<1>1. CASE /\ queue' = queue /\ (at[t] \in Lining <=> b \in Lining)
           /\ b \in Holder => at[t] \in Holder \/ Head(queue) = t
  <2>1. \A u \in DirAttempt : u \in ToSet(queue') <=> at'[u] \in Lining
    BY <1>0, <1>1 DEF InLine
  <2>2. t \in ToSet(queue) => queue # <<>> /\ Head(queue) = queue[1]
    BY <1>0 DEF ToSet
  <2>3. \A u \in DirAttempt : at'[u] \in Holder => queue'[1] = u
    BY <1>0, <1>1, <1>a, <2>2 DEF InLine
  <2> QED BY <1>0, <1>1, <2>1, <2>3 DEF InLine
<1>2. CASE Vacate(t) /\ at[t] \in Lining /\ b \notin Lining
  <2>1. /\ queue' \in Seq(DirAttempt) /\ IsInjective(queue') /\ ToSet(queue') = ToSet(queue) \ {t}
        /\ queue[1] # t => queue'[1] = queue[1]
    BY <1>0, <1>2, VacateKeeps
  <2>2. \A u \in DirAttempt : u \in ToSet(queue') <=> at'[u] \in Lining
    BY <1>0, <1>2, <2>1 DEF InLine
  <2>3. \A u \in DirAttempt : at'[u] \in Holder => queue'[1] = u
    BY <1>0, <1>2, <1>a, <2>1 DEF InLine
  <2> QED BY <2>1, <2>2, <2>3 DEF InLine
<1>3. CASE queue' = Append(queue, t) /\ at[t] \notin Lining /\ b = "wait"
  <2>1. t \notin ToSet(queue)
    BY <1>0, <1>3 DEF InLine
  <2>2. /\ queue' \in Seq(DirAttempt) /\ IsInjective(queue') /\ ToSet(queue') = ToSet(queue) \cup {t}
        /\ queue # <<>> => queue'[1] = queue[1]
    BY <1>0, <1>3, <2>1, JoinsQueue
  <2>3. \A u \in DirAttempt : u \in ToSet(queue') <=> at'[u] \in Lining
    BY <1>0, <1>3, <1>a, <2>2 DEF InLine
  <2>4. \A u \in DirAttempt : u \in ToSet(queue) => queue # <<>>
    BY <1>0 DEF ToSet
  <2>5. \A u \in DirAttempt : at'[u] \in Holder => queue'[1] = u
    BY <1>0, <1>3, <1>a, <2>2, <2>4 DEF InLine
  <2> QED BY <2>2, <2>3, <2>5 DEF InLine
<1> QED BY <1>1, <1>2, <1>3

\* The contents after a step that touches no file, no backup and no snapshot.
LEMMA QuietContent ==
  ASSUME DirInv, NEW t \in DirAttempt, NEW b \in Position, at' = [at EXCEPT ![t] = b],
         UNCHANGED <<files, backup, baseline, torn>>, dirEvents' \in Nat, dirEvents <= dirEvents',
         at[t] \in Started => b \in Started,
         b \in CopyingBack => at[t] \in CopyingBack \/ b = "copying",
         b \in Keeping => at[t] \in Keeping \/ b = "copying",
         b = "copying" => at[t] = "before" /\ files = baseline[t],
         b \in Kept => at[t] \in Kept \cup {"seal"},
         at[t] \in Trying /\ b \notin Trying => DOMAIN backup[t] = {}
  PROVE  ContentInv'
<1>0. /\ at \in [DirAttempt -> Position] /\ dirEvents \in Nat
      /\ Numbered /\ Traced /\ Restorable /\ BackupsOld /\ Alone /\ OnePlace /\ Replaced /\ Later
      /\ InLine /\ Shaped
  BY DirAssumption DEF DirInv, ContentInv, DirTypeOK
<1>1. at'[t] = b /\ \A u \in DirAttempt : u # t => at'[u] = at[u]
  BY <1>0
<1>2. Known \subseteq Known'
  BY <1>0 DEF Known
<1>3. Numbered'
  BY <1>0, <1>2 DEF Numbered, Backed
<1>4. \A u, x \in DirAttempt : Unobserved(u)' = Unobserved(u) /\ (\A p : Backed(x, p)' = Backed(x, p))
  BY DEF Unobserved, Backed
<1>5. \A u \in DirAttempt, p \in Path : Found(u, p)' = Found(u, p)
  BY DEF Found, Backed
<1>6. b = "copying" => \A p \in Path : ~Found(t, p)
  BY <1>0 DEF Traced, Started
<1>7. Traced'
  BY <1>0, <1>1, <1>4, <1>5, <1>6 DEF Traced
<1>8. Restorable'
  BY <1>0, <1>1, <1>4 DEF Restorable, Backed
<1>9. BackupsOld' /\ OnePlace'
  BY <1>0, <1>4 DEF BackupsOld, OnePlace, Backed
<1>10. Alone'
  <2>1. SUFFICES ASSUME NEW u \in DirAttempt, NEW x \in DirAttempt, NEW p \in Path,
                        Unobserved(u), at'[x] \in CopyingBack, x # u
                 PROVE  files[p] # u
    BY <1>4 DEF Alone
  <2>2. CASE at[x] \in CopyingBack
    BY <2>1, <2>2, <1>0 DEF Alone
  <2>3. CASE x = t /\ b = "copying"
    <3>1. baseline[t] # None /\ files[p] = baseline[t][p]
      BY <2>3, <1>0, NoneIsNoSnapshot DEF Shaped
    <3> QED BY <2>1, <2>3, <3>1 DEF Unobserved
  <2> QED BY <2>1, <2>2, <2>3, <1>1
<1>11. Replaced'
  <2>1. SUFFICES ASSUME NEW u \in DirAttempt, NEW p \in Path
                 PROVE  /\ at'[u] \in Keeping \cup Kept /\ Backed(u, p) => files[p] # baseline[u][p]
                        /\ at'[u] \in Keeping \/ (at'[u] \in Kept /\ Backed(u, p)) =>
                             \A x \in DirAttempt : x # u /\ Backed(x, p) => backup[x][p] # baseline[u][p]
    BY <1>4 DEF Replaced, Backed
  <2>2. CASE u # t \/ b # "copying"
    <3>1. /\ at'[u] \in Keeping => at[u] \in Keeping
          /\ at'[u] \in Kept => at[u] \in Kept \cup Keeping
      BY <2>2, <1>1 DEF Keeping
    <3> QED BY <3>1, <1>0 DEF Replaced
  <2>3. CASE u = t /\ b = "copying"
    <3>1. at[t] = "before" /\ files[p] = baseline[t][p] /\ DOMAIN backup[t] = {}
      BY <2>3, <1>0 DEF Shaped, Started
    <3> QED BY <2>3, <3>1, <1>0 DEF OnePlace, Backed
  <2> QED BY <2>2, <2>3
<1>12. Later'
  <2>1. SUFFICES ASSUME NEW u \in DirAttempt, NEW x \in DirAttempt, NEW p \in Path,
                        at'[x] = "copying", at'[u] \in Kept
                 PROVE  baseline[u][p] # x
    BY DEF Later
  <2>2. at'[u] \in Kept => at'[u] # "copying" /\ at'[u] # "idle"
    BY DEF Kept
  <2>3. CASE at[x] = "copying" /\ at[u] \in Kept
    BY <2>3, <1>0 DEF Later
  <2>4. CASE x = t
    <3>1. u # t /\ at[u] = at'[u] /\ baseline[u] # None
      BY <2>1, <2>2, <2>4, <1>0, <1>1, NoneIsNoSnapshot DEF Shaped
    <3> QED BY <2>1, <2>4, <3>1, <1>1, <1>6 DEF Found
  <2>5. CASE x # t /\ at[u] \notin Kept
    <3>1. u = t /\ at[t] = "seal" /\ at[x] = "copying"
      BY <2>1, <2>5, <1>1
    <3> QED BY <2>5, <3>1, <1>0, OneHolder DEF Holder
  <2> QED BY <2>1, <2>3, <2>4, <2>5, <1>1
<1> QED BY <1>3, <1>7, <1>8, <1>9, <1>10, <1>11, <1>12 DEF ContentInv

\* A step of one attempt that moves it on, and may make or remove its copy.
LEMMA MoveStep ==
  ASSUME DirInv, NEW t \in DirAttempt, NEW b \in Position, NEW c \in Snapshot \cup {None},
         at' = [at EXCEPT ![t] = b], copy' = [copy EXCEPT ![t] = c],
         UNCHANGED <<files, backup, baseline, torn, signalled>>,
         dirEvents' \in 0 .. MaxDirEvents, dirEvents <= dirEvents',
         seen' \in [DirAttempt -> Snapshot \cup {None}], faulty' \subseteq DirAttempt, verified' \subseteq DirAttempt,
         \/ /\ queue' = queue /\ (at[t] \in Lining <=> b \in Lining)
            /\ b \in Holder => at[t] \in Holder \/ Head(queue) = t
         \/ Vacate(t) /\ at[t] \in Lining /\ b \notin Lining
         \/ queue' = Append(queue, t) /\ at[t] \notin Lining /\ b = "wait",
         at[t] # "idle", b # "idle",
         b \notin {"unchanged", "merged", "threw"} => c \in Snapshot,
         b \in {"candidate"} \cup Lining => \A p \in Path : c[p] \in {t, baseline[t][p]},
         at[t] \in Started => b \in Started,
         b \in CopyingBack => at[t] \in CopyingBack \/ b = "copying",
         b \in Keeping => at[t] \in Keeping \/ b = "copying",
         b = "copying" => at[t] = "before" /\ files = baseline[t],
         b \in Kept => at[t] \in Kept \cup {"seal"},
         at[t] \in Trying /\ b \notin Trying => DOMAIN backup[t] = {}
  PROVE  DirInv'
<1>0. /\ DirTypeOK /\ Shaped /\ at \in [DirAttempt -> Position]
      /\ copy \in [DirAttempt -> Snapshot \cup {None}]
  BY DEF DirInv, DirTypeOK
<1>1. queue' \in Seq(DirAttempt) /\ IsInjective(queue') /\ InLine'
  BY LineStep
<1>2. dirEvents' \in Nat
  BY DirAssumption
<1>3. ContentInv'
  BY <1>2, QuietContent
<1>4. DirTypeOK'
  BY <1>0, <1>1 DEF DirTypeOK
<1>5. Shaped'
  <2>1. SUFFICES ASSUME NEW u \in DirAttempt
        PROVE  /\ IF at'[u] = "idle" THEN baseline[u] = None ELSE baseline[u] \in Snapshot
               /\ at'[u] \notin {"idle", "unchanged", "merged", "threw"} => copy'[u] \in Snapshot
               /\ at'[u] \in {"candidate"} \cup Lining => \A p \in Path : copy'[u][p] \in {u, baseline[u][p]}
               /\ at'[u] \notin Started => DOMAIN backup[u] = {}
    BY DEF Shaped
  <2>2. CASE u = t
    <3>1. at'[u] = b /\ copy'[u] = c
      BY <2>2, <1>0
    <3> QED BY <2>2, <3>1, <1>0 DEF Shaped
  <2>3. CASE u # t
    <3>1. at'[u] = at[u] /\ copy'[u] = copy[u]
      BY <2>3, <1>0
    <3> QED BY <3>1, <1>0 DEF Shaped
  <2> QED BY <2>2, <2>3
<1> QED BY <1>1, <1>3, <1>4, <1>5 DEF DirInv

\* The steps that touch no file of the workspace.
LEMMA QuietSteps ==
  ASSUME DirInv, NEW t \in DirAttempt,
         \/ Stable(t) \/ ChildReturns(t) \/ Candidate(t) \/ StopWaiting(t) \/ Lease(t) \/ Before(t)
         \/ CopyFile(t) /\ at' # at
         \/ Undo(t) /\ at' # at
         \/ AfterCopy(t) \/ Verifiers(t) \/ Answer(t)
         \/ Rollback(t) /\ at' # at
         \/ RemoveCopy(t)
  PROVE  DirInv'
<1> USE DEF Goto, SetCopy, Exit, snapVars, guardVars
<1>0. /\ at \in [DirAttempt -> Position] /\ copy \in [DirAttempt -> Snapshot \cup {None}]
      /\ seen \in [DirAttempt -> Snapshot \cup {None}] /\ files \in Snapshot
      /\ faulty \subseteq DirAttempt /\ verified \subseteq DirAttempt /\ dirEvents \in 0 .. MaxDirEvents
      /\ Occurs => dirEvents' \in 0 .. MaxDirEvents /\ dirEvents <= dirEvents'
      /\ dirEvents <= dirEvents
  BY DirAssumption DEF DirInv, DirTypeOK, Occurs
<1>k. /\ at[t] # "idle" => baseline[t] \in Snapshot
      /\ at[t] \notin {"idle", "unchanged", "merged", "threw"} => copy[t] \in Snapshot
      /\ at[t] \in {"candidate"} \cup Lining => \A p \in Path : copy[t][p] \in {t, baseline[t][p]}
  BY DEF DirInv, Shaped
<1>1. CASE Stable(t)
  <2>1. PICK b \in {"child", "threw"}, c \in {copy[t], None} :
          /\ at' = [at EXCEPT ![t] = b] /\ copy' = [copy EXCEPT ![t] = c]
          /\ queue' = queue /\ (b = "child" => c = copy[t])
    BY <1>1, <1>0, <1>k DEF Stable
  <2>2. /\ b \in Position /\ at[t] # "idle" /\ b # "idle"
        /\ at[t] \in Started => b \in Started
        /\ b \in CopyingBack => at[t] \in CopyingBack \/ b = "copying"
        /\ b \in Keeping => at[t] \in Keeping \/ b = "copying"
        /\ b = "copying" => at[t] = "before" /\ files = baseline[t]
        /\ b \in Kept => at[t] \in Kept \cup {"seal"}
        /\ at[t] \in Trying /\ b \notin Trying => DOMAIN backup[t] = {}
    BY <1>1, <2>1 DEF Stable, Position, Outcome, Holder, Lining, Started, CopyingBack, Keeping, Kept, Trying
  <2>3. /\ c \in Snapshot \cup {None}
        /\ b \notin {"unchanged", "merged", "threw"} => c \in Snapshot
        /\ b \in {"candidate"} \cup Lining => \A p \in Path : c[p] \in {t, baseline[t][p]}
    BY <1>1, <2>1, <1>0, <1>k DEF Stable, Lining, Holder
  <2>4. /\ UNCHANGED <<files, backup, baseline, torn, signalled>>
        /\ dirEvents' \in 0 .. MaxDirEvents /\ dirEvents <= dirEvents'
        /\ seen' \in [DirAttempt -> Snapshot \cup {None}] /\ faulty' \subseteq DirAttempt /\ verified' \subseteq DirAttempt
    BY <1>1, <1>0 DEF Stable
  <2>5. \/ /\ queue' = queue /\ (at[t] \in Lining <=> b \in Lining)
           /\ b \in Holder => at[t] \in Holder \/ Head(queue) = t
        \/ Vacate(t) /\ at[t] \in Lining /\ b \notin Lining
        \/ queue' = Append(queue, t) /\ at[t] \notin Lining /\ b = "wait"
    BY <1>1, <2>1 DEF Stable, Lining, Holder, Outcome
  <2> QED BY <2>1, <2>2, <2>3, <2>4, <2>5, MoveStep
<1>2. CASE ChildReturns(t)
  <2>1. PICK b \in {"candidate", "unmerged"}, c \in Snapshot :
          /\ at' = [at EXCEPT ![t] = b] /\ copy' = [copy EXCEPT ![t] = c]
          /\ queue' = queue /\ \A p \in Path : c[p] \in {t, baseline[t][p]}
    <3>1. PICK changes \in SUBSET Path, misreported \in BOOLEAN, mergeable \in BOOLEAN :
            /\ copy' = [copy EXCEPT ![t] = [p \in Path |-> IF p \in changes THEN t ELSE baseline[t][p]]]
            /\ at' = [at EXCEPT ![t] = IF mergeable THEN "candidate" ELSE "unmerged"]
      BY <1>2 DEF ChildReturns
    <3>2. PICK c : c = [p \in Path |-> IF p \in changes THEN t ELSE baseline[t][p]]
      OBVIOUS
    <3>3. baseline[t] \in [Path -> Content] /\ t \in Content
      BY <1>2, <1>k DEF ChildReturns, Snapshot, Content
    <3>4. c \in Snapshot /\ \A p \in Path : c[p] \in {t, baseline[t][p]}
      BY <3>2, <3>3 DEF Snapshot
    <3>5. PICK b \in {"candidate", "unmerged"} : b = IF mergeable THEN "candidate" ELSE "unmerged"
      OBVIOUS
    <3> QED BY <1>2, <3>1, <3>2, <3>4, <3>5 DEF ChildReturns
  <2>2. /\ b \in Position /\ at[t] # "idle" /\ b # "idle"
        /\ at[t] \in Started => b \in Started
        /\ b \in CopyingBack => at[t] \in CopyingBack \/ b = "copying"
        /\ b \in Keeping => at[t] \in Keeping \/ b = "copying"
        /\ b = "copying" => at[t] = "before" /\ files = baseline[t]
        /\ b \in Kept => at[t] \in Kept \cup {"seal"}
        /\ at[t] \in Trying /\ b \notin Trying => DOMAIN backup[t] = {}
    BY <1>2, <2>1 DEF ChildReturns, Position, Outcome, Holder, Lining, Started, CopyingBack, Keeping, Kept, Trying
  <2>3. /\ c \in Snapshot \cup {None}
        /\ b \notin {"unchanged", "merged", "threw"} => c \in Snapshot
        /\ b \in {"candidate"} \cup Lining => \A p \in Path : c[p] \in {t, baseline[t][p]}
    BY <1>2, <2>1, <1>0, <1>k DEF ChildReturns, Lining, Holder
  <2>4. /\ UNCHANGED <<files, backup, baseline, torn, signalled>>
        /\ dirEvents' \in 0 .. MaxDirEvents /\ dirEvents <= dirEvents'
        /\ seen' \in [DirAttempt -> Snapshot \cup {None}] /\ faulty' \subseteq DirAttempt /\ verified' \subseteq DirAttempt
    BY <1>2, <1>0 DEF ChildReturns
  <2>5. \/ /\ queue' = queue /\ (at[t] \in Lining <=> b \in Lining)
           /\ b \in Holder => at[t] \in Holder \/ Head(queue) = t
        \/ Vacate(t) /\ at[t] \in Lining /\ b \notin Lining
        \/ queue' = Append(queue, t) /\ at[t] \notin Lining /\ b = "wait"
    BY <1>2, <2>1 DEF ChildReturns, Lining, Holder, Outcome
  <2> QED BY <2>1, <2>2, <2>3, <2>4, <2>5, MoveStep
<1>3. CASE Candidate(t)
  <2>1. PICK b \in {"threw", "cancelled", "blocked", "unchanged", "wait"}, c \in {copy[t], None} :
          /\ at' = [at EXCEPT ![t] = b] /\ copy' = [copy EXCEPT ![t] = c]
          /\ (b # "unchanged" => c = copy[t])
          /\ IF b = "wait" THEN queue' = Append(queue, t) ELSE queue' = queue
    BY <1>3, <1>0, <1>k DEF Candidate
  <2>2. /\ b \in Position /\ at[t] # "idle" /\ b # "idle"
        /\ at[t] \in Started => b \in Started
        /\ b \in CopyingBack => at[t] \in CopyingBack \/ b = "copying"
        /\ b \in Keeping => at[t] \in Keeping \/ b = "copying"
        /\ b = "copying" => at[t] = "before" /\ files = baseline[t]
        /\ b \in Kept => at[t] \in Kept \cup {"seal"}
        /\ at[t] \in Trying /\ b \notin Trying => DOMAIN backup[t] = {}
    BY <1>3, <2>1 DEF Candidate, Position, Outcome, Holder, Lining, Started, CopyingBack, Keeping, Kept, Trying
  <2>3. /\ c \in Snapshot \cup {None}
        /\ b \notin {"unchanged", "merged", "threw"} => c \in Snapshot
        /\ b \in {"candidate"} \cup Lining => \A p \in Path : c[p] \in {t, baseline[t][p]}
    BY <1>3, <2>1, <1>0, <1>k DEF Candidate, Lining, Holder
  <2>4. /\ UNCHANGED <<files, backup, baseline, torn, signalled>>
        /\ dirEvents' \in 0 .. MaxDirEvents /\ dirEvents <= dirEvents'
        /\ seen' \in [DirAttempt -> Snapshot \cup {None}] /\ faulty' \subseteq DirAttempt /\ verified' \subseteq DirAttempt
    BY <1>3, <1>0 DEF Candidate
  <2>5. \/ /\ queue' = queue /\ (at[t] \in Lining <=> b \in Lining)
           /\ b \in Holder => at[t] \in Holder \/ Head(queue) = t
        \/ Vacate(t) /\ at[t] \in Lining /\ b \notin Lining
        \/ queue' = Append(queue, t) /\ at[t] \notin Lining /\ b = "wait"
    BY <1>3, <2>1 DEF Candidate, Lining, Holder, Outcome
  <2> QED BY <2>1, <2>2, <2>3, <2>4, <2>5, MoveStep
<1>4. CASE StopWaiting(t)
  <2>1. PICK b \in {"threw"}, c \in {copy[t]} :
          /\ at' = [at EXCEPT ![t] = b] /\ copy' = [copy EXCEPT ![t] = c]
          /\ Vacate(t)
    BY <1>4, <1>0, <1>k DEF StopWaiting
  <2>2. /\ b \in Position /\ at[t] # "idle" /\ b # "idle"
        /\ at[t] \in Started => b \in Started
        /\ b \in CopyingBack => at[t] \in CopyingBack \/ b = "copying"
        /\ b \in Keeping => at[t] \in Keeping \/ b = "copying"
        /\ b = "copying" => at[t] = "before" /\ files = baseline[t]
        /\ b \in Kept => at[t] \in Kept \cup {"seal"}
        /\ at[t] \in Trying /\ b \notin Trying => DOMAIN backup[t] = {}
    BY <1>4, <2>1 DEF StopWaiting, Position, Outcome, Holder, Lining, Started, CopyingBack, Keeping, Kept, Trying
  <2>3. /\ c \in Snapshot \cup {None}
        /\ b \notin {"unchanged", "merged", "threw"} => c \in Snapshot
        /\ b \in {"candidate"} \cup Lining => \A p \in Path : c[p] \in {t, baseline[t][p]}
    BY <1>4, <2>1, <1>0, <1>k DEF StopWaiting, Lining, Holder
  <2>4. /\ UNCHANGED <<files, backup, baseline, torn, signalled>>
        /\ dirEvents' \in 0 .. MaxDirEvents /\ dirEvents <= dirEvents'
        /\ seen' \in [DirAttempt -> Snapshot \cup {None}] /\ faulty' \subseteq DirAttempt /\ verified' \subseteq DirAttempt
    BY <1>4, <1>0 DEF StopWaiting
  <2>5. \/ /\ queue' = queue /\ (at[t] \in Lining <=> b \in Lining)
           /\ b \in Holder => at[t] \in Holder \/ Head(queue) = t
        \/ Vacate(t) /\ at[t] \in Lining /\ b \notin Lining
        \/ queue' = Append(queue, t) /\ at[t] \notin Lining /\ b = "wait"
    BY <1>4, <2>1 DEF StopWaiting, Lining, Holder, Outcome
  <2> QED BY <2>1, <2>2, <2>3, <2>4, <2>5, MoveStep
<1>5. CASE Lease(t)
  <2>1. PICK b \in {"before"}, c \in {copy[t]} :
          /\ at' = [at EXCEPT ![t] = b] /\ copy' = [copy EXCEPT ![t] = c]
          /\ queue' = queue
    BY <1>5, <1>0, <1>k DEF Lease
  <2>2. /\ b \in Position /\ at[t] # "idle" /\ b # "idle"
        /\ at[t] \in Started => b \in Started
        /\ b \in CopyingBack => at[t] \in CopyingBack \/ b = "copying"
        /\ b \in Keeping => at[t] \in Keeping \/ b = "copying"
        /\ b = "copying" => at[t] = "before" /\ files = baseline[t]
        /\ b \in Kept => at[t] \in Kept \cup {"seal"}
        /\ at[t] \in Trying /\ b \notin Trying => DOMAIN backup[t] = {}
    BY <1>5, <2>1 DEF Lease, Position, Outcome, Holder, Lining, Started, CopyingBack, Keeping, Kept, Trying
  <2>3. /\ c \in Snapshot \cup {None}
        /\ b \notin {"unchanged", "merged", "threw"} => c \in Snapshot
        /\ b \in {"candidate"} \cup Lining => \A p \in Path : c[p] \in {t, baseline[t][p]}
    BY <1>5, <2>1, <1>0, <1>k DEF Lease, Lining, Holder
  <2>4. /\ UNCHANGED <<files, backup, baseline, torn, signalled>>
        /\ dirEvents' \in 0 .. MaxDirEvents /\ dirEvents <= dirEvents'
        /\ seen' \in [DirAttempt -> Snapshot \cup {None}] /\ faulty' \subseteq DirAttempt /\ verified' \subseteq DirAttempt
    BY <1>5, <1>0 DEF Lease
  <2>5. \/ /\ queue' = queue /\ (at[t] \in Lining <=> b \in Lining)
           /\ b \in Holder => at[t] \in Holder \/ Head(queue) = t
        \/ Vacate(t) /\ at[t] \in Lining /\ b \notin Lining
        \/ queue' = Append(queue, t) /\ at[t] \notin Lining /\ b = "wait"
    BY <1>5, <2>1 DEF Lease, Lining, Holder, Outcome
  <2> QED BY <2>1, <2>2, <2>3, <2>4, <2>5, MoveStep
<1>6. CASE Before(t)
  <2>1. PICK b \in {"cancelled", "blocked", "copying"}, c \in {copy[t]} :
          /\ at' = [at EXCEPT ![t] = b] /\ copy' = [copy EXCEPT ![t] = c]
          /\ IF b = "copying" THEN queue' = queue /\ files = baseline[t] ELSE Vacate(t)
    BY <1>6, <1>0, <1>k DEF Before, UnchangedSince
  <2>2. /\ b \in Position /\ at[t] # "idle" /\ b # "idle"
        /\ at[t] \in Started => b \in Started
        /\ b \in CopyingBack => at[t] \in CopyingBack \/ b = "copying"
        /\ b \in Keeping => at[t] \in Keeping \/ b = "copying"
        /\ b = "copying" => at[t] = "before" /\ files = baseline[t]
        /\ b \in Kept => at[t] \in Kept \cup {"seal"}
        /\ at[t] \in Trying /\ b \notin Trying => DOMAIN backup[t] = {}
    BY <1>6, <2>1 DEF Before, Position, Outcome, Holder, Lining, Started, CopyingBack, Keeping, Kept, Trying
  <2>3. /\ c \in Snapshot \cup {None}
        /\ b \notin {"unchanged", "merged", "threw"} => c \in Snapshot
        /\ b \in {"candidate"} \cup Lining => \A p \in Path : c[p] \in {t, baseline[t][p]}
    BY <1>6, <2>1, <1>0, <1>k DEF Before, Lining, Holder
  <2>4. /\ UNCHANGED <<files, backup, baseline, torn, signalled>>
        /\ dirEvents' \in 0 .. MaxDirEvents /\ dirEvents <= dirEvents'
        /\ seen' \in [DirAttempt -> Snapshot \cup {None}] /\ faulty' \subseteq DirAttempt /\ verified' \subseteq DirAttempt
    BY <1>6, <1>0 DEF Before
  <2>5. \/ /\ queue' = queue /\ (at[t] \in Lining <=> b \in Lining)
           /\ b \in Holder => at[t] \in Holder \/ Head(queue) = t
        \/ Vacate(t) /\ at[t] \in Lining /\ b \notin Lining
        \/ queue' = Append(queue, t) /\ at[t] \notin Lining /\ b = "wait"
    BY <1>6, <2>1 DEF Before, Lining, Holder, Outcome
  <2> QED BY <2>1, <2>2, <2>3, <2>4, <2>5, MoveStep
<1>7. CASE CopyFile(t) /\ at' # at
  <2>1. PICK b \in {"undo", "after"}, c \in {copy[t]} :
          /\ at' = [at EXCEPT ![t] = b] /\ copy' = [copy EXCEPT ![t] = c]
          /\ queue' = queue /\ UNCHANGED <<files, backup>>
    BY <1>7, <1>0, <1>k DEF CopyFile
  <2>2. /\ b \in Position /\ at[t] # "idle" /\ b # "idle"
        /\ at[t] \in Started => b \in Started
        /\ b \in CopyingBack => at[t] \in CopyingBack \/ b = "copying"
        /\ b \in Keeping => at[t] \in Keeping \/ b = "copying"
        /\ b = "copying" => at[t] = "before" /\ files = baseline[t]
        /\ b \in Kept => at[t] \in Kept \cup {"seal"}
        /\ at[t] \in Trying /\ b \notin Trying => DOMAIN backup[t] = {}
    BY <1>7, <2>1 DEF CopyFile, Position, Outcome, Holder, Lining, Started, CopyingBack, Keeping, Kept, Trying
  <2>3. /\ c \in Snapshot \cup {None}
        /\ b \notin {"unchanged", "merged", "threw"} => c \in Snapshot
        /\ b \in {"candidate"} \cup Lining => \A p \in Path : c[p] \in {t, baseline[t][p]}
    BY <1>7, <2>1, <1>0, <1>k DEF CopyFile, Lining, Holder
  <2>4. /\ UNCHANGED <<files, backup, baseline, torn, signalled>>
        /\ dirEvents' \in 0 .. MaxDirEvents /\ dirEvents <= dirEvents'
        /\ seen' \in [DirAttempt -> Snapshot \cup {None}] /\ faulty' \subseteq DirAttempt /\ verified' \subseteq DirAttempt
    BY <1>7, <2>1, <1>0 DEF CopyFile
  <2>5. \/ /\ queue' = queue /\ (at[t] \in Lining <=> b \in Lining)
           /\ b \in Holder => at[t] \in Holder \/ Head(queue) = t
        \/ Vacate(t) /\ at[t] \in Lining /\ b \notin Lining
        \/ queue' = Append(queue, t) /\ at[t] \notin Lining /\ b = "wait"
    BY <1>7, <2>1 DEF CopyFile, Lining, Holder, Outcome
  <2> QED BY <2>1, <2>2, <2>3, <2>4, <2>5, MoveStep
<1>8. CASE Undo(t) /\ at' # at
  <2>1. PICK b \in {"blocked"}, c \in {copy[t]} :
          /\ at' = [at EXCEPT ![t] = b] /\ copy' = [copy EXCEPT ![t] = c]
          /\ Vacate(t) /\ DOMAIN backup[t] = {} /\ UNCHANGED <<files, backup, torn, dirEvents>>
    BY <1>8, <1>0, <1>k DEF Undo
  <2>2. /\ b \in Position /\ at[t] # "idle" /\ b # "idle"
        /\ at[t] \in Started => b \in Started
        /\ b \in CopyingBack => at[t] \in CopyingBack \/ b = "copying"
        /\ b \in Keeping => at[t] \in Keeping \/ b = "copying"
        /\ b = "copying" => at[t] = "before" /\ files = baseline[t]
        /\ b \in Kept => at[t] \in Kept \cup {"seal"}
        /\ at[t] \in Trying /\ b \notin Trying => DOMAIN backup[t] = {}
    BY <1>8, <2>1 DEF Undo, Position, Outcome, Holder, Lining, Started, CopyingBack, Keeping, Kept, Trying
  <2>3. /\ c \in Snapshot \cup {None}
        /\ b \notin {"unchanged", "merged", "threw"} => c \in Snapshot
        /\ b \in {"candidate"} \cup Lining => \A p \in Path : c[p] \in {t, baseline[t][p]}
    BY <1>8, <2>1, <1>0, <1>k DEF Undo, Lining, Holder
  <2>4. /\ UNCHANGED <<files, backup, baseline, torn, signalled>>
        /\ dirEvents' \in 0 .. MaxDirEvents /\ dirEvents <= dirEvents'
        /\ seen' \in [DirAttempt -> Snapshot \cup {None}] /\ faulty' \subseteq DirAttempt /\ verified' \subseteq DirAttempt
    BY <1>8, <2>1, <1>0 DEF Undo
  <2>5. \/ /\ queue' = queue /\ (at[t] \in Lining <=> b \in Lining)
           /\ b \in Holder => at[t] \in Holder \/ Head(queue) = t
        \/ Vacate(t) /\ at[t] \in Lining /\ b \notin Lining
        \/ queue' = Append(queue, t) /\ at[t] \notin Lining /\ b = "wait"
    BY <1>8, <2>1 DEF Undo, Lining, Holder, Outcome
  <2> QED BY <2>1, <2>2, <2>3, <2>4, <2>5, MoveStep
<1>9. CASE AfterCopy(t)
  <2>1. PICK b \in {"rollback", "verify"}, c \in {copy[t]} :
          /\ at' = [at EXCEPT ![t] = b] /\ copy' = [copy EXCEPT ![t] = c]
          /\ IF b = "verify" THEN queue' = queue ELSE Vacate(t)
    BY <1>9, <1>0, <1>k DEF AfterCopy
  <2>2. /\ b \in Position /\ at[t] # "idle" /\ b # "idle"
        /\ at[t] \in Started => b \in Started
        /\ b \in CopyingBack => at[t] \in CopyingBack \/ b = "copying"
        /\ b \in Keeping => at[t] \in Keeping \/ b = "copying"
        /\ b = "copying" => at[t] = "before" /\ files = baseline[t]
        /\ b \in Kept => at[t] \in Kept \cup {"seal"}
        /\ at[t] \in Trying /\ b \notin Trying => DOMAIN backup[t] = {}
    BY <1>9, <2>1 DEF AfterCopy, Position, Outcome, Holder, Lining, Started, CopyingBack, Keeping, Kept, Trying
  <2>3. /\ c \in Snapshot \cup {None}
        /\ b \notin {"unchanged", "merged", "threw"} => c \in Snapshot
        /\ b \in {"candidate"} \cup Lining => \A p \in Path : c[p] \in {t, baseline[t][p]}
    BY <1>9, <2>1, <1>0, <1>k DEF AfterCopy, Lining, Holder
  <2>4. /\ UNCHANGED <<files, backup, baseline, torn, signalled>>
        /\ dirEvents' \in 0 .. MaxDirEvents /\ dirEvents <= dirEvents'
        /\ seen' \in [DirAttempt -> Snapshot \cup {None}] /\ faulty' \subseteq DirAttempt /\ verified' \subseteq DirAttempt
    BY <1>9, <1>0 DEF AfterCopy
  <2>5. \/ /\ queue' = queue /\ (at[t] \in Lining <=> b \in Lining)
           /\ b \in Holder => at[t] \in Holder \/ Head(queue) = t
        \/ Vacate(t) /\ at[t] \in Lining /\ b \notin Lining
        \/ queue' = Append(queue, t) /\ at[t] \notin Lining /\ b = "wait"
    BY <1>9, <2>1 DEF AfterCopy, Lining, Holder, Outcome
  <2> QED BY <2>1, <2>2, <2>3, <2>4, <2>5, MoveStep
<1>10. CASE Verifiers(t)
  <2>1. PICK b \in {"seal"}, c \in {copy[t]} :
          /\ at' = [at EXCEPT ![t] = b] /\ copy' = [copy EXCEPT ![t] = c]
          /\ queue' = queue
    BY <1>10, <1>0, <1>k DEF Verifiers
  <2>2. /\ b \in Position /\ at[t] # "idle" /\ b # "idle"
        /\ at[t] \in Started => b \in Started
        /\ b \in CopyingBack => at[t] \in CopyingBack \/ b = "copying"
        /\ b \in Keeping => at[t] \in Keeping \/ b = "copying"
        /\ b = "copying" => at[t] = "before" /\ files = baseline[t]
        /\ b \in Kept => at[t] \in Kept \cup {"seal"}
        /\ at[t] \in Trying /\ b \notin Trying => DOMAIN backup[t] = {}
    BY <1>10, <2>1 DEF Verifiers, Position, Outcome, Holder, Lining, Started, CopyingBack, Keeping, Kept, Trying
  <2>3. /\ c \in Snapshot \cup {None}
        /\ b \notin {"unchanged", "merged", "threw"} => c \in Snapshot
        /\ b \in {"candidate"} \cup Lining => \A p \in Path : c[p] \in {t, baseline[t][p]}
    BY <1>10, <2>1, <1>0, <1>k DEF Verifiers, Lining, Holder
  <2>4. /\ UNCHANGED <<files, backup, baseline, torn, signalled>>
        /\ dirEvents' \in 0 .. MaxDirEvents /\ dirEvents <= dirEvents'
        /\ seen' \in [DirAttempt -> Snapshot \cup {None}] /\ faulty' \subseteq DirAttempt /\ verified' \subseteq DirAttempt
    BY <1>10, <1>0 DEF Verifiers
  <2>5. \/ /\ queue' = queue /\ (at[t] \in Lining <=> b \in Lining)
           /\ b \in Holder => at[t] \in Holder \/ Head(queue) = t
        \/ Vacate(t) /\ at[t] \in Lining /\ b \notin Lining
        \/ queue' = Append(queue, t) /\ at[t] \notin Lining /\ b = "wait"
    BY <1>10, <2>1 DEF Verifiers, Lining, Holder, Outcome
  <2> QED BY <2>1, <2>2, <2>3, <2>4, <2>5, MoveStep
<1>11. CASE Answer(t)
  <2>1. PICK b \in {"applied", "rollback"}, c \in {copy[t]} :
          /\ at' = [at EXCEPT ![t] = b] /\ copy' = [copy EXCEPT ![t] = c]
          /\ Vacate(t)
    BY <1>11, <1>0, <1>k DEF Answer
  <2>2. /\ b \in Position /\ at[t] # "idle" /\ b # "idle"
        /\ at[t] \in Started => b \in Started
        /\ b \in CopyingBack => at[t] \in CopyingBack \/ b = "copying"
        /\ b \in Keeping => at[t] \in Keeping \/ b = "copying"
        /\ b = "copying" => at[t] = "before" /\ files = baseline[t]
        /\ b \in Kept => at[t] \in Kept \cup {"seal"}
        /\ at[t] \in Trying /\ b \notin Trying => DOMAIN backup[t] = {}
    BY <1>11, <2>1 DEF Answer, Position, Outcome, Holder, Lining, Started, CopyingBack, Keeping, Kept, Trying
  <2>3. /\ c \in Snapshot \cup {None}
        /\ b \notin {"unchanged", "merged", "threw"} => c \in Snapshot
        /\ b \in {"candidate"} \cup Lining => \A p \in Path : c[p] \in {t, baseline[t][p]}
    BY <1>11, <2>1, <1>0, <1>k DEF Answer, Lining, Holder
  <2>4. /\ UNCHANGED <<files, backup, baseline, torn, signalled>>
        /\ dirEvents' \in 0 .. MaxDirEvents /\ dirEvents <= dirEvents'
        /\ seen' \in [DirAttempt -> Snapshot \cup {None}] /\ faulty' \subseteq DirAttempt /\ verified' \subseteq DirAttempt
    BY <1>11, <1>0 DEF Answer
  <2>5. \/ /\ queue' = queue /\ (at[t] \in Lining <=> b \in Lining)
           /\ b \in Holder => at[t] \in Holder \/ Head(queue) = t
        \/ Vacate(t) /\ at[t] \in Lining /\ b \notin Lining
        \/ queue' = Append(queue, t) /\ at[t] \notin Lining /\ b = "wait"
    BY <1>11, <2>1 DEF Answer, Lining, Holder, Outcome
  <2> QED BY <2>1, <2>2, <2>3, <2>4, <2>5, MoveStep
<1>12. CASE Rollback(t) /\ at' # at
  <2>1. PICK b \in {"blocked"}, c \in {copy[t]} :
          /\ at' = [at EXCEPT ![t] = b] /\ copy' = [copy EXCEPT ![t] = c]
          /\ queue' = queue /\ DOMAIN backup[t] = {} /\ UNCHANGED <<files, backup, torn, dirEvents>>
    BY <1>12, <1>0, <1>k DEF Rollback
  <2>2. /\ b \in Position /\ at[t] # "idle" /\ b # "idle"
        /\ at[t] \in Started => b \in Started
        /\ b \in CopyingBack => at[t] \in CopyingBack \/ b = "copying"
        /\ b \in Keeping => at[t] \in Keeping \/ b = "copying"
        /\ b = "copying" => at[t] = "before" /\ files = baseline[t]
        /\ b \in Kept => at[t] \in Kept \cup {"seal"}
        /\ at[t] \in Trying /\ b \notin Trying => DOMAIN backup[t] = {}
    BY <1>12, <2>1 DEF Rollback, Position, Outcome, Holder, Lining, Started, CopyingBack, Keeping, Kept, Trying
  <2>3. /\ c \in Snapshot \cup {None}
        /\ b \notin {"unchanged", "merged", "threw"} => c \in Snapshot
        /\ b \in {"candidate"} \cup Lining => \A p \in Path : c[p] \in {t, baseline[t][p]}
    BY <1>12, <2>1, <1>0, <1>k DEF Rollback, Lining, Holder
  <2>4. /\ UNCHANGED <<files, backup, baseline, torn, signalled>>
        /\ dirEvents' \in 0 .. MaxDirEvents /\ dirEvents <= dirEvents'
        /\ seen' \in [DirAttempt -> Snapshot \cup {None}] /\ faulty' \subseteq DirAttempt /\ verified' \subseteq DirAttempt
    BY <1>12, <2>1, <1>0 DEF Rollback
  <2>5. \/ /\ queue' = queue /\ (at[t] \in Lining <=> b \in Lining)
           /\ b \in Holder => at[t] \in Holder \/ Head(queue) = t
        \/ Vacate(t) /\ at[t] \in Lining /\ b \notin Lining
        \/ queue' = Append(queue, t) /\ at[t] \notin Lining /\ b = "wait"
    BY <1>12, <2>1 DEF Rollback, Lining, Holder, Outcome
  <2> QED BY <2>1, <2>2, <2>3, <2>4, <2>5, MoveStep
<1>13. CASE RemoveCopy(t)
  <2>1. PICK b \in {"merged"}, c \in {None} :
          /\ at' = [at EXCEPT ![t] = b] /\ copy' = [copy EXCEPT ![t] = c]
          /\ queue' = queue
    BY <1>13, <1>0, <1>k DEF RemoveCopy
  <2>2. /\ b \in Position /\ at[t] # "idle" /\ b # "idle"
        /\ at[t] \in Started => b \in Started
        /\ b \in CopyingBack => at[t] \in CopyingBack \/ b = "copying"
        /\ b \in Keeping => at[t] \in Keeping \/ b = "copying"
        /\ b = "copying" => at[t] = "before" /\ files = baseline[t]
        /\ b \in Kept => at[t] \in Kept \cup {"seal"}
        /\ at[t] \in Trying /\ b \notin Trying => DOMAIN backup[t] = {}
    BY <1>13, <2>1 DEF RemoveCopy, Position, Outcome, Holder, Lining, Started, CopyingBack, Keeping, Kept, Trying
  <2>3. /\ c \in Snapshot \cup {None}
        /\ b \notin {"unchanged", "merged", "threw"} => c \in Snapshot
        /\ b \in {"candidate"} \cup Lining => \A p \in Path : c[p] \in {t, baseline[t][p]}
    BY <1>13, <2>1, <1>0, <1>k DEF RemoveCopy, Lining, Holder
  <2>4. /\ UNCHANGED <<files, backup, baseline, torn, signalled>>
        /\ dirEvents' \in 0 .. MaxDirEvents /\ dirEvents <= dirEvents'
        /\ seen' \in [DirAttempt -> Snapshot \cup {None}] /\ faulty' \subseteq DirAttempt /\ verified' \subseteq DirAttempt
    BY <1>13, <1>0 DEF RemoveCopy
  <2>5. \/ /\ queue' = queue /\ (at[t] \in Lining <=> b \in Lining)
           /\ b \in Holder => at[t] \in Holder \/ Head(queue) = t
        \/ Vacate(t) /\ at[t] \in Lining /\ b \notin Lining
        \/ queue' = Append(queue, t) /\ at[t] \notin Lining /\ b = "wait"
    BY <1>13, <2>1 DEF RemoveCopy, Lining, Holder, Outcome
  <2> QED BY <2>1, <2>2, <2>3, <2>4, <2>5, MoveStep
<1> QED BY <1>1, <1>2, <1>3, <1>4, <1>5, <1>6, <1>7, <1>8, <1>9, <1>10, <1>11, <1>12, <1>13

\* The directory and the first capture: the workspace gets one more observer.
LEMMA CaptureStep ==
  ASSUME DirInv, NEW t \in DirAttempt, Capture(t)
  PROVE  DirInv'
<1> USE DEF Goto, SetCopy, guardVars
<1>0. /\ DirTypeOK /\ InLine /\ Shaped /\ at \in [DirAttempt -> Position] /\ files \in Snapshot
      /\ baseline \in [DirAttempt -> Snapshot \cup {None}] /\ copy \in [DirAttempt -> Snapshot \cup {None}]
      /\ Numbered /\ Traced /\ Restorable /\ BackupsOld /\ Alone /\ OnePlace /\ Replaced /\ Later
  BY DEF DirInv, DirTypeOK, ContentInv
<1>1. /\ at[t] = "idle" /\ baseline[t] = None
      /\ at'[t] = "captured" /\ baseline'[t] = files /\ copy'[t] = files
      /\ \A u \in DirAttempt : u # t => at'[u] = at[u] /\ baseline'[u] = baseline[u] /\ copy'[u] = copy[u]
      /\ UNCHANGED <<files, faulty, backup, seen, verified, torn, queue, signalled, dirEvents>>
  BY <1>0 DEF Capture, Shaped
<1>2. files # None
  BY <1>0, NoneIsNoSnapshot
<1>3. DirTypeOK'
  BY <1>0, <1>1 DEF DirTypeOK, Capture, Position
<1>4. InLine'
  BY <1>0, <1>1 DEF InLine, Lining, Holder
<1>5. Shaped'
  BY <1>0, <1>1 DEF Shaped, Started, Lining, Holder
<1>6. \A x \in DirAttempt : \A p : Backed(x, p)' = Backed(x, p)
  BY <1>1 DEF Backed
<1>7. \A u \in DirAttempt : Unobserved(u)' => Unobserved(u)
  BY <1>1 DEF Unobserved
<1>8. \A u \in DirAttempt, p \in Path : Found(u, p)' => Found(u, p)
  BY <1>1, <1>6 DEF Found
<1>9. \A u \in DirAttempt : /\ at'[u] \in Started <=> at[u] \in Started
                            /\ at'[u] = "copying" <=> at[u] = "copying"
                            /\ at'[u] \in Trying <=> at[u] \in Trying
                            /\ at'[u] \in CopyingBack <=> at[u] \in CopyingBack
                            /\ at'[u] \in Keeping <=> at[u] \in Keeping
                            /\ at'[u] \in Kept <=> at[u] \in Kept
                            /\ at[u] \in Keeping \cup Kept => u # t
  BY <1>1 DEF Started, Trying, CopyingBack, Keeping, Kept
<1>10. Numbered'
  BY <1>0, <1>1, <1>6 DEF Numbered, Known
<1>11. Traced'
  BY <1>0, <1>6, <1>8, <1>9 DEF Traced
<1>12. Restorable'
  BY <1>0, <1>1, <1>6, <1>7, <1>9 DEF Restorable
<1>13. BackupsOld' /\ Alone' /\ OnePlace'
  BY <1>0, <1>1, <1>6, <1>7, <1>9 DEF BackupsOld, Alone, OnePlace
<1>14. Replaced' /\ Later'
  BY <1>0, <1>1, <1>6, <1>9 DEF Replaced, Later
<1> QED BY <1>3, <1>4, <1>5, <1>10, <1>11, <1>12, <1>13, <1>14 DEF DirInv, ContentInv

\* What a step that writes a file, or forgets backups, leaves to be shown: positions,
\* snapshots, copies and the queue are as they were.
LEMMA FileStep ==
  ASSUME DirInv, ContentInv', UNCHANGED <<at, baseline, copy, queue, seen, faulty, verified>>,
         files' \in Snapshot, backup' \in [DirAttempt -> UNION {[P -> Content] : P \in SUBSET Path}],
         torn' \subseteq DirAttempt, signalled' \subseteq DirAttempt, dirEvents' \in 0 .. MaxDirEvents,
         \A u \in DirAttempt : at[u] \notin Started => DOMAIN backup'[u] = {}
  PROVE  DirInv'
<1>0. DirTypeOK /\ InLine /\ Shaped
  BY DEF DirInv
<1>1. DirTypeOK'
  BY <1>0 DEF DirTypeOK
<1>2. InLine'
  BY <1>0 DEF InLine
<1>3. Shaped'
  BY <1>0 DEF Shaped
<1> QED BY <1>1, <1>2, <1>3 DEF DirInv

\* A backup is a function on paths.
LEMMA BackupType ==
  ASSUME DirTypeOK, NEW t \in DirAttempt
  PROVE  /\ backup[t] \in [DOMAIN backup[t] -> Content] /\ DOMAIN backup[t] \subseteq Path
         /\ \A D \in SUBSET Path : \A f \in [D -> Content] :
              [backup EXCEPT ![t] = f] \in [DirAttempt -> UNION {[P -> Content] : P \in SUBSET Path}]
<1>1. backup \in [DirAttempt -> UNION {[P -> Content] : P \in SUBSET Path}]
  BY DEF DirTypeOK
<1>2. PICK P \in SUBSET Path : backup[t] \in [P -> Content]
  BY <1>1
<1>3. DOMAIN backup[t] = P
  BY <1>2
<1>4. ASSUME NEW D \in SUBSET Path, NEW f \in [D -> Content]
      PROVE  [backup EXCEPT ![t] = f] \in [DirAttempt -> UNION {[Q -> Content] : Q \in SUBSET Path}]
  <2>1. f \in UNION {[Q -> Content] : Q \in SUBSET Path}
    OBVIOUS
  <2> QED BY <1>1, <2>1
<1> QED BY <1>2, <1>3, <1>4

\* One file is copied back, its backup made first.
LEMMA CopyOne ==
  ASSUME DirInv, NEW t \in DirAttempt, CopyFile(t), at' = at
  PROVE  DirInv'
<1> USE DEF snapVars
<1>0. /\ DirTypeOK /\ InLine /\ Shaped /\ at \in [DirAttempt -> Position] /\ files \in [Path -> Content]
      /\ Numbered /\ Traced /\ Restorable /\ BackupsOld /\ Alone /\ OnePlace /\ Replaced /\ Later
      /\ backup \in [DirAttempt -> UNION {[P -> Content] : P \in SUBSET Path}]
  BY DEF DirInv, DirTypeOK, ContentInv, Snapshot
<1>1. at[t] = "copying" /\ ~(\E b \in {"undo", "after"} : at' = [at EXCEPT ![t] = b])
  BY <1>0 DEF CopyFile
<1>2. PICK p \in Todo(t) :
        /\ backup' = [backup EXCEPT ![t] = [q \in DOMAIN backup[t] \cup {p} |-> IF q = p THEN files[p] ELSE backup[t][q]]]
        /\ files' = [files EXCEPT ![p] = copy[t][p]]
        /\ UNCHANGED <<baseline, copy, faulty, seen, verified, torn, queue, signalled, dirEvents>>
  BY <1>1 DEF CopyFile, Goto
<1>3. p \in Path /\ ~Backed(t, p) /\ copy[t][p] # baseline[t][p]
  BY <1>2 DEF Todo, Changed, Backed
<1>4. copy[t][p] = t /\ baseline[t][p] # t /\ baseline[t] \in Snapshot
  BY <1>0, <1>1, <1>3 DEF Shaped, Lining, Holder
<1>5. /\ files'[p] = t /\ \A q \in Path : q # p => files'[q] = files[q]
      /\ files' \in Snapshot
  BY <1>0, <1>2, <1>3, <1>4 DEF Snapshot, Content
<1>6. /\ \A u \in DirAttempt : u # t => backup'[u] = backup[u]
      /\ DOMAIN backup'[t] = DOMAIN backup[t] \cup {p} /\ backup'[t][p] = files[p]
      /\ \A q \in DOMAIN backup[t] : q # p => backup'[t][q] = backup[t][q]
  BY <1>0, <1>2
<1>7. backup' \in [DirAttempt -> UNION {[P -> Content] : P \in SUBSET Path}]
  <2>1. backup[t] \in [DOMAIN backup[t] -> Content] /\ DOMAIN backup[t] \subseteq Path
    BY <1>0, BackupType
  <2>2. [q \in DOMAIN backup[t] \cup {p} |-> IF q = p THEN files[p] ELSE backup[t][q]]
          \in [DOMAIN backup[t] \cup {p} -> Content]
    BY <2>1, <1>0, <1>3
  <2>3. DOMAIN backup[t] \cup {p} \in SUBSET Path
    BY <2>1, <1>3
  <2> QED BY <1>0, <1>2, <2>2, <2>3, BackupType
<1>8. \A q \in Path : ~Backed(t, q) => ~Found(t, q)
  BY <1>0, <1>1 DEF Traced
<1>9. /\ \A u \in DirAttempt : u # t => \A q : Backed(u, q)' = Backed(u, q)
      /\ \A q : Backed(t, q)' = (Backed(t, q) \/ q = p)
  BY <1>6 DEF Backed
<1>10. \A u \in DirAttempt : Unobserved(u)' = Unobserved(u)
  BY <1>2 DEF Unobserved
<1>11. \A u \in DirAttempt : u # t => at[u] \notin Holder
  BY <1>0, <1>1, OneHolder DEF Holder
<1>12. Numbered'
  BY <1>0, <1>2, <1>3, <1>5, <1>6, <1>9 DEF Numbered, Known, Backed
<1>13. Traced'
  <2>1. SUFFICES ASSUME NEW u \in DirAttempt, NEW q \in Path, Found(u, q)'
                 PROVE  at[u] \in Started /\ (at[u] = "copying" => Backed(u, q)')
    BY DEF Traced
  <2>2. Found(u, q) \/ (u = t /\ q = p)
    <3>1. CASE files'[q] = u
      BY <3>1, <1>5 DEF Found
    <3>2. CASE \E x \in DirAttempt : baseline'[x] # None /\ baseline'[x][q] = u
      BY <3>2, <1>2 DEF Found
    <3>3. CASE \E x \in DirAttempt : Backed(x, q)' /\ backup'[x][q] = u
      <4>1. PICK x \in DirAttempt : Backed(x, q)' /\ backup'[x][q] = u
        BY <3>3
      <4>2. CASE x = t /\ q = p
        BY <4>1, <4>2, <1>6 DEF Found
      <4>3. CASE x # t \/ q # p
        BY <4>1, <4>3, <1>6, <1>9 DEF Found, Backed
      <4> QED BY <4>2, <4>3
    <3> QED BY <2>1, <3>1, <3>2, <3>3 DEF Found
  <2>3. CASE Found(u, q)
    BY <2>3, <1>0, <1>9 DEF Traced
  <2>4. CASE u = t /\ q = p
    BY <2>4, <1>1, <1>9 DEF Started
  <2> QED BY <2>2, <2>3, <2>4
<1>14. Restorable'
  <2>1. SUFFICES ASSUME NEW u \in DirAttempt, NEW q \in Path, Unobserved(u), u \notin torn, files'[q] = u
                 PROVE  Backed(u, q)' /\ at[u] \in Trying
    BY <1>2, <1>10 DEF Restorable
  <2>2. CASE q = p
    BY <2>1, <2>2, <1>1, <1>5, <1>9 DEF Trying, CopyingBack
  <2>3. CASE q # p
    BY <2>1, <2>3, <1>0, <1>5, <1>9 DEF Restorable
  <2> QED BY <2>2, <2>3
<1>15. BackupsOld'
  <2>1. SUFFICES ASSUME NEW u \in DirAttempt, NEW x \in DirAttempt, NEW q \in Path, Unobserved(u), Backed(x, q)'
                 PROVE  backup'[x][q] # u
    BY <1>10 DEF BackupsOld
  <2>2. CASE x # t \/ q # p
    BY <2>1, <2>2, <1>0, <1>6, <1>9 DEF BackupsOld, Backed
  <2>3. CASE x = t /\ q = p
    <3>1. u # t => files[p] # u
      BY <2>1, <1>0, <1>1, <1>3 DEF Alone, CopyingBack
    <3>2. files[p] # t
      BY <1>3, <1>8 DEF Found
    <3> QED BY <2>3, <3>1, <3>2, <1>6
  <2> QED BY <2>2, <2>3
<1>16. Alone'
  BY <1>0, <1>1, <1>3, <1>5, <1>10, <1>11 DEF Alone, CopyingBack, Holder
<1>17. OnePlace'
  <2>1. files[p] # t /\ \A x \in DirAttempt : Backed(x, p) => backup[x][p] # t /\ backup[x][p] # files[p]
    BY <1>0, <1>3, <1>8 DEF Found, OnePlace
  <2>2. SUFFICES ASSUME NEW x \in DirAttempt, NEW q \in Path, Backed(x, q)'
                 PROVE  /\ backup'[x][q] # files'[q]
                        /\ \A y \in DirAttempt : y # x /\ Backed(y, q)' => backup'[y][q] # backup'[x][q]
    BY DEF OnePlace
  <2>3. CASE q = p
    BY <2>1, <2>2, <2>3, <1>0, <1>5, <1>6, <1>9 DEF OnePlace
  <2>4. CASE q # p
    <3>1. \A y \in DirAttempt : Backed(y, q)' = Backed(y, q) /\ (Backed(y, q) => backup'[y][q] = backup[y][q])
      BY <2>4, <1>6, <1>9 DEF Backed
    <3> QED BY <2>2, <2>4, <3>1, <1>0, <1>5 DEF OnePlace
  <2> QED BY <2>3, <2>4
<1>18. Replaced'
  <2>1. SUFFICES ASSUME NEW u \in DirAttempt, NEW q \in Path
                 PROVE  /\ at[u] \in Keeping \cup Kept /\ Backed(u, q)' => files'[q] # baseline[u][q]
                        /\ at[u] \in Keeping \/ (at[u] \in Kept /\ Backed(u, q)') =>
                             \A x \in DirAttempt : x # u /\ Backed(x, q)' => backup'[x][q] # baseline[u][q]
    BY <1>2 DEF Replaced
  <2>2. CASE q # p
    <3>1. \A y \in DirAttempt : Backed(y, q)' = Backed(y, q) /\ (Backed(y, q) => backup'[y][q] = backup[y][q])
      BY <2>2, <1>6, <1>9 DEF Backed
    <3> QED BY <2>2, <3>1, <1>0, <1>5 DEF Replaced
  <2>3. CASE q = p /\ u = t
    BY <2>3, <1>0, <1>1, <1>4, <1>5, <1>6, <1>9 DEF Replaced, Keeping
  <2>4. CASE q = p /\ u # t
    <3>1. at[u] \notin Keeping
      BY <2>4, <1>11 DEF Keeping, Holder
    <3>2. at[u] \in Kept => baseline[u][p] # t
      BY <1>0, <1>1, <1>3 DEF Later
    <3> QED BY <2>4, <3>1, <3>2, <1>0, <1>5, <1>6, <1>9 DEF Replaced
  <2> QED BY <2>2, <2>3, <2>4
<1>19. Later'
  BY <1>0, <1>2 DEF Later
<1>20. ContentInv'
  BY <1>12, <1>13, <1>14, <1>15, <1>16, <1>17, <1>18, <1>19 DEF ContentInv
<1>21. \A u \in DirAttempt : at[u] \notin Started => DOMAIN backup'[u] = {}
  BY <1>0, <1>1, <1>6 DEF Shaped, Started
<1>22. torn' \subseteq DirAttempt /\ signalled' \subseteq DirAttempt /\ dirEvents' \in 0 .. MaxDirEvents
  BY <1>0, <1>2 DEF DirTypeOK
<1> QED BY <1>2, <1>5, <1>7, <1>20, <1>21, <1>22, FileStep

\* One file is restored, or a failure to do so ends the restoration.
LEMMA RestoreOne ==
  ASSUME DirInv, NEW t \in DirAttempt, RestoreFile(t), at[t] \in {"undo", "rollback"},
         UNCHANGED <<at, baseline, copy, faulty, seen, verified, queue, signalled>>
  PROVE  DirInv'
<1>0. /\ DirTypeOK /\ InLine /\ Shaped /\ at \in [DirAttempt -> Position] /\ files \in [Path -> Content]
      /\ Numbered /\ Traced /\ Restorable /\ BackupsOld /\ Alone /\ OnePlace /\ Replaced /\ Later
      /\ backup \in [DirAttempt -> UNION {[P -> Content] : P \in SUBSET Path}]
      /\ torn \subseteq DirAttempt /\ dirEvents \in 0 .. MaxDirEvents /\ dirEvents \in Nat
  BY DirAssumption DEF DirInv, DirTypeOK, ContentInv, Snapshot
<1>1. backup[t] \in [DOMAIN backup[t] -> Content] /\ DOMAIN backup[t] \subseteq Path
  BY <1>0, BackupType
<1>2. \A u \in DirAttempt : Unobserved(u)' = Unobserved(u)
  BY DEF Unobserved
<1>3. at[t] \notin Keeping \cup Kept /\ at[t] \in Started /\ at[t] # "copying"
  BY DEF Keeping, Kept, Started
<1>4. CASE \E p \in DOMAIN backup[t] :
             /\ files' = [files EXCEPT ![p] = backup[t][p]]
             /\ backup' = [backup EXCEPT ![t] = [q \in DOMAIN backup[t] \ {p} |-> backup[t][q]]]
             /\ UNCHANGED <<torn, dirEvents>>
  <2>1. PICK p \in DOMAIN backup[t] :
             /\ files' = [files EXCEPT ![p] = backup[t][p]]
             /\ backup' = [backup EXCEPT ![t] = [q \in DOMAIN backup[t] \ {p} |-> backup[t][q]]]
             /\ UNCHANGED <<torn, dirEvents>>
    BY <1>4
  <2>2. p \in Path /\ Backed(t, p) /\ backup[t][p] \in Content
    BY <2>1, <1>1 DEF Backed
  <2>3. /\ files'[p] = backup[t][p] /\ \A q \in Path : q # p => files'[q] = files[q]
        /\ files' \in Snapshot
    BY <1>0, <2>1, <2>2 DEF Snapshot
  <2>4. /\ \A u \in DirAttempt : u # t => backup'[u] = backup[u]
        /\ DOMAIN backup'[t] = DOMAIN backup[t] \ {p}
        /\ \A q \in DOMAIN backup[t] : q # p => backup'[t][q] = backup[t][q]
    BY <1>0, <2>1
  <2>5. backup' \in [DirAttempt -> UNION {[P -> Content] : P \in SUBSET Path}]
    <3>1. [q \in DOMAIN backup[t] \ {p} |-> backup[t][q]] \in [DOMAIN backup[t] \ {p} -> Content]
      BY <1>1
    <3>2. DOMAIN backup[t] \ {p} \in SUBSET Path
      BY <1>1
    <3> QED BY <1>0, <2>1, <3>1, <3>2, BackupType
  <2>6. \A u \in DirAttempt : \A q : /\ Backed(u, q)' <=> Backed(u, q) /\ ~(u = t /\ q = p)
                                     /\ Backed(u, q)' => backup'[u][q] = backup[u][q]
    BY <2>4 DEF Backed
  <2>7. Numbered'
    BY <1>0, <2>1, <2>2, <2>3, <2>6 DEF Numbered, Known
  <2>8. \A u \in DirAttempt, q \in Path : Found(u, q)' => Found(u, q)
    <3>1. SUFFICES ASSUME NEW u \in DirAttempt, NEW q \in Path, Found(u, q)' PROVE Found(u, q)
      OBVIOUS
    <3>2. \A x \in DirAttempt : Backed(x, q)' /\ backup'[x][q] = u => Backed(x, q) /\ backup[x][q] = u
      BY <2>6
    <3>3. files'[q] = u => files[q] = u \/ (Backed(t, q) /\ backup[t][q] = u)
      BY <2>2, <2>3
    <3> QED BY <3>1, <3>2, <3>3 DEF Found
  <2>9. Traced'
    BY <1>0, <1>3, <2>6, <2>8 DEF Traced
  <2>10. Restorable'
    <3>1. SUFFICES ASSUME NEW u \in DirAttempt, NEW q \in Path, Unobserved(u), u \notin torn, files'[q] = u
                   PROVE  Backed(u, q)' /\ at[u] \in Trying
      BY <1>2, <2>1 DEF Restorable
    <3>2. q # p /\ files[q] = u
      BY <3>1, <1>0, <2>2, <2>3 DEF BackupsOld
    <3> QED BY <3>1, <3>2, <1>0, <2>6 DEF Restorable
  <2>11. BackupsOld' /\ Alone'
    BY <1>0, <1>2, <2>2, <2>3, <2>6 DEF BackupsOld, Alone
  <2>12. OnePlace'
    BY <1>0, <2>2, <2>3, <2>6 DEF OnePlace
  <2>13. Replaced'
    BY <1>0, <1>3, <2>2, <2>3, <2>6 DEF Replaced
  <2>14. Later'
    BY <1>0 DEF Later
  <2>15. ContentInv'
    BY <2>7, <2>9, <2>10, <2>11, <2>12, <2>13, <2>14 DEF ContentInv
  <2>16. \A u \in DirAttempt : at[u] \notin Started => DOMAIN backup'[u] = {}
    BY <1>0, <1>3, <2>4 DEF Shaped
  <2>17. torn' \subseteq DirAttempt /\ signalled' \subseteq DirAttempt /\ dirEvents' \in 0 .. MaxDirEvents
    BY <1>0, <2>1 DEF DirTypeOK
  <2> QED BY <2>3, <2>5, <2>15, <2>16, <2>17, FileStep
<1>5. CASE /\ Occurs /\ backup' = [backup EXCEPT ![t] = None]
           /\ torn' = torn \cup {t} /\ UNCHANGED files
  <2>1. /\ DOMAIN None = {} /\ None \in [{} -> Content]
        /\ \A u \in DirAttempt : u # t => backup'[u] = backup[u]
        /\ backup'[t] = None
    BY <1>0, <1>5 DEF None
  <2>2. backup' \in [DirAttempt -> UNION {[P -> Content] : P \in SUBSET Path}]
    <3>1. {} \in SUBSET Path
      OBVIOUS
    <3> QED BY <3>1, <1>0, <1>5, <2>1, BackupType
  <2>3. \A u \in DirAttempt : \A q : /\ Backed(u, q)' <=> Backed(u, q) /\ u # t
                                     /\ Backed(u, q)' => backup'[u][q] = backup[u][q]
    BY <2>1 DEF Backed
  <2>4. dirEvents' \in 0 .. MaxDirEvents /\ Known \subseteq Known'
    BY <1>0, <1>5, DirAssumption DEF Occurs, Known
  <2>5. Numbered'
    BY <1>0, <1>5, <2>3, <2>4 DEF Numbered
  <2>6. \A u \in DirAttempt, q \in Path : Found(u, q)' => Found(u, q)
    <3>1. SUFFICES ASSUME NEW u \in DirAttempt, NEW q \in Path, Found(u, q)' PROVE Found(u, q)
      OBVIOUS
    <3>2. \A x \in DirAttempt : Backed(x, q)' /\ backup'[x][q] = u => Backed(x, q) /\ backup[x][q] = u
      BY <2>3
    <3> QED BY <3>1, <3>2, <1>5 DEF Found
  <2>7. Traced'
    BY <1>0, <1>3, <2>3, <2>6 DEF Traced
  <2>8. Restorable'
    <3>1. SUFFICES ASSUME NEW u \in DirAttempt, NEW q \in Path, Unobserved(u), u \notin torn', files[q] = u
                   PROVE  Backed(u, q)' /\ at[u] \in Trying
      BY <1>2, <1>5 DEF Restorable
    <3>2. u # t /\ u \notin torn
      BY <3>1, <1>5
    <3> QED BY <3>1, <3>2, <1>0, <2>3 DEF Restorable
  <2>9. BackupsOld' /\ Alone' /\ OnePlace'
    BY <1>0, <1>2, <1>5, <2>3 DEF BackupsOld, Alone, OnePlace
  <2>10. Replaced' /\ Later'
    BY <1>0, <1>3, <1>5, <2>3 DEF Replaced, Later
  <2>11. ContentInv'
    BY <2>5, <2>7, <2>8, <2>9, <2>10 DEF ContentInv
  <2>12. \A u \in DirAttempt : at[u] \notin Started => DOMAIN backup'[u] = {}
    BY <1>0, <1>3, <2>1 DEF Shaped
  <2>13. torn' \subseteq DirAttempt /\ signalled' \subseteq DirAttempt /\ files' \in Snapshot
    BY <1>0, <1>5 DEF DirTypeOK, Snapshot
  <2> QED BY <1>5, <2>2, <2>4, <2>11, <2>12, <2>13, FileStep
<1> QED BY <1>4, <1>5 DEF RestoreFile

\* The user edits a file: its content is a new one.
LEMMA EditStep ==
  ASSUME DirInv, EditFile
  PROVE  DirInv'
<1> USE DEF snapVars, guardVars
<1>0. /\ DirTypeOK /\ InLine /\ Shaped /\ at \in [DirAttempt -> Position] /\ files \in [Path -> Content]
      /\ Numbered /\ Traced /\ Restorable /\ BackupsOld /\ Alone /\ OnePlace /\ Replaced /\ Later
      /\ dirEvents \in Nat
  BY DirAssumption DEF DirInv, DirTypeOK, ContentInv, Snapshot
<1>1. PICK p \in Path, n \in Nat :
        /\ n = dirEvents' /\ dirEvents < n /\ n \in 0 .. MaxDirEvents /\ n \notin DirAttempt
        /\ files' = [files EXCEPT ![p] = n]
        /\ UNCHANGED <<at, baseline, copy, faulty, backup, seen, verified, torn, queue, signalled>>
  <2>1. dirEvents' \in Nat /\ dirEvents < dirEvents' /\ dirEvents' \in 0 .. MaxDirEvents
    BY <1>0, DirAssumption DEF EditFile, Occurs
  <2>2. dirEvents' \notin DirAttempt
    BY <2>1, DirAssumption
  <2>3. PICK q \in Path : files' = [files EXCEPT ![q] = dirEvents']
    BY DEF EditFile
  <2>4. UNCHANGED <<at, baseline, copy, faulty, backup, seen, verified, torn, queue, signalled>>
    BY DEF EditFile
  <2> QED BY <2>1, <2>2, <2>3, <2>4
<1>2. /\ files'[p] = n /\ \A q \in Path : q # p => files'[q] = files[q]
      /\ files' \in Snapshot
  BY <1>0, <1>1 DEF Snapshot, Content
<1>3. n \notin Known /\ n \in Known' /\ Known \subseteq Known'
  BY <1>0, <1>1 DEF Known
<1>4. \A u \in DirAttempt : Unobserved(u)' = Unobserved(u) /\ (\A q : Backed(u, q)' = Backed(u, q))
  BY <1>1 DEF Unobserved, Backed
<1>5. \A u \in DirAttempt, q \in Path : files'[q] = u => files[q] = u
  BY <1>1, <1>2
<1>6. \A u \in DirAttempt, q \in Path : Found(u, q)' => Found(u, q)
  BY <1>1, <1>4, <1>5 DEF Found
<1>7. /\ \A x \in DirAttempt, q \in Path : Backed(x, q) => backup[x][q] \in Known
      /\ \A x \in DirAttempt, q \in Path : at[x] # "idle" => baseline[x][q] \in Known
  BY <1>0, NoneIsNoSnapshot DEF Numbered, Shaped
<1>8. Numbered'
  BY <1>0, <1>1, <1>2, <1>3, <1>4 DEF Numbered
<1>9. Traced'
  BY <1>0, <1>1, <1>4, <1>6 DEF Traced
<1>10. Restorable' /\ BackupsOld' /\ Alone'
  BY <1>0, <1>1, <1>4, <1>5 DEF Restorable, BackupsOld, Alone
<1>11. OnePlace'
  BY <1>0, <1>1, <1>2, <1>3, <1>4, <1>7 DEF OnePlace
<1>12. \A x \in DirAttempt : at[x] \in Keeping \cup Kept => at[x] # "idle"
  BY DEF Keeping, Kept
<1>13. Replaced' /\ Later'
  BY <1>0, <1>1, <1>2, <1>3, <1>4, <1>7, <1>12 DEF Replaced, Later
<1>14. ContentInv'
  BY <1>8, <1>9, <1>10, <1>11, <1>13 DEF ContentInv
<1>15. /\ \A u \in DirAttempt : at[u] \notin Started => DOMAIN backup'[u] = {}
       /\ torn' \subseteq DirAttempt /\ signalled' \subseteq DirAttempt /\ dirEvents' \in 0 .. MaxDirEvents
       /\ backup' \in [DirAttempt -> UNION {[P -> Content] : P \in SUBSET Path}]
  BY <1>0, <1>1 DEF Shaped, DirTypeOK
<1> QED BY <1>1, <1>2, <1>14, <1>15, FileStep

\* An abort is noticed later.
LEMMA SignalStep ==
  ASSUME DirInv, NEW t \in DirAttempt, Signal(t)
  PROVE  DirInv'
<1> USE DEF snapVars, guardVars
<1>0. /\ DirTypeOK /\ Shaped /\ dirEvents \in Nat
      /\ Numbered /\ Traced /\ Restorable /\ BackupsOld /\ Alone /\ OnePlace /\ Replaced /\ Later
  BY DirAssumption DEF DirInv, DirTypeOK, ContentInv
<1>1. /\ dirEvents' \in 0 .. MaxDirEvents /\ Known \subseteq Known' /\ signalled' \subseteq DirAttempt
      /\ UNCHANGED <<files, at, baseline, copy, faulty, backup, seen, verified, torn, queue>>
  BY <1>0, DirAssumption DEF Signal, Occurs, Known, DirTypeOK
<1>2. Numbered'
  BY <1>0, <1>1 DEF Numbered, Backed
<1>3. Traced'
  BY <1>0, <1>1 DEF Traced, Found, Backed
<1>4. Restorable' /\ BackupsOld' /\ Alone' /\ OnePlace' /\ Replaced' /\ Later'
  BY <1>0, <1>1 DEF Restorable, BackupsOld, Alone, OnePlace, Replaced, Later, Backed, Unobserved
<1>5. ContentInv'
  BY <1>2, <1>3, <1>4 DEF ContentInv
<1>6. /\ \A u \in DirAttempt : at[u] \notin Started => DOMAIN backup'[u] = {}
      /\ torn' \subseteq DirAttempt /\ files' \in Snapshot
      /\ backup' \in [DirAttempt -> UNION {[P -> Content] : P \in SUBSET Path}]
  BY <1>0, <1>1 DEF Shaped, DirTypeOK
<1> QED BY <1>1, <1>5, <1>6, FileStep

\* A crash: what was being tried out stays, and is told.
LEMMA CrashStep ==
  ASSUME DirInv, DirCrash
  PROVE  DirInv'
<1> USE DEF snapVars
<1>0. /\ DirTypeOK /\ Shaped /\ dirEvents \in Nat /\ at \in [DirAttempt -> Position]
      /\ Numbered /\ Traced /\ Restorable /\ BackupsOld /\ Alone /\ OnePlace /\ Replaced /\ Later
  BY DirAssumption DEF DirInv, DirTypeOK, ContentInv
<1>1. /\ dirEvents' \in 0 .. MaxDirEvents /\ Known \subseteq Known'
      /\ UNCHANGED <<files, baseline, copy, faulty, backup, seen, verified, signalled>>
      /\ queue' = <<>> /\ torn \subseteq torn' /\ torn' \subseteq DirAttempt
  BY <1>0, DirAssumption DEF DirCrash, Occurs, Known, DirTypeOK
<1>2. /\ at' \in [DirAttempt -> Position]
      /\ \A u \in DirAttempt : at'[u] = at[u] \/ (at'[u] = "crashed" /\ at[u] \notin {"idle"} \cup Outcome)
      /\ \A u \in DirAttempt : at'[u] \in {"idle"} \cup Outcome
      /\ \A u \in DirAttempt : at'[u] = "crashed" /\ at[u] # "crashed" /\ u \notin torn' => DOMAIN backup[u] = {}
  BY <1>0 DEF DirCrash, Position, Outcome
<1>3. queue' \in Seq(DirAttempt) /\ IsInjective(queue') /\ ToSet(queue') = {}
  <2>1. <<>> \in Seq(DirAttempt) /\ DOMAIN <<>> = {}
    OBVIOUS
  <2> QED BY <2>1, <1>1 DEF IsInjective, ToSet
<1>4. DirTypeOK'
  BY <1>0, <1>1, <1>2, <1>3 DEF DirTypeOK
<1>5. InLine'
  BY <1>2, <1>3 DEF InLine, Lining, Holder, Outcome
<1>6. Shaped'
  BY <1>0, <1>1, <1>2 DEF Shaped, Started, Lining, Holder, Outcome
<1>7. \A u \in DirAttempt : Unobserved(u)' = Unobserved(u) /\ (\A q : Backed(u, q)' = Backed(u, q))
  BY <1>1 DEF Unobserved, Backed
<1>8. \A u \in DirAttempt, q \in Path : Found(u, q)' = Found(u, q)
  BY <1>1, <1>7 DEF Found
<1>9. Numbered'
  BY <1>0, <1>1, <1>7 DEF Numbered
<1>10. Traced'
  BY <1>0, <1>2, <1>7, <1>8 DEF Traced, Started, Outcome
<1>11. Restorable'
  <2>1. SUFFICES ASSUME NEW u \in DirAttempt, NEW q \in Path, Unobserved(u), u \notin torn', files[q] = u
                 PROVE  Backed(u, q) /\ at'[u] \in Trying
    BY <1>1, <1>7 DEF Restorable
  <2>2. Backed(u, q) /\ at[u] \in Trying
    BY <2>1, <1>0, <1>1 DEF Restorable
  <2>3. at'[u] = at[u]
    BY <2>1, <2>2, <1>2 DEF Backed, Trying, CopyingBack, Kept
  <2> QED BY <2>2, <2>3
<1>12. BackupsOld' /\ OnePlace'
  BY <1>0, <1>1, <1>7 DEF BackupsOld, OnePlace
<1>13. Alone' /\ Later'
  BY <1>2 DEF Alone, Later, CopyingBack, Outcome
<1>14. \A u \in DirAttempt : at'[u] \notin Keeping /\ (at'[u] \in Kept => at[u] \in Kept)
  BY <1>2 DEF Keeping, Kept, Outcome
<1>15. Replaced'
  BY <1>0, <1>1, <1>7, <1>14 DEF Replaced
<1> QED BY <1>4, <1>5, <1>6, <1>9, <1>10, <1>11, <1>12, <1>13, <1>15 DEF DirInv, ContentInv

LEMMA DirStepPreserves == DirInv /\ [DirNext]_dirVars => DirInv'
<1> SUFFICES ASSUME DirInv, [DirNext]_dirVars PROVE DirInv'
  OBVIOUS
<1>0. at \in [DirAttempt -> Position]
  BY DEF DirInv, DirTypeOK
<1>1. CASE UNCHANGED dirVars
  <2> USE <1>1 DEF dirVars
  <2>1. DirTypeOK' /\ InLine' /\ Shaped'
    BY DEF DirInv, DirTypeOK, InLine, Shaped
  <2>2. Numbered' /\ Traced'
    BY DEF DirInv, ContentInv, Numbered, Traced, Found, Backed, Known
  <2>3. Restorable' /\ BackupsOld' /\ Alone' /\ OnePlace' /\ Replaced' /\ Later'
    BY DEF DirInv, ContentInv, Restorable, BackupsOld, Alone, OnePlace, Replaced, Later, Backed, Unobserved
  <2> QED BY <2>1, <2>2, <2>3 DEF DirInv, ContentInv
<1>2. ASSUME NEW t \in DirAttempt, Capture(t) \/ Signal(t) PROVE DirInv'
  BY <1>2, CaptureStep, SignalStep
<1>3. ASSUME NEW t \in DirAttempt, Proceed(t) PROVE DirInv'
  <2>1. CASE CopyFile(t)
    BY <2>1, QuietSteps, CopyOne
  <2>2. CASE Undo(t)
    <3>1. CASE at' # at
      BY <2>2, <3>1, QuietSteps
    <3>2. CASE at' = at
      <4>1. /\ RestoreFile(t) /\ at[t] \in {"undo", "rollback"}
            /\ UNCHANGED <<at, baseline, copy, faulty, seen, verified, queue, signalled>>
        BY <1>0, <2>2, <3>2 DEF Undo, Exit, Goto, snapVars
      <4> QED BY <4>1, RestoreOne
    <3> QED BY <3>1, <3>2
  <2>3. CASE Rollback(t)
    <3>1. CASE at' # at
      BY <2>3, <3>1, QuietSteps
    <3>2. CASE at' = at
      <4>1. /\ RestoreFile(t) /\ at[t] \in {"undo", "rollback"}
            /\ UNCHANGED <<at, baseline, copy, faulty, seen, verified, queue, signalled>>
        BY <1>0, <2>3, <3>2 DEF Rollback, Goto, snapVars
      <4> QED BY <4>1, RestoreOne
    <3> QED BY <3>1, <3>2
  <2>4. CASE \/ Stable(t) \/ ChildReturns(t) \/ Candidate(t) \/ StopWaiting(t) \/ Lease(t) \/ Before(t)
             \/ AfterCopy(t) \/ Verifiers(t) \/ Answer(t) \/ RemoveCopy(t)
    BY <2>4, QuietSteps
  <2> QED BY <1>3, <2>1, <2>2, <2>3, <2>4 DEF Proceed
<1>4. CASE EditFile \/ DirCrash
  BY <1>4, EditStep, CrashStep
<1> QED BY <1>1, <1>2, <1>3, <1>4 DEF DirNext

(***************************************************************************)
(* Attempts made from one snapshot.  DirInv says where the contents are; the *)
(* following rests on it.                                                   *)
(***************************************************************************)

\* What a file held in the snapshot of an attempt that has a backup of it is neither in
\* the workspace nor in a backup of another: only that attempt can put it back.
Displaced == \A u \in DirAttempt, q \in Path : Backed(u, q) =>
  /\ files[q] # baseline[u][q]
  /\ \A x \in DirAttempt : x # u /\ Backed(x, q) => backup[x][q] # baseline[u][q]

\* An attempt that copies back is the only one of its snapshot with backups.
Sole == \A t, u \in DirAttempt :
  at[t] = "copying" /\ u # t /\ baseline[u] = baseline[t] => DOMAIN backup[u] = {}

ShareInv == Displaced /\ Sole /\ SiblingsApart

LEMMA ShareInitEstablishes == DirInit => ShareInv
<1> SUFFICES ASSUME DirInit PROVE ShareInv
  OBVIOUS
<1>1. \A t \in DirAttempt : DOMAIN backup[t] = {} /\ at[t] = "idle"
  BY DEF DirInit, None
<1> QED BY <1>1 DEF ShareInv, Displaced, Sole, SiblingsApart, Backed

\* The comparison of the guard, under the lease, admits an attempt to the copying only
\* when nobody of its snapshot has displaced a file.
LEMMA ShareQuiet ==
  ASSUME DirInv, ShareInv, UNCHANGED <<files, backup, baseline>>,
         \A x \in DirAttempt : at'[x] = "copying" => at[x] = "copying" \/ files = baseline[x]
  PROVE  ShareInv'
<1>1. \A u \in DirAttempt, q \in Path : Backed(u, q)' = Backed(u, q)
  BY DEF Backed
<1>2. Displaced' /\ SiblingsApart'
  BY <1>1 DEF ShareInv, Displaced, SiblingsApart
<1>3. Sole'
  <2>1. SUFFICES ASSUME NEW t \in DirAttempt, NEW u \in DirAttempt,
                        at'[t] = "copying", u # t, baseline[u] = baseline[t]
                 PROVE  DOMAIN backup[u] = {}
    BY DEF Sole
  <2>2. CASE at[t] = "copying"
    BY <2>1, <2>2 DEF ShareInv, Sole
  <2>3. CASE files = baseline[t]
    <3>1. DOMAIN backup[u] \subseteq Path
      BY BackupType DEF DirInv
    <3>2. \A q \in Path : ~Backed(u, q)
      BY <2>1, <2>3 DEF ShareInv, Displaced
    <3> QED BY <3>1, <3>2 DEF Backed
  <2> QED BY <2>1, <2>2, <2>3
<1> QED BY <1>2, <1>3 DEF ShareInv

LEMMA ShareCapture ==
  ASSUME DirInv, ShareInv, NEW t \in DirAttempt, Capture(t)
  PROVE  ShareInv'
<1> USE DEF guardVars
<1>1. /\ at' = [at EXCEPT ![t] = "captured"] /\ baseline' = [baseline EXCEPT ![t] = files]
      /\ UNCHANGED <<files, backup>>
  BY DEF Capture, Goto
<1>2. DOMAIN backup[t] = {}
  BY DEF DirInv, Shaped, Capture, Started
<1>3. /\ \A u \in DirAttempt : u # t => at'[u] = at[u] /\ baseline'[u] = baseline[u]
      /\ at'[t] = "captured" /\ \A u \in DirAttempt, q \in Path : Backed(u, q)' = Backed(u, q)
  BY <1>1 DEF DirInv, DirTypeOK, Backed
<1>4. Displaced'
  BY <1>1, <1>2, <1>3 DEF ShareInv, Displaced, Backed
<1>5. Sole'
  BY <1>1, <1>2, <1>3 DEF ShareInv, Sole
<1>6. SiblingsApart'
  BY <1>1, <1>2, <1>3 DEF ShareInv, SiblingsApart
<1> QED BY <1>4, <1>5, <1>6 DEF ShareInv

LEMMA ShareCopy ==
  ASSUME DirInv, ShareInv, NEW t \in DirAttempt, CopyFile(t), at' = at
  PROVE  ShareInv'
<1> USE DEF snapVars
<1>0. /\ DirTypeOK /\ InLine /\ Shaped /\ at \in [DirAttempt -> Position] /\ files \in [Path -> Content]
      /\ Traced /\ Replaced
      /\ backup \in [DirAttempt -> UNION {[P -> Content] : P \in SUBSET Path}]
  BY DEF DirInv, DirTypeOK, ContentInv, Snapshot
<1>1. at[t] = "copying" /\ ~(\E b \in {"undo", "after"} : at' = [at EXCEPT ![t] = b])
  BY <1>0 DEF CopyFile
<1>2. PICK p \in Todo(t) :
        /\ backup' = [backup EXCEPT ![t] = [q \in DOMAIN backup[t] \cup {p} |-> IF q = p THEN files[p] ELSE backup[t][q]]]
        /\ files' = [files EXCEPT ![p] = copy[t][p]] /\ UNCHANGED baseline
  BY <1>1 DEF CopyFile, Goto
<1>3. p \in Path /\ ~Backed(t, p) /\ copy[t][p] # baseline[t][p]
  BY <1>2 DEF Todo, Changed, Backed
<1>4. copy[t][p] = t /\ baseline[t][p] # t
  BY <1>0, <1>1, <1>3 DEF Shaped, Lining, Holder
<1>5. files'[p] = t /\ \A q \in Path : q # p => files'[q] = files[q]
  BY <1>0, <1>2, <1>3, <1>4
<1>6. /\ \A u \in DirAttempt : u # t => backup'[u] = backup[u]
      /\ DOMAIN backup'[t] = DOMAIN backup[t] \cup {p} /\ backup'[t][p] = files[p]
      /\ \A q \in DOMAIN backup[t] : q # p => backup'[t][q] = backup[t][q]
  BY <1>0, <1>2
<1>7. /\ \A u \in DirAttempt, q \in Path : u # t \/ q # p => Backed(u, q)' = Backed(u, q)
      /\ \A u \in DirAttempt, q \in Path : (u # t \/ q # p) /\ Backed(u, q) => backup'[u][q] = backup[u][q]
  BY <1>6 DEF Backed
<1>8. \A u \in DirAttempt : baseline[u] # None => baseline[u][p] # t
  BY <1>0, <1>1, <1>3 DEF Traced, Found
<1>9. \A u \in DirAttempt : Backed(u, p) => baseline[u] # None
  BY <1>0, NoneIsNoSnapshot DEF Shaped, Backed, Started
<1>10. \A x \in DirAttempt : x # t /\ Backed(x, p) => backup[x][p] # baseline[t][p]
  BY <1>0, <1>1, <1>3 DEF Replaced, Keeping
<1>11. Displaced'
  <2>1. SUFFICES ASSUME NEW u \in DirAttempt, NEW q \in Path, Backed(u, q)'
                 PROVE  /\ files'[q] # baseline[u][q]
                        /\ \A x \in DirAttempt : x # u /\ Backed(x, q)' => backup'[x][q] # baseline[u][q]
    BY <1>2 DEF Displaced
  <2>2. CASE q # p
    BY <2>1, <2>2, <1>5, <1>7 DEF ShareInv, Displaced
  <2>3. CASE q = p /\ u = t
    BY <2>1, <2>3, <1>4, <1>5, <1>7, <1>10
  <2>4. CASE q = p /\ u # t
    <3>1. Backed(u, p) /\ files'[p] # baseline[u][p]
      BY <2>1, <2>4, <1>4, <1>5, <1>7, <1>8, <1>9
    <3>2. files[p] # baseline[u][p]
         /\ \A x \in DirAttempt : x # u /\ Backed(x, p) => backup[x][p] # baseline[u][p]
      BY <3>1, <1>3 DEF ShareInv, Displaced
    <3>3. ASSUME NEW x \in DirAttempt, x # u, Backed(x, p)' PROVE backup'[x][p] # baseline[u][p]
      <4>1. CASE x = t
        BY <3>2, <4>1, <1>6
      <4>2. CASE x # t
        <5>1. Backed(x, p) /\ backup'[x] = backup[x]
          BY <3>3, <4>2, <1>3, <1>6, <1>7
        <5> QED BY <3>2, <3>3, <5>1
      <4> QED BY <4>1, <4>2
    <3> QED BY <1>2, <2>4, <3>1, <3>3
  <2> QED BY <2>2, <2>3, <2>4
<1>12. \A u \in DirAttempt : u # t => at[u] # "copying"
  BY <1>0, <1>1, OneHolder DEF Holder
<1>13. Sole'
  BY <1>2, <1>6, <1>12 DEF ShareInv, Sole
<1>14. SiblingsApart'
  BY <1>1, <1>2, <1>6 DEF ShareInv, Sole, SiblingsApart
<1> QED BY <1>11, <1>13, <1>14 DEF ShareInv

LEMMA ShareRestore ==
  ASSUME DirInv, ShareInv, NEW t \in DirAttempt, RestoreFile(t), UNCHANGED <<at, baseline>>
  PROVE  ShareInv'
<1>0. /\ DirTypeOK /\ files \in [Path -> Content]
      /\ backup \in [DirAttempt -> UNION {[P -> Content] : P \in SUBSET Path}]
  BY DEF DirInv, DirTypeOK, Snapshot
<1>1. /\ \A u \in DirAttempt : DOMAIN backup'[u] \subseteq DOMAIN backup[u]
      /\ \A u \in DirAttempt, q \in Path :
           Backed(u, q)' => Backed(u, q) /\ backup'[u][q] = backup[u][q]
      /\ \A q \in Path : files'[q] = files[q] \/ (Backed(t, q) /\ ~Backed(t, q)' /\ files'[q] = backup[t][q])
  <2>1. CASE \E p \in DOMAIN backup[t] :
               /\ files' = [files EXCEPT ![p] = backup[t][p]]
               /\ backup' = [backup EXCEPT ![t] = [q \in DOMAIN backup[t] \ {p} |-> backup[t][q]]]
    <3>1. PICK p \in DOMAIN backup[t] :
            /\ files' = [files EXCEPT ![p] = backup[t][p]]
            /\ backup' = [backup EXCEPT ![t] = [q \in DOMAIN backup[t] \ {p} |-> backup[t][q]]]
      BY <2>1
    <3>2. /\ \A u \in DirAttempt : u # t => backup'[u] = backup[u]
          /\ DOMAIN backup'[t] = DOMAIN backup[t] \ {p}
          /\ \A q \in DOMAIN backup[t] : q # p => backup'[t][q] = backup[t][q]
      BY <1>0, <3>1
    <3>3. \A q \in Path : files'[q] = IF q = p THEN backup[t][p] ELSE files[q]
      BY <1>0, <3>1
    <3> QED BY <3>2, <3>3 DEF Backed
  <2>2. CASE backup' = [backup EXCEPT ![t] = None] /\ UNCHANGED files
    <3>1. DOMAIN None = {} /\ backup'[t] = None /\ \A u \in DirAttempt : u # t => backup'[u] = backup[u]
      BY <1>0, <2>2 DEF None
    <3> QED BY <2>2, <3>1 DEF Backed
  <2> QED BY <2>1, <2>2 DEF RestoreFile
<1>2. Displaced'
  <2>1. SUFFICES ASSUME NEW u \in DirAttempt, NEW q \in Path, Backed(u, q)'
                 PROVE  /\ files'[q] # baseline[u][q]
                        /\ \A x \in DirAttempt : x # u /\ Backed(x, q)' => backup'[x][q] # baseline[u][q]
    BY DEF Displaced
  <2>2. Backed(u, q)
    BY <2>1, <1>1
  <2>3. /\ files[q] # baseline[u][q]
        /\ \A x \in DirAttempt : x # u /\ Backed(x, q) => backup[x][q] # baseline[u][q]
    BY <2>2 DEF ShareInv, Displaced
  <2> QED BY <2>1, <2>3, <1>1
<1>3. Sole' /\ SiblingsApart'
  BY <1>1 DEF ShareInv, Sole, SiblingsApart
<1> QED BY <1>2, <1>3 DEF ShareInv

LEMMA ShareEdit ==
  ASSUME DirInv, ShareInv, EditFile
  PROVE  ShareInv'
<1> USE DEF snapVars, guardVars
<1>0. /\ Shaped /\ Numbered /\ files \in [Path -> Content] /\ dirEvents \in Nat
  BY DirAssumption DEF DirInv, DirTypeOK, ContentInv, Snapshot
<1>1. /\ \E p \in Path : files' = [files EXCEPT ![p] = dirEvents']
      /\ UNCHANGED <<at, baseline, backup>> /\ dirEvents' = dirEvents + 1
  BY DEF EditFile, Occurs
<1>2. dirEvents' \notin Known
  BY <1>0, <1>1, DirAssumption DEF Known
<1>3. \A q \in Path : files'[q] = files[q] \/ files'[q] = dirEvents'
  BY <1>0, <1>1
<1>4. \A u \in DirAttempt, q \in Path : Backed(u, q)' = Backed(u, q)
  BY <1>1 DEF Backed
<1>5. \A u \in DirAttempt, q \in Path : Backed(u, q) => baseline[u][q] \in Known
  BY <1>0, NoneIsNoSnapshot DEF Shaped, Backed, Started, Numbered
<1>6. Displaced'
  BY <1>1, <1>2, <1>3, <1>4, <1>5 DEF ShareInv, Displaced
<1>7. Sole' /\ SiblingsApart'
  BY <1>1 DEF ShareInv, Sole, SiblingsApart
<1> QED BY <1>6, <1>7 DEF ShareInv

LEMMA ShareStepPreserves == DirInv /\ ShareInv /\ [DirNext]_dirVars => ShareInv'
<1> SUFFICES ASSUME DirInv, ShareInv, [DirNext]_dirVars PROVE ShareInv'
  OBVIOUS
<1>0. at \in [DirAttempt -> Position]
  BY DEF DirInv, DirTypeOK
<1>1. CASE UNCHANGED dirVars
  BY <1>1, ShareQuiet DEF dirVars
<1>2. ASSUME NEW t \in DirAttempt, Capture(t) \/ Signal(t) PROVE ShareInv'
  <2>1. CASE Signal(t)
    BY <2>1, ShareQuiet DEF Signal, snapVars, guardVars
  <2> QED BY <1>2, <2>1, ShareCapture
<1>3. ASSUME NEW t \in DirAttempt, Proceed(t) PROVE ShareInv'
  <2> USE DEF Goto, SetCopy, Exit, snapVars, guardVars
  <2>1. ASSUME NEW b \in Position, at' = [at EXCEPT ![t] = b], UNCHANGED <<files, backup, baseline>>,
               b = "copying" => files = baseline[t]
        PROVE  ShareInv'
    BY <1>0, <2>1, ShareQuiet
  <2>2. CASE Before(t)
    BY <2>1, <2>2 DEF Before, UnchangedSince, Position, Holder, Outcome
  <2>3. CASE Stable(t) \/ ChildReturns(t) \/ StopWaiting(t) \/ Lease(t)
    BY <2>1, <2>3 DEF Stable, ChildReturns, StopWaiting, Lease, Position, Holder, Outcome
  <2>4. CASE AfterCopy(t) \/ Verifiers(t) \/ Answer(t) \/ RemoveCopy(t)
    BY <2>1, <2>4 DEF AfterCopy, Verifiers, Answer, RemoveCopy, Position, Holder, Outcome
  <2>5. CASE Candidate(t)
    <3>1. UNCHANGED <<files, backup, baseline>> /\
          \E b \in {"threw", "cancelled", "blocked", "unchanged", "wait"} : at' = [at EXCEPT ![t] = b]
      BY <2>5 DEF Candidate
    <3> QED BY <3>1, <2>1 DEF Position, Outcome
  <2>6. CASE CopyFile(t)
    <3>1. at' = at \/ (UNCHANGED <<files, backup, baseline>> /\ \E b \in {"undo", "after"} : at' = [at EXCEPT ![t] = b])
      BY <2>6 DEF CopyFile
    <3> QED BY <3>1, <2>1, <2>6, ShareCopy DEF Position, Holder
  <2>7. CASE Undo(t) \/ Rollback(t)
    <3>1. \/ RestoreFile(t) /\ UNCHANGED <<at, baseline>>
          \/ UNCHANGED <<files, backup, baseline>> /\ at' = [at EXCEPT ![t] = "blocked"]
      BY <2>7 DEF Undo, Rollback
    <3> QED BY <3>1, <2>1, ShareRestore DEF Position, Outcome
  <2> QED BY <1>3, <2>2, <2>3, <2>4, <2>5, <2>6, <2>7 DEF Proceed
<1>4. CASE EditFile
  BY <1>4, ShareEdit
<1>5. CASE DirCrash
  <2>1. UNCHANGED <<files, backup, baseline>> /\ \A x \in DirAttempt : at'[x] = at[x] \/ at'[x] = "crashed"
    BY <1>5 DEF DirCrash, snapVars
  <2> QED BY <2>1, ShareQuiet
<1> QED BY <1>1, <1>2, <1>3, <1>4, <1>5 DEF DirNext

LEMMA DirInvIsSafe == DirInv /\ ShareInv => CopiesSafe
<1> SUFFICES ASSUME DirInv, ShareInv PROVE CopiesSafe
  OBVIOUS
<1>1. FailureUndone
  BY DEF DirInv, ContentInv, Restorable, FailureUndone, Trying, CopyingBack, Kept, Outcome
<1>2. DirTypeOK /\ \A t \in DirAttempt : \A p \in DOMAIN backup[t] : p \in Path
  BY BackupType DEF DirInv
<1>3. MergeStays
  BY <1>2 DEF DirInv, ContentInv, Replaced, MergeStays, Kept, Backed
<1>4. CopyKept
  BY NoneIsNoSnapshot DEF DirInv, Shaped, CopyKept
<1> QED BY <1>1, <1>2, <1>3, <1>4 DEF CopiesSafe, ShareInv

\* A copy-back is done or undone, for any number of attempts, files, edits, faults, aborts
\* and crashes: a failed attempt leaves no file of its own that nobody has seen, although
\* the restoration runs after the lease has gone to the next; a merged one is not put back
\* to its snapshot, and no restoration of another attempt from the same snapshot undoes
\* it.  (DirectoryWorkspaceIsolationV1.merge, WorkspaceWriteGuardV1.execute.)  Nothing is
\* said of the restoration of an attempt from another snapshot: see MergeUndisturbed.
THEOREM CopiesAreSafe == DirSpec => []CopiesSafe
<1>1. DirSpec => []DirInv
  BY DirInitEstablishes, DirStepPreserves, PTL DEF DirSpec
<1>2. DirSpec /\ []DirInv => []ShareInv
  BY ShareInitEstablishes, ShareStepPreserves, PTL DEF DirSpec
<1> QED BY <1>1, <1>2, DirInvIsSafe, PTL

(***************************************************************************)
(* Counting attempts.                                                       *)
(***************************************************************************)

\* The attempts numbered up to a[s], and those left above it to the steps of S.
UpTo(a) == {p \in Step \X (1 .. MaxAttempts) : p[2] <= a[p[1]]}
Above(a, S) == {p \in Step \X (1 .. MaxAttempts) : p[2] > a[p[1]] /\ p[1] \in S}
Numbers(a) == [s \in Step |-> a[s].n]

\* The attempts of a finite plan are finitely many.
LEMMA AttemptsFinite ==
  /\ IsFiniteSet(Step \X (1 .. MaxAttempts))
  /\ \A a : IsFiniteSet(UpTo(a)) /\ Cardinality(UpTo(a)) \in Nat
  /\ \A a, S : IsFiniteSet(Above(a, S)) /\ Cardinality(Above(a, S)) \in Nat
<1>1. IsFiniteSet(1 .. MaxAttempts)
  BY PlanAssumption, FS_Interval
<1>2. IsFiniteSet(Step \X (1 .. MaxAttempts))
  BY <1>1, PlanAssumption, FS_Product
<1>3. \A T \in SUBSET (Step \X (1 .. MaxAttempts)) : IsFiniteSet(T) /\ Cardinality(T) \in Nat
  BY <1>2, FS_Subset, FS_CardinalityType
<1> QED
  BY <1>2, <1>3 DEF UpTo, Above

\* A set of steps is finite.
LEMMA StepsFinite ==
  ASSUME NEW S \in SUBSET Step
  PROVE  IsFiniteSet(S) /\ Cardinality(S) \in Nat
BY PlanAssumption, FS_Subset, FS_CardinalityType

\* One pair for each step of a set: as many as the steps.
LEMMA OneEach ==
  ASSUME NEW S \in SUBSET Step, NEW f \in [Step -> Nat]
  PROVE  LET P == {<<s, f[s]>> : s \in S}
         IN  IsFiniteSet(P) /\ Cardinality(P) = Cardinality(S)
<1> DEFINE P == {<<s, f[s]>> : s \in S}
<1>1. IsFiniteSet(S) /\ Cardinality(S) \in Nat
  BY StepsFinite
<1> DEFINE g == [s \in S |-> <<s, f[s]>>]
<1>2. g \in Surjection(S, P)
  BY DEF Surjection
<1>3. g \in Injection(S, P)
  BY DEF Injection, IsInjective
<1>4. g \in Bijection(S, P)
  BY <1>2, <1>3 DEF Bijection
<1>5. ExistsBijection(S, P)
  BY <1>4 DEF ExistsBijection
<1> QED
  BY <1>1, <1>5, FS_Bijection

\* A new attempt of each of some steps adds their number to the attempts.
LEMMA AttemptsAdded ==
  ASSUME NEW a \in [Step -> 0 .. MaxAttempts], NEW b \in [Step -> 0 .. MaxAttempts],
         NEW new \in SUBSET Step,
         \A s \in new : b[s] = a[s] + 1,
         \A s \in Step \ new : b[s] = a[s]
  PROVE  Cardinality(UpTo(b)) = Cardinality(UpTo(a)) + Cardinality(new)
<1> DEFINE N == {<<s, b[s]>> : s \in new}
<1>0. b \in [Step -> Nat]
  BY PlanAssumption
<1>1. IsFiniteSet(N) /\ Cardinality(N) = Cardinality(new)
  BY <1>0, OneEach
<1>2. UpTo(b) \subseteq UpTo(a) \cup N
  <2> SUFFICES ASSUME NEW s \in Step, NEW i \in 1 .. MaxAttempts, <<s, i>> \in UpTo(b)
               PROVE  <<s, i>> \in UpTo(a) \cup N
    BY DEF UpTo
  <2>1. i <= b[s]
    BY DEF UpTo
  <2>2. CASE i <= a[s]
    BY <2>2 DEF UpTo
  <2>3. CASE s \in new /\ i = b[s]
    BY <2>3
  <2> QED
    BY <2>1, <2>2, <2>3, PlanAssumption
<1>3. N \subseteq UpTo(b)
  <2> SUFFICES ASSUME NEW s \in new PROVE <<s, b[s]>> \in UpTo(b)
    OBVIOUS
  <2>1. b[s] \in 1 .. MaxAttempts
    BY PlanAssumption
  <2> QED
    BY <2>1, PlanAssumption DEF UpTo
<1>4. UpTo(a) \subseteq UpTo(b)
  <2> SUFFICES ASSUME NEW s \in Step, NEW i \in 1 .. MaxAttempts, <<s, i>> \in UpTo(a)
               PROVE  <<s, i>> \in UpTo(b)
    BY DEF UpTo
  <2>1. i <= a[s]
    BY DEF UpTo
  <2>2. i <= b[s]
    BY <2>1, PlanAssumption
  <2> QED
    BY <2>2 DEF UpTo
<1>5. UpTo(a) \cap N = {}
  <2> SUFFICES ASSUME NEW s \in new, <<s, b[s]>> \in UpTo(a) PROVE FALSE
    OBVIOUS
  <2>1. b[s] <= a[s]
    BY DEF UpTo
  <2> QED
    BY <2>1, PlanAssumption
<1>6. UpTo(b) = UpTo(a) \cup N
  BY <1>2, <1>3, <1>4
<1>7. IsFiniteSet(UpTo(a)) /\ Cardinality(UpTo(a)) \in Nat
  BY AttemptsFinite
<1>8. Cardinality(UpTo(a) \cap N) = 0
  BY <1>5, FS_EmptySet
<1>9. Cardinality(new) \in Nat
  BY StepsFinite
<1>10. Cardinality(UpTo(a) \cup N) = Cardinality(UpTo(a)) + Cardinality(N) - Cardinality(UpTo(a) \cap N)
  BY <1>1, <1>7, FS_Union
<1> QED
  BY <1>1, <1>6, <1>7, <1>8, <1>9, <1>10

\* It takes as many from those left, also when fewer steps may have more.
LEMMA AttemptsUsed ==
  ASSUME NEW a \in [Step -> 0 .. MaxAttempts], NEW b \in [Step -> 0 .. MaxAttempts],
         NEW new \in SUBSET Step, NEW S \in SUBSET Step, NEW T \in SUBSET Step,
         new \subseteq S, T \subseteq S,
         \A s \in new : b[s] = a[s] + 1,
         \A s \in Step \ new : b[s] = a[s]
  PROVE  Cardinality(Above(b, T)) + Cardinality(new) <= Cardinality(Above(a, S))
<1> DEFINE N == {<<s, b[s]>> : s \in new}
<1>0. b \in [Step -> Nat]
  BY PlanAssumption
<1>1. IsFiniteSet(N) /\ Cardinality(N) = Cardinality(new)
  BY <1>0, OneEach
<1>2. N \subseteq Above(a, S)
  <2> SUFFICES ASSUME NEW s \in new PROVE <<s, b[s]>> \in Above(a, S)
    OBVIOUS
  <2>1. b[s] \in 1 .. MaxAttempts /\ b[s] > a[s]
    BY PlanAssumption
  <2> QED
    BY <2>1, PlanAssumption DEF Above
<1>3. Above(b, T) \subseteq Above(a, S)
  <2> SUFFICES ASSUME NEW s \in Step, NEW i \in 1 .. MaxAttempts, <<s, i>> \in Above(b, T)
               PROVE  <<s, i>> \in Above(a, S)
    BY DEF Above
  <2>1. i > b[s] /\ s \in T
    BY DEF Above
  <2>2. i > a[s]
    BY <2>1, PlanAssumption
  <2> QED
    BY <2>1, <2>2 DEF Above
<1>4. Above(b, T) \cap N = {}
  <2> SUFFICES ASSUME NEW s \in new, <<s, b[s]>> \in Above(b, T) PROVE FALSE
    OBVIOUS
  <2>1. b[s] > b[s]
    BY DEF Above
  <2> QED
    BY <2>1, PlanAssumption
<1>5. /\ IsFiniteSet(Above(a, S)) /\ Cardinality(Above(a, S)) \in Nat
      /\ IsFiniteSet(Above(b, T)) /\ Cardinality(Above(b, T)) \in Nat
  BY AttemptsFinite
<1>6. Cardinality(Above(b, T) \cap N) = 0
  BY <1>4, FS_EmptySet
<1>7. Cardinality(new) \in Nat
  BY StepsFinite
<1>8. Cardinality(Above(b, T) \cup N) = Cardinality(Above(b, T)) + Cardinality(N) - Cardinality(Above(b, T) \cap N)
  BY <1>1, <1>5, FS_Union
<1>9. Cardinality(Above(b, T) \cup N) <= Cardinality(Above(a, S))
  BY <1>2, <1>3, <1>5, FS_Subset
<1> QED
  BY <1>1, <1>5, <1>6, <1>7, <1>8, <1>9

\* No set of numbers in which each has fewer than n before it has more than n.
LEMMA CountedInOrder ==
  ASSUME NEW S \in SUBSET Step, NEW n \in Nat,
         \A s \in S : Cardinality({t \in S : t < s}) < n
  PROVE  Cardinality(S) <= n
<1>1. IsFiniteSet(S) /\ Cardinality(S) \in Nat
  BY StepsFinite
<1> SUFFICES ASSUME n < Cardinality(S) PROVE FALSE
  BY <1>1
<1> DEFINE rank == [s \in S |-> Cardinality({t \in S : t < s}) + 1]
<1>2. \A s \in S : Cardinality({t \in S : t < s}) \in Nat
  <2> TAKE s \in S
  <2>1. {t \in S : t < s} \in SUBSET Step
    OBVIOUS
  <2> QED
    BY <2>1, StepsFinite
<1>3. rank \in [S -> 1 .. n]
  BY <1>2
<1>r. \A s \in S : rank[s] = Cardinality({t \in S : t < s}) + 1
  OBVIOUS
<1> HIDE DEF rank
<1>4. IsFiniteSet(1 .. n) /\ Cardinality(1 .. n) = n
  BY FS_Interval
<1>f. Cardinality(1 .. n) < Cardinality(S)
  BY <1>4
<1>5. PICK v \in S, w \in S : v # w /\ rank[v] = rank[w]
  BY <1>1, <1>3, <1>4, <1>f, FS_PigeonHole
<1>6. v \in Nat /\ w \in Nat
  BY PlanAssumption
<1>7. PICK x \in S, y \in S : x < y /\ rank[x] = rank[y]
  <2>1. CASE v < w
    BY <1>5, <2>1
  <2>2. CASE w < v
    BY <1>5, <2>2
  <2> QED
    BY <1>5, <1>6, <2>1, <2>2
<1> DEFINE X == {t \in S : t < x}
           Y == {t \in S : t < y}
<1>8. X \in SUBSET Step /\ Y \in SUBSET Step /\ IsFiniteSet(Y)
  BY StepsFinite
<1>m. \A t : (t \in X <=> t \in S /\ t < x) /\ (t \in Y <=> t \in S /\ t < y)
  OBVIOUS
<1>k. rank[x] = Cardinality(X) + 1 /\ rank[y] = Cardinality(Y) + 1
  BY <1>r
<1>t. Cardinality(X) \in Nat /\ Cardinality(Y) \in Nat
  BY <1>2
<1> HIDE DEF X, Y
<1>9. X \subseteq Y /\ x \in Y /\ x \notin X
  <2>1. x \in Nat /\ y \in Nat /\ S \subseteq Nat
    BY PlanAssumption
  <2>2. \A t \in S : t < x => t < y
    BY <1>7, <2>1
  <2>3. ~ (x < x)
    BY <2>1
  <2> QED
    BY <1>7, <1>m, <2>2, <2>3
<1>e. Cardinality(X) + 1 = Cardinality(Y) + 1
  BY <1>7, <1>k
<1>10. Cardinality(X) = Cardinality(Y)
  BY <1>e, <1>t
<1>11. X \in SUBSET Y
  BY <1>9
<1>12. Cardinality(Y) = Cardinality(X) => Y = X
  BY <1>8, <1>11, FS_Subset
<1> QED
  BY <1>9, <1>10, <1>12

(***************************************************************************)
(* The invariant.                                                           *)
(***************************************************************************)

Busy == {"begin", "request", "execute", "result", "verify"}

\* One step: its state follows its last attempt, its worker holds it, recovery resumed
\* it at rest, and what it must not repeat has run once, and not yet when it is still
\* to run.
StepInv(s) ==
  /\ att[s].state = "running" <=> step[s] = "running"
  /\ att[s].state = "verifying" <=> step[s] = "verifying"
  /\ att[s].state = "verified" <=> step[s] = "succeeded"
  /\ step[s] = "pending" => att[s] = NoAttempt
  /\ work[s].at \in Busy => step[s] = IF work[s].at = "verify" THEN "verifying" ELSE "running"
  /\ sup = "crashed" => work[s].at = "none"
  /\ s \in resumed => s \in Idempotent /\ step[s] = "running" /\ work[s].at = "none"
  /\ ran[s] <= 1
  /\ s \in Idempotent => ran[s] = 0
  /\ step[s] = "pending" \/ work[s].at \in {"begin", "request", "execute"} => ran[s] = 0

\* The attempts of a first definition are all that were made; after a revision those
\* that its open steps may still need fit.
Open == {s \in Step : step[s] # "succeeded"}
Counted ==
  /\ plan.revision = 1 => made = Attempts
  /\ plan.revision = 2 => made + Cardinality(Above(Numbers(att), Open)) <= MaxChildRuns
  /\ made <= MaxChildRuns

PlanInv ==
  /\ TypeOK /\ \A s \in Step : StepInv(s)
  /\ DependenciesFirst /\ ConflictKeysExclusive /\ EndIsWhole /\ Counted

\* Attempts counts the attempts up to their numbers.
LEMMA AttemptsAre ==
  Attempts = Cardinality(UpTo(Numbers(att)))
<1>1. {p \in Step \X (1 .. MaxAttempts) : p[2] <= att[p[1]].n} = UpTo(Numbers(att))
  BY DEF UpTo, Numbers
<1> QED
  BY <1>1 DEF Attempts

LEMMA AttemptsAreNext ==
  Attempts' = Cardinality(UpTo(Numbers(att')))
<1>1. {p \in Step \X (1 .. MaxAttempts) : p[2] <= att'[p[1]].n} = UpTo(Numbers(att'))
  BY DEF UpTo, Numbers
<1> QED
  BY <1>1 DEF Attempts

\* Numbers has its type.
LEMMA NumbersType ==
  ASSUME NEW a \in [Step -> AttemptRow]
  PROVE  Numbers(a) \in [Step -> 0 .. MaxAttempts] /\ \A s \in Step : Numbers(a)[s] = a[s].n
<1>1. \A s \in Step : a[s] \in AttemptRow
  OBVIOUS
<1>2. \A r \in AttemptRow : r.n \in 0 .. MaxAttempts
  BY DEF AttemptRow
<1>3. \A s \in Step : a[s].n \in 0 .. MaxAttempts
  BY <1>1, <1>2
<1> QED
  BY <1>3 DEF Numbers

\* Attempts that the count of the current revision leaves room for fit the run, which
\* has made more.
LEMMA CountKept ==
  ASSUME PlanInv, NEW new \in SUBSET Step,
         att' \in [Step -> AttemptRow], step' \in [Step -> StepStates],
         \A s \in new : step[s] # "succeeded" /\ att'[s].n = att[s].n + 1,
         \A s \in Step \ new : att'[s].n = att[s].n,
         \A s \in Step : step[s] = "succeeded" => step'[s] = "succeeded",
         plan'.revision = plan.revision, made' = made + Cardinality(new),
         new # {} => Attempts + Cardinality(new) <= MaxChildRuns
  PROVE  Counted'
<1> DEFINE a == Numbers(att)
           b == Numbers(att')
<1>1. att \in [Step -> AttemptRow] /\ made \in Nat /\ made <= MaxChildRuns
  BY PlanAssumption DEF PlanInv, TypeOK
<1>2. /\ a \in [Step -> 0 .. MaxAttempts] /\ \A s \in Step : a[s] = att[s].n
      /\ b \in [Step -> 0 .. MaxAttempts] /\ \A s \in Step : b[s] = att'[s].n
  BY <1>1, NumbersType
<1> HIDE DEF a, b
<1>3. (\A s \in new : b[s] = a[s] + 1) /\ (\A s \in Step \ new : b[s] = a[s])
  BY <1>2
<1>4. Cardinality(UpTo(b)) = Cardinality(UpTo(a)) + Cardinality(new)
  BY <1>2, <1>3, AttemptsAdded
<1>5. Attempts = Cardinality(UpTo(a)) /\ Attempts' = Cardinality(UpTo(b))
  BY AttemptsAre, AttemptsAreNext DEF a, b
<1>6. new \subseteq Open /\ Open' \subseteq Open /\ Open \in SUBSET Step /\ Open' \in SUBSET Step
  BY DEF Open
<1>7. Cardinality(Above(b, Open')) + Cardinality(new) <= Cardinality(Above(a, Open))
  <2> DEFINE S == Open
             T == Open'
  <2>1. new \subseteq S /\ T \subseteq S /\ S \in SUBSET Step /\ T \in SUBSET Step
    BY <1>6
  <2> HIDE DEF S, T
  <2>2. Cardinality(Above(b, T)) + Cardinality(new) <= Cardinality(Above(a, S))
    BY <1>2, <1>3, <2>1, AttemptsUsed
  <2> QED
    BY <2>2 DEF S, T
<1>8. /\ Cardinality(new) \in Nat /\ Cardinality(UpTo(a)) \in Nat
      /\ Cardinality(Above(a, Open)) \in Nat /\ Cardinality(Above(b, Open')) \in Nat
  BY StepsFinite, AttemptsFinite
<1>9. new = {} => Cardinality(new) = 0
  BY FS_EmptySet
<1>10. plan.revision \in {1, 2}
  <2>1. plan.revision \in 1 .. 2
    BY DEF PlanInv, TypeOK
  <2> QED
    BY <2>1
<1>11. /\ plan.revision = 1 => made = Attempts
       /\ plan.revision = 2 => made + Cardinality(Above(a, Open)) <= MaxChildRuns
  BY DEF PlanInv, Counted, a
<1>12. plan'.revision = 1 => made' = Attempts'
  BY <1>4, <1>5, <1>11
<1>13. plan'.revision = 2 => made' + Cardinality(Above(b, Open')) <= MaxChildRuns
  BY <1>1, <1>7, <1>8, <1>11, PlanAssumption
<1>14. made' <= MaxChildRuns
  <2>1. CASE new = {}
    BY <1>1, <1>9, <2>1
  <2>2. CASE new # {} /\ plan.revision = 1
    BY <1>5, <1>8, <1>11, <2>2
  <2>3. CASE plan.revision = 2
    BY <1>1, <1>8, <1>13, <2>3, PlanAssumption
  <2> QED
    BY <1>10, <2>1, <2>2, <2>3
<1>15. Numbers(att)' = b
  BY DEF Numbers, b
<1> QED
  BY <1>12, <1>13, <1>14, <1>15 DEF Counted, Above

\* Nothing changes but what the counts do not look at.
LEMMA CountUnchanged ==
  ASSUME PlanInv, att' \in [Step -> AttemptRow], step' \in [Step -> StepStates],
         \A s \in Step : att'[s].n = att[s].n,
         \A s \in Step : step[s] = "succeeded" => step'[s] = "succeeded",
         plan'.revision = plan.revision, made' = made
  PROVE  Counted'
<1>1. Cardinality({}) = 0 /\ {} \in SUBSET Step /\ made \in Nat
  BY FS_EmptySet, PlanAssumption DEF PlanInv, TypeOK
<1>2. made' = made + Cardinality({})
  BY <1>1
<1> DEFINE new == {}
<1>3. new \in SUBSET Step /\ made' = made + Cardinality(new) /\ new = {}
  BY <1>1, <1>2
<1>4. /\ \A s \in new : step[s] # "succeeded" /\ att'[s].n = att[s].n + 1
      /\ \A s \in Step \ new : att'[s].n = att[s].n
  OBVIOUS
<1> HIDE DEF new
<1> QED
  BY <1>3, <1>4, CountKept

(***************************************************************************)
(* The steps of a worker.                                                   *)
(***************************************************************************)

\* One worker moves: nothing changes at the other steps, the plan goes on, and its own
\* step, which is active, does not go back to pending.
Moves(s) ==
  /\ UNCHANGED <<input, plan, run, sup, resumed>>
  /\ step[s] \in {"running", "verifying"} /\ step'[s] # "pending"
  /\ \A t \in Step \ {s} :
       step'[t] = step[t] /\ att'[t] = att[t] /\ work'[t] = work[t] /\ ran'[t] = ran[t]

LEMMA MoveKeeps ==
  ASSUME PlanInv, NEW s \in Step, Moves(s), TypeOK', StepInv(s)', Counted'
  PROVE  PlanInv'
<1>1. \A t \in Step : StepInv(t)'
  <2> TAKE t \in Step
  <2>1. CASE t = s
    BY <2>1
  <2>2. CASE t # s
    <3>1. StepInv(t)
      BY DEF PlanInv
    <3>2. step'[t] = step[t] /\ att'[t] = att[t] /\ work'[t] = work[t] /\ ran'[t] = ran[t]
      BY <2>2 DEF Moves
    <3> QED
      BY <3>1, <3>2 DEF StepInv, Moves
  <2> QED
    BY <2>1, <2>2
<1>2. s \in Active
  BY DEF Moves, Active
<1>3. \A t \in Step : step'[t] \in {"running", "verifying", "succeeded"} =>
        step[t] \in {"running", "verifying", "succeeded"}
  BY DEF Moves
<1>4. \A t \in Step : step[t] = "succeeded" => step'[t] = "succeeded"
  BY DEF Moves
<1>5. DependenciesFirst'
  <2> SUFFICES ASSUME NEW t \in Step, step'[t] \in {"running", "verifying", "succeeded"},
                      NEW d \in Deps[t]
               PROVE  step'[d] = "succeeded"
    BY DEF DependenciesFirst
  <2>1. d \in Step
    BY PlanAssumption
  <2>2. step[d] = "succeeded"
    BY <1>3 DEF PlanInv, DependenciesFirst
  <2> QED
    BY <1>4, <2>1, <2>2
<1>6. Active' \subseteq Active
  BY DEF Active, Moves
<1>7. ConflictKeysExclusive'
  BY <1>6 DEF PlanInv, ConflictKeysExclusive
<1>8. plan.state \in {"draft", "running"}
  BY <1>2 DEF PlanInv, EndIsWhole
<1>9. EndIsWhole'
  <2>1. plan'.state \in {"draft", "running"}
    BY <1>8 DEF Moves
  <2> QED
    BY <2>1 DEF EndIsWhole
<1> QED
  BY <1>1, <1>5, <1>7, <1>9 DEF PlanInv

\* What a busy worker's step is.
LEMMA BusyIsActive ==
  ASSUME PlanInv, NEW s \in Step, work[s].at \in Busy
  PROVE  /\ step[s] = IF work[s].at = "verify" THEN "verifying" ELSE "running"
         /\ step[s] \in {"running", "verifying"} /\ att[s].state = step[s]
         /\ ActiveAttempt(s) /\ s \notin resumed /\ sup # "crashed"
<1>1. StepInv(s)
  BY DEF PlanInv
<1> QED
  BY <1>1 DEF StepInv, ActiveAttempt, Busy

\* The parts of the types that a worker's step changes.
LEMMA TypeParts ==
  ASSUME PlanInv
  PROVE  /\ step \in [Step -> StepStates] /\ att \in [Step -> AttemptRow]
         /\ work \in [Step -> [at : WorkPositions, lease : 0 .. Ceiling, used : 0 .. Ceiling,
                               read : Nat, out : WorkOutcomes]]
         /\ ran \in [Step -> 0 .. MaxAttempts] /\ usage \in Nat /\ made \in Nat
         /\ Ceiling \in Nat /\ 0 \in 0 .. Ceiling /\ plan.revision \in {1, 2}
         /\ made <= MaxChildRuns /\ MaxChildRuns \in Nat /\ events \in 0 .. MaxEvents
<1>1. plan.revision \in 1 .. 2
  BY DEF PlanInv, TypeOK
<1> QED
  BY <1>1, PlanAssumption DEF PlanInv, TypeOK, Counted

\* The types after a worker's step.
LEMMA MoveTypes ==
  ASSUME PlanInv, NEW s \in Step, Moves(s), Counted',
         step' \in [Step -> StepStates], att' \in [Step -> AttemptRow],
         work' \in [Step -> [at : WorkPositions, lease : 0 .. Ceiling, used : 0 .. Ceiling,
                             read : Nat, out : WorkOutcomes]],
         ran' \in [Step -> 0 .. MaxAttempts], usage' \in Nat, made' \in Nat,
         stop' \in BOOLEAN, events' \in 0 .. MaxEvents, UNCHANGED <<abort, late>>
  PROVE  TypeOK'
<1>1. made' \in 0 .. MaxChildRuns
  BY PlanAssumption DEF Counted
<1> QED
  BY <1>1 DEF PlanInv, TypeOK, Moves

\* The attempt of an active worker ends: attempt and step leave their active states.
LEMMA TerminateKeeps ==
  ASSUME PlanInv, NEW s \in Step, work[s].at \in Busy,
         NEW o \in {"failed", "cancelled", "interrupted"}, NEW u \in Nat,
         terminateAttempt(s, o, u),
         ran' \in [Step -> 0 .. MaxAttempts], \A t \in Step \ {s} : ran'[t] = ran[t],
         ran'[s] <= 1, s \in Idempotent => ran'[s] = 0,
         UNCHANGED <<sup, resumed, abort, late>>
  PROVE  PlanInv'
<1>1. /\ step[s] \in {"running", "verifying"} /\ att[s].state = step[s]
      /\ ActiveAttempt(s) /\ s \notin resumed /\ sup # "crashed"
  BY BusyIsActive
<1>2. /\ step \in [Step -> StepStates] /\ att \in [Step -> AttemptRow]
      /\ work \in [Step -> [at : WorkPositions, lease : 0 .. Ceiling, used : 0 .. Ceiling,
                            read : Nat, out : WorkOutcomes]]
      /\ usage \in Nat /\ made \in Nat /\ Ceiling \in Nat /\ 0 \in 0 .. Ceiling
      /\ events \in 0 .. MaxEvents
  BY TypeParts
<1>3. StepInv(s)
  BY DEF PlanInv
<1>4. CASE /\ att' = LastState(s, IF o = "cancelled" THEN o ELSE "interrupted")
           /\ step' = [step EXCEPT ![s] = o]
           /\ usage' = usage + u
           /\ Done(s, o) /\ Signals(o) /\ Commits
           /\ UNCHANGED <<input, plan, run, made>>
  <2>1. /\ step' \in [Step -> StepStates] /\ step'[s] = o
        /\ \A t \in Step \ {s} : step'[t] = step[t]
    BY <1>2, <1>4 DEF StepStates
  <2>2. PICK c \in {"cancelled", "interrupted"} : att' = [att EXCEPT ![s].state = c]
    BY <1>4 DEF LastState
  <2>3. /\ att' \in [Step -> AttemptRow] /\ att'[s].state = c
        /\ \A t \in Step \ {s} : att'[t] = att[t]
        /\ \A t \in Step : att'[t].n = att[t].n
    BY <1>2, <2>2 DEF AttemptRow, AttemptStates
  <2>4. /\ work' \in [Step -> [at : WorkPositions, lease : 0 .. Ceiling, used : 0 .. Ceiling,
                               read : Nat, out : WorkOutcomes]]
        /\ work'[s].at = "done" /\ \A t \in Step \ {s} : work'[t] = work[t]
    BY <1>2, <1>4 DEF Done, NoWork, WorkPositions, WorkOutcomes
  <2>5. Moves(s)
    BY <1>1, <1>4, <2>1, <2>3, <2>4 DEF Moves
  <2>6. Counted'
    BY <1>1, <1>4, <2>1, <2>3, CountUnchanged
  <2>7. stop' \in BOOLEAN
    BY <1>4 DEF Signals, PlanInv, TypeOK
  <2>8. usage' \in Nat /\ made' \in Nat /\ events' \in 0 .. MaxEvents
    BY <1>2, <1>4 DEF Commits
  <2>9. TypeOK'
    BY <2>1, <2>3, <2>4, <2>5, <2>6, <2>7, <2>8, MoveTypes
  <2>10. StepInv(s)'
    BY <1>1, <1>3, <2>1, <2>3, <2>4 DEF StepInv, Busy
  <2> QED
    BY <2>5, <2>6, <2>9, <2>10, MoveKeeps
<1>5. CASE Throws /\ At(s, "threw") /\ UNCHANGED stop
  <2>1. /\ work' \in [Step -> [at : WorkPositions, lease : 0 .. Ceiling, used : 0 .. Ceiling,
                               read : Nat, out : WorkOutcomes]]
        /\ work'[s].at = "threw" /\ \A t \in Step \ {s} : work'[t] = work[t]
    BY <1>2, <1>5 DEF At, WorkPositions
  <2>2. Moves(s)
    BY <1>1, <1>5, <2>1 DEF Moves, Throws, journalVars
  <2>3. Counted'
    BY <1>2, <1>5, CountUnchanged DEF Throws, journalVars
  <2>4. stop' \in BOOLEAN /\ events' \in 0 .. MaxEvents
    BY <1>5, PlanAssumption DEF PlanInv, TypeOK, Throws, Happens
  <2>5. TypeOK'
    BY <1>2, <1>5, <2>1, <2>2, <2>3, <2>4, MoveTypes DEF Throws, journalVars
  <2>6. StepInv(s)'
    BY <1>1, <1>3, <1>5, <2>1 DEF StepInv, Busy, Throws, journalVars
  <2> QED
    BY <2>2, <2>3, <2>5, <2>6, MoveKeeps
<1> QED
  BY <1>1, <1>4, <1>5 DEF terminateAttempt

WorkRow == [at : WorkPositions, lease : 0 .. Ceiling, used : 0 .. Ceiling,
            read : Nat, out : WorkOutcomes]

\* A worker's step that leaves the numbers of the attempts alone.
LEMMA PlainMoveKeeps ==
  ASSUME PlanInv, NEW s \in Step, Moves(s), StepInv(s)',
         step' \in [Step -> StepStates], att' \in [Step -> AttemptRow],
         att'[s].n = att[s].n, made' = made,
         work' \in [Step -> WorkRow],
         ran' \in [Step -> 0 .. MaxAttempts], usage' \in Nat,
         stop' \in BOOLEAN, events' \in 0 .. MaxEvents, UNCHANGED <<abort, late>>
  PROVE  PlanInv'
<1>1. \A t \in Step : att'[t].n = att[t].n
  BY DEF Moves
<1>2. \A t \in Step : step[t] = "succeeded" => step'[t] = "succeeded"
  BY DEF Moves
<1>3. Counted'
  BY <1>1, <1>2, CountUnchanged DEF Moves
<1>4. made' \in Nat
  BY TypeParts
<1>5. TypeOK'
  BY <1>3, <1>4, MoveTypes DEF WorkRow
<1> QED
  BY <1>3, <1>5, MoveKeeps

\* A commit of a worker that fails.
LEMMA ThrowKeeps ==
  ASSUME PlanInv, NEW s \in Step, work[s].at \in Busy,
         Throws, At(s, "threw"), UNCHANGED <<sup, resumed, abort, stop, late, ran>>
  PROVE  PlanInv'
<1>1. terminateAttempt(s, "failed", 0)
  BY DEF terminateAttempt
<1>2. ran \in [Step -> 0 .. MaxAttempts] /\ ran[s] <= 1 /\ (s \in Idempotent => ran[s] = 0)
  BY TypeParts DEF PlanInv, StepInv
<1> QED
  BY <1>1, <1>2, TerminateKeeps

\* The lease of a retry.
LEMMA RetryLease ==
  ASSUME NEW r \in Nat, NEW u \in Nat
  PROVE  remainingAttemptBudget(r, u) \in 0 .. Ceiling
<1>1. Less(ParentTurns, r + u) \in Nat
  BY PlanAssumption DEF Less
<1>2. Min2(Ceiling, Less(ParentTurns, r + u)) \in 0 .. Ceiling
  BY <1>1, PlanAssumption DEF Min2
<1> QED
  BY <1>2, PlanAssumption DEF remainingAttemptBudget

\* A new attempt has its type.
LEMMA NewAttemptType ==
  ASSUME NEW s \in Step, att[s] \in AttemptRow, att[s].n < MaxAttempts
  PROVE  /\ NewAttempt(s) \in AttemptRow
         /\ [NewAttempt(s) EXCEPT !.bound = TRUE] \in AttemptRow
         /\ NewAttempt(s).n = att[s].n + 1 /\ NewAttempt(s).state = "running"
<1>1. att[s].n \in 0 .. MaxAttempts
  BY DEF AttemptRow
<1>2. att[s].n + 1 \in 0 .. MaxAttempts
  BY <1>1, PlanAssumption
<1> QED
  BY <1>2 DEF NewAttempt, AttemptRow, AttemptStates

\* A retry within the limits.
LEMMA RetryKeeps ==
  ASSUME PlanInv, NEW s \in Step, work[s].at \in Busy, NEW r \in Nat, NEW u \in Nat,
         RetryAllowed(s, r, u), Retry(s, r, u), usage' \in Nat,
         UNCHANGED <<sup, resumed, abort, late, ran, events>>
  PROVE  PlanInv'
<1>1. /\ step[s] \in {"running", "verifying"} /\ s \notin resumed /\ sup # "crashed"
  BY BusyIsActive
<1>2. /\ step \in [Step -> StepStates] /\ att \in [Step -> AttemptRow]
      /\ work \in [Step -> WorkRow] /\ ran \in [Step -> 0 .. MaxAttempts]
      /\ made \in Nat /\ Ceiling \in Nat /\ 0 \in 0 .. Ceiling /\ events \in 0 .. MaxEvents
  BY TypeParts DEF WorkRow
<1>3. StepInv(s)
  BY DEF PlanInv
<1>4. s \in Idempotent /\ att[s].n < MaxAttempts /\ Attempts < MaxChildRuns
  BY DEF RetryAllowed
<1>5. /\ NewAttempt(s) \in AttemptRow /\ NewAttempt(s).n = att[s].n + 1
      /\ NewAttempt(s).state = "running"
  BY <1>2, <1>4, NewAttemptType
<1>6. /\ att' \in [Step -> AttemptRow] /\ att'[s].n = att[s].n + 1
      /\ att'[s].state = "running" /\ \A t \in Step \ {s} : att'[t] = att[t]
  BY <1>2, <1>5 DEF Retry
<1>7. /\ step' \in [Step -> StepStates] /\ step'[s] = "running"
      /\ \A t \in Step \ {s} : step'[t] = step[t]
  BY <1>2 DEF Retry, StepStates
<1>8. /\ work' \in [Step -> WorkRow] /\ work'[s].at = "begin"
      /\ \A t \in Step \ {s} : work'[t] = work[t]
  <2>1. remainingAttemptBudget(r, u) \in 0 .. Ceiling
    BY RetryLease
  <2>2. [NoWork EXCEPT !.at = "begin", !.lease = remainingAttemptBudget(r, u)] \in WorkRow
    BY <1>2, <2>1 DEF NoWork, WorkRow, WorkPositions, WorkOutcomes
  <2>3. [NoWork EXCEPT !.at = "begin", !.lease = remainingAttemptBudget(r, u)].at = "begin"
    BY DEF NoWork
  <2> QED
    BY <1>2, <2>2, <2>3 DEF Retry
<1>9. made' = made + 1 /\ UNCHANGED <<input, plan, run, stop>>
  BY DEF Retry
<1>10. Moves(s)
  BY <1>1, <1>6, <1>7, <1>8, <1>9 DEF Moves
<1>11. Counted'
  <2> DEFINE new == {s}
  <2>1. new \in SUBSET Step /\ Cardinality(new) = 1 /\ new # {}
    BY FS_Singleton
  <2>2. Attempts \in Nat
    BY AttemptsAre, AttemptsFinite
  <2>3. Attempts + Cardinality(new) <= MaxChildRuns
    BY <1>4, <2>1, <2>2, PlanAssumption
  <2>4. made' = made + Cardinality(new) /\ plan'.revision = plan.revision
    BY <1>9, <2>1
  <2>5. /\ \A t \in new : step[t] # "succeeded" /\ att'[t].n = att[t].n + 1
        /\ \A t \in Step \ new : att'[t].n = att[t].n
        /\ \A t \in Step : step[t] = "succeeded" => step'[t] = "succeeded"
    BY <1>1, <1>6, <1>7
  <2> HIDE DEF new
  <2> QED
    BY <1>6, <1>7, <2>1, <2>3, <2>4, <2>5, CountKept
<1>12. TypeOK'
  <2>1. made' \in Nat /\ stop' \in BOOLEAN
    BY <1>2, <1>9 DEF PlanInv, TypeOK
  <2> QED
    BY <1>2, <1>6, <1>7, <1>8, <1>10, <1>11, <2>1, MoveTypes DEF WorkRow
<1>13. StepInv(s)'
  BY <1>1, <1>3, <1>4, <1>6, <1>7, <1>8 DEF StepInv, Busy
<1> QED
  BY <1>10, <1>11, <1>12, <1>13, MoveKeeps

LEMMA BeginKeeps ==
  ASSUME PlanInv, NEW s \in Step, Begin(s)
  PROVE  PlanInv'
<1>1. work[s].at \in Busy
  BY DEF Begin, Busy
<1>2. /\ step[s] = "running" /\ att[s].state = "running" /\ s \notin resumed /\ sup # "crashed"
  BY <1>1, BusyIsActive DEF Begin
<1>3. /\ step \in [Step -> StepStates] /\ att \in [Step -> AttemptRow]
      /\ work \in [Step -> WorkRow] /\ ran \in [Step -> 0 .. MaxAttempts] /\ usage \in Nat
      /\ made \in Nat /\ events \in 0 .. MaxEvents
  BY TypeParts DEF WorkRow
<1>4. StepInv(s)
  BY DEF PlanInv
<1>5. ran[s] <= 1 /\ (s \in Idempotent => ran[s] = 0)
  BY <1>4 DEF StepInv
<1>6. UNCHANGED <<sup, resumed, abort, late, ran>>
  BY DEF Begin
<1>7. CASE terminateAttempt(s, "failed", 0) \/ terminateAttempt(s, "cancelled", 0)
  BY <1>1, <1>3, <1>5, <1>6, <1>7, TerminateKeeps
<1>8. CASE /\ work' = [work EXCEPT ![s].at = IF att[s].bound THEN "execute" ELSE "request",
                                   ![s].read = usage]
           /\ UNCHANGED <<journalVars, stop, events>>
  <2>1. PICK p \in {"execute", "request"} : work' = [work EXCEPT ![s].at = p, ![s].read = usage]
    BY <1>8
  <2>2. /\ work' \in [Step -> WorkRow] /\ work'[s].at = p
        /\ \A t \in Step \ {s} : work'[t] = work[t]
    BY <1>3, <2>1 DEF WorkRow, WorkPositions
  <2>3. UNCHANGED <<input, plan, run, step, att, usage, made>>
    BY <1>8 DEF journalVars
  <2>4. Moves(s)
    BY <1>2, <1>6, <2>2, <2>3 DEF Moves
  <2>5. StepInv(s)'
    BY <1>2, <1>4, <1>6, <2>2, <2>3 DEF StepInv, Busy, Begin
  <2>6. stop' \in BOOLEAN /\ events' \in 0 .. MaxEvents
    BY <1>3, <1>8 DEF PlanInv, TypeOK
  <2> QED
    BY <1>3, <1>6, <2>2, <2>3, <2>4, <2>5, <2>6, PlainMoveKeeps
<1> QED
  BY <1>7, <1>8 DEF Begin

LEMMA BindKeeps ==
  ASSUME PlanInv, NEW s \in Step, Bind(s)
  PROVE  PlanInv'
<1>1. work[s].at \in Busy
  BY DEF Bind, Busy
<1>2. /\ step[s] = "running" /\ att[s].state = "running" /\ s \notin resumed /\ sup # "crashed"
  BY <1>1, BusyIsActive DEF Bind
<1>3. /\ step \in [Step -> StepStates] /\ att \in [Step -> AttemptRow]
      /\ work \in [Step -> WorkRow] /\ ran \in [Step -> 0 .. MaxAttempts] /\ usage \in Nat
      /\ made \in Nat /\ events \in 0 .. MaxEvents
  BY TypeParts DEF WorkRow
<1>4. StepInv(s)
  BY DEF PlanInv
<1>5. ran[s] <= 1 /\ (s \in Idempotent => ran[s] = 0)
  BY <1>4 DEF StepInv
<1>6. UNCHANGED <<sup, resumed, abort, late, ran>>
  BY DEF Bind
<1>7. CASE terminateAttempt(s, "interrupted", 0)
  BY <1>1, <1>3, <1>5, <1>6, <1>7, TerminateKeeps
<1>8. CASE /\ att' = [att EXCEPT ![s].bound = TRUE]
           /\ At(s, "execute") /\ Commits
           /\ UNCHANGED <<input, plan, run, step, usage, made, stop>>
  <2>1. /\ work' \in [Step -> WorkRow] /\ work'[s].at = "execute"
        /\ \A t \in Step \ {s} : work'[t] = work[t]
    BY <1>3, <1>8 DEF At, WorkRow, WorkPositions
  <2>2. /\ att' \in [Step -> AttemptRow] /\ att'[s].n = att[s].n /\ att'[s].state = "running"
        /\ \A t \in Step \ {s} : att'[t] = att[t]
    BY <1>2, <1>3, <1>8 DEF AttemptRow
  <2>3. Moves(s)
    BY <1>2, <1>6, <1>8, <2>1, <2>2 DEF Moves
  <2>4. StepInv(s)'
    BY <1>2, <1>4, <1>6, <1>8, <2>1, <2>2 DEF StepInv, Busy, Bind
  <2>5. stop' \in BOOLEAN /\ events' \in 0 .. MaxEvents
    BY <1>3, <1>8 DEF PlanInv, TypeOK, Commits
  <2> QED
    BY <1>3, <1>6, <1>8, <2>1, <2>2, <2>3, <2>4, <2>5, PlainMoveKeeps
<1> QED
  BY <1>7, <1>8 DEF Bind

LEMMA ExecutionKeeps ==
  ASSUME PlanInv, NEW s \in Step, Execution(s)
  PROVE  PlanInv'
<1>1. work[s].at = "execute" /\ work[s].at \in Busy
  BY DEF Execution, Busy
<1>2. /\ step[s] = "running" /\ att[s].state = "running" /\ s \notin resumed /\ sup # "crashed"
  BY <1>1, BusyIsActive
<1>3. /\ step \in [Step -> StepStates] /\ att \in [Step -> AttemptRow]
      /\ work \in [Step -> WorkRow] /\ ran \in [Step -> 0 .. MaxAttempts] /\ usage \in Nat
      /\ made \in Nat /\ events \in 0 .. MaxEvents /\ Ceiling \in Nat
  BY TypeParts DEF WorkRow
<1>4. StepInv(s)
  BY DEF PlanInv
<1>5. ran[s] = 0
  BY <1>1, <1>4 DEF StepInv
<1>6. UNCHANGED <<sup, resumed, abort, late>>
  BY DEF Execution
<1>7. CASE terminateAttempt(s, "cancelled", 0) /\ UNCHANGED ran
  BY <1>1, <1>3, <1>5, <1>6, <1>7, TerminateKeeps
<1>8. ASSUME ran' = [ran EXCEPT ![s] = @ + (IF s \in Idempotent THEN 0 ELSE 1)],
             NEW u \in 0 .. work[s].lease,
             \/ /\ work' = [work EXCEPT ![s].at = "result", ![s].used = u]
                /\ UNCHANGED <<journalVars, stop, events>>
             \/ terminateAttempt(s, IF stop THEN "cancelled" ELSE "interrupted", Ceiling)
      PROVE  PlanInv'
  <2>1. /\ ran' \in [Step -> 0 .. MaxAttempts] /\ \A t \in Step \ {s} : ran'[t] = ran[t]
        /\ ran'[s] = IF s \in Idempotent THEN 0 ELSE 1
    BY <1>3, <1>5, <1>8, PlanAssumption
  <2>2. ran'[s] <= 1 /\ (s \in Idempotent => ran'[s] = 0)
    BY <2>1
  <2>3. CASE terminateAttempt(s, IF stop THEN "cancelled" ELSE "interrupted", Ceiling)
    <3>1. PICK o \in {"cancelled", "interrupted"} : terminateAttempt(s, o, Ceiling)
      BY <2>3
    <3> QED
      BY <1>1, <1>3, <1>6, <2>1, <2>2, <3>1, TerminateKeeps
  <2>4. CASE /\ work' = [work EXCEPT ![s].at = "result", ![s].used = u]
             /\ UNCHANGED <<journalVars, stop, events>>
    <3>1. work[s].lease \in 0 .. Ceiling
      BY <1>3 DEF WorkRow
    <3>2. u \in 0 .. Ceiling
      BY <1>3, <3>1
    <3>3. /\ work' \in [Step -> WorkRow] /\ work'[s].at = "result"
          /\ \A t \in Step \ {s} : work'[t] = work[t]
      BY <1>3, <2>4, <3>2 DEF WorkRow, WorkPositions
    <3>4. UNCHANGED <<input, plan, run, step, att, usage, made>>
      BY <2>4 DEF journalVars
    <3>5. Moves(s)
      BY <1>2, <1>6, <2>1, <3>3, <3>4 DEF Moves
    <3>6. StepInv(s)'
      BY <1>2, <1>4, <1>6, <2>2, <3>3, <3>4 DEF StepInv, Busy
    <3>7. stop' \in BOOLEAN /\ events' \in 0 .. MaxEvents
      BY <1>3, <2>4 DEF PlanInv, TypeOK
    <3> QED
      BY <1>3, <1>6, <2>1, <3>3, <3>4, <3>5, <3>6, <3>7, PlainMoveKeeps
  <2> QED
    BY <1>8, <2>3, <2>4
<1> QED
  BY <1>7, <1>8 DEF Execution

\* The outcome of a worker that ends its step.
LEMMA OutcomeKeeps ==
  ASSUME PlanInv, NEW s \in Step, work[s].at \in Busy,
         NEW o \in {"succeeded", "failed", "blocked", "cancelled"},
         att' \in [Step -> AttemptRow], att'[s].n = att[s].n,
         \A t \in Step \ {s} : att'[t] = att[t],
         att'[s].state \notin {"running", "verifying"},
         att'[s].state = "verified" <=> o = "succeeded",
         step' = [step EXCEPT ![s] = o], usage' \in Nat,
         Done(s, o), Signals(o), Commits,
         UNCHANGED <<input, plan, run, made, sup, resumed, abort, late, ran>>
  PROVE  PlanInv'
<1>1. /\ step[s] \in {"running", "verifying"} /\ s \notin resumed /\ sup # "crashed"
  BY BusyIsActive
<1>2. /\ step \in [Step -> StepStates] /\ work \in [Step -> WorkRow]
      /\ ran \in [Step -> 0 .. MaxAttempts] /\ events \in 0 .. MaxEvents
      /\ 0 \in 0 .. Ceiling
  BY TypeParts DEF WorkRow
<1>3. StepInv(s)
  BY DEF PlanInv
<1>4. /\ step' \in [Step -> StepStates] /\ step'[s] = o
      /\ \A t \in Step \ {s} : step'[t] = step[t]
  BY <1>2 DEF StepStates
<1>5. /\ work' \in [Step -> WorkRow] /\ work'[s].at = "done"
      /\ \A t \in Step \ {s} : work'[t] = work[t]
  BY <1>2 DEF Done, NoWork, WorkRow, WorkPositions, WorkOutcomes
<1>6. Moves(s)
  BY <1>1, <1>4, <1>5 DEF Moves
<1>7. StepInv(s)'
  BY <1>1, <1>3, <1>4, <1>5 DEF StepInv, Busy
<1>8. stop' \in BOOLEAN /\ events' \in 0 .. MaxEvents
  BY <1>2 DEF PlanInv, TypeOK, Signals, Commits
<1> QED
  BY <1>2, <1>4, <1>5, <1>6, <1>7, <1>8, PlainMoveKeeps

LEMMA ResultKeeps ==
  ASSUME PlanInv, NEW s \in Step, Result(s)
  PROVE  PlanInv'
<1>1. work[s].at = "result" /\ work[s].at \in Busy
  BY DEF Result, Busy
<1>2. /\ step[s] = "running" /\ att[s].state = "running" /\ s \notin resumed /\ sup # "crashed"
  BY <1>1, BusyIsActive
<1>3. /\ step \in [Step -> StepStates] /\ att \in [Step -> AttemptRow]
      /\ work \in [Step -> WorkRow] /\ ran \in [Step -> 0 .. MaxAttempts] /\ usage \in Nat
      /\ made \in Nat /\ events \in 0 .. MaxEvents /\ Ceiling \in Nat /\ 0 \in 0 .. Ceiling
  BY TypeParts DEF WorkRow
<1>4. StepInv(s)
  BY DEF PlanInv
<1>5. UNCHANGED <<sup, resumed, abort, late, ran>>
  BY DEF Result
<1>6. work[s].used \in Nat /\ work[s].read \in Nat
  BY <1>3 DEF WorkRow
<1>7. CASE /\ att' = [att EXCEPT ![s].state = "verifying", ![s].result = TRUE]
           /\ step' = [step EXCEPT ![s] = "verifying"]
           /\ usage' = usage + work[s].used
           /\ work' = [work EXCEPT ![s] = [NoWork EXCEPT !.at = "verify"]] /\ Commits
           /\ UNCHANGED <<input, plan, run, made, stop>>
  <2>1. /\ att' \in [Step -> AttemptRow] /\ att'[s].n = att[s].n /\ att'[s].state = "verifying"
        /\ \A t \in Step \ {s} : att'[t] = att[t]
    BY <1>3, <1>7 DEF AttemptRow, AttemptStates
  <2>2. /\ step' \in [Step -> StepStates] /\ step'[s] = "verifying"
        /\ \A t \in Step \ {s} : step'[t] = step[t]
    BY <1>3, <1>7 DEF StepStates
  <2>3. /\ work' \in [Step -> WorkRow] /\ work'[s].at = "verify"
        /\ \A t \in Step \ {s} : work'[t] = work[t]
    BY <1>3, <1>7 DEF NoWork, WorkRow, WorkPositions, WorkOutcomes
  <2>4. Moves(s)
    BY <1>2, <1>5, <1>7, <2>1, <2>2, <2>3 DEF Moves
  <2>5. StepInv(s)'
    BY <1>2, <1>4, <1>5, <2>1, <2>2, <2>3 DEF StepInv, Busy
  <2>6. stop' \in BOOLEAN /\ events' \in 0 .. MaxEvents /\ usage' \in Nat
    BY <1>3, <1>6, <1>7 DEF PlanInv, TypeOK, Commits
  <2> QED
    BY <1>3, <1>5, <1>7, <2>1, <2>2, <2>3, <2>4, <2>5, <2>6, PlainMoveKeeps
<1>8. CASE /\ RetryAllowed(s, work[s].read, work[s].used)
           /\ Retry(s, work[s].read, work[s].used)
           /\ usage' = usage + work[s].used /\ Commits
  <2>1. usage' \in Nat /\ UNCHANGED events
    BY <1>3, <1>6, <1>8 DEF Commits
  <2> QED
    BY <1>1, <1>5, <1>6, <1>8, <2>1, RetryKeeps
<1>9. ASSUME NEW o \in {"failed", "cancelled"},
             att' = [att EXCEPT ![s].state = IF o = "failed" THEN "execution_failed" ELSE o,
                               ![s].result = TRUE],
             step' = [step EXCEPT ![s] = o],
             usage' = usage + work[s].used,
             Done(s, o), Signals(o), Commits,
             UNCHANGED <<input, plan, run, made>>
      PROVE  PlanInv'
  <2>1. PICK c \in {"execution_failed", "cancelled"} :
          att' = [att EXCEPT ![s].state = c, ![s].result = TRUE]
    BY <1>9
  <2>2. /\ att' \in [Step -> AttemptRow] /\ att'[s].n = att[s].n /\ att'[s].state = c
        /\ \A t \in Step \ {s} : att'[t] = att[t]
    BY <1>3, <2>1 DEF AttemptRow, AttemptStates
  <2>3. usage' \in Nat
    BY <1>3, <1>6, <1>9
  <2> QED
    BY <1>1, <1>5, <1>9, <2>2, <2>3, OutcomeKeeps
<1>10. CASE Throws /\ At(s, "threw") /\ UNCHANGED stop
  BY <1>1, <1>5, <1>10, ThrowKeeps
<1> QED
  BY <1>7, <1>8, <1>9, <1>10 DEF Result

LEMMA VerdictKeeps ==
  ASSUME PlanInv, NEW s \in Step, Verdict(s)
  PROVE  PlanInv'
<1>1. work[s].at = "verify" /\ work[s].at \in Busy
  BY DEF Verdict, Busy
<1>2. /\ step \in [Step -> StepStates] /\ att \in [Step -> AttemptRow]
      /\ ran \in [Step -> 0 .. MaxAttempts] /\ usage \in Nat
  BY TypeParts
<1>3. ran[s] <= 1 /\ (s \in Idempotent => ran[s] = 0)
  BY DEF PlanInv, StepInv
<1>4. UNCHANGED <<sup, resumed, abort, late, ran>>
  BY DEF Verdict
<1>5. CASE terminateAttempt(s, "cancelled", 0)
  BY <1>1, <1>2, <1>3, <1>4, <1>5, TerminateKeeps
<1>6. CASE RetryAllowed(s, usage, 0) /\ Retry(s, usage, 0) /\ Commits /\ UNCHANGED usage
  <2>1. usage' \in Nat /\ UNCHANGED events /\ 0 \in Nat
    BY <1>2, <1>6 DEF Commits
  <2> QED
    BY <1>1, <1>2, <1>4, <1>6, <2>1, RetryKeeps
<1>7. ASSUME NEW o \in {"succeeded", "failed", "blocked"},
             att' = LastState(s, IF o = "succeeded" THEN "verified" ELSE "rejected"),
             step' = [step EXCEPT ![s] = o],
             Done(s, o), Signals(o), Commits,
             UNCHANGED <<input, plan, run, usage, made>>
      PROVE  PlanInv'
  <2>1. PICK c \in {"verified", "rejected"} :
          (c = "verified" <=> o = "succeeded") /\ att' = [att EXCEPT ![s].state = c]
    BY <1>7 DEF LastState
  <2>2. /\ att' \in [Step -> AttemptRow] /\ att'[s].n = att[s].n /\ att'[s].state = c
        /\ \A t \in Step \ {s} : att'[t] = att[t]
    BY <1>2, <2>1 DEF AttemptRow, AttemptStates
  <2> QED
    BY <1>1, <1>2, <1>4, <1>7, <2>1, <2>2, OutcomeKeeps
<1>8. CASE Throws /\ At(s, "threw") /\ UNCHANGED stop
  BY <1>1, <1>4, <1>8, ThrowKeeps
<1> QED
  BY <1>5, <1>6, <1>7, <1>8 DEF Verdict

(***************************************************************************)
(* The steps of the supervisor.                                             *)
(***************************************************************************)

\* A change that leaves the plan, its steps and their attempts alone.
LEMMA RestKeeps ==
  ASSUME PlanInv, TypeOK', \A t \in Step : StepInv(t)',
         UNCHANGED <<input, plan, run, step, att, made>>
  PROVE  PlanInv'
<1>1. att \in [Step -> AttemptRow] /\ step \in [Step -> StepStates]
  BY TypeParts
<1>2. Counted'
  BY <1>1, CountUnchanged
<1>3. DependenciesFirst' /\ ConflictKeysExclusive' /\ EndIsWhole'
  BY DEF PlanInv, DependenciesFirst, ConflictKeysExclusive, EndIsWhole, Active, ActiveAttempt
<1> QED
  BY <1>2, <1>3 DEF PlanInv

\* The supervisor moves to another position, and nothing else moves.
LEMMA PositionKeeps ==
  ASSUME PlanInv, sup # "crashed", sup' \in {"idle", "loop", "batch", "ended", "threw"},
         UNCHANGED <<journalVars, work, hostVars>>, events' \in 0 .. MaxEvents
  PROVE  PlanInv'
<1>1. UNCHANGED <<input, plan, run, step, att, usage, made, work, resumed, abort, stop, late, ran>>
  BY DEF journalVars, hostVars
<1>2. TypeOK'
  BY <1>1 DEF PlanInv, TypeOK
<1>3. \A t \in Step : StepInv(t)'
  <2> TAKE t \in Step
  <2>1. StepInv(t)
    BY DEF PlanInv
  <2> QED
    BY <1>1, <2>1 DEF StepInv
<1> QED
  BY <1>1, <1>2, <1>3, RestKeeps

\* The end of a plan in which nothing is active.
LEMMA TerminalKeeps ==
  ASSUME PlanInv, NEW state \in {"succeeded", "failed", "blocked", "cancelled"},
         Active = {}, Terminal(state), sup # "crashed", sup' = "ended", Commits,
         state = "succeeded" => \A s \in Step : step[s] = "succeeded",
         UNCHANGED <<work, hostVars>>
  PROVE  PlanInv'
<1>1. /\ plan' = [plan EXCEPT !.state = state]
      /\ UNCHANGED <<input, att, usage, made, work, resumed, abort, stop, late, ran, events>>
  BY DEF Terminal, hostVars, Commits
<1>2. plan \in [state : PlanStates, revision : 1 .. 2, idle : 0 .. 2]
  BY DEF PlanInv, TypeOK
<1>3. /\ plan' \in [state : PlanStates, revision : 1 .. 2, idle : 0 .. 2]
      /\ plan'.state = state /\ plan'.revision = plan.revision /\ plan'.idle = plan.idle
  BY <1>1, <1>2 DEF PlanStates
<1>4. /\ step \in [Step -> StepStates] /\ att \in [Step -> AttemptRow]
  BY TypeParts
<1>5. /\ step' \in [Step -> StepStates]
      /\ \A t \in Step : step'[t] = IF step[t] = "pending" THEN "cancelled" ELSE step[t]
  BY <1>4 DEF Terminal, StepStates
<1>6. \A t \in Step : step[t] \notin {"running", "verifying"}
  BY DEF Active
<1>7. run' \in {"running", "completed", "failed", "aborted", "interrupted"}
      /\ (input.owns => run' # "running")
  BY DEF Terminal, RunEnd, PlanInv, TypeOK
<1>8. TypeOK'
  BY <1>1, <1>3, <1>5, <1>7 DEF PlanInv, TypeOK
<1>9. \A t \in Step : StepInv(t)'
  <2> TAKE t \in Step
  <2>1. StepInv(t) /\ step[t] \notin {"running", "verifying"}
    BY <1>6 DEF PlanInv
  <2>2. step[t] = "pending" => att[t].state = "none"
    BY <2>1 DEF StepInv, NoAttempt
  <2>3. step'[t] = IF step[t] = "pending" THEN "cancelled" ELSE step[t]
    BY <1>5
  <2> QED
    BY <1>1, <2>1, <2>2, <2>3 DEF StepInv
<1>10. \A t \in Step : step'[t] \notin {"running", "verifying", "pending"}
  BY <1>5, <1>6
<1>11. DependenciesFirst'
  <2> SUFFICES ASSUME NEW t \in Step, step'[t] \in {"running", "verifying", "succeeded"},
                      NEW d \in Deps[t]
               PROVE  step'[d] = "succeeded"
    BY DEF DependenciesFirst
  <2>1. d \in Step
    BY PlanAssumption
  <2>2. step[t] = "succeeded"
    BY <1>5, <1>10
  <2>3. step[d] = "succeeded"
    BY <2>2 DEF PlanInv, DependenciesFirst
  <2> QED
    BY <1>5, <2>1, <2>3
<1>12. Active' = {}
  BY <1>10 DEF Active
<1>13. ConflictKeysExclusive'
  BY <1>12 DEF ConflictKeysExclusive
<1>14. \A t \in Step : ~ ActiveAttempt(t)'
  BY <1>9, <1>10 DEF StepInv, ActiveAttempt
<1>15. state = "succeeded" => \A t \in Step : att'[t].state = "verified"
  BY <1>1 DEF PlanInv, StepInv
<1>16. EndIsWhole'
  BY <1>1, <1>3, <1>7, <1>10, <1>12, <1>14, <1>15 DEF EndIsWhole
<1>17. Counted'
  BY <1>1, <1>3, <1>4, <1>5, CountUnchanged
<1> QED
  BY <1>8, <1>9, <1>11, <1>13, <1>16, <1>17 DEF PlanInv

LEMMA FinalizeKeeps ==
  ASSUME PlanInv, NEW state \in {"succeeded", "failed", "blocked", "cancelled"},
         finalize(state), sup # "crashed",
         state = "succeeded" => \A s \in Step : step[s] = "succeeded",
         UNCHANGED <<work, hostVars>>
  PROVE  PlanInv'
<1>1. events \in 0 .. MaxEvents
  BY TypeParts
<1>2. CASE Active = {} /\ Terminal(state) /\ sup' = "ended" /\ Commits
  BY <1>2, TerminalKeeps
<1>3. CASE sup' \in {"ended", "threw"} /\ UNCHANGED journalVars /\ Commits
  BY <1>1, <1>3, PositionKeeps DEF Commits
<1>4. CASE Throws /\ sup' = "threw"
  <2>1. events' \in 0 .. MaxEvents /\ UNCHANGED journalVars
    BY <1>1, <1>4, PlanAssumption DEF Throws, Happens
  <2> QED
    BY <1>4, <2>1, PositionKeeps
<1> QED
  BY <1>2, <1>3, <1>4 DEF finalize

\* The work of the steps that begin, and of the others.
LEMMA BeginsWork ==
  ASSUME PlanInv, NEW S \in SUBSET Step, NEW lease, \A s \in S : lease[s] \in 0 .. Ceiling,
         Begins(S, lease)
  PROVE  /\ work' \in [Step -> WorkRow]
         /\ \A s \in S : work'[s].at = "begin"
         /\ \A s \in Step \ S : work'[s].at = "none" \/ work'[s] = work[s]
<1>1. work \in [Step -> WorkRow] /\ 0 \in 0 .. Ceiling
  BY TypeParts DEF WorkRow
<1>2. \A l \in 0 .. Ceiling : /\ [NoWork EXCEPT !.at = "begin", !.lease = l] \in WorkRow
                              /\ [NoWork EXCEPT !.at = "begin", !.lease = l].at = "begin"
  BY <1>1 DEF NoWork, WorkRow, WorkPositions, WorkOutcomes
<1>3. NoWork \in WorkRow /\ NoWork.at = "none"
  BY <1>1 DEF NoWork, WorkRow, WorkPositions, WorkOutcomes
<1> DEFINE row(s) == IF s \in S THEN [NoWork EXCEPT !.at = "begin", !.lease = lease[s]]
                     ELSE IF work[s].at \in {"done", "threw"} THEN NoWork ELSE work[s]
<1>4. work' = [s \in Step |-> row(s)]
  BY DEF Begins
<1>5. \A s \in S : row(s) \in WorkRow /\ row(s).at = "begin"
  BY <1>2
<1>6. \A s \in Step \ S : row(s) \in WorkRow /\ (row(s).at = "none" \/ row(s) = work[s])
  BY <1>1, <1>3
<1>7. \A s \in Step : work'[s] = row(s)
  BY <1>4
<1> HIDE DEF row
<1> QED
  BY <1>4, <1>5, <1>6, <1>7

LEMMA ExecuteKeeps ==
  ASSUME PlanInv, Execute
  PROVE  PlanInv'
<1>1. /\ sup \in {"idle", "threw"} /\ stop' = abort
      /\ UNCHANGED <<input, run, step, att, usage, made, abort, late, ran>>
  BY DEF Execute
<1>2. events \in 0 .. MaxEvents /\ step \in [Step -> StepStates] /\ att \in [Step -> AttemptRow]
      /\ work \in [Step -> WorkRow]
  BY TypeParts DEF WorkRow
<1>3. CASE /\ plan.state = "draft" /\ plan' = [plan EXCEPT !.state = "running"]
           /\ sup' = "loop" /\ UNCHANGED <<work, resumed>> /\ Commits
  <2>1. plan \in [state : PlanStates, revision : 1 .. 2, idle : 0 .. 2]
    BY DEF PlanInv, TypeOK
  <2>2. /\ plan' \in [state : PlanStates, revision : 1 .. 2, idle : 0 .. 2]
        /\ plan'.state = "running" /\ plan'.revision = plan.revision
    BY <1>3, <2>1 DEF PlanStates
  <2>3. TypeOK'
    BY <1>1, <1>3, <2>2 DEF PlanInv, TypeOK, Commits
  <2>4. \A t \in Step : StepInv(t)'
    <3> TAKE t \in Step
    <3>1. StepInv(t)
      BY DEF PlanInv
    <3> QED
      BY <1>1, <1>3, <3>1 DEF StepInv
  <2>5. Counted'
    BY <1>1, <1>2, <2>2, CountUnchanged
  <2>6. DependenciesFirst' /\ ConflictKeysExclusive'
    BY <1>1 DEF PlanInv, DependenciesFirst, ConflictKeysExclusive, Active
  <2>7. EndIsWhole'
    BY <2>2 DEF EndIsWhole
  <2> QED
    BY <2>3, <2>4, <2>5, <2>6, <2>7 DEF PlanInv
<1>4. CASE /\ resumed = {} /\ UNCHANGED <<plan, work, resumed>>
           /\ sup' = "loop" /\ Commits
  <2>1. TypeOK'
    BY <1>1, <1>4 DEF PlanInv, TypeOK, Commits
  <2>2. \A t \in Step : StepInv(t)'
    <3> TAKE t \in Step
    <3>1. StepInv(t)
      BY DEF PlanInv
    <3> QED
      BY <1>1, <1>4, <3>1 DEF StepInv
  <2> QED
    BY <1>1, <1>4, <2>1, <2>2, RestKeeps
<1>5. CASE /\ UNCHANGED plan /\ resumed' = {} /\ Commits
           /\ Begins(resumed, [s \in Step |-> Ceiling]) /\ sup' = "batch"
  <2> DEFINE lease == [s \in Step |-> Ceiling]
  <2>1. resumed \in SUBSET Step
    BY DEF PlanInv, TypeOK
  <2>2. \A s \in resumed : lease[s] \in 0 .. Ceiling
    BY <2>1, PlanAssumption
  <2>3. Begins(resumed, lease)
    BY <1>5
  <2> HIDE DEF lease
  <2>4. /\ work' \in [Step -> WorkRow]
        /\ \A s \in resumed : work'[s].at = "begin"
        /\ \A s \in Step \ resumed : work'[s].at = "none" \/ work'[s] = work[s]
    BY <2>1, <2>2, <2>3, BeginsWork
  <2>5. TypeOK'
    BY <1>1, <1>5, <2>4 DEF PlanInv, TypeOK, Commits, WorkRow
  <2>6. \A t \in Step : StepInv(t)'
    <3> TAKE t \in Step
    <3>1. StepInv(t)
      BY DEF PlanInv
    <3>2. CASE t \in resumed
      BY <1>1, <1>5, <2>4, <3>1, <3>2 DEF StepInv, Busy
    <3>3. CASE t \notin resumed /\ work'[t].at = "none"
      BY <1>1, <1>5, <3>1, <3>3 DEF StepInv, Busy
    <3>4. CASE t \notin resumed /\ work'[t] = work[t]
      BY <1>1, <1>5, <3>1, <3>4 DEF StepInv, Busy
    <3> QED
      BY <2>4, <3>2, <3>3, <3>4
  <2> QED
    BY <1>1, <1>5, <2>5, <2>6, RestKeeps
<1>6. CASE /\ UNCHANGED plan /\ resumed' = {} /\ Commits
           /\ UNCHANGED work /\ sup' = "threw"
  <2>1. TypeOK'
    BY <1>1, <1>6 DEF PlanInv, TypeOK, Commits
  <2>2. \A t \in Step : StepInv(t)'
    <3> TAKE t \in Step
    <3>1. StepInv(t)
      BY DEF PlanInv
    <3> QED
      BY <1>1, <1>6, <3>1 DEF StepInv
  <2> QED
    BY <1>1, <1>6, <2>1, <2>2, RestKeeps
<1> QED
  BY <1>3, <1>4, <1>5, <1>6 DEF Execute

\* A selection is free of conflicts and within its number.
LEMMA SelectionFree ==
  ASSUME NEW ready \in SUBSET Step, NEW n \in Nat, NEW chosen \in Select(ready, n)
  PROVE  /\ chosen \subseteq ready /\ Cardinality(chosen) <= n
         /\ \A s, t \in chosen : s # t => Keys[s] \cap Keys[t] = {}
<1>1. /\ chosen \subseteq ready
      /\ \A s \in chosen : LET before == {t \in chosen : t < s}
                           IN Cardinality(before) < n /\ Free(s, before)
  BY DEF Select
<1>2. chosen \in SUBSET Step
  BY <1>1
<1>3. \A s \in chosen : Cardinality({t \in chosen : t < s}) < n
  BY <1>1
<1>4. Cardinality(chosen) <= n
  BY <1>2, <1>3, CountedInOrder
<1>5. \A s, t \in chosen : t < s => Keys[s] \cap Keys[t] = {}
  BY <1>1 DEF Free
<1>6. \A s, t \in chosen : s # t => s < t \/ t < s
  BY <1>2, PlanAssumption
<1>7. \A s, t \in chosen : s # t => Keys[s] \cap Keys[t] = {}
  BY <1>5, <1>6
<1> QED
  BY <1>1, <1>4, <1>7

\* A batch that is claimed.
LEMMA ClaimKeeps ==
  ASSUME PlanInv, plan.state = "running", sup = "loop", Claim, UNCHANGED hostVars
  PROVE  PlanInv'
<1>1. PICK chosen \in Chosen \ {{}} :
     \/ /\ att' = [s \in Step |-> IF s \in chosen THEN NewAttempt(s) ELSE att[s]]
        /\ step' = [s \in Step |-> IF s \in chosen THEN "running" ELSE step[s]]
        /\ made' = made + Cardinality(chosen)
        /\ \E lease \in Leases(chosen, RemainingTurns) : Begins(chosen, lease)
        /\ sup' = "batch"
        /\ Commits
        /\ UNCHANGED <<input, plan, run, usage>>
     \/ Throws /\ sup' = "threw" /\ UNCHANGED work
  BY DEF Claim
<1>2. events \in 0 .. MaxEvents /\ step \in [Step -> StepStates] /\ att \in [Step -> AttemptRow]
      /\ work \in [Step -> WorkRow] /\ made \in Nat
  BY TypeParts DEF WorkRow
<1>3. Active = {}
  BY DEF Claim
<1>4. UNCHANGED <<resumed, abort, stop, late, ran>>
  BY DEF hostVars
<1>5. CASE Throws /\ sup' = "threw" /\ UNCHANGED work
  <2>1. events' \in 0 .. MaxEvents /\ UNCHANGED journalVars
    BY <1>2, <1>5, PlanAssumption DEF Throws, Happens
  <2> QED
    BY <1>5, <2>1, PositionKeeps
<1>6. CASE /\ att' = [s \in Step |-> IF s \in chosen THEN NewAttempt(s) ELSE att[s]]
           /\ step' = [s \in Step |-> IF s \in chosen THEN "running" ELSE step[s]]
           /\ made' = made + Cardinality(chosen)
           /\ \E lease \in Leases(chosen, RemainingTurns) : Begins(chosen, lease)
           /\ sup' = "batch"
           /\ Commits
           /\ UNCHANGED <<input, plan, run, usage>>
  <2>1. Attempts \in Nat
    BY AttemptsAre, AttemptsFinite
  <2>2. Capacity \in Nat /\ (Capacity > 0 => Attempts + Capacity <= MaxChildRuns)
    BY <2>1, PlanAssumption DEF Capacity, Min2, Less
  <2>3. PICK n \in Nat : n \in {0, Capacity} /\ chosen \in Select(Ready \ late, n)
    <3>1. CASE RemainingTurns = 0
      BY <2>2, <3>1 DEF Chosen
    <3>2. CASE RemainingTurns # 0
      BY <2>2, <3>2 DEF Chosen
    <3> QED
      BY <3>1, <3>2
  <2>4. Ready \ late \in SUBSET Step
    BY DEF Ready
  <2>5. /\ chosen \subseteq Ready \ late /\ Cardinality(chosen) <= n
        /\ \A s, t \in chosen : s # t => Keys[s] \cap Keys[t] = {}
    BY <2>3, <2>4, SelectionFree
  <2>6. chosen \in SUBSET Step /\ chosen # {}
    BY <2>4, <2>5
  <2>7. Cardinality(chosen) \in Nat /\ Cardinality(chosen) # 0
    BY <2>6, StepsFinite, FS_EmptySet
  <2>8. Attempts + Cardinality(chosen) <= MaxChildRuns
    BY <2>1, <2>2, <2>3, <2>5, <2>7, PlanAssumption
  <2>9. \A s \in chosen : /\ step[s] = "pending" /\ att[s].n < MaxAttempts
                          /\ \A d \in Deps[s] : step[d] = "succeeded"
    BY <2>5 DEF Ready
  <2>10. \A s \in chosen : /\ NewAttempt(s) \in AttemptRow /\ NewAttempt(s).n = att[s].n + 1
                           /\ NewAttempt(s).state = "running"
    <3> TAKE s \in chosen
    <3>1. s \in Step /\ att[s] \in AttemptRow /\ att[s].n < MaxAttempts
      BY <1>2, <2>6, <2>9
    <3> QED
      BY <3>1, NewAttemptType
  <2>11. /\ att' \in [Step -> AttemptRow]
         /\ \A s \in chosen : att'[s].n = att[s].n + 1 /\ att'[s].state = "running"
         /\ \A s \in Step \ chosen : att'[s] = att[s]
    <3> DEFINE row(s) == IF s \in chosen THEN NewAttempt(s) ELSE att[s]
    <3>1. att' = [s \in Step |-> row(s)]
      BY <1>6
    <3>2. \A s \in Step : row(s) \in AttemptRow
      BY <1>2, <2>10
    <3>3. \A s \in Step : att'[s] = row(s)
      BY <3>1
    <3>4. \A s \in chosen : row(s).n = att[s].n + 1 /\ row(s).state = "running"
      BY <2>10
    <3>5. \A s \in Step \ chosen : row(s) = att[s]
      OBVIOUS
    <3> HIDE DEF row
    <3> QED
      BY <2>6, <3>1, <3>2, <3>3, <3>4, <3>5
  <2>12. /\ step' \in [Step -> StepStates]
         /\ \A s \in chosen : step'[s] = "running"
         /\ \A s \in Step \ chosen : step'[s] = step[s]
    BY <1>2, <1>6, <2>6 DEF StepStates
  <2>13. /\ work' \in [Step -> WorkRow]
         /\ \A s \in chosen : work'[s].at = "begin"
         /\ \A s \in Step \ chosen : work'[s].at = "none" \/ work'[s] = work[s]
    <3>1. PICK lease \in Leases(chosen, RemainingTurns) : Begins(chosen, lease)
      BY <1>6
    <3>2. lease \in [chosen -> 0 .. Ceiling]
      BY <3>1 DEF Leases
    <3>3. \A s \in chosen : lease[s] \in 0 .. Ceiling
      BY <3>2
    <3> QED
      BY <2>6, <3>1, <3>3, BeginsWork
  <2>14. Counted'
    <3>1. /\ \A s \in chosen : step[s] # "succeeded" /\ att'[s].n = att[s].n + 1
          /\ \A s \in Step \ chosen : att'[s].n = att[s].n
          /\ \A s \in Step : step[s] = "succeeded" => step'[s] = "succeeded"
      BY <2>9, <2>11, <2>12
    <3> QED
      BY <1>6, <2>6, <2>8, <2>11, <2>12, <3>1, CountKept
  <2>15. TypeOK'
    <3>1. made' \in 0 .. MaxChildRuns
      BY <1>2, <1>6, <2>7, <2>14, PlanAssumption DEF Counted
    <3> QED
      BY <1>4, <1>6, <2>11, <2>12, <2>13, <3>1 DEF PlanInv, TypeOK, Commits, WorkRow
  <2>16. \A t \in Step : StepInv(t)'
    <3> TAKE t \in Step
    <3>1. StepInv(t)
      BY DEF PlanInv
    <3>2. CASE t \in chosen
      <4>1. /\ step[t] = "pending" /\ step'[t] = "running" /\ att'[t].state = "running"
            /\ work'[t].at = "begin"
        BY <2>9, <2>11, <2>12, <2>13, <3>2
      <4> QED
        BY <1>4, <1>6, <3>1, <4>1 DEF StepInv, Busy
    <3>3. CASE t \notin chosen /\ work'[t].at = "none"
      <4>1. step'[t] = step[t] /\ att'[t] = att[t]
        BY <2>11, <2>12, <3>3
      <4> QED
        BY <1>4, <1>6, <3>1, <3>3, <4>1 DEF StepInv, Busy
    <3>4. CASE t \notin chosen /\ work'[t] = work[t]
      <4>1. step'[t] = step[t] /\ att'[t] = att[t]
        BY <2>11, <2>12, <3>4
      <4> QED
        BY <1>4, <1>6, <3>1, <3>4, <4>1 DEF StepInv, Busy
    <3> QED
      BY <2>13, <3>2, <3>3, <3>4
  <2>17. DependenciesFirst'
    <3> SUFFICES ASSUME NEW t \in Step, step'[t] \in {"running", "verifying", "succeeded"},
                        NEW d \in Deps[t]
                 PROVE  step'[d] = "succeeded"
      BY DEF DependenciesFirst
    <3>1. d \in Step
      BY PlanAssumption
    <3>2. step[d] = "succeeded"
      <4>1. CASE t \in chosen
        BY <2>9, <4>1
      <4>2. CASE t \notin chosen
        <5>1. step[t] \in {"running", "verifying", "succeeded"}
          BY <2>12, <4>2
        <5> QED
          BY <5>1 DEF PlanInv, DependenciesFirst
      <4> QED
        BY <4>1, <4>2
    <3>3. d \notin chosen
      BY <2>9, <3>2
    <3> QED
      BY <2>12, <3>1, <3>2, <3>3
  <2>18. Active' \subseteq chosen
    <3>1. \A t \in Step : step[t] \notin {"running", "verifying"}
      BY <1>3 DEF Active
    <3> QED
      BY <2>12, <3>1 DEF Active
  <2>19. ConflictKeysExclusive'
    BY <2>5, <2>18 DEF ConflictKeysExclusive
  <2>20. EndIsWhole'
    BY <1>6 DEF EndIsWhole
  <2> QED
    BY <2>14, <2>15, <2>16, <2>17, <2>19, <2>20 DEF PlanInv
<1> QED
  BY <1>1, <1>5, <1>6

LEMMA SettlesKeeps ==
  ASSUME PlanInv, sup = "loop", Settles, UNCHANGED hostVars
  PROVE  PlanInv'
<1>1. PICK state \in {"succeeded", "failed", "blocked", "cancelled"} :
        /\ finalize(state)
        /\ state = "succeeded" => \A s \in Step : step[s] = "succeeded"
  <2>1. CASE \A s \in Step : step[s] = "succeeded"
    BY <2>1 DEF Settles
  <2>2. CASE ~ (\A s \in Step : step[s] = "succeeded")
    <3>1. CASE \E s \in Step : step[s] \in {"failed", "interrupted"}
      BY <2>2, <3>1 DEF Settles
    <3>2. CASE ~ \E s \in Step : step[s] \in {"failed", "interrupted"}
      BY <2>2, <3>2 DEF Settles
    <3> QED
      BY <3>1, <3>2
  <2> QED
    BY <2>1, <2>2
<1>2. UNCHANGED work
  BY DEF Settles
<1> QED
  BY <1>1, <1>2, FinalizeKeeps

LEMMA ScheduleKeeps ==
  ASSUME PlanInv, Schedule
  PROVE  PlanInv'
<1>1. sup = "loop" /\ plan.state = "running" /\ UNCHANGED hostVars
  BY DEF Schedule
<1>2. CASE finalize("cancelled") /\ UNCHANGED work
  BY <1>1, <1>2, FinalizeKeeps
<1>3. CASE sup' = "threw" /\ Commits /\ UNCHANGED <<journalVars, work>>
  <2>1. events' \in 0 .. MaxEvents
    BY <1>3, TypeParts DEF Commits
  <2> QED
    BY <1>1, <1>3, <2>1, PositionKeeps
<1>4. CASE Claim
  BY <1>1, <1>4, ClaimKeeps
<1>5. CASE Settles
  BY <1>1, <1>5, SettlesKeeps
<1> QED
  BY <1>2, <1>3, <1>4, <1>5 DEF Schedule

LEMMA OvertakenKeeps ==
  ASSUME PlanInv, Overtaken
  PROVE  PlanInv'
<1>1. events \in 0 .. MaxEvents
  BY TypeParts
<1> QED
  BY <1>1, PositionKeeps DEF Overtaken

LEMMA JoinKeeps ==
  ASSUME PlanInv, Join
  PROVE  PlanInv'
<1>1. sup = "batch" /\ UNCHANGED <<work, hostVars>>
  BY DEF Join
<1>2. events \in 0 .. MaxEvents
  BY TypeParts
<1>3. CASE sup' \in {"threw", "loop"} /\ Commits /\ UNCHANGED journalVars
  BY <1>1, <1>2, <1>3, PositionKeeps DEF Commits
<1>4. CASE finalize("cancelled")
  BY <1>1, <1>4, FinalizeKeeps
<1>5. CASE finalize(BatchEnd)
  <2>1. PICK state \in {"blocked", "failed", "cancelled"} : finalize(state)
    BY <1>5 DEF BatchEnd
  <2> QED
    BY <1>1, <2>1, FinalizeKeeps
<1> QED
  BY <1>3, <1>4, <1>5 DEF Join

(***************************************************************************)
(* Crash, recovery and revision.                                            *)
(***************************************************************************)

LEMMA CrashKeeps ==
  ASSUME PlanInv, Crash
  PROVE  PlanInv'
<1>1. /\ sup' = "crashed" /\ work' = [s \in Step |-> NoWork] /\ resumed' = {}
      /\ abort' = FALSE /\ stop' = FALSE
      /\ UNCHANGED <<input, plan, run, step, att, usage, made, late, ran>>
  BY DEF Crash, journalVars
<1>2. events' \in 0 .. MaxEvents /\ 0 \in 0 .. Ceiling
  BY TypeParts, PlanAssumption DEF Crash, Happens
<1>3. NoWork \in WorkRow
  BY <1>2 DEF NoWork, WorkRow, WorkPositions, WorkOutcomes
<1>4. work' \in [Step -> WorkRow] /\ \A t \in Step : work'[t].at = "none"
  BY <1>1, <1>3 DEF NoWork
<1>5. TypeOK'
  BY <1>1, <1>2, <1>4 DEF PlanInv, TypeOK, WorkRow
<1>6. \A t \in Step : StepInv(t)'
  <2> TAKE t \in Step
  <2>1. StepInv(t) /\ work'[t].at = "none"
    BY <1>4 DEF PlanInv
  <2> QED
    BY <1>1, <2>1 DEF StepInv, Busy
<1> QED
  BY <1>1, <1>5, <1>6, RestKeeps

\* The attempts of active steps are the candidates.
LEMMA CandidatesAreActive ==
  ASSUME PlanInv
  PROVE  Candidates = Active /\ \A s \in Step : ActiveAttempt(s) <=> step[s] \in {"running", "verifying"}
BY DEF PlanInv, StepInv, Candidates, Active, ActiveAttempt

\* What recovery reschedules is idempotent, free of conflicts and within the limits.
LEMMA RescheduledFree ==
  ASSUME NEW ok, NEW kept \in Rescheduled(ok)
  PROVE  /\ kept \subseteq Candidates
         /\ \A s \in kept : s \in Idempotent /\ att[s].n < MaxAttempts
         /\ kept # {} => Attempts + Cardinality(kept) <= MaxChildRuns
         /\ \A s, t \in kept : s # t => Keys[s] \cap Keys[t] = {}
<1>1. kept \subseteq Candidates /\ kept \in SUBSET Step
  BY DEF Rescheduled, Candidates
<1>2. \A s \in kept : LET before == {t \in kept : t < s}
                          spent == Cardinality({t \in Unknown : t <= s}) + Cardinality(before)
                      IN Reschedulable(s, before, Less(RemainingTurns, Ceiling * spent))
  BY <1>1 DEF Rescheduled
<1>3. \A s \in kept : LET before == {t \in kept : t < s}
                      IN /\ s \in Idempotent /\ att[s].n < MaxAttempts
                         /\ Cardinality(before) < Less(MaxChildRuns, Attempts)
                         /\ Free(s, before)
  BY <1>2 DEF Reschedulable
<1>4. Attempts \in Nat
  BY AttemptsAre, AttemptsFinite
<1>n. Less(MaxChildRuns, Attempts) \in Nat
  BY <1>4, PlanAssumption DEF Less
<1>5. PICK n \in Nat : n = Less(MaxChildRuns, Attempts)
  BY <1>n
<1>6. \A s \in kept : Cardinality({t \in kept : t < s}) < n
  BY <1>3, <1>5
<1>7. Cardinality(kept) <= n
  BY <1>1, <1>6, CountedInOrder
<1>8. Cardinality(kept) \in Nat /\ (kept # {} => Cardinality(kept) # 0)
  BY <1>1, StepsFinite, FS_EmptySet
<1>9. kept # {} => Attempts + Cardinality(kept) <= MaxChildRuns
  BY <1>4, <1>5, <1>7, <1>8, PlanAssumption DEF Less
<1>10. \A s, t \in kept : t < s => Keys[s] \cap Keys[t] = {}
  BY <1>3 DEF Free
<1>11. \A s, t \in kept : s # t => s < t \/ t < s
  BY <1>1, PlanAssumption
<1>12. \A s, t \in kept : s # t => Keys[s] \cap Keys[t] = {}
  BY <1>10, <1>11
<1> QED
  BY <1>1, <1>3, <1>9, <1>12

LEMMA RecoverKeeps ==
  ASSUME PlanInv, Recover
  PROVE  PlanInv'
<1>1. /\ sup = "crashed" /\ plan.state = "running"
      /\ UNCHANGED <<work, abort, stop, late, ran>>
  BY DEF Recover
<1>2. events \in 0 .. MaxEvents /\ step \in [Step -> StepStates] /\ att \in [Step -> AttemptRow]
      /\ made \in Nat /\ usage \in Nat
  BY TypeParts
<1>3. CASE Throws /\ UNCHANGED <<sup, resumed>>
  <2>1. /\ events' \in 0 .. MaxEvents
        /\ UNCHANGED <<input, plan, run, step, att, usage, made>>
    BY <1>2, <1>3, PlanAssumption DEF Throws, Happens, journalVars
  <2>2. TypeOK'
    BY <1>1, <1>3, <2>1 DEF PlanInv, TypeOK
  <2>3. \A t \in Step : StepInv(t)'
    <3> TAKE t \in Step
    <3>1. StepInv(t)
      BY DEF PlanInv
    <3> QED
      BY <1>1, <1>3, <2>1, <3>1 DEF StepInv
  <2> QED
    BY <2>1, <2>2, <2>3, RestKeeps
<1>4. ASSUME NEW ok, NEW kept \in Rescheduled(ok), Recovered(kept), Commits, sup' = "idle"
      PROVE  PlanInv'
  <2>1. /\ kept \subseteq Candidates
        /\ \A s \in kept : s \in Idempotent /\ att[s].n < MaxAttempts
        /\ kept # {} => Attempts + Cardinality(kept) <= MaxChildRuns
        /\ \A s, t \in kept : s # t => Keys[s] \cap Keys[t] = {}
    BY RescheduledFree
  <2>2. /\ Candidates = Active
        /\ \A s \in Step : ActiveAttempt(s) <=> step[s] \in {"running", "verifying"}
    BY CandidatesAreActive
  <2>3. Candidates \subseteq Step /\ kept \in SUBSET Step
    BY <2>1 DEF Candidates
  <2>4. \A s \in kept : /\ [NewAttempt(s) EXCEPT !.bound = TRUE] \in AttemptRow
                        /\ [NewAttempt(s) EXCEPT !.bound = TRUE].n = att[s].n + 1
                        /\ [NewAttempt(s) EXCEPT !.bound = TRUE].state = "running"
    <3> TAKE s \in kept
    <3>1. s \in Step /\ att[s] \in AttemptRow /\ att[s].n < MaxAttempts
      BY <1>2, <2>1, <2>3
    <3>2. [NewAttempt(s) EXCEPT !.bound = TRUE] \in AttemptRow
      BY <3>1, NewAttemptType
    <3> QED
      BY <3>2 DEF NewAttempt
  <2>5. /\ att' \in [Step -> AttemptRow]
        /\ \A s \in kept : att'[s].n = att[s].n + 1 /\ att'[s].state = "running"
        /\ \A s \in Candidates \ kept : att'[s].n = att[s].n /\ att'[s].state = "interrupted"
        /\ \A s \in Step \ Candidates : att'[s] = att[s]
    <3> DEFINE row(s) == IF s \notin Candidates THEN att[s]
                         ELSE IF s \in kept THEN [NewAttempt(s) EXCEPT !.bound = TRUE]
                         ELSE [att[s] EXCEPT !.state = "interrupted"]
    <3>1. att' = [s \in Step |-> row(s)]
      BY <1>4 DEF Recovered
    <3>2. \A s \in Step : /\ [att[s] EXCEPT !.state = "interrupted"] \in AttemptRow
                          /\ [att[s] EXCEPT !.state = "interrupted"].n = att[s].n
                          /\ [att[s] EXCEPT !.state = "interrupted"].state = "interrupted"
      BY <1>2 DEF AttemptRow, AttemptStates
    <3>3. \A s \in kept : row(s) = [NewAttempt(s) EXCEPT !.bound = TRUE]
      BY <2>1
    <3>4. \A s \in Candidates \ kept : row(s) = [att[s] EXCEPT !.state = "interrupted"]
      OBVIOUS
    <3>5. \A s \in Step \ Candidates : row(s) = att[s]
      OBVIOUS
    <3>6. \A s \in Step : row(s) \in AttemptRow
      BY <1>2, <2>4, <3>2, <3>3, <3>4, <3>5
    <3>7. \A s \in Step : att'[s] = row(s)
      BY <3>1
    <3> HIDE DEF row
    <3>8. \A s \in kept : att'[s].n = att[s].n + 1 /\ att'[s].state = "running"
      BY <2>3, <2>4, <3>3, <3>7
    <3>9. \A s \in Candidates \ kept : att'[s].n = att[s].n /\ att'[s].state = "interrupted"
      <4> TAKE s \in Candidates \ kept
      <4>1. s \in Step
        BY <2>3
      <4>2. att'[s] = [att[s] EXCEPT !.state = "interrupted"]
        BY <3>4, <3>7, <4>1
      <4> QED
        BY <3>2, <4>1, <4>2
    <3> QED
      BY <3>1, <3>5, <3>6, <3>7, <3>8, <3>9
  <2>6. /\ step' \in [Step -> StepStates]
        /\ \A s \in kept : step'[s] = "running"
        /\ \A s \in Candidates \ kept : step'[s] = "blocked"
        /\ \A s \in Step \ Candidates : step'[s] = step[s]
    BY <1>2, <1>4, <2>1, <2>3 DEF Recovered, StepStates
  <2>7. /\ usage' = usage + Ceiling * Cardinality(Unknown)
        /\ made' = made + Cardinality(kept)
        /\ resumed' = kept /\ UNCHANGED <<input, plan, run, events>>
    BY <1>4 DEF Recovered, Commits
  <2>8. usage' \in Nat
    <3>1. Unknown \in SUBSET Step
      BY <2>3 DEF Unknown
    <3>2. Cardinality(Unknown) \in Nat
      BY <3>1, StepsFinite
    <3>3. Ceiling * Cardinality(Unknown) \in Nat
      BY <3>2, PlanAssumption
    <3> QED
      BY <1>2, <2>7, <3>3
  <2>9. \A s \in Candidates : step[s] \in {"running", "verifying"}
    BY <2>2 DEF Active
  <2>10. Counted'
    <3>1. /\ \A s \in kept : step[s] # "succeeded" /\ att'[s].n = att[s].n + 1
          /\ \A s \in Step \ kept : att'[s].n = att[s].n
          /\ \A s \in Step : step[s] = "succeeded" => step'[s] = "succeeded"
      BY <2>1, <2>5, <2>6, <2>9
    <3> QED
      BY <2>1, <2>3, <2>5, <2>6, <2>7, <3>1, CountKept
  <2>11. TypeOK'
    <3>1. Cardinality(kept) \in Nat
      BY <2>3, StepsFinite
    <3>2. made' \in 0 .. MaxChildRuns
      BY <1>2, <2>7, <2>10, <3>1, PlanAssumption DEF Counted
    <3> QED
      BY <1>1, <1>4, <2>3, <2>5, <2>6, <2>7, <2>8, <3>2 DEF PlanInv, TypeOK
  <2>12. \A t \in Step : StepInv(t)'
    <3> TAKE t \in Step
    <3>1. StepInv(t) /\ work[t].at = "none"
      BY <1>1 DEF PlanInv, StepInv
    <3>2. CASE t \in kept
      <4>1. /\ step'[t] = "running" /\ att'[t].state = "running" /\ t \in Idempotent
            /\ t \in resumed'
        BY <2>1, <2>5, <2>6, <2>7, <3>2
      <4> QED
        BY <1>1, <1>4, <3>1, <4>1 DEF StepInv, Busy
    <3>3. CASE t \in Candidates \ kept
      <4>1. step'[t] = "blocked" /\ att'[t].state = "interrupted" /\ t \notin resumed'
        BY <2>5, <2>6, <2>7, <3>3
      <4> QED
        BY <1>1, <1>4, <3>1, <4>1 DEF StepInv, Busy
    <3>4. CASE t \notin Candidates
      <4>1. step'[t] = step[t] /\ att'[t] = att[t] /\ t \notin resumed'
        BY <2>1, <2>5, <2>6, <2>7, <3>4
      <4> QED
        BY <1>1, <1>4, <3>1, <4>1 DEF StepInv, Busy
    <3> QED
      BY <3>2, <3>3, <3>4
  <2>13. \A t \in Step : step[t] = "succeeded" => step'[t] = "succeeded"
    BY <2>6, <2>9
  <2>14. \A t \in Step : step'[t] \in {"running", "verifying", "succeeded"} =>
           step[t] \in {"running", "verifying", "succeeded"}
    BY <2>1, <2>6, <2>9
  <2>15. DependenciesFirst'
    <3> SUFFICES ASSUME NEW t \in Step, step'[t] \in {"running", "verifying", "succeeded"},
                        NEW d \in Deps[t]
                 PROVE  step'[d] = "succeeded"
      BY DEF DependenciesFirst
    <3>1. d \in Step
      BY PlanAssumption
    <3>2. step[d] = "succeeded"
      BY <2>14 DEF PlanInv, DependenciesFirst
    <3> QED
      BY <2>13, <3>1, <3>2
  <2>16. Active' \subseteq kept
    <3>1. \A t \in Step \ Candidates : step[t] \notin {"running", "verifying"}
      BY <2>2 DEF Active
    <3> QED
      BY <2>6, <3>1 DEF Active
  <2>17. ConflictKeysExclusive'
    BY <2>1, <2>16 DEF ConflictKeysExclusive
  <2>18. EndIsWhole'
    BY <1>1, <2>7 DEF EndIsWhole
  <2> QED
    BY <2>10, <2>11, <2>12, <2>15, <2>17, <2>18 DEF PlanInv
<1> QED
  BY <1>3, <1>4 DEF Recover

LEMMA InterruptRunKeeps ==
  ASSUME PlanInv, InterruptRun
  PROVE  PlanInv'
<1>1. /\ run' = "interrupted" /\ sup = "crashed"
      /\ UNCHANGED <<input, plan, step, att, usage, made, sup, work, resumed, abort, stop,
                     late, ran, events>>
  BY DEF InterruptRun, hostVars
<1>2. TypeOK'
  BY <1>1 DEF PlanInv, TypeOK
<1>3. \A t \in Step : StepInv(t)'
  <2> TAKE t \in Step
  <2>1. StepInv(t)
    BY DEF PlanInv
  <2> QED
    BY <1>1, <2>1 DEF StepInv
<1>4. att \in [Step -> AttemptRow] /\ step \in [Step -> StepStates]
  BY TypeParts
<1>5. Counted'
  BY <1>1, <1>4, CountUnchanged
<1>6. DependenciesFirst' /\ ConflictKeysExclusive' /\ EndIsWhole'
  BY <1>1 DEF PlanInv, DependenciesFirst, ConflictKeysExclusive, EndIsWhole, Active, ActiveAttempt
<1> QED
  BY <1>2, <1>3, <1>5, <1>6 DEF PlanInv

LEMMA ReplanKeeps ==
  ASSUME PlanInv, Replan
  PROVE  PlanInv'
<1>1. PICK keep \in SUBSET {s \in Step : step[s] = "succeeded"} :
       /\ \A s \in keep : Deps[s] \subseteq keep
       /\ ReplanFits(keep)
       /\ plan' = [plan EXCEPT !.revision = 2, !.state = "running"]
       /\ step' = [s \in Step |-> IF s \in keep THEN step[s] ELSE "pending"]
       /\ att' = [s \in Step |-> IF s \in keep THEN att[s] ELSE NoAttempt]
       /\ ran' = [s \in Step |-> IF s \in keep THEN ran[s] ELSE 0]
       /\ late' = late \cap keep
       /\ work' = [s \in Step |-> NoWork]
       /\ sup' = IF sup = "loop" THEN sup ELSE "idle"
  BY DEF Replan
<1>2. /\ sup \in {"idle", "loop", "ended", "threw"}
      /\ UNCHANGED <<input, run, usage, made, resumed, abort, stop, events>>
      /\ \A s \in Step : s \notin Active
  BY DEF Replan, Replannable
<1>3. keep \in SUBSET Step /\ \A s \in keep : step[s] = "succeeded"
  BY <1>1
<1>4. \A s \in Step : step[s] \notin {"running", "verifying"}
  BY <1>2 DEF Active
<1>5. /\ step \in [Step -> StepStates] /\ att \in [Step -> AttemptRow]
      /\ ran \in [Step -> 0 .. MaxAttempts] /\ made \in Nat /\ made <= MaxChildRuns
      /\ 0 \in 0 .. Ceiling
  BY TypeParts
<1>6. plan \in [state : PlanStates, revision : 1 .. 2, idle : 0 .. 2]
  BY DEF PlanInv, TypeOK
<1>7. /\ plan' \in [state : PlanStates, revision : 1 .. 2, idle : 0 .. 2]
      /\ plan'.state = "running" /\ plan'.revision = 2
  <2>1. plan' = [plan EXCEPT !.revision = 2, !.state = "running"]
    BY <1>1
  <2>2. 2 \in 1 .. 2 /\ "running" \in PlanStates
    BY DEF PlanStates
  <2> QED
    BY ONLY <1>6, <2>1, <2>2
<1>8. NoWork \in WorkRow /\ NoWork.at = "none"
  BY <1>5 DEF NoWork, WorkRow, WorkPositions, WorkOutcomes
<1>9. work' \in [Step -> WorkRow] /\ \A t \in Step : work'[t].at = "none"
  BY <1>1, <1>8
<1>10. NoAttempt \in AttemptRow /\ NoAttempt.n = 0 /\ NoAttempt.state = "none"
  BY PlanAssumption DEF NoAttempt, AttemptRow, AttemptStates
<1>11. /\ att' \in [Step -> AttemptRow]
       /\ \A s \in keep : att'[s] = att[s]
       /\ \A s \in Step \ keep : att'[s] = NoAttempt
  BY <1>1, <1>3, <1>5, <1>10
<1>12. /\ step' \in [Step -> StepStates]
       /\ \A s \in keep : step'[s] = "succeeded"
       /\ \A s \in Step \ keep : step'[s] = "pending"
  BY <1>1, <1>3, <1>5 DEF StepStates
<1>13. /\ ran' \in [Step -> 0 .. MaxAttempts]
       /\ \A s \in keep : ran'[s] = ran[s]
       /\ \A s \in Step \ keep : ran'[s] = 0
  BY <1>1, <1>3, <1>5, PlanAssumption
<1>14. late' \subseteq Step /\ sup' \in {"idle", "loop"}
  BY <1>1, <1>2, <1>3
<1>15. TypeOK'
  BY <1>2, <1>7, <1>9, <1>11, <1>12, <1>13, <1>14 DEF PlanInv, TypeOK, WorkRow
<1>16. \A t \in Step : StepInv(t)'
  <2> TAKE t \in Step
  <2>1. StepInv(t) /\ t \notin resumed'
    BY <1>2, <1>4 DEF PlanInv, StepInv
  <2>2. CASE t \in keep
    <3>1. /\ step[t] = "succeeded" /\ step'[t] = "succeeded" /\ att'[t] = att[t]
          /\ ran'[t] = ran[t] /\ work'[t].at = "none"
      BY <1>3, <1>9, <1>11, <1>12, <1>13, <2>2
    <3> QED
      BY <1>14, <2>1, <3>1 DEF StepInv, Busy
  <2>3. CASE t \notin keep
    <3>1. /\ step'[t] = "pending" /\ att'[t] = NoAttempt /\ att'[t].state = "none"
          /\ ran'[t] = 0 /\ work'[t].at = "none"
      BY <1>9, <1>10, <1>11, <1>12, <1>13, <2>3
    <3> QED
      BY <1>14, <2>1, <3>1 DEF StepInv, Busy
  <2> QED
    BY <2>2, <2>3
<1>17. DependenciesFirst'
  <2> SUFFICES ASSUME NEW t \in Step, step'[t] \in {"running", "verifying", "succeeded"},
                      NEW d \in Deps[t]
               PROVE  step'[d] = "succeeded"
    BY DEF DependenciesFirst
  <2>1. t \in keep
    BY <1>12
  <2>2. d \in keep
    BY <1>1, <2>1
  <2> QED
    BY <1>12, <2>2
<1>18. Active' = {}
  BY <1>12 DEF Active
<1>19. ConflictKeysExclusive'
  BY <1>18 DEF ConflictKeysExclusive
<1>20. EndIsWhole'
  BY <1>7 DEF EndIsWhole
<1>21. Counted'
  <2> DEFINE new == Step \ keep
             b == Numbers(att')
             A == Above(b, Open')
  <2>1. new \in SUBSET Step
    OBVIOUS
  <2>2. IsFiniteSet(new) /\ Cardinality(new) \in Nat
    BY <2>1, StepsFinite
  <2>3. IsFiniteSet(1 .. MaxAttempts) /\ Cardinality(1 .. MaxAttempts) = MaxAttempts
    BY PlanAssumption, FS_Interval
  <2>4. /\ IsFiniteSet(new \X (1 .. MaxAttempts))
        /\ Cardinality(new \X (1 .. MaxAttempts)) = Cardinality(new) * MaxAttempts
    BY <2>2, <2>3, FS_Product
  <2>5. A \subseteq new \X (1 .. MaxAttempts)
    BY <1>12 DEF Above, Open
  <2>6. Cardinality(A) <= Cardinality(new) * MaxAttempts
    BY <2>4, <2>5, FS_Subset
  <2>7. made + MaxAttempts * Cardinality(new) <= MaxChildRuns
    BY <1>1 DEF ReplanFits
  <2>8. Cardinality(A) \in Nat
    BY AttemptsFinite
  <2> HIDE DEF new
  <2>9. made + Cardinality(A) <= MaxChildRuns
    <3>1. Cardinality(new) * MaxAttempts = MaxAttempts * Cardinality(new)
      BY <2>2, PlanAssumption
    <3>2. MaxAttempts * Cardinality(new) \in Nat
      BY <2>2, PlanAssumption
    <3> DEFINE x == MaxAttempts * Cardinality(new)
               y == Cardinality(A)
    <3>3. y <= x /\ made + x <= MaxChildRuns /\ x \in Nat /\ y \in Nat
      BY <2>6, <2>7, <2>8, <3>1, <3>2
    <3> HIDE DEF x, y
    <3>4. made + y <= MaxChildRuns
      BY <1>5, <3>3, PlanAssumption
    <3> QED
      BY <3>4 DEF y
  <2>10. Above(Numbers(att), Open)' = A
    BY DEF Above, Numbers
  <2>11. made' = made
    BY <1>2
  <2> HIDE DEF A
  <2> QED
    BY <1>5, <1>7, <2>9, <2>10, <2>11 DEF Counted
<1> QED
  BY <1>15, <1>16, <1>17, <1>19, <1>20, <1>21 DEF PlanInv

LEMMA NoProgressKeeps ==
  ASSUME PlanInv, NoProgress
  PROVE  PlanInv'
<1>1. /\ plan.idle < 2
      /\ plan' = [plan EXCEPT !.idle = @ + 1,
                              !.state = IF plan.idle = 1 /\ @ = "running" THEN "blocked" ELSE @]
      /\ UNCHANGED <<input, run, step, att, usage, made, sup, work, resumed, abort, stop, late, ran>>
      /\ plan.state \in {"running", "blocked", "failed"}
      /\ \A s \in Step : s \notin Active /\ ~ ActiveAttempt(s)
  BY DEF NoProgress, Replannable, hostVars
<1>2. plan \in [state : PlanStates, revision : 1 .. 2, idle : 0 .. 2]
  BY DEF PlanInv, TypeOK
<1>3. /\ plan' \in [state : PlanStates, revision : 1 .. 2, idle : 0 .. 2]
      /\ plan'.revision = plan.revision /\ plan'.idle = plan.idle + 1
      /\ plan'.state = IF plan.idle = 1 /\ plan.state = "running" THEN "blocked" ELSE plan.state
  <2> DEFINE next == IF plan.idle = 1 /\ plan.state = "running" THEN "blocked" ELSE plan.state
  <2>1. plan' = [plan EXCEPT !.idle = plan.idle + 1, !.state = next]
    BY <1>1, <1>2
  <2>2. plan.idle \in 0 .. 2 /\ plan.state \in PlanStates
    BY <1>2
  <2>3. plan.idle + 1 \in 0 .. 2 /\ next \in PlanStates
    BY <1>1, <2>2 DEF PlanStates
  <2> HIDE DEF next
  <2>4. plan' \in [state : PlanStates, revision : 1 .. 2, idle : 0 .. 2]
    BY ONLY <1>2, <2>1, <2>3
  <2>5. plan'.revision = plan.revision /\ plan'.idle = plan.idle + 1 /\ plan'.state = next
    BY ONLY <1>2, <2>1
  <2> QED
    BY <2>4, <2>5 DEF next
<1>4. events' \in 0 .. MaxEvents
  BY TypeParts, PlanAssumption DEF NoProgress, Happens
<1>5. TypeOK'
  BY <1>1, <1>3, <1>4 DEF PlanInv, TypeOK
<1>6. \A t \in Step : StepInv(t)'
  <2> TAKE t \in Step
  <2>1. StepInv(t)
    BY DEF PlanInv
  <2> QED
    BY <1>1, <2>1 DEF StepInv
<1>7. att \in [Step -> AttemptRow] /\ step \in [Step -> StepStates]
  BY TypeParts
<1>8. Counted'
  BY <1>1, <1>3, <1>7, CountUnchanged
<1>9. DependenciesFirst' /\ ConflictKeysExclusive'
  BY <1>1 DEF PlanInv, DependenciesFirst, ConflictKeysExclusive, Active
<1>10. Active' = {} /\ \A t \in Step : ~ ActiveAttempt(t)'
  BY <1>1 DEF Active, ActiveAttempt
<1>11. EndIsWhole'
  <2>1. plan.idle \in 0 .. 2
    BY <1>2
  <2>2. CASE plan.state = "running" /\ plan.idle = 1
    <3>1. plan'.state = "blocked" /\ plan'.idle = 2
      BY <1>3, <2>2
    <3> QED
      BY <1>10, <3>1 DEF EndIsWhole
  <2>3. CASE plan.state = "running" /\ plan.idle # 1
    <3>1. plan'.state = "running"
      BY <1>3, <2>3
    <3> QED
      BY <3>1 DEF EndIsWhole
  <2>4. CASE plan.state \in {"blocked", "failed"}
    <3>1. plan'.state = plan.state /\ plan'.idle = plan.idle + 1
      BY <1>3, <2>4
    <3>2. \A t \in Step : step[t] # "pending"
      BY <1>1, <2>4 DEF PlanInv, EndIsWhole
    <3>3. input.owns => run # "running"
      BY <1>1, <2>4 DEF PlanInv, EndIsWhole
    <3> QED
      BY <1>1, <1>10, <2>4, <3>1, <3>2, <3>3 DEF EndIsWhole
  <2> QED
    BY <1>1, <2>2, <2>3, <2>4
<1> QED
  BY <1>5, <1>6, <1>8, <1>9, <1>11 DEF PlanInv

LEMMA AbortKeeps ==
  ASSUME PlanInv, Abort
  PROVE  PlanInv'
<1>1. /\ abort' = TRUE /\ stop' = (sup # "idle")
      /\ UNCHANGED <<input, plan, run, step, att, usage, made, sup, work, resumed, late, ran>>
  BY DEF Abort, journalVars
<1>2. events' \in 0 .. MaxEvents
  BY TypeParts, PlanAssumption DEF Abort, Happens
<1>3. TypeOK'
  BY <1>1, <1>2 DEF PlanInv, TypeOK
<1>4. \A t \in Step : StepInv(t)'
  <2> TAKE t \in Step
  <2>1. StepInv(t)
    BY DEF PlanInv
  <2> QED
    BY <1>1, <2>1 DEF StepInv
<1> QED
  BY <1>1, <1>3, <1>4, RestKeeps

LEMMA ExpireKeeps ==
  ASSUME PlanInv, NEW s \in Step, Expire(s)
  PROVE  PlanInv'
<1>1. /\ late' = late \cup {s}
      /\ UNCHANGED <<input, plan, run, step, att, usage, made, sup, work, resumed, abort, stop, ran>>
  BY DEF Expire, journalVars
<1>2. events' \in 0 .. MaxEvents
  BY TypeParts, PlanAssumption DEF Expire, Happens
<1>3. TypeOK'
  BY <1>1, <1>2 DEF PlanInv, TypeOK
<1>4. \A t \in Step : StepInv(t)'
  <2> TAKE t \in Step
  <2>1. StepInv(t)
    BY DEF PlanInv
  <2> QED
    BY <1>1, <2>1 DEF StepInv
<1> QED
  BY <1>1, <1>3, <1>4, RestKeeps

(***************************************************************************)
(* The theorems.                                                            *)
(***************************************************************************)

LEMMA PlanInitially ==
  ASSUME Init
  PROVE  PlanInv
<1>1. 0 \in 0 .. Ceiling /\ 0 \in 0 .. MaxAttempts /\ 0 \in 0 .. MaxChildRuns
      /\ 0 \in 0 .. MaxEvents
  BY PlanAssumption
<1>2. NoWork \in WorkRow /\ NoWork.at = "none"
  BY <1>1 DEF NoWork, WorkRow, WorkPositions, WorkOutcomes
<1>3. NoAttempt \in AttemptRow /\ NoAttempt.n = 0 /\ NoAttempt.state = "none"
  BY <1>1 DEF NoAttempt, AttemptRow, AttemptStates
<1>p. plan \in [state : PlanStates, revision : 1 .. 2, idle : 0 .. 2]
  BY DEF Init, PlanStates
<1>w. work \in [Step -> WorkRow] /\ att \in [Step -> AttemptRow]
  BY <1>2, <1>3 DEF Init
<1>s. step \in [Step -> StepStates] /\ ran \in [Step -> 0 .. MaxAttempts]
  BY <1>1 DEF Init, StepStates
<1>4. TypeOK
  BY <1>1, <1>p, <1>w, <1>s DEF Init, TypeOK, WorkRow
<1>5. \A s \in Step : StepInv(s)
  BY <1>2, <1>3 DEF Init, StepInv, Busy
<1>6. DependenciesFirst
  BY DEF Init, DependenciesFirst
<1>7. ConflictKeysExclusive
  BY DEF Init, ConflictKeysExclusive, Active
<1>8. EndIsWhole
  BY DEF Init, EndIsWhole
<1>9. Attempts = 0
  <2>1. \A s \in Step : Numbers(att)[s] = 0
    BY <1>3 DEF Init, Numbers
  <2>2. UpTo(Numbers(att)) = {}
    <3> SUFFICES ASSUME NEW s \in Step, NEW i \in 1 .. MaxAttempts,
                        <<s, i>> \in UpTo(Numbers(att))
                 PROVE  FALSE
      BY DEF UpTo
    <3>1. i <= Numbers(att)[s]
      BY DEF UpTo
    <3> QED
      BY <2>1, <3>1
  <2> QED
    BY <2>2, AttemptsAre, FS_EmptySet
<1>10. Counted
  BY <1>9, PlanAssumption DEF Init, Counted
<1> QED
  BY <1>4, <1>5, <1>6, <1>7, <1>8, <1>10 DEF PlanInv

LEMMA PlanNextKeeps ==
  ASSUME PlanInv, [Next]_vars
  PROVE  PlanInv'
<1>1. CASE Execute
  BY <1>1, ExecuteKeeps
<1>2. CASE Schedule
  BY <1>2, ScheduleKeeps
<1>3. CASE Overtaken
  BY <1>3, OvertakenKeeps
<1>4. CASE Join
  BY <1>4, JoinKeeps
<1>5. CASE Crash
  BY <1>5, CrashKeeps
<1>6. CASE Recover
  BY <1>6, RecoverKeeps
<1>7. CASE InterruptRun
  BY <1>7, InterruptRunKeeps
<1>8. CASE Replan
  BY <1>8, ReplanKeeps
<1>9. CASE NoProgress
  BY <1>9, NoProgressKeeps
<1>10. CASE Abort
  BY <1>10, AbortKeeps
<1>11. ASSUME NEW s \in Step, Worker(s) PROVE PlanInv'
  BY <1>11, BeginKeeps, BindKeeps, ExecutionKeeps, ResultKeeps, VerdictKeeps DEF Worker
<1>12. ASSUME NEW s \in Step, Expire(s) PROVE PlanInv'
  BY <1>12, ExpireKeeps
<1>13. CASE UNCHANGED vars
  <2>1. UNCHANGED <<input, plan, run, step, att, usage, made, sup, work, resumed, abort, stop,
                    late, ran, events>>
    BY <1>13 DEF vars
  <2>2. TypeOK'
    BY <2>1 DEF PlanInv, TypeOK
  <2>3. \A t \in Step : StepInv(t)'
    <3> TAKE t \in Step
    <3>1. StepInv(t)
      BY DEF PlanInv
    <3> QED
      BY <2>1, <3>1 DEF StepInv
  <2> QED
    BY <2>1, <2>2, <2>3, RestKeeps
<1> QED
  BY <1>1, <1>2, <1>3, <1>4, <1>5, <1>6, <1>7, <1>8, <1>9, <1>10, <1>11, <1>12, <1>13
     DEF Next, Supervisor, Host

\* The invariant holds of every behaviour of the plan (DagSupervisorV1).
THEOREM PlanInductive == Spec => []PlanInv
<1>1. Init => PlanInv
  BY PlanInitially
<1>2. PlanInv /\ [Next]_vars => PlanInv'
  BY PlanNextKeeps
<1> QED
  BY <1>1, <1>2, PTL DEF Spec

\* Whatever is retried, crashes, is recovered or revised, steps run after their
\* dependencies, apart from those they conflict with, each under one worker and all within
\* the run's budget of child runs, and a plan that has ended is whole (selectConflictFree,
\* runClaim, recoveryBlock, finalize, applyRevision).
THEOREM PlansAreSound == Spec => []PlanSound
<1>1. PlanInv => PlanSound
  <2> SUFFICES ASSUME PlanInv PROVE PlanSound
    OBVIOUS
  <2>1. ChildRunsBounded
    BY DEF PlanInv, Counted, ChildRunsBounded
  <2>2. WorkIsOwned
    <3> SUFFICES ASSUME NEW s \in Step, work[s].at \in Busy
                 PROVE  /\ ActiveAttempt(s)
                        /\ step[s] = IF work[s].at = "verify" THEN "verifying" ELSE "running"
      BY DEF WorkIsOwned, Busy
    <3> QED
      BY BusyIsActive
  <2> QED
    BY <2>1, <2>2 DEF PlanInv, PlanSound
<1> QED
  BY <1>1, PlanInductive, PTL

\* A step whose repetition is not known to be safe is executed once in a revision, also
\* when its commit fails or the process dies around it (retrySafety in runClaim and
\* recoveryBlock).
THEOREM UnsafeStepsRunOnce == Spec => []UnsafeOnce
<1>1. PlanInv => UnsafeOnce
  BY DEF PlanInv, StepInv, UnsafeOnce
<1> QED
  BY <1>1, PlanInductive, PTL

-----------------------------------------------------------------------------
(* The strict review plan: the inductive invariant *)

Reviews(a) == actor[a].pc \notin {"idle", "tool"}

\* An item of the definition has the definition's text, and a fence is over an attempt.
Worded(p) ==
  \A i \in Item :
    /\ i \in ItemsOf[p.def] => p.items[i].text = TextOf[p.def][i]
    /\ p.items[i].prepared # 0 => p.items[i].attempt # 0

\* A fence names a frozen review of its own scope; the whole is frozen when all is accepted.
Fenced ==
  /\ strict.final # 0 =>
       /\ AllAccepted(strict)
       /\ reviews[strict.final].scope = Final /\ reviews[strict.final].frozen.rev # 0
  /\ \A i \in Item :
       strict.items[i].prepared # 0 => reviews[strict.items[i].prepared].scope = i

\* An accepted item names the review of that item that accepted it.
Earned ==
  \A i \in Item :
    strict.items[i].state = "accepted" =>
      /\ strict.items[i].by # 0
      /\ reviews[strict.items[i].by].scope = i
      /\ reviews[strict.items[i].by].verdict = "accepted"

\* A completed plan has no fence, and a final review of its revision accepted it.
Whole ==
  strict.state = "completed" =>
    /\ strict.final = 0 /\ AllAccepted(strict)
    /\ \E r \in Review : /\ reviews[r].scope = Final /\ reviews[r].verdict = "accepted"
                         /\ reviews[r].frozen.rev = strict.rev

PlanHolds ==
  /\ HasPlan => Worded(strict) /\ Fenced /\ Earned /\ Whole
  /\ completed => HasPlan /\ strict.state = "completed"
  /\ \A r \in Review : reviews[r].verdict # "none" => reviews[r].frozen.rev # 0

\* An actor in a review has the scope and the input it was frozen with.
Held(a) ==
  /\ actor[a].pc # "idle" => HasPlan
  /\ Reviews(a) =>
       /\ actor[a].frozen.rev # 0
       /\ reviews[actor[a].r].scope = actor[a].scope
       /\ actor[a].scope # Final => actor[a].frozen.attempt # 0
       /\ actor[a].pc # "prepare" => reviews[actor[a].r].frozen = actor[a].frozen

\* A review is in the hands of one actor.
OneReviewer == \A a, b \in Actor : Reviews(a) /\ Reviews(b) /\ actor[a].r = actor[b].r => a = b

Answered(call) == call.state \in {"provider_completed", "decision_committed"}
Measured(call) == Answered(call) \/ (call.state = "provider_invalid" /\ call.billed)

\* A call was sent when it left 'none', once, from a reservation; an answer is kept.
Sent ==
  \A r \in Review, k \in Try :
    /\ calls[r][k].state \in {"none", "reserved"} => calls[r][k].sent = 0
    /\ calls[r][k].sent <= 1
    /\ calls[r][k].state # "none" => budget[r][k] # "none"
    /\ Answered(calls[r][k]) => calls[r][k].verdict \in Verdicts
    /\ calls[r][k].billed => calls[r][k].state = "provider_invalid"
    /\ budget[r][k] = "actual" => Measured(calls[r][k])

\* What an actor is about to settle, apply or mark is what the store holds.
Owed(a) ==
  Reviews(a) =>
    LET me == actor[a] IN
    /\ me.pc \in {"call", "provider", "settle", "mark"} => me.k \in Try
    /\ me.pc \in {"call", "provider", "settle"} => budget[me.r][me.k] # "none"
    /\ me.pc = "provider" => calls[me.r][me.k].state = "provider_started"
    /\ me.pc = "settle" =>
         /\ me.settle # "none"
         /\ me.settle = "actual" => Measured(calls[me.r][me.k])
    /\ me.pc \in {"prepare", "check", "request", "reserve", "call", "provider"} => me.next # "apply"
    /\ me.pc \in {"settle", "apply", "mark"} /\ me.next = "apply" =>
         me.k \in Try /\ Answered(calls[me.r][me.k]) /\ me.verdict \in Verdicts
    /\ me.pc = "apply" => me.verdict \in Verdicts
    /\ me.pc = "mark" => me.next = "apply"

ReviewInv ==
  /\ ReviewTypeOK /\ PlanHolds /\ Sent
  /\ OneReviewer /\ \A a \in Actor : Held(a) /\ Owed(a)

-----------------------------------------------------------------------------
(* Records *)

\* An actor is idle, in a tool or in a review, and its record tells which.
LEMMA ActorRecords ==
  ASSUME ReviewTypeOK, NEW a \in Actor
  PROVE  /\ actor[a].pc = "idle" => actor[a] = Idle
         /\ actor[a].pc = "tool" => actor[a] \in ToolCall
         /\ Reviews(a) => actor[a] \in Reviewing
BY DEF ReviewTypeOK, Reviews, Idle, ToolCall, Reviewing

\* A step of one actor that touches one review at most leaves the others where they are.
LEMMA OthersStay ==
  ASSUME ReviewInv, HasPlan', NEW a \in Actor, NEW q, NEW m,
         actor' = [actor EXCEPT ![a] = m],
         m \in {Idle} \union ToolCall \union Reviewing,
         Reviews(a)' => m.r = q,
         \A b \in Actor : Reviews(b) /\ actor[b].r = q => b = a,
         \A r \in Review : r # q => /\ reviews'[r] = reviews[r] /\ calls'[r] = calls[r]
                                    /\ budget'[r] = budget[r]
  PROVE  /\ actor' \in [Actor -> {Idle} \union ToolCall \union Reviewing]
         /\ actor'[a] = m /\ OneReviewer'
         /\ \A b \in Actor : b # a => Held(b)' /\ Owed(b)'
<1>0. /\ ReviewTypeOK /\ OneReviewer /\ \A b \in Actor : Held(b) /\ Owed(b)
      /\ actor \in [Actor -> {Idle} \union ToolCall \union Reviewing]
  BY DEF ReviewInv, ReviewTypeOK
<1>1. /\ actor' \in [Actor -> {Idle} \union ToolCall \union Reviewing]
      /\ actor'[a] = m /\ \A b \in Actor : b # a => actor'[b] = actor[b]
  BY <1>0
<1>2. \A b \in Actor : b # a => Reviews(b)' = Reviews(b)
  BY <1>1 DEF Reviews
<1>3. \A b \in Actor : b # a /\ Reviews(b) => actor[b].r \in Review /\ actor[b].r # q
  BY <1>0, ActorRecords DEF Reviewing
<1>4. OneReviewer'
  BY <1>0, <1>1, <1>2, <1>3 DEF OneReviewer
<1>5. ASSUME NEW b \in Actor, b # a PROVE Held(b)' /\ Owed(b)'
  <2>1. CASE ~Reviews(b)
    BY <1>1, <1>2, <1>5, <2>1 DEF Held, Owed
  <2>2. CASE Reviews(b)
    <3>1. /\ actor'[b] = actor[b] /\ reviews'[actor[b].r] = reviews[actor[b].r]
          /\ calls'[actor[b].r] = calls[actor[b].r] /\ budget'[actor[b].r] = budget[actor[b].r]
      BY <1>1, <1>3, <1>5, <2>2
    <3>2. Held(b)'
      BY <1>0, <1>2, <1>5, <3>1 DEF Held
    <3>3. Owed(b)'
      BY <1>0, <1>2, <1>5, <3>1 DEF Owed
    <3> QED BY <3>2, <3>3
  <2> QED BY <2>1, <2>2
<1> QED BY <1>1, <1>4, <1>5

-----------------------------------------------------------------------------
(* The plan *)

\* A review keeps its scope once it is an item's or frozen, its input and its verdict.
ReviewsKept ==
  /\ reviews' \in [Review -> ReviewRecord]
  /\ \A r \in Review :
       /\ reviews[r].scope # Final \/ reviews[r].frozen.rev # 0 => reviews'[r].scope = reviews[r].scope
       /\ reviews[r].frozen.rev # 0 => reviews'[r].frozen = reviews[r].frozen
       /\ reviews[r].verdict # "none" => reviews'[r].verdict = reviews[r].verdict
       /\ reviews'[r].verdict # "none" => reviews'[r].frozen.rev # 0

\* What the parts of the invariant say of a plan.
LEMMA PlanFacts ==
  ASSUME ReviewInv, HasPlan
  PROVE  /\ PlanShape /\ Worded(strict) /\ Fenced /\ Earned /\ Whole
         /\ strict \in ReviewedPlan /\ strict.items \in [Item -> PlanItem]
         /\ strict.def \in Definition /\ ItemsOf[strict.def] \subseteq Item
         /\ strict.rev \in Nat \ {0} /\ strict.final \in Review \union {0}
         /\ reviews \in [Review -> ReviewRecord]
<1>1. PlanShape /\ Worded(strict) /\ Fenced /\ Earned /\ Whole /\ reviews \in [Review -> ReviewRecord]
  BY DEF ReviewInv, ReviewTypeOK, PlanHolds
<1>2. strict \in ReviewedPlan /\ strict.rev = strict.replans + 1
  BY <1>1 DEF PlanShape
<1>3. /\ strict.items \in [Item -> PlanItem] /\ strict.def \in Definition
      /\ strict.rev \in Nat /\ strict.final \in Review \union {0} /\ strict.replans \in Nat
  BY <1>2, ReviewAssumption DEF ReviewedPlan
<1> QED BY <1>1, <1>2, <1>3, ReviewAssumption

\* A plan whose whole is frozen, or that is completed, has no item left to work on.
LEMMA NothingLeft ==
  ASSUME ReviewInv, HasPlan, NEW i \in Item, strict.items[i].state \notin {"absent", "accepted"}
  PROVE  strict.final = 0 /\ strict.state # "completed" /\ i \in ItemsOf[strict.def]
<1>1. i \in ItemsOf[strict.def]
  BY PlanFacts DEF PlanShape
<1>2. ~AllAccepted(strict)
  BY <1>1 DEF AllAccepted
<1> QED BY <1>1, <1>2, PlanFacts DEF Fenced, Whole

\* A plan has a state that no plan lacks.
LEMMA IsPlan == strict \in ReviewedPlan => HasPlan
BY DEF ReviewedPlan, HasPlan, NoPlan

\* A step that leaves the plan alone.
LEMMA PlanStays ==
  ASSUME ReviewInv, ReviewsKept, strict' = strict, completed' = completed
  PROVE  PlanHolds' /\ (HasPlan' => PlanShape') /\ HasPlan' = HasPlan
<1>1. HasPlan' = HasPlan /\ reviews \in [Review -> ReviewRecord]
  BY DEF HasPlan, ReviewInv, ReviewTypeOK
<1>2. CASE ~HasPlan
  BY <1>1, <1>2 DEF ReviewInv, PlanHolds, ReviewsKept
<1>3. CASE HasPlan
  <2>1. /\ PlanShape /\ Worded(strict) /\ Fenced /\ Earned /\ Whole
        /\ \A i \in Item : /\ strict.items[i].prepared \in Review \union {0}
                           /\ strict.items[i].by \in Review \union {0}
        /\ strict.final \in Review \union {0}
    BY <1>3, PlanFacts DEF PlanItem
  <2>2. PlanShape' /\ Worded(strict)'
    BY <2>1 DEF PlanShape, Worded
  <2>3. Fenced'
    BY <2>1, <1>1, ReviewAssumption DEF Fenced, AllAccepted, ReviewsKept, Final
  <2>4. Earned'
    BY <2>1, <1>1, ReviewAssumption DEF Earned, ReviewsKept, Final
  <2>5. Whole'
    <3>1. SUFFICES ASSUME strict.state = "completed" PROVE Whole'
      BY DEF Whole
    <3>2. PICK r \in Review : /\ reviews[r].scope = Final /\ reviews[r].verdict = "accepted"
                              /\ reviews[r].frozen.rev = strict.rev
      BY <2>1, <3>1 DEF Whole
    <3>3. reviews[r].frozen.rev # 0
      BY <1>3, <3>2, PlanFacts
    <3>4. reviews'[r].scope = Final /\ reviews'[r].verdict = "accepted" /\ reviews'[r].frozen.rev = strict'.rev
      BY <3>2, <3>3 DEF ReviewsKept
    <3> QED BY <2>1, <3>1, <3>4 DEF Whole, AllAccepted
  <2> QED BY <1>1, <1>3, <2>2, <2>3, <2>4, <2>5 DEF ReviewInv, PlanHolds, ReviewsKept
<1> QED BY <1>2, <1>3

\* A step that gives one unfinished item another record.
LEMMA ItemStep ==
  ASSUME ReviewInv, HasPlan, ReviewsKept, completed' = completed,
         NEW i \in Item, NEW it \in PlanItem,
         strict.items[i].state \notin {"absent", "accepted"},
         strict' \in ReviewedPlan, strict'.items = [strict.items EXCEPT ![i] = it],
         strict'.rev = strict.rev, strict'.replans = strict.replans, strict'.def = strict.def,
         strict'.final = strict.final, strict'.state = strict.state,
         it.text = strict.items[i].text, it.state # "absent",
         it.attempt # 0 <=> it.state \in {"running", "review_requested"},
         it.open <=> it.state = "running",
         it.prepared # 0 => it.attempt # 0 /\ reviews'[it.prepared].scope = i,
         it.state = "accepted" =>
           it.by # 0 /\ reviews'[it.by].scope = i /\ reviews'[it.by].verdict = "accepted"
  PROVE  PlanHolds' /\ PlanShape' /\ HasPlan'
<1>0. HasPlan'
  BY IsPlan DEF ReviewedPlan, HasPlan, NoPlan
<1>1. /\ PlanShape /\ Worded(strict) /\ Fenced /\ Earned
      /\ \A j \in Item : /\ strict.items[j].prepared \in Review \union {0}
                         /\ strict.items[j].by \in Review \union {0}
      /\ strict.final = 0 /\ strict.state # "completed" /\ i \in ItemsOf[strict.def]
      /\ strict.items \in [Item -> PlanItem]
  BY PlanFacts, NothingLeft DEF PlanItem
<1>2. strict'.items[i] = it /\ \A j \in Item : j # i => strict'.items[j] = strict.items[j]
  BY <1>1
<1>3. PlanShape'
  BY <1>1, <1>2 DEF PlanShape
<1>4. Worded(strict)'
  BY <1>1, <1>2 DEF Worded
<1>5. Fenced'
  BY <1>1, <1>2, ReviewAssumption DEF Fenced, ReviewsKept, Final
<1>6. Earned'
  BY <1>1, <1>2, ReviewAssumption DEF Earned, ReviewsKept, Final
<1>7. Whole'
  BY <1>1 DEF Whole
<1> QED BY <1>0, <1>1, <1>3, <1>4, <1>5, <1>6, <1>7 DEF ReviewInv, PlanHolds, ReviewsKept

\* A step of the control service touches the plan only.
LEMMA ControlStep ==
  ASSUME ReviewInv, PlanHolds', HasPlan' => PlanShape', HasPlan => HasPlan',
         UNCHANGED <<reviews, calls, budget, actor, completed, trouble>>
  PROVE  ReviewInv'
<1>1. ReviewTypeOK'
  BY DEF ReviewInv, ReviewTypeOK
<1>2. Sent'
  BY DEF ReviewInv, Sent
<1>3. OneReviewer'
  BY DEF ReviewInv, OneReviewer, Reviews
<1>4. \A a \in Actor : Held(a)' /\ Owed(a)'
  <2>1. SUFFICES ASSUME NEW a \in Actor PROVE Held(a)' /\ Owed(a)'
    OBVIOUS
  <2>2. Held(a) /\ Owed(a)
    BY DEF ReviewInv
  <2>3. Reviews(a)' = Reviews(a)
    BY DEF Reviews
  <2>4. Held(a)'
    BY <2>2, <2>3 DEF Held
  <2>5. Owed(a)'
    BY <2>2, <2>3 DEF Owed
  <2> QED BY <2>4, <2>5
<1> QED BY <1>1, <1>2, <1>3, <1>4 DEF ReviewInv

\* Nothing happens to a review.
LEMMA ReviewsUnchanged == ReviewInv /\ reviews' = reviews => ReviewsKept
BY DEF ReviewInv, ReviewTypeOK, PlanHolds, ReviewsKept

\* The item a plan starts with.
LEMMA FreshItem ==
  ASSUME NEW d \in Definition, NEW i \in Item
  PROVE  /\ Fresh(d, i) \in PlanItem
         /\ Fresh(d, i).state = IF i \in ItemsOf[d] THEN "pending" ELSE "absent"
         /\ i \in ItemsOf[d] => Fresh(d, i).text = TextOf[d][i]
         /\ Fresh(d, i).attempt = 0 /\ ~Fresh(d, i).open /\ Fresh(d, i).prepared = 0
<1>1. Absent \in PlanItem
  BY ReviewAssumption DEF Absent, PlanItem, Text
<1>2. i \in ItemsOf[d] => TextOf[d][i] \in Text
  <2>1. {TextOf[d][j] : j \in ItemsOf[d]} \subseteq Text
    BY DEF Text
  <2> QED BY <2>1
<1>3. CASE i \in ItemsOf[d]
  BY <1>1, <1>2, <1>3 DEF Fresh, Absent, PlanItem
<1>4. CASE i \notin ItemsOf[d]
  BY <1>1, <1>4 DEF Fresh, Absent
<1> QED BY <1>3, <1>4

LEMMA CreateStep ==
  ASSUME ReviewInv, NEW d \in FirstDefinition, Create(d)
  PROVE  ReviewInv'
<1>1. /\ d \in Definition /\ ~HasPlan
      /\ UNCHANGED <<reviews, calls, budget, actor, completed, trouble>>
      /\ strict' = [state |-> "active", rev |-> 1, def |-> d, focus |-> 0, final |-> 0,
                    attempts |-> 0, replans |-> 0, noProgress |-> 0,
                    items |-> [i \in Item |-> Fresh(d, i)]]
  BY ReviewAssumption DEF Create
<1>2. \A i \in Item : strict'.items[i] = Fresh(d, i)
  BY <1>1
<1>3. strict' \in ReviewedPlan /\ HasPlan'
  <2>1. PICK c \in [Item -> PlanItem] : c = [i \in Item |-> Fresh(d, i)]
    BY <1>1, FreshItem
  <2>2. strict' = [state |-> "active", rev |-> 1, def |-> d, focus |-> 0, final |-> 0,
                   attempts |-> 0, replans |-> 0, noProgress |-> 0, items |-> c]
    BY <1>1, <2>1
  <2>3. 0 \in 0 .. MaxReplans /\ 0 \in 0 .. MaxNoProgress
    BY ReviewAssumption
  <2>4. strict' \in ReviewedPlan
    BY <1>1, <2>2, <2>3 DEF ReviewedPlan
  <2>5. strict'.state = "active"
    BY <1>1
  <2> QED BY <2>4, <2>5 DEF HasPlan, NoPlan
<1>4. PlanShape'
  <2>1. \A i \in Item :
          /\ Fresh(d, i).state = "absent" <=> i \notin ItemsOf[d]
          /\ Fresh(d, i).attempt # 0 <=> Fresh(d, i).state \in {"running", "review_requested"}
          /\ Fresh(d, i).open <=> Fresh(d, i).state = "running"
    BY <1>1, FreshItem
  <2>2. strict'.rev = strict'.replans + 1 /\ strict'.def = d
    BY <1>1
  <2> QED BY <1>2, <1>3, <2>1, <2>2 DEF PlanShape
<1>5. Worded(strict)' /\ Fenced' /\ Earned' /\ Whole'
  BY <1>1, <1>2, FreshItem DEF Worded, Fenced, Earned, Whole
<1>6. PlanHolds'
  BY <1>1, <1>3, <1>5 DEF ReviewInv, PlanHolds
<1> QED BY <1>1, <1>3, <1>4, <1>6, ControlStep

LEMMA UpdateStep ==
  ASSUME ReviewInv, NEW d \in Definition, Update(d)
  PROVE  ReviewInv'
<1>0. /\ HasPlan /\ Updatable(strict)
      /\ UNCHANGED <<reviews, calls, budget, actor, completed, trouble>>
  BY DEF Update
<1>1. /\ PlanShape /\ Worded(strict) /\ Earned /\ strict \in ReviewedPlan
      /\ strict.items \in [Item -> PlanItem] /\ strict.rev \in Nat
      /\ strict.state # "completed" /\ strict.final = 0
      /\ \A i \in Item : strict.items[i].prepared = 0 /\ strict.items[i].attempt = 0
  BY <1>0, PlanFacts DEF Updatable, PlanOver, HasFence, InFlight
<1>2. ~completed
  BY <1>1 DEF ReviewInv, PlanHolds
<1>3. CASE strict' = [strict EXCEPT !.noProgress = @ + 1] /\ strict.noProgress < MaxNoProgress
  <2>1. strict.noProgress + 1 \in 0 .. MaxNoProgress
    BY <1>1, <1>3, ReviewAssumption DEF ReviewedPlan
  <2>2. /\ strict' \in ReviewedPlan /\ strict'.items = strict.items /\ strict'.def = strict.def
        /\ strict'.state = strict.state /\ strict'.final = strict.final
        /\ strict'.rev = strict.rev /\ strict'.replans = strict.replans
    BY <1>1, <1>3, <2>1 DEF ReviewedPlan
  <2>3. HasPlan'
    BY <2>2 DEF ReviewedPlan, HasPlan, NoPlan
  <2>4. PlanShape'
    BY <1>1, <2>2 DEF PlanShape
  <2>5. Worded(strict)' /\ Fenced' /\ Earned' /\ Whole'
    BY <1>0, <1>1, <2>2 DEF Worded, Fenced, Earned, Whole
  <2>6. PlanHolds'
    BY <1>0, <1>2, <2>3, <2>5 DEF ReviewInv, PlanHolds
  <2> QED BY <1>0, <2>3, <2>4, <2>6, ControlStep
<1>4. CASE /\ strict' = [strict EXCEPT !.rev = @ + 1, !.def = d, !.replans = @ + 1,
                                       !.state = "active", !.items = Carried(strict, d)]
           /\ strict.replans < MaxReplans
  <2>1. \A i \in Item : Carried(strict, d)[i] =
           IF i \in ItemsOf[d] /\ strict.items[i].state = "accepted" /\ strict.items[i].text = TextOf[d][i]
           THEN strict.items[i] ELSE Fresh(d, i)
    BY DEF Carried
  <2>2. Carried(strict, d) \in [Item -> PlanItem]
    BY <1>1, FreshItem DEF Carried
  <2>3. strict.replans + 1 \in 0 .. MaxReplans
    BY <1>1, <1>4, ReviewAssumption DEF ReviewedPlan
  <2>4. PICK c : c = Carried(strict, d)
    OBVIOUS
  <2>5. strict' = [strict EXCEPT !.rev = @ + 1, !.def = d, !.replans = @ + 1,
                                 !.state = "active", !.items = c]
    BY <1>4, <2>4
  <2>6. /\ strict' \in ReviewedPlan /\ strict'.items = c /\ strict'.def = d
        /\ strict'.state = "active" /\ strict'.final = 0
        /\ strict'.rev = strict.rev + 1 /\ strict'.replans = strict.replans + 1
    <3>1. PICK v, m : v = strict.rev + 1 /\ m = strict.replans + 1
      OBVIOUS
    <3>2. v \in Nat /\ m \in 0 .. MaxReplans /\ c \in [Item -> PlanItem]
      BY <1>1, <2>2, <2>3, <2>4, <3>1
    <3>3. strict' = [strict EXCEPT !.rev = v, !.def = d, !.replans = m, !.state = "active", !.items = c]
      BY <2>5, <3>1
    <3>4. strict' \in ReviewedPlan
      BY <1>1, <3>2, <3>3 DEF ReviewedPlan
    <3>5. /\ strict'.items = c /\ strict'.def = d /\ strict'.state = "active"
          /\ strict'.final = strict.final /\ strict'.rev = v /\ strict'.replans = m
      BY <1>1, <3>3 DEF ReviewedPlan
    <3> QED BY <1>1, <3>1, <3>4, <3>5
  <2>7. HasPlan'
    BY <2>6 DEF ReviewedPlan, HasPlan, NoPlan
  <2>8. \A i \in Item :
          /\ c[i].state = "absent" <=> i \notin ItemsOf[d]
          /\ c[i].attempt = 0 /\ ~c[i].open /\ c[i].prepared = 0
          /\ c[i].state \notin {"running", "review_requested"}
          /\ i \in ItemsOf[d] => c[i].text = TextOf[d][i]
          /\ c[i].state = "accepted" => strict.items[i].state = "accepted" /\ c[i] = strict.items[i]
    <3>1. SUFFICES ASSUME NEW i \in Item
                   PROVE  /\ c[i].state = "absent" <=> i \notin ItemsOf[d]
                          /\ c[i].attempt = 0 /\ ~c[i].open /\ c[i].prepared = 0
                          /\ c[i].state \notin {"running", "review_requested"}
                          /\ i \in ItemsOf[d] => c[i].text = TextOf[d][i]
                          /\ c[i].state = "accepted" =>
                               strict.items[i].state = "accepted" /\ c[i] = strict.items[i]
      OBVIOUS
    <3>2. CASE c[i] = Fresh(d, i)
      BY <3>2, FreshItem
    <3>3. CASE /\ i \in ItemsOf[d] /\ strict.items[i].state = "accepted"
               /\ strict.items[i].text = TextOf[d][i] /\ c[i] = strict.items[i]
      <4>1. ~strict.items[i].open
        BY <1>1, <3>3 DEF PlanShape
      <4> QED BY <1>1, <3>3, <4>1
    <3> QED BY <2>1, <2>4, <3>2, <3>3
  <2>9. PlanShape'
    <3>1. strict.rev = strict.replans + 1 /\ strict.replans \in Nat
      BY <1>1, ReviewAssumption DEF PlanShape, ReviewedPlan
    <3>2. strict'.rev = strict'.replans + 1
      BY <2>6, <3>1
    <3>3. \A i \in Item :
            /\ c[i].attempt # 0 <=> c[i].state \in {"running", "review_requested"}
            /\ c[i].open <=> c[i].state = "running"
      BY <2>8
    <3> QED BY <2>6, <2>8, <3>2, <3>3 DEF PlanShape
  <2>10. Worded(strict)' /\ Fenced' /\ Earned' /\ Whole'
    BY <1>0, <1>1, <2>6, <2>8 DEF Worded, Fenced, Earned, Whole
  <2>11. PlanHolds'
    BY <1>0, <1>2, <2>7, <2>10 DEF ReviewInv, PlanHolds
  <2> QED BY <1>0, <2>7, <2>9, <2>11, ControlStep
<1> QED BY <1>3, <1>4 DEF Update

\* The calls of plan.progress change one unfinished item, or the focus.
LEMMA ProgressStep ==
  ASSUME ReviewInv, NEW i \in Item, Start(i) \/ Focus(i) \/ Skip(i) \/ Block(i)
  PROVE  ReviewInv'
<1>0. /\ HasPlan /\ strict.items[i].state \notin {"absent", "accepted"}
      /\ strict.items[i].prepared = 0
      /\ UNCHANGED <<reviews, calls, budget, actor, completed, trouble>>
  BY DEF Start, Focus, Skip, Block, Progressable
<1>1. /\ PlanShape /\ strict \in ReviewedPlan /\ strict.items \in [Item -> PlanItem]
      /\ Worded(strict) /\ Fenced /\ Earned /\ Whole
      /\ strict.items[i] \in PlanItem /\ strict.attempts \in Nat /\ strict.focus \in Nat
      /\ strict.items[i].attempt # 0 <=> strict.items[i].state \in {"running", "review_requested"}
      /\ strict.items[i].open <=> strict.items[i].state = "running"
      /\ strict.items[i].attempt \in Nat
  BY <1>0, PlanFacts DEF PlanShape, ReviewedPlan, PlanItem
<1>2. ReviewsKept
  BY <1>0, ReviewsUnchanged
<1>3. CASE Start(i)
  <2>1. PICK n \in Nat : n = strict.attempts + 1 /\ n # 0
    BY <1>1
  <2>2. PICK c \in 0 .. MaxRepair + 1 : c = strict.items[i].count + 1
    BY <1>1, <1>3, ReviewAssumption DEF Start, PlanItem
  <2>3. PICK it : it = [strict.items[i] EXCEPT !.state = "running", !.count = c,
                                               !.attempt = n, !.open = TRUE, !.evidence = 0]
    OBVIOUS
  <2>4. /\ it \in PlanItem /\ it.state = "running" /\ it.attempt = n /\ it.open
        /\ it.text = strict.items[i].text /\ it.prepared = 0
    <3>1. it \in PlanItem
      BY <1>1, <2>1, <2>2, <2>3 DEF PlanItem
    <3>2. /\ it.state = "running" /\ it.attempt = n /\ it.open
          /\ it.text = strict.items[i].text /\ it.prepared = strict.items[i].prepared
      BY <1>1, <2>3 DEF PlanItem
    <3> QED BY <1>0, <3>1, <3>2
  <2>5. strict' = [strict EXCEPT !.attempts = n, !.focus = n, !.items[i] = it]
    <3>1. strict' = [strict EXCEPT !.attempts = strict.attempts + 1, !.focus = strict.attempts + 1,
                                   !.items[i] = [strict.items[i] EXCEPT
                                     !.state = "running", !.count = strict.items[i].count + 1,
                                     !.attempt = strict.attempts + 1, !.open = TRUE, !.evidence = 0]]
      BY <1>3, Zenon DEF Start
    <3> QED BY <2>1, <2>2, <2>3, <3>1, Zenon
  <2>6. /\ strict' \in ReviewedPlan /\ strict'.items = [strict.items EXCEPT ![i] = it]
        /\ strict'.rev = strict.rev /\ strict'.replans = strict.replans /\ strict'.def = strict.def
        /\ strict'.final = strict.final /\ strict'.state = strict.state
    BY <1>1, <2>1, <2>4, <2>5 DEF ReviewedPlan
  <2>7. PlanHolds' /\ PlanShape' /\ HasPlan'
    BY <1>0, <1>2, <2>1, <2>4, <2>6, ItemStep
  <2> QED BY <1>0, <2>7, ControlStep
<1>4. CASE Focus(i)
  <2>1. strict' = [strict EXCEPT !.focus = strict.items[i].attempt]
    BY <1>4 DEF Focus
  <2>2. /\ strict' \in ReviewedPlan /\ strict'.items = strict.items /\ strict'.def = strict.def
        /\ strict'.state = strict.state /\ strict'.final = strict.final
        /\ strict'.rev = strict.rev /\ strict'.replans = strict.replans
    BY <1>1, <2>1 DEF ReviewedPlan
  <2>3. HasPlan' /\ PlanShape'
    BY <1>1, <2>2 DEF ReviewedPlan, HasPlan, NoPlan, PlanShape
  <2>4. Worded(strict)' /\ Fenced' /\ Earned' /\ Whole'
    BY <1>0, <1>1, <2>2 DEF Worded, Fenced, Earned, Whole, AllAccepted
  <2>5. PlanHolds'
    BY <1>0, <2>2, <2>3, <2>4 DEF ReviewInv, PlanHolds
  <2> QED BY <1>0, <2>3, <2>5, ControlStep
<1>5. CASE Skip(i)
  <2>1. PICK it : it = [strict.items[i] EXCEPT !.state = "skipped"]
    OBVIOUS
  <2>2. strict.items[i].state \notin {"running", "review_requested"}
    BY <1>5 DEF Skip
  <2>3. /\ it \in PlanItem /\ it.state = "skipped" /\ it.attempt = 0 /\ ~it.open
        /\ it.text = strict.items[i].text /\ it.prepared = 0
    BY <1>0, <1>1, <2>1, <2>2 DEF PlanItem
  <2>4. strict' = [strict EXCEPT !.items[i] = it]
    BY <1>5, <2>1 DEF Skip
  <2>5. /\ strict' \in ReviewedPlan /\ strict'.items = [strict.items EXCEPT ![i] = it]
        /\ strict'.rev = strict.rev /\ strict'.replans = strict.replans /\ strict'.def = strict.def
        /\ strict'.final = strict.final /\ strict'.state = strict.state
    BY <1>1, <2>3, <2>4 DEF ReviewedPlan
  <2>6. /\ it.attempt # 0 <=> it.state \in {"running", "review_requested"}
        /\ it.open <=> it.state = "running"
    BY <2>3
  <2>7. PlanHolds' /\ PlanShape' /\ HasPlan'
    BY <1>0, <1>2, <2>3, <2>5, <2>6, ItemStep
  <2> QED BY <1>0, <2>7, ControlStep
<1>6. CASE Block(i)
  <2>1. PICK it : it = [CloseAttempt(strict.items[i]) EXCEPT !.state = "blocked"]
    OBVIOUS
  <2>2. PICK n \in Nat : n = Unfocused(strict, strict.items[i].attempt)
    BY <1>1 DEF Unfocused
  <2>3. /\ it \in PlanItem /\ it.state = "blocked" /\ it.attempt = 0 /\ ~it.open
        /\ it.text = strict.items[i].text /\ it.prepared = 0
    BY <1>0, <1>1, <2>1 DEF PlanItem, CloseAttempt, Verdicts
  <2>4. strict' = [strict EXCEPT !.items[i] = it, !.focus = n]
    BY <1>6, <2>1, <2>2 DEF Block
  <2>5. /\ strict' \in ReviewedPlan /\ strict'.items = [strict.items EXCEPT ![i] = it]
        /\ strict'.rev = strict.rev /\ strict'.replans = strict.replans /\ strict'.def = strict.def
        /\ strict'.final = strict.final /\ strict'.state = strict.state
    BY <1>1, <2>2, <2>3, <2>4 DEF ReviewedPlan
  <2>6. /\ it.attempt # 0 <=> it.state \in {"running", "review_requested"}
        /\ it.open <=> it.state = "running"
    BY <2>3
  <2>7. PlanHolds' /\ PlanShape' /\ HasPlan'
    BY <1>0, <1>2, <2>3, <2>5, <2>6, ItemStep
  <2> QED BY <1>0, <2>7, ControlStep
<1> QED BY <1>3, <1>4, <1>5, <1>6

-----------------------------------------------------------------------------
(* The actors *)

\* An actor in a review, and the review it is in.
LEMMA InReview ==
  ASSUME ReviewInv, NEW a \in Actor, Reviews(a)
  PROVE  /\ HasPlan /\ Held(a) /\ Owed(a) /\ PlanShape
         /\ actor[a] \in Reviewing /\ actor[a].r \in Review /\ actor[a].scope \in Scope
         /\ actor[a].frozen \in FrozenInput /\ actor[a].k \in Nat \ {0}
         /\ \A b \in Actor : Reviews(b) /\ actor[b].r = actor[a].r => b = a
<1>1. ReviewTypeOK /\ OneReviewer /\ Held(a) /\ Owed(a)
  BY DEF ReviewInv
<1>2. actor[a] \in Reviewing
  BY <1>1, ActorRecords
<1>3. HasPlan /\ PlanShape
  BY <1>1, <1>2 DEF Held, Reviewing, ReviewTypeOK
<1> QED BY <1>1, <1>2, <1>3 DEF OneReviewer, Reviewing

\* The parts put together after a step of one actor.
LEMMA StepOfOne ==
  ASSUME ReviewInv, HasPlan', NEW a \in Actor, NEW q, NEW m,
         actor' = [actor EXCEPT ![a] = m],
         m \in {Idle} \union ToolCall \union Reviewing,
         Reviews(a)' => m.r = q,
         \A b \in Actor : Reviews(b) /\ actor[b].r = q => b = a,
         \A r \in Review : r # q => /\ reviews'[r] = reviews[r] /\ calls'[r] = calls[r]
                                    /\ budget'[r] = budget[r],
         PlanHolds', PlanShape', Sent', Held(a)', Owed(a)',
         reviews' \in [Review -> ReviewRecord], calls' \in [Review -> [Try -> CallRecord]],
         budget' \in [Review -> [Try -> Settled \union {"none", "reserved"}]],
         completed' = completed, trouble' \in 0 .. MaxTrouble
  PROVE  ReviewInv'
<1>1. /\ actor' \in [Actor -> {Idle} \union ToolCall \union Reviewing] /\ OneReviewer'
      /\ \A b \in Actor : b # a => Held(b)' /\ Owed(b)'
  BY OthersStay, ZenonT(40)
<1>2. ReviewTypeOK'
  BY <1>1 DEF ReviewInv, ReviewTypeOK
<1> QED BY <1>1, <1>2 DEF ReviewInv

\* An actor leaves its tool or its review with what it did there.
LEMMA Leaves ==
  ASSUME ReviewInv, NEW a \in Actor, Throw(a), HasPlan', PlanHolds', PlanShape', Sent',
         reviews' \in [Review -> ReviewRecord], calls' \in [Review -> [Try -> CallRecord]],
         budget' \in [Review -> [Try -> Settled \union {"none", "reserved"}]],
         \A r \in Review : ~(Reviews(a) /\ r = actor[a].r) =>
           reviews'[r] = reviews[r] /\ calls'[r] = calls[r] /\ budget'[r] = budget[r],
         completed' = completed, trouble' \in 0 .. MaxTrouble
  PROVE  ReviewInv'
<1>0. ReviewTypeOK
  BY DEF ReviewInv
<1>1. actor'[a] = Idle /\ actor' = [actor EXCEPT ![a] = Idle] /\ ~Reviews(a)' /\ actor'[a].pc = "idle"
  BY <1>0 DEF ReviewTypeOK, Throw, Reviews, Idle
<1>2. Held(a)' /\ Owed(a)'
  BY <1>1 DEF Held, Owed
<1>3. PICK q : q = IF Reviews(a) THEN actor[a].r ELSE 0
  OBVIOUS
<1>4. \A b \in Actor : Reviews(b) /\ actor[b].r = q => b = a
  <2>1. \A b \in Actor : Reviews(b) => actor[b].r # 0
    BY InReview DEF Review
  <2> QED BY <1>3, <2>1, InReview
<1>5. \A r \in Review : r # q => /\ reviews'[r] = reviews[r] /\ calls'[r] = calls[r]
                                 /\ budget'[r] = budget[r]
  BY <1>3
<1> QED BY <1>1, <1>2, <1>4, <1>5, StepOfOne

\* Neither store changes.
LEMMA StoresStay ==
  ASSUME ReviewInv, UNCHANGED <<calls, budget>>
  PROVE  /\ Sent' /\ calls' \in [Review -> [Try -> CallRecord]]
         /\ budget' \in [Review -> [Try -> Settled \union {"none", "reserved"}]]
         /\ \A r \in Review : calls'[r] = calls[r] /\ budget'[r] = budget[r]
BY DEF ReviewInv, ReviewTypeOK, Sent

\* An actor leaves its tool or its review, and nothing else happens.
LEMMA LeaveStep ==
  ASSUME ReviewInv, NEW a \in Actor, actor[a].pc # "idle", Throw(a),
         UNCHANGED <<strict, reviews, calls, budget, completed>>, trouble' \in 0 .. MaxTrouble
  PROVE  ReviewInv'
<1>0. ReviewTypeOK /\ Held(a)
  BY DEF ReviewInv
<1>1. PlanHolds' /\ HasPlan' /\ PlanShape'
  BY <1>0, ReviewsUnchanged, PlanStays DEF Held
<1>2. reviews' \in [Review -> ReviewRecord]
  BY <1>0 DEF ReviewTypeOK
<1> QED BY <1>1, <1>2, StoresStay, Leaves

\* An actor moves on within its review, and the plan stays.
LEMMA WithinReview ==
  ASSUME ReviewInv, NEW a \in Actor, Reviews(a), NEW m \in Reviewing,
         actor[a].pc # "prepare" \/ reviews[actor[a].r].frozen = actor[a].frozen,
         actor' = [actor EXCEPT ![a] = m],
         m.r = actor[a].r, m.scope = actor[a].scope, m.frozen = actor[a].frozen,
         UNCHANGED <<strict, reviews, completed>>, trouble' \in 0 .. MaxTrouble,
         calls' \in [Review -> [Try -> CallRecord]],
         budget' \in [Review -> [Try -> Settled \union {"none", "reserved"}]],
         \A r \in Review : r # actor[a].r => calls'[r] = calls[r] /\ budget'[r] = budget[r],
         Sent', Owed(a)'
  PROVE  ReviewInv'
<1>0. ReviewTypeOK
  BY DEF ReviewInv
<1>1. actor'[a] = m
  BY <1>0 DEF ReviewTypeOK
<1>2. PlanHolds' /\ HasPlan' /\ PlanShape'
  BY InReview, ReviewsUnchanged, PlanStays
<1>3. Held(a)'
  <2>1. Held(a) /\ Reviews(a)
    BY InReview
  <2> QED BY <1>1, <1>2, <2>1 DEF Held
<1>4. /\ reviews' \in [Review -> ReviewRecord]
      /\ \A b \in Actor : Reviews(b) /\ actor[b].r = actor[a].r => b = a
  BY <1>0, InReview DEF ReviewTypeOK
<1>5. PICK q : q = actor[a].r
  OBVIOUS
<1> QED BY <1>1, <1>2, <1>3, <1>4, <1>5, StepOfOne

\* One record of the call store changes.
LEMMA CallsAt ==
  ASSUME ReviewInv, NEW q \in Review, NEW k \in Try, NEW c \in CallRecord,
         calls' = [calls EXCEPT ![q][k] = c], budget' = budget,
         c.state \in {"none", "reserved"} => c.sent = 0, c.sent <= 1,
         c.state # "none" => budget[q][k] # "none",
         Answered(c) => c.verdict \in Verdicts, c.billed => c.state = "provider_invalid",
         budget[q][k] = "actual" => Measured(c)
  PROVE  /\ Sent' /\ calls' \in [Review -> [Try -> CallRecord]] /\ calls'[q][k] = c
         /\ budget' \in [Review -> [Try -> Settled \union {"none", "reserved"}]]
         /\ \A r \in Review : r # q => calls'[r] = calls[r] /\ budget'[r] = budget[r]
<1>0. /\ Sent /\ calls \in [Review -> [Try -> CallRecord]]
      /\ budget \in [Review -> [Try -> Settled \union {"none", "reserved"}]]
  BY DEF ReviewInv, ReviewTypeOK
<1>1. /\ calls' \in [Review -> [Try -> CallRecord]] /\ calls'[q][k] = c
      /\ \A r \in Review : r # q => calls'[r] = calls[r]
      /\ \A r \in Review, l \in Try : <<r, l>> # <<q, k>> => calls'[r][l] = calls[r][l]
  BY <1>0
<1>2. ASSUME NEW r \in Review, NEW l \in Try
      PROVE  /\ calls'[r][l].state \in {"none", "reserved"} => calls'[r][l].sent = 0
             /\ calls'[r][l].sent <= 1
             /\ calls'[r][l].state # "none" => budget'[r][l] # "none"
             /\ Answered(calls'[r][l]) => calls'[r][l].verdict \in Verdicts
             /\ calls'[r][l].billed => calls'[r][l].state = "provider_invalid"
             /\ budget'[r][l] = "actual" => Measured(calls'[r][l])
  <2>1. CASE r = q /\ l = k
    BY <1>1, <2>1
  <2>2. CASE ~(r = q /\ l = k)
    <3>1. calls'[r][l] = calls[r][l]
      BY <1>1, <2>2
    <3> QED BY <1>0, <3>1 DEF Sent
  <2> QED BY <2>1, <2>2
<1> QED BY <1>0, <1>1, <1>2 DEF Sent, Answered, Measured

\* One reservation changes.
LEMMA BudgetAt ==
  ASSUME ReviewInv, NEW q \in Review, NEW k \in Try, NEW b \in Settled \union {"reserved"},
         budget' = [budget EXCEPT ![q][k] = b], calls' = calls,
         b = "actual" => Measured(calls[q][k])
  PROVE  /\ Sent' /\ calls' \in [Review -> [Try -> CallRecord]] /\ budget'[q][k] = b
         /\ budget' \in [Review -> [Try -> Settled \union {"none", "reserved"}]]
         /\ \A r \in Review : r # q => calls'[r] = calls[r] /\ budget'[r] = budget[r]
<1>0. /\ Sent /\ calls \in [Review -> [Try -> CallRecord]]
      /\ budget \in [Review -> [Try -> Settled \union {"none", "reserved"}]]
  BY DEF ReviewInv, ReviewTypeOK
<1>1. /\ budget' \in [Review -> [Try -> Settled \union {"none", "reserved"}]] /\ budget'[q][k] = b
      /\ \A r \in Review : r # q => budget'[r] = budget[r]
      /\ \A r \in Review, l \in Try : r # q \/ l # k => budget'[r][l] = budget[r][l]
  BY <1>0
<1>2. b # "none"
  BY DEF Settled
<1>3. Sent'
  BY <1>0, <1>1, <1>2 DEF Sent, Answered, Measured
<1> QED BY <1>0, <1>1, <1>3

\* The same review, with the scope and the input it was frozen with.
SameReview(a, m) ==
  /\ m \in Reviewing /\ actor' = [actor EXCEPT ![a] = m] /\ actor'[a] = m
  /\ m.r = actor[a].r /\ m.scope = actor[a].scope /\ m.frozen = actor[a].frozen

\* The next await point.
LEMMA Goes ==
  ASSUME ReviewInv, NEW a \in Actor, Reviews(a),
         NEW pc \in {"prepare", "check", "request", "reserve", "call", "provider", "settle", "apply", "mark"},
         Go(a, pc)
  PROVE  \E m : /\ SameReview(a, m) /\ m.pc = pc /\ m.k = actor[a].k
                /\ m.next = actor[a].next /\ m.verdict = actor[a].verdict
<1>1. PICK m : m = [actor[a] EXCEPT !.pc = pc]
  OBVIOUS
<1>2. actor[a] \in Reviewing /\ actor \in [Actor -> {Idle} \union ToolCall \union Reviewing]
  BY InReview DEF ReviewInv, ReviewTypeOK
<1>3. /\ m \in Reviewing /\ m.pc = pc /\ m.k = actor[a].k /\ m.next = actor[a].next
      /\ m.verdict = actor[a].verdict
      /\ m.r = actor[a].r /\ m.scope = actor[a].scope /\ m.frozen = actor[a].frozen
  BY <1>1, <1>2 DEF Reviewing
<1>4. actor' = [actor EXCEPT ![a] = m] /\ actor'[a] = m
  BY <1>1, <1>2 DEF Go
<1> QED BY <1>3, <1>4 DEF SameReview

\* The decision is made without the reviewer's answer.
LEMMA Decides ==
  ASSUME ReviewInv, NEW a \in Actor, Reviews(a), NEW v \in Verdicts, Decide(a, v)
  PROVE  \E m : /\ SameReview(a, m) /\ m.pc = "apply" /\ m.verdict = v
                /\ m.k = actor[a].k /\ m.next = actor[a].next
<1>1. PICK m : m = [actor[a] EXCEPT !.pc = "apply", !.verdict = v]
  OBVIOUS
<1>2. actor[a] \in Reviewing /\ actor \in [Actor -> {Idle} \union ToolCall \union Reviewing]
  BY InReview DEF ReviewInv, ReviewTypeOK
<1>3. /\ m \in Reviewing /\ m.pc = "apply" /\ m.k = actor[a].k /\ m.next = actor[a].next
      /\ m.verdict = v
      /\ m.r = actor[a].r /\ m.scope = actor[a].scope /\ m.frozen = actor[a].frozen
  BY <1>1, <1>2 DEF Reviewing
<1>4. actor' = [actor EXCEPT ![a] = m] /\ actor'[a] = m
  BY <1>1, <1>2 DEF Decide
<1> QED BY <1>3, <1>4 DEF SameReview

\* The attempt is settled next.
LEMMA SettleKeeps ==
  ASSUME ReviewInv, NEW a \in Actor, Reviews(a), NEW s \in Settled,
         NEW n \in {"reserve", "apply", "throw"}, NEW caught \in BOOLEAN, NEW started \in BOOLEAN,
         NEW v \in Verdicts \union {"none"}, ToSettle(a, s, n, caught, started, v)
  PROVE  \E m : /\ SameReview(a, m) /\ m.pc = "settle" /\ m.settle = s /\ m.next = n
                /\ m.verdict = v /\ m.k = actor[a].k
<1>0. PICK w \in Verdicts \union {"none"} : w = (IF started \/ v = "none" THEN actor[a].saved ELSE v)
  BY InReview DEF ReviewInv, Reviewing
<1>1. PICK m : m = [actor[a] EXCEPT !.pc = "settle", !.settle = s, !.next = n, !.caught = caught,
                                    !.started = started, !.verdict = v, !.saved = w]
  OBVIOUS
<1>2. actor[a] \in Reviewing /\ actor \in [Actor -> {Idle} \union ToolCall \union Reviewing]
  BY InReview DEF ReviewInv, ReviewTypeOK
<1>3. /\ m \in Reviewing /\ m.pc = "settle" /\ m.settle = s /\ m.next = n /\ m.verdict = v
      /\ m.k = actor[a].k
      /\ m.r = actor[a].r /\ m.scope = actor[a].scope /\ m.frozen = actor[a].frozen
  <2> PICK x \in Reviewing : x = actor[a]
    BY <1>2
  <2>a. m = [x EXCEPT !.pc = "settle", !.settle = s, !.next = n, !.caught = caught,
                      !.started = started, !.verdict = v, !.saved = w]
    BY <1>1
  <2>b. /\ x.r \in Review /\ x.scope \in Scope /\ x.k \in Nat \ {0} /\ x.frozen \in FrozenInput
        /\ "settle" \in {"prepare", "check", "request", "reserve", "call", "provider", "settle", "apply", "mark"}
        /\ s \in Settled \union {"none"} /\ n \in {"none", "reserve", "apply", "throw"}
    BY DEF Reviewing
  <2>c. m = [pc |-> "settle", r |-> x.r, scope |-> x.scope, k |-> x.k, verdict |-> v, settle |-> s,
             next |-> n, caught |-> caught, started |-> started, saved |-> w, frozen |-> x.frozen]
    BY <2>a DEF Reviewing
  <2>1. m \in Reviewing
    BY <2>b, <2>c DEF Reviewing
  <2>2. m.pc = "settle" /\ m.settle = s /\ m.next = n /\ m.verdict = v
    BY <1>1, <1>2 DEF Reviewing
  <2>3. /\ m.k = actor[a].k
        /\ m.r = actor[a].r /\ m.scope = actor[a].scope /\ m.frozen = actor[a].frozen
    BY <1>1, <1>2 DEF Reviewing
  <2> QED BY <2>1, <2>2, <2>3
<1>4. actor' = [actor EXCEPT ![a] = m] /\ actor'[a] = m
  BY <1>0, <1>1, <1>2 DEF ToSettle
<1> QED BY <1>3, <1>4 DEF SameReview

\* The number of troubles only grows within its bound.
LEMMA Troubled ==
  ReviewInv => /\ trouble' = trouble => trouble' \in 0 .. MaxTrouble
               /\ trouble < MaxTrouble /\ trouble' = trouble + 1 => trouble' \in 0 .. MaxTrouble
BY ReviewAssumption DEF ReviewInv, ReviewTypeOK

LEMMA CheckStep ==
  ASSUME ReviewInv, NEW a \in Actor, Check(a)
  PROVE  ReviewInv'
<1>1. /\ Reviews(a) /\ actor[a].pc = "check"
      /\ UNCHANGED <<strict, reviews, calls, budget, completed, trouble>>
  BY DEF Check, Reviews
<1>2. Owed(a) /\ actor[a].next # "apply"
  BY <1>1, InReview DEF Owed
<1>3. CASE Decide(a, "needs_fix") \/ Decide(a, "blocked") \/ Decide(a, "accepted")
  <2>1. PICK v \in Verdicts : Decide(a, v)
    BY <1>3 DEF Verdicts
  <2>2. PICK m : /\ SameReview(a, m) /\ m.pc = "apply" /\ m.verdict = v
                 /\ m.k = actor[a].k /\ m.next = actor[a].next
    BY <1>1, <2>1, Decides
  <2>3. Owed(a)'
    BY <1>2, <2>2 DEF Owed, SameReview
  <2> QED BY <1>1, <2>2, <2>3, StoresStay, WithinReview, Troubled DEF SameReview
<1>4. CASE Go(a, "request")
  <2>1. PICK m : /\ SameReview(a, m) /\ m.pc = "request" /\ m.k = actor[a].k
                 /\ m.next = actor[a].next
    BY <1>1, <1>4, Goes
  <2>2. Owed(a)'
    BY <1>2, <2>1 DEF Owed, SameReview
  <2> QED BY <1>1, <2>1, <2>2, StoresStay, WithinReview, Troubled DEF SameReview
<1> QED BY <1>3, <1>4 DEF Check

LEMMA ReserveStep ==
  ASSUME ReviewInv, NEW a \in Actor, Reserve(a)
  PROVE  ReviewInv'
<1>1. /\ Reviews(a) /\ actor[a].pc = "reserve"
      /\ UNCHANGED <<strict, reviews, calls, completed, trouble>>
  BY DEF Reserve, Reviews
<1>2. Owed(a) /\ actor[a].next # "apply" /\ actor[a].k \in Nat \ {0} /\ actor[a].r \in Review
  BY <1>1, InReview DEF Owed
<1>3. CASE actor[a].k > MaxTries /\ Exhausted(a) /\ budget' = budget
  <2>0. PICK v \in Verdicts : Decide(a, v)
    <3>1. actor[a].saved \in Verdicts \union {"none"}
      BY <1>1, InReview DEF Reviewing
    <3>2. PICK v \in Verdicts : v = (IF actor[a].saved = "none" THEN "blocked" ELSE actor[a].saved)
      BY <3>1 DEF Verdicts
    <3> QED BY <1>3, <3>2 DEF Exhausted
  <2>1. PICK m : /\ SameReview(a, m) /\ m.pc = "apply" /\ m.verdict = v
                 /\ m.k = actor[a].k /\ m.next = actor[a].next
    BY <1>1, <2>0, Decides
  <2>2. Owed(a)'
    BY <1>2, <2>1 DEF Owed, SameReview, Verdicts
  <2> QED BY <1>1, <1>3, <2>1, <2>2, StoresStay, WithinReview, Troubled DEF SameReview
<1>4. CASE /\ ~(actor[a].k > MaxTries) /\ Go(a, "call")
           /\ budget' = [budget EXCEPT ![actor[a].r][actor[a].k] = IF @ = "none" THEN "reserved" ELSE @]
  <2>1. PICK m : /\ SameReview(a, m) /\ m.pc = "call" /\ m.k = actor[a].k
                 /\ m.next = actor[a].next
    BY <1>1, <1>4, Goes
  <2>2. PICK r \in Review, k \in Try : r = actor[a].r /\ k = actor[a].k
    BY <1>2, <1>4, ReviewAssumption DEF Try
  <2>3. PICK b : b = IF budget[r][k] = "none" THEN "reserved" ELSE budget[r][k]
    OBVIOUS
  <2>4. /\ budget \in [Review -> [Try -> Settled \union {"none", "reserved"}]]
        /\ budget[r][k] = "actual" => Measured(calls[r][k])
    BY DEF ReviewInv, ReviewTypeOK, Sent
  <2>5. budget' = [budget EXCEPT ![r][k] = b] /\ b \in Settled \union {"reserved"}
    BY <1>4, <2>2, <2>3, <2>4
  <2>6. b = "actual" => Measured(calls[r][k])
    BY <2>3, <2>4
  <2>7. /\ Sent' /\ calls' \in [Review -> [Try -> CallRecord]] /\ budget'[r][k] = b
        /\ budget' \in [Review -> [Try -> Settled \union {"none", "reserved"}]]
        /\ \A l \in Review : l # r => calls'[l] = calls[l] /\ budget'[l] = budget[l]
    BY <1>1, <2>5, <2>6, BudgetAt
  <2>8. b # "none"
    BY <2>5 DEF Settled
  <2>9. Owed(a)'
    BY <1>2, <2>1, <2>2, <2>7, <2>8 DEF Owed, SameReview
  <2> QED BY <1>1, <2>1, <2>2, <2>7, <2>9, WithinReview, Troubled DEF SameReview
<1> QED BY <1>3, <1>4 DEF Reserve, Exhausted

LEMMA CallStep ==
  ASSUME ReviewInv, NEW a \in Actor, Call(a)
  PROVE  ReviewInv'
<1>1. /\ Reviews(a) /\ actor[a].pc = "call"
      /\ UNCHANGED <<strict, reviews, budget, completed, trouble>>
  BY DEF Call, Reviews
<1>2. /\ actor[a].next # "apply" /\ actor[a].r \in Review /\ actor[a].k \in Try
      /\ budget[actor[a].r][actor[a].k] # "none"
  BY <1>1, InReview DEF Owed
<1>3. PICK r \in Review, k \in Try : r = actor[a].r /\ k = actor[a].k
  BY <1>2
<1>4. PICK c \in CallRecord : c = calls[r][k]
  BY DEF ReviewInv, ReviewTypeOK
<1>5. /\ budget[r][k] # "none" /\ calls \in [Review -> [Try -> CallRecord]]
      /\ c.state \in {"none", "reserved"} => c.sent = 0
      /\ Answered(c) => c.verdict \in Verdicts
      /\ c.billed => c.state = "provider_invalid"
      /\ budget[r][k] = "actual" => Measured(c)
  BY <1>2, <1>3, <1>4 DEF ReviewInv, ReviewTypeOK, Sent
<1>6. CASE MayStart(c)
  <2>0. c.sent = 0 /\ budget[r][k] # "actual" /\ ~c.billed
    BY <1>5, <1>6 DEF MayStart, Measured, Answered
  <2>n. PICK n \in Nat : n = c.sent + 1 /\ n = 1
    BY <2>0
  <2>1. PICK d : d = [c EXCEPT !.state = "provider_started", !.sent = n]
    OBVIOUS
  <2>2. calls' = [calls EXCEPT ![r][k] = d] /\ Go(a, "provider")
    BY <1>3, <1>4, <1>6, <2>n, <2>1 DEF Call
  <2>3. d \in CallRecord /\ d.state = "provider_started" /\ d.sent = 1 /\ ~d.billed
    <3>1. PICK s \in CallState : s = "provider_started"
      BY DEF CallState
    <3>2. d = [c EXCEPT !.state = s, !.sent = n]
      BY <2>1, <3>1
    <3>3. d \in CallRecord /\ d.state = s /\ d.sent = n /\ d.billed = c.billed
      BY <1>4, <2>n, <3>1, <3>2 DEF CallRecord
    <3> QED BY <2>0, <2>n, <3>1, <3>3
  <2>4. /\ Sent' /\ calls' \in [Review -> [Try -> CallRecord]] /\ calls'[r][k] = d
        /\ budget' \in [Review -> [Try -> Settled \union {"none", "reserved"}]]
        /\ \A l \in Review : l # r => calls'[l] = calls[l] /\ budget'[l] = budget[l]
    <3>1. d.sent <= 1 /\ ~Answered(d) /\ d.state \notin {"none", "reserved"}
      BY <2>3 DEF Answered
    <3> QED BY <1>1, <1>5, <2>0, <2>2, <2>3, <3>1, CallsAt
  <2>5. PICK m : /\ SameReview(a, m) /\ m.pc = "provider" /\ m.k = actor[a].k
                 /\ m.next = actor[a].next
    BY <1>1, <2>2, Goes
  <2>6. Owed(a)'
    BY <1>1, <1>2, <1>3, <1>5, <2>3, <2>4, <2>5 DEF Owed, SameReview
  <2> QED BY <1>1, <1>3, <2>4, <2>5, <2>6, WithinReview, Troubled DEF SameReview
<1>7. CASE ~MayStart(c)
  <2>1. calls' = calls
    BY <1>3, <1>4, <1>7 DEF Call
  <2>2. PICK s \in Settled, n \in {"reserve", "apply"}, v \in Verdicts \union {"none"},
             caught \in BOOLEAN, started \in BOOLEAN :
          /\ ToSettle(a, s, n, caught, started, v)
          /\ s = "actual" => Measured(c)
          /\ n = "apply" => Answered(c) /\ v \in Verdicts
    <3>1. CASE c.state \in {"provider_invalid", "provider_unknown"}
      <4>1. ToSettle(a, IF c.billed THEN "actual" ELSE "unknown", "reserve", FALSE, FALSE, "none")
        BY <1>3, <1>4, <1>7, <3>1 DEF Call
      <4>2. (IF c.billed THEN "actual" ELSE "unknown") \in Settled
        BY DEF Settled
      <4>3. c.billed => Measured(c)
        BY <1>5 DEF Measured
      <4> QED BY <4>1, <4>2, <4>3
    <3>2. CASE c.state \in {"provider_completed", "decision_committed"}
      <4>1. ToSettle(a, "actual", "apply", FALSE, FALSE, c.verdict)
        BY <1>3, <1>4, <1>7, <3>2 DEF Call
      <4> QED BY <1>5, <3>2, <4>1 DEF Settled, Measured, Answered
    <3>3. CASE c.state \notin {"provider_invalid", "provider_unknown", "provider_completed",
                               "decision_committed"}
      <4>1. ToSettle(a, "unknown", "reserve", TRUE, TRUE, "none")
        BY <1>3, <1>4, <1>7, <3>3 DEF Call
      <4> QED BY <4>1 DEF Settled
    <3> QED BY <3>1, <3>2, <3>3
  <2>3. PICK m : /\ SameReview(a, m) /\ m.pc = "settle" /\ m.settle = s /\ m.next = n
                 /\ m.verdict = v /\ m.k = actor[a].k
    BY <1>1, <2>2, SettleKeeps
  <2>4. Owed(a)'
    BY <1>1, <1>3, <1>4, <1>5, <2>1, <2>2, <2>3 DEF Owed, SameReview, Settled
  <2> QED BY <1>1, <2>1, <2>3, <2>4, StoresStay, WithinReview, Troubled DEF SameReview
<1> QED BY <1>6, <1>7

\* The provider answered, failed or was aborted: the record of a started call is written.
LEMMA ProviderRecord ==
  ASSUME ReviewInv, NEW a \in Actor, Reviews(a), actor[a].pc = "provider", NEW d \in CallRecord,
         calls' = [calls EXCEPT ![actor[a].r][actor[a].k] = d], budget' = budget,
         d.sent = calls[actor[a].r][actor[a].k].sent,
         d.state \notin {"none", "reserved"}, Answered(d) => d.verdict \in Verdicts,
         d.billed => d.state = "provider_invalid"
  PROVE  /\ Sent' /\ calls' \in [Review -> [Try -> CallRecord]]
         /\ budget' \in [Review -> [Try -> Settled \union {"none", "reserved"}]]
         /\ \A l \in Review : l # actor[a].r => calls'[l] = calls[l] /\ budget'[l] = budget[l]
         /\ calls'[actor[a].r][actor[a].k] = d
<1>1. PICK r \in Review, k \in Try : r = actor[a].r /\ k = actor[a].k
  BY InReview DEF Owed
<1>2. /\ budget[r][k] # "none" /\ calls[r][k].state = "provider_started"
      /\ calls[r][k].sent <= 1
      /\ budget[r][k] = "actual" => Measured(calls[r][k])
  BY <1>1, InReview DEF Owed, ReviewInv, Sent
<1>3. budget[r][k] # "actual"
  BY <1>2 DEF Measured, Answered
<1>4. calls' = [calls EXCEPT ![r][k] = d] /\ d.sent <= 1
  BY <1>1, <1>2
<1>5. /\ Sent' /\ calls' \in [Review -> [Try -> CallRecord]] /\ calls'[r][k] = d
      /\ budget' \in [Review -> [Try -> Settled \union {"none", "reserved"}]]
      /\ \A l \in Review : l # r => calls'[l] = calls[l] /\ budget'[l] = budget[l]
  BY <1>2, <1>3, <1>4, CallsAt
<1> QED BY <1>1, <1>5

LEMMA ProviderStep ==
  ASSUME ReviewInv, NEW a \in Actor, Provider(a) \/ Aborted(a)
  PROVE  ReviewInv'
<1>1. /\ Reviews(a) /\ actor[a].pc = "provider" /\ trouble' \in 0 .. MaxTrouble
      /\ UNCHANGED <<strict, reviews, budget, completed>>
  BY Troubled DEF Provider, Aborted, Reviews
<1>2. /\ actor[a].r \in Review /\ actor[a].k \in Try
      /\ budget[actor[a].r][actor[a].k] # "none"
  BY <1>1, InReview DEF Owed
<1>3. PICK c \in CallRecord : c = calls[actor[a].r][actor[a].k]
  BY <1>2 DEF ReviewInv, ReviewTypeOK
<1>4. /\ ~c.billed /\ c.state = "provider_started"
      /\ calls \in [Review -> [Try -> CallRecord]]
  BY <1>1, <1>2, <1>3, InReview DEF Owed, ReviewInv, ReviewTypeOK, Sent
<1>5. SUFFICES ASSUME NEW s \in Settled, NEW n \in {"reserve", "apply", "throw"},
                      NEW v \in Verdicts \union {"none"},
                      ToSettle(a, s, n, TRUE, TRUE, v) \/ ToSettle(a, s, n, FALSE, TRUE, v),
                      Sent', calls' \in [Review -> [Try -> CallRecord]],
                      budget' \in [Review -> [Try -> Settled \union {"none", "reserved"}]],
                      \A l \in Review : l # actor[a].r => calls'[l] = calls[l] /\ budget'[l] = budget[l],
                      s = "actual" => Measured(calls'[actor[a].r][actor[a].k]),
                      n = "apply" => /\ Answered(calls'[actor[a].r][actor[a].k]) /\ v \in Verdicts
               PROVE  ReviewInv'
  <2>1. CASE \E v \in Verdicts :
               /\ calls' = [calls EXCEPT ![actor[a].r][actor[a].k] =
                              [@ EXCEPT !.state = "provider_completed", !.verdict = v]]
               /\ ToSettle(a, "actual", "apply", FALSE, TRUE, v)
    <3>1. PICK v \in Verdicts :
               /\ calls' = [calls EXCEPT ![actor[a].r][actor[a].k] =
                              [c EXCEPT !.state = "provider_completed", !.verdict = v]]
               /\ ToSettle(a, "actual", "apply", FALSE, TRUE, v)
      BY <1>3, <2>1
    <3>s. PICK s \in CallState : s = "provider_completed"
      BY DEF CallState
    <3>2. PICK d : d = [c EXCEPT !.state = s, !.verdict = v]
      OBVIOUS
    <3>3. /\ d \in CallRecord /\ d.state = s /\ d.sent = c.sent /\ d.verdict = v
          /\ d.billed = c.billed
      BY <1>3, <3>1, <3>s, <3>2 DEF CallRecord
    <3>4. /\ Answered(d) /\ Measured(d) /\ ~d.billed /\ d.state \notin {"none", "reserved"}
          /\ calls' = [calls EXCEPT ![actor[a].r][actor[a].k] = d]
      BY <1>4, <3>1, <3>s, <3>2, <3>3 DEF Answered, Measured
    <3>5. /\ Sent' /\ calls' \in [Review -> [Try -> CallRecord]]
          /\ budget' \in [Review -> [Try -> Settled \union {"none", "reserved"}]]
          /\ \A l \in Review : l # actor[a].r => calls'[l] = calls[l] /\ budget'[l] = budget[l]
          /\ calls'[actor[a].r][actor[a].k] = d
      BY <1>1, <1>3, <3>1, <3>3, <3>4, ProviderRecord
    <3> QED BY <1>5, <3>1, <3>4, <3>5 DEF Settled
  <2>2. CASE \E billed \in BOOLEAN :
               /\ calls' = [calls EXCEPT ![actor[a].r][actor[a].k] =
                              [@ EXCEPT !.state = IF billed THEN "provider_invalid"
                                                  ELSE "provider_unknown",
                                        !.billed = billed]]
               /\ ToSettle(a, IF billed THEN "actual" ELSE "unknown", "reserve", TRUE, TRUE, "none")
    <3>1. PICK billed \in BOOLEAN :
               /\ calls' = [calls EXCEPT ![actor[a].r][actor[a].k] =
                              [c EXCEPT !.state = IF billed THEN "provider_invalid"
                                                  ELSE "provider_unknown",
                                        !.billed = billed]]
               /\ ToSettle(a, IF billed THEN "actual" ELSE "unknown", "reserve", TRUE, TRUE, "none")
      BY <1>3, <2>2
    <3>2. PICK s \in CallState : s = IF billed THEN "provider_invalid" ELSE "provider_unknown"
      BY DEF CallState
    <3>3. PICK d : d = [c EXCEPT !.state = s, !.billed = billed]
      OBVIOUS
    <3>4. /\ d \in CallRecord /\ d.state = s /\ d.sent = c.sent /\ d.verdict = c.verdict
          /\ d.billed = billed
      BY <1>3, <3>1, <3>2, <3>3 DEF CallRecord
    <3>5. /\ ~Answered(d) /\ (billed => Measured(d)) /\ d.state \notin {"none", "reserved"}
          /\ d.billed => d.state = "provider_invalid"
          /\ calls' = [calls EXCEPT ![actor[a].r][actor[a].k] = d]
      BY <3>1, <3>2, <3>3, <3>4 DEF Answered, Measured
    <3>6. /\ Sent' /\ calls' \in [Review -> [Try -> CallRecord]]
          /\ budget' \in [Review -> [Try -> Settled \union {"none", "reserved"}]]
          /\ \A l \in Review : l # actor[a].r => calls'[l] = calls[l] /\ budget'[l] = budget[l]
          /\ calls'[actor[a].r][actor[a].k] = d
      BY <1>1, <1>3, <3>4, <3>5, ProviderRecord
    <3>7. PICK t \in Settled : t = IF billed THEN "actual" ELSE "unknown"
      BY DEF Settled
    <3>8. ToSettle(a, t, "reserve", TRUE, TRUE, "none") /\ (t = "actual" => Measured(d))
      BY <3>1, <3>5, <3>7
    <3> QED BY <1>5, <3>6, <3>7, <3>8
  <2>3. CASE calls' = calls /\ ToSettle(a, "unknown", "reserve", TRUE, TRUE, "none")
    BY <1>1, <1>5, <2>3, StoresStay DEF Settled
  <2>4. CASE /\ calls' = [calls EXCEPT ![actor[a].r][actor[a].k].state = "provider_unknown"]
             /\ ToSettle(a, "unknown", "throw", TRUE, TRUE, "none")
    <3>1. PICK s \in CallState : s = "provider_unknown"
      BY DEF CallState
    <3>2. PICK d : d = [c EXCEPT !.state = s]
      OBVIOUS
    <3>3. d \in CallRecord /\ d.state = s /\ d.sent = c.sent /\ d.billed = c.billed
      BY <1>3, <3>1, <3>2 DEF CallRecord
    <3>4. /\ ~Answered(d) /\ ~d.billed /\ d.state \notin {"none", "reserved"}
          /\ calls' = [calls EXCEPT ![actor[a].r][actor[a].k] = d]
      BY <1>3, <1>4, <2>4, <3>1, <3>2, <3>3 DEF Answered
    <3>5. /\ Sent' /\ calls' \in [Review -> [Try -> CallRecord]]
          /\ budget' \in [Review -> [Try -> Settled \union {"none", "reserved"}]]
          /\ \A l \in Review : l # actor[a].r => calls'[l] = calls[l] /\ budget'[l] = budget[l]
      BY <1>1, <1>3, <3>3, <3>4, ProviderRecord
    <3> QED BY <1>5, <2>4, <3>5 DEF Settled
  <2> QED BY <2>1, <2>2, <2>3, <2>4 DEF Provider, Aborted
<1>6. PICK m : /\ SameReview(a, m) /\ m.pc = "settle" /\ m.settle = s /\ m.next = n
               /\ m.verdict = v /\ m.k = actor[a].k
  <2>1. PICK caught \in BOOLEAN, started \in BOOLEAN : ToSettle(a, s, n, caught, started, v)
    BY <1>5
  <2> QED BY <1>1, <2>1, SettleKeeps
<1>7. Owed(a)'
  <2>1. s # "none"
    BY DEF Settled
  <2> QED BY <1>1, <1>2, <1>5, <1>6, <2>1 DEF Owed, SameReview
<1> QED BY <1>1, <1>5, <1>6, <1>7, WithinReview DEF SameReview

\* A settlement that failed: caught once, it is settled again; else review() is left.
LEMMA SettleFailsStep ==
  ASSUME ReviewInv, NEW a \in Actor, actor[a].pc = "settle", SettleFails(a),
         UNCHANGED <<strict, reviews, calls, budget, completed>>, trouble' \in 0 .. MaxTrouble
  PROVE  ReviewInv'
<1>1. Reviews(a)
  BY DEF Reviews
<1>2. CASE actor[a].caught
  <2>1. Throw(a)
    BY <1>2 DEF SettleFails
  <2> QED BY <2>1, LeaveStep
<1>3. CASE ~actor[a].caught
  <2>1. PICK s \in Settled : s = (IF actor[a].started THEN "unknown" ELSE "released")
    BY DEF Settled
  <2>2. actor[a].started \in BOOLEAN
    BY <1>1, InReview DEF Reviewing
  <2>3. PICK n \in {"reserve", "apply", "throw"}, v \in Verdicts \union {"none"},
             caught \in BOOLEAN, started \in BOOLEAN :
          ToSettle(a, s, n, caught, started, v) /\ n = "reserve"
    BY <1>3, <2>1, <2>2 DEF SettleFails
  <2>4. PICK m : /\ SameReview(a, m) /\ m.pc = "settle" /\ m.settle = s /\ m.next = n
                 /\ m.verdict = v /\ m.k = actor[a].k
    BY <1>1, <2>3, SettleKeeps
  <2>5. /\ actor[a].k \in Try /\ budget[actor[a].r][actor[a].k] # "none"
        /\ s # "none" /\ s # "actual"
    BY <1>1, <2>1, InReview DEF Owed
  <2>6. Owed(a)'
    BY <2>3, <2>4, <2>5 DEF Owed, SameReview
  <2> QED BY <1>1, <2>4, <2>6, StoresStay, WithinReview DEF SameReview
<1> QED BY <1>2, <1>3

LEMMA SettleStep ==
  ASSUME ReviewInv, NEW a \in Actor, Settle(a)
  PROVE  ReviewInv'
<1>1. /\ Reviews(a) /\ actor[a].pc = "settle"
      /\ UNCHANGED <<strict, reviews, calls, completed, trouble>>
  BY DEF Settle, Reviews
<1>2. /\ Owed(a) /\ actor[a].settle \in Settled /\ actor[a].k \in Nat
      /\ actor[a] \in Reviewing
  BY <1>1, InReview DEF Owed, Reviewing
<1>3. PICK r \in Review, k \in Try : r = actor[a].r /\ k = actor[a].k
  BY <1>1, InReview DEF Owed
<1>4. CASE ~SettleAs(budget[actor[a].r][actor[a].k], actor[a].settle)
  <2>1. SettleFails(a) /\ budget' = budget
    BY <1>4 DEF Settle
  <2> QED BY <1>1, <2>1, SettleFailsStep, Troubled
<1>5. CASE SettleAs(budget[actor[a].r][actor[a].k], actor[a].settle)
  <2>1. budget' = [budget EXCEPT ![r][k] = actor[a].settle] /\ AfterSettle(a)
    BY <1>3, <1>5 DEF Settle
  <2>2. actor[a].settle = "actual" => Measured(calls[r][k])
    BY <1>1, <1>2, <1>3 DEF Owed
  <2>3. PICK s \in Settled \union {"reserved"} : s = actor[a].settle
    BY <1>2
  <2>4. /\ Sent' /\ calls' \in [Review -> [Try -> CallRecord]]
        /\ budget' \in [Review -> [Try -> Settled \union {"none", "reserved"}]]
        /\ \A l \in Review : l # r => calls'[l] = calls[l] /\ budget'[l] = budget[l]
    BY <1>1, <2>1, <2>2, <2>3, BudgetAt
  <2>5. actor \in [Actor -> {Idle} \union ToolCall \union Reviewing]
    BY DEF ReviewInv, ReviewTypeOK
  <2>6. PICK me : me = [actor[a] EXCEPT !.settle = "none", !.caught = FALSE, !.started = FALSE]
    OBVIOUS
  <2>7. /\ me \in Reviewing /\ me.r = actor[a].r /\ me.scope = actor[a].scope
        /\ me.frozen = actor[a].frozen /\ me.k = actor[a].k /\ me.next = actor[a].next
        /\ me.verdict = actor[a].verdict
    BY <1>2, <2>6 DEF Reviewing
  <2>8. CASE actor[a].next = "reserve"
    <3>1. PICK n \in Nat \ {0} : n = me.k + 1
      BY <1>2, <2>7
    <3>2. PICK m : m = [me EXCEPT !.pc = "reserve", !.k = n, !.next = "none"]
      OBVIOUS
    <3>3. /\ m \in Reviewing /\ m.pc = "reserve" /\ m.next = "none" /\ m.r = me.r
          /\ m.scope = me.scope /\ m.frozen = me.frozen
      BY <2>7, <3>1, <3>2 DEF Reviewing
    <3>4. actor' = [actor EXCEPT ![a] = m]
      BY <2>1, <2>6, <2>7, <2>8, <3>1, <3>2 DEF AfterSettle
    <3>5. SameReview(a, m)
      BY <2>5, <2>7, <3>3, <3>4 DEF SameReview
    <3>6. Owed(a)'
      BY <3>3, <3>5 DEF Owed, SameReview
    <3> QED BY <1>1, <1>3, <2>4, <3>5, <3>6, WithinReview, Troubled DEF SameReview
  <2>9. CASE actor[a].next = "apply"
    <3>1. PICK m : m = [me EXCEPT !.pc = "apply"]
      OBVIOUS
    <3>2. /\ m \in Reviewing /\ m.pc = "apply" /\ m.next = "apply" /\ m.r = me.r
          /\ m.scope = me.scope /\ m.frozen = me.frozen /\ m.k = me.k /\ m.verdict = me.verdict
      BY <2>7, <2>9, <3>1 DEF Reviewing
    <3>3. actor' = [actor EXCEPT ![a] = m]
      BY <2>1, <2>6, <2>7, <2>9, <3>1 DEF AfterSettle
    <3>4. SameReview(a, m)
      BY <2>5, <2>7, <3>2, <3>3 DEF SameReview
    <3>5. Owed(a)'
      BY <1>1, <1>2, <2>7, <2>9, <3>2, <3>4 DEF Owed, SameReview
    <3> QED BY <1>1, <1>3, <2>4, <3>4, <3>5, WithinReview, Troubled DEF SameReview
  <2>10. CASE actor[a].next \notin {"reserve", "apply"}
    <3>1. Throw(a)
      BY <2>1, <2>6, <2>7, <2>10 DEF AfterSettle
    <3>2. PlanHolds' /\ HasPlan' /\ PlanShape'
      BY <1>1, InReview, ReviewsUnchanged, PlanStays
    <3>3. reviews' \in [Review -> ReviewRecord]
      BY <1>1 DEF ReviewInv, ReviewTypeOK
    <3> QED BY <1>1, <1>3, <2>4, <3>1, <3>2, <3>3, Leaves, Troubled
  <2> QED BY <2>8, <2>9, <2>10
<1> QED BY <1>4, <1>5

LEMMA FailureStep ==
  ASSUME ReviewInv, NEW a \in Actor, JournalFails(a) \/ CrashActor(a)
  PROVE  ReviewInv'
<1>1. /\ UNCHANGED <<strict, reviews, calls, budget, completed>> /\ trouble' \in 0 .. MaxTrouble
  BY Troubled DEF JournalFails, CrashActor
<1>2. CASE actor[a].pc = "settle" /\ SettleFails(a)
  BY <1>1, <1>2, SettleFailsStep
<1>3. CASE actor[a].pc # "idle" /\ Throw(a)
  BY <1>1, <1>3, LeaveStep
<1>4. actor[a] # Idle => actor[a].pc # "idle"
  BY ActorRecords DEF ReviewInv
<1> QED BY <1>2, <1>3, <1>4 DEF JournalFails, CrashActor

LEMMA MarkStep ==
  ASSUME ReviewInv, NEW a \in Actor, Mark(a)
  PROVE  ReviewInv'
<1>1. /\ Reviews(a) /\ actor[a].pc = "mark" /\ Throw(a)
      /\ UNCHANGED <<strict, reviews, budget, completed, trouble>>
  BY DEF Mark, Reviews
<1>2. PICK r \in Review, k \in Try : r = actor[a].r /\ k = actor[a].k
  BY <1>1, InReview DEF Owed
<1>3. PICK c \in CallRecord : c = calls[r][k]
  BY DEF ReviewInv, ReviewTypeOK
<1>4. Answered(c)
  BY <1>1, <1>2, <1>3, InReview DEF Owed
<1>5. /\ calls \in [Review -> [Try -> CallRecord]] /\ c.sent <= 1 /\ budget[r][k] # "none"
      /\ c.verdict \in Verdicts /\ ~c.billed
  BY <1>3, <1>4 DEF ReviewInv, ReviewTypeOK, Sent, Answered
<1>6. PICK s \in CallState : s = "decision_committed"
  BY DEF CallState
<1>7. PICK d : d = [c EXCEPT !.state = s]
  OBVIOUS
<1>8. /\ d \in CallRecord /\ d.state = s /\ d.sent = c.sent /\ d.verdict = c.verdict
      /\ d.billed = c.billed
  BY <1>3, <1>6, <1>7 DEF CallRecord
<1>9. /\ Answered(d) /\ Measured(d) /\ d.state \notin {"none", "reserved"}
      /\ calls' = [calls EXCEPT ![r][k] = d]
  BY <1>2, <1>3, <1>5, <1>6, <1>7, <1>8 DEF Answered, Measured, Mark
<1>10. /\ Sent' /\ calls' \in [Review -> [Try -> CallRecord]]
       /\ budget' \in [Review -> [Try -> Settled \union {"none", "reserved"}]]
       /\ \A l \in Review : l # r => calls'[l] = calls[l] /\ budget'[l] = budget[l]
  BY <1>1, <1>5, <1>8, <1>9, CallsAt
<1>11. PlanHolds' /\ HasPlan' /\ PlanShape'
  BY <1>1, InReview, ReviewsUnchanged, PlanStays
<1>12. reviews' \in [Review -> ReviewRecord]
  BY <1>1 DEF ReviewInv, ReviewTypeOK
<1> QED BY <1>1, <1>2, <1>10, <1>11, <1>12, Leaves, Troubled

LEMMA CompleteStep ==
  ASSUME ReviewInv, CompleteRun
  PROVE  ReviewInv'
<1>1. /\ HasPlan /\ strict.state = "completed" /\ completed' = TRUE
      /\ UNCHANGED <<strict, reviews, calls, budget, actor, trouble>>
  BY DEF CompleteRun
<1>2. ReviewTypeOK'
  BY <1>1 DEF ReviewInv, ReviewTypeOK, HasPlan, PlanShape
<1>3. PlanHolds'
  BY <1>1 DEF ReviewInv, PlanHolds, HasPlan, Worded, Fenced, Earned, Whole, AllAccepted
<1>4. Sent' /\ OneReviewer'
  BY <1>1 DEF ReviewInv, Sent, OneReviewer, Reviews
<1>5. \A a \in Actor : Held(a)' /\ Owed(a)'
  BY <1>1 DEF ReviewInv, Held, Owed, Reviews, HasPlan
<1> QED BY <1>2, <1>3, <1>4, <1>5 DEF ReviewInv

LEMMA ToolStartStep ==
  ASSUME ReviewInv, NEW a \in Actor, ToolStart(a)
  PROVE  ReviewInv'
<1>1. /\ actor[a] = Idle /\ HasPlan
      /\ UNCHANGED <<strict, reviews, calls, budget, completed, trouble>>
  BY DEF ToolStart
<1>2. PICK i \in Item : actor' = [actor EXCEPT ![a] = [pc |-> "tool", item |-> i, rev |-> strict.rev,
                                                       attempt |-> strict.focus]]
  BY DEF ToolStart
<1>3. PICK m : m = [pc |-> "tool", item |-> i, rev |-> strict.rev, attempt |-> strict.focus]
  OBVIOUS
<1>4. strict.rev \in Nat /\ strict.focus \in Nat
  BY <1>1, PlanFacts DEF ReviewedPlan
<1>5. m \in ToolCall /\ m.pc = "tool"
  BY <1>3, <1>4 DEF ToolCall
<1>6. /\ actor' = [actor EXCEPT ![a] = m] /\ actor'[a] = m /\ ~Reviews(a)'
  BY <1>2, <1>3, <1>5 DEF ReviewInv, ReviewTypeOK, Reviews
<1>7. PlanHolds' /\ HasPlan' /\ PlanShape'
  BY <1>1, ReviewsUnchanged, PlanStays
<1>8. Held(a)' /\ Owed(a)'
  BY <1>6, <1>7 DEF Held, Owed
<1>9. PICK q : q = 0
  OBVIOUS
<1>10. \A b \in Actor : Reviews(b) /\ actor[b].r = q => b = a
  BY <1>9, InReview DEF Review
<1>11. reviews' \in [Review -> ReviewRecord]
  BY <1>1 DEF ReviewInv, ReviewTypeOK
<1> QED BY <1>1, <1>5, <1>6, <1>7, <1>8, <1>10, <1>11, StoresStay, StepOfOne, Troubled

\* One record of the plan's items changes, and the plan has its type.
LEMMA ItemEdit ==
  ASSUME ReviewInv, HasPlan, NEW i \in Item, NEW it \in PlanItem,
         strict' = [strict EXCEPT !.items[i] = it]
  PROVE  /\ strict' \in ReviewedPlan /\ strict'.items = [strict.items EXCEPT ![i] = it]
         /\ strict'.rev = strict.rev /\ strict'.replans = strict.replans /\ strict'.def = strict.def
         /\ strict'.final = strict.final /\ strict'.state = strict.state
         /\ strict'.focus = strict.focus
BY PlanFacts DEF ReviewedPlan

LEMMA ToolEndStep ==
  ASSUME ReviewInv, NEW a \in Actor, ToolEnd(a)
  PROVE  ReviewInv'
<1>1. /\ actor[a].pc = "tool" /\ Throw(a) /\ ~Reviews(a)
      /\ UNCHANGED <<reviews, calls, budget, completed, trouble>>
  BY DEF ToolEnd, Throw, Reviews
<1>2. HasPlan /\ actor[a].item \in Item
  BY <1>1, ActorRecords DEF ReviewInv, Held, ToolCall
<1>3. CASE strict' = strict
  BY <1>1, <1>3, LeaveStep, Troubled
<1>4. CASE strict' # strict
  <2>1. PICK i \in Item : i = actor[a].item
    BY <1>2
  <2>2. /\ AttemptLive(strict, i, actor[a].attempt)
        /\ strict' = [strict EXCEPT !.items[i].evidence = @ + 1]
    BY <1>4, <2>1 DEF ToolEnd
  <2>3. PICK n \in Nat : n = strict.items[i].evidence + 1
    BY <1>2, PlanFacts DEF PlanItem
  <2>4. PICK it : it = [strict.items[i] EXCEPT !.evidence = n]
    OBVIOUS
  <2>5. /\ strict.items[i] \in PlanItem /\ strict.items[i].state \notin {"absent", "accepted"}
        /\ strict.items[i].prepared = 0
        /\ strict.items[i].attempt # 0 <=> strict.items[i].state \in {"running", "review_requested"}
        /\ strict.items[i].open <=> strict.items[i].state = "running"
    BY <1>2, <2>2, PlanFacts DEF AttemptLive, PlanShape
  <2>6. /\ it \in PlanItem /\ it.state = strict.items[i].state /\ it.text = strict.items[i].text
        /\ it.prepared = 0 /\ it.attempt = strict.items[i].attempt /\ it.open = strict.items[i].open
    BY <2>3, <2>4, <2>5 DEF PlanItem
  <2>7. strict' = [strict EXCEPT !.items[i] = it]
    BY <2>2, <2>3, <2>4
  <2>8. ReviewsKept
    BY <1>1, ReviewsUnchanged
  <2>9. /\ strict' \in ReviewedPlan /\ strict'.items = [strict.items EXCEPT ![i] = it]
        /\ strict'.rev = strict.rev /\ strict'.replans = strict.replans /\ strict'.def = strict.def
        /\ strict'.final = strict.final /\ strict'.state = strict.state
    BY <1>2, <2>6, <2>7, ItemEdit
  <2>10. PlanHolds' /\ PlanShape' /\ HasPlan'
    BY <1>1, <1>2, <2>5, <2>6, <2>8, <2>9, ItemStep
  <2>11. reviews' \in [Review -> ReviewRecord]
    BY <2>8 DEF ReviewsKept
  <2> QED BY <1>1, <2>10, <2>11, StoresStay, Leaves, Troubled
<1> QED BY <1>3, <1>4

LEMMA ReviewStartStep ==
  ASSUME ReviewInv, NEW a \in Actor, NEW r \in Review, NEW scope \in Scope, ReviewStart(a, r, scope)
  PROVE  ReviewInv'
<1>1. /\ actor[a] = Idle /\ ~InUse(r) /\ HasPlan /\ (Invoked(r) => scope = reviews[r].scope)
      /\ reviews' = [reviews EXCEPT ![r].scope = scope]
      /\ UNCHANGED <<strict, calls, budget, completed, trouble>>
  BY DEF ReviewStart
<1>2. /\ reviews \in [Review -> ReviewRecord] /\ strict.rev \in Nat \ {0}
      /\ actor \in [Actor -> {Idle} \union ToolCall \union Reviewing]
  BY <1>1, PlanFacts DEF ReviewInv, ReviewTypeOK
<1>f. PICK f : f = IF scope = Final THEN [rev |-> strict.rev, attempt |-> 0, evidence |-> 0]
                   ELSE [rev |-> strict.rev, attempt |-> strict.items[scope].attempt,
                         evidence |-> strict.items[scope].evidence]
  OBVIOUS
<1>3. f \in FrozenInput /\ f.rev # 0 /\ (scope # Final => f.attempt # 0)
  <2>1. CASE scope = Final
    <3>1. f = [rev |-> strict.rev, attempt |-> 0, evidence |-> 0]
      BY <1>f, <2>1
    <3> QED BY <1>2, <2>1, <3>1 DEF FrozenInput
  <2>2. CASE scope # Final
    <3>1. /\ scope \in Item /\ strict.items[scope].attempt \in Nat /\ strict.items[scope].evidence \in Nat
          /\ strict.items[scope].attempt # 0
      BY <1>1, <2>2, PlanFacts DEF Scope, PlanItem, ReviewStart
    <3>2. f = [rev |-> strict.rev, attempt |-> strict.items[scope].attempt,
               evidence |-> strict.items[scope].evidence]
      BY <1>f, <2>2
    <3> QED BY <1>2, <3>1, <3>2 DEF FrozenInput
  <2> QED BY <2>1, <2>2
<1>4. PICK m : m = [pc |-> "prepare", r |-> r, scope |-> scope, k |-> 1, verdict |-> "none",
                    settle |-> "none", next |-> "none", caught |-> FALSE, started |-> FALSE,
                    saved |-> "none", frozen |-> f]
  OBVIOUS
<1>5. /\ m \in Reviewing /\ m.pc = "prepare" /\ m.r = r /\ m.scope = scope /\ m.frozen = f
      /\ m.next = "none"
  BY <1>3, <1>4 DEF Reviewing
<1>6. actor' = [actor EXCEPT ![a] = m] /\ actor'[a] = m
  BY <1>2, <1>f, <1>4 DEF ReviewStart
<1>7. /\ reviews' \in [Review -> ReviewRecord] /\ reviews'[r].scope = scope
      /\ reviews'[r].frozen = reviews[r].frozen /\ reviews'[r].verdict = reviews[r].verdict
      /\ \A q \in Review : q # r => reviews'[q] = reviews[q]
  BY <1>1, <1>2 DEF ReviewRecord
<1>8. ReviewsKept
  <2>1. ~Invoked(r) => reviews[r].scope = Final /\ reviews[r].frozen.rev = 0 /\ reviews[r].verdict = "none"
    BY DEF Invoked, NewReview
  <2>2. \A q \in Review : reviews[q].verdict # "none" => reviews[q].frozen.rev # 0
    BY DEF ReviewInv, PlanHolds
  <2> QED BY <1>1, <1>7, <2>1, <2>2 DEF ReviewsKept
<1>9. PlanHolds' /\ HasPlan' /\ PlanShape'
  BY <1>1, <1>8, PlanStays
<1>10. Held(a)' /\ Owed(a)'
  BY <1>3, <1>5, <1>6, <1>7, <1>9 DEF Held, Owed
<1>11. \A b \in Actor : Reviews(b) /\ actor[b].r = r => b = a
  BY <1>1 DEF InUse, Reviews
<1> QED BY <1>1, <1>5, <1>6, <1>7, <1>9, <1>10, <1>11, StoresStay, StepOfOne, Troubled

\* A step that freezes, requests or records the review of the whole.
LEMMA WholeStep ==
  ASSUME ReviewInv, HasPlan, ReviewsKept, completed' = completed,
         strict' \in ReviewedPlan, strict'.items = strict.items, strict'.def = strict.def,
         strict'.rev = strict.rev, strict'.replans = strict.replans, strict.state # "completed",
         strict'.final # 0 =>
           /\ AllAccepted(strict)
           /\ reviews'[strict'.final].scope = Final /\ reviews'[strict'.final].frozen.rev # 0,
         strict'.state = "completed" =>
           /\ strict'.final = 0 /\ AllAccepted(strict)
           /\ \E r \in Review : /\ reviews'[r].scope = Final /\ reviews'[r].verdict = "accepted"
                                /\ reviews'[r].frozen.rev = strict.rev
  PROVE  PlanHolds' /\ PlanShape' /\ HasPlan'
<1>1. /\ PlanShape /\ Worded(strict) /\ Fenced /\ Earned /\ ~completed
      /\ \A j \in Item : /\ strict.items[j].prepared \in Review \union {0}
                         /\ strict.items[j].by \in Review \union {0}
      /\ reviews \in [Review -> ReviewRecord]
  BY PlanFacts DEF PlanItem, ReviewInv, PlanHolds
<1>2. HasPlan'
  BY DEF ReviewedPlan, HasPlan, NoPlan
<1>3. PlanShape' /\ Worded(strict)'
  BY <1>1 DEF PlanShape, Worded
<1>4. Fenced'
  BY <1>1, ReviewAssumption DEF Fenced, ReviewsKept, AllAccepted, Final
<1>5. Earned'
  BY <1>1, ReviewAssumption DEF Earned, ReviewsKept, Final
<1>6. Whole'
  BY DEF Whole, AllAccepted
<1> QED BY <1>1, <1>2, <1>3, <1>4, <1>5, <1>6 DEF PlanHolds, ReviewsKept

\* A fence of a review is over the scope of the review.
LEMMA FenceOf ==
  ASSUME ReviewInv, HasPlan, NEW r \in Review, PreparedExists(strict, r)
  PROVE  /\ reviews[r].scope = Final => strict.final = r
         /\ \A i \in Item : reviews[r].scope = i => strict.items[i].prepared = r
<1>1. Fenced /\ r # 0
  BY PlanFacts DEF Review
<1>2. Final \notin Item
  BY ReviewAssumption DEF Final
<1> QED BY <1>1, <1>2 DEF Fenced, PreparedExists

\* An actor with its review moves on, with what it did to the plan and to that review.
LEMMA ReviewMoves ==
  ASSUME ReviewInv, NEW a \in Actor, Reviews(a), NEW m, SameReview(a, m),
         ReviewsKept, HasPlan', PlanHolds', PlanShape', Owed(a)',
         \A r \in Review : r # actor[a].r => reviews'[r] = reviews[r],
         reviews'[actor[a].r].scope = actor[a].scope,
         reviews'[actor[a].r].frozen = actor[a].frozen,
         UNCHANGED <<calls, budget, completed, trouble>>
  PROVE  ReviewInv'
<1>1. /\ Held(a) /\ actor[a].r \in Review
      /\ \A b \in Actor : Reviews(b) /\ actor[b].r = actor[a].r => b = a
  BY InReview
<1>2. PICK q \in Review : q = actor[a].r
  BY <1>1
<1>3. Held(a)'
  BY <1>1 DEF Held, SameReview
<1>4. /\ m \in {Idle} \union ToolCall \union Reviewing /\ m.r = q
      /\ actor' = [actor EXCEPT ![a] = m] /\ reviews' \in [Review -> ReviewRecord]
  BY <1>2 DEF SameReview, ReviewsKept
<1>5. /\ trouble' \in 0 .. MaxTrouble /\ Sent'
      /\ calls' \in [Review -> [Try -> CallRecord]]
      /\ budget' \in [Review -> [Try -> Settled \union {"none", "reserved"}]]
  BY StoresStay, Troubled
<1>6. \A r \in Review : r # q => /\ reviews'[r] = reviews[r] /\ calls'[r] = calls[r]
                                 /\ budget'[r] = budget[r]
  BY <1>2
<1>7. /\ Reviews(a)' => m.r = q
      /\ \A b \in Actor : Reviews(b) /\ actor[b].r = q => b = a
  BY <1>1, <1>2, <1>4
<1> QED BY <1>3, <1>4, <1>5, <1>6, <1>7, StepOfOne

\* An actor leaves its review, with what it did to the plan and to that review.
LEMMA ReviewLeaves ==
  ASSUME ReviewInv, NEW a \in Actor, Reviews(a), Throw(a), ReviewsKept, HasPlan', PlanHolds', PlanShape',
         \A r \in Review : r # actor[a].r => reviews'[r] = reviews[r],
         UNCHANGED <<calls, budget, completed, trouble>>
  PROVE  ReviewInv'
<1>1. reviews' \in [Review -> ReviewRecord]
  BY DEF ReviewsKept
<1> QED BY <1>1, StoresStay, Leaves, Troubled

LEMMA PrepareStep ==
  ASSUME ReviewInv, NEW a \in Actor, Prepare(a)
  PROVE  ReviewInv'
<1>1. /\ Reviews(a) /\ actor[a].pc = "prepare"
      /\ UNCHANGED <<calls, budget, completed, trouble>>
  BY DEF Prepare, Reviews
<1>2. /\ HasPlan /\ Held(a) /\ actor[a].next # "apply"
      /\ actor[a].scope \in Scope /\ actor[a].frozen \in FrozenInput
  BY <1>1, InReview DEF Owed
<1>3. PICK r \in Review : r = actor[a].r
  BY <1>1, InReview
<1>4. reviews \in [Review -> ReviewRecord]
  BY DEF ReviewInv, ReviewTypeOK
<1>5. CASE reviews[r].frozen.rev # 0 /\ reviews[r].frozen = actor[a].frozen
  <2>1. Go(a, "check") /\ UNCHANGED <<strict, reviews>>
    BY <1>3, <1>5 DEF Prepare
  <2>2. PICK m : /\ SameReview(a, m) /\ m.pc = "check" /\ m.k = actor[a].k
                 /\ m.next = actor[a].next
    BY <1>1, <2>1, Goes
  <2>3. Owed(a)'
    BY <1>2, <2>2 DEF Owed, SameReview
  <2> QED BY <1>1, <1>3, <1>5, <2>1, <2>2, <2>3, StoresStay, WithinReview, Troubled DEF SameReview
<1>6. CASE Throw(a) /\ UNCHANGED <<strict, reviews>>
  BY <1>1, <1>6, LeaveStep, Troubled
<1>7. CASE /\ reviews[r].frozen.rev = 0 /\ Preparable(strict, actor[a].scope, actor[a].frozen)
           /\ strict' = IF actor[a].scope = Final THEN [strict EXCEPT !.final = r]
                        ELSE [strict EXCEPT !.items[actor[a].scope].prepared = r]
           /\ reviews' = [reviews EXCEPT ![r].frozen = actor[a].frozen]
           /\ Go(a, "check")
  <2>1. /\ reviews' \in [Review -> ReviewRecord] /\ reviews'[r].scope = reviews[r].scope
        /\ reviews'[r].frozen = actor[a].frozen /\ reviews'[r].verdict = reviews[r].verdict
        /\ \A q \in Review : q # r => reviews'[q] = reviews[q]
    BY <1>2, <1>4, <1>7 DEF ReviewRecord
  <2>2. /\ reviews[r].scope = actor[a].scope /\ actor[a].frozen.rev # 0
        /\ actor[a].scope # Final => actor[a].frozen.attempt # 0
    BY <1>1, <1>2, <1>3 DEF Held
  <2>3. ReviewsKept
    <3>1. \A q \in Review : reviews[q].verdict # "none" => reviews[q].frozen.rev # 0
      BY DEF ReviewInv, PlanHolds
    <3> QED BY <1>7, <2>1, <2>2, <3>1 DEF ReviewsKept
  <2>4. PICK m : /\ SameReview(a, m) /\ m.pc = "check" /\ m.k = actor[a].k
                 /\ m.next = actor[a].next
    BY <1>1, <1>7, Goes
  <2>5. Owed(a)'
    BY <1>2, <2>4 DEF Owed, SameReview
  <2>6. /\ strict.state # "completed" /\ strict.final = 0
        /\ strict \in ReviewedPlan /\ strict.rev = actor[a].frozen.rev
    BY <1>2, <1>7, PlanFacts DEF Preparable, PlanOver, HasFence
  <2>7. PlanHolds' /\ PlanShape' /\ HasPlan'
    <3>1. CASE actor[a].scope = Final
      <4>1. strict' = [strict EXCEPT !.final = r] /\ AllAccepted(strict)
        BY <1>7, <3>1 DEF Preparable
      <4>2. /\ strict' \in ReviewedPlan /\ strict'.items = strict.items /\ strict'.def = strict.def
            /\ strict'.rev = strict.rev /\ strict'.replans = strict.replans
            /\ strict'.state = strict.state /\ strict'.final = r
        BY <2>6, <4>1 DEF ReviewedPlan
      <4> QED BY <1>1, <1>2, <2>1, <2>2, <2>3, <2>6, <3>1, <4>1, <4>2, WholeStep
    <3>2. CASE actor[a].scope # Final
      <4>1. PICK i \in Item : i = actor[a].scope
        BY <1>2, <3>2 DEF Scope
      <4>2. /\ strict.items[i] \in PlanItem /\ strict.items[i].attempt = actor[a].frozen.attempt
            /\ strict.items[i].attempt # 0
            /\ strict.items[i].attempt # 0 <=> strict.items[i].state \in {"running", "review_requested"}
            /\ strict.items[i].open <=> strict.items[i].state = "running"
        BY <1>2, <1>7, <2>2, <3>2, <4>1, PlanFacts DEF Preparable, PlanShape
      <4>3. PICK it : it = [strict.items[i] EXCEPT !.prepared = r]
        OBVIOUS
      <4>4. /\ it \in PlanItem /\ it.state = strict.items[i].state /\ it.text = strict.items[i].text
            /\ it.prepared = r /\ it.attempt = strict.items[i].attempt
            /\ it.open = strict.items[i].open
        BY <4>2, <4>3 DEF PlanItem
      <4>5. strict' = [strict EXCEPT !.items[i] = it]
        BY <1>7, <3>2, <4>1, <4>3
      <4>6. /\ strict' \in ReviewedPlan /\ strict'.items = [strict.items EXCEPT ![i] = it]
            /\ strict'.rev = strict.rev /\ strict'.replans = strict.replans /\ strict'.def = strict.def
            /\ strict'.final = strict.final /\ strict'.state = strict.state
        BY <1>2, <4>4, <4>5, ItemEdit
      <4>7. /\ reviews'[it.prepared].scope = i /\ it.state \notin {"absent", "accepted"}
        BY <2>1, <2>2, <4>1, <4>2, <4>4
      <4> QED BY <1>1, <1>2, <2>3, <4>2, <4>4, <4>6, <4>7, ItemStep
    <3> QED BY <3>1, <3>2
  <2> QED BY <1>1, <1>3, <2>1, <2>2, <2>3, <2>4, <2>5, <2>7, ReviewMoves
<1> QED BY <1>3, <1>5, <1>6, <1>7 DEF Prepare

LEMMA RequestStep ==
  ASSUME ReviewInv, NEW a \in Actor, Request(a)
  PROVE  ReviewInv'
<1>1. /\ Reviews(a) /\ actor[a].pc = "request"
      /\ UNCHANGED <<calls, budget, completed, trouble>>
  BY DEF Request, Reviews
<1>2. /\ HasPlan /\ Held(a) /\ actor[a].next # "apply" /\ actor[a].scope \in Scope
  BY <1>1, InReview DEF Owed
<1>3. PICK r \in Review : r = actor[a].r
  BY <1>1, InReview
<1>4. /\ reviews \in [Review -> ReviewRecord] /\ reviews[r].scope = actor[a].scope
      /\ reviews[r].frozen = actor[a].frozen
  BY <1>1, <1>2, <1>3 DEF ReviewInv, ReviewTypeOK, Held
<1>5. CASE Go(a, "reserve") /\ UNCHANGED <<strict, reviews>>
  <2>1. PICK m : /\ SameReview(a, m) /\ m.pc = "reserve" /\ m.k = actor[a].k
                 /\ m.next = actor[a].next
    BY <1>1, <1>5, Goes
  <2>2. Owed(a)'
    BY <1>2, <2>1 DEF Owed, SameReview
  <2> QED BY <1>1, <1>5, <2>1, <2>2, StoresStay, WithinReview, Troubled DEF SameReview
<1>6. CASE Throw(a) /\ UNCHANGED <<strict, reviews>>
  BY <1>1, <1>6, LeaveStep, Troubled
<1>7. CASE /\ PreparedExists(strict, r) /\ (actor[a].scope = Final => strict.state = "active")
           /\ strict' = IF actor[a].scope = Final THEN [strict EXCEPT !.state = "reviewing"]
                        ELSE [strict EXCEPT !.items[actor[a].scope] =
                                [@ EXCEPT !.state = "review_requested", !.open = FALSE]]
           /\ reviews' = [reviews EXCEPT ![r].requested = TRUE]
           /\ Go(a, "reserve")
  <2>1. /\ reviews' \in [Review -> ReviewRecord] /\ reviews'[r].scope = reviews[r].scope
        /\ reviews'[r].frozen = reviews[r].frozen /\ reviews'[r].verdict = reviews[r].verdict
        /\ \A q \in Review : q # r => reviews'[q] = reviews[q]
    BY <1>4, <1>7 DEF ReviewRecord
  <2>2. ReviewsKept
    <3>1. \A q \in Review : reviews[q].verdict # "none" => reviews[q].frozen.rev # 0
      BY DEF ReviewInv, PlanHolds
    <3> QED BY <2>1, <3>1 DEF ReviewsKept
  <2>3. PICK m : /\ SameReview(a, m) /\ m.pc = "reserve" /\ m.k = actor[a].k
                 /\ m.next = actor[a].next
    BY <1>1, <1>7, Goes
  <2>4. Owed(a)'
    BY <1>2, <2>3 DEF Owed, SameReview
  <2>5. PlanHolds' /\ PlanShape' /\ HasPlan'
    <3>1. CASE actor[a].scope = Final
      <4>1. strict' = [strict EXCEPT !.state = "reviewing"] /\ strict.state = "active"
        BY <1>7, <3>1
      <4>2. /\ strict' \in ReviewedPlan /\ strict'.items = strict.items /\ strict'.def = strict.def
            /\ strict'.rev = strict.rev /\ strict'.replans = strict.replans
            /\ strict'.state = "reviewing" /\ strict'.final = strict.final
        BY <1>2, <4>1, PlanFacts DEF ReviewedPlan
      <4>3. strict.final = r /\ Fenced
        BY <1>2, <1>4, <1>7, <3>1, FenceOf, PlanFacts
      <4>4. /\ AllAccepted(strict) /\ reviews'[strict'.final].scope = Final
            /\ reviews'[strict'.final].frozen.rev # 0
        BY <2>1, <4>2, <4>3 DEF Fenced, Review
      <4> QED BY <1>1, <1>2, <2>2, <4>1, <4>2, <4>4, WholeStep
    <3>2. CASE actor[a].scope # Final
      <4>1. PICK i \in Item : i = actor[a].scope
        BY <1>2, <3>2 DEF Scope
      <4>2. strict.items[i].prepared = r /\ r # 0
        BY <1>2, <1>4, <1>7, <4>1, FenceOf DEF Review
      <4>3. /\ strict.items[i] \in PlanItem /\ strict.items[i].attempt # 0
            /\ strict.items[i].state \in {"running", "review_requested"}
        BY <1>2, <4>2, PlanFacts DEF PlanShape, Worded
      <4>4. PICK it : it = [strict.items[i] EXCEPT !.state = "review_requested", !.open = FALSE]
        OBVIOUS
      <4>5. /\ it \in PlanItem /\ it.state = "review_requested" /\ it.text = strict.items[i].text
            /\ it.prepared = r /\ it.attempt = strict.items[i].attempt /\ ~it.open
        BY <4>2, <4>3, <4>4 DEF PlanItem
      <4>6. strict' = [strict EXCEPT !.items[i] = it]
        BY <1>7, <3>2, <4>1, <4>4
      <4>7. /\ strict' \in ReviewedPlan /\ strict'.items = [strict.items EXCEPT ![i] = it]
            /\ strict'.rev = strict.rev /\ strict'.replans = strict.replans /\ strict'.def = strict.def
            /\ strict'.final = strict.final /\ strict'.state = strict.state
        BY <1>2, <4>5, <4>6, ItemEdit
      <4>8. /\ reviews'[it.prepared].scope = i /\ it.attempt # 0
            /\ strict.items[i].state \notin {"absent", "accepted"}
        BY <1>4, <2>1, <4>1, <4>3, <4>5
      <4> QED BY <1>1, <1>2, <2>2, <4>5, <4>7, <4>8, ItemStep
    <3> QED BY <3>1, <3>2
  <2> QED BY <1>1, <1>3, <1>4, <2>1, <2>2, <2>3, <2>4, <2>5, ReviewMoves
<1> QED BY <1>3, <1>5, <1>6, <1>7 DEF Request

LEMMA ApplyStep ==
  ASSUME ReviewInv, NEW a \in Actor, Apply(a)
  PROVE  ReviewInv'
<1>1. /\ Reviews(a) /\ actor[a].pc = "apply"
      /\ UNCHANGED <<calls, budget, completed, trouble>>
  BY DEF Apply, Reviews
<1>2. /\ HasPlan /\ Held(a) /\ Owed(a) /\ actor[a].scope \in Scope
      /\ actor[a].frozen \in FrozenInput
  BY <1>1, InReview
<1>3. PICK r \in Review : r = actor[a].r
  BY <1>1, InReview
<1>4. /\ reviews \in [Review -> ReviewRecord] /\ reviews[r].scope = actor[a].scope
      /\ reviews[r].frozen = actor[a].frozen /\ actor[a].frozen.rev # 0
  BY <1>1, <1>2, <1>3 DEF ReviewInv, ReviewTypeOK, Held
<1>5. PICK v \in Verdicts : v = actor[a].verdict
  BY <1>1, <1>2 DEF Owed
<1>6. ASSUME Go(a, "mark"), actor[a].next = "apply"
      PROVE  \E m : SameReview(a, m) /\ (calls' = calls /\ budget' = budget => Owed(a)')
  <2>1. PICK m : /\ SameReview(a, m) /\ m.pc = "mark" /\ m.k = actor[a].k
                 /\ m.next = actor[a].next /\ m.verdict = actor[a].verdict
    BY <1>1, <1>6, Goes
  <2>2. calls' = calls /\ budget' = budget => Owed(a)'
    BY <1>1, <1>2, <1>6, <2>1 DEF Owed, SameReview
  <2> QED BY <2>1, <2>2
<1>7. CASE UNCHANGED <<strict, reviews>>
  <2>1. CASE Go(a, "mark") /\ actor[a].next = "apply"
    <3>1. PICK m : SameReview(a, m) /\ Owed(a)'
      BY <1>1, <1>6, <2>1
    <3> QED BY <1>1, <1>7, <3>1, StoresStay, WithinReview, Troubled DEF SameReview
  <2>2. CASE Throw(a)
    BY <1>1, <1>7, <2>2, LeaveStep, Troubled
  <2> QED BY <2>1, <2>2 DEF Apply
<1>8. CASE /\ reviews[r].verdict = "none" /\ PreparedExists(strict, r) /\ strict.rev = actor[a].frozen.rev
           /\ strict' = IF actor[a].scope = Final THEN RecordFinal(strict, v)
                        ELSE RecordItem(strict, actor[a].scope, r, v)
           /\ reviews' = [reviews EXCEPT ![r].verdict = v]
           /\ (Go(a, "mark") /\ actor[a].next = "apply") \/ Throw(a)
  <2>1. /\ reviews' \in [Review -> ReviewRecord] /\ reviews'[r].scope = reviews[r].scope
        /\ reviews'[r].frozen = reviews[r].frozen /\ reviews'[r].verdict = v
        /\ \A q \in Review : q # r => reviews'[q] = reviews[q]
    BY <1>4, <1>8 DEF ReviewRecord
  <2>2. ReviewsKept
    <3>1. \A q \in Review : reviews[q].verdict # "none" => reviews[q].frozen.rev # 0
      BY DEF ReviewInv, PlanHolds
    <3> QED BY <1>4, <1>8, <2>1, <3>1 DEF ReviewsKept
  <2>3. PlanHolds' /\ PlanShape' /\ HasPlan'
    <3>0. strict \in ReviewedPlan /\ Fenced /\ Whole /\ r # 0
      BY <1>2, PlanFacts DEF Review
    <3>1. CASE actor[a].scope = Final
      <4>1. strict.final = r
        BY <1>2, <1>4, <1>8, <3>1, FenceOf
      <4>2. AllAccepted(strict) /\ strict.state # "completed"
        BY <3>0, <4>1 DEF Fenced, Whole
      <4>3. PICK t \in {"active", "blocked", "completed"} :
              /\ t = CASE v = "accepted" -> "completed" [] v = "blocked" -> "blocked" [] OTHER -> "active"
              /\ (t = "completed" => v = "accepted")
        BY DEF Verdicts
      <4>4. strict' = [strict EXCEPT !.final = 0, !.state = t]
        BY <1>8, <3>1, <4>3 DEF RecordFinal
      <4>5. /\ strict' \in ReviewedPlan /\ strict'.items = strict.items /\ strict'.def = strict.def
            /\ strict'.rev = strict.rev /\ strict'.replans = strict.replans
            /\ strict'.state = t /\ strict'.final = 0
        BY <3>0, <4>3, <4>4 DEF ReviewedPlan
      <4>6. t = "completed" => \E q \in Review : /\ reviews'[q].scope = Final
                                                 /\ reviews'[q].verdict = "accepted"
                                                 /\ reviews'[q].frozen.rev = strict.rev
        BY <1>4, <1>8, <2>1, <3>1, <4>3
      <4> QED BY <1>1, <1>2, <2>2, <4>2, <4>5, <4>6, WholeStep
    <3>2. CASE actor[a].scope # Final
      <4>1. PICK i \in Item : i = actor[a].scope
        BY <1>2, <3>2 DEF Scope
      <4>2. strict.items[i].prepared = r
        BY <1>2, <1>4, <1>8, <4>1, FenceOf
      <4>3. /\ strict.items[i] \in PlanItem /\ strict.items[i].attempt # 0
            /\ strict.items[i].state \notin {"absent", "accepted"}
        BY <1>2, <3>0, <4>2, PlanFacts DEF PlanShape, Worded
      <4>4. PICK b \in Review \union {0} : b = IF v = "accepted" THEN r ELSE strict.items[i].by
        BY <4>3 DEF PlanItem
      <4>5. PICK it : it = [CloseAttempt(strict.items[i]) EXCEPT !.state = v, !.prepared = 0, !.by = b]
        OBVIOUS
      <4>6. /\ it \in PlanItem /\ it.state = v /\ it.text = strict.items[i].text
            /\ it.prepared = 0 /\ it.attempt = 0 /\ ~it.open /\ it.by = b
        BY <4>3, <4>4, <4>5 DEF PlanItem, CloseAttempt
      <4>7. PICK n \in Nat : n = Unfocused(strict, strict.items[i].attempt)
        BY <3>0 DEF Unfocused, ReviewedPlan
      <4>8. strict' = [strict EXCEPT !.focus = n, !.items[i] = it]
        BY <1>8, <3>2, <4>1, <4>4, <4>5, <4>7 DEF RecordItem
      <4>9. /\ strict' \in ReviewedPlan /\ strict'.items = [strict.items EXCEPT ![i] = it]
            /\ strict'.rev = strict.rev /\ strict'.replans = strict.replans /\ strict'.def = strict.def
            /\ strict'.final = strict.final /\ strict'.state = strict.state
        BY <3>0, <4>6, <4>7, <4>8 DEF ReviewedPlan
      <4>10. /\ it.state \notin {"absent", "running", "review_requested"}
             /\ it.state = "accepted" => it.by # 0 /\ reviews'[it.by].scope = i
                                                  /\ reviews'[it.by].verdict = "accepted"
        BY <1>4, <2>1, <3>0, <4>1, <4>4, <4>6 DEF Verdicts
      <4> QED BY <1>1, <1>2, <2>2, <4>3, <4>6, <4>9, <4>10, ItemStep
    <3> QED BY <3>1, <3>2
  <2>4. CASE Go(a, "mark") /\ actor[a].next = "apply"
    <3>1. PICK m : SameReview(a, m) /\ Owed(a)'
      BY <1>1, <1>6, <2>4
    <3> QED BY <1>1, <1>3, <1>4, <2>1, <2>2, <2>3, <3>1, ReviewMoves
  <2>5. CASE Throw(a)
    BY <1>1, <1>3, <2>1, <2>2, <2>3, <2>5, ReviewLeaves
  <2> QED BY <1>8, <2>4, <2>5
<1> QED BY <1>3, <1>5, <1>7, <1>8 DEF Apply

-----------------------------------------------------------------------------
(* The theorems *)

LEMMA ReviewInit == PlanInit => ReviewInv
<1> SUFFICES ASSUME PlanInit PROVE ReviewInv
  OBVIOUS
<1>1. ~HasPlan /\ completed = FALSE /\ trouble = 0
  BY DEF PlanInit, HasPlan
<1>2. \A a \in Actor : actor[a] = Idle /\ actor[a].pc = "idle" /\ ~Reviews(a)
  BY DEF PlanInit, Idle, Reviews
<1>3. \A r \in Review : reviews[r] = NewReview /\ NewReview.verdict = "none" /\ NewReview \in ReviewRecord
  BY DEF PlanInit, NewReview, ReviewRecord, Scope
<1>4. \A r \in Review, k \in Try :
        /\ calls[r][k] \in CallRecord /\ calls[r][k].state = "none" /\ calls[r][k].sent = 0
        /\ ~calls[r][k].billed /\ budget[r][k] = "none"
  BY DEF PlanInit, CallRecord, CallState
<1>5. ReviewTypeOK
  <2>1. reviews \in [Review -> ReviewRecord]
    BY <1>3 DEF PlanInit
  <2>2. calls \in [Review -> [Try -> CallRecord]]
    <3>1. PICK c : c = [state |-> "none", verdict |-> "none", billed |-> FALSE, sent |-> 0]
      OBVIOUS
    <3>2. c \in CallRecord
      BY <3>1 DEF CallRecord, CallState
    <3>3. calls = [r \in Review |-> [k \in Try |-> c]]
      BY <3>1 DEF PlanInit
    <3> QED BY <3>2, <3>3
  <2>3. budget \in [Review -> [Try -> Settled \union {"none", "reserved"}]]
    BY DEF PlanInit
  <2>4. actor \in [Actor -> {Idle} \union ToolCall \union Reviewing]
    BY DEF PlanInit
  <2>5. trouble \in 0 .. MaxTrouble
    BY <1>1, ReviewAssumption
  <2>6. completed \in BOOLEAN
    BY DEF PlanInit
  <2> QED BY <1>1, <2>1, <2>2, <2>3, <2>4, <2>5, <2>6 DEF ReviewTypeOK
<1>6. PlanHolds
  BY <1>1, <1>3 DEF PlanHolds
<1>7. Sent
  BY <1>4 DEF Sent, Answered, Measured
<1>8. OneReviewer /\ \A a \in Actor : Held(a) /\ Owed(a)
  BY <1>2 DEF OneReviewer, Held, Owed
<1> QED BY <1>5, <1>6, <1>7, <1>8 DEF ReviewInv

LEMMA ReviewStutters == ReviewInv /\ UNCHANGED planVars => ReviewInv'
<1> SUFFICES ASSUME ReviewInv, UNCHANGED planVars PROVE ReviewInv'
  OBVIOUS
<1>1. UNCHANGED <<strict, reviews, calls, budget, actor, completed, trouble>>
  BY DEF planVars
<1>2. PlanHolds' /\ (HasPlan' => PlanShape') /\ HasPlan' = HasPlan
  BY <1>1, ReviewsUnchanged, PlanStays
<1> QED BY <1>1, <1>2, ControlStep

LEMMA ReviewNextPreserves == ReviewInv /\ [PlanNext]_planVars => ReviewInv'
<1> SUFFICES ASSUME ReviewInv, PlanNext PROVE ReviewInv'
  BY ReviewStutters
<1>1. CASE \E d \in FirstDefinition : Create(d)
  BY <1>1, CreateStep
<1>2. CASE \E d \in Definition : Update(d)
  BY <1>2, UpdateStep
<1>3. CASE \E i \in Item : Start(i) \/ Focus(i) \/ Skip(i) \/ Block(i)
  BY <1>3, ProgressStep
<1>4. CASE \E a \in Actor : PlanStep(a) \/ Aborted(a) \/ JournalFails(a) \/ CrashActor(a)
  <2>1. PICK a \in Actor : PlanStep(a) \/ Aborted(a) \/ JournalFails(a) \/ CrashActor(a)
    BY <1>4
  <2> QED BY <2>1, ToolEndStep, PrepareStep, CheckStep, RequestStep, ReserveStep, CallStep,
             ProviderStep, SettleStep, ApplyStep, MarkStep, FailureStep DEF PlanStep
<1>5. CASE \E a \in Actor \ Reviewer : ToolStart(a)
  BY <1>5, ToolStartStep
<1>6. CASE \E a \in Reviewer, r \in Review, s \in Item \union {Final} : ReviewStart(a, r, s)
  BY <1>6, ReviewStartStep, ReviewAssumption DEF Scope
<1>7. CASE CompleteRun
  BY <1>7, CompleteStep
<1> QED BY <1>1, <1>2, <1>3, <1>4, <1>5, <1>6, <1>7 DEF PlanNext

\* Every call of the reviewer's model is reserved, sent once and settled by its outcome,
\* for any number of actors, reviews, attempts, failed commits, aborts, crashes and
\* replays (ReviewCoordinatorV1.review, ReviewCallStoreV1, ReviewBudgetService).
THEOREM ReviewsArePaid == PlanSpec => []ReviewsPaid
<1>1. ReviewInv => ReviewsPaid
  BY DEF ReviewInv, ReviewsPaid, Sent, CallsBudgeted, ProviderOnce, Measured, Answered
<1> QED BY <1>1, ReviewInit, ReviewNextPreserves, PTL DEF PlanSpec

\* A run that was let through as completed had every item of its plan accepted by a
\* review of that item and of its present text, and the whole by a final review of its
\* revision, whatever was revised, replayed or crashed before (reviewPlanCompletionGuidance).
THEOREM CompletionIsEarned == PlanSpec => []CompletionEarned
<1>1. ReviewInv => CompletionEarned
  <2> SUFFICES ASSUME ReviewInv, completed PROVE CompletionEarned
    BY DEF CompletionEarned
  <2>1. HasPlan /\ strict.state = "completed"
    BY DEF ReviewInv, PlanHolds
  <2>2. /\ Worded(strict) /\ Earned /\ Whole /\ ItemsOf[strict.def] \subseteq Item
    BY <2>1, PlanFacts
  <2> QED BY <2>1, <2>2 DEF CompletionEarned, Worded, Earned, Whole, AllAccepted
<1> QED BY <1>1, ReviewInit, ReviewNextPreserves, PTL DEF PlanSpec

\* A step that gives one item another record keeps the fences of the others.
LEMMA OneItem ==
  ASSUME strict \in ReviewedPlan, NEW i \in Item, NEW it, NEW p \in ReviewedPlan,
         strict' = [p EXCEPT !.items[i] = it], p.items = strict.items, p.rev = strict.rev,
         \/ strict.items[i].prepared = 0
         \/ it.prepared = 0
         \/ it.evidence = strict.items[i].evidence /\ it.attempt = strict.items[i].attempt
  PROVE  FenceKept
<1>1. strict'.rev = strict.rev /\ strict'.items = [strict.items EXCEPT ![i] = it]
  BY DEF ReviewedPlan
<1>2. strict'.items[i] = it /\ \A j \in Item : j # i => strict'.items[j] = strict.items[j]
  BY <1>1 DEF ReviewedPlan
<1> QED BY <1>1, <1>2 DEF FenceKept

\* No step touches what a reviewer is looking at.
LEMMA FenceStep == ReviewInv /\ [PlanNext]_planVars => [FenceKept]_planVars
<1> SUFFICES ASSUME ReviewInv, PlanNext, HasPlan PROVE FenceKept
  BY DEF FenceKept
<1>0. strict \in ReviewedPlan /\ strict.items \in [Item -> PlanItem]
  BY PlanFacts
<1>1. ASSUME strict'.items = strict.items, strict'.rev = strict.rev PROVE FenceKept
  BY <1>1 DEF FenceKept
<1>2. ASSUME \A i \in Item : strict.items[i].prepared = 0 PROVE FenceKept
  BY <1>2 DEF FenceKept
<1>3. CASE \E d \in Definition : Update(d)
  BY <1>2, <1>3 DEF Update, Updatable, HasFence
<1>4. CASE \E i \in Item : Start(i) \/ Focus(i) \/ Skip(i) \/ Block(i)
  <2>1. PICK i \in Item : Start(i) \/ Focus(i) \/ Skip(i) \/ Block(i)
    BY <1>4
  <2>2. strict.items[i].prepared = 0
    BY <2>1 DEF Start, Focus, Skip, Block, Progressable
  <2>3. CASE Start(i)
    <3>n. PICK n \in Nat : n = strict.attempts + 1
      BY <1>0 DEF ReviewedPlan
    <3>1. PICK it : strict' = [strict EXCEPT !.attempts = n, !.focus = n, !.items[i] = it]
      BY <2>3, <3>n DEF Start
    <3>2. PICK p : p = [strict EXCEPT !.attempts = n, !.focus = n]
      OBVIOUS
    <3>3. p \in ReviewedPlan /\ p.items = strict.items /\ p.rev = strict.rev
      BY <1>0, <3>n, <3>2 DEF ReviewedPlan
    <3>4. strict' = [p EXCEPT !.items[i] = it]
      BY <1>0, <3>1, <3>2 DEF ReviewedPlan
    <3> QED BY <1>0, <2>2, <3>3, <3>4, OneItem
  <2>4. CASE Focus(i)
    BY <1>0, <1>1, <2>4 DEF Focus, ReviewedPlan
  <2>5. CASE Skip(i)
    <3>1. PICK it : strict' = [strict EXCEPT !.items[i] = it]
      BY <2>5 DEF Skip
    <3> QED BY <1>0, <2>2, <3>1, OneItem
  <2>6. CASE Block(i)
    <3>1. PICK n, it : n \in Nat /\ strict' = [strict EXCEPT !.items[i] = it, !.focus = n]
      BY <1>0, <2>6 DEF Block, Unfocused, ReviewedPlan
    <3>2. PICK p : p = [strict EXCEPT !.focus = n]
      OBVIOUS
    <3>3. p \in ReviewedPlan /\ p.items = strict.items /\ p.rev = strict.rev
      BY <1>0, <3>1, <3>2 DEF ReviewedPlan
    <3>4. strict' = [p EXCEPT !.items[i] = it]
      BY <1>0, <3>1, <3>2 DEF ReviewedPlan
    <3> QED BY <1>0, <2>2, <3>3, <3>4, OneItem
  <2> QED BY <2>1, <2>3, <2>4, <2>5, <2>6
<1>5. CASE strict' = strict
  BY <1>1, <1>5
<1>6. ASSUME NEW a \in Actor, ToolEnd(a) PROVE FenceKept
  <2>1. PICK i \in Item : i = actor[a].item
    BY <1>6, ActorRecords DEF ReviewInv, ToolCall, ToolEnd
  <2>2. CASE /\ AttemptLive(strict, i, actor[a].attempt)
             /\ strict' = [strict EXCEPT !.items[i].evidence = @ + 1]
    <3>1. PICK it : strict' = [strict EXCEPT !.items[i] = it]
      BY <2>2
    <3> QED BY <1>0, <2>2, <3>1, OneItem DEF AttemptLive
  <2> QED BY <1>5, <1>6, <2>1, <2>2 DEF ToolEnd
<1>7. ASSUME NEW a \in Actor, Prepare(a) PROVE FenceKept
  BY <1>2, <1>5, <1>7 DEF Prepare, Preparable, HasFence
<1>8. ASSUME NEW a \in Actor, Request(a) PROVE FenceKept
  <2>1. actor[a].scope \in Scope
    BY <1>8, InReview DEF Request, Reviews
  <2>2. CASE strict' = [strict EXCEPT !.state = "reviewing"]
    BY <1>0, <1>1, <2>2 DEF ReviewedPlan
  <2>3. CASE /\ actor[a].scope # Final
             /\ strict' = [strict EXCEPT !.items[actor[a].scope] =
                             [@ EXCEPT !.state = "review_requested", !.open = FALSE]]
    <3>1. PICK i \in Item : i = actor[a].scope
      BY <2>1, <2>3 DEF Scope
    <3>2. PICK it : it = [strict.items[i] EXCEPT !.state = "review_requested", !.open = FALSE]
      OBVIOUS
    <3>3. it.evidence = strict.items[i].evidence /\ it.attempt = strict.items[i].attempt
      BY <1>0, <3>2 DEF PlanItem
    <3>4. strict' = [strict EXCEPT !.items[i] = it]
      BY <2>3, <3>1, <3>2
    <3> QED BY <1>0, <3>3, <3>4, OneItem
  <2> QED BY <1>5, <1>8, <2>2, <2>3 DEF Request
<1>9. ASSUME NEW a \in Actor, Apply(a) PROVE FenceKept
  <2>1. actor[a].scope \in Scope
    BY <1>9, InReview DEF Apply, Reviews
  <2>2. CASE strict' = RecordFinal(strict, actor[a].verdict)
    BY <1>0, <1>1, <2>2 DEF ReviewedPlan, RecordFinal
  <2>3. CASE actor[a].scope # Final /\ strict' = RecordItem(strict, actor[a].scope, actor[a].r, actor[a].verdict)
    <3>1. PICK i \in Item : i = actor[a].scope
      BY <2>1, <2>3 DEF Scope
    <3>2. PICK v, b : /\ v = actor[a].verdict
                      /\ b = IF actor[a].verdict = "accepted" THEN actor[a].r ELSE strict.items[i].by
      OBVIOUS
    <3>3. PICK it : it = [CloseAttempt(strict.items[i]) EXCEPT !.state = v, !.prepared = 0, !.by = b]
      OBVIOUS
    <3>4. it.prepared = 0
      BY <1>0, <3>3 DEF PlanItem, CloseAttempt
    <3>5. PICK n \in Nat : n = Unfocused(strict, strict.items[i].attempt)
      BY <1>0 DEF Unfocused, ReviewedPlan
    <3>6. strict' = [strict EXCEPT !.focus = n, !.items[i] = it]
      BY <2>3, <3>1, <3>2, <3>3, <3>5 DEF RecordItem
    <3>7. PICK p : p = [strict EXCEPT !.focus = n]
      OBVIOUS
    <3>8. p \in ReviewedPlan /\ p.items = strict.items /\ p.rev = strict.rev
      BY <1>0, <3>5, <3>7 DEF ReviewedPlan
    <3>9. strict' = [p EXCEPT !.items[i] = it]
      BY <1>0, <3>6, <3>7 DEF ReviewedPlan
    <3> QED BY <1>0, <3>4, <3>8, <3>9, OneItem
  <2> QED BY <1>5, <1>9, <2>2, <2>3 DEF Apply
<1>10. CASE \E a \in Actor : PlanStep(a) \/ Aborted(a) \/ JournalFails(a) \/ CrashActor(a)
  BY <1>5, <1>6, <1>7, <1>8, <1>9, <1>10
     DEF PlanStep, Check, Reserve, Call, Provider, Settle, Mark, Aborted, JournalFails, CrashActor
<1> QED BY <1>3, <1>4, <1>5, <1>10 DEF PlanNext, Create, ToolStart, ReviewStart, CompleteRun

\* While a review of an item is frozen, no tool result, no progress call, no revision and no
\* replay of any actor touches the attempt the reviewer looks at (assertAttempt, hasFence).
THEOREM FencesHold == PlanSpec => FenceHolds
BY ReviewInit, ReviewNextPreserves, FenceStep, PTL DEF PlanSpec, FenceHolds
=============================================================================
