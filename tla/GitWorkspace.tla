---------------------------- MODULE GitWorkspace ----------------------------
(***************************************************************************)
(* How the work of a writing child comes back into a Git workspace.         *)
(*                                                                          *)
(* LocalWorkflowAgentWorker gives each attempt a detached worktree of the    *)
(* current HEAD (WorkspaceIsolationManagerV1), commits what the child left   *)
(* in it, and hands the candidate to ControlledWorkspaceMergeV1, which       *)
(* holds the process-wide lease of the repository (acquireWorkspaceLock)     *)
(* while it inspects, fast-forwards, verifies and removes the worktree.      *)
(* Nothing holds back the user, who edits and commits meanwhile, nor a       *)
(* process the child left behind in the worktree.                            *)
(*                                                                          *)
(* A commit is the sequence of those who made the commits up to it.  A       *)
(* worktree has a path of its own, so its lease is never contended and only  *)
(* the lease of the repository is kept.                                      *)
(***************************************************************************)
EXTENDS Naturals, Sequences, SequencesExt

CONSTANTS
  GitAttempt,     \* attempts of tasks with a write grant
  User,           \* whoever else commits
  MaxGitEvents    \* bound: edits and commits of the user, strays, aborts, faults of git
                  \* and crashes, together

ASSUME GitAssumption == User \notin GitAttempt /\ MaxGitEvents \in Nat

VARIABLES
  head,     \* HEAD of the workspace
  dirty,    \* git status of the workspace shows changes
  pos,      \* position of each attempt in LocalWorkflowAgentWorker.execute
  base,     \* baseCommit of its isolation
  tree,     \* what its worktree holds
  junk,     \* worktrees with untracked or ignored files besides
  wrote,    \* attempts whose child changed its worktree
  wrong,    \* attempts whose result reports other changes than it made, or whose
            \* changes leave the grant
  passed,   \* attempts whose last git or verifier call succeeded
  lock,     \* attempts that hold or await the lease of the repository, in order
  aborted,  \* attempts whose signal is aborted
  gitEvents

gitVars == <<head, dirty, pos, base, tree, junk, wrote, wrong, passed, lock, aborted,
             gitEvents>>

\* Worktrees: at base with nothing changed, with uncommitted edits, with commits of
\* the child's own, with both, and with the candidate commit on top of either.
Trees == {"none", "clean", "edited", "own", "ownEdited", "candidate", "ownCandidate", "removed"}
Outcomes == {"unchanged", "merged", "mergedKept", "blocked", "cancelled", "unmerged", "threw", "crashed"}
Waiting == {"wait"}
Inside == {"preflight", "inspect", "forward", "after", "verify", "seal", "finalize"}
Outside == {"create", "child", "status", "cleanup", "offer"}
Positions == {"idle"} \cup Outside \cup Waiting \cup Inside \cup Outcomes

GitTypeOK ==
  /\ head \in Seq(GitAttempt \cup {User})
  /\ dirty \in BOOLEAN
  /\ pos \in [GitAttempt -> Positions]
  /\ base \in [GitAttempt -> Seq(GitAttempt \cup {User})]
  /\ tree \in [GitAttempt -> Trees]
  /\ junk \subseteq GitAttempt /\ wrote \subseteq GitAttempt /\ wrong \subseteq GitAttempt
  /\ passed \subseteq GitAttempt /\ aborted \subseteq GitAttempt
  /\ lock \in Seq(GitAttempt) /\ IsInjective(lock)
  /\ gitEvents \in 0 .. MaxGitEvents

GitInit ==
  /\ head = <<>> /\ dirty = FALSE
  /\ pos = [t \in GitAttempt |-> "idle"]
  /\ base = [t \in GitAttempt |-> <<>>]
  /\ tree = [t \in GitAttempt |-> "none"]
  /\ junk = {} /\ wrote = {} /\ wrong = {} /\ passed = {} /\ aborted = {}
  /\ lock = <<>> /\ gitEvents = 0

Commit(t) == Append(base[t], t)
GitHappens == gitEvents < MaxGitEvents /\ gitEvents' = gitEvents + 1

MoveTo(t, p) == pos' = [pos EXCEPT ![t] = p]
SetTree(t, w) == tree' = [tree EXCEPT ![t] = w]

\* The lease is released in the finally of execute.
Release(t) == \E i \in DOMAIN lock : lock[i] = t /\ lock' = RemoveAt(lock, i)

mainVars == <<head, dirty>>
childVars == <<base, tree, junk, wrote, wrong, passed>>

(***************************************************************************)
(* The worktree, and the child in it.                                       *)
(***************************************************************************)

\* An aborted signal makes every git command answer 130, so prepareIsolation takes
\* the workspace for a plain directory and the copy of the snapshot then throws.
PrepareIsolation(t) ==
  /\ pos[t] = "idle"
  /\ MoveTo(t, IF t \in aborted THEN "threw" ELSE "create")
  /\ base' = [base EXCEPT ![t] = head]
  /\ UNCHANGED <<mainVars, tree, junk, wrote, wrong, passed, lock, aborted, gitEvents>>

\* git worktree add, and the marker of ownership.  A command that was killed may have
\* made the worktree, which nobody then removes.
CreateWorktree(t) ==
  /\ pos[t] = "create"
  /\ \/ t \notin aborted /\ SetTree(t, "clean") /\ MoveTo(t, "child") /\ UNCHANGED gitEvents
     \/ /\ IF t \in aborted THEN UNCHANGED gitEvents ELSE GitHappens
        /\ \E w \in {"none", "clean"} : SetTree(t, w)
        /\ MoveTo(t, "threw")
  /\ UNCHANGED <<mainVars, base, junk, wrote, wrong, passed, lock, aborted>>

\* The child ends, having changed its worktree or not; mergeableWorkspaceResult takes
\* a success, and a child cut off by its deadline after it changed files.  (Ignored
\* files and a wrong report are told apart from nothing else by a result that is not
\* merged, or that the shape of its commits excludes.)
ChildEnds(t) ==
  /\ pos[t] = "child"
  /\ \E w \in {"clean", "edited", "own", "ownEdited"}, ignored, misreported, mergeable \in BOOLEAN :
       /\ ignored \/ misreported => mergeable /\ w = "edited"
       /\ SetTree(t, w)
       /\ wrote' = IF w = "clean" THEN wrote ELSE wrote \cup {t}
       /\ junk' = IF ignored THEN junk \cup {t} ELSE junk
       /\ wrong' = IF misreported THEN wrong \cup {t} ELSE wrong
       /\ MoveTo(t, IF mergeable THEN "status" ELSE "unmerged")
  /\ UNCHANGED <<mainVars, base, passed, lock, aborted, gitEvents>>

\* mergeIsolatedResult: git status without the ignored files, then add and commit.
Status(t) ==
  /\ pos[t] = "status"
  /\ \/ /\ t \in aborted
        /\ MoveTo(t, "threw") /\ UNCHANGED tree
     \/ /\ t \notin aborted /\ tree[t] \in {"clean", "own"}
        /\ MoveTo(t, "cleanup") /\ UNCHANGED tree
     \/ /\ t \notin aborted /\ tree[t] \in {"edited", "ownEdited"}
        /\ SetTree(t, IF tree[t] = "edited" THEN "candidate" ELSE "ownCandidate")
        /\ MoveTo(t, "offer")
  /\ UNCHANGED <<mainVars, base, junk, wrote, wrong, passed, lock, aborted, gitEvents>>

\* #removeValidated: git worktree remove, which may fail, or refuse files that are
\* untracked.
Removable(t) == t \notin junk

\* The inspection of cleanup, with the commits of the child not looked for.
DisposableTree(t) == tree[t] \in {"clean", "own"} /\ t \notin junk

Disposable(t) == tree[t] = "clean" /\ t \notin junk

\* cleanup of a worktree whose status is empty: it is kept when it holds commits or
\* ignored files, and the result is ok either way.
Cleanup(t) ==
  /\ pos[t] = "cleanup"
  /\ \/ t \in aborted /\ MoveTo(t, "threw") /\ UNCHANGED <<tree, gitEvents>>
     \/ /\ t \notin aborted
        /\ MoveTo(t, "unchanged")
        /\ \/ Disposable(t) /\ SetTree(t, "removed") /\ UNCHANGED gitEvents
           \/ ~Disposable(t) /\ UNCHANGED <<tree, gitEvents>>
           \/ Disposable(t) /\ GitHappens /\ UNCHANGED tree
  /\ UNCHANGED <<mainVars, base, junk, wrote, wrong, passed, lock, aborted>>

(***************************************************************************)
(* ControlledWorkspaceMergeV1.execute.                                      *)
(***************************************************************************)

\* The lease asked for once for each of two roots that are the same directory.
OfferTwice(t) ==
  /\ pos[t] = "offer"
  /\ \/ t \in aborted /\ MoveTo(t, "cancelled") /\ UNCHANGED lock
     \/ t \notin aborted /\ MoveTo(t, "wait") /\ lock' = lock \o <<t, t>>
  /\ UNCHANGED <<mainVars, childVars, aborted, gitEvents>>

\* Before the lease: an aborted signal cancels.
Offer(t) ==
  /\ pos[t] = "offer"
  /\ \/ t \in aborted /\ MoveTo(t, "cancelled") /\ UNCHANGED lock
     \/ t \notin aborted /\ MoveTo(t, "wait") /\ lock' = Append(lock, t)
  /\ UNCHANGED <<mainVars, childVars, aborted, gitEvents>>

Acquire(t) ==
  /\ pos[t] = "wait" /\ Head(lock) = t
  /\ MoveTo(t, "preflight")
  /\ UNCHANGED <<mainVars, childVars, lock, aborted, gitEvents>>

\* A waiter that gives up and leaves its link of the chain of promises unresolved.
GiveUpLeaks(t) ==
  /\ pos[t] = "wait" /\ t \in aborted
  /\ MoveTo(t, "threw") /\ UNCHANGED lock
  /\ UNCHANGED <<mainVars, childVars, aborted, gitEvents>>

\* acquireWorkspaceLock: the signal of a waiter is aborted; it gives its place up.
GiveUp(t) ==
  /\ pos[t] = "wait" /\ t \in aborted
  /\ MoveTo(t, "threw") /\ Release(t)
  /\ UNCHANGED <<mainVars, childVars, aborted, gitEvents>>

Leave(t, outcome) == MoveTo(t, outcome) /\ Release(t)

\* #preflight: the worktree is clean, its HEAD one commit on top of the base, and the
\* changes those of the result and within the grant.  An aborted signal makes the
\* validation throw, or a git command fail, or is seen afterwards.
Sound(t) == tree[t] = "candidate" /\ t \notin junk /\ t \notin wrong
Preflight(t) ==
  /\ pos[t] = "preflight"
  /\ \/ t \in aborted /\ \E o \in {"threw", "blocked", "cancelled"} : Leave(t, o)
     \/ t \notin aborted /\ ~Sound(t) /\ Leave(t, "blocked")
     \/ t \notin aborted /\ Sound(t) /\ MoveTo(t, "inspect") /\ UNCHANGED lock
  /\ UNCHANGED <<mainVars, childVars, aborted, gitEvents>>

\* inspectMain: the base must be the HEAD of the workspace still, and nothing changed.
Inspect(t) ==
  /\ pos[t] = "inspect"
  /\ IF t \in aborted \/ head # base[t] \/ dirty
       THEN Leave(t, "blocked")
       ELSE MoveTo(t, "forward") /\ UNCHANGED lock
  /\ UNCHANGED <<mainVars, childVars, aborted, gitEvents>>

\* git merge --ff-only: refused when HEAD is not an ancestor of the candidate, and, if
\* they touch the same files, when the workspace has changes.  A command that is
\* killed may have done its work, some of it or none.
Forwardable(t) == IsPrefix(head, Commit(t))
\* The merge without --ff-only: it makes a merge commit when HEAD has moved.
ForwardMerges(t) ==
  /\ pos[t] = "forward"
  /\ MoveTo(t, "after")
  /\ head' = Append(head, t) /\ passed' = passed \cup {t}
  /\ UNCHANGED <<dirty, base, tree, junk, wrote, wrong, lock, aborted, gitEvents>>

Forward(t) ==
  /\ pos[t] = "forward"
  /\ MoveTo(t, "after")
  /\ \/ /\ t \notin aborted /\ Forwardable(t)
        /\ head' = Commit(t) /\ passed' = passed \cup {t} /\ UNCHANGED <<dirty, gitEvents>>
     \/ /\ t \notin aborted /\ (dirty \/ ~Forwardable(t))
        /\ UNCHANGED <<head, dirty, passed, gitEvents>>
     \/ /\ IF t \in aborted THEN UNCHANGED gitEvents ELSE GitHappens
        /\ head' \in {head} \cup (IF Forwardable(t) THEN {Commit(t)} ELSE {})
        /\ dirty' \in {dirty, TRUE} /\ UNCHANGED passed
  /\ UNCHANGED <<base, tree, junk, wrote, wrong, lock, aborted>>

\* The state after the merge, as inspectMain shows it.
AsMerged(t) == head = Commit(t) /\ ~dirty

\* The inspection after the merge, with an abort reported as a cancellation.
AfterCancels(t) ==
  /\ pos[t] = "after"
  /\ IF ~AsMerged(t) \/ t \notin passed \/ t \in aborted
       THEN Leave(t, IF t \in aborted THEN "cancelled" ELSE "blocked") /\ UNCHANGED passed
       ELSE MoveTo(t, "verify") /\ passed' = passed \ {t} /\ UNCHANGED lock
  /\ UNCHANGED <<mainVars, base, tree, junk, wrote, wrong, aborted, gitEvents>>

After(t) ==
  /\ pos[t] = "after"
  /\ IF ~AsMerged(t) \/ t \notin passed \/ t \in aborted
       THEN Leave(t, "blocked") /\ UNCHANGED passed
       ELSE MoveTo(t, "verify") /\ passed' = passed \ {t} /\ UNCHANGED lock
  /\ UNCHANGED <<mainVars, base, tree, junk, wrote, wrong, aborted, gitEvents>>

\* The mechanical, rule and semantic verifiers; verifySafely makes an error a block.
Verify(t) ==
  /\ pos[t] = "verify"
  /\ MoveTo(t, "seal")
  /\ passed' \in {passed, passed \cup {t}}
  /\ UNCHANGED <<mainVars, base, tree, junk, wrote, wrong, lock, aborted, gitEvents>>

\* The last look at the workspace, discarding the worktree of a candidate that fails.
SealDiscards(t) ==
  /\ pos[t] = "seal"
  /\ IF AsMerged(t) /\ t \in passed
       THEN MoveTo(t, "finalize") /\ UNCHANGED <<lock, tree>>
       ELSE Leave(t, "blocked") /\ SetTree(t, "removed")
  /\ UNCHANGED <<mainVars, base, junk, wrote, wrong, passed, aborted, gitEvents>>

\* The workspace must still be as it was merged, and every verifier have passed.
Seal(t) ==
  /\ pos[t] = "seal"
  /\ IF AsMerged(t) /\ t \in passed
       THEN MoveTo(t, "finalize") /\ UNCHANGED lock
       ELSE Leave(t, "blocked")
  /\ UNCHANGED <<mainVars, childVars, aborted, gitEvents>>

\* finalizeMerged: the worktree goes when HEAD is the candidate and nothing else is in
\* it; an aborted signal makes its validation throw, after the merge.
Finalize(t) ==
  /\ pos[t] = "finalize"
  /\ \/ t \in aborted /\ Leave(t, "threw") /\ UNCHANGED <<tree, gitEvents>>
     \/ /\ t \notin aborted
        /\ IF head = Commit(t) /\ Removable(t)
             THEN \/ SetTree(t, "removed") /\ Leave(t, "merged") /\ UNCHANGED gitEvents
                  \/ GitHappens /\ Leave(t, "mergedKept") /\ UNCHANGED tree
             ELSE Leave(t, "mergedKept") /\ UNCHANGED <<tree, gitEvents>>
  /\ UNCHANGED <<mainVars, base, junk, wrote, wrong, passed, aborted>>

(***************************************************************************)
(* The others.                                                              *)
(***************************************************************************)

UserCommits == /\ GitHappens
               /\ head' = Append(head, User)
               /\ UNCHANGED <<dirty, pos, childVars, lock, aborted>>

UserEdits == /\ GitHappens
             /\ dirty' = ~dirty
             /\ UNCHANGED <<head, pos, childVars, lock, aborted>>

\* A process the child started writes into the worktree after the child ended.
Stray(t) == /\ GitHappens
            /\ tree[t] \notin {"none", "removed"} /\ pos[t] # "child"
            /\ junk' = junk \cup {t}
            /\ UNCHANGED <<mainVars, pos, base, tree, wrote, wrong, passed, lock, aborted>>

AbortAttempt(t) == /\ GitHappens
                   /\ t \notin aborted /\ pos[t] \notin Outcomes
                   /\ aborted' = aborted \cup {t}
                   /\ UNCHANGED <<mainVars, pos, childVars, lock>>

\* The Runtime crashes: the leases and the manager's map of its worktrees are gone.
GitCrash == /\ GitHappens
            /\ pos' = [t \in GitAttempt |-> IF pos[t] \in {"idle"} \cup Outcomes THEN pos[t] ELSE "crashed"]
            /\ lock' = <<>>
            /\ UNCHANGED <<mainVars, childVars, aborted>>

Advance(t) ==
  \/ CreateWorktree(t) \/ ChildEnds(t) \/ Status(t) \/ Cleanup(t) \/ Offer(t)
  \/ Acquire(t) \/ GiveUp(t) \/ Preflight(t) \/ Inspect(t) \/ Forward(t)
  \/ After(t) \/ Verify(t) \/ Seal(t) \/ Finalize(t)

GitNext ==
  \/ \E t \in GitAttempt : PrepareIsolation(t) \/ Advance(t) \/ Stray(t) \/ AbortAttempt(t)
  \/ UserCommits \/ UserEdits \/ GitCrash

\* An attempt moves on when it can: its git commands have a timeout, and the child a
\* deadline.
GitSpec == GitInit /\ [][GitNext]_gitVars /\ \A t \in GitAttempt : WF_gitVars(Advance(t))

(***************************************************************************)
(* Properties.                                                              *)
(***************************************************************************)

Holds(t) == tree[t] \notin {"none", "clean", "removed"}
Merged(t) == t \in ToSet(head)

\* What a child wrote is never lost: its worktree is removed only when the workspace
\* has its commit, or when it wrote nothing (cleanup, finalizeMerged).
WorkKept == \A t \in wrote : Holds(t) \/ Merged(t)

\* An attempt that ends without success after its child wrote something leaves the
\* worktree as the recovery path its result names.
RecoveryKept == \A t \in wrote :
  pos[t] \in {"blocked", "cancelled", "threw", "crashed", "unmerged"} => Holds(t)

\* The commit of an attempt that reports cancelled, unchanged or unmerged is not in the
\* workspace: only success, block and a throw may leave it there.
UntouchedUnlessSaid == \A t \in GitAttempt :
  pos[t] \in {"cancelled", "unchanged", "unmerged"} => ~Merged(t)

\* The workspace holds the commits of attempts in the order of the merges, each on the
\* base its child worked from: a child never reaches it on top of work it did not see.
MergedOntoBase == \A t \in GitAttempt :
  Merged(t) => IsPrefix(Commit(t), head)

\* An attempt that has started ends: every way out of the merge gives the lease back,
\* an abort while waiting for it included.
AttemptsEnd == <>[](\A t \in GitAttempt : pos[t] \in {"idle"} \cup Outcomes)

\* What a child wrote is in the workspace or in a worktree, and in the workspace only as
\* the result says and on the base the child saw (ControlledWorkspaceMergeV1).
WorkSafe == GitTypeOK /\ WorkKept /\ RecoveryKept /\ UntouchedUnlessSaid /\ MergedOntoBase
=============================================================================
