------------------------- MODULE DirectoryWorkspace -------------------------
(***************************************************************************)
(* How the work of a writing child comes back into a workspace that is not   *)
(* a Git repository.                                                         *)
(*                                                                          *)
(* DirectoryWorkspaceIsolationV1 gives each attempt a copy of the workspace, *)
(* and copies what the child changed back under WorkspaceWriteGuardV1: the   *)
(* guard holds the process-wide lease of the workspace, compares digests     *)
(* before and after, and verifies; when it refuses, merge restores the files *)
(* from the backups copyBack made, after the guard has given the lease back. *)
(* The user edits meanwhile and takes no lease.                              *)
(*                                                                          *)
(* The content of a file is 0 at first, the attempt whose child changed it,  *)
(* or the number of the event in which the user did; absence is a content    *)
(* like another.                                                             *)
(***************************************************************************)
EXTENDS Naturals, Sequences, SequencesExt

CONSTANTS
  DirAttempt,     \* attempts of tasks with a write grant
  Path,           \* files of the workspace: numbers, in the order of the change set
  MaxDirEvents    \* bound: edits of the user, aborts, faults of the disk and crashes,
                  \* together

ASSUME DirAssumption ==
  /\ Path # {} /\ Path \subseteq Nat
  /\ MaxDirEvents \in Nat
  /\ DirAttempt \cap Nat = {}

VARIABLES
  files,     \* the workspace
  at,        \* position of each attempt
  baseline,  \* the snapshot its isolation was made from
  copy,      \* its directory, or none
  backup,    \* the files copyBack has replaced so far, and what they held
  seen,      \* the workspace as captured after the copy-back
  faulty,    \* attempts whose result misreports its changes or leaves the grant
  verified,  \* attempts the verifiers passed
  torn,      \* attempts that could not restore a file, or crashed copying back
  queue,     \* attempts that hold or await the lease of the workspace, in order
  signalled, \* attempts whose signal is aborted
  dirEvents

dirVars == <<files, at, baseline, copy, backup, seen, faulty, verified, torn, queue, signalled, dirEvents>>

Content == DirAttempt \cup (0 .. MaxDirEvents)
None == [p \in {} |-> 0]
Snapshot == [Path -> Content]
Outcome == {"unchanged", "merged", "blocked", "cancelled", "unmerged", "threw", "crashed"}
Holder == {"before", "copying", "undo", "after", "verify", "seal"}
Position == {"idle", "captured", "child", "candidate", "wait", "rollback", "applied"} \cup Holder \cup Outcome

DirTypeOK ==
  /\ files \in Snapshot
  /\ at \in [DirAttempt -> Position]
  /\ baseline \in [DirAttempt -> Snapshot \cup {None}]
  /\ copy \in [DirAttempt -> Snapshot \cup {None}]
  /\ seen \in [DirAttempt -> Snapshot \cup {None}]
  /\ backup \in [DirAttempt -> UNION {[P -> Content] : P \in SUBSET Path}]
  /\ faulty \subseteq DirAttempt /\ verified \subseteq DirAttempt
  /\ torn \subseteq DirAttempt /\ signalled \subseteq DirAttempt
  /\ queue \in Seq(DirAttempt) /\ IsInjective(queue)
  /\ dirEvents \in 0 .. MaxDirEvents

DirInit ==
  /\ files = [p \in Path |-> 0]
  /\ at = [t \in DirAttempt |-> "idle"]
  /\ baseline = [t \in DirAttempt |-> None] /\ copy = [t \in DirAttempt |-> None]
  /\ backup = [t \in DirAttempt |-> None] /\ seen = [t \in DirAttempt |-> None]
  /\ faulty = {} /\ verified = {} /\ torn = {} /\ signalled = {}
  /\ queue = <<>> /\ dirEvents = 0

Occurs == dirEvents < MaxDirEvents /\ dirEvents' = dirEvents + 1
Goto(t, p) == at' = [at EXCEPT ![t] = p]
SetCopy(t, c) == copy' = [copy EXCEPT ![t] = c]
Vacate(t) == \E i \in DOMAIN queue : queue[i] = t /\ queue' = RemoveAt(queue, i)
Exit(t, outcome) == Goto(t, outcome) /\ Vacate(t)

\* parseNameStatus and materializeCandidate: the paths whose content differs.
Changed(t) == {p \in Path : copy[t][p] # baseline[t][p]}

snapVars == <<baseline, copy, faulty>>
guardVars == <<backup, seen, verified, torn>>

(***************************************************************************)
(* The snapshot, and the child in it.                                       *)
(***************************************************************************)

\* create: the directory and the first capture.
Capture(t) ==
  /\ at[t] = "idle"
  /\ Goto(t, "captured")
  /\ baseline' = [baseline EXCEPT ![t] = files]
  /\ SetCopy(t, files)
  /\ UNCHANGED <<files, faulty, guardVars, queue, signalled, dirEvents>>

\* copyBaseline checks each file against the capture, and a second capture that they
\* are all still the same; otherwise the directory is removed and create throws.
Stable(t) ==
  /\ at[t] = "captured"
  /\ IF t \notin signalled /\ files = baseline[t]
       THEN Goto(t, "child") /\ UNCHANGED copy
       ELSE Goto(t, "threw") /\ SetCopy(t, None)
  /\ UNCHANGED <<files, baseline, faulty, guardVars, queue, signalled, dirEvents>>

\* The child changes files of its copy, and its result is mergeable or not.
ChildReturns(t) ==
  /\ at[t] = "child"
  /\ \E changes \in SUBSET Path, misreported, mergeable \in BOOLEAN :
       /\ misreported => mergeable
       /\ SetCopy(t, [p \in Path |-> IF p \in changes THEN t ELSE baseline[t][p]])
       /\ faulty' = IF misreported THEN faulty \cup {t} ELSE faulty
       /\ Goto(t, IF mergeable THEN "candidate" ELSE "unmerged")
  /\ UNCHANGED <<files, baseline, guardVars, queue, signalled, dirEvents>>

\* A candidate that asks for the lease of the workspace under two names.
CandidateTwice(t) ==
  /\ at[t] = "candidate" /\ t \notin faulty /\ Changed(t) # {}
  /\ Goto(t, "wait") /\ queue' = queue \o <<t, t>>
  /\ UNCHANGED <<files, snapVars, guardVars, signalled, dirEvents>>

\* merge up to the guard: prepareCandidate, whose git commands an abort makes fail,
\* the protected paths, the grant, and the changes the result reports.
Candidate(t) ==
  /\ at[t] = "candidate"
  /\ \/ t \in signalled /\ \E o \in {"threw", "cancelled"} : Goto(t, o) /\ UNCHANGED <<copy, queue>>
     \/ /\ t \notin signalled
        /\ CASE t \in faulty -> Goto(t, "blocked") /\ UNCHANGED <<copy, queue>>
             [] t \notin faulty /\ Changed(t) = {} ->
                  Goto(t, "unchanged") /\ SetCopy(t, None) /\ UNCHANGED queue
             [] OTHER -> Goto(t, "wait") /\ queue' = Append(queue, t) /\ UNCHANGED copy
  /\ UNCHANGED <<files, baseline, faulty, guardVars, signalled, dirEvents>>

(***************************************************************************)
(* WorkspaceWriteGuardV1.execute and copyBack.                              *)
(***************************************************************************)

\* A waiter that gives up and keeps its place.
StopWaitingLeaks(t) ==
  /\ at[t] = "wait" /\ t \in signalled
  /\ Goto(t, "threw")
  /\ UNCHANGED <<files, snapVars, guardVars, queue, signalled, dirEvents>>

StopWaiting(t) ==
  /\ at[t] = "wait" /\ t \in signalled
  /\ Exit(t, "threw")
  /\ UNCHANGED <<files, snapVars, guardVars, signalled, dirEvents>>

Lease(t) ==
  /\ at[t] = "wait" /\ Head(queue) = t
  /\ Goto(t, "before")
  /\ UNCHANGED <<files, snapVars, guardVars, queue, signalled, dirEvents>>

\* The digest of the workspace must be that of the baseline.
UnchangedSince(t) == files = baseline[t]

\* The guard, holding the lease for the comparison only.
BeforeReleases(t) ==
  /\ at[t] = "before"
  /\ Exit(t, CASE t \in signalled -> "cancelled"
               [] t \notin signalled /\ ~UnchangedSince(t) -> "blocked"
               [] OTHER -> "copying")
  /\ UNCHANGED <<files, snapVars, guardVars, signalled, dirEvents>>

Before(t) ==
  /\ at[t] = "before"
  /\ CASE t \in signalled -> Exit(t, "cancelled")
       [] t \notin signalled /\ ~UnchangedSince(t) -> Exit(t, "blocked")
       [] OTHER -> Goto(t, "copying") /\ UNCHANGED queue
  /\ UNCHANGED <<files, snapVars, guardVars, signalled, dirEvents>>

Todo(t) == Changed(t) \ DOMAIN backup[t]

\* copyBack: one file, its backup first.  An abort or a fault of the disk ends it, and
\* the files are restored before it throws.
CopyFile(t) ==
  /\ at[t] = "copying"
  /\ \/ /\ t \notin signalled
        /\ \E p \in Todo(t) :
             /\ \A q \in Todo(t) : p <= q
             /\ backup' = [backup EXCEPT ![t] =
                  [q \in DOMAIN @ \cup {p} |-> IF q = p THEN files[p] ELSE @[q]]]
             /\ files' = [files EXCEPT ![p] = copy[t][p]]
        /\ UNCHANGED <<at, dirEvents>>
     \/ /\ Todo(t) # {}
        /\ IF t \in signalled THEN UNCHANGED dirEvents ELSE Occurs
        /\ Goto(t, "undo") /\ UNCHANGED <<files, backup>>
     \/ /\ Todo(t) = {}
        /\ Goto(t, "after") /\ UNCHANGED <<files, backup, dirEvents>>
  /\ UNCHANGED <<snapVars, seen, verified, torn, queue, signalled>>

\* rollbackCopies: the files restored from their backups, in reverse; a file that
\* cannot be restored ends it.
RestoreFile(t) ==
  \/ /\ \E p \in DOMAIN backup[t] :
          /\ \A q \in DOMAIN backup[t] : q <= p
          /\ files' = [files EXCEPT ![p] = backup[t][p]]
          /\ backup' = [backup EXCEPT ![t] = [q \in DOMAIN @ \ {p} |-> @[q]]]
     /\ UNCHANGED <<torn, dirEvents>>
  \/ /\ DOMAIN backup[t] # {} /\ Occurs
     /\ backup' = [backup EXCEPT ![t] = None]
     /\ torn' = torn \cup {t} /\ UNCHANGED files

\* copyBack's own restoration, inside the lease; then WORKSPACE_EXECUTOR_FAILED.
Undo(t) ==
  /\ at[t] = "undo"
  /\ \/ RestoreFile(t) /\ UNCHANGED <<at, queue>>
     \/ /\ DOMAIN backup[t] = {} /\ Exit(t, "blocked")
        /\ UNCHANGED <<files, backup, torn, dirEvents>>
  /\ UNCHANGED <<snapVars, seen, verified, signalled>>

\* The capture after: an abort after changes, and any change that is not the child's,
\* is refused.
AfterCopy(t) ==
  /\ at[t] = "after"
  /\ seen' = [seen EXCEPT ![t] = files]
  /\ IF t \in signalled \/ files # copy[t]
       THEN Exit(t, "rollback")
       ELSE Goto(t, "verify") /\ UNCHANGED queue
  /\ UNCHANGED <<files, snapVars, backup, verified, torn, signalled, dirEvents>>

Verifiers(t) ==
  /\ at[t] = "verify"
  /\ Goto(t, "seal")
  /\ verified' \in {verified, verified \cup {t}}
  /\ UNCHANGED <<files, snapVars, backup, seen, torn, queue, signalled, dirEvents>>

\* The guard's answer, refused without a restoration.
AnswerKeeps(t) ==
  /\ at[t] = "seal"
  /\ Exit(t, IF files = seen[t] /\ t \in verified THEN "applied" ELSE "blocked")
  /\ UNCHANGED <<files, snapVars, guardVars, signalled, dirEvents>>

\* The last capture and the guard's answer; the lease goes back.
Answer(t) ==
  /\ at[t] = "seal"
  /\ Exit(t, IF files = seen[t] /\ t \in verified THEN "applied" ELSE "rollback")
  /\ UNCHANGED <<files, snapVars, guardVars, signalled, dirEvents>>

\* A refusal restores the files after the guard has returned, without the lease; an
\* error in it is ignored.  The restoration that also discards the copy:
RollbackDiscards(t) ==
  /\ at[t] = "rollback"
  /\ \/ RestoreFile(t) /\ UNCHANGED <<at, copy>>
     \/ /\ DOMAIN backup[t] = {} /\ Goto(t, "blocked") /\ SetCopy(t, None)
        /\ UNCHANGED <<files, backup, torn, dirEvents>>
  /\ UNCHANGED <<baseline, faulty, seen, verified, queue, signalled>>

Rollback(t) ==
  /\ at[t] = "rollback"
  /\ \/ RestoreFile(t) /\ UNCHANGED at
     \/ /\ DOMAIN backup[t] = {} /\ Goto(t, "blocked")
        /\ UNCHANGED <<files, backup, torn, dirEvents>>
  /\ UNCHANGED <<snapVars, seen, verified, queue, signalled>>

\* A success removes the copy.
RemoveCopy(t) ==
  /\ at[t] = "applied"
  /\ Goto(t, "merged") /\ SetCopy(t, None)
  /\ UNCHANGED <<files, baseline, faulty, guardVars, queue, signalled, dirEvents>>

(***************************************************************************)
(* The others.                                                              *)
(***************************************************************************)

EditFile == /\ Occurs
            /\ \E p \in Path : files' = [files EXCEPT ![p] = dirEvents']
            /\ UNCHANGED <<at, snapVars, guardVars, queue, signalled>>

Signal(t) == /\ Occurs
             /\ t \notin signalled /\ at[t] \notin {"idle", "rollback", "applied"} \cup Outcome
             /\ signalled' = signalled \cup {t}
             /\ UNCHANGED <<files, at, snapVars, guardVars, queue>>

DirCrash == /\ Occurs
            /\ at' = [t \in DirAttempt |-> IF at[t] \in {"idle"} \cup Outcome THEN at[t] ELSE "crashed"]
            /\ torn' = torn \cup {t \in DirAttempt : at'[t] = "crashed" /\ DOMAIN backup[t] # {}}
            /\ queue' = <<>>
            /\ UNCHANGED <<files, snapVars, backup, seen, verified, signalled>>

Proceed(t) ==
  \/ Stable(t) \/ ChildReturns(t) \/ Candidate(t) \/ StopWaiting(t) \/ Lease(t)
  \/ Before(t) \/ CopyFile(t) \/ Undo(t) \/ AfterCopy(t) \/ Verifiers(t)
  \/ Answer(t) \/ Rollback(t) \/ RemoveCopy(t)

DirNext ==
  \/ \E t \in DirAttempt : Capture(t) \/ Proceed(t) \/ Signal(t)
  \/ EditFile \/ DirCrash

DirSpec == DirInit /\ [][DirNext]_dirVars /\ \A t \in DirAttempt : WF_dirVars(Proceed(t))

(***************************************************************************)
(* Properties.                                                              *)
(***************************************************************************)

\* No other attempt took its snapshot while the files of t were being tried out.
Unobserved(t) == \A u \in DirAttempt : baseline[u] # None => \A p \in Path : baseline[u][p] # t

\* An attempt that ends without success leaves nothing of its own in the workspace,
\* although the restoration runs after the lease has gone to the next: provided that
\* no other snapshot was taken of the files while they were there, and that no file
\* failed to be restored.
FailureUndone == \A t \in DirAttempt :
  /\ at[t] \in Outcome \ {"merged"}
  /\ t \notin torn /\ Unobserved(t)
  => \A p \in Path : files[p] # t

\* The files of a merged attempt are never put back to what its snapshot held, by the
\* restoration of an attempt that failed, whatever snapshots were taken meanwhile.
MergeStays == \A t \in DirAttempt :
  at[t] = "merged" => \A p \in DOMAIN backup[t] : files[p] # baseline[t][p]

\* Of the attempts made from one snapshot, at most one has files in the workspace that it
\* has merged or may still restore: no restoration of one undoes the merge of another,
\* although it runs without the lease.
SiblingsApart == \A t, u \in DirAttempt :
  t # u /\ baseline[t] = baseline[u] => DOMAIN backup[t] = {} \/ DOMAIN backup[u] = {}

\* The document's promise for all attempts, whatever snapshots they were made from: only
\* the user, or an attempt that holds the lease and has compared the workspace with its
\* snapshot, writes over a file that has been merged.
MergeUndisturbed ==
  [][\A t \in DirAttempt, p \in Path :
       at[t] = "merged" /\ files[p] = t /\ files'[p] # t
       => dirEvents' # dirEvents \/ \E u \in DirAttempt : at[u] = "copying"]_dirVars

\* An attempt that fails keeps the directory its result names for recovery.
CopyKept == \A t \in DirAttempt :
  at[t] \in {"blocked", "cancelled", "unmerged", "crashed"} => copy[t] # None

\* An attempt that has taken its snapshot ends.
CopiesEnd == <>[](\A t \in DirAttempt : at[t] \in {"idle"} \cup Outcome)

\* A copy-back is done or undone (DirectoryWorkspaceIsolationV1.merge): a failed one
\* leaves no file of its own that nobody has seen, a merged one is not put back to its
\* snapshot nor undone by another from the same snapshot, and a failed attempt keeps its
\* copy.  The restoration of an attempt made from another snapshot may still write over
\* merged files (MergeUndisturbed).
CopiesSafe == DirTypeOK /\ FailureUndone /\ MergeStays /\ SiblingsApart /\ CopyKept
=============================================================================
