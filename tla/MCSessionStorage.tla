-------------------------- MODULE MCSessionStorage --------------------------
(***************************************************************************)
(* Instances of what outlives a process beside the journals, of which a      *)
(* behaviour takes one (part): the storage composition, with r1 configured   *)
(* for another store than the other Runtimes; and the notes of the long-term *)
(* memory, with two sessions in one of two directories.                      *)
(***************************************************************************)
EXTENDS SessionStorage, LongTermMemory, TLC

CONSTANTS r1, r2, r3, m1, s1, s2

VARIABLE part

OneOfEach == [p \in Runtime |-> IF p = r1 THEN "jsonl" ELSE "sqlite"]

OneDirectory == [s \in Session |-> "d1"]

MCInit == part \in {"storage", "memory"} /\ Init /\ MemoryInit

MCNext ==
  /\ UNCHANGED part
  /\ \/ part = "storage" /\ Next /\ UNCHANGED memoryVars
     \/ part = "memory" /\ MemoryNext /\ UNCHANGED vars

MCSpec == MCInit /\ [][MCNext]_<<part, vars, memoryVars>>

\* r2 and r3 are configured alike, and the names of sessions and operation ids do not matter.
\* A behaviour has either Runtimes or sessions that move, so one exchange does for both.
Interchangeable ==
  {(r2 :> r3) @@ (r3 :> r2) @@ (s1 :> s2) @@ (s2 :> s1)} \cup Permutations(Operation)
=============================================================================
