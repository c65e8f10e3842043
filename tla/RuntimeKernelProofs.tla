------------------------ MODULE RuntimeKernelProofs ------------------------
(***************************************************************************)
(* RuntimeKernel tells the end of a run once and truly, commits a run's     *)
(* messages before its end, begins one run for a request, and keeps the     *)
(* session object and the journal together, for any number of prompts,      *)
(* requests, turns and failing calls.                                       *)
(*                                                                          *)
(* Between its steps a run is in two places: where the loop is (phase) and  *)
(* where its end is (fin).  The invariant says what the journal holds for   *)
(* each pair (RunFits), and what waits for the session lock (LockInv): a    *)
(* message of the loop is never behind the section that ends its run.       *)
(***************************************************************************)
EXTENDS RuntimeKernel, FiniteSetTheorems, TLAPS

Begun == Phases \ {"idle", "prepare", "begin", "refused"}
InTurn == {"model", "compacting", "steering"}     \* past the turn ceiling
Outcomes == {"completed", "failed", "blocked", "aborted"}

\* What a list of terminal events tells of a record.
Tells(en, rec) ==
  CASE en[1] = "persistence" -> rec = "running"
    [] en[1] = "workflow"    -> TRUE
    [] OTHER                 -> rec = TerminalState(en[1])

\* How far the loop and the end of a run have come, and what the journal says of it.
RunFits(ph, rec, fi, fa, en, tu, req) ==
  /\ ph \in Begun <=> rec # "none"
  /\ ph # "idle" => req \in Request
  /\ ph \in InTurn => tu < MaxTurns
  /\ fi # "none" => rec # "none"
  /\ rec # "none" /\ fi \in {"none", "guard", "queued"} => rec = "running"
  /\ fi \in {"none", "done"} => fa = "none"
  /\ fi \in {"guard", "queued"} => fa \in Outcomes
  /\ fi = "workflow" =>
       \/ fa = "persistence" /\ rec = "running"
       \/ fa \in Outcomes /\ rec = TerminalState(fa)
  /\ fi # "done" => en = <<>>
  /\ fi = "done" => Len(en) = 1 /\ Tells(en, rec)

RunsInv == \A r \in Run :
  /\ RunFits(phase[r], record[r], fin[r], fate[r], ends[r], turn[r], request[r])
  /\ r \in terminal <=> fin[r] # "none"

\* One run is running, and the session object knows it unless its end could not be written.
Solo == \A q, r \in Run : record[q] = "running" /\ record[r] = "running" => q = r
DeletedIsQuiet == life = "deleted" => \A r \in Run : record[r] # "running"

SessionInv ==
  /\ Solo /\ DeletedIsQuiet
  /\ session.active # NoRun => session.active \in Run /\ record[session.active] = "running"
  /\ \A r \in Run : record[r] = "running" => session.active = r \/ Spoiled(r)
  /\ ~session.inMap => session.active = NoRun /\ (session.closed \/ life = "deleted")

\* The sections that wait for the session lock.
Entries == [op : Ops, run : Run]
Final(r) == [op |-> "finalize", run |-> r]
Waiting(Q) == {Q[i] : i \in 1 .. Len(Q)}

Ordered(Q) ==
  /\ \A i, j \in 1 .. Len(Q) : Q[i] = Q[j] => i = j
  /\ \A i \in 1 .. Len(Q) : Q[i].op \in LoopOps => \A j \in 1 .. i : Q[j] # Final(Q[i].run)

Entry(e) ==
  /\ e.op = "finalize" => fin[e.run] = "queued"
  /\ e.op # "finalize" => phase[e.run] = e.op
  /\ e.op \in LoopOps => record[e.run] = "running" /\ fin[e.run] \notin {"workflow", "done"}
  /\ e.op = "steering" => steer[e.run].taken > 0

LockInv == Ordered(queue) /\ \A e \in Waiting(queue) : Entry(e)

Live == RunsInv /\ SessionInv /\ LockInv /\ OneRunPerRequest

\* What the process leaves behind when it exits.
Exited ==
  /\ queue = <<>> /\ session.active = NoRun
  /\ Solo /\ DeletedIsQuiet /\ EndTold /\ OneRunPerRequest

KernelInv ==
  /\ TypeOK
  /\ up # "closed" => Live
  /\ up = "closed" => Exited

-----------------------------------------------------------------------------
(* The queue of the session lock. *)

LEMMA Appended ==
  ASSUME NEW Q \in Seq(Entries), NEW e \in Entries
  PROVE  /\ Append(Q, e) \in Seq(Entries)
         /\ Waiting(Append(Q, e)) = Waiting(Q) \cup {e}
<1> DEFINE A == Append(Q, e)
<1>1. A \in Seq(Entries) /\ Len(A) = Len(Q) + 1 /\ Len(Q) \in Nat
      /\ (\A i \in 1 .. Len(Q) : A[i] = Q[i]) /\ A[Len(Q) + 1] = e
  OBVIOUS
<1> HIDE DEF A
<1>2. Waiting(A) \subseteq Waiting(Q) \cup {e}
  BY <1>1 DEF Waiting
<1>3. Waiting(Q) \subseteq Waiting(A)
  BY <1>1 DEF Waiting
<1>4. e \in Waiting(A)
  <2>1. Len(Q) + 1 \in 1 .. Len(A)
    BY <1>1
  <2>q. QED BY <1>1, <2>1 DEF Waiting
<1>q. QED BY <1>1, <1>2, <1>3, <1>4 DEF A

\* A section that joins the queue was not in it; a message of the loop comes before the end.
LEMMA AppendKeepsOrder ==
  ASSUME NEW Q \in Seq(Entries), NEW e \in Entries, Ordered(Q), e \notin Waiting(Q),
         e.op \in LoopOps => Final(e.run) \notin Waiting(Q)
  PROVE  Ordered(Append(Q, e))
<1> DEFINE A == Append(Q, e)
           n == Len(Q)
<1>1. A \in Seq(Entries) /\ Len(A) = n + 1 /\ n \in Nat
      /\ (\A i \in 1 .. n : A[i] = Q[i]) /\ A[n + 1] = e
  OBVIOUS
<1>2. \A i \in 1 .. n : Q[i] \in Waiting(Q)
  BY DEF Waiting
<1> HIDE DEF A, n
<1>3. \A i, j \in 1 .. Len(A) : A[i] = A[j] => i = j
  <2> SUFFICES ASSUME NEW i \in 1 .. n + 1, NEW j \in 1 .. n + 1, A[i] = A[j] PROVE i = j
    BY <1>1
  <2>1. CASE i \in 1 .. n /\ j \in 1 .. n
    BY <1>1, <2>1 DEF Ordered, n
  <2>2. CASE i = n + 1 /\ j \in 1 .. n
    BY <1>1, <1>2, <2>2
  <2>3. CASE j = n + 1 /\ i \in 1 .. n
    BY <1>1, <1>2, <2>3
  <2>4. CASE i = n + 1 /\ j = n + 1
    BY <2>4
  <2>5. (i \in 1 .. n \/ i = n + 1) /\ (j \in 1 .. n \/ j = n + 1)
    BY <1>1
  <2>q. QED BY <2>1, <2>2, <2>3, <2>4, <2>5
<1>4. ASSUME NEW i \in 1 .. Len(A), A[i].op \in LoopOps, NEW j \in 1 .. i
      PROVE  A[j] # Final(A[i].run)
  <2>1. CASE i \in 1 .. n
    <3>1. j \in 1 .. n
      BY <1>1, <2>1
    <3>q. QED BY <1>1, <1>4, <2>1, <3>1 DEF Ordered, n
  <2>2. CASE i = n + 1 /\ j = n + 1
    BY <1>1, <1>4, <2>2 DEF Final, LoopOps
  <2>3. CASE i = n + 1 /\ j \in 1 .. n
    BY <1>1, <1>2, <1>4, <2>3
  <2>4. (i \in 1 .. n \/ i = n + 1) /\ (j \in 1 .. n \/ j = n + 1)
    BY <1>1
  <2>q. QED BY <2>1, <2>2, <2>3, <2>4
<1>q. QED BY <1>3, <1>4 DEF Ordered, A

\* The section that leaves the lock was there once; an end that leaves has no message behind it.
LEMMA TailKeepsOrder ==
  ASSUME NEW Q \in Seq(Entries), Q # <<>>, Ordered(Q)
  PROVE  /\ Head(Q) \in Entries /\ Tail(Q) \in Seq(Entries)
         /\ Head(Q) \in Waiting(Q)
         /\ Waiting(Tail(Q)) \subseteq Waiting(Q) \ {Head(Q)}
         /\ Ordered(Tail(Q))
         /\ \A r \in Run : Head(Q) = Final(r) =>
              \A e \in Waiting(Tail(Q)) : e.op \in LoopOps => e.run # r
<1> DEFINE T == Tail(Q)
           n == Len(T)
<1>1. T \in Seq(Entries) /\ Len(Q) = n + 1 /\ n \in Nat /\ Head(Q) = Q[1]
      /\ (\A i \in 1 .. n : T[i] = Q[i + 1])
  OBVIOUS
<1> HIDE DEF T, n
<1>2. 1 \in 1 .. Len(Q) /\ (\A i \in 1 .. n : i + 1 \in 1 .. Len(Q) /\ i + 1 # 1)
  BY <1>1
<1>3. Head(Q) \in Entries /\ Head(Q) \in Waiting(Q)
  BY <1>1, <1>2 DEF Waiting
<1>4. \A i \in 1 .. n : T[i] \in Waiting(Q) /\ T[i] # Head(Q)
  BY <1>1, <1>2 DEF Waiting, Ordered
<1>5. Waiting(T) \subseteq Waiting(Q) \ {Head(Q)}
  BY <1>4 DEF Waiting, n
<1>6. \A i, j \in 1 .. n : T[i] = T[j] => i = j
  BY <1>1, <1>2 DEF Ordered
<1>7. ASSUME NEW i \in 1 .. n, T[i].op \in LoopOps, NEW j \in 1 .. i
      PROVE  T[j] # Final(T[i].run)
  <2>1. j \in 1 .. n /\ j + 1 \in 1 .. i + 1
    BY <1>1
  <2>q. QED BY <1>1, <1>2, <1>7, <2>1 DEF Ordered
<1>8. ASSUME NEW r \in Run, Head(Q) = Final(r), NEW i \in 1 .. n, T[i].op \in LoopOps
      PROVE  T[i].run # r
  <2>1. 1 \in 1 .. i + 1
    BY <1>1
  <2>q. QED BY <1>1, <1>2, <1>8, <2>1 DEF Ordered
<1>9. \A r \in Run : Head(Q) = Final(r) =>
        \A e \in Waiting(T) : e.op \in LoopOps => e.run # r
  BY <1>8 DEF Waiting, n
<1>10. Ordered(T)
  BY <1>6, <1>7 DEF Ordered, n
<1>q. QED BY <1>1, <1>3, <1>5, <1>9, <1>10 DEF T

LEMMA WaitingTyped ==
  ASSUME TypeOK
  PROVE  queue \in Seq(Entries) /\ Waiting(queue) \subseteq Entries
<1>1. queue \in Seq(Entries)
  BY DEF TypeOK, Entries
<1> HIDE DEF Entries
<1>2. \A i \in 1 .. Len(queue) : queue[i] \in Entries
  BY <1>1
<1>q. QED BY <1>1, <1>2 DEF Waiting

-----------------------------------------------------------------------------
(* The moves of a loop: what LeaveUnfinished, Enter and EndRun have in       *)
(* common, whatever the loop was doing.                                      *)

FlowTypes ==
  /\ queue \in Seq(Entries) /\ phase \in [Run -> Phases]
  /\ fin \in [Run -> {"none", "guard", "queued", "workflow", "done"}]
  /\ fate \in [Run -> Fates] /\ snapshot \in [Run -> Nat] /\ terminal \subseteq Run

\* q is the queue when the loop of r has left the lock.
Left(q, r) ==
  /\ q \in Seq(Entries) /\ Ordered(q) /\ Waiting(q) \subseteq Waiting(queue)
  /\ \A e \in Waiting(q) : e.run = r => e.op = "finalize"

SameObject ==
  /\ session'.active = session.active /\ session'.inMap = session.inMap
  /\ session'.closed = session.closed

\* A step of the loop of r leaves the journal's runs and the other loops alone.
Aside(r) ==
  /\ record' = record /\ ends' = ends /\ request' = request /\ life' = life
  /\ SameObject
  /\ \A x \in Run \ {r} : turn'[x] = turn[x] /\ steer'[x].taken = steer[x].taken

\* The loop of r may be at p next.
Place(r, p) ==
  /\ p \in Phases /\ p # "idle" /\ phase[r] # "idle"
  /\ p \in Begun <=> phase[r] \in Begun
  /\ p \in InTurn => turn'[r] < MaxTurns

LEMMA LeftQueue ==
  ASSUME TypeOK, Live, NEW r \in Run, phase[r] \notin Ops
  PROVE  Left(queue, r)
<1>1. ASSUME NEW e \in Waiting(queue), e.run = r PROVE e.op = "finalize"
  BY <1>1, WaitingTyped DEF Live, LockInv, Entry, Entries
<1>q. QED BY <1>1, WaitingTyped DEF Left, Live, LockInv

LEMMA LeftTail ==
  ASSUME TypeOK, Live, NEW r \in Run, NEW o \in Ops \ {"finalize"}, InLock(o, r)
  PROVE  Left(Tail(queue), r) /\ phase[r] = o
<1>1. queue \in Seq(Entries) /\ queue # <<>> /\ Ordered(queue)
  BY WaitingTyped DEF InLock, Live, LockInv
<1>2. /\ Tail(queue) \in Seq(Entries) /\ Ordered(Tail(queue)) /\ Head(queue) \in Waiting(queue)
      /\ Waiting(Tail(queue)) \subseteq Waiting(queue) \ {Head(queue)}
  BY <1>1, TailKeepsOrder
<1>3. Head(queue) = [op |-> o, run |-> r]
  BY DEF InLock
<1>4. phase[r] = o
  BY <1>2, <1>3 DEF Live, LockInv, Entry
<1>5. ASSUME NEW e \in Waiting(Tail(queue)), e.run = r PROVE e.op = "finalize"
  <2>1. e \in Entries /\ Entry(e) /\ e # [op |-> o, run |-> r]
    BY <1>2, <1>3, WaitingTyped DEF Live, LockInv
  <2>2. e.op # o
    BY <1>5, <2>1 DEF Entries
  <2>q. QED BY <1>4, <1>5, <2>1, <2>2 DEF Entry
<1>q. QED BY <1>2, <1>4, <1>5 DEF Left

LEMMA OthersFit ==
  ASSUME RunsInv, NEW r \in Run, Aside(r),
         \A x \in Run \ {r} : /\ phase'[x] = phase[x] /\ fin'[x] = fin[x] /\ fate'[x] = fate[x]
                              /\ x \in terminal' <=> x \in terminal
  PROVE  \A x \in Run \ {r} :
           /\ RunFits(phase[x], record[x], fin[x], fate[x], ends[x], turn[x], request[x])'
           /\ x \in terminal' <=> fin'[x] # "none"
<1> SUFFICES ASSUME NEW x \in Run \ {r}
             PROVE  /\ RunFits(phase[x], record[x], fin[x], fate[x], ends[x], turn[x], request[x])'
                    /\ x \in terminal' <=> fin'[x] # "none"
  OBVIOUS
<1>1. RunFits(phase[x], record[x], fin[x], fate[x], ends[x], turn[x], request[x])
      /\ (x \in terminal <=> fin[x] # "none")
  BY DEF RunsInv
<1>2. record'[x] = record[x] /\ ends'[x] = ends[x] /\ request'[x] = request[x] /\ turn'[x] = turn[x]
  BY DEF Aside
<1>q. QED BY <1>1, <1>2

\* A run whose end has not begun is not spoiled, so its end may begin.
LEMMA SessionKept ==
  ASSUME RunsInv, SessionInv, record' = record, ends' = ends, life' = life,
         SameObject, \A x \in Run : fate'[x] = fate[x] \/ x \notin terminal
  PROVE  SessionInv'
<1>1. ASSUME NEW x \in Run, Spoiled(x) PROVE Spoiled(x)'
  <2>1. x \in terminal
    <3>1. fate[x] = "persistence" => fin[x] # "none"
      BY DEF RunsInv, RunFits
    <3>2. ends[x] \in {<<"persistence">>, <<"workflow">>} => fin[x] # "none"
      <4>1. ends[x] \in {<<"persistence">>, <<"workflow">>} => ends[x] # <<>>
        OBVIOUS
      <4>q. QED BY <4>1 DEF RunsInv, RunFits
    <3>q. QED BY <1>1, <3>1, <3>2 DEF Spoiled, RunsInv
  <2>q. QED BY <1>1, <2>1 DEF Spoiled
<1>q. QED BY <1>1 DEF SessionInv, SameObject, Solo, DeletedIsQuiet

LEMMA GoOnKeeps ==
  ASSUME TypeOK, Live, NEW r \in Run, NEW q, Left(q, r), NEW p, Place(r, p), Aside(r), GoOn(q, r, p)
  PROVE  FlowTypes' /\ Live'
<1>1. /\ phase \in [Run -> Phases] /\ phase' = [phase EXCEPT ![r] = p] /\ queue' = q
      /\ fin' = fin /\ fate' = fate /\ terminal' = terminal /\ snapshot' = snapshot
  BY DEF TypeOK, GoOn, Go, finVars
<1>2. FlowTypes'
  BY <1>1 DEF TypeOK, FlowTypes, Left, Place
<1>3. RunsInv'
  <2>1. \A x \in Run \ {r} :
          /\ RunFits(phase[x], record[x], fin[x], fate[x], ends[x], turn[x], request[x])'
          /\ x \in terminal' <=> fin'[x] # "none"
    BY <1>1, OthersFit DEF Live
  <2>2. RunFits(p, record[r], fin[r], fate[r], ends[r], turn'[r], request[r])
    BY DEF Live, RunsInv, RunFits, Place
  <2>q. QED BY <1>1, <2>1, <2>2 DEF Live, RunsInv, Aside
<1>4. SessionInv'
  BY <1>1, SessionKept DEF Live, Aside
<1>5. LockInv'
  <2>1. ASSUME NEW e \in Waiting(q) PROVE Entry(e)'
    <3>1. e \in Entries /\ Entry(e) /\ (e.run = r => e.op = "finalize")
      BY WaitingTyped DEF Live, LockInv, Left
    <3>2. CASE e.run = r
      BY <1>1, <3>1, <3>2 DEF Entry, LoopOps
    <3>3. CASE e.run # r
      <4>1. e.run \in Run \ {r}
        BY <3>1, <3>3 DEF Entries
      <4>q. QED BY <1>1, <3>1, <4>1 DEF Entry, Aside
    <3>q. QED BY <3>2, <3>3
  <2>q. QED BY <1>1, <2>1 DEF LockInv, Left
<1>6. OneRunPerRequest'
  BY DEF Live, OneRunPerRequest, Aside
<1>q. QED BY <1>2, <1>3, <1>4, <1>5, <1>6 DEF Live

\* A loop asks for the lock, for a message only while the end of its run has not begun.
LEMMA EnterKeeps ==
  ASSUME TypeOK, Live, NEW r \in Run, NEW q, Left(q, r), NEW o \in Ops \ {"finalize"},
         Place(r, o), Aside(r), Enter(q, r, o),
         o \in LoopOps => r \notin terminal,
         o = "steering" => steer'[r].taken > 0
  PROVE  FlowTypes' /\ Live'
<1> DEFINE new == [op |-> o, run |-> r]
<1>1. /\ phase \in [Run -> Phases] /\ phase' = [phase EXCEPT ![r] = o]
      /\ queue' = Append(q, new) /\ q \in Seq(Entries) /\ new \in Entries
      /\ fin' = fin /\ fate' = fate /\ terminal' = terminal /\ snapshot' = snapshot
  BY DEF TypeOK, Enter, Go, withSessionLock, finVars, Entries, Left
<1>2. queue' \in Seq(Entries) /\ Waiting(queue') = Waiting(q) \cup {new}
  BY <1>1, Appended
<1>3. FlowTypes'
  BY <1>1, <1>2 DEF TypeOK, FlowTypes, Place
<1>4. RunsInv'
  <2>1. \A x \in Run \ {r} :
          /\ RunFits(phase[x], record[x], fin[x], fate[x], ends[x], turn[x], request[x])'
          /\ x \in terminal' <=> fin'[x] # "none"
    BY <1>1, OthersFit DEF Live
  <2>2. RunFits(o, record[r], fin[r], fate[r], ends[r], turn'[r], request[r])
    BY DEF Live, RunsInv, RunFits, Place
  <2>q. QED BY <1>1, <2>1, <2>2 DEF Live, RunsInv, Aside
<1>5. SessionInv'
  BY <1>1, SessionKept DEF Live, Aside
<1>6. o \in LoopOps => fin[r] = "none" /\ record[r] = "running"
  BY DEF Live, RunsInv, RunFits, Place, LoopOps, Begun, Phases
<1>7. Ordered(queue')
  <2>1. new \notin Waiting(q)
    BY DEF Left
  <2>2. o \in LoopOps => Final(r) \notin Waiting(q)
    <3>1. Final(r) \in Waiting(q) => fin[r] = "queued"
      BY DEF Live, LockInv, Entry, Left, Final
    <3>q. QED BY <1>6, <3>1
  <2>q. QED BY <1>1, <2>1, <2>2, AppendKeepsOrder DEF Left
<1>8. ASSUME NEW e \in Waiting(queue') PROVE Entry(e)'
  <2>1. CASE e = new
    BY <1>1, <1>6, <2>1 DEF Entry, Aside, TypeOK, Entries
  <2>2. CASE e \in Waiting(q)
    <3>1. e \in Entries /\ Entry(e) /\ (e.run = r => e.op = "finalize")
      BY <2>2, WaitingTyped DEF Live, LockInv, Left
    <3>2. CASE e.run = r
      BY <1>1, <3>1, <3>2 DEF Entry, LoopOps
    <3>3. CASE e.run # r
      <4>1. e.run \in Run \ {r}
        BY <3>1, <3>3 DEF Entries
      <4>q. QED BY <1>1, <3>1, <4>1 DEF Entry, Aside
    <3>q. QED BY <3>2, <3>3
  <2>q. QED BY <1>2, <2>1, <2>2
<1>9. OneRunPerRequest'
  BY DEF Live, OneRunPerRequest, Aside
<1>q. QED BY <1>3, <1>4, <1>5, <1>7, <1>8, <1>9 DEF Live, LockInv

(***************************************************************************)
(* The end of a run begins: q is the queue, the one of the loop that has    *)
(* left the lock or that of a client.                                       *)
(***************************************************************************)
LEMMA EndBegins ==
  ASSUME TypeOK, Live, NEW r \in Run, r \notin terminal, record[r] # "none",
         NEW q \in Seq(Entries), Ordered(q), Waiting(q) \subseteq Waiting(queue),
         Aside(r), NEW f \in Outcomes, finishRun(q, r, f),
         phase' \in [Run -> Phases], \A x \in Run \ {r} : phase'[x] = phase[x],
         Place(r, phase'[r]), \A e \in Waiting(q) : e.run = r => phase'[r] = phase[r],
         phase'[r] \in InTurn => turn'[r] < MaxTurns,
         steer'[r].taken = steer[r].taken \/ \A e \in Waiting(q) : e.run # r
  PROVE  FlowTypes' /\ Live'
<1> DEFINE g == IF f = "completed" THEN "guard" ELSE "queued"
<1>1. /\ fin \in [Run -> {"none", "guard", "queued", "workflow", "done"}]
      /\ fin' = [fin EXCEPT ![r] = g] /\ g \in {"guard", "queued"}
      /\ fate \in [Run -> Fates] /\ fate' = [fate EXCEPT ![r] = f] /\ f \in Fates
      /\ terminal' = terminal \cup {r} /\ snapshot' \in [Run -> Nat]
  BY DEF TypeOK, finishRun, Outcomes, Fates
<1>2. fin[r] = "none" /\ record[r] = "running"
  BY DEF Live, RunsInv, RunFits
<1>3. /\ Final(r) \in Entries /\ Final(r).run = r /\ Final(r).op = "finalize"
      /\ Final(r) \notin Waiting(q)
  BY <1>2 DEF Final, Entries, Ops, Live, LockInv, Entry
<1>4. /\ queue' \in Seq(Entries) /\ Ordered(queue')
      /\ \/ Waiting(queue') = Waiting(q)
         \/ Waiting(queue') = Waiting(q) \cup {Final(r)} /\ g = "queued"
  <2>1. CASE f = "completed"
    BY <2>1 DEF finishRun
  <2>2. CASE f # "completed"
    <3>1. queue' = Append(q, Final(r)) /\ g = "queued"
      BY <2>2 DEF finishRun, withSessionLock, Final
    <3>2. Final(r).op \notin LoopOps
      BY <1>3 DEF LoopOps
    <3>q. QED BY <1>3, <3>1, <3>2, Appended, AppendKeepsOrder
  <2>q. QED BY <2>1, <2>2
<1>5. FlowTypes'
  BY <1>1, <1>4 DEF TypeOK, FlowTypes
<1>6. RunsInv'
  <2>1. \A x \in Run \ {r} :
          /\ RunFits(phase[x], record[x], fin[x], fate[x], ends[x], turn[x], request[x])'
          /\ x \in terminal' <=> fin'[x] # "none"
    BY <1>1, OthersFit DEF Live
  <2>2. RunFits(phase'[r], record[r], g, f, ends[r], turn'[r], request[r])
    BY <1>1, <1>2 DEF Live, RunsInv, RunFits, Place
  <2>3. record'[r] = record[r] /\ ends'[r] = ends[r] /\ request'[r] = request[r]
    BY DEF Aside
  <2>4. fin'[r] = g /\ fate'[r] = f /\ r \in terminal' /\ g # "none"
    BY <1>1
  <2>5. RunFits(phase[r], record[r], fin[r], fate[r], ends[r], turn[r], request[r])'
    BY <2>2, <2>3, <2>4
  <2>q. QED BY <2>1, <2>4, <2>5 DEF RunsInv
<1>7. SessionInv'
  <2>1. \A x \in Run : fate'[x] = fate[x] \/ x \notin terminal
    BY <1>1
  <2>q. QED BY <2>1, SessionKept DEF Live, Aside
<1>8. ASSUME NEW e \in Waiting(queue') PROVE Entry(e)'
  <2>1. CASE e = Final(r) /\ g = "queued"
    BY <1>1, <1>3, <2>1 DEF Entry, LoopOps
  <2>2. CASE e \in Waiting(q)
    <3>1. e \in Entries /\ Entry(e) /\ e.run \in Run
      BY <2>2, WaitingTyped DEF Live, LockInv, Entries
    <3>2. CASE e.run = r
      <4>1. /\ e.op # "finalize" /\ phase'[r] = phase[r] /\ steer'[r].taken = steer[r].taken
            /\ fin'[r] \in {"guard", "queued"} /\ record'[r] = record[r]
        BY <1>1, <1>2, <2>2, <3>1, <3>2 DEF Entry, Aside
      <4>q. QED BY <3>1, <3>2, <4>1 DEF Entry
    <3>3. CASE e.run # r
      BY <1>1, <3>1, <3>3 DEF Entry, Aside
    <3>q. QED BY <3>2, <3>3
  <2>q. QED BY <1>4, <2>1, <2>2
<1>9. OneRunPerRequest'
  BY DEF Live, OneRunPerRequest, Aside
<1>q. QED BY <1>4, <1>5, <1>6, <1>7, <1>8, <1>9 DEF Live, LockInv

LEMMA EndRunKeeps ==
  ASSUME TypeOK, Live, NEW r \in Run, NEW q, Left(q, r), phase[r] \in Begun, Aside(r),
         NEW f \in Outcomes, EndRun(q, r, f)
  PROVE  FlowTypes' /\ Live'
<1>1. Place(r, "out")
  BY DEF Place, Phases, Begun, InTurn
<1>2. CASE r \in terminal
  BY <1>1, <1>2, GoOnKeeps DEF EndRun, finish, GoOn
<1>3. CASE r \notin terminal
  <2>1. finishRun(q, r, f) /\ phase' = [phase EXCEPT ![r] = "out"] /\ phase \in [Run -> Phases]
    BY <1>3 DEF EndRun, finish, Go, TypeOK
  <2>2. record[r] # "none" /\ fin[r] = "none"
    BY <1>3 DEF Live, RunsInv, RunFits
  <2>3. \A e \in Waiting(q) : e.run # r
    BY <2>2 DEF Left, Live, LockInv, Entry
  <2>4. /\ phase' \in [Run -> Phases] /\ phase'[r] = "out" /\ "out" \notin InTurn
        /\ \A x \in Run \ {r} : phase'[x] = phase[x]
    BY <2>1 DEF Phases, InTurn
  <2>q. QED BY <1>1, <1>3, <2>1, <2>2, <2>3, <2>4, EndBegins DEF Left
<1>q. QED BY <1>2, <1>3

\* The loop returns, or fails, wherever it is.
LEMMA LeaveKeeps ==
  ASSUME TypeOK, Live, NEW r \in Run, NEW q, Left(q, r), phase[r] \in Begun, Aside(r),
         NEW spent, Leave(q, r, spent) \/ Catch(q, r)
  PROVE  FlowTypes' /\ Live'
<1>1. EndRun(q, r, "aborted") \/ EndRun(q, r, "failed") \/ GoOn(q, r, "out")
  BY DEF Leave, Catch
<1>2. "aborted" \in Outcomes /\ "failed" \in Outcomes
  BY DEF Outcomes
<1>3. Place(r, "out")
  BY DEF Place, Phases, Begun, InTurn
<1>q. QED BY <1>1, <1>2, <1>3, EndRunKeeps, GoOnKeeps

-----------------------------------------------------------------------------
(* The steps of AgentLoop.execute. *)

SessionRow == [gen : Nat, inMap : BOOLEAN, closed : BOOLEAN, active : Run \cup {NoRun},
               seen : SUBSET Request, memory : Nat]
SteerRow == [sent : Nat, posting : Nat, queued : Nat, taken : Nat]
Permissions == {"none", "pending", "deciding", "allowed", "denied", "lost"}

RestTypes ==
  /\ session \in SessionRow /\ life \in {"open", "closed", "deleted"}
  /\ record \in [Run -> {"none", "running", "completed", "failed", "aborted"}]
  /\ stored \in Seq(Nat) /\ request \in [Run -> Request \cup {NoRun}] /\ held \in [Run -> Nat]
  /\ aborted \subseteq Run /\ steer \in [Run -> SteerRow] /\ perm \in [Run -> Permissions]
  /\ turn \in [Run -> 0 .. MaxTurns] /\ ends \in [Run -> Seq(Ends)]
  /\ up \in {"up", "stopping", "closed"} /\ faults \in Nat

LEMMA TypesSplit == (TypeOK <=> FlowTypes /\ RestTypes) /\ (TypeOK' <=> FlowTypes' /\ RestTypes')
BY DEF TypeOK, FlowTypes, RestTypes, Entries, SessionRow, SteerRow, Permissions

FaultsMayRise == faults' = faults \/ Throws

\* A step of the loop of r changes its tool calls and the memory, and no more outside the loop.
Quiet(r) ==
  /\ UNCHANGED <<life, record, hostVars>> /\ FaultsMayRise
  /\ session' \in SessionRow /\ SameObject
  /\ stored' \in Seq(Nat) /\ aborted' \subseteq Run
  /\ steer' \in [Run -> SteerRow] /\ perm' \in [Run -> Permissions] /\ turn' \in [Run -> 0 .. MaxTurns]
  /\ \A x \in Run \ {r} : turn'[x] = turn[x] /\ steer'[x].taken = steer[x].taken

LEMMA QuietTypes ==
  ASSUME TypeOK, NEW r \in Run, Quiet(r)
  PROVE  RestTypes' /\ Aside(r)
<1>1. RestTypes /\ (Throws => faults' = faults + 1)
  BY TypesSplit DEF Throws
<1>2. RestTypes'
  BY <1>1 DEF Quiet, FaultsMayRise, RestTypes, hostVars
<1>q. QED BY <1>2 DEF Quiet, Aside, hostVars

LEMMA StillQuiet ==
  ASSUME TypeOK, NEW r \in Run, UNCHANGED <<session, diskVars, aborted, toolVars, hostVars>>,
         FaultsMayRise
  PROVE  Quiet(r) /\ turn' = turn /\ steer' = steer
BY TypesSplit DEF RestTypes, Quiet, SameObject, diskVars, toolVars, hostVars

\* What a step of the loop comes to, with what was proved of its parts.
LEMMA LoopKeeps ==
  ASSUME TypeOK, Live, NEW r \in Run, NEW q, Left(q, r), Quiet(r), phase[r] \in Begun,
         \/ \E spent : Leave(q, r, spent)
         \/ Catch(q, r)
         \/ \E f \in Outcomes : EndRun(q, r, f)
         \/ \E p \in Begun \ InTurn : GoOn(q, r, p)
         \/ turn'[r] < MaxTurns /\ SelectContext(q, r)
         \/ /\ r \notin terminal
            /\ \E o \in LoopOps : /\ Enter(q, r, o)
                                  /\ o = "steering" => turn'[r] < MaxTurns /\ steer'[r].taken > 0
  PROVE  TypeOK' /\ Live'
<1>1. RestTypes' /\ Aside(r)
  BY QuietTypes
<1>2. phase[r] # "idle" /\ phase[r] \in Phases
  BY DEF Begun
<1>3. FlowTypes' /\ Live'
  <2>1. CASE (\E spent : Leave(q, r, spent)) \/ Catch(q, r)
    BY <1>1, <2>1, LeaveKeeps
  <2>2. CASE \E f \in Outcomes : EndRun(q, r, f)
    BY <1>1, <2>2, EndRunKeeps
  <2>3. ASSUME NEW p \in Begun \ InTurn, GoOn(q, r, p) PROVE FlowTypes' /\ Live'
    <3>1. Place(r, p)
      BY <1>2 DEF Place, Begun
    <3>q. QED BY <1>1, <2>3, <3>1, GoOnKeeps
  <2>4. CASE turn'[r] < MaxTurns /\ SelectContext(q, r)
    <3>1. Place(r, "model") /\ Place(r, "compacting") /\ "compacting" \in Ops \ {"finalize"}
          /\ "compacting" \notin LoopOps /\ "compacting" # "steering"
      BY <1>2, <2>4 DEF Place, Begun, Phases, Ops, LoopOps
    <3>q. QED BY <1>1, <2>4, <3>1, GoOnKeeps, EnterKeeps DEF SelectContext
  <2>5. ASSUME r \notin terminal, NEW o \in LoopOps, Enter(q, r, o),
               o = "steering" => turn'[r] < MaxTurns /\ steer'[r].taken > 0
        PROVE  FlowTypes' /\ Live'
    <3>1. o \in Ops \ {"finalize"} /\ Place(r, o)
      BY <1>2, <2>5 DEF Place, Begun, Phases, Ops, LoopOps, InTurn
    <3>q. QED BY <1>1, <2>5, <3>1, EnterKeeps
  <2>q. QED BY <2>1, <2>2, <2>3, <2>4, <2>5
<1>q. QED BY <1>1, <1>3, TypesSplit

\* The positions and the sections of the loop.
LEMMA LoopPlaces ==
  /\ LoopOps \subseteq Ops \ {"finalize"} /\ "compacting" \in Ops \ {"finalize"}
  /\ LoopOps \cup {"compacting", "extra"} \subseteq Begun
  /\ \A p \in {"launch", "provider", "round", "model", "tool", "asking", "running", "guidance"} :
       p \in Begun /\ p \notin Ops
  /\ {"provider", "round", "tool", "asking", "running", "guidance", "out", "launch", "stranded"}
       \subseteq Begun \ InTurn
  /\ {"completed", "failed", "blocked", "aborted"} \subseteq Outcomes
BY DEF LoopOps, Ops, Begun, Phases, InTurn, Outcomes

LEMMA LaunchKeeps ==
  ASSUME TypeOK, Live, NEW r \in Run, Launch(r) \/ ProviderReady(r) PROVE TypeOK' /\ Live'
<1>1. Quiet(r)
  BY StillQuiet DEF Launch, ProviderReady, FaultsMayRise
<1>2. phase[r] \in Begun /\ Left(queue, r)
  BY LeftQueue, LoopPlaces DEF Launch, ProviderReady
<1>3. CASE Launch(r)
  BY <1>1, <1>2, <1>3, LoopKeeps, LoopPlaces DEF Launch
<1>4. CASE ProviderReady(r)
  BY <1>1, <1>2, <1>4, LoopKeeps, LoopPlaces DEF ProviderReady
<1>q. QED BY <1>3, <1>4

LEMMA RoundKeeps ==
  ASSUME TypeOK, Live, NEW r \in Run, Round(r) PROVE TypeOK' /\ Live'
<1>1. RestTypes /\ steer[r] \in SteerRow /\ turn[r] \in 0 .. MaxTurns
  BY TypesSplit DEF RestTypes
<1>2. phase[r] \in Begun /\ Left(queue, r)
  BY LeftQueue, LoopPlaces DEF Round
<1>3. CASE TurnCeiling(r)
  <2>1. Quiet(r) /\ Catch(queue, r)
    BY <1>3, StillQuiet DEF Round, FaultsMayRise, toolVars
  <2>q. QED BY <1>2, <2>1, LoopKeeps
<1>4. CASE ~TurnCeiling(r)
  <2> DEFINE row == [sent |-> steer[r].sent, posting |-> steer[r].posting, queued |-> 0,
                     taken |-> steer[r].queued]
  <2>1. row \in SteerRow /\ steer' = [steer EXCEPT ![r] = row]
    BY <1>1, <1>4 DEF Round, SteerRow, RestTypes
  <2>2. /\ steer' \in [Run -> SteerRow] /\ steer'[r].taken = steer[r].queued
        /\ \A x \in Run \ {r} : steer'[x].taken = steer[x].taken
    BY <1>1, <2>1 DEF RestTypes
  <2>3. Quiet(r) /\ turn' = turn
    BY <1>1, <2>2 DEF Quiet, SameObject, RestTypes, Round, FaultsMayRise, diskVars
  <2>4. turn'[r] < MaxTurns
    BY <1>1, <1>4, <2>3, KernelAssumption DEF TurnCeiling
  <2>5. \/ Leave(queue, r, FALSE)
        \/ SelectContext(queue, r)
        \/ r \notin terminal /\ Enter(queue, r, "steering") /\ steer'[r].taken > 0
    BY <1>4, <2>2 DEF Round, shouldStop
  <2>q. QED BY <1>2, <2>3, <2>4, <2>5, LoopKeeps DEF LoopOps
<1>q. QED BY <1>3, <1>4

LEMMA SteerCommittedKeeps ==
  ASSUME TypeOK, Live, NEW r \in Run, SteerCommitted(r) PROVE TypeOK' /\ Live'
<1> DEFINE rest == Tail(queue)
<1>1. RestTypes /\ steer[r] \in SteerRow
  BY TypesSplit DEF RestTypes
<1>2. Left(rest, r) /\ phase[r] = "steering"
  BY LeftTail, LoopPlaces DEF SteerCommitted, LoopOps
<1>3. phase[r] \in Begun /\ turn[r] < MaxTurns /\ steer[r].taken > 0
  <2>1. Head(queue) \in Waiting(queue) /\ Head(queue) = [op |-> "steering", run |-> r]
    <3>1. queue \in Seq(Entries) /\ queue # <<>> /\ Ordered(queue)
      BY WaitingTyped DEF SteerCommitted, InLock, Live, LockInv
    <3>q. QED BY <3>1, TailKeepsOrder DEF SteerCommitted, InLock
  <2>2. steer[r].taken > 0
    BY <2>1 DEF Live, LockInv, Entry
  <2>q. QED BY <1>2, <2>2, LoopPlaces DEF Live, RunsInv, RunFits, LoopOps, InTurn
<1>4. CASE Throws /\ Catch(rest, r) /\ UNCHANGED steer
  <2>1. Quiet(r)
    BY <1>4, StillQuiet DEF SteerCommitted, FaultsMayRise, toolVars
  <2>q. QED BY <1>2, <1>3, <1>4, <2>1, LoopKeeps
<1>5. CASE ~ (Throws /\ Catch(rest, r) /\ UNCHANGED steer)
  <2> DEFINE row == [sent |-> steer[r].sent, posting |-> steer[r].posting,
                     queued |-> steer[r].queued, taken |-> steer[r].taken - 1]
  <2>1. row \in SteerRow /\ steer' = [steer EXCEPT ![r] = row]
    <3>1. row \in SteerRow
      <4>1. steer[r].taken \in Nat /\ steer[r].sent \in Nat /\ steer[r].posting \in Nat
            /\ steer[r].queued \in Nat
        BY <1>1 DEF SteerRow
      <4>2. steer[r].taken - 1 \in Nat
        BY <1>3, <4>1
      <4>q. QED BY <4>1, <4>2 DEF SteerRow
    <3>2. steer' = [steer EXCEPT ![r].taken = @ - 1]
      BY <1>5 DEF SteerCommitted
    <3>3. row = [steer[r] EXCEPT !.taken = steer[r].taken - 1]
      BY <1>1 DEF SteerRow
    <3>q. QED BY <3>1, <3>2, <3>3
  <2>2. /\ steer' \in [Run -> SteerRow] /\ \A x \in Run \ {r} : steer'[x].taken = steer[x].taken
    BY <1>1, <2>1 DEF RestTypes
  <2>3. Quiet(r) /\ turn'[r] < MaxTurns
    BY <1>1, <1>3, <1>5, <2>2 DEF Quiet, SameObject, RestTypes, SteerCommitted, FaultsMayRise, diskVars, Persists
  <2>4. \/ Leave(rest, r, FALSE)
        \/ SelectContext(rest, r)
        \/ r \notin terminal /\ Enter(rest, r, "steering") /\ steer'[r].taken > 0
    BY <1>5 DEF SteerCommitted, shouldStop
  <2>q. QED BY <1>2, <1>3, <2>3, <2>4, LoopKeeps DEF LoopOps
<1>q. QED BY <1>4, <1>5

LEMMA CompactedKeeps ==
  ASSUME TypeOK, Live, NEW r \in Run, Compacted(r) PROVE TypeOK' /\ Live'
<1> DEFINE rest == Tail(queue)
<1>1. RestTypes /\ session \in SessionRow /\ stored \in Seq(Nat) /\ Len(stored) + 1 \in Nat
  BY TypesSplit DEF RestTypes
<1>2. Left(rest, r) /\ phase[r] = "compacting"
  BY LeftTail, LoopPlaces DEF Compacted
<1>3. phase[r] \in Begun
  BY <1>2, LoopPlaces
<1>4. CASE Throws /\ Catch(rest, r) /\ UNCHANGED <<stored, session, aborted>>
  <2>1. Quiet(r)
    BY <1>4, StillQuiet DEF Compacted, FaultsMayRise, diskVars
  <2>q. QED BY <1>2, <1>3, <1>4, <2>1, LoopKeeps
<1>5. CASE ~ (Throws /\ Catch(rest, r) /\ UNCHANGED <<stored, session, aborted>>)
  <2>1. stored' \in Seq(Nat)
    <3>1. \A m \in Nat : Append(stored, m) \in Seq(Nat)
      BY <1>1
    <3>q. QED BY <1>1, <1>5, <3>1 DEF Compacted
  <2>2. session' \in SessionRow /\ SameObject
    BY <1>1, <1>5 DEF Compacted, SessionRow, SameObject
  <2>3. aborted' \subseteq Run /\ faults' = faults
    BY <1>1, <1>5 DEF Compacted, RestTypes, Persists
  <2>4. Quiet(r)
    BY <1>1, <2>1, <2>2, <2>3 DEF Quiet, Compacted, RestTypes, FaultsMayRise, toolVars
  <2>5. Leave(rest, r, TRUE) \/ GoOn(rest, r, "model")
    BY <1>5 DEF Compacted
  <2>6. turn'[r] < MaxTurns
    BY <1>2 DEF Live, RunsInv, RunFits, Compacted, toolVars, InTurn
  <2>7. GoOn(rest, r, "model") => SelectContext(rest, r)
    BY DEF SelectContext
  <2>q. QED BY <1>2, <1>3, <2>4, <2>5, <2>6, <2>7, LoopKeeps
<1>q. QED BY <1>4, <1>5

LEMMA ModelAnswersKeeps ==
  ASSUME TypeOK, Live, NEW r \in Run, ModelAnswers(r) PROVE TypeOK' /\ Live'
<1>1. RestTypes
  BY TypesSplit
<1>2. phase[r] \in Begun /\ Left(queue, r) /\ phase[r] = "model"
  BY LeftQueue, LoopPlaces DEF ModelAnswers
<1>3. turn[r] < MaxTurns /\ turn[r] \in 0 .. MaxTurns
  BY <1>1, <1>2 DEF Live, RunsInv, RunFits, InTurn, RestTypes
<1>4. turn' \in [Run -> 0 .. MaxTurns] /\ \A x \in Run \ {r} : turn'[x] = turn[x]
  <2>1. turn[r] + 1 \in 0 .. MaxTurns
    BY <1>3, KernelAssumption
  <2>2. turn' = turn \/ turn' = [turn EXCEPT ![r] = turn[r] + 1]
    BY DEF ModelAnswers
  <2>q. QED BY <1>1, <2>1, <2>2 DEF RestTypes
<1>5. aborted' \subseteq Run
  BY <1>1 DEF ModelAnswers, RestTypes
<1>6. Quiet(r)
  BY <1>1, <1>4, <1>5 DEF Quiet, SameObject, ModelAnswers, RestTypes, FaultsMayRise, diskVars
<1>7. \/ Catch(queue, r)
      \/ Leave(queue, r, FALSE) \/ Leave(queue, r, TRUE)
      \/ turn'[r] < MaxTurns /\ SelectContext(queue, r)
      \/ r \notin terminal /\ Enter(queue, r, "assistant")
  BY <1>3 DEF ModelAnswers, SelectContext, MayCommit, shouldStop
<1>q. QED BY <1>2, <1>6, <1>7, LoopKeeps DEF LoopOps

LEMMA AnswerKeeps ==
  ASSUME TypeOK, Live, NEW r \in Run, AnswerCommitted(r) \/ ResultCommitted(r)
  PROVE  TypeOK' /\ Live'
<1> DEFINE rest == Tail(queue)
<1>1. Quiet(r)
  BY StillQuiet DEF AnswerCommitted, ResultCommitted, FaultsMayRise, Persists
<1>2. Left(rest, r) /\ phase[r] \in {"assistant", "settle"}
  BY LeftTail, LoopPlaces DEF AnswerCommitted, ResultCommitted, LoopOps
<1>3. phase[r] \in Begun
  BY <1>2, LoopPlaces DEF LoopOps
<1>4. \/ Leave(rest, r, FALSE) \/ Catch(rest, r)
      \/ \E p \in {"tool", "round", "guidance"} : GoOn(rest, r, p)
      \/ EndRun(rest, r, "failed") \/ EndRun(rest, r, "completed")
  <2>1. CASE AnswerCommitted(r)
    BY <2>1 DEF AnswerCommitted
  <2>2. CASE ResultCommitted(r)
    BY <2>2 DEF ResultCommitted
  <2>q. QED BY <2>1, <2>2
<1>q. QED BY <1>1, <1>2, <1>3, <1>4, LoopKeeps, LoopPlaces

LEMMA ToolKeeps ==
  ASSUME TypeOK, Live, NEW r \in Run,
         ToolCall(r) \/ Decided(r) \/ ToolReturns(r) \/ Guided(r)
  PROVE  TypeOK' /\ Live'
<1>1. RestTypes
  BY TypesSplit
<1>2. phase[r] \in Begun /\ Left(queue, r)
  BY LeftQueue, LoopPlaces DEF ToolCall, Decided, ToolReturns, Guided
<1>3. perm' \in [Run -> Permissions] /\ steer' = steer /\ turn' = turn
  BY <1>1 DEF RestTypes, ToolCall, Decided, ToolReturns, Guided, Permissions, toolVars
<1>4. Quiet(r)
  <2>1. UNCHANGED <<session, diskVars, aborted, hostVars, faults>>
    BY DEF ToolCall, Decided, ToolReturns, Guided
  <2>q. QED BY <1>1, <1>3, <2>1 DEF Quiet, SameObject, RestTypes, FaultsMayRise, diskVars
<1>5. Settle(r) => \/ r \notin terminal /\ Enter(queue, r, "settle")
                   \/ Leave(queue, r, FALSE)
  BY DEF Settle, MayCommit, shouldStop
<1>6. \/ Settle(r)
      \/ \E p \in {"running", "asking"} : GoOn(queue, r, p)
      \/ EndRun(queue, r, "blocked") \/ EndRun(queue, r, "completed")
  BY DEF ToolCall, Decided, ToolReturns, Guided, GoOn, Go
<1>q. QED BY <1>2, <1>4, <1>5, <1>6, LoopKeeps, LoopPlaces DEF LoopOps

LEMMA LoopStepKeeps ==
  ASSUME TypeOK, Live, NEW r \in Run, LoopStep(r) PROVE TypeOK' /\ Live'
BY LaunchKeeps, RoundKeeps, SteerCommittedKeeps, CompactedKeeps, ModelAnswersKeeps, AnswerKeeps,
   ToolKeeps DEF LoopStep

-----------------------------------------------------------------------------
(* The steps of startPrompt. *)

LEMMA PreparedKeeps ==
  ASSUME TypeOK, Live, NEW r \in Run, Prepared(r) PROVE TypeOK' /\ Live'
<1>1. Quiet(r)
  BY StillQuiet DEF Prepared, FaultsMayRise
<1>2. RestTypes' /\ Aside(r)
  BY <1>1, QuietTypes
<1>3. phase[r] = "prepare" /\ Left(queue, r)
  BY LeftQueue DEF Prepared, Ops, LoopOps
<1>4. Place(r, "begin") /\ Place(r, "refused") /\ "begin" \in Ops \ {"finalize"}
      /\ "begin" \notin LoopOps /\ "begin" # "steering"
  BY <1>3 DEF Place, Phases, Begun, InTurn, Ops, LoopOps
<1>5. FlowTypes' /\ Live'
  BY <1>2, <1>3, <1>4, EnterKeeps, GoOnKeeps DEF Prepared
<1>q. QED BY <1>2, <1>5, TypesSplit

LEMMA ExtraCommittedKeeps ==
  ASSUME TypeOK, Live, NEW r \in Run, ExtraCommitted(r) PROVE TypeOK' /\ Live'
<1>1. Quiet(r)
  BY StillQuiet DEF ExtraCommitted, FaultsMayRise, Persists
<1>2. Left(Tail(queue), r) /\ phase[r] = "extra"
  BY LeftTail DEF ExtraCommitted, Ops
<1>3. \E p \in {"launch", "stranded"} : GoOn(Tail(queue), r, p)
  BY DEF ExtraCommitted
<1>q. QED BY <1>1, <1>2, <1>3, LoopKeeps, LoopPlaces

\* The run begins: nothing else is running, no run of its request has begun, and the session
\* object is the one in the map.
LEMMA RunBegins ==
  ASSUME TypeOK, Live, NEW r \in Run, phase[r] = "begin", Left(Tail(queue), r), Begins(r),
         record' = [record EXCEPT ![r] = "running"],
         session' = [session EXCEPT !.active = r, !.seen = @ \cup {request[r]}],
         Enter(Tail(queue), r, "extra") \/ GoOn(Tail(queue), r, "launch"),
         UNCHANGED <<life, stored, aborted, toolVars, request, ends, up>>
  PROVE  FlowTypes' /\ Live'
<1> DEFINE rest == Tail(queue)
           new == [op |-> "extra", run |-> r]
<1>1. RestTypes /\ FlowTypes
  BY TypesSplit
<1>2. /\ RunFits(phase[r], record[r], fin[r], fate[r], ends[r], turn[r], request[r])
      /\ r \in terminal <=> fin[r] # "none"
  BY DEF Live, RunsInv
<1>3. record[r] = "none" /\ fin[r] = "none" /\ fate[r] = "none" /\ ends[r] = <<>>
      /\ request[r] \in Request
  BY <1>2 DEF RunFits, Begun
<1>4. /\ fin' = fin /\ fate' = fate /\ terminal' = terminal /\ snapshot' = snapshot
      /\ phase' = [phase EXCEPT ![r] = "extra"] \/ phase' = [phase EXCEPT ![r] = "launch"]
  BY DEF Enter, GoOn, Go, finVars
<1>5. phase' \in [Run -> Phases] /\ phase'[r] \in {"extra", "launch"}
      /\ \A x \in Run \ {r} : phase'[x] = phase[x]
  BY <1>1, <1>4 DEF FlowTypes, Phases
<1>6. record'[r] = "running" /\ \A x \in Run \ {r} : record'[x] = record[x]
  BY <1>1 DEF RestTypes
<1>7. ends' = ends /\ turn' = turn /\ request' = request /\ steer' = steer /\ life' = life
  BY DEF toolVars
<1>8. RunsInv'
  <2>1. ASSUME NEW x \in Run \ {r}
        PROVE  /\ RunFits(phase[x], record[x], fin[x], fate[x], ends[x], turn[x], request[x])'
               /\ x \in terminal' <=> fin'[x] # "none"
    <3>1. /\ RunFits(phase[x], record[x], fin[x], fate[x], ends[x], turn[x], request[x])
          /\ x \in terminal <=> fin[x] # "none"
      BY DEF Live, RunsInv
    <3>2. phase'[x] = phase[x] /\ record'[x] = record[x]
      BY <1>5, <1>6
    <3>q. QED BY <1>4, <1>7, <3>1, <3>2
  <2>2. RunFits(phase'[r], "running", fin[r], fate[r], ends[r], turn[r], request[r])
    BY <1>3, <1>5 DEF RunFits, Begun, Phases, InTurn
  <2>3. RunFits(phase[r], record[r], fin[r], fate[r], ends[r], turn[r], request[r])'
    BY <1>4, <1>6, <1>7, <2>2
  <2>q. QED BY <1>2, <1>4, <2>1, <2>3 DEF RunsInv
<1>9. SessionInv'
  <2>1. \A x \in Run : record[x] # "running"
    BY DEF Begins, Running
  <2>2. session.inMap
    BY DEF Begins, Live, SessionInv
  <2>3. session'.active = r /\ session'.inMap
    BY <1>1, <2>2 DEF RestTypes, SessionRow
  <2>4. life # "deleted"
    BY DEF Begins
  <2>q. QED BY <1>6, <1>7, <2>1, <2>3, <2>4 DEF SessionInv, Solo, DeletedIsQuiet
<1>10. ASSUME NEW e \in Waiting(rest) PROVE Entry(e)' /\ e.run # r
  <2>1. e \in Entries /\ Entry(e) /\ (e.run = r => e.op = "finalize")
    BY WaitingTyped DEF Live, LockInv, Left
  <2>2. e.run # r /\ e.run \in Run
    BY <1>3, <2>1 DEF Entry, Entries
  <2>q. QED BY <1>4, <1>5, <1>6, <1>7, <2>1, <2>2 DEF Entry
<1>11. new \in Entries
  BY DEF Entries, Ops
<1>12. \/ queue' = rest
       \/ queue' = Append(rest, new) /\ phase'[r] = "extra"
  BY <1>1 DEF Enter, GoOn, Go, withSessionLock, FlowTypes
<1>13. queue' \in Seq(Entries) /\ LockInv'
  <2>1. CASE queue' = rest
    BY <1>10, <2>1 DEF LockInv, Left
  <2>2. CASE queue' = Append(rest, new) /\ phase'[r] = "extra"
    <3>1. new \notin Waiting(rest) /\ new.op \notin LoopOps
      BY <1>10 DEF LoopOps
    <3>2. queue' \in Seq(Entries) /\ Waiting(queue') = Waiting(rest) \cup {new} /\ Ordered(queue')
      BY <1>11, <2>2, <3>1, Appended, AppendKeepsOrder DEF Left
    <3>3. Entry(new)'
      BY <2>2 DEF Entry, LoopOps
    <3>q. QED BY <1>10, <3>2, <3>3 DEF LockInv
  <2>q. QED BY <1>12, <2>1, <2>2
<1>14. OneRunPerRequest'
  <2>1. \A x \in Run : record[x] # "none" => request[x] # request[r]
    BY DEF Begins, JournalKnows
  <2>q. QED BY <1>6, <1>7, <2>1 DEF Live, OneRunPerRequest
<1>15. FlowTypes'
  BY <1>1, <1>4, <1>5, <1>13 DEF FlowTypes
<1>q. QED BY <1>8, <1>9, <1>13, <1>14, <1>15 DEF Live

LEMMA BeginKeeps ==
  ASSUME TypeOK, Live, NEW r \in Run, beginRun(r) PROVE TypeOK' /\ Live'
<1>1. RestTypes
  BY TypesSplit
<1>2. Left(Tail(queue), r) /\ phase[r] = "begin"
  BY LeftTail DEF beginRun, Ops
<1>3. faults' \in Nat
  BY <1>1 DEF beginRun, Persists, Throws, RestTypes
<1>4. held' \in [Run -> Nat]
  BY <1>1 DEF beginRun, RestTypes
<1>5. CASE UNCHANGED <<record, session>> /\ GoOn(Tail(queue), r, "refused")
  <2>1. Aside(r) /\ RestTypes'
    BY <1>1, <1>3, <1>4, <1>5 DEF beginRun, Aside, SameObject, RestTypes, toolVars
  <2>2. Place(r, "refused")
    BY <1>2 DEF Place, Phases, Begun, InTurn
  <2>q. QED BY <1>2, <1>5, <2>1, <2>2, GoOnKeeps, TypesSplit
<1>6. CASE Begins(r) /\ record' = [record EXCEPT ![r] = "running"]
           /\ session' = [session EXCEPT !.active = r, !.seen = @ \cup {request[r]}]
           /\ (Enter(Tail(queue), r, "extra") \/ GoOn(Tail(queue), r, "launch"))
  <2>1. request[r] \in Request
    BY <1>2 DEF Live, RunsInv, RunFits
  <2>2. session' \in SessionRow /\ record' \in [Run -> {"none", "running", "completed", "failed", "aborted"}]
    BY <1>1, <1>6, <2>1 DEF RestTypes, SessionRow
  <2>3. RestTypes'
    BY <1>1, <1>3, <1>4, <2>2 DEF beginRun, RestTypes, toolVars
  <2>4. FlowTypes' /\ Live'
    BY <1>2, <1>6, RunBegins DEF beginRun
  <2>q. QED BY <2>3, <2>4, TypesSplit
<1>q. QED BY <1>5, <1>6 DEF beginRun

-----------------------------------------------------------------------------
(* The steps of finishRun. *)

LEMMA FinishGuardKeeps ==
  ASSUME TypeOK, Live, NEW r \in Run, FinishGuard(r) PROVE TypeOK' /\ Live'
<1>1. RestTypes /\ FlowTypes
  BY TypesSplit
<1>2. RestTypes' /\ UNCHANGED <<session, life, record, phase, terminal, steer, turn, request, ends>>
  BY <1>1 DEF FinishGuard, RestTypes, diskVars, toolVars, hostVars
<1>3. PICK f \in {"completed", "blocked"} : fate' = [fate EXCEPT ![r] = f]
  BY DEF FinishGuard
<1>4. /\ fin[r] = "guard" /\ fin' = [fin EXCEPT ![r] = "queued"]
      /\ snapshot' = [snapshot EXCEPT ![r] = session.memory] /\ session.memory \in Nat
      /\ queue' = Append(queue, Final(r))
  BY <1>1 DEF FinishGuard, withSessionLock, Final, RestTypes, SessionRow
<1>5. Final(r) \in Entries /\ Final(r).run = r /\ Final(r).op = "finalize"
  BY DEF Final, Entries, Ops
<1>6. Final(r) \notin Waiting(queue) /\ Final(r).op \notin LoopOps
  BY <1>4, <1>5 DEF Live, LockInv, Entry, LoopOps
<1>7. queue' \in Seq(Entries) /\ Ordered(queue') /\ Waiting(queue') = Waiting(queue) \cup {Final(r)}
  BY <1>4, <1>5, <1>6, WaitingTyped, Appended, AppendKeepsOrder DEF Live, LockInv
<1>8. FlowTypes'
  BY <1>1, <1>2, <1>3, <1>4, <1>7 DEF FlowTypes, Fates
<1>9. fin'[r] = "queued" /\ fate'[r] = f
      /\ \A x \in Run \ {r} : fin'[x] = fin[x] /\ fate'[x] = fate[x]
  BY <1>1, <1>3, <1>4 DEF FlowTypes
<1>10. /\ RunFits(phase[r], record[r], fin[r], fate[r], ends[r], turn[r], request[r])
       /\ r \in terminal
  BY <1>4 DEF Live, RunsInv
<1>11. RunsInv'
  <2>1. Aside(r)
    BY <1>2 DEF Aside, SameObject
  <2>2. \A x \in Run \ {r} :
          /\ RunFits(phase[x], record[x], fin[x], fate[x], ends[x], turn[x], request[x])'
          /\ x \in terminal' <=> fin'[x] # "none"
    BY <1>2, <1>9, <2>1, OthersFit DEF Live
  <2>3. RunFits(phase[r], record[r], "queued", f, ends[r], turn[r], request[r])
    BY <1>4, <1>10 DEF RunFits, Outcomes
  <2>4. RunFits(phase[r], record[r], fin[r], fate[r], ends[r], turn[r], request[r])'
    BY <1>2, <1>9, <2>3
  <2>q. QED BY <1>2, <1>9, <1>10, <2>2, <2>4 DEF RunsInv
<1>12. SessionInv'
  <2>1. ASSUME NEW x \in Run, Spoiled(x) PROVE Spoiled(x)'
    <3>1. CASE x = r
      <4>1. ends[r] = <<>> /\ fate[r] # "persistence"
        BY <1>4, <1>10 DEF RunFits, Outcomes
      <4>q. QED BY <2>1, <3>1, <4>1 DEF Spoiled
    <3>q. QED BY <1>2, <1>9, <2>1, <3>1 DEF Spoiled
  <2>q. QED BY <1>2, <2>1 DEF Live, SessionInv, Solo, DeletedIsQuiet
<1>13. ASSUME NEW e \in Waiting(queue') PROVE Entry(e)'
  <2>1. CASE e = Final(r)
    BY <1>5, <1>9, <2>1 DEF Entry, LoopOps
  <2>2. CASE e \in Waiting(queue)
    <3>1. e \in Entries /\ Entry(e) /\ e.run \in Run
      BY <2>2, WaitingTyped DEF Live, LockInv, Entries
    <3>q. QED BY <1>2, <1>4, <1>9, <3>1 DEF Entry
  <2>q. QED BY <1>7, <2>1, <2>2
<1>14. OneRunPerRequest'
  BY <1>2 DEF Live, OneRunPerRequest
<1>q. QED BY <1>2, <1>7, <1>8, <1>11, <1>12, <1>13, <1>14, TypesSplit DEF Live, LockInv

\* The record is written, or the session object is given up: the run was the one running, and
\* no message of its loop is behind the section.
LEMMA FinalizeKeeps ==
  ASSUME TypeOK, Live, NEW r \in Run, finalizeRun(r) PROVE TypeOK' /\ Live'
<1> DEFINE rest == Tail(queue)
<1>1. RestTypes /\ FlowTypes
  BY TypesSplit
<1>2. UNCHANGED <<life, stored, phase, terminal, aborted, steer, perm, turn, request, held, ends, up>>
  BY DEF finalizeRun, toolVars, hostVars
<1>3. queue \in Seq(Entries) /\ queue # <<>> /\ Ordered(queue) /\ Head(queue) = Final(r)
  BY WaitingTyped DEF finalizeRun, InLock, Final, Live, LockInv
<1>4. /\ rest \in Seq(Entries) /\ Ordered(rest) /\ Final(r) \in Waiting(queue)
      /\ Waiting(rest) \subseteq Waiting(queue) \ {Final(r)}
      /\ \A e \in Waiting(rest) : e.op \in LoopOps => e.run # r
  BY <1>3, TailKeepsOrder
<1>5. /\ RunFits(phase[r], record[r], fin[r], fate[r], ends[r], turn[r], request[r])
      /\ r \in terminal /\ fin[r] = "queued"
  <2>1. fin[r] = "queued"
    BY <1>4 DEF Live, LockInv, Entry, Final
  <2>q. QED BY <2>1 DEF Live, RunsInv
<1>6. record[r] = "running" /\ fate[r] \in Outcomes /\ ends[r] = <<>>
  BY <1>5 DEF RunFits
<1>7. \A x \in Run \ {r} : record[x] # "running"
  BY <1>6 DEF Live, SessionInv, Solo
<1>8. fin' = [fin EXCEPT ![r] = "workflow"] /\ queue' = rest /\ snapshot' = [snapshot EXCEPT ![r] = 0]
  BY DEF finalizeRun
<1>9. fin'[r] = "workflow" /\ \A x \in Run \ {r} : fin'[x] = fin[x]
  BY <1>1, <1>8 DEF FlowTypes
<1>10. \A x \in Run \ {r} : record'[x] = record[x] /\ fate'[x] = fate[x]
  <2>1. CASE record' = [q \in Run |-> IF q \in Running THEN TerminalState(fate[r]) ELSE record[q]]
             /\ fate' = fate
    BY <1>7, <2>1 DEF Running
  <2>2. CASE record' = record /\ fate' = [fate EXCEPT ![r] = FailureEvent(r)]
    BY <1>1, <2>2 DEF FlowTypes
  <2>q. QED BY <2>1, <2>2 DEF finalizeRun
<1>11. \/ /\ fate'[r] = fate[r] /\ record'[r] = TerminalState(fate[r])
          /\ session' = [session EXCEPT !.active = NoRun, !.memory = snapshot[r]]
          /\ fate' = fate /\ faults' = faults
          /\ record' = [q \in Run |-> IF q \in Running THEN TerminalState(fate[r]) ELSE record[q]]
       \/ /\ fate'[r] = "persistence" /\ record' = record
          /\ session' = IF session.active = r THEN failFinalization ELSE session
          /\ fate' = [fate EXCEPT ![r] = "persistence"] /\ faults' \in Nat
  <2>1. CASE /\ record' = [q \in Run |-> IF q \in Running THEN TerminalState(fate[r]) ELSE record[q]]
             /\ session' = [session EXCEPT !.active = NoRun, !.memory = snapshot[r]]
             /\ UNCHANGED fate /\ Persists
    BY <1>6, <2>1 DEF Running, Persists
  <2>2. CASE /\ Throws \/ UNCHANGED faults
             /\ session' = IF session.active = r THEN failFinalization ELSE session
             /\ fate' = [fate EXCEPT ![r] = FailureEvent(r)] /\ UNCHANGED record
    BY <1>1, <2>2 DEF FlowTypes, RestTypes, Throws, FailureEvent
  <2>q. QED BY <2>1, <2>2 DEF finalizeRun
<1>12. TerminalState(fate[r]) \in {"completed", "failed", "aborted"}
  BY DEF TerminalState
<1>13. FlowTypes'
  BY <1>1, <1>2, <1>4, <1>8, <1>11 DEF FlowTypes, Fates
<1>14. RestTypes'
  <2>1. session' \in SessionRow
    <3>1. session \in SessionRow /\ snapshot[r] \in Nat
      BY <1>1 DEF RestTypes, FlowTypes
    <3>2. /\ [session EXCEPT !.active = NoRun, !.memory = snapshot[r]] \in SessionRow
          /\ failFinalization \in SessionRow
      BY <3>1 DEF SessionRow, failFinalization
    <3>q. QED BY <1>11, <3>1, <3>2
  <2>2. record' \in [Run -> {"none", "running", "completed", "failed", "aborted"}] /\ faults' \in Nat
    BY <1>1, <1>11, <1>12 DEF RestTypes
  <2>q. QED BY <1>1, <1>2, <2>1, <2>2 DEF RestTypes
<1>15. RunsInv'
  <2>1. ASSUME NEW x \in Run \ {r}
        PROVE  /\ RunFits(phase[x], record[x], fin[x], fate[x], ends[x], turn[x], request[x])'
               /\ x \in terminal' <=> fin'[x] # "none"
    <3>1. /\ RunFits(phase[x], record[x], fin[x], fate[x], ends[x], turn[x], request[x])
          /\ x \in terminal <=> fin[x] # "none"
      BY DEF Live, RunsInv
    <3>q. QED BY <1>2, <1>9, <1>10, <3>1
  <2>2. RunFits(phase[r], record'[r], "workflow", fate'[r], ends[r], turn[r], request[r])
    BY <1>5, <1>6, <1>11, <1>12 DEF RunFits
  <2>3. RunFits(phase[r], record[r], fin[r], fate[r], ends[r], turn[r], request[r])'
    BY <1>2, <1>9, <2>2
  <2>q. QED BY <1>2, <1>5, <1>9, <2>1, <2>3 DEF RunsInv
<1>16. SessionInv'
  <2>1. session'.active = NoRun /\ (session'.inMap \/ session'.closed \/ life' = "deleted")
    <3>1. session.active = r \/ session.active = NoRun
      BY <1>6, <1>7 DEF Live, SessionInv
    <3>2. session.inMap \/ session.closed \/ life = "deleted"
      BY DEF Live, SessionInv
    <3>q. QED BY <1>1, <1>2, <1>11, <3>1, <3>2 DEF RestTypes, SessionRow, failFinalization
  <2>2. record'[r] = "running" => Spoiled(r)'
    BY <1>11, <1>12 DEF Spoiled
  <2>3. life' # "deleted"
    BY <1>2, <1>6 DEF Live, SessionInv, DeletedIsQuiet
  <2>4. \A x \in Run : record'[x] = "running" => x = r
    BY <1>7, <1>10
  <2>q. QED BY <2>1, <2>2, <2>3, <2>4 DEF SessionInv, Solo, DeletedIsQuiet
<1>17. ASSUME NEW e \in Waiting(rest) PROVE Entry(e)'
  <2>1. e \in Entries /\ Entry(e) /\ e.run \in Run /\ e # Final(r)
    BY <1>4, WaitingTyped DEF Live, LockInv, Entries
  <2>2. e.op \notin LoopOps
    BY <1>4, <1>7, <2>1 DEF Entry
  <2>3. e.op = "finalize" => e.run # r
    BY <2>1 DEF Entries, Final
  <2>q. QED BY <1>2, <1>9, <2>1, <2>2, <2>3 DEF Entry, LoopOps
<1>18. OneRunPerRequest'
  BY <1>2, <1>6, <1>10 DEF Live, OneRunPerRequest
<1>q. QED BY <1>4, <1>8, <1>13, <1>14, <1>15, <1>16, <1>17, <1>18, TypesSplit DEF Live, LockInv

LEMMA EmitEndKeeps ==
  ASSUME TypeOK, Live, NEW r \in Run, EmitEnd(r) PROVE TypeOK' /\ Live'
<1>1. RestTypes /\ FlowTypes
  BY TypesSplit
<1>2. UNCHANGED <<session, life, record, stored, queue, phase, request, held, terminal, snapshot,
                  aborted, perm, up>>
  BY DEF EmitEnd, diskVars
<1>3. /\ RunFits(phase[r], record[r], fin[r], fate[r], ends[r], turn[r], request[r])
      /\ r \in terminal /\ fin[r] = "workflow"
  BY DEF Live, RunsInv, EmitEnd
<1>4. /\ ends[r] = <<>> /\ fate[r] \in Outcomes \cup {"persistence"}
      /\ \/ fate[r] = "persistence" /\ record[r] = "running"
         \/ fate[r] \in Outcomes /\ record[r] = TerminalState(fate[r])
  BY <1>3 DEF RunFits
<1>5. fin' = [fin EXCEPT ![r] = "done"] /\ fate' = [fate EXCEPT ![r] = "none"]
      /\ turn' = [turn EXCEPT ![r] = 0]
  BY DEF EmitEnd
<1>6. /\ fin'[r] = "done" /\ fate'[r] = "none" /\ turn'[r] = 0
      /\ \A x \in Run \ {r} : fin'[x] = fin[x] /\ fate'[x] = fate[x] /\ turn'[x] = turn[x]
  BY <1>1, <1>5 DEF FlowTypes, RestTypes
<1>7. PICK k \in {fate[r], "workflow"} : ends' = [ends EXCEPT ![r] = <<k>>]
  <2>1. \A k : Append(<<>>, k) = <<k>>
    OBVIOUS
  <2>2. \E k \in {fate[r], "workflow"} : ends' = [ends EXCEPT ![r] = Append(ends[r], k)]
    BY DEF EmitEnd
  <2>q. QED BY <1>4, <2>1, <2>2
<1>8. ends'[r] = <<k>> /\ ends' \in [Run -> Seq(Ends)] /\ \A x \in Run \ {r} : ends'[x] = ends[x]
  <2>1. k \in Ends
    BY <1>4 DEF Ends, Outcomes
  <2>2. <<k>> \in Seq(Ends)
    BY <2>1
  <2>q. QED BY <1>1, <1>7, <2>2 DEF RestTypes
<1>9. steer' \in [Run -> SteerRow] /\ \A x \in Run \ {r} : steer'[x] = steer[x]
  <2> DEFINE row == [sent |-> steer[r].sent, posting |-> steer[r].posting, queued |-> 0, taken |-> 0]
  <2>1. steer[r] \in SteerRow
    BY <1>1 DEF RestTypes
  <2>2. row \in SteerRow
    BY <2>1 DEF SteerRow
  <2>3. steer' = [steer EXCEPT ![r] = row]
    <3>1. steer' = [steer EXCEPT ![r].queued = 0, ![r].taken = 0]
      BY DEF EmitEnd
    <3>2. row = [[steer[r] EXCEPT !.queued = 0] EXCEPT !.taken = 0]
      <4>1. [steer[r] EXCEPT !.queued = 0] = [sent |-> steer[r].sent, posting |-> steer[r].posting,
                                              queued |-> 0, taken |-> steer[r].taken]
        BY <2>1 DEF SteerRow
      <4>2. row = [[sent |-> steer[r].sent, posting |-> steer[r].posting,
                    queued |-> 0, taken |-> steer[r].taken] EXCEPT !.taken = 0]
        OBVIOUS
      <4>q. QED BY <4>1, <4>2
    <3>q. QED BY <1>1, <3>1, <3>2 DEF RestTypes
  <2>q. QED BY <1>1, <2>2, <2>3 DEF RestTypes
<1>10. TypeOK'
  <2>1. faults' \in Nat
    BY <1>1 DEF EmitEnd, Throws, RestTypes
  <2>2. turn' \in [Run -> 0 .. MaxTurns]
    BY <1>1, <1>5, KernelAssumption DEF RestTypes
  <2>3. RestTypes'
    BY <1>1, <1>2, <1>8, <1>9, <2>1, <2>2 DEF RestTypes
  <2>4. FlowTypes'
    BY <1>1, <1>2, <1>5 DEF FlowTypes, Fates
  <2>q. QED BY <2>3, <2>4, TypesSplit
<1>11. RunsInv'
  <2>1. ASSUME NEW x \in Run \ {r}
        PROVE  /\ RunFits(phase[x], record[x], fin[x], fate[x], ends[x], turn[x], request[x])'
               /\ x \in terminal' <=> fin'[x] # "none"
    <3>1. /\ RunFits(phase[x], record[x], fin[x], fate[x], ends[x], turn[x], request[x])
          /\ x \in terminal <=> fin[x] # "none"
      BY DEF Live, RunsInv
    <3>q. QED BY <1>2, <1>6, <1>8, <3>1
  <2>2. Len(<<k>>) = 1 /\ <<k>>[1] = k
    OBVIOUS
  <2>3. Tells(<<k>>, record[r])
    BY <1>4, <2>2 DEF Tells, Outcomes
  <2>4. turn[r] < MaxTurns => 0 < MaxTurns
    BY <1>1, KernelAssumption DEF RestTypes
  <2>5. RunFits(phase[r], record[r], "done", "none", <<k>>, 0, request[r])
    BY <1>3, <2>2, <2>3, <2>4 DEF RunFits
  <2>6. RunFits(phase[r], record[r], fin[r], fate[r], ends[r], turn[r], request[r])'
    BY <1>2, <1>6, <1>8, <2>5
  <2>q. QED BY <1>2, <1>3, <1>6, <2>1, <2>6 DEF RunsInv
<1>12. SessionInv'
  <2>1. ASSUME NEW x \in Run, Spoiled(x) PROVE Spoiled(x)'
    <3>1. CASE x = r
      <4>1. ends[r] \notin {<<"persistence">>, <<"workflow">>}
        <5>1. <<>> \notin {<<"persistence">>, <<"workflow">>}
          OBVIOUS
        <5>q. QED BY <1>4, <5>1
      <4>2. fate[r] = "persistence"
        BY <2>1, <3>1, <4>1 DEF Spoiled
      <4>q. QED BY <1>7, <1>8, <3>1, <4>2 DEF Spoiled
    <3>q. QED BY <1>6, <1>8, <2>1, <3>1 DEF Spoiled
  <2>q. QED BY <1>2, <2>1 DEF Live, SessionInv, Solo, DeletedIsQuiet
<1>13. ASSUME NEW e \in Waiting(queue) PROVE Entry(e)'
  <2>1. e \in Entries /\ Entry(e) /\ e.run \in Run
    BY WaitingTyped DEF Live, LockInv, Entries
  <2>2. CASE e.run = r
    BY <1>2, <1>3, <2>1, <2>2 DEF Entry, LoopOps
  <2>3. CASE e.run # r
    BY <1>2, <1>6, <1>9, <2>1, <2>3 DEF Entry
  <2>q. QED BY <2>2, <2>3
<1>14. OneRunPerRequest'
  BY <1>2 DEF Live, OneRunPerRequest
<1>q. QED BY <1>2, <1>10, <1>11, <1>12, <1>13, <1>14 DEF Live, LockInv

-----------------------------------------------------------------------------
(* The requests of clients, and the host's answers to them. *)

\* A step that leaves the journal's runs, the loops and the lock where they are.
LEMMA CalmKeeps ==
  ASSUME TypeOK, Live, UNCHANGED <<record, ends, request, turn, queue, phase, finVars>>,
         RestTypes', SessionInv', \A x \in Run : steer'[x].taken = steer[x].taken
  PROVE  TypeOK' /\ Live'
<1>1. UNCHANGED <<record, ends, request, turn, queue, phase, fin, fate, terminal, snapshot>>
  BY DEF finVars
<1>2. FlowTypes'
  BY <1>1, TypesSplit DEF FlowTypes
<1>3. RunsInv'
  BY <1>1 DEF Live, RunsInv
<1>4. ASSUME NEW e \in Waiting(queue) PROVE Entry(e)'
  <2>1. Entry(e) /\ e.run \in Run
    BY WaitingTyped DEF Live, LockInv, Entries
  <2>q. QED BY <1>1, <2>1 DEF Entry
<1>5. LockInv'
  BY <1>1, <1>4 DEF Live, LockInv
<1>6. OneRunPerRequest'
  BY <1>1 DEF Live, OneRunPerRequest
<1>q. QED BY <1>2, <1>3, <1>5, <1>6, TypesSplit DEF Live

\* A prompt gives a run its request; no run of the journal has changed.
LEMMA PromptKeeps ==
  ASSUME TypeOK, Live, NEW r \in Run, Prompt(r) PROVE TypeOK' /\ Live'
<1>1. RestTypes /\ FlowTypes
  BY TypesSplit
<1>2. UNCHANGED <<session, life, record, stored, queue, terminal, fate, fin, snapshot, aborted,
                  steer, perm, turn, ends, up, faults>>
  BY DEF Prompt, diskVars, finVars, toolVars
<1>3. PICK q \in Request : /\ request' = [request EXCEPT ![r] = q]
                           /\ \/ phase' = [phase EXCEPT ![r] = "refused"]
                              \/ phase' = [phase EXCEPT ![r] = "prepare"]
  BY DEF Prompt, Go
<1>4. /\ request'[r] = q /\ phase'[r] \in {"refused", "prepare"}
      /\ \A x \in Run \ {r} : request'[x] = request[x] /\ phase'[x] = phase[x]
  BY <1>1, <1>3 DEF RestTypes, FlowTypes
<1>5. phase[r] = "idle" /\ record[r] = "none"
  BY DEF Prompt, Live, RunsInv, RunFits, Begun
<1>6. FlowTypes'
  BY <1>1, <1>2, <1>3 DEF FlowTypes, Phases
<1>7. RestTypes'
  <2>1. held' \in [Run -> Nat]
    <3>1. session.gen \in Nat
      BY <1>1 DEF RestTypes, SessionRow
    <3>q. QED BY <1>1, <3>1 DEF Prompt, RestTypes
  <2>q. QED BY <1>1, <1>2, <1>3, <2>1 DEF RestTypes
<1>8. RunsInv'
  <2>1. ASSUME NEW x \in Run
        PROVE  /\ RunFits(phase[x], record[x], fin[x], fate[x], ends[x], turn[x], request[x])
               /\ x \in terminal <=> fin[x] # "none"
    BY DEF Live, RunsInv
  <2>2. ASSUME NEW x \in Run \ {r}
        PROVE  RunFits(phase[x], record[x], fin[x], fate[x], ends[x], turn[x], request[x])'
    BY <1>2, <1>4, <2>1
  <2>3. RunFits(phase'[r], record[r], fin[r], fate[r], ends[r], turn[r], q)
    BY <1>4, <1>5, <2>1 DEF RunFits, Begun, InTurn
  <2>4. RunFits(phase[r], record[r], fin[r], fate[r], ends[r], turn[r], request[r])'
    BY <1>2, <1>4, <2>3
  <2>q. QED BY <1>2, <2>1, <2>2, <2>4 DEF RunsInv
<1>9. SessionInv'
  BY <1>2 DEF Live, SessionInv, Solo, DeletedIsQuiet, Spoiled
<1>10. ASSUME NEW e \in Waiting(queue) PROVE Entry(e)'
  <2>1. e \in Entries /\ Entry(e) /\ e.run \in Run
    BY WaitingTyped DEF Live, LockInv, Entries
  <2>2. CASE e.run = r
    <3>1. "idle" \notin Ops
      BY DEF Ops, LoopOps
    <3>2. e.op = "finalize"
      BY <1>5, <2>1, <2>2, <3>1 DEF Entry, Entries
    <3>q. QED BY <1>2, <2>1, <3>2 DEF Entry, LoopOps
  <2>3. CASE e.run # r
    BY <1>2, <1>4, <2>1, <2>3 DEF Entry
  <2>q. QED BY <2>2, <2>3
<1>11. OneRunPerRequest'
  BY <1>2, <1>4, <1>5 DEF Live, OneRunPerRequest
<1>q. QED BY <1>2, <1>6, <1>7, <1>8, <1>9, <1>10, <1>11, TypesSplit DEF Live, LockInv

\* The count of instructions that the loop has taken is not for clients to change.
LEMMA InstructionKeeps ==
  ASSUME TypeOK, Live, NEW r \in Run, Steer(r) \/ SteerQueued(r) PROVE TypeOK' /\ Live'
<1>1. RestTypes /\ steer[r] \in SteerRow
  BY TypesSplit DEF RestTypes
<1>2. /\ UNCHANGED <<session, life, record, stored, queue, phase, fin, fate, terminal, snapshot>>
      /\ UNCHANGED <<aborted, perm, turn, request, held, ends, up, faults>>
  BY DEF Steer, SteerQueued, diskVars, finVars, hostVars
<1>3. /\ steer[r].sent \in Nat /\ steer[r].posting \in Nat
      /\ steer[r].queued \in Nat /\ steer[r].taken \in Nat
  BY <1>1 DEF SteerRow
<1>4. PICK row \in SteerRow : steer' = [steer EXCEPT ![r] = row] /\ row.taken = steer[r].taken
  <2> DEFINE sent == [sent |-> steer[r].sent + 1, posting |-> steer[r].posting + 1,
                      queued |-> steer[r].queued, taken |-> steer[r].taken]
             put  == [sent |-> steer[r].sent, posting |-> steer[r].posting - 1,
                      queued |-> steer[r].queued + 1, taken |-> steer[r].taken]
  <2>1. CASE Steer(r)
    <3>1. sent \in SteerRow
      BY <1>3 DEF SteerRow
    <3>2. steer' = [steer EXCEPT ![r].sent = @ + 1, ![r].posting = @ + 1]
      BY <2>1 DEF Steer
    <3>3. [[steer[r] EXCEPT !.sent = @ + 1] EXCEPT !.posting = @ + 1] = sent
      <4>1. [steer[r] EXCEPT !.sent = @ + 1] =
              [sent |-> steer[r].sent + 1, posting |-> steer[r].posting,
               queued |-> steer[r].queued, taken |-> steer[r].taken]
        BY <1>1 DEF SteerRow
      <4>2. [[sent |-> steer[r].sent + 1, posting |-> steer[r].posting,
              queued |-> steer[r].queued, taken |-> steer[r].taken] EXCEPT !.posting = @ + 1] = sent
        OBVIOUS
      <4>q. QED BY <4>1, <4>2
    <3>4. steer' = [steer EXCEPT ![r] = sent]
      BY <1>1, <3>2, <3>3 DEF RestTypes
    <3>q. QED BY <3>1, <3>4
  <2>2. CASE SteerQueued(r)
    <3>1. steer[r].posting - 1 \in Nat
      BY <1>3, <2>2 DEF SteerQueued
    <3>2. put \in SteerRow
      BY <1>3, <3>1 DEF SteerRow
    <3>3. steer' = [steer EXCEPT ![r].posting = @ - 1, ![r].queued = @ + 1]
      BY <2>2 DEF SteerQueued
    <3>4. [[steer[r] EXCEPT !.posting = @ - 1] EXCEPT !.queued = @ + 1] = put
      <4>1. [steer[r] EXCEPT !.posting = @ - 1] =
              [sent |-> steer[r].sent, posting |-> steer[r].posting - 1,
               queued |-> steer[r].queued, taken |-> steer[r].taken]
        BY <1>1 DEF SteerRow
      <4>2. [[sent |-> steer[r].sent, posting |-> steer[r].posting - 1,
              queued |-> steer[r].queued, taken |-> steer[r].taken] EXCEPT !.queued = @ + 1] = put
        OBVIOUS
      <4>q. QED BY <4>1, <4>2
    <3>5. steer' = [steer EXCEPT ![r] = put]
      BY <1>1, <3>3, <3>4 DEF RestTypes
    <3>q. QED BY <3>2, <3>5
  <2>q. QED BY <2>1, <2>2
<1>5. steer' \in [Run -> SteerRow] /\ \A x \in Run : steer'[x].taken = steer[x].taken
  BY <1>1, <1>4 DEF RestTypes
<1>6. RestTypes'
  BY <1>1, <1>2, <1>5 DEF RestTypes
<1>7. SessionInv'
  BY <1>2 DEF Live, SessionInv, Solo, DeletedIsQuiet, Spoiled
<1>q. QED BY <1>2, <1>5, <1>6, <1>7, CalmKeeps DEF finVars

LEMMA DecisionKeeps ==
  ASSUME TypeOK, Live, NEW r \in Run, Decide(r) \/ DecisionRecorded(r) PROVE TypeOK' /\ Live'
<1>1. RestTypes
  BY TypesSplit
<1>2. /\ UNCHANGED <<session, life, record, stored, queue, phase, fin, fate, terminal, snapshot>>
      /\ UNCHANGED <<aborted, steer, turn, request, held, ends, up>>
  BY DEF Decide, DecisionRecorded, diskVars, finVars, hostVars
<1>3. perm' \in [Run -> Permissions]
  <2>1. PICK d \in {"deciding", "allowed", "denied", "lost"} : perm' = [perm EXCEPT ![r] = d]
    BY DEF Decide, DecisionRecorded
  <2>q. QED BY <1>1, <2>1 DEF RestTypes, Permissions
<1>4. RestTypes'
  <2>1. faults' \in Nat
    BY <1>1 DEF Decide, DecisionRecorded, Throws, RestTypes
  <2>q. QED BY <1>1, <1>2, <1>3, <2>1 DEF RestTypes
<1>5. SessionInv'
  BY <1>2 DEF Live, SessionInv, Solo, DeletedIsQuiet, Spoiled
<1>q. QED BY <1>2, <1>4, <1>5, CalmKeeps DEF finVars

\* Closing, resuming and deleting give no session to a run and take none from it.
LEMMA SessionStepKeeps ==
  ASSUME TypeOK, Live, closeSession \/ resumeSession \/ deleteSession PROVE TypeOK' /\ Live'
<1>1. RestTypes /\ session \in SessionRow
  BY TypesSplit DEF RestTypes
<1>2. /\ UNCHANGED <<record, stored, queue, phase, fin, fate, terminal, snapshot, aborted>>
      /\ UNCHANGED <<steer, perm, turn, request, held, ends, up, faults>>
  BY DEF closeSession, resumeSession, deleteSession, sessionOnly, finVars, toolVars, hostVars
<1>3. SessionInv
  BY DEF Live
<1>4. session' \in SessionRow /\ life' \in {"open", "closed", "deleted"} /\ SessionInv'
  <2>1. CASE closeSession
    <3>1. session' \in SessionRow /\ session'.active = NoRun /\ session'.inMap
      BY <1>1, <2>1 DEF closeSession, SessionRow
    <3>q. QED BY <1>2, <1>3, <2>1, <3>1
            DEF closeSession, Running, SessionInv, Solo, DeletedIsQuiet, Spoiled
  <2>2. CASE resumeSession /\ session.inMap
    <3>1. session' \in SessionRow /\ session'.active = session.active /\ session'.inMap
      BY <1>1, <2>2 DEF resumeSession, SessionRow
    <3>q. QED BY <1>2, <1>3, <2>2, <3>1
            DEF resumeSession, SessionInv, Solo, DeletedIsQuiet, Spoiled
  <2>3. CASE resumeSession /\ ~session.inMap
    <3> DEFINE known == {request[r] : r \in {q \in Run : record[q] # "none"}}
    <3>1. known \subseteq Request
      BY DEF Live, RunsInv, RunFits, Begun
    <3>2. session.gen + 1 \in Nat /\ Len(stored) \in Nat
      BY <1>1 DEF SessionRow, RestTypes
    <3>3. session' = [gen |-> session.gen + 1, inMap |-> TRUE, closed |-> FALSE,
                      active |-> NoRun, seen |-> known, memory |-> Len(stored)]
      BY <2>3 DEF resumeSession
    <3> HIDE DEF known
    <3>4. session' \in SessionRow /\ session'.active = NoRun /\ session'.inMap
      BY <3>1, <3>2, <3>3 DEF SessionRow
    <3>5. session.active = NoRun
      BY <1>3, <2>3 DEF SessionInv
    <3>6. \A r \in Run : record[r] = "running" => Spoiled(r)
      BY <1>3, <3>5, KernelAssumption DEF SessionInv
    <3>q. QED BY <1>2, <1>3, <2>3, <3>4, <3>6
            DEF resumeSession, SessionInv, Solo, DeletedIsQuiet, Spoiled
  <2>4. CASE deleteSession
    <3>1. session' \in SessionRow /\ session'.active = session.active
      BY <1>1, <2>4 DEF deleteSession, SessionRow
    <3>2. \A r \in Run : record[r] # "running"
      BY <2>4 DEF deleteSession, Running
    <3>3. session.active = NoRun
      BY <1>3, <3>2 DEF SessionInv
    <3>q. QED BY <1>2, <2>4, <3>1, <3>2, <3>3 DEF deleteSession, SessionInv, Solo, DeletedIsQuiet
  <2>q. QED BY <2>1, <2>2, <2>3, <2>4
<1>5. RestTypes'
  BY <1>1, <1>2, <1>4 DEF RestTypes
<1>q. QED BY <1>2, <1>4, <1>5, CalmKeeps DEF finVars

\* The active run is cancelled by a client or by the shutdown: its end begins unless it has.
LEMMA CancelKeeps ==
  ASSUME TypeOK, Live, NEW r \in Run, session.active = r, finish(queue, r, "aborted"),
         UNCHANGED <<session, diskVars, phase, steer, turn, request, held, ends, faults>>,
         aborted' = aborted \cup {r}, perm' \in [Run -> Permissions], up' \in {"up", "stopping"}
  PROVE  TypeOK' /\ Live'
<1>1. RestTypes /\ FlowTypes
  BY TypesSplit
<1>2. UNCHANGED <<session, life, record, stored, phase, steer, turn, request, held, ends, faults>>
  BY DEF diskVars
<1>3. RestTypes'
  BY <1>1, <1>2 DEF RestTypes
<1>4. CASE r \in terminal
  <2>1. SessionInv'
    BY <1>2, <1>4 DEF finish, finVars, Live, SessionInv, Solo, DeletedIsQuiet, Spoiled
  <2>q. QED BY <1>2, <1>3, <1>4, <2>1, CalmKeeps DEF finish
<1>5. CASE r \notin terminal
  <2>1. record[r] = "running"
    BY KernelAssumption DEF Live, SessionInv
  <2>2. RunFits(phase[r], record[r], fin[r], fate[r], ends[r], turn[r], request[r])
    BY DEF Live, RunsInv
  <2>3. Aside(r)
    BY <1>2 DEF Aside, SameObject
  <2>4. Place(r, phase'[r]) /\ (phase'[r] \in InTurn => turn'[r] < MaxTurns)
    BY <1>1, <1>2, <2>1, <2>2 DEF Place, RunFits, Begun, FlowTypes
  <2>5. queue \in Seq(Entries) /\ Ordered(queue)
    BY WaitingTyped DEF Live, LockInv
  <2>6. finishRun(queue, r, "aborted") /\ "aborted" \in Outcomes
    BY <1>5 DEF finish, Outcomes
  <2>7. phase' \in [Run -> Phases] /\ (\A x \in Run : phase'[x] = phase[x])
        /\ steer'[r].taken = steer[r].taken
    BY <1>1, <1>2 DEF FlowTypes
  <2>8. FlowTypes' /\ Live'
    BY <1>5, <2>1, <2>3, <2>4, <2>5, <2>6, <2>7, EndBegins
  <2>q. QED BY <1>3, <2>8, TypesSplit
<1>q. QED BY <1>4, <1>5

LEMMA Denied ==
  ASSUME TypeOK, NEW S, Deny(S) PROVE perm' \in [Run -> Permissions]
<1>1. perm \in [Run -> Permissions]
  BY DEF TypeOK, Permissions
<1>q. QED BY <1>1 DEF Deny, Permissions

LEMMA AbortKeeps ==
  ASSUME TypeOK, Live, NEW r \in Run, Abort(r) PROVE TypeOK' /\ Live'
<1>1. perm' \in [Run -> Permissions]
  BY Denied DEF Abort
<1>2. UNCHANGED <<session, diskVars, phase, steer, turn, request, held, ends, faults>> /\ up' = "up"
  BY DEF Abort, hostVars
<1>q. QED BY <1>1, <1>2, CancelKeeps DEF Abort, Active

LEMMA ShutdownKeeps ==
  ASSUME TypeOK, Live, Shutdown PROVE TypeOK' /\ Live'
<1>1. perm' \in [Run -> Permissions] /\ up' = "stopping"
  BY Denied DEF Shutdown
<1>2. UNCHANGED <<session, diskVars, phase, steer, turn, request, held, ends, faults>>
  BY DEF Shutdown
<1>3. CASE session.inMap /\ session.active # NoRun
  <2>1. session.active \in Run
    BY <1>3 DEF Live, SessionInv
  <2>2. aborted' = aborted \cup {session.active} /\ finish(queue, session.active, "aborted")
    BY <1>3 DEF Shutdown
  <2>q. QED BY <1>1, <1>2, <2>1, <2>2, CancelKeeps
<1>4. CASE ~ (session.inMap /\ session.active # NoRun)
  <2>1. UNCHANGED <<session, life, record, stored, phase, steer, turn, request, held, ends, faults>>
        /\ UNCHANGED <<aborted, queue, terminal, fate, fin, snapshot>>
    BY <1>2, <1>4 DEF Shutdown, diskVars, finVars
  <2>2. RestTypes'
    BY <1>1, <2>1, TypesSplit DEF RestTypes
  <2>3. SessionInv'
    BY <2>1 DEF Live, SessionInv, Solo, DeletedIsQuiet, Spoiled
  <2>q. QED BY <2>1, <2>2, <2>3, CalmKeeps DEF finVars
<1>q. QED BY <1>3, <1>4

\* The ends that were told are those of the runs, and no others are told after the exit.
LEMMA EndsTold ==
  ASSUME TypeOK, RunsInv PROVE EndTold
<1>1. ASSUME NEW r \in Run PROVE Len(ends[r]) <= 1
  <2>1. ends[r] = <<>> \/ Len(ends[r]) = 1
    BY DEF RunsInv, RunFits
  <2>2. Len(<<>>) <= 1 /\ 1 <= 1
    OBVIOUS
  <2>3. CASE ends[r] = <<>>
    BY <2>2, <2>3
  <2>4. CASE Len(ends[r]) = 1
    BY <2>2, <2>4
  <2>q. QED BY <2>1, <2>3, <2>4
<1>2. ASSUME NEW r \in Run, ends[r] # <<>> PROVE Tells(ends[r], record[r])
  BY <1>2 DEF RunsInv, RunFits
<1>q. QED BY <1>1, <1>2 DEF EndTold, OneTerminalEvent, EventTellsRecord, Tells

LEMMA ExitKeeps ==
  ASSUME TypeOK, Live, finalizeComposition PROVE TypeOK' /\ Exited'
<1>1. RestTypes /\ FlowTypes
  BY TypesSplit
<1>2. UNCHANGED <<life, record, stored, request, ends, faults>>
  BY DEF finalizeComposition, diskVars
<1>3. /\ session' = [Loaded EXCEPT !.inMap = FALSE] /\ queue' = <<>> /\ up' = "closed"
      /\ phase' = [r \in Run |-> "idle"] /\ held' = [r \in Run |-> 0]
      /\ fin' = [r \in Run |-> "none"] /\ fate' = [r \in Run |-> "none"]
      /\ snapshot' = [r \in Run |-> 0] /\ aborted' = {} /\ terminal' = {}
      /\ steer' = [r \in Run |-> NoSteer] /\ perm' = [r \in Run |-> "none"]
      /\ turn' = [r \in Run |-> 0]
  BY DEF finalizeComposition
<1>4. FlowTypes'
  BY <1>3 DEF FlowTypes, Phases, Fates
<1>5. session' \in SessionRow /\ session'.active = NoRun
  BY <1>3 DEF Loaded, SessionRow
<1>6. steer' \in [Run -> SteerRow]
  BY <1>3 DEF NoSteer, SteerRow
<1>7. RestTypes'
  <2>1. turn' \in [Run -> 0 .. MaxTurns]
    BY <1>3, KernelAssumption
  <2>2. perm' \in [Run -> Permissions] /\ held' \in [Run -> Nat]
    BY <1>3 DEF Permissions
  <2>q. QED BY <1>1, <1>2, <1>3, <1>5, <1>6, <2>1, <2>2 DEF RestTypes
<1>8. EndTold'
  <2>1. EndTold
    BY EndsTold DEF Live
  <2>q. QED BY <1>2, <2>1 DEF EndTold, OneTerminalEvent, EventTellsRecord
<1>9. Solo' /\ DeletedIsQuiet' /\ OneRunPerRequest'
  BY <1>2 DEF Live, SessionInv, Solo, DeletedIsQuiet, OneRunPerRequest
<1>q. QED BY <1>3, <1>4, <1>5, <1>7, <1>8, <1>9, TypesSplit DEF Exited

-----------------------------------------------------------------------------
(* The invariant. *)

LEMMA KernelInit == Init => KernelInv
<1> SUFFICES ASSUME Init PROVE KernelInv
  OBVIOUS
<1>1. Waiting(<<>>) = {} /\ Ordered(<<>>) /\ <<>> \in Seq(Entries)
  BY DEF Waiting, Ordered
<1>2. FlowTypes
  BY <1>1 DEF Init, FlowTypes, Phases, Fates
<1>3. RestTypes
  <2>1. session \in SessionRow /\ steer \in [Run -> SteerRow]
    BY DEF Init, Loaded, NoSteer, SessionRow, SteerRow
  <2>2. turn \in [Run -> 0 .. MaxTurns] /\ perm \in [Run -> Permissions]
    BY KernelAssumption DEF Init, Permissions
  <2>3. stored \in Seq(Nat) /\ ends \in [Run -> Seq(Ends)]
    BY DEF Init
  <2>q. QED BY <2>1, <2>2, <2>3 DEF Init, RestTypes
<1>4. RunsInv
  BY DEF Init, RunsInv, RunFits, Begun, InTurn
<1>5. SessionInv
  BY DEF Init, SessionInv, Solo, DeletedIsQuiet, Loaded
<1>6. LockInv /\ OneRunPerRequest
  BY <1>1 DEF Init, LockInv, OneRunPerRequest
<1>q. QED BY <1>2, <1>3, <1>4, <1>5, <1>6, TypesSplit DEF KernelInv, Live, Init

\* The steps of a run do not close the composition.
LEMMA OpenStays ==
  ASSUME NEW r \in Run, up # "closed",
         ClientStep(r) \/ StartStep(r) \/ LoopStep(r) \/ FinishStep(r) \/ HostStep(r)
  PROVE  up' # "closed"
<1>1. CASE ClientStep(r) \/ HostStep(r)
  BY <1>1 DEF ClientStep, HostStep, Prompt, Steer, Abort, Decide, SteerQueued, DecisionRecorded, hostVars
<1>2. CASE StartStep(r)
  BY <1>2 DEF StartStep, Prepared, beginRun, ExtraCommitted, hostVars
<1>3. CASE LoopStep(r)
  BY <1>3 DEF LoopStep, Launch, ProviderReady, Round, SteerCommitted, Compacted, ModelAnswers,
              AnswerCommitted, ToolCall, Decided, ToolReturns, ResultCommitted, Guided, hostVars
<1>4. CASE FinishStep(r)
  BY <1>4 DEF FinishStep, FinishGuard, finalizeRun, EmitEnd, hostVars
<1>q. QED BY <1>1, <1>2, <1>3, <1>4

LEMMA KernelNext == KernelInv /\ [Next]_vars => KernelInv'
<1> SUFFICES ASSUME KernelInv, [Next]_vars PROVE KernelInv'
  OBVIOUS
<1>1. CASE UNCHANGED vars
  <2>1. TypeOK'
    BY <1>1 DEF KernelInv, TypeOK, vars
  <2>2. up # "closed" => Live'
    BY <1>1 DEF KernelInv, Live, RunsInv, RunFits, Tells, SessionInv, Solo, DeletedIsQuiet, Spoiled,
                LockInv, Entry, OneRunPerRequest, vars
  <2>3. up = "closed" => Exited'
    BY <1>1 DEF KernelInv, Exited, Solo, DeletedIsQuiet, EndTold, OneTerminalEvent,
                EventTellsRecord, OneRunPerRequest, vars
  <2>q. QED BY <1>1, <2>1, <2>2, <2>3 DEF KernelInv, vars
<1>2. CASE Next
  <2>1. up # "closed" /\ TypeOK /\ Live
    BY <1>2 DEF Next, KernelInv
  <2>2. ASSUME NEW r \in Run, ClientStep(r) \/ StartStep(r) \/ LoopStep(r) \/ FinishStep(r) \/ HostStep(r)
        PROVE  KernelInv'
    <3>1. CASE ClientStep(r) \/ HostStep(r)
      BY <2>1, <2>2, <3>1, OpenStays, PromptKeeps, InstructionKeeps, AbortKeeps, DecisionKeeps
         DEF ClientStep, HostStep, KernelInv
    <3>2. CASE StartStep(r)
      BY <2>1, <2>2, <3>2, OpenStays, PreparedKeeps, BeginKeeps, ExtraCommittedKeeps DEF StartStep, KernelInv
    <3>3. CASE LoopStep(r)
      BY <2>1, <2>2, <3>3, OpenStays, LoopStepKeeps DEF KernelInv
    <3>4. CASE FinishStep(r)
      BY <2>1, <2>2, <3>4, OpenStays, FinishGuardKeeps, FinalizeKeeps, EmitEndKeeps DEF FinishStep, KernelInv
    <3>q. QED BY <2>2, <3>1, <3>2, <3>3, <3>4
  <2>3. CASE closeSession \/ resumeSession \/ deleteSession
    <3>1. up' = up
      BY <2>3 DEF closeSession, resumeSession, deleteSession, sessionOnly, hostVars
    <3>q. QED BY <2>1, <2>3, <3>1, SessionStepKeeps DEF KernelInv
  <2>4. CASE Shutdown
    <3>1. up' = "stopping"
      BY <2>4 DEF Shutdown
    <3>q. QED BY <2>1, <2>4, <3>1, ShutdownKeeps DEF KernelInv
  <2>5. CASE finalizeComposition
    <3>1. up' = "closed"
      BY <2>5 DEF finalizeComposition
    <3>q. QED BY <2>1, <2>5, <3>1, ExitKeeps DEF KernelInv
  <2>q. QED BY <1>2, <2>2, <2>3, <2>4, <2>5 DEF Next
<1>q. QED BY <1>1, <1>2

(***************************************************************************)
(* Where a run's loop is, where its end is, what the journal holds of it    *)
(* and what waits for the session lock fit together in every reachable      *)
(* state; after the exit, what was told and recorded remains as it was.     *)
(***************************************************************************)
THEOREM KernelInvariant == Spec => []KernelInv
  BY KernelInit, KernelNext, PTL DEF Spec

(***************************************************************************)
(* AgentLoop.finish and RunCoordinator.finalize: a run is announced as      *)
(* ended at most once, with the state the journal records, however          *)
(* completion, failure, abort and shutdown meet and whichever call fails.   *)
(***************************************************************************)
THEOREM EndsAreTold == Spec => []EndTold
<1>1. KernelInv => EndTold
  BY EndsTold DEF KernelInv, Live, Exited
<1>q. QED BY <1>1, KernelInvariant, PTL

(***************************************************************************)
(* commitMessage and withSessionLock: a message of the loop that waits for  *)
(* the lock finds its run running, with the end of the run behind it.       *)
(***************************************************************************)
THEOREM MessagesComeFirst == Spec => []MessagesPrecedeEnd
<1>1. KernelInv => MessagesPrecedeEnd
  <2> SUFFICES ASSUME KernelInv, NEW i \in DOMAIN queue, queue[i].op \in LoopOps
               PROVE  /\ record[queue[i].run] = "running"
                      /\ \A j \in 1 .. i : queue[j] # Final(queue[i].run)
    BY DEF MessagesPrecedeEnd, Final
  <2>1. queue # <<>> /\ queue \in Seq(Entries) /\ DOMAIN queue = 1 .. Len(queue)
    BY WaitingTyped DEF KernelInv
  <2>2. LockInv
    BY <2>1 DEF KernelInv, Live, Exited
  <2>3. queue[i] \in Waiting(queue)
    BY <2>1 DEF Waiting
  <2>q. QED BY <2>1, <2>2, <2>3 DEF LockInv, Entry, Ordered
<1>q. QED BY <1>1, KernelInvariant, PTL

(***************************************************************************)
(* beginRun and appendRequestMessage: prompts that share a client request   *)
(* id begin one run, also across a close, a failed end and a resumption.    *)
(***************************************************************************)
THEOREM RequestsRunOnce == Spec => []OneRunPerRequest
<1>1. KernelInv => OneRunPerRequest
  BY DEF KernelInv, Live, Exited
<1>q. QED BY <1>1, KernelInvariant, PTL

(***************************************************************************)
(* The state is well formed, and the session object and the journal agree   *)
(* on the running run until its end cannot be written.                      *)
(***************************************************************************)
THEOREM SessionIsSound == Spec => []SessionSound
<1>1. KernelInv => SessionSound
  <2> SUFFICES ASSUME KernelInv PROVE SessionAgrees
    BY DEF KernelInv, SessionSound
  <2>1. Solo /\ DeletedIsQuiet
    BY DEF KernelInv, Live, SessionInv, Exited
  <2>2. Cardinality(Running) <= 1
    <3>1. CASE Running = {}
      BY <3>1, FS_EmptySet
    <3>2. CASE Running # {}
      <4>1. PICK r : r \in Running
        BY <3>2
      <4>2. Running = {r}
        BY <2>1, <4>1 DEF Solo, Running
      <4>q. QED BY <4>2, FS_Singleton
    <3>q. QED BY <3>1, <3>2
  <2>3. session.active # NoRun => record[session.active] = "running"
    BY DEF KernelInv, Live, SessionInv, Exited
  <2>4. \A r \in Running : session.active = r \/ Spoiled(r) \/ up = "closed"
    BY DEF KernelInv, Live, SessionInv, Running
  <2>5. life = "deleted" => Running = {}
    BY <2>1 DEF DeletedIsQuiet, Running
  <2>q. QED BY <2>2, <2>3, <2>4, <2>5 DEF SessionAgrees
<1>q. QED BY <1>1, KernelInvariant, PTL

=============================================================================
