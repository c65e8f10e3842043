------------------------- MODULE ChildRuntimeProofs -------------------------
(***************************************************************************)
(* Proofs about what a parent does for its children, for any number of      *)
(* children, requests and calls and every budget: the host, the channel on  *)
(* which a child asks for model calls, and the router that makes them.      *)
(***************************************************************************)
EXTENDS ChildHost, CredentialBroker, ProviderRouter, FiniteSetTheorems, TLAPS

-----------------------------------------------------------------------------
(***************************************************************************)
(* The host.  What a child's stage says about its reservation, its process  *)
(* and its handle is the inductive part: a process is up only while its     *)
(* events are read, so nothing is spent before the execution is accepted or *)
(* after the child has ended; and a control that exists has been told the   *)
(* reason its child has.                                                    *)
(***************************************************************************)
Staged(c) ==
  /\ stage[c] \in {"idle", "prepared"} => admission[c] = "none"
  /\ stage[c] = "connecting" => admission[c] = "slot_reserved"
  /\ stage[c] \in Attached \ {"connecting"} => admission[c] = "execution_accepted"
  /\ stage[c] = "closing" => admission[c] \in {"slot_reserved", "execution_accepted"}
  /\ stage[c] = "refused" => admission[c] \in {"none", "released"}
  /\ stage[c] = "ended" => admission[c] \in {"released", "terminal"}
Spending(c) ==
  /\ process[c] = "up" => stage[c] \in {"reading", "deciding"}
  /\ spent[c] <= lease[c]
  /\ admission[c] # "execution_accepted" /\ stage[c] # "ended" => spent[c] = 0
Reached(c) ==
  /\ stage[c] \in Attached /\ c \in cancelled => c \in told
  /\ stage[c] \in Bound /\ c \in told => c \in aborting
Disarmed(c) == stage[c] = "ended" => handle[c] # "active"

OneChild(c) == Staged(c) /\ Spending(c) /\ Reached(c) /\ Disarmed(c)

InState(states) == {c \in Child : admission[c] \in states}
Occupied == {"slot_reserved", "execution_accepted"}
Paid     == {t \in Child \X (1 .. ChildTurns) : stage[t[1]] = "ended" /\ t[2] <= spent[t[1]]}

Slots ==
  /\ ledger.active = Cardinality(InState(Occupied))
  /\ ledger.reserved = Cardinality(InState({"slot_reserved"}))
  /\ ledger.charged + ledger.reserved <= MaxChildRuns

HostInv == HostTypeOK /\ (\A c \in Child : OneChild(c)) /\ Slots /\ ledger.used >= Cardinality(Paid)

LEMMA CountsFinite ==
  /\ \A states : IsFiniteSet(InState(states)) /\ Cardinality(InState(states)) \in Nat
  /\ IsFiniteSet(Paid) /\ Cardinality(Paid) \in Nat /\ Cardinality(Paid') \in Nat
<1>1. ASSUME NEW states PROVE IsFiniteSet(InState(states)) /\ Cardinality(InState(states)) \in Nat
  <2>1. InState(states) \in SUBSET Child
    BY DEF InState
  <2> QED BY <2>1, HostAssumption, FS_Subset, FS_CardinalityType DEF HostAssumption
<1>2. IsFiniteSet(Child \X (1 .. ChildTurns))
  <2>1. 1 \in Int /\ ChildTurns \in Int /\ IsFiniteSet(Child)
    BY HostAssumption DEF HostAssumption
  <2>2. IsFiniteSet(1 .. ChildTurns)
    BY <2>1, FS_Interval, Zenon
  <2> QED BY <2>1, <2>2, FS_Product
<1>3. Paid \in SUBSET (Child \X (1 .. ChildTurns)) /\ Paid' \in SUBSET (Child \X (1 .. ChildTurns))
  BY DEF Paid
<1> QED BY <1>1, <1>2, <1>3, FS_Subset, FS_CardinalityType

\* Two columns of the ledger are written at a time.
Ledger == [reserved : 0 .. MaxChildRuns, charged : 0 .. MaxChildRuns, active : 0 .. MaxParallel, used : Nat]

LEMMA LedgerType ==
  /\ \A row \in Ledger, r \in 0 .. MaxChildRuns, a \in 0 .. MaxParallel :
        [row EXCEPT !.reserved = r, !.active = a] \in Ledger
  /\ \A row \in Ledger, r \in 0 .. MaxChildRuns, n \in 0 .. MaxChildRuns :
        [row EXCEPT !.reserved = r, !.charged = n] \in Ledger
  /\ \A row \in Ledger, a \in 0 .. MaxParallel, u \in Nat :
        [row EXCEPT !.active = a, !.used = u] \in Ledger
BY DEF Ledger

\* The grant of a reservation.
LEMMA GrantType == ledger.used \in Nat => Granted \in 0 .. ChildTurns
<1> SUFFICES ASSUME ledger.used \in Nat PROVE Granted \in 0 .. ChildTurns
  OBVIOUS
<1> DEFINE R == Remaining
<1>1. R \in Nat /\ ChildTurns \in Nat
  BY HostAssumption DEF Remaining, HostAssumption
<1> HIDE DEF R
<1>2. \E x \in {ChildTurns, R} : \A y \in {ChildTurns, R} : x <= y
  BY <1>1
<1>3. Min({ChildTurns, R}) \in {ChildTurns, R} /\ \A y \in {ChildTurns, R} : Min({ChildTurns, R}) <= y
  BY <1>2 DEF Min
<1> QED BY <1>1, <1>3 DEF Granted, R

\* A slot that is taken or given back counts once.
LEMMA SlotTaken ==
  ASSUME NEW c \in Child, NEW states, admission[c] \notin states, admission'[c] \in states,
         \A d \in Child : d # c => admission'[d] = admission[d]
  PROVE  Cardinality(InState(states)') = Cardinality(InState(states)) + 1
<1>1. InState(states)' = InState(states) \cup {c} /\ c \notin InState(states)
  BY DEF InState
<1> QED BY <1>1, CountsFinite, FS_AddElement

LEMMA SlotGiven ==
  ASSUME NEW c \in Child, NEW states, admission[c] \in states, admission'[c] \notin states,
         \A d \in Child : d # c => admission'[d] = admission[d]
  PROVE  Cardinality(InState(states)') = Cardinality(InState(states)) - 1 /\ Cardinality(InState(states)) >= 1
<1>1. InState(states)' = InState(states) \ {c} /\ c \in InState(states)
  BY DEF InState
<1>2. Cardinality(InState(states)') = Cardinality(InState(states)) - 1
  BY <1>1, CountsFinite, FS_RemoveElement
<1>3. InState(states) # {}
  BY <1>1
<1> QED BY <1>2, <1>3, CountsFinite, FS_EmptySet

LEMMA SlotKept ==
  ASSUME NEW states, \A d \in Child : admission'[d] \in states <=> admission[d] \in states
  PROVE  InState(states)' = InState(states)
BY DEF InState

\* The turns of an ended child are added when it ends.
LEMMA PaidGrows ==
  ASSUME NEW c \in Child, spent[c] \in 0 .. ChildTurns, spent' = spent,
         \A d \in Child : d # c => stage'[d] = stage[d]
  PROVE  Cardinality(Paid') <= Cardinality(Paid) + spent[c]
<1> DEFINE mine == {c} \X (1 .. spent[c])
<1>1. IsFiniteSet(mine) /\ Cardinality(mine) = spent[c]
  <2>1. 1 \in Int /\ spent[c] \in Int
    BY HostAssumption DEF HostAssumption
  <2>2. IsFiniteSet(1 .. spent[c]) /\ Cardinality(1 .. spent[c]) = spent[c]
    <3>1. IsFiniteSet(1 .. spent[c]) /\ Cardinality(1 .. spent[c]) = IF 1 > spent[c] THEN 0 ELSE spent[c] - 1 + 1
      BY <2>1, FS_Interval, Zenon
    <3> QED BY <3>1, HostAssumption DEF HostAssumption
  <2>3. IsFiniteSet({c}) /\ Cardinality({c}) = 1
    BY FS_Singleton
  <2>4. IsFiniteSet(mine) /\ Cardinality(mine) = Cardinality({c}) * Cardinality(1 .. spent[c])
    BY <2>2, <2>3, FS_Product
  <2> QED BY <2>1, <2>2, <2>3, <2>4
<1> HIDE DEF mine
<1>2. IsFiniteSet(Paid \cup mine) /\ Cardinality(Paid \cup mine) <= Cardinality(Paid) + spent[c]
  <2>1. /\ IsFiniteSet(Paid \cup mine)
        /\ Cardinality(Paid \cup mine) = Cardinality(Paid) + Cardinality(mine) - Cardinality(Paid \cap mine)
    BY <1>1, CountsFinite, FS_Union
  <2>2. Cardinality(Paid \cap mine) \in Nat
    BY <1>1, FS_Intersection, FS_CardinalityType
  <2> QED BY <1>1, <2>1, <2>2, CountsFinite
<1>3. Paid' \in SUBSET (Paid \cup mine)
  <2> SUFFICES ASSUME NEW t \in Paid' PROVE t \in Paid \cup mine
    OBVIOUS
  <2>1. t \in Child \X (1 .. ChildTurns) /\ stage'[t[1]] = "ended" /\ t[2] <= spent[t[1]]
    BY DEF Paid
  <2>2. CASE t[1] = c
    <3>1. t = <<t[1], t[2]>> /\ t[2] \in 1 .. spent[c]
      BY <2>1, <2>2, HostAssumption DEF HostAssumption
    <3> QED BY <2>2, <3>1 DEF mine
  <2>3. CASE t[1] # c
    BY <2>1, <2>3 DEF Paid
  <2> QED BY <2>2, <2>3
<1>4. Cardinality(Paid') <= Cardinality(Paid \cup mine) /\ Cardinality(Paid') \in Nat
  BY <1>2, <1>3, FS_Subset, FS_CardinalityType
<1> QED BY <1>2, <1>4, CountsFinite, FS_CardinalityType, HostAssumption DEF HostAssumption

LEMMA PaidKept ==
  ASSUME \A c \in Child : (stage'[c] = "ended" <=> stage[c] = "ended")
                          /\ (stage[c] = "ended" => spent'[c] = spent[c])
  PROVE  Paid' = Paid
BY DEF Paid

\* A step of one child leaves the others alone.
Others(c) == \A d \in Child \ {c} :
  /\ stage'[d] = stage[d] /\ admission'[d] = admission[d] /\ process'[d] = process[d]
  /\ spent'[d] = spent[d] /\ lease'[d] = lease[d] /\ handle'[d] = handle[d]
  /\ (d \in cancelled' <=> d \in cancelled) /\ (d \in told' <=> d \in told)
  /\ (d \in aborting' <=> d \in aborting)

LEMMA OthersKeep ==
  ASSUME NEW c \in Child, Others(c), NEW d \in Child, d # c, OneChild(d)
  PROVE  OneChild(d)'
BY DEF Others, OneChild, Staged, Spending, Reached, Disarmed

\* A step that takes no slot, gives none back and ends no child.
LEMMA CalmKeeps ==
  ASSUME HostInv, HostTypeOK', NEW c \in Child, Others(c), OneChild(c)',
         UNCHANGED <<admission, ledger>>,
         stage'[c] = "ended" <=> stage[c] = "ended", stage[c] = "ended" => spent'[c] = spent[c]
  PROVE  HostInv'
<1>1. \A d \in Child : OneChild(d)'
  BY OthersKeep DEF HostInv
<1>2. Paid' = Paid
  BY PaidKept DEF Others
<1>3. InState(Occupied)' = InState(Occupied) /\ InState({"slot_reserved"})' = InState({"slot_reserved"})
  BY SlotKept
<1> QED BY <1>1, <1>2, <1>3 DEF HostInv, Slots

LEMMA HostKeeps ==
  ASSUME HostInv, NEW c \in Child,
         Delegate(c) \/ HostStep(c) \/ Ask(c) \/ HostFault(c) \/ ChildTurn(c) \/ ChildStops(c) \/ Cancel(c)
         \/ Answer(c) \/ Steer(c) \/ SteerUnconnected(c) \/ SteerAnswered(c)
  PROVE  HostInv'
<1> USE HostAssumption DEF HostAssumption
<1> USE DEF Attached, Bound
<1>t. HostTypeOK /\ OneChild(c)
  BY DEF HostInv
<1>0. Staged(c) /\ Spending(c) /\ Reached(c) /\ Disarmed(c)
  BY <1>t DEF OneChild
<1>1. CASE Delegate(c)
  <2>1. HostTypeOK' /\ Others(c) /\ stage'[c] # "ended" /\ stage[c] # "ended"
    BY <1>t, <1>1 DEF HostTypeOK, Stage, Delegate, SetStage, childVars, controlVars, Others
  <2>2. OneChild(c)'
    BY <1>0, <1>t, <1>1 DEF OneChild, Staged, Spending, Reached, Disarmed, HostTypeOK, Delegate,
       SetStage, childVars, controlVars
  <2> QED BY <1>1, <2>1, <2>2, CalmKeeps DEF Delegate
<1>2. CASE Spawn(c)
  <2>1. CASE stage'[c] = "refused"
    <3>1. /\ HostTypeOK' /\ Others(c) /\ stage[c] = "prepared" /\ ledger' = ledger
          /\ admission'[c] \in {"none", "released"} /\ admission[c] = "none"
      BY <1>0, <1>t, <1>2, <2>1 DEF HostTypeOK, Stage, Spawn, Refuse, Reserve, SetStage, SetAdmission,
         Fault, Staged, childVars, controlVars, Others
    <3>2. OneChild(c)'
      BY <1>0, <1>t, <1>2, <2>1, <3>1 DEF OneChild, Staged, Spending, Reached, Disarmed, HostTypeOK, Spawn,
         Refuse, Reserve, SetStage, SetAdmission, childVars, controlVars
    <3>3. \A d \in Child : OneChild(d)'
      BY <3>1, <3>2, OthersKeep DEF HostInv
    <3>4. Paid' = Paid
      BY <1>2, <2>1, <3>1, PaidKept DEF Others, Spawn, childVars
    <3>5. InState(Occupied)' = InState(Occupied) /\ InState({"slot_reserved"})' = InState({"slot_reserved"})
      BY <3>1, SlotKept DEF Others, Occupied
    <3> QED BY <3>1, <3>3, <3>4, <3>5 DEF HostInv, Slots
  <2>2. CASE stage'[c] # "refused"
    <3>1. /\ Admissible /\ c \notin cancelled /\ stage[c] = "prepared" /\ stage'[c] = "connecting"
          /\ Reserve(c) /\ UNCHANGED <<hostFaults, childVars, controlVars, handle>>
          /\ stage' = [stage EXCEPT ![c] = "connecting"]
          /\ steered' \in [Child -> {"none", "unconnected", "unbound", "sent", "accepted", "refused"}]
      BY <1>t, <1>2, <2>2 DEF HostTypeOK, Spawn, Refuse, SetStage
    <3>2. Granted \in 0 .. ChildTurns
      BY <1>t, GrantType DEF HostTypeOK
    <3>3. HostTypeOK'
      <4>1. ledger.reserved + 1 <= MaxChildRuns /\ ledger.active + 1 <= MaxParallel
        BY <1>t, <3>1 DEF Admissible, HostTypeOK
      <4>2. ledger' \in Ledger
        <5>1. ledger \in Ledger /\ ledger.reserved + 1 \in 0 .. MaxChildRuns /\ ledger.active + 1 \in 0 .. MaxParallel
          BY <1>t, <4>1 DEF HostTypeOK, Ledger
        <5> QED BY <3>1, <5>1, LedgerType DEF Reserve
      <4> QED BY <1>t, <3>1, <3>2, <4>2 DEF HostTypeOK, Ledger, Stage, Reserve, SetAdmission, childVars, controlVars
    <3>4. Others(c)
      BY <1>t, <3>1 DEF HostTypeOK, Reserve, SetAdmission, childVars, controlVars, Others
    <3>5. admission[c] = "none" /\ admission'[c] = "slot_reserved" /\ spent[c] = 0
      BY <1>0, <1>t, <3>1 DEF Staged, Spending, Reserve, SetAdmission, HostTypeOK
    <3>6. OneChild(c)'
      BY <1>0, <1>t, <3>1, <3>2, <3>5 DEF OneChild, Staged, Spending, Reached, Disarmed, HostTypeOK, Reserve,
         childVars, controlVars
    <3>7. \A d \in Child : OneChild(d)'
      BY <3>4, <3>6, OthersKeep DEF HostInv
    <3>8. Paid' = Paid
      BY <3>1, <3>4, PaidKept DEF Others, childVars
    <3>9. Cardinality(InState(Occupied)') = Cardinality(InState(Occupied)) + 1
      BY <3>4, <3>5, SlotTaken DEF Others, Occupied
    <3>10. Cardinality(InState({"slot_reserved"})') = Cardinality(InState({"slot_reserved"})) + 1
      BY <3>4, <3>5, SlotTaken DEF Others
    <3>11. /\ ledger'.active = ledger.active + 1 /\ ledger'.reserved = ledger.reserved + 1
           /\ ledger'.charged = ledger.charged /\ ledger'.used = ledger.used
           /\ ledger.charged + ledger.reserved + 1 <= MaxChildRuns
      BY <1>t, <3>1 DEF HostTypeOK, Reserve, Admissible
    <3> QED BY <1>t, <3>3, <3>7, <3>8, <3>9, <3>10, <3>11 DEF HostInv, Slots, HostTypeOK
  <2> QED BY <2>1, <2>2
<1>3. CASE Connected(c)
  <2>1. CASE c \in cancelled
    <3>1. HostTypeOK' /\ Others(c) /\ stage'[c] # "ended" /\ stage[c] # "ended"
      BY <1>t, <1>3, <2>1 DEF HostTypeOK, Stage, Connected, Throws, SetStage, Unblock, Others
    <3>2. OneChild(c)'
      BY <1>0, <1>t, <1>3, <2>1 DEF OneChild, Staged, Spending, Reached, Disarmed, HostTypeOK, Connected, Throws,
         SetStage
    <3> QED BY <1>3, <2>1, <3>1, <3>2, CalmKeeps DEF Connected, Throws
  <2>2. CASE c \notin cancelled
    <3>1. /\ stage[c] = "connecting" /\ SetStage(c, "starting") /\ Accept(c)
          /\ UNCHANGED <<lease, childVars, controlVars, handle, steered, hostFaults>>
      BY <1>3, <2>2 DEF Connected
    <3>2. admission[c] = "slot_reserved" /\ admission'[c] = "execution_accepted"
      BY <1>0, <1>t, <3>1 DEF Staged, Accept, SetAdmission, HostTypeOK
    <3>3. Others(c) /\ stage'[c] # "ended" /\ stage[c] # "ended"
      BY <1>t, <3>1 DEF HostTypeOK, Accept, SetStage, SetAdmission, childVars, controlVars, Others
    <3>4. OneChild(c)'
      BY <1>0, <1>t, <2>2, <3>1, <3>2 DEF OneChild, Staged, Spending, Reached, Disarmed, HostTypeOK, SetStage,
         childVars, controlVars
    <3>5. \A d \in Child : OneChild(d)'
      BY <3>3, <3>4, OthersKeep DEF HostInv
    <3>6. Paid' = Paid
      BY <3>1, <3>3, PaidKept DEF Others, childVars
    <3>7. InState(Occupied)' = InState(Occupied)
      BY <3>2, <3>3, SlotKept DEF Others, Occupied
    <3>8. /\ Cardinality(InState({"slot_reserved"})') = Cardinality(InState({"slot_reserved"})) - 1
          /\ Cardinality(InState({"slot_reserved"})) >= 1
      BY <3>2, <3>3, SlotGiven DEF Others
    <3>9. ledger.reserved >= 1 /\ ledger.charged + ledger.reserved <= MaxChildRuns
      BY <3>8 DEF HostInv, Slots
    <3>10. HostTypeOK'
      <4>1. ledger' \in Ledger
        <5>1. /\ ledger \in Ledger /\ ledger.reserved - 1 \in 0 .. MaxChildRuns
              /\ ledger.charged + 1 \in 0 .. MaxChildRuns
          BY <1>t, <3>9 DEF HostTypeOK, Ledger
        <5> QED BY <3>1, <5>1, LedgerType DEF Accept
      <4> QED BY <1>t, <3>1, <4>1 DEF HostTypeOK, Ledger, Stage, Accept, SetStage, SetAdmission, childVars, controlVars
    <3>11. /\ ledger'.active = ledger.active /\ ledger'.reserved = ledger.reserved - 1
           /\ ledger'.charged = ledger.charged + 1 /\ ledger'.used = ledger.used
      BY <1>t, <3>1 DEF HostTypeOK, Accept
    <3> QED BY <1>t, <3>5, <3>6, <3>7, <3>8, <3>9, <3>10, <3>11 DEF HostInv, Slots, HostTypeOK
  <2> QED BY <2>1, <2>2
<1>4. CASE Bind(c)
  <2>1. HostTypeOK' /\ Others(c) /\ stage'[c] # "ended" /\ stage[c] # "ended"
    BY <1>t, <1>4 DEF HostTypeOK, Stage, Bind, SetStage, Unblock, Others
  <2>2. OneChild(c)'
    BY <1>0, <1>t, <1>4 DEF OneChild, Staged, Spending, Reached, Disarmed, HostTypeOK, Bind, SetStage
  <2> QED BY <1>4, <2>1, <2>2, CalmKeeps DEF Bind
<1>5. CASE Decided(c) \/ Terminal(c) \/ HostFault(c)
  <2>1. HostTypeOK' /\ Others(c) /\ stage'[c] # "ended" /\ stage[c] # "ended"
    BY <1>t, <1>5 DEF HostTypeOK, Stage, Decided, Terminal, HostFault, Fault, Throws, SetStage, Unblock, childVars,
       controlVars, Others
  <2>2. OneChild(c)'
    BY <1>0, <1>t, <1>5 DEF OneChild, Staged, Spending, Reached, Disarmed, HostTypeOK, Decided, Terminal, HostFault,
       Throws, SetStage, childVars, controlVars
  <2> QED BY <1>5, <2>1, <2>2, CalmKeeps DEF Decided, Terminal, HostFault, Throws
<1>6. CASE Finish(c) \/ Ask(c)
  <2>1. HostTypeOK' /\ Others(c) /\ stage'[c] # "ended" /\ stage[c] # "ended"
    BY <1>t, <1>6 DEF HostTypeOK, Stage, Finish, Ask, SetStage, childVars, controlVars, Others
  <2>2. OneChild(c)'
    BY <1>0, <1>t, <1>6 DEF OneChild, Staged, Spending, Reached, Disarmed, HostTypeOK, Finish, Ask, SetStage,
       childVars, controlVars
  <2> QED BY <1>6, <2>1, <2>2, CalmKeeps DEF Finish, Ask
<1>7. CASE Close(c)
  <2>1. /\ stage[c] = "closing" /\ stage' = [stage EXCEPT ![c] = "ended"] /\ handle' = [handle EXCEPT ![c] = "revoked"]
        /\ UNCHANGED <<lease, spent, process, asked, cancelled, told, aborting, steered, hostFaults>>
        /\ \E a \in {"released", "terminal"} : admission' = [admission EXCEPT ![c] = a]
        /\ \/ /\ admission[c] = "execution_accepted"
              /\ ledger' = [ledger EXCEPT !.active = @ - 1, !.used = @ + Usage(c, process[c] \in {"completed", "aborted"})]
           \/ /\ admission[c] # "execution_accepted"
              /\ ledger' = [ledger EXCEPT !.reserved = @ - 1, !.active = @ - 1]
    BY <1>7 DEF Close, SetStage, Settle, Release, SetAdmission, childVars, controlVars
  <2>2. admission[c] \in Occupied /\ admission'[c] \notin Occupied
    BY <1>0, <1>t, <2>1 DEF Staged, Occupied, HostTypeOK
  <2>3. Others(c)
    BY <1>t, <2>1 DEF HostTypeOK, Others
  <2>4. OneChild(c)'
    BY <1>0, <1>t, <2>1, <2>2 DEF OneChild, Staged, Spending, Reached, Disarmed, HostTypeOK, Occupied
  <2>5. \A d \in Child : OneChild(d)'
    BY <2>3, <2>4, OthersKeep DEF HostInv
  <2>6. /\ Cardinality(InState(Occupied)') = Cardinality(InState(Occupied)) - 1
        /\ Cardinality(InState(Occupied)) >= 1
    BY <2>2, <2>3, SlotGiven DEF Others
  <2>7. Cardinality(Paid') <= Cardinality(Paid) + spent[c] /\ Cardinality(Paid') \in Nat
    <3>1. spent[c] \in 0 .. ChildTurns /\ spent' = spent /\ \A d \in Child : d # c => stage'[d] = stage[d]
      BY <1>t, <2>1, <2>3 DEF Others, HostTypeOK
    <3>2. Cardinality(Paid') <= Cardinality(Paid) + spent[c]
      BY <3>1, PaidGrows
    <3>3. Cardinality(Paid') \in Nat
      BY CountsFinite
    <3> QED BY <3>2, <3>3
  <2>8. ledger.active >= 1
    BY <2>6 DEF HostInv, Slots
  <2>9. Usage(c, process[c] \in {"completed", "aborted"}) \in Nat
        /\ Usage(c, process[c] \in {"completed", "aborted"}) >= spent[c]
    BY <1>0, <1>t DEF Usage, Spending, HostTypeOK
  <2>10. CASE admission[c] = "execution_accepted"
    <3> DEFINE U == Usage(c, process[c] \in {"completed", "aborted"})
    <3> HIDE DEF U
    <3>1. ledger' = [ledger EXCEPT !.active = @ - 1, !.used = @ + U]
      BY <2>1, <2>10 DEF U
    <3>2. U \in Nat /\ U >= spent[c]
      BY <2>9 DEF U
    <3>3. HostTypeOK'
      <4>1. ledger' \in Ledger
        <5>1. ledger \in Ledger /\ ledger.used + U \in Nat /\ ledger.active - 1 \in 0 .. MaxParallel
          BY <1>t, <2>8, <3>2 DEF HostTypeOK, Ledger
        <5> QED BY <3>1, <5>1, LedgerType
      <4> QED BY <1>t, <2>1, <4>1 DEF HostTypeOK, Stage, Ledger
    <3>4. InState({"slot_reserved"})' = InState({"slot_reserved"})
      BY <2>2, <2>3, <2>10, SlotKept DEF Others, Occupied
    <3>5. /\ ledger'.active = ledger.active - 1 /\ ledger'.reserved = ledger.reserved
          /\ ledger'.charged = ledger.charged /\ ledger'.used = ledger.used + U
      BY <1>t, <3>1 DEF HostTypeOK
    <3> QED BY <1>t, <2>5, <2>6, <2>7, <3>2, <3>3, <3>4, <3>5, CountsFinite DEF HostInv, Slots, HostTypeOK
  <2>11. CASE admission[c] # "execution_accepted"
    <3>1. ledger' = [ledger EXCEPT !.reserved = @ - 1, !.active = @ - 1] /\ admission[c] = "slot_reserved" /\ spent[c] = 0
      BY <1>0, <2>1, <2>2, <2>11 DEF Occupied, Spending
    <3>2. /\ Cardinality(InState({"slot_reserved"})') = Cardinality(InState({"slot_reserved"})) - 1
          /\ Cardinality(InState({"slot_reserved"})) >= 1
      BY <2>2, <2>3, <3>1, SlotGiven DEF Others, Occupied
    <3>3. ledger.reserved >= 1
      BY <3>2 DEF HostInv, Slots
    <3>4. HostTypeOK'
      <4>1. ledger' \in Ledger
        <5>1. ledger \in Ledger /\ ledger.reserved - 1 \in 0 .. MaxChildRuns /\ ledger.active - 1 \in 0 .. MaxParallel
          BY <1>t, <2>8, <3>3 DEF HostTypeOK, Ledger
        <5> QED BY <3>1, <5>1, LedgerType
      <4> QED BY <1>t, <2>1, <4>1 DEF HostTypeOK, Stage, Ledger
    <3>5. /\ ledger'.active = ledger.active - 1 /\ ledger'.reserved = ledger.reserved - 1
          /\ ledger'.charged = ledger.charged /\ ledger'.used = ledger.used
      BY <1>t, <3>1 DEF HostTypeOK
    <3> QED BY <1>t, <2>5, <2>6, <2>7, <3>1, <3>2, <3>4, <3>5, CountsFinite DEF HostInv, Slots, HostTypeOK
  <2> QED BY <2>10, <2>11
<1>8. CASE ForceClose(c) \/ ChildStops(c) \/ ChildTurn(c)
  <2>1. HostTypeOK' /\ Others(c) /\ stage' = stage /\ stage[c] # "ended"
    BY <1>0, <1>t, <1>8 DEF HostTypeOK, ForceClose, ChildStops, ChildTurn, controlVars, Others, Spending
  <2>2. OneChild(c)'
    BY <1>0, <1>t, <1>8 DEF OneChild, Staged, Spending, Reached, Disarmed, HostTypeOK, ForceClose, ChildStops,
       ChildTurn, controlVars
  <2> QED BY <1>8, <2>1, <2>2, CalmKeeps DEF ForceClose, ChildStops, ChildTurn
<1>9. CASE Cancel(c)
  <2>1. HostTypeOK' /\ Others(c) /\ stage' = stage
    BY <1>t, <1>9 DEF HostTypeOK, Cancel, Unblock, childVars, Others
  <2>2. OneChild(c)'
    BY <1>0, <1>t, <1>9 DEF OneChild, Staged, Spending, Reached, Disarmed, HostTypeOK, Cancel, childVars
  <2> QED BY <1>9, <2>1, <2>2, CalmKeeps DEF Cancel, childVars
<1>10. CASE Answer(c) \/ Steer(c) \/ SteerUnconnected(c) \/ SteerAnswered(c)
  <2>1. UNCHANGED <<stage, admission, lease, spent, ledger, process, controlVars, handle, hostFaults>>
    BY <1>10 DEF Answer, Steer, SteerUnconnected, SteerAnswered, childVars
  <2>2. asked' \subseteq Child
    BY <1>t, <1>10 DEF HostTypeOK, Answer, Steer, SteerUnconnected, SteerAnswered, childVars
  <2>3. steered' \in [Child -> {"none", "unconnected", "unbound", "sent", "accepted", "refused"}]
    BY <1>t, <1>10 DEF HostTypeOK, Answer, Steer, SteerUnconnected, SteerAnswered
  <2>4. HostTypeOK' /\ Others(c) /\ OneChild(c)'
    BY <1>0, <1>t, <2>1, <2>2, <2>3 DEF HostTypeOK, controlVars, Others, OneChild, Staged, Spending, Reached, Disarmed
  <2> QED BY <2>1, <2>4, CalmKeeps
<1> QED BY <1>1, <1>2, <1>3, <1>4, <1>5, <1>6, <1>7, <1>8, <1>9, <1>10 DEF HostStep

LEMMA HostInvariant == HostInit /\ [][HostNext]_hostVars => []HostInv
<1>1. HostInit => HostInv
  <2> SUFFICES ASSUME HostInit PROVE HostInv
    OBVIOUS
  <2>1. HostTypeOK
    BY HostAssumption DEF HostInit, HostTypeOK, Stage, HostAssumption
  <2>2. \A c \in Child : OneChild(c)
    BY DEF HostInit, OneChild, Staged, Spending, Reached, Disarmed, Attached, Bound
  <2>3. InState(Occupied) = {} /\ InState({"slot_reserved"}) = {} /\ Paid = {}
    BY DEF HostInit, InState, Occupied, Paid
  <2> QED BY <2>1, <2>2, <2>3, FS_EmptySet, HostAssumption DEF HostInit, HostInv, Slots, HostAssumption
<1>2. HostInv /\ [HostNext]_hostVars => HostInv'
  <2> SUFFICES ASSUME HostInv, [HostNext]_hostVars PROVE HostInv'
    OBVIOUS
  <2>1. CASE UNCHANGED hostVars
    BY <2>1 DEF HostInv, HostTypeOK, OneChild, Staged, Spending, Reached, Disarmed, Slots, InState, Paid, hostVars
  <2>2. CASE HostNext
    BY <2>2, HostKeeps DEF HostNext
  <2> QED BY <2>1, <2>2
<1> QED BY <1>1, <1>2, PTL

(***************************************************************************)
(* The slots of the one scope are those of its children, the scope is       *)
(* charged at least the turns its ended children used, its cancellation has *)
(* reached each child it reads, and an ended child has no handle, for any   *)
(* number of children and every limit on runs and turns.  HostSpec has one  *)
(* parent, one generation of children and no tokens (ChildAdmissionLedger,  *)
(* ChildRuntimeHost).                                                       *)
(***************************************************************************)
THEOREM HostIsSound == HostSpec => []HostSound
<1>1. HostInv => HostSound
  <2> SUFFICES ASSUME HostInv PROVE HostSound
    OBVIOUS
  <2>1. HostTypeOK /\ TurnsAccounted
    BY DEF HostInv, TurnsAccounted, Paid
  <2>2. SlotsAgree
    BY DEF HostInv, SlotsAgree, Slots, InState, Occupied, OneChild, Staged
  <2>3. CancelReaches /\ HandleRevoked
    BY DEF HostInv, CancelReaches, HandleRevoked, OneChild, Reached, Disarmed, Attached, Bound
  <2> QED BY <2>1, <2>2, <2>3 DEF HostSound
<1> QED BY <1>1, HostInvariant, PTL DEF HostSpec

(***************************************************************************)
(* A child cancelled before its execution was accepted is never charged and *)
(* never runs: the reason is looked at after the connection, and a process  *)
(* is up only while an accepted execution is read.                          *)
(***************************************************************************)
THEOREM CancelledNeverCharged == HostSpec => NeverCharged
<1> DEFINE Kept == \A c \in Child :
             c \in cancelled /\ admission[c] \in {"none", "slot_reserved"}
               => admission'[c] # "execution_accepted" /\ process'[c] # "up"
<1>1. HostInv /\ [HostNext]_hostVars => [Kept]_hostVars
  <2> SUFFICES ASSUME HostInv, NEW d \in Child, HostNext, NEW c \in Child,
                      c \in cancelled, admission[c] \in {"none", "slot_reserved"}
               PROVE  admission'[c] # "execution_accepted" /\ process'[c] # "up"
    BY DEF HostNext
  <2>1. process[c] # "up" /\ stage[c] \notin {"starting", "reading", "deciding", "finishing"}
    BY DEF HostInv, OneChild, Staged, Spending, Attached
  <2> QED BY <2>1 DEF HostInv, HostTypeOK, HostNext, Delegate, HostStep, Spawn, Refuse, Reserve, Connected, Accept,
             Throws, Bind, Ask, Decided, Terminal, Finish, HostFault, Close, Settle, Release, ForceClose, ChildTurn,
             ChildStops, Cancel, Answer, Steer, SteerUnconnected, SteerAnswered, SetStage, SetAdmission, childVars
<1> QED BY <1>1, HostInvariant, PTL DEF HostSpec, NeverCharged

-----------------------------------------------------------------------------
(***************************************************************************)
(* The channel.  A request is invoked once, so that the parent answers it in *)
(* one run of numbers (Life, Upward); what is on its way to a child that     *)
(* waits is exactly the part of that run it has not seen, in order, and the  *)
(* end comes last (Downward, Whole).  The tokens charged for a request are   *)
(* numbered, so that what all cost together is the size of a set (Billed).   *)
(***************************************************************************)
InCall == {"starting", "calling", "delay", "chunk"}
Life(r) ==
  /\ client[r] # "invalid"
  /\ client[r] = "new" => server[r] = "none"
  /\ server[r] = "none" => sent[r] = 0 /\ r \notin final /\ r \notin aborted
  /\ server[r] \in {"none", "starting"} => tries[r] = 0
  /\ got[r] <= sent[r]
  /\ sent[r] > 0 \/ server[r] = "chunk" => kind[r] = "stream"
  /\ server[r] = "delay" => sent[r] = 0 /\ tries[r] < MaxTries /\ kind[r] \in ModelCall
  /\ server[r] = "last" /\ kind[r] \in ModelCall => r \in final
  /\ r \notin final => cost[r] = 0 /\ sent[r] <= MaxChunks
  /\ server[r] = "chunk" => sent[r] <= MaxChunks /\ (r \notin final => sent[r] < MaxChunks)
  /\ kind[r] \in ModelCall /\ server[r] \in InCall => busy = r

Upward ==
  /\ \A i \in DOMAIN up :
       /\ up[i].type \in {"invoke", "cancel"} /\ client[up[i].r] # "new"
       /\ up[i].type = "invoke" => server[up[i].r] = "none"
  /\ \A i, j \in DOMAIN up : i # j /\ up[i].type = "invoke" /\ up[j].type = "invoke" => up[i].r # up[j].r

\* A message of an answer: a chunk of it, or its end, which says what became of it.
Fit(m) ==
  /\ m.type \in {"chunk", "done", "result", "failed"}
  /\ m.type = "chunk" => m.n < sent[m.r] /\ kind[m.r] = "stream"
  /\ m.type # "chunk" => m.n = sent[m.r] /\ server[m.r] = "ended"
  /\ m.type \in {"done", "result"} /\ kind[m.r] \in ModelCall => m.r \in final

Downward ==
  /\ \A i \in DOMAIN down : Fit(down[i])
  /\ \A i, j \in DOMAIN down : i < j /\ down[i].r = down[j].r => down[i].n < down[j].n

Whole(r) == ~shut /\ client[r] = "waiting" =>
  /\ \A i \in DOMAIN down : down[i].r = r => got[r] <= down[i].n
  /\ \A n \in Nat : got[r] <= n /\ n < sent[r] => \E i \in DOMAIN down : down[i].r = r /\ down[i].n = n

Bill == {t \in Request \X (1 .. MaxTokens) : t[2] <= cost[t[1]]}
Billed == Cardinality(Bill) <= used

BrokerInv ==
  /\ BrokerTypeOK /\ Billed /\ Upward /\ Downward
  /\ \A r \in Request : Life(r) /\ Whole(r) /\ (client[r] = "done" /\ kind[r] \in ModelCall => r \in final)
  /\ shut => up = <<>> /\ down = <<>>

LEMMA TailOfQueue ==
  ASSUME NEW T, NEW q \in Seq(T), q # <<>>
  PROVE  /\ Tail(q) \in Seq(T) /\ Head(q) = q[1] /\ 1 \in DOMAIN q /\ Head(q) \in T
         /\ \A i \in DOMAIN Tail(q) : i + 1 \in DOMAIN q /\ i \in Nat /\ i > 0 /\ Tail(q)[i] = q[i + 1]
         /\ \A i \in DOMAIN q : i # 1 => i - 1 \in DOMAIN Tail(q) /\ Tail(q)[i - 1] = q[i]
<1>1. Len(q) \in Nat /\ Len(q) > 0 /\ DOMAIN q = 1 .. Len(q)
  OBVIOUS
<1>2. Tail(q) \in Seq(T) /\ Len(Tail(q)) = Len(q) - 1 /\ DOMAIN Tail(q) = 1 .. Len(q) - 1
  BY <1>1
<1>3. \A i \in 1 .. Len(q) - 1 : Tail(q)[i] = q[i + 1]
  BY <1>1
<1>4. Head(q) = q[1] /\ 1 \in DOMAIN q /\ Head(q) \in T
  BY <1>1
<1>5. \A i \in DOMAIN Tail(q) : i + 1 \in DOMAIN q /\ i \in Nat /\ i > 0 /\ Tail(q)[i] = q[i + 1]
  BY <1>1, <1>2, <1>3
<1>6. \A i \in DOMAIN q : i # 1 => i - 1 \in DOMAIN Tail(q) /\ Tail(q)[i - 1] = q[i]
  <2> SUFFICES ASSUME NEW i \in 1 .. Len(q), i # 1 PROVE i - 1 \in 1 .. Len(q) - 1 /\ Tail(q)[i - 1] = q[i]
    BY <1>1, <1>2
  <2>1. i - 1 \in 1 .. Len(q) - 1 /\ (i - 1) + 1 = i
    BY <1>1
  <2> QED BY <1>3, <2>1
<1> QED BY <1>2, <1>4, <1>5, <1>6

LEMMA EndOfQueue ==
  ASSUME NEW T, NEW q \in Seq(T), NEW e \in T
  PROVE  /\ Append(q, e) \in Seq(T) /\ DOMAIN Append(q, e) = DOMAIN q \cup {Len(q) + 1}
         /\ \A i \in DOMAIN q : i \in Nat /\ i < Len(q) + 1 /\ Append(q, e)[i] = q[i]
         /\ Append(q, e)[Len(q) + 1] = e /\ Len(q) \in Nat
<1>1. Len(q) \in Nat /\ DOMAIN q = 1 .. Len(q)
  OBVIOUS
<1>2. Append(q, e) \in Seq(T) /\ DOMAIN Append(q, e) = 1 .. Len(q) + 1
  BY <1>1
<1>3. (\A i \in 1 .. Len(q) : Append(q, e)[i] = q[i]) /\ Append(q, e)[Len(q) + 1] = e
  BY <1>1
<1> QED BY <1>1, <1>2, <1>3

LEMMA InQueue ==
  ASSUME NEW q \in Seq(Message) PROVE \A i \in DOMAIN q : q[i] \in Message /\ q[i].r \in Request /\ q[i].n \in Nat
<1>1. \A i \in DOMAIN q : q[i] \in Message
  OBVIOUS
<1>2. \A m \in Message : m.r \in Request /\ m.n \in Nat
  BY DEF Message
<1> QED BY <1>1, <1>2

LEMMA BrokerTypes ==
  ASSUME BrokerTypeOK
  PROVE  /\ used \in Nat /\ used <= MaxTokens /\ used \in 0 .. MaxTokens /\ used <= used
         /\ token \in {"active", "revoked"}
         /\ \A q \in Request : sent[q] \in Nat /\ got[q] \in Nat /\ tries[q] \in Nat /\ sent[q] <= MaxChunks + 1
BY BrokerAssumption DEF BrokerTypeOK, BrokerAssumption

\* A step concerns one request, and takes the handle from no other.
LEMMA OneRequest ==
  ASSUME BrokerInv, BrokerTypeOK', NEW r \in Request, Life(r)', kind' = kind,
         \A q \in Request \ {r} :
           /\ client'[q] = client[q] /\ got'[q] = got[q] /\ server'[q] = server[q] /\ sent'[q] = sent[q]
           /\ tries'[q] = tries[q] /\ cost'[q] = cost[q]
           /\ (q \in final' <=> q \in final) /\ (q \in aborted' => q \in aborted)
           /\ (busy = q => busy' = q)
  PROVE  \A q \in Request : Life(q)'
<1> SUFFICES ASSUME NEW q \in Request, q # r PROVE Life(q)'
  OBVIOUS
<1>1. Life(q)
  BY DEF BrokerInv
<1> QED BY <1>1 DEF Life

\* The parent goes on with a request it has admitted, and says nothing.
LEMMA InSilence ==
  ASSUME BrokerInv, NEW r \in Request, server[r] \notin {"none", "ended"}, NEW s, s # "none",
         server' = [server EXCEPT ![r] = s], final \subseteq final',
         UNCHANGED <<kind, client, got, up, down, sent, shut>>
  PROVE  /\ Upward' /\ Downward' /\ (shut' => up' = <<>> /\ down' = <<>>)
         /\ \A q \in Request : /\ Whole(q)'
                               /\ client'[q] = "done" /\ kind'[q] \in ModelCall => q \in final'
<1>1. BrokerTypeOK /\ Upward /\ Downward /\ (shut => up = <<>> /\ down = <<>>)
  BY DEF BrokerInv
<1>2. /\ \A i \in DOMAIN up : up[i].r \in Request
      /\ \A i \in DOMAIN down : down[i].r \in Request
  BY <1>1, InQueue DEF BrokerTypeOK
<1>3. \A q \in Request : /\ server[q] = "ended" => server'[q] = "ended"
                         /\ server[q] = "none" => server'[q] = "none"
  BY <1>1 DEF BrokerTypeOK
<1>4. Upward'
  BY <1>1, <1>2, <1>3 DEF Upward
<1>5. Downward'
  BY <1>1, <1>2, <1>3 DEF Downward, Fit
<1>6. \A q \in Request : Whole(q)'
  BY DEF BrokerInv, Whole
<1> QED BY <1>1, <1>4, <1>5, <1>6 DEF BrokerInv

LEMMA BillFinite == IsFiniteSet(Bill) /\ Cardinality(Bill) \in Nat
<1>1. 1 \in Int /\ MaxTokens \in Int /\ IsFiniteSet(Request)
  BY BrokerAssumption DEF BrokerAssumption
<1>2. IsFiniteSet(1 .. MaxTokens)
  BY <1>1, FS_Interval, Zenon
<1>3. IsFiniteSet(Request \X (1 .. MaxTokens))
  BY <1>1, <1>2, FS_Product
<1>4. Bill \in SUBSET (Request \X (1 .. MaxTokens))
  BY DEF Bill
<1> QED BY <1>3, <1>4, FS_Subset, FS_CardinalityType

\* What one more charge does to the bill.
LEMMA BillGrows ==
  ASSUME BrokerInv, NEW r \in Request, cost[r] = 0, NEW tokens \in 1 .. MaxTokens,
         cost' = [cost EXCEPT ![r] = tokens], used' = used + tokens
  PROVE  Billed'
<1> USE BrokerAssumption DEF BrokerAssumption
<1>1. BrokerTypeOK /\ Billed
  BY DEF BrokerInv
<1> DEFINE new == {r} \X (1 .. tokens)
<1>2. Bill' = Bill \cup new
  <2>1. /\ cost'[r] = tokens /\ \A q \in Request \ {r} : cost'[q] = cost[q]
        /\ \A k \in 1 .. MaxTokens : ~(k <= cost[r]) /\ (k <= tokens <=> k \in 1 .. tokens)
        /\ 1 .. tokens \subseteq 1 .. MaxTokens
    BY <1>1 DEF BrokerTypeOK
  <2>2. \A q \in Request, k \in 1 .. MaxTokens :
          <<q, k>> \in Bill' <=> <<q, k>> \in Bill \/ <<q, k>> \in new
    <3> TAKE q \in Request, k \in 1 .. MaxTokens
    <3>1. (<<q, k>> \in Bill' <=> k <= cost'[q]) /\ (<<q, k>> \in Bill <=> k <= cost[q])
      BY DEF Bill
    <3> QED BY <2>1, <3>1
  <2> QED BY <2>1, <2>2 DEF Bill
<1>3. Bill \cap new = {}
  BY <1>1 DEF Bill, BrokerTypeOK
<1>4. IsFiniteSet(Bill) /\ Cardinality(Bill) \in Nat
  BY BillFinite
<1>5. IsFiniteSet(1 .. tokens) /\ Cardinality(1 .. tokens) = tokens
  <2>1. 1 \in Int /\ tokens \in Int
    OBVIOUS
  <2>2. IsFiniteSet(1 .. tokens) /\ Cardinality(1 .. tokens) = IF 1 > tokens THEN 0 ELSE tokens - 1 + 1
    BY <2>1, FS_Interval, Zenon
  <2> QED BY <2>2
<1>6. IsFiniteSet({r}) /\ Cardinality({r}) = 1
  BY FS_Singleton
<1>7. IsFiniteSet(new) /\ Cardinality(new) = 1 * tokens
  <2>1. IsFiniteSet(new) /\ Cardinality(new) = Cardinality({r}) * Cardinality(1 .. tokens)
    BY <1>5, <1>6, FS_Product, Zenon
  <2> QED BY <1>5, <1>6, <2>1
<1>8. Cardinality(Bill \cup new) = Cardinality(Bill) + Cardinality(new) - Cardinality(Bill \cap new)
  BY <1>4, <1>7, FS_Union
<1>9. Cardinality(Bill') = Cardinality(Bill) + tokens
  <2>1. Cardinality(Bill \cap new) = 0
    BY <1>3, FS_EmptySet
  <2> HIDE DEF new
  <2> QED BY <1>2, <1>4, <1>7, <1>8, <2>1
<1> QED BY <1>1, <1>4, <1>9 DEF Billed, BrokerTypeOK

\* Nothing is charged, and nothing given back.
LEMMA BillStays ==
  ASSUME BrokerInv, UNCHANGED cost, BrokerTypeOK', used <= used'
  PROVE  Billed'
<1>1. Bill' = Bill /\ Cardinality(Bill) \in Nat /\ Cardinality(Bill) <= used
  BY BillFinite DEF Bill, BrokerInv, Billed
<1>2. used \in Nat /\ used' \in Nat
  BY BrokerAssumption DEF BrokerInv, BrokerTypeOK, BrokerAssumption
<1> QED BY <1>1, <1>2 DEF Billed

\* The parent goes on with a call: what each of its steps leaves to be shown.
LEMMA CallKeeps ==
  ASSUME BrokerInv, NEW r \in Request, NEW s \in ServerState, s # "none", Running(r),
         server' = [server EXCEPT ![r] = s],
         UNCHANGED <<kind, client, got, up, down, sent, shut, aborted>>,
         final \subseteq final', \A q \in Request \ {r} : q \in final' => q \in final,
         busy' = busy \/ (busy = r /\ busy' = 0) \/ busy' = r,
         \A q \in Request \ {r} : busy = q => busy' = q,
         tries' \in [Request -> 0 .. MaxTries], cost' \in [Request -> 0 .. MaxTokens],
         \A q \in Request \ {r} : tries'[q] = tries[q] /\ cost'[q] = cost[q],
         token' \in {"active", "revoked"}, late' \in BOOLEAN, used' \in 0 .. MaxTokens,
         final' \subseteq Request, Life(r)', Billed'
  PROVE  BrokerInv'
<1>1. BrokerTypeOK /\ server[r] \notin {"none", "ended"}
  BY DEF BrokerInv, Running
<1>2. BrokerTypeOK'
  BY <1>1 DEF BrokerTypeOK
<1>3. \A q \in Request : Life(q)'
  BY <1>1, <1>2, OneRequest DEF BrokerTypeOK
<1> QED BY <1>1, <1>2, <1>3, InSilence DEF BrokerInv

LEMMA FailsKeeps ==
  ASSUME BrokerInv, NEW r \in Request, Running(r), Fails(r),
         UNCHANGED <<kind, client, got, up, down, sent, shut, aborted, final, tries, cost>>,
         token' \in {"active", "revoked"}, late' = late, used' \in 0 .. MaxTokens, used <= used'
  PROVE  BrokerInv'
<1> USE BrokerAssumption DEF BrokerAssumption
<1>1. BrokerTypeOK /\ Life(r)
  BY DEF BrokerInv
<1>2. server' = [server EXCEPT ![r] = "failing"] /\ busy' = IF busy = r THEN 0 ELSE busy
  BY DEF Fails, SetServer
<1>3. Life(r)'
  BY <1>1, <1>2 DEF Life, BrokerTypeOK, InCall, Running
<1>4. BrokerTypeOK'
  BY <1>1, <1>2 DEF BrokerTypeOK, ServerState
<1>5. Billed'
  BY <1>4, BillStays
<1> QED BY <1>1, <1>2, <1>3, <1>5, CallKeeps DEF BrokerTypeOK, ServerState

LEMMA ProviderSteps ==
  ASSUME BrokerInv, NEW r \in Request,
         \/ Chunk(r) \/ Completed(r) \/ ProviderFails(r) \/ StreamEnds(r) \/ Interrupt(r)
         \/ StartCall(r) \/ TryAgain(r)
  PROVE  BrokerInv'
<1> USE BrokerAssumption DEF BrokerAssumption
<1>a. BrokerTypeOK /\ Life(r)
  BY DEF BrokerInv
<1>b. used \in Nat /\ used <= MaxTokens /\ r # 0
  BY <1>a DEF BrokerTypeOK
<1>1. CASE Chunk(r)
  <2>1. /\ server[r] = "calling" /\ r \notin final /\ (kind[r] = "stream" => sent[r] < MaxChunks) /\ kind[r] # "compact"
        /\ server' = [server EXCEPT ![r] = IF kind[r] = "mcp" THEN "last" ELSE "chunk"]
        /\ UNCHANGED <<kind, client, got, up, down, aborted, sent, final, tries, cost, token, late, used, busy, shut>>
    BY <1>1 DEF Chunk, childSide, handleVars, SetServer
  <2>2. kind[r] = "stream" \/ kind[r] = "mcp"
    BY <1>a, <2>1 DEF BrokerTypeOK, Kind, ModelCall
  <2>3. Life(r)'
    BY <1>a, <2>1, <2>2 DEF Life, BrokerTypeOK, InCall, ModelCall
  <2>4. BrokerTypeOK'
    BY <1>a, <2>1 DEF BrokerTypeOK, ServerState
  <2>5. Billed'
    BY <1>b, <2>1, <2>4, BillStays
  <2> QED BY <1>a, <2>1, <2>3, <2>5, CallKeeps DEF BrokerTypeOK, ServerState, Running
<1>2. CASE Completed(r)
  <2>1. PICK tokens \in {0, 1, MaxTokens} :
          IF tokens = 0 \/ Overrun(tokens)
            THEN /\ Fails(r) /\ token' = "revoked" /\ UNCHANGED <<final, cost>>
                 /\ used' = IF tokens = 0 THEN used ELSE MaxTokens
            ELSE /\ final' = final \cup {r} /\ cost' = [cost EXCEPT ![r] = tokens]
                 /\ used' = Min({used + tokens, MaxTokens})
                 /\ SetServer(r, IF kind[r] = "stream" THEN "chunk" ELSE "last")
                 /\ busy' = IF kind[r] = "stream" THEN r ELSE 0
                 /\ UNCHANGED token
    BY <1>2 DEF Completed
  <2>2. /\ server[r] = "calling" /\ kind[r] \in ModelCall /\ r \notin final
        /\ UNCHANGED <<kind, client, got, up, down, aborted, sent, tries, late, shut>>
    BY <1>2 DEF Completed, childSide
  <2>3. CASE tokens = 0 \/ Overrun(tokens)
    BY <1>b, <2>1, <2>2, <2>3, FailsKeeps DEF Running
  <2>4. CASE tokens # 0 /\ ~Overrun(tokens)
    <3>1. tokens \in 1 .. MaxTokens /\ used + tokens <= MaxTokens
      BY <1>b, <2>4 DEF Overrun
    <3>2. Min({used + tokens, MaxTokens}) = used + tokens
      BY <1>b, <3>1 DEF Min
    <3>3. /\ final' = final \cup {r} /\ cost' = [cost EXCEPT ![r] = tokens] /\ used' = used + tokens
          /\ server' = [server EXCEPT ![r] = IF kind[r] = "stream" THEN "chunk" ELSE "last"]
          /\ busy' = (IF kind[r] = "stream" THEN r ELSE 0) /\ token' = token
      BY <2>1, <2>4, <3>2 DEF SetServer
    <3>4. busy = r /\ cost[r] = 0
      BY <1>a, <2>2 DEF Life, InCall
    <3>5. Billed'
      BY <3>1, <3>3, <3>4, BillGrows
    <3>6. Life(r)'
      BY <1>a, <2>2, <3>3, <3>4 DEF Life, BrokerTypeOK, InCall, ModelCall
    <3>7. used' \in 0 .. MaxTokens /\ cost' \in [Request -> 0 .. MaxTokens]
      BY <1>a, <1>b, <3>1, <3>3 DEF BrokerTypeOK
    <3> QED BY <1>a, <2>2, <3>3, <3>4, <3>5, <3>6, <3>7, CallKeeps DEF BrokerTypeOK, ServerState, Running
  <2> QED BY <2>3, <2>4
<1>3. CASE ProviderFails(r)
  <2>1. /\ server[r] = "calling" /\ r \notin final
        /\ \/ /\ kind[r] \in ModelCall /\ Retry(r) /\ server' = [server EXCEPT ![r] = "delay"] /\ busy' = busy
           \/ Fails(r)
        /\ UNCHANGED <<kind, client, got, up, down, aborted, sent, final, tries, cost, token, late, used, shut>>
    BY <1>3 DEF ProviderFails, SetServer, childSide, handleVars
  <2>2. CASE Fails(r)
    BY <1>a, <1>b, <2>1, <2>2, FailsKeeps, BrokerTypes DEF Running
  <2>3. CASE /\ kind[r] \in ModelCall /\ Retry(r) /\ server' = [server EXCEPT ![r] = "delay"] /\ busy' = busy
    <3>1. Life(r)'
      BY <1>a, <2>1, <2>3 DEF Life, BrokerTypeOK, InCall, Retry
    <3>2. BrokerTypeOK'
      BY <1>a, <2>1, <2>3 DEF BrokerTypeOK, ServerState
    <3>3. Billed'
      BY <1>b, <2>1, <3>2, BillStays
    <3> QED BY <1>a, <2>1, <2>3, <3>1, <3>3, CallKeeps DEF BrokerTypeOK, ServerState, Running
  <2> QED BY <2>1, <2>2, <2>3
<1>4. CASE TryAgain(r)
  <2>1. /\ server[r] = "delay" /\ server' = [server EXCEPT ![r] = "calling"]
        /\ tries' = [tries EXCEPT ![r] = @ + 1]
        /\ UNCHANGED <<kind, client, got, up, down, aborted, sent, final, cost, token, late, used, busy, shut>>
    BY <1>4 DEF TryAgain, SetServer, childSide, handleVars
  <2>2. sent[r] = 0 /\ tries[r] + 1 \in 0 .. MaxTries
    BY <1>a, <2>1, BrokerTypes DEF Life
  <2>3. tries' \in [Request -> 0 .. MaxTries]
    BY <1>a, <2>1, <2>2 DEF BrokerTypeOK
  <2>4. Life(r)'
    BY <1>a, <2>1, <2>2 DEF Life, BrokerTypeOK, InCall
  <2>5. BrokerTypeOK'
    BY <1>a, <2>1, <2>3 DEF BrokerTypeOK, ServerState
  <2>6. Billed'
    BY <1>b, <2>1, <2>5, BillStays
  <2> QED BY <1>a, <2>1, <2>3, <2>4, <2>6, CallKeeps DEF BrokerTypeOK, ServerState, Running
<1>5. CASE StreamEnds(r)
  <2>1. /\ server[r] = "calling" /\ kind[r] = "stream"
        /\ UNCHANGED <<kind, client, got, up, down, aborted, sent, final, tries, cost, late, used, shut>>
    BY <1>5 DEF StreamEnds, childSide
  <2>2. CASE r \notin final
    <3>1. Fails(r) /\ token' = "revoked"
      BY <1>5, <2>2 DEF StreamEnds
    <3> QED BY <1>a, <2>1, <3>1, FailsKeeps, BrokerTypes DEF Running
  <2>3. CASE r \in final
    <3>1. server' = [server EXCEPT ![r] = "last"] /\ busy' = 0 /\ token' = token
      BY <1>5, <2>3 DEF StreamEnds, SetServer
    <3>2. busy = r
      BY <1>a, <2>1 DEF Life, InCall, ModelCall
    <3>3. Life(r)'
      BY <1>a, <2>1, <2>3, <3>1 DEF Life, BrokerTypeOK, InCall
    <3>4. BrokerTypeOK'
      BY <1>a, <2>1, <3>1 DEF BrokerTypeOK, ServerState
    <3>5. Billed'
      BY <1>b, <2>1, <3>4, BillStays
    <3> QED BY <1>a, <2>1, <3>1, <3>2, <3>3, <3>5, CallKeeps DEF BrokerTypeOK, ServerState, Running
  <2> QED BY <2>2, <2>3
<1>6. CASE Interrupt(r)
  <2>1. /\ server[r] \in {"calling", "delay"} /\ Fails(r)
        /\ UNCHANGED <<kind, client, got, up, down, aborted, sent, final, tries, cost, token, late, used, shut>>
    BY <1>6 DEF Interrupt, childSide, handleVars
  <2> QED BY <1>a, <2>1, FailsKeeps, BrokerTypes DEF Running
<1>7. CASE StartCall(r)
  <2>1. /\ server[r] = "starting" /\ server' = [server EXCEPT ![r] = "calling"]
        /\ tries' = [tries EXCEPT ![r] = 1]
        /\ UNCHANGED <<kind, client, got, up, down, aborted, sent, final, cost, token, late, used, busy, shut>>
    BY <1>7 DEF StartCall, SetServer, childSide, handleVars
  <2>2. tries' \in [Request -> 0 .. MaxTries]
    BY <1>a, <2>1 DEF BrokerTypeOK
  <2>3. Life(r)'
    BY <1>a, <2>1 DEF Life, BrokerTypeOK, InCall
  <2>4. BrokerTypeOK'
    BY <1>a, <2>1, <2>2 DEF BrokerTypeOK, ServerState
  <2>5. Billed'
    BY <1>b, <2>1, <2>4, BillStays
  <2> QED BY <1>a, <2>1, <2>2, <2>3, <2>5, CallKeeps DEF BrokerTypeOK, ServerState, Running
<1> QED BY <1>1, <1>2, <1>3, <1>4, <1>5, <1>6, <1>7

\* A message is written: a chunk, which the record counts, or the end of the answer.
LEMMA AnswerKeeps ==
  ASSUME BrokerInv, NEW r \in Request, Running(r), ~shut, NEW m \in Message, m.r = r, m.n = sent[r],
         down' = Append(down, m), server' \in [Request -> ServerState], sent' \in [Request -> 0 .. MaxChunks + 1],
         \A q \in Request \ {r} : server'[q] = server[q] /\ sent'[q] = sent[q],
         server'[r] # "none", sent'[r] = (IF m.type = "chunk" THEN sent[r] + 1 ELSE sent[r]),
         UNCHANGED <<kind, client, got, up, aborted, final, tries, cost, token, late, used, busy, shut>>,
         Life(r)', Fit(m)'
  PROVE  BrokerInv'
<1>a. BrokerTypeOK /\ Downward /\ Upward
  BY DEF BrokerInv
<1>b. sent[r] \in Nat /\ \A q \in Request : sent[q] \in Nat /\ got[q] \in Nat
  BY <1>a, BrokerAssumption DEF BrokerTypeOK, BrokerAssumption
<1>c. /\ \A i \in DOMAIN down : down[i] \in Message /\ down[i].r \in Request /\ down[i].n \in Nat
      /\ \A i \in DOMAIN up : up[i].r \in Request
  BY <1>a, InQueue DEF BrokerTypeOK
<1>d. /\ down' \in Seq(Message) /\ DOMAIN down' = DOMAIN down \cup {Len(down) + 1}
      /\ \A i \in DOMAIN down : i \in Nat /\ i < Len(down) + 1 /\ down'[i] = down[i]
      /\ down'[Len(down) + 1] = m /\ Len(down) \in Nat
  <2>1. down \in Seq(Message)
    BY <1>a DEF BrokerTypeOK
  <2> QED BY <2>1, EndOfQueue
<1>1. BrokerTypeOK'
  BY <1>a, <1>d DEF BrokerTypeOK
<1>2. \A q \in Request : Life(q)'
  BY <1>1, OneRequest
<1>3. Billed'
  BY <1>1, <1>b, BillStays DEF BrokerTypeOK
<1>4. Upward'
  BY <1>a, <1>c DEF Upward, Running
\* What was on its way is older.
<1>5. ASSUME NEW i \in DOMAIN down, NEW x \in Message, x = down[i]
      PROVE  Fit(x)' /\ (x.r = r => x.n < sent[r])
  <2>1. Fit(x) /\ x.r \in Request /\ x.n \in Nat
    BY <1>a, <1>c, <1>5 DEF Downward
  <2>2. x.r = r => x.type = "chunk" /\ x.n < sent[r]
    BY <2>1 DEF Fit, Running
  <2>3. sent'[r] >= sent[r]
    BY <1>b
  <2>4. CASE x.r = r
    BY <1>b, <2>1, <2>2, <2>3, <2>4 DEF Fit
  <2>5. CASE x.r # r
    BY <2>1, <2>5 DEF Fit
  <2> QED BY <2>2, <2>4, <2>5
<1>6. Downward'
  <2>1. (\A i \in DOMAIN down : Fit(down[i]))'
    <3>1. ASSUME NEW i \in DOMAIN down', NEW x \in Message, x = down'[i] PROVE Fit(x)'
      <4>1. CASE i = Len(down) + 1
        BY <1>d, <3>1, <4>1
      <4>2. CASE i \in DOMAIN down
        BY <1>d, <1>5, <3>1, <4>2
      <4> QED BY <1>d, <4>1, <4>2
    <3>2. \A i \in DOMAIN down' : down'[i] \in Message
      BY <1>d, InQueue
    <3> QED BY <3>1, <3>2 DEF Fit
  <2>2. ASSUME NEW i \in DOMAIN down', NEW j \in DOMAIN down', i < j, down'[i].r = down'[j].r
        PROVE  down'[i].n < down'[j].n
    <3>1. i \in DOMAIN down
      BY <1>d, <2>2
    <3>2. CASE j \in DOMAIN down
      BY <1>a, <1>d, <2>2, <3>1, <3>2 DEF Downward
    <3>3. CASE j = Len(down) + 1
      BY <1>c, <1>d, <1>5, <2>2, <3>1, <3>3
    <3> QED BY <1>d, <3>2, <3>3
  <2> QED BY <2>1, <2>2 DEF Downward
<1>7. ASSUME NEW q \in Request PROVE Whole(q)'
  <2> SUFFICES ASSUME client[q] = "waiting"
               PROVE  /\ \A i \in DOMAIN down' : down'[i].r = q => got[q] <= down'[i].n
                      /\ \A n \in Nat : got[q] <= n /\ n < sent'[q] =>
                           \E i \in DOMAIN down' : down'[i].r = q /\ down'[i].n = n
    BY DEF Whole
  <2>1. /\ \A i \in DOMAIN down : down[i].r = q => got[q] <= down[i].n
        /\ \A n \in Nat : got[q] <= n /\ n < sent[q] => \E i \in DOMAIN down : down[i].r = q /\ down[i].n = n
        /\ got[q] <= sent[q]
    BY DEF BrokerInv, Whole, Life
  <2>2. ASSUME NEW i \in DOMAIN down', down'[i].r = q PROVE got[q] <= down'[i].n
    BY <1>b, <1>d, <2>1, <2>2
  <2>3. ASSUME NEW n \in Nat, got[q] <= n, n < sent'[q]
        PROVE  \E i \in DOMAIN down' : down'[i].r = q /\ down'[i].n = n
    <3>1. CASE n < sent[q]
      BY <1>d, <2>1, <2>3, <3>1
    <3>2. CASE ~(n < sent[q])
      <4>1. q = r /\ n = sent[r]
        BY <1>b, <2>3, <3>2
      <4> QED BY <1>d, <4>1
    <3> QED BY <3>1, <3>2
  <2> QED BY <2>2, <2>3
<1> QED BY <1>1, <1>2, <1>3, <1>4, <1>6, <1>7 DEF BrokerInv

\* Nothing is on its way once the server is closed.
LEMMA ClosedKeeps ==
  ASSUME BrokerInv, shut, BrokerTypeOK', Billed', \A q \in Request : Life(q)',
         UNCHANGED <<kind, client, up, down, final, shut>>
  PROVE  BrokerInv'
<1>1. up = <<>> /\ down = <<>> /\ DOMAIN <<>> = {}
  BY DEF BrokerInv
<1>2. Upward' /\ Downward' /\ \A q \in Request : Whole(q)'
  BY <1>1 DEF Upward, Downward, Whole
<1> QED BY <1>1, <1>2 DEF BrokerInv

LEMMA WriteSteps ==
  ASSUME BrokerInv, NEW r \in Request, WriteChunk(r) \/ WriteEnd(r)
  PROVE  BrokerInv'
<1> USE BrokerAssumption DEF BrokerAssumption
<1>a. BrokerTypeOK /\ Life(r)
  BY DEF BrokerInv
<1>b. used \in Nat /\ sent[r] \in Nat
  BY <1>a DEF BrokerTypeOK
<1>1. CASE WriteChunk(r) /\ shut
  <2>1. /\ server[r] = "chunk" /\ Fails(r)
        /\ UNCHANGED <<kind, client, got, up, down, aborted, sent, final, tries, cost, token, late, used, shut>>
    BY <1>1 DEF WriteChunk, childSide, handleVars
  <2> QED BY <1>a, <2>1, FailsKeeps, BrokerTypes DEF Running
<1>2. CASE WriteChunk(r) /\ ~shut
  <2>m. PICK m \in Message : m = Msg(r, "chunk", sent[r])
    BY <1>b DEF Msg, Message
  <2>1. /\ server[r] = "chunk" /\ down' = Append(down, m) /\ sent' = [sent EXCEPT ![r] = @ + 1]
        /\ server' = [server EXCEPT ![r] = "calling"]
        /\ UNCHANGED <<kind, client, got, up, aborted, final, tries, cost, token, late, used, busy, shut>>
    BY <1>2, <2>m DEF WriteChunk, Say, SetServer, childSide, handleVars
  <2>2. sent[r] <= MaxChunks /\ (r \notin final => sent[r] < MaxChunks) /\ kind[r] = "stream" /\ busy = r
    BY <1>a, <2>1 DEF Life, InCall, ModelCall
  <2>3. /\ sent'[r] = sent[r] + 1 /\ server'[r] = "calling"
        /\ sent' \in [Request -> 0 .. MaxChunks + 1] /\ server' \in [Request -> ServerState]
    <3>1. sent \in [Request -> 0 .. MaxChunks + 1] /\ server \in [Request -> ServerState]
      BY <1>a DEF BrokerTypeOK
    <3>2. sent[r] + 1 \in 0 .. MaxChunks + 1
      BY <1>b, <2>2
    <3> QED BY <2>1, <3>1, <3>2 DEF ServerState
  <2>4. Life(r)'
    BY <1>a, <1>b, <2>1, <2>2, <2>3 DEF Life, InCall, BrokerTypeOK
  <2>5. m.r = r /\ m.n = sent[r] /\ m.type = "chunk"
    BY <2>m DEF Msg
  <2>6. Fit(m)'
    BY <1>b, <2>1, <2>2, <2>3, <2>5 DEF Fit
  <2> QED BY <1>a, <1>2, <2>1, <2>3, <2>4, <2>5, <2>6, AnswerKeeps DEF Running, BrokerTypeOK
<1>3. CASE WriteEnd(r)
  <2>t. Ending(r) \in {"done", "result", "failed"} /\ (Ending(r) # "failed" => server[r] # "failing")
    BY DEF Ending
  <2>m. PICK m \in Message : m = Msg(r, Ending(r), IF kind[r] = "stream" THEN sent[r] ELSE 0)
    <3>1. (IF kind[r] = "stream" THEN sent[r] ELSE 0) \in Nat
      BY <1>b
    <3> QED BY <2>t, <3>1 DEF Msg, Message
  <2>1. /\ server[r] \in {"last", "failing"} /\ down' = (IF shut THEN down ELSE Append(down, m))
        /\ server' = [server EXCEPT ![r] = "ended"]
        /\ UNCHANGED <<kind, client, got, up, aborted, sent, final, tries, cost, token, late, used, busy, shut>>
    BY <1>3, <2>m DEF WriteEnd, Say, SetServer, childSide, handleVars
  <2>2. server' \in [Request -> ServerState] /\ server'[r] = "ended" /\ \A q \in Request \ {r} : server'[q] = server[q]
    BY <1>a, <2>1 DEF BrokerTypeOK, ServerState
  <2>3. Life(r)'
    BY <1>a, <2>1, <2>2 DEF Life, InCall
  <2>4. CASE ~shut
    <3>1. m.r = r /\ m.type = Ending(r)
      BY <2>m DEF Msg
    <3>2. m.n = sent[r]
      BY <1>a, <1>b, <2>m DEF Life, Msg
    <3>4. m.type \in {"done", "result", "failed"} /\ (m.type \in {"done", "result"} => server[r] = "last")
      BY <2>1, <2>t, <3>1
    <3>5. Fit(m)'
      BY <1>a, <2>1, <2>2, <3>1, <3>2, <3>4 DEF Fit, Life
    <3> QED BY <1>a, <2>1, <2>2, <2>3, <2>4, <3>1, <3>2, <3>4, <3>5, AnswerKeeps DEF Running, BrokerTypeOK
  <2>5. CASE shut
    <3>1. BrokerTypeOK'
      BY <1>a, <2>1, <2>2, <2>5 DEF BrokerTypeOK
    <3>2. \A q \in Request : Life(q)'
      BY <2>1, <2>2, <2>3, <3>1, OneRequest
    <3>3. Billed'
      BY <1>b, <2>1, <3>1, BillStays
    <3> QED BY <2>1, <2>5, <3>1, <3>2, <3>3, ClosedKeeps
  <2> QED BY <2>4, <2>5
<1> QED BY <1>1, <1>2, <1>3

\* The child writes: an invoke, which is the first of its request, or a cancel.
LEMMA AskSteps ==
  ASSUME BrokerInv, NEW r \in Request, Invoke(r) \/ CancelRequest(r)
  PROVE  BrokerInv'
<1> USE BrokerAssumption DEF BrokerAssumption
<1>a. BrokerTypeOK /\ Life(r) /\ Upward /\ Downward
  BY DEF BrokerInv
<1>b. /\ ~shut /\ client[r] \in {"new", "waiting"}
      /\ client' = [client EXCEPT ![r] = IF client[r] = "new" THEN "waiting" ELSE "cancelled"]
      /\ up' = Append(up, Msg(r, IF client[r] = "new" THEN "invoke" ELSE "cancel", 0))
      /\ UNCHANGED <<kind, got, down, server, aborted, sent, final, tries, cost, token, late, used, busy, shut>>
  BY DEF Invoke, CancelRequest, SetClient, handleVars
<1>m. PICK m \in Message : m = Msg(r, IF client[r] = "new" THEN "invoke" ELSE "cancel", 0)
  <2>1. \A t \in {"invoke", "cancel"} : Msg(r, t, 0) \in Message
    BY DEF Msg, Message
  <2> QED BY <2>1
<1>c. m.r = r /\ m.type = IF client[r] = "new" THEN "invoke" ELSE "cancel"
  BY <1>m DEF Msg
<1>d. /\ up' \in Seq(Message) /\ DOMAIN up' = DOMAIN up \cup {Len(up) + 1}
      /\ \A i \in DOMAIN up : i \in Nat /\ i < Len(up) + 1 /\ up'[i] = up[i]
      /\ up'[Len(up) + 1] = m /\ Len(up) \in Nat
  <2>1. up \in Seq(Message) /\ up' = Append(up, m)
    BY <1>a, <1>b, <1>m DEF BrokerTypeOK
  <2> QED BY <2>1, EndOfQueue
<1>e. /\ client' \in [Request -> ClientState] /\ client'[r] \in {"waiting", "cancelled"}
      /\ client'[r] = "waiting" => client[r] = "new"
      /\ \A q \in Request \ {r} : client'[q] = client[q]
  BY <1>a, <1>b DEF BrokerTypeOK, ClientState
<1>1. BrokerTypeOK'
  BY <1>a, <1>b, <1>d, <1>e DEF BrokerTypeOK
<1>2. Life(r)'
  BY <1>a, <1>b, <1>e DEF Life, InCall
<1>3. \A q \in Request : Life(q)'
  BY <1>1, <1>2, <1>b, <1>e, OneRequest
<1>4. Billed'
  <2>1. used <= used'
    BY <1>a, <1>b DEF BrokerTypeOK
  <2> QED BY <1>1, <1>b, <2>1, BillStays
<1>5. Downward'
  BY <1>a, <1>b DEF Downward, Fit
<1>6. Upward'
  <2>1. \A i \in DOMAIN up : up[i].r \in Request
    BY <1>a, InQueue DEF BrokerTypeOK
  <2>2. ASSUME NEW i \in DOMAIN up'
        PROVE  /\ up'[i].type \in {"invoke", "cancel"} /\ client'[up'[i].r] # "new"
               /\ up'[i].type = "invoke" => server'[up'[i].r] = "none"
    <3>1. CASE i = Len(up) + 1
      BY <1>a, <1>b, <1>c, <1>d, <1>e, <3>1 DEF Life
    <3>2. CASE i \in DOMAIN up
      BY <1>a, <1>b, <1>d, <1>e, <2>1, <3>2 DEF Upward
    <3> QED BY <1>d, <3>1, <3>2
  <2>3. \A i \in DOMAIN up : m.type = "invoke" => up[i].r # r
    BY <1>a, <1>b, <1>c DEF Upward
  <2>4. ASSUME NEW i \in DOMAIN up', NEW j \in DOMAIN up', i # j, up'[i].type = "invoke", up'[j].type = "invoke"
        PROVE  up'[i].r # up'[j].r
    <3>1. CASE i \in DOMAIN up /\ j \in DOMAIN up
      BY <1>a, <1>d, <2>4, <3>1 DEF Upward
    <3>2. CASE i = Len(up) + 1
      BY <1>c, <1>d, <2>3, <2>4, <3>2
    <3>3. CASE j = Len(up) + 1
      BY <1>c, <1>d, <2>3, <2>4, <3>3
    <3> QED BY <1>d, <3>1, <3>2, <3>3
  <2> QED BY <2>2, <2>4 DEF Upward
<1>7. ASSUME NEW q \in Request PROVE Whole(q)'
  <2>1. CASE q # r
    BY <1>b, <1>e, <2>1 DEF BrokerInv, Whole
  <2>2. CASE q = r
    <3> SUFFICES ASSUME client[r] = "new" PROVE Whole(r)'
      BY <1>e, <2>2 DEF Whole
    <3>1. server[r] = "none" /\ sent[r] = 0 /\ got[r] = 0
      BY <1>a DEF Life, BrokerTypeOK
    <3>2. \A i \in DOMAIN down : down[i].r # r
      <4> SUFFICES ASSUME NEW i \in DOMAIN down, down[i].r = r PROVE FALSE
        OBVIOUS
      <4>1. Fit(down[i]) /\ down[i].n \in Nat
        BY <1>a, InQueue DEF Downward, BrokerTypeOK
      <4> QED BY <3>1, <4>1 DEF Fit
    <3> QED BY <1>b, <3>1, <3>2 DEF Whole
  <2> QED BY <2>1, <2>2
<1>8. \A q \in Request : client'[q] = "done" /\ kind'[q] \in ModelCall => q \in final'
  BY <1>b, <1>e DEF BrokerInv
<1> QED BY <1>1, <1>3, <1>4, <1>5, <1>6, <1>7, <1>8, <1>b DEF BrokerInv

\* The child reads: what it finds for a request it waits for is the next of its answer.
LEMMA ChildReads == BrokerInv /\ ChildReceive => BrokerInv'
<1> SUFFICES ASSUME BrokerInv, ChildReceive PROVE BrokerInv'
  OBVIOUS
<1> USE BrokerAssumption DEF BrokerAssumption
<1>a. BrokerTypeOK /\ Upward /\ Downward
  BY DEF BrokerInv
<1>b. /\ down # <<>> /\ down' = Tail(down)
      /\ UNCHANGED <<kind, up, server, aborted, sent, final, tries, cost, token, late, used, busy, shut>>
  BY DEF ChildReceive, handleVars
<1>m. PICK m \in Message : m = Head(down)
  BY <1>a, <1>b, TailOfQueue DEF BrokerTypeOK
<1>c. /\ down' \in Seq(Message) /\ m = down[1] /\ 1 \in DOMAIN down
      /\ \A i \in DOMAIN down' : i + 1 \in DOMAIN down /\ i \in Nat /\ i > 0 /\ down'[i] = down[i + 1]
      /\ \A i \in DOMAIN down : i # 1 => i - 1 \in DOMAIN down' /\ down'[i - 1] = down[i]
  BY <1>a, <1>b, <1>m, TailOfQueue DEF BrokerTypeOK
<1> DEFINE r == m.r
<1>d. /\ r \in Request /\ m.n \in Nat /\ Fit(m) /\ ~shut
      /\ \A i \in DOMAIN down : down[i] \in Message /\ down[i].r \in Request /\ down[i].n \in Nat /\ i \in Nat /\ i >= 1
      /\ \A q \in Request : got[q] \in Nat /\ sent[q] \in Nat
  <2>1. r \in Request /\ m.n \in Nat
    BY DEF Message
  <2>2. \A i \in DOMAIN down : down[i] \in Message /\ down[i].r \in Request /\ down[i].n \in Nat
    BY <1>a, InQueue DEF BrokerTypeOK
  <2>3. down \in Seq(Message)
    BY <1>a DEF BrokerTypeOK
  <2>4. \A i \in DOMAIN down : i \in Nat /\ i >= 1
    BY <2>3
  <2>5. Fit(m) /\ ~shut
    BY <1>a, <1>b, <1>c DEF Downward, BrokerInv
  <2>6. \A q \in Request : got[q] \in Nat /\ sent[q] \in Nat
    BY <1>a DEF BrokerTypeOK
  <2> QED BY <2>1, <2>2, <2>4, <2>5, <2>6
<1>e. Life(r) /\ Whole(r)
  BY <1>d DEF BrokerInv
\* Nothing is missing before it.
<1>1. client[r] = "waiting" => m.n = got[r]
  <2> SUFFICES ASSUME client[r] = "waiting", m.n # got[r] PROVE FALSE
    OBVIOUS
  <2>0. /\ \A i \in DOMAIN down : down[i].r = r => got[r] <= down[i].n
        /\ \A n \in Nat : got[r] <= n /\ n < sent[r] => \E i \in DOMAIN down : down[i].r = r /\ down[i].n = n
        /\ got[r] \in Nat /\ sent[r] \in Nat
    <3> HIDE DEF r
    <3> QED BY <1>d, <1>e DEF Whole
  <2>1. got[r] < m.n
    <3>1. got[r] <= m.n
      BY <1>c, <2>0
    <3> QED BY <1>d, <2>0, <3>1
  <2>2. m.n <= sent[r]
    BY <1>d, <2>0 DEF Fit
  <2>3. PICK i \in DOMAIN down : down[i].r = r /\ down[i].n = got[r]
    <3>1. got[r] < sent[r] /\ got[r] <= got[r]
      BY <1>d, <2>0, <2>1, <2>2
    <3> HIDE DEF r
    <3> QED BY <2>0, <3>1
  <2>4. i # 1 /\ 1 < i
    BY <1>c, <1>d, <2>1, <2>3
  <2>5. m.n < got[r]
    BY <1>a, <1>c, <2>3, <2>4 DEF Downward
  <2> QED BY <1>d, <2>1, <2>5
<1>2. \/ client[r] # "waiting" /\ UNCHANGED <<client, got>>
      \/ /\ client[r] = "waiting" /\ m.type = "chunk"
         /\ got' = [got EXCEPT ![r] = @ + 1] /\ UNCHANGED client
      \/ /\ client[r] = "waiting" /\ m.type # "chunk" /\ UNCHANGED got
         /\ client' = [client EXCEPT ![r] = IF m.type = "failed" THEN "failed" ELSE "done"]
  BY <1>m, <1>1 DEF ChildReceive, SetClient
<1> HIDE DEF r
<1>3. m.type = "chunk" => m.n < sent[r] /\ kind[r] = "stream"
  BY <1>d DEF Fit, r
<1>4. /\ client' \in [Request -> ClientState] /\ got' \in [Request -> 0 .. MaxChunks + 1]
      /\ \A q \in Request \ {r} : client'[q] = client[q] /\ got'[q] = got[q]
      /\ client'[r] = client[r] \/ (client[r] = "waiting" /\ client'[r] \in {"failed", "done"})
      /\ got'[r] <= sent[r]
  <2>1. CASE client[r] # "waiting" /\ UNCHANGED <<client, got>>
    BY <1>a, <1>d, <1>e, <2>1 DEF BrokerTypeOK, Life
  <2>2. CASE /\ client[r] = "waiting" /\ m.type = "chunk"
             /\ got' = [got EXCEPT ![r] = @ + 1] /\ UNCHANGED client
    <3>1. got[r] + 1 <= sent[r] /\ sent[r] <= MaxChunks + 1
      BY <1>a, <1>d, <1>1, <1>3, <2>2, BrokerTypes
    <3>2. got \in [Request -> 0 .. MaxChunks + 1] /\ client \in [Request -> ClientState]
      BY <1>a DEF BrokerTypeOK
    <3>3. got[r] + 1 \in 0 .. MaxChunks + 1
      BY <1>d, <3>1
    <3> QED BY <1>d, <2>2, <3>1, <3>2, <3>3
  <2>3. CASE /\ client[r] = "waiting" /\ m.type # "chunk" /\ UNCHANGED got
             /\ client' = [client EXCEPT ![r] = IF m.type = "failed" THEN "failed" ELSE "done"]
    BY <1>a, <1>d, <1>e, <2>3 DEF BrokerTypeOK, ClientState, Life
  <2> QED BY <1>2, <2>1, <2>2, <2>3
<1>5. BrokerTypeOK'
  BY <1>a, <1>b, <1>c, <1>4 DEF BrokerTypeOK
<1>6. Life(r)'
  BY <1>b, <1>e, <1>4 DEF Life, InCall
<1>7. \A q \in Request : Life(q)'
  BY <1>b, <1>d, <1>4, <1>5, <1>6, OneRequest
<1>8. Billed'
  BY <1>a, <1>b, <1>5, BillStays, BrokerTypes
<1>9. Upward'
  <2>1. \A i \in DOMAIN up : up[i].r \in Request
    BY <1>a, InQueue DEF BrokerTypeOK
  <2>2. \A q \in Request : client'[q] = "new" => client[q] = "new"
    BY <1>4
  <2>3. UNCHANGED <<up, server>> /\ Upward
    BY <1>a, <1>b
  <2> QED BY <2>1, <2>2, <2>3 DEF Upward
<1>10. Downward'
  <2>1. (\A i \in DOMAIN down : Fit(down[i]))'
    BY <1>a, <1>b, <1>c DEF Downward, Fit
  <2>2. ASSUME NEW i \in DOMAIN down', NEW j \in DOMAIN down', i < j, down'[i].r = down'[j].r
        PROVE  down'[i].n < down'[j].n
    <3>1. i + 1 \in DOMAIN down /\ j + 1 \in DOMAIN down /\ i + 1 < j + 1
      BY <1>c, <2>2
    <3> QED BY <1>a, <1>c, <2>2, <3>1 DEF Downward
  <2> QED BY <2>1, <2>2 DEF Downward
<1>11. ASSUME NEW q \in Request PROVE Whole(q)'
  <2> SUFFICES ASSUME client'[q] = "waiting"
               PROVE  /\ \A i \in DOMAIN down' : down'[i].r = q => got'[q] <= down'[i].n
                      /\ \A n \in Nat : got'[q] <= n /\ n < sent[q] =>
                           \E i \in DOMAIN down' : down'[i].r = q /\ down'[i].n = n
    BY <1>b DEF Whole
  <2>1. client[q] = "waiting" /\ got'[q] \in Nat
    BY <1>4
  <2>2. /\ \A i \in DOMAIN down : down[i].r = q => got[q] <= down[i].n
        /\ \A n \in Nat : got[q] <= n /\ n < sent[q] => \E i \in DOMAIN down : down[i].r = q /\ down[i].n = n
    BY <1>d, <2>1 DEF BrokerInv, Whole
  <2>3. /\ q # r => got'[q] = got[q]
        /\ q = r => got'[q] = got[q] + 1 /\ m.n = got[q]
    <3>1. client \in [Request -> ClientState] /\ got \in [Request -> 0 .. MaxChunks + 1]
      BY <1>a DEF BrokerTypeOK
    <3>2. q = r => got' = [got EXCEPT ![r] = @ + 1]
      BY <1>2, <1>d, <2>1, <3>1
    <3> QED BY <1>1, <1>4, <2>1, <3>1, <3>2
  <2>4. ASSUME NEW i \in DOMAIN down', down'[i].r = q PROVE got'[q] <= down'[i].n
    <3>1. i + 1 \in DOMAIN down /\ 1 < i + 1 /\ down'[i] = down[i + 1] /\ down[i + 1].n \in Nat
      BY <1>c, <1>d, <2>4
    <3>2. CASE q # r
      BY <2>2, <2>3, <2>4, <3>1, <3>2
    <3>3. CASE q = r
      <4>1. m.n < down[i + 1].n
        BY <1>a, <1>c, <2>4, <3>1, <3>3 DEF Downward, r
      <4> QED BY <1>d, <2>3, <3>1, <3>3, <4>1
    <3> QED BY <3>2, <3>3
  <2>5. ASSUME NEW n \in Nat, got'[q] <= n, n < sent[q]
        PROVE  \E i \in DOMAIN down' : down'[i].r = q /\ down'[i].n = n
    <3>1. got[q] <= n /\ (q = r => n # m.n)
      BY <1>d, <2>1, <2>3, <2>5
    <3>2. PICK i \in DOMAIN down : down[i].r = q /\ down[i].n = n
      BY <2>2, <2>5, <3>1
    <3>3. i # 1
      BY <1>c, <3>1, <3>2 DEF r
    <3> QED BY <1>c, <3>2, <3>3
  <2> QED BY <2>4, <2>5
<1>12. \A q \in Request : client'[q] = "done" /\ kind'[q] \in ModelCall => q \in final'
  <2>1. \A q \in Request \ {r} : client'[q] = client[q]
    BY <1>4
  <2>2. client'[r] = "done" /\ client[r] # "done" => m.type \in {"done", "result"}
    BY <1>a, <1>2, <1>d DEF Fit, BrokerTypeOK
  <2> QED BY <1>b, <1>d, <2>1, <2>2 DEF BrokerInv, Fit, r
<1> QED BY <1>5, <1>7, <1>8, <1>9, <1>10, <1>11, <1>12, <1>b, <1>d DEF BrokerInv

\* The parent reads: an invoke is of a request it has not seen, and takes the handle only
\* when nobody has it.
LEMMA ParentReads == BrokerInv /\ ParentReceive => BrokerInv'
<1> SUFFICES ASSUME BrokerInv, ParentReceive PROVE BrokerInv'
  OBVIOUS
<1> USE BrokerAssumption DEF BrokerAssumption
<1>a. BrokerTypeOK /\ Upward /\ Downward
  BY DEF BrokerInv
<1>b. /\ up # <<>> /\ up' = Tail(up)
      /\ UNCHANGED <<kind, client, got, down, sent, final, tries, cost, token, late, used, shut>>
  BY DEF ParentReceive, childSide, handleVars
<1>m. PICK m \in Message : m = Head(up)
  BY <1>a, <1>b, TailOfQueue DEF BrokerTypeOK
<1>c. /\ up' \in Seq(Message) /\ m = up[1] /\ 1 \in DOMAIN up
      /\ \A i \in DOMAIN up' : i + 1 \in DOMAIN up /\ i \in Nat /\ i > 0 /\ up'[i] = up[i + 1]
  BY <1>a, <1>b, <1>m, TailOfQueue DEF BrokerTypeOK
<1>r. PICK r \in Request : r = m.r
  BY DEF Message
<1>d. /\ client[r] # "new" /\ (m.type = "invoke" => server[r] = "none") /\ Life(r) /\ r # 0
      /\ \A i \in DOMAIN up : up[i].r \in Request
      /\ \A i \in DOMAIN down : down[i].r \in Request
      /\ \A i \in DOMAIN up' : up'[i].type = "invoke" /\ m.type = "invoke" => up'[i].r # r
  <2>1. \A i \in DOMAIN up' : up'[i].type = "invoke" /\ m.type = "invoke" => up'[i].r # r
    BY <1>a, <1>c, <1>r DEF Upward
  <2>2. /\ \A i \in DOMAIN up : up[i].r \in Request
        /\ \A i \in DOMAIN down : down[i].r \in Request
    BY <1>a, InQueue DEF BrokerTypeOK
  <2>3. client[r] # "new" /\ (m.type = "invoke" => server[r] = "none") /\ Life(r) /\ r # 0
    BY <1>a, <1>c, <1>r DEF Upward, BrokerInv
  <2> QED BY <2>1, <2>2, <2>3
<1>e. \/ /\ m.type = "cancel" /\ UNCHANGED <<server, busy>>
         /\ aborted' = IF Running(r) THEN aborted \cup {r} ELSE aborted
      \/ m.type = "invoke" /\ Admit(r) /\ UNCHANGED aborted
  BY <1>m, <1>r DEF ParentReceive
\* What it makes of the request.
<1>1. /\ server' \in [Request -> ServerState] /\ aborted' \subseteq Request
      /\ busy' \in Request \cup {0}
      /\ \A q \in Request \ {r} : /\ server'[q] = server[q]
                                  /\ (q \in aborted' => q \in aborted) /\ (busy = q => busy' = q)
      /\ server'[r] = server[r] \/ (m.type = "invoke" /\ server[r] = "none")
      /\ Life(r)'
  <2>1. CASE /\ m.type = "cancel" /\ UNCHANGED <<server, busy>>
             /\ aborted' = IF Running(r) THEN aborted \cup {r} ELSE aborted
    BY <1>a, <1>b, <1>d, <2>1 DEF BrokerTypeOK, Life, Running, InCall
  <2>2. CASE m.type = "invoke" /\ Admit(r) /\ UNCHANGED aborted
    <3>1. /\ server[r] = "none" /\ sent[r] = 0 /\ got[r] <= sent[r] /\ r \notin final /\ r \notin aborted
          /\ cost[r] = 0 /\ client[r] \notin {"new", "invalid"} /\ tries[r] = 0
      BY <1>d, <2>2 DEF Life
    <3>2. CASE kind[r] \in ModelCall /\ Authorized
      <4>1. server' = [server EXCEPT ![r] = "starting"] /\ busy = 0 /\ busy' = r
        BY <2>2, <3>2 DEF Admit, Authorized, SetServer
      <4>2. /\ server' \in [Request -> ServerState] /\ server'[r] = "starting"
            /\ \A q \in Request \ {r} : server'[q] = server[q]
        BY <1>a, <4>1 DEF BrokerTypeOK, ServerState
      <4>3. Life(r)'
        BY <1>b, <1>d, <2>2, <3>1, <4>1, <4>2 DEF Life, InCall
      <4> QED BY <1>a, <1>d, <2>2, <3>1, <4>1, <4>2, <4>3 DEF BrokerTypeOK
    <3>3. CASE ~(kind[r] \in ModelCall /\ Authorized)
      <4>1. PICK s \in {"calling", "failing"} :
               /\ server' = [server EXCEPT ![r] = s] /\ UNCHANGED busy
               /\ s = "calling" => kind[r] \notin ModelCall
        BY <2>2, <3>3 DEF Admit, SetServer
      <4>2. /\ server' \in [Request -> ServerState] /\ server'[r] = s
            /\ \A q \in Request \ {r} : server'[q] = server[q]
        BY <1>a, <4>1 DEF BrokerTypeOK, ServerState
      <4>3. Life(r)'
        BY <1>b, <1>d, <2>2, <3>1, <4>1, <4>2 DEF Life, InCall
      <4> QED BY <1>a, <1>d, <2>2, <3>1, <4>1, <4>2, <4>3 DEF BrokerTypeOK
    <3> QED BY <3>2, <3>3
  <2> QED BY <1>e, <2>1, <2>2
<1>2. BrokerTypeOK'
  BY <1>a, <1>b, <1>c, <1>1 DEF BrokerTypeOK
<1>3. \A q \in Request : Life(q)'
  BY <1>b, <1>1, <1>2, OneRequest
<1>4. Billed'
  <2>1. used <= used'
    BY <1>a, <1>b DEF BrokerTypeOK
  <2> QED BY <1>2, <1>b, <2>1, BillStays
<1>5. Upward'
  <2>1. ASSUME NEW i \in DOMAIN up'
        PROVE  /\ up'[i].type \in {"invoke", "cancel"} /\ client'[up'[i].r] # "new"
               /\ up'[i].type = "invoke" => server'[up'[i].r] = "none"
    <3>1. /\ up[i + 1].type \in {"invoke", "cancel"} /\ client[up[i + 1].r] # "new"
          /\ up[i + 1].type = "invoke" => server[up[i + 1].r] = "none"
      BY <1>a, <1>c DEF Upward
    <3>2. i + 1 \in DOMAIN up /\ up'[i] = up[i + 1] /\ up[i + 1].r \in Request /\ client' = client
      BY <1>b, <1>c, <1>d
    <3>3. up[i + 1].type = "invoke" => server'[up[i + 1].r] = server[up[i + 1].r]
      <4>1. /\ \A q \in Request \ {r} : server'[q] = server[q]
            /\ server'[r] = server[r] \/ m.type = "invoke"
        BY <1>1
      <4>2. up[i + 1].type = "invoke" /\ m.type = "invoke" => up[i + 1].r # r
        BY <1>d, <3>2
      <4>3. \A x \in Request : (m.type = "invoke" => x # r) => server'[x] = server[x]
        BY <4>1
      <4> QED BY <3>2, <4>2, <4>3
    <3> QED BY <3>1, <3>2, <3>3
  <2>2. ASSUME NEW i \in DOMAIN up', NEW j \in DOMAIN up', i # j, up'[i].type = "invoke", up'[j].type = "invoke"
        PROVE  up'[i].r # up'[j].r
    <3>1. i + 1 \in DOMAIN up /\ j + 1 \in DOMAIN up /\ i + 1 # j + 1
      BY <1>c, <2>2
    <3> QED BY <1>a, <1>c, <2>2, <3>1 DEF Upward
  <2> QED BY <2>1, <2>2 DEF Upward
<1>6. Downward'
  <2>1. \A q \in Request : server[q] = "ended" => server'[q] = "ended"
    BY <1>1
  <2> QED BY <1>a, <1>b, <1>d, <2>1 DEF Downward, Fit
<1>7. \A q \in Request : Whole(q)'
  BY <1>b DEF BrokerInv, Whole
<1>8. ~shut
  BY <1>b DEF BrokerInv
<1> QED BY <1>2, <1>3, <1>4, <1>5, <1>6, <1>7, <1>8, <1>b DEF BrokerInv

\* The handle is revoked, its deadline passes, or the channel is closed.
LEMMA OutsideSteps == BrokerInv /\ (Revoke \/ Expire \/ Shut) => BrokerInv'
<1> SUFFICES ASSUME BrokerInv, Revoke \/ Expire \/ Shut PROVE BrokerInv'
  OBVIOUS
<1> USE BrokerAssumption DEF BrokerAssumption
<1>a. BrokerTypeOK /\ Upward /\ Downward /\ Billed /\ \A r \in Request : Life(r) /\ Whole(r)
  BY DEF BrokerInv
<1>1. CASE Revoke \/ Expire
  <2>1. /\ token' \in {"active", "revoked"} /\ late' \in BOOLEAN
        /\ UNCHANGED <<kind, client, got, up, down, server, aborted, sent, final, tries, cost, busy, used, shut>>
    BY <1>a, <1>1 DEF Revoke, Expire, childSide, BrokerTypeOK
  <2>2. BrokerTypeOK'
    BY <1>a, <2>1 DEF BrokerTypeOK
  <2>3. \A r \in Request : Life(r)' /\ Whole(r)'
    BY <1>a, <2>1 DEF Life, Whole
  <2>4. Upward' /\ Downward'
    BY <1>a, <2>1 DEF Upward, Downward, Fit
  <2>5. Billed'
    BY <1>a, <2>1 DEF Billed, Bill
  <2> QED BY <2>1, <2>2, <2>3, <2>4, <2>5 DEF BrokerInv
<1>2. CASE Shut
  <2>1. /\ shut' = TRUE /\ aborted' = aborted \cup {r \in Request : Running(r)} /\ up' = <<>> /\ down' = <<>>
        /\ UNCHANGED <<kind, client, got, server, sent, final, tries, cost, token, late, used, busy>>
    BY <1>2 DEF Shut, childSide, handleVars
  <2>2. BrokerTypeOK'
    <3>1. up' \in Seq(Message) /\ down' \in Seq(Message)
      BY <2>1
    <3>2. aborted' \subseteq Request
      BY <1>a, <2>1 DEF BrokerTypeOK
    <3> QED BY <1>a, <2>1, <3>1, <3>2 DEF BrokerTypeOK
  <2>3. \A r \in Request : Life(r)' /\ Whole(r)'
    BY <1>a, <2>1 DEF Life, Whole, Running
  <2>4. Upward' /\ Downward'
    BY <2>1 DEF Upward, Downward
  <2>5. Billed'
    BY <1>a, <2>1 DEF Billed, Bill
  <2> QED BY <2>1, <2>2, <2>3, <2>4, <2>5 DEF BrokerInv
<1> QED BY <1>1, <1>2

LEMMA BrokerInvariant == BrokerInit /\ [][BrokerNext]_brokerVars => []BrokerInv
<1> USE BrokerAssumption DEF BrokerAssumption
<1>1. BrokerInit => BrokerInv
  <2> SUFFICES ASSUME BrokerInit PROVE BrokerInv
    OBVIOUS
  <2>1. DOMAIN up = {} /\ DOMAIN down = {} /\ up \in Seq(Message) /\ down \in Seq(Message)
    BY DEF BrokerInit
  <2>2. BrokerTypeOK
    <3>1. kind \in [Request -> Kind] /\ 0 \in 0 .. MaxChunks + 1 /\ 0 \in 0 .. MaxTries /\ 0 \in 0 .. MaxTokens
      BY DEF BrokerInit
    <3> QED BY <2>1, <3>1 DEF BrokerInit, BrokerTypeOK, ClientState, ServerState
  <2>3. Upward /\ Downward
    BY <2>1 DEF Upward, Downward
  <2>4. \A r \in Request : Life(r) /\ Whole(r) /\ client[r] # "done"
    BY <2>1 DEF BrokerInit, Life, Whole, InCall
  <2>5. Billed
    <3>1. Bill = {}
      BY DEF BrokerInit, Bill
    <3> QED BY <3>1, FS_EmptySet DEF Billed, BrokerInit
  <2> QED BY <2>2, <2>3, <2>4, <2>5 DEF BrokerInv, BrokerInit
<1>2. BrokerInv /\ [BrokerNext]_brokerVars => BrokerInv'
  <2> SUFFICES ASSUME BrokerInv, [BrokerNext]_brokerVars PROVE BrokerInv'
    OBVIOUS
  <2>1. CASE UNCHANGED brokerVars
    <3>1. /\ BrokerTypeOK' = BrokerTypeOK /\ Bill' = Bill /\ Billed' = Billed
          /\ Upward' = Upward /\ Downward' = Downward
      BY <2>1 DEF brokerVars, BrokerTypeOK, Bill, Billed, Upward, Downward, Fit
    <3>2. \A r \in Request : Life(r)' = Life(r) /\ Whole(r)' = Whole(r)
      BY <2>1 DEF brokerVars, Life, Whole
    <3> QED BY <2>1, <3>1, <3>2 DEF brokerVars, BrokerInv
  <2>2. CASE BrokerNext
    BY <2>2, ProviderSteps, WriteSteps, AskSteps, ChildReads, ParentReads, OutsideSteps DEF BrokerNext, ServerStep
  <2> QED BY <2>1, <2>2
<1> QED BY <1>1, <1>2, PTL

\* Whatever requests a child makes, cancels and overlaps, however often the provider fails
\* and the parent tries again, and whenever the handle is revoked, expires or the channel
\* closes: an answer has no gap, the complete ones were paid for within the budget, and one
\* model call runs at a time (InMemoryChildCredentialBroker, the two ends of the channel).
THEOREM ChannelIsSound == BrokerSpec => []ChannelSound
<1> USE BrokerAssumption DEF BrokerAssumption
<1>1. BrokerInv => ChannelSound
  <2> SUFFICES ASSUME BrokerInv PROVE ChannelSound
    OBVIOUS
  <2>1. BrokerTypeOK /\ Billed /\ \A r \in Request : Life(r)
    BY DEF BrokerInv
  <2>2. NoGap
    BY <2>1 DEF NoGap, Life
  <2>3. OneCall
    BY <2>1 DEF OneCall, Life, InCall
  <2>4. BudgetKept
    <3> DEFINE answered == {t \in Request \X (1 .. MaxTokens) : client[t[1]] = "done" /\ t[2] <= cost[t[1]]}
    <3>1. answered \in SUBSET Bill
      BY DEF Bill
    <3>2. IsFiniteSet(Bill) /\ Cardinality(Bill) \in Nat
      BY BillFinite
    <3>3. IsFiniteSet(answered) /\ Cardinality(answered) <= Cardinality(Bill)
      BY <3>1, <3>2, FS_Subset
    <3>4. Cardinality(answered) \in Nat
      BY <3>3, FS_CardinalityType
    <3>5. Cardinality(answered) <= MaxTokens
      <4> HIDE DEF answered
      <4> QED BY <2>1, <3>2, <3>3, <3>4 DEF Billed, BrokerTypeOK
    <3> QED BY <3>5 DEF BudgetKept, BrokerInv
  <2> QED BY <2>1, <2>2, <2>3, <2>4 DEF ChannelSound
<1> QED BY <1>1, BrokerInvariant, PTL DEF BrokerSpec

\* The provider is not called again for a request whose handle is revoked, that is aborted, or
\* of which a chunk was sent: a retry waits only before the first chunk, and what starts has
\* not been tried (retryDelay, authorize).
THEOREM ProviderNotCalledAgain == BrokerSpec => NotCalledAgain
<1> DEFINE Quiet == \A r \in Request :
             tries[r] > 0 /\ (token = "revoked" \/ sent[r] > 0 \/ r \in aborted) => tries'[r] = tries[r]
<1>1. BrokerInv /\ [BrokerNext]_brokerVars => [Quiet]_brokerVars
  <2> SUFFICES ASSUME BrokerInv, BrokerNext, NEW q \in Request, tries[q] > 0,
                      token = "revoked" \/ sent[q] > 0 \/ q \in aborted
               PROVE  tries'[q] = tries[q]
    OBVIOUS
  <2>a. BrokerTypeOK
    BY DEF BrokerInv
  <2>1. ASSUME NEW r \in Request, TryAgain(r) PROVE tries'[q] = tries[q]
    <3>1. server[r] = "delay" /\ ~Interrupted(r) /\ tries' = [tries EXCEPT ![r] = @ + 1] /\ Life(r)
      BY <2>1 DEF TryAgain, BrokerInv
    <3>2. sent[r] = 0 /\ kind[r] \in ModelCall /\ r \notin aborted /\ token # "revoked"
      BY <3>1 DEF Life, Interrupted
    <3>3. q # r
      BY <3>2
    <3> QED BY <2>a, <3>1, <3>3 DEF BrokerTypeOK
  <2>2. ASSUME NEW r \in Request, StartCall(r) PROVE tries'[q] = tries[q]
    <3>1. server[r] = "starting" /\ tries' = [tries EXCEPT ![r] = 1] /\ Life(r)
      BY <2>2 DEF StartCall, BrokerInv
    <3>2. q # r
      BY <3>1 DEF Life
    <3> QED BY <2>a, <3>1, <3>2 DEF BrokerTypeOK
  <2>3. ASSUME NEW r \in Request,
               \/ Invoke(r) \/ CancelRequest(r) \/ Interrupt(r) \/ WriteChunk(r) \/ WriteEnd(r)
               \/ Chunk(r) \/ Completed(r) \/ ProviderFails(r) \/ StreamEnds(r)
        PROVE  UNCHANGED tries
    BY <2>3 DEF Invoke, CancelRequest, Interrupt, WriteChunk, WriteEnd, Chunk, Completed, ProviderFails, StreamEnds
  <2>4. CASE ParentReceive \/ ChildReceive \/ Revoke \/ Expire \/ Shut
    BY <2>4 DEF ParentReceive, ChildReceive, Revoke, Expire, Shut
  <2> QED BY <2>1, <2>2, <2>3, <2>4 DEF BrokerNext, ServerStep
<1> QED BY <1>1, BrokerInvariant, PTL DEF BrokerSpec, NotCalledAgain

-----------------------------------------------------------------------------
(***************************************************************************)
(* The router.  What a consumer has been given is of the attempt the call is *)
(* in (GivenOut), and a call that has given something is in the stream of    *)
(* that attempt or over: so no later attempt can add to it.  A call that     *)
(* sleeps has an attempt left, and one that has a candidate in hand has not  *)
(* run past the last (Within).  Each of the calls leaves the health of a     *)
(* provider as the others may find it (Honest).                              *)
(***************************************************************************)
HealthRow == [state : {"healthy", "degraded", "unhealthy", "circuit_open"},
              failures : Nat, openedAt : 0 .. MaxClock]
Cause == Failure \cup {"none", "circuit", "unavailable"}

RouterTypes ==
  /\ health \in [Provider -> HealthRow] /\ clock \in 0 .. MaxClock
  /\ at \in [Stream -> Place] /\ index \in [Stream -> Nat \ {0}]
  /\ attempt \in [Stream -> 0 .. RetryAttempts]
  /\ output \in [Stream -> Seq(Nat \X Nat)] /\ open \in [Stream -> 0 .. 1]
  /\ cause \in [Stream -> Cause] /\ quit \subseteq Stream

\* What a row of health says.
Honest(row) ==
  /\ row.state = "circuit_open" => row.failures >= Threshold
  /\ row.state = "healthy" <=> row.failures = 0

\* The candidate and the attempt a call is at exist.
Within(s) ==
  /\ index[s] <= Len(Candidates[s]) + 1
  /\ at[s] \in {"lookup", "prepare", "stream", "sleep"} => index[s] <= Len(Candidates[s])
  /\ at[s] = "sleep" => attempt[s] < RetryAttempts

\* What was given out is of this attempt.
GivenOut(s) ==
  /\ Len(output[s]) <= MaxParts
  /\ \A i \in DOMAIN output[s] : output[s][i] = <<index[s], attempt[s]>>
  /\ output[s] # <<>> => at[s] \in Over \cup {"stream"}

Ended(s) ==
  /\ cause[s] = "cancelled" => at[s] = "thrown"
  /\ open[s] = IF at[s] = "stream" THEN 1 ELSE 0

CallInv(s) == Within(s) /\ GivenOut(s) /\ Ended(s)

RouterInv ==
  /\ RouterTypes
  /\ \A p \in Provider : Honest(health[p])
  /\ \A s \in Stream : CallInv(s)

-----------------------------------------------------------------------------

\* The provider a call is at.
LEMMA CandidateKnown ==
  ASSUME RouterTypes, NEW s \in Stream, index[s] <= Len(Candidates[s])
  PROVE  Candidate(s) \in Provider
BY RouterAssumption DEF RouterTypes, Candidate

\* currentHealth and noteFailure keep a row honest, whoever wrote it last.
LEMMA HealthKept ==
  ASSUME RouterTypes, NEW p \in Provider, Honest(health[p])
  PROVE  /\ Current(p) \in HealthRow /\ Honest(Current(p))
         /\ \A f \in Failure : Failed(p, f) \in HealthRow /\ Honest(Failed(p, f))
         /\ Healthy \in HealthRow /\ Honest(Healthy)
<1> USE RouterAssumption
<1>1. health[p] \in HealthRow /\ clock \in 0 .. MaxClock
  BY DEF RouterTypes
<1>2. Current(p) \in HealthRow /\ Honest(Current(p))
  <2>1. CASE health[p].state = "circuit_open" /\ clock - health[p].openedAt >= Cooldown
    <3>1. Current(p) = [state |-> "degraded", failures |-> health[p].failures, openedAt |-> 0]
      BY <2>1 DEF Current
    <3>2. Current(p) \in HealthRow /\ Current(p).state = "degraded"
          /\ Current(p).failures = health[p].failures
      BY <1>1, <3>1 DEF HealthRow
    <3>3. health[p].failures >= Threshold /\ health[p].failures \in Nat
      BY <1>1, <2>1 DEF Honest, HealthRow
    <3>q. QED BY <3>2, <3>3 DEF Honest
  <2>2. CASE ~ (health[p].state = "circuit_open" /\ clock - health[p].openedAt >= Cooldown)
    BY <1>1, <2>2 DEF Current
  <2>q. QED BY <2>1, <2>2
<1>3. ASSUME NEW f \in Failure PROVE Failed(p, f) \in HealthRow /\ Honest(Failed(p, f))
  <2> DEFINE n == Current(p).failures + 1
  <2>1. n \in Nat \ {0}
    BY <1>2 DEF HealthRow
  <2>2. CASE f = "transient" /\ n >= Threshold
    <3>1. Failed(p, f) = [state |-> "circuit_open", failures |-> n, openedAt |-> clock]
      BY <2>2 DEF Failed
    <3>q. QED BY <1>1, <2>1, <2>2, <3>1 DEF HealthRow, Honest
  <2>3. CASE ~ (f = "transient" /\ n >= Threshold)
    <3> DEFINE st == IF f = "transient" THEN "degraded" ELSE "unhealthy"
    <3>1. Failed(p, f) = [state |-> st, failures |-> n, openedAt |-> 0]
      BY <2>3 DEF Failed
    <3>2. st \in {"degraded", "unhealthy"} /\ 0 \in 0 .. MaxClock
      OBVIOUS
    <3> HIDE DEF st, n
    <3>q. QED BY <2>1, <3>1, <3>2 DEF HealthRow, Honest
  <2>q. QED BY <2>2, <2>3
<1>4. Healthy \in HealthRow /\ Honest(Healthy)
  BY DEF Healthy, HealthRow, Honest
<1>q. QED BY <1>2, <1>3, <1>4

\* A row that is replaced by an honest one.
LEMMA OneRowMoves ==
  ASSUME RouterInv, NEW p \in Provider, NEW row \in HealthRow, Honest(row),
         health' = [health EXCEPT ![p] = row]
  PROVE  health' \in [Provider -> HealthRow] /\ \A x \in Provider : Honest(health'[x])
BY DEF RouterInv, RouterTypes

\* A step of one call concerns no other.
LEMMA OneCallMoves ==
  ASSUME RouterInv, RouterTypes', \A p \in Provider : Honest(health'[p]), NEW s \in Stream,
         \A t \in Stream \ {s} :
           /\ at'[t] = at[t] /\ index'[t] = index[t] /\ attempt'[t] = attempt[t]
           /\ output'[t] = output[t] /\ open'[t] = open[t] /\ cause'[t] = cause[t],
         CallInv(s)'
  PROVE  RouterInv'
<1>1. ASSUME NEW t \in Stream, t # s PROVE CallInv(t)'
  <2>1. CallInv(t)
    BY DEF RouterInv
  <2>q. QED BY <1>1, <2>1 DEF CallInv, Within, GivenOut, Ended
<1>q. QED BY <1>1 DEF RouterInv

LEMMA RouterInitEstablishes == RouterInit => RouterInv
<1> SUFFICES ASSUME RouterInit PROVE RouterInv
  OBVIOUS
<1> USE RouterAssumption
<1>1. RouterTypes
  BY DEF RouterInit, RouterTypes, HealthRow, Healthy, Place, Cause
<1>2. \A p \in Provider : Honest(health[p])
  BY DEF RouterInit, Honest, Healthy
<1>3. \A s \in Stream : CallInv(s)
  <2> TAKE s \in Stream
  <2>1. /\ at[s] = "start" /\ index[s] = 1 /\ output[s] = <<>> /\ open[s] = 0 /\ cause[s] = "none"
    BY DEF RouterInit
  <2>2. Len(Candidates[s]) \in Nat
    OBVIOUS
  <2>3. Len(<<>>) = 0 /\ DOMAIN <<>> = {}
    OBVIOUS
  <2>4. Within(s) /\ Ended(s)
    BY <2>1, <2>2 DEF Within, Ended
  <2>5. GivenOut(s)
    BY <2>1, <2>3 DEF GivenOut
  <2>q. QED BY <2>4, <2>5 DEF CallInv
<1>q. QED BY <1>1, <1>2, <1>3 DEF RouterInv

\* The steps of a call.
LEMMA CallSteps ==
  ASSUME RouterInv, NEW s \in Stream,
         Call(s) \/ StreamStep(s) \/ Yield(s) \/ CloseStream(s) \/ Abort(s)
  PROVE  RouterInv'
<1> USE RouterAssumption
<1>a. RouterTypes /\ (\A p \in Provider : Honest(health[p])) /\ CallInv(s)
  BY DEF RouterInv
<1>b. Within(s) /\ GivenOut(s) /\ Ended(s)
  BY <1>a DEF CallInv
<1>c. Len(Candidates[s]) \in Nat /\ index[s] \in Nat \ {0} /\ attempt[s] \in 0 .. RetryAttempts
  BY <1>a DEF RouterTypes
<1>1. CASE Call(s)
  <2>1. RouterTypes'
    BY <1>a, <1>1 DEF RouterTypes, Call, Go, Place
  <2>2. CallInv(s)'
    BY <1>a, <1>b, <1>1 DEF RouterTypes, Call, Go, CallInv, Within, GivenOut, Ended, Over
  <2>q. QED BY <1>a, <1>1, <2>1, <2>2, OneCallMoves DEF RouterTypes, Call, Go
<1>2. CASE Abort(s)
  <2>1. RouterTypes'
    BY <1>a, <1>2 DEF RouterTypes, Abort
  <2>2. CallInv(s)'
    BY <1>b, <1>2 DEF Abort, CallInv, Within, GivenOut, Ended
  <2>q. QED BY <1>a, <1>2, <2>1, <2>2, OneCallMoves DEF Abort
<1>3. CASE Pick(s)
  <2>1. at[s] = "pick" /\ UNCHANGED <<clock, attempt, output, open, quit>>
    BY <1>3 DEF Pick
  <2>2. CASE index[s] > Len(Candidates[s])
    <3>1. Go(s, "thrown") /\ UNCHANGED <<health, index, cause>>
      BY <1>3, <1>c, <2>2 DEF Pick
    <3>2. RouterTypes'
      BY <1>a, <2>1, <3>1 DEF RouterTypes, Go, Place
    <3>3. CallInv(s)'
      BY <1>a, <1>b, <2>1, <3>1 DEF RouterTypes, Go, CallInv, Within, GivenOut, Ended, Over
    <3>q. QED BY <1>a, <2>1, <3>1, <3>2, <3>3, OneCallMoves DEF RouterTypes, Go
  <2>3. CASE index[s] <= Len(Candidates[s])
    <3>1. Candidate(s) \in Provider
      BY <1>a, <2>3, CandidateKnown
    <3>2. health' = [health EXCEPT ![Candidate(s)] = Current(Candidate(s))]
      BY <1>3, <1>c, <2>3 DEF Pick
    <3>3. Current(Candidate(s)) \in HealthRow /\ Honest(Current(Candidate(s)))
      BY <1>a, <3>1, HealthKept
    <3>4. health' \in [Provider -> HealthRow] /\ \A x \in Provider : Honest(health'[x])
      BY <3>1, <3>2, <3>3, OneRowMoves
    <3>5. \/ /\ cause' = [cause EXCEPT ![s] = "circuit"]
             /\ index' = [index EXCEPT ![s] = @ + 1] /\ UNCHANGED at
          \/ Go(s, "lookup") /\ UNCHANGED <<index, cause>>
      BY <1>3, <1>c, <2>3 DEF Pick
    <3>6. RouterTypes'
      <4>1. at' \in [Stream -> Place] /\ cause' \in [Stream -> Cause]
        BY <1>a, <3>5 DEF RouterTypes, Go, Place, Cause
      <4>2. index' = index \/ (index' = [index EXCEPT ![s] = index[s] + 1] /\ index[s] + 1 \in Nat \ {0})
        BY <1>c, <3>5
      <4>3. index' \in [Stream -> Nat \ {0}]
        BY <1>a, <4>2 DEF RouterTypes
      <4>q. QED BY <1>a, <2>1, <3>4, <4>1, <4>3 DEF RouterTypes
    <3>7. output[s] = <<>>
      BY <1>b, <2>1 DEF GivenOut, Over
    <3>8. Within(s)' /\ Ended(s)'
      BY <1>a, <1>b, <1>c, <2>1, <2>3, <3>5 DEF RouterTypes, Go, Within, Ended
    <3>9. GivenOut(s)'
      BY <1>b, <2>1, <3>7 DEF GivenOut
    <3>q. QED BY <1>a, <2>1, <3>4, <3>5, <3>6, <3>8, <3>9, OneCallMoves DEF RouterTypes, Go, CallInv
  <2>q. QED BY <1>c, <2>2, <2>3
<1>4. CASE Lookup(s)
  <2>1. at[s] = "lookup" /\ UNCHANGED <<health, clock, output, open, quit>>
    BY <1>4 DEF Lookup
  <2>2. \/ /\ Go(s, "prepare") /\ attempt' = [attempt EXCEPT ![s] = 0]
           /\ UNCHANGED <<index, cause>>
        \/ /\ cause' = [cause EXCEPT ![s] = "unavailable"]
           /\ index' = [index EXCEPT ![s] = @ + 1] /\ Go(s, "pick") /\ UNCHANGED attempt
    BY <1>4 DEF Lookup
  <2>3. RouterTypes'
    <3>1. at' \in [Stream -> Place] /\ cause' \in [Stream -> Cause]
      BY <1>a, <2>2 DEF RouterTypes, Go, Place, Cause
    <3>2. /\ index' = index \/ (index' = [index EXCEPT ![s] = index[s] + 1] /\ index[s] + 1 \in Nat \ {0})
          /\ attempt' = attempt \/ (attempt' = [attempt EXCEPT ![s] = 0] /\ 0 \in 0 .. RetryAttempts)
      BY <1>c, <2>2
    <3>3. attempt' \in [Stream -> 0 .. RetryAttempts]
      BY <1>a, <3>2 DEF RouterTypes
    <3>4. index' \in [Stream -> Nat \ {0}]
      BY <1>a, <3>2 DEF RouterTypes
    <3>q. QED BY <1>a, <2>1, <3>1, <3>3, <3>4 DEF RouterTypes
  <2>4. output[s] = <<>>
    BY <1>b, <2>1 DEF GivenOut, Over
  <2>5. Within(s)' /\ Ended(s)'
    BY <1>a, <1>b, <1>c, <2>1, <2>2 DEF RouterTypes, Go, Within, Ended
  <2>6. GivenOut(s)'
    BY <1>b, <2>1, <2>4 DEF GivenOut
  <2>q. QED BY <1>a, <2>1, <2>2, <2>3, <2>5, <2>6, OneCallMoves DEF RouterTypes, Go, CallInv
<1>5. CASE Open(s)
  <2>1. /\ at[s] = "prepare" /\ Go(s, "stream") /\ open' = [open EXCEPT ![s] = @ + 1]
        /\ UNCHANGED <<health, clock, index, attempt, output, cause, quit>>
    BY <1>5 DEF Open
  <2>2. open[s] = 0
    BY <1>b, <2>1 DEF Ended
  <2>3. RouterTypes'
    BY <1>a, <2>1, <2>2 DEF RouterTypes, Go, Place
  <2>4. CallInv(s)'
    BY <1>a, <1>b, <2>1, <2>2 DEF RouterTypes, Go, CallInv, Within, GivenOut, Ended, Over
  <2>q. QED BY <1>a, <2>1, <2>3, <2>4, OneCallMoves DEF RouterTypes, Go
<1>6. CASE Yield(s)
  <2> DEFINE chunk == <<index[s], attempt[s]>>
  <2>1. /\ at[s] = "stream" /\ Len(output[s]) < MaxParts
        /\ output' = [output EXCEPT ![s] = Append(@, chunk)]
        /\ UNCHANGED <<health, clock, at, index, attempt, open, cause, quit>>
    BY <1>6 DEF Yield
  <2>2. output[s] \in Seq(Nat \X Nat) /\ chunk \in Nat \X Nat
    BY <1>a, <1>c DEF RouterTypes
  <2>3. output'[s] = Append(output[s], chunk) /\ output'[s] \in Seq(Nat \X Nat)
    BY <1>a, <2>1, <2>2 DEF RouterTypes
  <2>4. RouterTypes'
    BY <1>a, <2>1, <2>2, <2>3 DEF RouterTypes
  <2>5. Len(output'[s]) <= MaxParts
    BY <2>1, <2>2, <2>3
  <2>6. \A i \in DOMAIN output'[s] : output'[s][i] = chunk
    <3>1. DOMAIN output'[s] = 1 .. Len(output[s]) + 1 /\ DOMAIN output[s] = 1 .. Len(output[s])
      BY <2>2, <2>3
    <3>2. \A i \in 1 .. Len(output[s]) : output'[s][i] = output[s][i]
      BY <2>2, <2>3
    <3>3. output'[s][Len(output[s]) + 1] = chunk
      BY <2>2, <2>3
    <3>4. Len(output[s]) \in Nat
      BY <2>2
    <3> HIDE DEF chunk
    <3>5. \A i \in DOMAIN output[s] : output[s][i] = chunk
      BY <1>b DEF GivenOut, chunk
    <3>q. QED BY <3>1, <3>2, <3>3, <3>4, <3>5
  <2>7. CallInv(s)'
    BY <1>b, <2>1, <2>5, <2>6 DEF CallInv, Within, GivenOut, Ended
  <2>8. \A t \in Stream \ {s} : output'[t] = output[t]
    BY <1>a, <2>1 DEF RouterTypes
  <2>q. QED BY <1>a, <2>1, <2>4, <2>7, <2>8, OneCallMoves
<1>7. CASE FinishStream(s)
  <2>1. /\ at[s] = "stream" /\ Go(s, "returned") /\ open' = [open EXCEPT ![s] = @ - 1]
        /\ health' = [health EXCEPT ![Candidate(s)] = Healthy]
        /\ UNCHANGED <<clock, index, attempt, output, cause, quit>>
    BY <1>7 DEF FinishStream
  <2>2. open[s] = 1 /\ Candidate(s) \in Provider
    BY <1>a, <1>b, <2>1, CandidateKnown DEF Ended, Within
  <2>3. health' \in [Provider -> HealthRow] /\ \A x \in Provider : Honest(health'[x])
    BY <1>a, <2>1, <2>2, HealthKept, OneRowMoves
  <2>4. RouterTypes'
    BY <1>a, <2>1, <2>2, <2>3 DEF RouterTypes, Go, Place
  <2>5. CallInv(s)'
    BY <1>a, <1>b, <2>1, <2>2 DEF RouterTypes, Go, CallInv, Within, GivenOut, Ended, Over
  <2>q. QED BY <1>a, <2>1, <2>3, <2>4, <2>5, OneCallMoves DEF RouterTypes, Go
<1>8. CASE CloseStream(s)
  <2>1. /\ at[s] = "stream" /\ Go(s, "closed") /\ open' = [open EXCEPT ![s] = @ - 1]
        /\ UNCHANGED <<health, clock, index, attempt, output, cause, quit>>
    BY <1>8 DEF CloseStream
  <2>2. open[s] = 1
    BY <1>b, <2>1 DEF Ended
  <2>3. RouterTypes'
    BY <1>a, <2>1, <2>2 DEF RouterTypes, Go, Place
  <2>4. CallInv(s)'
    BY <1>a, <1>b, <2>1, <2>2 DEF RouterTypes, Go, CallInv, Within, GivenOut, Ended, Over
  <2>q. QED BY <1>a, <2>1, <2>3, <2>4, OneCallMoves DEF RouterTypes, Go
<1>9. ASSUME NEW f \in Failure, Fail(s, f) PROVE RouterInv'
  <2> DEFINE next == AfterFailure(s, f)
  <2>1. /\ at[s] \in {"prepare", "stream"} /\ cause' = [cause EXCEPT ![s] = f]
        /\ open' = [open EXCEPT ![s] = 0] /\ at' = [at EXCEPT ![s] = next]
        /\ index' = IF next = "pick" THEN [index EXCEPT ![s] = @ + 1] ELSE index
        /\ UNCHANGED <<clock, attempt, output, quit>>
    BY <1>9 DEF Fail, Go
  <2>2. /\ next \in {"thrown", "sleep", "pick"}
        /\ next # "thrown" => output[s] = <<>> /\ f # "cancelled"
        /\ next = "sleep" => attempt[s] < RetryAttempts
    BY <1>c DEF AfterFailure
  <2>3. Candidate(s) \in Provider /\ index[s] <= Len(Candidates[s])
    BY <1>a, <1>b, <2>1, CandidateKnown DEF Within
  <2>4. PICK row \in HealthRow : Honest(row) /\ health' = [health EXCEPT ![Candidate(s)] = row]
    BY <1>a, <1>9, <2>3, HealthKept DEF Fail
  <2>5. health' \in [Provider -> HealthRow] /\ \A x \in Provider : Honest(health'[x])
    BY <2>3, <2>4, OneRowMoves
  <2> HIDE DEF next
  <2>6. RouterTypes'
    <3>1. at' \in [Stream -> Place] /\ index' \in [Stream -> Nat \ {0}]
      BY <1>a, <2>1, <2>2 DEF RouterTypes, Place
    <3>2. open' \in [Stream -> 0 .. 1] /\ cause' \in [Stream -> Cause]
      BY <1>a, <2>1 DEF RouterTypes, Cause
    <3>q. QED BY <1>a, <2>1, <2>5, <3>1, <3>2 DEF RouterTypes
  <2>7. Within(s)'
    BY <1>a, <1>c, <2>1, <2>2, <2>3 DEF RouterTypes, Within
  <2>8. Ended(s)'
    BY <1>a, <2>1, <2>2 DEF RouterTypes, Ended
  <2>9. GivenOut(s)'
    <3>1. CASE next = "thrown"
      BY <1>a, <1>b, <2>1, <3>1 DEF RouterTypes, GivenOut, Over
    <3>2. CASE next # "thrown"
      BY <1>b, <2>1, <2>2, <3>2 DEF GivenOut
    <3>q. QED BY <3>1, <3>2
  <2>q. QED BY <1>a, <2>1, <2>5, <2>6, <2>7, <2>8, <2>9, OneCallMoves DEF RouterTypes, CallInv
<1>10. CASE Wake(s)
  <2>1. at[s] = "sleep" /\ UNCHANGED <<health, clock, index, output, open, quit>>
    BY <1>10 DEF Wake
  <2>2. \/ attempt' = [attempt EXCEPT ![s] = @ + 1] /\ Go(s, "prepare") /\ UNCHANGED cause
        \/ /\ cause' = [cause EXCEPT ![s] = "cancelled"] /\ Go(s, "thrown") /\ UNCHANGED attempt
    BY <1>10 DEF Wake
  <2>3. output[s] = <<>> /\ attempt[s] < RetryAttempts
    BY <1>b, <2>1 DEF GivenOut, Over, Within
  <2>4. RouterTypes'
    <3>1. at' \in [Stream -> Place] /\ cause' \in [Stream -> Cause]
      BY <1>a, <2>2 DEF RouterTypes, Go, Place, Cause, Failure
    <3>2. \/ attempt' = attempt
          \/ attempt' = [attempt EXCEPT ![s] = attempt[s] + 1] /\ attempt[s] + 1 \in 0 .. RetryAttempts
      BY <1>c, <2>2, <2>3
    <3>3. attempt' \in [Stream -> 0 .. RetryAttempts]
      BY <1>a, <3>2 DEF RouterTypes
    <3>q. QED BY <1>a, <2>1, <3>1, <3>3 DEF RouterTypes
  <2>5. Within(s)' /\ Ended(s)'
    BY <1>a, <1>b, <1>c, <2>1, <2>2 DEF RouterTypes, Go, Within, Ended
  <2>6. GivenOut(s)'
    BY <1>b, <2>1, <2>3 DEF GivenOut
  <2>q. QED BY <1>a, <2>1, <2>2, <2>4, <2>5, <2>6, OneCallMoves DEF RouterTypes, Go, CallInv
<1>q. QED BY <1>1, <1>2, <1>3, <1>4, <1>5, <1>6, <1>7, <1>8, <1>9, <1>10 DEF StreamStep

-----------------------------------------------------------------------------

LEMMA RouterStepPreserves == RouterInv /\ [RouterNext]_routerVars => RouterInv'
<1> SUFFICES ASSUME RouterInv, [RouterNext]_routerVars PROVE RouterInv'
  OBVIOUS
<1>1. CASE UNCHANGED routerVars
  BY <1>1 DEF routerVars, RouterInv, RouterTypes, CallInv, Within, GivenOut, Ended
<1>2. CASE Elapse
  BY <1>2, RouterAssumption DEF Elapse, RouterInv, RouterTypes, CallInv, Within, GivenOut, Ended
<1>3. CASE \E s \in Stream : Call(s) \/ StreamStep(s) \/ Yield(s) \/ CloseStream(s) \/ Abort(s)
  BY <1>3, CallSteps
<1>q. QED BY <1>1, <1>2, <1>3 DEF RouterNext

LEMMA RouterInvIsSound == RouterInv => RouterSound
<1> SUFFICES ASSUME RouterInv PROVE RouterSound
  OBVIOUS
<1> USE RouterAssumption
<1>a. RouterTypes /\ (\A p \in Provider : Honest(health[p])) /\ \A s \in Stream : CallInv(s)
  BY DEF RouterInv
<1>1. RouterTypeOK
  <2>1. \A s \in Stream : index[s] \in 1 .. Len(Candidates[s]) + 1 /\ Len(output[s]) <= MaxParts
    <3> TAKE s \in Stream
    <3>1. Within(s) /\ GivenOut(s)
      BY <1>a DEF CallInv
    <3>2. Len(Candidates[s]) \in Nat /\ index[s] \in Nat \ {0}
      BY <1>a DEF RouterTypes
    <3>q. QED BY <3>1, <3>2 DEF Within, GivenOut
  <2>q. QED BY <1>a, <2>1 DEF RouterTypes, RouterTypeOK, HealthRow, Cause
<1>2. OneSource /\ NoFurtherCall /\ TracePaired
  BY <1>a DEF CallInv, GivenOut, Ended, OneSource, NoFurtherCall, TracePaired
<1>3. CircuitHonest
  <2>1. \A p \in Provider : clock - health[p].openedAt >= Cooldown => Current(p).state # "circuit_open"
    BY DEF Current
  <2>q. QED BY <1>a, <2>1 DEF Honest, CircuitHonest
<1>q. QED BY <1>1, <1>2, <1>3 DEF RouterSound

\* Whatever calls run side by side, fail, retry, fall back, are aborted or left: each gives out
\* chunks of one attempt only, calls no provider after that, traces its attempts to their
\* end, and the health of the providers stays honest (stream, noteFailure, currentHealth).
THEOREM CallsAreSound == RouterSpec => []RouterSound
<1>1. RouterInit => RouterInv
  BY RouterInitEstablishes
<1>2. RouterInv /\ [RouterNext]_routerVars => RouterInv'
  BY RouterStepPreserves
<1>3. RouterInv => RouterSound
  BY RouterInvIsSound
<1>q. QED BY <1>1, <1>2, <1>3, PTL DEF RouterSpec

=============================================================================
