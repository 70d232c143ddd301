------------------------- MODULE NodeHostStepProofs -------------------------
(***************************************************************************)
(* The atomic accesses of the callback owners, the end of a work permit, and *)
(* the steps with which control prepares, exposes, gates, restores and hands *)
(* over a generation keep the invariant.                                     *)
(***************************************************************************)
EXTENDS NodeHostInvariant, TLAPS

\* The provers, and the times, for a leaf that names none.
USE ZenonT(2), SMTT(10), ZenonT(20), SMTT(30), ZenonT(60)

USE HostConstants
    DEF Slots, Rx, Tx, Targets, Gens, Pointer, Stored, ControlAt, ControlGoto,
        ControlBegin, ControlDone, ControlScanned, At, Goto, Full, Inside, Dropping,
        Exposed, shared, owned, work, owner, control, CanPublish, Clear

\* What callbacks do not touch: the published pointer, the store and control.
LEMMA OwnerFrame ==
  ASSUME IInv, UNCHANGED <<active, owned, control>>
  PROVE  Boxes' /\ Permits' /\ Entry' /\ Calls'
BY DEF IInv, Boxes, Permits, Entry, Calls

\* Loading the pointer latches nothing yet.
LEMMA AcquireStep == ASSUME IInv, NEW s \in Slots, Acquire(s) PROVE IInv'
<1>0. pc \in [Slots -> OwnerPcs] /\ cand \in [Slots -> Pointer] /\ tries \in [Slots -> 0..Attempts]
  BY DEF IInv, TypeOK
<1>1. TypeOK'
  <2>1. pc' \in [Slots -> OwnerPcs]
    BY DEF Acquire, Load, IInv, TypeOK, OwnerPcs
  <2>2. cand' \in [Slots -> Pointer]
    BY DEF Acquire, Load, IInv, TypeOK
  <2>3. tries' \in [Slots -> 0..Attempts]
    <3>1. tries \in [Slots -> 0..Attempts] /\ tries[s] < Attempts
      BY DEF Acquire, IInv, TypeOK, Budget
    <3>2. tries' = [tries EXCEPT ![s] = @ + 1]
      BY DEF Acquire, Load
    <3> QED BY <3>1, <3>2
  <2> QED BY Zenon, <2>1, <2>2, <2>3 DEF Acquire, Load, IInv, TypeOK
<1>2. Boxes' /\ Permits' /\ Entry' /\ Calls'
  BY OwnerFrame DEF Acquire, Load
<1>3. Guarded'
  <2>1. ASSUME NEW t \in Slots PROVE Latched(t)'
    BY DEF Acquire, Load, IInv, TypeOK, Guarded, Latched
  <2>2. Joining'
    BY DEF Acquire, Load, IInv, TypeOK, Guarded, Joining
  <2>3. Behind'
    BY DEF Acquire, Load, IInv, Guarded, Behind
  <2> QED BY <2>1, <2>2, <2>3 DEF Guarded
<1>4. Pairs'
  BY <1>0 DEF Acquire, Load, IInv, Pairs
<1>5. Budget'
  BY <1>0 DEF Acquire, Load, IInv, Budget
<1>6. Scans'
  BY <1>0 DEF Acquire, Load, IInv, Scans, Entry, Pairs
<1> QED BY <1>1, <1>2, <1>3, <1>4, <1>5, <1>6 DEF IInv

\* The transmit owner is lent for the whole pair entry.
LEMMA AcquirePairStep == ASSUME IInv, AcquirePair PROVE IInv'
<1>0. pc \in [Slots -> OwnerPcs] /\ cand \in [Slots -> Pointer] /\ tries \in [Slots -> 0..Attempts]
  BY DEF IInv, TypeOK
<1>1. TypeOK'
  <2>1. pc' \in [Slots -> OwnerPcs]
    BY DEF AcquirePair, Load, IInv, TypeOK, OwnerPcs
  <2>2. cand' \in [Slots -> Pointer]
    BY DEF AcquirePair, Load, IInv, TypeOK
  <2>3. tries' \in [Slots -> 0..Attempts]
    <3>1. tries \in [Slots -> 0..Attempts] /\ tries[Rx] < Attempts
      BY DEF AcquirePair, IInv, TypeOK, Budget
    <3>2. tries' = [tries EXCEPT ![Rx] = @ + 1]
      BY DEF AcquirePair, Load
    <3> QED BY <3>1, <3>2
  <2> QED BY Zenon, <2>1, <2>2, <2>3 DEF AcquirePair, Load, IInv, TypeOK
<1>2. Boxes' /\ Permits' /\ Entry' /\ Calls'
  BY OwnerFrame DEF AcquirePair, Load
<1>3. Guarded'
  <2>1. /\ pc' = [pc EXCEPT ![Rx] = "protect", ![Tx] = "lent"]
        /\ UNCHANGED <<hazards, adopted, heap, step, lastGen>>
    BY DEF AcquirePair
  <2>2. pc'[Rx] = "protect" /\ pc'[Tx] = "lent"
    BY <1>0, <2>1
  <2> QED BY <2>1, <2>2 DEF IInv, Guarded, Latched, Joining, Behind
<1>4. Pairs'
  <2>1. /\ pc[Rx] = "idle" /\ pc[Tx] = "idle" /\ registered' = registered /\ registered
        /\ pc' = [pc EXCEPT ![Rx] = "protect", ![Tx] = "lent"]
    BY DEF AcquirePair
  <2>2. pc'[Rx] = "protect" /\ pc'[Tx] = "lent"
    BY <2>1 DEF IInv, TypeOK
  <2> QED BY <2>1, <2>2 DEF Pairs
<1>5. Budget'
  <2>1. pc'[Rx] = "protect" /\ pc'[Tx] = "lent" /\ tries'[Tx] = 0
    BY DEF AcquirePair, Load, IInv, TypeOK, Budget
  <2> QED BY <2>1 DEF Budget
<1>6. Scans'
  <2>1. pc'[Rx] = "protect" /\ pc'[Tx] = "lent"
    BY <1>0 DEF AcquirePair
  <2> QED BY <2>1 DEF Scans
<1> QED BY <1>1, <1>2, <1>3, <1>4, <1>5, <1>6 DEF IInv

\* A further attempt starts only while one is left.
LEMMA ReloadStep == ASSUME IInv, NEW s \in Slots, Reload(s) PROVE IInv'
<1>0. pc \in [Slots -> OwnerPcs] /\ cand \in [Slots -> Pointer] /\ tries \in [Slots -> 0..Attempts]
  BY DEF IInv, TypeOK
<1>1. TypeOK'
  <2>1. pc' \in [Slots -> OwnerPcs]
    BY DEF Reload, Load, IInv, TypeOK, OwnerPcs
  <2>2. cand' \in [Slots -> Pointer]
    BY DEF Reload, Load, IInv, TypeOK
  <2>3. tries' \in [Slots -> 0..Attempts]
    <3>1. tries \in [Slots -> 0..Attempts] /\ tries[s] < Attempts
      BY DEF Reload, IInv, TypeOK, Budget
    <3>2. tries' = [tries EXCEPT ![s] = @ + 1]
      BY DEF Reload, Load
    <3> QED BY <3>1, <3>2
  <2> QED BY Zenon, <2>1, <2>2, <2>3 DEF Reload, Load, IInv, TypeOK
<1>2. Boxes' /\ Permits' /\ Entry' /\ Calls'
  BY OwnerFrame DEF Reload, Load
<1>3. Guarded'
  <2>1. ASSUME NEW t \in Slots PROVE Latched(t)'
    BY DEF Reload, Load, IInv, TypeOK, Guarded, Latched
  <2>2. Joining'
    BY DEF Reload, Load, IInv, TypeOK, Guarded, Joining
  <2>3. Behind'
    BY DEF Reload, Load, IInv, Guarded, Behind
  <2> QED BY <2>1, <2>2, <2>3 DEF Guarded
<1>4. Pairs'
  BY <1>0 DEF Reload, Load, IInv, Pairs
<1>5. Budget'
  BY <1>0 DEF Reload, Load, IInv, Budget
<1>6. Scans'
  BY <1>0 DEF Reload, Load, IInv, Scans, Entry, Pairs
<1> QED BY <1>1, <1>2, <1>3, <1>4, <1>5, <1>6 DEF IInv

\* The slot is written before validation, so validation finds it in place.
LEMMA ProtectStep == ASSUME IInv, NEW s \in Slots, Protect(s) PROVE IInv'
<1>0. pc \in [Slots -> OwnerPcs] /\ cand \in [Slots -> Pointer] /\ tries \in [Slots -> 0..Attempts]
  BY DEF IInv, TypeOK
<1>1. TypeOK'
  <2>1. hazards' \in [Slots -> Pointer]
    BY DEF Protect, IInv, TypeOK
  <2>2. pc' \in [Slots -> OwnerPcs]
    BY DEF Protect, IInv, TypeOK, OwnerPcs
  <2> QED BY Zenon, <2>1, <2>2 DEF Protect, IInv, TypeOK
<1>2. Boxes' /\ Permits' /\ Entry' /\ Calls'
  BY OwnerFrame DEF Protect
<1>3. Guarded'
  <2>1. /\ hazards' = [hazards EXCEPT ![s] = cand[s]]
        /\ pc[s] = "protect" /\ pc' = [pc EXCEPT ![s] = "validate"]
        /\ UNCHANGED <<cand, adopted, heap, step, lastGen>>
    BY DEF Protect
  <2>2. ASSUME NEW t \in Slots PROVE Latched(t)'
    BY <2>1 DEF IInv, TypeOK, Guarded, Latched
  <2>3. Joining' /\ Behind'
    BY <2>1 DEF IInv, TypeOK, Guarded, Joining, Behind, Pairs
  <2> QED BY <2>2, <2>3 DEF Guarded
<1>4. Pairs'
  BY <1>0 DEF Protect, IInv, Pairs
<1>5. Budget'
  BY <1>0 DEF Protect, IInv, Budget
<1>6. Scans'
  BY <1>0 DEF Protect, IInv, Scans, Entry, Pairs
<1> QED BY <1>1, <1>2, <1>3, <1>4, <1>5, <1>6 DEF IInv

\* The heart of the protocol: a candidate that is still current is neither gated,
\* transferred nor being freed, so entering it is safe.
LEMMA ValidateStep == ASSUME IInv, NEW s \in Slots, Validate(s) PROVE IInv'
<1>0. pc \in [Slots -> OwnerPcs] /\ cand \in [Slots -> Pointer] /\ tries \in [Slots -> 0..Attempts]
  BY DEF IInv, TypeOK
<1>1. TypeOK'
  <2>1. pc' \in [Slots -> OwnerPcs]
    BY DEF Validate, CandidateIsCurrent, IInv, TypeOK, OwnerPcs
  <2> QED BY Zenon, <2>1 DEF Validate, CandidateIsCurrent, IInv, TypeOK
<1>2. Boxes' /\ Permits' /\ Entry' /\ Calls'
  BY OwnerFrame DEF Validate, CandidateIsCurrent
<1>3. Guarded'
  <2>1. CASE ~CandidateIsCurrent(s)
    <3>1. \A t \in Slots : Latched(t)'
      BY <2>1 DEF Validate, IInv, TypeOK, Guarded, Latched
    <3>2. Joining' /\ Behind'
      BY <2>1 DEF Validate, IInv, TypeOK, Guarded, Joining, Behind
    <3> QED BY <3>1, <3>2 DEF Guarded
  <2>2. CASE CandidateIsCurrent(s)
    <3>1. heap[active] = Exposed /\ heap[active] # 0 /\ active # Null /\ cand[s] = active
      BY <2>2 DEF CandidateIsCurrent, IInv, TypeOK, Boxes, Entry, Calls
    <3>2. \A t \in Slots : adopted[t] \in Int /\ adopted[t] <= heap[active]
      BY <3>1 DEF IInv, TypeOK, Guarded, Behind
    <3>3. /\ pc' = [pc EXCEPT ![s] = "adopt"]
          /\ UNCHANGED <<cand, hazards, adopted, heap, step, lastGen>>
      BY <2>2 DEF Validate
    <3>4. hazards[s] = cand[s]
      BY DEF IInv, Validate, Guarded, Latched
    <3>5. ASSUME NEW t \in Slots PROVE Latched(t)'
      <4>1. CASE t = s
        <5>1. pc'[s] = "adopt"
          BY <3>3 DEF IInv, TypeOK
        <5>2. heap[active] <= Exposed'
          BY <3>1, <3>3 DEF IInv, TypeOK
        <5> QED BY Zenon, <5>2, <3>1, <3>2, <3>3, <3>4, <4>1, <5>1 DEF Latched
      <4>2. CASE t # s
        <5>1. pc'[t] = pc[t] /\ Latched(t)
          BY <3>3, <4>2 DEF IInv, TypeOK, Guarded
        <5> QED BY <3>3, <5>1 DEF Latched
      <4> QED BY <4>1, <4>2
    <3>6. Joining'
      BY <3>1, <3>2, <3>3 DEF IInv, TypeOK, Guarded, Joining
    <3>7. Behind'
      BY DEF Validate, IInv, Guarded, Behind
    <3> QED BY <3>5, <3>6, <3>7 DEF Guarded
  <2> QED BY <2>1, <2>2
<1>4. Pairs'
  BY <1>0 DEF Validate, CandidateIsCurrent, IInv, Pairs
<1>5. Budget'
  BY <1>0 DEF Validate, CandidateIsCurrent, IInv, Budget
<1>6. Scans'
  <2>1. CASE ~CandidateIsCurrent(s)
    BY <1>0, <2>1 DEF Validate, IInv, Scans
  <2>2. CASE CandidateIsCurrent(s)
    <3>1. step \notin {"gateScan", "transfer", "closed"}
      BY <2>2 DEF CandidateIsCurrent, IInv, Entry
    <3>2. step \in {"freeScan", "free"} => store[target] # active
      BY <2>2 DEF CandidateIsCurrent, IInv, TypeOK, Entry, Boxes, Permits, Calls
    <3>3. /\ pc' = [pc EXCEPT ![s] = "adopt"]
          /\ UNCHANGED <<cand, step, slot, store, target>>
      BY <2>2 DEF Validate
    <3> QED BY <1>0, <2>2, <3>1, <3>2, <3>3 DEF CandidateIsCurrent, IInv, Scans
  <2> QED BY <2>1, <2>2
<1> QED BY <1>1, <1>2, <1>3, <1>4, <1>5, <1>6 DEF IInv

\* A failed validation clears the slot and, after the last one, ends the borrow.
LEMMA RetractStep == ASSUME IInv, NEW s \in Slots, Retract(s) PROVE IInv'
<1>0. pc \in [Slots -> OwnerPcs] /\ cand \in [Slots -> Pointer] /\ tries \in [Slots -> 0..Attempts]
  BY DEF IInv, TypeOK
<1>1. TypeOK'
  <2>1. hazards' \in [Slots -> Pointer]
    BY DEF Retract, Return, IInv, TypeOK
  <2>2. pc' \in [Slots -> OwnerPcs]
    BY DEF Retract, Return, IInv, TypeOK, OwnerPcs
  <2>3. cand' \in [Slots -> Pointer]
    BY DEF Retract, Return, IInv, TypeOK
  <2>4. tries' \in [Slots -> 0..Attempts]
    BY DEF Retract, Return, IInv, TypeOK, Budget
  <2> QED BY Zenon, <2>1, <2>2, <2>3, <2>4 DEF Retract, Return, IInv, TypeOK
<1>2. Boxes' /\ Permits' /\ Entry' /\ Calls'
  BY OwnerFrame DEF Retract, Return
<1>3. Guarded'
  <2>1. ASSUME NEW t \in Slots PROVE Latched(t)'
    <3>1. CASE t = s
      BY <3>1 DEF Retract, Return, IInv, TypeOK, Pairs, Latched
    <3>2. CASE t # s
      <4>1. hazards'[t] = hazards[t] /\ cand'[t] = cand[t] 
            /\ UNCHANGED <<adopted, heap, step, lastGen>>
        BY <3>2 DEF Retract, Return, IInv, TypeOK
      <4>2. pc'[t] = pc[t] \/ pc'[t] \in {"idle", "lent"}
        BY <3>2 DEF Retract, Return, IInv, TypeOK
      <4>3. Latched(t)
        BY DEF IInv, Guarded
      <4> QED BY <4>1, <4>2, <4>3 DEF Latched
    <3> QED BY <3>1, <3>2
  <2>2. Joining'
    BY DEF Retract, Return, IInv, TypeOK, Guarded, Joining, Pairs
  <2>3. Behind'
    BY DEF Retract, Return, IInv, Guarded, Behind
  <2> QED BY <2>1, <2>2, <2>3 DEF Guarded
<1>4. Pairs'
  BY <1>0 DEF Retract, Return, IInv, Pairs
<1>5. Budget'
  BY <1>0 DEF Retract, Return, IInv, Budget
<1>6. Scans'
  <2>1. ASSUME NEW t \in Slots, Inside(t)' PROVE Inside(t) /\ cand'[t] = cand[t]
    BY <2>1 DEF Retract, Return, IInv, TypeOK, Pairs
  <2>2. UNCHANGED <<step, slot, store, target>>
    BY DEF Retract
  <2> QED BY <2>1, <2>2 DEF IInv, Scans
<1> QED BY <1>1, <1>2, <1>3, <1>4, <1>5, <1>6 DEF IInv

\* Adoption reports the id found at the protected pointer.
LEMMA AdoptStep == ASSUME IInv, NEW s \in Slots, Adopt(s) PROVE IInv'
<1>0. pc \in [Slots -> OwnerPcs] /\ cand \in [Slots -> Pointer] /\ tries \in [Slots -> 0..Attempts]
  BY DEF IInv, TypeOK
<1>1. TypeOK'
  <2>1. adopted' \in [Slots -> 0..MaxGen]
    BY DEF Adopt, IInv, TypeOK, Guarded, Latched, Behind, Boxes
  <2>2. pc' \in [Slots -> OwnerPcs]
    BY DEF Adopt, IInv, TypeOK, OwnerPcs
  <2> QED BY Zenon, <2>1, <2>2 DEF Adopt, IInv, TypeOK
<1>2. Boxes' /\ Permits' /\ Entry' /\ Calls'
  BY OwnerFrame DEF Adopt
<1>3. Guarded'
  <2>1. /\ adopted' = [adopted EXCEPT ![s] = heap[cand[s]]]
        /\ pc' = [pc EXCEPT ![s] = IF s = Rx /\ At(Tx, "lent") THEN "pair" ELSE "held"]
        /\ UNCHANGED <<cand, hazards, heap, step, lastGen>>
    BY DEF Adopt
  <2>2. Inside(s) /\ Latched(s) /\ cand[s] \in Addr
    BY DEF Adopt, IInv, TypeOK, Guarded, Latched
  <2>3. heap[cand[s]] <= Exposed
    BY <2>2 DEF Latched
  <2>4. ASSUME NEW t \in Slots PROVE Latched(t)'
    BY <2>1, <2>2 DEF IInv, TypeOK, Guarded, Latched
  <2>5. Joining'
    BY <2>1, <2>2 DEF IInv, TypeOK, Guarded, Joining, Pairs
  <2>6. Behind'
    BY <2>1, <2>3 DEF IInv, TypeOK, Guarded, Behind
  <2> QED BY <2>4, <2>5, <2>6 DEF Guarded
<1>4. Pairs'
  BY <1>0 DEF Adopt, IInv, Pairs
<1>5. Budget'
  BY <1>0 DEF Adopt, IInv, Budget
<1>6. Scans'
  BY <1>0 DEF Adopt, IInv, Scans, Entry, Pairs
<1> QED BY <1>1, <1>2, <1>3, <1>4, <1>5, <1>6 DEF IInv

\* The second slot of a pair protects what the first one holds.
LEMMA PairProtectStep == ASSUME IInv, PairProtect PROVE IInv'
<1>0. pc \in [Slots -> OwnerPcs] /\ cand \in [Slots -> Pointer] /\ tries \in [Slots -> 0..Attempts]
  BY DEF IInv, TypeOK
<1>1. TypeOK'
  <2>1. hazards' \in [Slots -> Pointer]
    BY DEF PairProtect, IInv, TypeOK
  <2>2. pc' \in [Slots -> OwnerPcs]
    BY DEF PairProtect, IInv, TypeOK, OwnerPcs
  <2> QED BY Zenon, <2>1, <2>2 DEF PairProtect, IInv, TypeOK
<1>2. Boxes' /\ Permits' /\ Entry' /\ Calls'
  BY OwnerFrame DEF PairProtect
<1>3. Guarded'
  <2>1. /\ hazards' = [hazards EXCEPT ![Tx] = cand[Rx]]
        /\ pc' = [pc EXCEPT ![Rx] = "pairAdopt"]
        /\ UNCHANGED <<cand, adopted, heap, step, lastGen>>
        /\ pc[Rx] = "pair" /\ pc[Tx] = "lent"
    BY DEF PairProtect, IInv, Pairs
  <2>2. ASSUME NEW t \in Slots PROVE Latched(t)'
    BY ZenonT(60), <2>1 DEF IInv, TypeOK, Guarded, Latched
  <2>3. Joining' /\ Behind'
    BY <2>1 DEF IInv, TypeOK, Guarded, Joining, Behind
  <2> QED BY <2>2, <2>3 DEF Guarded
<1>4. Pairs'
  BY <1>0 DEF PairProtect, IInv, Pairs
<1>5. Budget'
  BY <1>0 DEF PairProtect, IInv, Budget
<1>6. Scans'
  BY <1>0 DEF PairProtect, IInv, Scans, Entry, Pairs
<1> QED BY <1>1, <1>2, <1>3, <1>4, <1>5, <1>6 DEF IInv

\* Both halves of a pair hold the same generation.
LEMMA PairAdoptStep == ASSUME IInv, PairAdopt PROVE IInv'
<1>0. pc \in [Slots -> OwnerPcs] /\ cand \in [Slots -> Pointer] /\ tries \in [Slots -> 0..Attempts]
  BY DEF IInv, TypeOK
<1>1. TypeOK'
  <2>1. adopted' \in [Slots -> 0..MaxGen]
    BY DEF PairAdopt, IInv, TypeOK, Guarded, Latched, Behind, Boxes
  <2>2. pc' \in [Slots -> OwnerPcs]
    BY DEF PairAdopt, IInv, TypeOK, OwnerPcs
  <2>3. cand' \in [Slots -> Pointer]
    BY DEF PairAdopt, IInv, TypeOK
  <2> QED BY Zenon, <2>1, <2>2, <2>3 DEF PairAdopt, IInv, TypeOK
<1>2. Boxes' /\ Permits' /\ Entry' /\ Calls'
  BY OwnerFrame DEF PairAdopt
<1>3. Guarded'
  BY DEF PairAdopt, IInv, Guarded, Latched, Joining, Behind, Boxes, TypeOK, Calls, Entry, Pairs
<1>4. Pairs'
  BY <1>0 DEF PairAdopt, IInv, Pairs
<1>5. Budget'
  <2>1. pc'[Rx] = "held" /\ pc'[Tx] = "paired" /\ tries' = tries /\ pc[Tx] = "lent"
    BY <1>0 DEF PairAdopt, IInv, Pairs
  <2> QED BY <2>1 DEF IInv, Budget
<1>6. Scans'
  BY <1>0 DEF PairAdopt, IInv, Scans, Entry, Pairs
<1> QED BY <1>1, <1>2, <1>3, <1>4, <1>5, <1>6 DEF IInv

\* Dropping a guard clears its slot; a pair still has its second slot to clear.
LEMMA ReleaseStep == ASSUME IInv, NEW s \in Slots, Release(s) PROVE IInv'
<1>0. pc \in [Slots -> OwnerPcs] /\ cand \in [Slots -> Pointer] /\ tries \in [Slots -> 0..Attempts]
  BY DEF IInv, TypeOK
<1>1. TypeOK'
  <2>1. hazards' \in [Slots -> Pointer]
    BY DEF Release, Return, IInv, TypeOK
  <2>2. pc' \in [Slots -> OwnerPcs]
    BY DEF Release, Return, IInv, TypeOK, OwnerPcs
  <2>3. cand' \in [Slots -> Pointer]
    BY DEF Release, Return, IInv, TypeOK
  <2>4. tries' \in [Slots -> 0..Attempts]
    BY DEF Release, Return, IInv, TypeOK, Budget
  <2> QED BY Zenon, <2>1, <2>2, <2>3, <2>4 DEF Release, Return, IInv, TypeOK
<1>2. Boxes' /\ Permits' /\ Entry' /\ Calls'
  BY OwnerFrame DEF Release, Return
<1>3. Guarded'
  <2>1. ASSUME NEW t \in Slots PROVE Latched(t)'
    <3>1. CASE t = s
      BY <3>1 DEF Release, Return, IInv, TypeOK, Pairs, Latched
    <3>2. CASE t # s
      <4>1. hazards'[t] = hazards[t] /\ cand'[t] = cand[t] 
            /\ UNCHANGED <<adopted, heap, step, lastGen>>
        BY <3>2 DEF Release, Return, IInv, TypeOK
      <4>2. pc'[t] = pc[t] \/ pc'[t] \in {"idle", "lent"}
        BY <3>2 DEF Release, Return, IInv, TypeOK
      <4>3. Latched(t)
        BY DEF IInv, Guarded
      <4> QED BY <4>1, <4>2, <4>3 DEF Latched
    <3> QED BY <3>1, <3>2
  <2>2. Joining'
    BY Zenon DEF Release, Return, IInv, TypeOK, Guarded, Joining, Pairs
  <2>3. Behind'
    BY DEF Release, Return, IInv, Guarded, Behind
  <2> QED BY <2>1, <2>2, <2>3 DEF Guarded
<1>4. Pairs'
  BY <1>0 DEF Release, Return, IInv, Pairs
<1>5. Budget'
  <2>1. ASSUME NEW t \in Slots PROVE pc'[t] # "load" \/ (pc[t] = "load" /\ tries'[t] = tries[t])
    BY DEF Release, Return, IInv, TypeOK
  <2>2. ASSUME NEW t \in Slots, pc'[t] \in {"idle", "lent", "paired"} PROVE tries'[t] = 0
    BY <2>2 DEF Release, Return, IInv, TypeOK, Budget
  <2> QED BY <2>1, <2>2 DEF IInv, Budget
<1>6. Scans'
  <2>1. ASSUME NEW t \in Slots, Inside(t)' PROVE Inside(t) /\ cand'[t] = cand[t]
    BY <2>1 DEF Release, Return, IInv, TypeOK, Pairs
  <2>2. UNCHANGED <<step, slot, store, target>>
    BY DEF Release
  <2> QED BY <2>1, <2>2 DEF IInv, Scans
<1> QED BY <1>1, <1>2, <1>3, <1>4, <1>5, <1>6 DEF IInv

\* The second store of PairedGuard::drop.
LEMMA ReleasePairStep == ASSUME IInv, ReleasePair PROVE IInv'
<1>0. pc \in [Slots -> OwnerPcs] /\ cand \in [Slots -> Pointer] /\ tries \in [Slots -> 0..Attempts]
  BY DEF IInv, TypeOK
<1>1. TypeOK'
  <2>1. hazards' \in [Slots -> Pointer]
    BY DEF ReleasePair, IInv, TypeOK
  <2>2. pc' \in [Slots -> OwnerPcs]
    BY DEF ReleasePair, IInv, TypeOK, OwnerPcs
  <2>3. cand' \in [Slots -> Pointer]
    BY DEF ReleasePair, IInv, TypeOK
  <2>4. tries' \in [Slots -> 0..Attempts]
    BY DEF ReleasePair, IInv, TypeOK, Budget
  <2> QED BY Zenon, <2>1, <2>2, <2>3, <2>4 DEF ReleasePair, IInv, TypeOK
<1>2. Boxes' /\ Permits' /\ Entry' /\ Calls'
  BY OwnerFrame DEF ReleasePair
<1>3. Guarded'
  BY DEF ReleasePair, IInv, Guarded, Latched, Joining, Behind, Boxes, TypeOK, Calls, Entry, Pairs
<1>4. Pairs'
  BY <1>0 DEF ReleasePair, IInv, Pairs
<1>5. Budget'
  BY <1>0 DEF ReleasePair, IInv, Budget
<1>6. Scans'
  BY <1>0 DEF ReleasePair, IInv, Scans, Entry, Pairs
<1> QED BY <1>1, <1>2, <1>3, <1>4, <1>5, <1>6 DEF IInv

-----------------------------------------------------------------------------
\* A step of control that leaves the boxes, the permits or the callbacks alone.
LEMMA BoxesFrame ==
  ASSUME Boxes, UNCHANGED <<heap, lastGen, store, stopping>>, Dropping' <=> Dropping
  PROVE  Boxes'
BY DEF Boxes

\* ... with the work counters unchanged as well.
LEMMA PermitsFrame ==
  ASSUME Permits, UNCHANGED <<heap, lastGen, store, stopping, work>>, Dropping' <=> Dropping
  PROVE  Permits'
BY DEF Permits

\* ... with the callbacks' view unchanged.
LEMMA GuardedFrame ==
  ASSUME Guarded, UNCHANGED <<owner, hazards, adopted, heap>>, Exposed' = Exposed
  PROVE  Guarded'
BY DEF Guarded, Latched, Joining, Behind

\* What control does not touch: the callback owners.
LEMMA ControlFrame ==
  ASSUME IInv, UNCHANGED <<owner, registered>>
  PROVE  Pairs' /\ Budget'
BY DEF IInv, Pairs, Budget

\* Permits only go down when dropped.
LEMMA FinishWorkStep == ASSUME IInv, NEW g \in Gens, FinishWork(g) PROVE IInv'
<1>1. TypeOK'
  <2>1. outstanding' \in [Gens -> 0..MaxWork]
    <3>1. outstanding \in [Gens -> 0..MaxWork] /\ outstanding[g] > 0
      BY Zenon DEF FinishWork, IInv, TypeOK
    <3>2. outstanding' = [outstanding EXCEPT ![g] = @ - 1]
      BY DEF FinishWork
    <3> QED BY <3>1, <3>2
  <2> QED BY Zenon, <2>1 DEF FinishWork, IInv, TypeOK
<1>2. Pairs' /\ Budget'
  BY ControlFrame DEF FinishWork
<1>3. Boxes'
  BY BoxesFrame DEF FinishWork, IInv
<1>4. Permits'
  <2>1. outstanding \in [Gens -> 0..MaxWork] /\ outstanding[g] > 0
    BY Zenon DEF FinishWork, IInv, TypeOK
  <2>2. outstanding' = [outstanding EXCEPT ![g] = @ - 1]
    BY DEF FinishWork
  <2>3. ASSUME NEW h \in Gens
        PROVE  (outstanding[h] = 0 => outstanding'[h] = 0) /\ (outstanding'[h] > 0 => outstanding[h] > 0)
    BY <2>1, <2>2
  <2> QED BY <2>3 DEF FinishWork, IInv, Permits
<1>5. Entry'
  BY DEF FinishWork, IInv, Entry
<1>6. Calls'
  <2>1. outstanding \in [Gens -> 0..MaxWork] /\ outstanding[g] > 0
    BY Zenon DEF FinishWork, IInv, TypeOK
  <2>2. outstanding' = [outstanding EXCEPT ![g] = @ - 1]
    BY DEF FinishWork
  <2>3. ASSUME NEW h \in Gens
        PROVE  (outstanding[h] = 0 => outstanding'[h] = 0) /\ (outstanding'[h] > 0 => outstanding[h] > 0)
    BY <2>1, <2>2
  <2>4. step \in {"freeScan", "free"} => Stored(target) \in Gens
    <3>1. target \in Targets /\ store[target] \in Pointer
      BY DEF IInv, TypeOK
    <3>2. step \in {"freeScan", "free"} => Full(target)
      BY DEF IInv, Calls
    <3>3. Full(target) => Stored(target) # 0
      BY <3>1 DEF IInv, Boxes
    <3>4. Full(target) => Stored(target) \in 0..MaxGen
      BY <3>1 DEF IInv, TypeOK, Full, Stored, Pointer
    <3> QED BY <3>2, <3>3, <3>4 DEF Gens
  <2> QED BY <2>3, <2>4 DEF FinishWork, IInv, Calls
<1>7. Guarded'
  BY GuardedFrame DEF FinishWork, IInv
<1>8. Scans'
  BY DEF FinishWork, IInv, Scans
<1> QED BY <1>1, <1>2, <1>3, <1>4, <1>5, <1>6, <1>7, <1>8 DEF IInv

\* Registration creates idle owners.
LEMMA RegisterAudioStep == ASSUME IInv, RegisterAudio PROVE IInv'
<1>1. TypeOK'
  <2> QED BY Zenon DEF RegisterAudio, IInv, TypeOK
<1>2. Pairs' /\ Budget'
  BY DEF RegisterAudio, IInv, Pairs, Budget
<1>3. Boxes'
  BY BoxesFrame DEF RegisterAudio, IInv
<1>4. Permits'
  BY PermitsFrame DEF RegisterAudio, IInv
<1>5. Entry'
  BY DEF RegisterAudio, IInv, Entry
<1>6. Calls'
  BY DEF RegisterAudio, IInv, Calls
<1>7. Guarded'
  BY GuardedFrame DEF RegisterAudio, IInv
<1>8. Scans'
  BY DEF RegisterAudio, IInv, Scans
<1> QED BY <1>1, <1>2, <1>3, <1>4, <1>5, <1>6, <1>7, <1>8 DEF IInv

\* The part publish, publish_transferring and handoff share: the new box, the shifted
\* store and the end of admission on the old generation.
LEMMA InstallStep ==
  ASSUME IInv, NEW a \in Addr, Install(a), CanPublish,
         step \in {"idle", "transfer", "closed"}, op \notin {"drop", "reclaim"},
         detached' \in {detached, [detached EXCEPT ![Stored("active")] = TRUE]}
  PROVE  IInv'
<1>1. /\ store["active"] \in Addr /\ Stored("active") = lastGen
      /\ lastGen \in Gens /\ lastGen + 1 \in Gens
      /\ a # store["active"] /\ heap[a] = 0
  BY DEF Install, IInv, TypeOK, Boxes
<1>2. /\ heap' = [heap EXCEPT ![a] = lastGen + 1]
      /\ lastGen' = lastGen + 1
      /\ admitted' = [admitted EXCEPT ![lastGen] = FALSE]
      /\ store' = [active |-> a, retired |-> store["active"]]
      /\ step' = "expose"
      /\ UNCHANGED <<active, hazards, adopted, stopping, registered, outstanding,
                     pc, cand, tries, op, slot, target, last>>
  BY <1>1 DEF Install
<1>3. TypeOK'
  <2>1. heap' \in [Addr -> 0..MaxGen] /\ lastGen' \in Gens
    BY <1>1, <1>2 DEF IInv, TypeOK
  <2>2. store' \in [Targets -> Pointer]
    BY <1>1, <1>2 DEF IInv, TypeOK
  <2>3. admitted' \in [Gens -> BOOLEAN] /\ detached' \in [Gens -> BOOLEAN]
    BY Zenon, <1>1, <1>2 DEF IInv, TypeOK
  <2> QED BY <2>1, <2>2, <2>3, <1>2, Zenon DEF IInv, TypeOK, ControlSteps
<1>4. \A x \in Addr : /\ heap[x] \in Nat /\ heap[x] <= lastGen
                     /\ heap'[x] = IF x = a THEN lastGen + 1 ELSE heap[x]
  BY <1>2 DEF IInv, TypeOK, Boxes
<1>5. Boxes'
  <2>1. \A x, y \in Addr : x # y /\ heap'[x] # 0 => heap'[x] # heap'[y]
    BY <1>1, <1>4 DEF IInv, Boxes
  <2>2. \A x \in Addr : heap'[x] <= lastGen'
    BY <1>1, <1>2, <1>4
  <2>3. /\ heap'[store'["active"]] = lastGen + 1
        /\ heap'[store'["retired"]] = lastGen
    BY <1>1, <1>2, <1>4
  <2>4. \A x \in Addr : heap'[x] # 0 => \E t \in Targets : store'[t] = x
    BY <1>1, <1>2, <1>4 DEF IInv, Boxes, Calls
  <2> QED BY <1>1, <1>2, <2>1, <2>2, <2>3, <2>4 DEF Boxes
<1>6. Permits'
  <2>1. ASSUME NEW g \in Gens, g > lastGen
        PROVE  admitted'[g] /\ ~detached'[g] /\ outstanding'[g] = 0
    <3>1. g # lastGen
      BY <1>1, <2>1
    <3>2. admitted'[g] = admitted[g]
      BY <1>2, <3>1 DEF IInv, TypeOK
    <3>3. detached'[g] = detached[g]
      BY <1>1, <3>1 DEF IInv, TypeOK
    <3> QED BY <1>2, <2>1, <3>2, <3>3 DEF IInv, Permits
  <2>2. ASSUME NEW g \in Gens, outstanding'[g] > 0
        PROVE  \E x \in Addr : heap'[x] = g
    BY <1>1, <1>2, <1>4, <2>2 DEF IInv, Permits
  <2>3. heap'[store'["active"]] = lastGen + 1
    BY <1>1, <1>2, <1>4
  <2> QED BY <1>1, <1>2, <2>1, <2>2, <2>3 DEF Permits
<1>7. Entry'
  BY <1>1, <1>2 DEF IInv, Entry
<1>8. Calls'
  BY <1>1, <1>2, <1>4 DEF Calls
<1>9. Guarded'
  <2>1. Exposed' = Exposed
    BY <1>1, <1>2
  <2>2. ASSUME NEW t \in Slots PROVE Latched(t)'
    <3>1. Latched(t) /\ (cand[t] # Null => cand[t] \in Addr)
      BY DEF IInv, TypeOK, Guarded
    <3>2. Inside(t) => heap'[cand[t]] = heap[cand[t]]
      BY <1>1, <1>4, <3>1 DEF Latched
    <3> QED BY <1>2, <2>1, <3>1, <3>2 DEF Latched
  <2>3. Joining'
    <3>1. Inside(Rx) => heap'[cand[Rx]] = heap[cand[Rx]]
      BY <1>1, <1>4 DEF IInv, TypeOK, Guarded, Latched
    <3> QED BY <1>2, <3>1 DEF IInv, Guarded, Joining
  <2>4. Behind'
    BY <1>2, <2>1 DEF IInv, Guarded, Behind
  <2> QED BY <2>2, <2>3, <2>4 DEF Guarded
<1>10. Pairs' /\ Budget'
  BY <1>2, ControlFrame
<1>11. Scans'
  BY <1>2 DEF Scans
<1> QED BY <1>3, <1>5, <1>6, <1>7, <1>8, <1>9, <1>10, <1>11 DEF IInv

\* Publish keeps the invariant.
LEMMA PublishStep == ASSUME IInv, NEW a \in Addr, Publish(a) PROVE IInv'
BY InstallStep DEF Publish, IInv, Calls

\* Transfer keeps the invariant.
LEMMA TransferStep == ASSUME IInv, NEW a \in Addr, Transfer(a) PROVE IInv'
BY InstallStep DEF Transfer, IInv, Calls

\* HandoffOpened keeps the invariant.
LEMMA HandoffOpenedStep == ASSUME IInv, NEW a \in Addr, HandoffOpened(a) PROVE IInv'
BY InstallStep DEF HandoffOpened, IInv, Calls

\* The pointer store makes the newest generation enterable.
LEMMA ExposeStep == ASSUME IInv, Expose PROVE IInv'
<1>1. TypeOK'
  <2>1. active' \in Pointer
    BY DEF Expose, IInv, TypeOK
  <2>2. step' \in ControlSteps /\ op' \in ControlOps /\ slot' \in Slots /\ target' \in Targets /\ last' \in BOOLEAN
    BY Zenon DEF Expose, IInv, TypeOK, ControlSteps, ControlOps
  <2> QED BY Zenon, <2>1, <2>2 DEF Expose, IInv, TypeOK
<1>2. Pairs' /\ Budget'
  BY ControlFrame DEF Expose
<1>3. Boxes'
  BY BoxesFrame DEF Expose, IInv, Calls
<1>4. Permits'
  BY PermitsFrame DEF Expose, IInv, Calls
<1>5. Entry'
  BY DEF Expose, IInv, Entry, Calls
<1>6. Calls'
  BY DEF Expose, Calls
<1>7. Guarded'
  <2>1. /\ UNCHANGED <<pc, cand, hazards, adopted, heap, lastGen>>
        /\ step = "expose" /\ step' = "idle"
    BY DEF Expose
  <2>2. lastGen \in Int /\ \A v \in Int : v <= lastGen - 1 => v <= lastGen
    BY DEF IInv, TypeOK
  <2>3. ASSUME NEW t \in Slots PROVE Latched(t)'
    <3>1. Latched(t) /\ (cand[t] # Null => heap[cand[t]] \in Int)
      BY DEF IInv, TypeOK, Guarded
    <3> QED BY <2>1, <2>2, <3>1 DEF Latched
  <2>4. Joining'
    BY <2>1 DEF IInv, Guarded, Joining
  <2>5. \A t \in Slots : adopted[t] \in Int
    BY DEF IInv, TypeOK
  <2>6. Behind'
    BY <2>1, <2>2, <2>5 DEF IInv, Guarded, Behind
  <2> QED BY <2>3, <2>4, <2>6 DEF Guarded
<1>8. Scans'
  BY DEF Expose, Scans
<1> QED BY <1>1, <1>2, <1>3, <1>4, <1>5, <1>6, <1>7, <1>8 DEF IInv

\* Gating entry starts a scan.
LEMMA GateStep == ASSUME IInv, NEW call \in {"transfer", "handoff"}, Gate(call) PROVE IInv'
<1>1. TypeOK'
  <2>1. active' \in Pointer
    BY DEF Gate, IInv, TypeOK
  <2>2. step' \in ControlSteps /\ op' \in ControlOps /\ slot' \in Slots /\ target' \in Targets /\ last' \in BOOLEAN
    BY Zenon DEF Gate, IInv, TypeOK, ControlSteps, ControlOps
  <2> QED BY Zenon, <2>1, <2>2 DEF Gate, IInv, TypeOK
<1>2. Pairs' /\ Budget'
  BY ControlFrame DEF Gate
<1>3. Boxes'
  BY BoxesFrame DEF Gate, IInv, Calls
<1>4. Permits'
  BY PermitsFrame DEF Gate, IInv, Calls
<1>5. Entry'
  BY DEF Gate, Entry
<1>6. Calls'
  BY DEF Gate, Calls
<1>7. Guarded'
  BY GuardedFrame DEF Gate, IInv
<1>8. Scans'
  BY DEF Gate, Scans
<1> QED BY <1>1, <1>2, <1>3, <1>4, <1>5, <1>6, <1>7, <1>8 DEF IInv

\* A slot found empty while entry is gated stays outside.
LEMMA GateScanStep == ASSUME IInv, GateScan PROVE IInv'
<1>1. TypeOK'
  <2>1. step' \in ControlSteps /\ op' \in ControlOps /\ slot' \in Slots /\ target' \in Targets /\ last' \in BOOLEAN
    BY DEF GateScan, Cleared, IInv, TypeOK, ControlSteps, ControlOps
  <2> QED BY Zenon, <2>1 DEF GateScan, IInv, TypeOK
<1>2. Pairs' /\ Budget'
  BY ControlFrame DEF GateScan
<1>3. Boxes'
  <2>1. step = "gateScan" /\ step' \in {"restore", "gateScan", "transfer", "closed"} /\ op' = op
    BY DEF GateScan, Cleared
  <2> QED BY <2>1, BoxesFrame DEF GateScan, IInv
<1>4. Permits'
  <2>1. step = "gateScan" /\ step' \in {"restore", "gateScan", "transfer", "closed"} /\ op' = op
    BY DEF GateScan, Cleared
  <2> QED BY <2>1, PermitsFrame DEF GateScan, IInv
<1>5. Entry'
  <2>1. step = "gateScan" /\ step' \in {"restore", "gateScan", "transfer", "closed"} /\ op' = op
    BY DEF GateScan, Cleared
  <2> QED BY <2>1 DEF GateScan, IInv, Entry
<1>6. Calls'
  <2>1. step = "gateScan" /\ step' \in {"restore", "gateScan", "transfer", "closed"} /\ op' = op
    BY DEF GateScan, Cleared
  <2> QED BY <2>1 DEF GateScan, IInv, Calls
<1>7. Guarded'
  <2>1. step = "gateScan" /\ step' \in {"restore", "gateScan", "transfer", "closed"} /\ op' = op
    BY DEF GateScan, Cleared
  <2> QED BY <2>1, GuardedFrame DEF GateScan, IInv
<1>8. Scans'
  <2>1. CASE step' = "restore"
    BY <2>1 DEF Scans
  <2>2. CASE step' # "restore"
    <3>1. ~Inside(slot)
      <4>1. hazards[slot] = Null
        BY <2>2 DEF GateScan
      <4> QED BY <4>1 DEF IInv, TypeOK, Guarded, Latched
    <3>2. (slot = Tx => ~Inside(Rx)) /\ slot \in Slots
      BY DEF GateScan, IInv, TypeOK, Scans
    <3>3. /\ step' = IF slot = Rx THEN "gateScan" ELSE Cleared
          /\ UNCHANGED pc /\ Cleared \in {"transfer", "closed"}
      BY <2>2 DEF GateScan, Cleared
    <3> QED BY <3>1, <3>2, <3>3 DEF Scans
  <2> QED BY <2>1, <2>2
<1> QED BY <1>1, <1>2, <1>3, <1>4, <1>5, <1>6, <1>7, <1>8 DEF IInv

\* An abandoned transfer makes the old generation current again.
LEMMA RestoreStep == ASSUME IInv, Restore PROVE IInv'
<1>1. TypeOK'
  <2>1. active' \in Pointer
    BY DEF Restore, IInv, TypeOK
  <2>2. step' \in ControlSteps /\ op' \in ControlOps /\ slot' \in Slots /\ target' \in Targets /\ last' \in BOOLEAN
    BY Zenon DEF Restore, IInv, TypeOK, ControlSteps, ControlOps
  <2> QED BY Zenon, <2>1, <2>2 DEF Restore, IInv, TypeOK
<1>2. Pairs' /\ Budget'
  BY ControlFrame DEF Restore
<1>3. Boxes'
  BY BoxesFrame DEF Restore, IInv, Calls
<1>4. Permits'
  BY PermitsFrame DEF Restore, IInv, Calls
<1>5. Entry'
  BY DEF Restore, IInv, Entry, Calls
<1>6. Calls'
  BY DEF Restore, Calls
<1>7. Guarded'
  BY GuardedFrame DEF Restore, IInv
<1>8. Scans'
  BY DEF Restore, Scans
<1> QED BY <1>1, <1>2, <1>3, <1>4, <1>5, <1>6, <1>7, <1>8 DEF IInv

\* HandoffReopened keeps the invariant.
LEMMA HandoffReopenedStep == ASSUME IInv, HandoffReopened PROVE IInv'
<1>1. TypeOK'
  <2>1. step' \in ControlSteps /\ op' \in ControlOps /\ slot' \in Slots /\ target' \in Targets /\ last' \in BOOLEAN
    BY Zenon DEF HandoffReopened, IInv, TypeOK, ControlSteps, ControlOps
  <2> QED BY Zenon, <2>1 DEF HandoffReopened, IInv, TypeOK
<1>2. Pairs' /\ Budget'
  BY ControlFrame DEF HandoffReopened
<1>3. Boxes'
  BY BoxesFrame DEF HandoffReopened, IInv
<1>4. Permits'
  BY PermitsFrame DEF HandoffReopened, IInv
<1>5. Entry'
  BY DEF HandoffReopened, IInv, Entry
<1>6. Calls'
  BY DEF HandoffReopened, IInv, Calls
<1>7. Guarded'
  BY GuardedFrame DEF HandoffReopened, IInv
<1>8. Scans'
  BY DEF HandoffReopened, Scans
<1> QED BY <1>1, <1>2, <1>3, <1>4, <1>5, <1>6, <1>7, <1>8 DEF IInv

\* HandoffFailed keeps the invariant.
LEMMA HandoffFailedStep == ASSUME IInv, HandoffFailed PROVE IInv'
<1>1. TypeOK'
  <2>1. active' \in Pointer
    BY DEF HandoffFailed, IInv, TypeOK
  <2>2. detached' \in [Gens -> BOOLEAN]
    BY Zenon DEF HandoffFailed, IInv, TypeOK
  <2>3. step' \in ControlSteps /\ op' \in ControlOps /\ slot' \in Slots /\ target' \in Targets /\ last' \in BOOLEAN
    BY Zenon DEF HandoffFailed, IInv, TypeOK, ControlSteps, ControlOps
  <2> QED BY Zenon, <2>1, <2>2, <2>3 DEF HandoffFailed, IInv, TypeOK
<1>2. Pairs' /\ Budget'
  BY ControlFrame DEF HandoffFailed
<1>3. Boxes'
  BY DEF HandoffFailed, IInv, Boxes
<1>4. Permits'
  <2>1. ASSUME NEW g \in Gens, g > lastGen PROVE detached'[g] = detached[g]
    <3>1. Stored("active") = lastGen /\ g # lastGen
      BY <2>1 DEF HandoffFailed, IInv, TypeOK, Boxes, Calls
    <3> QED BY <3>1 DEF HandoffFailed, IInv, TypeOK
  <2> QED BY Zenon, <2>1 DEF HandoffFailed, IInv, Permits
<1>5. Entry'
  BY DEF HandoffFailed, Entry
<1>6. Calls'
  BY DEF HandoffFailed, IInv, Calls
<1>7. Guarded'
  BY GuardedFrame DEF HandoffFailed, IInv
<1>8. Scans'
  BY DEF HandoffFailed, Scans
<1> QED BY <1>1, <1>2, <1>3, <1>4, <1>5, <1>6, <1>7, <1>8 DEF IInv
=============================================================================
