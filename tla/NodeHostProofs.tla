--------------------------- MODULE NodeHostProofs ---------------------------
(***************************************************************************)
(* The safety of the generation host for every number of addresses,        *)
(* generations, permits and attempts: the steps that stop, detach, reclaim *)
(* and drop generations keep the invariant too, IInv is inductive, and     *)
(* NodeHost's properties follow from it.                                   *)
(***************************************************************************)
EXTENDS NodeHostStepProofs

\* The provers, and the times, for a leaf that names none.
USE ZenonT(2), SMTT(10), ZenonT(20), SMTT(30), ZenonT(60)

USE HostConstants
    DEF Slots, Rx, Tx, Targets, Gens, Pointer, Stored, ControlAt, ControlGoto,
        ControlBegin, ControlDone, ControlScanned, At, Goto, Full, Inside, Dropping,
        Exposed, shared, owned, work, owner, control, CanPublish, Clear

\* Stop keeps the invariant.
LEMMA StopStep == ASSUME IInv, Stop PROVE IInv'
<1>1. TypeOK'
  <2>1. active' \in Pointer
    BY DEF Stop, IInv, TypeOK
  <2>2. step' \in ControlSteps /\ op' \in ControlOps /\ slot' \in Slots /\ target' \in Targets /\ last' \in BOOLEAN
    BY Zenon DEF Stop, IInv, TypeOK, ControlSteps, ControlOps
  <2> QED BY Zenon, <2>1, <2>2 DEF Stop, IInv, TypeOK
<1>2. Pairs' /\ Budget'
  BY ControlFrame DEF Stop
<1>3. Boxes'
  BY DEF Stop, IInv, Boxes
<1>4. Permits'
  BY DEF Stop, IInv, Permits
<1>5. Entry'
  BY DEF Stop, Entry
<1>6. Calls'
  BY DEF Stop, IInv, Calls
<1>7. Guarded'
  BY GuardedFrame DEF Stop, IInv
<1>8. Scans'
  BY DEF Stop, Scans
<1> QED BY <1>1, <1>2, <1>3, <1>4, <1>5, <1>6, <1>7, <1>8 DEF IInv

\* A stopping host admits no work.
LEMMA StopAdmissionStep == ASSUME IInv, StopAdmission PROVE IInv'
<1>1. TypeOK'
  <2>1. admitted' \in [Gens -> BOOLEAN]
    BY DEF StopAdmission, IInv, TypeOK
  <2>2. step' \in ControlSteps /\ op' \in ControlOps /\ slot' \in Slots /\ target' \in Targets /\ last' \in BOOLEAN
    BY Zenon DEF StopAdmission, IInv, TypeOK, ControlSteps, ControlOps
  <2> QED BY Zenon, <2>1, <2>2 DEF StopAdmission, IInv, TypeOK
<1>2. Pairs' /\ Budget'
  BY ControlFrame DEF StopAdmission
<1>3. Boxes'
  BY BoxesFrame DEF StopAdmission, IInv, Calls
<1>4. Permits'
  <2>1. \A g \in Gens : g > lastGen => ~InStore(g)
    BY DEF InStore, IInv, TypeOK, Boxes
  <2>2. stopping'
    BY DEF StopAdmission, IInv, Calls
  <2>3. \A g \in Gens : g > lastGen => admitted'[g] = admitted[g]
    BY Zenon, <2>1 DEF StopAdmission, IInv, TypeOK
  <2> QED BY <2>2, <2>3 DEF StopAdmission, IInv, Permits
<1>5. Entry'
  BY DEF StopAdmission, IInv, Entry, Calls
<1>6. Calls'
  BY DEF StopAdmission, Calls
<1>7. Guarded'
  BY GuardedFrame DEF StopAdmission, IInv
<1>8. Scans'
  BY DEF StopAdmission, Scans
<1> QED BY <1>1, <1>2, <1>3, <1>4, <1>5, <1>6, <1>7, <1>8 DEF IInv

\* GateCallbacks keeps the invariant.
LEMMA GateCallbacksStep == ASSUME IInv, GateCallbacks PROVE IInv'
<1>1. TypeOK'
  <2>1. active' \in Pointer
    BY DEF GateCallbacks, IInv, TypeOK
  <2> QED BY Zenon, <2>1 DEF GateCallbacks, IInv, TypeOK
<1>2. Pairs' /\ Budget'
  BY ControlFrame DEF GateCallbacks
<1>3. Boxes'
  BY BoxesFrame DEF GateCallbacks, IInv
<1>4. Permits'
  BY PermitsFrame DEF GateCallbacks, IInv
<1>5. Entry'
  BY DEF GateCallbacks, Entry
<1>6. Calls'
  BY DEF GateCallbacks, IInv, Calls
<1>7. Guarded'
  BY GuardedFrame DEF GateCallbacks, IInv
<1>8. Scans'
  BY DEF GateCallbacks, Scans
<1> QED BY <1>1, <1>2, <1>3, <1>4, <1>5, <1>6, <1>7, <1>8 DEF IInv

\* RestoreCallbacks keeps the invariant.
LEMMA RestoreCallbacksStep == ASSUME IInv, RestoreCallbacks PROVE IInv'
<1>1. TypeOK'
  <2>1. active' \in Pointer
    BY DEF RestoreCallbacks, IInv, TypeOK
  <2> QED BY Zenon, <2>1 DEF RestoreCallbacks, IInv, TypeOK
<1>2. Pairs' /\ Budget'
  BY ControlFrame DEF RestoreCallbacks
<1>3. Boxes'
  BY BoxesFrame DEF RestoreCallbacks, IInv
<1>4. Permits'
  BY PermitsFrame DEF RestoreCallbacks, IInv
<1>5. Entry'
  BY DEF RestoreCallbacks, IInv, Entry, Calls
<1>6. Calls'
  BY DEF RestoreCallbacks, IInv, Calls
<1>7. Guarded'
  BY GuardedFrame DEF RestoreCallbacks, IInv
<1>8. Scans'
  BY DEF RestoreCallbacks, Scans
<1> QED BY <1>1, <1>2, <1>3, <1>4, <1>5, <1>6, <1>7, <1>8 DEF IInv

\* A permit is taken only on the active generation.
LEMMA WorkStep == ASSUME IInv, Work PROVE IInv'
<1>1. TypeOK'
  <2>1. outstanding' \in [Gens -> 0..MaxWork]
    <3>1. Stored("active") \in Gens /\ outstanding[Stored("active")] < MaxWork
      BY DEF Work, IInv, TypeOK, Boxes
    <3>2. outstanding' = [outstanding EXCEPT ![Stored("active")] = @ + 1]
      BY DEF Work
    <3>3. outstanding \in [Gens -> 0..MaxWork]
      BY Zenon DEF IInv, TypeOK
    <3> QED BY <3>1, <3>2, <3>3
  <2> QED BY Zenon, <2>1 DEF Work, IInv, TypeOK
<1>2. Pairs' /\ Budget'
  BY ControlFrame DEF Work
<1>3. Boxes'
  BY BoxesFrame DEF Work, IInv
<1>4. Permits'
  <2>1. /\ Stored("active") = lastGen /\ lastGen \in Gens
        /\ store["active"] \in Addr
    BY DEF Work, IInv, TypeOK, Boxes
  <2>2. outstanding \in [Gens -> 0..MaxWork]
    BY DEF IInv, TypeOK
  <2>3. outstanding' = [outstanding EXCEPT ![lastGen] = @ + 1]
    BY <2>1 DEF Work
  <2>4. ASSUME NEW g \in Gens, g # lastGen PROVE outstanding'[g] = outstanding[g]
    BY <2>2, <2>3, <2>4
  <2>5. \A g \in Gens : g > lastGen => g # lastGen
    BY <2>1
  <2> QED BY <2>1, <2>4, <2>5 DEF Work, IInv, Permits
<1>5. Entry'
  BY DEF Work, IInv, Entry
<1>6. Calls'
  BY DEF Work, IInv, Calls
<1>7. Guarded'
  BY GuardedFrame DEF Work, IInv
<1>8. Scans'
  BY DEF Work, Scans
<1> QED BY <1>1, <1>2, <1>3, <1>4, <1>5, <1>6, <1>7, <1>8 DEF IInv

\* Detachment is believed only for a generation that admits nothing.
LEMMA MarkDetachedStep == ASSUME IInv, NEW g \in Gens, MarkDetached(g) PROVE IInv'
<1>1. TypeOK'
  <2>1. detached' \in [Gens -> BOOLEAN]
    BY DEF MarkDetached, IInv, TypeOK
  <2> QED BY Zenon, <2>1 DEF MarkDetached, IInv, TypeOK
<1>2. Pairs' /\ Budget'
  BY ControlFrame DEF MarkDetached
<1>3. Boxes'
  BY BoxesFrame DEF MarkDetached, IInv
<1>4. Permits'
  <2>1. g <= lastGen /\ ~admitted[g]
    BY DEF MarkDetached, InStore, IInv, TypeOK, Boxes
  <2>2. detached' = [detached EXCEPT ![g] = TRUE] /\ detached \in [Gens -> BOOLEAN]
    BY DEF MarkDetached, IInv, TypeOK
  <2>3. ASSUME NEW h \in Gens, h # g PROVE detached'[h] = detached[h]
    BY <2>2, <2>3
  <2>4. \A h \in Gens : h > lastGen => h # g
    BY <2>1 DEF IInv, TypeOK
  <2>5. Full("active") => Stored("active") \in Gens
    BY DEF IInv, TypeOK, Boxes
  <2> QED BY <2>1, <2>3, <2>4, <2>5 DEF MarkDetached, IInv, Permits
<1>5. Entry'
  BY DEF MarkDetached, IInv, Entry
<1>6. Calls'
  BY DEF MarkDetached, IInv, Calls
<1>7. Guarded'
  BY GuardedFrame DEF MarkDetached, IInv
<1>8. Scans'
  BY DEF MarkDetached, Scans
<1> QED BY <1>1, <1>2, <1>3, <1>4, <1>5, <1>6, <1>7, <1>8 DEF IInv

\* Without registered owners reclaim adopts on their behalf.
LEMMA ReclaimStep == ASSUME IInv, Reclaim PROVE IInv'
<1>1. TypeOK'
  <2>1. adopted' \in [Slots -> 0..MaxGen]
    BY DEF Reclaim, IInv, TypeOK
  <2>2. step' \in ControlSteps /\ op' \in ControlOps /\ slot' \in Slots /\ target' \in Targets /\ last' \in BOOLEAN
    BY Zenon DEF Reclaim, IInv, TypeOK, ControlSteps, ControlOps
  <2> QED BY Zenon, <2>1, <2>2 DEF Reclaim, IInv, TypeOK
<1>2. Pairs' /\ Budget'
  BY ControlFrame DEF Reclaim
<1>3. Boxes'
  <2>1. step = "idle" /\ op = "none" /\ step' \in {"idle", "check"} /\ op' \in {"none", "reclaim"}
    BY DEF Reclaim, IInv, Calls
  <2> QED BY <2>1, BoxesFrame DEF Reclaim, IInv
<1>4. Permits'
  <2>1. step = "idle" /\ op = "none" /\ step' \in {"idle", "check"} /\ op' \in {"none", "reclaim"}
    BY DEF Reclaim, IInv, Calls
  <2> QED BY <2>1, PermitsFrame DEF Reclaim, IInv
<1>5. Entry'
  <2>1. step = "idle" /\ op = "none" /\ step' \in {"idle", "check"} /\ op' \in {"none", "reclaim"}
    BY DEF Reclaim, IInv, Calls
  <2> QED BY <2>1 DEF Reclaim, IInv, Entry
<1>6. Calls'
  <2>1. \/ step' = "check" /\ op' = "reclaim"
        \/ step' = "idle" /\ op' = "none"
    BY DEF Reclaim, IInv, Calls
  <2> QED BY <2>1 DEF Calls
<1>7. Guarded'
  <2>1. step = "idle" /\ step' \in {"idle", "check"} /\ UNCHANGED <<pc, cand, hazards, heap, lastGen>>
    BY DEF Reclaim
  <2>2. CASE adopted' = adopted
    BY <2>1, <2>2, GuardedFrame DEF Reclaim, IInv
  <2>3. CASE adopted' # adopted
    <3>1. ~registered /\ store["active"] # Null /\ adopted' = [s \in Slots |-> Stored("active")]
      BY <2>3 DEF Reclaim
    <3>2. \A s \in Slots : pc[s] = "idle" /\ adopted'[s] = lastGen
      BY <3>1 DEF IInv, Pairs, Boxes
    <3>3. lastGen \in Int
      BY DEF IInv, TypeOK
    <3> QED BY <2>1, <3>2, <3>3 DEF Guarded, Latched, Joining, Behind
  <2> QED BY <2>2, <2>3
<1>8. Scans'
  <2>1. step' \in {"idle", "check"}
    BY DEF Reclaim
  <2> QED BY <2>1 DEF Scans
<1> QED BY <1>1, <1>2, <1>3, <1>4, <1>5, <1>6, <1>7, <1>8 DEF IInv

\* Destruction gates entry first.
LEMMA DropStep == ASSUME IInv, Drop PROVE IInv'
<1>1. TypeOK'
  <2>1. active' \in Pointer
    BY DEF Drop, IInv, TypeOK
  <2>2. step' \in ControlSteps /\ op' \in ControlOps /\ slot' \in Slots /\ target' \in Targets /\ last' \in BOOLEAN
    BY Zenon DEF Drop, IInv, TypeOK, ControlSteps, ControlOps
  <2> QED BY Zenon, <2>1, <2>2 DEF Drop, IInv, TypeOK
<1>2. Pairs' /\ Budget'
  BY ControlFrame DEF Drop
<1>3. Boxes'
  BY DEF Drop, IInv, Boxes
<1>4. Permits'
  BY DEF Drop, IInv, Permits
<1>5. Entry'
  BY DEF Drop, Entry
<1>6. Calls'
  BY DEF Drop, Calls
<1>7. Guarded'
  BY GuardedFrame DEF Drop, IInv
<1>8. Scans'
  BY DEF Drop, Scans
<1> QED BY <1>1, <1>2, <1>3, <1>4, <1>5, <1>6, <1>7, <1>8 DEF IInv

-----------------------------------------------------------------------------
\* What NextTarget leaves behind: the next store slot, or the end of the call.
Continued ==
  /\ step' \in {"idle", "dropped", "check"}
  /\ step' \in {"idle", "dropped"} => op' = "none"
  /\ step' = "check" => op' \in {"reclaim", "drop"}
  /\ Dropping' <=> Dropping
  /\ step' \in ControlSteps /\ op' \in ControlOps /\ slot' \in Slots
  /\ target' \in Targets /\ last' \in BOOLEAN

\* NextTarget moves on without touching anything but control.
LEMMA NextTargetFacts ==
  ASSUME IInv, NextTarget, step \in {"check", "freeScan", "free"}
  PROVE  Continued
BY Zenon DEF Continued, NextTarget, Other, IInv, TypeOK, Calls, ControlSteps, ControlOps

USE DEF Continued

\* A generation that must be kept stays in the store, or is forgotten by Drop.
LEMMA KeepStep ==
  ASSUME IInv, Keep, step \in {"check", "freeScan"}, UNCHANGED <<shared, owner>>,
         UNCHANGED <<heap, stopping, registered, outstanding, detached, lastGen>>,
         admitted' \in [Gens -> BOOLEAN],
         \A g \in Gens : admitted'[g] # admitted[g] => Dropping /\ g <= lastGen
  PROVE  IInv'
<1>1. Continued
  BY NextTargetFacts DEF Keep
<1>2. store' = store \/ (Dropping /\ store' = [store EXCEPT ![target] = Null])
  BY DEF Keep
<1>3. \A t \in Targets : store'[t] = store[t] \/ (Dropping /\ store'[t] = Null)
  BY <1>2 DEF IInv, TypeOK
<1>4. TypeOK'
  BY Zenon, <1>1, <1>2 DEF IInv, TypeOK
<1>5. Boxes'
  BY <1>1, <1>3 DEF IInv, Boxes
<1>6. Permits'
  <2>1. ASSUME NEW g \in Gens, g > lastGen
        PROVE  admitted[g] /\ admitted'[g] = admitted[g] /\ ~detached[g] /\ outstanding[g] = 0
    BY <2>1 DEF IInv, TypeOK, Permits
  <2>2. Full("active")' => store'["active"] = store["active"] /\ Stored("active") \in Gens
    BY <1>3 DEF IInv, TypeOK, Boxes
  <2> QED BY <1>1, <2>1, <2>2 DEF IInv, Permits
<1>7. Entry'
  BY <1>1, <1>3 DEF IInv, Entry
<1>8. Calls'
  BY <1>1 DEF Calls
<1>9. Guarded'
  BY <1>1, GuardedFrame DEF IInv
<1>10. Pairs' /\ Budget'
  BY ControlFrame
<1>11. Scans'
  BY <1>1 DEF Scans
<1> QED BY <1>4, <1>5, <1>6, <1>7, <1>8, <1>9, <1>10, <1>11 DEF IInv

\* Only a detached generation without permits is scanned for hazards.
LEMMA CheckStep == ASSUME IInv, Check PROVE IInv'
<1>1. CASE store[target] = Null
  <2>1. NextTarget /\ step = "check" /\ UNCHANGED <<shared, owned, owner>>
    BY <1>1 DEF Check
  <2>2. Continued
    BY <2>1, NextTargetFacts
  <2>3. TypeOK'
    BY Zenon, <2>1, <2>2 DEF IInv, TypeOK
  <2>4. Boxes' /\ Permits'
    BY <2>1, <2>2, BoxesFrame, PermitsFrame DEF IInv
  <2>8. Entry'
    BY <2>1, <2>2 DEF IInv, Entry
  <2>5. Calls' /\ Scans'
    BY <2>1, <2>2 DEF Calls, Scans
  <2>6. Guarded'
    BY <2>1, <2>2, GuardedFrame DEF IInv
  <2>7. Pairs' /\ Budget'
    BY <2>1, ControlFrame
  <2> QED BY <2>3, <2>4, <2>5, <2>6, <2>7, <2>8 DEF IInv
<1>2. CASE store[target] # Null
  <2>1. /\ Stored(target) \in Gens /\ Stored(target) <= lastGen
        /\ step = "check"
    BY <1>2 DEF Check, IInv, TypeOK, Boxes
  <2>2. /\ admitted' = IF op = "drop" THEN [admitted EXCEPT ![Stored(target)] = FALSE] ELSE admitted
        /\ UNCHANGED <<shared, heap, stopping, registered, outstanding, detached, lastGen, owner>>
    BY Zenon, <1>2 DEF Check
  <2>3. /\ admitted' \in [Gens -> BOOLEAN]
        /\ \A g \in Gens : admitted'[g] # admitted[g] => Dropping /\ g <= lastGen
    BY Zenon, <2>1, <2>2 DEF IInv, TypeOK
  <2>4. CASE ~(detached[Stored(target)] /\ outstanding[Stored(target)] = 0)
    <3>1. Keep
      BY Zenon, <1>2, <2>4 DEF Check
    <3> QED BY Zenon, <2>1, <2>2, <2>3, <3>1, KeepStep DEF shared, owner
  <2>5. CASE detached[Stored(target)] /\ outstanding[Stored(target)] = 0
    <3>1. step' = "freeScan" /\ slot' = Rx /\ UNCHANGED <<op, target, last, store>>
      BY <1>2, <2>5 DEF Check
    <3>2. TypeOK'
      BY Zenon, <2>2, <2>3, <3>1 DEF IInv, TypeOK, ControlSteps
    <3>3. Boxes' /\ Entry'
      BY <2>1, <2>2, <3>1, BoxesFrame DEF IInv, Entry
    <3>4. Permits'
      <4>1. ASSUME NEW g \in Gens, g > lastGen
            PROVE  admitted[g] /\ admitted'[g] = admitted[g] /\ ~detached[g] /\ outstanding[g] = 0
        BY <2>3, <4>1 DEF IInv, TypeOK, Permits
      <4>2. Full("active") => Stored("active") \in Gens
        BY DEF IInv, TypeOK, Boxes
      <4> QED BY Zenon, <2>1, <2>2, <2>3, <3>1, <4>1, <4>2 DEF IInv, Permits
    <3>5. Calls'
      BY Zenon, <1>2, <2>1, <2>2, <2>5, <3>1 DEF IInv, Calls
    <3>6. Guarded'
      BY <2>1, <2>2, <3>1, GuardedFrame DEF IInv
    <3>7. Pairs' /\ Budget'
      BY <2>2, ControlFrame
    <3>8. Scans'
      BY <3>1 DEF Scans
    <3> QED BY <3>2, <3>3, <3>4, <3>5, <3>6, <3>7, <3>8 DEF IInv
  <2> QED BY <2>4, <2>5
<1> QED BY <1>1, <1>2

\* A slot that does not protect the box cannot come to protect it.
LEMMA FreeScanStep == ASSUME IInv, FreeScan PROVE IInv'
<1>1. step = "freeScan" /\ UNCHANGED <<shared, heap, stopping, registered, work, lastGen, owner>>
  BY DEF FreeScan
<1>2. CASE hazards[slot] = store[target]
  <2>1. Keep
    BY <1>2 DEF FreeScan
  <2>2. admitted' \in [Gens -> BOOLEAN]
    BY <1>1 DEF IInv, TypeOK
  <2> QED BY <1>1, <2>1, <2>2, KeepStep
<1>3. CASE hazards[slot] # store[target]
  <2>1. /\ step' = IF slot = Rx THEN "freeScan" ELSE "free"
        /\ slot' = Tx
        /\ UNCHANGED <<op, target, last, store>>
    BY Zenon, <1>3 DEF FreeScan
  <2>2. TypeOK'
    BY Zenon, <1>1, <2>1 DEF IInv, TypeOK, ControlSteps
  <2>3. Boxes' /\ Permits'
    BY <1>1, <2>1, BoxesFrame, PermitsFrame DEF IInv
  <2>8. Entry' /\ Calls'
    BY <1>1, <2>1 DEF IInv, Entry, Calls
  <2>4. Guarded'
    BY <1>1, <2>1, GuardedFrame DEF IInv
  <2>5. Pairs' /\ Budget'
    BY <1>1, ControlFrame
  <2>6. Clear(slot, store[target])
    BY <1>3 DEF IInv, TypeOK, Guarded, Latched
  <2>7. Scans'
    BY <1>1, <2>1, <2>6 DEF IInv, TypeOK, Scans
  <2> QED BY <2>2, <2>3, <2>4, <2>5, <2>7, <2>8 DEF IInv
<1> QED BY <1>2, <1>3

\* The freed box has no permits, is not enterable and nobody is inside it.
LEMMA FreeStep == ASSUME IInv, Free PROVE IInv'
<1> DEFINE box == store[target]
<1>1. /\ heap' = [heap EXCEPT ![box] = 0]
      /\ store' = [store EXCEPT ![target] = Null]
      /\ step = "free" /\ NextTarget
      /\ UNCHANGED <<shared, stopping, registered, work, lastGen, owner>>
  BY DEF Free
<1>2. Continued
  BY <1>1, NextTargetFacts
<1>3. box \in Addr /\ heap[box] \in Gens /\ detached[heap[box]] /\ outstanding[heap[box]] = 0
  BY <1>1 DEF IInv, TypeOK, Boxes, Calls
<1>4. target = "active" => stopping \/ Dropping
  BY <1>1, <1>3 DEF IInv, Permits
<1>5. \A x \in Addr : heap'[x] = IF x = box THEN 0 ELSE heap[x]
  BY <1>1 DEF IInv, TypeOK
<1>6. \A t \in Targets : store'[t] = IF t = target THEN Null ELSE store[t]
  BY <1>1 DEF IInv, TypeOK
<1>7. \A t \in Targets : t # target /\ store[t] # Null => store[t] \in Addr /\ store[t] # box
  BY <1>3 DEF IInv, TypeOK, Boxes
<1>8. TypeOK'
  <2>1. heap' \in [Addr -> 0..MaxGen]
    <3>1. heap \in [Addr -> 0..MaxGen] /\ 0 \in 0..MaxGen
      BY DEF IInv, TypeOK
    <3> QED BY Zenon, <1>1, <3>1
  <2>2. store' \in [Targets -> Pointer]
    BY <1>1 DEF IInv, TypeOK
  <2> QED BY Zenon, <1>1, <1>2, <2>1, <2>2 DEF IInv, TypeOK
<1>9. Boxes'
  <2>1. \A x, y \in Addr : x # y /\ heap'[x] # 0 => heap'[x] # heap'[y]
    BY <1>5 DEF IInv, Boxes
  <2>2. \A x \in Addr : heap'[x] <= lastGen'
    BY <1>1, <1>5 DEF IInv, TypeOK, Boxes
  <2>3. ASSUME NEW t \in Targets, store'[t] # Null
        PROVE  store'[t] = store[t] /\ t # target /\ heap'[store[t]] = heap[store[t]]
    BY Zenon, <1>5, <1>6, <1>7, <2>3
  <2>4. ASSUME ~Dropping, NEW x \in Addr, heap'[x] # 0
        PROVE  \E t \in Targets : store'[t] = x
    BY <1>5, <1>6, <2>4 DEF IInv, Boxes
  <2>5. ~stopping /\ ~Dropping => store'["active"] # Null
    BY <1>4, <1>6 DEF IInv, Boxes
  <2> QED BY <1>1, <1>2, <1>3, <1>6, <1>7, <2>1, <2>2, <2>3, <2>4, <2>5 DEF IInv, Boxes
<1>10. Permits'
  <2>1. ASSUME NEW g \in Gens, outstanding[g] > 0
        PROVE  \E x \in Addr : heap'[x] = g
    <3>1. PICK x \in Addr : heap[x] = g
      BY <2>1 DEF IInv, Permits
    <3>2. x # box
      BY <1>3, <2>1, <3>1
    <3> QED BY <1>5, <3>1, <3>2
  <2>2. store'["active"] # Null => store'["active"] = store["active"] /\ heap'[store["active"]] = heap[store["active"]]
    BY <1>5, <1>6, <1>7
  <2> QED BY <1>1, <1>2, <2>1, <2>2 DEF IInv, Permits
<1>11. Entry'
  BY <1>1, <1>2, <1>4, <1>6 DEF IInv, TypeOK, Entry
<1>12. Calls' /\ Scans'
  BY <1>2 DEF Calls, Scans
<1>13. Guarded'
  <2>1. ASSUME NEW t \in Slots, Inside(t)
        PROVE  heap'[cand[t]] = heap[cand[t]]
    <3>1. cand[t] # box
      BY <1>1, <2>1 DEF IInv, Scans
    <3>2. cand[t] \in Addr
      BY <2>1 DEF IInv, TypeOK, Guarded, Latched
    <3> QED BY <1>5, <3>1, <3>2
  <2>2. Exposed' = Exposed
    BY <1>1, <1>2
  <2>3. ASSUME NEW t \in Slots PROVE Latched(t)'
    BY Zenon, <1>1, <2>1, <2>2 DEF IInv, Guarded, Latched
  <2>4. Joining' /\ Behind'
    BY <1>1, <2>1, <2>2 DEF IInv, Guarded, Joining, Behind
  <2> QED BY <2>3, <2>4 DEF Guarded
<1>14. Pairs' /\ Budget'
  BY <1>1, ControlFrame
<1> QED BY <1>8, <1>9, <1>10, <1>11, <1>12, <1>13, <1>14 DEF IInv

\* NodeHost::new establishes the invariant.
LEMMA InitIInv == Init => IInv
<1> SUFFICES ASSUME Init PROVE IInv
  OBVIOUS
<1>1. FirstBox \in Addr
  BY DEF FirstBox
<1>2. TypeOK
  <2>1. heap \in [Addr -> 0..MaxGen] /\ store \in [Targets -> Pointer]
    BY <1>1 DEF Init
  <2>2. adopted \in [Slots -> 0..MaxGen] /\ outstanding \in [Gens -> 0..MaxWork] /\ lastGen \in Gens
    BY DEF Init
  <2>3. pc \in [Slots -> OwnerPcs] /\ cand \in [Slots -> Pointer] /\ tries \in [Slots -> 0..Attempts]
    BY DEF Init, OwnerPcs
  <2> QED BY Zenon, <1>1, <2>1, <2>2, <2>3 DEF Init, TypeOK, ControlSteps, ControlOps
<1>3. Boxes /\ Permits
  BY <1>1 DEF Init, Boxes, Permits
<1>4. Entry /\ Calls
  BY <1>1 DEF Init, Entry, Calls
<1>5. Guarded /\ Pairs /\ Budget /\ Scans
  BY <1>1 DEF Init, Guarded, Latched, Joining, Behind, Pairs, Budget, Scans
<1> QED BY <1>2, <1>3, <1>4, <1>5 DEF IInv

\* Every step keeps the invariant.
LEMMA NextIInv == IInv /\ [Next]_vars => IInv'
<1> SUFFICES ASSUME IInv, [Next]_vars PROVE IInv'
  OBVIOUS
<1>1. ASSUME NEW s \in Slots, Acquire(s) PROVE IInv'
  BY <1>1, AcquireStep
<1>2. CASE AcquirePair
  BY <1>2, AcquirePairStep
<1>3. ASSUME NEW s \in Slots, Reload(s) PROVE IInv'
  BY <1>3, ReloadStep
<1>4. ASSUME NEW s \in Slots, Protect(s) PROVE IInv'
  BY <1>4, ProtectStep
<1>5. ASSUME NEW s \in Slots, Validate(s) PROVE IInv'
  BY <1>5, ValidateStep
<1>6. ASSUME NEW s \in Slots, Retract(s) PROVE IInv'
  BY <1>6, RetractStep
<1>7. ASSUME NEW s \in Slots, Adopt(s) PROVE IInv'
  BY <1>7, AdoptStep
<1>8. CASE PairProtect
  BY <1>8, PairProtectStep
<1>9. CASE PairAdopt
  BY <1>9, PairAdoptStep
<1>10. ASSUME NEW s \in Slots, Release(s) PROVE IInv'
  BY <1>10, ReleaseStep
<1>11. CASE ReleasePair
  BY <1>11, ReleasePairStep
<1>12. ASSUME NEW g \in Gens, FinishWork(g) PROVE IInv'
  BY <1>12, FinishWorkStep
<1>13. CASE RegisterAudio
  BY <1>13, RegisterAudioStep
<1>14. ASSUME NEW a \in Addr, Publish(a) PROVE IInv'
  BY <1>14, PublishStep
<1>15. CASE Expose
  BY <1>15, ExposeStep
<1>16. ASSUME NEW call \in {"transfer", "handoff"}, Gate(call) PROVE IInv'
  BY <1>16, GateStep
<1>17. CASE GateScan
  BY <1>17, GateScanStep
<1>18. CASE Restore
  BY <1>18, RestoreStep
<1>19. ASSUME NEW a \in Addr, Transfer(a) PROVE IInv'
  BY <1>19, TransferStep
<1>20. ASSUME NEW a \in Addr, HandoffOpened(a) PROVE IInv'
  BY <1>20, HandoffOpenedStep
<1>21. CASE HandoffReopened
  BY <1>21, HandoffReopenedStep
<1>22. CASE HandoffFailed
  BY <1>22, HandoffFailedStep
<1>23. CASE Stop
  BY <1>23, StopStep
<1>24. CASE StopAdmission
  BY <1>24, StopAdmissionStep
<1>25. CASE GateCallbacks
  BY <1>25, GateCallbacksStep
<1>26. CASE RestoreCallbacks
  BY <1>26, RestoreCallbacksStep
<1>27. CASE Work
  BY <1>27, WorkStep
<1>28. ASSUME NEW g \in Gens, MarkDetached(g) PROVE IInv'
  BY <1>28, MarkDetachedStep
<1>29. CASE Reclaim
  BY <1>29, ReclaimStep
<1>30. CASE Drop
  BY <1>30, DropStep
<1>31. CASE Check
  BY <1>31, CheckStep
<1>32. CASE FreeScan
  BY <1>32, FreeScanStep
<1>33. CASE Free
  BY <1>33, FreeStep
<1>34. CASE UNCHANGED vars
  <2>1. TypeOK'
    BY Zenon, <1>34 DEF vars, IInv, TypeOK
  <2>2. Boxes' /\ Permits' /\ Entry' /\ Calls'
    BY <1>34, OwnerFrame DEF vars
  <2>3. Pairs' /\ Budget'
    BY <1>34, ControlFrame DEF vars
  <2>4. Guarded'
    BY <1>34 DEF vars, IInv, Guarded, Latched, Joining, Behind
  <2>5. Scans'
    BY <1>34 DEF vars, IInv, Scans
  <2> QED BY <2>1, <2>2, <2>3, <2>4, <2>5 DEF IInv
<1> QED
  BY <1>1, <1>2, <1>3, <1>4, <1>5, <1>6, <1>7, <1>8, <1>9, <1>10, <1>11, <1>12, <1>13, <1>14, <1>15, <1>16, <1>17, <1>18, <1>19, <1>20, <1>21, <1>22, <1>23, <1>24, <1>25, <1>26, <1>27, <1>28, <1>29, <1>30, <1>31, <1>32, <1>33, <1>34
  DEF Next, Operate, OwnerStep, PairStep, ControlStep, ControlCall

\* The inductive invariant holds for every number of addresses, generations,
\* permits and attempts, whether or not the callbacks enter as a pair.
THEOREM Invariance == Spec => []IInv
<1>1. Init => IInv
  BY InitIInv
<1>2. IInv /\ [Next]_vars => IInv'
  BY NextIInv
<1> QED BY <1>1, <1>2, PTL DEF Spec

\* The host's state keeps its types.
THEOREM TypeCorrect == Spec => []TypeOK
<1>1. IInv => TypeOK
  BY DEF IInv
<1> QED BY <1>1, Invariance, PTL

\* Hazard protocol: a callback between a successful validation and the drop of
\* its guard always finds its generation allocated and unchanged at its pointer.
THEOREM CallbacksSafe == Spec => []NoUseAfterFree
<1>1. IInv => NoUseAfterFree
  BY DEF IInv, Guarded, Latched, NoUseAfterFree
<1> QED BY <1>1, Invariance, PTL

\* publish_transferring and handoff own the callbacks' state exclusively.
THEOREM TransferExclusive == Spec => []ExclusiveTransfer
<1>1. IInv => ExclusiveTransfer
  BY DEF IInv, Scans, ExclusiveTransfer
<1> QED BY <1>1, Invariance, PTL

\* reclaim and Drop free no generation that a permit still refers to.
THEOREM PermitsSafe == Spec => []WorkRetainsStorage
<1>1. IInv => WorkRetainsStorage
  BY DEF IInv, Permits, WorkRetainsStorage
<1> QED BY <1>1, Invariance, PTL

\* Until the host is destroyed every allocated generation is in the store.
THEOREM NoLeak == Spec => []NothingLeaks
<1>1. IInv => NothingLeaks
  BY Zenon DEF IInv, TypeOK, Boxes, NothingLeaks
<1> QED BY <1>1, Invariance, PTL

\* The adoption reported by each slot only grows.
THEOREM AdoptionMonotone == Spec => AdoptionNeverRegresses
<1>1. IInv /\ [Next]_vars => [\A s \in Slots : adopted'[s] >= adopted[s]]_vars
  <2> SUFFICES ASSUME IInv, Next, NEW t \in Slots PROVE adopted'[t] >= adopted[t]
    OBVIOUS
  <2>1. adopted \in [Slots -> 0..MaxGen] /\ adopted[t] \in Int
    BY DEF IInv, TypeOK
  <2>2. CASE UNCHANGED adopted
    BY <2>1, <2>2
  <2>3. ASSUME NEW s \in Slots, Adopt(s) PROVE adopted'[t] >= adopted[t]
    <3>1. adopted' = [adopted EXCEPT ![s] = heap[cand[s]]]
      BY <2>3 DEF Adopt
    <3>2. adopted[s] <= heap[cand[s]] /\ heap[cand[s]] \in Int
      BY <2>3 DEF Adopt, IInv, TypeOK, Guarded, Latched
    <3> QED BY <2>1, <3>1, <3>2
  <2>4. CASE PairAdopt
    <3>1. adopted' = [adopted EXCEPT ![Tx] = heap[cand[Rx]]]
      BY <2>4 DEF PairAdopt
    <3>2. adopted[Tx] <= heap[cand[Rx]] /\ heap[cand[Rx]] \in Int
      BY <2>4 DEF PairAdopt, IInv, TypeOK, Pairs, Guarded, Latched, Joining
    <3> QED BY <2>1, <3>1, <3>2
  <2>5. CASE Reclaim
    <3>1. store["active"] # Null => Stored("active") = lastGen
      BY DEF IInv, Boxes
    <3>2. adopted[t] <= lastGen /\ lastGen \in Int
      BY <2>5 DEF Reclaim, IInv, TypeOK, Guarded, Behind
    <3>3. adopted'[t] = adopted[t] \/ adopted'[t] = lastGen
      BY <2>5, <3>1 DEF Reclaim
    <3> QED BY <2>1, <3>2, <3>3
  <2>6. UNCHANGED adopted \/ (\E s \in Slots : Adopt(s)) \/ PairAdopt \/ Reclaim
    BY ZenonT(60) DEF Next, Operate, OwnerStep, PairStep, ControlStep, ControlCall,
           Acquire, AcquirePair, Reload, Protect, Validate, Retract, PairProtect, Release,
           ReleasePair, FinishWork, RegisterAudio, Publish, Transfer, HandoffOpened, Install,
           Expose, Gate, GateScan, Restore, HandoffReopened, HandoffFailed, Stop,
           StopAdmission, GateCallbacks, RestoreCallbacks, Work, MarkDetached, Drop, Check,
           FreeScan, Free
  <2> QED BY <2>2, <2>3, <2>4, <2>5, <2>6
<1> QED BY <1>1, Invariance, PTL DEF Spec, AdoptionNeverRegresses

-----------------------------------------------------------------------------
(* The host implements the cell: each step is one step of it or a stutter.   *)

\* Entry is gated, or opened to the newest generation: the five places that
\* store Shared.active.
LEMMA SwitchStep ==
  ASSUME IInv, active' \in {Null, store["active"]}, UNCHANGED <<heap, lastGen, pc, cand>>,
         store["active"] # Null \/ active' = Null
  PROVE  Cell!SwitchEntry
<1>1. UNCHANGED <<CellHeld, CellLive>>
  BY DEF CellHeld, CellLive
<1>2. CASE active' = Null
  BY <1>1, <1>2 DEF Cell!SwitchEntry, CellCurrent
<1>3. CASE active' # Null
  <2>1. active' = store["active"] /\ store["active"] \in Addr /\ heap[store["active"]] = lastGen
    BY <1>3 DEF IInv, TypeOK, Boxes
  <2>2. CellCurrent' = lastGen /\ lastGen \in CellLive
    BY <1>3, <2>1 DEF CellCurrent, CellLive, IInv, TypeOK
  <2> QED BY <1>1, <2>2 DEF Cell!SwitchEntry
<1> QED BY <1>2, <1>3

\* Nothing the cell sees has changed: a callback that is outside may choose
\* another candidate.
LEMMA StutterStep ==
  ASSUME UNCHANGED <<active, heap, lastGen>>,
         \A s \in Slots : (Inside(s)' <=> Inside(s)) /\ (cand'[s] = cand[s] \/ ~Inside(s))
  PROVE  UNCHANGED Cell!cellVars
BY DEF Cell!cellVars, CellCurrent, CellHeld, CellLive

\* publish_prepared, however it was reached, prepares the next generation.
LEMMA PrepareStep ==
  ASSUME IInv, NEW a \in Addr, Install(a), CanPublish
  PROVE  Cell!PrepareGeneration
<1>1. /\ heap[a] = 0 /\ heap' = [heap EXCEPT ![a] = lastGen + 1] /\ lastGen' = lastGen + 1
      /\ lastGen < MaxGen /\ UNCHANGED <<active, pc, cand>>
  BY DEF Install, CanPublish
<1>2. heap \in [Addr -> 0..MaxGen] /\ lastGen \in Gens
  BY DEF IInv, TypeOK
<1>3. CellLive' = CellLive \union {lastGen + 1}
  <2>1. ASSUME NEW b \in Addr, b # a PROVE heap'[b] = heap[b]
    BY <1>1, <1>2, <2>1
  <2>2. heap'[a] = lastGen + 1 /\ lastGen + 1 # 0
    BY <1>1, <1>2
  <2> QED BY <1>1, <2>1, <2>2 DEF CellLive
<1>4. UNCHANGED CellCurrent
  <2>1. active # Null => active \in Addr /\ heap[active] # 0
    BY DEF IInv, TypeOK, Entry, Boxes
  <2> QED BY <1>1, <1>2, <2>1 DEF CellCurrent
<1>5. UNCHANGED CellHeld
  <2>1. ASSUME NEW s \in Slots, Inside(s) PROVE cand[s] \in Addr /\ heap[cand[s]] # 0
    BY <2>1 DEF IInv, TypeOK, Guarded, Latched
  <2> QED BY <1>1, <1>2, <2>1 DEF CellHeld
<1> QED BY <1>1, <1>3, <1>4, <1>5 DEF Cell!PrepareGeneration

\* A successful second look at the published pointer enters what is current.
LEMMA ValidateEnters ==
  ASSUME IInv, NEW s \in Slots, Validate(s)
  PROVE  Cell!Enter(s) \/ UNCHANGED Cell!cellVars
<1>1. At(s, "validate") /\ UNCHANGED <<active, heap, lastGen, cand>>
  BY DEF Validate
<1>2. pc \in [Slots -> OwnerPcs]
  BY DEF IInv, TypeOK
<1>3. CASE CandidateIsCurrent(s)
  <2>1. pc' = [pc EXCEPT ![s] = "adopt"]
    BY <1>3 DEF Validate
  <2>2. CellHeld[s] = 0 /\ CellHeld' = [CellHeld EXCEPT ![s] = heap[cand[s]]]
    BY Zenon, <1>1, <1>2, <2>1 DEF CellHeld
  <2>3. heap[cand[s]] = CellCurrent /\ CellCurrent # 0
    BY <1>3 DEF CandidateIsCurrent, CellCurrent, IInv, TypeOK, Entry, Boxes
  <2> QED BY <1>1, <2>2, <2>3 DEF Cell!Enter, CellCurrent, CellLive
<1>4. CASE ~CandidateIsCurrent(s)
  <2>1. pc' = [pc EXCEPT ![s] = "retract"]
    BY <1>4 DEF Validate
  <2> QED BY <1>1, <1>2, <2>1, StutterStep
<1> QED BY <1>3, <1>4

\* The transmit owner of a pair enters what the receive owner holds.
LEMMA PairAdoptEnters ==
  ASSUME IInv, PairAdopt
  PROVE  Cell!EnterWithPartner
<1>1. /\ At(Rx, "pairAdopt") /\ UNCHANGED <<active, heap, lastGen>>
      /\ pc' = [pc EXCEPT ![Rx] = "held", ![Tx] = "paired"]
      /\ cand' = [cand EXCEPT ![Tx] = cand[Rx]]
  BY DEF PairAdopt
<1>2. At(Tx, "lent") /\ heap[cand[Rx]] # 0
  BY <1>1 DEF IInv, Pairs, Guarded, Latched
<1>3. pc \in [Slots -> OwnerPcs] /\ cand \in [Slots -> Pointer]
  BY DEF IInv, TypeOK
<1>4. CellHeld' = [CellHeld EXCEPT ![Tx] = heap[cand[Rx]]]
  BY Zenon, <1>1, <1>2, <1>3 DEF CellHeld
<1>5. CellHeld[Tx] = 0 /\ CellHeld[Rx] = heap[cand[Rx]]
  BY <1>1, <1>2 DEF CellHeld
<1>6. UNCHANGED <<CellCurrent, CellLive>>
  BY <1>1 DEF CellCurrent, CellLive
<1> QED BY <1>1, <1>2, <1>4, <1>5, <1>6 DEF Cell!EnterWithPartner, Cell!Rx, Cell!Tx

\* Dropping a guard, or the first half of a pair's drop, leaves.
LEMMA ReleaseLeaves ==
  ASSUME IInv, NEW s \in Slots, Release(s)
  PROVE  Cell!Leave
<1>1. At(s, "held") /\ UNCHANGED <<active, heap, lastGen>>
  BY DEF Release
<1>2. UNCHANGED <<CellCurrent, CellLive>>
  BY <1>1 DEF CellCurrent, CellLive
<1>3. pc \in [Slots -> OwnerPcs] /\ cand \in [Slots -> Pointer]
  BY DEF IInv, TypeOK
<1>4. CASE s = Rx /\ At(Tx, "paired")
  <2>1. pc' = [pc EXCEPT ![Rx] = "unpair", ![Tx] = "lent"]
    BY <1>4 DEF Release
  <2>2. CellHeld' = [t \in Slots |-> IF t \in Slots THEN 0 ELSE CellHeld[t]]
    BY <1>3, <2>1 DEF CellHeld
  <2> QED BY <1>1, <1>2, <2>2 DEF Cell!Leave, Cell!Slots, Cell!Rx, Cell!Tx
<1>5. CASE ~(s = Rx /\ At(Tx, "paired"))
  <2>1. pc' = [pc EXCEPT ![s] = "idle"] /\ cand' = [cand EXCEPT ![s] = Null]
    BY <1>5 DEF Release, Return
  <2>2. CellHeld' = [t \in Slots |-> IF t \in {s} THEN 0 ELSE CellHeld[t]]
    BY <1>1, <1>3, <2>1 DEF CellHeld
  <2> QED BY Zenon, <1>1, <1>2, <2>2 DEF Cell!Leave, Cell!Slots, Cell!Rx, Cell!Tx
<1> QED BY <1>4, <1>5

\* What is freed is neither open for entry nor held.
LEMMA FreeFrees ==
  ASSUME IInv, Free
  PROVE  \E g \in CellLive : Cell!FreeGeneration(g)
<1> DEFINE a == store[target]
<1>1. /\ step = "free" /\ heap' = [heap EXCEPT ![a] = 0] /\ UNCHANGED <<active, lastGen, pc, cand>>
  BY DEF Free
<1>2. a \in Addr /\ heap[a] # 0 /\ heap \in [Addr -> 0..MaxGen]
  BY <1>1 DEF IInv, TypeOK, Calls, Boxes
<1>3. \A b \in Addr : b # a => heap[b] # heap[a]
  BY <1>2 DEF IInv, Boxes
<1>4. \A s \in Slots : Inside(s) => cand[s] \in Addr /\ cand[s] # a
  BY <1>1 DEF IInv, TypeOK, Guarded, Latched, Scans
<1>5. active # Null => active \in Addr /\ active # a
  <2>1. detached[heap[a]] /\ op \in {"reclaim", "drop"}
    BY <1>1 DEF IInv, Calls
  <2>2. active # Null => active = store["active"] /\ ~stopping /\ ~Dropping
    BY <1>1 DEF IInv, Entry
  <2>3. active # Null => ~detached[Stored("active")]
    BY <2>2 DEF IInv, Permits
  <2> QED BY <2>1, <2>2, <2>3 DEF IInv, TypeOK
<1>6. heap[a] # CellCurrent /\ UNCHANGED CellCurrent
  BY <1>1, <1>2, <1>3, <1>5 DEF CellCurrent
<1>7. (\A s \in Slots : CellHeld[s] # heap[a]) /\ UNCHANGED CellHeld
  BY <1>1, <1>2, <1>3, <1>4 DEF CellHeld
<1>8. CellLive' = CellLive \ {heap[a]}
  BY <1>1, <1>2, <1>3 DEF CellLive
<1>9. heap[a] \in CellLive
  BY <1>2 DEF CellLive
<1> QED BY <1>1, <1>6, <1>7, <1>8, <1>9 DEF Cell!FreeGeneration, Cell!Slots, Cell!Rx, Cell!Tx

\* The steps of a callback owner that the cell does not see.
LEMMA OwnerStutters ==
  ASSUME IInv, NEW s \in Slots,
         Acquire(s) \/ Reload(s) \/ Protect(s) \/ Retract(s) \/ Adopt(s)
  PROVE  UNCHANGED Cell!cellVars
<1>1. pc \in [Slots -> OwnerPcs] /\ cand \in [Slots -> Pointer]
  BY DEF IInv, TypeOK
<1>2. UNCHANGED <<active, heap, lastGen>>
  BY DEF Acquire, Reload, Protect, Retract, Adopt
<1>3. CASE Acquire(s) \/ Reload(s)
  <2>1. ~Inside(s) /\ pc' = [pc EXCEPT ![s] = "protect"] /\ cand' = [cand EXCEPT ![s] = active]
    BY <1>3 DEF Acquire, Reload, Load
  <2> QED BY <1>1, <1>2, <2>1, StutterStep
<1>4. CASE Protect(s)
  <2>1. ~Inside(s) /\ pc' = [pc EXCEPT ![s] = "validate"] /\ cand' = cand
    BY <1>4 DEF Protect
  <2> QED BY <1>1, <1>2, <2>1, StutterStep
<1>5. CASE Retract(s)
  <2>1. \A t \in Slots : pc'[t] = pc[t] \/ (~Inside(t) /\ pc'[t] \in {"idle", "load"})
    BY <1>1, <1>5 DEF Retract, Return
  <2>2. \A t \in Slots : cand'[t] = cand[t] \/ ~Inside(t)
    BY <1>1, <1>5 DEF Retract, Return
  <2> QED BY <1>2, <2>1, <2>2, StutterStep
<1>6. CASE Adopt(s)
  <2>1. Inside(s) /\ (pc' = [pc EXCEPT ![s] = "pair"] \/ pc' = [pc EXCEPT ![s] = "held"]) /\ cand' = cand
    BY Zenon, <1>6 DEF Adopt
  <2> QED BY <1>1, <1>2, <2>1, StutterStep
<1> QED BY <1>3, <1>4, <1>5, <1>6

\* The same for the steps of a pair.
LEMMA PairStutters ==
  ASSUME IInv, AcquirePair \/ PairProtect \/ ReleasePair
  PROVE  UNCHANGED Cell!cellVars
<1>1. pc \in [Slots -> OwnerPcs] /\ cand \in [Slots -> Pointer]
  BY DEF IInv, TypeOK
<1>2. UNCHANGED <<active, heap, lastGen>>
  BY DEF AcquirePair, PairProtect, ReleasePair
<1>3. CASE AcquirePair
  <2>1. /\ ~Inside(Rx) /\ ~Inside(Tx) /\ pc' = [pc EXCEPT ![Rx] = "protect", ![Tx] = "lent"]
        /\ cand' = [cand EXCEPT ![Rx] = active]
    BY <1>3 DEF AcquirePair, Load
  <2> QED BY <1>1, <1>2, <2>1, StutterStep
<1>4. CASE PairProtect
  <2>1. Inside(Rx) /\ pc' = [pc EXCEPT ![Rx] = "pairAdopt"] /\ cand' = cand
    BY <1>4 DEF PairProtect
  <2> QED BY <1>1, <1>2, <2>1, StutterStep
<1>5. CASE ReleasePair
  <2>1. ~Inside(Rx) /\ ~Inside(Tx) /\ pc' = [s \in Slots |-> "idle"]
    BY <1>5 DEF ReleasePair, IInv, Pairs
  <2> QED BY <1>2, <2>1, StutterStep
<1> QED BY <1>3, <1>4, <1>5

\* Every step of the host is a step of the cell or leaves it as it is.
LEMMA NextImplements == IInv /\ [Next]_vars => [Cell!CellNext]_(Cell!cellVars)
<1> SUFFICES ASSUME IInv, [Next]_vars PROVE Cell!CellNext \/ UNCHANGED Cell!cellVars
  OBVIOUS
<1> USE DEF Cell!CellNext, Cell!Slots, Cell!Rx, Cell!Tx
<1>1. ASSUME NEW s \in Slots, OwnerStep(s) PROVE Cell!CellNext \/ UNCHANGED Cell!cellVars
  BY <1>1, OwnerStutters, ValidateEnters, ReleaseLeaves DEF OwnerStep
<1>2. CASE PairStep
  BY <1>2, PairStutters, PairAdoptEnters DEF PairStep
<1>3. CASE Expose \/ Restore \/ RestoreCallbacks
  <2>1. active' = store["active"] /\ UNCHANGED <<heap, lastGen, pc, cand>>
    BY <1>3 DEF Expose, Restore, RestoreCallbacks
  <2>2. store["active"] # Null
    BY ZenonT(60), <1>3 DEF Expose, Restore, RestoreCallbacks, IInv, Calls
  <2> QED BY <2>1, <2>2, SwitchStep
<1>4. CASE HandoffFailed \/ Stop \/ GateCallbacks \/ Drop \/ \E call \in {"transfer", "handoff"} : Gate(call)
  <2>1. active' = Null /\ UNCHANGED <<heap, lastGen, pc, cand>>
    BY Zenon, <1>4 DEF HandoffFailed, Stop, GateCallbacks, Drop, Gate
  <2> QED BY <2>1, SwitchStep
<1>5. ASSUME NEW a \in Addr, Publish(a) \/ Transfer(a) \/ HandoffOpened(a)
      PROVE  Cell!CellNext
  <2>1. Install(a) /\ CanPublish
    BY <1>5 DEF Publish, Transfer, HandoffOpened, IInv, Calls
  <2> QED BY <2>1, PrepareStep
<1>6. CASE Free
  BY <1>6, FreeFrees
<1>7. CASE \/ GateScan \/ HandoffReopened \/ StopAdmission \/ Check \/ FreeScan \/ RegisterAudio
           \/ Work \/ Reclaim \/ (\E g \in Gens : FinishWork(g) \/ MarkDetached(g)) \/ UNCHANGED vars
  <2>1. UNCHANGED <<active, heap, lastGen, pc, cand>>
    BY Zenon, <1>7 DEF GateScan, HandoffReopened, StopAdmission, Check, FreeScan, RegisterAudio, Work,
                Reclaim, FinishWork, MarkDetached, vars
  <2> QED BY <2>1, StutterStep
<1> QED
  BY <1>1, <1>2, <1>3, <1>4, <1>5, <1>6, <1>7 DEF Next, Operate, ControlStep, ControlCall

\* The hazard protocol implements the cell that the callbacks are promised,
\* for every number of addresses, generations, permits and attempts.
THEOREM HostImplementsCell == Spec => ImplementsCell
<1>1. Init => Cell!CellInit
  <2> SUFFICES ASSUME Init PROVE Cell!CellInit
    OBVIOUS
  <2>1. FirstBox \in Addr
    BY DEF FirstBox
  <2>2. CellLive = {1} /\ CellCurrent = 1
    BY <2>1 DEF Init, CellLive, CellCurrent
  <2> QED BY <2>2 DEF Init, Cell!CellInit, CellHeld, Cell!Slots, Cell!Rx, Cell!Tx
<1>2. IInv /\ [Next]_vars => [Cell!CellNext]_(Cell!cellVars)
  BY NextImplements
<1> QED BY <1>1, <1>2, Invariance, PTL DEF Spec, ImplementsCell, Cell!CellSpec
=============================================================================
