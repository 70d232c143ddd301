------------------------------ MODULE NodeHost ------------------------------
(***************************************************************************)
(* One radio node's generation host: a control owner publishes, transfers,  *)
(* retires and frees configuration generations while a receive and a        *)
(* transmit callback enter the published one through hazard slots.          *)
(* rust/core/src/runtime/node_host.rs and generation.rs.                    *)
(*                                                                          *)
(* Every atomic access of the code is a step of its own, in one sequentially *)
(* consistent order (the accesses that decide safety are SeqCst).  Boxes    *)
(* live at addresses and an address is reused once freed, so a stale        *)
(* candidate pointer can meet a newer generation at the same address.       *)
(***************************************************************************)
EXTENDS Integers, FiniteSets, Sequences

CONSTANTS Addr,     \* heap addresses a boxed generation can have
          Null,     \* the null pointer
          MaxGen,   \* bound: generations prepared in one behaviour
          MaxWork,  \* bound: permits outstanding on one generation
          Attempts, \* loads Shared::acquire tries (2 in the code)
          Paired    \* whether the callbacks share a clock and enter as a pair

ASSUME HostConstants ==
  /\ Addr # {} /\ Null \notin Addr
  /\ MaxGen \in Nat \ {0}
  /\ MaxWork \in Nat
  /\ Attempts \in Nat \ {0}
  /\ Paired \in BOOLEAN

Rx == 0
Tx == 1
Slots == {Rx, Tx}
Gens == 1..MaxGen
Pointer == Addr \union {Null}
Targets == {"active", "retired"}

VARIABLES
  active,      \* Shared.active: what a callback may enter
  hazards,     \* Shared.hazards
  adopted,     \* Shared.adopted: generation last entered through each slot
  heap,        \* generation boxed at each address, 0 when free
  store,       \* Store.active and Store.retired
  stopping,    \* Store.stopping
  registered,  \* NodeHost.registered
  admitted,    \* WorkState.admitted of each generation
  outstanding, \* WorkState.outstanding of each generation
  detached,    \* RuntimeGeneration.detached of each generation
  lastGen,     \* id of the newest prepared generation
  pc,          \* where each callback owner is
  cand,        \* its candidate pointer
  tries,       \* its attempts so far
  step,        \* where the control owner is
  op,          \* the call it is in
  slot,        \* the hazard slot it looks at
  target,      \* the store slot it disposes of
  last         \* whether that is the second one

shared == <<active, hazards, adopted>>
work   == <<admitted, outstanding, detached>>
owned  == <<heap, store, stopping, registered, work, lastGen>>
owner  == <<pc, cand, tries>>
control == <<step, op, slot, target, last>>
vars   == <<shared, owned, owner, control>>

OwnerPcs == {"idle", "load", "protect", "validate", "retract", "adopt",
             "pair", "pairAdopt", "held", "unpair", "lent", "paired"}
ControlSteps == {"idle", "expose", "gateScan", "restore", "transfer", "closed",
                 "stop", "check", "freeScan", "free", "dropped"}
ControlOps == {"none", "transfer", "handoff", "reclaim", "drop"}

TypeOK ==
  /\ active \in Pointer
  /\ hazards \in [Slots -> Pointer]
  /\ adopted \in [Slots -> 0..MaxGen]
  /\ heap \in [Addr -> 0..MaxGen]
  /\ store \in [Targets -> Pointer]
  /\ stopping \in BOOLEAN
  /\ registered \in BOOLEAN
  /\ admitted \in [Gens -> BOOLEAN]
  /\ outstanding \in [Gens -> 0..MaxWork]
  /\ detached \in [Gens -> BOOLEAN]
  /\ lastGen \in Gens
  /\ pc \in [Slots -> OwnerPcs]
  /\ cand \in [Slots -> Pointer]
  /\ tries \in [Slots -> 0..Attempts]
  /\ step \in ControlSteps
  /\ op \in ControlOps
  /\ slot \in Slots
  /\ target \in Targets
  /\ last \in BOOLEAN

\* Where the allocator put the first box; the addresses are interchangeable.
FirstBox == CHOOSE a \in Addr : TRUE

\* NodeHost::new around one prepared generation.
Init ==
  /\ active = FirstBox
  /\ hazards = [s \in Slots |-> Null]
  /\ adopted = [s \in Slots |-> 0]
  /\ heap = [a \in Addr |-> IF a = FirstBox THEN 1 ELSE 0]
  /\ store = [t \in Targets |-> IF t = "active" THEN FirstBox ELSE Null]
  /\ stopping = FALSE
  /\ registered = FALSE
  /\ admitted = [g \in Gens |-> TRUE]
  /\ outstanding = [g \in Gens |-> 0]
  /\ detached = [g \in Gens |-> FALSE]
  /\ lastGen = 1
  /\ pc = [s \in Slots |-> "idle"]
  /\ cand = [s \in Slots |-> Null]
  /\ tries = [s \in Slots |-> 0]
  /\ step = "idle" /\ op = "none" /\ slot = Rx /\ target = "active" /\ last = FALSE

-----------------------------------------------------------------------------
(* Callback owners: Shared::acquire, acquire_pair and the guards' drops.     *)

At(s, label) == pc[s] = label
Goto(s, label) == pc' = [pc EXCEPT ![s] = label] /\ UNCHANGED <<cand, tries>>

\* Load the published pointer: the start of an attempt.
Load(s) ==
  /\ cand' = [cand EXCEPT ![s] = active]
  /\ tries' = [tries EXCEPT ![s] = @ + 1]

\* The call returns; its locals are gone.
Return(s) ==
  /\ cand' = [cand EXCEPT ![s] = Null]
  /\ tries' = [tries EXCEPT ![s] = 0]

\* OwnedReceiveOwner::acquire and OwnedTransmitOwner::acquire, first load.
Acquire(s) ==
  /\ registered
  /\ At(s, "idle")
  /\ Load(s)
  /\ pc' = [pc EXCEPT ![s] = "protect"]
  /\ UNCHANGED <<shared, owned, control>>

\* acquire_pair borrows the transmit owner for the whole call.
AcquirePair ==
  /\ Paired /\ registered
  /\ At(Rx, "idle") /\ At(Tx, "idle")
  /\ Load(Rx)
  /\ pc' = [pc EXCEPT ![Rx] = "protect", ![Tx] = "lent"]
  /\ UNCHANGED <<shared, owned, control>>

Reload(s) ==
  /\ At(s, "load")
  /\ Load(s)
  /\ pc' = [pc EXCEPT ![s] = "protect"]
  /\ UNCHANGED <<shared, owned, control>>

Protect(s) ==
  /\ At(s, "protect")
  /\ hazards' = [hazards EXCEPT ![s] = cand[s]]
  /\ Goto(s, "validate")
  /\ UNCHANGED <<active, adopted, owned, control>>

CandidateIsCurrent(s) == cand[s] # Null /\ cand[s] = active

\* Mutant: enters on the first load, without the second look at active.
ValidateBlindly(s) ==
  /\ At(s, "validate")
  /\ Goto(s, IF cand[s] # Null THEN "adopt" ELSE "retract")
  /\ UNCHANGED <<shared, owned, control>>

Validate(s) ==
  /\ At(s, "validate")
  /\ Goto(s, IF CandidateIsCurrent(s) THEN "adopt" ELSE "retract")
  /\ UNCHANGED <<shared, owned, control>>

\* The slot is cleared; the last failure returns None and ends the borrow.
Retract(s) ==
  /\ At(s, "retract")
  /\ hazards' = [hazards EXCEPT ![s] = Null]
  /\ IF tries[s] < Attempts
     THEN Goto(s, "load")
     ELSE /\ Return(s)
          /\ pc' = [t \in Slots |->
                      IF t = s \/ (s = Rx /\ At(t, "lent")) THEN "idle" ELSE pc[t]]
  /\ UNCHANGED <<active, adopted, owned, control>>

\* Mutant: the transmit owner enters without reporting what it adopted.
AdoptSilently(s) ==
  /\ At(s, "adopt")
  /\ adopted' = IF s = Rx THEN [adopted EXCEPT ![s] = heap[cand[s]]] ELSE adopted
  /\ Goto(s, IF s = Rx /\ At(Tx, "lent") THEN "pair" ELSE "held")
  /\ UNCHANGED <<active, hazards, owned, control>>

\* The first read of the pointee: its id.
Adopt(s) ==
  /\ At(s, "adopt")
  /\ adopted' = [adopted EXCEPT ![s] = heap[cand[s]]]
  /\ Goto(s, IF s = Rx /\ At(Tx, "lent") THEN "pair" ELSE "held")
  /\ UNCHANGED <<active, hazards, owned, control>>

PairProtect ==
  /\ At(Rx, "pair")
  /\ hazards' = [hazards EXCEPT ![Tx] = cand[Rx]]
  /\ Goto(Rx, "pairAdopt")
  /\ UNCHANGED <<active, adopted, owned, control>>

PairAdopt ==
  /\ At(Rx, "pairAdopt")
  /\ adopted' = [adopted EXCEPT ![Tx] = heap[cand[Rx]]]
  /\ pc' = [pc EXCEPT ![Rx] = "held", ![Tx] = "paired"]
  /\ cand' = [cand EXCEPT ![Tx] = cand[Rx]]
  /\ UNCHANGED tries
  /\ UNCHANGED <<active, hazards, owned, control>>

\* GenerationGuard::drop, or the first store of PairedGuard::drop.
Release(s) ==
  /\ At(s, "held")
  /\ hazards' = [hazards EXCEPT ![s] = Null]
  /\ IF s = Rx /\ At(Tx, "paired")
     THEN pc' = [pc EXCEPT ![Rx] = "unpair", ![Tx] = "lent"] /\ UNCHANGED <<cand, tries>>
     ELSE Return(s) /\ pc' = [pc EXCEPT ![s] = "idle"]
  /\ UNCHANGED <<active, adopted, owned, control>>

ReleasePair ==
  /\ At(Rx, "unpair")
  /\ hazards' = [hazards EXCEPT ![Tx] = Null]
  /\ pc' = [s \in Slots |-> "idle"]
  /\ cand' = [s \in Slots |-> Null]
  /\ tries' = [s \in Slots |-> 0]
  /\ UNCHANGED <<active, adopted, owned, control>>

OwnerStep(s) ==
  \/ Acquire(s) \/ Reload(s) \/ Protect(s) \/ Validate(s) \/ Retract(s)
  \/ Adopt(s) \/ Release(s)
PairStep == AcquirePair \/ PairProtect \/ PairAdopt \/ ReleasePair

\* Mutant: a permit released twice.
FinishWorkTwice(g) ==
  /\ outstanding' = [outstanding EXCEPT ![g] = @ - 1]
  /\ UNCHANGED <<shared, heap, store, stopping, registered, admitted, detached, lastGen, owner, control>>

\* Dropping a GenerationWork permit on any worker thread.
FinishWork(g) ==
  /\ outstanding[g] > 0
  /\ outstanding' = [outstanding EXCEPT ![g] = @ - 1]
  /\ UNCHANGED <<shared, heap, store, stopping, registered, admitted, detached, lastGen, owner, control>>

-----------------------------------------------------------------------------
(* The control owner.                                                       *)

ControlAt(label) == step = label
ControlGoto(label) == step' = label /\ UNCHANGED <<op, slot, target, last>>

\* Enter or leave a call at a step of it, with fresh locals.
ControlBegin(label, call, first) ==
  step' = label /\ op' = call /\ slot' = Rx /\ target' = first /\ last' = FALSE
ControlDone(label) == ControlBegin(label, "none", "active")

\* Pass the receive slot, or the whole scan.
ControlScanned(label, after) ==
  /\ step' = IF slot = Rx THEN label ELSE after
  /\ slot' = Tx
  /\ UNCHANGED <<op, target, last>>
Stored(t) == heap[store[t]]

\* register_audio (or split), once.
RegisterAudio ==
  /\ ControlAt("idle") /\ ~registered
  /\ registered' = TRUE
  /\ UNCHANGED <<shared, heap, store, stopping, work, lastGen, owner, control>>

\* The checks every publication makes before touching anything.
CanPublish ==
  /\ ~stopping
  /\ store["retired"] = Null
  /\ store["active"] # Null
  /\ lastGen < MaxGen

\* publish_prepared up to the pointer store: box the candidate at a free
\* address, stop admitting on the old generation, shift the store.
Install(a) ==
  /\ heap[a] = 0
  /\ heap' = [heap EXCEPT ![a] = lastGen + 1]
  /\ lastGen' = lastGen + 1
  /\ admitted' = [admitted EXCEPT ![Stored("active")] = FALSE]
  /\ store' = [active |-> a, retired |-> store["active"]]
  /\ ControlGoto("expose")
  /\ UNCHANGED <<shared, stopping, registered, outstanding, owner>>

Publish(a) ==
  /\ ControlAt("idle") /\ CanPublish
  /\ Install(a)
  /\ UNCHANGED detached

Expose ==
  /\ ControlAt("expose")
  /\ active' = store["active"]
  /\ ControlDone("idle")
  /\ UNCHANGED <<hazards, adopted, owned, owner>>

\* publish_transferring, and handoff once the device reports quiescence: gate
\* entry, then look for a callback still inside.
Gate(call) ==
  /\ ControlAt("idle") /\ CanPublish
  /\ active' = Null
  /\ ControlBegin("gateScan", call, "active")
  /\ UNCHANGED <<hazards, adopted, owned, owner>>

Cleared == IF op = "transfer" THEN "transfer" ELSE "closed"

\* Mutant: only the receive slot is scanned.
GateScanReceive ==
  /\ ControlAt("gateScan")
  /\ ControlGoto(IF hazards[Rx] # Null THEN "restore" ELSE Cleared)
  /\ UNCHANGED <<shared, owned, owner>>

GateScan ==
  /\ ControlAt("gateScan")
  /\ IF \/ hazards[slot] # Null
        \/ slot = Tx /\ op = "handoff" /\ outstanding[Stored("active")] # 0
     THEN ControlGoto("restore")
     ELSE ControlScanned("gateScan", Cleared)
  /\ UNCHANGED <<shared, owned, owner>>

\* CallbacksActive and HandoffRestored: the old generation is current again.
Restore ==
  /\ ControlAt("restore")
  /\ active' = store["active"]
  /\ ControlDone("idle")
  /\ UNCHANGED <<hazards, adopted, owned, owner>>

\* The state swap of publish_transferring, then publish_prepared.
Transfer(a) ==
  /\ ControlAt("transfer")
  /\ Install(a)
  /\ UNCHANGED detached

\* handoff with the old lease closed: the new lease opened, ...
HandoffOpened(a) ==
  /\ ControlAt("closed")
  /\ detached' = [detached EXCEPT ![Stored("active")] = TRUE]
  /\ Install(a)

\* ... the old lease reopened, ...
HandoffReopened ==
  /\ ControlAt("closed")
  /\ ControlGoto("restore")
  /\ UNCHANGED <<shared, owned, owner>>

\* ... or neither: detach and stop.
HandoffFailed ==
  /\ ControlAt("closed")
  /\ detached' = [detached EXCEPT ![Stored("active")] = TRUE]
  /\ stopping' = TRUE
  /\ active' = Null
  /\ ControlGoto("stop")
  /\ UNCHANGED <<hazards, adopted, heap, store, registered, admitted, outstanding, lastGen, owner>>

\* NodeControl::stop; admission ends in the next step.
Stop ==
  /\ ControlAt("idle")
  /\ stopping' = TRUE
  /\ active' = Null
  /\ ControlGoto("stop")
  /\ UNCHANGED <<hazards, adopted, heap, store, registered, work, lastGen, owner>>

InStore(g) == \E t \in Targets : store[t] # Null /\ Stored(t) = g

StopAdmission ==
  /\ ControlAt("stop")
  /\ admitted' = [g \in Gens |-> admitted[g] /\ ~InStore(g)]
  /\ ControlDone("idle")
  /\ UNCHANGED <<shared, heap, store, stopping, registered, outstanding, detached, lastGen, owner>>

\* gate_callbacks, which only a reload calls: Runtime::begin_reload refuses one
\* while the runtime stops or anything retires (aggregate.rs:557-565).
GateCallbacks ==
  /\ ControlAt("idle") /\ ~stopping /\ store["retired"] = Null
  /\ active' = Null
  /\ UNCHANGED <<hazards, adopted, owned, owner, control>>

\* Mutant: a rollback reopens entry to the replaced generation.
RestoreReplaced ==
  /\ ControlAt("idle") /\ ~stopping /\ store["active"] # Null
  /\ active' = IF store["retired"] # Null THEN store["retired"] ELSE store["active"]
  /\ UNCHANGED <<hazards, adopted, owned, owner, control>>

RestoreCallbacks ==
  /\ ControlAt("idle") /\ ~stopping /\ store["active"] # Null
  /\ active' = store["active"]
  /\ UNCHANGED <<hazards, adopted, owned, owner, control>>

Work ==
  /\ ControlAt("idle") /\ ~stopping /\ store["active"] # Null
  /\ outstanding[Stored("active")] < MaxWork
  /\ outstanding' = [outstanding EXCEPT ![Stored("active")] = @ + 1]
  /\ UNCHANGED <<shared, heap, store, stopping, registered, admitted, detached, lastGen, owner, control>>

\* Mutant: only the retired store slot is searched.
MarkRetired(g) ==
  /\ ControlAt("idle")
  /\ store["retired"] # Null /\ Stored("retired") = g /\ ~admitted[g]
  /\ detached' = [detached EXCEPT ![g] = TRUE]
  /\ UNCHANGED <<shared, heap, store, stopping, registered, admitted, outstanding, lastGen, owner, control>>

\* mark_detached trusts the adapter only for a generation that admits nothing.
MarkDetached(g) ==
  /\ ControlAt("idle")
  /\ InStore(g) /\ ~admitted[g]
  /\ detached' = [detached EXCEPT ![g] = TRUE]
  /\ UNCHANGED <<shared, heap, store, stopping, registered, admitted, outstanding, lastGen, owner, control>>

-----------------------------------------------------------------------------
(* Reclamation and destruction share the disposal scan.                      *)

Other(t) == IF t = "active" THEN "retired" ELSE "active"

\* Continue with the second store slot, or leave the operation.
NextTarget ==
  IF last
  THEN ControlDone(IF op = "drop" THEN "dropped" ELSE "idle")
  ELSE /\ step' = "check" /\ target' = Other(target) /\ last' = TRUE
       /\ UNCHANGED <<op, slot>>

\* NodeHost::reclaim: without registered owners nobody else can adopt.  An owner
\* moves its `adopted` only to the generation control published, and control is
\* here, so reading the two in turn finds what reading them at once would.
Reclaim ==
  /\ ControlAt("idle")
  /\ LET seen == IF ~registered /\ store["active"] # Null
                 THEN [s \in Slots |-> Stored("active")] ELSE adopted
     IN  /\ adopted' = seen
         /\ IF \/ stopping \/ store["active"] = Null
               \/ \A s \in Slots : seen[s] = Stored("active")
            THEN ControlBegin("check", "reclaim", "retired")
            ELSE UNCHANGED control
  /\ UNCHANGED <<active, hazards, owned, owner>>

\* Drop for NodeHost: gate entry, then dispose of both store slots.
Drop ==
  /\ ControlAt("idle")
  /\ active' = Null
  /\ ControlBegin("check", "drop", "active")
  /\ UNCHANGED <<hazards, adopted, owned, owner>>

\* Mutant: reclaim takes the box out of the store before its checks.
KeepNothing ==
  /\ NextTarget
  /\ store' = [store EXCEPT ![target] = Null]

\* A generation that must be kept: reclaim leaves it in the store, drop
\* forgets it (its address stays allocated for ever).
Keep ==
  /\ NextTarget
  /\ store' = IF op = "drop" THEN [store EXCEPT ![target] = Null] ELSE store

\* Mutant: outstanding permits are not consulted.
CheckDetachedOnly ==
  /\ ControlAt("check")
  /\ IF store[target] = Null
     THEN NextTarget /\ UNCHANGED <<store, admitted>>
     ELSE LET g == Stored(target) IN
          /\ admitted' = IF op = "drop" THEN [admitted EXCEPT ![g] = FALSE] ELSE admitted
          /\ IF detached[g]
             THEN /\ step' = "freeScan" /\ slot' = Rx
                  /\ UNCHANGED <<op, target, last, store>>
             ELSE Keep
  /\ UNCHANGED <<shared, heap, stopping, registered, outstanding, detached, lastGen, owner>>

Check ==
  /\ ControlAt("check")
  /\ IF store[target] = Null
     THEN NextTarget /\ UNCHANGED <<store, admitted>>
     ELSE LET g == Stored(target) IN
          /\ admitted' = IF op = "drop" THEN [admitted EXCEPT ![g] = FALSE] ELSE admitted
          /\ IF detached[g] /\ outstanding[g] = 0
             THEN /\ step' = "freeScan" /\ slot' = Rx
                  /\ UNCHANGED <<op, target, last, store>>
             ELSE Keep
  /\ UNCHANGED <<shared, heap, stopping, registered, outstanding, detached, lastGen, owner>>

\* Mutant: the transmit slot's hazard is not consulted.
FreeScanReceive ==
  /\ ControlAt("freeScan")
  /\ IF hazards[Rx] = store[target]
     THEN Keep
     ELSE ControlGoto("free") /\ UNCHANGED store
  /\ UNCHANGED <<shared, heap, stopping, registered, work, lastGen, owner>>

FreeScan ==
  /\ ControlAt("freeScan")
  /\ IF hazards[slot] = store[target]
     THEN Keep
     ELSE ControlScanned("freeScan", "free") /\ UNCHANGED store
  /\ UNCHANGED <<shared, heap, stopping, registered, work, lastGen, owner>>

Free ==
  /\ ControlAt("free")
  /\ heap' = [heap EXCEPT ![store[target]] = 0]
  /\ store' = [store EXCEPT ![target] = Null]
  /\ NextTarget
  /\ UNCHANGED <<shared, stopping, registered, work, lastGen, owner>>

-----------------------------------------------------------------------------
ControlStep ==
  \/ Expose \/ GateScan \/ Restore \/ HandoffReopened \/ HandoffFailed
  \/ StopAdmission \/ Check \/ FreeScan \/ Free
  \/ \E a \in Addr : Transfer(a) \/ HandoffOpened(a)

ControlCall ==
  \/ RegisterAudio \/ Stop \/ GateCallbacks \/ RestoreCallbacks \/ Work \/ Reclaim
  \/ \E a \in Addr : Publish(a)
  \/ \E call \in {"transfer", "handoff"} : Gate(call)
  \/ \E g \in Gens : MarkDetached(g)

\* Everything but the destruction of the host.
Operate ==
  \/ \E s \in Slots : OwnerStep(s)
  \/ PairStep
  \/ \E g \in Gens : FinishWork(g)
  \/ ControlStep
  \/ ControlCall

Next == Operate \/ Drop

Spec == Init /\ [][Next]_vars

-----------------------------------------------------------------------------
(* What status reports, and what the host promises.                          *)

\* LifecycleStatus::state.
LifecycleState ==
  IF stopping
  THEN IF \A t \in Targets : store[t] = Null THEN "Stopped" ELSE "Stopping"
  ELSE IF store["retired"] # Null
       THEN IF store["active"] # Null /\ \A s \in Slots : adopted[s] = Stored("active")
            THEN "RetirementPending" ELSE "AdoptionPending"
       ELSE "Running"

\* A callback is inside a generation from a successful validation until its
\* guard is dropped.
Inside(s) == pc[s] \in {"adopt", "pair", "pairAdopt", "held", "paired"}

\* No callback ever reads freed storage, and the generation it latched is the
\* one at its pointer until the guard drops, even when addresses are reused:
\* the hazard protocol of Shared::acquire against reclaim and Drop.
NoUseAfterFree ==
  \A s \in Slots :
    /\ Inside(s) => heap[cand[s]] # 0
    /\ (Inside(s) /\ ~At(s, "adopt")) => heap[cand[s]] = adopted[s]

\* While publish_transferring swaps the callbacks' state, and while handoff has
\* the device closed, no callback is inside the generation being emptied: the
\* get_mut of both cells is exclusive.
ExclusiveTransfer ==
  step \in {"transfer", "closed"} => \A s \in Slots : ~Inside(s)

\* Storage outlives every permit on it: a generation with outstanding work is
\* never freed, whatever the adapter reports with mark_detached.
WorkRetainsStorage ==
  \A g \in Gens : outstanding[g] > 0 => \E a \in Addr : heap[a] = g

\* Retention is bounded by the two store slots; only destruction of the host
\* itself may forget a generation (Drop's mem::forget).
NothingLeaks ==
  op # "drop" /\ ~ControlAt("dropped") =>
    \A a \in Addr : heap[a] # 0 <=> \E t \in Targets : store[t] = a

\* An owner never goes back to an older generation: what a slot reports as
\* adopted only grows, so reclaim's adoption test cannot be fooled by a late
\* store of a callback that lost a race with publication.
AdoptionNeverRegresses == [][\A s \in Slots : adopted'[s] >= adopted[s]]_vars

\* The host implements the abstract cell: what is current, held and live.
CellCurrent == IF active = Null THEN 0 ELSE heap[active]
CellHeld == [s \in Slots |-> IF Inside(s) THEN heap[cand[s]] ELSE 0]
CellLive == {heap[a] : a \in Addr} \ {0}
Cell == INSTANCE GenerationCell WITH
  current <- CellCurrent, held <- CellHeld, live <- CellLive, newest <- lastGen
ImplementsCell == Cell!CellSpec
=============================================================================
