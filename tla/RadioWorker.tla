---------------------------- MODULE RadioWorker ----------------------------
(***************************************************************************)
(* One radio's fixed callbacks.  The receive callback (RX) writes local    *)
(* audio into a ring, the transmit callback (TX) renders it, and control   *)
(* replaces the ring when a reload changes the squelch delay, or the whole *)
(* worker when it changes the device.  The three meet in atomics only: the *)
(* qualification token and reset acknowledgement of the handoff, the ready *)
(* and retired queues of each endpoint, and the generation the callbacks   *)
(* acquire.  A callback is split wherever another thread may see a value   *)
(* it wrote or change one it will read.                                    *)
(***************************************************************************)
EXTENDS Naturals, Sequences

CONSTANTS RadioDelays,      \* squelch delays a reload may choose
          RadioPlans        \* instances: delay, and bounds on published generations, bursts,
                            \* blocks in a ring and whether reloads may change the device

ASSUME RadioPlansInRange == \A plan \in RadioPlans : plan.delay \in RadioDelays

VARIABLES
    wRings,     \* rings ever opened: delay, handoff and queued blocks
    wHands,     \* LocalHandoff per ring family: token, reset_ack; burst names the newest burst on it
    wRx, wTx,   \* the callbacks: where they are, and their locals
    wEnds,      \* each EndpointOwner: current ring, ready, pending, retired, adopted
    wWorker,    \* RadioWorker: open, squelch_delay_ms and pending_update
    wCtl,       \* control: phase of a reload, its plan, local_update, awaiting_local, retiring
    wPlan,      \* the instance
    wGen,       \* published generation, and the squelch delay each was resolved with
    wBurst      \* receive bursts so far, and whether one is in progress

wVars == <<wPlan, wRings, wHands, wRx, wTx, wEnds, wWorker, wCtl, wGen, wBurst>>

Sides == {"rx", "tx"}
NoRing == [gen |-> 0, ring |-> 0]
Ring(delay, hand) == [delay |-> delay, hand |-> hand, audio |-> <<>>]
Handoff == [token |-> 0, ack |-> 0, burst |-> 0]
Endpoint(ring) == [cur |-> ring, ready |-> NoRing, pending |-> NoRing, retired |-> FALSE, adopted |-> 0]
IdleRx == [pc |-> "idle", gen |-> 0, on |-> FALSE]
IdleTx == [pc |-> "idle", gen |-> 0, token |-> 0, on |-> FALSE, audio |-> {}]

HandOf(ring) == wRings[ring].hand
Qualified(token) == token % 2 = 1
Epoch(token) == token - (token % 2)

WInit ==
    /\ wPlan \in RadioPlans
    /\ LET d == wPlan.delay IN
        /\ wRings = <<Ring(d, 1)>> /\ wHands = <<Handoff>>
        /\ wRx = IdleRx /\ wTx = IdleTx
        /\ wEnds = [s \in Sides |-> Endpoint(1)]
        /\ wWorker = [open |-> TRUE, delay |-> d, update |-> NoRing]
        /\ wCtl = [phase |-> "idle", delay |-> d, device |-> FALSE, local |-> FALSE,
                   update |-> FALSE, awaiting |-> FALSE, retiring |-> FALSE]
        /\ wGen = [id |-> 1, delays |-> <<d>>]
        /\ wBurst = [n |-> 0, on |-> FALSE]

-----------------------------------------------------------------------------
(* Shared by both callbacks *)

\* update_qualification: set the low bit, or count one falling edge.
Requalified(hand, on, burst) ==
    [hand EXCEPT !.token = IF Qualified(@) = on THEN @ ELSE @ + 1,
                 !.burst = IF on THEN burst ELSE @]

\* EndpointOwner::adopt: keep one candidate until its generation is acquired and
\* the old endpoint fits the return queue.
Adopt(end, gen) ==
    LET candidate == IF end.pending = NoRing THEN end.ready ELSE end.pending
        ready == IF end.pending = NoRing THEN NoRing ELSE end.ready
    IN IF candidate = NoRing \/ candidate.gen # gen \/ end.retired
       THEN [end EXCEPT !.pending = candidate, !.ready = ready]
       ELSE [cur |-> candidate.ring, ready |-> ready, pending |-> NoRing,
             retired |-> TRUE, adopted |-> gen]
-----------------------------------------------------------------------------
(* Receive callback *)

\* receive, up to acquire: publish the edge on the current handoff.
ReceiveBegin(on) ==
    /\ wWorker.open /\ wRx.pc = "idle"
    /\ (on /\ ~wBurst.on) => wBurst.n < wPlan.bursts
    /\ wBurst' = [n |-> IF on /\ ~wBurst.on THEN wBurst.n + 1 ELSE wBurst.n, on |-> on]
    /\ wHands' = [wHands EXCEPT ![HandOf(wEnds["rx"].cur)] = Requalified(@, on, wBurst'.n)]
    /\ wRx' = [pc |-> "adopt", gen |-> wGen.id, on |-> on]
    /\ UNCHANGED <<wPlan, wRings, wTx, wEnds, wWorker, wCtl, wGen>>

\* Adopt a replacement ring, publish the edge on it too, and fall silent when
\* its delay is not the generation's.
ReceiveAdopt ==
    /\ wRx.pc = "adopt"
    /\ wEnds' = [wEnds EXCEPT !["rx"] = Adopt(@, wRx.gen)]
    /\ LET ring == wEnds'["rx"].cur
       IN /\ wHands' = [wHands EXCEPT ![HandOf(ring)] = Requalified(@, wRx.on, wBurst.n)]
          /\ wRx' = IF wRx.on /\ wRings[ring].delay = wGen.delays[wRx.gen]
                    THEN [wRx EXCEPT !.pc = "check"] ELSE IdleRx
    /\ UNCHANGED <<wPlan, wRings, wTx, wWorker, wCtl, wGen, wBurst>>

\* New audio waits until TX has acknowledged the reset of the previous burst.
ReceiveCheck ==
    /\ wRx.pc = "check"
    /\ LET hand == wHands[HandOf(wEnds["rx"].cur)]
       IN wRx' = IF Epoch(hand.token) = hand.ack THEN [wRx EXCEPT !.pc = "write"] ELSE IdleRx
    /\ UNCHANGED <<wPlan, wRings, wHands, wTx, wEnds, wWorker, wCtl, wGen, wBurst>>

\* InboundProducer::write: a full ring takes only the prefix that fits.
ReceiveWrite ==
    /\ wRx.pc = "write"
    /\ LET ring == wEnds["rx"].cur
       IN wRings' = IF Len(wRings[ring].audio) = wPlan.blocks THEN wRings
                    ELSE [wRings EXCEPT ![ring].audio = Append(@, wBurst.n)]
    /\ wRx' = IdleRx
    /\ UNCHANGED <<wPlan, wHands, wTx, wEnds, wWorker, wCtl, wGen, wBurst>>

-----------------------------------------------------------------------------
(* Transmit callback *)

TransmitBegin ==
    /\ wWorker.open /\ wTx.pc = "idle"
    /\ wTx' = [IdleTx EXCEPT !.pc = "adopt", !.gen = wGen.id]
    /\ UNCHANGED <<wPlan, wRings, wHands, wRx, wEnds, wWorker, wCtl, wGen, wBurst>>

\* Adopt, apply the delay gate and load the token; reset_ack is TX's own.
TransmitAdopt ==
    /\ wTx.pc = "adopt"
    /\ wEnds' = [wEnds EXCEPT !["tx"] = Adopt(@, wTx.gen)]
    /\ LET ring == wEnds'["tx"].cur
           hand == wHands[HandOf(ring)]
       IN wTx' = IF wRings[ring].delay # wGen.delays[wTx.gen] THEN IdleTx
                 ELSE [wTx EXCEPT !.token = hand.token, !.on = Qualified(hand.token),
                                  !.pc = IF Epoch(hand.token) = hand.ack THEN "render" ELSE "reset"]
    /\ UNCHANGED <<wPlan, wRings, wHands, wRx, wWorker, wCtl, wGen, wBurst>>

\* reset_local, which may fail: only a completed reset is acknowledged.
TransmitReset(ok) ==
    /\ wTx.pc = "reset"
    /\ wRings' = IF ok THEN [wRings EXCEPT ![wEnds["tx"].cur].audio = <<>>] ELSE wRings
    /\ wTx' = [wTx EXCEPT !.pc = IF ok THEN "ack" ELSE "render", !.on = @ /\ ok]
    /\ UNCHANGED <<wPlan, wHands, wRx, wEnds, wWorker, wCtl, wGen, wBurst>>
TransmitAck ==
    /\ wTx.pc = "ack"
    /\ wHands' = [wHands EXCEPT ![HandOf(wEnds["tx"].cur)].ack = Epoch(wTx.token)]
    /\ wTx' = [wTx EXCEPT !.pc = "render"]
    /\ UNCHANGED <<wPlan, wRings, wRx, wEnds, wWorker, wCtl, wGen, wBurst>>

\* Only a qualified burst is rendered, and a failed render emits silence.
TransmitRender(ok) ==
    /\ wTx.pc = "render"
    /\ LET audio == wRings[wEnds["tx"].cur].audio
           takes == wTx.on /\ audio # <<>>
       IN /\ wRings' = IF takes THEN [wRings EXCEPT ![wEnds["tx"].cur].audio = Tail(@)] ELSE wRings
          /\ wTx' = [wTx EXCEPT !.pc = "check", !.on = @ /\ ok,
                                !.audio = IF takes /\ ok THEN {Head(audio)} ELSE {}]
    /\ UNCHANGED <<wPlan, wHands, wRx, wEnds, wWorker, wCtl, wGen, wBurst>>

\* The second look at the token, which decides whether the block is transmitted.
Transmits == wTx.on /\ wHands[HandOf(wEnds["tx"].cur)].token = wTx.token
TransmitEnd ==
    /\ wTx.pc = "check"
    /\ wTx' = IdleTx
    /\ UNCHANGED <<wPlan, wRings, wHands, wRx, wEnds, wWorker, wCtl, wGen, wBurst>>

-----------------------------------------------------------------------------
(* Control *)

\* squelch_delay_ms: what is installed, or prepared for the next adoption.
SquelchDelay == IF wWorker.update = NoRing THEN wWorker.delay ELSE wRings[wWorker.update.ring].delay

\* reload: refused while a generation retires; a changed delay prepares a ring.
ReloadPrepare(d, device) ==
    /\ wCtl.phase = "idle" /\ ~wCtl.retiring /\ wGen.id < wPlan.generations /\ (device => wPlan.devices)
    /\ wCtl' = [wCtl EXCEPT !.phase = IF device THEN "quiesce" ELSE "publish", !.delay = d,
                            !.device = device, !.local = SquelchDelay # d]
    /\ UNCHANGED <<wPlan, wRings, wHands, wRx, wTx, wEnds, wWorker, wGen, wBurst>>

\* Lease::quiesce: the destroyed radio runs no callback; the owners are kept.
ReloadQuiesce ==
    /\ wCtl.phase = "quiesce" /\ wRx.pc = "idle" /\ wTx.pc = "idle"
    /\ wWorker' = [wWorker EXCEPT !.open = FALSE, !.update = NoRing]
    /\ wCtl' = [wCtl EXCEPT !.phase = "open"]
    /\ UNCHANGED <<wPlan, wRings, wHands, wRx, wTx, wEnds, wGen, wBurst>>

\* Device::open: a new worker with an empty ring, the lease's own handoff and
\* fresh queues; the kept owners are attached at once.
ReloadOpen ==
    /\ wCtl.phase = "open"
    /\ wRings' = Append(wRings, Ring(wCtl.delay, 1))
    /\ wEnds' = [s \in Sides |-> Endpoint(Len(wRings'))]
    /\ wWorker' = [open |-> TRUE, delay |-> wCtl.delay, update |-> NoRing]
    /\ wCtl' = [wCtl EXCEPT !.phase = "publish"]
    /\ UNCHANGED <<wPlan, wHands, wRx, wTx, wGen, wBurst>>

ReloadPublish ==
    /\ wCtl.phase = "publish"
    /\ wGen' = [id |-> wGen.id + 1, delays |-> Append(wGen.delays, wCtl.delay)]
    /\ wCtl' = [wCtl EXCEPT !.phase = "idle", !.update = wCtl.local, !.awaiting = wCtl.local,
                            !.retiring = TRUE]
    /\ UNCHANGED <<wPlan, wRings, wHands, wRx, wTx, wEnds, wWorker, wBurst>>

\* EndpointControl::reclaim on both sides.
RingReclaimed == [s \in Sides |-> [wEnds[s] EXCEPT !.retired = FALSE]]

\* pump, update_local_ring up to the receive queue: one update at a time.
PumpUpdate ==
    /\ wCtl.phase = "idle" /\ wCtl.update
    /\ IF wWorker.update # NoRing \/ \E s \in Sides : wEnds[s].ready # NoRing
       THEN /\ wEnds' = RingReclaimed
            /\ wCtl' = [wCtl EXCEPT !.phase = "applied"]
            /\ UNCHANGED <<wRings, wHands, wWorker>>
       ELSE LET ring == Len(wRings) + 1
                next == [gen |-> wGen.id, ring |-> ring]
            IN /\ wHands' = Append(wHands, Handoff)
               /\ wRings' = Append(wRings, Ring(wCtl.delay, Len(wHands')))
               /\ wWorker' = [wWorker EXCEPT !.update = next]
               /\ wEnds' = [RingReclaimed EXCEPT !["rx"].ready = next]
               /\ wCtl' = [wCtl EXCEPT !.phase = "push", !.update = FALSE]
    /\ UNCHANGED <<wPlan, wRx, wTx, wGen, wBurst>>

\* update_local_ring: the transmit queue follows.
PumpPush ==
    /\ wCtl.phase = "push"
    /\ wEnds' = [wEnds EXCEPT !["tx"].ready = wWorker.update]
    /\ wCtl' = [wCtl EXCEPT !.phase = "applied"]
    /\ UNCHANGED <<wPlan, wRings, wHands, wRx, wTx, wWorker, wGen, wBurst>>

\* local_ring_applied: both sides acknowledged this generation.
Applied == \A s \in Sides : wEnds[s].adopted = wGen.id
PumpApplied ==
    /\ wCtl.phase = "applied" \/ (wCtl.phase = "idle" /\ wCtl.awaiting /\ ~wCtl.update)
    /\ wEnds' = RingReclaimed
    /\ wWorker' = IF ~Applied \/ wWorker.update = NoRing THEN wWorker
                  ELSE [wWorker EXCEPT !.delay = wRings[wWorker.update.ring].delay, !.update = NoRing]
    /\ wCtl' = [wCtl EXCEPT !.phase = "idle", !.awaiting = ~Applied]
    /\ UNCHANGED <<wPlan, wRings, wHands, wRx, wTx, wGen, wBurst>>

\* Mutant: the old generation goes before the ring is adopted.
PumpDetachEarly ==
    /\ wCtl.phase = "idle" /\ wCtl.retiring
    /\ wRx.gen \in {0, wGen.id} /\ wTx.gen \in {0, wGen.id}
    /\ wCtl' = [wCtl EXCEPT !.retiring = FALSE]
    /\ UNCHANGED <<wPlan, wRings, wHands, wRx, wTx, wEnds, wWorker, wGen, wBurst>>

\* The tail of pump: the retiring generation is detached once the replacement
\* ring is in use and no callback still runs it.
PumpDetach ==
    /\ wCtl.phase = "idle" /\ wCtl.retiring /\ ~wCtl.awaiting
    /\ wRx.gen \in {0, wGen.id} /\ wTx.gen \in {0, wGen.id}
    /\ wCtl' = [wCtl EXCEPT !.retiring = FALSE]
    /\ UNCHANGED <<wPlan, wRings, wHands, wRx, wTx, wEnds, wWorker, wGen, wBurst>>

WNext ==
    \/ \E on \in BOOLEAN : ReceiveBegin(on)
    \/ ReceiveAdopt \/ ReceiveCheck \/ ReceiveWrite
    \/ TransmitBegin \/ TransmitAdopt
    \/ \E ok \in BOOLEAN : TransmitReset(ok) \/ TransmitRender(ok)
    \/ TransmitAck \/ TransmitEnd
    \/ \E d \in RadioDelays, device \in BOOLEAN : ReloadPrepare(d, device)
    \/ ReloadQuiesce \/ ReloadOpen \/ ReloadPublish
    \/ PumpUpdate \/ PumpPush \/ PumpApplied \/ PumpDetach

-----------------------------------------------------------------------------
\* What TX transmits is audio of the newest burst its handoff has seen: a tail
\* of an earlier burst never reaches the air, however unkeys, failed resets,
\* ring replacements and reopened devices interleave with both callbacks.  And a
\* replacement ring can always still be adopted: it waits only for the published
\* generation, and its predecessor finds the return queue empty whenever the
\* callback may exchange the two.
BurstsSeparate ==
    /\ (wTx.pc = "check" /\ Transmits) =>
            \A b \in wTx.audio : b = wHands[HandOf(wEnds["tx"].cur)].burst
    /\ \A s \in Sides :
        /\ \A e \in {wEnds[s].ready, wEnds[s].pending} : e # NoRing => e.gen = wGen.id
        /\ (wEnds[s].ready # NoRing \/ wEnds[s].pending # NoRing) => ~wEnds[s].retired
=============================================================================
