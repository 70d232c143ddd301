----------------------------- MODULE LinkMixer -----------------------------
(***************************************************************************)
(* The peer audio of one generation: the radio callback mixes receiver and *)
(* peer audio, keys and unkeys links, moves priority groups and publishes  *)
(* one block of a two-block pool; the media thread's dispatcher takes the  *)
(* blocks apart, one destination at a time, into the peers' bounded span   *)
(* queues; peer owners drain those queues, key and end.                    *)
(* Audio is the set of its sources; one callback is one step, and so is    *)
(* one destination of the dispatcher.                                      *)
(***************************************************************************)
EXTENDS Integers, Sequences, FiniteSets

CONSTANT MixPlans   \* instances: the peers (mode, group slot), the inputs and the bounds

VARIABLES
    mPlan,      \* the instance
    mPeers,     \* per peer: ended, radio_keyed, telemetry_allowed, activity edge, active, reported keyed
    mDesired,   \* GroupSelection::desired of the one priority group
    mSelected,  \* GroupSelection::active
    mRoutes,    \* per destination: burst and whether it was eligible
    mFree,      \* blocks in the recycled queue
    mBlocks,    \* published blocks, the oldest first
    mCurrent,   \* the dispatcher's partly distributed block, or none, and its next destination
    mQueues,    \* outbound spans per destination
    mGap,       \* per destination: the last callback in which it was not eligible
    mNow        \* callbacks so far

mVars == <<mPlan, mPeers, mDesired, mSelected, mRoutes, mFree, mBlocks, mCurrent, mQueues,
           mGap, mNow>>

Parties == DOMAIN mPlan.peers
Mode(i) == mPlan.peers[i].mode          \* [transmit, forward]
Slot(i) == mPlan.peers[i].slot          \* 0 outside the group
\* Sources of audio besides the peers, and what else a callback may send out.
Rf == 0
Nothing == 0
ParrotOut == -1
Broadcast == -2
Reply == -3
NoBlock == [n |-> 0, next |-> 0, mix |-> {}, to |-> <<>>]

MInit ==
    /\ mPlan \in MixPlans
    /\ mPeers = [i \in Parties |-> [ended |-> FALSE, radio |-> FALSE, telemetry |-> TRUE, edge |-> 0,
                                    active |-> FALSE, reported |-> FALSE]]
    /\ mDesired = 0 /\ mSelected = 0
    /\ mRoutes = [i \in Parties |-> [burst |-> 0, eligible |-> FALSE]]
    /\ mFree = 2 /\ mBlocks = <<>> /\ mCurrent = NoBlock
    /\ mQueues = [i \in Parties |-> <<>>]
    /\ mGap = [i \in Parties |-> 0]
    /\ mNow = 0

-----------------------------------------------------------------------------
(* The radio callback *)

\* The first loop of process: an ended peer is inactive whatever it has queued.
Heard(i, audible) == ~mPeers[i].ended /\ (i \in audible \/ mPeers[i].radio)
\* set_active: an odd edge means active.
Edge(edge, active) == IF (edge % 2 = 1) = active THEN edge ELSE edge + 1
\* Mutant: the desired member is taken at once.
GroupSlotNow(idle) == mDesired
\* callback_slot: the group moves only while every input is idle.
GroupSlot(idle) == IF idle THEN mDesired ELSE mSelected
InGroup(i, slot) == Slot(i) = 0 \/ Slot(i) = slot

\* The peer's activity edge, and whether the link is reported keyed.
Reported(i, active, selected) ==
    [mPeers[i] EXCEPT !.active = active, !.edge = Edge(@, active), !.reported = active /\ selected]

\* Routing of one destination: whether it is sent the mix, less its own part of
\* it, and whether a response or a broadcast.  An ended peer has no identity left.
Routed(i, active, slot, rx, extra) ==
    LET forwards == {j \in Parties : j \in active /\ Mode(j).forward /\ InGroup(j, slot)}
        in == InGroup(i, slot)
        live == ~mPeers[i].ended
        telemetry == mPeers[i].telemetry
        enabled == live /\ (extra = ParrotOut
                            \/ ((Mode(i).transmit \/ Slot(i) # 0) /\ in
                                /\ (rx \/ Cardinality(forwards) > (IF i \in forwards THEN 1 ELSE 0))))
        broadcast == live /\ telemetry /\ Mode(i).transmit /\ in /\ extra = Broadcast
        reply == live /\ telemetry /\ extra = i
    IN [eligible |-> enabled \/ broadcast \/ reply, enabled |-> enabled, broadcast |-> broadcast,
        reply |-> reply, own |-> forwards \cap {i}]

\* The mix of the block: the receiver, every forwarding source, the parrot.
Mixed(active, slot, rx, extra) ==
    {j \in active : Mode(j).forward /\ InGroup(j, slot)} \union (IF rx THEN {Rf} ELSE {})
        \union ({extra} \cap {ParrotOut})

\* process: activity, group, key edges, routing, then one block of the pool.
\* Routing is kept even when no block is free, so a drop stays a gap in time.
Process(rx, audible, extra) ==
    LET active == {i \in Parties : Heard(i, audible)}
        slot == GroupSlot(~rx /\ active = {})
        routed == [i \in Parties |-> Routed(i, active, slot, rx, extra)]
    IN /\ mNow < mPlan.callbacks
       /\ mNow' = mNow + 1
       /\ mSelected' = slot
       /\ mPeers' = [i \in Parties |-> Reported(i, i \in active, InGroup(i, slot))]
       /\ mRoutes' = [i \in Parties |->
            [burst |-> IF routed[i].eligible /\ ~mRoutes[i].eligible THEN mRoutes[i].burst + 1
                       ELSE mRoutes[i].burst,
             eligible |-> routed[i].eligible]]
       /\ mGap' = [i \in Parties |-> IF routed[i].eligible THEN mGap[i] ELSE mNow']
       /\ IF mFree = 0 THEN UNCHANGED <<mFree, mBlocks>>
          ELSE /\ mFree' = mFree - 1
               /\ mBlocks' = Append(mBlocks, [n |-> mNow', next |-> 1, mix |-> Mixed(active, slot, rx, extra),
                     to |-> [i \in Parties |-> [route |-> routed[i], burst |-> mRoutes'[i].burst]]])
       /\ UNCHANGED <<mPlan, mDesired, mCurrent, mQueues>>
-----------------------------------------------------------------------------
(* The dispatcher, one destination at a time *)

\* What one destination is sent of a block.
Sent(block, route) ==
    (IF route.enabled THEN block.mix \ route.own ELSE {})
        \union (IF route.broadcast THEN {Broadcast} ELSE {}) \union (IF route.reply THEN {Reply} ELSE {})

\* dispatch_batch, one destination: resume the retained block or take the next
\* one, offer its audio to the destination's queue (a queue without a free span
\* rejects it), and give the finished block back.
Dispatch ==
    /\ mCurrent # NoBlock \/ mBlocks # <<>>
    /\ \E c \in {IF mCurrent # NoBlock THEN mCurrent ELSE mBlocks[1]} :
        LET d == c.to[c.next]
            done == c.next = Len(mPlan.peers)
        IN /\ mQueues' = IF d.route.eligible /\ Len(mQueues[c.next]) < mPlan.spans
                         THEN [mQueues EXCEPT ![c.next] = Append(@, [n |-> c.n, burst |-> d.burst,
                                                                     audio |-> Sent(c, d.route)])]
                         ELSE mQueues
           /\ mFree' = IF done THEN mFree + 1 ELSE mFree
           /\ mCurrent' = IF done THEN NoBlock ELSE [c EXCEPT !.next = @ + 1]
    /\ mBlocks' = IF mCurrent # NoBlock THEN mBlocks ELSE Tail(mBlocks)
    /\ UNCHANGED <<mPlan, mPeers, mDesired, mSelected, mRoutes, mGap, mNow>>

-----------------------------------------------------------------------------
(* Peer owners and control *)

\* read_span by a peer's owner.
OwnerReads(i) ==
    /\ mQueues[i] # <<>>
    /\ mQueues' = [mQueues EXCEPT ![i] = Tail(@)]
    /\ UNCHANGED <<mPlan, mPeers, mDesired, mSelected, mRoutes, mFree, mBlocks, mCurrent, mGap, mNow>>

\* set_radio_keyed and end, by the peer's owner.
RadioKey(i) ==
    /\ mPlan.radio /\ ~mPeers[i].ended
    /\ mPeers' = [mPeers EXCEPT ![i].radio = ~@]
    /\ UNCHANGED <<mPlan, mDesired, mSelected, mRoutes, mFree, mBlocks, mCurrent, mQueues, mGap, mNow>>
EndPeer(i) ==
    /\ mPlan.ends /\ ~mPeers[i].ended
    /\ mPeers' = [mPeers EXCEPT ![i].ended = TRUE]
    /\ UNCHANGED <<mPlan, mDesired, mSelected, mRoutes, mFree, mBlocks, mCurrent, mQueues, mGap, mNow>>

\* set_telemetry_allowed, by link control.
AllowTelemetry(i) ==
    /\ mPlan.gates
    /\ mPeers' = [mPeers EXCEPT ![i].telemetry = ~@]
    /\ UNCHANGED <<mPlan, mDesired, mSelected, mRoutes, mFree, mBlocks, mCurrent, mQueues, mGap, mNow>>

\* publish_desired, by link control.
PublishDesired(slot) ==
    /\ mDesired' = slot
    /\ UNCHANGED <<mPlan, mPeers, mSelected, mRoutes, mFree, mBlocks, mCurrent, mQueues, mGap, mNow>>

MNext ==
    \/ \E rx \in mPlan.rx, audible \in SUBSET mPlan.audible, extra \in mPlan.extras :
            Process(rx, audible, extra)
    \/ Dispatch
    \/ \E i \in Parties : OwnerReads(i) \/ RadioKey(i) \/ EndPeer(i) \/ AllowTelemetry(i)
    \/ \E slot \in mPlan.desired \ {mDesired} : PublishDesired(slot)

-----------------------------------------------------------------------------
\* A burst identity never spans a gap: queued audio of a destination's newest
\* burst was mixed after the last callback that had nothing for it, and audio
\* of an older burst before, however many callbacks found no free block.  No peer
\* is sent its own part of the mix, none is sent nothing, and the pool always
\* holds its two blocks.
BurstsContiguous ==
    /\ \A i \in Parties : \A k \in DOMAIN mQueues[i] :
        /\ (mQueues[i][k].burst = mRoutes[i].burst /\ mRoutes[i].eligible) <=> mQueues[i][k].n > mGap[i]
        /\ i \notin mQueues[i][k].audio /\ mQueues[i][k].audio # {}
    /\ mFree + Len(mBlocks) + (IF mCurrent = NoBlock THEN 0 ELSE 1) = 2

\* A link is reported unkeyed only when its peer stopped: a change of the
\* group's desired member never cuts off one that is being heard.
KeyedMemberKept ==
    \A i \in Parties : (mPeers[i].reported /\ ~mPeers'[i].reported) => ~mPeers'[i].active
=============================================================================
