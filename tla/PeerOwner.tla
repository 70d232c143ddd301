----------------------------- MODULE PeerOwner -----------------------------
(***************************************************************************)
(* Who may touch a peer session, and until when.  PeerIoWorker gives every *)
(* session one owner: a callback the host serializes (an async peer), or   *)
(* the worker's own polling thread.  The media thread of MediaWorker       *)
(* distributes audio and wakes the sessions through PeerWake, whose gate   *)
(* is one word: a closed bit and the number of notifiers inside.  Control  *)
(* attaches, reaps and stops sessions, and prepares, activates and retires *)
(* dispatches.                                                             *)
(***************************************************************************)
EXTENDS Naturals, Sequences, FiniteSets

CONSTANTS OwnerPlans    \* instances: async peers, polled peers, dispatches

ASSUME OwnerPlansBounded == \A plan \in OwnerPlans : plan.dispatches \in Nat

VARIABLES
    oPlan,      \* the instance
    oPeer,      \* per session: where it is, its stop flag, its registration, a running callback
    oGate,      \* per session: PeerWake's closed bit, its count and whether a target is attached
    oNotifier,  \* per notifying thread: the session it is notifying and how far it is
    oCtl,       \* the control thread: operation, session
    oQueue,     \* MediaWorker::pending, two slots
    oSlots,     \* the media thread's two contexts
    oPhase,     \* per dispatch: DispatchState::phase
    oMedia,     \* the media thread: its current slot and the sessions still to wake in this batch
    oWorker     \* stop flags of the two workers, and whether the polling thread runs

oVars == <<oPlan, oPeer, oGate, oNotifier, oCtl, oQueue, oSlots, oPhase, oMedia, oWorker>>

Peers == oPlan.async \union oPlan.polled
Dispatches == 1..oPlan.dispatches
Threads == {"control", "media"}
Idle == [op |-> "idle", peer |-> 0]
Away == [peer |-> 0, at |-> "none"]
Between == [slot |-> 1, wake |-> {}]

OInit ==
    /\ oPlan \in OwnerPlans
    /\ oPeer = [p \in Peers |-> [at |-> "prepared", stop |-> FALSE, live |-> FALSE, running |-> FALSE]]
    /\ oGate = [p \in Peers |-> [closed |-> FALSE, count |-> 0, target |-> FALSE]]
    /\ oNotifier = [t \in Threads |-> Away]
    /\ oCtl = Idle
    /\ oQueue = <<>> /\ oSlots = <<0, 0>> /\ oMedia = Between
    /\ oPhase = [d \in Dispatches |-> "none"]
    /\ oWorker = [peers |-> FALSE, media |-> FALSE, thread |-> FALSE]

-----------------------------------------------------------------------------
(* PeerWake::notify in its three steps *)

Enter(gate) == [gate EXCEPT !.count = @ + 1]
Admitted(gate) == ~gate.closed /\ gate.target

NotifyEnter(t, p) ==
    /\ oGate' = [oGate EXCEPT ![p] = Enter(@)]
    /\ oNotifier' = [oNotifier EXCEPT ![t] = [peer |-> p, at |-> IF Admitted(oGate[p]) THEN "calling" ELSE "inside"]]
NotifyLeave(t) ==
    /\ oNotifier[t].at # "none"
    /\ oGate' = [oGate EXCEPT ![oNotifier[t].peer].count = @ - 1]
    /\ oNotifier' = [oNotifier EXCEPT ![t] = Away]
    /\ UNCHANGED <<oPlan, oPeer, oCtl, oQueue, oSlots, oPhase, oMedia, oWorker>>

\* PeerControl::send, and the stop of PeerControl: out of band, then notify.
Free(t) == oNotifier[t].at = "none"
Send(p, stops) ==
    /\ oCtl = Idle /\ Free("control") /\ (stops => ~oPeer[p].stop)
    /\ oPeer' = [oPeer EXCEPT ![p].stop = @ \/ stops]
    /\ NotifyEnter("control", p)
    /\ UNCHANGED <<oPlan, oCtl, oQueue, oSlots, oPhase, oMedia, oWorker>>

-----------------------------------------------------------------------------
(* The sessions' owners *)

\* retained_step of an async peer: the host serializes its callbacks; an error
\* of the step, or a stop it finds, ends the session.
StepStart(p) ==
    /\ oPeer[p].live /\ ~oPeer[p].running
    /\ oPeer' = [oPeer EXCEPT ![p].running = TRUE]
    /\ UNCHANGED <<oPlan, oGate, oNotifier, oCtl, oQueue, oSlots, oPhase, oMedia, oWorker>>
StepReturn(p, fails) ==
    /\ oPeer[p].running
    /\ oPeer' = [oPeer EXCEPT ![p].running = FALSE, ![p].stop = @ \/ fails]
    /\ UNCHANGED <<oPlan, oGate, oNotifier, oCtl, oQueue, oSlots, oPhase, oMedia, oWorker>>

\* The polling thread: admit a pending session unless its allocation fails,
\* or step one; an error of the step, or a stop it finds, drops the session.
Poll(p, fails) ==
    /\ oWorker.thread /\ ~oWorker.peers /\ oPeer[p].at \in {"pending", "polled"}
    /\ oPeer' = [oPeer EXCEPT ![p].at = IF fails \/ (@ = "polled" /\ oPeer[p].stop) THEN "gone" ELSE "polled",
                              ![p].stop = @ \/ fails]
    /\ UNCHANGED <<oPlan, oGate, oNotifier, oCtl, oQueue, oSlots, oPhase, oMedia, oWorker>>
\* Its end: every session it holds is stopped and dropped.
PollEnd ==
    /\ oWorker.thread /\ oWorker.peers
    /\ oWorker' = [oWorker EXCEPT !.thread = FALSE]
    /\ oPeer' = [p \in Peers |-> IF oPeer[p].at \in {"pending", "polled"}
                                 THEN [oPeer[p] EXCEPT !.at = "gone", !.stop = TRUE] ELSE oPeer[p]]
    /\ UNCHANGED <<oPlan, oGate, oNotifier, oCtl, oQueue, oSlots, oPhase, oMedia>>

-----------------------------------------------------------------------------
(* PeerIoWorker on the control thread *)

Goto(op, p) == oCtl' = [op |-> op, peer |-> p]
Ready == oCtl = Idle /\ Free("control")

\* attach: refused for want of a queue slot, of memory, of the provider or of the
\* polling thread; a thread that cannot start also refuses every later session, and
\* each of those refusals is one of these.  The host may step an async peer before
\* its wake is attached.
Attach(p, accepts) ==
    /\ Ready /\ oPeer[p].at = "prepared" /\ ~oWorker.peers
    /\ IF p \in oPlan.polled
       THEN /\ oPeer' = [oPeer EXCEPT ![p].at = IF accepts THEN "pending" ELSE "gone", ![p].stop = @ \/ ~accepts]
            /\ oWorker' = [oWorker EXCEPT !.thread = @ \/ accepts]
            /\ UNCHANGED oCtl
       ELSE /\ oPeer' = [oPeer EXCEPT ![p].at = IF accepts THEN "owned" ELSE "gone",
                                      ![p].live = accepts, ![p].stop = @ \/ ~accepts]
            /\ IF accepts THEN Goto("wake", p) ELSE UNCHANGED oCtl
            /\ UNCHANGED oWorker
    /\ UNCHANGED <<oPlan, oGate, oNotifier, oQueue, oSlots, oPhase, oMedia>>
AttachWake ==
    /\ oCtl.op = "wake" /\ oCtl' = Idle
    /\ oGate' = [oGate EXCEPT ![oCtl.peer].target = TRUE]
    /\ UNCHANGED <<oPlan, oPeer, oNotifier, oQueue, oSlots, oPhase, oMedia, oWorker>>

\* reap: close the gate of a stopped peer, and take it only once it is quiet.
ReapClose(p) ==
    /\ Ready /\ oPeer[p].at = "owned" /\ oPeer[p].stop
    /\ oGate' = [oGate EXCEPT ![p].closed = TRUE]
    /\ Goto("reap", p)
    /\ UNCHANGED <<oPlan, oPeer, oNotifier, oQueue, oSlots, oPhase, oMedia, oWorker>>
ReapCheck ==
    /\ oCtl.op = "reap"
    /\ IF oGate[oCtl.peer].count = 0 THEN Goto("detach", oCtl.peer) ELSE oCtl' = Idle
    /\ UNCHANGED <<oPlan, oPeer, oGate, oNotifier, oQueue, oSlots, oPhase, oMedia, oWorker>>

\* Mutant: the registration is withdrawn without waiting for its callback.
DetachNow ==
    /\ oCtl.op = "detach"
    /\ oPeer' = [oPeer EXCEPT ![oCtl.peer].live = FALSE, ![oCtl.peer].at = "gone"]
    /\ oCtl' = IF oWorker.peers THEN [op |-> "drain", peer |-> 0] ELSE Idle
    /\ UNCHANGED <<oPlan, oGate, oNotifier, oQueue, oSlots, oPhase, oMedia, oWorker>>
\* detach: peer_step_detach waits for the callback, then the box is freed.
Detach ==
    /\ oCtl.op = "detach" /\ ~oPeer[oCtl.peer].running
    /\ oPeer' = [oPeer EXCEPT ![oCtl.peer].live = FALSE, ![oCtl.peer].at = "gone"]
    /\ oCtl' = IF oWorker.peers THEN [op |-> "drain", peer |-> 0] ELSE Idle
    /\ UNCHANGED <<oPlan, oGate, oNotifier, oQueue, oSlots, oPhase, oMedia, oWorker>>

\* stop: signal every peer, detach them one by one, join the polling thread.
StopPeers ==
    /\ Ready /\ ~oWorker.peers
    /\ oWorker' = [oWorker EXCEPT !.peers = TRUE]
    /\ oGate' = [p \in Peers |-> [oGate[p] EXCEPT !.closed = @ \/ oPeer[p].at = "owned"]]
    /\ oPeer' = [p \in Peers |-> [oPeer[p] EXCEPT !.stop = @ \/ oPeer[p].at = "owned"]]
    /\ Goto("drain", 0)
    /\ UNCHANGED <<oPlan, oNotifier, oQueue, oSlots, oPhase, oMedia>>
Drain(p) ==
    /\ oCtl.op = "drain" /\ oPeer[p].at = "owned" /\ oGate[p].count = 0
    /\ Goto("detach", p)
    /\ UNCHANGED <<oPlan, oPeer, oGate, oNotifier, oQueue, oSlots, oPhase, oMedia, oWorker>>
Joined ==
    /\ oCtl.op = "drain" /\ ~oWorker.thread /\ \A p \in Peers : oPeer[p].at # "owned"
    /\ Goto("stopMedia", 0)
    /\ UNCHANGED <<oPlan, oPeer, oGate, oNotifier, oQueue, oSlots, oPhase, oMedia, oWorker>>

-----------------------------------------------------------------------------
(* MediaWorker: control prepares, activates and retires dispatches *)

Prepare(d) ==
    /\ Ready /\ oPhase[d] = "none" /\ ~oWorker.media /\ \A e \in 1..(d - 1) : oPhase[e] # "none"
    /\ IF Len(oQueue) < 2 THEN oQueue' = Append(oQueue, d) /\ oPhase' = [oPhase EXCEPT ![d] = "prepared"]
                          ELSE oPhase' = [oPhase EXCEPT ![d] = "refused"] /\ UNCHANGED oQueue
    /\ UNCHANGED <<oPlan, oPeer, oGate, oNotifier, oCtl, oSlots, oMedia, oWorker>>
\* activate and request_stop: each is one compare-and-swap.
Activate(d) ==
    /\ Ready /\ oPhase[d] = "prepared"
    /\ oPhase' = [oPhase EXCEPT ![d] = "active"]
    /\ UNCHANGED <<oPlan, oPeer, oGate, oNotifier, oCtl, oQueue, oSlots, oMedia, oWorker>>
RequestStop(d) ==
    /\ Ready /\ oPhase[d] \in {"prepared", "active"}
    /\ oPhase' = [oPhase EXCEPT ![d] = "stopping"]
    /\ UNCHANGED <<oPlan, oPeer, oGate, oNotifier, oCtl, oQueue, oSlots, oMedia, oWorker>>
StopMedia ==
    /\ oCtl.op = "stopMedia" /\ ~oWorker.media
    /\ oWorker' = [oWorker EXCEPT !.media = TRUE]
    /\ UNCHANGED <<oPlan, oPeer, oGate, oNotifier, oCtl, oQueue, oSlots, oPhase, oMedia>>

-----------------------------------------------------------------------------
(* The media thread *)

\* One context: fill the slot, read its phase, start a batch or drop it.
Context ==
    LET s == oMedia.slot
        taken == IF oSlots[s] = 0 /\ oQueue # <<>> THEN Head(oQueue) ELSE oSlots[s]
        next == [slot |-> 3 - s, wake |-> {}]
    IN /\ oMedia.wake = {} /\ Free("media") /\ ~(oWorker.media /\ s = 1)
       /\ oQueue' = IF oSlots[s] = 0 /\ oQueue # <<>> THEN Tail(oQueue) ELSE oQueue
       /\ IF taken # 0 /\ oPhase[taken] = "stopping"
          THEN /\ oSlots' = [oSlots EXCEPT ![s] = 0] /\ oPhase' = [oPhase EXCEPT ![taken] = "quiet"]
               /\ oMedia' = next
          ELSE /\ oSlots' = [oSlots EXCEPT ![s] = taken] /\ UNCHANGED oPhase
               /\ oMedia' = IF taken # 0 /\ oPhase[taken] = "active" THEN [slot |-> s, wake |-> Peers] ELSE next
       /\ UNCHANGED <<oPlan, oPeer, oGate, oNotifier, oCtl, oWorker>>
\* The batch wakes the sessions whose queues it filled.
BatchWake(p, wakes) ==
    /\ p \in oMedia.wake /\ Free("media")
    /\ oMedia' = IF oMedia.wake = {p} THEN [slot |-> 3 - oMedia.slot, wake |-> {}]
                 ELSE [oMedia EXCEPT !.wake = @ \ {p}]
    /\ IF wakes THEN NotifyEnter("media", p) ELSE UNCHANGED <<oGate, oNotifier>>
    /\ UNCHANGED <<oPlan, oPeer, oCtl, oQueue, oSlots, oPhase, oWorker>>
\* Its end: contexts and pending dispatches are dropped, each becomes quiet.
MediaEnd ==
    /\ oWorker.media /\ oMedia = Between /\ Free("media") /\ oCtl.op = "stopMedia"
    /\ oSlots' = <<0, 0>> /\ oQueue' = <<>>
    /\ oPhase' = [d \in Dispatches |-> IF oPhase[d] \in {"none", "refused"} THEN oPhase[d] ELSE "quiet"]
    /\ Goto("stopped", 0)
    /\ UNCHANGED <<oPlan, oPeer, oGate, oNotifier, oMedia, oWorker>>

ONext ==
    \/ \E t \in Threads : NotifyLeave(t)
    \/ \E p \in Peers, b \in BOOLEAN : Send(p, b) \/ StepReturn(p, b) \/ Poll(p, b) \/ Attach(p, b) \/ BatchWake(p, b)
    \/ \E p \in Peers : StepStart(p) \/ ReapClose(p) \/ Drain(p)
    \/ PollEnd \/ AttachWake \/ ReapCheck \/ Detach \/ StopPeers \/ Joined
    \/ \E d \in Dispatches : Prepare(d) \/ Activate(d) \/ RequestStop(d)
    \/ StopMedia \/ Context \/ MediaEnd

-----------------------------------------------------------------------------
\* "detach guarantees no callback still borrows this peer": no thread is inside
\* the provider's wake of a detached registration, no owner steps a session whose
\* box is freed, every released session has its stop flag set, and a dispatch
\* that reports quiescence is in no slot; a stopped pair of workers holds nothing.
PeersOutliveCalls ==
    /\ \A t \in Threads : oNotifier[t].at = "calling" => oPeer[oNotifier[t].peer].live
    /\ \A p \in Peers : oPeer[p].running => oPeer[p].at = "owned" /\ oPeer[p].live
    /\ \A p \in Peers : oPeer[p].at = "gone" => oPeer[p].stop
    /\ \A d \in Dispatches : oPhase[d] = "quiet" => oSlots[1] # d /\ oSlots[2] # d
    /\ oCtl.op = "stopped" => /\ \A p \in Peers : oPeer[p].at \in {"prepared", "gone"}
                              /\ \A d \in Dispatches : oPhase[d] \in {"none", "refused", "quiet"}
=============================================================================
