---------------------------- MODULE DetachProofs ----------------------------
(***************************************************************************)
(* What is taken back from threads that are using it, for every plan.      *)
(*                                                                         *)
(* Peer sessions: no thread is inside the wake of a registration that      *)
(* ended, no owner steps a freed session.  OwnerInv is the inductive       *)
(* invariant: the gate's count is the notifiers inside it (Gates), a       *)
(* session's flags follow its place (Sessions), the control task's program *)
(* counter says what it established (Control), and a dispatch is where its *)
(* phase says (Contexts).                                                  *)
(*                                                                         *)
(* The parrot's capture: the live switch is at rest, asked for or          *)
(* answered, and each of the three says which side holds the capture's     *)
(* endpoints (SwitchSound) and where its two buffers are (Buffers).        *)
(***************************************************************************)
EXTENDS PeerOwner, Parrot, TLAPS

\* The provers, and the times, for a leaf that names none.
USE ZenonT(2), SMTT(10), ZenonT(20), SMTT(30), ZenonT(60)

OSpec == OInit /\ [][ONext]_oVars

Inside(t, p) == oNotifier[t].at # "none" /\ oNotifier[t].peer = p
Present(t, p) == IF Inside(t, p) THEN 1 ELSE 0
Places == {"prepared", "pending", "polled", "owned", "gone"}
Phases == {"none", "prepared", "refused", "active", "stopping", "quiet"}
Pending == {"prepared", "active", "stopping"}
Session == [at : Places, stop : BOOLEAN, live : BOOLEAN, running : BOOLEAN]
GateWord == [closed : BOOLEAN, count : Nat, target : BOOLEAN]
Notifier == [peer : Peers \union {0}, at : {"none", "inside", "calling"}]
Operation == [op : {"idle", "wake", "reap", "detach", "drain", "stopMedia", "stopped"},
              peer : Peers \union {0}]

OwnerTypeOK ==
    /\ oPlan \in OwnerPlans
    /\ oPeer \in [Peers -> Session]
    /\ oGate \in [Peers -> GateWord]
    /\ oNotifier \in [Threads -> Notifier]
    /\ oCtl \in Operation
    /\ oQueue \in Seq(Dispatches)
    /\ oSlots \in [1..2 -> Dispatches \union {0}]
    /\ oPhase \in [Dispatches -> Phases]
    /\ oMedia \in [slot : 1..2, wake : SUBSET Peers]
    /\ oWorker \in [peers : BOOLEAN, media : BOOLEAN, thread : BOOLEAN]

\* The gate counts exactly the notifiers inside it, and a notifier that found
\* it open is calling a registration that still lives.
Gates ==
    /\ \A t \in Threads : oNotifier[t].at # "none" => oNotifier[t].peer \in Peers
    /\ \A p \in Peers : oGate[p].count = Present("control", p) + Present("media", p)
    /\ \A t \in Threads : oNotifier[t].at = "calling" => oPeer[oNotifier[t].peer].live
    /\ \A p \in Peers : oGate[p].target => oPeer[p].at \in {"owned", "gone"}
    /\ \A p \in Peers : oGate[p].target /\ oPeer[p].at = "gone" => oGate[p].closed

\* A registration lives exactly while its owner holds the session.
Sessions ==
    /\ \A p \in Peers : oPeer[p].live <=> oPeer[p].at = "owned"
    /\ \A p \in Peers : oPeer[p].running => oPeer[p].live
    /\ \A p \in Peers : oPeer[p].at = "gone" => oPeer[p].stop
    /\ \A p \in Peers : oPeer[p].at \in {"pending", "polled"} => oWorker.thread

\* What control has established inside reap, detach and stop.
Control ==
    /\ oCtl.op \in {"wake", "reap", "detach"} => oCtl.peer \in Peers /\ oPeer[oCtl.peer].at = "owned"
    /\ oCtl.op \in {"reap", "detach"} => oGate[oCtl.peer].closed /\ oPeer[oCtl.peer].stop
    /\ oCtl.op = "detach" => \A t \in Threads : oNotifier[t].at = "calling" => oNotifier[t].peer # oCtl.peer
    /\ oWorker.peers => \A p \in Peers : oPeer[p].at = "owned" => oGate[p].closed /\ oPeer[p].stop
    /\ oCtl.op \in {"drain", "stopMedia", "stopped"} => oWorker.peers
    /\ oCtl.op \in {"stopMedia", "stopped"} => \A p \in Peers : oPeer[p].at \in {"prepared", "gone"}
    /\ oCtl.op = "stopped" => \A d \in Dispatches : oPhase[d] \in {"none", "refused", "quiet"}

\* A dispatch that is queued or in a slot is not quiet, and is there once.
Contexts ==
    /\ Len(oQueue) <= 2
    /\ \A i \in 1..Len(oQueue) : oPhase[oQueue[i]] \in Pending
    /\ \A i, j \in 1..Len(oQueue) : oQueue[i] = oQueue[j] => i = j
    /\ \A s \in 1..2 : oSlots[s] # 0 =>
          /\ oPhase[oSlots[s]] \in Pending
          /\ \A i \in 1..Len(oQueue) : oQueue[i] # oSlots[s]
    /\ oSlots[1] # 0 => oSlots[1] # oSlots[2]
    /\ oCtl.op = "stopped" => oQueue = <<>> /\ oSlots = <<0, 0>>

OwnerInv == OwnerTypeOK /\ Gates /\ Sessions /\ Control /\ Contexts

USE DEF Threads, Places, Phases, Pending

\* The instance never changes.
LEMMA PlanKept ==
  ASSUME UNCHANGED oPlan
  PROVE  Peers' = Peers /\ Dispatches' = Dispatches /\ Notifier' = Notifier /\ Operation' = Operation
BY DEF Peers, Dispatches, Notifier, Operation

\* What does not touch the queue, the slots or the phases keeps Contexts.
LEMMA ContextsFrame ==
  ASSUME OwnerInv, UNCHANGED <<oPlan, oQueue, oSlots, oPhase>>, oCtl'.op = "stopped" => oCtl.op = "stopped"
  PROVE  Contexts'
BY PlanKept DEF OwnerInv, Contexts

\* What does not touch a session or the workers keeps Sessions.
LEMMA SessionsFrame == ASSUME OwnerInv, UNCHANGED <<oPlan, oPeer, oWorker>> PROVE Sessions'
BY PlanKept DEF OwnerInv, Sessions

\* A notifier leaves the gate it entered.
LEMMA NotifyLeaveStep == ASSUME OwnerInv, NEW t \in Threads, NotifyLeave(t) PROVE OwnerInv'
<1> DEFINE q == oNotifier[t].peer
<1>1. /\ q \in Peers /\ oNotifier[t].at # "none"
      /\ oGate' = [oGate EXCEPT ![q].count = @ - 1]
      /\ oNotifier' = [oNotifier EXCEPT ![t] = Away]
      /\ UNCHANGED <<oPlan, oPeer, oCtl, oQueue, oSlots, oPhase, oMedia, oWorker>>
  BY DEF NotifyLeave, OwnerInv, Gates
<1>2. oGate \in [Peers -> GateWord] /\ oNotifier \in [Threads -> Notifier]
  BY DEF OwnerInv, OwnerTypeOK
<1>3. Away \in Notifier /\ Away.at = "none"
  BY DEF Away, Notifier
<1>4. oNotifier' \in [Threads -> Notifier]
  BY <1>1, <1>2, <1>3
<1>5. oGate[q].count >= 1
  BY <1>1 DEF OwnerInv, Gates, Present, Inside
<1>6. oGate' \in [Peers -> GateWord]
  <2>1. [oGate[q] EXCEPT !.count = @ - 1] \in GateWord
    BY <1>1, <1>2, <1>5 DEF GateWord
  <2> QED BY <1>1, <1>2, <2>1
<1>7. OwnerTypeOK'
  BY <1>1, <1>4, <1>6, PlanKept DEF OwnerInv, OwnerTypeOK
<1>8. \A u \in Threads : u # t => oNotifier'[u] = oNotifier[u]
  BY <1>1, <1>2
<1>9. oNotifier'[t].at = "none"
  BY <1>1, <1>2, <1>3
<1>10. \A p \in Peers : /\ p # q => oGate'[p] = oGate[p]
                        /\ oGate'[p].closed = oGate[p].closed /\ oGate'[p].target = oGate[p].target
                        /\ oGate'[p].count = IF p = q THEN oGate[p].count - 1 ELSE oGate[p].count
  BY <1>1, <1>2 DEF GateWord
<1>11. Gates'
  BY <1>1, <1>2, <1>8, <1>9, <1>10, PlanKept DEF OwnerInv, Gates, Present, Inside, GateWord
<1>12. Control'
  BY <1>1, <1>8, <1>9, <1>10, PlanKept DEF OwnerInv, Control
<1> QED BY <1>1, <1>7, <1>11, <1>12, ContextsFrame, SessionsFrame DEF OwnerInv

\* What EXCEPT does to a session, a gate and a notifier.
LEMMA SessionUpdate ==
  ASSUME oPeer \in [Peers -> Session], NEW q \in Peers, NEW r \in Session, oPeer' = [oPeer EXCEPT ![q] = r]
  PROVE  oPeer' \in [Peers -> Session] /\ oPeer'[q] = r /\ \A p \in Peers : p # q => oPeer'[p] = oPeer[p]
OBVIOUS

\* A gate word is replaced.
LEMMA GateUpdate ==
  ASSUME oGate \in [Peers -> GateWord], NEW q \in Peers, NEW r \in GateWord, oGate' = [oGate EXCEPT ![q] = r]
  PROVE  oGate' \in [Peers -> GateWord] /\ oGate'[q] = r /\ \A p \in Peers : p # q => oGate'[p] = oGate[p]
OBVIOUS

\* Entering a gate: the count goes up, and the call is admitted only to a live
\* registration.
LEMMA EnterFacts ==
  ASSUME OwnerInv, NEW t \in Threads, NEW q \in Peers, NotifyEnter(t, q), Free(t),
         UNCHANGED oPlan,
         \A p \in Peers : oPeer'[p].live = oPeer[p].live /\ oPeer'[p].at = oPeer[p].at
  PROVE  /\ oGate' \in [Peers -> GateWord] /\ oNotifier' \in [Threads -> Notifier]
         /\ Gates'
         /\ \A p \in Peers : oGate'[p].closed = oGate[p].closed /\ oGate'[p].target = oGate[p].target
         /\ \A u \in Threads : oNotifier'[u].at = "calling" =>
                \/ oNotifier[u].at = "calling" /\ oNotifier'[u].peer = oNotifier[u].peer
                \/ ~oGate[oNotifier'[u].peer].closed
<1> DEFINE n == [peer |-> q, at |-> IF Admitted(oGate[q]) THEN "calling" ELSE "inside"]
           g == [oGate[q] EXCEPT !.count = @ + 1]
<1>1. /\ oGate' = [oGate EXCEPT ![q] = g] /\ oNotifier' = [oNotifier EXCEPT ![t] = n]
      /\ oNotifier[t].at = "none"
  BY DEF NotifyEnter, Enter, Free
<1>2. oGate \in [Peers -> GateWord] /\ oNotifier \in [Threads -> Notifier] /\ oPeer \in [Peers -> Session]
  BY DEF OwnerInv, OwnerTypeOK
<1>3. n \in Notifier /\ g \in GateWord
  BY <1>2 DEF Notifier, GateWord
<1>4. /\ g.closed = oGate[q].closed /\ g.target = oGate[q].target /\ g.count = oGate[q].count + 1
  BY <1>2 DEF GateWord
<1> HIDE DEF g
<1>5. /\ oGate' \in [Peers -> GateWord] /\ oGate'[q] = g /\ \A p \in Peers : p # q => oGate'[p] = oGate[p]
  BY <1>1, <1>2, <1>3, GateUpdate
<1>6. /\ oNotifier' \in [Threads -> Notifier] /\ oNotifier'[t] = n
      /\ \A u \in Threads : u # t => oNotifier'[u] = oNotifier[u]
  BY <1>1, <1>2, <1>3
<1>7. n.at = "calling" => ~oGate[q].closed /\ oPeer[q].live
  BY DEF Admitted, OwnerInv, Gates, Sessions
<1>8. n.peer = q /\ n.at # "none"
  OBVIOUS
<1> HIDE DEF n
<1>9. Gates'
  <2>1. \A u \in Threads : oNotifier'[u].at # "none" => oNotifier'[u].peer \in Peers
    BY <1>6, <1>8 DEF OwnerInv, Gates
  <2>2. \A u \in Threads : oNotifier'[u].at = "calling" => oPeer'[oNotifier'[u].peer].live
    BY <1>6, <1>7, <1>8 DEF OwnerInv, Gates
  <2>3. \A p \in Peers : Present("control", p)' + Present("media", p)'
                           = Present("control", p) + Present("media", p) + IF p = q THEN 1 ELSE 0
    BY <1>1, <1>6, <1>8 DEF Present, Inside
  <2>4. \A p \in Peers : oGate'[p].count = oGate[p].count + IF p = q THEN 1 ELSE 0
    BY <1>2, <1>4, <1>5 DEF GateWord
  <2>5. \A p \in Peers : oGate'[p].count = Present("control", p)' + Present("media", p)'
    BY <2>3, <2>4 DEF OwnerInv, Gates
  <2>6. \A p \in Peers : oGate'[p].closed = oGate[p].closed /\ oGate'[p].target = oGate[p].target
    BY <1>4, <1>5
  <2> QED BY <2>1, <2>2, <2>5, <2>6, PlanKept DEF OwnerInv, Gates
<1> QED BY <1>4, <1>5, <1>6, <1>7, <1>8, <1>9

\* A command, or a stop, notifies the session.
LEMMA SendStep == ASSUME OwnerInv, NEW q \in Peers, NEW b \in BOOLEAN, Send(q, b) PROVE OwnerInv'
<1> DEFINE r == [oPeer[q] EXCEPT !.stop = @ \/ b]
<1>1. /\ oPeer' = [oPeer EXCEPT ![q] = r] /\ NotifyEnter("control", q) /\ Free("control") /\ oCtl.op = "idle"
      /\ UNCHANGED <<oPlan, oCtl, oQueue, oSlots, oPhase, oMedia, oWorker>>
  BY DEF Send, Idle
<1>2. oPeer \in [Peers -> Session]
  BY DEF OwnerInv, OwnerTypeOK
<1>3. /\ r \in Session /\ r.at = oPeer[q].at /\ r.live = oPeer[q].live /\ r.running = oPeer[q].running
      /\ oPeer[q].stop => r.stop
  BY <1>2 DEF Session
<1> HIDE DEF r
<1>4. oPeer' \in [Peers -> Session] /\ oPeer'[q] = r /\ \A p \in Peers : p # q => oPeer'[p] = oPeer[p]
  BY <1>1, <1>2, <1>3, SessionUpdate
<1>5. \A p \in Peers : oPeer'[p].live = oPeer[p].live /\ oPeer'[p].at = oPeer[p].at
  BY <1>3, <1>4
<1>6. /\ oGate' \in [Peers -> GateWord] /\ oNotifier' \in [Threads -> Notifier] /\ Gates'
      /\ \A p \in Peers : oGate'[p].closed = oGate[p].closed
  BY <1>1, <1>5, EnterFacts
<1>7. OwnerTypeOK'
  BY <1>1, <1>4, <1>6, PlanKept DEF OwnerInv, OwnerTypeOK
<1>8. Sessions'
  BY <1>1, <1>3, <1>4, PlanKept DEF OwnerInv, Sessions
<1>9. Control'
  BY <1>1, <1>3, <1>4, <1>6, PlanKept DEF OwnerInv, Control
<1> QED BY <1>1, <1>6, <1>7, <1>8, <1>9, ContextsFrame DEF OwnerInv

\* One session changes, and control and the workers with it: what must be shown
\* of the new session.
LEMMA SessionStep ==
  ASSUME OwnerInv, NEW q \in Peers, NEW r \in Session, oPeer' = [oPeer EXCEPT ![q] = r],
         UNCHANGED <<oPlan, oGate, oNotifier, oQueue, oSlots, oPhase, oMedia>>,
         oWorker' \in [peers : BOOLEAN, media : BOOLEAN, thread : BOOLEAN], oWorker'.peers = oWorker.peers,
         oCtl' \in Operation,
         r.live <=> r.at = "owned", r.running => r.live, r.at = "gone" => r.stop,
         oPeer[q].stop => r.stop,
         oWorker.thread => oWorker'.thread, r.at \in {"pending", "polled"} => oWorker'.thread,
         oGate[q].target => r.at \in {"owned", "gone"},
         oGate[q].target /\ r.at = "gone" => oGate[q].closed,
         oPeer[q].live /\ ~r.live =>
            \A t \in Threads : oNotifier[t].at = "calling" => oNotifier[t].peer # q,
         oCtl'.op \in {"wake", "reap", "detach"} =>
            /\ oCtl'.peer \in Peers
            /\ (IF oCtl'.peer = q THEN r.at ELSE oPeer[oCtl'.peer].at) = "owned",
         oCtl'.op \in {"reap", "detach"} => oCtl' = oCtl,
         oWorker.peers /\ r.at = "owned" => oPeer[q].at = "owned",
         oCtl'.op \in {"drain", "stopMedia", "stopped"} => oWorker.peers,
         oCtl'.op \in {"stopMedia", "stopped"} => oCtl' = oCtl /\ r.at \in {"prepared", "gone"}
  PROVE  OwnerInv'
<1>1. oPeer \in [Peers -> Session]
  BY DEF OwnerInv, OwnerTypeOK
<1>2. oPeer' \in [Peers -> Session] /\ oPeer'[q] = r /\ \A p \in Peers : p # q => oPeer'[p] = oPeer[p]
  BY <1>1, SessionUpdate
<1>3. OwnerTypeOK'
  BY <1>2, PlanKept DEF OwnerInv, OwnerTypeOK
<1>4. Gates'
  BY <1>2, PlanKept DEF OwnerInv, Gates, Present, Inside
<1>5. Sessions'
  BY <1>2, PlanKept DEF OwnerInv, Sessions
<1>6. Control'
  BY <1>2, PlanKept DEF OwnerInv, Control
<1> QED BY <1>3, <1>4, <1>5, <1>6, ContextsFrame DEF OwnerInv

\* A callback starts only on a live registration.
LEMMA StepStartStep == ASSUME OwnerInv, NEW q \in Peers, StepStart(q) PROVE OwnerInv'
<1> DEFINE r == [oPeer[q] EXCEPT !.running = TRUE]
<1>1. /\ oPeer' = [oPeer EXCEPT ![q] = r] /\ oPeer[q].live
      /\ UNCHANGED <<oPlan, oGate, oNotifier, oCtl, oQueue, oSlots, oPhase, oMedia, oWorker>>
  BY DEF StepStart
<1>2. oPeer[q] \in Session /\ oWorker \in [peers : BOOLEAN, media : BOOLEAN, thread : BOOLEAN] /\ oCtl \in Operation
  BY DEF OwnerInv, OwnerTypeOK
<1>3. r \in Session /\ r.at = oPeer[q].at /\ r.live = oPeer[q].live /\ r.stop = oPeer[q].stop
  BY Zenon, <1>2 DEF Session
<1> HIDE DEF r
<1> QED BY ZenonT(60), <1>1, <1>2, <1>3, PlanKept, SessionStep DEF OwnerInv, Sessions, Gates, Control

\* It returns, and may ask for the end of the session.
LEMMA StepReturnStep ==
  ASSUME OwnerInv, NEW q \in Peers, NEW b \in BOOLEAN, StepReturn(q, b) PROVE OwnerInv'
<1> DEFINE r == [oPeer[q] EXCEPT !.running = FALSE, !.stop = @ \/ b]
<1>1. /\ oPeer' = [oPeer EXCEPT ![q] = r]
      /\ UNCHANGED <<oPlan, oGate, oNotifier, oCtl, oQueue, oSlots, oPhase, oMedia, oWorker>>
  BY Zenon DEF StepReturn
<1>2. oPeer[q] \in Session /\ oWorker \in [peers : BOOLEAN, media : BOOLEAN, thread : BOOLEAN] /\ oCtl \in Operation
  BY DEF OwnerInv, OwnerTypeOK
<1>3. /\ r \in Session /\ r.at = oPeer[q].at /\ r.live = oPeer[q].live /\ (oPeer[q].stop => r.stop)
      /\ ~r.running
  BY Zenon, <1>2 DEF Session
<1>4. oPeer[q].live /\ oPeer[q].at = "owned"
  BY DEF StepReturn, OwnerInv, Sessions
<1> HIDE DEF r
<1> QED BY Zenon, <1>1, <1>2, <1>3, <1>4, SessionStep DEF OwnerInv, Control

\* The polling thread drops only stopped sessions.
LEMMA PollStep == ASSUME OwnerInv, NEW q \in Peers, NEW b \in BOOLEAN, Poll(q, b) PROVE OwnerInv'
<1> DEFINE r == [oPeer[q] EXCEPT !.at = IF b \/ (@ = "polled" /\ oPeer[q].stop) THEN "gone" ELSE "polled",
                                 !.stop = @ \/ b]
<1>1. /\ oPeer' = [oPeer EXCEPT ![q] = r] /\ oPeer[q].at \in {"pending", "polled"} /\ oWorker.thread
      /\ ~oWorker.peers
      /\ UNCHANGED <<oPlan, oGate, oNotifier, oCtl, oQueue, oSlots, oPhase, oMedia, oWorker>>
  BY Zenon DEF Poll
<1>2. oPeer[q] \in Session /\ oWorker \in [peers : BOOLEAN, media : BOOLEAN, thread : BOOLEAN] /\ oCtl \in Operation
  BY DEF OwnerInv, OwnerTypeOK
<1>3. /\ r \in Session /\ r.live = oPeer[q].live /\ r.running = oPeer[q].running /\ (oPeer[q].stop => r.stop)
      /\ r.at \in {"polled", "gone"} /\ (r.at = "gone" => r.stop)
  BY Zenon, <1>2 DEF Session
<1>4. ~oPeer[q].live /\ ~oPeer[q].running /\ ~oGate[q].target
  BY <1>1 DEF OwnerInv, Sessions, Gates
<1>5. oCtl.op \in {"wake", "reap", "detach"} => oCtl.peer # q
  BY <1>1 DEF OwnerInv, Control
<1> HIDE DEF r
<1> QED BY Zenon, <1>1, <1>2, <1>3, <1>4, <1>5, SessionStep DEF OwnerInv, Control

\* Its end drops every session it holds.
LEMMA PollEndStep == ASSUME OwnerInv, PollEnd PROVE OwnerInv'
<1> DEFINE Held(p) == oPeer[p].at \in {"pending", "polled"}
           Dropped(p) == [oPeer[p] EXCEPT !.at = "gone", !.stop = TRUE]
<1>1. /\ oWorker' = [oWorker EXCEPT !.thread = FALSE] /\ oWorker.peers
      /\ oPeer' = [p \in Peers |-> IF Held(p) THEN Dropped(p) ELSE oPeer[p]]
      /\ UNCHANGED <<oPlan, oGate, oNotifier, oCtl, oQueue, oSlots, oPhase, oMedia>>
  BY Zenon DEF PollEnd
<1>2. oPeer \in [Peers -> Session]
  BY DEF OwnerInv, OwnerTypeOK
<1>3. ASSUME NEW p \in Peers
      PROVE  /\ Dropped(p) \in Session /\ Dropped(p).at = "gone" /\ Dropped(p).stop
             /\ Dropped(p).live = oPeer[p].live /\ Dropped(p).running = oPeer[p].running
  BY Zenon, <1>2 DEF Session
<1> HIDE DEF Dropped
<1>4. oPeer' \in [Peers -> Session] /\ \A p \in Peers : oPeer'[p] = IF Held(p) THEN Dropped(p) ELSE oPeer[p]
  BY <1>1, <1>2, <1>3
<1>5. /\ oWorker' \in [peers : BOOLEAN, media : BOOLEAN, thread : BOOLEAN] /\ oWorker'.peers
  BY Zenon, <1>1 DEF OwnerInv, OwnerTypeOK
<1>6. OwnerTypeOK'
  BY <1>1, <1>4, <1>5, PlanKept DEF OwnerInv, OwnerTypeOK
<1>7. \A p \in Peers : Held(p) => ~oPeer[p].live /\ ~oPeer[p].running /\ ~oGate[p].target
  BY DEF OwnerInv, Sessions, Gates
<1>8. Gates'
  BY <1>1, <1>3, <1>4, <1>7, PlanKept DEF OwnerInv, Gates, Present, Inside
<1>9. Sessions'
  BY <1>1, <1>3, <1>4, <1>7, PlanKept DEF OwnerInv, Sessions
<1>10. Control'
  BY <1>1, <1>3, <1>4, <1>5, PlanKept DEF OwnerInv, Control
<1> QED BY <1>1, <1>6, <1>8, <1>9, <1>10, ContextsFrame DEF OwnerInv

\* A session is handed to its owner, or refused and stopped.
LEMMA AttachStep == ASSUME OwnerInv, NEW q \in Peers, NEW b \in BOOLEAN, Attach(q, b) PROVE OwnerInv'
<1>1. /\ oCtl.op = "idle" /\ oPeer[q].at = "prepared" /\ ~oWorker.peers
      /\ UNCHANGED <<oPlan, oGate, oNotifier, oQueue, oSlots, oPhase, oMedia>>
  BY DEF Attach, Ready, Idle
<1>2. oPeer[q] \in Session /\ oWorker \in [peers : BOOLEAN, media : BOOLEAN, thread : BOOLEAN] /\ oCtl \in Operation
  BY DEF OwnerInv, OwnerTypeOK
<1>3. ~oPeer[q].live /\ ~oPeer[q].running /\ ~oGate[q].target
  BY <1>1 DEF OwnerInv, Sessions, Gates
<1>4. CASE q \in oPlan.polled
  <2> DEFINE r == [oPeer[q] EXCEPT !.at = IF b THEN "pending" ELSE "gone", !.stop = @ \/ ~b]
  <2>1. /\ oPeer' = [oPeer EXCEPT ![q] = r] /\ oWorker' = [oWorker EXCEPT !.thread = @ \/ b]
        /\ oCtl' = oCtl
    BY Zenon, <1>4 DEF Attach
  <2>2. /\ r \in Session /\ r.live = oPeer[q].live /\ r.running = oPeer[q].running
        /\ (oPeer[q].stop => r.stop) /\ r.at = (IF b THEN "pending" ELSE "gone") /\ (~b => r.stop)
    BY Zenon, <1>2 DEF Session
  <2>3. /\ oWorker' \in [peers : BOOLEAN, media : BOOLEAN, thread : BOOLEAN]
        /\ oWorker'.peers = oWorker.peers /\ (oWorker.thread \/ b => oWorker'.thread)
    BY <1>2, <2>1
  <2> HIDE DEF r
  <2> QED BY Zenon, <1>1, <1>2, <1>3, <2>1, <2>2, <2>3, SessionStep
<1>5. CASE q \notin oPlan.polled
  <2> DEFINE r == [oPeer[q] EXCEPT !.at = IF b THEN "owned" ELSE "gone", !.live = b, !.stop = @ \/ ~b]
  <2>1. /\ oPeer' = [oPeer EXCEPT ![q] = r] /\ oWorker' = oWorker
        /\ oCtl' = IF b THEN [op |-> "wake", peer |-> q] ELSE oCtl
    BY Zenon, <1>5 DEF Attach, Goto
  <2>2. /\ r \in Session /\ r.live = b /\ r.running = oPeer[q].running
        /\ (oPeer[q].stop => r.stop) /\ r.at = (IF b THEN "owned" ELSE "gone") /\ (~b => r.stop)
    BY Zenon, <1>2 DEF Session
  <2>3. /\ oCtl' \in Operation /\ oCtl'.op \in {"wake", "idle"} /\ (oCtl'.op = "wake" => b /\ oCtl'.peer = q)
    BY <1>1, <1>2, <2>1 DEF Operation
  <2> HIDE DEF r
  <2> QED BY Zenon, <1>1, <1>2, <1>3, <2>1, <2>2, <2>3, SessionStep
<1> QED BY <1>4, <1>5

\* The gate of one owned session changes, without its count.
LEMMA GateStep ==
  ASSUME OwnerInv, NEW q \in Peers, NEW g \in GateWord, oGate' = [oGate EXCEPT ![q] = g],
         UNCHANGED <<oPlan, oPeer, oNotifier, oQueue, oSlots, oPhase, oMedia, oWorker>>,
         oPeer[q].at = "owned", g.count = oGate[q].count, oGate[q].closed => g.closed,
         oCtl' \in Operation, oCtl'.op \in {"idle", "reap"},
         oCtl'.op = "reap" => oCtl'.peer = q /\ g.closed /\ oPeer[q].stop
  PROVE  OwnerInv'
<1>1. oGate \in [Peers -> GateWord]
  BY DEF OwnerInv, OwnerTypeOK
<1>2. oGate' \in [Peers -> GateWord] /\ oGate'[q] = g /\ \A p \in Peers : p # q => oGate'[p] = oGate[p]
  BY <1>1, GateUpdate
<1>3. OwnerTypeOK'
  BY <1>2, PlanKept DEF OwnerInv, OwnerTypeOK
<1>4. Gates'
  BY <1>2, PlanKept DEF OwnerInv, Gates, Present, Inside
<1>5. Control'
  BY <1>2, PlanKept DEF OwnerInv, Control
<1> QED BY <1>3, <1>4, <1>5, SessionsFrame, ContextsFrame DEF OwnerInv

\* The wake is attached to a session that is still owned.
LEMMA AttachWakeStep == ASSUME OwnerInv, AttachWake PROVE OwnerInv'
<1> DEFINE q == oCtl.peer
           g == [oGate[q] EXCEPT !.target = TRUE]
<1>1. /\ q \in Peers /\ oPeer[q].at = "owned" /\ oGate' = [oGate EXCEPT ![q] = g] /\ oCtl' = Idle
      /\ UNCHANGED <<oPlan, oPeer, oNotifier, oQueue, oSlots, oPhase, oMedia, oWorker>>
  BY DEF AttachWake, OwnerInv, Control
<1>2. oGate[q] \in GateWord
  BY <1>1 DEF OwnerInv, OwnerTypeOK
<1>3. g \in GateWord /\ g.count = oGate[q].count /\ g.closed = oGate[q].closed
  BY Zenon, <1>2 DEF GateWord
<1>4. Idle \in Operation /\ Idle.op = "idle"
  BY DEF Idle, Operation
<1> HIDE DEF g, q
<1> QED BY Zenon, <1>1, <1>3, <1>4, GateStep

\* reap closes the gate first.
LEMMA ReapCloseStep == ASSUME OwnerInv, NEW q \in Peers, ReapClose(q) PROVE OwnerInv'
<1> DEFINE g == [oGate[q] EXCEPT !.closed = TRUE]
<1>1. /\ oPeer[q].at = "owned" /\ oPeer[q].stop /\ oGate' = [oGate EXCEPT ![q] = g]
      /\ oCtl' = [op |-> "reap", peer |-> q]
      /\ UNCHANGED <<oPlan, oPeer, oNotifier, oQueue, oSlots, oPhase, oMedia, oWorker>>
  BY DEF ReapClose, Goto
<1>2. oGate[q] \in GateWord
  BY <1>1 DEF OwnerInv, OwnerTypeOK
<1>3. g \in GateWord /\ g.count = oGate[q].count /\ g.closed
  BY Zenon, <1>2 DEF GateWord
<1>4. oCtl' \in Operation
  BY <1>1 DEF Operation
<1> HIDE DEF g
<1> QED BY Zenon, <1>1, <1>3, <1>4, GateStep

\* An empty closed gate has no caller, and admits none.
LEMMA ReapCheckStep == ASSUME OwnerInv, ReapCheck PROVE OwnerInv'
<1>0. UNCHANGED oPlan
  BY DEF ReapCheck, Goto, Idle
<1>1. OwnerTypeOK'
  BY <1>0, PlanKept DEF OwnerInv, OwnerTypeOK, Session, GateWord, Notifier, Operation, ReapCheck, Goto, Idle
<1>2. Gates'
  BY <1>0, PlanKept DEF OwnerInv, OwnerTypeOK, Session, GateWord, Gates, Sessions, Control, Inside, Present, ReapCheck, Goto, Idle
<1>3. Sessions'
  BY <1>0, PlanKept DEF OwnerInv, OwnerTypeOK, Session, Operation, Sessions, Control, ReapCheck, Goto, Idle
<1>4. Control'
  BY <1>0, PlanKept DEF OwnerInv, OwnerTypeOK, Session, GateWord, Operation, Gates, Sessions, Control, Contexts, Inside, Present, ReapCheck, Goto, Idle
<1>5. Contexts'
  BY <1>0, PlanKept DEF OwnerInv, OwnerTypeOK, Operation, Contexts, Control, ReapCheck, Goto, Idle
<1> QED BY <1>1, <1>2, <1>3, <1>4, <1>5 DEF OwnerInv

\* The registration ends with nobody inside.
LEMMA DetachStep == ASSUME OwnerInv, Detach PROVE OwnerInv'
<1> DEFINE q == oCtl.peer
           r == [oPeer[q] EXCEPT !.live = FALSE, !.at = "gone"]
<1>1. /\ q \in Peers /\ oCtl.op = "detach" /\ oPeer[q].at = "owned" /\ oPeer[q].stop /\ oGate[q].closed
      /\ \A t \in Threads : oNotifier[t].at = "calling" => oNotifier[t].peer # q
  BY DEF Detach, OwnerInv, Control
<1>2. /\ ~oPeer[q].running /\ oPeer' = [oPeer EXCEPT ![q] = r]
      /\ oCtl' = IF oWorker.peers THEN [op |-> "drain", peer |-> 0] ELSE Idle
      /\ UNCHANGED <<oPlan, oGate, oNotifier, oQueue, oSlots, oPhase, oMedia, oWorker>>
  BY Zenon DEF Detach
<1>3. oPeer[q] \in Session /\ oWorker \in [peers : BOOLEAN, media : BOOLEAN, thread : BOOLEAN]
  BY <1>1 DEF OwnerInv, OwnerTypeOK
<1>4. /\ r \in Session /\ r.at = "gone" /\ ~r.live /\ r.running = oPeer[q].running /\ r.stop = oPeer[q].stop
  BY Zenon, <1>3 DEF Session
<1>5. oCtl' \in Operation /\ oCtl'.op = IF oWorker.peers THEN "drain" ELSE "idle"
  BY <1>2 DEF Operation, Idle
<1> HIDE DEF r, q
<1> QED BY Zenon, <1>1, <1>2, <1>3, <1>4, <1>5, SessionStep

\* stop closes every gate.
LEMMA StopPeersStep == ASSUME OwnerInv, StopPeers PROVE OwnerInv'
<1> DEFINE g(p) == [oGate[p] EXCEPT !.closed = @ \/ oPeer[p].at = "owned"]
           r(p) == [oPeer[p] EXCEPT !.stop = @ \/ oPeer[p].at = "owned"]
<1>1. /\ oWorker' = [oWorker EXCEPT !.peers = TRUE] /\ oCtl.op = "idle"
      /\ oGate' = [p \in Peers |-> g(p)] /\ oPeer' = [p \in Peers |-> r(p)]
      /\ oCtl' = [op |-> "drain", peer |-> 0]
      /\ UNCHANGED <<oPlan, oNotifier, oQueue, oSlots, oPhase, oMedia>>
  BY DEF StopPeers, Goto, Ready, Idle
<1>2. oGate \in [Peers -> GateWord] /\ oPeer \in [Peers -> Session]
  BY DEF OwnerInv, OwnerTypeOK
<1>3. ASSUME NEW p \in Peers
      PROVE  /\ g(p) \in GateWord /\ g(p).count = oGate[p].count /\ g(p).target = oGate[p].target
             /\ (oGate[p].closed \/ oPeer[p].at = "owned" => g(p).closed)
             /\ r(p) \in Session /\ r(p).at = oPeer[p].at /\ r(p).live = oPeer[p].live
             /\ r(p).running = oPeer[p].running /\ (oPeer[p].stop \/ oPeer[p].at = "owned" => r(p).stop)
  BY ZenonT(60), <1>2 DEF GateWord, Session
<1> HIDE DEF g, r
<1>4. /\ oGate' \in [Peers -> GateWord] /\ oPeer' \in [Peers -> Session]
      /\ \A p \in Peers : oGate'[p] = g(p) /\ oPeer'[p] = r(p)
  BY <1>1, <1>3
<1>5. /\ oWorker' \in [peers : BOOLEAN, media : BOOLEAN, thread : BOOLEAN] /\ oWorker'.peers
      /\ oWorker'.thread = oWorker.thread /\ oCtl' \in Operation /\ oCtl'.op = "drain"
  BY Zenon, <1>1 DEF OwnerInv, OwnerTypeOK, Operation
<1>6. OwnerTypeOK'
  BY <1>1, <1>4, <1>5, PlanKept DEF OwnerInv, OwnerTypeOK
<1>7. Gates'
  BY <1>1, <1>3, <1>4, PlanKept DEF OwnerInv, Gates, Present, Inside
<1>8. Sessions'
  BY <1>1, <1>3, <1>4, <1>5, PlanKept DEF OwnerInv, Sessions
<1>9. Control'
  BY <1>1, <1>3, <1>4, <1>5, PlanKept DEF OwnerInv, Control
<1> QED BY <1>1, <1>5, <1>6, <1>7, <1>8, <1>9, ContextsFrame DEF OwnerInv

\* Each owned session is taken when it is quiet.
LEMMA DrainStep == ASSUME OwnerInv, NEW q \in Peers, Drain(q) PROVE OwnerInv'
<1>0. UNCHANGED oPlan
  BY DEF Drain, Goto
<1>1. OwnerTypeOK'
  BY <1>0, PlanKept DEF OwnerInv, OwnerTypeOK, Session, GateWord, Notifier, Operation, Drain, Goto
<1>2. Gates'
  BY <1>0, PlanKept DEF OwnerInv, OwnerTypeOK, Session, GateWord, Gates, Sessions, Control, Inside, Present, Drain, Goto
<1>3. Sessions'
  BY <1>0, PlanKept DEF OwnerInv, OwnerTypeOK, Session, Operation, Sessions, Control, Drain, Goto
<1>4. Control'
  BY <1>0, PlanKept DEF OwnerInv, OwnerTypeOK, Session, GateWord, Operation, Gates, Sessions, Control, Contexts, Inside, Present, Drain, Goto
<1>5. Contexts'
  BY <1>0, PlanKept DEF OwnerInv, OwnerTypeOK, Operation, Contexts, Control, Drain, Goto
<1> QED BY <1>1, <1>2, <1>3, <1>4, <1>5 DEF OwnerInv

\* Nothing is left to own when the thread has ended.
LEMMA JoinedStep == ASSUME OwnerInv, Joined PROVE OwnerInv'
<1>0. UNCHANGED oPlan
  BY DEF Joined, Goto
<1>1. OwnerTypeOK'
  BY <1>0, PlanKept DEF OwnerInv, OwnerTypeOK, Session, GateWord, Notifier, Operation, Joined, Goto
<1>2. Gates'
  BY <1>0, PlanKept DEF OwnerInv, OwnerTypeOK, Session, GateWord, Gates, Sessions, Control, Inside, Present, Joined, Goto
<1>3. Sessions'
  BY <1>0, PlanKept DEF OwnerInv, OwnerTypeOK, Session, Operation, Sessions, Control, Joined, Goto
<1>4. Control'
  BY <1>0, PlanKept DEF OwnerInv, OwnerTypeOK, Session, GateWord, Operation, Gates, Sessions, Control, Contexts, Inside, Present, Joined, Goto
<1>5. Contexts'
  BY <1>0, PlanKept DEF OwnerInv, OwnerTypeOK, Operation, Contexts, Control, Joined, Goto
<1> QED BY <1>1, <1>2, <1>3, <1>4, <1>5 DEF OwnerInv

\* A dispatch is queued once.
LEMMA PrepareStep == ASSUME OwnerInv, NEW d \in Dispatches, Prepare(d) PROVE OwnerInv'
<1>0. UNCHANGED oPlan
  BY DEF Prepare, Ready, Idle, Free
<1>1. OwnerTypeOK'
  <2>1. oQueue \in Seq(Dispatches) /\ oPhase \in [Dispatches -> Phases]
    BY DEF OwnerInv, OwnerTypeOK
  <2>2. oQueue' = Append(oQueue, d) \/ oQueue' = oQueue
    BY DEF Prepare
  <2>3. oQueue' \in Seq(Dispatches)
    BY <2>1, <2>2
  <2>4. oPhase' \in [Dispatches -> Phases]
    BY <2>1 DEF Prepare
  <2> QED BY <1>0, <2>3, <2>4, PlanKept DEF OwnerInv, OwnerTypeOK, Prepare
<1>2. Gates'
  BY <1>0, PlanKept DEF OwnerInv, OwnerTypeOK, Session, GateWord, Gates, Sessions, Control, Inside, Present, Prepare, Ready, Idle, Free
<1>3. Sessions'
  BY <1>0, PlanKept DEF OwnerInv, OwnerTypeOK, Session, Operation, Sessions, Control, Prepare, Ready, Idle, Free
<1>4. Control'
  BY <1>0, PlanKept DEF OwnerInv, OwnerTypeOK, Session, GateWord, Operation, Gates, Sessions, Control, Contexts, Inside, Present, Prepare, Ready, Idle, Free
<1>5. Contexts'
  BY <1>0, PlanKept DEF OwnerInv, OwnerTypeOK, Operation, Contexts, Control, Prepare, Ready, Idle, Free
<1> QED BY <1>1, <1>2, <1>3, <1>4, <1>5 DEF OwnerInv

\* Activation keeps it pending.
LEMMA ActivateStep == ASSUME OwnerInv, NEW d \in Dispatches, Activate(d) PROVE OwnerInv'
<1>0. UNCHANGED oPlan
  BY DEF Activate, Ready, Idle, Free
<1>1. OwnerTypeOK'
  BY Zenon, <1>0, PlanKept DEF OwnerInv, OwnerTypeOK, Session, GateWord, Notifier, Operation, Activate, Ready, Idle, Free
<1>2. Gates'
  BY <1>0, PlanKept DEF OwnerInv, OwnerTypeOK, Session, GateWord, Gates, Sessions, Control, Inside, Present, Activate, Ready, Idle, Free
<1>3. Sessions'
  BY <1>0, PlanKept DEF OwnerInv, OwnerTypeOK, Session, Operation, Sessions, Control, Activate, Ready, Idle, Free
<1>4. Control'
  BY <1>0, PlanKept DEF OwnerInv, OwnerTypeOK, Session, GateWord, Operation, Gates, Sessions, Control, Contexts, Inside, Present, Activate, Ready, Idle, Free
<1>5. Contexts'
  BY <1>0, PlanKept DEF OwnerInv, OwnerTypeOK, Operation, Contexts, Control, Activate, Ready, Idle, Free
<1> QED BY <1>1, <1>2, <1>3, <1>4, <1>5 DEF OwnerInv

\* So does the request to stop.
LEMMA RequestStopStep == ASSUME OwnerInv, NEW d \in Dispatches, RequestStop(d) PROVE OwnerInv'
<1>0. UNCHANGED oPlan
  BY DEF RequestStop, Ready, Idle, Free
<1>1. OwnerTypeOK'
  BY Zenon, <1>0, PlanKept DEF OwnerInv, OwnerTypeOK, Session, GateWord, Notifier, Operation, RequestStop, Ready, Idle, Free
<1>2. Gates'
  BY <1>0, PlanKept DEF OwnerInv, OwnerTypeOK, Session, GateWord, Gates, Sessions, Control, Inside, Present, RequestStop, Ready, Idle, Free
<1>3. Sessions'
  BY <1>0, PlanKept DEF OwnerInv, OwnerTypeOK, Session, Operation, Sessions, Control, RequestStop, Ready, Idle, Free
<1>4. Control'
  BY <1>0, PlanKept DEF OwnerInv, OwnerTypeOK, Session, GateWord, Operation, Gates, Sessions, Control, Contexts, Inside, Present, RequestStop, Ready, Idle, Free
<1>5. Contexts'
  BY <1>0, PlanKept DEF OwnerInv, OwnerTypeOK, Operation, Contexts, Control, RequestStop, Ready, Idle, Free
<1> QED BY <1>1, <1>2, <1>3, <1>4, <1>5 DEF OwnerInv

\* The media worker is told to stop.
LEMMA StopMediaStep == ASSUME OwnerInv, StopMedia PROVE OwnerInv'
<1>0. UNCHANGED oPlan
  BY DEF StopMedia
<1>1. OwnerTypeOK'
  BY ZenonT(60), <1>0, PlanKept DEF OwnerInv, OwnerTypeOK, Session, GateWord, Notifier, Operation, StopMedia
<1>2. Gates'
  BY <1>0, PlanKept DEF OwnerInv, OwnerTypeOK, Session, GateWord, Gates, Sessions, Control, Inside, Present, StopMedia
<1>3. Sessions'
  BY <1>0, PlanKept DEF OwnerInv, OwnerTypeOK, Session, Operation, Sessions, Control, StopMedia
<1>4. Control'
  BY <1>0, PlanKept DEF OwnerInv, OwnerTypeOK, Session, GateWord, Operation, Gates, Sessions, Control, Contexts, Inside, Present, StopMedia
<1>5. Contexts'
  BY <1>0, PlanKept DEF OwnerInv, OwnerTypeOK, Operation, Contexts, Control, StopMedia
<1> QED BY <1>1, <1>2, <1>3, <1>4, <1>5 DEF OwnerInv

\* A context is filled from the queue, and emptied when its dispatch is quiet.
LEMMA ContextStep == ASSUME OwnerInv, Context PROVE OwnerInv'
<1>0. UNCHANGED oPlan
  BY DEF Context, Free
<1>1. OwnerTypeOK'
  <2>1. oQueue' \in Seq(Dispatches)
    BY DEF OwnerInv, OwnerTypeOK, Context
  <2>2. oSlots' \in [1..2 -> Dispatches \union {0}]
    <3> DEFINE s == oMedia.slot
               taken == IF oSlots[s] = 0 /\ oQueue # <<>> THEN Head(oQueue) ELSE oSlots[s]
    <3>1. /\ s \in 1..2 /\ oSlots \in [1..2 -> Dispatches \union {0}] /\ oQueue \in Seq(Dispatches)
      BY DEF OwnerInv, OwnerTypeOK
    <3>2. taken \in Dispatches \union {0}
      BY <3>1
    <3>3. oSlots' = [oSlots EXCEPT ![s] = 0] \/ oSlots' = [oSlots EXCEPT ![s] = taken]
      BY DEF Context
    <3> HIDE DEF taken, s
    <3> QED BY <3>1, <3>2, <3>3
  <2>4. oPhase' \in [Dispatches -> Phases]
    BY DEF OwnerInv, OwnerTypeOK, Context
  <2>3. oMedia' \in [slot : 1..2, wake : SUBSET Peers]
    BY DEF OwnerInv, OwnerTypeOK, Context
  <2> QED BY <1>0, <2>1, <2>2, <2>3, <2>4, PlanKept DEF OwnerInv, OwnerTypeOK, Context
<1>2. Gates'
  BY <1>0, PlanKept DEF OwnerInv, OwnerTypeOK, Session, GateWord, Gates, Sessions, Control, Inside, Present, Context, Free
<1>3. Sessions'
  BY <1>0, PlanKept DEF OwnerInv, OwnerTypeOK, Session, Operation, Sessions, Control, Context, Free
<1>4. Control'
  BY <1>0, PlanKept DEF OwnerInv, OwnerTypeOK, Session, GateWord, Operation, Gates, Sessions, Control, Contexts, Inside, Present, Context, Free
<1>5. Contexts'
  <2> DEFINE s == oMedia.slot
             o == 3 - s
             t == IF oSlots[s] = 0 /\ oQueue # <<>> THEN Head(oQueue) ELSE oSlots[s]
  <2>1. /\ s \in 1..2 /\ o \in 1..2 /\ s # o /\ \A k \in 1..2 : k = s \/ k = o
        /\ oSlots \in [1..2 -> Dispatches \union {0}] /\ oQueue \in Seq(Dispatches)
        /\ oPhase \in [Dispatches -> Phases] /\ Contexts
    BY DEF OwnerInv, OwnerTypeOK
  <2>2. /\ oQueue' = IF oSlots[s] = 0 /\ oQueue # <<>> THEN Tail(oQueue) ELSE oQueue
        /\ UNCHANGED oCtl
        /\ \/ t # 0 /\ oSlots' = [oSlots EXCEPT ![s] = 0] /\ oPhase' = [oPhase EXCEPT ![t] = "quiet"]
           \/ oSlots' = [oSlots EXCEPT ![s] = t] /\ UNCHANGED oPhase
    BY DEF Context
  <2> HIDE DEF s, o
  <2>3. /\ Len(oQueue') \in Nat /\ Len(oQueue') <= 2
        /\ \A i \in 1..Len(oQueue') : oQueue'[i] \in Dispatches /\ oPhase[oQueue'[i]] \in Pending
        /\ \A i, j \in 1..Len(oQueue') : oQueue'[i] = oQueue'[j] => i = j
        /\ \A i \in 1..Len(oQueue') : oSlots[o] # 0 => oQueue'[i] # oSlots[o]
        /\ \A i \in 1..Len(oQueue') : t # 0 => oQueue'[i] # t
        /\ t \in Dispatches \union {0} /\ (t # 0 => oPhase[t] \in Pending /\ t # oSlots[o])
    <3>1. CASE oSlots[s] = 0 /\ oQueue # <<>>
      <4>1. /\ t = oQueue[1] /\ 1 \in 1..Len(oQueue) /\ Len(oQueue') = Len(oQueue) - 1
            /\ \A i \in 1..Len(oQueue') : oQueue'[i] = oQueue[i + 1] /\ i + 1 \in 1..Len(oQueue)
        BY <2>1, <2>2, <3>1
      <4> HIDE DEF t
      <4> QED BY <2>1, <3>1, <4>1 DEF Contexts
    <3>2. CASE ~(oSlots[s] = 0 /\ oQueue # <<>>)
      <4>1. t = oSlots[s] /\ oQueue' = oQueue
        BY <2>2, <3>2
      <4>2. oSlots[s] # 0 => oSlots[s] # oSlots[o]
        BY <2>1 DEF Contexts, o, s
      <4> HIDE DEF t
      <4> QED BY <2>1, <4>1, <4>2 DEF Contexts
    <3> QED BY <3>1, <3>2
  <2>4. oSlots[o] # 0 => oSlots[o] \in Dispatches /\ oPhase[oSlots[o]] \in Pending
    BY <2>1 DEF Contexts
  <2>5. oCtl.op = "stopped" => t = 0 /\ oQueue' = <<>> /\ \A k \in 1..2 : oSlots[k] = 0
    BY <2>1, <2>2 DEF Contexts
  <2> HIDE DEF t
  <2>6. oCtl'.op = "stopped" => oQueue' = <<>> /\ oSlots' = <<0, 0>>
    BY <2>1, <2>2, <2>5
  <2>7. /\ oSlots'[o] = oSlots[o] /\ oSlots'[s] \in {0, t}
        /\ \A d \in Dispatches : oPhase'[d] = oPhase[d] \/ (d = t /\ oSlots'[s] = 0 /\ t # 0)
    BY <2>1, <2>2
  <2>8. \A i \in 1..Len(oQueue') : oPhase'[oQueue'[i]] \in Pending
    BY <2>3, <2>7
  <2>9. \A k \in 1..2 : oSlots'[k] # 0 => oPhase'[oSlots'[k]] \in Pending /\ \A i \in 1..Len(oQueue') : oQueue'[i] # oSlots'[k]
    BY <2>1, <2>3, <2>4, <2>7
  <2>10. oSlots'[1] # 0 => oSlots'[1] # oSlots'[2]
    BY <2>1, <2>3, <2>7
  <2> QED BY <2>3, <2>6, <2>8, <2>9, <2>10 DEF Contexts
<1> QED BY <1>1, <1>2, <1>3, <1>4, <1>5 DEF OwnerInv

\* The media thread notifies a session, or passes it.
LEMMA BatchWakeStep == ASSUME OwnerInv, NEW q \in Peers, NEW b \in BOOLEAN, BatchWake(q, b) PROVE OwnerInv'
<1>1. /\ Free("media") /\ UNCHANGED <<oPlan, oPeer, oCtl, oQueue, oSlots, oPhase, oWorker>>
      /\ NotifyEnter("media", q) \/ UNCHANGED <<oGate, oNotifier>>
  BY DEF BatchWake
<1>2. oMedia' \in [slot : 1..2, wake : SUBSET Peers]
  BY DEF BatchWake, OwnerInv, OwnerTypeOK
<1>3. CASE NotifyEnter("media", q)
  <2>1. /\ oGate' \in [Peers -> GateWord] /\ oNotifier' \in [Threads -> Notifier] /\ Gates'
        /\ \A p \in Peers : oGate'[p].closed = oGate[p].closed /\ oGate'[p].target = oGate[p].target
        /\ \A u \in Threads : oNotifier'[u].at = "calling" =>
              \/ oNotifier[u].at = "calling" /\ oNotifier'[u].peer = oNotifier[u].peer
              \/ ~oGate[oNotifier'[u].peer].closed
    BY <1>1, <1>3, EnterFacts
  <2>2. OwnerTypeOK'
    BY <1>1, <1>2, <2>1, PlanKept DEF OwnerInv, OwnerTypeOK
  <2>3. Control'
    BY <1>1, <2>1, PlanKept DEF OwnerInv, Control
  <2> QED BY <1>1, <2>1, <2>2, <2>3, SessionsFrame, ContextsFrame DEF OwnerInv
<1>4. CASE UNCHANGED <<oGate, oNotifier>>
  <2>1. OwnerTypeOK'
    BY <1>1, <1>2, <1>4, PlanKept DEF OwnerInv, OwnerTypeOK
  <2>2. Gates'
    BY <1>1, <1>4, PlanKept DEF OwnerInv, Gates, Present, Inside
  <2>3. Control'
    BY <1>1, <1>4, PlanKept DEF OwnerInv, Control
  <2> QED BY <1>1, <2>1, <2>2, <2>3, SessionsFrame, ContextsFrame DEF OwnerInv
<1> QED BY <1>1, <1>3, <1>4

\* The end of the media thread leaves nothing pending.
LEMMA MediaEndStep == ASSUME OwnerInv, MediaEnd PROVE OwnerInv'
<1>0. UNCHANGED oPlan
  BY DEF MediaEnd, Goto, Free, Between
<1>1. OwnerTypeOK'
  BY <1>0, PlanKept DEF OwnerInv, OwnerTypeOK, Session, GateWord, Notifier, Operation, MediaEnd, Goto, Free, Between
<1>2. Gates'
  BY <1>0, PlanKept DEF OwnerInv, OwnerTypeOK, Session, GateWord, Gates, Sessions, Control, Inside, Present, MediaEnd, Goto, Free, Between
<1>3. Sessions'
  BY <1>0, PlanKept DEF OwnerInv, OwnerTypeOK, Session, Operation, Sessions, Control, MediaEnd, Goto, Free, Between
<1>4. Control'
  BY <1>0, PlanKept DEF OwnerInv, OwnerTypeOK, Session, GateWord, Operation, Gates, Sessions, Control, Contexts, Inside, Present, MediaEnd, Goto, Free, Between
<1>5. Contexts'
  BY <1>0, PlanKept DEF OwnerInv, OwnerTypeOK, Operation, Contexts, Control, MediaEnd, Goto, Free, Between
<1> QED BY <1>1, <1>2, <1>3, <1>4, <1>5 DEF OwnerInv
-----------------------------------------------------------------------------
(* The invariant holds initially, every step keeps it, and it says enough. *)

\* Nothing is attached, queued or notified at first.
LEMMA OwnerInitInv == OInit => OwnerInv
<1> SUFFICES ASSUME OInit PROVE OwnerInv
  OBVIOUS
<1>1. OwnerTypeOK
  BY DEF OInit, OwnerTypeOK, Session, GateWord, Notifier, Operation, Away, Idle, Between
<1>2. Gates /\ Sessions /\ Control
  BY DEF OInit, Gates, Sessions, Control, Inside, Present, Away, Idle
<1>3. Contexts
  BY DEF OInit, Contexts, Idle
<1> QED BY <1>1, <1>2, <1>3 DEF OwnerInv

\* Every step of the two workers and of control keeps the invariant.
LEMMA OwnerNextInv == OwnerInv /\ [ONext]_oVars => OwnerInv'
<1> SUFFICES ASSUME OwnerInv, [ONext]_oVars PROVE OwnerInv'
  OBVIOUS
<1>1. CASE UNCHANGED oVars
  BY ZenonT(60), <1>1, PlanKept DEF oVars, OwnerInv, OwnerTypeOK, Notifier, Operation, Gates, Sessions, Control, Contexts, Inside, Present
<1>2. CASE \E t \in Threads : NotifyLeave(t)
  BY <1>2, NotifyLeaveStep
<1>3. CASE \E p \in Peers, b \in BOOLEAN : Send(p, b) \/ StepReturn(p, b) \/ Poll(p, b) \/ Attach(p, b) \/ BatchWake(p, b)
  BY <1>3, SendStep, StepReturnStep, PollStep, AttachStep, BatchWakeStep
<1>4. CASE \E p \in Peers : StepStart(p) \/ ReapClose(p) \/ Drain(p)
  BY <1>4, StepStartStep, ReapCloseStep, DrainStep
<1>5. CASE PollEnd \/ AttachWake \/ ReapCheck \/ Detach \/ StopPeers \/ Joined
  BY <1>5, PollEndStep, AttachWakeStep, ReapCheckStep, DetachStep, StopPeersStep, JoinedStep
<1>6. CASE \E d \in Dispatches : Prepare(d) \/ Activate(d) \/ RequestStop(d)
  BY <1>6, PrepareStep, ActivateStep, RequestStopStep
<1>7. CASE StopMedia \/ Context \/ MediaEnd
  BY <1>7, StopMediaStep, ContextStep, MediaEndStep
<1> QED BY <1>1, <1>2, <1>3, <1>4, <1>5, <1>6, <1>7 DEF ONext

\* The invariant says who may still be inside a session.
LEMMA OwnerInvEnough == OwnerInv => PeersOutliveCalls
<1> SUFFICES ASSUME OwnerInv PROVE PeersOutliveCalls
  OBVIOUS
<1>1. /\ \A t \in Threads : oNotifier[t].at = "calling" => oPeer[oNotifier[t].peer].live
      /\ \A p \in Peers : oPeer[p].running => oPeer[p].at = "owned" /\ oPeer[p].live
      /\ \A p \in Peers : oPeer[p].at = "gone" => oPeer[p].stop
  BY DEF OwnerInv, OwnerTypeOK, Gates, Sessions, Session, Notifier
<1>2. \A d \in Dispatches : oPhase[d] = "quiet" => oSlots[1] # d /\ oSlots[2] # d
  <2>1. oPlan.dispatches \in Nat
    BY OwnerPlansBounded DEF OwnerInv, OwnerTypeOK
  <2>2. \A d \in Dispatches : d # 0
    BY <2>1 DEF Dispatches
  <2> QED BY <2>2 DEF OwnerInv, Contexts
<1>3. oCtl.op = "stopped" => /\ \A p \in Peers : oPeer[p].at \in {"prepared", "gone"}
                             /\ \A d \in Dispatches : oPhase[d] \in {"none", "refused", "quiet"}
  BY DEF OwnerInv, OwnerTypeOK, Control, Contexts, Sessions
<1> QED BY <1>1, <1>2, <1>3 DEF PeersOutliveCalls

\* In every behaviour of the peer workers, whatever the peers and dispatches:
\* "detach guarantees no callback still borrows this peer", a step runs only on
\* an owned session, a quiet dispatch is in no context, and the workers' end
\* leaves nothing behind.
THEOREM PeersSafe == OSpec => []PeersOutliveCalls
<1>1. OInit => OwnerInv
  BY OwnerInitInv
<1>2. OwnerInv /\ [ONext]_oVars => OwnerInv'
  BY OwnerNextInv
<1>3. OwnerInv => PeersOutliveCalls
  BY OwnerInvEnough
<1> QED BY <1>1, <1>2, <1>3, PTL DEF OSpec

-----------------------------------------------------------------------------
(* The parrot.                                                              *)

Captures == [installed : BOOLEAN, active : BOOLEAN, recording : BOOLEAN, free : Nat]

ParrotShapes ==
  /\ pEnabled \in BOOLEAN /\ pFlag \in BOOLEAN /\ pSwitching \in BOOLEAN /\ pControl \in BOOLEAN
  /\ pBusy \in BOOLEAN /\ pPending \in BOOLEAN /\ pPlaying \in BOOLEAN /\ pDone \in BOOLEAN
  /\ pCapture \in Captures
  /\ pClips \in Nat /\ pRecycled \in Nat
  /\ pHeldAck = "none"

Asked(on) == <<IF on THEN "enable" ELSE "disable">>
Told(on) == <<IF on THEN "enabled" ELSE "disabled">>

\* The live switch is at rest, asked for, or answered; until the answer control
\* and the callback hold what they held before.
SwitchSound ==
  \/ /\ pSwitching = FALSE /\ pRequests = <<>> /\ pAcks = <<>>
     /\ pCapture.installed = pEnabled /\ pControl = pEnabled
  \/ /\ pSwitching = TRUE /\ pRequests = Asked(pEnabled) /\ pAcks = <<>>
     /\ pCapture.installed = ~pEnabled /\ pControl = ~pEnabled
  \/ /\ pSwitching = TRUE /\ pRequests = <<>> /\ pAcks = Told(pEnabled)
     /\ pCapture.installed = pEnabled

\* Where the two buffers of a capture are.
Buffers(cap, clips, recycled) ==
  IF cap.installed
    THEN /\ cap.free + clips + recycled + (IF cap.recording THEN 1 ELSE 0) = 2
         /\ cap.recording => cap.active
    ELSE clips = 0 /\ recycled = 0

ParrotInv ==
  ParrotShapes /\ SwitchSound /\ Buffers(pCapture, pClips, pRecycled) /\ BusyAccountsRecording

\* What the messages of the switch look like.
LEMMA SwitchWords ==
  /\ \A on \in BOOLEAN : Asked(on) # <<>> /\ (Head(Asked(on)) = "enable" <=> on) /\ (Head(Asked(on)) = "disable" <=> ~on)
  /\ \A on \in BOOLEAN : Told(on) # <<>> /\ (Head(Told(on)) = "enabled" <=> on)
  /\ Asked(TRUE) = <<"enable">> /\ Asked(FALSE) = <<"disable">>
  /\ Told(TRUE) = <<"enabled">> /\ Told(FALSE) = <<"disabled">>
BY DEF Asked, Told

\* ParrotCapture::observe moves buffers and loses none.
LEMMA ObserveKeeps ==
  ASSUME NEW cap \in Captures, NEW clips \in Nat, NEW recycled \in Nat, NEW active \in BOOLEAN, NEW heard \in BOOLEAN,
         cap.installed, Buffers(cap, clips, recycled)
  PROVE  LET o == Observe(cap, clips, recycled, active, heard)
         IN  o.cap \in Captures /\ o.clips \in Nat /\ o.cap.installed /\ Buffers(o.cap, o.clips, 0)
<1> DEFINE free == cap.free + recycled
           opens == active /\ ~cap.active /\ free > 0
           closes == ~active /\ cap.active /\ cap.recording
           handed == closes /\ heard /\ clips < 2
           rec == (cap.recording /\ ~closes) \/ opens
           free1 == IF opens THEN free - 1 ELSE IF closes /\ ~handed THEN free + 1 ELSE free
           clips1 == IF handed THEN clips + 1 ELSE clips
           o == Observe(cap, clips, recycled, active, heard)
<1>1. /\ cap.free \in Nat /\ cap.recording \in BOOLEAN /\ cap.active \in BOOLEAN
      /\ cap.free + clips + recycled + (IF cap.recording THEN 1 ELSE 0) = 2 /\ (cap.recording => cap.active)
  BY DEF Captures, Buffers
<1>2. /\ o.cap = [installed |-> TRUE, active |-> active, recording |-> rec, free |-> free1]
      /\ o.clips = clips1
  BY DEF Observe
<1>3. rec \in BOOLEAN
  OBVIOUS
<1>4. free1 \in Nat /\ clips1 \in Nat
  BY <1>1
<1>5. free1 + clips1 + 0 + (IF rec THEN 1 ELSE 0) = 2 /\ (rec => active)
  <2>1. CASE opens
    BY <1>1, <2>1
  <2>2. CASE closes
    BY <1>1, <2>2
  <2>3. CASE ~opens /\ ~closes /\ cap.recording
    BY <1>1, <2>3
  <2>4. CASE ~opens /\ ~closes /\ ~cap.recording
    BY <1>1, <2>4
  <2> QED  BY <2>1, <2>2, <2>3, <2>4
<1> HIDE DEF rec, free1, clips1, o
<1>6. o.cap \in Captures /\ o.cap.installed /\ o.cap.recording = rec /\ o.cap.free = free1 /\ o.cap.active = active
  BY <1>2, <1>3, <1>4 DEF Captures
<1>7. Buffers(o.cap, o.clips, 0)
  BY <1>2, <1>5, <1>6 DEF Buffers
<1> QED  BY <1>2, <1>4, <1>6, <1>7 DEF o

\* A live switch is asked for.
LEMMA RequestKeeps ==
  ASSUME ParrotInv, NEW enabled \in BOOLEAN, Request(enabled)
  PROVE  ParrotInv'
<1>1. UNCHANGED <<pHeldAck, pCapture, pClips, pRecycled, pFlag, pBusy, pPending, pPlaying, pDone>>
  BY DEF Request
<1>2. ParrotShapes /\ SwitchSound /\ pEnabled \in BOOLEAN
  BY DEF ParrotInv, ParrotShapes
<1> DEFINE pending == pSwitching /\ pAcks = <<>>
<1>3. /\ pAcks' = <<>> /\ pControl' = EndpointsHeld(pAcks, pControl)
      /\ \/ pSwitching' = pending /\ UNCHANGED <<pRequests, pEnabled>>
         \/ /\ enabled # pEnabled /\ ~pending /\ pRequests = <<>>
            /\ pRequests' = Asked(enabled) /\ pEnabled' = enabled /\ pSwitching' = TRUE
  BY DEF Request, Asked
<1>4. (pAcks = Told(pEnabled) => pControl' = pEnabled) /\ (pAcks = <<>> => pControl' = pControl)
  BY <1>2, <1>3, SwitchWords DEF EndpointsHeld
<1>5. pSwitching' \in BOOLEAN /\ pEnabled' \in BOOLEAN /\ pControl' \in BOOLEAN
  <2>1. pSwitching' \in BOOLEAN /\ pEnabled' \in BOOLEAN
    BY <1>2, <1>3 DEF ParrotShapes
  <2>2. pControl' \in BOOLEAN
    BY <1>2, <1>3 DEF ParrotShapes, EndpointsHeld
  <2> QED  BY <2>1, <2>2
<1>6. SwitchSound'
  <2>1. CASE pSwitching = FALSE /\ pRequests = <<>> /\ pAcks = <<>>
    BY <1>1, <1>2, <1>3, <1>4, <2>1, SwitchWords DEF SwitchSound, ParrotShapes
  <2>2. CASE pSwitching = TRUE /\ pRequests = Asked(pEnabled) /\ pAcks = <<>>
    BY <1>1, <1>2, <1>3, <1>4, <2>2, SwitchWords DEF SwitchSound, ParrotShapes
  <2>3. CASE pSwitching = TRUE /\ pRequests = <<>> /\ pAcks = Told(pEnabled)
    BY <1>1, <1>2, <1>3, <1>4, <2>3, SwitchWords DEF SwitchSound, ParrotShapes
  <2> QED  BY <1>2, <2>1, <2>2, <2>3 DEF SwitchSound
<1>7. ParrotShapes' /\ Buffers(pCapture, pClips, pRecycled)'
  BY <1>1, <1>2, <1>5 DEF ParrotInv, ParrotShapes, Buffers
<1> QED  BY <1>1, <1>6, <1>7 DEF ParrotInv, BusyAccountsRecording

\* tick_links takes a completed clip and recycles its buffer.
LEMMA LinksTickKeeps ==
  ASSUME ParrotInv, NEW clip \in BOOLEAN, NEW queues \in BOOLEAN, TickLinks(clip, queues)
  PROVE  ParrotInv'
<1> DEFINE busy1 == pBusy /\ ~pDone
           has == EndpointsHeld(pAcks, pControl)
           takes == clip /\ pEnabled /\ has /\ pClips > 0
           admits == takes /\ queues /\ ~busy1
<1>1. UNCHANGED <<pRequests, pHeldAck, pCapture, pEnabled, pFlag, pPlaying>>
  BY DEF TickLinks
<1>2. ParrotShapes /\ SwitchSound /\ Buffers(pCapture, pClips, pRecycled) /\ BusyAccountsRecording
  BY DEF ParrotInv
<1>3. pAcks' = <<>> /\ pSwitching' = (pSwitching /\ pAcks = <<>>) /\ pControl' = has
  BY DEF TickLinks
<1>4. pSwitching' \in BOOLEAN /\ pControl' \in BOOLEAN /\ has \in BOOLEAN
  BY <1>2, <1>3 DEF ParrotShapes, EndpointsHeld
<1>5. SwitchSound'
  <2>1. (pAcks = Told(pEnabled) => pControl' = pEnabled) /\ (pAcks = <<>> => pControl' = pControl)
    BY <1>2, <1>3, SwitchWords DEF EndpointsHeld, ParrotShapes
  <2> QED  BY <1>1, <1>2, <1>3, <2>1, SwitchWords DEF SwitchSound, ParrotShapes
<1> HIDE DEF has
<1>6. takes \in BOOLEAN /\ admits \in BOOLEAN /\ busy1 \in BOOLEAN
  OBVIOUS
<1>7. /\ pClips' = IF takes THEN pClips - 1 ELSE pClips
      /\ pRecycled' = IF takes /\ pRecycled < 2 THEN pRecycled + 1 ELSE pRecycled
  BY DEF TickLinks, has
<1>8. pClips' \in Nat /\ pRecycled' \in Nat /\ Buffers(pCapture, pClips, pRecycled)'
  <2>1. takes => pClips > 0
    OBVIOUS
  <2>2. pCapture.free \in Nat /\ pClips \in Nat /\ pRecycled \in Nat
    BY <1>2 DEF ParrotShapes, Captures
  <2> HIDE DEF takes
  <2> QED  BY <1>1, <1>2, <1>7, <2>1, <2>2 DEF Buffers
<1>9. /\ pBusy' = (busy1 \/ admits) /\ pPending' = (pPending \/ admits) /\ pDone' = FALSE
      /\ (admits => ~busy1)
  BY DEF TickLinks, has
<1> HIDE DEF admits
<1>10. pBusy' \in BOOLEAN /\ pPending' \in BOOLEAN /\ pDone' \in BOOLEAN /\ BusyAccountsRecording'
  BY <1>1, <1>2, <1>9 DEF ParrotShapes, BusyAccountsRecording
<1>11. ParrotShapes'
  BY <1>1, <1>2, <1>4, <1>8, <1>10 DEF ParrotShapes
<1> QED  BY <1>5, <1>8, <1>10, <1>11 DEF ParrotInv

\* One audio callback: it answers a request, moves buffers, plays or drops.
LEMMA CallbackKeeps ==
  ASSUME ParrotInv, NEW active \in BOOLEAN, NEW heard \in BOOLEAN, NEW ends \in BOOLEAN,
         Callback(active, heard, ends)
  PROVE  ParrotInv'
<1> DEFINE request == IF pRequests = <<>> THEN "none" ELSE Head(pRequests)
           ack == IF request = "enable" THEN "enabled" ELSE "disabled"
           cap0 == IF request = "enable" THEN NewCapture
                   ELSE IF request = "disable" THEN NoCapture ELSE pCapture
           clips0 == IF request = "none" THEN pClips ELSE 0
           recycled0 == IF request = "none" THEN pRecycled ELSE 0
           o == Observe(cap0, clips0, recycled0, active, heard)
           off == request = "disable" \/ ~pFlag
           drops == off \/ active
           pending == pPending /\ ~drops
           starts == ~active /\ pending /\ ~pPlaying
           plays == (pPlaying /\ ~off) \/ starts
<1>1. ParrotShapes /\ SwitchSound /\ Buffers(pCapture, pClips, pRecycled) /\ BusyAccountsRecording /\ pHeldAck = "none"
  BY DEF ParrotInv, ParrotShapes
<1>2. UNCHANGED <<pEnabled, pFlag, pSwitching, pControl, pBusy>>
  BY DEF Callback
<1>3. /\ pRequests' = IF request = "none" THEN pRequests ELSE <<>>
      /\ pAcks' = IF request # "none" /\ pAcks = <<>> THEN <<ack>> ELSE pAcks
      /\ pHeldAck' = IF request # "none" /\ pAcks # <<>> THEN ack ELSE "none"
  BY <1>1 DEF Callback
<1>4. /\ pCapture' = IF cap0.installed THEN o.cap ELSE NoCapture
      /\ pClips' = IF cap0.installed THEN o.clips ELSE clips0
      /\ pRecycled' = IF cap0.installed THEN 0 ELSE recycled0
  BY <1>1 DEF Callback
<1>5. /\ pPending' = (pending /\ ~starts)
      /\ pPlaying' = (plays /\ ~ends)
      /\ pDone' = (pDone \/ (pPending /\ drops) \/ (pPlaying /\ off) \/ (plays /\ ends))
  BY <1>1 DEF Callback
<1>6. /\ NewCapture \in Captures /\ NewCapture.installed /\ Buffers(NewCapture, 0, 0)
      /\ NoCapture \in Captures /\ ~NoCapture.installed
  BY DEF NewCapture, NoCapture, Captures, Buffers
<1> HIDE DEF NewCapture, NoCapture
<1>7. /\ cap0 \in Captures /\ clips0 \in Nat /\ recycled0 \in Nat /\ Buffers(cap0, clips0, recycled0)
  <2>1. pCapture \in Captures /\ pClips \in Nat /\ pRecycled \in Nat
    BY <1>1 DEF ParrotShapes, Captures
  <2>2. CASE request = "none"
    BY <1>1, <2>1, <2>2
  <2>3. CASE request = "enable"
    BY <1>6, <2>3
  <2>4. CASE request = "disable"
    BY <1>6, <2>4 DEF Buffers
  <2>5. request \in {"none", "enable", "disable"}
    BY <1>1, SwitchWords DEF SwitchSound, ParrotShapes
  <2> QED  BY <2>2, <2>3, <2>4, <2>5
<1>8. /\ pCapture' \in Captures /\ pClips' \in Nat /\ pRecycled' \in Nat /\ Buffers(pCapture, pClips, pRecycled)'
      /\ pCapture'.installed = cap0.installed
  <2>1. CASE cap0.installed
    <3>1. o.cap \in Captures /\ o.clips \in Nat /\ o.cap.installed /\ Buffers(o.cap, o.clips, 0)
      BY <1>7, <2>1, ObserveKeeps
    <3> HIDE DEF o, cap0
    <3>2. pCapture' = o.cap /\ pClips' = o.clips /\ pRecycled' = 0
      BY <1>4, <2>1
    <3>3. cap0.installed \in BOOLEAN /\ o.cap.installed \in BOOLEAN
      BY <1>7, <3>1 DEF Captures
    <3> QED  BY <2>1, <3>1, <3>2, <3>3 DEF Buffers
  <2>2. CASE ~cap0.installed
    <3> HIDE DEF o, cap0
    <3>1. pCapture' = NoCapture /\ pClips' = 0 /\ pRecycled' = 0
      BY <1>4, <1>7, <2>2 DEF Buffers
    <3>2. cap0.installed \in BOOLEAN /\ NoCapture.installed \in BOOLEAN
      BY <1>6, <1>7 DEF Captures
    <3> QED  BY <1>6, <2>2, <3>1, <3>2 DEF Buffers
  <2> QED  BY <2>1, <2>2
<1>9. pHeldAck' = "none" /\ SwitchSound'
  <2>1. CASE pRequests = <<>>
    <3>1. request = "none" /\ cap0 = pCapture
      BY <2>1
    <3>2. UNCHANGED <<pRequests, pAcks>> /\ pHeldAck' = "none" /\ pCapture'.installed = pCapture.installed
      BY <1>3, <1>8, <3>1
    <3> QED  BY <1>1, <1>2, <2>1, <3>2 DEF SwitchSound
  <2>2. CASE pRequests # <<>>
    <3>1. pSwitching = TRUE /\ pRequests = Asked(pEnabled) /\ pAcks = <<>> /\ pEnabled \in BOOLEAN
      BY <1>1, <2>2 DEF SwitchSound, ParrotShapes
    <3>2. request = Head(Asked(pEnabled)) /\ (request = "enable" <=> pEnabled) /\ (request = "disable" <=> ~pEnabled)
      BY <2>2, <3>1, SwitchWords
    <3>3. cap0.installed = pEnabled
      <4>1. NewCapture.installed = TRUE /\ NoCapture.installed = FALSE
        BY DEF NewCapture, NoCapture
      <4> QED  BY <3>1, <3>2, <4>1
    <3>4. request # "none" /\ <<ack>> = Told(pEnabled)
      BY <3>1, <3>2 DEF Told
    <3> HIDE DEF request, ack, cap0
    <3>5. pRequests' = <<>> /\ pAcks' = Told(pEnabled) /\ pHeldAck' = "none"
      BY <1>3, <3>1, <3>4
    <3> QED  BY <1>2, <1>8, <3>1, <3>3, <3>5 DEF SwitchSound, Told
  <2> QED  BY <2>1, <2>2
<1> HIDE DEF o, cap0, request
<1>10. pPending' \in BOOLEAN /\ pPlaying' \in BOOLEAN /\ pDone' \in BOOLEAN
  BY <1>1, <1>5 DEF ParrotShapes
<1>11. BusyAccountsRecording'
  BY <1>1, <1>2, <1>5 DEF ParrotShapes, BusyAccountsRecording
<1>12. ParrotShapes'
  BY <1>1, <1>2, <1>8, <1>9, <1>10 DEF ParrotShapes
<1> QED  BY <1>8, <1>9, <1>11, <1>12 DEF ParrotInv

\* For any number of live switches, in any interleaving of the control thread
\* and the audio callback: a disable request finds a capture to return and an
\* enable request overwrites none, parrot_busy is set exactly while a recording
\* waits, plays or is on its way back, and a capture keeps its two buffers.
THEOREM ParrotSafe == PSpec => []ParrotKept
<1>1. PInit => ParrotInv
  <2> SUFFICES ASSUME PInit PROVE ParrotInv
    OBVIOUS
  <2>1. pCapture \in Captures /\ pCapture.installed = pEnabled /\ Buffers(pCapture, 0, 0)
    <3>1. /\ NewCapture \in Captures /\ NewCapture.installed = TRUE /\ Buffers(NewCapture, 0, 0)
          /\ NoCapture \in Captures /\ NoCapture.installed = FALSE /\ Buffers(NoCapture, 0, 0)
      BY DEF NewCapture, NoCapture, Captures, Buffers
    <3>2. \/ pEnabled = TRUE /\ pCapture = NewCapture
          \/ pEnabled = FALSE /\ pCapture = NoCapture
      BY DEF PInit
    <3> QED  BY <3>1, <3>2
  <2>2. ParrotShapes
    BY <2>1 DEF PInit, ParrotShapes
  <2> QED  BY <2>1, <2>2 DEF PInit, ParrotInv, SwitchSound, BusyAccountsRecording
<1>2. ParrotInv /\ [PNext]_pVars => ParrotInv'
  <2> SUFFICES ASSUME ParrotInv, [PNext]_pVars PROVE ParrotInv'
    OBVIOUS
  <2>1. CASE Publish
    <3>1. UNCHANGED <<pRequests, pAcks, pHeldAck, pCapture, pClips, pRecycled, pEnabled, pSwitching,
                      pControl, pBusy, pPending, pPlaying, pDone>> /\ pFlag' = pEnabled
      BY <2>1 DEF Publish
    <3> QED  BY <3>1 DEF ParrotInv, ParrotShapes, SwitchSound, Buffers, BusyAccountsRecording
  <2>2. CASE UNCHANGED pVars
    BY <2>2 DEF pVars, ParrotInv, ParrotShapes, SwitchSound, Buffers, BusyAccountsRecording
  <2> QED  BY <2>1, <2>2, RequestKeeps, LinksTickKeeps, CallbackKeeps DEF PNext
<1>3. ParrotInv => ParrotKept
  <2> SUFFICES ASSUME ParrotInv PROVE ParrotKept
    OBVIOUS
  <2>1. DisableFindsCapture
    BY SwitchWords DEF ParrotInv, ParrotShapes, SwitchSound, DisableFindsCapture
  <2>2. BuffersKept
    BY DEF ParrotInv, Buffers, BuffersKept
  <2> QED  BY <2>1, <2>2 DEF ParrotInv, ParrotKept
<1> QED  BY <1>1, <1>2, <1>3, PTL DEF PSpec
=============================================================================
