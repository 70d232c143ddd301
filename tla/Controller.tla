----------------------------- MODULE Controller -----------------------------
(***************************************************************************)
(* The transmitter policy of one node: NodeController::step, called for    *)
(* every native sample (or for a sample-free edge), with the policies it   *)
(* owns: the traffic watchdog and its two notices, duplex keying,          *)
(* identifiers, release tails, courtesies, announcements and the bounded   *)
(* queue of status messages the control thread shares with it.             *)
(*                                                                         *)
(* Time is counted in samples, scaled down: the fixed 2400 and 12000       *)
(* sample waits are the station's short and idle.  A medium is known by    *)
(* what its playback answers: it waits, gives a sample, gives its last     *)
(* sample, fails, or is cut off when an interruption finds no Morse form.  *)
(* Parrot playback is modelled in Parrot; the remote-base overrides, DTMF  *)
(* regeneration and the CTCSS decision are left out.                       *)
(***************************************************************************)
EXTENDS Integers, Sequences, FiniteSets, SequencesExt

CONSTANTS
    Stations,       \* settings of a node, with the inputs, statuses and control
                    \* requests it meets and the bounds: samples and statuses
    QueueDepth      \* 4 in the code: statuses pending, active and completed

VARIABLES
    station,        \* the immutable settings
    c,              \* the audio owner's state
    queue,          \* statuses not yet completed; the head is telemetry.status
    completed,      \* length of the completed ring
    outstanding,    \* ControllerControl.outstanding
    inhibit,        \* site_inhibit
    cancelMessage,  \* cancel_message
    peerActive,     \* PeerReply::active of the addressed peer
    queued,         \* statuses queued so far (bound)
    lastTraffic     \* sample of the last receive activity (auxiliary)

vars == <<station, c, queue, completed, outstanding, inhibit, cancelMessage,
          peerActive, queued, lastTraffic>>

Nothing == <<"none">>
Never == -1
Status == <<"status">>
Courtesy == <<"courtesy">>
IsKind(src, kind) == src[1] = kind
Sub(a, b) == IF a > b THEN a - b ELSE 0          \* saturating_sub
First(seq, P(_)) == LET hits == {i \in DOMAIN seq : P(seq[i])}
                    IN IF hits = {} THEN 0 ELSE CHOOSE i \in hits : \A j \in hits : i <= j

-----------------------------------------------------------------------------
\* Status queue: telemetry.rs

\* A status that poll_status returns to control: finished, its occurrence
\* cancelled, its peer gone or its notice superseded.
Retired(m) == m.dead \/ m.gone

\* poll_status: drop retired statuses from the head; the new head is the slot.
Polled(q) == LET live == First(q, LAMBDA m : ~Retired(m))
             IN IF live = 0 THEN <<>> ELSE SubSeq(q, live, Len(q))

\* PreparedMedia::expire
Expire(m, out, now, allowed, busy, ready) ==
    IF \/ m.kind # "message" \/ out \/ m.dead \/ m.morse
       \/ now < m.deadline
       \/ m.wait = 0 /\ now = m.deadline /\ allowed /\ ~busy /\ ready
    THEN m
    ELSE IF m.expiry = "skip" \/ ~allowed \/ (busy /\ m.busy = "skip")
         THEN [m EXCEPT !.dead = TRUE]
         ELSE [m EXCEPT !.morse = TRUE]

\* expire_status: every pending deadline, each behind those before it.
Expired(q, headOut, now, allowed, occupied, ready) ==
    FoldLeft(LAMBDA acc, m :
                 LET e == Expire(m, headOut /\ acc.q = <<>>, now, allowed, acc.blocked, ready)
                 IN [q |-> Append(acc.q, e), blocked |-> acc.blocked \/ ~e.dead],
             [q |-> <<>>, blocked |-> occupied], q).q

-----------------------------------------------------------------------------
\* Identifiers: policy/identifier.rs and the controller's deadline arbitration

IdDue(st, ctl, i) ==
    LET rule == st.ids[i] id == ctl.ids[i]
    IN /\ IF rule.first THEN id.pending
                        ELSE ctl.now - id.satisfied >= rule.interval /\ (rule.always \/ id.activity)
       /\ ctl.now >= id.retry

\* select_where: the first of the highest priority among the due and eligible.
SelectWhere(st, ctl, rx, eligible) ==
    LET due == {i \in eligible : IdDue(st, ctl, i)}
        best == {i \in due : \A j \in due : st.ids[i].priority >= st.ids[j].priority}
    IN IF (rx /\ ~st.duplex) \/ due = {} THEN 0
       ELSE CHOOSE i \in best : \A j \in best : i <= j

\* Mutant: the maximum wait itself still counts as waiting.
IdReadyLate(st, ctl, i, busy) ==
    LET rule == st.ids[i]
        due == IF rule.first THEN ctl.firstDue[i] ELSE ctl.ids[i].satisfied + rule.interval
    IN rule.polite = Never \/ ~busy \/ Sub(ctl.now, due) > rule.polite

\* id_ready: a polite identifier waits behind traffic up to its maximum.
IdReady(st, ctl, i, busy) ==
    LET rule == st.ids[i]
        due == IF rule.first THEN ctl.firstDue[i] ELSE ctl.ids[i].satisfied + rule.interval
    IN rule.polite = Never \/ ~busy \/ Sub(ctl.now, due) >= rule.polite

\* select_identifier
SelectIdentifier(st, ctl, rx, busy, afterHang) ==
    LET all == DOMAIN st.ids
        expired == {i \in all : st.ids[i].polite # Never /\ IdReady(st, ctl, i, TRUE)}
        sel == SelectWhere(st, ctl, rx, all)
        covers == sel # 0 /\ st.ids[sel].first /\ st.ids[sel].polite # Never
        late == {i \in expired : covers => st.ids[i].priority >= st.ids[sel].priority}
    IN IF sel # 0 /\ (sel \in expired \/ (afterHang /\ IdReady(st, ctl, sel, busy)))
       THEN sel
       ELSE SelectWhere(st, ctl, rx, late)

\* first_key: arm one idle-eligible initial identifier, round robin.
FirstKey(st, ctl, idle) ==
    LET n == Len(st.ids)
        order == [k \in 1..n |-> ((ctl.nextFirst + k - 2) % n) + 1]
        hit == First(order, LAMBDA i : /\ st.ids[i].first
                                       /\ idle >= st.ids[i].interval
                                       /\ Sub(ctl.now, ctl.firstDoneAt) >= st.ids[i].interval)
    IN IF n = 0 \/ ctl.firstDone \/ (\E i \in 1..n : ctl.ids[i].pending) \/ hit = 0
       THEN ctl
       ELSE LET i == order[hit]
            IN [ctl EXCEPT !.ids[i].pending = TRUE, !.nextFirst = (i % n) + 1,
                           !.firstDue[i] = ctl.now]

\* satisfy_identifier: this identifier and every lower priority.
Satisfy(st, ctl, i) ==
    LET covered == {j \in DOMAIN st.ids : j = i \/ st.ids[j].priority < st.ids[i].priority}
        initial == st.ids[i].first \/ \E j \in covered : ctl.ids[j].pending
    IN [ctl EXCEPT
          !.ids = [j \in DOMAIN @ |->
                     IF j \in covered
                     THEN [satisfied |-> ctl.now, retry |-> 0, activity |-> FALSE, pending |-> FALSE]
                     ELSE @[j]],
          !.firstDone = @ \/ initial,
          !.firstDoneAt = IF initial THEN ctl.now ELSE @]

-----------------------------------------------------------------------------
\* Release tails: tail.rs

TailHanging(ctl) == ctl.hangUntil # Never /\ ctl.now < ctl.hangUntil
TailHead(ctl) == First(ctl.tails, LAMBDA t : t.pending)
TailPending(ctl) == TailHead(ctl) # 0

\* ready
TailReady(st, ctl) ==
    LET i == TailHead(ctl)
    IN IF i = 0 THEN 0
       ELSE IF \/ ctl.tails[i].suspended
               \/ /\ ~ctl.traffic
                  /\ ~TailHanging(ctl)
                  /\ \/ st.tails[i].delay = 0
                     \/ ctl.tails[i].deadline # Never /\ ctl.now >= ctl.tails[i].deadline
            THEN i ELSE 0

\* waiting_for_unkey: a delayed tail lets PTT drop before its delay starts.
WaitingForUnkey(st, ctl) ==
    LET i == TailHead(ctl)
    IN /\ ~ctl.traffic
       /\ ~TailHanging(ctl)
       /\ i # 0
       /\ ~ctl.tails[i].started
       /\ st.tails[i].delay # 0
       /\ ctl.tails[i].deadline = Never

\* unkeyed
TailsUnkeyed(st, ctl) ==
    IF WaitingForUnkey(st, ctl)
    THEN [ctl EXCEPT !.tails[TailHead(ctl)].deadline = ctl.now + st.tails[TailHead(ctl)].delay]
    ELSE ctl

\* Mutant: any quiet sample arms the tails, not only the end of traffic.
TailsObserveAlways(st, ctl, active) ==
    [ctl EXCEPT
       !.hangUntil = IF active THEN Never
                     ELSE IF ~ctl.traffic THEN @
                     ELSE IF ctl.suppress THEN Never ELSE ctl.now + st.hang,
       !.tails = [i \in DOMAIN @ |->
          IF active /\ @[i].pending /\ ~@[i].started
          THEN [@[i] EXCEPT !.pending = FALSE, !.deadline = Never]
          ELSE IF /\ ~active /\ ~ctl.suppress /\ ~@[i].pending
                  /\ @[i].completed = Never \/ Sub(ctl.now, @[i].completed) >= st.tails[i].interval
          THEN [@[i] EXCEPT !.pending = TRUE, !.deadline = Never]
          ELSE @[i]],
       !.traffic = active]

\* observe: traffic drops tails not yet heard; its end arms the rested ones.
TailsObserve(st, ctl, active) ==
    [ctl EXCEPT
       !.hangUntil = IF active THEN Never
                     ELSE IF ~ctl.traffic THEN @
                     ELSE IF ctl.suppress THEN Never ELSE ctl.now + st.hang,
       !.tails = [i \in DOMAIN @ |->
          IF active /\ @[i].pending /\ ~@[i].started
          THEN [@[i] EXCEPT !.pending = FALSE, !.deadline = Never]
          ELSE IF /\ ~active /\ ctl.traffic /\ ~ctl.suppress /\ ~@[i].pending
                  /\ @[i].completed = Never \/ Sub(ctl.now, @[i].completed) >= st.tails[i].interval
          THEN [@[i] EXCEPT !.pending = TRUE, !.deadline = Never]
          ELSE @[i]],
       !.traffic = active]

\* complete
TailDone(ctl, i, ok) ==
    [ctl EXCEPT !.tails[i] = [pending |-> FALSE, started |-> FALSE, suspended |-> FALSE,
                              deadline |-> Never,
                              completed |-> IF ok THEN ctl.now ELSE @.completed]]


-----------------------------------------------------------------------------
\* Announcements, duplex and completion

AnnDue(st, ctl) ==
    First([k \in DOMAIN st.anns |-> k],
          LAMBDA k : IF st.anns[k] = 0 THEN ctl.anns[k].release
                     ELSE /\ ctl.now >= ctl.anns[k].retry
                          /\ Sub(ctl.now, ctl.anns[k].satisfied) >= st.anns[k])

\* DuplexPolicy::update
DuplexUpdate(st, d, rx, transmit, now, hang) ==
    IF ~st.duplex /\ rx THEN [d EXCEPT !.keyed = FALSE]
    ELSE IF transmit \/ (st.duplex /\ rx) THEN [keyed |-> TRUE, last |-> now, hang |-> hang]
    ELSE [d EXCEPT !.keyed = @ /\ now - d.last < d.hang]

DuplexIdle == [keyed |-> FALSE, last |-> 0, hang |-> 0]

Start(ctl, src) == [ctl EXCEPT !.active = src, !.out = @ \ {src}]

\* complete_playback for everything but the queue: only success satisfies.
CompleteItem(st, ctl, src, ok, recipe) ==
    LET d == [ctl EXCEPT !.out = @ \ {src}, !.active = Nothing]
        id == First(st.ids, LAMBDA r : r.recipe = recipe)
        tail == First(st.tails, LAMBDA t : t.recipe = recipe)
        named == ok /\ recipe # 0
        d1 == IF named /\ id # 0 THEN Satisfy(st, [d EXCEPT !.idFin = @ \cup {id}], id) ELSE d
    IN CASE IsKind(src, "id") ->
                LET e == [d EXCEPT !.idFin = @ \cup {src[2]}]
                IN IF ok THEN Satisfy(st, e, src[2])
                   ELSE [e EXCEPT !.ids[src[2]].retry = ctl.now + st.ids[src[2]].interval]
         [] IsKind(src, "ann") ->
                IF ok THEN [d EXCEPT !.anns[src[2]].satisfied = ctl.now]
                ELSE [d EXCEPT !.anns[src[2]].retry = ctl.now + st.anns[src[2]]]
         [] IsKind(src, "tail") -> TailDone(d, src[2], ok)
         [] src = Status ->
                [(IF named /\ tail # 0 THEN TailDone(d1, tail, TRUE) ELSE d1) EXCEPT !.held = FALSE]
         [] OTHER -> d

-----------------------------------------------------------------------------
\* The traffic watchdog: timeout.rs

Blocked(ctl) == ctl.phase # "normal"

\* begin_timeout: hold the interrupted item and the suspended tails restartable.
BeginTimeout(ctl) ==
    [ctl EXCEPT !.out = {}, !.noticeOut = FALSE, !.duplex = DuplexIdle, !.trafficKeyed = FALSE,
                !.exempt = FALSE, !.relPending = FALSE, !.relHang = 0]

\* Mutant: the notice is held by the inhibit, PTT is not.
TimeoutSampleKeyed(st, ctl, in, off, o) ==
    LET made == ~off /\ in.frame /\ o \in {"sample", "last"}
    IN [ctl EXCEPT !.keyed = made \/ ctl.keyed, !.noticeOut = @ \/ made, !.trafficKeyed = FALSE]

\* timeout_sample: the notices own RF until every source has been quiet.
TimeoutSample(st, ctl, in, off, o) ==
    LET activity == in.rx \/ in.link \/ in.other
        phase == IF ctl.phase = "waiting" /\ ~activity THEN "cleared" ELSE ctl.phase
        noticed == phase \in {"expired", "cleared"}
        rendered == noticed /\ st.notices /\ ~off /\ in.frame
        made == rendered /\ o \in {"sample", "last"}
        finished == rendered /\ o \in {"last", "fail"}
        over == IF st.notices THEN finished ELSE noticed
        next == IF ~over THEN phase
                ELSE IF IF st.notices THEN phase = "expired" ELSE activity THEN "waiting"
                ELSE "normal"
        noticeOut == (ctl.noticeOut \/ made) /\ ~over
        d == [ctl EXCEPT !.courtesy = Nothing, !.phase = next, !.noticeOut = noticeOut,
                         !.timeoutKey = IF over THEN ctl.now ELSE @,
                         !.lastAudio = IF made THEN ctl.now ELSE @,
                         !.relHang = IF made THEN st.short ELSE @,
                         !.trafficKeyed = FALSE]
        exempt == ctl.exempt \/ made
        keyed == ~off /\ (made \/ noticeOut \/ (exempt /\ Sub(d.now, d.lastAudio) < d.relHang))
        e == [d EXCEPT !.keyed = keyed, !.exempt = exempt /\ keyed]
    IN IF keyed THEN e ELSE TailsUnkeyed(st, e)

-----------------------------------------------------------------------------
\* One sample: NodeController::step

\* receive_unkeyed: a kerchunk keeps no hang; any release restarts the watchdog.
ReceiveUnkeyed(ctl, kerchunk) ==
    [ctl EXCEPT !.timeoutKey = ctl.now, !.suppress = kerchunk,
                !.duplex = IF kerchunk THEN DuplexIdle ELSE @,
                !.relHang = IF kerchunk THEN 0 ELSE @]

Scheduled(st, ctl, source) ==
    [ctl EXCEPT !.courtesy = IF st.courtesy THEN <<source, ctl.now + st.courtesyDelay>> ELSE Nothing]

Cancelled(ctl, source) ==
    [ctl EXCEPT !.courtesy = IF @ # Nothing /\ @[1] = source THEN Nothing ELSE @]

\* The receive edges of a step, up to the tails' view of traffic.
KeyEdge(ctl, in) ==
    IF ~in.receive THEN ctl
    ELSE [ctl EXCEPT !.keyIdle = IF ~ctl.rx /\ ~ctl.link THEN Sub(ctl.now, ctl.lastActivity) ELSE @,
                     !.suppress = @ /\ (ctl.rx \/ ctl.link),
                     !.lastActivity = ctl.now,
                     !.firstDone = FALSE,
                     !.ids = [i \in DOMAIN @ |-> [@[i] EXCEPT !.activity = TRUE]],
                     !.rxKey = IF in.rx /\ ~ctl.rx THEN ctl.now ELSE @]

UnkeyEdge(st, ctl, in, kerchunk) ==
    IF in.rx /\ ~ctl.rx THEN Cancelled(ctl, "rx")
    ELSE IF in.rx \/ ~ctl.rx THEN ctl
    ELSE IF kerchunk THEN ReceiveUnkeyed([ctl EXCEPT !.rxUnkey = ctl.now], TRUE)
    ELSE Scheduled(st, ReceiveUnkeyed([ctl EXCEPT !.rxUnkey = ctl.now], FALSE), "rx")

\* A suppressed release forgets the courtesy and the release announcements.
Suppressed(st, ctl, in) ==
    IF ctl.suppress /\ ~in.receive /\ (ctl.rx \/ ctl.link)
    THEN [ctl EXCEPT !.courtesy = Nothing,
                     !.anns = [k \in DOMAIN @ |->
                                 IF st.anns[k] = 0 THEN [@[k] EXCEPT !.release = FALSE] ELSE @[k]]]
    ELSE ctl

DropTail(ctl, in) ==
    [ctl EXCEPT !.rx = in.rx, !.link = in.link, !.outcome = "active",
                !.active = IF IsKind(@, "tail") /\ ~ctl.tails[@[2]].started /\ ~TailPending(ctl)
                           THEN Nothing ELSE @]

Hear(st, ctl, in) ==
    LET Edges(a) == UnkeyEdge(st, a, in, st.kerchunk # 0 /\ Sub(a.now, a.rxKey) <= st.kerchunk)
    IN  DropTail(TailsObserve(st, Suppressed(st, Edges(KeyEdge(ctl, in)), in), in.source), in)

-----------------------------------------------------------------------------
\* Deadlines, polls and the choice of what plays next, for a sample the
\* watchdog does not block.

PeerHead(q) == q # <<>> /\ q[1].kind = "peer"           \* peer_status()
IdleFor(q, in) == ~in.source /\ ~in.media /\ ~(PeerHead(q) /\ in.peer)
Rested(st, ctl) == Sub(ctl.now, ctl.rxUnkey) >= st.idle
CourtesyReady(ctl, in) == ~in.receive /\ ctl.courtesy # Nothing /\ ctl.now >= ctl.courtesy[2]

\* poll_status found the head retired: it no longer plays or is held.
Dropped(ctl, q0, q) ==
    [ctl |-> IF Len(q) = Len(q0) THEN ctl
             ELSE [ctl EXCEPT !.active = IF @ = Status THEN Nothing ELSE @, !.held = FALSE,
                              !.out = @ \ {Status}],
     q |-> q]

\* expire_status, then poll_status
Serve(st, ctl, q, in) ==
    Dropped(ctl, q, Polled(Expired(q, Status \in ctl.out, ctl.now, in.mayTx,
                                   CourtesyReady(ctl, in) \/ ctl.active \notin {Nothing, Status},
                                   IdleFor(q, in) /\ Rested(st, ctl))))

\* What the arbitration decides from, before anything new is started.
Facts(st, ctl, q0, q, in) ==
    LET before == ctl.active
        spoken == ~(before = Status /\ PeerHead(q)) /\ before \in {Status, Courtesy}
        ordinary == in.receive \/ spoken \/ IsKind(before, "id")
        pending == q # <<>> /\ ~PeerHead(q)
        peerReady == PeerHead(q) /\ ~in.peer
    IN  [before |-> before, ann |-> AnnDue(st, ctl), ordinary |-> ordinary, pending |-> pending,
         peerReady |-> peerReady, cuts |-> in.receive \/ spoken,
         relExpired |-> /\ ctl.keyed /\ ~ordinary /\ before = Nothing
                        /\ Sub(ctl.now, ctl.lastAudio) >= ctl.relHang,
         statusReady |-> /\ q # <<>>
                         /\ \/ q[1].morse
                            \/ IdleFor(q0, in) /\ (peerReady \/ (Rested(st, ctl) /\ pending))]

\* A courtesy, then a status, takes the free slot.
Claim(st, ctl, k, in) ==
    LET rel == \/ ctl.relPending /\ ~k.cuts
               \/ k.ann # 0 /\ (k.relExpired \/ (~ctl.keyed /\ ~in.receive /\ st.anns[k.ann] # 0))
        d == [ctl EXCEPT !.relPending = rel]
    IN  IF ~(in.mayTx \/ k.peerReady) \/ ctl.active # Nothing THEN d
        ELSE IF CourtesyReady(ctl, in) THEN [Start(d, Courtesy) EXCEPT !.courtesy = Nothing]
        ELSE IF k.statusReady THEN [d EXCEPT !.active = Status, !.held = FALSE]
        ELSE d

Chosen(st, ctl, k, in) ==
    SelectIdentifier(st, ctl, in.rx,
                     \/ in.source \/ k.pending \/ ctl.courtesy # Nothing \/ ctl.active # Nothing
                     \/ TailPending(ctl) \/ TailHanging(ctl),
                     k.ann = 0 \/ ~ctl.keyed \/ k.relExpired \/ ctl.relPending)

\* The first key of a transmission arms an initial identifier; `idle` is taken
\* before this sample's own activity.
Initial(st, ctl, q, k, in) ==
    LET sel == Chosen(st, ctl, k, in)
        demand == \/ in.media \/ in.link \/ (st.duplex /\ in.rx)
                  \/ ctl.active # Nothing /\ ~(ctl.active = Status /\ PeerHead(q)) /\ k.before = Nothing
                  \/ ctl.courtesy # Nothing
                  \/ in.frame /\ sel # 0 /\ sel \in ctl.idFin
                  \/ ctl.relPending /\ k.ann # 0
    IN  IF in.mayTx /\ ~ctl.keyed /\ demand
        THEN [FirstKey(st, ctl, IF ctl.keyIdle > in.idle THEN ctl.keyIdle ELSE in.idle)
                EXCEPT !.keyIdle = 0]
        ELSE ctl

\* An identifier preempts a tail; one already heard resumes afterwards.
Preempt(ctl, sel, in) ==
    IF in.mayTx /\ sel # 0 /\ in.frame /\ IsKind(ctl.active, "tail")
    THEN [ctl EXCEPT !.active = Nothing,
                     !.tails[ctl.active[2]].suspended = @ \/ ctl.tails[ctl.active[2]].started]
    ELSE ctl

\* The free slot goes to an identifier, a ready tail, a release announcement.
Place(st, ctl, sel, tail, k, in) ==
    IF ~(in.frame /\ in.mayTx) \/ ctl.active # Nothing THEN ctl
    ELSE IF sel # 0 THEN [Start(ctl, <<"id", sel>>) EXCEPT !.idFin = @ \ {sel}]
    ELSE IF tail # 0
    THEN [(IF ctl.tails[tail].suspended THEN [ctl EXCEPT !.active = <<"tail", tail>>]
           ELSE Start(ctl, <<"tail", tail>>)) EXCEPT !.tails[tail].suspended = FALSE]
    ELSE IF ctl.relPending /\ ~k.pending /\ ctl.courtesy = Nothing /\ k.ann # 0
    THEN [Start(ctl, <<"ann", k.ann>>) EXCEPT !.anns[k.ann].release = FALSE]
    ELSE ctl

Arbitrate(st, ctl, q0, in) ==
    LET Answer(c1, q, k) == [ctl |-> c1, q |-> q, k |-> k,
                             peerPlay |-> c1.active = Status /\ PeerHead(q)]
        Placed(c1, sel, k) == Place(st, c1, sel, TailReady(st, c1), k, in)
        Selected(c1, sel, k) == Placed(Preempt(c1, sel, in), sel, k)
        Keyed(c1, k) == Selected(c1, Chosen(st, c1, k, in), k)
        Decided(w, k) == Answer(Keyed(Initial(st, Claim(st, w.ctl, k, in), w.q, k, in), k), w.q, k)
        Served(w) == Decided(w, Facts(st, w.ctl, q0, w.q, in))
    IN  Served(Serve(st, ctl, q0, in))

-----------------------------------------------------------------------------

\* The message a status is, for what rendering it depends on.
Playing(a) == IF a.ctl.active = Status THEN a.q[1]
              ELSE [kind |-> "none", begun |-> FALSE, recipe |-> 0]
Exempt(a) == IsKind(a.ctl.active, "tail") \/ Playing(a).kind = "message"

\* One read of the selected playback: it may be held, may lose its occurrence
\* to a concurrent replacement (begin fails when begun before, or cancelled
\* meanwhile), and a tail may have been cancelled by traffic.
Ending(st, a, m, in, o) ==
    LET ctl == a.ctl
        src == ctl.active
        allowed == \/ ~ctl.trafficKeyed \/ st.timeout = 0
                   \/ Sub(ctl.now, ctl.timeoutKey) < st.timeout
        may == in.frame /\ IF a.peerPlay THEN a.k.peerReady ELSE in.mayTx /\ (Exempt(a) \/ allowed)
        first == src \notin ctl.out
        beaten == may /\ first /\ m.kind = "message" /\ (m.begun \/ o = "beaten") /\ o \notin {"wait", "fail"}
    IN  IF src = Nothing THEN "none"
        ELSE IF beaten \/ (IsKind(src, "tail") /\ ~ctl.tails[src[2]].pending) THEN "cancelled"
        ELSE IF may THEN [wait |-> "wait", sample |-> "sample", beaten |-> "sample",
                          last |-> "ok", fail |-> "failed"][o]
        ELSE IF ~first /\ (in.source \/ in.media) /\ src # Courtesy /\ o = "fail" THEN "cancelled"
        ELSE "wait"

Over(end) == end \in {"ok", "failed", "cancelled"}
Made(end) == end \in {"sample", "ok"}

\* A finished playback is completed; a heard one is out.
Heard(st, ctl, src, m, end) ==
    IF Over(end) THEN CompleteItem(st, ctl, src, end = "ok", m.recipe)
    ELSE IF ~Made(end) THEN ctl
    ELSE IF IsKind(src, "tail") THEN [ctl EXCEPT !.out = @ \cup {src}, !.tails[src[2]].started = TRUE]
    ELSE [ctl EXCEPT !.out = @ \cup {src}]

\* Mutant: a composition keeps PTT only on the samples it gives.
RenderGaps(st, a, in, o) ==
    LET src == a.ctl.active
        made == src # Nothing /\ in.frame /\ in.mayTx /\ o = "sample"
    IN  [ctl |-> IF made THEN [a.ctl EXCEPT !.out = @ \cup {src}] ELSE a.ctl, q |-> a.q, src |-> src,
         exempt |-> IsKind(src, "tail"), made |-> made, waiting |-> ~made, continuing |-> FALSE]

RenderItem(st, a, in, o) ==
    LET src == a.ctl.active
        Settled(ctl, end) ==
            [ctl EXCEPT !.outcome = IF Over(end) THEN end ELSE "active",
                        !.relPending = @ /\ (AnnDue(st, ctl) # 0 \/ IsKind(ctl.active, "ann"))]
        Left(m, end) ==
            IF src # Status THEN a.q
            ELSE IF Over(end) THEN Tail(a.q)
            ELSE IF Made(end) /\ m.kind = "message" THEN [a.q EXCEPT ![1].begun = TRUE] ELSE a.q
        Read(ctl, m, end) ==
            [ctl |-> Settled(ctl, end), q |-> Left(m, end), src |-> src, exempt |-> Exempt(a),
             made |-> Made(end), waiting |-> end = "wait", continuing |-> ~Over(end) /\ src \in ctl.out]
        Ended(m, end) == Read(Heard(st, a.ctl, src, m, end), m, end)
        Taken(m) == Ended(m, Ending(st, a, m, in, o))
    IN  Taken(Playing(a))

\* Keying: duplex hang, tail holds, the watchdog, exempt message audio.
Wanted(st, a, r, in) ==
    LET ctl == r.ctl
        heard == (r.made \/ r.continuing) /\ ~a.peerPlay
        other == \/ in.link \/ (st.duplex /\ in.rx) \/ ctl.courtesy # Nothing
                 \/ a.k.statusReady /\ ~a.peerPlay /\ ~r.exempt
    IN  [message |-> r.exempt /\ heard, other |-> other,
         transmit |-> \/ in.media \/ other \/ (~r.exempt /\ heard)
                      \/ ctl.active # Nothing /\ ~a.peerPlay /\ ~r.exempt /\ ~r.waiting /\ a.k.before = Nothing,
         hang |-> IF r.src[1] \in {"id", "ann", "tail"} /\ ~other THEN st.short ELSE st.hang]

\* Whether traffic keys: held through a tail's hang, let go for a delayed tail.
Requested(st, ctl, r, x, dup, in) ==
    /\ ~in.off
    /\ \/ /\ \/ dup.keyed
             \/ in.mayTx /\ ctl.trafficKeyed /\ TailHanging(ctl)
          /\ ~(/\ ~x.transmit /\ ctl.active = Nothing /\ WaitingForUnkey(st, ctl)
               /\ Sub(ctl.now, ctl.lastAudio) >= (IF ctl.relHang < st.short THEN ctl.relHang ELSE st.short))
       \/ in.mayTx /\ ctl.trafficKeyed /\ TailReady(st, ctl) # 0 /\ ~r.exempt

Expires(st, ctl, req) ==
    req /\ ctl.trafficKeyed /\ st.timeout # 0 /\ Sub(ctl.now, ctl.timeoutKey) >= st.timeout

Keyed(st, ctl, x, dup, req, in) ==
    LET audio == (x.transmit \/ x.message) /\ in.mayTx
        last == IF audio THEN ctl.now ELSE ctl.lastAudio
        rel == IF ~audio THEN ctl.relHang ELSE IF x.message THEN st.short ELSE x.hang
        exempt == IF ~audio THEN ctl.exempt ELSE x.message /\ (~req \/ ~x.other)
        keyed == req \/ (in.mayTx /\ (x.message \/ (exempt /\ Sub(ctl.now, last) < rel)))
    IN  [ctl EXCEPT !.timeoutKey = IF req /\ ~ctl.trafficKeyed THEN ctl.now ELSE @,
                    !.trafficKeyed = req, !.duplex = IF req THEN dup ELSE DuplexIdle,
                    !.lastAudio = last, !.relHang = rel, !.keyed = keyed, !.exempt = exempt /\ keyed]

\* What keyed the transmitter arms the release announcements.
Armed(st, ctl, a, r) ==
    LET arm == /\ ctl.keyed /\ ~ctl.suppress
               /\ a.k.ordinary \/ (r.made /\ ~a.peerPlay /\ r.src[1] \notin {"ann", "tail"})
    IN  [ctl EXCEPT !.anns = [k \in DOMAIN @ |->
            IF arm /\ st.anns[k] = 0 THEN [@[k] EXCEPT !.release = TRUE] ELSE @[k]]]

Key(st, a, r, in, n) ==
    LET Quieted(ctl) == IF ctl.keyed THEN ctl ELSE TailsUnkeyed(st, ctl)
        Decided(x, dup, req) ==
            IF Expires(st, r.ctl, req)
            THEN TimeoutSample(st, BeginTimeout([r.ctl EXCEPT !.phase = "expired"]), in, in.off, n)
            ELSE Armed(st, Quieted(Keyed(st, r.ctl, x, dup, req, in)), a, r)
        Held(x, dup) == Decided(x, dup, Requested(st, r.ctl, r, x, dup, in))
        Asked(x) == Held(x, DuplexUpdate(st, r.ctl.duplex, in.rx, x.transmit, r.ctl.now, x.hang))
    IN  Asked(Wanted(st, a, r, in))

\* cancel_message, poll_status and the hold of a status still opening.
Prologue(st, ctl, q, in, cancel) ==
    LET target == IF ctl.active # Nothing THEN ctl.active ELSE IF ctl.held THEN Status ELSE Nothing
        hit == cancel /\ target # Nothing /\ (target = Status => q # <<>>)
        Hold(w) ==
            IF /\ ~IdleFor(w.q, in) /\ ~Blocked(w.ctl) /\ w.ctl.active = Status
               /\ Status \notin w.ctl.out /\ ~w.q[1].morse
            THEN [w EXCEPT !.ctl = [@ EXCEPT !.active = Nothing, !.held = TRUE]] ELSE w
        Poll(a, q0) == Hold(Dropped(a, q0, Polled(q0)))
    IN  Poll(IF hit THEN CompleteItem(st, ctl, target, FALSE, 0)
             ELSE IF cancel THEN [ctl EXCEPT !.active = Nothing] ELSE ctl,
             IF hit /\ target = Status THEN Tail(q) ELSE q)

\* What one playback read may give; only a watchdog reads a notice as well.
Notices(st) == IF st.timeout = 0 THEN {"wait"} ELSE {"wait", "sample"}
Outcomes == {"wait", "sample", "last", "fail", "beaten"}

Heeded(st, ctl, in, off, peerBusy) ==
    [rx |-> in.rx, link |-> in.link, other |-> in.other, media |-> in.media, frame |-> in.frame,
     receive |-> in.rx \/ in.link, source |-> in.rx \/ in.link \/ in.other, off |-> off,
     mayTx |-> ~off /\ (st.duplex \/ ~in.rx), peer |-> peerBusy,
     idle |-> Sub(ctl.now, ctl.lastActivity)]

\* A second reading is made only when the watchdog expires in this sample.
Sample(st, ctl, q, in0, off, cancel, peerBusy, o, n) ==
    LET Played(in, a, r) == [ctl |-> Key(st, a, r, in, n), q |-> r.q]
        Chose(in, a) == Played(in, a, RenderItem(st, a, in, o))
        Heard1(in, h, q1) ==
            IF Blocked(h) THEN [ctl |-> TimeoutSample(st, h, in, off, o), q |-> q1]
            ELSE Chose(in, Arbitrate(st, h, q1, in))
        Begun(in, p) == Heard1(in, Hear(st, p.ctl, in), p.q)
        Entered(in) == Begun(in, Prologue(st, ctl, q, in, cancel))
    IN  Entered(Heeded(st, ctl, in0, off, peerBusy))

\* process_audio_outputs advances the clock once per sample; a sample-free
\* edge (process_event) does not.
Tick ==
    \E in \in station.inputs, o \in Outcomes, n \in Notices(station) :
        /\ in.frame => c.now < station.samples
        /\ \E s \in {Sample(station, c, queue, in, inhibit, cancelMessage, peerActive, o, n)} :
           /\ c' = [s.ctl EXCEPT !.now = IF in.frame THEN @ + 1 ELSE @]
           /\ queue' = s.q
           /\ completed' = completed + (Len(queue) - Len(s.q))
           /\ cancelMessage' = FALSE
           /\ lastTraffic' = IF in.rx \/ in.link \/ in.other THEN c.now ELSE lastTraffic
           /\ UNCHANGED <<station, outstanding, inhibit, peerActive, queued>>

\* link_keyed: a resumed peer cancels only its own courtesy.
LinkKeyed ==
    /\ c' = Cancelled(c, "link")
    /\ UNCHANGED <<station, queue, completed, outstanding, inhibit, cancelMessage, peerActive,
                   queued, lastTraffic>>

\* link_unkeyed
LinkUnkeyed ==
    \E kerchunk \in BOOLEAN :
        /\ c.link
        /\ LET u == ReceiveUnkeyed(c, kerchunk)
           IN c' = IF kerchunk THEN u ELSE Scheduled(station, u, "link")
        /\ UNCHANGED <<station, queue, completed, outstanding, inhibit, cancelMessage, peerActive,
                       queued, lastTraffic>>

\* queue_prepared_status: refused once four are outstanding.
QueueStatus ==
    \E m \in station.messages :
        /\ queued < station.statuses
        /\ queued' = queued + 1
        /\ IF outstanding = QueueDepth
           THEN UNCHANGED <<queue, outstanding>>
           ELSE /\ queue' = Append(queue, [kind |-> m.kind, wait |-> m.wait, expiry |-> m.expiry,
                                           busy |-> m.busy, recipe |-> m.recipe,
                                           deadline |-> c.now + m.wait, morse |-> FALSE,
                                           begun |-> FALSE, dead |-> FALSE, gone |-> FALSE])
                /\ outstanding' = outstanding + 1
        /\ UNCHANGED <<station, c, completed, inhibit, cancelMessage, peerActive, lastTraffic>>

\* Mutant: one reclaimed envelope is counted, whatever the ring held.
ReclaimOne ==
    /\ completed > 0
    /\ completed' = 0
    /\ outstanding' = outstanding - 1
    /\ UNCHANGED <<station, c, queue, inhibit, cancelMessage, peerActive, queued, lastTraffic>>

\* reclaim: every completed envelope returns to control.
Reclaim ==
    /\ completed > 0
    /\ completed' = 0
    /\ outstanding' = outstanding - completed
    /\ UNCHANGED <<station, c, queue, inhibit, cancelMessage, peerActive, queued, lastTraffic>>

\* The addressed peer ended, a notice was superseded, or cancel_pending won
\* its exchange: an occurrence already audible is never replaced.
RetireStatus ==
    \E k \in DOMAIN queue :
        /\ "retire" \in station.requests
        /\ ~queue[k].gone
        /\ queue[k].kind = "message" => ~queue[k].begun
        /\ queue' = [queue EXCEPT ![k].gone = TRUE]
        /\ UNCHANGED <<station, c, completed, outstanding, inhibit, cancelMessage, peerActive,
                       queued, lastTraffic>>

SetInhibit ==
    /\ "inhibit" \in station.requests
    /\ inhibit' = ~inhibit
    /\ UNCHANGED <<station, c, queue, completed, outstanding, cancelMessage, peerActive, queued,
                   lastTraffic>>

CancelMessage ==
    /\ "cancel" \in station.requests
    /\ ~cancelMessage
    /\ cancelMessage' = TRUE
    /\ UNCHANGED <<station, c, queue, completed, outstanding, inhibit, peerActive, queued,
                   lastTraffic>>

\* The peer a reply is addressed to starts or stops receiving (PeerReply).
PeerToggle ==
    /\ \E k \in DOMAIN queue : queue[k].kind = "peer"
    /\ peerActive' = ~peerActive
    /\ UNCHANGED <<station, c, queue, completed, outstanding, inhibit, cancelMessage, queued,
                   lastTraffic>>

\* NodeController::new
NewController(st) ==
    [now |-> 0, rx |-> FALSE, link |-> FALSE, rxKey |-> 0, rxUnkey |-> 0, lastActivity |-> 0,
     keyIdle |-> 0, suppress |-> FALSE, courtesy |-> Nothing, active |-> Nothing, out |-> {},
     held |-> FALSE, outcome |-> "active",
     ids |-> [i \in DOMAIN st.ids |-> [satisfied |-> 0, retry |-> 0, activity |-> FALSE, pending |-> FALSE]],
     idFin |-> {}, nextFirst |-> 1, firstDone |-> FALSE, firstDoneAt |-> 0,
     firstDue |-> [i \in DOMAIN st.ids |-> 0],
     tails |-> [i \in DOMAIN st.tails |-> [pending |-> FALSE, started |-> FALSE, suspended |-> FALSE,
                                           deadline |-> Never, completed |-> Never]],
     traffic |-> FALSE, hangUntil |-> Never,
     anns |-> [k \in DOMAIN st.anns |-> [satisfied |-> 0, retry |-> 0, release |-> FALSE]],
     phase |-> "normal", timeoutKey |-> 0, noticeOut |-> FALSE, duplex |-> DuplexIdle,
     keyed |-> FALSE, trafficKeyed |-> FALSE, exempt |-> FALSE, lastAudio |-> 0, relHang |-> 0,
     relPending |-> FALSE]

Init ==
    /\ station \in Stations
    /\ c = NewController(station)
    /\ queue = <<>> /\ completed = 0 /\ outstanding = 0
    /\ inhibit = FALSE /\ cancelMessage = FALSE /\ peerActive = FALSE
    /\ queued = 0
    /\ lastTraffic = Never

Next ==
    \/ Tick
    \/ LinkKeyed
    \/ LinkUnkeyed
    \/ QueueStatus
    \/ Reclaim
    \/ RetireStatus
    \/ SetInhibit
    \/ CancelMessage
    \/ PeerToggle

Spec == Init /\ [][Next]_vars

-----------------------------------------------------------------------------
Sources == {Nothing, Status, Courtesy}
           \cup {<<"id", i>> : i \in DOMAIN station.ids}
           \cup {<<"tail", i>> : i \in DOMAIN station.tails}
           \cup {<<"ann", i>> : i \in DOMAIN station.anns}

\* Types; the status queue and the completed ring account for every outstanding
\* status, so the completed ring has room for each one finish_status will push
\* (it drops the push's result).
TypeOK ==
    /\ c.now \in 0..station.samples
    /\ c.active \in Sources /\ c.out \subseteq Sources
    /\ c.phase \in {"normal", "expired", "waiting", "cleared"}
    /\ {c.keyed, c.trafficKeyed, c.exempt, c.held} \subseteq BOOLEAN
    /\ c.active = Status => queue # <<>>
    /\ outstanding = Len(queue) + completed
    /\ outstanding <= QueueDepth

Sampled == c'.now > c.now
MayTransmit == ~inhibit /\ (station.duplex \/ ~c'.rx)

\* A site inhibit releases PTT at the next sample, and so does local reception
\* in half duplex; traffic keys no longer than the timeout, and a timed-out node
\* repeats again only after a quiet sample.
KeyingBounded ==
    /\ Sampled /\ ~MayTransmit /\ (inhibit \/ (c'.phase = "normal" /\ c.phase = "normal"))
       => ~c'.keyed
    /\ c'.trafficKeyed /\ station.timeout # 0 => c'.now - c'.timeoutKey <= station.timeout
    /\ c.phase \in {"expired", "waiting"} /\ c'.phase \in {"cleared", "normal"}
       => ~c'.traffic

\* What has been heard and has the slot keys.
AudibleKeys ==
    /\ Sampled /\ MayTransmit /\ c'.phase = "normal"
    /\ c'.active # Nothing /\ c'.active \in c'.out
    /\ ~(c'.active = Status /\ queue'[1].kind = "peer")
    => c'.keyed

\* The overdue identifier of the highest priority does not wait.
OverdueGoesFirst ==
    \A i \in DOMAIN station.ids :
      LET rule == station.ids[i]
          id == c'.ids[i]
          due == IF rule.first THEN c'.firstDue[i] ELSE id.satisfied + rule.interval
      IN /\ Sampled /\ MayTransmit /\ c.phase = "normal" /\ c'.phase = "normal"
         /\ rule.polite # Never /\ c.now - due >= rule.polite /\ c.now >= id.retry
         /\ IF rule.first THEN id.pending
            ELSE c.now >= id.satisfied + rule.interval /\ (rule.always \/ id.activity)
         /\ \A j \in DOMAIN station.ids : station.ids[j].priority <= rule.priority
         => \/ c'.outcome # "active"
            \/ c'.active # Nothing /\ ~IsKind(c'.active, "tail")

\* A pending tail that completed before has been preceded by traffic.
TailsHeard ==
    \A i \in DOMAIN c.tails :
        c.tails[i].pending /\ c.tails[i].completed # Never => c.tails[i].completed <= lastTraffic

\* begin_timeout holds an interrupted message "without satisfying or retiring"
\* it: a message already heard leaves the queue only by finishing, failing or
\* being cancelled by its owner.
HeldMessageResumes ==
    [][/\ queue # <<>> /\ queue[1].kind = "message" /\ queue[1].begun
       /\ ~queue[1].gone /\ ~cancelMessage
       /\ Len(queue') < Len(queue)
       => c'.outcome \in {"ok", "failed"}]_vars
=============================================================================
