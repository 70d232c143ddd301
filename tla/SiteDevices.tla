----------------------------- MODULE SiteDevices -----------------------------
(***************************************************************************)
(* The physical site devices: one worker thread for each, the acquisition  *)
(* that polls them on station control, and the handoff of a reload or a    *)
(* shutdown.  Control and a worker share request and reply rings and a     *)
(* fence: a numbered request (run, pause, safe, prepare, install, close),  *)
(* the acknowledgement of it and a flag for a committed exchange of rings. *)
(* The worker reads the request before the flag; each is a step of its     *)
(* own.  An operation is two steps, since opening an endpoint may take     *)
(* long and the generation it was admitted by may end meanwhile.           *)
(***************************************************************************)
EXTENDS Naturals, Sequences, FiniteSets

CONSTANTS DeviceKeys,   \* backend and device path
          SitePlans     \* [layouts, replaces, eps, moves, due, faults]

VARIABLES
    vPlan,          \* the layouts of the coming reloads, and what may go wrong
    vDevices,       \* Acquisition.devices: key |-> worker, paused, bindings
    vNext,          \* replacement: layout, fresh workers, prepared
    vAuto,          \* auto_resume
    vChange,        \* site_transition: none, reload or shutdown; staged
    vRetired,       \* site_retired
    vAt,            \* the place of the engine thread in reload or stop
    vWorkers,       \* the workers started so far
    vPins,          \* each endpoint: the level last written, the level to be left at
    vGen,           \* generation of the nodes
    vPanic          \* an assert or expect failed

vVars == <<vPlan, vDevices, vNext, vAuto, vChange, vRetired, vAt, vWorkers, vPins, vGen, vPanic>>

\* A layout gives each device its bindings, [ep, safe]; an empty one is absent.
Vacant == [worker |-> 0, paused |-> FALSE, bindings |-> <<>>]
NoNext == [layout |-> <<>>, fresh |-> <<>>, prepared |-> FALSE, replaces |-> FALSE]
NoChange == [kind |-> "none", staged |-> FALSE]

Binding(b) == [ep |-> b.ep, safe |-> b.safe, demand |-> 1, attempt |-> 2, submitted |-> 2, quality |-> "unavailable"]
Bindings(settings) == [i \in DOMAIN settings |-> Binding(settings[i])]
Physical(bindings) == [i \in DOMAIN bindings |-> [ep |-> bindings[i].ep, safe |-> bindings[i].safe]]

\* DeviceWorker::start: rings of one slot per endpoint; nothing is open.
FreshBinding(settings, request) ==
    [live |-> TRUE, at |-> "top", settings |-> settings, open |-> <<>>, seen |-> 0, loaded |-> [n |-> 0, kind |-> "run"],
     prepared |-> <<>>, broken |-> FALSE, requests |-> <<>>, replies |-> <<>>, change |-> <<>>, op |-> <<>>,
     request |-> request, ack |-> 0, quality |-> "ok", install |-> FALSE,
     staged |-> <<>>, pending |-> {}, rings |-> 0, reads |-> 0, safeDone |-> FALSE]

Running(settings) == FreshBinding(settings, [n |-> 0, kind |-> "run"])

\* The safe level a layout gives an endpoint, or the one it had.
Safe(layout, e, was) ==
    IF \E k \in DeviceKeys : \E i \in DOMAIN layout[k] : layout[k][i].ep = e
    THEN LET k == CHOOSE k \in DeviceKeys : \E i \in DOMAIN layout[k] : layout[k][i].ep = e
         IN layout[k][CHOOSE i \in DOMAIN layout[k] : layout[k][i].ep = e].safe
    ELSE was

VInit ==
    /\ vPlan \in SitePlans
    /\ LET used == {k \in DeviceKeys : vPlan.layouts[1][k] # <<>>}
           id == CHOOSE f \in [used -> 1 .. Cardinality(used)] : \A a, b \in used : f[a] = f[b] => a = b
       IN /\ vDevices = [k \in DeviceKeys |-> IF k \in used
                            THEN [worker |-> id[k], paused |-> FALSE, bindings |-> Bindings(vPlan.layouts[1][k])]
                            ELSE Vacant]
          /\ vWorkers = [i \in 1 .. Cardinality(used) |-> Running(vPlan.layouts[1][CHOOSE k \in used : id[k] = i])]
    /\ vNext = NoNext
    /\ vAuto = FALSE
    /\ vChange = NoChange
    /\ vRetired = {}
    /\ vAt = "idle"
    /\ vPins = [e \in vPlan.eps |-> [level |-> 2, safe |-> Safe(vPlan.layouts[1], e, 2)]]
    /\ vGen = 1
    /\ vPanic = FALSE

-----------------------------------------------------------------------------
(* DeviceWorker, on station control. *)

\* signal: every request has a number of its own.
Signal(w, kind) == [w EXCEPT !.request = [n |-> @.n + 1, kind |-> kind]]

Acked(w) == w.request.kind # "run" /\ w.ack = w.request.n
BarrierOk(w) == Acked(w) /\ w.quality = "ok"
Pause(w, safe) == [Signal(w, IF safe THEN "safe" ELSE "pause") EXCEPT !.staged = <<>>]

\* stage: rings for the new bindings cross once, while ordinary work is fenced.
CanStage(w) == Acked(w) /\ w.live /\ w.pending = {} /\ w.change = <<>>
StageWorker(w, settings) == [Signal(w, "prepare") EXCEPT !.change = <<settings>>, !.staged = <<settings>>]

CanCommit(w) == w.request.kind = "prepare" /\ BarrierOk(w)
\* commit: the rings and the order to exchange them first, then the request.
CommitWorker(w) == [w EXCEPT !.staged = <<>>, !.rings = @ + 1, !.install = TRUE]

CanResume(w) == BarrierOk(w) /\ w.live /\ w.staged = <<>>

\* Mutant: an endpoint whose operation is outstanding takes another.
CanSubmitTwice(w, i) == w.live /\ w.request.kind = "run"

CanSubmit(w, i) == w.live /\ w.request.kind = "run" /\ i \notin w.pending
Submit(w, i, demand) ==
    [w EXCEPT !.requests = Append(@, [index |-> i, demand |-> demand, gen |-> vGen]), !.pending = @ \cup {i}]

-----------------------------------------------------------------------------
(* The worker thread: acquire. *)

Worker(i, w) == vWorkers' = [vWorkers EXCEPT ![i] = w]
Untouched == UNCHANGED <<vPlan, vDevices, vNext, vAuto, vChange, vRetired, vAt, vGen>>

Answer(op, ok) == [index |-> op.index, gen |-> op.gen, demand |-> op.demand, ok |-> ok /\ op.gen = vGen]
Respond(w, op, ok) == [w EXCEPT !.replies = Append(@, Answer(op, ok))]

\* Intent is read first ...
Load(i) ==
    LET w == vWorkers[i]
    IN /\ w.live /\ w.at = "top"
       /\ w.request.n # w.seen \/ w.install \/ (w.request.kind = "run" /\ w.requests # <<>>)
       /\ Worker(i, [w EXCEPT !.loaded = w.request, !.at = "swap"])
       /\ UNCHANGED <<vPins, vPanic>> /\ Untouched

SameBinding(a, b) == a.ep = b.ep

\* ... then a committed exchange: what both layouts bind stays open, with the
\* safe level of the new one unless its provider refuses.
Swap(i, fails) ==
    LET w == vWorkers[i]
        next == w.prepared[1]
        old(j) == {o \in DOMAIN w.open : SameBinding(w.settings[o], next[j])}
        kept == {j \in DOMAIN next : old(j) # {}}
        level(j) == w.open[CHOOSE o \in old(j) : TRUE]
        refused == {j \in kept : fails /\ level(j) # next[j].safe}
        moved == [w EXCEPT !.install = FALSE, !.prepared = <<>>, !.settings = next, !.reads = @ + 1,
                           !.open = [j \in kept |-> IF j \in refused THEN level(j) ELSE next[j].safe],
                           !.broken = @ \/ refused # {}]
        after == IF w.loaded.n # w.seen THEN "obey" ELSE IF w.loaded.kind = "run" THEN "work" ELSE "top"
    IN /\ w.live /\ w.at = "swap" /\ (fails => vPlan.faults /\ w.install)
       /\ IF ~w.install THEN Worker(i, [w EXCEPT !.at = after]) /\ UNCHANGED vPanic
          ELSE IF w.prepared = <<>> THEN Worker(i, [w EXCEPT !.live = FALSE]) /\ vPanic' = TRUE
          ELSE Worker(i, [moved EXCEPT !.at = after]) /\ UNCHANGED vPanic
       /\ UNCHANGED vPins /\ Untouched

\* The fence: queued requests are answered, outputs made safe as asked, and only
\* then the request is acknowledged.
Obey(i, fails) ==
    LET w == vWorkers[i]
        kind == w.loaded.kind
        answered == [j \in DOMAIN w.requests |-> Answer(w.requests[j], FALSE)]
        next == w.change[1]
        safe == IF kind = "safe" \/ (kind = "close" /\ ~w.safeDone) THEN DOMAIN w.open
                ELSE IF kind = "prepare"
                THEN {o \in DOMAIN w.open : \A j \in DOMAIN next : ~SameBinding(w.settings[o], next[j])}
                ELSE {}
        done == [w EXCEPT !.requests = <<>>, !.replies = @ \o answered,
                          !.quality = IF w.broken \/ (fails /\ safe # {}) THEN "fault" ELSE "ok",
                          !.prepared = IF kind = "prepare" THEN w.change ELSE <<>>, !.change = <<>>,
                          !.ack = w.loaded.n, !.seen = w.loaded.n,
                          !.safeDone = kind = "safe" /\ ~w.broken /\ ~(fails /\ safe # {}),
                          !.live = kind # "close", !.open = IF kind = "close" THEN <<>> ELSE @, !.at = "top"]
    IN /\ w.live /\ w.at = "obey" /\ (fails => vPlan.faults)
       /\ IF kind = "run" THEN Worker(i, [w EXCEPT !.seen = w.loaded.n, !.safeDone = FALSE, !.at = "work"]) /\ UNCHANGED <<vPins, vPanic>>
          ELSE IF kind = "prepare" /\ w.change = <<>>
          THEN Worker(i, [w EXCEPT !.live = FALSE]) /\ vPanic' = TRUE /\ UNCHANGED vPins
          ELSE /\ Worker(i, done)
               /\ vPanic' = (vPanic \/ Len(done.replies) > Len(w.settings))
               /\ vPins' = IF fails THEN vPins
                           ELSE [e \in DOMAIN vPins |-> IF \E o \in safe : w.settings[o].ep = e
                                    THEN [vPins[e] EXCEPT !.level = w.open[CHOOSE o \in safe : w.settings[o].ep = e]]
                                    ELSE vPins[e]]
       /\ Untouched

\* perform, up to the physical write: the permit, then the endpoint.
Work(i, opens) ==
    LET w == vWorkers[i]
        op == Head(w.requests)
        taken == [w EXCEPT !.requests = Tail(@)]
        ready == op.index \in DOMAIN w.open \/ opens
    IN /\ w.live /\ w.at = "work" /\ (opens \/ vPlan.faults)
       /\ IF w.requests = <<>> THEN opens /\ Worker(i, [w EXCEPT !.at = "top"])
          ELSE IF op.gen # vGen \/ ~ready THEN Worker(i, [Respond(taken, op, FALSE) EXCEPT !.at = "top"])
          ELSE Worker(i, [taken EXCEPT !.open = [j \in DOMAIN @ \cup {op.index} |-> IF j \in DOMAIN @ THEN @[j] ELSE w.settings[j].safe], !.op = <<op>>, !.at = "write"])
       /\ UNCHANGED <<vPins, vPanic>> /\ Untouched

\* The permit again, since opening may have taken long, and the write.
Write(i, ok) ==
    LET w == vWorkers[i]
        op == w.op[1]
        writes == op.gen = vGen /\ ok
    IN /\ w.live /\ w.at = "write" /\ (ok \/ vPlan.faults)
       /\ Worker(i, [Respond(w, op, writes) EXCEPT !.op = <<>>, !.at = "top"])
       /\ vPins' = IF writes THEN [vPins EXCEPT ![w.settings[op.index].ep].level = op.demand] ELSE vPins
       /\ vPanic' = (vPanic \/ Len(w.replies) >= Len(w.settings))
       /\ Untouched

-----------------------------------------------------------------------------
(* Acquisition, on station control. *)

Here == {k \in DeviceKeys : vDevices[k].worker # 0}
Halted == {k \in Here : vDevices[k].paused}
W(k) == vWorkers[vDevices[k].worker]
Absent(layout, k) == layout[k] = <<>>

\* complete: a reply of an ended generation is only tried again.
Completed(b, reply) ==
    IF reply.gen # vGen THEN b
    ELSE IF reply.ok THEN [b EXCEPT !.submitted = b.attempt, !.quality = "valid"]
    ELSE [b EXCEPT !.quality = "fault"]

RECURSIVE Drained(_, _)
Drained(bindings, replies) ==
    IF replies = <<>> THEN bindings
    ELSE Drained([bindings EXCEPT ![Head(replies).index] = Completed(@, Head(replies))], Tail(replies))

\* The replies of some devices, taken and applied.
Taken(devices, workers, keys) ==
    [k \in DeviceKeys |-> IF k \in keys
        THEN [devices[k] EXCEPT !.bindings = Drained(@, workers[devices[k].worker].replies)] ELSE devices[k]]
Emptied(workers, keys) ==
    [i \in DOMAIN workers |->
        IF \E k \in keys : vDevices[k].worker = i
        THEN [workers[i] EXCEPT !.pending = @ \ {workers[i].replies[j].index : j \in DOMAIN workers[i].replies},
                                !.replies = <<>>]
        ELSE workers[i]]

\* resume: every paused device whose barrier is well.
Resumable == {k \in Halted : CanResume(W(k))}
Resumed == [k \in DeviceKeys |-> IF k \in Resumable THEN [vDevices[k] EXCEPT !.paused = FALSE] ELSE vDevices[k]]
Released == [i \in DOMAIN vWorkers |-> IF \E k \in Resumable : vDevices[k].worker = i
                                       THEN Signal(vWorkers[i], "run") ELSE vWorkers[i]]

RECURSIVE Sent(_, _, _, _)
Sent(w, bindings, due, i) ==
    IF i > Len(bindings) THEN [worker |-> w, bindings |-> bindings]
    ELSE LET b == bindings[i]
         IN IF (b.ep \in due \/ b.demand # b.attempt) /\ CanSubmit(w, i)
            THEN Sent(Submit(w, i, b.demand), [bindings EXCEPT ![i].attempt = b.demand], due, i + 1)
            ELSE Sent(w, bindings, due, i + 1)

\* Drained devices and their workers, with what is due or newly demanded sent.
Polled(devices, workers, due) ==
    LET sent == [k \in Here |-> IF devices[k].paused
                                THEN [worker |-> workers[devices[k].worker], bindings |-> devices[k].bindings]
                                ELSE Sent(workers[devices[k].worker], devices[k].bindings, due, 1)]
    IN /\ vDevices' = [k \in DeviceKeys |-> IF k \in Here THEN [devices[k] EXCEPT !.bindings = sent[k].bindings] ELSE devices[k]]
       /\ vWorkers' = [i \in DOMAIN workers |-> IF \E k \in Here : devices[k].worker = i
                          THEN sent[CHOOSE k \in Here : devices[k].worker = i].worker ELSE workers[i]]

\* poll: an aborted or committed change resumes first.
PollSites(due) ==
    IF vAuto THEN Polled(Taken(Resumed, Released, Here), Emptied(Released, Here), due)
    ELSE Polled(Taken(vDevices, vWorkers, Here), Emptied(vWorkers, Here), due)

\* No other call on the sites runs inside a commit.
Poll(due) ==
    /\ vAt \notin {"stopped", "signal"}
    /\ PollSites(due)
    /\ UNCHANGED <<vPlan, vNext, vAuto, vChange, vRetired, vAt, vPins, vGen, vPanic>>

\* output: policy replaces the latest demand; a shutdown stops policy.
Output(k, i) ==
    /\ vChange.kind # "shutdown" /\ vAt \notin {"stopped", "signal"}
    /\ k \in Here /\ i \in DOMAIN vDevices[k].bindings /\ vDevices[k].bindings[i].ep \in vPlan.moves
    /\ vDevices' = [vDevices EXCEPT ![k].bindings[i].demand = 1 - @]
    /\ UNCHANGED <<vPlan, vNext, vAuto, vChange, vRetired, vAt, vWorkers, vPins, vGen, vPanic>>

-----------------------------------------------------------------------------
(* Host and Engine: the handoff of a reload and of a shutdown. *)

Signalled(ids, kind) == [i \in DOMAIN vWorkers |-> IF i \in ids THEN Signal(vWorkers[i], kind) ELSE vWorkers[i]]
Of(keys) == {vDevices[k].worker : k \in keys}

\* prepare_reload and begin: new owners start paused; a device that changes, goes
\* away or serves a replaced radio is fenced, made safe only when it goes away.
BeginSiteReload ==
    LET layout == vPlan.layouts[2]
        fresh == {k \in DeviceKeys \ Here : ~Absent(layout, k)}
        id == CHOOSE f \in [fresh -> Len(vWorkers) + 1 .. Len(vWorkers) + Cardinality(fresh)] :
                  \A a, b \in fresh : f[a] = f[b] => a = b
        fenced == {k \in Here : layout[k] # Physical(vDevices[k].bindings) \/ vPlan.replaces}
    IN /\ vAt = "idle" /\ Len(vPlan.layouts) > 1
       /\ vPlan' = [vPlan EXCEPT !.layouts = Tail(@)]
       /\ IF Halted # {} THEN UNCHANGED <<vDevices, vNext, vAuto, vChange, vAt, vWorkers>>
          ELSE /\ vWorkers' = [i \in DOMAIN vWorkers |-> IF i \in Of(fenced)
                                    THEN Pause(vWorkers[i], \E k \in fenced : vDevices[k].worker = i /\ Absent(layout, k))
                                    ELSE vWorkers[i]]
                              \o [i \in 1 .. Cardinality(fresh) |->
                                    FreshBinding(layout[CHOOSE k \in fresh : id[k] = Len(vWorkers) + i], [n |-> 1, kind |-> "pause"])]
               /\ vDevices' = [k \in DeviceKeys |-> IF k \in fenced THEN [vDevices[k] EXCEPT !.paused = TRUE] ELSE vDevices[k]]
               /\ vNext' = [layout |-> layout, fresh |-> id, prepared |-> FALSE, replaces |-> vPlan.replaces]
               /\ vAuto' = FALSE
               /\ vChange' = [kind |-> "reload", staged |-> FALSE]
               /\ vAt' = "drain"
       /\ UNCHANGED <<vRetired, vPins, vGen, vPanic>>

\* site_shutdown, the first time: every device is fenced and made safe.
BeginShutdown ==
    /\ vAt = "idle"
    /\ vWorkers' = [i \in DOMAIN vWorkers |-> IF i \in Of(Here) THEN Pause(vWorkers[i], TRUE) ELSE vWorkers[i]]
    /\ vDevices' = [k \in DeviceKeys |-> IF k \in Here THEN [vDevices[k] EXCEPT !.paused = TRUE] ELSE vDevices[k]]
    /\ vAuto' = FALSE
    /\ vChange' = [kind |-> "shutdown", staged |-> FALSE]
    /\ vAt' = "drain"
    /\ UNCHANGED <<vPlan, vNext, vRetired, vPins, vGen, vPanic>>

\* site_barrier: poll_sites and the drain of site_ready ...
Drain(due) ==
    /\ vAt = "drain"
    /\ PollSites(due)
    /\ vAt' = "check"
    /\ UNCHANGED <<vPlan, vNext, vAuto, vChange, vRetired, vPins, vGen, vPanic>>

\* ... then the acknowledgements, and the next try, the deadline or the stage.
Ready(late) ==
    LET waits == \E k \in Halted : ~Acked(W(k))
        fails == \E k \in Halted : Acked(W(k)) /\ W(k).quality # "ok"
        shutdown == vChange.kind = "shutdown"
    IN /\ vAt = "check" /\ (late => waits)
       /\ vAt' = IF waits THEN IF late /\ ~shutdown THEN "abort" ELSE "drain"
                 ELSE IF fails THEN IF shutdown THEN "failed" ELSE "abort"
                 ELSE IF vChange.staged THEN IF shutdown THEN "quiet" ELSE "publish"
                 ELSE IF shutdown THEN "drain" ELSE "stage"
       /\ vChange' = [vChange EXCEPT !.staged = @ \/ (shutdown /\ ~waits /\ ~fails)]
       /\ UNCHANGED <<vPlan, vDevices, vNext, vAuto, vRetired, vWorkers, vPins, vGen, vPanic>>

\* Acquisition::stage: drained again, the paused devices that stay are staged.
Stage ==
    LET workers == Emptied(vWorkers, Halted)
        stays == {k \in Halted : ~Absent(vNext.layout, k)}
        fits == \A k \in Halted : BarrierOk(W(k)) /\ (k \in stays => CanStage(workers[vDevices[k].worker]))
    IN /\ vAt = "stage"
       /\ vDevices' = Taken(vDevices, vWorkers, Halted)
       /\ vWorkers' = [i \in DOMAIN workers |-> IF i \in Of(stays)
                          THEN StageWorker(workers[i], vNext.layout[CHOOSE k \in stays : vDevices[k].worker = i])
                          ELSE workers[i]]
       /\ vNext' = [vNext EXCEPT !.prepared = TRUE]
       /\ vChange' = [vChange EXCEPT !.staged = TRUE]
       /\ vPanic' = (vPanic \/ ~fits)
       /\ vAt' = "drain"
       /\ UNCHANGED <<vPlan, vAuto, vRetired, vPins, vGen>>

\* transfer: what survives with its identity keeps its demand and its history.
Transferred(old, settings) ==
    [i \in DOMAIN settings |->
        IF \E j \in DOMAIN old : SameBinding(old[j], settings[i])
        THEN [old[CHOOSE j \in DOMAIN old : SameBinding(old[j], settings[i])] EXCEPT !.safe = settings[i].safe]
        ELSE Binding(settings[i])]

\* Runtime publication, then commit_sites; or a publication that fails.
Publish(ok) ==
    LET layout == vNext.layout
        stays == {k \in Here : ~Absent(layout, k)}
        commits == Of(stays \cap Halted)
    IN /\ vAt = "publish" /\ (ok \/ vPlan.faults)
       /\ IF ~ok THEN vAt' = "abort" /\ UNCHANGED <<vDevices, vNext, vChange, vRetired, vWorkers, vPins, vGen, vPanic>>
          ELSE /\ vWorkers' = [i \in DOMAIN vWorkers |-> IF i \in commits THEN CommitWorker(vWorkers[i]) ELSE vWorkers[i]]
               /\ vPanic' = (vPanic \/ \E i \in commits : ~CanCommit(vWorkers[i]))
               /\ vDevices' = [k \in DeviceKeys |->
                      IF k \in stays THEN [vDevices[k] EXCEPT !.bindings = Transferred(@, layout[k])]
                      ELSE IF k \in DOMAIN vNext.fresh
                      THEN [worker |-> vNext.fresh[k], paused |-> TRUE, bindings |-> Bindings(layout[k])]
                      ELSE Vacant]
               /\ vRetired' = vRetired \cup Of(Here \ stays)
               /\ vPins' = [e \in DOMAIN vPins |-> [vPins[e] EXCEPT !.safe = Safe(layout, e, @)]]
               /\ vGen' = IF vNext.replaces THEN vGen + 1 ELSE vGen
               /\ vNext' = NoNext
               /\ vChange' = NoChange
               /\ vAt' = "signal"
       /\ UNCHANGED <<vPlan, vAuto>>

\* The last part of each worker's commit.
SignalInstalls ==
    LET committed == {i \in Of(Here) : vWorkers[i].request.kind = "prepare"}
    IN /\ vAt = "signal"
       /\ vWorkers' = Signalled(committed, "install")
       /\ vAt' = "abort"
       /\ UNCHANGED <<vPlan, vDevices, vNext, vAuto, vChange, vRetired, vPins, vGen, vPanic>>

\* abort_sites, which a committed change passes with nothing to undo: unused new
\* owners are retired and what was fenced will run on with its live demand.
AbortSites ==
    /\ vAt = "abort"
    /\ IF vChange.kind = "none" THEN UNCHANGED <<vAuto, vNext, vChange, vRetired, vWorkers>>
       ELSE /\ vAuto' = TRUE
            /\ vNext' = NoNext
            /\ vChange' = NoChange
            /\ vRetired' = vRetired \cup {vNext.fresh[k] : k \in DOMAIN vNext.fresh}
            /\ vWorkers' = [i \in DOMAIN vWorkers |-> IF i \in Of(Halted) THEN Pause(vWorkers[i], FALSE) ELSE vWorkers[i]]
    /\ vAt' = "retire"
    /\ UNCHANGED <<vPlan, vDevices, vPins, vGen, vPanic>>

\* Drop for DeviceWorker, off control: close, and join.
Retire ==
    /\ vAt = "retire"
    /\ vWorkers' = Signalled(vRetired, "close")
    /\ vAt' = "join"
    /\ UNCHANGED <<vPlan, vDevices, vNext, vAuto, vChange, vRetired, vPins, vGen, vPanic>>

Joined ==
    /\ vAt = "join" /\ \A i \in vRetired : ~vWorkers[i].live
    /\ vRetired' = {}
    /\ vAt' = "resume"
    /\ UNCHANGED <<vPlan, vDevices, vNext, vAuto, vChange, vWorkers, vPins, vGen, vPanic>>

\* resume_sites until every device runs, or the deadline; polls go on trying.
ResumeSites(late) ==
    /\ vAt = "resume" /\ (late => Resumable # Halted)
    /\ vAuto' = TRUE
    /\ vDevices' = Resumed
    /\ vWorkers' = Released
    /\ vAt' = IF Resumable = Halted \/ late THEN "idle" ELSE "resume"
    /\ UNCHANGED <<vPlan, vNext, vChange, vRetired, vPins, vGen, vPanic>>

\* stop: the owners are taken out of control, closed and joined.
TakeSites ==
    /\ vAt = "quiet"
    /\ vRetired' = Of(Here)
    /\ vDevices' = [k \in DeviceKeys |-> Vacant]
    /\ vWorkers' = Signalled(Of(Here), "close")
    /\ vAt' = "stopped"
    /\ UNCHANGED <<vPlan, vNext, vAuto, vChange, vPins, vGen, vPanic>>

Endpoints == DOMAIN vPins
VNext ==
    \/ \E i \in DOMAIN vWorkers : Load(i) \/ \E ok \in BOOLEAN : Swap(i, ok) \/ Obey(i, ok) \/ Work(i, ok) \/ Write(i, ok)
    \/ \E due \in SUBSET vPlan.due : Poll(due) \/ Drain(due)
    \/ \E k \in DeviceKeys : \E i \in DOMAIN vDevices[k].bindings : Output(k, i)
    \/ BeginSiteReload \/ BeginShutdown \/ \E late \in BOOLEAN : Ready(late) \/ ResumeSites(late)
    \/ Stage \/ (\E ok \in BOOLEAN : Publish(ok)) \/ SignalInstalls
    \/ AbortSites \/ Retire \/ Joined \/ TakeSites

-----------------------------------------------------------------------------
(* Properties. *)

\* No assert or expect of the handoff can fail: a staged device has no operation
\* outstanding, an exchange finds its preparation, a reply finds a slot.
NoPanic == ~vPanic

\* An acknowledged fence is a fence: no ordinary write follows it, and both sides
\* use the same rings.
FenceHolds ==
    \A i \in DOMAIN vWorkers :
        LET w == vWorkers[i]
        IN w.live => /\ Acked(w) => w.at # "write"
                     /\ (Acked(w) \/ w.request.kind = "run") /\ vAt # "signal" => w.rings = w.reads

\* An endpoint is open in one worker at a time, through every replacement.
OneOwner ==
    \A i, j \in DOMAIN vWorkers :
        \A a \in DOMAIN vWorkers[i].open, b \in DOMAIN vWorkers[j].open :
            vWorkers[i].settings[a].ep = vWorkers[j].settings[b].ep => i = j /\ a = b

\* An output that no binding owns any more was left, and stays, at its safe level.
SafeAtRest ==
    \A e \in Endpoints :
        (\A k \in DeviceKeys : \A i \in DOMAIN vDevices[k].bindings : vDevices[k].bindings[i].ep # e)
            => vPins[e].level \in {2, vPins[e].safe}

\* What a reply reports submitted is what its operation wrote.
AttemptMatches ==
    \A k \in Here :
        LET w == W(k)
        IN \A op \in {w.requests[j] : j \in DOMAIN w.requests} \cup {w.replies[j] : j \in DOMAIN w.replies}
                    \cup {w.op[j] : j \in DOMAIN w.op} :
               op.gen = vGen => op.demand = vDevices[k].bindings[op.index].attempt

SafeSites == NoPanic /\ FenceHolds /\ OneOwner /\ SafeAtRest /\ AttemptMatches
=============================================================================
