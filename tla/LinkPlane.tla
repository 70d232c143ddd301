----------------------------- MODULE LinkPlane -----------------------------
(* The link plane of one station: the hub's peers and retained retries, the *)
(* configured-route scheduler with its replacement windows, the dials that  *)
(* run outside the serialized control owner, and the physical peers of the  *)
(* product host.  Every action is one task of the control executor (or one  *)
(* step of the environment); what a task captured and uses later - a dial's *)
(* reservation, a retry token, the peers to detach - is in `dials` and      *)
(* `effects`.  A peer's mode, its text other than topology, and elapsed     *)
(* time are data; a retry that waits for its backoff is due when the        *)
(* environment says so.                                                     *)
EXTENDS Integers, FiniteSets, Sequences, SequencesExt, FiniteSetsExt

CONSTANTS
    Remotes,       \* peers this station may be linked with
    Plans       \* [configs, max]: the configurations that successive reloads
                   \* install, and how many dial tokens, operator commands, topology
                   \* texts, ended or incoming transports and window boundaries a
                   \* behaviour may contain

VARIABLES
    plan,    \* the member of Plans this behaviour goes through
    hub,        \* LinkManager: peers, retries, generation, group selections
    sched,      \* LinkScheduler: configuration, routes, windows, generation
    dials,      \* dials in flight, each with the tokens it captured
    phys,       \* Host::peers, in order
    effects,    \* physical detaches whose task has not run yet
    detaching,  \* Runtime::detaching
    engine,     \* revision, reloading, active generation, accepting
    open,       \* which windows the civil clock is inside
    used        \* how often each bounded step was taken

vars == <<plan, hub, sched, dials, phys, effects, detaching, engine, open, used>>

NoGroup == [label |-> 0, born |-> 0, slot |-> 0]
NoEvidence == {"none"}
NoReservation == [gen |-> 0, route |-> 0, nonce |-> 0]

Named(seq, n) == {i \in DOMAIN seq : seq[i].n = n}
Live(h) == {i \in DOMAIN h.peers : ~h.peers[i].ended}
First(S) == IF S = {} THEN 0 ELSE Min(S)

-----------------------------------------------------------------------------
(* LinkManager *)

(* The group views held by published peers, then by retries. *)
Members(h) ==
    SelectSeq([i \in DOMAIN h.peers |-> h.peers[i].group] \o
              [i \in DOMAIN h.retries |-> h.retries[i].group], LAMBDA g : g # NoGroup)

(* Each group's best live slot goes to the selection of its first member. *)
Refresh(h) ==
    LET all == Members(h)
        chosen == {all[i] : i \in {j \in DOMAIN all :
                                     \A k \in 1 .. j - 1 : all[k].label # all[j].label}}
        best(label) == LET slots == {h.peers[i].group.slot : i \in
                                       {j \in Live(h) : h.peers[j].group.label = label}}
                       IN  IF slots = {} THEN 0 ELSE Min(slots)
    IN  [h EXCEPT !.sel = [o \in DOMAIN @ |->
            IF \E g \in chosen : <<g.label, g.born>> = o THEN best(o[1]) ELSE @[o]]]

Reaches(h, n, paused) ==
    \/ Named(h.peers, n) # {}
    \/ \E i \in Live(h) : n \in h.peers[i].routes
    \/ \E i \in Named(h.retries, n) : paused \/ ~h.retries[i].paused

(* Mutant: only a direct peer of that name refuses. *)
RefusedDirect(h, n, retries, group) ==
    \/ Named(h.peers, n) # {}
    \/ retries /\ Named(h.retries, n) # {}

(* check_group: a peer, an advertised route (unless a group admits it) or a  *)
(* retained retry of that name refuses an admission.                          *)
Refused(h, n, retries, group) ==
    \/ Named(h.peers, n) # {}
    \/ group = NoGroup /\ \E i \in Live(h) : n \in h.peers[i].routes
    \/ retries /\ Named(h.retries, n) # {}

Published(h, n, permanent, group) ==
    Refresh([h EXCEPT !.peers = Append(@, [n |-> n, permanent |-> permanent, ended |-> FALSE,
                                           routes |-> {}, group |-> group])])

NewRetry(n, automatic, paused, group, blocked) ==
    [n |-> n, automatic |-> automatic, paused |-> paused, due |-> TRUE, attempt |-> 0,
     blocked |-> blocked, group |-> group]

Evidence(h, n, group) ==
    IF group # NoGroup
    THEN {h.peers[i].n : i \in Named(h.peers, n)}
    ELSE {h.peers[i].n : i \in {j \in Live(h) : n \in h.peers[j].routes}}

(* release_changed_topology_blocks *)
Released(h) ==
    [h EXCEPT !.retries = [i \in DOMAIN @ |->
        IF @[i].blocked # NoEvidence /\ @[i].blocked # Evidence(h, @[i].n, @[i].group)
        THEN [@[i] EXCEPT !.blocked = NoEvidence, !.attempt = 0, !.due = TRUE]
        ELSE @[i]]]

Ended(h, n) ==
    IF Named(h.peers, n) = {} THEN h
    ELSE Refresh([h EXCEPT !.peers[First(Named(h.peers, n))].ended = TRUE])

RejectLoop(h, n) ==
    IF Named(h.peers, n) = {} THEN h
    ELSE Ended([h EXCEPT !.peers[First(Named(h.peers, n))].permanent = FALSE], n)

Reclaimed(h, n) ==
    LET i == First({j \in Named(h.peers, n) : h.peers[j].ended})
    IN  IF i = 0 THEN h
        ELSE Refresh([h EXCEPT
                !.peers = RemoveAt(@, i),
                !.retries = IF h.peers[i].permanent
                            THEN Append(@, NewRetry(n, TRUE, FALSE, h.peers[i].group, NoEvidence))
                            ELSE @])

RetainRetry(h, n, group) ==
    Refresh([h EXCEPT !.retries = Append(@, NewRetry(n, TRUE, FALSE, group, NoEvidence))])

RetainBlocked(h, n, group) ==
    LET i == First(Named(h.retries, n))
        blocked == Evidence(h, n, group)
    IN  IF i # 0
        THEN [h EXCEPT !.retries[i] =
                [@ EXCEPT !.automatic = TRUE, !.paused = FALSE, !.attempt = 0,
                          !.blocked = blocked, !.group = group]]
        ELSE Refresh([h EXCEPT !.retries = Append(@, NewRetry(n, TRUE, FALSE, group, blocked))])

(* The topology a peer reports replaces what it reported before. *)
UpdateTopology(h, n, routes) ==
    LET i == First(Named(h.peers, n))
        changed == [h EXCEPT !.peers[i].routes = routes]
    IN  IF h.peers[i].routes = routes THEN h ELSE Released(changed)

Looped(h, n, routes) ==
    /\ h.peers[First(Named(h.peers, n))].group = NoGroup
    /\ \E j \in Live(h) : h.peers[j].n # n /\ h.peers[j].n \in routes

DueRetries(h) ==
    {i \in DOMAIN h.retries : /\ ~h.retries[i].paused /\ h.retries[i].due
                              /\ h.retries[i].blocked = NoEvidence
                              /\ h.retries[i].attempt = 0}

(* Mutant: the retry of that name is taken whatever attempt holds it. *)
HeldByName(h, d) == First(Named(h.retries, d.n))

(* The retry a dial's token still holds. *)
Held(h, d) == First({i \in Named(h.retries, d.n) : h.retries[i].attempt = d.token})

(* publish_retry's final gate, and what it leaves behind. *)
PublishRetry(h, d) ==
    LET i == Held(h, d)
        stale == d.hubGen # h.gen \/ i = 0 \/ (i # 0 /\ h.retries[i].paused)
    IN  IF stale THEN [hub |-> h, attached |-> FALSE]
        ELSE IF Refused(h, d.n, FALSE, h.retries[i].group)
             THEN [hub |-> [h EXCEPT !.retries[i].blocked = Evidence(h, d.n, h.retries[i].group)],
                   attached |-> FALSE]
             ELSE [hub |-> Published(h, d.n, h.retries[i].automatic, h.retries[i].group),
                   attached |-> TRUE]

(* Mutant: a failed automatic retry is dropped like a manual one. *)
FinishRetryDrops(h, d, success) ==
    LET i == Held(h, d)
    IN  CASE i = 0 -> h
          [] i # 0 /\ h.retries[i].blocked # NoEvidence -> [h EXCEPT !.retries[i].attempt = 0]
          [] i # 0 /\ h.retries[i].blocked = NoEvidence -> [h EXCEPT !.retries = RemoveAt(@, i)]

(* finish_retry releases the token: the intent is met, blocked, or backs off. *)
FinishRetry(h, d, success) ==
    LET i == Held(h, d)
    IN  CASE i = 0 -> h
          [] i # 0 /\ h.retries[i].blocked # NoEvidence -> [h EXCEPT !.retries[i].attempt = 0]
          [] i # 0 /\ h.retries[i].blocked = NoEvidence ->
               IF success \/ d.hubGen # h.gen \/ Named(h.peers, d.n) # {} \/ ~h.retries[i].automatic
               THEN [h EXCEPT !.retries = RemoveAt(@, i)]
               ELSE [h EXCEPT !.retries[i] =
                       [@ EXCEPT !.attempt = 0, !.due = @ /\ h.retries[i].paused]]

(* resume_retries, or only the permanent ones. *)
Resumed(h, onlyAutomatic) ==
    [h EXCEPT !.retries = [i \in DOMAIN @ |->
        IF onlyAutomatic => @[i].automatic
        THEN [@[i] EXCEPT !.paused = FALSE, !.due = TRUE, !.blocked = NoEvidence]
        ELSE @[i]]]

ResumeOne(h, n) ==
    LET i == First({j \in Named(h.retries, n) : h.retries[j].automatic /\ h.retries[j].paused})
    IN  [h EXCEPT !.retries[i] =
           [@ EXCEPT !.paused = FALSE, !.due = TRUE, !.attempt = 0, !.blocked = NoEvidence]]

Resumable(h, n) == \E i \in Named(h.retries, n) : h.retries[i].automatic /\ h.retries[i].paused

InvalidateGeneration(h) ==
    [h EXCEPT !.gen = @ + 1,
              !.retries = [i \in DOMAIN @ |->
                 [@[i] EXCEPT !.attempt = 0, !.due = TRUE, !.blocked = NoEvidence]]]

Owns(h, n) ==
    \/ \E i \in Live(h) : h.peers[i].n = n /\ h.peers[i].permanent
    \/ \E i \in Named(h.retries, n) : h.retries[i].automatic

DisconnectMode(h, n, permanent) ==
    Refresh([h EXCEPT !.peers =
        SelectSeq(@, LAMBDA p : p.n # n \/ p.permanent # permanent)])

DisconnectPermanent(h, n) ==
    DisconnectMode([h EXCEPT !.retries = SelectSeq(@, LAMBDA r : r.n # n \/ ~r.automatic)],
                   n, TRUE)

(* Unpublish the chosen peers and keep their intent, paused. *)
DisconnectAll(h, onlyPermanent) ==
    LET gone == SelectSeq(h.peers, LAMBDA p : onlyPermanent => p.permanent)
        paused == [i \in DOMAIN h.retries |->
                     IF onlyPermanent
                     THEN IF h.retries[i].automatic
                          THEN [h.retries[i] EXCEPT !.paused = TRUE, !.attempt = 0]
                          ELSE h.retries[i]
                     ELSE [h.retries[i] EXCEPT !.paused = TRUE]]
    IN  Refresh([h EXCEPT
           !.peers = SelectSeq(@, LAMBDA p : onlyPermanent /\ ~p.permanent),
           !.retries = paused \o [i \in DOMAIN gone |->
                          NewRetry(gone[i].n, gone[i].permanent, TRUE, gone[i].group, NoEvidence)]])

DisconnectTemporary(h) ==
    Refresh([h EXCEPT !.peers = SelectSeq(@, LAMBDA p : p.permanent)])

(* Names that a disconnect unpublished. *)
Gone(h, g) == {h.peers[i].n : i \in DOMAIN h.peers} \ {g.peers[i].n : i \in DOMAIN g.peers}

-----------------------------------------------------------------------------
(* LinkScheduler *)

Config(s) == plan.configs[s.cfg]
Spec0(s, r) == Config(s).routes[r]
SameRoute(a, b) == a.n = b.n /\ a.permanent = b.permanent /\ a.label = b.label

IdleRoute == [issued |-> FALSE, desired |-> FALSE, paused |-> FALSE, pending |-> 0]
ColdWindow == [fresh |-> TRUE, was |-> FALSE, waiting |-> FALSE]

(* LinkScheduler::new: a route keeps what its predecessor had issued and     *)
(* whether it was held; an unchanged window keeps its grace.                 *)
Candidate(s, cfg) ==
    LET old == plan.configs[s.cfg]
        new == plan.configs[cfg]
        prior(r) == First({q \in DOMAIN old.routes : SameRoute(old.routes[q], new.routes[r])})
        same(w) == First({v \in DOMAIN old.windows :
                            /\ {old.routes[q] : q \in old.windows[v].routes} =
                                 {new.routes[q] : q \in new.windows[w].routes}
                            /\ {old.routes[q] : q \in old.windows[v].replaced} =
                                 {new.routes[q] : q \in new.windows[w].replaced}})
    IN  [cfg |-> cfg, gen |-> s.gen + 1,
         routes |-> [r \in DOMAIN new.routes |->
            [IdleRoute EXCEPT !.desired = new.routes[r].permanent,
                              !.issued = prior(r) # 0 /\ s.routes[prior(r)].issued,
                              !.paused = prior(r) # 0 /\ s.routes[prior(r)].paused]],
         windows |-> [w \in DOMAIN new.windows |->
            IF same(w) = 0 THEN ColdWindow ELSE s.windows[same(w)]]]

RemovedRoutes(s, cfg) ==
    {Spec0(s, r).n : r \in {q \in DOMAIN s.routes :
        /\ s.routes[q].issued
        /\ \A p \in DOMAIN plan.configs[cfg].routes : ~SameRoute(plan.configs[cfg].routes[p], Spec0(s, q))}}

(* One window's step: `quiet` says its inactivity interval has run out, and  *)
(* at a cold start `grace` that the window ended too recently to be quiet.   *)
WindowStep(w, inside, quiet, grace) ==
    LET started == IF w.fresh THEN [w EXCEPT !.fresh = FALSE, !.waiting = ~inside /\ grace] ELSE w
        crossed == CASE inside -> [started EXCEPT !.was = TRUE, !.waiting = FALSE]
                     [] ~inside /\ started.was -> [started EXCEPT !.was = FALSE, !.waiting = TRUE]
                     [] OTHER -> started
    IN  [crossed EXCEPT !.waiting = @ /\ ~quiet]

(* tick: what the hub no longer owns is not issued; windows that are inside  *)
(* or waiting ask for their routes and suppress the ones they replace, in    *)
(* order.                                                                    *)
Ticked(s, h, quiet, grace) ==
    LET windows == [w \in DOMAIN s.windows |->
                      WindowStep(s.windows[w], open[w], quiet, grace)]
        asking == {w \in DOMAIN windows : open[w] \/ windows[w].waiting}
        votes(r) == {w \in asking : r \in Config(s).windows[w].routes \cup
                                        Config(s).windows[w].replaced}
        desired(r) == IF votes(r) = {} THEN Spec0(s, r).permanent
                      ELSE r \notin Config(s).windows[Max(votes(r))].replaced
    IN  [s EXCEPT !.windows = windows,
                  !.routes = [r \in DOMAIN @ |->
                     [@[r] EXCEPT !.desired = desired(r),
                                  !.issued = @ /\ Owns(h, Spec0(s, r).n)]]]

Withdrawing(s) ==
    {r \in DOMAIN s.routes : ~s.routes[r].paused /\ s.routes[r].issued /\ ~s.routes[r].desired}

Attaching(s) ==
    {r \in DOMAIN s.routes : ~s.routes[r].paused /\ ~s.routes[r].issued /\ s.routes[r].desired}

(* next_operation: withdrawals before any attachment. *)
NextOperation(s) ==
    First({r \in IF Withdrawing(s) # {} THEN Withdrawing(s) ELSE Attaching(s) :
             s.routes[r].pending = 0})

Reserved(s, res) ==
    /\ res.gen = s.gen
    /\ res.route \in DOMAIN s.routes
    /\ s.routes[res.route].pending = res.nonce

(* current, for an attachment. *)
Current(s, res) == Reserved(s, res) /\ s.routes[res.route].desired

Complete(s, res, accepted) ==
    IF ~Reserved(s, res) THEN s
    ELSE [s EXCEPT !.routes[res.route] =
            [@ EXCEPT !.pending = 0, !.issued = @ \/ (accepted /\ Current(s, res))]]

Paused(s) == [s EXCEPT !.routes = [r \in DOMAIN @ |-> [@[r] EXCEPT !.paused = TRUE, !.pending = 0]]]
Unpaused(s) == [s EXCEPT !.routes = [r \in DOMAIN @ |-> [@[r] EXCEPT !.paused = FALSE]]]

Undesired(s) == {r \in DOMAIN s.routes : ~s.routes[r].desired /\ s.routes[r].issued}

WithdrawUndesired(s) ==
    [s EXCEPT !.routes = [r \in DOMAIN @ |->
        IF r \in Undesired(s) THEN [@[r] EXCEPT !.issued = FALSE, !.pending = 0] ELSE @[r]]]

(* group_member: the view of the group that currently wants this peer.  Its  *)
(* selection is the one its members were given when they last changed.       *)
Born(cfg, label) ==
    LET members(c) == {<<plan.configs[c].routes[r].n, plan.configs[c].routes[r].slot>> :
                         r \in {q \in DOMAIN plan.configs[c].routes : plan.configs[c].routes[q].label = label}}
    IN  Min({c \in 1 .. cfg : \A k \in c .. cfg : members(k) = members(cfg)})

GroupMember(s, n) ==
    LET r == First({q \in DOMAIN s.routes :
                      /\ Spec0(s, q).n = n /\ Spec0(s, q).label # 0
                      /\ s.routes[q].desired /\ ~s.routes[q].paused})
    IN  IF r = 0 THEN NoGroup
        ELSE [label |-> Spec0(s, r).label, born |-> Born(s.cfg, Spec0(s, r).label),
              slot |-> Spec0(s, r).slot]

-----------------------------------------------------------------------------
(* Host: physical peers.  detach stops the first one of that name, ends and  *)
(* reclaims the hub's peer of that name, and clears the detach it confirms.  *)

Detached(p, n) == IF Named(p, n) = {} THEN p ELSE RemoveAt(p, First(Named(p, n)))
DetachedHub(h, n) == Reclaimed(Ended(h, n), n)

DetachEach(h, p, names) ==
    FoldLeft(LAMBDA acc, n : [hub |-> DetachedHub(acc.hub, n), phys |-> Detached(acc.phys, n)],
             [hub |-> h, phys |-> p], names)

EndedNames(p) == [i \in DOMAIN SelectSeq(p, LAMBDA q : q.over) |->
                    SelectSeq(p, LAMBDA q : q.over)[i].n]

Tokens == used.token < plan.max.token
Token == used.token + 1
Counted(what) == used' = [used EXCEPT ![what] = @ + 1]

Accepting == engine.accepting /\ ~engine.reloading
IsCurrent(d) == Accepting /\ d.rev = engine.rev

NewDial(kind, n, permanent, group, res) ==
    [kind |-> kind, n |-> n, permanent |-> permanent, group |-> group, res |-> res,
     token |-> Token, hubGen |-> hub.gen, work |-> engine.active, rev |-> engine.rev,
     void |-> "no"]

Ask(names) == effects' = Append(effects, [names |-> SetToSeq(names), rev |-> engine.rev])

(* Dials whose intent a command withdraws ("dead") or holds ("held"). *)
Void(D, kinds, why) ==
    {IF d.kind \in kinds /\ d.void # "dead" THEN [d EXCEPT !.void = why] ELSE d : d \in D}
Unhold(D) == {IF d.void = "held" THEN [d EXCEPT !.void = "no"] ELSE d : d \in D}

-----------------------------------------------------------------------------
(* The control executor's tasks *)

(* Host::pump: ended transports are detached, in order. *)
Pump ==
    /\ engine.accepting
    /\ EndedNames(phys) # <<>>
    /\ LET d == DetachEach(hub, phys, EndedNames(phys))
       IN  /\ hub' = d.hub
           /\ phys' = d.phys
    /\ detaching' = detaching \ ToSet(EndedNames(phys))
    /\ UNCHANGED <<plan, sched, dials, effects, engine, open, used>>

(* The once-a-second pump also refreshes the windows. *)
Tick ==
    /\ Accepting
    /\ \E quiet, grace \in BOOLEAN :
         LET d == DetachEach(hub, phys, EndedNames(phys))
         IN  /\ hub' = d.hub
             /\ phys' = d.phys
             /\ sched' = Ticked(sched, d.hub, quiet, grace)
    /\ detaching' = detaching \ ToSet(EndedNames(phys))
    /\ UNCHANGED <<plan, dials, effects, engine, open, used>>

NextLink ==
    LET r == NextOperation(sched)
        n == Spec0(sched, r).n
    IN  /\ Accepting
        /\ detaching = {}
        /\ r # 0
        /\ \/ /\ Withdrawing(sched) # {}
              /\ hub' = DisconnectPermanent(hub, n)
              /\ sched' = [sched EXCEPT !.routes[r].issued = FALSE]
              /\ detaching' = {n}
              /\ Ask({n})
              /\ dials' = {IF d.n = n /\ d.kind = "retry" THEN [d EXCEPT !.void = "dead"] ELSE d :
                              d \in dials}
              /\ UNCHANGED used
           \/ /\ Withdrawing(sched) = {}
              /\ Tokens
              /\ Counted("token")
              /\ sched' = [sched EXCEPT !.routes[r].pending = Token]
              /\ dials' = dials \cup {NewDial("scheduled", n, TRUE,
                             IF Spec0(sched, r).label = 0 THEN NoGroup ELSE GroupMember(sched, n),
                             [gen |-> sched.gen, route |-> r, nonce |-> Token])}
              /\ UNCHANGED <<hub, detaching, effects>>
        /\ UNCHANGED <<plan, phys, engine, open>>

TakeRetry ==
    LET i == First(DueRetries(hub))
    IN  /\ Accepting
        /\ i # 0
        /\ Tokens
        /\ Counted("token")
        /\ hub' = [hub EXCEPT !.retries[i].attempt = Token]
        /\ dials' = dials \cup {NewDial("retry", hub.retries[i].n, hub.retries[i].automatic,
                                       NoGroup, NoReservation)}
        /\ UNCHANGED <<plan, sched, phys, effects, detaching, engine, open>>

(* Publish the answered transport.  Preparing it may fail before or after it *)
(* joins the host's peers; attach_peer detaches a peer that had joined, and   *)
(* reject_peer detaches either, its permanent intent kept as a retry.         *)
AttachPeer(h, s, n) ==
    LET joined == Append(phys, [n |-> n, over |-> FALSE, group |-> GroupMember(s, n)])
    IN  \/ /\ hub' = h
           /\ phys' = joined
           /\ engine' = [engine EXCEPT !.active = @ + 1]
           /\ UNCHANGED detaching
        \/ /\ hub' = DetachedHub(h, n) /\ phys' = Detached(phys, n)
           /\ detaching' = detaching \ {n}
           /\ UNCHANGED engine
        \/ /\ hub' = DetachedHub(DetachedHub(h, n), n) /\ phys' = Detached(Detached(joined, n), n)
           /\ detaching' = detaching \ {n}
           /\ UNCHANGED engine

NotAttached(h) == hub' = h /\ UNCHANGED <<phys, engine, detaching>>

(* finish_connect_at: a slow dial is checked against the windows, the        *)
(* generation, the access policy and the topology of this moment.            *)
FinishConnect(d) ==
    /\ d.kind # "retry"
    /\ engine.accepting
    /\ dials' = dials \ {d}
    /\ IF ~IsCurrent(d)
       THEN /\ sched' = Complete(sched, d.res, FALSE)
            /\ NotAttached(hub)
       ELSE \E answered, clock, quiet, grace \in BOOLEAN :
              LET calendar == d.res # NoReservation /\ Config(sched).windows # <<>>
                  s == IF calendar /\ clock THEN Ticked(sched, hub, quiet, grace) ELSE sched
                  stale == \/ d.work # engine.active
                           \/ d.res # NoReservation /\ ~Current(s, d.res)
                           \/ calendar /\ ~clock
                  refused == Refused(hub, d.n, TRUE, d.group)
                  denied == d.n \in Config(sched).denied
              IN  CASE stale \/ denied ->
                         sched' = Complete(s, d.res, FALSE) /\ NotAttached(hub)
                    [] ~stale /\ ~denied /\ answered /\ ~refused ->
                         /\ sched' = Complete(s, d.res, TRUE)
                         /\ AttachPeer(Published(hub, d.n, d.permanent, d.group), s, d.n)
                    [] ~stale /\ ~denied /\ answered /\ refused ->
                         /\ sched' = Complete(s, d.res, d.permanent)
                         /\ NotAttached(IF d.permanent THEN RetainBlocked(hub, d.n, d.group) ELSE hub)
                    [] ~stale /\ ~denied /\ ~answered ->
                         /\ sched' = Complete(s, d.res, d.permanent /\ ~refused)
                         /\ NotAttached(IF d.permanent /\ ~refused
                                        THEN RetainRetry(hub, d.n, d.group) ELSE hub)
    /\ UNCHANGED <<plan, effects, open, used>>

(* finish_retry: publish a still-held token, then release it. *)
FinishRetryDial(d) ==
    /\ d.kind = "retry"
    /\ engine.accepting
    /\ dials' = dials \ {d}
    /\ \E answered \in BOOLEAN :
         LET may == IsCurrent(d) /\ d.work = engine.active /\ d.n \notin Config(sched).denied
             out == IF may /\ answered THEN PublishRetry(hub, d)
                    ELSE [hub |-> hub, attached |-> FALSE]
             h == FinishRetry(out.hub, d, out.attached)
         IN  IF out.attached THEN AttachPeer(h, sched, d.n) ELSE NotAttached(h)
    /\ UNCHANGED <<plan, sched, effects, open, used>>

(* The completion of a dial is itself a task: a full executor, or a reload   *)
(* that begins before it runs, drops it with the tokens it holds.            *)
DialLost(d) ==
    /\ d \in dials
    /\ dials' = dials \ {d}
    /\ UNCHANGED <<plan, hub, sched, phys, effects, detaching, engine, open, used>>

(* The physical half of a disconnect, in a task of its own. *)
RunEffect ==
    /\ effects # <<>>
    /\ effects' = Tail(effects)
    /\ IF Accepting /\ Head(effects).rev = engine.rev
       THEN LET d == DetachEach(hub, phys, Head(effects).names)
            IN  /\ hub' = d.hub
                /\ phys' = d.phys
                /\ detaching' = detaching \ ToSet(Head(effects).names)
       ELSE UNCHANGED <<hub, phys, detaching>>
    /\ UNCHANGED <<plan, sched, dials, engine, open, used>>

Incoming(n) ==
    /\ Accepting
    /\ used.ends < plan.max.ends
    /\ Counted("ends")
    /\ n \notin Config(sched).denied
    /\ ~Refused(hub, n, TRUE, GroupMember(sched, n))
    /\ AttachPeer(Published(hub, n, FALSE, GroupMember(sched, n)), sched, n)
    /\ UNCHANGED <<plan, sched, dials, effects, open>>

(* peer_text: topology from a live peer; a proven loop ends that peer without *)
(* keeping its permanent intent.                                             *)
Topology(n, routes) ==
    /\ engine.accepting
    /\ used.text < plan.max.text
    /\ Counted("text")
    /\ \E i \in DOMAIN phys : phys[i].n = n /\ ~phys[i].over
    /\ \E i \in Live(hub) : hub.peers[i].n = n
    /\ IF Looped(hub, n, routes)
       THEN /\ hub' = DetachedHub(RejectLoop(UpdateTopology(hub, n, routes), n), n)
            /\ phys' = Detached(phys, n)
            /\ detaching' = detaching \ {n}
       ELSE /\ hub' = UpdateTopology(hub, n, routes)
            /\ UNCHANGED <<phys, detaching>>
    /\ UNCHANGED <<plan, sched, dials, effects, engine, open>>

-----------------------------------------------------------------------------
(* Operator commands *)

Commanded == Accepting /\ used.command < plan.max.command

Connect(n, permanent) ==
    /\ Commanded
    /\ n \notin Config(sched).denied
    /\ \/ /\ permanent /\ ~Reaches(hub, n, FALSE) /\ Resumable(hub, n)
          /\ Counted("command")
          /\ hub' = ResumeOne(hub, n)
          /\ dials' = {IF d.n = n /\ d.kind = "retry" THEN [d EXCEPT !.void = "dead"] ELSE d :
                          d \in dials}
       \/ /\ ~Reaches(hub, n, TRUE)
          /\ Tokens
          /\ used' = [used EXCEPT !.command = @ + 1, !.token = @ + 1]
          /\ dials' = dials \cup {NewDial("manual", n, permanent, NoGroup, NoReservation)}
          /\ UNCHANGED hub
    /\ UNCHANGED <<plan, sched, phys, effects, detaching, engine, open>>

Disconnect(n, permanent) ==
    LET h == IF permanent THEN DisconnectPermanent(hub, n) ELSE DisconnectMode(hub, n, FALSE)
    IN  /\ Commanded
        /\ Counted("command")
        /\ h # hub
        /\ hub' = h
        /\ detaching' = detaching \cup {n}
        /\ Ask({n})
        /\ dials' = IF permanent
                    THEN {IF d.n = n /\ d.kind = "retry" /\ d.permanent
                          THEN [d EXCEPT !.void = "dead"] ELSE d : d \in dials}
                    ELSE dials
        /\ UNCHANGED <<plan, sched, phys, engine, open>>

DisconnectEvery(onlyPermanent) ==
    LET h == DisconnectAll(hub, onlyPermanent)
    IN  /\ Commanded
        /\ Counted("command")
        /\ sched' = Paused(sched)
        /\ hub' = h
        /\ detaching' = detaching \cup Gone(hub, h)
        /\ Ask(Gone(hub, h))
        /\ dials' = LET all == Void(dials, {"scheduled"}, "dead")
                    IN  IF onlyPermanent
                        THEN {IF d.kind = "retry" /\ d.permanent THEN [d EXCEPT !.void = "dead"]
                              ELSE d : d \in all}
                        ELSE Void(all, {"retry"}, "held")
        /\ UNCHANGED <<plan, phys, engine, open>>

DisconnectNonPermanent ==
    /\ Commanded
    /\ Counted("command")
    /\ hub' = DisconnectTemporary(hub)
    /\ detaching' = detaching \cup Gone(hub, hub')
    /\ Ask(Gone(hub, hub'))
    /\ UNCHANGED <<plan, sched, dials, phys, engine, open>>

(* reconnect-all refreshes the windows first; both forms withdraw what the   *)
(* schedule no longer wants before they resume retained intent.              *)
Reconnect(onlyPermanent) ==
    /\ Commanded
    /\ Counted("command")
    /\ \E quiet, grace \in BOOLEAN :
         LET s == Unpaused(IF onlyPermanent THEN sched ELSE Ticked(sched, hub, quiet, grace))
             names == {Spec0(s, r).n : r \in Undesired(s)}
             h == FoldSet(LAMBDA n, acc : DisconnectPermanent(acc, n), hub, names)
         IN  /\ sched' = WithdrawUndesired(s)
             /\ hub' = Resumed(h, onlyPermanent)
             /\ detaching' = detaching \cup names
             /\ IF names = {} THEN UNCHANGED effects ELSE Ask(names)
             /\ dials' = {IF d.n \in names /\ d.kind = "retry" THEN [d EXCEPT !.void = "dead"]
                          ELSE d : d \in Unhold(dials)}
    /\ UNCHANGED <<plan, phys, engine, open>>

-----------------------------------------------------------------------------
(* Reload and stop *)

BeginReload ==
    /\ Accepting
    /\ sched.cfg < Len(plan.configs)
    /\ used.reload < Len(plan.configs)
    /\ Counted("reload")
    /\ engine' = [engine EXCEPT !.reloading = TRUE, !.rev = @ + 1]
    /\ dials' = Void(dials, {"scheduled", "manual", "retry"}, "dead")
    /\ UNCHANGED <<plan, hub, sched, phys, effects, detaching, open>>

EndReload ==
    /\ engine.reloading
    /\ \/ LET cfg == sched.cfg + 1
              names == RemovedRoutes(sched, cfg)
              withdrawn == FoldSet(LAMBDA n, acc : DisconnectPermanent(acc, n), hub, names)
              d == DetachEach(InvalidateGeneration(withdrawn), phys, SetToSeq(names))
          IN  /\ hub' = d.hub
              /\ phys' = d.phys
              /\ detaching' = detaching \ names
              /\ sched' = Candidate(sched, cfg)
              /\ engine' = [engine EXCEPT !.reloading = FALSE, !.active = @ + 1]
       \/ /\ engine' = [engine EXCEPT !.reloading = FALSE]
          /\ UNCHANGED <<hub, phys, detaching, sched>>
    /\ UNCHANGED <<plan, dials, effects, open, used>>

Stop ==
    /\ engine.accepting
    /\ engine' = [engine EXCEPT !.accepting = FALSE, !.rev = @ + 1]
    /\ hub' = [InvalidateGeneration(hub) EXCEPT !.peers = <<>>, !.retries = <<>>]
    /\ phys' = <<>>
    /\ detaching' = {}
    /\ UNCHANGED <<plan, sched, dials, effects, open, used>>

-----------------------------------------------------------------------------
(* The environment *)

SessionEnds(i) ==
    /\ used.ends < plan.max.ends
    /\ Counted("ends")
    /\ ~phys[i].over
    /\ phys' = [phys EXCEPT ![i].over = TRUE]
    /\ UNCHANGED <<plan, hub, sched, dials, effects, detaching, engine, open>>

RetryDue(i) ==
    /\ ~hub.retries[i].due
    /\ hub' = [hub EXCEPT !.retries[i].due = TRUE]
    /\ UNCHANGED <<plan, sched, dials, phys, effects, detaching, engine, open, used>>

ClockTurns(w) ==
    /\ used.turn < plan.max.turn
    /\ Counted("turn")
    /\ open' = [open EXCEPT ![w] = ~@]
    /\ UNCHANGED <<plan, hub, sched, dials, phys, effects, detaching, engine>>

-----------------------------------------------------------------------------

Labels == UNION {{plan.configs[c].routes[r].label : r \in DOMAIN plan.configs[c].routes} :
                    c \in DOMAIN plan.configs} \ {0}

Init ==
    /\ plan \in Plans
    /\ hub = [peers |-> <<>>, retries |-> <<>>, gen |-> 1,
              sel |-> [o \in Labels \X DOMAIN plan.configs |-> 0]]
    /\ sched = [cfg |-> 1, gen |-> 1,
                routes |-> [r \in DOMAIN plan.configs[1].routes |->
                              [IdleRoute EXCEPT !.desired = plan.configs[1].routes[r].permanent]],
                windows |-> [w \in DOMAIN plan.configs[1].windows |-> ColdWindow]]
    /\ dials = {}
    /\ phys = <<>>
    /\ effects = <<>>
    /\ detaching = {}
    /\ engine = [rev |-> 1, reloading |-> FALSE, active |-> 1, accepting |-> TRUE]
    /\ open = [w \in 1 .. 1 |-> FALSE]
    /\ used = [token |-> 0, command |-> 0, text |-> 0, ends |-> 0, turn |-> 0, reload |-> 0]

Next ==
    \/ Pump \/ Tick \/ NextLink \/ TakeRetry \/ RunEffect
    \/ \E d \in dials : FinishConnect(d) \/ FinishRetryDial(d) \/ DialLost(d)
    \/ \E n \in Remotes : Incoming(n) \/ \E R \in SUBSET (Remotes \ {n}) : Topology(n, R)
    \/ \E n \in Remotes, p \in BOOLEAN : Connect(n, p) \/ Disconnect(n, p)
    \/ \E p \in BOOLEAN : DisconnectEvery(p) \/ Reconnect(p)
    \/ DisconnectNonPermanent
    \/ BeginReload \/ EndReload \/ Stop
    \/ \E i \in DOMAIN phys : SessionEnds(i)
    \/ \E i \in DOMAIN hub.retries : RetryDue(i)
    \/ \E w \in DOMAIN open : w \in DOMAIN Config(sched).windows /\ ClockTurns(w)

Spec == Init /\ [][Next]_vars

-----------------------------------------------------------------------------

GroupViews == [label : Labels \cup {0}, born : 0 .. Len(plan.configs), slot : 0 .. 4]

(* Types of the hub, the scheduler, the physical peers and the dials; no two *)
(* published peers share a name, whatever dial, retry or incoming call won.  *)
TypeOK ==
    /\ plan \in Plans
    /\ \A i \in DOMAIN hub.peers : hub.peers[i] \in
         [n : Remotes, permanent : BOOLEAN, ended : BOOLEAN, routes : SUBSET Remotes,
          group : GroupViews]
    /\ \A i \in DOMAIN hub.retries : hub.retries[i] \in
         [n : Remotes, automatic : BOOLEAN, paused : BOOLEAN, due : BOOLEAN,
          attempt : 0 .. plan.max.token, blocked : {NoEvidence} \cup SUBSET Remotes,
          group : GroupViews]
    /\ sched.routes \in [DOMAIN Config(sched).routes ->
         [issued : BOOLEAN, desired : BOOLEAN, paused : BOOLEAN, pending : 0 .. plan.max.token]]
    /\ sched.windows \in [DOMAIN Config(sched).windows ->
         [fresh : BOOLEAN, was : BOOLEAN, waiting : BOOLEAN]]
    /\ \A i \in DOMAIN phys : phys[i] \in [n : Remotes, over : BOOLEAN, group : GroupViews]
    /\ \A d \in dials : d.token \in 1 .. plan.max.token
    /\ detaching \subseteq Remotes
    /\ \A i, j \in DOMAIN hub.peers : hub.peers[i].n = hub.peers[j].n => i = j

PeerNames(h) == {h.peers[i].n : i \in DOMAIN h.peers}

(* A dial whose intent was withdrawn, held or superseded while it ran - by a  *)
(* disconnect, a closed window, a reload or a stop - never publishes a peer:  *)
(* its reservation or token no longer matches when it returns.                *)
VoidDialsNeverAttach ==
    \A d \in dials : d \notin dials' /\ d.void # "no" => PeerNames(hub') \subseteq PeerNames(hub)

(* Outside groups, no live peer advertises another live peer: whichever of    *)
(* the admission and the topology text came second, it was refused.           *)
LoopFree ==
    \A i, j \in Live(hub) :
        hub.peers[i].group = NoGroup /\ hub.peers[j].group = NoGroup
            => hub.peers[j].n \notin hub.peers[i].routes

(* Permanent intent survives every transport failure, failed dial, lost       *)
(* completion, pause and resume: only an operator's disconnect, the schedule, *)
(* a reload, a stop, a proven loop or a published peer of that name ends it.  *)
IntentKept ==
    \A n \in Remotes : Owns(hub, n) /\ ~Owns(hub', n) /\ n \notin PeerNames(hub') =>
      \/ Disconnect(n, TRUE) \/ NextLink \/ EndReload \/ Stop
      \/ Reconnect(TRUE) \/ Reconnect(FALSE)
      \/ \E R \in SUBSET Remotes : Topology(n, R)

(* "Unpublish one temporary peer. The adapter must then stop and drain its    *)
(* reader" (hub.rs): a connected transport belongs to a published peer or has *)
(* its detach on the way.                                                     *)
NoOrphanPeer ==
    \A i \in DOMAIN phys : ~phys[i].over =>
        \/ phys[i].n \in PeerNames(hub)
        \/ \E k \in DOMAIN effects : phys[i].n \in ToSet(effects[k].names)

=============================================================================
