--------------------------- MODULE EventDispatch ----------------------------
(***************************************************************************)
(* Scheduled events from the civil clock to the air and to the links:      *)
(*                                                                         *)
(*   - the wall clock, with backward corrections and a fall-back hour;     *)
(*   - the EventScheduler of the runtime and the status queue of a node;   *)
(*   - the pumps of product/src/lifecycle.rs: the ticker thread, and the   *)
(*     thread that reloads, which pumps once after a successful reload;    *)
(*   - dial threads, which settle the event they were started for;         *)
(*   - a reload, which replaces scheduler and queue while audio may still  *)
(*     run the queue of the generation before.                             *)
(*                                                                         *)
(* Each `run' on the control executor is one step, and may be refused.     *)
(***************************************************************************)
EXTENDS EventScheduler

Slots          == plan.slots        \* the status messages a node may hold (4 in the code)
MaxWall        == plan.wall         \* the last minute of the wall clock
MaxCorrections == plan.corrections  \* backward corrections of the wall clock
Daylight       == plan.daylight     \* 1 when the run begins in daylight-saving time, else 0
Reloads        == plan.reloads      \* reload attempts
MaxRefusals    == plan.refusals     \* runs the executor refuses, its queue being full

VARIABLES
  wall, offset, corrections, \* the clock: civil minute = wall + offset
  lastTick,                 \* EventScheduler.last_tick
  generation,               \* EventScheduler.generation
  born,                     \* the generation an event's identity dates from
  events,                   \* EventScheduler.events
  audible, cancelled,       \* the MessageOccurrence cells no longer pending
  queue,                    \* the status queue of the current generation
  old, behind,              \* the queue audio runs until it adopts that one
  revision, reloading,      \* Engine
  busy,                     \* Engine.event_busy
  pump,                     \* the two pumping threads
  jobs,                     \* dial threads started for an event
  refusals,
  sent, resent,             \* messages queued so far, and queued again
  ran, reran                \* operations carried out so far, and repeated

clock     == <<plan, wall, offset, corrections>>
scheduler == <<lastTick, generation, born, events>>
cells     == <<audible, cancelled>>
station   == <<queue, old, behind>>
engine    == <<revision, reloading>>
messages  == <<sent, resent>>
effects   == <<ran, reran>>

vars == <<plan, wall, offset, corrections, lastTick, generation, born, events, audible,
          cancelled, queue, old, behind, revision, reloading, busy, pump, jobs,
          refusals, sent, resent, ran, reran>>

Pumps == {"ticker", "reloader"}

Generations == 1 .. Reloads + 1

\* An occurrence of an event as one generation of its identity saw it.
Occurrences == [event : Events, born : Generations, key : Keys]

Occurrence(e, key) == [event |-> e, born |-> born[e], key |-> key]

\* What next_event hands to the dispatcher.
Token == [of : Occurrences, generation : Generations, queueable : BOOLEAN]

NoToken == [of |-> [event |-> 0, born |-> 0, key |-> 0], generation |-> 0, queueable |-> FALSE]

NoPump == [at |-> "idle", revision |-> 0, wall |-> 0, civil |-> 0, token |-> NoToken]

PumpSteps == {"idle", "start", "next", "queue", "store", "spawn", "effect", "complete"}

\* The type invariant; the status queue keeps its bound.
TypeOK ==
  /\ wall \in 1 .. MaxWall /\ offset \in 0 .. 1 /\ corrections \in 0 .. MaxCorrections
  /\ lastTick \in 0 .. MaxWall
  /\ generation \in Generations
  /\ born \in [Events -> Generations]
  /\ events \in [Events -> EventState]
  /\ audible \subseteq Occurrences /\ cancelled \subseteq Occurrences
  /\ queue \in Seq(Occurrences) /\ Len(queue) <= Slots
  /\ old \in Seq(Occurrences) /\ Len(old) <= Slots /\ behind \in BOOLEAN
  /\ revision \in 1 .. Reloads + 1 /\ reloading \in BOOLEAN
  /\ busy \in 0 .. Reloads + 1
  /\ \A p \in Pumps : /\ pump[p].at \in PumpSteps
                      /\ pump[p].token \in Token \cup {NoToken}
  /\ \A j \in jobs : j.token \in Token /\ j.at \in {"dial", "complete", "clear"}
  /\ sent \subseteq Occurrences /\ resent \subseteq sent
  /\ ran \subseteq Occurrences /\ reran \subseteq ran

Init ==
  /\ plan \in Plans
  /\ wall = 1 /\ offset = Daylight /\ corrections = 0
  /\ lastTick = 0
  /\ generation = 1
  /\ born = [e \in Events |-> 1]
  /\ events = [e \in Events |-> Fresh]
  /\ audible = {} /\ cancelled = {}
  /\ queue = <<>> /\ old = <<>> /\ behind = FALSE
  /\ revision = 1 /\ reloading = FALSE
  /\ busy = 0
  /\ pump = [p \in Pumps |-> NoPump]
  /\ jobs = {}
  /\ refusals = 0
  /\ sent = {} /\ resent = {} /\ ran = {} /\ reran = {}

---------------------------------------------------------------------------
(* The clock.                                                              *)

Tick ==
  /\ wall < MaxWall
  /\ wall' = wall + 1
  /\ UNCHANGED <<plan, offset, corrections, scheduler, cells, station, engine, busy, pump,
                 jobs, refusals, messages, effects>>

\* A backward correction of the wall clock.
Correct ==
  /\ wall > 1 /\ corrections < MaxCorrections
  /\ wall' = wall - 1
  /\ corrections' = corrections + 1
  /\ UNCHANGED <<plan, offset, scheduler, cells, station, engine, busy, pump, jobs,
                 refusals, messages, effects>>

\* The end of daylight-saving time: civil minutes repeat, the wall clock goes on.
FallBack ==
  /\ offset = 1
  /\ offset' = 0
  /\ UNCHANGED <<plan, wall, corrections, scheduler, cells, station, engine, busy, pump, jobs,
                 refusals, messages, effects>>

---------------------------------------------------------------------------
(* A pump.                                                                 *)

\* A run is carried out unless a reload is under way.
Run == ~reloading

\* Is work that a pump began at revision r still wanted?
CurrentRevision(r) == ~reloading /\ revision = r

Current(t) ==
  LET e == t.of.event
  IN  t.generation = generation /\ events[e].pending = t.of.key

Goto(p, step) == pump' = [pump EXCEPT ![p].at = step]

LeavePump(p) == pump' = [pump EXCEPT ![p] = NoPump]

\* A refused run ends the pump, except that a failed effect is ignored.
Refused(p) ==
  /\ pump[p].at \in {"next", "queue", "effect", "complete"}
  /\ \/ reloading /\ UNCHANGED refusals
     \/ ~reloading /\ refusals < MaxRefusals /\ refusals' = refusals + 1
  /\ IF pump[p].at = "effect" THEN Goto(p, "complete") ELSE LeavePump(p)
  /\ UNCHANGED <<clock, scheduler, cells, station, engine, busy, jobs, messages, effects>>

\* The ticker captures the clock and pumps; the reloader does so when it is done.
BeginPump(p) ==
  /\ IF p = "ticker" THEN pump[p].at = "idle" /\ ~reloading ELSE pump[p].at = "start"
  /\ pump' = [pump EXCEPT ![p] = [at |-> "next", revision |-> revision, wall |-> wall,
                                  civil |-> wall + offset, token |-> NoToken]]
  /\ UNCHANGED <<clock, scheduler, cells, station, engine, busy, jobs, refusals,
                 messages, effects>>

\* The contents an event may render to at this attempt.
Renderings(e) ==
  IF Configured[e].kind = "template" THEN {"message", "error"} ELSE {"none"}

\* next_event: capture what is due, then reserve the oldest occurrence.
PumpNext(p) ==
  LET civil == pump[p].civil
      on_time == pump[p].wall >= lastTick
      seen == [e \in Events |->
                 IF on_time THEN Captured(e, events[e], civil) ELSE events[e]]
      replaced == IF on_time
                    THEN UNION {{Occurrence(e, k) : k \in Obsolete(e, events[e], civil)} : e \in Events}
                    ELSE {}
  IN  /\ pump[p].at = "next" /\ Run
      /\ lastTick' = IF on_time THEN pump[p].wall ELSE lastTick
      /\ cancelled' = cancelled \cup (replaced \ audible)
      /\ \/ /\ \A e \in Events : Offered(seen[e]) = None
            /\ events' = seen
            /\ LeavePump(p)
         \/ \E e \in Events :
              /\ Selected(seen, e)
              /\ \E r \in Renderings(e) :
                   IF r = "error"
                     THEN /\ events' = [seen EXCEPT ![e] = Spent(@)]
                          /\ LeavePump(p)
                     ELSE /\ events' = [seen EXCEPT ![e] = Reserved(@, r = "message")]
                          /\ pump' = [pump EXCEPT ![p].at = "queue", ![p].token =
                               [of |-> Occurrence(e, Offered(seen[e])), generation |-> generation,
                                queueable |-> Recipe(e) \/ r = "message"]]
      /\ UNCHANGED <<clock, generation, born, audible, station, engine, busy, jobs,
                     refusals, messages, effects>>

\* queue_event: a message is queued unless it already was, a newer occurrence
\* cancelled it, or there is none.  A message that cannot be prepared ends the
\* pump as a refused run does.
QueueMessage(t) ==
  LET e == t.of.event
      skip == events[e].queued \/ (t.of \notin cancelled /\ ~t.queueable)
      take == ~skip /\ t.of \notin cancelled
  IN  /\ events' = IF skip THEN events ELSE [events EXCEPT ![e] = Admitted(e, @)]
      /\ queue' = IF take THEN Append(queue, t.of) ELSE queue
      /\ resent' = IF take THEN resent \cup (sent \cap {t.of}) ELSE resent
      /\ sent' = IF take THEN sent \cup {t.of} ELSE sent

\* Can queue_event succeed?  A message to be queued needs room.
Queued(t) ==
  \/ events[t.of.event].queued
  \/ ~t.queueable
  \/ t.of \in cancelled
  \/ Len(queue) < Slots

\* A dial started at this pump's revision is still under way.
Busy(p) == busy = pump[p].revision

\* The step that follows event_command; a Connect may be refused by the links.
Commanded(t) ==
  CASE Configured[t.of.event].op = "none" -> {"complete"}
    [] Configured[t.of.event].op = "immediate" -> {"effect", "complete"}
    [] Configured[t.of.event].op = "connect" -> {"store", "complete"}

\* queue_event and event_command, one run.  A busy dispatcher, a stale token and
\* a full status queue end the pump.
PumpQueue(p) ==
  LET t == pump[p].token
  IN  /\ pump[p].at = "queue" /\ Run
      /\ \/ /\ ~Busy(p) /\ Current(t) /\ Queued(t)
            /\ QueueMessage(t)
            /\ \E step \in Commanded(t) : Goto(p, step)
         \/ /\ Busy(p) \/ ~Current(t) \/ ~Queued(t)
            /\ LeavePump(p)
            /\ UNCHANGED <<events, queue, messages>>
      /\ UNCHANGED <<clock, lastTick, generation, born, cells, old, behind, engine,
                     busy, jobs, refusals, effects>>

\* A Connect: mark the dispatcher busy, then start the dial thread.
PumpStore(p) ==
  /\ pump[p].at = "store"
  /\ busy' = pump[p].revision
  /\ Goto(p, "spawn")
  /\ UNCHANGED <<clock, scheduler, cells, station, engine, jobs, refusals, messages, effects>>

PumpSpawn(p) ==
  /\ pump[p].at = "spawn"
  /\ \/ /\ ~reloading
        /\ jobs' = jobs \cup {[by |-> p, token |-> pump[p].token, 
                          revision |-> pump[p].revision, at |-> "dial"]}
        /\ UNCHANGED busy
     \/ /\ reloading
        /\ busy' = 0
        /\ UNCHANGED jobs
  /\ LeavePump(p)
  /\ UNCHANGED <<clock, scheduler, cells, station, engine, refusals, messages, effects>>

\* The operation of an occurrence takes effect.
Perform(t) ==
  /\ reran' = reran \cup (ran \cap {t.of})
  /\ ran' = ran \cup {t.of}

\* Any other operation is carried out at once, unless a reload has begun.
PumpEffect(p) ==
  /\ pump[p].at = "effect" /\ Run
  /\ IF CurrentRevision(pump[p].revision) THEN Perform(pump[p].token) ELSE UNCHANGED effects
  /\ Goto(p, "complete")
  /\ UNCHANGED <<clock, scheduler, cells, station, engine, busy, jobs, refusals, messages>>

Complete(t) ==
  LET e == t.of.event
  IN  events' = IF Current(t) THEN [events EXCEPT ![e] = Settled(e, @)] ELSE events

\* complete_event, and on to the next event.
PumpComplete(p) ==
  /\ pump[p].at = "complete" /\ Run
  /\ Complete(pump[p].token)
  /\ pump' = [pump EXCEPT ![p].at = "next", ![p].token = NoToken]
  /\ UNCHANGED <<clock, lastTick, generation, born, cells, station, engine, busy,
                 jobs, refusals, messages, effects>>

Pump(p) ==
  \/ PumpNext(p) \/ PumpQueue(p) \/ PumpStore(p) \/ PumpSpawn(p)
  \/ PumpEffect(p) \/ PumpComplete(p) \/ Refused(p)

---------------------------------------------------------------------------
(* A dial thread.                                                          *)

Advance(j, step) == jobs' = (jobs \ {j}) \cup {[j EXCEPT !.at = step]}

\* Mutant: a dial that is not answered returns at once.
DialFinishEarly(j) ==
  /\ j.at = "dial"
  /\ \/ CurrentRevision(j.revision) /\ Perform(j.token) /\ Advance(j, "complete")
     \/ jobs' = jobs \ {j} /\ UNCHANGED effects
  /\ UNCHANGED <<clock, scheduler, cells, station, engine, busy, pump, refusals, messages>>

\* The peer answers or not; an answer counts only at an unchanged revision.
DialFinish(j) ==
  /\ j.at = "dial"
  /\ \/ CurrentRevision(j.revision) /\ Perform(j.token)
     \/ UNCHANGED effects
  /\ Advance(j, "complete")
  /\ UNCHANGED <<clock, scheduler, cells, station, engine, busy, pump, refusals, messages>>

DialComplete(j) ==
  /\ j.at = "complete"
  /\ \/ Run /\ Complete(j.token) /\ UNCHANGED refusals
     \/ reloading /\ UNCHANGED <<events, refusals>>
     \/ ~reloading /\ refusals < MaxRefusals /\ refusals' = refusals + 1 /\ UNCHANGED events
  /\ Advance(j, "clear")
  /\ UNCHANGED <<clock, lastTick, generation, born, cells, station, engine, busy,
                 pump, messages, effects>>

DialClear(j) ==
  /\ j.at = "clear"
  /\ busy' = IF busy = j.revision THEN 0 ELSE busy
  /\ jobs' = jobs \ {j}
  /\ UNCHANGED <<clock, scheduler, cells, station, engine, pump, refusals, messages, effects>>

Dial(j) == DialFinish(j) \/ DialComplete(j) \/ DialClear(j)

---------------------------------------------------------------------------
(* A reload.                                                               *)

StartReload ==
  /\ ~reloading /\ pump["reloader"].at = "idle"
  /\ revision <= Reloads
  /\ reloading' = TRUE
  /\ revision' = revision + 1
  /\ UNCHANGED <<clock, scheduler, cells, station, busy, pump, jobs, refusals, messages, effects>>

\* The new scheduler inherits the events whose identity did not change.
CommitReload ==
  /\ reloading
  /\ reloading' = FALSE
  /\ generation' = generation + 1
  /\ \E changed \in SUBSET Events :
       /\ events' = [e \in Events |-> IF e \in changed THEN Fresh ELSE Inherited(events[e])]
       /\ born' = [e \in Events |-> IF e \in changed THEN generation + 1 ELSE born[e]]
  /\ queue' = <<>>
  /\ old' = IF behind THEN old ELSE queue
  /\ behind' = TRUE
  /\ Goto("reloader", "start")
  /\ UNCHANGED <<clock, lastTick, cells, revision, busy, jobs, refusals, messages, effects>>

\* A failed reload keeps the scheduler; its revision is spent all the same.
FailReload ==
  /\ reloading
  /\ reloading' = FALSE
  /\ UNCHANGED <<clock, scheduler, cells, station, revision, busy, pump, jobs,
                 refusals, messages, effects>>

---------------------------------------------------------------------------
(* The audio thread.                                                       *)

Adopt ==
  /\ behind
  /\ behind' = FALSE /\ old' = <<>>
  /\ UNCHANGED <<clock, scheduler, cells, queue, engine, busy, pump, jobs,
                 refusals, messages, effects>>

Played == IF behind THEN old ELSE queue

\* The first sample of a message claims its occurrence.
AudioStart ==
  /\ Played # <<>>
  /\ Head(Played) \notin audible \cup cancelled
  /\ audible' = audible \cup {Head(Played)}
  /\ UNCHANGED <<clock, scheduler, cancelled, station, engine, busy, pump, jobs,
                 refusals, messages, effects>>

\* A message ends, expires before it started, or turns out to be cancelled.
AudioRetire ==
  /\ Played # <<>>
  /\ IF behind THEN old' = Tail(old) /\ UNCHANGED queue
               ELSE queue' = Tail(queue) /\ UNCHANGED old
  /\ UNCHANGED <<clock, scheduler, cells, behind, engine, busy, pump, jobs,
                 refusals, messages, effects>>

Next ==
  \/ Tick \/ Correct \/ FallBack
  \/ \E p \in Pumps : BeginPump(p) \/ Pump(p)
  \/ \E j \in jobs : Dial(j)
  \/ StartReload \/ CommitReload \/ FailReload
  \/ Adopt \/ AudioStart \/ AudioRetire

Spec == Init /\ [][Next]_vars

---------------------------------------------------------------------------
(* Properties.                                                             *)

\* A message starts only while it is the newest its event knows of: once next()
\* has captured a newer occurrence, no older one of that identity becomes
\* audible, in whichever queue or generation it waits.
StartsNewest ==
  \A o \in audible' \ audible : o.born = born[o.event] => o.key >= Newest(events[o.event])

\* An occurrence's message enters a status queue at most once, whatever is
\* retried, refused, reloaded, or repeated by the clock.
MessageOnce == resent = {}

\* An operation taken from a configuration that a reload has replaced is never
\* carried out under the new one, by a pump or by a dial thread.
RunsCurrent == \A o \in ran' \ ran : o.born = born[o.event]

\* The dispatcher is busy at the current revision only while somebody is about
\* to start, or runs, the dial that will clear it: event_busy never sticks.
NoStuckBusy ==
  busy = revision =>
    \/ \E p \in Pumps : pump[p].at = "spawn" /\ pump[p].revision = busy
    \/ \E j \in jobs : j.revision = busy

\* Both: a message is queued once, and the dispatcher's busy mark is cleared.
EventsOnce == MessageOnce /\ NoStuckBusy

\* Both, of every step: only the newest message starts, and only operations of
\* the present configuration are carried out.
EventsCurrent == [][StartsNewest /\ RunsCurrent]_vars

\* "The external operation may be skipped ... but it is never duplicated".
OperationOnce == reran = {}
=============================================================================
