----------------------------- MODULE StationMedia -----------------------------
(***************************************************************************)
(* The media producer of one station generation and one of its readers.    *)
(* The worker prepares a program segment by segment, each in a ring of its *)
(* own; the audio callback plays the rings and sends every used one back,  *)
(* so that only the worker frees it.  The two share the atomics of         *)
(* JobControl and two rings of one endpoint each.  A playback attempt is a *)
(* generation: starting, deferring, cancelling and the switch to Morse     *)
(* only publish another one, and the worker notices.                       *)
(***************************************************************************)
EXTENDS Naturals, Sequences, FiniteSets

CONSTANT MediaPlans     \* configurations: [primary, morse, oneShot, delay, samples, gens, faults]

VARIABLES
    sPlan,      \* the configuration of this behaviour
    sSession,   \* StationSession: "building", "running", "stopping" or "joined"
    sCtl,       \* JobControl with the ready and retired rings
    sJob,       \* WorkerJob and the worker's place in it
    sRings,     \* the segment rings, by address
    sRead,      \* StreamReader and the Playback that owns it
    sHeard,     \* samples of this attempt that reached the output (history)
    sMade       \* lengths of the segments finished for a generation (history)

sVars == <<sPlan, sSession, sCtl, sJob, sRings, sRead, sHeard, sMade>>

Addresses == 1 .. 3
NoRing == 0
Block == 2              \* samples of one read
RingSpace == 2          \* unread source samples a ring holds
FreeRing == [gen |-> 0, seg |-> 0, n |-> 0, consumed |-> 0, padded |-> FALSE, ended |-> FALSE, broken |-> FALSE]

NewControl ==
    [requested |-> 0, cancelled |-> 0, completed |-> 0, failed |-> 0, morse |-> 0,
     abandoned |-> FALSE, ready |-> NoRing, retired |-> NoRing, outstanding |-> 0]
NewReader ==
    [gen |-> 0, held |-> NoRing, delay |-> 0, started |-> FALSE, morse |-> "none", out |-> FALSE,
     over |-> "active", at |-> "idle", done |-> FALSE, produced |-> 0]
NewJob ==
    [where |-> "none", at |-> "top", handled |-> 0, index |-> 0, fallback |-> FALSE, ring |-> NoRing, bad |-> FALSE]

SInit ==
    /\ sPlan \in MediaPlans
    /\ sSession = "building"
    /\ sCtl = NewControl
    /\ sJob = NewJob
    /\ sRings = [a \in Addresses |-> FreeRing]
    /\ sRead = NewReader
    /\ sHeard = <<>>
    /\ sMade = [gen |-> 0, lengths |-> <<>>]

-----------------------------------------------------------------------------
(* The session: registration, start and drop. *)

\* register_source and register_prepared: a one-shot program may arrive later.
Register ==
    /\ sJob.where = "none" /\ sSession \in {"building", "running"}
    /\ sPlan.oneShot \/ sSession = "building"
    /\ sJob' = [sJob EXCEPT !.where = IF sPlan.oneShot THEN "pending" ELSE "jobs"]
    /\ UNCHANGED <<sPlan, sSession, sCtl, sRings, sRead, sHeard, sMade>>

StartWorker ==
    /\ sSession = "building"
    /\ sSession' = "running"
    /\ UNCHANGED <<sPlan, sCtl, sJob, sRings, sRead, sHeard, sMade>>

DropSession ==
    /\ sSession \in {"building", "running"}
    /\ sSession' = IF sSession = "running" THEN "stopping" ELSE "joined"
    /\ UNCHANGED <<sPlan, sCtl, sJob, sRings, sRead, sHeard, sMade>>

-----------------------------------------------------------------------------
(* The reader: operators on the pair of the control block and the reader.  *)

Shared(c, r) == [c |-> c, r |-> r]
Push(s, a) ==
    IF s.c.retired = NoRing THEN Shared([s.c EXCEPT !.retired = a], [s.r EXCEPT !.held = NoRing])
                            ELSE Shared(s.c, [s.r EXCEPT !.held = a])

\* retire_consumer: hand the held ring back, or keep it while the ring is full.
RetireHeld(s) == IF s.r.held = NoRing THEN s ELSE Push(s, s.r.held)

\* retire_available: the held ring, then everything ready.
RetireReady(s) ==
    IF s.r.held # NoRing \/ s.c.ready = NoRing THEN s
    ELSE Push(Shared([s.c EXCEPT !.ready = NoRing], s.r), s.c.ready)
RetireAvailable(s) == RetireReady(RetireHeld(s))

\* acquire_consumer: the next ready ring of this generation; others go back.
Acquire(s) ==
    IF s.r.held # NoRing \/ s.c.ready = NoRing THEN s
    ELSE IF sRings[s.c.ready].gen = s.r.gen
         THEN Shared([s.c EXCEPT !.ready = NoRing],
                     [s.r EXCEPT !.held = s.c.ready, !.delay = sPlan.delay])
         ELSE Push(Shared([s.c EXCEPT !.ready = NoRing], s.r), s.c.ready)

Stale(s) == s.r.held # NoRing /\ sRings[s.r.held].gen # s.r.gen

\* start: a fresh generation.
Begin(s) ==
    Shared([s.c EXCEPT !.morse = 0, !.requested = s.r.gen + 1],
           [s.r EXCEPT !.gen = s.r.gen + 1, !.delay = 0])

\* cancel: abandoned before a first start, otherwise this generation is over.
CancelReader(s) ==
    IF s.r.gen = 0 THEN Shared([s.c EXCEPT !.abandoned = TRUE], s.r)
    ELSE RetireAvailable(
           Shared([s.c EXCEPT !.cancelled = s.r.gen,
                              !.requested = IF s.c.requested = 0 THEN s.r.gen ELSE s.c.requested], s.r))

\* Playback::finish.
Finish(s, outcome) ==
    LET t == CancelReader(s) IN Shared(t.c, [t.r EXCEPT !.over = outcome, !.at = "idle"])

\* select_morse_fallback: replace the attempt once, then give the old rings
\* back before any Morse is read.
SelectedRing(s) == IF Stale(s) THEN Shared(s.c, [s.r EXCEPT !.morse = "pending"])
                           ELSE Shared(s.c, [s.r EXCEPT !.morse = "selected"])
Replaced(s) ==
    IF s.c.morse = s.r.gen THEN s
    ELSE Shared([s.c EXCEPT !.morse = s.r.gen + 1, !.requested = s.r.gen + 1],
                [s.r EXCEPT !.gen = s.r.gen + 1, !.delay = 0])
SelectMorse(s) ==
    IF sPlan.morse = 0 THEN Finish(s, "cancelled")
    ELSE LET t == Replaced(s)
             u == IF Stale(t) THEN RetireHeld(t) ELSE t
         IN SelectedRing(IF Stale(u) THEN u ELSE Acquire(u))

Told(s) == /\ sCtl' = s.c /\ sRead' = s.r
           /\ sHeard' = IF s.r.gen = sRead.gen THEN sHeard ELSE <<>>
           /\ UNCHANGED <<sPlan, sSession, sJob, sRings, sMade>>

Reading == sJob.where # "none" /\ sRead.over = "active" /\ sRead.at = "idle"
Now == Shared(sCtl, sRead)

\* Playback::render, up to the read: start, and the switch to Morse if receiving.
Started(s) == IF s.r.started THEN s
              ELSE LET t == Begin(s) IN Shared(t.c, [t.r EXCEPT !.started = TRUE])
PlayRender(receiving) ==
    /\ Reading /\ sRead.gen + 2 <= sPlan.gens
    /\ ~sRead.started \/ (receiving /\ sRead.morse = "none")
    /\ LET s == Started(Now)
       IN Told(IF sRead.morse = "pending" \/ (receiving /\ sRead.morse = "none") THEN SelectMorse(s) ELSE s)

\* The same while a switch is pending: only the selection is retried.
PlayRetry ==
    /\ Reading /\ sRead.started /\ sRead.morse = "pending"
    /\ sRead.gen < sPlan.gens
    /\ Told(SelectMorse(Now))

\* Playback::defer before any output: production stops and waits for a start.
PlayDefer(receiving) ==
    /\ Reading /\ ~sRead.out
    /\ LET s == RetireAvailable(Shared([sCtl EXCEPT !.requested = 0], sRead))
       IN Told(Shared(s.c, [s.r EXCEPT !.started = FALSE,
                                       !.morse = IF receiving \/ sRead.morse # "none" THEN "pending" ELSE "none"]))

\* Playback::rewind of a preempted item.
PlayRewind ==
    /\ Reading /\ sRead.started /\ sRead.gen + 2 <= sPlan.gens
    /\ LET s == Begin(Now)
       IN Told(Shared(s.c, [s.r EXCEPT !.morse = IF sRead.morse = "none" THEN "none" ELSE "pending"]))

PlayCancel == Reading /\ Told(Finish(Now, "cancelled"))

\* Playback::restart of a recurring item.
PlayRestart ==
    /\ ~sPlan.oneShot /\ sRead.over \notin {"active", "dropped"} /\ sRead.gen + 2 <= sPlan.gens
    /\ Told(Shared(sCtl, [sRead EXCEPT !.over = "active", !.out = FALSE, !.morse = "none", !.started = FALSE]))

\* Drop for StreamReader, on the thread that retires the item.
DropReader ==
    /\ sJob.where # "none" /\ sRead.at = "idle" /\ sRead.over # "dropped"
    /\ LET s == CancelReader(Now)
       IN /\ sCtl' = s.c
          /\ sRead' = [s.r EXCEPT !.over = "dropped", !.held = NoRing]
          /\ sRings' = IF s.r.held = NoRing THEN sRings ELSE [sRings EXCEPT ![s.r.held] = FreeRing]
    /\ UNCHANGED <<sPlan, sSession, sJob, sHeard, sMade>>

-----------------------------------------------------------------------------
(* StreamReader::render, one turn of its loop at a time. *)

\* The turn begins with the completion flags, before ready is looked at.
RenderLoad ==
    /\ sJob.where # "none" /\ sRead.over = "active" /\ sRead.started
    /\ sRead.morse \in {"none", "selected"} /\ sRead.at \in {"idle", "loop"}
    /\ sRead' = [sRead EXCEPT !.at = "turn", !.done = sRead.gen \in {sCtl.completed, sCtl.failed},
                              !.produced = IF sRead.at = "idle" THEN 0 ELSE sRead.produced]
    /\ UNCHANGED <<sPlan, sSession, sCtl, sJob, sRings, sHeard, sMade>>

Budget(x) == sPlan.delay + x.n
Available(x) == x.n + (IF x.padded THEN sPlan.delay ELSE 0)
Finished(x, done) == (x.ended \/ done) /\ x.consumed >= Budget(x)

\* The read returns with what it has.
Returned(s) == Shared(s.c, [s.r EXCEPT !.at = "idle", !.out = s.r.out \/ s.r.produced > 0])

\* finish_read: partial audio of a failed program is not its end.
FinishRead(s) ==
    LET failed == s.c.failed = s.r.gen
        t == RetireHeld(s)
    IN IF s.r.produced > 0 THEN IF failed THEN Returned(s) ELSE Finish(s, "succeeded")
       ELSE IF t.r.held # NoRing THEN Returned(t)
       ELSE Finish(t, IF failed THEN "failed" ELSE "succeeded")

Looped(s) == Shared(s.c, [s.r EXCEPT !.at = IF s.r.produced = Block THEN "idle" ELSE "loop",
                                     !.out = s.r.out \/ s.r.produced = Block])

Settle(s) == sCtl' = s.c /\ sRead' = s.r /\ UNCHANGED <<sRings, sHeard>>

\* One sample of the held ring, if it has one.
Sample(s, x) ==
    IF x.consumed >= Budget(x) THEN Settle(Returned(s))
    ELSE IF x.consumed < Available(x)
    THEN /\ sRings' = [sRings EXCEPT ![s.r.held].consumed = @ + 1]
         /\ sCtl' = s.c
         /\ IF s.r.delay > 0
            THEN sRead' = Looped(Shared(s.c, [s.r EXCEPT !.delay = @ - 1])).r /\ UNCHANGED sHeard
            ELSE /\ sRead' = Looped(Shared(s.c, [s.r EXCEPT !.produced = @ + 1])).r
                 /\ sHeard' = Append(sHeard, [gen |-> x.gen, seg |-> x.seg, k |-> x.consumed + 1 - sPlan.delay])
    ELSE IF x.broken THEN Settle(FinishRead(Shared([s.c EXCEPT !.failed = s.r.gen], s.r)))
    ELSE Settle(Returned(s))

Turn(s, done) ==
    IF Stale(s) THEN Settle(Returned(RetireHeld(s)))
    ELSE IF s.r.held = NoRing THEN Settle(IF done THEN FinishRead(s) ELSE Returned(s))
    ELSE IF Finished(sRings[s.r.held], done)
    THEN LET t == RetireHeld(s) IN Settle(IF t.r.held = NoRing THEN Looped(t) ELSE Returned(t))
    ELSE Sample(s, sRings[s.r.held])

RenderTurn ==
    /\ sRead.at = "turn"
    /\ Turn(Acquire(Now), sRead.done)
    /\ UNCHANGED <<sPlan, sSession, sJob, sMade>>

-----------------------------------------------------------------------------
(* The worker: worker_loop and run_job. *)

Cancelled == sSession = "stopping" \/ sCtl.requested # sJob.handled \/ sCtl.cancelled = sJob.handled
Segments == IF sJob.fallback THEN sPlan.morse ELSE Len(sPlan.primary)
FromProvider == ~sJob.fallback /\ sPlan.primary[sJob.index] = "provider"

\* reclaim: the worker frees what the reader sent back.
Reclaimed(c) ==
    IF c.retired = NoRing THEN c ELSE [c EXCEPT !.retired = NoRing, !.outstanding = @ - 1]
RingsReclaimed == [a \in Addresses |-> IF a = sCtl.retired THEN FreeRing ELSE sRings[a]]
Failed(c) == [c EXCEPT !.failed = sJob.handled, !.completed = sJob.handled]

Working(at) ==
    /\ sSession \in {"running", "stopping"} /\ sJob.at = at
    /\ UNCHANGED <<sPlan, sRead, sHeard>>
Goes(at) == sJob' = [sJob EXCEPT !.at = at]

\* One pass over the job: take it up, reclaim, and look for a new request; the
\* ring of a cancelled attempt comes back before the next one begins.
WorkerTop ==
    /\ Working("top") /\ sJob.where \in {"pending", "jobs"} /\ sSession = "running"
    /\ sRings' = RingsReclaimed
    /\ sCtl' = Reclaimed(sCtl)
    /\ LET begins == sCtl.requested \notin {0, sJob.handled} /\ Reclaimed(sCtl).outstanding = 0
       IN sJob' = IF begins THEN [sJob EXCEPT !.where = "jobs", !.at = "begin", !.handled = sCtl.requested]
                  ELSE [sJob EXCEPT !.where = "jobs", !.at = IF sPlan.oneShot THEN "check" ELSE "top"]
    /\ UNCHANGED <<sSession, sMade>>

\* The worker stops and takes back what it can.
WorkerExit ==
    /\ Working("top") /\ sSession = "stopping"
    /\ sRings' = RingsReclaimed
    /\ sCtl' = Reclaimed(sCtl)
    /\ sSession' = "joined"
    /\ UNCHANGED <<sJob, sMade>>

\* Mutant: the end of production counts as the end of the reading.
OneShotDoneEarly ==
    /\ sPlan.oneShot
    /\ IF sJob.handled = 0 THEN sCtl.abandoned
       ELSE /\ sCtl.requested = sJob.handled
            /\ sCtl.cancelled = sJob.handled \/ sCtl.completed = sJob.handled
            /\ sCtl.outstanding = 0

\* one_shot_done.
OneShotDone ==
    /\ sPlan.oneShot
    /\ IF sJob.handled = 0 THEN sCtl.abandoned
       ELSE /\ sCtl.requested = sJob.handled /\ sCtl.cancelled = sJob.handled
            /\ sCtl.outstanding = 0

WorkerCheck ==
    /\ Working("check")
    /\ sJob' = IF OneShotDone THEN [NewJob EXCEPT !.where = "gone", !.handled = sJob.handled]
                              ELSE [sJob EXCEPT !.at = "top"]
    /\ UNCHANGED <<sSession, sCtl, sRings, sMade>>

\* run_job begins: the flags of earlier attempts are cleared.
WorkerBegin ==
    /\ Working("begin")
    /\ sCtl' = [sCtl EXCEPT !.failed = 0, !.completed = 0]
    /\ sJob' = [sJob EXCEPT !.at = "wait", !.index = 1, !.bad = FALSE, !.fallback = sCtl.morse = sJob.handled]
    /\ sMade' = [gen |-> sJob.handled, lengths |-> <<>>]
    /\ UNCHANGED <<sSession, sRings>>

\* One ring plays and one waits, at most.
Room(c) == c.outstanding < 2 /\ (sJob.index = 1 \/ c.ready = NoRing)

WorkerWait ==
    /\ Working("wait")
    /\ Cancelled \/ Room(Reclaimed(sCtl)) \/ sCtl.retired # NoRing
    /\ sRings' = RingsReclaimed
    /\ sCtl' = Reclaimed(sCtl)
    /\ Goes(IF Cancelled THEN "check" ELSE IF Room(Reclaimed(sCtl)) THEN "open" ELSE "wait")
    /\ UNCHANGED <<sSession, sMade>>

\* open_source: file, then speech, then what is generated; a source that yields
\* nothing fails the program.  InboundRing::open and FiniteWriter::new may too.
WorkerOpen(ok) ==
    /\ Working("open")
    /\ ok \/ FromProvider \/ sPlan.faults
    /\ IF Cancelled THEN Goes("check") /\ UNCHANGED sCtl
       ELSE IF ok THEN Goes("publish") /\ UNCHANGED sCtl
       ELSE Goes("complete") /\ sCtl' = Failed(sCtl)
    /\ UNCHANGED <<sSession, sRings, sMade>>

\* The first samples are written, and the ring is offered to the reader.
WorkerPublish ==
    /\ Working("publish")
    /\ \/ Cancelled /\ Goes("check") /\ UNCHANGED <<sCtl, sRings>>
       \/ /\ sCtl.ready # NoRing
          /\ sCtl' = Failed(sCtl) /\ Goes("complete") /\ UNCHANGED sRings
       \/ /\ sCtl.ready = NoRing
          /\ LET a == CHOOSE x \in Addresses : sRings[x] = FreeRing
             IN /\ sRings' = [sRings EXCEPT ![a] = [FreeRing EXCEPT !.gen = sJob.handled, !.seg = sJob.index, !.n = 1]]
                /\ sCtl' = [sCtl EXCEPT !.ready = a, !.outstanding = @ + 1]
                /\ sJob' = [sJob EXCEPT !.at = "write", !.ring = a]
    /\ UNCHANGED <<sSession, sMade>>

\* A ring ends with the producer; a ring the reader dropped is nobody's.
Ends(padded, broken) ==
    sRings' = [sRings EXCEPT ![sJob.ring] =
        IF @ = FreeRing THEN @ ELSE [@ EXCEPT !.ended = TRUE, !.padded = padded, !.broken = broken]]

\* The rest of the source: cancelled, more, its end, or an error.
WorkerWrite(result) ==
    /\ Working("write")
    /\ IF Cancelled THEN Ends(FALSE, FALSE) /\ Goes("check")
       ELSE \/ result = "end" /\ Goes("finish") /\ UNCHANGED sRings
            \/ /\ result = "error" /\ FromProvider
               /\ sJob' = [sJob EXCEPT !.at = "finish", !.bad = TRUE] /\ UNCHANGED sRings
            \/ /\ result = "more"
               /\ LET x == sRings[sJob.ring] IN x # FreeRing /\ x.n < sPlan.samples /\ x.n < x.consumed + RingSpace
               /\ sRings' = [sRings EXCEPT ![sJob.ring].n = @ + 1]
               /\ UNCHANGED sJob
    /\ UNCHANGED <<sSession, sCtl, sMade>>

\* FiniteWriter::finish: the final length, then the padding that drains the
\* converter; the segment ends only after both.
WorkerFinish(ok) ==
    /\ Working("finish")
    /\ ok \/ sPlan.faults \/ Cancelled
    /\ Ends(ok, ~ok)
    /\ IF Cancelled THEN Goes("check") /\ UNCHANGED <<sCtl, sMade>>
       ELSE IF sJob.bad \/ ~ok THEN Goes("complete") /\ sCtl' = Failed(sCtl) /\ UNCHANGED sMade
       ELSE /\ sJob' = IF sJob.index < Segments THEN [sJob EXCEPT !.at = "wait", !.index = @ + 1]
                       ELSE [sJob EXCEPT !.at = "complete"]
            /\ sMade' = [sMade EXCEPT !.lengths = Append(@, sRings[sJob.ring].n)]
            /\ UNCHANGED sCtl
    /\ UNCHANGED sSession

WorkerComplete ==
    /\ Working("complete")
    /\ IF Cancelled THEN Goes("check") /\ UNCHANGED sCtl
       ELSE Goes("drain") /\ sCtl' = [sCtl EXCEPT !.completed = sJob.handled]
    /\ UNCHANGED <<sSession, sRings, sMade>>

\* The worker stays with the program until every ring has come back.
WorkerDrain ==
    /\ Working("drain")
    /\ Cancelled \/ sCtl.retired # NoRing \/ sCtl.outstanding = 0
    /\ IF Cancelled THEN UNCHANGED <<sCtl, sRings>>
       ELSE sCtl' = Reclaimed(sCtl) /\ sRings' = RingsReclaimed
    /\ Goes(IF Cancelled \/ Reclaimed(sCtl).outstanding = 0 THEN "check" ELSE "drain")
    /\ UNCHANGED <<sSession, sMade>>

SNext ==
    \/ Register \/ StartWorker \/ DropSession
    \/ \E receiving \in BOOLEAN : PlayRender(receiving) \/ PlayDefer(receiving)
    \/ PlayRetry \/ PlayRewind \/ PlayCancel \/ PlayRestart \/ DropReader
    \/ RenderLoad \/ RenderTurn
    \/ WorkerTop \/ WorkerExit \/ WorkerCheck \/ WorkerBegin \/ WorkerWait
    \/ \E ok \in BOOLEAN : WorkerOpen(ok) \/ WorkerFinish(ok)
    \/ WorkerPublish
    \/ \E result \in {"end", "error", "more"} : WorkerWrite(result)
    \/ WorkerComplete \/ WorkerDrain

-----------------------------------------------------------------------------
(* Properties. *)

\* What is heard belongs to the present attempt and comes in order: no segment
\* begins before all of the previous one was played, and none restarts.
HeardInOrder ==
    \A i \in DOMAIN sHeard :
        /\ sHeard[i].gen = sRead.gen
        /\ \/ i = 1 /\ sHeard[i].seg = 1 /\ sHeard[i].k = 1
           \/ /\ i > 1 /\ sHeard[i].seg = sHeard[i - 1].seg
              /\ sHeard[i].k = sHeard[i - 1].k + 1
           \/ /\ i > 1 /\ sHeard[i].seg = sHeard[i - 1].seg + 1 /\ sHeard[i].k = 1
              /\ sHeard[i - 1].k = sMade.lengths[sHeard[i - 1].seg]

\* A playback succeeds only when every sample of every segment was heard.
SucceedsWhole ==
    sRead.over = "succeeded" =>
        /\ sMade.gen = sRead.gen
        /\ Len(sMade.lengths) = IF sCtl.morse = sRead.gen THEN sPlan.morse ELSE Len(sPlan.primary)
        /\ \A g \in DOMAIN sMade.lengths : \E i \in DOMAIN sHeard :
               sHeard[i].seg = g /\ sHeard[i].k = sMade.lengths[g]

\* The ready ring never overflows, and at most two endpoints are outstanding.
ReadyFits == (sJob.at = "publish" /\ ~Cancelled => sCtl.ready = NoRing) /\ sCtl.outstanding \in 0 .. 2

\* A one-shot job leaves the worker only when its reader is through with it.
JobOutlivesReading ==
    sJob.where = "gone" => sRead.over # "active" /\ sCtl.outstanding = 0

\* Worker and reader never wait for each other: a worker that waits for a ring
\* has given the reader one to play, and an attempt the worker is through with
\* has been completed.
NobodyStuck ==
    /\ (sJob.at = "wait" /\ ~Cancelled /\ ~Room(Reclaimed(sCtl)) /\ sRead.over = "active")
         => (sCtl.ready # NoRing \/ sRead.held # NoRing)
    /\ (sSession = "running" /\ sJob.at = "top" /\ sRead.over = "active" /\ sRead.started
          /\ sJob.handled = sRead.gen /\ sCtl.requested = sRead.gen)
         => sCtl.completed = sRead.gen

\* All of them: a reader hears each prepared generation whole and in order, a
\* ready stream fits its ring, and neither side waits for the other for ever.
MediaSafe == HeardInOrder /\ SucceedsWhole /\ ReadyFits /\ JobOutlivesReading /\ NobodyStuck
=============================================================================
