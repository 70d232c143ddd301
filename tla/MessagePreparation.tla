------------------------- MODULE MessagePreparation -------------------------
(***************************************************************************)
(* The handoff that prepares recurring and one-shot messages: control owns *)
(* MessagePreparation (core/src/controller/message.rs), the audio callback *)
(* owns one MessageReader per recipe, wrapped in a Playback                *)
(* (core/src/audio/playback.rs).  A reader and its control port share      *)
(* three rings of ONE slot each:                                           *)
(*                                                                         *)
(*      requests   audio   -> control    an attempt wants media            *)
(*      ready      control -> audio      the prepared stream, or a failure *)
(*      retired    audio   -> control    a stream for control to destroy   *)
(*                                                                         *)
(* Every push onto a ring is asserted to succeed; an assertion that fails  *)
(* unwinds the callback and sets fault, and nothing is modelled after it.  *)
(* A call of the audio thread is a queue of steps (todo), one per use of   *)
(* the reader; the control thread is a program counter (pump) that moves   *)
(* one port at a time.  The two interleave at every step.  A stream is     *)
(* named by the attempt it was prepared for.                               *)
(***************************************************************************)
EXTENDS Naturals, FiniteSets, Sequences, Functions

CONSTANTS
  Recurring,    \* readers registered when the configuration is admitted
  OneShot,      \* readers registered for a reply, played once and dropped
  Recipes,      \* how many message recipes the node configures
  MaxSequence   \* the last attempt number (u64::MAX in the code)

Readers == Recurring \cup OneShot

ASSUME ReadersDisjoint == Recurring \cap OneShot = {}
ASSUME ReadersFinite == IsFiniteSet(Readers) /\ Cardinality(Recurring) \in Nat \ {0}
ASSUME RecipesPositive == Recipes \in Nat \ {0}
ASSUME SequenceNatural == MaxSequence \in Nat

Tries == 1 .. MaxSequence

None == 0

VARIABLES
  sequence,     \* attempts begun so far
  ports,        \* MessagePreparation.ports, a sequence of readers
  next,         \* MessagePreparation.next, the index of the next port to ask
  waiting,      \* ControlPort.waiting
  requests, ready, retired,   \* the three rings of each reader
  alive,        \* the flag Drop clears
  desired, awaited, failed, stream,   \* MessageReader
  started, morse, output, finished,       \* Playback
  holder,        \* who holds a reader: nobody yet, audio, the return queue, nobody
  todo, who,    \* the audio thread: the steps left of a call, and its reader
  pump,         \* the control thread: where prepare_messages stands
  visits,       \* recipes it may still visit in this pump
  scan,         \* ports it has looked at in this take_request
  live,         \* streams control has made and not yet destroyed
  fault         \* the ring whose asserted push failed

reader   == <<alive, desired, awaited, failed, stream>>
playback == <<started, morse, output, finished>>
rings    == <<requests, ready, retired>>
registry == <<ports, next, waiting, pump, visits, scan>>
audio    == <<todo, who>>

prepareVars == <<sequence, ports, next, waiting, requests, ready, retired, alive,
          desired, awaited, failed, stream, started, morse, output,
          finished, holder, todo, who, pump, visits, scan, live, fault>>

\* What a prepared attempt carries through the ready ring.
Ready == [attempt : Tries, ok : BOOLEAN]

\* The contents of a ring of one slot.
Slot(S) == {<<>>} \cup {<<x>> : x \in S}

AudioSteps == {"cancel", "begin", "select", "read"}

PumpSteps == {"idle", "take", "drain", "pop", "prepare"}

\* The type invariant: one slot per ring, and every attempt number in range.
PrepareTypeOK ==
  /\ sequence \in 0 .. MaxSequence
  /\ ports \in Seq(Readers) /\ Len(ports) <= Cardinality(Readers)
  /\ next \in 0 .. Cardinality(Readers)
  /\ waiting \in [Readers -> Tries \cup {None}]
  /\ requests \in [Readers -> Slot(Tries)]
  /\ ready \in [Readers -> Slot(Ready)]
  /\ retired \in [Readers -> Slot(Tries)]
  /\ alive \in [Readers -> BOOLEAN]
  /\ desired \in [Readers -> Tries \cup {None}]
  /\ awaited \in [Readers -> BOOLEAN]
  /\ failed \in [Readers -> BOOLEAN]
  /\ stream \in [Readers -> Tries \cup {None}]
  /\ started \in [Readers -> BOOLEAN]
  /\ morse \in [Readers -> {"off", "pending", "settled"}]
  /\ output \in [Readers -> BOOLEAN]
  /\ finished \in [Readers -> BOOLEAN]
  /\ holder \in [Readers -> {"unregistered", "audio", "returned", "dropped"}]
  /\ todo \in Seq(AudioSteps)
  /\ who \in Readers
  /\ pump \in PumpSteps
  /\ visits \in 0 .. Recipes
  /\ scan \in 0 .. Cardinality(Readers)
  /\ live \subseteq Tries
  /\ fault \in {"none", "requests", "ready", "retired"}

PrepareInit ==
  /\ sequence = 0
  /\ ports \in Injection(1 .. Cardinality(Recurring), Recurring)
  /\ next = 0
  /\ waiting = [p \in Readers |-> None]
  /\ requests = [p \in Readers |-> <<>>]
  /\ ready = [p \in Readers |-> <<>>]
  /\ retired = [p \in Readers |-> <<>>]
  /\ alive = [p \in Readers |-> p \in Recurring]
  /\ desired = [p \in Readers |-> None]
  /\ awaited = [p \in Readers |-> FALSE]
  /\ failed = [p \in Readers |-> FALSE]
  /\ stream = [p \in Readers |-> None]
  /\ started = [p \in Readers |-> FALSE]
  /\ morse = [p \in Readers |-> "off"]
  /\ output = [p \in Readers |-> FALSE]
  /\ finished = [p \in Readers |-> FALSE]
  /\ holder = [p \in Readers |-> IF p \in Recurring THEN "audio" ELSE "unregistered"]
  /\ todo = <<>>
  /\ who \in Recurring
  /\ pump = "idle"
  /\ visits = 0
  /\ scan = 0
  /\ live = {}
  /\ fault = "none"

-----------------------------------------------------------------------------
(***************************************************************************)
(* The audio thread: calls of the controller on a Playback.                *)
(***************************************************************************)

\* MessageReader::start: the reader is cancelled, then begins an attempt.
StartSteps == <<"cancel", "begin">>

\* A playback that is over or has not begun.
Released(p) == finished[p] \/ ~started[p]

\* The controller calls into the Playback that is active, one call at a time;
\* another one becomes active when this one is released.
Calls(p) ==
  /\ fault = "none"
  /\ todo = <<>>
  /\ holder[p] = "audio"
  /\ p = who \/ Released(who)

\* Playback::render up to the reader's first step.  An interrupting receiver
\* starts the attempt even with no room for output, and asks for Morse once.
Render(p, receiving, room) ==
  LET latch == IF receiving /\ morse[p] = "off" THEN "pending" ELSE morse[p]
  IN  /\ Calls(p)
      /\ ~finished[p]
      /\ who' = p
      /\ todo' = (IF ~started[p] /\ (receiving \/ room) THEN StartSteps ELSE <<>>)
                 \o (IF latch = "pending" THEN <<"select">> ELSE <<>>)
                 \o (IF room THEN <<"read">> ELSE <<>>)
      /\ started' = [started EXCEPT ![p] = @ \/ receiving \/ room]
      /\ morse' = [morse EXCEPT ![p] = latch]
      /\ UNCHANGED <<sequence, registry, rings, reader, output, finished, holder, live, fault>>

\* Playback::restart before a new attempt of a recurring message.
Restart(p, receiving) ==
  /\ Calls(p)
  /\ finished[p] \/ ~started[p]
  /\ who' = p
  /\ finished' = [finished EXCEPT ![p] = FALSE]
  /\ output' = [output EXCEPT ![p] = FALSE]
  /\ started' = [started EXCEPT ![p] = receiving]
  /\ morse' = [morse EXCEPT ![p] = IF receiving THEN "pending" ELSE "off"]
  /\ todo' = IF receiving THEN StartSteps \o <<"select">> ELSE <<>>
  /\ UNCHANGED <<sequence, registry, rings, reader, holder, live, fault>>

\* Playback::defer of an item that has not been heard: its stream is given up
\* and a fresh attempt is made when the item is eligible again.
Defer(p, receiving) ==
  /\ Calls(p)
  /\ ~finished[p]
  /\ ~output[p]
  /\ who' = p
  /\ todo' = <<"cancel">>
  /\ started' = [started EXCEPT ![p] = FALSE]
  /\ morse' = [morse EXCEPT ![p] = IF receiving \/ @ # "off" THEN "pending" ELSE "off"]
  /\ UNCHANGED <<sequence, registry, rings, reader, output, finished, holder, live, fault>>

\* restart(false) then defer(false): a held status and begin_timeout.
Hold(p) ==
  /\ Calls(p)
  /\ ~finished[p]
  /\ who' = p
  /\ todo' = <<"cancel">>
  /\ output' = [output EXCEPT ![p] = FALSE]
  /\ started' = [started EXCEPT ![p] = FALSE]
  /\ morse' = [morse EXCEPT ![p] = "off"]
  /\ UNCHANGED <<sequence, registry, rings, reader, finished, holder, live, fault>>

\* Playback::rewind of a tail that was already heard, preempted by q.
Rewind(p, q) ==
  /\ Calls(p)
  /\ ~finished[p]
  /\ output[p]
  /\ who' = q
  /\ started' = [started EXCEPT ![p] = TRUE]
  /\ morse' = [morse EXCEPT ![p] = IF @ # "off" THEN "pending" ELSE "off"]
  /\ UNCHANGED <<sequence, registry, rings, reader, output, finished, holder, todo, live, fault>>

\* Playback::finish, whatever its outcome: the reader is cancelled.
Finish(p) ==
  /\ finished' = [finished EXCEPT ![p] = TRUE]
  /\ todo' = <<"cancel">>

Cancel(p) ==
  /\ Calls(p)
  /\ ~finished[p]
  /\ who' = p
  /\ Finish(p)
  /\ UNCHANGED <<sequence, registry, rings, reader, started, morse, output, holder, live, fault>>

\* finish_status: a played one-shot reader goes back to control.
ReturnReader(p) ==
  /\ Calls(p)
  /\ p \in OneShot
  /\ finished[p]
  /\ holder' = [holder EXCEPT ![p] = "returned"]
  /\ UNCHANGED <<sequence, registry, rings, reader, playback, audio, live, fault>>

-----------------------------------------------------------------------------
(***************************************************************************)
(* The audio thread: the steps of a call.                                  *)
(***************************************************************************)

\* What a poll finds and leaves: the reader's fields and its rings.
View(p) ==
  [desired |-> desired[p], outstanding |-> awaited[p], failed |-> failed[p],
   stream |-> stream[p], requests |-> requests[p], ready |-> ready[p],
   retired |-> retired[p], fault |-> "none"]

\* Push onto a one-slot ring, asserted to have room.
Push(v, ring, item) ==
  IF v[ring] = <<>> THEN [v EXCEPT ![ring] = <<item>>] ELSE [v EXCEPT !.fault = ring]

\* Mutant of Consume: a stream nobody wants is dropped on the audio thread.
ConsumeDropsUnwanted(v) ==
  IF v.ready = <<>>
    THEN v
    ELSE LET got == Head(v.ready)
             left == [v EXCEPT !.ready = <<>>, !.outstanding = FALSE]
         IN  CASE got.ok /\ got.attempt = v.desired -> [left EXCEPT !.stream = got.attempt]
               [] got.ok /\ got.attempt # v.desired -> left
               [] OTHER -> [left EXCEPT !.failed = @ \/ got.attempt = v.desired]

\* Mutant of Consume: a late completion is played whatever it was for.
ConsumeAnything(v) ==
  IF v.ready = <<>>
    THEN v
    ELSE LET got == Head(v.ready)
             left == [v EXCEPT !.ready = <<>>, !.outstanding = FALSE]
         IN  IF got.ok THEN [left EXCEPT !.stream = got.attempt] ELSE [left EXCEPT !.failed = TRUE]

\* The first half of poll: consume a completion.  A stream that is no longer
\* wanted is retired at once, a failure that is no longer wanted is ignored.
Consume(v) ==
  IF v.ready = <<>>
    THEN v
    ELSE LET got == Head(v.ready)
             left == [v EXCEPT !.ready = <<>>, !.outstanding = FALSE]
         IN  CASE got.ok /\ got.attempt = v.desired -> [left EXCEPT !.stream = got.attempt]
               [] got.ok /\ got.attempt # v.desired -> Push(left, "retired", got.attempt)
               [] OTHER -> [left EXCEPT !.failed = @ \/ got.attempt = v.desired]

\* The second half of poll: ask for the desired attempt, while no earlier
\* request is unanswered.
Ask(v) ==
  IF v.desired # None /\ ~v.failed /\ ~v.outstanding /\ v.stream = None
    THEN [Push(v, "requests", v.desired) EXCEPT !.outstanding = TRUE]
    ELSE v

\* MessageReader::poll.  A failed assertion ends the call.
Poll(v) == IF Consume(v).fault = "none" THEN Ask(Consume(v)) ELSE Consume(v)

\* MessageReader::cancel up to its poll: the stream, if any, is retired.
Retire(v) ==
  LET left == [v EXCEPT !.desired = None, !.stream = None]
  IN  IF v.stream = None THEN left ELSE Push(left, "retired", v.stream)

\* MessageReader::cancel.
CancelReader(v) == IF Retire(v).fault = "none" THEN Poll(Retire(v)) ELSE Retire(v)

\* MessageReader::start after its cancel: the next attempt, or a failure when
\* the sequence is exhausted; then poll.
BeginReader(v) ==
  Poll([v EXCEPT !.failed = sequence = MaxSequence,
                 !.desired = IF sequence = MaxSequence THEN None ELSE sequence + 1])

\* Reader p becomes v.
Becomes(p, v) ==
  /\ desired' = [desired EXCEPT ![p] = v.desired]
  /\ awaited' = [awaited EXCEPT ![p] = v.outstanding]
  /\ failed' = [failed EXCEPT ![p] = v.failed]
  /\ stream' = [stream EXCEPT ![p] = v.stream]
  /\ requests' = [requests EXCEPT ![p] = v.requests]
  /\ ready' = [ready EXCEPT ![p] = v.ready]
  /\ retired' = [retired EXCEPT ![p] = v.retired]
  /\ fault' = v.fault

Step(name) ==
  /\ fault = "none"
  /\ todo # <<>>
  /\ Head(todo) = name

CancelStep ==
  /\ Step("cancel")
  /\ Becomes(who, CancelReader(View(who)))
  /\ todo' = Tail(todo)
  /\ UNCHANGED <<sequence, registry, alive, playback, holder, who, live>>

BeginStep ==
  /\ Step("begin")
  /\ Becomes(who, BeginReader(View(who)))
  /\ sequence' = IF sequence = MaxSequence THEN sequence ELSE sequence + 1
  /\ todo' = Tail(todo)
  /\ UNCHANGED <<registry, alive, playback, holder, who, live>>

\* What a reader answers after its poll: a failure, nothing yet, or what its
\* stream answers.
Answers(v, all, none, bad) ==
  CASE v.failed -> {bad}
    [] ~v.failed /\ v.stream = None -> {none}
    [] OTHER -> all

\* MessageReader::select_morse_fallback, and Playback::render on its answer.
SelectStep ==
  LET v == Poll(View(who))
  IN  /\ Step("select")
      /\ Becomes(who, v)
      /\ \E chosen \in Answers(v, {"selected", "pending", "unavailable"}, "pending", "unavailable") :
           /\ morse' = [morse EXCEPT ![who] = IF chosen = "pending" THEN @ ELSE "settled"]
           /\ CASE chosen = "selected" -> todo' = Tail(todo) /\ UNCHANGED finished
                [] chosen = "pending" -> todo' = <<>> /\ UNCHANGED finished
                [] OTHER -> Finish(who)
      /\ UNCHANGED <<sequence, registry, alive, started, output, holder, who, live>>

\* MessageReader::render, and the end of Playback::render on its answer.
ReadStep ==
  LET v == Poll(View(who))
  IN  /\ Step("read")
      /\ Becomes(who, v)
      /\ \E got \in Answers(v, {"samples", "final", "pending", "ended"}, "pending", "ended") :
           /\ output' = [output EXCEPT ![who] = @ \/ got \in {"samples", "final"}]
           /\ IF got \in {"final", "ended"}
                THEN Finish(who)
                ELSE todo' = <<>> /\ UNCHANGED finished
      /\ UNCHANGED <<sequence, registry, alive, started, morse, holder, who, live>>

Steps == CancelStep \/ BeginStep \/ SelectStep \/ ReadStep

Audio ==
  \/ \E p \in Readers :
       \/ \E receiving, room \in BOOLEAN : Render(p, receiving, room)
       \/ \E receiving \in BOOLEAN : Restart(p, receiving) \/ Defer(p, receiving)
       \/ \E q \in Recurring : Rewind(p, q)
       \/ Hold(p) \/ Cancel(p) \/ ReturnReader(p)
  \/ Steps

-----------------------------------------------------------------------------
(***************************************************************************)
(* The control thread.                                                     *)
(***************************************************************************)

PumpAt(label) ==
  /\ fault = "none"
  /\ pump = label

\* queue_message_index: register a one-shot reader and hand it to audio.
Register(p) ==
  /\ PumpAt("idle")
  /\ p \in OneShot
  /\ holder[p] = "unregistered"
  /\ ports' = Append(ports, p)
  /\ alive' = [alive EXCEPT ![p] = TRUE]
  /\ holder' = [holder EXCEPT ![p] = "audio"]
  /\ UNCHANGED <<sequence, next, waiting, pump, visits, scan, rings, desired,
                 awaited, failed, stream, playback, audio, live, fault>>

\* telemetry.reclaim().for_each(drop): a returned reader is dropped on control.
\* Drop cancels, so an unread completion is moved to the retired ring.  The
\* fields of a reader that is gone have no further meaning.
DropReader(p) ==
  /\ PumpAt("idle")
  /\ holder[p] = "returned"
  /\ Becomes(p, [CancelReader(View(p)) EXCEPT !.outstanding = FALSE, !.failed = FALSE])
  /\ alive' = [alive EXCEPT ![p] = FALSE]
  /\ holder' = [holder EXCEPT ![p] = "dropped"]
  /\ started' = [started EXCEPT ![p] = FALSE]
  /\ morse' = [morse EXCEPT ![p] = "off"]
  /\ output' = [output EXCEPT ![p] = FALSE]
  /\ UNCHANGED <<sequence, registry, finished, audio, live>>

\* prepare_messages starts a pump: at most one visit per configured recipe.
BeginPump ==
  /\ PumpAt("idle")
  /\ pump' = "take"
  /\ visits' = Recipes
  /\ UNCHANGED <<sequence, ports, next, waiting, scan, rings, reader, playback, audio, holder,
                 live, fault>>

\* Vec::retain on the ports: at lists, in order, the indices of those it keeps.
Keeps(at) ==
  /\ \A i, j \in DOMAIN at : i < j => at[i] < at[j]
  /\ Range(at) = {i \in DOMAIN ports : alive[ports[i]]}

\* take_request, first part: forget the ports of dropped readers.  A port that
\* goes away destroys what its rings still hold.
Retain ==
  LET gone == {p \in Range(ports) : ~alive[p]}
      Emptied(ring) == [p \in Readers |-> IF p \in gone THEN <<>> ELSE ring[p]]
  IN  /\ PumpAt("take")
      /\ \E n \in 0 .. Len(ports) : \E at \in [1 .. n -> DOMAIN ports] :
           Keeps(at) /\ ports' = [i \in 1 .. n |-> ports[at[i]]]
      /\ next' = IF next >= Len(ports') THEN 0 ELSE next
      /\ live' = live \ UNION {Range(retired[p]) : p \in gone}
      /\ requests' = Emptied(requests)
      /\ retired' = Emptied(retired)
      /\ pump' = "drain"
      /\ scan' = 0
      /\ visits' = visits - 1
      /\ UNCHANGED <<sequence, waiting, ready, reader, playback, audio, holder, fault>>

\* take_request, second part: destroy the retired streams, port by port.
Drain ==
  /\ PumpAt("drain")
  /\ IF scan < Len(ports)
       THEN LET p == ports[scan + 1]
            IN  /\ live' = live \ Range(retired[p])
                /\ retired' = [retired EXCEPT ![p] = <<>>]
                /\ scan' = scan + 1
                /\ UNCHANGED pump
       ELSE /\ pump' = "pop"
            /\ scan' = 0
            /\ UNCHANGED <<retired, live>>
  /\ UNCHANGED <<sequence, ports, next, waiting, visits, requests, ready, reader,
                 playback, audio, holder, fault>>

\* Mutant of Pop: only the port at the cursor is asked, and the cursor moves on
\* only when it is served.
PopOnePort ==
  LET p == ports[next + 1]
  IN  /\ PumpAt("pop")
      /\ IF requests[p] = <<>>
           THEN /\ pump' = "idle"
                /\ visits' = 0
                /\ UNCHANGED <<next, requests, waiting>>
           ELSE /\ next' = (next + 1) % Len(ports)
                /\ requests' = [requests EXCEPT ![p] = <<>>]
                /\ waiting' = [waiting EXCEPT ![p] = Head(requests[p])]
                /\ pump' = "prepare"
                /\ UNCHANGED visits
      /\ UNCHANGED <<sequence, ports, scan, ready, retired, reader, playback, audio, holder,
                     live, fault>>

\* take_request, third part: the first request in round-robin order.
Pop ==
  /\ PumpAt("pop")
  /\ IF scan < Len(ports)
       THEN LET p == ports[next + 1]
            IN  /\ next' = (next + 1) % Len(ports)
                /\ UNCHANGED visits
                /\ IF requests[p] = <<>>
                     THEN /\ scan' = scan + 1
                          /\ UNCHANGED <<requests, waiting, pump>>
                     ELSE /\ requests' = [requests EXCEPT ![p] = <<>>]
                          /\ waiting' = [waiting EXCEPT ![p] = Head(requests[p])]
                          /\ pump' = "prepare"
                          /\ UNCHANGED scan
       ELSE /\ pump' = "idle"
            /\ visits' = 0
            /\ UNCHANGED <<next, scan, requests, waiting>>
  /\ UNCHANGED <<sequence, ports, ready, retired, reader, playback, audio, holder,
                 live, fault>>

\* MessagePreparation::complete: the port that waits for this attempt gets the
\* stream, or the failure.
Settle(p, ok) ==
  /\ ready' = [ready EXCEPT ![p] = IF @ = <<>> THEN <<[attempt |-> waiting[p], ok |-> ok]>> ELSE @]
  /\ fault' = IF ready[p] = <<>> THEN "none" ELSE "ready"
  /\ waiting' = [waiting EXCEPT ![p] = None]
  /\ live' = IF ok THEN live \cup {waiting[p]} ELSE live

\* The loop body of prepare_messages: prepare the recipe's media, or fail, and
\* complete exactly this attempt.
Complete(p, ok) ==
  /\ PumpAt("prepare")
  /\ waiting[p] # None
  /\ Settle(p, ok)
  /\ pump' = IF visits > 0 THEN "take" ELSE "idle"
  /\ UNCHANGED <<sequence, ports, next, visits, scan, requests, retired, reader, playback,
                 audio, holder>>

Pump ==
  \/ BeginPump \/ Retain \/ Drain \/ Pop
  \/ \E p \in Readers, ok \in BOOLEAN : Complete(p, ok)

Control == Pump \/ \E p \in OneShot : Register(p) \/ DropReader(p)

PrepareNext == Audio \/ Control

PrepareSpec == PrepareInit /\ [][PrepareNext]_prepareVars

-----------------------------------------------------------------------------
(***************************************************************************)
(* Properties.                                                             *)
(***************************************************************************)

\* The asserted pushes of requests and completions never fail: a reader has
\* one request outstanding until its completion is consumed, whatever it
\* cancels, restarts or defers in between (message.rs:140 and 192).
CreditsHold == fault \notin {"requests", "ready"}

\* The places a prepared stream can be.
Places(a) ==
  {<<"ready", p>> : p \in {q \in Readers : [attempt |-> a, ok |-> TRUE] \in Range(ready[q])}}
    \cup {<<"stream", p>> : p \in {q \in Readers : stream[q] = a}}
    \cup {<<"retired", p>> : p \in {q \in Readers : a \in Range(retired[q])}}

\* Until an assertion fails, every stream control prepares is in exactly one
\* place until control itself destroys it: the audio thread neither loses,
\* duplicates nor frees one.  The push whose assertion fails loses its stream.
StreamsConserved ==
  fault = "none" =>
    \A a \in Tries : IF a \in live THEN \E x \in Places(a) : Places(a) = {x} ELSE Places(a) = {}

\* The rings of requests and completions never overflow, and until the retired
\* ring does (RetirementHasRoom, which the code does not keep) no stream is lost,
\* duplicated or freed by the audio thread (message.rs:136-172, 184-196).
StreamsKept == CreditsHold /\ StreamsConserved

\* Between calls, a reader holds a stream only for the attempt it is playing:
\* an item that was restarted, deferred or held keeps no "stale, never-played
\* value snapshot" (playback.rs:150), though completions arrive late.
NoStaleSnapshot ==
  \A p \in Readers :
    stream[p] # None /\ (p = who => todo = <<>>) /\ fault = "none" =>
      /\ stream[p] = desired[p]
      /\ started[p]
      /\ ~finished[p]

\* The comment in MessageReader::retire (message.rs:164) says "A new request is
\* taken only after control reclaims the previous stream.": its assertion that
\* the retired ring has room would then never fail.
RetirementHasRoom == fault # "retired"
=============================================================================
