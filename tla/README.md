# A verification project for rpt_advanced

rpt_advanced is a repeater controller in Rust.  Its core (`rust/core`) owns policy:
what is transmitted and when, which links exist, which events are due, what the
site equipment does, and how a new configuration replaces a running one.  The
product crate (`rust/product`) owns the threads: one serialized control executor,
a ticker that pumps it every ten milliseconds, dial threads, media and text
workers, one worker per site device, and the audio callbacks of every radio.
Control and audio share only lock-free structures: hazard slots, bounded rings and
atomics.  What can go wrong is therefore mostly an order of steps that no test
writes down, and that is what this project models.

## Modules

| Module | Models | State and actions |
| --- | --- | --- |
| `NodeHost` | `core/src/runtime/node_host.rs`, `generation.rs` | hazard slots, the published pointer, the store of active and retired generations, work permits; one step per atomic operation of a callback or of control |
| `GenerationCell` | what `NodeHost` promises | one cell with a current generation, its holders and the live ones; `NodeHost` refines it |
| `NodeHostInvariant`, `NodeHostStepProofs`, `NodeHostProofs` | the inductive invariant of `NodeHost`, its proof, the refinement | one lemma per step of a callback or of control |
| `MessagePreparation` | `core/src/controller/message.rs`, `audio/playback.rs`, `prepare_messages` of `runtime/aggregate.rs` | the request, ready and retired rings of every message reader, the audio calls that use them and the control pump that serves them |
| `MessageReaderProofs`, `MessagePreparationProofs` | proof that streams are kept and never stale | the reader's operations; then the steps of audio and of control |
| `EventScheduler`, `EventDispatch` | `core/src/runtime/scheduler.rs`, the event part of `product/src/lifecycle.rs` | reservations, status queues across a reload, two pumping threads and dial threads |
| `EventProofs` | proof that messages are queued once and only current work is carried out | operators of the scheduler, then one lemma per action |
| `ReloadTransaction` | `core/src/runtime/reload.rs`, `reload`, `commit` and `stop` of `runtime/aggregate.rs` | the retained transaction over radios that may refuse every call |
| `ReloadProofs` | proof that a reload is all or nothing on the radios' own callbacks | |
| `Controller` | `core/src/controller/*`, `core/src/policy/*` | `NodeController::step`, one sample per step, with every policy it consults |
| `Parrot` | `core/src/controller/parrot.rs` and its control endpoints | the live switch, two capture buffers, one queued recording |
| `LinkPlane` | `core/src/link/hub.rs`, `runtime/links.rs`, `runtime/link_schedule.rs`, `product/src/host.rs`, `product/src/lifecycle.rs` | peers, retries, routes and windows, dials in flight, commands, a reload and a stop |
| `RadioWorker` | `product/src/worker.rs`, the ring handoff of `product/src/host.rs` | the receive and transmit callbacks of one radio and the replacement of the ring between them |
| `RadioWorkerProofs` | proof that bursts stay apart | |
| `LinkMixer` | `core/src/link/audio.rs`, `signals.rs`, `audio/link_queue.rs` | one callback of the mixer, the block pool, the dispatcher and the peers' queues |
| `PeerIngress` | `product/src/link/session.rs`, `session/source.rs`, `core/src/link/peer.rs` | the receive side of one peer session: keying, digits, texts, source queries and talker bursts |
| `PeerOwner` | `product/src/link/session.rs`, `dispatcher.rs` | who may touch a peer session and a dispatch slot, and until when |
| `DetachProofs` | proofs that detached peer sessions are left alone (`PeerOwner`) and that the parrot's capture is never lost (`Parrot`) | |
| `PeerEgress` | `product/src/link/outbound.rs`, `source_clock.rs`, `audio/link_queue.rs` | source time of samples, spans and packets on their way to one peer |
| `StationMedia` | `product/src/media/worker.rs`, `finite.rs`, `core/src/audio/playback.rs` | the media worker of a generation and one reader: generations, segment rings, the switch to Morse |
| `TextSpeech` | `product/src/media/text.rs` | tickets, the job queue, two workers, one reader per origin |
| `ChildPcm` | `media-support/src/process.rs` | one child process, its pipes, the PCM decoded from it, the reaper |
| `SiteDevices` | `product/src/site/worker.rs`, `acquisition.rs`, `host_site.rs`, `lifecycle_site.rs` | device workers behind a numbered fence, polling, and the handoff of a reload or a shutdown |
| `RadioBank` | `product/src/site/radio_bank.rs` | pins of a radio that only the radio's own thread touches |
| `SitePolicy` | `core/src/site/*`, `product/src/host_site.rs` | sensors, inputs, alarms, outputs and fans of a station over one clock |

`MC*` modules give the constants their small values; a `.cfg` names the
specification and the properties of one run.  Where a module is checked on several
stations its `Init` picks one of a constant set of plans, each with its own bounds.
`MCHostPlane`, `MCControlPlane`, `MCController`, `MCLinkPlane` and `MCServices` check
several components in one run: they share no state in the models, a variable `part`
says which component moves, and the others rest as they begin or, where their
properties are stated in the suite, have no state at all.

How the parts interact in the code: the product's executor serializes every control
call, so a control action of a model is one atomic step unless the code leaves the
executor in between (a dial thread, a second task, a callback), and then it is two.
Audio callbacks and workers interleave with control at each atomic operation, ring
push or pop.  The components meet in a few places, and those are modelled on both
sides: a generation published by `ReloadTransaction` is what `NodeHost` lets
callbacks enter; `EventDispatch` queues into the status queue that `Controller`
plays; `MessagePreparation` and `StationMedia` are the two halves of a message's
stream; `PeerOwner` decides when the session of `PeerIngress` and `PeerEgress` may
be stepped.

## Runs

`tlc -config <cfg> <module>`; every passing run ends within a few minutes on two
workers.

| Run | Module, cfg | Shows |
| --- | --- | --- |
| host_safety | `MCNodeHost`, `NodeHost_safety.cfg` | no callback reads a freed or half-transferred generation, permits keep storage, nothing leaks, adoption never goes back, and the host implements `GenerationCell` |
| host_liveness | `MCHostPlane`, `HostPlane_liveness.cfg` | a stopped host is reclaimed, a replaced generation is freed, a reader's request is answered |
| controller_safety | `MCController`, `Controller_safety.cfg` | PTT is bounded by watchdog, inhibit and half duplex and is not dropped inside an item; tails need traffic; an overdue identifier goes first; the parrot keeps its capture; request and ready rings never overrun, streams are in exactly one place, none is stale |
| links_safety | `MCLinkPlane`, `LinkPlane_safety.cfg` | no loops, intent is kept, withdrawn dials publish nothing; bursts, ingress order, session ownership and source time |
| control_liveness | `MCControlPlane`, `ControlPlane_liveness.cfg` | reloads and stops end, a reservation is settled although a reload comes at any moment; a reload is all or nothing and callbacks run on their own radio, until a commit panics |
| services_safety | `MCServices`, `Services_safety.cfg` | events, media, texts, child PCM, site devices, radio pins and site policy |
| event_reload | `MCEventDispatch`, `EventDispatch_reload.cfg` | violated: an operation is carried out twice around a reload |
| controller_held | `MCController`, `Controller_held.cfg` | violated: a held message is cancelled when the timeout clears |
| links_orphan | `MCLinkPlane`, `LinkPlane_orphan.cfg` | violated: a transport stays connected without a peer |
| message_retired | `MCMessagePreparation`, `MessagePreparation_retired.cfg` | violated: the ring of retired streams overflows |
| reload_commit | `ReloadTransaction`, `ReloadTransaction_commit.cfg` | violated: a commit panics half-way |
| site_fan | `MCServices`, `Services_fan.cfg` | violated: an output taken from a fan keeps the fan's duty |

Deadlock is checked in event_reload; elsewhere a bound of a plan ends the behaviour.

### Panics

Two variables stand for an assertion or an `expect` of the code that fails.

- `fault` of `MessagePreparation` names the ring whose asserted push failed.  The
  audio callback runs under `catch_unwind` (`product/src/worker.rs:484` and `:612`),
  and the model ends at the first failure.  A push of a request or a completion never
  fails (`StreamsKept`); one of a retired stream may (message_retired), and loses the
  stream it held, so what `StreamsKept` and `NoStaleSnapshot` say of streams is said
  of the time before.
- `broken` of `ReloadTransaction` says that `commit_reload` has panicked at a station
  without an active generation.  The model goes on with what the unwinding leaves:
  stations gone from the list, their radios dropped, no retained transaction; reloads
  and stops may still follow, and `ReloadsEnd` covers them.  `ReloadAtomic` and
  `CallbacksMatchDevice` are false after it (reload_commit) and are stated, and
  proved, up to it.

### Bounds

- Node host: two addresses are the fewest that let one be reused while the other is
  protected, three generations let a stale pointer name a reused address, two
  attempts let an entry fail once and be retried, one permit is held or not; it is
  taken from the first generation, which two replacements then have to outwait.
- Node host, liveness: two generations and one attempt, no permits: a permit that its
  holder returns delays reclamation by one step of a fair action and doubles the graph.
- Messages: a recurring and a one-shot reader, two attempts: the second attempt is
  what a late completion of the first can be confused with.  For `RequestsAnswered`,
  two recurring readers, so that one may starve the other.
- Events: three minutes of a message that is due in each, one correction or repeated
  hour, one reload, one refusal; two pumps and any number of dials, as in the code.
  The plans of services_safety each take some of these; `ReservationsSettle` runs on
  one minute with a message, a dial and a macro.
- Controller: four to seven samples; every delay of a station is one to three
  samples, so each timer runs out, is restarted and runs out again.
- Links: two remote nodes, two dials, one or two commands, one reload; groups of
  two members; a window that opens and closes.
- Radio worker, mixer, ingress, owner, egress: rings of one to three entries so that
  they fill, two bursts or talkers, two reopened devices or redirects.
- Reload: two stations, two settings, two reloads: the second meets what a failed
  rollback of the first left.
- Services: up to three texts, six bytes, three layouts of a site, four ticks of
  the clock: each delay of the policy is shorter than that.

### Fairness

Weak fairness of a thread's next step stands for a thread that is scheduled: the
ticker pumps every ten milliseconds, callbacks return, dial threads end, the pump
polls a pending reload.  Strong fairness is used where the code polls something that
may be refused again and again: `Reclaim`, `RestoreCallbacks`, `RegisterAudio` and
`MarkDetached` of the host, whose callers repeat them every tick while they answer
busy, and `Progress` of a radio that is reopened until it opens.  Nothing is assumed
of operators, traffic, clocks or reload requests.  The fairness of a run is stated in
its suite (`MCHostPlane`, `MCControlPlane`).

## Proofs

TLAPS checks, for every value of the constants:

| Theorem | Module | States |
| --- | --- | --- |
| `TypeCorrect`, `CallbacksSafe`, `TransferExclusive`, `PermitsSafe`, `NoLeak`, `AdoptionMonotone` | `NodeHostProofs` | the safety properties of host_safety |
| `HostImplementsCell` | `NodeHostProofs` | the host implements `GenerationCell` |
| `StreamsSafe`, `SnapshotsFresh` | `MessagePreparationProofs` | `StreamsKept` and `NoStaleSnapshot` of controller_safety |
| `EventsSafe`, `EventStepsCurrent` | `EventProofs` | `EventsOnce` and `EventsCurrent` of services_safety |
| `CallbacksOnOwnRadio`, `ReloadsAreAtomic` | `ReloadProofs` | the safety properties of control_liveness: until a commit panics |
| `RadioSafe` | `RadioWorkerProofs` | `BurstsSeparate` of links_safety |
| `PeersSafe` | `DetachProofs` | `PeersOutliveCalls` of links_safety |
| `ParrotSafe` | `DetachProofs` | `ParrotKept` of controller_safety |

The assumptions are those the modules name: addresses exist and are not null, bounds
are natural numbers, reader sets are finite and disjoint, settings are positive, a
configured event has a set of due minutes, a kind and an operation.  Every `MC`
module extends the module it instantiates, so TLC evaluates them.

Each argument has the same shape: an inductive invariant, first checked by TLC, one
lemma for each action, and a last step that combines them.

- **Node host** (`IInv`).  `NoUseAfterFree` needs to know, at each step of the
  callback, what the hazard slot and the published pointer have to do with each
  other: a slot written before the pointer is read again protects the generation
  only if the pointer still names it; an address may have been reused, so the
  invariant ties the slot to the generation and not to the address.  Control's side
  says which of its scans has seen which slot empty.  The refinement maps the
  published pointer, the validated slots and the store to the cell; each step of the
  host is a step of the cell or a stutter.
- **Messages**.  A stream is in a ring, at a reader, in the hands of the pump or of a
  call, and the credits of a reader's rings add up to one outstanding attempt; the
  reader's `outstanding` flag says in which ring the credit is.  Freshness then
  follows from the number a completion carries.
- **Events** (`EventInv`).  That a message is queued once is not inductive: it needs
  an account of every message ever queued under the present identity of its event
  (spent, or the reservation marked queued; started, cancelled, or the admitted and
  still newest one), that the keys of an event are settled, reserved and captured
  in order, and that a token of an earlier scheduler is told by its generation and
  work begun before a reload by its revision.
- **Reload**.  Per station: which phase the transaction is in decides whether the
  entry gate is shut, which generation the radio is open for, and what a rollback
  would restore.  A commit that panics destroys all of this, so the invariant is
  `broken = "none" =>` these facts; the proof shows that only `CommitFault` breaks it.
- **Radio worker**.  The handoff token, the acknowledgement of a reset and the blocks
  of a ring are related across both callbacks: a ring holds only blocks of the burst
  its handoff names, or its reset is still owed.
- **Peer sessions** (`OwnerInv`).  The gate's count is the number of notifiers inside;
  a session's flags follow its place; the control task's program counter says what it
  has established so far.
- **Parrot** (`ParrotInv`).  The live switch is at rest, asked for or answered; each
  says which side holds the capture and where its two buffers are.

## Only model-checked

- Liveness (`ReclaimCompletes`, `RequestsAnswered`, `ReservationsSettle`,
  `ReloadsEnd`): temporal reasoning under fairness and ENABLED is
  out of the prover's reach.
- `LinksLoopFree`, `LinksIntent`, `VoidDials` and the controller's properties: their
  operators fold over queues and tables, and what a fold computes for every input
  needs induction over data, which the installed provers cannot instantiate.
- `OutputsSafe`, `PolicyHolds`: `SiteDevices` and `SitePolicy` define RECURSIVE
  operators, and a module that reaches one cannot be proved about.
- `MixerBursts`, `IngressOrder`, `PacketsTellSourceTime`, `SafeMedia`, `SafeTexts`,
  `SafePcm`, `PinsSafe`: no proof has been attempted; their inductive invariants would describe
  the contents of the queues entry by entry.

## Findings

- `OperationOnce` (event_reload): ADR 0009 promises that an operation is "never
  duplicated" across a reload.  The operation is carried out before its reservation
  is settled, and around a reload two threads pump, or the settlement is refused.
- `HeldMessageResumes` (controller_held): a scheduled message that the watchdog holds
  after its first sample is cancelled when it is to start again, where the code and
  ADR 0008 say it restarts.
- `NoOrphanPeer` (links_orphan): a reload between a disconnect and its physical detach
  leaves the transport connected and the route blocked.
- `RetirementHasRoom` (message_retired): a comment says that a request is taken only
  after the previous stream is reclaimed; control looks for retired streams first and
  takes requests later in the same pass, so a stream retired in between is still there
  when the next one is retired, and the assertion fails in the audio callback.
- `MixedStateNever` (reload_commit): a station stopped by a failed rollback stays
  configured, and the next commit panics on it after the radios were updated.
- `DemandDelivered` (site_fan): the caller of `reconfigure` is said to republish the
  outputs and republishes only the inhibit.

One more defect is visible in a model and has no run of its own: `PcmStream::read`
(`media-support/src/process.rs:432`) saves the bytes of a sample that the pipe cut in
two and never puts them back in front of the next read, so the samples behind the cut
are wrong.  `SafePcm` covers plans with such a pipe: samples are whole as long as
nothing was carried, and a stream with a cut never ends cleanly but in an error.

## Not modelled

Configuration parsing, message wording and templates, and signal processing are
sequential computations on data that no property here is about.  The hosts
(standalone and Asterisk), the IAX transport, EchoLink accounts and the device adapters
are I/O around the engine; the models take what they may do (answer late, refuse, lose,
fail) as inputs.  Counters that only diagnostics read, logging and report formatting are
left out of every module.
