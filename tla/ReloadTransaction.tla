------------------------- MODULE ReloadTransaction --------------------------
(***************************************************************************)
(* Two-phase replacement of a configuration: Runtime::reload, poll_reload, *)
(* commit_reload and stop (core/src/runtime/aggregate.rs) and the retained *)
(* ReloadTransaction (core/src/runtime/reload.rs).                         *)
(*                                                                         *)
(* A node's settings are a number, 0 when it is not configured.  A poll    *)
(* runs on the control thread from node to node without waiting; at says   *)
(* where it stands.  The radio hardware (DeviceHandoff) and the audio      *)
(* callbacks run beside it and answer as they like within their contract.  *)
(* A panic of a control task is caught by the executor, which drops what   *)
(* the task owned and goes on.                                             *)
(***************************************************************************)
EXTENDS Naturals, FiniteSets

CONSTANTS
  N,            \* stations are 1 .. N, in configuration order
  Settings,     \* the settings a station may be given
  MaxReloads    \* reloads attempted

ASSUME SettingsPositive == Settings \subseteq Nat \ {0}
ASSUME BoundsNatural == N \in Nat /\ MaxReloads \in Nat

Names == 1 .. N
Off == 0
Documents == [Names -> Settings \cup {Off}]

VARIABLES
  document, nodes, retiredNodes,   \* Runtime: published settings, its node lists
  halting,                   \* Runtime.stopping
  stored,                     \* settings of the host's stored generation, or Off
  retiring,                   \* the host retains another generation
  stopped, gated,             \* the host admits no work; no callback may enter
  inside,                     \* a callback is inside the active generation
  device, activated, quiet,       \* the radio: settings it is open for, activated, quiesced
  staged,                     \* settings of an update the radio can still undo
  open,                       \* RuntimeNode.device_open
  orphans,                    \* leases whose node was dropped before they closed
  tx,                         \* the retained transaction, if any
  at,                         \* where the control thread stands in a poll
  reloads,
  broken                      \* history: whether a commit has panicked

runtime == <<document, nodes, retiredNodes, halting>>
host    == <<stored, retiring, stopped, gated>>
radio   == <<device, activated, quiet, staged>>

reloadVars == <<document, nodes, retiredNodes, halting, stored, retiring, stopped, gated,
          inside, device, activated, quiet, staged, open, orphans, tx, at, reloads, broken>>

Forward == {"none", "prepare", "quiescing", "open", "waiting", "ready"}
Restoring == {"none", "close", "open", "waiting", "failed", "done"}

Transactions ==
  [target : Documents, state : [Names -> Forward], failed : BOOLEAN,
   changed : SUBSET Names, updated : SUBSET Names, opened : SUBSET Names,
   restoring : [Names -> Restoring], restored : BOOLEAN]

NoTransaction ==
  [target |-> [n \in Names |-> Off], state |-> [n \in Names |-> "none"], failed |-> FALSE,
   changed |-> {}, updated |-> {}, opened |-> {},
   restoring |-> [n \in Names |-> "none"], restored |-> TRUE]

Pending == tx # NoTransaction

Phases == {"idle", "forward", "fresh", "restore", "updates", "settle", "commit"}

Idle == [phase |-> "idle", at |-> 0]

\* The type invariant.
ReloadTypeOK ==
  /\ document \in Documents
  /\ nodes \subseteq Names /\ retiredNodes \subseteq Names /\ orphans \subseteq Names
  /\ halting \in BOOLEAN
  /\ stored \in [Names -> Settings \cup {Off}]
  /\ \A f \in {retiring, stopped, gated, inside, activated, quiet, open} : f \in [Names -> BOOLEAN]
  /\ device \in [Names -> Settings \cup {Off}]
  /\ staged \in [Names -> Settings \cup {Off}]
  /\ tx \in Transactions
  /\ at \in [phase : Phases, at : 0 .. N + 1]
  /\ reloads \in 0 .. MaxReloads
  /\ broken \in {"none", "commit"}

\* A running station.
ReloadInit ==
  /\ document \in {d \in Documents : \E n \in Names : d[n] # Off}
  /\ nodes = {n \in Names : document[n] # Off} /\ retiredNodes = {}
  /\ halting = FALSE
  /\ stored = document
  /\ retiring = [n \in Names |-> FALSE]
  /\ stopped = [n \in Names |-> FALSE]
  /\ gated = [n \in Names |-> document[n] = Off]
  /\ inside = [n \in Names |-> FALSE]
  /\ device = document
  /\ activated = [n \in Names |-> document[n] # Off]
  /\ quiet = [n \in Names |-> document[n] = Off]
  /\ staged = [n \in Names |-> Off]
  /\ open = [n \in Names |-> document[n] # Off]
  /\ orphans = {}
  /\ tx = NoTransaction
  /\ at = Idle
  /\ reloads = 0
  /\ broken = "none"

---------------------------------------------------------------------------
(* The audio callbacks.                                                    *)

Enter(n) ==
  /\ ~gated[n] /\ ~inside[n] /\ ~quiet[n] /\ device[n] # Off
  /\ inside' = [inside EXCEPT ![n] = TRUE]
  /\ UNCHANGED <<runtime, host, radio, open, orphans, tx, at, reloads, broken>>

Leave(n) ==
  /\ inside[n]
  /\ inside' = [inside EXCEPT ![n] = FALSE]
  /\ UNCHANGED <<runtime, host, radio, open, orphans, tx, at, reloads, broken>>

---------------------------------------------------------------------------
(* Radio operations, as the contract of DeviceHandoff states them.         *)

\* A refused open() may leave the device half open for the same settings.
\* quiesce() is true only once no callback of the device is inside.
CanQuiesce(n) == ~inside[n]

Closed(n) ==
  /\ device' = [device EXCEPT ![n] = Off]
  /\ activated' = [activated EXCEPT ![n] = FALSE]
  /\ quiet' = [quiet EXCEPT ![n] = TRUE]
  /\ staged' = [staged EXCEPT ![n] = Off]

Opened(n, s) ==
  /\ device' = [device EXCEPT ![n] = s]
  /\ quiet' = [quiet EXCEPT ![n] = FALSE]
  /\ UNCHANGED <<activated, staged>>

Activated(n) ==
  /\ activated' = [activated EXCEPT ![n] = TRUE]
  /\ UNCHANGED <<device, quiet, staged>>

---------------------------------------------------------------------------
(* Starting a reload, and a poll.                                          *)

\* Runtime::reload refuses while anything of the last change is unfinished.
BeginReload(target) ==
  /\ at = Idle /\ reloads < MaxReloads
  /\ ~halting /\ ~Pending /\ retiredNodes = {}
  /\ \A n \in nodes : ~retiring[n] /\ (stopped[n] => stored[n] = Off)
  /\ tx' = [NoTransaction EXCEPT
              !.target = target,
              !.state = [n \in Names |-> IF target[n] # Off THEN "prepare" ELSE "none"]]
  /\ at' = [phase |-> "forward", at |-> 1]
  /\ reloads' = reloads + 1
  /\ UNCHANGED <<runtime, host, inside, radio, open, orphans, broken>>

\* A failure turns the transaction round.
Failing(t) ==
  [t EXCEPT !.failed = TRUE,
            !.restoring = [n \in Names |-> IF n \in t.changed THEN "close" ELSE "none"]]

BeginPoll ==
  /\ at = Idle /\ Pending
  /\ tx' = IF halting /\ ~tx.failed THEN Failing(tx) ELSE tx
  /\ at' = IF tx'.failed THEN [phase |-> "fresh", at |-> N] ELSE [phase |-> "forward", at |-> 1]
  /\ UNCHANGED <<runtime, host, inside, radio, open, orphans, reloads, broken>>

Here(phase, n) == at = [phase |-> phase, at |-> n]

NextNode == at' = [at EXCEPT !.at = @ + 1]

PriorNode == at' = [at EXCEPT !.at = @ - 1]

Fail(t) ==
  /\ tx' = Failing(t)
  /\ at' = [phase |-> "fresh", at |-> N]

---------------------------------------------------------------------------
(* Going forward: one step of a candidate's DeviceProgress.                *)

\* quiesce() asks for callback detachment even when it is not complete yet.
Asked(n, asking) ==
  /\ quiet' = IF asking THEN [quiet EXCEPT ![n] = TRUE] ELSE quiet
  /\ UNCHANGED <<device, activated, staged>>

\* Nothing to wait for here: ready, not yet able to go on, or no candidate.
ForwardPass(n) ==
  /\ Here("forward", n)
  /\ tx.state[n] \in {"none", "ready", "quiescing", "waiting"}
  /\ Asked(n, tx.state[n] = "quiescing")
  /\ NextNode
  /\ UNCHANGED <<runtime, host, inside, open, orphans, tx, reloads, broken>>

\* An unchanged radio, or a new station.
PrepareSimple(n) ==
  /\ Here("forward", n) /\ tx.state[n] = "prepare"
  /\ n \in nodes => document[n] = tx.target[n]
  /\ tx' = [tx EXCEPT !.state[n] = IF n \in nodes THEN "ready" ELSE "open"]
  /\ UNCHANGED <<runtime, host, inside, radio, open, orphans, at, reloads, broken>>

\* The radio may take the edit in place; an error still counts as touched.
PrepareUpdate(n) ==
  /\ Here("forward", n) /\ tx.state[n] = "prepare"
  /\ n \in nodes /\ document[n] # tx.target[n]
  /\ \/ /\ device[n] # Off
        /\ staged' = [staged EXCEPT ![n] = tx.target[n]]
        /\ tx' = [tx EXCEPT !.updated = @ \cup {n}, !.state[n] = "ready"]
        /\ UNCHANGED at
     \/ /\ \/ UNCHANGED staged
           \/ device[n] # Off /\ staged' = [staged EXCEPT ![n] = tx.target[n]]
        /\ Fail([tx EXCEPT !.updated = @ \cup {n}])
  /\ UNCHANGED <<runtime, host, inside, device, activated, quiet, open, orphans, reloads, broken>>

\* Otherwise the device changes hands, unless somebody still works on the station.
PrepareHandoff(n) ==
  /\ Here("forward", n) /\ tx.state[n] = "prepare"
  /\ n \in nodes /\ document[n] # tx.target[n]
  /\ \/ /\ ~inside[n]
        /\ tx' = [tx EXCEPT !.changed = @ \cup {n}, !.state[n] = "quiescing"]
        /\ UNCHANGED at
     \/ Fail(tx)
  /\ UNCHANGED <<runtime, host, inside, radio, open, orphans, reloads, broken>>

\* Mutant: the device is closed without gating callback entry.
QuiescedUngated(n) ==
  /\ Here("forward", n) /\ tx.state[n] = "quiescing" /\ CanQuiesce(n)
  /\ Closed(n)
  /\ open' = [open EXCEPT ![n] = FALSE]
  /\ tx' = [tx EXCEPT !.state[n] = "open"]
  /\ UNCHANGED <<runtime, host, inside, orphans, at, reloads, broken>>

\* A callback got inside while the device was quiescing: its entry is gated,
\* and the device is not closed before a later poll finds the callback gone.
GateProtected(n) ==
  /\ Here("forward", n) /\ tx.state[n] = "quiescing" /\ inside[n]
  /\ gated' = [gated EXCEPT ![n] = TRUE]
  /\ Asked(n, TRUE)
  /\ NextNode
  /\ UNCHANGED <<runtime, stored, retiring, stopped, inside, open, orphans, tx, reloads, broken>>

\* Quiesce, gate callback entry, find nobody inside, close.
Quiesced(n) ==
  /\ Here("forward", n) /\ tx.state[n] = "quiescing" /\ CanQuiesce(n)
  /\ gated' = [gated EXCEPT ![n] = TRUE]
  /\ Closed(n)
  /\ open' = [open EXCEPT ![n] = FALSE]
  /\ tx' = [tx EXCEPT !.state[n] = "open"]
  /\ UNCHANGED <<runtime, stored, retiring, stopped, inside, orphans, at, reloads, broken>>

\* Open for the candidate; a fresh lease is recorded before the answer is known.
OpenNew(n) ==
  LET t == IF n \in nodes THEN tx ELSE [tx EXCEPT !.opened = @ \cup {n}]
  IN  /\ Here("forward", n) /\ tx.state[n] = "open"
      /\ \/ /\ Opened(n, tx.target[n])
            /\ open' = IF n \in nodes THEN [open EXCEPT ![n] = TRUE] ELSE open
            /\ tx' = [t EXCEPT !.state[n] = "waiting"]
            /\ UNCHANGED at
         \/ /\ Opened(n, tx.target[n]) \/ UNCHANGED radio
            /\ Fail(t)
            /\ UNCHANGED open
      /\ UNCHANGED <<runtime, host, inside, orphans, reloads, broken>>

WaitNew(n) ==
  /\ Here("forward", n) /\ tx.state[n] = "waiting"
  /\ \/ /\ Activated(n)
        /\ tx' = [tx EXCEPT !.state[n] = "ready"]
        /\ UNCHANGED at
     \/ Fail(tx) /\ UNCHANGED radio
  /\ UNCHANGED <<runtime, host, inside, open, orphans, reloads, broken>>

ForwardEnd ==
  /\ Here("forward", N + 1)
  /\ at' = IF \A n \in Names : tx.state[n] \in {"none", "ready"}
             THEN [phase |-> "commit", at |-> 1] ELSE Idle
  /\ UNCHANGED <<runtime, host, inside, radio, open, orphans, tx, reloads, broken>>

---------------------------------------------------------------------------
(* Going back.                                                             *)

\* Fresh leases are closed, the last opened first; one that is not quiet
\* makes the others wait.
CloseFresh(n) ==
  /\ Here("fresh", n) /\ n \in tx.opened /\ CanQuiesce(n)
  /\ Closed(n)
  /\ tx' = [tx EXCEPT !.opened = @ \ {n}]
  /\ PriorNode
  /\ UNCHANGED <<runtime, host, inside, open, orphans, reloads, broken>>

FreshPass(n) ==
  /\ Here("fresh", n)
  /\ \/ n \notin tx.opened /\ PriorNode
     \/ n \in tx.opened /\ at' = [phase |-> "restore", at |-> N]
  /\ UNCHANGED <<runtime, host, inside, radio, open, orphans, tx, reloads, broken>>

\* Nothing to restore here, or not yet.
RestorePass(n) ==
  /\ Here("restore", n)
  /\ tx.restoring[n] # "open"
  /\ Asked(n, tx.restoring[n] \in {"close", "failed"})
  /\ PriorNode
  /\ UNCHANGED <<runtime, host, inside, open, orphans, tx, reloads, broken>>

RestoreClose(n) ==
  /\ Here("restore", n) /\ tx.restoring[n] = "close" /\ CanQuiesce(n)
  /\ Closed(n)
  /\ open' = [open EXCEPT ![n] = FALSE]
  /\ tx' = [tx EXCEPT !.restoring[n] = IF halting THEN "done" ELSE "open"]
  /\ UNCHANGED <<runtime, host, inside, orphans, at, reloads, broken>>

\* Reopen with the settings still in force.
RestoreOpen(n) ==
  /\ Here("restore", n) /\ tx.restoring[n] = "open"
  /\ \/ /\ Opened(n, document[n])
        /\ open' = [open EXCEPT ![n] = TRUE]
        /\ tx' = [tx EXCEPT !.restoring[n] = "waiting"]
     \/ /\ Opened(n, document[n]) \/ UNCHANGED radio
        /\ open' = [open EXCEPT ![n] = FALSE]
        /\ tx' = [tx EXCEPT !.restoring[n] = "failed"]
  /\ UNCHANGED <<runtime, host, inside, orphans, at, reloads, broken>>

\* Only an activated device gets its callbacks back.
RestoreWait(n) ==
  /\ Here("restore", n) /\ tx.restoring[n] = "waiting"
  /\ \/ /\ Activated(n)
        /\ gated' = [gated EXCEPT ![n] = stopped[n] \/ stored[n] = Off]
        /\ tx' = [tx EXCEPT !.restoring[n] = "done"]
     \/ /\ tx' = [tx EXCEPT !.restoring[n] = "failed"]
        /\ UNCHANGED <<radio, gated>>
  /\ UNCHANGED <<runtime, stored, retiring, stopped, inside, open, orphans, at, reloads, broken>>

\* Mutant: a lease that cannot be had back is tried again.
RestoreRetried(n) ==
  /\ Here("restore", n) /\ tx.restoring[n] = "failed" /\ CanQuiesce(n)
  /\ Closed(n)
  /\ open' = [open EXCEPT ![n] = FALSE]
  /\ tx' = [tx EXCEPT !.restoring[n] = "open"]
  /\ UNCHANGED <<runtime, host, inside, orphans, at, reloads, broken>>

\* The old lease cannot be had back: the station stops.
RestoreFailed(n) ==
  /\ Here("restore", n) /\ tx.restoring[n] = "failed" /\ CanQuiesce(n)
  /\ Closed(n)
  /\ open' = [open EXCEPT ![n] = FALSE]
  /\ stopped' = [stopped EXCEPT ![n] = TRUE]
  /\ gated' = [gated EXCEPT ![n] = TRUE]
  /\ tx' = [tx EXCEPT !.restoring[n] = "done", !.restored = FALSE]
  /\ UNCHANGED <<runtime, stored, retiring, inside, orphans, at, reloads, broken>>

\* stop_node: gate the host, then close the device if it is quiet by now.
StopNodes(S, closing) ==
  /\ closing \subseteq {n \in S : open[n] /\ CanQuiesce(n)}
  /\ stopped' = [n \in Names |-> stopped[n] \/ n \in S]
  /\ gated' = [n \in Names |-> gated[n] \/ n \in S]
  /\ open' = [n \in Names |-> open[n] /\ n \notin closing]

\* Radios of the nodes in S are closed.
CloseAll(S) ==
  /\ device' = [n \in Names |-> IF n \in S THEN Off ELSE device[n]]
  /\ activated' = [n \in Names |-> activated[n] /\ n \notin S]
  /\ quiet' = [n \in Names |-> quiet[n] \/ n \in S]
  /\ staged' = [n \in Names |-> IF n \in S THEN Off ELSE staged[n]]

\* A node without a generation is dropped at once; its open lease is orphaned.
Empty == {n \in Names : stored[n] = Off /\ ~retiring[n]}

\* Every staged edit is undone; a radio that cannot undo it stops its station.
UndoUpdate(n) ==
  /\ Here("updates", n)
  /\ PriorNode
  /\ \/ /\ n \notin tx.updated
        /\ UNCHANGED <<tx, radio, host, open>>
     \/ /\ n \in tx.updated /\ device[n] # Off
        /\ staged' = [staged EXCEPT ![n] = Off]
        /\ tx' = [tx EXCEPT !.updated = @ \ {n}]
        /\ UNCHANGED <<device, activated, quiet, host, open>>
     \/ /\ n \in tx.updated
        /\ \E closing \in SUBSET {n} :
             /\ StopNodes({n}, closing)
             /\ IF closing = {} THEN UNCHANGED radio ELSE Closed(n)
        /\ tx' = [tx EXCEPT !.updated = @ \ {n}, !.restored = FALSE]
        /\ UNCHANGED <<stored, retiring>>
  /\ UNCHANGED <<runtime, inside, orphans, reloads, broken>>

\* From one phase of the way back to the next.
BackPhase ==
  /\ at.at = 0 /\ at.phase \in {"fresh", "restore", "updates"}
  /\ at' = CASE at.phase = "fresh" -> [phase |-> "restore", at |-> N]
             [] at.phase = "restore" -> [phase |-> "updates", at |-> N]
             [] at.phase = "updates" -> [phase |-> "settle", at |-> 0]
  /\ UNCHANGED <<runtime, host, inside, radio, open, orphans, tx, reloads, broken>>

\* Mutant: the transaction is dropped once its fresh leases are closed.
RollbackEndEarly ==
  /\ Here("settle", 0)
  /\ tx' = IF tx.opened = {} THEN NoTransaction ELSE tx
  /\ at' = Idle
  /\ UNCHANGED <<runtime, host, inside, radio, open, orphans, reloads, broken>>

\* The rollback is over once every lease is closed or restored.
RollbackEnd ==
  /\ Here("settle", 0)
  /\ tx' = IF tx.opened = {} /\ \A n \in tx.changed : tx.restoring[n] = "done"
             THEN NoTransaction ELSE tx
  /\ at' = Idle
  /\ UNCHANGED <<runtime, host, inside, radio, open, orphans, reloads, broken>>

---------------------------------------------------------------------------
(* Commit.                                                                 *)

\* finish_update(true) for the staged edits, in order.
CommitUpdate(n) ==
  /\ Here("commit", n)
  /\ IF n \in tx.updated
       THEN /\ device' = [device EXCEPT ![n] = staged[n]]
            /\ staged' = [staged EXCEPT ![n] = Off]
            /\ UNCHANGED <<activated, quiet>>
       ELSE UNCHANGED radio
  /\ NextNode
  /\ UNCHANGED <<runtime, host, inside, open, orphans, tx, reloads, broken>>

\* A radio that refuses to finish: every touched station stops, every fresh
\* lease is closed, and nothing is published.
CommitRefused(n) ==
  LET touched == tx.changed \cup tx.updated
  IN  /\ Here("commit", n) /\ n \in tx.updated
      /\ \E closing \in SUBSET touched :
           /\ StopNodes(touched, closing)
           /\ CloseAll(closing \cup tx.opened)
      /\ tx' = NoTransaction /\ at' = Idle
      /\ UNCHANGED <<runtime, stored, retiring, inside, orphans, reloads, broken>>

\* Publication: every station gets its new generation, every removed one stops.
Commit ==
  LET kept == {n \in Names : tx.target[n] # Off}
      removed == nodes \ kept
  IN  /\ Here("commit", N + 1)
      /\ \A n \in kept \cap nodes : ~stopped[n]
      /\ \E closing \in SUBSET {n \in removed : open[n] /\ CanQuiesce(n)} :
           /\ open' = [n \in Names |->
                \/ n \in kept /\ (open[n] \/ n \notin nodes)
                \/ n \in removed \ Empty /\ open[n] /\ n \notin closing]
           /\ CloseAll(closing \cup (removed \cap Empty))
           /\ orphans' = orphans \cup {n \in (removed \cap Empty) \ closing : open[n]}
      /\ stored' = [n \in Names |-> IF n \in kept THEN tx.target[n] ELSE stored[n]]
      /\ retiring' = [n \in Names |-> retiring[n] \/ n \in kept \cap nodes]
      /\ stopped' = [n \in Names |-> n \in removed]
      /\ gated' = [n \in Names |-> n \notin kept]
      /\ document' = tx.target
      /\ nodes' = kept
      /\ retiredNodes' = removed \ Empty
      /\ tx' = NoTransaction /\ at' = Idle
      /\ UNCHANGED <<halting, inside, reloads, broken>>

\* commit_reload expects every station it replaces to be active, and finds one
\* stopped.  The stations before it were published already and wait in next;
\* next, the stopped station, the remaining candidates and their fresh leases
\* are dropped as the panic unwinds.  The stations after it stay as the
\* transaction left them, and nothing else of the runtime has changed.
CommitFault ==
  LET kept == {n \in Names : tx.target[n] # Off}
      found == {n \in kept \cap nodes : stopped[n]}
      dropped == {n \in kept : \E m \in found : n <= m /\ \A k \in found : m <= k} \cup tx.opened
  IN  /\ Here("commit", N + 1)
      /\ found # {}
      /\ nodes' = nodes \ dropped
      /\ orphans' = orphans \cup tx.opened \cup {n \in nodes \cap dropped : open[n]}
      /\ CloseAll(dropped)
      /\ open' = [n \in Names |-> open[n] /\ n \notin dropped]
      /\ stored' = [n \in Names |-> IF n \in dropped THEN Off ELSE stored[n]]
      /\ retiring' = [n \in Names |-> retiring[n] /\ n \notin dropped]
      /\ stopped' = [n \in Names |-> stopped[n] /\ n \notin dropped]
      /\ gated' = [n \in Names |-> gated[n] \/ n \in dropped]
      /\ broken' = "commit" /\ tx' = NoTransaction /\ at' = Idle
      /\ UNCHANGED <<document, retiredNodes, halting, inside, reloads>>

---------------------------------------------------------------------------
(* Between polls.                                                          *)

\* The product acknowledges a retired or stopped generation and it is reclaimed;
\* a removed station goes with its last generation.
ReleaseNodes(n) ==
  /\ at = Idle
  /\ retiring[n] \/ (stopped[n] /\ stored[n] # Off)
  /\ ~inside[n]
  /\ retiring' = [retiring EXCEPT ![n] = FALSE]
  /\ stored' = IF stopped[n] THEN [stored EXCEPT ![n] = Off] ELSE stored
  /\ IF n \in retiredNodes
       THEN /\ retiredNodes' = retiredNodes \ {n}
            /\ orphans' = IF open[n] THEN orphans \cup {n} ELSE orphans
            /\ stopped' = [stopped EXCEPT ![n] = FALSE]
            /\ open' = [open EXCEPT ![n] = FALSE]
            /\ Closed(n)
       ELSE UNCHANGED <<retiredNodes, orphans, stopped, open, radio>>
  /\ UNCHANGED <<document, nodes, halting, gated, inside, tx, at, reloads, broken>>

\* The product keeps quiescing a lease nobody owns any more.
Prune(n) ==
  /\ n \in orphans
  /\ orphans' = orphans \ {n}
  /\ UNCHANGED <<runtime, host, inside, radio, open, tx, at, reloads, broken>>

\* Runtime::stop while a reload is pending: gate every host, then poll.
StopPending ==
  /\ at = Idle /\ Pending /\ ~halting
  /\ halting' = TRUE
  /\ stopped' = [n \in Names |-> stopped[n] \/ n \in nodes]
  /\ gated' = [n \in Names |-> gated[n] \/ n \in nodes]
  /\ UNCHANGED <<document, nodes, retiredNodes, stored, retiring, inside, radio, open,
                 orphans, tx, at, reloads, broken>>

\* Runtime::stop: retire every node; the caller repeats it until all are gone.
StopRuntime ==
  LET S == nodes \cup {n \in retiredNodes : open[n]}
  IN  /\ at = Idle /\ ~Pending
      /\ ~halting \/ S # {}
      /\ halting' = TRUE
      /\ \E closing \in SUBSET {n \in S : open[n] /\ CanQuiesce(n)} :
           /\ stopped' = [n \in Names |-> stopped[n] \/ n \in S]
           /\ gated' = [n \in Names |-> gated[n] \/ n \in S]
           /\ open' = [n \in Names |-> open[n] /\ n \notin closing \cup Empty]
           /\ CloseAll(closing \cup Empty)
           /\ orphans' = orphans \cup {n \in Empty \ closing : open[n]}
      /\ retiredNodes' = (retiredNodes \cup nodes) \ Empty
      /\ nodes' = {}
      /\ UNCHANGED <<document, stored, retiring, inside, tx, at, reloads, broken>>

PollReload ==
  \/ BeginPoll
  \/ \E n \in Names :
       \/ ForwardPass(n) \/ PrepareSimple(n) \/ PrepareUpdate(n) \/ PrepareHandoff(n)
       \/ GateProtected(n) \/ Quiesced(n) \/ OpenNew(n) \/ WaitNew(n)
       \/ CloseFresh(n) \/ FreshPass(n) \/ RestorePass(n) \/ RestoreClose(n) \/ RestoreOpen(n)
       \/ RestoreWait(n) \/ RestoreFailed(n) \/ UndoUpdate(n)
       \/ CommitUpdate(n) \/ CommitRefused(n)
  \/ ForwardEnd \/ BackPhase \/ RollbackEnd \/ Commit \/ CommitFault

ReloadNext ==
  \/ \E n \in Names : Enter(n) \/ Leave(n) \/ ReleaseNodes(n) \/ Prune(n)
  \/ \E target \in Documents : BeginReload(target)
  \/ PollReload
  \/ StopPending \/ StopRuntime

ReloadSpec == ReloadInit /\ [][ReloadNext]_reloadVars

\* The radio goes on: it becomes quiet, or says whether it activates.
Progress ==
  \E n \in Names : Quiesced(n) \/ WaitNew(n) \/ CloseFresh(n)
                  \/ RestoreClose(n) \/ RestoreWait(n) \/ RestoreFailed(n)

---------------------------------------------------------------------------
(* Properties.                                                             *)

\* Audio never runs on a foreign device: while callbacks may enter a station,
\* its radio, when open at all, is set up for the generation they enter; only an
\* edit the radio took in place may run ahead of its publication.  This is said
\* of a runtime whose commit has not panicked; MixedStateNever says what is left
\* by one that has.
CallbacksMatchDevice ==
  broken = "none" =>
    \A n \in nodes \ tx.updated : ~gated[n] => stored[n] # Off /\ device[n] \in {Off, stored[n]}

\* Every configured station either runs the published settings on a radio open
\* for them, with no edit left staged, or is stopped with its callbacks gated.
Consistent ==
  \A n \in nodes :
    \/ /\ stored[n] = document[n] /\ device[n] = document[n]
       /\ open[n] /\ activated[n] /\ ~gated[n] /\ staged[n] = Off
    \/ stopped[n] /\ gated[n]

\* A lease opened for a station that was never published does not outlive the
\* transaction.
FreshLeasesClosed == \A n \in Names : n \notin nodes \cup retiredNodes => device[n] = Off

\* A reload is all or nothing: once no transaction is retained, whether it was
\* published or rolled back, every station of the published document is still
\* configured and consistent with it, and no other has a radio; unless a commit
\* has panicked (MixedStateNever).
ReloadAtomic ==
  broken = "none" /\ ~Pending /\ at = Idle =>
    /\ ~halting => nodes = {n \in Names : document[n] # Off}
    /\ Consistent
    /\ FreshLeasesClosed

\* What commit_reload says of itself: "No fallible preparation remains"
\* (aggregate.rs:788) once every native update is finished, and a broken host
\* contract "degrades safely instead of publishing mixed state"
\* (aggregate.rs:772).  A station that an earlier rollback stopped makes it panic
\* after that point.
MixedStateNever == ~Pending /\ at = Idle => Consistent
=============================================================================
