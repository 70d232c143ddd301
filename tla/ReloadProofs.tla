---------------------------- MODULE ReloadProofs -----------------------------
(***************************************************************************)
(* A reload is all or nothing, and no callback runs on a foreign radio:    *)
(* the proof for any number of stations, settings and reloads.  First the  *)
(* invariant and the steps of a poll that concern one station, then those  *)
(* that begin, commit, undo or cut short a reload as a whole.              *)
(*                                                                         *)
(* Neither CallbacksMatchDevice nor ReloadAtomic is inductive.  What they  *)
(* need is where each station stands in the retained transaction: one it   *)
(* has not touched is at rest; one whose radio changes hands is gated from *)
(* its quiescence on, and goes through the steps of DeviceProgress on the  *)
(* way out and of restoring on the way back; one whose radio took the edit *)
(* in place still runs the published settings until finish_update passes   *)
(* it; a station that is not published yet has a radio only while the      *)
(* transaction lists its lease.  All of it is said of a runtime in which   *)
(* no commit has panicked: that step sets broken, for good.                *)
(***************************************************************************)
EXTENDS ReloadTransaction, TLAPS

\* The provers, and the times, for a leaf that names none.
USE ZenonT(2), SMTT(10), ZenonT(20), SMTT(30), ZenonT(60)

\* A configured station that runs what is published, and one that is stopped.
Running(n) ==
  /\ stored[n] = document[n] /\ device[n] = document[n] /\ staged[n] = Off
  /\ open[n] /\ activated[n] /\ ~gated[n] /\ ~stopped[n]
Dead(n) == stopped[n] /\ gated[n]
Rest(n) == Running(n) \/ Dead(n)

\* What holds of the host and the radio of a station, whatever happens to them:
\* stop gates it, it is configured until the runtime stops and is stopped with
\* it, it has its published generation until that is reclaimed, and a closed
\* radio holds no edit.
Hosted(n) ==
  /\ stopped[n] => gated[n]
  /\ device[n] = Off => staged[n] = Off
  /\ document[n] # Off => n \in nodes \/ halting
  /\ n \in nodes =>
       /\ document[n] # Off /\ n \notin retiredNodes
       /\ halting => stopped[n]
       /\ stored[n] = document[n] \/ (stopped[n] /\ stored[n] = Off)

\* Where a poll may stand, and which stations the transaction may list.
Shape ==
  /\ Pending \/ at.phase # "idle" => retiredNodes = {}
  /\ broken = "none"
  /\ at.phase \in {"forward", "commit"} => ~tx.failed /\ ~halting
  /\ at.phase \in {"fresh", "restore", "updates", "settle"} => tx.failed
  /\ tx.changed \subseteq nodes /\ tx.updated \subseteq nodes
  /\ \A n \in tx.opened : n \notin nodes
  /\ \A n \in tx.changed : n \notin tx.updated
  /\ at.phase = "commit" => \A n \in Names : tx.state[n] \in {"none", "ready"}
  /\ at.phase = "updates" => \A n \in tx.updated : n <= at.at
  /\ at.phase = "settle" => tx.updated = {}

\* A station the transaction has not touched.
Untouched(n) ==
  /\ n \in nodes /\ n \notin tx.changed /\ n \notin tx.updated => Rest(n)
  /\ n \notin nodes /\ n \notin retiredNodes /\ n \notin tx.opened => device[n] = Off

\* finish_update(true) has passed station n.
Finished(n) == at.phase = "commit" /\ n < at.at

\* A station whose radio took the edit in place.
Edited(n) ==
  \/ Dead(n)
  \/ /\ stored[n] = document[n] /\ open[n] /\ activated[n] /\ ~gated[n] /\ ~stopped[n]
     /\ Finished(n) => device[n] = tx.target[n] /\ staged[n] = Off
     /\ ~Finished(n) => device[n] = document[n] /\ (~tx.failed => staged[n] = tx.target[n])

\* A radio that was handed over, or a fresh one: what its progress says of it.
Advanced(n) ==
  /\ tx.state[n] \in {"waiting", "ready"} => device[n] = tx.target[n] /\ staged[n] = Off
  /\ tx.state[n] \in {"waiting", "ready"} /\ n \in nodes => open[n]
  /\ tx.state[n] = "ready" => activated[n]
  /\ tx.state[n] = "open" => device[n] = Off

\* Going forward.
Candidate(n) ==
  /\ tx.state[n] = "none" <=> tx.target[n] = Off
  /\ n \in nodes =>
       \/ tx.state[n] \in {"none", "prepare"} /\ n \notin tx.changed /\ n \notin tx.updated
       \/ tx.state[n] = "ready" /\ n \in tx.updated /\ Edited(n)
       \/ tx.state[n] = "ready" /\ n \notin tx.changed /\ n \notin tx.updated /\ document[n] = tx.target[n]
       \/ tx.state[n] = "quiescing" /\ n \in tx.changed /\ (Rest(n) \/ gated[n])
       \/ tx.state[n] \in {"open", "waiting", "ready"} /\ n \in tx.changed /\ gated[n] /\ Advanced(n)
  /\ n \notin nodes =>
       \/ tx.state[n] \in {"none", "prepare", "open"} /\ n \notin tx.opened
       \/ tx.state[n] \in {"waiting", "ready"} /\ n \in tx.opened /\ Advanced(n)

\* Going back.
Returning(n) ==
  /\ tx.restoring[n] = "none" <=> n \notin tx.changed
  /\ n \in tx.updated => Edited(n)
  /\ tx.restoring[n] \in {"close", "failed"} /\ ~gated[n] => device[n] \in {Off, document[n]}
  /\ tx.restoring[n] = "open" => device[n] = Off
  /\ tx.restoring[n] = "waiting" => device[n] = document[n] /\ staged[n] = Off /\ open[n]
  /\ tx.restoring[n] = "done" => Rest(n)

\* Where one station stands.
Station(n) ==
  /\ Hosted(n) /\ Untouched(n)
  /\ ~tx.failed => Candidate(n)
  /\ tx.failed => Returning(n)

\* The inductive invariant.
ReloadInv == ReloadTypeOK /\ Shape /\ \A n \in Names : Station(n)

-----------------------------------------------------------------------------
(* The types, one by one, and what leaves a station alone.                 *)

\* The host's and the radio's flags are functions of the station.
LEMMA FlagTypes ==
  ASSUME ReloadTypeOK
  PROVE  /\ retiring \in [Names -> BOOLEAN] /\ stopped \in [Names -> BOOLEAN]
         /\ gated \in [Names -> BOOLEAN] /\ inside \in [Names -> BOOLEAN]
         /\ activated \in [Names -> BOOLEAN] /\ quiet \in [Names -> BOOLEAN]
         /\ open \in [Names -> BOOLEAN]
BY DEF ReloadTypeOK

\* The fields of a transaction.
LEMMA TransactionTypes ==
  ASSUME NEW t \in Transactions
  PROVE  /\ t.target \in [Names -> Settings \cup {Off}] /\ t.state \in [Names -> Forward]
         /\ t.failed \in BOOLEAN /\ t.restored \in BOOLEAN
         /\ t.changed \subseteq Names /\ t.updated \subseteq Names /\ t.opened \subseteq Names
         /\ t.restoring \in [Names -> Restoring]
BY DEF Transactions, Documents

\* A step that leaves the host, the radio and the transaction of station n alone.
SameHost(n) ==
  /\ document'[n] = document[n]
  /\ n \in nodes' <=> n \in nodes
  /\ n \in retiredNodes' <=> n \in retiredNodes
  /\ n \in nodes /\ halting' => halting
  /\ halting => halting'
  /\ stored'[n] = stored[n] /\ stopped'[n] = stopped[n] /\ gated'[n] = gated[n]
  /\ open'[n] = open[n]

SameRadio(n) ==
  /\ device'[n] = device[n] /\ staged'[n] = staged[n] /\ activated'[n] = activated[n]

SameProgress(n) ==
  /\ tx'.target[n] = tx.target[n] /\ tx'.state[n] = tx.state[n]
  /\ tx'.restoring[n] = tx.restoring[n]
  /\ tx'.failed <=> tx.failed
  /\ n \in tx'.changed <=> n \in tx.changed
  /\ n \in tx'.updated <=> n \in tx.updated
  /\ n \in tx'.opened <=> n \in tx.opened
  /\ n \in tx.updated => (Finished(n)' <=> Finished(n))

\* Such a station stands where it stood.
LEMMA StationFrame ==
  ASSUME NEW n, Station(n), SameHost(n), SameRadio(n), SameProgress(n)
  PROVE  Station(n)'
<1>1. (Rest(n)' <=> Rest(n)) /\ (Advanced(n)' <=> Advanced(n))
  BY DEF SameHost, SameRadio, SameProgress, Rest, Running, Dead, Advanced
<1>2. n \in tx.updated => (Edited(n)' <=> Edited(n))
  BY DEF SameHost, SameRadio, SameProgress, Edited, Dead
<1>3. Hosted(n)' /\ Untouched(n)'
  BY <1>1 DEF Station, SameHost, SameRadio, SameProgress, Hosted, Untouched
<1>4. ~tx'.failed => Candidate(n)'
  BY <1>1, <1>2 DEF Station, SameHost, SameRadio, SameProgress, Candidate
<1>5. tx'.failed => Returning(n)'
  BY <1>1, <1>2 DEF Station, SameHost, SameRadio, SameProgress, Returning
<1> QED  BY <1>3, <1>4, <1>5 DEF Station

\* A step that moves only callbacks, orphans, quiescence and the poll itself.
LEMMA Standing ==
  ASSUME ReloadInv, UNCHANGED <<runtime, host, device, activated, staged, open, tx>>,
         inside' \in [Names -> BOOLEAN], quiet' \in [Names -> BOOLEAN], orphans' \subseteq Names,
         at' \in [phase : Phases, at : 0 .. N + 1], reloads' = reloads, Shape',
         \A n \in Names : n \in tx.updated => (Finished(n)' <=> Finished(n))
  PROVE  ReloadInv'
<1>1. ReloadTypeOK'
  BY FlagTypes DEF ReloadInv, ReloadTypeOK, Shape, runtime, host
<1>2. ASSUME NEW n \in Names PROVE Station(n)'
  <2>1. SameHost(n) /\ SameRadio(n) /\ SameProgress(n)
    BY DEF SameHost, SameRadio, SameProgress, runtime, host
  <2> QED  BY <2>1, StationFrame DEF ReloadInv
<1> QED  BY <1>1, <1>2 DEF ReloadInv

\* Callbacks and pruned leases.
LEMMA BesideStep ==
  ASSUME ReloadInv,
         \/ \E n \in Names : Enter(n) \/ Leave(n) \/ Prune(n)
         \/ UNCHANGED reloadVars
  PROVE  ReloadInv'
<1> USE SettingsPositive, BoundsNatural
<1>1. /\ UNCHANGED <<runtime, host, device, activated, staged, quiet, open, tx, at, reloads>>
      /\ inside' \in [Names -> BOOLEAN] /\ orphans' \subseteq Names
  BY Zenon, FlagTypes DEF ReloadInv, ReloadTypeOK, Enter, Leave, Prune, reloadVars, runtime, host, radio
<1>2. broken' = broken
  BY DEF Enter, Leave, Prune, reloadVars
<1>3. Shape'
  BY <1>1, <1>2 DEF ReloadInv, Shape, Pending, Idle, runtime
<1>4. \A n \in Names : n \in tx.updated => (Finished(n)' <=> Finished(n))
  BY <1>1, <1>2 DEF Finished
<1> QED  BY <1>1, <1>3, <1>4, FlagTypes, Standing DEF ReloadInv, ReloadTypeOK

\* The steps of a poll that only move on.
LEMMA MoveStep ==
  ASSUME ReloadInv,
         \/ \E m \in Names : ForwardPass(m) \/ FreshPass(m) \/ RestorePass(m)
         \/ ForwardEnd \/ BackPhase
  PROVE  ReloadInv'
<1> USE SettingsPositive, BoundsNatural
<1>1. /\ UNCHANGED <<runtime, host, device, activated, staged, inside, open, orphans, tx, reloads>>
      /\ quiet' \in [Names -> BOOLEAN]
  BY Zenon, FlagTypes DEF ReloadInv, ReloadTypeOK, ForwardPass, FreshPass, RestorePass, ForwardEnd, BackPhase,
       Asked, runtime, host, radio
<1>2. at' \in [phase : Phases, at : 0 .. N + 1]
  BY DEF ReloadInv, ReloadTypeOK, ForwardPass, FreshPass, RestorePass, ForwardEnd, BackPhase,
       Here, NextNode, PriorNode, Idle, Phases, Names
<1>3. broken' = broken
  BY DEF ForwardPass, FreshPass, RestorePass, ForwardEnd, BackPhase
<1>4. \/ at'.phase = at.phase /\ at.phase \in {"forward", "fresh", "restore"}
      \/ at.phase = "forward" /\ at' = Idle
      \/ /\ at.phase = "forward" /\ at' = [phase |-> "commit", at |-> 1]
         /\ \A n \in Names : tx.state[n] \in {"none", "ready"}
      \/ at.phase = "fresh" /\ at'.phase = "restore"
      \/ at.phase = "restore" /\ at' = [phase |-> "updates", at |-> N]
      \/ at.phase = "updates" /\ at = [phase |-> "updates", at |-> 0] /\ at' = [phase |-> "settle", at |-> 0]
  BY DEF ReloadInv, ReloadTypeOK, ForwardPass, FreshPass, RestorePass, ForwardEnd, BackPhase,
       Here, NextNode, PriorNode
<1>5. Shape'
  BY <1>1, <1>3, <1>4, TransactionTypes DEF ReloadInv, ReloadTypeOK, Shape, Pending, Idle, Names, runtime
<1>6. \A n \in Names : n \in tx.updated => (Finished(n)' <=> Finished(n))
  BY <1>3, <1>4 DEF ReloadInv, Shape, Finished, Idle, Names
<1> QED  BY <1>1, <1>2, <1>5, <1>6, Standing, FlagTypes DEF ReloadInv, ReloadTypeOK

-----------------------------------------------------------------------------
(* The steps of a poll that concern one station.                           *)

\* Only station m moves.
Others(m) == \A n \in Names : n # m => SameHost(n) /\ SameRadio(n) /\ SameProgress(n)

\* The rest of the stations then stand where they stood.
LEMMA OneStation ==
  ASSUME ReloadInv, ReloadTypeOK', Shape', NEW m \in Names, Others(m), Station(m)'
  PROVE  ReloadInv'
<1>1. ASSUME NEW n \in Names, n # m PROVE Station(n)'
  BY <1>1, StationFrame DEF ReloadInv, Others
<1> QED  BY <1>1 DEF ReloadInv

\* An unchanged radio is ready, a new station is to be opened.
LEMMA PrepareSimpleStep ==
  ASSUME ReloadInv, NEW m \in Names, PrepareSimple(m)
  PROVE  ReloadInv'
<1> USE SettingsPositive, BoundsNatural
<1>0. at' \in [phase : Phases, at : 0 .. N + 1]
  BY DEF ReloadInv, ReloadTypeOK, PrepareSimple, runtime, host, radio, Here, Names
<1>1. ReloadTypeOK'
  BY Zenon, <1>0, FlagTypes, TransactionTypes DEF ReloadInv, ReloadTypeOK, PrepareSimple, runtime, host, radio, Transactions, Forward, Restoring
<1>2. Shape'
  BY FlagTypes, TransactionTypes DEF ReloadInv, ReloadTypeOK, Shape, Pending, PrepareSimple, runtime, host, radio, Here, Names
<1>3. Others(m)
  BY FlagTypes, TransactionTypes DEF ReloadInv, ReloadTypeOK, Others, SameHost, SameRadio, SameProgress, Finished,
       PrepareSimple, runtime, host, radio, Here, Names
<1>4. Station(m)'
  BY FlagTypes, TransactionTypes DEF ReloadInv, ReloadTypeOK, Shape, Station, Hosted, Untouched, Candidate, Returning,
       Advanced, Edited, Finished, Rest, Running, Dead, PrepareSimple, runtime, host, radio, Here, Names
<1> QED  BY <1>1, <1>2, <1>3, <1>4, OneStation

\* A callback that got inside is gated and waited for.
LEMMA GateProtectedStep ==
  ASSUME ReloadInv, NEW m \in Names, GateProtected(m)
  PROVE  ReloadInv'
<1> USE SettingsPositive, BoundsNatural
<1>0. at' \in [phase : Phases, at : 0 .. N + 1]
  <2>1. at = [phase |-> "forward", at |-> m] /\ at' = [at EXCEPT !.at = at.at + 1]
    BY DEF GateProtected, NextNode, Here
  <2>2. at' = [phase |-> "forward", at |-> m + 1] /\ m + 1 \in 0 .. N + 1
    BY <2>1 DEF Names
  <2> QED  BY <2>2 DEF Phases
<1>1. ReloadTypeOK'
  BY ZenonT(60), <1>0, FlagTypes DEF ReloadInv, ReloadTypeOK, GateProtected, Asked, runtime
<1>2. Shape'
  BY FlagTypes, TransactionTypes DEF ReloadInv, ReloadTypeOK, Shape, Pending, GateProtected, NextNode, Asked, runtime, Here, Names
<1>3. Others(m)
  BY FlagTypes, TransactionTypes DEF ReloadInv, ReloadTypeOK, Others, SameHost, SameRadio, SameProgress, Finished,
       GateProtected, NextNode, Asked, runtime, Here, Names
<1>4. Station(m)'
  BY FlagTypes, TransactionTypes DEF ReloadInv, ReloadTypeOK, Shape, Station, Hosted, Untouched, Candidate, Returning,
       Advanced, Edited, Finished, Rest, Running, Dead, GateProtected, NextNode, Asked, runtime, Here, Names
<1> QED  BY <1>1, <1>2, <1>3, <1>4, OneStation

\* Quiesce, gate callback entry, find nobody inside, close.
LEMMA QuiescedStep ==
  ASSUME ReloadInv, NEW m \in Names, Quiesced(m)
  PROVE  ReloadInv'
<1> USE SettingsPositive, BoundsNatural
<1>0. at' \in [phase : Phases, at : 0 .. N + 1]
  BY DEF ReloadInv, ReloadTypeOK, Quiesced, Closed, runtime, Here, Names
<1>1. ReloadTypeOK'
  BY ZenonT(60), <1>0, FlagTypes, TransactionTypes DEF ReloadInv, ReloadTypeOK, Quiesced, Closed, runtime, Transactions, Forward, Restoring
<1>2. Shape'
  BY FlagTypes, TransactionTypes DEF ReloadInv, ReloadTypeOK, Shape, Pending, Quiesced, Closed, runtime, Here, Names
<1>3. Others(m)
  BY FlagTypes, TransactionTypes DEF ReloadInv, ReloadTypeOK, Others, SameHost, SameRadio, SameProgress, Finished,
       Quiesced, Closed, runtime, Here, Names
<1>4. Station(m)'
  BY FlagTypes, TransactionTypes DEF ReloadInv, ReloadTypeOK, Shape, Station, Hosted, Untouched, Candidate, Returning,
       Advanced, Edited, Finished, Rest, Running, Dead, Quiesced, Closed, runtime, Here, Names
<1> QED  BY <1>1, <1>2, <1>3, <1>4, OneStation

\* A fresh lease is closed.
LEMMA CloseFreshStep ==
  ASSUME ReloadInv, NEW m \in Names, CloseFresh(m)
  PROVE  ReloadInv'
<1> USE SettingsPositive, BoundsNatural
<1>0. at' \in [phase : Phases, at : 0 .. N + 1]
  BY DEF ReloadInv, ReloadTypeOK, CloseFresh, Closed, PriorNode, runtime, host, Here, Names
<1>1. ReloadTypeOK'
  BY ZenonT(60), <1>0, FlagTypes, TransactionTypes DEF ReloadInv, ReloadTypeOK, CloseFresh, Closed, PriorNode, runtime, host, Transactions, Forward, Restoring
<1>2. Shape'
  BY FlagTypes, TransactionTypes DEF ReloadInv, ReloadTypeOK, Shape, Pending, CloseFresh, Closed, PriorNode, runtime, host, Here, Names
<1>3. Others(m)
  BY FlagTypes, TransactionTypes DEF ReloadInv, ReloadTypeOK, Others, SameHost, SameRadio, SameProgress, Finished,
       CloseFresh, Closed, PriorNode, runtime, host, Here, Names
<1>4. Station(m)'
  BY FlagTypes, TransactionTypes DEF ReloadInv, ReloadTypeOK, Shape, Station, Hosted, Untouched, Candidate, Returning,
       Advanced, Edited, Finished, Rest, Running, Dead, CloseFresh, Closed, PriorNode, runtime, host, Here, Names
<1> QED  BY <1>1, <1>2, <1>3, <1>4, OneStation

\* A changed radio is closed before its old settings return.
LEMMA RestoreCloseStep ==
  ASSUME ReloadInv, NEW m \in Names, RestoreClose(m)
  PROVE  ReloadInv'
<1> USE SettingsPositive, BoundsNatural
<1>0. at' \in [phase : Phases, at : 0 .. N + 1]
  BY DEF ReloadInv, ReloadTypeOK, RestoreClose, Closed, runtime, host, Here, Names
<1>1. ReloadTypeOK'
  BY ZenonT(60), <1>0, FlagTypes, TransactionTypes DEF ReloadInv, ReloadTypeOK, RestoreClose, Closed, runtime, host, Transactions, Forward, Restoring
<1>2. Shape'
  BY FlagTypes, TransactionTypes DEF ReloadInv, ReloadTypeOK, Shape, Pending, RestoreClose, Closed, runtime, host, Here, Names
<1>3. Others(m)
  BY FlagTypes, TransactionTypes DEF ReloadInv, ReloadTypeOK, Others, SameHost, SameRadio, SameProgress, Finished,
       RestoreClose, Closed, runtime, host, Here, Names
<1>4. Station(m)'
  BY FlagTypes, TransactionTypes DEF ReloadInv, ReloadTypeOK, Shape, Station, Hosted, Untouched, Candidate, Returning,
       Advanced, Edited, Finished, Rest, Running, Dead, RestoreClose, Closed, runtime, host, Here, Names
<1> QED  BY <1>1, <1>2, <1>3, <1>4, OneStation

\* It is opened with the settings in force, or refused.
LEMMA RestoreOpenStep ==
  ASSUME ReloadInv, NEW m \in Names, RestoreOpen(m)
  PROVE  ReloadInv'
<1> USE SettingsPositive, BoundsNatural
<1>0. /\ Here("restore", m) /\ tx.restoring[m] = "open"
      /\ UNCHANGED <<document, nodes, retiredNodes, halting, stored, retiring, stopped, gated, inside, orphans, at, reloads, broken>>
  BY DEF RestoreOpen, runtime, host
<1>1. at' \in [phase : Phases, at : 0 .. N + 1]
  BY <1>0 DEF ReloadInv, ReloadTypeOK, Here, Names
<1>2. CASE /\ Opened(m, document[m])
           /\ open' = [open EXCEPT ![m] = TRUE]
           /\ tx' = [tx EXCEPT !.restoring[m] = "waiting"]
  <2>0. tx' \in Transactions
    BY Zenon, <1>2 DEF ReloadInv, ReloadTypeOK, Transactions, Restoring, Names
  <2>1. ReloadTypeOK'
    BY Zenon, <1>0, <1>1, <1>2, <2>0, FlagTypes DEF ReloadInv, ReloadTypeOK, Documents, Opened, radio
  <2>2. Shape'
    BY <1>0, <1>2, FlagTypes, TransactionTypes DEF ReloadInv, ReloadTypeOK, Shape, Pending, Here, Names, runtime
  <2>3. Others(m)
    BY <1>0, <1>2, FlagTypes, TransactionTypes DEF ReloadInv, ReloadTypeOK, Others, SameHost, SameRadio, SameProgress,
         Finished, Here, Names, Opened, radio
  <2>4. Station(m)'
    BY <1>0, <1>2, FlagTypes, TransactionTypes DEF ReloadInv, ReloadTypeOK, Shape, Station, Hosted, Untouched, Candidate,
         Returning, Advanced, Edited, Finished, Rest, Running, Dead, Here, Names, Opened, radio
  <2> QED  BY <2>1, <2>2, <2>3, <2>4, OneStation
<1>3. CASE /\ Opened(m, document[m])
           /\ open' = [open EXCEPT ![m] = FALSE]
           /\ tx' = [tx EXCEPT !.restoring[m] = "failed"]
  <2>0. tx' \in Transactions
    BY Zenon, <1>3 DEF ReloadInv, ReloadTypeOK, Transactions, Restoring, Names
  <2>1. ReloadTypeOK'
    BY Zenon, <1>0, <1>1, <1>3, <2>0, FlagTypes DEF ReloadInv, ReloadTypeOK, Documents, Opened, radio
  <2>2. Shape'
    BY <1>0, <1>3, FlagTypes, TransactionTypes DEF ReloadInv, ReloadTypeOK, Shape, Pending, Here, Names, runtime
  <2>3. Others(m)
    BY <1>0, <1>3, FlagTypes, TransactionTypes DEF ReloadInv, ReloadTypeOK, Others, SameHost, SameRadio, SameProgress,
         Finished, Here, Names, Opened, radio
  <2>4. Station(m)'
    BY <1>0, <1>3, FlagTypes, TransactionTypes DEF ReloadInv, ReloadTypeOK, Shape, Station, Hosted, Untouched, Candidate,
         Returning, Advanced, Edited, Finished, Rest, Running, Dead, Here, Names, Opened, radio
  <2> QED  BY <2>1, <2>2, <2>3, <2>4, OneStation
<1>4. CASE /\ UNCHANGED radio
           /\ open' = [open EXCEPT ![m] = FALSE]
           /\ tx' = [tx EXCEPT !.restoring[m] = "failed"]
  <2>0. tx' \in Transactions
    BY Zenon, <1>4 DEF ReloadInv, ReloadTypeOK, Transactions, Restoring, Names
  <2>1. ReloadTypeOK'
    BY Zenon, <1>0, <1>1, <1>4, <2>0, FlagTypes DEF ReloadInv, ReloadTypeOK, Documents, Opened, radio
  <2>2. Shape'
    BY <1>0, <1>4, FlagTypes, TransactionTypes DEF ReloadInv, ReloadTypeOK, Shape, Pending, Here, Names, runtime
  <2>3. Others(m)
    BY <1>0, <1>4, FlagTypes, TransactionTypes DEF ReloadInv, ReloadTypeOK, Others, SameHost, SameRadio, SameProgress,
         Finished, Here, Names, Opened, radio
  <2>4. Station(m)'
    BY <1>0, <1>4, FlagTypes, TransactionTypes DEF ReloadInv, ReloadTypeOK, Shape, Station, Hosted, Untouched, Candidate,
         Returning, Advanced, Edited, Finished, Rest, Running, Dead, Here, Names, Opened, radio
  <2> QED  BY <2>1, <2>2, <2>3, <2>4, OneStation
<1> QED  BY <1>0, <1>2, <1>3, <1>4 DEF RestoreOpen

\* An activated radio gets its callbacks back.
LEMMA RestoreWaitStep ==
  ASSUME ReloadInv, NEW m \in Names, RestoreWait(m)
  PROVE  ReloadInv'
<1> USE SettingsPositive, BoundsNatural
<1>0. /\ Here("restore", m) /\ tx.restoring[m] = "waiting"
      /\ UNCHANGED <<document, nodes, retiredNodes, halting, stored, retiring, stopped, inside, open, orphans, at, reloads, broken>>
  BY DEF RestoreWait, runtime
<1>1. at' \in [phase : Phases, at : 0 .. N + 1]
  BY <1>0 DEF ReloadInv, ReloadTypeOK, Here, Names
<1>2. CASE /\ Activated(m)
           /\ gated' = [gated EXCEPT ![m] = stopped[m] \/ stored[m] = Off]
           /\ tx' = [tx EXCEPT !.restoring[m] = "done"]
  <2>0. tx' \in Transactions
    BY Zenon, <1>2 DEF ReloadInv, ReloadTypeOK, Transactions, Restoring, Names
  <2>1. ReloadTypeOK'
    BY Zenon, <1>0, <1>1, <1>2, <2>0, FlagTypes DEF ReloadInv, ReloadTypeOK, Documents, Activated, radio
  <2>2. Shape'
    BY <1>0, <1>2, FlagTypes, TransactionTypes DEF ReloadInv, ReloadTypeOK, Shape, Pending, Here, Names, runtime
  <2>3. Others(m)
    BY <1>0, <1>2, FlagTypes, TransactionTypes DEF ReloadInv, ReloadTypeOK, Others, SameHost, SameRadio, SameProgress,
         Finished, Here, Names, Activated, radio
  <2>4. Station(m)'
    BY <1>0, <1>2, FlagTypes, TransactionTypes DEF ReloadInv, ReloadTypeOK, Shape, Station, Hosted, Untouched, Candidate,
         Returning, Advanced, Edited, Finished, Rest, Running, Dead, Here, Names, Activated, radio
  <2> QED  BY <2>1, <2>2, <2>3, <2>4, OneStation
<1>3. CASE /\ tx' = [tx EXCEPT !.restoring[m] = "failed"]
           /\ UNCHANGED <<radio, gated>>
  <2>0. tx' \in Transactions
    BY Zenon, <1>3 DEF ReloadInv, ReloadTypeOK, Transactions, Restoring, Names
  <2>1. ReloadTypeOK'
    BY Zenon, <1>0, <1>1, <1>3, <2>0, FlagTypes DEF ReloadInv, ReloadTypeOK, Documents, Activated, radio
  <2>2. Shape'
    BY <1>0, <1>3, FlagTypes, TransactionTypes DEF ReloadInv, ReloadTypeOK, Shape, Pending, Here, Names, runtime
  <2>3. Others(m)
    BY <1>0, <1>3, FlagTypes, TransactionTypes DEF ReloadInv, ReloadTypeOK, Others, SameHost, SameRadio, SameProgress,
         Finished, Here, Names, Activated, radio
  <2>4. Station(m)'
    BY <1>0, <1>3, FlagTypes, TransactionTypes DEF ReloadInv, ReloadTypeOK, Shape, Station, Hosted, Untouched, Candidate,
         Returning, Advanced, Edited, Finished, Rest, Running, Dead, Here, Names, Activated, radio
  <2> QED  BY <2>1, <2>2, <2>3, <2>4, OneStation
<1> QED  BY <1>0, <1>2, <1>3 DEF RestoreWait

\* A lease that cannot be had back stops its station.
LEMMA RestoreFailedStep ==
  ASSUME ReloadInv, NEW m \in Names, RestoreFailed(m)
  PROVE  ReloadInv'
<1> USE SettingsPositive, BoundsNatural
<1>0. at' \in [phase : Phases, at : 0 .. N + 1]
  BY DEF ReloadInv, ReloadTypeOK, RestoreFailed, Closed, runtime, Here, Names
<1>1. ReloadTypeOK'
  BY ZenonT(60), <1>0, FlagTypes, TransactionTypes DEF ReloadInv, ReloadTypeOK, RestoreFailed, Closed, runtime, Transactions, Forward, Restoring
<1>2. Shape'
  BY FlagTypes, TransactionTypes DEF ReloadInv, ReloadTypeOK, Shape, Pending, RestoreFailed, Closed, runtime, Here, Names
<1>3. Others(m)
  BY FlagTypes, TransactionTypes DEF ReloadInv, ReloadTypeOK, Others, SameHost, SameRadio, SameProgress, Finished,
       RestoreFailed, Closed, runtime, Here, Names
<1>4. Station(m)'
  BY FlagTypes, TransactionTypes DEF ReloadInv, ReloadTypeOK, Shape, Station, Hosted, Untouched, Candidate, Returning,
       Advanced, Edited, Finished, Rest, Running, Dead, RestoreFailed, Closed, runtime, Here, Names
<1> QED  BY <1>1, <1>2, <1>3, <1>4, OneStation

\* A staged edit is undone, or its station stops.
LEMMA UndoUpdateStep ==
  ASSUME ReloadInv, NEW m \in Names, UndoUpdate(m)
  PROVE  ReloadInv'
<1> USE SettingsPositive, BoundsNatural
<1>0. /\ Here("updates", m) /\ at' = [phase |-> "updates", at |-> m - 1]
      /\ UNCHANGED <<document, nodes, retiredNodes, halting, stored, retiring, inside, orphans, reloads, broken>>
  BY DEF UndoUpdate, PriorNode, Here, runtime, host
<1>1. at' \in [phase : Phases, at : 0 .. N + 1]
  BY <1>0 DEF ReloadInv, ReloadTypeOK, Here, Names
<1>2. CASE /\ m \notin tx.updated
           /\ UNCHANGED <<tx, radio, host, open>>
  <2>1. Shape'
    BY <1>0, <1>2, TransactionTypes DEF ReloadInv, ReloadTypeOK, Shape, Pending, Here, Names
  <2>2. \A n \in Names : n \in tx.updated => (Finished(n)' <=> Finished(n))
    BY <1>0, <1>2 DEF Finished, Here
  <2>3. UNCHANGED <<runtime, host, device, activated, staged, open, tx>> /\ inside' = inside /\ quiet' = quiet
    BY <1>0, <1>2 DEF runtime, host, radio
  <2> QED  BY <1>0, <1>1, <2>1, <2>2, <2>3, FlagTypes, Standing DEF ReloadInv, ReloadTypeOK
<1>3. CASE /\ staged' = [staged EXCEPT ![m] = Off]
           /\ tx' = [tx EXCEPT !.updated = @ \ {m}]
           /\ UNCHANGED <<device, activated, quiet, host, open>>
  <2>0. tx' \in Transactions
    BY Zenon, <1>3 DEF ReloadInv, ReloadTypeOK, Transactions, Restoring, Names
  <2>1. ReloadTypeOK'
    BY Zenon, <1>0, <1>1, <1>3, <2>0, FlagTypes DEF ReloadInv, ReloadTypeOK, Documents, StopNodes, Closed, host, radio
  <2>2. Shape'
    BY <1>0, <1>3, FlagTypes, TransactionTypes DEF ReloadInv, ReloadTypeOK, Shape, Pending, Here, Names, runtime
  <2>3. Others(m)
    BY <1>0, <1>3, FlagTypes, TransactionTypes DEF ReloadInv, ReloadTypeOK, Others, SameHost, SameRadio, SameProgress,
         Finished, Here, Names, StopNodes, Closed, host, radio
  <2>4. Station(m)'
    BY <1>0, <1>3, FlagTypes, TransactionTypes DEF ReloadInv, ReloadTypeOK, Shape, Station, Hosted, Untouched, Candidate,
         Returning, Advanced, Edited, Finished, Rest, Running, Dead, Here, Names, StopNodes, Closed, host, radio
  <2> QED  BY <2>1, <2>2, <2>3, <2>4, OneStation
<1>4. CASE /\ tx' = [tx EXCEPT !.updated = @ \ {m}, !.restored = FALSE]
           /\ UNCHANGED radio
           /\ StopNodes({m}, {})
  <2>0. tx' \in Transactions
    BY Zenon, <1>4 DEF ReloadInv, ReloadTypeOK, Transactions, Restoring, Names
  <2>1. ReloadTypeOK'
    BY Zenon, <1>0, <1>1, <1>4, <2>0, FlagTypes DEF ReloadInv, ReloadTypeOK, Documents, StopNodes, Closed, host, radio
  <2>2. Shape'
    BY <1>0, <1>4, FlagTypes, TransactionTypes DEF ReloadInv, ReloadTypeOK, Shape, Pending, Here, Names, runtime
  <2>3. Others(m)
    BY <1>0, <1>4, FlagTypes, TransactionTypes DEF ReloadInv, ReloadTypeOK, Others, SameHost, SameRadio, SameProgress,
         Finished, Here, Names, StopNodes, Closed, host, radio
  <2>4. Station(m)'
    BY <1>0, <1>4, FlagTypes, TransactionTypes DEF ReloadInv, ReloadTypeOK, Shape, Station, Hosted, Untouched, Candidate,
         Returning, Advanced, Edited, Finished, Rest, Running, Dead, Here, Names, StopNodes, Closed, host, radio
  <2> QED  BY <2>1, <2>2, <2>3, <2>4, OneStation
<1>5. CASE /\ m \in tx.updated
           /\ tx' = [tx EXCEPT !.updated = @ \ {m}, !.restored = FALSE]
           /\ Closed(m)
           /\ StopNodes({m}, {m})
  <2>0. tx' \in Transactions
    BY Zenon, <1>5 DEF ReloadInv, ReloadTypeOK, Transactions, Restoring, Names
  <2>1. ReloadTypeOK'
    <3>1. stopped' \in [Names -> BOOLEAN] /\ gated' \in [Names -> BOOLEAN] /\ open' \in [Names -> BOOLEAN]
      BY <1>5 DEF StopNodes
    <3>2. /\ device' \in [Names -> Settings \cup {Off}] /\ staged' \in [Names -> Settings \cup {Off}]
          /\ activated' \in [Names -> BOOLEAN] /\ quiet' \in [Names -> BOOLEAN]
      BY Zenon, <1>5, FlagTypes DEF ReloadInv, ReloadTypeOK, Closed
    <3> QED  BY Zenon, <1>0, <1>1, <2>0, <3>1, <3>2, FlagTypes DEF ReloadInv, ReloadTypeOK, Documents
  <2>2. Shape'
    BY <1>0, <1>5, FlagTypes, TransactionTypes DEF ReloadInv, ReloadTypeOK, Shape, Pending, Here, Names, runtime
  <2>3. Others(m)
    BY <1>0, <1>5, FlagTypes, TransactionTypes DEF ReloadInv, ReloadTypeOK, Others, SameHost, SameRadio, SameProgress,
         Finished, Here, Names, StopNodes, Closed, host, radio
  <2>4. Dead(m)' /\ device'[m] = Off /\ staged'[m] = Off
    BY <1>5 DEF ReloadInv, ReloadTypeOK, StopNodes, Closed, Dead
  <2>5. /\ tx.failed /\ tx'.failed /\ m \notin tx'.updated /\ tx'.changed = tx.changed
        /\ tx'.restoring[m] = "none" /\ m \notin tx.changed /\ stored'[m] = stored[m]
    BY <1>0, <1>5, TransactionTypes DEF ReloadInv, ReloadTypeOK, Shape, Station, Returning, Here
  <2>6. Hosted(m)' /\ Untouched(m)'
    BY <1>0, <2>4, <2>5 DEF ReloadInv, Station, Hosted, Untouched, Rest, Dead
  <2>7. Returning(m)'
    BY Zenon, <1>0, <2>4, <2>5 DEF ReloadInv, Station, Returning, Rest, Dead
  <2>8. Station(m)'
    BY <2>5, <2>6, <2>7 DEF Station
  <2> QED  BY <2>1, <2>2, <2>3, <2>8, OneStation
<1> QED  BY <1>0, <1>2, <1>3, <1>4, <1>5 DEF UndoUpdate

\* finish_update(true) for one station.
LEMMA CommitUpdateStep ==
  ASSUME ReloadInv, NEW m \in Names, CommitUpdate(m)
  PROVE  ReloadInv'
<1> USE SettingsPositive, BoundsNatural
<1>0. /\ Here("commit", m) /\ at' = [phase |-> "commit", at |-> m + 1]
      /\ UNCHANGED <<document, nodes, retiredNodes, halting, stored, retiring, stopped, gated, inside, open, orphans, tx, reloads, broken>>
  BY DEF CommitUpdate, NextNode, Here, runtime, host
<1>1. at' \in [phase : Phases, at : 0 .. N + 1]
  BY <1>0 DEF ReloadInv, ReloadTypeOK, Here, Names
<1>2. CASE /\ m \in tx.updated
           /\ device' = [device EXCEPT ![m] = staged[m]]
           /\ staged' = [staged EXCEPT ![m] = Off]
           /\ UNCHANGED <<activated, quiet>>
  <2>0. tx' \in Transactions
    BY <1>0 DEF ReloadInv, ReloadTypeOK
  <2>1. ReloadTypeOK'
    BY Zenon, <1>0, <1>1, <1>2, <2>0, FlagTypes DEF ReloadInv, ReloadTypeOK, Documents, radio
  <2>2. Shape'
    BY Zenon, <1>0, <1>2, FlagTypes, TransactionTypes DEF ReloadInv, ReloadTypeOK, Shape, Pending, Here, Names, runtime
  <2>3. Others(m)
    BY <1>0, <1>2, FlagTypes, TransactionTypes DEF ReloadInv, ReloadTypeOK, Others, SameHost, SameRadio, SameProgress,
         Finished, Here, Names, radio
  <2>4. /\ Hosted(m) /\ Candidate(m) /\ ~tx.failed /\ tx' = tx /\ m \in nodes /\ m \notin tx.changed
        /\ at.phase = "commit" /\ at.at = m /\ broken = "none"
    BY Zenon, <1>0, <1>2 DEF ReloadInv, Shape, Station, Here
  <2>5. Edited(m) /\ tx.target[m] # Off
    BY <1>2, <2>4 DEF Candidate
  <2>6. ~Finished(m) /\ Finished(m)'
    BY <1>0, <2>4 DEF Finished, Names
  <2>7. device'[m] = staged[m] /\ staged'[m] = Off
    BY <1>2 DEF ReloadInv, ReloadTypeOK
  <2>8. Edited(m)'
    BY <1>0, <1>2, <2>4, <2>5, <2>6, <2>7 DEF Edited, Dead
  <2>9. Station(m)'
    BY <1>0, <1>2, <2>4, <2>5, <2>7, <2>8 DEF Station, Hosted, Untouched, Candidate
  <2> QED  BY <2>1, <2>2, <2>3, <2>9, OneStation
<1>3. CASE m \notin tx.updated /\ UNCHANGED radio
  <2>1. Shape'
    BY Zenon, <1>0, <1>3, TransactionTypes DEF ReloadInv, ReloadTypeOK, Shape, Pending, Here
  <2>2. \A n \in Names : n \in tx.updated => (Finished(n)' <=> Finished(n))
    BY <1>0, <1>3 DEF Finished, Here, Names
  <2>3. UNCHANGED <<runtime, host, device, activated, staged, open, tx>> /\ inside' = inside /\ quiet' = quiet
    BY Zenon, <1>0, <1>3 DEF runtime, host, radio
  <2> QED  BY <1>0, <1>1, <2>1, <2>2, <2>3, FlagTypes, Standing DEF ReloadInv, ReloadTypeOK
<1> QED  BY <1>0, <1>2, <1>3 DEF CommitUpdate

\* finish_update is asked, or the device is to change hands: a station in its
\* prepare state becomes a touched one.
LEMMA TouchStep ==
  ASSUME ReloadInv, NEW m \in Names, Here("forward", m), tx.state[m] = "prepare", m \in nodes,
         UNCHANGED <<runtime, host, inside, device, activated, quiet, open, orphans, at, reloads, broken>>,
         \/ /\ staged' = [staged EXCEPT ![m] = tx.target[m]] /\ device[m] # Off
            /\ tx' = [tx EXCEPT !.updated = @ \cup {m}, !.state[m] = "ready"]
         \/ /\ tx' = [tx EXCEPT !.changed = @ \cup {m}, !.state[m] = "quiescing"]
            /\ UNCHANGED staged
  PROVE  ReloadInv'
<1> USE SettingsPositive, BoundsNatural
<1>1. ~tx.failed /\ Candidate(m)
  BY DEF ReloadInv, Shape, Station, Here
<1>2. m \notin tx.changed /\ m \notin tx.updated /\ Rest(m) /\ ~Finished(m) /\ ~Finished(m)'
  BY <1>1 DEF ReloadInv, Shape, Station, Candidate, Untouched, Here, Finished
<1>3. CASE /\ staged' = [staged EXCEPT ![m] = tx.target[m]] /\ device[m] # Off
           /\ tx' = [tx EXCEPT !.updated = @ \cup {m}, !.state[m] = "ready"]
  <2>0. tx' \in Transactions
    BY Zenon, <1>3 DEF ReloadInv, ReloadTypeOK, Transactions, Forward
  <2>1. ReloadTypeOK'
    <3>1. staged' \in [Names -> Settings \cup {Off}]
      BY <1>3, TransactionTypes DEF ReloadInv, ReloadTypeOK
    <3> QED  BY <2>0, <3>1, FlagTypes DEF ReloadInv, ReloadTypeOK, runtime, host
  <2>2. Shape'
    BY <1>2, <1>3, TransactionTypes DEF ReloadInv, ReloadTypeOK, Shape, Pending, Here, runtime
  <2>3. Others(m)
    BY <1>3, TransactionTypes DEF ReloadInv, ReloadTypeOK, Others, SameHost, SameRadio, SameProgress, Finished, runtime, host
  <2>4. /\ tx'.target[m] = tx.target[m] /\ tx'.state[m] = "ready" /\ m \in tx'.updated /\ ~tx'.failed
        /\ staged'[m] = tx.target[m]
    BY <1>1, <1>3, TransactionTypes DEF ReloadInv, ReloadTypeOK
  <2>5. Station(m)'
    BY <1>1, <1>2, <1>3, <2>4 DEF ReloadInv, Station, Hosted, Untouched, Candidate, Edited, Rest, Running, Dead, runtime, host
  <2> QED  BY <2>1, <2>2, <2>3, <2>5, OneStation
<1>4. CASE /\ tx' = [tx EXCEPT !.changed = @ \cup {m}, !.state[m] = "quiescing"]
           /\ UNCHANGED staged
  <2>0. tx' \in Transactions
    BY Zenon, <1>4 DEF ReloadInv, ReloadTypeOK, Transactions, Forward
  <2>1. ReloadTypeOK'
    BY Zenon, <1>4, <2>0, FlagTypes DEF ReloadInv, ReloadTypeOK, runtime, host
  <2>2. Shape'
    BY <1>2, <1>4, TransactionTypes DEF ReloadInv, ReloadTypeOK, Shape, Pending, Here, runtime
  <2>3. Others(m)
    BY <1>4, TransactionTypes DEF ReloadInv, ReloadTypeOK, Others, SameHost, SameRadio, SameProgress, Finished, runtime, host
  <2>4. tx'.target[m] = tx.target[m] /\ tx'.state[m] = "quiescing" /\ m \in tx'.changed /\ ~tx'.failed
    BY <1>1, <1>4, TransactionTypes DEF ReloadInv, ReloadTypeOK
  <2>5. Station(m)'
    BY <1>1, <1>2, <1>4, <2>4 DEF ReloadInv, Station, Hosted, Untouched, Candidate, Rest, Running, Dead, runtime, host
  <2> QED  BY <2>1, <2>2, <2>3, <2>5, OneStation
<1> QED  BY <1>3, <1>4

\* A device is opened for the candidate.
LEMMA OpenedStep ==
  ASSUME ReloadInv, NEW m \in Names, Here("forward", m), tx.state[m] = "open",
         UNCHANGED <<runtime, host, inside, orphans, at, reloads, broken>>,
         Opened(m, tx.target[m]),
         open' = IF m \in nodes THEN [open EXCEPT ![m] = TRUE] ELSE open,
         tx' = [(IF m \in nodes THEN tx ELSE [tx EXCEPT !.opened = @ \cup {m}]) EXCEPT !.state[m] = "waiting"]
  PROVE  ReloadInv'
<1> USE SettingsPositive, BoundsNatural
<1>1. ~tx.failed /\ Candidate(m) /\ ~Finished(m) /\ ~Finished(m)' /\ m \notin retiredNodes
  BY DEF ReloadInv, Shape, Station, Here, Finished
<1>2. tx.target[m] # Off /\ tx.target[m] \in Settings \cup {Off}
  BY <1>1, TransactionTypes DEF Candidate, ReloadInv, ReloadTypeOK
<1>3. /\ device' = [device EXCEPT ![m] = tx.target[m]] /\ staged' = staged /\ activated' = activated
      /\ quiet' \in [Names -> BOOLEAN] /\ open' \in [Names -> BOOLEAN]
      /\ m \notin nodes => open'[m] = open[m]
  BY Zenon, FlagTypes DEF ReloadInv, ReloadTypeOK, Opened
<1>4. tx' \in Transactions
  BY Zenon DEF ReloadInv, ReloadTypeOK, Transactions, Forward
<1>5. /\ tx'.target = tx.target /\ tx'.restoring = tx.restoring /\ ~tx'.failed
      /\ tx'.changed = tx.changed /\ tx'.updated = tx.updated
      /\ tx'.opened = IF m \in nodes THEN tx.opened ELSE tx.opened \cup {m}
      /\ tx'.state = [tx.state EXCEPT ![m] = "waiting"]
  BY <1>1 DEF ReloadInv, ReloadTypeOK, Transactions
<1>6. ReloadTypeOK'
  BY <1>2, <1>3, <1>4, FlagTypes DEF ReloadInv, ReloadTypeOK, runtime, host
<1>7. Shape'
  BY <1>5, TransactionTypes DEF ReloadInv, ReloadTypeOK, Shape, Pending, Here, runtime
<1>8. Others(m)
  BY <1>1, <1>3, <1>5, TransactionTypes DEF ReloadInv, ReloadTypeOK, Others, SameHost, SameRadio, SameProgress, Finished,
       runtime, host
<1>9. device'[m] = tx.target[m] /\ staged'[m] = Off
  BY <1>1, <1>3 DEF ReloadInv, ReloadTypeOK, Station, Hosted, Untouched, Candidate, Advanced
<1>10. Station(m)'
  BY <1>1, <1>2, <1>5, <1>9, TransactionTypes DEF ReloadInv, ReloadTypeOK, Station, Hosted, Untouched, Candidate, Advanced,
       runtime, host
<1> QED  BY <1>6, <1>7, <1>8, <1>10, OneStation

\* It says that it is activated.
LEMMA ActivatedStep ==
  ASSUME ReloadInv, NEW m \in Names, Here("forward", m), tx.state[m] = "waiting",
         UNCHANGED <<runtime, host, inside, open, orphans, at, reloads, broken>>,
         Activated(m), tx' = [tx EXCEPT !.state[m] = "ready"]
  PROVE  ReloadInv'
<1> USE SettingsPositive, BoundsNatural
<1>1. ~tx.failed /\ Candidate(m) /\ ~Finished(m) /\ ~Finished(m)'
  BY DEF ReloadInv, Shape, Station, Here, Finished
<1>2. tx' \in Transactions
  BY DEF ReloadInv, ReloadTypeOK, Transactions, Forward
<1>3. /\ tx'.target = tx.target /\ tx'.restoring = tx.restoring /\ ~tx'.failed
      /\ tx'.changed = tx.changed /\ tx'.updated = tx.updated /\ tx'.opened = tx.opened
      /\ tx'.state = [tx.state EXCEPT ![m] = "ready"]
  BY <1>1 DEF ReloadInv, ReloadTypeOK, Transactions
<1>4. ReloadTypeOK'
  BY <1>2, FlagTypes DEF ReloadInv, ReloadTypeOK, Activated, runtime, host
<1>5. Shape'
  BY <1>3, TransactionTypes DEF ReloadInv, ReloadTypeOK, Shape, Pending, Here, runtime
<1>6. Others(m)
  BY <1>1, <1>3, TransactionTypes DEF ReloadInv, ReloadTypeOK, Others, SameHost, SameRadio, SameProgress, Finished,
       Activated, runtime, host
<1>7. device'[m] = device[m] /\ staged'[m] = staged[m] /\ activated'[m]
  BY FlagTypes DEF ReloadInv, ReloadTypeOK, Activated
<1>8. Station(m)'
  BY <1>1, <1>3, <1>7, TransactionTypes DEF ReloadInv, ReloadTypeOK, Station, Hosted, Untouched, Candidate, Advanced,
       runtime, host
<1> QED  BY <1>4, <1>5, <1>6, <1>8, OneStation

-----------------------------------------------------------------------------
(* Turning round.                                                          *)

\* What a failure makes of a transaction.
LEMMA FailingFacts ==
  ASSUME NEW t \in Transactions
  PROVE  /\ Failing(t) \in Transactions /\ Failing(t).failed
         /\ Failing(t).changed = t.changed /\ Failing(t).updated = t.updated /\ Failing(t).opened = t.opened
         /\ \A n \in Names : Failing(t).restoring[n] = IF n \in t.changed THEN "close" ELSE "none"
BY ZenonT(60) DEF Failing, Transactions, Restoring

\* A station on its way forward is one on its way back.
LEMMA TurnedStation ==
  ASSUME NEW n \in Names, Station(n), ~tx.failed, ~Finished(n), ~Finished(n)', SameHost(n), SameRadio(n),
         tx'.failed, tx'.restoring[n] = IF n \in tx.changed THEN "close" ELSE "none",
         n \in tx'.changed <=> n \in tx.changed,
         n \in tx'.updated <=> n \in tx.updated,
         n \in tx'.opened <=> n \in tx.opened,
         tx.changed \subseteq nodes, tx.updated \subseteq nodes, n \in tx.changed => n \notin tx.updated
  PROVE  Station(n)'
<1>1. (Rest(n)' <=> Rest(n)) /\ (Dead(n)' <=> Dead(n))
  <2>1. Dead(n)' <=> Dead(n)
    BY DEF SameHost, Dead
  <2>2. Running(n)' <=> Running(n)
    BY DEF SameHost, SameRadio, Running
  <2> QED  BY <2>1, <2>2 DEF Rest
<1>2. Hosted(n)' /\ Untouched(n)'
  BY <1>1 DEF Station, Hosted, Untouched, SameHost, SameRadio
<1>3. n \in tx.updated => Edited(n)'
  BY <1>1 DEF Station, Candidate, Edited, SameHost, SameRadio
<1>4. n \in tx.changed /\ ~gated[n] => device[n] \in {Off, document[n]}
  BY Zenon DEF Station, Candidate, Rest, Running, Dead
<1>5. Returning(n)'
  BY <1>3, <1>4 DEF Returning, SameHost, SameRadio
<1> QED  BY ZenonT(60), <1>2, <1>5 DEF Station

\* The transaction fails at the stations of M, whatever became of their radios.
LEMMA TurnStep ==
  ASSUME ReloadInv, ~tx.failed, broken = "none", at.phase # "commit", retiredNodes = {},
         NEW M \in SUBSET Names, NEW t \in Transactions, Fail(t), Pending',
         UNCHANGED <<runtime, host, open, inside, orphans, reloads, broken>>,
         ReloadTypeOK', \A n \in M : Station(n)',
         \A n \in Names \ M : SameRadio(n) /\ (n \in t.updated <=> n \in tx.updated) /\ (n \in t.opened <=> n \in tx.opened),
         t.changed = tx.changed, t.updated \subseteq nodes,
         \A n \in t.opened : n \notin nodes, \A n \in t.changed : n \notin t.updated
  PROVE  ReloadInv'
<1> USE SettingsPositive, BoundsNatural
<1>1. /\ tx'.failed /\ tx'.changed = tx.changed /\ tx'.updated = t.updated /\ tx'.opened = t.opened
      /\ \A n \in Names : tx'.restoring[n] = IF n \in tx.changed THEN "close" ELSE "none"
      /\ at' = [phase |-> "fresh", at |-> N]
  BY FailingFacts DEF Fail
<1>2. Shape'
  BY <1>1 DEF ReloadInv, Shape, runtime
<1>3. ASSUME NEW n \in Names \ M PROVE Station(n)'
  <2>1. SameHost(n) /\ SameRadio(n)
    BY DEF SameHost, runtime, host
  <2>2. ~Finished(n) /\ ~Finished(n)'
    BY <1>1 DEF Finished
  <2>3. Station(n) /\ tx.changed \subseteq nodes /\ tx.updated \subseteq nodes /\ (n \in tx.changed => n \notin tx.updated)
    BY DEF ReloadInv, Shape
  <2> QED  BY <1>1, <2>1, <2>2, <2>3, TurnedStation
<1> QED  BY <1>2, <1>3 DEF ReloadInv

\* Whatever fails while a candidate is prepared finds it going forward.
LEMMA ForwardFacts ==
  ASSUME ReloadInv, NEW m \in Names, Here("forward", m)
  PROVE  /\ ~tx.failed /\ broken = "none" /\ at.phase = "forward" /\ retiredNodes = {} /\ ~Finished(m)
         /\ Station(m) /\ Candidate(m) /\ tx \in Transactions
         /\ tx.changed \subseteq nodes /\ tx.updated \subseteq nodes
         /\ \A n \in tx.opened : n \notin nodes
         /\ \A n \in tx.changed : n \notin tx.updated
BY DEF ReloadInv, ReloadTypeOK, Shape, Station, Here, Finished

\* A failed transaction is pending.
LEMMA FailedPends == \A t \in Transactions : t.failed => t # NoTransaction
BY DEF NoTransaction, Transactions

\* The radio refuses the edit, or the handover finds somebody at work.
LEMMA PrepareFailsStep ==
  ASSUME ReloadInv, NEW m \in Names, Here("forward", m), tx.state[m] = "prepare", m \in nodes,
         UNCHANGED <<runtime, host, inside, device, activated, quiet, open, orphans, reloads, broken>>,
         \/ Fail(tx) /\ UNCHANGED staged
         \/ /\ Fail([tx EXCEPT !.updated = @ \cup {m}])
            /\ UNCHANGED staged \/ (device[m] # Off /\ staged' = [staged EXCEPT ![m] = tx.target[m]])
  PROVE  ReloadInv'
<1> USE SettingsPositive, BoundsNatural
<1>1. PICK t \in {tx, [tx EXCEPT !.updated = @ \cup {m}]} : Fail(t)
  OBVIOUS
<1>2. /\ t \in Transactions /\ t.changed = tx.changed /\ t.opened = tx.opened
      /\ t.updated \in {tx.updated, tx.updated \cup {m}}
  BY ForwardFacts DEF Transactions
<1>3. m \notin tx.changed /\ m \notin tx.updated /\ Rest(m) /\ ~Finished(m) /\ Hosted(m)
  BY ForwardFacts DEF Station, Candidate, Untouched
<1>4. tx' = Failing(t) /\ at' = [phase |-> "fresh", at |-> N] /\ tx' \in Transactions /\ tx'.failed /\ Pending'
  BY <1>1, <1>2, FailingFacts, FailedPends DEF Fail, Pending
<1>5. staged' \in [Names -> Settings \cup {Off}]
  BY TransactionTypes DEF ReloadInv, ReloadTypeOK
<1>6. ReloadTypeOK'
  BY <1>4, <1>5, FlagTypes DEF ReloadInv, ReloadTypeOK, Phases, runtime, host
<1>7. \A n \in Names \ {m} : SameRadio(n) /\ (n \in t.updated <=> n \in tx.updated) /\ (n \in t.opened <=> n \in tx.opened)
  BY <1>2 DEF SameRadio, ReloadInv, ReloadTypeOK
<1>8. Station(m)'
  <2>1. /\ tx'.failed /\ tx'.changed = tx.changed /\ tx'.updated = t.updated /\ tx'.opened = tx.opened
        /\ tx'.restoring[m] = "none" /\ ~Finished(m)'
    BY <1>2, <1>3, <1>4, ForwardFacts, FailingFacts DEF Finished
  <2>2. device'[m] = device[m] /\ (staged'[m] = staged[m] \/ (device[m] # Off /\ m \in t.updated))
    <3>1. CASE Fail(tx) /\ UNCHANGED staged
      BY <3>1
    <3>2. CASE Fail([tx EXCEPT !.updated = @ \cup {m}])
      <4>1. Failing([tx EXCEPT !.updated = @ \cup {m}]) = Failing(t) /\ [tx EXCEPT !.updated = @ \cup {m}] \in Transactions
        BY <1>4, <3>2, ForwardFacts DEF Fail, Transactions
      <4>2. t.updated = tx.updated \cup {m}
        BY <1>2, <4>1, ForwardFacts, FailingFacts DEF Transactions
      <4> QED  BY <4>2
    <3> QED  BY <3>1, <3>2
  <2>3. Dead(m)' <=> Dead(m)
    BY DEF Dead, host
  <2>4. Hosted(m)' /\ Untouched(m)'
    BY <1>3, <2>1, <2>2, <2>3 DEF Hosted, Untouched, Rest, Running, runtime, host
  <2>5. Returning(m)'
    BY <1>3, <2>1, <2>2, <2>3 DEF Returning, Edited, Rest, Running, runtime, host
  <2> QED  BY <2>1, <2>4, <2>5 DEF Station
<1>9. t.updated \subseteq nodes /\ (\A n \in t.opened : n \notin nodes) /\ (\A n \in t.changed : n \notin t.updated)
  BY <1>2, <1>3, ForwardFacts
<1>10. ~tx.failed /\ broken = "none" /\ at.phase # "commit" /\ retiredNodes = {}
  BY ForwardFacts
<1>11. {m} \in SUBSET Names /\ \A n \in {m} : Station(n)'
  BY <1>8
<1> QED  BY Zenon, <1>1, <1>2, <1>4, <1>6, <1>7, <1>9, <1>10, <1>11, TurnStep

\* A radio refuses to open, and may be half open.
LEMMA OpenFailsStep ==
  ASSUME ReloadInv, NEW m \in Names, Here("forward", m), tx.state[m] = "open",
         UNCHANGED <<runtime, host, inside, open, orphans, reloads, broken>>,
         Opened(m, tx.target[m]) \/ UNCHANGED radio,
         Fail(IF m \in nodes THEN tx ELSE [tx EXCEPT !.opened = @ \cup {m}])
  PROVE  ReloadInv'
<1> USE SettingsPositive, BoundsNatural
<1> DEFINE t == IF m \in nodes THEN tx ELSE [tx EXCEPT !.opened = @ \cup {m}]
<1>1. /\ t \in Transactions /\ t.changed = tx.changed /\ t.updated = tx.updated
      /\ t.opened = IF m \in nodes THEN tx.opened ELSE tx.opened \cup {m}
  BY ForwardFacts DEF Transactions
<1>2. Fail(t)
  OBVIOUS
<1> HIDE DEF t
<1>3. tx' = Failing(t) /\ at' = [phase |-> "fresh", at |-> N] /\ tx' \in Transactions /\ tx'.failed /\ Pending'
  BY <1>1, <1>2, FailingFacts, FailedPends DEF Fail, Pending
<1>4. /\ staged' = staged /\ activated' = activated /\ quiet' \in [Names -> BOOLEAN]
      /\ \/ device' = [device EXCEPT ![m] = tx.target[m]]
         \/ device' = device
  BY Zenon, FlagTypes DEF ReloadInv, ReloadTypeOK, Opened, radio
<1>5. device' \in [Names -> Settings \cup {Off}]
  BY <1>4, TransactionTypes DEF ReloadInv, ReloadTypeOK
<1>6. ReloadTypeOK'
  BY <1>3, <1>4, <1>5, FlagTypes DEF ReloadInv, ReloadTypeOK, Phases, runtime, host
<1>7. \A n \in Names \ {m} : SameRadio(n) /\ (n \in t.updated <=> n \in tx.updated) /\ (n \in t.opened <=> n \in tx.opened)
  BY <1>1, <1>4 DEF SameRadio, ReloadInv, ReloadTypeOK
<1>8. Station(m)'
  <2>1. /\ tx'.failed /\ tx'.changed = tx.changed /\ tx'.updated = tx.updated
        /\ tx'.opened = IF m \in nodes THEN tx.opened ELSE tx.opened \cup {m}
        /\ tx'.restoring[m] = IF m \in tx.changed THEN "close" ELSE "none"
    BY <1>1, <1>3, FailingFacts
  <2>2. tx.target[m] # Off /\ m \notin tx.updated /\ Hosted(m) /\ Untouched(m)
    BY ForwardFacts DEF Station, Candidate
  <2>3. m \in nodes => m \in tx.changed /\ gated[m]
    BY ForwardFacts DEF Candidate
  <2>4. device'[m] \in {device[m], tx.target[m]}
    BY <1>4 DEF ReloadInv, ReloadTypeOK
  <2>5. Hosted(m)' /\ Untouched(m)'
    BY <1>4, <2>1, <2>2, <2>3, <2>4 DEF Hosted, Untouched, runtime, host
  <2>6. Returning(m)'
    BY <2>1, <2>2, <2>3, ForwardFacts DEF Returning, host
  <2> QED  BY <2>1, <2>5, <2>6 DEF Station
<1>9. t.updated \subseteq nodes /\ (\A n \in t.opened : n \notin nodes) /\ (\A n \in t.changed : n \notin t.updated)
  BY <1>1, ForwardFacts
<1>10. ~tx.failed /\ broken = "none" /\ at.phase # "commit" /\ retiredNodes = {}
  BY ForwardFacts
<1>11. {m} \in SUBSET Names /\ \A n \in {m} : Station(n)'
  BY <1>8
<1> QED  BY Zenon, <1>1, <1>2, <1>3, <1>6, <1>7, <1>9, <1>10, <1>11, TurnStep

\* A transaction fails with no radio touched: an activation is refused, or the
\* runtime is stopping.
LEMMA FailsStep ==
  ASSUME ReloadInv, ~tx.failed, broken = "none", at.phase # "commit", retiredNodes = {}, Fail(tx),
         UNCHANGED <<runtime, host, inside, radio, open, orphans, reloads, broken>>
  PROVE  ReloadInv'
<1> USE SettingsPositive, BoundsNatural
<1>1. tx \in Transactions
  BY DEF ReloadInv, ReloadTypeOK
<1>2. at' = [phase |-> "fresh", at |-> N] /\ tx' \in Transactions /\ tx'.failed /\ Pending'
  BY <1>1, FailingFacts, FailedPends DEF Fail, Pending
<1>3. ReloadTypeOK'
  BY <1>2, FlagTypes DEF ReloadInv, ReloadTypeOK, Phases, runtime, host, radio
<1>4. \A n \in Names \ {} : SameRadio(n) /\ (n \in tx.updated <=> n \in tx.updated) /\ (n \in tx.opened <=> n \in tx.opened)
  BY DEF SameRadio, radio
<1>5. tx.updated \subseteq nodes /\ (\A n \in tx.opened : n \notin nodes) /\ (\A n \in tx.changed : n \notin tx.updated)
  BY DEF ReloadInv, Shape
<1>6. {} \in SUBSET Names /\ \A n \in {} : Station(n)'
  OBVIOUS
<1> QED  BY Zenon, <1>1, <1>2, <1>3, <1>4, <1>5, <1>6, TurnStep

\* A poll begins: it goes on, or turns round because the runtime is stopping.
LEMMA BeginPollStep ==
  ASSUME ReloadInv, BeginPoll
  PROVE  ReloadInv'
<1> USE SettingsPositive, BoundsNatural
<1>1. /\ at = Idle /\ at.phase = "idle" /\ broken = "none" /\ Pending /\ retiredNodes = {}
      /\ UNCHANGED <<runtime, host, inside, radio, open, orphans, reloads, broken>>
  BY DEF BeginPoll, Idle, ReloadInv, Shape
<1>2. CASE halting /\ ~tx.failed
  <2>1. tx' = Failing(tx) /\ tx'.failed
    BY <1>2, FailingFacts DEF BeginPoll, ReloadInv, ReloadTypeOK
  <2>2. Fail(tx)
    BY <2>1 DEF BeginPoll, Fail
  <2> QED  BY <1>1, <1>2, <2>2, FailsStep
<1>3. CASE ~(halting /\ ~tx.failed)
  <2>1. tx' = tx /\ at' = IF tx.failed THEN [phase |-> "fresh", at |-> N] ELSE [phase |-> "forward", at |-> 1]
    BY <1>3 DEF BeginPoll
  <2>2. at' \in [phase : Phases, at : 0 .. N + 1]
    BY <2>1 DEF Phases
  <2>3. Shape'
    BY Zenon, <1>1, <1>3, <2>1 DEF ReloadInv, Shape, Pending, runtime
  <2>4. \A n \in Names : n \in tx.updated => (Finished(n)' <=> Finished(n))
    BY <1>1, <2>1 DEF Finished
  <2> QED  BY <1>1, <2>1, <2>2, <2>3, <2>4, FlagTypes, Standing DEF ReloadInv, ReloadTypeOK, radio
<1> QED  BY <1>2, <1>3

\* PrepareUpdate, PrepareHandoff, OpenNew and WaitNew, whatever the radio answers.
LEMMA PrepareUpdateStep ==
  ASSUME ReloadInv, NEW m \in Names, PrepareUpdate(m) \/ PrepareHandoff(m)
  PROVE  ReloadInv'
<1>1. CASE PrepareUpdate(m)
  BY ZenonT(60), <1>1, TouchStep, PrepareFailsStep DEF PrepareUpdate
<1>2. CASE PrepareHandoff(m)
  BY Zenon, <1>2, TouchStep, PrepareFailsStep DEF PrepareHandoff, radio
<1> QED  BY <1>1, <1>2

LEMMA OpenNewStep ==
  ASSUME ReloadInv, NEW m \in Names, OpenNew(m)
  PROVE  ReloadInv'
BY OpenedStep, OpenFailsStep DEF OpenNew

LEMMA WaitNewStep ==
  ASSUME ReloadInv, NEW m \in Names, WaitNew(m)
  PROVE  ReloadInv'
<1>1. Here("forward", m) /\ tx.state[m] = "waiting" /\ UNCHANGED <<runtime, host, inside, open, orphans, reloads, broken>>
  BY DEF WaitNew
<1>2. CASE Activated(m) /\ tx' = [tx EXCEPT !.state[m] = "ready"] /\ UNCHANGED at
  BY <1>1, <1>2, ActivatedStep
<1>3. CASE Fail(tx) /\ UNCHANGED radio
  BY <1>1, <1>3, ForwardFacts, FailsStep
<1> QED  BY <1>2, <1>3 DEF WaitNew

-----------------------------------------------------------------------------
(* The steps that concern every station.                                   *)

\* The empty transaction lists nothing.
LEMMA NoTransactionFacts ==
  /\ NoTransaction \in Transactions /\ ~NoTransaction.failed
  /\ NoTransaction.changed = {} /\ NoTransaction.updated = {} /\ NoTransaction.opened = {}
  /\ \A n \in Names : NoTransaction.target[n] = Off /\ NoTransaction.state[n] = "none"
BY DEF NoTransaction, Transactions, Documents, Forward, Restoring

\* With no transaction, a station need only be at rest, or have no radio.
LEMMA SettledStation ==
  ASSUME NEW n \in Names, tx' = NoTransaction, Hosted(n)',
         n \in nodes' => Rest(n)',
         n \notin nodes' /\ n \notin retiredNodes' => device'[n] = Off
  PROVE  Station(n)'
<1>1. Untouched(n)'
  BY DEF Untouched
<1>2. Candidate(n)' /\ ~tx'.failed
  BY NoTransactionFacts DEF Candidate
<1> QED  BY <1>1, <1>2 DEF Station

\* The shape of the empty transaction, between polls.
LEMMA SettledShape ==
  ASSUME tx' = NoTransaction, at' = Idle, broken' = "none"
  PROVE  Shape'
BY NoTransactionFacts DEF Shape, Pending, Idle

\* A rollback that is over leaves every station at rest.
LEMMA RollbackEndStep ==
  ASSUME ReloadInv, RollbackEnd
  PROVE  ReloadInv'
<1> USE SettingsPositive, BoundsNatural
<1>1. /\ at.phase = "settle" /\ tx.failed /\ broken = "none" /\ broken' = "none" /\ at' = Idle /\ tx.updated = {}
      /\ UNCHANGED <<runtime, host, inside, radio, open, orphans, reloads>>
  BY DEF RollbackEnd, Here, ReloadInv, Shape
<1>2. Idle \in [phase : Phases, at : 0 .. N + 1]
  BY DEF Idle, Phases
<1>3. CASE tx' = tx
  <2>1. Shape'
    BY <1>1, <1>3 DEF ReloadInv, Shape, Pending, Idle, runtime
  <2>2. \A n \in Names : Finished(n)' <=> Finished(n)
    BY <1>1 DEF Finished, Idle
  <2> QED  BY <1>1, <1>2, <1>3, <2>1, <2>2, FlagTypes, Standing DEF ReloadInv, ReloadTypeOK, radio
<1>4. CASE tx' = NoTransaction /\ tx.opened = {} /\ \A n \in tx.changed : tx.restoring[n] = "done"
  <2>1. ReloadTypeOK'
    BY <1>1, <1>2, <1>4, FlagTypes, NoTransactionFacts DEF ReloadInv, ReloadTypeOK, runtime, host, radio
  <2>2. ASSUME NEW n \in Names PROVE Station(n)'
    <3>1. n \in nodes => Rest(n)
      BY <1>1, <1>4 DEF ReloadInv, Station, Untouched, Returning
    <3>2. Hosted(n)' /\ (Rest(n)' <=> Rest(n))
      BY <1>1 DEF ReloadInv, Station, Hosted, Rest, Running, Dead, runtime, host, radio
    <3>3. n \notin nodes /\ n \notin retiredNodes => device[n] = Off
      BY <1>4 DEF ReloadInv, Station, Untouched
    <3> QED  BY <1>1, <1>4, <3>1, <3>2, <3>3, SettledStation DEF runtime, radio
  <2> QED  BY <1>1, <1>4, <2>1, <2>2, SettledShape DEF ReloadInv
<1> QED  BY <1>3, <1>4 DEF RollbackEnd

\* A reload begins with every station at rest and nothing retained.
LEMMA BeginReloadStep ==
  ASSUME ReloadInv, NEW target \in Documents, BeginReload(target)
  PROVE  ReloadInv'
<1> USE SettingsPositive, BoundsNatural
<1>1. /\ at = Idle /\ broken = "none" /\ ~halting /\ tx = NoTransaction /\ retiredNodes = {} /\ reloads < MaxReloads
      /\ at' = [phase |-> "forward", at |-> 1] /\ reloads' = reloads + 1
      /\ UNCHANGED <<runtime, host, inside, radio, open, orphans, broken>>
  BY DEF BeginReload, Pending, ReloadInv, Shape
<1>2. /\ tx' \in Transactions /\ ~tx'.failed /\ tx'.changed = {} /\ tx'.updated = {} /\ tx'.opened = {}
      /\ tx'.target = target
      /\ \A n \in Names : tx'.state[n] = IF target[n] # Off THEN "prepare" ELSE "none"
  BY ZenonT(60) DEF BeginReload, NoTransaction, Transactions, Documents, Forward, Restoring
<1>3. ReloadTypeOK'
  BY <1>1, <1>2, FlagTypes DEF ReloadInv, ReloadTypeOK, Phases, runtime, host, radio
<1>4. Shape'
  BY <1>1, <1>2 DEF Shape, runtime
<1>5. ASSUME NEW n \in Names PROVE Station(n)'
  <2>1. /\ n \in nodes => Rest(n)
        /\ n \notin nodes => device[n] = Off
    BY <1>1, NoTransactionFacts DEF ReloadInv, Station, Untouched
  <2>2. Hosted(n)' /\ (Rest(n)' <=> Rest(n))
    BY <1>1 DEF ReloadInv, Station, Hosted, Rest, Running, Dead, runtime, host, radio
  <2>3. Untouched(n)' /\ Candidate(n)'
    BY <1>1, <1>2, <2>1, <2>2 DEF Untouched, Candidate, runtime, radio
  <2> QED  BY <1>2, <2>2, <2>3 DEF Station
<1> QED  BY <1>3, <1>4, <1>5 DEF ReloadInv

\* A stop while a transaction is pending gates every station where it stands.
LEMMA StopPendingStep ==
  ASSUME ReloadInv, StopPending
  PROVE  ReloadInv'
<1> USE SettingsPositive, BoundsNatural
<1>1. /\ at = Idle /\ Pending /\ broken = "none" /\ halting' = TRUE
      /\ stopped' = [n \in Names |-> stopped[n] \/ n \in nodes]
      /\ gated' = [n \in Names |-> gated[n] \/ n \in nodes]
      /\ UNCHANGED <<document, nodes, retiredNodes, stored, retiring, inside, device, activated, quiet, staged,
                     open, orphans, tx, at, reloads, broken>>
  BY DEF StopPending, radio, ReloadInv, Shape
<1>2. ReloadTypeOK'
  BY <1>1, FlagTypes DEF ReloadInv, ReloadTypeOK
<1>3. Shape'
  BY <1>1 DEF ReloadInv, Shape, Pending, Idle
<1>4. ASSUME NEW n \in Names PROVE Station(n)'
  <2>1. CASE n \notin nodes
    <3>1. SameHost(n) /\ SameRadio(n) /\ SameProgress(n)
      BY <1>1, <2>1, FlagTypes DEF ReloadInv, SameHost, SameRadio, SameProgress, Finished
    <3> QED  BY <3>1, StationFrame DEF ReloadInv
  <2>2. CASE n \in nodes
    <3>1. Dead(n)' /\ gated'[n]
      BY ZenonT(60), <1>1, <2>2 DEF Dead
    <3>2. Rest(n)' /\ Edited(n)' /\ (Advanced(n)' <=> Advanced(n))
      BY <1>1, <3>1 DEF Rest, Edited, Advanced
    <3>3. Hosted(n)' /\ Untouched(n)'
      BY <1>1, <2>2, <3>1, <3>2 DEF ReloadInv, Station, Hosted, Untouched, Dead
    <3>4. ~tx.failed => Candidate(n)'
      BY ZenonT(60), <1>1, <2>2, <3>1, <3>2 DEF ReloadInv, Station, Candidate
    <3>5. tx.failed => Returning(n)'
      BY Zenon, <1>1, <2>2, <3>1, <3>2 DEF ReloadInv, Station, Returning
    <3> QED  BY ZenonT(60), <1>1, <3>3, <3>4, <3>5 DEF Station
  <2> QED  BY <2>1, <2>2
<1> QED  BY <1>2, <1>3, <1>4 DEF ReloadInv

\* A generation is reclaimed; a removed station goes with its last one.
LEMMA ReleaseStep ==
  ASSUME ReloadInv, NEW m \in Names, ReleaseNodes(m)
  PROVE  ReloadInv'
<1> USE SettingsPositive, BoundsNatural
<1>1. /\ at = Idle /\ broken = "none" /\ retiring' = [retiring EXCEPT ![m] = FALSE]
      /\ stored' = IF stopped[m] THEN [stored EXCEPT ![m] = Off] ELSE stored
      /\ UNCHANGED <<document, nodes, halting, gated, inside, tx, at, reloads, broken>>
  BY DEF ReleaseNodes, ReloadInv, Shape
<1>2. stored' \in [Names -> Settings \cup {Off}] /\ retiring' \in [Names -> BOOLEAN]
  BY <1>1, FlagTypes DEF ReloadInv, ReloadTypeOK
<1>3. CASE m \in retiredNodes
  <2>1. /\ retiredNodes' = retiredNodes \ {m}
        /\ orphans' \in {orphans, orphans \cup {m}}
        /\ stopped' = [stopped EXCEPT ![m] = FALSE]
        /\ open' = [open EXCEPT ![m] = FALSE]
        /\ Closed(m)
    BY <1>3 DEF ReleaseNodes
  <2>2. tx = NoTransaction /\ tx' = NoTransaction /\ m \notin nodes
    BY <1>1, <1>3 DEF ReloadInv, Shape, Pending, Station, Hosted
  <2>3. ReloadTypeOK'
    <3>1. orphans' \subseteq Names /\ retiredNodes' \subseteq Names
      BY <2>1 DEF ReloadInv, ReloadTypeOK
    <3> QED  BY <1>1, <1>2, <2>1, <3>1, FlagTypes DEF ReloadInv, ReloadTypeOK, Closed
  <2>4. Shape'
    BY <1>1, <2>2, SettledShape
  <2>5. Others(m)
    BY <1>1, <2>1 DEF ReloadInv, ReloadTypeOK, Others, SameHost, SameRadio, SameProgress, Finished, Closed
  <2>6. Hosted(m)' /\ device'[m] = Off
    <3>1. Hosted(m)
      BY DEF ReloadInv, Station
    <3> QED  BY <1>1, <2>1, <2>2, <3>1, FlagTypes DEF ReloadInv, ReloadTypeOK, Hosted, Closed
  <2>7. Station(m)'
    BY <1>1, <2>2, <2>6, SettledStation
  <2> QED  BY <2>3, <2>4, <2>5, <2>7, OneStation
<1>4. CASE m \notin retiredNodes
  <2>1. UNCHANGED <<retiredNodes, orphans, stopped, open, device, activated, quiet, staged>>
    BY <1>4 DEF ReleaseNodes, radio
  <2>2. ReloadTypeOK'
    BY <1>1, <1>2, <2>1, FlagTypes DEF ReloadInv, ReloadTypeOK
  <2>3. Shape'
    BY ZenonT(60), <1>1, <2>1 DEF ReloadInv, Shape, Pending
  <2>4. Others(m)
    BY <1>1, <2>1 DEF ReloadInv, ReloadTypeOK, Others, SameHost, SameRadio, SameProgress, Finished
  <2>5. stored'[m] = stored[m] \/ (stopped[m] /\ stored'[m] = Off)
    BY <1>1 DEF ReloadInv, ReloadTypeOK
  <2>6. (Rest(m) => Rest(m)') /\ (Edited(m) => Edited(m)') /\ (Advanced(m)' <=> Advanced(m))
    BY ZenonT(60), <1>1, <2>1, <2>5 DEF Rest, Running, Dead, Edited, Advanced, Finished
  <2>7. Hosted(m)' /\ Untouched(m)'
    BY ZenonT(60), <1>1, <2>1, <2>5, <2>6 DEF ReloadInv, Station, Hosted, Untouched
  <2>8. ~tx.failed => Candidate(m)'
    BY ZenonT(60), <1>1, <2>1, <2>6 DEF ReloadInv, Station, Candidate
  <2>9. tx.failed => Returning(m)'
    BY ZenonT(60), <1>1, <2>1, <2>6 DEF ReloadInv, Station, Returning
  <2>10. Station(m)'
    BY <1>1, <2>7, <2>8, <2>9 DEF Station
  <2> QED  BY <2>2, <2>3, <2>4, <2>10, OneStation
<1> QED  BY <1>3, <1>4

\* Radios are closed: what CloseAll leaves of each.
LEMMA CloseAllFacts ==
  ASSUME ReloadTypeOK, NEW S \in SUBSET Names, CloseAll(S)
  PROVE  /\ device' \in [Names -> Settings \cup {Off}] /\ staged' \in [Names -> Settings \cup {Off}]
         /\ activated' \in [Names -> BOOLEAN] /\ quiet' \in [Names -> BOOLEAN]
         /\ \A n \in S : device'[n] = Off /\ staged'[n] = Off
         /\ \A n \in Names \ S : SameRadio(n)
BY FlagTypes DEF ReloadTypeOK, CloseAll, SameRadio

\* A radio refuses to finish its edit: every touched station is stopped, every
\* fresh lease closed, the others are at rest.
LEMMA CommitRefusedStep ==
  ASSUME ReloadInv, NEW m \in Names, CommitRefused(m)
  PROVE  ReloadInv'
<1> USE SettingsPositive, BoundsNatural
<1> DEFINE touched == tx.changed \cup tx.updated
<1>1. /\ Here("commit", m) /\ tx' = NoTransaction /\ at' = Idle
      /\ UNCHANGED <<document, nodes, retiredNodes, halting, stored, retiring, inside, orphans, reloads, broken>>
  BY DEF CommitRefused, runtime
<1>2. PICK closing \in SUBSET touched : StopNodes(touched, closing) /\ CloseAll(closing \cup tx.opened)
  BY ZenonT(60) DEF CommitRefused
<1>3. broken = "none" /\ retiredNodes = {} /\ touched \subseteq nodes /\ (\A n \in tx.opened : n \notin nodes)
  BY <1>1 DEF ReloadInv, Shape, Here
<1>4. closing \cup tx.opened \in SUBSET Names
  BY <1>2, TransactionTypes DEF ReloadInv, ReloadTypeOK
<1>5. /\ stopped' = [n \in Names |-> stopped[n] \/ n \in touched]
      /\ gated' = [n \in Names |-> gated[n] \/ n \in touched]
      /\ open' = [n \in Names |-> open[n] /\ n \notin closing]
  BY <1>2 DEF StopNodes
<1>6. ReloadTypeOK'
  <2>1. /\ device' \in [Names -> Settings \cup {Off}] /\ staged' \in [Names -> Settings \cup {Off}]
        /\ activated' \in [Names -> BOOLEAN] /\ quiet' \in [Names -> BOOLEAN]
    BY Zenon, <1>2, <1>4, CloseAllFacts DEF ReloadInv
  <2>2. stopped' \in [Names -> BOOLEAN] /\ gated' \in [Names -> BOOLEAN] /\ open' \in [Names -> BOOLEAN]
    BY <1>5
  <2>3. at' \in [phase : Phases, at : 0 .. N + 1]
    BY <1>1 DEF Idle, Phases
  <2> QED  BY ZenonT(60), <1>1, <2>1, <2>2, <2>3, NoTransactionFacts, FlagTypes DEF ReloadInv, ReloadTypeOK
<1>7. ASSUME NEW n \in Names PROVE Station(n)'
  <2>1. Station(n)
    BY DEF ReloadInv
  <2>2. CASE n \in touched
    <3>1. Dead(n)'
      BY ZenonT(60), <1>5, <2>2 DEF Dead
    <3>2. device'[n] = Off => staged'[n] = Off
      BY <1>2, <1>4, <2>1, CloseAllFacts DEF ReloadInv, SameRadio, Station, Hosted
    <3>3. Hosted(n)'
      BY <1>1, <2>1, <3>1, <3>2 DEF Station, Hosted, Dead
    <3> QED  BY <1>1, <1>3, <2>2, <3>1, <3>3, SettledStation DEF Rest
  <2>3. CASE n \notin touched /\ n \in tx.opened
    <3>1. device'[n] = Off /\ staged'[n] = Off /\ n \notin nodes
      BY <1>2, <1>3, <1>4, <2>3, CloseAllFacts DEF ReloadInv
    <3>2. Hosted(n)'
      BY ZenonT(60), <1>1, <1>5, <2>1, <3>1, FlagTypes DEF ReloadInv, Station, Hosted
    <3> QED  BY <1>1, <3>1, <3>2, SettledStation
  <2>4. CASE n \notin touched /\ n \notin tx.opened
    <3>1. SameHost(n) /\ SameRadio(n)
      BY ZenonT(60), <1>1, <1>2, <1>4, <1>5, <2>4, CloseAllFacts, FlagTypes DEF ReloadInv, SameHost
    <3>2. (n \in nodes => Rest(n)) /\ (n \notin nodes => device[n] = Off)
      BY <1>3, <2>1, <2>4 DEF Station, Untouched
    <3>3. Hosted(n)' /\ (Rest(n)' <=> Rest(n))
      BY Zenon, <2>1, <3>1 DEF Station, Hosted, Rest, Running, Dead, SameHost, SameRadio
    <3> QED  BY ZenonT(60), <1>1, <3>1, <3>2, <3>3, SettledStation DEF SameRadio
  <2> QED  BY <2>2, <2>3, <2>4
<1> QED  BY <1>1, <1>3, <1>6, <1>7, SettledShape DEF ReloadInv

\* Runtime::stop: a station that goes without a generation is closed.
LEMMA StopRuntimeStep ==
  ASSUME ReloadInv, StopRuntime
  PROVE  ReloadInv'
<1> USE SettingsPositive, BoundsNatural
<1> DEFINE S == nodes \cup {n \in retiredNodes : open[n]}
<1>1. /\ at = Idle /\ tx = NoTransaction /\ broken = "none" /\ halting' = TRUE /\ nodes' = {}
      /\ retiredNodes' = (retiredNodes \cup nodes) \ Empty
      /\ UNCHANGED <<document, stored, retiring, inside, tx, at, reloads, broken>>
  BY DEF StopRuntime, Pending, ReloadInv, Shape
<1>2. PICK closing \in SUBSET S :
        /\ stopped' = [n \in Names |-> stopped[n] \/ n \in S]
        /\ gated' = [n \in Names |-> gated[n] \/ n \in S]
        /\ open' = [n \in Names |-> open[n] /\ n \notin closing \cup Empty]
        /\ CloseAll(closing \cup Empty)
        /\ orphans' = orphans \cup {n \in Empty \ closing : open[n]}
  BY Zenon DEF StopRuntime
<1>3. S \subseteq Names /\ Empty \subseteq Names /\ closing \cup Empty \in SUBSET Names
  BY <1>2 DEF ReloadInv, ReloadTypeOK, Empty
<1>4. ReloadTypeOK'
  <2>1. orphans' \subseteq Names /\ retiredNodes' \subseteq Names /\ nodes' \subseteq Names
    BY Zenon, <1>1, <1>2, <1>3 DEF ReloadInv, ReloadTypeOK
  <2>2. stopped' \in [Names -> BOOLEAN] /\ gated' \in [Names -> BOOLEAN] /\ open' \in [Names -> BOOLEAN]
    BY <1>2, FlagTypes DEF ReloadInv
  <2>3. /\ device' \in [Names -> Settings \cup {Off}] /\ staged' \in [Names -> Settings \cup {Off}]
        /\ activated' \in [Names -> BOOLEAN] /\ quiet' \in [Names -> BOOLEAN]
    BY Zenon, <1>2, <1>3, CloseAllFacts DEF ReloadInv
  <2> QED  BY ZenonT(60), <1>1, <2>1, <2>2, <2>3, FlagTypes DEF ReloadInv, ReloadTypeOK
<1>5. ASSUME NEW n \in Names PROVE Station(n)'
  <2>1. Hosted(n) /\ Untouched(n)
    BY DEF ReloadInv, Station
  <2>2. /\ device'[n] = Off => staged'[n] = Off
        /\ n \in Empty => device'[n] = Off
        /\ device[n] = Off => device'[n] = Off
    BY ZenonT(60), <1>2, <1>3, <2>1, CloseAllFacts DEF ReloadInv, Hosted, SameRadio
  <2>3. Hosted(n)'
    BY ZenonT(60), <1>1, <1>2, <2>1, <2>2 DEF Hosted
  <2>4. n \notin retiredNodes' => device'[n] = Off
    BY <1>1, <2>1, <2>2, NoTransactionFacts DEF Untouched
  <2> QED  BY <1>1, <2>3, <2>4, SettledStation
<1>6. Shape'
  BY <1>1, SettledShape
<1> QED  BY <1>4, <1>5, <1>6 DEF ReloadInv

\* Publication: every candidate is ready, so every published station runs its
\* new settings on a radio open for them, and a removed one stops.
LEMMA CommitStep ==
  ASSUME ReloadInv, Commit
  PROVE  ReloadInv'
<1> USE SettingsPositive, BoundsNatural
<1> DEFINE kept == {n \in Names : tx.target[n] # Off}
           removed == nodes \ kept
<1>1. /\ Here("commit", N + 1) /\ tx' = NoTransaction /\ at' = Idle
      /\ \A n \in kept \cap nodes : ~stopped[n]
      /\ stored' = [n \in Names |-> IF n \in kept THEN tx.target[n] ELSE stored[n]]
      /\ retiring' = [n \in Names |-> retiring[n] \/ n \in kept \cap nodes]
      /\ stopped' = [n \in Names |-> n \in removed]
      /\ gated' = [n \in Names |-> n \notin kept]
      /\ document' = tx.target /\ nodes' = kept /\ retiredNodes' = removed \ Empty
      /\ UNCHANGED <<halting, inside, reloads, broken>>
  BY ZenonT(60) DEF Commit
<1>2. PICK closing \in SUBSET removed :
        /\ open' = [n \in Names |->
             \/ n \in kept /\ (open[n] \/ n \notin nodes)
             \/ n \in removed \ Empty /\ open[n] /\ n \notin closing]
        /\ CloseAll(closing \cup (removed \cap Empty))
        /\ orphans' = orphans \cup {n \in (removed \cap Empty) \ closing : open[n]}
  BY ZenonT(60) DEF Commit
<1>3. /\ at = [phase |-> "commit", at |-> N + 1] /\ broken = "none" /\ ~halting /\ ~tx.failed /\ retiredNodes = {}
      /\ \A n \in Names : tx.state[n] \in {"none", "ready"}
  BY ZenonT(60), <1>1 DEF ReloadInv, Shape, Here
<1>4. removed \subseteq Names /\ closing \cup (removed \cap Empty) \in SUBSET Names
  BY ZenonT(60), <1>2 DEF ReloadInv, ReloadTypeOK
<1>5. ReloadTypeOK'
  <2>1. orphans' \subseteq Names /\ retiredNodes' \subseteq Names /\ nodes' \subseteq Names
    BY Zenon, <1>1, <1>2, <1>4 DEF ReloadInv, ReloadTypeOK
  <2>2. /\ stopped' \in [Names -> BOOLEAN] /\ gated' \in [Names -> BOOLEAN] /\ open' \in [Names -> BOOLEAN]
        /\ retiring' \in [Names -> BOOLEAN]
    BY <1>1, <1>2, FlagTypes DEF ReloadInv
  <2>3. document' \in Documents /\ stored' \in [Names -> Settings \cup {Off}]
    BY ZenonT(60), <1>1, TransactionTypes DEF ReloadInv, ReloadTypeOK, Documents
  <2>4. /\ device' \in [Names -> Settings \cup {Off}] /\ staged' \in [Names -> Settings \cup {Off}]
        /\ activated' \in [Names -> BOOLEAN] /\ quiet' \in [Names -> BOOLEAN]
    BY Zenon, <1>2, <1>4, CloseAllFacts DEF ReloadInv
  <2>5. at' \in [phase : Phases, at : 0 .. N + 1]
    BY <1>1 DEF Idle, Phases
  <2> QED  BY ZenonT(60), <1>1, <2>1, <2>2, <2>3, <2>4, <2>5, NoTransactionFacts, FlagTypes DEF ReloadInv, ReloadTypeOK
<1>6. ASSUME NEW n \in Names PROVE Station(n)'
  <2>1. Hosted(n) /\ Untouched(n) /\ Candidate(n) /\ Finished(n)
    BY <1>3 DEF ReloadInv, Station, Finished, Names
  <2>2. /\ device'[n] = Off => staged'[n] = Off
        /\ n \in removed \cap Empty => device'[n] = Off
        /\ device[n] = Off => device'[n] = Off
        /\ n \notin removed => SameRadio(n)
    BY ZenonT(60), <1>2, <1>4, <2>1, CloseAllFacts DEF ReloadInv, Hosted, SameRadio
  <2>3. CASE n \in kept
    <3>1. tx.state[n] = "ready"
      BY ZenonT(60), <1>3, <2>1, <2>3 DEF Candidate
    <3>2. device[n] = tx.target[n] /\ staged[n] = Off /\ activated[n] /\ (open[n] \/ n \notin nodes)
      BY ZenonT(60), <1>1, <2>1, <2>3, <3>1 DEF Untouched, Candidate, Edited, Advanced, Rest, Running, Dead
    <3>3. Running(n)'
      BY ZenonT(60), <1>1, <1>2, <2>2, <2>3, <3>2 DEF Running, SameRadio
    <3>4. Hosted(n)'
      BY ZenonT(60), <1>1, <1>3, <2>2, <2>3, <3>3 DEF Hosted, Running
    <3> QED  BY Zenon, <1>1, <2>3, <3>3, <3>4, SettledStation DEF Rest
  <2>4. CASE n \notin kept
    <3>1. Hosted(n)'
      BY ZenonT(60), <1>1, <2>2, <2>4 DEF Hosted
    <3>2. n \notin nodes => device[n] = Off
      BY <1>3, <2>1, <2>4 DEF Untouched, Candidate
    <3>3. n \notin retiredNodes' => device'[n] = Off
      BY ZenonT(60), <1>1, <2>2, <2>4, <3>2
    <3> QED  BY <1>1, <2>4, <3>1, <3>3, SettledStation
  <2> QED  BY <2>3, <2>4
<1>7. Shape'
  BY <1>1, <1>3, SettledShape
<1> QED  BY <1>5, <1>6, <1>7 DEF ReloadInv

\* A running station is at rest.
LEMMA ReloadInitInv == ReloadInit => ReloadInv
<1> SUFFICES ASSUME ReloadInit PROVE ReloadInv
  OBVIOUS
<1> USE SettingsPositive, BoundsNatural
<1>1. document \in Documents /\ document \in [Names -> Settings \cup {Off}]
  BY DEF ReloadInit, Documents
<1>2. ReloadTypeOK
  <2>1. /\ retiring \in [Names -> BOOLEAN] /\ stopped \in [Names -> BOOLEAN] /\ gated \in [Names -> BOOLEAN]
        /\ inside \in [Names -> BOOLEAN] /\ activated \in [Names -> BOOLEAN] /\ quiet \in [Names -> BOOLEAN]
        /\ open \in [Names -> BOOLEAN]
    BY DEF ReloadInit
  <2>2. \A f \in {retiring, stopped, gated, inside, activated, quiet, open} : f \in [Names -> BOOLEAN]
    BY <2>1
  <2>3. /\ nodes \subseteq Names /\ staged \in [Names -> Settings \cup {Off}]
        /\ tx \in Transactions /\ at \in [phase : Phases, at : 0 .. N + 1] /\ reloads \in 0 .. MaxReloads
    BY NoTransactionFacts DEF ReloadInit, Idle, Phases
  <2> QED  BY Zenon, <1>1, <2>2, <2>3 DEF ReloadInit, ReloadTypeOK
<1>3. Shape
  BY NoTransactionFacts DEF ReloadInit, Shape, Pending, Idle
<1>4. ASSUME NEW n \in Names PROVE Station(n)
  <2>1. Hosted(n)
    BY DEF ReloadInit, Hosted
  <2>2. Untouched(n)
    BY Zenon, NoTransactionFacts DEF ReloadInit, Untouched, Rest, Running
  <2>3. Candidate(n) /\ ~tx.failed
    BY Zenon, NoTransactionFacts DEF ReloadInit, Candidate
  <2> QED  BY <2>1, <2>2, <2>3 DEF Station
<1> QED  BY <1>2, <1>3, <1>4 DEF ReloadInv

\* Every step of a poll, of the product and of the callbacks preserves it, except
\* a commit that panics.
LEMMA ReloadStep == ReloadInv /\ [ReloadNext]_reloadVars /\ broken' = "none" => ReloadInv'
<1> SUFFICES ASSUME ReloadInv, [ReloadNext]_reloadVars, broken' = "none" PROVE ReloadInv'
  OBVIOUS
<1>1. CASE PollReload
  <2>1. CASE BeginPoll
    BY <2>1, BeginPollStep
  <2>2. ASSUME NEW m \in Names,
               \/ PrepareSimple(m) \/ PrepareUpdate(m) \/ PrepareHandoff(m) \/ GateProtected(m) \/ Quiesced(m)
               \/ OpenNew(m) \/ WaitNew(m)
               \/ CloseFresh(m) \/ RestoreClose(m) \/ RestoreOpen(m) \/ RestoreWait(m) \/ RestoreFailed(m)
               \/ UndoUpdate(m) \/ CommitUpdate(m) \/ CommitRefused(m)
        PROVE  ReloadInv'
    BY <2>2, PrepareSimpleStep, PrepareUpdateStep, GateProtectedStep, QuiescedStep, OpenNewStep, WaitNewStep, CloseFreshStep,
         RestoreCloseStep, RestoreOpenStep, RestoreWaitStep, RestoreFailedStep, UndoUpdateStep, CommitUpdateStep,
         CommitRefusedStep
  <2>3. CASE \/ \E m \in Names : ForwardPass(m) \/ FreshPass(m) \/ RestorePass(m)
             \/ ForwardEnd \/ BackPhase
    BY <2>3, MoveStep
  <2>4. CASE RollbackEnd
    BY <2>4, RollbackEndStep
  <2>5. CASE Commit
    BY <2>5, CommitStep
  <2>6. ~CommitFault
    BY DEF CommitFault
  <2> QED  BY <1>1, <2>1, <2>2, <2>3, <2>4, <2>5, <2>6 DEF PollReload
<1>2. CASE \E target \in Documents : BeginReload(target)
  BY <1>2, BeginReloadStep
<1>3. CASE \/ \E n \in Names : Enter(n) \/ Leave(n) \/ Prune(n)
           \/ UNCHANGED reloadVars
  BY <1>3, BesideStep
<1>4. CASE \E n \in Names : ReleaseNodes(n)
  BY <1>4, ReleaseStep
<1>5. CASE StopPending
  BY <1>5, StopPendingStep
<1>6. CASE StopRuntime
  BY <1>6, StopRuntimeStep
<1> QED  BY <1>1, <1>2, <1>3, <1>4, <1>5, <1>6 DEF ReloadNext

\* A commit that has panicked is not forgotten.
LEMMA BrokenStays == [ReloadNext]_reloadVars /\ broken' = "none" => broken = "none"
<1> SUFFICES ASSUME [ReloadNext]_reloadVars, broken' = "none" PROVE broken' = broken
  OBVIOUS
<1>1. CASE PollReload
  BY Zenon, <1>1 DEF PollReload, BeginPoll, ForwardPass, PrepareSimple, PrepareUpdate, PrepareHandoff, GateProtected,
       Quiesced, OpenNew, WaitNew, CloseFresh, FreshPass, RestorePass, RestoreClose, RestoreOpen, RestoreWait,
       RestoreFailed, UndoUpdate, CommitUpdate, CommitRefused, ForwardEnd, BackPhase, RollbackEnd, Commit, CommitFault
<1>2. CASE ~PollReload
  BY Zenon, <1>2 DEF ReloadNext, Enter, Leave, ReleaseNodes, Prune, BeginReload, StopPending, StopRuntime, reloadVars
<1> QED  BY <1>1, <1>2

\* So the invariant holds for as long as no commit has panicked.
SoundSoFar == broken = "none" => ReloadInv

LEMMA ReloadsSound == ReloadSpec => []SoundSoFar
<1>1. ReloadInit => SoundSoFar
  BY ReloadInitInv DEF SoundSoFar
<1>2. SoundSoFar /\ [ReloadNext]_reloadVars => SoundSoFar'
  BY ReloadStep, BrokenStays DEF SoundSoFar
<1> QED  BY <1>1, <1>2, PTL DEF ReloadSpec

\* A station that callbacks may enter is touched by nothing that moves its radio.
LEMMA ReloadInvMatches == SoundSoFar => CallbacksMatchDevice
<1> SUFFICES ASSUME ReloadInv, NEW n \in nodes \ tx.updated, ~gated[n]
             PROVE  stored[n] # Off /\ device[n] \in {Off, stored[n]}
  BY DEF CallbacksMatchDevice, SoundSoFar
<1>1. n \in Names /\ Station(n)
  BY DEF ReloadInv, ReloadTypeOK
<1>2. stored[n] = document[n] /\ document[n] # Off /\ ~Dead(n)
  BY <1>1 DEF Station, Hosted, Dead
<1>3. device[n] \in {Off, document[n]}
  <2>1. CASE n \notin tx.changed
    BY <1>1, <1>2, <2>1 DEF Station, Untouched, Rest, Running
  <2>2. CASE n \in tx.changed /\ ~tx.failed
    BY <1>1, <1>2, <2>2 DEF Station, Candidate, Rest, Running
  <2>3. CASE n \in tx.changed /\ tx.failed
    <3>1. tx.restoring[n] \in {"close", "open", "waiting", "failed", "done"}
      BY ZenonT(60), <1>1, <2>3, TransactionTypes DEF ReloadInv, ReloadTypeOK, Station, Returning, Restoring
    <3> QED  BY <1>1, <1>2, <2>3, <3>1 DEF Station, Returning, Rest, Running
  <2> QED  BY <2>1, <2>2, <2>3 DEF ReloadInv, ReloadTypeOK
<1> QED  BY <1>2, <1>3

\* With no transaction retained, the configured stations are at rest.
LEMMA ReloadInvAtomic == SoundSoFar => ReloadAtomic
<1> SUFFICES ASSUME ReloadInv, ~Pending, at = Idle
             PROVE  /\ ~halting => nodes = {n \in Names : document[n] # Off}
                    /\ Consistent
                    /\ FreshLeasesClosed
  BY DEF ReloadAtomic, SoundSoFar
<1>1. ~halting => nodes = {n \in Names : document[n] # Off}
  BY DEF ReloadInv, ReloadTypeOK, Station, Hosted
<1>2. ASSUME NEW n \in nodes PROVE Rest(n)
  BY NoTransactionFacts DEF ReloadInv, ReloadTypeOK, Station, Untouched, Pending
<1>3. Consistent
  BY <1>2 DEF Consistent, Rest, Running, Dead
<1>4. FreshLeasesClosed
  BY NoTransactionFacts DEF FreshLeasesClosed, ReloadInv, Station, Untouched, Pending
<1> QED  BY <1>1, <1>3, <1>4

\* Audio never runs on a foreign device: at every moment of every reload,
\* rollback and stop, a station whose callbacks may enter has its radio closed,
\* or open for the generation they enter (Runtime::poll_reload), for as long as
\* no commit has panicked on a station that an earlier rollback stopped.
THEOREM CallbacksOnOwnRadio == ReloadSpec => []CallbacksMatchDevice
BY ReloadsSound, ReloadInvMatches, PTL

\* A reload is all or nothing: when no transaction is retained, every station of
\* the published document is configured, and runs it on a radio open and
\* activated for it, or is stopped and gated, and no unpublished station holds a
\* radio (ReloadTransaction::rollback, Runtime::commit_reload); for as long as no
\* commit has panicked.
THEOREM ReloadsAreAtomic == ReloadSpec => []ReloadAtomic
BY ReloadsSound, ReloadInvAtomic, PTL
=============================================================================
