-------------------------- MODULE NodeHostInvariant --------------------------
(***************************************************************************)
(* The inductive invariant of the generation host: what must hold between   *)
(* any two atomic accesses for its safety to be preserved by the next one.  *)
(***************************************************************************)
EXTENDS NodeHost

Full(t) == store[t] # Null
Dropping == op = "drop" \/ ControlAt("dropped")

\* The newest generation a callback can have seen: the one being exposed does
\* not count until the pointer is stored.
Exposed == IF ControlAt("expose") THEN lastGen - 1 ELSE lastGen

\* Boxes: ids are unique, the store refers to live boxes, the active one is the
\* newest, and only destruction loses track of one.
Boxes ==
  /\ \A a, b \in Addr : a # b /\ heap[a] # 0 => heap[a] # heap[b]
  /\ \A a \in Addr : heap[a] <= lastGen
  /\ \A t \in Targets : Full(t) => Stored(t) # 0
  /\ Full("active") => store["active"] # store["retired"]
  /\ Full("active") => Stored("active") = lastGen
  /\ ~Dropping => \A a \in Addr : heap[a] # 0 => \E t \in Targets : store[t] = a
  /\ ~stopping /\ ~Dropping => Full("active")

\* Permits: a generation not yet prepared is untouched, one with permits is
\* live, and the active one stops admitting or is detached only at the end.
Permits ==
  /\ \A g \in Gens : g > lastGen =>
       admitted[g] /\ ~detached[g] /\ outstanding[g] = 0
  /\ \A g \in Gens : outstanding[g] > 0 => \E a \in Addr : heap[a] = g
  /\ Full("active") /\ (detached[Stored("active")] \/ ~admitted[Stored("active")])
       => stopping \/ Dropping

\* Entry: what the published pointer can be at each point of control.
Entry ==
  /\ active # Null => active = store[IF ControlAt("expose") THEN "retired" ELSE "active"]
  /\ stopping \/ Dropping => active = Null
  /\ step \in {"gateScan", "transfer", "closed", "restore", "stop"} => active = Null

\* Calls: what control has established when it is inside a call.
Calls ==
  /\ step \in {"gateScan", "transfer", "closed"} =>
       CanPublish /\ op \in {"transfer", "handoff"}
  /\ step = "restore" => Full("active") /\ ~stopping /\ op \in {"transfer", "handoff"}
  /\ step = "expose" =>
       /\ Full("active") /\ Full("retired") /\ ~stopping
       /\ Stored("retired") = lastGen - 1
       /\ op \notin {"drop", "reclaim"}
  /\ step = "stop" => stopping /\ op # "drop"
  /\ step \in {"idle", "dropped"} => op = "none"
  /\ step \in {"check", "freeScan", "free"} => op \in {"reclaim", "drop"}
  /\ step \in {"freeScan", "free"} =>
       /\ Full(target)
       /\ detached[Stored(target)]
       /\ outstanding[Stored(target)] = 0

\* A callback about to validate or inside a generation is protected by its
\* slot, and so is a pair
\* between its two entries; what it adopted is never newer than what it holds.
Latched(s) ==
  /\ At(s, "validate") => hazards[s] = cand[s]
  /\ Inside(s) =>
      /\ cand[s] # Null /\ hazards[s] = cand[s]
      /\ heap[cand[s]] # 0 /\ heap[cand[s]] <= Exposed
      /\ adopted[s] <= heap[cand[s]]
      /\ ~At(s, "adopt") => heap[cand[s]] = adopted[s]
Joining ==
  /\ At(Rx, "pairAdopt") => hazards[Tx] = cand[Rx]
  /\ Inside(Rx) /\ At(Tx, "lent") => adopted[Tx] <= heap[cand[Rx]]
Behind == \A s \in Slots : adopted[s] <= Exposed
Guarded == (\A s \in Slots : Latched(s)) /\ Joining /\ Behind

\* The transmit owner is lent exactly while a pair is being entered or left.
Pairs ==
  /\ pc[Rx] \notin {"lent", "paired"}
  /\ pc[Tx] \notin {"pair", "pairAdopt", "unpair"}
  /\ pc[Rx] \in {"pair", "pairAdopt", "unpair"} => At(Tx, "lent")
  /\ At(Tx, "lent") => pc[Rx] \notin {"idle", "held"}
  /\ At(Tx, "paired") => At(Rx, "held") /\ cand[Rx] = cand[Tx]
  /\ ~registered => pc[Rx] = "idle" /\ pc[Tx] = "idle"

\* An attempt is left before each load.
Budget ==
  \A s \in Slots :
    /\ pc[s] \in {"idle", "lent", "paired"} => tries[s] = 0
    /\ At(s, "load") => tries[s] < Attempts

\* The scans: a slot that was passed cannot come to protect what is scanned.
Clear(s, a) == Inside(s) => cand[s] # a
Scans ==
  /\ (ControlAt("gateScan") /\ slot = Tx) => ~Inside(Rx)
  /\ step \in {"transfer", "closed"} => ~Inside(Rx) /\ ~Inside(Tx)
  /\ (ControlAt("freeScan") /\ slot = Tx) => Clear(Rx, store[target])
  /\ ControlAt("free") => Clear(Rx, store[target]) /\ Clear(Tx, store[target])

IInv ==
  /\ TypeOK /\ Boxes /\ Permits /\ Entry /\ Calls
  /\ Guarded /\ Pairs /\ Budget /\ Scans
=============================================================================
