--------------------------- MODULE GenerationCell ---------------------------
(***************************************************************************)
(* What the generation host promises its two callbacks: each callback holds *)
(* at most one generation, enters only the newest prepared one while entry  *)
(* is open (or, as the second half of a pair, the one its partner holds),   *)
(* and no generation that is held or open for entry is ever freed.          *)
(***************************************************************************)
EXTENDS Integers

CONSTANTS MaxGen    \* bound: generations prepared in one behaviour

Rx == 0
Tx == 1
Slots == {Rx, Tx}

VARIABLES current,  \* generation open for entry, 0 when entry is gated
          held,     \* generation each callback is inside, 0 when outside
          live,     \* generations whose storage exists
          newest    \* newest prepared generation

cellVars == <<current, held, live, newest>>

CellInit ==
  /\ current = 1
  /\ held = [s \in Slots |-> 0]
  /\ live = {1}
  /\ newest = 1

PrepareGeneration ==
  /\ newest < MaxGen
  /\ newest' = newest + 1
  /\ live' = live \union {newest + 1}
  /\ UNCHANGED <<current, held>>

SwitchEntry ==
  /\ current' \in {0} \union ({newest} \intersect live)
  /\ UNCHANGED <<held, live, newest>>

Enter(s) ==
  /\ held[s] = 0
  /\ current # 0
  /\ held' = [held EXCEPT ![s] = current]
  /\ UNCHANGED <<current, live, newest>>

EnterWithPartner ==
  /\ held[Tx] = 0
  /\ held[Rx] # 0
  /\ held' = [held EXCEPT ![Tx] = held[Rx]]
  /\ UNCHANGED <<current, live, newest>>

Leave ==
  /\ \E S \in SUBSET Slots : held' = [s \in Slots |-> IF s \in S THEN 0 ELSE held[s]]
  /\ UNCHANGED <<current, live, newest>>

FreeGeneration(g) ==
  /\ g # current
  /\ \A s \in Slots : held[s] # g
  /\ live' = live \ {g}
  /\ UNCHANGED <<current, held, newest>>

CellNext ==
  \/ PrepareGeneration \/ SwitchEntry \/ EnterWithPartner \/ Leave
  \/ \E s \in Slots : Enter(s)
  \/ \E g \in live : FreeGeneration(g)

CellSpec == CellInit /\ [][CellNext]_cellVars
=============================================================================
