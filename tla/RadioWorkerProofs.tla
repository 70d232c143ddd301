------------------------- MODULE RadioWorkerProofs -------------------------
(***************************************************************************)
(* What RadioWorker promises, for every delay, reload, burst and ring      *)
(* size: a block of an earlier burst is never transmitted, and a           *)
(* replacement ring can always still be adopted.  RadioInv is the          *)
(* inductive invariant: two rings in use never share a handoff (Places),   *)
(* control has at most one update out and knows who adopted it (Update), a *)
(* ring whose reset is acknowledged holds audio of its handoff's burst     *)
(* only (Audio), RX writes on an acknowledged handoff (Receive), and TX's  *)
(* token is never ahead of RX's (Transmit).                                *)
(***************************************************************************)
EXTENDS RadioWorker, TLAPS

\* The provers, and the times, for a leaf that names none.
USE ZenonT(2), SMTT(10), ZenonT(20), SMTT(30), ZenonT(60)

WSpec == WInit /\ [][WNext]_wVars

Token == [token : Nat, ack : Nat, burst : Nat]
RingType == [delay : RadioDelays, hand : Nat \ {0}, audio : Seq(Nat)]
Entry == [gen : Nat, ring : Nat]
End == [cur : Nat \ {0}, ready : Entry, pending : Entry, retired : BOOLEAN, adopted : Nat]
RxPoint == [pc : {"idle", "adopt", "check", "write"}, gen : Nat, on : BOOLEAN]
TxPoint == [pc : {"idle", "adopt", "reset", "ack", "render", "check"}, gen : Nat, token : Nat,
            on : BOOLEAN, audio : SUBSET Nat]
Ctl == [phase : {"idle", "quiesce", "open", "publish", "push", "applied"}, delay : RadioDelays,
        device : BOOLEAN, local : BOOLEAN, update : BOOLEAN, awaiting : BOOLEAN, retiring : BOOLEAN]
Worker == [open : BOOLEAN, delay : RadioDelays, update : Entry]

RadioTypeOK ==
    /\ wRings \in Seq(RingType) /\ wHands \in Seq(Token)
    /\ wRx \in RxPoint /\ wTx \in TxPoint
    /\ wEnds \in [Sides -> End]
    /\ wWorker \in Worker /\ wCtl \in Ctl
    /\ wGen.id \in Nat \ {0}
    /\ wBurst \in [n : Nat, on : BOOLEAN]

\* The ring a side holds, its handoff, and the update control has out.
Cur(s) == wEnds[s].cur
HandAt(s) == wHands[HandOf(Cur(s))]
Upd == wWorker.update

\* Every ring and handoff named exists; a ring prepared or adopted by one side
\* only has a handoff of its own.
Places ==
    /\ Len(wHands) >= 1
    /\ \A r \in 1..Len(wRings) : wRings[r].hand \in 1..Len(wHands)
    /\ \A s \in Sides : Cur(s) \in 1..Len(wRings)
    /\ HandOf(Cur("rx")) = HandOf(Cur("tx")) => Cur("rx") = Cur("tx")
    /\ Upd # NoRing =>
        /\ Upd.ring \in 1..Len(wRings)
        /\ \A s \in Sides : HandOf(Cur(s)) = HandOf(Upd.ring) => Cur(s) = Upd.ring
        /\ \A s \in Sides : (wEnds[s].adopted = wGen.id) <=> (Cur(s) = Upd.ring)

\* Nothing, or the prepared ring, waits for a side.
None(s) == wEnds[s].ready = NoRing /\ wEnds[s].pending = NoRing
Waits(s) ==
    /\ \/ wEnds[s].ready = Upd /\ wEnds[s].pending = NoRing
       \/ wEnds[s].ready = NoRing /\ wEnds[s].pending = Upd
    /\ ~wEnds[s].retired
\* Where control is in a reload, and what each side still has to adopt.
Update ==
    /\ \A s \in Sides : wEnds[s].adopted <= wGen.id
    /\ wCtl.phase \in {"quiesce", "open", "publish"} => ~wCtl.retiring
    /\ wCtl.phase = "open" => ~wWorker.open /\ wRx.pc = "idle" /\ wTx.pc = "idle"
    /\ wCtl.awaiting => wCtl.retiring
    /\ wCtl.update => wCtl.awaiting /\ Upd = NoRing /\ \A s \in Sides : wEnds[s].adopted < wGen.id
    /\ wCtl.awaiting /\ ~wCtl.update => Upd # NoRing
    /\ wCtl.phase \in {"push", "applied"} => wCtl.awaiting /\ ~wCtl.update
    /\ Upd = NoRing => \A s \in Sides : None(s)
    /\ Upd # NoRing =>
        /\ Upd.gen = wGen.id /\ wCtl.awaiting
        /\ \A s \in Sides :
            \/ wEnds[s].adopted = wGen.id /\ None(s) /\ ~(s = "tx" /\ wCtl.phase = "push")
            \/ wEnds[s].adopted < wGen.id /\ Waits(s) /\ ~(s = "tx" /\ wCtl.phase = "push")
            \/ wEnds[s].adopted < wGen.id /\ None(s) /\ ~wEnds[s].retired /\ s = "tx" /\ wCtl.phase = "push"

\* An acknowledged ring holds the burst of its handoff, or nothing after an unkey.
Clean(r) ==
    LET h == wHands[HandOf(r)] IN
    h.ack = Epoch(h.token) => IF Qualified(h.token) THEN \A i \in 1..Len(wRings[r].audio) : wRings[r].audio[i] = h.burst
                              ELSE wRings[r].audio = <<>>
\* Every ring in use is clean, and the prepared ring is untouched.
Audio ==
    /\ \A h \in 1..Len(wHands) : wHands[h].ack <= Epoch(wHands[h].token)
    /\ \A s \in Sides : Clean(Cur(s))
    /\ Upd # NoRing /\ Cur("rx") # Upd.ring =>
          wRings[Upd.ring].audio = <<>> /\ wHands[HandOf(Upd.ring)].token = 0

\* RX told its handoff the last edge, or holds the empty ring of a new device.
Published == (Qualified(HandAt("rx").token) <=> wBurst.on) /\ (wBurst.on => HandAt("rx").burst = wBurst.n)
Reopened == /\ wRx.pc = "idle" /\ wRings[Cur("rx")].audio = <<>>
            /\ Cur("tx") = Cur("rx") => wTx.audio = {}
\* RX writes only a burst that it published and that TX acknowledged.
Receive ==
    /\ Published \/ Reopened
    /\ wRx.pc # "idle" => wRx.on = wBurst.on
    /\ wRx.pc \in {"check", "write"} => wRx.on
    /\ wRx.pc = "write" => HandAt("rx").ack = Epoch(HandAt("rx").token)

\* TX acts on a token RX published, resets before it acknowledges, and holds at
\* its last look a block of the burst that token stands for.
Transmit ==
    LET h == HandAt("tx") IN
    /\ wTx.pc # "check" => wTx.audio = {}
    /\ wTx.pc \in {"reset", "ack", "render", "check"} => wTx.token <= h.token
    /\ wTx.pc \in {"reset", "ack", "render"} /\ wTx.on => Qualified(wTx.token)
    /\ wTx.pc \in {"reset", "ack"} => h.ack < Epoch(wTx.token)
    /\ wTx.pc = "ack" => wRings[Cur("tx")].audio = <<>>
    /\ wTx.pc = "render" /\ wTx.on => h.ack = Epoch(wTx.token)
    /\ wTx.pc = "check" /\ wTx.on /\ h.token = wTx.token => \A b \in wTx.audio : b = h.burst

RadioInv == RadioTypeOK /\ Places /\ Update /\ Audio /\ Receive /\ Transmit

USE DEF Sides

-----------------------------------------------------------------------------
(* Tokens, and what an update of one ring or handoff leaves alone *)

\* A token counts falling edges: Epoch moves only with one.
LEMMA TokenFacts ==
  ASSUME NEW t \in Nat
  PROVE  /\ Epoch(t) \in Nat /\ Epoch(t) <= t /\ Qualified(t) \in BOOLEAN
         /\ Qualified(t + 1) = ~Qualified(t)
         /\ Qualified(t) => Epoch(t) < Epoch(t + 1)
         /\ ~Qualified(t) => Epoch(t + 1) = Epoch(t)
         /\ Epoch(0) = 0 /\ ~Qualified(0)
BY DEF Epoch, Qualified

\* A later token is in the same epoch or a later one.
LEMMA EpochMonotone ==
  ASSUME NEW t \in Nat, NEW u \in Nat, t <= u
  PROVE  Epoch(t) <= Epoch(u)
BY DEF Epoch

\* update_qualification publishes the edge and never moves a token back.
LEMMA RequalifiedFacts ==
  ASSUME NEW hand \in Token, NEW on \in BOOLEAN, NEW b \in Nat, NEW q, q = Requalified(hand, on, b)
  PROVE  /\ q \in Token /\ q.ack = hand.ack /\ q.burst = IF on THEN b ELSE hand.burst
         /\ (Qualified(q.token) <=> on) /\ hand.token <= q.token
         /\ (Qualified(hand.token) <=> on) => q.token = hand.token
         /\ ~Qualified(hand.token) /\ on => hand.token < q.token /\ Epoch(q.token) = Epoch(hand.token)
         /\ Qualified(hand.token) /\ ~on => hand.token < q.token /\ Epoch(hand.token) < Epoch(q.token)
<1>1. hand.token \in Nat /\ hand.ack \in Nat /\ hand.burst \in Nat
  BY DEF Token
<1> DEFINE t == IF Qualified(hand.token) = on THEN hand.token ELSE hand.token + 1
           c == IF on THEN b ELSE hand.burst
<1>2. t \in Nat /\ c \in Nat
  BY <1>1
<1>3. q \in Token /\ q.ack = hand.ack /\ q.burst = c /\ q.token = t
  BY Zenon, <1>2 DEF Requalified, Token
<1>4. /\ (Qualified(t) <=> on) /\ hand.token <= t
      /\ (Qualified(hand.token) <=> on) => t = hand.token
      /\ ~Qualified(hand.token) /\ on => hand.token < t /\ Epoch(t) = Epoch(hand.token)
      /\ Qualified(hand.token) /\ ~on => hand.token < t /\ Epoch(hand.token) < Epoch(t)
  BY <1>1, TokenFacts
<1> HIDE DEF t
<1> QED BY <1>3, <1>4

\* A ring whose audio changes keeps its delay and its handoff.
LEMMA RingUpdate ==
  ASSUME RadioTypeOK, NEW r \in 1..Len(wRings), NEW a \in Seq(Nat),
         wRings' = [wRings EXCEPT ![r].audio = a]
  PROVE  /\ wRings' \in Seq(RingType) /\ Len(wRings') = Len(wRings)
         /\ \A j \in 1..Len(wRings) : wRings'[j].hand = wRings[j].hand
         /\ wRings'[r].audio = a
         /\ \A j \in 1..Len(wRings) : j # r => wRings'[j].audio = wRings[j].audio
<1> DEFINE x == [wRings[r] EXCEPT !.audio = a]
<1>1. wRings \in Seq(RingType) /\ wRings[r] \in RingType
  BY DEF RadioTypeOK
<1>2. x \in RingType /\ x.hand = wRings[r].hand /\ x.audio = a
  BY Zenon, <1>1 DEF RingType
<1>3. wRings' = [wRings EXCEPT ![r] = x]
  OBVIOUS
<1> HIDE DEF x
<1>4. /\ wRings' \in Seq(RingType) /\ Len(wRings') = Len(wRings) /\ wRings'[r] = x
      /\ \A j \in 1..Len(wRings) : j # r => wRings'[j] = wRings[j]
  BY <1>1, <1>2, <1>3
<1> QED BY <1>2, <1>4

\* Rings and handoffs stay where they are unless a side exchanges its ring.
LEMMA PlacesFrame ==
  ASSUME Places, RadioTypeOK, Len(wHands') = Len(wHands), Len(wRings') = Len(wRings),
         \A r \in 1..Len(wRings) : wRings'[r].hand = wRings[r].hand,
         \A s \in Sides : wEnds'[s].cur = wEnds[s].cur /\ wEnds'[s].adopted = wEnds[s].adopted,
         wWorker'.update = wWorker.update, wGen' = wGen
  PROVE  Places'
BY ZenonT(60) DEF Places, Cur, HandOf, Upd

\* A callback that runs leaves the update of control alone.
LEMMA UpdateFrame ==
  ASSUME Update, UNCHANGED <<wEnds, wGen, wCtl, wWorker>>,
         wWorker.open \/ wRx.pc # "idle" \/ wTx.pc # "idle"
  PROVE  Update'
BY DEF Update, Upd, None, Waits

\* Every handoff holds a token, an acknowledgement and a burst.
LEMMA HandTypes ==
  ASSUME RadioTypeOK
  PROVE  \A j \in 1..Len(wHands) : /\ wHands[j] \in Token
                                   /\ wHands[j].token \in Nat /\ wHands[j].ack \in Nat /\ wHands[j].burst \in Nat
<1>1. \A j \in 1..Len(wHands) : wHands[j] \in Token
  BY DEF RadioTypeOK
<1> QED BY <1>1 DEF Token

\* The handoff of the ring a side holds.
LEMMA HandFacts ==
  ASSUME RadioTypeOK, Places
  PROVE  \A s \in Sides : /\ Cur(s) \in 1..Len(wRings) /\ HandOf(Cur(s)) \in 1..Len(wHands)
                          /\ HandAt(s) \in Token /\ wRings[Cur(s)].audio \in Seq(Nat)
<1>1. \A s \in Sides : Cur(s) \in 1..Len(wRings) /\ wRings[Cur(s)].hand \in 1..Len(wHands)
  BY DEF Places
<1>2. \A s \in Sides : wRings[Cur(s)] \in RingType
  BY <1>1 DEF RadioTypeOK
<1> QED BY <1>1, <1>2 DEF RadioTypeOK, HandOf, HandAt, RingType

-----------------------------------------------------------------------------
(* The receive callback *)

\* RX publishes the edge on the handoff it uses; every older qualification of
\* TX is void from here on unless the ring is empty.
LEMMA ReceiveBeginStep == ASSUME RadioInv, NEW on \in BOOLEAN, ReceiveBegin(on) PROVE RadioInv'
<1> DEFINE h == HandOf(Cur("rx"))
           q == Requalified(wHands[h], on, wBurst'.n)
<1>1. /\ wWorker.open /\ wRx.pc = "idle"
      /\ wHands' = [wHands EXCEPT ![h] = q]
      /\ UNCHANGED <<wRings, wTx, wEnds, wWorker, wCtl, wGen>>
  BY DEF ReceiveBegin, Cur
<1>2. RadioTypeOK /\ Places /\ Update /\ Audio /\ Receive /\ Transmit
  BY DEF RadioInv
<1>3. wBurst' \in [n : Nat, on : BOOLEAN] /\ wBurst'.on = on /\ (on /\ wBurst.on => wBurst'.n = wBurst.n)
  BY <1>2 DEF ReceiveBegin, RadioTypeOK
<1>4. wRx' \in RxPoint /\ wRx'.pc = "adopt" /\ wRx'.on = on
  BY <1>2 DEF ReceiveBegin, RadioTypeOK, RxPoint
<1>5. h \in 1..Len(wHands) /\ wHands[h] \in Token /\ wHands \in Seq(Token)
  BY <1>2, HandFacts DEF HandAt, RadioTypeOK
<1>6. /\ q \in Token /\ q.ack = wHands[h].ack /\ q.burst = IF on THEN wBurst'.n ELSE wHands[h].burst
      /\ (Qualified(q.token) <=> on) /\ wHands[h].token <= q.token
      /\ (Qualified(wHands[h].token) <=> on) => q.token = wHands[h].token
      /\ ~Qualified(wHands[h].token) /\ on => wHands[h].token < q.token /\ Epoch(q.token) = Epoch(wHands[h].token)
      /\ Qualified(wHands[h].token) /\ ~on => wHands[h].token < q.token /\ Epoch(wHands[h].token) < Epoch(q.token)
  BY <1>3, <1>5, RequalifiedFacts
<1> HIDE DEF h, q
<1>7. /\ wHands' \in Seq(Token) /\ Len(wHands') = Len(wHands) /\ wHands'[h] = q
      /\ \A j \in 1..Len(wHands) : j # h => wHands'[j] = wHands[j]
  BY <1>1, <1>5, <1>6
<1>8. RadioTypeOK'
  BY <1>1, <1>2, <1>3, <1>4, <1>7 DEF RadioTypeOK
<1>9. Places'
  BY <1>1, <1>2, <1>7, PlacesFrame
<1>10. Update'
  BY <1>1, <1>2, UpdateFrame
<1>11. Audio'
  <2>1. \A j \in 1..Len(wHands') : wHands'[j].ack <= Epoch(wHands'[j].token)
    <3>1. \A j \in 1..Len(wHands) : wHands[j].token \in Nat /\ wHands[j].ack \in Nat
      BY <1>2, HandTypes
    <3>2. Epoch(wHands[h].token) <= Epoch(q.token) /\ Epoch(wHands[h].token) \in Nat /\ Epoch(q.token) \in Nat
      BY Zenon, <1>5, <1>6, EpochMonotone, TokenFacts DEF Token
    <3> QED BY <1>2, <1>5, <1>6, <1>7, <3>1, <3>2 DEF Audio
  <2>2. Clean(Cur("rx"))'
    <3> DEFINE a == wRings[Cur("rx")].audio
    <3>1. /\ HandAt("rx") = wHands[h] /\ HandOf(Cur("rx"))' = h
          /\ wRings'[Cur("rx")'].audio = a
      BY <1>1 DEF HandAt, HandOf, Cur, h
    <3>2. wHands[h].ack = Epoch(wHands[h].token) =>
             IF Qualified(wHands[h].token) THEN \A i \in 1..Len(a) : a[i] = wHands[h].burst ELSE a = <<>>
      BY <1>2 DEF Audio, Clean, h
    <3>3. ((Qualified(wHands[h].token) <=> wBurst.on) /\ (wBurst.on => wHands[h].burst = wBurst.n)) \/ a = <<>>
      BY <1>2, <3>1 DEF Receive, Published, Reopened
    <3>4. /\ wHands[h].ack \in Nat /\ Epoch(wHands[h].token) \in Nat /\ Epoch(q.token) \in Nat
          /\ wHands[h].ack <= Epoch(wHands[h].token)
      BY Zenon, <1>2, <1>5, <1>6, HandTypes, TokenFacts DEF Token, Audio
    <3>5. q.ack = Epoch(q.token) => IF Qualified(q.token) THEN \A i \in 1..Len(a) : a[i] = q.burst ELSE a = <<>>
      <4> HIDE DEF a
      <4>1. CASE Qualified(wHands[h].token) /\ on
        BY <1>3, <1>6, <3>2, <3>3, <4>1
      <4>2. CASE ~Qualified(wHands[h].token) /\ on
        BY <1>6, <3>2, <4>2
      <4>3. CASE Qualified(wHands[h].token) /\ ~on
        BY <1>6, <3>4, <4>3
      <4>4. CASE ~Qualified(wHands[h].token) /\ ~on
        <5>1. (Qualified(wHands[h].token) <=> on)
          BY <1>5, <4>4, TokenFacts DEF Token
        <5> QED BY <1>6, <3>2, <4>4, <5>1
      <4> QED BY <4>1, <4>2, <4>3, <4>4
    <3> QED BY <1>7, <3>1, <3>5 DEF Clean
  <2>3. Clean(Cur("tx"))'
    <3>1. CASE HandOf(Cur("tx")) = h
      BY ZenonT(60), <1>1, <1>2, <2>2, <3>1 DEF Places, h, Clean, Cur, HandOf
    <3>2. CASE HandOf(Cur("tx")) # h
      BY ZenonT(60), <1>1, <1>2, <1>7, <3>2, HandFacts DEF Audio, Clean, Cur, HandOf
    <3> QED BY <3>1, <3>2
  <2>4. (Upd # NoRing /\ Cur("rx") # Upd.ring =>
            wRings[Upd.ring].audio = <<>> /\ wHands[HandOf(Upd.ring)].token = 0)'
    BY <1>1, <1>2, <1>7 DEF Audio, Places, Upd, Cur, HandOf, h
  <2> QED BY <2>1, <2>2, <2>3, <2>4 DEF Audio
<1>12. Receive'
  BY ZenonT(60), <1>1, <1>3, <1>4, <1>6, <1>7 DEF Receive, Published, HandAt, HandOf, Cur, h
<1>13. Transmit'
  <2>1. CASE HandOf(Cur("tx")) # h
    BY Zenon, <1>1, <1>2, <1>7, <2>1, HandFacts DEF Transmit, HandAt, HandOf, Cur
  <2>2. CASE HandOf(Cur("tx")) = h
    <3>1. Cur("tx") = Cur("rx") /\ HandAt("tx") = wHands[h] /\ HandAt("tx")' = q
      BY <1>1, <1>2, <1>7, <2>2 DEF Places, h, HandAt, HandOf, Cur
    <3>2. wTx.token \in Nat /\ wHands[h].token \in Nat /\ q.token \in Nat
      BY <1>2, <1>5, <1>6 DEF RadioTypeOK, Token, TxPoint
    <3>4. HandAt("rx") = wHands[h]
      BY <3>1 DEF HandAt
    <3>3. wTx.pc = "check" /\ wTx.on /\ q.token = wTx.token => \A b \in wTx.audio : b = q.burst
      BY <1>2, <1>3, <1>6, <3>1, <3>2, <3>4 DEF Transmit, Receive, Published, Reopened
    <3> QED BY <1>1, <1>2, <1>6, <3>1, <3>2, <3>3 DEF Transmit, Cur
  <2> QED BY <2>1, <2>2
<1> QED BY <1>8, <1>9, <1>10, <1>11, <1>12, <1>13 DEF RadioInv

-----------------------------------------------------------------------------
(* EndpointOwner::adopt *)

\* A side either keeps its ring, or exchanges it for the one control prepared.
Keeps(s) == Cur(s)' = Cur(s) /\ wEnds'[s].adopted = wEnds[s].adopted
Exchanges(s) ==
    /\ Upd # NoRing /\ Cur(s) # Upd.ring /\ wEnds[s].adopted < wGen.id
    /\ Cur(s)' = Upd.ring /\ wEnds'[s].adopted = wGen.id

\* adopt keeps the candidate for later, or exchanges the rings at once.
LEMMA AdoptStep ==
  ASSUME RadioTypeOK, Places, Update, NEW s \in Sides, NEW g \in Nat,
         wEnds' = [wEnds EXCEPT ![s] = Adopt(@, g)],
         UNCHANGED <<wGen, wCtl, wWorker>>, wCtl.phase # "open"
  PROVE  /\ wEnds' \in [Sides -> End] /\ Update'
         /\ \A t \in Sides : t # s => wEnds'[t] = wEnds[t]
         /\ Keeps(s) \/ Exchanges(s)
<1> DEFINE e == wEnds[s]
           f == Adopt(e, g)
<1>1. e \in End /\ wEnds \in [Sides -> End] /\ Upd \in Entry /\ wGen.id \in Nat
  BY DEF RadioTypeOK, Worker, Upd
<1>2. /\ e.cur \in Nat \ {0} /\ e.ready \in Entry /\ e.pending \in Entry
      /\ e.retired \in BOOLEAN /\ e.adopted \in Nat /\ NoRing \in Entry
  BY <1>1 DEF End, Entry, NoRing
<1>3. \/ f = [e EXCEPT !.pending = e.pending, !.ready = e.ready] 
      \/ f = [e EXCEPT !.pending = e.ready, !.ready = NoRing] /\ e.pending = NoRing
      \/ /\ e.ready # NoRing /\ e.pending = NoRing /\ e.ready.gen = g /\ ~e.retired
         /\ f = [cur |-> e.ready.ring, ready |-> NoRing, pending |-> NoRing, retired |-> TRUE, adopted |-> g]
      \/ /\ e.pending # NoRing /\ e.pending.gen = g /\ ~e.retired
         /\ f = [cur |-> e.pending.ring, ready |-> e.ready, pending |-> NoRing, retired |-> TRUE, adopted |-> g]
  BY Zenon DEF Adopt
<1> HIDE DEF f
<1>4. wEnds' = [wEnds EXCEPT ![s] = f]
  BY DEF f
<1>5. wEnds'[s] = f /\ \A t \in Sides : t # s => wEnds'[t] = wEnds[t]
  BY <1>1, <1>4
<1>6. \/ wEnds[s].adopted = wGen.id /\ None(s)
      \/ wEnds[s].adopted < wGen.id /\ Waits(s) /\ Upd # NoRing /\ Upd.gen = wGen.id /\ ~(s = "tx" /\ wCtl.phase = "push")
      \/ None(s)
  BY DEF Update
<1>8. CASE None(s)
  <2>1. f = [e EXCEPT !.pending = NoRing, !.ready = NoRing]
    BY <1>3, <1>8 DEF None
  <2>2. /\ f.cur = e.cur /\ f.adopted = e.adopted /\ f.retired = e.retired
        /\ f.ready = NoRing /\ f.pending = NoRing /\ f \in End
    BY Zenon, <1>1, <1>2, <2>1 DEF End
  <2>3. Update'
    BY <1>5, <1>8, <2>2 DEF Update, None, Waits, Upd
  <2> QED BY <1>1, <1>4, <1>5, <2>2, <2>3 DEF Keeps, Cur
<1>9. CASE /\ wEnds[s].adopted < wGen.id /\ Waits(s) /\ Upd # NoRing /\ Upd.gen = wGen.id
           /\ ~(s = "tx" /\ wCtl.phase = "push")
  <2>0. Upd.ring \in Nat \ {0}
    BY <1>9 DEF Places, RadioTypeOK
  <2>3. (e.ready = Upd /\ e.pending = NoRing) \/ (e.ready = NoRing /\ e.pending = Upd)
    BY <1>9 DEF Waits
  <2>4. \/ f = [e EXCEPT !.pending = e.pending, !.ready = e.ready]
        \/ f = [e EXCEPT !.pending = Upd, !.ready = NoRing]
        \/ f = [e EXCEPT !.pending = NoRing, !.ready = NoRing] /\ Upd = NoRing
        \/ f = [cur |-> Upd.ring, ready |-> NoRing, pending |-> NoRing, retired |-> TRUE, adopted |-> Upd.gen]
    BY Zenon, <1>3, <2>3
  <2>5. /\ f \in End
        /\ \/ /\ f.cur = e.cur /\ f.adopted = e.adopted /\ f.retired = e.retired
              /\ (f.ready = Upd /\ f.pending = NoRing) \/ (f.ready = NoRing /\ f.pending = Upd)
           \/ f.cur = Upd.ring /\ f.adopted = Upd.gen /\ f.ready = NoRing /\ f.pending = NoRing
    <3>1. CASE f = [e EXCEPT !.pending = e.pending, !.ready = e.ready]
      <4>1. f \in End /\ f.cur = e.cur /\ f.adopted = e.adopted /\ f.retired = e.retired /\ f.ready = e.ready /\ f.pending = e.pending
        BY Zenon, <1>1, <1>2, <3>1 DEF End
      <4> QED BY <2>3, <4>1
    <3>2. CASE f = [e EXCEPT !.pending = Upd, !.ready = NoRing]
      <4>1. f \in End /\ f.cur = e.cur /\ f.adopted = e.adopted /\ f.retired = e.retired /\ f.ready = NoRing /\ f.pending = Upd
        BY ZenonT(60), <1>1, <1>2, <3>2 DEF End
      <4> QED BY <4>1
    <3>3. CASE f = [cur |-> Upd.ring, ready |-> NoRing, pending |-> NoRing, retired |-> TRUE, adopted |-> Upd.gen]
      <4>1. Upd.gen \in Nat
        BY <1>1 DEF Entry
      <4> QED BY <1>2, <2>0, <3>3, <4>1 DEF End
    <3> QED BY <1>9, <2>4, <3>1, <3>2, <3>3
  <2>1. CASE /\ f.cur = e.cur /\ f.adopted = e.adopted /\ f.retired = e.retired
             /\ (f.ready = Upd /\ f.pending = NoRing) \/ (f.ready = NoRing /\ f.pending = Upd)
    <3>1. Update'
      BY <1>5, <1>9, <2>1 DEF Update, None, Waits, Upd
    <3> QED BY <1>1, <1>4, <1>5, <2>5, <2>1, <3>1 DEF Keeps, Cur
  <2>2. CASE f.cur = Upd.ring /\ f.adopted = Upd.gen /\ f.ready = NoRing /\ f.pending = NoRing
    <3>1. Update'
      BY <1>1, <1>5, <1>9, <2>2 DEF Update, None, Waits, Upd
    <3>2. Cur(s) # Upd.ring
      BY <1>1, <1>2, <1>9 DEF Places, Cur
    <3> QED BY <1>1, <1>4, <1>5, <1>9, <2>2, <2>5, <3>1, <3>2 DEF Exchanges, Cur
  <2> QED BY <2>1, <2>2, <2>5
<1> QED BY <1>6, <1>8, <1>9

\* After an exchange the two sides still share a handoff only with the ring.
LEMMA PlacesAdopt ==
  ASSUME RadioTypeOK, Places, NEW s \in Sides, Keeps(s) \/ Exchanges(s),
         \A t \in Sides : t # s => wEnds'[t] = wEnds[t],
         UNCHANGED <<wRings, wWorker, wGen>>, Len(wHands') = Len(wHands)
  PROVE  Places'
<1>1. CASE Keeps(s)
  BY ZenonT(60), <1>1 DEF Places, Keeps, Cur, HandOf, Upd
<1>2. CASE Exchanges(s)
  BY Zenon, <1>2 DEF Places, Exchanges, Cur, HandOf, Upd
<1> QED BY <1>1, <1>2

-----------------------------------------------------------------------------
(* The rest of the receive callback *)

\* Rings, handoffs and TX alone: audio and TX are where they were.
LEMMA AudioFrame ==
  ASSUME UNCHANGED <<wHands, wRings, wTx>>, wWorker'.update = wWorker.update,
         \A s \in Sides : wEnds'[s].cur = wEnds[s].cur
  PROVE  /\ Audio => Audio'
         /\ Transmit => Transmit'
         /\ \A s \in Sides : HandAt(s)' = HandAt(s) /\ Cur(s)' = Cur(s)
BY ZenonT(60) DEF Audio, Transmit, Clean, Cur, HandOf, HandAt, Upd

\* Two handoffs with equal fields are equal.
LEMMA TokenEqual ==
  ASSUME NEW x \in Token, NEW y \in Token, x.token = y.token, x.ack = y.ack, x.burst = y.burst
  PROVE  x = y
BY DEF Token

\* RX takes the prepared ring, if its generation is the one acquired, and
\* publishes the edge on it.
LEMMA ReceiveAdoptStep == ASSUME RadioInv, ReceiveAdopt PROVE RadioInv'
<1>0. PICK on \in BOOLEAN : on = wRx.on
  BY DEF RadioInv, RadioTypeOK, RxPoint
<1> DEFINE r == wEnds'["rx"].cur
           h == wRings[r].hand
           q == Requalified(wHands[h], on, wBurst.n)
<1>1. /\ wRx.pc = "adopt" /\ wHands' = [wHands EXCEPT ![h] = q]
      /\ wEnds' = [wEnds EXCEPT !["rx"] = Adopt(@, wRx.gen)]
      /\ UNCHANGED <<wRings, wTx, wWorker, wCtl, wGen, wBurst>>
  BY <1>0 DEF ReceiveAdopt, HandOf
<1>2. RadioTypeOK /\ Places /\ Update /\ Audio /\ Receive /\ Transmit
  BY DEF RadioInv
<1>3. /\ wRx.gen \in Nat /\ wRx.on \in BOOLEAN /\ wBurst.n \in Nat /\ wCtl.phase # "open"
      /\ wRx.on = wBurst.on /\ Published
  BY <1>1, <1>2 DEF RadioTypeOK, RxPoint, Update, Receive, Reopened
<1>4. /\ wRx' \in RxPoint /\ wRx'.pc \in {"idle", "check"}
      /\ wRx'.pc = "check" => wRx'.on /\ wRx.on
  BY <1>2 DEF ReceiveAdopt, RadioTypeOK, RxPoint, IdleRx
<1>5. /\ wEnds' \in [Sides -> End] /\ Update' /\ wEnds'["tx"] = wEnds["tx"]
      /\ \A t \in Sides : t # "rx" => wEnds'[t] = wEnds[t]
      /\ Keeps("rx") \/ Exchanges("rx")
  BY Zenon, <1>1, <1>2, <1>3, AdoptStep
<1>6. r \in 1..Len(wRings) /\ h \in 1..Len(wHands)
  BY <1>2, <1>5 DEF Places, Keeps, Exchanges, Cur
<1>7. wHands[h] \in Token /\ wHands \in Seq(Token)
  BY <1>2, <1>6, HandTypes DEF RadioTypeOK
<1> HIDE DEF h, r
<1>14. wBurst.n \in Nat
  BY <1>3
<1>8. /\ q \in Token /\ q.ack = wHands[h].ack /\ q.burst = IF on THEN wBurst.n ELSE wHands[h].burst
      /\ (Qualified(q.token) <=> on) /\ wHands[h].token <= q.token
      /\ (Qualified(wHands[h].token) <=> on) => q.token = wHands[h].token
      /\ ~Qualified(wHands[h].token) /\ on => wHands[h].token < q.token /\ Epoch(q.token) = Epoch(wHands[h].token)
      /\ Qualified(wHands[h].token) /\ ~on => wHands[h].token < q.token /\ Epoch(wHands[h].token) < Epoch(q.token)
  BY <1>7, <1>14, RequalifiedFacts
<1> HIDE DEF q
<1>18. (on <=> wBurst.on) /\ (on <=> wRx.on)
  BY <1>0, <1>3
<1>9. /\ wHands' \in Seq(Token) /\ Len(wHands') = Len(wHands) /\ wHands'[h] = q
      /\ \A j \in 1..Len(wHands) : j # h => wHands'[j] = wHands[j]
  BY <1>1, <1>6, <1>7, <1>8
<1>10. RadioTypeOK'
  BY <1>1, <1>2, <1>4, <1>5, <1>9 DEF RadioTypeOK
<1>11. Places'
  BY <1>1, <1>2, <1>5, <1>9, PlacesAdopt
<1>12. CASE Keeps("rx")
  <2>1. r = Cur("rx") /\ wHands[h] = HandAt("rx")
    BY <1>12 DEF Keeps, Cur, HandAt, HandOf, h, r
  <2>2. q.token = wHands[h].token /\ q.burst = wHands[h].burst
    BY <1>3, <1>8, <1>18, <2>1 DEF Published
  <2>3. q = wHands[h]
    BY <1>7, <1>8, <2>2, TokenEqual
  <2>4. wHands' = wHands
    BY <1>1, <1>6, <1>7, <2>3
  <2>5. Audio' /\ Transmit' /\ HandAt("rx")' = HandAt("rx")
    BY <1>1, <1>2, <1>5, <1>12, <2>4, AudioFrame DEF Keeps, Cur
  <2>6. Receive'
    BY Zenon, <1>1, <1>3, <1>4, <2>5 DEF Receive, Published
  <2> QED BY <1>5, <1>10, <1>11, <2>5, <2>6 DEF RadioInv
<1>13. CASE Exchanges("rx")
  <2>1. /\ r = Upd.ring /\ Upd # NoRing /\ Cur("rx") # Upd.ring /\ Upd' = Upd
        /\ Cur("rx")' = r /\ Cur("tx")' = Cur("tx")
        /\ \A x : HandOf(x)' = HandOf(x)
    BY <1>1, <1>5, <1>13 DEF Exchanges, Upd, Cur, HandOf, r
  <2>2. /\ wRings[r].audio = <<>> /\ wHands[h].token = 0 /\ ~Qualified(wHands[h].token)
        /\ HandOf(Cur("tx")) = h => Cur("tx") = r
    BY Zenon, <1>2, <2>1, TokenFacts DEF Audio, Places, HandOf, h
  <2>3. Audio'
    <3>1. \A j \in 1..Len(wHands') : wHands'[j].ack <= Epoch(wHands'[j].token)
      <4>1. Epoch(wHands[h].token) <= Epoch(q.token) /\ Epoch(wHands[h].token) \in Nat /\ Epoch(q.token) \in Nat /\ q.ack \in Nat
        BY Zenon, <1>7, <1>8, EpochMonotone, TokenFacts DEF Token
      <4>2. \A j \in 1..Len(wHands) : wHands[j].ack \in Nat /\ wHands[j].ack <= Epoch(wHands[j].token)
        BY <1>2, HandTypes DEF Audio
      <4> QED BY <1>6, <1>8, <1>9, <4>1, <4>2
    <3>2. Clean(Cur("rx"))'
      BY <1>1, <2>1, <2>2 DEF Clean
    <3>3. Clean(Cur("tx"))'
      <4>1. CASE Cur("tx") = r
        BY <2>1, <3>2, <4>1
      <4>2. CASE Cur("tx") # r
        <5>1. HandOf(Cur("tx")) \in 1..Len(wHands) /\ HandOf(Cur("tx")) # h
          BY <1>2, <2>2, <4>2, HandFacts
        <5> QED BY <1>1, <1>2, <1>9, <2>1, <5>1 DEF Audio, Clean
      <4> QED BY <4>1, <4>2
    <3> QED BY <2>1, <3>1, <3>2, <3>3 DEF Audio
  <2>4. HandAt("rx")' = q
    BY <1>9, <2>1 DEF HandAt, HandOf, h
  <2>5. Receive'
    BY Zenon, <1>1, <1>3, <1>4, <1>8, <1>18, <2>4 DEF Receive, Published
  <2>6. Transmit'
    <3>1. CASE HandOf(Cur("tx")) # h
      <4>1. HandAt("tx")' = HandAt("tx")
        BY <1>2, <1>9, <2>1, <3>1, HandFacts DEF HandAt
      <4> QED BY <1>1, <1>2, <2>1, <4>1 DEF Transmit
    <3>2. CASE HandOf(Cur("tx")) = h
      <4>1. HandAt("tx") = wHands[h] /\ HandAt("tx")' = q
        BY <1>9, <2>1, <3>2 DEF HandAt
      <4>2. wTx.token \in Nat /\ wHands[h].token \in Nat /\ q.token \in Nat
        BY <1>2, <1>7, <1>8 DEF RadioTypeOK, Token, TxPoint
      <4>3. wTx.pc = "check" /\ wTx.on /\ q.token = wTx.token => \A b \in wTx.audio : b = q.burst
        BY <1>2, <1>3, <1>8, <2>2, <4>1, <4>2 DEF Transmit
      <4> QED BY <1>1, <1>2, <1>8, <2>1, <4>1, <4>2, <4>3 DEF Transmit
    <3> QED BY <3>1, <3>2
  <2> QED BY <1>5, <1>10, <1>11, <2>3, <2>5, <2>6 DEF RadioInv
<1> QED BY <1>5, <1>12, <1>13

\* RX compares the token with the acknowledgement.
LEMMA ReceiveCheckStep == ASSUME RadioInv, ReceiveCheck PROVE RadioInv'
<1>1. /\ wRx.pc = "check" /\ UNCHANGED <<wRings, wHands, wTx, wEnds, wWorker, wCtl, wGen, wBurst>>
  BY DEF ReceiveCheck
<1>2. RadioTypeOK /\ Places /\ Update /\ Audio /\ Receive /\ Transmit
  BY DEF RadioInv
<1>3. /\ wRx' \in RxPoint /\ wRx'.pc \in {"idle", "write"} 
      /\ wRx'.pc = "write" => wRx'.on = wRx.on /\ HandAt("rx").ack = Epoch(HandAt("rx").token)
  BY Zenon, <1>2 DEF ReceiveCheck, RadioTypeOK, RxPoint, IdleRx, HandAt, Cur
<1>4. RadioTypeOK'
  BY <1>1, <1>2, <1>3 DEF RadioTypeOK
<1>5. Places' /\ Update'
  BY <1>1, <1>2, PlacesFrame, UpdateFrame
<1>6. Audio' /\ Transmit' /\ HandAt("rx")' = HandAt("rx")
  BY <1>1, <1>2, AudioFrame
<1>7. Receive'
  BY <1>1, <1>2, <1>3, <1>6 DEF Receive, Published, Reopened
<1> QED BY <1>4, <1>5, <1>6, <1>7 DEF RadioInv

\* RX writes only audio of the burst its handoff names.
LEMMA ReceiveWriteStep == ASSUME RadioInv, ReceiveWrite PROVE RadioInv'
<1> DEFINE r == Cur("rx")
           a == wRings[r].audio
           b == Append(a, wBurst.n)
<1>1. /\ wRx.pc = "write" /\ UNCHANGED <<wHands, wTx, wEnds, wWorker, wCtl, wGen, wBurst>> /\ wRx' = IdleRx
      /\ wRings' = wRings \/ wRings' = [wRings EXCEPT ![r].audio = b]
  BY DEF ReceiveWrite, Cur
<1>2. RadioTypeOK /\ Places /\ Update /\ Audio /\ Receive /\ Transmit
  BY DEF RadioInv
<1>3. r \in 1..Len(wRings) /\ a \in Seq(Nat) /\ HandOf(r) \in 1..Len(wHands) /\ wBurst.n \in Nat
  BY <1>2, HandFacts DEF RadioTypeOK
<1>4. /\ Qualified(HandAt("rx").token) /\ HandAt("rx").ack = Epoch(HandAt("rx").token) /\ HandAt("rx").burst = wBurst.n
      /\ Published /\ wRx.on
  BY <1>1, <1>2 DEF Receive, Published, Reopened
<1>5. wRx' \in RxPoint /\ wRx'.pc = "idle"
  BY <1>1 DEF IdleRx, RxPoint
<1>6. Update'
  BY <1>1, <1>2, UpdateFrame
<1>7. CASE wRings' = wRings
  <2>1. Audio' /\ Transmit' /\ HandAt("rx")' = HandAt("rx")
    BY <1>1, <1>2, <1>7, AudioFrame
  <2>2. Receive'
    BY <1>1, <1>4, <1>5, <2>1 DEF Receive, Published
  <2>3. Places' /\ RadioTypeOK'
    BY <1>1, <1>2, <1>5, <1>7, PlacesFrame DEF RadioTypeOK
  <2> QED BY <1>6, <2>1, <2>2, <2>3 DEF RadioInv
<1>8. CASE wRings' = [wRings EXCEPT ![r].audio = b]
  <2>1. \A i \in 1..Len(a) : a[i] = wBurst.n
    BY <1>2, <1>4 DEF Audio, Clean, HandAt
  <2>2. b \in Seq(Nat) /\ \A i \in 1..Len(b) : b[i] = wBurst.n
    <3> HIDE DEF a
    <3> QED BY <1>3, <2>1
  <2> HIDE DEF a, b, r
  <2>3. /\ wRings' \in Seq(RingType) /\ Len(wRings') = Len(wRings)
        /\ \A j \in 1..Len(wRings) : wRings'[j].hand = wRings[j].hand
        /\ wRings'[r].audio = b
        /\ \A j \in 1..Len(wRings) : j # r => wRings'[j].audio = wRings[j].audio
    BY Zenon, <1>2, <1>3, <1>8, <2>2, RingUpdate
  <2>4. Places' /\ RadioTypeOK'
    BY <1>1, <1>2, <1>5, <2>3, PlacesFrame DEF RadioTypeOK
  <2>5. /\ \A s \in Sides : Cur(s)' = Cur(s) /\ HandAt(s)' = HandAt(s) /\ HandOf(Cur(s))' = HandOf(Cur(s))
        /\ Upd' = Upd
    BY Zenon, <1>1, <1>2, <2>3, HandFacts DEF Cur, HandAt, HandOf, Upd
  <2>6. \A s \in Sides : Clean(Cur(s))'
    <3>1. Clean(Cur("rx"))'
      BY <1>1, <1>4, <2>2, <2>3, <2>5 DEF Clean, HandAt, r
    <3>2. CASE Cur("tx") = Cur("rx")
      BY <2>5, <3>1, <3>2
    <3>3. CASE Cur("tx") # Cur("rx")
      <4>1. wRings'[Cur("tx")].audio = wRings[Cur("tx")].audio
        BY <1>2, <2>3, <3>3, HandFacts DEF r
      <4>2. Clean(Cur("tx"))
        BY <1>2 DEF Audio
      <4> QED BY <1>1, <2>5, <3>1, <4>1, <4>2 DEF Clean
    <3> QED BY <3>1, <3>2, <3>3
  <2>7. Audio'
    BY <1>1, <1>2, <2>3, <2>5, <2>6 DEF Audio, Places, HandOf, r
  <2>8. Receive'
    BY <1>1, <1>4, <1>5, <2>5 DEF Receive, Published
  <2>9. wTx.pc # "ack" \/ Cur("tx") # Cur("rx")
    <3>1. SUFFICES ASSUME wTx.pc = "ack", Cur("tx") = Cur("rx") PROVE FALSE
      OBVIOUS
    <3>2. HandAt("rx").ack < Epoch(wTx.token) /\ wTx.token <= HandAt("rx").token
      BY <1>2, <3>1 DEF Transmit, HandAt
    <3>3. wTx.token \in Nat /\ HandAt("rx").token \in Nat /\ HandAt("rx").ack \in Nat
      BY Zenon, <1>2, HandFacts DEF RadioTypeOK, TxPoint, Token
    <3>4. Epoch(wTx.token) <= Epoch(HandAt("rx").token)
      BY <3>2, <3>3, EpochMonotone
    <3> QED BY <1>4, <3>2, <3>3, <3>4, TokenFacts
  <2>10. Transmit'
    BY <1>1, <1>2, <2>3, <2>5, <2>9, HandFacts DEF Transmit, r
  <2> QED BY <1>6, <2>4, <2>7, <2>8, <2>10 DEF RadioInv
<1> QED BY <1>1, <1>7, <1>8

-----------------------------------------------------------------------------
(* The transmit callback *)

\* TX acquires the published generation.
LEMMA TransmitBeginStep == ASSUME RadioInv, TransmitBegin PROVE RadioInv'
<1>1. wWorker.open /\ UNCHANGED <<wRings, wHands, wRx, wEnds, wWorker, wCtl, wGen, wBurst>>
  BY DEF TransmitBegin
<1>2. RadioTypeOK /\ Places /\ Update /\ Audio /\ Receive /\ Transmit
  BY DEF RadioInv
<1>3. wTx' \in TxPoint /\ wTx'.pc = "adopt" /\ wTx'.audio = {}
  BY Zenon, <1>2 DEF TransmitBegin, IdleTx, TxPoint, RadioTypeOK
<1>4. RadioTypeOK' /\ Places' /\ Update'
  BY <1>1, <1>2, <1>3, PlacesFrame, UpdateFrame DEF RadioTypeOK
<1>5. Audio'
  BY ZenonT(60), <1>1, <1>2 DEF Audio, Clean, Cur, HandOf, Upd
<1>6. Receive'
  BY <1>1, <1>2, <1>3 DEF Receive, Published, Reopened, HandAt, HandOf, Cur
<1>7. Transmit'
  BY <1>3 DEF Transmit
<1> QED BY <1>4, <1>5, <1>6, <1>7 DEF RadioInv

\* TX ends its callback.
LEMMA TransmitEndStep == ASSUME RadioInv, TransmitEnd PROVE RadioInv'
<1>1. wTx.pc = "check" /\ UNCHANGED <<wRings, wHands, wRx, wEnds, wWorker, wCtl, wGen, wBurst>>
  BY DEF TransmitEnd
<1>2. RadioTypeOK /\ Places /\ Update /\ Audio /\ Receive /\ Transmit
  BY DEF RadioInv
<1>3. wTx' \in TxPoint /\ wTx'.pc = "idle" /\ wTx'.audio = {}
  BY DEF TransmitEnd, IdleTx, TxPoint
<1>4. RadioTypeOK' /\ Places' /\ Update'
  BY <1>1, <1>2, <1>3, PlacesFrame, UpdateFrame DEF RadioTypeOK
<1>5. Audio'
  BY ZenonT(60), <1>1, <1>2 DEF Audio, Clean, Cur, HandOf, Upd
<1>6. Receive'
  BY <1>1, <1>2, <1>3 DEF Receive, Published, Reopened, HandAt, HandOf, Cur
<1>7. Transmit'
  BY <1>3 DEF Transmit
<1> QED BY <1>4, <1>5, <1>6, <1>7 DEF RadioInv

\* TX takes the prepared ring and loads the token it will compare at the end.
LEMMA TransmitAdoptStep == ASSUME RadioInv, TransmitAdopt PROVE RadioInv'
<1>1. /\ wTx.pc = "adopt" /\ wEnds' = [wEnds EXCEPT !["tx"] = Adopt(@, wTx.gen)]
      /\ UNCHANGED <<wRings, wHands, wRx, wWorker, wCtl, wGen, wBurst>>
  BY DEF TransmitAdopt
<1>2. RadioTypeOK /\ Places /\ Update /\ Audio /\ Receive /\ Transmit
  BY DEF RadioInv
<1>3. wTx.gen \in Nat /\ wCtl.phase # "open" /\ wTx.audio = {} /\ wTx \in TxPoint
  BY <1>1, <1>2 DEF RadioTypeOK, TxPoint, Update, Transmit
<1>4. /\ wEnds' \in [Sides -> End] /\ Update' /\ wEnds'["rx"] = wEnds["rx"]
      /\ \A t \in Sides : t # "tx" => wEnds'[t] = wEnds[t]
      /\ Keeps("tx") \/ Exchanges("tx")
  BY Zenon, <1>1, <1>2, <1>3, AdoptStep
<1>5. Places'
  BY <1>1, <1>2, <1>4, PlacesAdopt
<1> DEFINE h == HandAt("tx")'
<1>6. h \in Token /\ h.token \in Nat /\ h.ack \in Nat /\ h.ack <= Epoch(h.token) /\ Qualified(h.token) \in BOOLEAN
      /\ Epoch(h.token) \in Nat
  <2>1. HandOf(Cur("tx"))' \in 1..Len(wHands)
    BY <1>1, <1>5 DEF Places, Cur, HandOf
  <2>2. h = wHands[HandOf(Cur("tx"))']
    BY <1>1 DEF HandAt
  <2> QED BY Zenon, <1>2, <2>1, <2>2, HandTypes, TokenFacts DEF Audio
<1>7. \/ wTx' = IdleTx
      \/ wTx' = [wTx EXCEPT !.token = h.token, !.on = Qualified(h.token),
                            !.pc = IF Epoch(h.token) = h.ack THEN "render" ELSE "reset"]
  BY Zenon, <1>1 DEF TransmitAdopt, HandAt, HandOf, Cur
<1> HIDE DEF h
<1>8. /\ wTx' \in TxPoint /\ wTx'.audio = {}
      /\ \/ wTx'.pc = "idle"
         \/ /\ wTx'.pc = (IF Epoch(h.token) = h.ack THEN "render" ELSE "reset")
            /\ wTx'.token = h.token /\ wTx'.on = Qualified(h.token)
  <2>1. CASE wTx' = IdleTx
    BY <2>1 DEF IdleTx, TxPoint
  <2>2. CASE wTx' # IdleTx
    BY ZenonT(60), <1>3, <1>6, <1>7, <2>2 DEF TxPoint
  <2> QED BY <2>1, <2>2
<1>9. RadioTypeOK'
  BY <1>1, <1>2, <1>4, <1>8 DEF RadioTypeOK
<1>10. Transmit'
  BY <1>6, <1>8 DEF Transmit, h
<1>11. Receive'
  BY <1>1, <1>2, <1>4, <1>8 DEF Receive, Published, Reopened, HandAt, HandOf, Cur
<1>12. Audio'
  <2>1. Clean(Cur("tx"))' /\ Clean(Cur("rx"))'
    <3>1. CASE Keeps("tx")
      BY ZenonT(60), <1>1, <1>2, <1>4, <3>1 DEF Keeps, Audio, Clean, Cur, HandOf
    <3>2. CASE Exchanges("tx")
      <4>1. Upd # NoRing /\ Cur("tx")' = Upd.ring /\ Cur("rx")' = Cur("rx")
        BY <1>4, <3>2 DEF Exchanges, Cur
      <4>2. Clean(Upd.ring)
        <5>1. CASE Cur("rx") = Upd.ring
          BY <1>2, <5>1 DEF Audio
        <5>2. CASE Cur("rx") # Upd.ring
          BY <1>2, <4>1, <5>2, TokenFacts DEF Audio, Clean
        <5> QED BY <5>1, <5>2
      <4>3. Clean(Cur("rx"))
        BY <1>2 DEF Audio
      <4> QED BY <1>1, <4>1, <4>2, <4>3 DEF Clean, HandOf
    <3> QED BY <1>4, <3>1, <3>2
  <2> QED BY <1>1, <1>2, <1>4, <2>1 DEF Audio, Cur, HandOf, Upd
<1> QED BY <1>4, <1>5, <1>9, <1>10, <1>11, <1>12 DEF RadioInv

\* Only a completed reset leaves the ring empty and goes on to acknowledge it.
LEMMA TransmitResetStep == ASSUME RadioInv, NEW ok \in BOOLEAN, TransmitReset(ok) PROVE RadioInv'
<1> DEFINE r == Cur("tx")
<1>1. /\ wTx.pc = "reset" /\ UNCHANGED <<wHands, wRx, wEnds, wWorker, wCtl, wGen, wBurst>>
      /\ wRings' = IF ok THEN [wRings EXCEPT ![r].audio = <<>>] ELSE wRings
      /\ wTx' = [wTx EXCEPT !.pc = IF ok THEN "ack" ELSE "render", !.on = @ /\ ok]
  BY DEF TransmitReset, Cur
<1>2. RadioTypeOK /\ Places /\ Update /\ Audio /\ Receive /\ Transmit
  BY DEF RadioInv
<1>3. wTx \in TxPoint /\ wTx.audio = {} /\ wTx.on \in BOOLEAN
  BY <1>1, <1>2 DEF RadioTypeOK, Transmit, TxPoint
<1>4. /\ wTx' \in TxPoint /\ wTx'.audio = {} /\ wTx'.token = wTx.token
      /\ wTx'.pc = (IF ok THEN "ack" ELSE "render") /\ (wTx'.on <=> (wTx.on /\ ok))
  BY Zenon, <1>1, <1>3 DEF TxPoint
<1>5. r \in 1..Len(wRings)
  BY <1>2, HandFacts
<1> HIDE DEF r
<1>6. /\ wRings' \in Seq(RingType) /\ Len(wRings') = Len(wRings)
      /\ \A j \in 1..Len(wRings) : wRings'[j].hand = wRings[j].hand
      /\ \A j \in 1..Len(wRings) : wRings'[j].audio = IF ok /\ j = r THEN <<>> ELSE wRings[j].audio
  <2>1. CASE ok
    <3>1. wRings' = [wRings EXCEPT ![r].audio = <<>>] /\ <<>> \in Seq(Nat)
      BY <1>1, <2>1
    <3>2. /\ wRings' \in Seq(RingType) /\ Len(wRings') = Len(wRings)
          /\ \A j \in 1..Len(wRings) : wRings'[j].hand = wRings[j].hand
          /\ wRings'[r].audio = <<>>
          /\ \A j \in 1..Len(wRings) : j # r => wRings'[j].audio = wRings[j].audio
      BY Zenon, <1>2, <1>5, <3>1, RingUpdate
    <3> QED BY <2>1, <3>2
  <2>2. CASE ~ok
    BY <1>1, <1>2, <2>2 DEF RadioTypeOK
  <2> QED BY <2>1, <2>2
<1>7. RadioTypeOK' /\ Places' /\ Update'
  BY <1>1, <1>2, <1>4, <1>6, PlacesFrame, UpdateFrame DEF RadioTypeOK
<1>8. /\ \A s \in Sides : Cur(s)' = Cur(s) /\ HandAt(s)' = HandAt(s) /\ HandOf(Cur(s))' = HandOf(Cur(s))
      /\ Upd' = Upd
  BY <1>1, <1>2, <1>6, HandFacts DEF Cur, HandAt, HandOf, Upd
<1>9. \A s \in Sides : wRings'[Cur(s)'].audio = <<>> \/ wRings'[Cur(s)'].audio = wRings[Cur(s)].audio
  BY <1>2, <1>6, <1>8, HandFacts
<1>10. \A s \in Sides : Clean(Cur(s))'
  <2> TAKE s \in Sides
  <2>1. Clean(Cur(s))
    BY <1>2 DEF Audio
  <2>2. CASE wRings'[Cur(s)'].audio = <<>>
    BY <2>2 DEF Clean
  <2>3. CASE wRings'[Cur(s)'].audio = wRings[Cur(s)].audio
    BY <1>1, <1>8, <2>1, <2>3 DEF Clean
  <2> QED BY <1>9, <2>2, <2>3
<1>11. Audio'
  BY <1>1, <1>2, <1>6, <1>8, <1>10 DEF Audio, Places, HandOf
<1>12. Receive'
  BY <1>1, <1>2, <1>4, <1>8, <1>9 DEF Receive, Published, Reopened
<1>13. Transmit'
  BY <1>1, <1>2, <1>4, <1>5, <1>6, <1>8 DEF Transmit, r
<1> QED BY <1>7, <1>11, <1>12, <1>13 DEF RadioInv

\* The acknowledgement is behind the token RX published last, never ahead.
LEMMA TransmitAckStep == ASSUME RadioInv, TransmitAck PROVE RadioInv'
<1> DEFINE h == HandOf(Cur("tx"))
           q == [wHands[h] EXCEPT !.ack = Epoch(wTx.token)]
<1>1. /\ wTx.pc = "ack" /\ UNCHANGED <<wRings, wRx, wEnds, wWorker, wCtl, wGen, wBurst>>
      /\ wHands' = [wHands EXCEPT ![h] = q]
      /\ wTx' = [wTx EXCEPT !.pc = "render"]
  BY DEF TransmitAck, Cur
<1>2. RadioTypeOK /\ Places /\ Update /\ Audio /\ Receive /\ Transmit
  BY DEF RadioInv
<1>3. /\ wTx \in TxPoint /\ wTx.audio = {} /\ wTx.token \in Nat /\ wRings[Cur("tx")].audio = <<>>
      /\ wHands[h].ack < Epoch(wTx.token) /\ wTx.token <= wHands[h].token
      /\ wTx.on => Qualified(wTx.token)
  BY <1>1, <1>2 DEF RadioTypeOK, Transmit, TxPoint, HandAt
<1>4. wTx' \in TxPoint /\ wTx'.audio = {} /\ wTx'.token = wTx.token /\ wTx'.pc = "render" /\ wTx'.on = wTx.on
  BY <1>1, <1>3 DEF TxPoint
<1>5. h \in 1..Len(wHands) /\ wHands[h] \in Token /\ wHands \in Seq(Token) /\ wHands[h].token \in Nat /\ wHands[h].ack \in Nat
  BY <1>2, HandFacts, HandTypes DEF RadioTypeOK
<1>6. Epoch(wTx.token) \in Nat /\ Epoch(wTx.token) <= Epoch(wHands[h].token) /\ Epoch(wHands[h].token) \in Nat
  BY Zenon, <1>3, <1>5, TokenFacts, EpochMonotone
<1> HIDE DEF h
<1>7. q \in Token /\ q.token = wHands[h].token /\ q.burst = wHands[h].burst /\ q.ack = Epoch(wTx.token)
  BY <1>5, <1>6 DEF Token
<1> HIDE DEF q
<1>8. /\ wHands' \in Seq(Token) /\ Len(wHands') = Len(wHands) /\ wHands'[h] = q
      /\ \A j \in 1..Len(wHands) : j # h => wHands'[j] = wHands[j]
  BY <1>1, <1>5, <1>7
<1>9. RadioTypeOK' /\ Places' /\ Update'
  BY <1>1, <1>2, <1>4, <1>8, PlacesFrame, UpdateFrame DEF RadioTypeOK
<1>10. /\ \A s \in Sides : Cur(s)' = Cur(s) /\ HandOf(Cur(s))' = HandOf(Cur(s))
       /\ HandAt("tx")' = q /\ HandAt("tx") = wHands[h] /\ Upd' = Upd
       /\ HandAt("rx")' = HandAt("rx") \/ (HandAt("rx")' = q /\ HandAt("rx") = wHands[h])
  BY <1>1, <1>2, <1>8, HandFacts DEF Cur, HandAt, HandOf, Upd, h
<1>11. Audio'
  <2>1. \A j \in 1..Len(wHands') : wHands'[j].ack <= Epoch(wHands'[j].token)
    BY <1>2, <1>5, <1>6, <1>7, <1>8 DEF Audio
  <2>2. Clean(Cur("tx"))'
    BY <1>1, <1>3, <1>10 DEF Clean
  <2>3. Clean(Cur("rx"))'
    <3>1. CASE HandOf(Cur("rx")) = h
      BY <1>2, <1>10, <2>2, <3>1 DEF Places, h
    <3>2. CASE HandOf(Cur("rx")) # h
      <4>1. Clean(Cur("rx"))
        BY <1>2 DEF Audio
      <4> QED BY <1>1, <1>2, <1>8, <1>10, <3>2, <4>1, HandFacts DEF Clean
    <3> QED BY <3>1, <3>2
  <2>4. (Upd # NoRing /\ Cur("rx") # Upd.ring =>
            wRings[Upd.ring].audio = <<>> /\ wHands[HandOf(Upd.ring)].token = 0)'
    BY <1>1, <1>2, <1>5, <1>7, <1>8, <1>10 DEF Audio, Places, HandOf
  <2> QED BY <2>1, <2>2, <2>3, <2>4 DEF Audio
<1>12. Receive'
  <2>1. HandAt("rx")'.token = HandAt("rx").token /\ HandAt("rx")'.burst = HandAt("rx").burst
    BY <1>7, <1>10
  <2>2. wRx.pc = "write" => HandAt("rx")' = HandAt("rx")
    BY <1>2, <1>3, <1>5, <1>6, <1>10 DEF Receive
  <2> QED BY <1>1, <1>2, <1>4, <1>10, <2>1, <2>2 DEF Receive, Published, Reopened
<1>13. Transmit'
  BY <1>3, <1>4, <1>7, <1>10 DEF Transmit
<1> QED BY <1>9, <1>11, <1>12, <1>13 DEF RadioInv

\* A qualified block comes from the burst of the token TX loaded, and the last
\* look at the token throws away one that has ended since.
LEMMA TransmitRenderStep == ASSUME RadioInv, NEW ok \in BOOLEAN, TransmitRender(ok) PROVE RadioInv'
<1> DEFINE r == Cur("tx")
           a == wRings[r].audio
           takes == wTx.on /\ a # <<>>
<1>1. /\ wTx.pc = "render" /\ UNCHANGED <<wHands, wRx, wEnds, wWorker, wCtl, wGen, wBurst>>
      /\ wRings' = IF takes THEN [wRings EXCEPT ![r].audio = Tail(a)] ELSE wRings
      /\ wTx' = [wTx EXCEPT !.pc = "check", !.on = @ /\ ok, !.audio = IF takes /\ ok THEN {Head(a)} ELSE {}]
  BY DEF TransmitRender, Cur
<1>2. RadioTypeOK /\ Places /\ Update /\ Audio /\ Receive /\ Transmit
  BY DEF RadioInv
<1>3. wTx \in TxPoint /\ wTx.on \in BOOLEAN
  BY <1>1, <1>2 DEF RadioTypeOK, TxPoint
<1>4. r \in 1..Len(wRings) /\ a \in Seq(Nat)
  BY <1>2, HandFacts
<1>5. a # <<>> => Head(a) \in Nat /\ Head(a) = a[1] /\ Tail(a) \in Seq(Nat) /\ Len(a) >= 1
                  /\ Len(Tail(a)) = Len(a) - 1 /\ \A i \in 1..Len(Tail(a)) : Tail(a)[i] = a[i + 1]
  <2> HIDE DEF a
  <2> QED BY <1>4
<1>6. /\ wTx' \in TxPoint /\ wTx'.token = wTx.token /\ wTx'.pc = "check" /\ (wTx'.on <=> (wTx.on /\ ok))
      /\ wTx'.audio = IF takes /\ ok THEN {Head(a)} ELSE {}
  <2> HIDE DEF a
  <2> DEFINE m == IF takes /\ ok THEN {Head(a)} ELSE {}
  <2>1. m \in SUBSET Nat
    BY <1>5
  <2> HIDE DEF m
  <2>2. wTx' = [wTx EXCEPT !.pc = "check", !.on = @ /\ ok, !.audio = m]
    BY <1>1 DEF m
  <2>3. wTx' \in TxPoint /\ wTx'.token = wTx.token /\ wTx'.pc = "check" /\ (wTx'.on <=> (wTx.on /\ ok)) /\ wTx'.audio = m
    BY Zenon, <1>3, <2>1, <2>2 DEF TxPoint
  <2> QED BY <2>3 DEF m
<1> HIDE DEF r
<1>7. /\ wRings' \in Seq(RingType) /\ Len(wRings') = Len(wRings)
      /\ \A j \in 1..Len(wRings) : wRings'[j].hand = wRings[j].hand
      /\ \A j \in 1..Len(wRings) : wRings'[j].audio = IF takes /\ j = r THEN Tail(a) ELSE wRings[j].audio
  <2>1. CASE takes
    <3>1. wRings' = [wRings EXCEPT ![r].audio = Tail(a)] /\ Tail(a) \in Seq(Nat)
      BY <1>1, <1>5, <2>1
    <3>2. /\ wRings' \in Seq(RingType) /\ Len(wRings') = Len(wRings)
          /\ \A j \in 1..Len(wRings) : wRings'[j].hand = wRings[j].hand
          /\ wRings'[r].audio = Tail(a)
          /\ \A j \in 1..Len(wRings) : j # r => wRings'[j].audio = wRings[j].audio
      <4> HIDE DEF a
      <4> QED BY Zenon, <1>2, <1>4, <3>1, RingUpdate
    <3> HIDE DEF a
    <3> QED BY Zenon, <2>1, <3>2
  <2>2. CASE ~takes
    BY <1>1, <1>2, <2>2 DEF RadioTypeOK
  <2> QED BY <2>1, <2>2
<1>8. RadioTypeOK' /\ Places' /\ Update'
  BY <1>1, <1>2, <1>6, <1>7, PlacesFrame, UpdateFrame DEF RadioTypeOK
<1>9. /\ \A s \in Sides : Cur(s)' = Cur(s) /\ HandAt(s)' = HandAt(s) /\ HandOf(Cur(s))' = HandOf(Cur(s))
      /\ Upd' = Upd
  BY <1>1, <1>2, <1>7, HandFacts DEF Cur, HandAt, HandOf, Upd
<1>10. \A s \in Sides : Clean(Cur(s))'
  <2> TAKE s \in Sides
  <2>1. Clean(Cur(s)) /\ Cur(s) \in 1..Len(wRings)
    BY <1>2, HandFacts DEF Audio
  <2>2. CASE takes /\ Cur(s) = r
    <3>1. wRings'[Cur(s)'].audio = Tail(a)
      BY <1>7, <1>9, <2>1, <2>2
    <3>2. HandAt(s).ack = Epoch(HandAt(s).token) => Qualified(HandAt(s).token) /\ \A i \in 1..Len(a) : a[i] = HandAt(s).burst
      BY <2>1, <2>2 DEF Clean, HandAt
    <3>3. HandAt(s).ack = Epoch(HandAt(s).token) => Qualified(HandAt(s).token) /\ \A i \in 1..Len(Tail(a)) : Tail(a)[i] = HandAt(s).burst
      <4> HIDE DEF a
      <4> QED BY <1>4, <1>5, <2>2, <3>2
    <3> HIDE DEF a
    <3> QED BY <1>9, <3>1, <3>3 DEF Clean, HandAt
  <2>3. CASE ~(takes /\ Cur(s) = r)
    <3>1. wRings'[Cur(s)'].audio = wRings[Cur(s)].audio
      <4> HIDE DEF a
      <4> QED BY <1>7, <1>9, <2>1, <2>3
    <3> QED BY <1>1, <1>9, <2>1, <3>1 DEF Clean
  <2> QED BY <2>2, <2>3
<1>11. \A j \in 1..Len(wRings) : wRings[j].audio = <<>> => wRings'[j].audio = <<>>
  BY <1>7
<1>12. Audio'
  BY <1>1, <1>2, <1>7, <1>9, <1>10, <1>11 DEF Audio, Places, HandOf
<1>13. Receive'
  BY <1>1, <1>2, <1>6, <1>9, <1>11, HandFacts DEF Receive, Published, Reopened, r
<1>14. Transmit'
  <2>1. ASSUME wTx'.on, HandAt("tx").token = wTx.token, NEW b \in wTx'.audio PROVE b = HandAt("tx").burst
    <3>1. takes /\ b = Head(a)
      BY <1>6, <2>1
    <3>2. HandAt("tx").ack = Epoch(HandAt("tx").token) /\ Qualified(HandAt("tx").token)
      BY <1>1, <1>2, <1>6, <2>1 DEF Transmit
    <3>3. \A i \in 1..Len(a) : a[i] = HandAt("tx").burst
      BY <1>2, <3>2 DEF Audio, Clean, HandAt, r
    <3> HIDE DEF a
    <3> QED BY <1>4, <1>5, <3>1, <3>3
  <2> QED BY <1>1, <1>2, <1>6, <1>9, <2>1 DEF Transmit
<1> QED BY <1>8, <1>12, <1>13, <1>14 DEF RadioInv

-----------------------------------------------------------------------------
(* Control *)

\* Control moves no audio and no token.
LEMMA ControlFrame ==
  ASSUME Audio, Receive, Transmit, UNCHANGED <<wRings, wHands, wRx, wTx, wBurst>>,
         \A s \in Sides : wEnds'[s].cur = wEnds[s].cur,
         wWorker'.update = wWorker.update \/ wWorker'.update = NoRing
  PROVE  Audio' /\ Receive' /\ Transmit'
<1>1. \A s \in Sides : HandAt(s)' = HandAt(s) /\ Cur(s)' = Cur(s)
  BY DEF HandAt, HandOf, Cur
<1>2. Audio'
  BY <1>1 DEF Audio, Clean, HandOf, Upd
<1>3. Receive'
  BY <1>1 DEF Receive, Published, Reopened
<1>4. Transmit'
  BY <1>1 DEF Transmit
<1> QED BY <1>2, <1>3, <1>4

\* The reload starts only after the last one's generation retired.
LEMMA ReloadPrepareStep ==
  ASSUME RadioInv, NEW d \in RadioDelays, NEW device \in BOOLEAN, ReloadPrepare(d, device)
  PROVE  RadioInv'
<1>1. /\ wCtl.phase = "idle" /\ ~wCtl.retiring
      /\ wCtl' = [wCtl EXCEPT !.phase = IF device THEN "quiesce" ELSE "publish", !.delay = d,
                              !.device = device, !.local = SquelchDelay # d]
      /\ UNCHANGED <<wRings, wHands, wRx, wTx, wEnds, wWorker, wGen, wBurst>>
  BY DEF ReloadPrepare
<1>2. RadioTypeOK /\ Places /\ Update /\ Audio /\ Receive /\ Transmit /\ wCtl \in Ctl
  BY DEF RadioInv, RadioTypeOK
<1>3. /\ wCtl' \in Ctl /\ wCtl'.phase \in {"quiesce", "publish"}
      /\ wCtl'.retiring = wCtl.retiring /\ wCtl'.awaiting = wCtl.awaiting /\ wCtl'.update = wCtl.update
  <2> DEFINE b == SquelchDelay # d
  <2>1. b \in BOOLEAN
    OBVIOUS
  <2> HIDE DEF b
  <2>2. wCtl' = [wCtl EXCEPT !.phase = IF device THEN "quiesce" ELSE "publish", !.delay = d,
                              !.device = device, !.local = b]
    BY <1>1 DEF b
  <2> QED BY Zenon, <1>2, <2>1, <2>2 DEF Ctl
<1>4. RadioTypeOK' /\ Places'
  BY <1>1, <1>2, <1>3, PlacesFrame DEF RadioTypeOK
<1>5. Update'
  BY <1>1, <1>2, <1>3 DEF Update, None, Waits, Upd
<1>6. Audio' /\ Receive' /\ Transmit'
  BY <1>1, <1>2, ControlFrame
<1> QED BY <1>4, <1>5, <1>6 DEF RadioInv

\* A quiesced device runs no callback.
LEMMA ReloadQuiesceStep == ASSUME RadioInv, ReloadQuiesce PROVE RadioInv'
<1>1. /\ wCtl.phase = "quiesce" /\ wRx.pc = "idle" /\ wTx.pc = "idle"
      /\ wWorker' = [wWorker EXCEPT !.open = FALSE, !.update = NoRing]
      /\ wCtl' = [wCtl EXCEPT !.phase = "open"]
      /\ UNCHANGED <<wRings, wHands, wRx, wTx, wEnds, wGen, wBurst>>
  BY DEF ReloadQuiesce
<1>2. RadioTypeOK /\ Places /\ Update /\ Audio /\ Receive /\ Transmit /\ wCtl \in Ctl /\ wWorker \in Worker
  BY DEF RadioInv, RadioTypeOK
<1>3. /\ wCtl' \in Ctl /\ wCtl'.phase = "open"
      /\ wCtl'.retiring = wCtl.retiring /\ wCtl'.awaiting = wCtl.awaiting /\ wCtl'.update = wCtl.update
  BY <1>1, <1>2 DEF Ctl
<1>4. Upd = NoRing
  BY <1>1, <1>2 DEF Update
<1>5. wWorker' \in Worker /\ wWorker'.open = FALSE /\ Upd' = NoRing /\ wWorker'.update = wWorker.update
  BY Zenon, <1>1, <1>2, <1>4 DEF Worker, Upd, Entry, NoRing
<1>6. RadioTypeOK' /\ Places'
  BY <1>1, <1>2, <1>3, <1>5, PlacesFrame DEF RadioTypeOK
<1>7. Update'
  BY <1>1, <1>2, <1>3, <1>4, <1>5 DEF Update, None
<1>8. Audio' /\ Receive' /\ Transmit'
  BY <1>1, <1>2, <1>5, ControlFrame
<1> QED BY <1>6, <1>7, <1>8 DEF RadioInv

\* The reopened device starts with an empty ring on the lease's handoff,
\* whatever that handoff saw before.
LEMMA ReloadOpenStep == ASSUME RadioInv, ReloadOpen PROVE RadioInv'
<1> DEFINE n == Len(wRings) + 1
           x == Ring(wCtl.delay, 1)
<1>1. /\ wCtl.phase = "open" /\ wRings' = Append(wRings, x)
      /\ wEnds' = [s \in Sides |-> Endpoint(Len(wRings'))]
      /\ wWorker' = [open |-> TRUE, delay |-> wCtl.delay, update |-> NoRing]
      /\ wCtl' = [wCtl EXCEPT !.phase = "publish"]
      /\ UNCHANGED <<wHands, wRx, wTx, wGen, wBurst>>
  BY DEF ReloadOpen
<1>2. RadioTypeOK /\ Places /\ Update /\ Audio /\ Receive /\ Transmit /\ wCtl \in Ctl /\ wRings \in Seq(RingType)
  BY DEF RadioInv, RadioTypeOK
<1>3. /\ wCtl' \in Ctl /\ wCtl'.phase = "publish" /\ wCtl.delay \in RadioDelays
      /\ wCtl'.retiring = wCtl.retiring /\ wCtl'.awaiting = wCtl.awaiting /\ wCtl'.update = wCtl.update
  BY <1>1, <1>2 DEF Ctl
<1>4. x \in RingType /\ x.hand = 1 /\ x.audio = <<>>
  BY <1>3 DEF Ring, RingType
<1> HIDE DEF x
<1>5. /\ wRings' \in Seq(RingType) /\ Len(wRings') = n /\ wRings'[n] = x /\ n \in Nat \ {0}
      /\ \A j \in 1..Len(wRings) : wRings'[j] = wRings[j]
  BY <1>1, <1>2, <1>4
<1>6. \A s \in Sides : /\ wEnds'[s] \in End /\ wEnds'[s].cur = n /\ wEnds'[s].ready = NoRing
                       /\ wEnds'[s].pending = NoRing /\ wEnds'[s].adopted = 0
  BY <1>1, <1>5 DEF Endpoint, End, Entry, NoRing
<1>7. wEnds' \in [Sides -> End]
  BY <1>1, <1>6
<1>8. wWorker' \in Worker /\ Upd' = NoRing
  BY <1>1, <1>3 DEF Worker, Upd, Entry, NoRing
<1> HIDE DEF n
<1>9. RadioTypeOK'
  BY <1>1, <1>2, <1>3, <1>5, <1>7, <1>8 DEF RadioTypeOK
<1>10. /\ \A s \in Sides : Cur(s)' = n /\ HandOf(Cur(s))' = 1
       /\ wRings'[n].audio = <<>>
  BY <1>4, <1>5, <1>6 DEF Cur, HandOf
<1>11. Places'
  <2>1. \A r \in 1..Len(wRings') : wRings'[r].hand \in 1..Len(wHands)
    <3>1. 1 \in 1..Len(wHands)
      BY <1>2 DEF Places, RadioTypeOK
    <3> QED BY <1>2, <1>4, <1>5, <3>1 DEF Places, n
  <2>2. n \in 1..Len(wRings')
    BY <1>5
  <2> QED BY <1>1, <1>2, <1>8, <1>10, <2>1, <2>2 DEF Places
<1>12. Update'
  <2>1. wGen.id \in Nat \ {0} /\ wRx.pc = "idle" /\ wTx.pc = "idle" /\ ~wCtl.retiring /\ ~wCtl.awaiting /\ ~wCtl.update
    BY <1>1, <1>2 DEF Update, RadioTypeOK
  <2> QED BY <1>1, <1>3, <1>6, <1>8, <2>1 DEF Update, None
<1>13. Audio'
  <2>1. ASSUME NEW s \in Sides PROVE Clean(Cur(s))'
    <3>1. wRings'[Cur(s)'].audio = <<>>
      BY <1>10
    <3> QED BY <3>1 DEF Clean
  <2> QED BY <1>1, <1>2, <1>8, <2>1 DEF Audio
<1>14. wRx.pc = "idle" /\ wTx.pc = "idle" /\ wTx.audio = {}
  BY <1>1, <1>2 DEF Update, Transmit
<1>15. Receive'
  BY Zenon, <1>1, <1>10, <1>14 DEF Receive, Reopened
<1>16. Transmit'
  BY <1>1, <1>14 DEF Transmit
<1> QED BY <1>9, <1>11, <1>12, <1>13, <1>15, <1>16 DEF RadioInv

\* No side waits for a ring when a generation is published.
LEMMA ReloadPublishStep == ASSUME RadioInv, ReloadPublish PROVE RadioInv'
<1>1. /\ wCtl.phase = "publish" /\ wGen'.id = wGen.id + 1
      /\ wCtl' = [wCtl EXCEPT !.phase = "idle", !.update = wCtl.local, !.awaiting = wCtl.local, !.retiring = TRUE]
      /\ UNCHANGED <<wRings, wHands, wRx, wTx, wEnds, wWorker, wBurst>>
  BY DEF ReloadPublish
<1>2. RadioTypeOK /\ Places /\ Update /\ Audio /\ Receive /\ Transmit /\ wCtl \in Ctl
  BY DEF RadioInv, RadioTypeOK
<1>3. /\ wCtl' \in Ctl /\ wCtl'.phase = "idle" /\ wCtl'.retiring
      /\ wCtl'.awaiting = wCtl.local /\ wCtl'.update = wCtl.local /\ wCtl.local \in BOOLEAN
  BY Zenon, <1>1, <1>2 DEF Ctl
<1>4. Upd = NoRing /\ Upd' = NoRing /\ \A s \in Sides : None(s)
  BY <1>1, <1>2 DEF Update, Upd
<1>5. wGen.id \in Nat \ {0} /\ \A s \in Sides : wEnds[s].adopted \in Nat /\ wEnds[s].adopted <= wGen.id
  BY <1>2 DEF RadioTypeOK, Update, End
<1>6. RadioTypeOK'
  BY <1>1, <1>2, <1>3, <1>5 DEF RadioTypeOK
<1>7. Places'
  BY <1>1, <1>2, <1>4 DEF Places, Cur, HandOf
<1>8. Update'
  BY <1>1, <1>3, <1>4, <1>5 DEF Update, None
<1>9. Audio' /\ Receive' /\ Transmit'
  BY <1>1, <1>2, ControlFrame
<1> QED BY <1>6, <1>7, <1>8, <1>9 DEF RadioInv

\* reclaim empties the return queues and nothing else.
LEMMA Reclaimed ==
  ASSUME RadioTypeOK
  PROVE  /\ RingReclaimed \in [Sides -> End]
         /\ \A s \in Sides : /\ RingReclaimed[s].cur = wEnds[s].cur /\ RingReclaimed[s].ready = wEnds[s].ready
                             /\ RingReclaimed[s].pending = wEnds[s].pending
                             /\ RingReclaimed[s].adopted = wEnds[s].adopted /\ ~RingReclaimed[s].retired
<1>1. \A s \in Sides : wEnds[s] \in End
  BY DEF RadioTypeOK
<1>2. \A s \in Sides : /\ [wEnds[s] EXCEPT !.retired = FALSE] \in End
                       /\ [wEnds[s] EXCEPT !.retired = FALSE].cur = wEnds[s].cur
                       /\ [wEnds[s] EXCEPT !.retired = FALSE].ready = wEnds[s].ready
                       /\ [wEnds[s] EXCEPT !.retired = FALSE].pending = wEnds[s].pending
                       /\ [wEnds[s] EXCEPT !.retired = FALSE].adopted = wEnds[s].adopted
                       /\ ~[wEnds[s] EXCEPT !.retired = FALSE].retired
  BY Zenon, <1>1 DEF End
<1> QED BY Zenon, <1>2 DEF RingReclaimed

\* One update at a time: the replacement ring is new to everyone, its handoff
\* has seen nothing, and both return queues are empty.
LEMMA PumpUpdateStep == ASSUME RadioInv, PumpUpdate PROVE RadioInv'
<1> DEFINE n == Len(wRings) + 1
           m == Len(wHands) + 1
           u == [gen |-> wGen.id, ring |-> n]
           x == Ring(wCtl.delay, m)
<1>1. RadioTypeOK /\ Places /\ Update /\ Audio /\ Receive /\ Transmit /\ wCtl \in Ctl /\ wWorker \in Worker
  BY DEF RadioInv, RadioTypeOK
<1>2. /\ wRings \in Seq(RingType) /\ wHands \in Seq(Token) /\ wGen.id \in Nat \ {0} /\ wCtl.delay \in RadioDelays
      /\ n \in Nat \ {0} /\ m \in Nat \ {0}
  BY <1>1 DEF RadioTypeOK, Ctl
<1>3. /\ wCtl.phase = "idle" /\ wCtl.update /\ wCtl.awaiting /\ wCtl.retiring
      /\ Upd = NoRing /\ \A s \in Sides : None(s) /\ wEnds[s].adopted < wGen.id
  BY <1>1 DEF PumpUpdate, Update
<1>4. /\ wHands' = Append(wHands, Handoff) /\ Len(wHands') = m /\ wRings' = Append(wRings, x)
      /\ wWorker' = [wWorker EXCEPT !.update = u]
      /\ wEnds' = [RingReclaimed EXCEPT !["rx"].ready = u]
      /\ wCtl' = [wCtl EXCEPT !.phase = "push", !.update = FALSE]
      /\ UNCHANGED <<wRx, wTx, wGen, wBurst>>
  BY <1>2, <1>3 DEF PumpUpdate, None, Upd
<1>5. /\ wCtl' \in Ctl /\ wCtl'.phase = "push" /\ ~wCtl'.update /\ wCtl'.awaiting /\ wCtl'.retiring
  BY Zenon, <1>1, <1>3, <1>4 DEF Ctl
<1>6. Handoff \in Token /\ Handoff.token = 0 /\ Handoff.ack = 0
  BY DEF Handoff, Token
<1>7. x \in RingType /\ x.hand = m /\ x.audio = <<>> /\ u \in Entry /\ u.gen = wGen.id /\ u.ring = n /\ u # NoRing
  BY <1>2 DEF Ring, RingType, Entry, NoRing
<1>8. wWorker' \in Worker /\ Upd' = u /\ wWorker'.open = wWorker.open
  <2> HIDE DEF u
  <2> QED BY <1>1, <1>4, <1>7 DEF Worker, Upd
<1>9. /\ wEnds' \in [Sides -> End]
      /\ \A s \in Sides : /\ wEnds'[s].cur = wEnds[s].cur /\ wEnds'[s].adopted = wEnds[s].adopted
                          /\ ~wEnds'[s].retired /\ wEnds'[s].pending = NoRing
      /\ wEnds'["rx"].ready = u /\ wEnds'["tx"].ready = NoRing
  <2> DEFINE e == [RingReclaimed["rx"] EXCEPT !.ready = u]
  <2>1. /\ RingReclaimed \in [Sides -> End]
        /\ \A s \in Sides : /\ RingReclaimed[s].cur = wEnds[s].cur /\ RingReclaimed[s].ready = wEnds[s].ready
                            /\ RingReclaimed[s].pending = wEnds[s].pending
                            /\ RingReclaimed[s].adopted = wEnds[s].adopted /\ ~RingReclaimed[s].retired
    BY <1>1, Reclaimed
  <2> HIDE DEF u
  <2>2. /\ e \in End /\ e.ready = u /\ e.cur = RingReclaimed["rx"].cur /\ e.pending = RingReclaimed["rx"].pending
        /\ e.adopted = RingReclaimed["rx"].adopted /\ e.retired = RingReclaimed["rx"].retired
    BY <1>7, <2>1 DEF End
  <2>3. wEnds' = [RingReclaimed EXCEPT !["rx"] = e]
    BY <1>4
  <2> HIDE DEF e
  <2>4. wEnds'["rx"] = e /\ wEnds'["tx"] = RingReclaimed["tx"] /\ wEnds' \in [Sides -> End]
    BY <2>1, <2>2, <2>3
  <2> QED BY <1>3, <2>1, <2>2, <2>4 DEF None
<1>10. /\ wRings' \in Seq(RingType) /\ Len(wRings') = n /\ wRings'[n] = x
       /\ \A j \in 1..Len(wRings) : wRings'[j] = wRings[j]
  <2> HIDE DEF x
  <2> QED BY <1>2, <1>4, <1>7
<1>11. /\ wHands' \in Seq(Token) /\ Len(wHands') = m /\ wHands'[m] = Handoff
       /\ \A j \in 1..Len(wHands) : wHands'[j] = wHands[j]
  BY <1>2, <1>4, <1>6
<1>12. RadioTypeOK'
  BY <1>1, <1>4, <1>5, <1>8, <1>9, <1>10, <1>11 DEF RadioTypeOK
<1>13. /\ \A s \in Sides : Cur(s)' = Cur(s) /\ Cur(s) \in 1..Len(wRings) /\ HandOf(Cur(s)) \in 1..Len(wHands)
       /\ \A s \in Sides : HandOf(Cur(s))' = HandOf(Cur(s)) /\ HandAt(s)' = HandAt(s)
       /\ \A s \in Sides : wRings'[Cur(s)'] = wRings[Cur(s)]
  BY ZenonT(60), <1>1, <1>9, <1>10, <1>11, HandFacts DEF Cur, HandOf, HandAt
<1>14. /\ wRings'[n].hand = m /\ wRings'[n].audio = <<>> /\ Upd'.ring = n /\ Upd' # NoRing /\ Upd'.gen = wGen.id
       /\ HandOf(Upd.ring)' = m
  BY <1>7, <1>8, <1>10 DEF HandOf
<1> HIDE DEF n, m, x, u
<1>15. Places'
  <2>1. \A r \in 1..Len(wRings') : wRings'[r].hand \in 1..Len(wHands')
    <3>1. \A r \in 1..Len(wRings) : wRings'[r].hand \in 1..Len(wHands)
      BY <1>1, <1>10 DEF Places
    <3> QED BY <1>2, <1>10, <1>11, <1>14, <3>1 DEF n, m
  <2>2. \A s \in Sides : HandOf(Cur(s)) # m /\ Cur(s) # n /\ wEnds'[s].adopted # wGen'.id
    <3>1. \A s \in Sides : wEnds[s].adopted \in Nat
      BY <1>1 DEF RadioTypeOK, End
    <3> QED BY <1>2, <1>3, <1>4, <1>9, <1>13, <3>1 DEF n, m
  <2>3. Len(wHands') >= 1 /\ \A s \in Sides : Cur(s)' \in 1..Len(wRings')
    BY <1>2, <1>10, <1>11, <1>13 DEF n, m
  <2>4. HandOf(Cur("rx"))' = HandOf(Cur("tx"))' => Cur("rx")' = Cur("tx")'
    BY <1>1, <1>13 DEF Places
  <2>5. n \in 1..Len(wRings')
    BY <1>2, <1>10
  <2> QED BY <1>13, <1>14, <2>1, <2>2, <2>3, <2>4, <2>5 DEF Places
<1>16. Update'
  <2>1. \A s \in Sides : wEnds'[s].adopted < wGen'.id /\ wEnds'[s].adopted <= wGen'.id
    <3>1. \A s \in Sides : wEnds[s].adopted \in Nat
      BY <1>1 DEF RadioTypeOK, End
    <3> QED BY <1>2, <1>3, <1>4, <1>9, <3>1
  <2> QED BY <1>4, <1>5, <1>7, <1>8, <1>9, <2>1 DEF Update, None, Waits
<1>17. Audio'
  <2>1. \A h \in 1..Len(wHands') : wHands'[h].ack <= Epoch(wHands'[h].token)
    <3>1. \A h \in 1..Len(wHands) : wHands'[h].ack <= Epoch(wHands'[h].token)
      BY <1>1, <1>11 DEF Audio
    <3>2. wHands'[m].ack <= Epoch(wHands'[m].token)
      <4>1. Epoch(0) = 0
        BY TokenFacts
      <4> QED BY <1>6, <1>11, <4>1
    <3> QED BY <1>2, <1>11, <3>1, <3>2 DEF m
  <2>2. \A s \in Sides : Clean(Cur(s))'
    BY <1>1, <1>13 DEF Audio, Clean, HandAt
  <2>3. wRings'[Upd'.ring].audio = <<>> /\ wHands'[HandOf(Upd.ring)'].token = 0
    BY <1>6, <1>11, <1>14
  <2> QED BY <2>1, <2>2, <2>3 DEF Audio
<1>18. Receive'
  BY <1>1, <1>4, <1>13 DEF Receive, Published, Reopened
<1>19. Transmit'
  BY <1>1, <1>4, <1>13 DEF Transmit
<1> QED BY <1>12, <1>15, <1>16, <1>17, <1>18, <1>19 DEF RadioInv

\* The transmit side's queue follows the receive side's.
LEMMA PumpPushStep == ASSUME RadioInv, PumpPush PROVE RadioInv'
<1> DEFINE e == [wEnds["tx"] EXCEPT !.ready = wWorker.update]
<1>1. /\ wCtl.phase = "push" /\ wEnds' = [wEnds EXCEPT !["tx"] = e]
      /\ wCtl' = [wCtl EXCEPT !.phase = "applied"]
      /\ UNCHANGED <<wRings, wHands, wRx, wTx, wWorker, wGen, wBurst>>
  BY DEF PumpPush
<1>2. /\ RadioTypeOK /\ Places /\ Update /\ Audio /\ Receive /\ Transmit /\ wCtl \in Ctl
      /\ wEnds \in [Sides -> End] /\ Upd \in Entry
  BY DEF RadioInv, RadioTypeOK, Worker, Upd
<1>3. /\ wCtl' \in Ctl /\ wCtl'.phase = "applied"
      /\ wCtl'.retiring = wCtl.retiring /\ wCtl'.awaiting = wCtl.awaiting /\ wCtl'.update = wCtl.update
  BY <1>1, <1>2 DEF Ctl
<1>4. /\ Upd # NoRing /\ Upd.gen = wGen.id /\ wCtl.awaiting /\ ~wCtl.update
      /\ wEnds["tx"].adopted < wGen.id /\ None("tx") /\ ~wEnds["tx"].retired
  BY <1>1, <1>2 DEF Update
<1>5. /\ e \in End /\ e.cur = wEnds["tx"].cur /\ e.adopted = wEnds["tx"].adopted /\ e.ready = Upd
      /\ e.pending = wEnds["tx"].pending /\ e.retired = wEnds["tx"].retired
  BY <1>2 DEF End, Upd
<1> HIDE DEF e
<1>6. wEnds' \in [Sides -> End] /\ wEnds'["tx"] = e /\ wEnds'["rx"] = wEnds["rx"]
  BY <1>1, <1>2, <1>5
<1>7. RadioTypeOK'
  BY <1>1, <1>2, <1>3, <1>6 DEF RadioTypeOK
<1>8. \A s \in Sides : wEnds'[s].cur = wEnds[s].cur /\ wEnds'[s].adopted = wEnds[s].adopted
  BY <1>5, <1>6
<1>9. Places' /\ Audio' /\ Receive' /\ Transmit'
  BY <1>1, <1>2, <1>8, PlacesFrame, ControlFrame
<1>10. Upd' = Upd
  BY <1>1 DEF Upd
<1>11. Update'
  BY <1>1, <1>2, <1>3, <1>4, <1>5, <1>6, <1>10 DEF Update, None, Waits
<1> QED BY <1>7, <1>9, <1>11 DEF RadioInv

\* The update is over when both sides acknowledged its generation, and only then.
LEMMA PumpAppliedStep == ASSUME RadioInv, PumpApplied PROVE RadioInv'
<1>1. /\ wCtl.phase = "applied" \/ (wCtl.phase = "idle" /\ wCtl.awaiting /\ ~wCtl.update)
      /\ wEnds' = RingReclaimed
      /\ wWorker' = IF ~Applied \/ wWorker.update = NoRing THEN wWorker
                    ELSE [wWorker EXCEPT !.delay = wRings[wWorker.update.ring].delay, !.update = NoRing]
      /\ wCtl' = [wCtl EXCEPT !.phase = "idle", !.awaiting = ~Applied]
      /\ UNCHANGED <<wRings, wHands, wRx, wTx, wGen, wBurst>>
  BY DEF PumpApplied
<1>2. /\ RadioTypeOK /\ Places /\ Update /\ Audio /\ Receive /\ Transmit /\ wCtl \in Ctl /\ wWorker \in Worker
      /\ wRings \in Seq(RingType)
  BY DEF RadioInv, RadioTypeOK
<1>3. /\ wCtl' \in Ctl /\ wCtl'.phase = "idle" /\ (wCtl'.awaiting <=> ~Applied)
      /\ wCtl'.retiring = wCtl.retiring /\ wCtl'.update = wCtl.update
  <2> DEFINE b == ~Applied
  <2>1. b \in BOOLEAN
    BY DEF Applied
  <2> HIDE DEF b
  <2>2. wCtl' = [wCtl EXCEPT !.phase = "idle", !.awaiting = b]
    BY <1>1 DEF b
  <2>3. /\ wCtl' \in Ctl /\ wCtl'.phase = "idle" /\ wCtl'.awaiting = b
        /\ wCtl'.retiring = wCtl.retiring /\ wCtl'.update = wCtl.update
    BY Zenon, <1>2, <2>1, <2>2 DEF Ctl
  <2> QED BY Zenon, <2>3 DEF b
<1>4. /\ wEnds' \in [Sides -> End]
      /\ \A s \in Sides : /\ wEnds'[s].cur = wEnds[s].cur /\ wEnds'[s].ready = wEnds[s].ready
                          /\ wEnds'[s].pending = wEnds[s].pending
                          /\ wEnds'[s].adopted = wEnds[s].adopted /\ ~wEnds'[s].retired
  BY <1>1, <1>2, Reclaimed
<1>5. wCtl.awaiting /\ ~wCtl.update /\ wCtl.retiring /\ Upd # NoRing
  BY <1>1, <1>2 DEF Update
<1>6. CASE ~Applied
  <2>1. wWorker' = wWorker /\ Upd' = Upd
    BY <1>1, <1>6 DEF Upd
  <2>2. RadioTypeOK'
    BY <1>1, <1>2, <1>3, <1>4, <2>1 DEF RadioTypeOK
  <2>3. Places' /\ Audio' /\ Receive' /\ Transmit'
    BY Zenon, <1>1, <1>2, <1>4, <2>1, PlacesFrame, ControlFrame
  <2>4. wCtl.phase # "push"
    BY <1>1
  <2>5. Update'
    BY <1>1, <1>2, <1>3, <1>4, <1>5, <1>6, <2>1, <2>4 DEF Update, None, Waits
  <2> QED BY <2>2, <2>3, <2>5 DEF RadioInv
<1>7. CASE Applied
  <2>1. wRings[Upd.ring].delay \in RadioDelays
    <3>1. wRings[Upd.ring] \in RingType
      BY <1>2, <1>5 DEF Places
    <3> QED BY <3>1 DEF RingType
  <2>2. wWorker' \in Worker /\ Upd' = NoRing /\ wWorker'.update = NoRing
    BY Zenon, <1>1, <1>2, <1>5, <1>7, <2>1 DEF Worker, Upd, Entry, NoRing
  <2>3. RadioTypeOK'
    BY <1>1, <1>2, <1>3, <1>4, <2>2 DEF RadioTypeOK
  <2>4. Places'
    BY <1>1, <1>2, <1>4, <2>2 DEF Places, Cur, HandOf
  <2>5. Audio' /\ Receive' /\ Transmit'
    BY <1>1, <1>2, <1>4, <2>2, ControlFrame
  <2>6. \A s \in Sides : None(s) /\ wEnds[s].adopted <= wGen.id
    <3>1. \A s \in Sides : wEnds[s].adopted = wGen.id /\ ~(wEnds[s].adopted < wGen.id)
      BY <1>2, <1>7 DEF Applied, RadioTypeOK
    <3> QED BY <1>2, <1>5, <3>1 DEF Update
  <2>7. Update'
    BY <1>1, <1>3, <1>4, <1>5, <1>7, <2>2, <2>6 DEF Update, None
  <2> QED BY <2>3, <2>4, <2>5, <2>7 DEF RadioInv
<1> QED BY <1>6, <1>7

\* The retiring generation goes only once nobody awaits its replacement's ring.
LEMMA PumpDetachStep == ASSUME RadioInv, PumpDetach PROVE RadioInv'
<1>1. /\ wCtl.phase = "idle" /\ ~wCtl.awaiting /\ wCtl' = [wCtl EXCEPT !.retiring = FALSE]
      /\ UNCHANGED <<wRings, wHands, wRx, wTx, wEnds, wWorker, wGen, wBurst>>
  BY DEF PumpDetach
<1>2. RadioTypeOK /\ Places /\ Update /\ Audio /\ Receive /\ Transmit /\ wCtl \in Ctl
  BY DEF RadioInv, RadioTypeOK
<1>3. /\ wCtl' \in Ctl /\ wCtl'.phase = wCtl.phase /\ ~wCtl'.retiring
      /\ wCtl'.awaiting = wCtl.awaiting /\ wCtl'.update = wCtl.update
  BY Zenon, <1>1, <1>2 DEF Ctl
<1>4. RadioTypeOK' /\ Places'
  BY <1>1, <1>2, <1>3, PlacesFrame DEF RadioTypeOK
<1>5. Update'
  BY <1>1, <1>2, <1>3 DEF Update, None, Waits, Upd
<1>6. Audio' /\ Receive' /\ Transmit'
  BY <1>1, <1>2, ControlFrame
<1> QED BY <1>4, <1>5, <1>6 DEF RadioInv

-----------------------------------------------------------------------------
(* The invariant *)

\* A station starts with one ring that neither side will replace.
LEMMA RadioInitInv == WInit => RadioInv
<1> SUFFICES ASSUME WInit PROVE RadioInv
  OBVIOUS
<1> DEFINE d == wPlan.delay
<1>1. /\ wRings = <<Ring(d, 1)>> /\ wHands = <<Handoff>> /\ wRx = IdleRx /\ wTx = IdleTx
      /\ wEnds = [s \in Sides |-> Endpoint(1)]
      /\ wWorker = [open |-> TRUE, delay |-> d, update |-> NoRing]
      /\ wCtl = [phase |-> "idle", delay |-> d, device |-> FALSE, local |-> FALSE,
                 update |-> FALSE, awaiting |-> FALSE, retiring |-> FALSE]
      /\ wGen = [id |-> 1, delays |-> <<d>>] /\ wBurst = [n |-> 0, on |-> FALSE]
      /\ d \in RadioDelays
  BY RadioPlansInRange DEF WInit
<1> HIDE DEF d
<1>2. Ring(d, 1) \in RingType /\ Ring(d, 1).hand = 1 /\ Ring(d, 1).audio = <<>>
  BY <1>1 DEF Ring, RingType
<1>3. Handoff \in Token /\ Handoff.token = 0 /\ Handoff.ack = 0
  BY DEF Handoff, Token
<1>4. /\ Endpoint(1) \in End /\ Endpoint(1).cur = 1 /\ Endpoint(1).ready = NoRing
      /\ Endpoint(1).pending = NoRing /\ Endpoint(1).adopted = 0
  BY DEF Endpoint, End, Entry, NoRing
<1>5. wWorker \in Worker /\ wCtl \in Ctl /\ wRx \in RxPoint /\ wTx \in TxPoint
  BY <1>1 DEF Worker, Ctl, IdleRx, IdleTx, RxPoint, TxPoint, Entry, NoRing
<1>6. /\ wRings \in Seq(RingType) /\ wHands \in Seq(Token) /\ Len(wRings) = 1 /\ Len(wHands) = 1
      /\ wRings[1] = Ring(d, 1) /\ wHands[1] = Handoff
  BY <1>1, <1>2, <1>3
<1>7. RadioTypeOK
  BY <1>1, <1>4, <1>5, <1>6 DEF RadioTypeOK
<1>8. \A s \in Sides : Cur(s) = 1 /\ HandOf(Cur(s)) = 1 /\ HandAt(s) = Handoff
  BY <1>1, <1>2, <1>4, <1>6 DEF Cur, HandOf, HandAt
<1>9. Places
  BY <1>1, <1>2, <1>6, <1>8 DEF Places, Upd
<1>14. /\ Upd = NoRing /\ wGen.id = 1 /\ wCtl.phase = "idle"
       /\ ~wCtl.update /\ ~wCtl.awaiting /\ ~wCtl.retiring
  BY <1>1 DEF Upd
<1>15. \A s \in Sides : None(s) /\ wEnds[s].adopted <= wGen.id
  BY <1>1, <1>4, <1>14 DEF None
<1>10. Update
  BY ZenonT(60), <1>14, <1>15 DEF Update
<1>11. Audio
  <2>1. Epoch(0) = 0 /\ ~Qualified(0)
    BY TokenFacts
  <2>2. \A s \in Sides : Clean(Cur(s))
    BY <1>2, <1>3, <1>6, <1>8, <2>1 DEF Clean
  <2>3. \A j \in 1..Len(wHands) : wHands[j].ack <= Epoch(wHands[j].token)
    BY <1>3, <1>6, <2>1
  <2> QED BY <1>14, <2>2, <2>3 DEF Audio
<1>12. Receive
  <2>1. ~Qualified(0)
    BY TokenFacts
  <2> QED BY <1>1, <1>3, <1>8, <2>1 DEF Receive, Published, IdleRx
<1>13. Transmit
  BY <1>1 DEF Transmit, IdleTx
<1> QED BY <1>7, <1>9, <1>10, <1>11, <1>12, <1>13 DEF RadioInv

\* Every step of RX, TX and control keeps the invariant.
LEMMA RadioNextInv == RadioInv /\ [WNext]_wVars => RadioInv'
<1> SUFFICES ASSUME RadioInv, [WNext]_wVars PROVE RadioInv'
  OBVIOUS
<1>1. CASE UNCHANGED wVars
  <2>1. RadioTypeOK' /\ Places' /\ Update'
    BY ZenonT(60), <1>1 DEF wVars, RadioInv, RadioTypeOK, Places, Update, None, Waits, Upd, Cur, HandOf
  <2>2. Audio' /\ Receive' /\ Transmit'
    BY <1>1, ControlFrame DEF wVars, RadioInv
  <2> QED BY <2>1, <2>2 DEF RadioInv
<1>2. CASE WNext
  BY <1>2, ReceiveBeginStep, ReceiveAdoptStep, ReceiveCheckStep, ReceiveWriteStep, TransmitBeginStep,
     TransmitAdoptStep, TransmitResetStep, TransmitRenderStep, TransmitAckStep, TransmitEndStep,
     ReloadPrepareStep, ReloadQuiesceStep, ReloadOpenStep, ReloadPublishStep, PumpUpdateStep,
     PumpPushStep, PumpAppliedStep, PumpDetachStep DEF WNext
<1> QED BY <1>1, <1>2

\* The invariant says what TX may transmit and what waits in the queues.
LEMMA RadioInvEnough == RadioInv => BurstsSeparate
<1> SUFFICES ASSUME RadioInv PROVE BurstsSeparate
  OBVIOUS
<1>1. (wTx.pc = "check" /\ Transmits) => \A b \in wTx.audio : b = wHands[HandOf(wEnds["tx"].cur)].burst
  BY DEF RadioInv, Transmit, Transmits, HandAt, Cur
<1>2. \A s \in Sides :
        /\ \A e \in {wEnds[s].ready, wEnds[s].pending} : e # NoRing => e.gen = wGen.id
        /\ (wEnds[s].ready # NoRing \/ wEnds[s].pending # NoRing) => ~wEnds[s].retired
  BY DEF RadioInv, Update, None, Waits
<1> QED BY <1>1, <1>2 DEF BurstsSeparate

\* For every delay, number of reloads, bursts and ring size: TX transmits only
\* audio of the newest burst its handoff has seen, and a replacement ring always
\* waits for the published generation with its return queue free.
THEOREM RadioSafe == WSpec => []BurstsSeparate
<1>1. WInit => RadioInv
  BY RadioInitInv
<1>2. RadioInv /\ [WNext]_wVars => RadioInv'
  BY RadioNextInv
<1>3. RadioInv => BurstsSeparate
  BY RadioInvEnough
<1> QED BY <1>1, <1>2, <1>3, PTL DEF WSpec
=============================================================================
