---------------------- MODULE MessagePreparationProofs ----------------------
(***************************************************************************)
(* The steps of the control thread, which registers and drops readers and  *)
(* pumps their requests in rotation, keep the invariant of                 *)
(* MessageReaderProofs; then the theorems.                                 *)
(***************************************************************************)
EXTENDS MessageReaderProofs

\* The provers, and the times, for a leaf that names none.
USE ZenonT(2), SMTT(10), ZenonT(20), SMTT(30), ZenonT(60)

-----------------------------------------------------------------------------
(***************************************************************************)
(* The control thread.                                                     *)
(***************************************************************************)

LEMMA RegisterKept ==
  ASSUME Core, NEW p \in Readers, Register(p)
  PROVE  Core'
  <1>1. /\ holder[p] = "unregistered" /\ pump = "idle" /\ ports' = Append(ports, p)
        /\ alive' = [alive EXCEPT ![p] = TRUE]
        /\ holder' = [holder EXCEPT ![p] = "audio"]
        /\ SameReaders
        /\ UNCHANGED <<sequence, next, scan, pump, waiting, started, finished, todo, who, live>>
    BY DEF Register, PumpAt, SameReaders, rings, playback, audio
  <1>2. Typed /\ Distinct /\ LiveOK /\ PortsOK /\ CallOK /\ \A q \in Readers : Credit(q) /\ Wanted(q)
    BY DEF Core
  <1>3. Distinct' /\ LiveOK'
    BY <1>1, <1>2, SameReadersKept
  <1>4. /\ holder' \in [Readers -> {"unregistered", "audio", "returned", "dropped"}]
        /\ alive' \in [Readers -> BOOLEAN]
    BY <1>1, <1>2 DEF Typed
  <1>5. Typed'
    BY <1>1, <1>2, <1>4, Zenon DEF Typed, SameReaders
  <1>6. PortsOK'
    BY <1>1, <1>2 DEF PortsOK
  <1>7. CallOK'
    BY <1>1, <1>2 DEF CallOK, SameReaders, Typed
  <1>8. ASSUME NEW q \in Readers PROVE Credit(q)' /\ Wanted(q)'
    <2>1. View(q)' = View(q) /\ awaited'[q] = awaited[q]
      BY <1>1, SameViews DEF SameReaders
    <2>2. Wanted(q)'
      BY <1>1, <1>2 DEF Wanted, SameReaders
    <2>3. /\ q # p => holder'[q] = holder[q] /\ alive'[q] = alive[q]
          /\ holder'[p] = "audio" /\ alive'[p]
      BY Zenon, <1>1, <1>2 DEF Typed
    <2>4. Credit(q)'
      BY <1>1, <1>2, <2>1, <2>3 DEF Credit
    <2> QED BY <2>2, <2>4
  <1> QED BY <1>3, <1>5, <1>6, <1>7, <1>8 DEF Core

LEMMA DropKept ==
  ASSUME PrepareInv, NEW p \in Readers, DropReader(p)
  PROVE  PrepareInv'
  <1> DEFINE c == CancelReader(View(p))
             u == [c EXCEPT !.outstanding = FALSE, !.failed = FALSE]
  <1>1. /\ Core /\ holder[p] = "returned" /\ Becomes(p, u)
        /\ alive' = [alive EXCEPT ![p] = FALSE]
        /\ holder' = [holder EXCEPT ![p] = "dropped"]
        /\ started' = [started EXCEPT ![p] = FALSE]
        /\ UNCHANGED <<sequence, ports, next, scan, pump, waiting, finished, todo, who, live>>
    BY DEF DropReader, PrepareInv, PumpAt, registry, audio
  <1>2. Typed /\ Distinct /\ LiveOK /\ PortsOK /\ CallOK /\ \A q \in Readers : Credit(q) /\ Wanted(q)
    BY <1>1 DEF Core
  <1>3. /\ View(p) \in Views /\ waiting[p] \in Tries \cup {None}
        /\ Sound(View(p), waiting[p]) /\ Owed(View(p), waiting[p])
    BY <1>1, <1>2, ViewTyped DEF Credit, Typed
  <1>4. /\ c.fault \in {"none", "retired"}
        /\ c.fault = "none" =>
             /\ c \in Views /\ Sound(c, waiting[p]) /\ Owed(c, waiting[p])
             /\ c.desired = None
             /\ \A a \in Tries : /\ Mentions(c, a) => Mentions(View(p), a)
                                 /\ Holds(c, a) <=> Holds(View(p), a)
    BY <1>3, CancelFollows
  <1> HIDE DEF c
  <1>5. u.fault = c.fault
    OBVIOUS
  <1>6. fault' = c.fault
    BY <1>1, <1>5 DEF Becomes
  <1>7. ASSUME c.fault = "none" PROVE Core'
    <2>1. /\ u \in Views /\ u.desired = c.desired /\ u.stream = c.stream /\ u.requests = c.requests
          /\ u.ready = c.ready /\ u.retired = c.retired /\ ~u.outstanding
      BY Zenon, <1>4, <1>7 DEF Views
    <2>2. Becomes(p, u)
      BY <1>1
    <2> HIDE DEF u
    <2>3. Sound(u, waiting[p])
      BY <1>4, <1>7, <2>1 DEF Sound
    <2>4. \A a \in Tries : /\ Mentions(u, a) <=> Mentions(c, a)
                           /\ Holds(u, a) <=> Holds(c, a)
      BY <2>1 DEF Mentions, Holds
    <2>5. /\ \A q \in Readers : View(q)' = IF q = p THEN u ELSE View(q)
          /\ requests' \in [Readers -> Slot(Tries)]
          /\ ready' \in [Readers -> Slot(Ready)]
          /\ retired' \in [Readers -> Slot(Tries)]
          /\ desired' \in [Readers -> Tries \cup {None}]
          /\ awaited' \in [Readers -> BOOLEAN]
          /\ failed' \in [Readers -> BOOLEAN]
          /\ stream' \in [Readers -> Tries \cup {None}]
      BY <1>2, <2>1, <2>2, BecomesView
    <2>6. ASSUME NEW a \in Tries
          PROVE  /\ Mentions(u, a) => Mentions(View(p), a) \/ (sequence < a /\ a <= sequence')
                 /\ Holds(u, a) <=> Holds(View(p), a)
      BY <1>4, <1>7, <2>4, <2>6, Zenon
    <2>7. sequence' \in Nat /\ sequence <= sequence'
      BY <1>1, <1>2, SequenceNatural DEF Typed
    <2>8. Distinct' /\ LiveOK'
      BY ZenonT(60), <1>1, <1>2, <2>5, <2>6, <2>7, OneReader
    <2>9. /\ holder' \in [Readers -> {"unregistered", "audio", "returned", "dropped"}]
          /\ alive' \in [Readers -> BOOLEAN] /\ started' \in [Readers -> BOOLEAN]
          /\ \A q \in Readers : q # p => /\ holder'[q] = holder[q] /\ alive'[q] = alive[q]
                                        /\ started'[q] = started[q]
          /\ holder'[p] = "dropped"
      BY <1>1, <1>2 DEF Typed
    <2>10. Typed'
      BY <1>1, <1>2, <2>5, <2>9, Zenon DEF Typed
    <2>11. /\ \A q \in Readers : q # p => awaited'[q] = awaited[q] /\ desired'[q] = desired[q]
           /\ desired'[p] = None
      BY <1>2, <1>4, <1>7, <2>1, <2>2 DEF Becomes, Typed
    <2>12. CallOK'
      <3>1. CASE todo = <<>>
        BY <1>1, <3>1 DEF CallOK
      <3>2. CASE todo # <<>>
        <4>1. who # p /\ who \in Readers
          BY <1>1, <1>2, <3>2 DEF CallOK, Typed
        <4> QED BY <1>1, <1>2, <2>9, <2>11, <4>1 DEF CallOK
      <3> QED BY <3>1, <3>2
    <2>13. PortsOK'
      BY <1>1, <1>2 DEF PortsOK
    <2>14. ASSUME NEW q \in Readers PROVE Credit(q)' /\ Wanted(q)'
      <3>1. CASE q = p
        <4>1. View(p)' = u
          BY <2>5
        <4>2. Credit(p)'
          BY <1>1, <2>3, <2>9, <4>1 DEF Credit
        <4>3. Wanted(p)'
          BY <2>11 DEF Wanted
        <4> QED BY <3>1, <4>2, <4>3
      <3>2. CASE q # p
        <4>1. View(q)' = View(q)
          BY <2>5, <3>2
        <4>2. Credit(q)'
          BY Zenon, <1>1, <1>2, <2>9, <2>11, <3>2, <4>1, CreditKept
        <4>3. Wanted(q)'
          BY <1>1, <1>2, <2>9, <2>11, <3>2 DEF Wanted
        <4> QED BY <4>2, <4>3
      <3> QED BY <3>1, <3>2
    <2> QED BY <2>8, <2>10, <2>12, <2>13, <2>14 DEF Core
  <1> QED BY <1>4, <1>6, <1>7 DEF PrepareInv

LEMMA SlotMember ==
  ASSUME NEW S, NEW s \in Slot(S), NEW x
  PROVE  x \in Range(s) <=> s = <<x>>
  <1>1. CASE s = <<>>
    BY <1>1 DEF Range
  <1>2. ASSUME NEW y \in S, s = <<y>> PROVE x \in Range(s) <=> s = <<x>>
    BY <1>2 DEF Range
  <1> QED BY <1>1, <1>2 DEF Slot

\* A reader whose retired ring or request ring control empties.
LEMMA EmptiedView ==
  ASSUME NEW v, NEW u, NEW w, Sound(v, w),
         u.desired = v.desired, u.stream = v.stream, u.ready = v.ready,
         u.retired \in {<<>>, v.retired}, u.requests \in {<<>>, v.requests}
  PROVE  /\ Sound(u, w)
         /\ \A a \in Tries :
              /\ Mentions(u, a) => Mentions(v, a)
              /\ Holds(u, a) <=> Holds(v, a) /\ (v.retired = <<a>> => u.retired = <<a>>)
  <1>a. \A a : /\ u.requests = <<a>> => v.requests = <<a>>
               /\ u.retired = <<a>> => v.retired = <<a>>
    <2>1. \A a : <<>> # <<a>>
      OBVIOUS
    <2> QED BY Zenon, <2>1
  <1>b. u.requests # <<>> => v.requests # <<>>
    OBVIOUS
  <1>c. v.requests = <<>> => u.requests = <<>>
    OBVIOUS
  <1>1. Sound(u, w)
    BY <1>a, <1>b, <1>c DEF Sound
  <1>2. ASSUME NEW a \in Tries PROVE Mentions(u, a) => Mentions(v, a)
    BY Zenon, <1>a DEF Mentions
  <1>3. ASSUME NEW a \in Tries, v.retired = <<a>>
        PROVE  v.stream # a /\ v.ready # <<[attempt |-> a, ok |-> TRUE]>>
    BY Zenon, <1>3, NoneIsNoTry DEF Sound
  <1>4. ASSUME NEW a \in Tries
        PROVE  Holds(u, a) <=> Holds(v, a) /\ (v.retired = <<a>> => u.retired = <<a>>)
    BY <1>3 DEF Holds
  <1> QED BY <1>1, <1>2, <1>4

\* A reader whose request for attempt a control takes.
LEMMA PoppedView ==
  ASSUME NEW v, NEW u, NEW w, NEW a \in Tries, Sound(v, w),
         u.desired = v.desired, u.stream = v.stream, u.ready = v.ready, u.retired = v.retired,
         u.outstanding = v.outstanding, v.requests = <<a>>, u.requests = <<>>
  PROVE  /\ Sound(u, a)
         /\ Owed(v, w) => Owed(u, a)
         /\ Mentions(v, a)
         /\ \A b \in Tries :
              /\ Mentions(u, b) => Mentions(v, b)
              /\ Holds(u, b) <=> Holds(v, b)
  <1>1. Sound(u, a)
    BY NoneIsNoTry DEF Sound
  <1>2. Owed(v, w) => Owed(u, a)
    BY NoneIsNoTry DEF Owed
  <1>3. Mentions(v, a)
    BY DEF Mentions
  <1>4. ASSUME NEW b \in Tries
        PROVE  (Mentions(u, b) => Mentions(v, b)) /\ (Holds(u, b) <=> Holds(v, b))
    BY DEF Mentions, Holds
  <1> QED BY <1>1, <1>2, <1>3, <1>4

\* A reader whose request for attempt a control answers.
LEMMA SettledView ==
  ASSUME NEW v, NEW u, NEW a \in Tries, NEW ok \in BOOLEAN, Sound(v, a),
         u.desired = v.desired, u.stream = v.stream, u.requests = v.requests,
         u.retired = v.retired, u.outstanding = v.outstanding,
         u.ready = <<[attempt |-> a, ok |-> ok]>>
  PROVE  /\ Sound(u, None)
         /\ Owed(v, a) => Owed(u, None)
         /\ \A b \in Tries :
              /\ Mentions(u, b) => Mentions(v, b) \/ b = a
              /\ Holds(u, b) <=> Holds(v, b) \/ (ok /\ b = a)
  <1>1. v.ready = <<>> /\ v.requests = <<>> /\ v.stream = None /\ v.retired # <<a>>
    BY NoneIsNoTry DEF Sound
  <1>2. \A b \in Tries : b # a =>
          \A k \in BOOLEAN : u.ready # <<[attempt |-> b, ok |-> k]>>
    OBVIOUS
  <1>3. Sound(u, None)
    BY <1>1, <1>2, NoneIsNoTry DEF Sound
  <1>4. Owed(v, a) => Owed(u, None)
    BY NoneIsNoTry DEF Owed
  <1>5. ASSUME NEW b \in Tries PROVE Mentions(u, b) => Mentions(v, b) \/ b = a
    BY Zenon, <1>2 DEF Mentions
  <1>6. u.ready = <<[attempt |-> a, ok |-> TRUE]>> <=> ok
    <2>1. CASE ok = TRUE
      BY <2>1
    <2>2. CASE ok = FALSE
      <3>1. [attempt |-> a, ok |-> TRUE].ok # [attempt |-> a, ok |-> FALSE].ok
        OBVIOUS
      <3> QED BY <2>2, <3>1
    <2> QED BY ZenonT(60), <2>1, <2>2
  <1>7. ASSUME NEW b \in Tries PROVE Holds(u, b) <=> Holds(v, b) \/ (ok /\ b = a)
    <2>1. CASE b = a
      BY <1>1, <1>6, <2>1, NoneIsNoTry DEF Holds
    <2>2. CASE b # a
      <3>1. u.ready # <<[attempt |-> b, ok |-> TRUE]>> /\ v.ready # <<[attempt |-> b, ok |-> TRUE]>>
        BY <1>1, <1>2, <2>2
      <3> QED BY <2>2, <3>1 DEF Holds
    <2> QED BY <2>1, <2>2
  <1> QED BY <1>3, <1>4, <1>5, <1>7

\* Control empties the retired rings of G, destroying what they held, and the
\* request rings of H.
LEMMA EmptyRings ==
  ASSUME Core, NEW G, G \subseteq Readers, NEW H, H \subseteq Readers,
         retired' = [p \in Readers |-> IF p \in G THEN <<>> ELSE retired[p]],
         requests' = [p \in Readers |-> IF p \in H THEN <<>> ELSE requests[p]],
         live' = live \ UNION {Range(retired[p]) : p \in G},
         \A p \in H : holder[p] = "dropped" \/ requests[p] = <<>>,
         UNCHANGED <<sequence, waiting, ready, desired, awaited, failed, stream, alive, started,
                     finished, holder, todo, who>>,
         PortsOK'
  PROVE  Core'
  <1>1. Typed /\ Distinct /\ LiveOK /\ CallOK /\ \A q \in Readers : Credit(q) /\ Wanted(q)
    BY DEF Core
  <1>2. /\ retired' \in [Readers -> Slot(Tries)] /\ requests' \in [Readers -> Slot(Tries)]
        /\ live' \subseteq Tries
    BY <1>1 DEF Typed, Slot
  <1>3. Typed'
    BY <1>1, <1>2, Zenon DEF Typed
  <1>4. \A q \in Readers :
          /\ View(q)'.desired = View(q).desired /\ View(q)'.stream = View(q).stream
          /\ View(q)'.ready = View(q).ready /\ View(q)'.outstanding = View(q).outstanding
          /\ View(q)'.retired = (IF q \in G THEN <<>> ELSE View(q).retired)
          /\ View(q)'.requests = (IF q \in H THEN <<>> ELSE View(q).requests)
    BY DEF View
  <1>5. \A q \in Readers : Sound(View(q), waiting[q]) /\ View(q).retired = retired[q]
    BY <1>1 DEF Credit, View
  <1>6. ASSUME NEW q \in Readers
        PROVE  /\ Sound(View(q)', waiting[q])
               /\ \A a \in Tries :
                    /\ Mentions(View(q)', a) => Mentions(View(q), a)
                    /\ Holds(View(q)', a) <=>
                         Holds(View(q), a) /\ (View(q).retired = <<a>> => View(q)'.retired = <<a>>)
    <2>1. /\ View(q)'.desired = View(q).desired /\ View(q)'.stream = View(q).stream
          /\ View(q)'.ready = View(q).ready
          /\ View(q)'.retired \in {<<>>, View(q).retired}
          /\ View(q)'.requests \in {<<>>, View(q).requests}
      BY <1>4
    <2> QED BY ZenonT(60), <1>5, <2>1, EmptiedView
  <1>7. ASSUME NEW q \in Readers, NEW a \in Tries
        PROVE  Holds(View(q)', a) <=> Holds(View(q), a) /\ ~ (q \in G /\ retired[q] = <<a>>)
    <2>1. View(q)'.retired = (IF q \in G THEN <<>> ELSE retired[q]) /\ View(q).retired = retired[q]
      BY <1>4, <1>5
    <2>2. Holds(View(q)', a) <=>
            Holds(View(q), a) /\ (View(q).retired = <<a>> => View(q)'.retired = <<a>>)
      BY <1>6
    <2> QED BY <2>1, <2>2
  <1>8. \A a \in Tries : a \in live' <=> a \in live /\ \A p \in G : retired[p] # <<a>>
    <2>1. ASSUME NEW p \in G, NEW a \in Tries
          PROVE  a \in Range(retired[p]) <=> retired[p] = <<a>>
      <3>1. retired[p] \in Slot(Tries)
        BY <1>1 DEF Typed
      <3> QED BY ZenonT(60), <3>1, SlotMember
    <2> QED BY <2>1
  <1>9. \A q \in Readers, a \in Tries : Named(q, a)' => Named(q, a)
    BY <1>6 DEF Named
  <1>10. Distinct'
    BY <1>1, <1>9 DEF Distinct
  <1>11. LiveOK'
    <2>1. ASSUME NEW a \in Tries, a \in live'
          PROVE  \E q \in Readers : Holds(View(q)', a)
      <3>1. PICK q \in Readers : Holds(View(q), a)
        BY <1>1, <1>8, <2>1 DEF LiveOK
      <3> QED BY <1>7, <1>8, <2>1, <3>1
    <2>2. ASSUME NEW a \in Tries, NEW q \in Readers, Holds(View(q)', a)
          PROVE  a \in live'
      <3>1. Holds(View(q), a) /\ ~ (q \in G /\ retired[q] = <<a>>)
        BY <1>7, <2>2
      <3>2. a \in live
        BY <1>1, <3>1 DEF LiveOK
      <3>3. ASSUME NEW p \in G, retired[p] = <<a>> PROVE FALSE
        <4>1. Named(p, a)
          BY <1>5, <3>3 DEF Named, Mentions
        <4>2. Named(q, a)
          BY ZenonT(60), <3>1 DEF Named, Mentions, Holds
        <4>3. p = q
          BY <1>1, <4>1, <4>2 DEF Distinct
        <4> QED BY <3>1, <3>3, <4>3
      <3> QED BY ZenonT(60), <1>8, <3>2, <3>3
    <2> QED BY <2>1, <2>2 DEF LiveOK
  <1>12. CallOK'
    BY <1>1 DEF CallOK
  <1>13. ASSUME NEW q \in Readers PROVE Credit(q)' /\ Wanted(q)'
    <2>1. Wanted(q)'
      BY <1>1 DEF Wanted
    <2>2. Sound(View(q)', waiting[q])
      BY <1>6
    <2>3. holder[q] # "dropped" => Owed(View(q)', waiting[q])
      <3>1. holder[q] # "dropped" => View(q)'.requests = View(q).requests
        BY ZenonT(60), <1>4 DEF View
      <3> QED BY <1>1, <1>4, <3>1 DEF Credit, Owed
    <2>4. Credit(q)'
      BY Zenon, <1>1, <2>2, <2>3 DEF Credit
    <2> QED BY <2>1, <2>4
  <1> QED BY <1>3, <1>10, <1>11, <1>12, <1>13 DEF Core

LEMMA BeginPumpKept ==
  ASSUME Core, BeginPump
  PROVE  Core'
  <1>1. /\ pump' = "take" /\ SameReaders
        /\ UNCHANGED <<sequence, ports, next, waiting, scan, alive, started, finished, holder,
                       todo, who, live>>
    BY DEF BeginPump, SameReaders, rings, reader, playback, audio
  <1>2. Typed /\ Distinct /\ LiveOK /\ PortsOK /\ CallOK /\ \A q \in Readers : Credit(q) /\ Wanted(q)
    BY DEF Core
  <1>3. Distinct' /\ LiveOK'
    BY <1>1, <1>2, SameReadersKept
  <1>4. Typed'
    BY <1>1, <1>2, Zenon DEF Typed, SameReaders
  <1>5. PortsOK' /\ CallOK'
    BY <1>1, <1>2 DEF PortsOK, CallOK, SameReaders
  <1>6. ASSUME NEW q \in Readers PROVE Credit(q)' /\ Wanted(q)'
    <2>1. View(q)' = View(q) /\ awaited'[q] = awaited[q]
      BY <1>1, SameViews DEF SameReaders
    <2>2. Wanted(q)'
      BY <1>1, <1>2 DEF Wanted, SameReaders
    <2> QED BY <1>1, <1>2, <2>1, <2>2, CreditKept
  <1> QED BY <1>3, <1>4, <1>5, <1>6 DEF Core

LEMMA DrainKept ==
  ASSUME Core, Drain
  PROVE  Core'
  <1>1. Typed /\ PortsOK
    BY DEF Core
  <1>2. /\ UNCHANGED <<sequence, waiting, ready, desired, awaited, failed, stream, alive, started,
                       finished, holder, todo, who>>
        /\ UNCHANGED <<ports, next, requests>> /\ pump = "drain"
    BY DEF Drain, PumpAt, reader, playback, audio
  <1>3. PICK none : none = {}
    BY ZenonT(60)
  <1>4. /\ requests' = [p \in Readers |-> IF p \in none THEN <<>> ELSE requests[p]]
        /\ none \subseteq Readers /\ \A p \in none : holder[p] = "dropped" \/ requests[p] = <<>>
    BY <1>1, <1>2, <1>3 DEF Typed
  <1>5. CASE scan < Len(ports)
    <2> DEFINE p == ports[scan + 1]
    <2>1. p \in Readers
      BY <1>1, <1>5 DEF PortsOK
    <2>2. /\ live' = live \ Range(retired[p]) /\ retired' = [retired EXCEPT ![p] = <<>>]
          /\ scan' = scan + 1 /\ pump' = pump
      BY <1>5 DEF Drain
    <2> HIDE DEF p
    <2>3. PICK one : one = {p}
      BY Zenon
    <2>4. /\ retired' = [q \in Readers |-> IF q \in one THEN <<>> ELSE retired[q]]
          /\ live' = live \ UNION {Range(retired[q]) : q \in one} /\ one \subseteq Readers
      BY Zenon, <1>1, <2>1, <2>2, <2>3 DEF Typed
    <2>5. PortsOK'
      BY <1>1, <1>2, <2>2 DEF PortsOK
    <2> QED BY Zenon, <1>2, <1>4, <2>4, <2>5, EmptyRings
  <1>6. CASE ~ (scan < Len(ports))
    <2>1. pump' = "pop" /\ scan' = 0 /\ UNCHANGED <<retired, live>>
      BY <1>6 DEF Drain
    <2>2. /\ retired' = [q \in Readers |-> IF q \in none THEN <<>> ELSE retired[q]]
          /\ live' = live \ UNION {Range(retired[q]) : q \in none}
      BY <1>1, <1>3, <2>1 DEF Typed
    <2>3. PortsOK'
      BY <1>1, <1>2, <2>1 DEF PortsOK
    <2> QED BY ZenonT(60), <1>2, <1>4, <2>2, <2>3, EmptyRings
  <1> QED BY <1>5, <1>6

LEMMA PopKept ==
  ASSUME Core, Pop
  PROVE  Core'
  <1>1. Typed /\ Distinct /\ LiveOK /\ PortsOK /\ CallOK /\ \A q \in Readers : Credit(q) /\ Wanted(q)
    BY DEF Core
  <1>2. /\ UNCHANGED <<sequence, ports, ready, retired, alive, desired, awaited, failed, stream,
                       started, finished, todo, who, holder, live>>
        /\ pump = "pop"
    BY DEF Pop, PumpAt, reader, playback, audio
  <1>3. PortsOK'
    <2>1. CASE scan < Len(ports)
      <3>1. next' = (next + 1) % Len(ports) /\ scan' \in {scan, scan + 1}
        BY <2>1 DEF Pop
      <3>2. Len(ports) \in Nat /\ Len(ports) > 0
        BY <1>1, <2>1 DEF PortsOK
      <3>3. (next + 1) % Len(ports) \in 0 .. Len(ports) - 1
        BY <1>1, <3>2 DEF PortsOK
      <3> QED BY <1>1, <1>2, <3>1, <3>2, <3>3 DEF PortsOK
    <2>2. CASE ~ (scan < Len(ports))
      BY <1>1, <1>2, <2>2 DEF PortsOK, Pop
    <2> QED BY <2>1, <2>2
  <1>4. CallOK' /\ \A q \in Readers : Wanted(q)'
    BY <1>1, <1>2 DEF CallOK, Wanted
  <1>5. CASE UNCHANGED <<requests, waiting>>
    <2>1. SameReaders
      BY <1>2, <1>5 DEF SameReaders
    <2>2. Distinct' /\ LiveOK'
      BY <1>1, <1>2, <1>5, <2>1, SameReadersKept
    <2>3. Typed'
      BY <1>1, <1>2, <1>5, Zenon DEF Typed
    <2>4. \A q \in Readers : Credit(q)'
      BY <1>1, <1>2, <1>5, <2>1, SameViews, CreditKept
    <2> QED BY <1>3, <1>4, <2>2, <2>3, <2>4 DEF Core
  <1>6. CASE ~ UNCHANGED <<requests, waiting>>
    <2>1. scan < Len(ports) /\ requests[ports[next + 1]] # <<>>
      BY <1>6 DEF Pop
    <2>2. PICK p \in Readers : p = ports[next + 1]
      BY <1>1, <1>2, <2>1 DEF PortsOK
    <2>3. /\ requests' = [requests EXCEPT ![p] = <<>>]
          /\ waiting' = [waiting EXCEPT ![p] = Head(requests[p])]
      BY <2>1, <2>2 DEF Pop
    <2>4. PICK a \in Tries : requests[p] = <<a>>
      BY <1>1, <2>1, <2>2 DEF Typed, Slot
    <2>5. /\ requests' \in [Readers -> Slot(Tries)] /\ waiting' \in [Readers -> Tries \cup {None}]
          /\ requests'[p] = <<>> /\ waiting'[p] = a
          /\ \A q \in Readers : q # p => requests'[q] = requests[q] /\ waiting'[q] = waiting[q]
      BY <1>1, <2>2, <2>3, <2>4 DEF Typed, Slot
    <2>6. Typed'
      BY <1>1, <1>2, <2>5, Zenon DEF Typed
    <2>7. \A q \in Readers : q # p => View(q)' = View(q)
      BY <1>2, <2>5 DEF View
    <2>8. /\ View(p)'.desired = View(p).desired /\ View(p)'.stream = View(p).stream
          /\ View(p)'.ready = View(p).ready /\ View(p)'.outstanding = View(p).outstanding
          /\ View(p)'.retired = View(p).retired /\ View(p)'.requests = requests'[p]
          /\ View(p).requests = requests[p]
      BY ZenonT(60), <1>2 DEF View
    <2>9. Sound(View(p), waiting[p])
      BY <1>1, <2>2 DEF Credit
    <2>10. /\ Sound(View(p)', a)
           /\ Owed(View(p), waiting[p]) => Owed(View(p)', a)
           /\ Mentions(View(p), a)
           /\ \A b \in Tries :
                /\ Mentions(View(p)', b) => Mentions(View(p), b)
                /\ Holds(View(p)', b) <=> Holds(View(p), b)
      BY <2>4, <2>5, <2>8, <2>9, PoppedView
    <2>11. ASSUME NEW q \in Readers PROVE Credit(q)'
      <3>1. CASE q = p
        <4>1. Credit(p)
          BY <1>1, <2>2
        <4>2. Credit(p)'
          BY <1>2, <2>5, <2>10, <4>1 DEF Credit
        <4> QED BY <3>1, <4>2
      <3>2. CASE q # p
        BY <1>1, <1>2, <2>5, <2>7, <3>2, CreditKept
      <3> QED BY <3>1, <3>2
    <2>12. ASSUME NEW q \in Readers, NEW b \in Tries
           PROVE  /\ Named(q, b)' => Named(q, b)
                  /\ Holds(View(q)', b) <=> Holds(View(q), b)
      <3>1. CASE q = p
        BY <2>5, <2>10, <3>1 DEF Named
      <3>2. CASE q # p
        BY <2>5, <2>7, <3>2 DEF Named
      <3> QED BY <3>1, <3>2
    <2>13. Distinct'
      BY <1>1, <1>2, <2>12 DEF Distinct
    <2>14. LiveOK'
      BY <1>1, <1>2, <2>12 DEF LiveOK
    <2> QED BY <1>3, <1>4, <2>6, <2>11, <2>13, <2>14 DEF Core
  <1> QED BY <1>5, <1>6

LEMMA CompleteKept ==
  ASSUME PrepareInv, NEW p \in Readers, NEW ok \in BOOLEAN, Complete(p, ok)
  PROVE  PrepareInv'
  <1> DEFINE a == waiting[p]
  <1>1. Core /\ a # None
    BY DEF Complete, PumpAt, PrepareInv
  <1>2. Typed /\ Distinct /\ LiveOK /\ PortsOK /\ CallOK /\ \A q \in Readers : Credit(q) /\ Wanted(q)
    BY <1>1 DEF Core
  <1>3. a \in Tries /\ Credit(p)
    BY <1>1, <1>2 DEF Typed
  <1>4. Sound(View(p), a) /\ ready[p] = View(p).ready
    BY ZenonT(60), <1>3 DEF Credit, View
  <1>5. ready[p] = <<>>
    BY <1>1, <1>4 DEF Sound
  <1>6. /\ ready' = [ready EXCEPT ![p] = <<[attempt |-> a, ok |-> ok]>>]
        /\ fault' = "none" /\ waiting' = [waiting EXCEPT ![p] = None]
        /\ live' = IF ok THEN live \cup {a} ELSE live
        /\ pump' \in {"take", "idle"}
        /\ UNCHANGED <<sequence, ports, next, scan, requests, retired, alive, desired, awaited,
                       failed, stream, started, finished, todo, who, holder>>
    BY <1>5 DEF Complete, Settle, reader, playback, audio
  <1> HIDE DEF a
  <1>7. [attempt |-> a, ok |-> ok] \in Ready
    BY <1>3 DEF Ready
  <1>8. /\ ready' \in [Readers -> Slot(Ready)] /\ waiting' \in [Readers -> Tries \cup {None}]
        /\ ready'[p] = <<[attempt |-> a, ok |-> ok]>> /\ waiting'[p] = None
        /\ \A q \in Readers : q # p => ready'[q] = ready[q] /\ waiting'[q] = waiting[q]
    BY <1>2, <1>6, <1>7 DEF Typed, Slot
  <1>9. live' \subseteq Tries
    BY <1>2, <1>3, <1>6 DEF Typed
  <1>10. Typed'
    BY <1>2, <1>6, <1>8, <1>9, Zenon DEF Typed
  <1>11. PortsOK'
    BY <1>2, <1>6 DEF PortsOK
  <1>12. CallOK' /\ \A q \in Readers : Wanted(q)'
    BY <1>2, <1>6 DEF CallOK, Wanted
  <1>13. \A q \in Readers : q # p => View(q)' = View(q)
    BY <1>6, <1>8 DEF View
  <1>14. /\ View(p)'.desired = View(p).desired /\ View(p)'.stream = View(p).stream
         /\ View(p)'.requests = View(p).requests /\ View(p)'.outstanding = View(p).outstanding
         /\ View(p)'.retired = View(p).retired /\ View(p)'.ready = ready'[p]
    BY ZenonT(60), <1>6 DEF View
  <1>15. /\ Sound(View(p)', None)
         /\ Owed(View(p), a) => Owed(View(p)', None)
         /\ \A b \in Tries :
              /\ Mentions(View(p)', b) => Mentions(View(p), b) \/ b = a
              /\ Holds(View(p)', b) <=> Holds(View(p), b) \/ (ok /\ b = a)
    BY ZenonT(60), <1>3, <1>4, <1>8, <1>14, SettledView
  <1>16. ASSUME NEW q \in Readers PROVE Credit(q)'
    <2>1. CASE q = p
      <3>1. Credit(p)'
        BY Zenon, <1>3, <1>6, <1>8, <1>15 DEF Credit, a
      <3> QED BY <2>1, <3>1
    <2>2. CASE q # p
      BY ZenonT(60), <1>2, <1>6, <1>8, <1>13, <2>2, CreditKept
    <2> QED BY <2>1, <2>2
  <1>17. ASSUME NEW q \in Readers, NEW b \in Tries
         PROVE  /\ Named(q, b)' => Named(q, b)
                /\ Holds(View(q)', b) <=> Holds(View(q), b) \/ (q = p /\ ok /\ b = a)
    <2>1. CASE q = p
      BY ZenonT(60), <1>8, <1>15, <2>1, NoneIsNoTry DEF Named, a
    <2>2. CASE q # p
      BY <1>8, <1>13, <2>2 DEF Named
    <2> QED BY <2>1, <2>2
  <1>18. Distinct'
    BY <1>2, <1>6, <1>17 DEF Distinct
  <1>19. LiveOK'
    BY <1>2, <1>3, <1>6, <1>17 DEF LiveOK
  <1> QED BY <1>6, <1>10, <1>11, <1>12, <1>16, <1>18, <1>19 DEF PrepareInv, Core

LEMMA RetainKept ==
  ASSUME Core, Retain
  PROVE  Core'
  <1> DEFINE gone == {p \in Range(ports) : ~alive[p]}
  <1>1. Typed /\ PortsOK /\ \A q \in Readers : Credit(q)
    BY DEF Core
  <1>2. /\ next' = IF next >= Len(ports') THEN 0 ELSE next
        /\ live' = live \ UNION {Range(retired[p]) : p \in gone}
        /\ requests' = [p \in Readers |-> IF p \in gone THEN <<>> ELSE requests[p]]
        /\ retired' = [p \in Readers |-> IF p \in gone THEN <<>> ELSE retired[p]]
        /\ scan' = 0
    BY DEF Retain
  <1>3. UNCHANGED <<sequence, waiting, ready, desired, awaited, failed, stream, alive, started,
                    finished, holder, todo, who>>
    BY DEF Retain, reader, playback, audio
  <1>4. gone \subseteq Readers /\ \A p \in gone : ~alive[p]
    BY <1>1 DEF PortsOK, Range
  <1> HIDE DEF gone
  <1>5. ASSUME NEW p \in gone PROVE holder[p] = "dropped" \/ requests[p] = <<>>
    <2>1. Credit(p) /\ ~alive[p] /\ holder[p] \in {"unregistered", "audio", "returned", "dropped"}
      BY <1>1, <1>4 DEF Typed
    <2>2. holder[p] \in {"unregistered", "dropped"}
      BY <2>1 DEF Credit
    <2>3. CASE holder[p] = "unregistered"
      <3>1. ~awaited[p] /\ Owed(View(p), waiting[p])
        BY <2>1, <2>3 DEF Credit
      <3>2. View(p).outstanding = awaited[p] /\ View(p).requests = requests[p]
        BY DEF View
      <3> QED BY <3>1, <3>2 DEF Owed
    <2> QED BY <2>2, <2>3
  <1>6. PortsOK'
    <2>1. ports' \in Seq(Readers)
      <3>a. PICK n \in 0 .. Len(ports) :
              \E at \in [1 .. n -> DOMAIN ports] : ports' = [i \in 1 .. n |-> ports[at[i]]]
        BY Zenon DEF Retain
      <3>1. PICK at \in [1 .. n -> DOMAIN ports] : ports' = [i \in 1 .. n |-> ports[at[i]]]
        BY Zenon, <3>a
      <3>2. n \in Nat /\ \A i \in 1 .. n : ports[at[i]] \in Readers
        BY <1>1 DEF PortsOK
      <3>3. ports' \in [1 .. n -> Readers]
        BY <3>1, <3>2
      <3> QED BY <3>2, <3>3
    <2>2. Len(ports') \in Nat
      BY <2>1
    <2>3. next' \in Nat /\ (next' < Len(ports') \/ Len(ports') = 0)
      BY <1>1, <1>2, <2>2 DEF PortsOK
    <2> QED BY <1>2, <2>1, <2>3 DEF PortsOK
  <1> QED BY Zenon, <1>2, <1>3, <1>4, <1>5, <1>6, EmptyRings

-----------------------------------------------------------------------------
(***************************************************************************)
(* The invariant, and what follows from it.                                *)
(***************************************************************************)

LEMMA InitSound == PrepareInit => PrepareInv
  <1> SUFFICES ASSUME PrepareInit PROVE Core
    BY DEF PrepareInit, PrepareInv
  <1>1. Recurring \subseteq Readers /\ <<>> \in Slot(Tries) /\ <<>> \in Slot(Ready)
    BY DEF Readers, Slot
  <1>2. Typed
    BY <1>1, SequenceNatural DEF PrepareInit, Typed, AudioSteps
  <1>3. PortsOK
    <2>1. Cardinality(Recurring) \in Nat /\ ports \in [1 .. Cardinality(Recurring) -> Readers]
      BY <1>1, ReadersFinite DEF PrepareInit, Injection
    <2>2. ports \in Seq(Readers)
      BY <2>1
    <2> QED BY <2>2 DEF PrepareInit, PortsOK
  <1>4. CallOK
    BY DEF PrepareInit, CallOK
  <1>5. ASSUME NEW p \in Readers
        PROVE  /\ View(p).desired = None /\ View(p).stream = None /\ View(p).requests = <<>>
               /\ View(p).ready = <<>> /\ View(p).retired = <<>> /\ ~View(p).outstanding
               /\ waiting[p] = None /\ desired[p] = None /\ ~awaited[p]
               /\ holder[p] \in {"audio", "returned"} => alive[p]
    BY Zenon DEF PrepareInit, View
  <1>6. \A a : <<>> # <<a>>
    OBVIOUS
  <1>7. ASSUME NEW p \in Readers, NEW a \in Tries
        PROVE  ~ Mentions(View(p), a) /\ ~ Holds(View(p), a) /\ waiting[p] # a
    BY ZenonT(60), <1>5, <1>6, NoneIsNoTry DEF Mentions, Holds
  <1>8. ASSUME NEW p \in Readers PROVE Credit(p) /\ Wanted(p)
    <2>1. Sound(View(p), waiting[p]) /\ Owed(View(p), waiting[p])
      BY <1>5, <1>6 DEF Sound, Owed
    <2> QED BY <1>5, <2>1 DEF Credit, Wanted
  <1>9. Distinct
    BY <1>7 DEF Distinct, Named
  <1>10. LiveOK
    BY <1>7 DEF LiveOK, PrepareInit
  <1> QED BY <1>2, <1>3, <1>4, <1>8, <1>9, <1>10 DEF Core

LEMMA StepSound == PrepareInv /\ [PrepareNext]_prepareVars => PrepareInv'
  <1> SUFFICES ASSUME PrepareInv, [PrepareNext]_prepareVars PROVE PrepareInv'
    OBVIOUS
  <1>1. CASE UNCHANGED prepareVars
    <2>1. /\ SameReaders /\ UNCHANGED <<sequence, registry, alive, holder, live>>
          /\ UNCHANGED <<todo, who, started, finished, fault, desired>>
      BY <1>1 DEF prepareVars, SameReaders, registry
    <2>2. ASSUME Core PROVE Core'
      <3>1. /\ todo' \in Seq(AudioSteps) /\ who' \in Readers
            /\ started' \in [Readers -> BOOLEAN] /\ finished' \in [Readers -> BOOLEAN]
        BY <2>1, <2>2 DEF Core, Typed
      <3>2. CallOK' /\ \A p \in Readers : Wanted(p)'
        BY <2>1, <2>2 DEF Core, CallOK, Wanted
      <3> QED BY <2>1, <2>2, <3>1, <3>2, CallKept
    <2> QED BY <2>1, <2>2 DEF PrepareInv
  <1>2. ASSUME fault = "none", fault' = "none", Core' PROVE PrepareInv'
    BY <1>2 DEF PrepareInv
  <1>3. ASSUME fault = "none" PROVE Core
    BY <1>3 DEF PrepareInv
  <1>4. ASSUME NEW p \in Readers, NEW receiving \in BOOLEAN, NEW room \in BOOLEAN,
               Render(p, receiving, room)
        PROVE  PrepareInv'
    <2>1. fault = "none" /\ fault' = "none"
      BY <1>4 DEF Render, Calls
    <2> QED BY <1>2, <1>3, <1>4, <2>1, RenderStep
  <1>5. ASSUME NEW p \in Readers, NEW receiving \in BOOLEAN, Restart(p, receiving)
        PROVE  PrepareInv'
    <2>1. fault = "none" /\ fault' = "none"
      BY <1>5 DEF Restart, Calls
    <2> QED BY <1>2, <1>3, <1>5, <2>1, RestartStep
  <1>6. ASSUME NEW p \in Readers, NEW receiving \in BOOLEAN, Defer(p, receiving)
        PROVE  PrepareInv'
    <2>1. fault = "none" /\ fault' = "none"
      BY <1>6 DEF Defer, Calls
    <2> QED BY <1>2, <1>3, <1>6, <2>1, DeferStep
  <1>7. ASSUME NEW p \in Readers, NEW q \in Recurring, Rewind(p, q) PROVE PrepareInv'
    <2>1. fault = "none" /\ fault' = "none"
      BY <1>7 DEF Rewind, Calls
    <2> QED BY <1>2, <1>3, <1>7, <2>1, RewindStep
  <1>8. ASSUME NEW p \in Readers, Hold(p) \/ Cancel(p) \/ ReturnReader(p) PROVE PrepareInv'
    <2>1. fault = "none" /\ fault' = "none"
      BY <1>8 DEF Hold, Cancel, ReturnReader, Calls
    <2> QED BY <1>2, <1>3, <1>8, <2>1, HoldStep, CancelCall, ReturnStep
  <1>9. CASE Steps
    BY <1>9, CancelStepKept, BeginStepKept, SelectStepKept, ReadStepKept DEF Steps
  <1>10. ASSUME NEW p \in Readers, Register(p) PROVE PrepareInv'
    <2>1. fault = "none" /\ fault' = "none"
      BY <1>10 DEF Register, PumpAt
    <2> QED BY <1>2, <1>3, <1>10, <2>1, RegisterKept
  <1>11. CASE BeginPump \/ Retain \/ Drain \/ Pop
    <2>1. fault = "none" /\ fault' = "none"
      BY <1>11 DEF BeginPump, Retain, Drain, Pop, PumpAt
    <2> QED BY <1>2, <1>3, <1>11, <2>1, BeginPumpKept, RetainKept, DrainKept, PopKept
  <1>12. CASE Audio
    BY <1>4, <1>5, <1>6, <1>7, <1>8, <1>9, <1>12 DEF Audio
  <1>13. CASE Control
    <2>1. OneShot \subseteq Readers
      BY DEF Readers
    <2> QED BY <1>10, <1>11, <1>13, <2>1, DropKept, CompleteKept DEF Control, Pump
  <1> QED BY <1>1, <1>12, <1>13 DEF PrepareNext

LEMMA OnePlace ==
  ASSUME Core, NEW a \in Tries
  PROVE  IF a \in live THEN \E x \in Places(a) : Places(a) = {x} ELSE Places(a) = {}
  <1> DEFINE rec == [attempt |-> a, ok |-> TRUE]
             InReady(q) == rec \in Range(ready[q])
             InRetired(q) == a \in Range(retired[q])
             Places3 == {<<"ready", p>> : p \in {q \in Readers : InReady(q)}}
                          \cup {<<"stream", p>> : p \in {q \in Readers : stream[q] = a}}
                          \cup {<<"retired", p>> : p \in {q \in Readers : InRetired(q)}}
  <1>1. Typed /\ Distinct /\ LiveOK /\ \A q \in Readers : Credit(q)
    BY DEF Core
  <1>2. Places(a) = Places3
    BY ZenonT(60) DEF Places
  <1>3. ASSUME NEW q \in Readers
        PROVE  /\ InReady(q) <=> View(q).ready = <<rec>>
               /\ InRetired(q) <=> View(q).retired = <<a>>
               /\ stream[q] = a <=> View(q).stream = a
    <2>1. ready[q] \in Slot(Ready) /\ retired[q] \in Slot(Tries)
      BY <1>1 DEF Typed
    <2>2. View(q).ready = ready[q] /\ View(q).retired = retired[q] /\ View(q).stream = stream[q]
      BY ZenonT(60) DEF View
    <2> HIDE DEF rec
    <2> QED BY ZenonT(60), <2>1, <2>2, SlotMember
  <1>4. ASSUME NEW q \in Readers
        PROVE  Holds(View(q), a) <=> InReady(q) \/ stream[q] = a \/ InRetired(q)
    <2> HIDE DEF InReady, InRetired
    <2> QED BY Zenon, <1>3 DEF Holds
  <1>5. ASSUME NEW q \in Readers
        PROVE  /\ ~ (InReady(q) /\ stream[q] = a)
               /\ ~ (InReady(q) /\ InRetired(q))
               /\ ~ (InRetired(q) /\ stream[q] = a)
    <2>1. Sound(View(q), waiting[q])
      BY <1>1 DEF Credit
    <2>2. ~ (View(q).ready = <<rec>> /\ View(q).retired = <<a>>)
      BY Zenon, <2>1 DEF Sound
    <2> HIDE DEF InReady, InRetired, rec
    <2>3. ~ (View(q).retired = <<a>> /\ View(q).stream = a)
      BY <2>1, NoneIsNoTry DEF Sound
    <2>4. <<rec>> # <<>> /\ (View(q).stream = a => View(q).ready = <<>>)
      BY <2>1, NoneIsNoTry DEF Sound
    <2> QED BY <1>3, <2>2, <2>3, <2>4
  <1>6. ASSUME NEW p \in Readers, NEW q \in Readers, Holds(View(p), a), Holds(View(q), a)
        PROVE  p = q
    <2>1. Named(p, a) /\ Named(q, a)
      BY ZenonT(60), <1>6 DEF Named, Mentions, Holds
    <2> QED BY <1>1, <2>1 DEF Distinct
  <1> HIDE DEF InReady, InRetired
  <1>7. CASE a \notin live
    <2>1. \A q \in Readers : ~ InReady(q) /\ stream[q] # a /\ ~ InRetired(q)
      BY <1>1, <1>4, <1>7 DEF LiveOK
    <2>2. Places3 = {}
      BY <2>1
    <2> QED BY Zenon, <1>2, <1>7, <2>2
  <1>8. CASE a \in live
    <2>1. PICK p \in Readers : Holds(View(p), a)
      BY <1>1, <1>8 DEF LiveOK
    <2>2. \A q \in Readers : InReady(q) \/ stream[q] = a \/ InRetired(q) => q = p
      BY <1>4, <1>6, <2>1
    <2>3. \E x : Places3 = {x}
      <3>1. CASE InReady(p)
        <4>1. Places3 = {<<"ready", p>>}
          BY <1>5, <2>2, <3>1
        <4> QED BY Zenon, <4>1
      <3>2. CASE stream[p] = a
        <4>1. Places3 = {<<"stream", p>>}
          BY <1>5, <2>2, <3>2
        <4> QED BY Zenon, <4>1
      <3>3. CASE InRetired(p)
        <4>1. Places3 = {<<"retired", p>>}
          BY <1>5, <2>2, <3>3
        <4> QED BY ZenonT(60), <4>1
      <3> QED BY Zenon, <1>4, <2>1, <3>1, <3>2, <3>3
    <2> QED BY <1>2, <1>8, <2>3
  <1> QED BY <1>7, <1>8

LEMMA InvariantSuffices == PrepareInv => StreamsKept /\ NoStaleSnapshot
  <1> SUFFICES ASSUME PrepareInv PROVE StreamsKept /\ NoStaleSnapshot
    OBVIOUS
  <1>1. StreamsKept
    BY OnePlace DEF PrepareInv, StreamsKept, CreditsHold, StreamsConserved
  <1>2. ASSUME NEW p \in Readers, stream[p] # None, p = who => todo = <<>>, fault = "none"
        PROVE  stream[p] = desired[p] /\ started[p] /\ ~finished[p]
    <2>1. Credit(p) /\ Wanted(p)
      BY <1>2 DEF PrepareInv, Core
    <2>2. View(p).stream = stream[p] /\ View(p).desired = desired[p]
      BY DEF View
    <2>3. stream[p] = desired[p]
      BY Zenon, <1>2, <2>1, <2>2 DEF Credit, Sound
    <2> QED BY <1>2, <2>1, <2>3 DEF Wanted
  <1> QED BY <1>1, <1>2 DEF NoStaleSnapshot

\* However control and audio interleave, for any number of readers, recipes and
\* attempts: no asserted push of a request or a completion fails, and every
\* stream that was prepared and not destroyed is in exactly one place.
THEOREM StreamsSafe == PrepareSpec => []StreamsKept
  <1>1. PrepareInv => StreamsKept
    BY InvariantSuffices
  <1> QED BY InitSound, StepSound, <1>1, PTL DEF PrepareSpec

\* A reader that holds a stream between calls holds that of the attempt its item
\* is playing, whatever completions arrive late.
THEOREM SnapshotsFresh == PrepareSpec => []NoStaleSnapshot
  <1>1. PrepareInv => NoStaleSnapshot
    BY InvariantSuffices
  <1> QED BY InitSound, StepSound, <1>1, PTL DEF PrepareSpec
=============================================================================
