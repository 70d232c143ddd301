------------------------- MODULE MessageReaderProofs -------------------------
(***************************************************************************)
(* Prepared streams are neither lost nor shared: the invariant of the      *)
(* preparation protocol, for any number of readers, requests and captures, *)
(* and the steps of the callbacks, which each touch one reader.  Where a   *)
(* stream may be is told by the rings and the reader together (View), so   *)
(* that a move between them is one change of a view.                       *)
(***************************************************************************)
EXTENDS MessagePreparation, TLAPS

\* The provers, and the times, for a leaf that names none.
USE ZenonT(2), SMTT(10), ZenonT(20), SMTT(30), ZenonT(60)

\* Reader v (see View) mentions attempt a.
Mentions(v, a) ==
  \/ v.desired = a \/ v.stream = a \/ v.requests = <<a>> \/ v.retired = <<a>>
  \/ \E ok \in BOOLEAN : v.ready = <<[attempt |-> a, ok |-> ok]>>

\* Reader v, or one of its rings, holds the stream prepared for attempt a.
Holds(v, a) ==
  \/ v.stream = a \/ v.retired = <<a>> \/ v.ready = <<[attempt |-> a, ok |-> TRUE]>>

Views == [desired : Tries \cup {None}, outstanding : BOOLEAN, failed : BOOLEAN,
          stream : Tries \cup {None}, requests : Slot(Tries), ready : Slot(Ready),
          retired : Slot(Tries), fault : {"none"}]

\* A reader whose control port waits for attempt w has at most one request under
\* way, in one place; its stream is the one it desires, and then nothing is under
\* way; what it has retired it mentions nowhere else.
Sound(v, w) ==
  /\ v.requests # <<>> => v.ready = <<>> /\ w = None
  /\ v.ready # <<>> => w = None
  /\ v.stream # None => v.stream = v.desired /\ v.requests = <<>> /\ v.ready = <<>> /\ w = None
  /\ \A a \in Tries : v.retired = <<a>> =>
       /\ v.desired # a /\ w # a /\ v.requests # <<a>>
       /\ \A ok \in BOOLEAN : v.ready # <<[attempt |-> a, ok |-> ok]>>

\* The credit of a reader: outstanding tells that a request is under way.
Owed(v, w) == v.outstanding <=> (v.requests # <<>> \/ v.ready # <<>> \/ w # None)

Typed ==
  /\ sequence \in 0 .. MaxSequence
  /\ waiting \in [Readers -> Tries \cup {None}]
  /\ requests \in [Readers -> Slot(Tries)]
  /\ ready \in [Readers -> Slot(Ready)]
  /\ retired \in [Readers -> Slot(Tries)]
  /\ desired \in [Readers -> Tries \cup {None}]
  /\ awaited \in [Readers -> BOOLEAN]
  /\ failed \in [Readers -> BOOLEAN]
  /\ stream \in [Readers -> Tries \cup {None}]
  /\ alive \in [Readers -> BOOLEAN]
  /\ started \in [Readers -> BOOLEAN]
  /\ finished \in [Readers -> BOOLEAN]
  /\ holder \in [Readers -> {"unregistered", "audio", "returned", "dropped"}]
  /\ todo \in Seq(AudioSteps)
  /\ who \in Readers
  /\ live \subseteq Tries

Credit(p) ==
  /\ Sound(View(p), waiting[p])
  /\ holder[p] # "dropped" => Owed(View(p), waiting[p])
  /\ holder[p] = "unregistered" => ~awaited[p]
  /\ holder[p] \in {"audio", "returned"} => alive[p]

\* A reader desires an attempt only while its item plays, or until the cancel
\* that the call in progress begins with.
Wanted(p) ==
  desired[p] # None =>
    \/ started[p] /\ ~finished[p]
    \/ p = who /\ todo # <<>> /\ Head(todo) = "cancel"

Named(p, a) == waiting[p] = a \/ Mentions(View(p), a)

\* Attempt numbers are never reused, and each belongs to one reader.
Distinct ==
  \A p \in Readers, a \in Tries : Named(p, a) =>
     /\ a <= sequence
     /\ \A q \in Readers : Named(q, a) => p = q

LiveOK == \A a \in Tries : a \in live <=> \E p \in Readers : Holds(View(p), a)

\* An attempt begins right after a cancel, in a call of audio on a started item.
CallOK ==
  /\ todo # <<>> => holder[who] = "audio"
  /\ \A i \in 1 .. Len(todo) : todo[i] = "begin" =>
       /\ started[who] /\ ~finished[who]
       /\ IF i = 1 THEN desired[who] = None ELSE todo[i - 1] = "cancel"

PortsOK ==
  /\ ports \in Seq(Readers)
  /\ next \in Nat /\ scan \in Nat
  /\ pump \in {"drain", "pop"} => next < Len(ports) \/ Len(ports) = 0

Core ==
  /\ Typed /\ Distinct /\ LiveOK /\ CallOK /\ PortsOK
  /\ \A p \in Readers : Credit(p) /\ Wanted(p)

\* The inductive invariant.  A failed assertion ends the program, and only that
\* of the retired ring can fail.
PrepareInv ==
  /\ fault \in {"none", "retired"}
  /\ fault = "none" => Core

LEMMA NoneIsNoTry == None \notin Tries
  BY SequenceNatural DEF None, Tries

LEMMA ConsumeResult ==
  ASSUME NEW v \in Views, NEW got \in Ready, v.ready = <<got>>
  PROVE  /\ got.ok /\ got.attempt = v.desired =>
              Consume(v) = [v EXCEPT !.ready = <<>>, !.outstanding = FALSE,
                                     !.stream = got.attempt]
         /\ got.ok /\ got.attempt # v.desired /\ v.retired = <<>> =>
              Consume(v) = [v EXCEPT !.ready = <<>>, !.outstanding = FALSE,
                                     !.retired = <<got.attempt>>]
         /\ got.ok /\ got.attempt # v.desired /\ v.retired # <<>> =>
              Consume(v).fault = "retired"
         /\ ~ got.ok =>
              Consume(v) = [v EXCEPT !.ready = <<>>, !.outstanding = FALSE,
                                     !.failed = v.failed \/ got.attempt = v.desired]
  <1>1. v.ready # <<>> /\ Head(v.ready) = got
    OBVIOUS
  <1>2. CASE got.ok /\ got.attempt = v.desired
    BY Zenon, <1>1, <1>2 DEF Consume, Views
  <1>3. CASE got.ok /\ got.attempt # v.desired /\ v.retired = <<>>
    BY Zenon, <1>1, <1>3 DEF Consume, Views, Push
  <1>4. CASE got.ok /\ got.attempt # v.desired /\ v.retired # <<>>
    BY <1>1, <1>4 DEF Consume, Views, Push
  <1>5. CASE ~ got.ok
    BY <1>1, <1>5 DEF Consume, Views
  <1> QED BY <1>2, <1>3, <1>4, <1>5 DEF Ready

\* What a poll may do to a reader: it mentions no new attempt, and it holds the
\* streams it held.
Follows(v, u, w) ==
  /\ u \in Views
  /\ Sound(u, w)
  /\ Owed(u, w)
  /\ u.desired = v.desired
  /\ \A a \in Tries : (Mentions(u, a) => Mentions(v, a)) /\ (Holds(u, a) <=> Holds(v, a))

LEMMA ConsumeFollows ==
  ASSUME NEW v \in Views, NEW w \in Tries \cup {None}, Sound(v, w), Owed(v, w)
  PROVE  /\ Consume(v).fault \in {"none", "retired"}
         /\ Consume(v).fault = "none" => Follows(v, Consume(v), w)
  <1>1. CASE v.ready = <<>>
    BY <1>1 DEF Consume, Views, Follows
  <1>2. CASE v.ready # <<>>
    <2>1. PICK got \in Ready : v.ready = <<got>>
      BY <1>2 DEF Views, Slot
    <2>2. /\ got.ok \in BOOLEAN /\ got.attempt \in Tries /\ got.attempt # None
          /\ got = [attempt |-> got.attempt, ok |-> got.ok]
      BY DEF Ready, Tries, None
    <2>3. w = None /\ v.requests = <<>> /\ v.stream = None /\ v.outstanding
      BY <2>1 DEF Sound, Owed
    <2>4. \A a \in Tries : v.retired = <<a>> => v.desired # a /\ got.attempt # a
      BY <2>1, <2>2 DEF Sound
    <2>5. CASE got.ok /\ got.attempt = v.desired
      <3> DEFINE u == [v EXCEPT !.ready = <<>>, !.outstanding = FALSE, !.stream = got.attempt]
      <3>1. Consume(v) = u
        BY Zenon, <2>1, <2>5, ConsumeResult
      <3>2. /\ u.ready = <<>> /\ u.outstanding = FALSE /\ u.stream = got.attempt
            /\ u.desired = v.desired /\ u.requests = <<>> /\ u.retired = v.retired
            /\ u.fault = "none" /\ u \in Views
        BY Zenon, <2>2, <2>3 DEF Views, Slot
      <3> HIDE DEF u
      <3>3. Sound(u, w) /\ Owed(u, w)
        BY <2>3, <2>4, <2>5, <3>2 DEF Sound, Owed
      <3>4. ASSUME NEW a \in Tries
            PROVE  (Mentions(u, a) => Mentions(v, a)) /\ (Holds(u, a) <=> Holds(v, a))
        BY <2>1, <2>2, <2>3, <2>5, <3>2, <3>4 DEF Mentions, Holds, Tries, None
      <3> QED BY <3>1, <3>2, <3>3, <3>4 DEF Follows
    <2>6. CASE got.ok /\ got.attempt # v.desired /\ v.retired = <<>>
      <3> DEFINE u == [v EXCEPT !.ready = <<>>, !.outstanding = FALSE,
                                !.retired = <<got.attempt>>]
      <3>1. Consume(v) = u
        BY Zenon, <2>1, <2>6, ConsumeResult
      <3>2. /\ u.ready = <<>> /\ u.outstanding = FALSE /\ u.stream = None
            /\ u.desired = v.desired /\ u.requests = <<>> /\ u.retired = <<got.attempt>>
            /\ u.fault = "none" /\ u \in Views
        BY Zenon, <2>2, <2>3 DEF Views, Slot
      <3> HIDE DEF u
      <3>3. Sound(u, w) /\ Owed(u, w)
        BY <2>2, <2>3, <2>6, <3>2 DEF Sound, Owed
      <3>4. ASSUME NEW a \in Tries
            PROVE  (Mentions(u, a) => Mentions(v, a)) /\ (Holds(u, a) <=> Holds(v, a))
        <4>1. got = [attempt |-> got.attempt, ok |-> TRUE] /\ a # None
          BY <2>2, <2>6 DEF Tries, None
        <4>2. Mentions(u, a) <=> v.desired = a \/ got.attempt = a
          BY <3>2, <4>1 DEF Mentions
        <4>3. Holds(u, a) <=> got.attempt = a
          BY <3>2, <4>1 DEF Holds
        <4>4. v.ready = <<[attempt |-> a, ok |-> TRUE]>> <=> got.attempt = a
          BY <2>1, <4>1
        <4>5. got.attempt = a => Mentions(v, a)
          BY Zenon, <4>4 DEF Mentions
        <4>6. Holds(v, a) <=> got.attempt = a
          BY <2>3, <2>6, <4>1, <4>4 DEF Holds
        <4> QED BY <4>2, <4>3, <4>5, <4>6 DEF Mentions
      <3> QED BY <3>1, <3>2, <3>3, <3>4 DEF Follows
    <2>7. CASE got.ok /\ got.attempt # v.desired /\ v.retired # <<>>
      BY Zenon, <2>1, <2>7, ConsumeResult
    <2>8. CASE ~ got.ok
      <3> DEFINE u == [v EXCEPT !.ready = <<>>, !.outstanding = FALSE,
                                !.failed = v.failed \/ got.attempt = v.desired]
      <3>1. Consume(v) = u
        BY Zenon, <2>1, <2>8, ConsumeResult
      <3>2. /\ u.ready = <<>> /\ u.outstanding = FALSE /\ u.stream = None
            /\ u.desired = v.desired /\ u.requests = <<>> /\ u.retired = v.retired
            /\ u.fault = "none" /\ u \in Views
        BY Zenon, <2>2, <2>3 DEF Views, Slot
      <3> HIDE DEF u
      <3>3. Sound(u, w) /\ Owed(u, w)
        BY <2>3, <2>4, <3>2 DEF Sound, Owed
      <3>4. ASSUME NEW a \in Tries
            PROVE  (Mentions(u, a) => Mentions(v, a)) /\ (Holds(u, a) <=> Holds(v, a))
        BY <2>1, <2>2, <2>3, <2>8, <3>2, <3>4 DEF Mentions, Holds, Tries, None
      <3> QED BY <3>1, <3>2, <3>3, <3>4 DEF Follows
    <2> QED BY <2>2, <2>5, <2>6, <2>7, <2>8
  <1> QED BY <1>1, <1>2

LEMMA AskFollows ==
  ASSUME NEW v \in Views, NEW w \in Tries \cup {None}, Sound(v, w), Owed(v, w)
  PROVE  Ask(v).fault = "none" /\ Follows(v, Ask(v), w)
  <1>1. CASE v.desired # None /\ ~v.failed /\ ~v.outstanding /\ v.stream = None
    <2> DEFINE u == [v EXCEPT !.requests = <<v.desired>>, !.outstanding = TRUE]
    <2>1. v.requests = <<>> /\ v.ready = <<>> /\ w = None /\ v.desired \in Tries
      BY <1>1 DEF Owed, Views
    <2>2. Ask(v) = u
      BY Zenon, <1>1, <2>1 DEF Ask, Push, Views
    <2>3. /\ u.ready = <<>> /\ u.outstanding = TRUE /\ u.stream = None
          /\ u.desired = v.desired /\ u.requests = <<v.desired>> /\ u.retired = v.retired
          /\ u.fault = "none" /\ u \in Views
      BY Zenon, <1>1, <2>1 DEF Views, Slot
    <2> HIDE DEF u
    <2>4. Sound(u, w) /\ Owed(u, w)
      BY <2>1, <2>3 DEF Sound, Owed
    <2>5. ASSUME NEW a \in Tries
          PROVE  (Mentions(u, a) => Mentions(v, a)) /\ (Holds(u, a) <=> Holds(v, a))
      BY <1>1, <2>1, <2>3 DEF Mentions, Holds
    <2> QED BY <2>2, <2>3, <2>4, <2>5 DEF Follows
  <1>2. CASE ~ (v.desired # None /\ ~v.failed /\ ~v.outstanding /\ v.stream = None)
    BY <1>2 DEF Ask, Views, Follows
  <1> QED BY <1>1, <1>2

LEMMA PollFollows ==
  ASSUME NEW v \in Views, NEW w \in Tries \cup {None}, Sound(v, w), Owed(v, w)
  PROVE  /\ Poll(v).fault \in {"none", "retired"}
         /\ Poll(v).fault = "none" => Follows(v, Poll(v), w)
  <1>1. CASE Consume(v).fault = "none"
    <2> DEFINE c == Consume(v)
    <2>1. Follows(v, c, w)
      BY <1>1, ConsumeFollows
    <2>2. Ask(c).fault = "none" /\ Follows(c, Ask(c), w)
      BY <2>1, AskFollows DEF Follows
    <2>3. Poll(v) = Ask(c)
      BY <1>1 DEF Poll
    <2>4. Follows(v, Ask(c), w)
      BY <2>1, <2>2 DEF Follows
    <2> QED BY <2>2, <2>3, <2>4
  <1>2. CASE Consume(v).fault # "none"
    BY <1>2, ConsumeFollows DEF Poll
  <1> QED BY <1>1, <1>2

LEMMA RetireFollows ==
  ASSUME NEW v \in Views, NEW w \in Tries \cup {None}, Sound(v, w), Owed(v, w)
  PROVE  LET u == Retire(v)
         IN  /\ u.fault \in {"none", "retired"}
             /\ u.fault = "none" =>
                  /\ u \in Views /\ Sound(u, w) /\ Owed(u, w)
                  /\ u.desired = None
                  /\ \A a \in Tries : /\ Mentions(u, a) => Mentions(v, a)
                                      /\ Holds(u, a) <=> Holds(v, a)
  <1> DEFINE left == [v EXCEPT !.desired = None, !.stream = None]
  <1>1. /\ left.desired = None /\ left.stream = None /\ left.outstanding = v.outstanding
        /\ left.requests = v.requests /\ left.ready = v.ready /\ left.retired = v.retired
        /\ left.fault = "none" /\ left \in Views
    BY Zenon DEF Views
  <1>2. CASE v.stream = None
    <2>1. Retire(v) = left
      BY <1>2 DEF Retire
    <2> HIDE DEF left
    <2>2. Sound(left, w) /\ Owed(left, w)
      BY <1>1, NoneIsNoTry DEF Sound, Owed
    <2>3. \A a \in Tries : /\ Mentions(left, a) => Mentions(v, a)
                           /\ Holds(left, a) <=> Holds(v, a)
      BY Zenon, <1>1, <1>2, NoneIsNoTry DEF Mentions, Holds
    <2> QED BY <1>1, <2>1, <2>2, <2>3
  <1>3. CASE v.stream # None /\ v.retired = <<>>
    <2> DEFINE u == [v EXCEPT !.desired = None, !.stream = None, !.retired = <<v.stream>>]
    <2>1. Retire(v) = u
      BY Zenon, <1>1, <1>3 DEF Retire, Push, Views
    <2>2. /\ u.desired = None /\ u.stream = None /\ u.outstanding = v.outstanding
          /\ u.requests = v.requests /\ u.ready = v.ready /\ u.retired = <<v.stream>>
          /\ u.fault = "none" /\ u \in Views
      BY Zenon, <1>3 DEF Views, Slot
    <2> HIDE DEF u
    <2>3. v.requests = <<>> /\ v.ready = <<>> /\ w = None /\ v.stream \in Tries
      BY <1>3 DEF Sound, Views
    <2>4. Sound(u, w) /\ Owed(u, w)
      BY <2>2, <2>3, NoneIsNoTry DEF Sound, Owed
    <2>5. \A a \in Tries : /\ Mentions(u, a) => Mentions(v, a)
                           /\ Holds(u, a) <=> Holds(v, a)
      BY <1>3, <2>2, <2>3, NoneIsNoTry DEF Mentions, Holds
    <2> QED BY <2>1, <2>2, <2>4, <2>5
  <1>4. CASE v.stream # None /\ v.retired # <<>>
    BY <1>1, <1>4 DEF Retire, Push, Views
  <1> QED BY <1>2, <1>3, <1>4

LEMMA CancelFollows ==
  ASSUME NEW v \in Views, NEW w \in Tries \cup {None}, Sound(v, w), Owed(v, w)
  PROVE  LET u == CancelReader(v)
         IN  /\ u.fault \in {"none", "retired"}
             /\ u.fault = "none" =>
                  /\ u \in Views /\ Sound(u, w) /\ Owed(u, w)
                  /\ u.desired = None
                  /\ \A a \in Tries : /\ Mentions(u, a) => Mentions(v, a)
                                      /\ Holds(u, a) <=> Holds(v, a)
  <1> DEFINE r == Retire(v)
  <1>1. CASE r.fault = "none"
    <2>1. /\ r \in Views /\ Sound(r, w) /\ Owed(r, w)
          /\ r.desired = None
          /\ \A a \in Tries : /\ Mentions(r, a) => Mentions(v, a)
                              /\ Holds(r, a) <=> Holds(v, a)
      BY <1>1, RetireFollows
    <2>2. CancelReader(v) = Poll(r)
      BY <1>1 DEF CancelReader
    <2> HIDE DEF r
    <2>3. /\ Poll(r).fault \in {"none", "retired"}
          /\ Poll(r).fault = "none" => Follows(r, Poll(r), w)
      BY <2>1, PollFollows
    <2> QED BY <2>1, <2>2, <2>3 DEF Follows
  <1>2. CASE r.fault # "none"
    BY <1>2, RetireFollows DEF CancelReader
  <1> QED BY <1>1, <1>2

LEMMA BeginFollows ==
  ASSUME NEW v \in Views, NEW w \in Tries \cup {None}, Sound(v, w), Owed(v, w),
         v.desired = None, sequence \in 0 .. MaxSequence,
         \A a \in Tries : Mentions(v, a) => a <= sequence
  PROVE  LET u == BeginReader(v)
         IN  /\ u.fault \in {"none", "retired"}
             /\ u.fault = "none" =>
                  /\ u \in Views /\ Sound(u, w) /\ Owed(u, w)
                  /\ u.desired \in {None, sequence + 1}
                  /\ sequence = MaxSequence => u.desired = None
                  /\ \A a \in Tries :
                       /\ Mentions(u, a) => Mentions(v, a) \/ a = u.desired
                       /\ Holds(u, a) <=> Holds(v, a)
  <1> DEFINE new == IF sequence = MaxSequence THEN None ELSE sequence + 1
             r == [v EXCEPT !.failed = sequence = MaxSequence, !.desired = new]
  <1>1. new \in Tries \cup {None} /\ (new = None \/ ~ Mentions(v, new))
    BY SequenceNatural DEF Tries, None
  <1>2. (sequence = MaxSequence) \in BOOLEAN
    OBVIOUS
  <1>3. new \in {None, sequence + 1} /\ (sequence = MaxSequence => new = None)
    OBVIOUS
  <1>4. BeginReader(v) = Poll(r)
    BY DEF BeginReader
  <1> HIDE DEF new
  <1>5. /\ r.desired = new /\ r.stream = v.stream /\ r.outstanding = v.outstanding
        /\ r.requests = v.requests /\ r.ready = v.ready /\ r.retired = v.retired
        /\ r \in Views
    BY Zenon, <1>1, <1>2 DEF Views
  <1> HIDE DEF r
  <1>6. v.stream = None
    BY DEF Sound
  <1>7. \A a \in Tries : v.retired = <<a>> => a # new
    BY <1>1, NoneIsNoTry DEF Mentions
  <1>8. Sound(r, w) /\ Owed(r, w)
    BY <1>5, <1>6, <1>7 DEF Sound, Owed
  <1>9. \A a \in Tries : /\ Mentions(r, a) => Mentions(v, a) \/ a = new
                         /\ Holds(r, a) <=> Holds(v, a)
    BY Zenon, <1>5 DEF Mentions, Holds
  <1>10. /\ Poll(r).fault \in {"none", "retired"}
         /\ Poll(r).fault = "none" => Follows(r, Poll(r), w)
    BY <1>5, <1>8, PollFollows
  <1> QED BY <1>3, <1>4, <1>5, <1>9, <1>10 DEF Follows

LEMMA ViewTyped ==
  ASSUME Typed
  PROVE  \A p \in Readers : View(p) \in Views
  BY DEF Typed, View, Views

\* Nothing of any reader or its rings changes.
SameReaders == UNCHANGED <<requests, ready, retired, desired, awaited, failed, stream>>

LEMMA SameViews ==
  ASSUME SameReaders
  PROVE  \A p \in Readers : View(p)' = View(p)
  BY DEF SameReaders, View

LEMMA BecomesView ==
  ASSUME Typed, NEW p \in Readers, NEW v \in Views, Becomes(p, v)
  PROVE  /\ \A q \in Readers : View(q)' = IF q = p THEN v ELSE View(q)
         /\ requests' \in [Readers -> Slot(Tries)]
         /\ ready' \in [Readers -> Slot(Ready)]
         /\ retired' \in [Readers -> Slot(Tries)]
         /\ desired' \in [Readers -> Tries \cup {None}]
         /\ awaited' \in [Readers -> BOOLEAN]
         /\ failed' \in [Readers -> BOOLEAN]
         /\ stream' \in [Readers -> Tries \cup {None}]
  <1>1. /\ requests' \in [Readers -> Slot(Tries)]
        /\ ready' \in [Readers -> Slot(Ready)]
        /\ retired' \in [Readers -> Slot(Tries)]
        /\ desired' \in [Readers -> Tries \cup {None}]
    BY DEF Typed, Views, Becomes
  <1>2. /\ awaited' \in [Readers -> BOOLEAN]
        /\ failed' \in [Readers -> BOOLEAN]
        /\ stream' \in [Readers -> Tries \cup {None}]
    BY DEF Typed, Views, Becomes
  <1>3. ASSUME NEW q \in Readers, q # p
        PROVE  View(q)' = View(q)
    BY <1>3 DEF Typed, Becomes, View
  <1>4. View(p)' = v
    <2>1. View(p)' = [desired |-> v.desired, outstanding |-> v.outstanding,
                      failed |-> v.failed, stream |-> v.stream, requests |-> v.requests,
                      ready |-> v.ready, retired |-> v.retired, fault |-> "none"]
      BY DEF Typed, Becomes, View
    <2> QED BY <2>1 DEF Views
  <1> QED BY <1>1, <1>2, <1>3, <1>4

\* A step that gives reader p the view u, and lets it mention at most one attempt
\* that is new, keeps attempts apart and streams accounted for.
LEMMA OneReader ==
  ASSUME Typed, Distinct, LiveOK, NEW p \in Readers, NEW u,
         \A q \in Readers : View(q)' = IF q = p THEN u ELSE View(q),
         waiting' = waiting, live' = live, sequence' \in Nat, sequence <= sequence',
         \A a \in Tries :
           /\ Mentions(u, a) => Mentions(View(p), a) \/ (sequence < a /\ a <= sequence')
           /\ Holds(u, a) <=> Holds(View(p), a)
  PROVE  Distinct' /\ LiveOK'
  <1>1. \A q \in Readers, a \in Tries :
          Named(q, a)' <=> waiting[q] = a \/ Mentions(IF q = p THEN u ELSE View(q), a)
    BY DEF Named
  <1>2. \A q \in Readers, a \in Tries :
          Named(q, a)' => Named(q, a) \/ (q = p /\ sequence < a /\ a <= sequence')
    BY <1>1 DEF Named
  <1>3. \A a \in Tries : a \in Nat
    BY SequenceNatural DEF Tries
  <1>4. Distinct'
    BY <1>2, <1>3 DEF Distinct, Typed
  <1>5. \A q \in Readers, a \in Tries : Holds(View(q)', a) <=> Holds(View(q), a)
    OBVIOUS
  <1>6. LiveOK'
    BY <1>5 DEF LiveOK
  <1> QED BY <1>4, <1>6

LEMMA SameReadersKept ==
  ASSUME Typed, Distinct, LiveOK, SameReaders, UNCHANGED <<waiting, live, sequence>>
  PROVE  Distinct' /\ LiveOK'
  <1>1. \A q \in Readers : View(q)' = View(q)
    BY SameViews
  <1>2. \A q \in Readers, a \in Tries : Named(q, a)' <=> Named(q, a)
    BY <1>1 DEF Named
  <1>3. Distinct'
    BY <1>2 DEF Distinct
  <1>4. LiveOK'
    BY <1>1 DEF LiveOK
  <1> QED BY <1>3, <1>4

-----------------------------------------------------------------------------
(***************************************************************************)
(* The calls of the audio thread.                                          *)
(***************************************************************************)

LEMMA CreditKept ==
  ASSUME NEW p \in Readers, Credit(p), View(p)' = View(p), waiting'[p] = waiting[p],
         holder'[p] = holder[p], alive'[p] = alive[p], awaited'[p] = awaited[p]
  PROVE  Credit(p)'
  BY DEF Credit

\* A call leaves the readers alone: it only plans what its steps will do.
LEMMA CallKept ==
  ASSUME Core, SameReaders, UNCHANGED <<sequence, registry, alive, holder, live>>,
         todo' \in Seq(AudioSteps), who' \in Readers,
         started' \in [Readers -> BOOLEAN], finished' \in [Readers -> BOOLEAN],
         CallOK', \A p \in Readers : Wanted(p)'
  PROVE  Core'
  <1>1. Typed /\ Distinct /\ LiveOK /\ PortsOK /\ \A p \in Readers : Credit(p)
    BY DEF Core
  <1>2. UNCHANGED <<waiting, ports, next, pump, scan>>
    BY DEF registry
  <1>3. Distinct' /\ LiveOK'
    BY <1>1, <1>2, SameReadersKept
  <1>4. Typed'
    BY <1>1, <1>2, Zenon DEF Typed, SameReaders
  <1>5. PortsOK'
    BY <1>1, <1>2 DEF PortsOK
  <1>6. ASSUME NEW p \in Readers PROVE Credit(p)'
    <2>1. View(p)' = View(p) /\ awaited'[p] = awaited[p]
      BY SameViews DEF SameReaders
    <2> QED BY <1>1, <1>2, <2>1, CreditKept
  <1> QED BY <1>3, <1>4, <1>5, <1>6 DEF Core

\* Between calls, what a reader desires its item is playing.
LEMMA Idle ==
  ASSUME Core, todo = <<>>
  PROVE  \A p \in Readers : desired[p] # None => started[p] /\ ~finished[p]
  BY DEF Core, Wanted

LEMMA PlannedSteps ==
  ASSUME NEW s1 \in {<<>>, StartSteps}, NEW s2 \in {<<>>, <<"select">>},
         NEW s3 \in {<<>>, <<"read">>}
  PROVE  LET t == s1 \o s2 \o s3
         IN  /\ t \in Seq(AudioSteps)
             /\ \A i \in 1 .. Len(t) : t[i] = "begin" => i = 2 /\ t[1] = "cancel" /\ s1 = StartSteps
  <1>1. CASE s1 = <<>> /\ s2 = <<>> /\ s3 = <<>>
    BY <1>1 DEF AudioSteps
  <1>2. CASE s1 = <<>> /\ s2 = <<"select">> /\ s3 = <<>>
    BY <1>2 DEF AudioSteps
  <1>3. CASE s1 = <<>> /\ s2 = <<>> /\ s3 = <<"read">>
    BY <1>3 DEF AudioSteps
  <1>4. CASE s1 = <<>> /\ s2 = <<"select">> /\ s3 = <<"read">>
    BY <1>4 DEF AudioSteps
  <1>5. CASE s1 = StartSteps /\ s2 = <<>> /\ s3 = <<>>
    BY <1>5 DEF AudioSteps, StartSteps
  <1>6. CASE s1 = StartSteps /\ s2 = <<"select">> /\ s3 = <<>>
    BY <1>6 DEF AudioSteps, StartSteps
  <1>7. CASE s1 = StartSteps /\ s2 = <<>> /\ s3 = <<"read">>
    BY <1>7 DEF AudioSteps, StartSteps
  <1>8. CASE s1 = StartSteps /\ s2 = <<"select">> /\ s3 = <<"read">>
    BY <1>8 DEF AudioSteps, StartSteps
  <1> QED BY <1>1, <1>2, <1>3, <1>4, <1>5, <1>6, <1>7, <1>8

LEMMA RenderStep ==
  ASSUME Core, NEW p \in Readers, NEW receiving \in BOOLEAN, NEW room \in BOOLEAN,
         Render(p, receiving, room)
  PROVE  Core'
  <1> DEFINE starts == ~started[p] /\ (receiving \/ room)
             latch == IF receiving /\ morse[p] = "off" THEN "pending" ELSE morse[p]
             s1 == IF starts THEN StartSteps ELSE <<>>
             s2 == IF latch = "pending" THEN <<"select">> ELSE <<>>
             s3 == IF room THEN <<"read">> ELSE <<>>
  <1>1. /\ todo = <<>> /\ holder[p] = "audio" /\ ~finished[p] /\ who' = p
        /\ todo' = s1 \o s2 \o s3
        /\ started' = [started EXCEPT ![p] = @ \/ receiving \/ room]
        /\ SameReaders
        /\ UNCHANGED <<sequence, registry, alive, finished, holder, live>>
    BY DEF Render, Calls, SameReaders, reader, rings
  <1>2. Typed /\ \A q \in Readers : desired[q] # None => started[q] /\ ~finished[q]
    BY <1>1, Idle DEF Core
  <1>3. s1 \in {<<>>, StartSteps} /\ s2 \in {<<>>, <<"select">>} /\ s3 \in {<<>>, <<"read">>}
    OBVIOUS
  <1>4. s1 = StartSteps => starts
    BY DEF StartSteps
  <1> HIDE DEF s1, s2, s3
  <1>5. /\ todo' \in Seq(AudioSteps)
        /\ \A i \in 1 .. Len(todo') :
             todo'[i] = "begin" => i = 2 /\ todo'[1] = "cancel" /\ s1 = StartSteps
    BY ZenonT(60), <1>1, <1>3, PlannedSteps
  <1>6. /\ started' \in [Readers -> BOOLEAN]
        /\ \A q \in Readers : started[q] => started'[q]
        /\ starts => started'[p]
    BY <1>1, <1>2 DEF Typed
  <1>7. CallOK'
    <2>1. ASSUME NEW i \in 1 .. Len(todo'), todo'[i] = "begin"
          PROVE  i # 1 /\ todo'[i - 1] = "cancel" /\ started'[p] /\ ~finished'[p]
      <3>1. i = 2 /\ todo'[1] = "cancel" /\ s1 = StartSteps
        BY <1>5, <2>1
      <3>2. starts
        BY <1>4, <3>1
      <3> HIDE DEF starts
      <3> QED BY <1>1, <1>6, <3>1, <3>2
    <2>2. holder'[who'] = "audio"
      BY <1>1
    <2> QED BY <1>1, <2>1, <2>2 DEF CallOK
  <1>8. UNCHANGED <<desired, finished>>
    BY <1>1 DEF SameReaders
  <1>9. \A q \in Readers : Wanted(q)'
    BY <1>2, <1>6, <1>8 DEF Wanted
  <1>10. finished' \in [Readers -> BOOLEAN]
    BY <1>2, <1>8 DEF Typed
  <1> QED BY <1>1, <1>5, <1>6, <1>7, <1>9, <1>10, CallKept

LEMMA RestartStep ==
  ASSUME Core, NEW p \in Readers, NEW receiving \in BOOLEAN, Restart(p, receiving)
  PROVE  Core'
  <1>1. /\ todo = <<>> /\ holder[p] = "audio" /\ (finished[p] \/ ~started[p]) /\ who' = p
        /\ todo' = IF receiving THEN StartSteps \o <<"select">> ELSE <<>>
        /\ started' = [started EXCEPT ![p] = receiving]
        /\ finished' = [finished EXCEPT ![p] = FALSE]
        /\ SameReaders
        /\ UNCHANGED <<sequence, registry, alive, holder, live>>
    BY DEF Restart, Calls, SameReaders, reader, rings
  <1>2. Typed /\ \A q \in Readers : desired[q] # None => started[q] /\ ~finished[q]
    BY <1>1, Idle DEF Core
  <1>3. /\ todo' \in Seq(AudioSteps)
        /\ \A i \in 1 .. Len(todo') :
             todo'[i] = "begin" => i = 2 /\ todo'[1] = "cancel" /\ receiving
    <2>1. CASE receiving
      <3> DEFINE t == StartSteps \o <<"select">>
      <3>1. /\ t \in Seq(AudioSteps)
            /\ \A i \in 1 .. Len(t) : t[i] = "begin" => i = 2 /\ t[1] = "cancel"
        BY DEF StartSteps, AudioSteps
      <3>2. todo' = t
        BY <1>1, <2>1
      <3> HIDE DEF t
      <3> QED BY <2>1, <3>1, <3>2
    <2>2. CASE ~receiving
      BY <1>1, <2>2 DEF AudioSteps
    <2> QED BY <2>1, <2>2
  <1>4. /\ started' \in [Readers -> BOOLEAN] /\ finished' \in [Readers -> BOOLEAN]
        /\ started'[p] = receiving /\ ~finished'[p]
        /\ \A q \in Readers : q # p => started'[q] = started[q] /\ finished'[q] = finished[q]
    BY <1>1, <1>2 DEF Typed
  <1>5. desired[p] = None
    BY <1>1, <1>2
  <1>6. CallOK'
    BY <1>1, <1>3, <1>4 DEF CallOK
  <1>7. \A q \in Readers : Wanted(q)'
    BY <1>1, <1>2, <1>4, <1>5 DEF Wanted, SameReaders
  <1> QED BY <1>1, <1>3, <1>4, <1>6, <1>7, CallKept

\* The calls that only plan a cancel of p: it may stop playing at once.
LEMMA PlanCancel ==
  ASSUME Core, NEW p \in Readers, Calls(p), who' = p, todo' = <<"cancel">>, SameReaders,
         started' \in [Readers -> BOOLEAN], finished' \in [Readers -> BOOLEAN],
         \A q \in Readers : q # p => started'[q] = started[q] /\ finished'[q] = finished[q],
         UNCHANGED <<sequence, registry, alive, holder, live>>
  PROVE  Core'
  <1>1. \A q \in Readers : desired[q] # None => started[q] /\ ~finished[q]
    BY Idle DEF Calls
  <1>2. todo' \in Seq(AudioSteps) /\ Len(todo') = 1 /\ todo'[1] = "cancel" /\ Head(todo') = "cancel"
    BY DEF AudioSteps
  <1>3. CallOK'
    BY <1>2 DEF CallOK, Calls
  <1>4. \A q \in Readers : Wanted(q)'
    BY <1>1, <1>2 DEF Wanted, SameReaders
  <1> QED BY <1>2, <1>3, <1>4, CallKept

LEMMA DeferStep ==
  ASSUME Core, NEW p \in Readers, NEW receiving \in BOOLEAN, Defer(p, receiving)
  PROVE  Core'
  <1>1. /\ Calls(p) /\ who' = p /\ todo' = <<"cancel">> /\ SameReaders
        /\ started' = [started EXCEPT ![p] = FALSE]
        /\ UNCHANGED <<sequence, registry, alive, finished, holder, live>>
    BY Zenon DEF Defer, SameReaders, reader, rings
  <1> QED BY ZenonT(60), <1>1, PlanCancel DEF Core, Typed

LEMMA HoldStep ==
  ASSUME Core, NEW p \in Readers, Hold(p)
  PROVE  Core'
  <1>1. /\ Calls(p) /\ who' = p /\ todo' = <<"cancel">> /\ SameReaders
        /\ started' = [started EXCEPT ![p] = FALSE]
        /\ UNCHANGED <<sequence, registry, alive, finished, holder, live>>
    BY DEF Hold, SameReaders, reader, rings
  <1> QED BY Zenon, <1>1, PlanCancel DEF Core, Typed

LEMMA CancelCall ==
  ASSUME Core, NEW p \in Readers, Cancel(p)
  PROVE  Core'
  <1>1. /\ Calls(p) /\ who' = p /\ todo' = <<"cancel">> /\ SameReaders
        /\ finished' = [finished EXCEPT ![p] = TRUE]
        /\ UNCHANGED <<sequence, registry, alive, started, holder, live>>
    BY DEF Cancel, Finish, SameReaders, reader, rings
  <1> QED BY Zenon, <1>1, PlanCancel DEF Core, Typed

LEMMA RewindStep ==
  ASSUME Core, NEW p \in Readers, NEW q \in Recurring, Rewind(p, q)
  PROVE  Core'
  <1>1. /\ todo = <<>> /\ todo' = <<>> /\ who' = q /\ SameReaders
        /\ started' = [started EXCEPT ![p] = TRUE]
        /\ UNCHANGED <<sequence, registry, alive, finished, holder, live>>
    BY DEF Rewind, Calls, SameReaders, reader, rings
  <1>2. Typed /\ \A r \in Readers : desired[r] # None => started[r] /\ ~finished[r]
    BY <1>1, Idle DEF Core
  <1>3. /\ started' \in [Readers -> BOOLEAN] /\ finished' \in [Readers -> BOOLEAN]
        /\ \A r \in Readers : started[r] => started'[r]
    BY <1>1, <1>2 DEF Typed
  <1>4. CallOK'
    BY <1>1 DEF CallOK
  <1>5. \A r \in Readers : Wanted(r)'
    BY <1>1, <1>2, <1>3 DEF Wanted, SameReaders
  <1>6. who' \in Readers /\ todo' \in Seq(AudioSteps)
    BY <1>1 DEF Readers
  <1> QED BY <1>1, <1>3, <1>4, <1>5, <1>6, CallKept

LEMMA ReturnStep ==
  ASSUME Core, NEW p \in Readers, ReturnReader(p)
  PROVE  Core'
  <1>1. /\ todo = <<>> /\ holder[p] = "audio" /\ SameReaders
        /\ holder' = [holder EXCEPT ![p] = "returned"]
        /\ UNCHANGED <<sequence, ports, next, scan, pump, waiting, alive, started, finished,
                       todo, who, live>>
    BY DEF ReturnReader, Calls, SameReaders, reader, rings, registry, playback, audio
  <1>2. Typed /\ Distinct /\ LiveOK /\ PortsOK /\ \A q \in Readers : Credit(q) /\ Wanted(q)
    BY DEF Core
  <1>3. Distinct' /\ LiveOK'
    BY <1>1, <1>2, SameReadersKept
  <1>4. holder' \in [Readers -> {"unregistered", "audio", "returned", "dropped"}]
    BY <1>1, <1>2 DEF Typed
  <1>5. Typed'
    BY <1>1, <1>2, <1>4, Zenon DEF Typed, SameReaders
  <1>6. PortsOK' /\ CallOK'
    BY <1>1, <1>2 DEF PortsOK, CallOK
  <1>7. ASSUME NEW q \in Readers PROVE Credit(q)' /\ Wanted(q)'
    <2>1. View(q)' = View(q) /\ awaited'[q] = awaited[q]
      BY <1>1, SameViews DEF SameReaders
    <2>2. Wanted(q)'
      BY <1>1, <1>2 DEF Wanted, SameReaders
    <2>3. holder'[q] = holder[q] \/ (holder[q] = "audio" /\ holder'[q] = "returned")
      BY <1>1, <1>2 DEF Typed
    <2>4. Credit(q)'
      BY <1>1, <1>2, <2>1, <2>3 DEF Credit
    <2> QED BY <2>2, <2>4
  <1> QED BY <1>3, <1>5, <1>6, <1>7 DEF Core

-----------------------------------------------------------------------------
(***************************************************************************)
(* The steps of a call.                                                    *)
(***************************************************************************)

LEMMA AtWho ==
  ASSUME Core, todo # <<>>
  PROVE  /\ Typed /\ View(who) \in Views /\ waiting[who] \in Tries \cup {None}
         /\ Sound(View(who), waiting[who]) /\ Owed(View(who), waiting[who])
         /\ holder[who] = "audio"
  <1>1. Typed /\ who \in Readers /\ Credit(who) /\ holder[who] = "audio"
    BY DEF Core, Typed, CallOK
  <1> QED BY <1>1, ViewTyped DEF Credit, Typed

\* A step of the call on who that gives its reader the view u.
LEMMA StepKept ==
  ASSUME Core, todo # <<>>, NEW u \in Views, Becomes(who, u),
         Sound(u, waiting[who]), Owed(u, waiting[who]),
         UNCHANGED <<registry, alive, started, holder, who, live>>,
         sequence' \in 0 .. MaxSequence, sequence <= sequence',
         \A a \in Tries :
           /\ Mentions(u, a) => Mentions(View(who), a) \/ (sequence < a /\ a <= sequence')
           /\ Holds(u, a) <=> Holds(View(who), a),
         todo' \in Seq(AudioSteps), finished' \in [Readers -> BOOLEAN],
         \A q \in Readers : q # who => finished'[q] = finished[q],
         CallOK', Wanted(who)'
  PROVE  Core'
  <1>1. Typed /\ Distinct /\ LiveOK /\ PortsOK /\ \A q \in Readers : Credit(q) /\ Wanted(q)
    BY ZenonT(60) DEF Core
  <1>2. UNCHANGED <<waiting, ports, next, pump, scan>>
    BY ZenonT(60) DEF registry
  <1>3. who \in Readers /\ sequence' \in Nat
    BY <1>1 DEF Typed
  <1>4. /\ \A q \in Readers : View(q)' = IF q = who THEN u ELSE View(q)
        /\ requests' \in [Readers -> Slot(Tries)]
        /\ ready' \in [Readers -> Slot(Ready)]
        /\ retired' \in [Readers -> Slot(Tries)]
        /\ desired' \in [Readers -> Tries \cup {None}]
        /\ awaited' \in [Readers -> BOOLEAN]
        /\ failed' \in [Readers -> BOOLEAN]
        /\ stream' \in [Readers -> Tries \cup {None}]
    BY <1>1, <1>3, BecomesView
  <1>5. Distinct' /\ LiveOK'
    BY Zenon, <1>1, <1>2, <1>3, <1>4, OneReader
  <1>6. Typed'
    BY <1>1, <1>2, <1>4, Zenon DEF Typed
  <1>7. PortsOK'
    BY ZenonT(60), <1>1, <1>2 DEF PortsOK
  <1>8. ASSUME NEW q \in Readers PROVE Credit(q)' /\ Wanted(q)'
    <2>1. CASE q = who
      <3>1. View(who)' = u
        BY <1>3, <1>4
      <3>2. holder[who] = "audio" /\ alive[who]
        BY <1>1, <1>3, AtWho DEF Credit
      <3>3. Credit(who)'
        BY ZenonT(60), <1>2, <3>1, <3>2 DEF Credit
      <3> QED BY <2>1, <3>3
    <2>2. CASE q # who
      <3>1. View(q)' = View(q)
        BY <1>4, <2>2
      <3>2. awaited'[q] = awaited[q] /\ desired'[q] = desired[q]
        BY ZenonT(60), <1>1, <2>2 DEF Becomes, Typed
      <3>3. Credit(q)'
        BY ZenonT(60), <1>1, <1>2, <3>1, <3>2, CreditKept
      <3>4. Wanted(q)'
        BY ZenonT(60), <1>1, <2>2, <3>2 DEF Wanted
      <3> QED BY ZenonT(60), <3>3, <3>4
    <2> QED BY ZenonT(60), <2>1, <2>2
  <1> QED BY ZenonT(60), <1>5, <1>6, <1>7, <1>8 DEF Core

LEMMA DesiredOfView ==
  ASSUME Typed, NEW u, Becomes(who, u)
  PROVE  desired'[who] = u.desired
  BY DEF Typed, Becomes

\* The calls left after a step.
LEMMA StepsLeft ==
  ASSUME Typed, todo # <<>>
  PROVE  /\ Tail(todo) \in Seq(AudioSteps) /\ Len(Tail(todo)) = Len(todo) - 1
         /\ Head(todo) = todo[1]
         /\ \A i \in 1 .. Len(Tail(todo)) : Tail(todo)[i] = todo[i + 1] /\ i + 1 \in 2 .. Len(todo)
  BY DEF Typed

LEMMA RestOfCall ==
  ASSUME Typed, CallOK, todo # <<>>, todo' = Tail(todo),
         UNCHANGED <<who, holder, started, finished>>,
         Head(todo) = "cancel" => desired'[who] = None
  PROVE  todo' \in Seq(AudioSteps) /\ CallOK'
  <1>1. /\ todo' \in Seq(AudioSteps) /\ Len(todo') = Len(todo) - 1 /\ Head(todo) = todo[1]
        /\ \A i \in 1 .. Len(todo') : todo'[i] = todo[i + 1] /\ i + 1 \in 2 .. Len(todo)
    BY StepsLeft
  <1>2. ASSUME NEW i \in 1 .. Len(todo'), todo'[i] = "begin"
        PROVE  /\ started'[who'] /\ ~finished'[who']
               /\ IF i = 1 THEN desired'[who'] = None ELSE todo'[i - 1] = "cancel"
    <2>1. i + 1 \in 1 .. Len(todo) /\ todo[i + 1] = "begin" /\ i + 1 # 1 /\ (i + 1) - 1 = i
      BY <1>1, <1>2
    <2>2. started[who] /\ ~finished[who] /\ todo[i] = "cancel"
      BY <2>1 DEF CallOK
    <2>3. i # 1 => i - 1 \in 1 .. Len(todo') /\ todo'[i - 1] = todo[i]
      BY <1>1
    <2> QED BY <1>1, <2>2, <2>3
  <1>3. holder'[who'] = "audio"
    BY DEF CallOK
  <1> QED BY <1>1, <1>2, <1>3 DEF CallOK

LEMMA CancelStepKept ==
  ASSUME PrepareInv, CancelStep
  PROVE  PrepareInv'
  <1> DEFINE u == CancelReader(View(who))
  <1>1. /\ Core /\ todo # <<>> /\ Head(todo) = "cancel" /\ Becomes(who, u)
        /\ todo' = Tail(todo) /\ finished' = finished /\ sequence' = sequence
        /\ UNCHANGED <<registry, alive, started, holder, who, live>>
    BY DEF PrepareInv, CancelStep, Step, playback
  <1>2. fault' = u.fault
    BY <1>1 DEF Becomes
  <1>3. /\ u.fault \in {"none", "retired"}
        /\ u.fault = "none" =>
             /\ u \in Views /\ Sound(u, waiting[who]) /\ Owed(u, waiting[who])
             /\ u.desired = None
             /\ \A a \in Tries : /\ Mentions(u, a) => Mentions(View(who), a)
                                 /\ Holds(u, a) <=> Holds(View(who), a)
    BY <1>1, AtWho, CancelFollows
  <1> HIDE DEF u
  <1>4. ASSUME u.fault = "none" PROVE Core'
    <2>1. Typed /\ CallOK /\ desired'[who] = None
      BY <1>1, <1>3, <1>4, DesiredOfView DEF Core
    <2>2. todo' \in Seq(AudioSteps) /\ CallOK'
      BY <1>1, <2>1, RestOfCall
    <2>3. Wanted(who)'
      BY <1>1, <2>1 DEF Wanted
    <2>4. sequence' \in 0 .. MaxSequence /\ sequence <= sequence'
      BY <1>1, <2>1, SequenceNatural DEF Typed
    <2>5. /\ finished' \in [Readers -> BOOLEAN]
          /\ \A q \in Readers : q # who => finished'[q] = finished[q]
      BY <1>1, <2>1 DEF Typed
    <2>6. ASSUME NEW a \in Tries
          PROVE  /\ Mentions(u, a) => Mentions(View(who), a) \/ (sequence < a /\ a <= sequence')
                 /\ Holds(u, a) <=> Holds(View(who), a)
      BY <1>3, <1>4, <2>6, Zenon
    <2> QED BY <1>1, <1>3, <1>4, <2>2, <2>3, <2>4, <2>5, <2>6, StepKept, Zenon
  <1> QED BY <1>2, <1>3, <1>4 DEF PrepareInv

LEMMA BeginStepKept ==
  ASSUME PrepareInv, BeginStep
  PROVE  PrepareInv'
  <1> DEFINE u == BeginReader(View(who))
  <1>1. /\ Core /\ todo # <<>> /\ Head(todo) = "begin" /\ Becomes(who, u)
        /\ todo' = Tail(todo) /\ finished' = finished
        /\ sequence' = IF sequence = MaxSequence THEN sequence ELSE sequence + 1
        /\ UNCHANGED <<registry, alive, started, holder, who, live>>
    BY DEF PrepareInv, BeginStep, Step, playback
  <1>2. fault' = u.fault
    BY <1>1 DEF Becomes
  <1>3. Typed /\ CallOK /\ Distinct /\ who \in Readers
    BY <1>1 DEF Core, Typed
  <1>4. started[who] /\ ~finished[who] /\ desired[who] = None
    <2>1. 1 \in 1 .. Len(todo) /\ todo[1] = "begin"
      BY <1>1, <1>3 DEF Typed
    <2> QED BY <1>3, <2>1 DEF CallOK
  <1>5. View(who).desired = None /\ sequence \in 0 .. MaxSequence
    BY <1>3, <1>4 DEF View, Typed
  <1>6. \A a \in Tries : Mentions(View(who), a) => a <= sequence
    BY <1>3 DEF Distinct, Named
  <1>7. /\ u.fault \in {"none", "retired"}
        /\ u.fault = "none" =>
             /\ u \in Views /\ Sound(u, waiting[who]) /\ Owed(u, waiting[who])
             /\ u.desired \in {None, sequence + 1}
             /\ sequence = MaxSequence => u.desired = None
             /\ \A a \in Tries :
                  /\ Mentions(u, a) => Mentions(View(who), a) \/ a = u.desired
                  /\ Holds(u, a) <=> Holds(View(who), a)
    BY <1>1, <1>5, <1>6, AtWho, BeginFollows
  <1> HIDE DEF u
  <1>8. ASSUME u.fault = "none" PROVE Core'
    <2>1. todo' \in Seq(AudioSteps) /\ CallOK'
      BY <1>1, <1>3, RestOfCall
    <2>2. Wanted(who)'
      BY <1>1, <1>4 DEF Wanted
    <2>3. sequence' \in 0 .. MaxSequence /\ sequence <= sequence'
      BY <1>1, <1>5, SequenceNatural
    <2>4. /\ finished' \in [Readers -> BOOLEAN]
          /\ \A q \in Readers : q # who => finished'[q] = finished[q]
      BY <1>1, <1>3 DEF Typed
    <2>5. ASSUME NEW a \in Tries
          PROVE  /\ Mentions(u, a) => Mentions(View(who), a) \/ (sequence < a /\ a <= sequence')
                 /\ Holds(u, a) <=> Holds(View(who), a)
      <3>1. a = u.desired => sequence < a /\ a <= sequence'
        BY <1>1, <1>5, <1>7, <1>8, NoneIsNoTry, SequenceNatural DEF Tries
      <3> QED BY <1>7, <1>8, <3>1
    <2> QED BY <1>1, <1>7, <1>8, <2>1, <2>2, <2>3, <2>4, <2>5, StepKept, Zenon
  <1> QED BY <1>2, <1>7, <1>8 DEF PrepareInv

\* A poll that ends a call, goes on with it, or plans the cancel of a finished item.
LEMMA PolledKept ==
  ASSUME PrepareInv, fault = "none", todo # <<>>, Head(todo) # "cancel",
         Becomes(who, Poll(View(who))), sequence' = sequence,
         UNCHANGED <<registry, alive, started, holder, who, live>>,
         \/ todo' \in {<<>>, Tail(todo)} /\ finished' = finished
         \/ Finish(who)
  PROVE  PrepareInv'
  <1> DEFINE u == Poll(View(who))
  <1>1. Core /\ Typed /\ CallOK /\ who \in Readers /\ Wanted(who) /\ fault' = u.fault
    BY ZenonT(60) DEF PrepareInv, Core, Typed, Becomes
  <1>2. /\ u.fault \in {"none", "retired"}
        /\ u.fault = "none" => Follows(View(who), u, waiting[who])
    BY Zenon, <1>1, AtWho, PollFollows
  <1>3. Becomes(who, u)
    OBVIOUS
  <1> HIDE DEF u
  <1>4. ASSUME u.fault = "none" PROVE Core'
    <2>1. /\ u \in Views /\ Sound(u, waiting[who]) /\ Owed(u, waiting[who])
          /\ u.desired = desired[who]
          /\ \A a \in Tries :
               /\ Mentions(u, a) => Mentions(View(who), a) \/ (sequence < a /\ a <= sequence')
               /\ Holds(u, a) <=> Holds(View(who), a)
      BY ZenonT(60), <1>2, <1>4 DEF Follows, View
    <2>2. desired'[who] = desired[who]
      BY ZenonT(60), <1>1, <1>3, <2>1, DesiredOfView
    <2>3. sequence' \in 0 .. MaxSequence /\ sequence <= sequence'
      BY <1>1, SequenceNatural DEF Typed
    <2>4. /\ finished' \in [Readers -> BOOLEAN]
          /\ \A q \in Readers : q # who => finished'[q] = finished[q]
      BY ZenonT(60), <1>1 DEF Typed, Finish
    <2>5. todo' \in Seq(AudioSteps) /\ CallOK' /\ Wanted(who)'
      <3>1. CASE todo' = Tail(todo) /\ finished' = finished
        <4>1. todo' \in Seq(AudioSteps) /\ CallOK'
          BY <1>1, <3>1, RestOfCall
        <4>2. Wanted(who)'
          BY <1>1, <2>2, <3>1 DEF Wanted
        <4> QED BY <4>1, <4>2
      <3>2. CASE todo' = <<>> /\ finished' = finished
        <4>1. todo' \in Seq(AudioSteps) /\ CallOK'
          BY <3>2 DEF CallOK
        <4>2. Wanted(who)'
          BY <1>1, <2>2, <3>2 DEF Wanted
        <4> QED BY <4>1, <4>2
      <3>3. CASE Finish(who)
        <4>1. todo' = <<"cancel">>
          BY <3>3 DEF Finish
        <4>2. todo' \in Seq(AudioSteps) /\ CallOK'
          BY <1>1, <4>1 DEF CallOK, AudioSteps
        <4>3. Wanted(who)'
          BY <4>1 DEF Wanted
        <4> QED BY <4>2, <4>3
      <3> QED BY <3>1, <3>2, <3>3
    <2> QED BY <1>1, <1>3, <2>1, <2>3, <2>4, <2>5, StepKept, Zenon
  <1> QED BY <1>1, <1>2, <1>4 DEF PrepareInv

LEMMA SelectStepKept ==
  ASSUME PrepareInv, SelectStep
  PROVE  PrepareInv'
  <1>1. /\ fault = "none" /\ todo # <<>> /\ Head(todo) # "cancel"
        /\ Becomes(who, Poll(View(who))) /\ sequence' = sequence
        /\ UNCHANGED <<registry, alive, started, holder, who, live>>
    BY DEF SelectStep, Step
  <1>2. \/ todo' \in {<<>>, Tail(todo)} /\ finished' = finished
        \/ Finish(who)
    BY DEF SelectStep
  <1> QED BY <1>1, <1>2, PolledKept

LEMMA ReadStepKept ==
  ASSUME PrepareInv, ReadStep
  PROVE  PrepareInv'
  <1>1. /\ fault = "none" /\ todo # <<>> /\ Head(todo) # "cancel"
        /\ Becomes(who, Poll(View(who))) /\ sequence' = sequence
        /\ UNCHANGED <<registry, alive, started, holder, who, live>>
    BY DEF ReadStep, Step
  <1>2. \/ todo' \in {<<>>, Tail(todo)} /\ finished' = finished
        \/ Finish(who)
    BY DEF ReadStep
  <1> QED BY <1>1, <1>2, PolledKept

==============================================================================
