---------------------------- MODULE EventProofs ------------------------------
(***************************************************************************)
(* Scheduled events, for any schedule and any number of reloads, refusals  *)
(* and clock corrections.  MessageOnce is not inductive.  What it needs is *)
(* an account of every message ever queued, by the present identity of its *)
(* event: it is spent, or it is the reservation marked queued; and it has  *)
(* started, was cancelled, or is the admitted one and still the newest.  A *)
(* token taken under an earlier scheduler is told by its generation, and   *)
(* work begun before a reload by its revision.                             *)
(***************************************************************************)
EXTENDS EventDispatch, TLAPS

\* The provers, and the times, for a leaf that names none.
USE ZenonT(2), SMTT(10), ZenonT(20), SMTT(30), ZenonT(60)

-----------------------------------------------------------------------------
(* Scheduled events: the invariant.                                         *)

AnyOccurrence == [event : Nat, born : Nat, key : Nat]
AnyToken == [of : AnyOccurrence, generation : Nat, queueable : BOOLEAN]
AnyPump == [at : PumpSteps, revision : Nat, wall : Nat, civil : Nat, token : AnyToken]
AnyJob == [by : Pumps, token : AnyToken, revision : Nat, at : {"dial", "complete", "clear"}]

EventShapes ==
  /\ plan \in Plans
  /\ wall \in Nat /\ offset \in 0 .. 1
  /\ generation \in Nat /\ revision \in Nat \ {0} /\ busy \in Nat
  /\ reloading \in BOOLEAN /\ behind \in BOOLEAN
  /\ born \in [Events -> Nat] /\ events \in [Events -> EventState]
  /\ pump \in [Pumps -> AnyPump]
  /\ jobs \subseteq AnyJob
  /\ sent \subseteq AnyOccurrence
  /\ queue \in Seq(sent) /\ old \in Seq(sent)

\* The occurrences that can no longer start: they did, or were cancelled.
Dead == cancelled \cup audible

\* A message event's occurrences are settled, reserved and captured in the order
\* of their keys; what is reserved when a newer one is captured is dead.
Sequenced(e, s, dead) ==
  Media(e) =>
    /\ s.pending # None => s.completed < s.pending
    /\ s.ready # None => s.completed < s.ready /\ s.pending < s.ready
    /\ s.pending # None /\ s.ready # None => Occurrence(e, s.pending) \in dead

\* What was queued under the event's present identity is spent or is the
\* reservation marked queued; only the admitted one may still start.
Accounted(o, s, dead) ==
  /\ Media(o.event)
  /\ o.key <= s.completed \/ (o.key = s.pending /\ s.queued)
  /\ o \in dead \/ (o.key = s.admitted /\ o.key >= Newest(s))

SentOnce(o) ==
  /\ o.event \in Events /\ o.born <= generation /\ o.key # None
  /\ o.born = born[o.event] => Accounted(o, events[o.event], Dead)

Scheduled ==
  /\ \A e \in Events : born[e] <= generation /\ Sequenced(e, events[e], Dead)
  /\ \A o \in sent : SentOnce(o)

\* The token a pump or a dial works on, begun at revision r.
TokenSound(t, r) ==
  /\ t.of.event \in Events /\ t.of.key # None /\ t.generation <= generation
  /\ t.generation = generation => t.of.born = born[t.of.event]
  /\ t.of.born <= t.generation
  /\ t.queueable => Media(t.of.event)
  /\ r = revision => t.generation = generation

\* A reload makes every pump and dial under way one of an earlier revision.
Begun(r) == r <= revision /\ (reloading => r < revision)

Working(p) == pump[p].at \in {"queue", "store", "spawn", "effect", "complete"}

Driven ==
  /\ reloading => pump["reloader"].at = "idle"
  /\ \A p \in Pumps : Begun(pump[p].revision) /\ (Working(p) => TokenSound(pump[p].token, pump[p].revision))
  /\ \A j \in jobs : Begun(j.revision) /\ TokenSound(j.token, j.revision)

EventInv ==
  EventShapes /\ Scheduled /\ Driven /\ busy <= revision /\ NoStuckBusy /\ MessageOnce

-----------------------------------------------------------------------------
(* Scheduled events: operators.                                             *)

\* A plan's events are numbered, and due in civil minutes.
LEMMA PlanFacts ==
  ASSUME plan \in Plans
  PROVE  /\ Events \subseteq Nat /\ MaxKey \in Nat
         /\ \A e \in Events : Configured[e].due \subseteq Keys /\ Configured[e].op \in Operations
<1> DEFINE Entries == [due : SUBSET Keys, kind : Kinds, op : Operations]
<1>1. MaxKey \in Nat /\ plan.events \in Seq(Entries)
  BY ConfiguredEvents
<1>2. \A x \in Entries : x.due \subseteq Keys /\ x.op \in Operations
  OBVIOUS
<1> HIDE DEF Entries
<1>3. DOMAIN plan.events \subseteq Nat /\ \A e \in DOMAIN plan.events : plan.events[e] \in Entries
  BY <1>1
<1> QED  BY <1>1, <1>2, <1>3 DEF Events, Configured

\* The newest occurrence is one of the three, and none is newer.
LEMMA NewestFacts ==
  ASSUME NEW s \in EventState, MaxKey \in Nat
  PROVE  /\ Newest(s) \in {s.completed, s.pending, s.ready}
         /\ s.completed <= Newest(s) /\ s.pending <= Newest(s) /\ s.ready <= Newest(s)
         /\ Newest(s) \in Nat
<1>1. s.completed \in Nat /\ s.pending \in Nat /\ s.ready \in Nat
  BY DEF EventState, Keys, None
<1> DEFINE S == {s.completed, s.pending, s.ready}
<1>2. PICK m \in S : \A k \in S : m >= k
  BY <1>1
<1> QED  BY <1>1, <1>2 DEF Newest, Max

\* An operation on an event keeps its order and the account of what was queued.
Carries(e, s, t, dead, dead1) ==
  /\ t \in EventState
  /\ Sequenced(e, t, dead1)
  /\ \A o \in AnyOccurrence :
       o.event = e /\ o.born = born[e] /\ o.key # None /\ Accounted(o, s, dead) => Accounted(o, t, dead1)

LEMMA SameCarries ==
  ASSUME plan \in Plans, NEW e \in Events, NEW s \in EventState, NEW dead, NEW dead1,
         Sequenced(e, s, dead), dead \subseteq dead1
  PROVE  Carries(e, s, s, dead, dead1)
BY DEF Carries, Sequenced, Accounted

LEMMA CapturedCarries ==
  ASSUME plan \in Plans, NEW e \in Events, NEW s \in EventState, NEW key, NEW dead, NEW dead1,
         Sequenced(e, s, dead), dead \subseteq dead1,
         \A k \in Obsolete(e, s, key) : Occurrence(e, k) \in dead1
  PROVE  Carries(e, s, Captured(e, s, key), dead, dead1)
<1> DEFINE t == [s EXCEPT !.ready = key]
<1>1. CASE ~NewOccurrence(e, s, key)
  BY <1>1, SameCarries DEF Captured
<1>2. CASE NewOccurrence(e, s, key)
  <2>1. Captured(e, s, key) = t /\ key \in Keys /\ MaxKey \in Nat
    BY <1>2, PlanFacts DEF Captured, NewOccurrence
  <2>2. t \in EventState
    BY <2>1 DEF EventState
  <2>3. ASSUME Media(e)
        PROVE  /\ s.completed < key /\ s.pending < key /\ s.ready < key
               /\ \A k \in {s.pending, s.ready, s.admitted} : k # None => Occurrence(e, k) \in dead1
    BY <1>2, <2>1, <2>3, NewestFacts DEF NewOccurrence, Obsolete, EventState, Keys, None
  <2>4. Sequenced(e, t, dead1)
    BY <2>1, <2>2, <2>3 DEF Sequenced, EventState
  <2>5. ASSUME NEW o \in AnyOccurrence, o.event = e, o.born = born[e], o.key # None, Accounted(o, s, dead)
        PROVE  Accounted(o, t, dead1)
    <3>1. t.completed = s.completed /\ t.pending = s.pending /\ t.queued = s.queued /\ t.admitted = s.admitted
      BY DEF EventState
    <3>2. o \in dead1
      <4>1. o = Occurrence(e, o.key)
        BY <2>5 DEF AnyOccurrence, Occurrence
      <4> QED  BY <2>3, <2>5, <4>1 DEF Accounted
    <3> QED  BY <2>5, <3>1, <3>2 DEF Accounted
  <2> QED  BY <2>1, <2>2, <2>4, <2>5 DEF Carries
<1> QED  BY <1>1, <1>2

LEMMA ReservedCarries ==
  ASSUME plan \in Plans, NEW e \in Events, NEW s \in EventState, NEW r \in BOOLEAN, NEW dead,
         Sequenced(e, s, dead), Offered(s) # None
  PROVE  Carries(e, s, Reserved(s, r), dead, dead)
<1> DEFINE t == Reserved(s, r)
<1>0. MaxKey \in Nat
  BY PlanFacts
<1>1. /\ t \in EventState /\ t.completed = s.completed /\ t.admitted = s.admitted
      /\ s.pending = None => t.pending = s.ready /\ t.ready = None
      /\ s.pending # None => t.pending = s.pending /\ t.ready = s.ready /\ t.queued = s.queued
  BY DEF Reserved, EventState
<1>2. s.completed \in Nat /\ s.pending \in Nat /\ s.ready \in Nat
  BY <1>0 DEF EventState, Keys, None
<1> HIDE DEF t
<1>3. Sequenced(e, t, dead)
  BY <1>1, <1>2 DEF Sequenced, None
<1>4. Newest(t) = Newest(s)
  BY <1>0, <1>1, <1>2, NewestFacts DEF None
<1>5. ASSUME NEW o \in AnyOccurrence, o.key # None, Accounted(o, s, dead)
      PROVE  Accounted(o, t, dead)
  BY <1>1, <1>4, <1>5 DEF Accounted
<1> QED  BY <1>1, <1>3, <1>5 DEF Carries, t

LEMMA SpentCarries ==
  ASSUME plan \in Plans, NEW e \in Events, NEW s \in EventState, NEW dead,
         Sequenced(e, s, dead), Offered(s) # None
  PROVE  Carries(e, s, Spent(s), dead, dead)
<1> DEFINE t == Spent(s)
<1>0. MaxKey \in Nat
  BY PlanFacts
<1>1. /\ t \in EventState /\ t.completed = Offered(s) /\ t.admitted = s.admitted /\ t.pending = None
      /\ t.ready = IF s.ready = Offered(s) THEN None ELSE s.ready
  BY DEF Spent, Offered, EventState, None
<1>2. s.completed \in Nat /\ s.pending \in Nat /\ s.ready \in Nat
  BY <1>0 DEF EventState, Keys, None
<1> HIDE DEF t
<1>3. Sequenced(e, t, dead)
  BY <1>1, <1>2 DEF Sequenced, None, Offered
<1>4. Media(e) => /\ Newest(t) = Newest(s) /\ s.completed < t.completed /\ t.completed \in Nat
                  /\ s.pending # None => s.pending = t.completed
  BY <1>0, <1>1, <1>2, NewestFacts DEF None, Offered, Sequenced
<1>5. ASSUME NEW o \in AnyOccurrence, o.event = e, o.key # None, Accounted(o, s, dead)
      PROVE  Accounted(o, t, dead)
  BY <1>1, <1>2, <1>4, <1>5 DEF Accounted, AnyOccurrence
<1> QED  BY <1>1, <1>3, <1>5 DEF Carries, t

LEMMA SettledCarries ==
  ASSUME plan \in Plans, NEW e \in Events, NEW s \in EventState, NEW dead,
         Sequenced(e, s, dead), s.pending # None
  PROVE  Carries(e, s, Settled(e, s), dead, dead)
<1> DEFINE t == [s EXCEPT !.completed = s.pending, !.pending = None, !.queued = FALSE]
<1>0. MaxKey \in Nat
  BY PlanFacts
<1>1. /\ t \in EventState /\ t.completed = s.pending /\ t.admitted = s.admitted /\ t.pending = None
      /\ t.ready = s.ready
  BY DEF EventState, None
<1>2. s.completed \in Nat /\ s.pending \in Nat /\ s.ready \in Nat
  BY <1>0 DEF EventState, Keys, None
<1> HIDE DEF t
<1>3. Sequenced(e, t, dead)
  BY <1>1, <1>2 DEF Sequenced, None
<1>4. Media(e) => Newest(t) = Newest(s) /\ s.completed < t.completed
  BY <1>0, <1>1, <1>2, NewestFacts DEF None, Sequenced
<1>5. ASSUME NEW o \in AnyOccurrence, o.event = e, o.key # None, Accounted(o, s, dead)
      PROVE  Accounted(o, t, dead)
  BY <1>1, <1>2, <1>4, <1>5 DEF Accounted, AnyOccurrence
<1>6. Carries(e, s, t, dead, dead)
  BY <1>1, <1>3, <1>5 DEF Carries
<1>7. Settled(e, s) = s \/ Settled(e, s) = t
  BY DEF Settled, t
<1> QED  BY <1>6, <1>7, SameCarries

\* An event without a message has none to account for.
LEMMA ActionCarries ==
  ASSUME plan \in Plans, NEW e \in Events, NEW s \in EventState, NEW dead, ~Media(e)
  PROVE  Carries(e, s, Admitted(e, s), dead, dead)
<1>0. MaxKey \in Nat
  BY PlanFacts
<1>1. Admitted(e, s) \in EventState
  BY <1>0 DEF Admitted, EventState, Keys, None
<1> QED  BY <1>1 DEF Carries, Sequenced, Accounted

\* An admission: nothing queued before may still start.
LEMMA AdmittedCarries ==
  ASSUME plan \in Plans, NEW e \in Events, NEW s \in EventState, NEW dead,
         Sequenced(e, s, dead), s.pending # None, ~s.queued, Media(e)
  PROVE  /\ Carries(e, s, Admitted(e, s), dead, dead)
         /\ \A o \in AnyOccurrence : o.event = e /\ o.born = born[e] /\ o.key = s.pending =>
              ~Accounted(o, s, dead) /\ Accounted(o, Admitted(e, s), dead)
<1> DEFINE t == Admitted(e, s)
<1>0. MaxKey \in Nat
  BY PlanFacts
<1>1. /\ t \in EventState /\ t.completed = s.completed /\ t.admitted = s.pending /\ t.pending = s.pending
      /\ t.ready = s.ready /\ t.queued
  BY DEF Admitted, EventState
<1>2. s.completed \in Nat /\ s.pending \in Nat /\ s.ready \in Nat
  BY <1>0 DEF EventState, Keys, None
<1> HIDE DEF t
<1>3. Sequenced(e, t, dead)
  BY <1>1, <1>2 DEF Sequenced, None
<1>4. s.completed < s.pending /\ s.pending <= Newest(s) /\ Newest(t) = Newest(s) /\ Newest(s) \in Nat
  BY <1>0, <1>1, <1>2, NewestFacts DEF None, Sequenced
<1>5. ASSUME NEW o \in AnyOccurrence, o.event = e, o.key # None, Accounted(o, s, dead)
      PROVE  Accounted(o, t, dead)
  BY <1>1, <1>2, <1>4, <1>5 DEF Accounted, AnyOccurrence
<1>6. ASSUME NEW o \in AnyOccurrence, o.event = e, o.born = born[e], o.key = s.pending
      PROVE  ~Accounted(o, s, dead) /\ Accounted(o, t, dead)
  <2>1. o = Occurrence(e, s.pending)
    BY <1>6 DEF AnyOccurrence, Occurrence
  <2>2. o \notin dead => s.ready = None
    BY <2>1 DEF Sequenced
  <2>3. o \notin dead => Newest(t) = s.pending
    BY <1>0, <1>1, <1>2, <1>4, <2>2, NewestFacts DEF None
  <2> QED  BY <1>1, <1>2, <1>4, <1>6, <2>3 DEF Accounted
<1> QED  BY <1>1, <1>3, <1>5, <1>6 DEF Carries, t

LEMMA InheritedCarries ==
  ASSUME plan \in Plans, NEW e \in Events, NEW s \in EventState, NEW dead,
         Sequenced(e, s, dead)
  PROVE  Carries(e, s, Inherited(s), dead, dead)
<1> DEFINE t == Inherited(s)
<1>0. MaxKey \in Nat
  BY PlanFacts
<1>1. /\ t \in EventState /\ t.admitted = s.admitted /\ t.pending = None
      /\ t.completed = IF s.queued /\ s.pending # None THEN s.pending ELSE s.completed
      /\ t.ready = IF s.ready # None THEN s.ready ELSE IF s.queued THEN None ELSE s.pending
  BY DEF Inherited, Fresh, EventState, None
<1>2. s.completed \in Nat /\ s.pending \in Nat /\ s.ready \in Nat
  BY <1>0 DEF EventState, Keys, None
<1> HIDE DEF t
<1>3. Sequenced(e, t, dead)
  BY <1>1, <1>2 DEF Sequenced, None
<1>4. Newest(t) <= Newest(s) /\ Newest(t) \in Nat /\ Newest(s) \in Nat
  BY <1>0, <1>1, <1>2, NewestFacts DEF None
<1>5. ASSUME NEW o \in AnyOccurrence, o.event = e, o.key # None, Accounted(o, s, dead)
      PROVE  Accounted(o, t, dead)
  BY <1>1, <1>2, <1>4, <1>5 DEF Accounted, AnyOccurrence, Sequenced
<1> QED  BY <1>1, <1>3, <1>5 DEF Carries, t

-----------------------------------------------------------------------------
(* Scheduled events: steps.                                                 *)

\* The configuration of a plan that stays.
LEMMA SamePlan ==
  ASSUME UNCHANGED plan
  PROVE  /\ Events' = Events
         /\ \A e : Media(e)' <=> Media(e)
BY DEF Events, Media, Configured

\* The account is kept when every event's operation carries it.
LEMMA SchedulerGrows ==
  ASSUME EventShapes, Scheduled, UNCHANGED <<plan, born, generation>>,
         \A o \in sent' \ sent : SentOnce(o)',
         \A e \in Events : Carries(e, events[e], events'[e], Dead, Dead')
  PROVE  Scheduled'
<1>1. ASSUME NEW e \in Events PROVE (born[e] <= generation /\ Sequenced(e, events[e], Dead))'
  BY SamePlan DEF Scheduled, Carries, Sequenced, Occurrence
<1>2. ASSUME NEW o \in sent PROVE SentOnce(o)'
  <2>1. o \in AnyOccurrence /\ SentOnce(o)
    BY DEF EventShapes, Scheduled
  <2>2. o.born = born[o.event] => Accounted(o, events'[o.event], Dead')
    BY <2>1 DEF Carries, SentOnce
  <2>3. o.born = born[o.event] => Accounted(o, events[o.event], Dead)'
    BY <2>2, SamePlan DEF Accounted, Newest
  <2> QED  BY <2>1, <2>3, SamePlan DEF SentOnce
<1> QED  BY <1>1, <1>2, SamePlan DEF Scheduled

LEMMA SchedulerStep ==
  ASSUME EventShapes, Scheduled, UNCHANGED <<plan, born, generation, sent>>,
         \A e \in Events : Carries(e, events[e], events'[e], Dead, Dead')
  PROVE  Scheduled'
BY SchedulerGrows

LEMMA SchedulerRests ==
  ASSUME EventShapes, Scheduled, UNCHANGED <<plan, born, generation, sent, events, cancelled>>,
         audible \subseteq audible'
  PROVE  Scheduled'
<1>1. Dead \subseteq Dead'
  BY DEF Dead
<1>2. \A e \in Events : events[e] \in EventState /\ Sequenced(e, events[e], Dead) /\ plan \in Plans
  BY DEF EventShapes, Scheduled
<1> QED  BY <1>1, <1>2, SameCarries, SchedulerStep

\* A token stays sound, and a revision begun, while the scheduler and the
\* revision stay.
LEMMA TokensRest ==
  ASSUME UNCHANGED <<plan, generation, born, revision>>
  PROVE  \A t, r : TokenSound(t, r)' <=> TokenSound(t, r)
BY SamePlan DEF TokenSound

\* One pump moves.
LEMMA PumpMoves ==
  ASSUME EventShapes, Driven, NEW p \in Pumps, NEW x \in AnyPump,
         pump' = [pump EXCEPT ![p] = x],
         UNCHANGED <<plan, generation, born, revision, reloading, jobs>>,
         Begun(x.revision), reloading /\ p = "reloader" => x.at = "idle",
         x.at \in {"queue", "store", "spawn", "effect", "complete"} => TokenSound(x.token, x.revision)
  PROVE  /\ Driven' /\ pump' \in [Pumps -> AnyPump] /\ pump'[p] = x
         /\ \A q \in Pumps : q # p => pump'[q] = pump[q]
<1>1. pump' \in [Pumps -> AnyPump] /\ pump'[p] = x /\ \A q \in Pumps : q # p => pump'[q] = pump[q]
  BY DEF EventShapes
<1>2. \A r : Begun(r)' <=> Begun(r)
  BY DEF Begun
<1>3. ASSUME NEW q \in Pumps
      PROVE  (Begun(pump[q].revision) /\ (Working(q) => TokenSound(pump[q].token, pump[q].revision)))'
  BY <1>1, <1>2, TokensRest DEF Driven, Working
<1>4. \A j \in jobs' : (Begun(j.revision) /\ TokenSound(j.token, j.revision))'
  BY <1>2, TokensRest DEF Driven
<1>5. reloading' => pump'["reloader"].at = "idle"
  BY <1>1 DEF Driven, Pumps
<1> QED  BY <1>1, <1>3, <1>4, <1>5 DEF Driven

\* The ways a pump goes on: to its next place, or to its end.
LEMMA PumpPlaces ==
  ASSUME EventShapes, NEW p \in Pumps
  PROVE  /\ NoPump \in AnyPump /\ NoPump.at = "idle" /\ NoPump.revision = 0
         /\ \A step \in PumpSteps :
              /\ [pump[p] EXCEPT !.at = step] \in AnyPump
              /\ [pump[p] EXCEPT !.at = step].at = step
              /\ [pump[p] EXCEPT !.at = step].revision = pump[p].revision
              /\ [pump[p] EXCEPT !.at = step].token = pump[p].token
              /\ Goto(p, step) => pump' = [pump EXCEPT ![p] = [pump[p] EXCEPT !.at = step]]
<1>1. NoPump \in AnyPump /\ NoPump.at = "idle" /\ NoPump.revision = 0
  BY DEF NoPump, NoToken, AnyPump, AnyToken, AnyOccurrence, PumpSteps
<1>2. pump[p] \in AnyPump
  BY DEF EventShapes
<1>3. ASSUME NEW step \in PumpSteps
      PROVE  /\ [pump[p] EXCEPT !.at = step] \in AnyPump
             /\ [pump[p] EXCEPT !.at = step].at = step
             /\ [pump[p] EXCEPT !.at = step].revision = pump[p].revision
             /\ [pump[p] EXCEPT !.at = step].token = pump[p].token
  BY <1>2 DEF AnyPump
<1> QED  BY <1>1, <1>3 DEF Goto

\* A pump leaves; or it goes on with the token it has, or without one.
LEMMA PumpLeaves ==
  ASSUME EventShapes, Driven, NEW p \in Pumps, LeavePump(p),
         UNCHANGED <<plan, generation, born, revision, reloading, jobs>>
  PROVE  /\ Driven' /\ pump' \in [Pumps -> AnyPump]
         /\ \A q \in Pumps : q # p => pump'[q] = pump[q]
<1>1. pump' = [pump EXCEPT ![p] = NoPump]
  BY DEF LeavePump
<1>2. Begun(NoPump.revision) /\ NoPump \in AnyPump /\ NoPump.at = "idle"
  BY PumpPlaces DEF EventShapes, Begun
<1> QED  BY <1>1, <1>2, PumpMoves

LEMMA PumpGoes ==
  ASSUME EventShapes, Driven, NEW p \in Pumps, NEW step \in PumpSteps, Goto(p, step),
         UNCHANGED <<plan, generation, born, revision, reloading, jobs>>,
         ~(reloading /\ p = "reloader"), Working(p)
  PROVE  /\ Driven' /\ pump' \in [Pumps -> AnyPump]
         /\ pump'[p].at = step /\ pump'[p].revision = pump[p].revision
         /\ \A q \in Pumps : q # p => pump'[q] = pump[q]
<1> DEFINE x == [pump[p] EXCEPT !.at = step]
<1>1. /\ x \in AnyPump /\ x.at = step /\ x.revision = pump[p].revision /\ x.token = pump[p].token
      /\ pump' = [pump EXCEPT ![p] = x]
  BY PumpPlaces
<1> HIDE DEF x
<1>2. Begun(x.revision) /\ TokenSound(x.token, x.revision)
  BY <1>1 DEF Driven
<1>3. /\ Driven' /\ pump' \in [Pumps -> AnyPump] /\ pump'[p] = x
      /\ \A q \in Pumps : q # p => pump'[q] = pump[q]
  BY <1>1, <1>2, PumpMoves
<1> QED  BY <1>1, <1>3

\* A pump that is not about to spawn does not answer for the busy mark.
LEMMA BusyStays ==
  ASSUME EventShapes, NoStuckBusy, NEW p \in Pumps, pump[p].at # "spawn",
         \A q \in Pumps : q # p => pump'[q] = pump[q],
         UNCHANGED <<busy, revision, jobs>>
  PROVE  NoStuckBusy'
BY DEF NoStuckBusy

\* A queue without its head.
LEMMA Shorter ==
  ASSUME NEW S, NEW q \in Seq(S), q # <<>>
  PROVE  Tail(q) \in Seq(S)
OBVIOUS

\* The clock, and the audio thread giving up a message or adopting a queue.
LEMMA ClockStep ==
  ASSUME EventInv, Tick \/ Correct \/ FallBack \/ Adopt \/ AudioRetire
  PROVE  EventInv'
<1>1. UNCHANGED <<plan, born, generation, sent, events, cancelled, audible, revision, reloading, pump, jobs,
                  busy, resent>>
  BY DEF Tick, Correct, FallBack, Adopt, AudioRetire, scheduler, cells, engine, messages, clock
<1>2. wall' \in Nat /\ offset' \in 0 .. 1 /\ behind' \in BOOLEAN
  <2>1. wall \in Nat /\ offset \in 0 .. 1 /\ behind \in BOOLEAN
    BY DEF EventInv, EventShapes
  <2>2. CASE Tick \/ Correct
    BY <2>1, <2>2 DEF Tick, Correct, station
  <2>3. CASE FallBack
    BY <2>1, <2>3 DEF FallBack, station
  <2>4. CASE Adopt \/ AudioRetire
    BY <2>1, <2>4 DEF Adopt, AudioRetire, clock
  <2> QED  BY <2>2, <2>3, <2>4
<1>3. queue' \in Seq(sent) /\ old' \in Seq(sent)
  <2>1. queue \in Seq(sent) /\ old \in Seq(sent)
    BY DEF EventInv, EventShapes
  <2>2. CASE Tick \/ Correct \/ FallBack
    BY <2>1, <2>2 DEF Tick, Correct, FallBack, station
  <2>3. CASE Adopt
    BY <2>1, <2>3 DEF Adopt
  <2>4. CASE AudioRetire
    <3>1. \/ old # <<>> /\ old' = Tail(old) /\ queue' = queue
          \/ queue # <<>> /\ queue' = Tail(queue) /\ old' = old
      BY <2>4 DEF AudioRetire, Played
    <3> QED  BY <2>1, <3>1, Shorter
  <2> QED  BY <2>2, <2>3, <2>4
<1>4. EventShapes'
  BY <1>1, <1>2, <1>3, SamePlan DEF EventInv, EventShapes
<1>5. Scheduled'
  BY <1>1, SchedulerRests DEF EventInv
<1>6. Driven'
  BY <1>1, TokensRest DEF EventInv, Driven, Begun, Working
<1> QED  BY <1>1, <1>4, <1>5, <1>6 DEF EventInv, NoStuckBusy, MessageOnce

\* A message starts.
LEMMA AudioStartStep ==
  ASSUME EventInv, AudioStart
  PROVE  EventInv' /\ StartsNewest
<1>1. UNCHANGED <<plan, born, generation, sent, events, cancelled, revision, reloading, pump, jobs,
                  busy, resent, wall, offset, behind, queue, old>> /\ audible \subseteq audible'
  BY DEF AudioStart, scheduler, engine, messages, clock, station
<1>2. EventShapes'
  BY <1>1, SamePlan DEF EventInv, EventShapes
<1>3. Scheduled'
  BY <1>1, SchedulerRests DEF EventInv
<1>4. Driven'
  BY <1>1, TokensRest DEF EventInv, Driven, Begun, Working
<1>5. Head(Played) \in sent
  BY DEF AudioStart, Played, EventInv, EventShapes
<1>6. ASSUME NEW o \in audible' \ audible, o.born = born[o.event]
      PROVE  o.key >= Newest(events[o.event])
  <2>1. o = Head(Played) /\ o \notin Dead
    BY DEF AudioStart, Dead
  <2> QED  BY <1>5, <1>6, <2>1 DEF EventInv, Scheduled, SentOnce, Accounted
<1> QED  BY <1>1, <1>2, <1>3, <1>4, <1>6 DEF EventInv, NoStuckBusy, MessageOnce, StartsNewest

\* A pump that begins, is refused, or marks the dispatcher busy.
LEMMA PumpControlStep ==
  ASSUME EventInv, NEW p \in Pumps, BeginPump(p) \/ Refused(p) \/ PumpStore(p)
  PROVE  EventInv'
<1>1. UNCHANGED <<plan, born, generation, sent, events, cancelled, audible, revision, reloading, jobs,
                  resent, wall, offset, behind, queue, old>>
  BY DEF BeginPump, Refused, PumpStore, scheduler, engine, messages, clock, station, cells
<1>2. Scheduled'
  BY <1>1, SchedulerRests DEF EventInv
<1>3. EventShapes /\ Driven /\ NoStuckBusy
  BY DEF EventInv
<1>4. Begun(0) /\ Begun(pump[p].revision) /\ (Working(p) => TokenSound(pump[p].token, pump[p].revision))
  BY <1>3 DEF Driven, EventShapes, Begun
<1>5. (Driven /\ NoStuckBusy /\ busy <= revision /\ busy \in Nat /\ pump \in [Pumps -> AnyPump])'
  <2>1. CASE BeginPump(p)
    <3> DEFINE x == [at |-> "next", revision |-> revision, wall |-> wall, civil |-> wall + offset, token |-> NoToken]
    <3>1. x \in AnyPump /\ pump' = [pump EXCEPT ![p] = x] /\ x.at = "next" /\ x.revision = revision
      BY <1>3, <2>1 DEF BeginPump, EventShapes, AnyPump, AnyToken, AnyOccurrence, NoToken, PumpSteps
    <3>2. ~reloading /\ pump[p].at # "spawn" /\ UNCHANGED busy
      BY <1>3, <2>1 DEF BeginPump, Driven, Pumps
    <3>3. Begun(x.revision)
      BY <1>3, <3>1, <3>2 DEF Begun, EventShapes
    <3> HIDE DEF x
    <3>4. /\ Driven' /\ pump' \in [Pumps -> AnyPump]
          /\ \A q \in Pumps : q # p => pump'[q] = pump[q]
      BY <1>1, <1>3, <3>1, <3>2, <3>3, PumpMoves
    <3> QED  BY <1>1, <1>3, <3>2, <3>4, BusyStays DEF EventInv, EventShapes
  <2>2. CASE Refused(p)
    <3>1. pump[p].at # "spawn" /\ UNCHANGED busy /\ ~(reloading /\ p = "reloader")
      BY <1>3, <2>2 DEF Refused, Driven
    <3>2. CASE pump[p].at = "effect"
      <4>1. Goto(p, "complete") /\ Working(p)
        BY <2>2, <3>2 DEF Refused, Working
      <4>2. /\ Driven' /\ pump' \in [Pumps -> AnyPump]
            /\ \A q \in Pumps : q # p => pump'[q] = pump[q]
        BY <1>1, <1>3, <3>1, <4>1, PumpGoes DEF PumpSteps
      <4> QED  BY <1>1, <1>3, <3>1, <4>2, BusyStays DEF EventInv, EventShapes
    <3>3. CASE pump[p].at # "effect"
      <4>1. pump' = [pump EXCEPT ![p] = NoPump]
        BY <2>2, <3>3 DEF Refused, LeavePump
      <4>2. /\ Driven' /\ pump' \in [Pumps -> AnyPump]
            /\ \A q \in Pumps : q # p => pump'[q] = pump[q]
        BY <1>1, <1>3, <4>1, PumpLeaves DEF LeavePump
      <4> QED  BY <1>1, <1>3, <3>1, <4>2, BusyStays DEF EventInv, EventShapes
    <3> QED  BY <3>2, <3>3
  <2>3. CASE PumpStore(p)
    <3>1. Goto(p, "spawn") /\ Working(p) /\ busy' = pump[p].revision /\ ~(reloading /\ p = "reloader")
      BY <1>3, <2>3 DEF PumpStore, Working, Driven
    <3>2. Driven' /\ pump' \in [Pumps -> AnyPump] /\ pump'[p].at = "spawn" /\ pump'[p].revision = pump[p].revision
      BY <1>1, <1>3, <3>1, PumpGoes DEF PumpSteps
    <3>3. pump[p].revision \in Nat /\ pump[p].revision <= revision
      BY <1>3, <1>4 DEF EventShapes, AnyPump, Begun
    <3> QED  BY <1>1, <3>1, <3>2, <3>3 DEF NoStuckBusy
  <2> QED  BY <2>1, <2>2, <2>3
<1>6. EventShapes'
  BY <1>1, <1>3, <1>5, SamePlan DEF EventShapes
<1> QED  BY <1>1, <1>2, <1>5, <1>6 DEF EventInv, MessageOnce

LEMMA OfferedKey ==
  ASSUME NEW s \in EventState, MaxKey \in Nat, Offered(s) # None
  PROVE  Offered(s) \in Nat \ {None}
BY DEF Offered, EventState, Keys, None

\* A pump takes the token of the occurrence it reserved.
LEMMA PumpReserves ==
  ASSUME EventShapes, Driven, Scheduled, NEW p \in Pumps, ~reloading, NEW e \in Events, NEW key \in Nat \ {None},
         NEW r \in Renderings(e),
         pump' = [pump EXCEPT ![p].at = "queue", ![p].token =
                    [of |-> Occurrence(e, key), generation |-> generation,
                     queueable |-> Recipe(e) \/ r = "message"]],
         UNCHANGED <<plan, generation, born, revision, reloading, jobs>>
  PROVE  /\ Driven' /\ pump' \in [Pumps -> AnyPump]
         /\ \A q \in Pumps : q # p => pump'[q] = pump[q]
<1> DEFINE t == [of |-> Occurrence(e, key), generation |-> generation, queueable |-> Recipe(e) \/ r = "message"]
           x == [pump[p] EXCEPT !.at = "queue", !.token = t]
<1>1. e \in Nat /\ born[e] \in Nat /\ born[e] <= generation /\ generation \in Nat
  BY PlanFacts DEF EventShapes, Scheduled
<1>2. /\ t \in AnyToken /\ t.of.event = e /\ t.of.key = key /\ t.of.born = born[e]
      /\ t.generation = generation
  BY <1>1 DEF AnyToken, AnyOccurrence, Occurrence
<1>3. t.queueable => Media(e)
  BY DEF Media, Recipe, Renderings
<1>4. pump' = [pump EXCEPT ![p] = x]
  BY DEF EventShapes
<1> HIDE DEF t
<1>5. TokenSound(t, pump[p].revision)
  BY <1>1, <1>2, <1>3 DEF TokenSound
<1>6. pump[p] \in AnyPump /\ Begun(pump[p].revision)
  BY DEF EventShapes, Driven
<1>7. x \in AnyPump /\ x.at = "queue" /\ x.revision = pump[p].revision /\ x.token = t
  BY <1>2, <1>6 DEF AnyPump, PumpSteps
<1> HIDE DEF x
<1> QED  BY <1>4, <1>5, <1>6, <1>7, PumpMoves

\* next_event: the due occurrences are captured and the oldest is reserved.
LEMMA PumpNextStep ==
  ASSUME EventInv, NEW p \in Pumps, PumpNext(p)
  PROVE  EventInv'
<1> DEFINE civil == pump[p].civil
           on_time == pump[p].wall >= lastTick
           seen == [e \in Events |-> IF on_time THEN Captured(e, events[e], civil) ELSE events[e]]
           replaced == IF on_time
                         THEN UNION {{Occurrence(e, k) : k \in Obsolete(e, events[e], civil)} : e \in Events}
                         ELSE {}
<1>1. /\ UNCHANGED <<plan, born, generation, sent, audible, revision, reloading, jobs, busy,
                     resent, wall, offset, behind, queue, old>>
      /\ cancelled' = cancelled \cup (replaced \ audible)
      /\ pump[p].at = "next" /\ ~reloading
  BY DEF PumpNext, engine, messages, clock, station, Run
<1>2. EventShapes /\ Driven /\ NoStuckBusy /\ Scheduled /\ plan \in Plans /\ Begun(pump[p].revision)
  BY DEF EventInv, EventShapes, Driven
<1>3. Dead \subseteq Dead' /\ replaced \subseteq Dead'
  BY <1>1 DEF Dead
<1>4. ASSUME NEW e \in Events
      PROVE  Carries(e, events[e], seen[e], Dead, Dead')
  <2>1. events[e] \in EventState /\ Sequenced(e, events[e], Dead)
    BY <1>2 DEF EventShapes, Scheduled
  <2>2. CASE on_time
    <3>1. \A k \in Obsolete(e, events[e], civil) : Occurrence(e, k) \in Dead'
      BY <1>3, <2>2
    <3> QED  BY <1>2, <1>3, <2>1, <2>2, <3>1, CapturedCarries
  <2>3. CASE ~on_time
    BY <1>2, <1>3, <2>1, <2>3, SameCarries
  <2> QED  BY <2>2, <2>3
<1>5. seen \in [Events -> EventState]
  BY <1>4 DEF Carries
<1>6. ASSUME \A x \in Events : Carries(x, seen[x], events'[x], Dead', Dead')
      PROVE  Scheduled'
  <2>1. \A x \in Events : Carries(x, events[x], events'[x], Dead, Dead')
    BY <1>4, <1>6 DEF Carries
  <2> QED  BY <1>1, <1>2, <2>1, SchedulerStep
<1>7. \A x \in Events : Carries(x, seen[x], seen[x], Dead', Dead')
  BY <1>2, <1>4, SameCarries DEF Carries
<1> SUFFICES /\ events' \in [Events -> EventState] /\ Scheduled'
             /\ Driven' /\ pump' \in [Pumps -> AnyPump] /\ \A q \in Pumps : q # p => pump'[q] = pump[q]
  <2>1. EventShapes'
    BY <1>1, <1>2, SamePlan DEF EventShapes
  <2>2. NoStuckBusy'
    BY <1>1, <1>2, BusyStays
  <2> QED  BY <1>1, <2>1, <2>2 DEF EventInv, MessageOnce
<1>8. CASE LeavePump(p) /\ events' = seen
  BY <1>1, <1>2, <1>5, <1>6, <1>7, <1>8, PumpLeaves
<1>9. ASSUME NEW e \in Events, Selected(seen, e),
             \E r \in Renderings(e) :
               IF r = "error" THEN events' = [seen EXCEPT ![e] = Spent(@)] /\ LeavePump(p)
               ELSE /\ events' = [seen EXCEPT ![e] = Reserved(@, r = "message")]
                    /\ pump' = [pump EXCEPT ![p].at = "queue", ![p].token =
                                  [of |-> Occurrence(e, Offered(seen[e])), generation |-> generation,
                                   queueable |-> Recipe(e) \/ r = "message"]]
      PROVE  /\ events' \in [Events -> EventState] /\ Scheduled'
             /\ Driven' /\ pump' \in [Pumps -> AnyPump] /\ \A q \in Pumps : q # p => pump'[q] = pump[q]
  <2>1. Offered(seen[e]) # None
    BY <1>9 DEF Selected
  <2>2. seen[e] \in EventState /\ Sequenced(e, seen[e], Dead')
    BY <1>4, <1>5, <2>1 DEF Carries
  <2>3. CASE events' = [seen EXCEPT ![e] = Spent(@)] /\ LeavePump(p)
    <3>1. Carries(e, seen[e], Spent(seen[e]), Dead', Dead')
      BY <1>2, <2>1, <2>2, SpentCarries
    <3>2. events' \in [Events -> EventState] /\ \A x \in Events : Carries(x, seen[x], events'[x], Dead', Dead')
      BY <1>5, <1>7, <2>1, <2>3, <3>1 DEF Carries
    <3> QED  BY <1>1, <1>2, <1>6, <2>3, <3>2, PumpLeaves
  <2>4. ASSUME NEW r \in Renderings(e), events' = [seen EXCEPT ![e] = Reserved(@, r = "message")],
               pump' = [pump EXCEPT ![p].at = "queue", ![p].token =
                          [of |-> Occurrence(e, Offered(seen[e])), generation |-> generation,
                           queueable |-> Recipe(e) \/ r = "message"]]
        PROVE  /\ events' \in [Events -> EventState] /\ Scheduled'
               /\ Driven' /\ pump' \in [Pumps -> AnyPump] /\ \A q \in Pumps : q # p => pump'[q] = pump[q]
    <3>1. Carries(e, seen[e], Reserved(seen[e], r = "message"), Dead', Dead')
      BY <1>2, <2>1, <2>2, ReservedCarries
    <3>2. events' \in [Events -> EventState] /\ \A x \in Events : Carries(x, seen[x], events'[x], Dead', Dead')
      BY <1>5, <1>7, <2>1, <2>4, <3>1 DEF Carries
    <3>3. Offered(seen[e]) \in Nat \ {None}
      BY <1>2, <2>1, <2>2, OfferedKey, PlanFacts
    <3>4. /\ Driven' /\ pump' \in [Pumps -> AnyPump] /\ \A q \in Pumps : q # p => pump'[q] = pump[q]
      BY <1>1, <1>2, <2>4, <3>3, PumpReserves
    <3> QED  BY <1>6, <3>2, <3>4
  <2> QED  BY <1>9, <2>3, <2>4
<1> QED  BY <1>8, <1>9 DEF PumpNext

\* queue_event: a message that is queued was not queued before.
LEMMA QueueMessageStep ==
  ASSUME EventInv, NEW t \in AnyToken, NEW r, TokenSound(t, r), Current(t), QueueMessage(t),
         UNCHANGED <<plan, born, generation, cancelled, audible>>
  PROVE  /\ events' \in [Events -> EventState] /\ Scheduled'
         /\ sent' \subseteq AnyOccurrence /\ sent \subseteq sent' /\ queue' \in Seq(sent') /\ MessageOnce'
<1> DEFINE e == t.of.event
           s == events[e]
<1>1. /\ EventShapes /\ Scheduled /\ plan \in Plans /\ e \in Events /\ s \in EventState
      /\ Sequenced(e, s, Dead) /\ Dead' = Dead /\ MessageOnce
  BY DEF EventInv, EventShapes, Scheduled, TokenSound, Dead
<1>2. /\ t.of \in AnyOccurrence /\ t.of.event = e /\ t.of.born = born[e] /\ t.of.key = s.pending /\ s.pending # None
      /\ t.of.born <= generation
  BY <1>1 DEF AnyToken, Current, TokenSound, EventShapes, Scheduled
<1>3. \A x \in Events : Carries(x, events[x], events[x], Dead, Dead)
  BY <1>1, SameCarries DEF EventShapes, Scheduled
<1>4. CASE s.queued \/ (t.of \notin cancelled /\ ~t.queueable)
  <2>1. UNCHANGED <<events, queue, resent, sent>>
    BY <1>4 DEF QueueMessage
  <2>2. Scheduled'
    BY <1>1, <1>3, <2>1, SchedulerStep
  <2> QED  BY <1>1, <2>1, <2>2, SamePlan DEF EventShapes, MessageOnce
<1>5. CASE ~s.queued /\ t.of \in cancelled
  <2>1. events' = [events EXCEPT ![e] = Admitted(e, s)] /\ UNCHANGED <<queue, resent, sent>>
    BY <1>5 DEF QueueMessage
  <2>2. Carries(e, s, Admitted(e, s), Dead, Dead)
    BY <1>1, <1>2, <1>5, AdmittedCarries, ActionCarries
  <2>3. events' \in [Events -> EventState] /\ \A x \in Events : Carries(x, events[x], events'[x], Dead, Dead)
    BY <1>1, <1>3, <2>1, <2>2 DEF EventShapes, Carries
  <2>4. Scheduled'
    BY <1>1, <2>1, <2>3, SchedulerStep
  <2> QED  BY <1>1, <2>1, <2>3, <2>4, SamePlan DEF EventShapes, MessageOnce
<1>6. CASE ~s.queued /\ t.of \notin cancelled /\ t.queueable
  <2>1. Media(e) /\ events' = [events EXCEPT ![e] = Admitted(e, s)]
    BY <1>6 DEF QueueMessage, TokenSound
  <2>2. /\ Carries(e, s, Admitted(e, s), Dead, Dead)
        /\ ~Accounted(t.of, s, Dead) /\ Accounted(t.of, Admitted(e, s), Dead)
    <3> HIDE DEF e, s
    <3>1. /\ Carries(e, s, Admitted(e, s), Dead, Dead)
          /\ \A o \in AnyOccurrence : o.event = e /\ o.born = born[e] /\ o.key = s.pending =>
               ~Accounted(o, s, Dead) /\ Accounted(o, Admitted(e, s), Dead)
      BY <1>1, <1>2, <1>6, <2>1, AdmittedCarries
    <3> QED  BY <1>2, <3>1
  <2>3. events' \in [Events -> EventState] /\ \A x \in Events : Carries(x, events[x], events'[x], Dead, Dead)
    BY <1>1, <1>3, <2>1, <2>2 DEF EventShapes, Carries
  <2>4. t.of \notin sent
    BY <1>1, <1>2, <2>2 DEF Scheduled, SentOnce
  <2>5. /\ sent' = sent \cup {t.of} /\ queue' = Append(queue, t.of)
        /\ resent' = resent \cup (sent \cap {t.of})
    BY <1>6 DEF QueueMessage
  <2>6. Accounted(t.of, events[e], Dead)'
    BY <1>1, <2>1, <2>2, SamePlan DEF Accounted, Newest, EventShapes
  <2>7. \A o \in sent' \ sent : SentOnce(o)'
    BY <1>1, <1>2, <2>5, <2>6, SamePlan DEF SentOnce
  <2>8. Scheduled'
    BY <1>1, <2>3, <2>7, SchedulerGrows
  <2>9. queue' \in Seq(sent')
    BY <1>1, <2>5 DEF EventShapes
  <2> QED  BY <1>1, <1>2, <2>3, <2>4, <2>5, <2>8, <2>9, SamePlan DEF EventShapes, MessageOnce
<1> QED  BY <1>4, <1>5, <1>6

\* queue_event and event_command.
LEMMA PumpQueueStep ==
  ASSUME EventInv, NEW p \in Pumps, PumpQueue(p)
  PROVE  EventInv'
<1> DEFINE t == pump[p].token
<1>1. /\ UNCHANGED <<plan, born, generation, cancelled, audible, revision, reloading, jobs, busy,
                     wall, offset, behind, old>>
      /\ pump[p].at = "queue" /\ ~reloading
  BY DEF PumpQueue, cells, engine, clock, Run
<1>2. /\ EventShapes /\ Driven /\ NoStuckBusy /\ Scheduled /\ MessageOnce /\ Working(p)
      /\ t \in AnyToken /\ TokenSound(t, pump[p].revision) /\ old \in Seq(sent)
  BY <1>1 DEF EventInv, EventShapes, Driven, Working, AnyPump
<1> SUFFICES /\ events' \in [Events -> EventState] /\ Scheduled'
             /\ sent' \subseteq AnyOccurrence /\ sent \subseteq sent' /\ queue' \in Seq(sent') /\ MessageOnce'
             /\ Driven' /\ pump' \in [Pumps -> AnyPump] /\ \A q \in Pumps : q # p => pump'[q] = pump[q]
  <2>1. old' \in Seq(sent')
    BY <1>1, <1>2
  <2>2. EventShapes'
    BY <1>1, <1>2, <2>1, SamePlan DEF EventShapes
  <2>3. NoStuckBusy'
    BY <1>1, <1>2, BusyStays
  <2> QED  BY <1>1, <2>2, <2>3 DEF EventInv
<1>3. CASE LeavePump(p) /\ UNCHANGED <<events, queue, messages>>
  <2>1. UNCHANGED <<sent, resent, events, queue>>
    BY <1>3 DEF messages
  <2>2. Scheduled'
    BY <1>1, <1>2, <2>1, SchedulerRests
  <2>3. /\ Driven' /\ pump' \in [Pumps -> AnyPump]
        /\ \A q \in Pumps : q # p => pump'[q] = pump[q]
    BY <1>1, <1>2, <1>3, PumpLeaves
  <2> QED  BY <1>1, <1>2, <2>1, <2>2, <2>3, SamePlan DEF EventShapes, MessageOnce
<1>4. CASE Current(t) /\ QueueMessage(t) /\ \E step \in Commanded(t) : Goto(p, step)
  <2>1. Commanded(t) \subseteq PumpSteps
    <3>1. t.of.event \in Events
      BY <1>2 DEF TokenSound
    <3>2. Configured[t.of.event].op \in {"none", "immediate", "connect"}
      BY <1>2, <3>1, PlanFacts DEF EventShapes, Operations
    <3> QED  BY <3>2 DEF Commanded, PumpSteps
  <2>2. PICK step \in PumpSteps : Goto(p, step)
    BY <1>4, <2>1
  <2>3. /\ Driven' /\ pump' \in [Pumps -> AnyPump]
        /\ \A q \in Pumps : q # p => pump'[q] = pump[q]
    BY <1>1, <1>2, <2>2, PumpGoes
  <2>4. /\ events' \in [Events -> EventState] /\ Scheduled'
        /\ sent' \subseteq AnyOccurrence /\ sent \subseteq sent' /\ queue' \in Seq(sent') /\ MessageOnce'
    BY <1>1, <1>2, <1>4, QueueMessageStep
  <2> QED  BY <2>3, <2>4
<1> QED  BY <1>3, <1>4 DEF PumpQueue

\* What a pump's or a dial's operation may add to the operations carried out.
LEMMA PerformCurrent ==
  ASSUME NEW t, NEW r, TokenSound(t, r), CurrentRevision(r), Perform(t)
  PROVE  RunsCurrent
BY DEF TokenSound, CurrentRevision, Perform, RunsCurrent

\* A pump starts the dial, or gives it up because a reload has begun.
LEMMA PumpSpawnStep ==
  ASSUME EventInv, NEW p \in Pumps, PumpSpawn(p)
  PROVE  EventInv'
<1> DEFINE j == [by |-> p, token |-> pump[p].token, revision |-> pump[p].revision, at |-> "dial"]
<1>1. /\ UNCHANGED <<plan, born, generation, sent, events, cancelled, audible, revision, reloading,
                     resent, wall, offset, behind, queue, old>>
      /\ pump' = [pump EXCEPT ![p] = NoPump]
  BY DEF PumpSpawn, LeavePump, scheduler, engine, messages, clock, station, cells
<1>2. Scheduled'
  BY <1>1, SchedulerRests DEF EventInv
<1>3. /\ EventShapes /\ Driven /\ NoStuckBusy /\ pump[p] \in AnyPump
      /\ TokenSound(pump[p].token, pump[p].revision) /\ Begun(pump[p].revision)
  BY DEF EventInv, EventShapes, Driven, Working, PumpSpawn
<1>4. j \in AnyJob /\ j.token = pump[p].token /\ j.revision = pump[p].revision
  BY <1>3 DEF AnyJob, AnyPump
<1>5. jobs' \subseteq AnyJob /\ busy' \in Nat /\ busy' <= revision /\ NoStuckBusy'
  <2>1. CASE jobs' = jobs \cup {j} /\ UNCHANGED busy
    <3>1. pump'["ticker"] = pump["ticker"] \/ p = "ticker"
      BY <1>1, <1>3 DEF Pumps, EventShapes
    <3>2. pump'["reloader"] = pump["reloader"] \/ p = "reloader"
      BY <1>1, <1>3 DEF Pumps, EventShapes
    <3> HIDE DEF j
    <3>3. NoStuckBusy'
      BY <1>1, <1>3, <1>4, <2>1, <3>1, <3>2 DEF NoStuckBusy, Pumps
    <3> QED  BY <1>3, <1>4, <2>1, <3>3 DEF EventInv, EventShapes
  <2>2. CASE busy' = 0 /\ UNCHANGED jobs
    BY <1>1, <1>3, <2>2 DEF EventShapes, NoStuckBusy
  <2> QED  BY <2>1, <2>2 DEF PumpSpawn
<1>6. pump' \in [Pumps -> AnyPump]
  BY <1>1, <1>3, PumpPlaces DEF EventShapes
<1>7. Driven'
  <2>1. \A r : Begun(r)' <=> Begun(r)
    BY <1>1 DEF Begun
  <2>2. \A q \in Pumps : pump'[q] = pump[q] \/ (pump'[q].at = "idle" /\ pump'[q].revision = 0)
    BY <1>1, <1>3, PumpPlaces DEF EventShapes
  <2>3. Begun(0)
    BY <1>3 DEF Begun, EventShapes
  <2>4. ASSUME NEW q \in Pumps
        PROVE  (Begun(pump[q].revision) /\ (Working(q) => TokenSound(pump[q].token, pump[q].revision)))'
    BY <1>1, <1>3, <2>1, <2>2, <2>3, TokensRest DEF Driven, Working
  <2>5. \A x \in jobs' : x \in jobs \/ x = j
    BY DEF PumpSpawn
  <2> HIDE DEF j
  <2>6. ASSUME NEW x \in jobs'
        PROVE  (Begun(x.revision) /\ TokenSound(x.token, x.revision))'
    BY <1>1, <1>3, <1>4, <2>1, <2>5, TokensRest DEF Driven
  <2>7. reloading' => pump'["reloader"].at = "idle"
    BY <1>1, <1>3, <2>2 DEF Driven, Pumps
  <2> QED  BY <2>4, <2>6, <2>7 DEF Driven
<1>8. EventShapes'
  BY <1>1, <1>3, <1>5, <1>6, SamePlan DEF EventShapes
<1> QED  BY <1>1, <1>2, <1>5, <1>7, <1>8 DEF EventInv, MessageOnce

\* complete_event settles the occurrence a current token names.
LEMMA CompleteStep ==
  ASSUME EventInv, NEW t, NEW r, TokenSound(t, r), Complete(t) \/ UNCHANGED events,
         UNCHANGED <<plan, born, generation, sent, cancelled, audible>>
  PROVE  events' \in [Events -> EventState] /\ Scheduled'
<1> DEFINE e == t.of.event
<1>1. /\ EventShapes /\ Scheduled /\ plan \in Plans /\ e \in Events /\ events[e] \in EventState
      /\ Sequenced(e, events[e], Dead) /\ Dead' = Dead
  BY DEF EventInv, EventShapes, Scheduled, TokenSound, Dead
<1>2. \A x \in Events : Carries(x, events[x], events[x], Dead, Dead)
  BY <1>1, SameCarries DEF EventShapes, Scheduled
<1>3. CASE UNCHANGED events
  BY <1>1, <1>2, <1>3, SchedulerStep DEF EventShapes
<1>4. CASE Current(t) /\ events' = [events EXCEPT ![e] = Settled(e, events[e])]
  <2>1. events[e].pending # None
    BY <1>4 DEF Current, TokenSound
  <2>2. Carries(e, events[e], Settled(e, events[e]), Dead, Dead)
    BY <1>1, <2>1, SettledCarries
  <2>3. events' \in [Events -> EventState] /\ \A x \in Events : Carries(x, events[x], events'[x], Dead, Dead)
    BY <1>1, <1>2, <1>4, <2>2 DEF EventShapes, Carries
  <2> QED  BY <1>1, <2>3, SchedulerStep
<1> QED  BY <1>3, <1>4 DEF Complete

\* An operation that is carried out at once, and the settling of its event.
LEMMA PumpEndStep ==
  ASSUME EventInv, NEW p \in Pumps, PumpEffect(p) \/ PumpComplete(p)
  PROVE  EventInv' /\ RunsCurrent
<1> DEFINE t == pump[p].token
<1>1. /\ UNCHANGED <<plan, born, generation, sent, cancelled, audible, revision, reloading, jobs, busy,
                     resent, wall, offset, behind, queue, old>>
      /\ ~reloading /\ pump[p].at \in {"effect", "complete"}
  BY DEF PumpEffect, PumpComplete, scheduler, cells, engine, messages, clock, station, Run
<1>2. /\ EventShapes /\ Driven /\ NoStuckBusy /\ Scheduled /\ MessageOnce /\ Working(p)
      /\ TokenSound(t, pump[p].revision) /\ Begun(pump[p].revision)
  BY <1>1 DEF EventInv, Driven, Working
<1>3. events' \in [Events -> EventState] /\ Scheduled'
  <2>1. Complete(t) \/ UNCHANGED events
    BY DEF PumpEffect, PumpComplete, scheduler
  <2> QED  BY <1>1, <1>2, <2>1, CompleteStep
<1>4. /\ Driven' /\ pump' \in [Pumps -> AnyPump]
      /\ \A q \in Pumps : q # p => pump'[q] = pump[q]
  <2>1. CASE PumpEffect(p)
    <3>1. Goto(p, "complete") /\ "complete" \in PumpSteps
      BY <2>1 DEF PumpEffect, PumpSteps
    <3> QED  BY <1>1, <1>2, <3>1, PumpGoes
  <2>2. CASE PumpComplete(p)
    <3> DEFINE x == [pump[p] EXCEPT !.at = "next", !.token = NoToken]
    <3>1. pump[p] \in AnyPump
      BY <1>2 DEF EventShapes
    <3>2. x \in AnyPump /\ x.at = "next" /\ x.revision = pump[p].revision
      BY <3>1 DEF NoToken, AnyPump, AnyToken, AnyOccurrence, PumpSteps
    <3>3. pump' = [pump EXCEPT ![p] = x]
      BY <1>2, <2>2 DEF PumpComplete, EventShapes
    <3> HIDE DEF x
    <3> QED  BY <1>1, <1>2, <3>2, <3>3, PumpMoves
  <2> QED  BY <2>1, <2>2
<1>5. EventShapes'
  BY <1>1, <1>2, <1>3, <1>4, SamePlan DEF EventShapes
<1>6. NoStuckBusy'
  BY <1>1, <1>2, <1>4, BusyStays
<1>7. RunsCurrent
  <2>1. CASE UNCHANGED effects
    BY <2>1 DEF effects, RunsCurrent
  <2>2. CASE CurrentRevision(pump[p].revision) /\ Perform(t)
    BY <1>2, <2>2, PerformCurrent
  <2> QED  BY <2>1, <2>2 DEF PumpEffect, PumpComplete
<1> QED  BY <1>1, <1>2, <1>3, <1>4, <1>5, <1>6, <1>7 DEF EventInv, MessageOnce

\* A dial thread: its answer, the settling of its event, its end.
LEMMA DialStep ==
  ASSUME EventInv, NEW j \in jobs, Dial(j)
  PROVE  EventInv' /\ RunsCurrent
<1>1. /\ UNCHANGED <<plan, born, generation, sent, cancelled, audible, revision, reloading, pump,
                     resent, wall, offset, behind, queue, old>>
  BY DEF Dial, DialFinish, DialComplete, DialClear, scheduler, cells, engine, messages, clock, station
<1>2. /\ EventShapes /\ Driven /\ NoStuckBusy /\ Scheduled /\ MessageOnce /\ j \in AnyJob
      /\ TokenSound(j.token, j.revision) /\ Begun(j.revision)
  BY DEF EventInv, EventShapes, Driven
<1>3. events' \in [Events -> EventState] /\ Scheduled'
  <2>1. Complete(j.token) \/ UNCHANGED events
    BY DEF Dial, DialFinish, DialComplete, DialClear, scheduler
  <2> QED  BY <1>1, <1>2, <2>1, CompleteStep
<1>4. \A step \in {"complete", "clear"} :
        LET k == [j EXCEPT !.at = step]
        IN  k \in AnyJob /\ k.token = j.token /\ k.revision = j.revision
  BY <1>2 DEF AnyJob
<1>5. CASE DialFinish(j) \/ DialComplete(j)
  <2>1. PICK step \in {"complete", "clear"} : Advance(j, step)
    BY <1>5 DEF DialFinish, DialComplete
  <2>2. PICK k \in AnyJob : k.token = j.token /\ k.revision = j.revision /\ jobs' = (jobs \ {j}) \cup {k}
    BY <1>4, <2>1 DEF Advance
  <2>3. UNCHANGED busy
    BY <1>5 DEF DialFinish, DialComplete
  <2>4. jobs' \subseteq AnyJob /\ NoStuckBusy'
    BY <1>1, <1>2, <2>2, <2>3 DEF EventShapes, NoStuckBusy
  <2>5. Driven'
    BY <1>1, <1>2, <2>2, TokensRest DEF Driven, Begun, Working
  <2>6. EventShapes'
    BY <1>1, <1>2, <1>3, <2>3, <2>4, SamePlan DEF EventShapes
  <2>7. RunsCurrent
    <3>1. CASE UNCHANGED effects
      BY <3>1 DEF effects, RunsCurrent
    <3>2. CASE CurrentRevision(j.revision) /\ Perform(j.token)
      BY <1>2, <3>2, PerformCurrent
    <3> QED  BY <1>5, <3>1, <3>2 DEF DialFinish, DialComplete
  <2> QED  BY <1>1, <1>2, <1>3, <2>3, <2>4, <2>5, <2>6, <2>7 DEF EventInv, MessageOnce
<1>6. CASE DialClear(j)
  <2>1. jobs' = jobs \ {j} /\ busy' = (IF busy = j.revision THEN 0 ELSE busy) /\ UNCHANGED effects
    BY <1>6 DEF DialClear
  <2>2. jobs' \subseteq AnyJob /\ busy' \in Nat /\ busy' <= revision /\ NoStuckBusy'
    BY <1>1, <1>2, <2>1 DEF EventShapes, NoStuckBusy, EventInv
  <2>3. Driven'
    BY <1>1, <1>2, <2>1, TokensRest DEF Driven, Begun, Working
  <2>4. EventShapes'
    BY <1>1, <1>2, <1>3, <2>2, SamePlan DEF EventShapes
  <2> QED  BY <1>1, <1>2, <1>3, <2>1, <2>2, <2>3, <2>4 DEF EventInv, MessageOnce, effects, RunsCurrent
<1> QED  BY <1>5, <1>6 DEF Dial

\* A reload begins: what is under way is of an earlier revision.
LEMMA BeginReloadStep ==
  ASSUME EventInv, StartReload
  PROVE  EventInv'
<1>1. /\ UNCHANGED <<plan, born, generation, sent, events, cancelled, audible, pump, jobs, busy,
                     resent, wall, offset, behind, queue, old>>
      /\ reloading' = TRUE /\ revision' = revision + 1 /\ ~reloading /\ pump["reloader"].at = "idle"
  BY DEF StartReload, scheduler, messages, clock, station, cells
<1>2. EventShapes /\ Driven /\ Scheduled /\ MessageOnce /\ revision \in Nat /\ busy <= revision /\ busy \in Nat
  BY DEF EventInv, EventShapes
<1>3. Scheduled'
  BY <1>1, <1>2, SchedulerRests
<1>4. EventShapes'
  BY <1>1, <1>2, SamePlan DEF EventShapes
<1>5. \A r \in Nat : Begun(r) => Begun(r)'
  BY <1>1, <1>2 DEF Begun
<1>6. \A t, r : r \in Nat /\ Begun(r) /\ TokenSound(t, r) => TokenSound(t, r)'
  BY <1>1, <1>2, SamePlan DEF TokenSound, Begun
<1>7. (\A p \in Pumps : pump[p].revision \in Nat) /\ (\A j \in jobs : j.revision \in Nat)
  BY <1>2 DEF EventShapes, AnyPump, AnyJob
<1>8. \A p \in Pumps : (Begun(pump[p].revision) /\ (Working(p) => TokenSound(pump[p].token, pump[p].revision)))'
  BY <1>1, <1>2, <1>5, <1>6, <1>7 DEF Driven, Working
<1>9. \A j \in jobs : (Begun(j.revision) /\ TokenSound(j.token, j.revision))'
  BY <1>1, <1>2, <1>5, <1>6, <1>7 DEF Driven
<1>10. Driven'
  BY <1>1, <1>8, <1>9 DEF Driven
<1> QED  BY <1>1, <1>2, <1>3, <1>4, <1>10 DEF EventInv, MessageOnce, NoStuckBusy

\* A reload fails.
LEMMA FailReloadStep ==
  ASSUME EventInv, FailReload
  PROVE  EventInv'
<1>1. /\ UNCHANGED <<plan, born, generation, sent, events, cancelled, audible, pump, jobs, busy, revision,
                     resent, wall, offset, behind, queue, old>>
      /\ reloading' = FALSE
  BY DEF FailReload, scheduler, messages, clock, station, cells
<1>2. EventShapes /\ Driven /\ Scheduled
  BY DEF EventInv
<1>3. Scheduled'
  BY <1>1, <1>2, SchedulerRests
<1>4. EventShapes'
  BY <1>1, <1>2, SamePlan DEF EventShapes
<1>5. Driven'
  BY <1>1, <1>2, TokensRest DEF Driven, Begun, Working
<1> QED  BY <1>1, <1>3, <1>4, <1>5 DEF EventInv, MessageOnce, NoStuckBusy

\* A reload commits: inherited identities keep their account, new ones have
\* nothing queued, and no token is of the new scheduler.
LEMMA CommitReloadStep ==
  ASSUME EventInv, CommitReload
  PROVE  EventInv'
<1>1. /\ UNCHANGED <<plan, sent, cancelled, audible, jobs, busy, revision, resent, wall, offset>>
      /\ reloading /\ reloading' = FALSE /\ generation' = generation + 1 /\ behind' = TRUE
      /\ queue' = <<>> /\ old' = IF behind THEN old ELSE queue
      /\ Goto("reloader", "start")
  BY DEF CommitReload, messages, clock, cells
<1>2. /\ EventShapes /\ Driven /\ Scheduled /\ plan \in Plans /\ generation \in Nat /\ Dead' = Dead
      /\ MessageOnce /\ "reloader" \in Pumps
  BY <1>1 DEF EventInv, EventShapes, Dead, Pumps
<1>3. PICK changed \in SUBSET Events :
        /\ events' = [e \in Events |-> IF e \in changed THEN Fresh ELSE Inherited(events[e])]
        /\ born' = [e \in Events |-> IF e \in changed THEN generation + 1 ELSE born[e]]
  BY DEF CommitReload
<1>4. ASSUME NEW e \in Events
      PROVE  /\ events'[e] \in EventState /\ events'[e].pending = None
             /\ born'[e] \in Nat /\ born'[e] <= generation + 1
             /\ e \in changed => events'[e] = Fresh /\ born'[e] = generation + 1
             /\ e \notin changed => born'[e] = born[e] /\ Carries(e, events[e], events'[e], Dead, Dead)
  <2>1. events[e] \in EventState /\ Sequenced(e, events[e], Dead) /\ born[e] \in Nat /\ born[e] <= generation
    BY <1>2 DEF EventShapes, Scheduled
  <2>2. Carries(e, events[e], Inherited(events[e]), Dead, Dead)
    BY <1>2, <2>1, InheritedCarries
  <2>3. Inherited(events[e]).pending = None
    BY DEF Inherited, Fresh
  <2>4. Fresh \in EventState /\ Fresh.pending = None
    BY DEF Fresh, EventState
  <2> HIDE DEF Fresh
  <2>5. CASE e \in changed
    <3>1. events'[e] = Fresh /\ born'[e] = generation + 1
      BY <1>3, <2>5
    <3> QED  BY <1>2, <2>4, <2>5, <3>1
  <2>6. CASE e \notin changed
    <3>1. events'[e] = Inherited(events[e]) /\ born'[e] = born[e]
      BY <1>3, <2>6
    <3>2. Inherited(events[e]) \in EventState
      BY <2>2 DEF Carries
    <3> QED  BY <1>2, <2>1, <2>2, <2>3, <2>6, <3>1, <3>2
  <2> QED  BY <2>5, <2>6
<1>5. events' \in [Events -> EventState] /\ born' \in [Events -> Nat]
  BY <1>3, <1>4
<1>6. ASSUME NEW e \in Events PROVE Sequenced(e, events[e], Dead)'
  <2>1. CASE e \in changed
    <3>1. events'[e] = Fresh
      BY <1>4, <2>1
    <3> QED  BY <3>1 DEF Sequenced, Fresh, None
  <2>2. CASE e \notin changed
    <3>1. Sequenced(e, events'[e], Dead) /\ events'[e].pending = None
      BY <1>4, <2>2 DEF Carries
    <3> QED  BY <1>1, <3>1, SamePlan DEF Sequenced
  <2> QED  BY <2>1, <2>2
<1>7. ASSUME NEW o \in sent PROVE SentOnce(o)'
  <2>1. o \in AnyOccurrence /\ SentOnce(o) /\ o.event \in Events /\ o.born \in Nat /\ o.born <= generation
    BY <1>2 DEF EventShapes, Scheduled, SentOnce, AnyOccurrence
  <2>2. ASSUME o.born = born'[o.event] PROVE Accounted(o, events[o.event], Dead)'
    <3>1. o.event \notin changed
      BY <1>2, <1>4, <2>1, <2>2
    <3>2. Accounted(o, events'[o.event], Dead)
      BY <1>4, <2>1, <2>2, <3>1 DEF Carries, SentOnce
    <3> QED  BY <1>1, <1>2, <3>2, SamePlan DEF Accounted, Newest
  <2>3. o.born <= generation'
    BY <1>1, <1>2, <2>1
  <2> QED  BY <1>1, <2>1, <2>2, <2>3, SamePlan DEF SentOnce
<1>8. Scheduled'
  BY <1>1, <1>4, <1>6, <1>7, SamePlan DEF Scheduled
<1>9. \A r \in Nat : Begun(r) => Begun(r)'
  BY <1>1, <1>2 DEF Begun, EventShapes
<1>10. \A t \in AnyToken, r \in Nat : Begun(r) /\ TokenSound(t, r) => TokenSound(t, r)'
  <2> TAKE t \in AnyToken, r \in Nat
  <2> HAVE Begun(r) /\ TokenSound(t, r)
  <2>1. r # revision /\ t.generation \in Nat /\ t.generation <= generation /\ t.generation # generation + 1
    BY <1>1, <1>2 DEF Begun, TokenSound, AnyToken, EventShapes
  <2> QED  BY <1>1, <1>2, <2>1, SamePlan DEF TokenSound
<1>11. /\ pump' \in [Pumps -> AnyPump] /\ pump'["reloader"].at = "start"
       /\ pump'["reloader"].revision = pump["reloader"].revision /\ pump'["ticker"] = pump["ticker"]
  <2> DEFINE x == [pump["reloader"] EXCEPT !.at = "start"]
  <2>1. x \in AnyPump /\ x.at = "start" /\ x.revision = pump["reloader"].revision /\ pump' = [pump EXCEPT !["reloader"] = x]
    BY <1>1, <1>2, PumpPlaces DEF PumpSteps
  <2> HIDE DEF x
  <2> QED  BY <1>2, <2>1 DEF EventShapes, Pumps
<1>12. ASSUME NEW p \in Pumps
       PROVE  (Begun(pump[p].revision) /\ (Working(p) => TokenSound(pump[p].token, pump[p].revision)))'
  <2>1. pump[p] \in AnyPump /\ pump[p].revision \in Nat /\ pump[p].token \in AnyToken
    BY <1>2 DEF EventShapes, AnyPump
  <2>2. Begun(pump[p].revision) /\ (Working(p) => TokenSound(pump[p].token, pump[p].revision))
    BY <1>2 DEF Driven
  <2>3. CASE p = "reloader"
    BY <1>9, <1>11, <2>1, <2>2, <2>3 DEF Working
  <2>4. CASE p = "ticker"
    BY <1>9, <1>10, <1>11, <2>1, <2>2, <2>4 DEF Working
  <2> QED  BY <2>3, <2>4 DEF Pumps
<1>13. \A j \in jobs : (Begun(j.revision) /\ TokenSound(j.token, j.revision))'
  BY <1>2, <1>9, <1>10 DEF Driven, EventShapes, AnyJob
<1>14. Driven'
  BY <1>1, <1>12, <1>13 DEF Driven
<1>15. NoStuckBusy'
  <2>1. \A p \in Pumps : pump[p].revision < revision
    BY <1>1, <1>2 DEF Driven, Begun
  <2>2. \A j \in jobs : j.revision < revision
    BY <1>1, <1>2 DEF Driven, Begun
  <2>3. busy # revision
    BY <1>2, <2>1, <2>2 DEF EventInv, NoStuckBusy, EventShapes
  <2> QED  BY <1>1, <2>3 DEF NoStuckBusy
<1>16. queue' \in Seq(sent') /\ old' \in Seq(sent')
  BY <1>1, <1>2 DEF EventShapes
<1>17. EventShapes'
  <2>1. UNCHANGED <<plan, sent, jobs, busy, revision, wall, offset>>
    BY <1>1
  <2>2. generation' \in Nat
    BY <1>1, <1>2
  <2>3. reloading' \in BOOLEAN /\ behind' \in BOOLEAN
    BY <1>1, Zenon
  <2> QED  BY <1>2, <1>5, <1>11, <1>16, <2>1, <2>2, <2>3, SamePlan DEF EventShapes
<1> QED  BY <1>1, <1>2, <1>8, <1>14, <1>15, <1>17 DEF EventInv, MessageOnce

-----------------------------------------------------------------------------
(* Scheduled events: theorems.                                              *)

LEMMA EventInit ==
  ASSUME Init
  PROVE  EventInv
<1>1. plan \in Plans /\ MaxKey \in Nat /\ plan.daylight \in 0 .. 1
  BY ConfiguredEvents DEF Init
<1>2. /\ Fresh \in EventState /\ Fresh.completed = None /\ Fresh.pending = None /\ Fresh.ready = None
      /\ NoPump \in AnyPump /\ NoPump.at = "idle" /\ NoPump.revision = 0
  BY DEF Fresh, EventState, NoPump, NoToken, AnyPump, AnyToken, AnyOccurrence, PumpSteps
<1> HIDE DEF Fresh, NoPump
<1>3. EventShapes
  <2>1. born \in [Events -> Nat] /\ events \in [Events -> EventState] /\ pump \in [Pumps -> AnyPump]
    BY <1>2 DEF Init
  <2>2. queue \in Seq(sent) /\ old \in Seq(sent) /\ sent \subseteq AnyOccurrence /\ jobs \subseteq AnyJob
    BY DEF Init
  <2>3. reloading \in BOOLEAN /\ behind \in BOOLEAN
    BY Zenon DEF Init
  <2>4. wall \in Nat /\ offset \in 0 .. 1 /\ generation \in Nat /\ revision \in Nat \ {0} /\ busy \in Nat
    BY <1>1 DEF Init, Daylight
  <2> QED  BY <1>1, <2>1, <2>2, <2>3, <2>4 DEF EventShapes
<1>4. Scheduled
  BY <1>1, <1>2 DEF Init, Scheduled, Sequenced
<1>5. Driven
  BY <1>2 DEF Init, Driven, Begun, Working
<1> QED  BY <1>3, <1>4, <1>5 DEF Init, EventInv, NoStuckBusy, MessageOnce

LEMMA EventStep ==
  ASSUME EventInv, [Next]_vars
  PROVE  EventInv' /\ StartsNewest /\ RunsCurrent
<1>1. CASE Tick \/ Correct \/ FallBack \/ Adopt \/ AudioRetire
  <2>1. UNCHANGED <<audible, ran>>
    BY <1>1 DEF Tick, Correct, FallBack, Adopt, AudioRetire, cells, effects
  <2> QED  BY <1>1, <2>1, ClockStep DEF StartsNewest, RunsCurrent
<1>2. CASE AudioStart
  <2>1. UNCHANGED ran
    BY <1>2 DEF AudioStart, effects
  <2> QED  BY <1>2, <2>1, AudioStartStep DEF RunsCurrent
<1>3. ASSUME NEW p \in Pumps, BeginPump(p) \/ Refused(p) \/ PumpStore(p)
      PROVE  EventInv' /\ StartsNewest /\ RunsCurrent
  <2>1. UNCHANGED <<audible, ran>>
    BY <1>3 DEF BeginPump, Refused, PumpStore, cells, effects
  <2> QED  BY <1>3, <2>1, PumpControlStep DEF StartsNewest, RunsCurrent
<1>4. ASSUME NEW p \in Pumps, PumpNext(p)
      PROVE  EventInv' /\ StartsNewest /\ RunsCurrent
  <2>1. UNCHANGED <<audible, ran>>
    BY <1>4 DEF PumpNext, effects
  <2> QED  BY <1>4, <2>1, PumpNextStep DEF StartsNewest, RunsCurrent
<1>5. ASSUME NEW p \in Pumps, PumpQueue(p)
      PROVE  EventInv' /\ StartsNewest /\ RunsCurrent
  <2>1. UNCHANGED <<audible, ran>>
    BY <1>5 DEF PumpQueue, cells, effects
  <2> QED  BY <1>5, <2>1, PumpQueueStep DEF StartsNewest, RunsCurrent
<1>6. ASSUME NEW p \in Pumps, PumpSpawn(p)
      PROVE  EventInv' /\ StartsNewest /\ RunsCurrent
  <2>1. UNCHANGED <<audible, ran>>
    BY <1>6 DEF PumpSpawn, cells, effects
  <2> QED  BY <1>6, <2>1, PumpSpawnStep DEF StartsNewest, RunsCurrent
<1>7. ASSUME NEW p \in Pumps, PumpEffect(p) \/ PumpComplete(p)
      PROVE  EventInv' /\ StartsNewest /\ RunsCurrent
  <2>1. UNCHANGED audible
    BY <1>7 DEF PumpEffect, PumpComplete, cells
  <2> QED  BY <1>7, <2>1, PumpEndStep DEF StartsNewest
<1>8. ASSUME NEW j \in jobs, Dial(j)
      PROVE  EventInv' /\ StartsNewest /\ RunsCurrent
  <2>1. UNCHANGED audible
    BY <1>8 DEF Dial, DialFinish, DialComplete, DialClear, cells
  <2> QED  BY <1>8, <2>1, DialStep DEF StartsNewest
<1>9. CASE StartReload \/ CommitReload \/ FailReload
  <2>1. UNCHANGED <<audible, ran>>
    BY <1>9 DEF StartReload, CommitReload, FailReload, cells, effects
  <2> QED  BY <1>9, <2>1, BeginReloadStep, CommitReloadStep, FailReloadStep DEF StartsNewest, RunsCurrent
<1>10. CASE UNCHANGED vars
  <2>1. UNCHANGED <<plan, born, generation, sent, events, cancelled, audible, pump, jobs, busy, revision,
                    resent, wall, offset, behind, queue, old, reloading, ran>>
    BY <1>10 DEF vars
  <2>2. EventShapes'
    BY <2>1, SamePlan DEF EventInv, EventShapes
  <2>3. Scheduled'
    BY <2>1, SchedulerRests DEF EventInv
  <2>4. Driven'
    BY <2>1, TokensRest DEF EventInv, Driven, Begun, Working
  <2> QED  BY <2>1, <2>2, <2>3, <2>4 DEF EventInv, NoStuckBusy, MessageOnce, StartsNewest, RunsCurrent
<1> QED  BY <1>1, <1>2, <1>3, <1>4, <1>5, <1>6, <1>7, <1>8, <1>9, <1>10 DEF Next, Pump

\* For any schedule, any number of reloads, refusals and clock corrections: an
\* occurrence's message enters a status queue at most once (queue_event), and
\* event_busy is cleared by the dial that is to clear it.
THEOREM EventsSafe == Spec => []EventsOnce
<1>1. EventInv /\ [Next]_vars => EventInv'
  BY EventStep
<1>2. EventInv => EventsOnce
  BY DEF EventInv, EventsOnce
<1> QED  BY <1>1, <1>2, EventInit, PTL DEF Spec

\* For any schedule: no step makes an occurrence audible once a newer one of the
\* same identity is captured, and no step carries out an operation of a
\* configuration that a reload has replaced.
THEOREM EventStepsCurrent == Spec => EventsCurrent
<1>1. EventInv /\ [Next]_vars => EventInv'
  BY EventStep
<1>2. EventInv /\ [Next]_vars => [StartsNewest /\ RunsCurrent]_vars
  BY EventStep
<1> QED  BY <1>1, <1>2, EventInit, PTL DEF Spec, EventsCurrent
=============================================================================
