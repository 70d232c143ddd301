--------------------------- MODULE EventScheduler ---------------------------
(***************************************************************************)
(* The reservation rules of core/src/runtime/scheduler.rs as operators on  *)
(* the state of one configured event.                                      *)
(*                                                                         *)
(* An occurrence is named by its key, the civil minute it is due in; 0 is  *)
(* Rust's None.  A media event owns a MessageOccurrence per occurrence,    *)
(* the cell in which control's cancellation and the audio thread's first   *)
(* sample race.                                                            *)
(***************************************************************************)
EXTENDS Naturals, Sequences, FiniteSets, FiniteSetsExt

CONSTANTS
  Plans,        \* the stations checked, with the bounds of each
  MaxKey        \* the last civil minute

VARIABLE plan   \* the station of this behaviour

\* The events in configuration order: a sequence of
\* [due : civil minutes, kind : Kinds, op : Operations].
Configured == plan.events

\* What an event says: nothing, a template's text, a template without a character
\* that Morse can send, or a prepared recipe.
Kinds == {"action", "template", "silent", "recipe"}
Operations == {"none", "immediate", "connect"}

Events == DOMAIN Configured
Keys == 1 .. MaxKey
None == 0

ASSUME ConfiguredEvents ==
  /\ MaxKey \in Nat
  /\ \A p \in Plans : /\ p.events \in Seq([due : SUBSET Keys, kind : Kinds, op : Operations])
                      /\ p.daylight \in 0 .. 1

Media(e) == Configured[e].kind # "action"
Recipe(e) == Configured[e].kind = "recipe"

EventState ==
  [completed : Keys \cup {None}, ready : Keys \cup {None}, pending : Keys \cup {None},
   admitted : Keys \cup {None}, queued : BOOLEAN, required : BOOLEAN]

Fresh == [completed |-> None, ready |-> None, pending |-> None, admitted |-> None,
          queued |-> FALSE, required |-> FALSE]

\* Mutant: a reload makes every reservation ready again, a queued message too.
InheritedReady(s) ==
  [Fresh EXCEPT !.completed = s.completed, !.admitted = s.admitted,
                !.ready = IF s.ready # None THEN s.ready ELSE s.pending]

\* The state of an event whose identity survives a reload.
Inherited(s) ==
  [Fresh EXCEPT
     !.completed = IF s.queued /\ s.pending # None THEN s.pending ELSE s.completed,
     !.ready = IF s.ready # None THEN s.ready ELSE IF s.queued THEN None ELSE s.pending,
     !.admitted = s.admitted]

\* The newest occurrence an event knows of.
Newest(s) == Max({s.completed, s.pending, s.ready})

\* Does the civil minute `key' give event e a new occurrence?
NewOccurrence(e, s, key) ==
  /\ key \in Configured[e].due
  /\ IF Media(e) THEN key > Newest(s)
                 ELSE s.pending = None /\ s.ready = None /\ key # s.completed

\* The event after it looked at the minute.
Captured(e, s, key) ==
  IF NewOccurrence(e, s, key) THEN [s EXCEPT !.ready = key] ELSE s

\* Mutant: a message that is already queued is not replaced.
ObsoleteReserved(e, s, key) ==
  IF Media(e) /\ NewOccurrence(e, s, key) THEN {s.pending, s.ready} \ {None} ELSE {}

\* The occurrences a new one makes obsolete: cancelled unless already audible.
Obsolete(e, s, key) ==
  IF Media(e) /\ NewOccurrence(e, s, key)
    THEN {s.pending, s.ready, s.admitted} \ {None}
    ELSE {}

\* The occurrence an event offers for dispatch.
Offered(s) == IF s.pending # None THEN s.pending ELSE s.ready

\* Event e offers the oldest occurrence, the first in configuration order among equals.
Selected(states, e) ==
  /\ Offered(states[e]) # None
  /\ \A f \in Events :
       \/ Offered(states[f]) = None
       \/ Offered(states[e]) < Offered(states[f])
       \/ Offered(states[e]) = Offered(states[f]) /\ e <= f

\* The selected event once its content is rendered.
Reserved(s, required) ==
  IF s.pending = None
    THEN [s EXCEPT !.pending = s.ready, !.ready = None, !.queued = FALSE, !.required = required]
    ELSE [s EXCEPT !.required = required]

\* The selected event when rendering fails: its occurrence is spent.
Spent(s) ==
  [s EXCEPT !.completed = Offered(s), !.pending = None, !.queued = FALSE,
            !.ready = IF @ = Offered(s) THEN None ELSE @]

\* Telemetry took the message, or it was cancelled before that.
Admitted(e, s) ==
  [s EXCEPT !.queued = TRUE, !.admitted = IF Media(e) THEN s.pending ELSE None]

\* complete_event: nothing happens while a message is still to be queued.
Settled(e, s) ==
  IF (s.required \/ Recipe(e)) /\ ~s.queued
    THEN s
    ELSE [s EXCEPT !.completed = s.pending, !.pending = None, !.queued = FALSE]
=============================================================================
