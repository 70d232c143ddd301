------------------------ MODULE MCMessagePreparation ------------------------
(***************************************************************************)
(* Instances of MessagePreparation for TLC.                                *)
(***************************************************************************)
EXTENDS MessagePreparation

\* The safety run interrupts a recurring message with a receiver; a one-shot one
\* is played, deferred, held and cancelled without, and is neither restarted nor
\* rewound.
RecurringCalls ==
  \E p \in Recurring :
    \/ \E receiving, room \in BOOLEAN : Render(p, receiving, room)
    \/ \E receiving \in BOOLEAN : Restart(p, receiving) \/ Defer(p, receiving)
    \/ \E q \in Recurring : Rewind(p, q)
    \/ Hold(p) \/ Cancel(p)
OneShotCalls ==
  \E p \in OneShot :
    Render(p, FALSE, TRUE) \/ Defer(p, FALSE) \/ Hold(p) \/ Cancel(p) \/ ReturnReader(p)

InterruptedNext == RecurringCalls \/ OneShotCalls \/ Steps \/ Control
InterruptedSpec == PrepareInit /\ [][InterruptedNext]_prepareVars

\* The liveness run plays and cancels items without a receiver: nothing is
\* deferred, held or switched to Morse.
QuietCalls == \E p \in Readers : Render(p, FALSE, TRUE) \/ Cancel(p)

QuietNext == QuietCalls \/ CancelStep \/ BeginStep \/ ReadStep \/ Pump
=============================================================================
