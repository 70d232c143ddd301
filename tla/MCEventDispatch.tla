-------------------------- MODULE MCEventDispatch ---------------------------
(***************************************************************************)
(* Stations for EventDispatch.                                             *)
(***************************************************************************)
EXTENDS EventDispatch

Station(configured, slots, last, corrected, daylight, tried, refused) ==
  [events |-> configured, slots |-> slots, wall |-> last, corrections |-> corrected,
   daylight |-> daylight, reloads |-> tried, refusals |-> refused]

\* A message every minute, over a correction of the clock or the fall-back hour.
Corrected == Station(<<[due |-> 1 .. 3, kind |-> "template", op |-> "none"]>>, 1, 2, 1, 0, 1, 0)
RepeatedHour == Station(<<[due |-> 1 .. 3, kind |-> "template", op |-> "none"]>>, 1, 2, 0, 1, 1, 0)

\* A message under a refusal, in a queue of two.
FullExecutor == Station(<<[due |-> 1 .. 2, kind |-> "template", op |-> "none"]>>, 2, 2, 0, 0, 1, 1)

\* Links only: an event that dials, and one with a macro and a silent template.
Links ==
  Station(<<[due |-> {2}, kind |-> "action", op |-> "connect"],
            [due |-> {1}, kind |-> "silent", op |-> "immediate"]>>, 1, 2, 0, 0, 0, 0)

\* A message with a macro, and an event that dials.
Both ==
  Station(<<[due |-> {2}, kind |-> "action", op |-> "connect"],
            [due |-> 1 .. 2, kind |-> "recipe", op |-> "immediate"]>>, 1, 2, 0, 0, 1, 0)

\* One occurrence: of a dial, of a message with a macro and of a silent macro,
\* under a reload; of a message that also dials, under a refusal; and of a silent
\* macro, over a correction and the fall-back hour.
Once(kind, operation, last, corrected, daylight, tried, refused) ==
  Station(<<[due |-> {1}, kind |-> kind, op |-> operation]>>, 1, last, corrected, daylight, tried, refused)
OneDial == Once("action", "connect", 1, 0, 0, 1, 0)
OneMessage == Once("recipe", "immediate", 1, 0, 0, 1, 1)
OneMacro == Once("silent", "immediate", 1, 0, 0, 1, 0)
MessageAndDial == Once("recipe", "connect", 1, 0, 0, 0, 1)
QuietMacro == Once("silent", "immediate", 2, 1, 1, 0, 0)

SafetyPlans == {Corrected, RepeatedHour, FullExecutor, Links, OneDial, OneMacro}
LivePlans == {OneDial, OneMessage, MessageAndDial, QuietMacro}
ReloadPlans == {Both}
=============================================================================
