------------------------------ MODULE SitePolicy ------------------------------
(***************************************************************************)
(* The site policy of one station: a calibrated sensor, a debounced input, *)
(* an alarm with trip and clear persistence, an output with pulses and a   *)
(* fan that may claim it, all advanced on station control against one      *)
(* monotonic clock, and the demand the host passes on to the equipment.    *)
(* The state is one record and each part of the controller a function from *)
(* record to record; every call applies them in the code's order.  Smoothed*)
(* values, extrema, duty curves and the tachometer fault are left out.     *)
(***************************************************************************)
EXTENDS Naturals, Sequences, FiniteSets

CONSTANTS PolicyPlans,  \* [policies, sensor, input, avail, ptt, commands]
          MaxClock      \* bound on the clock

VARIABLES
    yPlan,      \* the policies still to be reloaded, and which inputs vary
    yPolicy,    \* ResolvedSiteSettings
    yNow,       \* the station's clock
    ySite,      \* SiteController, with the gate and the demand it published
    yPast       \* history: what was really observed since when

yVars == <<yPlan, yPolicy, yNow, ySite, yPast>>

Never == MaxClock + 9          \* no time
Unknown == 9                   \* no value
Full == 2                      \* full duty; 1 is a partial one

NewAlarm == [active |-> FALSE, acknowledged |-> FALSE, unsafe |-> "unknown", ready |-> FALSE, since |-> Never, repeat |-> Never]
\* base is history: the demand without any pulse.
NewOutput(pol) == [on |-> pol.output.startup, fault |-> TRUE, deadline |-> Never, prior |-> FALSE, base |-> pol.output.startup]
NewFan == [keyed |-> FALSE, until |-> Never, hot |-> FALSE, manual |-> 0]
NewInput == [value |-> Unknown, quality |-> "unavailable", last |-> Never, since |-> Never]
NewSensor == [value |-> Unknown, time |-> Never, quality |-> "unavailable"]
Startup(pol) == IF pol.output.startup THEN Full ELSE 0

\* SiteController::new; the demand is the binding's, which starts as configured.
NewSite(pol) ==
    [sensor |-> NewSensor, input |-> NewInput, alarm |-> NewAlarm, output |-> NewOutput(pol), fan |-> NewFan,
     duty |-> Unknown, published |-> Unknown, inhibitors |-> {}, known |-> FALSE, ptt |-> FALSE,
     gate |-> FALSE, demand |-> Startup(pol), notices |-> {}]

YInit ==
    /\ yPlan \in PolicyPlans
    /\ yPolicy = yPlan.policies[1]
    /\ yNow = 0
    /\ ySite = NewSite(yPolicy)
    /\ yPast = [healthy |-> Never, steady |-> Never, raw |-> Unknown, keyed |-> FALSE, unkeyed |-> Never, advanced |-> FALSE, taken |-> FALSE]

Due(deadline) == deadline # Never /\ yNow >= deadline
Claimed(pol) == pol.fan.mode # "none"

-----------------------------------------------------------------------------
(* SensorState and InputState. A reading has a quality, a value, a time.     *)

Misplaced(r, last) == r.time > yNow \/ (last # Never /\ r.time < last)

Measured(s, r) ==
    IF r.quality # "valid" THEN [s EXCEPT !.quality = r.quality]
    ELSE IF Misplaced(r, s.time) THEN [s EXCEPT !.quality = "fault"]
    ELSE IF s.time = r.time THEN s
    ELSE [value |-> r.value, time |-> r.time, quality |-> "valid"]

\* snapshot: a valid value goes stale with its age.
Valid(s) == s.quality = "valid" /\ yNow - s.time < yPolicy.stale

\* An edge is reported once the opposite value has persisted.
Debounced(i, r) ==
    IF r.quality # "valid" THEN [i EXCEPT !.quality = r.quality, !.since = Never]
    ELSE IF Misplaced(r, i.last) THEN [i EXCEPT !.quality = "fault", !.since = Never]
    ELSE IF i.last = r.time THEN i
    ELSE LET since == IF i.since = Never THEN r.time ELSE i.since
             seen == [i EXCEPT !.last = r.time, !.quality = "valid"]
         IN IF i.value # Unknown /\ i.value # r.value /\ r.time - since < yPolicy.input.debounce
            THEN [seen EXCEPT !.since = since]
            ELSE [seen EXCEPT !.value = r.value, !.since = Never]

Edge(was, now) == was.value # Unknown /\ now.value # was.value

-----------------------------------------------------------------------------
(* AlarmState. *)

\* condition: above trip, or above clear once active.
Condition(a, s) ==
    IF ~Valid(s) THEN "unknown"
    ELSE IF s.value >= (IF a.active THEN yPolicy.alarm.clear + 1 ELSE yPolicy.alarm.trip) THEN "unsafe" ELSE "healthy"

Cleared(a) == [a EXCEPT !.active = FALSE, !.acknowledged = FALSE, !.since = Never, !.repeat = Never, !.ready = FALSE]
Tripped(a) == [a EXCEPT !.active = TRUE, !.acknowledged = FALSE, !.since = Never,
                        !.repeat = IF yPolicy.alarm.repeats > 0 THEN yNow + yPolicy.alarm.repeats ELSE Never]
Opposes(a) == a.unsafe = IF a.active THEN "healthy" ELSE "unsafe"

\* Mutant: an unknown condition does not break persistence.
PersistedThrough(a) ==
    LET since == IF a.since = Never THEN yNow ELSE a.since
        late == yNow - since >= IF a.active THEN yPolicy.alarm.clearDelay ELSE yPolicy.alarm.tripDelay
    IN IF ~Opposes(a) THEN [a EXCEPT !.since = IF a.unsafe = "unknown" THEN @ ELSE Never]
       ELSE IF ~late THEN [a EXCEPT !.since = since]
       ELSE IF ~a.active THEN Tripped(a)
       ELSE IF yPolicy.alarm.latched THEN [a EXCEPT !.since = since, !.ready = TRUE]
       ELSE Cleared(a)

\* The transition part of advance: an unknown condition breaks persistence.
Persisted(a) ==
    LET since == IF a.since = Never THEN yNow ELSE a.since
        late == yNow - since >= IF a.active THEN yPolicy.alarm.clearDelay ELSE yPolicy.alarm.tripDelay
    IN IF ~Opposes(a) THEN [a EXCEPT !.since = Never]
       ELSE IF ~late THEN [a EXCEPT !.since = since]
       ELSE IF ~a.active THEN Tripped(a)
       ELSE IF yPolicy.alarm.latched THEN [a EXCEPT !.since = since, !.ready = TRUE]
       ELSE Cleared(a)

Repeats(a) == a.active /\ ~a.acknowledged /\ Due(a.repeat)
Repeated(a) == IF Repeats(a) THEN [a EXCEPT !.repeat = yNow + yPolicy.alarm.repeats] ELSE a

-----------------------------------------------------------------------------
(* OutputState and FanState. *)

OutputAdvanced(o, available) ==
    IF ~available THEN [o EXCEPT !.fault = TRUE, !.on = yPolicy.output.safe, !.deadline = Never, !.base = yPolicy.output.safe]
    ELSE IF Due(o.deadline) THEN [o EXCEPT !.fault = FALSE, !.on = o.prior, !.deadline = Never]
    ELSE [o EXCEPT !.fault = FALSE]

OutputCommanded(o, request) ==
    IF request = "pulse"
    THEN [o EXCEPT !.prior = IF o.deadline = Never THEN o.on ELSE @, !.on = TRUE, !.deadline = yNow + yPolicy.output.pulse]
    ELSE [o EXCEPT !.deadline = Never, !.on = request = "on", !.base = request = "on"]

KeyedBy(ptt) == ptt /\ yPolicy.fan.mode # "temperature"
FanAdvanced(f, ptt, s) ==
    LET until == IF f.keyed /\ ~KeyedBy(ptt) THEN yNow + yPolicy.fan.runOn ELSE f.until
    IN [f EXCEPT !.keyed = KeyedBy(ptt), !.until = IF Due(until) THEN Never ELSE until,
                 !.hot = IF yPolicy.fan.mode = "ptt" \/ ~Valid(s) THEN @
                         ELSE s.value >= yPolicy.fan.hot \/ (@ /\ s.value > yPolicy.fan.cool)]

\* The greatest demand; a temperature that is not known demands all of it.
DutyOf(f, s) ==
    IF f.keyed \/ f.until # Never \/ (yPolicy.fan.mode # "ptt" /\ (~Valid(s) \/ f.hot)) THEN Full ELSE f.manual

-----------------------------------------------------------------------------
(* SiteController: each part takes the record and returns it changed.  The   *)
(* effects a step returns are applied by the host in order before anything   *)
(* else runs, so the demand of the bound equipment is kept in the record.    *)

Demanded(S) == IF S.output.on THEN Full ELSE 0
PublishOutput(S) ==
    IF S.published = Demanded(S) THEN S ELSE [S EXCEPT !.published = Demanded(S), !.demand = Demanded(S)]

OutputTo(S, request) ==
    IF Claimed(yPolicy) \/ S.output.fault THEN S
    ELSE PublishOutput([S EXCEPT !.output = OutputCommanded(@, request)])

Drives(S, f, duty) ==
    [S EXCEPT !.fan = f, !.duty = duty, !.demand = IF S.duty = duty THEN @ ELSE duty]
CoolsTo(S, f) == Drives(S, f, DutyOf(f, S.sensor))
FanEffects(S) == IF Claimed(yPolicy) THEN CoolsTo(S, FanAdvanced(S.fan, S.ptt, S.sensor)) ELSE S
FanTo(S, manual) == IF Claimed(yPolicy) THEN FanEffects([S EXCEPT !.fan.manual = manual]) ELSE S

Inhibit(S, source, enabled) ==
    [S EXCEPT !.inhibitors = IF enabled THEN @ \cup {source} ELSE @ \ {source}]

\* actions: one after the other, a refused one does not stop the rest.
Act(S, source, action) ==
    CASE action \in {"inhibit", "release"} -> Inhibit(S, source, action = "inhibit")
      [] action \in {"on", "off", "pulse"} -> OutputTo(S, action)
      [] action \in {"fan", "auto"} -> FanTo(S, IF action = "fan" THEN 1 ELSE 0)
RECURSIVE Actions(_, _, _)
Actions(S, source, actions) ==
    IF actions = <<>> THEN S ELSE Actions(Act(S, source, Head(actions)), source, Tail(actions))

AlarmEvent(S, event, actions) == [Actions(S, "alarm", actions) EXCEPT !.notices = @ \cup {event}]

\* The repeat that follows a trip comes later: its time is in the future.
AlarmEvents(S, was, now) ==
    IF now.active /\ ~was.active THEN AlarmEvent(S, "trip", yPolicy.alarm.onTrip)
    ELSE IF was.active /\ ~now.active THEN AlarmEvent(S, "clear", yPolicy.alarm.onClear)
    ELSE IF Repeats(now) THEN [S EXCEPT !.notices = @ \cup {"repeat"}] ELSE S

AlarmTo(S, a) == AlarmEvents([S EXCEPT !.alarm = Repeated(a)], S.alarm, a)
AdvanceAlarms(S) ==
    AlarmTo(S, Persisted([S.alarm EXCEPT !.unsafe = Condition(S.alarm, S.sensor), !.ready = FALSE]))

InputTo(S, i) ==
    LET next == [S EXCEPT !.input = i]
    IN IF Edge(S.input, i) THEN Actions(next, "input", IF i.value = 1 THEN yPolicy.input.onActive ELSE yPolicy.input.onInactive)
       ELSE next
AdvanceInputs(S, r) == InputTo(S, Debounced(S.input, r))

\* An output whose owner was never seen keeps its startup demand; one that was
\* known and is missing is a fault.  A claimed output is published by its fan.
AdvanceOutputs(S, avail) ==
    [S EXCEPT !.output = IF avail = "absent" /\ ~S.known THEN @ ELSE OutputAdvanced(@, avail = "yes"),
              !.known = avail # "absent"]
PublishOutputs(S) == IF Claimed(yPolicy) THEN S ELSE PublishOutput(S)

AdvanceSensors(S, r, ptt) == [S EXCEPT !.sensor = IF r.quality = "none" THEN @ ELSE Measured(@, r), !.ptt = ptt]

AdvanceSite(S, sensor, input, avail, ptt) ==
    FanEffects(AdvanceAlarms(AdvanceInputs(PublishOutputs(AdvanceOutputs(AdvanceSensors(S, sensor, ptt), avail)), input)))

\* RuntimeNode publishes the gate after every call.
Gated(S) == [S EXCEPT !.gate = S.inhibitors # {}]

-----------------------------------------------------------------------------
(* What was really observed, for the properties. *)

Remembered(past, S, r, ptt) ==
    LET fresh == r.quality = "valid" /\ r.time # ySite.input.last
        lost == r.quality # "valid" \/ Misplaced(r, ySite.input.last)
        keyed == Claimed(yPolicy) /\ KeyedBy(ptt)
    IN [healthy |-> IF Condition(ySite.alarm, S.sensor) # "healthy" THEN Never
                    ELSE IF past.healthy = Never THEN yNow ELSE past.healthy,
        raw |-> IF lost THEN Unknown ELSE IF fresh THEN r.value ELSE past.raw,
        steady |-> IF lost THEN Never ELSE IF fresh /\ r.value # past.raw THEN r.time ELSE past.steady,
        keyed |-> keyed,
        unkeyed |-> IF keyed THEN Never ELSE IF past.keyed THEN yNow ELSE past.unkeyed,
        advanced |-> TRUE,
        taken |-> past.taken /\ S.published = ySite.published]

\* external: what the equipment reported last.
Values == [cold |-> 0, warm |-> 1, hot |-> 2, off |-> 0, on |-> 1]
Readings(tags, last) ==
    {[quality |-> IF tag \in {"bad", "none"} THEN tag ELSE "valid",
      value |-> IF tag \in DOMAIN Values THEN Values[tag] ELSE 0,
      time |-> IF tag = "same" THEN last ELSE IF tag = "older" THEN last - 1 ELSE yNow] :
        tag \in {t \in tags : (t = "same" => last # Never) /\ (t = "older" => last \notin {0, Never})}}

SiteTick ==
    /\ yNow < MaxClock
    /\ yNow' = yNow + 1
    /\ UNCHANGED <<yPlan, yPolicy, ySite, yPast>>

\* advance_sites: the policy, its effects, then the notices the queue accepts.
Noticed(S, accepted) == IF accepted THEN [S EXCEPT !.notices = {}] ELSE S
AdvanceSites(sensor, input, avail, ptt, accepted) ==
    /\ ySite' = Noticed(Gated(AdvanceSite(ySite, sensor, input, avail, ptt)), accepted)
    /\ yPast' = Remembered(yPast, ySite', input, ptt)
    /\ UNCHANGED <<yPlan, yPolicy, yNow>>

\* site_command: an authorised operation on the control owner.
Commands(S, command) ==
    CASE command \in {"inhibit", "release"} -> Inhibit(S, "manual", command = "inhibit")
      [] command \in {"on", "off", "pulse"} -> OutputTo(S, command)
      [] command \in {"fan", "auto"} -> FanTo(S, IF command = "fan" THEN 1 ELSE 0)
      [] command = "acknowledge" -> [S EXCEPT !.alarm.acknowledged = TRUE]
      [] command = "reset" -> IF S.alarm.active /\ S.alarm.ready
                              THEN AlarmEvent([S EXCEPT !.alarm = Cleared(@)], "clear", yPolicy.alarm.onClear) ELSE S
SiteCommand(command) ==
    /\ ySite' = Gated(Commands(ySite, command))
    /\ yPast' = [yPast EXCEPT !.taken = @ /\ ySite'.published = ySite.published]
    /\ UNCHANGED <<yPlan, yPolicy, yNow>>

\* reconfigure, as a reload calls it, and the notices of the old revision gone.
Kept(old, new) ==
    {"manual"} \cup (IF old.input = new.input THEN {"input"} ELSE {}) \cup (IF old.alarm = new.alarm THEN {"alarm"} ELSE {})
Reconfigured(S, old, new) ==
    LET same == old.output.endpoint = new.output.endpoint
        fan == same /\ old.fan = new.fan /\ Claimed(new)
    IN [sensor |-> S.sensor, ptt |-> S.ptt, notices |-> {}, gate |-> S.gate,
        input |-> IF old.input = new.input THEN S.input ELSE NewInput,
        alarm |-> IF old.alarm = new.alarm THEN S.alarm ELSE NewAlarm,
        output |-> IF same THEN S.output ELSE NewOutput(new),
        fan |-> IF fan THEN S.fan ELSE NewFan, duty |-> IF fan THEN S.duty ELSE Unknown,
        published |-> IF same THEN S.published ELSE Unknown, known |-> same /\ S.known,
        demand |-> IF same THEN S.demand ELSE Startup(new),
        inhibitors |-> S.inhibitors \cap Kept(old, new)]

Reload ==
    /\ Len(yPlan.policies) > 1
    /\ yPlan' = [yPlan EXCEPT !.policies = Tail(@)]
    /\ yPolicy' = yPlan.policies[2]
    /\ ySite' = Gated(Reconfigured(ySite, yPolicy, yPolicy'))
    /\ yPast' = [yPast EXCEPT !.advanced = FALSE,
                    !.taken = /\ yPolicy'.output.endpoint = yPolicy.output.endpoint /\ ~Claimed(yPolicy')
                              /\ @ \/ Claimed(yPolicy),
                    !.healthy = IF yPolicy'.alarm = yPolicy.alarm THEN @ ELSE Never,
                    !.raw = IF yPolicy'.input = yPolicy.input THEN @ ELSE Unknown,
                    !.keyed = @ /\ yPolicy'.fan = yPolicy.fan /\ yPolicy'.output = yPolicy.output,
                    !.unkeyed = IF yPolicy'.fan = yPolicy.fan /\ yPolicy'.output = yPolicy.output THEN @ ELSE Never]
    /\ UNCHANGED yNow

YNext ==
    \/ SiteTick
    \/ \E sensor \in Readings(yPlan.sensor, ySite.sensor.time), input \in Readings(yPlan.input, ySite.input.last),
          avail \in yPlan.avail, ptt \in yPlan.ptt, accepted \in yPlan.accepts : AdvanceSites(sensor, input, avail, ptt, accepted)
    \/ \E command \in yPlan.commands : SiteCommand(command)
    \/ Reload

-----------------------------------------------------------------------------
\* The telemetry gate is closed while any source holds it, and an active alarm
\* that trips into inhibition holds it until it clears, whatever the operator,
\* the input or a reload releases.
GateHolds ==
    /\ ySite.gate = (ySite.inhibitors # {})
    /\ ySite.alarm.active /\ (\E i \in DOMAIN yPolicy.alarm.onTrip : yPolicy.alarm.onTrip[i] = "inhibit") => ySite.gate

\* Pulses return to the demand that the last direct command, fault or start left.
PulseRestores == IF ySite.output.deadline = Never THEN ySite.output.on = ySite.output.base ELSE ySite.output.prior = ySite.output.base

\* While a node is keyed and through its run-on the fan is driven in full, and
\* no manual setting reduces it.
CoolingHolds ==
    Claimed(yPolicy) /\ yPast.advanced /\ (yPast.keyed \/ (yPast.unkeyed # Never /\ yNow < yPast.unkeyed + yPolicy.fan.runOn))
        => ySite.demand = Full

\* Once the policy has been advanced, the equipment was last asked for what the
\* policy requests: the fan's duty for an output a fan claims, else the output's.
\* "The caller republishes the resulting aggregate inhibit/output snapshot."
\* (core/src/site/controller.rs:213); the code does not when a reload takes an
\* output from its fan, for what the output last published is kept.
DemandDelivered ==
    yPast.advanced => ySite.demand = IF Claimed(yPolicy) THEN ySite.duty ELSE Demanded(ySite)

\* It is so except for an output a reload took from its fan, until that output
\* next changes.
DemandFollows == yPast.taken \/ DemandDelivered

\* An alarm clears only after a whole clear delay of healthy readings, one that
\* is latched only by a reset; an input changes only after a whole debounce of
\* the other value; a temperature that is not known is cooled in full.
StepsJustified ==
    /\ ySite.alarm.active /\ ~ySite'.alarm.active /\ yPolicy'.alarm = yPolicy.alarm
        => /\ yPast'.healthy # Never /\ yNow - yPast'.healthy >= yPolicy.alarm.clearDelay
           /\ yPolicy.alarm.latched => SiteCommand("reset")
    /\ Edge(ySite.input, ySite'.input) /\ yPolicy'.input = yPolicy.input
        => yPast'.steady # Never /\ ySite'.input.last - yPast'.steady >= yPolicy.input.debounce
    /\ (yPast'.advanced /\ ySite' # ySite /\ yPolicy'.fan.mode \in {"temperature", "both"} /\ ~Valid(ySite'.sensor)) => ySite'.demand = Full

SafePolicy == GateHolds /\ PulseRestores /\ CoolingHolds /\ DemandFollows
=============================================================================
