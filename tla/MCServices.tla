----------------------------- MODULE MCServices ------------------------------
(***************************************************************************)
(* Small stations for the engine's services: scheduled events, prepared    *)
(* media, text speech, PCM of child processes, site devices, radio pins    *)
(* and site policy.  The components share no state here: `part` says which *)
(* one moves, and the others rest as they begin.                           *)
(***************************************************************************)
EXTENDS MCEventDispatch, StationMedia, TextSpeech, ChildPcm, SiteDevices, RadioBank, SitePolicy

VARIABLE part

-----------------------------------------------------------------------------
(* Media: a one-shot of two built-in sources that Morse may replace, and a    *)
(* recurring provider source that fails.                                      *)
Prepared(primary, oneShot, delay, samples, faults) ==
    [primary |-> primary, morse |-> 1, oneShot |-> oneShot, delay |-> delay, samples |-> samples,
     gens |-> 3, faults |-> faults]
MCMediaPlans == {Prepared(<<"built", "built">>, TRUE, 0, 1, FALSE), Prepared(<<"provider">>, FALSE, 1, 2, TRUE)}

(* Texts: one origin that fills its limit, two origins, and failing readers.  *)
MCTextPlans == {[texts |-> <<3>>, faults |-> FALSE], [texts |-> <<1, 1>>, faults |-> TRUE],
                [texts |-> <<2>>, faults |-> TRUE]}

(* Children: RIFF and raw output, short, truncated, malformed and failing, and *)
(* output the pipe may cut inside a sample.                                    *)
Child(bytes, data, chunks, input, bad, faults) ==
    [bytes |-> bytes, data |-> data, chunks |-> chunks, input |-> input, odd |-> FALSE, bad |-> bad,
     faults |-> faults]
MCChildPlans ==
    {Child(6, 4, <<"other", "format", "data">>, 0, 0, TRUE), Child(4, 6, <<"format", "data">>, 0, 0, FALSE),
     Child(6, 0, <<>>, 2, 0, TRUE), Child(4, 0, <<"format", "format", "data">>, 0, 0, FALSE),
     Child(6, 0, <<>>, 0, 2, FALSE), [Child(6, 0, <<>>, 1, 0, FALSE) EXCEPT !.odd = TRUE],
     [Child(6, 4, <<"format", "data">>, 0, 0, TRUE) EXCEPT !.odd = TRUE]}

(* Site devices: a binding removed, a device replaced and put back, an endpoint due to move. *)
Bound(endpoint, safe) == [ep |-> endpoint, safe |-> safe]
Layout(d, e) == [k \in {"d", "e"} |-> IF k = "d" THEN d ELSE e]
Sites(layouts, replaces, endpoints, moves, faults) ==
    [layouts |-> layouts, replaces |-> replaces, eps |-> endpoints, moves |-> moves, due |-> moves,
     faults |-> faults]
MCSitePlans ==
    {Sites(<<Layout(<<Bound("a", 0), Bound("b", 0)>>, <<>>), Layout(<<Bound("b", 1)>>, <<>>)>>,
           FALSE, {"a", "b"}, {}, TRUE),
     Sites(<<Layout(<<Bound("a", 0)>>, <<>>), Layout(<<>>, <<Bound("c", 0)>>), Layout(<<Bound("a", 0)>>, <<>>)>>,
           FALSE, {"a", "c"}, {}, FALSE),
     Sites(<<Layout(<<Bound("a", 0)>>, <<>>), Layout(<<Bound("a", 1)>>, <<>>)>>, TRUE, {"a"}, {"a"}, FALSE)}

(* Radio pins: a pin dropped, an empty bank, and a bank replaced. *)
Pinned(layouts, replaces, faults) ==
    [layouts |-> layouts, replaces |-> replaces, high |-> {"p"}, faults |-> faults]
Outputs(pins, safe) == [p \in pins |-> safe]
MCBankPlans ==
    {Pinned(<<Outputs({"p", "q"}, FALSE), Outputs({"q"}, TRUE)>>, FALSE, TRUE),
     Pinned(<<Outputs({"p"}, FALSE), <<>>, Outputs({"p"}, FALSE)>>, FALSE, FALSE),
     Pinned(<<Outputs({"p"}, FALSE), Outputs({"p"}, TRUE)>>, TRUE, FALSE)}

-----------------------------------------------------------------------------
(* Site policy: alarms under commands, a bouncing input, an output that moves, a fan. *)
Alarm(latched, tripDelay, clearDelay, repeats) ==
    [latched |-> latched, trip |-> 2, clear |-> 0, tripDelay |-> tripDelay, clearDelay |-> clearDelay,
     repeats |-> repeats, onTrip |-> <<"inhibit", "pulse">>, onClear |-> <<"release", "auto">>]
Latched == Alarm(TRUE, 1, 1, 1)
Clearing == Alarm(FALSE, 0, 2, 0)
Policy(alarm, debounce, endpoint, startup, fan) ==
    [alarm |-> alarm, stale |-> 2,
     input |-> [debounce |-> debounce, onActive |-> <<"pulse", "inhibit", "fan">>,
                onInactive |-> <<"off", "release">>],
     output |-> [endpoint |-> endpoint, startup |-> startup, safe |-> FALSE, pulse |-> 2],
     fan |-> [mode |-> fan, runOn |-> 2, hot |-> 2, cool |-> 0]]
Governed(policies, sensor, input, avail, ptt, commands) ==
    [policies |-> policies, sensor |-> sensor, input |-> input, avail |-> avail, ptt |-> ptt,
     commands |-> commands, accepts |-> {TRUE}]
MCPolicyPlans ==
    {Governed(<<Policy(Latched, 1, "a", FALSE, "none"), Policy(Clearing, 1, "a", FALSE, "none")>>,
              {"cold", "warm", "hot", "none"}, {"none"}, {"yes"}, {FALSE},
              {"inhibit", "release", "acknowledge", "reset"}),
     Governed(<<Policy(Clearing, 2, "a", TRUE, "none"), Policy(Latched, 2, "a", FALSE, "none")>>,
              {"cold"}, {"on", "off", "bad", "same", "older"}, {"yes"}, {FALSE}, {"on"}),
     Governed(<<Policy(Clearing, 2, "a", TRUE, "none"), Policy(Clearing, 2, "b", FALSE, "none")>>,
              {"bad"}, {"none"}, {"yes", "no", "absent"}, {FALSE}, {"on", "off", "pulse"}),
     Governed(<<Policy(Clearing, 1, "a", FALSE, "none"), Policy(Clearing, 1, "a", FALSE, "both"),
                Policy(Clearing, 1, "a", FALSE, "ptt")>>,
              {"cold", "hot", "none"}, {"none"}, {"yes"}, BOOLEAN, {"fan", "auto"}),
     Governed(<<Policy(Clearing, 1, "a", FALSE, "none"), Policy(Clearing, 1, "a", FALSE, "both"),
                Policy(Clearing, 1, "a", FALSE, "none")>>,
              {"cold"}, {"none"}, {"yes", "no"}, BOOLEAN, {"on", "off"})}

-----------------------------------------------------------------------------
(* The events rest as they begin; the other components have no state where they do not move. *)
Off == 0
MediaOff == sPlan = Off /\ sSession = Off /\ sCtl = Off /\ sJob = Off /\ sRings = Off /\ sRead = Off /\ sHeard = Off /\ sMade = Off
TextOff ==
    /\ tPlan = Off /\ tOrigin = Off /\ tReader = Off /\ tItem = Off /\ tQueue = Off /\ tWorker = Off
    /\ tAdmit = Off /\ tStop = Off /\ tHeard = Off
ChildOff == cPlan = Off /\ cChild = Off /\ cPipe = Off /\ cStdin = Off /\ cStream = Off /\ cReaper = Off /\ cOut = Off /\ cResult = Off
DevicesOff ==
    /\ vPlan = Off /\ vDevices = Off /\ vNext = Off /\ vAuto = Off /\ vChange = Off /\ vRetired = Off
    /\ vAt = Off /\ vWorkers = Off /\ vPins = Off /\ vGen = Off /\ vPanic = Off
BankOff == bPlan = Off /\ bBank = Off /\ bNext = Off /\ bAt = Off /\ bOwner = Off /\ bQueue = Off /\ bPins = Off
PolicyOff == yPlan = Off /\ yPolicy = Off /\ yNow = Off /\ ySite = Off /\ yPast = Off

MCInit ==
    /\ part \in {"event", "media", "text", "child", "devices", "bank", "policy"}
    /\ Init /\ (part # "event" => plan = CHOOSE p \in Plans : TRUE)
    /\ IF part = "media" THEN SInit ELSE MediaOff
    /\ IF part = "text" THEN TInit ELSE TextOff
    /\ IF part = "child" THEN CInit ELSE ChildOff
    /\ IF part = "devices" THEN VInit ELSE DevicesOff
    /\ IF part = "bank" THEN BInit ELSE BankOff
    /\ IF part = "policy" THEN YInit ELSE PolicyOff

(* The site policy alone. *)
PolicyInit == part = "policy" /\ MCInit

MCNext ==
    \/ part = "event" /\ Next /\ UNCHANGED <<part, sVars, tVars, cVars, vVars, bVars, yVars>>
    \/ part = "media" /\ SNext /\ UNCHANGED <<part, vars, tVars, cVars, vVars, bVars, yVars>>
    \/ part = "text" /\ TNext /\ UNCHANGED <<part, vars, sVars, cVars, vVars, bVars, yVars>>
    \/ part = "child" /\ CNext /\ UNCHANGED <<part, vars, sVars, tVars, vVars, bVars, yVars>>
    \/ part = "devices" /\ VNext /\ UNCHANGED <<part, vars, sVars, tVars, cVars, bVars, yVars>>
    \/ part = "bank" /\ BNext /\ UNCHANGED <<part, vars, sVars, tVars, cVars, vVars, yVars>>
    \/ part = "policy" /\ YNext /\ UNCHANGED <<part, vars, sVars, tVars, cVars, vVars, bVars>>
-----------------------------------------------------------------------------
(* Media is heard whole and in order, and no reader waits for a job that ended. *)
SafeMedia == part = "media" => MediaSafe
(* Texts of one origin are spoken in turn by one producer at a time. *)
SafeTexts == part = "text" => TextsSafe
(* A child's PCM is whole samples or ends in an error, and it ends well only   *)
(* when the child did.                                                         *)
SafePcm == part = "child" => PcmSafe
(* No endpoint has two owners, outputs rest safe across a reload, and nothing   *)
(* written for a replaced binding is taken as delivered.                        *)
OutputsSafe == part = "devices" => SafeSites
(* Radio pins are given back in their safe state, one command at a time.        *)
PinsSafe == part = "bank" => SafeBank
(* Gates, pulses, cooling and demands hold over reloads and lost observations,  *)
(* and an alarm or an input changes only when its delay justifies it.           *)
PolicyHolds == [](part = "policy" => SafePolicy) /\ [][part = "policy" => StepsJustified]_yVars
=============================================================================
