----------------------------- MODULE MCLinkPlane -----------------------------
(***************************************************************************)
(* Small stations for the link plane and for the audio path of its peers.  *)
(* The components share no state here: `part` says which one moves.        *)
(***************************************************************************)
EXTENDS LinkPlane, RadioWorker, LinkMixer, PeerIngress, PeerOwner, PeerEgress

VARIABLE part

Route(n, permanent, label, slot) ==
    [n |-> n, permanent |-> permanent, label |-> label, slot |-> slot]
Configured(routes, windows, denied) ==
    [routes |-> routes, windows |-> windows, denied |-> denied]
Bounds(token, command, text, ends, turn) ==
    [token |-> token, command |-> command, text |-> text, ends |-> ends, turn |-> turn]

(* A permanent route, removed by a reload that also denies the other peer. *)
Removed == [configs |-> <<Configured(<<Route("x", TRUE, 0, 0)>>, <<>>, {}),
                          Configured(<<>>, <<>>, {"y"})>>,
            max |-> Bounds(2, 1, 1, 1, 0)]

(* The same, for pairs of commands such as disconnect-all and reconnect-all. *)
Commanded2 == [Removed EXCEPT !.max = Bounds(2, 2, 0, 0, 0)]

(* A window that replaces the permanent route. *)
Replaced == [configs |-> <<Configured(<<Route("x", TRUE, 0, 0), Route("y", FALSE, 0, 0)>>,
                                      <<[routes |-> {2}, replaced |-> {1}]>>, {})>>,
             max |-> Bounds(2, 1, 0, 1, 2)]

(* A priority group whose members a reload swaps. *)
Swapped == [configs |-> <<Configured(<<Route("x", TRUE, 1, 1), Route("y", TRUE, 1, 2)>>, <<>>, {}),
                          Configured(<<Route("y", TRUE, 1, 1), Route("x", TRUE, 1, 2)>>, <<>>, {})>>,
            max |-> Bounds(2, 1, 1, 0, 0)]

MCRemotes == {"x", "y"}
MCPlans == {Removed, Commanded2, Replaced, Swapped}

-----------------------------------------------------------------------------
(* Radio worker: three generations of one burst, or two of two with a reopened device. *)
Radio(generations, bursts, devices) ==
    [delay |-> 1, generations |-> generations, bursts |-> bursts, blocks |-> 1, devices |-> devices]
MCDelays == {1, 2}
MCRadioPlans == {Radio(3, 1, FALSE), Radio(2, 2, TRUE)}

(* Mixer: a priority group, a pool that overflows, responses, and peers that end. *)
Peer(t, f, s) == [mode |-> [transmit |-> t, forward |-> f], slot |-> s]
Mix(peers, callbacks) ==
    [peers |-> peers, callbacks |-> callbacks, spans |-> 1, rx |-> BOOLEAN, audible |-> {},
     extras |-> {Nothing}, radio |-> FALSE, ends |-> FALSE, gates |-> FALSE, desired |-> {}]
Grouped == [Mix(<<Peer(TRUE, TRUE, 1), Peer(TRUE, TRUE, 2)>>, 3)
               EXCEPT !.audible = {1, 2}, !.desired = {1, 2}, !.rx = {FALSE}]
Pooled == [Mix(<<Peer(TRUE, TRUE, 0), Peer(TRUE, FALSE, 0)>>, 5) EXCEPT !.audible = {1}, !.spans = 2]
Extra == [Mix(<<Peer(TRUE, TRUE, 0), Peer(FALSE, TRUE, 0)>>, 2)
             EXCEPT !.audible = {1, 2}, !.extras = {Nothing, ParrotOut, Broadcast, 1, 2}, !.gates = TRUE]
PeerEnds == [Mix(<<Peer(TRUE, TRUE, 0)>>, 4) EXCEPT !.audible = {1}, !.rx = {FALSE}, !.radio = TRUE, !.ends = TRUE]
MCMixPlans == {Grouped, Pooled, Extra, PeerEnds}

(* Ingress: keying control, source queries, and EchoLink talkers. *)
Ingress ==
    [echo |-> FALSE, kinds |-> {}, inputs |-> 3, capacity |-> 2, reads |-> 2, edges |-> 0, queries |-> 0,
     commands |-> 0, stops |-> FALSE, control |-> "negotiating"]
Keyed == [Ingress EXCEPT !.kinds = {"digit", "hash", "key", "unkey", "newkey", "newkey1"}]
Queried == [Ingress EXCEPT !.kinds = {"response", "human", "disconnect", "audio", "redirect", "text"},
                           !.inputs = 2, !.edges = 2, !.queries = 2, !.commands = 1, !.stops = TRUE]
Talkers == [Ingress EXCEPT !.echo = TRUE, !.control = "disabled", !.inputs = 2,
                           !.kinds = {"none", "digit", "hash", "gap", "redirect", "text"}, !.commands = 1]
MCIngressPlans == {Keyed, Queried, Talkers}

(* Owners: two asynchronous peers, or a polled one with three dispatches. *)
Asynchronous == [async |-> {1, 2}, polled |-> {}, dispatches |-> 1]
Polled == [async |-> {}, polled |-> {2}, dispatches |-> 3]
MCOwnerPlans == {Asynchronous, Polled}

(* Egress: a ring that overflows, a reopened and redirected stream, a synchronous host. *)
Egress(ring, spans, written, redirects, restarts) ==
    [sync |-> FALSE, ring |-> ring, spans |-> spans, jitter |-> 0, time |-> 5, written |-> written,
     redirects |-> redirects, restarts |-> restarts]
Overflowing == Egress(2, 2, 3, 0, 1)
Reopened == Egress(2, 1, 2, 1, 2)
Synchronous == [Egress(3, 2, 3, 1, 0) EXCEPT !.sync = TRUE, !.time = 6]
MCEgressPlans == {Overflowing, Reopened, Synchronous}

-----------------------------------------------------------------------------
(* The radio worker and the peers' owners rest in one initial state where they do not move; *)
(* the other components have no state there.                                              *)
Off == 0
LinksOff ==
    /\ plan = Off /\ hub = Off /\ sched = Off /\ dials = Off /\ phys = Off /\ effects = Off
    /\ detaching = Off /\ engine = Off /\ open = Off /\ used = Off
MixerOff ==
    /\ mPlan = Off /\ mPeers = Off /\ mDesired = Off /\ mSelected = Off /\ mRoutes = Off /\ mFree = Off
    /\ mBlocks = Off /\ mCurrent = Off /\ mQueues = Off /\ mGap = Off /\ mNow = Off
IngressOff ==
    /\ iPlan = Off /\ iOwn = Off /\ iSig = Off /\ iRing = Off /\ iWire = Off /\ iEvents = Off
    /\ iCmds = Off /\ iLeft = Off /\ iOwed = Off /\ iStop = Off
EgressOff ==
    /\ ePlan = Off /\ eNow = Off /\ eClock = Off /\ eQueue = Off /\ eHead = Off /\ eBurst = Off
    /\ eOut = Off /\ eWritten = Off /\ eRedirects = Off

MCInit ==
    /\ part \in {"links", "radio", "mixer", "ingress", "owner", "egress"}
    /\ IF part = "links" THEN Init ELSE LinksOff
    /\ WInit /\ (part # "radio" => wPlan = Radio(3, 1, FALSE))
    /\ IF part = "mixer" THEN MInit ELSE MixerOff
    /\ IF part = "ingress" THEN IInit ELSE IngressOff
    /\ OInit /\ (part # "owner" => oPlan = Polled)
    /\ IF part = "egress" THEN EInit ELSE EgressOff

(* The link plane alone. *)
LinksInit == part = "links" /\ MCInit

MCNext ==
    \/ part = "links" /\ Next /\ UNCHANGED <<part, wVars, mVars, iVars, oVars, eVars>>
    \/ part = "radio" /\ WNext /\ UNCHANGED <<part, vars, mVars, iVars, oVars, eVars>>
    \/ part = "mixer" /\ MNext /\ UNCHANGED <<part, vars, wVars, iVars, oVars, eVars>>
    \/ part = "ingress" /\ INext /\ UNCHANGED <<part, vars, wVars, mVars, oVars, eVars>>
    \/ part = "owner" /\ ONext /\ UNCHANGED <<part, vars, wVars, mVars, iVars, eVars>>
    \/ part = "egress" /\ ENext /\ UNCHANGED <<part, vars, wVars, mVars, iVars, oVars>>

-----------------------------------------------------------------------------
(* The hub's tables keep their types and name no peer twice, and outside groups *)
(* no live peer advertises another: admission and topology text refuse it.      *)
LinksLoopFree == part = "links" => TypeOK /\ LoopFree
(* Permanent intent ends only by an operator, the schedule, a reload, a stop or *)
(* a proven loop.                                                               *)
LinksIntent == [][part = "links" => IntentKept]_vars
(* Dials whose intent was withdrawn never publish a peer.                       *)
VoidDials == [][part = "links" => VoidDialsNeverAttach]_vars
(* The mixer's burst identities never span a gap, nobody hears themselves, the  *)
(* block pool loses nothing, and a priority group never cuts off the member     *)
(* that is being heard.                                                         *)
MixerBursts == [](part = "mixer" => BurstsContiguous) /\ [][part = "mixer" => KeyedMemberKept]_mVars
(* A session reports digits and unkeys once and in wire order, and completes    *)
(* sources, talkers and DTMF gates only in the burst they belong to.            *)
IngressOrder == part = "ingress" => EventsInOrder /\ BurstsCompleteInTurn
(* A packet carries the time and the place of the source audio it was made of:  *)
(* no gap, restart or redirection is hidden inside one.                         *)
PacketsTellSourceTime == part = "egress" => SourceTimeTold
=============================================================================
