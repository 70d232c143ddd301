---------------------------- MODULE MCController ----------------------------
(* Small stations for the transmitter policy, the parrot and the preparation *)
(* of messages: a behaviour is one of the controller, of the parrot, or of   *)
(* the messages' readers and rings.                                          *)
EXTENDS Controller, Parrot, MCMessagePreparation

VARIABLE part

In(rx, link, other, media, frame) ==
    [rx |-> rx, link |-> link, other |-> other, media |-> media, frame |-> frame]
Quiet == In(FALSE, FALSE, FALSE, FALSE, TRUE)
Local == In(TRUE, FALSE, FALSE, FALSE, TRUE)
Linked == In(FALSE, TRUE, FALSE, FALSE, TRUE)
Both == In(TRUE, TRUE, FALSE, FALSE, TRUE)
Other == In(FALSE, FALSE, TRUE, FALSE, TRUE)
Played == In(FALSE, FALSE, FALSE, TRUE, TRUE)
Edge(rx) == In(rx, FALSE, FALSE, FALSE, FALSE)

Msg(kind, wait, expiry, busy, recipe) ==
    [kind |-> kind, wait |-> wait, expiry |-> expiry, busy |-> busy, recipe |-> recipe]
Plain == Msg("rf", 0, "skip", "skip", 0)
Reply == Msg("peer", 0, "skip", "skip", 0)
Id(interval, priority, first, always, polite) ==
    [interval |-> interval, priority |-> priority, first |-> first, always |-> always,
     polite |-> polite, recipe |-> 1]

Base == [duplex |-> TRUE, hang |-> 2, short |-> 1, idle |-> 1, courtesy |-> FALSE,
         courtesyDelay |-> 1, kerchunk |-> 0, timeout |-> 0, notices |-> TRUE,
         ids |-> <<>>, tails |-> <<>>, anns |-> <<>>, messages |-> {}, inputs |-> {Quiet, Local},
         requests |-> {}, samples |-> 6, statuses |-> 0]
T(interval, delay) == [interval |-> interval, delay |-> delay, recipe |-> 2]

\* Identifiers against a tail and a release announcement.
Ids == [Base EXCEPT !.ids = <<Id(2, 1, FALSE, FALSE, 2), Id(1, 2, TRUE, FALSE, 1)>>,
                    !.tails = <<T(0, 0)>>, !.anns = <<0>>, !.samples = 7]
\* Delayed tails, courtesies and kerchunks.
Tails == [Base EXCEPT !.tails = <<T(2, 1), T(0, 0)>>, !.samples = 5,
                      !.courtesy = TRUE, !.kerchunk = 1, !.inputs = {Quiet, Local, Linked, Other}]
\* The watchdog of a half-duplex node over linked traffic and a message.
Watchdog == [Base EXCEPT !.duplex = FALSE, !.timeout = 1, !.samples = 4, !.statuses = 1,
                         !.messages = {Msg("message", 2, "morse", "wait", 0)},
                         !.inputs = {Quiet, Local, Linked}]
\* No notices, a periodic announcement, sample-free edges.
Bare == [Base EXCEPT !.timeout = 2, !.notices = FALSE, !.anns = <<2>>, !.samples = 5,
                     !.inputs = {Quiet, Local, Edge(TRUE), Edge(FALSE)}]
\* Site inhibit over a tail, an identifier and the watchdog.
Guarded == [Base EXCEPT !.timeout = 2, !.tails = <<T(0, 0)>>, !.requests = {"inhibit", "cancel"},
                        !.ids = <<Id(3, 1, FALSE, TRUE, Never)>>, !.samples = 5]
\* The status queue: a reply, a message that must start at once, one that may
\* turn to Morse; one of them covers an identifier and a tail.
Statuses == [Base EXCEPT !.messages = {Reply, Msg("message", 0, "skip", "skip", 1),
                                       Msg("message", 1, "morse", "skip", 2)},
                         !.ids = <<Id(3, 1, FALSE, TRUE, Never)>>, !.tails = <<T(0, 0)>>,
                         !.inputs = {Quiet, Local}, !.statuses = 2, !.samples = 3,
                         !.requests = {"cancel"}]
Plains == [Base EXCEPT !.messages = {Plain}, !.statuses = 3, !.samples = 4, !.requests = {"retire"},
                       !.inputs = {Quiet, Played}]
MCStations == {Ids, Tails, Watchdog, Bare, Guarded, Statuses, Plains}

Off == 0
ControllerOff ==
    /\ station = Off /\ c = Off /\ queue = <<>> /\ completed = Off /\ outstanding = Off
    /\ inhibit = Off /\ cancelMessage = Off /\ peerActive = Off /\ queued = Off /\ lastTraffic = Off

MCInit ==
    /\ part \in {"controller", "parrot", "messages"}
    /\ IF part = "controller" THEN Init ELSE ControllerOff
    /\ PInit /\ (part # "parrot" => ~pEnabled)
    /\ PrepareInit

MCNext ==
    \/ part = "controller" /\ Next /\ UNCHANGED <<part, pVars, prepareVars>>
    \/ part = "parrot" /\ PNext /\ UNCHANGED <<part, vars, prepareVars>>
    \/ part = "messages" /\ InterruptedNext /\ UNCHANGED <<part, vars, pVars>>

MCSpec == MCInit /\ [][MCNext]_<<part, vars, pVars, prepareVars>>

(* The type invariants of the controller and of the parrot. *)
PartsTypeOK == (part = "controller" => TypeOK) /\ PTypeOK

(* A site inhibit releases PTT at the next sample, whatever holds it; so does *)
(* local reception in half duplex, outside the watchdog's notices.  Repeated  *)
(* traffic never keys longer than transmit_timeout_ms past its last release,  *)
(* and a timed-out node repeats again only after a quiet sample.              *)
TransmitterBounded == [][part = "controller" => KeyingBounded]_vars

(* Once audible, a composition owns PTT through pending segment boundaries    *)
(* until it completes, unless it may not transmit or the watchdog takes over. *)
AudibleHoldsPtt == [][part = "controller" => AudibleKeys]_vars

(* An identifier past its polite maximum never waits behind an idle slot or a *)
(* tail: after a sample that may transmit, something else has the slot or has *)
(* just given it up.                                                          *)
OverdueIdentifierFirst == [][part = "controller" => OverdueGoesFirst]_vars

(* Generated audio can neither arm nor restart a release: a tail is pending   *)
(* again only after traffic heard since it last completed.                    *)
TailNeedsTraffic == part = "controller" => TailsHeard
=============================================================================
