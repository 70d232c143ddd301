---------------------------- MODULE PeerIngress ----------------------------
(***************************************************************************)
(* One peer connection's receive side: PeerSession::step, run by exactly   *)
(* one owner, beside the radio callback (which moves the activity edge and *)
(* plays or discards the ring), the control thread (which takes events and *)
(* sends a redirect or a text) and the wire or EchoLink provider.  A step  *)
(* is several steps here: commands and activity, the query, every read,    *)
(* and the digit timer.  Deadlines are choices; samples are blocks that    *)
(* the ring accepts or refuses.                                            *)
(***************************************************************************)
EXTENDS Naturals, Sequences

CONSTANT IngressPlans   \* instances: protocol, kinds of input, and bounds

VARIABLES
    iPlan,      \* the instance
    iOwn,       \* PeerSession, and the place of its owner in step_inner
    iSig,       \* PeerSignals of the installed ring
    iRing,      \* its finite token, and the burst it still plays
    iWire,      \* inputs left, and the provider's talker, whose block may have been offered before
    iEvents,    \* the event ring to control
    iCmds,      \* the command ring from control, one slot
    iLeft,      \* commands and activity edges left (bound)
    iOwed,      \* digits and unkeys of the wire that control has not been given yet
    iStop       \* the stop flag

iVars == <<iPlan, iOwn, iSig, iRing, iWire, iEvents, iCmds, iLeft, iOwed, iStop>>

FreshSignals == [edge |-> 0, radio |-> FALSE, muted |-> FALSE, source |-> 0, asked |-> 0]
FreshRing == [token |-> "none", burst |-> 0]

\* PeerSession::prepare.
IInit ==
    /\ iPlan \in IngressPlans
    /\ iOwn = [phase |-> "idle", reads |-> 0, edge |-> 0, control |-> iPlan.control, unkey |-> FALSE,
               input |-> FALSE, active |-> FALSE, epoch |-> 0, sent |-> 0, responded |-> FALSE,
               query |-> 0, asked |-> 0, digit |-> FALSE,
               finish |-> FALSE, completion |-> "pending", dirty |-> FALSE,
               cached |-> FALSE, muted |-> FALSE, lookback |-> FALSE]
    /\ iSig = FreshSignals /\ iRing = FreshRing
    /\ iWire = [left |-> iPlan.inputs, talk |-> "silent", burst |-> 0, offered |-> FALSE]
    /\ iEvents = <<>> /\ iCmds = <<>> /\ iOwed = <<>> /\ iStop = FALSE
    /\ iLeft = [commands |-> iPlan.commands, edges |-> iPlan.edges]

Odd(n) == n % 2 = 1
Room == Len(iEvents) < iPlan.capacity
\* fail: any error of a step stops the session and ends its signals.
Fails == iStop' = TRUE /\ iOwn' = [iOwn EXCEPT !.phase = "ended"]

\* Peer::activity.
Inactive(own) == [own EXCEPT !.active = FALSE, !.sent = 0]
Activated(own) == [own EXCEPT !.active = TRUE, !.epoch = @ + 1, !.sent = 0, !.responded = FALSE]
\* SourceIngress::reset.
ResetSource(own) == [own EXCEPT !.cached = FALSE, !.muted = FALSE, !.lookback = FALSE]

\* The Redirect command: the new ring starts with no activity; an unfinished
\* burst of the old one is cancelled towards its provider.
Redirected(own) ==
    [Inactive(ResetSource(own)) EXCEPT !.completion = IF own.dirty THEN "cancelled" ELSE @,
        !.finish = FALSE, !.dirty = FALSE, !.input = FALSE, !.edge = 0, !.query = 0]
\* The head of step_inner: negotiation timeout, then the queued commands.
StepBegin(expired, sends) ==
    LET own == [iOwn EXCEPT !.phase = "activity", !.reads = iPlan.reads,
                            !.control = IF @ = "negotiating" /\ expired THEN "legacy" ELSE @]
        redirect == iCmds = <<"redirect">>
    IN /\ iOwn.phase = "idle"
       /\ iCmds' = <<>>
       /\ IF iStop \/ (iCmds = <<"text">> /\ ~sends) \/ (redirect /\ ~Room)
          THEN Fails /\ UNCHANGED <<iSig, iRing, iWire, iEvents>>
          ELSE IF redirect
          THEN /\ iOwn' = Redirected(own)
               /\ iSig' = FreshSignals /\ iRing' = FreshRing
               /\ iWire' = [iWire EXCEPT !.offered = FALSE]
               /\ iEvents' = Append(iEvents, "redirected")
               /\ UNCHANGED iStop
          ELSE iOwn' = own /\ UNCHANGED <<iSig, iRing, iWire, iEvents, iStop>>
       /\ UNCHANGED <<iPlan, iLeft, iOwed>>

\* The activity edge: a change withdraws the query, a due one prepares a new one.
StepActivity(due) ==
    LET moved == iSig.edge # iOwn.edge
        own == IF moved THEN [Inactive(iOwn) EXCEPT !.query = 0, !.edge = iSig.edge] ELSE iOwn
        asks == Odd(iSig.edge) /\ (~own.active \/ due) /\ own.epoch < iPlan.queries
    IN /\ iOwn.phase = "activity"
       /\ iOwn' = IF iPlan.echo THEN [own EXCEPT !.phase = "read"]
                  ELSE IF asks THEN [Activated(own) EXCEPT !.phase = "query"]
                  ELSE [(IF Odd(iSig.edge) THEN own ELSE Inactive(own)) EXCEPT !.phase = "read"]
       /\ UNCHANGED <<iPlan, iSig, iRing, iWire, iEvents, iCmds, iLeft, iOwed, iStop>>

\* query: sent only while the edge it was prepared for is current.
Query(sends) ==
    LET sent == sends /\ iSig.edge = iOwn.edge
    IN /\ iOwn.phase = "query"
       /\ iOwn' = [iOwn EXCEPT !.phase = "read", !.sent = iOwn.epoch,
                               !.query = IF sent THEN iOwn.epoch ELSE @,
                               !.asked = IF sent THEN iSig.edge ELSE @]
       /\ UNCHANGED <<iPlan, iSig, iRing, iWire, iEvents, iCmds, iLeft, iOwed, iStop>>

-----------------------------------------------------------------------------
(* One read.  Its first step is flush_remote_unkey: a retained unkey that    *)
(* finds no room stops all reading.                                          *)

Flushable == ~iOwn.unkey \/ Room
\* Mutant: the retained unkey is cleared and not reported.
FlushedSilently == iEvents
Flushed == IF iOwn.unkey THEN Append(iEvents, "unkey") ELSE iEvents
Reading(kind) ==
    /\ iOwn.phase = "read" /\ iOwn.reads > 0 /\ Flushable /\ ~iOwn.input
    /\ kind \in iPlan.kinds /\ iWire.left > 0
Took == [iOwn EXCEPT !.reads = @ - 1, !.unkey = FALSE]
Used == [iWire EXCEPT !.left = @ - 1]
Pushed(e) == Append(Flushed, e)
Fits == Len(Flushed) < iPlan.capacity

\* A digit of the wire: a full event ring ends the session.
ReadDigit(d) ==
    /\ Reading(d) /\ ~iPlan.echo
    /\ iWire' = Used
    /\ IF Fits THEN /\ iEvents' = Pushed(d) /\ iOwed' = Append(iOwed, d)
                    /\ iOwn' = [Took EXCEPT !.digit = (d # "hash")]
                    /\ UNCHANGED iStop
               ELSE Fails /\ UNCHANGED <<iEvents, iOwed>>
    /\ UNCHANGED <<iPlan, iSig, iRing, iCmds, iLeft>>

\* Explicit radio key controls: a key needs the negotiated permission.
ReadRadio(keyed) ==
    /\ Reading(IF keyed THEN "key" ELSE "unkey") /\ ~iPlan.echo
    /\ iWire' = Used /\ iEvents' = Flushed
    /\ LET unkeys == ~keyed /\ iSig.radio
           applies == ~keyed \/ iOwn.control \in {"allowed", "legacy"}
       IN /\ iOwn' = [Took EXCEPT !.unkey = unkeys]
          /\ iOwed' = IF unkeys THEN Append(iOwed, "unkey") ELSE iOwed
          /\ iSig' = [iSig EXCEPT !.radio = IF applies THEN keyed ELSE @]
    /\ UNCHANGED <<iPlan, iRing, iCmds, iLeft, iStop>>

\* NEWKEY and NEWKEY1.
ReadNewKey(disables) ==
    /\ Reading(IF disables THEN "newkey1" ELSE "newkey") /\ ~iPlan.echo
    /\ iWire' = Used /\ iEvents' = Flushed
    /\ iOwn' = [Took EXCEPT !.control = IF disables THEN "disabled"
                                        ELSE IF @ = "negotiating" THEN "allowed" ELSE @]
    /\ iSig' = [iSig EXCEPT !.radio = @ /\ ~disables]
    /\ UNCHANGED <<iPlan, iRing, iCmds, iLeft, iOwed, iStop>>

\* Peer::accept_key against the last query that was sent in this activity.
AcceptsKey == iOwn.active /\ iOwn.query # 0 /\ iOwn.sent = iOwn.query /\ ~iOwn.responded
              /\ iSig.edge = iOwn.edge /\ Odd(iSig.edge)
\* A keyed response to the source query; control gets its text as well.
ReadResponse ==
    /\ Reading("response") /\ ~iPlan.echo
    /\ iWire' = Used
    /\ IF Fits
       THEN /\ iEvents' = Pushed("text")
            /\ iOwn' = [Took EXCEPT !.responded = @ \/ AcceptsKey]
            /\ iSig' = IF AcceptsKey THEN [iSig EXCEPT !.source = iSig.edge, !.asked = iOwn.asked] ELSE iSig
            /\ UNCHANGED iStop
       ELSE Fails /\ UNCHANGED <<iEvents, iSig>>
    /\ UNCHANGED <<iPlan, iRing, iCmds, iLeft, iOwed>>

\* Human text gives way to a full ring; !DISCONNECT! ends the session.
ReadText(kind) ==
    /\ Reading(kind) /\ kind \in {"human", "disconnect"}
    /\ iWire' = Used
    /\ IF kind = "human"
       THEN iOwn' = Took /\ iEvents' = (IF Fits THEN Pushed("human") ELSE Flushed) /\ UNCHANGED iStop
       ELSE Fails /\ UNCHANGED iEvents
    /\ UNCHANGED <<iPlan, iSig, iRing, iCmds, iLeft, iOwed>>

\* PCM or a gap the ring takes only in part waits, and later input behind it.
ReadAudio(all) ==
    /\ Reading("audio") /\ ~iPlan.echo
    /\ iWire' = Used /\ iEvents' = Flushed
    /\ iOwn' = [Took EXCEPT !.input = ~all]
    /\ UNCHANGED <<iPlan, iSig, iRing, iCmds, iLeft, iOwed, iStop>>

-----------------------------------------------------------------------------
(* One turn with the EchoLink provider *)

\* What the session reports about the burst it accepted before.
Completion == IF iOwn.finish THEN iRing.token ELSE iOwn.completion
Turning == iOwn.phase = "read" /\ iOwn.reads > 0 /\ Flushable /\ iPlan.echo

\* A turn that completes accepts nothing and starts a new source generation.
SourceComplete ==
    /\ Turning /\ Completion # "pending"
    /\ iOwn' = [ResetSource(Took) EXCEPT !.finish = FALSE, !.completion = "pending", !.dirty = FALSE]
    /\ iEvents' = Flushed
    /\ iWire' = [iWire EXCEPT !.talk = IF @ = "finishing" THEN "silent" ELSE @]
    /\ UNCHANGED <<iPlan, iSig, iRing, iCmds, iLeft, iOwed, iStop>>

\* Future PCM does not advance detection while the previous burst is audible.
Admits == ~iOwn.finish
\* The selected talker begins: activity only.
SourceKey ==
    /\ Turning /\ Completion = "pending" /\ iWire.talk = "silent" /\ iWire.left > 0
    /\ iWire' = [Used EXCEPT !.talk = "talking", !.burst = @ + 1]
    /\ iOwn' = Took /\ iEvents' = Flushed /\ iSig' = [iSig EXCEPT !.radio = TRUE]
    /\ UNCHANGED <<iPlan, iRing, iCmds, iLeft, iOwed, iStop>>

\* A block of the talker: detected once however often the ring refuses some of it
\* or all of it, and refused altogether while a lookback mute waits.
Detected(digit) == digit # "none" /\ ~iOwn.cached
SourceAudio(digit, mutes, accepted) ==
    LET open == ~iOwn.lookback \/ mutes
        all == accepted = "all"
        some == accepted # "none"
        hears == open /\ Detected(digit)
        muted == IF hears THEN digit # "hash" ELSE iOwn.muted
    IN /\ Turning /\ Completion = "pending" /\ Admits /\ iWire.talk \in {"talking", "finishing"}
       /\ iWire.talk = "finishing" => iOwn.finish
       /\ iWire.left > 0
       /\ iWire' = IF ~open THEN iWire ELSE IF all THEN [Used EXCEPT !.offered = FALSE]
                   ELSE [iWire EXCEPT !.offered = TRUE]
       /\ IF hears /\ ~Fits THEN Fails /\ UNCHANGED <<iEvents, iOwed, iSig, iRing>>
          ELSE /\ iEvents' = IF hears THEN Pushed(digit) ELSE Flushed
               /\ iOwed' = IF hears /\ ~iWire.offered THEN Append(iOwed, digit) ELSE iOwed
               /\ iOwn' = [Took EXCEPT !.lookback = @ /\ ~mutes, !.muted = muted,
                                       !.digit = IF hears THEN digit # "hash" ELSE @,
                                       !.cached = IF open THEN ~all ELSE @, !.dirty = @ \/ (open /\ some)]
               /\ iSig' = IF open /\ some THEN [iSig EXCEPT !.muted = muted] ELSE iSig
               /\ iRing' = IF open /\ some
                           THEN [token |-> "none",
                                 burst |-> IF iWire.talk = "talking" THEN iWire.burst ELSE iWire.burst + 1]
                           ELSE iRing
               /\ UNCHANGED iStop
       /\ UNCHANGED <<iPlan, iCmds, iLeft>>

\* Missing samples of the talker: a qualified digit ends here; under a command
\* the gap is muted afterwards.
SourceGap(digit, mutes, all) ==
    LET open == ~iOwn.lookback \/ mutes
        hears == open /\ digit # "none"
        muted == IF hears THEN digit # "hash" ELSE iOwn.muted
    IN /\ Turning /\ Completion = "pending" /\ Admits /\ iWire.talk = "talking" /\ ~iOwn.cached
       /\ "gap" \in iPlan.kinds /\ iWire.left > 0
       /\ iWire' = IF open /\ all THEN Used ELSE iWire
       /\ IF hears /\ ~Fits THEN Fails /\ UNCHANGED <<iEvents, iOwed, iSig, iRing>>
          ELSE /\ iEvents' = IF hears THEN Pushed(digit) ELSE Flushed
               /\ iOwed' = IF hears THEN Append(iOwed, digit) ELSE iOwed
               /\ iOwn' = [Took EXCEPT !.lookback = IF open THEN muted /\ all /\ ~mutes ELSE TRUE,
                                       !.muted = muted, !.digit = IF hears THEN digit # "hash" ELSE @,
                                       !.dirty = @ \/ (open /\ all)]
               /\ iSig' = IF open THEN [iSig EXCEPT !.muted = muted] ELSE iSig
               /\ iRing' = IF open /\ all THEN [token |-> "none", burst |-> iWire.burst] ELSE iRing
               /\ UNCHANGED iStop
       /\ UNCHANGED <<iPlan, iCmds, iLeft>>

\* The end of a talker: the unkey, a refused mute, a last qualified digit, the
\* terminator of an open command, then exactly one token for the burst.
SourceEnd(digit, mutes) ==
    LET unkeys == iSig.radio
        flushed2 == unkeys => Len(Flushed) < iPlan.capacity
        ready == flushed2 /\ (~iOwn.lookback \/ mutes)
        last == IF ready /\ digit # "none" THEN <<digit>> ELSE <<>>
        open == IF last = <<>> THEN iOwn.digit ELSE digit = "digit"
        ends == last \o (IF ready /\ open THEN <<"hash">> ELSE <<>>)
        events == (IF unkeys /\ flushed2 THEN Pushed("unkey") ELSE Flushed) \o ends
    IN /\ Turning /\ Completion = "pending" /\ ~iOwn.finish /\ ~iOwn.cached
       /\ iWire.talk \in {"talking", "finishing"}
       /\ iWire' = [iWire EXCEPT !.talk = "finishing"]
       /\ iSig' = [iSig EXCEPT !.radio = FALSE, !.muted = @ /\ ~ready]
       /\ IF Len(events) > iPlan.capacity THEN Fails /\ UNCHANGED <<iEvents, iOwed, iRing>>
          ELSE /\ iEvents' = events
               /\ iOwed' = iOwed \o (IF unkeys THEN <<"unkey">> ELSE <<>>) \o ends
               /\ iOwn' = [Took EXCEPT !.unkey = unkeys /\ ~flushed2, !.reads = 0, !.finish = ready,
                                       !.lookback = @ /\ ~ready, !.muted = @ /\ ~ready,
                                       !.digit = open /\ ~ready]
               /\ iRing' = IF ready THEN [iRing EXCEPT !.token = "pending"] ELSE iRing
               /\ UNCHANGED iStop
       /\ UNCHANGED <<iPlan, iCmds, iLeft>>

-----------------------------------------------------------------------------
(* Nothing more to read: the retained unkey and input are offered once more. *)
ReadStop(drains) ==
    /\ iOwn.phase = "read"
    /\ iEvents' = IF Flushable THEN Flushed ELSE iEvents
    /\ iOwn' = [iOwn EXCEPT !.phase = "timer", !.unkey = @ /\ ~Flushable,
                            !.input = @ /\ ~(Flushable /\ drains)]
    /\ UNCHANGED <<iPlan, iSig, iRing, iWire, iCmds, iLeft, iOwed, iStop>>

\* The three-second terminator waits behind a retained unkey.
Expires(due) == due /\ iOwn.digit /\ ~iOwn.unkey
StepTimer(due) ==
    /\ iOwn.phase = "timer"
    /\ IF ~Expires(due) THEN iOwn' = [iOwn EXCEPT !.phase = "idle"] /\ UNCHANGED <<iEvents, iOwed, iSig, iStop>>
       ELSE IF ~Room THEN Fails /\ UNCHANGED <<iEvents, iOwed, iSig>>
       ELSE /\ iEvents' = Append(iEvents, "hash") /\ iOwed' = Append(iOwed, "hash")
            /\ iOwn' = [iOwn EXCEPT !.phase = "idle", !.digit = FALSE, !.muted = FALSE]
            /\ iSig' = [iSig EXCEPT !.muted = @ /\ (iOwn.cached \/ iOwn.lookback)]
            /\ UNCHANGED iStop
    /\ UNCHANGED <<iPlan, iRing, iWire, iCmds, iLeft>>

-----------------------------------------------------------------------------
(* The radio callback and control *)

\* set_active by the mixer.
AudioEdge ==
    /\ iLeft.edges > 0
    /\ iLeft' = [iLeft EXCEPT !.edges = @ - 1]
    /\ iSig' = [iSig EXCEPT !.edge = @ + 1]
    /\ UNCHANGED <<iPlan, iOwn, iRing, iWire, iEvents, iCmds, iOwed, iStop>>

\* The ring plays its finite burst, or its consumer discards it.
Playout(outcome) ==
    /\ iRing.token = "pending"
    /\ iRing' = [token |-> outcome, burst |-> 0]
    /\ UNCHANGED <<iPlan, iOwn, iSig, iWire, iEvents, iCmds, iLeft, iOwed, iStop>>

\* PeerControl::event and send, and its out-of-band stop.
TakeEvent ==
    /\ iEvents # <<>>
    /\ iEvents' = Tail(iEvents)
    /\ iOwed' = IF Head(iEvents) \in {"digit", "hash", "unkey"} THEN Tail(iOwed) ELSE iOwed
    /\ UNCHANGED <<iPlan, iOwn, iSig, iRing, iWire, iCmds, iLeft, iStop>>
SendCommand(c) ==
    /\ iLeft.commands > 0 /\ iCmds = <<>>
    /\ iCmds' = <<c>> /\ iLeft' = [iLeft EXCEPT !.commands = @ - 1]
    /\ UNCHANGED <<iPlan, iOwn, iSig, iRing, iWire, iEvents, iOwed, iStop>>
StopPeer ==
    /\ iPlan.stops /\ ~iStop /\ iStop' = TRUE
    /\ UNCHANGED <<iPlan, iOwn, iSig, iRing, iWire, iEvents, iCmds, iLeft, iOwed>>

INext ==
    \/ \E b, c \in BOOLEAN : StepBegin(b, c)
    \/ \E b \in BOOLEAN : \/ StepActivity(b) \/ Query(b) \/ ReadRadio(b) \/ ReadNewKey(b) \/ ReadAudio(b)
                          \/ ReadStop(b) \/ StepTimer(b)
    \/ \E d \in {"digit", "hash"} : ReadDigit(d)
    \/ ReadResponse
    \/ \E k \in {"human", "disconnect"} : ReadText(k)
    \/ SourceComplete \/ SourceKey
    \/ \E d \in {"none", "digit", "hash"} \intersect iPlan.kinds, m, a \in BOOLEAN :
           SourceGap(d, m, a) \/ SourceEnd(d, m) \/ \E n \in {"none", "some", "all"} : SourceAudio(d, m, n)
    \/ AudioEdge \/ TakeEvent \/ StopPeer
    \/ \E o \in {"drained", "cancelled"} : Playout(o)
    \/ \E c \in {"redirect", "text"} \intersect iPlan.kinds : SendCommand(c)

-----------------------------------------------------------------------------
Kept(e) == e \in {"digit", "hash", "unkey"}
\* Control is given every digit and unkey of the wire exactly once and in wire
\* order, with terminators behind the unkey they follow, however full the event
\* ring was and however often the audio ring refused a block; only the end of
\* the session loses some.
EventsInOrder ==
    iOwn.phase # "ended" =>
        SelectSeq(iEvents, Kept) \o (IF iOwn.unkey THEN <<"unkey">> ELSE <<>>) = iOwed

\* The source published for a receive burst answered a query sent in that burst,
\* and a talker's burst is completed towards the provider only when the ring that
\* accepted it has played or discarded it: the ring never holds PCM of a burst
\* older than the one being accepted, and the DTMF gate closes only with a
\* command that is open or still has samples to place.
BurstsCompleteInTurn ==
    /\ iSig.source # 0 => iSig.asked = iSig.source
    /\ iRing.burst # 0 => iRing.burst = iWire.burst
    /\ iWire.talk = "silent" => iRing.token # "pending"
    /\ iSig.muted => iOwn.muted \/ iOwn.cached \/ iOwn.lookback
=============================================================================
