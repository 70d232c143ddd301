------------------------------- MODULE Parrot -------------------------------
(***************************************************************************)
(* The parrot of one node: the capture owned by the audio callback, its    *)
(* live enable and disable requests, and the single recording the control  *)
(* thread may queue for playback.  Control and callback share only rings   *)
(* (requests, acknowledgements, completed clips, recycled buffers, pending *)
(* and completed playback) and two atomics (the enabled flag and busy).    *)
(* One callback is one step, as is each control call; the request and the  *)
(* flag of set_parrot_enabled are two, since the callback may run between. *)
(***************************************************************************)
EXTENDS Naturals, Sequences

CONSTANT MaxSwitches        \* bound on live switches of the feature

VARIABLES
    pRequests,      \* request ring, one slot
    pAcks,          \* acknowledgement ring, one slot
    pHeldAck,       \* parrot_pending_ack
    pCapture,       \* the installed capture, or NoCapture
    pClips,         \* completed ring of the capture, two slots
    pRecycled,      \* recycled ring of the capture, two slots
    pEnabled, pFlag, pSwitching,    \* ControllerControl's view of the switch
    pControl,       \* whether control holds the capture's endpoints
    pBusy,          \* parrot_busy
    pPending, pPlaying, pDone,      \* where the queued recording is
    pSwitches       \* switches so far (bound)

pVars == <<pRequests, pAcks, pHeldAck, pCapture, pClips, pRecycled, pEnabled, pFlag, pSwitching,
           pControl, pBusy, pPending, pPlaying, pDone, pSwitches>>

NoCapture == [installed |-> FALSE, active |-> FALSE, recording |-> FALSE, free |-> 0]
\* ParrotCapture::new: two buffers, empty rings.
NewCapture == [installed |-> TRUE, active |-> FALSE, recording |-> FALSE, free |-> 2]

PInit ==
    /\ pEnabled \in BOOLEAN /\ pFlag = pEnabled /\ pControl = pEnabled
    /\ pCapture = IF pEnabled THEN NewCapture ELSE NoCapture
    /\ pRequests = <<>> /\ pAcks = <<>> /\ pHeldAck = "none"
    /\ pClips = 0 /\ pRecycled = 0
    /\ pSwitching = FALSE /\ pBusy = FALSE
    /\ pPending = FALSE /\ pPlaying = FALSE /\ pDone = FALSE
    /\ pSwitches = 0

\* reclaim_parrot_lifecycle: an acknowledgement settles who holds the endpoints.
EndpointsHeld(acks, has) == IF acks = <<>> THEN has ELSE Head(acks) = "enabled"

\* set_parrot_enabled, up to the flag: reclaim, then one request at a time.
Request(enabled) ==
    /\ pSwitches < MaxSwitches
    /\ pFlag = pEnabled
    /\ pSwitches' = pSwitches + 1
    /\ pAcks' = <<>>
    /\ pControl' = EndpointsHeld(pAcks, pControl)
    /\ LET pending == pSwitching /\ pAcks = <<>>
       IN IF enabled = pEnabled \/ pending \/ pRequests # <<>>
          THEN pSwitching' = pending /\ UNCHANGED <<pRequests, pEnabled>>
          ELSE /\ pRequests' = <<IF enabled THEN "enable" ELSE "disable">>
               /\ pEnabled' = enabled
               /\ pSwitching' = TRUE
    /\ UNCHANGED <<pHeldAck, pCapture, pClips, pRecycled, pFlag, pBusy, pPending, pPlaying, pDone>>

\* The second half of set_parrot_enabled: publish the flag.
Publish ==
    /\ pFlag # pEnabled
    /\ pFlag' = pEnabled
    /\ UNCHANGED <<pRequests, pAcks, pHeldAck, pCapture, pClips, pRecycled, pEnabled, pSwitching,
                   pControl, pBusy, pPending, pPlaying, pDone, pSwitches>>

\* Mutant: only a queued clip gives its buffer back.
TickLinksKeeps(clip, queues) ==
    LET busy == pBusy /\ ~pDone
        has == EndpointsHeld(pAcks, pControl)
        takes == clip /\ pEnabled /\ has /\ pClips > 0
        admits == takes /\ queues /\ ~busy
    IN /\ pFlag = pEnabled
       /\ pAcks' = <<>>
       /\ pSwitching' = (pSwitching /\ pAcks = <<>>)
       /\ pControl' = has
       /\ pDone' = FALSE
       /\ pClips' = IF takes THEN pClips - 1 ELSE pClips
       /\ pRecycled' = IF admits /\ pRecycled < 2 THEN pRecycled + 1 ELSE pRecycled
       /\ pBusy' = (busy \/ admits)
       /\ pPending' = (pPending \/ admits)
       /\ UNCHANGED <<pRequests, pHeldAck, pCapture, pEnabled, pFlag, pPlaying, pSwitches>>

\* tick_links: reclaim finished playback and the lifecycle, then take one
\* completed clip; it is queued unless a source is active, preparation fails or
\* another recording is outstanding, and its buffer is recycled either way.
TickLinks(clip, queues) ==
    LET busy == pBusy /\ ~pDone
        has == EndpointsHeld(pAcks, pControl)
        takes == clip /\ pEnabled /\ has /\ pClips > 0
        admits == takes /\ queues /\ ~busy
    IN /\ pFlag = pEnabled
       /\ pAcks' = <<>>
       /\ pSwitching' = (pSwitching /\ pAcks = <<>>)
       /\ pControl' = has
       /\ pDone' = FALSE
       /\ pClips' = IF takes THEN pClips - 1 ELSE pClips
       /\ pRecycled' = IF takes /\ pRecycled < 2 THEN pRecycled + 1 ELSE pRecycled
       /\ pBusy' = (busy \/ admits)
       /\ pPending' = (pPending \/ admits)
       /\ UNCHANGED <<pRequests, pHeldAck, pCapture, pEnabled, pFlag, pPlaying, pSwitches>>

\* ParrotCapture::observe of one callback: reuse recycled buffers, open a
\* recording on the rising edge, hand a nonempty one over on the falling edge.
Observe(cap, clips, recycled, active, heard) ==
    LET free == cap.free + recycled
        opens == active /\ ~cap.active /\ free > 0
        closes == ~active /\ cap.active /\ cap.recording
        handed == closes /\ heard /\ clips < 2
    IN [cap |-> [installed |-> TRUE, active |-> active,
                 recording |-> (cap.recording /\ ~closes) \/ opens,
                 free |-> IF opens THEN free - 1 ELSE IF closes /\ ~handed THEN free + 1 ELSE free],
        clips |-> IF handed THEN clips + 1 ELSE clips]

\* One callback: sync_parrot_lifecycle, apply_parrot_disable, observe_parrot
\* and the parrot branches of step.
Callback(active, heard, ends) ==
    LET sends == pHeldAck # "none" /\ pAcks = <<>>
        stuck == pHeldAck # "none" /\ pAcks # <<>>
        request == IF stuck \/ pRequests = <<>> THEN "none" ELSE Head(pRequests)
        ack == IF request = "enable" THEN "enabled" ELSE "disabled"
        acks == IF sends THEN <<pHeldAck>> ELSE pAcks
        fits == acks = <<>>
        cap0 == IF request = "enable" THEN NewCapture
                ELSE IF request = "disable" THEN NoCapture ELSE pCapture
        clips0 == IF request = "none" THEN pClips ELSE 0
        recycled0 == IF request = "none" THEN pRecycled ELSE 0
        o == Observe(cap0, clips0, recycled0, active, heard)
        off == request = "disable" \/ ~pFlag
        drops == off \/ active              \* discard_pending_parrot
        pending == pPending /\ ~drops
        starts == ~active /\ pending /\ ~pPlaying
        plays == (pPlaying /\ ~off) \/ starts
    IN /\ pRequests' = IF request = "none" THEN pRequests ELSE <<>>
       /\ pAcks' = IF request # "none" /\ fits THEN <<ack>> ELSE acks
       /\ pHeldAck' = IF request # "none" /\ ~fits THEN ack ELSE IF stuck THEN pHeldAck ELSE "none"
       /\ pCapture' = IF cap0.installed THEN o.cap ELSE NoCapture
       /\ pClips' = IF cap0.installed THEN o.clips ELSE clips0
       /\ pRecycled' = IF cap0.installed THEN 0 ELSE recycled0
       /\ pPending' = (pending /\ ~starts)
       /\ pPlaying' = (plays /\ ~ends)
       /\ pDone' = (pDone \/ (pPending /\ drops) \/ (pPlaying /\ off) \/ (plays /\ ends))
       /\ UNCHANGED <<pEnabled, pFlag, pSwitching, pControl, pBusy, pSwitches>>

PNext ==
    \/ \E e \in BOOLEAN : Request(e)
    \/ Publish
    \/ \E clip, queues \in BOOLEAN : TickLinks(clip, queues)
    \/ \E active, heard, ends \in BOOLEAN : Callback(active, heard, ends)

PSpec == PInit /\ [][PNext]_pVars

-----------------------------------------------------------------------------
PTypeOK ==
    /\ pRequests \in {<<>>, <<"enable">>, <<"disable">>}
    /\ pAcks \in {<<>>, <<"enabled">>, <<"disabled">>}
    /\ pHeldAck \in {"none", "enabled", "disabled"}
    /\ pClips \in 0..2 /\ pRecycled \in 0..2 /\ pCapture.free \in 0..2

\* "disable requests follow an acknowledged enable": a disable request finds a
\* capture to return, and an enable request never overwrites one.
DisableFindsCapture ==
    pRequests # <<>> => pCapture.installed = (Head(pRequests) = "disable")

\* busy admits one recording at a time and is never lost: while it is set the
\* recording waits, plays or is on its way back to control, and only then.
BusyAccountsRecording ==
    pBusy = (pPending \/ pPlaying \/ pDone)
    /\ ~(pPending /\ pPlaying) /\ ~(pPending /\ pDone) /\ ~(pPlaying /\ pDone)

\* An installed capture keeps its two buffers: free, recording, completed or
\* recycled; it can always record again once control returns them.
BuffersKept ==
    pCapture.installed =>
        pCapture.free + pClips + pRecycled + (IF pCapture.recording THEN 1 ELSE 0) = 2

\* The three together: the live switch never loses a capture, the busy flag
\* accounts for the one queued recording, and a capture keeps its two buffers.
ParrotKept == DisableFindsCapture /\ BusyAccountsRecording /\ BuffersKept
=============================================================================
