----------------------------- MODULE PeerEgress -----------------------------
(***************************************************************************)
(* Audio on its way out to one peer: the device's SourceClock stamps what  *)
(* the transmit callback renders, the LinkAudioQueue carries it as spans,  *)
(* and Outbound::step converts, encodes and offers one packet at a time.   *)
(* Samples, nanoseconds and milliseconds are one unit here (the link runs  *)
(* at the native rate), and a sample is its number on the source timeline, *)
(* so the converter, the PCM buffer, the codec and a packet are sequences  *)
(* of numbered samples. The resampler, the codec and the provider's write   *)
(* are external: the first may hold one sample back, the second fills      *)
(* packets of Packet samples and pads on flush, the third may refuse.  The *)
(* birth each sample carries, and the last packet sent, are ghosts.        *)
(***************************************************************************)
EXTENDS Integers, Sequences, SequencesExt

CONSTANTS
    Age,            \* AGE_NS: the oldest media worth sending
    Packet,         \* samples of one encoded packet
    EgressPlans     \* instances: [sync, ring, spans, jitter, time, written, redirects, restarts]

VARIABLES
    ePlan,
    eNow,           \* monotonic time
    eClock,         \* SourceClock
    eQueue, eHead,  \* published spans; whether the consumer has popped the first descriptor
    eBurst,         \* burst identity of what the callback renders, odd while keyed
    eOut,           \* Outbound, with the contents of its converter and codec
    eWritten, eRedirects    \* bounds

eVars == <<ePlan, eNow, eClock, eQueue, eHead, eBurst, eOut, eWritten, eRedirects>>

None == [some |-> FALSE]

\* Outbound::new: nothing retained and a fresh encoder to request.
NewOutbound ==
    [pcm |-> <<>>, held |-> <<>>, codec |-> <<>>, conv |-> None, enc |-> None, reset |-> TRUE,
     pend |-> None, anchor |-> None, unkey |-> None, idle |-> 0, sent |-> FALSE, next |-> 0,
     last |-> None]

\* SourceClock::new and the construction of an empty queue.
EInit ==
    /\ ePlan \in EgressPlans
    /\ eNow = 0
    /\ eClock = [stream |-> 0, next |-> 0, pubStream |-> 0, pubStart |-> 0,
                 mapStream |-> 0, offset |-> 0, seen |-> <<0, 0>>]
    /\ eQueue = <<>> /\ eHead = FALSE /\ eBurst = 0
    /\ eOut = NewOutbound
    /\ eWritten = 0 /\ eRedirects = 0

-----------------------------------------------------------------------------
(* The clock and the queue. *)

Frames(queue) == FoldSeq(LAMBDA span, n : span.frames + n, 0, queue)

\* LinkAudioProducer::write: the leading samples that fit, if a descriptor is free.
Written(span, count) ==
    LET free == ePlan.ring - Frames(eQueue)
        slots == ePlan.spans - (Len(eQueue) - IF eHead THEN 1 ELSE 0)
        fits == IF slots = 0 THEN 0 ELSE IF count < free THEN count ELSE free
    IN IF fits = 0 THEN eQueue ELSE Append(eQueue, [span EXCEPT !.frames = fits])

\* SourceClock::advance in the transmit callback, which writes the block when it
\* is keyed; the same tick of the device moves time.  Each queue belongs to one
\* media generation, so the redirections number them.
Advance(count, keyed) ==
    LET burst == IF keyed = (eBurst % 2 = 1) THEN eBurst ELSE eBurst + 1
        born == eClock.next + eClock.offset
        mapped == eClock.stream # 0 /\ eClock.mapStream = eClock.stream /\ born >= 0
        span == [burst |-> burst, start |-> eClock.next, stream |-> eClock.stream, generation |-> eRedirects,
                 born |-> IF mapped THEN born ELSE -1, frames |-> count]
    IN /\ eNow < ePlan.time
       /\ IF keyed THEN eWritten < ePlan.written ELSE count = 1
       /\ eNow' = eNow + count
       /\ eClock' = [eClock EXCEPT !.next = @ + count, !.pubStart = eClock.next, !.pubStream = eClock.stream]
       /\ eQueue' = IF keyed THEN Written(span, count) ELSE eQueue
       /\ eBurst' = burst
       /\ eWritten' = IF keyed THEN eWritten + 1 ELSE eWritten
       /\ UNCHANGED <<ePlan, eHead, eOut, eRedirects>>

\* SourceClock::restart, by control with the old callbacks quiescent.
Restart ==
    /\ eClock.stream < ePlan.restarts
    /\ eClock' = [eClock EXCEPT !.stream = @ + 1]
    /\ UNCHANGED <<ePlan, eNow, eQueue, eHead, eBurst, eOut, eWritten, eRedirects>>

\* SourceClock::observe by the media owner, late samples after the callback.
Observe(late) ==
    LET c == eClock
    IN /\ c.stream # 0 /\ c.pubStream = c.stream /\ c.seen # <<c.stream, c.pubStart>>
       /\ eClock' = [c EXCEPT !.offset = eNow + late - c.pubStart, !.mapStream = c.stream,
                              !.seen = <<c.stream, c.pubStart>>]
       /\ UNCHANGED <<ePlan, eNow, eQueue, eHead, eBurst, eOut, eWritten, eRedirects>>

\* read_span of at most Packet samples: the origin moves with what is consumed.
ReadSpan(queue) ==
    LET span == Head(queue)
        n == IF span.frames < Packet THEN span.frames ELSE Packet
        rest == [span EXCEPT !.start = @ + n, !.frames = @ - n,
                             !.born = IF @ = -1 THEN -1 ELSE @ + n]
    IN [span |-> span, count |-> n,
        queue |-> IF rest.frames = 0 THEN Tail(queue) ELSE <<rest>> \o Tail(queue),
        head |-> rest.frames # 0]

\* read: consecutive spans until n samples are copied.
ReadSpans(queue, n) ==
    FoldLeft(LAMBDA acc, span :
                 IF span.frames <= acc.n THEN [acc EXCEPT !.n = @ - span.frames]
                 ELSE [n |-> 0, rest |-> Append(acc.rest, [span EXCEPT !.frames = @ - acc.n, !.start = @ + acc.n])],
             [n |-> n, rest |-> <<>>], queue).rest

-----------------------------------------------------------------------------
(* Outbound. *)

\* Outbound::discard: hidden history is never spliced into a new span.
Discarded(o) ==
    [o EXCEPT !.pend = None, !.conv = None, !.pcm = <<>>, !.held = <<>>, !.enc = None, !.reset = TRUE]

\* prepare: offer the PCM to the codec; it may yield one packet, stamped from the
\* anchor of its physical stream.  flush pads what the codec retains.
Encoded(o, now, flush) ==
    LET room == Packet - Len(o.codec)
        n == IF Len(o.pcm) < room THEN Len(o.pcm) ELSE room
        fed == o.codec \o SubSeq(o.pcm, 1, n)
        yields == Len(fed) = Packet \/ (flush /\ fed # <<>>)
        origin == o.enc.origin + o.enc.wire
        anchor == IF o.anchor.some /\ o.anchor.stream = o.enc.stream THEN o.anchor
                  ELSE [some |-> TRUE, stream |-> o.enc.stream, source |-> origin, call |-> o.enc.born]
        ts == anchor.call + origin - anchor.source
        taken == [o EXCEPT !.pcm = SubSeq(@, n + 1, Len(@)), !.codec = fed, !.enc.input = @ + n]
    IN IF ~yields THEN [taken EXCEPT !.enc.drained = flush]
       ELSE [taken EXCEPT !.codec = <<>>, !.anchor = anchor,
                          !.enc.wire = @ + Packet, !.enc.born = @ + Len(fed), !.enc.end = @ + Len(fed),
                          !.pend = [some |-> TRUE, first |-> fed[1], origin |-> origin, ts |-> ts, end |-> ts + Packet,
                                    expires |-> o.enc.born + Age, stream |-> o.enc.stream]]
Prepared(o, now, stream, flush) ==
    LET fresh == IF o.reset THEN [o EXCEPT !.codec = <<>>, !.reset = FALSE] ELSE o
    IN IF now >= o.enc.born + Age \/ o.enc.stream # stream
       THEN Discarded(fresh) ELSE Encoded(fresh, now, flush)

\* converted: account the converter's output and start or continue the encoder.
Converted(o, output, now, stream, input) ==
    LET c == o.conv
        origin == c.span.start + c.out
        next == origin + Len(output)
        born == IF input.some /\ next >= input.span.start
                THEN input.span.born + next - input.span.start ELSE c.born + Len(output)
        told == [o EXCEPT !.conv.out = @ + Len(output), !.conv.born = born]
        enc == IF ~o.enc.some
               THEN [some |-> TRUE, stream |-> c.span.stream, origin |-> origin, born |-> c.born,
                     wire |-> 0, end |-> 0, input |-> 0, drained |-> FALSE]
               ELSE IF o.enc.end = o.enc.input THEN [o.enc EXCEPT !.born = c.born] ELSE o.enc
    IN IF output = <<>> THEN told
       ELSE Prepared([told EXCEPT !.pcm = output, !.enc = enc, !.unkey = [some |-> TRUE, at |-> now + Packet]],
                     now, stream, FALSE)

\* Mutant: only the burst is compared, not the place on the source timeline.
ContinuesAnywhere(c, span, now) ==
    /\ c.some /\ ~c.drained /\ c.span.stream = span.stream /\ c.span.burst = span.burst
    /\ c.span.generation = span.generation /\ now < c.born + Age
\* encode: a span that does not continue the conversion starts a new one; the
\* converter returns all but `keep` of what it was given.
Continues(c, span, now) ==
    /\ c.some /\ ~c.drained
    /\ c.span.stream = span.stream /\ c.span.burst = span.burst /\ c.span.generation = span.generation
    /\ c.next = span.start
    /\ now < c.born + Age
Encode(o, span, count, now, stream, keep) ==
    LET base == IF Continues(o.conv, span, now) THEN o
                ELSE [Discarded(o) EXCEPT !.conv = [some |-> TRUE, span |-> span, next |-> span.start,
                                                    out |-> 0, born |-> span.born, drained |-> FALSE]]
        all == base.held \o [i \in 1..count |-> [at |-> span.start + i - 1, born |-> span.born + i - 1]]
        out == Len(all) - keep
    IN Converted([base EXCEPT !.held = SubSeq(all, out + 1, Len(all)), !.conv.next = span.start + count,
                              !.unkey = [some |-> TRUE, at |-> now + Packet]],
                 SubSeq(all, 1, out), now, stream, [some |-> TRUE, span |-> span])

\* send: the provider takes the packet or asks to be tried again.
Offer(o, now, takes) ==
    IF o.pend.some /\ takes
    THEN [o EXCEPT !.idle = o.pend.end, !.pend = None, !.sent = TRUE,
                   !.last = [some |-> TRUE, packet |-> o.pend, age |-> now - o.pend.first.born,
                             before |-> IF o.last.some THEN o.last.packet ELSE None],
                   !.unkey = [some |-> TRUE, at |-> now + Packet]]
    ELSE o

\* The end of step, with nothing else due: after the unkey deadline the converter
\* and the codec are drained, and then the idle marker closes the burst.
Closing(o, now, stream, takes) ==
    LET converts == o.conv.some /\ ~o.conv.drained
        tail == Offer(Converted([o EXCEPT !.held = <<>>, !.conv.drained = TRUE], o.held, now, stream, None),
                      now, takes)
        after == IF converts THEN tail ELSE o
        flushes == after.enc.some /\ ~after.enc.drained
        flushed == Offer(Prepared(after, now, stream, TRUE), now, takes)
        done == IF flushes THEN flushed ELSE after
        waits == done.sent /\ now < o.unkey.at + Age /\ ~takes
    IN IF converts /\ o.held # <<>> THEN tail
       ELSE IF flushes /\ (flushed.pend.some \/ (flushed.enc.some /\ ~flushed.enc.drained)) THEN flushed
       ELSE IF waits THEN done
       ELSE [done EXCEPT !.sent = FALSE, !.unkey = None]

\* What the first half of step does with the packet, the PCM or the next span.
SpanDue(span) == span.born <= eNow \/ span.stream # eClock.stream
Media(o, read, stream, takes, keep) ==
    IF o.pend.some
    THEN IF eNow >= o.pend.expires \/ o.pend.stream # stream THEN Discarded(o) ELSE Offer(o, eNow, takes)
    ELSE IF o.pcm # <<>> THEN Offer(Prepared(o, eNow, stream, FALSE), eNow, takes)
    ELSE IF ~read.some THEN o
    ELSE IF read.span.born = -1 \/ eNow >= read.span.born + Age \/ read.span.stream # stream
         THEN Discarded(o)
    ELSE Offer(Encode(o, read.span, read.count, eNow, stream, keep), eNow, takes)

\* Outbound::step for an asynchronous provider.
Step(takes, keep) ==
    LET reads == ~eOut.pend.some /\ eOut.pcm = <<>> /\ eQueue # <<>> /\ SpanDue(Head(eQueue))
        r == IF reads THEN ReadSpan(eQueue) ELSE [queue |-> eQueue, head |-> eHead]
        stream == eClock.stream
    IN /\ ~ePlan.sync
       /\ reads => keep <= Len(eOut.held) + r.count
       /\ \E o \in {Media(eOut, IF reads THEN [some |-> TRUE, span |-> r.span, count |-> r.count] ELSE None,
                          stream, takes, keep)} :
            LET due == r.queue # <<>> /\ Head(r.queue).born <= eNow
                closes == ~o.pend.some /\ o.pcm = <<>> /\ ~due /\ o.unkey.some /\ eNow >= o.unkey.at
            IN eOut' = IF closes THEN Closing(o, eNow, stream, takes) ELSE o
       /\ eQueue' = r.queue
       /\ eHead' = IF ~eOut'.pend.some /\ eOut'.pcm = <<>> THEN r.queue # <<>> ELSE r.head
       /\ UNCHANGED <<ePlan, eNow, eClock, eBurst, eWritten, eRedirects>>

\* pcm_step for a synchronous provider: one block every Packet, without clock;
\* the end of a burst drains the converter and then writes the end marker.
PcmStep(keep) ==
    LET n == IF Frames(eQueue) < Packet THEN Frames(eQueue) ELSE Packet
        all == eOut.held \o [i \in 1..n |-> [at |-> 0, born |-> 0]]
        out == Len(all) - keep
        due == [eOut EXCEPT !.next = Packet + IF n = 0 \/ ~eOut.sent THEN eNow ELSE eOut.next]
    IN /\ ePlan.sync /\ eNow >= eOut.next
       /\ keep <= Len(all) /\ (n = 0 => keep = 0)
       /\ eOut' = IF n # 0 THEN [due EXCEPT !.held = SubSeq(all, out + 1, Len(all)), !.sent = @ \/ out > 0]
                  ELSE IF eOut.sent /\ eOut.held # <<>> THEN [due EXCEPT !.held = <<>>]
                  ELSE [due EXCEPT !.sent = FALSE]
       /\ eQueue' = ReadSpans(eQueue, n)
       /\ eHead' = (eQueue' # <<>> /\ (eHead \/ eQueue' # eQueue))
       /\ UNCHANGED <<ePlan, eNow, eClock, eBurst, eWritten, eRedirects>>

\* redirect: a new queue and nothing of the old one.
Redirect ==
    /\ eRedirects < ePlan.redirects
    /\ eRedirects' = eRedirects + 1
    /\ eQueue' = <<>> /\ eHead' = FALSE
    /\ eOut' = Discarded(eOut)
    /\ UNCHANGED <<ePlan, eNow, eClock, eBurst, eWritten>>

ENext ==
    \/ \E count \in 1..2, keyed \in BOOLEAN : Advance(count, keyed)
    \/ Restart
    \/ \E late \in 0..ePlan.jitter : Observe(late)
    \/ \E takes \in BOOLEAN, keep \in 0..1 : Step(takes, keep)
    \/ \E keep \in 0..1 : PcmStep(keep)
    \/ Redirect

-----------------------------------------------------------------------------
\* "never rebase dropped media" (link_queue.rs): a packet's place on the wire is
\* the place of its first sample on the source timeline, whatever the queue
\* rejected, the converter held back or the codec retained before it; packets of
\* one stream do not overlap; what is sent is younger than Age by the clock, up to
\* the Late samples by which an observation can be late; and a burst the
\* peer has heard is always scheduled to be closed by the idle marker.
Late == 2 + ePlan.jitter
SourceTimeTold ==
    LET last == eOut.last
    IN /\ last.some =>
            /\ last.packet.origin = last.packet.first.at
            /\ last.age < Age + Late
            /\ last.before.some /\ last.before.stream = last.packet.stream =>
                   last.packet.ts >= last.before.end
       /\ eOut.sent /\ ~ePlan.sync => eOut.unkey.some
=============================================================================
