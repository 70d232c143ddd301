------------------------------- MODULE ChildPcm -------------------------------
(***************************************************************************)
(* One decoder or synthesizer process and the PCM stream read from it.     *)
(* The stream feeds the child's input and reads its output through pipes   *)
(* that never block, cuts the bytes into samples of two, and ends cleanly  *)
(* only when the child has exited with success.  Bytes are numbered in the *)
(* order the child writes them, so that a sample shows which bytes it was  *)
(* made of.                                                                *)
(***************************************************************************)
EXTENDS Naturals, Sequences

CONSTANT ChildPlans  \* [bytes, data, chunks, input, odd, bad, faults]; data = 0: no announced length

VARIABLES
    cPlan,      \* the program the child runs and what may go wrong
    cChild,     \* the process: its place, exit code, bytes written and input read
    cPipe,      \* bytes waiting in the pipe from the child
    cStdin,     \* the pipe to the child: open, bytes sent
    cStream,    \* PcmStream and ChildStream
    cReaper,    \* whether the host's reaper is held off
    cOut,       \* samples returned so far (history)
    cResult     \* what the last call returned

cVars == <<cPlan, cChild, cPipe, cStdin, cStream, cReaper, cOut, cResult>>

Width == 2
BufferSize == 4
PipeSize == 4
MaxOutput == 2      \* samples one call asks for

NoStream ==
    [at |-> "none", chunk |-> 1, format |-> FALSE, buffer |-> [i \in 1 .. BufferSize |-> 0], pos |-> 0, len |-> 0,
     carry |-> 0, remaining |-> 0, read |-> 0, samples |-> 0, ended |-> FALSE, deferred |-> "none"]

CInit ==
    /\ cPlan \in ChildPlans
    /\ cChild = [at |-> "none", code |-> "none", wrote |-> 0, input |-> 0]
    /\ cPipe = 0
    /\ cStdin = [open |-> FALSE, sent |-> 0]
    /\ cStream = NoStream
    /\ cReaper = FALSE
    /\ cOut = <<>>
    /\ cResult = "none"

-----------------------------------------------------------------------------
(* The child (external). *)

ChildWrites(k) ==
    /\ cChild.at = "running" /\ cStream.at \notin {"header", "dropping"}
    /\ cChild.wrote + k <= cPlan.bytes /\ cPipe + k <= PipeSize
    /\ k % Width = 0 \/ cPlan.odd
    /\ cChild' = [cChild EXCEPT !.wrote = @ + k]
    /\ cPipe' = cPipe + k
    /\ UNCHANGED <<cPlan, cStdin, cStream, cReaper, cOut, cResult>>

ChildReads ==
    /\ cChild.at \in {"running", "closed"} /\ cChild.input < cStdin.sent
    /\ cChild' = [cChild EXCEPT !.input = @ + 1]
    /\ UNCHANGED <<cPlan, cPipe, cStdin, cStream, cReaper, cOut, cResult>>

\* The child closes its output, then exits; only a failing one stops short.
ChildCloses ==
    /\ cChild.at = "running" /\ cStream.at \notin {"header", "dropping"}
    /\ cChild.wrote = cPlan.bytes \/ cPlan.faults
    /\ cChild' = [cChild EXCEPT !.at = "closed"]
    /\ UNCHANGED <<cPlan, cPipe, cStdin, cStream, cReaper, cOut, cResult>>

ChildExits(code) ==
    /\ cChild.at = "closed"
    /\ code = "bad" => cPlan.faults
    /\ code = "ok" => cChild.wrote = cPlan.bytes /\ cChild.input = cPlan.input
    /\ cChild' = [cChild EXCEPT !.at = "exited", !.code = code]
    /\ UNCHANGED <<cPlan, cPipe, cStdin, cStream, cReaper, cOut, cResult>>

-----------------------------------------------------------------------------
(* Opening. *)

\* Drop for ChildStream: the pipes close first; then its fields are dropped in turn.
Dropped == /\ cStream' = [NoStream EXCEPT !.at = "dropping"]
           /\ cStdin' = [cStdin EXCEPT !.open = FALSE]
           /\ cPipe' = 0
           /\ UNCHANGED <<cChild, cReaper>>

\* OwnedChild: a child that still runs is killed, and it is waited for.
DropChild ==
    /\ cStream.at = "dropping" /\ cChild.at \notin {"none", "reaped"}
    /\ cChild' = [cChild EXCEPT !.at = "reaped"]
    /\ UNCHANGED <<cPlan, cPipe, cStdin, cStream, cReaper, cOut, cResult>>

\* ReaperGuard: the last field; the host may reap again.
DropGuard ==
    /\ cStream.at = "dropping" /\ cChild.at \in {"none", "reaped"}
    /\ cReaper' = FALSE
    /\ cStream' = [NoStream EXCEPT !.at = "closed"]
    /\ UNCHANGED <<cPlan, cChild, cPipe, cStdin, cOut, cResult>>

\* The first part of spawn: the reaper is held off, unless the call is cancelled.
AcquireSlot(cancelled) ==
    /\ cStream.at = "none" /\ (cancelled => cPlan.faults)
    /\ cReaper' = ~cancelled
    /\ cStream' = [cStream EXCEPT !.at = IF cancelled THEN "closed" ELSE "spawning"]
    /\ cResult' = IF cancelled THEN "error" ELSE cResult
    /\ UNCHANGED <<cPlan, cChild, cPipe, cStdin, cOut>>

\* The rest of it: the child starts, and its pipes are made non-blocking.
Spawn(started, piped) ==
    /\ cStream.at = "spawning" /\ ((started /\ piped) \/ cPlan.faults)
    /\ cChild' = IF started THEN [cChild EXCEPT !.at = "running"] ELSE cChild
    /\ IF started /\ piped
       THEN /\ cStdin' = [cStdin EXCEPT !.open = cPlan.input > 0]
            /\ cStream' = [cStream EXCEPT !.at = IF cPlan.chunks = <<>> THEN "idle" ELSE "header"]
       ELSE cStream' = [NoStream EXCEPT !.at = "dropping"] /\ UNCHANGED cStdin
    /\ cResult' = IF started /\ piped THEN "opened" ELSE "error"
    /\ UNCHANGED <<cPlan, cPipe, cReaper, cOut>>

\* f32_wave: one format chunk, unknown chunks skipped, then the data.
Header(ok) ==
    /\ cStream.at = "header" /\ (ok \/ cPlan.faults)
    /\ LET kind == cPlan.chunks[cStream.chunk]
           fits == ok /\ (kind = "format" => ~cStream.format) /\ (kind = "data" => cStream.format)
       IN IF ~fits THEN Dropped /\ cResult' = "error"
          ELSE /\ cStream' = [cStream EXCEPT !.chunk = @ + 1, !.format = @ \/ kind = "format",
                                  !.at = IF kind = "data" THEN "idle" ELSE "header",
                                  !.remaining = IF kind = "data" THEN cPlan.data ELSE 0]
               /\ UNCHANGED <<cChild, cStdin, cPipe, cReaper, cResult>>
    /\ UNCHANGED <<cPlan, cOut>>

\* close_stream.
Close ==
    /\ cStream.at = "idle"
    /\ Dropped
    /\ UNCHANGED <<cPlan, cOut, cResult>>

-----------------------------------------------------------------------------
(* Reading. *)

Sized == cPlan.data > 0
SampleAt(st, i) == <<st.buffer[st.pos + (i - 1) * Width + 1], st.buffer[st.pos + (i - 1) * Width + 2]>>
InBuffer(st) == (st.len - st.pos) \div Width
Least(a, b) == IF a < b THEN a ELSE b

\* An error while reading: a call with samples in hand returns them first.
Fails(st, written) ==
    IF written = 0 THEN cStream' = [st EXCEPT !.at = "idle"] /\ cResult' = "error"
    ELSE cStream' = [st EXCEPT !.at = "idle", !.deferred = "error"] /\ cResult' = "data"

\* The refill that follows an empty buffer: the rest of it is carried over.
Refill(st) ==
    LET carry == IF st.pos < st.len THEN st.len - st.pos ELSE st.carry
    IN [st EXCEPT !.carry = carry, !.pos = 0, !.len = carry,
                  !.at = IF Sized /\ st.remaining = 0 THEN "tail" ELSE "filling"]

\* PcmStream::read up to the next read of the pipe.
Decode(st) ==
    LET upto == Least(InBuffer(st), MaxOutput)
        bad == cPlan.bad \in st.samples + 1 .. st.samples + upto
        taken == IF bad THEN cPlan.bad - st.samples - 1 ELSE upto
        next == [st EXCEPT !.pos = @ + Width * (IF bad THEN taken + 1 ELSE taken), !.samples = @ + taken]
    IN /\ cOut' = cOut \o [i \in 1 .. taken |-> SampleAt(st, i)]
       /\ IF bad THEN Fails(next, taken)
          ELSE IF taken > 0 THEN cStream' = [next EXCEPT !.at = "idle"] /\ cResult' = "data"
          ELSE cStream' = Refill(st) /\ UNCHANGED cResult

\* A reader gives up a stream that failed.
Read ==
    /\ cStream.at = "idle" /\ cResult # "error"
    /\ IF cStream.deferred # "none"
       THEN cStream' = [cStream EXCEPT !.deferred = "none"] /\ cResult' = "error" /\ UNCHANGED cOut
       ELSE IF cStream.ended THEN cResult' = "eof" /\ UNCHANGED <<cStream, cOut>>
       ELSE Decode(cStream)
    /\ UNCHANGED <<cPlan, cChild, cPipe, cStdin, cReaper>>

Resume == cStream.at = "decode" /\ Decode(cStream) /\ UNCHANGED <<cPlan, cChild, cPipe, cStdin, cReaper>>

\* pump_input: some of what is left, and the end of it closes the pipe.
PumpInput ==
    cStdin' = IF ~cStdin.open THEN cStdin
              ELSE [open |-> cStdin.sent + 1 < cPlan.input, sent |-> cStdin.sent + 1]

\* The next bytes, read in behind the carried ones.
Filled(st, count) ==
    [i \in 1 .. BufferSize |->
        IF i > st.carry /\ i <= st.carry + count THEN st.read + (i - st.carry) ELSE st.buffer[i]]

\* ChildStream::read: cancelled, out of time, data, or the end of the output.
PollOutput(fails) ==
    /\ cStream.at \in {"filling", "tail"} /\ (fails => cPlan.faults)
    /\ IF fails THEN /\ cStream' = [cStream EXCEPT !.at = "idle"] /\ cResult' = "error"
                     /\ UNCHANGED <<cStdin, cPipe>>
       ELSE /\ PumpInput
            /\ UNCHANGED cResult
            /\ LET space == BufferSize - cStream.carry
                   limit == IF Sized THEN Least(cStream.remaining, space) ELSE space
                   count == Least(cPipe, limit)
               IN \/ /\ cPipe > 0 /\ cStream.at = "filling"
                     /\ cPipe' = cPipe - count
                     /\ cStream' = [cStream EXCEPT !.at = "decode", !.buffer = Filled(cStream, count),
                                        !.len = cStream.carry + count, !.read = @ + count,
                                        !.remaining = IF Sized THEN @ - count ELSE @]
                  \/ /\ cPipe > 0 /\ cStream.at = "tail"
                     /\ cPipe' = 0 /\ UNCHANGED cStream
                  \/ /\ cPipe = 0 /\ cChild.at \in {"closed", "exited"}
                     /\ cStream' = [cStream EXCEPT !.at = "finish"] /\ UNCHANGED cPipe
    /\ UNCHANGED <<cPlan, cChild, cReaper, cOut>>

\* Mutant: the length the header announced is not compared.
EndsWellShort(st) == st.carry = 0 /\ st.samples > 0

\* end_or_error: nothing carried over, nothing missing, not nothing at all.
EndsWell(st) == st.carry = 0 /\ (Sized => st.remaining = 0) /\ st.samples > 0

\* ChildStream::finish: only a successful exit is the end.
PollExit(fails) ==
    /\ cStream.at = "finish" /\ (fails => cPlan.faults)
    /\ IF fails THEN cStream' = [cStream EXCEPT !.at = "idle"] /\ cResult' = "error" /\ UNCHANGED cStdin
       ELSE /\ PumpInput
            /\ IF cChild.at # "exited" THEN UNCHANGED <<cStream, cResult>>
               ELSE IF cChild.code = "ok" /\ EndsWell(cStream)
               THEN cStream' = [cStream EXCEPT !.at = "idle", !.ended = TRUE] /\ cResult' = "eof"
               ELSE cStream' = [cStream EXCEPT !.at = "idle"] /\ cResult' = "error"
    /\ UNCHANGED <<cPlan, cChild, cPipe, cReaper, cOut>>

CNext ==
    \/ \E k \in 1 .. 2 : ChildWrites(k)
    \/ ChildReads \/ ChildCloses \/ \E code \in {"ok", "bad"} : ChildExits(code)
    \/ \E cancelled \in BOOLEAN : AcquireSlot(cancelled)
    \/ \E started, piped \in BOOLEAN : Spawn(started, piped)
    \/ \E ok \in BOOLEAN : Header(ok)
    \/ Read \/ Resume \/ \E fails \in BOOLEAN : PollOutput(fails) \/ PollExit(fails)
    \/ Close \/ DropChild \/ DropGuard

-----------------------------------------------------------------------------
(* Properties. *)

\* Every sample returned so far is made of the bytes the child wrote for it.
AllWhole == \A i \in DOMAIN cOut : cOut[i] = <<Width * i - 1, Width * i>>

\* A sample is made of the bytes the child wrote for it, however its writes and
\* the reads fall, until a read of the pipe ends inside a sample.
SamplesWhole == cStream.at \notin {"dropping", "closed"} /\ cStream.carry = 0 => AllWhole

\* "zero count means clean EOF": the end is reported only when the child exited
\* with success and everything it wrote, or the header announced, was returned
\* in whole samples.  A stream that was cut inside a sample, whose rest read()
\* never puts back in front of the next bytes, always ends in an error.
EofIsClean ==
    cResult = "eof" =>
        /\ cChild.code = "ok" \/ cChild.at = "reaped"
        /\ AllWhole
        /\ Width * Len(cOut) = IF Sized THEN cPlan.data ELSE cPlan.bytes

\* The host's reaper is held off before a child exists and until it has been
\* waited for, and is given back by every way out of spawn, header and drop.
ReaperHeldOff ==
    /\ cChild.at \in {"running", "closed", "exited"} => cReaper
    /\ cStream.at = "closed" => ~cReaper

\* All of them: a child's samples are whole or its stream fails, its clean end
\* is an exit with success, and the reaper leaves a child still owned alone.
PcmSafe == SamplesWhole /\ EofIsClean /\ ReaperHeldOff
=============================================================================
