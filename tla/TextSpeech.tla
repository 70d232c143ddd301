------------------------------ MODULE TextSpeech ------------------------------
(***************************************************************************)
(* The text executor of the product: two workers synthesize the messages   *)
(* of every origin, and a reader per origin plays them on audio.  A        *)
(* message holds a ticket of its origin and of the node from admission to  *)
(* the moment a worker frees its ring; the queue and the rings are sized   *)
(* by these tickets, so that neither a push nor a retirement can fail.     *)
(* Messages of one origin are produced one at a time, in order, although   *)
(* both workers take jobs from the same queue.                             *)
(***************************************************************************)
EXTENDS Naturals, Sequences, FiniteSets

CONSTANTS
    OriginMax,      \* tickets, ready slots and retired slots of an origin
    NodeMax,        \* tickets of the node and slots of the job queue
    TextSamples,    \* bound on the samples of one message
    TextPlans       \* [texts |-> bound on the messages of each origin, faults |-> cancels, errors, a stop]

VARIABLES
    tPlan,      \* the bounds of this behaviour
    tOrigin,    \* Origin and its registration
    tReader,    \* TextReader of each origin
    tItem,      \* tItem[o][seq]: ring and ticket of a message
    tQueue,     \* the jobs
    tWorker,    \* the two workers
    tAdmit,     \* two threads in admit
    tStop,      \* "no", "stopping" or "joined"
    tHeard      \* the messages whose samples were heard, by origin (history)

tVars == <<tPlan, tOrigin, tReader, tItem, tQueue, tWorker, tAdmit, tStop, tHeard>>

Workers == 1 .. 2
Origins == DOMAIN tPlan.texts
Nobody == [o |-> 0, seq |-> 0]
Job(o, seq) == [o |-> o, seq |-> seq]
NewItem == [n |-> 0, consumed |-> 0, ended |-> FALSE, failed |-> FALSE]

TInit ==
    /\ tPlan \in TextPlans
    /\ tOrigin = [o \in Origins |-> [known |-> TRUE, cancelled |-> FALSE, sequence |-> 1, next |-> 1,
                                     running |-> FALSE, ready |-> <<>>, retired |-> {}]]
    /\ tReader = [o \in Origins |-> [alive |-> TRUE, current |-> 0, completed |-> 0]]
    /\ tItem = [o \in Origins |-> [s \in 1 .. tPlan.texts[o] |-> NewItem]]
    /\ tQueue = <<>>
    /\ tWorker = [w \in Workers |-> [at |-> "loop", job |-> Nobody]]
    /\ tAdmit = [a \in Workers |-> Nobody]
    /\ tStop = "no"
    /\ tHeard = [o \in Origins |-> <<>>]

TextQueued == {tQueue[i] : i \in DOMAIN tQueue}
Held == {tWorker[w].job : w \in Workers} \ {Nobody}
Admitting == {tAdmit[a] : a \in Workers} \ {Nobody}

\* The tickets of an origin: a job and the ring made of it share one.
Tickets(o) ==
    {j.seq : j \in {k \in TextQueued \cup Held \cup Admitting : k.o = o}}
        \cup {tOrigin[o].ready[i] : i \in DOMAIN tOrigin[o].ready}
        \cup tOrigin[o].retired \cup ({tReader[o].current} \ {0})

Pending(o) == Cardinality(Tickets(o))
NodePending == Cardinality(UNION {{Job(o, s) : s \in Tickets(o)} : o \in Origins})

-----------------------------------------------------------------------------
(* Admission and control. *)

\* admit, up to the sequence: a live origin with a ticket left for it and the node.
Reserve(a, o) ==
    /\ tAdmit[a] = Nobody /\ tStop = "no"
    /\ tOrigin[o].known /\ ~tOrigin[o].cancelled
    /\ Pending(o) < OriginMax /\ NodePending < NodeMax
    /\ tOrigin[o].sequence <= tPlan.texts[o]
    /\ tAdmit' = [tAdmit EXCEPT ![a] = Job(o, tOrigin[o].sequence)]
    /\ tOrigin' = [tOrigin EXCEPT ![o].sequence = @ + 1]
    /\ UNCHANGED <<tPlan, tReader, tItem, tQueue, tWorker, tStop, tHeard>>

\* admit, the push: "reserved station text job slot".
Admit(a) ==
    /\ tAdmit[a] # Nobody
    /\ tQueue' = Append(tQueue, tAdmit[a])
    /\ tAdmit' = [tAdmit EXCEPT ![a] = Nobody]
    /\ UNCHANGED <<tPlan, tOrigin, tReader, tItem, tWorker, tStop, tHeard>>

\* TextExecutor::cancel of one origin.
CancelOrigin(o) ==
    /\ tPlan.faults
    /\ tOrigin[o].known /\ ~tOrigin[o].cancelled /\ tStop = "no"
    /\ tOrigin' = [tOrigin EXCEPT ![o].cancelled = TRUE]
    /\ UNCHANGED <<tPlan, tReader, tItem, tQueue, tWorker, tAdmit, tStop, tHeard>>

\* Drop for TextReader: the rings in its hands go with it.
DropText(o) ==
    /\ tPlan.faults
    /\ tReader[o].alive
    /\ tReader' = [tReader EXCEPT ![o] = [@ EXCEPT !.alive = FALSE, !.current = 0]]
    /\ tOrigin' = [tOrigin EXCEPT ![o].cancelled = TRUE]
    /\ UNCHANGED <<tPlan, tItem, tQueue, tWorker, tAdmit, tStop, tHeard>>

\* reclaim: retired rings are freed, cancelled origins nobody refers to leave.
Referred(o) == tReader[o].alive \/ \E j \in TextQueued \cup Held \cup Admitting : j.o = o
Reclaim == [o \in Origins |->
    IF tOrigin[o].known
    THEN [tOrigin[o] EXCEPT !.retired = {}, !.known = ~tOrigin[o].cancelled \/ Referred(o),
                            !.ready = IF tOrigin[o].cancelled /\ ~Referred(o) THEN <<>> ELSE @]
    ELSE tOrigin[o]]

\* TextExecutor::stop, until the workers have ended.
StopText ==
    /\ tPlan.faults
    /\ tStop = "no" /\ tAdmit = [a \in Workers |-> Nobody]
    /\ tStop' = "stopping"
    /\ tOrigin' = [o \in Origins |-> [tOrigin[o] EXCEPT !.cancelled = @ \/ tOrigin[o].known]]
    /\ UNCHANGED <<tPlan, tReader, tItem, tQueue, tWorker, tAdmit, tHeard>>

JoinText ==
    /\ tStop = "stopping" /\ \A w \in Workers : tWorker[w].at = "exited"
    /\ tStop' = "joined"
    /\ tQueue' = <<>>
    /\ tOrigin' = [o \in Origins |-> [tOrigin[o] EXCEPT !.retired = {}, !.known = @ /\ tReader[o].alive]]
    /\ UNCHANGED <<tPlan, tReader, tItem, tWorker, tAdmit, tHeard>>

-----------------------------------------------------------------------------
(* A worker. *)

Mine(w) == tWorker[w].job
Moves(w, at) == tWorker' = [tWorker EXCEPT ![w].at = at]
Rests(w) == tWorker' = [tWorker EXCEPT ![w] = [at |-> "loop", job |-> Nobody]]
Barred(j) == tStop # "no" \/ tOrigin[j.o].cancelled \/ tItem[j.o][j.seq].failed

\* reclaim, then the next job or the end.
Pop(w) ==
    /\ tWorker[w].at = "loop"
    /\ tOrigin' = Reclaim
    /\ \/ tStop # "no" /\ Moves(w, "exited") /\ UNCHANGED tQueue
       \/ tStop = "no" /\ tQueue = <<>> /\ UNCHANGED <<tWorker, tQueue>>
       \/ /\ tStop = "no" /\ tQueue # <<>>
          /\ tQueue' = Tail(tQueue)
          /\ tWorker' = [tWorker EXCEPT ![w] = [at |-> "claim", job |-> Head(tQueue)]]
    /\ UNCHANGED <<tPlan, tReader, tItem, tAdmit, tStop, tHeard>>

\* Mutant: any message of an idle origin may be produced.
InTurnAny(j) == TRUE

\* A cancelled origin's job is dropped; one out of turn goes back to the queue.
InTurn(j) == j.seq = tOrigin[j.o].next

Claim(w) ==
    /\ tWorker[w].at = "claim"
    /\ LET j == Mine(w)
           claims == InTurn(j) /\ ~tOrigin[j.o].running
       IN IF tOrigin[j.o].cancelled THEN Rests(w) /\ UNCHANGED <<tOrigin, tQueue>>
          ELSE IF claims
          THEN /\ tOrigin' = [tOrigin EXCEPT ![j.o].running = TRUE]
               /\ Moves(w, "open") /\ UNCHANGED tQueue
          ELSE tQueue' = Append(tQueue, j) /\ Rests(w) /\ UNCHANGED tOrigin
    /\ UNCHANGED <<tPlan, tReader, tItem, tAdmit, tStop, tHeard>>

\* produce fails: the ticket says so, and the turn passes on.
Breaks(w) ==
    /\ tItem' = [tItem EXCEPT ![Mine(w).o][Mine(w).seq] = [@ EXCEPT !.failed = TRUE, !.ended = TRUE]]
    /\ Moves(w, "next") /\ UNCHANGED tOrigin

\* produce up to the first samples: the provider may refuse, yield nothing or
\* run out of time; otherwise the ring goes to the reader.
Produce(w, ok) ==
    /\ tWorker[w].at = "open" /\ (ok \/ tPlan.faults)
    /\ IF ok /\ ~Barred(Mine(w))
       THEN /\ tItem' = [tItem EXCEPT ![Mine(w).o][Mine(w).seq].n = 1]
            /\ tOrigin' = [tOrigin EXCEPT ![Mine(w).o].ready = Append(@, Mine(w).seq)]
            /\ Moves(w, "write")
       ELSE Breaks(w)
    /\ UNCHANGED <<tPlan, tReader, tQueue, tAdmit, tStop, tHeard>>

\* The rest of the message: more, its end, or a failure.
WriteText(w, result) ==
    /\ tWorker[w].at = "write"
    /\ LET j == Mine(w)
       IN \/ ((result = "error" /\ tPlan.faults) \/ Barred(j)) /\ Breaks(w)
          \/ /\ result = "more" /\ ~Barred(j) /\ tItem[j.o][j.seq].n < TextSamples
             /\ tItem' = [tItem EXCEPT ![j.o][j.seq].n = @ + 1] /\ UNCHANGED <<tOrigin, tWorker>>
          \/ /\ result = "end" /\ ~Barred(j)
             /\ tItem' = [tItem EXCEPT ![j.o][j.seq].ended = TRUE]
             /\ Moves(w, "next") /\ UNCHANGED tOrigin
    /\ UNCHANGED <<tPlan, tReader, tQueue, tAdmit, tStop, tHeard>>

\* The turn passes to the next message; then the origin is free for a claim.
PassTurn(w) ==
    /\ tWorker[w].at = "next"
    /\ tOrigin' = [tOrigin EXCEPT ![Mine(w).o].next = @ + 1]
    /\ Moves(w, "release")
    /\ UNCHANGED <<tPlan, tReader, tItem, tQueue, tAdmit, tStop, tHeard>>

Release(w) ==
    /\ tWorker[w].at = "release"
    /\ tOrigin' = [tOrigin EXCEPT ![Mine(w).o].running = FALSE]
    /\ Rests(w)
    /\ UNCHANGED <<tPlan, tReader, tItem, tQueue, tAdmit, tStop, tHeard>>

-----------------------------------------------------------------------------
(* The reader, one turn of render's loop at a time. *)

\* The item the reader looks at: the current one or the first that is ready.
Facing(o) == IF tReader[o].current # 0 THEN tReader[o].current
             ELSE IF tOrigin[o].ready = <<>> THEN 0 ELSE Head(tOrigin[o].ready)

RenderText(o, errs) ==
    /\ tReader[o].alive /\ Facing(o) # 0
    /\ LET s == Facing(o)
           x == tItem[o][s]
           taken == IF tReader[o].current # 0 THEN tOrigin ELSE [tOrigin EXCEPT ![o].ready = Tail(@)]
           retires == \/ s <= tReader[o].completed \/ tOrigin[o].cancelled \/ x.failed
                      \/ x.ended /\ x.consumed >= x.n
       IN /\ errs => tPlan.faults /\ ~retires
          /\ IF retires
             THEN /\ tReader' = [tReader EXCEPT ![o].current = 0,
                                                ![o].completed = IF s > @ THEN s ELSE @]
                  /\ tOrigin' = [taken EXCEPT ![o].retired = @ \cup {s}]
                  /\ UNCHANGED <<tItem, tHeard>>
             ELSE /\ tReader' = [tReader EXCEPT ![o].current = s]
                  /\ tOrigin' = taken
                  /\ IF errs THEN tItem' = [tItem EXCEPT ![o][s].failed = TRUE] /\ UNCHANGED tHeard
                     ELSE IF x.consumed < x.n
                     THEN /\ tItem' = [tItem EXCEPT ![o][s].consumed = @ + 1]
                          /\ tHeard' = [tHeard EXCEPT ![o] = Append(@, s)]
                     ELSE UNCHANGED <<tItem, tHeard>>
    /\ UNCHANGED <<tPlan, tQueue, tWorker, tAdmit, tStop>>

TNext ==
    \/ \E o \in Origins : CancelOrigin(o) \/ DropText(o) \/ \E errs \in BOOLEAN : RenderText(o, errs)
    \/ \E a \in Workers : Admit(a) \/ \E o \in Origins : Reserve(a, o)
    \/ StopText \/ JoinText
    \/ \E w \in Workers :
          \/ Pop(w) \/ Claim(w) \/ PassTurn(w) \/ Release(w)
          \/ \E ok \in BOOLEAN : Produce(w, ok)
          \/ \E result \in {"more", "end", "error"} : WriteText(w, result)

-----------------------------------------------------------------------------
(* Properties. *)

\* No push the code calls reserved can fail: the queue, the ready ring and the
\* retired ring of an origin always have room ("four retired slots cannot
\* coexist with a fifth item").
RingsReserved ==
    /\ Len(tQueue) + Cardinality(Held) + Cardinality(Admitting) <= NodeMax
    /\ \A o \in Origins :
         Len(tOrigin[o].ready) + Cardinality(tOrigin[o].retired)
             + (IF tReader[o].current = 0 THEN 0 ELSE 1) <= OriginMax

\* The two workers never produce for one origin at once, whatever moment the
\* turn passes from one to the other.
OneProducer ==
    \A v, w \in Workers :
        (v # w /\ {tWorker[v].at, tWorker[w].at} \subseteq {"open", "write", "next", "release"})
            => Mine(v).o # Mine(w).o

\* A listener hears the messages of an origin in the order of admission.
TextsInOrder ==
    \A o \in Origins : \A i \in 1 .. Len(tHeard[o]) - 1 : tHeard[o][i] <= tHeard[o][i + 1]

\* The message whose turn it is has not been lost: as long as a live origin has
\* messages waiting, the next one waits too, is being made, or comes from admit.
TurnNotLost ==
    \A o \in Origins :
        (~tOrigin[o].cancelled /\ \E j \in TextQueued \cup Held : j.o = o)
            => \/ \E j \in TextQueued \cup Held \cup Admitting : j = Job(o, tOrigin[o].next)
               \/ \E w \in Workers : tWorker[w].at = "release" /\ Mine(w).o = o

\* An origin leaves the registry only when nobody refers to it, and a stopped
\* executor leaves no message behind.
RegistryKeepsUsers ==
    /\ \A o \in Origins : ~tOrigin[o].known => ~\E j \in Held : j.o = o
    /\ tStop = "joined" => tQueue = <<>> /\ Held = {}

\* All of them: queued texts are spoken one at a time and in order, within the
\* limits, and a turn is never lost, whoever gives up.
TextsSafe == RingsReserved /\ OneProducer /\ TextsInOrder /\ TurnNotLost /\ RegistryKeepsUsers
=============================================================================
