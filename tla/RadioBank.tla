------------------------------ MODULE RadioBank ------------------------------
(***************************************************************************)
(* Site outputs on the pins of a radio, which only the radio's own thread  *)
(* touches.  Station control sends it one command at a time (claim a set   *)
(* of pins, or set their levels), reads what it has published, and takes   *)
(* an output for settled only when the owner has serviced it.  A reload    *)
(* fences the pins that change hands: they are driven to their safe level, *)
(* then released, and only then the new layout is adopted.                 *)
(***************************************************************************)
EXTENDS Naturals, Sequences

CONSTANTS Pins,
          BankPlans     \* [layouts, replaces, high, faults]: a layout maps its pins to the safe state

VARIABLES
    bPlan,      \* the layouts of the coming reloads; high: pins active high
    bBank,      \* Bank
    bNext,      \* the replacement: its layout, whether pins are being released
    bAt,        \* the place of the engine thread in a reload
    bOwner,     \* the radio's thread: what it has published
    bQueue,     \* commands accepted and not yet taken
    bPins       \* each pin: physical level, the level it must be left at

bVars == <<bPlan, bBank, bNext, bAt, bOwner, bQueue, bPins>>

NewBank(layout) ==
    [layout |-> layout, demand |-> [p \in DOMAIN layout |-> TRUE], quality |-> [p \in DOMAIN layout |-> "unavailable"],
     generation |-> 0, pending |-> <<>>, fenced |-> {}, releasing |-> FALSE, settled |-> FALSE, touched |-> FALSE,
     error |-> "none"]
NoBank == [active |-> FALSE, layout |-> <<>>, released |-> FALSE]
NoOwner == [gen |-> 0, claimed |-> {}, requested |-> {}, serviced |-> {}, servicedGen |-> 0, rejected |-> 0]

BInit ==
    /\ bPlan \in BankPlans
    /\ bBank = NewBank(bPlan.layouts[1])
    /\ bNext = NoBank
    /\ bAt = "idle"
    /\ bOwner = [NoOwner EXCEPT !.gen = 1]
    /\ bQueue = <<>>
    /\ bPins = [p \in Pins |-> "none"]

-----------------------------------------------------------------------------
(* Bank: the functions of one state. *)

Mask(b) == DOMAIN b.layout
TargetMask(b) == IF b.releasing THEN Mask(b) \ b.fenced ELSE Mask(b)

\* high: the pins whose electrical level is high for the demand, or the safe one.
High(b, safe) ==
    {p \in Mask(b) : (IF safe \/ p \in b.fenced THEN b.layout[p] ELSE b.demand[p]) = (p \in bPlan.high)}
HighOf(on, p) == on = (p \in bPlan.high)

Faulted(b, why) == [b EXCEPT !.error = why, !.settled = FALSE, !.quality = [p \in Mask(b) |-> why]]

Serviced(o, mask, high) ==
    /\ o.claimed = mask
    /\ o.servicedGen = o.gen
    /\ o.requested \cap mask = high
    /\ o.serviced \cap mask = high

\* The last part of observe: settled when nothing is left to do.
Settles(b, o) ==
    LET mask == TargetMask(b)
        done == /\ b.pending = <<>>
                /\ \/ mask = {} /\ o.claimed = {}
                   \/ b.generation = o.gen /\ Serviced(o, mask, High(b, FALSE) \cap mask)
    IN IF done THEN [b EXCEPT !.settled = TRUE, !.error = "none",
                              !.quality = [p \in Mask(b) |-> IF p \in mask THEN "valid" ELSE @[p]]]
       ELSE [b EXCEPT !.settled = FALSE]

\* observe: the pending command is lost, done, too late or still under way.
Observe(b, o, stale, late) ==
    LET cmd == b.pending[1]
        lost == o.rejected # cmd.rejected \/ (~cmd.binding /\ o.gen # cmd.gen)
        ready == (o.gen # cmd.gen) = cmd.binding /\ Serviced(o, cmd.mask, cmd.high)
        clear == [b EXCEPT !.error = "none", !.settled = FALSE]
    IN IF o.gen = 0 THEN Faulted([b EXCEPT !.pending = <<>>, !.generation = 0], "unavailable")
       ELSE IF b.touched /\ stale THEN Faulted(b, "stale")
       ELSE IF b.pending = <<>> THEN Settles(clear, o)
       ELSE IF lost THEN Faulted([b EXCEPT !.pending = <<>>, !.generation = 0], "fault")
       ELSE IF ready
       THEN Settles([clear EXCEPT !.generation = o.gen, !.pending = <<>>,
                        !.quality = [p \in Mask(b) |-> IF p \in cmd.mask THEN "valid" ELSE @[p]]], o)
       ELSE IF late THEN Settles(Faulted(b, "stale"), o)
       ELSE Settles(clear, o)

\* operation: claim the target set when the claim differs, else set the levels.
Operates(b) ==
    /\ Mask(b) # {} /\ b.pending = <<>> /\ ~b.settled
    /\ b.error \notin {"stale", "unavailable"}
    /\ b.fenced = {} \/ b.touched

Command(b, o) ==
    [binding |-> b.generation # o.gen \/ o.claimed # TargetMask(b), gen |-> o.gen, rejected |-> o.rejected,
     mask |-> TargetMask(b), high |-> High(b, FALSE) \cap TargetMask(b), safe |-> High(b, TRUE) \cap TargetMask(b)]

-----------------------------------------------------------------------------
(* Station control. *)

\* poll: observe the owner's snapshot, then send at most one command, unless
\* the pins it offers are not fit for the outputs.  What makes no difference is
\* not chosen.
BankPoll(sees, fit, stale, late, accepts) ==
    /\ sees \/ bPlan.faults
    /\ (stale \/ late \/ ~accepts \/ ~fit) => bPlan.faults /\ sees
    /\ ~fit => Mask(bBank) # {} /\ accepts
    /\ (stale => bBank.touched) /\ (late => bBank.pending # <<>> /\ ~stale)
    /\ LET b == Observe(bBank, bOwner, stale, late)
           cmd == Command(b, bOwner)
       IN IF ~sees THEN bBank' = Faulted(bBank, "unavailable") /\ UNCHANGED bQueue
          ELSE IF bOwner.gen = 0 \/ ~fit THEN bBank' = Faulted(b, "unavailable") /\ UNCHANGED bQueue
          ELSE IF ~Operates(b) THEN bBank' = b /\ UNCHANGED bQueue
          ELSE IF ~accepts THEN bBank' = Faulted(b, "fault") /\ UNCHANGED bQueue
          ELSE /\ bBank' = [b EXCEPT !.touched = TRUE, !.pending = <<cmd>>, !.error = "none"]
               /\ bQueue' = Append(bQueue, cmd)
    /\ UNCHANGED <<bPlan, bNext, bAt, bOwner, bPins>>

\* output: the latest demand.
Demand(p) ==
    /\ p \in Mask(bBank)
    /\ bBank' = [bBank EXCEPT !.demand[p] = ~@]
    /\ UNCHANGED <<bPlan, bNext, bAt, bOwner, bQueue, bPins>>

\* begin: an output is fenced unless the next layout drives the same pin and the
\* radio stays.  A safe state that changes alone keeps the pin.
BankBegin ==
    LET next == bPlan.layouts[2]
        fenced == {p \in Mask(bBank) : bPlan.replaces \/ p \notin DOMAIN next}
    IN /\ bAt = "idle" /\ Len(bPlan.layouts) > 1
       /\ bPlan' = [bPlan EXCEPT !.layouts = Tail(@)]
       /\ bBank' = [bBank EXCEPT !.fenced = fenced, !.settled = IF fenced = {} THEN @ ELSE FALSE]
       /\ bNext' = [active |-> TRUE, layout |-> next, released |-> FALSE]
       /\ bAt' = "wait"
       /\ UNCHANGED <<bOwner, bQueue, bPins>>

\* barrier: only fenced pins that were ever driven are waited for.
Waits == bBank.fenced # {} /\ bBank.touched
\* Mutant: the barrier passes before the owner has serviced the safe levels.
BankReadyUnserviced == ~Waits \/ bBank.error = "none"

BankReady == ~Waits \/ (bBank.error = "none" /\ bBank.settled)
BankFails == Waits /\ bBank.error # "none"

\* stage: the fenced pins are at their safe level; release them.
BankStage ==
    /\ bAt = "wait" /\ BankReady /\ ~bNext.released
    /\ bNext' = [bNext EXCEPT !.released = TRUE]
    /\ bBank' = IF bBank.fenced = {} THEN bBank ELSE [bBank EXCEPT !.releasing = TRUE, !.settled = FALSE]
    /\ UNCHANGED <<bPlan, bAt, bOwner, bQueue, bPins>>

\* commit: retained pins keep their demand; the claim is made anew.
BankCommit ==
    LET next == NewBank(bNext.layout)
        kept == Mask(next) \cap Mask(bBank)
    IN /\ bAt = "wait" /\ BankReady /\ bNext.released
       /\ bBank' = [next EXCEPT !.demand = [p \in Mask(next) |-> IF p \in kept THEN bBank.demand[p] ELSE @[p]],
                                !.quality = [p \in Mask(next) |-> IF p \in kept THEN bBank.quality[p] ELSE @[p]],
                                !.pending = IF bPlan.replaces THEN <<>> ELSE bBank.pending,
                                !.touched = ~bPlan.replaces /\ bBank.touched]
       /\ IF bPlan.replaces
          THEN bOwner' = [NoOwner EXCEPT !.gen = 1] /\ bQueue' = <<>>      \* another radio's thread
          ELSE UNCHANGED <<bOwner, bQueue>>
       /\ bNext' = NoBank
       /\ bAt' = "idle"
       /\ UNCHANGED <<bPlan, bPins>>

\* A failed barrier, the deadline, or a publication that failed.
BankAbort ==
    /\ bAt = "wait" /\ (BankFails \/ ~BankReady \/ bPlan.faults)
    /\ bBank' = [bBank EXCEPT !.fenced = {}, !.releasing = FALSE, !.settled = FALSE]
    /\ bNext' = NoBank
    /\ bAt' = "idle"
    /\ UNCHANGED <<bPlan, bOwner, bQueue, bPins>>

-----------------------------------------------------------------------------
(* The radio's thread (external). *)

Take ==
    LET cmd == Head(bQueue)
        stale == cmd.gen # bOwner.gen \/ (~cmd.binding /\ cmd.mask # bOwner.claimed)
    IN /\ bQueue # <<>> /\ bOwner.gen # 0
       /\ bQueue' = Tail(bQueue)
       /\ bOwner' = IF stale THEN [bOwner EXCEPT !.rejected = @ + 1]
                    ELSE [bOwner EXCEPT !.gen = IF cmd.binding THEN @ + 1 ELSE @, !.claimed = cmd.mask, !.requested = cmd.high]
       /\ UNCHANGED <<bPlan, bBank, bNext, bAt, bPins>>

Service ==
    /\ bOwner.gen # 0
    /\ bOwner' = [bOwner EXCEPT !.serviced = bOwner.requested, !.servicedGen = bOwner.gen]
    /\ bPins' = [p \in Pins |-> IF p \in bOwner.claimed THEN IF p \in bOwner.requested THEN "high" ELSE "low" ELSE bPins[p]]
    /\ UNCHANGED <<bPlan, bBank, bNext, bAt, bQueue>>

\* The radio goes away and comes back without claims.
Lose ==
    /\ bPlan.faults /\ bOwner.gen \in 1 .. 3
    /\ bOwner' = NoOwner
    /\ bQueue' = <<>>
    /\ bPins' = [p \in Pins |-> "none"]
    /\ UNCHANGED <<bPlan, bBank, bNext, bAt>>
Return ==
    /\ bOwner.gen = 0
    /\ bOwner' = [NoOwner EXCEPT !.gen = 4]
    /\ UNCHANGED <<bPlan, bBank, bNext, bAt, bQueue, bPins>>

BNext ==
    \/ \E sees, fit, stale, late, accepts \in BOOLEAN : BankPoll(sees, fit, stale, late, accepts)
    \/ \E p \in Pins : Demand(p)
    \/ BankBegin \/ BankStage \/ BankCommit \/ BankAbort
    \/ Take \/ Service \/ Lose \/ Return

-----------------------------------------------------------------------------
(* Properties. *)

\* A pin is given up only at its safe level: a fenced pin that is being released
\* and that the radio no longer claims was left there.
ReleasedSafe ==
    \A p \in bBank.fenced : bBank.releasing /\ p \notin bOwner.claimed =>
        bPins[p] \in {"none", IF HighOf(bBank.layout[p], p) THEN "high" ELSE "low"}

\* Control never queues a command behind one the owner accepted and has not done.
OneCommand == Len(bQueue) <= 1

\* An adopted layout has no pin left claimed for one it dropped.
NothingClaimed ==
    bAt = "idle" /\ bBank.pending = <<>> /\ bQueue = <<>> => bOwner.claimed \subseteq Mask(bBank)

SafeBank == ReleasedSafe /\ OneCommand /\ NothingClaimed
=============================================================================
