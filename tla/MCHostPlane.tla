----------------------------- MODULE MCHostPlane ------------------------------
(***************************************************************************)
(* What control owes the audio callbacks: a message they ask for is        *)
(* answered, and a generation they have left is freed.  The two components *)
(* share no state here: `part` says which one moves, and the other rests   *)
(* as it begins.                                                           *)
(***************************************************************************)
EXTENDS MCMessagePreparation, NodeHost

VARIABLES
    part,
    watched     \* the reader whose request is followed

(* One order of registration stands for all: readers differ in nothing else. *)
FirstOrder == ports = CHOOSE order \in Injection(1 .. Cardinality(Recurring), Recurring) : TRUE

MCInit ==
    /\ part \in {"prepare", "host"}
    /\ PrepareInit /\ FirstOrder /\ (part # "prepare" => who = ports[1])
    /\ watched \in IF part = "prepare" THEN Readers ELSE {ports[1]}
    /\ Init

MCNext ==
    \/ part = "prepare" /\ QuietNext /\ UNCHANGED <<part, watched, vars>>
    \/ part = "host" /\ Operate /\ UNCHANGED <<part, watched, prepareVars>>

(* The engine's ticker pumps every ten milliseconds, whatever audio does. *)
PumpFairness == WF_prepareVars(part = "prepare" /\ Pump)

(* Callbacks and workers run and return, control finishes its calls, the      *)
(* control pump keeps polling reclaim, a reload that gated entry ends by      *)
(* restoring it or publishing, and the adapter acknowledges every generation  *)
(* it was told to leave.                                                      *)
HostFairness ==
    /\ WF_vars(part = "host" /\ ControlStep)
    /\ \A s \in Slots : WF_vars(part = "host" /\ OwnerStep(s))
    /\ \A g \in Gens : WF_vars(part = "host" /\ FinishWork(g))
    /\ SF_vars(part = "host" /\ Reclaim)
    /\ SF_vars(part = "host" /\ RestoreCallbacks)
    /\ SF_vars(part = "host" /\ RegisterAudio)
    /\ SF_vars(part = "host" /\ \E g \in Gens : MarkDetached(g))

MCSpec ==
    /\ MCInit /\ [][MCNext]_<<part, watched, prepareVars, vars>>
    /\ PumpFairness /\ HostFairness

-----------------------------------------------------------------------------
(* A request is answered: the pump's rotation over the ports reaches every    *)
(* port, however often the others ask.                                        *)
RequestsAnswered ==
    (requests[watched] # <<>>) ~> (requests[watched] = <<>> \/ fault # "none")

(* What has left service is reclaimed: a replaced generation is freed, so the *)
(* next publication is not refused with RetirementPending for ever, and a     *)
(* stopped host reaches Stopped, which frees all it retained, though both     *)
(* callbacks keep calling, look for the generation and hold it.               *)
ReclaimCompletes ==
    (stopping \/ store["retired"] # Null)
        ~> (IF stopping THEN LifecycleState = "Stopped" ELSE store["retired"] = Null)
=============================================================================
