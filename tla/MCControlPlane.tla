--------------------------- MODULE MCControlPlane ----------------------------
(***************************************************************************)
(* What must eventually happen on the control side: a reload, a stop and a *)
(* reserved event end.  The two components share no state here: `part`     *)
(* says which one moves, and the other rests as it begins.                 *)
(*                                                                         *)
(* Settings of one station are only ever compared with settings of the     *)
(* same station, so a behaviour may begin with setting 1 wherever a        *)
(* station is configured.  The second reload configures the first station  *)
(* only.                                                                   *)
(***************************************************************************)
EXTENDS MCEventDispatch, ReloadTransaction

VARIABLE part

CanonicalInit == ReloadInit /\ \A n \in Names : document[n] \in {Off, 1}

SecondReload == reloads' > 1 /\ reloads = 1 => tx'.target[1] # Off /\ \A n \in 2 .. N : tx'.target[n] = Off

MCInit ==
    /\ part \in {"reload", "event"}
    /\ CanonicalInit /\ (part # "reload" => \A n \in Names : document[n] = 1)
    /\ Init /\ (part # "event" => plan = QuietMacro)

MCNext ==
    \/ part = "reload" /\ ReloadNext /\ SecondReload /\ UNCHANGED <<part, vars>>
    \/ part = "event" /\ Next /\ UNCHANGED <<part, reloadVars>>

(* The product polls a pending reload, repeats a stop until it is complete and *)
(* acknowledges what its workers have let go; callbacks return; and a radio    *)
(* that is polled again and again eventually goes on.                          *)
ReloadFairness ==
    /\ WF_reloadVars(part = "reload" /\ PollReload)
    /\ SF_reloadVars(part = "reload" /\ Progress)
    /\ WF_reloadVars(part = "reload" /\ halting /\ StopRuntime)
    /\ WF_reloadVars(part = "reload" /\ \E n \in Names : ReleaseNodes(n) \/ Prune(n))
    /\ \A n \in Names : WF_reloadVars(part = "reload" /\ Leave(n))

(* The ticker pumps every ten milliseconds and a pump that began goes on, as  *)
(* do dial threads, reloads and the audio callbacks.                          *)
EventFairness ==
    /\ \A p \in Pumps : WF_vars(part = "event" /\ (BeginPump(p) \/ Pump(p)))
    /\ WF_vars(part = "event" /\ \E j \in jobs : Dial(j))
    /\ WF_vars(part = "event" /\ (CommitReload \/ FailReload))
    /\ WF_vars(part = "event" /\ (Adopt \/ AudioRetire))

MCSpec ==
    /\ MCInit /\ [][MCNext]_<<part, reloadVars, vars>>
    /\ ReloadFairness /\ EventFairness

-----------------------------------------------------------------------------
(* A reload ends: every accepted candidate is published or wholly rolled back, *)
(* whatever opens, activations and edits the radios refuse; and so does a stop *)
(* asked for in the middle of one, with every node reclaimed and every lease   *)
(* closed, though a commit may have panicked before.                           *)
ReloadsEnd ==
    (Pending \/ halting)
        ~> (~Pending /\ (halting => nodes = {} /\ retiredNodes = {} /\ orphans = {}))

(* A reserved occurrence does not stay reserved: it is settled, spent or       *)
(* carried into the next scheduler and settled there.                          *)
ReservationsSettle ==
    (\E e \in Events : events[e].pending # None) ~> (\A e \in Events : events[e].pending = None)
=============================================================================
