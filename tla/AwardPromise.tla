---------------------------- MODULE AwardPromise ----------------------------
(***************************************************************************)
(* What the queue of offline awards promises, with nothing of how.  An     *)
(* achievement answered "queued_offline" is promised.  It is kept while    *)
(* the device holds it for delivery, and settled once RetroAchievements    *)
(* has it, its user gave it up, or it was found withdrawn.  No promise is  *)
(* made of an achievement neither kept nor settled, and none that is kept  *)
(* is dropped before it is settled.                                        *)
(***************************************************************************)
CONSTANT Achievements

VARIABLES promised, kept, settled

promiseVars == <<promised, kept, settled>>

PromiseInit ==
    /\ promised = {} /\ settled = {}
    /\ kept \in {S \in SUBSET Achievements : \A j, k \in S : j = k}

\* An award is stored, and its emulator told so if a request asked for it.
Keep(k) ==
    /\ kept' = kept \cup {k}
    /\ promised' \in {promised, promised \cup {k}}
    /\ UNCHANGED settled

\* A request for what is kept or settled already is answered the same way.
Confirm(k) ==
    /\ k \in kept \cup settled
    /\ promised' = promised \cup {k}
    /\ UNCHANGED <<kept, settled>>

\* Settled achievements may be dropped at once or later.
Settle(S) ==
    /\ settled' = settled \cup S
    /\ kept' \in SUBSET kept
    /\ kept \ kept' \subseteq settled'
    /\ UNCHANGED promised

PromiseNext ==
    \/ \E k \in Achievements : Keep(k) \/ Confirm(k)
    \/ \E S \in SUBSET Achievements : Settle(S)

PromiseSpec == PromiseInit /\ [][PromiseNext]_promiseVars
=============================================================================
