-------------------------- MODULE MCAndroidAwards --------------------------
(* What the phone's queue meets, each with the requests that it needs: two   *)
(* flushes at once, a database that is slow, an achievement earned again, a  *)
(* board's entry beside an achievement, and a damaged row.                   *)
EXTENDS AndroidAwards

CONSTANTS A, B,                     \* two achievements
          a1, a2, b1, entry,        \* requests for A, A again, B and a board
          f1, f2

VARIABLE situation

MCKeyOf == [s \in Earned |-> CASE s \in {a1, a2} -> A [] s = b1 -> B [] s = entry -> entry]

Requests == [flushes |-> {a1, b1}, slow |-> {a1, a2}, again |-> {a1, a2},
             board |-> {b1, entry}, damage |-> {a1, b1}]

MCInit ==
    /\ situation \in DOMAIN Requests
    /\ PhoneInit /\ unmade = Requests[situation]

Only(situations, happens) == happens => situation \in situations

MCNext ==
    /\ PhoneNext
    /\ situation' = situation
    /\ Only({"flushes"}, job'[f2] # NoFlush) /\ (job'[f2] # NoFlush => job # [f \in Flushes |-> NoFlush])
    /\ Only({"slow"}, late' # {})
    /\ Only({"slow", "board"}, holder = Nothing /\ holder' # Nothing /\ holder'.pc = "head")
    /\ Only({"slow", "damage"}, \E i \in In(rows') : rows'[i].queuedAt = 2)
    /\ Only({"damage"}, \E i \in In(rows') : ~rows'[i].intact)
    /\ situation = "slow" => picked' = Nothing
    /\ situation = "flushes" =>
          /\ accepted' = accepted \/ unmade' = unmade
          /\ picked' # Nothing => picked'.row.sub = a1
          /\ b1 \in unmade' \/ rows # <<>>
          /\ cached' = {}

MCSpec == MCInit /\ [][MCNext]_<<situation, phoneVars>>
=============================================================================
