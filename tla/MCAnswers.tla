------------------------------ MODULE MCAnswers ------------------------------
(* Parts of what can happen, each with the workers, the requests and the       *)
(* failures it needs: a first use, games coming and going, awards of a cached  *)
(* game with the refreshes that follow, and awards sent from the queue.        *)
EXTENDS OfflineAnswers

VARIABLE part

MCGameOfHash == [d \in Hashes |-> IF d = "disc3" THEN "h" ELSE "g"]
MCGameOf == [a \in Achievements |-> "g"]

Crew == [first |-> {"caching", "periodic"}, library |-> {"caching", "menu"},
         awards |-> {"award", "periodic"}, flush |-> {"flush"}]
Asked ==
    [first   |-> {"login", "gameid", "patch", "ping"} \X {"disc1"},
     library |-> {<<"sets", "disc2">>},
     awards  |-> {<<"startsession", "disc1">>},
     flush   |-> {<<"unlocks", "disc1">>, <<"startsession", "disc3">>}]
Links == [first |-> {"up", "failing", "down"}, library |-> {"up", "down"},
          awards |-> {"up", "down"}, flush |-> {"up", "down"}]
Discs == [first |-> {"disc1"}, library |-> {"disc1", "disc2"},
          awards |-> {}, flush |-> {}]
Awarded == [first |-> {}, library |-> {}, awards |-> Achievements, flush |-> Achievements]

MCInit ==
    /\ part \in DOMAIN Crew
    /\ AnswerInit
    /\ login = (part # "first")
    /\ IF part \in {"first", "library"} THEN cache = EmptyCache /\ server = {}
       ELSE cache = FullCache

MCNext ==
    /\ AnswerNext
    /\ part' = part
    /\ link' \in Links[part]
    /\ \A j \in Workers \ Crew[part] : job'[j] = NoJob
    /\ \/ req' = NoRequest
       \/ req'.awarded = {} /\ <<req'.action, req'.hash>> \in Asked[part]
       \/ req'.awarded # {} /\ req'.awarded \subseteq Awarded[part]
    /\ job'["caching"].hash \in Discs[part] \cup {NoJob.hash}
    /\ active /\ part # "awards" => active'
    /\ part = "awards" => deleted' = deleted

mcVars == <<answerVars, part>>

(* Fairness matters to the awards alone: no other part refreshes. *)
Fairly(A) == part = "awards" /\ A /\ part' = part

MCFairness ==
    /\ WF_mcVars(Fairly(StartRefresh)) /\ WF_mcVars(Fairly(RequestStep))
    /\ WF_mcVars(Fairly(GoesIdle))
    /\ \A j \in Crew["awards"] : WF_mcVars(Fairly(JobStep(j)))

MCSpec == MCInit /\ [][MCNext]_mcVars /\ MCFairness
=============================================================================
