------------------------- MODULE OfflineAnswersProofs -------------------------
(* Theorems about OfflineAnswers, for every set of games, discs and           *)
(* achievements and whichever workers run beside the emulator.                *)
EXTENDS OfflineAnswers, TLAPS

-----------------------------------------------------------------------------
(* Types.                                                                    *)

\* The records of AnswerTypeOK, by name.
Jobs == [todo : Seq(StepNames), game : Games, hash : Hashes, rest : SUBSET Games,
         phase : 0 .. 2, got : SUBSET Unlocks, send : SUBSET Achievements,
         sent : SUBSET Achievements]
Caches == [gameid : SUBSET Hashes, patch : SUBSET Games, sets : SUBSET Hashes,
           unlocks : [Games -> Entries], session : [Games -> Entries]]
Places == {"idle", "forward", "lookup", "read", "readunlocks", "readqueue", "keep",
           "keepsession", "thenunlocks", "keepunlocks", "done", "queue"} \cup Outcomes
Asks == [at : Places, action : Actions \cup {"award"}, hash : Hashes, got : SUBSET Unlocks,
         awarded : SUBSET Achievements]

\* The menu's job takes a game out of the cache and does nothing else.
Removals == {"-gameid", "-patch", "-unlocks", "-sets", "-session", "-played"}
MenuRemoves == job["menu"].todo \in Seq(Removals) /\ job["menu"].rest = {}

\* The parts of the type invariant, by the names of their sets.
LEMMA TypeParts ==
  ASSUME AnswerTypeOK
  PROVE  /\ job \in [AllWorkers -> Jobs] /\ cache \in Caches /\ req \in Asks
         /\ \A j \in AllWorkers : job[j] \in Jobs
BY DEF AnswerTypeOK, Jobs, Caches, Places, Asks

\* What the assumptions on the constants give.
LEMMA Worlds ==
  /\ \A a \in Achievements : GameOf[a] \in Games
  /\ \A d \in Hashes : GameOfHash[d] \in Games
  /\ Workers \subseteq AllWorkers
  /\ {"caching", "periodic", "flush", "award", "menu"} = AllWorkers
BY OfflineAssumption DEF AllWorkers

\* No job is a job.
LEMMA NoJobTyped == NoJob \in Jobs
BY OfflineAssumption DEF NoJob, Jobs, StepNames

\* No request is a request.
LEMMA NoRequestTyped == NoRequest \in Asks
BY OfflineAssumption DEF NoRequest, Asks, Places, Actions

\* The programs of the jobs are sequences of steps.
LEMMA Programs ==
  /\ CacheGame \in Seq(StepNames) /\ RefreshGame \in Seq(StepNames)
  /\ RefreshUnlocks \in Seq(StepNames) /\ RemoveGame \in Seq(StepNames)
  /\ <<>> \in Seq(StepNames) /\ <<"gameid">> \in Seq(StepNames) /\ <<"evict">> \in Seq(StepNames)
BY DEF CacheGame, RefreshGame, RefreshUnlocks, RemoveGame, StepNames

\* So is the step that every refresh ends with.
LEMMA LastStepTyped == ASSUME NEW j PROVE LastStep(j) \in Seq(StepNames)
BY Programs DEF LastStep

\* So is what a refresh does for one game.
LEMMA ProgramTyped ==
  ASSUME NEW j PROVE Program(j) \o LastStep(j) \in Seq(StepNames)
<1>1. Program(j) \in Seq(StepNames)
  BY Programs DEF Program
<1> QED
  BY <1>1, LastStepTyped

\* A job whose program moves on, with nothing read yet.
LEMMA MovesOn ==
  ASSUME NEW r \in Jobs, NEW t \in Seq(StepNames)
  PROVE  [r EXCEPT !.todo = t, !.phase = 0, !.got = {}] \in Jobs
<1>1. 0 \in 0 .. 2 /\ {} \in SUBSET Unlocks
  OBVIOUS
<1> QED
  BY <1>1 DEF Jobs

\* A job that turns to its next game is a job.
LEMMA TurnsTo ==
  ASSUME NEW r \in Jobs, NEW t \in Seq(StepNames), NEW g \in Games, NEW gs \in SUBSET Games
  PROVE  [r EXCEPT !.game = g, !.rest = gs, !.phase = 0, !.todo = t] \in Jobs
<1>1. 0 \in 0 .. 2
  OBVIOUS
<1> QED
  BY <1>1 DEF Jobs

\* A job that has read something is a job.
LEMMA ReadsOn ==
  ASSUME AnswerTypeOK, NEW j \in AllWorkers, NEW p \in 0 .. 2, NEW ids \in SUBSET Unlocks
  PROVE  [job EXCEPT ![j].phase = p, ![j].got = ids] \in [AllWorkers -> Jobs]
<1>1. job \in [AllWorkers -> Jobs] /\ job[j] \in Jobs
  BY TypeParts
<1>2. [job[j] EXCEPT !.phase = p, !.got = ids] \in Jobs
  BY <1>1 DEF Jobs
<1>3. [job EXCEPT ![j].phase = p, ![j].got = ids]
         = [job EXCEPT ![j] = [job[j] EXCEPT !.phase = p, !.got = ids]]
  BY <1>1 DEF Jobs
<1> QED
  BY <1>1, <1>2, <1>3

\* What such a step leaves of the job.
LEMMA ReadFields ==
  ASSUME AnswerTypeOK, NEW j \in AllWorkers, NEW p, NEW ids,
         job' = [job EXCEPT ![j].phase = p, ![j].got = ids]
  PROVE  /\ job'[j].phase = p /\ job'[j].got = ids
         /\ job'[j].todo = job[j].todo /\ job'[j].game = job[j].game
         /\ job'[j].send = job[j].send /\ job'[j].sent = job[j].sent
BY TypeParts DEF Jobs

\* The three steps that read into a job.
LEMMA HasRead ==
  ASSUME NEW j, FetchUnlocks(j) \/ ReadUnlocks(j) \/ ReadQueue(j)
  PROVE  \E p, ids : job' = [job EXCEPT ![j].phase = p, ![j].got = ids]
<1>1. CASE FetchUnlocks(j)
  BY <1>1 DEF FetchUnlocks
<1>2. CASE ReadUnlocks(j)
  BY <1>2 DEF ReadUnlocks
<1>3. CASE ReadQueue(j)
  BY <1>3 DEF ReadQueue
<1> QED
  BY <1>1, <1>2, <1>3

\* A job past its step is a job.
LEMMA AdvanceTyped ==
  ASSUME AnswerTypeOK, NEW j \in AllWorkers, job[j].todo # <<>>
  PROVE  Advance(j) \in Jobs
<1>1. job[j] \in Jobs /\ Tail(job[j].todo) \in Seq(StepNames)
  BY TypeParts DEF Jobs
<1> QED
  BY <1>1, MovesOn DEF Advance

\* A job that gives its game up is a job.
LEMMA DropTyped ==
  ASSUME AnswerTypeOK, NEW j \in AllWorkers
  PROVE  Drop(j) \in Jobs
<1>1. job[j] \in Jobs /\ LastStep(j) \in Seq(StepNames)
  BY TypeParts, LastStepTyped
<1> QED
  BY <1>1, MovesOn DEF Drop

\* The jobs stay jobs when one of them becomes one.
LEMMA BecomesTyped ==
  ASSUME AnswerTypeOK, NEW j \in AllWorkers, NEW r \in Jobs, Becomes(j, r)
  PROVE  job' \in [AllWorkers -> Jobs]
BY TypeParts, NoJobTyped DEF Becomes

\* What Becomes does to the job, and to the others.
LEMMA BecomesThat ==
  ASSUME AnswerTypeOK, NEW j \in AllWorkers, NEW r, Becomes(j, r)
  PROVE  /\ job'[j] = NoJob \/ job'[j] = r
         /\ \A k \in AllWorkers : k # j => job'[k] = job[k]
BY TypeParts DEF Becomes

\* A job with a step before it has a program.
LEMMA BusyStep ==
  ASSUME NEW j, NEW s, Head1(j) = s, s # "none"
  PROVE  job[j].todo # <<>>
BY DEF Head1

\* A cache with one more definition is a cache.
LEMMA PutDefinitionTyped ==
  ASSUME AnswerTypeOK, NEW g \in Games, NEW d \in Hashes, NEW kind \in {"gameid", "patch", "sets"}
  PROVE  PutDefinition(kind, g, d) \in Caches
BY TypeParts DEF PutDefinition, Caches

\* A cache with a game's unlocks is a cache.
LEMMA PutUnlocksTyped ==
  ASSUME AnswerTypeOK, NEW g \in Games, NEW ids \in SUBSET Unlocks
  PROVE  PutUnlocks(g, ids) \in Caches
<1>1. Filtered(ids) \in Entries /\ cache \in Caches
  BY TypeParts DEF Filtered, Entries
<1> QED
  BY <1>1 DEF PutUnlocks, Caches

\* A cache with a game's session is a cache.
LEMMA PutSessionTyped ==
  ASSUME AnswerTypeOK, NEW g \in Games, NEW ids \in SUBSET Unlocks
  PROVE  PutSession(g, ids) \in Caches
<1>1. ids \in Entries /\ cache \in Caches
  BY TypeParts DEF Entries
<1> QED
  BY <1>1 DEF PutSession, Caches

\* Storing a cache keeps the types.
LEMMA StoreTyped ==
  ASSUME AnswerTypeOK, NEW c \in Caches, Store(c)
  PROVE  cache' \in Caches /\ owned' \subseteq Hashes
BY DEF Store, Complete, AnswerTypeOK

\* An entry holds ids of achievements.
LEMMA EntryTyped ==
  ASSUME NEW e \in Entries PROVE Entry(e) \subseteq Unlocks
BY DEF Entry, Entries

\* Merging the queue into ids keeps them ids.
LEMMA MergedTyped ==
  ASSUME AnswerTypeOK, NEW ids \in SUBSET Unlocks, NEW g
  PROVE  Merged(ids, g) \in SUBSET Unlocks
BY DEF Merged, AnswerTypeOK, Unlocks

\* What is read of the cache is ids.
LEMMA CachedTyped ==
  ASSUME AnswerTypeOK, NEW g \in Games
  PROVE  /\ Filtered(Entry(cache.unlocks[g])) \subseteq Unlocks
         /\ Filtered(Entry(cache.session[g])) \subseteq Unlocks
<1>1. cache.unlocks[g] \in Entries /\ cache.session[g] \in Entries
  BY TypeParts DEF Caches
<1> QED
  BY <1>1, EntryTyped DEF Filtered

\* What RetroAchievements answers is ids.
LEMMA LiveTyped ==
  ASSUME AnswerTypeOK, NEW g
  PROVE  /\ (server \cap Of(g)) \cup {Warning} \in SUBSET Unlocks
         /\ Filtered((server \cap Of(g)) \cup {Warning}) \in SUBSET Unlocks
BY DEF AnswerTypeOK, Unlocks, Of, Filtered

\* The types hold at the start.
LEMMA TypesInit == AnswerInit => AnswerTypeOK
<1> SUFFICES ASSUME AnswerInit PROVE AnswerTypeOK
  OBVIOUS
<1>1. EmptyCache \in Caches /\ FullCache \in Caches
  <2>1. NoEntry \in Entries /\ {} \in Entries
    BY DEF Entries
  <2> QED
    BY <2>1 DEF EmptyCache, FullCache, Caches
<1>2. job \in [AllWorkers -> Jobs]
  BY NoJobTyped DEF AnswerInit
<1>3. req \in Asks
  BY NoRequestTyped DEF AnswerInit
<1>4. owned \subseteq Hashes
  BY DEF AnswerInit, Complete
<1> QED
  BY <1>1, <1>2, <1>3, <1>4 DEF AnswerInit, AnswerTypeOK, Jobs, Caches, Places, Asks

\* Where a request goes without a link.
LEMMA OfflinePlaces ==
  ASSUME NEW act
  PROVE  OfflinePlace(act) \in {"forward", "read", "lookup", "done"}
BY DEF OfflinePlace

\* What a step keeps of the types when the rest is left alone.
LEMMA TypesFrom ==
  ASSUME AnswerTypeOK,
         link' \in {"up", "down", "failing"}, believed' \in BOOLEAN, login' \in BOOLEAN,
         server' \subseteq Achievements, pending' \subseteq Achievements,
         won' \subseteq Achievements, deleted' \subseteq Achievements,
         played' \subseteq Games, active' \in BOOLEAN, owned' \subseteq Hashes,
         cache' \in Caches, job' \in [AllWorkers -> Jobs], req' \in Asks
  PROVE  AnswerTypeOK'
BY DEF AnswerTypeOK, Jobs, Caches, Places, Asks

\* A request that got somewhere is a request.
LEMMA RequestTyped ==
  ASSUME AnswerTypeOK, NEW p \in Places, NEW ids \in SUBSET Unlocks
  PROVE  /\ [req EXCEPT !.at = p, !.got = ids] \in Asks
         /\ [req EXCEPT !.got = ids, !.at = p] \in Asks
         /\ [req EXCEPT !.at = p] \in Asks
<1>1. req \in Asks
  BY TypeParts
<1> QED
  BY <1>1 DEF Asks

\* The parts of the request, typed.
LEMMA ReqGot ==
  ASSUME AnswerTypeOK PROVE req.got \in SUBSET Unlocks /\ req.hash \in Hashes /\ AskedGame \in Games
                            /\ req.awarded \in SUBSET Achievements
BY TypeParts, Worlds DEF Asks, AskedGame

\* The parts of a job, typed.
LEMMA JobFields ==
  ASSUME AnswerTypeOK, NEW j \in AllWorkers
  PROVE  /\ job[j].game \in Games /\ job[j].hash \in Hashes /\ job[j].got \in SUBSET Unlocks
         /\ job[j].rest \in SUBSET Games /\ job[j].send \in SUBSET Achievements
         /\ job[j].sent \in SUBSET Achievements
BY TypeParts DEF Jobs

\* The steps of the jobs keep the types.
LEMMA TypesJobStep ==
  ASSUME AnswerTypeOK, NEW j \in AllWorkers, JobStep(j)
  PROVE  AnswerTypeOK'
<1> USE Worlds, JobFields
<1>1. ASSUME NEW kind \in {"gameid", "patch", "sets"}, Fetches(j, kind) PROVE AnswerTypeOK'
  <2>1. job[j].todo # <<>>
    BY <1>1, BusyStep DEF Fetches
  <2>2. Advance(j) \in Jobs /\ PutDefinition(kind, job[j].game, job[j].hash) \in Caches
    BY <2>1, AdvanceTyped, PutDefinitionTyped
  <2>3. job' \in [AllWorkers -> Jobs] /\ cache' \in Caches /\ owned' \subseteq Hashes
    BY <1>1, <2>2, BecomesTyped, StoreTyped DEF Fetches
  <2> QED
    BY <1>1, <2>3, TypesFrom, TypeParts DEF Fetches, worldVars, AnswerTypeOK
<1>2. ASSUME FetchUnlocks(j) PROVE AnswerTypeOK'
  <2>1. (server \cap Of(job[j].game)) \cup {Warning} \in SUBSET Unlocks
    BY LiveTyped
  <2>2. job' \in [AllWorkers -> Jobs]
    <3> DEFINE ids == (server \cap Of(job[j].game)) \cup {Warning}
    <3>1. job' = [job EXCEPT ![j].phase = 1, ![j].got = ids]
      BY <1>2 DEF FetchUnlocks
    <3>2. ids \in SUBSET Unlocks /\ 1 \in 0 .. 2 /\ 2 \in 0 .. 2
      BY <2>1
    <3> HIDE DEF ids
    <3> QED
      BY <3>1, <3>2, ReadsOn, Zenon
  <2> QED
    BY <1>2, <2>2, TypesFrom, TypeParts DEF FetchUnlocks, worldVars, AnswerTypeOK
<1>3. ASSUME StoreUnlocks(j) PROVE AnswerTypeOK'
  <2>1. job[j].todo # <<>>
    BY <1>3, BusyStep DEF StoreUnlocks
  <2>2. Advance(j) \in Jobs /\ PutUnlocks(job[j].game, job[j].got) \in Caches
    BY <2>1, AdvanceTyped, PutUnlocksTyped
  <2>3. job' \in [AllWorkers -> Jobs] /\ cache' \in Caches /\ owned' \subseteq Hashes
    BY <1>3, <2>2, BecomesTyped, StoreTyped DEF StoreUnlocks
  <2> QED
    BY <1>3, <2>3, TypesFrom, TypeParts DEF StoreUnlocks, worldVars, AnswerTypeOK
<1>4. ASSUME FetchFails(j) PROVE AnswerTypeOK'
  <2>1. job[j].todo # <<>>
    BY <1>4 DEF FetchFails, Head1, Requests
  <2>2. Advance(j) \in Jobs /\ Drop(j) \in Jobs
    BY <2>1, AdvanceTyped, DropTyped
  <2>3. job' \in [AllWorkers -> Jobs]
    BY <1>4, <2>2, BecomesTyped DEF FetchFails
  <2> QED
    BY <1>4, <2>3, TypesFrom, TypeParts DEF FetchFails, worldVars, AnswerTypeOK
<1>5. ASSUME ReadUnlocks(j) PROVE AnswerTypeOK'
  <2>1. Filtered(Entry(cache.unlocks[job[j].game])) \in SUBSET Unlocks
    BY CachedTyped
  <2>2. job' \in [AllWorkers -> Jobs]
    <3> DEFINE ids == Filtered(Entry(cache.unlocks[job[j].game]))
    <3>1. job' = [job EXCEPT ![j].phase = 1, ![j].got = ids]
      BY <1>5 DEF ReadUnlocks
    <3>2. ids \in SUBSET Unlocks /\ 1 \in 0 .. 2 /\ 2 \in 0 .. 2
      BY <2>1
    <3> HIDE DEF ids
    <3> QED
      BY <3>1, <3>2, ReadsOn, Zenon
  <2> QED
    BY <1>5, <2>2, TypesFrom, TypeParts DEF ReadUnlocks, worldVars, AnswerTypeOK
<1>6. ASSUME ReadQueue(j) PROVE AnswerTypeOK'
  <2>1. Merged(job[j].got, job[j].game) \in SUBSET Unlocks
    BY MergedTyped
  <2>2. job' \in [AllWorkers -> Jobs]
    <3> DEFINE ids == Merged(job[j].got, job[j].game)
    <3>1. job' = [job EXCEPT ![j].phase = 2, ![j].got = ids]
      BY <1>6 DEF ReadQueue
    <3>2. ids \in SUBSET Unlocks /\ 1 \in 0 .. 2 /\ 2 \in 0 .. 2
      BY <2>1
    <3> HIDE DEF ids
    <3> QED
      BY <3>1, <3>2, ReadsOn, Zenon
  <2> QED
    BY <1>6, <2>2, TypesFrom, TypeParts DEF ReadQueue, worldVars, AnswerTypeOK
<1>7. ASSUME StoreSession(j) PROVE AnswerTypeOK'
  <2>1. job[j].todo # <<>>
    BY <1>7, BusyStep DEF StoreSession
  <2>2. Advance(j) \in Jobs /\ PutSession(job[j].game, job[j].got) \in Caches
    BY <2>1, AdvanceTyped, PutSessionTyped
  <2>3. job' \in [AllWorkers -> Jobs] /\ cache' \in Caches /\ owned' \subseteq Hashes
    BY <1>7, <2>2, BecomesTyped, StoreTyped DEF StoreSession
  <2> QED
    BY <1>7, <2>3, TypesFrom, TypeParts DEF StoreSession, worldVars, AnswerTypeOK
<1>8. ASSUME NextGame(j) PROVE AnswerTypeOK'
  <2>1. PICK g \in job[j].rest :
          job' = [job EXCEPT ![j].game = g, ![j].rest = @ \ {g}, ![j].phase = 0,
                             ![j].todo = Program(j) \o LastStep(j)]
    BY <1>8 DEF NextGame
  <2>2. g \in Games /\ job[j].rest \ {g} \in SUBSET Games
    OBVIOUS
  <2>3. job' \in [AllWorkers -> Jobs]
    <3>1. /\ job \in [AllWorkers -> Jobs] /\ job[j] \in Jobs
          /\ Program(j) \o LastStep(j) \in Seq(StepNames)
      BY ProgramTyped, TypeParts
    <3> DEFINE t == Program(j) \o LastStep(j)
               rest == job[j].rest \ {g}
    <3>2. job' = [job EXCEPT ![j].game = g, ![j].rest = rest, ![j].phase = 0, ![j].todo = t]
      BY <2>1
    <3>3. t \in Seq(StepNames) /\ rest \in SUBSET Games
      BY <2>2, <3>1
    <3> HIDE DEF t, rest
    <3>4. [job[j] EXCEPT !.game = g, !.rest = rest, !.phase = 0, !.todo = t] \in Jobs
      BY <2>2, <3>1, <3>3, TurnsTo, Zenon
    <3>5. job' = [job EXCEPT ![j] = [job[j] EXCEPT !.game = g, !.rest = rest, !.phase = 0,
                                                   !.todo = t]]
      BY <3>1, <3>2 DEF Jobs
    <3> QED
      BY <3>1, <3>4, <3>5
  <2> QED
    BY <1>8, <2>3, TypesFrom, TypeParts DEF NextGame, worldVars, AnswerTypeOK
<1>9. ASSUME Evict PROVE AnswerTypeOK'
  <2>1. job' \in [AllWorkers -> Jobs]
    BY <1>9, NoJobTyped, TypeParts DEF Evict
  <2>2. cache' \in Caches
    BY <1>9, TypeParts DEF Evict, Aged, Spared, Caches
  <2> QED
    BY <1>9, <2>1, <2>2, TypesFrom, TypeParts DEF Evict, worldVars, AnswerTypeOK
<1> QED
  BY <1>1, <1>2, <1>3, <1>4, <1>5, <1>6, <1>7, <1>8, <1>9
     DEF JobStep, FetchGameId, FetchPatch, FetchSets

\* An answered request is a request.
LEMMA AnswerGiven ==
  ASSUME AnswerTypeOK, NEW p \in Outcomes, NEW ids \in SUBSET Unlocks, Answers(p, ids)
  PROVE  req' \in Asks
<1>1. p \in Places
  BY DEF Places
<1> QED
  BY <1>1, RequestTyped DEF Answers

\* The steps of a request keep the types.
LEMMA TypesRequestStep ==
  ASSUME AnswerTypeOK, RequestStep
  PROVE  AnswerTypeOK'
<1> USE ReqGot
<1>0. {} \in SUBSET Unlocks /\ Outcomes \subseteq Places /\ NoRequest \in Asks
      /\ {"ok", "offline", "error"} = Outcomes
  BY NoRequestTyped DEF Places, Outcomes
<1>l. /\ (server \cap Of(AskedGame)) \cup {Warning} \in SUBSET Unlocks
      /\ Filtered((server \cap Of(AskedGame)) \cup {Warning}) \in SUBSET Unlocks
  BY LiveTyped
<1>1. ASSUME Forwarded PROVE AnswerTypeOK'
  <2> DEFINE ids == Filtered((server \cap Of(AskedGame)) \cup {Warning})
  <2>1. PICK p \in Places : req' = [req EXCEPT !.got = ids, !.at = p]
    <3>1. {"done", "keepsession", "keep"} \subseteq Places
      BY DEF Places
    <3> QED
      BY <1>1, <3>1 DEF Forwarded
  <2>2. ids \in SUBSET Unlocks
    BY <1>l
  <2> HIDE DEF ids
  <2>3. req' \in Asks
    BY <2>1, <2>2, RequestTyped, Zenon
  <2> QED
    BY <1>1, <2>3, TypesFrom, TypeParts DEF Forwarded, worldVars, AnswerTypeOK
<1>2. ASSUME ForwardFails PROVE AnswerTypeOK'
  <2>1. req' \in Asks
    <3>1. CASE Answers("error", {})
      BY <1>0, <3>1, AnswerGiven
    <3>2. CASE Answers("offline", {})
      BY <1>0, <3>2, AnswerGiven
    <3>3. CASE req' = [req EXCEPT !.at = IF req.action = "unlocks" THEN "read" ELSE "lookup"]
      <4>1. {"read", "lookup"} \subseteq Places
        BY DEF Places
      <4> QED
        BY <3>3, <4>1, RequestTyped, <1>0
    <3> QED
      BY <1>2, <3>1, <3>2, <3>3 DEF ForwardFails
  <2> QED
    BY <1>2, <2>1, TypesFrom, TypeParts DEF ForwardFails, worldVars, AnswerTypeOK
<1>3. ASSUME Keep PROVE AnswerTypeOK'
  <2>1. /\ PutDefinition("gameid", AskedGame, req.hash) \in Caches
        /\ PutDefinition("sets", AskedGame, req.hash) \in Caches
        /\ PutDefinition("patch", AskedGame, req.hash) \in Caches
        /\ PutUnlocks(AskedGame, req.got) \in Caches
    BY PutDefinitionTyped, PutUnlocksTyped
  <2>2. cache' \in Caches /\ owned' \subseteq Hashes
    BY <1>3, <2>1, StoreTyped, TypeParts DEF Keep, AnswerTypeOK
  <2>3. req' \in Asks
    <3>1. CASE Answers("ok", {})
      BY <1>0, <3>1, AnswerGiven
    <3>2. CASE Answers("ok", req.got)
      BY <1>0, <3>2, AnswerGiven
    <3>3. CASE req' = [req EXCEPT !.at = "thenunlocks"]
      BY <1>0, <3>3, RequestTyped DEF Places
    <3> QED
      BY <1>3, <3>1, <3>2, <3>3 DEF Keep
  <2> QED
    BY <1>3, <2>2, <2>3, TypesFrom, TypeParts DEF Keep, worldVars, AnswerTypeOK
<1>4. ASSUME ThenUnlocks PROVE AnswerTypeOK'
  <2>1. req' \in Asks
    <3> DEFINE ids == (server \cap Of(AskedGame)) \cup {Warning}
    <3>1. CASE Answers("ok", {})
      BY <1>0, <3>1, AnswerGiven
    <3>2. CASE req' = [req EXCEPT !.got = ids, !.at = "keepunlocks"]
      <4>1. ids \in SUBSET Unlocks /\ "keepunlocks" \in Places
        BY <1>l DEF Places
      <4> HIDE DEF ids
      <4> QED
        BY <3>2, <4>1, RequestTyped, Zenon
    <3> QED
      BY <1>4, <3>1, <3>2 DEF ThenUnlocks
  <2> QED
    BY <1>4, <2>1, TypesFrom, TypeParts DEF ThenUnlocks, worldVars, AnswerTypeOK
<1>5. ASSUME KeepSession PROVE AnswerTypeOK'
  <2>1. cache' \in Caches /\ owned' \subseteq Hashes
    BY <1>5, PutSessionTyped, StoreTyped DEF KeepSession
  <2>2. req' \in Asks
    BY <1>0, <1>5, RequestTyped DEF KeepSession, Places
  <2> QED
    BY <1>5, <2>1, <2>2, TypesFrom, TypeParts DEF KeepSession, worldVars, AnswerTypeOK
<1>6. ASSUME KeepUnlocks PROVE AnswerTypeOK'
  <2>1. cache' \in Caches /\ owned' \subseteq Hashes
    BY <1>6, PutUnlocksTyped, StoreTyped DEF KeepUnlocks
  <2>2. req' \in Asks
    <3>1. PICK ids \in SUBSET Unlocks : Answers("ok", ids)
      BY <1>6, <1>0 DEF KeepUnlocks
    <3> QED
      BY <1>0, <3>1, AnswerGiven
  <2> QED
    BY <1>6, <2>1, <2>2, TypesFrom, TypeParts DEF KeepUnlocks, worldVars, AnswerTypeOK
<1>7. ASSUME Done \/ Lookup PROVE AnswerTypeOK'
  <2>1. PICK p \in Outcomes : Answers(p, {})
    BY <1>7, <1>0 DEF Done, Lookup, Outcomes
  <2>2. req' \in Asks
    BY <1>0, <2>1, AnswerGiven
  <2> QED
    BY <1>7, <2>2, TypesFrom, TypeParts DEF Done, Lookup, worldVars, AnswerTypeOK
<1>8. ASSUME ReadEntry PROVE AnswerTypeOK'
  <2>1. PICK ids \in SUBSET Unlocks : req' = [req EXCEPT !.at = "readunlocks", !.got = ids]
    BY <1>8, <1>0, CachedTyped DEF ReadEntry
  <2>2. req' \in Asks
    BY <1>0, <2>1, RequestTyped DEF Places
  <2> QED
    BY <1>8, <2>2, TypesFrom, TypeParts DEF ReadEntry, worldVars, AnswerTypeOK
<1>9. ASSUME ReadCached PROVE AnswerTypeOK'
  <2>1. PICK ids \in SUBSET Unlocks : req' = [req EXCEPT !.at = "readqueue", !.got = ids]
    <3>1. req.got \cup Filtered(Entry(cache.unlocks[AskedGame])) \in SUBSET Unlocks
      BY CachedTyped
    <3> QED
      BY <1>9, <3>1 DEF ReadCached
  <2>2. req' \in Asks
    BY <1>0, <2>1, RequestTyped DEF Places
  <2> QED
    BY <1>9, <2>2, TypesFrom, TypeParts DEF ReadCached, worldVars, AnswerTypeOK
<1>10. ASSUME ReadPending PROVE AnswerTypeOK'
  <2>1. req' \in Asks
    BY <1>0, <1>10, MergedTyped, AnswerGiven DEF ReadPending
  <2> QED
    BY <1>10, <2>1, TypesFrom, TypeParts DEF ReadPending, worldVars, AnswerTypeOK
<1>11. ASSUME Delivered PROVE AnswerTypeOK'
  BY <1>0, <1>11, TypesFrom, TypeParts DEF Delivered, worldVars, AnswerTypeOK
<1>12. ASSUME AwardAccepted PROVE AnswerTypeOK'
  <2>1. PICK a \in req.awarded :
          /\ server' = server \cup {a} /\ won' = won \cup {a} /\ req' = NoRequest
          /\ job' = IF "award" \in Workers /\ Free("award") /\ KnownGame(a)
                    THEN [job EXCEPT !["award"] = [NoJob EXCEPT !.todo = RefreshUnlocks,
                                                                !.game = GameOf[a]]]
                    ELSE job
    BY <1>12 DEF AwardAccepted
  <2>2. [NoJob EXCEPT !.todo = RefreshUnlocks, !.game = GameOf[a]] \in Jobs
    <3>1. NoJob \in Jobs /\ RefreshUnlocks \in Seq(StepNames) /\ GameOf[a] \in Games
      BY NoJobTyped, Programs, Worlds
    <3> QED
      BY <3>1 DEF Jobs
  <2>3. job' \in [AllWorkers -> Jobs]
    BY <2>1, <2>2, TypeParts
  <2> QED
    BY <1>0, <1>12, <2>1, <2>3, TypesFrom, TypeParts DEF AwardAccepted, worldVars, AnswerTypeOK
<1>13. ASSUME AwardFails PROVE AnswerTypeOK'
  <2>1. req' \in Asks
    BY <1>0, <1>13, RequestTyped DEF AwardFails, Places
  <2> QED
    BY <1>13, <2>1, TypesFrom, TypeParts DEF AwardFails, worldVars, AnswerTypeOK
<1>14. ASSUME AwardQueued PROVE AnswerTypeOK'
  <2>1. PICK a \in req.awarded :
          /\ pending' = IF AlreadyUnlocked(a) THEN pending ELSE pending \cup {a}
          /\ won' = won \cup {a}
    BY <1>14 DEF AwardQueued
  <2> QED
    BY <1>0, <1>14, <2>1, TypesFrom, TypeParts DEF AwardQueued, worldVars, AnswerTypeOK
<1> QED
  BY <1>1, <1>2, <1>3, <1>4, <1>5, <1>6, <1>7, <1>8, <1>9, <1>10, <1>11, <1>12, <1>13, <1>14
     DEF RequestStep

\* The other steps keep the types.
LEMMA TypesElse ==
  ASSUME AnswerTypeOK, MenuRemoves
  PROVE  /\ \A d \in Hashes : StartCaching(d) => AnswerTypeOK'
         /\ StartRefresh => AnswerTypeOK'
         /\ StartFlush \/ FlushSend \/ FlushRecord => AnswerTypeOK'
         /\ DeleteAward \/ RemoveStep \/ ClearCache => AnswerTypeOK'
         /\ \A g \in Games : StartRemoval(g) => AnswerTypeOK'
         /\ \A act \in Actions, d \in Hashes : Ask(act, d) => AnswerTypeOK'
         /\ \A a \in Achievements : AskAward(a) => AnswerTypeOK'
         /\ LinkChanges \/ GoesIdle \/ WeekPasses => AnswerTypeOK'
<1> USE TypeParts, Worlds
<1>0. NoJob \in Jobs /\ NoRequest \in Asks
  BY NoJobTyped, NoRequestTyped
<1>1. ASSUME NEW d \in Hashes, StartCaching(d) PROVE AnswerTypeOK'
  <2> DEFINE g == GameOfHash[d]
             t == (IF d \in cache.gameid THEN <<>> ELSE <<"gameid">>)
                    \o (IF g \in cache.patch THEN <<>> ELSE CacheGame)
  <2>1. t \in Seq(StepNames) /\ g \in Games
    BY Programs
  <2>2. job' = [job EXCEPT !["caching"] = [NoJob EXCEPT !.todo = t, !.game = g, !.hash = d]]
    BY <1>1 DEF StartCaching
  <2> HIDE DEF t, g
  <2>3. [NoJob EXCEPT !.todo = t, !.game = g, !.hash = d] \in Jobs
    BY <1>0, <2>1 DEF Jobs
  <2>4. job' \in [AllWorkers -> Jobs]
    BY <2>2, <2>3
  <2> QED
    BY <1>1, <2>4, TypesFrom DEF StartCaching, worldVars, AnswerTypeOK
<1>2. ASSUME StartRefresh PROVE AnswerTypeOK'
  <2>1. DueGames \in SUBSET Games /\ <<"evict">> \in Seq(StepNames)
    BY Programs DEF DueGames, AnswerTypeOK
  <2>2. [NoJob EXCEPT !.rest = DueGames, !.todo = <<"evict">>] \in Jobs
    BY <1>0, <2>1 DEF Jobs
  <2>3. job' \in [AllWorkers -> Jobs]
    BY <1>2, <2>2 DEF StartRefresh
  <2> QED
    BY <1>2, <2>3, TypesFrom DEF StartRefresh, worldVars, AnswerTypeOK
<1>3. ASSUME StartFlush PROVE AnswerTypeOK'
  <2> DEFINE games == {GameOf[a] : a \in {a \in pending : KnownGame(a)}}
  <2>1. games \in SUBSET Games /\ pending \in SUBSET Achievements
    BY DEF AnswerTypeOK
  <2>2. /\ Store([cache EXCEPT !.patch = @ \cup games])
        /\ job' = [job EXCEPT !["flush"] = [NoJob EXCEPT !.send = pending, !.rest = games]]
    BY <1>3 DEF StartFlush
  <2> HIDE DEF games
  <2>3. [NoJob EXCEPT !.send = pending, !.rest = games] \in Jobs
    BY <1>0, <2>1 DEF Jobs
  <2>4. [cache EXCEPT !.patch = @ \cup games] \in Caches
    BY <2>1 DEF Caches
  <2>5. job' \in [AllWorkers -> Jobs] /\ cache' \in Caches /\ owned' \subseteq Hashes
    BY <2>2, <2>3, <2>4, StoreTyped
  <2> QED
    BY <1>3, <2>5, TypesFrom DEF StartFlush, worldVars, AnswerTypeOK
<1>4. ASSUME FlushSend PROVE AnswerTypeOK'
  <2> DEFINE flush == job["flush"]
  <2>1. PICK a \in flush.send :
          LET left == flush.send \ {a} IN
          IF link = "up"
          THEN /\ server' = server \cup {a}
               /\ job' = [job EXCEPT !["flush"].send = left, !["flush"].sent = {a}]
          ELSE /\ Becomes("flush", [flush EXCEPT !.send = left,
                             !.rest = IF left = {} /\ flush.phase = 0 THEN {} ELSE @])
               /\ UNCHANGED server
    BY <1>4 DEF FlushSend
  <2> DEFINE left == flush.send \ {a}
  <2>2. flush \in Jobs /\ a \in Achievements /\ left \in SUBSET Achievements
    BY JobFields
  <2>3. job' \in [AllWorkers -> Jobs]
    <3>1. CASE link = "up"
      <4>1. job' = [job EXCEPT !["flush"].send = left, !["flush"].sent = {a}]
        BY <2>1, <3>1
      <4> HIDE DEF left
      <4>2. [job["flush"] EXCEPT !.send = left, !.sent = {a}] \in Jobs
        BY <2>2 DEF Jobs
      <4>3. job' = [job EXCEPT !["flush"] = [job["flush"] EXCEPT !.send = left, !.sent = {a}]]
        BY <2>2, <4>1 DEF Jobs
      <4> QED
        BY <4>2, <4>3
    <3>2. CASE link # "up"
      <4> DEFINE rest == IF left = {} /\ flush.phase = 0 THEN {} ELSE flush.rest
      <4>1. Becomes("flush", [flush EXCEPT !.send = left, !.rest = rest])
        BY <2>1, <3>2
      <4>2. rest \in SUBSET Games
        BY JobFields
      <4> HIDE DEF left, rest, flush
      <4>3. [flush EXCEPT !.send = left, !.rest = rest] \in Jobs
        BY <2>2, <4>2 DEF Jobs
      <4> QED
        BY <4>1, <4>3, BecomesTyped
    <3> QED
      BY <3>1, <3>2
  <2>4. server' \subseteq Achievements
    BY <2>1, <2>2 DEF AnswerTypeOK
  <2> QED
    BY <1>4, <2>3, <2>4, TypesFrom DEF FlushSend, AnswerTypeOK
<1>5. ASSUME FlushRecord PROVE AnswerTypeOK'
  <2>1. PICK a \in job["flush"].sent :
          /\ pending' = pending \ {a}
          /\ Becomes("flush", [job["flush"] EXCEPT !.sent = {}, !.phase = 1])
    BY <1>5 DEF FlushRecord
  <2> DEFINE r == job["flush"]
  <2>4. r \in Jobs /\ 1 \in 0 .. 2
    OBVIOUS
  <2> HIDE DEF r
  <2>5. [r EXCEPT !.sent = {}, !.phase = 1] \in Jobs
    BY <2>4 DEF Jobs
  <2>2. [job["flush"] EXCEPT !.sent = {}, !.phase = 1] \in Jobs
    BY <2>5 DEF r
  <2>3. job' \in [AllWorkers -> Jobs]
    BY <2>1, <2>2, BecomesTyped
  <2> QED
    BY <1>5, <2>1, <2>3, TypesFrom DEF FlushRecord, worldVars, AnswerTypeOK
<1>6. ASSUME DeleteAward PROVE AnswerTypeOK'
  BY <1>6, TypesFrom DEF DeleteAward, AnswerTypeOK
<1>7. ASSUME NEW g \in Games, StartRemoval(g) PROVE AnswerTypeOK'
  <2>1. [NoJob EXCEPT !.todo = RemoveGame, !.game = g] \in Jobs
    BY <1>0, Programs DEF Jobs
  <2>2. job' \in [AllWorkers -> Jobs]
    BY <1>7, <2>1 DEF StartRemoval
  <2> QED
    BY <1>7, <2>2, TypesFrom DEF StartRemoval, worldVars, AnswerTypeOK
<1>8. ASSUME RemoveStep PROVE AnswerTypeOK'
  <2>0. job["menu"].todo # <<>>
    BY <1>8 DEF RemoveStep
  <2>1. Advance("menu") \in Jobs
    BY <2>0, AdvanceTyped
  <2>2. job' \in [AllWorkers -> Jobs]
    BY <1>8, <2>1, BecomesTyped DEF RemoveStep
  <2>3. NoEntry \in Entries
    BY DEF Entries
  <2>4. cache' \in Caches
    <3>1. Head1("menu") \in Removals
      BY <2>0 DEF MenuRemoves, Head1
    <3> QED
      BY <1>8, <2>3, <3>1 DEF RemoveStep, Caches, Removals
  <2>5. played' \subseteq Games
    BY <1>8 DEF RemoveStep, AnswerTypeOK
  <2> QED
    BY <1>8, <2>2, <2>4, <2>5, TypesFrom DEF RemoveStep, worldVars, AnswerTypeOK
<1>9. ASSUME ClearCache PROVE AnswerTypeOK'
  <2>1. EmptyCache \in Caches
    <3>1. NoEntry \in Entries
      BY DEF Entries
    <3> QED
      BY <3>1 DEF EmptyCache, Caches
  <2> QED
    BY <1>9, <2>1, TypesFrom DEF ClearCache, worldVars, AnswerTypeOK
<1>10. ASSUME NEW act \in Actions, NEW d \in Hashes, Ask(act, d) PROVE AnswerTypeOK'
  <2>1. PICK online \in BOOLEAN :
          /\ believed' = online
          /\ req' = [NoRequest EXCEPT !.action = act, !.hash = d,
                      !.at = IF online THEN "forward" ELSE OfflinePlace(act)]
    BY <1>10 DEF Ask, SaysOnline
  <2>2. req' \in Asks
    BY <1>0, <2>1, OfflinePlaces DEF Asks, Places
  <2>3. played' \subseteq Games /\ active' \in BOOLEAN
    BY <1>10 DEF Ask, PlayedBy, NotesGame, AnswerTypeOK
  <2> QED
    BY <1>10, <2>1, <2>2, <2>3, TypesFrom DEF Ask, worldVars, AnswerTypeOK
<1>11. ASSUME NEW a \in Achievements, AskAward(a) PROVE AnswerTypeOK'
  <2>1. PICK online \in BOOLEAN :
          /\ believed' = online
          /\ req' = [NoRequest EXCEPT !.action = "award", !.awarded = {a},
                                      !.at = IF online THEN "forward" ELSE "queue"]
    BY <1>11 DEF AskAward, SaysOnline
  <2>2. req' \in Asks
    BY <1>0, <2>1 DEF Asks, Places
  <2> QED
    BY <1>11, <2>1, <2>2, TypesFrom DEF AskAward, worldVars, AnswerTypeOK
<1>12. ASSUME LinkChanges \/ GoesIdle \/ WeekPasses PROVE AnswerTypeOK'
  BY <1>12, TypesFrom DEF LinkChanges, GoesIdle, WeekPasses, worldVars, AnswerTypeOK
<1> QED
  BY <1>1, <1>2, <1>3, <1>4, <1>5, <1>6, <1>7, <1>8, <1>9, <1>10, <1>11, <1>12

\* A step of one job leaves the others alone.
LEMMA OwnJob ==
  ASSUME AnswerTypeOK, NEW j \in AllWorkers, JobStep(j), NEW k \in AllWorkers, k # j
  PROVE  job'[k] = job[k]
<1>1. Evict /\ j = "periodic" => job'[k] = job[k]
  BY TypeParts DEF Evict
<1> QED
  BY <1>1, TypeParts DEF JobStep, FetchGameId, FetchPatch, FetchSets, Fetches, FetchUnlocks,
     StoreUnlocks, FetchFails, ReadUnlocks, ReadQueue, StoreSession, NextGame, Becomes

\* The menu's job takes none of the steps of the other jobs.
LEMMA NotTheMenu ==
  ASSUME AnswerTypeOK, MenuRemoves, NEW j \in AllWorkers, JobStep(j)
  PROVE  j # "menu"
<1> SUFFICES ASSUME j = "menu" PROVE FALSE
  OBVIOUS
<1>1. Head1("menu") \in Removals \cup {"none"}
  BY DEF MenuRemoves, Head1
<1> QED
  BY <1>1 DEF JobStep, FetchGameId, FetchPatch, FetchSets, Fetches, FetchUnlocks, StoreUnlocks,
     FetchFails, ReadUnlocks, ReadQueue, StoreSession, NextGame, Removals, Requests, MenuRemoves

\* The menu's job only ever removes.
LEMMA MenuStep ==
  ASSUME AnswerTypeOK, MenuRemoves, [AnswerNext]_answerVars
  PROVE  MenuRemoves'
<1> USE TypeParts, Worlds DEF MenuRemoves
<1>0. NoJob.todo = <<>> /\ NoJob.rest = {} /\ <<>> \in Seq(Removals)
  BY DEF NoJob
<1>1. CASE job'["menu"] = job["menu"]
  BY <1>1
<1>2. ASSUME NEW g \in Games, StartRemoval(g) PROVE MenuRemoves'
  <2>1. job'["menu"] = [NoJob EXCEPT !.todo = RemoveGame, !.game = g]
    BY <1>2 DEF StartRemoval
  <2>2. job'["menu"].todo = RemoveGame /\ job'["menu"].rest = {}
    BY <2>1 DEF NoJob
  <2>3. RemoveGame \in Seq(Removals)
    BY DEF RemoveGame, Removals
  <2> QED
    BY <2>2, <2>3
<1>3. ASSUME RemoveStep PROVE MenuRemoves'
  <2>1. job["menu"].todo # <<>> /\ Becomes("menu", Advance("menu"))
    BY <1>3 DEF RemoveStep
  <2>2. Tail(job["menu"].todo) \in Seq(Removals)
    BY <2>1
  <2>3. Advance("menu").todo = Tail(job["menu"].todo) /\ Advance("menu").rest = {}
    BY DEF Advance, Jobs
  <2>4. job'["menu"] = NoJob \/ job'["menu"] = Advance("menu")
    <3>1. "menu" \in AllWorkers
      OBVIOUS
    <3> QED
      BY <2>1, <3>1, BecomesThat
  <2> QED
    BY <1>0, <2>2, <2>3, <2>4
<1>4. CASE UNCHANGED answerVars
  BY <1>4 DEF answerVars
<1>5. CASE \E j \in Workers : JobStep(j)
  BY <1>1, <1>5, OwnJob, NotTheMenu
<1>6. ASSUME RequestStep PROVE job'["menu"] = job["menu"]
  <2>1. job' = job \/ \E r : job' = [job EXCEPT !["award"] = r]
    BY <1>6 DEF RequestStep, Forwarded, ForwardFails, Keep, ThenUnlocks, KeepSession,
       KeepUnlocks, Done, Lookup, ReadEntry, ReadCached, ReadPending, Delivered, AwardAccepted,
       AwardFails, AwardQueued
  <2> QED
    BY <2>1
<1>7. CASE \E d \in Hashes : StartCaching(d)
  BY <1>1, <1>7 DEF StartCaching
<1>8. CASE StartRefresh \/ StartFlush \/ FlushSend \/ FlushRecord
  BY <1>1, <1>8 DEF StartRefresh, StartFlush, FlushSend, FlushRecord, Becomes
<1>9. CASE \/ DeleteAward \/ ClearCache \/ \E act \in Actions, d \in Hashes : Ask(act, d)
           \/ \E a \in Achievements : AskAward(a)
           \/ LinkChanges \/ GoesIdle \/ WeekPasses
  BY <1>1, <1>9 DEF DeleteAward, ClearCache, Ask, AskAward, LinkChanges, GoesIdle, WeekPasses
<1> QED
  BY <1>1, <1>2, <1>3, <1>4, <1>5, <1>6, <1>7, <1>8, <1>9 DEF AnswerNext

\* Every step keeps the types.
LEMMA TypesStep ==
  ASSUME AnswerTypeOK, MenuRemoves, [AnswerNext]_answerVars
  PROVE  AnswerTypeOK'
<1>1. CASE UNCHANGED answerVars
  BY <1>1 DEF answerVars, AnswerTypeOK
<1>2. CASE \E j \in Workers : JobStep(j)
  BY <1>2, TypesJobStep, Worlds
<1>3. CASE RequestStep
  BY <1>3, TypesRequestStep
<1> QED
  BY <1>1, <1>2, <1>3, TypesElse DEF AnswerNext

\* The type invariant of the requests, the cache and the jobs that fill it.
THEOREM AnswersTyped == AnswerSpec => []AnswerTypeOK
<1>1. AnswerInit => AnswerTypeOK /\ MenuRemoves
  <2>1. AnswerInit => MenuRemoves
    <3>1. AnswerInit => job["menu"] = NoJob
      BY DEF AnswerInit, AllWorkers
    <3>2. NoJob.todo = <<>> /\ NoJob.rest = {} /\ <<>> \in Seq(Removals)
      BY DEF NoJob
    <3> QED
      BY <3>1, <3>2 DEF MenuRemoves
  <2> QED
    BY <2>1, TypesInit
<1>2. AnswerTypeOK /\ MenuRemoves /\ [AnswerNext]_answerVars => AnswerTypeOK' /\ MenuRemoves'
  BY TypesStep, MenuStep
<1> QED
  BY <1>1, <1>2, PTL DEF AnswerSpec

-----------------------------------------------------------------------------
(* What is cached and shown is true.                                           *)

\* What a job has read for the entry it is about to write was true, and still is.
JobTold(j) ==
    /\ Head1(j) = "unlocks" /\ job[j].phase # 0 =>
         Filtered(job[j].got) \subseteq server \cap Of(job[j].game)
    /\ Head1(j) = "session" /\ job[j].phase # 0 => job[j].got \subseteq won \cap Of(job[j].game)

\* The flush sends what was earned and records what was accepted, and only then does it
\* refresh the games; no other job sends anything.
FlushTold ==
    /\ job["flush"].send \subseteq won /\ job["flush"].sent \subseteq server
    /\ job["flush"].todo # <<>> => job["flush"].send = {} /\ job["flush"].sent = {}
    /\ \A j \in AllWorkers \ {"flush"} : job[j].send = {} /\ job[j].sent = {}

\* So with the request that is being handled.
RequestTold ==
    /\ req.at \in {"keep", "thenunlocks", "keepsession", "keepunlocks"} =>
         Filtered(req.got) \subseteq server \cap Of(AskedGame)
    /\ req.at \in {"keep", "keepsession"} => Warning \notin req.got
    /\ req.at = "keepunlocks" /\ req.action = "startsession" => Warning \notin req.got
    /\ req.at = "thenunlocks" => req.action = "patch"
    /\ req.at \in {"readunlocks", "readqueue"} => req.got \subseteq won \cap Of(AskedGame)

Earned == server \cup pending \subseteq won

AnswersTrue ==
    /\ AnswerTypeOK /\ MenuRemoves
    /\ \A j \in AllWorkers : JobTold(j)
    /\ FlushTold /\ RequestTold /\ Earned
    /\ CacheHoldsTruth /\ NoAwardDropped /\ ShownIsTrue

\* RetroAchievements takes nothing back, and what was won stays won.
LEMMA Grows ==
  ASSUME AnswersTrue, [AnswerNext]_answerVars
  PROVE  server \subseteq server' /\ won \subseteq won'
<1>1. CASE UNCHANGED answerVars
  BY <1>1 DEF answerVars
<1>2. CASE \E j \in Workers : JobStep(j)
  BY <1>2 DEF JobStep, FetchGameId, FetchPatch, FetchSets, Fetches, FetchUnlocks, StoreUnlocks,
     FetchFails, ReadUnlocks, ReadQueue, StoreSession, NextGame, Evict, worldVars
<1>3. CASE RequestStep
  BY <1>3 DEF RequestStep, Forwarded, ForwardFails, Keep, ThenUnlocks, KeepSession, KeepUnlocks,
     Done, Lookup, ReadEntry, ReadCached, ReadPending, Delivered, AwardAccepted, AwardFails,
     AwardQueued, worldVars
<1>4. CASE FlushSend
  BY <1>4 DEF FlushSend
<1>5. CASE \/ \E d \in Hashes : StartCaching(d)
           \/ StartRefresh \/ StartFlush \/ FlushRecord \/ DeleteAward \/ RemoveStep \/ ClearCache
           \/ \E g \in Games : StartRemoval(g)
           \/ \E act \in Actions, d \in Hashes : Ask(act, d)
           \/ \E a \in Achievements : AskAward(a)
           \/ LinkChanges \/ GoesIdle \/ WeekPasses
  BY <1>5 DEF StartCaching, StartRefresh, StartFlush, FlushRecord, DeleteAward, RemoveStep,
     ClearCache, StartRemoval, Ask, AskAward, LinkChanges, GoesIdle, WeekPasses, worldVars
<1> QED
  BY <1>1, <1>2, <1>3, <1>4, <1>5 DEF AnswerNext

\* Two writes that keep the cache true, and the changes that write no entry.
LEMMA UnlocksTrue ==
  ASSUME AnswersTrue, server \subseteq server', won \subseteq won',
         NEW g \in Games, NEW ids, Filtered(ids) \subseteq server \cap Of(g),
         cache' = PutUnlocks(g, ids)
  PROVE  CacheHoldsTruth'
<1>1. \A h \in Games : cache'.unlocks[h] = IF h = g THEN Filtered(ids) ELSE cache.unlocks[h]
  BY TypeParts DEF PutUnlocks, Caches, AnswersTrue
<1>2. cache'.session = cache.session
  BY TypeParts DEF PutUnlocks, Caches, AnswersTrue
<1>3. \A h \in Games : Entry(cache'.unlocks[h]) \subseteq server \cap Of(h)
  BY <1>1 DEF AnswersTrue, CacheHoldsTruth, Entry
<1> QED
  BY <1>2, <1>3 DEF AnswersTrue, CacheHoldsTruth

\* The other write: a session's entry.
LEMMA SessionTrue ==
  ASSUME AnswersTrue, server \subseteq server', won \subseteq won',
         NEW g \in Games, NEW ids, ids \subseteq won \cap Of(g),
         cache' = PutSession(g, ids)
  PROVE  CacheHoldsTruth'
<1>1. \A h \in Games : cache'.session[h] = IF h = g THEN ids ELSE cache.session[h]
  BY TypeParts DEF PutSession, Caches, AnswersTrue
<1>2. cache'.unlocks = cache.unlocks
  BY TypeParts DEF PutSession, Caches, AnswersTrue
<1>3. \A h \in Games : Entry(cache'.session[h]) \subseteq won \cap Of(h)
  BY <1>1 DEF AnswersTrue, CacheHoldsTruth, Entry
<1> QED
  BY <1>2, <1>3 DEF AnswersTrue, CacheHoldsTruth

\* An entry that goes away says nothing wrong.
LEMMA EntriesGone ==
  ASSUME AnswersTrue, server \subseteq server', won \subseteq won',
         \A g \in Games : /\ cache'.unlocks[g] \in {cache.unlocks[g], NoEntry}
                          /\ cache'.session[g] \in {cache.session[g], NoEntry}
  PROVE  CacheHoldsTruth'
<1>1. \A g \in Games : /\ Entry(cache'.unlocks[g]) \subseteq Entry(cache.unlocks[g])
                       /\ Entry(cache'.session[g]) \subseteq Entry(cache.session[g])
  BY DEF Entry
<1> QED
  BY <1>1 DEF AnswersTrue, CacheHoldsTruth

\* A change of the definitions is no change of the entries.
LEMMA DefinitionsTrue ==
  ASSUME AnswersTrue, server \subseteq server', won \subseteq won',
         cache'.unlocks = cache.unlocks, cache'.session = cache.session
  PROVE  CacheHoldsTruth'
BY EntriesGone

\* PutDefinition is such a change.
LEMMA DefinitionsOnly ==
  ASSUME AnswerTypeOK, NEW kind \in {"gameid", "patch", "sets"}, NEW g, NEW d,
         Store(PutDefinition(kind, g, d))
  PROVE  cache'.unlocks = cache.unlocks /\ cache'.session = cache.session
BY TypeParts DEF Store, PutDefinition, Caches

\* Every step keeps the cache true.
LEMMA CacheStep ==
  ASSUME AnswersTrue, [AnswerNext]_answerVars
  PROVE  CacheHoldsTruth'
<1> USE Grows, Worlds
<1>0. AnswerTypeOK /\ MenuRemoves
  BY DEF AnswersTrue
<1>1. CASE cache' = cache
  BY <1>1, DefinitionsTrue
<1>2. ASSUME NEW j \in AllWorkers, JobStep(j) PROVE CacheHoldsTruth'
  <2>1. CASE FetchGameId(j) \/ FetchPatch(j) \/ FetchSets(j)
    <3>1. cache'.unlocks = cache.unlocks /\ cache'.session = cache.session
      BY <1>0, <2>1, DefinitionsOnly DEF FetchGameId, FetchPatch, FetchSets, Fetches
    <3> QED
      BY <3>1, DefinitionsTrue
  <2>2. CASE StoreUnlocks(j)
    <3>1. /\ Filtered(job[j].got) \subseteq server \cap Of(job[j].game)
          /\ cache' = PutUnlocks(job[j].game, job[j].got)
      BY <2>2 DEF StoreUnlocks, Store, AnswersTrue, JobTold
    <3> QED
      BY <1>0, <3>1, JobFields, UnlocksTrue
  <2>3. CASE StoreSession(j)
    <3>1. /\ job[j].got \subseteq won \cap Of(job[j].game)
          /\ cache' = PutSession(job[j].game, job[j].got)
      BY <2>3 DEF StoreSession, Store, AnswersTrue, JobTold
    <3> QED
      BY <1>0, <3>1, JobFields, SessionTrue
  <2>4. CASE Evict
    <3>1. cache'.unlocks = cache.unlocks /\ cache'.session = cache.session
      BY <2>4 DEF Evict, Aged, Spared
    <3> QED
      BY <3>1, DefinitionsTrue
  <2>5. CASE FetchUnlocks(j) \/ FetchFails(j) \/ ReadUnlocks(j) \/ ReadQueue(j) \/ NextGame(j)
    BY <1>1, <2>5 DEF FetchUnlocks, FetchFails, ReadUnlocks, ReadQueue, NextGame
  <2> QED
    BY <1>2, <2>1, <2>2, <2>3, <2>4, <2>5 DEF JobStep
<1>3. ASSUME Keep PROVE CacheHoldsTruth'
  <2>1. CASE Store(PutUnlocks(AskedGame, req.got))
    <3>1. /\ Filtered(req.got) \subseteq server \cap Of(AskedGame)
          /\ cache' = PutUnlocks(AskedGame, req.got)
      BY <1>3, <2>1 DEF Keep, Store, AnswersTrue, RequestTold
    <3> QED
      BY <1>0, <3>1, ReqGot, UnlocksTrue
  <2>2. ASSUME NEW kind \in {"gameid", "patch", "sets"},
               Store(PutDefinition(kind, AskedGame, req.hash))
        PROVE  CacheHoldsTruth'
    <3>1. cache'.unlocks = cache.unlocks /\ cache'.session = cache.session
      BY <1>0, <2>2, DefinitionsOnly
    <3> QED
      BY <3>1, DefinitionsTrue
  <2> QED
    BY <1>1, <1>3, <2>1, <2>2 DEF Keep
<1>4. ASSUME KeepSession PROVE CacheHoldsTruth'
  <2>1. req.got \subseteq won \cap Of(AskedGame)
    BY <1>4 DEF KeepSession, AnswersTrue, RequestTold, Filtered, Earned
  <2>2. cache' = PutSession(AskedGame, req.got)
    BY <1>4 DEF KeepSession, Store
  <2> QED
    BY <1>0, <2>1, <2>2, ReqGot, SessionTrue
<1>5. ASSUME KeepUnlocks PROVE CacheHoldsTruth'
  <2>1. /\ Filtered(req.got) \subseteq server \cap Of(AskedGame)
        /\ cache' = PutUnlocks(AskedGame, req.got)
    BY <1>5 DEF KeepUnlocks, Store, AnswersTrue, RequestTold
  <2> QED
    BY <1>0, <2>1, ReqGot, UnlocksTrue
<1>6. CASE RequestStep
  BY <1>1, <1>3, <1>4, <1>5, <1>6 DEF RequestStep, Forwarded, ForwardFails, ThenUnlocks, Done,
     Lookup, ReadEntry, ReadCached, ReadPending, Delivered, AwardAccepted, AwardFails, AwardQueued
<1>7. ASSUME StartFlush PROVE CacheHoldsTruth'
  <2>1. cache'.unlocks = cache.unlocks /\ cache'.session = cache.session
    BY <1>0, <1>7, TypeParts DEF StartFlush, Store, Caches
  <2> QED
    BY <2>1, DefinitionsTrue
<1>8. ASSUME RemoveStep PROVE CacheHoldsTruth'
  <2>1. Head1("menu") \in Removals
    BY <1>0, <1>8 DEF RemoveStep, MenuRemoves, Head1
  <2>2. \A g \in Games : /\ cache'.unlocks[g] \in {cache.unlocks[g], NoEntry}
                         /\ cache'.session[g] \in {cache.session[g], NoEntry}
    BY <1>0, <1>8, <2>1, TypeParts DEF RemoveStep, Caches, Removals
  <2> QED
    BY <2>2, EntriesGone
<1>9. ASSUME ClearCache PROVE CacheHoldsTruth'
  BY <1>9, EntriesGone DEF ClearCache, EmptyCache
<1>10. CASE \/ \E d \in Hashes : StartCaching(d)
            \/ StartRefresh \/ FlushSend \/ FlushRecord \/ DeleteAward
            \/ \E g \in Games : StartRemoval(g)
            \/ \E act \in Actions, d \in Hashes : Ask(act, d)
            \/ \E a \in Achievements : AskAward(a)
            \/ LinkChanges \/ GoesIdle \/ WeekPasses \/ UNCHANGED answerVars
  BY <1>1, <1>10 DEF StartCaching, StartRefresh, FlushSend, FlushRecord, DeleteAward,
     StartRemoval, Ask, AskAward, LinkChanges, GoesIdle, WeekPasses, worldVars, answerVars
<1> QED
  BY <1>2, <1>6, <1>7, <1>8, <1>9, <1>10 DEF AnswerNext

\* A step of one job leaves it with nothing to send, and the other jobs alone.
LEMMA SendsNothing ==
  ASSUME AnswersTrue, NEW j \in AllWorkers, JobStep(j)
  PROVE  job'[j].send = {} /\ job'[j].sent = {}
<1> USE TypeParts DEF AnswersTrue
<1>0. NoJob.send = {} /\ NoJob.sent = {}
  BY DEF NoJob
<1>1. job[j].send = {} /\ job[j].sent = {}
  <2>1. CASE j # "flush"
    BY <2>1 DEF FlushTold
  <2>2. CASE j = "flush"
    BY <2>2 DEF FlushTold, JobStep, FetchGameId, FetchPatch, FetchSets, Fetches, FetchUnlocks,
       StoreUnlocks, FetchFails, ReadUnlocks, ReadQueue, StoreSession, NextGame, Head1, Requests
  <2> QED
    BY <2>1, <2>2
<1>2. Advance(j).send = {} /\ Advance(j).sent = {} /\ Drop(j).send = {} /\ Drop(j).sent = {}
  BY <1>1 DEF Advance, Drop, Jobs
<1>3. CASE Becomes(j, Advance(j)) \/ Becomes(j, Drop(j))
  <2>1. job'[j] \in {NoJob, Advance(j), Drop(j)}
    BY <1>3, BecomesThat
  <2> QED
    BY <1>0, <1>2, <2>1
<1>4. CASE FetchUnlocks(j) \/ ReadUnlocks(j) \/ ReadQueue(j)
  <2>1. PICK p, ids : job' = [job EXCEPT ![j].phase = p, ![j].got = ids]
    BY <1>4, HasRead
  <2> QED
    BY <1>1, <2>1, ReadFields
<1>5. CASE NextGame(j)
  <2>1. PICK g \in job[j].rest :
          job' = [job EXCEPT ![j].game = g, ![j].rest = @ \ {g}, ![j].phase = 0,
                             ![j].todo = Program(j) \o LastStep(j)]
    BY <1>5 DEF NextGame
  <2> DEFINE t == Program(j) \o LastStep(j)
             gs == job[j].rest \ {g}
  <2>3. job' = [job EXCEPT ![j].game = g, ![j].rest = gs, ![j].phase = 0, ![j].todo = t]
    BY <2>1
  <2> HIDE DEF t, gs
  <2>2. job'[j].send = job[j].send /\ job'[j].sent = job[j].sent
    BY <2>3 DEF Jobs
  <2> QED
    BY <1>1, <2>2
<1>6. CASE j = "periodic" /\ Evict
  BY <1>0, <1>6 DEF Evict
<1> QED
  BY <1>3, <1>4, <1>5, <1>6 DEF JobStep, FetchGameId, FetchPatch, FetchSets, Fetches,
     StoreUnlocks, FetchFails, StoreSession

\* The steps of the jobs keep what is claimed of the flush.
LEMMA JobsFlush ==
  ASSUME AnswersTrue, NEW j \in AllWorkers, JobStep(j), server \subseteq server', won \subseteq won'
  PROVE  FlushTold'
<1> USE Worlds
<1>1. \A k \in AllWorkers : k # j => job'[k] = job[k]
  BY OwnJob DEF AnswersTrue
<1>2. job'[j].send = {} /\ job'[j].sent = {}
  BY SendsNothing
<1>3. "flush" \in AllWorkers /\ FlushTold
  BY DEF AnswersTrue
<1> HIDE Worlds
<1> QED
  BY <1>1, <1>2, <1>3 DEF FlushTold

\* So does every step.
LEMMA FlushStep ==
  ASSUME AnswersTrue, [AnswerNext]_answerVars
  PROVE  FlushTold'
<1> USE Grows, Worlds, TypeParts DEF AnswersTrue
<1>0. /\ NoJob.send = {} /\ NoJob.sent = {} /\ NoJob.todo = <<>>
      /\ "flush" \in AllWorkers
  BY DEF NoJob
<1>1. CASE job' = job
  BY <1>1 DEF FlushTold
<1>2. ASSUME NEW j \in AllWorkers \ {"flush"}, NEW r, job' = [job EXCEPT ![j] = r],
             r.send = {}, r.sent = {}
      PROVE  FlushTold'
  BY <1>2 DEF FlushTold
<1>3. ASSUME AwardAccepted PROVE FlushTold'
  <2>1. PICK a : \/ job' = job
                 \/ job' = [job EXCEPT !["award"] = [NoJob EXCEPT !.todo = RefreshUnlocks,
                                                                 !.game = GameOf[a]]]
    BY <1>3 DEF AwardAccepted
  <2>2. [NoJob EXCEPT !.todo = RefreshUnlocks, !.game = GameOf[a]].send = {}
        /\ [NoJob EXCEPT !.todo = RefreshUnlocks, !.game = GameOf[a]].sent = {}
    BY DEF NoJob
  <2> QED
    BY <1>1, <1>2, <2>1, <2>2
<1>4. CASE RequestStep
  BY <1>1, <1>3, <1>4 DEF RequestStep, Forwarded, ForwardFails, Keep, ThenUnlocks, KeepSession,
     KeepUnlocks, Done, Lookup, ReadEntry, ReadCached, ReadPending, Delivered, AwardFails,
     AwardQueued
<1>5. ASSUME NEW d \in Hashes, StartCaching(d) PROVE FlushTold'
  <2>1. PICK t : job' = [job EXCEPT !["caching"] = [NoJob EXCEPT !.todo = t, !.game = GameOfHash[d],
                                                                 !.hash = d]]
    BY <1>5 DEF StartCaching
  <2>2. [NoJob EXCEPT !.todo = t, !.game = GameOfHash[d], !.hash = d].send = {}
        /\ [NoJob EXCEPT !.todo = t, !.game = GameOfHash[d], !.hash = d].sent = {}
    BY DEF NoJob
  <2> QED
    BY <1>2, <2>1, <2>2
<1>6. ASSUME StartRefresh PROVE FlushTold'
  <2>2. [NoJob EXCEPT !.rest = DueGames, !.todo = <<"evict">>].send = {}
        /\ [NoJob EXCEPT !.rest = DueGames, !.todo = <<"evict">>].sent = {}
    BY DEF NoJob
  <2> QED
    BY <1>2, <1>6, <2>2 DEF StartRefresh
<1>7. ASSUME StartFlush PROVE FlushTold'
  <2>1. PICK gs : job' = [job EXCEPT !["flush"] = [NoJob EXCEPT !.send = pending, !.rest = gs]]
    BY <1>7 DEF StartFlush
  <2> DEFINE r == [NoJob EXCEPT !.send = pending, !.rest = gs]
  <2>2. r.send = pending /\ r.sent = {} /\ r.todo = <<>>
    BY DEF NoJob
  <2>3. job'["flush"] = r /\ \A j \in AllWorkers \ {"flush"} : job'[j] = job[j]
    BY <2>1
  <2> HIDE DEF r
  <2> QED
    BY <2>2, <2>3 DEF FlushTold, Earned
<1>8. ASSUME FlushSend PROVE FlushTold'
  <2> DEFINE flush == job["flush"]
  <2>1. PICK a \in flush.send :
          LET left == flush.send \ {a} IN
          /\ flush.sent = {}
          /\ IF link = "up"
             THEN /\ server' = server \cup {a}
                  /\ job' = [job EXCEPT !["flush"].send = left, !["flush"].sent = {a}]
             ELSE Becomes("flush", [flush EXCEPT !.send = left,
                             !.rest = IF left = {} /\ flush.phase = 0 THEN {} ELSE @])
    BY <1>8 DEF FlushSend
  <2> DEFINE left == flush.send \ {a}
  <2>2. flush \in Jobs /\ flush.todo = <<>> /\ left \subseteq won
    BY DEF FlushTold
  <2>3. CASE link = "up"
    <3>1. job'["flush"].send = left /\ job'["flush"].sent = {a} /\ job'["flush"].todo = flush.todo
      <4>1. job' = [job EXCEPT !["flush"].send = left, !["flush"].sent = {a}]
        BY <2>1, <2>3
      <4> HIDE DEF left
      <4> QED
        BY <1>0, <2>2, <4>1 DEF Jobs
    <3>2. \A j \in AllWorkers \ {"flush"} : job'[j] = job[j]
      BY <2>1, <2>3
    <3> QED
      BY <2>1, <2>2, <2>3, <3>1, <3>2 DEF FlushTold
  <2>4. CASE link # "up"
    <3> DEFINE rest == IF left = {} /\ flush.phase = 0 THEN {} ELSE flush.rest
               r == [flush EXCEPT !.send = left, !.rest = rest]
    <3>1. Becomes("flush", r)
      BY <2>1, <2>4
    <3>2. r.send = left /\ r.sent = {} /\ r.todo = <<>>
      BY <2>1, <2>2 DEF Jobs
    <3> HIDE DEF r
    <3>3. /\ job'["flush"] = NoJob \/ job'["flush"] = r
          /\ \A j \in AllWorkers \ {"flush"} : job'[j] = job[j]
      BY <1>0, <3>1, BecomesThat
    <3> QED
      BY <1>0, <2>2, <3>2, <3>3 DEF FlushTold
  <2> QED
    BY <2>3, <2>4
<1>9. ASSUME FlushRecord PROVE FlushTold'
  <2> DEFINE r == [job["flush"] EXCEPT !.sent = {}, !.phase = 1]
  <2>1. PICK a \in job["flush"].sent : Becomes("flush", r)
    BY <1>9 DEF FlushRecord
  <2>2. r.send = job["flush"].send /\ r.sent = {} /\ r.todo = <<>>
    BY DEF FlushTold, Jobs
  <2> HIDE DEF r
  <2>3. /\ job'["flush"] = NoJob \/ job'["flush"] = r
        /\ \A j \in AllWorkers \ {"flush"} : job'[j] = job[j]
    BY <1>0, <2>1, BecomesThat
  <2> QED
    BY <1>0, <2>2, <2>3 DEF FlushTold
<1>10. ASSUME NEW g \in Games, StartRemoval(g) PROVE FlushTold'
  <2>2. [NoJob EXCEPT !.todo = RemoveGame, !.game = g].send = {}
        /\ [NoJob EXCEPT !.todo = RemoveGame, !.game = g].sent = {}
    BY DEF NoJob
  <2> QED
    BY <1>2, <1>10, <2>2 DEF StartRemoval
<1>11. ASSUME RemoveStep PROVE FlushTold'
  <2>1. Becomes("menu", Advance("menu"))
    BY <1>11 DEF RemoveStep
  <2>2. Advance("menu").send = {} /\ Advance("menu").sent = {}
    BY DEF FlushTold, Advance, Jobs
  <2>3. "menu" \in AllWorkers
    OBVIOUS
  <2>4. /\ job'["menu"] = NoJob \/ job'["menu"] = Advance("menu")
        /\ \A j \in AllWorkers \ {"menu"} : job'[j] = job[j]
    BY <2>1, <2>3, BecomesThat
  <2> QED
    BY <1>0, <2>2, <2>4 DEF FlushTold
<1>12. CASE \E j \in Workers : JobStep(j)
  BY <1>12, JobsFlush
<1>13. CASE \/ DeleteAward \/ ClearCache \/ \E act \in Actions, d \in Hashes : Ask(act, d)
            \/ \E a \in Achievements : AskAward(a)
            \/ LinkChanges \/ GoesIdle \/ WeekPasses \/ UNCHANGED answerVars
  BY <1>1, <1>13 DEF DeleteAward, ClearCache, Ask, AskAward, LinkChanges, GoesIdle, WeekPasses,
     answerVars
<1> QED
  BY <1>4, <1>5, <1>6, <1>7, <1>8, <1>9, <1>10, <1>11, <1>12, <1>13 DEF AnswerNext

\* A job that has read nothing, or has no step before it, claims nothing.
LEMMA ToldNothing ==
  ASSUME NEW j, (job[j].phase = 0 \/ job[j].todo = <<>>)'
  PROVE  JobTold(j)'
BY DEF JobTold, Head1

\* What a job was told stays true while the server's and the player's record grow.
LEMMA ToldStill ==
  ASSUME NEW j, JobTold(j), server \subseteq server', won \subseteq won', job'[j] = job[j]
  PROVE  JobTold(j)'
BY DEF JobTold, Head1

\* A job past its step has read nothing.
LEMMA AdvanceReads ==
  ASSUME AnswerTypeOK, NEW j \in AllWorkers
  PROVE  Advance(j).phase = 0 /\ Drop(j).phase = 0 /\ NoJob.phase = 0
BY TypeParts DEF Advance, Drop, NoJob, Jobs

\* A step of a job keeps what is claimed of it.
LEMMA ToldByJob ==
  ASSUME AnswersTrue, NEW j \in AllWorkers, JobStep(j), server \subseteq server', won \subseteq won'
  PROVE  JobTold(j)'
<1> USE DEF AnswersTrue
<1>1. CASE Becomes(j, Advance(j)) \/ Becomes(j, Drop(j))
  <2>1. job'[j] \in {NoJob, Advance(j), Drop(j)}
    BY <1>1, BecomesThat
  <2> QED
    BY <2>1, AdvanceReads, ToldNothing
<1>2. CASE FetchUnlocks(j)
  <2> DEFINE ids == (server \cap Of(job[j].game)) \cup {Warning}
  <2>1. Head1(j) = "unlocks" /\ job' = [job EXCEPT ![j].phase = 1, ![j].got = ids]
    BY <1>2 DEF FetchUnlocks
  <2>2. Filtered(ids) \subseteq server \cap Of(job[j].game)
    BY DEF Filtered
  <2> HIDE DEF ids
  <2>3. job'[j].got = ids /\ job'[j].todo = job[j].todo /\ job'[j].game = job[j].game
    BY <2>1, TypeParts DEF Jobs
  <2> QED
    BY <2>1, <2>2, <2>3 DEF JobTold, Head1, Filtered, Of
<1>3. CASE ReadUnlocks(j)
  <2> DEFINE ids == Filtered(Entry(cache.unlocks[job[j].game]))
  <2>1. Head1(j) = "session" /\ job' = [job EXCEPT ![j].phase = 1, ![j].got = ids]
    BY <1>3 DEF ReadUnlocks
  <2>2. ids \subseteq won \cap Of(job[j].game)
    BY JobFields DEF Filtered, CacheHoldsTruth, Earned
  <2> HIDE DEF ids
  <2>3. job'[j].got = ids /\ job'[j].todo = job[j].todo /\ job'[j].game = job[j].game
    BY <2>1, TypeParts DEF Jobs
  <2> QED
    BY <2>1, <2>2, <2>3 DEF JobTold, Head1, Filtered, Of
<1>4. CASE ReadQueue(j)
  <2> DEFINE ids == Merged(job[j].got, job[j].game)
  <2>1. Head1(j) = "session" /\ job[j].phase = 1
        /\ job' = [job EXCEPT ![j].phase = 2, ![j].got = ids]
    BY <1>4 DEF ReadQueue
  <2>2. job[j].got \subseteq won \cap Of(job[j].game)
    BY <2>1 DEF JobTold
  <2>3. ids \subseteq won \cap Of(job[j].game)
    BY <2>2 DEF Merged, Of, Earned, AnswerTypeOK
  <2> HIDE DEF ids
  <2>4. job'[j].got = ids /\ job'[j].todo = job[j].todo /\ job'[j].game = job[j].game
    BY <2>1, TypeParts DEF Jobs
  <2> QED
    BY <2>1, <2>3, <2>4 DEF JobTold, Head1, Filtered, Of
<1>5. CASE NextGame(j)
  <2>1. PICK g \in job[j].rest :
          job' = [job EXCEPT ![j].game = g, ![j].rest = @ \ {g}, ![j].phase = 0,
                             ![j].todo = Program(j) \o LastStep(j)]
    BY <1>5 DEF NextGame
  <2> DEFINE t == Program(j) \o LastStep(j)
             gs == job[j].rest \ {g}
  <2>2. job' = [job EXCEPT ![j].game = g, ![j].rest = gs, ![j].phase = 0, ![j].todo = t]
    BY <2>1
  <2> HIDE DEF t, gs
  <2>3. job'[j].phase = 0
    BY <2>2, TypeParts DEF Jobs
  <2> QED
    BY <2>3, ToldNothing
<1>6. CASE j = "periodic" /\ Evict
  <2>1. job'[j] = NoJob
    BY <1>6, TypeParts DEF Evict
  <2> QED
    BY <2>1, AdvanceReads, ToldNothing
<1> QED
  BY <1>1, <1>2, <1>3, <1>4, <1>5, <1>6 DEF JobStep, FetchGameId, FetchPatch, FetchSets,
     Fetches, StoreUnlocks, FetchFails, StoreSession

\* So does every step.
LEMMA JobsStep ==
  ASSUME AnswersTrue, [AnswerNext]_answerVars, NEW k \in AllWorkers
  PROVE  JobTold(k)'
<1> USE Grows, Worlds, TypeParts DEF AnswersTrue
<1>0. \A j \in AllWorkers : /\ NoJob.phase = 0 /\ NoJob.todo = <<>> /\ Advance(j).phase = 0
  BY AdvanceReads DEF NoJob
<1>1. CASE job'[k] = job[k]
  BY <1>1, ToldStill
<1>2. ASSUME (job[k].phase = 0 \/ job[k].todo = <<>>)' PROVE JobTold(k)'
  BY <1>2, ToldNothing
<1>3. CASE \E j \in Workers : JobStep(j)
  <2>1. PICK j \in AllWorkers : JobStep(j)
    BY <1>3
  <2> QED
    BY <1>1, <2>1, OwnJob, ToldByJob
<1>4. ASSUME AwardAccepted PROVE JobTold(k)'
  <2>1. PICK a : \/ job' = job
                 \/ job' = [job EXCEPT !["award"] = [NoJob EXCEPT !.todo = RefreshUnlocks,
                                                                 !.game = GameOf[a]]]
    BY <1>4 DEF AwardAccepted
  <2>2. [NoJob EXCEPT !.todo = RefreshUnlocks, !.game = GameOf[a]].phase = 0
    BY DEF NoJob
  <2> QED
    BY <1>1, <1>2, <2>1, <2>2
<1>5. CASE RequestStep
  BY <1>1, <1>4, <1>5 DEF RequestStep, Forwarded, ForwardFails, Keep, ThenUnlocks, KeepSession,
     KeepUnlocks, Done, Lookup, ReadEntry, ReadCached, ReadPending, Delivered, AwardFails,
     AwardQueued
<1>6. ASSUME NEW d \in Hashes, StartCaching(d) PROVE JobTold(k)'
  <2>1. PICK t : job' = [job EXCEPT !["caching"] = [NoJob EXCEPT !.todo = t, !.game = GameOfHash[d],
                                                                 !.hash = d]]
    BY <1>6 DEF StartCaching
  <2>2. [NoJob EXCEPT !.todo = t, !.game = GameOfHash[d], !.hash = d].phase = 0
    BY DEF NoJob
  <2> QED
    BY <1>1, <1>2, <2>1, <2>2
<1>7. ASSUME StartRefresh PROVE JobTold(k)'
  <2>2. [NoJob EXCEPT !.rest = DueGames, !.todo = <<"evict">>].phase = 0
    BY DEF NoJob
  <2> QED
    BY <1>1, <1>2, <1>7, <2>2 DEF StartRefresh
<1>8. ASSUME StartFlush PROVE JobTold(k)'
  <2>1. PICK gs : job' = [job EXCEPT !["flush"] = [NoJob EXCEPT !.send = pending, !.rest = gs]]
    BY <1>8 DEF StartFlush
  <2>2. [NoJob EXCEPT !.send = pending, !.rest = gs].phase = 0
    BY DEF NoJob
  <2> QED
    BY <1>1, <1>2, <2>1, <2>2
<1>9. ASSUME FlushSend \/ FlushRecord PROVE JobTold(k)'
  <2>1. CASE k # "flush"
    BY <1>1, <1>9, <2>1 DEF FlushSend, FlushRecord, Becomes
  <2>2. CASE k = "flush"
    <3>0. job["flush"].todo = <<>>
      BY <1>9 DEF FlushSend, FlushRecord, FlushTold
    <3>1. job'["flush"].todo = <<>>
      <4>1. ASSUME FlushRecord PROVE job'["flush"].todo = <<>>
        <5> DEFINE r == [job["flush"] EXCEPT !.sent = {}, !.phase = 1]
        <5>1. Becomes("flush", r)
          BY <4>1 DEF FlushRecord
        <5>2. r.todo = <<>>
          BY <3>0 DEF Jobs
        <5> HIDE DEF r
        <5> QED
          BY <1>0, <5>1, <5>2, BecomesThat, <2>2
      <4>2. ASSUME FlushSend PROVE job'["flush"].todo = <<>>
        <5> DEFINE flush == job["flush"]
        <5>1. PICK a \in flush.send :
                LET left == flush.send \ {a} IN
                IF link = "up"
                THEN job' = [job EXCEPT !["flush"].send = left, !["flush"].sent = {a}]
                ELSE Becomes("flush", [flush EXCEPT !.send = left,
                             !.rest = IF left = {} /\ flush.phase = 0 THEN {} ELSE @])
          BY <4>2 DEF FlushSend
        <5> DEFINE left == flush.send \ {a}
                   rest == IF left = {} /\ flush.phase = 0 THEN {} ELSE flush.rest
                   r == [flush EXCEPT !.send = left, !.rest = rest]
        <5>2. \/ job' = [job EXCEPT !["flush"].send = left, !["flush"].sent = {a}]
              \/ Becomes("flush", r)
          BY <5>1
        <5>3. r.todo = <<>>
          BY <3>0, <2>2 DEF Jobs
        <5> HIDE DEF left, r
        <5>4. CASE job' = [job EXCEPT !["flush"].send = left, !["flush"].sent = {a}]
          BY <2>2, <3>0, <5>4 DEF Jobs
        <5>5. CASE Becomes("flush", r)
          BY <1>0, <2>2, <5>3, <5>5, BecomesThat
        <5> QED
          BY <5>2, <5>4, <5>5
      <4> QED
        BY <1>9, <4>1, <4>2
    <3> QED
      BY <1>2, <2>2, <3>1
  <2> QED
    BY <2>1, <2>2
<1>10. ASSUME NEW g \in Games, StartRemoval(g) PROVE JobTold(k)'
  <2>2. [NoJob EXCEPT !.todo = RemoveGame, !.game = g].phase = 0
    BY DEF NoJob
  <2> QED
    BY <1>1, <1>2, <1>10, <2>2 DEF StartRemoval
<1>11. ASSUME RemoveStep PROVE JobTold(k)'
  <2>1. Becomes("menu", Advance("menu")) /\ "menu" \in AllWorkers
    BY <1>11 DEF RemoveStep
  <2>2. /\ job'["menu"] = NoJob \/ job'["menu"] = Advance("menu")
        /\ \A j \in AllWorkers \ {"menu"} : job'[j] = job[j]
    BY <2>1, BecomesThat
  <2> QED
    BY <1>0, <1>1, <1>2, <2>1, <2>2
<1>12. CASE \/ DeleteAward \/ ClearCache \/ \E act \in Actions, d \in Hashes : Ask(act, d)
            \/ \E a \in Achievements : AskAward(a)
            \/ LinkChanges \/ GoesIdle \/ WeekPasses \/ UNCHANGED answerVars
  BY <1>1, <1>12 DEF DeleteAward, ClearCache, Ask, AskAward, LinkChanges, GoesIdle, WeekPasses,
     answerVars
<1> QED
  BY <1>3, <1>5, <1>6, <1>7, <1>8, <1>9, <1>10, <1>11, <1>12 DEF AnswerNext

\* What is claimed of a request holds while only the world around it changes.
LEMMA RequestStays ==
  ASSUME AnswersTrue, server \subseteq server', won \subseteq won', req' = req
  PROVE  RequestTold' /\ ShownIsTrue'
BY DEF AnswersTrue, RequestTold, ShownIsTrue, AskedGame

\* Of a request that has read nothing, or shows nothing, nothing is claimed.
LEMMA RequestFresh ==
  ASSUME req'.at \in {"idle", "forward", "lookup", "read", "done", "queue", "offline", "error"}
  PROVE  RequestTold' /\ ShownIsTrue'
BY DEF RequestTold, ShownIsTrue

\* What an answer leaves of the request.
LEMMA AnswerFields ==
  ASSUME AnswerTypeOK, NEW p, NEW ids,
         \/ req' = [req EXCEPT !.at = p, !.got = ids]
         \/ req' = [req EXCEPT !.got = ids, !.at = p]
  PROVE  /\ req'.at = p /\ req'.got = ids /\ req'.action = req.action /\ req'.hash = req.hash
         /\ AskedGame' = AskedGame
BY TypeParts DEF Asks, AskedGame

\* An answer is true when what it shows was won.
LEMMA AnswerTrue ==
  ASSUME AnswerTypeOK, server \subseteq server', won \subseteq won',
         NEW ids, ids \subseteq won \cap Of(AskedGame), Answers("ok", ids)
  PROVE  RequestTold' /\ ShownIsTrue'
<1>1. req'.at = "ok" /\ req'.got = ids /\ AskedGame' = AskedGame
  BY AnswerFields DEF Answers
<1> QED
  BY <1>1 DEF RequestTold, ShownIsTrue, Of

\* The steps of a request keep what is claimed of it.
LEMMA RequestHandled ==
  ASSUME AnswersTrue, RequestStep, server \subseteq server', won \subseteq won'
  PROVE  RequestTold' /\ ShownIsTrue'
<1> USE DEF AnswersTrue
<1>0. NoRequest.at = "idle" /\ {} \subseteq won \cap Of(AskedGame)
  BY DEF NoRequest
<1>1. CASE Forwarded
  <2> DEFINE ids == Filtered((server \cap Of(AskedGame)) \cup {Warning})
  <2>1. PICK p \in {"done", "keepsession", "keep"} : req' = [req EXCEPT !.got = ids, !.at = p]
    BY <1>1 DEF Forwarded
  <2>2. ids \subseteq server \cap Of(AskedGame) /\ Warning \notin ids
    BY DEF Filtered
  <2> HIDE DEF ids
  <2>3. req'.at = p /\ req'.got = ids /\ AskedGame' = AskedGame
    BY <2>1, AnswerFields
  <2> QED
    BY <2>2, <2>3 DEF RequestTold, ShownIsTrue, Filtered, Of
<1>2. CASE ForwardFails
  <2>1. req'.at \in {"error", "offline", "read", "lookup"}
    BY <1>2, TypeParts DEF ForwardFails, Answers, Asks
  <2> QED
    BY <2>1, RequestFresh
<1>3. CASE Keep
  <2>0. Filtered(req.got) \subseteq server \cap Of(AskedGame) /\ Warning \notin req.got
    BY <1>3 DEF Keep, RequestTold
  <2>1. CASE Answers("ok", {})
    BY <1>0, <2>1, AnswerTrue
  <2>2. CASE Answers("ok", req.got)
    <3>1. req.got \subseteq won \cap Of(AskedGame)
      BY <2>0 DEF Filtered, Earned
    <3> QED
      BY <2>2, <3>1, AnswerTrue
  <2>3. CASE req.action = "patch" /\ req' = [req EXCEPT !.at = "thenunlocks"]
    <3>1. /\ req'.at = "thenunlocks" /\ req'.got = req.got /\ AskedGame' = AskedGame
          /\ req'.action = "patch"
      BY <2>3, TypeParts DEF Asks, AskedGame
    <3> QED
      BY <2>0, <3>1 DEF RequestTold, ShownIsTrue, Filtered, Of
  <2> QED
    BY <1>3, <2>1, <2>2, <2>3 DEF Keep
<1>4. CASE ThenUnlocks
  <2> DEFINE ids == (server \cap Of(AskedGame)) \cup {Warning}
  <2>1. CASE Answers("ok", {})
    BY <1>0, <2>1, AnswerTrue
  <2>2. CASE req' = [req EXCEPT !.got = ids, !.at = "keepunlocks"]
    <3>1. Filtered(ids) \subseteq server \cap Of(AskedGame)
      BY DEF Filtered
    <3>2. req.action # "startsession"
      BY <1>4 DEF ThenUnlocks, RequestTold
    <3> HIDE DEF ids
    <3>3. /\ req'.at = "keepunlocks" /\ req'.got = ids /\ AskedGame' = AskedGame
          /\ req'.action = req.action
      BY <2>2, AnswerFields
    <3> QED
      BY <3>1, <3>2, <3>3 DEF RequestTold, ShownIsTrue, Filtered, Of
  <2> QED
    BY <1>4, <2>1, <2>2 DEF ThenUnlocks
<1>5. CASE KeepSession
  <2>1. Filtered(req.got) \subseteq server \cap Of(AskedGame) /\ Warning \notin req.got
    BY <1>5 DEF KeepSession, RequestTold
  <2>2. req'.at = "keepunlocks" /\ req'.got = req.got /\ AskedGame' = AskedGame
    BY <1>5, TypeParts DEF KeepSession, Asks, AskedGame
  <2> QED
    BY <2>1, <2>2 DEF RequestTold, ShownIsTrue, Filtered, Of
<1>6. CASE KeepUnlocks
  <2>1. CASE req.action = "startsession"
    <3>1. req.got \subseteq won \cap Of(AskedGame)
      BY <1>6, <2>1 DEF KeepUnlocks, RequestTold, Filtered, Earned
    <3> QED
      BY <1>6, <2>1, <3>1, AnswerTrue DEF KeepUnlocks
  <2>2. CASE req.action # "startsession"
    BY <1>0, <1>6, <2>2, AnswerTrue DEF KeepUnlocks
  <2> QED
    BY <2>1, <2>2
<1>7. CASE Done
  BY <1>0, <1>7, AnswerTrue DEF Done
<1>8. CASE Lookup
  <2>1. Answers("ok", {}) \/ Answers("offline", {})
    BY <1>8 DEF Lookup
  <2>2. Answers("offline", {}) => req'.at = "offline"
    BY AnswerFields DEF Answers
  <2> QED
    BY <1>0, <2>1, <2>2, AnswerTrue, RequestFresh
<1>9. CASE ReadEntry
  <2> DEFINE ids == IF req.action = "startsession"
                    THEN Filtered(Entry(cache.session[AskedGame])) ELSE {}
  <2>1. req' = [req EXCEPT !.at = "readunlocks", !.got = ids]
    BY <1>9 DEF ReadEntry
  <2>2. ids \subseteq won \cap Of(AskedGame)
    BY ReqGot DEF CacheHoldsTruth, Filtered
  <2> HIDE DEF ids
  <2>3. req'.at = "readunlocks" /\ req'.got = ids /\ AskedGame' = AskedGame
    BY <2>1, AnswerFields
  <2> QED
    BY <2>2, <2>3 DEF RequestTold, ShownIsTrue, Of
<1>10. CASE ReadCached
  <2> DEFINE ids == req.got \cup Filtered(Entry(cache.unlocks[AskedGame]))
  <2>1. req' = [req EXCEPT !.at = "readqueue", !.got = ids]
    BY <1>10 DEF ReadCached
  <2>2. ids \subseteq won \cap Of(AskedGame)
    BY <1>10, ReqGot DEF ReadCached, CacheHoldsTruth, Filtered, RequestTold, Earned
  <2> HIDE DEF ids
  <2>3. req'.at = "readqueue" /\ req'.got = ids /\ AskedGame' = AskedGame
    BY <2>1, AnswerFields
  <2> QED
    BY <2>2, <2>3 DEF RequestTold, ShownIsTrue, Of
<1>11. CASE ReadPending
  <2>1. req.got \subseteq won \cap Of(AskedGame)
    BY <1>11 DEF ReadPending, RequestTold
  <2>2. Merged(req.got, AskedGame) \subseteq won \cap Of(AskedGame)
    BY <2>1 DEF Merged, Of, Earned, AnswerTypeOK
  <2> QED
    BY <1>11, <2>2, AnswerTrue DEF ReadPending
<1>12. CASE Delivered \/ AwardAccepted \/ AwardQueued
  <2>1. req' = NoRequest
    BY <1>12 DEF Delivered, AwardAccepted, AwardQueued
  <2> QED
    BY <1>0, <2>1, RequestFresh
<1>13. CASE AwardFails
  <2>1. req'.at \in {"queue", "idle"}
    BY <1>0, <1>13, TypeParts DEF AwardFails, Asks
  <2> QED
    BY <2>1, RequestFresh
<1> QED
  BY <1>1, <1>2, <1>3, <1>4, <1>5, <1>6, <1>7, <1>8, <1>9, <1>10, <1>11, <1>12, <1>13
     DEF RequestStep

\* So does every step.
LEMMA RequestTrueStep ==
  ASSUME AnswersTrue, [AnswerNext]_answerVars
  PROVE  RequestTold' /\ ShownIsTrue'
<1> USE Grows
<1>1. CASE req' = req
  BY <1>1, RequestStays
<1>2. CASE RequestStep
  BY <1>2, RequestHandled
<1>3. ASSUME NEW act \in Actions, NEW d \in Hashes, Ask(act, d) PROVE RequestTold' /\ ShownIsTrue'
  <2>1. req'.at \in {"forward", "read", "lookup", "done"}
    BY <1>3, NoRequestTyped, OfflinePlaces DEF Ask, Asks
  <2> QED
    BY <2>1, RequestFresh
<1>4. ASSUME NEW a \in Achievements, AskAward(a) PROVE RequestTold' /\ ShownIsTrue'
  <2>1. req'.at \in {"forward", "queue"}
    BY <1>4, NoRequestTyped DEF AskAward, Asks
  <2> QED
    BY <2>1, RequestFresh
<1>5. CASE \E j \in Workers : JobStep(j)
  BY <1>1, <1>5 DEF JobStep, FetchGameId, FetchPatch, FetchSets, Fetches, FetchUnlocks,
     StoreUnlocks, FetchFails, ReadUnlocks, ReadQueue, StoreSession, NextGame, Evict
<1>6. CASE \/ \E d \in Hashes : StartCaching(d)
           \/ StartRefresh \/ StartFlush \/ FlushSend \/ FlushRecord \/ DeleteAward \/ RemoveStep
           \/ ClearCache \/ \E g \in Games : StartRemoval(g)
           \/ LinkChanges \/ GoesIdle \/ WeekPasses \/ UNCHANGED answerVars
  BY <1>1, <1>6 DEF StartCaching, StartRefresh, StartFlush, FlushSend, FlushRecord, DeleteAward,
     RemoveStep, ClearCache, StartRemoval, LinkChanges, GoesIdle, WeekPasses, answerVars
<1> QED
  BY <1>2, <1>3, <1>4, <1>5, <1>6 DEF AnswerNext

\* No step drops an award, or sends one that was not earned.
LEMMA QueueStep ==
  ASSUME AnswersTrue, [AnswerNext]_answerVars
  PROVE  Earned' /\ NoAwardDropped'
<1> USE DEF AnswersTrue, Earned, NoAwardDropped
<1>1. CASE UNCHANGED <<server, pending, won, deleted>>
  BY <1>1
<1>2. CASE FlushSend
  BY <1>2 DEF FlushSend, FlushTold
<1>3. CASE FlushRecord
  BY <1>3 DEF FlushRecord, FlushTold, worldVars
<1>4. CASE DeleteAward
  BY <1>4 DEF DeleteAward
<1>5. CASE AwardAccepted
  BY <1>5 DEF AwardAccepted
<1>6. ASSUME AwardQueued PROVE Earned' /\ NoAwardDropped'
  <2>1. PICK a \in req.awarded :
          /\ pending' = IF AlreadyUnlocked(a) THEN pending ELSE pending \cup {a}
          /\ won' = won \cup {a} /\ UNCHANGED <<server, deleted>>
    BY <1>6 DEF AwardQueued
  <2>2. a \in Achievements /\ GameOf[a] \in Games
    BY ReqGot, Worlds
  <2>3. AlreadyUnlocked(a) => a \in server
    BY <2>2 DEF AlreadyUnlocked, CacheHoldsTruth, Filtered
  <2> QED
    BY <2>1, <2>3
<1>7. CASE \E j \in Workers : JobStep(j)
  BY <1>1, <1>7 DEF JobStep, FetchGameId, FetchPatch, FetchSets, Fetches, FetchUnlocks,
     StoreUnlocks, FetchFails, ReadUnlocks, ReadQueue, StoreSession, NextGame, Evict, worldVars
<1>8. CASE RequestStep
  BY <1>1, <1>5, <1>6, <1>8 DEF RequestStep, Forwarded, ForwardFails, Keep, ThenUnlocks,
     KeepSession, KeepUnlocks, Done, Lookup, ReadEntry, ReadCached, ReadPending, Delivered,
     AwardFails, worldVars
<1>9. CASE \/ \E d \in Hashes : StartCaching(d)
           \/ StartRefresh \/ StartFlush \/ RemoveStep \/ ClearCache
           \/ \E g \in Games : StartRemoval(g)
           \/ \E act \in Actions, d \in Hashes : Ask(act, d)
           \/ \E a \in Achievements : AskAward(a)
           \/ LinkChanges \/ GoesIdle \/ WeekPasses \/ UNCHANGED answerVars
  BY <1>1, <1>9 DEF StartCaching, StartRefresh, StartFlush, RemoveStep, ClearCache,
     StartRemoval, Ask, AskAward, LinkChanges, GoesIdle, WeekPasses, worldVars, answerVars
<1> QED
  BY <1>2, <1>3, <1>4, <1>7, <1>8, <1>9 DEF AnswerNext

\* The invariant holds at the start.
LEMMA TrueInit == AnswerInit => AnswersTrue
<1> SUFFICES ASSUME AnswerInit PROVE AnswersTrue
  OBVIOUS
<1>0. AnswerTypeOK
  BY TypesInit
<1>1. \A j \in AllWorkers : job[j] = NoJob
  BY DEF AnswerInit
<1>2. NoJob.todo = <<>> /\ NoJob.rest = {} /\ NoJob.send = {} /\ NoJob.sent = {}
      /\ <<>> \in Seq(Removals) /\ NoRequest.at = "idle"
  BY DEF NoJob, NoRequest
<1>3. (\A j \in AllWorkers : JobTold(j)) /\ MenuRemoves /\ FlushTold
  BY <1>1, <1>2, Worlds DEF JobTold, Head1, MenuRemoves, FlushTold
<1>4. RequestTold /\ ShownIsTrue
  BY <1>2 DEF AnswerInit, RequestTold, ShownIsTrue
<1>5. CacheHoldsTruth
  BY DEF AnswerInit, CacheHoldsTruth, EmptyCache, FullCache, Entry
<1>6. Earned /\ NoAwardDropped
  BY DEF AnswerInit, Earned, NoAwardDropped
<1> QED
  BY <1>0, <1>3, <1>4, <1>5, <1>6 DEF AnswersTrue

\* It is inductive.
LEMMA TrueStep == AnswersTrue /\ [AnswerNext]_answerVars => AnswersTrue'
<1> SUFFICES ASSUME AnswersTrue, [AnswerNext]_answerVars PROVE AnswersTrue'
  OBVIOUS
<1>1. AnswerTypeOK' /\ MenuRemoves'
  BY TypesStep, MenuStep DEF AnswersTrue
<1>2. \A j \in AllWorkers : JobTold(j)'
  BY JobsStep
<1> QED
  BY <1>1, <1>2, FlushStep, RequestTrueStep, QueueStep, CacheStep DEF AnswersTrue

\* So it is an invariant.
LEMMA AnswersStayTrue == AnswerSpec => []AnswersTrue
BY TrueInit, TrueStep, PTL DEF AnswerSpec

\* The entries of the cache say unlocked only what RetroAchievements has, and what was won.
THEOREM CachedIsTrue == AnswerSpec => []CacheHoldsTruth
<1>1. AnswersTrue => CacheHoldsTruth
  BY DEF AnswersTrue
<1> QED
  BY <1>1, AnswersStayTrue, PTL

\* An award the emulator was told of is at the server, in the queue, or was deleted by the user.
THEOREM NoneDropped == AnswerSpec => []NoAwardDropped
<1>1. AnswersTrue => NoAwardDropped
  BY DEF AnswersTrue
<1> QED
  BY <1>1, AnswersStayTrue, PTL

\* Whatever an answer shows was won, in the game that was asked about.
THEOREM OnlyWonIsShown == AnswerSpec => []ShownIsTrue
<1>1. AnswersTrue => ShownIsTrue
  BY DEF AnswersTrue
<1> QED
  BY <1>1, AnswersStayTrue, PTL

-----------------------------------------------------------------------------
(* A game cached completely is served offline.                                 *)

\* What was cached completely and not removed since is still complete, and nobody is
\* taking it apart.
Kept == \A d \in owned : d \in Complete(cache) /\ ~ Removing(GameOfHash[d])

ServesKept == AnswerTypeOK /\ MenuRemoves /\ Kept

\* What is complete stays so in a larger cache.
LEMMA CompleteGrows ==
  ASSUME NEW b, NEW c, b.gameid \subseteq c.gameid, b.patch \subseteq c.patch,
         b.sets \subseteq c.sets
  PROVE  Complete(b) \subseteq Complete(c)
BY DEF Complete

\* Storing a larger cache keeps what is kept.
LEMMA StoreKeeps ==
  ASSUME Kept, NEW c, Store(c), job'["menu"] = job["menu"],
         cache.gameid \subseteq c.gameid, cache.patch \subseteq c.patch,
         cache.sets \subseteq c.sets
  PROVE  Kept'
<1>1. Complete(cache) \subseteq Complete(c)
  BY CompleteGrows
<1>2. cache' = c /\ owned' = owned \cup {d \in Complete(c) : ~ Removing(GameOfHash[d])}
  BY DEF Store
<1>3. \A d \in owned' : d \in Complete(c) /\ ~ Removing(GameOfHash[d])
  BY <1>1, <1>2 DEF Kept
<1>4. Complete(cache)' = Complete(c)
  BY <1>2 DEF Complete
<1>5. \A g : Removing(g)' <=> Removing(g)
  BY DEF Removing
<1> QED
  BY <1>3, <1>4, <1>5 DEF Kept

\* The definitions and entries put into a cache make it no smaller.
LEMMA PutsKeep ==
  ASSUME AnswerTypeOK
  PROVE  /\ \A kind \in {"gameid", "patch", "sets"} : \A g, d :
               /\ cache.gameid \subseteq PutDefinition(kind, g, d).gameid
               /\ cache.patch \subseteq PutDefinition(kind, g, d).patch
               /\ cache.sets \subseteq PutDefinition(kind, g, d).sets
         /\ \A g, ids :
               /\ PutUnlocks(g, ids).gameid = cache.gameid /\ PutUnlocks(g, ids).patch = cache.patch
               /\ PutUnlocks(g, ids).sets = cache.sets
               /\ PutSession(g, ids).gameid = cache.gameid /\ PutSession(g, ids).patch = cache.patch
               /\ PutSession(g, ids).sets = cache.sets
BY TypeParts DEF PutDefinition, PutUnlocks, PutSession, Caches

\* A step that leaves the definitions alone takes nothing away.
LEMMA NothingTaken ==
  ASSUME Kept, job'["menu"] = job["menu"], owned' = owned,
         cache'.gameid = cache.gameid, cache'.patch = cache.patch, cache'.sets = cache.sets
  PROVE  Kept'
BY DEF Kept, Complete, Removing

\* Every step keeps it.
LEMMA KeptStep ==
  ASSUME ServesKept, [AnswerNext]_answerVars
  PROVE  Kept'
<1> USE Worlds, TypeParts DEF ServesKept
<1>1. CASE cache' = cache /\ owned' = owned /\ job'["menu"] = job["menu"]
  BY <1>1, NothingTaken
<1>2. ASSUME NEW j \in AllWorkers, JobStep(j) PROVE Kept'
  <2>0. job'["menu"] = job["menu"] /\ "menu" \in AllWorkers
    BY <1>2, NotTheMenu, OwnJob
  <2>1. ASSUME NEW kind \in {"gameid", "patch", "sets"}, Fetches(j, kind) PROVE Kept'
    BY <2>0, <2>1, PutsKeep, StoreKeeps DEF Fetches
  <2>2. CASE StoreUnlocks(j)
    BY <2>0, <2>2, PutsKeep, StoreKeeps DEF StoreUnlocks
  <2>3. CASE StoreSession(j)
    BY <2>0, <2>3, PutsKeep, StoreKeeps DEF StoreSession
  <2>4. CASE Evict
    <3>1. cache'.gameid = cache.gameid /\ cache'.patch = cache.patch /\ cache'.sets = cache.sets
          /\ owned' = owned
      BY <2>4 DEF Evict, Aged, Spared
    <3> QED
      BY <2>0, <3>1, NothingTaken
  <2>5. CASE FetchUnlocks(j) \/ FetchFails(j) \/ ReadUnlocks(j) \/ ReadQueue(j) \/ NextGame(j)
    BY <1>1, <2>0, <2>5 DEF FetchUnlocks, FetchFails, ReadUnlocks, ReadQueue, NextGame
  <2> QED
    BY <1>2, <2>1, <2>2, <2>3, <2>4, <2>5 DEF JobStep, FetchGameId, FetchPatch, FetchSets
<1>3. ASSUME Keep PROVE Kept'
  <2>0. job'["menu"] = job["menu"]
    BY <1>3 DEF Keep
  <2>1. ASSUME NEW kind \in {"gameid", "patch", "sets"},
               Store(PutDefinition(kind, AskedGame, req.hash))
        PROVE  Kept'
    BY <2>0, <2>1, PutsKeep, StoreKeeps
  <2>2. CASE Store(PutUnlocks(AskedGame, req.got))
    BY <2>0, <2>2, PutsKeep, StoreKeeps
  <2> QED
    BY <1>1, <1>3, <2>0, <2>1, <2>2 DEF Keep
<1>4. ASSUME KeepSession PROVE Kept'
  BY <1>4, PutsKeep, StoreKeeps DEF KeepSession
<1>5. ASSUME KeepUnlocks PROVE Kept'
  BY <1>5, PutsKeep, StoreKeeps DEF KeepUnlocks
<1>6. ASSUME AwardAccepted PROVE Kept'
  <2>1. PICK a : \/ job' = job
                 \/ job' = [job EXCEPT !["award"] = [NoJob EXCEPT !.todo = RefreshUnlocks,
                                                                 !.game = GameOf[a]]]
    BY <1>6 DEF AwardAccepted
  <2>2. job'["menu"] = job["menu"]
    BY <2>1
  <2> QED
    BY <1>1, <1>6, <2>2 DEF AwardAccepted
<1>7. CASE RequestStep
  BY <1>1, <1>3, <1>4, <1>5, <1>6, <1>7 DEF RequestStep, Forwarded, ForwardFails, ThenUnlocks,
     Done, Lookup, ReadEntry, ReadCached, ReadPending, Delivered, AwardFails, AwardQueued
<1>8. ASSUME StartFlush PROVE Kept'
  <2> DEFINE games == {GameOf[a] : a \in {a \in pending : KnownGame(a)}}
  <2>1. /\ Store([cache EXCEPT !.patch = @ \cup games])
        /\ job'["menu"] = job["menu"]
    BY <1>8 DEF StartFlush
  <2> DEFINE c == [cache EXCEPT !.patch = @ \cup games]
  <2> HIDE DEF games
  <2>2. c.gameid = cache.gameid /\ cache.patch \subseteq c.patch /\ c.sets = cache.sets
    BY DEF Caches
  <2>3. Store(c)
    BY <2>1
  <2> HIDE DEF c
  <2> QED
    BY <2>1, <2>2, <2>3, StoreKeeps
<1>9. ASSUME NEW g \in Games, StartRemoval(g) PROVE Kept'
  <2>1. job'["menu"] = [NoJob EXCEPT !.todo = RemoveGame, !.game = g]
    BY <1>9 DEF StartRemoval
  <2>2. job'["menu"].game = g
    BY <2>1 DEF NoJob
  <2>3. cache' = cache /\ owned' = {d \in owned : GameOfHash[d] # g}
    BY <1>9 DEF StartRemoval
  <2>4. \A d \in owned' : ~ Removing(GameOfHash[d])'
    BY <2>2, <2>3 DEF Removing
  <2>5. Complete(cache)' = Complete(cache)
    BY <2>3 DEF Complete
  <2> QED
    BY <2>3, <2>4, <2>5 DEF Kept
<1>10. ASSUME RemoveStep PROVE Kept'
  <2> DEFINE g == job["menu"].game
             others == {d \in Hashes : GameOfHash[d] # g}
  <2>1. Removing(g) /\ owned' = owned /\ Becomes("menu", Advance("menu")) /\ "menu" \in AllWorkers
    BY <1>10 DEF RemoveStep, Removing
  <2>2. \A d \in owned : d \in Complete(cache) /\ GameOfHash[d] # g /\ d \in others
    BY <2>1 DEF Kept, Complete
  <2>3. job'["menu"] = NoJob \/ job'["menu"] = Advance("menu")
    BY <2>1, BecomesThat
  <2>4. job'["menu"].todo # <<>> => job'["menu"].game = g
    <3>1. NoJob.todo = <<>> /\ Advance("menu").game = g
      BY <2>1 DEF NoJob, Advance, Jobs
    <3> QED
      BY <2>3, <3>1
  <2>5. \A d \in owned : ~ Removing(GameOfHash[d])'
    BY <2>2, <2>4 DEF Removing
  <2>6. Head1("menu") \in Removals
    BY <1>10 DEF RemoveStep, MenuRemoves, Head1
  <2>7. /\ cache.gameid \cap others \subseteq cache'.gameid
        /\ cache.patch \ {g} \subseteq cache'.patch
        /\ cache.sets \cap others \subseteq cache'.sets
    BY <1>10, <2>6 DEF RemoveStep, Caches, Removals
  <2>8. \A d \in owned : d \in Complete(cache')
    BY <2>2, <2>7 DEF Complete, Caches
  <2>9. Complete(cache)' = Complete(cache')
    BY DEF Complete
  <2> QED
    BY <2>1, <2>5, <2>8, <2>9 DEF Kept
<1>11. ASSUME ClearCache PROVE Kept'
  BY <1>11 DEF ClearCache, Kept
<1>12. CASE FlushSend \/ FlushRecord \/ StartRefresh \/ \E d \in Hashes : StartCaching(d)
  BY <1>1, <1>12 DEF FlushSend, FlushRecord, StartRefresh, StartCaching, Becomes, worldVars
<1>13. CASE \/ DeleteAward \/ \E act \in Actions, d \in Hashes : Ask(act, d)
            \/ \E a \in Achievements : AskAward(a)
            \/ LinkChanges \/ GoesIdle \/ WeekPasses \/ UNCHANGED answerVars
  BY <1>1, <1>13 DEF DeleteAward, Ask, AskAward, LinkChanges, GoesIdle, WeekPasses, answerVars
<1> QED
  BY <1>2, <1>7, <1>8, <1>9, <1>10, <1>11, <1>12, <1>13 DEF AnswerNext

\* Where an answer "offline" comes from.
LEMMA ServedStep ==
  ASSUME ServesKept, [AnswerNext]_answerVars, req.at # "offline", req'.at = "offline"
  PROVE  /\ req.action = "login" => ~ login
         /\ req.action \in {"gameid", "sets", "patch"} => req.hash \notin owned
<1> USE TypeParts DEF ServesKept
<1>0. req' # req /\ NoRequest.at = "idle"
  BY DEF NoRequest
<1>1. CASE Lookup
  <2>1. req.action = "ping" \/ ~ Held(req.action, req.hash)
    <3>1. req.action # "ping" /\ Held(req.action, req.hash)
            => req' = [req EXCEPT !.at = "ok", !.got = {}]
      BY <1>1 DEF Lookup, MayHold, Answers
    <3> QED
      BY <3>1, AnswerFields
  <2>2. req.hash \in Complete(cache) => SameGame(req.hash)
    BY DEF Complete, SameGame
  <2> QED
    BY <2>1, <2>2 DEF Held, LoginHeld, Kept, Complete
<1>2. CASE ForwardFails
  <2>1. CASE Answers("error", {})
    BY <1>0, <2>1, AnswerFields DEF Answers
  <2>2. CASE link = "down" /\ req.action \notin CachedActions
    BY <2>2 DEF CachedActions, Actions
  <2>3. CASE req' = [req EXCEPT !.at = IF req.action = "unlocks" THEN "read" ELSE "lookup"]
    BY <2>3 DEF Asks
  <2> QED
    BY <1>2, <2>1, <2>2, <2>3 DEF ForwardFails
<1>3. ASSUME NEW p, NEW ids, p # "offline",
             \/ req' = [req EXCEPT !.at = p, !.got = ids]
             \/ req' = [req EXCEPT !.got = ids, !.at = p]
      PROVE  FALSE
  BY <1>3, AnswerFields
<1>4. ASSUME NEW p, p # "offline", req' = [req EXCEPT !.at = p] PROVE FALSE
  BY <1>4 DEF Asks
<1>5. CASE \E j \in Workers : JobStep(j)
  BY <1>0, <1>5 DEF JobStep, FetchGameId, FetchPatch, FetchSets, Fetches, FetchUnlocks,
     StoreUnlocks, FetchFails, ReadUnlocks, ReadQueue, StoreSession, NextGame, Evict
<1>6. CASE \/ \E d \in Hashes : StartCaching(d)
           \/ StartRefresh \/ StartFlush \/ FlushSend \/ FlushRecord \/ DeleteAward \/ RemoveStep
           \/ ClearCache \/ \E g \in Games : StartRemoval(g)
           \/ LinkChanges \/ GoesIdle \/ WeekPasses \/ UNCHANGED answerVars
  BY <1>0, <1>6 DEF StartCaching, StartRefresh, StartFlush, FlushSend, FlushRecord, DeleteAward,
     RemoveStep, ClearCache, StartRemoval, LinkChanges, GoesIdle, WeekPasses, answerVars
<1>7. ASSUME NEW act \in Actions, NEW d \in Hashes, Ask(act, d) PROVE FALSE
  BY <1>7, NoRequestTyped, OfflinePlaces DEF Ask, Asks
<1>8. ASSUME NEW a \in Achievements, AskAward(a) PROVE FALSE
  BY <1>8, NoRequestTyped DEF AskAward, Asks
<1>9. CASE Delivered \/ AwardAccepted \/ AwardQueued \/ AwardFails
  <2>1. CASE req' = NoRequest
    BY <1>0, <2>1
  <2>2. CASE req' = [req EXCEPT !.at = "queue"]
    BY <1>4, <2>2
  <2> QED
    BY <1>9, <2>1, <2>2 DEF Delivered, AwardAccepted, AwardQueued, AwardFails
<1>10. CASE Forwarded
  BY <1>3, <1>10 DEF Forwarded
<1>11. CASE Keep \/ ThenUnlocks \/ KeepSession
  <2>1. CASE Answers("ok", {}) \/ Answers("ok", req.got)
    BY <1>3, <2>1 DEF Answers
  <2>2. CASE req' = [req EXCEPT !.at = "thenunlocks"] \/ req' = [req EXCEPT !.at = "keepunlocks"]
    BY <1>4, <2>2
  <2>3. CASE ThenUnlocks
    BY <1>3, <2>1, <2>3 DEF ThenUnlocks
  <2> QED
    BY <1>11, <2>1, <2>2, <2>3 DEF Keep, KeepSession
<1>12. CASE KeepUnlocks \/ Done \/ ReadEntry \/ ReadCached \/ ReadPending
  <2>1. CASE KeepUnlocks \/ Done \/ ReadPending
    <3>1. PICK ids : Answers("ok", ids)
      BY <2>1 DEF KeepUnlocks, Done, ReadPending
    <3> QED
      BY <1>3, <3>1 DEF Answers
  <2>2. CASE ReadEntry \/ ReadCached
    <3>1. \E p, ids : p # "offline" /\ req' = [req EXCEPT !.at = p, !.got = ids]
      BY <2>2 DEF ReadEntry, ReadCached
    <3> QED
      BY <1>3, <3>1
  <2> QED
    BY <1>12, <2>1, <2>2
<1>13. CASE RequestStep
  BY <1>1, <1>2, <1>9, <1>10, <1>11, <1>12, <1>13 DEF RequestStep
<1> QED
  BY <1>5, <1>6, <1>7, <1>8, <1>13 DEF AnswerNext

\* The lookup, the achievements and the sets of a game cached completely and not removed since,
\* and a login, are served offline whatever refreshes, evictions and failures came in between.
THEOREM CachedAreServed == AnswerSpec => CachedIsServed
<1>1. AnswerInit => ServesKept
  <2>1. AnswerInit => \A g : ~ Removing(g)
    BY DEF AnswerInit, Removing, NoJob, AllWorkers
  <2> QED
    BY <2>1, TrueInit DEF AnswerInit, Kept, ServesKept, AnswersTrue
<1>2. ServesKept /\ [AnswerNext]_answerVars => ServesKept'
  BY TypesStep, MenuStep, KeptStep DEF ServesKept
<1>3. ServesKept /\ [AnswerNext]_answerVars =>
        [req.at # "offline" /\ req'.at = "offline" =>
           /\ req.action = "login" => ~ login
           /\ req.action \in {"gameid", "sets", "patch"} => req.hash \notin owned]_answerVars
  BY ServedStep
<1> QED
  BY <1>1, <1>2, <1>3, PTL DEF AnswerSpec, CachedIsServed
=============================================================================
