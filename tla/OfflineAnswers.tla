--------------------------- MODULE OfflineAnswers ---------------------------
(* What an emulator is answered: live, or from what the cache holds.  The    *)
(* threads of the service and the menu fill the cache, award by award and    *)
(* game by game, while the emulator asks.  The queue itself is the module    *)
(* PendingAwards; here it is the set of what waits in it.                    *)
EXTENDS Integers, Sequences, FiniteSets

CONSTANTS
    Games, Hashes, Achievements,
    GameOfHash,         \* the game of a ROM's hash; two discs share one
    GameOf,             \* the game of an achievement
    Warning,            \* the id RetroAchievements adds for clients it does not know
    NoEntry,            \* an entry the cache does not hold
    Workers             \* who runs beside the emulator

AllWorkers == {"caching", "periodic", "flush", "award", "menu"}

ASSUME OfflineAssumption ==
    /\ Games # {} /\ Hashes # {}
    /\ GameOfHash \in [Hashes -> Games]
    /\ GameOf \in [Achievements -> Games]
    /\ Warning \notin Achievements
    /\ Workers \subseteq AllWorkers

VARIABLES
    link,               \* "up", "down", or "failing": the server answers errors
    believed,           \* reachable, as far as the service knows
    server,             \* achievements RetroAchievements has accepted
    cache,              \* the cached entries of games
    login,              \* is a login answer cached
    pending,            \* what waits in the queue
    played,             \* games played in the last seven days
    active,             \* was a game active in the last five minutes
    job,                \* what each worker still has to do
    req,                \* the request being handled
    won, deleted,       \* history: acknowledged, deleted by the user
    owned               \* history: hashes cached completely and not removed since

worldVars == <<link, server, won, deleted>>
answerVars == <<link, believed, server, cache, login, pending, played, active,
                job, req, won, deleted, owned>>

Unlocks == Achievements \cup {Warning}
Of(g) == {a \in Achievements : GameOf[a] = g}
Actions == {"login", "gameid", "sets", "patch", "unlocks", "startsession", "ping"}

-----------------------------------------------------------------------------
(* The cache                                                                 *)

EmptyCache == [gameid |-> {}, patch |-> {}, sets |-> {},
               unlocks |-> [g \in Games |-> NoEntry],
               session |-> [g \in Games |-> NoEntry]]

FullCache == [gameid |-> Hashes, patch |-> Games, sets |-> Hashes,
              unlocks |-> [g \in Games |-> {}], session |-> [g \in Games |-> {}]]

KeepsWarning(ids) == ids
Filtered(ids) == ids \ {Warning}

Entry(e) == IF e = NoEntry THEN {} ELSE e

(* Where find_achievement_game_ids looks: patches, then achievement sets. *)
KnownGame(a) ==
    \/ GameOf[a] \in cache.patch
    \/ \E d \in cache.sets : GameOfHash[d] = GameOf[a]

AnyGame(cached, g) == cached \cup {a \in pending : KnownGame(a)}
Merged(cached, g) ==
    cached \cup {a \in pending : KnownGame(a) /\ GameOf[a] = g}

Complete(c) ==
    {d \in Hashes : /\ d \in c.gameid
                    /\ GameOfHash[d] \in c.patch
                    /\ \E e \in c.sets : GameOfHash[e] = GameOfHash[d]}

Removing(g) == job["menu"].game = g /\ job["menu"].todo # <<>>

(* Every change of the cache goes through here, to keep the history. *)
Store(c) ==
    /\ cache' = c
    /\ owned' = owned \cup {d \in Complete(c) : ~ Removing(GameOfHash[d])}

(* One of the jobs' steps done, for all it takes. *)
PutDefinition(kind, g, d) ==
    CASE kind = "gameid" -> [cache EXCEPT !.gameid = @ \cup {d}]
      [] kind = "patch"  -> [cache EXCEPT !.patch = @ \cup {g}]
      [] kind = "sets"   -> [cache EXCEPT !.sets = @ \cup {d}]

PutUnlocks(g, ids) == [cache EXCEPT !.unlocks[g] = Filtered(ids)]
PutSession(g, ids) == [cache EXCEPT !.session[g] = ids]

-----------------------------------------------------------------------------
(* Jobs: a sequence of steps for one game, then for the rest of the games.   *)

NoJob == [todo |-> <<>>, game |-> CHOOSE g \in Games : TRUE,
          hash |-> CHOOSE d \in Hashes : TRUE, rest |-> {},
          phase |-> 0, got |-> {}, send |-> {}, sent |-> {}]

Free(j) == job[j] = NoJob
Head1(j) == IF job[j].todo = <<>> THEN "none" ELSE Head(job[j].todo)
Advance(j) == [job[j] EXCEPT !.todo = Tail(@), !.phase = 0, !.got = {}]
LastStep(j) == IF j = "periodic" THEN <<"evict">> ELSE <<>>
Drop(j) == [job[j] EXCEPT !.todo = LastStep(j), !.phase = 0, !.got = {}]
Becomes(j, r) ==
    job' = [job EXCEPT ![j] =
              IF r.todo = <<>> /\ r.rest = {} /\ r.send = {} /\ r.sent = {} THEN NoJob ELSE r]

CacheGame == <<"patch", "unlocks", "sets", "session">>
RefreshGame == <<"patch", "unlocks", "session">>
RefreshUnlocks == <<"unlocks", "session">>
RemoveGame == <<"-patch", "-unlocks", "-session", "-played", "-sets", "-gameid">>

Requests == {"gameid", "patch", "unlocks", "sets"}

(* Three requests whose answers never change. *)
Fetches(j, kind) ==
    /\ Head1(j) = kind /\ link = "up"
    /\ Store(PutDefinition(kind, job[j].game, job[j].hash))
    /\ Becomes(j, Advance(j))
    /\ believed' = TRUE
    /\ UNCHANGED <<worldVars, login, pending, played, active, req>>

FetchGameId(j) == Fetches(j, "gameid")
FetchPatch(j) == Fetches(j, "patch")
FetchSets(j) == Fetches(j, "sets")

(* cache_unlocks asks, and stores what was true when the server answered. *)
FetchUnlocks(j) ==
    /\ Head1(j) = "unlocks" /\ job[j].phase = 0 /\ link = "up"
    /\ job' = [job EXCEPT ![j].phase = 1,
                          ![j].got = (server \cap Of(job[j].game)) \cup {Warning}]
    /\ believed' = TRUE
    /\ UNCHANGED <<worldVars, cache, login, pending, played, active, req, owned>>

StoreUnlocks(j) ==
    /\ Head1(j) = "unlocks" /\ job[j].phase = 1
    /\ Store(PutUnlocks(job[j].game, job[j].got))
    /\ Becomes(j, Advance(j))
    /\ UNCHANGED <<worldVars, believed, login, pending, played, active, req>>

(* A step that fails: the patch and the lookup raise, the others return nothing. *)
FetchFails(j) ==
    /\ Head1(j) \in Requests /\ job[j].phase = 0 /\ link # "up"
    /\ Becomes(j, IF Head1(j) \in {"gameid", "patch"} THEN Drop(j) ELSE Advance(j))
    /\ believed' = FALSE
    /\ UNCHANGED <<worldVars, cache, login, pending, played, active, req, owned>>

(* cache_session builds the answer of a later offline start: it reads the     *)
(* cached unlocks, then the queue, then it writes.                            *)
ReadUnlocks(j) ==
    /\ Head1(j) = "session" /\ job[j].phase = 0
    /\ job' = [job EXCEPT ![j].phase = 1, ![j].got = Filtered(Entry(cache.unlocks[job[j].game]))]
    /\ UNCHANGED <<worldVars, believed, cache, login, pending, played, active, req, owned>>

ReadQueue(j) ==
    /\ Head1(j) = "session" /\ job[j].phase = 1
    /\ job' = [job EXCEPT ![j].phase = 2, ![j].got = Merged(@, job[j].game)]
    /\ UNCHANGED <<worldVars, believed, cache, login, pending, played, active, req, owned>>

StoreSession(j) ==
    /\ Head1(j) = "session" /\ job[j].phase = 2
    /\ Store(PutSession(job[j].game, job[j].got))
    /\ Becomes(j, Advance(j))
    /\ UNCHANGED <<worldVars, believed, login, pending, played, active, req>>

-----------------------------------------------------------------------------
(* Who starts them                                                           *)

(* cache_queued_rom: a ROM from the queue, or added by hand.  What counts as  *)
(* cached was read when the drain began.                                      *)
StartCaching(d) ==
    LET g == GameOfHash[d]
        ask == IF d \in cache.gameid THEN <<>> ELSE <<"gameid">>
        fetch == IF g \in cache.patch THEN <<>> ELSE CacheGame
    IN /\ "caching" \in Workers /\ Free("caching") /\ login
       /\ ask \o fetch # <<>>
       /\ job' = [job EXCEPT !["caching"] = [NoJob EXCEPT !.todo = ask \o fetch,
                                                          !.game = g, !.hash = d]]
       /\ UNCHANGED <<worldVars, believed, cache, login, pending, played, active, req, owned>>

(* PeriodicRefresh.run: online, a login, no activity; the games played lately, *)
(* one after the other, then what is old.  It stops when a game is played.     *)
NoneDue == {}
DueGames == cache.patch \cap played

StartRefresh ==
    /\ "periodic" \in Workers /\ Free("periodic") /\ login
    /\ link = "up" /\ ~ active
    /\ believed' = TRUE
    /\ job' = [job EXCEPT !["periodic"] = [NoJob EXCEPT !.rest = DueGames, !.todo = <<"evict">>]]
    /\ UNCHANGED <<worldVars, cache, login, pending, played, active, req, owned>>

Program(j) == IF j = "periodic" THEN RefreshGame ELSE RefreshUnlocks

NextGame(j) ==
    /\ job[j].todo = LastStep(j) /\ job[j].send = {} /\ job[j].sent = {} /\ job[j].rest # {}
    /\ j = "periodic" => ~ active
    /\ \E g \in job[j].rest :
         job' = [job EXCEPT ![j].game = g, ![j].rest = @ \ {g}, ![j].phase = 0,
                            ![j].todo = Program(j) \o LastStep(j)]
    /\ UNCHANGED <<worldVars, believed, cache, login, pending, played, active, req, owned>>

(* evict_cache_older_than: entries may have any age, but a game's are spared. *)
SparesAnswers == {"patch", "sets", "unlocks", "session"}
Spared == {"gameid", "patch", "sets", "unlocks", "session"}

Aged(kind) ==
    CASE kind \in Spared -> {cache[kind]}
      [] kind \notin Spared /\ kind \in {"unlocks", "session"} -> {cache[kind], EmptyCache[kind]}
      [] OTHER -> SUBSET cache[kind]

Evict ==
    /\ Head1("periodic") = "evict" /\ (job["periodic"].rest = {} \/ active)
    /\ cache' \in [gameid : Aged("gameid"), patch : Aged("patch"), sets : Aged("sets"),
                   unlocks : Aged("unlocks"), session : Aged("session")]
    /\ played' \in SUBSET played
    /\ job' = [job EXCEPT !["periodic"] = NoJob]
    /\ UNCHANGED <<worldVars, believed, login, pending, active, req, owned>>

(* flush_pending_awards: fetch the patches of the games it knows, send what     *)
(* waits, record it, and if anything went through refresh those games.         *)
StartFlush ==
    LET games == {GameOf[a] : a \in {a \in pending : KnownGame(a)}}
    IN /\ "flush" \in Workers /\ Free("flush") /\ login
       /\ link = "up" /\ pending # {}
       /\ believed' = TRUE
       /\ Store([cache EXCEPT !.patch = @ \cup games])
       /\ job' = [job EXCEPT !["flush"] = [NoJob EXCEPT !.send = pending, !.rest = games]]
       /\ UNCHANGED <<worldVars, login, pending, played, active, req>>

FlushSend ==
    LET flush == job["flush"] IN
    \E a \in flush.send :
       LET left == flush.send \ {a} IN
       /\ flush.sent = {}
       /\ IF link = "up"
          THEN /\ server' = server \cup {a}
               /\ job' = [job EXCEPT !["flush"].send = left, !["flush"].sent = {a}]
          ELSE /\ Becomes("flush", [flush EXCEPT !.send = left,
                             !.rest = IF left = {} /\ flush.phase = 0 THEN {} ELSE @])
               /\ UNCHANGED server
       /\ believed' = (link = "up")
       /\ UNCHANGED <<link, cache, login, pending, played, active, req, won, deleted, owned>>

FlushRecord ==
    \E a \in job["flush"].sent :
       /\ pending' = pending \ {a}
       /\ Becomes("flush", [job["flush"] EXCEPT !.sent = {}, !.phase = 1])
       /\ UNCHANGED <<worldVars, believed, cache, login, played, active, req, owned>>

(* The menu deletes an award, or a game with all its entries, one by one. *)
DeleteAward ==
    \E a \in pending :
       /\ pending' = pending \ {a}
       /\ deleted' = deleted \cup {a}
       /\ UNCHANGED <<link, believed, server, cache, login, played, active, job, req, won, owned>>

StartRemoval(g) ==
    /\ "menu" \in Workers /\ Free("menu") /\ g \in cache.patch
    /\ job' = [job EXCEPT !["menu"] = [NoJob EXCEPT !.todo = RemoveGame, !.game = g]]
    /\ owned' = {d \in owned : GameOfHash[d] # g}
    /\ UNCHANGED <<worldVars, believed, cache, login, pending, played, active, req>>

RemoveStep ==
    LET g == job["menu"].game
        others == {d \in Hashes : GameOfHash[d] # g}
    IN /\ job["menu"].todo # <<>>
       /\ cache' = CASE Head1("menu") = "-patch"   -> [cache EXCEPT !.patch = @ \ {g}]
                     [] Head1("menu") = "-unlocks" -> [cache EXCEPT !.unlocks[g] = NoEntry]
                     [] Head1("menu") = "-session" -> [cache EXCEPT !.session[g] = NoEntry]
                     [] Head1("menu") = "-played"  -> cache
                     [] Head1("menu") = "-sets"    -> [cache EXCEPT !.sets = @ \cap others]
                     [] Head1("menu") = "-gameid"  -> [cache EXCEPT !.gameid = @ \cap others]
       /\ played' = IF Head1("menu") = "-played" THEN played \ {g} ELSE played
       /\ Becomes("menu", Advance("menu"))
       /\ UNCHANGED <<worldVars, believed, login, pending, active, req, owned>>

(* clear_cache keeps the login. *)
ClearCache ==
    /\ "menu" \in Workers /\ Free("menu") /\ cache # EmptyCache
    /\ cache' = EmptyCache /\ played' = {} /\ owned' = {}
    /\ UNCHANGED <<worldVars, believed, login, pending, active, job, req>>

-----------------------------------------------------------------------------
(* The emulator's requests                                                   *)

(* Where a request stands, and once it is "ok", "offline" or "error", its answer. *)
NoRequest == [at |-> "idle", action |-> "ping", hash |-> CHOOSE d \in Hashes : TRUE,
              got |-> {}, awarded |-> {}]
Outcomes == {"ok", "offline", "error"}

AskedGame == GameOfHash[req.hash]

(* is_online: a belief younger than 30 s counts, otherwise the server is probed. *)
SaysOnline == {link # "down"} \cup (IF believed THEN {TRUE} ELSE {})

Answers(is, ids) == req' = [req EXCEPT !.at = is, !.got = ids]

Delivered ==
    /\ req.at \in Outcomes
    /\ req' = NoRequest
    /\ UNCHANGED <<worldVars, believed, cache, login, pending, played, active, job, owned>>

(* note_game_request, record_game_activity: a request with a game's id is play. *)
NotesGame(act) == act \notin {"login", "gameid", "sets"}
PlayedBy(act, d) == IF act \in {"ping", "startsession"} THEN {GameOfHash[d]} ELSE {}

(* process_proxy_request: forward it, or answer from the cache.  A login is    *)
(* tried upstream whatever the probe says; a ping that finds no link is told   *)
(* it succeeded.                                                               *)
OfflinePlace(act) ==
    CASE act = "login" -> "forward"
      [] act = "ping" -> "done"
      [] act \in {"unlocks", "startsession"} -> "read"
      [] OTHER -> "lookup"

Ask(act, d) ==
    /\ req = NoRequest
    /\ \E online \in SaysOnline :
         /\ believed' = online
         /\ req' = [NoRequest EXCEPT !.action = act, !.hash = d,
                      !.at = IF online THEN "forward" ELSE OfflinePlace(act)]
    /\ active' = (active \/ NotesGame(act))
    /\ played' = played \cup PlayedBy(act, d)
    /\ UNCHANGED <<worldVars, cache, login, pending, job, owned>>

(* handle_online_request when the server answers. *)
Forwarded ==
    /\ req.at = "forward" /\ req.action # "award" /\ link = "up"
    /\ believed' = TRUE
    /\ LET live == (server \cap Of(AskedGame)) \cup {Warning}
       IN req' = [req EXCEPT !.got = Filtered(live),
                             !.at = CASE req.action = "ping" -> "done"
                                      [] req.action = "startsession" -> "keepsession"
                                      [] OTHER -> "keep"]
    /\ UNCHANGED <<worldVars, cache, login, pending, played, active, job, owned>>

(* should_cache_action: what handle_offline_request looks up; it refuses the rest. *)
CachedActions == Actions \ {"startsession"}

(* An HTTP error of the server is the emulator's answer; without an answer the *)
(* cache is tried.                                                             *)
ForwardFails ==
    /\ req.at = "forward" /\ req.action # "award" /\ link # "up"
    /\ believed' = FALSE
    /\ \/ link = "failing" /\ Answers("error", {})
       \/ link = "down" /\ req.action \notin CachedActions /\ Answers("offline", {})
       \/ link = "down" /\ req.action \in CachedActions
          /\ req' = [req EXCEPT !.at = IF req.action = "unlocks" THEN "read" ELSE "lookup"]
    /\ UNCHANGED <<worldVars, cache, login, pending, played, active, job, owned>>

(* What is kept of a live answer.  A patch is followed by the game's unlocks.  *)
Keep ==
    /\ req.at = "keep"
    /\ \/ req.action = "login" /\ login' = TRUE /\ Answers("ok", {})
          /\ UNCHANGED <<cache, owned>>
       \/ /\ req.action \in {"gameid", "sets"}
          /\ Store(PutDefinition(req.action, AskedGame, req.hash))
          /\ Answers("ok", {}) /\ UNCHANGED login
       \/ /\ req.action = "patch"
          /\ Store(PutDefinition("patch", AskedGame, req.hash))
          /\ req' = [req EXCEPT !.at = "thenunlocks"] /\ UNCHANGED login
       \/ /\ req.action = "unlocks"
          /\ Store(PutUnlocks(AskedGame, req.got))
          /\ Answers("ok", req.got) /\ UNCHANGED login
    /\ UNCHANGED <<worldVars, believed, pending, played, active, job>>

ThenUnlocks ==
    /\ req.at = "thenunlocks"
    /\ IF link = "up"
       THEN /\ req' = [req EXCEPT !.got = (server \cap Of(AskedGame)) \cup {Warning},
                                  !.at = "keepunlocks"]
         ELSE Answers("ok", {})
    /\ believed' = (link = "up")
    /\ UNCHANGED <<worldVars, cache, login, pending, played, active, job, owned>>

KeepSession ==
    /\ req.at = "keepsession"
    /\ Store(PutSession(AskedGame, req.got))
    /\ req' = [req EXCEPT !.at = "keepunlocks"]
    /\ UNCHANGED <<worldVars, believed, login, pending, played, active, job>>

(* refresh_unlocks_from_start_session, and the end of a patch. *)
KeepUnlocks ==
    /\ req.at = "keepunlocks"
    /\ Store(PutUnlocks(AskedGame, req.got))
    /\ Answers("ok", IF req.action = "startsession" THEN req.got ELSE {})
    /\ UNCHANGED <<worldVars, believed, login, pending, played, active, job>>

Done ==
    /\ req.at = "done"
    /\ Answers("ok", {})
    /\ UNCHANGED <<worldVars, believed, cache, login, pending, played, active, job, owned>>

(* _achievementsets_for_same_game: another disc of a game whose id is cached. *)
SameGame(d) == d \in cache.gameid /\ \E e \in cache.sets : GameOfHash[e] = GameOfHash[d]

(* handle_offline_login *)
LoginHeld == login

Held(act, d) ==
    CASE act = "login"  -> LoginHeld
      [] act = "gameid" -> d \in cache.gameid
      [] act = "patch"  -> GameOfHash[d] \in cache.patch
      [] act = "sets"   -> d \in cache.sets \/ SameGame(d)

(* The answers of earlier pings are cached too, and evicted: any may be there. *)
MayHold(act, d) == IF act = "ping" THEN BOOLEAN ELSE {Held(act, d)}

(* handle_offline_request and handle_offline_login: the cached answer, or none. *)
Lookup ==
    /\ req.at = "lookup"
    /\ \E held \in MayHold(req.action, req.hash) :
          Answers(IF held THEN "ok" ELSE "offline", {})
    /\ UNCHANGED <<worldVars, believed, cache, login, pending, played, active, job, owned>>

(* build_offline_unlocks_response and build_offline_start_session_response:    *)
(* the entry, the cached unlocks, then the queue.                              *)
ReadEntry ==
    /\ req.at = "read"
    /\ req' = [req EXCEPT !.at = "readunlocks",
                          !.got = IF req.action = "startsession"
                                  THEN Filtered(Entry(cache.session[AskedGame])) ELSE {}]
    /\ UNCHANGED <<worldVars, believed, cache, login, pending, played, active, job, owned>>

ReadCached ==
    /\ req.at = "readunlocks"
    /\ req' = [req EXCEPT !.at = "readqueue",
                          !.got = @ \cup Filtered(Entry(cache.unlocks[AskedGame]))]
    /\ UNCHANGED <<worldVars, believed, cache, login, pending, played, active, job, owned>>

ReadPending ==
    /\ req.at = "readqueue"
    /\ Answers("ok", Merged(req.got, AskedGame))
    /\ UNCHANGED <<worldVars, believed, cache, login, pending, played, active, job, owned>>

-----------------------------------------------------------------------------
(* Awards                                                                    *)

AskAward(a) ==
    /\ req = NoRequest
    /\ \E online \in SaysOnline :
         /\ believed' = online
         /\ req' = [NoRequest EXCEPT !.action = "award", !.awarded = {a},
                                     !.at = IF online THEN "forward" ELSE "queue"]
    /\ UNCHANGED <<worldVars, cache, login, pending, played, active, job, owned>>

(* Accepted live: a thread refreshes the game's unlocks after three seconds. *)
AwardAccepted ==
    \E a \in req.awarded :
       /\ req.at = "forward" /\ link = "up"
       /\ believed' = TRUE
       /\ server' = server \cup {a}
       /\ won' = won \cup {a}
       /\ req' = NoRequest
       /\ job' = IF "award" \in Workers /\ Free("award") /\ KnownGame(a)
                 THEN [job EXCEPT !["award"] = [NoJob EXCEPT !.todo = RefreshUnlocks,
                                                             !.game = GameOf[a]]]
                 ELSE job
       /\ UNCHANGED <<link, cache, login, pending, played, active, deleted, owned>>

AwardFails ==
    /\ req.awarded # {} /\ req.at = "forward" /\ link # "up"
    /\ believed' = FALSE
    /\ req' = IF link = "down" THEN [req EXCEPT !.at = "queue"] ELSE NoRequest
    /\ UNCHANGED <<worldVars, cache, login, pending, played, active, job, owned>>

(* queue_award: one that is queued, or unlocked as far as the cache knows, is  *)
(* not queued again, and is a success all the same.                            *)
AnyUnlocked(a) == KnownGame(a) /\ cache.unlocks[GameOf[a]] # NoEntry
AlreadyUnlocked(a) == KnownGame(a) /\ a \in Filtered(Entry(cache.unlocks[GameOf[a]]))

AwardQueued ==
    \E a \in req.awarded :
       /\ req.at = "queue"
       /\ pending' = IF AlreadyUnlocked(a) THEN pending ELSE pending \cup {a}
       /\ won' = won \cup {a}
       /\ req' = NoRequest
       /\ UNCHANGED <<link, believed, server, cache, login, played, active, job, deleted, owned>>

-----------------------------------------------------------------------------
(* The world                                                                 *)

LinkChanges ==
    \E l \in {"up", "down", "failing"} :
       /\ link' = l /\ l # link
       /\ UNCHANGED <<believed, server, cache, login, pending, played, active, job, req,
                      won, deleted, owned>>

(* GameActivityTracker: five minutes without a game's request. *)
GoesIdle ==
    /\ active /\ active' = FALSE
    /\ UNCHANGED <<worldVars, believed, cache, login, pending, played, job, req, owned>>

WeekPasses ==
    \E g \in played :
       /\ played' = played \ {g}
       /\ UNCHANGED <<worldVars, believed, cache, login, pending, active, job, req, owned>>

AnswerInit ==
    /\ link = "up" /\ believed = FALSE /\ server \in SUBSET Achievements
    /\ cache \in {EmptyCache, FullCache} /\ login \in BOOLEAN /\ pending = {}
    /\ played = {} /\ active = FALSE
    /\ job = [j \in AllWorkers |-> NoJob]
    /\ req = NoRequest
    /\ won = server /\ deleted = {} /\ owned = Complete(cache)

JobStep(j) ==
    \/ FetchGameId(j) \/ FetchPatch(j) \/ FetchSets(j) \/ FetchUnlocks(j) \/ StoreUnlocks(j) \/ FetchFails(j)
    \/ ReadUnlocks(j) \/ ReadQueue(j) \/ StoreSession(j) \/ NextGame(j)
    \/ j = "periodic" /\ Evict

RequestStep ==
    \/ Forwarded \/ ForwardFails \/ Keep \/ ThenUnlocks \/ KeepSession \/ KeepUnlocks \/ Done
    \/ Lookup \/ ReadEntry \/ ReadCached \/ ReadPending
    \/ Delivered \/ AwardAccepted \/ AwardFails \/ AwardQueued

AnswerNext ==
    \/ \E j \in Workers : JobStep(j)
    \/ \E d \in Hashes : StartCaching(d)
    \/ StartRefresh
    \/ StartFlush \/ FlushSend \/ FlushRecord
    \/ DeleteAward \/ \E g \in Games : StartRemoval(g)
    \/ RemoveStep \/ ClearCache
    \/ \E act \in Actions, d \in Hashes : Ask(act, d)
    \/ \E a \in Achievements : AskAward(a)
    \/ RequestStep
    \/ LinkChanges \/ GoesIdle \/ WeekPasses

(* The refresh thread runs every hour, and a thread goes on. *)
AnswerFairness ==
    /\ WF_answerVars(StartRefresh) /\ WF_answerVars(RequestStep) /\ WF_answerVars(GoesIdle)
    /\ \A j \in Workers : WF_answerVars(JobStep(j))

AnswerSpec == AnswerInit /\ [][AnswerNext]_answerVars /\ AnswerFairness

-----------------------------------------------------------------------------
(* Properties                                                                *)

(* Types. *)
Entries == (SUBSET Unlocks) \cup {NoEntry}
StepNames == {"gameid", "patch", "unlocks", "sets", "session", "evict", "-gameid", "-patch",
              "-unlocks", "-sets", "-session", "-played"}

AnswerTypeOK ==
    /\ link \in {"up", "down", "failing"} /\ believed \in BOOLEAN /\ login \in BOOLEAN
    /\ {server, pending, won, deleted} \subseteq SUBSET Achievements
    /\ cache \in [gameid : SUBSET Hashes, patch : SUBSET Games, sets : SUBSET Hashes,
                  unlocks : [Games -> Entries], session : [Games -> Entries]]
    /\ played \subseteq Games /\ active \in BOOLEAN /\ owned \subseteq Hashes
    /\ job \in [AllWorkers -> [todo : Seq(StepNames), game : Games, hash : Hashes,
                               rest : SUBSET Games, phase : 0 .. 2, got : SUBSET Unlocks,
                               send : SUBSET Achievements, sent : SUBSET Achievements]]
    /\ req \in [at : {"idle", "forward", "lookup", "read", "readunlocks", "readqueue", "keep",
                      "keepsession", "thenunlocks", "keepunlocks", "done", "queue"} \cup Outcomes,
                action : Actions \cup {"award"}, hash : Hashes, got : SUBSET Unlocks,
                awarded : SUBSET Achievements]

(* What the cache says is unlocked really is, for the game it says it of, and  *)
(* the id RetroAchievements adds is never among it: whoever writes an entry,   *)
(* and however long ago it read what it writes.                                *)
CacheHoldsTruth ==
    \A g \in Games :
       /\ Entry(cache.unlocks[g]) \subseteq server \cap Of(g)
       /\ Entry(cache.session[g]) \subseteq won \cap Of(g)

(* An award the emulator was told of is queued, was sent, or was deleted by    *)
(* the user: taking one for unlocked because the cache says so loses none.     *)
NoAwardDropped == won \subseteq server \cup pending \cup deleted

(* An answer shows only achievements of its game that were earned.             *)
ShownIsTrue == req.at = "ok" => req.got \subseteq won \cap Of(AskedGame)

(* What the cache is asked for of a game cached completely and not removed     *)
(* since is served without a link, whatever refreshes, evictions and failures  *)
(* came in between: its lookup, its achievements and its sets; a login as      *)
(* well.  Unlocks are never refused.  A ping or the start of a session may be, *)
(* when it meets the outage itself, after the service believed it was online.  *)
CachedIsServed ==
    [][req.at # "offline" /\ req'.at = "offline" =>
         /\ req.action = "login" => ~ login
         /\ req.action \in {"gameid", "sets", "patch"} => req.hash \notin owned]_answerVars

(* What the code does not keep: the same of the request that starts a session, *)
(* "cached offline launch sequence survives stale online startup"              *)
(* (tests/test_linux_proxy_cache_keys.py:835).                                 *)
LaunchSurvives ==
    [][req.at # "offline" /\ req'.at = "offline" /\ req.action = "startsession" =>
         req.hash \notin owned]_answerVars

(* A ROM is reported as cached only with the lookup, the achievements and the  *)
(* unlocks of its game.                                                        *)
CachedIsComplete ==
    [][Head1("caching") = "session" /\ job'["caching"] = NoJob =>
         /\ job["caching"].hash \in cache.gameid
         /\ job["caching"].game \in cache.patch
         /\ cache.unlocks[job["caching"].game] # NoEntry]_answerVars

(* Once the connection holds and the emulator rests, the hourly refresh brings *)
(* the unlocks of a game played lately up to date, and they stay so, though    *)
(* older answers may have been stored over newer ones.                         *)
Resting(g) ==
    /\ link = "up" /\ ~ active /\ req = NoRequest /\ login
    /\ g \in cache.patch \cap played /\ Free("menu")
CatchesUp ==
    \A g \in Games :
       (<>[]Resting(g)) => <>[](server \cap Of(g) \subseteq Entry(cache.unlocks[g]))
=============================================================================
