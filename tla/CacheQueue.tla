----------------------------- MODULE CacheQueue -----------------------------
(***************************************************************************)
(* The caching queue on Linux and Windows: ROMs waiting to be looked up    *)
(* and cached within a budget, and everything that fills or drains it.     *)
(*                                                                         *)
(*   - Worker, the service's thread that drains it (CacheQueueWorker),     *)
(*   - Scans, the service's thread that queues watched folders,            *)
(*   - Bulks, a folder or Smart Cache run of the menu or the CLI,          *)
(*   - Adds, one ROM cached by hand.                                       *)
(*                                                                         *)
(* Bulks and Adds are processes of their own; Storage is shared, and two   *)
(* file locks arbitrate: drain_lock (one drain at a time, free while a     *)
(* drain waits for its pace) and bulk_run_lock, held shared while a run    *)
(* fills and drains, which makes Worker and Scans stand down.              *)
(*                                                                         *)
(* Time is kept relative to now, which is 0: a tick moves every stored     *)
(* time back by one, down to Past, where it no longer matters.  A ROM has  *)
(* one hash and is named by it, as its queue row is.                       *)
(***************************************************************************)
EXTENDS BudgetWindow, FiniteSets, Sequences

CONSTANTS
    Roms, Games,
    GameOf,        \* RetroAchievements' answer for a ROM
    NoGame, NoRom, Nobody,
    Worker, Bulks, Scans, Adds,
    Wants,         \* the ROMs a Bulk is given, the folder of a Scan, the ROM of an Add
    CacheNow,      \* the Bulks that drain a first batch themselves
    Removable,     \* games the user may delete
    Burst,         \* CACHE_BURST_GAMES
    PauseTicks,    \* RATE_LIMIT_PAUSE_MS
    MaxAttempts,   \* CACHE_QUEUE_MAX_ATTEMPTS
    MaxFaults      \* bound on 429s, refused logins, crashes and games played

Runs == Bulks \cup Scans \cup Adds
Callers == Runs \cup {Worker}
Past == -Window

ASSUME QueueAssumption ==
    /\ GameOf \in [Roms -> Games \cup {NoGame}] /\ NoGame \notin Games
    /\ NoRom \notin Roms /\ Nobody \notin Callers /\ Worker \notin Runs
    /\ Bulks \cap Scans = {} /\ Bulks \cap Adds = {} /\ Scans \cap Adds = {}
    /\ Wants \in [Runs -> SUBSET Roms] /\ \A c \in Adds : \E k \in Roms : Wants[c] = {k}
    /\ CacheNow \subseteq Bulks /\ Removable \subseteq Games
    /\ Burst \in Nat \ {0} /\ PauseTicks \in Nat \ {0} /\ PauseTicks <= Window
    /\ MaxAttempts \in Nat \ {0} /\ MaxFaults \in Nat

VARIABLES
    queue,     \* cachequeue: rows, in the order of firstCachedAt
    lookup,    \* gameid: rows, the stored answers per hash
    patch,     \* patch: rows, each with the ROM its game was cached from
    budget,    \* the cachebudget row
    seen,      \* watchseen: rows
    rescan,    \* ticks until the watched folder is due
    lock,      \* who holds drain_lock
    run,       \* what each caller is doing
    limited,   \* per process: ticks that rate_limit's own pause still lasts
    busy,      \* a game is played, or the service is offline
    faults,    \* history: what MaxFaults bounds
    fate,      \* history: what last became of a ROM's row
    sentAt,    \* history: when a game was last fetched for a ROM
    fetched,   \* history: games fetched, the ones removed since left out
    removed,   \* history: games the user deleted
    lost,      \* history: crashes between caching a game and charging it
    quiet      \* history: ticks left of the pause that a 429 to the queue asks for

stored == <<queue, lookup, patch, budget, seen>>
history == <<fate, sentAt, fetched, removed, lost, quiet>>
vars == <<stored, history, rescan, lock, run, limited, busy, faults>>

-----------------------------------------------------------------------------
(* The queue. *)

Keys(q) == {q[i].key : i \in DOMAIN q}
Place(q, k) == CHOOSE i \in DOMAIN q : q[i].key = k

\* Storage.upsert_cache keeps firstCachedAt, and so a row's place.
Put(q, row) ==
    IF row.key \in Keys(q)
    THEN [q EXCEPT ![Place(q, row.key)] = row]
    ELSE Append(q, row)

\* The members of s that are in S, in their order.
Those(s, S) ==
    LET kept[n \in 0..Len(s)] ==
          IF n = 0 THEN <<>>
          ELSE IF s[n] \in S THEN Append(kept[n - 1], s[n]) ELSE kept[n - 1]
    IN  kept[Len(s)]

Without(q, ks) == Those(q, {q[i] : i \in {j \in DOMAIN q : q[j].key \notin ks}})

CachedGames == {g \in Games : patch[g] # NoRom}

\* remember_source_rom_path: only a game that is cached gets the ROM's path.
WithPath(g, k) == IF patch[g] # NoRom THEN [patch EXCEPT ![g] = k] ELSE patch

\* local_game_id_answer.
NoMatch(k) == lookup[k] = "miss"
KnownTo(games, k) == lookup[k] = "hit" /\ GameOf[k] \in games

\* known_rom_paths: files already queued, or that a cached game came from.
KnownPaths == Keys(queue) \cup {patch[g] : g \in CachedGames}

-----------------------------------------------------------------------------
(* Who may go on. *)

HoldingBulkLock ==
    {"fill", "put", "wait", "check", "pick", "ask", "charge", "settle", "pace", "cancel"}
Draining == {"check", "pick", "ask", "charge", "settle"}
BulkRunActive == \E c \in Runs : run[c].pc \in HoldingBulkLock
CanWork == ~BulkRunActive /\ ~busy

ShouldPause(c) ==
    \/ c = Worker /\ ~CanWork
    \/ c \in Bulks /\ run[c].abort

\* Where a caller goes on when its drain ends, or when it took no part in one.
AfterDrain(c) == CASE c = Worker -> "off" [] c \in Bulks -> "cancel" [] OTHER -> "finish"

Idle == [pc |-> "off", todo |-> {}, rom |-> NoRom, attempts |-> 0, wanted |-> {},
         mine |-> {}, keys |-> <<>>, known |-> {}, sent |-> 0, paced |-> FALSE,
         age |-> 0, outcome |-> "none", abort |-> FALSE, handled |-> {}]

Init ==
    /\ queue = <<>> /\ lookup = [k \in Roms |-> "unknown"]
    /\ patch = [g \in Games |-> NoRom]
    /\ budget = [start |-> Past, used |-> 0, paused |-> Past]
    /\ seen = {} /\ rescan = 0 /\ lock = Nobody
    /\ run = [c \in Callers |-> Idle] /\ limited = [c \in Callers |-> 0]
    /\ busy = FALSE /\ faults = 0
    /\ fate = [k \in Roms |-> "none"]
    /\ sentAt = [k \in Roms |-> Past] /\ fetched = {} /\ removed = {}
    /\ lost = 0 /\ quiet = 0

-----------------------------------------------------------------------------
(* Filling the queue: run_cache_paths, scan_folder, add_rom_to_cache. *)

BulkStart(c) ==
    /\ c \in Bulks /\ run[c].pc = "off"
    /\ run' = [run EXCEPT ![c].pc = "fill", ![c].todo = Wants[c], ![c].known = CachedGames]
    /\ UNCHANGED <<stored, history, rescan, lock, limited, busy, faults>>

\* Files already queued or cached are marked seen at once, the rest is handed
\* to a run.  A folder without new files is complete.
ScanStart(c) ==
    LET unseen == Wants[c] \ seen
        new == unseen \ KnownPaths
    IN  /\ c \in Scans /\ run[c].pc = "off" /\ rescan = 0 /\ CanWork
        /\ seen' = seen \cup (unseen \cap KnownPaths)
        /\ IF new = {}
           THEN rescan' = Window /\ UNCHANGED run
           ELSE /\ run' = [run EXCEPT ![c] = [Idle EXCEPT !.pc = "fill", !.todo = new,
                                                          !.known = CachedGames]]
                /\ UNCHANGED rescan
        /\ UNCHANGED <<queue, lookup, patch, budget, history, lock, limited, busy,
                       faults>>

\* A Scan is asked to stop while a game is played; being offline does not stop it.
AskedToStop(c) == IF c \in Scans THEN busy ELSE run[c].abort

\* Every ROM hashes; one that the cache answers is not queued.
Skip(c) ==
    /\ c \in Bulks \cup Scans /\ run[c].pc = "fill"
    /\ c \in Bulks => ~AskedToStop(c)
    /\ \E k \in run[c].todo :
         /\ NoMatch(k) \/ KnownTo(run[c].known, k)
         /\ run' = [run EXCEPT ![c].todo = @ \ {k}, 
                               ![c].handled = IF c \in Scans THEN @ \cup {k} ELSE @]
    /\ UNCHANGED <<stored, history, rescan, lock, limited, busy, faults>>

\* enqueue reads the row first: a ROM that already waits stays as it is.
EnqueueRead(c) ==
    /\ c \in Bulks \cup Scans /\ run[c].pc = "fill"
    /\ c \in Bulks => ~AskedToStop(c)
    /\ \E k \in run[c].todo :
         /\ ~NoMatch(k) /\ ~KnownTo(run[c].known, k)
         /\ run' = [run EXCEPT ![c].todo = @ \ {k}, ![c].wanted = @ \cup {k},
                               ![c].keys = IF c \in CacheNow THEN Append(@, k) ELSE @,
                               ![c].rom = IF k \in Keys(queue) THEN NoRom ELSE k,
                               ![c].pc = IF k \in Keys(queue) THEN "fill" ELSE "put"]
    /\ UNCHANGED <<stored, history, rescan, lock, limited, busy, faults>>

EnqueueWrite(c) ==
    LET k == run[c].rom
    IN  /\ run[c].pc = "put"
        /\ queue' = Put(queue, [key |-> k, attempts |-> 0])
        /\ fate' = [fate EXCEPT ![k] = "queued"]
        /\ run' = [run EXCEPT ![c].mine = @ \cup {k}, ![c].rom = NoRom,
                              ![c].pc = IF c \in Adds THEN "wait" ELSE "fill"]
        /\ UNCHANGED <<lookup, patch, budget, seen, sentAt, fetched, removed,
                       lost, quiet, rescan, lock, limited, busy, faults>>

FillEnd(c) ==
    /\ c \in Bulks \cup Scans /\ run[c].pc = "fill"
    /\ run[c].todo = {} \/ AskedToStop(c)
    /\ run' = [run EXCEPT ![c].pc =
         IF c \in CacheNow /\ ~AskedToStop(c) /\ run[c].wanted # {} THEN "wait" ELSE "cancel"]
    /\ UNCHANGED <<stored, history, rescan, lock, limited, busy, faults>>

\* A ROM the cache answers ends the call; one that waits already is not queued again.
AddStart(c) ==
    /\ c \in Adds /\ run[c].pc = "off"
    /\ \E k \in Wants[c] :
         IF NoMatch(k) \/ KnownTo(CachedGames, k)
         THEN /\ run' = [run EXCEPT ![c].pc = "done"]
              /\ patch' = IF NoMatch(k) THEN patch ELSE WithPath(GameOf[k], k)
         ELSE /\ run' = [run EXCEPT ![c].rom = IF k \in Keys(queue) THEN NoRom ELSE k,
                                    ![c].wanted = {k}, ![c].keys = <<k>>,
                                    ![c].pc = IF k \in Keys(queue) THEN "wait" ELSE "put"]
              /\ UNCHANGED patch
    /\ UNCHANGED <<queue, lookup, budget, seen, history, rescan, lock, limited, busy,
                   faults>>

-----------------------------------------------------------------------------
(* Draining it: drain_cache_queue and _drain_locked. *)

BeginDrain(c) ==
    /\ lock' = c
    /\ run' = [run EXCEPT ![c].pc = "check", ![c].known = CachedGames, ![c].sent = 0,
                          ![c].paced = FALSE, ![c].age = 0, ![c].outcome = "none"]
    /\ UNCHANGED <<stored, history, rescan, limited, busy, faults>>

\* The service takes the lock only if it is free.
WorkerStart ==
    /\ run[Worker].pc = "off" /\ queue # <<>>
    /\ NextAvailable(budget, 0) <= 0 /\ CanWork
    /\ lock = Nobody /\ BeginDrain(Worker)

\* A run waits for it.
TakeLock(c) ==
    /\ run[c].pc = "wait" /\ lock = Nobody
    /\ BeginDrain(c)

StopWaiting(c) ==
    /\ run[c].pc = "wait" /\ lock # Nobody /\ ShouldPause(c)
    /\ run' = [run EXCEPT ![c].pc = AfterDrain(c)]
    /\ UNCHANGED <<stored, history, rescan, lock, limited, busy, faults>>

\* Mutant of StopDrain: the lock is not let go.
StopsLocked(c, outcome) ==
    /\ run' = IF c = Worker
              THEN [run EXCEPT ![c] = Idle]
              ELSE [run EXCEPT ![c].pc = AfterDrain(c), ![c].outcome = outcome]
    /\ UNCHANGED lock

StopDrain(c, outcome) ==
    /\ run' = IF c = Worker
              THEN [run EXCEPT ![c] = Idle]
              ELSE [run EXCEPT ![c] = [@ EXCEPT !.pc = AfterDrain(c), !.outcome = outcome,
                                          !.rom = NoRom, !.attempts = 0, !.keys = <<>>,
                                          !.known = {}, !.sent = 0, !.paced = FALSE, !.age = 0]]
    /\ lock' = Nobody

DrainPaused(c) ==
    /\ run[c].pc = "check" /\ ShouldPause(c)
    /\ StopDrain(c, run[c].outcome)
    /\ UNCHANGED <<stored, history, rescan, limited, busy, faults>>

DrainLimited(c) ==
    /\ run[c].pc = "check" /\ ~ShouldPause(c) /\ limited[c] > 0
    /\ budget' = PausedUntil(budget, limited[c])
    /\ StopDrain(c, run[c].outcome)
    /\ UNCHANGED <<queue, lookup, patch, seen, history, rescan, limited, busy, faults>>

DrainTimeLimit(c) ==
    /\ run[c].pc = "check" /\ ~ShouldPause(c) /\ limited[c] = 0 /\ run[c].age >= Window
    /\ StopDrain(c, run[c].outcome)
    /\ UNCHANGED <<stored, history, rescan, limited, busy, faults>>

DrainGoOn(c) ==
    /\ run[c].pc = "check" /\ ~ShouldPause(c) /\ limited[c] = 0 /\ run[c].age < Window
    /\ run' = [run EXCEPT ![c].pc = "pick"]
    /\ UNCHANGED <<stored, history, rescan, lock, limited, busy, faults>>

\* next_rom: Worker takes the oldest row; a run the first of its keys that still waits.
Candidates(c) ==
    IF c = Worker
    THEN [i \in DOMAIN queue |-> queue[i].key]
    ELSE Those(run[c].keys, Keys(queue))

NextRom(c) == Head(Candidates(c))

\* Keys that no longer wait are dropped from the front for good.
KeysLeft(c) ==
    LET gone == {i \in DOMAIN run[c].keys :
                   \A j \in 1..i : run[c].keys[j] \notin Keys(queue)}
    IN  SubSeq(run[c].keys, Cardinality(gone) + 1, Len(run[c].keys))

NothingLeft(c) ==
    /\ run[c].pc = "pick" /\ Candidates(c) = <<>>
    /\ StopDrain(c, run[c].outcome)
    /\ UNCHANGED <<stored, history, rescan, limited, busy, faults>>

\* What the cache answers costs no request.
AnsweredLocally(c) ==
    /\ run[c].pc = "pick" /\ Candidates(c) # <<>>
    /\ LET k == NextRom(c)
       IN  /\ NoMatch(k) \/ KnownTo(run[c].known, k)
           /\ queue' = Without(queue, {k})
           /\ patch' = IF NoMatch(k) THEN patch ELSE WithPath(GameOf[k], k)
           /\ run' = [run EXCEPT ![c].pc = "check", ![c].keys = KeysLeft(c),
                                 ![c].wanted = @ \ {k},
                                 ![c].outcome = IF NoMatch(k) THEN "nomatch" ELSE "already"]
    /\ UNCHANGED <<lookup, budget, seen, history, rescan, lock, limited, busy, faults>>

NeedsRequest(c) ==
    /\ run[c].pc = "pick" /\ Candidates(c) # <<>>
    /\ ~NoMatch(NextRom(c)) /\ ~KnownTo(run[c].known, NextRom(c))

BudgetExhausted(c) ==
    /\ NeedsRequest(c) /\ Remaining(budget, 0) = 0
    /\ StopDrain(c, run[c].outcome)
    /\ UNCHANGED <<stored, history, rescan, limited, busy, faults>>

PastBurst(c) == run[c].sent >= Burst \/ Current(budget, 0).used >= Burst
MustPace(c) == run[c].sent > 0 /\ ~run[c].paced /\ PastBurst(c)

\* The lock is free while a drain waits for its pace; the wait ends at any later time.
PaceBegin(c) ==
    /\ NeedsRequest(c) /\ Remaining(budget, 0) > 0 /\ MustPace(c)
    /\ lock' = Nobody
    /\ run' = [run EXCEPT ![c].pc = "pace", ![c].keys = KeysLeft(c)]
    /\ UNCHANGED <<stored, history, rescan, limited, busy, faults>>

\* Mutants of PaceEnd: known_game_ids is not brought up to date; the lock is not
\* waited for.
PaceForgets(c) ==
    /\ run[c].pc = "pace" /\ ~ShouldPause(c) /\ lock = Nobody
    /\ lock' = c
    /\ run' = [run EXCEPT ![c].pc = "check", ![c].paced = TRUE]
    /\ UNCHANGED <<stored, history, rescan, limited, busy, faults>>
PaceBargesIn(c) ==
    /\ run[c].pc = "pace" /\ ~ShouldPause(c)
    /\ lock' = c
    /\ run' = [run EXCEPT ![c].pc = "check", ![c].known = @ \cup CachedGames,
                          ![c].paced = TRUE]
    /\ UNCHANGED <<stored, history, rescan, limited, busy, faults>>

PaceEnd(c) ==
    /\ run[c].pc = "pace" /\ ~ShouldPause(c) /\ lock = Nobody
    /\ lock' = c
    /\ run' = [run EXCEPT ![c].pc = "check", ![c].known = @ \cup CachedGames,
                          ![c].paced = TRUE]
    /\ UNCHANGED <<stored, history, rescan, limited, busy, faults>>

PaceGivenUp(c) ==
    /\ run[c].pc = "pace" /\ ShouldPause(c)
    /\ run' = [run EXCEPT ![c] = IF c = Worker THEN Idle ELSE [@ EXCEPT !.pc = AfterDrain(c)]]
    /\ UNCHANGED <<stored, history, rescan, lock, limited, busy, faults>>

\* The row is read here and written back, if the request fails, from this copy.
Request(c) ==
    /\ NeedsRequest(c) /\ Remaining(budget, 0) > 0 /\ ~MustPace(c)
    /\ LET k == NextRom(c)
       IN  run' = [run EXCEPT ![c].pc = "ask", ![c].keys = KeysLeft(c), ![c].rom = k,
                              ![c].attempts = queue[Place(queue, k)].attempts,
                              ![c].paced = FALSE,
                              ![c].sent = IF @ < Burst THEN @ + 1 ELSE @]
    /\ UNCHANGED <<stored, history, rescan, lock, limited, busy, faults>>

-----------------------------------------------------------------------------
(* One request: cache_queued_rom, and what _drain_locked makes of it. *)

Asked(c) == GameOf[run[c].rom]
HitIfAny(c) == [lookup EXCEPT ![run[c].rom] = IF Asked(c) = NoGame THEN @ ELSE "hit"]

\* Mutant of Answer: a cached game is not charged.
ForgetsCharge(c, outcome) ==
    /\ run[c].pc = "ask"
    /\ run' = [run EXCEPT ![c].outcome = outcome, ![c].pc = "settle"]

Answer(c, outcome) ==
    /\ run[c].pc = "ask"
    /\ run' = [run EXCEPT ![c].outcome = outcome,
                          ![c].pc = IF outcome = "cached" THEN "charge" ELSE "settle"]

\* A 429: this process remembers the pause, the others learn of it from the budget.
AnsweredWith429(c) ==
    /\ faults < MaxFaults /\ faults' = faults + 1
    /\ limited' = [limited EXCEPT ![c] = PauseTicks]
    /\ quiet' = PauseTicks

NotLimited == UNCHANGED <<faults, limited, quiet>>

\* The lookup fails, or the game's data does after the lookup was stored.
AnswerFailed(c) ==
    /\ Answer(c, "failed")
    /\ lookup' \in {lookup, HitIfAny(c)}
    /\ AnsweredWith429(c) \/ NotLimited
    /\ UNCHANGED <<queue, patch, budget, seen, fate, sentAt, fetched,
                   removed, lost, rescan, lock, busy>>

AnswerAuthRejected(c) ==
    /\ Answer(c, "auth")
    /\ faults < MaxFaults /\ faults' = faults + 1
    /\ lookup' \in {lookup, HitIfAny(c)}
    /\ UNCHANGED <<queue, patch, budget, seen, history, rescan, lock, limited, busy>>

AnswerNoMatch(c) ==
    /\ Answer(c, "nomatch") /\ Asked(c) = NoGame
    /\ lookup' = [lookup EXCEPT ![run[c].rom] = "miss"]
    /\ UNCHANGED <<queue, patch, budget, seen, history, rescan, lock, limited, busy,
                   faults>>

AnswerKnown(c) ==
    /\ Answer(c, "already") /\ Asked(c) \in run[c].known
    /\ lookup' = HitIfAny(c)
    /\ patch' = WithPath(Asked(c), run[c].rom)
    /\ UNCHANGED <<queue, budget, seen, history, rescan, lock, limited, busy, faults>>

\* cache_game needs the patch only: when the unlocks and the achievement sets fail to
\* load, also with a 429, the game is cached without them.
AnswerCached(c) ==
    LET g == Asked(c)
    IN  /\ Answer(c, "cached") /\ g # NoGame /\ g \notin run[c].known
        /\ lookup' = HitIfAny(c)
        /\ patch' = [patch EXCEPT ![g] = run[c].rom]
        /\ AnsweredWith429(c) \/ NotLimited
        /\ sentAt' = [sentAt EXCEPT ![run[c].rom] = 0]
        /\ fetched' = fetched \cup {g}
        /\ UNCHANGED <<queue, budget, seen, fate, removed, lost, rescan, lock, busy>>

ChargeGame(c) ==
    /\ run[c].pc = "charge"
    /\ budget' = Charge(budget, 0)
    /\ run' = [run EXCEPT ![c].pc = "settle"]
    /\ UNCHANGED <<queue, lookup, patch, seen, history, rescan, lock, limited, busy,
                   faults>>

\* A pause ends the drain before the ROM is taken from the queue or blamed.
SettleLimited(c) ==
    /\ run[c].pc = "settle" /\ limited[c] > 0
    /\ budget' = PausedUntil(budget, limited[c])
    /\ StopDrain(c, "none")
    /\ UNCHANGED <<queue, lookup, patch, seen, history, rescan, limited, busy, faults>>

\* Mutant of SettleAuthRejected: the ROM is taken from the queue.
BlamesRom(c) ==
    /\ run[c].pc = "settle" /\ limited[c] = 0 /\ run[c].outcome = "auth"
    /\ StopDrain(c, "auth")
    /\ queue' = Without(queue, {run[c].rom})
    /\ UNCHANGED <<lookup, patch, budget, seen, history, rescan, limited, busy, faults>>

SettleAuthRejected(c) ==
    /\ run[c].pc = "settle" /\ limited[c] = 0 /\ run[c].outcome = "auth"
    /\ StopDrain(c, "auth")
    /\ UNCHANGED <<stored, history, rescan, limited, busy, faults>>

\* A mutant of AfterFailedAttempt: the attempt is not counted.
Uncounted(c) == [key |-> run[c].rom, attempts |-> run[c].attempts]

AfterFailedAttempt(c) == [key |-> run[c].rom, attempts |-> run[c].attempts + 1]
IsSpent(row) == row.attempts >= MaxAttempts

\* record_failed_attempt: the copy read before the request goes back, one attempt older.
SettleFailed(c) ==
    LET k == run[c].rom
        row == AfterFailedAttempt(c)
    IN  /\ run[c].pc = "settle" /\ limited[c] = 0 /\ run[c].outcome = "failed"
        /\ IF IsSpent(row)
           THEN queue' = Without(queue, {k}) /\ fate' = [fate EXCEPT ![k] = "dropped"]
           ELSE queue' = Put(queue, row) /\ UNCHANGED fate
        /\ StopDrain(c, "failed")
        /\ UNCHANGED <<lookup, patch, budget, seen, sentAt, fetched, removed,
                       lost, quiet, rescan, limited, busy, faults>>

SettleDone(c) ==
    LET k == run[c].rom
    IN  /\ run[c].pc = "settle" /\ limited[c] = 0
        /\ run[c].outcome \in {"cached", "already", "nomatch"}
        /\ queue' = Without(queue, {k})
        /\ run' = [run EXCEPT ![c].pc = "check", ![c].wanted = @ \ {k},
                              ![c].rom = NoRom, ![c].attempts = 0,
                              ![c].known = IF run[c].outcome = "cached"
                                           THEN @ \cup {GameOf[k]} ELSE @]
        /\ UNCHANGED <<lookup, patch, budget, seen, history, rescan, lock, limited,
                       busy, faults>>

-----------------------------------------------------------------------------
(* What a run does after its drain. *)

Done == [Idle EXCEPT !.pc = "done"]

\* An aborted run takes back the rows it queued.
Cancel(c) ==
    /\ c \in Bulks \cup Scans /\ run[c].pc = "cancel"
    /\ IF AskedToStop(c)
       THEN /\ queue' = Without(queue, run[c].mine)
            /\ fate' = [k \in Roms |-> IF k \in run[c].mine THEN "cancelled" ELSE fate[k]]
       ELSE UNCHANGED <<queue, fate>>
    /\ run' = [run EXCEPT ![c].pc = "report", ![c].abort = AskedToStop(c)]
    /\ UNCHANGED <<lookup, patch, budget, seen, sentAt, fetched, removed,
                   lost, quiet, rescan, lock, limited, busy, faults>>

BulkReport(c) ==
    /\ c \in Bulks /\ run[c].pc = "report"
    /\ run' = [run EXCEPT ![c] = Done]
    /\ UNCHANGED <<stored, history, rescan, lock, limited, busy, faults>>

\* Every file a Scan heard a result for is handled; it is complete if that is all of them.
ScanReport(c) ==
    LET r == run[c]
        reported == IF r.abort THEN r.wanted \cap Keys(queue) ELSE r.wanted
    IN  /\ c \in Scans /\ r.pc = "report"
        /\ seen' = seen \cup r.handled \cup reported
        /\ rescan' = IF r.todo = {} /\ reported = r.wanted THEN Window ELSE rescan
        /\ run' = [run EXCEPT ![c] = Idle]
        /\ UNCHANGED <<queue, lookup, patch, budget, history, lock, limited, busy,
                       faults>>

\* A ROM cached by hand stays queued unless RetroAchievements or the login refused it.
AddFinish(c) ==
    LET r == run[c]
        refused == r.outcome \in {"auth", "failed"}
    IN  /\ c \in Adds /\ r.pc = "finish"
        /\ IF refused
           THEN /\ queue' = Without(queue, r.mine)
                /\ fate' = [k \in Roms |-> IF k \in r.mine THEN "refused" ELSE fate[k]]
           ELSE UNCHANGED <<queue, fate>>
        /\ run' = [run EXCEPT ![c] = Done]
        /\ UNCHANGED <<lookup, patch, budget, seen, sentAt, fetched, removed, lost,
                       quiet, rescan, lock, limited, busy, faults>>

-----------------------------------------------------------------------------
(* The user, the clock, and what ends a process. *)

Abort(c) ==
    /\ c \in Bulks /\ run[c].pc \in HoldingBulkLock /\ ~run[c].abort
    /\ run' = [run EXCEPT ![c].abort = TRUE]
    /\ UNCHANGED <<stored, history, rescan, lock, limited, busy, faults>>

\* The game's rows go, the stored lookups that name it last.
RemoveGame(g) ==
    /\ g \in Removable \cap CachedGames /\ g \notin removed
    /\ patch' = [patch EXCEPT ![g] = NoRom]
    /\ lookup' = [k \in Roms |->
                   IF GameOf[k] = g /\ lookup[k] = "hit" THEN "unknown" ELSE lookup[k]]
    /\ removed' = removed \cup {g} /\ fetched' = fetched \ {g}
    /\ UNCHANGED <<queue, budget, seen, fate, sentAt, lost, quiet, rescan, lock, run,
                   limited, busy, faults>>

Play ==
    /\ faults < MaxFaults /\ ~busy
    /\ busy' = TRUE /\ faults' = faults + 1
    /\ UNCHANGED <<stored, history, rescan, lock, run, limited>>

PlayEnds ==
    /\ busy /\ busy' = FALSE
    /\ UNCHANGED <<stored, history, rescan, lock, run, limited, faults>>

\* Another thread of the service, forwarding for the emulator or refreshing a game,
\* is answered with a 429: the whole process remembers it.
ServiceLimited ==
    /\ faults < MaxFaults /\ faults' = faults + 1
    /\ limited' = [limited EXCEPT ![Worker] = PauseTicks]
    /\ UNCHANGED <<stored, history, rescan, lock, run, busy>>

Before(t) == IF t > Past THEN t - 1 ELSE t
Less(n) == IF n > 0 THEN n - 1 ELSE 0

Tick ==
    /\ budget' = [budget EXCEPT !.start = Before(@), !.paused = Before(@)]
    /\ sentAt' = [k \in Roms |-> Before(sentAt[k])]
    /\ limited' = [c \in Callers |-> Less(limited[c])]
    /\ quiet' = Less(quiet) /\ rescan' = Less(rescan)
    /\ run' = [c \in Callers |->
                 IF run[c].pc \in Draining \cup {"pace"} /\ run[c].age < Window
                 THEN [run[c] EXCEPT !.age = @ + 1] ELSE run[c]]
    /\ UNCHANGED <<queue, lookup, patch, seen, fate, fetched, removed, lost,
                   lock, busy, faults>>

\* Seven days on, when nothing runs, a stored miss no longer answers.
MissExpires ==
    /\ lock = Nobody /\ \A c \in Callers : run[c].pc \in {"off", "done"}
    /\ budget.start = Past /\ budget.paused = Past /\ rescan = 0
    /\ \A c \in Callers : limited[c] = 0
    /\ \A k \in Roms : sentAt[k] = Past
    /\ \E k \in Roms : lookup[k] = "miss" /\ lookup' = [lookup EXCEPT ![k] = "expired"]
    /\ UNCHANGED <<queue, patch, budget, seen, history, rescan, lock, run, limited,
                   busy, faults>>

\* The system frees the locks of a process that dies, and the rows stay.  A 429
\* that was not yet stored is forgotten with the process.
Dies(procs) ==
    /\ faults < MaxFaults /\ faults' = faults + 1
    /\ \E c \in procs : run[c].pc \notin {"off", "done"}
    /\ run' = [c \in Callers |-> IF c \notin procs THEN run[c]
                                 ELSE IF c \in Bulks \cup Adds THEN Done ELSE Idle]
    /\ lock' = IF lock \in procs THEN Nobody ELSE lock
    /\ limited' = [c \in Callers |-> IF c \in procs THEN 0 ELSE limited[c]]
    /\ lost' = lost + Cardinality({c \in procs : run[c].pc = "charge"})
    /\ quiet' = IF \E c \in procs : limited[c] > 0 /\ run[c].pc \in {"charge", "settle"}
                THEN 0 ELSE quiet
    /\ UNCHANGED <<stored, fate, sentAt, fetched, removed, rescan, busy>>

RunDies(c) == c \in Bulks \cup Adds /\ Dies({c})
ServiceDies == Dies(Scans \cup {Worker})

-----------------------------------------------------------------------------
DrainStep(c) ==
    \/ DrainPaused(c) \/ DrainLimited(c) \/ DrainTimeLimit(c) \/ DrainGoOn(c)
    \/ NothingLeft(c) \/ AnsweredLocally(c) \/ BudgetExhausted(c) \/ PaceBegin(c)
    \/ PaceEnd(c) \/ PaceGivenUp(c) \/ Request(c)
    \/ AnswerFailed(c) \/ AnswerAuthRejected(c) \/ AnswerNoMatch(c) \/ AnswerKnown(c)
    \/ AnswerCached(c) \/ ChargeGame(c)
    \/ SettleLimited(c) \/ SettleAuthRejected(c) \/ SettleFailed(c) \/ SettleDone(c)

RunStep(c) ==
    \/ Skip(c) \/ EnqueueRead(c) \/ EnqueueWrite(c) \/ FillEnd(c)
    \/ TakeLock(c) \/ StopWaiting(c) \/ DrainStep(c)
    \/ Cancel(c) \/ BulkReport(c) \/ ScanReport(c) \/ AddFinish(c)

Next ==
    \/ \E c \in Runs : BulkStart(c) \/ ScanStart(c) \/ AddStart(c) \/ RunStep(c)
                       \/ Abort(c) \/ RunDies(c)
    \/ WorkerStart \/ DrainStep(Worker)
    \/ \E g \in Games : RemoveGame(g)
    \/ Play \/ PlayEnds \/ ServiceLimited \/ Tick \/ MissExpires \/ ServiceDies

\* Threads that can run do, time passes, a game ends.  SF: a drain that took the
\* lock looks at its first ROM within the half hour, unless the device sleeps,
\* and it does not sleep each time.
Fairness ==
    /\ \A c \in Runs : WF_vars(RunStep(c))
    /\ \A c \in Scans : WF_vars(ScanStart(c))
    /\ WF_vars(WorkerStart) /\ WF_vars(DrainStep(Worker)) /\ SF_vars(DrainGoOn(Worker))
    /\ WF_vars(Tick) /\ WF_vars(PlayEnds)

Spec == Init /\ [][Next]_vars
FairSpec == Spec /\ Fairness

-----------------------------------------------------------------------------
(* Types. *)

Pcs == {"off", "fill", "put", "wait", "check", "pick", "ask", "charge", "settle", "pace",
        "cancel", "report", "finish", "done"}
Outcomes == {"none", "cached", "already", "nomatch", "failed", "auth"}
RunRecord == [pc : Pcs, todo : SUBSET Roms, rom : Roms \cup {NoRom}, attempts : Nat,
              wanted : SUBSET Roms, mine : SUBSET Roms, keys : Seq(Roms),
              known : SUBSET Games, sent : Nat, paced : BOOLEAN, age : Nat,
              outcome : Outcomes, abort : BOOLEAN, handled : SUBSET Roms]

\* Every variable stays in its type; a row never carries MaxAttempts failures.
TypeOK ==
    /\ queue \in Seq([key : Roms, attempts : 0..(MaxAttempts - 1)])
    /\ lookup \in [Roms -> {"unknown", "hit", "miss", "expired"}]
    /\ patch \in [Games -> Roms \cup {NoRom}]
    /\ budget \in BudgetRecord /\ seen \subseteq Roms /\ rescan \in Nat
    /\ lock \in Callers \cup {Nobody} /\ run \in [Callers -> RunRecord]
    /\ limited \in [Callers -> Nat] /\ busy \in BOOLEAN /\ faults \in Nat
    /\ fate \in [Roms -> {"none", "queued", "dropped", "cancelled", "refused"}]
    /\ sentAt \in [Roms -> Int] /\ fetched \subseteq Games
    /\ removed \subseteq Games /\ lost \in Nat /\ quiet \in Nat

-----------------------------------------------------------------------------
(* Safety. *)

\* RetroAchievements, or the user, settled what the ROM is.
Answered(k) ==
    \/ lookup[k] \in {"miss", "expired"}
    \/ GameOf[k] \in CachedGames \cup removed

\* "Only one caller drains at a time" (rom_browser.py:690), although the lock is let
\* go and taken back in the middle of a drain, and its holder may die.
OneDrain == \A c, d \in Callers : run[c].pc \in Draining /\ run[d].pc \in Draining => c = d

\* No window is overdrawn: what is left of the budget is looked at before a request
\* and charged after it, with other drains, ticks and crashes in between.
NeverOverdrawn == budget.used <= Limit

\* "A window allows CACHE_BUDGET_LIMIT cached games" (rom_browser.py:684), whoever
\* drains and whatever happens while a drain waits for its pace; a crash between
\* caching a game and charging it lets one more through.
BudgetKept ==
    Cardinality({k \in Roms : sentAt[k] > Past /\ sentAt[k] >= budget.start}) <= Limit + lost

\* "A 429 stops the queue for at least RATE_LIMIT_PAUSE_MS" (rom_browser.py:689):
\* no process sends a request for the queue while the pause another one was told
\* of lasts.
PauseKept ==
    [][\A c \in Callers : run[c].pc # "ask" /\ run'[c].pc = "ask" => quiet = 0]_vars

\* A game is fetched once, although two ROMs may name it and other drains may run
\* while this one waits for its pace (known_game_ids, rom_browser.py:749 and 821).
FetchedOnce ==
    [][\A c \in Callers : run[c].pc = "ask" /\ run'[c].pc = "charge"
                          => Asked(c) \notin fetched]_vars

\* A ROM leaves the queue only with an answer, after its last attempt, or because
\* the run that queued it took it back: not through a pause, a refused login, a
\* 429 or a crash at any point ("The queue is kept across restarts",
\* docs/linux-support/caching-games.md:26).
NoRomForgotten == \A k \in Roms : fate[k] = "queued" => k \in Keys(queue) \/ Answered(k)

-----------------------------------------------------------------------------
(* Liveness. *)

\* Every ROM in the queue leaves it: the service goes through it in later windows.
QueueDrains == \A k \in Roms : k \in Keys(queue) ~> k \notin Keys(queue)

\* A run that started ends: those that wait for the drain lock get it in turn, the
\* service stands down for them, and a paced drain gets it back.
RunsEnd == \A c \in Bulks \cup Adds : run[c].pc # "off" ~> run[c].pc = "done"

-----------------------------------------------------------------------------
(* What the documentation says, and the code does not keep. *)

\* "Aborting removes the ROMs this run queued" (smart_cache.py:213).
AbortedAreGone == \A k \in Roms : fate[k] = "cancelled" => k \notin Keys(queue)
=============================================================================
