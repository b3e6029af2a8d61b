--------------------------- MODULE PendingAwards ---------------------------
(***************************************************************************)
(* The queue of offline awards on Linux and Windows: the table             *)
(* pending_awards and everything that writes it.                           *)
(*                                                                         *)
(*   - request handler threads that queue an award (proxy_service.py),     *)
(*   - the flush that sends the queue to RetroAchievements (flusher.py),   *)
(*   - the menu, another process, that deletes awards (pending_awards.py). *)
(*                                                                         *)
(* Every call into Storage is one transaction; nothing spans two calls, so *)
(* each action below makes one call.  A row is keyed by its achievementId  *)
(* (the column is UNIQUE); leaderboard entries carry none and all use the  *)
(* key Board.  What a submission says is a model value, and payloadHash is *)
(* the pair of what was submitted and when: hashing is injective.          *)
(* retryCount, lastError and userAgent steer nothing and are left out.     *)
(***************************************************************************)
EXTENDS Naturals

CONSTANTS
    Submissions,   \* award requests an emulator may make
    Ids,           \* achievement ids, and Board
    IdOf,          \* the achievementId a submission carries
    Board,         \* achievementId 0: a leaderboard entry
    Hardcore,      \* submissions made in hardcore mode
    Legacy,        \* an award an earlier release left pending: one at most
    Retired,       \* achievements RetroAchievements has withdrawn
    Corruptible,   \* rows whose stored request may be damaged on disk
    Windows,       \* the build whose settings offer Clear database
    Times,         \* what the wall clock may read, in any order: no RTC
    NoRow,         \* no such row
    Genesis        \* prevHash of the first award of the chain

ASSUME AwardsAssumption ==
    /\ IdOf \in [Submissions -> Ids]
    /\ Hardcore \subseteq Submissions
    /\ Legacy \subseteq Submissions /\ \A r, s \in Legacy : r = s
    /\ Retired \subseteq Ids \ {Board}
    /\ Corruptible \subseteq Ids
    /\ Windows \in BOOLEAN
    /\ Times \subseteq Nat

Statuses == {"pending", "flushed", "stale", "deleted"}
Hashes == Submissions \X Times

\* intact: the stored request still hashes to the stored payloadHash.
Row == [id : Nat, sub : Submissions, queuedAt : Times, status : Statuses,
        prevHash : Hashes \cup {Genesis}, intact : BOOLEAN]

ASSUME SentinelAssumption == NoRow \notin Row /\ Genesis \notin Hashes

Tables == [Ids -> Row \cup {NoRow}]
Phases == {"idle", "repair", "refresh", "send", "record", "check", "purge"}

VARIABLES
    table,      \* pending_awards on disk
    lastId,     \* no row has a greater id
    fresh,      \* submissions the emulator has not made yet
    waiting,    \* handler threads on their way into queue_award
    filing,     \* the thread inside queue_award's lock, or NoRow
    acked,      \* history: submissions answered "queued_offline"
    phase,      \* where the flush stands
    snapshot,   \* the rows the flush read
    todo,       \* ids the current loop of the flush has yet to handle
    judged,     \* ids of the snapshot missing from the live data
    sent,       \* the answer to the award just sent
    menu,       \* the row the menu read and is about to write back
    unlocks,    \* achievements in the cached list of unlocks
    server,     \* submissions RetroAchievements accepted
    removed,    \* history: ids the user deleted
    staled      \* history: ids a flush marked stale

queueVars == <<fresh, waiting, filing, acked>>
flushVars == <<phase, snapshot, todo, judged, sent>>
menuVars == <<menu, removed>>
vars == <<table, lastId, queueVars, flushVars, menuVars, unlocks, server, staled>>

-----------------------------------------------------------------------------
(* The table, and the order ORDER BY queuedAt, id gives its rows.          *)

EmptyTable == [k \in Ids |-> NoRow]
Present(t) == {k \in Ids : t[k] # NoRow}
WithStatus(t, s) == {k \in Present(t) : t[k].status = s}
PayloadHash(row) == <<row.sub, row.queuedAt>>

Before(t, j, k) ==
    \/ t[j].queuedAt < t[k].queuedAt
    \/ t[j].queuedAt = t[k].queuedAt /\ t[j].id < t[k].id

IsFirst(t, S, k) == k \in S /\ \A j \in S \ {k} : Before(t, k, j)
IsLast(t, S, k) == k \in S /\ \A j \in S \ {k} : Before(t, j, k)

\* INSERT ... ON CONFLICT(achievementId) DO UPDATE every column but the id.  Ids
\* only order the rows of the moment, so lastId starts over in an empty table.
Upsert(t, row) ==
    LET k == IdOf[row.sub] IN
    [t EXCEPT ![k] = [row EXCEPT !.id = IF t[k] = NoRow THEN lastId + 1
                                                        ELSE t[k].id]]

Write(row) ==
    /\ table' = Upsert(table, row)
    /\ lastId' = IF table[IdOf[row.sub]] = NoRow THEN lastId + 1 ELSE lastId

-----------------------------------------------------------------------------
(* The hash chain over the rows of a table.                                *)

\* What an award that follows the rows S has for its prevHash.
TailHash(t, S) ==
    IF \E k \in S : IsLast(t, S, k)
    THEN PayloadHash(t[CHOOSE k \in S : IsLast(t, S, k)])
    ELSE Genesis

\* What verification expects of row k: the row before it, whatever its status.
ChainedTo(t, k) == TailHash(t, {j \in Present(t) : Before(t, j, k)})

Linked(t, k) == t[k].prevHash = ChainedTo(t, k)
Verified(t) == \A k \in Present(t) : t[k].intact /\ Linked(t, k)

NeverRepairs(t) == FALSE

\* The first row that fails, fails on its link, and no row fails on its hash.
Repairable(t) == ~Verified(t) /\ \A k \in Present(t) : t[k].intact

RepairsPendingOnly(t) ==
    [k \in Ids |-> IF k \in WithStatus(t, "pending")
                   THEN [t[k] EXCEPT !.prevHash = ChainedTo(t, k)] ELSE t[k]]

Repaired(t) ==
    [k \in Ids |-> IF t[k] = NoRow THEN NoRow
                   ELSE [t[k] EXCEPT !.prevHash = ChainedTo(t, k)]]

-----------------------------------------------------------------------------
NewRow(s, at, prev) ==
    [id |-> 0, sub |-> s, queuedAt |-> at, status |-> "pending",
     prevHash |-> prev, intact |-> TRUE]

\* The database as this release finds it: new, or with an award in it.
Inherited(s, at) ==
    [EmptyTable EXCEPT ![IdOf[s]] = [NewRow(s, at, Genesis) EXCEPT !.id = 1]]

Init ==
    /\ IF Legacy = {} THEN table = EmptyTable /\ lastId = 0
       ELSE lastId = 1 /\ \E s \in Legacy, at \in Times : table = Inherited(s, at)
    /\ fresh = Submissions \ Legacy /\ waiting = {} /\ filing = NoRow /\ acked = {}
    /\ phase = "idle" /\ snapshot = EmptyTable /\ todo = {} /\ judged = {}
    /\ sent = "none"
    /\ menu = NoRow /\ removed = {}
    /\ unlocks = {} /\ server = {} /\ staled = {}

\* RetroAchievements keeps one unlock per achievement, and every board entry.
Held(s) == IdOf[s] # Board /\ \E r \in server : IdOf[r] = IdOf[s]
UnlocksOnServer == {IdOf[s] : s \in server} \ {Board}
-----------------------------------------------------------------------------
(* The request handler: handle_award_request and queue_award.              *)

\* Hardcore is refused with a 403 before anything else is tried.
RefuseHardcore(s) ==
    /\ s \in fresh \cap Hardcore
    /\ fresh' = fresh \ {s}
    /\ UNCHANGED <<table, lastId, waiting, filing, acked, flushVars, menuVars,
                   unlocks, server, staled>>

\* Online: RetroAchievements answers, and its answer is passed through.
Forward(s) ==
    /\ s \in fresh \ Hardcore
    /\ fresh' = fresh \ {s}
    /\ server' \in {server, server \cup {s}}
    /\ UNCHANGED <<table, lastId, waiting, filing, acked, flushVars, menuVars,
                   unlocks, staled>>

\* Offline, or no answer came: the award may have arrived all the same.
FallBackToQueue(s) ==
    /\ s \in fresh \ Hardcore
    /\ fresh' = fresh \ {s}
    /\ waiting' = waiting \cup {s}
    /\ server' \in {server, server \cup {s}}
    /\ UNCHANGED <<table, lastId, filing, acked, flushVars, menuVars, unlocks, staled>>

\* pending_award_lock is taken: a row of any status is acknowledged, not queued.
Queued(k) == k # Board /\ table[k] # NoRow

QueueKnown(s) ==
    /\ filing = NoRow /\ s \in waiting /\ Queued(IdOf[s])
    /\ waiting' = waiting \ {s}
    /\ acked' = acked \cup {s}
    /\ UNCHANGED <<table, lastId, fresh, filing, flushVars, menuVars, unlocks,
                   server, staled>>

QueueNew(s) ==
    /\ filing = NoRow /\ s \in waiting /\ ~Queued(IdOf[s])
    /\ waiting' = waiting \ {s}
    /\ filing' = [sub |-> s, step |-> "unlocks", prevHash |-> Genesis]
    /\ UNCHANGED <<table, lastId, fresh, acked, flushVars, menuVars, unlocks,
                   server, staled>>

At(step) == filing # NoRow /\ filing.step = step

QueueUnlocked ==
    /\ At("unlocks") /\ IdOf[filing.sub] \in unlocks
    /\ filing' = NoRow
    /\ acked' = acked \cup {filing.sub}
    /\ UNCHANGED <<table, lastId, fresh, waiting, flushVars, menuVars, unlocks,
                   server, staled>>

QueueNotUnlocked ==
    /\ At("unlocks") /\ IdOf[filing.sub] \notin unlocks
    /\ filing' = [filing EXCEPT !.step = "latest"]
    /\ UNCHANGED <<table, lastId, fresh, waiting, acked, flushVars, menuVars,
                   unlocks, server, staled>>

LatestHash(t) == TailHash(t, Present(t))

QueueReadLatest ==
    /\ At("latest")
    /\ filing' = [filing EXCEPT !.step = "write", !.prevHash = LatestHash(table)]
    /\ UNCHANGED <<table, lastId, fresh, waiting, acked, flushVars, menuVars,
                   unlocks, server, staled>>

QueueWrite ==
    /\ At("write")
    /\ \E at \in Times : Write(NewRow(filing.sub, at, filing.prevHash))
    /\ filing' = NoRow
    /\ acked' = acked \cup {filing.sub}
    /\ UNCHANGED <<fresh, waiting, flushVars, menuVars, unlocks, server, staled>>

\* The cached list of unlocks is fetched again: after an online award, when a
\* session starts, when the game is refreshed.  Two fetches may be stored in
\* either order, and what the server answered may be old by then.
RefreshUnlocks ==
    /\ unlocks' \in SUBSET UnlocksOnServer
    /\ UNCHANGED <<table, lastId, queueVars, flushVars, menuVars, server, staled>>

-----------------------------------------------------------------------------
(* flush_pending_awards, one at a time under flush_lock.                   *)

EndFlush ==
    /\ phase' = "idle"
    /\ snapshot' = EmptyTable /\ todo' = {} /\ judged' = {} /\ sent' = "none"

\* A table that neither verifies nor can be repaired: the flush is refused.
FlushStart ==
    /\ phase = "idle" /\ Present(table) # {}
    /\ \/ /\ Verified(table)
          /\ phase' = "refresh" /\ snapshot' = table /\ UNCHANGED todo
       \/ /\ Repairable(table)
          /\ phase' = "repair" /\ snapshot' = Repaired(table)
          /\ todo' = Present(table)
    /\ UNCHANGED <<table, lastId, queueVars, judged, sent, menuVars, unlocks,
                   server, staled>>

FlushRepairRow ==
    /\ phase = "repair" /\ todo # {}
    /\ \E k \in todo :
          /\ IsFirst(snapshot, todo, k)
          /\ Write(snapshot[k])
          /\ todo' = todo \ {k}
    /\ UNCHANGED <<queueVars, phase, snapshot, judged, sent, menuVars, unlocks,
                   server, staled>>

\* The repaired rows are read back, and not verified a second time.
FlushReread ==
    /\ phase = "repair" /\ todo = {}
    /\ phase' = "refresh" /\ snapshot' = table
    /\ UNCHANGED <<table, lastId, queueVars, todo, judged, sent, menuVars,
                   unlocks, server, staled>>

ResendsFlushed(t) == WithStatus(t, "pending") \cup WithStatus(t, "flushed")

\* The rows the flush would send: the others are skipped.
ToSend(t) == WithStatus(t, "pending")

FlushNothingPending ==
    /\ phase = "refresh" /\ ToSend(snapshot) = {}
    /\ phase' = "check" /\ snapshot' = EmptyTable
    /\ UNCHANGED <<table, lastId, queueVars, todo, judged, sent, menuVars,
                   unlocks, server, staled>>

\* No credentials, a rejected token, or no live data: nothing is sent.
FlushAbandon ==
    /\ phase = "refresh" /\ ToSend(snapshot) # {}
    /\ EndFlush
    /\ UNCHANGED <<table, lastId, queueVars, menuVars, unlocks, server, staled>>

\* Which withdrawn achievements the live data shows missing depends on the
\* games that are cached: any of them.
FlushRefresh ==
    /\ phase = "refresh" /\ ToSend(snapshot) # {}
    /\ phase' = "send" /\ todo' = ToSend(snapshot)
    /\ judged' \in SUBSET (Retired \cap ToSend(snapshot))
    /\ UNCHANGED <<table, lastId, queueVars, snapshot, sent, menuVars, unlocks,
                   server, staled>>

ForgetsHardcore(k) == k \in judged

Unsendable(k) == snapshot[k].sub \in Hardcore \/ k \in judged

FlushMarkStale ==
    /\ phase = "send" /\ todo # {}
    /\ \E k \in todo :
          /\ IsFirst(snapshot, todo, k)
          /\ Unsendable(k)
          /\ Write([snapshot[k] EXCEPT !.status = "stale"])
          /\ todo' = todo \ {k}
          /\ staled' = staled \cup {k}
    /\ UNCHANGED <<queueVars, phase, snapshot, judged, sent, menuVars, unlocks, server>>

\* send_award, and the answer to it.  An achievement the account already has is
\* answered with an error that names the user, which counts as a rejected login;
\* an answer that is no JSON, or a 5xx, says nothing of what the server did.
FlushSend ==
    /\ phase = "send" /\ todo # {}
    /\ \E k \in todo :
          LET s == snapshot[k].sub IN
          /\ IsFirst(snapshot, todo, k)
          /\ ~Unsendable(k)
          /\ \/ ~Held(s) /\ sent' = "success" /\ server' = server \cup {s}
             \/ sent' = "error" /\ server' \in {server, server \cup {s}}
    /\ phase' = "record"
    /\ UNCHANGED <<table, lastId, queueVars, snapshot, todo, judged, menuVars,
                   unlocks, staled>>

\* http_post raises when no answer comes: the exception ends the flush.
FlushSendRaises ==
    /\ phase = "send" /\ todo # {}
    /\ \E k \in todo :
          /\ IsFirst(snapshot, todo, k)
          /\ ~Unsendable(k)
          /\ server' \in {server, server \cup {snapshot[k].sub}}
    /\ EndFlush
    /\ UNCHANGED <<table, lastId, queueVars, menuVars, unlocks, staled>>

TrustsAnyAnswer(answer) == IF answer = "none" THEN "pending" ELSE "flushed"

Outcome(answer) == IF answer = "success" THEN "flushed" ELSE "pending"

\* The row as it was read, with its new status, over whatever is there now.
FlushRecord ==
    /\ phase = "record"
    /\ \E k \in todo :
          /\ IsFirst(snapshot, todo, k)
          /\ Write([snapshot[k] EXCEPT !.status = Outcome(sent)])
          /\ todo' = todo \ {k}
    /\ phase' = "send" /\ sent' = "none"
    /\ UNCHANGED <<queueVars, snapshot, judged, menuVars, unlocks, server, staled>>

\* Every row is handled; if any was flushed the unlocks are fetched again.
FlushSync ==
    /\ phase = "send" /\ todo = {}
    /\ phase' = "check" /\ snapshot' = EmptyTable /\ judged' = {}
    /\ unlocks' \in {unlocks, UnlocksOnServer}
    /\ UNCHANGED <<table, lastId, queueVars, todo, sent, menuVars, server, staled>>

FlushCheckPending ==
    /\ phase = "check"
    /\ IF WithStatus(table, "pending") # {}
       THEN EndFlush
       ELSE phase' = "purge" /\ UNCHANGED <<snapshot, todo, judged, sent>>
    /\ UNCHANGED <<table, lastId, queueVars, menuVars, unlocks, server, staled>>

PurgesAll(t) == EmptyTable

Purged(t) == [k \in Ids |-> IF k \in WithStatus(t, "pending") THEN t[k] ELSE NoRow]

FlushPurge ==
    /\ phase = "purge"
    /\ table' = Purged(table)
    /\ lastId' = IF Purged(table) = EmptyTable THEN 0 ELSE lastId
    /\ EndFlush
    /\ UNCHANGED <<queueVars, menuVars, unlocks, server, staled>>

-----------------------------------------------------------------------------
(* The menu, the disk, and the end of the process.                         *)

\* delete_pending_award reads all rows, then writes its copy of one of them.
MenuRead(k) ==
    /\ menu = NoRow /\ table[k] # NoRow
    /\ menu' = table[k]
    /\ UNCHANGED <<table, lastId, queueVars, flushVars, removed, unlocks, server, staled>>

MenuDelete ==
    /\ menu # NoRow
    /\ Write([menu EXCEPT !.status = "deleted"])
    /\ menu' = NoRow
    /\ removed' = removed \cup {IdOf[menu.sub]}
    /\ UNCHANGED <<queueVars, flushVars, unlocks, server, staled>>

\* Windows, Clear database: every row goes, whatever its status.
ClearDatabase ==
    /\ Windows /\ Present(table) # {}
    /\ table' = EmptyTable /\ lastId' = 0
    /\ removed' = removed \cup Present(table)
    /\ unlocks' = {}
    /\ UNCHANGED <<queueVars, flushVars, menu, server, staled>>

\* The stored request of a row changes under its payloadHash.
Corrupt(k) ==
    /\ k \in Corruptible /\ table[k] # NoRow /\ table[k].intact
    /\ table' = [table EXCEPT ![k].intact = FALSE]
    /\ UNCHANGED <<lastId, queueVars, flushVars, menuVars, unlocks, server, staled>>

\* The service dies and is started again: only the table is left.
InFlight == waiting # {} \/ filing # NoRow \/ phase # "idle"

Restart ==
    /\ InFlight
    /\ waiting' = {} /\ filing' = NoRow
    /\ EndFlush
    /\ UNCHANGED <<table, lastId, fresh, acked, menuVars, unlocks, server, staled>>

-----------------------------------------------------------------------------
Handler ==
    \/ \E s \in Submissions : \/ RefuseHardcore(s) \/ Forward(s) \/ FallBackToQueue(s)
                              \/ QueueKnown(s) \/ QueueNew(s)
    \/ QueueUnlocked \/ QueueNotUnlocked \/ QueueReadLatest \/ QueueWrite
    \/ RefreshUnlocks

Flush ==
    \/ FlushStart \/ FlushRepairRow \/ FlushReread
    \/ FlushNothingPending \/ FlushAbandon \/ FlushRefresh
    \/ FlushMarkStale \/ FlushSend \/ FlushSendRaises \/ FlushRecord
    \/ FlushSync \/ FlushCheckPending \/ FlushPurge

User == (\E k \in Ids : MenuRead(k)) \/ MenuDelete \/ ClearDatabase

Next == Handler \/ Flush \/ User \/ (\E k \in Ids : Corrupt(k)) \/ Restart

Spec == Init /\ [][Next]_vars

-----------------------------------------------------------------------------
(* Correctness.                                                            *)

\* Types of the state.
TypeOK ==
    /\ table \in Tables /\ lastId \in Nat
    /\ fresh \subseteq Submissions /\ waiting \subseteq Submissions
    /\ filing \in {NoRow} \cup [sub : Submissions, step : {"unlocks", "latest", "write"},
                                prevHash : Hashes \cup {Genesis}]
    /\ acked \subseteq Submissions
    /\ phase \in Phases /\ snapshot \in Tables
    /\ todo \subseteq Present(snapshot) /\ judged \subseteq Retired
    /\ sent \in {"none", "success", "error"}
    /\ menu \in Row \cup {NoRow} /\ removed \subseteq Ids
    /\ unlocks \subseteq Ids /\ server \subseteq Submissions
    /\ staled \subseteq Ids

Pending(t, k) == k \in WithStatus(t, "pending")

\* The promise behind "queued_offline": an achievement acknowledged that way is
\* on RetroAchievements or waits in the table, unless its user deleted it or a
\* flush found it withdrawn; whatever the threads, processes and restarts did.
Settled == UnlocksOnServer \cup removed \cup staled

NoAwardLost ==
    \A s \in acked :
        IdOf[s] # Board => IdOf[s] \in Settled \/ Pending(table, IdOf[s])

\* The same promise step by step, for every achievement: see AwardPromise.
Achievement(S) == {IdOf[s] : s \in S} \ {Board}

Promise == INSTANCE AwardPromise
    WITH Achievements <- Ids \ {Board},
         promised <- Achievement(acked),
         kept <- WithStatus(table, "pending") \ {Board},
         settled <- Settled \ {Board}

KeepsPromise == Promise!PromiseSpec

\* A row marked flushed was accepted by RetroAchievements, so purging it or
\* listing it as sent is right, also after stale copies were written back.
FlushedMeansAccepted ==
    \A k \in WithStatus(table, "flushed") : table[k].sub \in server

\* Broken links alone never block the queue: what repair_pending_chain makes of
\* any intact table passes verify_chain.
RepairHeals ==
    Repairable(table) => Verified(Repaired(table))

\* Only the user's Clear database makes a row vanish while it is pending; a
\* purge spares what was queued after it looked for pending rows.
PendingNeverVanishes ==
    [][\A k \in Ids : Pending(table, k) /\ table'[k] = NoRow
                         => table' = EmptyTable /\ k \in removed']_vars

\* An award that was sent is not queued again: a flushed row turns pending only
\* for another submission, whatever copies of it were read before it was sent.
FlushedNeverRequeued ==
    [][\A k \in WithStatus(table, "flushed") :
          Pending(table', k) => table'[k].sub # table[k].sub]_vars

\* Hardcore unlocks are neither acknowledged nor sent, not even one that an
\* earlier release queued.
HardcoreNeverSent == Hardcore \cap (acked \cup server) = {}

-----------------------------------------------------------------------------
(* What the documentation, the tests and the menu say, and the code denies. *)

\* The menu says "Removed", and the row is deleted: it does not come back.
DeletedStaysDeleted ==
    [][\A k \in WithStatus(table, "deleted") :
          Pending(table', k) => table'[k].sub # table[k].sub]_vars

\* docs/linux-support/pending-awards.md: an achievement earned offline is stored
\* in the local queue and success returned, in that order.
AnsweredMeansStored ==
    [][\A s \in acked' \ acked :
          IdOf[s] # Board => Pending(table', IdOf[s]) \/ IdOf[s] \in UnlocksOnServer]_vars

\* linux/README.md: "queues casual award requests while offline".  A leaderboard
\* entry that was acknowledged is in the queue until it is sent.
EntryKept ==
    \A s \in acked :
        \/ IdOf[s] # Board \/ s \in server \/ Board \in removed
        \/ table[Board] # NoRow /\ table[Board].sub = s
=============================================================================
