--------------------------- MODULE AndroidAwards ---------------------------
(***************************************************************************)
(* The queue of offline awards of the Android app: ProxyServer.kt files an *)
(* award, AwardFlusher.kt sends the queue, the app's screens delete.       *)
(*                                                                         *)
(* Unlike the table of PendingAwards a row is keyed by its own id, only    *)
(* rows that are pending count as queued or chained, and sent rows stay as *)
(* the history.  Handler threads wait three seconds for the database and   *)
(* go on without it; what they asked for happens all the same, later.      *)
(* requestFlush looks at flushJob and sets it without a lock, so two       *)
(* flushes may run at once.  A hardcore row of an earlier release is       *)
(* treated as one of a withdrawn achievement is.                           *)
(***************************************************************************)
EXTENDS Naturals, Sequences

CONSTANTS
    Earned,         \* award requests an emulator may make
    KeyOf,          \* the achievement of each; an entry of a board is its own
    BoardEntries,   \* requests that carry no achievement
    Withdrawn,      \* achievements RetroAchievements has withdrawn
    Breakable,      \* requests whose stored row may be damaged
    Clock,          \* what the wall clock may read, in any order
    Flushes,        \* the flushes that may run at once
    Nothing         \* no row, no request

ChainStart == <<Nothing, 0>>

VARIABLES
    rows,       \* the table, by id: AUTOINCREMENT uses no id twice
    unmade,     \* requests the emulator has not made yet
    asking,     \* handler threads that wait for pendingAwardLock
    holder,     \* the thread that has it
    late,       \* rows whose write was given up and goes on
    answered,   \* history: requests answered "queued_offline"
    job,        \* the flushes
    picked,     \* the row the screen showed when the user chose to delete it
    cached,     \* achievements in the cached list of unlocks
    accepted,   \* requests RetroAchievements accepted
    givenUp,    \* history: requests whose award the user deleted
    outdated    \* history: requests whose award was marked stale

askVars == <<unmade, asking, holder, late, answered>>
screenVars == <<picked, givenUp>>
phoneVars == <<rows, askVars, job, screenVars, cached, accepted, outdated>>
-----------------------------------------------------------------------------
(* PendingAwardDao.                                                        *)
In(t) == {i \in DOMAIN t : t[i] # Nothing}
AllByStatus(t, status) == {i \in In(t) : t[i].status = status}
IsWaiting(t, s) == \E i \in AllByStatus(t, "pending") : KeyOf[t[i].sub] = KeyOf[s]

Precedes(t, i, j) ==
    t[i].queuedAt < t[j].queuedAt \/ (t[i].queuedAt = t[j].queuedAt /\ i < j)
Oldest(t, S, i) == i \in S /\ \A j \in S \ {i} : Precedes(t, i, j)

\* @Update changes nothing when the row is gone.
Update(i, row) == IF rows[i] = Nothing THEN rows ELSE [rows EXCEPT ![i] = row]

HashOf(row) == <<row.sub, row.queuedAt>>
HeadOf(t, S) ==
    IF S = {} THEN ChainStart
    ELSE HashOf(t[CHOOSE i \in S : \A j \in S \ {i} : Precedes(t, j, i)])

\* verifyChain and repairPendingChain, over the rows that are pending.
LinkedTo(t, i) == HeadOf(t, {j \in In(t) : Precedes(t, j, i)})
Intact(t) == \A i \in In(t) : t[i].intact
ChainValid(t) == Intact(t) /\ \A i \in In(t) : t[i].prevHash = LinkedTo(t, i)
Rebased(t) ==
    [i \in DOMAIN t |-> IF t[i] = Nothing THEN Nothing
                        ELSE [t[i] EXCEPT !.prevHash = LinkedTo(t, i)]]
PendingOf(t) ==
    [i \in DOMAIN t |-> IF i \in AllByStatus(t, "pending") THEN t[i] ELSE Nothing]
-----------------------------------------------------------------------------
NoFlush == [pc |-> "idle", copy |-> <<>>, todo |-> {}, missing |-> {}, answer |-> "none"]

PhoneInit ==
    /\ rows = <<>>
    /\ unmade \in SUBSET Earned /\ asking = {} /\ holder = Nothing /\ late = {} /\ answered = {}
    /\ job = [f \in Flushes |-> NoFlush]
    /\ picked = Nothing /\ givenUp = {} /\ outdated = {}
    /\ cached = {} /\ accepted = {}

\* RetroAchievements has the achievement, or the very entry.
Has(s) == \E r \in accepted : KeyOf[r] = KeyOf[s]
Unlocked == {KeyOf[s] : s \in accepted \ BoardEntries}
-----------------------------------------------------------------------------
(* handleAwardRequest and queueAward.                                      *)
PhoneForward(s) ==
    /\ s \in unmade
    /\ unmade' = unmade \ {s}
    /\ accepted' \in {accepted, accepted \cup {s}}
    /\ UNCHANGED <<rows, asking, holder, late, answered, job, screenVars, cached, outdated>>

\* Offline, or no answer came: the award may have arrived all the same.
PhoneFallsBack(s) ==
    /\ s \in unmade
    /\ unmade' = unmade \ {s} /\ asking' = asking \cup {s}
    /\ accepted' \in {accepted, accepted \cup {s}}
    /\ UNCHANGED <<rows, holder, late, answered, job, screenVars, cached, outdated>>

\* Mutant for PhoneKeepsPromise: a row of any status counts, as it does on Linux.
AnyRow(s) == \E i \in In(rows) : KeyOf[rows[i].sub] = KeyOf[s]
AlreadyQueued(s) == IsWaiting(rows, s)

\* The lock is taken.  The look for the achievement may take too long: it then
\* counts as neither queued nor unlocked.
TakeRequest(s) ==
    /\ holder = Nothing /\ s \in asking
    /\ asking' = asking \ {s}
    /\ \/ /\ s \notin BoardEntries /\ AlreadyQueued(s)
          /\ answered' = answered \cup {s} /\ UNCHANGED holder
       \/ /\ s \notin BoardEntries /\ ~AlreadyQueued(s)
          /\ holder' = [sub |-> s, pc |-> "unlocks"] /\ UNCHANGED answered
       \/ holder' = [sub |-> s, pc |-> "head"] /\ UNCHANGED answered
    /\ UNCHANGED <<rows, unmade, late, job, screenVars, cached, accepted, outdated>>

LookAtUnlocks ==
    /\ holder # Nothing /\ holder.pc = "unlocks"
    /\ \/ /\ KeyOf[holder.sub] \in cached
          /\ answered' = answered \cup {holder.sub} /\ holder' = Nothing
       \/ holder' = [holder EXCEPT !.pc = "head"] /\ UNCHANGED answered
    /\ UNCHANGED <<rows, unmade, asking, late, job, screenVars, cached, accepted, outdated>>

NewAward(s, at, prev) ==
    [sub |-> s, queuedAt |-> at, status |-> "pending", prevHash |-> prev, intact |-> TRUE]

\* The clock is read, then the head of the chain: a timeout starts a chain anew.
BuildAward ==
    /\ holder # Nothing /\ holder.pc = "head"
    /\ \E at \in Clock, prev \in {ChainStart, HeadOf(rows, AllByStatus(rows, "pending"))} :
          holder' = [sub |-> holder.sub, pc |-> "write", row |-> NewAward(holder.sub, at, prev)]
    /\ UNCHANGED <<rows, unmade, asking, late, answered, job, screenVars, cached,
                   accepted, outdated>>

\* Written in time and acknowledged, or refused: then the write failed or is under way.
WriteAward ==
    /\ holder # Nothing /\ holder.pc = "write"
    /\ holder' = Nothing
    /\ \/ /\ rows' = Append(rows, holder.row) /\ answered' = answered \cup {holder.sub}
          /\ UNCHANGED late
       \/ late' \in {late, late \cup {holder.row}} /\ UNCHANGED <<rows, answered>>
    /\ UNCHANGED <<unmade, asking, job, screenVars, cached, accepted, outdated>>

LateWrite ==
    /\ \E row \in late : rows' = Append(rows, row) /\ late' = late \ {row}
    /\ UNCHANGED <<unmade, asking, holder, answered, job, screenVars, cached, accepted, outdated>>

\* cacheUnlocks, after an award or a flush and in the hourly refresh; its answer
\* may be an old one.
CacheUnlocks ==
    /\ cached' \in SUBSET Unlocked
    /\ UNCHANGED <<rows, askVars, job, screenVars, accepted, outdated>>
-----------------------------------------------------------------------------
(* AwardFlusher.flushPending.                                              *)
Stands(f, pc) == job[f].pc = pc
Due(f, i) == Oldest(job[f].copy, job[f].todo, i)
\* The loop goes on, and looks at this row no more.
Handles(f, i) ==
    job' = [job EXCEPT ![f].todo = @ \ {i}, ![f].missing = @ \ {i}, ![f].copy[i] = Nothing,
                       ![f].pc = "send", ![f].answer = "none"]

\* With nothing pending only the purge is left; a chain that is neither valid nor
\* repairable ends the flush.
FlushBegins(f) ==
    LET copy == PendingOf(rows) IN
    /\ Stands(f, "idle") /\ In(rows) # {}
    /\ \/ In(copy) = {} /\ job' = [job EXCEPT ![f].pc = "purge"]
       \/ /\ In(copy) # {} /\ ChainValid(copy)
          /\ job' = [job EXCEPT ![f].pc = "refresh", ![f].copy = copy]
       \/ /\ ~ChainValid(copy) /\ Intact(copy)
          /\ job' = [job EXCEPT ![f].pc = "repair", ![f].copy = Rebased(copy), ![f].todo = In(copy)]
    /\ UNCHANGED <<rows, askVars, screenVars, cached, accepted, outdated>>

RepairsRow(f) ==
    /\ Stands(f, "repair")
    /\ \E i \in job[f].todo :
          /\ Due(f, i)
          /\ rows' = Update(i, job[f].copy[i])
          /\ job' = [job EXCEPT ![f].todo = @ \ {i},
                                ![f].pc = IF job[f].todo = {i} THEN "refresh" ELSE "repair"]
    /\ UNCHANGED <<askVars, screenVars, cached, accepted, outdated>>

\* No login, or the live data of a game cannot be had.
GivesUp(f) ==
    /\ Stands(f, "refresh")
    /\ job' = [job EXCEPT ![f] = NoFlush]
    /\ UNCHANGED <<rows, askVars, screenVars, cached, accepted, outdated>>

GetsLiveData(f) ==
    /\ Stands(f, "refresh")
    /\ \E missing \in SUBSET {i \in In(job[f].copy) : KeyOf[job[f].copy[i].sub] \in Withdrawn} :
          job' = [job EXCEPT ![f].pc = "send", ![f].todo = In(job[f].copy),
                             ![f].missing = missing]
    /\ UNCHANGED <<rows, askVars, screenVars, cached, accepted, outdated>>

\* The request of row i, and those it answered for if no other row waits for them.
AnsweredBy(i) ==
    LET k == KeyOf[rows[i].sub]
        others == {rows[j].sub : j \in AllByStatus(rows, "pending") \ {i}}
    IN  {rows[i].sub} \cup {s \in answered : KeyOf[s] = k /\ \A r \in others : KeyOf[r] # k}

MarksStale(f) ==
    /\ Stands(f, "send")
    /\ \E i \in job[f].todo \cap job[f].missing :
          /\ Due(f, i)
          /\ rows' = Update(i, [job[f].copy[i] EXCEPT !.status = "stale"])
          /\ outdated' = IF rows[i] = Nothing THEN outdated ELSE outdated \cup AnsweredBy(i)
          /\ Handles(f, i)
    /\ UNCHANGED <<askVars, screenVars, cached, accepted>>

\* sendAward: an award that RetroAchievements has already counts as sent, any other
\* error and every exception leaves it pending.
Sends(f) ==
    /\ Stands(f, "send")
    /\ \E i \in job[f].todo \ job[f].missing :
          LET s == job[f].copy[i].sub IN
          /\ Due(f, i)
          /\ \/ /\ accepted' = IF Has(s) THEN accepted ELSE accepted \cup {s}
                /\ job' = [job EXCEPT ![f].pc = "record", ![f].answer = "flushed"]
             \/ /\ accepted' \in {accepted, accepted \cup {s}}
                /\ job' = [job EXCEPT ![f].pc = "record", ![f].answer = "pending"]
    /\ UNCHANGED <<rows, askVars, screenVars, cached, outdated>>

\* The row as it was read, with its new status, over whatever is there now.
Records(f) ==
    /\ Stands(f, "record")
    /\ \E i \in job[f].todo :
          /\ Due(f, i)
          /\ rows' = Update(i, [job[f].copy[i] EXCEPT !.status = job[f].answer])
          /\ Handles(f, i)
    /\ UNCHANGED <<askVars, screenVars, cached, accepted, outdated>>

AllHandled(f) ==
    /\ Stands(f, "send") /\ job[f].todo = {}
    /\ job' = [job EXCEPT ![f] = [NoFlush EXCEPT !.pc = "purge"]]
    /\ UNCHANGED <<rows, askVars, screenVars, cached, accepted, outdated>>

\* One transaction, if nothing is pending: what was sent stays as the history.
Purges(f) ==
    /\ Stands(f, "purge")
    /\ rows' = IF AllByStatus(rows, "pending") # {} THEN rows
               ELSE [i \in DOMAIN rows |->
                        IF i \in AllByStatus(rows, "flushed") THEN rows[i] ELSE Nothing]
    /\ job' = [job EXCEPT ![f] = NoFlush]
    /\ UNCHANGED <<askVars, screenVars, cached, accepted, outdated>>
-----------------------------------------------------------------------------
(* The app's screens, the disk, and the end of the process.                *)
PicksAward(i) ==
    /\ picked = Nothing /\ i \in AllByStatus(rows, "pending")
    /\ picked' = [id |-> i, row |-> rows[i]]
    /\ UNCHANGED <<rows, askVars, job, givenUp, cached, accepted, outdated>>

DeletesAward ==
    /\ picked # Nothing
    /\ rows' = Update(picked.id, [picked.row EXCEPT !.status = "deleted"])
    /\ givenUp' = IF rows[picked.id] = Nothing THEN givenUp
                  ELSE givenUp \cup AnsweredBy(picked.id)
    /\ picked' = Nothing
    /\ UNCHANGED <<askVars, job, cached, accepted, outdated>>

ClearsHistory ==
    /\ AllByStatus(rows, "pending") = {} /\ AllByStatus(rows, "flushed") # {}
    /\ rows' = [i \in DOMAIN rows |-> IF i \in AllByStatus(rows, "flushed") THEN Nothing ELSE rows[i]]
    /\ UNCHANGED <<askVars, job, screenVars, cached, accepted, outdated>>

ClearsDatabase ==
    /\ In(rows) # {}
    /\ rows' = [i \in DOMAIN rows |-> Nothing]
    /\ givenUp' = givenUp \cup {s \in Earned : IsWaiting(rows, s)
                                  /\ (s \in answered \/ \E i \in In(rows) : rows[i].sub = s)}
    /\ cached' = {}
    /\ UNCHANGED <<askVars, job, picked, accepted, outdated>>

BreaksRow(i) ==
    /\ i \in In(rows) /\ rows[i].intact /\ rows[i].sub \in Breakable
    /\ rows' = [rows EXCEPT ![i].intact = FALSE]
    /\ UNCHANGED <<askVars, job, screenVars, cached, accepted, outdated>>

AppDies ==
    /\ asking' = {} /\ holder' = Nothing /\ late' = {} /\ picked' = Nothing
    /\ job' = [f \in Flushes |-> NoFlush]
    /\ UNCHANGED <<rows, unmade, answered, givenUp, cached, accepted, outdated>>
-----------------------------------------------------------------------------
Requesting ==
    \/ \E s \in Earned : PhoneForward(s) \/ PhoneFallsBack(s) \/ TakeRequest(s)
    \/ LookAtUnlocks \/ BuildAward \/ WriteAward \/ LateWrite \/ CacheUnlocks

Flushing(f) ==
    \/ FlushBegins(f) \/ RepairsRow(f) \/ GivesUp(f) \/ GetsLiveData(f) \/ MarksStale(f)
    \/ Sends(f) \/ Records(f) \/ AllHandled(f) \/ Purges(f)

PhoneNext ==
    \/ Requesting \/ \E f \in Flushes : Flushing(f)
    \/ \E i \in DOMAIN rows : PicksAward(i) \/ BreaksRow(i)
    \/ DeletesAward \/ ClearsHistory \/ ClearsDatabase \/ AppDies

PhoneSpec == PhoneInit /\ [][PhoneNext]_phoneVars
-----------------------------------------------------------------------------
PhoneRow == [sub : Earned, queuedAt : Clock, status : {"pending", "flushed", "stale", "deleted"},
             prevHash : (Earned \X Clock) \cup {ChainStart}, intact : BOOLEAN]

ASSUME PhoneAssumption == Clock \subseteq Nat /\ Nothing \notin PhoneRow

\* Types of the state.
PhoneTypeOK ==
    /\ rows \in Seq(PhoneRow \cup {Nothing})
    /\ UNION {unmade, asking, answered, accepted, givenUp, outdated} \subseteq Earned
    /\ late \subseteq PhoneRow
    /\ holder # Nothing => holder.sub \in Earned /\ holder.pc \in {"unlocks", "head", "write"}
    /\ \A f \in Flushes : /\ job[f].pc \in {"idle", "repair", "refresh", "send", "record", "purge"}
                          /\ job[f].todo \cup job[f].missing \subseteq In(job[f].copy)
                          /\ job[f].answer \in {"none", "flushed", "pending"}
    /\ picked # Nothing => picked.id \in DOMAIN rows /\ picked.row \in PhoneRow
    /\ cached \subseteq Unlocked

\* What became of a request that the app need not hold any longer.
ForPhone == {s \in Earned : Has(s)} \cup givenUp \cup outdated
HeldByRow ==
    LET inRows == AllByStatus(rows, "pending")
    IN  {s \in answered \cup {rows[i].sub : i \in inRows} : IsWaiting(rows, s)}

PhonePromise == INSTANCE AwardPromise
    WITH Achievements <- Earned, promised <- answered,
         kept <- HeldByRow \ ForPhone, settled <- ForPhone

\* What is answered "queued_offline" is promised, request by request: it waits in a row,
\* a board's entry in one of its own, or RetroAchievements has it, or it was withdrawn,
\* or the user deleted this very award.  That an earlier award of the achievement was
\* deleted is no excuse here, as it is in PendingAwards.  Writes that come late, two
\* flushes at once and screens that are behind change nothing of that.
PhoneKeepsPromise == PhonePromise!PromiseSpec
=============================================================================
