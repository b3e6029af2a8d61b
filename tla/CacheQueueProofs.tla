-------------------------- MODULE CacheQueueProofs --------------------------
(***************************************************************************)
(* The caching queue for every number of ROMs, games and runs: one drain   *)
(* at a time, no window overdrawn, no game fetched twice, no request while *)
(* a pause lasts, no ROM forgotten.                                        *)
(*                                                                         *)
(* NeverOverdrawn is not inductive: the charge comes after the request.    *)
(* What makes it so is that the drain between the two holds the lock       *)
(* (LockKept), and that it started with room in the window (RoomLeft),     *)
(* which neither a tick nor anything another caller does takes away.       *)
(*                                                                         *)
(* The rest follows from what a caller is told (AnswersTrue), where a      *)
(* pause is stored (PauseStored) and what a window has counted             *)
(* (WindowCounted).                                                        *)
(***************************************************************************)
EXTENDS CacheQueue, FiniteSetTheorems, SequenceTheorems, TLAPS

Shape ==
    /\ DOMAIN run = Callers
    /\ \A c \in Callers : "pc" \in DOMAIN run[c]
    /\ budget \in BudgetRecord /\ budget.start <= 0
    /\ limited \in [Callers -> Nat]

LockKept == \A c \in Callers : run[c].pc \in Draining <=> lock = c

RoomLeft ==
    \A c \in Callers : run[c].pc \in {"ask", "charge"} => Current(budget, 0).used < Limit

BudgetInv == Shape /\ LockKept /\ RoomLeft /\ NeverOverdrawn

-----------------------------------------------------------------------------
(* The budget's operators. *)

\* The window in force is the stored one or a fresh one.
LEMMA CurrentFacts ==
    ASSUME NEW w \in BudgetRecord, w.start <= 0
    PROVE  /\ Current(w, 0) \in BudgetRecord /\ Current(w, 0).start <= 0
           /\ Current(w, 0).used \in {0, w.used}
           /\ Current(w, 0).used # 0 => 0 - w.start < Window
BY BudgetAssumption DEF Current, BudgetRecord

\* A charge counts one more game in the window in force.
LEMMA ChargeFacts ==
    ASSUME NEW w \in BudgetRecord, w.start <= 0
    PROVE  /\ Charge(w, 0) \in BudgetRecord /\ Charge(w, 0).start <= 0
           /\ Charge(w, 0).used = Current(w, 0).used + 1
BY CurrentFacts DEF Charge, BudgetRecord

\* Storing a pause leaves the window as it is.
LEMMA PausedUntilFacts ==
    ASSUME NEW w \in BudgetRecord, w.start <= 0, NEW until \in Int
    PROVE  /\ PausedUntil(w, until) \in BudgetRecord
           /\ PausedUntil(w, until).start <= 0
           /\ PausedUntil(w, until).used = w.used
BY DEF PausedUntil, BudgetRecord

\* Where something remains, the window has room.
LEMMA RemainingFacts ==
    ASSUME NEW w \in BudgetRecord, w.start <= 0, Remaining(w, 0) > 0
    PROVE  Current(w, 0).used < Limit
BY CurrentFacts, BudgetAssumption DEF Remaining, BudgetRecord

\* A window that is open after a tick was open before it.
LEMMA TickFacts ==
    ASSUME NEW w \in BudgetRecord, w.start <= 0, NEW v \in BudgetRecord,
           v = [w EXCEPT !.start = Before(@), !.paused = Before(@)]
    PROVE  /\ v.start <= 0 /\ v.used = w.used
           /\ Current(v, 0).used \in {0, Current(w, 0).used}
BY BudgetAssumption DEF Before, Past, Current, BudgetRecord

-----------------------------------------------------------------------------
(* What a step of one caller may do to its place, the lock and the budget. *)

Moves(c, pcs) ==
    /\ DOMAIN run' = Callers
    /\ \A d \in Callers : "pc" \in DOMAIN run'[d]
    /\ \A d \in Callers \ {c} : run'[d].pc = run[d].pc
    /\ run'[c].pc \in pcs

Elsewhere == Pcs \ Draining

\* The caller stays outside a drain.
Outside(c) ==
    run[c].pc \notin Draining /\ Moves(c, Elsewhere) /\ UNCHANGED <<lock, budget, limited>>

\* It takes the free lock.
Takes(c) ==
    lock = Nobody /\ lock' = c /\ Moves(c, {"check"}) /\ UNCHANGED <<budget, limited>>

\* It lets the lock go, and may store a pause.
LetsGo(c) ==
    /\ run[c].pc \in Draining /\ lock' = Nobody /\ Moves(c, Elsewhere)
    /\ budget' \in {budget, PausedUntil(budget, limited[c])}
    /\ UNCHANGED limited

\* It goes on under the lock, with room left if it is about to charge a game.
GoesOn(c) ==
    /\ run[c].pc \in Draining /\ Moves(c, Draining)
    /\ run'[c].pc \in {"ask", "charge"} =>
         run[c].pc = "ask" \/ Remaining(budget, 0) > 0
    /\ limited' \in [Callers -> Nat]
    /\ UNCHANGED <<lock, budget>>

\* Outside a drain nothing of the budget is touched.
LEMMA OutsideKeeps ==
    ASSUME BudgetInv, NEW c \in Callers, Outside(c)
    PROVE  BudgetInv'
BY DEF BudgetInv, Shape, LockKept, RoomLeft, NeverOverdrawn, Outside, Moves, Elsewhere, Draining

\* Taking the free lock keeps the invariant.
LEMMA TakesKeeps ==
    ASSUME BudgetInv, NEW c \in Callers, Takes(c)
    PROVE  BudgetInv'
BY QueueAssumption
   DEF BudgetInv, Shape, LockKept, RoomLeft, NeverOverdrawn, Takes, Moves, Draining

\* Letting the lock go keeps it, with or without a pause stored.
LEMMA LetsGoKeeps ==
    ASSUME BudgetInv, NEW c \in Callers, LetsGo(c)
    PROVE  BudgetInv'
<1>1. budget' \in BudgetRecord /\ budget'.start <= 0 /\ budget'.used = budget.used
  BY PausedUntilFacts DEF BudgetInv, Shape, LetsGo
<1>2. lock = c
  BY DEF BudgetInv, LockKept, LetsGo
<1>3. \A d \in Callers : run'[d].pc \notin Draining
  BY <1>2 DEF BudgetInv, LockKept, LetsGo, Moves, Elsewhere
<1>4. Nobody \notin Callers
  BY QueueAssumption
<1>5. Shape'
  BY <1>1 DEF BudgetInv, Shape, LetsGo, Moves
<1>6. LockKept'
  BY <1>3, <1>4 DEF LockKept, LetsGo
<1>7. RoomLeft'
  BY <1>3 DEF RoomLeft, Draining
<1>8. NeverOverdrawn'
  BY <1>1 DEF BudgetInv, NeverOverdrawn
<1> QED
  BY <1>5, <1>6, <1>7, <1>8 DEF BudgetInv

\* Going on under the lock keeps it: there is room before a request.
LEMMA GoesOnKeeps ==
    ASSUME BudgetInv, NEW c \in Callers, GoesOn(c)
    PROVE  BudgetInv'
<1>1. Shape'
  BY DEF BudgetInv, Shape, GoesOn, Moves
<1>2. LockKept'
  BY DEF BudgetInv, LockKept, GoesOn, Moves
<1>3. RoomLeft'
  <2> SUFFICES ASSUME NEW d \in Callers, run'[d].pc \in {"ask", "charge"}
               PROVE  Current(budget, 0).used < Limit
    BY DEF RoomLeft, GoesOn
  <2>1. CASE d = c
    BY <2>1, RemainingFacts DEF BudgetInv, Shape, RoomLeft, GoesOn
  <2>2. CASE d # c
    BY <2>2 DEF BudgetInv, RoomLeft, GoesOn, Moves
  <2> QED
    BY <2>1, <2>2
<1>4. NeverOverdrawn'
  BY DEF BudgetInv, NeverOverdrawn, GoesOn
<1> QED
  BY <1>1, <1>2, <1>3, <1>4 DEF BudgetInv

-----------------------------------------------------------------------------
(* The actions are such steps. *)

\* The places outside a drain.
LEMMA ElsewhereFacts ==
    /\ \A pc \in {"off", "fill", "put", "wait", "pace", "cancel", "report", "finish", "done"} :
         pc \in Elsewhere /\ pc \notin Draining
    /\ \A c \in Callers : AfterDrain(c) \in {"off", "cancel", "finish"}
BY DEF Elsewhere, Draining, Pcs, AfterDrain

\* Filling the queue happens outside a drain.
LEMMA FillingIsOutside ==
    ASSUME Shape, NEW c \in Callers,
           BulkStart(c) \/ ScanStart(c) \/ Skip(c) \/ EnqueueRead(c) \/ EnqueueWrite(c)
             \/ FillEnd(c) \/ AddStart(c)
    PROVE  Outside(c)
<1> USE ElsewhereFacts DEF Shape, Outside, Moves
<1>1. CASE BulkStart(c)
  BY <1>1 DEF BulkStart, stored
<1>2. CASE ScanStart(c)
  <2>1. run[c].pc = "off" /\ UNCHANGED <<lock, budget, limited>>
    BY <1>2 DEF ScanStart
  <2>2. \/ run' = run
        \/ \E todo : run' = [run EXCEPT ![c] = [Idle EXCEPT !.pc = "fill", !.todo = todo,
                                                         !.known = CachedGames]]
    BY <1>2 DEF ScanStart
  <2>3. \A todo : LET r == [Idle EXCEPT !.pc = "fill", !.todo = todo, !.known = CachedGames]
                 IN  r.pc = "fill" /\ "pc" \in DOMAIN r
    BY DEF Idle
  <2>4. Moves(c, {"off", "fill"})
    BY <2>1, <2>2, <2>3
  <2> QED
    BY <2>1, <2>4
<1>3. CASE Skip(c)
  BY <1>3 DEF Skip, stored
<1>4. CASE EnqueueRead(c)
  <2>1. PICK k \in run[c].todo :
          run' = [run EXCEPT ![c].todo = @ \ {k}, ![c].wanted = @ \cup {k},
                             ![c].keys = IF c \in CacheNow THEN Append(@, k) ELSE @,
                             ![c].rom = IF k \in Keys(queue) THEN NoRom ELSE k,
                             ![c].pc = IF k \in Keys(queue) THEN "fill" ELSE "put"]
    BY <1>4 DEF EnqueueRead
  <2>2. run'[c].pc \in {"fill", "put"}
    BY <2>1
  <2>3. Moves(c, {"fill", "put"})
    BY <2>1, <2>2
  <2>4. run[c].pc = "fill" /\ UNCHANGED <<lock, budget, limited>>
    BY <1>4 DEF EnqueueRead, stored
  <2>5. run[c].pc \notin Draining
    BY <2>4 DEF Draining
  <2> QED
    BY <2>3, <2>4, <2>5
<1>5. CASE EnqueueWrite(c)
  BY <1>5 DEF EnqueueWrite
<1>6. CASE FillEnd(c)
  BY <1>6 DEF FillEnd, stored
<1>7. CASE AddStart(c)
  <2>1. PICK k \in Wants[c] :
          \/ run' = [run EXCEPT ![c].pc = "done"]
          \/ run' = [run EXCEPT ![c].rom = IF k \in Keys(queue) THEN NoRom ELSE k,
                                ![c].wanted = {k}, ![c].keys = <<k>>,
                                ![c].pc = IF k \in Keys(queue) THEN "wait" ELSE "put"]
    BY <1>7 DEF AddStart
  <2>2. run'[c].pc \in {"done", "wait", "put"}
    BY <2>1
  <2>3. Moves(c, {"done", "wait", "put"})
    BY <2>1, <2>2
  <2>4. run[c].pc = "off" /\ UNCHANGED <<lock, budget, limited>>
    BY <1>7 DEF AddStart
  <2>5. run[c].pc \notin Draining
    BY <2>4 DEF Draining
  <2> QED
    BY <2>3, <2>4, <2>5
<1> QED
  BY <1>1, <1>2, <1>3, <1>4, <1>5, <1>6, <1>7

\* So does what a run does after its drain.
LEMMA EndingIsOutside ==
    ASSUME Shape, NEW c \in Callers,
           StopWaiting(c) \/ PaceGivenUp(c) \/ Cancel(c) \/ BulkReport(c) \/ ScanReport(c)
             \/ AddFinish(c)
    PROVE  Outside(c)
<1> USE ElsewhereFacts DEF Shape, Outside, Moves
<1>1. CASE StopWaiting(c)
  BY <1>1 DEF StopWaiting, stored
<1>2. CASE PaceGivenUp(c)
  BY <1>2 DEF PaceGivenUp, stored, Idle
<1>3. CASE Cancel(c)
  BY <1>3 DEF Cancel
<1>4. CASE BulkReport(c)
  BY <1>4 DEF BulkReport, stored, Done, Idle
<1>5. CASE ScanReport(c)
  BY <1>5 DEF ScanReport, Idle
<1>6. CASE AddFinish(c)
  BY <1>6 DEF AddFinish, Done, Idle
<1> QED
  BY <1>1, <1>2, <1>3, <1>4, <1>5, <1>6

\* The ways into a drain take the free lock.
LEMMA LockIsTaken ==
    ASSUME Shape, NEW c \in Callers, TakeLock(c) \/ PaceEnd(c) \/ (c = Worker /\ WorkerStart)
    PROVE  Takes(c)
BY DEF Shape, TakeLock, PaceEnd, WorkerStart, BeginDrain, Takes, Moves, stored

\* A drain that stops is left, and the lock is free.
LEMMA StopMoves ==
    ASSUME Shape, NEW c \in Callers, NEW outcome, StopDrain(c, outcome)
    PROVE  Moves(c, Elsewhere) /\ lock' = Nobody
BY ElsewhereFacts DEF Shape, StopDrain, Moves, Idle

\* The ways out of a drain let the lock go.
LEMMA StopLetsGo ==
    ASSUME Shape, NEW c \in Callers,
           \/ DrainPaused(c) \/ DrainLimited(c) \/ DrainTimeLimit(c) \/ NothingLeft(c)
           \/ BudgetExhausted(c) \/ PaceBegin(c)
           \/ SettleLimited(c) \/ SettleAuthRejected(c) \/ SettleFailed(c)
    PROVE  LetsGo(c)
<1> USE StopMoves DEF LetsGo, Draining
<1>1. CASE DrainPaused(c)
  BY <1>1 DEF DrainPaused, stored
<1>2. CASE DrainLimited(c)
  BY <1>2 DEF DrainLimited
<1>3. CASE DrainTimeLimit(c)
  BY <1>3 DEF DrainTimeLimit, stored
<1>4. CASE NothingLeft(c)
  BY <1>4 DEF NothingLeft, stored
<1>5. CASE BudgetExhausted(c)
  BY <1>5 DEF BudgetExhausted, NeedsRequest, stored
<1>6. CASE PaceBegin(c)
  BY <1>6, ElsewhereFacts DEF PaceBegin, NeedsRequest, Moves, Shape, stored
<1>7. CASE SettleLimited(c)
  BY <1>7 DEF SettleLimited
<1>8. CASE SettleAuthRejected(c)
  BY <1>8 DEF SettleAuthRejected, stored
<1>9. CASE SettleFailed(c)
  BY <1>9 DEF SettleFailed
<1> QED
  BY <1>1, <1>2, <1>3, <1>4, <1>5, <1>6, <1>7, <1>8, <1>9

\* The steps in between keep the lock.
LEMMA DrainGoesOn ==
    ASSUME Shape, NEW c \in Callers,
           DrainGoOn(c) \/ AnsweredLocally(c) \/ Request(c) \/ SettleDone(c)
    PROVE  GoesOn(c)
<1> USE DEF Shape, GoesOn, Moves, Draining
<1>1. CASE DrainGoOn(c)
  BY <1>1 DEF DrainGoOn, stored
<1>2. CASE AnsweredLocally(c)
  BY <1>2 DEF AnsweredLocally
<1>3. CASE Request(c)
  BY <1>3 DEF Request, NeedsRequest, stored
<1>4. CASE SettleDone(c)
  BY <1>4 DEF SettleDone
<1> QED
  BY <1>1, <1>2, <1>3, <1>4

\* A 429 is remembered as a number of ticks.
LEMMA LimitedStays ==
    ASSUME Shape, NEW c \in Callers, AnsweredWith429(c) \/ NotLimited
    PROVE  limited' \in [Callers -> Nat]
BY QueueAssumption DEF Shape, AnsweredWith429, NotLimited

\* An answer leaves the caller in its drain.
LEMMA AnswerGoesOn ==
    ASSUME Shape, NEW c \in Callers,
           \/ AnswerFailed(c) \/ AnswerAuthRejected(c) \/ AnswerNoMatch(c)
           \/ AnswerKnown(c) \/ AnswerCached(c)
    PROVE  GoesOn(c)
<1> USE LimitedStays DEF Shape, GoesOn, Moves, Draining, Answer
<1>1. CASE AnswerFailed(c)
  BY <1>1 DEF AnswerFailed
<1>2. CASE AnswerAuthRejected(c)
  BY <1>2 DEF AnswerAuthRejected
<1>3. CASE AnswerNoMatch(c)
  BY <1>3 DEF AnswerNoMatch
<1>4. CASE AnswerKnown(c)
  BY <1>4 DEF AnswerKnown
<1>5. CASE AnswerCached(c)
  BY <1>5 DEF AnswerCached
<1> QED
  BY <1>1, <1>2, <1>3, <1>4, <1>5

-----------------------------------------------------------------------------
(* The steps that are of no caller alone. *)

\* The charge fits into the window: nobody else charged since there was room.
LEMMA ChargeKeeps ==
    ASSUME BudgetInv, NEW c \in Callers, ChargeGame(c)
    PROVE  BudgetInv'
<1>1. /\ budget' \in BudgetRecord /\ budget'.start <= 0
      /\ budget'.used = Current(budget, 0).used + 1
  BY ChargeFacts DEF BudgetInv, Shape, ChargeGame
<1>2. Current(budget, 0).used < Limit
  BY DEF BudgetInv, RoomLeft, ChargeGame
<1>3. Moves(c, {"settle"}) /\ run[c].pc \in Draining /\ UNCHANGED <<lock, limited>>
  BY DEF BudgetInv, Shape, ChargeGame, Moves, Draining
<1>4. Shape'
  BY <1>1, <1>3 DEF BudgetInv, Shape, Moves
<1>5. LockKept'
  BY <1>3 DEF BudgetInv, LockKept, Moves, Draining
<1>6. RoomLeft'
  \* The lock is c's, so no other caller is about to charge.
  BY <1>3, <1>5 DEF RoomLeft, LockKept, Moves, Draining
<1>7. NeverOverdrawn'
  BY <1>1, <1>2, CurrentFacts, BudgetAssumption
     DEF BudgetInv, Shape, NeverOverdrawn, BudgetRecord
<1> QED
  BY <1>4, <1>5, <1>6, <1>7 DEF BudgetInv

\* A tick may close a window, and never opens room that was not there.
LEMMA TickKeeps ==
    ASSUME BudgetInv, Tick
    PROVE  BudgetInv'
<1>1. budget' \in BudgetRecord
  <2>1. \A t \in Int : Before(t) \in Int
    BY BudgetAssumption DEF Before, Past
  <2> QED
    BY <2>1 DEF BudgetInv, Shape, Tick, BudgetRecord
<1>2. /\ budget'.start <= 0 /\ budget'.used = budget.used
      /\ Current(budget', 0).used \in {0, Current(budget, 0).used}
  BY <1>1, TickFacts DEF BudgetInv, Shape, Tick
<1>3. /\ DOMAIN run' = Callers
      /\ \A c \in Callers : "pc" \in DOMAIN run'[c] /\ run'[c].pc = run[c].pc
  BY DEF BudgetInv, Shape, Tick
<1>4. limited' \in [Callers -> Nat]
  BY DEF BudgetInv, Shape, Tick, Less
<1>5. Shape'
  BY <1>1, <1>2, <1>3, <1>4 DEF Shape
<1>6. LockKept'
  BY <1>3 DEF BudgetInv, LockKept, Tick
<1>7. RoomLeft'
  BY <1>2, <1>3, BudgetAssumption DEF BudgetInv, RoomLeft
<1>8. NeverOverdrawn'
  BY <1>2 DEF BudgetInv, NeverOverdrawn
<1> QED
  BY <1>5, <1>6, <1>7, <1>8 DEF BudgetInv

\* A process that dies frees its lock.
LEMMA DeathKeeps ==
    ASSUME BudgetInv, NEW procs \in SUBSET Callers, Dies(procs)
    PROVE  BudgetInv'
<1>1. /\ DOMAIN run' = Callers
      /\ \A c \in Callers \ procs : run'[c] = run[c]
      /\ \A c \in procs : "pc" \in DOMAIN run'[c] /\ run'[c].pc \in {"off", "done"}
  BY DEF Dies, Done, Idle
<1>2. Shape'
  BY <1>1 DEF BudgetInv, Shape, Dies, stored
<1>3. LockKept'
  BY <1>1, QueueAssumption DEF BudgetInv, LockKept, Dies, Draining
<1>4. RoomLeft'
  BY <1>1 DEF BudgetInv, RoomLeft, Dies, stored
<1>5. NeverOverdrawn'
  BY DEF BudgetInv, NeverOverdrawn, Dies, stored
<1> QED
  BY <1>2, <1>3, <1>4, <1>5 DEF BudgetInv

\* A step of a drain keeps the invariant.
LEMMA DrainStepKeeps ==
    ASSUME BudgetInv, NEW c \in Callers, DrainStep(c)
    PROVE  BudgetInv'
<1>1. CASE PaceGivenUp(c)
  BY <1>1, EndingIsOutside, OutsideKeeps DEF BudgetInv
<1>2. CASE PaceEnd(c)
  BY <1>2, LockIsTaken, TakesKeeps DEF BudgetInv
<1>3. CASE \/ DrainPaused(c) \/ DrainLimited(c) \/ DrainTimeLimit(c) \/ NothingLeft(c)
           \/ BudgetExhausted(c) \/ PaceBegin(c)
           \/ SettleLimited(c) \/ SettleAuthRejected(c) \/ SettleFailed(c)
  BY <1>3, StopLetsGo, LetsGoKeeps DEF BudgetInv
<1>4. CASE DrainGoOn(c) \/ AnsweredLocally(c) \/ Request(c) \/ SettleDone(c)
  BY <1>4, DrainGoesOn, GoesOnKeeps DEF BudgetInv
<1>5. CASE \/ AnswerFailed(c) \/ AnswerAuthRejected(c) \/ AnswerNoMatch(c)
           \/ AnswerKnown(c) \/ AnswerCached(c)
  BY <1>5, AnswerGoesOn, GoesOnKeeps DEF BudgetInv
<1>6. CASE ChargeGame(c)
  BY <1>6, ChargeKeeps
<1> QED
  BY <1>1, <1>2, <1>3, <1>4, <1>5, <1>6 DEF DrainStep

\* So does a step of a run.
LEMMA RunStepKeeps ==
    ASSUME BudgetInv, NEW c \in Callers, RunStep(c) \/ BulkStart(c) \/ ScanStart(c) \/ AddStart(c)
    PROVE  BudgetInv'
<1>1. CASE \/ BulkStart(c) \/ ScanStart(c) \/ Skip(c) \/ EnqueueRead(c) \/ EnqueueWrite(c)
           \/ FillEnd(c) \/ AddStart(c)
  BY <1>1, FillingIsOutside, OutsideKeeps DEF BudgetInv
<1>2. CASE StopWaiting(c) \/ Cancel(c) \/ BulkReport(c) \/ ScanReport(c) \/ AddFinish(c)
  BY <1>2, EndingIsOutside, OutsideKeeps DEF BudgetInv
<1>3. CASE TakeLock(c)
  BY <1>3, LockIsTaken, TakesKeeps DEF BudgetInv
<1>4. CASE DrainStep(c)
  BY <1>4, DrainStepKeeps
<1> QED
  BY <1>1, <1>2, <1>3, <1>4 DEF RunStep

\* The user and the clock of the emulator touch none of it.
LEMMA OthersKeep ==
    ASSUME BudgetInv,
           \/ \E c \in Callers : Abort(c)
           \/ \E g \in Games : RemoveGame(g)
           \/ Play \/ PlayEnds \/ ServiceLimited \/ MissExpires \/ UNCHANGED vars
    PROVE  BudgetInv'
<1>1. /\ DOMAIN run' = Callers
      /\ \A c \in Callers : "pc" \in DOMAIN run'[c] /\ run'[c].pc = run[c].pc
      /\ UNCHANGED <<lock, budget>>
      /\ limited' \in [Callers -> Nat]
  BY QueueAssumption
     DEF BudgetInv, Shape, Abort, RemoveGame, Play, PlayEnds, ServiceLimited, MissExpires,
         stored, vars
<1> QED
  BY <1>1 DEF BudgetInv, Shape, LockKept, RoomLeft, NeverOverdrawn

-----------------------------------------------------------------------------
\* Nothing is charged at first.
LEMMA BudgetInvInit == Init => BudgetInv
<1> SUFFICES ASSUME Init PROVE BudgetInv
  OBVIOUS
<1>1. Shape
  BY BudgetAssumption DEF Init, Shape, Idle, BudgetRecord, Past
<1>2. LockKept /\ RoomLeft
  BY QueueAssumption DEF Init, Idle, LockKept, RoomLeft, Draining
<1>3. NeverOverdrawn
  BY BudgetAssumption DEF Init, NeverOverdrawn
<1> QED
  BY <1>1, <1>2, <1>3 DEF BudgetInv

\* Every step keeps the invariant.
LEMMA BudgetInvStep == BudgetInv /\ [Next]_vars => BudgetInv'
<1> SUFFICES ASSUME BudgetInv, [Next]_vars PROVE BudgetInv'
  OBVIOUS
<1>1. Runs \subseteq Callers /\ Worker \in Callers /\ Scans \cup {Worker} \subseteq Callers
  BY DEF Callers, Runs
<1>2. CASE \E c \in Runs : BulkStart(c) \/ ScanStart(c) \/ AddStart(c) \/ RunStep(c)
  BY <1>1, <1>2, RunStepKeeps
<1>3. CASE DrainStep(Worker)
  BY <1>1, <1>3, DrainStepKeeps
<1>4. CASE WorkerStart
  BY <1>1, <1>4, LockIsTaken, TakesKeeps DEF BudgetInv
<1>5. CASE \E c \in Runs : RunDies(c)
  BY <1>1, <1>5, DeathKeeps DEF RunDies
<1>6. CASE ServiceDies
  BY <1>1, <1>6, DeathKeeps DEF ServiceDies
<1>7. CASE Tick
  BY <1>7, TickKeeps
<1>8. CASE \/ \E c \in Runs : Abort(c)
           \/ \E g \in Games : RemoveGame(g)
           \/ Play \/ PlayEnds \/ ServiceLimited \/ MissExpires \/ UNCHANGED vars
  BY <1>1, <1>8, OthersKeep
<1> QED
  BY <1>2, <1>3, <1>4, <1>5, <1>6, <1>7, <1>8 DEF Next

\* The invariant of the budget holds.
LEMMA BudgetInvHolds == Spec => []BudgetInv
BY BudgetInvInit, BudgetInvStep, PTL DEF Spec

\* Only one caller drains at a time ("Only one caller drains at a time",
\* rom_browser.py:690): whoever is between taking the lock and letting it go holds it.
THEOREM DrainsExclude == Spec => []OneDrain
<1>1. BudgetInv => OneDrain
  BY DEF BudgetInv, LockKept, OneDrain
<1> QED
  BY <1>1, BudgetInvHolds, PTL

\* No window is charged for more than Limit games, whoever drains.
THEOREM WindowsHold == Spec => []NeverOverdrawn
<1>1. BudgetInv => NeverOverdrawn
  BY DEF BudgetInv
<1> QED
  BY <1>1, BudgetInvHolds, PTL

-----------------------------------------------------------------------------
(* What a filter keeps. *)

\* A set of naturals has a smallest member: what an induction over the length of a sequence
\* is made of here.
LEMMA SmallestIn ==
    ASSUME NEW T \in SUBSET Nat, T # {}
    PROVE  \E n \in T : \A m \in T : n <= m
<1>1. \E n \in T : \A m \in T : ~(<<m, n>> \in OpToRel(<, Nat))
  BY NatLessThanWellFounded, WFMin
<1>2. OpToRel(<, Nat) = {ss \in Nat \X Nat : ss[1] < ss[2]}
  BY Zenon DEF OpToRel
<1>3. \E n \in T : \A m \in T : ~(<<m, n>> \in {ss \in Nat \X Nat : ss[1] < ss[2]})
  BY <1>1, <1>2, Zenon
<1>4. \A m, n \in T : <<m, n>> \in {ss \in Nat \X Nat : ss[1] < ss[2]} <=> m < n
  OBVIOUS
<1>5. PICK n \in T : \A m \in T : ~(m < n)
  BY <1>3, <1>4, Zenon
<1>6. \A m \in T : n <= m
  BY <1>5
<1> QED
  BY <1>6

\* The recursion of Those up to n.
Keeping(f, s, S, n) ==
    f = [i \in 0..n |->
           IF i = 0 THEN <<>>
           ELSE IF s[i] \in S THEN Append(f[i - 1], s[i]) ELSE f[i - 1]]

\* There is a function that recurses like Those.
LEMMA KeepingExists ==
    ASSUME NEW s, Len(s) \in Nat, NEW S
    PROVE  \E f : Keeping(f, s, S, Len(s))
<1> DEFINE Bad == {n \in 0..Len(s) : ~\E f : Keeping(f, s, S, n)}
<1>1. SUFFICES ASSUME Bad # {} PROVE FALSE
  OBVIOUS
<1>2. PICK n \in Bad : \A m \in Bad : n <= m
  <2>1. Bad \in SUBSET Nat
    OBVIOUS
  <2> QED
    BY <1>1, <2>1, SmallestIn
<1>3. n # 0
  <2>1. Keeping([i \in 0..0 |-> <<>>], s, S, 0)
    BY DEF Keeping
  <2> QED
    BY <2>1
<1>4. n - 1 \in 0..Len(s) /\ n - 1 \notin Bad
  BY <1>2, <1>3
<1>5. PICK f : Keeping(f, s, S, n - 1)
  BY <1>4
<1> DEFINE g == [i \in 0..n |-> IF i < n THEN f[i]
                                ELSE IF s[n] \in S THEN Append(f[n - 1], s[n]) ELSE f[n - 1]]
<1>6. ASSUME NEW i \in 0..n
      PROVE  g[i] = IF i = 0 THEN <<>>
                    ELSE IF s[i] \in S THEN Append(g[i - 1], s[i]) ELSE g[i - 1]
  <2>1. CASE i = n
    <3>1. n \in 0..n /\ n - 1 \in 0..n /\ n - 1 < n /\ ~(n < n)
      BY <1>4
    <3>2. g[n - 1] = f[n - 1]
      BY <3>1
    <3>3. g[n] = IF s[n] \in S THEN Append(f[n - 1], s[n]) ELSE f[n - 1]
      BY <3>1
    <3> QED
      BY <1>3, <2>1, <3>2, <3>3
  <2>2. CASE i < n
    <3>1. n \in Nat /\ i \in 0..(n - 1) /\ (i # 0 => i - 1 \in 0..n /\ i - 1 < n)
      BY <1>4, <2>2
    <3>2. g[i] = f[i] /\ (i # 0 => g[i - 1] = f[i - 1])
      BY <2>2, <3>1
    <3>3. f[i] = IF i = 0 THEN <<>>
                 ELSE IF s[i] \in S THEN Append(f[i - 1], s[i]) ELSE f[i - 1]
      BY <1>5, <3>1 DEF Keeping
    <3> HIDE DEF g
    <3> QED
      BY <3>2, <3>3
  <2> QED
    BY <2>1, <2>2
<1>7. Keeping(g, s, S, n)
  BY <1>6 DEF Keeping
<1> QED
  BY <1>2, <1>7

\* What a filter keeps: those that are in S, all of them and no others.
LEMMA ThoseFacts ==
    ASSUME NEW X, NEW s \in Seq(X), NEW S
    PROVE  /\ Those(s, S) \in Seq(X)
           /\ \A i \in DOMAIN s : s[i] \in S => \E j \in DOMAIN Those(s, S) : Those(s, S)[j] = s[i]
           /\ \A j \in DOMAIN Those(s, S) :
                Those(s, S)[j] \in S /\ \E i \in DOMAIN s : Those(s, S)[j] = s[i]
<1>1. PICK f : Keeping(f, s, S, Len(s)) /\ Those(s, S) = f[Len(s)]
  <2> DEFINE kept == CHOOSE f : Keeping(f, s, S, Len(s))
  <2>1. Those(s, S) = kept[Len(s)]
    BY DEF Those, Keeping
  <2>2. Keeping(kept, s, S, Len(s))
    BY KeepingExists
  <2> QED
    BY <2>1, <2>2
<1> DEFINE Good(n) ==
      /\ f[n] \in Seq(X)
      /\ \A i \in 1..n : s[i] \in S => \E j \in DOMAIN f[n] : f[n][j] = s[i]
      /\ \A j \in DOMAIN f[n] : f[n][j] \in S /\ \E i \in 1..n : f[n][j] = s[i]
      Bad == {n \in 0..Len(s) : ~Good(n)}
<1>2. Len(s) \in Nat /\ DOMAIN s = 1..Len(s)
  OBVIOUS
<1>3. SUFFICES ASSUME Bad # {} PROVE FALSE
  <2>1. Good(Len(s))
    BY <1>2, <1>3
  <2> DEFINE t == f[Len(s)]
  <2>2. /\ t \in Seq(X)
        /\ \A i \in DOMAIN s : s[i] \in S => \E j \in DOMAIN t : t[j] = s[i]
        /\ \A j \in DOMAIN t : t[j] \in S /\ \E i \in DOMAIN s : t[j] = s[i]
    BY <1>2, <2>1
  <2>3. Those(s, S) = t
    BY <1>1
  <2> HIDE DEF t
  <2> QED
    BY <2>2, <2>3
<1>4. PICK n \in Bad : \A m \in Bad : n <= m
  <2>1. Bad \in SUBSET Nat
    BY <1>2
  <2> QED
    BY <1>3, <2>1, SmallestIn
<1>5. n # 0
  <2>1. f[0] = <<>>
    BY <1>1, <1>2 DEF Keeping
  <2>2. Good(0)
    BY <2>1
  <2> QED
    BY <2>2
<1>6. n \in 1..Len(s) /\ n - 1 \in 0..Len(s) /\ s[n] \in X
  BY <1>2, <1>4, <1>5
<1>7. Good(n - 1)
  BY <1>4, <1>6
<1>8. f[n] = IF s[n] \in S THEN Append(f[n - 1], s[n]) ELSE f[n - 1]
  <2>1. n \in 0..Len(s)
    BY <1>6
  <2> QED
    BY <1>1, <1>5, <2>1 DEF Keeping
<1>9. CASE s[n] \notin S
  BY <1>4, <1>6, <1>7, <1>8, <1>9
<1>10. CASE s[n] \in S
  <2> DEFINE old == f[n - 1]
  <2>1. old \in Seq(X) /\ f[n] = Append(old, s[n])
    BY <1>7, <1>8, <1>10
  <2>2. /\ f[n] \in Seq(X) /\ Len(f[n]) = Len(old) + 1 /\ f[n][Len(old) + 1] = s[n]
        /\ \A j \in DOMAIN old : j \in DOMAIN f[n] /\ f[n][j] = old[j]
        /\ \A j \in DOMAIN f[n] : j \in DOMAIN old \/ j = Len(old) + 1
    BY <2>1, <1>6
  <2> HIDE DEF old
  <2>3. Len(old) + 1 \in DOMAIN f[n]
    BY <2>1, <2>2
  <2>4. \A i \in 1..n : s[i] \in S => \E j \in DOMAIN f[n] : f[n][j] = s[i]
    <3> SUFFICES ASSUME NEW i \in 1..n, s[i] \in S
                 PROVE  \E j \in DOMAIN f[n] : f[n][j] = s[i]
      OBVIOUS
    <3>1. CASE i = n
      BY <2>2, <2>3, <3>1
    <3>2. CASE i # n
      <4>1. i \in 1..(n - 1)
        BY <1>6, <3>2
      <4>2. PICK j \in DOMAIN old : old[j] = s[i]
        BY <1>7, <4>1 DEF old
      <4> QED
        BY <2>2, <4>2
    <3> QED
      BY <3>1, <3>2
  <2>5. \A j \in DOMAIN f[n] : f[n][j] \in S /\ \E i \in 1..n : f[n][j] = s[i]
    <3> SUFFICES ASSUME NEW j \in DOMAIN f[n]
                 PROVE  f[n][j] \in S /\ \E i \in 1..n : f[n][j] = s[i]
      OBVIOUS
    <3>1. n \in 1..n /\ \A i \in 1..(n - 1) : i \in 1..n
      BY <1>6
    <3>2. CASE j = Len(old) + 1
      BY <1>10, <2>2, <3>1, <3>2
    <3>3. CASE j \in DOMAIN old
      <4>1. old[j] \in S /\ \E i \in 1..(n - 1) : old[j] = s[i]
        BY <1>7, <3>3 DEF old
      <4> QED
        BY <2>2, <3>1, <3>3, <4>1
    <3> QED
      BY <2>2, <3>2, <3>3
  <2> QED
    BY <1>4, <2>2, <2>4, <2>5
<1> QED
  BY <1>9, <1>10

\* The keys that leave are gone, the others stay.
LEMMA WithoutFacts ==
    ASSUME NEW X, NEW q \in Seq(X), NEW ks
    PROVE  /\ Without(q, ks) \in Seq(X)
           /\ Keys(Without(q, ks)) = Keys(q) \ ks
<1> DEFINE S == {q[i] : i \in {j \in DOMAIN q : q[j].key \notin ks}}
<1>1. Without(q, ks) = Those(q, S)
  BY DEF Without
<1>2. \A i \in DOMAIN q : q[i] \in S <=> q[i].key \notin ks
  OBVIOUS
<1> HIDE DEF S
<1> QED
  BY <1>1, <1>2, ThoseFacts DEF Keys

-----------------------------------------------------------------------------
(* Types. *)

Rows == [key : Roms, attempts : 0..(MaxAttempts - 1)]

Fields == {"pc", "todo", "rom", "attempts", "wanted", "mine", "keys", "known", "sent",
           "paced", "age", "outcome", "abort", "handled"}

\* Where a caller is at work on the ROM it has taken.
AtRom == {"put", "ask", "charge", "settle"}
RomOK(r) ==
    /\ r.pc \in AtRom => r.rom \in Roms
    /\ r.pc \in {"charge", "settle"} /\ r.outcome = "cached" => GameOf[r.rom] \in Games
RomTaken == \A c \in Callers : RomOK(run[c])

QueueTypes == TypeOK /\ RomTaken

\* A record of RunRecord, field by field.
LEMMA RecordFields ==
    ASSUME NEW r \in RunRecord
    PROVE  /\ DOMAIN r = Fields /\ r = [f \in Fields |-> r[f]]
           /\ r.pc \in Pcs /\ r.todo \subseteq Roms /\ r.rom \in Roms \cup {NoRom}
           /\ r.attempts \in Nat /\ r.wanted \subseteq Roms /\ r.mine \subseteq Roms
           /\ r.keys \in Seq(Roms) /\ r.known \subseteq Games /\ r.sent \in Nat
           /\ r.paced \in BOOLEAN /\ r.age \in Nat /\ r.outcome \in Outcomes
           /\ r.abort \in BOOLEAN /\ r.handled \subseteq Roms
BY DEF RunRecord, Fields

\* And back: fields of the types make a RunRecord.
LEMMA FieldsRecord ==
    ASSUME NEW r, r = [f \in Fields |-> r[f]],
           r.pc \in Pcs, r.todo \subseteq Roms, r.rom \in Roms \cup {NoRom},
           r.attempts \in Nat, r.wanted \subseteq Roms, r.mine \subseteq Roms,
           r.keys \in Seq(Roms), r.known \subseteq Games, r.sent \in Nat,
           r.paced \in BOOLEAN, r.age \in Nat, r.outcome \in Outcomes,
           r.abort \in BOOLEAN, r.handled \subseteq Roms
    PROVE  r \in RunRecord
BY DEF RunRecord, Fields

\* One caller moves to a record of the type.
LEMMA RunTyped ==
    ASSUME run \in [Callers -> RunRecord], NEW c \in Callers, NEW r \in RunRecord,
           run' = [run EXCEPT ![c] = r], RomTaken, RomOK(r)
    PROVE  run' \in [Callers -> RunRecord] /\ RomTaken'
<1>1. run' \in [Callers -> RunRecord]
  OBVIOUS
<1>2. run'[c] = r /\ \A d \in Callers \ {c} : run'[d] = run[d]
  OBVIOUS
<1>3. RomTaken'
  BY <1>2 DEF RomTaken
<1> QED
  BY <1>1, <1>3

\* A caller that does nothing is of the type.
LEMMA IdleTyped == Idle \in RunRecord /\ Idle.pc = "off"
BY DEF Idle, RunRecord, Pcs, Outcomes

\* So is one that is done.
LEMMA DoneTyped == Done \in RunRecord /\ Done.pc = "done"
<1>1. [Idle EXCEPT !.pc = "done"] \in RunRecord
  BY IdleTyped DEF RunRecord, Pcs
<1> QED
  BY <1>1, IdleTyped DEF Done, RunRecord

\* A row that is put is in the queue, next to those that were.
LEMMA PutFacts ==
    ASSUME NEW q \in Seq(Rows), NEW row \in Rows
    PROVE  Put(q, row) \in Seq(Rows) /\ Keys(Put(q, row)) = Keys(q) \cup {row.key}
<1>1. CASE row.key \in Keys(q)
  <2>1. Place(q, row.key) \in DOMAIN q /\ q[Place(q, row.key)].key = row.key
    BY <1>1 DEF Keys, Place
  <2> DEFINE p == Place(q, row.key)
  <2>2. Put(q, row) = [q EXCEPT ![p] = row]
    BY <1>1 DEF Put
  <2> HIDE DEF p
  <2>3. /\ [q EXCEPT ![p] = row] \in Seq(Rows)
        /\ DOMAIN [q EXCEPT ![p] = row] = DOMAIN q
        /\ \A i \in DOMAIN q : [q EXCEPT ![p] = row][i].key = q[i].key
    BY <2>1 DEF p
  <2>4. Keys([q EXCEPT ![p] = row]) = Keys(q)
    BY <2>3 DEF Keys
  <2> QED
    BY <1>1, <2>2, <2>3, <2>4
<1>2. CASE row.key \notin Keys(q)
  <2>1. Put(q, row) = Append(q, row)
    BY <1>2 DEF Put
  <2>2. /\ Append(q, row) \in Seq(Rows) /\ DOMAIN Append(q, row) = 1..(Len(q) + 1)
        /\ DOMAIN q = 1..Len(q) /\ Len(q) \in Nat
        /\ \A i \in 1..Len(q) : Append(q, row)[i] = q[i]
        /\ Append(q, row)[Len(q) + 1] = row
    OBVIOUS
  <2>3. Keys(Append(q, row)) = Keys(q) \cup {row.key}
    BY <2>2 DEF Keys
  <2> QED
    BY <2>1, <2>2, <2>3
<1> QED
  BY <1>1, <1>2

\* The keys of a typed queue are ROMs, and each has its place.
LEMMA KeysTyped ==
    ASSUME NEW q \in Seq(Rows)
    PROVE  /\ Keys(q) \subseteq Roms
           /\ \A k \in Keys(q) : Place(q, k) \in DOMAIN q /\ q[Place(q, k)] \in Rows
<1>1. \A i \in DOMAIN q : q[i] \in Rows
  OBVIOUS
<1>2. \A k \in Keys(q) : Place(q, k) \in DOMAIN q
  BY DEF Keys, Place
<1> QED
  BY <1>1, <1>2 DEF Keys, Rows

\* A path that is remembered is a ROM's.
LEMMA WithPathTyped ==
    ASSUME patch \in [Games -> Roms \cup {NoRom}], NEW g, NEW k \in Roms
    PROVE  WithPath(g, k) \in [Games -> Roms \cup {NoRom}]
BY DEF WithPath

\* The ROM a drain picks is one that waits.
LEMMA NextRomTyped ==
    ASSUME TypeOK, NEW c \in Callers, Candidates(c) # <<>>
    PROVE  NextRom(c) \in Keys(queue) /\ NextRom(c) \in Roms
<1>1. queue \in Seq(Rows) /\ run[c].keys \in Seq(Roms)
  BY RecordFields DEF TypeOK, Rows
<1>2. NextRom(c) \in Keys(queue)
  <2>1. CASE c = Worker
    <3> DEFINE ks == [i \in DOMAIN queue |-> queue[i].key]
    <3>1. ks # <<>> /\ NextRom(c) = Head(ks)
      BY <2>1 DEF Candidates, NextRom
    <3>2. /\ ks \in Seq(Keys(queue)) /\ Len(ks) = Len(queue)
          /\ \A i \in DOMAIN queue : ks[i] = queue[i].key
      BY <1>1 DEF Keys
    <3> HIDE DEF ks
    <3> QED
      BY <3>1, <3>2
  <2>2. CASE c # Worker
    <3> DEFINE ks == Those(run[c].keys, Keys(queue))
    <3>1. ks # <<>> /\ NextRom(c) = Head(ks)
      BY <2>2 DEF Candidates, NextRom
    <3>2. ks \in Seq(Roms) /\ \A j \in DOMAIN ks : ks[j] \in Keys(queue)
      BY <1>1, ThoseFacts
    <3> HIDE DEF ks
    <3> QED
      BY <3>1, <3>2
  <2> QED
    BY <2>1, <2>2
<1> QED
  BY <1>1, <1>2, KeysTyped

\* What is left of a run's keys is still a sequence of ROMs.
LEMMA KeysLeftTyped ==
    ASSUME TypeOK, NEW c \in Callers
    PROVE  KeysLeft(c) \in Seq(Roms)
<1> DEFINE gone == {i \in DOMAIN run[c].keys :
                      \A j \in 1..i : run[c].keys[j] \notin Keys(queue)}
           s == run[c].keys
<1>1. s \in Seq(Roms)
  BY RecordFields DEF TypeOK
<1>2. Len(s) \in Nat /\ DOMAIN s = 1..Len(s)
  BY <1>1
<1>3. IsFiniteSet(1..Len(s)) /\ Cardinality(1..Len(s)) = Len(s)
  BY <1>2, FS_Interval
<1>4. IsFiniteSet(gone) /\ Cardinality(gone) \in Nat /\ Cardinality(gone) <= Len(s)
  BY <1>2, <1>3, FS_Subset, FS_CardinalityType
<1>5. KeysLeft(c) = SubSeq(s, Cardinality(gone) + 1, Len(s))
  BY DEF KeysLeft
<1> HIDE DEF gone, s
<1> QED
  BY <1>1, <1>2, <1>4, <1>5

\* A charge and a pause make a budget record.
LEMMA BudgetTyped ==
    ASSUME NEW w \in BudgetRecord
    PROVE  /\ Charge(w, 0) \in BudgetRecord
           /\ \A until \in Int : PausedUntil(w, until) \in BudgetRecord
<1>1. Current(w, 0) \in BudgetRecord
  BY DEF Current, BudgetRecord
<1>2. Charge(w, 0) \in BudgetRecord
  BY <1>1 DEF Charge, BudgetRecord
<1>3. ASSUME NEW until \in Int
      PROVE  PausedUntil(w, until) \in BudgetRecord
  BY DEF PausedUntil, BudgetRecord
<1> QED
  BY <1>2, <1>3

\* What the lemmas on one action start from.
LEMMA TypesNow ==
    ASSUME QueueTypes, NEW c \in Callers
    PROVE  /\ run \in [Callers -> RunRecord] /\ run[c] \in RunRecord /\ RomTaken
           /\ queue \in Seq(Rows) /\ Keys(queue) \subseteq Roms
           /\ CachedGames \subseteq Games /\ (c \in Runs => Wants[c] \subseteq Roms)
           /\ \A g \in CachedGames : patch[g] \in Roms
<1>1. /\ run \in [Callers -> RunRecord] /\ RomTaken /\ queue \in Seq(Rows)
      /\ patch \in [Games -> Roms \cup {NoRom}]
  BY DEF QueueTypes, TypeOK, Rows
<1> QED
  BY <1>1, KeysTyped, QueueAssumption DEF CachedGames

\* Filling the queue keeps the types.
LEMMA FillingTyped ==
    ASSUME QueueTypes, NEW c \in Callers,
           BulkStart(c) \/ ScanStart(c) \/ Skip(c) \/ EnqueueRead(c) \/ EnqueueWrite(c)
             \/ FillEnd(c) \/ AddStart(c)
    PROVE  QueueTypes'
<1> USE DEF stored, history
<1>0. /\ run \in [Callers -> RunRecord] /\ run[c] \in RunRecord /\ RomTaken
      /\ queue \in Seq(Rows) /\ Keys(queue) \subseteq Roms
      /\ CachedGames \subseteq Games /\ (c \in Runs => Wants[c] \subseteq Roms)
      /\ \A g \in CachedGames : patch[g] \in Roms
  BY TypesNow
<1>1. CASE BulkStart(c)
  <2> DEFINE r == [run[c] EXCEPT !.pc = "fill", !.todo = Wants[c], !.known = CachedGames]
  <2>1. Wants[c] \in SUBSET Roms /\ CachedGames \in SUBSET Games
    BY <1>0, <1>1 DEF BulkStart, Runs
  <2>2. r \in RunRecord
    BY <1>0, <2>1 DEF RunRecord, Pcs
  <2>3. run' = [run EXCEPT ![c] = r] /\ r.pc = "fill"
    BY <1>0, <1>1 DEF BulkStart, RunRecord
  <2> HIDE DEF r
  <2>4. run' \in [Callers -> RunRecord] /\ RomTaken'
    BY <1>0, <2>2, <2>3, RunTyped DEF AtRom, RomOK
  <2> QED
    BY <1>1, <2>4 DEF BulkStart, QueueTypes, TypeOK
<1>2. CASE ScanStart(c)
  <2>1. Wants[c] \in SUBSET Roms /\ CachedGames \in SUBSET Games
    BY <1>0, <1>2 DEF ScanStart, Runs
  <2>2. seen' \subseteq Roms /\ rescan' \in Nat
    BY <1>2, <2>1, BudgetAssumption DEF ScanStart, QueueTypes, TypeOK
  <2>3. run' \in [Callers -> RunRecord] /\ RomTaken'
    <3>1. CASE UNCHANGED run
      BY <1>0, <3>1 DEF RomTaken
    <3>2. ASSUME NEW new \in SUBSET Roms,
                 run' = [run EXCEPT ![c] = [Idle EXCEPT !.pc = "fill", !.todo = new,
                                                        !.known = CachedGames]]
          PROVE  run' \in [Callers -> RunRecord] /\ RomTaken'
      <4> DEFINE r == [Idle EXCEPT !.pc = "fill", !.todo = new, !.known = CachedGames]
      <4>1. r \in RunRecord
        BY <2>1, <3>2, IdleTyped DEF RunRecord, Pcs
      <4>2. run' = [run EXCEPT ![c] = r] /\ r.pc = "fill"
        BY <3>2, IdleTyped DEF RunRecord
      <4> HIDE DEF r
      <4> QED
        BY <1>0, <4>1, <4>2, RunTyped DEF AtRom, RomOK
    <3>3. (Wants[c] \ seen) \ KnownPaths \in SUBSET Roms
      BY <2>1
    <3>4. \/ UNCHANGED run
          \/ run' = [run EXCEPT ![c] = [Idle EXCEPT !.pc = "fill",
                                         !.todo = (Wants[c] \ seen) \ KnownPaths,
                                         !.known = CachedGames]]
      BY <1>2 DEF ScanStart
    <3> QED
      BY <3>1, <3>2, <3>3, <3>4
  <2> QED
    BY <1>2, <2>2, <2>3 DEF ScanStart, QueueTypes, TypeOK
<1>3. CASE Skip(c)
  <2>1. PICK k \in run[c].todo :
          run' = [run EXCEPT ![c].todo = @ \ {k},
                             ![c].handled = IF c \in Scans THEN @ \cup {k} ELSE @]
    BY <1>3 DEF Skip
  <2> DEFINE handled == IF c \in Scans THEN run[c].handled \cup {k} ELSE run[c].handled
             r == [run[c] EXCEPT !.todo = run[c].todo \ {k}, !.handled = handled]
  <2>2. k \in Roms /\ run[c].todo \ {k} \in SUBSET Roms /\ handled \in SUBSET Roms
    BY <1>0, <2>1, RecordFields
  <2>3. run' = [run EXCEPT ![c] = r]
    BY <1>0, <2>1 DEF RunRecord
  <2> HIDE DEF handled
  <2>4. r \in RunRecord /\ r.pc = "fill"
    BY <1>0, <1>3, <2>2 DEF RunRecord, Skip
  <2> HIDE DEF r
  <2>5. run' \in [Callers -> RunRecord] /\ RomTaken'
    BY <1>0, <2>3, <2>4, RunTyped DEF AtRom, RomOK
  <2> QED
    BY <1>3, <2>5 DEF Skip, QueueTypes, TypeOK
<1>4. CASE EnqueueRead(c)
  <2>1. PICK k \in run[c].todo :
          run' = [run EXCEPT ![c].todo = @ \ {k}, ![c].wanted = @ \cup {k},
                             ![c].keys = IF c \in CacheNow THEN Append(@, k) ELSE @,
                             ![c].rom = IF k \in Keys(queue) THEN NoRom ELSE k,
                             ![c].pc = IF k \in Keys(queue) THEN "fill" ELSE "put"]
    BY <1>4 DEF EnqueueRead
  <2> DEFINE keys == IF c \in CacheNow THEN Append(run[c].keys, k) ELSE run[c].keys
             rom == IF k \in Keys(queue) THEN NoRom ELSE k
             pc == IF k \in Keys(queue) THEN "fill" ELSE "put"
             r == [run[c] EXCEPT !.todo = run[c].todo \ {k}, !.wanted = run[c].wanted \cup {k},
                                 !.keys = keys, !.rom = rom, !.pc = pc]
  <2>2. /\ run[c].todo \ {k} \in SUBSET Roms /\ run[c].wanted \cup {k} \in SUBSET Roms
        /\ keys \in Seq(Roms) /\ rom \in Roms \cup {NoRom} /\ pc \in {"fill", "put"}
        /\ (pc = "put" => rom \in Roms)
    BY <1>0, <2>1, RecordFields
  <2>3. run' = [run EXCEPT ![c] = r]
    BY <1>0, <2>1 DEF RunRecord
  <2> HIDE DEF keys, rom, pc
  <2>4. r \in RunRecord /\ r.pc = pc /\ r.rom = rom
    BY <1>0, <2>2 DEF RunRecord, Pcs
  <2> HIDE DEF r
  <2>5. run' \in [Callers -> RunRecord] /\ RomTaken'
    BY <1>0, <2>2, <2>3, <2>4, RunTyped DEF AtRom, RomOK
  <2> QED
    BY <1>4, <2>5 DEF EnqueueRead, QueueTypes, TypeOK
<1>5. CASE EnqueueWrite(c)
  <2>1. run[c].rom \in Roms
    BY <1>5 DEF EnqueueWrite, QueueTypes, RomTaken, RomOK, AtRom
  <2> DEFINE row == [key |-> run[c].rom, attempts |-> 0]
             pc == IF c \in Adds THEN "wait" ELSE "fill"
             r == [run[c] EXCEPT !.mine = run[c].mine \cup {run[c].rom}, !.rom = NoRom, !.pc = pc]
  <2>2. row \in Rows
    BY <2>1, QueueAssumption DEF Rows
  <2>3. queue' \in Seq(Rows)
    BY <1>0, <1>5, <2>2, PutFacts DEF EnqueueWrite
  <2>4. fate' \in [Roms -> {"none", "queued", "dropped", "cancelled", "refused"}]
    BY <1>5, <2>1 DEF EnqueueWrite, QueueTypes, TypeOK
  <2>5. run[c].mine \cup {run[c].rom} \in SUBSET Roms /\ pc \in {"wait", "fill"}
    BY <1>0, <2>1, RecordFields
  <2>6. run' = [run EXCEPT ![c] = r]
    BY <1>0, <1>5 DEF EnqueueWrite, RunRecord
  <2> HIDE DEF pc
  <2>7. r \in RunRecord /\ r.pc = pc
    BY <1>0, <2>5 DEF RunRecord, Pcs
  <2> HIDE DEF r
  <2>8. run' \in [Callers -> RunRecord] /\ RomTaken'
    BY <1>0, <2>5, <2>6, <2>7, RunTyped DEF AtRom, RomOK
  <2> QED
    BY <1>5, <2>3, <2>4, <2>8 DEF EnqueueWrite, QueueTypes, TypeOK, Rows
<1>6. CASE FillEnd(c)
  <2> DEFINE pc == IF c \in CacheNow /\ ~AskedToStop(c) /\ run[c].wanted # {}
                   THEN "wait" ELSE "cancel"
             r == [run[c] EXCEPT !.pc = pc]
  <2>1. run' = [run EXCEPT ![c] = r]
    BY <1>0, <1>6 DEF FillEnd, RunRecord
  <2>2. pc \in {"wait", "cancel"}
    OBVIOUS
  <2> HIDE DEF pc
  <2>3. r \in RunRecord /\ r.pc = pc
    BY <1>0, <2>2 DEF RunRecord, Pcs
  <2> HIDE DEF r
  <2>4. run' \in [Callers -> RunRecord] /\ RomTaken'
    BY <1>0, <2>1, <2>2, <2>3, RunTyped DEF AtRom, RomOK
  <2> QED
    BY <1>6, <2>4 DEF FillEnd, QueueTypes, TypeOK
<1>7. CASE AddStart(c)
  <2>1. Wants[c] \subseteq Roms
    BY <1>0, <1>7 DEF AddStart, Runs
  <2>2. PICK k \in Wants[c] :
          \/ run' = [run EXCEPT ![c].pc = "done"] /\ patch' \in {patch, WithPath(GameOf[k], k)}
          \/ /\ run' = [run EXCEPT ![c].rom = IF k \in Keys(queue) THEN NoRom ELSE k,
                                   ![c].wanted = {k}, ![c].keys = <<k>>,
                                   ![c].pc = IF k \in Keys(queue) THEN "wait" ELSE "put"]
             /\ UNCHANGED patch
    BY <1>7 DEF AddStart
  <2>3. patch' \in [Games -> Roms \cup {NoRom}]
    BY <2>1, <2>2, WithPathTyped DEF QueueTypes, TypeOK
  <2>4. run' \in [Callers -> RunRecord] /\ RomTaken'
    <3>1. CASE run' = [run EXCEPT ![c].pc = "done"]
      <4> DEFINE r == [run[c] EXCEPT !.pc = "done"]
      <4>1. r \in RunRecord /\ r.pc = "done" /\ run' = [run EXCEPT ![c] = r]
        BY <1>0, <3>1 DEF RunRecord, Pcs
      <4> HIDE DEF r
      <4> QED
        BY <1>0, <4>1, RunTyped DEF AtRom, RomOK
    <3>2. CASE run' = [run EXCEPT ![c].rom = IF k \in Keys(queue) THEN NoRom ELSE k,
                                  ![c].wanted = {k}, ![c].keys = <<k>>,
                                  ![c].pc = IF k \in Keys(queue) THEN "wait" ELSE "put"]
      <4> DEFINE rom == IF k \in Keys(queue) THEN NoRom ELSE k
                 pc == IF k \in Keys(queue) THEN "wait" ELSE "put"
                 r == [run[c] EXCEPT !.rom = rom, !.wanted = {k}, !.keys = <<k>>, !.pc = pc]
      <4>1. /\ rom \in Roms \cup {NoRom} /\ pc \in {"wait", "put"} /\ {k} \in SUBSET Roms
            /\ <<k>> \in Seq(Roms) /\ (pc = "put" => rom \in Roms)
        BY <2>1
      <4>2. run' = [run EXCEPT ![c] = r]
        BY <1>0, <3>2 DEF RunRecord
      <4> HIDE DEF rom, pc
      <4>3. r \in RunRecord /\ r.pc = pc /\ r.rom = rom
        BY <1>0, <4>1 DEF RunRecord, Pcs
      <4> HIDE DEF r
      <4> QED
        BY <1>0, <4>1, <4>2, <4>3, RunTyped DEF AtRom, RomOK
    <3> QED
      BY <2>2, <3>1, <3>2
  <2> QED
    BY <1>7, <2>3, <2>4 DEF AddStart, QueueTypes, TypeOK
<1> QED
  BY <1>1, <1>2, <1>3, <1>4, <1>5, <1>6, <1>7

\* So does what a run does after its drain.
LEMMA EndingTyped ==
    ASSUME QueueTypes, NEW c \in Callers,
           StopWaiting(c) \/ PaceGivenUp(c) \/ Cancel(c) \/ BulkReport(c) \/ ScanReport(c)
             \/ AddFinish(c)
    PROVE  QueueTypes'
<1> USE DEF stored, history
<1>0. /\ run \in [Callers -> RunRecord] /\ run[c] \in RunRecord /\ RomTaken
      /\ queue \in Seq(Rows)
  BY TypesNow
<1>1. ASSUME NEW pc \in {"off", "cancel", "finish"}, run' = [run EXCEPT ![c].pc = pc]
      PROVE  run' \in [Callers -> RunRecord] /\ RomTaken'
  <2> DEFINE r == [run[c] EXCEPT !.pc = pc]
  <2>1. r \in RunRecord /\ r.pc = pc /\ run' = [run EXCEPT ![c] = r]
    BY <1>0, <1>1 DEF RunRecord, Pcs
  <2> HIDE DEF r
  <2> QED
    BY <1>0, <2>1, RunTyped DEF AtRom, RomOK
<1>2. ASSUME NEW r \in {Idle, Done}, run' = [run EXCEPT ![c] = r]
      PROVE  run' \in [Callers -> RunRecord] /\ RomTaken'
  BY <1>0, <1>2, IdleTyped, DoneTyped, RunTyped DEF AtRom, RomOK
<1>3. \A ks : Without(queue, ks) \in Seq(Rows)
  BY <1>0, WithoutFacts
<1>4. AfterDrain(c) \in {"off", "cancel", "finish"}
  BY DEF AfterDrain
<1>5. CASE StopWaiting(c)
  BY <1>1, <1>4, <1>5 DEF StopWaiting, QueueTypes, TypeOK
<1>6. CASE PaceGivenUp(c)
  <2>1. CASE c = Worker
    BY <1>2, <1>6, <2>1 DEF PaceGivenUp, QueueTypes, TypeOK
  <2>2. CASE c # Worker
    <3>1. run' = [run EXCEPT ![c].pc = AfterDrain(c)]
      BY <1>0, <1>6, <2>2 DEF PaceGivenUp
    <3> QED
      BY <1>1, <1>4, <1>6, <3>1 DEF PaceGivenUp, QueueTypes, TypeOK
  <2> QED
    BY <2>1, <2>2
<1>7. CASE Cancel(c)
  <2>1. queue' \in Seq(Rows)
    BY <1>0, <1>3, <1>7 DEF Cancel
  <2>2. fate' \in [Roms -> {"none", "queued", "dropped", "cancelled", "refused"}]
    BY <1>7 DEF Cancel, QueueTypes, TypeOK
  <2> DEFINE stop == AskedToStop(c)
             r == [run[c] EXCEPT !.pc = "report", !.abort = stop]
  <2>3. stop \in BOOLEAN
    BY <1>0, RecordFields DEF AskedToStop, QueueTypes, TypeOK
  <2>4. run' = [run EXCEPT ![c] = r]
    BY <1>0, <1>7 DEF Cancel, RunRecord
  <2> HIDE DEF stop
  <2>5. r \in RunRecord /\ r.pc = "report"
    BY <1>0, <2>3 DEF RunRecord, Pcs
  <2> HIDE DEF r
  <2>6. run' \in [Callers -> RunRecord] /\ RomTaken'
    BY <1>0, <2>4, <2>5, RunTyped DEF AtRom, RomOK
  <2> QED
    BY <1>7, <2>1, <2>2, <2>6 DEF Cancel, QueueTypes, TypeOK, Rows
<1>8. CASE BulkReport(c)
  BY <1>2, <1>8 DEF BulkReport, QueueTypes, TypeOK
<1>9. CASE ScanReport(c)
  <2>1. seen' \subseteq Roms
    BY <1>0, <1>9, RecordFields DEF ScanReport, QueueTypes, TypeOK
  <2>2. rescan' \in Nat
    BY <1>9, BudgetAssumption DEF ScanReport, QueueTypes, TypeOK
  <2>3. run' \in [Callers -> RunRecord] /\ RomTaken'
    BY <1>2, <1>9 DEF ScanReport
  <2> QED
    BY <1>9, <2>1, <2>2, <2>3 DEF ScanReport, QueueTypes, TypeOK
<1>10. CASE AddFinish(c)
  <2>1. queue' \in Seq(Rows)
    BY <1>0, <1>3, <1>10 DEF AddFinish
  <2>2. fate' \in [Roms -> {"none", "queued", "dropped", "cancelled", "refused"}]
    BY <1>10 DEF AddFinish, QueueTypes, TypeOK
  <2>3. run' \in [Callers -> RunRecord] /\ RomTaken'
    BY <1>2, <1>10 DEF AddFinish
  <2> QED
    BY <1>10, <2>1, <2>2, <2>3 DEF AddFinish, QueueTypes, TypeOK, Rows
<1> QED
  BY <1>5, <1>6, <1>7, <1>8, <1>9, <1>10

\* So does taking the lock.
LEMMA LockTyped ==
    ASSUME QueueTypes, NEW c \in Callers, TakeLock(c) \/ PaceEnd(c) \/ (c = Worker /\ WorkerStart)
    PROVE  QueueTypes'
<1> USE DEF stored, history
<1>0. /\ run \in [Callers -> RunRecord] /\ run[c] \in RunRecord /\ RomTaken
      /\ CachedGames \in SUBSET Games /\ run[c].known \in SUBSET Games
  BY TypesNow, RecordFields
<1>1. CASE BeginDrain(c)
  <2> DEFINE r == [run[c] EXCEPT !.pc = "check", !.known = CachedGames, !.sent = 0,
                                 !.paced = FALSE, !.age = 0, !.outcome = "none"]
  <2>1. run' = [run EXCEPT ![c] = r] /\ r.pc = "check"
    BY <1>0, <1>1 DEF BeginDrain, RunRecord
  <2>2. r \in RunRecord
    <3>1. r = [f \in Fields |-> r[f]]
      BY <1>0, RecordFields DEF Fields
    <3>2. /\ r.pc = "check" /\ r.known = CachedGames /\ r.sent = 0 /\ r.paced = FALSE
          /\ r.age = 0 /\ r.outcome = "none" /\ r.todo = run[c].todo /\ r.rom = run[c].rom
          /\ r.attempts = run[c].attempts /\ r.wanted = run[c].wanted
          /\ r.mine = run[c].mine /\ r.keys = run[c].keys /\ r.abort = run[c].abort
          /\ r.handled = run[c].handled
      BY <1>0, RecordFields DEF Fields
    <3> HIDE DEF r
    <3>3. /\ r.pc \in Pcs /\ r.todo \subseteq Roms /\ r.rom \in Roms \cup {NoRom}
          /\ r.attempts \in Nat /\ r.wanted \subseteq Roms /\ r.mine \subseteq Roms
          /\ r.keys \in Seq(Roms) /\ r.known \subseteq Games /\ r.sent \in Nat
          /\ r.paced \in BOOLEAN /\ r.age \in Nat /\ r.outcome \in Outcomes
          /\ r.abort \in BOOLEAN /\ r.handled \subseteq Roms
      <4>1. /\ run[c].todo \subseteq Roms /\ run[c].rom \in Roms \cup {NoRom}
            /\ run[c].attempts \in Nat /\ run[c].wanted \subseteq Roms
            /\ run[c].mine \subseteq Roms /\ run[c].keys \in Seq(Roms)
            /\ run[c].abort \in BOOLEAN /\ run[c].handled \subseteq Roms
        BY <1>0, RecordFields
      <4>2. "check" \in Pcs /\ "none" \in Outcomes
        BY DEF Pcs, Outcomes
      <4>3. r.paced \in BOOLEAN /\ r.abort \in BOOLEAN
        BY <3>2, <4>1, Zenon
      <4> QED
        BY <1>0, <3>2, <4>1, <4>2, <4>3
    <3> QED
      BY ONLY <3>1, <3>3 DEF RunRecord, Fields
  <2> HIDE DEF r
  <2>3. run' \in [Callers -> RunRecord] /\ RomTaken'
    BY <1>0, <2>1, <2>2, RunTyped DEF AtRom, RomOK
  <2> QED
    BY <1>1, <2>3 DEF BeginDrain, QueueTypes, TypeOK
<1>2. CASE PaceEnd(c)
  <2> DEFINE r == [run[c] EXCEPT !.pc = "check", !.known = run[c].known \cup CachedGames,
                                 !.paced = TRUE]
  <2>1. run' = [run EXCEPT ![c] = r] /\ r.pc = "check"
    BY <1>0, <1>2 DEF PaceEnd, RunRecord
  <2>2. run[c].known \cup CachedGames \in SUBSET Games
    BY <1>0
  <2>3. r \in RunRecord
    BY <1>0, <2>2 DEF RunRecord, Pcs
  <2> HIDE DEF r
  <2>4. run' \in [Callers -> RunRecord] /\ RomTaken'
    BY <1>0, <2>1, <2>3, RunTyped DEF AtRom, RomOK
  <2> QED
    BY <1>2, <2>4 DEF PaceEnd, QueueTypes, TypeOK
<1> QED
  BY <1>1, <1>2 DEF TakeLock, WorkerStart

\* A drain that stops leaves a typed record.
LEMMA StopTyped ==
    ASSUME QueueTypes, NEW c \in Callers, NEW outcome \in Outcomes, StopDrain(c, outcome)
    PROVE  /\ run' \in [Callers -> RunRecord] /\ RomTaken'
           /\ lock' \in Callers \cup {Nobody}
<1>0. run \in [Callers -> RunRecord] /\ run[c] \in RunRecord /\ RomTaken
  BY TypesNow
<1>1. lock' \in Callers \cup {Nobody}
  BY DEF StopDrain
<1>2. CASE c = Worker
  BY <1>0, <1>1, <1>2, IdleTyped, RunTyped DEF StopDrain, AtRom, RomOK
<1>3. CASE c # Worker
  <2> DEFINE r == [run[c] EXCEPT !.pc = AfterDrain(c), !.outcome = outcome,
                                 !.rom = NoRom, !.attempts = 0, !.keys = <<>>,
                                 !.known = {}, !.sent = 0, !.paced = FALSE, !.age = 0]
  <2>1. run' = [run EXCEPT ![c] = r]
    BY <1>0, <1>3 DEF StopDrain
  <2>2. AfterDrain(c) \in {"off", "cancel", "finish"}
    BY DEF AfterDrain
  <2>3. r = [f \in Fields |-> r[f]]
    BY <1>0, RecordFields DEF Fields
  <2>4. /\ r.pc = AfterDrain(c) /\ r.outcome = outcome /\ r.rom = NoRom /\ r.attempts = 0
        /\ r.keys = <<>> /\ r.known = {} /\ r.sent = 0 /\ r.paced = FALSE /\ r.age = 0
        /\ r.todo = run[c].todo /\ r.wanted = run[c].wanted /\ r.mine = run[c].mine
        /\ r.abort = run[c].abort /\ r.handled = run[c].handled
    BY <1>0, RecordFields DEF Fields
  <2> HIDE DEF r
  <2>5. r \in RunRecord
    <3>1. /\ r.pc \in Pcs /\ r.todo \subseteq Roms /\ r.rom \in Roms \cup {NoRom}
          /\ r.attempts \in Nat /\ r.wanted \subseteq Roms /\ r.mine \subseteq Roms
          /\ r.keys \in Seq(Roms) /\ r.known \subseteq Games /\ r.sent \in Nat
          /\ r.paced \in BOOLEAN /\ r.age \in Nat /\ r.outcome \in Outcomes
          /\ r.abort \in BOOLEAN /\ r.handled \subseteq Roms
      <4>1. /\ run[c].todo \subseteq Roms /\ run[c].wanted \subseteq Roms
            /\ run[c].mine \subseteq Roms /\ run[c].abort \in BOOLEAN
            /\ run[c].handled \subseteq Roms
        BY <1>0, RecordFields
      <4>2. AfterDrain(c) \in Pcs /\ <<>> \in Seq(Roms)
        BY <2>2 DEF Pcs
      <4>3. r.paced \in BOOLEAN /\ r.abort \in BOOLEAN
        BY <2>4, <4>1, Zenon
      <4> QED
        BY <2>4, <4>1, <4>2, <4>3
    <3> QED
      BY ONLY <2>3, <3>1 DEF RunRecord, Fields
  <2> QED
    BY <1>0, <1>1, <2>1, <2>2, <2>4, <2>5, RunTyped DEF AtRom, RomOK
<1> QED
  BY <1>2, <1>3

\* The ways out of a drain keep the types; a row written back is not yet spent.
LEMMA StoppingTyped ==
    ASSUME QueueTypes, NEW c \in Callers,
           \/ DrainPaused(c) \/ DrainLimited(c) \/ DrainTimeLimit(c) \/ NothingLeft(c)
           \/ BudgetExhausted(c) \/ PaceBegin(c)
           \/ SettleLimited(c) \/ SettleAuthRejected(c) \/ SettleFailed(c)
    PROVE  QueueTypes'
<1> USE DEF stored, history
<1>0. /\ run \in [Callers -> RunRecord] /\ run[c] \in RunRecord /\ RomTaken
      /\ queue \in Seq(Rows) /\ run[c].outcome \in Outcomes /\ run[c].attempts \in Nat
  BY TypesNow, RecordFields
<1>1. "none" \in Outcomes /\ "auth" \in Outcomes /\ "failed" \in Outcomes
  BY DEF Outcomes
<1>2. PausedUntil(budget, limited[c]) \in BudgetRecord
  <2>1. budget \in BudgetRecord /\ limited[c] \in Int
    BY DEF QueueTypes, TypeOK
  <2> QED
    BY <2>1, BudgetTyped
<1>3. CASE \/ DrainPaused(c) \/ DrainTimeLimit(c) \/ NothingLeft(c) \/ BudgetExhausted(c)
           \/ SettleAuthRejected(c)
  <2>1. /\ StopDrain(c, run[c].outcome) \/ StopDrain(c, "auth")
        /\ UNCHANGED <<stored, history, rescan, limited, busy, faults>>
    BY <1>3 DEF DrainPaused, DrainTimeLimit, NothingLeft, BudgetExhausted, SettleAuthRejected
  <2>2. run' \in [Callers -> RunRecord] /\ RomTaken' /\ lock' \in Callers \cup {Nobody}
    BY <1>0, <1>1, <2>1, StopTyped
  <2> QED
    BY <2>1, <2>2 DEF QueueTypes, TypeOK
<1>4. CASE DrainLimited(c) \/ SettleLimited(c)
  <2>1. /\ StopDrain(c, run[c].outcome) \/ StopDrain(c, "none")
        /\ budget' = PausedUntil(budget, limited[c])
        /\ UNCHANGED <<queue, lookup, patch, seen, history, rescan, limited, busy, faults>>
    BY <1>4 DEF DrainLimited, SettleLimited
  <2>2. run' \in [Callers -> RunRecord] /\ RomTaken' /\ lock' \in Callers \cup {Nobody}
    BY <1>0, <1>1, <2>1, StopTyped
  <2> QED
    BY <1>2, <2>1, <2>2 DEF QueueTypes, TypeOK
<1>5. CASE PaceBegin(c)
  <2> DEFINE r == [run[c] EXCEPT !.pc = "pace", !.keys = KeysLeft(c)]
  <2>1. KeysLeft(c) \in Seq(Roms)
    BY KeysLeftTyped DEF QueueTypes
  <2>2. run' = [run EXCEPT ![c] = r] /\ r.pc = "pace" /\ r \in RunRecord
    BY <1>0, <1>5, <2>1 DEF PaceBegin, RunRecord, Pcs
  <2> HIDE DEF r
  <2>3. run' \in [Callers -> RunRecord] /\ RomTaken'
    BY <1>0, <2>2, RunTyped DEF AtRom, RomOK
  <2> QED
    BY <1>5, <2>3 DEF PaceBegin, QueueTypes, TypeOK
<1>6. CASE SettleFailed(c)
  <2>1. run[c].rom \in Roms
    BY <1>6 DEF SettleFailed, QueueTypes, RomTaken, RomOK, AtRom
  <2>2. run' \in [Callers -> RunRecord] /\ RomTaken' /\ lock' \in Callers \cup {Nobody}
    BY <1>1, <1>6, StopTyped DEF SettleFailed
  <2>3. CASE IsSpent(AfterFailedAttempt(c))
    <3>1. queue' \in Seq(Rows)
      BY <1>0, <1>6, <2>3, WithoutFacts DEF SettleFailed
    <3>2. fate' \in [Roms -> {"none", "queued", "dropped", "cancelled", "refused"}]
      BY <1>6, <2>1, <2>3 DEF SettleFailed, QueueTypes, TypeOK
    <3> QED
      BY <1>6, <2>2, <3>1, <3>2 DEF SettleFailed, QueueTypes, TypeOK, Rows
  <2>4. CASE ~IsSpent(AfterFailedAttempt(c))
    <3>1. AfterFailedAttempt(c) \in Rows
      BY <1>0, <2>1, <2>4, QueueAssumption DEF AfterFailedAttempt, IsSpent, Rows
    <3>2. queue' \in Seq(Rows)
      BY <1>0, <1>6, <2>4, <3>1, PutFacts DEF SettleFailed
    <3> QED
      BY <1>6, <2>2, <2>4, <3>2 DEF SettleFailed, QueueTypes, TypeOK, Rows
  <2> QED
    BY <2>3, <2>4
<1> QED
  BY <1>3, <1>4, <1>5, <1>6

\* The steps of a drain keep the types.
LEMMA GoingOnTyped ==
    ASSUME QueueTypes, NEW c \in Callers,
           DrainGoOn(c) \/ AnsweredLocally(c) \/ Request(c) \/ ChargeGame(c) \/ SettleDone(c)
    PROVE  QueueTypes'
<1> USE DEF stored, history
<1>0. /\ run \in [Callers -> RunRecord] /\ run[c] \in RunRecord /\ RomTaken
      /\ queue \in Seq(Rows) /\ run[c].wanted \subseteq Roms /\ run[c].known \subseteq Games
      /\ run[c].sent \in Nat /\ run[c].rom \in Roms \cup {NoRom}
  BY TypesNow, RecordFields
<1>1. \A ks : Without(queue, ks) \in Seq(Rows)
  BY <1>0, WithoutFacts
<1>2. KeysLeft(c) \in Seq(Roms)
  BY KeysLeftTyped DEF QueueTypes
<1>3. CASE DrainGoOn(c)
  <2> DEFINE r == [run[c] EXCEPT !.pc = "pick"]
  <2>1. run' = [run EXCEPT ![c] = r] /\ r.pc = "pick" /\ r \in RunRecord
    BY <1>0, <1>3 DEF DrainGoOn, RunRecord, Pcs
  <2> HIDE DEF r
  <2>2. run' \in [Callers -> RunRecord] /\ RomTaken'
    BY <1>0, <2>1, RunTyped DEF AtRom, RomOK
  <2> QED
    BY <1>3, <2>2 DEF DrainGoOn, QueueTypes, TypeOK
<1>4. CASE AnsweredLocally(c)
  <2> DEFINE k == NextRom(c)
             outcome == IF NoMatch(k) THEN "nomatch" ELSE "already"
             wanted == run[c].wanted \ {k}
             keys == KeysLeft(c)
             r == [run[c] EXCEPT !.pc = "check", !.keys = keys, !.wanted = wanted,
                                 !.outcome = outcome]
  <2>1. k \in Roms
    BY <1>4, NextRomTyped DEF AnsweredLocally, QueueTypes
  <2>2. run' = [run EXCEPT ![c] = r]
    BY <1>0, <1>4 DEF AnsweredLocally, RunRecord
  <2>3. outcome \in Outcomes /\ wanted \in SUBSET Roms
    BY <1>0 DEF Outcomes
  <2> HIDE DEF outcome, wanted
  <2>4. r \in RunRecord /\ r.pc = "check"
    BY <1>0, <1>2, <2>3 DEF RunRecord, Pcs
  <2> HIDE DEF r
  <2>5. run' \in [Callers -> RunRecord] /\ RomTaken'
    BY <1>0, <2>2, <2>4, RunTyped DEF AtRom, RomOK
  <2>6. patch' \in [Games -> Roms \cup {NoRom}]
    BY <1>4, <2>1, WithPathTyped DEF AnsweredLocally, QueueTypes, TypeOK
  <2>7. queue' \in Seq(Rows)
    BY <1>1, <1>4 DEF AnsweredLocally
  <2> QED
    BY <1>4, <2>5, <2>6, <2>7 DEF AnsweredLocally, QueueTypes, TypeOK, Rows
<1>5. CASE Request(c)
  <2> DEFINE k == NextRom(c)
             attempts == queue[Place(queue, k)].attempts
             sent == IF run[c].sent < Burst THEN run[c].sent + 1 ELSE run[c].sent
             keys == KeysLeft(c)
             r == [run[c] EXCEPT !.pc = "ask", !.keys = keys, !.rom = k, !.attempts = attempts,
                                 !.paced = FALSE, !.sent = sent]
  <2>1. k \in Keys(queue) /\ k \in Roms
    BY <1>5, NextRomTyped DEF Request, NeedsRequest, QueueTypes
  <2>2. attempts \in Nat
    <3>1. queue[Place(queue, k)] \in Rows
      BY <1>0, <2>1, KeysTyped
    <3> QED
      BY <3>1, QueueAssumption DEF Rows
  <2>3. sent \in Nat
    BY <1>0
  <2>4. run' = [run EXCEPT ![c] = r]
    BY <1>0, <1>5 DEF Request, RunRecord
  <2> HIDE DEF k, attempts, sent, keys
  <2>5. r \in RunRecord /\ r.pc = "ask" /\ r.rom = k
    BY <1>0, <1>2, <2>1, <2>2, <2>3 DEF RunRecord, Pcs, keys
  <2> HIDE DEF r
  <2>6. run' \in [Callers -> RunRecord] /\ RomTaken'
    BY <1>0, <2>1, <2>4, <2>5, RunTyped DEF RomOK
  <2> QED
    BY <1>5, <2>6 DEF Request, QueueTypes, TypeOK
<1>6. CASE ChargeGame(c)
  <2> DEFINE r == [run[c] EXCEPT !.pc = "settle"]
  <2>1. run[c].rom \in Roms
    BY <1>6 DEF ChargeGame, QueueTypes, RomTaken, RomOK, AtRom
  <2>2. /\ run' = [run EXCEPT ![c] = r] /\ r.pc = "settle" /\ r \in RunRecord
        /\ r.rom = run[c].rom /\ r.outcome = run[c].outcome
    BY <1>0, <1>6 DEF ChargeGame, RunRecord, Pcs
  <2>3. RomOK(r)
    BY <1>6, <2>1, <2>2 DEF ChargeGame, QueueTypes, RomTaken, RomOK
  <2> HIDE DEF r
  <2>4. run' \in [Callers -> RunRecord] /\ RomTaken'
    BY <1>0, <2>2, <2>3, RunTyped
  <2>5. budget' \in BudgetRecord
    BY <1>6, BudgetTyped DEF ChargeGame, QueueTypes, TypeOK
  <2> QED
    BY <1>6, <2>4, <2>5 DEF ChargeGame, QueueTypes, TypeOK
<1>7. CASE SettleDone(c)
  <2>1. run[c].rom \in Roms
    BY <1>7 DEF SettleDone, QueueTypes, RomTaken, RomOK, AtRom
  <2> DEFINE known == IF run[c].outcome = "cached"
                      THEN run[c].known \cup {GameOf[run[c].rom]} ELSE run[c].known
             wanted == run[c].wanted \ {run[c].rom}
             r == [run[c] EXCEPT !.pc = "check", !.wanted = wanted, !.rom = NoRom,
                                 !.attempts = 0, !.known = known]
  <2>2. run' = [run EXCEPT ![c] = r]
    BY <1>0, <1>7 DEF SettleDone, RunRecord
  <2>3. wanted \in SUBSET Roms
    BY <1>0
  <2>4. known \in SUBSET Games
    BY <1>0, <1>7 DEF SettleDone, QueueTypes, RomTaken, RomOK
  <2> HIDE DEF known, wanted
  <2>5. r \in RunRecord /\ r.pc = "check"
    BY <1>0, <2>3, <2>4 DEF RunRecord, Pcs
  <2> HIDE DEF r
  <2>6. run' \in [Callers -> RunRecord] /\ RomTaken'
    BY <1>0, <2>2, <2>5, RunTyped DEF AtRom, RomOK
  <2>7. queue' \in Seq(Rows)
    BY <1>1, <1>7 DEF SettleDone
  <2> QED
    BY <1>7, <2>6, <2>7 DEF SettleDone, QueueTypes, TypeOK, Rows
<1> QED
  BY <1>3, <1>4, <1>5, <1>6, <1>7

\* So do the answers.
LEMMA AnswersTyped ==
    ASSUME QueueTypes, NEW c \in Callers,
           \/ AnswerFailed(c) \/ AnswerAuthRejected(c) \/ AnswerNoMatch(c)
           \/ AnswerKnown(c) \/ AnswerCached(c)
    PROVE  QueueTypes'
<1> USE DEF stored, history
<1>0. run \in [Callers -> RunRecord] /\ run[c] \in RunRecord /\ RomTaken
  BY TypesNow
<1>1. PICK outcome \in Outcomes : Answer(c, outcome)
  BY DEF AnswerFailed, AnswerAuthRejected, AnswerNoMatch, AnswerKnown, AnswerCached, Outcomes
<1>2. run[c].rom \in Roms /\ run[c].pc = "ask"
  BY <1>1 DEF Answer, QueueTypes, RomTaken, RomOK, AtRom
<1>3. run' \in [Callers -> RunRecord] /\ RomTaken'
  <2> DEFINE pc == IF outcome = "cached" THEN "charge" ELSE "settle"
             r == [run[c] EXCEPT !.outcome = outcome, !.pc = pc]
  <2>1. run' = [run EXCEPT ![c] = r]
    BY <1>0, <1>1 DEF Answer, RunRecord
  <2>2. pc \in {"charge", "settle"}
    OBVIOUS
  <2> HIDE DEF pc
  <2>3. r \in RunRecord /\ r.rom = run[c].rom /\ r.outcome = outcome
    BY <1>0, <2>2 DEF RunRecord, Pcs
  <2>4. outcome = "cached" => GameOf[run[c].rom] \in Games
    <3>1. run'[c].outcome = outcome
      BY <1>0, <1>1 DEF Answer, RunRecord
    <3>2. ASSUME outcome = "cached"
          PROVE  Asked(c) # NoGame
      <4>1. AnswerCached(c)
        <5>1. ASSUME NEW other, Answer(c, other)
              PROVE  other = "cached"
          <6>1. run'[c].outcome = other
            BY <1>0, <5>1 DEF Answer, RunRecord
          <6> QED
            BY <3>1, <3>2, <6>1
        <5>2. ~AnswerFailed(c) /\ ~AnswerAuthRejected(c) /\ ~AnswerNoMatch(c) /\ ~AnswerKnown(c)
          BY <5>1 DEF AnswerFailed, AnswerAuthRejected, AnswerNoMatch, AnswerKnown
        <5> QED
          BY <5>2
      <4> QED
        BY <4>1 DEF AnswerCached
    <3> QED
      BY <1>2, <3>2, QueueAssumption DEF Asked
  <2> HIDE DEF r
  <2> QED
    BY <1>0, <1>2, <2>1, <2>3, <2>4, RunTyped DEF RomOK
<1>4. lookup' \in [Roms -> {"unknown", "hit", "miss", "expired"}]
  <2>1. lookup \in [Roms -> {"unknown", "hit", "miss", "expired"}]
    BY DEF QueueTypes, TypeOK
  <2>2. lookup' \in {lookup, HitIfAny(c), [lookup EXCEPT ![run[c].rom] = "miss"]}
    BY DEF AnswerFailed, AnswerAuthRejected, AnswerNoMatch, AnswerKnown, AnswerCached
  <2>3. HitIfAny(c) \in [Roms -> {"unknown", "hit", "miss", "expired"}]
    BY <1>2, <2>1 DEF HitIfAny
  <2> QED
    BY <2>1, <2>2, <2>3
<1>5. patch' \in [Games -> Roms \cup {NoRom}]
  <2>1. patch \in [Games -> Roms \cup {NoRom}]
    BY DEF QueueTypes, TypeOK
  <2>2. [patch EXCEPT ![Asked(c)] = run[c].rom] \in [Games -> Roms \cup {NoRom}]
    BY <1>2, <2>1
  <2>3. WithPath(Asked(c), run[c].rom) \in [Games -> Roms \cup {NoRom}]
    BY <1>2, <2>1, WithPathTyped
  <2>4. patch' \in {patch, WithPath(Asked(c), run[c].rom), [patch EXCEPT ![Asked(c)] = run[c].rom]}
    BY DEF AnswerFailed, AnswerAuthRejected, AnswerNoMatch, AnswerKnown, AnswerCached
  <2> QED
    BY <2>1, <2>2, <2>3, <2>4
<1>6. /\ limited' \in [Callers -> Nat] /\ faults' \in Nat /\ quiet' \in Nat
  BY QueueAssumption
     DEF AnswerFailed, AnswerAuthRejected, AnswerNoMatch, AnswerKnown, AnswerCached,
         AnsweredWith429, NotLimited, QueueTypes, TypeOK
<1>7. sentAt' \in [Roms -> Int] /\ fetched' \subseteq Games
  <2>1. Asked(c) # NoGame => Asked(c) \in Games
    BY <1>2, QueueAssumption DEF Asked
  <2> QED
    BY <2>1 DEF AnswerFailed, AnswerAuthRejected, AnswerNoMatch, AnswerKnown, AnswerCached,
       QueueTypes, TypeOK
<1>8. UNCHANGED <<queue, budget, seen, fate, removed, lost, rescan, lock, busy>>
  BY DEF AnswerFailed, AnswerAuthRejected, AnswerNoMatch, AnswerKnown, AnswerCached
<1> QED
  BY <1>3, <1>4, <1>5, <1>6, <1>7, <1>8 DEF QueueTypes, TypeOK

\* So does a tick.
LEMMA TickTyped ==
    ASSUME QueueTypes, Tick
    PROVE  QueueTypes'
<1>1. budget' \in BudgetRecord
  <2>1. budget \in BudgetRecord /\ \A t \in Int : Before(t) \in Int
    BY BudgetAssumption DEF QueueTypes, TypeOK, Before, Past
  <2> QED
    BY <2>1 DEF Tick, BudgetRecord
<1>2. sentAt' \in [Roms -> Int]
  BY BudgetAssumption DEF QueueTypes, TypeOK, Tick, Before, Past
<1>3. limited' \in [Callers -> Nat] /\ quiet' \in Nat /\ rescan' \in Nat
  BY DEF QueueTypes, TypeOK, Tick, Less
<1>4. run' \in [Callers -> RunRecord] /\ RomTaken'
  <2>1. run \in [Callers -> RunRecord] /\ RomTaken
    BY DEF QueueTypes, TypeOK
  <2> DEFINE r(c) == IF run[c].pc \in Draining \cup {"pace"} /\ run[c].age < Window
                     THEN [run[c] EXCEPT !.age = @ + 1] ELSE run[c]
  <2>2. run' = [c \in Callers |-> r(c)]
    BY DEF Tick
  <2>3. ASSUME NEW c \in Callers
        PROVE  r(c) \in RunRecord /\ RomOK(r(c))
    <3>1. run[c] \in RunRecord /\ RomOK(run[c])
      BY <2>1 DEF RomTaken
    <3>2. /\ [run[c] EXCEPT !.age = @ + 1] \in RunRecord
          /\ [run[c] EXCEPT !.age = @ + 1].pc = run[c].pc
          /\ [run[c] EXCEPT !.age = @ + 1].rom = run[c].rom
          /\ [run[c] EXCEPT !.age = @ + 1].outcome = run[c].outcome
      BY <3>1 DEF RunRecord
    <3> QED
      BY <3>1, <3>2 DEF RomOK
  <2> HIDE DEF r
  <2> QED
    BY <2>2, <2>3 DEF RomTaken
<1> QED
  BY <1>1, <1>2, <1>3, <1>4 DEF Tick, QueueTypes, TypeOK

\* So does a process that dies.
LEMMA DeathTyped ==
    ASSUME QueueTypes, LockKept, NEW procs \in SUBSET Callers, Dies(procs)
    PROVE  QueueTypes'
<1>1. run \in [Callers -> RunRecord] /\ RomTaken
  BY DEF QueueTypes, TypeOK
<1>2. /\ DOMAIN run' = Callers /\ run' = [c \in Callers |-> run'[c]]
      /\ \A c \in Callers : run'[c] \in {run[c], Idle, Done}
  BY DEF Dies
<1>3. run' \in [Callers -> RunRecord]
  BY <1>1, <1>2, IdleTyped, DoneTyped
<1>4. RomTaken'
  <2>1. RomOK(Idle) /\ RomOK(Done)
    BY IdleTyped, DoneTyped DEF RomOK, AtRom
  <2> QED
    BY <1>1, <1>2, <2>1 DEF RomTaken
<1>5. lost' \in Nat
  <2> DEFINE charging == {c \in procs : run[c].pc = "charge"}
  \* Only the one that holds the lock can be about to charge.
  <2>1. Cardinality(charging) \in Nat
    <3>1. charging \subseteq {lock}
      BY DEF LockKept, Draining
    <3>2. IsFiniteSet({lock})
      BY FS_Singleton
    <3> QED
      BY <3>1, <3>2, FS_Subset, FS_CardinalityType
  <2>2. lost' = lost + Cardinality(charging) /\ lost \in Nat
    BY DEF Dies, QueueTypes, TypeOK
  <2> HIDE DEF charging
  <2> QED
    BY <2>1, <2>2
<1>6. lock' \in Callers \cup {Nobody} /\ limited' \in [Callers -> Nat]
      /\ quiet' \in Nat /\ faults' \in Nat
  BY DEF Dies, QueueTypes, TypeOK
<1> QED
  BY <1>3, <1>4, <1>5, <1>6 DEF Dies, stored, QueueTypes, TypeOK

\* So do the user and the emulator.
LEMMA OthersTyped ==
    ASSUME QueueTypes,
           \/ \E c \in Callers : Abort(c)
           \/ \E g \in Games : RemoveGame(g)
           \/ Play \/ PlayEnds \/ ServiceLimited \/ MissExpires \/ UNCHANGED vars
    PROVE  QueueTypes'
<1> USE DEF stored, history
<1>1. CASE \E c \in Callers : Abort(c)
  <2>1. PICK c \in Callers : Abort(c)
    BY <1>1
  <2> DEFINE r == [run[c] EXCEPT !.abort = TRUE]
  <2>2. run[c] \in RunRecord /\ RomOK(run[c]) /\ run \in [Callers -> RunRecord] /\ RomTaken
    BY DEF QueueTypes, TypeOK, RomTaken
  <2>3. /\ r \in RunRecord /\ run' = [run EXCEPT ![c] = r]
        /\ r.pc = run[c].pc /\ r.rom = run[c].rom /\ r.outcome = run[c].outcome
    BY <2>1, <2>2 DEF Abort, RunRecord
  <2> HIDE DEF r
  <2>4. RomOK(r)
    BY <2>2, <2>3 DEF RomOK
  <2>5. run' \in [Callers -> RunRecord] /\ RomTaken'
    BY <2>2, <2>3, <2>4, RunTyped
  <2> QED
    BY <2>1, <2>5 DEF Abort, QueueTypes, TypeOK
<1>2. CASE \E g \in Games : RemoveGame(g)
  <2>1. run' = run /\ RomTaken'
    BY <1>2 DEF RemoveGame, QueueTypes, RomTaken
  <2> QED
    BY <1>2, <2>1 DEF RemoveGame, QueueTypes, TypeOK
<1>3. CASE Play \/ PlayEnds \/ ServiceLimited \/ MissExpires \/ UNCHANGED vars
  <2>1. run' = run /\ RomTaken'
    BY <1>3 DEF Play, PlayEnds, ServiceLimited, MissExpires, vars, QueueTypes, RomTaken
  <2>2. limited' \in [Callers -> Nat]
    BY <1>3, QueueAssumption
       DEF Play, PlayEnds, ServiceLimited, MissExpires, vars, QueueTypes, TypeOK
  <2>3. lookup' \in [Roms -> {"unknown", "hit", "miss", "expired"}]
    BY <1>3 DEF Play, PlayEnds, ServiceLimited, MissExpires, vars, QueueTypes, TypeOK
  <2>4. busy' \in BOOLEAN
    BY <1>3 DEF Play, PlayEnds, ServiceLimited, MissExpires, vars, QueueTypes, TypeOK
  <2>5. faults' \in Nat
    BY <1>3 DEF Play, PlayEnds, ServiceLimited, MissExpires, vars, QueueTypes, TypeOK
  <2>6. UNCHANGED <<queue, patch, budget, seen, rescan, lock, history>>
    BY <1>3 DEF Play, PlayEnds, ServiceLimited, MissExpires, vars
  <2> QED
    BY <2>1, <2>2, <2>3, <2>4, <2>5, <2>6 DEF QueueTypes, TypeOK
<1> QED
  BY <1>1, <1>2, <1>3

-----------------------------------------------------------------------------
(* The steps there are. *)

Fills(c) ==
    \/ BulkStart(c) \/ ScanStart(c) \/ Skip(c) \/ EnqueueRead(c) \/ EnqueueWrite(c)
    \/ FillEnd(c) \/ AddStart(c)
Ends(c) ==
    \/ StopWaiting(c) \/ PaceGivenUp(c) \/ Cancel(c) \/ BulkReport(c) \/ ScanReport(c)
    \/ AddFinish(c)
Locks(c) == TakeLock(c) \/ PaceEnd(c) \/ (c = Worker /\ WorkerStart)
Stops(c) ==
    \/ DrainPaused(c) \/ DrainLimited(c) \/ DrainTimeLimit(c) \/ NothingLeft(c)
    \/ BudgetExhausted(c) \/ PaceBegin(c)
    \/ SettleLimited(c) \/ SettleAuthRejected(c) \/ SettleFailed(c)
Proceeds(c) ==
    DrainGoOn(c) \/ AnsweredLocally(c) \/ Request(c) \/ ChargeGame(c) \/ SettleDone(c)
Answers(c) ==
    \/ AnswerFailed(c) \/ AnswerAuthRejected(c) \/ AnswerNoMatch(c)
    \/ AnswerKnown(c) \/ AnswerCached(c)
Others ==
    \/ \E c \in Callers : Abort(c)
    \/ \E g \in Games : RemoveGame(g)
    \/ Play \/ PlayEnds \/ ServiceLimited \/ MissExpires \/ UNCHANGED vars

\* The processes that can die: one run, or the service with its threads.
Processes == {{c} : c \in Bulks \cup Adds} \cup {Scans \cup {Worker}}

\* A process is a set of callers.
LEMMA ProcessesAre == \A procs \in Processes : procs \in SUBSET Callers
BY DEF Processes, Callers, Runs

\* Every step is one of these.
LEMMA StepKinds ==
    ASSUME [Next]_vars
    PROVE  \/ \E c \in Callers : \/ Fills(c) \/ Ends(c) \/ Locks(c) \/ Stops(c)
                                \/ Proceeds(c) \/ Answers(c)
           \/ \E procs \in Processes : Dies(procs)
           \/ Tick \/ Others
<1>1. Runs \subseteq Callers /\ Worker \in Callers
  BY DEF Callers, Runs
<1>2. ASSUME NEW c \in Callers, DrainStep(c)
      PROVE  Ends(c) \/ Locks(c) \/ Stops(c) \/ Proceeds(c) \/ Answers(c)
  BY <1>2 DEF DrainStep, Ends, Locks, Stops, Proceeds, Answers
<1>3. CASE \E c \in Runs : BulkStart(c) \/ ScanStart(c) \/ AddStart(c) \/ RunStep(c)
  BY <1>1, <1>2, <1>3 DEF RunStep, Fills, Ends, Locks
<1>4. CASE \E c \in Runs : RunDies(c)
  BY <1>4 DEF RunDies, Processes
<1>5. CASE ServiceDies
  BY <1>5 DEF ServiceDies, Processes
<1>6. CASE WorkerStart \/ DrainStep(Worker)
  BY <1>1, <1>2, <1>6 DEF Locks
<1>7. CASE \/ \E c \in Runs : Abort(c)
           \/ \E g \in Games : RemoveGame(g)
           \/ Play \/ PlayEnds \/ ServiceLimited \/ Tick \/ MissExpires \/ UNCHANGED vars
  BY <1>1, <1>7 DEF Others
<1> QED
  BY <1>3, <1>4, <1>5, <1>6, <1>7 DEF Next

\* The first state is of the type.
LEMMA QueueTypesInit == Init => QueueTypes
<1> SUFFICES ASSUME Init PROVE QueueTypes
  OBVIOUS
<1>1. run \in [Callers -> RunRecord] /\ RomTaken
  BY IdleTyped DEF Init, RomTaken, RomOK, AtRom
<1>2. budget \in BudgetRecord
  BY BudgetAssumption DEF Init, BudgetRecord, Past
<1>3. sentAt \in [Roms -> Int]
  BY BudgetAssumption DEF Init, Past
<1>4. queue \in Seq(Rows)
  BY DEF Init
<1>5. /\ lookup \in [Roms -> {"unknown", "hit", "miss", "expired"}]
      /\ patch \in [Games -> Roms \cup {NoRom}]
      /\ limited \in [Callers -> Nat] /\ busy \in BOOLEAN
      /\ fate \in [Roms -> {"none", "queued", "dropped", "cancelled", "refused"}]
  BY DEF Init
<1>6. /\ seen \subseteq Roms /\ rescan \in Nat /\ lock \in Callers \cup {Nobody}
      /\ faults \in Nat /\ fetched \subseteq Games /\ removed \subseteq Games
      /\ lost \in Nat /\ quiet \in Nat
  BY DEF Init
<1> QED
  BY <1>1, <1>2, <1>3, <1>4, <1>5, <1>6 DEF QueueTypes, TypeOK, Rows

\* Every step keeps the types.
LEMMA QueueTypesStep ==
    ASSUME QueueTypes, LockKept, [Next]_vars
    PROVE  QueueTypes'
<1>1. CASE \E c \in Callers : \/ Fills(c) \/ Ends(c) \/ Locks(c) \/ Stops(c)
                              \/ Proceeds(c) \/ Answers(c)
  BY <1>1, FillingTyped, EndingTyped, LockTyped, StoppingTyped, GoingOnTyped, AnswersTyped
     DEF Fills, Ends, Locks, Stops, Proceeds, Answers
<1>2. CASE \E procs \in Processes : Dies(procs)
  BY <1>2, ProcessesAre, DeathTyped
<1>3. CASE Tick
  BY <1>3, TickTyped
<1>4. CASE Others
  BY <1>4, OthersTyped DEF Others
<1> QED
  BY <1>1, <1>2, <1>3, <1>4, StepKinds

\* The types hold.
LEMMA QueueTypesHold == Spec => []QueueTypes
<1>1. BudgetInv => LockKept
  BY DEF BudgetInv
<1>2. QueueTypes /\ LockKept /\ [Next]_vars => QueueTypes'
  BY QueueTypesStep
<1> QED
  BY <1>1, <1>2, BudgetInvHolds, QueueTypesInit, PTL DEF Spec

-----------------------------------------------------------------------------
(* What makes the other properties inductive. *)

\* The games that are cached, or were until the user deleted them.
Settled == CachedGames \cup removed

Missed(k) == lookup[k] \in {"miss", "expired"}

\* A stored miss is what RetroAchievements answered.
MissIsTrue == \A k \in Roms : Missed(k) => GameOf[k] = NoGame

\* What a caller knows, and what it was answered, is so.
Told(c) ==
    /\ run[c].known \subseteq Settled
    /\ run[c].pc \in {"charge", "settle"} =>
         /\ run[c].outcome \in {"cached", "already"} => Asked(c) \in Settled
         /\ run[c].outcome = "nomatch" => Missed(run[c].rom)
         /\ run[c].pc = "charge" => run[c].outcome = "cached"

\* A caller that drains knows every game fetched, or has just been answered with it.
KnowsFetched(c) ==
    run[c].pc \in Draining =>
      \A g \in fetched : \/ g \in run[c].known
                         \/ /\ run[c].pc \in {"charge", "settle"} /\ run[c].outcome = "cached"
                            /\ g = Asked(c)

AnswersTrue ==
    /\ MissIsTrue /\ fetched \subseteq CachedGames
    /\ \A c \in Callers : Told(c) /\ KnowsFetched(c)

\* The pause a 429 asked for is stored, or known to the caller about to store it.
PauseStored ==
    /\ quiet <= PauseTicks
    /\ quiet > 0 => \/ budget.paused >= quiet
                    \/ \E c \in Callers : /\ run[c].pc \in {"charge", "settle"}
                                          /\ limited[c] >= quiet

Charging == \E c \in Callers : run[c].pc = "charge"
Pending == IF Charging THEN 1 ELSE 0
SentSince(t) == {k \in Roms : sentAt[k] >= t}
SentAfter(t) == {k \in Roms : sentAt[k] > t}
AtMost(S, n) == IsFiniteSet(S) /\ Cardinality(S) <= n

\* Every game sent in the window is charged, about to be, or lost in a crash; the game that
\* opens a window is the only one sent at its start which a later tick leaves out first.
WindowCounted ==
    /\ budget.start \in Past..0 /\ \A k \in Roms : sentAt[k] \in Past..0
    /\ IsFiniteSet(SentAfter(Past))
    /\ budget.start > Past =>
         /\ budget.used > 0
         /\ AtMost(SentSince(budget.start), budget.used + lost + Pending)
         /\ AtMost(SentAfter(budget.start), budget.used - 1 + lost + Pending)
    /\ budget.start = Past =>
         /\ AtMost(SentSince(0), lost + Pending)
         /\ AtMost(SentAfter(Past), Limit - 1 + lost + Pending)

DrainInv == AnswersTrue /\ PauseStored /\ WindowCounted
Ready == QueueTypes /\ BudgetInv

-----------------------------------------------------------------------------
\* A step of one caller that is neither given an answer nor settles one.
Plain(c) ==
    /\ \A d \in Callers \ {c} : run'[d] = run[d]
    /\ run[c].pc # "charge" /\ run'[c].pc \notin {"charge", "settle"}
    /\ run'[c].pc = "ask" => run[c].pc = "pick"
    /\ run'[c].known \subseteq run[c].known \cup CachedGames
    /\ run'[c].pc \in Draining => \/ CachedGames \subseteq run'[c].known
                                  \/ /\ run[c].pc \in {"check", "pick"}
                                     /\ run[c].known \subseteq run'[c].known
    /\ budget'.start = budget.start /\ budget'.used = budget.used
    /\ budget'.paused >= budget.paused
    /\ run[c].pc = "settle" => limited[c] = 0 \/ budget'.paused >= limited[c]
    /\ CachedGames' = CachedGames
    /\ UNCHANGED <<lookup, sentAt, fetched, removed, lost, quiet, limited>>

\* Remembering a path caches no game and removes none.
LEMMA WithPathKeeps ==
    ASSUME QueueTypes, NEW g, NEW k \in Roms, patch' \in {patch, WithPath(g, k)}
    PROVE  CachedGames' = CachedGames
<1>1. NoRom \notin Roms /\ patch \in [Games -> Roms \cup {NoRom}]
  BY QueueAssumption DEF QueueTypes, TypeOK
<1>2. CASE patch' = patch
  BY <1>2 DEF CachedGames
<1>3. CASE patch' = WithPath(g, k)
  BY <1>1, <1>3 DEF WithPath, CachedGames
<1> QED
  BY <1>2, <1>3

\* Filling the queue is such a step.
LEMMA FillsPlain ==
    ASSUME Ready, NEW c \in Callers, Fills(c)
    PROVE  Plain(c)
<1> USE DEF stored, history
<1>0. /\ run \in [Callers -> RunRecord] /\ run[c] \in RunRecord /\ budget \in BudgetRecord
  BY DEF Ready, QueueTypes, TypeOK
<1>1. /\ UNCHANGED <<lookup, budget, sentAt, fetched, removed, lost, quiet, limited>>
      /\ \A d \in Callers \ {c} : run'[d] = run[d]
      /\ run[c].pc \in {"off", "fill", "put"}
  BY <1>0 DEF Fills, BulkStart, ScanStart, Skip, EnqueueRead, EnqueueWrite, FillEnd, AddStart
<1>2. CachedGames' = CachedGames
  <2>1. CASE AddStart(c)
    <3>1. \A k \in Wants[c] : k \in Roms
      BY <2>1, QueueAssumption DEF AddStart, Runs
    <3>2. \E k \in Wants[c] : patch' \in {patch, WithPath(GameOf[k], k)}
      BY <2>1 DEF AddStart
    <3> QED
      BY <3>1, <3>2, WithPathKeeps DEF Ready
  <2>2. CASE ~AddStart(c)
    <3>1. patch' = patch
      BY <2>2 DEF Fills, BulkStart, ScanStart, Skip, EnqueueRead, EnqueueWrite, FillEnd
    <3> QED
      BY <3>1 DEF CachedGames
  <2> QED
    BY <2>1, <2>2
<1>3. /\ run'[c].pc \notin Draining
  BY FillingIsOutside, ElsewhereFacts DEF Ready, BudgetInv, Fills, Outside, Moves, Elsewhere
<1>4. run'[c].known \in {run[c].known, CachedGames}
  <2>1. CASE ScanStart(c)
    <3>1. \/ run'[c] = run[c]
          \/ \E todo : run'[c] = [Idle EXCEPT !.pc = "fill", !.todo = todo, !.known = CachedGames]
      BY <1>0, <2>1 DEF ScanStart
    <3>2. \A todo : [Idle EXCEPT !.pc = "fill", !.todo = todo, !.known = CachedGames].known
                      = CachedGames
      BY DEF Idle
    <3> QED
      BY <3>1, <3>2
  <2>2. CASE BulkStart(c)
    BY <1>0, <2>2 DEF BulkStart, RunRecord
  <2>3. CASE Skip(c)
    BY <1>0, <2>3 DEF Skip, RunRecord
  <2>4. CASE EnqueueRead(c)
    BY <1>0, <2>4 DEF EnqueueRead, RunRecord
  <2>5. CASE EnqueueWrite(c)
    BY <1>0, <2>5 DEF EnqueueWrite, RunRecord
  <2>6. CASE FillEnd(c)
    BY <1>0, <2>6 DEF FillEnd, RunRecord
  <2>7. CASE AddStart(c)
    BY <1>0, <2>7 DEF AddStart, RunRecord
  <2> QED
    BY <2>1, <2>2, <2>3, <2>4, <2>5, <2>6, <2>7 DEF Fills
<1>5. budget.paused \in Int
  BY <1>0 DEF BudgetRecord
<1> QED
  BY <1>1, <1>2, <1>3, <1>4, <1>5 DEF Plain, Draining

\* So is what a run does after its drain.
LEMMA EndsPlain ==
    ASSUME Ready, NEW c \in Callers, Ends(c)
    PROVE  Plain(c)
<1> USE DEF stored, history
<1>0. /\ run \in [Callers -> RunRecord] /\ run[c] \in RunRecord /\ budget \in BudgetRecord
  BY DEF Ready, QueueTypes, TypeOK
<1>1. /\ UNCHANGED <<lookup, patch, budget, sentAt, fetched, removed, lost, quiet, limited>>
      /\ \A d \in Callers \ {c} : run'[d] = run[d]
      /\ run[c].pc \in {"wait", "pace", "cancel", "report", "finish"}
  BY <1>0 DEF Ends, StopWaiting, PaceGivenUp, Cancel, BulkReport, ScanReport, AddFinish
<1>2. run'[c].pc \notin Draining
  BY EndingIsOutside, ElsewhereFacts DEF Ready, BudgetInv, Ends, Outside, Moves, Elsewhere
<1>3. run'[c].known \in {run[c].known, {}}
  <2>1. Idle.known = {} /\ Done.known = {}
    BY DEF Idle, Done
  <2>2. CASE StopWaiting(c)
    BY <1>0, <2>2 DEF StopWaiting, RunRecord
  <2>3. CASE PaceGivenUp(c)
    <3>1. run'[c] \in {Idle, [run[c] EXCEPT !.pc = AfterDrain(c)]}
      BY <1>0, <2>3 DEF PaceGivenUp
    <3>2. [run[c] EXCEPT !.pc = AfterDrain(c)].known = run[c].known
      BY <1>0 DEF RunRecord
    <3> QED
      BY <2>1, <3>1, <3>2
  <2>4. CASE Cancel(c)
    BY <1>0, <2>4 DEF Cancel, RunRecord
  <2>5. CASE BulkReport(c)
    BY <1>0, <2>1, <2>5 DEF BulkReport
  <2>6. CASE ScanReport(c)
    BY <1>0, <2>1, <2>6 DEF ScanReport
  <2>7. CASE AddFinish(c)
    BY <1>0, <2>1, <2>7 DEF AddFinish
  <2> QED
    BY <2>2, <2>3, <2>4, <2>5, <2>6, <2>7 DEF Ends
<1>4. budget.paused \in Int /\ CachedGames' = CachedGames
  BY <1>0, <1>1 DEF BudgetRecord, CachedGames
<1> QED
  BY <1>1, <1>2, <1>3, <1>4 DEF Plain, Draining

\* So is taking the lock, which brings what is known up to date.
LEMMA LocksPlain ==
    ASSUME Ready, NEW c \in Callers, Locks(c)
    PROVE  Plain(c)
<1> USE DEF stored, history
<1>0. /\ run \in [Callers -> RunRecord] /\ run[c] \in RunRecord /\ budget \in BudgetRecord
  BY DEF Ready, QueueTypes, TypeOK
<1>1. /\ UNCHANGED <<lookup, patch, budget, sentAt, fetched, removed, lost, quiet, limited>>
      /\ \A d \in Callers \ {c} : run'[d] = run[d]
      /\ run[c].pc \in {"wait", "pace", "off"}
  BY <1>0 DEF Locks, TakeLock, PaceEnd, WorkerStart, BeginDrain
<1>2. /\ run'[c].pc = "check"
      /\ run'[c].known \in {CachedGames, run[c].known \cup CachedGames}
  <2>1. CASE BeginDrain(c)
    BY <1>0, <2>1 DEF BeginDrain, RunRecord
  <2>2. CASE PaceEnd(c)
    BY <1>0, <2>2 DEF PaceEnd, RunRecord
  <2> QED
    BY <2>1, <2>2 DEF Locks, TakeLock, WorkerStart
<1>3. budget.paused \in Int /\ CachedGames' = CachedGames
  BY <1>0, <1>1 DEF BudgetRecord, CachedGames
<1> QED
  BY <1>1, <1>2, <1>3 DEF Plain

\* So are the ways out of a drain: a pause is stored before its caller forgets it.
LEMMA StopsPlain ==
    ASSUME Ready, NEW c \in Callers, Stops(c)
    PROVE  Plain(c)
<1> USE DEF stored, history
<1>0. /\ run \in [Callers -> RunRecord] /\ run[c] \in RunRecord /\ budget \in BudgetRecord
      /\ limited[c] \in Int
  BY DEF Ready, QueueTypes, TypeOK
<1>1. /\ UNCHANGED <<lookup, patch, sentAt, fetched, removed, lost, quiet, limited>>
      /\ run[c].pc \in {"check", "pick", "settle"}
  BY DEF Stops, DrainPaused, DrainLimited, DrainTimeLimit, NothingLeft, BudgetExhausted,
         NeedsRequest, PaceBegin, SettleLimited, SettleAuthRejected, SettleFailed
<1>2. /\ \A d \in Callers \ {c} : run'[d] = run[d]
      /\ run'[c].known \in {run[c].known, {}}
  <2>1. ASSUME NEW outcome, StopDrain(c, outcome)
        PROVE  /\ \A d \in Callers \ {c} : run'[d] = run[d]
               /\ run'[c].known = {}
    <3>1. Idle.known = {}
      BY DEF Idle
    <3>2. CASE c = Worker
      BY <1>0, <2>1, <3>1, <3>2 DEF StopDrain
    <3>3. CASE c # Worker
      <4> DEFINE r == [run[c] EXCEPT !.pc = AfterDrain(c), !.outcome = outcome,
                                     !.rom = NoRom, !.attempts = 0, !.keys = <<>>,
                                     !.known = {}, !.sent = 0, !.paced = FALSE, !.age = 0]
      <4>1. r.known = {}
        BY <1>0 DEF RunRecord
      <4>2. run' = [run EXCEPT ![c] = r]
        BY <1>0, <2>1, <3>3 DEF StopDrain
      <4> HIDE DEF r
      <4> QED
        BY <1>0, <4>1, <4>2
    <3> QED
      BY <3>2, <3>3
  <2>2. CASE PaceBegin(c)
    BY <1>0, <2>2 DEF PaceBegin, RunRecord
  <2>3. CASE ~PaceBegin(c)
    BY <2>1, <2>3 DEF Stops, DrainPaused, DrainLimited, DrainTimeLimit, NothingLeft,
       BudgetExhausted, SettleLimited, SettleAuthRejected, SettleFailed
  <2> QED
    BY <2>2, <2>3
<1>3. run'[c].pc \notin Draining
  BY StopLetsGo, ElsewhereFacts DEF Ready, BudgetInv, Stops, LetsGo, Moves, Elsewhere
<1>4. /\ budget'.start = budget.start /\ budget'.used = budget.used
      /\ budget'.paused >= budget.paused
      /\ run[c].pc = "settle" => limited[c] = 0 \/ budget'.paused >= limited[c]
  <2>1. /\ PausedUntil(budget, limited[c]).start = budget.start
        /\ PausedUntil(budget, limited[c]).used = budget.used
        /\ PausedUntil(budget, limited[c]).paused >= budget.paused
        /\ PausedUntil(budget, limited[c]).paused >= limited[c]
        /\ budget.paused \in Int
    BY <1>0 DEF PausedUntil, BudgetRecord
  <2>2. CASE DrainLimited(c) \/ SettleLimited(c)
    BY <2>1, <2>2 DEF DrainLimited, SettleLimited
  <2>3. CASE ~(DrainLimited(c) \/ SettleLimited(c))
    <3>1. budget' = budget /\ (run[c].pc = "settle" => limited[c] = 0)
      BY <2>3 DEF Stops, DrainPaused, DrainTimeLimit, NothingLeft, BudgetExhausted,
         NeedsRequest, PaceBegin, SettleAuthRejected, SettleFailed
    <3> QED
      BY <2>1, <3>1
  <2> QED
    BY <2>2, <2>3
<1>5. CachedGames' = CachedGames
  BY <1>1 DEF CachedGames
<1> QED
  BY <1>1, <1>2, <1>3, <1>4, <1>5 DEF Plain, Draining

\* So are the steps of a drain before the request.
LEMMA GoingOnPlain ==
    ASSUME Ready, NEW c \in Callers, DrainGoOn(c) \/ AnsweredLocally(c) \/ Request(c)
    PROVE  Plain(c)
<1> USE DEF stored, history
<1>0. /\ run \in [Callers -> RunRecord] /\ run[c] \in RunRecord /\ budget \in BudgetRecord
  BY DEF Ready, QueueTypes, TypeOK
<1>1. /\ UNCHANGED <<lookup, budget, sentAt, fetched, removed, lost, quiet, limited>>
      /\ \A d \in Callers \ {c} : run'[d] = run[d]
      /\ run[c].pc \in {"check", "pick"}
  BY <1>0 DEF DrainGoOn, AnsweredLocally, Request, NeedsRequest
<1>2. /\ run'[c].pc \in {"check", "pick", "ask"} /\ run'[c].known = run[c].known
      /\ run'[c].pc = "ask" => run[c].pc = "pick"
  <2>1. CASE DrainGoOn(c)
    BY <1>0, <2>1 DEF DrainGoOn, RunRecord
  <2>2. CASE AnsweredLocally(c)
    BY <1>0, <2>2 DEF AnsweredLocally, RunRecord
  <2>3. CASE Request(c)
    BY <1>0, <2>3 DEF Request, NeedsRequest, RunRecord
  <2> QED
    BY <2>1, <2>2, <2>3
<1>3. CachedGames' = CachedGames
  <2>1. CASE AnsweredLocally(c)
    <3>1. NextRom(c) \in Roms
      BY <2>1, NextRomTyped DEF AnsweredLocally, Ready, QueueTypes
    <3>2. patch' \in {patch, WithPath(GameOf[NextRom(c)], NextRom(c))}
      BY <2>1 DEF AnsweredLocally
    <3> QED
      BY <3>1, <3>2, WithPathKeeps DEF Ready
  <2>2. CASE ~AnsweredLocally(c)
    BY <2>2 DEF DrainGoOn, Request, CachedGames
  <2> QED
    BY <2>1, <2>2
<1>4. budget.paused \in Int
  BY <1>0 DEF BudgetRecord
<1> QED
  BY <1>1, <1>2, <1>3, <1>4 DEF Plain

-----------------------------------------------------------------------------
(* Such a step keeps what is known and counted. *)

\* A plain step keeps the invariant.
LEMMA PlainKeeps ==
    ASSUME Ready, Ready', DrainInv, NEW c \in Callers, Plain(c)
    PROVE  DrainInv'
<1>0. /\ limited \in [Callers -> Nat] /\ quiet \in Nat /\ budget \in BudgetRecord
      /\ \A d \in Callers : run[d].pc \in Draining <=> lock = d
  BY DEF Ready, QueueTypes, TypeOK, BudgetInv, LockKept
<1>1. AnswersTrue'
  <2>1. MissIsTrue' /\ Settled' = Settled /\ \A k : Missed(k)' <=> Missed(k)
    BY DEF DrainInv, AnswersTrue, MissIsTrue, Missed, Settled, Plain
  <2>2. fetched' \subseteq CachedGames'
    BY DEF DrainInv, AnswersTrue, Plain
  <2>3. ASSUME NEW d \in Callers
        PROVE  Told(d)' /\ KnowsFetched(d)'
    <3>1. CASE d = c
      BY <2>1, <2>2, <3>1
         DEF DrainInv, AnswersTrue, Plain, Told, KnowsFetched, Settled, Draining
    <3>2. CASE d # c
      BY <2>1, <3>2 DEF DrainInv, AnswersTrue, Plain, Told, KnowsFetched, Asked, Missed
    <3> QED
      BY <3>1, <3>2
  <2> QED
    BY <2>1, <2>2, <2>3 DEF AnswersTrue
<1>2. PauseStored'
  <2>1. quiet' = quiet /\ quiet <= PauseTicks
    BY DEF DrainInv, PauseStored, Plain
  <2>2. ASSUME quiet > 0
        PROVE  \/ budget'.paused >= quiet
               \/ \E d \in Callers : run'[d].pc \in {"charge", "settle"} /\ limited'[d] >= quiet
    <3>1. budget.paused \in Int /\ budget'.paused \in Int /\ budget'.paused >= budget.paused
      BY <1>0 DEF Plain, BudgetRecord, Ready, QueueTypes, TypeOK
    <3>2. CASE budget.paused >= quiet
      BY <1>0, <3>1, <3>2
    <3>3. ASSUME NEW d \in Callers, run[d].pc \in {"charge", "settle"}, limited[d] >= quiet
          PROVE  \/ budget'.paused >= quiet
                 \/ \E e \in Callers : run'[e].pc \in {"charge", "settle"} /\ limited'[e] >= quiet
      <4>1. CASE d = c
        BY <1>0, <2>2, <3>1, <3>3, <4>1 DEF Plain
      <4>2. CASE d # c
        BY <3>3, <4>2 DEF Plain
      <4> QED
        BY <4>1, <4>2
    <3> QED
      BY <2>2, <3>2, <3>3 DEF DrainInv, PauseStored
  <2> QED
    BY <2>1, <2>2 DEF PauseStored
<1>3. WindowCounted'
  <2>1. Charging' = Charging
    BY DEF Charging, Plain
  <2>2. UNCHANGED <<budget.start, budget.used, lost, sentAt>>
    BY DEF Plain
  <2> QED
    BY <2>1, <2>2 DEF DrainInv, WindowCounted, Pending, SentSince, SentAfter, AtMost
<1> QED
  BY <1>1, <1>2, <1>3 DEF DrainInv

-----------------------------------------------------------------------------
(* The steps between a request and the next. *)

\* Only one caller drains, so nobody else has an answer to settle or a game to charge.
LEMMA AloneInDrain ==
    ASSUME BudgetInv, NEW c \in Callers, run[c].pc \in Draining, NEW d \in Callers, d # c
    PROVE  run[d].pc \notin Draining
BY DEF BudgetInv, LockKept

\* Who asks does so for a ROM.
LEMMA AnsweredGame ==
    ASSUME Ready, NEW c \in Callers, run[c].pc \in {"ask", "charge", "settle"}
    PROVE  run[c].rom \in Roms /\ Asked(c) \in Games \cup {NoGame}
BY QueueAssumption DEF Ready, QueueTypes, RomTaken, RomOK, AtRom, Asked

\* One member more is counted by one.
LEMMA AtMostGrows ==
    ASSUME NEW S, NEW T, NEW x, T \subseteq S \cup {x}, NEW n \in Int, NEW m \in Int,
           AtMost(S, n), n + 1 <= m
    PROVE  AtMost(T, m)
<1>1. /\ IsFiniteSet(S \cup {x}) /\ Cardinality(S) \in Nat
      /\ Cardinality(S \cup {x}) \in {Cardinality(S), Cardinality(S) + 1}
  BY FS_AddElement, FS_CardinalityType DEF AtMost
<1>2. IsFiniteSet(T) /\ Cardinality(T) \in Nat /\ Cardinality(T) <= Cardinality(S \cup {x})
  BY <1>1, FS_Subset, FS_CardinalityType
<1> QED
  BY <1>1, <1>2 DEF AtMost

\* A smaller set is counted by as much.
LEMMA AtMostLess ==
    ASSUME NEW S, NEW T, T \subseteq S, NEW n \in Int, NEW m \in Int, AtMost(S, n), n <= m
    PROVE  AtMost(T, m)
<1>1. IsFiniteSet(T) /\ Cardinality(T) \in Nat /\ Cardinality(T) <= Cardinality(S)
      /\ Cardinality(S) \in Nat
  BY FS_Subset, FS_CardinalityType DEF AtMost
<1> QED
  BY <1>1 DEF AtMost

\* The game is charged: the window it opens is its own.
LEMMA ChargeCounted ==
    ASSUME Ready, Ready', DrainInv, NEW c \in Callers, ChargeGame(c)
    PROVE  WindowCounted'
<1>1. /\ budget \in BudgetRecord /\ lost \in Nat /\ Limit \in Nat \ {0}
      /\ Window \in Nat \ {0} /\ run[c].pc = "charge"
      /\ UNCHANGED <<sentAt, lost>>
  BY BudgetAssumption DEF Ready, QueueTypes, TypeOK, ChargeGame, history
<1>2. Charging /\ ~Charging'
  <2>1. \A d \in Callers : run'[d].pc # "charge"
    <3>1. run' = [run EXCEPT ![c].pc = "settle"] /\ run \in [Callers -> RunRecord]
      BY DEF ChargeGame, Ready, QueueTypes, TypeOK
    <3>2. run'[c].pc = "settle"
      BY <3>1 DEF RunRecord
    <3>3. \A d \in Callers : d # c => run'[d] = run[d] /\ run[d].pc # "charge"
      BY <1>1, <3>1, AloneInDrain DEF Ready, Draining
    <3> QED
      BY <3>2, <3>3
  <2> QED
    BY <1>1, <2>1 DEF Charging
<1>3. Pending = 1 /\ Pending' = 0
  BY <1>2 DEF Pending
<1>4. budget' = Charge(budget, 0)
  BY DEF ChargeGame
<1>5. /\ budget.start \in Past..0 /\ Past = 0 - Window
      /\ \A k \in Roms : sentAt[k] \in Past..0
  BY <1>1 DEF DrainInv, WindowCounted, Past
<1>6. CASE budget.start > Past
  <2>1. Current(budget, 0) = budget
    BY <1>1, <1>5, <1>6 DEF Current, BudgetRecord
  <2>2. budget'.start = budget.start /\ budget'.used = budget.used + 1 /\ budget.used \in Nat
    BY <1>1, <1>4, <2>1 DEF Charge, BudgetRecord
  <2>3. /\ budget.used > 0 /\ IsFiniteSet(SentAfter(Past))
        /\ AtMost(SentSince(budget.start), budget.used + lost + 1)
        /\ AtMost(SentAfter(budget.start), budget.used - 1 + lost + 1)
    BY <1>3, <1>6 DEF DrainInv, WindowCounted
  <2>4. /\ budget'.used + lost' + Pending' = budget.used + lost + 1
        /\ budget'.used - 1 + lost' + Pending' = budget.used - 1 + lost + 1
    BY <1>1, <1>3, <2>2
  <2>5. /\ SentSince(budget.start)' = SentSince(budget.start)
        /\ SentAfter(budget.start)' = SentAfter(budget.start)
        /\ SentAfter(Past)' = SentAfter(Past)
    BY <1>1, <2>2 DEF SentSince, SentAfter
  <2>6. sentAt' = sentAt /\ budget'.used > 0
    BY <1>1, <2>2
  <2>7. budget'.start > Past /\ ~(budget'.start = Past) /\ budget'.start \in Past..0
    BY <1>5, <1>6, <2>2
  <2>8. AtMost(SentSince(budget.start)', budget'.used + lost' + Pending')
    BY <2>3, <2>4, <2>5
  <2>9. AtMost(SentAfter(budget.start)', budget'.used - 1 + lost' + Pending')
    BY <2>3, <2>4, <2>5
  <2> QED
    BY <1>5, <2>3, <2>5, <2>6, <2>7, <2>8, <2>9 DEF WindowCounted, AtMost
<1>7. CASE budget.start = Past
  <2>1. Current(budget, 0) = [start |-> 0, used |-> 0, paused |-> budget.paused]
    BY <1>1, <1>5, <1>7 DEF Current, BudgetRecord
  <2>2. budget'.start = 0 /\ budget'.used = 1
    BY <1>1, <1>4, <2>1 DEF Charge, BudgetRecord
  <2>3. IsFiniteSet(SentAfter(Past)) /\ AtMost(SentSince(0), lost + 1)
    BY <1>3, <1>7 DEF DrainInv, WindowCounted
  <2>4. SentAfter(0) = {}
    BY <1>5 DEF SentAfter
  <2>5. AtMost({}, lost)
    BY <1>1, FS_EmptySet DEF AtMost
  <2>6. /\ SentSince(budget.start)' = SentSince(0) /\ SentAfter(budget.start)' = SentAfter(0)
        /\ SentAfter(Past)' = SentAfter(Past) /\ sentAt' = sentAt
    BY <1>1, <2>2 DEF SentSince, SentAfter
  <2>7. /\ budget'.used + lost' + Pending' = lost + 1
        /\ budget'.used - 1 + lost' + Pending' = lost
    BY <1>1, <1>3, <2>2
  <2>8. budget'.start > Past /\ ~(budget'.start = Past) /\ budget'.start \in Past..0
    BY <1>1, <1>5, <2>2
  <2>9. AtMost(SentSince(budget.start)', budget'.used + lost' + Pending')
    BY <2>3, <2>6, <2>7
  <2>10. AtMost(SentAfter(budget.start)', budget'.used - 1 + lost' + Pending')
    BY <2>4, <2>5, <2>6, <2>7
  <2> QED
    BY <1>5, <2>2, <2>3, <2>6, <2>8, <2>9, <2>10 DEF WindowCounted, AtMost
<1> QED
  BY <1>1, <1>5, <1>6, <1>7 DEF BudgetRecord

\* A charge changes nothing of what is known, nor of the pause.
LEMMA ChargeKnown ==
    ASSUME Ready, Ready', DrainInv, NEW c \in Callers, ChargeGame(c)
    PROVE  AnswersTrue' /\ PauseStored'
<1>1. /\ run \in [Callers -> RunRecord] /\ run[c].pc = "charge"
      /\ run' = [run EXCEPT ![c].pc = "settle"]
      /\ UNCHANGED <<lookup, patch, fetched, removed, quiet, limited>>
      /\ budget' = Charge(budget, 0) /\ budget \in BudgetRecord
  BY DEF Ready, QueueTypes, TypeOK, ChargeGame, history
<1>2. \A d \in Callers : /\ run'[d].known = run[d].known /\ run'[d].rom = run[d].rom
                         /\ run'[d].outcome = run[d].outcome
                         /\ \/ run'[d].pc = run[d].pc
                            \/ run[d].pc = "charge" /\ run'[d].pc = "settle"
  BY <1>1 DEF RunRecord
<1>3. budget'.paused = budget.paused
  BY <1>1 DEF Charge, Current, BudgetRecord
<1>4. AnswersTrue'
  <2>1. MissIsTrue' /\ Settled' = Settled /\ CachedGames' = CachedGames
        /\ \A k : Missed(k)' <=> Missed(k)
    BY <1>1 DEF DrainInv, AnswersTrue, MissIsTrue, Missed, Settled, CachedGames
  <2>2. ASSUME NEW d \in Callers
        PROVE  Told(d)' /\ KnowsFetched(d)'
    BY <1>1, <1>2, <2>1
       DEF DrainInv, AnswersTrue, Told, KnowsFetched, Asked, Missed, Draining
  <2> QED
    BY <1>1, <2>1, <2>2 DEF DrainInv, AnswersTrue
<1>5. PauseStored'
  BY <1>1, <1>2, <1>3 DEF DrainInv, PauseStored
<1> QED
  BY <1>4, <1>5

\* The answer is settled: the row goes, and what was fetched is known.
LEMMA SettleDoneKeeps ==
    ASSUME Ready, Ready', DrainInv, NEW c \in Callers, SettleDone(c)
    PROVE  DrainInv'
<1>1. /\ run \in [Callers -> RunRecord] /\ run[c] \in RunRecord
      /\ run[c].pc = "settle" /\ limited[c] = 0
      /\ run[c].outcome \in {"cached", "already", "nomatch"}
      /\ UNCHANGED <<lookup, patch, budget, history, limited>>
      /\ quiet \in Nat
  BY DEF Ready, QueueTypes, TypeOK, SettleDone
<1>2. /\ \A d \in Callers \ {c} : run'[d] = run[d] /\ run'[d].pc \notin Draining
      /\ run'[c].pc = "check"
      /\ run'[c].known = IF run[c].outcome = "cached"
                         THEN run[c].known \cup {Asked(c)} ELSE run[c].known
  <2>1. \A d \in Callers \ {c} : run'[d] = run[d]
    BY <1>1 DEF SettleDone
  <2>2. \A d \in Callers \ {c} : run[d].pc \notin Draining
    BY <1>1, AloneInDrain DEF Ready, Draining
  <2>3. /\ run'[c].pc = "check"
        /\ run'[c].known = IF run[c].outcome = "cached"
                           THEN run[c].known \cup {Asked(c)} ELSE run[c].known
    BY <1>1 DEF SettleDone, RunRecord, Asked
  <2> QED
    BY <2>1, <2>2, <2>3
<1>3. AnswersTrue'
  <2>1. MissIsTrue' /\ Settled' = Settled /\ CachedGames' = CachedGames
        /\ \A k : Missed(k)' <=> Missed(k)
    BY <1>1 DEF DrainInv, AnswersTrue, MissIsTrue, Missed, Settled, CachedGames, history
  <2>2. fetched' = fetched
    BY <1>1 DEF history
  <2>3. Told(c)' /\ KnowsFetched(c)'
    BY <1>1, <1>2, <2>1, <2>2 DEF DrainInv, AnswersTrue, Told, KnowsFetched, Draining
  <2>4. ASSUME NEW d \in Callers, d # c
        PROVE  Told(d)' /\ KnowsFetched(d)'
    BY <1>2, <2>1, <2>2, <2>4
       DEF DrainInv, AnswersTrue, Told, KnowsFetched, Asked, Missed, Draining
  <2> QED
    BY <2>1, <2>2, <2>3, <2>4 DEF DrainInv, AnswersTrue
<1>4. PauseStored'
  <2>1. quiet > 0 => budget.paused >= quiet
    <3>1. \A d \in Callers : run[d].pc \in {"charge", "settle"} => d = c
      BY <1>1, AloneInDrain DEF Ready, Draining
    <3> QED
      BY <1>1, <3>1 DEF DrainInv, PauseStored
  <2> QED
    BY <1>1, <2>1 DEF DrainInv, PauseStored, history
<1>5. WindowCounted'
  <2>1. Charging' = Charging
    <3>1. ~Charging
      BY <1>1, AloneInDrain DEF Ready, Charging, Draining
    <3>2. ~Charging'
      BY <1>2 DEF Charging, Draining
    <3> QED
      BY <3>1, <3>2 DEF Charging
  <2>2. UNCHANGED <<budget.start, budget.used, lost, sentAt>>
    BY <1>1 DEF history
  <2> QED
    BY <2>1, <2>2 DEF DrainInv, WindowCounted, Pending, SentSince, SentAfter, AtMost
<1> QED
  BY <1>3, <1>4, <1>5 DEF DrainInv

-----------------------------------------------------------------------------
(* An answer. *)

\* An answer moves its caller alone, and nobody else is in a drain.
LEMMA AnswerMoves ==
    ASSUME Ready, NEW c \in Callers, NEW outcome \in Outcomes, Answer(c, outcome)
    PROVE  /\ run[c].pc = "ask"
           /\ \A d \in Callers \ {c} : run'[d] = run[d] /\ run[d].pc \notin Draining
           /\ run'[c].pc = IF outcome = "cached" THEN "charge" ELSE "settle"
           /\ run'[c].outcome = outcome /\ run'[c].known = run[c].known
           /\ run'[c].rom = run[c].rom /\ Asked(c)' = Asked(c)
<1>1. run \in [Callers -> RunRecord] /\ run[c] \in RunRecord
  BY DEF Ready, QueueTypes, TypeOK
<1>2. run[c].pc = "ask" /\ \A d \in Callers \ {c} : run[d].pc \notin Draining
  BY AloneInDrain DEF Answer, Ready, Draining
<1> QED
  BY <1>1, <1>2 DEF Answer, RunRecord, Asked

\* What a caller is answered is so: a game it was answered with is cached.
LEMMA AnswersKnown ==
    ASSUME Ready, Ready', DrainInv, NEW c \in Callers, Answers(c)
    PROVE  /\ AnswersTrue' /\ Settled \subseteq Settled'
           /\ \A k \in Roms : Missed(k) => Missed(k)'
<1>0. /\ run[c].pc = "ask" /\ run[c].rom \in Roms /\ Asked(c) \in Games \cup {NoGame}
      /\ run \in [Callers -> RunRecord] /\ patch \in [Games -> Roms \cup {NoRom}]
      /\ lookup \in [Roms -> {"unknown", "hit", "miss", "expired"}]
      /\ NoRom \notin Roms /\ NoGame \notin Games
  <2>1. run[c].pc = "ask"
    BY DEF Answers, AnswerFailed, AnswerAuthRejected, AnswerNoMatch, AnswerKnown, AnswerCached,
           Answer
  <2> QED
    BY <2>1, AnsweredGame, QueueAssumption DEF Ready, QueueTypes, TypeOK
<1>1. PICK outcome \in Outcomes :
        /\ Answer(c, outcome)
        /\ outcome = "cached" => AnswerCached(c)
        /\ outcome = "already" => AnswerKnown(c)
        /\ outcome = "nomatch" => AnswerNoMatch(c)
  BY DEF Answers, AnswerFailed, AnswerAuthRejected, AnswerNoMatch, AnswerKnown, AnswerCached,
         Outcomes
<1>2. /\ \A d \in Callers \ {c} : run'[d] = run[d] /\ run[d].pc \notin Draining
      /\ run'[c].pc = IF outcome = "cached" THEN "charge" ELSE "settle"
      /\ run'[c].outcome = outcome /\ run'[c].known = run[c].known
      /\ run'[c].rom = run[c].rom /\ Asked(c)' = Asked(c)
  BY <1>1, AnswerMoves
<1>3. /\ MissIsTrue' /\ \A k \in Roms : Missed(k) => Missed(k)'
      /\ outcome = "nomatch" => Missed(run[c].rom)'
  <2>1. \/ lookup' = lookup
        \/ lookup' = HitIfAny(c)
        \/ lookup' = [lookup EXCEPT ![run[c].rom] = "miss"] /\ Asked(c) = NoGame
    BY DEF Answers, AnswerFailed, AnswerAuthRejected, AnswerNoMatch, AnswerKnown, AnswerCached
  <2>2. MissIsTrue
    BY DEF DrainInv, AnswersTrue
  <2>3. MissIsTrue' /\ \A k \in Roms : Missed(k) => Missed(k)'
    BY <1>0, <2>1, <2>2 DEF MissIsTrue, Missed, HitIfAny, Asked
  <2>4. ASSUME outcome = "nomatch"
        PROVE  Missed(run[c].rom)'
    <3>1. lookup' = [lookup EXCEPT ![run[c].rom] = "miss"]
      BY <1>1, <2>4 DEF AnswerNoMatch
    <3> QED
      BY <1>0, <1>2, <3>1 DEF Missed
  <2> QED
    BY <2>3, <2>4
<1>4. /\ CachedGames \subseteq CachedGames' /\ Settled \subseteq Settled'
      /\ fetched' = IF outcome = "cached" THEN fetched \cup {Asked(c)} ELSE fetched
      /\ outcome = "cached" => Asked(c) \in CachedGames'
  <2>1. removed' = removed
    BY DEF Answers, AnswerFailed, AnswerAuthRejected, AnswerNoMatch, AnswerKnown, AnswerCached,
           history
  <2>2. CASE outcome = "cached"
    <3>1. /\ patch' = [patch EXCEPT ![Asked(c)] = run[c].rom]
          /\ fetched' = fetched \cup {Asked(c)} /\ Asked(c) \in Games
      BY <1>0, <1>1, <2>2 DEF AnswerCached
    <3>2. CachedGames \subseteq CachedGames' /\ Asked(c) \in CachedGames'
      BY <1>0, <3>1 DEF CachedGames
    <3> QED
      BY <2>1, <2>2, <3>1, <3>2 DEF Settled
  <2>3. CASE outcome # "cached"
    <3>1. ~AnswerCached(c)
      <4>1. ASSUME Answer(c, "cached") PROVE FALSE
        <5>1. run'[c].outcome = "cached"
          BY <4>1, AnswerMoves DEF Outcomes
        <5> QED
          BY <1>2, <2>3, <5>1
      <4> QED
        BY <4>1 DEF AnswerCached
    <3>2. fetched' = fetched /\ patch' \in {patch, WithPath(Asked(c), run[c].rom)}
      BY <3>1 DEF Answers, AnswerFailed, AnswerAuthRejected, AnswerNoMatch, AnswerKnown, history
    <3>3. CachedGames' = CachedGames
      BY <1>0, <3>2, WithPathKeeps DEF Ready
    <3> QED
      BY <2>1, <2>3, <3>2, <3>3 DEF Settled
  <2> QED
    BY <2>2, <2>3
<1>5. Told(c)'
  <2>1. run[c].known \subseteq Settled
    BY DEF DrainInv, AnswersTrue, Told
  <2>2. outcome = "already" => Asked(c) \in run[c].known
    BY <1>1 DEF AnswerKnown
  <2>3. outcome \in {"cached", "already"} => Asked(c) \in Settled'
    BY <1>4, <2>1, <2>2 DEF Settled
  <2>4. outcome = "nomatch" => Missed(run[c].rom)'
    BY <1>3
  <2> QED
    <3>1. run'[c].known \subseteq Settled'
      BY <1>2, <1>4, <2>1
    <3>2. run'[c].outcome \in {"cached", "already"} => Asked(c)' \in Settled'
      BY <1>2, <2>3
    <3>3. run'[c].outcome = "nomatch" => Missed(run[c].rom)'
      BY <1>2, <2>4
    <3>4. run'[c].pc = "charge" => run'[c].outcome = "cached"
      BY <1>2
    <3> QED
      BY <3>1, <3>2, <3>3, <3>4 DEF Told
<1>6. KnowsFetched(c)'
  <2>1. fetched \subseteq run[c].known
    BY <1>0 DEF DrainInv, AnswersTrue, KnowsFetched, Draining
  <2> QED
    BY <1>2, <1>4, <2>1 DEF KnowsFetched
<1>7. ASSUME NEW d \in Callers, d # c
      PROVE  Told(d)' /\ KnowsFetched(d)'
  <2>1. run'[d] = run[d] /\ run[d].pc \notin Draining /\ run[d].known \subseteq Settled
    BY <1>2, <1>7 DEF DrainInv, AnswersTrue, Told
  <2> QED
    BY <1>4, <2>1 DEF Told, KnowsFetched, Draining
<1>8. fetched' \subseteq CachedGames'
  BY <1>4 DEF DrainInv, AnswersTrue
<1> QED
  BY <1>3, <1>4, <1>5, <1>6, <1>7, <1>8 DEF AnswersTrue

\* A 429 is known to the caller that will store it.
LEMMA AnswersPause ==
    ASSUME Ready, Ready', DrainInv, NEW c \in Callers, Answers(c)
    PROVE  PauseStored'
<1>1. /\ limited \in [Callers -> Nat] /\ quiet \in Nat /\ PauseTicks \in Nat \ {0}
      /\ budget' = budget
  BY QueueAssumption DEF Ready, QueueTypes, TypeOK, Answers, AnswerFailed, AnswerAuthRejected,
     AnswerNoMatch, AnswerKnown, AnswerCached
<1>2. run[c].pc = "ask" /\ run'[c].pc \in {"charge", "settle"}
  <2>1. \E outcome \in Outcomes : Answer(c, outcome)
    BY DEF Answers, AnswerFailed, AnswerAuthRejected, AnswerNoMatch, AnswerKnown, AnswerCached,
           Outcomes
  <2> QED
    BY <2>1, AnswerMoves
<1>3. \A d \in Callers : run[d].pc \notin {"charge", "settle"}
  BY <1>2, AloneInDrain DEF Ready, Draining
<1>4. \/ UNCHANGED <<limited, quiet>>
      \/ limited' = [limited EXCEPT ![c] = PauseTicks] /\ quiet' = PauseTicks
  BY DEF Answers, AnswerFailed, AnswerAuthRejected, AnswerNoMatch, AnswerKnown, AnswerCached,
         AnsweredWith429, NotLimited, history
<1>5. CASE UNCHANGED <<limited, quiet>>
  BY <1>1, <1>3, <1>5 DEF DrainInv, PauseStored
<1>6. CASE limited' = [limited EXCEPT ![c] = PauseTicks] /\ quiet' = PauseTicks
  <2>1. limited'[c] = PauseTicks
    BY <1>1, <1>6
  <2> QED
    BY <1>1, <1>2, <1>6, <2>1 DEF PauseStored
<1> QED
  BY <1>4, <1>5, <1>6

\* A game is cached: it counts as sent from now on, and is about to be charged.
LEMMA AnswersCounted ==
    ASSUME Ready, Ready', DrainInv, NEW c \in Callers, Answers(c)
    PROVE  WindowCounted'
<1>1. /\ sentAt \in [Roms -> Int] /\ lost \in Nat /\ budget \in BudgetRecord
      /\ Limit \in Nat \ {0} /\ Window \in Nat \ {0} /\ Past = 0 - Window
      /\ budget' = budget /\ lost' = lost
  BY BudgetAssumption DEF Past, Ready, QueueTypes, TypeOK, Answers, AnswerFailed,
     AnswerAuthRejected, AnswerNoMatch, AnswerKnown, AnswerCached, history
<1>2. PICK outcome \in Outcomes : /\ Answer(c, outcome)
                                  /\ outcome = "cached" => AnswerCached(c)
                                  /\ outcome # "cached" => UNCHANGED sentAt
  BY DEF Answers, AnswerFailed, AnswerAuthRejected, AnswerNoMatch, AnswerKnown, AnswerCached,
         Outcomes, history
<1>3. /\ run[c].pc = "ask" /\ run'[c].pc = IF outcome = "cached" THEN "charge" ELSE "settle"
      /\ \A d \in Callers \ {c} : run'[d] = run[d] /\ run[d].pc \notin Draining
      /\ run[c].rom \in Roms
  BY <1>2, AnswerMoves, AnsweredGame
<1>4. ~Charging /\ (Charging' <=> outcome = "cached")
  BY <1>3 DEF Charging, Draining
<1>5. CASE outcome # "cached"
  <2>1. UNCHANGED <<sentAt, budget, lost>> /\ Pending' = Pending
    BY <1>1, <1>2, <1>4, <1>5 DEF Pending
  <2> QED
    BY <2>1 DEF DrainInv, WindowCounted, SentSince, SentAfter, AtMost
<1>6. CASE outcome = "cached"
  <2>1. Pending = 0 /\ Pending' = 1
    BY <1>4, <1>6 DEF Pending
  <2> DEFINE k == run[c].rom
  <2>2. sentAt' = [sentAt EXCEPT ![k] = 0]
    BY <1>2, <1>6 DEF AnswerCached
  <2> HIDE DEF k
  <2>3. ASSUME NEW n \in Int, NEW S, NEW T, AtMost(S, n), T \subseteq S \cup {k}
        PROVE  AtMost(T, n + 1)
    <3>1. n + 1 \in Int /\ n + 1 <= n + 1
      OBVIOUS
    <3> QED
      BY <2>3, <3>1, AtMostGrows, Zenon
  <2>4. /\ SentSince(budget.start)' \subseteq SentSince(budget.start) \cup {k}
        /\ SentAfter(budget.start)' \subseteq SentAfter(budget.start) \cup {k}
        /\ SentSince(0)' \subseteq SentSince(0) \cup {k}
        /\ SentAfter(Past)' \subseteq SentAfter(Past) \cup {k}
    <3>1. budget'.start = budget.start
      BY <1>1
    <3> QED
      BY <1>1, <1>3, <2>2, <3>1 DEF SentSince, SentAfter, k, Past
  <2>5. /\ budget.start \in Past..0 /\ \A j \in Roms : sentAt'[j] \in Past..0
        /\ IsFiniteSet(SentAfter(Past))
    <3>1. budget.start \in Past..0 /\ \A j \in Roms : sentAt[j] \in Past..0
      BY DEF DrainInv, WindowCounted
    <3>2. 0 \in Past..0
      BY <1>1
    <3>3. IsFiniteSet(SentAfter(Past))
      BY DEF DrainInv, WindowCounted
    <3> QED
      BY <1>1, <2>2, <3>1, <3>2, <3>3
  <2>6. IsFiniteSet(SentAfter(Past)')
    BY <2>4, <2>5, FS_AddElement, FS_Subset
  <2>7. ASSUME budget.start > Past
        PROVE  /\ budget.used > 0
               /\ AtMost(SentSince(budget.start)', budget.used + lost + 1)
               /\ AtMost(SentAfter(budget.start)', budget.used - 1 + lost + 1)
    <3> DEFINE n == budget.used + lost
               m == budget.used - 1 + lost
    <3>1. /\ budget.used > 0 /\ AtMost(SentSince(budget.start), n)
          /\ AtMost(SentAfter(budget.start), m)
      <4>1. /\ n + 0 = n /\ m + 0 = m
        BY <1>1 DEF BudgetRecord
      <4> QED
        BY <2>1, <2>7, <4>1 DEF DrainInv, WindowCounted
    <3>2. n \in Int /\ m \in Int
      BY <1>1 DEF BudgetRecord
    <3> HIDE DEF n, m
    <3>3. AtMost(SentSince(budget.start)', n + 1)
      BY <2>3, <2>4, <3>1, <3>2, Zenon
    <3>4. AtMost(SentAfter(budget.start)', m + 1)
      BY <2>3, <2>4, <3>1, <3>2, Zenon
    <3> QED
      BY <3>1, <3>3, <3>4 DEF n, m
  <2>8. ASSUME budget.start = Past
        PROVE  /\ AtMost(SentSince(0)', lost + 1)
               /\ AtMost(SentAfter(Past)', Limit - 1 + lost + 1)
    <3> DEFINE n == Limit - 1 + lost
    <3>1. AtMost(SentSince(0), lost) /\ AtMost(SentAfter(Past), n)
      <4>1. lost + 0 = lost /\ n + 0 = n
        BY <1>1
      <4> QED
        BY <2>1, <2>8, <4>1 DEF DrainInv, WindowCounted
    <3>2. lost \in Int /\ n \in Int
      BY <1>1
    <3> HIDE DEF n
    <3>3. AtMost(SentSince(0)', lost + 1)
      BY <2>3, <2>4, <3>1, <3>2, Zenon
    <3>4. AtMost(SentAfter(Past)', n + 1)
      BY <2>3, <2>4, <3>1, <3>2, Zenon
    <3> QED
      BY <3>3, <3>4 DEF n
  <2> QED
    BY <1>1, <2>1, <2>5, <2>6, <2>7, <2>8 DEF WindowCounted
<1> QED
  BY <1>5, <1>6

-----------------------------------------------------------------------------
(* Time passes. *)

\* A tick closes the window or moves it along with what was sent in it.
LEMMA TickCounted ==
    ASSUME Ready, Ready', DrainInv, Tick
    PROVE  WindowCounted'
<1>1. /\ sentAt \in [Roms -> Int] /\ lost \in Nat /\ budget \in BudgetRecord
      /\ Limit \in Nat \ {0} /\ Window \in Nat \ {0} /\ Past = 0 - Window
      /\ budget.used <= Limit /\ lost' = lost
      /\ budget'.used = budget.used /\ budget'.start = Before(budget.start)
      /\ \A k \in Roms : sentAt'[k] = Before(sentAt[k])
  BY BudgetAssumption DEF Past, Ready, QueueTypes, TypeOK, BudgetInv, NeverOverdrawn, Tick,
     BudgetRecord
<1>2. Pending' = Pending /\ Pending \in {0, 1}
  <2>1. \A c \in Callers : run'[c].pc = run[c].pc
    BY DEF Tick, Ready, BudgetInv, Shape
  <2> QED
    BY <2>1 DEF Pending, Charging
<1>3. /\ budget.start \in Past..0 /\ \A k \in Roms : sentAt[k] \in Past..0
      /\ IsFiniteSet(SentAfter(Past))
  BY DEF DrainInv, WindowCounted
<1>4. /\ \A t \in Past..0 : Before(t) \in Past..0
      /\ \A t \in Past..0 : t > Past => Before(t) = t - 1
      /\ Before(Past) = Past
  BY <1>1 DEF Before
<1>5. budget'.start \in Past..0 /\ \A k \in Roms : sentAt'[k] \in Past..0
  BY <1>1, <1>3, <1>4
<1>6. IsFiniteSet(SentAfter(Past)')
  <2>1. SentAfter(Past)' \subseteq SentAfter(Past)
    <3>1. SentAfter(Past)' = {k \in Roms : sentAt'[k] > Past}
      BY DEF SentAfter, Past
    <3>2. \A k \in Roms : sentAt'[k] > Past => sentAt[k] > Past
      BY <1>1, <1>3, <1>4
    <3> QED
      BY <3>1, <3>2 DEF SentAfter
  <2> QED
    BY <1>3, <2>1, FS_Subset
<1>7. SentSince(0)' = {}
  <2>1. \A k \in Roms : ~(sentAt'[k] >= 0)
    BY <1>1, <1>3, <1>4
  <2> QED
    BY <2>1 DEF SentSince
<1>8. ASSUME NEW n \in Nat
      PROVE  AtMost({}, n)
  BY <1>8, FS_EmptySet DEF AtMost
<1>9. budget.used \in Nat
  BY <1>1 DEF BudgetRecord
<1>10. CASE budget.start = Past
  <2>1. budget'.start = Past
    BY <1>1, <1>4, <1>10
  <2>2. SentAfter(Past)' \subseteq SentAfter(Past)
    <3>1. SentAfter(Past)' = {k \in Roms : sentAt'[k] > Past}
      BY DEF SentAfter, Past
    <3>2. \A k \in Roms : sentAt'[k] > Past => sentAt[k] > Past
      BY <1>1, <1>3, <1>4
    <3> QED
      BY <3>1, <3>2 DEF SentAfter
  <2> DEFINE n == Limit - 1 + lost + Pending
  <2>3. n \in Int /\ n <= n /\ lost + Pending \in Nat
    BY <1>1, <1>2
  <2>4. AtMost(SentAfter(Past), n)
    BY <1>10 DEF DrainInv, WindowCounted
  <2> HIDE DEF n
  <2>5. AtMost(SentAfter(Past)', n)
    BY <2>2, <2>3, <2>4, AtMostLess, Zenon
  <2>6. AtMost(SentSince(0)', lost + Pending)
    BY <1>7, <1>8, <2>3
  <2>7. ~(Past > Past)
    BY <1>1
  <2> QED
    BY <1>1, <1>2, <1>5, <1>6, <2>1, <2>5, <2>6, <2>7 DEF WindowCounted, n, Past
<1>11. CASE budget.start > Past
  <2>1. budget'.start = budget.start - 1
    BY <1>1, <1>3, <1>4, <1>11
  <2> DEFINE n == budget.used + lost + Pending
             m == budget.used - 1 + lost + Pending
  <2>2. /\ budget.used > 0 /\ AtMost(SentSince(budget.start), n)
        /\ AtMost(SentAfter(budget.start), m)
    BY <1>11 DEF DrainInv, WindowCounted
  <2>3. n \in Int /\ m \in Int /\ n <= n /\ m <= m
    BY <1>1, <1>2, <1>9
  <2>4. n' = n /\ m' = m
    BY <1>1, <1>2
  <2>5. CASE budget'.start > Past
    <3>1. SentSince(budget.start)' \subseteq SentSince(budget.start)
      <4>1. SentSince(budget.start)' = {k \in Roms : sentAt'[k] >= budget'.start}
        BY DEF SentSince
      <4>2. \A k \in Roms : sentAt'[k] >= budget'.start => sentAt[k] >= budget.start
        BY <1>1, <1>3, <1>4, <2>1, <2>5
      <4> QED
        BY <4>1, <4>2 DEF SentSince
    <3>2. SentAfter(budget.start)' \subseteq SentAfter(budget.start)
      <4>1. SentAfter(budget.start)' = {k \in Roms : sentAt'[k] > budget'.start}
        BY DEF SentAfter
      <4>2. \A k \in Roms : sentAt'[k] > budget'.start => sentAt[k] > budget.start
        BY <1>1, <1>3, <1>4, <2>1, <2>5
      <4> QED
        BY <4>1, <4>2 DEF SentAfter
    <3> HIDE DEF n, m
    <3>3. AtMost(SentSince(budget.start)', n) /\ AtMost(SentAfter(budget.start)', m)
      BY <2>2, <2>3, <3>1, <3>2, AtMostLess, Zenon
    <3>4. AtMost(SentSince(budget.start)', n') /\ AtMost(SentAfter(budget.start)', m')
      BY <2>4, <3>3
    <3>5. budget'.start # Past /\ budget'.used > 0
      BY <1>1, <1>5, <2>2, <2>5
    <3> QED
      BY <1>5, <1>6, <3>4, <3>5 DEF WindowCounted, n, m, Past
  <2>6. CASE budget'.start = Past
    <3>1. SentAfter(Past)' \subseteq SentAfter(budget.start)
      <4>1. SentAfter(Past)' = {k \in Roms : sentAt'[k] > Past}
        BY DEF SentAfter, Past
      <4>2. \A k \in Roms : sentAt'[k] > Past => sentAt[k] > budget.start
        BY <1>1, <1>3, <1>4, <2>1, <2>6
      <4> QED
        BY <4>1, <4>2 DEF SentAfter
    <3> DEFINE l == Limit - 1 + lost + Pending
    <3>2. l \in Int /\ m <= l /\ l' = l /\ (lost + Pending)' \in Nat
      BY <1>1, <1>2, <1>9
    <3> HIDE DEF n, m, l
    <3>3. AtMost(SentAfter(Past)', l)
      BY <2>2, <2>3, <3>1, <3>2, AtMostLess, Zenon
    <3>4. AtMost(SentSince(0)', (lost + Pending)')
      BY <1>7, <1>8, <3>2
    <3>5. ~(budget'.start > Past)
      BY <1>1, <2>6
    <3> QED
      BY <1>5, <1>6, <2>6, <3>2, <3>3, <3>4, <3>5 DEF WindowCounted, l, Past
  <2> QED
    BY <1>1, <1>5, <2>5, <2>6
<1> QED
  BY <1>1, <1>3, <1>10, <1>11

\* A tick shortens the pause wherever it is known.
LEMMA TickKnown ==
    ASSUME Ready, Ready', DrainInv, Tick
    PROVE  AnswersTrue' /\ PauseStored'
<1>1. /\ run \in [Callers -> RunRecord] /\ limited \in [Callers -> Nat] /\ quiet \in Nat
      /\ PauseTicks \in Nat /\ budget \in BudgetRecord /\ Window \in Nat \ {0}
      /\ UNCHANGED <<lookup, patch, fetched, removed>>
      /\ quiet' = Less(quiet) /\ \A c \in Callers : limited'[c] = Less(limited[c])
      /\ budget'.paused = Before(budget.paused)
  BY QueueAssumption, BudgetAssumption DEF Ready, QueueTypes, TypeOK, Tick, BudgetRecord
<1>2. \A c \in Callers : /\ run'[c].pc = run[c].pc /\ run'[c].known = run[c].known
                         /\ run'[c].rom = run[c].rom /\ run'[c].outcome = run[c].outcome
  BY <1>1 DEF Tick, RunRecord
<1>3. AnswersTrue'
  <2>1. MissIsTrue' /\ Settled' = Settled /\ CachedGames' = CachedGames
        /\ \A k : Missed(k)' <=> Missed(k)
    BY <1>1 DEF DrainInv, AnswersTrue, MissIsTrue, Missed, Settled, CachedGames
  <2>2. ASSUME NEW c \in Callers
        PROVE  Told(c)' /\ KnowsFetched(c)'
    BY <1>1, <1>2, <2>1 DEF DrainInv, AnswersTrue, Told, KnowsFetched, Asked, Missed
  <2> QED
    BY <1>1, <2>1, <2>2 DEF DrainInv, AnswersTrue
<1>4. PauseStored'
  <2>1. quiet' <= PauseTicks
    BY <1>1 DEF Less, DrainInv, PauseStored
  <2>2. ASSUME quiet' > 0
        PROVE  \/ budget'.paused >= quiet'
               \/ \E c \in Callers : run'[c].pc \in {"charge", "settle"} /\ limited'[c] >= quiet'
    <3>1. quiet > 0 /\ quiet' = quiet - 1
      BY <1>1, <2>2 DEF Less
    <3>2. CASE budget.paused >= quiet
      <4>1. budget'.paused = budget.paused - 1 /\ budget.paused \in Int
        BY <1>1, <3>1, <3>2 DEF Before, Past, BudgetRecord
      <4> QED
        BY <1>1, <3>1, <3>2, <4>1
    <3>3. ASSUME NEW c \in Callers, run[c].pc \in {"charge", "settle"}, limited[c] >= quiet
          PROVE  limited'[c] >= quiet'
      <4>1. limited[c] \in Nat /\ limited'[c] = Less(limited[c])
        BY <1>1
      <4> QED
        BY <1>1, <3>1, <3>3, <4>1 DEF Less
    <3> QED
      BY <1>2, <3>1, <3>2, <3>3 DEF DrainInv, PauseStored
  <2> QED
    BY <2>1, <2>2 DEF PauseStored
<1> QED
  BY <1>3, <1>4

-----------------------------------------------------------------------------
(* A process dies. *)

\* What a dying process loses.
LEMMA DeathMoves ==
    ASSUME Ready, NEW procs \in SUBSET Callers, Dies(procs)
    PROVE  /\ \A c \in Callers \ procs : run'[c] = run[c] /\ limited'[c] = limited[c]
           /\ \A c \in procs : /\ run'[c].pc \in {"off", "done"} /\ run'[c].known = {}
                               /\ limited'[c] = 0
           /\ UNCHANGED <<stored, fate, sentAt, fetched, removed, rescan, busy>>
BY DEF Dies, Idle, Done

\* A pause not yet stored is forgotten with the one that knew it, and not asked for.
LEMMA DeathKnown ==
    ASSUME Ready, Ready', DrainInv, NEW procs \in SUBSET Callers, Dies(procs)
    PROVE  AnswersTrue' /\ PauseStored'
<1>1. /\ \A c \in Callers \ procs : run'[c] = run[c] /\ limited'[c] = limited[c]
      /\ \A c \in procs : /\ run'[c].pc \in {"off", "done"} /\ run'[c].known = {}
                          /\ limited'[c] = 0
      /\ UNCHANGED <<lookup, patch, budget, fetched, removed>>
  BY DeathMoves DEF stored
<1>2. AnswersTrue'
  <2>1. MissIsTrue' /\ Settled' = Settled /\ CachedGames' = CachedGames
        /\ \A k : Missed(k)' <=> Missed(k)
    BY <1>1 DEF DrainInv, AnswersTrue, MissIsTrue, Missed, Settled, CachedGames
  <2>2. ASSUME NEW c \in Callers
        PROVE  Told(c)' /\ KnowsFetched(c)'
    <3>1. CASE c \in procs
      BY <1>1, <3>1 DEF Told, KnowsFetched, Draining
    <3>2. CASE c \notin procs
      BY <1>1, <2>1, <3>2 DEF DrainInv, AnswersTrue, Told, KnowsFetched, Asked, Missed
    <3> QED
      BY <3>1, <3>2
  <2> QED
    BY <1>1, <2>1, <2>2 DEF DrainInv, AnswersTrue
<1>3. PauseStored'
  <2>1. /\ quiet \in Nat /\ limited \in [Callers -> Nat] /\ PauseTicks \in Nat
    BY QueueAssumption DEF Ready, QueueTypes, TypeOK
  <2>2. CASE \E c \in procs : limited[c] > 0 /\ run[c].pc \in {"charge", "settle"}
    <3>1. quiet' = 0
      BY <2>2 DEF Dies
    <3> QED
      BY <2>1, <3>1 DEF PauseStored
  <2>3. CASE ~\E c \in procs : limited[c] > 0 /\ run[c].pc \in {"charge", "settle"}
    <3>1. quiet' = quiet
      BY <2>3 DEF Dies
    <3>2. ASSUME NEW c \in Callers, run[c].pc \in {"charge", "settle"}, limited[c] >= quiet,
                 quiet > 0
          PROVE  run'[c].pc \in {"charge", "settle"} /\ limited'[c] >= quiet
      <4>1. limited[c] > 0
        BY <2>1, <3>2
      <4> QED
        BY <1>1, <2>3, <3>2, <4>1
    <3> QED
      BY <1>1, <3>1, <3>2 DEF DrainInv, PauseStored
  <2> QED
    BY <2>2, <2>3
<1> QED
  BY <1>2, <1>3

\* A crash between caching a game and charging it counts as lost.
LEMMA DeathCounted ==
    ASSUME Ready, Ready', DrainInv, NEW procs \in SUBSET Callers, Dies(procs)
    PROVE  WindowCounted'
<1>1. /\ lost \in Nat /\ Limit \in Nat \ {0} /\ budget \in BudgetRecord
      /\ UNCHANGED <<budget, sentAt>>
  BY BudgetAssumption, DeathMoves DEF Ready, QueueTypes, TypeOK, stored
<1> DEFINE charging == {c \in procs : run[c].pc = "charge"}
<1>2. IsFiniteSet(charging) /\ Cardinality(charging) \in Nat
  <2>1. charging \subseteq {lock}
    BY DEF Ready, BudgetInv, LockKept, Draining
  <2>2. IsFiniteSet({lock})
    BY FS_Singleton
  <2> QED
    BY <2>1, <2>2, FS_Subset, FS_CardinalityType
<1>3. lost' = lost + Cardinality(charging)
  BY DEF Dies
<1>4. lost + Pending <= lost' + Pending' /\ lost + Pending \in Int /\ lost' + Pending' \in Int
  <2>1. CASE charging = {}
    <3>1. \A c \in procs : run[c].pc # "charge"
      BY <2>1
    <3>2. \A c \in Callers : run'[c].pc = "charge" <=> run[c].pc = "charge"
      BY <3>1, DeathMoves
    <3>3. Pending' = Pending /\ Pending \in {0, 1}
      BY <3>2 DEF Charging, Pending
    <3>4. Cardinality(charging) = 0
      BY <2>1, FS_EmptySet
    <3> HIDE DEF charging
    <3> QED
      BY <1>1, <1>3, <3>3, <3>4
  <2>2. CASE charging # {}
    <3>1. Cardinality(charging) > 0
      BY <1>2, <2>2, FS_EmptySet
    <3> HIDE DEF charging
    <3> QED
      BY <1>1, <1>2, <1>3, <3>1 DEF Pending
  <2> QED
    BY <2>1, <2>2
<1> HIDE DEF charging
<1>5. ASSUME NEW S, NEW b \in Int, AtMost(S, b + lost + Pending)
      PROVE  AtMost(S, b + lost' + Pending')
  <2>1. Pending \in Nat /\ Pending' \in Nat /\ lost \in Nat /\ lost' \in Nat
    BY <1>1, <1>2, <1>3 DEF Pending
  <2>2. /\ b + lost + Pending \in Int /\ b + lost' + Pending' \in Int
        /\ b + lost + Pending <= b + lost' + Pending'
    <3>1. ASSUME NEW l \in Nat, NEW p \in Nat, NEW m \in Nat, NEW q \in Nat, l + p <= m + q
          PROVE  b + l + p \in Int /\ b + m + q \in Int /\ b + l + p <= b + m + q
      BY <3>1
    <3> QED
      BY <1>4, <2>1, <3>1, Zenon
  <2>3. S \subseteq S
    OBVIOUS
  <2> QED
    BY <1>5, <2>2, <2>3, AtMostLess, Zenon
<1>6. ASSUME NEW S, AtMost(S, lost + Pending)
      PROVE  AtMost(S, lost' + Pending')
  <2>1. S \subseteq S
    OBVIOUS
  <2> QED
    BY <1>4, <1>6, <2>1, AtMostLess, Zenon
<1>7. /\ \A t : SentSince(t) = {k \in Roms : sentAt[k] >= t}
      /\ \A t : SentAfter(t) = {k \in Roms : sentAt[k] > t}
  BY DEF SentSince, SentAfter
<1>8. /\ SentSince(budget.start)' = SentSince(budget.start)
      /\ SentAfter(budget.start)' = SentAfter(budget.start)
      /\ SentSince(0)' = SentSince(0) /\ SentAfter(Past)' = SentAfter(Past)
  BY <1>1 DEF SentSince, SentAfter, Past
<1>9. /\ budget.start \in Past..0 /\ \A k \in Roms : sentAt[k] \in Past..0
      /\ IsFiniteSet(SentAfter(Past))
      /\ budget.used \in Int /\ budget.used - 1 \in Int /\ Limit - 1 \in Int
  BY <1>1 DEF DrainInv, WindowCounted, BudgetRecord
<1>10. ASSUME budget.start > Past
       PROVE  /\ budget.used > 0
              /\ AtMost(SentSince(budget.start), budget.used + lost' + Pending')
              /\ AtMost(SentAfter(budget.start), budget.used - 1 + lost' + Pending')
  <2>1. /\ budget.used > 0
        /\ AtMost(SentSince(budget.start), budget.used + lost + Pending)
        /\ AtMost(SentAfter(budget.start), budget.used - 1 + lost + Pending)
    BY <1>10 DEF DrainInv, WindowCounted
  <2> QED
    BY <1>5, <1>9, <2>1, Zenon
<1>11. ASSUME budget.start = Past
       PROVE  /\ AtMost(SentSince(0), lost' + Pending')
              /\ AtMost(SentAfter(Past), Limit - 1 + lost' + Pending')
  <2>1. /\ AtMost(SentSince(0), lost + Pending)
        /\ AtMost(SentAfter(Past), Limit - 1 + lost + Pending)
    BY <1>11 DEF DrainInv, WindowCounted
  <2> QED
    BY <1>5, <1>6, <1>9, <2>1, Zenon
<1> QED
  BY <1>1, <1>8, <1>9, <1>10, <1>11 DEF WindowCounted, Past

-----------------------------------------------------------------------------
(* The user, the emulator, and a miss that expires. *)

\* What the user deletes stays settled, and a stored miss is only ever true.
LEMMA OthersKeepDrain ==
    ASSUME Ready, Ready', DrainInv, Others
    PROVE  DrainInv' /\ Settled \subseteq Settled' /\ \A k \in Roms : Missed(k) => Missed(k)'
<1> USE DEF stored, history
<1>1. /\ run \in [Callers -> RunRecord] /\ limited \in [Callers -> Nat] /\ quiet \in Nat
      /\ lookup \in [Roms -> {"unknown", "hit", "miss", "expired"}]
      /\ patch \in [Games -> Roms \cup {NoRom}] /\ PauseTicks \in Nat
      /\ UNCHANGED <<budget, sentAt, lost, quiet>>
  BY QueueAssumption DEF Ready, QueueTypes, TypeOK, Others, Abort, RemoveGame, Play, PlayEnds,
     ServiceLimited, MissExpires, vars
<1>2. \A c \in Callers : /\ run'[c].pc = run[c].pc /\ run'[c].known = run[c].known
                         /\ run'[c].rom = run[c].rom /\ run'[c].outcome = run[c].outcome
  <2>1. CASE \E c \in Callers : Abort(c)
    BY <1>1, <2>1 DEF Abort, RunRecord
  <2>2. CASE ~\E c \in Callers : Abort(c)
    BY <2>2 DEF Others, RemoveGame, Play, PlayEnds, ServiceLimited, MissExpires, vars
  <2> QED
    BY <2>1, <2>2
<1>3. /\ Settled \subseteq Settled' /\ MissIsTrue' /\ \A k \in Roms : Missed(k) => Missed(k)'
      /\ fetched' \subseteq fetched /\ fetched' \subseteq CachedGames'
  <2>1. MissIsTrue /\ fetched \subseteq CachedGames
    BY DEF DrainInv, AnswersTrue
  <2>2. CASE \E g \in Games : RemoveGame(g)
    <3>1. PICK g \in Games : RemoveGame(g)
      BY <2>2
    <3>2. /\ patch' = [patch EXCEPT ![g] = NoRom] /\ removed' = removed \cup {g}
          /\ fetched' = fetched \ {g}
          /\ lookup' = [k \in Roms |->
                         IF GameOf[k] = g /\ lookup[k] = "hit" THEN "unknown" ELSE lookup[k]]
      BY <3>1 DEF RemoveGame
    <3>3. CachedGames' = CachedGames \ {g}
      BY <1>1, <3>2 DEF CachedGames
    <3>4. \A k \in Roms : Missed(k)' <=> Missed(k)
      BY <1>1, <3>2 DEF Missed
    <3> QED
      BY <2>1, <3>2, <3>3, <3>4 DEF Settled, MissIsTrue
  <2>3. CASE MissExpires
    <3>1. UNCHANGED <<patch, removed, fetched>>
      BY <2>3 DEF MissExpires
    <3>2. \A k \in Roms : Missed(k)' <=> Missed(k)
      BY <1>1, <2>3 DEF MissExpires, Missed
    <3> QED
      BY <2>1, <3>1, <3>2 DEF Settled, MissIsTrue, CachedGames
  <2>4. CASE (\E c \in Callers : Abort(c)) \/ Play \/ PlayEnds \/ ServiceLimited \/ UNCHANGED vars
    <3>1. UNCHANGED <<patch, removed, fetched, lookup>>
      BY <2>4 DEF Abort, Play, PlayEnds, ServiceLimited, vars
    <3> QED
      BY <2>1, <3>1 DEF Settled, MissIsTrue, Missed, CachedGames
  <2> QED
    BY <2>2, <2>3, <2>4 DEF Others
<1>4. AnswersTrue'
  <2>1. ASSUME NEW c \in Callers
        PROVE  Told(c)' /\ KnowsFetched(c)'
    <3>1. run[c].pc \in {"charge", "settle"} => run[c].rom \in Roms
      BY AnsweredGame
    <3> QED
      BY <1>2, <1>3, <3>1 DEF DrainInv, AnswersTrue, Told, KnowsFetched, Asked, Missed
  <2> QED
    BY <1>3, <2>1 DEF AnswersTrue
<1>5. PauseStored'
  <2>1. \/ limited' = limited
        \/ limited' = [limited EXCEPT ![Worker] = PauseTicks]
    BY DEF Others, Abort, RemoveGame, Play, PlayEnds, ServiceLimited, MissExpires, vars
  <2>2. quiet <= PauseTicks
    BY DEF DrainInv, PauseStored
  <2>3. \A c \in Callers : limited[c] >= quiet => limited'[c] >= quiet
    BY <1>1, <2>1, <2>2
  <2> QED
    BY <1>1, <1>2, <2>2, <2>3 DEF DrainInv, PauseStored
<1>6. WindowCounted'
  <2>1. Charging' = Charging
    BY <1>2 DEF Charging
  <2> QED
    BY <1>1, <2>1 DEF DrainInv, WindowCounted, Pending, SentSince, SentAfter, AtMost
<1> QED
  BY <1>3, <1>4, <1>5, <1>6 DEF DrainInv

-----------------------------------------------------------------------------
(* Every step keeps what is known and counted. *)

\* Types and budget hold together.
LEMMA ReadyHolds == Spec => []Ready
BY QueueTypesHold, BudgetInvHolds, PTL DEF Ready

\* Nothing is known or sent at first.
LEMMA DrainInvInit == Init => DrainInv
<1> SUFFICES ASSUME Init PROVE DrainInv
  OBVIOUS
<1>1. CachedGames = {} /\ \A k \in Roms : ~Missed(k)
  BY DEF Init, CachedGames, Missed
<1>2. \A c \in Callers : run[c] = Idle /\ Idle.pc = "off" /\ Idle.known = {}
  BY DEF Init, Idle
<1>3. AnswersTrue
  BY <1>1, <1>2 DEF Init, AnswersTrue, MissIsTrue, Told, KnowsFetched, Draining
<1>4. PauseStored
  BY QueueAssumption DEF Init, PauseStored
<1>5. WindowCounted
  <2>1. /\ Limit \in Nat \ {0} /\ Window \in Nat \ {0} /\ Past = 0 - Window
        /\ budget.start = Past /\ lost = 0 /\ \A k \in Roms : sentAt[k] = Past
    BY BudgetAssumption DEF Init, Past
  <2>2. SentAfter(Past) = {} /\ SentSince(0) = {}
    BY <2>1 DEF SentAfter, SentSince
  <2>3. Pending = 0
    BY <1>2 DEF Pending, Charging
  <2>4. AtMost({}, 0) /\ AtMost({}, Limit - 1 + 0 + 0)
    BY <2>1, FS_EmptySet DEF AtMost
  <2>5. 0 + 0 = 0 /\ Past \in Past..0 /\ ~(Past > Past)
    BY <2>1
  <2> QED
    BY <2>1, <2>2, <2>3, <2>4, <2>5, FS_EmptySet DEF WindowCounted
<1> QED
  BY <1>3, <1>4, <1>5 DEF DrainInv

\* What RetroAchievements or the user settled stays settled.
Stays == Settled \subseteq Settled' /\ \A k \in Roms : Missed(k) => Missed(k)'

\* A plain step unsettles nothing.
LEMMA PlainStays ==
    ASSUME NEW c, Plain(c)
    PROVE  Stays
BY DEF Plain, Stays, Settled, Missed

\* Nor does one that leaves the cache alone.
LEMMA StaysSame ==
    ASSUME UNCHANGED <<lookup, patch, removed>>
    PROVE  Stays
BY DEF Stays, Settled, Missed, CachedGames

\* Every step keeps the invariant and unsettles nothing.
LEMMA DrainInvStep ==
    ASSUME Ready, Ready', DrainInv, [Next]_vars
    PROVE  DrainInv' /\ Stays
<1>1. ASSUME NEW c \in Callers, Fills(c) \/ Ends(c) \/ Locks(c) \/ Stops(c)
      PROVE  DrainInv' /\ Stays
  BY <1>1, FillsPlain, EndsPlain, LocksPlain, StopsPlain, PlainKeeps, PlainStays
<1>2. ASSUME NEW c \in Callers, Proceeds(c)
      PROVE  DrainInv' /\ Stays
  <2>1. CASE DrainGoOn(c) \/ AnsweredLocally(c) \/ Request(c)
    BY <2>1, GoingOnPlain, PlainKeeps, PlainStays
  <2>2. CASE ChargeGame(c)
    <3>1. Stays
      BY <2>2, StaysSame DEF ChargeGame, history
    <3> QED
      BY <2>2, <3>1, ChargeCounted, ChargeKnown DEF DrainInv
  <2>3. CASE SettleDone(c)
    <3>1. Stays
      BY <2>3, StaysSame DEF SettleDone, history
    <3> QED
      BY <2>3, <3>1, SettleDoneKeeps
  <2> QED
    BY <1>2, <2>1, <2>2, <2>3 DEF Proceeds
<1>3. ASSUME NEW c \in Callers, Answers(c)
      PROVE  DrainInv' /\ Stays
  BY <1>3, AnswersKnown, AnswersPause, AnswersCounted DEF DrainInv, Stays
<1>4. ASSUME NEW procs \in Processes, Dies(procs)
      PROVE  DrainInv' /\ Stays
  <2>1. procs \in SUBSET Callers
    BY ProcessesAre
  <2>2. Stays
    BY <1>4, StaysSame DEF Dies, stored
  <2> QED
    BY <1>4, <2>1, <2>2, DeathKnown, DeathCounted DEF DrainInv
<1>5. CASE Tick
  <2>1. Stays
    BY <1>5, StaysSame DEF Tick
  <2> QED
    BY <1>5, <2>1, TickKnown, TickCounted DEF DrainInv
<1>6. CASE Others
  BY <1>6, OthersKeepDrain DEF Stays
<1> QED
  BY <1>1, <1>2, <1>3, <1>4, <1>5, <1>6, StepKinds

\* The invariant of the drain holds.
LEMMA DrainInvHolds == Spec => []DrainInv
<1>1. Ready /\ Ready' /\ DrainInv /\ [Next]_vars => DrainInv'
  BY DrainInvStep
<1> QED
  BY <1>1, DrainInvInit, ReadyHolds, PTL DEF Spec

-----------------------------------------------------------------------------
(* What follows. *)

\* "A window allows CACHE_BUDGET_LIMIT cached games" (rom_browser.py:684): of the games sent
\* since a window opened, at most the limit, and one more for every crash that lost a charge.
THEOREM WindowsBound == Spec => []BudgetKept
<1>1. Ready /\ DrainInv => BudgetKept
  <2> SUFFICES ASSUME Ready, DrainInv PROVE BudgetKept
    OBVIOUS
  <2>1. /\ budget \in BudgetRecord /\ lost \in Nat /\ Limit \in Nat \ {0}
        /\ Window \in Nat \ {0} /\ Past = 0 - Window
        /\ budget.start \in Past..0 /\ budget.used \in Nat /\ budget.used <= Limit
        /\ \A k \in Roms : sentAt[k] \in Past..0
    BY BudgetAssumption DEF Past, Ready, QueueTypes, TypeOK, BudgetInv, NeverOverdrawn, DrainInv,
       WindowCounted, BudgetRecord
  <2> DEFINE counted == {k \in Roms : sentAt[k] > Past /\ sentAt[k] >= budget.start}
  <2>2. CASE budget.start > Past
    <3>1. counted = SentSince(budget.start)
      BY <2>1, <2>2 DEF SentSince
    <3>2. AtMost(SentSince(budget.start), budget.used + lost + Pending)
      BY <2>2 DEF DrainInv, WindowCounted
    <3>3. budget.used + Pending <= Limit /\ Pending \in {0, 1}
      <4>1. CASE Charging
        <5>1. Current(budget, 0).used < Limit
          BY <4>1 DEF Ready, BudgetInv, RoomLeft, Charging
        <5>2. Current(budget, 0) = budget
          BY <2>1, <2>2 DEF Current, BudgetRecord
        <5> QED
          BY <2>1, <4>1, <5>1, <5>2 DEF Pending
      <4>2. CASE ~Charging
        BY <2>1, <4>2 DEF Pending
      <4> QED
        BY <4>1, <4>2
    <3>4. Cardinality(counted) \in Nat /\ Cardinality(counted) <= budget.used + lost + Pending
      BY <3>1, <3>2, FS_CardinalityType DEF AtMost
    <3> HIDE DEF counted
    <3>5. Cardinality(counted) <= Limit + lost
      BY <2>1, <3>3, <3>4
    <3> QED
      BY <3>5 DEF BudgetKept, counted
  <2>3. CASE budget.start = Past
    <3>1. counted = SentAfter(Past)
      BY <2>1, <2>3 DEF SentAfter
    <3>2. AtMost(SentAfter(Past), Limit - 1 + lost + Pending) /\ Pending \in {0, 1}
      BY <2>3 DEF DrainInv, WindowCounted, Pending
    <3>3. Cardinality(counted) \in Nat /\ Cardinality(counted) <= Limit - 1 + lost + Pending
      BY <3>1, <3>2, FS_CardinalityType DEF AtMost
    <3> HIDE DEF counted
    <3>4. Cardinality(counted) <= Limit + lost
      BY <2>1, <3>2, <3>3
    <3> QED
      BY <3>4 DEF BudgetKept, counted
  <2> QED
    BY <2>1, <2>2, <2>3
<1> QED
  BY <1>1, ReadyHolds, DrainInvHolds, PTL

\* Only a request begins to ask, and only a cached game is about to be charged.
LEMMA AskSteps ==
    ASSUME Ready, [Next]_vars, NEW c \in Callers
    PROVE  /\ run[c].pc # "ask" /\ run'[c].pc = "ask" => Request(c)
           /\ run[c].pc = "ask" /\ run'[c].pc = "charge" => AnswerCached(c)
<1> USE DEF Draining
<1>1. ASSUME NEW d \in Callers, Plain(d), run'[d].pc # "ask"
      PROVE  /\ run[c].pc # "ask" => run'[c].pc # "ask"
             /\ run[c].pc = "ask" => run'[c].pc # "charge"
  BY <1>1 DEF Plain
<1>2. ASSUME NEW d \in Callers, Fills(d) \/ Ends(d) \/ Locks(d) \/ Stops(d)
      PROVE  Plain(d) /\ run'[d].pc # "ask"
  <2>1. Plain(d)
    BY <1>2, FillsPlain, EndsPlain, LocksPlain, StopsPlain
  <2>2. ASSUME run'[d].pc = "ask"
        PROVE  FALSE
    <3>1. run[d].pc = "pick"
      BY <2>1, <2>2 DEF Plain
    <3>2. Stops(d)
      BY <1>2, <3>1 DEF Fills, BulkStart, ScanStart, Skip, EnqueueRead, EnqueueWrite, FillEnd,
         AddStart, Ends, StopWaiting, PaceGivenUp, Cancel, BulkReport, ScanReport, AddFinish,
         Locks, TakeLock, PaceEnd, WorkerStart
    <3>3. run'[d].pc \notin Draining
      BY <3>2, StopLetsGo, ElsewhereFacts DEF Ready, BudgetInv, Stops, LetsGo, Moves, Elsewhere
    <3> QED
      BY <2>2, <3>3
  <2> QED
    BY <2>1, <2>2
<1>3. ASSUME NEW d \in Callers, Proceeds(d)
      PROVE  /\ run[c].pc # "ask" /\ run'[c].pc = "ask" => Request(c)
             /\ run[c].pc = "ask" => run'[c].pc # "charge"
  <2>0. run \in [Callers -> RunRecord]
    BY DEF Ready, QueueTypes, TypeOK
  <2>1. CASE DrainGoOn(d) \/ AnsweredLocally(d)
    <3>1. run'[d].pc # "ask"
      BY <2>0, <2>1 DEF DrainGoOn, AnsweredLocally, RunRecord
    <3> QED
      BY <1>1, <2>1, <3>1, GoingOnPlain
  <2>2. CASE Request(d)
    BY <2>2, GoingOnPlain DEF Plain
  <2>3. CASE ChargeGame(d)
    BY <2>0, <2>3 DEF ChargeGame, RunRecord
  <2>4. CASE SettleDone(d)
    BY <2>0, <2>4 DEF SettleDone, RunRecord
  <2> QED
    BY <1>3, <2>1, <2>2, <2>3, <2>4 DEF Proceeds
<1>4. ASSUME NEW d \in Callers, Answers(d)
      PROVE  /\ run[c].pc # "ask" => run'[c].pc # "ask"
             /\ run[c].pc = "ask" /\ run'[c].pc = "charge" => AnswerCached(c)
  <2>1. PICK outcome \in Outcomes : Answer(d, outcome) /\ (outcome = "cached" => AnswerCached(d))
    BY <1>4 DEF Answers, AnswerFailed, AnswerAuthRejected, AnswerNoMatch, AnswerKnown,
       AnswerCached, Outcomes
  <2> QED
    BY <2>1, AnswerMoves
<1>5. ASSUME NEW procs \in Processes, Dies(procs)
      PROVE  /\ run[c].pc # "ask" => run'[c].pc # "ask"
             /\ run[c].pc = "ask" => run'[c].pc # "charge"
  BY <1>5, ProcessesAre, DeathMoves
<1>6. ASSUME Tick \/ Others
      PROVE  run'[c].pc = run[c].pc
  <2>0. run \in [Callers -> RunRecord]
    BY DEF Ready, QueueTypes, TypeOK
  <2>1. CASE Tick
    BY <2>0, <2>1 DEF Tick, RunRecord
  <2>2. CASE Others
    BY <2>0, <2>2 DEF Others, Abort, RemoveGame, Play, PlayEnds, ServiceLimited, MissExpires,
       vars, RunRecord
  <2> QED
    BY <1>6, <2>1, <2>2
<1> QED
  BY <1>1, <1>2, <1>3, <1>4, <1>5, <1>6, StepKinds

\* "A 429 stops the queue for at least RATE_LIMIT_PAUSE_MS" (rom_browser.py:689), whichever
\* process was told of it.
THEOREM PausesKept == Spec => PauseKept
<1>1. ASSUME Ready, DrainInv, [Next]_vars
      PROVE  \A c \in Callers : run[c].pc # "ask" /\ run'[c].pc = "ask" => quiet = 0
  <2> SUFFICES ASSUME NEW c \in Callers, run[c].pc # "ask", run'[c].pc = "ask"
               PROVE  quiet = 0
    OBVIOUS
  <2>1. Request(c)
    BY <1>1, AskSteps
  <2>2. run[c].pc = "pick" /\ Remaining(budget, 0) > 0
    BY <2>1 DEF Request, NeedsRequest
  <2>3. \A d \in Callers : run[d].pc \notin {"charge", "settle"}
    BY <1>1, <2>2, AloneInDrain DEF Ready, Draining
  <2>4. quiet \in Nat /\ (quiet > 0 => budget.paused >= quiet)
    BY <1>1, <2>3 DEF DrainInv, PauseStored, Ready, QueueTypes, TypeOK
  <2>5. budget.paused \in Int /\ ~(0 < budget.paused)
    BY <1>1, <2>2 DEF Remaining, Ready, QueueTypes, TypeOK, BudgetRecord
  <2> QED
    BY <2>4, <2>5
<1>2. Ready /\ DrainInv /\ [Next]_vars
        => [\A c \in Callers : run[c].pc # "ask" /\ run'[c].pc = "ask" => quiet = 0]_vars
  BY <1>1
<1> QED
  BY <1>2, ReadyHolds, DrainInvHolds, PTL DEF Spec, PauseKept

\* A game is fetched once (known_game_ids, rom_browser.py:749 and 821).
THEOREM GamesFetchedOnce == Spec => FetchedOnce
<1>1. ASSUME Ready, DrainInv, [Next]_vars
      PROVE  \A c \in Callers : run[c].pc = "ask" /\ run'[c].pc = "charge"
                                => Asked(c) \notin fetched
  <2> SUFFICES ASSUME NEW c \in Callers, run[c].pc = "ask", run'[c].pc = "charge"
               PROVE  Asked(c) \notin fetched
    OBVIOUS
  <2>1. AnswerCached(c)
    BY <1>1, AskSteps
  <2>2. Asked(c) \notin run[c].known
    BY <2>1 DEF AnswerCached
  <2>3. fetched \subseteq run[c].known
    BY <1>1 DEF DrainInv, AnswersTrue, KnowsFetched, Draining
  <2> QED
    BY <2>2, <2>3
<1>2. Ready /\ DrainInv /\ [Next]_vars
        => [\A c \in Callers : run[c].pc = "ask" /\ run'[c].pc = "charge"
                               => Asked(c) \notin fetched]_vars
  BY <1>1
<1> QED
  BY <1>2, ReadyHolds, DrainInvHolds, PTL DEF Spec, FetchedOnce

\* Every variable stays in its type; no row reaches MaxAttempts.
THEOREM QueueTyped == Spec => []TypeOK
<1>1. QueueTypes => TypeOK
  BY DEF QueueTypes
<1> QED
  BY <1>1, QueueTypesHold, PTL

-----------------------------------------------------------------------------
(* Nothing is forgotten. *)

\* A ROM that was answered stays answered.
LEMMA AnsweredStays ==
    ASSUME Stays, NEW k \in Roms, Answered(k)
    PROVE  Answered(k)'
BY DEF Stays, Answered, Settled, Missed

\* A step takes a key from the queue with an answer, or says what became of its ROM.
Accounted ==
    \A k \in Roms : /\ fate'[k] = "queued" => fate[k] = "queued" \/ k \in Keys(queue)'
                    /\ k \in Keys(queue) => \/ k \in Keys(queue)'
                                            \/ Answered(k) \/ fate'[k] # "queued"

\* A step that leaves queue and fates alone is accounted for.
LEMMA SameAccounted ==
    ASSUME UNCHANGED <<queue, fate>>
    PROVE  Accounted
BY DEF Accounted, Keys

\* Every step accounts for the rows it takes from the queue.
LEMMA StepAccounted ==
    ASSUME Ready, DrainInv, [Next]_vars
    PROVE  Accounted
<1>0. /\ queue \in Seq(Rows)
      /\ fate \in [Roms -> {"none", "queued", "dropped", "cancelled", "refused"}]
      /\ \A ks : Keys(Without(queue, ks)) = Keys(queue) \ ks
      /\ Keys(queue)' = Keys(queue')
  <2>1. Keys(queue)' = Keys(queue')
    BY DEF Keys
  <2> QED
    BY <2>1, WithoutFacts DEF Ready, QueueTypes, TypeOK, Rows
<1>1. ASSUME NEW c \in Callers, Fills(c)
      PROVE  Accounted
  <2>1. CASE EnqueueWrite(c)
    <3> DEFINE k == run[c].rom
               row == [key |-> k, attempts |-> 0]
    <3>1. k \in Roms
      BY <2>1 DEF EnqueueWrite, Ready, QueueTypes, RomTaken, RomOK, AtRom
    <3>2. row \in Rows /\ row.key = k
      BY <3>1, QueueAssumption DEF Rows
    <3>3. queue' = Put(queue, row) /\ fate' = [fate EXCEPT ![k] = "queued"]
      BY <2>1 DEF EnqueueWrite
    <3> HIDE DEF row
    <3>4. Keys(queue)' = Keys(queue) \cup {k}
      <4>1. Keys(Put(queue, row)) = Keys(queue) \cup {k}
        BY <1>0, <3>2, PutFacts
      <4> QED
        BY <1>0, <3>3, <4>1
    <3> QED
      BY <1>0, <3>1, <3>3, <3>4 DEF Accounted
  <2>2. CASE ~EnqueueWrite(c)
    BY <1>1, <2>2, SameAccounted DEF Fills, BulkStart, ScanStart, Skip, EnqueueRead, FillEnd,
       AddStart, stored, history
  <2> QED
    BY <2>1, <2>2
<1>2. ASSUME NEW c \in Callers, Ends(c)
      PROVE  Accounted
  <2>1. CASE UNCHANGED <<queue, fate>>
    BY <2>1, SameAccounted
  <2>2. ASSUME NEW what \in {"cancelled", "refused"},
               queue' = Without(queue, run[c].mine),
               fate' = [k \in Roms |-> IF k \in run[c].mine THEN what ELSE fate[k]]
        PROVE  Accounted
    <3>1. Keys(queue)' = Keys(queue) \ run[c].mine
      BY <1>0, <2>2
    <3>2. \A k \in Roms : fate'[k] = IF k \in run[c].mine THEN what ELSE fate[k]
      BY <2>2
    <3> QED
      BY <2>2, <3>1, <3>2 DEF Accounted
  <2>3. \/ UNCHANGED <<queue, fate>>
        \/ \E what \in {"cancelled", "refused"} :
             /\ queue' = Without(queue, run[c].mine)
             /\ fate' = [k \in Roms |-> IF k \in run[c].mine THEN what ELSE fate[k]]
    BY <1>2 DEF Ends, StopWaiting, PaceGivenUp, Cancel, BulkReport, ScanReport, AddFinish,
       stored, history
  <2> QED
    BY <2>1, <2>2, <2>3
<1>3. ASSUME NEW c \in Callers, Stops(c)
      PROVE  Accounted
  <2>1. CASE SettleFailed(c)
    <3> DEFINE k == run[c].rom
               row == AfterFailedAttempt(c)
    <3>1. k \in Roms /\ run[c].attempts \in Nat
      <4>1. run[c] \in RunRecord
        BY DEF Ready, QueueTypes, TypeOK
      <4> QED
        BY <2>1, <4>1, RecordFields DEF SettleFailed, Ready, QueueTypes, RomTaken, RomOK, AtRom
    <3>2. CASE IsSpent(row)
      <4>1. queue' = Without(queue, {k}) /\ fate' = [fate EXCEPT ![k] = "dropped"]
        BY <2>1, <3>2 DEF SettleFailed
      <4>2. Keys(queue)' = Keys(queue) \ {k}
        BY <1>0, <4>1
      <4> QED
        BY <1>0, <3>1, <4>1, <4>2 DEF Accounted
    <3>3. CASE ~IsSpent(row)
      <4>1. queue' = Put(queue, row) /\ fate' = fate
        BY <2>1, <3>3 DEF SettleFailed
      <4>2. row \in Rows
        BY <3>1, <3>3, QueueAssumption DEF AfterFailedAttempt, IsSpent, Rows
      <4> HIDE DEF row
      <4>3. Keys(queue) \subseteq Keys(queue)'
        <5>1. Keys(queue) \subseteq Keys(Put(queue, row))
          BY <1>0, <4>2, PutFacts
        <5> QED
          BY <1>0, <4>1, <5>1
      <4> QED
        BY <4>1, <4>3 DEF Accounted
    <3> QED
      BY <3>2, <3>3
  <2>2. CASE ~SettleFailed(c)
    BY <1>3, <2>2, SameAccounted DEF Stops, DrainPaused, DrainLimited, DrainTimeLimit,
       NothingLeft, BudgetExhausted, PaceBegin, SettleLimited, SettleAuthRejected, stored, history
  <2> QED
    BY <2>1, <2>2
<1>4. ASSUME NEW c \in Callers, Proceeds(c)
      PROVE  Accounted
  <2>1. ASSUME NEW k, Answered(k), queue' = Without(queue, {k}), fate' = fate
        PROVE  Accounted
    <3>1. Keys(queue)' = Keys(queue) \ {k}
      BY <1>0, <2>1
    <3> QED
      BY <2>1, <3>1 DEF Accounted
  <2>2. CASE AnsweredLocally(c)
    <3> DEFINE k == NextRom(c)
    <3>1. NoMatch(k) \/ KnownTo(run[c].known, k)
      BY <2>2 DEF AnsweredLocally
    <3>2. run[c].known \subseteq Settled
      BY DEF DrainInv, AnswersTrue, Told
    <3>3. Answered(k)
      BY <3>1, <3>2 DEF NoMatch, KnownTo, Answered, Settled
    <3>4. queue' = Without(queue, {k}) /\ fate' = fate
      BY <2>2 DEF AnsweredLocally, history
    <3> QED
      BY <2>1, <3>3, <3>4
  <2>3. CASE SettleDone(c)
    <3>1. /\ run[c].pc = "settle" /\ run[c].outcome \in {"cached", "already", "nomatch"}
          /\ queue' = Without(queue, {run[c].rom}) /\ fate' = fate
      BY <2>3 DEF SettleDone, history
    <3>2. Answered(run[c].rom)
      BY <3>1 DEF DrainInv, AnswersTrue, Told, Answered, Settled, Missed, Asked
    <3> QED
      BY <2>1, <3>1, <3>2
  <2>4. CASE DrainGoOn(c) \/ Request(c) \/ ChargeGame(c)
    BY <2>4, SameAccounted DEF DrainGoOn, Request, ChargeGame, stored, history
  <2> QED
    BY <1>4, <2>2, <2>3, <2>4 DEF Proceeds
<1>5. CASE \/ \E c \in Callers : Locks(c) \/ Answers(c)
           \/ \E procs \in Processes : Dies(procs)
           \/ Tick \/ Others
  <2>1. CASE \E c \in Callers : Locks(c)
    BY <2>1, SameAccounted DEF Locks, TakeLock, PaceEnd, WorkerStart, BeginDrain, stored, history
  <2>2. CASE \E c \in Callers : Answers(c)
    BY <2>2, SameAccounted DEF Answers, AnswerFailed, AnswerAuthRejected, AnswerNoMatch,
       AnswerKnown, AnswerCached, history
  <2>3. CASE \E procs \in Processes : Dies(procs)
    BY <2>3, SameAccounted DEF Dies, stored
  <2>4. CASE Tick \/ Others
    BY <2>4, SameAccounted DEF Tick, Others, Abort, RemoveGame, Play, PlayEnds, ServiceLimited,
       MissExpires, vars, stored, history
  <2> QED
    BY <1>5, <2>1, <2>2, <2>3, <2>4
<1> QED
  BY <1>1, <1>2, <1>3, <1>4, <1>5, StepKinds

\* A ROM leaves the queue only with an answer, after its last attempt, or because the run that
\* queued it took it back ("The queue is kept across restarts",
\* docs/linux-support/caching-games.md:26).
THEOREM RomsRemembered == Spec => []NoRomForgotten
<1>1. Init => NoRomForgotten
  BY DEF Init, NoRomForgotten
<1>2. ASSUME Ready, Ready', DrainInv, [Next]_vars, NoRomForgotten
      PROVE  NoRomForgotten'
  <2>1. Stays /\ Accounted
    BY <1>2, DrainInvStep, StepAccounted
  <2>2. ASSUME NEW k \in Roms, fate'[k] = "queued"
        PROVE  k \in Keys(queue)' \/ Answered(k)'
    <3>1. CASE Answered(k)
      BY <2>1, <3>1, AnsweredStays
    <3>2. CASE ~Answered(k)
      BY <1>2, <2>1, <2>2, <3>2 DEF Accounted, NoRomForgotten
    <3> QED
      BY <3>1, <3>2
  <2> QED
    BY <2>2 DEF NoRomForgotten
<1>3. Ready /\ Ready' /\ DrainInv /\ [Next]_vars /\ NoRomForgotten => NoRomForgotten'
  BY <1>2
<1>4. Spec => [][Next]_vars
  BY PTL DEF Spec
<1> QED
  BY <1>1, <1>3, ReadyHolds, DrainInvHolds, PTL DEF Spec
=============================================================================
