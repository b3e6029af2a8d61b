------------------------ MODULE PendingAwardsProofs ------------------------
(* Theorems about PendingAwards, for every set of submissions, every clock  *)
(* and every choice of the other constants.                                 *)
EXTENDS AwardService, TLAPS

-----------------------------------------------------------------------------
(* The inductive invariant.                                                 *)

\* Only the loops of the flush have rows left to handle, and only one that has sent
\* an award has an answer to record.
IdlePhase ==
    /\ phase \in {"idle", "refresh", "check", "purge"} => todo = {}
    /\ phase # "record" => sent = "none"

\* A row with a final status earned it.  This holds of the copies as well: what
\* made it true of the row they were read from stays true.
Earned(row, accepted, deleted, withdrawn) ==
    /\ row.status = "flushed" => row.sub \in accepted
    /\ row.status = "deleted" => IdOf[row.sub] \in deleted
    /\ row.status = "stale" => IdOf[row.sub] \in withdrawn

HonestTable(t) ==
    \A k \in Present(t) :
        IdOf[t[k].sub] = k /\ Earned(t[k], server, removed, staled)

HonestMenu == menu # NoRow => Earned(menu, server, removed, staled)

\* An award is about to be recorded as flushed only if it was accepted.
HonestAnswer ==
    sent = "success" =>
        \A k \in todo : IsFirst(snapshot, todo, k) => snapshot[k].sub \in server

HonestUnlocks == unlocks \subseteq UnlocksOnServer

AwardsInv ==
    /\ TypeOK /\ IdlePhase
    /\ HonestTable(table) /\ HonestTable(snapshot)
    /\ HonestMenu /\ HonestAnswer /\ HonestUnlocks
    /\ NoAwardLost

-----------------------------------------------------------------------------
(* Types.                                                                   *)

\* Writing a row touches that row only, and keeps all of it but the id.
LEMMA WriteFacts ==
    ASSUME table \in Tables, lastId \in Nat, NEW row \in Row, Write(row)
    PROVE  /\ IdOf[row.sub] \in Ids
           /\ table' \in Tables /\ lastId' \in Nat
           /\ \E n \in Nat : table'[IdOf[row.sub]] = [row EXCEPT !.id = n]
           /\ \A j \in Ids \ {IdOf[row.sub]} : table'[j] = table[j]
<1> DEFINE k == IdOf[row.sub]
           n == IF table[k] = NoRow THEN lastId + 1 ELSE table[k].id
<1>1. k \in Ids
  BY AwardsAssumption DEF Row
<1>2. n \in Nat
  BY <1>1, SentinelAssumption DEF Tables, Row
<1>3. [row EXCEPT !.id = n] \in Row
  BY <1>2 DEF Row
<1>4. table' = [table EXCEPT ![k] = [row EXCEPT !.id = n]]
  BY DEF Write, Upsert
<1>5. table' \in Tables
  BY <1>1, <1>3, <1>4 DEF Tables
<1>6. lastId' \in Nat
  BY DEF Write
<1>7. table'[k] = [row EXCEPT !.id = n] /\ \A j \in Ids \ {k} : table'[j] = table[j]
  BY <1>1, <1>4 DEF Tables
<1> QED
  BY <1>1, <1>2, <1>5, <1>6, <1>7

\* What is present is a row.
LEMMA PresentRow ==
    ASSUME NEW t \in Tables, NEW k \in Present(t)
    PROVE  k \in Ids /\ t[k] \in Row
BY DEF Present, Tables

\* A new status leaves a row a row, of the same achievement.
LEMMA StatusRow ==
    ASSUME NEW row \in Row, NEW s \in Statuses
    PROVE  /\ [row EXCEPT !.status = s] \in Row
           /\ [row EXCEPT !.status = s].sub = row.sub
           /\ [row EXCEPT !.status = s].status = s
BY DEF Row

\* A tail hash is the hash of a row, or the start of the chain.
LEMMA TailHashType ==
    ASSUME NEW t \in Tables, NEW S \in SUBSET Present(t)
    PROVE  TailHash(t, S) \in Hashes \cup {Genesis}
<1>1. CASE \E k \in S : IsLast(t, S, k)
  <2> DEFINE k == CHOOSE k \in S : IsLast(t, S, k)
  <2>1. k \in S
    BY <1>1
  <2>2. t[k] \in Row
    BY <2>1, PresentRow
  <2>3. PayloadHash(t[k]) \in Hashes
    BY <2>2 DEF PayloadHash, Hashes, Row
  <2> QED
    BY <1>1, <2>3 DEF TailHash
<1>2. CASE ~\E k \in S : IsLast(t, S, k)
  BY <1>2 DEF TailHash
<1> QED
  BY <1>1, <1>2

\* repair_pending_chain changes prevHash and nothing else.
LEMMA RepairedType ==
    ASSUME NEW t \in Tables
    PROVE  /\ Repaired(t) \in Tables
           /\ Present(Repaired(t)) = Present(t)
           /\ \A k \in Present(t) : /\ Repaired(t)[k].sub = t[k].sub
                                     /\ Repaired(t)[k].queuedAt = t[k].queuedAt
                                     /\ Repaired(t)[k].status = t[k].status
                                     /\ Repaired(t)[k].id = t[k].id
                                     /\ Repaired(t)[k].intact = t[k].intact
<1>1. ASSUME NEW k \in Present(t)
      PROVE  /\ Repaired(t)[k] = [t[k] EXCEPT !.prevHash = ChainedTo(t, k)]
             /\ Repaired(t)[k] \in Row
  <2>1. ChainedTo(t, k) \in Hashes \cup {Genesis}
    BY TailHashType DEF ChainedTo
  <2>2. k \in Ids /\ t[k] \in Row /\ t[k] # NoRow
    BY PresentRow DEF Present
  <2>3. Repaired(t)[k] = [t[k] EXCEPT !.prevHash = ChainedTo(t, k)]
    BY <2>2 DEF Repaired
  <2> QED
    BY <2>1, <2>2, <2>3 DEF Row
<1>2. ASSUME NEW k \in Ids \ Present(t)
      PROVE  Repaired(t)[k] = NoRow
  BY <1>2 DEF Repaired, Present
<1>3. Repaired(t) \in Tables
  <2>1. Repaired(t) = [k \in Ids |-> Repaired(t)[k]]
    BY DEF Repaired
  <2> QED
    BY <1>1, <1>2, <2>1 DEF Tables
<1>4. Present(Repaired(t)) = Present(t)
  BY <1>1, <1>2, SentinelAssumption DEF Present
<1>5. \A k \in Present(t) : t[k] \in Row
  BY PresentRow
<1> QED
  BY <1>1, <1>3, <1>4, <1>5 DEF Row

-----------------------------------------------------------------------------
(* Types are preserved.                                                     *)

Typed == TypeOK /\ IdlePhase

\* The state the service starts in is typed.
LEMMA InitTyped == Init => Typed
<1> SUFFICES ASSUME Init PROVE Typed
  OBVIOUS
<1>1. Present(EmptyTable) = {} /\ EmptyTable \in Tables
  BY DEF Present, EmptyTable, Tables
<1>2. ASSUME NEW s \in Legacy, NEW at \in Times
      PROVE  Inherited(s, at) \in Tables
  <2>1. IdOf[s] \in Ids /\ s \in Submissions
    BY AwardsAssumption
  <2>2. [NewRow(s, at, Genesis) EXCEPT !.id = 1] \in Row
    BY <2>1 DEF NewRow, Row, Statuses
  <2> QED
    BY <1>1, <2>1, <2>2 DEF Inherited, Tables
<1>3. table \in Tables /\ lastId \in Nat
  BY <1>1, <1>2 DEF Init
<1>4. TypeOK
  BY <1>1, <1>3 DEF Init, TypeOK, Phases
<1>5. IdlePhase
  BY DEF Init, IdlePhase
<1> QED
  BY <1>4, <1>5 DEF Typed

\* Handler threads write rows they made themselves.
LEMMA HandlerTyped ==
    ASSUME Typed, Handler
    PROVE  Typed'
<1> USE DEF Typed
<1>1. ASSUME NEW s \in Submissions, RefuseHardcore(s) \/ Forward(s) \/ FallBackToQueue(s)
      PROVE  Typed'
  BY <1>1 DEF RefuseHardcore, Forward, FallBackToQueue, TypeOK, IdlePhase, flushVars, menuVars
<1>2. ASSUME NEW s \in Submissions, QueueKnown(s) \/ QueueNew(s)
      PROVE  Typed'
  BY <1>2 DEF QueueKnown, QueueNew, TypeOK, IdlePhase, flushVars, menuVars
<1>3. CASE QueueUnlocked \/ QueueNotUnlocked
  <2>1. filing \in [sub : Submissions, step : {"unlocks", "latest", "write"},
                    prevHash : Hashes \cup {Genesis}]
    BY <1>3 DEF QueueUnlocked, QueueNotUnlocked, At, TypeOK
  <2> QED
    BY <1>3, <2>1 DEF QueueUnlocked, QueueNotUnlocked, TypeOK, IdlePhase, flushVars, menuVars
<1>4. CASE QueueReadLatest
  <2>1. filing \in [sub : Submissions, step : {"unlocks", "latest", "write"},
                    prevHash : Hashes \cup {Genesis}]
    BY <1>4 DEF QueueReadLatest, At, TypeOK
  <2>2. LatestHash(table) \in Hashes \cup {Genesis}
    BY TailHashType DEF LatestHash, TypeOK
  <2>3. [filing EXCEPT !.step = "write", !.prevHash = LatestHash(table)]
           \in [sub : Submissions, step : {"unlocks", "latest", "write"},
                prevHash : Hashes \cup {Genesis}]
    BY <2>1, <2>2
  <2> QED
    BY <1>4, <2>3 DEF QueueReadLatest, TypeOK, IdlePhase, flushVars, menuVars
<1>5. CASE QueueWrite
  <2>1. filing.sub \in Submissions /\ filing.prevHash \in Hashes \cup {Genesis}
    BY <1>5 DEF QueueWrite, At, TypeOK
  <2>2. PICK at \in Times : Write(NewRow(filing.sub, at, filing.prevHash))
    BY <1>5 DEF QueueWrite
  <2>3. NewRow(filing.sub, at, filing.prevHash) \in Row
    BY <2>1 DEF NewRow, Row, Statuses
  <2>4. table' \in Tables /\ lastId' \in Nat
    BY <2>2, <2>3, WriteFacts DEF TypeOK
  <2> QED
    BY <1>5, <2>1, <2>4 DEF QueueWrite, TypeOK, IdlePhase, flushVars, menuVars
<1>6. CASE RefreshUnlocks
  <2>1. UnlocksOnServer \subseteq Ids
    BY AwardsAssumption DEF UnlocksOnServer, TypeOK
  <2> QED
    BY <1>6, <2>1 DEF RefreshUnlocks, TypeOK, IdlePhase, queueVars, flushVars, menuVars
<1> QED
  BY <1>1, <1>2, <1>3, <1>4, <1>5, <1>6 DEF Handler

\* Ending a flush leaves no trace of it.
LEMMA EndFlushTyped ==
    ASSUME EndFlush
    PROVE  /\ phase' \in Phases /\ snapshot' \in Tables
           /\ phase' = "idle" /\ sent' = "none" /\ todo' = {}
           /\ todo' \subseteq Present(snapshot)' /\ judged' \subseteq Retired
           /\ sent' \in {"none", "success", "error"}
BY DEF EndFlush, Phases, EmptyTable, Tables, Present

\* The three loops of the flush write a row of the snapshot, perhaps with a new
\* status, and go on to the next.
LEMMA WrittenBack ==
    ASSUME Typed, NEW k \in todo, NEW s \in Statuses,
           Write(snapshot[k]) \/ Write([snapshot[k] EXCEPT !.status = s])
    PROVE  table' \in Tables /\ lastId' \in Nat
<1>1. snapshot[k] \in Row
  BY PresentRow DEF Typed, TypeOK
<1>2. [snapshot[k] EXCEPT !.status = s] \in Row
  BY <1>1, StatusRow
<1> QED
  BY <1>1, <1>2, WriteFacts DEF Typed, TypeOK

\* The flush writes rows of its snapshot, which is a table.
LEMMA FlushTyped ==
    ASSUME Typed, Flush
    PROVE  Typed'
<1> USE DEF Typed
<1>1. CASE FlushStart
  <2>1. /\ Present(table) \subseteq Present(Repaired(table))
        /\ Repaired(table) \in Tables
    BY RepairedType DEF TypeOK
  <2> QED
    BY <1>1, <2>1 DEF FlushStart, TypeOK, IdlePhase, Phases, queueVars, menuVars, Present
<1>2. CASE FlushRepairRow
  <2>1. PICK k \in todo : Write(snapshot[k]) /\ todo' = todo \ {k}
    BY <1>2 DEF FlushRepairRow
  <2>2. table' \in Tables /\ lastId' \in Nat
    BY <2>1, WrittenBack DEF Statuses
  <2> QED
    BY <1>2, <2>1, <2>2 DEF FlushRepairRow, TypeOK, IdlePhase, queueVars, menuVars, Present
<1>3. CASE FlushReread \/ FlushNothingPending
  BY <1>3 DEF FlushReread, FlushNothingPending, TypeOK, IdlePhase, Phases, queueVars,
     menuVars, EmptyTable, Tables, Present
<1>4. CASE FlushAbandon
  BY <1>4, EndFlushTyped DEF FlushAbandon, TypeOK, IdlePhase, queueVars, menuVars
<1>5. CASE FlushRefresh
  BY <1>5 DEF FlushRefresh, TypeOK, IdlePhase, Phases, queueVars, menuVars, ToSend, WithStatus, Present
<1>6. CASE FlushMarkStale
  <2>1. PICK k \in todo : /\ Write([snapshot[k] EXCEPT !.status = "stale"])
                          /\ todo' = todo \ {k} /\ staled' = staled \cup {k}
    BY <1>6 DEF FlushMarkStale
  <2>2. table' \in Tables /\ lastId' \in Nat
    BY <2>1, WrittenBack DEF Statuses
  <2>3. k \in Ids
    BY PresentRow DEF TypeOK
  <2> QED
    BY <1>6, <2>1, <2>2, <2>3 DEF FlushMarkStale, TypeOK, IdlePhase, queueVars, menuVars, Present
<1>7. CASE FlushSend
  <2>1. server' \subseteq Submissions
    <3>1. \A k \in todo : snapshot[k].sub \in Submissions
      BY PresentRow DEF TypeOK, Row
    <3> QED
      BY <1>7, <3>1 DEF FlushSend, TypeOK
  <2>2. sent' \in {"success", "error"}
    BY <1>7 DEF FlushSend
  <2> QED
    BY <1>7, <2>1, <2>2 DEF FlushSend, TypeOK, IdlePhase, Phases, queueVars, menuVars, Present
<1>8. CASE FlushSendRaises
  <2>1. server' \subseteq Submissions
    <3>1. \A k \in todo : snapshot[k].sub \in Submissions
      BY PresentRow DEF TypeOK, Row
    <3> QED
      BY <1>8, <3>1 DEF FlushSendRaises, TypeOK
  <2> QED
    BY <1>8, <2>1, EndFlushTyped DEF FlushSendRaises, TypeOK, IdlePhase, queueVars, menuVars
<1>9. CASE FlushRecord
  <2>1. PICK k \in todo : /\ Write([snapshot[k] EXCEPT !.status = Outcome(sent)])
                          /\ todo' = todo \ {k}
    BY <1>9 DEF FlushRecord
  <2>2. table' \in Tables /\ lastId' \in Nat
    BY <2>1, WrittenBack DEF Outcome, Statuses
  <2> QED
    BY <1>9, <2>1, <2>2 DEF FlushRecord, TypeOK, IdlePhase, Phases, queueVars, menuVars, Present
<1>10. CASE FlushSync
  <2>1. UnlocksOnServer \subseteq Ids
    BY AwardsAssumption DEF UnlocksOnServer, TypeOK
  <2> QED
    BY <1>10, <2>1 DEF FlushSync, TypeOK, IdlePhase, Phases, queueVars, menuVars,
       EmptyTable, Tables, Present
<1>11. CASE FlushCheckPending
  BY <1>11, EndFlushTyped
  DEF FlushCheckPending, TypeOK, IdlePhase, Phases, queueVars, menuVars, Present
<1>12. CASE FlushPurge
  <2>1. Purged(table) \in Tables
    BY DEF Purged, WithStatus, Present, Tables, TypeOK
  <2> QED
    BY <1>12, <2>1, EndFlushTyped DEF FlushPurge, TypeOK, IdlePhase, queueVars, menuVars
<1> QED
  BY <1>1, <1>2, <1>3, <1>4, <1>5, <1>6, <1>7, <1>8, <1>9, <1>10, <1>11, <1>12 DEF Flush

\* The menu writes back the row it read; the disk and a restart make no new rows.
LEMMA OthersTyped ==
    ASSUME Typed, User \/ (\E k \in Ids : Corrupt(k)) \/ Restart
    PROVE  Typed'
<1> USE DEF Typed
<1>1. ASSUME NEW k \in Ids, MenuRead(k)
      PROVE  Typed'
  BY <1>1 DEF MenuRead, TypeOK, IdlePhase, Tables, queueVars, flushVars, Present
<1>2. CASE MenuDelete
  <2>1. [menu EXCEPT !.status = "deleted"] \in Row /\ IdOf[menu.sub] \in Ids
    BY <1>2, StatusRow, AwardsAssumption DEF MenuDelete, TypeOK, Statuses, Row
  <2>2. table' \in Tables /\ lastId' \in Nat
    BY <1>2, <2>1, WriteFacts DEF MenuDelete, TypeOK
  <2> QED
    BY <1>2, <2>1, <2>2 DEF MenuDelete, TypeOK, IdlePhase, queueVars, flushVars, Present
<1>3. CASE ClearDatabase
  BY <1>3 DEF ClearDatabase, TypeOK, IdlePhase, queueVars, flushVars, EmptyTable, Tables, Present
<1>4. ASSUME NEW k \in Ids, Corrupt(k)
      PROVE  Typed'
  <2>1. table[k] \in Row
    BY <1>4 DEF Corrupt, TypeOK, Tables
  <2>2. [table[k] EXCEPT !.intact = FALSE] \in Row
    BY <2>1 DEF Row
  <2>3. table' \in Tables
    BY <1>4, <2>2 DEF Corrupt, TypeOK, Tables
  <2> QED
    BY <1>4, <2>3 DEF Corrupt, TypeOK, IdlePhase, queueVars, flushVars, menuVars, Present
<1>5. CASE Restart
  BY <1>5, EndFlushTyped DEF Restart, TypeOK, IdlePhase, menuVars
<1> QED
  BY <1>1, <1>2, <1>3, <1>4, <1>5 DEF User

\* No step breaks the types.
LEMMA StepTyped ==
    ASSUME Typed, [Next]_vars
    PROVE  Typed'
<1>1. CASE UNCHANGED vars
  BY <1>1 DEF vars, queueVars, flushVars, menuVars, Typed, TypeOK, IdlePhase, Present
<1> QED
  BY <1>1, HandlerTyped, FlushTyped, OthersTyped DEF Next

\* The state of the queue, of its flush and of the menu keeps its types, for any
\* number of achievements, submissions and readings of the clock.
THEOREM TypesHold == Spec => []TypeOK
<1>1. Init => Typed
  BY InitTyped
<1>2. Typed /\ [Next]_vars => Typed'
  BY StepTyped
<1>3. Typed => TypeOK
  BY DEF Typed
<1> QED
  BY <1>1, <1>2, <1>3, PTL DEF Spec

-----------------------------------------------------------------------------
(* What was made true of a row stays true.                                  *)

Grown == server \subseteq server' /\ removed \subseteq removed' /\ staled \subseteq staled'

\* Nothing is taken back: not what was accepted, given up or found withdrawn.
LEMMA StepGrows ==
    ASSUME [Next]_vars
    PROVE  Grown
<1>1. CASE Handler
  BY <1>1 DEF Grown, Handler, RefuseHardcore, Forward, FallBackToQueue, QueueKnown, QueueNew,
     QueueUnlocked, QueueNotUnlocked, QueueReadLatest, QueueWrite, RefreshUnlocks, menuVars
<1>2. CASE Flush
  BY <1>2 DEF Grown, Flush, FlushStart, FlushRepairRow, FlushReread, FlushNothingPending,
     FlushAbandon, FlushRefresh, FlushMarkStale, FlushSend, FlushSendRaises, FlushRecord,
     FlushSync, FlushCheckPending, FlushPurge, menuVars
<1>3. CASE User \/ (\E k \in Ids : Corrupt(k)) \/ Restart
  BY <1>3 DEF Grown, User, MenuRead, MenuDelete, ClearDatabase, Corrupt, Restart, menuVars
<1>4. CASE UNCHANGED vars
  BY <1>4 DEF Grown, vars, menuVars
<1> QED
  BY <1>1, <1>2, <1>3, <1>4 DEF Next

\* So a row that earned its status has earned it for good, and so have its copies.
LEMMA EarnedStays ==
    ASSUME NEW row, Grown, Earned(row, server, removed, staled)
    PROVE  Earned(row, server', removed', staled')
BY DEF Earned, Grown

\* What happened to a row is seen in its status, so an achievement with a row is
\* accounted for.
LEMMA RowAccounted ==
    ASSUME TypeOK, HonestTable(table), NEW k \in Present(table), k # Board
    PROVE  k \in Settled \/ Pending(table, k)
<1>1. table[k] \in Row
  BY PresentRow DEF TypeOK
<1>2. table[k].status \in Statuses /\ IdOf[table[k].sub] = k
  BY <1>1 DEF HonestTable, Row
<1>3. Earned(table[k], server, removed, staled)
  BY DEF HonestTable
<1>4. CASE table[k].status = "flushed"
  BY <1>2, <1>3, <1>4 DEF Earned, Settled, UnlocksOnServer
<1>5. CASE table[k].status \in {"deleted", "stale"}
  BY <1>2, <1>3, <1>5 DEF Earned, Settled
<1>6. CASE table[k].status = "pending"
  BY <1>6 DEF Pending, WithStatus
<1> QED
  BY <1>2, <1>4, <1>5, <1>6 DEF Statuses

\* So a settled achievement stays settled.
LEMMA SettledStays ==
    ASSUME Grown
    PROVE  UnlocksOnServer \subseteq UnlocksOnServer' /\ Settled \subseteq Settled'
BY DEF Grown, Settled, UnlocksOnServer

\* Rows vanish when they are settled, and only what has a row or is settled is
\* acknowledged: then no acknowledged award is lost.
LEMMA NoneLost ==
    ASSUME NoAwardLost, Grown, TypeOK', HonestTable(table)',
           Present(table) \subseteq {Board} \cup Present(table') \cup Settled',
           \A s \in acked' \ acked : IdOf[s] \in {Board} \cup Present(table') \cup Settled'
    PROVE  NoAwardLost'
<1> SUFFICES ASSUME NEW s \in acked', IdOf[s] # Board
             PROVE  IdOf[s] \in Settled' \/ Pending(table', IdOf[s])
  BY DEF NoAwardLost, Pending, WithStatus, Present
<1>1. IdOf[s] \in Present(table') \cup Settled'
  BY SettledStays DEF NoAwardLost, Pending, WithStatus
<1>2. ASSUME TypeOK', HonestTable(table)', IdOf[s] \in Present(table')
      PROVE  IdOf[s] \in Settled' \/ Pending(table', IdOf[s])
  <2>1. table'[IdOf[s]] \in Row
    BY <1>2, PresentRow DEF TypeOK
  <2>2. /\ table'[IdOf[s]].status \in Statuses
        /\ IdOf[table'[IdOf[s]].sub] = IdOf[s]
        /\ Earned(table'[IdOf[s]], server', removed', staled')
    BY <1>2, <2>1 DEF HonestTable, Row, Present
  <2> QED
    BY <1>2, <2>2 DEF Statuses, Earned, Settled, UnlocksOnServer, Pending, WithStatus
<1> QED
  BY <1>1, <1>2

\* Writing a row that has earned its status leaves an honest table, and every row
\* that was there.
LEMMA HonestWrite ==
    ASSUME table \in Tables, lastId \in Nat, NEW row \in Row, Write(row),
           HonestTable(table), Grown, Earned(row, server', removed', staled')
    PROVE  /\ HonestTable(table)'
           /\ Present(table) \cup {IdOf[row.sub]} = Present(table')
<1> DEFINE k == IdOf[row.sub]
<1>1. PICK n \in Nat : table'[k] = [row EXCEPT !.id = n]
  BY WriteFacts
<1>2. k \in Ids /\ \A j \in Ids \ {k} : table'[j] = table[j]
  BY WriteFacts
<1>3. /\ table'[k] \in Row /\ table'[k].sub = row.sub
      /\ table'[k].status = row.status
  BY <1>1 DEF Row
<1>4. IdOf[table'[k].sub] = k /\ Earned(table'[k], server', removed', staled')
  BY <1>3 DEF Earned
<1>5. Present(table') = Present(table) \cup {k}
  BY <1>2, <1>3, SentinelAssumption DEF Present
<1>6. ASSUME NEW j \in Present(table'), j # k
      PROVE  IdOf[table'[j].sub] = j /\ Earned(table'[j], server', removed', staled')
  <2>1. j \in Present(table) /\ table'[j] = table[j]
    BY <1>2, <1>5, <1>6 DEF Present
  <2> QED
    BY <2>1, EarnedStays DEF HonestTable
<1> QED
  BY <1>4, <1>5, <1>6 DEF HonestTable, Present

\* What a step leaves alone, clears or copies from the table stays honest.
LEMMA HonestSame ==
    ASSUME Grown, HonestTable(table), HonestTable(snapshot), HonestMenu, HonestUnlocks
    PROVE  /\ table' = table => HonestTable(table)'
           /\ snapshot' = snapshot => HonestTable(snapshot)'
           /\ snapshot' = EmptyTable => HonestTable(snapshot)'
           /\ snapshot' = table => HonestTable(snapshot)'
           /\ menu' = menu => HonestMenu'
           /\ unlocks' = unlocks => HonestUnlocks'
<1>1. table' = table => HonestTable(table)'
  BY EarnedStays DEF HonestTable, Present
<1>2. snapshot' = snapshot => HonestTable(snapshot)'
  BY EarnedStays DEF HonestTable, Present
<1>3. snapshot' = EmptyTable => HonestTable(snapshot)'
  BY DEF HonestTable, Present, EmptyTable
<1>4. snapshot' = table => HonestTable(snapshot)'
  BY EarnedStays DEF HonestTable, Present
<1>5. menu' = menu => HonestMenu'
  BY EarnedStays DEF HonestMenu
<1>6. unlocks' = unlocks => HonestUnlocks'
  BY SettledStays DEF HonestUnlocks
<1> QED
  BY <1>1, <1>2, <1>3, <1>4, <1>5, <1>6

\* The invariant of a step, from its parts.
LEMMA InvFromParts ==
    ASSUME AwardsInv, Grown, Typed',
           HonestTable(table)', HonestTable(snapshot)', HonestMenu', HonestAnswer',
           HonestUnlocks',
           Present(table) \subseteq {Board} \cup Present(table') \cup Settled',
           \A s \in acked' \ acked : IdOf[s] \in {Board} \cup Present(table') \cup Settled'
    PROVE  AwardsInv'
<1>1. NoAwardLost'
  BY NoneLost DEF AwardsInv, Typed
<1> QED
  BY <1>1 DEF AwardsInv, Typed

-----------------------------------------------------------------------------
(* The invariant is preserved.                                              *)

\* Handler threads only queue pending rows, and acknowledge what has a row or is settled.
LEMMA HandlerInv ==
    ASSUME AwardsInv, Handler
    PROVE  AwardsInv'
<1>1. Typed /\ Typed' /\ Grown
  BY HandlerTyped, StepGrows DEF AwardsInv, Typed, Next
<1>2. flushVars' = flushVars /\ menu' = menu
  BY DEF Handler, RefuseHardcore, Forward, FallBackToQueue, QueueKnown, QueueNew,
     QueueUnlocked, QueueNotUnlocked, QueueReadLatest, QueueWrite, RefreshUnlocks,
     flushVars, menuVars
<1>3. HonestTable(snapshot)' /\ HonestMenu' /\ HonestAnswer'
  <2>1. HonestAnswer'
    BY <1>1, <1>2 DEF AwardsInv, HonestAnswer, flushVars, Grown, IsFirst, Before
  <2> QED
    BY <1>1, <1>2, <2>1, HonestSame DEF AwardsInv, flushVars
<1>4. HonestUnlocks'
  <2>1. CASE RefreshUnlocks
    BY <2>1, <1>1, SettledStays DEF RefreshUnlocks, HonestUnlocks
  <2>2. CASE ~RefreshUnlocks
    <3>1. unlocks' = unlocks
      BY <2>2 DEF Handler, RefuseHardcore, Forward, FallBackToQueue, QueueKnown, QueueNew,
         QueueUnlocked, QueueNotUnlocked, QueueReadLatest, QueueWrite
    <3> QED
      BY <3>1, <1>1, HonestSame DEF AwardsInv
  <2> QED
    BY <2>1, <2>2
<1>5. CASE QueueWrite
  <2>1. PICK at \in Times : Write(NewRow(filing.sub, at, filing.prevHash))
    BY <1>5 DEF QueueWrite
  <2> DEFINE row == NewRow(filing.sub, at, filing.prevHash)
  <2>2. row \in Row /\ row.sub = filing.sub
    BY <1>5, <1>1 DEF QueueWrite, At, Typed, TypeOK, NewRow, Row, Statuses
  <2>3. Earned(row, server', removed', staled')
    BY DEF NewRow, Earned
  <2>4. HonestTable(table)' /\ Present(table) \cup {IdOf[filing.sub]} = Present(table')
    BY <1>1, <2>1, <2>2, <2>3, HonestWrite DEF AwardsInv, TypeOK
  <2>5. acked' = acked \cup {filing.sub}
    BY <1>5 DEF QueueWrite
  <2> QED
    BY <1>1, <1>3, <1>4, <2>4, <2>5, InvFromParts
<1>6. CASE ~QueueWrite
  <2>1. table' = table
    BY <1>6 DEF Handler, RefuseHardcore, Forward, FallBackToQueue, QueueKnown, QueueNew,
       QueueUnlocked, QueueNotUnlocked, QueueReadLatest, RefreshUnlocks
  <2>2. HonestTable(table)'
    BY <1>1, <2>1, HonestSame DEF AwardsInv
  <2>3. \A s \in acked' \ acked : IdOf[s] \in Present(table') \cup Settled'
    <3>1. ASSUME NEW s \in Submissions, QueueKnown(s)
          PROVE  acked' = acked \cup {s} /\ IdOf[s] \in Present(table')
      BY <3>1, <2>1, AwardsAssumption DEF QueueKnown, Queued, Present
    <3>2. CASE QueueUnlocked
      <4>1. acked' = acked \cup {filing.sub} /\ IdOf[filing.sub] \in unlocks
        BY <3>2 DEF QueueUnlocked
      <4>2. IdOf[filing.sub] \in Settled'
        BY <4>1, <1>1, SettledStays DEF AwardsInv, HonestUnlocks, Settled
      <4> QED
        BY <4>1, <4>2
    <3>3. CASE ~QueueUnlocked /\ \A s \in Submissions : ~QueueKnown(s)
      BY <3>3, <1>6 DEF Handler, RefuseHardcore, Forward, FallBackToQueue, QueueNew,
         QueueNotUnlocked, QueueReadLatest, RefreshUnlocks, queueVars
    <3> QED
      BY <3>1, <3>2, <3>3
  <2> QED
    BY <1>1, <1>3, <1>4, <2>1, <2>2, <2>3, InvFromParts
<1> QED
  BY <1>5, <1>6

\* The order of the rows is strict, so a loop has one row to handle next.
LEMMA OneFirst ==
    ASSUME NEW t \in Tables, NEW S \in SUBSET Present(t), NEW j, NEW k,
           IsFirst(t, S, j), IsFirst(t, S, k)
    PROVE  j = k
<1>1. j \in S /\ k \in S
  BY DEF IsFirst
<1>2. /\ t[j].id \in Nat /\ t[j].queuedAt \in Nat
      /\ t[k].id \in Nat /\ t[k].queuedAt \in Nat
  BY <1>1, PresentRow, AwardsAssumption DEF Row
<1>3. CASE j # k
  BY <1>1, <1>2, <1>3 DEF IsFirst, Before
<1> QED
  BY <1>3

\* A loop of the flush writes back a row that has earned its status.
LEMMA WrittenBackInv ==
    ASSUME AwardsInv, Typed', Grown, NEW k \in todo, NEW s \in Statuses,
           \/ s = snapshot[k].status /\ Write(snapshot[k])
           \/ Write([snapshot[k] EXCEPT !.status = s]),
           Earned([snapshot[k] EXCEPT !.status = s], server', removed', staled'),
           snapshot' = snapshot, menu' = menu, unlocks' = unlocks, acked' = acked,
           sent' = "none"
    PROVE  AwardsInv'
<1> DEFINE row == [snapshot[k] EXCEPT !.status = s]
<1>1. snapshot[k] \in Row /\ k \in Present(snapshot)
  BY PresentRow DEF AwardsInv, TypeOK
<1>2. row \in Row /\ row.sub = snapshot[k].sub
  BY <1>1, StatusRow
<1>3. Write(row)
  <2>1. CASE s = snapshot[k].status /\ Write(snapshot[k])
    <3>1. row = snapshot[k]
      BY <1>1, <2>1 DEF Row
    <3> QED
      BY <2>1, <3>1
  <2> QED
    BY <2>1
<1>4. HonestTable(table)' /\ Present(table) \subseteq Present(table')
  BY <1>2, <1>3, HonestWrite DEF AwardsInv, TypeOK, Present
<1>5. HonestTable(snapshot)' /\ HonestMenu' /\ HonestUnlocks'
  BY HonestSame DEF AwardsInv
<1>6. HonestAnswer'
  BY DEF HonestAnswer
<1> QED
  BY <1>4, <1>5, <1>6, InvFromParts

\* The flush writes back what it read, with a status its own steps have justified.
LEMMA FlushInv ==
    ASSUME AwardsInv, Flush
    PROVE  AwardsInv'
<1>1. Typed /\ Typed' /\ Grown
  BY FlushTyped, StepGrows DEF AwardsInv, Typed, Next
<1>2. acked' = acked /\ menu' = menu
  BY DEF Flush, FlushStart, FlushRepairRow, FlushReread, FlushNothingPending,
     FlushAbandon, FlushRefresh, FlushMarkStale, FlushSend, FlushSendRaises, FlushRecord,
     FlushSync, FlushCheckPending, FlushPurge, queueVars, menuVars
<1>3. HonestMenu'
  BY <1>1, <1>2, HonestSame DEF AwardsInv
<1>4. ASSUME table' = table, HonestTable(snapshot)', HonestAnswer', HonestUnlocks'
      PROVE  AwardsInv'
  <2>1. HonestTable(table)'
    BY <1>1, <1>4, HonestSame DEF AwardsInv
  <2> QED
    BY <1>1, <1>2, <1>3, <1>4, <2>1, InvFromParts
<1>5. ASSUME EndFlush PROVE HonestTable(snapshot)' /\ HonestAnswer'
  BY <1>1, <1>5, HonestSame DEF AwardsInv, EndFlush, HonestAnswer
<1>6. ASSUME UNCHANGED <<snapshot, todo, sent>> PROVE HonestTable(snapshot)' /\ HonestAnswer'
  <2>1. HonestAnswer'
    BY <1>1, <1>6 DEF AwardsInv, HonestAnswer, Grown, IsFirst, Before
  <2> QED
    BY <1>1, <1>6, <2>1, HonestSame DEF AwardsInv
<1>7. ASSUME unlocks' = unlocks PROVE HonestUnlocks'
  BY <1>1, <1>7, HonestSame DEF AwardsInv
<1>8. ASSUME todo' = {} PROVE HonestAnswer'
  BY <1>8 DEF HonestAnswer
<1>9. CASE FlushStart
  <2>1. HonestTable(snapshot)'
    <3>1. CASE snapshot' = table
      BY <1>1, <3>1, HonestSame DEF AwardsInv
    <3>2. CASE snapshot' = Repaired(table)
      <4>1. ASSUME NEW k \in Present(Repaired(table))
            PROVE  /\ IdOf[Repaired(table)[k].sub] = k
                   /\ Earned(Repaired(table)[k], server', removed', staled')
        <5>1. k \in Present(table) /\ Repaired(table)[k].sub = table[k].sub
              /\ Repaired(table)[k].status = table[k].status
          BY <1>1, RepairedType DEF Typed, TypeOK
        <5> QED
          BY <1>1, <5>1, EarnedStays DEF AwardsInv, HonestTable, Earned
      <4> QED
        BY <3>2, <4>1 DEF HonestTable, Present
    <3> QED
      BY <1>9, <3>1, <3>2 DEF FlushStart
  <2>2. HonestAnswer'
    BY <1>1, <1>9 DEF FlushStart, HonestAnswer, Typed, IdlePhase
  <2> QED
    BY <1>4, <1>7, <1>9, <2>1, <2>2 DEF FlushStart
<1>10. CASE FlushRepairRow
  <2>1. PICK k \in todo : Write(snapshot[k])
    BY <1>10 DEF FlushRepairRow
  <2> DEFINE s == snapshot[k].status
  <2>2. snapshot[k] \in Row /\ k \in Present(snapshot)
    BY <1>1, PresentRow DEF Typed, TypeOK
  <2>3. s \in Statuses /\ [snapshot[k] EXCEPT !.status = s] = snapshot[k]
    BY <2>2 DEF Row
  <2>4. Earned([snapshot[k] EXCEPT !.status = s], server', removed', staled')
    BY <1>1, <2>2, <2>3, EarnedStays DEF AwardsInv, HonestTable
  <2>5. sent' = "none" /\ snapshot' = snapshot /\ unlocks' = unlocks
    BY <1>1, <1>10 DEF FlushRepairRow, Typed, IdlePhase
  <2> QED
    BY <1>1, <1>2, <2>1, <2>3, <2>4, <2>5, WrittenBackInv
<1>11. CASE FlushReread
  <2>1. HonestTable(snapshot)'
    BY <1>1, <1>11, HonestSame DEF AwardsInv, FlushReread
  <2> QED
    BY <1>4, <1>7, <1>8, <1>11, <2>1 DEF FlushReread
<1>12. CASE FlushNothingPending \/ FlushSync
  <2>1. HonestTable(snapshot)'
    BY <1>1, <1>12, HonestSame DEF AwardsInv, FlushNothingPending, FlushSync
  <2>2. todo' = {}
    BY <1>1, <1>12 DEF FlushNothingPending, FlushSync, Typed, IdlePhase
  <2>3. HonestUnlocks'
    BY <1>1, <1>7, <1>12, SettledStays DEF AwardsInv, FlushNothingPending, FlushSync, HonestUnlocks
  <2> QED
    BY <1>4, <1>8, <1>12, <2>1, <2>2, <2>3 DEF FlushNothingPending, FlushSync
<1>13. CASE FlushAbandon
  BY <1>4, <1>5, <1>7, <1>13 DEF FlushAbandon
<1>14. CASE FlushRefresh
  <2>1. HonestAnswer'
    BY <1>1, <1>14 DEF FlushRefresh, HonestAnswer, Typed, IdlePhase
  <2>2. HonestTable(snapshot)'
    BY <1>1, <1>14, HonestSame DEF AwardsInv, FlushRefresh
  <2> QED
    BY <1>4, <1>7, <1>14, <2>1, <2>2 DEF FlushRefresh
<1>15. CASE FlushMarkStale
  <2>1. PICK k \in todo : /\ Write([snapshot[k] EXCEPT !.status = "stale"])
                          /\ staled' = staled \cup {k}
    BY <1>15 DEF FlushMarkStale
  <2>2. /\ [snapshot[k] EXCEPT !.status = "stale"].sub = snapshot[k].sub
        /\ [snapshot[k] EXCEPT !.status = "stale"].status = "stale"
        /\ IdOf[snapshot[k].sub] = k
    BY <1>1, PresentRow, StatusRow DEF AwardsInv, HonestTable, Typed, TypeOK, Statuses
  <2>3. Earned([snapshot[k] EXCEPT !.status = "stale"], server', removed', staled')
    BY <2>1, <2>2 DEF Earned
  <2>4. sent' = "none" /\ snapshot' = snapshot /\ unlocks' = unlocks
    BY <1>1, <1>15 DEF FlushMarkStale, Typed, IdlePhase
  <2> QED
    BY <1>1, <1>2, <2>1, <2>3, <2>4, WrittenBackInv DEF Statuses
<1>16. CASE FlushSend
  <2>1. HonestAnswer'
    <3>1. PICK k \in todo :
             /\ IsFirst(snapshot, todo, k)
             /\ sent' = "success" => server' = server \cup {snapshot[k].sub}
      BY <1>16 DEF FlushSend
    <3>2. \A j \in todo : IsFirst(snapshot, todo, j) => j = k
      BY <1>1, <3>1, OneFirst DEF Typed, TypeOK
    <3> QED
      BY <1>16, <3>1, <3>2 DEF FlushSend, HonestAnswer, IsFirst, Before
  <2>2. HonestTable(snapshot)'
    BY <1>1, <1>16, HonestSame DEF AwardsInv, FlushSend
  <2> QED
    BY <1>4, <1>7, <1>16, <2>1, <2>2 DEF FlushSend
<1>17. CASE FlushSendRaises
  BY <1>4, <1>5, <1>7, <1>17 DEF FlushSendRaises
<1>18. CASE FlushRecord
  <2>1. PICK k \in todo : /\ IsFirst(snapshot, todo, k)
                          /\ Write([snapshot[k] EXCEPT !.status = Outcome(sent)])
    BY <1>18 DEF FlushRecord
  <2>2. Outcome(sent) \in Statuses
    BY DEF Outcome, Statuses
  <2>3. /\ [snapshot[k] EXCEPT !.status = Outcome(sent)].sub = snapshot[k].sub
        /\ [snapshot[k] EXCEPT !.status = Outcome(sent)].status = Outcome(sent)
    BY <1>1, <2>2, PresentRow, StatusRow DEF Typed, TypeOK
  <2>4. Outcome(sent) = "flushed" => snapshot[k].sub \in server'
    BY <1>1, <2>1 DEF AwardsInv, HonestAnswer, Outcome, Grown
  <2>5. Earned([snapshot[k] EXCEPT !.status = Outcome(sent)], server', removed', staled')
    BY <2>3, <2>4 DEF Earned, Outcome
  <2>6. sent' = "none" /\ snapshot' = snapshot /\ unlocks' = unlocks
    BY <1>18 DEF FlushRecord
  <2> QED
    BY <1>1, <1>2, <2>1, <2>2, <2>5, <2>6, WrittenBackInv
<1>19. CASE FlushCheckPending
  <2>1. HonestTable(snapshot)' /\ HonestAnswer'
    BY <1>5, <1>6, <1>19 DEF FlushCheckPending
  <2> QED
    BY <1>4, <1>7, <1>19, <2>1 DEF FlushCheckPending
<1>20. CASE FlushPurge
  <2>1. table' = Purged(table)
    BY <1>20 DEF FlushPurge
  <2>2. ASSUME NEW k \in Present(table')
        PROVE  k \in Present(table) /\ table'[k] = table[k]
    BY <2>1 DEF Purged, Present, WithStatus
  <2>3. HonestTable(table)'
    BY <1>1, <2>2, EarnedStays DEF AwardsInv, HonestTable, Present
  <2>4. Present(table) \subseteq {Board} \cup Present(table') \cup Settled'
    <3>1. ASSUME NEW k \in Present(table), ~Pending(table, k)
          PROVE  k \in Settled \cup {Board}
      BY <1>1, <3>1, RowAccounted DEF AwardsInv
    <3>2. ASSUME NEW k \in Present(table), Pending(table, k)
          PROVE  k \in Present(table')
      BY <2>1, <3>2 DEF Purged, Pending, WithStatus, Present
    <3> QED
      BY <1>1, <3>1, <3>2, SettledStays
  <2> QED
    BY <1>1, <1>2, <1>3, <1>5, <1>7, <1>20, <2>3, <2>4, InvFromParts DEF FlushPurge
<1> QED
  BY <1>9, <1>10, <1>11, <1>12, <1>13, <1>14, <1>15, <1>16, <1>17, <1>18, <1>19, <1>20 DEF Flush

\* The menu, Clear database, the disk and a restart break nothing either.
LEMMA OthersInv ==
    ASSUME AwardsInv, User \/ (\E k \in Ids : Corrupt(k)) \/ Restart
    PROVE  AwardsInv'
<1>1. Typed /\ Typed' /\ Grown
  BY OthersTyped, StepGrows DEF AwardsInv, Typed, Next
<1>2. acked' = acked
  BY DEF User, MenuRead, MenuDelete, ClearDatabase, Corrupt, Restart, queueVars
<1>3. HonestTable(snapshot)' /\ HonestAnswer'
  <2>1. CASE flushVars' = flushVars
    <3>1. HonestAnswer'
      BY <1>1, <2>1 DEF AwardsInv, HonestAnswer, flushVars, Grown, IsFirst, Before
    <3> QED
      BY <1>1, <2>1, <3>1, HonestSame DEF AwardsInv, flushVars
  <2>2. CASE EndFlush
    BY <1>1, <2>2, HonestSame DEF AwardsInv, EndFlush, HonestAnswer
  <2> QED
    BY <2>1, <2>2 DEF User, MenuRead, MenuDelete, ClearDatabase, Corrupt, Restart
<1>4. HonestUnlocks'
  <2>1. CASE unlocks' = unlocks
    BY <1>1, <2>1, HonestSame DEF AwardsInv
  <2>2. CASE unlocks' = {}
    BY <2>2 DEF HonestUnlocks
  <2> QED
    BY <2>1, <2>2 DEF User, MenuRead, MenuDelete, ClearDatabase, Corrupt, Restart
<1>5. CASE (\E k \in Ids : MenuRead(k)) \/ Restart
  <2>1. table' = table
    BY <1>5 DEF MenuRead, Restart
  <2>2. HonestMenu'
    <3>1. ASSUME NEW k \in Ids, MenuRead(k)
          PROVE  HonestMenu'
      BY <1>1, <3>1, EarnedStays DEF AwardsInv, HonestTable, MenuRead, HonestMenu, Present
    <3>2. CASE Restart
      BY <1>1, <3>2, HonestSame DEF AwardsInv, Restart, menuVars
    <3> QED
      BY <1>5, <3>1, <3>2
  <2>3. HonestTable(table)'
    BY <1>1, <2>1, HonestSame DEF AwardsInv
  <2> QED
    BY <1>1, <1>2, <1>3, <1>4, <2>1, <2>2, <2>3, InvFromParts
<1>6. CASE MenuDelete
  <2> DEFINE row == [menu EXCEPT !.status = "deleted"]
  <2>1. Write(row) /\ menu' = NoRow /\ removed' = removed \cup {IdOf[menu.sub]} /\ menu \in Row
    BY <1>1, <1>6 DEF MenuDelete, Typed, TypeOK
  <2>2. row \in Row /\ row.sub = menu.sub /\ row.status = "deleted"
    BY <2>1, StatusRow DEF Statuses
  <2>3. Earned(row, server', removed', staled')
    BY <2>1, <2>2 DEF Earned
  <2>4. HonestTable(table)' /\ Present(table) \subseteq Present(table')
    BY <1>1, <2>1, <2>2, <2>3, HonestWrite DEF AwardsInv, TypeOK
  <2>5. HonestMenu'
    BY <2>1 DEF HonestMenu
  <2> QED
    BY <1>1, <1>2, <1>3, <1>4, <2>4, <2>5, InvFromParts
<1>7. CASE ClearDatabase
  <2>1. /\ table' = EmptyTable /\ menu' = menu
        /\ removed' = removed \cup Present(table)
    BY <1>7 DEF ClearDatabase
  <2>2. HonestTable(table)'
    BY <2>1 DEF HonestTable, Present, EmptyTable
  <2>3. HonestMenu'
    BY <1>1, <2>1, HonestSame DEF AwardsInv
  <2>4. Present(table) \subseteq Settled'
    BY <2>1 DEF Settled
  <2> QED
    BY <1>1, <1>2, <1>3, <1>4, <2>2, <2>3, <2>4, InvFromParts
<1>8. ASSUME NEW k \in Ids, Corrupt(k)
      PROVE  AwardsInv'
  <2>1. table' = [table EXCEPT ![k].intact = FALSE] /\ table[k] \in Row /\ table \in Tables
    BY <1>1, <1>8 DEF Corrupt, Typed, TypeOK, Tables
  <2>2. /\ table'[k] \in Row /\ table'[k].sub = table[k].sub
        /\ table'[k].status = table[k].status
    BY <2>1 DEF Tables, Row
  <2>3. \A j \in Ids \ {k} : table'[j] = table[j]
    BY <2>1 DEF Tables
  <2>4. Present(table') = Present(table)
    BY <1>8, <2>2, <2>3, SentinelAssumption DEF Present, Corrupt
  <2>5. ASSUME NEW j \in Present(table')
        PROVE  IdOf[table'[j].sub] = j /\ Earned(table'[j], server', removed', staled')
    <3>1. j \in Present(table) /\ table'[j].sub = table[j].sub
          /\ table'[j].status = table[j].status
      BY <2>2, <2>3, <2>4, <2>5 DEF Present
    <3>2. IdOf[table[j].sub] = j /\ Earned(table[j], server', removed', staled')
      BY <1>1, <3>1, EarnedStays DEF AwardsInv, HonestTable
    <3> QED
      BY <3>1, <3>2 DEF Earned
  <2>6. HonestTable(table)'
    BY <2>5 DEF HonestTable, Present
  <2>7. HonestMenu'
    BY <1>1, <1>8, HonestSame DEF AwardsInv, Corrupt, menuVars
  <2> QED
    BY <1>1, <1>2, <1>3, <1>4, <2>4, <2>6, <2>7, InvFromParts
<1> QED
  BY <1>5, <1>6, <1>7, <1>8 DEF User

\* The invariant holds at first.
LEMMA InitInv == Init => AwardsInv
<1> SUFFICES ASSUME Init PROVE AwardsInv
  OBVIOUS
<1>1. Present(EmptyTable) = {}
  BY DEF Present, EmptyTable
<1>2. ASSUME NEW s \in Legacy, NEW at \in Times
      PROVE  HonestTable(Inherited(s, at))
  <2>1. IdOf[s] \in Ids /\ s \in Submissions
    BY AwardsAssumption
  <2>2. Inherited(s, at)[IdOf[s]].sub = s /\ Inherited(s, at)[IdOf[s]].status = "pending"
    BY <2>1 DEF Inherited, NewRow, EmptyTable
  <2>3. Present(Inherited(s, at)) \subseteq {IdOf[s]}
    BY <2>1 DEF Inherited, EmptyTable, Present
  <2> QED
    BY <2>2, <2>3 DEF HonestTable, Earned
<1>3. HonestTable(EmptyTable)
  BY <1>1 DEF HonestTable
<1>4. HonestTable(table) /\ HonestTable(snapshot)
  BY <1>2, <1>3 DEF Init
<1>5. HonestMenu /\ HonestAnswer /\ HonestUnlocks /\ NoAwardLost
  BY DEF Init, HonestMenu, HonestAnswer, HonestUnlocks, NoAwardLost
<1> QED
  BY <1>4, <1>5, InitTyped DEF AwardsInv, Typed

\* No step breaks the invariant.
LEMMA StepInv ==
    ASSUME AwardsInv, [Next]_vars
    PROVE  AwardsInv'
<1>1. CASE UNCHANGED vars
  <2>1. Typed' /\ Grown
    BY <1>1, StepTyped DEF AwardsInv, Typed, vars, queueVars, flushVars, menuVars, Grown
  <2>2. HonestAnswer'
    BY <1>1 DEF AwardsInv, HonestAnswer, IsFirst, Before, vars, flushVars
  <2>3. HonestTable(table)' /\ HonestTable(snapshot)' /\ HonestMenu' /\ HonestUnlocks'
    BY <1>1, <2>1, HonestSame DEF AwardsInv, vars, flushVars, menuVars
  <2> QED
    BY <1>1, <2>1, <2>2, <2>3, InvFromParts DEF vars, queueVars
<1> QED
  BY <1>1, HandlerInv, FlushInv, OthersInv DEF Next

\* The invariant holds throughout.
LEMMA AwardsInvHolds == Spec => []AwardsInv
<1> QED
  BY InitInv, StepInv, PTL DEF Spec

\* Whatever the threads, the menu, the disk and the restarts do, an achievement
\* answered "queued_offline" is on RetroAchievements, waits in the table, was given
\* up by its user or was found withdrawn.
THEOREM NoAwardIsLost == Spec => []NoAwardLost
<1>1. AwardsInv => NoAwardLost
  BY DEF AwardsInv
<1> QED
  BY <1>1, AwardsInvHolds, PTL

\* No stale copy and no lost answer makes the table call an award flushed that
\* RetroAchievements has not accepted.
THEOREM FlushedAreAccepted == Spec => []FlushedMeansAccepted
<1>1. AwardsInv => FlushedMeansAccepted
  BY DEF AwardsInv, HonestTable, Earned, FlushedMeansAccepted, WithStatus
<1> QED
  BY <1>1, AwardsInvHolds, PTL

-----------------------------------------------------------------------------
(* The chain.                                                               *)

\* What a row is chained to depends on what the rows before it say and on their
\* order, and a repair changes neither.
LEMMA RepairedChain ==
    ASSUME NEW t \in Tables, NEW k \in Present(t)
    PROVE  ChainedTo(Repaired(t), k) = ChainedTo(t, k)
<1> DEFINE r == Repaired(t)
           S == {j \in Present(t) : Before(t, j, k)}
<1>1. \A i, j \in Present(t) : Before(r, i, j) = Before(t, i, j)
  BY RepairedType DEF Before
<1>2. {j \in Present(r) : Before(r, j, k)} = S
  BY <1>1, RepairedType
<1>3. \A j \in Ids : IsLast(r, S, j) <=> IsLast(t, S, j)
  BY <1>1 DEF IsLast
<1>4. S \subseteq Ids
  BY DEF Present
<1>5. (CHOOSE j \in S : IsLast(r, S, j)) = (CHOOSE j \in S : IsLast(t, S, j))
  BY <1>3, <1>4
<1>6. \A j \in S : PayloadHash(r[j]) = PayloadHash(t[j])
  BY RepairedType DEF PayloadHash
<1>7. TailHash(r, S) = TailHash(t, S)
  BY <1>3, <1>4, <1>5, <1>6 DEF TailHash
<1> QED
  BY <1>2, <1>7 DEF ChainedTo

\* For a table of any size: what repair_pending_chain makes of rows whose requests
\* are intact passes verify_chain, so broken links never block the queue.
THEOREM RepairAlwaysHeals == Spec => []RepairHeals
<1>1. TypeOK => RepairHeals
  <2> SUFFICES ASSUME table \in Tables, Repairable(table)
               PROVE  Verified(Repaired(table))
    BY DEF TypeOK, RepairHeals
  <2>1. ASSUME NEW k \in Present(Repaired(table))
        PROVE  Repaired(table)[k].intact /\ Linked(Repaired(table), k)
    <3>1. k \in Present(table) /\ table[k] \in Row /\ k \in Ids /\ table[k] # NoRow
      BY <2>1, RepairedType, PresentRow DEF Present
    <3>2. Repaired(table)[k].intact
      BY <3>1, RepairedType DEF Repairable
    <3>3. Repaired(table)[k].prevHash = ChainedTo(table, k)
      BY <3>1 DEF Repaired, Row
    <3> QED
      BY <3>1, <3>2, <3>3, RepairedChain DEF Linked
  <2> QED
    BY <2>1 DEF Verified
<1> QED
  BY <1>1, TypesHold, PTL

-----------------------------------------------------------------------------
(* Rows that wait.                                                          *)

\* No step but Clear database makes a pending row vanish: a write overwrites one row,
\* and a purge leaves what is pending.
THEOREM PendingRowsRemain == Spec => PendingNeverVanishes
<1> DEFINE Remains == \A k \in Ids : Pending(table, k) /\ table'[k] = NoRow
                                        => table' = EmptyTable /\ k \in removed'
<1>1. ASSUME TypeOK, NEW row \in Row, Write(row)
      PROVE  Remains
  <2>1. PICK n \in Nat : table'[IdOf[row.sub]] = [row EXCEPT !.id = n]
    BY <1>1, WriteFacts DEF TypeOK
  <2>2. table'[IdOf[row.sub]] \in Row
    BY <2>1 DEF Row
  <2>3. \A j \in Ids \ {IdOf[row.sub]} : table'[j] = table[j]
    BY <1>1, WriteFacts DEF TypeOK
  <2> QED
    BY <2>2, <2>3, SentinelAssumption DEF Pending, WithStatus, Present
<1>2. ASSUME table' = table
      PROVE  Remains
  BY <1>2 DEF Pending, WithStatus, Present
<1>3. ASSUME TypeOK, Handler
      PROVE  Remains
  <2>1. CASE QueueWrite
    <3>1. PICK at \in Times : Write(NewRow(filing.sub, at, filing.prevHash))
      BY <2>1 DEF QueueWrite
    <3>2. NewRow(filing.sub, at, filing.prevHash) \in Row
      BY <1>3, <2>1 DEF QueueWrite, At, TypeOK, NewRow, Row, Statuses
    <3> QED
      BY <1>1, <1>3, <3>1, <3>2
  <2>2. CASE ~QueueWrite
    BY <1>2, <1>3, <2>2 DEF Handler, RefuseHardcore, Forward, FallBackToQueue, QueueKnown,
       QueueNew, QueueUnlocked, QueueNotUnlocked, QueueReadLatest, RefreshUnlocks
  <2> QED
    BY <2>1, <2>2
<1>4. ASSUME TypeOK, Flush
      PROVE  Remains
  <2>1. ASSUME NEW k \in todo, NEW s \in Statuses,
               Write(snapshot[k]) \/ Write([snapshot[k] EXCEPT !.status = s])
        PROVE  Remains
    <3>1. snapshot[k] \in Row /\ [snapshot[k] EXCEPT !.status = s] \in Row
      BY <1>4, PresentRow, StatusRow DEF TypeOK
    <3> QED
      BY <1>1, <1>4, <2>1, <3>1
  <2>2. CASE FlushRepairRow \/ FlushMarkStale \/ FlushRecord
    BY <2>1, <2>2 DEF FlushRepairRow, FlushMarkStale, FlushRecord, Outcome, Statuses
  <2>3. CASE FlushPurge
    BY <2>3 DEF FlushPurge, Purged, Pending, WithStatus, Present
  <2>4. CASE ~(FlushRepairRow \/ FlushMarkStale \/ FlushRecord \/ FlushPurge)
    BY <1>2, <1>4, <2>4 DEF Flush, FlushStart, FlushReread, FlushNothingPending, FlushAbandon,
       FlushRefresh, FlushSend, FlushSendRaises, FlushSync, FlushCheckPending
  <2> QED
    BY <2>2, <2>3, <2>4
<1>5. ASSUME TypeOK, User \/ (\E k \in Ids : Corrupt(k)) \/ Restart
      PROVE  Remains
  <2>1. CASE MenuDelete
    <3>1. [menu EXCEPT !.status = "deleted"] \in Row
      BY <1>5, <2>1, StatusRow DEF MenuDelete, TypeOK, Statuses
    <3> QED
      BY <1>1, <1>5, <2>1, <3>1 DEF MenuDelete
  <2>2. CASE ClearDatabase
    BY <2>2 DEF ClearDatabase, Pending, WithStatus
  <2>3. ASSUME NEW k \in Ids, Corrupt(k)
        PROVE  Remains
    <3>1. \A j \in Ids : table[j] # NoRow => table'[j] # NoRow
      BY <1>5, <2>3, SentinelAssumption DEF Corrupt, TypeOK, Tables, Row
    <3> QED
      BY <3>1 DEF Pending, WithStatus, Present
  <2>4. CASE ~MenuDelete /\ ~ClearDatabase /\ ~(\E k \in Ids : Corrupt(k))
    BY <1>2, <1>5, <2>4 DEF User, MenuRead, Restart
  <2> QED
    BY <2>1, <2>2, <2>3, <2>4
<1>6. TypeOK /\ [Next]_vars => [Remains]_vars
  BY <1>3, <1>4, <1>5 DEF Next
<1> QED
  BY <1>6, TypesHold, PTL DEF Spec, PendingNeverVanishes

\* Hardcore submissions stop at the door: past it, no thread carries one, and the
\* flush marks stale what an earlier release let in.
HardcoreInv ==
    /\ HardcoreNeverSent
    /\ waiting \cap Hardcore = {}
    /\ filing # NoRow => filing.sub \notin Hardcore

\* Whatever a row says and whenever it was queued, no hardcore unlock is acknowledged
\* or sent.
THEOREM HardcoreIsNeverSent == Spec => []HardcoreNeverSent
<1>1. Init => HardcoreInv
  BY DEF Init, HardcoreInv, HardcoreNeverSent
<1>2. ASSUME TypeOK, HardcoreInv, Handler
      PROVE  HardcoreInv'
  <2>1. ASSUME NEW s \in Submissions, RefuseHardcore(s) \/ Forward(s) \/ FallBackToQueue(s)
        PROVE  HardcoreInv'
    BY <1>2, <2>1 DEF HardcoreInv, HardcoreNeverSent, RefuseHardcore, Forward, FallBackToQueue
  <2>2. ASSUME NEW s \in Submissions, QueueKnown(s) \/ QueueNew(s)
        PROVE  HardcoreInv'
    BY <1>2, <2>2 DEF HardcoreInv, HardcoreNeverSent, QueueKnown, QueueNew
  <2>3. CASE QueueUnlocked \/ QueueWrite
    BY <1>2, <2>3 DEF HardcoreInv, HardcoreNeverSent, QueueUnlocked, QueueWrite, At
  <2>4. CASE QueueNotUnlocked \/ QueueReadLatest
    <3>1. /\ filing \in [sub : Submissions, step : {"unlocks", "latest", "write"},
                          prevHash : Hashes \cup {Genesis}]
          /\ filing.sub \notin Hardcore
      BY <1>2, <2>4 DEF HardcoreInv, QueueNotUnlocked, QueueReadLatest, At, TypeOK
    <3>2. filing'.sub = filing.sub
      BY <2>4, <3>1 DEF QueueNotUnlocked, QueueReadLatest
    <3> QED
      BY <1>2, <2>4, <3>1, <3>2 DEF HardcoreInv, HardcoreNeverSent, QueueNotUnlocked, QueueReadLatest
  <2>5. CASE RefreshUnlocks
    BY <1>2, <2>5 DEF HardcoreInv, HardcoreNeverSent, RefreshUnlocks, queueVars
  <2> QED
    BY <1>2, <2>1, <2>2, <2>3, <2>4, <2>5 DEF Handler
<1>3. ASSUME HardcoreInv, Flush
      PROVE  HardcoreInv'
  <2>1. \A s \in server' \ server : s \notin Hardcore
    BY <1>3 DEF Flush, FlushStart, FlushRepairRow, FlushReread, FlushNothingPending,
       FlushAbandon, FlushRefresh, FlushMarkStale, FlushSend, FlushSendRaises, FlushRecord,
       FlushSync, FlushCheckPending, FlushPurge, Unsendable
  <2>2. UNCHANGED queueVars
    BY <1>3 DEF Flush, FlushStart, FlushRepairRow, FlushReread, FlushNothingPending,
       FlushAbandon, FlushRefresh, FlushMarkStale, FlushSend, FlushSendRaises, FlushRecord,
       FlushSync, FlushCheckPending, FlushPurge
  <2> QED
    BY <1>3, <2>1, <2>2 DEF HardcoreInv, HardcoreNeverSent, queueVars
<1>4. ASSUME HardcoreInv, User \/ (\E k \in Ids : Corrupt(k)) \/ Restart
      PROVE  HardcoreInv'
  BY <1>4 DEF HardcoreInv, HardcoreNeverSent, User, MenuRead, MenuDelete, ClearDatabase,
     Corrupt, Restart, queueVars
<1>5. TypeOK /\ HardcoreInv /\ [Next]_vars => HardcoreInv'
  <2>1. HardcoreInv /\ UNCHANGED vars => HardcoreInv'
    BY DEF HardcoreInv, HardcoreNeverSent, vars, queueVars
  <2> QED
    BY <1>2, <1>3, <1>4, <2>1 DEF Next
<1>6. HardcoreInv => HardcoreNeverSent
  BY DEF HardcoreInv
<1> QED
  BY <1>1, <1>5, <1>6, TypesHold, PTL DEF Spec

-----------------------------------------------------------------------------
(* The queue implements AwardPromise.                                       *)

\* What is waiting for delivery after a row is written.
LEMMA WriteKept ==
    ASSUME table \in Tables, lastId \in Nat, NEW row \in Row, Write(row)
    PROVE  WithStatus(table', "pending") =
               IF row.status = "pending"
               THEN WithStatus(table, "pending") \cup {IdOf[row.sub]}
               ELSE WithStatus(table, "pending") \ {IdOf[row.sub]}
<1> DEFINE k == IdOf[row.sub]
<1>1. PICK n \in Nat : table'[k] = [row EXCEPT !.id = n]
  BY WriteFacts
<1>2. k \in Ids /\ \A j \in Ids \ {k} : table'[j] = table[j]
  BY WriteFacts
<1>3. table'[k].status = row.status /\ table'[k] # NoRow
  BY <1>1, SentinelAssumption DEF Row
<1> QED
  BY <1>2, <1>3 DEF WithStatus, Present

\* A step that tells no emulator anything, and drops no achievement but what is settled then.
LEMMA StepSettles ==
    ASSUME Typed, Typed', Grown, acked' = acked,
           WithStatus(table', "pending") \subseteq WithStatus(table, "pending"),
           WithStatus(table, "pending") \subseteq
               WithStatus(table', "pending") \cup Settled' \cup {Board}
    PROVE  Promise!PromiseNext
<1> DEFINE S == Settled' \ {Board}
<1>1. Settled \subseteq Settled'
  BY SettledStays
<1>2. S \in SUBSET (Ids \ {Board})
  BY AwardsAssumption DEF Typed, TypeOK, Settled, UnlocksOnServer
<1>3. Promise!Settle(S)
  BY <1>1 DEF Promise!Settle
<1> QED
  BY <1>2, <1>3 DEF Promise!PromiseNext

\* A step that keeps one more award, of which at most its own emulator is told.
LEMMA StepKeeps ==
    ASSUME NEW k \in Ids, Settled' = Settled,
           WithStatus(table', "pending") = WithStatus(table, "pending") \cup {k},
           Achievement(acked') \in {Achievement(acked), Achievement(acked) \cup ({k} \ {Board})}
    PROVE  Promise!PromiseNext \/ UNCHANGED Promise!promiseVars
<1>1. CASE k = Board
  BY <1>1 DEF Promise!promiseVars
<1>2. CASE k # Board
  <2>1. Promise!Keep(k)
    BY <1>2 DEF Promise!Keep
  <2> QED
    BY <1>2, <2>1 DEF Promise!PromiseNext
<1> QED
  BY <1>1, <1>2

\* A step of the award handler is a step of the promise or none.
LEMMA HandlerPromises ==
    ASSUME AwardsInv, Handler
    PROVE  Promise!PromiseNext \/ UNCHANGED Promise!promiseVars
<1>1. Typed /\ Typed' /\ Grown
  BY HandlerTyped, StepGrows DEF AwardsInv, Typed, Next
<1>2. CASE table' = table /\ acked' = acked
  BY <1>1, <1>2, StepSettles
<1>3. ASSUME NEW k \in Settled \cup WithStatus(table, "pending"), k \in Ids \ {Board},
             Achievement(acked') = Achievement(acked) \cup {k},
             UNCHANGED <<table, server, removed, staled>>
      PROVE  Promise!PromiseNext
  <2>1. Promise!Confirm(k)
    BY <1>3 DEF Promise!Confirm, Settled, UnlocksOnServer
  <2> QED
    BY <1>3, <2>1 DEF Promise!PromiseNext
<1>4. ASSUME NEW s \in Submissions, QueueKnown(s)
      PROVE  Promise!PromiseNext
  <2> DEFINE k == IdOf[s]
  <2>1. k \in Ids \ {Board} /\ k \in Present(table)
    BY <1>4, AwardsAssumption DEF QueueKnown, Queued, Present
  <2>2. k \in Settled \cup WithStatus(table, "pending")
    BY <2>1, RowAccounted DEF AwardsInv, Pending
  <2>3. Achievement(acked') = Achievement(acked) \cup {k}
    BY <1>4, <2>1 DEF QueueKnown, Achievement
  <2> QED
    BY <1>3, <1>4, <2>1, <2>2, <2>3 DEF QueueKnown, menuVars
<1>5. CASE QueueUnlocked
  <2> DEFINE k == IdOf[filing.sub]
  <2>1. k \in UnlocksOnServer
    BY <1>5 DEF QueueUnlocked, AwardsInv, HonestUnlocks
  <2>2. k \in Ids \ {Board} /\ k \in Settled
    BY <1>1, <2>1, AwardsAssumption DEF UnlocksOnServer, Settled, Typed, TypeOK
  <2>3. Achievement(acked') = Achievement(acked) \cup {k}
    BY <1>5, <2>2 DEF QueueUnlocked, Achievement
  <2> QED
    BY <1>3, <1>5, <2>2, <2>3 DEF QueueUnlocked, menuVars
<1>6. CASE QueueWrite
  <2> DEFINE k == IdOf[filing.sub]
  <2>1. PICK at \in Times : Write(NewRow(filing.sub, at, filing.prevHash))
    BY <1>6 DEF QueueWrite
  <2> DEFINE row == NewRow(filing.sub, at, filing.prevHash)
  <2>2. row \in Row /\ row.status = "pending" /\ row.sub = filing.sub
    BY <1>1, <1>6 DEF QueueWrite, At, Typed, TypeOK, NewRow, Row, Statuses
  <2> HIDE DEF row
  <2>3. k \in Ids /\ WithStatus(table', "pending") = WithStatus(table, "pending") \cup {k}
    BY <1>1, <2>1, <2>2, WriteFacts, WriteKept DEF Typed, TypeOK, row
  <2>4. Achievement(acked') = Achievement(acked) \cup ({k} \ {Board})
    BY <1>6 DEF QueueWrite, Achievement
  <2>5. Settled' = Settled
    BY <1>6 DEF QueueWrite, Settled, UnlocksOnServer, menuVars
  <2> QED
    BY <2>3, <2>4, <2>5, StepKeeps
<1> QED
  BY <1>2, <1>4, <1>5, <1>6 DEF Handler, RefuseHardcore, Forward, FallBackToQueue, QueueNew,
     QueueNotUnlocked, QueueReadLatest, RefreshUnlocks, queueVars

\* A row of the snapshot written back, perhaps with a new status.
LEMMA WrittenBackPromises ==
    ASSUME AwardsInv, Typed', Grown, NEW row \in Row, Write(row), acked' = acked,
           Earned(row, server', removed', staled'),
           row.status = "pending" => Settled' = Settled
    PROVE  Promise!PromiseNext \/ UNCHANGED Promise!promiseVars
<1> DEFINE k == IdOf[row.sub]
<1>1. k \in Ids /\ WithStatus(table', "pending") =
          IF row.status = "pending" THEN WithStatus(table, "pending") \cup {k}
                                    ELSE WithStatus(table, "pending") \ {k}
  BY WriteFacts, WriteKept DEF AwardsInv, TypeOK
<1>2. CASE row.status = "pending"
  BY <1>1, <1>2, StepKeeps
<1>3. CASE row.status # "pending"
  <2>1. row.status \in {"flushed", "stale", "deleted"} /\ row.sub \in Submissions
    BY <1>3 DEF Row, Statuses
  <2>2. k # Board => k \in Settled'
    BY <2>1 DEF Earned, Settled, UnlocksOnServer
  <2> QED
    BY <1>1, <1>3, <2>2, StepSettles DEF AwardsInv, Typed
<1> QED
  BY <1>2, <1>3

\* A step of the flush is a step of the promise or none.
LEMMA FlushPromises ==
    ASSUME AwardsInv, Flush
    PROVE  Promise!PromiseNext \/ UNCHANGED Promise!promiseVars
<1>1. Typed /\ Typed' /\ Grown /\ AwardsInv'
  BY FlushTyped, StepGrows, FlushInv DEF AwardsInv, Typed, Next
<1>2. acked' = acked
  BY DEF Flush, FlushStart, FlushRepairRow, FlushReread, FlushNothingPending,
     FlushAbandon, FlushRefresh, FlushMarkStale, FlushSend, FlushSendRaises, FlushRecord,
     FlushSync, FlushCheckPending, FlushPurge, queueVars
<1>3. CASE table' = table
  BY <1>1, <1>2, <1>3, StepSettles
<1>4. CASE FlushRepairRow
  <2>1. PICK k \in todo : Write(snapshot[k])
    BY <1>4 DEF FlushRepairRow
  <2>2. k \in Present(snapshot) /\ snapshot[k] \in Row
    BY <1>1, PresentRow DEF Typed, TypeOK
  <2>3. Earned(snapshot[k], server', removed', staled')
    BY <1>1, <2>2, EarnedStays DEF AwardsInv, HonestTable
  <2>4. Settled' = Settled
    BY <1>4 DEF FlushRepairRow, Settled, UnlocksOnServer, menuVars
  <2> QED
    BY <1>1, <1>2, <2>1, <2>2, <2>3, <2>4, WrittenBackPromises
<1>5. CASE FlushMarkStale
  <2>1. PICK k \in todo : /\ Write([snapshot[k] EXCEPT !.status = "stale"])
                          /\ staled' = staled \cup {k}
    BY <1>5 DEF FlushMarkStale
  <2>2. k \in Present(snapshot) /\ snapshot[k] \in Row /\ IdOf[snapshot[k].sub] = k
    BY <1>1, PresentRow DEF Typed, TypeOK, AwardsInv, HonestTable
  <2> DEFINE row == [snapshot[k] EXCEPT !.status = "stale"]
  <2>3. row \in Row /\ row.sub = snapshot[k].sub /\ row.status = "stale"
    BY <2>2, StatusRow DEF Statuses
  <2> HIDE DEF row
  <2>4. Earned(row, server', removed', staled')
    BY <2>1, <2>2, <2>3 DEF Earned
  <2>5. Write(row)
    BY <2>1 DEF row
  <2> QED
    BY <1>1, <1>2, <2>3, <2>4, <2>5, WrittenBackPromises
<1>6. CASE FlushRecord
  <2>1. PICK k \in todo : /\ IsFirst(snapshot, todo, k)
                          /\ Write([snapshot[k] EXCEPT !.status = Outcome(sent)])
    BY <1>6 DEF FlushRecord
  <2>2. k \in Present(snapshot) /\ snapshot[k] \in Row
    BY <1>1, PresentRow DEF Typed, TypeOK
  <2> DEFINE row == [snapshot[k] EXCEPT !.status = Outcome(sent)]
  <2>3. row \in Row /\ row.sub = snapshot[k].sub /\ row.status = Outcome(sent)
    <3>1. Outcome(sent) \in Statuses
      BY DEF Statuses, Outcome
    <3> QED
      BY <2>2, <3>1, StatusRow
  <2> HIDE DEF row
  <2>4. Earned(row, server', removed', staled')
    <3>1. sent = "success" => snapshot[k].sub \in server'
      BY <1>1, <2>1 DEF AwardsInv, HonestAnswer, Grown
    <3> QED
      BY <2>3, <3>1 DEF Earned, Outcome
  <2>5. Write(row) /\ Settled' = Settled
    BY <1>6, <2>1 DEF row, FlushRecord, Settled, UnlocksOnServer, menuVars
  <2> QED
    BY <1>1, <1>2, <2>3, <2>4, <2>5, WrittenBackPromises
<1>7. CASE FlushPurge
  <2>1. WithStatus(table', "pending") = WithStatus(table, "pending")
    BY <1>7, SentinelAssumption DEF FlushPurge, Purged, WithStatus, Present
  <2> QED
    BY <1>1, <1>2, <2>1, StepSettles
<1> QED
  BY <1>3, <1>4, <1>5, <1>6, <1>7 DEF Flush, FlushStart, FlushReread, FlushNothingPending,
     FlushAbandon, FlushRefresh, FlushSend, FlushSendRaises, FlushSync, FlushCheckPending

\* The menu, the disk and a restart take a step of the promise or none.
LEMMA OthersPromise ==
    ASSUME AwardsInv, User \/ (\E k \in Ids : Corrupt(k)) \/ Restart
    PROVE  Promise!PromiseNext \/ UNCHANGED Promise!promiseVars
<1>1. Typed /\ Typed' /\ Grown
  BY OthersTyped, StepGrows DEF AwardsInv, Typed, Next
<1>2. acked' = acked
  BY DEF User, MenuRead, MenuDelete, ClearDatabase, Corrupt, Restart, queueVars
<1>3. CASE table' = table
  BY <1>1, <1>2, <1>3, StepSettles
<1>4. CASE MenuDelete
  <2> DEFINE row == [menu EXCEPT !.status = "deleted"]
  <2>1. row \in Row /\ row.sub = menu.sub /\ row.status = "deleted"
    BY <1>1, <1>4, StatusRow DEF MenuDelete, Typed, TypeOK, Statuses
  <2> HIDE DEF row
  <2>2. Write(row) /\ Earned(row, server', removed', staled')
    BY <1>4, <2>1 DEF MenuDelete, Earned, row
  <2> QED
    BY <1>1, <1>2, <2>1, <2>2, WrittenBackPromises
<1>5. CASE ClearDatabase
  <2>1. WithStatus(table', "pending") = {} /\ Present(table) \subseteq removed'
    BY <1>5 DEF ClearDatabase, WithStatus, Present, EmptyTable
  <2>2. WithStatus(table, "pending") \subseteq Settled'
    BY <2>1 DEF WithStatus, Settled
  <2> QED
    BY <1>1, <1>2, <2>1, <2>2, StepSettles
<1>6. ASSUME NEW k \in Ids, Corrupt(k)
      PROVE  Promise!PromiseNext
  <2>1. WithStatus(table', "pending") = WithStatus(table, "pending")
    <3>1. table[k] \in Row
      BY <1>1, <1>6 DEF Corrupt, Typed, TypeOK, Tables
    <3>2. /\ table'[k] # NoRow /\ table'[k].status = table[k].status
          /\ \A j \in Ids \ {k} : table'[j] = table[j]
      <4>1. table' = [table EXCEPT ![k] = [table[k] EXCEPT !.intact = FALSE]]
        BY <1>6 DEF Corrupt
      <4>2. [table[k] EXCEPT !.intact = FALSE] \in Row
        BY <3>1 DEF Row
      <4> QED
        BY <1>1, <3>1, <4>1, <4>2, SentinelAssumption DEF Typed, TypeOK, Tables, Row
    <3> QED
      BY <1>6, <3>2 DEF Corrupt, WithStatus, Present
  <2> QED
    BY <1>1, <1>2, <2>1, StepSettles
<1> QED
  BY <1>3, <1>4, <1>5, <1>6 DEF User, MenuRead, Restart

\* Seen from outside, the queue only keeps, confirms and settles: no achievement is promised
\* that is neither kept nor settled, and none is dropped before it is settled.
THEOREM QueueKeepsPromise == Spec => KeepsPromise
<1>1. Init => Promise!PromiseInit
  <2> SUFFICES ASSUME Init PROVE Promise!PromiseInit
    OBVIOUS
  <2>1. Achievement(acked) = {} /\ Settled = {}
    BY DEF Init, Achievement, Settled, UnlocksOnServer
  <2>2. \A j, k \in WithStatus(table, "pending") : j = k
    <3>1. CASE table = EmptyTable
      BY <3>1 DEF WithStatus, Present, EmptyTable
    <3>2. ASSUME NEW s \in Legacy, NEW at \in Times, table = Inherited(s, at)
          PROVE  \A j, k \in WithStatus(table, "pending") : j = k
      BY <3>2 DEF Inherited, EmptyTable, WithStatus, Present
    <3> QED
      BY <3>1, <3>2 DEF Init
  <2>3. WithStatus(table, "pending") \subseteq Ids
    BY DEF WithStatus, Present
  <2> QED
    BY <2>1, <2>2, <2>3 DEF Promise!PromiseInit
<1>2. AwardsInv /\ [Next]_vars => [Promise!PromiseNext]_(Promise!promiseVars)
  <2>1. AwardsInv /\ UNCHANGED vars => UNCHANGED Promise!promiseVars
    BY DEF vars, queueVars, menuVars, Promise!promiseVars, Achievement, Settled, UnlocksOnServer,
       WithStatus, Present
  <2> QED
    BY <2>1, HandlerPromises, FlushPromises, OthersPromise DEF Next
<1> QED
  BY <1>1, <1>2, AwardsInvHolds, PTL DEF Spec, KeepsPromise, Promise!PromiseSpec

-----------------------------------------------------------------------------
(* What was sent is not queued again.                                       *)

TableSubs(t) == {t[k].sub : k \in Present(t)}
Stored == TableSubs(table) \cup TableSubs(snapshot) \cup IF menu = NoRow THEN {} ELSE {menu.sub}
Filed == IF filing = NoRow THEN {} ELSE {filing.sub}

\* A submission is on its way to the table once; then it is in the table and its copies.
QueuedOnce ==
    /\ fresh \cap waiting = {} /\ Filed \cap (fresh \cup waiting) = {}
    /\ Stored \cap (fresh \cup waiting \cup Filed) = {}

\* While the flush has a pending row left to handle, that row has not been recorded as sent.
LeftToSend == IF phase = "refresh" THEN ToSend(snapshot)
              ELSE IF phase \in {"repair", "send", "record"} THEN todo ELSE {}

SentIn(t, k, s) == k \in WithStatus(t, "flushed") /\ t[k].sub = s

NotSentYet ==
    /\ phase \in {"send", "record"} => todo \subseteq ToSend(snapshot)
    /\ \A k \in LeftToSend \cap ToSend(snapshot) : ~SentIn(table, k, snapshot[k].sub)

\* Writing a row adds its submission, makes no other row pending, and flushes no other.
LEMMA WriteSubs ==
    ASSUME table \in Tables, lastId \in Nat, NEW row \in Row, Write(row)
    PROVE  /\ TableSubs(table') \subseteq TableSubs(table) \cup {row.sub}
           /\ \A j \in Ids \ {IdOf[row.sub]} : table'[j] = table[j]
           /\ table'[IdOf[row.sub]].sub = row.sub
           /\ table'[IdOf[row.sub]].status = row.status
<1> DEFINE k == IdOf[row.sub]
<1>1. PICK n \in Nat : table'[k] = [row EXCEPT !.id = n]
  BY WriteFacts
<1>2. k \in Ids /\ \A j \in Ids \ {k} : table'[j] = table[j]
  BY WriteFacts
<1>3. table'[k].sub = row.sub /\ table'[k].status = row.status
  BY <1>1 DEF Row
<1> QED
  BY <1>2, <1>3 DEF TableSubs, Present

\* What FlushedNeverRequeued says of a step.
NotRequeued ==
    \A k \in WithStatus(table, "flushed") : Pending(table', k) => table'[k].sub # table[k].sub

\* A step that writes no row: what is pending or flushed then, was so before.
RowsRest ==
    /\ TableSubs(table') \subseteq TableSubs(table)
    /\ \A k \in WithStatus(table', "pending") : k \in WithStatus(table, "pending")
    /\ \A k \in WithStatus(table', "flushed") :
          k \in WithStatus(table, "flushed") /\ table'[k].sub = table[k].sub

\* Where rows only leave or stay as they were, nothing sent is queued again.
LEMMA RestNotRequeued ==
    ASSUME RowsRest
    PROVE  NotRequeued
BY DEF RowsRest, NotRequeued, Pending, WithStatus

\* A row that is written pending is not the one that was sent.
LEMMA WriteNotRequeued ==
    ASSUME table \in Tables, lastId \in Nat, NEW row \in Row, Write(row),
           row.status = "pending" => ~SentIn(table, IdOf[row.sub], row.sub)
    PROVE  NotRequeued
<1> DEFINE k == IdOf[row.sub]
<1>1. ASSUME NEW j \in WithStatus(table, "flushed"), Pending(table', j)
      PROVE  table'[j].sub # table[j].sub
  <2>1. CASE j = k
    BY <1>1, <2>1, WriteSubs DEF Pending, WithStatus, SentIn
  <2>2. CASE j # k
    BY <1>1, <2>2, WriteSubs DEF Pending, WithStatus, Present
  <2> QED
    BY <2>1, <2>2
<1> QED
  BY <1>1 DEF NotRequeued

\* Emptying, purging and damaging the table, and leaving it alone, are such steps.
LEMMA RowsRestFacts ==
    ASSUME TypeOK
    PROVE  /\ table' = table => RowsRest
           /\ table' = EmptyTable => RowsRest
           /\ table' = Purged(table) => RowsRest
           /\ \A k \in Ids : Corrupt(k) => RowsRest
<1>1. table' = table => RowsRest
  BY DEF RowsRest
<1>2. table' = EmptyTable => RowsRest
  BY DEF RowsRest, EmptyTable, WithStatus, Present, TableSubs
<1>3. table' = Purged(table) => RowsRest
  <2>1. \A k \in Present(Purged(table)) : k \in Present(table) /\ Purged(table)[k] = table[k]
    BY DEF Purged, WithStatus, Present
  <2> QED
    BY <2>1 DEF RowsRest, WithStatus, TableSubs
<1>4. ASSUME NEW k \in Ids, Corrupt(k)
      PROVE  RowsRest
  <2>1. table[k] \in Row /\ table' = [table EXCEPT ![k] = [table[k] EXCEPT !.intact = FALSE]]
    BY <1>4 DEF Corrupt, TypeOK, Tables
  <2>2. /\ table'[k].status = table[k].status /\ table'[k].sub = table[k].sub
        /\ \A j \in Ids \ {k} : table'[j] = table[j]
    BY <2>1 DEF TypeOK, Tables, Row
  <2>3. k \in Present(table)
    BY <1>4 DEF Corrupt, Present
  <2>4. \A j \in Present(table') : /\ j \in Present(table)
                                   /\ table'[j].status = table[j].status
                                   /\ table'[j].sub = table[j].sub
    BY <2>2, <2>3 DEF Present
  <2> QED
    BY <2>4 DEF RowsRest, WithStatus, TableSubs
<1> QED
  BY <1>1, <1>2, <1>3, <1>4

FlushedRest ==
    \A k \in WithStatus(table', "flushed") :
        k \in WithStatus(table, "flushed") /\ table'[k].sub = table[k].sub

\* NotSentYet outlives a step that leaves the flush alone and marks nothing flushed.
LEMMA NotSentStays ==
    ASSUME NotSentYet, UNCHANGED <<phase, snapshot, todo>>, FlushedRest
    PROVE  NotSentYet'
BY DEF NotSentYet, FlushedRest, LeftToSend, SentIn, ToSend, WithStatus, Present

\* Writing a row that is not flushed marks nothing flushed.
LEMMA WriteFlushes ==
    ASSUME table \in Tables, lastId \in Nat, NEW row \in Row, Write(row), row.status # "flushed"
    PROVE  FlushedRest
BY WriteSubs DEF FlushedRest, WithStatus, Present

\* The award handler queues nothing again that was sent.
LEMMA HandlerOnce ==
    ASSUME Typed, QueuedOnce, NotSentYet, Handler
    PROVE  QueuedOnce' /\ NotSentYet' /\ NotRequeued
<1> USE DEF QueuedOnce, Stored, Filed
<1>1. UNCHANGED <<phase, snapshot, todo, menu>>
  BY DEF Handler, RefuseHardcore, Forward, FallBackToQueue, QueueKnown, QueueNew,
     QueueUnlocked, QueueNotUnlocked, QueueReadLatest, QueueWrite, RefreshUnlocks,
     flushVars, menuVars
<1>2. ASSUME table' = table
      PROVE  /\ NotSentYet' /\ NotRequeued
             /\ Stored' = Stored
  BY <1>1, <1>2, RowsRestFacts, RestNotRequeued, NotSentStays DEF Typed, RowsRest, FlushedRest
<1>3. ASSUME NEW s \in Submissions, RefuseHardcore(s) \/ Forward(s) \/ FallBackToQueue(s)
      PROVE  QueuedOnce' /\ NotSentYet' /\ NotRequeued
  BY <1>2, <1>3 DEF RefuseHardcore, Forward, FallBackToQueue
<1>4. ASSUME NEW s \in Submissions, QueueKnown(s)
      PROVE  QueuedOnce' /\ NotSentYet' /\ NotRequeued
  BY <1>2, <1>4 DEF QueueKnown
<1>5. ASSUME NEW s \in Submissions, QueueNew(s)
      PROVE  QueuedOnce' /\ NotSentYet' /\ NotRequeued
  <2>1. filing = NoRow /\ Filed' \subseteq {s}
    BY <1>5 DEF QueueNew
  <2> QED
    BY <1>2, <1>5, <2>1 DEF QueueNew
<1>6. CASE QueueUnlocked \/ RefreshUnlocks
  BY <1>2, <1>6 DEF QueueUnlocked, RefreshUnlocks, queueVars
<1>7. CASE QueueNotUnlocked \/ QueueReadLatest
  <2>1. filing # NoRow /\ filing'.sub = filing.sub
    BY <1>7 DEF QueueNotUnlocked, QueueReadLatest, At, Typed, TypeOK
  <2>2. Filed' \subseteq Filed
    BY <2>1
  <2> QED
    BY <1>2, <1>7, <2>2 DEF QueueNotUnlocked, QueueReadLatest
<1>8. CASE QueueWrite
  <2>1. PICK at \in Times : Write(NewRow(filing.sub, at, filing.prevHash))
    BY <1>8 DEF QueueWrite
  <2> DEFINE row == NewRow(filing.sub, at, filing.prevHash)
  <2>2. row \in Row /\ row.status = "pending" /\ row.sub = filing.sub
    BY <1>8 DEF QueueWrite, At, Typed, TypeOK, NewRow, Row, Statuses
  <2> HIDE DEF row
  <2>3. Write(row) /\ table \in Tables /\ lastId \in Nat
    BY <2>1 DEF row, Typed, TypeOK
  <2>4. filing # NoRow /\ Filed = {row.sub} /\ filing' = NoRow /\ UNCHANGED <<fresh, waiting>>
    BY <1>8, <2>2 DEF QueueWrite, At
  <2>5. Stored' \subseteq Stored \cup Filed
    BY <1>1, <2>2, <2>3, <2>4, WriteSubs
  <2>6. QueuedOnce'
    BY <2>4, <2>5
  <2>7. NotSentYet'
    BY <1>1, <2>2, <2>3, WriteFlushes, NotSentStays
  <2>8. ~SentIn(table, IdOf[row.sub], row.sub)
    BY <2>4 DEF SentIn, TableSubs, WithStatus
  <2> QED
    BY <2>2, <2>3, <2>6, <2>7, <2>8, WriteNotRequeued
<1> QED
  BY <1>3, <1>4, <1>5, <1>6, <1>7, <1>8 DEF Handler

\* The flush and the menu write back what is stored already.
LEMMA StoredOnce ==
    ASSUME QueuedOnce, Stored' \subseteq Stored, UNCHANGED <<fresh, waiting, filing>>
    PROVE  QueuedOnce'
BY DEF QueuedOnce, Filed

\* A row of the snapshot, written back.
LEMMA WrittenBackOnce ==
    ASSUME Typed, QueuedOnce, NEW k \in todo, NEW row \in Row, Write(row),
           row.sub = snapshot[k].sub, UNCHANGED <<fresh, waiting, filing, snapshot, menu>>
    PROVE  QueuedOnce'
<1>1. row.sub \in TableSubs(snapshot)
  BY DEF Typed, TypeOK, TableSubs
<1>2. TableSubs(table') \subseteq TableSubs(table) \cup {row.sub}
  BY WriteSubs DEF Typed, TypeOK
<1> QED
  BY <1>1, <1>2, StoredOnce DEF Stored

\* The flush queues nothing again that was sent.
LEMMA FlushOnce ==
    ASSUME AwardsInv, QueuedOnce, NotSentYet, Flush
    PROVE  QueuedOnce' /\ NotSentYet' /\ NotRequeued
<1> Typed
  BY DEF AwardsInv, Typed
<1>1. UNCHANGED <<fresh, waiting, filing, menu>>
  BY DEF Flush, FlushStart, FlushRepairRow, FlushReread, FlushNothingPending,
     FlushAbandon, FlushRefresh, FlushMarkStale, FlushSend, FlushSendRaises, FlushRecord,
     FlushSync, FlushCheckPending, FlushPurge, queueVars, menuVars
<1>2. TableSubs(EmptyTable) = {}
  BY DEF TableSubs, Present, EmptyTable
<1>3. ASSUME RowsRest, TableSubs(snapshot') \subseteq TableSubs(table) \cup TableSubs(snapshot)
      PROVE  QueuedOnce' /\ NotRequeued
  BY <1>1, <1>3, StoredOnce, RestNotRequeued DEF Stored, RowsRest
<1>4. ASSUME table' = table, TableSubs(snapshot') \subseteq TableSubs(table) \cup TableSubs(snapshot)
      PROVE  QueuedOnce' /\ NotRequeued
  BY <1>3, <1>4, RowsRestFacts DEF Typed
<1>5. ASSUME EndFlush
      PROVE  /\ TableSubs(snapshot') \subseteq TableSubs(table) \cup TableSubs(snapshot)
             /\ NotSentYet'
  BY <1>2, <1>5 DEF EndFlush, NotSentYet, LeftToSend
<1>6. CASE FlushStart
  <2>1. CASE phase' = "refresh" /\ snapshot' = table /\ table' = table
    <3>1. NotSentYet'
      BY <2>1 DEF NotSentYet, LeftToSend, SentIn, ToSend, WithStatus
    <3> QED
      BY <1>4, <2>1, <3>1
  <2>2. CASE /\ phase' = "repair" /\ snapshot' = Repaired(table) /\ table' = table
             /\ todo' = Present(table)
    <3>1. TableSubs(Repaired(table)) = TableSubs(table)
      BY RepairedType DEF Typed, TypeOK, TableSubs
    <3>2. \A k \in ToSend(Repaired(table)) : k \notin WithStatus(table, "flushed")
      BY RepairedType DEF Typed, TypeOK, ToSend, WithStatus
    <3>3. NotSentYet'
      BY <2>2, <3>2 DEF NotSentYet, LeftToSend, SentIn
    <3> QED
      BY <1>4, <2>2, <3>1, <3>3
  <2> QED
    BY <1>6, <2>1, <2>2 DEF FlushStart
<1>7. CASE FlushRepairRow
  <2>1. PICK k \in todo : Write(snapshot[k]) /\ todo' = todo \ {k}
    BY <1>7 DEF FlushRepairRow
  <2> DEFINE row == snapshot[k]
  <2>2. k \in Present(snapshot) /\ row \in Row /\ table \in Tables /\ lastId \in Nat
    BY PresentRow DEF Typed, TypeOK
  <2>3. phase = "repair" /\ UNCHANGED <<phase, snapshot>>
    BY <1>7 DEF FlushRepairRow
  <2>4. QueuedOnce'
    BY <1>1, <2>1, <2>2, <2>3, WrittenBackOnce
  <2>5. IdOf[row.sub] = k
    BY <2>2 DEF AwardsInv, HonestTable
  <2>6. row.status = "pending" => ~SentIn(table, k, row.sub)
    BY <2>1, <2>2, <2>3 DEF NotSentYet, LeftToSend, ToSend, WithStatus
  <2>7. NotSentYet'
    BY <2>1, <2>2, <2>3, <2>5, WriteSubs DEF NotSentYet, LeftToSend, SentIn, WithStatus, Present
  <2> QED
    BY <2>1, <2>2, <2>4, <2>5, <2>6, <2>7, WriteNotRequeued
<1>8. CASE FlushReread \/ FlushNothingPending \/ FlushSync
  <2>1. NotSentYet'
    BY <1>8 DEF FlushReread, FlushNothingPending, FlushSync, NotSentYet, LeftToSend, SentIn, ToSend,
       WithStatus
  <2> QED
    BY <1>2, <1>4, <1>8, <2>1 DEF FlushReread, FlushNothingPending, FlushSync
<1>9. CASE FlushAbandon \/ FlushSendRaises
  BY <1>4, <1>5, <1>9 DEF FlushAbandon, FlushSendRaises
<1>10. CASE FlushRefresh
  <2>1. NotSentYet'
    BY <1>10 DEF FlushRefresh, NotSentYet, LeftToSend, SentIn
  <2> QED
    BY <1>4, <1>10, <2>1 DEF FlushRefresh
<1>11. CASE FlushMarkStale
  <2>1. PICK k \in todo : /\ Write([snapshot[k] EXCEPT !.status = "stale"])
                          /\ todo' = todo \ {k}
    BY <1>11 DEF FlushMarkStale
  <2> DEFINE row == [snapshot[k] EXCEPT !.status = "stale"]
  <2>2. k \in Present(snapshot) /\ snapshot[k] \in Row /\ table \in Tables /\ lastId \in Nat
    BY PresentRow DEF Typed, TypeOK
  <2>3. row \in Row /\ row.sub = snapshot[k].sub /\ row.status = "stale"
    BY <2>2, StatusRow DEF Statuses
  <2> HIDE DEF row
  <2>4. Write(row)
    BY <2>1 DEF row
  <2>5. QueuedOnce'
    BY <1>1, <1>11, <2>3, <2>4, WrittenBackOnce DEF FlushMarkStale
  <2>6. FlushedRest
    BY <2>2, <2>3, <2>4, WriteFlushes
  <2>7. NotSentYet'
    BY <1>11, <2>1, <2>6 DEF FlushMarkStale, NotSentYet, FlushedRest, LeftToSend, SentIn
  <2> QED
    BY <2>2, <2>3, <2>4, <2>5, <2>7, WriteNotRequeued
<1>12. CASE FlushSend
  <2>1. NotSentYet'
    BY <1>12 DEF FlushSend, NotSentYet, LeftToSend, SentIn
  <2> QED
    BY <1>4, <1>12, <2>1 DEF FlushSend
<1>13. CASE FlushRecord
  <2>1. PICK k \in todo : /\ Write([snapshot[k] EXCEPT !.status = Outcome(sent)])
                          /\ todo' = todo \ {k}
    BY <1>13 DEF FlushRecord
  <2> DEFINE row == [snapshot[k] EXCEPT !.status = Outcome(sent)]
  <2>2. /\ k \in Present(snapshot) /\ snapshot[k] \in Row /\ table \in Tables /\ lastId \in Nat
        /\ IdOf[snapshot[k].sub] = k
    BY PresentRow DEF Typed, TypeOK, AwardsInv, HonestTable
  <2>3. row \in Row /\ row.sub = snapshot[k].sub
    <3>1. Outcome(sent) \in Statuses
      BY DEF Statuses, Outcome
    <3> QED
      BY <2>2, <3>1, StatusRow
  <2> HIDE DEF row
  <2>4. Write(row)
    BY <2>1 DEF row
  <2>5. QueuedOnce'
    BY <1>1, <1>13, <2>3, <2>4, WrittenBackOnce DEF FlushRecord
  <2>6. phase = "record" /\ phase' = "send" /\ snapshot' = snapshot
    BY <1>13 DEF FlushRecord
  <2>7. ~SentIn(table, k, row.sub)
    BY <2>3, <2>6 DEF NotSentYet, LeftToSend
  <2>8. \A j \in Ids \ {k} : table'[j] = table[j]
    BY <2>2, <2>3, <2>4, WriteSubs
  <2>9. NotSentYet'
    BY <2>1, <2>6, <2>8 DEF NotSentYet, LeftToSend, SentIn, WithStatus, Present
  <2> QED
    BY <2>2, <2>3, <2>4, <2>5, <2>7, <2>9, WriteNotRequeued
<1>14. CASE FlushCheckPending
  <2>1. TableSubs(snapshot') \subseteq TableSubs(table) \cup TableSubs(snapshot)
    BY <1>5, <1>14 DEF FlushCheckPending
  <2>2. NotSentYet'
    BY <1>14 DEF FlushCheckPending, EndFlush, NotSentYet, LeftToSend
  <2> QED
    BY <1>4, <1>14, <2>1, <2>2 DEF FlushCheckPending
<1>15. CASE FlushPurge
  <2>1. RowsRest
    BY <1>15, RowsRestFacts DEF FlushPurge, Typed
  <2> QED
    BY <1>3, <1>5, <1>15, <2>1 DEF FlushPurge
<1> QED
  BY <1>6, <1>7, <1>8, <1>9, <1>10, <1>11, <1>12, <1>13, <1>14, <1>15 DEF Flush

\* The menu, the disk and a restart queue nothing again that was sent.
LEMMA OthersOnce ==
    ASSUME Typed, QueuedOnce, NotSentYet, User \/ (\E k \in Ids : Corrupt(k)) \/ Restart
    PROVE  QueuedOnce' /\ NotSentYet' /\ NotRequeued
<1> USE DEF Stored
<1>1. ASSUME NEW k \in Ids, MenuRead(k)
      PROVE  QueuedOnce' /\ NotSentYet' /\ NotRequeued
  <2>1. RowsRest /\ FlushedRest /\ UNCHANGED <<table, snapshot, phase, todo, fresh, waiting, filing>>
    BY <1>1, RowsRestFacts DEF MenuRead, Typed, RowsRest, FlushedRest, queueVars, flushVars
  <2>2. Stored' \subseteq Stored
    BY <1>1, <2>1 DEF MenuRead, TableSubs, Present
  <2> QED
    BY <2>1, <2>2, StoredOnce, NotSentStays, RestNotRequeued
<1>2. CASE MenuDelete
  <2> DEFINE row == [menu EXCEPT !.status = "deleted"]
  <2>1. /\ row \in Row /\ row.sub = menu.sub /\ row.status = "deleted"
        /\ menu # NoRow /\ table \in Tables /\ lastId \in Nat
    BY <1>2, StatusRow DEF MenuDelete, Typed, TypeOK, Statuses
  <2> HIDE DEF row
  <2>2. Write(row) /\ menu' = NoRow /\ UNCHANGED <<snapshot, phase, todo, fresh, waiting, filing>>
    BY <1>2 DEF MenuDelete, row, queueVars, flushVars
  <2>3. Stored' \subseteq Stored
    BY <2>1, <2>2, WriteSubs
  <2> QED
    BY <2>1, <2>2, <2>3, StoredOnce, WriteFlushes, NotSentStays, WriteNotRequeued
<1>3. ASSUME RowsRest, UNCHANGED <<menu, snapshot, phase, todo, fresh, waiting, filing>>
      PROVE  QueuedOnce' /\ NotSentYet' /\ NotRequeued
  <2>1. Stored' \subseteq Stored /\ FlushedRest
    BY <1>3 DEF RowsRest, FlushedRest
  <2> QED
    BY <1>3, <2>1, StoredOnce, NotSentStays, RestNotRequeued
<1>4. CASE ClearDatabase \/ \E k \in Ids : Corrupt(k)
  <2>1. RowsRest
    BY <1>4, RowsRestFacts DEF ClearDatabase, Typed
  <2> QED
    BY <1>3, <1>4, <2>1 DEF ClearDatabase, Corrupt, queueVars, flushVars, menuVars
<1>5. CASE Restart
  <2>1. TableSubs(snapshot') = {} /\ NotSentYet'
    BY <1>5 DEF Restart, EndFlush, NotSentYet, LeftToSend, TableSubs, Present, EmptyTable
  <2>2. NotRequeued
    BY <1>5, RowsRestFacts, RestNotRequeued DEF Restart, Typed
  <2>3. QueuedOnce'
    BY <1>5, <2>1 DEF Restart, QueuedOnce, Filed, menuVars
  <2> QED
    BY <2>1, <2>2, <2>3
<1> QED
  BY <1>1, <1>2, <1>4, <1>5 DEF User

\* No copy of a row, read before its award was sent and written back after, makes a flushed
\* award pending again.
THEOREM FlushedStaysFlushed == Spec => FlushedNeverRequeued
<1>1. Init => QueuedOnce /\ NotSentYet
  <2> SUFFICES ASSUME Init PROVE QueuedOnce /\ NotSentYet
    OBVIOUS
  <2>1. TableSubs(EmptyTable) = {}
    BY DEF TableSubs, Present, EmptyTable
  <2>2. TableSubs(table) \subseteq Legacy
    <3>1. ASSUME NEW s \in Legacy, NEW at \in Times, table = Inherited(s, at)
          PROVE  TableSubs(table) \subseteq Legacy
      BY <3>1, AwardsAssumption DEF Inherited, NewRow, EmptyTable, TableSubs, Present
    <3> QED
      BY <2>1, <3>1 DEF Init
  <2> QED
    BY <2>1, <2>2 DEF Init, QueuedOnce, Stored, Filed, NotSentYet, LeftToSend
<1>2. AwardsInv /\ QueuedOnce /\ NotSentYet /\ [Next]_vars =>
          (QueuedOnce /\ NotSentYet)' /\ (NotRequeued \/ UNCHANGED vars)
  <2>1. QueuedOnce /\ NotSentYet /\ UNCHANGED vars => (QueuedOnce /\ NotSentYet)'
    BY DEF vars, queueVars, flushVars, menuVars, QueuedOnce, Stored, Filed, NotSentYet, LeftToSend,
       SentIn, ToSend, WithStatus, Present, TableSubs
  <2> QED
    BY <2>1, HandlerOnce, FlushOnce, OthersOnce DEF AwardsInv, Typed, Next
<1>3. AwardsInv /\ QueuedOnce /\ NotSentYet /\ [Next]_vars =>
          [\A k \in WithStatus(table, "flushed") :
              Pending(table', k) => table'[k].sub # table[k].sub]_vars
  BY <1>2 DEF NotRequeued
<1> QED
  BY <1>1, <1>2, <1>3, AwardsInvHolds, PTL DEF Spec, FlushedNeverRequeued

-----------------------------------------------------------------------------
(* The queue inside its service.                                            *)

\* The requests of a running service are those of the queue.
LEMMA ServiceHandles ==
    ASSUME (\E s \in Submissions : Request(s)) \/ Answer \/ Fetch
    PROVE  Handler
BY DEF Request, Answer, Fetch, Handler

\* What the monitor's thread does to the queue is what a flush does, or nothing.
LEMMA MonitorFlushes ==
    ASSUME Monitor
    PROVE  Flush \/ UNCHANGED vars
<1>1. BootProbe \/ FirstPoll \/ Poll \/ SkipFlush \/ FlushReturns => UNCHANGED vars
  BY DEF BootProbe, FirstPoll, Poll, SkipFlush, FlushReturns
<1>2. BeginFlush \/ FlushRaises => Flush
  BY DEF BeginFlush, FlushRaises, Flush
<1>3. FlushStep => Flush
  BY DEF FlushStep, GiveUp, Live, Sent, Flush
<1> QED
  BY <1>1, <1>2, <1>3 DEF Monitor

\* Whatever the link, the monitor, starts and stops do, what happens to the queue inside its
\* service (run_proxy_service, ConnectivityMonitor) is one of the queue's own steps: each of
\* the theorems above holds of the service.
THEOREM ServiceIsAQueue == ServiceSpec => Spec
<1>1. ServiceInit => Init
  BY DEF ServiceInit
<1>2. [ServiceNext]_serviceVars => [Next]_vars
  <2>1. CASE UNCHANGED serviceVars
    BY <2>1 DEF serviceVars
  <2>2. CASE (\E s \in Submissions : Request(s)) \/ Answer \/ Fetch
    BY <2>2, ServiceHandles DEF Next
  <2>3. CASE Monitor
    BY <2>3, MonitorFlushes DEF Next
  <2>4. LinkChanges \/ Stop \/ Boot => Restart \/ UNCHANGED vars
    BY DEF LinkChanges, Stop, Boot
  <2> QED
    BY <2>1, <2>2, <2>3, <2>4 DEF ServiceNext, Next
<1> QED
  BY <1>1, <1>2, PTL DEF ServiceSpec, Spec

\* So a service that is stopped, loses its link or its thread, and starts again promises what
\* the queue does, and calls no award flushed that RetroAchievements has not accepted.
THEOREM ServiceKeepsPromise ==
    ServiceSpec => KeepsPromise /\ []NoAwardLost /\ []FlushedMeansAccepted
BY ServiceIsAQueue, QueueKeepsPromise, NoAwardIsLost, FlushedAreAccepted
=============================================================================
