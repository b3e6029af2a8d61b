-------------------------- MODULE StoredDataProofs --------------------------
(***************************************************************************)
(* Theorems about what becomes of stored data: the JSON store and its       *)
(* import, for every set of awards and any number of crashes and damages;   *)
(* the script that updates the portable folder on Windows; and the update   *)
(* of the handhelds.                                                       *)
(***************************************************************************)
EXTENDS JsonStore, AppUpdate, WindowsUpdate, FiniteSetTheorems, TLAPS

-----------------------------------------------------------------------------
(* The inductive invariant of the JSON store.                               *)

Importing == {"import", "import set aside", "import record", "commit", "rename"}
Rewriting == {"load", "set aside", "record", "write"}
Within == Importing \cup Rewriting \cup {"unlock"}

\* The lock of a call that has it: a read shares it.
Mode(op) == IF op = "read" THEN "shared" ELSE "exclusive"

\* Who is within a call holds its lock, and nobody else holds one beside a writer.
LockHeld ==
    /\ \A p \in Processes :
          storeLock[p] = IF caller[p].pc \in Within THEN Mode(caller[p].op) ELSE "none"
    /\ \A p, q \in Processes : p # q /\ storeLock[p] = "exclusive" => storeLock[q] = "none"

\* After the release that brings SQLite the file is only imported.
OneBackend ==
    /\ backend = "sqlite" => \A p \in Processes : caller[p].op = "open"
    /\ backend = "json" => table = {}
    /\ \A p \in Processes :
          /\ caller[p].pc \in Importing => backend = "sqlite"
          /\ caller[p].pc \in Rewriting => backend = "json"
          /\ caller[p].pc \in {"closed", "open"} => caller[p].op = "open"

\* What a writer has read is what the file holds, damaged or not; one that could not set a
\* damaged file aside goes on with nothing.
CopyCurrent ==
    \A p \in Processes :
        /\ caller[p].pc \in {"lock", "load", "set aside", "record"} => caller[p].copy = {}
        /\ caller[p].pc = "record" /\ caller[p].op # "read" => file = NoFile
        /\ caller[p].pc = "commit" => caller[p].copy = InFile
        /\ caller[p].pc = "write" /\ caller[p].op \in {"queue", "settle"} =>
              caller[p].copy = InFile \/ (caller[p].copy = {} /\ InFile \subseteq unsaved)
        /\ caller[p].pc = "write" /\ caller[p].op = "open" /\ file = NoFile => caller[p].copy = {}

DamageFound ==
    \A p \in Processes :
        caller[p].pc \in {"set aside", "import set aside"} => file = NoFile \/ ~file.parses

\* A call that is about to return has done its work, and an import that is about to
\* rename has committed.
WorkDone ==
    \A p \in Processes :
        /\ caller[p].pc = "unlock" /\ caller[p].op = "queue" => caller[p].award \in InFile
        /\ caller[p].pc = "rename" => InFile \subseteq table \cup settledAwards

StoreSafe == LockHeld /\ OneBackend /\ CopyCurrent /\ DamageFound /\ WorkDone /\ AwardsSafe

-----------------------------------------------------------------------------
(* What was delivered.                                                       *)

\* The award of a call is new when it is stored, and was acknowledged when it is taken out.
AwardKnown ==
    \A p \in Processes :
        /\ caller[p].op = "queue" => p = Service /\ caller[p].award \notin acked \cup settledAwards
        /\ caller[p].op = "settle" => caller[p].award \in acked

\* Beside a database that is used there is no file, unless an import failed.
FileGone ==
    \A p \in Processes :
        backend = "sqlite" /\ ~leftOver /\ caller[p].pc \in {"open", "unlock", "import record"} =>
            file = NoFile

Delivered == AwardKnown /\ FileGone /\ (~leftOver => settledAwards \cap InFile = {})

-----------------------------------------------------------------------------
(* Types.                                                                    *)

\* The record sets of the types are what their fields say: a call, a file, an incident.
LEMMA RecordsTyped ==
    /\ NoCall \in Calls /\ [NoCall EXCEPT !.pc = "open"] \in Calls
    /\ Quiet \in Reports /\ [Quiet EXCEPT !.pc = "seen"] \in Reports
    /\ \A holds \in SUBSET Awards : [holds |-> holds, parses |-> TRUE] \in StoredFiles
    /\ \A id \in Int : [id |-> id, reported |-> FALSE, notified |-> FALSE] \in Incidents
<1>1. NoCall \in Calls /\ [NoCall EXCEPT !.pc = "open"] \in Calls
  <2>1. [NoCall EXCEPT !.pc = "open"] =
            [pc |-> "open", op |-> "open", award |-> "none", copy |-> {}]
    BY DEF NoCall
  <2> QED
    BY <2>1 DEF NoCall, Calls, StoreSteps, Ops
<1>2. Quiet \in Reports /\ [Quiet EXCEPT !.pc = "seen"] \in Reports
  BY DEF Quiet, Reports
<1>3. \A holds \in SUBSET Awards : [holds |-> holds, parses |-> TRUE] \in StoredFiles
  BY DEF StoredFiles
<1>4. \A id \in Int : [id |-> id, reported |-> FALSE, notified |-> FALSE] \in Incidents
  BY DEF Incidents
<1> QED
  BY <1>1, <1>2, <1>3, <1>4

\* Moving one process to a call of the type keeps the calls typed.
LEMMA CallerTyped ==
    ASSUME caller \in [Processes -> Calls], NEW p \in Processes, NEW call \in Calls,
           caller' = [caller EXCEPT ![p] = call]
    PROVE  caller' \in [Processes -> Calls]
OBVIOUS

\* A step that only moves a process's program counter keeps its call typed.
LEMMA GotoTyped ==
    ASSUME caller \in [Processes -> Calls], NEW p \in Processes, NEW pc \in StoreSteps, Goto(p, pc)
    PROVE  caller' \in [Processes -> Calls]
<1>1. [caller[p] EXCEPT !.pc = pc] \in Calls
  BY DEF Calls
<1>2. caller' = [caller EXCEPT ![p] = [caller[p] EXCEPT !.pc = pc]]
  BY DEF Goto
<1> QED
  BY <1>1, <1>2

\* What a call that reads the file goes on with.
LEMMA CopyTyped ==
    ASSUME caller \in [Processes -> Calls], NEW p \in Processes, NEW pc \in StoreSteps,
           NEW copy \in SUBSET Awards,
           caller' = [caller EXCEPT ![p].pc = pc, ![p].copy = copy]
    PROVE  caller' \in [Processes -> Calls]
<1>1. [caller[p] EXCEPT !.pc = pc, !.copy = copy] \in Calls
  BY DEF Calls
<1>2. caller' = [caller EXCEPT ![p] = [caller[p] EXCEPT !.pc = pc, !.copy = copy]]
  OBVIOUS
<1> QED
  BY <1>1, <1>2

\* Moving one reporter to a report of the type keeps the reports typed.
LEMMA TellerTyped ==
    ASSUME teller \in [Processes -> Reports], NEW p \in Processes, NEW report \in Reports,
           teller' = [teller EXCEPT ![p] = report]
    PROVE  teller' \in [Processes -> Reports]
OBVIOUS

\* Every step of the storage keeps the types.
LEMMA StoreTypesStep ==
    ASSUME StoreTypeOK, [StoreNext]_storeVars
    PROVE  StoreTypeOK'
<1> USE StoreAssumption DEF StoreTypeOK, Blame, fileVars, reportVars, historyVars
<1>1. ASSUME NEW p \in Processes, NEW op \in Ops, NEW a \in Awards \cup {"none"},
             op \in {"queue", "settle"} => a \in Awards, Call(p, op, a)
      PROVE  StoreTypeOK'
  <2>1. [pc |-> "lock", op |-> op, award |-> a, copy |-> {}] \in Calls
    BY <1>1 DEF Calls, StoreSteps
  <2>2. caller' \in [Processes -> Calls]
    BY <1>1, <2>1, CallerTyped DEF Call
  <2> QED
    BY <1>1, <2>2 DEF Call
<1>2. ASSUME NEW p \in Processes, TakeStoreLock(p)
      PROVE  StoreTypeOK'
  <2>1. caller' \in [Processes -> Calls]
    BY <1>2, GotoTyped DEF TakeStoreLock, StoreSteps
  <2>2. storeLock' \in [Processes -> {"none", "shared", "exclusive"}]
    BY <1>2 DEF TakeStoreLock
  <2> QED
    BY <1>2, <2>1, <2>2 DEF TakeStoreLock
<1>3. ASSUME NEW p \in Processes, Load(p)
      PROVE  StoreTypeOK'
  <2>1. InFile \in SUBSET Awards
    BY DEF InFile, StoredFiles
  <2>2. caller' \in [Processes -> Calls]
    <3>1. CASE Goto(p, "set aside")
      BY <3>1, GotoTyped DEF StoreSteps
    <3>2. CASE caller' = [caller EXCEPT ![p].pc = "write", ![p].copy = InFile]
      BY <3>2, <2>1, CopyTyped DEF StoreSteps
    <3> QED
      BY <1>3, <3>1, <3>2 DEF Load, InFile
  <2> QED
    BY <1>3, <2>2 DEF Load
<1>4. ASSUME NEW p \in Processes, SetAside(p)
      PROVE  StoreTypeOK'
  <2>1. caller' \in [Processes -> Calls]
    BY <1>4, GotoTyped DEF SetAside, StoreSteps
  <2>2. /\ IsFiniteSet(quarantined')
        /\ quarantined' \in SUBSET [id : Nat, holds : SUBSET Awards, parses : BOOLEAN]
        /\ file' \in StoredFiles \cup {NoFile}
    <3>1. CASE file = NoFile
      BY <1>4, <3>1 DEF SetAside
    <3>2. CASE file # NoFile
      <4> DEFINE new == [id |-> Cardinality(quarantined), holds |-> file.holds,
                         parses |-> file.parses]
      <4>1. Cardinality(quarantined) \in Nat
        BY FS_CardinalityType
      <4>2. new \in [id : Nat, holds : SUBSET Awards, parses : BOOLEAN]
        BY <3>2, <4>1 DEF StoredFiles
      <4>3. quarantined' = quarantined \cup {new} /\ file' = NoFile
        BY <1>4, <3>2 DEF SetAside
      <4> HIDE DEF new
      <4>4. IsFiniteSet(quarantined \cup {new})
        BY FS_AddElement
      <4> QED
        BY <4>2, <4>3, <4>4
    <3> QED
      BY <3>1, <3>2
  <2> QED
    BY <1>4, <2>1, <2>2 DEF SetAside
<1>17. ASSUME NEW p \in Processes, SetAsideFails(p)
       PROVE  StoreTypeOK'
  <2>1. caller' \in [Processes -> Calls]
    BY <1>17, GotoTyped DEF SetAsideFails, StoreSteps
  <2>2. file.holds \in SUBSET Awards
    BY <1>17 DEF SetAsideFails, StoredFiles
  <2>3. unsaved' \in SUBSET Awards /\ leftOver' \in BOOLEAN
    BY <1>17, <2>2 DEF SetAsideFails
  <2> QED
    BY <1>17, <2>1, <2>3 DEF SetAsideFails
<1>5. ASSUME NEW p \in Processes, RecordIncident(p)
      PROVE  StoreTypeOK'
  <2>1. caller' \in [Processes -> Calls]
    BY <1>5, GotoTyped DEF RecordIncident, StoreSteps
  <2>2. incident' \in Incidents
    <3>1. Cardinality(quarantined) \in Nat
      BY FS_CardinalityType
    <3>2. Cardinality(quarantined) - 1 \in Int
      BY <3>1
    <3> QED
      BY <1>5, <3>2, RecordsTyped DEF RecordIncident
  <2> QED
    BY <1>5, <2>1, <2>2 DEF RecordIncident
<1>6. ASSUME NEW p \in Processes, WriteFile(p)
      PROVE  StoreTypeOK'
  <2>1. caller' \in [Processes -> Calls]
    BY <1>6, GotoTyped DEF WriteFile, StoreSteps
  <2>2. /\ caller[p].copy \in SUBSET Awards
        /\ caller[p].op \in {"queue", "settle"} => caller[p].award \in Awards
    BY DEF Calls
  <2>3. Written(p) \in SUBSET Awards
    BY <2>2 DEF Written
  <2>4. file' \in StoredFiles \cup {NoFile}
    BY <1>6, <2>3, RecordsTyped DEF WriteFile
  <2>5. settledAwards' \in SUBSET Awards
    BY <1>6, <2>2 DEF WriteFile
  <2> QED
    BY <1>6, <2>1, <2>4, <2>5 DEF WriteFile
<1>7. ASSUME NEW p \in Processes, Unlock(p)
      PROVE  StoreTypeOK'
  <2>2. caller' \in [Processes -> Calls]
    BY <1>7, RecordsTyped, CallerTyped DEF Unlock
  <2>3. caller[p].op = "queue" => caller[p].award \in Awards
    BY DEF Calls
  <2>4. storeLock' \in [Processes -> {"none", "shared", "exclusive"}]
    BY <1>7 DEF Unlock
  <2>5. acked' \in SUBSET Awards
    BY <1>7, <2>3 DEF Unlock
  <2> QED
    BY <1>7, <2>2, <2>4, <2>5 DEF Unlock
<1>8. ASSUME NEW p \in Processes, ImportRead(p)
      PROVE  StoreTypeOK'
  <2>1. caller' \in [Processes -> Calls]
    <3>1. ASSUME NEW pc \in {"unlock", "import set aside"}, Goto(p, pc)
          PROVE  caller' \in [Processes -> Calls]
      BY <3>1, GotoTyped DEF StoreSteps
    <3>2. CASE file # NoFile /\ caller' = [caller EXCEPT ![p].pc = "commit", ![p].copy = file.holds]
      <4>1. file.holds \in SUBSET Awards
        BY <3>2 DEF StoredFiles
      <4>2. caller \in [Processes -> Calls] /\ p \in Processes /\ "commit" \in StoreSteps
        BY <1>8 DEF StoreSteps
      <4> QED
        BY ONLY <3>2, <4>1, <4>2, CopyTyped
    <3>3. \/ \E pc \in {"unlock", "import set aside"} : Goto(p, pc)
          \/ file # NoFile /\ caller' = [caller EXCEPT ![p].pc = "commit", ![p].copy = file.holds]
      BY <1>8 DEF ImportRead
    <3> QED
      BY <3>1, <3>2, <3>3
  <2> QED
    BY <1>8, <2>1 DEF ImportRead
<1>9. ASSUME NEW p \in Processes, ImportCommit(p) \/ ImportRename(p) \/ ImportFails(p)
      PROVE  StoreTypeOK'
  <2>1. caller' \in [Processes -> Calls]
    BY <1>9, GotoTyped DEF ImportCommit, ImportRename, ImportFails, StoreSteps
  <2>2. caller[p].copy \in SUBSET Awards
    BY DEF Calls
  <2>3. CASE ImportCommit(p)
    BY <2>1, <2>2, <2>3 DEF ImportCommit
  <2>4. CASE ImportRename(p)
    BY <2>1, <2>4 DEF ImportRename
  <2>5. CASE ImportFails(p)
    BY <2>1, <2>5 DEF ImportFails
  <2> QED
    BY <1>9, <2>3, <2>4, <2>5
<1>10. ASSUME NEW p \in Processes, NEW a \in Awards, TableQueue(p, a) \/ TableSettle(p, a)
       PROVE  StoreTypeOK'
  BY <1>10 DEF TableQueue, TableSettle
<1>11. ASSUME NEW p \in Processes, Upload(p) \/ MarkReported(p)
       PROVE  StoreTypeOK'
  <2>1. /\ [Quiet EXCEPT !.pc = "seen"] \in Reports
        /\ [teller[p] EXCEPT !.pc = "mark"] \in Reports /\ teller[p].held \in Int
    BY DEF Quiet, Reports
  <2>2. teller' \in [Processes -> Reports]
    <3>1. CASE Told(p)
      BY <3>1, <2>1, TellerTyped DEF Told
    <3>2. CASE Tell(p, "mark")
      <4>1. teller' = [teller EXCEPT ![p] = [teller[p] EXCEPT !.pc = "mark"]]
        BY <3>2 DEF Tell
      <4> QED
        BY <2>1, <4>1, TellerTyped
    <3> QED
      BY <1>11, <3>1, <3>2 DEF Upload, MarkReported
  <2>3. incident' \in Incidents \cup {NoIncident}
    BY <1>11 DEF Upload, MarkReported, Incidents
  <2> QED
    BY <1>11, <2>1, <2>2, <2>3 DEF Upload, MarkReported
<1>12. ASSUME NEW p \in Processes, ProcessEnds(p)
       PROVE  StoreTypeOK'
  <2>2. /\ caller' \in [Processes -> Calls]
        /\ teller' \in [Processes -> Reports]
    BY <1>12, RecordsTyped, CallerTyped, TellerTyped DEF ProcessEnds
  <2>3. storeLock' \in [Processes -> {"none", "shared", "exclusive"}]
    BY <1>12 DEF ProcessEnds
  <2> QED
    BY <1>12, <2>2, <2>3 DEF ProcessEnds
<1>13. CASE Upgrade \/ Damage
  <2>1. file' \in StoredFiles \cup {NoFile}
    BY <1>13 DEF Upgrade, Damage, StoredFiles
  <2> QED
    BY <1>13, <2>1 DEF Upgrade, Damage
<1>14. CASE ServiceLooks \/ MenuLooks
  <2>1. Service \in Processes /\ Menu \in Processes
    BY DEF Processes
  <2>2. incident # NoIncident => incident.id \in Int
    BY DEF Incidents
  <2>3. teller' \in [Processes -> Reports]
    <3>1. CASE ServiceLooks
      <4>1. [pc |-> "upload", held |-> incident.id] \in Reports
        BY <3>1, <2>2 DEF ServiceLooks, Reports
      <4> QED
        BY <3>1, <4>1, <2>1, TellerTyped DEF ServiceLooks
    <3>2. CASE MenuLooks
      <4>1. [pc |-> IF incident.reported THEN "seen" ELSE "upload", held |-> incident.id]
              \in Reports
        BY <3>2, <2>2 DEF MenuLooks, Reports
      <4> QED
        BY <3>2, <4>1, <2>1, TellerTyped DEF MenuLooks
    <3> QED
      BY <1>14, <3>1, <3>2
  <2>4. incident' \in Incidents \cup {NoIncident}
    BY <1>14 DEF ServiceLooks, MenuLooks, Incidents
  <2> QED
    BY <1>14, <2>3, <2>4 DEF ServiceLooks, MenuLooks
<1>15. CASE UNCHANGED storeVars
  BY <1>15 DEF storeVars
<1>16. "open" \in Ops /\ "read" \in Ops /\ "queue" \in Ops /\ "settle" \in Ops
  BY DEF Ops
<1> QED
  BY <1>1, <1>2, <1>3, <1>4, <1>5, <1>6, <1>7, <1>8, <1>9, <1>10, <1>11, <1>12, <1>13, <1>14,
     <1>15, <1>16, <1>17 DEF StoreNext

-----------------------------------------------------------------------------
(* What a step does to the calls.                                            *)

\* The call of p goes on, the others do not move.
Moves(p, pc, copy) ==
    /\ caller'[p].pc = pc /\ caller'[p].copy = copy
    /\ caller'[p].op = caller[p].op /\ caller'[p].award = caller[p].award
    /\ \A q \in Processes \ {p} : caller'[q] = caller[q]

\* Goto moves the caller's program counter and nothing else of any call.
LEMMA GotoMoves ==
    ASSUME caller \in [Processes -> Calls], NEW p \in Processes, NEW pc, Goto(p, pc)
    PROVE  Moves(p, pc, caller[p].copy)
<1>1. caller[p] \in [pc : StoreSteps, op : Ops, award : Awards \cup {"none"}, copy : SUBSET Awards]
  BY DEF Calls
<1>2. caller'[p] = [caller[p] EXCEPT !.pc = pc]
  BY DEF Goto
<1>3. \A q \in Processes \ {p} : caller'[q] = caller[q]
  BY DEF Goto
<1> QED
  BY <1>1, <1>2, <1>3 DEF Moves

\* Within a call its lock stays as it is.
LEMMA LockStays ==
    ASSUME LockHeld, NEW p \in Processes, NEW pc, NEW copy, Moves(p, pc, copy),
           caller[p].pc \in Within, pc \in Within, UNCHANGED storeLock
    PROVE  LockHeld'
BY DEF LockHeld, Moves

\* A step that gives the caller a copy leaves every other call alone.
LEMMA CopyMoves ==
    ASSUME caller \in [Processes -> Calls], NEW p \in Processes, NEW pc, NEW copy,
           caller' = [caller EXCEPT ![p].pc = pc, ![p].copy = copy]
    PROVE  Moves(p, pc, copy)
<1>1. caller[p] \in [pc : StoreSteps, op : Ops, award : Awards \cup {"none"}, copy : SUBSET Awards]
  BY DEF Calls
<1>2. caller'[p] = [caller[p] EXCEPT !.pc = pc, !.copy = copy]
  OBVIOUS
<1>3. \A q \in Processes \ {p} : caller'[q] = caller[q]
  OBVIOUS
<1> QED
  BY <1>1, <1>2, <1>3 DEF Moves

\* A writer is alone within its call.
LEMMA WriterAlone ==
    ASSUME LockHeld, NEW p \in Processes, NEW q \in Processes, p # q,
           caller[p].pc \in Within, caller[q].pc \in Within
    PROVE  caller[p].op = "read" /\ caller[q].op = "read"
BY DEF LockHeld, Mode

\* A step that moves no call, no lock and no file.
LEMMA CallsRest ==
    ASSUME StoreSafe, UNCHANGED <<file, table, backend, storeLock, caller, quarantined>>,
           UNCHANGED <<acked, settledAwards, unsaved>>
    PROVE  StoreSafe'
BY DEF StoreSafe, LockHeld, OneBackend, CopyCurrent, DamageFound, WorkDone, AwardsSafe,
       AwardsOnDisk, SetAsides, OnlyDamageSetAside, InFile

\* A process that starts a storage call keeps the store safe.
LEMMA CallKeeps ==
    ASSUME StoreTypeOK, StoreSafe, NEW p \in Processes, NEW op \in Ops,
           NEW a \in Awards \cup {"none"}, Call(p, op, a)
    PROVE  StoreSafe'
<1> USE DEF StoreSafe, historyVars, reportVars
<1>1. /\ caller'[p].pc = "lock" /\ caller'[p].op = op /\ caller'[p].copy = {}
      /\ \A q \in Processes \ {p} : caller'[q] = caller[q]
      /\ caller[p].pc \in {"closed", "open"}
  BY DEF Call, StoreTypeOK
<1>2. UNCHANGED <<file, table, backend, storeLock, quarantined, acked, settledAwards, unsaved>>
  BY DEF Call
<1>3. LockHeld'
  BY <1>1, <1>2 DEF LockHeld, Within, Importing, Rewriting
<1>4. OneBackend'
  BY <1>1, <1>2 DEF OneBackend, Call, Importing, Rewriting, StoreTypeOK
<1>5. CopyCurrent' /\ DamageFound' /\ WorkDone'
  BY <1>1, <1>2 DEF CopyCurrent, DamageFound, WorkDone, InFile
<1>6. AwardsSafe'
  BY <1>2 DEF AwardsSafe, AwardsOnDisk, SetAsides, OnlyDamageSetAside, InFile
<1> QED
  BY <1>3, <1>4, <1>5, <1>6

\* Taking the file lock keeps the store safe: nobody else holds it as a writer.
LEMMA TakeStoreLockKeeps ==
    ASSUME StoreTypeOK, StoreSafe, NEW p \in Processes, TakeStoreLock(p)
    PROVE  StoreSafe'
<1> USE DEF StoreSafe, historyVars, reportVars
<1> DEFINE pc == IF backend = "sqlite" THEN "import" ELSE "load"
<1>1. Moves(p, pc, caller[p].copy) /\ caller[p].pc = "lock"
  BY GotoMoves DEF TakeStoreLock, StoreTypeOK
<1>2. UNCHANGED <<file, table, backend, quarantined, acked, settledAwards, unsaved>>
  BY DEF TakeStoreLock
<1>3. LockHeld'
  <2>1. /\ storeLock'[p] = Mode(caller[p].op)
        /\ \A q \in Processes \ {p} : storeLock'[q] = storeLock[q]
    BY DEF TakeStoreLock, StoreTypeOK, Mode
  <2>2. \A q \in Processes \ {p} :
            storeLock[q] = "none" \/ (Mode(caller[p].op) = "shared" /\ storeLock[q] = "shared")
    BY DEF TakeStoreLock, LockFree, Mode
  <2>3. \A q \in Processes :
            storeLock'[q] = IF caller'[q].pc \in Within THEN Mode(caller'[q].op) ELSE "none"
    BY <1>1, <2>1 DEF Moves, LockHeld, Within, Importing, Rewriting
  <2>4. \A r, q \in Processes : r # q /\ storeLock'[r] = "exclusive" => storeLock'[q] = "none"
    BY <2>1, <2>2 DEF LockHeld, Mode
  <2> QED
    BY <2>3, <2>4 DEF LockHeld
<1>4. OneBackend'
  BY <1>1, <1>2 DEF OneBackend, Moves, Importing, Rewriting, StoreTypeOK
<1>5. CopyCurrent' /\ DamageFound' /\ WorkDone'
  BY <1>1, <1>2 DEF CopyCurrent, DamageFound, WorkDone, InFile, Moves
<1>6. AwardsSafe'
  BY <1>2 DEF AwardsSafe, AwardsOnDisk, SetAsides, OnlyDamageSetAside, InFile
<1> QED
  BY <1>3, <1>4, <1>5, <1>6

\* Reading the file keeps the store safe: the copy of the reader is the file.
LEMMA LoadKeeps ==
    ASSUME StoreTypeOK, StoreSafe, NEW p \in Processes, Load(p)
    PROVE  StoreSafe'
<1> USE DEF StoreSafe, historyVars, reportVars
<1>1. UNCHANGED <<file, table, backend, storeLock, quarantined, acked, settledAwards, unsaved>>
  BY DEF Load
<1>2. \/ file # NoFile /\ ~file.parses /\ Moves(p, "set aside", caller[p].copy)
      \/ Moves(p, "write", InFile)
  BY GotoMoves, CopyMoves DEF Load, StoreTypeOK, InFile
<1>3. caller[p].pc = "load"
  BY DEF Load
<1>4. LockHeld'
  BY <1>1, <1>2, <1>3, LockStays DEF Within, Importing, Rewriting
<1>5. OneBackend'
  BY <1>1, <1>2, <1>3 DEF OneBackend, Moves, Importing, Rewriting
<1>6. CopyCurrent' /\ DamageFound' /\ WorkDone'
  BY <1>1, <1>2, <1>3 DEF CopyCurrent, DamageFound, WorkDone, InFile, Moves
<1>7. AwardsSafe'
  BY <1>1 DEF AwardsSafe, AwardsOnDisk, SetAsides, OnlyDamageSetAside, InFile
<1> QED
  BY <1>4, <1>5, <1>6, <1>7

\* Setting a damaged file aside keeps the store safe: only damaged files are set aside.
LEMMA SetAsideKeeps ==
    ASSUME StoreTypeOK, StoreSafe, NEW p \in Processes, SetAside(p)
    PROVE  StoreSafe'
<1> USE DEF StoreSafe, historyVars, reportVars
<1> DEFINE first == caller[p].pc = "set aside"
<1>1. /\ UNCHANGED <<table, backend, storeLock, acked, settledAwards, unsaved>>
      /\ caller[p].pc \in {"set aside", "import set aside"} /\ caller[p].pc \in Within
  BY DEF SetAside, Within, Importing, Rewriting
<1>2. CASE file = NoFile
  <2>1. /\ Moves(p, IF first THEN "write" ELSE "unlock", caller[p].copy)
        /\ UNCHANGED <<file, quarantined>>
    BY <1>2, GotoMoves DEF SetAside, StoreTypeOK
  <2>2. LockHeld'
    BY <1>1, <2>1, LockStays DEF Within, Importing, Rewriting
  <2>3. OneBackend'
    BY <1>1, <2>1 DEF OneBackend, Moves, Importing, Rewriting
  <2>4. CopyCurrent' /\ DamageFound'
    BY <1>1, <1>2, <2>1 DEF CopyCurrent, DamageFound, InFile, Moves
  <2>5. ~first => caller[p].op = "open"
    BY <1>1 DEF OneBackend, Importing
  <2>6. WorkDone'
    BY <1>1, <2>1, <2>5 DEF WorkDone, InFile, Moves
  <2>7. AwardsSafe'
    BY <1>1, <2>1 DEF AwardsSafe, AwardsOnDisk, SetAsides, OnlyDamageSetAside, InFile
  <2> QED
    BY <2>2, <2>3, <2>4, <2>6, <2>7
<1>3. CASE file # NoFile
  <2> DEFINE new == [id |-> Cardinality(quarantined), holds |-> file.holds, parses |-> file.parses]
  <2>1. /\ Moves(p, IF first THEN "record" ELSE "import record", caller[p].copy)
        /\ file' = NoFile /\ quarantined' = quarantined \cup {new}
    BY <1>1, <1>3, GotoMoves DEF SetAside, StoreTypeOK
  <2>2. LockHeld'
    BY <1>1, <2>1, LockStays DEF Within, Importing, Rewriting
  <2>3. OneBackend'
    BY <1>1, <2>1 DEF OneBackend, Moves, Importing, Rewriting
  <2> new.holds = file.holds /\ new.parses = file.parses
    OBVIOUS
  <2> HIDE DEF new
  <2>4. \A q \in Processes \ {p} :
            caller[q].pc \in {"record", "write", "commit", "unlock", "rename"} =>
                caller[q].op = "read" /\ caller[q].pc # "commit"
    BY <1>1, WriterAlone DEF OneBackend, Within, Importing, Rewriting
  <2>5. CopyCurrent' /\ DamageFound'
    <3>1. ASSUME NEW q \in Processes \ {p}
          PROVE  /\ caller'[q].pc \in {"lock", "load", "set aside", "record"} => caller'[q].copy = {}
                 /\ caller'[q].pc = "write" => caller'[q].op = "read"
                 /\ caller'[q].pc # "commit"
      BY <2>1, <2>4 DEF CopyCurrent, Moves
    <3>2. /\ caller'[p].pc \in {"record", "import record"}
          /\ caller'[p].pc = "record" => caller'[p].copy = {}
      BY <1>1, <2>1 DEF CopyCurrent, Moves
    <3> QED
      BY <2>1, <3>1, <3>2 DEF CopyCurrent, DamageFound
  <2>6. \A q \in Processes : caller[q].pc = "rename" => caller[q].op = "open"
    BY DEF OneBackend, Importing
  <2>7. WorkDone'
    BY <1>1, <2>1, <2>4, <2>6 DEF WorkDone, Moves
  <2>8. AwardsOnDisk'
    <3>1. InFile = file.holds /\ InFile \subseteq SetAsides'
      BY <1>3, <2>1 DEF InFile, SetAsides
    <3>2. SetAsides \subseteq SetAsides'
      BY <2>1 DEF SetAsides
    <3>3. acked' \ settledAwards' \subseteq table' \cup SetAsides' \cup unsaved'
      BY <1>1, <3>1, <3>2 DEF AwardsSafe, AwardsOnDisk
    <3> QED
      BY <3>3 DEF AwardsOnDisk
  <2>9. OnlyDamageSetAside'
    <3>1. ~file.parses
      BY <1>1, <1>3 DEF DamageFound
    <3> QED
      BY <2>1, <3>1 DEF AwardsSafe, OnlyDamageSetAside
  <2> QED
    BY <2>2, <2>3, <2>5, <2>7, <2>8, <2>9 DEF AwardsSafe
<1> QED
  BY <1>2, <1>3

\* A damaged file that cannot be set aside keeps the store safe: it stays where it is, and
\* what a writer is about to lose is known.
LEMMA SetAsideFailsKeeps ==
    ASSUME StoreTypeOK, StoreSafe, NEW p \in Processes, SetAsideFails(p)
    PROVE  StoreSafe'
<1> USE DEF StoreSafe, fileVars, reportVars
<1> DEFINE first == caller[p].pc = "set aside"
<1>1. /\ UNCHANGED <<file, table, backend, storeLock, quarantined, acked, settledAwards>>
      /\ caller[p].pc \in {"set aside", "import set aside"} /\ caller[p].pc \in Within
      /\ file # NoFile /\ unsaved \subseteq unsaved'
      /\ first /\ caller[p].op \in {"queue", "settle"} => InFile \subseteq unsaved'
  BY DEF SetAsideFails, Within, Importing, Rewriting, InFile
<1>2. Moves(p, IF first THEN "write" ELSE "unlock", caller[p].copy)
  BY GotoMoves DEF SetAsideFails, StoreTypeOK
<1>3. LockHeld'
  BY <1>1, <1>2, LockStays DEF Within, Importing, Rewriting
<1>4. OneBackend'
  BY <1>1, <1>2 DEF OneBackend, Moves, Importing, Rewriting
<1>5. first => caller[p].copy = {}
  BY DEF CopyCurrent
<1>6. CopyCurrent' /\ DamageFound'
  BY <1>1, <1>2, <1>5 DEF CopyCurrent, DamageFound, InFile, Moves
<1>7. ~first => caller[p].op = "open"
  BY <1>1 DEF OneBackend, Importing
<1>8. WorkDone'
  BY <1>1, <1>2, <1>7 DEF WorkDone, InFile, Moves
<1>9. AwardsSafe'
  BY <1>1 DEF AwardsSafe, AwardsOnDisk, SetAsides, OnlyDamageSetAside, InFile
<1> QED
  BY <1>3, <1>4, <1>6, <1>8, <1>9

\* Recording the incident keeps the store safe.
LEMMA RecordIncidentKeeps ==
    ASSUME StoreTypeOK, StoreSafe, NEW p \in Processes, RecordIncident(p)
    PROVE  StoreSafe'
<1> USE DEF StoreSafe, historyVars, reportVars
<1>1. /\ UNCHANGED <<file, table, backend, storeLock, quarantined, acked, settledAwards, unsaved>>
      /\ caller[p].pc \in {"record", "import record"}
      /\ Moves(p, IF caller[p].pc = "record" THEN "write" ELSE "unlock", caller[p].copy)
  BY GotoMoves DEF RecordIncident, StoreTypeOK
<1>2. LockHeld'
  BY <1>1, LockStays DEF Within, Importing, Rewriting
<1>3. OneBackend'
  BY <1>1 DEF OneBackend, Moves, Importing, Rewriting
<1>4. CopyCurrent' /\ DamageFound'
  BY <1>1 DEF CopyCurrent, DamageFound, InFile, Moves
<1>5. caller[p].pc = "import record" => caller[p].op = "open"
  BY DEF OneBackend, Importing
<1>6. WorkDone'
  BY <1>1, <1>5 DEF WorkDone, InFile, Moves
<1>7. AwardsSafe'
  BY <1>1 DEF AwardsSafe, AwardsOnDisk, SetAsides, OnlyDamageSetAside, InFile
<1> QED
  BY <1>2, <1>3, <1>4, <1>6, <1>7

\* What a writer puts in the file is its copy, with its award in it or out of it.
LEMMA FileWritten ==
    ASSUME StoreTypeOK, NEW p \in Processes, file' = [holds |-> Written(p), parses |-> TRUE]
    PROVE  InFile' = Written(p)
<1>1. caller[p] \in Calls
  BY DEF StoreTypeOK
<1>2. Written(p) \in SUBSET Awards
  BY <1>1 DEF Calls, Written
<1>3. file' \in StoredFiles
  BY <1>2, RecordsTyped
<1>4. file' # NoFile
  BY <1>3, StoreAssumption
<1>5. file'.holds = Written(p)
  OBVIOUS
<1> QED
  BY <1>4, <1>5 DEF InFile

\* Writing the file keeps the store safe: the copy written is still what the file holds.
LEMMA WriteFileKeeps ==
    ASSUME StoreTypeOK, StoreSafe, NEW p \in Processes, WriteFile(p)
    PROVE  StoreSafe'
<1> USE DEF StoreSafe, historyVars, reportVars
<1>1. /\ UNCHANGED <<table, backend, storeLock, quarantined, acked, unsaved>>
      /\ caller[p].pc = "write" /\ caller[p].pc \in Within
      /\ Moves(p, "unlock", caller[p].copy)
  BY GotoMoves DEF WriteFile, StoreTypeOK, Within, Rewriting
<1>2. LockHeld'
  BY <1>1, LockStays DEF Within, Importing, Rewriting
<1>3. OneBackend'
  BY <1>1 DEF OneBackend, Moves, Importing, Rewriting
<1>4. CASE caller[p].op = "read" \/ (caller[p].op = "open" /\ file # NoFile)
  <2>1. UNCHANGED <<file, settledAwards>>
    BY <1>4 DEF WriteFile
  <2>2. CopyCurrent' /\ DamageFound' /\ WorkDone' /\ AwardsSafe'
    BY <1>1, <1>4, <2>1 DEF CopyCurrent, DamageFound, WorkDone, InFile, Moves, AwardsSafe,
       AwardsOnDisk, SetAsides, OnlyDamageSetAside
  <2> QED
    BY <1>2, <1>3, <2>2
<1>5. CASE ~(caller[p].op = "read" \/ (caller[p].op = "open" /\ file # NoFile))
  <2>1. /\ file' = [holds |-> Written(p), parses |-> TRUE]
        /\ settledAwards' = IF caller[p].op = "settle" THEN settledAwards \cup {caller[p].award}
                                                       ELSE settledAwards
    BY <1>5 DEF WriteFile
  <2>2. InFile' = Written(p)
    BY <2>1, FileWritten
  <2>3. \/ caller[p].op \in {"queue", "settle"}
             /\ (caller[p].copy = InFile \/ (caller[p].copy = {} /\ InFile \subseteq unsaved))
        \/ caller[p].op = "open" /\ caller[p].copy = {} /\ InFile = {}
    <3>1. caller[p].op \in Ops
      BY DEF StoreTypeOK, Calls
    <3> QED
      BY <1>1, <1>5, <3>1 DEF CopyCurrent, Ops, InFile
  <2>4. \A q \in Processes \ {p} : caller'[q].pc \in {"closed", "open", "lock"}
    <3>1. \A q \in Processes \ {p} : caller[q].pc \notin Within
      BY <1>1, <1>5, WriterAlone
    <3>2. \A q \in Processes : caller[q].pc \in StoreSteps
      BY DEF StoreTypeOK, Calls
    <3> QED
      BY <1>1, <3>1, <3>2 DEF Moves, Within, Importing, Rewriting, StoreSteps
  <2>5. CopyCurrent' /\ DamageFound'
    BY <1>1, <2>4 DEF CopyCurrent, DamageFound, Moves
  <2>6. WorkDone'
    <3>1. caller[p].op = "queue" => caller[p].award \in InFile'
      BY <2>2 DEF Written
    <3> QED
      BY <1>1, <2>4, <3>1 DEF WorkDone, Moves
  <2>7. AwardsOnDisk'
    BY <1>1, <2>1, <2>2, <2>3 DEF AwardsSafe, AwardsOnDisk, SetAsides, Written
  <2>8. OnlyDamageSetAside'
    BY <1>1 DEF AwardsSafe, OnlyDamageSetAside
  <2> QED
    BY <1>2, <1>3, <2>5, <2>6, <2>7, <2>8 DEF AwardsSafe
<1> QED
  BY <1>4, <1>5

\* A call that ends lets its lock go.
LEMMA LockGoes ==
    ASSUME LockHeld, NEW p \in Processes, caller'[p].pc \in {"open", "closed"},
           \A q \in Processes \ {p} : caller'[q] = caller[q],
           storeLock'[p] = "none", \A q \in Processes \ {p} : storeLock'[q] = storeLock[q]
    PROVE  LockHeld'
<1>1. ASSUME NEW q \in Processes
      PROVE  storeLock'[q] = IF caller'[q].pc \in Within THEN Mode(caller'[q].op) ELSE "none"
  <2>1. CASE q = p
    BY <2>1 DEF Within, Importing, Rewriting
  <2>2. CASE q # p
    BY <2>2 DEF LockHeld
  <2> QED
    BY <2>1, <2>2
<1>2. ASSUME NEW r \in Processes, NEW q \in Processes, r # q, storeLock'[r] = "exclusive"
      PROVE  storeLock'[q] = "none"
  <2>1. r # p
    BY <1>2
  <2> QED
    BY <1>2, <2>1 DEF LockHeld
<1> QED
  BY <1>1, <1>2 DEF LockHeld

\* Letting go of the lock keeps the store safe.
LEMMA UnlockKeeps ==
    ASSUME StoreTypeOK, StoreSafe, NEW p \in Processes, Unlock(p)
    PROVE  StoreSafe'
<1> USE DEF StoreSafe, fileVars, reportVars
<1>1. /\ UNCHANGED <<file, table, backend, quarantined, settledAwards, unsaved>>
      /\ caller[p].pc = "unlock"
      /\ caller'[p].pc = "open" /\ caller'[p].op = "open"
      /\ \A q \in Processes \ {p} : caller'[q] = caller[q]
      /\ storeLock'[p] = "none"
      /\ \A q \in Processes \ {p} : storeLock'[q] = storeLock[q]
  BY DEF Unlock, StoreTypeOK, NoCall
<1>2. LockHeld'
  BY <1>1, LockGoes
<1>3. OneBackend'
  BY <1>1 DEF OneBackend, Importing, Rewriting
<1>4. CopyCurrent' /\ DamageFound' /\ WorkDone'
  BY <1>1 DEF CopyCurrent, DamageFound, WorkDone, InFile
<1>5. AwardsSafe'
  <2>1. caller[p].op = "queue" => caller[p].award \in InFile
    BY <1>1 DEF WorkDone
  <2> QED
    BY <1>1, <2>1 DEF Unlock, AwardsSafe, AwardsOnDisk, SetAsides, OnlyDamageSetAside, InFile
<1> QED
  BY <1>2, <1>3, <1>4, <1>5

\* Reading the legacy file for the import keeps the store safe.
LEMMA ImportReadKeeps ==
    ASSUME StoreTypeOK, StoreSafe, NEW p \in Processes, ImportRead(p)
    PROVE  StoreSafe'
<1> USE DEF StoreSafe, fileVars, historyVars, reportVars
<1>1. UNCHANGED <<file, table, backend, storeLock, quarantined, acked, settledAwards, unsaved>>
  BY DEF ImportRead
<1>2. \/ Moves(p, "unlock", caller[p].copy)
      \/ ~file.parses /\ Moves(p, "import set aside", caller[p].copy)
      \/ Moves(p, "commit", InFile)
  BY GotoMoves, CopyMoves DEF ImportRead, StoreTypeOK, InFile
<1>3. caller[p].pc = "import" /\ caller[p].op = "open"
  BY DEF ImportRead, OneBackend, Importing
<1>4. LockHeld'
  BY <1>1, <1>2, <1>3, LockStays DEF Within, Importing, Rewriting
<1>5. OneBackend'
  BY <1>1, <1>2, <1>3 DEF OneBackend, Moves, Importing, Rewriting
<1>6. CopyCurrent' /\ DamageFound' /\ WorkDone'
  BY <1>1, <1>2, <1>3 DEF CopyCurrent, DamageFound, WorkDone, InFile, Moves
<1>7. AwardsSafe'
  BY <1>1 DEF AwardsSafe, AwardsOnDisk, SetAsides, OnlyDamageSetAside, InFile
<1> QED
  BY <1>4, <1>5, <1>6, <1>7

\* Committing the import keeps the store safe: the rows are the entries of the file.
LEMMA ImportCommitKeeps ==
    ASSUME StoreTypeOK, StoreSafe, NEW p \in Processes, ImportCommit(p)
    PROVE  StoreSafe'
<1> USE DEF StoreSafe, fileVars, historyVars, reportVars
<1>1. /\ UNCHANGED <<file, backend, storeLock, quarantined, acked, settledAwards, unsaved>>
      /\ caller[p].pc = "commit" /\ Moves(p, "rename", caller[p].copy)
      /\ table' = table \cup caller[p].copy
  BY GotoMoves DEF ImportCommit, StoreTypeOK
<1>2. caller[p].op = "open" /\ backend = "sqlite" /\ caller[p].copy = InFile
  BY <1>1 DEF OneBackend, Importing, CopyCurrent
<1>3. LockHeld'
  BY <1>1, LockStays DEF Within, Importing, Rewriting
<1>4. OneBackend'
  BY <1>1, <1>2 DEF OneBackend, Moves, Importing, Rewriting
<1>5. CopyCurrent' /\ DamageFound' /\ WorkDone'
  BY <1>1, <1>2 DEF CopyCurrent, DamageFound, WorkDone, InFile, Moves
<1>6. AwardsSafe'
  BY <1>1 DEF AwardsSafe, AwardsOnDisk, SetAsides, OnlyDamageSetAside, InFile
<1> QED
  BY <1>3, <1>4, <1>5, <1>6

\* Renaming the imported file away keeps the store safe: its awards are in the table.
LEMMA ImportRenameKeeps ==
    ASSUME StoreTypeOK, StoreSafe, NEW p \in Processes, ImportRename(p)
    PROVE  StoreSafe'
<1> USE DEF StoreSafe, historyVars, reportVars
<1>1. /\ UNCHANGED <<table, backend, storeLock, quarantined, acked, settledAwards, unsaved>>
      /\ caller[p].pc = "rename" /\ caller[p].pc \in Within
      /\ Moves(p, "unlock", caller[p].copy) /\ file' = NoFile
  BY GotoMoves DEF ImportRename, StoreTypeOK, Within, Importing
<1>2. caller[p].op = "open"
  BY <1>1 DEF OneBackend, Importing
<1>3. LockHeld'
  BY <1>1, LockStays DEF Within, Importing, Rewriting
<1>4. OneBackend'
  BY <1>1 DEF OneBackend, Moves, Importing, Rewriting
<1>5. \A q \in Processes \ {p} : caller'[q].pc \in {"closed", "open", "lock"}
  <2>1. \A q \in Processes \ {p} : caller[q].pc \notin Within
    BY <1>1, <1>2, WriterAlone
  <2>2. \A q \in Processes : caller[q].pc \in StoreSteps
    BY DEF StoreTypeOK, Calls
  <2> QED
    BY <1>1, <2>1, <2>2 DEF Moves, Within, Importing, Rewriting, StoreSteps
<1>6. CopyCurrent' /\ DamageFound' /\ WorkDone'
  BY <1>1, <1>2, <1>5 DEF CopyCurrent, DamageFound, WorkDone, Moves
<1>7. AwardsSafe'
  <2>1. InFile \subseteq table \cup settledAwards
    BY <1>1 DEF WorkDone
  <2> QED
    BY <1>1, <2>1 DEF AwardsSafe, AwardsOnDisk, SetAsides, OnlyDamageSetAside
<1> QED
  BY <1>3, <1>4, <1>6, <1>7

\* A failed import keeps the store safe: the file stays where it was.
LEMMA ImportFailsKeeps ==
    ASSUME StoreTypeOK, StoreSafe, NEW p \in Processes, ImportFails(p)
    PROVE  StoreSafe'
<1> USE DEF StoreSafe, fileVars, reportVars
<1>1. /\ UNCHANGED <<file, table, backend, storeLock, quarantined, acked, settledAwards, unsaved>>
      /\ caller[p].pc \in {"commit", "rename"} /\ Moves(p, "unlock", caller[p].copy)
  BY GotoMoves DEF ImportFails, StoreTypeOK
<1>2. caller[p].op = "open"
  BY <1>1 DEF OneBackend, Importing
<1>3. LockHeld'
  BY <1>1, LockStays DEF Within, Importing, Rewriting
<1>4. OneBackend'
  BY <1>1 DEF OneBackend, Moves, Importing, Rewriting
<1>5. CopyCurrent' /\ DamageFound' /\ WorkDone'
  BY <1>1, <1>2 DEF CopyCurrent, DamageFound, WorkDone, InFile, Moves
<1>6. AwardsSafe'
  BY <1>1 DEF AwardsSafe, AwardsOnDisk, SetAsides, OnlyDamageSetAside, InFile
<1> QED
  BY <1>3, <1>4, <1>5, <1>6

\* Queueing and settling in the table keep the store safe.
LEMMA TableKeeps ==
    ASSUME StoreTypeOK, StoreSafe, NEW p \in Processes, NEW a \in Awards,
           TableQueue(p, a) \/ TableSettle(p, a)
    PROVE  StoreSafe'
<1> USE DEF StoreSafe, fileVars, reportVars
<1>1. /\ UNCHANGED <<file, backend, storeLock, caller, quarantined, unsaved>>
      /\ backend = "sqlite"
      /\ table \cup settledAwards \subseteq table' \cup settledAwards'
      /\ acked' \ settledAwards' \subseteq (acked \ settledAwards) \cup table'
  BY DEF TableQueue, TableSettle
<1>2. LockHeld' /\ OneBackend' /\ CopyCurrent' /\ DamageFound'
  BY <1>1 DEF LockHeld, OneBackend, CopyCurrent, DamageFound, InFile
<1>3. WorkDone'
  BY <1>1 DEF WorkDone, InFile
<1>4. AwardsSafe'
  BY <1>1 DEF AwardsSafe, AwardsOnDisk, SetAsides, OnlyDamageSetAside, InFile
<1> QED
  BY <1>2, <1>3, <1>4

\* The end of a process and damage to the file keep the store safe.
LEMMA FaultsKeep ==
    ASSUME StoreTypeOK, StoreSafe,
           Upgrade \/ Damage \/ \E p \in Processes : ProcessEnds(p)
    PROVE  StoreSafe'
<1> USE DEF StoreSafe, fileVars, historyVars, reportVars
<1>1. CASE Upgrade
  <2>1. /\ UNCHANGED <<file, table, storeLock, caller, quarantined, acked, settledAwards, unsaved>>
        /\ backend' = "sqlite" /\ \A p \in Processes : caller[p].pc = "closed"
    BY <1>1 DEF Upgrade
  <2>2. LockHeld' /\ OneBackend'
    BY <2>1 DEF LockHeld, OneBackend, Importing, Rewriting
  <2>3. CopyCurrent' /\ DamageFound' /\ WorkDone' /\ AwardsSafe'
    BY <2>1 DEF CopyCurrent, DamageFound, WorkDone, AwardsSafe, AwardsOnDisk, SetAsides,
       OnlyDamageSetAside, InFile
  <2> QED
    BY <2>2, <2>3
<1>2. CASE Damage
  <2>1. /\ UNCHANGED <<table, backend, storeLock, caller, quarantined, acked, settledAwards, unsaved>>
        /\ file # NoFile /\ file' = [file EXCEPT !.parses = FALSE]
    BY <1>2 DEF Damage
  <2>2. file' # NoFile /\ ~file'.parses /\ file'.holds = file.holds
    BY <2>1, StoreAssumption DEF StoreTypeOK, StoredFiles
  <2>3. InFile' = InFile
    BY <2>1, <2>2 DEF InFile
  <2>4. LockHeld' /\ OneBackend'
    BY <2>1 DEF LockHeld, OneBackend
  <2>5. CopyCurrent' /\ DamageFound' /\ WorkDone'
    BY <2>1, <2>2, <2>3 DEF CopyCurrent, DamageFound, WorkDone
  <2>6. AwardsSafe'
    BY <2>1, <2>3 DEF AwardsSafe, AwardsOnDisk, SetAsides, OnlyDamageSetAside
  <2> QED
    BY <2>4, <2>5, <2>6
<1>3. ASSUME NEW p \in Processes, ProcessEnds(p)
      PROVE  StoreSafe'
  <2>1. /\ UNCHANGED <<file, table, backend, quarantined, acked, settledAwards, unsaved>>
        /\ caller'[p].pc = "closed" /\ caller'[p].op = "open"
        /\ \A q \in Processes \ {p} : caller'[q] = caller[q]
        /\ storeLock'[p] = "none"
        /\ \A q \in Processes \ {p} : storeLock'[q] = storeLock[q]
    BY <1>3 DEF ProcessEnds, StoreTypeOK, NoCall
  <2>2. LockHeld'
    BY <2>1, LockGoes
  <2>3. OneBackend'
    BY <2>1 DEF OneBackend, Importing, Rewriting
  <2>4. CopyCurrent' /\ DamageFound' /\ WorkDone' /\ AwardsSafe'
    BY <2>1 DEF CopyCurrent, DamageFound, WorkDone, AwardsSafe, AwardsOnDisk, SetAsides,
       OnlyDamageSetAside, InFile
  <2> QED
    BY <2>2, <2>3, <2>4
<1> QED
  BY <1>1, <1>2, <1>3

\* What the service and the menu do about an incident keeps the store safe.
LEMMA OthersKeep ==
    ASSUME StoreSafe,
           \/ ServiceLooks \/ MenuLooks
           \/ \E p \in Processes : Upload(p) \/ MarkReported(p)
           \/ UNCHANGED storeVars
    PROVE  StoreSafe'
<1> UNCHANGED <<file, table, backend, storeLock, caller, quarantined, acked, settledAwards, unsaved>>
  BY DEF ServiceLooks, MenuLooks, Upload, MarkReported, storeVars, fileVars, historyVars
<1> QED
  BY CallsRest

-----------------------------------------------------------------------------
(* The invariant and the first theorem.                                      *)

\* The store is safe when it is first opened.
LEMMA StoreInitially ==
    ASSUME StoreInit
    PROVE  StoreTypeOK /\ StoreSafe
<1> USE DEF StoreInit
<1>1. caller \in [Processes -> Calls] /\ teller \in [Processes -> Reports]
  BY RecordsTyped
<1>2. IsFiniteSet(quarantined)
  BY FS_EmptySet
<1>3. StoreTypeOK
  <2>1. storeLock \in [Processes -> {"none", "shared", "exclusive"}]
    OBVIOUS
  <2>2. storeFaults \in 0..StoreFaults
    BY StoreAssumption
  <2> QED
    BY <1>1, <1>2, <2>1, <2>2 DEF StoreTypeOK
<1>4. \A p \in Processes : caller[p].pc = "closed" /\ caller[p].op = "open"
  BY DEF NoCall
<1>5. LockHeld /\ OneBackend
  BY <1>4 DEF LockHeld, OneBackend, Within, Importing, Rewriting
<1>6. CopyCurrent /\ DamageFound /\ WorkDone
  BY <1>4 DEF CopyCurrent, DamageFound, WorkDone
<1>7. AwardsSafe
  BY DEF AwardsSafe, AwardsOnDisk, SetAsides, OnlyDamageSetAside
<1> QED
  BY <1>3, <1>5, <1>6, <1>7 DEF StoreSafe

\* Every step keeps the store safe.
LEMMA StoreStep ==
    ASSUME StoreTypeOK, StoreSafe, [StoreNext]_storeVars
    PROVE  StoreSafe'
<1>1. "open" \in Ops /\ "read" \in Ops /\ "queue" \in Ops /\ "settle" \in Ops
  BY DEF Ops
<1> QED
  BY <1>1, CallKeeps, TakeStoreLockKeeps, LoadKeeps, SetAsideKeeps, SetAsideFailsKeeps, RecordIncidentKeeps,
     WriteFileKeeps, UnlockKeeps, ImportReadKeeps, ImportCommitKeeps, ImportRenameKeeps,
     ImportFailsKeeps, TableKeeps, FaultsKeep, OthersKeep DEF StoreNext

\* The inductive invariant of the storage: its types, and StoreSafe, which says who may hold
\* the lock, what a caller's copy is worth and where an award that was stored must be.
THEOREM StoreInvariant == StoreSpec => [](StoreTypeOK /\ StoreSafe)
<1>1. StoreInit => StoreTypeOK /\ StoreSafe
  BY StoreInitially
<1>2. StoreTypeOK /\ StoreSafe /\ [StoreNext]_storeVars => (StoreTypeOK /\ StoreSafe)'
  BY StoreTypesStep, StoreStep
<1> QED
  BY <1>1, <1>2, PTL DEF StoreSpec

\* An award whose storing returned is on the disk until it is delivered, unless a damaged file
\* held it and could not be set aside before a write went over it; and only damaged files are
\* set aside (_reload_json_state_unlocked, _quarantine_corrupt_json_unlocked).
THEOREM StoredAwardsSafe == StoreSpec => []AwardsSafe
<1>1. StoreSafe => AwardsSafe
  BY DEF StoreSafe
<1> QED
  BY <1>1, StoreInvariant, PTL

-----------------------------------------------------------------------------
(* The second theorem: what was delivered stays out.                         *)

\* What DeliveredStaysOut says of a step.
StaysOut == settledAwards \cap Held' \subseteq Held \/ leftOver

\* Starting a storage call brings nothing delivered back.
LEMMA CallDelivered ==
    ASSUME StoreTypeOK, StoreSafe, Delivered, NEW p \in Processes, NEW op \in Ops,
           NEW a \in Awards \cup {"none"}, Call(p, op, a)
    PROVE  Delivered' /\ StaysOut
<1> USE DEF StoreSafe, Delivered, historyVars, reportVars
<1>1. /\ caller'[p].pc = "lock" /\ caller'[p].op = op /\ caller'[p].award = a
      /\ \A q \in Processes \ {p} : caller'[q] = caller[q]
      /\ UNCHANGED <<file, table, backend, acked, settledAwards, leftOver>>
  BY DEF Call, StoreTypeOK
<1>2. /\ op = "queue" => p = Service /\ a \notin acked \cup settledAwards
      /\ op = "settle" => a \in acked
  BY DEF Call, Unearned
<1>3. AwardKnown'
  BY <1>1, <1>2 DEF AwardKnown
<1>4. FileGone'
  BY <1>1 DEF FileGone
<1> QED
  BY <1>1, <1>3, <1>4 DEF InFile, Held, StaysOut

\* A step of a call that changes neither the store nor what is known of the awards.
LEMMA GoesOnDelivered ==
    ASSUME Delivered, NEW p \in Processes, NEW pc, NEW copy, Moves(p, pc, copy),
           pc \in {"open", "unlock", "import record"} /\ backend = "sqlite" =>
               file = NoFile \/ leftOver',
           UNCHANGED <<file, table, backend, acked, settledAwards>>,
           leftOver => leftOver'
    PROVE  Delivered' /\ StaysOut
<1> USE DEF Delivered
<1>1. AwardKnown'
  BY DEF AwardKnown, Moves
<1>2. FileGone'
  BY DEF FileGone, Moves
<1> QED
  BY <1>1, <1>2 DEF InFile, Held, StaysOut

\* The steps of a call that do not write the file bring nothing delivered back.
LEMMA FileStepsDelivered ==
    ASSUME StoreTypeOK, StoreSafe, Delivered, NEW p \in Processes,
           \/ TakeStoreLock(p) \/ Load(p) \/ SetAsideFails(p) \/ RecordIncident(p)
           \/ ImportRead(p) \/ ImportFails(p)
    PROVE  Delivered' /\ StaysOut
<1> USE DEF StoreSafe, StoreTypeOK, fileVars, historyVars, reportVars
<1>1. CASE TakeStoreLock(p)
  <2>1. Moves(p, IF backend = "sqlite" THEN "import" ELSE "load", caller[p].copy)
    BY <1>1, GotoMoves DEF TakeStoreLock
  <2>2. UNCHANGED <<file, table, backend, acked, settledAwards, leftOver>>
    BY <1>1 DEF TakeStoreLock
  <2> QED
    BY <2>1, <2>2, GoesOnDelivered
<1>2. CASE Load(p)
  <2>1. Moves(p, "set aside", caller[p].copy) \/ Moves(p, "write", InFile)
    BY <1>2, GotoMoves, CopyMoves DEF Load, InFile
  <2>2. UNCHANGED <<file, table, backend, acked, settledAwards, leftOver>>
    BY <1>2 DEF Load
  <2> QED
    BY <2>1, <2>2, GoesOnDelivered
<1>3. CASE RecordIncident(p)
  <2>1. /\ Moves(p, IF caller[p].pc = "record" THEN "write" ELSE "unlock", caller[p].copy)
        /\ caller[p].pc \in {"record", "import record"}
    BY <1>3, GotoMoves DEF RecordIncident
  <2>2. UNCHANGED <<file, table, backend, acked, settledAwards, leftOver>>
    BY <1>3 DEF RecordIncident
  <2>3. caller[p].pc = "import record" /\ backend = "sqlite" => file = NoFile \/ leftOver
    BY DEF Delivered, FileGone
  <2> QED
    BY <2>1, <2>2, <2>3, GoesOnDelivered
<1>4. CASE ImportRead(p)
  <2>1. \/ file = NoFile /\ Moves(p, "unlock", caller[p].copy)
        \/ Moves(p, "import set aside", caller[p].copy)
        \/ Moves(p, "commit", file.holds)
    BY <1>4, GotoMoves, CopyMoves DEF ImportRead
  <2>2. UNCHANGED <<file, table, backend, acked, settledAwards, leftOver>>
    BY <1>4 DEF ImportRead
  <2> QED
    BY <2>1, <2>2, GoesOnDelivered
<1>5. CASE ImportFails(p)
  <2>1. Moves(p, "unlock", caller[p].copy) /\ leftOver'
    BY <1>5, GotoMoves DEF ImportFails
  <2>2. UNCHANGED <<file, table, backend, acked, settledAwards>>
    BY <1>5 DEF ImportFails
  <2> QED
    BY <2>1, <2>2, GoesOnDelivered
<1>6. CASE SetAsideFails(p)
  <2>1. \/ Moves(p, "write", caller[p].copy) /\ UNCHANGED leftOver
        \/ Moves(p, "unlock", caller[p].copy) /\ leftOver'
    BY <1>6, GotoMoves DEF SetAsideFails
  <2>2. UNCHANGED <<file, table, backend, acked, settledAwards>>
    BY <1>6 DEF SetAsideFails
  <2>3. CASE Moves(p, "write", caller[p].copy) /\ UNCHANGED leftOver
    BY <2>2, <2>3, GoesOnDelivered
  <2>4. CASE Moves(p, "unlock", caller[p].copy) /\ leftOver'
    BY <2>2, <2>4, GoesOnDelivered
  <2> QED
    BY <2>1, <2>3, <2>4
<1> QED
  BY <1>1, <1>2, <1>3, <1>4, <1>5, <1>6

\* Setting the file aside brings nothing delivered back.
LEMMA SetAsideDelivered ==
    ASSUME StoreTypeOK, StoreSafe, Delivered, NEW p \in Processes,
           SetAside(p) \/ ImportRename(p)
    PROVE  Delivered' /\ StaysOut
<1> USE DEF Delivered, historyVars, reportVars
<1>1. /\ file' = NoFile
      /\ UNCHANGED <<table, backend, acked, settledAwards, leftOver>>
      /\ \E pc \in StoreSteps : Goto(p, pc)
  BY DEF SetAside, ImportRename, StoreSteps
<1>2. AwardKnown'
  BY <1>1, GotoMoves DEF StoreTypeOK, AwardKnown, Moves
<1>3. FileGone' /\ InFile' = {}
  BY <1>1 DEF FileGone, InFile
<1> QED
  BY <1>1, <1>2, <1>3 DEF Held, StaysOut

\* Writing the file brings nothing delivered back: the copy written is the file's own, or empty.
LEMMA WriteFileDelivered ==
    ASSUME StoreTypeOK, StoreSafe, Delivered, NEW p \in Processes, WriteFile(p)
    PROVE  Delivered' /\ StaysOut
<1> USE DEF Delivered, historyVars, reportVars
<1>1. /\ UNCHANGED <<table, backend, acked, leftOver>> /\ Moves(p, "unlock", caller[p].copy)
      /\ backend = "json"
  BY GotoMoves DEF WriteFile, StoreTypeOK, StoreSafe, OneBackend, Rewriting
<1>2. FileGone'
  BY <1>1 DEF FileGone
<1>3. settledAwards' = IF caller[p].op = "settle" THEN settledAwards \cup {caller[p].award}
                                                   ELSE settledAwards
  BY DEF WriteFile
<1>4. AwardKnown'
  BY <1>1, <1>3 DEF AwardKnown, Moves
<1>5. \/ InFile' = InFile /\ caller[p].op # "settle"
      \/ InFile' = Written(p) /\ caller[p].copy \subseteq InFile
  <2>1. CASE caller[p].op = "read" \/ (caller[p].op = "open" /\ file # NoFile)
    BY <2>1 DEF WriteFile, InFile
  <2>2. CASE ~(caller[p].op = "read" \/ (caller[p].op = "open" /\ file # NoFile))
    <3>1. caller[p].op \in Ops
      BY DEF StoreTypeOK, Calls
    <3>2. caller[p].copy \subseteq InFile
      BY <2>2, <3>1 DEF WriteFile, StoreSafe, CopyCurrent, Ops
    <3> QED
      BY <2>2, <3>2, FileWritten DEF WriteFile
  <2> QED
    BY <2>1, <2>2
<1>6. settledAwards \cap InFile' \subseteq InFile
  BY <1>5 DEF AwardKnown, Written
<1>7. ~leftOver' => settledAwards' \cap InFile' = {}
  BY <1>1, <1>3, <1>5 DEF AwardKnown, Written
<1> QED
  BY <1>1, <1>2, <1>4, <1>6, <1>7 DEF Held, StaysOut

\* Letting go of the lock brings nothing delivered back.
LEMMA UnlockDelivered ==
    ASSUME StoreTypeOK, StoreSafe, Delivered, NEW p \in Processes, Unlock(p)
    PROVE  Delivered' /\ StaysOut
<1> USE DEF Delivered, fileVars, reportVars
<1>1. /\ UNCHANGED <<file, table, backend, settledAwards, leftOver>>
      /\ caller[p].pc = "unlock"
      /\ caller'[p].pc = "open" /\ caller'[p].op = "open"
      /\ \A q \in Processes \ {p} : caller'[q] = caller[q]
      /\ acked' = IF caller[p].op = "queue" THEN acked \cup {caller[p].award} ELSE acked
  BY DEF Unlock, StoreTypeOK, NoCall
<1>2. AwardKnown'
  BY <1>1 DEF AwardKnown
<1>3. FileGone'
  BY <1>1 DEF FileGone
<1> QED
  BY <1>1, <1>2, <1>3 DEF InFile, Held, StaysOut

\* An import brings nothing delivered back unless an earlier one had failed.
LEMMA ImportCommitDelivered ==
    ASSUME StoreTypeOK, StoreSafe, Delivered, NEW p \in Processes, ImportCommit(p)
    PROVE  Delivered' /\ StaysOut
<1> USE DEF Delivered, fileVars, historyVars, reportVars
<1>1. /\ UNCHANGED <<file, backend, acked, settledAwards, leftOver>>
      /\ caller[p].pc = "commit" /\ Moves(p, "rename", caller[p].copy)
      /\ table' = table \cup caller[p].copy
  BY GotoMoves DEF ImportCommit, StoreTypeOK
<1>2. backend = "sqlite" /\ caller[p].copy = InFile
  BY <1>1 DEF StoreSafe, OneBackend, Importing, CopyCurrent
<1>3. AwardKnown'
  BY <1>1 DEF AwardKnown, Moves
<1>4. FileGone'
  BY <1>1 DEF FileGone, Moves
<1> QED
  BY <1>1, <1>2, <1>3, <1>4 DEF InFile, Held, StaysOut

\* Queueing and settling in the table bring nothing delivered back.
LEMMA TableDelivered ==
    ASSUME StoreTypeOK, StoreSafe, Delivered, NEW p \in Processes, NEW a \in Awards,
           TableQueue(p, a) \/ TableSettle(p, a)
    PROVE  Delivered' /\ StaysOut
<1> USE DEF Delivered, fileVars, reportVars
<1>1. /\ UNCHANGED <<file, backend, caller, leftOver>> /\ backend = "sqlite"
      /\ caller[p].pc = "open"
  BY DEF TableQueue, TableSettle
<1>2. AwardKnown'
  BY <1>1 DEF StoreSafe, OneBackend, AwardKnown
<1>3. FileGone'
  BY <1>1 DEF FileGone
<1>4. ~leftOver' => settledAwards' \cap InFile' = {}
  <2>1. ~leftOver => InFile = {}
    BY <1>1 DEF FileGone, InFile
  <2> QED
    BY <1>1, <2>1 DEF InFile
<1>5. settledAwards \cap table' \subseteq table
  BY DEF TableQueue, TableSettle, Unearned
<1> QED
  BY <1>1, <1>2, <1>3, <1>4, <1>5 DEF Held, StaysOut

\* The upgrade, the reporters, a process's end and damage bring nothing delivered back.
LEMMA OthersDelivered ==
    ASSUME StoreTypeOK, StoreSafe, Delivered,
           \/ Upgrade \/ Damage \/ ServiceLooks \/ MenuLooks
           \/ \E p \in Processes : ProcessEnds(p) \/ Upload(p) \/ MarkReported(p)
           \/ UNCHANGED storeVars
    PROVE  Delivered' /\ StaysOut
<1> USE DEF Delivered, fileVars, historyVars, reportVars
<1>1. CASE Upgrade
  <2>1. /\ UNCHANGED <<file, table, caller, acked, settledAwards, leftOver>>
        /\ backend' = "sqlite" /\ table = {} /\ \A p \in Processes : caller[p].pc = "closed"
    BY <1>1 DEF Upgrade, StoreSafe, OneBackend
  <2>2. AwardKnown' /\ FileGone'
    BY <2>1 DEF AwardKnown, FileGone
  <2> QED
    BY <2>1, <2>2 DEF InFile, Held, StaysOut
<1>2. CASE Damage
  <2>1. /\ UNCHANGED <<table, backend, caller, acked, settledAwards, leftOver>>
        /\ file # NoFile /\ file' = [file EXCEPT !.parses = FALSE]
    BY <1>2 DEF Damage
  <2>2. file' # NoFile /\ file'.holds = file.holds
    BY <2>1, StoreAssumption DEF StoreTypeOK, StoredFiles
  <2>3. InFile' = InFile
    BY <2>1, <2>2 DEF InFile
  <2>4. AwardKnown' /\ FileGone'
    BY <2>1 DEF AwardKnown, FileGone
  <2> QED
    BY <2>1, <2>3, <2>4 DEF Held, StaysOut
<1>3. ASSUME NEW p \in Processes, ProcessEnds(p)
      PROVE  Delivered' /\ StaysOut
  <2>1. /\ UNCHANGED <<file, table, backend, acked, settledAwards, leftOver>>
        /\ caller'[p].pc = "closed" /\ caller'[p].op = "open"
        /\ \A q \in Processes \ {p} : caller'[q] = caller[q]
    BY <1>3 DEF ProcessEnds, StoreTypeOK, NoCall
  <2>2. AwardKnown' /\ FileGone'
    BY <2>1 DEF AwardKnown, FileGone
  <2> QED
    BY <2>1, <2>2 DEF InFile, Held, StaysOut
<1>4. CASE UNCHANGED <<file, table, backend, caller, acked, settledAwards, leftOver>>
  BY <1>4 DEF AwardKnown, FileGone, InFile, Held, StaysOut
<1> QED
  BY <1>1, <1>2, <1>3, <1>4 DEF ServiceLooks, MenuLooks, Upload, MarkReported, storeVars

\* Every step keeps Delivered and brings nothing delivered back.
LEMMA DeliveredStep ==
    ASSUME StoreTypeOK, StoreSafe, Delivered, [StoreNext]_storeVars
    PROVE  Delivered' /\ StaysOut
<1>1. "open" \in Ops /\ "read" \in Ops /\ "queue" \in Ops /\ "settle" \in Ops
  BY DEF Ops
<1> QED
  BY <1>1, CallDelivered, FileStepsDelivered, SetAsideDelivered, WriteFileDelivered,
     UnlockDelivered, ImportCommitDelivered, TableDelivered, OthersDelivered DEF StoreNext

\* An award that was delivered and taken out does not come back from the old file, unless an
\* import had failed.
THEOREM DeliveredStaysAway == StoreSpec => DeliveredStaysOut
<1>1. StoreInit => Delivered
  BY DEF StoreInit, Delivered, AwardKnown, FileGone, InFile, NoCall
<1>2. StoreTypeOK /\ StoreSafe /\ Delivered /\ [StoreNext]_storeVars => Delivered'
  BY DeliveredStep
<1>3. StoreTypeOK /\ StoreSafe /\ Delivered /\ [StoreNext]_storeVars =>
          [settledAwards \cap Held' \subseteq Held \/ leftOver]_storeVars
  BY DeliveredStep DEF StaysOut
<1> QED
  BY <1>1, <1>2, <1>3, StoreInvariant, PTL DEF StoreSpec, DeliveredStaysOut

-----------------------------------------------------------------------------
(* The script on Windows: what it still has at each of its steps.           *)

Updaters ==
  [pc : {"idle", "stop", "move", "copy", "undo", "dropOld", "restart"},
   build : Builds \cup {Absent}, moved : SUBSET Dirs, locked : BOOLEAN]
DirStates == [now : States, old : States]
WinStatuses == [offer : Builds \cup {Absent}, failed : BOOLEAN, age : 0..2]

(* Whatever failed: a directory is whole where the script put it, and what    *)
(* runs, or is about to be stopped, is whole.                               *)
EachSomewhere ==
  /\ NeverHalfDeleted
  /\ (ScriptAt("idle") /\ winRunning # Absent) \/ ScriptAt("stop") => Whole
  /\ ScriptAt("move") \/ ScriptAt("copy") \/ ScriptAt("undo") => \A d \in Dirs :
       IF d \in updater.moved THEN dirs[d].old \in Builds ELSE dirs[d].now \in Builds
  /\ ScriptAt("dropOld") => Whole

(* The old version, if it is one, is what a failure puts back.              *)
OldVersion == \E v \in Builds : \A d \in Dirs :
  IF d \in updater.moved THEN dirs[d].old = v ELSE dirs[d].now = v

(* Where the script stands says how far the two directories are.            *)
MovedSoFar ==
  /\ ScriptAt("idle") \/ ScriptAt("stop") => updater.moved = {}
  /\ ScriptAt("move") => "python" \notin updater.moved
                         /\ \A d \in updater.moved : dirs[d].now = Absent
  /\ ScriptAt("copy") => /\ updater.moved = Dirs /\ dirs["python"].now = Absent
                         /\ dirs["app"].now \in {Absent, updater.build}

(* While at most one thing has failed: one version, at every step.          *)
OneVersion == scriptFaults <= 1 =>
  /\ ScriptAt("idle") /\ Whole => dirs["app"].now = dirs["python"].now
  /\ ScriptAt("stop") \/ ScriptAt("move") \/ ScriptAt("copy") \/ ScriptAt("undo") => OldVersion
  /\ ScriptAt("dropOld") => \A d \in Dirs : dirs[d].now = updater.build
  /\ ScriptAt("restart") => Whole /\ dirs["app"].now = dirs["python"].now

(* There is something to put back only after something failed.              *)
UndoneForAReason == ScriptAt("undo") \/ updater.locked => scriptFaults >= 1

WinInv == WinTypeOK /\ EachSomewhere /\ MovedSoFar /\ OneVersion /\ UndoneForAReason

LEMMA WinTypeParts ==
  ASSUME WinTypeOK
  PROVE  /\ dirs \in [Dirs -> DirStates] /\ updater \in Updaters
         /\ updater.pc = "idle" <=> updater.build = Absent
         /\ scriptFaults \in 0..ScriptFaults /\ ScriptFaults \in Nat /\ LastBuild \in Nat \ {0}
         /\ winRunning \in Builds \cup {Absent} /\ latestBuild \in Builds
         /\ winStatus \in WinStatuses \cup {Absent} /\ winOffer \in Builds \cup {Absent}
BY BuildsAssumption DEF WinTypeOK, DirStates, Updaters, WinStatuses

(* Every step keeps the types.                                              *)
LEMMA WinTypesKept ==
  ASSUME WinTypeOK, MovedSoFar, [WinNext]_winVars
  PROVE  WinTypeOK'
<1> USE DEF ScriptAt, ScriptGoes, StepFails
<1>0. /\ dirs \in [Dirs -> DirStates] /\ updater \in Updaters
      /\ updater.pc = "idle" <=> updater.build = Absent
      /\ scriptFaults \in 0..ScriptFaults /\ ScriptFaults \in Nat /\ LastBuild \in Nat \ {0}
      /\ winRunning \in Builds \cup {Absent} /\ latestBuild \in Builds
      /\ winStatus \in WinStatuses \cup {Absent} /\ winOffer \in Builds \cup {Absent}
  BY WinTypeParts
<1>f. (scriptFaults' = scriptFaults \/
         (scriptFaults < ScriptFaults /\ scriptFaults' = scriptFaults + 1))
      => scriptFaults' \in 0..ScriptFaults
  BY <1>0
<1> DEFINE Others == /\ winRunning' \in Builds \cup {Absent} /\ latestBuild' \in Builds
                     /\ winStatus' \in WinStatuses \cup {Absent}
                     /\ winOffer' \in Builds \cup {Absent}
           Script == /\ dirs' \in [Dirs -> DirStates] /\ updater' \in Updaters
                     /\ updater'.pc = "idle" <=> updater'.build = Absent
<1>1. ASSUME Others, Script, \/ scriptFaults' = scriptFaults
                             \/ scriptFaults < ScriptFaults /\ scriptFaults' = scriptFaults + 1
      PROVE  WinTypeOK'
  BY <1>1, <1>f DEF WinTypeOK, DirStates, Updaters, WinStatuses
<1>2. CASE ReleaseBuild
  <2>1. latestBuild' \in Builds
    BY <1>0, <1>2 DEF ReleaseBuild, Builds
  <2> QED BY <1>0, <1>1, <1>2, <2>1 DEF ReleaseBuild
<1>3. ASSUME NEW force \in BOOLEAN, WinCheck(force) PROVE WinTypeOK'
  <2>1. \A b \in Builds \cup {Absent} : StillNewer(b) \in Builds \cup {Absent}
    BY DEF StillNewer
  <2>2. ASSUME Counts, winOffer' = StillNewer(winStatus.offer), UNCHANGED winStatus
        PROVE  winOffer' \in Builds \cup {Absent} /\ winStatus' \in WinStatuses \cup {Absent}
    <3>1. winStatus.offer \in Builds \cup {Absent}
      BY <1>0, <2>2 DEF Counts, WinStatuses
    <3> QED BY <1>0, <2>1, <2>2, <3>1
  <2>5. ASSUME NEW answered \in BOOLEAN,
               winOffer' = IF answered THEN StillNewer(latestBuild) ELSE Absent,
               winStatus' = [offer |-> winOffer', failed |-> ~answered, age |-> 0]
        PROVE  winOffer' \in Builds \cup {Absent} /\ winStatus' \in WinStatuses \cup {Absent}
    <3>1. winOffer' \in Builds \cup {Absent}
      BY <1>0, <2>1, <2>5
    <3> QED BY <2>5, <3>1 DEF WinStatuses
  <2>3. winOffer' \in Builds \cup {Absent} /\ winStatus' \in WinStatuses \cup {Absent}
    BY <1>3, <2>2, <2>5 DEF WinCheck
  <2> QED BY <1>0, <1>1, <1>3, <2>3 DEF WinCheck
<1>4. CASE WinTimePasses
  <2>1. winStatus' \in WinStatuses
    BY <1>0, <1>4 DEF WinTimePasses, WinStatuses
  <2> QED BY <1>0, <1>1, <1>4, <2>1 DEF WinTimePasses
<1>5. CASE LaunchScript
  <2>1. updater' \in Updaters /\ updater'.pc = "stop" /\ updater'.build = winOffer
    BY <1>0, <1>5 DEF LaunchScript, Resting, Updaters
  <2> QED BY <1>0, <1>1, <1>5, <2>1 DEF LaunchScript
<1>6. CASE StopAll
  <2>1. updater' \in Updaters /\ updater'.pc = "move" /\ updater'.build = updater.build
    BY <1>0, <1>6 DEF StopAll, Updaters
  <2> QED BY <1>0, <1>1, <1>6, <2>1 DEF StopAll
<1>7. ASSUME NEW d \in Dirs, MoveAside(d) PROVE WinTypeOK'
  <2>1. /\ updater' \in Updaters /\ updater'.pc \in {"move", "copy", "undo"}
        /\ updater'.build = updater.build
    <3>1. \/ updater' = [updater EXCEPT !.moved = @ \cup {d},
                                       !.pc = IF d = "python" THEN "copy" ELSE "move"]
          \/ updater' = [updater EXCEPT !.pc = "undo"]
      BY <1>7 DEF MoveAside
    <3>2. updater.moved \cup {d} \in SUBSET Dirs
      BY <1>0 DEF Updaters
    <3>3. CASE updater' = [updater EXCEPT !.pc = "undo"]
      BY <1>0, <3>3 DEF Updaters
    <3>4. CASE updater' = [updater EXCEPT !.moved = @ \cup {d},
                                        !.pc = IF d = "python" THEN "copy" ELSE "move"]
      BY <1>0, <3>2, <3>4 DEF Updaters
    <3> QED BY <3>1, <3>3, <3>4
  <2>2. dirs' \in [Dirs -> DirStates]
    BY <1>0, <1>7 DEF MoveAside, MovedAside, DirStates, States
  <2> QED BY <1>0, <1>1, <1>7, <2>1, <2>2 DEF MoveAside
<1>8. ASSUME NEW d \in Dirs, CopyIn(d) PROVE WinTypeOK'
  <2>1. /\ updater' \in Updaters /\ updater'.pc \in {"dropOld", "copy", "undo"}
        /\ updater'.build = updater.build
    BY <1>0, <1>8 DEF CopyIn, Updaters
  <2>2. dirs' \in [Dirs -> DirStates]
    <3>1. dirs' = [dirs EXCEPT ![d].now = updater.build] \/ dirs' = [dirs EXCEPT ![d].now = Broken]
      BY <1>8 DEF CopyIn
    <3>2. updater.build \in States /\ Broken \in States
      BY <1>0 DEF States, Updaters
    <3> QED BY <1>0, <3>1, <3>2 DEF DirStates
  <2> QED BY <1>0, <1>1, <1>8, <2>1, <2>2 DEF CopyIn
<1>9. ASSUME NEW d \in Dirs, Undo(d) PROVE WinTypeOK'
  <2>1. /\ updater' \in Updaters /\ updater'.pc \in {"undo", "restart"}
        /\ updater'.build = updater.build
    <3>1. \/ updater' = [updater EXCEPT !.moved = @ \ {d}] /\ updater.pc = "undo"
          \/ updater' = [updater EXCEPT !.pc = "restart"]
      BY <1>9 DEF Undo
    <3> QED BY <1>0, <3>1 DEF Updaters
  <2>2. dirs' \in [Dirs -> DirStates]
    BY <1>0, <1>9 DEF Undo, DirStates, States
  <2> QED BY <1>0, <1>1, <1>9, <2>1, <2>2 DEF Undo
<1>10. CASE Undone
  <2>1. updater' \in Updaters /\ updater'.pc = "restart" /\ updater'.build = updater.build
    BY <1>0, <1>10 DEF Undone, Updaters
  <2> QED BY <1>0, <1>1, <1>10, <2>1 DEF Undone
<1>11. CASE DropOld
  <2>1. updater' \in Updaters /\ updater'.pc = "restart" /\ updater'.build = updater.build
    BY <1>0, <1>11 DEF DropOld, Updaters
  <2>2. dirs' \in [Dirs -> DirStates]
    BY <1>0, <1>11 DEF DropOld, DirStates, States
  <2> QED BY <1>0, <1>1, <1>11, <2>1, <2>2 DEF DropOld
<1>12. CASE Restarts \/ WinStops
  <2>1. updater' \in Updaters /\ updater'.pc = "idle" /\ updater'.build = Absent
    <3>1. updater' = Resting
      BY <1>12 DEF Restarts, WinStops
    <3> QED BY <3>1 DEF Resting, Updaters
  <2>2. winRunning' \in Builds \cup {Absent}
    BY <1>12 DEF Restarts, WinStops, Whole
  <2> QED BY <1>0, <1>1, <1>12, <2>1, <2>2 DEF Restarts, WinStops
<1>13. CASE WinStart
  BY <1>0, <1>1, <1>13 DEF WinStart, Whole
<1>14. ASSUME NEW b \in Builds, CopyByHand(b) PROVE WinTypeOK'
  <2>1. dirs' \in [Dirs -> DirStates]
    BY <1>0, <1>14 DEF CopyByHand, DirStates, States
  <2> QED BY <1>0, <1>1, <1>14, <2>1 DEF CopyByHand
<1>15. CASE UNCHANGED winVars
  BY <1>15 DEF winVars, WinTypeOK
<1> QED BY <1>2, <1>3, <1>4, <1>5, <1>6, <1>7, <1>8, <1>9, <1>10, <1>11, <1>12, <1>13, <1>14,
           <1>15 DEF WinNext

(* The parts of the invariant besides the types.                            *)
WinParts == EachSomewhere /\ MovedSoFar /\ OneVersion /\ UndoneForAReason

(* Neither the check for a release nor the clock reaches the folder.        *)
LEMMA LookingKeeps ==
  ASSUME WinInv, UNCHANGED <<dirs, updater, winRunning, scriptFaults>>
  PROVE  WinParts'
BY DEF WinInv, WinParts, EachSomewhere, MovedSoFar, OneVersion, UndoneForAReason, NeverHalfDeleted,
       ScriptAt, Whole, OldVersion


(* Every step of the script, and whatever stops it, leaves the folder safe. *)
LEMMA ScriptKeeps ==
  ASSUME WinInv, [WinNext]_winVars
  PROVE  WinParts'
<1>0. /\ dirs \in [Dirs -> DirStates] /\ updater \in Updaters
      /\ updater.pc = "idle" <=> updater.build = Absent
      /\ scriptFaults \in 0..ScriptFaults /\ ScriptFaults \in Nat
      /\ winRunning \in Builds \cup {Absent} /\ winOffer \in Builds \cup {Absent}
  BY WinTypeParts DEF WinInv
<1>i. EachSomewhere /\ MovedSoFar /\ OneVersion /\ UndoneForAReason /\ scriptFaults \in Nat
  BY <1>0 DEF WinInv
<1>n. scriptFaults \in Nat
  BY <1>0
<1>d. Dirs = {"app", "python"} /\ Broken \notin Builds /\ Absent \notin Builds
  BY BuildsAssumption DEF Dirs
<1> USE DEF ScriptAt, ScriptGoes, StepFails
<1>1. ASSUME \/ ReleaseBuild \/ WinTimePasses \/ UNCHANGED winVars
             \/ \E force \in BOOLEAN : WinCheck(force)
      PROVE  WinParts'
  BY <1>1, LookingKeeps DEF ReleaseBuild, WinTimePasses, WinCheck, winVars
<1>2. CASE LaunchScript
  <2>1. /\ updater.pc = "idle" /\ winRunning # Absent
        /\ updater'.pc = "stop" /\ updater'.moved = {} /\ updater'.locked = FALSE
        /\ UNCHANGED <<dirs, scriptFaults>>
    BY <1>2 DEF LaunchScript, Resting
  <2>2. Whole /\ Whole'
    BY <1>i, <2>1 DEF EachSomewhere, Whole
  <2>3. scriptFaults <= 1 => OldVersion'
    BY <1>d, <1>i, <2>1, <2>2 DEF OneVersion, OldVersion, Whole
  <2> QED BY <1>i, <2>1, <2>2, <2>3
          DEF WinParts, EachSomewhere, NeverHalfDeleted, MovedSoFar, OneVersion, UndoneForAReason
<1>3. CASE StopAll
  <2>1. /\ updater.pc = "stop" /\ updater'.pc = "move" /\ updater'.moved = updater.moved
        /\ UNCHANGED dirs
        /\ \/ updater'.locked = updater.locked /\ scriptFaults' = scriptFaults
           \/ scriptFaults' = scriptFaults + 1
    BY <1>0, <1>3 DEF StopAll, Updaters
  <2>2. updater.moved = {} /\ Whole
    BY <1>i, <2>1 DEF EachSomewhere, MovedSoFar
  <2>3. scriptFaults' <= 1 => OldVersion'
    BY <1>i, <2>1 DEF OneVersion, OldVersion
  <2> QED BY <1>d, <1>i, <2>1, <2>2, <2>3
          DEF WinParts, EachSomewhere, NeverHalfDeleted, MovedSoFar, OneVersion, UndoneForAReason,
              Whole
<1>4. ASSUME NEW d \in Dirs, MoveAside(d) PROVE WinParts'
  <2>0. updater.pc = "move" /\ d \notin updater.moved /\ (d = "python" => "app" \in updater.moved)
    BY <1>4 DEF MoveAside
  <2>1. ASSUME MovedAside(d), UNCHANGED scriptFaults,
               updater' = [updater EXCEPT !.moved = @ \cup {d},
                                        !.pc = IF d = "python" THEN "copy" ELSE "move"]
        PROVE  WinParts'
    <3>1. /\ updater'.pc = (IF d = "python" THEN "copy" ELSE "move")
          /\ updater'.moved = updater.moved \cup {d} /\ (updater'.locked => updater.locked)
          /\ dirs'[d].now = Absent /\ dirs'[d].old = dirs[d].now
          /\ \A e \in Dirs \ {d} : dirs'[e] = dirs[e]
      BY <1>0, <2>1 DEF Updaters, MovedAside, DirStates
    <3>2. EachSomewhere'
      BY <1>i, <2>0, <3>1 DEF EachSomewhere, NeverHalfDeleted
    <3>3. MovedSoFar'
      <4>1. /\ updater.moved \subseteq Dirs /\ "python" \notin updater.moved
            /\ \A e \in updater.moved : dirs[e].now = Absent
        BY <1>0, <1>i, <2>0 DEF Updaters, MovedSoFar
      <4>2. CASE d = "python"
        <5>1. updater'.moved = Dirs /\ dirs'["python"].now = Absent /\ dirs'["app"].now = Absent
          BY <1>d, <2>0, <3>1, <4>1, <4>2
        <5> QED BY <3>1, <4>2, <5>1 DEF MovedSoFar
      <4>3. CASE d = "app"
        BY <1>d, <3>1, <4>1, <4>3 DEF MovedSoFar
      <4> QED BY <1>d, <4>2, <4>3
    <3>4. scriptFaults <= 1 => OldVersion'
      BY <1>i, <2>0, <3>1 DEF OneVersion, OldVersion
    <3> QED BY <1>i, <2>0, <2>1, <3>1, <3>2, <3>3, <3>4
            DEF WinParts, OneVersion, UndoneForAReason
  <2>2. ASSUME updater' = [updater EXCEPT !.pc = "undo"], dirs' = dirs,
               \/ updater.locked /\ scriptFaults' = scriptFaults
               \/ scriptFaults' = scriptFaults + 1
        PROVE  WinParts'
    <3>1. /\ updater'.pc = "undo" /\ updater'.moved = updater.moved
          /\ (updater'.locked => updater.locked)
      BY <1>0, <2>2 DEF Updaters
    <3>2. scriptFaults' <= 1 => OldVersion'
      BY <1>i, <2>0, <2>2, <3>1 DEF OneVersion, OldVersion
    <3>3. UndoneForAReason'
      BY <1>i, <2>2, <3>1 DEF UndoneForAReason
    <3> QED BY <1>i, <2>0, <2>2, <3>1, <3>2, <3>3
            DEF WinParts, EachSomewhere, NeverHalfDeleted, MovedSoFar, OneVersion
  <2> QED BY <1>4, <2>1, <2>2 DEF MoveAside
<1>5. ASSUME NEW d \in Dirs, CopyIn(d) PROVE WinParts'
  <2>0. /\ updater.pc = "copy" /\ updater.moved = Dirs /\ dirs[d].now = Absent
        /\ (d = "python" => dirs["app"].now = updater.build) /\ updater.build \in Builds
        /\ \A e \in Dirs : dirs[e].old \in Builds
    BY <1>0, <1>5, <1>i DEF CopyIn, MovedSoFar, EachSomewhere, Updaters
  <2>1. ASSUME dirs' = [dirs EXCEPT ![d].now = updater.build], UNCHANGED scriptFaults,
               updater' = [updater EXCEPT !.pc = IF d = "python" THEN "dropOld" ELSE "copy"]
        PROVE  WinParts'
    <3>1. /\ updater'.pc = (IF d = "python" THEN "dropOld" ELSE "copy")
          /\ updater'.moved = updater.moved /\ (updater'.locked => updater.locked)
          /\ updater'.build = updater.build
          /\ dirs'[d].now = updater.build /\ dirs'[d].old = dirs[d].old
          /\ \A e \in Dirs \ {d} : dirs'[e] = dirs[e]
      BY <1>0, <2>1 DEF Updaters, DirStates
    <3>2. d = "python" => Whole' /\ \A e \in Dirs : dirs'[e].now = updater.build
      BY <1>d, <2>0, <3>1 DEF Whole
    <3>3. EachSomewhere'
      BY <2>0, <3>1, <3>2 DEF EachSomewhere, NeverHalfDeleted
    <3>4. MovedSoFar'
      BY <1>d, <1>i, <2>0, <3>1 DEF MovedSoFar
    <3>5. scriptFaults <= 1 => OldVersion'
      <4> SUFFICES ASSUME scriptFaults <= 1 PROVE OldVersion'
        OBVIOUS
      <4>1. PICK v \in Builds : \A e \in Dirs : dirs[e].old = v
        BY <1>i, <2>0 DEF OneVersion, OldVersion
      <4>2. \A e \in Dirs : dirs'[e].old = v
        BY <3>1, <4>1
      <4> QED BY <2>0, <3>1, <4>2 DEF OldVersion
    <3>6. OneVersion'
      BY <2>1, <3>1, <3>2, <3>5 DEF OneVersion
    <3>7. UndoneForAReason'
      BY <1>i, <2>1, <3>1 DEF UndoneForAReason
    <3> QED BY <3>3, <3>4, <3>6, <3>7 DEF WinParts
  <2>2. ASSUME dirs' = [dirs EXCEPT ![d].now = Broken], scriptFaults' = scriptFaults + 1,
               updater' = [updater EXCEPT !.pc = "undo"]
        PROVE  WinParts'
    <3>1. /\ updater'.pc = "undo" /\ updater'.moved = updater.moved
          /\ \A e \in Dirs : dirs'[e].old = dirs[e].old
      BY <1>0, <2>2 DEF Updaters, DirStates
    <3>2. scriptFaults' <= 1 => OldVersion'
      BY <1>i, <2>0, <2>2, <3>1 DEF OneVersion, OldVersion
    <3> QED BY <1>i, <2>0, <2>2, <3>1, <3>2
            DEF WinParts, EachSomewhere, NeverHalfDeleted, MovedSoFar, OneVersion, UndoneForAReason
  <2> QED BY <1>5, <2>1, <2>2 DEF CopyIn
<1>6. ASSUME NEW d \in Dirs, Undo(d) PROVE WinParts'
  <2>0. /\ updater.pc = "undo" /\ d \in updater.moved /\ scriptFaults >= 1
        /\ \A e \in Dirs :
             IF e \in updater.moved THEN dirs[e].old \in Builds ELSE dirs[e].now \in Builds
    BY <1>6, <1>i DEF Undo, UndoneForAReason, EachSomewhere
  <2>1. ASSUME dirs' = [dirs EXCEPT ![d] = [now |-> dirs[d].old, old |-> Absent]],
               updater' = [updater EXCEPT !.moved = @ \ {d}], UNCHANGED scriptFaults
        PROVE  WinParts'
    <3>1. /\ updater'.pc = "undo" /\ updater'.moved = updater.moved \ {d}
          /\ dirs'[d].now = dirs[d].old
          /\ \A e \in Dirs \ {d} : dirs'[e] = dirs[e]
      BY <1>0, <2>0, <2>1 DEF Updaters, DirStates
    <3>2. EachSomewhere'
      BY <2>0, <3>1 DEF EachSomewhere, NeverHalfDeleted
    <3>3. scriptFaults <= 1 => OldVersion'
      <4> SUFFICES ASSUME scriptFaults <= 1 PROVE OldVersion'
        OBVIOUS
      <4>1. PICK v \in Builds : \A e \in Dirs :
              IF e \in updater.moved THEN dirs[e].old = v ELSE dirs[e].now = v
        BY <1>i, <2>0 DEF OneVersion, OldVersion
      <4> QED BY <2>0, <3>1, <4>1 DEF OldVersion
    <3> QED BY <2>0, <2>1, <3>1, <3>2, <3>3
            DEF WinParts, MovedSoFar, OneVersion, UndoneForAReason
  <2>2. ASSUME NEW gone \in {Broken, Absent}, dirs' = [dirs EXCEPT ![d].now = gone],
               scriptFaults' = scriptFaults + 1, updater' = [updater EXCEPT !.pc = "restart"]
        PROVE  WinParts'
    <3>1. /\ updater'.pc = "restart" /\ dirs'[d].old = dirs[d].old
          /\ \A e \in Dirs \ {d} : dirs'[e] = dirs[e]
      BY <1>0, <2>2 DEF Updaters, DirStates
    <3>2. EachSomewhere'
      BY <2>0, <3>1 DEF EachSomewhere, NeverHalfDeleted
    <3>3. scriptFaults' > 1
      BY <1>i, <2>0, <2>2
    <3> QED BY <1>i, <2>0, <2>2, <3>1, <3>2, <3>3
            DEF WinParts, MovedSoFar, OneVersion, UndoneForAReason
  <2>3. \/ /\ dirs' = [dirs EXCEPT ![d] = [now |-> dirs[d].old, old |-> Absent]]
           /\ updater' = [updater EXCEPT !.moved = @ \ {d}] /\ UNCHANGED scriptFaults
        \/ /\ \E gone \in {Broken, Absent} : dirs' = [dirs EXCEPT ![d].now = gone]
           /\ scriptFaults' = scriptFaults + 1 /\ updater' = [updater EXCEPT !.pc = "restart"]
    BY <1>6 DEF Undo, StepFails, ScriptGoes
  <2> QED BY <2>1, <2>2, <2>3
<1>7. CASE Undone
  <2>1. /\ updater.pc = "undo" /\ updater.moved = {} /\ updater'.pc = "restart"
        /\ updater'.locked = updater.locked /\ dirs' = dirs /\ scriptFaults' = scriptFaults
    BY <1>0, <1>7 DEF Undone, Updaters
  <2>2. scriptFaults <= 1 => Whole' /\ dirs'["app"].now = dirs'["python"].now
    BY <1>d, <1>i, <2>1 DEF OneVersion, OldVersion, Whole
  <2> QED BY <1>i, <2>1, <2>2
          DEF WinParts, EachSomewhere, NeverHalfDeleted, MovedSoFar, OneVersion, UndoneForAReason
<1>8. CASE DropOld
  <2>1. /\ updater.pc = "dropOld" /\ updater'.pc = "restart"
        /\ updater'.locked => updater.locked
        /\ scriptFaults' = scriptFaults \/ scriptFaults' = scriptFaults + 1
    BY <1>0, <1>8 DEF DropOld, Updaters
  <2>2. \A d \in Dirs : dirs'[d].now = dirs[d].now
    <3>1. CASE dirs' = [d \in Dirs |-> [dirs[d] EXCEPT !.old = Absent]]
      BY <1>0, <3>1 DEF DirStates
    <3>2. CASE \E d \in Dirs : dirs' = [dirs EXCEPT ![d].old = Absent]
      BY <1>0, <3>2 DEF DirStates
    <3> QED BY <1>8, <3>1, <3>2 DEF DropOld
  <2>3. Whole' /\ NeverHalfDeleted'
    BY <1>d, <1>i, <2>1, <2>2 DEF EachSomewhere, Whole, NeverHalfDeleted
  <2>4. scriptFaults' <= 1 => dirs'["app"].now = dirs'["python"].now
    <3> SUFFICES ASSUME scriptFaults' <= 1 PROVE dirs'["app"].now = dirs'["python"].now
      OBVIOUS
    <3>1. scriptFaults <= 1
      BY <1>n, <2>1
    <3>2. \A d \in Dirs : dirs[d].now = updater.build
      BY <1>i, <2>1, <3>1 DEF OneVersion
    <3> QED BY <1>d, <2>2, <3>2
  <2>5. UndoneForAReason'
    BY <1>i, <2>1 DEF UndoneForAReason
  <2>6. OneVersion'
    BY <2>1, <2>3, <2>4 DEF OneVersion
  <2> QED BY <2>1, <2>3, <2>5, <2>6 DEF WinParts, EachSomewhere, MovedSoFar
<1>9. CASE Restarts \/ WinStops
  <2>1. /\ updater'.pc = "idle" /\ updater'.moved = {} /\ updater'.locked = FALSE
        /\ dirs' = dirs
        /\ winRunning' # Absent => Whole
        /\ \/ (updater.pc = "idle" \/ updater.pc = "restart") /\ scriptFaults' = scriptFaults
           \/ updater.pc # "idle" /\ scriptFaults' = scriptFaults + 1
    BY <1>9 DEF Restarts, WinStops, Resting
  <2>2. ASSUME scriptFaults' <= 1, Whole PROVE dirs["app"].now = dirs["python"].now
    <3>0. scriptFaults <= 1 /\ (scriptFaults = 1 => updater.pc \in {"idle", "restart"})
      BY <1>i, <2>1, <2>2
    <3>1. CASE updater.pc \in {"idle", "restart"}
      BY <1>i, <3>0, <3>1, <2>2 DEF OneVersion
    <3>2. CASE updater.pc = "stop"
      BY <1>d, <1>i, <3>0, <3>2 DEF OneVersion, OldVersion, MovedSoFar
    <3>3. CASE updater.pc = "move"
      BY <1>d, <1>i, <2>2, <3>0, <3>3 DEF OneVersion, OldVersion, MovedSoFar, Whole
    <3>4. CASE updater.pc = "copy"
      BY <1>d, <1>i, <2>2, <3>4 DEF MovedSoFar, Whole
    <3>5. CASE updater.pc = "undo"
      BY <1>i, <3>0, <3>5 DEF UndoneForAReason
    <3>6. CASE updater.pc = "dropOld"
      <4>1. \A d \in Dirs : dirs[d].now = updater.build
        BY <1>i, <3>0, <3>6 DEF OneVersion
      <4> QED BY <1>d, <4>1
    <3> QED BY <1>0, <3>1, <3>2, <3>3, <3>4, <3>5, <3>6 DEF Updaters
  <2> QED BY <1>i, <2>1, <2>2
          DEF WinParts, EachSomewhere, NeverHalfDeleted, MovedSoFar, OneVersion, UndoneForAReason,
              Whole
<1>10. CASE WinStart
  <2>1. updater.pc = "idle" /\ Whole /\ UNCHANGED <<dirs, updater, scriptFaults>>
    BY <1>10 DEF WinStart
  <2> QED BY <1>i, <2>1
          DEF WinParts, EachSomewhere, NeverHalfDeleted, MovedSoFar, OneVersion, UndoneForAReason,
              Whole
<1>11. ASSUME NEW b \in Builds, CopyByHand(b) PROVE WinParts'
  <2>1. /\ updater.pc = "idle" /\ winRunning = Absent
        /\ UNCHANGED <<updater, winRunning, scriptFaults>>
        /\ \A d \in Dirs : dirs'[d].now = b
    BY <1>0, <1>11 DEF CopyByHand, DirStates
  <2> QED BY <1>d, <1>i, <2>1 DEF WinParts, EachSomewhere, NeverHalfDeleted, MovedSoFar, OneVersion,
              UndoneForAReason, Whole
<1> QED BY <1>1, <1>2, <1>3, <1>4, <1>5, <1>6, <1>7, <1>8, <1>9, <1>10, <1>11 DEF WinNext

(* The invariant holds at every state.                                      *)
LEMMA WinInvariant == WinSpec => []WinInv
<1>1. WinInit => WinInv
  <2> SUFFICES ASSUME WinInit PROVE WinInv
    OBVIOUS
  <2>1. 1 \in Builds /\ 0 \in 0..ScriptFaults /\ Dirs = {"app", "python"}
    BY BuildsAssumption DEF Builds, Dirs
  <2>2. updater.pc = "idle" /\ updater.build = Absent /\ updater.moved = {}
        /\ updater.locked = FALSE /\ updater \in Updaters
    BY DEF WinInit, Resting, Updaters
  <2>3. /\ \A d \in Dirs : dirs[d].now = 1
        /\ dirs \in [Dirs -> DirStates]
    BY <2>1 DEF WinInit, DirStates, States
  <2>4. WinTypeOK
    BY <2>1, <2>2, <2>3 DEF WinInit, WinTypeOK, DirStates, Updaters
  <2> QED BY <2>1, <2>2, <2>3, <2>4
          DEF WinInit, WinInv, EachSomewhere, NeverHalfDeleted, MovedSoFar, OneVersion,
              UndoneForAReason, Whole, ScriptAt
<1>2. WinInv /\ [WinNext]_winVars => WinInv'
  BY WinTypesKept, ScriptKeeps DEF WinInv, WinParts
<1> QED BY <1>1, <1>2, PTL DEF WinSpec

(* Every variable of the update on Windows keeps to its type.               *)
THEOREM WinTyped == WinSpec => []WinTypeOK
<1>1. WinInv => WinTypeOK
  BY DEF WinInv
<1> QED BY <1>1, WinInvariant, PTL

(* The script of the update leaves a folder that starts (UPDATER_SCRIPT):     *)
(* whatever fails, however often, both directories are whole somewhere, and   *)
(* after one failure what starts is one version.                             *)
THEOREM FolderStarts == WinSpec => []FolderSafe
<1>1. WinInv => FolderSafe
  BY DEF WinInv, FolderSafe, OneVersionStarts, EachSomewhere, OneVersion
<1> QED BY <1>1, WinInvariant, PTL

-----------------------------------------------------------------------------
(* The update of the handhelds: what the installer still has.               *)

Installers ==
  [pc : {"idle", "extract", "swapOut", "swapIn", "setAside", "dropShipped", "putData", "rescue",
         "discard", "putBack", "tidy"},
   target : Versions \cup {NoVersion}, keep : BOOLEAN, raised : BOOLEAN]

(* A directory with a whole version in it.                                  *)
WholeTree(tree) == tree # NoDir /\ tree.ver # NoVersion

(* What the steps between two of them leave of each other's preconditions:    *)
(* the version that is installed, and an error once something was raised.    *)
Progress ==
  /\ running = NoVersion => InstallerAt("idle") /\ offer = NoVersion
  /\ ~InstallerAt("idle") => installer.target \in Versions
  /\ InstallerAt("swapOut") \/ InstallerAt("swapIn") =>
       staged # NoDir /\ staged.ver = installer.target /\ staged.data \in {"none", "shipped"}
  /\ InstallerAt("setAside") \/ InstallerAt("dropShipped") \/ InstallerAt("putData")
       \/ (InstallerAt("tidy") /\ ~installer.raised) => WholeTree(app)
  /\ InstallerAt("setAside") \/ InstallerAt("dropShipped") \/ InstallerAt("putData")
       \/ InstallerAt("rescue") \/ InstallerAt("discard") => backup # NoDir
  /\ InstallerAt("dropShipped") \/ InstallerAt("putData") =>
       preserved # NoDir /\ backup.data = "none"
  /\ InstallerAt("rescue") /\ preserved # NoDir => backup.data = "none"
  /\ InstallerAt("rescue") \/ InstallerAt("discard") \/ InstallerAt("putBack") =>
       installer.raised
  /\ installer.raised => mishaps.failed >= 1
  /\ installer.raised => InstallerAt("rescue") \/ InstallerAt("discard") \/ InstallerAt("putBack")
                           \/ InstallerAt("tidy")
  /\ InstallerAt("extract") \/ InstallerAt("swapOut") \/ InstallerAt("swapIn")
       \/ InstallerAt("setAside") => preserved = NoDir
  /\ InstallerAt("setAside") \/ InstallerAt("dropShipped") \/ InstallerAt("putData") =>
       installer.keep

(* Where the user's data are at each step of an install that nothing, or one   *)
(* failed call, has disturbed - unless x gave them up.                       *)
DataHeld(x) ==
  \/ x
  \/ /\ InstallerAt("idle") \/ InstallerAt("extract") \/ InstallerAt("swapOut") => HasData(app)
     /\ InstallerAt("swapIn") \/ InstallerAt("setAside") \/ InstallerAt("discard")
          \/ InstallerAt("putBack") => HasData(backup)
     /\ InstallerAt("dropShipped") \/ InstallerAt("putData") => preserved = "mine"
     /\ InstallerAt("rescue") => HasData(backup) \/ preserved = "mine"
     /\ InstallerAt("putBack") => app = NoDir
     /\ InstallerAt("tidy") =>
          HasData(app) \/ (HasData(backup) /\ ~installer.raised /\ ~installer.keep)

(* And where the version is that is put back.                               *)
VersionHeld ==
  /\ InstallerAt("idle") \/ InstallerAt("extract") \/ InstallerAt("swapOut")
       \/ InstallerAt("tidy") => WholeTree(app)
  /\ InstallerAt("swapIn") \/ InstallerAt("setAside") \/ InstallerAt("dropShipped")
       \/ InstallerAt("putData") \/ InstallerAt("rescue") \/ InstallerAt("discard")
       \/ InstallerAt("putBack") => WholeTree(backup)
  /\ InstallerAt("putBack") => app = NoDir

(* An install without a crash, and at most one failed call.                  *)
Undisturbed ==
  mishaps.crashed = 0 /\ mishaps.failed <= 1 => DataHeld(dropped) /\ VersionHeld

(* At most one failed call or crash so far: the data are where the install     *)
(* holds them, or where it was cut short.                                   *)
DataSaved == mishaps.failed + mishaps.crashed <= 1 =>
  IF InstallerAt("idle") THEN DataSomewhere ELSE DataHeld(dropped \/ abandoned)

(* Of any releases that are published, one is the newest.                    *)
NewestOf(S) == \E v \in S : \A w \in S : ~NewerThan(w, v)
SomeNewest == \A S \in SUBSET published : S # {} => NewestOf(S)

UpdateInv == UpdateTypeOK /\ Progress /\ Undisturbed /\ DataSaved /\ SomeNewest /\ OfferIsNewer

(* What the types say of each variable.                                     *)
LEMMA UpdateTypeParts ==
  ASSUME UpdateTypeOK
  PROVE  /\ layout \in {"onion", "muos"} /\ app \in Trees \cup {NoDir}
         /\ backup \in Trees \cup {NoDir} /\ staged \in Trees \cup {NoDir}
         /\ preserved \in DataValues \cup {NoDir} /\ installer \in Installers
         /\ running \in Versions \cup {NoVersion} /\ published \subseteq Versions
         /\ status \in Statuses \cup {NoVersion} /\ offer \in Versions \cup {NoVersion}
         /\ mishaps \in [failed : Nat, crashed : Nat]
         /\ mishaps.failed \in Nat /\ mishaps.crashed \in Nat
BY DEF UpdateTypeOK, Installers

(* A failed call is counted.                                                *)
LEMMA FailureCounted ==
  ASSUME UpdateTypeOK, CallFails
  PROVE  /\ mishaps' \in [failed : Nat, crashed : Nat]
         /\ mishaps'.failed = mishaps.failed + 1 /\ mishaps'.crashed = mishaps.crashed
BY UpdateTypeParts DEF CallFails

(* A directory keeps to its type when its data change, or a call tears it.    *)
LEMMA TreeFields ==
  ASSUME NEW tree \in Trees
  PROVE  /\ tree.ver \in Versions \cup {NoVersion} /\ tree.data \in DataValues /\ tree # NoDir
         /\ Torn(tree) \in Trees /\ Torn(tree).data = tree.data
         /\ \A d \in DataValues : /\ [tree EXCEPT !.data = d] \in Trees
                                  /\ [tree EXCEPT !.data = d].ver = tree.ver
                                  /\ [tree EXCEPT !.data = d].data = d
BY VersionsAssumption DEF Trees, Torn

(* What a new directory holds.                                              *)
LEMMA NewTree ==
  ASSUME NEW v \in Versions \cup {NoVersion}, NEW d \in DataValues
  PROVE  Tree(v, d) \in Trees /\ Tree(v, d).ver = v /\ Tree(v, d).data = d /\ Tree(v, d) # NoDir
BY VersionsAssumption DEF Trees, Tree

(* The newest release that may be offered, if there is one, is published and    *)
(* newer than what runs.                                                     *)
LEMMA LatestIsNewer ==
  ASSUME published \subseteq Versions, SomeNewest, NEW nightlies \in BOOLEAN
  PROVE  \/ LatestRelease(nightlies) = NoVersion
         \/ /\ LatestRelease(nightlies) \in Versions
            /\ NewerThan(LatestRelease(nightlies), running)
<1>1. CASE Newer(nightlies) = {}
  BY <1>1 DEF LatestRelease
<1>2. CASE Newer(nightlies) # {}
  <2>1. Newer(nightlies) \subseteq published
    BY DEF Newer
  <2>2. \E v \in Newer(nightlies) : \A w \in Newer(nightlies) : ~NewerThan(w, v)
    BY <1>2, <2>1 DEF SomeNewest, NewestOf
  <2>3. LatestRelease(nightlies) \in Newer(nightlies)
    BY <1>2, <2>2 DEF LatestRelease
  <2> QED BY <2>1, <2>3 DEF Newer
<1> QED BY <1>1, <1>2

(* Any releases still have a newest when one more is published.              *)
LEMMA NewestKept ==
  ASSUME published \subseteq Versions, SomeNewest, NEW v \in Versions
  PROVE  \A S \in SUBSET (published \cup {v}) : S # {} => NewestOf(S)
<1> SUFFICES ASSUME NEW S \in SUBSET (published \cup {v}), S # {} PROVE NewestOf(S)
  OBVIOUS
<1>1. \A u \in Versions : u.major \in Nat /\ u.minor \in Nat /\ u.nightly \in Int
  BY VersionsAssumption
<1>2. CASE v \notin S
  BY <1>2 DEF SomeNewest
<1>3. CASE S = {v}
  BY <1>1, <1>3 DEF NewestOf, NewerThan
<1>4. CASE v \in S /\ S # {v}
  <2>1. S \ {v} \in SUBSET published /\ S \ {v} # {}
    BY <1>4
  <2>2. PICK u \in S \ {v} : \A w \in S \ {v} : ~NewerThan(w, u)
    BY <2>1 DEF SomeNewest, NewestOf
  <2>3. \A w \in S : w \in Versions
    BY <2>1
  <2>4. CASE NewerThan(v, u)
    <3>1. \A w \in S : ~NewerThan(w, v)
      BY <1>1, <2>2, <2>3, <2>4, <1>4 DEF NewerThan
    <3> QED BY <1>4, <3>1 DEF NewestOf
  <2>5. CASE ~NewerThan(v, u)
    BY <2>2, <2>5 DEF NewestOf
  <2> QED BY <2>4, <2>5
<1> QED BY <1>2, <1>3, <1>4

(* What an install rests on besides the types.                              *)
InstallParts == Progress /\ Undisturbed /\ DataSaved

(* Looking for releases leaves the directories alone.                        *)
LEMMA LookingKeepsInstall ==
  ASSUME UpdateInv, UNCHANGED <<installVars, mishaps, abandoned, dropped>>,
         running' = running, running = NoVersion => offer' = NoVersion
  PROVE  InstallParts'
BY DEF UpdateInv, InstallParts, installVars, Progress, Undisturbed, DataSaved, DataHeld,
       VersionHeld, DataSomewhere, HasData, InstallerAt, WholeTree

(* Each step of the installer, done or failed, keeps its part.               *)
LEMMA InstallerKeeps ==
  ASSUME UpdateInv,
         \/ BeginInstall \/ Extract \/ SwapOut \/ SwapIn \/ SetDataAside \/ DropShipped \/ PutData
         \/ RescueData \/ DiscardNew \/ PutBack
  PROVE  /\ InstallParts'
         /\ app' \in Trees \cup {NoDir} /\ backup' \in Trees \cup {NoDir}
         /\ staged' \in Trees \cup {NoDir} /\ preserved' \in DataValues \cup {NoDir}
         /\ installer' \in Installers /\ mishaps' \in [failed : Nat, crashed : Nat]
         /\ abandoned' \in BOOLEAN
<1>0. /\ layout \in {"onion", "muos"} /\ app \in Trees \cup {NoDir}
      /\ backup \in Trees \cup {NoDir} /\ staged \in Trees \cup {NoDir}
      /\ preserved \in DataValues \cup {NoDir} /\ installer \in Installers
      /\ running \in Versions \cup {NoVersion} /\ offer \in Versions \cup {NoVersion}
      /\ mishaps \in [failed : Nat, crashed : Nat]
      /\ mishaps.failed \in Nat /\ mishaps.crashed \in Nat
      /\ abandoned \in BOOLEAN
  BY UpdateTypeParts DEF UpdateInv, UpdateTypeOK
<1>i. Progress /\ Undisturbed /\ DataSaved /\ UpdateTypeOK
  BY DEF UpdateInv
<1>c. /\ NoVersion \notin Versions /\ NoDir \notin DataValues
      /\ "none" \in DataValues /\ "shipped" \in DataValues /\ "mine" \in DataValues
  BY VersionsAssumption DEF DataValues
<1> DEFINE Typed == /\ app' \in Trees \cup {NoDir} /\ backup' \in Trees \cup {NoDir}
                    /\ staged' \in Trees \cup {NoDir} /\ preserved' \in DataValues \cup {NoDir}
                    /\ installer' \in Installers /\ mishaps' \in [failed : Nat, crashed : Nat]
                    /\ abandoned' \in BOOLEAN
           SameMishaps == mishaps' = mishaps
           OneMore == mishaps'.failed = mishaps.failed + 1 /\ mishaps'.crashed = mishaps.crashed
<1> USE DEF InstallerAt
<1>1. CASE BeginInstall
  <2>0. /\ installer.pc = "idle" /\ running # NoVersion /\ offer \in Versions
        /\ UNCHANGED <<app, running, dropped>>
    BY <1>0, <1>1 DEF BeginInstall
  <2>1. CASE /\ backup' = NoDir /\ staged' = NoDir /\ preserved' = NoDir
             /\ installer' = [Standing EXCEPT !.pc = "extract", !.target = offer]
             /\ abandoned' = (abandoned \/ Leftovers) /\ UNCHANGED mishaps
    <3>1. /\ installer'.pc = "extract" /\ installer'.target = offer /\ installer'.raised = FALSE
          /\ installer' \in Installers
      BY <2>0, <2>1 DEF Standing, Installers
    <3>2. Progress'
      BY <2>0, <2>1, <3>1 DEF Progress
    <3>3. Undisturbed'
      BY <1>i, <2>0, <2>1, <3>1 DEF Undisturbed, DataHeld, VersionHeld, HasData, WholeTree
    <3>4. DataSaved'
      BY <1>i, <2>0, <2>1, <3>1, <1>c DEF DataSaved, DataSomewhere, DataHeld, HasData, Leftovers
    <3> QED BY <1>0, <2>0, <2>1, <3>1, <3>2, <3>3, <3>4 DEF InstallParts
  <2>2. CASE CallFails /\ UNCHANGED <<backup, staged, preserved, installer, abandoned>>
    <3>1. OneMore /\ Typed
      BY <1>0, <1>i, <2>0, <2>2, FailureCounted
    <3>2. Progress'
      BY <1>0, <1>i, <2>0, <2>2, <3>1 DEF Progress, WholeTree
    <3>3. Undisturbed'
      BY <1>0, <1>i, <2>0, <2>2, <3>1 DEF Undisturbed, DataHeld, VersionHeld, HasData, WholeTree
    <3>4. DataSaved'
      BY <1>0, <1>i, <2>0, <2>2, <3>1 DEF DataSaved, DataSomewhere, HasData
    <3> QED BY <3>1, <3>2, <3>3, <3>4 DEF InstallParts
  <2> QED BY <1>1, <2>1, <2>2 DEF BeginInstall
<1>2. CASE Extract
  <2>0. /\ installer.pc = "extract"
        /\ UNCHANGED <<app, backup, preserved, running, abandoned, dropped>>
        /\ running # NoVersion /\ installer.target \in Versions
    BY <1>2, <1>i DEF Extract, Progress
  <2>1. ASSUME NEW brought \in {"none", "shipped"}, NEW known \in BOOLEAN,
               staged' = Tree(installer.target, brought), UNCHANGED mishaps,
               installer' = [installer EXCEPT !.pc = "swapOut", !.keep = KeepsData(known)]
        PROVE  InstallParts' /\ Typed
    <3>1. /\ installer'.pc = "swapOut" /\ installer'.target = installer.target
          /\ installer'.raised = installer.raised /\ installer' \in Installers
      BY <1>0, <2>1 DEF Installers, KeepsData
    <3>2. staged' \in Trees /\ staged' # NoDir /\ staged'.ver = installer.target
          /\ staged'.data \in {"none", "shipped"}
      BY <1>c, <2>0, <2>1, NewTree
    <3>3. Progress'
      BY <1>i, <2>0, <2>1, <3>1, <3>2 DEF Progress
    <3>4. Undisturbed'
      BY <1>i, <2>0, <2>1, <3>1 DEF Undisturbed, DataHeld, VersionHeld, HasData, WholeTree
    <3>5. DataSaved'
      BY <1>i, <2>0, <2>1, <3>1 DEF DataSaved, DataHeld, HasData
    <3> QED BY <1>0, <2>0, <2>1, <3>1, <3>2, <3>3, <3>4, <3>5 DEF InstallParts
  <2>2. ASSUME CallFails, GivesUp, staged' = Torn(Tree(installer.target, "none"))
        PROVE  InstallParts' /\ Typed
    <3>1. /\ OneMore /\ mishaps' \in [failed : Nat, crashed : Nat] /\ staged' \in Trees
          /\ Standing \in Installers
      BY <1>c, <1>i, <2>0, <2>2, FailureCounted, NewTree, TreeFields DEF Standing, Installers
    <3>2. CASE installer' = Standing
      <4>1. installer'.pc = "idle" /\ installer'.raised = FALSE
        BY <3>2 DEF Standing
      <4>2. Progress'
        BY <2>0, <4>1 DEF Progress
      <4>3. Undisturbed'
        BY <1>0, <1>i, <2>0, <3>1, <4>1
           DEF Undisturbed, DataHeld, VersionHeld, HasData, WholeTree
      <4>4. DataSaved'
        BY <1>0, <1>i, <2>0, <3>1, <4>1 DEF DataSaved, DataHeld, DataSomewhere, HasData
      <4> QED BY <1>0, <2>0, <3>1, <3>2, <4>2, <4>3, <4>4 DEF InstallParts
    <3>3. CASE Raise("tidy")
      <4>1. /\ installer'.pc = "tidy" /\ installer'.raised /\ installer'.target = installer.target
            /\ installer' \in Installers
        BY <1>0, <3>3 DEF Raise, Installers
      <4>2. Progress'
        BY <1>0, <2>0, <3>1, <4>1 DEF Progress
      <4>3. Undisturbed'
        BY <1>0, <1>i, <2>0, <3>1, <4>1
           DEF Undisturbed, DataHeld, VersionHeld, HasData, WholeTree
      <4>4. DataSaved'
        BY <1>0, <1>i, <2>0, <3>1, <4>1 DEF DataSaved, DataHeld, HasData
      <4> QED BY <1>0, <2>0, <3>1, <4>1, <4>2, <4>3, <4>4 DEF InstallParts
    <3> QED BY <2>2, <3>2, <3>3 DEF GivesUp
  <2> QED BY <1>2, <2>1, <2>2 DEF Extract
<1>3. CASE SwapOut
  <2>0. /\ installer.pc = "swapOut" /\ UNCHANGED <<staged, preserved, running, abandoned, dropped>>
        /\ running # NoVersion /\ installer.target \in Versions /\ staged # NoDir
        /\ staged.ver = installer.target /\ staged.data \in {"none", "shipped"}
    BY <1>3, <1>i DEF SwapOut, Progress
  <2>1. ASSUME backup' = app, app' = NoDir, Then("swapIn"), UNCHANGED mishaps
        PROVE  InstallParts' /\ Typed
    <3>1. /\ installer'.pc = "swapIn" /\ installer'.target = installer.target
          /\ installer'.raised = installer.raised /\ installer' \in Installers
      BY <1>0, <2>1 DEF Installers, Then
    <3>2. Progress'
      BY <1>i, <2>0, <2>1, <3>1 DEF Progress
    <3>3. Undisturbed'
      BY <1>i, <2>0, <2>1, <3>1 DEF Undisturbed, DataHeld, VersionHeld, HasData, WholeTree
    <3>4. DataSaved'
      BY <1>i, <2>0, <2>1, <3>1 DEF DataSaved, DataHeld, HasData
    <3> QED BY <1>0, <2>0, <2>1, <3>1, <3>2, <3>3, <3>4 DEF InstallParts
  <2>2. ASSUME CallFails, GivesUp, UNCHANGED <<app, backup>>
        PROVE  InstallParts' /\ Typed
    <3>1. /\ OneMore /\ mishaps' \in [failed : Nat, crashed : Nat] /\ Standing \in Installers
      BY <1>i, <2>2, FailureCounted DEF Standing, Installers
    <3>2. CASE installer' = Standing
      <4>1. installer'.pc = "idle" /\ installer'.raised = FALSE
        BY <3>2 DEF Standing
      <4>2. Progress'
        BY <2>0, <4>1 DEF Progress
      <4>3. Undisturbed'
        BY <1>0, <1>i, <2>0, <2>2, <3>1, <4>1
           DEF Undisturbed, DataHeld, VersionHeld, HasData, WholeTree
      <4>4. DataSaved'
        BY <1>0, <1>i, <2>0, <2>2, <3>1, <4>1 DEF DataSaved, DataHeld, DataSomewhere, HasData
      <4> QED BY <1>0, <2>0, <2>2, <3>1, <3>2, <4>2, <4>3, <4>4 DEF InstallParts
    <3>3. CASE Raise("tidy")
      <4>1. /\ installer'.pc = "tidy" /\ installer'.raised /\ installer'.target = installer.target
            /\ installer' \in Installers
        BY <1>0, <3>3 DEF Raise, Installers
      <4>2. Progress'
        BY <1>0, <2>0, <3>1, <4>1 DEF Progress
      <4>3. Undisturbed'
        BY <1>0, <1>i, <2>0, <2>2, <3>1, <4>1
           DEF Undisturbed, DataHeld, VersionHeld, HasData, WholeTree
      <4>4. DataSaved'
        BY <1>0, <1>i, <2>0, <2>2, <3>1, <4>1 DEF DataSaved, DataHeld, HasData
      <4> QED BY <1>0, <2>0, <2>2, <3>1, <4>1, <4>2, <4>3, <4>4 DEF InstallParts
    <3> QED BY <2>2, <3>2, <3>3 DEF GivesUp
  <2> QED BY <1>3, <2>1, <2>2 DEF SwapOut
<1>4. CASE SwapIn
  <2>0. /\ installer.pc = "swapIn" /\ UNCHANGED <<backup, preserved, running, abandoned, dropped>>
        /\ running # NoVersion /\ installer.target \in Versions /\ staged # NoDir
        /\ staged.ver = installer.target /\ staged.data \in {"none", "shipped"}
        /\ ~installer.raised
    BY <1>4, <1>i DEF SwapIn, Progress
  <2>1. ASSUME app' = staged, staged' = NoDir, UNCHANGED mishaps,
               Then(IF installer.keep /\ backup # NoDir /\ backup.data # "none"
                    THEN "setAside" ELSE "tidy")
        PROVE  InstallParts' /\ Typed
    <3>1. /\ installer'.pc = IF installer.keep /\ backup # NoDir /\ backup.data # "none"
                             THEN "setAside" ELSE "tidy"
          /\ installer'.target = installer.target /\ installer'.keep = installer.keep
          /\ ~installer'.raised /\ installer' \in Installers
      BY <1>0, <2>0, <2>1 DEF Installers, Then
    <3>2. Progress'
      BY <1>c, <1>i, <2>0, <2>1, <3>1 DEF Progress, WholeTree
    <3>3. Undisturbed'
      BY <1>c, <1>i, <2>0, <2>1, <3>1 DEF Undisturbed, DataHeld, VersionHeld, HasData, WholeTree
    <3>4. DataSaved'
      BY <1>i, <2>0, <2>1, <3>1 DEF DataSaved, DataHeld, HasData
    <3> QED BY <1>0, <2>0, <2>1, <3>1, <3>2, <3>3, <3>4 DEF InstallParts
  <2>2. ASSUME CallFails, Raise(Rollback), UNCHANGED <<app, staged>>
        PROVE  InstallParts' /\ Typed
    <3>1. OneMore /\ mishaps' \in [failed : Nat, crashed : Nat]
      BY <1>i, <2>2, FailureCounted
    <3>2. /\ installer'.pc = (IF backup = NoDir THEN "tidy" ELSE "rescue")
          /\ installer'.raised /\ installer'.target = installer.target
          /\ installer' \in Installers
      BY <1>0, <2>2 DEF Raise, Rollback, Installers
    <3>3. Progress'
      BY <1>0, <1>i, <2>0, <2>2, <3>1, <3>2 DEF Progress
    <3>4. Undisturbed'
      BY <1>0, <1>i, <2>0, <2>2, <3>1, <3>2
         DEF Undisturbed, DataHeld, VersionHeld, HasData, WholeTree
    <3>5. DataSaved'
      BY <1>0, <1>i, <2>0, <2>2, <3>1, <3>2 DEF DataSaved, DataHeld, HasData
    <3> QED BY <1>0, <2>0, <2>2, <3>1, <3>2, <3>3, <3>4, <3>5 DEF InstallParts
  <2> QED BY <1>4, <2>1, <2>2 DEF SwapIn
<1>5. CASE SetDataAside
  <2>0. /\ installer.pc = "setAside" /\ UNCHANGED <<app, staged, running, abandoned, dropped>>
        /\ running # NoVersion /\ installer.target \in Versions /\ installer.keep
        /\ ~installer.raised /\ backup \in Trees /\ backup # NoDir /\ WholeTree(app)
        /\ preserved = NoDir
    BY <1>0, <1>5, <1>i DEF SetDataAside, Progress
  <2>1. ASSUME preserved' = backup.data, backup' = [backup EXCEPT !.data = "none"],
               Then("dropShipped"), UNCHANGED mishaps
        PROVE  InstallParts' /\ Typed
    <3>1. /\ installer'.pc = "dropShipped" /\ installer'.target = installer.target
          /\ installer'.keep /\ ~installer'.raised /\ installer' \in Installers
      BY <1>0, <2>0, <2>1 DEF Installers, Then
    <3>2. /\ backup' \in Trees /\ backup' # NoDir /\ backup'.data = "none"
          /\ backup'.ver = backup.ver /\ preserved' \in DataValues /\ preserved' # NoDir
      BY <1>c, <2>0, <2>1, TreeFields
    <3>3. Progress'
      BY <2>0, <3>1, <3>2 DEF Progress, WholeTree
    <3>4. Undisturbed'
      BY <1>i, <2>0, <2>1, <3>1, <3>2 DEF Undisturbed, DataHeld, VersionHeld, HasData, WholeTree
    <3>5. DataSaved'
      BY <1>i, <2>0, <2>1, <3>1 DEF DataSaved, DataHeld, HasData
    <3> QED BY <1>0, <2>0, <2>1, <3>1, <3>2, <3>3, <3>4, <3>5 DEF InstallParts
  <2>2. ASSUME CallFails, Raise("rescue"), UNCHANGED <<preserved, backup>>
        PROVE  InstallParts' /\ Typed
    <3>1. OneMore /\ mishaps' \in [failed : Nat, crashed : Nat]
      BY <1>i, <2>2, FailureCounted
    <3>2. /\ installer'.pc = "rescue" /\ installer'.raised /\ installer'.target = installer.target
          /\ installer' \in Installers
      BY <1>0, <2>2 DEF Raise, Installers
    <3>3. Progress'
      BY <1>0, <2>0, <2>2, <3>1, <3>2 DEF Progress
    <3>4. Undisturbed'
      BY <1>0, <1>i, <2>0, <2>2, <3>1, <3>2
         DEF Undisturbed, DataHeld, VersionHeld, HasData, WholeTree
    <3>5. DataSaved'
      BY <1>0, <1>i, <2>0, <2>2, <3>1, <3>2 DEF DataSaved, DataHeld, HasData
    <3> QED BY <1>0, <2>0, <2>2, <3>1, <3>2, <3>3, <3>4, <3>5 DEF InstallParts
  <2> QED BY <1>5, <2>1, <2>2 DEF SetDataAside
<1>6. CASE DropShipped
  <2>0. /\ installer.pc = "dropShipped"
        /\ UNCHANGED <<backup, staged, preserved, running, abandoned, dropped>>
        /\ running # NoVersion /\ installer.target \in Versions /\ installer.keep
        /\ ~installer.raised /\ backup \in Trees /\ backup # NoDir /\ WholeTree(app)
        /\ app \in Trees /\ preserved # NoDir /\ backup.data = "none"
    BY <1>0, <1>6, <1>i DEF DropShipped, Progress, WholeTree
  <2>1. ASSUME app' = [app EXCEPT !.data = "none"], Then("putData"), UNCHANGED mishaps
        PROVE  InstallParts' /\ Typed
    <3>1. /\ installer'.pc = "putData" /\ installer'.target = installer.target
          /\ installer'.keep /\ ~installer'.raised /\ installer' \in Installers
      BY <1>0, <2>0, <2>1 DEF Installers, Then
    <3>2. app' \in Trees /\ app' # NoDir /\ app'.ver = app.ver
      BY <1>c, <2>0, <2>1, TreeFields
    <3>3. Progress'
      BY <2>0, <3>1, <3>2 DEF Progress, WholeTree
    <3>4. Undisturbed'
      BY <1>i, <2>0, <2>1, <3>1, <3>2 DEF Undisturbed, DataHeld, VersionHeld, HasData, WholeTree
    <3>5. DataSaved'
      BY <1>i, <2>0, <2>1, <3>1 DEF DataSaved, DataHeld
    <3> QED BY <1>0, <2>0, <2>1, <3>1, <3>2, <3>3, <3>4, <3>5 DEF InstallParts
  <2>2. ASSUME CallFails, Raise("rescue"), UNCHANGED app
        PROVE  InstallParts' /\ Typed
    <3>1. OneMore /\ mishaps' \in [failed : Nat, crashed : Nat]
      BY <1>i, <2>2, FailureCounted
    <3>2. /\ installer'.pc = "rescue" /\ installer'.raised /\ installer'.target = installer.target
          /\ installer' \in Installers
      BY <1>0, <2>2 DEF Raise, Installers
    <3>3. Progress'
      BY <1>0, <2>0, <2>2, <3>1, <3>2 DEF Progress
    <3>4. Undisturbed'
      BY <1>0, <1>i, <2>0, <2>2, <3>1, <3>2
         DEF Undisturbed, DataHeld, VersionHeld, HasData, WholeTree
    <3>5. DataSaved'
      BY <1>0, <1>i, <2>0, <2>2, <3>1, <3>2 DEF DataSaved, DataHeld, HasData
    <3> QED BY <1>0, <2>0, <2>2, <3>1, <3>2, <3>3, <3>4, <3>5 DEF InstallParts
  <2> QED BY <1>6, <2>1, <2>2 DEF DropShipped
<1>7. CASE PutData
  <2>0. /\ installer.pc = "putData" /\ UNCHANGED <<backup, staged, running, abandoned, dropped>>
        /\ running # NoVersion /\ installer.target \in Versions
        /\ ~installer.raised /\ backup \in Trees /\ backup # NoDir /\ WholeTree(app)
        /\ app \in Trees /\ preserved \in DataValues /\ preserved # NoDir
        /\ backup.data = "none"
    BY <1>0, <1>7, <1>i DEF PutData, Progress, WholeTree
  <2>1. ASSUME app' = [app EXCEPT !.data = preserved], preserved' = NoDir, Then("tidy"),
               UNCHANGED mishaps
        PROVE  InstallParts' /\ Typed
    <3>1. /\ installer'.pc = "tidy" /\ installer'.target = installer.target
          /\ ~installer'.raised /\ installer' \in Installers
      BY <1>0, <2>0, <2>1 DEF Installers, Then
    <3>2. app' \in Trees /\ app' # NoDir /\ app'.ver = app.ver /\ app'.data = preserved
      BY <1>c, <2>0, <2>1, TreeFields
    <3>3. Progress'
      BY <2>0, <3>1, <3>2 DEF Progress, WholeTree
    <3>4. Undisturbed'
      BY <1>i, <2>0, <2>1, <3>1, <3>2 DEF Undisturbed, DataHeld, VersionHeld, HasData, WholeTree
    <3>5. DataSaved'
      BY <1>i, <2>0, <2>1, <3>1, <3>2 DEF DataSaved, DataHeld, HasData
    <3> QED BY <1>0, <2>0, <2>1, <3>1, <3>2, <3>3, <3>4, <3>5 DEF InstallParts
  <2>2. ASSUME CallFails, Raise("rescue"), UNCHANGED <<app, preserved>>
        PROVE  InstallParts' /\ Typed
    <3>1. OneMore /\ mishaps' \in [failed : Nat, crashed : Nat]
      BY <1>i, <2>2, FailureCounted
    <3>2. /\ installer'.pc = "rescue" /\ installer'.raised /\ installer'.target = installer.target
          /\ installer' \in Installers
      BY <1>0, <2>2 DEF Raise, Installers
    <3>3. Progress'
      BY <1>0, <2>0, <2>2, <3>1, <3>2 DEF Progress
    <3>4. Undisturbed'
      BY <1>0, <1>i, <2>0, <2>2, <3>1, <3>2
         DEF Undisturbed, DataHeld, VersionHeld, HasData, WholeTree
    <3>5. DataSaved'
      BY <1>0, <1>i, <2>0, <2>2, <3>1, <3>2 DEF DataSaved, DataHeld, HasData
    <3> QED BY <1>0, <2>0, <2>2, <3>1, <3>2, <3>3, <3>4, <3>5 DEF InstallParts
  <2> QED BY <1>7, <2>1, <2>2 DEF PutData
<1>8. CASE RescueData
  <2>0. /\ installer.pc = "rescue" /\ UNCHANGED <<app, staged, running, abandoned, dropped>>
        /\ running # NoVersion /\ installer.target \in Versions /\ installer.raised
        /\ backup \in Trees /\ backup # NoDir /\ mishaps.failed >= 1
        /\ preserved # NoDir => backup.data = "none"
    BY <1>0, <1>8, <1>i DEF RescueData, Progress
  <2>1. ASSUME preserved # NoDir, backup' = [backup EXCEPT !.data = preserved], preserved' = NoDir,
               Then("discard"), UNCHANGED mishaps
        PROVE  InstallParts' /\ Typed
    <3>1. /\ installer'.pc = "discard" /\ installer'.target = installer.target
          /\ installer'.raised /\ installer' \in Installers
      BY <1>0, <2>0, <2>1 DEF Installers, Then
    <3>2. /\ backup' \in Trees /\ backup' # NoDir /\ backup'.ver = backup.ver
          /\ backup'.data = preserved
      BY <1>0, <2>0, <2>1, TreeFields
    <3>3. Progress'
      BY <2>0, <2>1, <3>1, <3>2 DEF Progress
    <3>4. Undisturbed'
      BY <1>c, <1>i, <2>0, <2>1, <3>1, <3>2
         DEF Undisturbed, DataHeld, VersionHeld, HasData, WholeTree
    <3>5. DataSaved'
      BY <1>c, <1>i, <2>0, <2>1, <3>1, <3>2 DEF DataSaved, DataHeld, HasData
    <3> QED BY <1>0, <2>0, <2>1, <3>1, <3>2, <3>3, <3>4, <3>5 DEF InstallParts
  <2>2. ASSUME preserved = NoDir \/ backup.data # "none", Then("discard"),
               UNCHANGED <<backup, preserved, mishaps>>
        PROVE  InstallParts' /\ Typed
    <3>1. /\ installer'.pc = "discard" /\ installer'.target = installer.target
          /\ installer'.raised /\ installer' \in Installers
      BY <1>0, <2>0, <2>2 DEF Installers, Then
    <3>2. preserved = NoDir
      BY <2>0, <2>2
    <3>3. Progress'
      BY <2>0, <2>2, <3>1 DEF Progress
    <3>4. Undisturbed'
      BY <1>c, <1>i, <2>0, <2>2, <3>1, <3>2
         DEF Undisturbed, DataHeld, VersionHeld, HasData, WholeTree
    <3>5. DataSaved'
      BY <1>c, <1>i, <2>0, <2>2, <3>1, <3>2 DEF DataSaved, DataHeld, HasData, DataValues
    <3> QED BY <1>0, <2>0, <2>2, <3>1, <3>3, <3>4, <3>5 DEF InstallParts
  <2>3. ASSUME CallFails, Raise("tidy"), UNCHANGED <<backup, preserved>>
        PROVE  InstallParts' /\ Typed
    <3>1. OneMore /\ mishaps' \in [failed : Nat, crashed : Nat]
      BY <1>i, <2>3, FailureCounted
    <3>2. /\ installer'.pc = "tidy" /\ installer'.raised /\ installer'.target = installer.target
          /\ installer' \in Installers
      BY <1>0, <2>3 DEF Raise, Installers
    <3>3. Progress'
      BY <1>0, <2>0, <3>1, <3>2 DEF Progress
    <3>4. Undisturbed' /\ DataSaved'
      BY <1>0, <2>0, <3>1 DEF Undisturbed, DataSaved
    <3> QED BY <1>0, <2>0, <2>3, <3>1, <3>2, <3>3, <3>4 DEF InstallParts
  <2> QED BY <1>8, <2>1, <2>2, <2>3 DEF RescueData
<1>9. CASE DiscardNew
  <2>0. /\ installer.pc = "discard" /\ Then("putBack")
        /\ UNCHANGED <<backup, staged, preserved, running, abandoned, dropped>>
        /\ running # NoVersion /\ installer.target \in Versions /\ installer.raised
        /\ mishaps.failed >= 1
    BY <1>0, <1>9, <1>i DEF DiscardNew, Progress
  <2>1. /\ installer'.pc = "putBack" /\ installer'.target = installer.target
        /\ installer'.raised /\ installer' \in Installers
    BY <1>0, <2>0 DEF Installers, Then
  <2>2. CASE app' = NoDir /\ UNCHANGED mishaps
    <3>1. Progress'
      BY <2>0, <2>1, <2>2 DEF Progress
    <3>2. Undisturbed'
      BY <1>i, <2>0, <2>1, <2>2 DEF Undisturbed, DataHeld, VersionHeld, HasData, WholeTree
    <3>3. DataSaved'
      BY <1>i, <2>0, <2>1, <2>2 DEF DataSaved, DataHeld, HasData
    <3> QED BY <1>0, <2>0, <2>1, <2>2, <3>1, <3>2, <3>3 DEF InstallParts
  <2>3. CASE app # NoDir /\ CallFails /\ app' = Torn(app)
    <3>1. OneMore /\ mishaps' \in [failed : Nat, crashed : Nat] /\ app' \in Trees
      BY <1>0, <1>i, <2>3, FailureCounted, TreeFields
    <3>2. Progress'
      BY <1>0, <2>0, <2>1, <3>1 DEF Progress
    <3>3. Undisturbed' /\ DataSaved'
      BY <1>0, <2>0, <3>1 DEF Undisturbed, DataSaved
    <3> QED BY <1>0, <2>0, <2>1, <3>1, <3>2, <3>3 DEF InstallParts
  <2> QED BY <1>9, <2>2, <2>3 DEF DiscardNew
<1>10. CASE PutBack
  <2>0. /\ installer.pc = "putBack" /\ Then("tidy")
        /\ UNCHANGED <<staged, preserved, running, abandoned, dropped>>
        /\ running # NoVersion /\ installer.target \in Versions /\ installer.raised
        /\ mishaps.failed >= 1
    BY <1>0, <1>10, <1>i DEF PutBack, Progress
  <2>1. /\ installer'.pc = "tidy" /\ installer'.target = installer.target
        /\ installer'.raised /\ installer' \in Installers
    BY <1>0, <2>0 DEF Installers, Then
  <2>2. CASE app' = backup /\ backup' = NoDir /\ UNCHANGED mishaps
    <3>1. Progress'
      BY <2>0, <2>1, <2>2 DEF Progress
    <3>2. Undisturbed'
      BY <1>i, <2>0, <2>1, <2>2 DEF Undisturbed, DataHeld, VersionHeld, HasData, WholeTree
    <3>3. DataSaved'
      BY <1>i, <2>0, <2>1, <2>2 DEF DataSaved, DataHeld, HasData
    <3> QED BY <1>0, <2>0, <2>1, <2>2, <3>1, <3>2, <3>3 DEF InstallParts
  <2>3. CASE app # NoDir /\ UNCHANGED <<app, backup, mishaps>>
    <3>1. Progress'
      BY <2>0, <2>1, <2>3 DEF Progress
    <3>2. Undisturbed'
      BY <1>i, <2>0, <2>1, <2>3 DEF Undisturbed, DataHeld, VersionHeld, HasData, WholeTree
    <3>3. DataSaved'
      BY <1>i, <2>0, <2>1, <2>3 DEF DataSaved, DataHeld
    <3> QED BY <1>0, <2>0, <2>1, <2>3, <3>1, <3>2, <3>3 DEF InstallParts
  <2>4. CASE app = NoDir /\ CallFails /\ UNCHANGED <<app, backup>>
    <3>1. OneMore /\ mishaps' \in [failed : Nat, crashed : Nat]
      BY <1>i, <2>4, FailureCounted
    <3>2. Progress'
      BY <1>0, <2>0, <2>1, <3>1 DEF Progress
    <3>3. Undisturbed' /\ DataSaved'
      BY <1>0, <2>0, <3>1 DEF Undisturbed, DataSaved
    <3> QED BY <1>0, <2>0, <2>1, <2>4, <3>1, <3>2, <3>3 DEF InstallParts
  <2> QED BY <1>10, <2>2, <2>3, <2>4 DEF PutBack
<1> QED BY <1>1, <1>2, <1>3, <1>4, <1>5, <1>6, <1>7, <1>8, <1>9, <1>10

(* Cleaning up ends an install: done, the new version runs; with an error, the   *)
(* old one does.                                                            *)
LEMMA TidyKeeps ==
  ASSUME UpdateInv, Tidy
  PROVE  InstallParts' /\ UpdateTypeOK' /\ OfferIsNewer'
<1> USE DEF InstallerAt
<1>0. /\ app \in Trees \cup {NoDir} /\ backup \in Trees \cup {NoDir} /\ installer \in Installers
      /\ mishaps \in [failed : Nat, crashed : Nat]
      /\ mishaps.failed \in Nat /\ mishaps.crashed \in Nat
  BY UpdateTypeParts DEF UpdateInv
<1>i. Progress /\ Undisturbed /\ DataSaved /\ UpdateTypeOK /\ OfferIsNewer
  BY DEF UpdateInv
<1>1. /\ installer.pc = "tidy" /\ UNCHANGED <<layout, app, published, abandoned>>
      /\ preserved' = NoDir /\ staged' = NoDir /\ running # NoVersion
      /\ (dropped' <=> (dropped \/ (~installer.raised /\ ~installer.keep)))
      /\ dropped' \in BOOLEAN
  BY <1>i DEF Tidy, Progress
<1>2. installer'.pc = "idle" /\ ~installer'.raised /\ installer' \in Installers
  BY DEF Tidy, Standing, Installers
<1>3. /\ backup' \in Trees \cup {NoDir} /\ mishaps' \in [failed : Nat, crashed : Nat]
      /\ mishaps'.failed \in Nat /\ mishaps'.crashed \in Nat
      /\ mishaps'.failed >= mishaps.failed /\ mishaps'.crashed = mishaps.crashed
  <2>1. CASE backup' = NoDir /\ UNCHANGED mishaps
    BY <1>0, <2>1
  <2>2. CASE CallFails /\ backup' = IF backup = NoDir THEN NoDir
                                    ELSE Torn([backup EXCEPT !.data = "none"])
    <3>1. "none" \in DataValues
      BY DEF DataValues
    <3>2. backup \in Trees => [backup EXCEPT !.data = "none"] \in Trees
      BY <3>1, TreeFields
    <3>3. backup \in Trees => Torn([backup EXCEPT !.data = "none"]) \in Trees
      BY <3>2, TreeFields
    <3> QED BY <1>0, <1>i, <2>2, <3>3, FailureCounted
  <2> QED BY <2>1, <2>2 DEF Tidy
<1>4. /\ running' \in Versions /\ offer' \in Versions \cup {NoVersion}
      /\ status' \in Statuses \cup {NoVersion} /\ OfferIsNewer'
  <2>1. CASE installer.raised
    BY <1>1, <1>i, <2>1 DEF Tidy, UpdateTypeOK, OfferIsNewer
  <2>2. CASE ~installer.raised
    <3>1. WholeTree(app) /\ running' = app.ver /\ status' = NoVersion /\ offer' = NoVersion
      BY <1>1, <1>i, <2>2 DEF Tidy, Progress
    <3> QED BY <1>0, <3>1, TreeFields DEF WholeTree, OfferIsNewer
  <2> QED BY <2>1, <2>2
<1>5. UpdateTypeOK'
  BY <1>1, <1>2, <1>3, <1>4, <1>i DEF UpdateTypeOK, Installers
<1>6. Progress'
  BY <1>2, <1>4, VersionsAssumption DEF Progress
<1>7. Undisturbed'
  BY <1>0, <1>1, <1>2, <1>3, <1>i DEF Undisturbed, DataHeld, VersionHeld, HasData, WholeTree
<1>8. DataSaved'
  BY <1>0, <1>1, <1>2, <1>3, <1>i DEF DataSaved, DataHeld, DataSomewhere, HasData
<1> QED BY <1>4, <1>5, <1>6, <1>7, <1>8 DEF InstallParts

(* Wherever the device is switched off, the data are in one of the directories.  *)
LEMMA CrashKeeps ==
  ASSUME UpdateInv, SwitchedOff
  PROVE  InstallParts' /\ UpdateTypeOK' /\ OfferIsNewer'
<1> USE DEF InstallerAt
<1>0. /\ installer \in Installers /\ mishaps \in [failed : Nat, crashed : Nat]
      /\ mishaps.failed \in Nat /\ mishaps.crashed \in Nat
  BY UpdateTypeParts DEF UpdateInv
<1>i. Progress /\ Undisturbed /\ DataSaved /\ UpdateTypeOK
  BY DEF UpdateInv
<1>1. /\ running' = NoVersion /\ offer' = NoVersion
      /\ UNCHANGED <<layout, app, backup, staged, preserved, published, status, abandoned, dropped>>
  BY DEF SwitchedOff
<1>2. installer'.pc = "idle" /\ ~installer'.raised /\ installer' \in Installers
  BY DEF SwitchedOff, Standing, Installers
<1>3. /\ mishaps' \in [failed : Nat, crashed : Nat] /\ mishaps'.failed = mishaps.failed
      /\ mishaps'.crashed = IF installer.pc = "idle" THEN mishaps.crashed ELSE mishaps.crashed + 1
  BY <1>0 DEF SwitchedOff
<1>4. UpdateTypeOK' /\ OfferIsNewer'
  BY <1>1, <1>2, <1>3, <1>i DEF UpdateTypeOK, Installers, OfferIsNewer
<1>5. Progress'
  BY <1>1, <1>2 DEF Progress
<1>6. Undisturbed'
  BY <1>0, <1>1, <1>2, <1>3, <1>i DEF Undisturbed, DataHeld, VersionHeld, HasData, WholeTree
<1>7. DataSaved'
  <2>1. CASE installer.pc = "idle"
    BY <1>0, <1>1, <1>2, <1>3, <1>i, <2>1 DEF DataSaved, DataSomewhere, HasData
  <2>2. CASE installer.pc # "idle"
    <3>1. CASE mishaps.failed + mishaps.crashed <= 1
      <4>1. installer.pc # "idle" /\ DataHeld(dropped \/ abandoned)
        BY <1>i, <2>2, <3>1 DEF DataSaved
      <4>2. HasData(app) \/ HasData(backup) \/ preserved = "mine" \/ dropped \/ abandoned
        BY <1>0, <4>1 DEF DataHeld, Installers
      <4> QED BY <1>1, <1>2, <4>2 DEF DataSaved, DataSomewhere, HasData
    <3>2. CASE ~(mishaps.failed + mishaps.crashed <= 1)
      BY <1>0, <1>2, <1>3, <3>2 DEF DataSaved, DataSomewhere
    <3> QED BY <3>1, <3>2
  <2> QED BY <2>1, <2>2
<1> QED BY <1>4, <1>5, <1>6, <1>7 DEF InstallParts

(* Starting the menu, or copying a release by hand, loses nothing.            *)
LEMMA UserKeeps ==
  ASSUME UpdateInv, Launch \/ (\E v \in Versions : HandInstall(v))
  PROVE  InstallParts' /\ UpdateTypeOK' /\ OfferIsNewer'
<1> USE DEF InstallerAt
<1>0. app \in Trees \cup {NoDir}
  BY UpdateTypeParts DEF UpdateInv
<1>i. Progress /\ Undisturbed /\ DataSaved /\ UpdateTypeOK
  BY DEF UpdateInv
<1>1. CASE Launch
  <2>1. /\ running' = app.ver /\ app.ver # NoVersion /\ app # NoDir /\ running = NoVersion
        /\ UNCHANGED <<layout, installVars, statusVars, mishaps, abandoned, dropped>>
    BY <1>1 DEF Launch
  <2>2. installer.pc = "idle" /\ offer = NoVersion /\ running' \in Versions
    BY <1>0, <1>i, <2>1, TreeFields DEF Progress
  <2>3. UpdateTypeOK' /\ OfferIsNewer'
    BY <1>i, <2>1, <2>2 DEF UpdateTypeOK, OfferIsNewer, installVars, statusVars
  <2>4. Progress'
    BY <1>i, <2>1, <2>2, VersionsAssumption DEF Progress, installVars, statusVars, WholeTree
  <2>5. Undisturbed' /\ DataSaved'
    BY <1>i, <2>1 DEF Undisturbed, DataSaved, DataHeld, VersionHeld, DataSomewhere, HasData,
                      WholeTree, installVars
  <2> QED BY <2>3, <2>4, <2>5 DEF InstallParts
<1>2. ASSUME NEW v \in Versions, HandInstall(v)
      PROVE  InstallParts' /\ UpdateTypeOK' /\ OfferIsNewer'
  <2> DEFINE d == IF app = NoDir THEN "none" ELSE app.data
  <2>1. /\ app' = Tree(v, d) /\ running = NoVersion
        /\ UNCHANGED <<layout, backup, staged, preserved, installer, running, statusVars, mishaps,
                       abandoned, dropped>>
    BY <1>2 DEF HandInstall
  <2>2. d \in DataValues
    BY <1>0, TreeFields DEF DataValues
  <2>3. app' \in Trees /\ app' # NoDir /\ app'.ver = v /\ app'.data = d
    BY <2>1, <2>2, NewTree
  <2>4. installer.pc = "idle" /\ offer = NoVersion /\ v # NoVersion
    BY <1>i, <2>1, VersionsAssumption DEF Progress
  <2>5. UpdateTypeOK' /\ OfferIsNewer'
    BY <1>i, <2>1, <2>3 DEF UpdateTypeOK, OfferIsNewer, statusVars
  <2>6. Progress'
    BY <1>i, <2>1, <2>4 DEF Progress, statusVars
  <2>7. HasData(app) => HasData(app)'
    BY <2>3 DEF HasData
  <2>8. WholeTree(app)'
    BY <2>3, <2>4 DEF WholeTree
  <2>9. Undisturbed'
    BY <1>i, <2>1, <2>4, <2>7, <2>8 DEF Undisturbed, DataHeld, VersionHeld
  <2>10. DataSaved'
    BY <1>i, <2>1, <2>4, <2>7 DEF DataSaved, DataSomewhere, HasData
  <2> QED BY <2>5, <2>6, <2>9, <2>10 DEF InstallParts
<1> QED BY <1>1, <1>2

(* A release that is published is not offered yet.                            *)
LEMMA PublishKeeps ==
  ASSUME UpdateInv, NEW v \in Versions, Publish(v)
  PROVE  InstallParts' /\ UpdateTypeOK' /\ OfferIsNewer'
<1>i. Progress /\ UpdateTypeOK /\ OfferIsNewer /\ published \subseteq Versions
  BY UpdateTypeParts DEF UpdateInv
<1>1. /\ published' = published \cup {v}
      /\ UNCHANGED <<layout, installVars, running, status, offer, mishaps, abandoned, dropped>>
  BY DEF Publish
<1>2. InstallParts'
  BY <1>i, <1>1, LookingKeepsInstall DEF Progress
<1>3. published' \subseteq Versions
  BY <1>i, <1>1
<1> QED BY <1>i, <1>1, <1>2, <1>3 DEF UpdateTypeOK, OfferIsNewer, installVars

(* Looking for a release offers only what is newer than what runs.            *)
LEMMA CheckKeeps ==
  ASSUME UpdateInv, NEW force \in BOOLEAN, CheckRelease(force)
  PROVE  InstallParts' /\ UpdateTypeOK' /\ OfferIsNewer'
<1>i. Progress /\ UpdateTypeOK /\ OfferIsNewer /\ SomeNewest
  BY DEF UpdateInv
<1>0. running \in Versions \cup {NoVersion} /\ published \subseteq Versions
      /\ status \in Statuses \cup {NoVersion} /\ offer \in Versions \cup {NoVersion}
  BY <1>i, UpdateTypeParts
<1>s. \A s \in Statuses : s.latest \in Versions \cup {NoVersion} /\ s # NoVersion
  BY VersionsAssumption DEF Statuses
<1>1. /\ running # NoVersion
      /\ UNCHANGED <<layout, installVars, running, published, mishaps, abandoned, dropped>>
  BY DEF CheckRelease
<1>2. InstallParts'
  BY <1>1, LookingKeepsInstall
<1> DEFINE Right(v) == v = NoVersion \/ (v \in Versions /\ NewerThan(v, running))
<1>3. \A v \in Versions \cup {NoVersion} : Right(FromSaved(v))
  BY DEF FromSaved
<1>4. \A nightlies \in BOOLEAN : Right(LatestRelease(nightlies))
  BY <1>0, <1>i, LatestIsNewer
<1>5. \A v : Right(v) => Saved(v) \in Statuses
  BY DEF Saved, Statuses
<1>6. Right(offer') /\ status' \in Statuses \cup {NoVersion}
  <2>1. CASE Recent /\ offer' = FromSaved(status.latest) /\ UNCHANGED status
    BY <1>0, <1>s, <1>3, <2>1 DEF Recent
  <2>2. CASE \E nightlies \in BOOLEAN : offer' = LatestRelease(nightlies) /\ status' = Saved(offer')
    BY <1>4, <1>5, <2>2
  <2>3. CASE /\ UNCHANGED status
             /\ offer' = IF status = NoVersion THEN NoVersion ELSE FromSaved(status.latest)
    BY <1>0, <1>s, <1>3, <2>3
  <2> QED BY <2>1, <2>2, <2>3 DEF CheckRelease
<1>7. OfferIsNewer'
  BY <1>1, <1>6 DEF OfferIsNewer
<1> QED BY <1>i, <1>1, <1>2, <1>6, <1>7 DEF UpdateTypeOK, installVars

(* A day later the saved answer is no longer recent.                          *)
LEMMA DayKeeps ==
  ASSUME UpdateInv, DayPasses
  PROVE  InstallParts' /\ UpdateTypeOK' /\ OfferIsNewer'
<1>i. Progress /\ UpdateTypeOK /\ OfferIsNewer /\ status \in Statuses \cup {NoVersion}
  BY UpdateTypeParts DEF UpdateInv
<1>1. /\ status' = [status EXCEPT !.fresh = FALSE] /\ status \in Statuses
      /\ UNCHANGED <<layout, installVars, running, published, offer, mishaps, abandoned, dropped>>
  BY <1>i DEF DayPasses, Recent
<1>2. InstallParts'
  BY <1>i, <1>1, LookingKeepsInstall DEF Progress
<1>3. status' \in Statuses
  BY <1>1 DEF Statuses
<1> QED BY <1>i, <1>1, <1>2, <1>3 DEF UpdateTypeOK, OfferIsNewer, installVars

(* The invariant holds at every state.                                      *)
LEMMA UpdateInvariant == UpdateSpec => []UpdateInv
<1>1. UpdateInit => UpdateInv
  <2> SUFFICES ASSUME UpdateInit PROVE UpdateInv
    OBVIOUS
  <2>1. PICK v \in Versions : app = Tree(v, "mine") /\ running = v
    BY DEF UpdateInit
  <2>2. "mine" \in DataValues
    BY DEF DataValues
  <2>3. app \in Trees /\ app.ver = v /\ app.data = "mine" /\ app # NoDir /\ v # NoVersion
    BY <2>1, <2>2, NewTree, VersionsAssumption
  <2>4. installer.pc = "idle" /\ ~installer.raised /\ installer \in Installers
    BY DEF UpdateInit, Standing, Installers
  <2>5. UpdateTypeOK
    BY <2>1, <2>3, <2>4 DEF UpdateInit, UpdateTypeOK, Installers
  <2>6. Progress
    BY <2>1, <2>3, <2>4 DEF UpdateInit, Progress, InstallerAt
  <2>7. Undisturbed /\ DataSaved
    BY <2>3, <2>4 DEF Undisturbed, DataSaved, DataHeld, VersionHeld, DataSomewhere, HasData,
                      WholeTree, InstallerAt
  <2>8. SomeNewest /\ OfferIsNewer
    BY DEF UpdateInit, SomeNewest, OfferIsNewer
  <2> QED BY <2>5, <2>6, <2>7, <2>8 DEF UpdateInv
<1>2. UpdateInv /\ [UpdateNext]_updateVars => UpdateInv'
  <2> SUFFICES ASSUME UpdateInv, [UpdateNext]_updateVars PROVE UpdateInv'
    OBVIOUS
  <2>i. UpdateTypeOK /\ OfferIsNewer /\ SomeNewest /\ published \subseteq Versions
    BY UpdateTypeParts DEF UpdateInv
  <2>1. InstallParts' /\ UpdateTypeOK' /\ OfferIsNewer'
    <3>1. CASE \/ BeginInstall \/ Extract \/ SwapOut \/ SwapIn \/ SetDataAside \/ DropShipped
               \/ PutData \/ RescueData \/ DiscardNew \/ PutBack
      <4>1. /\ InstallParts'
            /\ app' \in Trees \cup {NoDir} /\ backup' \in Trees \cup {NoDir}
            /\ staged' \in Trees \cup {NoDir} /\ preserved' \in DataValues \cup {NoDir}
            /\ installer' \in Installers /\ mishaps' \in [failed : Nat, crashed : Nat]
            /\ abandoned' \in BOOLEAN
        BY <3>1, InstallerKeeps
      <4>2. UNCHANGED <<layout, running, published, status, offer, dropped>>
        BY <3>1 DEF BeginInstall, Extract, SwapOut, SwapIn, SetDataAside, DropShipped, PutData,
                    RescueData, DiscardNew, PutBack, statusVars
      <4> QED BY <2>i, <4>1, <4>2 DEF UpdateTypeOK, Installers, OfferIsNewer
    <3>2. CASE Tidy
      BY <3>2, TidyKeeps
    <3>3. CASE SwitchedOff
      BY <3>3, CrashKeeps
    <3>4. CASE Launch \/ (\E v \in Versions : HandInstall(v))
      BY <3>4, UserKeeps
    <3>5. ASSUME NEW v \in Versions, Publish(v)
          PROVE  InstallParts' /\ UpdateTypeOK' /\ OfferIsNewer'
      BY <3>5, PublishKeeps
    <3>6. ASSUME NEW force \in BOOLEAN, CheckRelease(force)
          PROVE  InstallParts' /\ UpdateTypeOK' /\ OfferIsNewer'
      BY <3>6, CheckKeeps
    <3>7. CASE DayPasses
      BY <3>7, DayKeeps
    <3>8. CASE UNCHANGED updateVars
      <4>1. InstallParts'
        BY <3>8, LookingKeepsInstall DEF updateVars, statusVars, UpdateInv, Progress
      <4> QED BY <2>i, <3>8, <4>1
              DEF updateVars, statusVars, installVars, UpdateTypeOK, OfferIsNewer
    <3> QED BY <3>1, <3>2, <3>3, <3>4, <3>5, <3>6, <3>7, <3>8
           DEF UpdateNext
  <2>2. SomeNewest'
    <3>1. ASSUME NEW v \in Versions, Publish(v) PROVE SomeNewest'
      <4>1. published' = published \cup {v}
        BY <3>1 DEF Publish
      <4> QED BY <2>i, <4>1, NewestKept DEF SomeNewest, NewestOf, NewerThan
    <3>2. CASE published' = published
      BY <2>i, <3>2 DEF SomeNewest, NewestOf
    <3>3. published' = published \/ \E v \in Versions : Publish(v)
      BY DEF UpdateNext, updateVars, statusVars, HandInstall, CheckRelease, DayPasses, BeginInstall,
             Extract, SwapOut, SwapIn, SetDataAside, DropShipped, PutData, RescueData, DiscardNew,
             PutBack, Tidy, SwitchedOff, Launch
    <3> QED BY <3>1, <3>2, <3>3
  <2> QED BY <2>1, <2>2 DEF UpdateInv, InstallParts
<1> QED BY <1>1, <1>2, PTL DEF UpdateSpec

(* Every variable of the update keeps to its type.                          *)
THEOREM UpdateTyped == UpdateSpec => []UpdateTypeOK
<1>1. UpdateInv => UpdateTypeOK
  BY DEF UpdateInv
<1> QED BY <1>1, UpdateInvariant, PTL

(* An install keeps what it promises (install_onion_update_archive,           *)
(* install_muos_update_archive, update_status): after one failed call one      *)
(* whole version is in place with the user's data, one failed call or crash     *)
(* leaves the data in one of the directories, and what is offered is newer.    *)
THEOREM UpdateKeepsData == UpdateSpec => []UpdateSafe
<1>1. ASSUME UpdateInv PROVE UpdateSafe
  <2>i. UpdateTypeOK /\ Undisturbed /\ DataSaved /\ OfferIsNewer /\ installer \in Installers
    BY <1>1, UpdateTypeParts DEF UpdateInv
  <2>1. SwapOrRollback
    BY <2>i DEF SwapOrRollback, Undisturbed, DataHeld, VersionHeld, WholeTree, InstallerAt
  <2>2. DataSomewhere
    <3>1. CASE InstallerAt("idle")
      BY <2>i, <3>1 DEF DataSaved, DataSomewhere
    <3>2. CASE ~InstallerAt("idle")
      BY <2>i, <3>2 DEF DataSaved, DataHeld, DataSomewhere, InstallerAt, Installers
    <3> QED BY <3>1, <3>2
  <2> QED BY <2>i, <2>1, <2>2 DEF UpdateSafe
<1> QED BY <1>1, UpdateInvariant, PTL
=============================================================================
