----------------------------- MODULE JsonStore -----------------------------
(***************************************************************************)
(* The store a device uses while its Python has no SQLite: one JSON file,  *)
(* rewritten as a whole under a file lock by the service and by the menu.  *)
(* A file that does not parse is set aside and an incident is recorded for *)
(* the user and for support; where it cannot be set aside, the next write  *)
(* goes over it.  When a release brings SQLite the file is imported at the *)
(* next start and renamed.                                                 *)
(*                                                                         *)
(* The awards stand for everything in the file: cached responses are read, *)
(* written and imported by the same steps.                                 *)
(***************************************************************************)
EXTENDS Integers, FiniteSets

CONSTANTS
    Awards,            \* what is stored
    Service, Menu,     \* the two processes
    StoreFaults,       \* crashes and damages of the file in a behaviour
    NoFile, NoIncident

Processes == {Service, Menu}
StoredFiles == [holds : SUBSET Awards, parses : BOOLEAN]
Incidents == [id : Int, reported : BOOLEAN, notified : BOOLEAN]

ASSUME StoreAssumption ==
    /\ StoreFaults \in Nat /\ Service # Menu
    /\ NoFile \notin StoredFiles /\ NoIncident \notin Incidents

Ops == {"open", "read", "queue", "settle"}
StoreSteps == {"closed", "open", "lock", "load", "set aside", "record", "write", "unlock",
          "import", "import set aside", "import record", "commit", "rename"}
Calls == {c \in [pc : StoreSteps, op : Ops, award : Awards \cup {"none"}, copy : SUBSET Awards] :
              c.op \in {"queue", "settle"} => c.award \in Awards}
Reports == [pc : {"unseen", "upload", "mark", "seen"}, held : Int]

VARIABLES
    file,          \* the JSON file: what it holds, and whether it still parses
    table,         \* the rows of the SQLite database
    backend,       \* what a process that starts now uses
    storeLock,     \* how each process holds the lock of the file
    caller,        \* the storage call each process is in
    quarantined,   \* the files set aside
    incident,      \* storage_corruption.json
    teller,        \* the report each process is sending
    uploads,       \* history: incidents support was told of
    acked,         \* history: awards whose storing returned
    settledAwards, \* history: awards taken out after they were delivered
    leftOver,      \* history: an import failed, or could not set aside, and left its file
    unsaved,       \* history: held by a damaged file that a writer could not set aside
    storeFaults

storeVars == <<file, table, backend, storeLock, caller, quarantined, incident, teller,
               uploads, acked, settledAwards, leftOver, unsaved, storeFaults>>
fileVars == <<file, quarantined, incident>>
reportVars == <<teller, uploads>>
historyVars == <<acked, settledAwards, leftOver, unsaved>>

NoCall == [pc |-> "closed", op |-> "open", award |-> "none", copy |-> {}]
Quiet == [pc |-> "unseen", held |-> 0]

StoreInit ==
    /\ file = NoFile /\ table = {} /\ backend = "json"
    /\ storeLock = [p \in Processes |-> "none"]
    /\ caller = [p \in Processes |-> NoCall]
    /\ quarantined = {} /\ incident = NoIncident
    /\ teller = [p \in Processes |-> Quiet]
    /\ uploads = {} /\ acked = {} /\ settledAwards = {}
    /\ leftOver = FALSE /\ unsaved = {} /\ storeFaults = 0

Goto(p, pc) == caller' = [caller EXCEPT ![p].pc = pc]
Blame == storeFaults < StoreFaults /\ storeFaults' = storeFaults + 1

-----------------------------------------------------------------------------
(* A storage call on the JSON file.                                        *)

\* A mutation: the lock is not taken, as where Python has no fcntl.
LocksNothing(p, mode) == TRUE

\* flock: readers share it, a writer has it alone.
LockFree(p, mode) ==
    \A q \in Processes \ {p} :
        storeLock[q] = "none" \/ (mode = "shared" /\ storeLock[q] = "shared")

\* An award is earned once; its delivery or its deletion takes it out.
Unearned(a) == a \notin acked \cup settledAwards

\* A process opens the store, then calls it. Only the service stores awards.
Call(p, op, a) ==
    /\ caller[p].pc = (IF op = "open" THEN "closed" ELSE "open")
    /\ op = "queue" => p = Service /\ Unearned(a)
    /\ op = "settle" => a \in acked \ settledAwards
    /\ backend = "json" \/ op = "open"
    /\ caller' = [caller EXCEPT ![p] = [pc |-> "lock", op |-> op, award |-> a, copy |-> {}]]
    /\ UNCHANGED <<file, table, backend, storeLock, quarantined, incident, storeFaults>>
    /\ UNCHANGED <<reportVars, historyVars>>

TakeStoreLock(p) ==
    LET mode == IF caller[p].op = "read" THEN "shared" ELSE "exclusive" IN
    /\ caller[p].pc = "lock" /\ LockFree(p, mode)
    /\ storeLock' = [storeLock EXCEPT ![p] = mode]
    /\ Goto(p, IF backend = "sqlite" THEN "import" ELSE "load")
    /\ UNCHANGED <<file, table, backend, quarantined, incident, storeFaults>>
    /\ UNCHANGED <<reportVars, historyVars>>

\* _reload_json_state_unlocked
Load(p) ==
    /\ caller[p].pc = "load"
    /\ IF file # NoFile /\ ~file.parses
       THEN Goto(p, "set aside")
       ELSE caller' = [caller EXCEPT ![p].pc = "write",
                                     ![p].copy = IF file = NoFile THEN {} ELSE file.holds]
    /\ UNCHANGED <<file, table, backend, storeLock, quarantined, incident, storeFaults>>
    /\ UNCHANGED <<reportVars, historyVars>>

\* The rename of _quarantine_corrupt_json_unlocked. A reader that comes second finds no
\* file and records nothing.
SetAside(p) ==
    /\ caller[p].pc \in {"set aside", "import set aside"}
    /\ LET rest == IF caller[p].pc = "set aside" THEN "write" ELSE "unlock" IN
       IF file = NoFile
       THEN Goto(p, rest) /\ UNCHANGED <<file, quarantined>>
       ELSE /\ quarantined' = quarantined \cup
                  {[id |-> Cardinality(quarantined), holds |-> file.holds, parses |-> file.parses]}
            /\ file' = NoFile
            /\ Goto(p, IF rest = "write" THEN "record" ELSE "import record")
    /\ UNCHANGED <<table, backend, storeLock, incident, storeFaults>>
    /\ UNCHANGED <<reportVars, historyVars>>

\* The stat or the rename fails: the damaged file stays and no incident is recorded. A call
\* goes on with the empty copy; an import leaves the file for the next start.
SetAsideFails(p) ==
    /\ caller[p].pc \in {"set aside", "import set aside"} /\ file # NoFile
    /\ \/ /\ caller[p].pc = "set aside" /\ Goto(p, "write") /\ UNCHANGED leftOver
          /\ unsaved' = IF caller[p].op \in {"queue", "settle"} THEN unsaved \cup file.holds
                                                               ELSE unsaved
       \/ /\ caller[p].pc = "import set aside" /\ Goto(p, "unlock")
          /\ leftOver' = TRUE /\ UNCHANGED unsaved
    /\ UNCHANGED <<fileVars, table, backend, storeLock, storeFaults, acked, settledAwards>>
    /\ UNCHANGED reportVars

\* record_incident: over whatever incident is there.
RecordIncident(p) ==
    /\ caller[p].pc \in {"record", "import record"}
    /\ incident' = [id |-> Cardinality(quarantined) - 1, reported |-> FALSE, notified |-> FALSE]
    /\ Goto(p, IF caller[p].pc = "record" THEN "write" ELSE "unlock")
    /\ UNCHANGED <<file, table, backend, storeLock, quarantined, storeFaults>>
    /\ UNCHANGED <<reportVars, historyVars>>

Written(p) ==
    CASE caller[p].op = "queue" -> caller[p].copy \cup {caller[p].award}
      [] caller[p].op = "settle" -> caller[p].copy \ {caller[p].award}
      [] OTHER -> caller[p].copy

\* _write_json_state_unlocked: a temporary file, then a rename over the old one. A read
\* writes nothing; opening writes only where there is no file.
WriteFile(p) ==
    /\ caller[p].pc = "write" /\ Goto(p, "unlock")
    /\ IF caller[p].op = "read" \/ (caller[p].op = "open" /\ file # NoFile)
       THEN UNCHANGED file
       ELSE file' = [holds |-> Written(p), parses |-> TRUE]
    /\ settledAwards' = IF caller[p].op = "settle" THEN settledAwards \cup {caller[p].award}
                                                   ELSE settledAwards
    /\ UNCHANGED <<table, backend, storeLock, quarantined, incident, storeFaults>>
    /\ UNCHANGED <<acked, leftOver, unsaved>>
    /\ UNCHANGED reportVars

Unlock(p) ==
    /\ caller[p].pc = "unlock"
    /\ caller' = [caller EXCEPT ![p] = [NoCall EXCEPT !.pc = "open"]]
    /\ storeLock' = [storeLock EXCEPT ![p] = "none"]
    /\ acked' = IF caller[p].op = "queue" THEN acked \cup {caller[p].award} ELSE acked
    /\ UNCHANGED <<fileVars, table, backend, storeFaults, settledAwards, leftOver, unsaved>>
    /\ UNCHANGED reportVars

-----------------------------------------------------------------------------
(* The release that brings SQLite.                                         *)

Upgrade ==
    /\ backend = "json" /\ \A p \in Processes : caller[p].pc = "closed"
    /\ backend' = "sqlite"
    /\ UNCHANGED <<fileVars, table, storeLock, caller, storeFaults>>
    /\ UNCHANGED <<reportVars, historyVars>>

\* _import_legacy_json up to its transaction. An error of the file system ends it: the
\* file is left for the next start.
ImportRead(p) ==
    /\ caller[p].pc = "import"
    /\ \/ file = NoFile /\ Goto(p, "unlock")
       \/ /\ file # NoFile /\ ~file.parses /\ Goto(p, "import set aside")
       \/ /\ file # NoFile /\ file.parses
          /\ caller' = [caller EXCEPT ![p].pc = "commit", ![p].copy = file.holds]
    /\ UNCHANGED <<fileVars, table, backend, storeLock, storeFaults>>
    /\ UNCHANGED <<reportVars, historyVars>>

\* INSERT OR IGNORE of every row, and the count of them, in one transaction.
ImportCommit(p) ==
    /\ caller[p].pc = "commit" /\ Goto(p, "rename")
    /\ table' = table \cup caller[p].copy
    /\ UNCHANGED <<fileVars, backend, storeLock, storeFaults>>
    /\ UNCHANGED <<reportVars, historyVars>>

\* A mutation: the imported file stays where it is.
NeverRenames(p) ==
    /\ caller[p].pc = "rename" /\ Goto(p, "unlock")
    /\ UNCHANGED <<fileVars, table, backend, storeLock, storeFaults>>
    /\ UNCHANGED <<reportVars, historyVars>>

ImportRename(p) ==
    /\ caller[p].pc = "rename" /\ Goto(p, "unlock")
    /\ file' = NoFile
    /\ UNCHANGED <<table, backend, storeLock, quarantined, incident, storeFaults>>
    /\ UNCHANGED <<reportVars, historyVars>>

\* The transaction or the rename fails: the file is kept, and the store is used all the same.
ImportFails(p) ==
    /\ caller[p].pc \in {"commit", "rename"}
    /\ Blame /\ Goto(p, "unlock") /\ leftOver' = TRUE
    /\ UNCHANGED <<fileVars, table, backend, storeLock, acked, settledAwards, unsaved>>
    /\ UNCHANGED reportVars

\* A call on SQLite is one transaction.
TableQueue(p, a) ==
    /\ p = Service /\ caller[p].pc = "open" /\ backend = "sqlite" /\ Unearned(a)
    /\ table' = table \cup {a} /\ acked' = acked \cup {a}
    /\ UNCHANGED <<fileVars, backend, storeLock, caller, storeFaults>>
    /\ UNCHANGED <<settledAwards, leftOver, unsaved>>
    /\ UNCHANGED reportVars

\* The flush delivered the award; the row goes.
TableSettle(p, a) ==
    /\ caller[p].pc = "open" /\ backend = "sqlite" /\ a \in table \ settledAwards
    /\ table' = table \ {a} /\ settledAwards' = settledAwards \cup {a}
    /\ UNCHANGED <<fileVars, backend, storeLock, caller, storeFaults>>
    /\ UNCHANGED <<acked, leftOver, unsaved>>
    /\ UNCHANGED reportVars

-----------------------------------------------------------------------------
(* The report of an incident: the service tries at each start, the menu    *)
(* once, when it tells the user.                                           *)

Tell(p, pc) == teller' = [teller EXCEPT ![p].pc = pc]
Told(p) == teller' = [teller EXCEPT ![p] = [Quiet EXCEPT !.pc = "seen"]]

\* retry_storage_corruption_report, at the start of the service.
ServiceLooks ==
    /\ teller[Service].pc = "unseen" /\ caller[Service].pc = "open"
    /\ incident # NoIncident /\ ~incident.reported
    /\ teller' = [teller EXCEPT ![Service] = [pc |-> "upload", held |-> incident.id]]
    /\ UNCHANGED <<fileVars, table, backend, storeLock, caller, storeFaults, uploads>>
    /\ UNCHANGED historyVars

\* maybe_show_storage_corruption_notice: marked as notified before anything is sent.
MenuLooks ==
    /\ teller[Menu].pc = "unseen" /\ caller[Menu].pc = "open"
    /\ incident # NoIncident /\ ~incident.notified
    /\ teller' = [teller EXCEPT ![Menu] =
                     [pc |-> IF incident.reported THEN "seen" ELSE "upload", held |-> incident.id]]
    /\ incident' = [incident EXCEPT !.notified = TRUE]
    /\ UNCHANGED <<file, table, backend, storeLock, caller, quarantined, storeFaults, uploads>>
    /\ UNCHANGED historyVars

\* The upload takes as long as the network does.
Upload(p) ==
    /\ teller[p].pc = "upload"
    /\ \/ Tell(p, "mark") /\ uploads' = uploads \cup {teller[p].held}
       \/ Told(p) /\ UNCHANGED uploads
    /\ UNCHANGED <<fileVars, table, backend, storeLock, caller, storeFaults>>
    /\ UNCHANGED historyVars

\* mark_reported: whatever incident is there by now.
MarkReported(p) ==
    /\ teller[p].pc = "mark" /\ Told(p)
    /\ incident' = IF incident = NoIncident THEN NoIncident
                                            ELSE [incident EXCEPT !.reported = TRUE]
    /\ UNCHANGED <<file, table, backend, storeLock, caller, quarantined, storeFaults, uploads>>
    /\ UNCHANGED historyVars

-----------------------------------------------------------------------------
(* Faults.                                                                 *)

\* A process ends, at any step. Its lock ends with it, and its thread that reports.
ProcessEnds(p) ==
    /\ caller[p].pc # "closed"
    /\ IF caller[p].pc = "open" THEN UNCHANGED storeFaults ELSE Blame
    /\ caller' = [caller EXCEPT ![p] = NoCall]
    /\ storeLock' = [storeLock EXCEPT ![p] = "none"]
    /\ teller' = [teller EXCEPT ![p] = Quiet]
    /\ UNCHANGED <<fileVars, table, backend, uploads>>
    /\ UNCHANGED historyVars

\* The disk damages the file.
Damage ==
    /\ file # NoFile /\ file.parses /\ Blame
    /\ file' = [file EXCEPT !.parses = FALSE]
    /\ UNCHANGED <<table, backend, storeLock, caller, quarantined, incident>>
    /\ UNCHANGED <<reportVars, historyVars>>

StoreNext ==
    \/ Upgrade \/ Damage \/ ServiceLooks \/ MenuLooks
    \/ \E p \in Processes :
        \/ \E op \in {"open", "read"} : Call(p, op, "none")
        \/ \E op \in {"queue", "settle"}, a \in Awards : Call(p, op, a)
        \/ TakeStoreLock(p) \/ Load(p) \/ WriteFile(p) \/ Unlock(p)
        \/ SetAside(p) \/ SetAsideFails(p) \/ RecordIncident(p)
        \/ ImportRead(p) \/ ImportCommit(p) \/ ImportRename(p) \/ ImportFails(p)
        \/ \E a \in Awards : TableQueue(p, a) \/ TableSettle(p, a)
        \/ Upload(p) \/ MarkReported(p)
        \/ ProcessEnds(p)

StoreSpec == StoreInit /\ [][StoreNext]_storeVars

-----------------------------------------------------------------------------
(* Properties.                                                             *)

InFile == IF file = NoFile THEN {} ELSE file.holds
Held == IF backend = "json" THEN InFile ELSE table

StoreTypeOK ==
    /\ file \in StoredFiles \cup {NoFile} /\ incident \in Incidents \cup {NoIncident}
    /\ table \in SUBSET Awards /\ backend \in {"json", "sqlite"}
    /\ storeLock \in [Processes -> {"none", "shared", "exclusive"}]
    /\ caller \in [Processes -> Calls] /\ teller \in [Processes -> Reports]
    /\ IsFiniteSet(quarantined)
    /\ quarantined \in SUBSET [id : Nat, holds : SUBSET Awards, parses : BOOLEAN]
    /\ uploads \in SUBSET Int /\ acked \in SUBSET Awards /\ settledAwards \in SUBSET Awards
    /\ leftOver \in BOOLEAN /\ unsaved \in SUBSET Awards /\ storeFaults \in 0..StoreFaults

SetAsides == UNION {q.holds : q \in quarantined}

\* An award whose storing returned is on the disk until it is delivered: in the store, or
\* in a damaged file that was set aside, through every crash, damage, import and race. It
\* can be lost in one way only: the file is damaged and cannot be set aside.
AwardsOnDisk == acked \ settledAwards \subseteq InFile \cup table \cup SetAsides \cup unsaved

\* Two processes that find the same damage do not set aside what the first wrote after it.
OnlyDamageSetAside == \A q \in quarantined : ~q.parses

\* What an award that was stored can count on, in the file and beside it.
AwardsSafe == AwardsOnDisk /\ OnlyDamageSetAside

\* An award that was delivered and taken out does not come back from the old file, through
\* every crash in the import, unless an import had failed and the store was used all the same.
DeliveredStaysOut == [][settledAwards \cap Held' \subseteq Held \/ leftOver]_storeVars

\* What the code does not keep: a damaged file is set aside before a write goes over it.
SetAsideFirst == acked \ settledAwards \subseteq InFile \cup table \cup SetAsides

\* Nor: "The service retries silently on every startup until it actually gets through", so
\* that an incident counts as reported only once support was told of that incident.
ReportGotThrough ==
    incident # NoIncident /\ incident.reported => incident.id \in uploads
=============================================================================
