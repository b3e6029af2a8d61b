--------------------------- MODULE WatchedFolders ---------------------------
(***************************************************************************)
(* A watched folder file by file (watch_folders.py, smart_cache.py          *)
(* 201-316): the service's thread lists it, queues the files that carry no   *)
(* mark and marks the ones it dealt with, while files come and go, the user  *)
(* switches watching off and on, and a manual run fills the same queue.      *)
(***************************************************************************)
EXTENDS Naturals, FiniteSets

CONSTANTS
  Files,         \* the paths a file may have, in the order of the listing
  Content(_),    \* the ROM at a path
  Name(_),       \* normalize_cached_rom_path: the last folder and the file
  MaxEntries,    \* MAX_SCAN_ENTRIES
  Interval,      \* RESCAN_INTERVAL_MS, in ticks
  ManualRuns,    \* BOOLEAN: the user runs Smart Cache by hand
  Rewatches,     \* BOOLEAN: the user switches watching off and on
  MaxStops       \* how many scans may be stopped by play

Contents == {Content(f) : f \in Files}
Paths == {Name(f) : f \in Files}
NoPath == "none"

ASSUME FolderAssumption == NoPath \notin Paths /\ Interval \in Nat /\ MaxStops \in Nat

VARIABLES
  present,    \* the files in the folder
  copying,    \* those that are still being copied
  watched,    \* the folder is in config.json
  marks,      \* the watchseen: rows
  since,      \* ticks since the scan that watch_scans remembers; Interval if none
  romQueue,   \* the queue's rows: ROM -> the path it was queued under, or NoPath
  cachedFrom, \* the paths cached games remember
  noMatch,    \* ROMs RetroAchievements does not know
  scan,       \* the service's scan
  menu,       \* the menu's step in switching watching off
  manual,     \* the rows a manual run has queued
  stops,
  settled,    \* for the properties: ROMs that left the queue for a reason
  misread     \* and files that were read half-copied, or not at all

folderVars == <<present, copying, watched, marks, since, romQueue, cachedFrom, noMatch,
                scan, menu, manual, stops, settled, misread>>
outcomes == <<settled, misread>>

NoScan == [step |-> "idle", listed |-> {}, gone |-> {}, new |-> {}, waiting |-> {},
          mine |-> {}, handled |-> {}, complete |-> FALSE]
Steps == {"idle", "marks", "fill", "mark", "forget", "record"}

FolderTypeOK ==
  /\ copying \subseteq present /\ present \subseteq Files /\ misread \subseteq Files
  /\ marks \subseteq Files /\ watched \in BOOLEAN
  /\ since \in 0..Interval
  /\ romQueue \in [Contents -> Paths \cup {NoPath}] /\ cachedFrom \subseteq Paths
  /\ noMatch \subseteq Contents /\ settled \subseteq Contents /\ manual \subseteq Contents
  /\ scan \in [step : Steps, listed : SUBSET Files, gone : SUBSET Files, new : SUBSET Files,
               waiting : SUBSET Files, mine : SUBSET Contents, handled : SUBSET Files,
               complete : BOOLEAN]
  /\ menu \in {"idle", "forgetScan", "unwatch"} /\ stops \in 0..MaxStops

Queued(r) == romQueue[r] # NoPath

(* known_rom_paths: a file counts as known by its last folder and its name.  *)
Known(f) == Name(f) \in cachedFrom \cup {romQueue[r] : r \in {q \in Contents : Queued(q)}}

(* list_scannable_files_recursive stops at its limit.                        *)
Listing == {f \in present : Cardinality({g \in present : g < f}) < MaxEntries}

(* A game cached from some other dump has an answer too.                     *)
IsAnswered(r) == r \in noMatch \/ \E f \in Files : Content(f) = r /\ Name(f) \in cachedFrom /\ r \in settled

-----------------------------------------------------------------------------
(* scan_folder                                                             *)

Other == <<present, copying, watched, menu, manual, stops>>

(* due_folders                                                               *)
Due == watched /\ since >= Interval

(* process_once, which stands down for a manual run.                         *)
ScanBegins ==
  /\ scan = NoScan /\ Due /\ manual = {}
  /\ scan' = [NoScan EXCEPT !.step = "marks", !.listed = Listing]
  /\ UNCHANGED <<Other, marks, since, romQueue, cachedFrom, noMatch, outcomes>>

(* seen_paths, known_rom_paths, and the first mark_seen. What is gone from a   *)
(* listing is found here, unless the listing was cut off.                      *)
ScanMarks ==
  /\ scan.step = "marks"
  /\ LET unseen == scan.listed \ marks
         new == {f \in unseen : ~Known(f)}
     IN /\ marks' = marks \cup (unseen \ new)
        /\ scan' = [scan EXCEPT !.step = "fill", !.listed = {}, !.new = new,
             !.gone = IF Cardinality(scan.listed) < MaxEntries THEN marks \ scan.listed ELSE {}]
  /\ UNCHANGED <<Other, since, romQueue, cachedFrom, noMatch, outcomes>>

(* No result for a file whose answer was there.                              *)
ForgetsAnswered(f) == scan.handled
Dealt(f) == scan.handled \cup {f}

ToDo == scan.new \ (scan.handled \cup scan.waiting)

(* One file of run_cache_paths. A file that has its answer is dealt with, and  *)
(* so is one that cannot be hashed or whose first half no game has; the        *)
(* others wait in the queue.                                                   *)
ScanFill(f) ==
  /\ scan.step = "fill" /\ f \in ToDo
  /\ LET r == Content(f) IN
     \/ /\ f \in present \ copying => IsAnswered(r)
        /\ scan' = [scan EXCEPT !.handled = Dealt(f)]
        /\ misread' = IF f \in present \ copying THEN misread \ {f} ELSE misread \cup {f}
        /\ UNCHANGED romQueue
     \/ /\ f \in present \ copying /\ ~IsAnswered(r)
        /\ misread' = misread \ {f}
        /\ scan' = [scan EXCEPT !.waiting = @ \cup {f},
                                !.mine = IF Queued(r) THEN @ ELSE @ \cup {r}]
        /\ romQueue' = IF Queued(r) THEN romQueue ELSE [romQueue EXCEPT ![r] = Name(f)]
  /\ UNCHANGED <<Other, marks, since, cachedFrom, noMatch, settled>>

(* Rows that an aborted run removed count as dealt with.                     *)
CountsAll(rows) == scan.waiting
(* What a stopped run reports of the files that wait: still queued, or not.   *)
StillQueued(rows) == {f \in scan.waiting : rows[Content(f)] # NoPath}

(* Play stops the run: it takes back the rows it has added.                  *)
ScanStop ==
  /\ scan.step = "fill" /\ stops < MaxStops
  /\ LET rows == [r \in Contents |-> IF r \in scan.mine THEN NoPath ELSE romQueue[r]] IN
     /\ romQueue' = rows
     /\ scan' = [scan EXCEPT !.step = "mark", !.handled = @ \cup StillQueued(rows)]
  /\ stops' = stops + 1
  /\ UNCHANGED <<present, copying, watched, menu, manual, marks, since, cachedFrom, noMatch, outcomes>>

(* A run that was not stopped has a result for every file.                   *)
ScanFilled ==
  /\ scan.step = "fill" /\ ToDo = {}
  /\ scan' = [scan EXCEPT !.step = "mark", !.handled = @ \cup scan.waiting]
  /\ UNCHANGED <<Other, marks, since, romQueue, cachedFrom, noMatch, outcomes>>

ScanMark ==
  /\ scan.step = "mark"
  /\ marks' = marks \cup scan.handled
  /\ scan' = [NoScan EXCEPT !.step = "forget", !.gone = scan.gone,
                           !.complete = (scan.handled = scan.new)]
  /\ UNCHANGED <<Other, since, romQueue, cachedFrom, noMatch, outcomes>>

(* forget_seen                                                               *)
ScanForget ==
  /\ scan.step = "forget"
  /\ marks' = marks \ scan.gone
  /\ scan' = [scan EXCEPT !.step = "record", !.gone = {}]
  /\ UNCHANGED <<Other, since, romQueue, cachedFrom, noMatch, outcomes>>

(* record_scan of a complete scan                                            *)
ScanRecord ==
  /\ scan.step = "record"
  /\ since' = IF scan.complete THEN 0 ELSE since
  /\ scan' = NoScan
  /\ UNCHANGED <<Other, marks, romQueue, cachedFrom, noMatch, outcomes>>

Scanning ==
  \/ ScanMarks \/ ScanFilled \/ ScanMark \/ ScanForget \/ ScanRecord
  \/ \E f \in Files : ScanFill(f)

-----------------------------------------------------------------------------
(* The others                                                              *)

Theirs == <<scan, stops, misread, copying>>

(* A drain caches the ROM, learns that it is not known, or gives it up.       *)
Drained(r) ==
  /\ Queued(r)
  /\ romQueue' = [romQueue EXCEPT ![r] = NoPath]
  /\ manual' = manual \ {r}
  /\ settled' = settled \cup {r}
  /\ \/ cachedFrom' = cachedFrom \cup {romQueue[r]} /\ UNCHANGED noMatch
     \/ noMatch' = noMatch \cup {r} /\ UNCHANGED cachedFrom
     \/ UNCHANGED <<cachedFrom, noMatch>>
  /\ UNCHANGED <<Theirs, present, watched, marks, since, menu>>

(* A manual run queues a ROM of the folder, and may be aborted.              *)
ManualQueue(f) ==
  /\ ManualRuns /\ f \in present /\ ~Queued(Content(f)) /\ ~IsAnswered(Content(f))
  /\ romQueue' = [romQueue EXCEPT ![Content(f)] = Name(f)]
  /\ manual' = manual \cup {Content(f)}
  /\ UNCHANGED <<Theirs, present, watched, marks, since, menu, cachedFrom, noMatch, settled>>

ManualEnds ==
  /\ manual # {}
  /\ manual' = {}
  /\ UNCHANGED <<Theirs, present, watched, marks, since, menu, romQueue, cachedFrom, noMatch, settled>>

ManualAborts ==
  /\ manual # {}
  /\ romQueue' = [r \in Contents |-> IF r \in manual THEN NoPath ELSE romQueue[r]]
  /\ settled' = settled \cup manual
  /\ manual' = {}
  /\ UNCHANGED <<Theirs, present, watched, marks, since, menu, cachedFrom, noMatch>>

(* unwatch_folder: the marks, the scan's time, and then the setting.         *)
ForgetMarks ==
  /\ Rewatches /\ menu = "idle" /\ watched
  /\ marks' = {} /\ menu' = "forgetScan"
  /\ UNCHANGED <<Theirs, present, watched, since, romQueue, cachedFrom, noMatch, manual, settled>>
ForgetScan ==
  /\ menu = "forgetScan"
  /\ since' = Interval /\ menu' = "unwatch"
  /\ UNCHANGED <<Theirs, present, watched, marks, romQueue, cachedFrom, noMatch, manual, settled>>
Unwatch ==
  /\ menu = "unwatch"
  /\ watched' = FALSE /\ menu' = "idle"
  /\ UNCHANGED <<Theirs, present, marks, since, romQueue, cachedFrom, noMatch, manual, settled>>
(* watch_folder                                                              *)
Watch ==
  /\ ~watched /\ watched' = TRUE
  /\ UNCHANGED <<Theirs, present, marks, since, romQueue, cachedFrom, noMatch, menu, manual, settled>>

FileComes(f) ==
  /\ f \notin present /\ present' = present \cup {f} /\ copying' = copying \cup {f}
  /\ UNCHANGED <<scan, stops, misread, watched, marks, since, romQueue, cachedFrom, noMatch,
                 menu, manual, settled>>
FileGoes(f) ==
  /\ f \in present /\ present' = present \ {f} /\ copying' = copying \ {f}
  /\ UNCHANGED <<scan, stops, misread, watched, marks, since, romQueue, cachedFrom, noMatch,
                 menu, manual, settled>>
Copied(f) ==
  /\ f \in copying /\ copying' = copying \ {f}
  /\ UNCHANGED <<scan, stops, misread, present, watched, marks, since, romQueue, cachedFrom,
                 noMatch, menu, manual, settled>>
Minute ==
  /\ since < Interval /\ since' = since + 1
  /\ UNCHANGED <<Theirs, present, watched, marks, romQueue, cachedFrom, noMatch, menu, manual, settled>>

FolderInit ==
  /\ present = {} /\ watched = FALSE /\ marks = {} /\ since = Interval
  /\ romQueue = [r \in Contents |-> NoPath] /\ cachedFrom = {} /\ noMatch = {} /\ settled = {}
  /\ scan = NoScan /\ menu = "idle" /\ manual = {} /\ stops = 0
  /\ copying = {} /\ misread = {}

FolderNext ==
  \/ ScanBegins \/ Scanning \/ ScanStop
  \/ ManualEnds \/ ManualAborts \/ ForgetMarks \/ ForgetScan \/ Unwatch \/ Watch \/ Minute
  \/ \E r \in Contents : Drained(r)
  \/ \E f \in Files : ManualQueue(f) \/ FileComes(f) \/ FileGoes(f) \/ Copied(f)

(* The thread starts a scan every minute while nobody plays, and time passes. *)
FolderFairness == WF_folderVars(ScanBegins) /\ WF_folderVars(Scanning) /\ WF_folderVars(Minute)
                  /\ WF_folderVars(ManualEnds)

FolderSpec == FolderInit /\ [][FolderNext]_folderVars /\ FolderFairness

-----------------------------------------------------------------------------
Namesakes(f) == {g \in Files \ {f} : Name(g) = Name(f)}

(* A file is marked, and so never looked at again, only while its ROM waits   *)
(* in the queue or after it left the queue for a reason: a scan that was       *)
(* stopped, whose rows are taken back, leaves no mark on them. Not so a file   *)
(* that was read half-copied, nor one whose namesake stood for it.            *)
NothingSlips == \A f \in marks \ misread :
  Queued(Content(f)) \/ Content(f) \in settled \/ Namesakes(f) # {}

(* A file that stays in a folder that stays watched is taken up, unless       *)
(* manual runs never leave the service alone.                                 *)
TakenUp == \A f \in Files :
  <>[](watched /\ f \in Listing /\ menu = "idle" /\ manual = {}) => []<>(f \in marks)

(* What the code does not keep: "New games added to it are cached            *)
(* automatically" (docs/windows.md:17): a ROM that is read while it is being  *)
(* copied is marked, and is not looked at again.                              *)
CopiedIsQueued == \A f \in marks \cap present : f \notin misread \/ f \in copying
=============================================================================
