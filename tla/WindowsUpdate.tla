--------------------------- MODULE WindowsUpdate ---------------------------
(***************************************************************************)
(* The update of the portable folder on Windows: the menu asks for a newer *)
(* release, downloads it, and leaves the rest to a script that runs from   *)
(* a temporary folder: it stops the program, moves its two directories     *)
(* aside, copies the new ones in, puts the old ones back when anything     *)
(* fails, and starts the program again.                                    *)
(***************************************************************************)
EXTENDS Integers

CONSTANTS
    LastBuild,      \* releases are numbered, in their order
    ScriptFaults,   \* failed steps and crashes in a behaviour
    Broken, Absent  \* a directory that is not whole, or not there

Builds == 1..LastBuild

ASSUME BuildsAssumption ==
    LastBuild \in Nat \ {0} /\ ScriptFaults \in Nat /\ Broken \notin Builds /\ Absent \notin Builds

Dirs == {"app", "python"}

VARIABLES
    dirs,       \* directory -> what is there, and what lies beside it as ".old"
    updater,      \* where the script stands
    winRunning,   \* the build that runs: Absent if none
    latestBuild,  \* the newest release
    winStatus,    \* windows_update.json: [offer, failed, age]
    winOffer,     \* what the menu offers
    scriptFaults

winVars == <<dirs, updater, winRunning, latestBuild, winStatus, winOffer, scriptFaults>>

Resting == [pc |-> "idle", build |-> Absent, moved |-> {}, locked |-> FALSE]

WinInit ==
    /\ dirs = [d \in Dirs |-> [now |-> 1, old |-> Absent]]
    /\ updater = Resting
    /\ winRunning = 1 /\ latestBuild = 1
    /\ winStatus = Absent /\ winOffer = Absent
    /\ scriptFaults = 0

StepFails == scriptFaults < ScriptFaults /\ scriptFaults' = scriptFaults + 1
ScriptAt(pc) == updater.pc = pc
ScriptGoes(pc) == updater' = [updater EXCEPT !.pc = pc]

-----------------------------------------------------------------------------
(* check, and the download.                                                *)

ReleaseBuild ==
    /\ latestBuild < LastBuild /\ latestBuild' = latestBuild + 1
    /\ UNCHANGED <<dirs, updater, winRunning, winStatus, winOffer, scriptFaults>>

\* still_newer
StillNewer(b) == IF b # Absent /\ b > winRunning THEN b ELSE Absent

\* A saved answer counts for a day, that of a failed check for an hour.
Counts == winStatus # Absent /\ winStatus.age < (IF winStatus.failed THEN 1 ELSE 2)

WinCheck(force) ==
    /\ winRunning # Absent
    /\ \/ Counts /\ ~force /\ winOffer' = StillNewer(winStatus.offer) /\ UNCHANGED winStatus
       \/ /\ ~Counts \/ force
          /\ \E answered \in BOOLEAN :
                /\ winOffer' = IF answered THEN StillNewer(latestBuild) ELSE Absent
                /\ winStatus' = [offer |-> winOffer', failed |-> ~answered, age |-> 0]
    /\ UNCHANGED <<dirs, updater, winRunning, latestBuild, scriptFaults>>

\* An hour, then the rest of the day.
WinTimePasses ==
    /\ winStatus # Absent /\ winStatus.age < 2
    /\ winStatus' = [winStatus EXCEPT !.age = @ + 1]
    /\ UNCHANGED <<dirs, updater, winRunning, latestBuild, winOffer, scriptFaults>>

\* download_and_launch_installer, for an offer that was checked again, once the download
\* matched its checksum. The menu closes.
LaunchScript ==
    /\ ScriptAt("idle") /\ winRunning # Absent /\ winStatus # Absent
    /\ winOffer # Absent /\ winOffer = StillNewer(winStatus.offer)
    /\ updater' = [Resting EXCEPT !.pc = "stop", !.build = winOffer]
    /\ UNCHANGED <<dirs, winRunning, latestBuild, winStatus, winOffer, scriptFaults>>

-----------------------------------------------------------------------------
(* UPDATER_SCRIPT.                                                         *)

\* Half a minute for everything that runs from the folder; it may not be enough.
StopAll ==
    /\ ScriptAt("stop") /\ winRunning' = Absent /\ winOffer' = Absent
    /\ \/ ScriptGoes("move") /\ UNCHANGED scriptFaults
       \/ StepFails /\ updater' = [updater EXCEPT !.pc = "move", !.locked = TRUE]
    /\ UNCHANGED <<dirs, latestBuild, winStatus>>

\* An older .old is removed first.
MovedAside(d) == dirs' = [dirs EXCEPT ![d] = [now |-> Absent, old |-> dirs[d].now]]

\* First app, then python. A rename fails as a whole while anything inside is in use; it is
\* tried twenty times, and by then that may be over.
MoveAside(d) ==
    /\ ScriptAt("move") /\ d \notin updater.moved /\ (d = "python" => "app" \in updater.moved)
    /\ \/ /\ MovedAside(d) /\ UNCHANGED scriptFaults
          /\ updater' = [updater EXCEPT !.moved = @ \cup {d},
                                      !.pc = IF d = "python" THEN "copy" ELSE "move"]
       \/ updater.locked /\ ScriptGoes("undo") /\ UNCHANGED <<dirs, scriptFaults>>
       \/ StepFails /\ ScriptGoes("undo") /\ UNCHANGED dirs
    /\ UNCHANGED <<winRunning, latestBuild, winStatus, winOffer>>

CopyIn(d) ==
    /\ ScriptAt("copy") /\ dirs[d].now = Absent /\ (d = "python" => dirs["app"].now # Absent)
    /\ \/ /\ dirs' = [dirs EXCEPT ![d].now = updater.build] /\ UNCHANGED scriptFaults
          /\ ScriptGoes(IF d = "python" THEN "dropOld" ELSE "copy")
       \/ dirs' = [dirs EXCEPT ![d].now = Broken] /\ StepFails /\ ScriptGoes("undo")
    /\ UNCHANGED <<winRunning, latestBuild, winStatus, winOffer>>

\* A mutation: nothing is put back.
PutsNothingBack(d) ==
    /\ ScriptAt("undo") /\ d \in updater.moved /\ ScriptGoes("restart")
    /\ UNCHANGED <<dirs, winRunning, latestBuild, winStatus, winOffer, scriptFaults>>

\* What was moved is put back, app first; what fails here, removing the new directory or
\* renaming the old one, ends the script.
Undo(d) ==
    /\ ScriptAt("undo") /\ d \in updater.moved /\ (d = "python" => "app" \notin updater.moved)
    /\ \/ /\ dirs' = [dirs EXCEPT ![d] = [now |-> dirs[d].old, old |-> Absent]]
          /\ updater' = [updater EXCEPT !.moved = @ \ {d}] /\ UNCHANGED scriptFaults
       \/ /\ StepFails /\ ScriptGoes("restart")
          /\ \/ dirs[d].now # Absent /\ dirs' = [dirs EXCEPT ![d].now = Broken]
             \/ dirs' = [dirs EXCEPT ![d].now = Absent]
    /\ UNCHANGED <<winRunning, latestBuild, winStatus, winOffer>>

Undone ==
    /\ ScriptAt("undo") /\ updater.moved = {} /\ ScriptGoes("restart")
    /\ UNCHANGED <<dirs, winRunning, latestBuild, winStatus, winOffer, scriptFaults>>

\* Errors are passed over, here and where the files beside the directories are copied.
DropOld ==
    /\ ScriptAt("dropOld") /\ ScriptGoes("restart")
    /\ \/ dirs' = [d \in Dirs |-> [dirs[d] EXCEPT !.old = Absent]] /\ UNCHANGED scriptFaults
       \/ StepFails /\ \E d \in Dirs : dirs' = [dirs EXCEPT ![d].old = Absent]
    /\ UNCHANGED <<winRunning, latestBuild, winStatus, winOffer>>

Whole == dirs["app"].now \in Builds /\ dirs["python"].now \in Builds

\* "Start again either way."
Restarts ==
    /\ ScriptAt("restart") /\ updater' = Resting
    /\ winRunning' = IF Whole THEN dirs["app"].now ELSE Absent
    /\ UNCHANGED <<dirs, latestBuild, winStatus, winOffer, scriptFaults>>

\* The device goes off, or the user stops everything.
WinStops ==
    /\ IF ScriptAt("idle") THEN winRunning # Absent /\ UNCHANGED scriptFaults ELSE StepFails
    /\ winRunning' = Absent /\ winOffer' = Absent /\ updater' = Resting
    /\ UNCHANGED <<dirs, latestBuild, winStatus>>

\* The user starts the program, or copies a release over the folder.
WinStart ==
    /\ ScriptAt("idle") /\ winRunning = Absent /\ Whole
    /\ winRunning' = dirs["app"].now
    /\ UNCHANGED <<dirs, updater, latestBuild, winStatus, winOffer, scriptFaults>>

CopyByHand(b) ==
    /\ ScriptAt("idle") /\ winRunning = Absent /\ b <= latestBuild
    /\ dirs' = [d \in Dirs |-> [dirs[d] EXCEPT !.now = b]]
    /\ UNCHANGED <<updater, winRunning, latestBuild, winStatus, winOffer, scriptFaults>>

WinNext ==
    \/ ReleaseBuild \/ WinTimePasses \/ LaunchScript \/ StopAll \/ Undone \/ DropOld
    \/ Restarts \/ WinStops \/ WinStart
    \/ \E force \in BOOLEAN : WinCheck(force)
    \/ \E d \in Dirs : MoveAside(d) \/ CopyIn(d) \/ Undo(d)
    \/ \E b \in Builds : CopyByHand(b)

WinSpec == WinInit /\ [][WinNext]_winVars

-----------------------------------------------------------------------------
(* Properties.                                                             *)

States == Builds \cup {Broken, Absent}

WinTypeOK ==
    /\ dirs \in [Dirs -> [now : States, old : States]]
    /\ updater \in [pc : {"idle", "stop", "move", "copy", "undo", "dropOld", "restart"},
                   build : Builds \cup {Absent}, moved : SUBSET Dirs, locked : BOOLEAN]
    /\ (updater.pc = "idle") = (updater.build = Absent)
    /\ winRunning \in Builds \cup {Absent} /\ latestBuild \in Builds
    /\ winStatus \in [offer : Builds \cup {Absent}, failed : BOOLEAN, age : 0..2] \cup {Absent}
    /\ winOffer \in Builds \cup {Absent} /\ scriptFaults \in 0..ScriptFaults

\* "on any failure the old version is put back": whatever one thing goes wrong, what starts
\* after the script is one version, not half of each.
OneVersionStarts ==
    ScriptAt("restart") /\ scriptFaults <= 1 =>
        Whole /\ dirs["app"].now = dirs["python"].now

\* "so the folder is never left half deleted": whatever fails, however often, each directory
\* is whole somewhere.
NeverHalfDeleted ==
    \A d \in Dirs : dirs[d].now \in Builds \/ dirs[d].old \in Builds

\* What the folder can count on: a script that fails leaves a program that starts.
FolderSafe == OneVersionStarts /\ NeverHalfDeleted
=============================================================================
