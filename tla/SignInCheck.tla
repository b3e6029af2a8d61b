----------------------------- MODULE SignInCheck -----------------------------
(***************************************************************************)
(* What the portable Windows folder leaves in Windows, so that a sign-in    *)
(* finds it again (windows/autostart.py, windows/launch.py): a Run entry or *)
(* a logon task, and a launcher under %LOCALAPPDATA% that looks for the     *)
(* folder on the drive it was last on, under whatever letter.  One process  *)
(* works at a time; a power cut may end it between any two of its steps.    *)
(***************************************************************************)
EXTENDS Naturals

CONSTANTS
  Folders,       \* the portable folder, and copies of it
  First,         \* the one that is there from the start
  Volumes,       \* the drives, by serial number
  Letters,       \* the drive letters
  Paths,         \* the places a folder can have on a drive
  Upgrades,      \* BOOLEAN: an entry of a version without the setting may be there
  TwiceUnpacked, \* BOOLEAN: a copy may be made before the first start
  Cuts           \* how many power cuts are explored

Unplugged == 0

ASSUME FirstAssumption == First \in Folders /\ Unplugged \notin Letters

VARIABLES
  at,         \* where each folder is: a drive and a path, or Nowhere
  letter,     \* the letter of each drive, or Unplugged
  id,         \* the id in each folder's portable.txt: the folder that made it
  config,     \* each folder's config.json: the setting and the removal
  runEntry,   \* the Run entry is in the registry
  task,       \* the logon task is registered
  location,   \* location.json of the launcher, or NoLocation
  startScript, \* start.ps1 is there
  proc,       \* the process that works: a folder, and what it does next
  crashes,
  chosen      \* for the properties: what the user chose, or "either" in a removal

checkVars == <<at, letter, id, config, runEntry, task, location, startScript, proc, crashes, chosen>>
windows == <<runEntry, task, location, startScript>>
world == <<at, letter, crashes>>

Nowhere == <<>>
NoId == "none"
NoLocation == [id |-> "nobody"]
Free == [folder |-> First, next |-> "nothing"]

Locations == [id : Folders, volume : Volumes, path : Paths, letter : Letters]

CheckTypeOK ==
  /\ at \in [Folders -> (Volumes \X Paths) \cup {Nowhere}]
  /\ letter \in [Volumes -> Letters \cup {Unplugged}]
  /\ id \in [Folders -> Folders \cup {NoId}]
  /\ config \in [Folders -> [setting : {"unset", "on", "off"}, removed : BOOLEAN]]
  /\ runEntry \in BOOLEAN /\ task \in BOOLEAN /\ startScript \in BOOLEAN
  /\ location \in Locations \/ location = NoLocation
  /\ chosen \in [Folders -> {"on", "off", "either"}]

(* A folder whose drive is plugged in.                                       *)
Present(f) == at[f] # Nowhere /\ letter[at[f][1]] # Unplugged
(* The folder a path on a letter leads to.                                   *)
Under(f, l, p) == Present(f) /\ letter[at[f][1]] = l /\ at[f][2] = p

Installed == runEntry \/ task

-----------------------------------------------------------------------------
(* The launcher                                                            *)

(* No search: only the place the folder was last in.                         *)
LooksOnce == {<<location.letter, location.path>>}

(* start.ps1: first where it was, then at its path on the drive it was on.   *)
LookedAt ==
  {<<location.letter, location.path>>} \cup
  {<<letter[v], location.path>> : v \in {w \in Volumes : w = location.volume /\ letter[w] # Unplugged}}

(* Test-Folder                                                               *)
Carries(f) == id[f] = location.id

(* The last place is tried before the search.                                *)
Picked ==
  LET found(c) == {f \in Folders : Under(f, c[1], c[2]) /\ Carries(f)}
      last == <<location.letter, location.path>>
  IN IF found(last) # {} THEN found(last) ELSE UNION {found(c) : c \in LookedAt}

Launches == Installed /\ startScript /\ location # NoLocation

-----------------------------------------------------------------------------
(* One process                                                             *)

Goes(f, step) == proc' = [folder |-> f, next |-> step]
At(f, step) == proc.folder = f /\ proc.next = step
Ends == proc' = Free

(* is_enabled                                                                *)
Enabled(f) ==
  IF config[f].setting = "unset" THEN Installed ELSE config[f].setting = "on"

(* check_removed                                                             *)
NeverRemoved(f) == FALSE
CheckRemoved(f) == config[f].removed

(* start, by hand or after an update.                                        *)
Start(f) ==
  /\ proc = Free /\ Present(f)
  /\ Goes(f, "refresh")
  /\ UNCHANGED <<world, id, config, windows, chosen>>

(* The launcher runs sign_in of the folder it finds, which starts the proxy   *)
(* if that is turned on or it was running, and otherwise only reverts.        *)
SignIn ==
  /\ proc = Free /\ Launches
  /\ \E f \in Picked, wanted \in BOOLEAN :
       (Enabled(f) \/ wanted) /\ Goes(f, "refresh")
  /\ UNCHANGED <<world, id, config, windows, chosen>>

(* The check is added before the setting is decided.                         *)
AddsFirst(f) == "location"
(* What refresh_location does first.                                         *)
FirstStep(f) == IF config[f].setting = "unset" THEN "decide" ELSE "location"

(* refresh_location                                                          *)
Refresh(f) ==
  /\ At(f, "refresh")
  /\ IF CheckRemoved(f) THEN Ends ELSE Goes(f, FirstStep(f))
  /\ UNCHANGED <<world, id, config, windows, chosen>>

Decide(f) ==
  /\ At(f, "decide")
  /\ config' = [config EXCEPT ![f].setting = IF Enabled(f) THEN "on" ELSE "off"]
  /\ Goes(f, "location")
  /\ UNCHANGED <<world, id, windows, chosen>>

(* _write_location, which gives the folder its id.                           *)
WriteLocation(f, step) ==
  LET mine == IF id[f] = NoId THEN f ELSE id[f] IN
  /\ id' = [id EXCEPT ![f] = mine]
  /\ location' = [id |-> mine, volume |-> at[f][1], path |-> at[f][2],
                  letter |-> letter[at[f][1]]]
  /\ Goes(f, step)
  /\ UNCHANGED <<world, config, runEntry, task, startScript, chosen>>

WriteScript(f, step) ==
  /\ startScript' = TRUE /\ Goes(f, step)
  /\ UNCHANGED <<world, id, config, runEntry, task, location, chosen>>

(* ensure_sign_in_check                                                      *)
Ensure(f) ==
  \/ At(f, "location") /\ WriteLocation(f, "script")
  \/ At(f, "script") /\ WriteScript(f, "entry")
  \/ /\ At(f, "entry")
     /\ runEntry' = (runEntry \/ ~task)
     /\ Ends
     /\ UNCHANGED <<world, id, config, task, location, startScript, chosen>>

(* enable: the setting first, then the launcher, then the task or the entry. *)
Enable(f) ==
  /\ proc = Free /\ Present(f)
  /\ config' = [config EXCEPT ![f] = [setting |-> "on", removed |-> FALSE]]
  /\ chosen' = [chosen EXCEPT ![f] = "on"]
  /\ Goes(f, "enableLocation")
  /\ UNCHANGED <<world, id, windows>>

(* The prompt of _run_elevated is answered or declined.                      *)
Enabling(f) ==
  \/ At(f, "enableLocation") /\ WriteLocation(f, "enableScript")
  \/ At(f, "enableScript") /\ WriteScript(f, "register")
  \/ /\ At(f, "register") /\ task
     /\ Ends /\ UNCHANGED <<world, id, config, windows, chosen>>
  \/ /\ At(f, "register") /\ ~task
     /\ \/ task' = TRUE /\ Goes(f, "oneWay") /\ UNCHANGED runEntry
        \/ runEntry' = TRUE /\ Ends /\ UNCHANGED task
     /\ UNCHANGED <<world, id, config, location, startScript, chosen>>
  \/ /\ At(f, "oneWay")
     /\ runEntry' = FALSE /\ Ends
     /\ UNCHANGED <<world, id, config, task, location, startScript, chosen>>

Disable(f) ==
  /\ proc = Free /\ Present(f)
  /\ config' = [config EXCEPT ![f].setting = "off"]
  /\ chosen' = [chosen EXCEPT ![f] = "off"]
  /\ UNCHANGED <<world, id, windows, proc>>

(* remove_sign_in_check; a declined prompt leaves everything.                *)
RemoveCheck(f) ==
  /\ proc = Free /\ Present(f)
  /\ task' = FALSE
  /\ chosen' = [chosen EXCEPT ![f] = "either"]
  /\ Goes(f, "removeEntry")
  /\ UNCHANGED <<world, id, config, runEntry, location, startScript>>

Removing(f) ==
  \/ /\ At(f, "removeEntry")
     /\ runEntry' = FALSE /\ Goes(f, "removeLauncher")
     /\ UNCHANGED <<world, id, config, task, location, startScript, chosen>>
  \/ /\ At(f, "removeLauncher")
     /\ location' = NoLocation /\ startScript' = FALSE /\ Goes(f, "remember")
     /\ UNCHANGED <<world, id, config, runEntry, task, chosen>>
  \/ /\ At(f, "remember")
     /\ config' = [config EXCEPT ![f] = [setting |-> "off", removed |-> TRUE]]
     /\ chosen' = [chosen EXCEPT ![f] = "off"]
     /\ Ends
     /\ UNCHANGED <<world, id, windows>>

-----------------------------------------------------------------------------
(* The drives and the folders                                              *)

(* A drive is unplugged, or plugged in under a free letter.                  *)
Plug(v, l) ==
  /\ proc = Free /\ letter[v] # l
  /\ l # Unplugged => \A w \in Volumes : letter[w] # l
  /\ letter' = [letter EXCEPT ![v] = l]
  /\ UNCHANGED <<at, crashes, id, config, windows, proc, chosen>>

Vacant(place) == \A f \in Folders : at[f] # place

Move(f, place) ==
  /\ proc = Free /\ Present(f) /\ Vacant(place) /\ letter[place[1]] # Unplugged
  /\ at' = [at EXCEPT ![f] = place]
  /\ UNCHANGED <<letter, crashes, id, config, windows, proc, chosen>>

(* A copy has the id and the settings of the folder it was made of.          *)
Copy(f, g, place) ==
  /\ proc = Free /\ Present(f) /\ at[g] = Nowhere /\ Vacant(place)
  /\ letter[place[1]] # Unplugged
  /\ ~TwiceUnpacked => config[f].setting # "unset"
  /\ at' = [at EXCEPT ![g] = place]
  /\ id' = [id EXCEPT ![g] = id[f]]
  /\ config' = [config EXCEPT ![g] = config[f]]
  /\ chosen' = [chosen EXCEPT ![g] = chosen[f]]
  /\ UNCHANGED <<letter, crashes, windows, proc>>

Cut ==
  /\ proc # Free /\ crashes < Cuts
  /\ crashes' = crashes + 1 /\ Ends
  /\ UNCHANGED <<at, letter, id, config, windows, chosen>>

-----------------------------------------------------------------------------
(* A version without the setting added the entry only when it was turned on. *)
SignInCheckInit ==
  /\ \E v \in Volumes, p \in Paths, was \in BOOLEAN, byTask \in BOOLEAN :
       /\ at = [f \in Folders |-> IF f = First THEN <<v, p>> ELSE Nowhere]
       /\ letter \in [Volumes -> Letters \cup {Unplugged}]
       /\ \A w1, w2 \in Volumes : letter[w1] = letter[w2] => w1 = w2 \/ letter[w1] = Unplugged
       /\ letter[v] # Unplugged
       /\ was => Upgrades
       /\ byTask => was
       /\ task = byTask /\ runEntry = (was /\ ~byTask)
       /\ startScript = was
       /\ id = [f \in Folders |-> IF was /\ f = First THEN First ELSE NoId]
       /\ location = IF was THEN [id |-> First, volume |-> v, path |-> p, letter |-> letter[v]]
                     ELSE NoLocation
       /\ chosen = [f \in Folders |-> IF was /\ f = First THEN "on" ELSE "off"]
  /\ config = [f \in Folders |-> [setting |-> "unset", removed |-> FALSE]]
  /\ proc = Free /\ crashes = 0

SignInCheckNext ==
  \/ SignIn \/ Cut
  \/ \E f \in Folders :
       \/ Start(f) \/ Refresh(f) \/ Decide(f) \/ Ensure(f)
       \/ Enable(f) \/ Enabling(f) \/ Disable(f) \/ RemoveCheck(f) \/ Removing(f)
  \/ \E v \in Volumes, l \in Letters \cup {Unplugged} : Plug(v, l)
  \/ \E place \in Volumes \X Paths, f \in Folders :
       \/ Move(f, place)
       \/ \E g \in Folders \ {f} : Copy(f, g, place)

SignInCheckSpec == SignInCheckInit /\ [][SignInCheckNext]_checkVars

-----------------------------------------------------------------------------
(* Start with Windows is on for a folder exactly when the user turned it on,  *)
(* an older version's entry counting as a choice: neither the check that every *)
(* start adds nor a cut between two steps changes what a sign-in would do.     *)
UserDecides == \A f \in Folders :
  at[f] # Nowhere /\ chosen[f] # "either" => (Enabled(f) <=> chosen[f] = "on")

(* Once the check has been removed from every folder, starts do not bring    *)
(* any of it back, and nothing of it is left.                                *)
RemovedIsGone ==
  (\A f \in Folders : at[f] # Nowhere => config[f].removed) =>
    ~Installed /\ location = NoLocation /\ ~startScript

(* A folder that is where location.json says, on the drive it says, is       *)
(* started at sign-in whatever letter the drive has now, unless another      *)
(* folder of its id has taken the place it was last seen in.                 *)
FolderFound == \A f \in Folders :
  /\ Launches /\ Present(f) /\ Carries(f)
  /\ at[f] = <<location.volume, location.path>>
  => \/ Picked = {f}
     \/ \E g \in Folders \ {f} : Under(g, location.letter, location.path) /\ Picked = {g}

(* What a sign-in does is what the user chose, on and off, wherever the folder *)
(* is by then.                                                                 *)
CheckAsChosen == UserDecides /\ RemovedIsGone /\ FolderFound

(* What the code does not keep: a backup copy on another drive is never      *)
(* started instead (windows/autostart.py:13-14).                             *)
BackupNotStarted == \A f \in Folders :
  Launches /\ Present(f) /\ at[f] = <<location.volume, location.path>> => Picked \subseteq {f}
=============================================================================
