----------------------------- MODULE ImageCache -----------------------------
(***************************************************************************)
(* The image cache (image_cache.py): one image of one game, the cover the  *)
(* game keeps a copy of, and everything that downloads it - the service's  *)
(* background executor ("pool"), the batch of the caching worker           *)
(* ("batch") and the executor of the menu, another process ("menu").       *)
(* All of them write to one temporary name and rename it, so the model     *)
(* keeps files (inodes) and names apart: a writer goes on writing to the   *)
(* file it opened whatever its name is now.                                *)
(***************************************************************************)
EXTENDS Naturals, FiniteSets

CONSTANT ImageFaults    \* the killed processes and full disks of a behaviour

ASSUME ImageAssumption == ImageFaults \in Nat

Getters   == {"pool", "batch", "menu"}
Programs == {"service", "menu"}
ProcessOf(d) == IF d = "menu" THEN "menu" ELSE "service"

Inodes == 1 .. 4
NoInode == 0

VARIABLES
  names,     \* what "image" and "tmp" name: an inode or NoInode
  whole,     \* the inodes that hold the complete image (the others are truncated)
  icon,      \* the game's own copy: "none", "half" or "whole"
  folder,    \* the folder of the image exists
  getter,    \* per getter: its step, the inode it has open, whether it is to make the
             \* icon too and whether the image it copies was complete
  pending,   \* the processes whose pending set holds the image
  imageMishaps   \* processes killed and disks filled so far

imageVars == <<names, whole, icon, folder, getter, pending, imageMishaps>>

NoWork == [step |-> "idle", fd |-> NoInode, forGame |-> FALSE, read |-> FALSE]

Steps == {"idle", "queued", "look", "fetch", "open", "write", "rename", "clean",
          "icon", "copy", "put", "done"}

ImageTypeOK ==
  /\ names \in [{"image", "tmp"} -> Inodes \cup {NoInode}]
  /\ whole \subseteq Inodes
  /\ icon \in {"none", "half", "whole"}
  /\ folder \in BOOLEAN
  /\ getter \in [Getters -> [step : Steps, fd : Inodes \cup {NoInode}, forGame : BOOLEAN,
                            read : BOOLEAN]]
  /\ pending \subseteq Programs
  /\ imageMishaps \in 0 .. ImageFaults

ImageInit ==
  /\ names = [n \in {"image", "tmp"} |-> NoInode]
  /\ whole = {}
  /\ icon = "none"
  /\ folder = FALSE
  /\ getter = [d \in Getters |-> NoWork]
  /\ pending = {}
  /\ imageMishaps = 0

-----------------------------------------------------------------------------
(* The order with the file opened before its content is there.              *)
OpensFirst(step) ==
  CASE step = "look"   -> "open"
    [] step = "open"   -> "fetch"
    [] step = "fetch"  -> "write"
    [] step = "write"  -> "rename"
    [] step = "rename" -> "icon"
    [] step = "icon"   -> "copy"
    [] step = "copy"   -> "put"
    [] OTHER           -> "done"

(* The order of a download: fetched first, then written under the temporary *)
(* name, then renamed. Anything that raises goes to "clean", the finally    *)
(* branch, and from there out of the function.                              *)
Following(step) ==
  CASE step = "look"   -> "fetch"
    [] step = "fetch"  -> "open"
    [] step = "open"   -> "write"
    [] step = "write"  -> "rename"
    [] step = "rename" -> "icon"
    [] step = "icon"   -> "copy"
    [] step = "copy"   -> "put"
    [] OTHER           -> "done"

Moves(d, step) == getter' = [getter EXCEPT ![d].step = step]

(* resolve_cached_static_asset                                              *)
Cached == names["image"] # NoInode

(* schedule_image_download on the executor of a process: one download of a  *)
(* path at a time, whoever asked first decides whether the icon is made.    *)
Schedule(d, forGame) ==
  /\ ProcessOf(d) \notin pending
  /\ getter[d] = NoWork
  /\ pending' = pending \cup {ProcessOf(d)}
  /\ getter' = [getter EXCEPT ![d] = [NoWork EXCEPT !.step = "queued", !.forGame = forGame]]
  /\ UNCHANGED <<names, whole, icon, folder, imageMishaps>>

(* An answer of the server that names the image passes through the proxy    *)
(* (patch and achievementsets tell the game, login2 does not).              *)
AnswerNamesImage == \E forGame \in BOOLEAN : Schedule("pool", forGame)

(* An emulator asks the proxy for an image that is not cached.              *)
ForwardImage == ~Cached /\ Schedule("pool", FALSE)

(* The menu draws the game list.                                            *)
Preview == ~Cached /\ Schedule("menu", FALSE)

(* images_downloaded_inline: the caching worker collects what a game names  *)
(* and fetches, when the block ends, what is not there yet.                 *)
BatchFetches ==
  /\ getter["batch"] = NoWork
  /\ ~Cached
  /\ getter' = [getter EXCEPT !["batch"] = [NoWork EXCEPT !.step = "look", !.forGame = TRUE]]
  /\ UNCHANGED <<names, whole, icon, folder, pending, imageMishaps>>

(* A worker of the executor takes the download.                             *)
Take(d) ==
  /\ getter[d].step = "queued"
  /\ Moves(d, "look")
  /\ UNCHANGED <<names, whole, icon, folder, pending, imageMishaps>>

(* Nothing is fetched when the image is there.                              *)
LookForImage(d) ==
  /\ getter[d].step = "look"
  /\ IF Cached THEN Moves(d, "icon") /\ UNCHANGED folder
     ELSE Moves(d, Following("look")) /\ folder' = TRUE
  /\ UNCHANGED <<names, whole, icon, pending, imageMishaps>>

Fetch(d) ==
  /\ getter[d].step = "fetch"
  /\ \/ Moves(d, Following("fetch"))
     \/ Moves(d, "clean")       \* no connection, an error, a time-out
  /\ UNCHANGED <<names, whole, icon, folder, pending, imageMishaps>>

InUse == {names["image"], names["tmp"]} \cup {getter[d].fd : d \in Getters}
Unused == CHOOSE i \in Inodes : i \notin InUse /\ \A j \in Inodes \ InUse : i <= j

(* write_bytes opens the temporary name: an existing file is truncated.     *)
OpenTmp(d) ==
  /\ getter[d].step = "open"
  /\ IF folder
     THEN LET fd == IF names["tmp"] = NoInode THEN Unused ELSE names["tmp"] IN
          /\ names' = [names EXCEPT !["tmp"] = fd]
          /\ whole' = whole \ {fd}
          /\ getter' = [getter EXCEPT ![d].fd = fd, ![d].step = Following("open")]
     ELSE Moves(d, "clean") /\ UNCHANGED <<names, whole>>
  /\ UNCHANGED <<icon, folder, pending, imageMishaps>>

WriteTmp(d) ==
  /\ getter[d].step = "write"
  /\ \/ /\ whole' = whole \cup {getter[d].fd}
        /\ getter' = [getter EXCEPT ![d].fd = NoInode, ![d].step = Following("write")]
        /\ UNCHANGED imageMishaps
     \/ /\ imageMishaps < ImageFaults       \* the disk is full
        /\ imageMishaps' = imageMishaps + 1
        /\ getter' = [getter EXCEPT ![d].fd = NoInode, ![d].step = "clean"]
        /\ UNCHANGED whole
  /\ UNCHANGED <<names, icon, folder, pending>>

(* The rename fails when another download has renamed the file already.     *)
RenameTmp(d) ==
  /\ getter[d].step = "rename"
  /\ IF names["tmp"] # NoInode
     THEN /\ names' = [names EXCEPT !["image"] = names["tmp"], !["tmp"] = NoInode]
          /\ Moves(d, Following("rename"))
     ELSE Moves(d, "clean") /\ UNCHANGED names
  /\ UNCHANGED <<whole, icon, folder, pending, imageMishaps>>

(* The finally branch: the temporary name goes, whoever wrote it.           *)
CleanedNames == [names EXCEPT !["tmp"] = NoInode]

Clean(d) ==
  /\ getter[d].step = "clean"
  /\ names' = CleanedNames
  /\ getter' = [getter EXCEPT ![d].fd = NoInode, ![d].step = "done"]
  /\ UNCHANGED <<whole, icon, folder, pending, imageMishaps>>

(* The copy for the game's folder, written under its own name from what the *)
(* image holds at that moment.                                              *)
LookForIcon(d) ==
  /\ getter[d].step = "icon"
  /\ Moves(d, IF getter[d].forGame /\ Cached /\ icon = "none" THEN Following("icon") ELSE "done")
  /\ UNCHANGED <<names, whole, icon, folder, pending, imageMishaps>>

CopyIcon(d) ==
  /\ getter[d].step = "copy"
  /\ IF Cached
     THEN /\ icon' = "half"
          /\ getter' = [getter EXCEPT ![d].step = Following("copy"),
                                      ![d].read = names["image"] \in whole]
     ELSE Moves(d, "done") /\ UNCHANGED icon
  /\ UNCHANGED <<names, whole, folder, pending, imageMishaps>>

PutIcon(d) ==
  /\ getter[d].step = "put"
  /\ Moves(d, Following("put"))
  /\ icon' = IF icon = "half" /\ getter[d].read THEN "whole" ELSE icon
  /\ UNCHANGED <<names, whole, folder, pending, imageMishaps>>

(* A wrapper that forgets it after a download that did not succeed.         *)
KeepsFailed(d) == IF Cached THEN pending \ {ProcessOf(d)} ELSE pending

(* The wrapper of the executor's downloads takes the image off the pending  *)
(* set however the download ended.                                          *)
PendingAfter(d) == pending \ {ProcessOf(d)}

FinishImage(d) ==
  /\ getter[d].step = "done"
  /\ pending' = IF d = "batch" THEN pending ELSE PendingAfter(d)
  /\ getter' = [getter EXCEPT ![d] = NoWork]
  /\ UNCHANGED <<names, whole, icon, folder, imageMishaps>>

-----------------------------------------------------------------------------
(* The user removes the game: only its own folder goes. Clearing the cache  *)
(* takes the whole tree.                                                    *)
RemoveGame ==
  /\ icon # "none"
  /\ icon' = "none"
  /\ UNCHANGED <<names, whole, folder, getter, pending, imageMishaps>>

ClearImages ==
  /\ folder \/ icon # "none"
  /\ names' = [n \in {"image", "tmp"} |-> NoInode]
  /\ icon' = "none"
  /\ folder' = FALSE
  /\ UNCHANGED <<whole, getter, pending, imageMishaps>>

(* shutdown_image_downloads: the menu closes; what has not started is        *)
(* dropped, what runs is finished before the process ends. The next menu     *)
(* starts with an empty pending set.                                         *)
MenuCloses ==
  /\ getter["menu"].step = "queued"
  /\ getter' = [getter EXCEPT !["menu"] = NoWork]
  /\ pending' = pending \ {"menu"}
  /\ UNCHANGED <<names, whole, icon, folder, imageMishaps>>

(* A process is killed and started again.                                    *)
Kill(p) ==
  /\ imageMishaps < ImageFaults
  /\ imageMishaps' = imageMishaps + 1
  /\ \E d \in Getters : ProcessOf(d) = p /\ getter[d] # NoWork
  /\ getter' = [d \in Getters |-> IF ProcessOf(d) = p THEN NoWork ELSE getter[d]]
  /\ pending' = pending \ {p}
  /\ UNCHANGED <<names, whole, icon, folder>>

ImageNext ==
  \/ AnswerNamesImage \/ ForwardImage \/ Preview \/ BatchFetches
  \/ \E d \in Getters :
       \/ Take(d) \/ LookForImage(d) \/ Fetch(d) \/ OpenTmp(d) \/ WriteTmp(d)
       \/ RenameTmp(d) \/ Clean(d) \/ LookForIcon(d) \/ CopyIcon(d) \/ PutIcon(d)
       \/ FinishImage(d)
  \/ RemoveGame \/ ClearImages \/ MenuCloses
  \/ \E p \in Programs : Kill(p)

ImageSpec == ImageInit /\ [][ImageNext]_imageVars

-----------------------------------------------------------------------------
(* What is unfinished on the disk - a temporary file, or an image that is    *)
(* cut off - belongs to a download that still runs, as long as no process    *)
(* was killed and no disk was full: three writers share one temporary name,  *)
(* and none leaves behind what another one broke.                            *)
UnfinishedIsWorkedOn ==
  ((names["tmp"] # NoInode \/ (Cached /\ names["image"] \notin whole)) /\ imageMishaps = 0)
     => \E d \in Getters : getter[d].step \in {"open", "fetch", "write", "rename", "clean"}

(* An image in the pending set of a process is queued or being downloaded    *)
(* there. One that stayed in it would never be asked for again until the     *)
(* process ends.                                                             *)
PendingIsWorkedOn ==
  /\ "service" \in pending => getter["pool"] # NoWork
  /\ "menu" \in pending => getter["menu"] # NoWork

(* An image that is asked for is either being worked on or can be asked for   *)
(* again.                                                                    *)
ImagesGetDone == UnfinishedIsWorkedOn /\ PendingIsWorkedOn

(* What the code does not keep: the image it serves as cached is complete    *)
(* (image_cache.py:354, "Returns the cached static image file for path, or   *)
(* None if not yet downloaded").                                             *)
CachedIsWhole == (Cached /\ imageMishaps = 0) => names["image"] \in whole
=============================================================================
