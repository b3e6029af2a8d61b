---------------------------- MODULE MCCacheWatch ----------------------------
(* A watched folder from both sides: the queue it fills, with its drains and *)
(* their budget, and the folder itself, with its files and marks. A          *)
(* behaviour is one side's, and the other stays as it starts. The folder is  *)
(* explored beside a manual run, switched off and on, and with a scan that   *)
(* is stopped, each apart.                                                   *)
EXTENDS MCCacheQueue, WatchedFolders

VARIABLE side

MCFiles == 1..2
MCContent(f) == IF f = 1 THEN "r" ELSE "s"
MCName(f) == IF f = 1 THEN "a" ELSE "b"

WatchInit == side \in {"queue", "manual", "switch", "stop"} /\ Init /\ FolderInit

WatchNext ==
    /\ side' = side
    /\ \/ side = "queue" /\ Next /\ UNCHANGED folderVars
       \/ /\ side # "queue" /\ FolderNext /\ UNCHANGED vars
          /\ manual' # {} => side = "manual"
          /\ menu' # "idle" => side = "switch"
          /\ stops' # 0 => side = "stop"

watchVars == <<side, vars, folderVars>>

(* What is fair on a side (Fairness, FolderFairness) is so in its behaviours. *)
Queues(A) == side = "queue" /\ A
Watches(A) == side # "queue" /\ A

WatchFairness ==
    /\ \A c \in Runs : WF_vars(Queues(RunStep(c)))
    /\ \A c \in Scans : WF_vars(Queues(ScanStart(c)))
    /\ WF_vars(Queues(WorkerStart)) /\ WF_vars(Queues(DrainStep(Worker)))
    /\ SF_vars(Queues(DrainGoOn(Worker)))
    /\ WF_vars(Queues(Tick)) /\ WF_vars(Queues(PlayEnds))
    /\ WF_folderVars(Watches(ScanBegins)) /\ WF_folderVars(Watches(Scanning))
    /\ WF_folderVars(Watches(Minute)) /\ WF_folderVars(Watches(ManualEnds))

WatchSpec == WatchInit /\ [][WatchNext]_watchVars /\ WatchFairness
=============================================================================
