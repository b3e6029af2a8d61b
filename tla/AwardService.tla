---------------------------- MODULE AwardService ----------------------------
(***************************************************************************)
(* The queue of PendingAwards inside the process that runs it: the link to *)
(* RetroAchievements comes and goes, run_proxy_service flushes once when   *)
(* it starts online, and from then on only ConnectivityMonitor flushes, at *)
(* a poll that finds the link up after a poll that found it down.          *)
(*                                                                         *)
(* The monitor's wait between polls is no state: the link may change any   *)
(* number of times between two of them.  A probe answers what the link is; *)
(* the ReachabilityTracker only remembers the last answer.  Handlers that  *)
(* trust an old answer fall back to the queue when nothing comes.          *)
(***************************************************************************)
EXTENDS PendingAwards

CONSTANT Faults     \* what goes wrong, besides the link: a subset of AllFaults

AllFaults == {
    "noanswer",     \* a request is sent over a link that is up, no answer comes
    "refused",      \* RetroAchievements answers with an error
    "abandoned",    \* no login, or no live data to judge the awards by
    "stopped",      \* the service dies, is stopped, or the device is turned off
    "deleted"}      \* the user gives up awards that wait

ASSUME FaultsAssumption == Faults \subseteq AllFaults

VARIABLES
    link,       \* can RetroAchievements be reached
    monitor,    \* where the thread stands that starts the flushes
    wasOnline,  \* what the monitor's last poll found
    calm        \* an oracle: nothing disturbs the flush of this start

control == <<link, monitor, wasOnline, calm>>
serviceVars == <<vars, control>>

Flushing == {"startupFlush", "flush"}

ServiceInit ==
    /\ Init
    /\ link \in {"up", "down"} /\ monitor = "boot"
    /\ wasOnline = FALSE /\ calm = FALSE

Trouble(f) == f \in Faults /\ ~calm

LinkChanges ==
    /\ ~calm
    /\ link' = IF link = "up" THEN "down" ELSE "up"
    /\ UNCHANGED <<vars, monitor, wasOnline, calm>>

-----------------------------------------------------------------------------
(* Handler threads, from the moment the socket listens to the last one.    *)

Running == monitor # "off"
Reached == link = "up" \/ server' = server

Request(s) ==
    /\ Running
    /\ \/ RefuseHardcore(s)
       \/ link = "up" /\ Forward(s)
       \/ Reached /\ FallBackToQueue(s) /\ (link = "down" \/ Trouble("noanswer"))
    /\ UNCHANGED control

Answer ==
    /\ Running
    /\ \/ \E s \in Submissions : QueueKnown(s) \/ QueueNew(s)
       \/ QueueUnlocked \/ QueueNotUnlocked \/ QueueReadLatest \/ QueueWrite
    /\ UNCHANGED control

Fetch ==
    /\ Running /\ link = "up"
    /\ RefreshUnlocks
    /\ UNCHANGED control

-----------------------------------------------------------------------------
(* run_proxy_service, then ConnectivityMonitor.run.                        *)

BootProbe ==
    /\ monitor = "boot"
    /\ \/ link = "up" /\ monitor' = "startup" /\ calm' \in BOOLEAN
       \/ link = "down" /\ monitor' = "first" /\ UNCHANGED calm
    /\ UNCHANGED <<vars, link, wasOnline>>

FirstPoll ==
    /\ monitor = "first"
    /\ monitor' = "watch" /\ wasOnline' = (link = "up")
    /\ UNCHANGED <<vars, link, calm>>

Restored(was) == link = "up" /\ ~was

Poll ==
    /\ monitor = "watch"
    /\ IF Restored(wasOnline)
       THEN monitor' = "restored" /\ UNCHANGED wasOnline
       ELSE wasOnline' = (link = "up") /\ UNCHANGED monitor
    /\ UNCHANGED <<vars, link, calm>>

AfterFlush ==
    /\ monitor' = IF monitor \in {"startup", "startupFlush"} THEN "first" ELSE "watch"
    /\ wasOnline' = (monitor \in {"restored", "flush"})
    /\ calm' = FALSE

BeginFlush ==
    /\ monitor \in {"startup", "restored"}
    /\ FlushStart
    /\ monitor' = IF monitor = "startup" THEN "startupFlush" ELSE "flush"
    /\ UNCHANGED <<link, wasOnline, calm>>

\* The queue is empty, or fails its verification.
SkipFlush ==
    /\ monitor \in {"startup", "restored"}
    /\ \/ Present(table) = {}
       \/ ~Verified(table) /\ ~Repairable(table)
    /\ AfterFlush
    /\ UNCHANGED <<vars, link>>

Live == link = "up" /\ FlushRefresh

HeldNext == \E k \in todo : IsFirst(snapshot, todo, k) /\ Held(snapshot[k].sub)

Sent ==
    /\ link = "up" /\ FlushSend
    /\ sent' = "error" => HeldNext \/ Trouble("refused")

GiveUp == FlushAbandon /\ (link = "down" \/ Trouble("abandoned"))

FlushStep ==
    /\ monitor \in Flushing
    /\ \/ FlushRepairRow \/ FlushReread \/ FlushNothingPending \/ GiveUp \/ Live
       \/ FlushMarkStale \/ Sent \/ FlushRecord
       \/ FlushSync \/ FlushCheckPending \/ FlushPurge
    /\ UNCHANGED control

\* Nothing catches what http_post raises: the monitor thread ends, or the
\* process does if it has only started.
FlushRaises ==
    /\ monitor \in Flushing
    /\ Reached /\ FlushSendRaises /\ (link = "down" \/ Trouble("noanswer"))
    /\ monitor' = IF monitor = "startupFlush" THEN "exit" ELSE "dead"
    /\ UNCHANGED <<link, wasOnline, calm>>

FlushReturns ==
    /\ monitor \in Flushing /\ phase = "idle"
    /\ AfterFlush
    /\ UNCHANGED <<vars, link>>

\* What was in flight is lost, if anything was.
Stop ==
    /\ Running /\ (monitor = "exit" \/ Trouble("stopped"))
    /\ \/ Restart
       \/ ~InFlight /\ UNCHANGED vars
    /\ monitor' = "off" /\ wasOnline' = FALSE
    /\ UNCHANGED <<link, calm>>

Boot ==
    /\ monitor = "off"
    /\ monitor' = "boot"
    /\ UNCHANGED <<vars, link, wasOnline, calm>>

-----------------------------------------------------------------------------
Monitor ==
    \/ BootProbe \/ FirstPoll \/ Poll
    \/ BeginFlush \/ SkipFlush \/ FlushStep \/ FlushRaises \/ FlushReturns

ServiceNext ==
    \/ LinkChanges
    \/ (\E s \in Submissions : Request(s)) \/ Answer \/ Fetch
    \/ Monitor
    \/ Stop \/ Boot
    \/ "deleted" \in Faults /\ User /\ UNCHANGED control

ServiceSpec == ServiceInit /\ [][ServiceNext]_serviceVars

-----------------------------------------------------------------------------
(* Fairness.  The threads of a running process are scheduled.              *)

Scheduled ==
    /\ WF_serviceVars(Answer)
    /\ WF_serviceVars(Monitor)
    /\ WF_serviceVars(monitor = "exit" /\ Stop)

\* The link does not stay as it is, and polls find it up as well as down.
Outages ==
    /\ WF_serviceVars(LinkChanges)
    /\ SF_serviceVars(Poll /\ link = "up") /\ SF_serviceVars(Poll /\ link = "down")

SteadySpec == ServiceSpec /\ Scheduled
OutageSpec == ServiceSpec /\ Scheduled /\ Outages

-----------------------------------------------------------------------------
(* Correctness.                                                            *)

Done(s) == IdOf[s] \in Settled
Promised(s) == s \in acked /\ IdOf[s] # Board

Delivered == \A s \in Submissions : Promised(s) ~> Done(s)

\* However often a flush is cut short, refused, abandoned or raises, and in
\* whatever order awards come, no award acknowledged offline stays on the device
\* for good if now and then the service starts online and is left to finish its
\* flush: the chain always heals, and no row blocks those behind it.
EventuallyDelivered == []<>calm => Delivered

-----------------------------------------------------------------------------
(* What the documentation says, and the code denies.                       *)

\* docs/linux-support/pending-awards.md: "Network failures keep awards queued for
\* later retry."  Here the link is seen down and up again for ever.
NetworkFailuresAreRetried ==
    [](monitor # "off") => Delivered

\* The end-to-end tests say of an award queued offline: it leaves the queue once
\* the service is online and flushes.  Here it had arrived, its answer had not.
QueueEmpties ==
    []<>calm => \A k \in Ids : Pending(table, k) ~> ~Pending(table, k)
=============================================================================
