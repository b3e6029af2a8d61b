---------------------------- MODULE ServiceLifecycle ----------------------------
(* Starting, stopping and watching the service process from several processes   *)
(* at once: the menu, the command line (boot hook, sign-in check, launchers)    *)
(* and the service itself, on plain Linux, under systemd (dArkOS) and on        *)
(* Windows.  What they share is outside all of them: the pid file, the          *)
(* listening port, the configured port, the stop request file and, on ROCKNIX,  *)
(* the second proxy the service puts in front of itself.                        *)
EXTENDS FiniteSets, FiniteSetsExt, Integers

CONSTANTS
  Processes,    \* identities (pid and creation time) a service can have
  MenuCaller,   \* the menu process
  ShellCaller,  \* a command: boot-reconcile, start-proxy, stop-proxy
  LastPort,     \* the highest port number tried
  Operations,   \* bound on the operations started
  Mishaps       \* bound on crashes, power losses and ports taken by others

ASSUME LifecycleAssumption ==
  /\ LastPort \in Nat \ {0}
  /\ Operations \in Nat
  /\ Mishaps \in Nat
  /\ MenuCaller # ShellCaller

VARIABLES
  platform,   \* "linux", "rocknix" (Linux with ROCKNIX's own proxy), "darkos" (systemd), "windows"
  svc,        \* each identity's process: where it is, its configured port, the port it
              \* listens on, whether it was told to stop, lost its files, started the chain
  pidFile,    \* the identity in the pid file, or NoIdentity
  identity,   \* Windows: the identity file
  wanted,     \* Windows: the proxy_wanted file exists
  stopFile,   \* Windows: the stop request file exists
  unit,       \* dArkOS: systemd keeps the unit running
  cfgPort,    \* proxy_port in config.json
  foreign,    \* the port another program listens on, or 0
  prebound,   \* the port the boot entrypoint of the shell command holds, or 0
  chain,      \* the port ROCKNIX's own proxy was told to forward to, or 0
  pointed,    \* the port the emulators are configured to use, or 0
  call,       \* what each caller is doing
  overlap,    \* history: operations overlapped "never", "before" or "now"
  lastOp,     \* history: the last operation to end
  ops, mishaps

lifeVars == <<platform, svc, pidFile, identity, wanted, stopFile, unit, cfgPort, foreign,
              prebound, chain, pointed, call, overlap, lastOp, ops, mishaps>>

NoIdentity == "none"
Starters == {MenuCaller, ShellCaller}
Ports == 1 .. LastPort
Rested == [pc |-> "idle", found |-> {}, new |-> NoIdentity, port |-> 0]
Dead == [at |-> "gone", port |-> 0, socket |-> 0, term |-> FALSE, orphan |-> FALSE,
         chains |-> FALSE]
Platforms == {"linux", "rocknix", "darkos", "windows"}

LifeInit ==
  /\ platform \in Platforms
  /\ svc = [s \in Processes |-> Dead]
  /\ pidFile = NoIdentity /\ identity = NoIdentity
  /\ wanted = FALSE /\ stopFile = FALSE /\ unit = FALSE
  /\ cfgPort = 1
  /\ foreign = 0 /\ prebound = 0 /\ chain = 0 /\ pointed = 0
  /\ call = [c \in Starters |-> Rested]
  /\ overlap = "never" /\ lastOp = "none"
  /\ ops = 0 /\ mishaps = 0

Live(s) == svc[s].at # "gone"
Alive == {s \in Processes : Live(s)}
Serving(s) == svc[s].at = "serving"
PortTaken(p) == foreign = p \/ prebound = p \/ \E s \in Processes : svc[s].socket = p
(* An identity nothing refers to any more stands for the next process. *)
Fresh(s) ==
  /\ ~Live(s) /\ pidFile # s /\ identity # s
  /\ \A c \in Starters : s \notin call[c].found /\ call[c].new # s

(* process_matches_service on Windows: with no identity file the image name is *)
(* all there is.                                                               *)
Matches(s) == identity \in {NoIdentity, s}
(* Mutant for StopStops: Linux, too, trusts the pid file. *)
FollowsPidFile == {s \in Alive : pidFile = s}

(* discover_service_pids: Linux scans the process table, Windows only knows    *)
(* the process the pid file names.                                             *)
Discovered ==
  IF platform = "windows" THEN {s \in Alive : pidFile = s /\ Matches(s)} ELSE Alive

At(c, pc) == call[c].pc = pc
Goes(c, pc) == call' = [call EXCEPT ![c].pc = pc]
Quiet == \A c \in Starters : At(c, "idle")
Ends(c, what) ==
  /\ call' = [call EXCEPT ![c] = Rested]
  /\ lastOp' = what
  /\ prebound' = IF c = ShellCaller THEN 0 ELSE prebound

(* Every process here can be hit by SIGTERM before its handler is installed,   *)
(* which ends it at once, or after, which only asks it to stop.                *)
Terminated(s) == IF svc[s].at = "loading" THEN Dead ELSE [svc[s] EXCEPT !.term = TRUE]
TermAll(S) == [s \in Processes |-> IF s \in S /\ Live(s) THEN Terminated(s) ELSE svc[s]]
KillAll(S) == [s \in Processes |-> IF s \in S THEN Dead ELSE svc[s]]
Spawned(socket) == [Dead EXCEPT !.at = "loading", !.socket = socket]

-----------------------------------------------------------------------------
(* Starting. *)

Begins(c, pc) ==
  /\ At(c, "idle") /\ ops < Operations
  /\ ops' = ops + 1
  /\ overlap' = IF ~Quiet THEN "now" ELSE IF overlap = "never" THEN "never" ELSE "before"
  /\ lastOp' = "none"
  /\ call' = [call EXCEPT ![c] = [Rested EXCEPT !.pc = pc, !.port = cfgPort]]

(* The shell commands of the Linux packages run under boot.py, which opens the *)
(* port before anything else is loaded.                                        *)
prebind_listen_socket(c) ==
  IF c = ShellCaller /\ platform \in {"linux", "rocknix"} /\ ~PortTaken(cfgPort)
  THEN cfgPort ELSE prebound

(* Signing in to Windows starts the proxy if it was running when Windows went  *)
(* down, and otherwise puts the emulators back.                                *)
SignIn(c) == IF c # ShellCaller THEN "nothing" ELSE IF wanted THEN "start" ELSE "stop"

BeginStart(c) ==
  /\ lastOp # "power loss" \/ (platform = "windows" /\ SignIn(c) = "start")
  /\ Begins(c, IF platform = "darkos" THEN "unit start" ELSE "look")
  /\ prebound' = prebind_listen_socket(c)
  /\ UNCHANGED <<platform, svc, pidFile, identity, wanted, stopFile, unit, cfgPort, foreign,
                 chain, pointed, mishaps>>

(* A service that is already running is adopted, unless a reinstall deleted    *)
(* its files; orphans are told to go first.                                    *)
Look(c) ==
  LET healthy == {s \in Discovered : ~svc[s].orphan} IN
  /\ At(c, "look")
  /\ \/ \E s \in healthy : pidFile' = s /\ Goes(c, "patch") /\ UNCHANGED svc
     \/ /\ healthy = {} /\ Discovered # {}
        /\ svc' = TermAll(Discovered)
        /\ call' = [call EXCEPT ![c].pc = "sweep", ![c].found = Discovered]
        /\ UNCHANGED pidFile
     \/ Discovered = {} /\ Goes(c, "probe") /\ UNCHANGED <<svc, pidFile>>
  /\ UNCHANGED <<platform, identity, wanted, stopFile, unit, cfgPort, foreign, prebound, chain,
                 pointed, overlap, lastOp, ops, mishaps>>

(* Five seconds after SIGTERM an orphan is killed. *)
Sweep(c) ==
  /\ At(c, "sweep")
  /\ svc' = KillAll(call[c].found)
  /\ pidFile' = NoIdentity
  /\ call' = [call EXCEPT ![c].pc = "probe", ![c].found = {}]
  /\ UNCHANGED <<platform, identity, wanted, stopFile, unit, cfgPort, foreign, prebound, chain,
                 pointed, overlap, lastOp, ops, mishaps>>

relocate_proxy_port(taken) == {p \in Ports : p > taken /\ ~PortTaken(p)}

(* Mutant for EmulatorsReachIt: the new port is not written to config.json. *)
NotSaved(p) == cfgPort
saved_port(p) == p

(* A taken port sends the caller to the next free one, which is saved; with    *)
(* none left the start fails and leaves the emulators as they were.            *)
Probe(c) ==
  LET free == relocate_proxy_port(call[c].port)
      held == c = ShellCaller /\ prebound # 0
  IN
  /\ At(c, "probe")
  /\ \/ /\ held \/ ~PortTaken(call[c].port)
        /\ Goes(c, "spawn") /\ UNCHANGED <<cfgPort, prebound, lastOp>>
     \/ /\ ~held /\ PortTaken(call[c].port) /\ free # {}
        /\ cfgPort' = saved_port(Min(free))
        /\ call' = [call EXCEPT ![c].pc = "spawn", ![c].port = Min(free)]
        /\ UNCHANGED <<prebound, lastOp>>
     \/ /\ ~held /\ PortTaken(call[c].port) /\ free = {}
        /\ Ends(c, "failed") /\ UNCHANGED cfgPort
  /\ UNCHANGED <<platform, svc, pidFile, identity, wanted, stopFile, unit, foreign, chain,
                 pointed, overlap, ops, mishaps>>

(* Mutant for StartedIsKnown: the stop file of an earlier stop is left. *)
LeavesRequest == stopFile

(* The stop file is cleared here and not by the service, so that a stop that   *)
(* arrives while the service starts is not wiped unread.                       *)
clear_stop_request == FALSE

Spawn(c) ==
  /\ At(c, "spawn")
  /\ stopFile' = clear_stop_request
  /\ \E s \in {t \in Processes : Fresh(t)} :
       /\ svc' = [svc EXCEPT ![s] = Spawned(IF c = ShellCaller THEN prebound ELSE 0)]
       /\ call' = [call EXCEPT ![c].pc = "record", ![c].new = s]
  /\ UNCHANGED <<platform, pidFile, identity, wanted, unit, cfgPort, foreign, prebound, chain,
                 pointed, overlap, lastOp, ops, mishaps>>

remember_service(c) ==
  IF platform = "windows" THEN wanted' = TRUE /\ identity' = call[c].new ELSE UNCHANGED <<wanted, identity>>

Record(c) ==
  /\ At(c, "record")
  /\ remember_service(c)
  /\ pidFile' = call[c].new
  /\ Goes(c, "patch")
  /\ UNCHANGED <<platform, svc, stopFile, unit, cfgPort, foreign, prebound, chain, pointed,
                 overlap, lastOp, ops, mishaps>>

(* The emulators are pointed at the proxy after the service was spawned. *)
Patch(c) ==
  /\ At(c, "patch")
  /\ pointed' = call[c].port
  /\ Ends(c, IF call[c].new = NoIdentity /\ platform # "darkos" THEN "adopted" ELSE "start")
  /\ UNCHANGED <<platform, svc, pidFile, identity, wanted, stopFile, unit, cfgPort, foreign,
                 chain, overlap, ops, mishaps>>

-----------------------------------------------------------------------------
(* Stopping. *)

BeginStop(c) ==
  /\ lastOp # "power loss" \/ (platform = "windows" /\ SignIn(c) = "stop")
  /\ Begins(c, IF platform = "darkos" THEN "unit stop" ELSE "stop")
  /\ UNCHANGED <<platform, svc, pidFile, identity, wanted, stopFile, unit, cfgPort, foreign,
                 prebound, chain, pointed, mishaps>>

NothingRunning(c) ==
  /\ At(c, "stop") /\ Discovered = {}
  /\ wanted' = (wanted /\ platform # "windows")
  /\ pidFile' = NoIdentity
  /\ Goes(c, "revert")
  /\ UNCHANGED <<platform, svc, identity, stopFile, unit, cfgPort, foreign, prebound, chain,
                 pointed, overlap, lastOp, ops, mishaps>>

request_stop ==
  IF platform = "windows" THEN wanted' = FALSE /\ stopFile' = TRUE /\ UNCHANGED svc
  ELSE svc' = TermAll(Discovered) /\ UNCHANGED <<wanted, stopFile>>

RequestStop(c) ==
  /\ At(c, "stop") /\ Discovered # {}
  /\ request_stop
  /\ call' = [call EXCEPT ![c].pc = "wait", ![c].found = Discovered]
  /\ UNCHANGED <<platform, pidFile, identity, unit, cfgPort, foreign, prebound, chain, pointed,
                 overlap, lastOp, ops, mishaps>>

AllExited(c) ==
  /\ At(c, "wait") /\ call[c].found \cap Alive = {}
  /\ pidFile' = NoIdentity
  /\ call' = [call EXCEPT ![c].pc = "revert", ![c].found = {}]
  /\ UNCHANGED <<platform, svc, identity, wanted, stopFile, unit, cfgPort, foreign, prebound,
                 chain, pointed, overlap, lastOp, ops, mishaps>>

(* Ten seconds are given; the workers of a service may take five seconds each. *)
ForceStop(c) ==
  /\ At(c, "wait") /\ call[c].found \cap Alive # {}
  /\ svc' = KillAll(call[c].found)
  /\ stopFile' = (stopFile /\ platform # "windows")
  /\ pidFile' = NoIdentity
  /\ call' = [call EXCEPT ![c].pc = "revert", ![c].found = {}]
  /\ UNCHANGED <<platform, identity, wanted, unit, cfgPort, foreign, prebound, chain, pointed,
                 overlap, lastOp, ops, mishaps>>

Revert(c) ==
  /\ At(c, "revert")
  /\ pointed' = 0
  /\ Ends(c, "stop")
  /\ UNCHANGED <<platform, svc, pidFile, identity, wanted, stopFile, unit, cfgPort, foreign,
                 chain, overlap, ops, mishaps>>

-----------------------------------------------------------------------------
(* service_status reads the pid file and the processes, then rewrites the pid  *)
(* file: a write based on what was true a moment ago.                          *)

BeginStatus(c) ==
  /\ lastOp # "power loss"
  /\ Begins(c, "status")
  /\ UNCHANGED <<platform, svc, pidFile, identity, wanted, stopFile, unit, cfgPort, foreign,
                 prebound, chain, pointed, mishaps>>

tracked_or_discovered ==
  IF pidFile \in Alive /\ (platform = "windows" => Matches(pidFile)) THEN {pidFile} ELSE Discovered

StatusLook(c) ==
  /\ At(c, "status") /\ platform # "darkos"
  /\ IF tracked_or_discovered = {} THEN Goes(c, "rewrite")
     ELSE \E s \in tracked_or_discovered :
            call' = [call EXCEPT ![c].pc = "rewrite", ![c].new = s]
  /\ UNCHANGED <<platform, svc, pidFile, identity, wanted, stopFile, unit, cfgPort, foreign,
                 prebound, chain, pointed, overlap, lastOp, ops, mishaps>>

StatusWrite(c) ==
  /\ At(c, "rewrite")
  /\ pidFile' = call[c].new
  /\ Ends(c, "status")
  /\ UNCHANGED <<platform, svc, identity, wanted, stopFile, unit, cfgPort, foreign, chain,
                 pointed, overlap, ops, mishaps>>

(* On dArkOS systemd is asked, and nothing is written. *)
UnitStatus(c) ==
  /\ At(c, "status") /\ platform = "darkos"
  /\ Ends(c, "status")
  /\ UNCHANGED <<platform, svc, pidFile, identity, wanted, stopFile, unit, cfgPort, foreign,
                 chain, pointed, overlap, ops, mishaps>>

-----------------------------------------------------------------------------
(* dArkOS: systemd runs the service and restarts it.                           *)

UnitStart(c) ==
  /\ At(c, "unit start")
  /\ unit' = TRUE
  /\ Goes(c, "listening")
  /\ UNCHANGED <<platform, svc, pidFile, identity, wanted, stopFile, cfgPort, foreign, prebound,
                 chain, pointed, overlap, lastOp, ops, mishaps>>

(* Restart=always: the emulators are pointed at the proxy before every start.  *)
UnitSpawns ==
  /\ unit /\ Alive = {}
  /\ \E s \in {t \in Processes : Fresh(t)} : svc' = [svc EXCEPT ![s] = Spawned(0)]
  /\ pointed' = cfgPort
  /\ UNCHANGED <<platform, pidFile, identity, wanted, stopFile, unit, cfgPort, foreign, prebound,
                 chain, call, overlap, lastOp, ops, mishaps>>

(* wait_until_listening gives up after a minute; either way the start goes on. *)
WaitedForPort(c) ==
  /\ At(c, "listening")
  /\ Goes(c, "patch")
  /\ UNCHANGED <<platform, svc, pidFile, identity, wanted, stopFile, unit, cfgPort, foreign,
                 prebound, chain, pointed, overlap, lastOp, ops, mishaps>>

UnitStop(c) ==
  /\ At(c, "unit stop")
  /\ unit' = FALSE
  /\ svc' = TermAll(Alive)
  /\ Goes(c, "unit wait")
  /\ UNCHANGED <<platform, pidFile, identity, wanted, stopFile, cfgPort, foreign, prebound,
                 chain, pointed, overlap, lastOp, ops, mishaps>>

UnitStopped(c) ==
  /\ At(c, "unit wait") /\ (Alive = {} \/ unit)
  /\ Goes(c, "revert")
  /\ UNCHANGED <<platform, svc, pidFile, identity, wanted, stopFile, unit, cfgPort, foreign,
                 prebound, chain, pointed, overlap, lastOp, ops, mishaps>>

(* systemctl is given ten seconds; its TimeoutExpired is not an OSError and    *)
(* leaves the stop before the emulators are put back.                          *)
UnitStopTimesOut(c) ==
  /\ At(c, "unit wait") /\ Alive # {}
  /\ Ends(c, "failed")
  /\ UNCHANGED <<platform, svc, pidFile, identity, wanted, stopFile, unit, cfgPort, foreign,
                 chain, pointed, overlap, ops, mishaps>>

-----------------------------------------------------------------------------
(* The service. *)

(* It reads its configuration, installs its signal handlers and writes its pid. *)
Load(s) ==
  /\ svc[s].at = "loading"
  /\ svc' = [svc EXCEPT ![s].at = "starting", ![s].port = cfgPort]
  /\ pidFile' = s
  /\ UNCHANGED <<platform, identity, wanted, stopFile, unit, cfgPort, foreign, prebound, chain,
                 pointed, call, overlap, lastOp, ops, mishaps>>

(* Mutant for StartServes: the socket handed over is not taken. *)
BindsAnew(s) == FALSE
adopt_listen_socket(s) == svc[s].socket # 0

(* ROCKNIX's proxy is started in front of ours unless one is running already.  *)
ensure_ra_proxy_chained == platform = "rocknix" /\ chain = 0

Bind(s) ==
  /\ svc[s].at = "starting"
  /\ adopt_listen_socket(s) \/ ~PortTaken(svc[s].port)
  /\ svc' = [svc EXCEPT ![s].at = "serving", ![s].chains = ensure_ra_proxy_chained,
                ![s].socket = IF adopt_listen_socket(s) THEN @ ELSE svc[s].port]
  /\ chain' = IF ensure_ra_proxy_chained THEN svc[s].port ELSE chain
  /\ UNCHANGED <<platform, pidFile, identity, wanted, stopFile, unit, cfgPort, foreign, prebound,
                 pointed, call, overlap, lastOp, ops, mishaps>>

(* A failed bind ends the service, which clears the pid file whoever is in it. *)
BindFails(s) ==
  /\ svc[s].at = "starting"
  /\ ~adopt_listen_socket(s) /\ PortTaken(svc[s].port)
  /\ svc' = KillAll({s})
  /\ pidFile' = NoIdentity
  /\ UNCHANGED <<platform, identity, wanted, stopFile, unit, cfgPort, foreign, prebound, chain,
                 pointed, call, overlap, lastOp, ops, mishaps>>

NoticeStopFile(s) ==
  /\ platform = "windows" /\ stopFile
  /\ svc[s].at \in {"starting", "serving"} /\ ~svc[s].term
  /\ svc' = [svc EXCEPT ![s].term = TRUE]
  /\ stopFile' = FALSE
  /\ UNCHANGED <<platform, pidFile, identity, wanted, unit, cfgPort, foreign, prebound, chain,
                 pointed, call, overlap, lastOp, ops, mishaps>>

(* The server stops accepting and its workers are joined, five seconds each.   *)
Leave(s) ==
  /\ Serving(s) /\ svc[s].term
  /\ svc' = [svc EXCEPT ![s].at = "leaving"]
  /\ UNCHANGED <<platform, pidFile, identity, wanted, stopFile, unit, cfgPort, foreign, prebound,
                 chain, pointed, call, overlap, lastOp, ops, mishaps>>

stop_ra_proxy_chain(s) == IF svc[s].chains THEN 0 ELSE chain

Close(s) ==
  /\ svc[s].at = "leaving"
  /\ chain' = stop_ra_proxy_chain(s)
  /\ svc' = [svc EXCEPT ![s].at = "closed", ![s].socket = 0]
  /\ UNCHANGED <<platform, pidFile, identity, wanted, stopFile, unit, cfgPort, foreign, prebound,
                 pointed, call, overlap, lastOp, ops, mishaps>>

Exit(s) ==
  /\ svc[s].at = "closed"
  /\ svc' = KillAll({s})
  /\ pidFile' = NoIdentity
  /\ UNCHANGED <<platform, identity, wanted, stopFile, unit, cfgPort, foreign, prebound, chain,
                 pointed, call, overlap, lastOp, ops, mishaps>>

ServiceStep(s) ==
  \/ Load(s) \/ Bind(s) \/ BindFails(s) \/ NoticeStopFile(s)
  \/ Leave(s) \/ Close(s) \/ Exit(s)

-----------------------------------------------------------------------------
(* Mishaps, which are none of the program's doing. *)

Mishap == mishaps < Mishaps /\ mishaps' = mishaps + 1

ServiceCrashes(s) ==
  /\ Mishap /\ Live(s)
  /\ svc' = KillAll({s})
  /\ UNCHANGED <<platform, pidFile, identity, wanted, stopFile, unit, cfgPort, foreign, prebound,
                 chain, pointed, call, overlap, lastOp, ops>>

ForeignTakes(p) ==
  /\ Mishap /\ foreign = 0 /\ ~PortTaken(p)
  /\ foreign' = p
  /\ UNCHANGED <<platform, svc, pidFile, identity, wanted, stopFile, unit, cfgPort, prebound,
                 chain, pointed, call, overlap, lastOp, ops>>

ForeignLeaves ==
  /\ foreign # 0 /\ foreign' = 0
  /\ UNCHANGED <<platform, svc, pidFile, identity, wanted, stopFile, unit, cfgPort, prebound,
                 chain, pointed, call, overlap, lastOp, ops, mishaps>>

(* Installing over a running proxy deletes the files it has open. *)
Reinstall ==
  /\ Mishap /\ platform \in {"linux", "rocknix"} /\ Alive # {}
  /\ svc' = [s \in Processes |-> IF Live(s) THEN [svc[s] EXCEPT !.orphan = TRUE] ELSE svc[s]]
  /\ UNCHANGED <<platform, pidFile, identity, wanted, stopFile, unit, cfgPort, foreign, prebound,
                 chain, pointed, call, overlap, lastOp, ops>>

(* The machine goes down and comes up: only files are left, and systemd starts *)
(* the unit again where it is enabled.                                         *)
PowerLoss ==
  /\ Mishap
  /\ svc' = [s \in Processes |-> Dead]
  /\ call' = [c \in Starters |-> Rested]
  /\ foreign' = 0 /\ prebound' = 0 /\ chain' = 0
  /\ unit' \in {FALSE, platform = "darkos"}
  /\ lastOp' = IF platform = "windows" THEN "power loss" ELSE "none"
  /\ UNCHANGED <<platform, pidFile, identity, wanted, stopFile, cfgPort, pointed, overlap, ops>>

Operation(c) ==
  \/ Look(c) \/ Sweep(c) \/ Probe(c) \/ Spawn(c) \/ Record(c) \/ Patch(c)
  \/ NothingRunning(c) \/ RequestStop(c) \/ AllExited(c) \/ ForceStop(c) \/ Revert(c)
  \/ StatusLook(c) \/ StatusWrite(c) \/ UnitStatus(c)
  \/ UnitStart(c) \/ WaitedForPort(c) \/ UnitStop(c) \/ UnitStopped(c) \/ UnitStopTimesOut(c)

LifeNext ==
  \/ \E c \in Starters : BeginStart(c) \/ BeginStop(c) \/ BeginStatus(c) \/ Operation(c)
  \/ \E s \in Processes : ServiceStep(s) \/ ServiceCrashes(s)
  \/ UnitSpawns \/ \E p \in Ports : ForeignTakes(p)
  \/ ForeignLeaves \/ Reinstall \/ PowerLoss

(* The operating system runs what was started: the service goes on loading and *)
(* binding, and systemd restarts what ended.                                   *)
LifeFairness ==
  /\ \A s \in Processes : WF_lifeVars(ServiceStep(s))
  /\ WF_lifeVars(UnitSpawns)

LifeSpec == LifeInit /\ [][LifeNext]_lifeVars /\ LifeFairness

-----------------------------------------------------------------------------
Places == {"idle", "look", "sweep", "probe", "spawn", "record", "patch", "stop", "wait", "revert",
           "status", "rewrite", "unit start", "listening", "unit stop", "unit wait"}

LifeTypeOK ==
  /\ platform \in Platforms
  /\ svc \in [Processes -> [at : {"gone", "loading", "starting", "serving", "leaving", "closed"},
                            port : 0 .. LastPort, socket : 0 .. LastPort, term : BOOLEAN,
                            orphan : BOOLEAN, chains : BOOLEAN]]
  /\ {pidFile, identity} \subseteq Processes \cup {NoIdentity}
  /\ {wanted, stopFile, unit} \subseteq BOOLEAN
  /\ cfgPort \in Ports
  /\ chain # 0 => platform = "rocknix"
  /\ {foreign, prebound, chain, pointed} \subseteq 0 .. LastPort
  /\ call \in [Starters -> [pc : Places, found : SUBSET Processes,
                           new : Processes \cup {NoIdentity}, port : 0 .. LastPort]]
  /\ overlap \in {"never", "before", "now"}
  /\ ops \in 0 .. Operations /\ mishaps \in 0 .. Mishaps

(* A stop that nothing else overlapped leaves no service, no pid file and the  *)
(* emulators put back, and on Windows nothing that would start it at sign-in:  *)
(* also when the service was still starting, had to be killed, or was one of   *)
(* two that an earlier race had left (not on Windows, where only the process   *)
(* in the pid file can be found).                                              *)
StopStops ==
  /\ Quiet /\ lastOp = "stop" /\ ~unit
  /\ overlap = "never" \/ (overlap = "before" /\ platform # "windows")
  => /\ Alive = {} /\ pointed = 0
     /\ (platform # "darkos" => pidFile = NoIdentity) /\ (platform = "windows" => ~wanted)

(* While operations never overlapped there is one service at most, and after a *)
(* start the emulators are pointed at the port it serves, wherever the port    *)
(* had to be moved to.                                                         *)
EmulatorsReachIt ==
  overlap = "never" =>
    /\ Cardinality(Alive) <= 1
    /\ Quiet /\ lastOp \in {"start", "adopted"} => \A s \in Processes : Serving(s) => svc[s].socket = pointed

(* On Windows a service that was started and not stopped since is the one in   *)
(* the pid file, passes for the service, is not ended by a stop request left   *)
(* over from an earlier stop, and is started again at the next sign-in.        *)
StartedIsKnown ==
  /\ platform = "windows" /\ overlap = "never"
  /\ Quiet /\ lastOp \in {"start", "adopted", "status"}
  => \A s \in Processes : Serving(s) => wanted /\ ~svc[s].term /\ pidFile = s /\ Matches(s)

(* A start that spawned the service and met no mishap is followed by a service *)
(* that serves (one that found a service does not say as much), and on dArkOS  *)
(* systemd brings it back after any mishap, as long as the port is free.        *)
StartServes ==
  /\ (lastOp = "start" /\ overlap = "never" /\ mishaps = 0)
       ~> (lastOp # "start" \/ mishaps > 0 \/ \E s \in Processes : Serving(s))
  /\ (platform = "darkos" /\ unit)
       ~> (~unit \/ foreign # 0 \/ \E s \in Processes : Serving(s))

(* service.py:298-300 checks the port before it spawns because "a failed bind   *)
(* would only ever surface as a bare errno in service.log while the menu        *)
(* reports a successful start": after starts that never overlapped, met no      *)
(* mishap and reported no failure, the service is there.                        *)
StartedRuns ==
  /\ Quiet /\ lastOp \in {"start", "adopted"} /\ overlap = "never" /\ mishaps = 0
  /\ platform # "darkos"
  => Alive # {}

(* lowerdeck.py:111-115 has it that the proxy put in front of ours is not left *)
(* behind, since it "would point RetroArch at a port we no longer serve".      *)
ChainGoesToo == Quiet /\ lastOp = "stop" /\ overlap = "never" /\ mishaps = 0 => chain = 0
=============================================================================
