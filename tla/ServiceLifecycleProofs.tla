------------------------ MODULE ServiceLifecycleProofs ------------------------
(* Theorems about ServiceLifecycle, for any number of processes, ports,       *)
(* operations and mishaps.                                                    *)
EXTENDS ServiceLifecycle, FiniteSetTheorems, WellFoundedInduction, TLAPS

-----------------------------------------------------------------------------
(* Types.                                                                    *)

\* The records of LifeTypeOK, by name.
Services == [at : {"gone", "loading", "starting", "serving", "leaving", "closed"},
             port : 0 .. LastPort, socket : 0 .. LastPort, term : BOOLEAN,
             orphan : BOOLEAN, chains : BOOLEAN]
Calls == [pc : Places, found : SUBSET Processes, new : Processes \cup {NoIdentity},
          port : 0 .. LastPort]

\* The parts of LifeTypeOK that steps need.
LEMMA TypeParts ==
  ASSUME LifeTypeOK
  PROVE  /\ svc \in [Processes -> Services] /\ call \in [Starters -> Calls]
         /\ \A s \in Processes : svc[s] \in Services
         /\ \A c \in Starters : call[c] \in Calls
BY DEF LifeTypeOK, Services, Calls

\* The smallest of some numbers, as FiniteSetsExt chooses it.
LEMMA SmallestIn ==
  ASSUME NEW S \in SUBSET Nat, S # {}
  PROVE  \E n \in S : \A m \in S : n <= m
<1>1. \E n \in S : \A m \in S : ~(<<m, n>> \in OpToRel(<, Nat))
  BY NatLessThanWellFounded, WFMin
<1>2. OpToRel(<, Nat) = {ss \in Nat \X Nat : ss[1] < ss[2]}
  BY Zenon DEF OpToRel
<1>3. \E n \in S : \A m \in S : ~(<<m, n>> \in {ss \in Nat \X Nat : ss[1] < ss[2]})
  BY <1>1, <1>2, Zenon
<1>4. \A m, n \in S : <<m, n>> \in {ss \in Nat \X Nat : ss[1] < ss[2]} <=> m < n
  OBVIOUS
<1>5. PICK n \in S : \A m \in S : ~(m < n)
  BY <1>3, <1>4, Zenon
<1> QED
  BY <1>5

\* Min of a set of numbers is one of them.
LEMMA MinOf ==
  ASSUME NEW S \in SUBSET Nat, S # {}
  PROVE  Min(S) \in S
BY SmallestIn DEF Min

\* The records the actions start from are well typed.
LEMMA Records ==
  /\ Dead \in Services /\ Rested \in Calls
  /\ \A x \in 0 .. LastPort : Spawned(x) \in Services
  /\ 0 \in 0 .. LastPort /\ \A p \in Ports : p \in 0 .. LastPort
  /\ MenuCaller \in Starters /\ ShellCaller \in Starters
<1>1. 0 \in 0 .. LastPort /\ \A p \in Ports : p \in 0 .. LastPort
  BY LifecycleAssumption DEF Ports
<1>2. Dead \in Services
  BY <1>1 DEF Dead, Services
<1>3. \A x \in 0 .. LastPort : Spawned(x) \in Services
  BY <1>2 DEF Spawned, Services
<1> QED
  BY <1>1, <1>2, <1>3 DEF Rested, Calls, Places, Starters

\* Telling to stop, killing and spawning keep the processes well typed.
LEMMA ServicesKept ==
  ASSUME LifeTypeOK
  PROVE  /\ \A S : TermAll(S) \in [Processes -> Services]
         /\ \A S : KillAll(S) \in [Processes -> Services]
         /\ \A s \in Processes, x \in 0 .. LastPort :
               [svc EXCEPT ![s] = Spawned(x)] \in [Processes -> Services]
<1>1. \A s \in Processes : Terminated(s) \in Services
  BY TypeParts, Records DEF Terminated, Services
<1> QED
  BY <1>1, TypeParts, Records DEF TermAll, KillAll

\* What the actions write of a caller keeps the callers well typed.
LEMMA CallsKept ==
  ASSUME LifeTypeOK, NEW c \in Starters, NEW p \in Places, NEW S \in SUBSET Processes,
         NEW n \in Processes \cup {NoIdentity}, NEW x \in 0 .. LastPort
  PROVE  /\ [call EXCEPT ![c].pc = p] \in [Starters -> Calls]
         /\ [call EXCEPT ![c].pc = p, ![c].found = S] \in [Starters -> Calls]
         /\ [call EXCEPT ![c].pc = p, ![c].new = n] \in [Starters -> Calls]
         /\ [call EXCEPT ![c].pc = p, ![c].port = x] \in [Starters -> Calls]
         /\ [call EXCEPT ![c] = [Rested EXCEPT !.pc = p, !.port = x]] \in [Starters -> Calls]
         /\ [call EXCEPT ![c] = Rested] \in [Starters -> Calls]
<1>1. call \in [Starters -> Calls] /\ call[c] \in Calls
  BY TypeParts
<1>2. [call EXCEPT ![c].pc = p] \in [Starters -> Calls]
  BY <1>1 DEF Calls
<1>3. [call EXCEPT ![c].pc = p, ![c].found = S] \in [Starters -> Calls]
  BY <1>1 DEF Calls
<1>4. [call EXCEPT ![c].pc = p, ![c].new = n] \in [Starters -> Calls]
  BY <1>1 DEF Calls
<1>5. [call EXCEPT ![c].pc = p, ![c].port = x] \in [Starters -> Calls]
  BY <1>1 DEF Calls
<1>6. [Rested EXCEPT !.pc = p, !.port = x] \in Calls
  BY Records DEF Calls
<1> QED
  BY <1>1, <1>2, <1>3, <1>4, <1>5, <1>6, Records

\* A step keeps LifeTypeOK if what it writes is well typed.
LEMMA TypesFrom ==
  ASSUME LifeTypeOK, platform' = platform, svc' \in [Processes -> Services],
         {pidFile', identity'} \subseteq Processes \cup {NoIdentity},
         wanted' \in BOOLEAN, stopFile' \in BOOLEAN, unit' \in BOOLEAN, cfgPort' \in Ports,
         chain' # 0 => platform = "rocknix",
         {foreign', prebound', chain', pointed'} \subseteq 0 .. LastPort,
         call' \in [Starters -> Calls], overlap' \in {"never", "before", "now"},
         ops' \in 0 .. Operations, mishaps' \in 0 .. Mishaps
  PROVE  LifeTypeOK'
BY DEF LifeTypeOK, Services, Calls

\* A call that begins is well typed.
LEMMA BeginsTyped ==
  ASSUME LifeTypeOK, NEW c \in Starters, NEW p \in Places, Begins(c, p)
  PROVE  /\ call' \in [Starters -> Calls] /\ overlap' \in {"never", "before", "now"}
         /\ ops' \in 0 .. Operations
<1>1. cfgPort \in 0 .. LastPort
  BY Records DEF LifeTypeOK
<1>2. call' \in [Starters -> Calls]
  BY <1>1, CallsKept DEF Begins
<1> QED
  BY <1>2, LifecycleAssumption DEF Begins, LifeTypeOK

\* So is one that ends.
LEMMA EndsTyped ==
  ASSUME LifeTypeOK, NEW c \in Starters, NEW what, Ends(c, what)
  PROVE  call' \in [Starters -> Calls] /\ prebound' \in 0 .. LastPort
<1>1. "idle" \in Places /\ NoIdentity \in Processes \cup {NoIdentity}
  BY DEF Places
<1>2. call' \in [Starters -> Calls]
  BY <1>1, CallsKept, Records DEF Ends, LifeTypeOK
<1> QED
  BY <1>2, Records DEF Ends, LifeTypeOK

\* And one that goes on.
LEMMA GoesTyped ==
  ASSUME LifeTypeOK, NEW c \in Starters, NEW p \in Places, Goes(c, p)
  PROVE  call' \in [Starters -> Calls]
BY CallsKept, Records DEF Goes, LifeTypeOK

\* The operations of a caller keep LifeTypeOK.
LEMMA CallerTypes ==
  ASSUME LifeTypeOK, NEW c \in Starters, Operation(c)
  PROVE  LifeTypeOK'
<1>a. {"look", "sweep", "probe", "spawn", "record", "patch", "wait", "revert", "rewrite",
       "listening", "unit wait"} \subseteq Places
  BY DEF Places
<1>b. Discovered \in SUBSET Processes /\ Alive \in SUBSET Processes
  BY DEF Discovered, Alive
<1>1. CASE Look(c)
  <2>1. pidFile' \in Processes \cup {NoIdentity}
    BY <1>1, <1>b DEF Look, LifeTypeOK
  <2>2. svc' \in [Processes -> Services]
    BY <1>1, TypeParts, ServicesKept DEF Look
  <2>3. call' \in [Starters -> Calls]
    <3>1. \/ Goes(c, "patch") \/ Goes(c, "probe")
          \/ call' = [call EXCEPT ![c].pc = "sweep", ![c].found = Discovered]
      BY <1>1, Zenon DEF Look, Goes
    <3>2. [call EXCEPT ![c].pc = "sweep", ![c].found = Discovered] \in [Starters -> Calls]
      BY <1>a, <1>b, CallsKept, Records DEF LifeTypeOK
    <3> QED
      BY <3>1, <3>2, <1>a, GoesTyped
  <2> QED
    BY <1>1, <2>1, <2>2, <2>3, TypesFrom DEF Look, LifeTypeOK
<1>2. CASE Sweep(c)
  <2>1. svc' \in [Processes -> Services] /\ call' \in [Starters -> Calls]
    BY <1>2, <1>a, CallsKept, ServicesKept, Records DEF Sweep, LifeTypeOK
  <2> QED
    BY <1>2, <2>1, TypesFrom DEF Sweep, LifeTypeOK
<1>3. CASE Probe(c)
  <2> DEFINE free == relocate_proxy_port(call[c].port)
  <2>1. free # {} => Min(free) \in Ports
    BY MinOf, LifecycleAssumption DEF relocate_proxy_port, Ports
  <2>2. cfgPort' \in Ports
    BY <1>3, <2>1 DEF Probe, LifeTypeOK, saved_port
  <2>3. call' \in [Starters -> Calls] /\ prebound' \in 0 .. LastPort
    <3>1. ASSUME Goes(c, "spawn"), UNCHANGED prebound
          PROVE  call' \in [Starters -> Calls] /\ prebound' \in 0 .. LastPort
      BY <3>1, <1>a, GoesTyped DEF LifeTypeOK
    <3>2. ASSUME free # {}, call' = [call EXCEPT ![c].pc = "spawn", ![c].port = Min(free)],
                 UNCHANGED prebound
          PROVE  call' \in [Starters -> Calls] /\ prebound' \in 0 .. LastPort
      <4>1. Min(free) \in 0 .. LastPort
        BY <3>2, <2>1, Records
      <4> HIDE DEF free
      <4> QED
        BY <3>2, <4>1, <1>a, CallsKept, Records DEF LifeTypeOK
    <3> QED
      BY <1>3, <3>1, <3>2, EndsTyped DEF Probe
  <2>4. svc' \in [Processes -> Services]
    BY <1>3, TypeParts DEF Probe
  <2> QED
    BY <1>3, <2>2, <2>3, <2>4, TypesFrom DEF Probe, LifeTypeOK
<1>4. CASE Spawn(c)
  <2>1. PICK s \in {t \in Processes : Fresh(t)} :
          /\ svc' = [svc EXCEPT ![s] = Spawned(IF c = ShellCaller THEN prebound ELSE 0)]
          /\ call' = [call EXCEPT ![c].pc = "record", ![c].new = s]
    BY <1>4 DEF Spawn
  <2>2. svc' \in [Processes -> Services]
    BY <2>1, ServicesKept, Records DEF LifeTypeOK
  <2>3. call' \in [Starters -> Calls]
    BY <2>1, <1>a, CallsKept, Records
  <2> QED
    BY <1>4, <2>2, <2>3, TypesFrom DEF Spawn, LifeTypeOK, clear_stop_request
<1>5. CASE Record(c)
  <2>1. call[c].new \in Processes \cup {NoIdentity}
    BY TypeParts DEF Calls
  <2>2. call' \in [Starters -> Calls] /\ svc' \in [Processes -> Services]
    BY <1>5, <1>a, GoesTyped, TypeParts DEF Record
  <2> QED
    BY <1>5, <2>1, <2>2, TypesFrom DEF Record, remember_service, LifeTypeOK
<1>6. CASE Patch(c)
  <2>1. call[c].port \in 0 .. LastPort /\ svc' \in [Processes -> Services]
    BY <1>6, TypeParts DEF Calls, Patch
  <2> QED
    BY <1>6, <2>1, EndsTyped, TypesFrom DEF Patch, LifeTypeOK
<1>7. CASE NothingRunning(c)
  <2>1. call' \in [Starters -> Calls] /\ svc' \in [Processes -> Services]
    BY <1>7, <1>a, GoesTyped, TypeParts DEF NothingRunning
  <2>2. wanted' \in BOOLEAN
    BY <1>7 DEF NothingRunning
  <2> QED
    BY <1>7, <2>1, <2>2, TypesFrom DEF NothingRunning, LifeTypeOK
<1>8. CASE RequestStop(c)
  <2>1. call' \in [Starters -> Calls]
    BY <1>8, <1>a, <1>b, CallsKept, Records DEF RequestStop, LifeTypeOK
  <2>2. svc' \in [Processes -> Services] /\ wanted' \in BOOLEAN /\ stopFile' \in BOOLEAN
    <3>1. CASE platform = "windows"
      BY <1>8, <3>1, TypeParts DEF RequestStop, request_stop
    <3>2. CASE platform # "windows"
      BY <1>8, <3>2, ServicesKept DEF RequestStop, request_stop, LifeTypeOK
    <3> QED
      BY <3>1, <3>2
  <2> QED
    BY <1>8, <2>1, <2>2, TypesFrom DEF RequestStop, LifeTypeOK
<1>9. CASE AllExited(c)
  <2>1. call' \in [Starters -> Calls] /\ svc' \in [Processes -> Services]
    BY <1>9, <1>a, CallsKept, Records, TypeParts DEF AllExited, LifeTypeOK
  <2> QED
    BY <1>9, <2>1, TypesFrom DEF AllExited, LifeTypeOK
<1>10. CASE ForceStop(c)
  <2>1. call' \in [Starters -> Calls] /\ svc' \in [Processes -> Services]
    BY <1>10, <1>a, CallsKept, Records, ServicesKept DEF ForceStop, LifeTypeOK
  <2>2. stopFile' \in BOOLEAN
    BY <1>10 DEF ForceStop
  <2> QED
    BY <1>10, <2>1, <2>2, TypesFrom DEF ForceStop, LifeTypeOK
<1>11. CASE Revert(c)
  <2>1. svc' \in [Processes -> Services]
    BY <1>11, TypeParts DEF Revert
  <2> QED
    BY <1>11, <2>1, EndsTyped, TypesFrom, Records DEF Revert, LifeTypeOK
<1>12. CASE StatusLook(c)
  <2>1. tracked_or_discovered \in SUBSET Processes
    BY <1>b DEF tracked_or_discovered, Alive
  <2>2. call' \in [Starters -> Calls] /\ svc' \in [Processes -> Services]
    <3>1. CASE Goes(c, "rewrite")
      BY <1>12, <3>1, <1>a, GoesTyped, TypeParts DEF StatusLook
    <3>2. CASE ~Goes(c, "rewrite")
      <4>1. PICK s \in tracked_or_discovered :
              call' = [call EXCEPT ![c].pc = "rewrite", ![c].new = s]
        BY <1>12, <3>2, Zenon DEF StatusLook
      <4> QED
        BY <1>12, <4>1, <1>a, <2>1, CallsKept, Records, TypeParts DEF StatusLook, LifeTypeOK
    <3> QED
      BY <3>1, <3>2
  <2> QED
    BY <1>12, <2>2, TypesFrom DEF StatusLook, LifeTypeOK
<1>13. CASE StatusWrite(c)
  <2>1. call[c].new \in Processes \cup {NoIdentity} /\ svc' \in [Processes -> Services]
    BY <1>13, TypeParts DEF StatusWrite, Calls
  <2> QED
    BY <1>13, <2>1, EndsTyped, TypesFrom DEF StatusWrite, LifeTypeOK
<1>14. CASE UnitStatus(c) \/ UnitStopTimesOut(c)
  <2>1. svc' \in [Processes -> Services] /\ call' \in [Starters -> Calls]
        /\ prebound' \in 0 .. LastPort
    BY <1>14, EndsTyped, TypeParts DEF UnitStatus, UnitStopTimesOut
  <2> QED
    BY <1>14, <2>1, TypesFrom DEF UnitStatus, UnitStopTimesOut, LifeTypeOK
<1>15. CASE UnitStart(c) \/ WaitedForPort(c) \/ UnitStop(c) \/ UnitStopped(c)
  <2>1. svc' \in [Processes -> Services]
    BY <1>15, ServicesKept, TypeParts DEF UnitStart, WaitedForPort, UnitStop, UnitStopped
  <2>2. call' \in [Starters -> Calls]
    BY <1>15, <1>a, GoesTyped DEF UnitStart, WaitedForPort, UnitStop, UnitStopped
  <2> QED
    BY <1>15, <2>1, <2>2, TypesFrom DEF UnitStart, WaitedForPort, UnitStop, UnitStopped, LifeTypeOK
<1> QED
  BY <1>1, <1>2, <1>3, <1>4, <1>5, <1>6, <1>7, <1>8, <1>9, <1>10, <1>11, <1>12, <1>13, <1>14,
     <1>15 DEF Operation

\* So do the calls that begin.
LEMMA BeginTypes ==
  ASSUME LifeTypeOK, NEW c \in Starters, BeginStart(c) \/ BeginStop(c) \/ BeginStatus(c)
  PROVE  LifeTypeOK'
<1>1. PICK p \in Places : Begins(c, p)
  BY DEF BeginStart, BeginStop, BeginStatus, Places
<1>2. prebound' \in 0 .. LastPort
  BY Records DEF BeginStart, BeginStop, BeginStatus, prebind_listen_socket, LifeTypeOK
<1>3. svc' \in [Processes -> Services]
  BY TypeParts DEF BeginStart, BeginStop, BeginStatus
<1> QED
  BY <1>1, <1>2, <1>3, BeginsTyped, TypesFrom DEF BeginStart, BeginStop, BeginStatus, LifeTypeOK

\* And what services do, or their crash.
LEMMA ServiceTypes ==
  ASSUME LifeTypeOK, NEW s \in Processes, ServiceStep(s) \/ ServiceCrashes(s)
  PROVE  LifeTypeOK'
<1>a. svc[s] \in Services /\ svc \in [Processes -> Services] /\ call \in [Starters -> Calls]
  BY TypeParts
<1>b. cfgPort \in 0 .. LastPort
  BY Records DEF LifeTypeOK
<1>1. CASE Load(s)
  <2>1. svc' \in [Processes -> Services]
    BY <1>1, <1>a, <1>b DEF Load, Services
  <2> QED
    BY <1>1, <1>a, <2>1, TypesFrom DEF Load, LifeTypeOK
<1>2. CASE Bind(s)
  <2>1. svc' \in [Processes -> Services]
    BY <1>2, <1>a DEF Bind, ensure_ra_proxy_chained, adopt_listen_socket, Services
  <2>2. chain' \in 0 .. LastPort /\ (chain' # 0 => platform = "rocknix")
    BY <1>2, <1>a DEF Bind, ensure_ra_proxy_chained, Services, LifeTypeOK
  <2> QED
    BY <1>2, <1>a, <2>1, <2>2, TypesFrom DEF Bind, LifeTypeOK
<1>3. CASE BindFails(s) \/ Exit(s) \/ ServiceCrashes(s)
  <2>1. svc' \in [Processes -> Services]
    BY <1>3, ServicesKept DEF BindFails, Exit, ServiceCrashes
  <2>2. mishaps' \in 0 .. Mishaps
    BY <1>3, LifecycleAssumption
       DEF BindFails, Exit, ServiceCrashes, Mishap, LifeTypeOK
  <2> QED
    BY <1>3, <1>a, <2>1, <2>2, TypesFrom DEF BindFails, Exit, ServiceCrashes, LifeTypeOK
<1>4. CASE NoticeStopFile(s)
  <2>1. svc' \in [Processes -> Services]
    BY <1>4, <1>a DEF NoticeStopFile, Services
  <2> QED
    BY <1>4, <1>a, <2>1, TypesFrom DEF NoticeStopFile, LifeTypeOK
<1>6. CASE Leave(s)
  <2>1. svc' \in [Processes -> Services]
    BY <1>6, <1>a DEF Leave, Services
  <2> QED
    BY <1>6, <1>a, <2>1, TypesFrom DEF Leave, LifeTypeOK
<1>5. CASE Close(s)
  <2>1. svc' \in [Processes -> Services]
    BY <1>5, <1>a, Records DEF Close, Services
  <2>2. chain' \in 0 .. LastPort /\ (chain' # 0 => platform = "rocknix")
    BY <1>5, Records DEF Close, stop_ra_proxy_chain, LifeTypeOK
  <2> QED
    BY <1>5, <1>a, <2>1, <2>2, TypesFrom DEF Close, LifeTypeOK
<1> QED
  BY <1>1, <1>2, <1>3, <1>4, <1>5, <1>6 DEF ServiceStep

\* And the unit's restarts and what happens beside the program.
LEMMA MishapTypes ==
  ASSUME LifeTypeOK,
         UnitSpawns \/ (\E p \in Ports : ForeignTakes(p)) \/ ForeignLeaves \/ Reinstall \/ PowerLoss
  PROVE  LifeTypeOK'
<1>a. svc \in [Processes -> Services] /\ call \in [Starters -> Calls]
  BY TypeParts
<1>b. cfgPort \in 0 .. LastPort
  BY Records DEF LifeTypeOK
<1>c. Mishap => mishaps' \in 0 .. Mishaps
  BY LifecycleAssumption DEF Mishap, LifeTypeOK
<1>1. CASE UnitSpawns
  <2>1. svc' \in [Processes -> Services]
    BY <1>1, ServicesKept, Records DEF UnitSpawns
  <2> QED
    BY <1>1, <1>a, <1>b, <2>1, TypesFrom DEF UnitSpawns, LifeTypeOK
<1>2. CASE \E p \in Ports : ForeignTakes(p)
  BY <1>2, <1>a, <1>c, TypesFrom, Records DEF ForeignTakes, LifeTypeOK
<1>3. CASE ForeignLeaves
  BY <1>3, <1>a, TypesFrom, Records DEF ForeignLeaves, LifeTypeOK
<1>4. CASE Reinstall
  <2>1. svc' \in [Processes -> Services]
    BY <1>4, <1>a DEF Reinstall, Services
  <2> QED
    BY <1>4, <1>a, <1>c, <2>1, TypesFrom DEF Reinstall, LifeTypeOK
<1>5. CASE PowerLoss
  <2>1. svc' \in [Processes -> Services] /\ call' \in [Starters -> Calls]
    BY <1>5, Records DEF PowerLoss
  <2> QED
    BY <1>5, <1>c, <2>1, TypesFrom, Records DEF PowerLoss, LifeTypeOK
<1> QED
  BY <1>1, <1>2, <1>3, <1>4, <1>5

\* LifeTypeOK holds at first.
LEMMA TypesInit == LifeInit => LifeTypeOK
<1>1. 1 \in Ports
  BY LifecycleAssumption DEF Ports
<1>2. ASSUME LifeInit
      PROVE  svc \in [Processes -> Services] /\ call \in [Starters -> Calls]
  BY <1>2, Records DEF LifeInit
<1>3. 0 \in 0 .. Operations /\ 0 \in 0 .. Mishaps
  BY LifecycleAssumption
<1>4. ASSUME LifeInit
      PROVE  /\ platform \in Platforms /\ cfgPort \in Ports
             /\ chain # 0 => platform = "rocknix"
             /\ {pidFile, identity} \subseteq Processes \cup {NoIdentity}
             /\ {wanted, stopFile, unit} \subseteq BOOLEAN
             /\ {foreign, prebound, chain, pointed} \subseteq 0 .. LastPort
             /\ overlap \in {"never", "before", "now"}
             /\ ops \in 0 .. Operations /\ mishaps \in 0 .. Mishaps
  BY <1>1, <1>3, <1>4, Records DEF LifeInit
<1> QED
  BY <1>2, <1>4, Zenon DEF LifeTypeOK, Services, Calls

\* And every step keeps it.
LEMMA TypesStep == LifeTypeOK /\ [LifeNext]_lifeVars => LifeTypeOK'
<1>1. ASSUME LifeTypeOK, UNCHANGED lifeVars
      PROVE  LifeTypeOK'
  BY <1>1 DEF lifeVars, LifeTypeOK
<1> QED
  BY <1>1, CallerTypes, BeginTypes, ServiceTypes, MishapTypes DEF LifeNext

\* Every state is well typed: LifeTypeOK of menu, shell and service together.
THEOREM LifeTyped == LifeSpec => []LifeTypeOK
BY TypesInit, TypesStep, PTL DEF LifeSpec

-----------------------------------------------------------------------------
(* What every operation leaves alone.                                        *)

\* An operation moves the caller it is of, which is at work, and no other.
Moves(c) ==
  /\ ~At(c, "idle") /\ UNCHANGED <<platform, overlap, foreign, chain>>
  /\ \A d \in Starters \ {c} : call'[d] = call[d]

\* What Moves says holds of every operation.
LEMMA OperationMoves ==
  ASSUME LifeTypeOK, NEW c \in Starters, Operation(c)
  PROVE  Moves(c)
<1> USE TypeParts DEF Moves, At, Goes, Ends
<1>1. CASE Look(c)
  BY <1>1 DEF Look
<1>2. CASE Sweep(c)
  BY <1>2 DEF Sweep
<1>3. CASE Probe(c)
  BY <1>3 DEF Probe
<1>4. CASE Spawn(c)
  BY <1>4 DEF Spawn
<1>5. CASE Record(c) \/ Patch(c)
  BY <1>5 DEF Record, Patch
<1>6. CASE NothingRunning(c) \/ RequestStop(c) \/ AllExited(c)
  BY <1>6 DEF NothingRunning, RequestStop, AllExited
<1>7. CASE ForceStop(c) \/ Revert(c)
  BY <1>7 DEF ForceStop, Revert
<1>8. CASE StatusLook(c)
  BY <1>8 DEF StatusLook
<1>9. CASE StatusWrite(c) \/ UnitStatus(c) \/ UnitStart(c) \/ WaitedForPort(c)
  BY <1>9 DEF StatusWrite, UnitStatus, UnitStart, WaitedForPort
<1>10. CASE UnitStop(c) \/ UnitStopped(c) \/ UnitStopTimesOut(c)
  BY <1>10 DEF UnitStop, UnitStopped, UnitStopTimesOut
<1> QED
  BY <1>1, <1>2, <1>3, <1>4, <1>5, <1>6, <1>7, <1>8, <1>9, <1>10 DEF Operation

\* A call that begins moves its caller, which was idle, and nothing a service sees but the port
\* the boot entrypoint opens.
BeginsCall(c) == BeginStart(c) \/ BeginStop(c) \/ BeginStatus(c)

\* Where a call begins, and that it leaves the rest alone.
LEMMA BeginMoves ==
  ASSUME LifeTypeOK, NEW c \in Starters, BeginsCall(c)
  PROVE  /\ At(c, "idle") /\ lastOp' = "none"
         /\ UNCHANGED <<platform, svc, pidFile, identity, wanted, stopFile, unit, cfgPort,
                        foreign, chain, pointed, mishaps>>
         /\ overlap' = IF ~Quiet THEN "now" ELSE IF overlap = "never" THEN "never" ELSE "before"
         /\ \A d \in Starters \ {c} : call'[d] = call[d]
         /\ call'[c].port = cfgPort /\ call'[c].found = {} /\ call'[c].new = NoIdentity
         /\ \/ platform = "darkos" /\ call'[c].pc \in {"unit start", "unit stop", "status"}
            \/ platform # "darkos" /\ call'[c].pc \in {"look", "stop", "status"}
         /\ prebound' \in {prebound, cfgPort}
         /\ prebound' # prebound => c = ShellCaller
<1>1. PICK p \in {"unit start", "unit stop", "status", "look", "stop"} :
        /\ Begins(c, p)
        /\ p \in {"unit start", "unit stop"} => platform = "darkos"
        /\ p \in {"look", "stop"} => platform # "darkos"
  BY DEF BeginsCall, BeginStart, BeginStop, BeginStatus
<1>2. /\ UNCHANGED <<platform, svc, pidFile, identity, wanted, stopFile, unit, cfgPort,
                     foreign, chain, pointed, mishaps>>
      /\ prebound' \in {prebound, cfgPort}
      /\ prebound' # prebound => c = ShellCaller
  BY DEF BeginsCall, BeginStart, BeginStop, BeginStatus, prebind_listen_socket
<1>3. /\ At(c, "idle") /\ lastOp' = "none"
      /\ overlap' = IF ~Quiet THEN "now" ELSE IF overlap = "never" THEN "never" ELSE "before"
      /\ call' = [call EXCEPT ![c] = [Rested EXCEPT !.pc = p, !.port = cfgPort]]
  BY <1>1 DEF Begins
<1>4. /\ \A d \in Starters \ {c} : call'[d] = call[d]
      /\ call'[c] = [Rested EXCEPT !.pc = p, !.port = cfgPort]
  BY <1>3, TypeParts
<1>5. call'[c].port = cfgPort /\ call'[c].found = {} /\ call'[c].new = NoIdentity /\ call'[c].pc = p
  BY <1>4 DEF Rested
<1>6. \/ platform = "darkos" /\ call'[c].pc \in {"unit start", "unit stop", "status"}
      \/ platform # "darkos" /\ call'[c].pc \in {"look", "stop", "status"}
  BY <1>1, <1>5
<1> QED
  BY <1>2, <1>3, <1>4, <1>5, <1>6, Zenon

\* What is alive after the processes changed.
LEMMA AliveAfter ==
  ASSUME LifeTypeOK
  PROVE  /\ Alive \in SUBSET Processes
         /\ svc' = svc => Alive' = Alive
         /\ \A S : svc' = TermAll(S) => Alive' \subseteq Alive
         /\ \A S : svc' = KillAll(S) => Alive' = Alive \ S
         /\ \A s \in Processes : \A x :
               svc' = [svc EXCEPT ![s] = Spawned(x)] => Alive' = Alive \cup {s}
<1>1. \A s \in Processes : \A x : svc' = [svc EXCEPT ![s] = Spawned(x)] => Alive' = Alive \cup {s}
  BY TypeParts DEF Alive, Live, Spawned, Dead
<1>2. \A S : svc' = KillAll(S) => Alive' = Alive \ S
  BY DEF Alive, Live, KillAll, Dead
<1>3. \A S : svc' = TermAll(S) => Alive' \subseteq Alive
  BY DEF Alive, Live, TermAll
<1> QED
  BY <1>1, <1>2, <1>3 DEF Alive, Live

\* What a service does, or its crash, moves no other, nor the callers.
LEMMA ServiceMoves ==
  ASSUME LifeTypeOK, NEW s \in Processes, ServiceStep(s) \/ ServiceCrashes(s)
  PROVE  /\ s \in Alive /\ Alive' \subseteq Alive
         /\ UNCHANGED <<platform, identity, wanted, unit, cfgPort, foreign, prebound, pointed,
                        call, overlap, lastOp, ops>>
         /\ \A t \in Processes \ {s} : svc'[t] = svc[t]
<1> USE TypeParts DEF Alive, Live, Dead, KillAll, Serving
<1>1. CASE Load(s) \/ Bind(s)
  BY <1>1 DEF Load, Bind
<1>2. CASE BindFails(s) \/ Exit(s) \/ ServiceCrashes(s)
  BY <1>2 DEF BindFails, Exit, ServiceCrashes
<1>3. CASE NoticeStopFile(s)
  BY <1>3 DEF NoticeStopFile
<1>4. CASE Leave(s) \/ Close(s)
  BY <1>4 DEF Leave, Close
<1> QED
  BY <1>1, <1>2, <1>3, <1>4 DEF ServiceStep


\* What happens beside the program and is no power loss.
Beside == (\E p \in Ports : ForeignTakes(p)) \/ ForeignLeaves \/ Reinstall

\* What happens beside leaves callers and services where they are.
LEMMA BesideMoves ==
  ASSUME LifeTypeOK, Beside
  PROVE  /\ UNCHANGED <<platform, pidFile, identity, wanted, stopFile, unit, cfgPort, prebound,
                        chain, pointed, call, overlap, lastOp, ops>>
         /\ Alive' = Alive
         /\ \A s \in Processes : /\ svc'[s].at = svc[s].at /\ svc'[s].port = svc[s].port
                                 /\ svc'[s].socket = svc[s].socket /\ svc'[s].term = svc[s].term
                                 /\ svc'[s].orphan # svc[s].orphan
                                       => platform \in {"linux", "rocknix"}
<1>1. CASE \E p \in Ports : ForeignTakes(p)
  BY <1>1 DEF ForeignTakes, Alive, Live
<1>2. CASE ForeignLeaves
  BY <1>2 DEF ForeignLeaves, Alive, Live
<1>3. CASE Reinstall
  BY <1>3, TypeParts DEF Reinstall, Alive, Live, Services
<1> QED
  BY <1>1, <1>2, <1>3 DEF Beside

\* A power loss ends every process and every call.
LEMMA PowerLossMoves ==
  ASSUME PowerLoss
  PROVE  /\ Alive' = {} /\ \A s \in Processes : svc'[s] = Dead
         /\ \A c \in Starters : call'[c] = Rested /\ call'[c].pc = "idle"
BY DEF PowerLoss, Alive, Live, Dead, Rested

-----------------------------------------------------------------------------
(* The operations of menu and shell.                                         *)

\* While calls did not overlap just now, one caller is at work at most.
Alone == overlap # "now" => \A c, d \in Starters : ~At(c, "idle") /\ ~At(d, "idle") => c = d

\* Alone is kept.
LEMMA AloneStep ==
  ASSUME LifeTypeOK, Alone, LifeNext
  PROVE  Alone'
<1>1. ASSUME NEW c \in Starters, BeginsCall(c)
      PROVE  Alone'
  <2> SUFFICES ASSUME overlap' # "now", NEW d \in Starters \ {c}
               PROVE  call'[d].pc = "idle"
    BY DEF Alone, At
  <2>1. Quiet
    BY <1>1, BeginMoves
  <2>2. call'[d] = call[d]
    BY <1>1, BeginMoves
  <2> QED
    BY <2>1, <2>2 DEF Quiet, At
<1>2. ASSUME NEW c \in Starters, Operation(c)
      PROVE  Alone'
  BY <1>2, OperationMoves DEF Alone, Moves, At
<1>3. ASSUME UNCHANGED <<call, overlap>>
      PROVE  Alone'
  BY <1>3 DEF Alone, At
<1>4. ASSUME PowerLoss
      PROVE  Alone'
  BY <1>4, PowerLossMoves DEF Alone, At, Rested
<1>5. UnitSpawns => UNCHANGED <<call, overlap>>
  BY DEF UnitSpawns
<1> QED
  BY <1>1, <1>2, <1>3, <1>4, <1>5, ServiceMoves, BesideMoves DEF LifeNext, Beside, BeginsCall

\* So while a caller is at work the others are idle.
LEMMA OthersIdle ==
  ASSUME Alone, overlap # "now", NEW c \in Starters, ~At(c, "idle"), NEW d \in Starters, d # c
  PROVE  At(d, "idle")
BY DEF Alone

\* Only dArkOS asks systemd, the rest look for processes themselves, and only Linux packages
\* lose their files to a reinstall.
OnUnit == {"unit start", "listening", "unit stop", "unit wait"}
OnProcesses == {"look", "sweep", "probe", "spawn", "record", "stop", "wait", "rewrite"}

OwnWays ==
  /\ \A c \in Starters : /\ call[c].pc \in OnUnit => platform = "darkos"
                         /\ call[c].pc \in OnProcesses => platform # "darkos"
                         /\ At(c, "sweep") => platform # "windows"
  /\ unit => platform = "darkos"
  /\ platform = "windows" => \A s \in Processes : ~svc[s].orphan

\* Where each operation finds its caller and where it leaves it.
Goto(c, from, to) == call[c].pc = from /\ call'[c].pc \in to

\* What Goto says of each operation.
LEMMA Itinerary ==
  ASSUME LifeTypeOK, NEW c \in Starters
  PROVE  /\ Look(c) => Goto(c, "look", {"patch", "sweep", "probe"})
         /\ Sweep(c) => Goto(c, "sweep", {"probe"})
         /\ Probe(c) => Goto(c, "probe", {"spawn", "idle"})
         /\ Spawn(c) => Goto(c, "spawn", {"record"})
         /\ Record(c) => Goto(c, "record", {"patch"})
         /\ Patch(c) => Goto(c, "patch", {"idle"})
         /\ NothingRunning(c) => Goto(c, "stop", {"revert"})
         /\ RequestStop(c) => Goto(c, "stop", {"wait"})
         /\ AllExited(c) \/ ForceStop(c) => Goto(c, "wait", {"revert"})
         /\ Revert(c) => Goto(c, "revert", {"idle"})
         /\ StatusLook(c) => Goto(c, "status", {"rewrite"})
         /\ StatusWrite(c) => Goto(c, "rewrite", {"idle"})
         /\ UnitStatus(c) => Goto(c, "status", {"idle"})
         /\ UnitStart(c) => Goto(c, "unit start", {"listening"})
         /\ WaitedForPort(c) => Goto(c, "listening", {"patch"})
         /\ UnitStop(c) => Goto(c, "unit stop", {"unit wait"})
         /\ UnitStopped(c) => Goto(c, "unit wait", {"revert"})
         /\ UnitStopTimesOut(c) => Goto(c, "unit wait", {"idle"})
<1> USE TypeParts DEF At, Goes, Ends, Rested, Goto, Calls
<1>1. Look(c) => Goto(c, "look", {"patch", "sweep", "probe"})
  BY DEF Look
<1>2. Sweep(c) => Goto(c, "sweep", {"probe"})
  BY DEF Sweep
<1>3. Probe(c) => Goto(c, "probe", {"spawn", "idle"})
  BY DEF Probe
<1>4. Spawn(c) => Goto(c, "spawn", {"record"})
  BY DEF Spawn
<1>5. /\ Record(c) => Goto(c, "record", {"patch"})
      /\ Patch(c) => Goto(c, "patch", {"idle"})
  BY DEF Record, Patch
<1>6. /\ NothingRunning(c) => Goto(c, "stop", {"revert"})
      /\ RequestStop(c) => Goto(c, "stop", {"wait"})
  BY DEF NothingRunning, RequestStop
<1>7. /\ AllExited(c) \/ ForceStop(c) => Goto(c, "wait", {"revert"})
      /\ Revert(c) => Goto(c, "revert", {"idle"})
  BY DEF AllExited, ForceStop, Revert
<1>8. StatusLook(c) => Goto(c, "status", {"rewrite"})
  BY DEF StatusLook
<1>9. /\ StatusWrite(c) => Goto(c, "rewrite", {"idle"})
      /\ UnitStatus(c) => Goto(c, "status", {"idle"})
  BY DEF StatusWrite, UnitStatus
<1>10. UnitStart(c) => Goto(c, "unit start", {"listening"})
  BY DEF UnitStart
<1>11. WaitedForPort(c) => Goto(c, "listening", {"patch"})
  BY DEF WaitedForPort
<1>12. UnitStop(c) => Goto(c, "unit stop", {"unit wait"})
  BY DEF UnitStop
<1>13. UnitStopped(c) => Goto(c, "unit wait", {"revert"})
  BY DEF UnitStopped
<1>14. UnitStopTimesOut(c) => Goto(c, "unit wait", {"idle"})
  <2> SUFFICES ASSUME UnitStopTimesOut(c)
               PROVE  Goto(c, "unit wait", {"idle"})
    OBVIOUS
  <2>1. At(c, "unit wait") /\ call' = [call EXCEPT ![c] = Rested]
    BY DEF UnitStopTimesOut
  <2> QED
    BY <2>1
<1> QED
  BY <1>1, <1>2, <1>3, <1>4, <1>5, <1>6, <1>7, <1>8, <1>9, <1>10, <1>11, <1>12,
     <1>13, <1>14, Zenon

\* An operation leads from one place on a platform to another of its own.
LEMMA CallerWays ==
  ASSUME LifeTypeOK, OwnWays, NEW c \in Starters, Operation(c)
  PROVE  /\ call'[c].pc \in OnUnit => platform = "darkos"
         /\ call'[c].pc \in OnProcesses => platform # "darkos"
         /\ call'[c].pc = "sweep" => platform # "windows"
         /\ unit' => platform = "darkos"
         /\ platform = "windows" => \A s \in Processes : ~svc'[s].orphan
<1>1. platform = "windows" => call'[c].pc # "sweep" /\ \A s \in Processes : ~svc'[s].orphan
  <2> SUFFICES ASSUME platform = "windows"
               PROVE  call'[c].pc # "sweep" /\ \A s \in Processes : ~svc'[s].orphan
    OBVIOUS
  <2>1. \A s \in Processes : ~svc[s].orphan
    BY DEF OwnWays
  <2>2. CASE Look(c)
    <3>1. svc' = svc /\ call'[c].pc # "sweep"
      BY <2>1, <2>2, TypeParts DEF Look, Discovered, Alive, Goes, Calls
    <3> QED
      BY <3>1, <2>1
  <2>3. CASE Sweep(c) \/ ForceStop(c)
    <3>1. \A s \in Processes : ~svc'[s].orphan
      BY <2>1, <2>3 DEF Sweep, ForceStop, KillAll, Dead
    <3> QED
      BY <2>3, <3>1, Itinerary DEF Goto
  <2>4. CASE Spawn(c)
    <3>1. \A s \in Processes : ~svc'[s].orphan
      BY <2>1, <2>4, TypeParts DEF Spawn, Spawned, Dead
    <3> QED
      BY <2>4, <3>1, Itinerary DEF Goto
  <2>5. CASE RequestStop(c)
    BY <2>1, <2>5, Itinerary DEF Goto, RequestStop, request_stop
  <2>6. CASE UnitStop(c)
    BY <2>1, <2>6, TypeParts, Itinerary DEF OwnWays, Goto, OnUnit
  <2>7. CASE Probe(c) \/ Record(c) \/ Patch(c) \/ NothingRunning(c) \/ AllExited(c) \/ Revert(c)
    BY <2>1, <2>7, Itinerary DEF Goto, Probe, Record, Patch, NothingRunning, AllExited, Revert
  <2>8. CASE StatusLook(c) \/ StatusWrite(c) \/ UnitStatus(c) \/ UnitStart(c) \/ WaitedForPort(c)
             \/ UnitStopped(c) \/ UnitStopTimesOut(c)
    BY <2>1, <2>8, Itinerary
       DEF Goto, StatusLook, StatusWrite, UnitStatus, UnitStart, WaitedForPort, UnitStopped,
           UnitStopTimesOut
  <2> QED
    BY <2>2, <2>3, <2>4, <2>5, <2>6, <2>7, <2>8 DEF Operation
<1>2. unit' => unit \/ UnitStart(c)
  BY DEF Operation, Look, Sweep, Probe, Spawn, Record, Patch, NothingRunning, RequestStop,
         AllExited, ForceStop, Revert, StatusLook, StatusWrite, UnitStatus, WaitedForPort,
         UnitStop, UnitStopped, UnitStopTimesOut
<1>3. /\ call'[c].pc \in OnUnit => platform = "darkos"
      /\ call'[c].pc \in OnProcesses => platform # "darkos"
  <2>1. StatusLook(c) => platform # "darkos"
    BY DEF StatusLook
  <2> QED
    BY <2>1, Itinerary DEF Operation, Goto, OwnWays, OnUnit, OnProcesses
<1>4. UnitStart(c) => platform = "darkos"
  BY Itinerary DEF Goto, OwnWays, OnUnit
<1> QED
  BY <1>1, <1>2, <1>3, <1>4 DEF OwnWays

\* OwnWays is kept.
LEMMA OwnWaysStep ==
  ASSUME LifeTypeOK, OwnWays, LifeNext
  PROVE  OwnWays'
<1>1. ASSUME NEW c \in Starters, BeginsCall(c)
      PROVE  OwnWays'
  BY <1>1, BeginMoves DEF OwnWays, At, OnUnit, OnProcesses
<1>2. ASSUME NEW c \in Starters, Operation(c)
      PROVE  OwnWays'
  BY <1>2, OperationMoves, CallerWays DEF OwnWays, Moves, At
<1>3. ASSUME NEW s \in Processes, ServiceStep(s) \/ ServiceCrashes(s)
      PROVE  OwnWays'
  <2>1. svc'[s].orphan => svc[s].orphan
    BY <1>3, TypeParts
       DEF ServiceStep, ServiceCrashes, Load, Bind, BindFails, NoticeStopFile, Leave, Close, Exit,
           KillAll, Dead, Services
  <2> QED
    BY <1>3, <2>1, ServiceMoves DEF OwnWays, At
<1>4. ASSUME Beside
      PROVE  OwnWays'
  BY <1>4, BesideMoves DEF OwnWays, At
<1>5. ASSUME UnitSpawns
      PROVE  OwnWays'
  BY <1>5 DEF UnitSpawns, OwnWays, At
<1>6. ASSUME PowerLoss
      PROVE  OwnWays'
  <2>1. platform' = platform /\ (unit' => platform = "darkos")
    BY <1>6 DEF PowerLoss
  <2> QED
    <3>2. \A s \in Processes : svc'[s].orphan = FALSE
      BY <1>6, PowerLossMoves DEF Dead
    <3> QED
      BY <1>6, <2>1, <3>2, PowerLossMoves DEF OwnWays, At, OnUnit, OnProcesses
<1> QED
  BY <1>1, <1>2, <1>3, <1>4, <1>5, <1>6 DEF LifeNext, Beside, BeginsCall


\* Which operations lead to a place.
LEMMA ArrivesBy ==
  ASSUME LifeTypeOK, NEW c \in Starters, Operation(c)
  PROVE  /\ call'[c].pc = "sweep" => Look(c)
         /\ call'[c].pc = "probe" => Look(c) \/ Sweep(c)
         /\ call'[c].pc = "spawn" => Probe(c)
         /\ call'[c].pc = "record" => Spawn(c)
         /\ call'[c].pc = "wait" => RequestStop(c)
         /\ call'[c].pc = "unit wait" => UnitStop(c)
         /\ call'[c].pc = "rewrite" => StatusLook(c)
         /\ call'[c].pc = "revert" => \/ NothingRunning(c) \/ AllExited(c) \/ ForceStop(c)
                                      \/ UnitStopped(c)
         /\ call'[c].pc = "idle" => \/ Probe(c) \/ Patch(c) \/ Revert(c) \/ StatusWrite(c)
                                    \/ UnitStatus(c) \/ UnitStopTimesOut(c)
BY Itinerary DEF Operation, Goto

\* systemd starts a service where none is alive.
LEMMA UnitSpawnsMoves ==
  ASSUME LifeTypeOK, UnitSpawns
  PROVE  /\ unit /\ Alive = {} /\ pointed' = cfgPort
         /\ UNCHANGED <<platform, pidFile, identity, wanted, stopFile, unit, cfgPort, prebound,
                        call, overlap, lastOp, ops>>
         /\ \E s \in Processes : svc' = [svc EXCEPT ![s] = Spawned(0)] /\ Alive' = {s}
BY AliveAfter DEF UnitSpawns

-----------------------------------------------------------------------------
(* Stopping.                                                                 *)

\* While calls did not overlap just now, a stop waits for whatever is alive, has systemd give up
\* the unit, and puts the emulators back when nothing is alive any more.
StopsAll(c) ==
  /\ At(c, "wait") => Alive \subseteq call[c].found
  /\ At(c, "unit wait") => ~unit
  /\ At(c, "revert") => Alive = {} /\ ~unit
  /\ At(c, "revert") /\ platform # "darkos" => pidFile = NoIdentity

Stopping == overlap # "now" /\ platform # "windows" => \A c \in Starters : StopsAll(c)

\* Off Windows every process is found.
LEMMA AllFound ==
  ASSUME platform # "windows"
  PROVE  Discovered = Alive
BY DEF Discovered

\* StopsAll is kept for the caller that moves.
LEMMA StoppingHere ==
  ASSUME LifeTypeOK, OwnWays, Stopping, overlap # "now", platform # "windows",
         NEW c \in Starters, Operation(c)
  PROVE  StopsAll(c)'
<1>a. StopsAll(c)
  BY DEF Stopping
<1>1. CASE call'[c].pc = "wait"
  <2>1. RequestStop(c)
    BY <1>1, ArrivesBy
  <2>2. svc' = TermAll(Discovered) /\ call'[c].found = Discovered
    BY <2>1, TypeParts DEF RequestStop, request_stop, Calls
  <2> QED
    BY <1>1, <2>2, AllFound, AliveAfter DEF StopsAll, At
<1>2. CASE call'[c].pc = "unit wait"
  BY <1>2, ArrivesBy DEF UnitStop, StopsAll, At
<1>3. CASE call'[c].pc = "revert"
  <2>1. CASE NothingRunning(c)
    <3>1. platform # "darkos" /\ At(c, "stop")
      BY <2>1 DEF NothingRunning, OwnWays, At, OnProcesses
    <3> QED
      BY <1>3, <2>1, <3>1, AllFound, AliveAfter DEF NothingRunning, StopsAll, At, OwnWays
  <2>2. CASE AllExited(c) \/ ForceStop(c)
    <3>1. platform # "darkos" /\ Alive \subseteq call[c].found
      BY <2>2, <1>a, Itinerary DEF Goto, OwnWays, StopsAll, At, OnProcesses
    <3>2. Alive' = {}
      BY <2>2, <3>1, AliveAfter DEF AllExited, ForceStop
    <3> QED
      BY <1>3, <2>2, <3>1, <3>2 DEF AllExited, ForceStop, StopsAll, At, OwnWays
  <2>3. CASE UnitStopped(c)
    <3>1. platform = "darkos" /\ ~unit
      BY <2>3, <1>a, Itinerary DEF Goto, OwnWays, StopsAll, At, OnUnit
    <3> QED
      BY <1>3, <2>3, <3>1, AliveAfter DEF UnitStopped, StopsAll, At
  <2> QED
    BY <1>3, <2>1, <2>2, <2>3, ArrivesBy
<1> QED
  BY <1>1, <1>2, <1>3 DEF StopsAll, At

\* Stopping is kept: the others are idle.
LEMMA StoppingStep ==
  ASSUME LifeTypeOK, Alone, OwnWays, Stopping, LifeNext
  PROVE  Stopping'
<1>1. ASSUME NEW c \in Starters, BeginsCall(c)
      PROVE  Stopping'
  <2> SUFFICES ASSUME overlap' # "now", platform' # "windows", NEW d \in Starters
               PROVE  StopsAll(d)'
    BY DEF Stopping
  <2>1. call'[d].pc \notin {"wait", "unit wait", "revert"}
    BY <1>1, BeginMoves DEF Quiet, At
  <2> QED
    BY <2>1 DEF StopsAll, At
<1>2. ASSUME NEW c \in Starters, Operation(c)
      PROVE  Stopping'
  <2> SUFFICES ASSUME overlap' # "now", platform' # "windows", NEW d \in Starters
               PROVE  StopsAll(d)'
    BY DEF Stopping
  <2>1. overlap # "now" /\ platform # "windows"
    BY <1>2, OperationMoves DEF Moves
  <2>2. CASE d = c
    BY <1>2, <2>1, <2>2, StoppingHere
  <2>3. CASE d # c
    <3>1. call'[d].pc = "idle"
      BY <1>2, <2>1, <2>3, OperationMoves, OthersIdle DEF Moves, At
    <3> QED
      BY <3>1 DEF StopsAll, At
  <2> QED
    BY <2>2, <2>3
<1>3. ASSUME NEW s \in Processes, ServiceStep(s) \/ ServiceCrashes(s)
      PROVE  Stopping'
  <2>2. ASSUME NEW c \in Starters, StopsAll(c)
        PROVE  StopsAll(c)'
    BY <1>3, <2>2, ServiceMoves DEF StopsAll, At
  <2> QED
    BY <1>3, <2>2, ServiceMoves DEF Stopping
<1>4. ASSUME Beside
      PROVE  Stopping'
  BY <1>4, BesideMoves DEF Stopping, StopsAll, At
<1>5. ASSUME UnitSpawns
      PROVE  Stopping'
  <2>1. ASSUME NEW c \in Starters, StopsAll(c)
        PROVE  StopsAll(c)'
    <3>1. platform = "darkos" /\ unit
      BY <1>5, UnitSpawnsMoves DEF OwnWays
    <3>2. call[c].pc \notin {"wait", "unit wait", "revert"}
      BY <2>1, <3>1 DEF StopsAll, OwnWays, At, OnProcesses
    <3> QED
      BY <1>5, <3>2, UnitSpawnsMoves DEF StopsAll, At
  <2> QED
    BY <1>5, <2>1, UnitSpawnsMoves DEF Stopping
<1>6. ASSUME PowerLoss
      PROVE  Stopping'
  BY <1>6, PowerLossMoves DEF Stopping, StopsAll, At
<1> QED
  BY <1>1, <1>2, <1>3, <1>4, <1>5, <1>6 DEF LifeNext, Beside, BeginsCall


-----------------------------------------------------------------------------
(* One service at most.                                                      *)

\* While calls never overlapped, what starts a service has found none, and nothing is alive
\* beside what it spawned.
NoneElse(c) ==
  /\ call[c].pc \in {"probe", "spawn"} => Alive = {}
  /\ At(c, "sweep") => Alive \subseteq call[c].found
  /\ At(c, "record") => Alive \subseteq {call[c].new}

OneService == overlap = "never" =>
  /\ \A s, t \in Alive : s = t
  /\ \A c \in Starters : NoneElse(c)

\* On Windows the service is the one in the pid file and in the identity file, is wanted, and was
\* not asked to stop; a stop waits for it and a status call writes it down again.
Remembers(c) ==
  /\ At(c, "wait") => Alive \subseteq call[c].found /\ ~wanted
  /\ At(c, "revert") => Alive = {} /\ pidFile = NoIdentity /\ ~wanted
  /\ At(c, "rewrite") => Alive \subseteq {call[c].new}

Known == overlap = "never" /\ platform = "windows" =>
  /\ (\A c \in Starters : ~At(c, "record")) => \A s \in Alive : pidFile = s /\ identity = s
  /\ (\A c \in Starters : ~At(c, "wait")) => \A s \in Alive : ~stopFile /\ ~svc[s].term
  /\ (\A c \in Starters : ~At(c, "wait") /\ ~At(c, "record")) => Alive = {} \/ wanted
  /\ \A c \in Starters : Remembers(c)

\* So what looks for the service finds it, on every platform.
LEMMA ServiceFound ==
  ASSUME Alone, Known, overlap = "never", NEW c \in Starters, ~At(c, "idle"), ~At(c, "record")
  PROVE  Discovered = Alive
<1>1. \A d \in Starters : ~At(d, "record")
  BY OthersIdle DEF At
<1> QED
  BY <1>1 DEF Discovered, Matches, Known

\* NoneElse is kept for the caller that moves; it spawns only where nothing is alive.
LEMMA OneServiceHere ==
  ASSUME LifeTypeOK, Alone, OwnWays, OneService, Known, overlap = "never",
         NEW c \in Starters, Operation(c)
  PROVE  NoneElse(c)' /\ \A s, t \in Alive' : s = t
<1>a. NoneElse(c) /\ \A s, t \in Alive : s = t
  BY DEF OneService
<1>b. ~Spawn(c) => Alive' \subseteq Alive
  <2>1. (Look(c) \/ Sweep(c) \/ RequestStop(c) \/ ForceStop(c) \/ UnitStop(c))
           => Alive' \subseteq Alive
    BY AliveAfter DEF Look, Sweep, RequestStop, request_stop, ForceStop, UnitStop
  <2>2. ~(Spawn(c) \/ Look(c) \/ Sweep(c) \/ RequestStop(c) \/ ForceStop(c) \/ UnitStop(c))
           => svc' = svc
    BY DEF Operation, Probe, Record, Patch, NothingRunning, AllExited, Revert, StatusLook,
           StatusWrite, UnitStatus, UnitStart, WaitedForPort, UnitStopped, UnitStopTimesOut
  <2> QED
    BY <2>1, <2>2, AliveAfter
<1>1. CASE Spawn(c)
  <2>1. PICK s \in Processes :
          /\ svc' = [svc EXCEPT ![s] = Spawned(IF c = ShellCaller THEN prebound ELSE 0)]
          /\ call' = [call EXCEPT ![c].pc = "record", ![c].new = s]
    BY <1>1 DEF Spawn
  <2>2. Alive' = {s}
    BY <1>1, <1>a, <2>1, AliveAfter DEF Spawn, NoneElse, At
  <2>3. call'[c].pc = "record" /\ call'[c].new = s
    BY <2>1, TypeParts DEF Calls
  <2> QED
    BY <2>2, <2>3 DEF NoneElse, At
<1>2. CASE ~Spawn(c)
  <2>1. CASE Look(c)
    <3>1. Discovered = Alive
      BY <2>1, ServiceFound DEF Look, At
    <3>2. call'[c].pc = "probe" => Alive = {}
      BY <2>1, <3>1, TypeParts DEF Look, Goes, Calls
    <3>3. call'[c].pc = "sweep" => call'[c].found = Alive
      BY <2>1, <3>1, TypeParts DEF Look, Goes, Calls
    <3> QED
      BY <1>a, <1>b, <1>2, <2>1, <3>2, <3>3, Itinerary DEF NoneElse, At, Goto
  <2>2. CASE Sweep(c)
    <3>1. Alive' = {}
      BY <1>a, <2>2, AliveAfter DEF Sweep, NoneElse
    <3> QED
      BY <3>1 DEF NoneElse
  <2>3. CASE ~Look(c) /\ ~Sweep(c)
    <3>1. call'[c].pc \notin {"probe", "sweep", "record"}
      BY <1>2, <2>3, ArrivesBy
    <3>2. call'[c].pc = "spawn" => Alive = {}
      BY <1>a, ArrivesBy DEF Probe, NoneElse, At
    <3> QED
      BY <1>a, <1>b, <1>2, <3>1, <3>2 DEF NoneElse, At
  <2> QED
    BY <2>1, <2>2, <2>3
<1> QED
  BY <1>1, <1>2

\* OneService is kept.
LEMMA OneServiceStep ==
  ASSUME LifeTypeOK, Alone, OwnWays, OneService, Known, LifeNext
  PROVE  OneService'
<1>1. ASSUME NEW c \in Starters, BeginsCall(c)
      PROVE  OneService'
  <2> SUFFICES ASSUME overlap' = "never"
               PROVE  OneService'
    BY DEF OneService
  <2>1. Quiet /\ overlap = "never" /\ Alive' = Alive
    BY <1>1, BeginMoves, AliveAfter
  <2>2. \A d \in Starters : call'[d].pc \notin {"probe", "spawn", "sweep", "record"}
    BY <1>1, <2>1, BeginMoves DEF Quiet, At
  <2> QED
    BY <2>1, <2>2 DEF OneService, NoneElse, At
<1>2. ASSUME NEW c \in Starters, Operation(c)
      PROVE  OneService'
  <2> SUFFICES ASSUME overlap' = "never"
               PROVE  OneService'
    BY DEF OneService
  <2>1. overlap = "never"
    BY <1>2, OperationMoves DEF Moves
  <2>2. ASSUME NEW d \in Starters, d # c
        PROVE  NoneElse(d)'
    <3>1. call'[d].pc = "idle"
      BY <1>2, <2>1, <2>2, OperationMoves, OthersIdle DEF Moves, At
    <3> QED
      BY <3>1 DEF NoneElse, At
  <2> QED
    BY <1>2, <2>1, <2>2, OneServiceHere DEF OneService
<1>3. ASSUME NEW s \in Processes, ServiceStep(s) \/ ServiceCrashes(s)
      PROVE  OneService'
  BY <1>3, ServiceMoves DEF OneService, NoneElse, At
<1>4. ASSUME Beside
      PROVE  OneService'
  BY <1>4, BesideMoves DEF OneService, NoneElse, At
<1>5. ASSUME UnitSpawns
      PROVE  OneService'
  <2>1. ASSUME NEW c \in Starters
        PROVE  NoneElse(c)'
    <3>1. call[c].pc \notin OnProcesses
      BY <1>5, UnitSpawnsMoves DEF OwnWays
    <3> QED
      BY <1>5, <3>1, UnitSpawnsMoves DEF NoneElse, At, OnProcesses
  <2> QED
    BY <1>5, <2>1, UnitSpawnsMoves DEF OneService
<1>6. ASSUME PowerLoss
      PROVE  OneService'
  BY <1>6, PowerLossMoves DEF OneService, NoneElse, At
<1> QED
  BY <1>1, <1>2, <1>3, <1>4, <1>5, <1>6 DEF LifeNext, Beside, BeginsCall


\* Known is kept when a caller moves.
LEMMA KnownHere ==
  ASSUME LifeTypeOK, Alone, OwnWays, OneService, Known, overlap = "never", platform = "windows",
         NEW c \in Starters, Operation(c)
  PROVE  /\ call'[c].pc # "record" => \A s \in Alive' : pidFile' = s /\ identity' = s
         /\ call'[c].pc # "wait" => \A s \in Alive' : ~stopFile' /\ ~svc'[s].term
         /\ call'[c].pc \notin {"wait", "record"} => Alive' = {} \/ wanted'
         /\ Remembers(c)'
<1>a. NoneElse(c) /\ Remembers(c) /\ call'[c].pc # "sweep" /\ call[c].pc # "sweep"
  BY CallerWays DEF OneService, Known, OwnWays, At
<1>b. /\ ~At(c, "record") => \A s \in Alive : pidFile = s /\ identity = s
      /\ ~At(c, "wait") => \A s \in Alive : ~stopFile /\ ~svc[s].term
      /\ ~At(c, "wait") /\ ~At(c, "record") => Alive = {} \/ wanted
  <2>1. ~At(c, "idle") /\ \A d \in Starters : d # c => At(d, "idle")
    BY OperationMoves, OthersIdle DEF Moves
  <2> QED
    BY <2>1 DEF Known, At
<1>c. call[c].pc \notin OnUnit
  BY DEF OwnWays
<1>d. ~At(c, "record") => Discovered = Alive
  BY ServiceFound, OperationMoves DEF Moves
<1>1. CASE Look(c)
  <2>1. svc' = svc /\ pidFile' = pidFile /\ call'[c].pc \in {"patch", "probe"}
    <3>1. call'[c].pc \in {"patch", "probe"}
      BY <1>1, <1>a, Itinerary DEF Goto
    <3>2. call' = [call EXCEPT ![c].pc = "sweep", ![c].found = Discovered] => call'[c].pc = "sweep"
      BY TypeParts DEF Calls
    <3>3. \A s \in Discovered : pidFile = s
      BY DEF Discovered
    <3> QED
      BY <1>1, <3>1, <3>2, <3>3 DEF Look
  <2> QED
    BY <1>1, <1>b, <2>1, AliveAfter DEF Look, Remembers, At
<1>2. CASE Probe(c) \/ Patch(c)
  <2>1. /\ UNCHANGED <<svc, pidFile, identity, wanted, stopFile>>
        /\ call'[c].pc \in {"spawn", "idle"}
        /\ call[c].pc \in {"probe", "patch"}
    BY <1>2, Itinerary DEF Probe, Patch, Goto
  <2> QED
    BY <1>b, <2>1, AliveAfter DEF Remembers, At
<1>3. CASE Spawn(c)
  <2>1. PICK s \in Processes :
          /\ svc' = [svc EXCEPT ![s] = Spawned(IF c = ShellCaller THEN prebound ELSE 0)]
          /\ call' = [call EXCEPT ![c].pc = "record", ![c].new = s]
    BY <1>3 DEF Spawn
  <2>2. Alive' = {s} /\ stopFile' = FALSE /\ call'[c].pc = "record"
    BY <1>3, <1>a, <2>1, AliveAfter, Itinerary
       DEF Spawn, NoneElse, At, clear_stop_request, Goto
  <2>3. svc'[s].term = FALSE
    BY <2>1, TypeParts DEF Spawned, Dead
  <2> QED
    BY <2>2, <2>3 DEF Remembers, At
<1>4. CASE Record(c)
  <2>1. Alive \subseteq {call[c].new} /\ call'[c].pc = "patch" /\ call[c].pc = "record"
    BY <1>4, <1>a, Itinerary DEF NoneElse, Goto, At
  <2> QED
    BY <1>4, <1>b, <2>1, AliveAfter DEF Record, remember_service, Remembers, At
<1>5. CASE NothingRunning(c) \/ AllExited(c) \/ ForceStop(c)
  <2>1. Alive' = {} /\ pidFile' = NoIdentity /\ ~wanted'
    <3>1. CASE NothingRunning(c)
      BY <3>1, <1>d, AliveAfter DEF NothingRunning, At
    <3>2. CASE AllExited(c)
      BY <3>2, <1>a, AliveAfter DEF AllExited, Remembers
    <3>3. CASE ForceStop(c)
      BY <3>3, <1>a, AliveAfter DEF ForceStop, Remembers
    <3> QED
      BY <1>5, <3>1, <3>2, <3>3
  <2>2. call'[c].pc = "revert"
    BY <1>5, Itinerary DEF Goto
  <2> QED
    BY <2>1, <2>2 DEF Remembers, At
<1>6. CASE RequestStop(c)
  <2>1. UNCHANGED <<svc, pidFile, identity>> /\ ~wanted' /\ call'[c].pc = "wait"
        /\ call'[c].found = Alive
    BY <1>6, <1>d, Itinerary, TypeParts DEF RequestStop, request_stop, Goto, At, Calls
  <2> QED
    BY <1>6, <1>b, <2>1, AliveAfter DEF Remembers, At, RequestStop
<1>7. CASE Revert(c)
  <2>1. Alive' = {} /\ call'[c].pc = "idle"
    BY <1>7, <1>a, AliveAfter, Itinerary DEF Revert, Remembers, Goto
  <2> QED
    BY <2>1 DEF Remembers, At
<1>8. CASE StatusLook(c)
  <2>1. UNCHANGED <<svc, pidFile, identity, wanted, stopFile>> /\ call'[c].pc = "rewrite"
        /\ call[c].pc = "status"
    BY <1>8, Itinerary DEF StatusLook, Goto
  <2>2. Alive \subseteq {call'[c].new}
    <3>1. tracked_or_discovered = Alive
      BY <1>b, <1>d, <2>1 DEF tracked_or_discovered, At, Matches
    <3>2. Alive # {} => \E s \in Alive : call'[c].new = s
      BY <1>8, <3>1, TypeParts DEF StatusLook, Calls
    <3> QED
      BY <3>2 DEF OneService
  <2> QED
    BY <1>b, <2>1, <2>2, AliveAfter DEF Remembers, At
<1>9. CASE StatusWrite(c)
  <2>1. Alive \subseteq {call[c].new} /\ call'[c].pc = "idle" /\ call[c].pc = "rewrite"
    BY <1>9, <1>a, Itinerary DEF Remembers, Goto, At
  <2> QED
    BY <1>9, <1>b, <2>1, AliveAfter DEF StatusWrite, Remembers, At
<1>10. CASE UnitStatus(c) \/ UnitStart(c) \/ WaitedForPort(c) \/ UnitStop(c) \/ UnitStopped(c)
              \/ UnitStopTimesOut(c)
  BY <1>10, <1>c, Itinerary DEF Goto, OnUnit, UnitStatus
<1> QED
  BY <1>1, <1>2, <1>3, <1>4, <1>5, <1>6, <1>7, <1>8, <1>9, <1>10, <1>a, Itinerary
     DEF Operation, Goto

\* Known is kept.
LEMMA KnownStep ==
  ASSUME LifeTypeOK, Alone, OwnWays, OneService, Known, LifeNext
  PROVE  Known'
<1>1. ASSUME NEW c \in Starters, BeginsCall(c)
      PROVE  Known'
  <2> SUFFICES ASSUME overlap' = "never", platform' = "windows"
               PROVE  Known'
    BY DEF Known
  <2>1. Quiet /\ overlap = "never" /\ platform = "windows" /\ Alive' = Alive
    BY <1>1, BeginMoves, AliveAfter
  <2>2. \A d \in Starters : call'[d].pc \notin {"wait", "revert", "rewrite", "record"}
    BY <1>1, <2>1, BeginMoves DEF Quiet, At
  <2>3. /\ \A s \in Alive : pidFile = s /\ identity = s
        /\ \A s \in Alive : ~stopFile /\ ~svc[s].term
        /\ Alive = {} \/ wanted
    BY <2>1 DEF Known, Quiet, At
  <2> QED
    BY <1>1, <2>1, <2>2, <2>3, BeginMoves DEF Known, Remembers, At
<1>2. ASSUME NEW c \in Starters, Operation(c)
      PROVE  Known'
  <2> SUFFICES ASSUME overlap' = "never", platform' = "windows"
               PROVE  Known'
    BY DEF Known
  <2>1. overlap = "never" /\ platform = "windows"
    BY <1>2, OperationMoves DEF Moves
  <2>2. ASSUME NEW d \in Starters, d # c
        PROVE  Remembers(d)'
    <3>1. call'[d].pc = "idle"
      BY <1>2, <2>1, <2>2, OperationMoves, OthersIdle DEF Moves, At
    <3> QED
      BY <3>1 DEF Remembers, At
  <2> QED
    BY <1>2, <2>1, <2>2, KnownHere DEF Known, At
<1>3. ASSUME NEW s \in Processes, ServiceStep(s) \/ ServiceCrashes(s)
      PROVE  Known'
  <2> SUFFICES ASSUME overlap' = "never", platform' = "windows"
               PROVE  Known'
    BY DEF Known
  <2>1. /\ overlap = "never" /\ platform = "windows" /\ s \in Alive /\ Alive \subseteq {s}
        /\ Alive' \subseteq Alive /\ UNCHANGED <<call, identity, wanted>>
    BY <1>3, ServiceMoves DEF OneService
  <2>2. CASE Alive' = {}
    BY <2>1, <2>2 DEF Known, Remembers, At
  <2>3. CASE Alive' # {}
    <3>1. ~BindFails(s) /\ ~Exit(s) /\ ~ServiceCrashes(s)
      BY <2>1, <2>3, AliveAfter DEF BindFails, Exit, ServiceCrashes
    <3>2. CASE Load(s)
      <4>1. pidFile' = s /\ stopFile' = stopFile /\ svc'[s].term = svc[s].term
        BY <3>2, TypeParts DEF Load, Services
      <4> QED
        BY <2>1, <4>1 DEF Known, Remembers, At
    <3>3. CASE NoticeStopFile(s)
      <4>1. pidFile' = pidFile /\ stopFile
        BY <3>3 DEF NoticeStopFile
      <4> QED
        BY <2>1, <4>1 DEF Known, Remembers, At
    <3>4. CASE Bind(s) \/ Leave(s) \/ Close(s)
      <4>1. pidFile' = pidFile /\ stopFile' = stopFile /\ svc'[s].term = svc[s].term
        BY <3>4, TypeParts DEF Bind, Leave, Close, Services
      <4> QED
        BY <2>1, <4>1 DEF Known, Remembers, At
    <3> QED
      BY <1>3, <3>1, <3>2, <3>3, <3>4 DEF ServiceStep
  <2> QED
    BY <2>2, <2>3
<1>4. ASSUME Beside
      PROVE  Known'
  BY <1>4, BesideMoves DEF Known, Remembers, At, Alive
<1>5. ASSUME UnitSpawns
      PROVE  Known'
  BY <1>5, UnitSpawnsMoves DEF Known, OwnWays
<1>6. ASSUME PowerLoss
      PROVE  Known'
  BY <1>6, PowerLossMoves DEF Known, Remembers, At
<1> QED
  BY <1>1, <1>2, <1>3, <1>4, <1>5, <1>6 DEF LifeNext, Beside, BeginsCall


-----------------------------------------------------------------------------
(* The port.                                                                 *)

\* While calls never overlapped there is one port: the configured one, which callers work with,
\* the boot entrypoint holds, services listen on and, after a start, emulators are pointed at.
OnPort(s) ==
  /\ svc[s].at # "loading" => svc[s].port = cfgPort
  /\ svc[s].socket \in {0, cfgPort}
  /\ Serving(s) => svc[s].socket = cfgPort

PortsAgree == overlap = "never" =>
  /\ \A c \in Starters : ~At(c, "idle") => call[c].port = cfgPort
  /\ prebound = 0 \/ (prebound = cfgPort /\ ~At(ShellCaller, "idle"))
  /\ \A s \in Alive : OnPort(s)
  /\ Quiet /\ lastOp \in {"start", "adopted"} => pointed = cfgPort

\* Told to stop, or killed, a service that is left listens where it did.
LEMMA PortsStay ==
  ASSUME LifeTypeOK, NEW S, svc' \in {svc, TermAll(S), KillAll(S)}, NEW s \in Alive'
  PROVE  /\ s \in Alive
         /\ svc'[s].at = svc[s].at /\ svc'[s].port = svc[s].port /\ svc'[s].socket = svc[s].socket
<1>1. s \in Processes /\ svc[s] \in Services /\ svc'[s].at # "gone"
  BY TypeParts DEF Alive, Live
<1>2. CASE svc' = svc
  BY <1>1, <1>2 DEF Alive, Live
<1>3. CASE svc' = KillAll(S)
  BY <1>1, <1>3 DEF Alive, Live, KillAll, Dead
<1>4. CASE svc' = TermAll(S)
  BY <1>1, <1>4 DEF Alive, Live, TermAll, Terminated, Dead, Services
<1> QED
  BY <1>2, <1>3, <1>4

\* Only a probe moves the port, and only a spawn makes a process.
LEMMA OthersPorts ==
  ASSUME LifeTypeOK, NEW c \in Starters, Operation(c), ~Probe(c), ~Spawn(c)
  PROVE  /\ cfgPort' = cfgPort /\ \E S : svc' \in {svc, TermAll(S), KillAll(S)}
         /\ call'[c].pc # "idle" => call'[c].port = call[c].port /\ prebound' = prebound
         /\ call'[c].pc = "idle" => prebound' = IF c = ShellCaller THEN 0 ELSE prebound
         /\ call'[c].pc = "idle" =>
              (lastOp' \in {"start", "adopted"} => Patch(c) /\ pointed' = call[c].port)
<1>1. cfgPort' = cfgPort /\ \E S : svc' \in {svc, TermAll(S), KillAll(S)}
  BY DEF Operation, Look, Sweep, Record, Patch, NothingRunning, RequestStop, request_stop,
         AllExited, ForceStop, Revert, StatusLook, StatusWrite, UnitStatus, UnitStart,
         WaitedForPort, UnitStop, UnitStopped, UnitStopTimesOut
<1>2. CASE call'[c].pc = "idle"
  <2>1. Patch(c) \/ Revert(c) \/ StatusWrite(c) \/ UnitStatus(c) \/ UnitStopTimesOut(c)
    BY <1>2, ArrivesBy
  <2> QED
    BY <1>1, <1>2, <2>1, Zenon DEF Patch, Revert, StatusWrite, UnitStatus, UnitStopTimesOut, Ends
<1>3. CASE call'[c].pc # "idle"
  <2>1. call'[c].port = call[c].port /\ prebound' = prebound
    <3>1. CASE Look(c) \/ Sweep(c)
      BY <3>1, TypeParts DEF Look, Sweep, Goes, Calls
    <3>2. CASE Record(c) \/ NothingRunning(c)
      BY <3>2, TypeParts DEF Record, NothingRunning, Goes, Calls
    <3>3. CASE RequestStop(c)
      BY <3>3, TypeParts DEF RequestStop, Calls
    <3>4. CASE AllExited(c) \/ ForceStop(c)
      BY <3>4, TypeParts DEF AllExited, ForceStop, Calls
    <3>5. CASE StatusLook(c)
      BY <3>5, TypeParts DEF StatusLook, Goes, Calls
    <3>6. CASE UnitStart(c) \/ WaitedForPort(c)
      BY <3>6, TypeParts DEF UnitStart, WaitedForPort, Goes, Calls
    <3>7. CASE UnitStop(c) \/ UnitStopped(c)
      BY <3>7, TypeParts DEF UnitStop, UnitStopped, Goes, Calls
    <3>8. ~(Patch(c) \/ Revert(c) \/ StatusWrite(c) \/ UnitStatus(c) \/ UnitStopTimesOut(c))
      BY <1>3, Itinerary DEF Goto
    <3> QED
      BY <3>1, <3>2, <3>3, <3>4, <3>5, <3>6, <3>7, <3>8 DEF Operation
  <2> QED
    BY <1>1, <1>3, <2>1
<1> QED
  BY <1>2, <1>3

\* PortsAgree is kept when a caller moves.
LEMMA PortsHere ==
  ASSUME LifeTypeOK, Alone, OneService, PortsAgree, overlap = "never",
         NEW c \in Starters, Operation(c)
  PROVE  PortsAgree'
<1>a. /\ ~At(c, "idle") /\ call[c].port = cfgPort /\ UNCHANGED overlap
      /\ \A d \in Starters \ {c} : call[d].pc = "idle" /\ call'[d].pc = "idle"
  BY OperationMoves, OthersIdle DEF Moves, PortsAgree, At
<1>b. prebound = 0 \/ (prebound = cfgPort /\ c = ShellCaller)
  BY <1>a DEF PortsAgree, At, Starters
<1>c. MenuCaller \in Starters /\ ShellCaller \in Starters
  BY Records
<1>1. CASE Probe(c)
  <2>1. Alive = {} /\ Alive' = {}
    BY <1>1, AliveAfter DEF OneService, NoneElse, Probe, At
  <2>2. CASE cfgPort' = cfgPort /\ Goes(c, "spawn") /\ UNCHANGED prebound
    <3>1. call'[c].pc = "spawn" /\ call'[c].port = cfgPort
      BY <1>a, <2>2, TypeParts DEF Goes, Calls
    <3> QED
      BY <1>a, <1>b, <2>1, <2>2, <3>1 DEF PortsAgree, At, Quiet
  <2>3. CASE /\ ~(c = ShellCaller /\ prebound # 0) /\ UNCHANGED prebound
             /\ call' = [call EXCEPT ![c].pc = "spawn", ![c].port = cfgPort']
    <3>1. call'[c].pc = "spawn" /\ call'[c].port = cfgPort'
      BY <2>3, TypeParts DEF Calls
    <3> QED
      BY <1>a, <1>b, <2>1, <2>3, <3>1 DEF PortsAgree, At, Quiet
  <2>4. CASE Ends(c, "failed") /\ UNCHANGED cfgPort
    <3>1. prebound' = 0 /\ lastOp' = "failed"
      BY <1>b, <2>4 DEF Ends
    <3>2. call'[c].pc = "idle"
      BY <2>4, TypeParts DEF Ends, Rested
    <3> QED
      BY <1>a, <2>1, <3>1, <3>2 DEF PortsAgree, At
  <2> QED
    BY <1>1, <2>2, <2>3, <2>4 DEF Probe, saved_port
<1>2. CASE Spawn(c)
  <2>1. PICK s \in Processes :
          /\ svc' = [svc EXCEPT ![s] = Spawned(IF c = ShellCaller THEN prebound ELSE 0)]
          /\ call' = [call EXCEPT ![c].pc = "record", ![c].new = s]
    BY <1>2 DEF Spawn
  <2>2. Alive' = {s} /\ UNCHANGED <<cfgPort, prebound>>
    BY <1>2, <2>1, AliveAfter DEF OneService, NoneElse, Spawn, At
  <2>3. svc'[s].at = "loading" /\ svc'[s].socket \in {0, cfgPort}
    BY <1>b, <2>1, TypeParts DEF Spawned, Dead
  <2>4. call'[c].pc = "record" /\ call'[c].port = call[c].port
    BY <2>1, TypeParts DEF Calls
  <2> QED
    BY <1>a, <1>b, <2>2, <2>3, <2>4 DEF PortsAgree, OnPort, At, Quiet, Serving
<1>3. CASE ~Probe(c) /\ ~Spawn(c)
  <2>1. cfgPort' = cfgPort
    BY <1>3, OthersPorts
  <2>2. \A s \in Alive' : OnPort(s)'
    <3> SUFFICES ASSUME NEW s \in Alive' PROVE OnPort(s)'
      OBVIOUS
    <3>1. s \in Alive /\ svc'[s].at = svc[s].at /\ svc'[s].port = svc[s].port
          /\ svc'[s].socket = svc[s].socket
      BY <1>3, OthersPorts, PortsStay
    <3> QED
      BY <2>1, <3>1 DEF PortsAgree, OnPort, Serving
  <2>3. CASE call'[c].pc # "idle"
    BY <1>3, <1>a, <1>b, <2>1, <2>2, <2>3, OthersPorts DEF PortsAgree, At, Quiet
  <2>4. CASE call'[c].pc = "idle"
    <3>1. prebound' = 0
      BY <1>3, <1>b, <2>4, OthersPorts
    <3>2. lastOp' \in {"start", "adopted"} => pointed' = cfgPort
      BY <1>3, <1>a, <2>4, OthersPorts
    <3> QED
      BY <1>a, <2>1, <2>2, <2>4, <3>1, <3>2 DEF PortsAgree, At
  <2> QED
    BY <2>3, <2>4
<1> QED
  BY <1>1, <1>2, <1>3

\* PortsAgree is kept.
LEMMA PortsStep ==
  ASSUME LifeTypeOK, Alone, OwnWays, OneService, PortsAgree, LifeNext
  PROVE  PortsAgree'
<1>1. ASSUME NEW c \in Starters, BeginsCall(c)
      PROVE  PortsAgree'
  <2> SUFFICES ASSUME overlap' = "never"
               PROVE  PortsAgree'
    BY DEF PortsAgree
  <2>1. Quiet /\ overlap = "never" /\ Alive' = Alive /\ UNCHANGED <<svc, cfgPort>>
    BY <1>1, BeginMoves, AliveAfter
  <2>2. call'[c].port = cfgPort /\ call'[c].pc # "idle" /\ lastOp' = "none"
        /\ \A d \in Starters \ {c} : call'[d].pc = "idle"
    BY <1>1, <2>1, BeginMoves DEF Quiet, At
  <2>3. prebound = 0
    BY <2>1, Records DEF PortsAgree, Quiet
  <2>4. prebound' = 0 \/ (prebound' = cfgPort /\ c = ShellCaller)
    BY <1>1, <2>3, BeginMoves
  <2> QED
    BY <2>1, <2>2, <2>4 DEF PortsAgree, OnPort, At, Serving
<1>2. ASSUME NEW c \in Starters, Operation(c)
      PROVE  PortsAgree'
  <2>1. overlap' = overlap
    BY <1>2, OperationMoves DEF Moves
  <2> QED
    BY <1>2, <2>1, PortsHere DEF PortsAgree
<1>3. ASSUME NEW s \in Processes, ServiceStep(s) \/ ServiceCrashes(s)
      PROVE  PortsAgree'
  <2> SUFFICES ASSUME overlap' = "never"
               PROVE  PortsAgree'
    BY DEF PortsAgree
  <2>1. /\ s \in Alive /\ Alive' \subseteq Alive
        /\ UNCHANGED <<cfgPort, prebound, call, lastOp, pointed, overlap>>
        /\ \A t \in Processes \ {s} : svc'[t] = svc[t]
    BY <1>3, ServiceMoves
  <2>2. OnPort(s) /\ svc[s] \in Services
    BY <2>1, TypeParts DEF PortsAgree, Alive
  <2>3. s \in Alive' => OnPort(s)'
    <3>1. CASE Load(s)
      BY <2>1, <2>2, <3>1, TypeParts DEF Load, OnPort, Serving, Services
    <3>2. CASE Bind(s)
      BY <2>1, <2>2, <3>2, TypeParts DEF Bind, OnPort, Serving, adopt_listen_socket, Services
    <3>3. CASE BindFails(s) \/ Exit(s) \/ ServiceCrashes(s)
      BY <3>3, AliveAfter DEF BindFails, Exit, ServiceCrashes
    <3>4. CASE NoticeStopFile(s)
      BY <2>1, <2>2, <3>4, TypeParts DEF NoticeStopFile, OnPort, Serving, Services
    <3>5. CASE Leave(s)
      BY <2>1, <2>2, <3>5, TypeParts DEF Leave, OnPort, Serving, Services
    <3>6. CASE Close(s)
      BY <2>1, <2>2, <3>6, TypeParts DEF Close, OnPort, Serving, Services
    <3> QED
      BY <1>3, <3>1, <3>2, <3>3, <3>4, <3>5, <3>6 DEF ServiceStep
  <2>4. \A t \in Alive' \ {s} : OnPort(t)'
    BY <2>1 DEF PortsAgree, OnPort, Alive, Serving
  <2> QED
    BY <2>1, <2>3, <2>4 DEF PortsAgree, At, Quiet
<1>4. ASSUME Beside
      PROVE  PortsAgree'
  <2>1. \A s \in Alive' : OnPort(s) => OnPort(s)'
    BY <1>4, BesideMoves DEF OnPort, Serving, Alive
  <2> QED
    BY <1>4, <2>1, BesideMoves DEF PortsAgree, At, Quiet
<1>5. ASSUME UnitSpawns
      PROVE  PortsAgree'
  <2>1. PICK s \in Processes : svc' = [svc EXCEPT ![s] = Spawned(0)] /\ Alive' = {s}
    BY <1>5, UnitSpawnsMoves
  <2>2. OnPort(s)'
    BY <2>1, TypeParts DEF OnPort, Spawned, Dead, Serving
  <2> QED
    BY <1>5, <2>1, <2>2, UnitSpawnsMoves DEF PortsAgree, At, Quiet
<1>6. ASSUME PowerLoss
      PROVE  PortsAgree'
  <2>1. prebound' = 0 /\ lastOp' \notin {"start", "adopted"}
    BY <1>6 DEF PowerLoss
  <2> QED
    BY <1>6, <2>1, PowerLossMoves DEF PortsAgree, At
<1> QED
  BY <1>1, <1>2, <1>3, <1>4, <1>5, <1>6 DEF LifeNext, Beside, BeginsCall


-----------------------------------------------------------------------------
(* The invariants that the runs check.                                       *)

\* StopStops is kept: only putting the emulators back ends a stop.
LEMMA StopStopsStep ==
  ASSUME LifeTypeOK, Alone, OwnWays, Stopping, Known, StopStops, LifeNext
  PROVE  StopStops'
<1>1. ASSUME NEW c \in Starters, BeginsCall(c)
      PROVE  StopStops'
  BY <1>1, BeginMoves DEF StopStops
<1>2. ASSUME NEW c \in Starters, Operation(c)
      PROVE  StopStops'
  <2> SUFFICES ASSUME Quiet', lastOp' = "stop",
                      overlap' = "never" \/ (overlap' = "before" /\ platform' # "windows")
               PROVE  /\ Alive' = {} /\ pointed' = 0
                      /\ platform' # "darkos" => pidFile' = NoIdentity
                      /\ platform' = "windows" => ~wanted'
    BY DEF StopStops
  <2>1. call'[c].pc = "idle"
    BY DEF Quiet, At
  <2>2. Revert(c)
    <3>1. /\ Probe(c) => call'[c].pc = "spawn" \/ lastOp' = "failed"
          /\ Patch(c) => lastOp' # "stop"
          /\ StatusWrite(c) \/ UnitStatus(c) => lastOp' = "status"
          /\ UnitStopTimesOut(c) => lastOp' = "failed"
      <4>1. Probe(c) => call'[c].pc = "spawn" \/ lastOp' = "failed"
        BY <1>1, TypeParts DEF Probe, Goes, Ends, Calls
      <4>2. Patch(c) => lastOp' # "stop"
        BY DEF Patch, Ends
      <4>3. StatusWrite(c) \/ UnitStatus(c) => lastOp' = "status"
        BY DEF StatusWrite, UnitStatus, Ends
      <4>4. UnitStopTimesOut(c) => lastOp' = "failed"
        BY Zenon DEF UnitStopTimesOut, Ends
      <4> QED
        BY <4>1, <4>2, <4>3, <4>4
    <3> QED
      BY <1>2, <2>1, <3>1, ArrivesBy
  <2>3. UNCHANGED <<svc, pidFile, wanted, overlap, platform>> /\ pointed' = 0 /\ At(c, "revert")
    BY <2>2 DEF Revert
  <2>4. CASE platform = "windows"
    BY <2>3, <2>4, AliveAfter DEF Known, Remembers
  <2>5. CASE platform # "windows"
    BY <2>3, <2>5, AliveAfter DEF Stopping, StopsAll
  <2> QED
    BY <2>4, <2>5
<1>3. ASSUME NEW s \in Processes, ServiceStep(s) \/ ServiceCrashes(s)
      PROVE  StopStops'
  BY <1>3, ServiceMoves DEF StopStops, Quiet, At
<1>4. ASSUME Beside
      PROVE  StopStops'
  BY <1>4, BesideMoves DEF StopStops, Quiet, At
<1>5. ASSUME UnitSpawns
      PROVE  StopStops'
  BY <1>5, UnitSpawnsMoves DEF StopStops
<1>6. ASSUME PowerLoss
      PROVE  StopStops'
  BY <1>6 DEF StopStops, PowerLoss
<1> QED
  BY <1>1, <1>2, <1>3, <1>4, <1>5, <1>6 DEF LifeNext, Beside, BeginsCall

\* The invariants together, which every step keeps.
LifeInv == /\ LifeTypeOK /\ Alone /\ OwnWays /\ Stopping
           /\ OneService /\ Known /\ PortsAgree /\ StopStops

\* LifeInv holds at first.
LEMMA LifeInvInit == LifeInit => LifeInv
<1> SUFFICES ASSUME LifeInit PROVE LifeInv
  OBVIOUS
<1>1. /\ \A c \in Starters : call[c].pc = "idle"
      /\ \A s \in Processes : svc[s].at = "gone" /\ svc[s].orphan = FALSE
      /\ prebound = 0 /\ lastOp = "none" /\ unit = FALSE
  BY DEF LifeInit, Rested, Dead
<1>2. Alive = {}
  BY <1>1 DEF Alive, Live
<1>3. Alone /\ OwnWays /\ Stopping
  BY <1>1 DEF Alone, OwnWays, Stopping, StopsAll, At, OnUnit, OnProcesses
<1>4. OneService /\ Known /\ PortsAgree /\ StopStops
  BY <1>1, <1>2 DEF OneService, NoneElse, Known, Remembers, PortsAgree, StopStops, At
<1> QED
  BY <1>3, <1>4, TypesInit DEF LifeInv

\* Every step keeps it.
LEMMA LifeInvStep == LifeInv /\ [LifeNext]_lifeVars => LifeInv'
<1>1. ASSUME LifeInv, LifeNext
      PROVE  LifeInv'
  <2>1. LifeTypeOK' /\ Alone' /\ OwnWays' /\ Stopping'
    BY <1>1, TypesStep, AloneStep, OwnWaysStep, StoppingStep DEF LifeInv
  <2>2. OneService' /\ Known' /\ PortsAgree' /\ StopStops'
    BY <1>1, OneServiceStep, KnownStep, PortsStep, StopStopsStep DEF LifeInv
  <2> QED
    BY <2>1, <2>2 DEF LifeInv
<1>2. ASSUME LifeInv, UNCHANGED lifeVars
      PROVE  LifeInv'
  <2> USE <1>2 DEF lifeVars, LifeInv, At
  <2>1. LifeTypeOK' /\ Alone' /\ OwnWays'
    BY TypesStep DEF Alone, OwnWays
  <2>2. Stopping'
    BY DEF Stopping, StopsAll, Alive, Live
  <2>3. OneService'
    BY DEF OneService, NoneElse, Alive, Live
  <2>4. Known'
    BY DEF Known, Remembers, Alive, Live
  <2>5. PortsAgree'
    BY DEF PortsAgree, OnPort, Serving, Quiet, Alive, Live
  <2>6. StopStops'
    BY DEF StopStops, Quiet, Alive, Live
  <2> QED
    BY <2>1, <2>2, <2>3, <2>4, <2>5, <2>6
<1> QED
  BY <1>1, <1>2

\* So it holds in every behaviour.
LEMMA LifeInvHolds == LifeSpec => []LifeInv
BY LifeInvInit, LifeInvStep, PTL DEF LifeSpec

\* A stop that nothing overlapped leaves no service, no pid file and the emulators put back.
THEOREM StopEnds == LifeSpec => []StopStops
<1>1. LifeInv => StopStops
  BY DEF LifeInv
<1> QED
  BY <1>1, LifeInvHolds, PTL

\* While operations never overlapped there is one service at most, and after a start the
\* emulators are pointed at the port it serves.
THEOREM EmulatorsArePointed == LifeSpec => []EmulatorsReachIt
<1>1. ASSUME LifeInv
      PROVE  EmulatorsReachIt
  <2> SUFFICES ASSUME overlap = "never"
               PROVE  /\ Cardinality(Alive) <= 1
                      /\ Quiet /\ lastOp \in {"start", "adopted"}
                           => \A s \in Processes : Serving(s) => svc[s].socket = pointed
    BY DEF EmulatorsReachIt
  <2>1. Cardinality(Alive) <= 1
    <3>1. CASE Alive = {}
      BY <3>1, FS_EmptySet
    <3>2. CASE Alive # {}
      <4>1. PICK s \in Alive : TRUE
        BY <3>2
      <4>2. Alive = {s}
        BY <1>1 DEF LifeInv, OneService
      <4>3. Cardinality(Alive) = 1
        BY <4>2, FS_Singleton, Zenon
      <4> QED
        BY <4>3
    <3> QED
      BY <3>1, <3>2
  <2>2. \A s \in Processes : Serving(s) => s \in Alive
    BY DEF Serving, Alive, Live
  <2> QED
    BY <1>1, <2>1, <2>2 DEF LifeInv, PortsAgree, OnPort
<1> QED
  BY <1>1, LifeInvHolds, PTL

\* On Windows a service that was started and not stopped since is the one the files name, is not
\* ended by a request left over, and is started again at the next sign-in.
THEOREM StartedStaysKnown == LifeSpec => []StartedIsKnown
<1>1. ASSUME LifeInv
      PROVE  StartedIsKnown
  <2>1. \A s \in Processes : Serving(s) => s \in Alive
    BY DEF Serving, Alive, Live
  <2> QED
    BY <1>1, <2>1 DEF LifeInv, Known, StartedIsKnown, Quiet, At, Matches
<1> QED
  BY <1>1, LifeInvHolds, PTL

=============================================================================
