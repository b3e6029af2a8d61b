---------------------------- MODULE ConfigPatch ----------------------------
(***************************************************************************)
(* A start of the proxy points the configuration files of the emulators at *)
(* it and turns their hardcore mode off; a stop puts back what was there.  *)
(* What was there is kept in one file, the patch state, that is rewritten  *)
(* as a whole and not atomically.                                          *)
(*                                                                         *)
(* The command line (also at boot, and from the unit of dArkOS) and the    *)
(* menu go through the files in an order of their own.  A job is such a    *)
(* pass and where it is; the device may be switched off between two steps. *)
(***************************************************************************)
EXTENDS Sequences, Integers

CONSTANTS
    PowerCuts,    \* how often the device is switched off in a behaviour
    Edits,        \* how often the user changes a file
    NoState       \* the patch state is missing or damaged

Ports == {"proxy", "nextPort"}
Hosts == {"", "custom"} \cup Ports
Contents == [host : Hosts, hard : BOOLEAN]

\* retroarch.cfg, the file muOS appends to it, and the one of the 32-bit RetroArch of
\* dArkOS; batocera.conf; an ini that is compared as a whole, and one compared by host.
FilesOf == [handheld |-> {"retroarch", "append", "conf", "ppsspp", "pcsx2"},
            darkos   |-> {"retroarch", "secondary", "ppsspp"}]
SavedStates == [of : UNION {[fs -> Contents] : fs \in SUBSET (FilesOf.handheld \cup FilesOf.darkos)},
                proxy : Ports]

ASSUME PatchAssumption == PowerCuts \in Nat /\ Edits \in Nat /\ NoState \notin SavedStates

VARIABLES
    device,      \* "handheld" or "darkos"
    cfg,         \* file -> what it says
    patchState,  \* patch_state.json: [of: file -> contents, proxy], or NoState
    port,        \* the proxy's address in config.json
    job,         \* [pass, at: its next step, previous, again, got]
    up, powered, \* the service runs; the device is on
    autostart,
    powerFails, edits, \* counted
    before,      \* history: what each file said before it was pointed at the proxy
    pointed,     \* history: the files that were, and that the user left alone since
    ended,       \* history: what the last finished job was, "none" once something changed
    muddled      \* history: a job was cut short

patchVars == <<device, cfg, patchState, port, job, up, powered, autostart, powerFails, edits,
               before, pointed, ended, muddled>>

Files == DOMAIN cfg
NoJob == [pass |-> <<>>, at |-> 1, previous |-> NoState, again |-> FALSE, got |-> <<>>]
Idle == job.pass = <<>>
Doing(act, f) == ~Idle /\ job.pass[job.at] = <<act, f>>

PatchInit ==
    /\ device \in {"handheld", "darkos"}
    /\ \E host \in {"", "custom"} : cfg = [f \in FilesOf[device] |-> [host |-> host, hard |-> TRUE]]
    /\ patchState = NoState /\ port = "proxy" /\ job = NoJob
    /\ up = FALSE /\ powered = TRUE /\ autostart \in BOOLEAN
    /\ powerFails = 0 /\ edits = 0
    /\ before = cfg /\ pointed = {} /\ ended = "none" /\ muddled = FALSE

-----------------------------------------------------------------------------
(* The passes.                                                             *)

\* _patch_emulator_configs
CliPatch ==
    IF device = "handheld"
    THEN <<<<"patch", "retroarch">>, <<"patch", "append">>, <<"save", "state">>, <<"patch", "conf">>,
           <<"patch", "ppsspp">>, <<"patch", "pcsx2">>, <<"store", "state">>>>
    ELSE <<<<"patch", "retroarch">>, <<"save", "state">>, <<"patch", "secondary">>,
           <<"patch", "ppsspp">>, <<"store", "state">>>>

\* start_proxy_inline: all but the second RetroArch.
MenuPatch ==
    IF device = "handheld" THEN CliPatch
    ELSE <<<<"patch", "retroarch">>, <<"save", "state">>, <<"patch", "ppsspp">>, <<"store", "state">>>>

\* _revert_proxy_config
CliRevert ==
    IF device = "handheld"
    THEN <<<<"revert", "conf">>, <<"revert", "ppsspp">>, <<"revert", "pcsx2">>,
           <<"revert", "retroarch">>, <<"revert", "append">>>>
    ELSE <<<<"revert", "ppsspp">>, <<"revert", "secondary">>, <<"revert", "retroarch">>>>

\* stop_proxy_inline: all but the second RetroArch.
MenuRevert ==
    IF device = "handheld" THEN CliRevert
    ELSE <<<<"revert", "ppsspp">>, <<"revert", "retroarch">>>>

Begin(pass) == job' = [NoJob EXCEPT !.pass = pass, !.previous = patchState]

\* A start of the service takes the next port where the address is in use.
FreePort == IF up THEN {port} ELSE {port, "nextPort"}

\* On dArkOS the start of the unit runs apply-emulator-config first.
StartProxy(by) ==
    /\ Idle /\ powered /\ (by = "menu" => ~up)
    /\ LET own == IF by = "menu" THEN MenuPatch ELSE CliPatch IN
       Begin(IF device = "darkos" /\ ~up THEN CliPatch \o own ELSE own)
    /\ port' \in FreePort /\ up' = TRUE
    /\ ended' = "none"
    /\ UNCHANGED <<device, cfg, patchState, powered, autostart, powerFails, edits, before,
                   pointed, muddled>>

StopProxy(by) ==
    /\ Idle /\ powered /\ (by = "menu" => up)
    /\ Begin(IF by = "menu" THEN MenuRevert ELSE CliRevert)
    /\ up' = FALSE /\ ended' = "none"
    /\ UNCHANGED <<device, cfg, patchState, port, powered, autostart, powerFails, edits, before,
                   pointed, muddled>>

\* boot-reconcile; on dArkOS systemd starts the unit or leaves it.
Boot ==
    /\ ~powered /\ powered' = TRUE /\ up' = autostart
    /\ Begin(IF autostart THEN CliPatch ELSE IF device = "darkos" THEN <<>> ELSE CliRevert)
    /\ ended' = "none" /\ port' \in IF autostart THEN FreePort ELSE {port}
    /\ UNCHANGED <<device, cfg, patchState, autostart, powerFails, edits, before,
                   pointed, muddled>>

-----------------------------------------------------------------------------
(* A start.                                                                *)

Patched(f) == cfg[f].host = port /\ ~cfg[f].hard

\* Whether a patcher says already_patched.
AlreadyPatched(f) == IF f = "pcsx2" THEN cfg[f].host = port ELSE Patched(f)

Recorded(state, f) == state # NoState /\ f \in DOMAIN state.of

\* A mutation: what an earlier start found is not looked for.
CapturesAnew(f) == cfg[f]

\* The values of before that patch_retroarch_cfg records: those of an earlier start, if the
\* file is patched already.
FirstCapture(f) ==
    IF AlreadyPatched(f) /\ Recorded(patchState, f) THEN patchState.of[f] ELSE cfg[f]

\* patch_cheevos_append_cfg: an address of ours is no host of the user. The earlier record
\* counts when that of retroarch.cfg did.
AppendCapture(f) ==
    IF job.again /\ Recorded(patchState, f) THEN patchState.of[f]
    ELSE IF cfg[f].host \in Ports THEN [cfg[f] EXCEPT !.host = ""] ELSE cfg[f]

\* patch_secondary_retroarch_cfgs: the earlier record is the one read before the first patch.
SecondaryCapture(f) ==
    IF AlreadyPatched(f) /\ Recorded(job.previous, f) THEN job.previous.of[f] ELSE cfg[f]

Capture(f) ==
    CASE f = "retroarch" -> FirstCapture(f)
      [] f = "append" -> AppendCapture(f)
      [] f = "secondary" -> SecondaryCapture(f)
      [] OTHER -> cfg[f]

PutIn(map, f, v) == [g \in DOMAIN map \cup {f} |-> IF g = f THEN v ELSE map[g]]

Rest == [job EXCEPT !.at = @ + 1]
FinishJob(next, kind) ==
    /\ job' = IF next.at > Len(next.pass) THEN NoJob ELSE next
    /\ ended' = IF next.at > Len(next.pass) THEN kind ELSE ended

\* build_patched_content and its like.
PatchedContent(f) == [host |-> port, hard |-> FALSE]

PatchFile(f) ==
    /\ Doing("patch", f)
    /\ cfg' = [cfg EXCEPT ![f] = PatchedContent(f)]
    /\ before' = IF cfg[f].host \in Ports THEN before ELSE [before EXCEPT ![f] = cfg[f]]
    /\ pointed' = pointed \cup {f}
    /\ job' = [Rest EXCEPT
          !.previous = IF f = "retroarch" THEN patchState ELSE @,   \* read before the first patch
          !.again = IF f = "retroarch" THEN AlreadyPatched(f) /\ Recorded(patchState, f) ELSE @,
          !.got = PutIn(@, f, [value |-> Capture(f), already |-> AlreadyPatched(f)])]
    /\ UNCHANGED <<device, patchState, port, up, powered, autostart, powerFails, edits, ended, muddled>>

\* save_patch_state of patch_retroarch_cfg: the file as a whole, and so without what the
\* other patchers had kept in it.
SaveState ==
    /\ Doing("save", "state")
    /\ patchState' = [of |-> [f \in DOMAIN job.got |-> job.got[f].value], proxy |-> port]
    /\ job' = [Rest EXCEPT !.got = <<>>]
    /\ UNCHANGED <<device, cfg, port, up, powered, autostart, powerFails, edits, before,
                   pointed, ended, muddled>>

\* store_secondary_retroarch_previous, store_batocera_previous and the like, and the save.
Stored(f) ==
    IF f \notin DOMAIN job.got THEN patchState.of[f]
    ELSE IF f # "secondary" /\ job.got[f].already /\ Recorded(patchState, f) THEN patchState.of[f]
    ELSE job.got[f].value

StoreState ==
    /\ Doing("store", "state")
    /\ patchState' = [patchState EXCEPT
                        !.of = [f \in DOMAIN @ \cup DOMAIN job.got |-> Stored(f)]]
    /\ FinishJob([Rest EXCEPT !.got = <<>>], "start")
    /\ UNCHANGED <<device, cfg, port, up, powered, autostart, powerFails, edits, before,
                   pointed, muddled>>

-----------------------------------------------------------------------------
(* A stop.                                                                 *)

Kept(f) == IF Recorded(job.previous, f) THEN job.previous.of[f] ELSE [host |-> "", hard |-> FALSE]

\* _sanitize_previous: a captured host that is the proxy's own address is no host.
Sane(host, proxy) == IF host = proxy THEN "" ELSE host

\* In a RetroArch file hardcore is only ever turned on again.
Restore(f, host) == [host |-> host, hard |-> cfg[f].hard \/ Kept(f).hard]

\* revert_retroarch_cfg: without a patch state its host is cleared.
RevertedRetroArch(f) ==
    Restore(f, IF job.previous = NoState THEN "" ELSE Sane(Kept(f).host, job.previous.proxy))

\* revert_cheevos_append_cfg, then clear_cheevos_append_host of whatever address of ours
\* is left.
RevertedAppend(f) ==
    LET host == IF Recorded(job.previous, f) THEN Kept(f).host ELSE cfg[f].host IN
    Restore(f, IF host \in Ports THEN "" ELSE host)

RevertedSecondary(f) == Restore(f, Kept(f).host)

RevertedIni(f) == [host |-> Sane(Kept(f).host, port), hard |-> Kept(f).hard]

Reverted(f) ==
    CASE f = "retroarch" -> RevertedRetroArch(f)
      [] f = "append" -> RevertedAppend(f)
      [] f = "secondary" -> RevertedSecondary(f)
      [] OTHER -> RevertedIni(f)

\* The patch state stays: it was read by the caller, and only its reader clears it.
RevertFile(f) ==
    /\ Doing("revert", f)
    /\ cfg' = [cfg EXCEPT ![f] = Reverted(f)]
    /\ FinishJob(Rest, "stop")
    /\ UNCHANGED <<device, patchState, port, up, powered, autostart, powerFails, edits, before,
                   pointed, muddled>>

-----------------------------------------------------------------------------
(* The device and its user.                                                *)

\* In the middle of a save the file may be left empty.
PowerCut ==
    /\ powered /\ powerFails < PowerCuts /\ powerFails' = powerFails + 1
    /\ powered' = FALSE /\ up' = FALSE /\ job' = NoJob /\ ended' = "none"
    /\ muddled' = (muddled \/ ~Idle)
    /\ \/ UNCHANGED patchState
       \/ (Doing("save", "state") \/ Doing("store", "state")) /\ patchState' = NoState
    /\ UNCHANGED <<device, cfg, port, autostart, edits, before, pointed>>

EditFile(f, v) ==
    /\ Idle /\ powered /\ ~up /\ edits < Edits /\ edits' = edits + 1
    /\ v # cfg[f] /\ cfg' = [cfg EXCEPT ![f] = v] /\ ended' = "none"
    /\ pointed' = pointed \ {f}
    /\ UNCHANGED <<device, patchState, port, job, up, powered, autostart, powerFails, before, muddled>>

PatchNext ==
    \/ \E by \in {"cli", "menu"} : StartProxy(by) \/ StopProxy(by)
    \/ Boot \/ SaveState \/ StoreState \/ PowerCut
    \/ \E f \in Files : PatchFile(f) \/ RevertFile(f)
    \/ \E f \in Files, v \in [host : {"", "custom"}, hard : BOOLEAN] : EditFile(f, v)

PatchSpec == PatchInit /\ [][PatchNext]_patchVars

-----------------------------------------------------------------------------
(* Properties.                                                             *)

PatchTypeOK ==
    /\ device \in {"handheld", "darkos"} /\ cfg \in [FilesOf[device] -> Contents]
    /\ patchState = NoState \/ (DOMAIN patchState.of \subseteq Files /\ patchState.proxy \in Ports)
    /\ port \in Ports /\ up \in BOOLEAN /\ powered \in BOOLEAN /\ autostart \in BOOLEAN
    /\ powerFails \in 0..PowerCuts /\ edits \in 0..Edits
    /\ before \in [FilesOf[device] -> [host : {"", "custom"}, hard : BOOLEAN]]
    /\ ended \in {"none", "start", "stop"} /\ pointed \subseteq Files /\ muddled \in BOOLEAN
    /\ DOMAIN job.got \subseteq Files

\* Once a start is over, from the menu, the command line or at boot, every file sends the
\* emulator through the proxy and none plays hardcore.
AllPatched == ended = "start" => \A f \in Files : Patched(f)

\* After a stop no emulator is left talking to a proxy that is gone: through repeated
\* starts, lost patch states and power cuts at any step. The second RetroArch is apart.
StopDisconnects ==
    ended = "stop" => \A f \in Files \ {"secondary"} : cfg[f].host # port

\* What RetroArch had before the first start, its custom host and its hardcore mode, is
\* back after the stop, however many starts and reboots came between: as long as no start
\* or stop was cut short by the power, and the proxy's address never moved.
RetroArchRestored ==
    ended = "stop" /\ ~muddled /\ port = "proxy" =>
        \A f \in pointed \cap {"retroarch", "append"} : cfg[f] = before[f]

\* Each emulator is where the last start or stop wanted it, and RetroArch as its user left it
\* where no job was cut short and no port moved.
EmulatorsFollow == AllPatched /\ StopDisconnects /\ RetroArchRestored

\* What the code does not keep: "Re-running the patch while the ini is already patched
\* would otherwise capture the proxy's own values as "previous"; keep the first-captured
\* set."
FirstCaptureKept ==
    ended = "stop" /\ ~muddled /\ port = "proxy" =>
        \A f \in pointed \cap {"conf", "ppsspp", "pcsx2"} : cfg[f] = before[f]

\* What the code does not keep: "leaving the proxy host behind would break achievements
\* once the proxy is stopped"
SecondaryDisconnects ==
    ended = "stop" => \A f \in Files : cfg[f].host # port
=============================================================================
