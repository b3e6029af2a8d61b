----------------------------- MODULE AppUpdate -----------------------------
(***************************************************************************)
(* The app updates itself on devices where an update is an archive: it     *)
(* looks for a release at most once a day, and swaps its own directory for *)
(* the one in the archive, with a rollback.  The directory holds the       *)
(* user's data: the configuration, the database and the queued awards.     *)
(*                                                                         *)
(* Every step is one call of the file system.  It may fail, and the device *)
(* may be switched off before it.                                          *)
(***************************************************************************)
EXTENDS Integers, FiniteSets

CONSTANTS
    Versions,       \* what may be published: [major, minor, nightly], nightly -1 if stable
    UpdateFaults,   \* failed calls and crashes in a behaviour
    NoVersion, NoDir

DataValues == {"none", "shipped", "mine"}
Trees == [ver : Versions \cup {NoVersion}, data : DataValues]
Statuses == [latest : Versions \cup {NoVersion}, fresh : BOOLEAN]

ASSUME VersionsAssumption ==
    /\ Versions \subseteq [major : Nat, minor : Nat, nightly : Int]
    /\ UpdateFaults \in Nat
    /\ NoVersion \notin Versions /\ NoVersion \notin Statuses
    /\ NoDir \notin Trees /\ NoDir \notin DataValues

VARIABLES
    layout,      \* "onion" or "muos": which of the two installers the device uses
    app, backup, \* the app directory and the one moved aside
    staged,      \* the directory the archive was extracted to
    preserved,   \* the data set aside
    installer,   \* where the installer stands
    running,     \* the version of the menu that runs
    published,   \* the releases
    status,      \* update_status.json
    offer,       \* the version the menu offers
    mishaps,     \* [failed, crashed]: how often
    abandoned,   \* history: an install began over what a crash had left
    dropped      \* history: data were reset by an upgrade to another major version

installVars == <<app, backup, staged, preserved, installer>>
statusVars == <<published, status, offer>>
updateVars == <<layout, installVars, running, statusVars, mishaps, abandoned, dropped>>

IsNightly(v) == v.nightly # -1

\* ParsedVersion is ordered by its fields; a nightly comes after the stable it is built on.
NewerThan(v, w) ==
    \/ v.major > w.major
    \/ v.major = w.major /\ v.minor > w.minor
    \/ v.major = w.major /\ v.minor = w.minor /\ v.nightly > w.nightly

Tree(v, d) == [ver |-> v, data |-> d]
Torn(tree) == [tree EXCEPT !.ver = NoVersion]
Standing == [pc |-> "idle", target |-> NoVersion, keep |-> FALSE, raised |-> FALSE]

UpdateInit ==
    /\ layout \in {"onion", "muos"}
    /\ \E v \in Versions : app = Tree(v, "mine") /\ running = v
    /\ backup = NoDir /\ staged = NoDir /\ preserved = NoDir
    /\ installer = Standing
    /\ published = {} /\ status = NoVersion /\ offer = NoVersion
    /\ mishaps = [failed |-> 0, crashed |-> 0]
    /\ abandoned = FALSE /\ dropped = FALSE

Spare == mishaps.failed + mishaps.crashed < UpdateFaults
CallFails == Spare /\ mishaps' = [mishaps EXCEPT !.failed = @ + 1]
InstallerAt(pc) == installer.pc = pc
Then(pc) == installer' = [installer EXCEPT !.pc = pc]
Raise(pc) == installer' = [installer EXCEPT !.pc = pc, !.raised = TRUE]

-----------------------------------------------------------------------------
(* Looking for a release.                                                  *)

Publish(v) ==
    /\ v \notin published /\ published' = published \cup {v}
    /\ UNCHANGED <<layout, installVars, running, status, offer, mishaps, abandoned, dropped>>

\* dict_to_update_info: a saved answer is compared again with the version that runs.
FromSaved(latest) ==
    IF latest # NoVersion /\ NewerThan(latest, running) THEN latest ELSE NoVersion

\* fetch_latest_release: nightlies only for who runs one, and none where they could not be
\* fetched, which counts as an answer.
Newer(nightlies) ==
    {v \in published : NewerThan(v, running) /\ ((IsNightly(running) /\ nightlies) \/ ~IsNightly(v))}
LatestRelease(nightlies) ==
    IF Newer(nightlies) = {} THEN NoVersion
    ELSE CHOOSE v \in Newer(nightlies) : \A w \in Newer(nightlies) : ~NewerThan(w, v)

Recent == status # NoVersion /\ status.fresh
Saved(v) == [latest |-> v, fresh |-> TRUE]

\* update_status. The menu asks when it is refreshed, and without the saved answer when
\* the user installs and no address is known.
CheckRelease(force) ==
    /\ running # NoVersion /\ InstallerAt("idle")
    /\ \/ /\ Recent /\ ~force
          /\ offer' = FromSaved(status.latest) /\ UNCHANGED status
       \/ /\ ~Recent \/ force
          /\ \/ \E nightlies \in BOOLEAN : /\ offer' = LatestRelease(nightlies)
                                          /\ status' = Saved(offer')
             \/ /\ UNCHANGED status                         \* the fetch failed
                /\ offer' = IF status = NoVersion THEN NoVersion ELSE FromSaved(status.latest)
    /\ UNCHANGED <<layout, installVars, running, published, mishaps, abandoned, dropped>>

DayPasses ==
    /\ Recent /\ status' = [status EXCEPT !.fresh = FALSE]
    /\ UNCHANGED <<layout, installVars, running, published, offer, mishaps, abandoned, dropped>>

-----------------------------------------------------------------------------
(* install_onion_update_archive and install_muos_update_archive.           *)

Leftovers == backup # NoDir \/ staged # NoDir \/ preserved # NoDir

\* The menu stopped the service and downloaded the archive of the version it offers. What
\* lies about from an earlier install is deleted first; an error there ends the install.
BeginInstall ==
    /\ InstallerAt("idle") /\ running # NoVersion /\ offer # NoVersion
    /\ \/ /\ backup' = NoDir /\ staged' = NoDir /\ preserved' = NoDir
          /\ installer' = [Standing EXCEPT !.pc = "extract", !.target = offer]
          /\ abandoned' = (abandoned \/ Leftovers) /\ UNCHANGED mishaps
       \/ /\ Leftovers /\ CallFails
          /\ UNCHANGED <<backup, staged, preserved, installer, abandoned>>
    /\ UNCHANGED <<layout, app, running, statusVars, dropped>>

\* Without a rollback: muOS has its directories removed, Onion leaves them.
GivesUp == IF layout = "muos" THEN Raise("tidy") ELSE installer' = Standing

\* should_preserve_onion_data: unless both versions are known and of one major version, the
\* data go. muOS keeps them always.
KeepsData(known) ==
    layout = "muos" \/ (known /\ running.major = installer.target.major)

\* The archive may bring a data directory, and may not say which version it is.
Extract ==
    /\ InstallerAt("extract")
    /\ \/ \E brought \in {"none", "shipped"}, known \in BOOLEAN :
             /\ staged' = Tree(installer.target, brought)
             /\ installer' = [installer EXCEPT !.pc = "swapOut", !.keep = KeepsData(known)]
             /\ UNCHANGED mishaps
       \/ /\ CallFails /\ GivesUp                     \* a bad archive, or a full card
          /\ staged' = Torn(Tree(installer.target, "none"))
    /\ UNCHANGED <<layout, app, backup, preserved, running, statusVars, abandoned, dropped>>

\* os.replace(app_dir, backup_dir), outside the part that is rolled back.
SwapOut ==
    /\ InstallerAt("swapOut")
    /\ \/ backup' = app /\ app' = NoDir /\ Then("swapIn") /\ UNCHANGED mishaps
       \/ CallFails /\ GivesUp /\ UNCHANGED <<app, backup>>
    /\ UNCHANGED <<layout, staged, preserved, running, statusVars, abandoned, dropped>>

\* Nothing is rolled back where there was no app directory.
Rollback == IF backup = NoDir THEN "tidy" ELSE "rescue"

SwapIn ==
    /\ InstallerAt("swapIn")
    /\ \/ /\ app' = staged /\ staged' = NoDir /\ UNCHANGED mishaps
          /\ Then(IF installer.keep /\ backup # NoDir /\ backup.data # "none"
                  THEN "setAside" ELSE "tidy")
       \/ CallFails /\ Raise(Rollback) /\ UNCHANGED <<app, staged>>
    /\ UNCHANGED <<layout, backup, preserved, running, statusVars, abandoned, dropped>>

SetDataAside ==
    /\ InstallerAt("setAside")
    /\ \/ /\ preserved' = backup.data /\ backup' = [backup EXCEPT !.data = "none"]
          /\ Then("dropShipped") /\ UNCHANGED mishaps
       \/ CallFails /\ Raise("rescue") /\ UNCHANGED <<preserved, backup>>
    /\ UNCHANGED <<layout, app, staged, running, statusVars, abandoned, dropped>>

DropShipped ==
    /\ InstallerAt("dropShipped")
    /\ \/ app' = [app EXCEPT !.data = "none"] /\ Then("putData") /\ UNCHANGED mishaps
       \/ app.data # "none" /\ CallFails /\ Raise("rescue") /\ UNCHANGED app
    /\ UNCHANGED <<layout, backup, staged, preserved, running, statusVars, abandoned, dropped>>

PutData ==
    /\ InstallerAt("putData")
    /\ \/ /\ app' = [app EXCEPT !.data = preserved] /\ preserved' = NoDir
          /\ Then("tidy") /\ UNCHANGED mishaps
       \/ CallFails /\ Raise("rescue") /\ UNCHANGED <<app, preserved>>
    /\ UNCHANGED <<layout, backup, staged, running, statusVars, abandoned, dropped>>

\* A mutation: the data that were set aside stay there.
NeverRescues ==
    /\ InstallerAt("rescue") /\ Then("discard")
    /\ UNCHANGED <<layout, app, backup, staged, preserved, running, statusVars, mishaps,
                   abandoned, dropped>>

\* The rollback first gives the data back to the old directory.
RescueData ==
    /\ InstallerAt("rescue")
    /\ \/ /\ preserved # NoDir /\ backup.data = "none"
          /\ backup' = [backup EXCEPT !.data = preserved] /\ preserved' = NoDir
          /\ Then("discard") /\ UNCHANGED mishaps
       \/ /\ preserved = NoDir \/ backup.data # "none"
          /\ Then("discard") /\ UNCHANGED <<backup, preserved, mishaps>>
       \/ /\ preserved # NoDir /\ CallFails /\ Raise("tidy")
          /\ UNCHANGED <<backup, preserved>>
    /\ UNCHANGED <<layout, app, staged, running, statusVars, abandoned, dropped>>

\* rmtree(app_dir, ignore_errors=True): what cannot be deleted stays, and nobody is told.
DiscardNew ==
    /\ InstallerAt("discard") /\ Then("putBack")
    /\ \/ app' = NoDir /\ UNCHANGED mishaps
       \/ app # NoDir /\ CallFails /\ app' = Torn(app)
    /\ UNCHANGED <<layout, backup, staged, preserved, running, statusVars, abandoned, dropped>>

\* os.replace(backup_dir, app_dir) fails over a directory that is not empty.
PutBack ==
    /\ InstallerAt("putBack")
    /\ \/ /\ app = NoDir /\ app' = backup /\ backup' = NoDir
          /\ Then("tidy") /\ UNCHANGED mishaps
       \/ app # NoDir /\ Then("tidy") /\ UNCHANGED <<app, backup, mishaps>>
       \/ app = NoDir /\ CallFails /\ Then("tidy") /\ UNCHANGED <<app, backup>>
    /\ UNCHANGED <<layout, staged, preserved, running, statusVars, abandoned, dropped>>

\* remove_tree_best_effort of the three directories. Then the saved answer of the check is
\* removed and the menu of the new version is started; or the error is shown.
Tidy ==
    /\ InstallerAt("tidy")
    /\ \/ /\ staged' = NoDir /\ backup' = NoDir /\ preserved' = NoDir /\ UNCHANGED mishaps
       \/ /\ CallFails
          /\ staged' = NoDir /\ preserved' = NoDir
          /\ backup' = IF backup = NoDir THEN NoDir ELSE Torn([backup EXCEPT !.data = "none"])
    /\ installer' = Standing
    /\ dropped' = (dropped \/ (~installer.raised /\ ~installer.keep))
    /\ IF installer.raised
       THEN UNCHANGED <<running, status, offer>>
       ELSE running' = app.ver /\ status' = NoVersion /\ offer' = NoVersion
    /\ UNCHANGED <<layout, app, published, abandoned>>

-----------------------------------------------------------------------------
(* The device and its user.                                                *)

SwitchedOff ==
    /\ running # NoVersion /\ running' = NoVersion /\ offer' = NoVersion
    /\ IF InstallerAt("idle") THEN UNCHANGED mishaps
       ELSE Spare /\ mishaps' = [mishaps EXCEPT !.crashed = @ + 1]
    /\ installer' = Standing
    /\ UNCHANGED <<layout, app, backup, staged, preserved, published, status, abandoned, dropped>>

Launch ==
    /\ running = NoVersion /\ app # NoDir /\ app.ver # NoVersion
    /\ running' = app.ver
    /\ UNCHANGED <<layout, installVars, statusVars, mishaps, abandoned, dropped>>

\* The user copies a release onto the card, over the directory that may be there.
HandInstall(v) ==
    /\ running = NoVersion
    /\ app' = Tree(v, IF app = NoDir THEN "none" ELSE app.data)
    /\ UNCHANGED <<layout, backup, staged, preserved, installer, running, statusVars, mishaps,
                   abandoned, dropped>>

UpdateNext ==
    \/ \E v \in Versions : Publish(v) \/ HandInstall(v)
    \/ \E force \in BOOLEAN : CheckRelease(force)
    \/ DayPasses \/ BeginInstall \/ Extract \/ SwapOut \/ SwapIn \/ SetDataAside
    \/ DropShipped \/ PutData \/ RescueData \/ DiscardNew \/ PutBack \/ Tidy
    \/ SwitchedOff \/ Launch

UpdateSpec == UpdateInit /\ [][UpdateNext]_updateVars

-----------------------------------------------------------------------------
(* Properties.                                                             *)

UpdateTypeOK ==
    /\ layout \in {"onion", "muos"}
    /\ app \in Trees \cup {NoDir} /\ backup \in Trees \cup {NoDir}
    /\ staged \in Trees \cup {NoDir} /\ preserved \in DataValues \cup {NoDir}
    /\ installer \in [pc : {"idle", "extract", "swapOut", "swapIn", "setAside",
                            "dropShipped", "putData", "rescue", "discard", "putBack", "tidy"},
                      target : Versions \cup {NoVersion}, keep : BOOLEAN, raised : BOOLEAN]
    /\ running \in Versions \cup {NoVersion} /\ published \in SUBSET Versions
    /\ status \in Statuses \cup {NoVersion}
    /\ offer \in Versions \cup {NoVersion}
    /\ mishaps \in [failed : Nat, crashed : Nat]
    /\ abandoned \in BOOLEAN /\ dropped \in BOOLEAN

HasData(tree) == tree # NoDir /\ tree.data = "mine"

\* Whatever single call fails, an install that was not cut short leaves one whole version
\* in place, and with it the user's data unless another major version reset them.
SwapOrRollback ==
    InstallerAt("idle") /\ mishaps.crashed = 0 /\ mishaps.failed <= 1 =>
        app # NoDir /\ app.ver # NoVersion /\ (HasData(app) \/ dropped)

\* One failed call or one crash, at whatever step, leaves the data in one of the
\* directories, until another install begins over them.
DataSomewhere ==
    mishaps.failed + mishaps.crashed <= 1 =>
        HasData(app) \/ HasData(backup) \/ preserved = "mine" \/ dropped \/ abandoned

\* What the menu offers is newer than what runs, however old the saved answer is and
\* whatever was installed since.
OfferIsNewer == running # NoVersion /\ offer # NoVersion => NewerThan(offer, running)

\* What an installation can count on, whatever goes wrong once.
UpdateSafe == SwapOrRollback /\ DataSomewhere /\ OfferIsNewer

\* What the code does not keep: "The app's data/ directory (config, database, queued
\* awards, secrets) is always preserved across the upgrade."
AlwaysPreserved ==
    layout = "muos" =>
        HasData(app) \/ HasData(backup) \/ preserved = "mine"
=============================================================================
