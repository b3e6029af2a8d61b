------------------------------ MODULE MCComponents ----------------------------
(* The components that share no state, on small instances: the JSON store,   *)
(* the update on the handhelds and on Windows, the patched configurations,   *)
(* the images, the check at sign-in, the usage counters, the link to         *)
(* RetroAchievements, the unlock counts and Smart Cache, with the power      *)
(* cuts, killed processes, full disks and second writers that meet them. A   *)
(* behaviour is one component's, and the others stay as they start.          *)
EXTENDS JsonStore, AppUpdate, WindowsUpdate, ConfigPatch, ImageCache, SignInCheck,
        UsageReport, RaLink, UnlockCounts, SmartCache

VARIABLE part

CONSTANTS x, y    \* two awards

MCAwards == {x, y}
MCVersions == {[major |-> 1, minor |-> 0, nightly |-> -1],
               [major |-> 1, minor |-> 0, nightly |-> 3],
               [major |-> 1, minor |-> 0, nightly |-> 4],
               [major |-> 2, minor |-> 0, nightly |-> -1]}
MCFolders == {"folder", "copy"}
MCLetters == {4, 5}
MCBackground == {"queue"}
\* Two games of one achievement each, and one account.
MCGames == {1, 2}
MCIds == {11, 21}
MCGameOf(a) == a \div 10
MCWarning == 99
MCSpellings == {"ann"}
MCKey(s) == s
\* A compressed disc, a copy of it under another name, and, on another card, a channel of the
\* Wii in a folder and under a name like the disc's.
MCRomFiles == 1..3
MCRomName(f) == IF f = 3 THEN 1 ELSE f
MCRom(f) == IF f = 2 THEN 1 ELSE f
MCHeader(f) ==
  LET disc == [magic |-> "none", first |-> 1, inner |-> 0, signature |-> "none", title |-> 0,
               serial |-> 1]
  IN CASE f = 1 -> [disc EXCEPT !.magic = "RVZ", !.first = 9, !.inner = 1]
       [] f = 2 -> disc
       [] f = 3 -> [disc EXCEPT !.magic = "WAD", !.first = 0, !.signature = "RSA-2048",
                                !.title = 2, !.serial = 3]
MCSetups == {{"retroarch", "ppsspp"}, {"muos", "dolphin"}, {"pcsx2"}, {"duckstation"}}
MCClock(s) == IF "dolphin" \in s THEN 3 ELSE 2

ComponentsInit ==
    /\ part \in {"store", "update", "windows", "patch", "images", "check", "usage", "link",
                "counts", "recent"}
    /\ StoreInit /\ UpdateInit /\ WinInit /\ PatchInit /\ ImageInit /\ SignInCheckInit
    /\ UsageInit /\ LinkInit /\ CountInit /\ RecentInit
    /\ part # "update" => layout = "onion" /\ running = CHOOSE v \in Versions : TRUE
    /\ part # "patch" => device = "handheld" /\ autostart /\ cfg["retroarch"].host = ""
    /\ part # "check" => ~startScript /\ at[First] = <<CHOOSE v \in Volumes : TRUE, "games">>
                         /\ letter = [v \in Volumes |-> IF v = at[First][1] THEN 4 ELSE 5]
    /\ hasFcntl   \* without the lock CountsAddUp says nothing
    /\ part # "link" => reachable
    /\ part # "recent" => installed = {"muos", "dolphin"}

ComponentsNext ==
    /\ part' = part
    /\ \/ /\ part = "store" /\ StoreNext
          /\ UNCHANGED <<updateVars, winVars, patchVars, imageVars, checkVars,
                         usageVars, linkVars, countVars, recentVars>>
       \/ /\ part = "update" /\ UpdateNext
          /\ UNCHANGED <<storeVars, winVars, patchVars, imageVars, checkVars,
                         usageVars, linkVars, countVars, recentVars>>
       \/ /\ part = "windows" /\ WinNext
          /\ UNCHANGED <<storeVars, updateVars, patchVars, imageVars, checkVars,
                         usageVars, linkVars, countVars, recentVars>>
       \/ /\ part = "patch" /\ PatchNext
          /\ UNCHANGED <<storeVars, updateVars, winVars, imageVars, checkVars,
                         usageVars, linkVars, countVars, recentVars>>
       \/ /\ part = "images" /\ ImageNext
          /\ UNCHANGED <<storeVars, updateVars, winVars, patchVars, checkVars,
                         usageVars, linkVars, countVars, recentVars>>
       \/ /\ part = "check" /\ SignInCheckNext
          /\ UNCHANGED <<storeVars, updateVars, winVars, patchVars, imageVars,
                         usageVars, linkVars, countVars, recentVars>>
       \/ /\ part = "usage" /\ UsageNext
          /\ UNCHANGED <<storeVars, updateVars, winVars, patchVars, imageVars,
                         checkVars, linkVars, countVars, recentVars>>
       \/ /\ part = "link" /\ LinkNext
          /\ UNCHANGED <<storeVars, updateVars, winVars, patchVars, imageVars,
                         checkVars, usageVars, countVars, recentVars>>
       \/ /\ part = "counts" /\ CountNext
          /\ UNCHANGED <<storeVars, updateVars, winVars, patchVars, imageVars,
                         checkVars, usageVars, linkVars, recentVars>>
       \/ /\ part = "recent" /\ RecentNext
          /\ UNCHANGED <<storeVars, updateVars, winVars, patchVars, imageVars,
                         checkVars, usageVars, linkVars, countVars>>

componentVars == <<part, storeVars, updateVars, winVars, patchVars, imageVars, checkVars,
                   usageVars, linkVars, countVars, recentVars>>

ComponentsSpec == ComponentsInit /\ [][ComponentsNext]_componentVars
=============================================================================
