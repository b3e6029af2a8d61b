----------------------------- MODULE SmartCache -----------------------------
(***************************************************************************)
(* Smart Cache (smart_cache.py): which games were played lately, read from *)
(* what six emulators and launchers leave behind, and which of them are    *)
(* handed to the caching queue. RetroArch and PPSSPP keep lists of files;  *)
(* PCSX2 and DuckStation keep serials with times, and a list of games that *)
(* says which file a serial is; Dolphin leaves only its saves, whose codes *)
(* are looked up in the headers of the files in its folders.               *)
(*                                                                         *)
(* The records of the emulators are derived from `when', the time a file   *)
(* was last played with each, or, with Dolphin, last saved. The run itself *)
(* is CacheQueue's; here it is one step.                                   *)
(***************************************************************************)
EXTENDS Integers, Sequences, SequencesExt, FiniteSetsExt

CONSTANTS
  RomFiles,     \* the files, as numbers
  RomName(_),   \* normalize_cached_rom_path: a file's folder and name
  Rom(_),       \* its content, up to its hash
  Header(_),    \* what its first bytes say
  Setups,       \* the emulators on a device
  Recently,     \* DOLPHIN_RECENT_WINDOW_SECONDS
  Limit,        \* CACHE_BUDGET_LIMIT
  MaxClock(_),  \* bound: the time that passes on a device
  MaxGone       \* bound: the files that are gone at a time

Listing == {"pcsx2", "duckstation"}

\* The order of the files is that of their folders and names; muOS' RetroArch keeps a file per
\* game, and no list.
ASSUME RecentAssumption ==
  /\ IsFiniteSet(RomFiles) /\ RomFiles # {} /\ RomFiles = 1..Cardinality(RomFiles)
  /\ \A s \in Setups : /\ s \subseteq {"muos", "retroarch", "ppsspp", "dolphin"} \cup Listing
                       /\ ~({"muos", "retroarch"} \subseteq s) /\ MaxClock(s) \in Nat
  /\ Recently \in Nat /\ Limit \in Nat

Serials == {Header(f).serial : f \in RomFiles} \ {0}   \* 0: none was found
Codes == (UNION {{Header(f).first, Header(f).inner, Header(f).title} : f \in RomFiles}) \ {0}

VARIABLES
  installed,   \* the emulators of this device
  stray,       \* content_history.lpl of an earlier RetroArch, where one is looked for last
  there,       \* the files that exist
  when,        \* when[e][f]: when f was last played with e, 0 for never
  clock,
  gamelist,    \* gamelist.cache of PCSX2 and DuckStation
  cachedFrom,  \* the files that cached games came from
  waiting,     \* the files that rows of the queue came from
  left,        \* what is left of the budget window
  screen, todo,
  overrun      \* history: a run queued more than the menu had said, namesakes apart

recentVars == <<installed, stray, there, when, clock, gamelist, cachedFrom, waiting, left,
                screen, todo, overrun>>

RecentTypeOK ==
  /\ installed \in Setups /\ there \subseteq RomFiles
  /\ when \in [installed -> [RomFiles -> 0..MaxClock(installed)]] /\ clock \in 0..MaxClock(installed)
  /\ \A e \in Listing : gamelist[e].entries \in Seq(RomFiles)
  /\ cachedFrom \subseteq RomFiles /\ waiting \subseteq RomFiles /\ left \in 0..Limit
  /\ screen \in {"main", "prompt", "confirm"} /\ todo \in Seq(RomFiles)

-----------------------------------------------------------------------------
(* Lists of files: RetroArch, muOS, PPSSPP *)

\* The members of s at the places I, and those in S, in their order.
AtPlaces(s, I) ==
  LET kept[n \in 0..Len(s)] ==
        IF n = 0 THEN <<>>
        ELSE IF n \in I THEN Append(kept[n - 1], s[n]) ELSE kept[n - 1]
  IN kept[Len(s)]
Those(s, S) == AtPlaces(s, {i \in DOMAIN s : s[i] \in S})
Existing(s) == Those(s, there)

\* at[f] is when f was played.
NewestFirst(S, at) == CHOOSE s \in [1..Cardinality(S) -> S] :
  /\ IsInjective(s) /\ Range(s) = S
  /\ \A i, j \in DOMAIN s : i < j => at[s[i]] >= at[s[j]]
InOrder(S) == Reverse(NewestFirst(S, [f \in S |-> f]))

PlayedWith(e) == IF e \in installed THEN {f \in RomFiles : when[e][f] > 0} ELSE {}
ListOf(e) == NewestFirst(PlayedWith(e), when[e])

\* RetroArch's own list, which its configuration names, and then the usual places.
StrayFirst == IF stray # <<>> THEN stray ELSE ListOf("retroarch")
find_content_history_lpl ==
  IF PlayedWith("retroarch") # {} THEN ListOf("retroarch") ELSE stray
load_retroarch_history_paths == Existing(find_content_history_lpl)

\* A file per game, read in the order of their names.
load_muos_history_paths == Existing(InOrder(PlayedWith("muos")))

load_ppsspp_recent_paths == Existing(ListOf("ppsspp"))

-----------------------------------------------------------------------------
(* Serials with times: PCSX2 and DuckStation *)

LastOf(e, S) == Max({when[e][f] : f \in S} \cup {0})

parse_pcsx2_playtime(e) ==
  LET last == [c \in Serials |-> LastOf(e, {f \in RomFiles : Header(f).serial = c})]
  IN NewestFirst({c \in Serials : last[c] > 0}, last)

known_cache_version(list, signature, version) ==
  list.signature = signature /\ list.version = version

\* The whole entries of a list, up to where it was cut off; the first of a serial counts.
FilesBySerial(entries) ==
  LET of(c) == {i \in DOMAIN entries : Header(entries[i]).serial = c}
  IN [c \in {c \in Serials : of(c) # {}} |-> entries[Min(of(c))]]

parse_pcsx2_gamelist_cache(list) ==
  IF known_cache_version(list, "GLCE", 34) THEN FilesBySerial(list.entries) ELSE <<>>
parse_duckstation_gamelist_cache(list) ==
  IF known_cache_version(list, "HLCE", 41) THEN FilesBySerial(list.entries) ELSE <<>>

FilesFor(serials, file) ==
  LET listed == Those(serials, {c \in DOMAIN file : file[c] \in there})
  IN [i \in DOMAIN listed |-> file[listed[i]]]

load_pcsx2_recent_paths ==
  IF "pcsx2" \notin installed THEN <<>>
  ELSE FilesFor(parse_pcsx2_playtime("pcsx2"), parse_pcsx2_gamelist_cache(gamelist["pcsx2"]))
load_duckstation_recent_paths ==
  IF "duckstation" \notin installed THEN <<>>
  ELSE FilesFor(parse_pcsx2_playtime("duckstation"),
               parse_duckstation_gamelist_cache(gamelist["duckstation"]))

-----------------------------------------------------------------------------
(* Saves with codes: Dolphin *)

\* A compressed disc holds the header of the disc behind its own.
read_dolphin_disc_code(f) ==
  IF Header(f).magic \in {"WIA", "RVZ"} THEN Header(f).inner ELSE Header(f).first
\* An installer's code is in its title metadata, of the one signature type that is read.
read_wad_game_code(f) == IF Header(f).signature = "RSA-2048" THEN Header(f).title ELSE 0

IsWad(f) == Header(f).magic = "WAD"
DolphinCode(f) == IF IsWad(f) THEN read_wad_game_code(f) ELSE read_dolphin_disc_code(f)

\* The first file of a code counts, in the order of the folders.
LibraryOf(S) ==
  LET of(c) == {f \in S \cap there : DolphinCode(f) = c}
  IN [c \in {c \in Codes : of(c) # {}} |-> Min(of(c))]
scan_dolphin_disc_library == LibraryOf({f \in RomFiles : ~IsWad(f)})
scan_dolphin_wad_library == LibraryOf({f \in RomFiles : IsWad(f)})

\* When a game's save on a memory card and when its folder in the Wii's memory last changed.
SavedBy(S) == [c \in Codes |-> LastOf("dolphin", {f \in S : DolphinCode(f) = c})]
scan_dolphin_gci_codes == SavedBy({f \in RomFiles : ~IsWad(f)})
scan_dolphin_wii_title_codes == SavedBy({f \in RomFiles : IsWad(f)})
merge_recent_codes(a, b) == [c \in Codes |-> Max({a[c], b[c]})]

load_dolphin_recent_paths ==
  IF "dolphin" \notin installed THEN <<>>
  ELSE LET saved == merge_recent_codes(scan_dolphin_gci_codes, scan_dolphin_wii_title_codes)
           recent == {c \in Codes : saved[c] > 0 /\ saved[c] >= clock - Recently}
           disc == scan_dolphin_disc_library
           wad == scan_dolphin_wad_library
           library == [c \in DOMAIN disc \cup DOMAIN wad |->
                         IF c \in DOMAIN disc THEN disc[c] ELSE wad[c]]
       IN FilesFor(NewestFirst(recent, saved), library)

-----------------------------------------------------------------------------
(* The candidates *)

\* A path that one of them has listed before is passed over.
Firsts(s) == AtPlaces(s, {i \in DOMAIN s : \A j \in 1..(i - 1) : s[j] # s[i]})
load_content_history_paths ==
  Firsts((IF "muos" \in installed THEN load_muos_history_paths
          ELSE load_retroarch_history_paths)
         \o load_ppsspp_recent_paths \o load_dolphin_recent_paths
         \o load_pcsx2_recent_paths \o load_duckstation_recent_paths)

NamesOf(S) == {RomName(f) : f \in S}
smart_cache_paths ==
  Those(load_content_history_paths, {f \in RomFiles : RomName(f) \notin NamesOf(cachedFrom)})

\* The sources that make the menu offer Smart Cache.
find_history_source ==
  \/ "muos" \in installed
  \/ find_content_history_lpl # <<>>
  \/ installed \cap {"ppsspp", "dolphin"} # {}

should_offer_smart_cache(online) == online /\ find_history_source /\ smart_cache_paths # <<>>

\* How many ROMs are cached at once and how long the queue is afterwards, at most.
estimate_queue(candidates, known, remaining, queued) ==
  LET fresh == Max({0, candidates - known})
      now == Min({fresh, remaining})
  IN [now |-> now, later |-> fresh - now, queue |-> queued + fresh - now]

known_rom_names == NamesOf(cachedFrom \cup waiting)
estimate_queue_for_paths(paths) ==
  estimate_queue(Len(paths),
                 Cardinality({i \in DOMAIN paths : RomName(paths[i]) \in known_rom_names}),
                 left, Cardinality(waiting))
needs_confirmation(estimate) == estimate.later > 0 /\ estimate.queue > Limit

-----------------------------------------------------------------------------
(* The emulators and the files *)

RecentInit ==
  /\ installed \in Setups /\ there = RomFiles
  /\ stray \in {<<>>, <<Max(RomFiles)>>}
  /\ stray # <<>> => "retroarch" \in installed
  /\ when = [e \in installed |-> [f \in RomFiles |-> 0]] /\ clock = 0
  /\ \E current \in BOOLEAN : gamelist = [e \in Listing |->
       [signature |-> IF e = "pcsx2" THEN "GLCE" ELSE "HLCE",
        version |-> IF ~current THEN 0 ELSE IF e = "pcsx2" THEN 34 ELSE 41,
        entries |-> <<>>]]
  /\ installed \cap Listing = {} => gamelist["pcsx2"].version # 0
  /\ cachedFrom = {} /\ waiting = {} /\ left = Limit
  /\ screen = "main" /\ todo = <<>> /\ overrun = FALSE

onDevice == <<installed, stray>>
games == <<cachedFrom, waiting, left>>
menuSide == <<screen, todo, overrun>>

Play(e, f) ==
  /\ f \in there /\ clock < MaxClock(installed)
  /\ clock' = clock + 1 /\ when' = [when EXCEPT ![e][f] = clock + 1]
  /\ UNCHANGED <<onDevice, there, gamelist, games, menuSide>>

TimePasses ==
  /\ clock < MaxClock(installed) /\ clock' = clock + 1
  /\ UNCHANGED <<onDevice, there, when, gamelist, games, menuSide>>

FileGoes(f) ==
  /\ there' = there \ {f} /\ there' # there /\ Cardinality(RomFiles \ there') <= MaxGone
  /\ UNCHANGED <<onDevice, when, clock, gamelist, games, menuSide>>

FileComes(f) ==
  /\ there' = there \cup {f} /\ there' # there
  /\ UNCHANGED <<onDevice, when, clock, gamelist, games, menuSide>>

\* New files are put behind the ones the list has, or the list is written anew.
ListGames(e) ==
  LET listed == gamelist[e].entries
      new == InOrder(there \ Range(listed))
  IN /\ \/ gamelist' = [gamelist EXCEPT ![e].entries = listed \o new]
        \/ gamelist' = [gamelist EXCEPT ![e].entries = InOrder(there)]
     /\ UNCHANGED <<onDevice, there, when, clock, games, menuSide>>

\* The emulator ends while it writes its list.
CutShort(e) ==
  /\ gamelist[e].entries # <<>>
  /\ gamelist' = [gamelist EXCEPT ![e].entries = Front(@)]
  /\ UNCHANGED <<onDevice, there, when, clock, games, menuSide>>

-----------------------------------------------------------------------------
(* The menu and the service *)

\* maybe_offer_smart_cache: only a library without games is asked.
OpenMenu == \E online \in BOOLEAN :
  /\ screen = "main" /\ cachedFrom = {} /\ should_offer_smart_cache(online)
  /\ screen' = "prompt"
  /\ UNCHANGED <<onDevice, there, when, clock, gamelist, games, todo, overrun>>

DismissPrompt ==
  /\ screen = "prompt" /\ screen' = "main"
  /\ UNCHANGED <<onDevice, there, when, clock, gamelist, games, todo, overrun>>

\* The first ROMs are cached in the budget that is left, if they are few enough to watch.
Run(paths, now) ==
  LET new == {f \in Range(paths) \cap there : \A g \in cachedFrom \cup waiting : Rom(g) # Rom(f)}
      one == {f \in new : \A g \in new : Rom(g) = Rom(f) => f <= g}
      namesakes == {f \in one : RomName(f) \in known_rom_names}
      said == estimate_queue_for_paths(paths)
  IN \E done \in kSubset(IF now THEN Min({Cardinality(one), left}) ELSE 0, one) :
       /\ cachedFrom' = cachedFrom \cup done /\ waiting' = waiting \cup (one \ done)
       /\ left' = left - Cardinality(done)
       /\ overrun' = (overrun \/ Cardinality(waiting') >
                         said.queue + (IF now THEN 0 ELSE said.now) + Cardinality(namesakes))

StartSmartCache ==
  LET paths == smart_cache_paths
  IN /\ screen \in {"main", "prompt"}
     /\ IF needs_confirmation(estimate_queue_for_paths(paths))
        THEN screen' = "confirm" /\ todo' = paths /\ UNCHANGED <<games, overrun>>
        ELSE screen' = "main" /\ todo' = <<>> /\ Run(paths, TRUE)
     /\ UNCHANGED <<onDevice, there, when, clock, gamelist>>

ConfirmRun ==
  /\ screen = "confirm" /\ screen' = "main" /\ todo' = <<>> /\ Run(todo, FALSE)
  /\ UNCHANGED <<onDevice, there, when, clock, gamelist>>

CancelRun ==
  /\ screen = "confirm" /\ screen' = "main" /\ todo' = <<>>
  /\ UNCHANGED <<onDevice, there, when, clock, gamelist, games, overrun>>

\* The service's worker.
CacheOne == \E f \in waiting :
  /\ left > 0 /\ left' = left - 1
  /\ cachedFrom' = cachedFrom \cup {f} /\ waiting' = waiting \ {f}
  /\ UNCHANGED <<onDevice, there, when, clock, gamelist, menuSide>>

NewWindow ==
  /\ left < Limit /\ left' = Limit
  /\ UNCHANGED <<onDevice, there, when, clock, gamelist, cachedFrom, waiting, menuSide>>

DropGame == \E f \in cachedFrom :
  /\ cachedFrom' = cachedFrom \ {f}
  /\ UNCHANGED <<onDevice, there, when, clock, gamelist, waiting, left, menuSide>>

\* The rows of the queue and the budget are cache rows, and go with the games.
clear_cached_games ==
  /\ cachedFrom \cup waiting # {} \/ left < Limit
  /\ cachedFrom' = {} /\ waiting' = {} /\ left' = Limit
  /\ UNCHANGED <<onDevice, there, when, clock, gamelist, menuSide>>

RecentNext ==
  \/ \E e \in installed, f \in RomFiles : Play(e, f)
  \/ TimePasses
  \/ \E f \in RomFiles : FileGoes(f) \/ FileComes(f)
  \/ \E e \in installed \cap Listing : ListGames(e) \/ CutShort(e)
  \/ OpenMenu \/ DismissPrompt \/ StartSmartCache \/ ConfirmRun \/ CancelRun
  \/ CacheOne \/ NewWindow \/ DropGame \/ clear_cached_games

RecentSpec == RecentInit /\ [][RecentNext]_recentVars

-----------------------------------------------------------------------------
(* What Smart Cache promises *)

\* Where an emulator leaves enough to tell the file: a code is no use when it is another
\* file's too, when the emulator has not listed the file, or when its list is of a version
\* that is not read.
Findable(e, f) ==
  CASE e = "dolphin" -> /\ when[e][f] >= clock - Recently /\ DolphinCode(f) # 0
                        /\ \A g \in there \ {f} : DolphinCode(g) # DolphinCode(f)
    [] e \in Listing -> /\ Header(f).serial # 0 /\ gamelist[e].version # 0
                        /\ f \in Range(gamelist[e].entries)
                        /\ \A g \in Range(gamelist[e].entries) \ {f} :
                             Header(g).serial # Header(f).serial
    [] OTHER -> TRUE

SortedBy(s, at(_)) == \A i, j \in DOMAIN s : i < j => at(s[i]) >= at(s[j])

\* Whatever was played and deleted, moved back, listed, cached or forgotten meanwhile: a game
\* that was played, whose file is there and can be told, and that is not cached, is among the
\* candidates, once, and each emulator's latest comes first. A run queues no more than the menu
\* said it would (estimate_queue: "the real queue can only turn out smaller"), but for new files
\* that the menu took for known ones of the same folder and name.
RecentFound ==
  /\ clock > 0 => LET found == smart_cache_paths IN
       /\ IsInjective(found)
       /\ \A e \in installed : \A f \in there :
            when[e][f] > 0 /\ RomName(f) \notin NamesOf(cachedFrom) /\ Findable(e, f)
              => f \in Range(found)
       /\ SortedBy(load_ppsspp_recent_paths, LAMBDA f : when["ppsspp"][f])
       /\ SortedBy(load_dolphin_recent_paths, LAMBDA f :
            LastOf("dolphin", {g \in RomFiles : DolphinCode(g) = DolphinCode(f)}))
       /\ SortedBy(load_pcsx2_recent_paths, LAMBDA f :
            LastOf("pcsx2", {g \in RomFiles : Header(g).serial = Header(f).serial}))
  /\ ~overrun

\* What the code does not keep: that a game played with any of the emulators makes the menu
\* offer Smart Cache. Games of PCSX2 and DuckStation alone do not.
OfferedWhenFound ==
  smart_cache_paths # <<>> => should_offer_smart_cache(TRUE)

\* What the code does not keep: that a listed game that was moved is found at its new place.
MovedIsFound ==
  \A e \in installed \cap Listing : \A f \in there \cap Range(gamelist[e].entries) :
    (/\ when[e][f] > 0 /\ gamelist[e].version # 0 /\ cachedFrom = {}
     /\ Header(f).serial \notin {0} \cup {Header(g).serial : g \in there \ {f}})
      => f \in Range(smart_cache_paths)
=============================================================================
