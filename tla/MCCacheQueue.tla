---------------------------- MODULE MCCacheQueue ----------------------------
(* Small instances of CacheQueue for TLC.                                  *)
EXTENDS CacheQueue

CONSTANTS k1, k2, k3,             \* ROMs
          G1, G2, G3,             \* games
          bulk, add, watch         \* runs

\* k1 and k2 are dumps of one game.
MCTwoDumps == [k \in Roms |-> IF k \in {k1, k2} THEN G1 ELSE G2]
MCDistinct == [k \in Roms |-> CASE k = k1 -> G1 [] k = k2 -> G2 [] OTHER -> G3]
\* RetroAchievements does not know k2.
MCOneUnknown == [k \in Roms |-> CASE k = k1 -> G1 [] k = k2 -> NoGame [] OTHER -> G2]

\* The run and the ROM cached by hand ask for different ROMs, or for the same.
MCApart == [c \in Runs |-> IF c = add THEN {k1} ELSE Roms \ {k1}]
MCShared == [c \in Runs |-> IF c = add THEN {k1} ELSE Roms]
\* A scan finds k2 alone, a run asks for everything.
MCWatched == [c \in Runs |-> IF c = watch THEN {k2} ELSE Roms]
=============================================================================
