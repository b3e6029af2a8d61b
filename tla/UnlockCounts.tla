---------------------------- MODULE UnlockCounts ----------------------------
(***************************************************************************)
(* What the menu and the command line say is unlocked in a cached game      *)
(* (rom_browser.py 1012-1301, pending_awards.py 38-153): the page of a game *)
(* merges the cached unlocks of one account with its waiting awards, the    *)
(* list of all games computes the same for every game in one pass over the  *)
(* rows, and the list of waiting awards looks its games up on its own.      *)
(***************************************************************************)
EXTENDS Naturals, Sequences

CONSTANTS
  Library,     \* the games of the library
  Ids,         \* their achievements
  GameOf(_),   \* the game an achievement belongs to
  FakeId,     \* the achievement the server makes up for an unknown emulator
  Spellings,   \* the names accounts send with their awards
  Key(_)       \* normalize_user: a name as the cache keys hold it

\* 0 stands for the lack of an answer; the server's warning is no achievement.
ASSUME CountAssumption == FakeId \notin Ids /\ 0 \notin Ids \cup {FakeId}

Accounts == {Key(s) : s \in Spellings}
AnswersFor(g) == SUBSET ({a \in Ids : GameOf(a) = g} \cup {FakeId})

VARIABLES
  unlockRows,   \* the unlocks rows, in the order they were first stored
  sessionRows,  \* the startsession rows
  known,        \* the games with a patch or an achievementsets row
  awards        \* the awards that wait in the queue

countVars == <<unlockRows, sessionRows, known, awards>>

Rows(content) == [game : Library, user : Accounts, ids : content]
AwardRows == [id : Ids, user : Spellings, hardcore : BOOLEAN]

CountTypeOK ==
  /\ \A i \in DOMAIN unlockRows  : unlockRows[i]  \in Rows(SUBSET (Ids \cup {FakeId}))
  /\ \A i \in DOMAIN sessionRows : sessionRows[i] \in Rows(SUBSET (Ids \cup {FakeId}))
  /\ known \subseteq Library
  /\ awards \subseteq AwardRows

CountInit == unlockRows = <<>> /\ sessionRows = <<>> /\ known = {} /\ awards = {}

-----------------------------------------------------------------------------
(* The rows                                                                *)

(* A row that is stored again keeps its place.                              *)
WithRow(rows, row) ==
  LET same == {i \in DOMAIN rows : rows[i].game = row.game /\ rows[i].user = row.user}
  IN IF same = {} THEN Append(rows, row)
     ELSE [i \in DOMAIN rows |-> IF i \in same THEN row ELSE rows[i]]

CacheUnlocks == \E g \in Library : \E ids \in AnswersFor(g), u \in Accounts :
  /\ unlockRows' = WithRow(unlockRows, [game |-> g, user |-> u, ids |-> ids])
  /\ UNCHANGED <<sessionRows, known, awards>>

CacheSession == \E g \in Library : \E ids \in AnswersFor(g), u \in Accounts :
  /\ sessionRows' = WithRow(sessionRows, [game |-> g, user |-> u, ids |-> ids])
  /\ UNCHANGED <<unlockRows, known, awards>>

LearnGame == \E g \in Library \ known :
  known' = known \cup {g} /\ UNCHANGED <<unlockRows, sessionRows, awards>>

(* The rows that stay keep their order.                                     *)
WithoutGame(rows, g) ==
  LET kept[n \in 0..Len(rows)] ==
        IF n = 0 THEN <<>>
        ELSE IF rows[n].game = g THEN kept[n - 1] ELSE Append(kept[n - 1], rows[n])
  IN kept[Len(rows)]

(* remove_cached_game                                                       *)
ForgetGame == \E g \in known :
  /\ known' = known \ {g}
  /\ unlockRows' = WithoutGame(unlockRows, g)
  /\ sessionRows' = WithoutGame(sessionRows, g)
  /\ UNCHANGED awards

QueueAward == \E id \in Ids, s \in Spellings, hardcore \in BOOLEAN :
  /\ \A a \in awards : a.id # id
  /\ awards' = awards \cup {[id |-> id, user |-> s, hardcore |-> hardcore]}
  /\ UNCHANGED <<unlockRows, sessionRows, known>>

(* Sent, deleted by the user, or found stale: it is listed nowhere any more. *)
SettleAward == \E a \in awards :
  awards' = awards \ {a} /\ UNCHANGED <<unlockRows, sessionRows, known>>

CountNext ==
  CacheUnlocks \/ CacheSession \/ LearnGame \/ ForgetGame \/ QueueAward \/ SettleAward

CountSpec == CountInit /\ [][CountNext]_countVars

-----------------------------------------------------------------------------
(* The answers                                                             *)

NoAnswer == {0}   \* no row of the game: None, not a count

OfGame(rows, g) == {i \in DOMAIN rows : rows[i].game = g}
FirstRow(rows, g) == rows[CHOOSE i \in OfGame(rows, g) : \A j \in OfGame(rows, g) : i <= j]
LastRow(rows, g) == rows[CHOOSE i \in OfGame(rows, g) : \A j \in OfGame(rows, g) : j <= i]

(* find_achievement_game_ids: the game of an award, if a row that names it   *)
(* is cached.                                                                *)
Found(id) == GameOf(id) \in known

(* is_pending_softcore_unlock of the account of a row.                       *)
Waiting(user) == {a \in awards : ~a.hardcore /\ a.user = user}

(* merge_start_session_unlock_ids                                           *)
WithAwards(row, g) ==
  row.ids \cup {a.id : a \in {b \in Waiting(row.user) : Found(b.id) /\ GameOf(b.id) = g}}

(* merged_unlock_ids: the first unlocks row of the game, else its first      *)
(* startsession row.                                                        *)
Detail(g) ==
  IF OfGame(unlockRows, g) # {} THEN WithAwards(FirstRow(unlockRows, g), g) \ {FakeId}
  ELSE IF OfGame(sessionRows, g) # {} THEN WithAwards(FirstRow(sessionRows, g), g) \ {FakeId}
  ELSE NoAnswer

(* cached_achievements_by_id: what the cached rows describe of a game.       *)
Described(g) == IF g \in known THEN {a \in Ids : GameOf(a) = g} ELSE {}

(* cached_unlock_titles: the unlocks of the page that have a description.    *)
Titles(g) == Detail(g) \cap Described(g)

(* A pass over the startsession rows that overwrites what the unlocks said.  *)
SessionsFirst(g) == OfGame(sessionRows, g) # {}

(* Only a game without an unlocks row is counted from its session.           *)
FromSession(g) == OfGame(unlockRows, g) = {} /\ OfGame(sessionRows, g) # {}

(* cached_unlock_counts: the last unlocks row wins, the first startsession    *)
(* row; the warning is counted with the others.                              *)
Listed(g) ==
  IF FromSession(g) THEN WithAwards(FirstRow(sessionRows, g), g)
  ELSE IF OfGame(unlockRows, g) # {} THEN WithAwards(LastRow(unlockRows, g), g)
  ELSE NoAnswer

(* build_patch_index, which looks an award up on its own.                    *)
Indexed(id) == GameOf(id) \in known

(* list_pending_awards: every award that waits, under the game it is found   *)
(* in, whoever earned it.                                                    *)
PendingIn(g) == {a \in awards : Indexed(a.id) /\ GameOf(a.id) = g}

-----------------------------------------------------------------------------
(* The three computations agree as far as they are about the same account:   *)
(* the list of games counts what the page of a game shows, but for the        *)
(* server's warning, every softcore award that is listed as waiting in a      *)
(* game with an answer is counted in it, and the page names what it counts.   *)
CountsAgree ==
  (\A u, v \in Accounts : u = v) => \A g \in Library :
    /\ (Listed(g) = NoAnswer) = (Detail(g) = NoAnswer)
    /\ Listed(g) # NoAnswer =>
         /\ Listed(g) \ {FakeId} = Detail(g)
         /\ {a.id : a \in {b \in PendingIn(g) : ~b.hardcore /\ b.user = Key(b.user)}} \subseteq Detail(g)
         /\ g \in known => Titles(g) = Detail(g)
=============================================================================
