------------------------ MODULE WatchedFoldersProofs ------------------------
(***************************************************************************)
(* Proofs about a watched folder: the types, and that no file is marked     *)
(* while its ROM neither waits in the queue nor left it for a reason.       *)
(***************************************************************************)
EXTENDS WatchedFolders, TLAPS

-----------------------------------------------------------------------------
(* What the mark of a file rests on.                                        *)

(* A row of the queue has the path of a file with its ROM.                  *)
RowsArePaths == \A r \in Contents :
  Queued(r) => \E f \in Files : Content(f) = r /\ romQueue[r] = Name(f)

(* A path that cached games remember is that of a file whose ROM was drained. *)
CachedLeft ==
  /\ noMatch \subseteq settled
  /\ \A p \in cachedFrom : \E f \in Files : Name(f) = p /\ Content(f) \in settled

(* A scan starts with nothing dealt with.                                    *)
ScanFresh == scan.step = "marks" =>
  scan.handled = {} /\ scan.waiting = {} /\ scan.mine = {}

(* The files a scan fills from carry no mark, and none is dealt with while   *)
(* it waits. What was dealt with has its answer, or was misread.             *)
FillSorts == scan.step = "fill" =>
  /\ scan.new \cap marks = {}
  /\ scan.handled \subseteq scan.new /\ scan.waiting \subseteq scan.new
  /\ \A f \in scan.handled \ misread : Content(f) \in settled

(* A file that waits for the scan to end has its row.                        *)
WaitingQueued == scan.step = "fill" =>
  \A f \in scan.waiting : f \notin misread /\ (Queued(Content(f)) \/ Content(f) \in settled)

(* What the queue or its answer accounts for.                                *)
Accounted(f) == Queued(Content(f)) \/ Content(f) \in settled \/ Namesakes(f) # {}

(* A row the scan has added is not what a mark rests on: the scan may still   *)
(* take it back.                                                             *)
MineUnmarked == scan.step = "fill" =>
  \A f \in marks \ misread : Content(f) \in scan.mine =>
    Content(f) \in settled \/ Namesakes(f) # {}

(* What is about to be marked is accounted for.                              *)
HandledAccounted == scan.step = "mark" => \A f \in scan.handled \ misread : Accounted(f)

FolderInv ==
  /\ FolderTypeOK /\ RowsArePaths /\ CachedLeft /\ ScanFresh /\ FillSorts /\ WaitingQueued
  /\ MineUnmarked /\ HandledAccounted /\ NothingSlips

-----------------------------------------------------------------------------
(* Types.                                                                   *)

ScanRecords ==
  [step : Steps, listed : SUBSET Files, gone : SUBSET Files, new : SUBSET Files,
   waiting : SUBSET Files, mine : SUBSET Contents, handled : SUBSET Files, complete : BOOLEAN]

(* A ROM and a name belong to every file.                                   *)
LEMMA FilesHave == \A f \in Files : Content(f) \in Contents /\ Name(f) \in Paths
BY DEF Contents, Paths

(* Every step keeps the types.                                              *)
LEMMA FolderTypesKept ==
  ASSUME FolderTypeOK, [FolderNext]_folderVars
  PROVE  FolderTypeOK'
<1> USE DEF FolderTypeOK
<1>0. scan \in ScanRecords
  BY DEF ScanRecords
<1>i. Interval \in Nat /\ MaxStops \in Nat /\ since \in 0..Interval /\ stops \in 0..MaxStops
  BY FolderAssumption
<1>1. ASSUME ScanBegins PROVE FolderTypeOK'
  <2>1. Listing \subseteq Files
    BY DEF Listing
  <2>2. scan' \in ScanRecords
    BY <1>1, <2>1 DEF ScanBegins, NoScan, ScanRecords, Steps
  <2> QED BY <1>1, <2>2 DEF ScanBegins, Other, outcomes, ScanRecords
<1>2. ASSUME ScanMarks PROVE FolderTypeOK'
  <2>1. scan' \in ScanRecords /\ marks' \subseteq Files
    BY <1>0, <1>2 DEF ScanMarks, ScanRecords, Steps
  <2> QED BY <1>2, <2>1 DEF ScanMarks, Other, outcomes, ScanRecords
<1>3. ASSUME NEW f \in Files, ScanFill(f) PROVE FolderTypeOK'
  <2>1. scan' \in ScanRecords
    <3>1. CASE scan' = [scan EXCEPT !.handled = Dealt(f)]
      BY <1>0, <3>1 DEF ScanRecords, Dealt
    <3>2. CASE scan' = [scan EXCEPT !.waiting = @ \cup {f},
                          !.mine = IF Queued(Content(f)) THEN @ ELSE @ \cup {Content(f)}]
      BY <1>0, <3>2, FilesHave DEF ScanRecords
    <3> QED BY <1>3, <3>1, <3>2 DEF ScanFill
  <2>2. romQueue' \in [Contents -> Paths \cup {NoPath}]
    BY <1>3, FilesHave DEF ScanFill
  <2>3. misread' \subseteq Files
    BY <1>3 DEF ScanFill
  <2> QED BY <1>3, <2>1, <2>2, <2>3 DEF ScanFill, Other, ScanRecords
<1>4. ASSUME ScanStop PROVE FolderTypeOK'
  <2>1. scan' \in ScanRecords
    BY <1>0, <1>4 DEF ScanStop, ScanRecords, Steps, StillQueued
  <2>2. romQueue' \in [Contents -> Paths \cup {NoPath}]
    BY <1>4 DEF ScanStop
  <2>3. stops' \in 0..MaxStops
    <3>1. stops < MaxStops /\ stops' = stops + 1
      BY <1>4 DEF ScanStop
    <3> HIDE DEF FolderTypeOK
    <3> QED BY <1>i, <3>1
  <2> QED BY <1>4, <2>1, <2>2, <2>3 DEF ScanStop, outcomes, ScanRecords
<1>5. ASSUME ScanFilled PROVE FolderTypeOK'
  <2>1. scan' \in ScanRecords
    BY <1>0, <1>5 DEF ScanFilled, ScanRecords, Steps
  <2> QED BY <1>5, <2>1 DEF ScanFilled, Other, outcomes, ScanRecords
<1>6. ASSUME ScanMark PROVE FolderTypeOK'
  <2>1. scan' \in ScanRecords /\ marks' \subseteq Files
    BY <1>0, <1>6 DEF ScanMark, NoScan, ScanRecords, Steps
  <2> QED BY <1>6, <2>1 DEF ScanMark, Other, outcomes, ScanRecords
<1>7. ASSUME ScanForget PROVE FolderTypeOK'
  <2>1. scan' \in ScanRecords
    BY <1>0, <1>7 DEF ScanForget, ScanRecords, Steps
  <2> QED BY <1>7, <2>1 DEF ScanForget, Other, outcomes, ScanRecords
<1>8. ASSUME ScanRecord PROVE FolderTypeOK'
  <2>1. scan' \in ScanRecords
    BY <1>8 DEF ScanRecord, NoScan, ScanRecords, Steps
  <2>2. since' \in 0..Interval
    <3>1. since' \in {0, since}
      BY <1>8 DEF ScanRecord
    <3> HIDE DEF FolderTypeOK
    <3> QED BY <1>i, <3>1
  <2> QED BY <1>8, <2>1, <2>2 DEF ScanRecord, Other, outcomes, ScanRecords
<1>9. ASSUME NEW r \in Contents, Drained(r) PROVE FolderTypeOK'
  <2>1. romQueue' \in [Contents -> Paths \cup {NoPath}] /\ romQueue[r] \in Paths
    BY <1>9 DEF Drained, Queued
  <2>2. cachedFrom' \subseteq Paths /\ noMatch' \subseteq Contents
    BY <1>9, <2>1 DEF Drained
  <2> QED BY <1>9, <2>1, <2>2 DEF Drained, Theirs
<1>10. ASSUME NEW f \in Files, ManualQueue(f) PROVE FolderTypeOK'
  <2>1. romQueue' \in [Contents -> Paths \cup {NoPath}] /\ manual' \subseteq Contents
    BY <1>10, FilesHave DEF ManualQueue
  <2> QED BY <1>10, <2>1 DEF ManualQueue, Theirs
<1>11. ASSUME ManualEnds PROVE FolderTypeOK'
  BY <1>11 DEF ManualEnds, Theirs
<1>12. ASSUME ManualAborts PROVE FolderTypeOK'
  <2>1. romQueue' \in [Contents -> Paths \cup {NoPath}]
    BY <1>12 DEF ManualAborts
  <2> QED BY <1>12, <2>1 DEF ManualAborts, Theirs
<1>13. ASSUME ForgetMarks \/ ForgetScan \/ Unwatch \/ Watch \/ Minute PROVE FolderTypeOK'
  <2>1. since' \in 0..Interval
    <3>1. since' \in {since, Interval} \/ (since < Interval /\ since' = since + 1)
      BY <1>13 DEF ForgetMarks, ForgetScan, Unwatch, Watch, Minute
    <3> HIDE DEF FolderTypeOK
    <3> QED BY <1>i, <3>1
  <2> QED BY <1>13, <2>1 DEF ForgetMarks, ForgetScan, Unwatch, Watch, Minute, Theirs
<1>14. ASSUME NEW f \in Files, FileComes(f) \/ FileGoes(f) \/ Copied(f) PROVE FolderTypeOK'
  BY <1>14 DEF FileComes, FileGoes, Copied
<1>15. ASSUME UNCHANGED folderVars PROVE FolderTypeOK'
  BY <1>15 DEF folderVars
<1> QED
  BY <1>1, <1>2, <1>3, <1>4, <1>5, <1>6, <1>7, <1>8, <1>9, <1>10, <1>11, <1>12, <1>13, <1>14,
     <1>15 DEF FolderNext, Scanning

-----------------------------------------------------------------------------
(* Every mark is accounted for.                                             *)

(* The rows of the queue: one is added with the path of a file, or some go.  *)
LEMMA QueueMoves ==
  ASSUME FolderTypeOK, [FolderNext]_folderVars
  PROVE  \/ \E f \in Files : romQueue' = [romQueue EXCEPT ![Content(f)] = Name(f)]
         \/ \A r \in Contents : romQueue'[r] \in {romQueue[r], NoPath}
<1>1. ASSUME NEW f \in Files, ScanFill(f) \/ ManualQueue(f)
      PROVE  romQueue' \in {romQueue, [romQueue EXCEPT ![Content(f)] = Name(f)]}
  BY <1>1 DEF ScanFill, ManualQueue
<1>2. ASSUME ScanStop \/ ManualAborts \/ \E r \in Contents : Drained(r)
      PROVE  \A r \in Contents : romQueue'[r] \in {romQueue[r], NoPath}
  BY <1>2 DEF ScanStop, ManualAborts, Drained, FolderTypeOK
<1>3. ASSUME \/ ScanBegins \/ ScanMarks \/ ScanFilled \/ ScanMark \/ ScanForget \/ ScanRecord
             \/ ManualEnds \/ ForgetMarks \/ ForgetScan \/ Unwatch \/ Watch \/ Minute
             \/ \E f \in Files : FileComes(f) \/ FileGoes(f) \/ Copied(f)
             \/ UNCHANGED folderVars
      PROVE  romQueue' = romQueue
  BY <1>3 DEF ScanBegins, ScanMarks, ScanFilled, ScanMark, ScanForget, ScanRecord, ManualEnds,
       ForgetMarks, ForgetScan, Unwatch, Watch, Minute, FileComes, FileGoes, Copied, folderVars
<1> QED BY <1>1, <1>2, <1>3 DEF FolderNext, Scanning

(* What the others do to what the scan works on: rows leave the queue only    *)
(* for a reason.                                                             *)
BesideScan ==
  /\ scan' = scan /\ misread' = misread /\ marks' \subseteq marks /\ settled \subseteq settled'
  /\ \A r \in Contents : Queued(r) => Queued(r)' \/ r \in settled'

LEMMA OthersMove ==
  ASSUME FolderTypeOK, [FolderNext]_folderVars
  PROVE  BesideScan \/ ScanBegins \/ Scanning \/ ScanStop
<1> USE DEF BesideScan
<1>1. ASSUME NEW r \in Contents, Drained(r) PROVE BesideScan
  BY <1>1 DEF Drained, Theirs, Queued, FolderTypeOK
<1>2. ASSUME NEW f \in Files, ManualQueue(f) PROVE BesideScan
  BY <1>2, FilesHave, FolderAssumption DEF ManualQueue, Theirs, Queued, FolderTypeOK
<1>3. ASSUME ManualAborts PROVE BesideScan
  BY <1>3 DEF ManualAborts, Theirs, Queued, FolderTypeOK
<1>4. ASSUME \/ ManualEnds \/ ForgetMarks \/ ForgetScan \/ Unwatch \/ Watch \/ Minute
             \/ \E f \in Files : FileComes(f) \/ FileGoes(f) \/ Copied(f)
             \/ UNCHANGED folderVars
      PROVE  BesideScan
  BY <1>4 DEF ManualEnds, ForgetMarks, ForgetScan, Unwatch, Watch, Minute, FileComes, FileGoes,
       Copied, folderVars, Theirs, Queued
<1> QED BY <1>1, <1>2, <1>3, <1>4 DEF FolderNext

(* A row keeps the path of a file with its ROM.                              *)
LEMMA RowsKept ==
  ASSUME FolderTypeOK, RowsArePaths, [FolderNext]_folderVars
  PROVE  RowsArePaths'
<1> SUFFICES ASSUME NEW r \in Contents, romQueue'[r] # NoPath
             PROVE  \E f \in Files : Content(f) = r /\ romQueue'[r] = Name(f)
  BY DEF RowsArePaths, Queued
<1>1. CASE \E f \in Files : romQueue' = [romQueue EXCEPT ![Content(f)] = Name(f)]
  <2>1. PICK f \in Files : romQueue' = [romQueue EXCEPT ![Content(f)] = Name(f)]
    BY <1>1
  <2>2. CASE Content(f) = r
    BY <2>1, <2>2 DEF FolderTypeOK
  <2>3. CASE Content(f) # r
    BY <2>1, <2>3 DEF FolderTypeOK, RowsArePaths, Queued
  <2> QED BY <2>2, <2>3
<1>2. CASE romQueue'[r] \in {romQueue[r], NoPath}
  BY <1>2 DEF RowsArePaths, Queued
<1> QED BY <1>1, <1>2, QueueMoves

(* What a cached game remembers is the path its ROM was queued under when it  *)
(* was drained.                                                              *)
LEMMA CachedLeftKept ==
  ASSUME FolderTypeOK, RowsArePaths, CachedLeft, [FolderNext]_folderVars
  PROVE  CachedLeft'
<1>1. ASSUME NEW r \in Contents, Drained(r) PROVE CachedLeft'
  <2>1. PICK f \in Files : Content(f) = r /\ romQueue[r] = Name(f)
    BY <1>1 DEF Drained, RowsArePaths
  <2>2. settled' = settled \cup {r} /\ noMatch' \subseteq noMatch \cup {r}
        /\ cachedFrom' \subseteq cachedFrom \cup {Name(f)}
    BY <1>1, <2>1 DEF Drained
  <2> QED BY <2>1, <2>2 DEF CachedLeft
<1>2. ASSUME \/ ScanBegins \/ ScanStop \/ Scanning \/ ManualEnds \/ ManualAborts \/ ForgetMarks
             \/ ForgetScan \/ Unwatch \/ Watch \/ Minute
             \/ \E f \in Files : ManualQueue(f) \/ FileComes(f) \/ FileGoes(f) \/ Copied(f)
             \/ UNCHANGED folderVars
      PROVE  CachedLeft'
  <2>1. cachedFrom' = cachedFrom /\ noMatch' = noMatch /\ settled \subseteq settled'
    BY <1>2 DEF ScanBegins, ScanStop, Scanning, ScanMarks, ScanFill, ScanFilled, ScanMark,
         ScanForget, ScanRecord, ManualEnds, ManualAborts, ForgetMarks, ForgetScan, Unwatch, Watch,
         Minute, ManualQueue, FileComes, FileGoes, Copied, folderVars, outcomes
  <2> QED BY <2>1 DEF CachedLeft
<1> QED BY <1>1, <1>2 DEF FolderNext
(* What concerns the marks and the scan that sets them.                      *)
MarkInv ==
  ScanFresh /\ FillSorts /\ WaitingQueued /\ MineUnmarked /\ HandledAccounted /\ NothingSlips

(* Nothing the others do takes from a mark what it rests on.                 *)
LEMMA OthersKeepMarks ==
  ASSUME FolderTypeOK, MarkInv, BesideScan
  PROVE  MarkInv'
<1>1. \A f \in Files : Accounted(f) => Accounted(f)'
  BY FilesHave DEF Accounted, BesideScan, Namesakes
<1>2. scan \in ScanRecords /\ marks \subseteq Files
  BY DEF FolderTypeOK, ScanRecords
<1>3. scan.new \subseteq Files /\ scan.waiting \subseteq Files /\ scan.handled \subseteq Files
  BY <1>2 DEF ScanRecords
<1>4. ScanFresh' /\ FillSorts' /\ WaitingQueued'
  BY <1>3, FilesHave DEF MarkInv, BesideScan, ScanFresh, FillSorts, WaitingQueued
<1>5. MineUnmarked'
  BY DEF MarkInv, BesideScan, MineUnmarked, Namesakes
<1>6. HandledAccounted'
  BY <1>1, <1>3 DEF MarkInv, BesideScan, HandledAccounted
<1>7. NothingSlips'
  BY <1>1, <1>2 DEF MarkInv, BesideScan, NothingSlips, Accounted
<1> QED BY <1>4, <1>5, <1>6, <1>7 DEF MarkInv

(* A file that counts as known by its name is accounted for, unless another   *)
(* file has its name.                                                        *)
LEMMA KnownAccounted ==
  ASSUME RowsArePaths, CachedLeft, NEW f \in Files, Known(f)
  PROVE  Accounted(f)
<1>1. CASE Name(f) \in cachedFrom
  BY <1>1 DEF CachedLeft, Accounted, Namesakes
<1>2. CASE Name(f) \in {romQueue[r] : r \in {q \in Contents : Queued(q)}}
  BY <1>2 DEF RowsArePaths, Accounted, Namesakes
<1> QED BY <1>1, <1>2 DEF Known

(* Neither does the scan, at any of its steps.                               *)
LEMMA ScanKeepsMarks ==
  ASSUME FolderTypeOK, RowsArePaths, CachedLeft, MarkInv, ScanBegins \/ Scanning \/ ScanStop
  PROVE  MarkInv'
<1> USE DEF MarkInv
<1>0. scan \in ScanRecords /\ marks \subseteq Files
  BY DEF FolderTypeOK, ScanRecords
<1>p. /\ scan.new \subseteq Files /\ scan.waiting \subseteq Files /\ scan.handled \subseteq Files
      /\ scan.listed \subseteq Files
  BY <1>0 DEF ScanRecords
<1>1. CASE ScanBegins
  <2>1. /\ misread' = misread /\ settled' = settled /\ romQueue' = romQueue /\ marks' = marks
        /\ scan'.step = "marks" /\ scan'.handled = {} /\ scan'.waiting = {} /\ scan'.mine = {}
    BY <1>1 DEF ScanBegins, NoScan, Other, outcomes
  <2> QED BY <2>1 DEF ScanFresh, FillSorts, WaitingQueued, MineUnmarked, HandledAccounted,
            NothingSlips, Queued, Namesakes
<1>2. CASE ScanMarks
  <2>1. /\ misread' = misread /\ settled' = settled /\ romQueue' = romQueue
        /\ scan'.step = "fill" /\ scan'.handled = {} /\ scan'.waiting = {} /\ scan'.mine = {}
        /\ scan'.new = {f \in scan.listed \ marks : ~Known(f)}
        /\ marks' = marks \cup {f \in scan.listed \ marks : Known(f)}
    BY <1>0, <1>2 DEF ScanMarks, outcomes, ScanRecords, ScanFresh
  <2>2. \A f \in marks' \ misread : Accounted(f)
    BY <1>p, <2>1, KnownAccounted DEF NothingSlips, Accounted
  <2>3. NothingSlips'
    BY <2>1, <2>2 DEF NothingSlips, Accounted, Queued, Namesakes
  <2> QED BY <2>1, <2>3 DEF ScanFresh, FillSorts, WaitingQueued, MineUnmarked, HandledAccounted
<1>3. ASSUME NEW f \in Files, ScanFill(f) PROVE MarkInv'
  <2>1. /\ scan.step = "fill" /\ f \in scan.new /\ f \notin scan.handled /\ f \notin scan.waiting
        /\ marks' = marks /\ settled' = settled /\ f \notin marks
        /\ Content(f) \in Contents
    BY <1>3, FilesHave DEF ScanFill, ToDo, Other, FillSorts
  <2>2. CASE scan' = [scan EXCEPT !.handled = Dealt(f)] /\ UNCHANGED romQueue
             /\ (f \in present \ copying => IsAnswered(Content(f)))
             /\ misread' = IF f \in present \ copying THEN misread \ {f} ELSE misread \cup {f}
    <3>1. /\ scan'.step = "fill" /\ scan'.handled = scan.handled \cup {f} /\ scan'.new = scan.new
          /\ scan'.waiting = scan.waiting /\ scan'.mine = scan.mine
      BY <1>0, <2>1, <2>2 DEF ScanRecords, Dealt
    <3>2. f \notin misread' => Content(f) \in settled
      BY <2>2, FilesHave DEF IsAnswered, CachedLeft
    <3>3. misread \ {f} \subseteq misread' /\ misread' \subseteq misread \cup {f}
      BY <2>2
    <3>4. FillSorts'
      BY <2>1, <3>1, <3>2, <3>3 DEF FillSorts
    <3>5. WaitingQueued' /\ MineUnmarked' /\ NothingSlips'
      BY <2>1, <2>2, <3>1, <3>3
         DEF WaitingQueued, MineUnmarked, NothingSlips, Queued, Namesakes
    <3> QED BY <3>1, <3>4, <3>5 DEF ScanFresh, HandledAccounted
  <2>3. CASE /\ misread' = misread \ {f}
             /\ scan' = [scan EXCEPT !.waiting = @ \cup {f},
                           !.mine = IF Queued(Content(f)) THEN @ ELSE @ \cup {Content(f)}]
             /\ romQueue' = IF Queued(Content(f)) THEN romQueue
                            ELSE [romQueue EXCEPT ![Content(f)] = Name(f)]
    <3>1. /\ scan'.step = "fill" /\ scan'.handled = scan.handled /\ scan'.new = scan.new
          /\ scan'.waiting = scan.waiting \cup {f}
          /\ scan'.mine = IF Queued(Content(f)) THEN scan.mine ELSE scan.mine \cup {Content(f)}
      BY <1>0, <2>1, <2>3 DEF ScanRecords
    <3>2. Name(f) # NoPath
      BY FilesHave, FolderAssumption
    <3>3. \A r \in Contents : (Queued(r))' <=> Queued(r) \/ r = Content(f)
      BY <2>1, <2>3, <3>2 DEF Queued, FolderTypeOK
    <3>4. FillSorts'
      BY <2>1, <2>3, <3>1 DEF FillSorts
    <3>5. WaitingQueued'
      BY <1>p, <2>1, <2>3, <3>1, <3>3, FilesHave DEF WaitingQueued
    <3>6. MineUnmarked' /\ NothingSlips'
      <4>1. \A g \in marks \ misread' : g \in marks \ misread /\ g \in Files
        BY <1>0, <2>1, <2>3
      <4>2. \A g \in marks \ misread' : ~Queued(Content(g)) =>
              Content(g) \in settled \/ Namesakes(g) # {}
        BY <4>1 DEF NothingSlips
      <4>3. MineUnmarked'
        BY <2>1, <3>1, <4>1, <4>2 DEF MineUnmarked, Namesakes
      <4>4. NothingSlips'
        BY <2>1, <3>3, <4>1, FilesHave DEF NothingSlips, Namesakes
      <4> QED BY <4>3, <4>4
    <3> QED BY <3>1, <3>4, <3>5, <3>6 DEF ScanFresh, HandledAccounted
  <2> QED BY <1>3, <2>2, <2>3 DEF ScanFill
<1>4. CASE ScanStop
  <2> DEFINE rows == [r \in Contents |-> IF r \in scan.mine THEN NoPath ELSE romQueue[r]]
  <2>1. /\ scan.step = "fill" /\ romQueue' = rows /\ misread' = misread /\ settled' = settled
        /\ marks' = marks /\ scan'.step = "mark"
        /\ scan'.handled = scan.handled \cup StillQueued(rows)
    BY <1>0, <1>4 DEF ScanStop, ScanRecords, outcomes
  <2>2. \A r \in Contents : (Queued(r))' <=> Queued(r) /\ r \notin scan.mine
    BY <2>1 DEF Queued
  <2>3. \A f \in StillQueued(rows) : f \in Files /\ (Queued(Content(f)))'
    BY <1>p, <2>1 DEF StillQueued, Queued
  <2>4. HandledAccounted'
    BY <2>1, <2>3 DEF HandledAccounted, Accounted, FillSorts, Namesakes
  <2>5. NothingSlips'
    BY <1>0, <2>1, <2>2, FilesHave DEF NothingSlips, MineUnmarked, Namesakes
  <2> QED BY <2>1, <2>4, <2>5 DEF ScanFresh, FillSorts, WaitingQueued, MineUnmarked
<1>5. CASE ScanFilled
  <2>1. /\ scan.step = "fill" /\ romQueue' = romQueue /\ misread' = misread /\ settled' = settled
        /\ marks' = marks /\ scan'.step = "mark"
        /\ scan'.handled = scan.handled \cup scan.waiting
    BY <1>0, <1>5 DEF ScanFilled, ScanRecords, outcomes, Other
  <2>2. HandledAccounted'
    BY <2>1 DEF HandledAccounted, Accounted, FillSorts, WaitingQueued, Namesakes, Queued
  <2> QED BY <2>1, <2>2 DEF ScanFresh, FillSorts, WaitingQueued, MineUnmarked, NothingSlips,
            Namesakes, Queued
<1>6. CASE ScanMark
  <2>1. /\ scan.step = "mark" /\ romQueue' = romQueue /\ misread' = misread /\ settled' = settled
        /\ marks' = marks \cup scan.handled /\ scan'.step = "forget"
    BY <1>6 DEF ScanMark, outcomes, Other, NoScan
  <2>2. NothingSlips'
    BY <2>1 DEF NothingSlips, HandledAccounted, Accounted, Namesakes, Queued
  <2> QED BY <2>1, <2>2 DEF ScanFresh, FillSorts, WaitingQueued, MineUnmarked, HandledAccounted
<1>7. CASE ScanForget \/ ScanRecord
  <2>1. /\ romQueue' = romQueue /\ misread' = misread /\ settled' = settled
        /\ marks' \subseteq marks /\ scan'.step \in {"record", "idle"}
    <3>1. CASE ScanForget
      BY <1>0, <3>1 DEF ScanForget, outcomes, Other, ScanRecords
    <3>2. CASE ScanRecord
      BY <3>2 DEF ScanRecord, outcomes, Other, NoScan
    <3> QED BY <1>7, <3>1, <3>2
  <2> QED BY <2>1 DEF ScanFresh, FillSorts, WaitingQueued, MineUnmarked, HandledAccounted,
            NothingSlips, Namesakes, Queued
<1> QED BY <1>1, <1>2, <1>3, <1>4, <1>5, <1>6, <1>7 DEF Scanning

-----------------------------------------------------------------------------
(* The theorems.                                                            *)

(* The invariant holds at first.                                            *)
LEMMA FolderInvInit == FolderInit => FolderInv
<1> SUFFICES ASSUME FolderInit PROVE FolderInv
  OBVIOUS
<1> USE DEF FolderInit
<1>1. FolderTypeOK
  <2>1. since \in 0..Interval /\ stops \in 0..MaxStops
    BY FolderAssumption
  <2> QED BY <2>1 DEF FolderTypeOK, NoScan, Steps
<1>2. RowsArePaths /\ CachedLeft
  BY DEF RowsArePaths, CachedLeft, Queued
<1>3. ScanFresh /\ FillSorts /\ WaitingQueued /\ MineUnmarked /\ HandledAccounted /\ NothingSlips
  BY DEF ScanFresh, FillSorts, WaitingQueued, MineUnmarked, HandledAccounted, NothingSlips, NoScan
<1> QED BY <1>1, <1>2, <1>3 DEF FolderInv

(* The invariant holds at every state.                                      *)
LEMMA FolderInvariant == FolderSpec => []FolderInv
<1>1. FolderInv /\ [FolderNext]_folderVars => FolderInv'
  <2> SUFFICES ASSUME FolderInv, [FolderNext]_folderVars PROVE FolderInv'
    OBVIOUS
  <2>1. FolderTypeOK /\ RowsArePaths /\ CachedLeft /\ MarkInv
    BY DEF FolderInv, MarkInv
  <2>2. FolderTypeOK' /\ RowsArePaths' /\ CachedLeft'
    BY <2>1, FolderTypesKept, RowsKept, CachedLeftKept
  <2>3. MarkInv'
    BY <2>1, OthersMove, OthersKeepMarks, ScanKeepsMarks
  <2> QED BY <2>2, <2>3 DEF FolderInv, MarkInv
<1> QED BY <1>1, FolderInvInit, PTL DEF FolderSpec

(* Every variable keeps to its type.                                        *)
THEOREM FolderTyped == FolderSpec => []FolderTypeOK
<1>1. FolderInv => FolderTypeOK
  BY DEF FolderInv
<1> QED BY <1>1, FolderInvariant, PTL

(* A file of a watched folder is marked, and so never looked at again, only   *)
(* while its ROM waits in the queue or after it left the queue for a reason   *)
(* (watch_folders.py, smart_cache.py): for any files, any number of stopped   *)
(* scans and any manual runs beside them. Nothing is said of a mark that rests *)
(* on a file read half-copied, nor of a file that has a namesake.             *)
THEOREM NothingSlipsBy == FolderSpec => []NothingSlips
<1>1. FolderInv => NothingSlips
  BY DEF FolderInv
<1> QED BY <1>1, FolderInvariant, PTL
=============================================================================
