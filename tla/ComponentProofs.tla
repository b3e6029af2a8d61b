-------------------------- MODULE ComponentProofs --------------------------
(***************************************************************************)
(* What the images, the link to RetroAchievements, the check at sign-in,   *)
(* the usage counters, the patched configurations, the counts of unlocks   *)
(* and Smart Cache keep, for every value of their constants.               *)
(***************************************************************************)
EXTENDS ImageCache, RaLink, SignInCheck, UsageReport, ConfigPatch, UnlockCounts, SmartCache,
        FiniteSetTheorems, SequenceTheorems, WellFoundedInduction, TLAPS

(* The images: a file is open just while it is written.                     *)
OpenToWrite == \A d \in Getters : getter[d].fd # NoInode <=> getter[d].step = "write"

(* Who holds the temporary name is still to rename it or to clean it up, and   *)
(* who broke a file that has a name is still to write it.                     *)
TmpHeld ==
  names["tmp"] # NoInode /\ imageMishaps = 0 =>
    \E d \in Getters : getter[d].step \in {"write", "rename", "clean"}
TornHeld ==
  imageMishaps = 0 =>
    \A n \in {"image", "tmp"} : names[n] # NoInode /\ names[n] \notin whole =>
      \E d \in Getters : getter[d].step = "write" /\ getter[d].fd = names[n]

FilesHeld == OpenToWrite /\ TmpHeld /\ TornHeld
ImageInv == ImageTypeOK /\ FilesHeld /\ PendingIsWorkedOn

GetterStates == [step : Steps, fd : Inodes \cup {NoInode}, forGame : BOOLEAN, read : BOOLEAN]

(* A step of one getter that leaves the files alone, unless it ends the write. *)
LEMMA GetterMoves ==
  ASSUME ImageInv, NEW d \in Getters, NEW g \in GetterStates,
         getter' = [getter EXCEPT ![d] = g],
         UNCHANGED <<names, imageMishaps>>, whole \subseteq whole',
         getter[d].step \notin {"rename", "clean"},
         \/ getter[d].step # "write" /\ g.fd = getter[d].fd
         \/ getter[d].step = "write" /\ getter[d].fd \in whole' /\ g.step = "rename"
              /\ g.fd = NoInode,
         g.step # "write"
  PROVE  FilesHeld'
<1> USE DEF GetterStates
<1>0. getter \in [Getters -> GetterStates] /\ OpenToWrite /\ TmpHeld /\ TornHeld
  BY DEF ImageInv, FilesHeld, ImageTypeOK
<1>1. \A e \in Getters : getter'[e] = IF e = d THEN g ELSE getter[e]
  BY <1>0
<1>2. OpenToWrite'
  BY <1>0, <1>1 DEF OpenToWrite
<1>3. TmpHeld'
  BY <1>0, <1>1 DEF TmpHeld
<1>4. TornHeld'
  BY <1>0, <1>1 DEF TornHeld
<1> QED BY <1>2, <1>3, <1>4 DEF FilesHeld

(* A process whose pending set holds the image has its getter at work.         *)
LEMMA PendingMoves ==
  ASSUME ImageInv, NEW d \in Getters, NEW g, getter' = [getter EXCEPT ![d] = g],
         \/ g.step # "idle" /\ pending' \subseteq pending \cup ({ProcessOf(d)} \ {ProcessOf("batch")})
         \/ g.step # "idle" /\ d = "pool" /\ pending' \subseteq pending \cup {"service"}
         \/ pending' \subseteq pending /\ (d # "batch" => ProcessOf(d) \notin pending')
  PROVE  PendingIsWorkedOn'
<1>1. \A e \in Getters : getter'[e] = IF e = d THEN g ELSE getter[e]
  BY DEF ImageInv, ImageTypeOK
<1>2. NoWork.step = "idle"
  BY DEF NoWork
<1>3. PendingIsWorkedOn
  BY DEF ImageInv
<1>4. d \in {"pool", "batch", "menu"}
  BY DEF Getters
<1> QED BY <1>1, <1>2, <1>3, <1>4 DEF PendingIsWorkedOn, ProcessOf, Getters

(* Every step of the images keeps the invariant.                              *)
LEMMA ImageStep == ImageInv /\ [ImageNext]_imageVars => ImageInv'
<1> SUFFICES ASSUME ImageInv, [ImageNext]_imageVars PROVE ImageInv'
  OBVIOUS
<1> USE DEF GetterStates
<1>0. /\ names \in [{"image", "tmp"} -> Inodes \cup {NoInode}] /\ whole \subseteq Inodes
      /\ icon \in {"none", "half", "whole"} /\ folder \in BOOLEAN
      /\ getter \in [Getters -> GetterStates] /\ pending \subseteq Programs
      /\ imageMishaps \in 0 .. ImageFaults /\ ImageFaults \in Nat
      /\ FilesHeld /\ OpenToWrite /\ TmpHeld /\ TornHeld /\ PendingIsWorkedOn
  BY ImageAssumption DEF ImageInv, ImageTypeOK, FilesHeld
<1>t. \A d \in Getters, g \in GetterStates : [getter EXCEPT ![d] = g] \in [Getters -> GetterStates]
  BY <1>0
<1>p. "pool" \in Getters /\ "batch" \in Getters /\ "menu" \in Getters
      /\ \A d \in Getters : ProcessOf(d) \in Programs
  BY DEF Getters, Programs, ProcessOf
<1> DEFINE Typed == /\ names' \in [{"image", "tmp"} -> Inodes \cup {NoInode}]
                    /\ whole' \subseteq Inodes /\ icon' \in {"none", "half", "whole"}
                    /\ folder' \in BOOLEAN /\ getter' \in [Getters -> GetterStates]
                    /\ pending' \subseteq Programs /\ imageMishaps' \in 0 .. ImageFaults
           NamesKept == Typed /\ FilesHeld' /\ PendingIsWorkedOn'
<1>1. ASSUME NEW d \in {"pool", "menu"}, NEW forGame \in BOOLEAN, Schedule(d, forGame) PROVE NamesKept
  <2> DEFINE g == [NoWork EXCEPT !.step = "queued", !.forGame = forGame]
  <2>1. g \in GetterStates /\ g.step = "queued" /\ g.fd = NoInode
    BY DEF NoWork, Steps
  <2>2. /\ getter' = [getter EXCEPT ![d] = g] /\ pending' = pending \cup {ProcessOf(d)}
        /\ UNCHANGED <<names, whole, icon, folder, imageMishaps>>
        /\ getter[d].step = "idle" /\ getter[d].fd = NoInode /\ d \in Getters
    BY <1>1, <1>p DEF Schedule, NoWork
  <2> HIDE DEF g
  <2>3. FilesHeld'
    BY <2>1, <2>2, GetterMoves
  <2>4. PendingIsWorkedOn'
    BY <2>1, <2>2, PendingMoves DEF ProcessOf
  <2> QED BY <1>0, <1>p, <1>t, <2>1, <2>2, <2>3, <2>4
<1>2. ASSUME BatchFetches PROVE NamesKept
  <2> DEFINE g == [NoWork EXCEPT !.step = "look", !.forGame = TRUE]
  <2>1. g \in GetterStates /\ g.step = "look" /\ g.fd = NoInode
    BY DEF NoWork, Steps
  <2>2. /\ getter' = [getter EXCEPT !["batch"] = g]
        /\ UNCHANGED <<names, whole, icon, folder, pending, imageMishaps>>
        /\ getter["batch"].step = "idle" /\ getter["batch"].fd = NoInode
    BY <1>2 DEF BatchFetches, NoWork
  <2> HIDE DEF g
  <2>3. FilesHeld'
    BY <1>p, <2>1, <2>2, GetterMoves
  <2>4. PendingIsWorkedOn'
    BY <1>p, <2>1, <2>2, PendingMoves
  <2>5. getter' \in [Getters -> GetterStates]
    BY <1>p, <1>t, <2>1, <2>2
  <2> QED BY <1>0, <2>2, <2>3, <2>4, <2>5
(* A getter that goes on without touching the files.                         *)
<1>3. ASSUME NEW d \in Getters, NEW to \in Steps \ {"idle", "write"},
             getter' = [getter EXCEPT ![d].step = to],
             getter[d].step \in {"queued", "look", "fetch", "open", "icon", "copy", "put"},
             UNCHANGED <<names, whole, pending, imageMishaps>>,
             icon' \in {"none", "half", "whole"}, folder' \in BOOLEAN
      PROVE  NamesKept
  <2> DEFINE g == [getter[d] EXCEPT !.step = to]
  <2>1. g \in GetterStates /\ g.step = to /\ g.fd = getter[d].fd
    BY <1>0, <1>3
  <2>2. getter' = [getter EXCEPT ![d] = g]
    BY <1>3
  <2> HIDE DEF g
  <2>3. FilesHeld'
    <3>1. getter[d].step \notin {"rename", "clean"} /\ getter[d].step # "write" /\ g.step # "write"
      BY <1>3, <2>1
    <3>2. UNCHANGED <<names, imageMishaps>> /\ whole \subseteq whole'
      BY <1>3
    <3> QED BY <2>1, <2>2, <3>1, <3>2, GetterMoves
  <2>4. PendingIsWorkedOn'
    BY <1>3, <2>1, <2>2, PendingMoves
  <2> QED BY <1>0, <1>3, <1>t, <2>1, <2>2, <2>3, <2>4
<1>4. ASSUME NEW d \in Getters, Take(d) \/ LookForImage(d) \/ Fetch(d) \/ LookForIcon(d) \/ PutIcon(d)
      PROVE  NamesKept
  <2>1. CASE Take(d)
    BY <1>3, <1>0, <2>1 DEF Take, Moves, Steps
  <2>2. CASE LookForImage(d)
    BY <1>3, <1>0, <2>2 DEF LookForImage, Moves, Steps, Following
  <2>3. CASE Fetch(d)
    BY <1>3, <1>0, <2>3 DEF Fetch, Moves, Steps, Following
  <2>4. CASE LookForIcon(d)
    BY <1>3, <1>0, <2>4 DEF LookForIcon, Moves, Steps, Following
  <2>5. CASE PutIcon(d)
    BY <1>3, <1>0, <2>5 DEF PutIcon, Moves, Steps, Following
  <2> QED BY <1>4, <2>1, <2>2, <2>3, <2>4, <2>5
<1>5. ASSUME NEW d \in Getters, CopyIcon(d) PROVE NamesKept
  <2>1. CASE Cached
    <3> DEFINE complete == names["image"] \in whole
               g == [getter[d] EXCEPT !.step = "put", !.read = complete]
    <3>0. complete \in BOOLEAN
      OBVIOUS
    <3>1. g \in GetterStates /\ g.step = "put" /\ g.fd = getter[d].fd
      <4> HIDE DEF complete
      <4> QED BY <1>0, <3>0 DEF Steps
    <3>2. /\ getter' = [getter EXCEPT ![d] = g] /\ getter[d].step = "copy" /\ icon' = "half"
          /\ UNCHANGED <<names, whole, folder, pending, imageMishaps>>
      BY <1>0, <1>5, <2>1 DEF CopyIcon, Following
    <3> HIDE DEF g
    <3>3. FilesHeld'
      BY <3>1, <3>2, GetterMoves
    <3>4. PendingIsWorkedOn'
      BY <3>1, <3>2, PendingMoves
    <3> QED BY <1>0, <1>t, <3>1, <3>2, <3>3, <3>4
  <2>2. CASE ~Cached
    BY <1>0, <1>3, <1>5, <2>2 DEF CopyIcon, Moves, Steps
  <2> QED BY <2>1, <2>2
<1>6. ASSUME NEW d \in Getters, OpenTmp(d) PROVE NamesKept
  <2>1. CASE ~folder
    BY <1>0, <1>3, <1>6, <2>1 DEF OpenTmp, Moves, Steps
  <2>2. CASE folder
    <3> DEFINE fd == IF names["tmp"] = NoInode THEN Unused ELSE names["tmp"]
    <3>1. fd \in Inodes
      <4>1. Inodes = {1, 2, 3, 4} /\ NoInode = 0 /\ names["image"] \in {0, 1, 2, 3, 4}
            /\ names["tmp"] \in {0, 1, 2, 3, 4}
        BY <1>0 DEF Inodes, NoInode
      <4>2. getter[d].fd = 0
        BY <1>0, <1>6, <4>1 DEF OpenTmp, OpenToWrite
      <4>3. CASE names["tmp"] = NoInode
        <5>1. \E i \in {1, 2, 3, 4} : i \notin InUse
          <6>1. PICK e1, e2 \in Getters : Getters = {d, e1, e2}
            BY DEF Getters
          <6> DEFINE a == names["image"]
                     b == getter[e1].fd
                     c == getter[e2].fd
          <6>2. InUse \subseteq {0, a, b, c}
            BY <4>1, <4>2, <4>3, <6>1 DEF InUse
          <6> HIDE DEF a, b, c
          <6> QED BY <6>2
        <5>2. \E i \in Inodes : i \notin InUse /\ \A j \in Inodes \ InUse : i <= j
          BY <4>1, <5>1
        <5>3. Unused \in Inodes
          BY <5>2 DEF Unused
        <5> QED BY <4>3, <5>3
      <4> QED BY <4>1, <4>3
    <3> DEFINE g == [getter[d] EXCEPT !.fd = fd, !.step = "write"]
    <3>2. /\ names' = [names EXCEPT !["tmp"] = fd] /\ whole' = whole \ {fd}
          /\ getter' = [getter EXCEPT ![d] = g] /\ getter[d].step = "open"
          /\ UNCHANGED <<icon, folder, pending, imageMishaps>>
      BY <1>0, <1>6, <2>2 DEF OpenTmp, Following
    <3>n. fd # NoInode
      BY <3>1 DEF Inodes, NoInode
    <3> HIDE DEF fd
    <3>3. g \in GetterStates /\ g.step = "write" /\ g.fd = fd
      BY <1>0, <3>1 DEF Steps
    <3> HIDE DEF g
    <3>4. \A e \in Getters : getter'[e] = IF e = d THEN g ELSE getter[e]
      BY <1>0, <3>2
    <3>5. names' \in [{"image", "tmp"} -> Inodes \cup {NoInode}] /\ names'["tmp"] = fd
          /\ names'["image"] = names["image"]
      BY <1>0, <3>1, <3>2
    <3>6. OpenToWrite' /\ TmpHeld'
      BY <1>0, <3>n, <3>3, <3>4 DEF OpenToWrite, TmpHeld
    <3>7. TornHeld'
      <4> SUFFICES ASSUME imageMishaps = 0, NEW n \in {"image", "tmp"}, names'[n] # NoInode,
                          names'[n] \notin whole'
                   PROVE  \E e \in Getters : getter'[e].step = "write" /\ getter'[e].fd = names'[n]
        BY <3>2 DEF TornHeld
      <4>1. CASE names'[n] = fd
        BY <3>3, <3>4, <4>1
      <4>2. CASE names'[n] # fd
        <5>1. n = "image" /\ names[n] \notin whole /\ names[n] # NoInode
          BY <3>2, <3>5, <4>2
        <5>2. PICK e \in Getters : getter[e].step = "write" /\ getter[e].fd = names[n]
          BY <1>0, <5>1 DEF TornHeld
        <5> QED BY <3>2, <3>4, <3>5, <5>1, <5>2
      <4> QED BY <4>1, <4>2
    <3>8. PendingIsWorkedOn'
      BY <3>2, <3>3, PendingMoves
    <3> QED BY <1>0, <1>t, <3>2, <3>3, <3>5, <3>6, <3>7, <3>8 DEF FilesHeld
  <2> QED BY <2>1, <2>2
<1>7. ASSUME NEW d \in Getters, WriteTmp(d) PROVE NamesKept
  <2>0. getter[d].step = "write" /\ UNCHANGED <<names, icon, folder, pending>>
    BY <1>7 DEF WriteTmp
  <2>1. CASE /\ whole' = whole \cup {getter[d].fd}
             /\ getter' = [getter EXCEPT ![d].fd = NoInode, ![d].step = Following("write")]
             /\ UNCHANGED imageMishaps
    <3> DEFINE g == [getter[d] EXCEPT !.fd = NoInode, !.step = "rename"]
    <3>1. g \in GetterStates /\ g.step = "rename" /\ g.fd = NoInode
      BY <1>0 DEF Steps
    <3>2. getter' = [getter EXCEPT ![d] = g]
      BY <1>0, <2>1 DEF Following
    <3> HIDE DEF g
    <3>3. FilesHeld'
      BY <2>0, <2>1, <3>1, <3>2, GetterMoves
    <3>4. PendingIsWorkedOn'
      BY <2>0, <3>1, <3>2, PendingMoves
    <3>5. getter[d].fd \in Inodes
      BY <1>0, <2>0 DEF OpenToWrite
    <3> QED BY <1>0, <1>t, <2>0, <2>1, <3>1, <3>2, <3>3, <3>4, <3>5
  <2>2. CASE /\ imageMishaps < ImageFaults /\ imageMishaps' = imageMishaps + 1
             /\ getter' = [getter EXCEPT ![d].fd = NoInode, ![d].step = "clean"]
             /\ UNCHANGED whole
    <3> DEFINE g == [getter[d] EXCEPT !.fd = NoInode, !.step = "clean"]
    <3>1. g \in GetterStates /\ g.step = "clean" /\ g.fd = NoInode
      BY <1>0 DEF Steps
    <3>2. getter' = [getter EXCEPT ![d] = g]
      BY <1>0, <2>2
    <3> HIDE DEF g
    <3>3. FilesHeld'
      BY <1>0, <2>2, <3>1, <3>2 DEF FilesHeld, OpenToWrite, TmpHeld, TornHeld
    <3>4. PendingIsWorkedOn'
      BY <2>0, <3>1, <3>2, PendingMoves
    <3>5. imageMishaps' \in 0 .. ImageFaults
      BY <1>0, <2>2
    <3> QED BY <1>0, <1>t, <2>0, <2>2, <3>1, <3>2, <3>3, <3>4, <3>5
  <2> QED BY <1>7, <2>1, <2>2 DEF WriteTmp
<1>8. ASSUME NEW d \in Getters, RenameTmp(d) PROVE NamesKept
  <2>0. getter[d].step = "rename" /\ UNCHANGED <<whole, icon, folder, pending, imageMishaps>>
    BY <1>8 DEF RenameTmp
  <2> DEFINE to == IF names["tmp"] # NoInode THEN "icon" ELSE "clean"
             g == [getter[d] EXCEPT !.step = to]
  <2>1. g \in GetterStates /\ g.step \in {"icon", "clean"} /\ g.step = to /\ g.fd = getter[d].fd
    BY <1>0 DEF Steps
  <2>2. /\ getter' = [getter EXCEPT ![d] = g]
        /\ IF names["tmp"] # NoInode
           THEN names' = [names EXCEPT !["image"] = names["tmp"], !["tmp"] = NoInode]
           ELSE names' = names
    BY <1>0, <1>8 DEF RenameTmp, Moves, Following
  <2> HIDE DEF g
  <2>3. /\ \A e \in Getters : getter'[e] = IF e = d THEN g ELSE getter[e]
        /\ getter' \in [Getters -> GetterStates]
    BY <1>0, <2>1, <2>2
  <2>4. names' \in [{"image", "tmp"} -> Inodes \cup {NoInode}]
    BY <1>0, <2>2
  <2>5. OpenToWrite'
    BY <1>0, <2>0, <2>1, <2>3 DEF OpenToWrite
  <2>6. TmpHeld'
    BY <1>0, <2>0, <2>1, <2>2, <2>3 DEF TmpHeld
  <2>7. TornHeld'
    BY <1>0, <2>0, <2>1, <2>2, <2>3 DEF TornHeld
  <2>8. PendingIsWorkedOn'
    BY <2>0, <2>1, <2>2, PendingMoves
  <2> QED BY <1>0, <2>0, <2>3, <2>4, <2>5, <2>6, <2>7, <2>8 DEF FilesHeld
<1>9. ASSUME NEW d \in Getters, Clean(d) PROVE NamesKept
  <2> DEFINE g == [getter[d] EXCEPT !.fd = NoInode, !.step = "done"]
  <2>1. g \in GetterStates /\ g.step = "done" /\ g.fd = NoInode
    BY <1>0 DEF Steps
  <2>2. /\ getter[d].step = "clean" /\ UNCHANGED <<whole, icon, folder, pending, imageMishaps>>
        /\ getter' = [getter EXCEPT ![d] = g] /\ names' = [names EXCEPT !["tmp"] = NoInode]
    BY <1>0, <1>9 DEF Clean, CleanedNames
  <2> HIDE DEF g
  <2>3. /\ \A e \in Getters : getter'[e] = IF e = d THEN g ELSE getter[e]
        /\ getter' \in [Getters -> GetterStates]
        /\ names' \in [{"image", "tmp"} -> Inodes \cup {NoInode}]
    BY <1>0, <2>1, <2>2
  <2>4. OpenToWrite' /\ TmpHeld'
    BY <1>0, <2>1, <2>2, <2>3 DEF OpenToWrite, TmpHeld
  <2>5. TornHeld'
    BY <1>0, <2>1, <2>2, <2>3 DEF TornHeld
  <2>6. PendingIsWorkedOn'
    BY <2>1, <2>2, PendingMoves
  <2> QED BY <1>0, <2>2, <2>3, <2>4, <2>5, <2>6 DEF FilesHeld
<1>n. NoWork \in GetterStates /\ NoWork.step = "idle" /\ NoWork.fd = NoInode
  BY DEF NoWork, Steps
<1>10. ASSUME NEW d \in Getters, FinishImage(d) PROVE NamesKept
  <2>1. /\ getter[d].step = "done" /\ getter' = [getter EXCEPT ![d] = NoWork]
        /\ pending' = IF d = "batch" THEN pending ELSE pending \ {ProcessOf(d)}
        /\ UNCHANGED <<names, whole, icon, folder, imageMishaps>>
    BY <1>10 DEF FinishImage, PendingAfter
  <2>2. getter[d].fd = NoInode
    BY <1>0, <2>1 DEF OpenToWrite
  <2>3. FilesHeld'
    BY <1>n, <2>1, <2>2, GetterMoves
  <2>4. PendingIsWorkedOn'
    BY <2>1, PendingMoves
  <2>5. getter' \in [Getters -> GetterStates]
    BY <1>n, <1>t, <2>1
  <2> QED BY <1>0, <2>1, <2>3, <2>4, <2>5
<1>11. ASSUME MenuCloses PROVE NamesKept
  <2>1. /\ getter["menu"].step = "queued" /\ getter' = [getter EXCEPT !["menu"] = NoWork]
        /\ pending' = pending \ {"menu"} /\ UNCHANGED <<names, whole, icon, folder, imageMishaps>>
    BY <1>11 DEF MenuCloses
  <2>2. getter["menu"].fd = NoInode
    BY <1>0, <1>p, <2>1 DEF OpenToWrite
  <2>3. FilesHeld'
    BY <1>n, <1>p, <2>1, <2>2, GetterMoves
  <2>4. PendingIsWorkedOn'
    BY <1>p, <2>1, PendingMoves DEF ProcessOf
  <2>5. getter' \in [Getters -> GetterStates]
    BY <1>n, <1>p, <1>t, <2>1
  <2> QED BY <1>0, <2>1, <2>3, <2>4, <2>5
<1>12. ASSUME NEW p \in Programs, Kill(p) PROVE NamesKept
  <2>1. /\ getter' = [d \in Getters |-> IF ProcessOf(d) = p THEN NoWork ELSE getter[d]]
        /\ pending' = pending \ {p} /\ UNCHANGED <<names, whole, icon, folder>>
        /\ imageMishaps' = imageMishaps + 1 /\ imageMishaps < ImageFaults
    BY <1>12 DEF Kill
  <2>2. getter' \in [Getters -> GetterStates] /\ imageMishaps' \in 0 .. ImageFaults
        /\ imageMishaps' # 0
    BY <1>0, <1>n, <2>1
  <2>3. FilesHeld'
    BY <1>0, <1>n, <2>1, <2>2 DEF FilesHeld, OpenToWrite, TmpHeld, TornHeld
  <2>4. PendingIsWorkedOn'
    BY <1>0, <1>p, <2>1 DEF PendingIsWorkedOn, ProcessOf, Programs
  <2> QED BY <1>0, <2>1, <2>2, <2>3, <2>4
<1>13. ASSUME RemoveGame PROVE NamesKept
  BY <1>0, <1>13 DEF RemoveGame, FilesHeld, OpenToWrite, TmpHeld, TornHeld, PendingIsWorkedOn
<1>14. ASSUME ClearImages PROVE NamesKept
  <2>1. /\ names' = [n \in {"image", "tmp"} |-> NoInode] /\ icon' = "none" /\ folder' = FALSE
        /\ UNCHANGED <<whole, getter, pending, imageMishaps>>
    BY <1>14 DEF ClearImages
  <2>2. FilesHeld'
    BY <1>0, <2>1 DEF FilesHeld, OpenToWrite, TmpHeld, TornHeld
  <2> QED BY <1>0, <2>1, <2>2 DEF PendingIsWorkedOn
<1>15. ASSUME UNCHANGED imageVars PROVE NamesKept
  BY <1>0, <1>15 DEF imageVars, FilesHeld, OpenToWrite, TmpHeld, TornHeld, PendingIsWorkedOn
<1>16. NamesKept
  <2>1. CASE AnswerNamesImage \/ ForwardImage \/ Preview
    BY <1>1, <2>1 DEF AnswerNamesImage, ForwardImage, Preview
  <2>2. ASSUME \E d \in Getters :
               \/ Take(d) \/ LookForImage(d) \/ Fetch(d) \/ OpenTmp(d) \/ WriteTmp(d)
               \/ RenameTmp(d) \/ Clean(d) \/ LookForIcon(d) \/ CopyIcon(d) \/ PutIcon(d)
               \/ FinishImage(d)
        PROVE  NamesKept
    BY <1>4, <1>5, <1>6, <1>7, <1>8, <1>9, <1>10, <2>2
  <2> QED BY <1>2, <1>11, <1>12, <1>13, <1>14, <1>15, <2>1, <2>2 DEF ImageNext
<1> QED BY <1>16 DEF ImageInv, ImageTypeOK

(* The invariant of the images holds at every state.                          *)
LEMMA ImageInvariant == ImageSpec => []ImageInv
<1>1. ImageInit => ImageInv
  <2> SUFFICES ASSUME ImageInit PROVE ImageInv
    OBVIOUS
  <2>1. ImageTypeOK
    <3>1. NoWork \in GetterStates
      BY DEF NoWork, Steps, GetterStates
    <3>2. getter \in [Getters -> GetterStates] /\ imageMishaps \in 0 .. ImageFaults
      BY <3>1, ImageAssumption DEF ImageInit
    <3> QED BY <3>2 DEF ImageInit, ImageTypeOK, GetterStates
  <2>2. FilesHeld /\ PendingIsWorkedOn
    BY DEF ImageInit, FilesHeld, OpenToWrite, TmpHeld, TornHeld, PendingIsWorkedOn, NoWork
  <2> QED BY <2>1, <2>2 DEF ImageInv
<1> QED BY <1>1, ImageStep, PTL DEF ImageSpec

(* Every variable of the image cache keeps to its type.                      *)
THEOREM ImagesTyped == ImageSpec => []ImageTypeOK
<1>1. ImageInv => ImageTypeOK
  BY DEF ImageInv
<1> QED BY <1>1, ImageInvariant, PTL

(* What is unfinished on the disk belongs to a download that still runs, and an *)
(* image in a pending set to one of its process (image_cache.py).             *)
THEOREM ImagesAreDone == ImageSpec => []ImagesGetDone
<1>1. ASSUME ImageInv PROVE ImagesGetDone
  <2>1. TmpHeld /\ TornHeld /\ PendingIsWorkedOn
    BY <1>1 DEF ImageInv, FilesHeld
  <2>2. UnfinishedIsWorkedOn
    BY <2>1 DEF TmpHeld, TornHeld, UnfinishedIsWorkedOn, Cached
  <2> QED BY <2>1, <2>2 DEF ImagesGetDone
<1> QED BY <1>1, ImageInvariant, PTL

-----------------------------------------------------------------------------
(* The link: a pause is as long as the rest the server asked for, and who has   *)
(* sent one request during that rest is not on its way to another.            *)
Resting == /\ pause >= asked
           /\ \A t \in Background : restSends[t] >= 1 =>
                restSends[t] = 1 /\ asked > 0 /\ call[t].step # "turn"

(* What the tracker says was heard at most as long ago as the tracker says, as  *)
(* is what a probe is about to tell it.                                       *)
HeardWhen ==
  /\ tracker.up => tracker.known /\ heard <= tracker.age
  /\ \A t \in Threads :
       /\ call[t].since <= 1
       /\ call[t].step = "mark" /\ call[t].sure => heard <= call[t].since
       /\ call[t].step \in {"probe", "head"} => call[t].sure
       /\ call[t].step = "asks" /\ tracker.up => tracker.age <= Interval

LinkInv == LinkTypeOK /\ Resting /\ HeardWhen /\ OnlineIsRecent

Calls == [step : CallSteps, try : 0 .. MaxRetries + Attempts, since : 0 .. Interval + 1,
          sure : BOOLEAN]
Trackers == [known : BOOLEAN, up : BOOLEAN, age : 0 .. Interval + 1]

(* What the types say of each variable.                                     *)
LEMMA LinkTypeParts ==
  ASSUME LinkTypeOK
  PROVE  /\ tracker \in Trackers /\ hasInternet \in BOOLEAN /\ interface \in BOOLEAN
         /\ reachable \in BOOLEAN /\ heard \in 0 .. Interval + 1 /\ pause \in 0 .. LongPause
         /\ asked \in 0 .. LongPause /\ restSends \in [Background -> 0 .. 2]
         /\ turn \in Senders \cup {NoOne} /\ call \in [Threads -> Calls]
         /\ Interval \in Nat /\ Interval >= 1 /\ MaxRetries \in Nat /\ Attempts \in Nat
         /\ ShortPause \in Nat /\ LongPause \in Nat /\ ShortPause <= LongPause
         /\ \A t \in Threads : call[t] \in Calls
BY LinkAssumption DEF LinkTypeOK, Trackers, Calls

(* A call at another step is a call.                                         *)
LEMMA CallFields ==
  ASSUME NEW c \in Calls
  PROVE  /\ c.step \in CallSteps /\ c.try \in 0 .. MaxRetries + Attempts
         /\ c.since \in 0 .. Interval + 1 /\ c.sure \in BOOLEAN
         /\ \A step \in CallSteps : /\ [c EXCEPT !.step = step] \in Calls
                                   /\ [c EXCEPT !.step = step].step = step
                                   /\ [c EXCEPT !.step = step].since = c.since
                                   /\ [c EXCEPT !.step = step, !.sure = TRUE] \in Calls
BY DEF Calls

(* What a mark leaves in the tracker.                                        *)
LEMMA Marked ==
  ASSUME NEW answers \in BOOLEAN, NEW age \in 0 .. Interval + 1, Mark(answers, age)
  PROVE  tracker' \in Trackers /\ tracker'.known /\ (tracker'.up <=> answers) /\ tracker'.age = age
BY DEF Mark, Trackers

(* Every step of the link keeps the invariant.                                *)
LEMMA LinkStep == LinkInv /\ [LinkNext]_linkVars => LinkInv'
<1> SUFFICES ASSUME LinkInv, [LinkNext]_linkVars PROVE LinkInv'
  OBVIOUS
<1> USE DEF Calls, Trackers, Threads, Senders
<1>0. /\ tracker \in Trackers /\ hasInternet \in BOOLEAN /\ interface \in BOOLEAN
      /\ reachable \in BOOLEAN /\ heard \in 0 .. Interval + 1 /\ pause \in 0 .. LongPause
      /\ asked \in 0 .. LongPause /\ restSends \in [Background -> 0 .. 2]
      /\ turn \in Senders \cup {NoOne} /\ call \in [Threads -> Calls]
      /\ Interval \in Nat /\ Interval >= 1 /\ MaxRetries \in Nat /\ Attempts \in Nat
      /\ ShortPause \in Nat /\ LongPause \in Nat /\ ShortPause <= LongPause
  BY LinkTypeParts DEF LinkInv
<1>f. \A t \in Threads : call[t].since \in 0 .. Interval + 1 /\ call[t].sure \in BOOLEAN
  BY <1>0, CallFields
<1>z. 0 \in 0 .. Interval + 1 /\ TRUE \in BOOLEAN /\ FALSE \in BOOLEAN
  BY <1>0
<1>i. Resting /\ HeardWhen /\ OnlineIsRecent /\ LinkTypeOK
  BY DEF LinkInv
<1>1. ASSUME NEW t \in Threads, AskOnline(t) PROVE LinkInv'
  <2>1. LinkTypeOK'
    BY <1>0, <1>1, <1>i DEF AskOnline, LinkTypeOK, CallGoes, Silent, CallSteps
  <2>2. Resting'
    BY <1>0, <1>1, <1>i DEF AskOnline, Resting, CallGoes, Silent
  <2>3. HeardWhen'
    BY <1>0, <1>1, <1>i DEF AskOnline, HeardWhen, CallGoes, Silent, ShouldProbe
  <2>4. OnlineIsRecent'
    BY <1>0, <1>1, <1>i DEF AskOnline, OnlineIsRecent, CallGoes, Silent
  <2> QED BY <2>1, <2>2, <2>3, <2>4 DEF LinkInv
<1>2. ASSUME NEW t \in Threads, LookForInterface(t) PROVE LinkInv'
  <2>0. call[t].step = "probe" /\ UNCHANGED <<interface, reachable, heard, pause, asked, restSends, turn>>
    BY <1>2 DEF LookForInterface
  <2>1. PICK to \in {"head", "asks"} : /\ call' = [call EXCEPT ![t].step = to]
                                       /\ to = "head" => UNCHANGED <<tracker, hasInternet>>
                                       /\ to = "asks" => Mark(FALSE, call[t].since) /\ hasInternet' = FALSE
    BY <1>2 DEF LookForInterface, CallGoes
  <2>2. tracker' \in Trackers /\ hasInternet' \in BOOLEAN
    <3>1. to = "head" => tracker' \in Trackers /\ hasInternet' \in BOOLEAN
      BY <1>0, <2>1
    <3>2. to = "asks" => tracker' \in Trackers /\ hasInternet' \in BOOLEAN
      BY <1>f, <1>z, <2>1, Marked
    <3> QED BY <3>1, <3>2
  <2>3. call' \in [Threads -> Calls]
    BY <1>0, <2>1 DEF CallSteps
  <2>4. LinkTypeOK'
    BY <1>0, <1>i, <2>0, <2>2, <2>3 DEF LinkTypeOK
  <2>5. Resting'
    BY <1>0, <1>i, <2>0, <2>1 DEF Resting
  <2>6. HeardWhen'
    BY <1>0, <1>2, <1>i DEF LookForInterface, HeardWhen, CallGoes, Mark
  <2>7. OnlineIsRecent'
    BY <1>0, <1>i, <2>0, <2>1 DEF OnlineIsRecent
  <2> QED BY <2>4, <2>5, <2>6, <2>7 DEF LinkInv
<1>3. ASSUME NEW t \in Threads, HeadUpstream(t) PROVE LinkInv'
  <2>1. LinkTypeOK'
    BY <1>0, <1>3, <1>i DEF HeadUpstream, LinkTypeOK, CallGoes, CallSteps
  <2>2. Resting'
    BY <1>0, <1>3, <1>i DEF HeadUpstream, Resting, CallGoes
  <2>3. HeardWhen'
    BY <1>0, <1>3, <1>i DEF HeadUpstream, HeardWhen, CallGoes
  <2>4. OnlineIsRecent'
    BY <1>0, <1>3, <1>i DEF HeadUpstream, OnlineIsRecent, CallGoes
  <2> QED BY <2>1, <2>2, <2>3, <2>4 DEF LinkInv
<1>4. ASSUME NEW t \in Threads, MarkProbe(t) PROVE LinkInv'
  <2>0. /\ call[t].step = "mark" /\ hasInternet' = call[t].sure
        /\ tracker' = [known |-> TRUE, up |-> call[t].sure, age |-> call[t].since]
        /\ call' = [call EXCEPT ![t].step = "asks", ![t].sure = TRUE]
        /\ UNCHANGED <<interface, reachable, heard, pause, asked, restSends, turn>>
    BY <1>4 DEF MarkProbe, Mark
  <2>1. tracker' \in Trackers /\ hasInternet' \in BOOLEAN
    BY <1>0, <2>0
  <2>2. call' \in [Threads -> Calls]
    <3>1. [call[t] EXCEPT !.step = "asks", !.sure = TRUE] \in Calls
      <4>1. call[t] \in Calls /\ "asks" \in CallSteps
        BY <1>0 DEF CallSteps
      <4> QED BY <4>1, CallFields
    <3>2. call' = [call EXCEPT ![t] = [call[t] EXCEPT !.step = "asks", !.sure = TRUE]]
      BY <1>0, <2>0
    <3> QED BY <1>0, <3>1, <3>2
  <2>3. LinkTypeOK'
    BY <1>0, <1>i, <2>0, <2>1, <2>2 DEF LinkTypeOK
  <2>4. Resting'
    BY <1>0, <1>i, <2>0 DEF Resting
  <2>5. HeardWhen'
    BY <1>0, <1>i, <2>0 DEF HeardWhen
  <2>6. OnlineIsRecent'
    BY <1>0, <1>i, <2>0 DEF OnlineIsRecent
  <2> QED BY <2>3, <2>4, <2>5, <2>6 DEF LinkInv
<1>5. ASSUME NEW t \in Threads, TakeAnswer(t) PROVE LinkInv'
  <2>0. /\ call[t].step = "asks" /\ (hasInternet => tracker' = tracker)
        /\ ~hasInternet => tracker' = [known |-> TRUE, up |-> FALSE, age |-> 0]
        /\ UNCHANGED <<hasInternet, interface, reachable, heard, pause, asked, restSends, turn>>
    BY <1>5 DEF TakeAnswer, Mark
  <2>1. Online => heard <= Interval
    BY <1>0, <1>i, <2>0 DEF Online, HeardWhen
  <2>2. call' = [call EXCEPT ![t].step = "told", ![t].sure = TRUE]
    <3>1. (Online => heard <= Interval) = TRUE
      BY Zenon, <2>1
    <3> QED BY Zenon, <1>5, <3>1 DEF TakeAnswer
  <2>3. tracker' \in Trackers
    BY <1>0, <1>z, <1>5, Marked DEF TakeAnswer
  <2>4. call' \in [Threads -> Calls]
    <3>1. [call[t] EXCEPT !.step = "told", !.sure = TRUE] \in Calls
      <4>1. call[t] \in Calls /\ "told" \in CallSteps
        BY <1>0 DEF CallSteps
      <4> QED BY <4>1, CallFields
    <3>2. call' = [call EXCEPT ![t] = [call[t] EXCEPT !.step = "told", !.sure = TRUE]]
      BY <1>0, <2>2
    <3> QED BY <1>0, <3>1, <3>2
  <2>5. LinkTypeOK'
    BY <1>0, <1>i, <2>0, <2>3, <2>4 DEF LinkTypeOK
  <2>6. Resting'
    BY <1>0, <1>i, <2>0, <2>2 DEF Resting
  <2>7. HeardWhen'
    BY <1>0, <1>i, <2>0, <2>2 DEF HeardWhen
  <2>8. OnlineIsRecent'
    BY <1>0, <1>i, <2>0, <2>2 DEF OnlineIsRecent
  <2> QED BY <2>5, <2>6, <2>7, <2>8 DEF LinkInv
<1>s. Silent \in Calls /\ Silent.step = "idle" /\ Silent.since = 0 /\ Silent.sure /\ Silent.try = 0
  BY <1>0 DEF Silent, CallSteps
<1>6. ASSUME NEW t \in Threads, Learns(t) PROVE LinkInv'
  <2>0. /\ call[t].step = "told" /\ call' = [call EXCEPT ![t] = Silent]
        /\ UNCHANGED <<tracker, hasInternet, interface, reachable, heard, pause, asked, restSends, turn>>
    BY <1>6 DEF Learns
  <2>1. LinkTypeOK'
    BY <1>0, <1>i, <1>s, <2>0 DEF LinkTypeOK
  <2>2. Resting'
    BY <1>0, <1>i, <1>s, <2>0 DEF Resting
  <2>3. HeardWhen'
    BY <1>0, <1>i, <1>s, <2>0 DEF HeardWhen
  <2>4. OnlineIsRecent'
    BY <1>0, <1>i, <1>s, <2>0 DEF OnlineIsRecent
  <2> QED BY <2>1, <2>2, <2>3, <2>4 DEF LinkInv
(* What a request does before it is sent.                                    *)
<1>7. ASSUME NEW t \in Senders, BeginGet(t) \/ CheckPause(t) \/ BackOff(t) PROVE LinkInv'
  <2>0. UNCHANGED <<tracker, hasInternet, interface, reachable, heard, pause, asked, restSends, turn>>
    BY <1>7 DEF BeginGet, CheckPause, BackOff
  <2>1. PICK c \in Calls :
          /\ call' = [call EXCEPT ![t] = c] /\ c.since <= 1 /\ c.step \in {"idle", "check", "turn"}
          /\ c.step = "turn" /\ t \in Background => pause = 0
    <3>1. CASE BeginGet(t)
      <4> DEFINE c == [Silent EXCEPT !.step = "check"]
      <4>1. c \in Calls /\ c.step = "check" /\ c.since = 0
        <5>1. "check" \in CallSteps
          BY DEF CallSteps
        <5> QED BY <1>s, <5>1, CallFields
      <4>2. call' = [call EXCEPT ![t] = c]
        <5>1. call' = [call EXCEPT ![t] = [call[t] EXCEPT !.step = "check"]] /\ call[t] = Silent
          BY <3>1 DEF BeginGet, CallGoes
        <5> QED BY Zenon, <5>1
      <4> HIDE DEF c
      <4>3. c.since <= 1
        BY <4>1
      <4> QED BY Zenon, <4>1, <4>2, <4>3
    <3>2. CASE CheckPause(t)
      <4> DEFINE c == [call[t] EXCEPT !.step = "turn"]
      <4>1. c \in Calls /\ c.step = "turn" /\ c.since <= 1
        <5>1. "turn" \in CallSteps /\ call[t] \in Calls /\ call[t].since <= 1
          BY <1>0, <1>i DEF CallSteps, HeardWhen
        <5> QED BY <5>1, CallFields
      <4>2. call' = [call EXCEPT ![t] = IF t \in Background /\ pause > 0 THEN Silent ELSE c]
        BY <3>2 DEF CheckPause
      <4> HIDE DEF c
      <4>3. CASE t \in Background /\ pause > 0
        <5>1. call' = [call EXCEPT ![t] = Silent]
          BY Zenon, <4>2, <4>3
        <5>2. Silent.since <= 1
          BY <1>s
        <5> QED BY Zenon, <1>s, <5>1, <5>2
      <4>4. CASE ~(t \in Background /\ pause > 0)
        <5>1. call' = [call EXCEPT ![t] = c]
          BY Zenon, <4>2, <4>4
        <5>2. t \in Background => pause = 0
          BY <1>0, <4>4
        <5> QED BY Zenon, <4>1, <5>1, <5>2
      <4> QED BY <4>3, <4>4
    <3>3. CASE BackOff(t)
      <4>1. /\ [call[t] EXCEPT !.step = "check"] \in Calls
            /\ call' = [call EXCEPT ![t] = [call[t] EXCEPT !.step = "check"]]
            /\ [call[t] EXCEPT !.step = "check"].step = "check"
            /\ [call[t] EXCEPT !.step = "check"].since <= 1
        BY <1>0, <1>i, <3>3 DEF BackOff, CallGoes, CallSteps, HeardWhen
      <4> QED BY <4>1
    <3> QED BY <1>7, <3>1, <3>2, <3>3
  <2>2. \A u \in Threads : call'[u] = IF u = t THEN c ELSE call[u]
    BY <1>0, <2>1
  <2>3. LinkTypeOK'
    BY <1>0, <1>i, <2>0, <2>1 DEF LinkTypeOK
  <2>4. Resting'
    BY <1>0, <1>i, <2>0, <2>1, <2>2 DEF Resting
  <2>5. HeardWhen'
    BY <1>0, <1>i, <2>0, <2>1, <2>2 DEF HeardWhen
  <2>6. OnlineIsRecent'
    BY <1>0, <1>i, <2>0, <2>1, <2>2 DEF OnlineIsRecent
  <2> QED BY <2>3, <2>4, <2>5, <2>6 DEF LinkInv
<1>8. ASSUME NEW t \in Senders, TakeTurn(t) PROVE LinkInv'
  <2>1. /\ turn' = t
        /\ UNCHANGED <<tracker, hasInternet, interface, reachable, heard, pause, asked, restSends, call>>
    BY <1>8 DEF TakeTurn
  <2> QED BY <1>0, <1>i, <2>1 DEF LinkInv, LinkTypeOK, Resting, HeardWhen, OnlineIsRecent
<1>9. ASSUME NEW t \in Senders, PassThrottle(t) PROVE LinkInv'
  <2>0. /\ call[t].step = "turn" /\ turn' = NoOne /\ call' = [call EXCEPT ![t].step = "send"]
        /\ restSends' = IF t \in Background /\ asked > 0
                        THEN [restSends EXCEPT ![t] = IF @ < 2 THEN @ + 1 ELSE @] ELSE restSends
        /\ UNCHANGED <<tracker, hasInternet, interface, reachable, heard, pause, asked>>
    BY <1>9 DEF PassThrottle, CallGoes
  <2>1. call' \in [Threads -> Calls]
    BY <1>0, <2>0 DEF CallSteps
  <2>2. \A u \in Background : restSends'[u] = IF u = t /\ asked > 0 THEN 1 ELSE restSends[u]
    <3>1. \A u \in Background : u = t => restSends[u] = 0
      BY <1>0, <1>i, <2>0 DEF Resting
    <3> QED BY <1>0, <2>0, <3>1
  <2>3. restSends' \in [Background -> 0 .. 2]
    BY <1>0, <2>0, <2>2
  <2>4. LinkTypeOK'
    BY <1>0, <1>i, <2>0, <2>1, <2>3 DEF LinkTypeOK
  <2>5. Resting'
    BY <1>0, <1>i, <2>0, <2>2 DEF Resting
  <2>6. HeardWhen'
    BY <1>0, <1>i, <2>0 DEF HeardWhen
  <2>7. OnlineIsRecent'
    BY <1>0, <1>i, <2>0 DEF OnlineIsRecent
  <2> QED BY <2>4, <2>5, <2>6, <2>7 DEF LinkInv
(* An answer, or none: the tracker is marked at this moment.                  *)
<1>10. ASSUME NEW t \in Senders, NEW c \in Calls, call' = [call EXCEPT ![t] = c],
              c.since <= 1, c.step \in {"idle", "backoff"},
              \/ heard' = 0 /\ Mark(TRUE, 0)
              \/ heard' = heard /\ Mark(FALSE, 0),
              UNCHANGED <<hasInternet, interface, reachable, restSends, turn>>,
              pause' \in 0 .. LongPause, asked' \in 0 .. LongPause, pause' >= asked',
              asked' >= asked
       PROVE  LinkInv'
  <2>1. tracker' \in Trackers /\ heard' \in 0 .. Interval + 1 /\ heard' <= heard
        /\ tracker'.age = 0 /\ tracker'.known /\ (tracker'.up => heard' = 0)
    <3>1. tracker' \in Trackers /\ tracker'.age = 0 /\ tracker'.known
          /\ (tracker'.up => heard' = 0)
      <4>1. CASE heard' = 0 /\ Mark(TRUE, 0)
        BY <1>z, <4>1, Marked
      <4>2. CASE heard' = heard /\ Mark(FALSE, 0)
        BY <1>z, <4>2, Marked
      <4> QED BY <1>10, <4>1, <4>2
    <3>2. heard' = 0 \/ heard' = heard
      BY <1>10
    <3> QED BY <1>0, <3>1, <3>2
  <2>2. \A u \in Threads : call'[u] = IF u = t THEN c ELSE call[u]
    BY <1>0, <1>10
  <2>3. call' \in [Threads -> Calls]
    BY <1>0, <1>10
  <2>4. LinkTypeOK'
    BY <1>0, <1>10, <1>i, <2>1, <2>3 DEF LinkTypeOK
  <2>5. Resting'
    BY <1>0, <1>10, <1>i, <2>2 DEF Resting
  <2>6. HeardWhen'
    BY <1>0, <1>10, <1>i, <2>1, <2>2 DEF HeardWhen
  <2>7. OnlineIsRecent'
    BY <1>0, <1>10, <1>i, <2>2 DEF OnlineIsRecent
  <2> QED BY <2>4, <2>5, <2>6, <2>7 DEF LinkInv
<1>11. ASSUME NEW t \in Senders, Answered(t) \/ Failed(t) PROVE LinkInv'
  <2>1. pause \in 0 .. LongPause /\ asked \in 0 .. LongPause /\ pause >= asked
    BY <1>0, <1>i DEF Resting
  <2>2. call' = [call EXCEPT ![t] = Silent] /\ Silent.since <= 1
    <3>1. call' = [call EXCEPT ![t] = Silent]
      BY Zenon, <1>11 DEF Answered, Failed
    <3> QED BY <1>s, <3>1
  <2>3. /\ \/ heard' = 0 /\ Mark(TRUE, 0)
           \/ heard' = heard /\ Mark(FALSE, 0)
        /\ UNCHANGED <<hasInternet, interface, reachable, restSends, turn, pause, asked>>
    BY <1>11 DEF Answered, Failed
  <2>4. asked' >= asked
    BY <1>0, <2>3
  <2> QED BY <1>10, <1>s, <2>1, <2>2, <2>3, <2>4
<1>12. ASSUME NEW t \in Senders, RateLimited(t) PROVE LinkInv'
  <2>1. PICK length \in {ShortPause, LongPause} :
          /\ pause' = IF pause > length THEN pause ELSE length
          /\ asked' = IF asked > length THEN asked ELSE length
    BY <1>12 DEF RateLimited, PauseAfter
  <2>2. pause' \in 0 .. LongPause /\ asked' \in 0 .. LongPause /\ pause' >= asked' /\ asked' >= asked
    BY <1>0, <1>i, <2>1 DEF Resting
  <2>3. PICK c \in Calls : call' = [call EXCEPT ![t] = c] /\ c.since <= 1
                           /\ c.step \in {"idle", "backoff"}
    <3> DEFINE again == [call[t] EXCEPT !.step = "backoff", !.try = @ + 1]
    <3>1. call[t].try < MaxRetries => again \in Calls
      <4>1. call[t] \in Calls /\ "backoff" \in CallSteps
        BY <1>0 DEF CallSteps
      <4>2. call[t].try < MaxRetries => call[t].try + 1 \in 0 .. MaxRetries + Attempts
        BY <1>0, <4>1
      <4> QED BY <4>1, <4>2
    <3>2. again.step = "backoff" /\ again.since = call[t].since /\ call[t].since <= 1
      BY <1>0, <1>i DEF HeardWhen
    <3>3. call' = [call EXCEPT ![t] =
                     IF t \notin Background /\ call[t].try < MaxRetries THEN again ELSE Silent]
      BY <1>12 DEF RateLimited
    <3> HIDE DEF again
    <3>4. CASE t \notin Background /\ call[t].try < MaxRetries
      BY <3>1, <3>2, <3>3, <3>4
    <3>5. CASE ~(t \notin Background /\ call[t].try < MaxRetries)
      <4>1. call' = [call EXCEPT ![t] = Silent]
        BY Zenon, <3>3, <3>5
      <4>2. Silent.since <= 1
        BY <1>s
      <4> QED BY Zenon, <1>s, <4>1, <4>2
    <3> QED BY <3>4, <3>5
  <2>4. heard' = 0 /\ Mark(TRUE, 0) /\ UNCHANGED <<hasInternet, interface, reachable, restSends, turn>>
    BY <1>12 DEF RateLimited
  <2> QED BY <1>10, <2>2, <2>3, <2>4
<1>13. CASE Tick
  <2>0. /\ \A t \in Threads : call[t].step \in {"probe", "head", "mark"} => call[t].since = 0
        /\ \A t \in Threads : call[t].step \notin {"asks", "told"}
        /\ tracker' = [tracker EXCEPT !.age = IF tracker.known THEN Cap(@ + 1) ELSE @]
        /\ heard' = Cap(heard + 1)
        /\ call' = [t \in Threads |-> IF call[t].step \in {"probe", "head", "mark"}
                                      THEN [call[t] EXCEPT !.since = 1] ELSE call[t]]
        /\ UNCHANGED <<hasInternet, interface, reachable, pause, asked, restSends, turn>>
    BY <1>13 DEF Tick
  <2>1. /\ tracker' \in Trackers /\ tracker'.up = tracker.up /\ tracker'.known = tracker.known
        /\ tracker.known => tracker'.age = Cap(tracker.age + 1)
        /\ heard' \in 0 .. Interval + 1
    BY <1>0, <2>0 DEF Cap
  <2>2. \A t \in Threads : /\ call'[t] \in Calls
                           /\ call'[t].step = call[t].step /\ call'[t].sure = call[t].sure
                           /\ call'[t].since = IF call[t].step \in {"probe", "head", "mark"} THEN 1
                                               ELSE call[t].since
    BY <1>0, <2>0
  <2>3. call' \in [Threads -> Calls]
    BY <2>0, <2>2
  <2>4. LinkTypeOK'
    BY <1>0, <1>i, <2>0, <2>1, <2>3 DEF LinkTypeOK
  <2>5. Resting'
    BY <1>0, <1>i, <2>0, <2>2 DEF Resting
  <2>6. HeardWhen'
    <3>1. tracker'.up => tracker'.known /\ heard' <= tracker'.age
      BY <1>0, <1>i, <2>0, <2>1 DEF HeardWhen, Cap
    <3>2. ASSUME NEW t \in Threads
          PROVE  /\ call'[t].since <= 1
                 /\ call'[t].step = "mark" /\ call'[t].sure => heard' <= call'[t].since
                 /\ call'[t].step \in {"probe", "head"} => call'[t].sure
                 /\ call'[t].step # "asks"
      BY <1>0, <1>i, <2>0, <2>2 DEF HeardWhen, Cap
    <3> QED BY <3>1, <3>2 DEF HeardWhen
  <2>7. OnlineIsRecent'
    BY <2>0, <2>2 DEF OnlineIsRecent
  <2> QED BY <2>4, <2>5, <2>6, <2>7 DEF LinkInv
<1>14. CASE PauseTick
  <2>0. /\ pause' = IF pause > 0 THEN pause - 1 ELSE 0
        /\ asked' = IF asked > 0 THEN asked - 1 ELSE 0
        /\ restSends' = IF asked <= 1 THEN [t \in Background |-> 0] ELSE restSends
        /\ UNCHANGED <<tracker, hasInternet, interface, reachable, heard, turn, call>>
    BY <1>14 DEF PauseTick
  <2>1. pause' \in 0 .. LongPause /\ asked' \in 0 .. LongPause /\ restSends' \in [Background -> 0 .. 2]
    BY <1>0, <2>0
  <2>2. LinkTypeOK'
    BY <1>i, <2>0, <2>1 DEF LinkTypeOK
  <2>3. Resting'
    BY <1>0, <1>i, <2>0 DEF Resting
  <2> QED BY <1>i, <2>0, <2>2, <2>3 DEF LinkInv, HeardWhen, OnlineIsRecent
<1>15. CASE ReachChanges
  <2>1. /\ reachable' \in BOOLEAN /\ interface' \in BOOLEAN
        /\ UNCHANGED <<tracker, hasInternet, heard, pause, asked, restSends, turn, call>>
    BY <1>0, <1>15 DEF ReachChanges
  <2> QED BY <1>i, <2>1 DEF LinkInv, LinkTypeOK, Resting, HeardWhen, OnlineIsRecent
<1>16. CASE UNCHANGED linkVars
  BY <1>i, <1>16 DEF linkVars, LinkInv, LinkTypeOK, Resting, HeardWhen, OnlineIsRecent
<1> QED BY <1>1, <1>2, <1>3, <1>4, <1>5, <1>6, <1>7, <1>8, <1>9, <1>11, <1>12, <1>13, <1>14, <1>15,
           <1>16 DEF LinkNext

(* The invariant holds at every state.                                      *)
LEMMA LinkInvariant == LinkSpec => []LinkInv
<1>1. LinkInit => LinkInv
  <2> SUFFICES ASSUME LinkInit PROVE LinkInv
    OBVIOUS
  <2>0. Interval \in Nat /\ Interval >= 1 /\ MaxRetries \in Nat /\ Attempts \in Nat
        /\ LongPause \in Nat
    BY LinkAssumption
  <2>1. Silent \in Calls /\ Silent.step = "idle" /\ Silent.since = 0 /\ Silent.sure
    BY <2>0 DEF Silent, CallSteps, Calls
  <2>2. LinkTypeOK
    <3>1. call \in [Threads -> Calls] /\ heard \in 0 .. Interval + 1 /\ pause \in 0 .. LongPause
          /\ asked \in 0 .. LongPause /\ restSends \in [Background -> 0 .. 2]
          /\ tracker \in Trackers
      BY <2>0, <2>1 DEF LinkInit, Trackers
    <3> QED BY <3>1 DEF LinkInit, LinkTypeOK, Calls, Trackers
  <2>3. Resting /\ HeardWhen /\ OnlineIsRecent
    BY <2>1 DEF LinkInit, Resting, HeardWhen, OnlineIsRecent
  <2> QED BY <2>2, <2>3 DEF LinkInv
<1> QED BY <1>1, LinkStep, PTL DEF LinkSpec

(* Every variable of the link keeps to its type.                             *)
THEOREM LinkTyped == LinkSpec => []LinkTypeOK
<1>1. LinkInv => LinkTypeOK
  BY DEF LinkInv
<1> QED BY <1>1, LinkInvariant, PTL

(* A background thread sends at most one request into the rest the server asked  *)
(* for, and who is told that the device is online can rely on a recent answer,  *)
(* whatever the other threads do in between (network.py, rate_limit.py).        *)
THEOREM LinkIsKept == LinkSpec => []LinkKept
<1>1. ASSUME LinkInv PROVE LinkKept
  <2>1. BackgroundRests
    BY <1>1 DEF LinkInv, LinkTypeOK, Resting, BackgroundRests
  <2> QED BY <1>1, <2>1 DEF LinkInv, LinkKept
<1> QED BY <1>1, LinkInvariant, PTL

-----------------------------------------------------------------------------
Decided == {"location", "script", "entry", "enableLocation", "enableScript", "register", "oneWay"}
Removal == {"removeEntry", "removeLauncher", "remember"}
ProcSteps == {"nothing", "refresh", "decide"} \cup Decided \cup Removal

(* No two folders are in one place, and no two drives have one letter.        *)
OwnPlaces == /\ \A f, g \in Folders : at[f] # Nowhere /\ at[f] = at[g] => f = g
             /\ \A v, w \in Volumes : letter[v] # Unplugged /\ letter[v] = letter[w] => v = w

(* Only the first folder was ever undecided, and then there is no other.       *)
AloneUndecided == \A f, g \in Folders :
  at[f] # Nowhere /\ config[f].setting = "unset" /\ at[g] # Nowhere => f = g

(* What the process has made sure of at each of its steps.                     *)
ProcKnows ==
  /\ proc \in [folder : Folders, next : ProcSteps]
  /\ proc.next # "nothing" => Present(proc.folder)
  /\ proc.next \in Decided \cup {"decide"} => ~config[proc.folder].removed
  /\ proc.next \in Decided => config[proc.folder].setting # "unset"
  /\ proc.next \in Removal => chosen[proc.folder] = "either" /\ ~task
  /\ proc.next \in {"removeLauncher", "remember"} => ~Installed
  /\ proc.next = "remember" => location = NoLocation /\ ~startScript

CheckInv == /\ CheckTypeOK /\ OwnPlaces /\ AloneUndecided /\ ProcKnows
            /\ UserDecides /\ RemovedIsGone

(* What the types say of each variable.                                     *)
LEMMA CheckTypeParts ==
  ASSUME CheckInv
  PROVE  /\ at \in [Folders -> (Volumes \X Paths) \cup {Nowhere}]
         /\ letter \in [Volumes -> Letters \cup {Unplugged}]
         /\ id \in [Folders -> Folders \cup {NoId}]
         /\ config \in [Folders -> [setting : {"unset", "on", "off"}, removed : BOOLEAN]]
         /\ runEntry \in BOOLEAN /\ task \in BOOLEAN /\ startScript \in BOOLEAN
         /\ location \in Locations \/ location = NoLocation
         /\ chosen \in [Folders -> {"on", "off", "either"}]
         /\ proc \in [folder : Folders, next : ProcSteps]
         /\ \A f \in Folders : /\ config[f].setting \in {"unset", "on", "off"}
                               /\ config[f].removed \in BOOLEAN
BY DEF CheckInv, CheckTypeOK, ProcKnows

(* A place is not nowhere.                                                  *)
LEMMA PlacesAreReal == \A place \in Volumes \X Paths : place # Nowhere
BY DEF Nowhere

(* While the process writes what a decided folder needs, every folder is      *)
(* decided, so the windows side decides nothing, and one is not removed.      *)
LEMMA DecidedStays ==
  ASSUME CheckInv, proc.next \in Decided, UNCHANGED <<at, letter, config, chosen>>
  PROVE  OwnPlaces' /\ AloneUndecided' /\ UserDecides' /\ RemovedIsGone'
<1>0. /\ config \in [Folders -> [setting : {"unset", "on", "off"}, removed : BOOLEAN]]
      /\ proc \in [folder : Folders, next : ProcSteps] /\ proc.folder \in Folders
  BY CheckTypeParts
<1>i. OwnPlaces /\ AloneUndecided /\ ProcKnows /\ UserDecides
  BY DEF CheckInv
<1>1. OwnPlaces' /\ AloneUndecided'
  BY <1>i DEF OwnPlaces, AloneUndecided
<1>2. /\ at[proc.folder] # Nowhere /\ config[proc.folder].setting # "unset"
      /\ ~config[proc.folder].removed
  BY <1>i DEF ProcKnows, Present, Decided
<1>3. UserDecides'
  <2>1. ASSUME NEW f \in Folders, at[f] # Nowhere PROVE Enabled(f)' <=> Enabled(f)
    <3>1. config[f].setting # "unset"
      BY Zenon, <1>0, <1>2, <1>i, <2>1 DEF AloneUndecided
    <3> QED BY <3>1 DEF Enabled
  <2> QED BY <1>i, <2>1 DEF UserDecides
<1>4. RemovedIsGone'
  BY <1>0, <1>2 DEF RemovedIsGone
<1> QED BY <1>1, <1>3, <1>4

(* Nothing but the process moves on.                                         *)
LEMMA ProcMoves ==
  ASSUME CheckInv, UNCHANGED <<at, letter, id, config, windows, chosen>>, ProcKnows'
  PROVE  CheckInv'
<1>1. CheckTypeOK' /\ OwnPlaces' /\ AloneUndecided' /\ UserDecides' /\ RemovedIsGone'
  BY DEF CheckInv, windows, CheckTypeOK, OwnPlaces, AloneUndecided, UserDecides, RemovedIsGone,
         Enabled, Installed
<1> QED BY <1>1 DEF CheckInv

(* Every step of the sign-in check keeps the invariant.                       *)
LEMMA CheckStep ==
  ASSUME ~TwiceUnpacked, CheckInv, [SignInCheckNext]_checkVars
  PROVE  CheckInv'
<1>0. /\ at \in [Folders -> (Volumes \X Paths) \cup {Nowhere}]
      /\ letter \in [Volumes -> Letters \cup {Unplugged}]
      /\ id \in [Folders -> Folders \cup {NoId}]
      /\ config \in [Folders -> [setting : {"unset", "on", "off"}, removed : BOOLEAN]]
      /\ runEntry \in BOOLEAN /\ task \in BOOLEAN /\ startScript \in BOOLEAN
      /\ location \in Locations \/ location = NoLocation
      /\ chosen \in [Folders -> {"on", "off", "either"}]
      /\ proc \in [folder : Folders, next : ProcSteps]
  BY CheckTypeParts
<1>c. \A f \in Folders : config[f].setting \in {"unset", "on", "off"} /\ config[f].removed \in BOOLEAN
  BY CheckTypeParts
<1>i. /\ CheckTypeOK /\ OwnPlaces /\ AloneUndecided /\ ProcKnows /\ UserDecides
      /\ RemovedIsGone
  BY DEF CheckInv
<1>n. /\ \A f \in Folders, step \in ProcSteps :
           [folder |-> f, next |-> step] \in [folder : Folders, next : ProcSteps]
      /\ Free \in [folder : Folders, next : ProcSteps] /\ Free.next = "nothing"
  BY FirstAssumption DEF Free, ProcSteps
<1>k. Free.next \notin Decided \cup Removal \cup {"decide", "refresh"}
  BY <1>n DEF Decided, Removal
<1>e. ASSUME proc' = Free PROVE ProcKnows'
  BY <1>n, <1>k, <1>e DEF ProcKnows, Removal
(* The process goes on without a change of Windows' files or of the folders.   *)
<1>1. ASSUME NEW f \in Folders, Start(f) PROVE CheckInv'
  <2>1. /\ proc' = [folder |-> f, next |-> "refresh"] /\ Present(f)
        /\ UNCHANGED <<at, letter, id, config, windows, chosen>>
    BY <1>1 DEF Start, Goes, world
  <2>2. ProcKnows'
    BY <2>1 DEF ProcKnows, Present, ProcSteps, Decided, Removal
  <2> QED BY <2>1, <2>2, ProcMoves
<1>2. ASSUME SignIn PROVE CheckInv'
  <2>1. PICK f \in Picked : proc' = [folder |-> f, next |-> "refresh"]
    BY <1>2 DEF SignIn, Goes
  <2>2. f \in Folders /\ Present(f)
    BY <2>1 DEF Picked, Under
  <2>3. UNCHANGED <<at, letter, id, config, windows, chosen>>
    BY <1>2 DEF SignIn, world
  <2>4. ProcKnows'
    BY <2>1, <2>2, <2>3 DEF ProcKnows, Present, ProcSteps, Decided, Removal
  <2> QED BY <2>3, <2>4, ProcMoves
<1>3. ASSUME NEW f \in Folders, Refresh(f) PROVE CheckInv'
  <2>1. /\ proc.folder = f /\ proc.next = "refresh"
        /\ UNCHANGED <<at, letter, id, config, windows, chosen>>
        /\ CheckRemoved(f) => proc' = Free
        /\ ~CheckRemoved(f) => proc' = [folder |-> f, next |-> FirstStep(f)]
    BY <1>3 DEF Refresh, At, Goes, Ends, world
  <2>2. CASE CheckRemoved(f)
    BY <1>e, <2>1, <2>2, ProcMoves
  <2>3. CASE ~CheckRemoved(f)
    <3>1. Present(f)
      BY <1>i, <2>1 DEF ProcKnows
    <3>2. FirstStep(f) \in {"decide", "location"}
          /\ (FirstStep(f) = "location" => config[f].setting # "unset")
      BY DEF FirstStep
    <3>3. ProcKnows'
      BY <1>n, <2>1, <2>3, <3>1, <3>2 DEF ProcKnows, Present, ProcSteps, Decided, Removal, CheckRemoved
    <3> QED BY <2>1, <3>3, ProcMoves
  <2> QED BY <2>2, <2>3
<1>4. ASSUME Cut PROVE CheckInv'
  BY <1>4, <1>e, ProcMoves DEF Cut, Ends
(* An undecided folder is the only one, and is decided as a sign-in would treat it. *)
<1>5. ASSUME NEW f \in Folders, Decide(f) PROVE CheckInv'
  <2>1. /\ proc.folder = f /\ proc.next = "decide"
        /\ config' = [config EXCEPT ![f].setting = IF Enabled(f) THEN "on" ELSE "off"]
        /\ proc' = [folder |-> f, next |-> "location"]
        /\ UNCHANGED <<at, letter, id, windows, chosen>>
    BY <1>5 DEF Decide, At, Goes, world
  <2>2. Present(f) /\ ~config[f].removed
    BY <1>i, <2>1 DEF ProcKnows
  <2>3. /\ config' \in [Folders -> [setting : {"unset", "on", "off"}, removed : BOOLEAN]]
        /\ config'[f].setting = (IF Enabled(f) THEN "on" ELSE "off")
        /\ \A g \in Folders : /\ config'[g].removed = config[g].removed
                              /\ g # f => config'[g] = config[g]
    BY <1>0, <2>1
  <2>4. CheckTypeOK'
    BY <1>i, <2>1, <2>3 DEF CheckTypeOK, windows
  <2>5. OwnPlaces' /\ RemovedIsGone'
    BY <1>i, <2>1, <2>3 DEF OwnPlaces, RemovedIsGone, windows, Installed
  <2>6. AloneUndecided'
    BY <1>i, <2>1, <2>3 DEF AloneUndecided
  <2>7. ProcKnows'
    BY <1>n, <2>1, <2>2, <2>3 DEF ProcKnows, Present, ProcSteps, Decided, Removal
  <2>8. UserDecides'
    <3>1. Enabled(f)' <=> Enabled(f)
      BY <2>3 DEF Enabled
    <3>2. \A g \in Folders : g # f => (Enabled(g)' <=> Enabled(g))
      BY <2>1, <2>3 DEF Enabled, Installed, windows
    <3> QED BY <1>i, <2>1, <3>1, <3>2 DEF UserDecides
  <2> QED BY <2>4, <2>5, <2>6, <2>7, <2>8 DEF CheckInv
(* A decided folder writes the launcher and the entry.                          *)
<1>w. ASSUME NEW f \in Folders, NEW step \in Decided, proc.folder = f, proc.next \in Decided,
             WriteLocation(f, step)
      PROVE  CheckInv'
  <2>1. /\ location' = [id |-> IF id[f] = NoId THEN f ELSE id[f], volume |-> at[f][1],
                        path |-> at[f][2], letter |-> letter[at[f][1]]]
        /\ id' = [id EXCEPT ![f] = IF id[f] = NoId THEN f ELSE id[f]]
        /\ proc' = [folder |-> f, next |-> step]
        /\ UNCHANGED <<at, letter, config, runEntry, task, startScript, chosen>>
    BY <1>w DEF WriteLocation, Goes, world
  <2>2. Present(f) /\ ~config[f].removed /\ config[f].setting # "unset"
    BY <1>i, <1>w DEF ProcKnows, Decided
  <2>3. (IF id[f] = NoId THEN f ELSE id[f]) \in Folders
    BY <1>0
  <2>4. location' \in Locations
    <3>1. at[f] \in Volumes \X Paths
      BY <1>0, <2>2 DEF Present
    <3>2. at[f][1] \in Volumes /\ at[f][2] \in Paths
      BY <3>1
    <3>3. letter[at[f][1]] \in Letters
      BY <1>0, <2>2, <3>2 DEF Present
    <3> HIDE DEF Locations
    <3> QED BY <2>1, <2>3, <3>2, <3>3 DEF Locations
  <2>5. CheckTypeOK'
    BY <1>0, <1>i, <2>1, <2>3, <2>4 DEF CheckTypeOK
  <2>6. ProcKnows'
    BY <1>n, <2>1, <2>2 DEF ProcKnows, Present, ProcSteps, Decided, Removal
  <2>7. OwnPlaces' /\ AloneUndecided' /\ UserDecides' /\ RemovedIsGone'
    BY <1>w, <2>1, DecidedStays
  <2> QED BY <2>5, <2>6, <2>7 DEF CheckInv
(* The other steps of a decided folder.                                        *)
<1>s. ASSUME NEW f \in Folders, proc.folder = f, proc.next \in Decided,
             \/ proc' = Free
             \/ \E step \in Decided : proc' = [folder |-> f, next |-> step],
             runEntry' \in BOOLEAN, task' \in BOOLEAN, startScript' \in BOOLEAN,
             UNCHANGED <<at, letter, id, config, location, chosen>>
      PROVE  CheckInv'
  <2>1. Present(f) /\ ~config[f].removed /\ config[f].setting # "unset"
    BY <1>i, <1>s DEF ProcKnows, Decided
  <2>2. CheckTypeOK'
    BY <1>i, <1>s DEF CheckTypeOK
  <2>3. ProcKnows'
    <3>1. CASE proc' = Free
      BY <1>e, <3>1
    <3>2. ASSUME NEW step \in Decided, proc' = [folder |-> f, next |-> step] PROVE ProcKnows'
      BY <1>n, <1>s, <2>1, <3>2 DEF ProcKnows, Present, ProcSteps, Decided, Removal
    <3> QED BY <1>s, <3>1, <3>2
  <2>4. OwnPlaces' /\ AloneUndecided' /\ UserDecides' /\ RemovedIsGone'
    BY <1>s, DecidedStays
  <2> QED BY <2>2, <2>3, <2>4 DEF CheckInv
<1>6. ASSUME NEW f \in Folders, Ensure(f) PROVE CheckInv'
  <2>1. CASE At(f, "location") /\ WriteLocation(f, "script")
    BY <1>w, <2>1 DEF At, Decided
  <2>2. CASE At(f, "script") /\ WriteScript(f, "entry")
    BY <1>0, <1>s, <2>2 DEF At, Decided, WriteScript, Goes, world
  <2>3. CASE At(f, "entry") /\ ~(\/ At(f, "location") \/ At(f, "script"))
    BY <1>0, <1>6, <1>s, <2>3 DEF Ensure, At, Decided, Ends, world
  <2> QED BY <1>6, <2>1, <2>2, <2>3 DEF Ensure, At
<1>7. ASSUME NEW f \in Folders, Enabling(f) PROVE CheckInv'
  <2>1. CASE At(f, "enableLocation")
    <3>1. WriteLocation(f, "enableScript")
      BY <1>7, <2>1 DEF Enabling, At
    <3> QED BY <1>w, <2>1, <3>1 DEF At, Decided
  <2>2. CASE At(f, "enableScript")
    <3>1. WriteScript(f, "register")
      BY <1>7, <2>2 DEF Enabling, At
    <3> QED BY <1>0, <1>s, <2>2, <3>1 DEF At, Decided, WriteScript, Goes, world
  <2>3. CASE At(f, "register")
    <3>1. /\ UNCHANGED <<at, letter, id, config, location, startScript, chosen>>
          /\ runEntry' \in BOOLEAN /\ task' \in BOOLEAN
          /\ proc' = Free \/ proc' = [folder |-> f, next |-> "oneWay"]
      BY <1>0, <1>7, <2>3 DEF Enabling, At, Ends, Goes, world, windows
    <3>2. proc.folder = f /\ proc.next \in Decided /\ "oneWay" \in Decided /\ startScript' \in BOOLEAN
      BY <1>0, <2>3, <3>1 DEF At, Decided
    <3> QED BY <1>s, <3>1, <3>2
  <2>4. CASE At(f, "oneWay")
    <3>1. /\ UNCHANGED <<at, letter, id, config, task, location, startScript, chosen>>
          /\ runEntry' = FALSE /\ proc' = Free
      BY <1>7, <2>4 DEF Enabling, At, Ends, world
    <3>2. proc.folder = f /\ proc.next = "oneWay" /\ "oneWay" \in Decided
      BY <2>4 DEF At, Decided
    <3> QED BY <1>0, <1>s, <3>1, <3>2
  <2> QED BY <1>7, <2>1, <2>2, <2>3, <2>4 DEF Enabling
(* What the user turns on or off is what is stored.                              *)
<1>8. ASSUME NEW f \in Folders, Enable(f) PROVE CheckInv'
  <2>1. /\ proc = Free /\ Present(f)
        /\ config' = [config EXCEPT ![f] = [setting |-> "on", removed |-> FALSE]]
        /\ chosen' = [chosen EXCEPT ![f] = "on"]
        /\ proc' = [folder |-> f, next |-> "enableLocation"]
        /\ UNCHANGED <<at, letter, id, windows>>
    BY <1>8 DEF Enable, Goes, world
  <2>2. /\ config' \in [Folders -> [setting : {"unset", "on", "off"}, removed : BOOLEAN]]
        /\ chosen' \in [Folders -> {"on", "off", "either"}]
        /\ config'[f].setting = "on" /\ ~config'[f].removed /\ chosen'[f] = "on"
        /\ \A g \in Folders : g # f => config'[g] = config[g] /\ chosen'[g] = chosen[g]
    BY <1>0, <2>1
  <2>3. CheckTypeOK'
    BY <1>i, <2>1, <2>2 DEF CheckTypeOK, windows
  <2>4. OwnPlaces' /\ AloneUndecided'
    BY <1>i, <2>1, <2>2 DEF OwnPlaces, AloneUndecided
  <2>5. ProcKnows'
    BY <1>n, <2>1, <2>2 DEF ProcKnows, Present, ProcSteps, Decided, Removal
  <2>6. UserDecides'
    <3>1. \A g \in Folders : g # f => (Enabled(g)' <=> Enabled(g))
      BY <2>1, <2>2 DEF Enabled, Installed, windows
    <3>2. Enabled(f)'
      BY <2>2 DEF Enabled
    <3> QED BY <1>i, <2>1, <2>2, <3>1, <3>2 DEF UserDecides
  <2>7. RemovedIsGone'
    BY <2>1, <2>2 DEF RemovedIsGone, Present
  <2> QED BY <2>3, <2>4, <2>5, <2>6, <2>7 DEF CheckInv
<1>9. ASSUME NEW f \in Folders, Disable(f) PROVE CheckInv'
  <2>1. /\ proc = Free /\ proc' = proc
        /\ config' = [config EXCEPT ![f].setting = "off"]
        /\ chosen' = [chosen EXCEPT ![f] = "off"]
        /\ UNCHANGED <<at, letter, id, windows>>
    BY <1>9 DEF Disable, world
  <2>2. /\ config' \in [Folders -> [setting : {"unset", "on", "off"}, removed : BOOLEAN]]
        /\ chosen' \in [Folders -> {"on", "off", "either"}]
        /\ config'[f].setting = "off" /\ config'[f].removed = config[f].removed
        /\ chosen'[f] = "off"
        /\ \A g \in Folders : g # f => config'[g] = config[g] /\ chosen'[g] = chosen[g]
    BY <1>0, <2>1
  <2>3. CheckTypeOK'
    BY <1>i, <2>1, <2>2 DEF CheckTypeOK, windows
  <2>4. OwnPlaces' /\ AloneUndecided'
    BY <1>i, <2>1, <2>2 DEF OwnPlaces, AloneUndecided
  <2>5. ProcKnows'
    BY <1>e, <2>1
  <2>6. UserDecides'
    <3>1. \A g \in Folders : g # f => (Enabled(g)' <=> Enabled(g))
      BY <2>1, <2>2 DEF Enabled, Installed, windows
    <3>2. ~Enabled(f)'
      BY <2>2 DEF Enabled
    <3> QED BY <1>i, <2>1, <2>2, <3>1, <3>2 DEF UserDecides
  <2>7. RemovedIsGone'
    BY <1>i, <2>1, <2>2 DEF RemovedIsGone, Installed, windows
  <2> QED BY <2>3, <2>4, <2>5, <2>6, <2>7 DEF CheckInv
(* While the check is removed, the user may get either.                          *)
<1>10. ASSUME NEW f \in Folders, RemoveCheck(f) PROVE CheckInv'
  <2>1. /\ proc = Free /\ Present(f) /\ task' = FALSE
        /\ chosen' = [chosen EXCEPT ![f] = "either"]
        /\ proc' = [folder |-> f, next |-> "removeEntry"]
        /\ UNCHANGED <<at, letter, id, config, runEntry, location, startScript>>
    BY <1>10 DEF RemoveCheck, Goes, world
  <2>2. /\ chosen' \in [Folders -> {"on", "off", "either"}] /\ chosen'[f] = "either"
        /\ \A g \in Folders : g # f => chosen'[g] = chosen[g]
    BY <1>0, <2>1
  <2>3. CheckTypeOK'
    BY <1>i, <2>1, <2>2 DEF CheckTypeOK
  <2>4. OwnPlaces' /\ AloneUndecided'
    BY <1>i, <2>1 DEF OwnPlaces, AloneUndecided
  <2>5. ProcKnows'
    BY <1>n, <2>1, <2>2 DEF ProcKnows, Present, ProcSteps, Decided, Removal
  <2>6. UserDecides'
    <3>1. \A g \in Folders : g # f /\ at[g] # Nowhere => config[g].setting # "unset"
      BY Zenon, <1>i, <2>1 DEF AloneUndecided, Present
    <3>2. \A g \in Folders : g # f /\ at[g] # Nowhere => (Enabled(g)' <=> Enabled(g))
      BY <2>1, <3>1 DEF Enabled
    <3> QED BY <1>i, <2>1, <2>2, <3>2 DEF UserDecides
  <2>7. RemovedIsGone'
    BY <1>i, <2>1 DEF RemovedIsGone, Installed
  <2> QED BY <2>3, <2>4, <2>5, <2>6, <2>7 DEF CheckInv
<1>11. ASSUME NEW f \in Folders, Removing(f) PROVE CheckInv'
  <2>0. proc.next \in Removal => /\ at[proc.folder] # Nowhere
                                 /\ chosen[proc.folder] = "either" /\ task = FALSE
    BY <1>i DEF ProcKnows, Present, Removal
  <2>1. CASE proc.next # "remember"
    <3>1. /\ proc.folder = f /\ proc.next \in {"removeEntry", "removeLauncher"}
          /\ UNCHANGED <<at, letter, id, config, task, chosen>>
          /\ proc.next = "removeEntry" =>
               /\ runEntry' = FALSE /\ proc' = [folder |-> f, next |-> "removeLauncher"]
               /\ UNCHANGED <<location, startScript>>
          /\ proc.next = "removeLauncher" =>
               /\ location' = NoLocation /\ startScript' = FALSE
               /\ proc' = [folder |-> f, next |-> "remember"] /\ UNCHANGED runEntry
      BY <1>11, <2>1 DEF Removing, At, Goes, world
    <3>2. CheckTypeOK'
      BY <1>0, <1>i, <3>1 DEF CheckTypeOK
    <3>3. OwnPlaces' /\ AloneUndecided'
      BY <1>i, <3>1 DEF OwnPlaces, AloneUndecided
    <3>4. ProcKnows'
      BY <1>i, <1>n, <3>1 DEF ProcKnows, Present, ProcSteps, Decided, Removal, Installed
    <3>5. UserDecides'
      <4>1. \A g \in Folders : g # f /\ at[g] # Nowhere => config[g].setting # "unset"
        BY Zenon, <1>i, <2>0, <3>1 DEF AloneUndecided, Removal
      <4>2. \A g \in Folders : g # f /\ at[g] # Nowhere => (Enabled(g)' <=> Enabled(g))
        BY <3>1, <4>1 DEF Enabled
      <4>3. chosen[f] = "either"
        BY <2>0, <3>1 DEF Removal
      <4> QED BY <1>i, <3>1, <4>2, <4>3 DEF UserDecides
    <3>6. RemovedIsGone'
      BY <1>i, <3>1 DEF RemovedIsGone, Installed
    <3> QED BY <3>2, <3>3, <3>4, <3>5, <3>6 DEF CheckInv
  <2>2. CASE proc.next = "remember"
    <3>1. /\ proc.folder = f /\ proc' = Free
          /\ config' = [config EXCEPT ![f] = [setting |-> "off", removed |-> TRUE]]
          /\ chosen' = [chosen EXCEPT ![f] = "off"]
          /\ UNCHANGED <<at, letter, id, windows>>
      BY <1>11, <2>2 DEF Removing, At, Ends, world
    <3>2. /\ config' \in [Folders -> [setting : {"unset", "on", "off"}, removed : BOOLEAN]]
          /\ chosen' \in [Folders -> {"on", "off", "either"}]
          /\ config'[f].setting = "off" /\ config'[f].removed /\ chosen'[f] = "off"
          /\ \A g \in Folders : g # f => config'[g] = config[g] /\ chosen'[g] = chosen[g]
      BY <1>0, <3>1
    <3>3. CheckTypeOK'
      BY <1>i, <3>1, <3>2 DEF CheckTypeOK, windows
    <3>4. OwnPlaces' /\ AloneUndecided'
      BY <1>i, <3>1, <3>2 DEF OwnPlaces, AloneUndecided
    <3>5. UserDecides'
      <4>1. \A g \in Folders : g # f => (Enabled(g)' <=> Enabled(g))
        BY <3>1, <3>2 DEF Enabled, Installed, windows
      <4>2. ~Enabled(f)'
        BY <3>2 DEF Enabled
      <4> QED BY <1>i, <3>1, <3>2, <4>1, <4>2 DEF UserDecides
    <3>6. RemovedIsGone'
      BY <1>i, <2>2, <3>1 DEF ProcKnows, RemovedIsGone, Installed, windows
    <3>7. ProcKnows'
      BY <1>e, <3>1
    <3> QED BY <3>3, <3>4, <3>5, <3>6, <3>7 DEF CheckInv
  <2> QED BY <2>1, <2>2
(* The drives and the folders change while no process works.                     *)
<1>12. ASSUME NEW v \in Volumes, NEW l \in Letters \cup {Unplugged}, Plug(v, l) PROVE CheckInv'
  <2>1. /\ proc' = Free /\ letter' = [letter EXCEPT ![v] = l]
        /\ l # Unplugged => \A w \in Volumes : letter[w] # l
        /\ UNCHANGED <<at, id, config, windows, chosen>>
    BY <1>12 DEF Plug
  <2>2. CheckTypeOK'
    BY <1>0, <1>i, <2>1 DEF CheckTypeOK, windows
  <2>3. OwnPlaces'
    BY <1>0, <1>i, <2>1 DEF OwnPlaces
  <2>4. ProcKnows'
    BY <1>e, <2>1
  <2>5. AloneUndecided' /\ UserDecides' /\ RemovedIsGone'
    BY <1>i, <2>1 DEF AloneUndecided, UserDecides, Enabled, RemovedIsGone, Installed, windows
  <2> QED BY <2>2, <2>3, <2>4, <2>5 DEF CheckInv
<1>13. ASSUME NEW f \in Folders, NEW place \in Volumes \X Paths, Move(f, place) PROVE CheckInv'
  <2>1. /\ proc' = Free /\ at[f] # Nowhere /\ at' = [at EXCEPT ![f] = place]
        /\ \A g \in Folders : at[g] # place
        /\ UNCHANGED <<letter, id, config, windows, chosen>>
    BY <1>13 DEF Move, Present, Vacant
  <2>2. \A g \in Folders : /\ at'[g] = IF g = f THEN place ELSE at[g]
                           /\ at'[g] # Nowhere <=> at[g] # Nowhere
    BY <1>0, <2>1, PlacesAreReal
  <2>3. CheckTypeOK'
    BY <1>0, <1>i, <2>1 DEF CheckTypeOK, windows
  <2>4. OwnPlaces'
    BY <1>i, <2>1, <2>2 DEF OwnPlaces
  <2>5. ProcKnows'
    BY <1>e, <2>1
  <2>6. AloneUndecided' /\ UserDecides' /\ RemovedIsGone'
    BY <1>i, <2>1, <2>2 DEF AloneUndecided, UserDecides, Enabled, RemovedIsGone, Installed, windows
  <2> QED BY <2>3, <2>4, <2>5, <2>6 DEF CheckInv
<1>14. ASSUME NEW f \in Folders, NEW g \in Folders \ {f}, NEW place \in Volumes \X Paths,
              Copy(f, g, place)
       PROVE  CheckInv'
  <2>1. /\ proc' = Free /\ at[f] # Nowhere /\ at[g] = Nowhere /\ at' = [at EXCEPT ![g] = place]
        /\ \A h \in Folders : at[h] # place
        /\ config[f].setting # "unset"
        /\ id' = [id EXCEPT ![g] = id[f]]
        /\ config' = [config EXCEPT ![g] = config[f]]
        /\ chosen' = [chosen EXCEPT ![g] = chosen[f]]
        /\ UNCHANGED <<letter, windows>>
    BY <1>14 DEF Copy, Present, Vacant
  <2>2. \A h \in Folders :
          /\ at'[h] = IF h = g THEN place ELSE at[h]
          /\ config'[h] = IF h = g THEN config[f] ELSE config[h]
          /\ chosen'[h] = IF h = g THEN chosen[f] ELSE chosen[h]
          /\ at'[h] # Nowhere <=> h = g \/ at[h] # Nowhere
    BY <1>0, <2>1, PlacesAreReal
  <2>3. CheckTypeOK'
    BY <1>0, <1>i, <2>1 DEF CheckTypeOK, windows
  <2>4. OwnPlaces'
    BY <1>i, <2>1, <2>2 DEF OwnPlaces
  <2>5. ProcKnows'
    BY <1>e, <2>1
  <2>6. AloneUndecided'
    <3>1. \A h \in Folders : at[h] # Nowhere => config[h].setting # "unset"
      BY Zenon, <1>i, <2>1 DEF AloneUndecided
    <3> QED BY <2>1, <2>2, <3>1 DEF AloneUndecided
  <2>7. UserDecides'
    <3>1. \A h \in Folders : h # g => (Enabled(h)' <=> Enabled(h))
      BY <2>1, <2>2 DEF Enabled, Installed, windows
    <3>2. Enabled(g)' <=> Enabled(f)
      BY <2>1, <2>2 DEF Enabled, Installed, windows
    <3>3. chosen'[g] = chosen[f]
      BY <2>2
    <3> QED BY <1>i, <2>1, <2>2, <3>1, <3>2, <3>3 DEF UserDecides
  <2>8. RemovedIsGone'
    BY <1>i, <2>1, <2>2 DEF RemovedIsGone, Installed, windows
  <2> QED BY <2>3, <2>4, <2>5, <2>6, <2>7, <2>8 DEF CheckInv
<1>15. ASSUME UNCHANGED checkVars PROVE CheckInv'
  <2>1. UNCHANGED <<at, letter, id, config, windows, chosen, proc>>
    BY <1>15 DEF checkVars, windows
  <2>2. ProcKnows'
    BY <1>i, <2>1 DEF ProcKnows, Present, Installed, windows
  <2> QED BY <2>1, <2>2, ProcMoves
<1> QED BY <1>1, <1>2, <1>3, <1>4, <1>5, <1>6, <1>7, <1>8, <1>9, <1>10, <1>11, <1>12, <1>13, <1>14,
           <1>15 DEF SignInCheckNext

(* The invariant holds at every state, when no copy was made before the first    *)
(* start.                                                                      *)
LEMMA CheckInvariant ==
  ASSUME ~TwiceUnpacked PROVE SignInCheckSpec => []CheckInv
<1>1. SignInCheckInit => CheckInv
  <2> SUFFICES ASSUME SignInCheckInit PROVE CheckInv
    OBVIOUS
  <2>1. PICK v \in Volumes, p \in Paths, was \in BOOLEAN, byTask \in BOOLEAN :
       /\ at = [f \in Folders |-> IF f = First THEN <<v, p>> ELSE Nowhere]
       /\ letter \in [Volumes -> Letters \cup {Unplugged}]
       /\ \A w1, w2 \in Volumes : letter[w1] = letter[w2] => w1 = w2 \/ letter[w1] = Unplugged
       /\ letter[v] # Unplugged
       /\ was => Upgrades
       /\ byTask => was
       /\ task = byTask /\ runEntry = (was /\ ~byTask)
       /\ startScript = was
       /\ id = [f \in Folders |-> IF was /\ f = First THEN First ELSE NoId]
       /\ location = IF was THEN [id |-> First, volume |-> v, path |-> p, letter |-> letter[v]]
                     ELSE NoLocation
       /\ chosen = [f \in Folders |-> IF was /\ f = First THEN "on" ELSE "off"]
    BY Zenon DEF SignInCheckInit
  <2>2. /\ config = [f \in Folders |-> [setting |-> "unset", removed |-> FALSE]]
        /\ proc = Free /\ First \in Folders /\ <<v, p>> # Nowhere
    BY FirstAssumption, PlacesAreReal DEF SignInCheckInit
  <2>3. CheckTypeOK
    <3>1. location \in Locations \/ location = NoLocation
      BY <2>1, <2>2 DEF Locations
    <3>2. runEntry \in BOOLEAN
      BY <2>1
    <3>3. at \in [Folders -> (Volumes \X Paths) \cup {Nowhere}]
      BY <2>1
    <3>4. config \in [Folders -> [setting : {"unset", "on", "off"}, removed : BOOLEAN]]
      BY <2>2
    <3> QED BY <2>1, <2>2, <3>1, <3>2, <3>3, <3>4 DEF CheckTypeOK
  <2>4. \A f \in Folders : at[f] # Nowhere <=> f = First
    BY <2>1, <2>2
  <2>5. OwnPlaces /\ AloneUndecided
    BY <2>1, <2>4 DEF OwnPlaces, AloneUndecided
  <2>6. ProcKnows
    BY <2>2 DEF ProcKnows, Free, ProcSteps, Decided, Removal
  <2>7. UserDecides
    BY <2>1, <2>2, <2>4 DEF UserDecides, Enabled, Installed
  <2>8. RemovedIsGone
    BY <2>2, <2>4 DEF RemovedIsGone
  <2> QED BY <2>3, <2>5, <2>6, <2>7, <2>8 DEF CheckInv
<1> QED BY <1>1, CheckStep, PTL DEF SignInCheckSpec

(* Every variable of the sign-in check keeps to its type.                        *)
THEOREM CheckTyped ==
  ASSUME ~TwiceUnpacked PROVE SignInCheckSpec => []CheckTypeOK
<1>1. CheckInv => CheckTypeOK
  BY DEF CheckInv
<1> QED BY <1>1, CheckInvariant, PTL

(* The launcher finds the folder that is where location.json says: no two drives  *)
(* have a letter and no two folders a place, so each place it looks at leads to   *)
(* one folder.                                                                  *)
LEMMA LauncherFinds == ASSUME CheckInv PROVE FolderFound
<1> SUFFICES ASSUME NEW f \in Folders, Launches, Present(f), Carries(f),
                    at[f] = <<location.volume, location.path>>
             PROVE  \/ Picked = {f}
                    \/ \E g \in Folders \ {f} :
                         Under(g, location.letter, location.path) /\ Picked = {g}
  BY DEF FolderFound
<1> DEFINE found(c) == {g \in Folders : Under(g, c[1], c[2]) /\ Carries(g)}
           last == <<location.letter, location.path>>
           here == <<letter[location.volume], location.path>>
<1>0. /\ at \in [Folders -> (Volumes \X Paths) \cup {Nowhere}]
      /\ location \in Locations /\ location.volume \in Volumes
  BY CheckTypeParts DEF Launches, Locations
<1>1. ASSUME NEW g \in Folders, NEW h \in Folders, NEW l, NEW p, Under(g, l, p), Under(h, l, p)
      PROVE  g = h
  <2>1. /\ at[g] # Nowhere /\ at[h] # Nowhere /\ at[g] \in Volumes \X Paths
        /\ at[h] \in Volumes \X Paths
    BY <1>0, <1>1 DEF Under, Present
  <2>2. /\ at[g][1] \in Volumes /\ at[h][1] \in Volumes
        /\ at[g] = <<at[g][1], at[g][2]>> /\ at[h] = <<at[h][1], at[h][2]>>
    BY <2>1
  <2>3. at[g][1] = at[h][1] /\ at[g][2] = at[h][2]
    BY <1>1, <2>2 DEF Under, Present, CheckInv, OwnPlaces
  <2> QED BY <2>1, <2>2, <2>3 DEF CheckInv, OwnPlaces
<1>2. Picked = IF found(last) # {} THEN found(last) ELSE UNION {found(c) : c \in LookedAt}
  BY DEF Picked
<1>3. last[1] = location.letter /\ last[2] = location.path
  OBVIOUS
<1>4. CASE found(last) # {}
  <2>1. PICK g \in found(last) : TRUE
    BY <1>4
  <2>2. g \in Folders /\ Under(g, location.letter, location.path)
    BY <1>3, <2>1
  <2>3. found(last) = {g}
    BY <1>1, <1>3, <2>1, <2>2
  <2> QED BY <1>2, <1>4, <2>2, <2>3
<1>5. CASE found(last) = {}
  <2>1. letter[location.volume] # Unplugged /\ Under(f, letter[location.volume], location.path)
    BY DEF Present, Under
  <2>2. LookedAt = {last, here}
    BY <1>0, <2>1 DEF LookedAt
  <2>3. found(here) = {f}
    BY <1>1, <2>1
  <2>4. UNION {found(c) : c \in LookedAt} = {f}
    BY <1>5, <2>2, <2>3
  <2> QED BY <1>2, <1>5, <2>4
<1> QED BY <1>4, <1>5

(* Where no copy was made before the first start, a sign-in does what the user    *)
(* chose, a removed check leaves nothing and the launcher finds its folder,       *)
(* through every power cut and change of letters (windows/autostart.py).          *)
THEOREM CheckIsAsChosen ==
  ASSUME ~TwiceUnpacked PROVE SignInCheckSpec => []CheckAsChosen
<1>1. CheckInv => CheckAsChosen
  BY LauncherFinds DEF CheckInv, CheckAsChosen
<1> QED BY <1>1, CheckInvariant, PTL

-----------------------------------------------------------------------------
(* The usage counters: what the requests of one process add to those of all.    *)
LEMMA RequestsOfOne ==
  ASSUME NEW p, NEW n \in Nat
  PROVE  IsFiniteSet({p} \X (1 .. n)) /\ Cardinality({p} \X (1 .. n)) = n
<1>1. IsFiniteSet({p}) /\ Cardinality({p}) = 1
  BY FS_Singleton
<1>2. IsFiniteSet(1 .. n) /\ Cardinality(1 .. n) = n
  <2>1. 1 \in Int /\ n \in Int
    OBVIOUS
  <2>2. IsFiniteSet(1 .. n) /\ Cardinality(1 .. n) = IF 1 > n THEN 0 ELSE n - 1 + 1
    BY Zenon, <2>1, FS_Interval
  <2> QED BY <2>2
<1>3. /\ IsFiniteSet({p} \X (1 .. n))
      /\ Cardinality({p} \X (1 .. n)) = Cardinality({p}) * Cardinality(1 .. n)
  BY Zenon, <1>1, <1>2, FS_Product
<1> QED BY <1>1, <1>2, <1>3

(* The requests of finitely many processes are finitely many.                   *)
LEMMA RequestsFinite ==
  ASSUME NEW count \in [Counters -> Nat], NEW S \in SUBSET Counters
  PROVE  IsFiniteSet(UNION {{p} \X (1 .. count[p]) : p \in S})
<1> DEFINE each == [p \in S |-> {p} \X (1 .. count[p])]
           all == {{p} \X (1 .. count[p]) : p \in S}
<1>1. IsFiniteSet(S)
  BY UsageAssumption, FS_Subset
<1>2. each \in Surjection(S, all)
  BY DEF Surjection
<1>3. IsFiniteSet(all)
  <2> HIDE DEF each, all
  <2> QED BY <1>1, <1>2, FS_Surjection
<1>4. ASSUME NEW p \in S PROVE IsFiniteSet({p} \X (1 .. count[p]))
  <2>1. count[p] \in Nat
    OBVIOUS
  <2> QED BY Zenon, <2>1, RequestsOfOne
<1>5. \A T \in all : IsFiniteSet(T)
  BY Zenon, <1>4
<1> QED BY Zenon, <1>3, <1>5, FS_UNION

(* Where one process has more or fewer requests, so have all by as many.        *)
LEMMA RequestsChange ==
  ASSUME NEW f \in [Counters -> Nat], NEW g \in [Counters -> Nat], NEW p \in Counters,
         \A q \in Counters \ {p} : g[q] = f[q]
  PROVE  /\ Cardinality(Requests(f)) \in Nat /\ Cardinality(Requests(g)) \in Nat
         /\ Cardinality(Requests(g)) = Cardinality(Requests(f)) + g[p] - f[p]
<1> DEFINE Others(c) == UNION {{q} \X (1 .. c[q]) : q \in Counters \ {p}}
           Own(c) == {p} \X (1 .. c[p])
<1>1. Others(g) = Others(f)
  <2>1. {{q} \X (1 .. g[q]) : q \in Counters \ {p}} = {{q} \X (1 .. f[q]) : q \in Counters \ {p}}
    OBVIOUS
  <2> QED BY <2>1
<1>2. ASSUME NEW c \in [Counters -> Nat]
      PROVE  Cardinality(Requests(c)) = Cardinality(Others(c)) + c[p]
             /\ Cardinality(Others(c)) \in Nat
  <2>1. Requests(c) = Others(c) \cup Own(c)
    BY DEF Requests
  <2>2. Others(c) \cap Own(c) = {}
    OBVIOUS
  <2>3. IsFiniteSet(Others(c)) /\ Cardinality(Others(c)) \in Nat
    BY RequestsFinite, FS_CardinalityType
  <2>4. IsFiniteSet(Own(c)) /\ Cardinality(Own(c)) = c[p] /\ c[p] \in Nat
    <3>1. c[p] \in Nat
      OBVIOUS
    <3> QED BY Zenon, <3>1, RequestsOfOne
  <2> HIDE DEF Others, Own
  <2>5. Cardinality(Others(c) \cup Own(c))
          = Cardinality(Others(c)) + Cardinality(Own(c)) - Cardinality(Others(c) \cap Own(c))
    BY Zenon, <2>3, <2>4, FS_Union
  <2>6. Cardinality(Others(c) \cap Own(c)) = 0
    BY Zenon, <2>2, FS_EmptySet
  <2> QED BY <2>1, <2>3, <2>4, <2>5, <2>6
<1>3. f[p] \in Nat /\ g[p] \in Nat
  OBVIOUS
<1> HIDE DEF Others, Own
<1> QED BY <1>1, <1>2, <1>3

Counts == [count : Nat, max : Nat]
StoredCounters == [count : Nat, max : Nat, day : Nat]
Recorders == [pending : Counts, window : Nat, sure : BOOLEAN, taken : Counts, read : StoredCounters,
              at : {"idle", "writing"}]
Reporters == [at : {"idle", "flush", "send", "commit"}, sent : Counts, day : Nat, read : StoredCounters]
Usage == [counted : Nat, accepted : Nat, lost : Nat, again : Nat, perDay : Nat, faults : Nat,
          twice : BOOLEAN]

(* The counters are numbers.                                                 *)
CountsAreNumbers ==
  /\ hasFcntl \in BOOLEAN /\ stats \in StoredCounters /\ today \in Nat \ {0}
  /\ recorder \in [Counters -> Recorders] /\ reporter \in [Counters -> Reporters]
  /\ usage \in Usage

(* One report is under way, of this day; before it is sent, as long as the file    *)
(* does not know of one, no report of this day was taken that no fault explains.   *)
OneReport == hasFcntl =>
  /\ \A p, q \in Counters : reporter[p].at # "idle" /\ reporter[q].at # "idle" => p = q
  /\ \A p \in Counters :
       /\ reporter[p].at # "idle" => reporter[p].day = today
       /\ reporter[p].at \in {"flush", "send"} => usage.perDay <= usage.faults
  /\ (\A p \in Counters : reporter[p].at # "commit") /\ stats.day # today =>
       usage.perDay <= usage.faults

(* Who is not writing has taken nothing.                                      *)
NothingTaken ==
  \A p \in Counters : recorder[p].at = "idle" => recorder[p].taken.count = 0

UsageInv == CountsAreNumbers /\ NothingTaken /\ OneReport /\ CountsKept

(* What the numbers say of one process.                                      *)
LEMMA CounterParts ==
  ASSUME CountsAreNumbers, NEW p \in Counters
  PROVE  /\ recorder[p].pending \in Counts /\ recorder[p].taken \in Counts
         /\ recorder[p].read \in StoredCounters /\ recorder[p].window \in Nat
         /\ recorder[p].pending.count \in Nat /\ recorder[p].taken.count \in Nat
         /\ recorder[p].pending.max \in Nat /\ recorder[p].taken.max \in Nat
         /\ reporter[p].sent \in Counts /\ reporter[p].sent.count \in Nat
         /\ reporter[p].sent.max \in Nat /\ reporter[p].day \in Nat /\ reporter[p].read \in StoredCounters
         /\ stats.count \in Nat /\ stats.max \in Nat /\ stats.day \in Nat
         /\ usage.counted \in Nat /\ usage.accepted \in Nat /\ usage.lost \in Nat
         /\ usage.again \in Nat /\ usage.perDay \in Nat /\ usage.faults \in Nat
<1>1. recorder[p] \in Recorders /\ reporter[p] \in Reporters
  BY DEF CountsAreNumbers
<1>2. /\ recorder[p].pending \in Counts /\ recorder[p].taken \in Counts
      /\ recorder[p].read \in StoredCounters /\ recorder[p].window \in Nat
      /\ reporter[p].sent \in Counts /\ reporter[p].day \in Nat /\ reporter[p].read \in StoredCounters
  BY <1>1 DEF Recorders, Reporters
<1> QED BY <1>2 DEF CountsAreNumbers, Counts, StoredCounters, Usage

(* How what is in memory and what is reported change with one process.         *)
LEMMA MemoryChanges ==
  ASSUME CountsAreNumbers, CountsAreNumbers', NEW p \in Counters,
         \A q \in Counters \ {p} : recorder'[q] = recorder[q]
  PROVE  /\ Pending \in Nat /\ Pending' \in Nat
         /\ Pending' = Pending + (recorder'[p].pending.count + recorder'[p].taken.count)
                               - (recorder[p].pending.count + recorder[p].taken.count)
<1>1. InMemory \in [Counters -> Nat] /\ InMemory' \in [Counters -> Nat]
  BY CounterParts DEF InMemory, CountsAreNumbers, Recorders, Counts
<1>2. /\ InMemory[p] = recorder[p].pending.count + recorder[p].taken.count
      /\ (InMemory')[p] = recorder'[p].pending.count + recorder'[p].taken.count
      /\ \A q \in Counters \ {p} : (InMemory')[q] = InMemory[q]
  BY DEF InMemory
<1>3. /\ Cardinality(Requests(InMemory)) \in Nat /\ Cardinality(Requests(InMemory')) \in Nat
      /\ Cardinality(Requests(InMemory')) = Cardinality(Requests(InMemory))
                                            + (InMemory')[p] - InMemory[p]
  BY Zenon, <1>1, <1>2, RequestsChange
<1>4. Pending = Cardinality(Requests(InMemory)) /\ Pending' = Cardinality(Requests(InMemory'))
  BY DEF Pending, Requests
<1> QED BY <1>2, <1>3, <1>4

(* How what is with the backend and not yet taken off the file changes with one report. *)
LEMMA ReportsChange ==
  ASSUME CountsAreNumbers, CountsAreNumbers', NEW p \in Counters,
         \A q \in Counters \ {p} : reporter'[q] = reporter[q]
  PROVE  /\ Uncommitted \in Nat /\ Uncommitted' \in Nat
         /\ Uncommitted' =
              Uncommitted
              + (IF reporter'[p].at = "commit" THEN reporter'[p].sent.count ELSE 0)
              - (IF reporter[p].at = "commit" THEN reporter[p].sent.count ELSE 0)
<1>1. InReport \in [Counters -> Nat] /\ InReport' \in [Counters -> Nat]
  BY CounterParts DEF InReport, CountsAreNumbers, Reporters, Counts
<1>2. /\ InReport[p] = IF reporter[p].at = "commit" THEN reporter[p].sent.count ELSE 0
      /\ (InReport')[p] = IF reporter'[p].at = "commit" THEN reporter'[p].sent.count ELSE 0
      /\ \A q \in Counters \ {p} : (InReport')[q] = InReport[q]
  BY DEF InReport
<1>3. /\ Cardinality(Requests(InReport)) \in Nat /\ Cardinality(Requests(InReport')) \in Nat
      /\ Cardinality(Requests(InReport')) = Cardinality(Requests(InReport))
                                            + (InReport')[p] - InReport[p]
  BY Zenon, <1>1, <1>2, RequestsChange
<1>4. /\ Uncommitted = Cardinality(Requests(InReport))
      /\ Uncommitted' = Cardinality(Requests(InReport'))
  BY DEF Uncommitted, Requests
<1> QED BY <1>2, <1>3, <1>4

(* What a step of one report leaves: p's report is then r.                      *)
ReportGoes(p, r) ==
  /\ CountsAreNumbers' /\ NothingTaken' /\ hasFcntl' = hasFcntl
  /\ \A q \in Counters : reporter'[q] = IF q = p THEN r ELSE reporter[q]
  /\ Pending' = Pending /\ Pending \in Nat /\ Uncommitted \in Nat /\ Uncommitted' \in Nat
  /\ Uncommitted' = Uncommitted
                    + (IF r.at = "commit" THEN r.sent.count ELSE 0)
                    - (IF reporter[p].at = "commit" THEN reporter[p].sent.count ELSE 0)

(* Every step of the counters keeps the invariant.                            *)
LEMMA UsageStep == UsageInv /\ [UsageNext]_usageVars => UsageInv'
<1> SUFFICES ASSUME UsageInv, [UsageNext]_usageVars PROVE UsageInv'
  OBVIOUS
<1>0. /\ hasFcntl \in BOOLEAN /\ stats \in StoredCounters /\ today \in Nat \ {0} /\ usage \in Usage
      /\ recorder \in [Counters -> Recorders] /\ reporter \in [Counters -> Reporters]
      /\ CountsAreNumbers
  BY DEF UsageInv, CountsAreNumbers
<1>i. NothingTaken /\ OneReport /\ CountsAddUp /\ OncePerDay
  BY DEF UsageInv, CountsKept
<1>u. /\ usage.counted \in Nat /\ usage.accepted \in Nat /\ usage.lost \in Nat
      /\ usage.again \in Nat /\ usage.perDay \in Nat /\ usage.faults \in Nat
      /\ stats.count \in Nat /\ stats.max \in Nat /\ stats.day \in Nat
  BY <1>0 DEF Usage, StoredCounters
<1>z. /\ NoCounts \in Counts /\ NoCounters \in StoredCounters /\ NoCounters.count = 0
      /\ NoCounters.day = 0 /\ NoCounts.count = 0
      /\ NewRecorder \in Recorders /\ NoReport \in Reporters
      /\ NewRecorder.pending.count = 0 /\ NewRecorder.taken.count = 0 /\ NoReport.at = "idle"
  BY DEF NoCounts, NoCounters, Counts, StoredCounters, NewRecorder, NoReport, Recorders, Reporters
(* The reports and the history stay, and so does what is in memory.             *)
<1>a. ASSUME CountsAreNumbers', UNCHANGED <<hasFcntl, stats, reporter, today, usage>>,
             NEW p \in Counters, \A q \in Counters \ {p} : recorder'[q] = recorder[q],
             recorder'[p].pending.count + recorder'[p].taken.count
               = recorder[p].pending.count + recorder[p].taken.count,
             recorder'[p].at = "idle" => recorder'[p].taken.count = 0
      PROVE  UsageInv'
  <2>1. OneReport' /\ OncePerDay'
    BY <1>i, <1>a DEF OneReport, OncePerDay
  <2>2. Pending' = Pending
    BY <1>0, <1>a, CounterParts, MemoryChanges
  <2>3. Uncommitted' = Uncommitted
    BY <1>a DEF Uncommitted, Requests, InReport
  <2>4. CountsAddUp'
    BY <1>i, <1>a, <2>2, <2>3 DEF CountsAddUp
  <2>5. NothingTaken'
    BY <1>i, <1>a DEF NothingTaken
  <2> QED BY <1>a, <2>1, <2>4, <2>5 DEF UsageInv, CountsKept
<1>1. ASSUME NEW p \in Counters, LooksAgain(p) PROVE UsageInv'
  <2>1. /\ recorder' = [recorder EXCEPT ![p].sure = (granted = "yes")]
        /\ UNCHANGED <<hasFcntl, stats, reporter, today, usage>>
    BY <1>1 DEF LooksAgain
  <2>2. recorder' \in [Counters -> Recorders]
    <3>1. (granted = "yes") \in BOOLEAN
      OBVIOUS
    <3>2. \A b \in BOOLEAN : [recorder EXCEPT ![p].sure = b] \in [Counters -> Recorders]
      BY <1>0 DEF Recorders
    <3> QED BY Zenon, <2>1, <3>1, <3>2
  <2>3. CountsAreNumbers'
    BY <1>0, <2>1, <2>2 DEF CountsAreNumbers
  <2>4. /\ \A q \in Counters \ {p} : recorder'[q] = recorder[q]
        /\ recorder'[p].pending = recorder[p].pending /\ recorder'[p].taken = recorder[p].taken
        /\ recorder'[p].at = recorder[p].at
    BY <1>0, <2>1 DEF Recorders
  <2>5. recorder'[p].at = "idle" => recorder'[p].taken.count = 0
    BY <1>i, <2>4 DEF NothingTaken
  <2> QED BY <1>a, <2>1, <2>3, <2>4, <2>5
<1>2. ASSUME NEW p \in Counters, record_request(p) PROVE UsageInv'
  <2>1. /\ recorder' = [recorder EXCEPT
               ![p].window = recorder[p].window + 1,
               ![p].pending = [count |-> @.count + 1,
                               max |-> Larger(@.max, recorder[p].window + 1)]]
        /\ usage' = [usage EXCEPT !.counted = @ + 1]
        /\ UNCHANGED <<hasFcntl, stats, reporter, today>>
    BY <1>2 DEF record_request
  <2>2. [count |-> recorder[p].pending.count + 1,
         max |-> Larger(recorder[p].pending.max, recorder[p].window + 1)] \in Counts
    BY <1>0, CounterParts DEF Counts, Larger
  <2>3. recorder' \in [Counters -> Recorders]
    <3>1. recorder[p].window + 1 \in Nat /\ recorder[p] \in Recorders
      BY <1>0, CounterParts
    <3> HIDE DEF Counts
    <3> QED BY <1>0, <2>1, <2>2, <3>1 DEF Recorders
  <2>4. /\ usage' \in Usage /\ usage'.counted = usage.counted + 1
        /\ usage'.accepted = usage.accepted /\ usage'.lost = usage.lost
        /\ usage'.again = usage.again /\ usage'.perDay = usage.perDay
        /\ usage'.faults = usage.faults
    BY <1>0, <1>u, <2>1 DEF Usage
  <2>5. CountsAreNumbers'
    BY <1>0, <2>1, <2>3, <2>4 DEF CountsAreNumbers
  <2>6. /\ \A q \in Counters \ {p} : recorder'[q] = recorder[q]
        /\ recorder'[p].pending.count = recorder[p].pending.count + 1
        /\ recorder'[p].taken = recorder[p].taken /\ recorder'[p].at = recorder[p].at
    BY <1>0, <2>1 DEF Recorders
  <2>7. Pending' = Pending + 1 /\ Pending \in Nat
    BY <1>0, <2>5, <2>6, CounterParts, MemoryChanges
  <2>8. Uncommitted' = Uncommitted /\ Uncommitted \in Nat
    BY <1>0, <2>1, <2>5, ReportsChange DEF Uncommitted, Requests, InReport
  <2>9. CountsAddUp'
    <3>1. hasFcntl' = hasFcntl /\ stats' = stats
      BY <1>2 DEF record_request
    <3>2. /\ usage'.counted + usage'.again + Uncommitted'
               = usage.counted + usage.again + Uncommitted + 1
          /\ Pending' + stats'.count + usage'.accepted + usage'.lost
               = Pending + stats.count + usage.accepted + usage.lost + 1
      BY <1>u, <2>4, <2>7, <2>8, <3>1
    <3> QED BY <1>i, <3>1, <3>2 DEF CountsAddUp
  <2>10. NothingTaken'
    BY <1>i, <2>6 DEF NothingTaken
  <2>11. OneReport' /\ OncePerDay'
    <3>1. UNCHANGED <<hasFcntl, stats, today, reporter>>
      BY <2>1
    <3> QED BY <1>i, <2>4, <3>1 DEF OneReport, OncePerDay
  <2> QED BY <2>5, <2>9, <2>10, <2>11 DEF UsageInv, CountsKept
<1>3. ASSUME NEW p \in Counters, WindowEnds(p) PROVE UsageInv'
  <2>1. /\ recorder' = [recorder EXCEPT ![p].window = 0]
        /\ UNCHANGED <<hasFcntl, stats, reporter, today, usage>>
    BY <1>3 DEF WindowEnds
  <2>2. recorder' \in [Counters -> Recorders]
    BY <1>0, <2>1 DEF Recorders
  <2>3. CountsAreNumbers'
    BY <1>0, <2>1, <2>2 DEF CountsAreNumbers
  <2>4. /\ \A q \in Counters \ {p} : recorder'[q] = recorder[q]
        /\ recorder'[p] = [recorder[p] EXCEPT !.window = 0]
    BY <1>0, <2>1
  <2>5. /\ recorder'[p].pending = recorder[p].pending /\ recorder'[p].taken = recorder[p].taken
        /\ recorder'[p].at = recorder[p].at
    BY <2>4
  <2>6. recorder'[p].at = "idle" => recorder'[p].taken.count = 0
    BY <1>i, <2>5 DEF NothingTaken
  <2> QED BY <1>a, <2>1, <2>3, <2>4, <2>5, <2>6
(* What is pending is taken, written or lost: only a writer has taken something.  *)
<1>4. ASSUME NEW p \in Counters, Flush(p) PROVE UsageInv'
  <2>1. /\ recorder[p].at = "idle"
        /\ recorder' = [recorder EXCEPT ![p].at = "writing", ![p].taken = recorder[p].pending,
                           ![p].pending = NoCounts, ![p].read = Remembered]
        /\ UNCHANGED <<hasFcntl, stats, reporter, today, usage>>
    BY <1>4 DEF Flush
  <2>2. Remembered \in StoredCounters /\ recorder[p].pending \in Counts
    BY <1>0, <1>z, CounterParts DEF Remembered
  <2>3. recorder' \in [Counters -> Recorders]
    <3>1. recorder[p] \in Recorders /\ NoCounts \in Counts
      BY <1>0, <1>z
    <3>2. [recorder[p] EXCEPT !.at = "writing", !.taken = recorder[p].pending,
                              !.pending = NoCounts, !.read = Remembered] \in Recorders
      BY <2>2, <3>1 DEF Recorders
    <3> QED BY <1>0, <2>1, <3>2
  <2>4. CountsAreNumbers'
    BY <1>0, <2>1, <2>3 DEF CountsAreNumbers
  <2>5. /\ \A q \in Counters \ {p} : recorder'[q] = recorder[q]
        /\ recorder'[p].pending = NoCounts /\ recorder'[p].taken = recorder[p].pending
        /\ recorder'[p].at = "writing"
    BY <1>0, <2>1 DEF Recorders
  <2>6. recorder'[p].pending.count + recorder'[p].taken.count
          = recorder[p].pending.count + recorder[p].taken.count
    BY <1>0, <1>i, <1>z, <2>1, <2>5, CounterParts DEF NothingTaken
  <2> QED BY <1>a, <2>1, <2>4, <2>5, <2>6
<1>5. ASSUME NEW p \in Counters, Flushed(p) PROVE UsageInv'
  <2>1. /\ stats' = merge_counters(Seen(recorder[p].read), recorder[p].taken)
        /\ recorder' = [recorder EXCEPT ![p].at = "idle", ![p].taken = NoCounts,
                           ![p].read = NoCounters]
        /\ UNCHANGED <<hasFcntl, reporter, today, usage>>
    BY <1>5 DEF Flushed
  <2>2. Seen(recorder[p].read) \in StoredCounters /\ recorder[p].taken \in Counts
    BY <1>0, CounterParts DEF Seen
  <2>3. stats' \in StoredCounters /\ (hasFcntl => /\ stats'.count = stats.count + recorder[p].taken.count
                                          /\ stats'.day = stats.day)
    <3>1. ASSUME NEW seen \in StoredCounters, NEW taken \in Counts
          PROVE  /\ merge_counters(seen, taken) \in StoredCounters
                 /\ merge_counters(seen, taken).count = seen.count + taken.count
                 /\ merge_counters(seen, taken).day = seen.day
      <4>1. seen.count + taken.count \in Nat /\ Larger(seen.max, taken.max) \in Nat
        BY DEF Larger, StoredCounters, Counts
      <4>2. merge_counters(seen, taken)
              = [seen EXCEPT !.count = seen.count + taken.count,
                             !.max = Larger(seen.max, taken.max)]
        BY DEF merge_counters, StoredCounters
      <4> QED BY <4>1, <4>2 DEF StoredCounters
    <3>2. hasFcntl => Seen(recorder[p].read) = stats
      BY DEF Seen
    <3> HIDE DEF merge_counters, Seen
    <3> QED BY <2>1, <2>2, <3>1, <3>2
  <2>4. recorder' \in [Counters -> Recorders]
    BY <1>0, <1>z, <2>1 DEF Recorders
  <2>5. CountsAreNumbers'
    BY <1>0, <2>1, <2>3, <2>4 DEF CountsAreNumbers
  <2>6. /\ \A q \in Counters \ {p} : recorder'[q] = recorder[q]
        /\ recorder'[p].pending = recorder[p].pending /\ recorder'[p].taken = NoCounts
    BY <1>0, <2>1 DEF Recorders
  <2>11. OneReport' /\ OncePerDay'
    BY <1>i, <2>1, <2>3 DEF OneReport, OncePerDay
  <2>12. NothingTaken'
    BY <1>i, <1>z, <2>6 DEF NothingTaken
  <2>7. Pending' = Pending - recorder[p].taken.count /\ Pending \in Nat
        /\ recorder[p].taken.count \in Nat
    BY <1>0, <1>z, <2>5, <2>6, CounterParts, MemoryChanges
  <2>8. Uncommitted' = Uncommitted /\ Uncommitted \in Nat
    BY <1>0, <2>1, <2>5, ReportsChange DEF Uncommitted, Requests, InReport
  <2>9. CountsAddUp'
    <3>1. hasFcntl' = hasFcntl /\ usage' = usage
      BY <1>5 DEF Flushed
    <3> QED BY <1>i, <1>u, <2>3, <2>7, <2>8, <3>1 DEF CountsAddUp
  <2> QED BY <2>5, <2>9, <2>11, <2>12 DEF UsageInv, CountsKept
<1>6. ASSUME NEW p \in Counters, FlushFails(p) PROVE UsageInv'
  <2>1. /\ recorder' = [recorder EXCEPT ![p].at = "idle", ![p].taken = NoCounts,
                           ![p].read = NoCounters]
        /\ usage' = [usage EXCEPT !.faults = usage.faults + 1,
                                  !.lost = usage.lost + recorder[p].taken.count]
        /\ UNCHANGED <<hasFcntl, stats, reporter, today>>
    BY <1>6 DEF FlushFails
  <2>2. recorder[p].taken.count \in Nat
    BY <1>0, CounterParts
  <2>3. /\ usage' \in Usage /\ usage'.counted = usage.counted
        /\ usage'.accepted = usage.accepted /\ usage'.lost = usage.lost + recorder[p].taken.count
        /\ usage'.again = usage.again /\ usage'.perDay = usage.perDay
        /\ usage'.faults = usage.faults + 1
    <3>1. usage.lost + recorder[p].taken.count \in Nat /\ usage.faults + 1 \in Nat
      BY <1>u, <2>2
    <3>2. usage' = [usage EXCEPT !.faults = usage.faults + 1,
                                 !.lost = usage.lost + recorder[p].taken.count]
      BY <1>6 DEF FlushFails
    <3> QED BY <1>0, <3>1, <3>2 DEF Usage
  <2>4. recorder' \in [Counters -> Recorders]
    BY <1>0, <1>z, <2>1 DEF Recorders
  <2>5. CountsAreNumbers'
    BY <1>0, <2>1, <2>3, <2>4 DEF CountsAreNumbers
  <2>6. /\ \A q \in Counters \ {p} : recorder'[q] = recorder[q]
        /\ recorder'[p].pending = recorder[p].pending /\ recorder'[p].taken = NoCounts
    BY <1>0, <2>1 DEF Recorders
  <2>7. Pending' = Pending - recorder[p].taken.count /\ Pending \in Nat
    BY <1>0, <1>z, <2>5, <2>6, CounterParts, MemoryChanges
  <2>8. Uncommitted' = Uncommitted /\ Uncommitted \in Nat
    BY <1>0, <2>1, <2>5, ReportsChange DEF Uncommitted, Requests, InReport
  <2>9. CountsAddUp'
    <3>1. hasFcntl' = hasFcntl /\ stats' = stats
      BY <1>6 DEF FlushFails
    <3>2. /\ usage'.counted + usage'.again + Uncommitted'
               = usage.counted + usage.again + Uncommitted
          /\ Pending' + stats'.count + usage'.accepted + usage'.lost
               = Pending + stats.count + usage.accepted + usage.lost
      BY <1>u, <2>2, <2>3, <2>7, <2>8, <3>1
    <3> QED BY <1>i, <3>1, <3>2 DEF CountsAddUp
  <2>10. NothingTaken'
    BY <1>i, <1>z, <2>6 DEF NothingTaken
  <2>11. OneReport' /\ OncePerDay'
    <3>1. UNCHANGED <<hasFcntl, stats, today, reporter>>
      BY <1>6 DEF FlushFails
    <3> QED BY <1>i, <1>u, <2>3, <3>1 DEF OneReport, OncePerDay
  <2> QED BY <2>5, <2>9, <2>10, <2>11 DEF UsageInv, CountsKept
(* A report goes on: only what is reported, accepted and in the file changes.      *)
<1>r. ASSUME NEW p \in Counters, NEW r \in Reporters, reporter' = [reporter EXCEPT ![p] = r],
             UNCHANGED <<hasFcntl, today, recorder>>, stats' \in StoredCounters, usage' \in Usage
      PROVE  ReportGoes(p, r)
  <2>1. /\ reporter' \in [Counters -> Reporters]
        /\ \A q \in Counters : reporter'[q] = IF q = p THEN r ELSE reporter[q]
    BY <1>0, <1>r
  <2>2. CountsAreNumbers'
    BY <1>0, <1>r, <2>1 DEF CountsAreNumbers
  <2>3. NothingTaken'
    BY <1>i, <1>r DEF NothingTaken
  <2>4. Pending' = Pending /\ Pending \in Nat
    <3>1. Pending' = Pending
      BY <1>r DEF Pending, Requests, InMemory
    <3>2. Pending \in Nat
      BY <1>0, <1>r, <2>2, MemoryChanges
    <3> QED BY <3>1, <3>2
  <2>5. /\ Uncommitted \in Nat /\ Uncommitted' \in Nat
        /\ Uncommitted' =
             Uncommitted
             + (IF reporter'[p].at = "commit" THEN reporter'[p].sent.count ELSE 0)
             - (IF reporter[p].at = "commit" THEN reporter[p].sent.count ELSE 0)
    BY <1>0, <2>1, <2>2, ReportsChange
  <2>6. reporter'[p] = r
    BY <2>1
  <2> QED BY <1>r, <2>1, <2>2, <2>3, <2>4, <2>5, <2>6 DEF ReportGoes
<1>7. ASSUME NEW p \in Counters, BeginReport(p) PROVE UsageInv'
  <2> DEFINE r == [reporter[p] EXCEPT !.at = "flush", !.day = today]
  <2>1. /\ reporter[p].at = "idle" /\ NobodyRewrites(p) /\ is_report_due(stats.day)
        /\ reporter' = [reporter EXCEPT ![p] = r]
        /\ UNCHANGED <<hasFcntl, stats, recorder, today, usage>>
    BY <1>0, <1>7 DEF BeginReport
  <2>2. r \in Reporters /\ r.at = "flush" /\ r.day = today
    <3>1. reporter[p] \in Reporters /\ today \in Nat
      BY <1>0
    <3> QED BY <3>1 DEF Reporters
  <2> HIDE DEF r
  <2>3. /\ CountsAreNumbers' /\ NothingTaken' /\ Pending' = Pending /\ Uncommitted' = Uncommitted
        /\ \A q \in Counters : reporter'[q] = IF q = p THEN r ELSE reporter[q]
    <3>1. stats' \in StoredCounters /\ usage' \in Usage
      BY <1>0, <2>1
    <3>2. ReportGoes(p, r)
      BY Zenon, <1>r, <2>1, <2>2, <3>1
    <3> QED BY <2>1, <2>2, <3>2 DEF ReportGoes
  <2>4. CountsAddUp' /\ OncePerDay'
    BY <1>i, <2>1, <2>3 DEF CountsAddUp, OncePerDay
  <2>5. OneReport'
    <3>1. hasFcntl => /\ \A q \in Counters : reporter[q].at = "idle"
                      /\ usage.perDay <= usage.faults
      BY <1>0, <1>i, <2>1 DEF NobodyRewrites, is_report_due, OneReport
    <3> QED BY <1>i, <2>1, <2>2, <2>3, <3>1 DEF OneReport
  <2> QED BY <2>3, <2>4, <2>5 DEF UsageInv, CountsKept
<1>8. ASSUME NEW p \in Counters, TakeSnapshot(p) PROVE UsageInv'
  <2> DEFINE r == [reporter[p] EXCEPT !.at = "send", !.sent = reportable(stats)]
  <2>1. /\ reporter[p].at = "flush" /\ reporter' = [reporter EXCEPT ![p] = r]
        /\ UNCHANGED <<hasFcntl, stats, recorder, today, usage>>
    BY <1>0, <1>8 DEF TakeSnapshot
  <2>2. r \in Reporters /\ r.at = "send" /\ r.day = reporter[p].day
    <3>1. reporter[p] \in Reporters /\ reportable(stats) \in Counts
      BY <1>0, <1>u DEF reportable, Counts
    <3> QED BY <3>1 DEF Reporters
  <2> HIDE DEF r
  <2>3. /\ CountsAreNumbers' /\ NothingTaken' /\ Pending' = Pending /\ Uncommitted' = Uncommitted
        /\ \A q \in Counters : reporter'[q] = IF q = p THEN r ELSE reporter[q]
    <3>1. stats' \in StoredCounters /\ usage' \in Usage
      BY <1>0, <2>1
    <3>2. ReportGoes(p, r)
      BY Zenon, <1>r, <2>1, <2>2, <3>1
    <3> QED BY <2>1, <2>2, <3>2 DEF ReportGoes
  <2>4. CountsAddUp' /\ OncePerDay'
    BY <1>i, <2>1, <2>3 DEF CountsAddUp, OncePerDay
  <2>5. OneReport'
    BY <1>i, <2>1, <2>2, <2>3 DEF OneReport
  <2> QED BY <2>3, <2>4, <2>5 DEF UsageInv, CountsKept
<1>9. ASSUME NEW p \in Counters, NotSent(p) PROVE UsageInv'
  <2>1. /\ reporter[p].at = "send" /\ reporter' = [reporter EXCEPT ![p] = NoReport]
        /\ UNCHANGED <<hasFcntl, stats, recorder, today, usage>>
    BY <1>9 DEF NotSent
  <2>3. /\ CountsAreNumbers' /\ NothingTaken' /\ Pending' = Pending /\ Uncommitted' = Uncommitted
        /\ \A q \in Counters : reporter'[q] = IF q = p THEN NoReport ELSE reporter[q]
    <3>1. stats' \in StoredCounters /\ usage' \in Usage
      BY <1>0, <2>1
    <3>2. ReportGoes(p, NoReport)
      BY Zenon, <1>r, <1>z, <2>1, <3>1
    <3> QED BY <1>z, <2>1, <3>2 DEF ReportGoes
  <2>4. CountsAddUp' /\ OncePerDay'
    BY <1>i, <2>1, <2>3 DEF CountsAddUp, OncePerDay
  <2>5. OneReport'
    BY <1>i, <1>z, <2>1, <2>3 DEF OneReport
  <2> QED BY <2>3, <2>4, <2>5 DEF UsageInv, CountsKept
(* What the backend takes is counted as accepted, and as accepted again if the      *)
(* process does not learn of it.                                                 *)
<1>s. ASSUME NEW p \in Counters, reporter[p].at = "send"
      PROVE  /\ Arrives(p) \in Usage /\ Arrives(p).counted = usage.counted
             /\ Arrives(p).accepted = usage.accepted + reporter[p].sent.count
             /\ Arrives(p).lost = usage.lost /\ Arrives(p).again = usage.again
             /\ Arrives(p).perDay = usage.perDay + 1 /\ Arrives(p).faults = usage.faults
             /\ reporter[p].sent.count \in Nat
  <2>1. reporter[p].sent.count \in Nat
    BY <1>0, CounterParts
  <2>2. /\ usage.accepted + reporter[p].sent.count \in Nat /\ usage.perDay + 1 \in Nat
    BY <1>u, <2>1
  <2>3. (usage.twice \/ SentByAnother(p)) \in BOOLEAN
    BY Zenon DEF SentByAnother
  <2> DEFINE a == usage.accepted + reporter[p].sent.count
             d == usage.perDay + 1
             b == usage.twice \/ SentByAnother(p)
  <2>4. Arrives(p) = [usage EXCEPT !.accepted = a, !.perDay = d, !.twice = b]
    BY Zenon DEF Arrives
  <2>5. a \in Nat /\ d \in Nat /\ b \in BOOLEAN
    BY Zenon, <2>2, <2>3
  <2> HIDE DEF a, b, d
  <2>6. /\ Arrives(p) \in Usage /\ Arrives(p).counted = usage.counted
        /\ Arrives(p).accepted = a /\ Arrives(p).lost = usage.lost
        /\ Arrives(p).again = usage.again /\ Arrives(p).perDay = d
        /\ Arrives(p).faults = usage.faults
    <3> DEFINE after == [usage EXCEPT !.accepted = a, !.perDay = d, !.twice = b]
    <3>1. usage \in Usage
      BY <1>0
    <3>2. /\ after \in Usage /\ after.counted = usage.counted
          /\ after.accepted = a /\ after.lost = usage.lost
          /\ after.again = usage.again /\ after.perDay = d
          /\ after.faults = usage.faults
      BY <2>5, <3>1 DEF Usage
    <3> HIDE DEF after
    <3>3. Arrives(p) = after
      BY Zenon, <2>4 DEF after
    <3> QED BY Zenon, <3>2, <3>3
  <2> QED BY Zenon, <2>1, <2>6 DEF a, d
<1>10. ASSUME NEW p \in Counters, Send(p) PROVE UsageInv'
  <2> DEFINE r == [reporter[p] EXCEPT !.at = "commit", !.read = Remembered]
  <2>1. /\ reporter[p].at = "send" /\ usage' = Arrives(p)
        /\ reporter' = [reporter EXCEPT ![p] = r]
        /\ UNCHANGED <<hasFcntl, stats, recorder, today>>
    BY <1>0, <1>10 DEF Send
  <2>2. /\ r \in Reporters /\ r.at = "commit" /\ r.day = reporter[p].day
        /\ r.sent = reporter[p].sent
    <3>1. reporter[p] \in Reporters /\ Remembered \in StoredCounters
      BY <1>0, <1>z DEF Remembered
    <3> QED BY <3>1 DEF Reporters
  <2> HIDE DEF r
  <2>s. /\ usage' \in Usage /\ usage'.counted = usage.counted
        /\ usage'.accepted = usage.accepted + reporter[p].sent.count
        /\ usage'.lost = usage.lost /\ usage'.again = usage.again
        /\ usage'.perDay = usage.perDay + 1 /\ usage'.faults = usage.faults
        /\ reporter[p].sent.count \in Nat
    BY Zenon, <1>s, <2>1
  <2>3. /\ CountsAreNumbers' /\ NothingTaken' /\ Pending' = Pending /\ Pending \in Nat
        /\ Uncommitted' = Uncommitted + reporter[p].sent.count /\ Uncommitted \in Nat
        /\ \A q \in Counters : reporter'[q] = IF q = p THEN r ELSE reporter[q]
    <3>1. stats' \in StoredCounters
      BY <1>0, <2>1
    <3>2. ReportGoes(p, r)
      BY Zenon, <1>r, <2>1, <2>2, <2>s, <3>1
    <3> QED BY <2>1, <2>2, <2>s, <3>2 DEF ReportGoes
  <2>4. CountsAddUp'
    <3>1. hasFcntl' = hasFcntl /\ stats' = stats
      BY <1>10 DEF Send
    <3>2. /\ usage'.counted + usage'.again + Uncommitted'
               = usage.counted + usage.again + Uncommitted + reporter[p].sent.count
          /\ Pending' + stats'.count + usage'.accepted + usage'.lost
               = Pending + stats.count + usage.accepted + usage.lost + reporter[p].sent.count
      BY <1>u, <2>3, <2>s, <3>1
    <3> QED BY <1>i, <3>1, <3>2 DEF CountsAddUp
  <2>5. hasFcntl => usage.perDay <= usage.faults
    BY <1>i, <2>1 DEF OneReport
  <2>6. OneReport' /\ OncePerDay'
    <3>1. UNCHANGED <<hasFcntl, stats, today>>
      BY <1>10 DEF Send
    <3>2. OncePerDay'
      BY <1>u, <2>5, <2>s, <3>1 DEF OncePerDay
    <3>3. OneReport'
      BY <1>i, <2>1, <2>2, <2>3, <3>1 DEF OneReport
    <3> QED BY <3>2, <3>3
  <2> QED BY <2>3, <2>4, <2>6 DEF UsageInv, CountsKept
<1>11. ASSUME NEW p \in Counters, AnswerLost(p) PROVE UsageInv'
  <2>1. /\ reporter[p].at = "send" /\ reporter' = [reporter EXCEPT ![p] = NoReport]
        /\ usage' = [Arrives(p) EXCEPT !.faults = @ + 1, !.again = @ + reporter[p].sent.count]
        /\ UNCHANGED <<hasFcntl, stats, recorder, today>>
    BY <1>11 DEF AnswerLost
  <2>s. /\ usage' \in Usage /\ usage'.counted = usage.counted
        /\ usage'.accepted = usage.accepted + reporter[p].sent.count
        /\ usage'.lost = usage.lost /\ usage'.again = usage.again + reporter[p].sent.count
        /\ usage'.perDay = usage.perDay + 1 /\ usage'.faults = usage.faults + 1
        /\ reporter[p].sent.count \in Nat
    <3>1. /\ Arrives(p) \in Usage /\ Arrives(p).faults = usage.faults
          /\ Arrives(p).again = usage.again /\ reporter[p].sent.count \in Nat
      BY <1>s, <2>1
    <3>2. usage.faults + 1 \in Nat /\ usage.again + reporter[p].sent.count \in Nat
      BY <1>u, <3>1
    <3>3. usage' = [Arrives(p) EXCEPT !.faults = usage.faults + 1,
                                      !.again = usage.again + reporter[p].sent.count]
      BY <2>1, <3>1 DEF Usage
    <3>4. /\ usage' \in Usage /\ usage'.counted = Arrives(p).counted
          /\ usage'.accepted = Arrives(p).accepted /\ usage'.lost = Arrives(p).lost
          /\ usage'.again = usage.again + reporter[p].sent.count
          /\ usage'.perDay = Arrives(p).perDay /\ usage'.faults = usage.faults + 1
      BY <3>1, <3>2, <3>3 DEF Usage
    <3> QED BY <1>s, <2>1, <3>1, <3>4
  <2>3. /\ CountsAreNumbers' /\ NothingTaken' /\ Pending' = Pending /\ Pending \in Nat
        /\ Uncommitted' = Uncommitted /\ Uncommitted \in Nat
        /\ \A q \in Counters : reporter'[q] = IF q = p THEN NoReport ELSE reporter[q]
    <3>1. stats' \in StoredCounters
      BY <1>0, <2>1
    <3>2. ReportGoes(p, NoReport)
      BY Zenon, <1>r, <1>z, <2>1, <2>s, <3>1
    <3> QED BY <1>z, <2>1, <3>2 DEF ReportGoes
  <2>4. CountsAddUp'
    <3>1. hasFcntl' = hasFcntl /\ stats' = stats
      BY <1>11 DEF AnswerLost
    <3>2. /\ usage'.counted + usage'.again + Uncommitted'
               = usage.counted + usage.again + Uncommitted + reporter[p].sent.count
          /\ Pending' + stats'.count + usage'.accepted + usage'.lost
               = Pending + stats.count + usage.accepted + usage.lost + reporter[p].sent.count
      BY <1>u, <2>3, <2>s, <3>1
    <3> QED BY <1>i, <3>1, <3>2 DEF CountsAddUp
  <2>5. hasFcntl => usage.perDay <= usage.faults
    BY <1>i, <2>1 DEF OneReport
  <2>6. OneReport' /\ OncePerDay'
    <3>1. UNCHANGED <<hasFcntl, stats, today>>
      BY <1>11 DEF AnswerLost
    <3>2. hasFcntl => usage'.perDay <= usage'.faults
      BY <1>u, <2>5, <2>s
    <3>3. usage'.perDay \in Nat /\ usage'.faults \in Nat
      BY <1>u, <2>s
    <3> QED BY <1>i, <1>z, <2>1, <2>3, <3>1, <3>2, <3>3 DEF OneReport, OncePerDay
  <2> QED BY <2>3, <2>4, <2>6 DEF UsageInv, CountsKept
<1>12. ASSUME NEW p \in Counters, Commit(p) PROVE UsageInv'
  <2>1. /\ reporter[p].at = "commit" /\ reporter' = [reporter EXCEPT ![p] = NoReport]
        /\ stats' = after_report(Seen(reporter[p].read), reporter[p].sent, reporter[p].day)
        /\ usage' = [usage EXCEPT !.again =
                       usage.again + Larger(reporter[p].sent.count - stats.count, 0)]
        /\ UNCHANGED <<hasFcntl, recorder, today>>
    BY <1>12 DEF Commit
  <2>2. /\ reporter[p].sent.count \in Nat /\ reporter[p].sent.max \in Nat /\ reporter[p].day \in Nat
        /\ Seen(reporter[p].read) \in StoredCounters
    BY <1>0, CounterParts DEF Seen
  <2>3. /\ Larger(reporter[p].sent.count - stats.count, 0) \in Nat
        /\ stats.count + Larger(reporter[p].sent.count - stats.count, 0)
             = reporter[p].sent.count + Larger(stats.count - reporter[p].sent.count, 0)
    BY <1>u, <2>2 DEF Larger
  <2>s. /\ usage' \in Usage /\ usage'.counted = usage.counted
        /\ usage'.accepted = usage.accepted /\ usage'.lost = usage.lost
        /\ usage'.again = usage.again + Larger(reporter[p].sent.count - stats.count, 0)
        /\ usage'.perDay = usage.perDay /\ usage'.faults = usage.faults
    BY <1>0, <1>u, <2>1, <2>3 DEF Usage
  <2>4. /\ stats' \in StoredCounters /\ stats'.day = reporter[p].day
        /\ hasFcntl => stats'.count = Larger(stats.count - reporter[p].sent.count, 0)
    <3>1. ASSUME NEW seen \in StoredCounters
          PROVE  /\ after_report(seen, reporter[p].sent, reporter[p].day) \in StoredCounters
                 /\ after_report(seen, reporter[p].sent, reporter[p].day).day = reporter[p].day
                 /\ after_report(seen, reporter[p].sent, reporter[p].day).count
                      = Larger(seen.count - reporter[p].sent.count, 0)
      <4>1. Larger(seen.count - reporter[p].sent.count, 0) \in Nat /\ seen.max \in Nat
        BY <2>2 DEF Larger, StoredCounters
      <4> QED BY <2>2, <4>1 DEF after_report, StoredCounters
    <3>2. hasFcntl => Seen(reporter[p].read) = stats
      BY DEF Seen
    <3> HIDE DEF after_report, Seen, Larger
    <3> QED BY <2>1, <2>2, <3>1, <3>2
  <2>5. /\ CountsAreNumbers' /\ NothingTaken' /\ Pending' = Pending /\ Pending \in Nat
        /\ Uncommitted' = Uncommitted - reporter[p].sent.count
        /\ Uncommitted \in Nat /\ Uncommitted' \in Nat
        /\ \A q \in Counters : reporter'[q] = IF q = p THEN NoReport ELSE reporter[q]
    <3>2. ReportGoes(p, NoReport)
      BY Zenon, <1>r, <1>z, <2>1, <2>s, <2>4
    <3> QED BY <1>z, <2>1, <2>2, <3>2 DEF ReportGoes
  <2>6. CountsAddUp'
    <3>1. hasFcntl' = hasFcntl
      BY <1>12 DEF Commit
    <3>2. Larger(stats.count - reporter[p].sent.count, 0) \in Nat
      BY <1>u, <2>2 DEF Larger
    <3>3. hasFcntl =>
             (usage'.counted + usage'.again + Uncommitted')
               - (Pending' + stats'.count + usage'.accepted + usage'.lost)
             = (usage.counted + usage.again + Uncommitted)
               - (Pending + stats.count + usage.accepted + usage.lost)
      <4>1. PICK more, less : /\ more = Larger(reporter[p].sent.count - stats.count, 0)
                              /\ less = Larger(stats.count - reporter[p].sent.count, 0)
        OBVIOUS
      <4>2. /\ more \in Nat /\ less \in Nat
            /\ stats.count + more = reporter[p].sent.count + less
        BY <2>3, <3>2, <4>1
      <4>3. /\ usage'.again = usage.again + more
            /\ hasFcntl => stats'.count = less
        BY <2>4, <2>s, <4>1
      <4>4. /\ usage'.counted = usage.counted /\ usage'.accepted = usage.accepted
            /\ usage'.lost = usage.lost
            /\ Pending' = Pending /\ Uncommitted' = Uncommitted - reporter[p].sent.count
            /\ Pending \in Nat /\ Uncommitted \in Nat
        BY <2>5, <2>s
      <4>5. reporter[p].sent.count \in Nat
        BY <2>2
      <4>6. ASSUME hasFcntl
            PROVE  (usage.counted + (usage.again + more) + (Uncommitted - reporter[p].sent.count))
                     - (Pending + less + usage.accepted + usage.lost)
                   = (usage.counted + usage.again + Uncommitted)
                     - (Pending + stats.count + usage.accepted + usage.lost)
        <5> DEFINE c == usage.counted  a == usage.again  open == Uncommitted  here == Pending
                   n == stats.count  s == reporter[p].sent.count
                   ok == usage.accepted  gone == usage.lost
        <5>1. /\ c \in Nat /\ a \in Nat /\ open \in Nat /\ here \in Nat /\ n \in Nat /\ s \in Nat
              /\ ok \in Nat /\ gone \in Nat /\ more \in Nat /\ less \in Nat
              /\ n + more = s + less
          BY <1>u, <4>2, <4>4, <4>5
        <5> HIDE DEF c, a, open, here, n, s, ok, gone
        <5>2. (c + (a + more) + (open - s)) - (here + less + ok + gone)
              = (c + a + open) - (here + n + ok + gone)
          BY <5>1
        <5> QED BY <5>2 DEF c, a, open, here, n, s, ok, gone
      <4> QED BY <4>3, <4>4, <4>6
    <3>4. /\ Uncommitted' \in Nat /\ usage'.counted \in Nat /\ usage'.again \in Nat
          /\ Pending' \in Nat /\ stats'.count \in Nat
          /\ usage'.accepted \in Nat /\ usage'.lost \in Nat
      BY <1>u, <2>3, <2>4, <2>5, <2>s DEF StoredCounters
    <3> SUFFICES ASSUME hasFcntl
                 PROVE  usage'.counted + usage'.again + Uncommitted'
                          = Pending' + stats'.count + usage'.accepted + usage'.lost
      BY <3>1 DEF CountsAddUp
    <3>5. usage.counted + usage.again + Uncommitted
            = Pending + stats.count + usage.accepted + usage.lost
      BY <1>i DEF CountsAddUp
    <3>6. Uncommitted \in Nat /\ Pending \in Nat
      BY <2>5
    <3> DEFINE in == usage'.counted + usage'.again + Uncommitted'
               out == Pending' + stats'.count + usage'.accepted + usage'.lost
               in0 == usage.counted + usage.again + Uncommitted
               out0 == Pending + stats.count + usage.accepted + usage.lost
    <3>7. in \in Int /\ out \in Int /\ in0 \in Int /\ out0 \in Int
      BY <1>u, <3>4, <3>6
    <3>8. in - out = in0 - out0
      BY <3>3
    <3>a. in0 = out0
      BY <3>5
    <3> HIDE DEF in, out, in0, out0
    <3>9. in = out
      BY <3>7, <3>8, <3>a
    <3> QED BY Zenon, <3>9 DEF in, out
  <2>7. OneReport' /\ OncePerDay'
    <3>1. UNCHANGED <<hasFcntl, today>>
      BY <1>12 DEF Commit
    <3>2. OncePerDay'
      BY <1>i, <2>s, <3>1 DEF OncePerDay
    <3>3. OneReport'
      BY <1>i, <1>z, <2>1, <2>4, <2>5, <3>1 DEF OneReport
    <3> QED BY <3>2, <3>3
  <2> QED BY <2>5, <2>6, <2>7 DEF UsageInv, CountsKept
(* The days, and what kills or consent take.                                     *)
<1>13. ASSUME NextDay PROVE UsageInv'
  <2>1. /\ \A p \in Counters : reporter[p].at = "idle"
        /\ today' = today + 1 /\ usage' = [usage EXCEPT !.perDay = 0]
        /\ UNCHANGED <<hasFcntl, stats, recorder, reporter>>
    BY <1>13 DEF NextDay
  <2>2. /\ usage' \in Usage /\ usage'.counted = usage.counted
        /\ usage'.accepted = usage.accepted /\ usage'.lost = usage.lost
        /\ usage'.again = usage.again /\ usage'.perDay = 0 /\ usage'.faults = usage.faults
    BY <1>0, <2>1 DEF Usage
  <2>3. CountsAreNumbers' /\ NothingTaken'
    BY <1>0, <1>i, <2>1, <2>2 DEF CountsAreNumbers, NothingTaken
  <2>4. CountsAddUp'
    <3>1. Pending' = Pending /\ Uncommitted' = Uncommitted
      BY <2>1 DEF Pending, Uncommitted, Requests, InMemory, InReport
    <3>2. hasFcntl' = hasFcntl /\ stats' = stats
      BY <2>1
    <3> QED BY <1>i, <2>2, <3>1, <3>2 DEF CountsAddUp
  <2>5. OneReport' /\ OncePerDay'
    <3>1. hasFcntl' = hasFcntl /\ reporter' = reporter
      BY <2>1
    <3> QED BY <1>u, <2>1, <2>2, <3>1 DEF OneReport, OncePerDay
  <2> QED BY <2>3, <2>4, <2>5 DEF UsageInv, CountsKept
<1>14. ASSUME NEW p \in Counters, Killed(p) PROVE UsageInv'
  <2> DEFINE gone == recorder[p].pending.count + recorder[p].taken.count
             sent == IF reporter[p].at = "commit" THEN reporter[p].sent.count ELSE 0
  <2>1. /\ recorder' = [recorder EXCEPT ![p] = NewRecorder]
        /\ reporter' = [reporter EXCEPT ![p] = NoReport]
        /\ UNCHANGED <<hasFcntl, stats, today>>
    BY <1>14 DEF Killed
  <2>2. gone \in Nat /\ sent \in Nat
    BY <1>0, CounterParts
  <2>3. usage' = [usage EXCEPT !.faults = usage.faults + 1, !.lost = usage.lost + gone,
                               !.again = usage.again + sent]
    <3>1. usage' = [usage EXCEPT !.faults = usage.faults + 1, !.lost = usage.lost + gone,
                                 !.again = IF reporter[p].at = "commit"
                                           THEN usage.again + reporter[p].sent.count
                                           ELSE usage.again]
      <4>1. usage' = [usage EXCEPT !.faults = usage.faults + 1,
                        !.lost = usage.lost + recorder[p].pending.count + recorder[p].taken.count,
                        !.again = IF reporter[p].at = "commit"
                                  THEN usage.again + reporter[p].sent.count
                                  ELSE usage.again]
        BY <1>0, <1>14 DEF Killed, Usage
      <4>2. usage.lost + recorder[p].pending.count + recorder[p].taken.count = usage.lost + gone
        <5>1. recorder[p].pending.count \in Nat /\ recorder[p].taken.count \in Nat
          BY <1>0, CounterParts
        <5> QED BY <1>u, <5>1
      <4> HIDE DEF gone
      <4> QED BY Zenon, <4>1, <4>2
    <3>2. (IF reporter[p].at = "commit" THEN usage.again + reporter[p].sent.count
           ELSE usage.again) = usage.again + sent
      BY <1>u
    <3> QED BY <3>1, <3>2
  <2> HIDE DEF gone, sent
  <2>4. /\ usage' \in Usage /\ usage'.counted = usage.counted
        /\ usage'.accepted = usage.accepted /\ usage'.lost = usage.lost + gone
        /\ usage'.again = usage.again + sent /\ usage'.perDay = usage.perDay
        /\ usage'.faults = usage.faults + 1
    <3>1. usage.faults + 1 \in Nat /\ usage.lost + gone \in Nat /\ usage.again + sent \in Nat
      BY <1>u, <2>2
    <3> QED BY <1>0, <2>3, <3>1 DEF Usage
  <2>5. /\ recorder' \in [Counters -> Recorders] /\ reporter' \in [Counters -> Reporters]
        /\ \A q \in Counters : /\ recorder'[q] = IF q = p THEN NewRecorder ELSE recorder[q]
                               /\ reporter'[q] = IF q = p THEN NoReport ELSE reporter[q]
    BY <1>0, <1>z, <2>1
  <2>6. CountsAreNumbers'
    BY <1>0, <2>1, <2>4, <2>5 DEF CountsAreNumbers
  <2>7. NothingTaken'
    BY <1>i, <1>z, <2>5 DEF NothingTaken
  <2>8. Pending' = Pending - gone /\ Pending \in Nat /\ Pending' \in Nat
    BY <1>0, <1>z, <2>5, <2>6, CounterParts, MemoryChanges DEF gone
  <2>9. Uncommitted' = Uncommitted - sent /\ Uncommitted \in Nat /\ Uncommitted' \in Nat
    <3>1. /\ Uncommitted \in Nat /\ Uncommitted' \in Nat
          /\ Uncommitted' =
               Uncommitted
               + (IF reporter'[p].at = "commit" THEN reporter'[p].sent.count ELSE 0)
               - (IF reporter[p].at = "commit" THEN reporter[p].sent.count ELSE 0)
      BY <1>0, <2>5, <2>6, ReportsChange
    <3>2. reporter'[p].at = "idle"
      BY <1>z, <2>5
    <3>3. Uncommitted' = Uncommitted + 0 - sent
      BY Zenon, <3>1, <3>2 DEF sent
    <3> QED BY <2>2, <3>1, <3>3
  <2>10. CountsAddUp'
    <3>1. hasFcntl' = hasFcntl /\ stats' = stats
      BY <2>1
    <3>2. /\ usage'.counted + usage'.again + Uncommitted'
               = usage.counted + usage.again + Uncommitted
          /\ Pending' + stats'.count + usage'.accepted + usage'.lost
               = Pending + stats.count + usage.accepted + usage.lost
      BY <1>u, <2>2, <2>4, <2>8, <2>9, <3>1
    <3> QED BY <1>i, <3>1, <3>2 DEF CountsAddUp
  <2>11. OneReport' /\ OncePerDay'
    <3>1. hasFcntl' = hasFcntl /\ stats' = stats /\ today' = today
      BY <2>1
    <3>2. hasFcntl => usage'.perDay <= usage'.faults
      BY <1>i, <1>u, <2>4 DEF OncePerDay
    <3>3. usage'.perDay \in Nat /\ usage'.faults \in Nat
      BY <1>u, <2>4
    <3> QED BY <1>i, <1>z, <2>5, <3>1, <3>2, <3>3 DEF OneReport, OncePerDay
  <2> QED BY <2>6, <2>7, <2>10, <2>11 DEF UsageInv, CountsKept
<1>15. ASSUME NEW answer \in {"yes", "no"}, save_consent(answer) PROVE UsageInv'
  <2>0. Asker \in Counters
    BY UsageAssumption
  <2>1. /\ recorder' = [recorder EXCEPT ![Asker].sure = (answer = "yes"),
                    ![Asker].pending = IF answer = "yes" THEN @ ELSE NoCounts,
                    ![Asker].window = IF answer = "yes" THEN @ ELSE 0]
        /\ stats' = IF answer = "no" THEN NoCounters ELSE stats
        /\ hasFcntl' = hasFcntl /\ reporter' = reporter /\ today' = today
    BY <1>15 DEF save_consent
  <2>2. /\ recorder' \in [Counters -> Recorders]
        /\ \A q \in Counters \ {Asker} : recorder'[q] = recorder[q]
        /\ recorder'[Asker].taken = recorder[Asker].taken
        /\ recorder'[Asker].at = recorder[Asker].at
        /\ answer = "yes" => recorder'[Asker].pending = recorder[Asker].pending
        /\ answer = "no" => recorder'[Asker].pending = NoCounts
    <3>1. CASE answer = "yes"
      <4>1. recorder' = [recorder EXCEPT ![Asker].sure = TRUE]
        BY <1>0, <2>0, <2>1, <3>1 DEF Recorders
      <4> QED BY <1>0, <2>0, <3>1, <4>1 DEF Recorders
    <3>2. CASE answer = "no"
      <4>1. recorder' = [recorder EXCEPT ![Asker].sure = FALSE, ![Asker].pending = NoCounts,
                                         ![Asker].window = 0]
        BY <1>0, <2>0, <2>1, <3>2 DEF Recorders
      <4> QED BY <1>0, <1>z, <2>0, <3>2, <4>1 DEF Recorders
    <3> QED BY <1>15, <3>1, <3>2
  <2>3. NothingTaken'
    BY <1>i, <2>0, <2>2 DEF NothingTaken
  <2>4. CASE answer = "yes"
    <3>1. usage' = usage /\ stats' = stats
      BY <1>15, <2>1, <2>4 DEF save_consent
    <3>2. CountsAreNumbers'
      BY <1>0, <2>1, <2>2, <3>1 DEF CountsAreNumbers
    <3> QED BY <1>a, <2>0, <2>1, <2>2, <2>3, <2>4, <3>1, <3>2 DEF NothingTaken
  <2>5. CASE answer = "no"
    <3>0. stats' = NoCounters /\ recorder[Asker].pending.count \in Nat
          /\ recorder[Asker].taken.count \in Nat
      BY <1>0, <2>0, <2>1, <2>5, CounterParts
    <3>1. /\ usage' \in Usage /\ usage'.counted = usage.counted
          /\ usage'.accepted = usage.accepted
          /\ usage'.lost = usage.lost + recorder[Asker].pending.count + stats.count
          /\ usage'.again = usage.again /\ usage'.perDay = usage.perDay
          /\ usage'.faults = usage.faults + 1
      <4>1. usage' = [usage EXCEPT !.faults = usage.faults + 1,
                        !.lost = usage.lost + recorder[Asker].pending.count + stats.count]
        BY <1>0, <1>15, <2>5 DEF save_consent, Usage
      <4>2. usage.lost + recorder[Asker].pending.count + stats.count \in Nat
            /\ usage.faults + 1 \in Nat
        BY <1>u, <3>0
      <4> QED BY <1>0, <4>1, <4>2 DEF Usage
    <3>2. CountsAreNumbers'
      BY <1>0, <1>z, <2>1, <2>2, <3>0, <3>1 DEF CountsAreNumbers
    <3>3. Pending' = Pending - recorder[Asker].pending.count /\ Pending \in Nat /\ Pending' \in Nat
      <4>1. recorder'[Asker].pending.count = 0
            /\ recorder'[Asker].taken.count = recorder[Asker].taken.count
        BY <1>z, <2>2, <2>5
      <4>2. /\ Pending \in Nat /\ Pending' \in Nat
            /\ Pending' = Pending
                 + (recorder'[Asker].pending.count + recorder'[Asker].taken.count)
                 - (recorder[Asker].pending.count + recorder[Asker].taken.count)
        BY Zenon, <1>0, <2>0, <2>2, <3>2, MemoryChanges
      <4> QED BY <3>0, <4>1, <4>2
    <3>4. Uncommitted' = Uncommitted /\ Uncommitted \in Nat
      BY <1>0, <2>0, <2>1, <3>2, ReportsChange DEF Uncommitted, Requests, InReport
    <3>5. CountsAddUp'
      <4>1. hasFcntl' = hasFcntl /\ stats'.count = 0
        BY <1>z, <2>1, <3>0
      <4>2. /\ usage'.counted + usage'.again + Uncommitted'
                 = usage.counted + usage.again + Uncommitted
            /\ Pending' + stats'.count + usage'.accepted + usage'.lost
                 = Pending + stats.count + usage.accepted + usage.lost
        BY <1>u, <3>0, <3>1, <3>3, <3>4, <4>1
      <4> QED BY <1>i, <4>1, <4>2 DEF CountsAddUp
    <3>6. OneReport' /\ OncePerDay'
      <4>1. hasFcntl => usage'.perDay <= usage'.faults
        BY <1>i, <1>u, <3>1 DEF OncePerDay
      <4>2. usage'.perDay \in Nat /\ usage'.faults \in Nat
        BY <1>u, <3>1
      <4> QED BY <1>i, <2>1, <4>1, <4>2 DEF OneReport, OncePerDay
    <3> QED BY <2>3, <3>2, <3>5, <3>6 DEF UsageInv, CountsKept
  <2> QED BY <2>4, <2>5
<1>16. ASSUME UNCHANGED usageVars PROVE UsageInv'
  <2>1. UNCHANGED <<hasFcntl, stats, recorder, reporter, today, usage>>
    BY <1>16 DEF usageVars
  <2> QED BY <1>i, <1>0, <2>1 DEF UsageInv, CountsKept, CountsAreNumbers, NothingTaken, OneReport,
                       OncePerDay, CountsAddUp, Pending, Uncommitted, Requests, InMemory, InReport
<1> QED BY <1>1, <1>2, <1>3, <1>4, <1>5, <1>6, <1>7, <1>8, <1>9, <1>10, <1>11, <1>12, <1>13, <1>14,
           <1>15, <1>16 DEF UsageNext

(* The invariant holds at every state.                                           *)
LEMMA UsageInvariant == UsageSpec => []UsageInv
<1>1. UsageInit => UsageInv
  <2> SUFFICES ASSUME UsageInit PROVE UsageInv
    OBVIOUS
  <2>0. /\ NoCounts \in Counts /\ NoCounters \in StoredCounters
        /\ NewRecorder \in Recorders /\ NoReport \in Reporters
        /\ NewRecorder.pending.count = 0 /\ NewRecorder.taken.count = 0 /\ NoReport.at = "idle"
        /\ NoCounters.count = 0 /\ NoCounters.day = 0
    BY DEF NoCounts, NoCounters, Counts, StoredCounters, NewRecorder, NoReport, Recorders, Reporters
  <2>1. /\ recorder \in [Counters -> Recorders] /\ reporter \in [Counters -> Reporters]
        /\ \A p \in Counters : recorder[p] = NewRecorder /\ reporter[p] = NoReport
        /\ stats = NoCounters /\ today = 1 /\ hasFcntl \in BOOLEAN
    BY <2>0 DEF UsageInit
  <2>2. usage \in Usage /\ usage.counted = 0 /\ usage.again = 0 /\ usage.accepted = 0
        /\ usage.lost = 0 /\ usage.perDay = 0 /\ usage.faults = 0
    BY DEF UsageInit, Usage
  <2>3. CountsAreNumbers
    BY <2>0, <2>1, <2>2 DEF CountsAreNumbers
  <2>4. NothingTaken /\ OneReport /\ OncePerDay
    BY <2>0, <2>1, <2>2 DEF NothingTaken, OneReport, OncePerDay
  <2>5. Pending = 0 /\ Uncommitted = 0
    <3>1. InMemory = [p \in Counters |-> 0] /\ InReport = [p \in Counters |-> 0]
      BY <2>0, <2>1 DEF InMemory, InReport
    <3>2. Requests([p \in Counters |-> 0]) = {}
      BY DEF Requests
    <3> QED BY <3>1, <3>2, FS_EmptySet DEF Pending, Uncommitted
  <2>6. CountsAddUp
    BY <2>0, <2>1, <2>2, <2>5 DEF CountsAddUp
  <2> QED BY <2>3, <2>4, <2>6 DEF UsageInv, CountsKept
<1> QED BY <1>1, UsageStep, PTL DEF UsageSpec

(* Where the locks are some, every request counted is in memory, in the file, with   *)
(* the backend or lost to a named fault, and the backend gets one report a day and   *)
(* one more for each fault (usage_stats.py, usage_report.py).                       *)
THEOREM CountsAreKept == UsageSpec => []CountsKept
<1>1. UsageInv => CountsKept
  BY DEF UsageInv
<1> QED BY <1>1, UsageInvariant, PTL

-----------------------------------------------------------------------------
(* The patched configurations: the files a start or a stop looks after here.   *)
RetroArchs == {"retroarch", "append"} \cap Files
Values == [host : {"", "custom"}, hard : BOOLEAN]
Records == [value : Contents, already : BOOLEAN]
PatchSteps == ({"patch", "revert"} \X Files) \cup {<<"save", "state">>, <<"store", "state">>}

Jobs == [pass : Seq(PatchSteps), at : Nat, previous : SavedStates \cup {NoState}, again : BOOLEAN,
         got : UNION {[fs -> Records] : fs \in SUBSET Files}]

AllFiles == FilesOf.handheld \cup FilesOf.darkos

(* A file was patched by step i and nothing was saved up to step n.            *)
Unsaved(pass, f, i, n) == pass[i] = <<"patch", f>> /\ \A k \in i .. n : pass[k][1] = "patch"

(* What makes a pass a start: every file is patched; what is saved has been       *)
(* captured, the two of RetroArch at once and first; the other captures are stored.  *)
IsStart(pass) ==
  /\ pass \in Seq(PatchSteps) /\ Len(pass) > 0 /\ pass[Len(pass)][1] = "store"
  /\ \A i \in 1 .. Len(pass) : pass[i][1] # "revert"
  /\ \A i \in 1 .. Len(pass) :
       pass[i][1] = "save" =>
         \A f \in RetroArchs : \E j \in 1 .. (i - 1) : Unsaved(pass, f, j, i - 1)
  /\ \A i \in 1 .. Len(pass) :
       pass[i][1] = "store" =>
         \E j \in 1 .. (i - 1) :
           /\ pass[j][1] = "save"
           /\ \A k \in (j + 1) .. (i - 1) : pass[k][1] = "patch" /\ pass[k][2] \notin RetroArchs
  /\ \A i \in 1 .. Len(pass) :
       /\ pass[i] = <<"patch", "retroarch">> =>
            (i = 1 \/ pass[i - 1][1] = "store")
            /\ ("append" \in Files => i < Len(pass) /\ pass[i + 1] = <<"patch", "append">>)
       /\ pass[i] = <<"patch", "append">> => i > 1 /\ pass[i - 1] = <<"patch", "retroarch">>

(* And a stop.                                                                 *)
IsStop(pass) ==
  /\ pass \in Seq(PatchSteps) /\ Len(pass) > 0
  /\ \A i \in 1 .. Len(pass) : pass[i][1] = "revert"

Starting == ~Idle /\ IsStart(job.pass)
Stopping == ~Idle /\ IsStop(job.pass)

ConfigTyped ==
  /\ device \in {"handheld", "darkos"} /\ cfg \in [FilesOf[device] -> Contents]
  /\ patchState \in SavedStates \cup {NoState} /\ port \in Ports
  /\ patchState # NoState => DOMAIN patchState.of \subseteq Files
  /\ up \in BOOLEAN /\ powered \in BOOLEAN /\ autostart \in BOOLEAN
  /\ before \in [FilesOf[device] -> Values] /\ pointed \subseteq Files
  /\ ended \in {"none", "start", "stop"} /\ muddled \in BOOLEAN
  /\ powerFails \in 0 .. PowerCuts /\ edits \in 0 .. Edits
  /\ job.at \in Nat /\ job.previous \in SavedStates \cup {NoState} /\ job.again \in BOOLEAN
  /\ job \in Jobs

JobRuns ==
  /\ Idle => DOMAIN job.got = {}
  /\ ~Idle => /\ IsStart(job.pass) \/ IsStop(job.pass)
              /\ job.at \in 1 .. Len(job.pass) /\ ended = "none" /\ powered
  /\ Starting => up /\ \A f \in Files :
       Patched(f) \/ \E i \in job.at .. Len(job.pass) : job.pass[i] = <<"patch", f>>
  /\ Stopping => \A f \in Files \ {"secondary"} :
       cfg[f].host # port \/ \E i \in job.at .. Len(job.pass) : job.pass[i] = <<"revert", f>>

(* Before the port moves nobody has seen the next one; what a record says of the  *)
(* next one it says as the proxy's.                                              *)
PortsKnown ==
  /\ port = "proxy" =>
       /\ \A f \in Files : cfg[f].host # "nextPort"
       /\ \A f \in DOMAIN job.got : job.got[f].value.host # "nextPort"
       /\ \A s \in {patchState, job.previous} \ {NoState} :
            s.proxy # "nextPort" /\ \A f \in DOMAIN s.of : s.of[f].host # "nextPort"
  /\ \A s \in {patchState, job.previous} \ {NoState} :
       "retroarch" \in DOMAIN s.of /\ s.of["retroarch"].host = "nextPort" => s.proxy = "nextPort"

GotSince ==
  /\ Starting =>
       /\ \A f \in Files : f \in DOMAIN job.got
            <=> \E i \in 1 .. (job.at - 1) : Unsaved(job.pass, f, i, job.at - 1)
       /\ \A i \in 1 .. (job.at - 1) : job.pass[i][1] = "save" => patchState # NoState
  /\ Stopping => DOMAIN job.got = {} /\ job.previous = patchState

Clear == ~muddled /\ port = "proxy"

Ours(f) == cfg[f].host \in Ports
Between == Starting /\ job.at > 1 /\ job.pass[job.at - 1] = <<"patch", "retroarch">>

RetroArchKept == Clear =>
  /\ \A f \in RetroArchs :
       /\ f \in DOMAIN job.got => job.got[f].value = before[f] /\ f \in pointed /\ Ours(f)
       /\ f \in pointed /\ f \notin DOMAIN job.got =>
            Recorded(patchState, f) /\ patchState.of[f] = before[f]
       /\ f \in pointed => cfg[f] = PatchedContent(f) \/ cfg[f] = before[f]
       /\ f \notin pointed => ~Ours(f)
  /\ "append" \in Files =>
       /\ (Idle \/ Starting) /\ ~Between => (Ours("retroarch") <=> Ours("append"))
       /\ Between => (job.again <=> Ours("append"))
       /\ Idle /\ powered /\ ~up => ~Ours("retroarch") /\ ~Ours("append")

PatchInv == ConfigTyped /\ JobRuns /\ PortsKnown /\ GotSince /\ RetroArchKept /\ AllPatched
            /\ StopDisconnects

(* What the passes are on each device.                                         *)
LEMMA FilesOfDevices ==
  ASSUME ConfigTyped
  PROVE  /\ DOMAIN cfg = Files /\ Files = FilesOf[device]
         /\ device = "handheld" =>
              /\ Files = {"retroarch", "append", "conf", "ppsspp", "pcsx2"}
              /\ RetroArchs = {"retroarch", "append"}
         /\ device = "darkos" =>
              /\ Files = {"retroarch", "secondary", "ppsspp"}
              /\ RetroArchs = {"retroarch"}
         /\ device \in {"handheld", "darkos"}
<1> USE DEF Jobs
<1>1. DOMAIN cfg = FilesOf[device] /\ device \in {"handheld", "darkos"}
  BY DEF ConfigTyped
<1>2. /\ device = "handheld" => FilesOf[device] = {"retroarch", "append", "conf", "ppsspp", "pcsx2"}
      /\ device = "darkos" => FilesOf[device] = {"retroarch", "secondary", "ppsspp"}
  BY DEF FilesOf
<1> QED BY <1>1, <1>2 DEF Files, RetroArchs

(* The start of the command line is one, and so is that of the menu.              *)
LEMMA CliStarts ==
  ASSUME ConfigTyped PROVE IsStart(CliPatch)
<1>1. CASE device = "handheld"
  <2> DEFINE s == <<<<"patch", "retroarch">>, <<"patch", "append">>, <<"save", "state">>,
                    <<"patch", "conf">>, <<"patch", "ppsspp">>, <<"patch", "pcsx2">>,
                    <<"store", "state">>>>
  <2>1. CliPatch = s
    BY <1>1 DEF CliPatch
  <2>2. /\ Files = {"retroarch", "append", "conf", "ppsspp", "pcsx2"}
        /\ RetroArchs = {"retroarch", "append"}
    BY <1>1, FilesOfDevices
  <2>3. s \in Seq(PatchSteps) /\ Len(s) = 7
    BY <2>2 DEF PatchSteps
  <2>4. /\ s[1] = <<"patch", "retroarch">> /\ s[2] = <<"patch", "append">>
        /\ s[3] = <<"save", "state">> /\ s[4] = <<"patch", "conf">>
        /\ s[5] = <<"patch", "ppsspp">> /\ s[6] = <<"patch", "pcsx2">>
        /\ s[7] = <<"store", "state">>
    OBVIOUS
  <2> HIDE DEF s
  <2>5. \A i \in 1 .. 7 : i = 1 \/ i = 2 \/ i = 3 \/ i = 4 \/ i = 5 \/ i = 6 \/ i = 7
    OBVIOUS
  <2>6. \A i \in 1 .. 7 : s[i][1] # "revert"
    BY <2>4, <2>5
  <2>7. \A i \in 1 .. 7 : s[i][1] = "save" =>
           \A f \in RetroArchs : \E j \in 1 .. (i - 1) : Unsaved(s, f, j, i - 1)
    <3>1. Unsaved(s, "retroarch", 1, 2) /\ Unsaved(s, "append", 2, 2)
      BY <2>4 DEF Unsaved
    <3>2. \A i \in 1 .. 7 : s[i][1] = "save" => i = 3
      BY <2>4, <2>5
    <3> QED BY <2>2, <3>1, <3>2
  <2>8. \A i \in 1 .. 7 : s[i][1] = "store" =>
         \E j \in 1 .. (i - 1) :
           /\ s[j][1] = "save"
           /\ \A k \in (j + 1) .. (i - 1) : s[k][1] = "patch" /\ s[k][2] \notin RetroArchs
    <3>1. \A i \in 1 .. 7 : s[i][1] = "store" => i = 7
      BY <2>4, <2>5
    <3>2. s[3][1] = "save"
          /\ \A k \in 4 .. 6 : s[k][1] = "patch" /\ s[k][2] \notin RetroArchs
      BY <2>2, <2>4
    <3> QED BY <3>1, <3>2
  <2>9. \A i \in 1 .. 7 :
       /\ s[i] = <<"patch", "retroarch">> =>
            (i = 1 \/ s[i - 1][1] = "store")
            /\ ("append" \in Files => i < Len(s) /\ s[i + 1] = <<"patch", "append">>)
       /\ s[i] = <<"patch", "append">> => i > 1 /\ s[i - 1] = <<"patch", "retroarch">>
    <3>1. \A i \in 1 .. 7 : /\ s[i] = <<"patch", "retroarch">> => i = 1
                            /\ s[i] = <<"patch", "append">> => i = 2
      BY <2>4, <2>5
    <3> QED BY <2>2, <2>3, <2>4, <3>1
  <2> QED BY <2>1, <2>3, <2>4, <2>6, <2>7, <2>8, <2>9 DEF IsStart
<1>2. CASE device = "darkos"
  <2> DEFINE s == <<<<"patch", "retroarch">>, <<"save", "state">>, <<"patch", "secondary">>,
                    <<"patch", "ppsspp">>, <<"store", "state">>>>
  <2>1. CliPatch = s
    BY <1>2 DEF CliPatch
  <2>2. Files = {"retroarch", "secondary", "ppsspp"} /\ RetroArchs = {"retroarch"}
    BY <1>2, FilesOfDevices
  <2>3. s \in Seq(PatchSteps) /\ Len(s) = 5
    BY <2>2 DEF PatchSteps
  <2>4. /\ s[1] = <<"patch", "retroarch">> /\ s[2] = <<"save", "state">>
        /\ s[3] = <<"patch", "secondary">> /\ s[4] = <<"patch", "ppsspp">>
        /\ s[5] = <<"store", "state">>
    OBVIOUS
  <2> HIDE DEF s
  <2>5. \A i \in 1 .. 5 : i = 1 \/ i = 2 \/ i = 3 \/ i = 4 \/ i = 5
    OBVIOUS
  <2>6. \A i \in 1 .. 5 : s[i][1] # "revert"
    BY <2>4, <2>5
  <2>7. \A i \in 1 .. 5 : s[i][1] = "save" =>
           \A f \in RetroArchs : \E j \in 1 .. (i - 1) : Unsaved(s, f, j, i - 1)
    <3>1. Unsaved(s, "retroarch", 1, 1)
      BY <2>4 DEF Unsaved
    <3>2. \A i \in 1 .. 5 : s[i][1] = "save" => i = 2
      BY <2>4, <2>5
    <3> QED BY <2>2, <3>1, <3>2
  <2>8. \A i \in 1 .. 5 : s[i][1] = "store" =>
         \E j \in 1 .. (i - 1) :
           /\ s[j][1] = "save"
           /\ \A k \in (j + 1) .. (i - 1) : s[k][1] = "patch" /\ s[k][2] \notin RetroArchs
    <3>1. \A i \in 1 .. 5 : s[i][1] = "store" => i = 5
      BY <2>4, <2>5
    <3>2. s[2][1] = "save"
          /\ \A k \in 3 .. 4 : s[k][1] = "patch" /\ s[k][2] \notin RetroArchs
      BY <2>2, <2>4
    <3> QED BY <3>1, <3>2
  <2>9. \A i \in 1 .. 5 :
       /\ s[i] = <<"patch", "retroarch">> =>
            (i = 1 \/ s[i - 1][1] = "store")
            /\ ("append" \in Files => i < Len(s) /\ s[i + 1] = <<"patch", "append">>)
       /\ s[i] = <<"patch", "append">> => i > 1 /\ s[i - 1] = <<"patch", "retroarch">>
    <3>1. \A i \in 1 .. 5 : /\ s[i] = <<"patch", "retroarch">> => i = 1
                            /\ s[i] = <<"patch", "append">> => FALSE
      BY <2>4, <2>5
    <3> QED BY <2>2, <2>3, <2>4, <3>1
  <2> QED BY <2>1, <2>3, <2>4, <2>6, <2>7, <2>8, <2>9 DEF IsStart
<1> QED BY <1>1, <1>2, FilesOfDevices

(* So is that of the menu, which passes over the second RetroArch.                *)
LEMMA MenuStarts ==
  ASSUME ConfigTyped PROVE IsStart(MenuPatch)
<1>1. CASE device = "handheld"
  BY <1>1, CliStarts DEF MenuPatch
<1>2. CASE device = "darkos"
  <2> DEFINE s == <<<<"patch", "retroarch">>, <<"save", "state">>,
                    <<"patch", "ppsspp">>, <<"store", "state">>>>
  <2>1. MenuPatch = s
    BY <1>2 DEF MenuPatch
  <2>2. Files = {"retroarch", "secondary", "ppsspp"} /\ RetroArchs = {"retroarch"}
    BY <1>2, FilesOfDevices
  <2>3. s \in Seq(PatchSteps) /\ Len(s) = 4
    BY <2>2 DEF PatchSteps
  <2>4. /\ s[1] = <<"patch", "retroarch">> /\ s[2] = <<"save", "state">>
        /\ s[3] = <<"patch", "ppsspp">> /\ s[4] = <<"store", "state">>
    OBVIOUS
  <2> HIDE DEF s
  <2>5. \A i \in 1 .. 4 : i = 1 \/ i = 2 \/ i = 3 \/ i = 4
    OBVIOUS
  <2>6. \A i \in 1 .. 4 : s[i][1] # "revert"
    BY <2>4, <2>5
  <2>7. \A i \in 1 .. 4 : s[i][1] = "save" =>
           \A f \in RetroArchs : \E j \in 1 .. (i - 1) : Unsaved(s, f, j, i - 1)
    <3>1. Unsaved(s, "retroarch", 1, 1)
      BY <2>4 DEF Unsaved
    <3>2. \A i \in 1 .. 4 : s[i][1] = "save" => i = 2
      BY <2>4, <2>5
    <3> QED BY <2>2, <3>1, <3>2
  <2>8. \A i \in 1 .. 4 : s[i][1] = "store" =>
         \E j \in 1 .. (i - 1) :
           /\ s[j][1] = "save"
           /\ \A k \in (j + 1) .. (i - 1) : s[k][1] = "patch" /\ s[k][2] \notin RetroArchs
    <3>1. \A i \in 1 .. 4 : s[i][1] = "store" => i = 4
      BY <2>4, <2>5
    <3>2. s[2][1] = "save"
          /\ \A k \in 3 .. 3 : s[k][1] = "patch" /\ s[k][2] \notin RetroArchs
      BY <2>2, <2>4
    <3> QED BY <3>1, <3>2
  <2>9. \A i \in 1 .. 4 :
       /\ s[i] = <<"patch", "retroarch">> =>
            (i = 1 \/ s[i - 1][1] = "store")
            /\ ("append" \in Files => i < Len(s) /\ s[i + 1] = <<"patch", "append">>)
       /\ s[i] = <<"patch", "append">> => i > 1 /\ s[i - 1] = <<"patch", "retroarch">>
    <3>1. \A i \in 1 .. 4 : /\ s[i] = <<"patch", "retroarch">> => i = 1
                            /\ s[i] = <<"patch", "append">> => FALSE
      BY <2>4, <2>5
    <3> QED BY <2>2, <2>3, <2>4, <3>1
  <2> QED BY <2>1, <2>3, <2>4, <2>6, <2>7, <2>8, <2>9 DEF IsStart
<1> QED BY <1>1, <1>2, FilesOfDevices

(* Two starts one after the other are one.                                       *)
LEMMA StartsJoin ==
  ASSUME NEW p, NEW q, IsStart(p), IsStart(q)
  PROVE  IsStart(p \o q)
<1> DEFINE s == p \o q
           n == Len(p)
<1>1. /\ p \in Seq(PatchSteps) /\ q \in Seq(PatchSteps) /\ n \in Nat /\ Len(q) \in Nat
      /\ n > 0 /\ Len(q) > 0 /\ n \in 1 .. n /\ Len(q) \in 1 .. Len(q)
      /\ p[n][1] = "store" /\ q[Len(q)][1] = "store"
  BY DEF IsStart
<1>2. /\ s \in Seq(PatchSteps) /\ Len(s) = n + Len(q)
      /\ \A i \in 1 .. n : s[i] = p[i]
      /\ \A i \in 1 .. Len(q) : s[n + i] = q[i]
  BY <1>1
<1>3. \A i \in 1 .. Len(s) : i \in 1 .. n \/ (i - n \in 1 .. Len(q) /\ s[i] = q[i - n])
  <2> SUFFICES ASSUME NEW i \in 1 .. Len(s), i \notin 1 .. n
               PROVE  i - n \in 1 .. Len(q) /\ s[i] = q[i - n]
    OBVIOUS
  <2>1. i - n \in 1 .. Len(q) /\ n + (i - n) = i
    BY <1>1, <1>2
  <2> QED BY <1>2, <2>1
<1> HIDE DEF s, n
<1>4. \A i \in 1 .. Len(s) : s[i][1] # "revert"
  <2> SUFFICES ASSUME NEW i \in 1 .. Len(s) PROVE s[i][1] # "revert"
    OBVIOUS
  <2>1. CASE i \in 1 .. n
    BY <1>2, <2>1 DEF IsStart, n
  <2>2. CASE i - n \in 1 .. Len(q) /\ s[i] = q[i - n]
    BY <2>2 DEF IsStart
  <2> QED BY <1>3, <2>1, <2>2
<1>8. s[Len(s)][1] = "store"
  BY <1>1, <1>2
<1>5. ASSUME NEW i \in 1 .. Len(s), s[i][1] = "save", NEW f \in RetroArchs
      PROVE  \E j \in 1 .. (i - 1) : Unsaved(s, f, j, i - 1)
  <2>1. CASE i \in 1 .. n
    <3>1. PICK j \in 1 .. (i - 1) : Unsaved(p, f, j, i - 1)
      BY <1>2, <1>5, <2>1 DEF IsStart, n
    <3>2. j \in 1 .. n /\ \A k \in j .. (i - 1) : k \in 1 .. n
      BY <1>1, <2>1, <3>1
    <3>3. Unsaved(s, f, j, i - 1)
      BY <1>2, <3>1, <3>2 DEF Unsaved
    <3> QED BY <3>3
  <2>2. CASE i - n \in 1 .. Len(q) /\ s[i] = q[i - n]
    <3>1. PICK j \in 1 .. (i - n - 1) : Unsaved(q, f, j, i - n - 1)
      BY <1>5, <2>2 DEF IsStart
    <3>2. n + j \in 1 .. (i - 1) /\ s[n + j] = q[j]
      <4>1. j \in 1 .. Len(q) /\ n + j \in 1 .. (i - 1)
        BY <1>1, <2>2, <3>1
      <4> QED BY <1>2, <4>1
    <3>3. ASSUME NEW k \in (n + j) .. (i - 1) PROVE s[k][1] = "patch"
      <4>1. k - n \in j .. (i - n - 1) /\ k - n \in 1 .. Len(q) /\ n + (k - n) = k
        BY <1>1, <1>2, <2>2, <3>1
      <4> QED BY <1>2, <3>1, <4>1 DEF Unsaved
    <3> QED BY <3>1, <3>2, <3>3 DEF Unsaved
  <2> QED BY <1>3, <2>1, <2>2
<1>6. ASSUME NEW i \in 1 .. Len(s), s[i][1] = "store"
      PROVE  \E j \in 1 .. (i - 1) :
               /\ s[j][1] = "save"
               /\ \A k \in (j + 1) .. (i - 1) : s[k][1] = "patch" /\ s[k][2] \notin RetroArchs
  <2>1. CASE i \in 1 .. n
    <3>1. PICK j \in 1 .. (i - 1) :
             /\ p[j][1] = "save"
             /\ \A k \in (j + 1) .. (i - 1) : p[k][1] = "patch" /\ p[k][2] \notin RetroArchs
      BY <1>2, <1>6, <2>1 DEF IsStart, n
    <3>2. j \in 1 .. n /\ \A k \in (j + 1) .. (i - 1) : k \in 1 .. n
      BY <1>1, <2>1, <3>1
    <3>3. s[j][1] = "save"
      BY <1>2, <3>1, <3>2
    <3>4. ASSUME NEW k \in (j + 1) .. (i - 1)
          PROVE  s[k][1] = "patch" /\ s[k][2] \notin RetroArchs
      BY <1>2, <3>1, <3>2
    <3> QED BY <3>1, <3>3, <3>4
  <2>2. CASE i - n \in 1 .. Len(q) /\ s[i] = q[i - n]
    <3>1. PICK j \in 1 .. (i - n - 1) :
             /\ q[j][1] = "save"
             /\ \A k \in (j + 1) .. (i - n - 1) : q[k][1] = "patch" /\ q[k][2] \notin RetroArchs
      BY <1>6, <2>2 DEF IsStart
    <3>2. n + j \in 1 .. (i - 1) /\ s[n + j] = q[j]
      <4>1. j \in 1 .. Len(q) /\ n + j \in 1 .. (i - 1)
        BY <1>1, <2>2, <3>1
      <4> QED BY <1>2, <4>1
    <3>3. ASSUME NEW k \in (n + j + 1) .. (i - 1)
          PROVE  s[k][1] = "patch" /\ s[k][2] \notin RetroArchs
      <4>1. k - n \in (j + 1) .. (i - n - 1) /\ k - n \in 1 .. Len(q) /\ n + (k - n) = k
        BY <1>1, <1>2, <2>2, <3>1
      <4> QED BY <1>2, <3>1, <4>1
    <3> QED BY <3>1, <3>2, <3>3
  <2> QED BY <1>3, <2>1, <2>2
<1>7. ASSUME NEW i \in 1 .. Len(s)
      PROVE  /\ s[i] = <<"patch", "retroarch">> =>
                  (i = 1 \/ s[i - 1][1] = "store")
                  /\ ("append" \in Files => i < Len(s) /\ s[i + 1] = <<"patch", "append">>)
             /\ s[i] = <<"patch", "append">> => i > 1 /\ s[i - 1] = <<"patch", "retroarch">>
  <2>1. CASE i \in 1 .. n
    <3>1. i > 1 => i - 1 \in 1 .. n
      BY <1>1, <2>1
    <3>2. i < n => i + 1 \in 1 .. n /\ i < Len(s)
      BY <1>1, <1>2, <2>1
    <3>3. s[i] = p[i] /\ (i > 1 => s[i - 1] = p[i - 1]) /\ (i < n => s[i + 1] = p[i + 1])
      BY <1>2, <2>1, <3>1, <3>2
    <3>4. /\ p[i] = <<"patch", "retroarch">> =>
               (i = 1 \/ p[i - 1][1] = "store")
               /\ ("append" \in Files => i < n /\ p[i + 1] = <<"patch", "append">>)
          /\ p[i] = <<"patch", "append">> => i > 1 /\ p[i - 1] = <<"patch", "retroarch">>
      BY <2>1 DEF IsStart, n
    <3>5. i = 1 \/ i > 1
      BY <2>1
    <3> QED BY <3>2, <3>3, <3>4, <3>5
  <2>2. CASE i - n \in 1 .. Len(q) /\ s[i] = q[i - n]
    <3> DEFINE h == i - n
    <3>1. h > 1 => h - 1 \in 1 .. Len(q) /\ s[i - 1] = q[h - 1] /\ i > 1
      <4>1. h > 1 => h - 1 \in 1 .. Len(q) /\ n + (h - 1) = i - 1 /\ i > 1
        BY <1>1, <2>2
      <4> QED BY <1>2, <4>1
    <3>2. h < Len(q) => h + 1 \in 1 .. Len(q) /\ s[i + 1] = q[h + 1] /\ i < Len(s)
      <4>1. h < Len(q) => h + 1 \in 1 .. Len(q) /\ n + (h + 1) = i + 1 /\ i < Len(s)
        BY <1>1, <1>2, <2>2
      <4> QED BY <1>2, <4>1
    <3>3. h = 1 => i - 1 = n /\ s[n] = p[n] /\ n \in 1 .. n /\ i > 1
      BY <1>1, <1>2, <2>2
    <3>4. /\ q[h] = <<"patch", "retroarch">> =>
               (h = 1 \/ q[h - 1][1] = "store")
               /\ ("append" \in Files => h < Len(q) /\ q[h + 1] = <<"patch", "append">>)
          /\ q[h] = <<"patch", "append">> => h > 1 /\ q[h - 1] = <<"patch", "retroarch">>
      BY <2>2 DEF IsStart
    <3>5. (h = 1 \/ h > 1) /\ s[i] = q[h]
      BY <2>2
    <3> HIDE DEF h
    <3> QED BY <1>1, <3>1, <3>2, <3>3, <3>4, <3>5
  <2> QED BY <1>3, <2>1, <2>2
<1>9. IsStart(s)
  BY <1>1, <1>2, <1>4, <1>5, <1>6, <1>7, <1>8 DEF IsStart
<1> QED BY <1>9 DEF s

(* The passes go through every file, but that of the menu through the second RetroArch.  *)
LEMMA PassesCover ==
  ASSUME ConfigTyped
  PROVE  /\ \A f \in Files : \E i \in 1 .. Len(CliPatch) : CliPatch[i] = <<"patch", f>>
         /\ IsStop(CliRevert) /\ IsStop(MenuRevert)
         /\ \A f \in Files \ {"secondary"} :
              /\ \E i \in 1 .. Len(CliRevert) : CliRevert[i] = <<"revert", f>>
              /\ \E i \in 1 .. Len(MenuRevert) : MenuRevert[i] = <<"revert", f>>
<1>1. CASE device = "handheld"
  <2>1. Files = {"retroarch", "append", "conf", "ppsspp", "pcsx2"}
    BY <1>1, FilesOfDevices
  <2>2. \A f \in Files : \E i \in 1 .. Len(CliPatch) : CliPatch[i] = <<"patch", f>>
    <3> DEFINE s == <<<<"patch", "retroarch">>, <<"patch", "append">>, <<"save", "state">>,
                      <<"patch", "conf">>, <<"patch", "ppsspp">>, <<"patch", "pcsx2">>,
                      <<"store", "state">>>>
    <3>1. CliPatch = s
      BY <1>1 DEF CliPatch
    <3>2. /\ s[1] = <<"patch", "retroarch">> /\ s[2] = <<"patch", "append">>
          /\ s[4] = <<"patch", "conf">> /\ s[5] = <<"patch", "ppsspp">>
          /\ s[6] = <<"patch", "pcsx2">> /\ Len(s) = 7
      OBVIOUS
    <3> HIDE DEF s
    <3> QED BY <2>1, <3>1, <3>2
  <2> DEFINE t == <<<<"revert", "conf">>, <<"revert", "ppsspp">>, <<"revert", "pcsx2">>,
                    <<"revert", "retroarch">>, <<"revert", "append">>>>
  <2>3. CliRevert = t /\ MenuRevert = t
    BY <1>1 DEF CliRevert, MenuRevert
  <2>4. t \in Seq(PatchSteps) /\ Len(t) = 5
    BY <2>1 DEF PatchSteps
  <2>5. /\ t[1] = <<"revert", "conf">> /\ t[2] = <<"revert", "ppsspp">>
        /\ t[3] = <<"revert", "pcsx2">> /\ t[4] = <<"revert", "retroarch">>
        /\ t[5] = <<"revert", "append">>
    OBVIOUS
  <2> HIDE DEF t
  <2>6. \A i \in 1 .. 5 : t[i][1] = "revert"
    <3>1. \A i \in 1 .. 5 : i = 1 \/ i = 2 \/ i = 3 \/ i = 4 \/ i = 5
      OBVIOUS
    <3> QED BY <2>5, <3>1
  <2>7. IsStop(t)
    BY <2>4, <2>6 DEF IsStop
  <2>8. \A f \in Files : \E i \in 1 .. Len(t) : t[i] = <<"revert", f>>
    BY <2>1, <2>4, <2>5
  <2> QED BY <2>2, <2>3, <2>7, <2>8
<1>2. CASE device = "darkos"
  <2>1. Files = {"retroarch", "secondary", "ppsspp"}
    BY <1>2, FilesOfDevices
  <2>2. \A f \in Files : \E i \in 1 .. Len(CliPatch) : CliPatch[i] = <<"patch", f>>
    <3> DEFINE s == <<<<"patch", "retroarch">>, <<"save", "state">>, <<"patch", "secondary">>,
                      <<"patch", "ppsspp">>, <<"store", "state">>>>
    <3>1. CliPatch = s
      BY <1>2 DEF CliPatch
    <3>2. /\ s[1] = <<"patch", "retroarch">> /\ s[3] = <<"patch", "secondary">>
          /\ s[4] = <<"patch", "ppsspp">> /\ Len(s) = 5
      OBVIOUS
    <3> HIDE DEF s
    <3> QED BY <2>1, <3>1, <3>2
  <2> DEFINE t == <<<<"revert", "ppsspp">>, <<"revert", "secondary">>, <<"revert", "retroarch">>>>
             u == <<<<"revert", "ppsspp">>, <<"revert", "retroarch">>>>
  <2>3. CliRevert = t /\ MenuRevert = u
    BY <1>2 DEF CliRevert, MenuRevert
  <2>4. t \in Seq(PatchSteps) /\ Len(t) = 3 /\ u \in Seq(PatchSteps) /\ Len(u) = 2
    BY <2>1 DEF PatchSteps
  <2>5. /\ t[1] = <<"revert", "ppsspp">> /\ t[2] = <<"revert", "secondary">>
        /\ t[3] = <<"revert", "retroarch">>
        /\ u[1] = <<"revert", "ppsspp">> /\ u[2] = <<"revert", "retroarch">>
    OBVIOUS
  <2> HIDE DEF t, u
  <2>6. /\ \A i \in 1 .. 3 : t[i][1] = "revert"
        /\ \A i \in 1 .. 2 : u[i][1] = "revert"
    <3>1. /\ \A i \in 1 .. 3 : i = 1 \/ i = 2 \/ i = 3
          /\ \A i \in 1 .. 2 : i = 1 \/ i = 2
      OBVIOUS
    <3> QED BY <2>5, <3>1
  <2>7. IsStop(t) /\ IsStop(u)
    BY <2>4, <2>6 DEF IsStop
  <2>8. \A f \in Files \ {"secondary"} : /\ \E i \in 1 .. Len(t) : t[i] = <<"revert", f>>
                                         /\ \E i \in 1 .. Len(u) : u[i] = <<"revert", f>>
    BY <2>1, <2>4, <2>5
  <2> QED BY <2>2, <2>3, <2>7, <2>8
<1> QED BY <1>1, <1>2, FilesOfDevices

(* What the files are stays, and so does what a pass is.                       *)
LEMMA FilesStay ==
  ASSUME ConfigTyped, device' = device, cfg' \in [FilesOf[device] -> Contents]
  PROVE  /\ Files' = Files /\ RetroArchs' = RetroArchs /\ PatchSteps' = PatchSteps
         /\ IsStart(job.pass)' <=> IsStart(job'.pass)
         /\ IsStop(job.pass)' <=> IsStop(job'.pass)
<1>1. Files' = Files
  BY DEF ConfigTyped, Files
<1>2. RetroArchs' = RetroArchs /\ PatchSteps' = PatchSteps
  BY <1>1 DEF RetroArchs, PatchSteps
<1>3. IsStart(job.pass)' <=> IsStart(job'.pass)
  <2>1. IsStart(job.pass)' => IsStart(job'.pass)
    BY ZenonT(30), <1>1, <1>2 DEF IsStart, Unsaved
  <2>2. IsStart(job'.pass) => IsStart(job.pass)'
    BY <1>1, <1>2 DEF IsStart, Unsaved
  <2> QED BY <2>1, <2>2
<1>4. IsStop(job.pass)' <=> IsStop(job'.pass)
  BY Zenon, <1>2 DEF IsStop
<1> QED BY <1>1, <1>2, <1>3, <1>4

(* What the types say of a job, of one file, and of what is recorded.             *)
LEMMA JobFields ==
  ASSUME ConfigTyped
  PROVE  /\ job.pass \in Seq(PatchSteps) /\ job.at \in Nat /\ job.again \in BOOLEAN
         /\ job.previous \in SavedStates \cup {NoState}
         /\ DOMAIN job.got \subseteq Files
         /\ \A f \in DOMAIN job.got : job.got[f].value \in Contents /\ job.got[f].already \in BOOLEAN
         /\ \A f \in Files : cfg[f] \in Contents /\ cfg[f].host \in Hosts /\ cfg[f].hard \in BOOLEAN
         /\ \A s \in {patchState, job.previous} \ {NoState} :
              /\ s.proxy \in Ports /\ DOMAIN s.of \subseteq AllFiles
              /\ \A f \in DOMAIN s.of : s.of[f] \in Contents
         /\ \A f \in Files : before[f] \in Values
<1> USE DEF Jobs
<1>1. job \in Jobs
  BY DEF ConfigTyped
<1>2. /\ job.pass \in Seq(PatchSteps) /\ job.at \in Nat /\ job.again \in BOOLEAN
      /\ job.previous \in SavedStates \cup {NoState}
      /\ job.got \in UNION {[fs -> Records] : fs \in SUBSET Files}
  BY <1>1
<1>3. PICK xs \in SUBSET Files : job.got \in [xs -> Records]
  BY <1>2
<1>4. \A f \in DOMAIN job.got : job.got[f].value \in Contents /\ job.got[f].already \in BOOLEAN
  BY <1>3 DEF Records
<1>5. \A f \in Files : cfg[f] \in Contents /\ cfg[f].host \in Hosts /\ cfg[f].hard \in BOOLEAN
  BY FilesOfDevices DEF ConfigTyped, Contents
<1>6. ASSUME NEW s \in SavedStates
      PROVE  /\ s.proxy \in Ports /\ DOMAIN s.of \subseteq AllFiles
             /\ \A f \in DOMAIN s.of : s.of[f] \in Contents
  <2>1. s.proxy \in Ports /\ s.of \in UNION {[fs -> Contents] : fs \in SUBSET AllFiles}
    BY <1>6 DEF SavedStates, AllFiles
  <2> QED BY <2>1
<1>7. \A f \in Files : before[f] \in Values
  BY FilesOfDevices DEF ConfigTyped
<1> QED BY <1>2, <1>3, <1>4, <1>5, <1>6, <1>7 DEF ConfigTyped

(* A pass that begins while none runs keeps the invariant.                       *)
LEMMA PassBegins ==
  ASSUME PatchInv, Idle, NEW pass, Begin(pass),
         UNCHANGED <<device, cfg, patchState, autostart, powerFails, edits, before, pointed,
                     muddled>>,
         port' \in Ports, port' = "proxy" => port = "proxy", up' \in BOOLEAN, powered' = TRUE,
         ended' = "none",
         \/ /\ IsStart(pass) /\ up' /\ \A f \in Files : \E i \in 1 .. Len(pass) : pass[i] = <<"patch", f>>
         \/ /\ IsStop(pass)
            /\ \A f \in Files \ {"secondary"} : \E i \in 1 .. Len(pass) : pass[i] = <<"revert", f>>
  PROVE  PatchInv'
<1> USE DEF Jobs
<1>0. ConfigTyped /\ JobRuns /\ PortsKnown /\ RetroArchKept
  BY DEF PatchInv
<1>1. /\ pass \in Seq(PatchSteps) /\ Len(pass) \in Nat /\ Len(pass) > 0
  BY DEF IsStart, IsStop
<1>2. /\ job' = [pass |-> pass, at |-> 1, previous |-> patchState, again |-> FALSE, got |-> <<>>]
      /\ job'.pass = pass /\ job'.at = 1 /\ job'.previous = patchState /\ job'.again = FALSE
      /\ job'.got = <<>> /\ DOMAIN job'.got = {} /\ pass # <<>>
  <2>1. job' = [pass |-> pass, at |-> 1, previous |-> patchState, again |-> FALSE, got |-> <<>>]
    BY DEF Begin, NoJob
  <2>2. pass # <<>>
    BY <1>1
  <2>3. DOMAIN <<>> = {}
    OBVIOUS
  <2> QED BY <2>1, <2>2, <2>3
<1>3. /\ Files' = Files /\ RetroArchs' = RetroArchs /\ PatchSteps' = PatchSteps
      /\ IsStart(job.pass)' <=> IsStart(pass)
      /\ IsStop(job.pass)' <=> IsStop(pass)
  <2>1. cfg' \in [FilesOf[device] -> Contents] /\ device' = device
    BY <1>0 DEF ConfigTyped
  <2> QED BY <1>0, <1>2, <2>1, FilesStay
<1>4. ConfigTyped'
  <2>1. <<>> \in UNION {[fs -> Records] : fs \in SUBSET Files}
    <3>1. <<>> \in [{} -> Records]
      OBVIOUS
    <3> QED BY <3>1
  <2>2. patchState \in SavedStates \cup {NoState}
    BY <1>0 DEF ConfigTyped
  <2> HIDE DEF Begin
  <2>3. job' \in Jobs
    BY <1>1, <1>2, <2>1, <2>2
  <2>4. Records' = Records
    BY DEF Records
  <2> QED BY <1>0, <1>2, <1>3, <2>3, <2>4 DEF ConfigTyped
<1>5. ~Idle'
  BY <1>2 DEF Idle
<1>6. ~(IsStart(pass) /\ IsStop(pass))
  BY <1>1 DEF IsStart, IsStop
<1>7. JobRuns'
  <2>1. job'.at \in 1 .. Len(job'.pass) /\ powered'
    BY <1>1, <1>2
  <2>2. Starting' => up' /\ \A f \in Files' :
           \E i \in job'.at .. Len(job'.pass) : job'.pass[i] = <<"patch", f>>
    BY <1>2, <1>3, <1>6 DEF Starting
  <2>3. Stopping' => \A f \in Files' \ {"secondary"} :
           \E i \in job'.at .. Len(job'.pass) : job'.pass[i] = <<"revert", f>>
    BY <1>2, <1>3, <1>6 DEF Stopping
  <2> QED BY <1>3, <1>5, <2>1, <2>2, <2>3 DEF JobRuns
<1>8. PortsKnown'
  BY <1>0, <1>2, <1>3 DEF PortsKnown
<1>9. GotSince'
  BY <1>2, <1>3 DEF GotSince, Starting, Stopping
<1>10. RetroArchKept'
  <2> SUFFICES ASSUME Clear' PROVE RetroArchKept'
    BY DEF RetroArchKept
  <2>1. Clear /\ port' = port
    BY DEF Clear
  <2>2. DOMAIN job.got = {} /\ ~Between /\ ~Between'
    BY <1>0, <1>2 DEF JobRuns, Between, Starting
  <2>3. \A f \in RetroArchs' : (Ours(f)' <=> Ours(f)) /\ PatchedContent(f)' = PatchedContent(f)
    BY <2>1 DEF Ours, PatchedContent
  <2>4. "append" \in Files => "retroarch" \in RetroArchs /\ "append" \in RetroArchs
    BY <1>0, FilesOfDevices
  <2>5. "append" \in Files => (Ours("retroarch") <=> Ours("append"))
    BY <1>0, <2>1, <2>2 DEF RetroArchKept
  <2>6. "append" \in Files' => (Ours("retroarch")' <=> Ours("append")')
    BY <1>3, <2>3, <2>4, <2>5
  <2>7. \A f \in RetroArchs' :
       /\ f \in DOMAIN job'.got => job'.got[f].value = before'[f] /\ f \in pointed' /\ Ours(f)'
       /\ f \in pointed' /\ f \notin DOMAIN job'.got =>
            Recorded(patchState, f)' /\ patchState'.of[f] = before'[f]
       /\ f \in pointed' => cfg'[f] = PatchedContent(f)' \/ cfg'[f] = before'[f]
       /\ f \notin pointed' => ~Ours(f)'
    BY <1>0, <1>2, <1>3, <2>1, <2>2, <2>3 DEF RetroArchKept, Recorded
  <2> QED BY <1>5, <2>2, <2>6, <2>7 DEF RetroArchKept
<1>11. AllPatched' /\ StopDisconnects'
  BY DEF AllPatched, StopDisconnects
<1> QED BY <1>4, <1>7, <1>8, <1>9, <1>10, <1>11 DEF PatchInv

(* A start, from the command line or the menu, and so at boot.                    *)
LEMMA PatchStarts ==
  ASSUME PatchInv, NEW by \in {"cli", "menu"}, StartProxy(by)
  PROVE  PatchInv'
<1> DEFINE own == IF by = "menu" THEN MenuPatch ELSE CliPatch
           pass == IF device = "darkos" /\ ~up THEN CliPatch \o own ELSE own
<1>0. ConfigTyped
  BY DEF PatchInv
<1>1. /\ Idle /\ Begin(pass) /\ (by = "menu" => ~up)
      /\ UNCHANGED <<device, cfg, patchState, autostart, powerFails, edits, before, pointed,
                     muddled>>
      /\ powered' = TRUE /\ up' = TRUE /\ ended' = "none" /\ port' \in FreePort
  BY <1>0 DEF StartProxy, ConfigTyped
<1>2. port' \in Ports /\ (port' = "proxy" => port = "proxy")
  BY <1>0, <1>1 DEF FreePort, Ports, ConfigTyped
<1>3. IsStart(CliPatch) /\ IsStart(own)
  BY <1>0, CliStarts, MenuStarts
<1>4. \A f \in Files : \E i \in 1 .. Len(CliPatch) : CliPatch[i] = <<"patch", f>>
  BY <1>0, PassesCover
<1>5. IsStart(pass) /\ \A f \in Files : \E i \in 1 .. Len(pass) : pass[i] = <<"patch", f>>
  <2>1. CASE device = "darkos" /\ ~up
    <3>1. pass = CliPatch \o own
      BY <2>1
    <3> HIDE DEF own, pass
    <3>2. IsStart(pass)
      BY <1>3, <3>1, StartsJoin
    <3>3. CliPatch \in Seq(PatchSteps) /\ own \in Seq(PatchSteps)
      BY <1>3 DEF IsStart
    <3>4. \A i \in 1 .. Len(CliPatch) : i \in 1 .. Len(pass) /\ pass[i] = CliPatch[i]
      BY <3>1, <3>3
    <3> QED BY <1>4, <3>2, <3>4
  <2>2. CASE ~(device = "darkos" /\ ~up)
    <3>1. own = CliPatch /\ pass = own
      BY <1>0, <1>1, <2>2 DEF MenuPatch, ConfigTyped
    <3> QED BY <1>3, <1>4, <3>1
  <2> QED BY <2>1, <2>2
<1> HIDE DEF own, pass
<1> QED BY <1>1, <1>2, <1>5, PassBegins

(* A stop.                                                                     *)
LEMMA PatchStops ==
  ASSUME PatchInv, NEW by \in {"cli", "menu"}, StopProxy(by)
  PROVE  PatchInv'
<1>0. ConfigTyped
  BY DEF PatchInv
<1> DEFINE pass == IF by = "menu" THEN MenuRevert ELSE CliRevert
<1>1. /\ Idle /\ Begin(pass)
      /\ UNCHANGED <<device, cfg, patchState, autostart, powerFails, edits, before, pointed,
                     muddled>>
      /\ powered' = TRUE /\ up' = FALSE /\ ended' = "none" /\ port' = port
  BY <1>0 DEF StopProxy, ConfigTyped
<1>2. port' \in Ports
  BY <1>0, <1>1 DEF ConfigTyped
<1>3. IsStop(pass) /\ \A f \in Files \ {"secondary"} : \E i \in 1 .. Len(pass) : pass[i] = <<"revert", f>>
  BY <1>0, PassesCover
<1> HIDE DEF pass
<1>4. up' \in BOOLEAN /\ (port' = "proxy" => port = "proxy")
  BY <1>1
<1> QED BY <1>1, <1>2, <1>3, <1>4, PassBegins

(* A boot starts the service or stops it, and on dArkOS leaves that to systemd.      *)
LEMMA PatchBoots ==
  ASSUME PatchInv, Boot
  PROVE  PatchInv'
<1> USE DEF Jobs
<1>0. ConfigTyped /\ JobRuns
  BY DEF PatchInv
<1>1. /\ UNCHANGED <<device, cfg, patchState, autostart, powerFails, edits, before, pointed,
                     muddled>>
      /\ ~powered /\ powered' = TRUE /\ up' = autostart /\ ended' = "none"
      /\ port' \in (IF autostart THEN FreePort ELSE {port})
  BY DEF Boot
<1>2. /\ port' \in Ports /\ (port' = "proxy" => port = "proxy") /\ up' \in BOOLEAN
  BY <1>0, <1>1 DEF FreePort, Ports, ConfigTyped
<1>3. Idle
  BY <1>0, <1>1 DEF JobRuns
<1>4. CASE autostart
  <2>1. Begin(CliPatch) /\ up'
    BY <1>1, <1>4 DEF Boot
  <2>2. IsStart(CliPatch) /\ \A f \in Files : \E i \in 1 .. Len(CliPatch) : CliPatch[i] = <<"patch", f>>
    BY <1>0, CliStarts, PassesCover
  <2> QED BY <1>1, <1>2, <1>3, <2>1, <2>2, PassBegins
<1>5. CASE ~autostart /\ device = "handheld"
  <2>1. Begin(CliRevert)
    BY <1>5 DEF Boot
  <2>2. IsStop(CliRevert)
        /\ \A f \in Files \ {"secondary"} : \E i \in 1 .. Len(CliRevert) : CliRevert[i] = <<"revert", f>>
    BY <1>0, PassesCover
  <2> QED BY <1>1, <1>2, <1>3, <2>1, <2>2, PassBegins
<1>6. CASE ~autostart /\ device = "darkos"
  <2>1. job' = [pass |-> <<>>, at |-> 1, previous |-> patchState, again |-> FALSE, got |-> <<>>]
        /\ port' = port
    BY <1>1, <1>6 DEF Boot, Begin, NoJob
  <2>2. /\ job'.pass = <<>> /\ job'.at = 1 /\ job'.previous = patchState /\ job'.again = FALSE
        /\ job'.got = <<>> /\ DOMAIN job'.got = {} /\ job'.at \in Nat
    <3>1. DOMAIN <<>> = {}
      OBVIOUS
    <3> QED BY <2>1, <3>1
  <2>3. Files' = Files /\ RetroArchs' = RetroArchs /\ PatchSteps' = PatchSteps
    <3>1. cfg' \in [FilesOf[device] -> Contents] /\ device' = device
      BY <1>0, <1>1 DEF ConfigTyped
    <3> QED BY <1>0, <3>1, FilesStay
  <2>4. ConfigTyped'
    <3>1. <<>> \in UNION {[fs -> Records] : fs \in SUBSET Files}
      <4>1. <<>> \in [{} -> Records]
        OBVIOUS
      <4> QED BY <4>1
    <3>2. patchState \in SavedStates \cup {NoState} /\ <<>> \in Seq(PatchSteps)
      BY <1>0 DEF ConfigTyped
    <3>3. job' \in Jobs
      BY <2>1, <3>1, <3>2
    <3>4. Records' = Records
      BY DEF Records
    <3> QED BY <1>0, <1>1, <1>2, <2>2, <2>3, <3>3, <3>4 DEF ConfigTyped
  <2>5. Idle' /\ ~Starting' /\ ~Stopping' /\ ~Between'
    BY <2>2 DEF Idle, Starting, Stopping, Between
  <2>6. JobRuns' /\ GotSince'
    BY <2>2, <2>5 DEF JobRuns, GotSince
  <2>7. PortsKnown'
    BY <1>1, <2>1, <2>2, <2>3 DEF PatchInv, PortsKnown
  <2>8. RetroArchKept'
    <3> SUFFICES ASSUME Clear' PROVE RetroArchKept'
      BY DEF RetroArchKept
    <3>1. Clear /\ DOMAIN job.got = {}
      BY <1>0, <1>1, <1>3, <2>1 DEF Clear, JobRuns
    <3>2. "append" \notin Files
      BY <1>0, <1>6, FilesOfDevices
    <3>3. \A f \in RetroArchs' : (Ours(f)' <=> Ours(f)) /\ PatchedContent(f)' = PatchedContent(f)
      BY <1>1, <2>1 DEF Ours, PatchedContent
    <3>4. \A f \in RetroArchs' :
         /\ f \in DOMAIN job'.got => job'.got[f].value = before'[f] /\ f \in pointed' /\ Ours(f)'
         /\ f \in pointed' /\ f \notin DOMAIN job'.got =>
              Recorded(patchState, f)' /\ patchState'.of[f] = before'[f]
         /\ f \in pointed' => cfg'[f] = PatchedContent(f)' \/ cfg'[f] = before'[f]
         /\ f \notin pointed' => ~Ours(f)'
      BY <1>1, <2>2, <2>3, <3>1, <3>3 DEF PatchInv, RetroArchKept, Recorded
    <3> QED BY <2>3, <3>2, <3>4 DEF RetroArchKept
  <2>9. AllPatched' /\ StopDisconnects'
    BY <1>1 DEF AllPatched, StopDisconnects
  <2> QED BY <2>4, <2>6, <2>7, <2>8, <2>9 DEF PatchInv
<1> QED BY <1>0, <1>4, <1>5, <1>6 DEF ConfigTyped

(* What is captured is something a file can say, and no address nobody has seen.     *)
LEMMA CaptureTyped ==
  ASSUME ConfigTyped, NEW f \in Files
  PROVE  /\ Capture(f) \in Contents
         /\ PortsKnown /\ port = "proxy" => Capture(f).host # "nextPort"
<1>1. /\ cfg[f] \in Contents /\ cfg[f].host \in Hosts /\ cfg[f].hard \in BOOLEAN
      /\ Recorded(patchState, f) => patchState.of[f] \in Contents
      /\ Recorded(job.previous, f) => job.previous.of[f] \in Contents
  BY JobFields DEF Recorded
<1>2. PortsKnown /\ port = "proxy" =>
        /\ cfg[f].host # "nextPort"
        /\ Recorded(patchState, f) => patchState.of[f].host # "nextPort"
        /\ Recorded(job.previous, f) => job.previous.of[f].host # "nextPort"
  BY DEF PortsKnown, Recorded
<1> DEFINE Fine(c) == c \in Contents /\ (PortsKnown /\ port = "proxy" => c.host # "nextPort")
<1>3. Fine(FirstCapture(f))
  BY <1>1, <1>2 DEF FirstCapture
<1>4. Fine(AppendCapture(f))
  <2>1. [cfg[f] EXCEPT !.host = ""] \in Contents /\ [cfg[f] EXCEPT !.host = ""].host = ""
    BY <1>1 DEF Contents, Hosts
  <2> QED BY <1>1, <1>2, <2>1 DEF AppendCapture
<1>5. Fine(SecondaryCapture(f))
  BY <1>1, <1>2 DEF SecondaryCapture
<1>6. Fine(cfg[f])
  BY <1>1, <1>2
<1> HIDE DEF Fine
<1>7. Fine(Capture(f))
  BY <1>3, <1>4, <1>5, <1>6 DEF Capture
<1> QED BY <1>7 DEF Fine

(* The fields of the job after one more file is patched.                          *)
LEMMA JobPatched ==
  ASSUME PatchInv, NEW f \in Files, PatchFile(f)
  PROVE  /\ job' \in Jobs
         /\ job'.pass = job.pass /\ job'.at = job.at + 1
         /\ job'.previous = IF f = "retroarch" THEN patchState ELSE job.previous
         /\ job'.again <=> IF f = "retroarch" THEN AlreadyPatched(f) /\ Recorded(patchState, f)
                           ELSE job.again
         /\ DOMAIN job'.got = DOMAIN job.got \cup {f}
         /\ job'.got[f].value = Capture(f)
         /\ \A g \in DOMAIN job.got \ {f} : job'.got[g] = job.got[g]
<1> USE DEF Jobs
<1>0. ConfigTyped
  BY DEF PatchInv
<1>1. job \in Jobs
  BY <1>0 DEF ConfigTyped
<1> DEFINE prev == IF f = "retroarch" THEN patchState ELSE job.previous
           again == IF f = "retroarch" THEN AlreadyPatched(f) /\ Recorded(patchState, f) ELSE job.again
           got == PutIn(job.got, f, [value |-> Capture(f), already |-> AlreadyPatched(f)])
<1>2. job' = [pass |-> job.pass, at |-> job.at + 1, previous |-> prev, again |-> again, got |-> got]
  <2>1. job' = [[job EXCEPT !.at = job.at + 1] EXCEPT
          !.previous = IF f = "retroarch" THEN patchState ELSE @,
          !.again = IF f = "retroarch" THEN AlreadyPatched(f) /\ Recorded(patchState, f) ELSE @,
          !.got = PutIn(@, f, [value |-> Capture(f), already |-> AlreadyPatched(f)])]
    BY DEF PatchFile, Rest
  <2>2. job' = [[job EXCEPT !.at = job.at + 1] EXCEPT !.previous = prev, !.again = again, !.got = got]
    BY <1>1, <2>1
  <2> HIDE DEF prev, again, got
  <2> QED BY <1>1, <2>2
<1>3. /\ prev \in SavedStates \cup {NoState} /\ again \in BOOLEAN
  <2>1. patchState \in SavedStates \cup {NoState} /\ job.previous \in SavedStates \cup {NoState}
        /\ job.again \in BOOLEAN
    BY <1>0, JobFields DEF ConfigTyped
  <2>2. AlreadyPatched(f) \in BOOLEAN /\ Recorded(patchState, f) \in BOOLEAN
    BY Zenon DEF AlreadyPatched, Recorded, Patched
  <2> QED BY <2>1, <2>2
<1>4. /\ got \in UNION {[fs -> Records] : fs \in SUBSET Files}
      /\ DOMAIN got = DOMAIN job.got \cup {f} /\ got[f].value = Capture(f)
      /\ \A g \in DOMAIN job.got \ {f} : got[g] = job.got[g]
  <2> DEFINE v == [value |-> Capture(f), already |-> AlreadyPatched(f)]
  <2>1. v \in Records /\ v.value = Capture(f)
    <3>1. AlreadyPatched(f) \in BOOLEAN
      BY Zenon DEF AlreadyPatched, Patched
    <3>2. Capture(f) \in Contents
      BY <1>0, CaptureTyped
    <3> QED BY <3>1, <3>2 DEF Records
  <2> HIDE DEF v
  <2>2. PICK xs \in SUBSET Files : job.got \in [xs -> Records]
    BY <1>1
  <2>3. got = [g \in DOMAIN job.got \cup {f} |-> IF g = f THEN v ELSE job.got[g]]
    BY Zenon DEF PutIn, v
  <2> HIDE DEF got
  <2>4. got \in [xs \cup {f} -> Records]
    BY <2>1, <2>2, <2>3
  <2> QED BY <2>1, <2>2, <2>3, <2>4
<1> HIDE DEF prev, again, got
<1>5. job.pass \in Seq(PatchSteps) /\ job.at + 1 \in Nat
  BY <1>1
<1>6. job' \in Jobs
  BY <1>2, <1>3, <1>4, <1>5
<1>7. /\ job'.pass = job.pass /\ job'.at = job.at + 1 /\ job'.previous = prev /\ job'.again = again
      /\ job'.got = got
  BY <1>2
<1> QED BY <1>4, <1>6, <1>7 DEF prev, again

(* One file more is patched.                                                    *)
LEMMA FilePatched ==
  ASSUME PatchInv, NEW f \in Files, PatchFile(f)
  PROVE  PatchInv'
<1> USE DEF Jobs
<1>0. ConfigTyped /\ JobRuns /\ PortsKnown /\ GotSince /\ RetroArchKept
  BY DEF PatchInv
<1>1. /\ ~Idle /\ job.pass[job.at] = <<"patch", f>>
      /\ cfg' = [cfg EXCEPT ![f] = PatchedContent(f)]
      /\ before' = IF cfg[f].host \in Ports THEN before ELSE [before EXCEPT ![f] = cfg[f]]
      /\ pointed' = pointed \cup {f}
      /\ UNCHANGED <<device, patchState, port, up, powered, autostart, powerFails, edits, ended,
                     muddled>>
  BY DEF PatchFile, Doing
<1>2. /\ job'.pass = job.pass /\ job'.at = job.at + 1
      /\ job'.previous = IF f = "retroarch" THEN patchState ELSE job.previous
      /\ job'.again <=> IF f = "retroarch" THEN AlreadyPatched(f) /\ Recorded(patchState, f)
                        ELSE job.again
      /\ DOMAIN job'.got = DOMAIN job.got \cup {f}
      /\ job'.got[f].value = Capture(f)
      /\ \A g \in DOMAIN job.got \ {f} : job'.got[g] = job.got[g]
  BY JobPatched
<1>3. /\ cfg[f] \in Contents /\ cfg[f].host \in Hosts /\ cfg[f].hard \in BOOLEAN
      /\ PatchedContent(f) \in Contents /\ PatchedContent(f).host = port
      /\ PatchedContent(f).hard = FALSE /\ port \in Ports
  <2>1. port \in Ports
    BY <1>0 DEF ConfigTyped
  <2> QED BY <1>0, <2>1, JobFields DEF PatchedContent, Contents, Hosts
<1>4. /\ cfg' \in [FilesOf[device] -> Contents] /\ DOMAIN cfg = Files /\ Files = FilesOf[device]
      /\ cfg'[f] = PatchedContent(f)
      /\ \A g \in Files \ {f} : cfg'[g] = cfg[g]
  BY <1>0, <1>1, <1>3, FilesOfDevices DEF ConfigTyped
<1>5. /\ Files' = Files /\ RetroArchs' = RetroArchs /\ PatchSteps' = PatchSteps
      /\ IsStart(job.pass)' <=> IsStart(job.pass)
      /\ IsStop(job.pass)' <=> IsStop(job.pass)
  BY <1>0, <1>1, <1>2, <1>4, FilesStay
<1>6. /\ IsStart(job.pass) /\ ~IsStop(job.pass) /\ Starting /\ ~Idle'
      /\ job.at \in 1 .. Len(job.pass) /\ job.at < Len(job.pass) /\ Len(job.pass) \in Nat
      /\ job.at \in Nat
  <2>1. job.at \in 1 .. Len(job.pass) /\ (IsStart(job.pass) \/ IsStop(job.pass))
        /\ job.pass \in Seq(PatchSteps)
    BY <1>0, <1>1 DEF JobRuns, ConfigTyped
  <2>2. ~IsStop(job.pass)
    BY <1>1, <2>1 DEF IsStop
  <2>3. job.pass[Len(job.pass)][1] = "store"
    BY <2>1, <2>2 DEF IsStart
  <2>4. job.at # Len(job.pass)
    BY <1>1, <2>3
  <2> QED BY <1>1, <1>2, <2>1, <2>2, <2>4 DEF Starting, Idle
<1>7. /\ before' \in [FilesOf[device] -> Values]
      /\ \A g \in Files \ {f} : before'[g] = before[g]
      /\ Ours(f) => before'[f] = before[f]
      /\ ~Ours(f) => before'[f] = cfg[f]
  <2>1. before \in [FilesOf[device] -> Values]
    BY <1>0 DEF ConfigTyped
  <2>2. ~Ours(f) => cfg[f] \in Values
    BY <1>3 DEF Ours, Values, Contents, Hosts
  <2> QED BY <1>1, <1>4, <2>1, <2>2 DEF Ours
<1>8. ConfigTyped'
  <2>1. job' \in Jobs
    BY JobPatched
  <2>2. job'.at \in Nat /\ job'.previous \in SavedStates \cup {NoState} /\ job'.again \in BOOLEAN
    BY <2>1
  <2>3. Records' = Records /\ pointed' \subseteq Files
    BY <1>0, <1>1 DEF Records, ConfigTyped
  <2> QED BY <1>0, <1>1, <1>4, <1>5, <1>7, <2>1, <2>2, <2>3 DEF ConfigTyped
<1>9. JobRuns'
  <2>1. job'.at \in 1 .. Len(job'.pass) /\ ended' = "none" /\ powered' /\ up'
    BY <1>0, <1>1, <1>2, <1>6 DEF JobRuns
  <2>2. ASSUME NEW g \in Files
        PROVE  Patched(g)' \/ \E i \in job'.at .. Len(job'.pass) : job'.pass[i] = <<"patch", g>>
    <3>1. CASE g = f
      BY <1>1, <1>3, <1>4, <3>1 DEF Patched
    <3>2. CASE g # f /\ Patched(g)
      BY <1>1, <1>4, <3>2 DEF Patched
    <3>3. CASE g # f /\ ~Patched(g)
      <4>1. PICK i \in job.at .. Len(job.pass) : job.pass[i] = <<"patch", g>>
        BY <1>0, <1>6, <3>3 DEF JobRuns
      <4>2. i # job.at
        BY <1>1, <3>3, <4>1
      <4>3. i \in job'.at .. Len(job'.pass)
        BY <1>2, <1>6, <4>2
      <4> QED BY <1>2, <4>1, <4>3
    <3> QED BY <3>1, <3>2, <3>3
  <2>3. ~Stopping' /\ (IsStart(job.pass) \/ IsStop(job.pass))'
    BY <1>5, <1>6 DEF Stopping
  <2> QED BY <1>5, <1>6, <2>1, <2>2, <2>3 DEF JobRuns
<1>10. PortsKnown'
  <2>1. port = "proxy" => Capture(f).host # "nextPort" /\ PatchedContent(f).host = "proxy"
    BY <1>0, <1>3, CaptureTyped
  <2>2. {patchState', job'.previous} \subseteq {patchState, job.previous}
    BY <1>1, <1>2
  <2>3. \A s \in {patchState', job'.previous} \ {NoState} :
          s \in {patchState, job.previous} \ {NoState}
    BY <2>2
  <2>4. port = "proxy" => /\ \A g \in Files : cfg'[g].host # "nextPort"
                          /\ \A g \in DOMAIN job'.got : job'.got[g].value.host # "nextPort"
    BY <1>0, <1>2, <1>4, <2>1 DEF PortsKnown
  <2> QED BY <1>0, <1>1, <1>5, <2>3, <2>4 DEF PortsKnown
<1>11. \A g \in Files, i \in 1 .. job.at :
         Unsaved(job.pass, g, i, job.at)
           <=> (i = job.at /\ g = f) \/ (i < job.at /\ Unsaved(job.pass, g, i, job.at - 1))
  <2> SUFFICES ASSUME NEW g \in Files, NEW i \in 1 .. job.at
               PROVE  Unsaved(job.pass, g, i, job.at)
                        <=> (i = job.at /\ g = f) \/ (i < job.at /\ Unsaved(job.pass, g, i, job.at - 1))
    OBVIOUS
  <2>1. CASE i = job.at
    BY <1>1, <1>6, <2>1 DEF Unsaved
  <2>2. CASE i < job.at
    <3>1. \A k \in i .. job.at : k \in i .. (job.at - 1) \/ k = job.at
      BY <1>6, <2>2
    <3>2. \A k \in i .. (job.at - 1) : k \in i .. job.at
      BY <1>6
    <3>3. job.pass[job.at][1] = "patch"
      BY <1>1
    <3>4. (\A k \in i .. job.at : job.pass[k][1] = "patch")
            <=> (\A k \in i .. (job.at - 1) : job.pass[k][1] = "patch")
      BY <3>1, <3>2, <3>3
    <3>5. i # job.at
      BY <1>6, <2>2
    <3> QED BY <2>2, <3>4, <3>5 DEF Unsaved
  <2> QED BY <1>6, <2>1, <2>2
<1>12. GotSince'
  <2>1. job'.at - 1 = job.at
    BY <1>2, <1>6
  <2>2. \A g \in Files : g \in DOMAIN job.got
            <=> \E i \in 1 .. (job.at - 1) : Unsaved(job.pass, g, i, job.at - 1)
    BY <1>0, <1>6 DEF GotSince
  <2>3. ASSUME NEW g \in Files
        PROVE  g \in DOMAIN job'.got
                 <=> \E i \in 1 .. (job'.at - 1) : Unsaved(job'.pass, g, i, job'.at - 1)
    <3>1. \A i \in 1 .. (job.at - 1) : i \in 1 .. job.at /\ i < job.at
      BY <1>6
    <3>2. \A i \in 1 .. job.at : i < job.at => i \in 1 .. (job.at - 1)
      BY <1>6
    <3>3. job.at \in 1 .. job.at
      BY <1>6
    <3>4. g \in DOMAIN job'.got <=> \E i \in 1 .. job.at : Unsaved(job.pass, g, i, job.at)
      BY <1>2, <1>11, <2>2, <3>1, <3>2, <3>3
    <3> QED BY Zenon, <1>2, <2>1, <3>4
  <2>4. ASSUME NEW i \in 1 .. (job'.at - 1), job'.pass[i][1] = "save" PROVE patchState' # NoState
    <3>1. i \in 1 .. job.at /\ job.pass[i][1] = "save"
      BY <1>2, <2>1, <2>4
    <3>2. i # job.at
      BY <1>1, <3>1
    <3>3. i \in 1 .. (job.at - 1)
      BY <1>6, <3>1, <3>2
    <3> QED BY <1>0, <1>1, <1>6, <3>1, <3>3 DEF GotSince
  <2>5. ~Stopping'
    BY <1>5, <1>6 DEF Stopping
  <2> QED BY <1>5, <2>3, <2>4, <2>5 DEF GotSince
<1>13. AllPatched' /\ StopDisconnects'
  BY <1>9, <1>6 DEF JobRuns, AllPatched, StopDisconnects
<1>14. RetroArchKept'
  <2> SUFFICES ASSUME Clear' PROVE RetroArchKept'
    BY DEF RetroArchKept
  <2>1. Clear /\ port = "proxy" /\ port' = "proxy"
    BY <1>1 DEF Clear
  <2>2. /\ \A g \in RetroArchs :
             /\ g \in DOMAIN job.got => job.got[g].value = before[g] /\ g \in pointed /\ Ours(g)
             /\ g \in pointed /\ g \notin DOMAIN job.got =>
                  Recorded(patchState, g) /\ patchState.of[g] = before[g]
             /\ g \in pointed => cfg[g] = PatchedContent(g) \/ cfg[g] = before[g]
             /\ g \notin pointed => ~Ours(g)
        /\ "append" \in Files =>
             /\ ~Between => (Ours("retroarch") <=> Ours("append"))
             /\ Between => (job.again <=> Ours("append"))
    BY <1>0, <1>6, <2>1 DEF RetroArchKept
  <2>3. /\ RetroArchs \subseteq Files /\ \A g \in Files : before[g] \in Values
        /\ "append" \in Files => "retroarch" \in RetroArchs /\ "append" \in RetroArchs
        /\ \A g \in RetroArchs : g \in {"retroarch", "append"}
    BY <1>0, FilesOfDevices, JobFields DEF RetroArchs
  <2>4. /\ job.pass[job.at] = <<"patch", "retroarch">> =>
             (job.at = 1 \/ job.pass[job.at - 1][1] = "store")
             /\ ("append" \in Files => job.pass[job.at + 1] = <<"patch", "append">>)
        /\ job.pass[job.at] = <<"patch", "append">> =>
             job.at > 1 /\ job.pass[job.at - 1] = <<"patch", "retroarch">>
    BY <1>6 DEF IsStart
  <2>5. f = "append" => job.at = 2 \/ job.pass[job.at - 2][1] = "store"
    <3> SUFFICES ASSUME f = "append", job.at # 2 PROVE job.pass[job.at - 2][1] = "store"
      OBVIOUS
    <3>1. job.at - 1 \in 1 .. Len(job.pass) /\ job.pass[job.at - 1] = <<"patch", "retroarch">>
          /\ job.at - 1 # 1 /\ (job.at - 1) - 1 = job.at - 2
      BY <1>1, <1>6, <2>4
    <3>2. job.at - 1 = 1 \/ job.pass[(job.at - 1) - 1][1] = "store"
      BY <1>6, <3>1 DEF IsStart
    <3> QED BY <3>1, <3>2
  <2>6. f \in RetroArchs => f \notin DOMAIN job.got
    <3> SUFFICES ASSUME f \in RetroArchs, f \in DOMAIN job.got PROVE FALSE
      OBVIOUS
    <3>1. PICK i \in 1 .. (job.at - 1) : Unsaved(job.pass, f, i, job.at - 1)
      BY <1>0, <1>6 DEF GotSince
    <3>2. /\ job.pass[i] = <<"patch", f>> /\ job.pass[job.at - 1][1] = "patch"
          /\ i < job.at - 1 => job.pass[job.at - 2][1] = "patch"
      <4>1. /\ job.at - 1 \in i .. (job.at - 1)
            /\ i < job.at - 1 => job.at - 2 \in i .. (job.at - 1)
        BY <1>6, <3>1
      <4> QED BY <3>1, <4>1 DEF Unsaved
    <3>3. job.at # 1
      BY <1>6, <3>1
    <3>4. f # "retroarch"
      BY <1>1, <2>4, <3>2, <3>3
    <3>5. f = "append" /\ job.pass[job.at - 1] = <<"patch", "retroarch">>
      BY <1>1, <2>3, <2>4, <3>4
    <3>6. i < job.at - 1
      BY <1>6, <3>1, <3>2, <3>5
    <3>7. job.at # 2
      BY <1>6, <3>1, <3>6
    <3> QED BY <2>5, <3>2, <3>5, <3>6, <3>7
  <2>7. f \in RetroArchs /\ Ours(f) =>
          /\ f \in pointed /\ AlreadyPatched(f) /\ Recorded(patchState, f)
          /\ patchState.of[f] = before[f]
    <3> SUFFICES ASSUME f \in RetroArchs, Ours(f)
                 PROVE  /\ f \in pointed /\ AlreadyPatched(f) /\ Recorded(patchState, f)
                        /\ patchState.of[f] = before[f]
      OBVIOUS
    <3>1. f \in pointed /\ Recorded(patchState, f) /\ patchState.of[f] = before[f]
      BY <2>2, <2>6
    <3>2. before[f].host \notin Ports
      BY <2>3 DEF Values, Ports
    <3>3. cfg[f] = PatchedContent(f)
      BY <2>2, <3>1, <3>2 DEF Ours
    <3> QED BY <1>3, <3>1, <3>3 DEF AlreadyPatched, Patched
  <2>8. AlreadyPatched(f) => Ours(f)
    BY <1>3 DEF AlreadyPatched, Patched, Ours
  <2>9. f \in RetroArchs => Capture(f) = before'[f]
    <3> SUFFICES ASSUME f \in RetroArchs PROVE Capture(f) = before'[f]
      OBVIOUS
    <3>1. CASE f = "retroarch"
      <4>1. Capture(f) = IF AlreadyPatched(f) /\ Recorded(patchState, f) THEN patchState.of[f] ELSE cfg[f]
        BY <3>1 DEF Capture, FirstCapture
      <4> QED BY <1>7, <2>7, <2>8, <4>1
    <3>2. CASE f = "append"
      <4>1. Capture(f) = IF job.again /\ Recorded(patchState, f) THEN patchState.of[f]
                         ELSE IF cfg[f].host \in Ports THEN [cfg[f] EXCEPT !.host = ""] ELSE cfg[f]
        BY <3>2 DEF Capture, AppendCapture
      <4>2. Between
        BY <1>1, <1>6, <2>4, <3>2 DEF Between
      <4>3. job.again <=> Ours(f)
        BY <2>2, <3>2, <4>2
      <4> QED BY <1>7, <2>7, <4>1, <4>3 DEF Ours
    <3> QED BY <2>3, <3>1, <3>2
  <2>10. \A g \in Files \ {f} : Ours(g)' <=> Ours(g)
    BY <1>4 DEF Ours
  <2>11. Ours(f)' /\ \A g \in Files : PatchedContent(g)' = PatchedContent(g)
    BY <1>1, <1>3, <1>4 DEF Ours, PatchedContent
  <2>12. ASSUME NEW g \in RetroArchs
         PROVE  /\ g \in DOMAIN job'.got => job'.got[g].value = before'[g] /\ g \in pointed' /\ Ours(g)'
                /\ g \in pointed' /\ g \notin DOMAIN job'.got =>
                     Recorded(patchState, g)' /\ patchState'.of[g] = before'[g]
                /\ g \in pointed' => cfg'[g] = PatchedContent(g)' \/ cfg'[g] = before'[g]
                /\ g \notin pointed' => ~Ours(g)'
    <3>1. CASE g = f
      BY <1>1, <1>2, <1>4, <2>9, <2>11, <3>1
    <3>2. CASE g # f
      <4>1. g \in Files \ {f} /\ (Recorded(patchState, g)' <=> Recorded(patchState, g))
        BY <1>1, <2>3, <3>2 DEF Recorded
      <4> QED BY <1>1, <1>2, <1>4, <1>7, <2>2, <2>10, <2>11, <4>1
    <3> QED BY <3>1, <3>2
  <2>13. "append" \in Files =>
           /\ ~Between' => (Ours("retroarch")' <=> Ours("append")')
           /\ Between' => (job'.again <=> Ours("append")')
    <3> SUFFICES ASSUME "append" \in Files
                 PROVE  /\ ~Between' => (Ours("retroarch")' <=> Ours("append")')
                        /\ Between' => (job'.again <=> Ours("append")')
      OBVIOUS
    <3>0. Between' <=> f = "retroarch"
      <4>1. job'.at > 1 /\ job'.at - 1 = job.at /\ Starting'
        BY <1>2, <1>5, <1>6 DEF Starting
      <4> QED BY <1>1, <1>2, <4>1 DEF Between
    <3>1. CASE f = "retroarch"
      <4>1. ~Between
        BY <1>1, <2>4, <3>1 DEF Between
      <4>2. Ours("retroarch") <=> Ours("append")
        BY <2>2, <4>1
      <4>3. job'.again <=> Ours("retroarch")
        BY <1>2, <2>3, <2>7, <2>8, <3>1
      <4> QED BY <2>10, <3>0, <3>1, <4>2, <4>3
    <3>2. CASE f = "append"
      <4>1. job.at - 1 \in 1 .. (job.at - 1) /\ job.pass[job.at - 1] = <<"patch", "retroarch">>
        BY <1>1, <1>6, <2>4, <3>2
      <4>2. Unsaved(job.pass, "retroarch", job.at - 1, job.at - 1)
        <5>1. \A k \in (job.at - 1) .. (job.at - 1) : k = job.at - 1
          BY <1>6
        <5> QED BY <4>1, <5>1 DEF Unsaved
      <4>3. "retroarch" \in DOMAIN job.got
        BY <1>0, <1>6, <2>3, <4>1, <4>2 DEF GotSince
      <4>4. Ours("retroarch")
        BY <2>2, <2>3, <4>3
      <4> QED BY <2>3, <2>10, <2>11, <3>0, <3>2, <4>4
    <3>3. CASE f \notin {"retroarch", "append"}
      <4>1. ~Between
        <5> SUFFICES ASSUME Between PROVE FALSE
          OBVIOUS
        <5>1. job.at - 1 \in 1 .. Len(job.pass) /\ job.pass[job.at - 1] = <<"patch", "retroarch">>
              /\ (job.at - 1) + 1 = job.at
          BY <1>6 DEF Between
        <5>2. job.pass[(job.at - 1) + 1] = <<"patch", "append">>
          BY <1>6, <5>1 DEF IsStart
        <5> QED BY <1>1, <3>3, <5>1, <5>2
      <4> QED BY <2>2, <2>3, <2>10, <3>0, <3>3, <4>1
    <3> QED BY <3>1, <3>2, <3>3
  <2>14. ~Idle'
    BY <1>6
  <2> QED BY <1>5, <2>12, <2>13, <2>14 DEF RetroArchKept
<1> QED BY <1>8, <1>9, <1>10, <1>12, <1>13, <1>14 DEF PatchInv

(* A step of a start that saves: it is no step of a stop, and nothing is unsaved then.  *)
LEMMA SaveSteps ==
  ASSUME PatchInv, ~Idle, job.pass[job.at][1] \in {"save", "store"}
  PROVE  /\ IsStart(job.pass) /\ ~IsStop(job.pass) /\ Starting
         /\ job.at \in 1 .. Len(job.pass) /\ Len(job.pass) \in Nat /\ job.at \in Nat
         /\ ended = "none" /\ powered /\ up
         /\ \A f \in Files, i \in 1 .. job.at : ~Unsaved(job.pass, f, i, job.at)
         /\ "append" \in Files => ~Between
         /\ job.pass[job.at] # <<"patch", "retroarch">>
         /\ job.pass[job.at][1] = "save" => job.at < Len(job.pass)
<1>0. ConfigTyped /\ JobRuns
  BY DEF PatchInv
<1>1. /\ job.at \in 1 .. Len(job.pass) /\ (IsStart(job.pass) \/ IsStop(job.pass))
      /\ job.pass \in Seq(PatchSteps) /\ Len(job.pass) \in Nat /\ job.at \in Nat
      /\ ended = "none" /\ powered
  BY <1>0, JobFields DEF JobRuns
<1>2. ~IsStop(job.pass)
  BY <1>1 DEF IsStop
<1>3. IsStart(job.pass) /\ Starting /\ up
  BY <1>0, <1>1, <1>2 DEF Starting, JobRuns
<1>4. \A f \in Files, i \in 1 .. job.at : ~Unsaved(job.pass, f, i, job.at)
  <2> SUFFICES ASSUME NEW f \in Files, NEW i \in 1 .. job.at, Unsaved(job.pass, f, i, job.at)
               PROVE  FALSE
    OBVIOUS
  <2>1. job.at \in i .. job.at
    BY <1>1
  <2> QED BY <2>1 DEF Unsaved
<1>5. job.pass[job.at] # <<"patch", "retroarch">> /\ job.pass[job.at] # <<"patch", "append">>
  OBVIOUS
<1>6. "append" \in Files => ~Between
  <2> SUFFICES ASSUME "append" \in Files, Between PROVE FALSE
    OBVIOUS
  <2>1. job.at - 1 \in 1 .. Len(job.pass) /\ job.pass[job.at - 1] = <<"patch", "retroarch">>
        /\ (job.at - 1) + 1 = job.at
    BY <1>1 DEF Between
  <2>2. job.pass[(job.at - 1) + 1] = <<"patch", "append">>
    BY <1>3, <2>1 DEF IsStart
  <2> QED BY <1>5, <2>1, <2>2
<1>7. job.pass[job.at][1] = "save" => job.at < Len(job.pass)
  <2>1. job.pass[Len(job.pass)][1] = "store"
    BY <1>3 DEF IsStart
  <2> QED BY <1>1, <2>1
<1> QED BY <1>1, <1>2, <1>3, <1>4, <1>5, <1>6, <1>7

(* What has been captured is saved.                                               *)
LEMMA StateSaved ==
  ASSUME PatchInv, SaveState
  PROVE  PatchInv'
<1> USE DEF Jobs
<1>0. ConfigTyped /\ JobRuns /\ PortsKnown /\ GotSince /\ RetroArchKept
  BY DEF PatchInv
<1>1. /\ ~Idle /\ job.pass[job.at] = <<"save", "state">> /\ job.pass[job.at][1] = "save"
      /\ patchState' = [of |-> [f \in DOMAIN job.got |-> job.got[f].value], proxy |-> port]
      /\ UNCHANGED <<device, cfg, port, up, powered, autostart, powerFails, edits, before,
                     pointed, ended, muddled>>
  BY DEF SaveState, Doing
<1>2. /\ IsStart(job.pass) /\ ~IsStop(job.pass) /\ Starting
      /\ job.at \in 1 .. Len(job.pass) /\ Len(job.pass) \in Nat /\ job.at \in Nat
      /\ ended = "none" /\ powered /\ up
      /\ \A f \in Files, i \in 1 .. job.at : ~Unsaved(job.pass, f, i, job.at)
      /\ "append" \in Files => ~Between
      /\ job.pass[job.at] # <<"patch", "retroarch">> /\ job.at < Len(job.pass)
  <2>1. job.pass[job.at][1] \in {"save", "store"}
    BY <1>1
  <2> QED BY <1>1, <2>1, SaveSteps
<1>3. /\ job' \in Jobs
      /\ job'.pass = job.pass /\ job'.at = job.at + 1 /\ job'.previous = job.previous
      /\ job'.again = job.again /\ job'.got = <<>> /\ DOMAIN job'.got = {}
  <2>1. job \in Jobs
    BY <1>0 DEF ConfigTyped
  <2>2. job' = [[job EXCEPT !.at = job.at + 1] EXCEPT !.got = <<>>]
    BY DEF SaveState, Rest
  <2>3. <<>> \in UNION {[fs -> Records] : fs \in SUBSET Files} /\ DOMAIN <<>> = {}
    <3>1. <<>> \in [{} -> Records] /\ DOMAIN <<>> = {}
      OBVIOUS
    <3> QED BY <3>1
  <2>4. job' = [pass |-> job.pass, at |-> job.at + 1, previous |-> job.previous,
                again |-> job.again, got |-> <<>>]
    BY <2>1, <2>2
  <2>5. /\ job.pass \in Seq(PatchSteps) /\ job.at + 1 \in Nat /\ job.again \in BOOLEAN
        /\ job.previous \in SavedStates \cup {NoState}
    BY <2>1
  <2>6. job' \in Jobs
    BY <2>3, <2>4, <2>5
  <2> QED BY <2>3, <2>4, <2>6
<1>4. /\ Files' = Files /\ RetroArchs' = RetroArchs /\ PatchSteps' = PatchSteps
      /\ IsStart(job.pass)' <=> IsStart(job.pass)
      /\ IsStop(job.pass)' <=> IsStop(job.pass)
  <2>1. cfg' \in [FilesOf[device] -> Contents]
    BY <1>0, <1>1 DEF ConfigTyped
  <2> QED BY <1>0, <1>1, <1>3, <2>1, FilesStay
<1>5. /\ patchState' \in SavedStates /\ patchState' # NoState /\ patchState'.proxy = port
      /\ DOMAIN patchState'.of = DOMAIN job.got
      /\ \A f \in DOMAIN job.got : patchState'.of[f] = job.got[f].value
  <2> DEFINE of == [f \in DOMAIN job.got |-> job.got[f].value]
  <2>1. of \in [DOMAIN job.got -> Contents] /\ DOMAIN job.got \subseteq AllFiles
    <3>1. DOMAIN job.got \subseteq Files /\ Files \subseteq AllFiles
      <4>1. Files \subseteq AllFiles
        BY <1>0, FilesOfDevices DEF AllFiles, FilesOf
      <4> QED BY <1>0, <4>1, JobFields
    <3> QED BY <1>0, <3>1, JobFields
  <2>2. of \in UNION {[fs -> Contents] : fs \in SUBSET AllFiles}
    BY <2>1
  <2>3. port \in Ports
    BY <1>0 DEF ConfigTyped
  <2>4. /\ patchState'.of = of /\ patchState'.proxy = port /\ DOMAIN of = DOMAIN job.got
        /\ \A f \in DOMAIN job.got : of[f] = job.got[f].value
    BY <1>1
  <2>5. patchState' = [of |-> of, proxy |-> port]
    BY <1>1
  <2> HIDE DEF of
  <2>6. patchState' \in SavedStates
    BY <2>2, <2>3, <2>5 DEF SavedStates, AllFiles
  <2> QED BY <2>4, <2>6, PatchAssumption
<1>6. ConfigTyped'
  <2>1. job'.at \in Nat /\ job'.previous \in SavedStates \cup {NoState} /\ job'.again \in BOOLEAN
    BY <1>3
  <2>2. Records' = Records
    BY DEF Records
  <2> QED BY <1>0, <1>1, <1>3, <1>4, <1>5, <2>1, <2>2 DEF ConfigTyped
<1>7. ~Idle' /\ ~Stopping' /\ Starting'
  BY <1>1, <1>2, <1>3, <1>4 DEF Idle, Stopping, Starting
<1>8. JobRuns'
  <2>1. job'.at \in 1 .. Len(job'.pass)
    BY <1>2, <1>3
  <2>2. ASSUME NEW f \in Files
        PROVE  Patched(f)' \/ \E i \in job'.at .. Len(job'.pass) : job'.pass[i] = <<"patch", f>>
    <3>1. CASE Patched(f)
      BY <1>1, <3>1 DEF Patched
    <3>2. CASE ~Patched(f)
      <4>1. PICK i \in job.at .. Len(job.pass) : job.pass[i] = <<"patch", f>>
        BY <1>0, <1>2, <3>2 DEF JobRuns
      <4>2. i \in job'.at .. Len(job'.pass)
        <5>1. i # job.at
          BY <1>1, <4>1
        <5> QED BY <1>2, <1>3, <4>1, <5>1
      <4> QED BY <1>3, <4>1, <4>2
    <3> QED BY <3>1, <3>2
  <2> QED BY <1>1, <1>2, <1>4, <1>7, <2>1, <2>2 DEF JobRuns
<1>9. PortsKnown'
  <2>1. port = "proxy" \/ port = "nextPort"
    BY <1>0 DEF ConfigTyped, Ports
  <2>2. port = "proxy" => \A f \in DOMAIN patchState'.of : patchState'.of[f].host # "nextPort"
    BY <1>0, <1>5 DEF PortsKnown
  <2>3. "retroarch" \in DOMAIN patchState'.of /\ patchState'.of["retroarch"].host = "nextPort"
          => patchState'.proxy = "nextPort"
    BY <1>5, <2>1, <2>2
  <2>4. \A s \in {patchState', job'.previous} \ {NoState} :
          s = patchState' \/ (s \in {patchState, job.previous} \ {NoState})
    BY <1>3
  <2>5. ASSUME port' = "proxy"
        PROVE  /\ \A f \in Files' : cfg'[f].host # "nextPort"
               /\ \A f \in DOMAIN job'.got : job'.got[f].value.host # "nextPort"
               /\ \A s \in {patchState', job'.previous} \ {NoState} :
                    s.proxy # "nextPort" /\ \A f \in DOMAIN s.of : s.of[f].host # "nextPort"
    <3>1. patchState'.proxy # "nextPort"
          /\ \A f \in DOMAIN patchState'.of : patchState'.of[f].host # "nextPort"
      BY <1>1, <1>5, <2>2, <2>5
    <3>2. \A s \in {patchState, job.previous} \ {NoState} :
            s.proxy # "nextPort" /\ \A f \in DOMAIN s.of : s.of[f].host # "nextPort"
      BY <1>0, <1>1, <2>5 DEF PortsKnown
    <3>3. \A f \in Files' : cfg'[f].host # "nextPort"
      BY <1>0, <1>1, <1>4, <2>5 DEF PortsKnown
    <3> QED BY <1>3, <2>4, <3>1, <3>2, <3>3
  <2>6. ASSUME NEW s \in {patchState', job'.previous} \ {NoState},
               "retroarch" \in DOMAIN s.of, s.of["retroarch"].host = "nextPort"
        PROVE  s.proxy = "nextPort"
    <3>1. CASE s = patchState'
      BY <2>3, <2>6, <3>1
    <3>2. CASE s \in {patchState, job.previous} \ {NoState}
      BY <1>0, <2>6, <3>2 DEF PortsKnown
    <3> QED BY <2>4, <3>1, <3>2
  <2> QED BY <2>5, <2>6 DEF PortsKnown
<1>10. GotSince'
  <2>1. job'.at - 1 = job.at
    BY <1>2, <1>3
  <2>2. ASSUME NEW f \in Files, NEW i \in 1 .. (job'.at - 1)
        PROVE  ~Unsaved(job'.pass, f, i, job'.at - 1)
    <3>1. ~Unsaved(job.pass, f, i, job.at)
      BY <1>2, <2>1, <2>2
    <3> QED BY Zenon, <1>3, <2>1, <3>1
  <2> QED BY <1>3, <1>4, <1>5, <1>7, <2>2 DEF GotSince
<1>11. AllPatched' /\ StopDisconnects'
  BY <1>1, <1>2 DEF AllPatched, StopDisconnects
<1>12. RetroArchKept'
  <2> SUFFICES ASSUME Clear' PROVE RetroArchKept'
    BY DEF RetroArchKept
  <2>1. Clear
    BY <1>1 DEF Clear
  <2>2. \A f \in RetroArchs : f \in DOMAIN job.got
    <3> SUFFICES ASSUME NEW f \in RetroArchs PROVE f \in DOMAIN job.got
      OBVIOUS
    <3>1. \E i \in 1 .. (job.at - 1) : Unsaved(job.pass, f, i, job.at - 1)
      BY <1>1, <1>2 DEF IsStart
    <3> QED BY <1>0, <1>2, <3>1 DEF GotSince, RetroArchs
  <2>3. \A f \in Files : Ours(f)' <=> Ours(f)
    BY <1>1 DEF Ours
  <2>4. ASSUME NEW f \in RetroArchs
        PROVE  /\ Recorded(patchState, f)' /\ patchState'.of[f] = before'[f]
               /\ f \in pointed' => cfg'[f] = PatchedContent(f)' \/ cfg'[f] = before'[f]
               /\ f \notin pointed' => ~Ours(f)'
    BY <1>0, <1>1, <1>5, <2>1, <2>2, <2>3 DEF RetroArchKept, Recorded, PatchedContent, RetroArchs
  <2>5. ~Between'
    <3>1. job'.at - 1 = job.at
      BY <1>2, <1>3
    <3> QED BY <1>2, <1>3, <3>1 DEF Between
  <2>6. "append" \in Files => (Ours("retroarch")' <=> Ours("append")')
    <3>1. "append" \in Files => (Ours("retroarch") <=> Ours("append"))
      BY <1>0, <1>2, <2>1 DEF RetroArchKept
    <3>2. "append" \in Files => "retroarch" \in Files
      BY <1>0, FilesOfDevices
    <3> QED BY <2>3, <3>1, <3>2
  <2> QED BY <1>3, <1>4, <1>7, <2>4, <2>5, <2>6 DEF RetroArchKept
<1> QED BY <1>6, <1>8, <1>9, <1>10, <1>11, <1>12 DEF PatchInv

(* What the job is after a step that may be its last.                             *)
LEMMA JobRests ==
  ASSUME PatchInv, ~Idle, NEW kind, NEW got, DOMAIN got = {},
         got \in UNION {[fs -> Records] : fs \in SUBSET Files},
         FinishJob([[job EXCEPT !.at = job.at + 1] EXCEPT !.got = got], kind)
  PROVE  /\ job' \in Jobs
         /\ DOMAIN job'.got = {}
         /\ job.at \in 1 .. Len(job.pass) /\ Len(job.pass) \in Nat /\ job.at \in Nat
         /\ job.at = Len(job.pass) =>
              job'.pass = <<>> /\ job'.at = 1 /\ job'.previous = NoState /\ ended' = kind
         /\ job.at < Len(job.pass) =>
              /\ job'.pass = job.pass /\ job'.at = job.at + 1 /\ job'.previous = job.previous
              /\ job'.again = job.again /\ ended' = ended
<1> USE DEF Jobs
<1>0. ConfigTyped /\ JobRuns
  BY DEF PatchInv
<1>1. job \in Jobs
  BY <1>0 DEF ConfigTyped
<1>2. PICK next : next = [[job EXCEPT !.at = job.at + 1] EXCEPT !.got = got]
  OBVIOUS
<1>3. FinishJob(next, kind)
  BY Zenon, <1>2
<1>9. next = [pass |-> job.pass, at |-> job.at + 1, previous |-> job.previous,
              again |-> job.again, got |-> got]
  BY <1>1, <1>2
<1>4. /\ next.pass = job.pass /\ next.at = job.at + 1 /\ next.previous = job.previous
      /\ next.again = job.again /\ next.got = got
  BY <1>9
<1>5. /\ job.pass \in Seq(PatchSteps) /\ Len(job.pass) \in Nat /\ job.at \in Nat
      /\ job.at \in 1 .. Len(job.pass)
  BY <1>0, <1>1 DEF JobRuns
<1>6. next \in Jobs
  <2>1. /\ job.at + 1 \in Nat /\ job.again \in BOOLEAN /\ job.previous \in SavedStates \cup {NoState}
    BY <1>1
  <2> QED BY <1>5, <1>9, <2>1
<1>7. CASE job.at = Len(job.pass)
  <2>1. job' = [pass |-> <<>>, at |-> 1, previous |-> NoState, again |-> FALSE, got |-> <<>>]
        /\ ended' = kind
    <3>1. next.at > Len(next.pass)
      BY <1>4, <1>5, <1>7
    <3> QED BY <1>3, <3>1 DEF FinishJob, NoJob
  <2>2. <<>> \in UNION {[fs -> Records] : fs \in SUBSET Files} /\ DOMAIN <<>> = {}
    <3>1. <<>> \in [{} -> Records] /\ DOMAIN <<>> = {}
      OBVIOUS
    <3> QED BY <3>1
  <2>3. <<>> \in Seq(PatchSteps) /\ 1 \in Nat
    OBVIOUS
  <2>4. job' \in Jobs
    BY <2>1, <2>2, <2>3
  <2>5. job'.pass = <<>> /\ job'.at = 1 /\ job'.previous = NoState /\ job'.got = <<>>
    BY <2>1
  <2>6. DOMAIN job'.got = {}
    BY <2>2, <2>5
  <2>7. ended' = kind
    BY <2>1
  <2> QED BY <1>5, <1>7, <2>4, <2>5, <2>6, <2>7
<1>8. CASE job.at < Len(job.pass)
  <2>1. job' = next /\ ended' = ended
    <3>1. ~(next.at > Len(next.pass))
      BY <1>4, <1>5, <1>8
    <3> QED BY <1>3, <3>1 DEF FinishJob
  <2> QED BY <1>4, <1>5, <1>6, <1>8, <2>1
<1> QED BY <1>5, <1>7, <1>8

(* What was captured since is stored with the rest; those of RetroArch stay.          *)
LEMMA StateStored ==
  ASSUME PatchInv, StoreState
  PROVE  PatchInv'
<1> USE DEF Jobs
<1>0. ConfigTyped /\ JobRuns /\ PortsKnown /\ GotSince /\ RetroArchKept
  BY DEF PatchInv
<1>1. /\ ~Idle /\ job.pass[job.at] = <<"store", "state">> /\ job.pass[job.at][1] = "store"
      /\ patchState' = [patchState EXCEPT !.of = [f \in DOMAIN @ \cup DOMAIN job.got |-> Stored(f)]]
      /\ UNCHANGED <<device, cfg, port, up, powered, autostart, powerFails, edits, before,
                     pointed, muddled>>
  BY DEF StoreState, Doing
<1>2. /\ IsStart(job.pass) /\ ~IsStop(job.pass) /\ Starting
      /\ ended = "none" /\ powered /\ up
      /\ \A f \in Files, i \in 1 .. job.at : ~Unsaved(job.pass, f, i, job.at)
      /\ "append" \in Files => ~Between
      /\ job.pass[job.at] # <<"patch", "retroarch">>
  <2>1. job.pass[job.at][1] \in {"save", "store"}
    BY <1>1
  <2> QED BY <1>1, <2>1, SaveSteps
<1>3. /\ job' \in Jobs
      /\ DOMAIN job'.got = {}
      /\ job.at \in 1 .. Len(job.pass) /\ Len(job.pass) \in Nat /\ job.at \in Nat
      /\ job.at = Len(job.pass) =>
           job'.pass = <<>> /\ job'.at = 1 /\ job'.previous = NoState /\ ended' = "start"
      /\ job.at < Len(job.pass) =>
           /\ job'.pass = job.pass /\ job'.at = job.at + 1 /\ job'.previous = job.previous
           /\ job'.again = job.again /\ ended' = ended
  <2>1. FinishJob([[job EXCEPT !.at = job.at + 1] EXCEPT !.got = <<>>], "start")
    BY DEF StoreState, Rest
  <2>2. <<>> \in UNION {[fs -> Records] : fs \in SUBSET Files} /\ DOMAIN <<>> = {}
    <3>1. <<>> \in [{} -> Records] /\ DOMAIN <<>> = {}
      OBVIOUS
    <3> QED BY <3>1
  <2> QED BY <1>1, <2>1, <2>2, JobRests
<1>4. /\ Files' = Files /\ RetroArchs' = RetroArchs /\ PatchSteps' = PatchSteps
      /\ IsStart(job.pass)' <=> IsStart(job'.pass)
      /\ IsStop(job.pass)' <=> IsStop(job'.pass)
  <2>1. cfg' \in [FilesOf[device] -> Contents]
    BY <1>0, <1>1 DEF ConfigTyped
  <2> QED BY <1>0, <1>1, <2>1, FilesStay
<1>5. \A f \in RetroArchs : f \notin DOMAIN job.got
  <2> SUFFICES ASSUME NEW f \in RetroArchs, f \in DOMAIN job.got PROVE FALSE
    OBVIOUS
  <2>1. PICK i \in 1 .. (job.at - 1) : Unsaved(job.pass, f, i, job.at - 1)
    BY <1>0, <1>2 DEF GotSince, RetroArchs
  <2>2. PICK j \in 1 .. (job.at - 1) :
           /\ job.pass[j][1] = "save"
           /\ \A k \in (j + 1) .. (job.at - 1) : job.pass[k][1] = "patch" /\ job.pass[k][2] \notin RetroArchs
    BY <1>1, <1>2, <1>3 DEF IsStart
  <2>3. CASE i <= j
    <3>1. j \in i .. (job.at - 1)
      BY <1>3, <2>3
    <3> QED BY <2>1, <2>2, <3>1 DEF Unsaved
  <2>4. CASE i > j
    <3>1. i \in (j + 1) .. (job.at - 1)
      BY <1>3, <2>4
    <3>2. job.pass[i][2] = f
      BY <2>1 DEF Unsaved
    <3> QED BY <2>2, <3>1, <3>2
  <2> QED BY <1>3, <2>3, <2>4
<1>6. patchState \in SavedStates /\ patchState # NoState
  <2>1. PICK j \in 1 .. (job.at - 1) : job.pass[j][1] = "save"
    BY <1>1, <1>2, <1>3 DEF IsStart
  <2>2. patchState # NoState
    BY <1>0, <1>2, <2>1 DEF GotSince
  <2> QED BY <1>0, <2>2 DEF ConfigTyped
<1> DEFINE kept == DOMAIN patchState.of \cup DOMAIN job.got
           of == [f \in kept |-> Stored(f)]
<1>7. /\ patchState' = [of |-> of, proxy |-> patchState.proxy]
      /\ patchState'.of = of /\ patchState'.proxy = patchState.proxy
      /\ DOMAIN of = kept /\ \A f \in kept : of[f] = Stored(f)
  <2>1. patchState' = [of |-> of, proxy |-> patchState.proxy]
    BY <1>1, <1>6 DEF SavedStates
  <2>2. DOMAIN of = kept /\ \A f \in kept : of[f] = Stored(f)
    OBVIOUS
  <2> HIDE DEF kept, of
  <2> QED BY <2>1, <2>2
<1>8. /\ DOMAIN patchState.of \subseteq AllFiles /\ DOMAIN job.got \subseteq AllFiles
      /\ patchState.proxy \in Ports
      /\ \A f \in DOMAIN patchState.of : patchState.of[f] \in Contents
      /\ \A f \in DOMAIN job.got : job.got[f].value \in Contents
  <2>1. Files \subseteq AllFiles
    BY <1>0, FilesOfDevices DEF AllFiles, FilesOf
  <2> QED BY <1>0, <1>6, <2>1, JobFields
<1>9. \A f \in kept : /\ f \in DOMAIN job.got \/ (f \in DOMAIN patchState.of /\ f \notin DOMAIN job.got)
                      /\ f \notin DOMAIN job.got => Stored(f) = patchState.of[f]
                      /\ f \in DOMAIN job.got =>
                           \/ f \in DOMAIN patchState.of /\ Stored(f) = patchState.of[f]
                           \/ Stored(f) = job.got[f].value
  <2> SUFFICES ASSUME NEW f \in kept
               PROVE  /\ f \in DOMAIN job.got \/ (f \in DOMAIN patchState.of /\ f \notin DOMAIN job.got)
                      /\ f \notin DOMAIN job.got => Stored(f) = patchState.of[f]
                      /\ f \in DOMAIN job.got =>
                           \/ f \in DOMAIN patchState.of /\ Stored(f) = patchState.of[f]
                           \/ Stored(f) = job.got[f].value
    OBVIOUS
  <2>1. f \notin DOMAIN job.got => Stored(f) = patchState.of[f]
    BY DEF Stored
  <2>2. f \in DOMAIN job.got =>
          \/ f \in DOMAIN patchState.of /\ Stored(f) = patchState.of[f]
          \/ Stored(f) = job.got[f].value
    BY Zenon DEF Stored, Recorded
  <2> QED BY <2>1, <2>2
<1>b. kept \in SUBSET AllFiles /\ \A f : f \in kept <=> f \in DOMAIN patchState.of \/ f \in DOMAIN job.got
  BY <1>8
<1> HIDE DEF kept
<1>10. \A f \in kept : /\ Stored(f) \in Contents
                       /\ port = "proxy" => Stored(f).host # "nextPort"
  <2>1. port = "proxy" => /\ \A f \in DOMAIN job.got : job.got[f].value.host # "nextPort"
                          /\ \A f \in DOMAIN patchState.of : patchState.of[f].host # "nextPort"
    BY <1>0, <1>6 DEF PortsKnown
  <2> QED BY <1>8, <1>9, <2>1
<1>11. patchState' \in SavedStates /\ patchState' # NoState
  <2>1. of \in [kept -> Contents]
    BY <1>10
  <2>2. of \in UNION {[xs -> Contents] : xs \in SUBSET AllFiles}
    BY <1>b, <2>1
  <2> HIDE DEF of
  <2>3. patchState' \in SavedStates
    BY <1>7, <1>8, <2>2 DEF SavedStates, AllFiles
  <2> QED BY <2>3, PatchAssumption
<1> HIDE DEF of
<1>12. \A f \in RetroArchs : /\ f \in DOMAIN patchState'.of <=> f \in DOMAIN patchState.of
                             /\ f \in DOMAIN patchState.of => patchState'.of[f] = patchState.of[f]
  BY <1>5, <1>7, <1>9, <1>b
<1>13. "retroarch" \in RetroArchs
  BY <1>0, FilesOfDevices DEF RetroArchs
<1>14. port = "proxy" => \A f \in DOMAIN patchState'.of : patchState'.of[f].host # "nextPort"
  BY <1>7, <1>10
<1>15. ConfigTyped'
  <2>1. job'.at \in Nat /\ job'.previous \in SavedStates \cup {NoState} /\ job'.again \in BOOLEAN
    BY <1>3
  <2>2. Records' = Records
    BY DEF Records
  <2>3. ended' \in {"none", "start", "stop"}
    BY <1>2, <1>3
  <2>4. DOMAIN patchState'.of \subseteq Files
    <3>1. DOMAIN patchState.of \subseteq Files /\ DOMAIN job.got \subseteq Files
      BY <1>0, <1>6, JobFields DEF ConfigTyped
    <3> QED BY <1>7, <1>b, <3>1
  <2> QED BY <1>0, <1>1, <1>3, <1>4, <1>11, <2>1, <2>2, <2>3, <2>4 DEF ConfigTyped
<1>16. PortsKnown'
  <2>1. \A s \in {patchState', job'.previous} \ {NoState} :
          s = patchState' \/ (s \in {patchState, job.previous} \ {NoState})
    BY <1>3
  <2>2. ASSUME port' = "proxy"
        PROVE  /\ \A f \in Files' : cfg'[f].host # "nextPort"
               /\ \A f \in DOMAIN job'.got : job'.got[f].value.host # "nextPort"
               /\ \A s \in {patchState', job'.previous} \ {NoState} :
                    s.proxy # "nextPort" /\ \A f \in DOMAIN s.of : s.of[f].host # "nextPort"
    <3>1. \A s \in {patchState, job.previous} \ {NoState} :
            s.proxy # "nextPort" /\ \A f \in DOMAIN s.of : s.of[f].host # "nextPort"
      BY <1>0, <1>1, <2>2 DEF PortsKnown
    <3>2. patchState'.proxy # "nextPort"
          /\ \A f \in DOMAIN patchState'.of : patchState'.of[f].host # "nextPort"
      BY <1>1, <1>6, <1>7, <1>14, <2>2, <3>1
    <3>3. \A f \in Files' : cfg'[f].host # "nextPort"
      BY <1>0, <1>1, <1>4, <2>2 DEF PortsKnown
    <3> QED BY <1>3, <2>1, <3>1, <3>2, <3>3
  <2>3. ASSUME NEW s \in {patchState', job'.previous} \ {NoState},
               "retroarch" \in DOMAIN s.of, s.of["retroarch"].host = "nextPort"
        PROVE  s.proxy = "nextPort"
    <3>0. \A t \in {patchState, job.previous} \ {NoState} :
            "retroarch" \in DOMAIN t.of /\ t.of["retroarch"].host = "nextPort" => t.proxy = "nextPort"
      BY <1>0 DEF PortsKnown
    <3>1. CASE s = patchState'
      BY <1>6, <1>7, <1>12, <1>13, <2>3, <3>0, <3>1
    <3>2. CASE s \in {patchState, job.previous} \ {NoState}
      BY <2>3, <3>0, <3>2
    <3> QED BY <2>1, <3>1, <3>2
  <2> QED BY <2>2, <2>3 DEF PortsKnown
<1>17. \A f \in Files : (Ours(f)' <=> Ours(f)) /\ (Patched(f)' <=> Patched(f))
  BY <1>1 DEF Ours, Patched
<1>18. StopDisconnects'
  BY <1>2, <1>3 DEF StopDisconnects
<1>19. ASSUME Clear'
       PROVE  /\ \A f \in RetroArchs :
                   /\ f \in pointed' => Recorded(patchState, f)' /\ patchState'.of[f] = before'[f]
                   /\ f \in pointed' => cfg'[f] = PatchedContent(f)' \/ cfg'[f] = before'[f]
                   /\ f \notin pointed' => ~Ours(f)'
              /\ "append" \in Files => (Ours("retroarch")' <=> Ours("append")')
  <2>1. Clear
    BY <1>1, <1>19 DEF Clear
  <2>2. ASSUME NEW f \in RetroArchs
        PROVE  /\ f \in pointed' => Recorded(patchState, f)' /\ patchState'.of[f] = before'[f]
               /\ f \in pointed' => cfg'[f] = PatchedContent(f)' \/ cfg'[f] = before'[f]
               /\ f \notin pointed' => ~Ours(f)'
    BY <1>0, <1>1, <1>5, <1>11, <1>12, <1>17, <2>1
       DEF RetroArchKept, Recorded, PatchedContent, RetroArchs
  <2>3. "append" \in Files => (Ours("retroarch")' <=> Ours("append")')
    <3>1. "append" \in Files => (Ours("retroarch") <=> Ours("append"))
      BY <1>0, <1>2, <2>1 DEF RetroArchKept
    <3>2. "append" \in Files => "retroarch" \in Files
      BY <1>13 DEF RetroArchs
    <3> QED BY <1>17, <3>1, <3>2
  <2> QED BY <2>2, <2>3
<1>20. CASE job.at = Len(job.pass)
  <2>1. /\ job'.pass = <<>> /\ job'.at = 1 /\ job'.previous = NoState /\ ended' = "start"
        /\ Idle' /\ ~Starting' /\ ~Stopping' /\ ~Between'
    BY <1>3, <1>20 DEF Idle, Starting, Stopping, Between
  <2>2. JobRuns' /\ GotSince'
    BY <1>3, <2>1 DEF JobRuns, GotSince
  <2>3. AllPatched'
    <3>1. ASSUME NEW f \in Files PROVE Patched(f)
      <4>1. \A i \in job.at .. Len(job.pass) : i = job.at
        BY <1>3, <1>20
      <4>2. \A i \in job.at .. Len(job.pass) : job.pass[i] # <<"patch", f>>
        BY <1>1, <4>1
      <4> QED BY <1>0, <1>2, <4>2 DEF JobRuns
    <3> QED BY <1>4, <1>17, <3>1 DEF AllPatched
  <2>4. RetroArchKept'
    BY <1>1, <1>2, <1>3, <1>4, <1>19, <2>1 DEF RetroArchKept
  <2> QED BY <1>15, <1>16, <1>18, <2>2, <2>3, <2>4 DEF PatchInv
<1>21. CASE job.at < Len(job.pass)
  <2>1. /\ job'.pass = job.pass /\ job'.at = job.at + 1 /\ job'.previous = job.previous
        /\ job'.again = job.again /\ ended' = ended /\ job'.at - 1 = job.at
    BY <1>3, <1>21
  <2>2. ~Idle' /\ ~Stopping' /\ Starting' /\ (IsStart(job.pass)' <=> IsStart(job.pass))
        /\ (IsStop(job.pass)' <=> IsStop(job.pass))
    BY <1>1, <1>2, <1>4, <2>1 DEF Idle, Stopping, Starting
  <2>3. ~Between'
    BY <1>2, <2>1 DEF Between
  <2>4. JobRuns'
    <3>1. job'.at \in 1 .. Len(job'.pass)
      BY <1>3, <1>21, <2>1
    <3>2. ASSUME NEW f \in Files
          PROVE  Patched(f)' \/ \E i \in job'.at .. Len(job'.pass) : job'.pass[i] = <<"patch", f>>
      <4>1. CASE Patched(f)
        BY <1>17, <4>1
      <4>2. CASE ~Patched(f)
        <5>1. PICK i \in job.at .. Len(job.pass) : job.pass[i] = <<"patch", f>>
          BY <1>0, <1>2, <4>2 DEF JobRuns
        <5>2. i \in job'.at .. Len(job'.pass)
          <6>1. i # job.at
            BY <1>1, <5>1
          <6> QED BY <1>3, <2>1, <5>1, <6>1
        <5> QED BY <2>1, <5>1, <5>2
      <4> QED BY <4>1, <4>2
    <3> QED BY <1>1, <1>2, <1>4, <2>1, <2>2, <3>1, <3>2 DEF JobRuns
  <2>5. GotSince'
    <3>1. ASSUME NEW f \in Files, NEW i \in 1 .. (job'.at - 1)
          PROVE  ~Unsaved(job'.pass, f, i, job'.at - 1)
      <4>1. ~Unsaved(job.pass, f, i, job.at)
        BY <1>2, <2>1, <3>1
      <4> QED BY Zenon, <2>1, <4>1
    <3> QED BY <1>3, <1>4, <1>11, <2>2, <3>1 DEF GotSince
  <2>6. AllPatched'
    BY <1>2, <2>1 DEF AllPatched
  <2>7. RetroArchKept'
    BY <1>3, <1>4, <1>19, <2>2, <2>3 DEF RetroArchKept
  <2> QED BY <1>15, <1>16, <1>18, <2>4, <2>5, <2>6, <2>7 DEF PatchInv
<1> QED BY <1>3, <1>20, <1>21

(* What a stop writes into a file: something it can say, no address of the proxy, and in    *)
(* a file of RetroArch that was pointed at it what was there before.                       *)
LEMMA RevertedTyped ==
  ASSUME PatchInv, Stopping, NEW f \in Files
  PROVE  /\ Reverted(f) \in Contents
         /\ f # "secondary" => Reverted(f).host # port
         /\ port = "proxy" => Reverted(f).host # "nextPort"
         /\ Clear /\ f \in RetroArchs /\ f \in pointed => Reverted(f) = before[f]
<1>0. ConfigTyped /\ PortsKnown /\ GotSince /\ RetroArchKept
  BY DEF PatchInv
<1>1. /\ cfg[f] \in Contents /\ cfg[f].host \in Hosts /\ cfg[f].hard \in BOOLEAN
      /\ Recorded(job.previous, f) => job.previous.of[f] \in Contents
      /\ before[f] \in Values /\ port \in Ports
      /\ job.previous # NoState => job.previous.proxy \in Ports
  BY <1>0, JobFields DEF Recorded, ConfigTyped
<1>2. /\ Kept(f).host \in Hosts /\ Kept(f).hard \in BOOLEAN
      /\ Recorded(job.previous, f) => Kept(f) = job.previous.of[f]
      /\ ~Recorded(job.previous, f) => Kept(f).host = ""
  BY <1>1 DEF Kept, Contents, Hosts
<1>3. port = "proxy" => /\ cfg[f].host # "nextPort" /\ Kept(f).host # "nextPort"
                        /\ job.previous # NoState => job.previous.proxy # "nextPort"
  <2>1. port = "proxy" => cfg[f].host # "nextPort"
    BY <1>0 DEF PortsKnown
  <2>2. port = "proxy" /\ job.previous # NoState =>
          /\ job.previous.proxy # "nextPort"
          /\ \A g \in DOMAIN job.previous.of : job.previous.of[g].host # "nextPort"
    BY <1>0 DEF PortsKnown
  <2> QED BY <1>2, <2>1, <2>2 DEF Recorded
<1>4. f = "retroarch" /\ Recorded(job.previous, f) /\ Kept(f).host = "nextPort"
        => job.previous.proxy = "nextPort"
  BY <1>0, <1>2 DEF PortsKnown, Recorded
<1>5. Clear /\ f \in RetroArchs /\ f \in pointed =>
        /\ Recorded(job.previous, f) /\ Kept(f) = before[f]
        /\ cfg[f] = PatchedContent(f) \/ cfg[f] = before[f]
  <2>1. DOMAIN job.got = {} /\ job.previous = patchState
    BY <1>0 DEF GotSince
  <2> QED BY <1>0, <1>2, <2>1 DEF RetroArchKept
<1> DEFINE Good(c) == /\ c \in Contents /\ (f # "secondary" => c.host # port)
                      /\ (port = "proxy" => c.host # "nextPort")
<1>6. /\ \A h \in Hosts : Restore(f, h) \in Contents /\ Restore(f, h).host = h
      /\ \A h \in Hosts : (f # "secondary" => h # port) /\ (port = "proxy" => h # "nextPort")
                            => Good(Restore(f, h))
  <2>1. (cfg[f].hard \/ Kept(f).hard) \in BOOLEAN
    BY Zenon
  <2>2. \A h \in Hosts : Restore(f, h) \in Contents /\ Restore(f, h).host = h
    BY <2>1 DEF Restore, Contents
  <2> QED BY <2>2
<1>7. ASSUME f \in {"retroarch", "append"}, Clear, f \in RetroArchs, f \in pointed
      PROVE  Restore(f, before[f].host) = before[f]
  <2>1. before[f] = [host |-> before[f].host, hard |-> before[f].hard] /\ before[f].hard \in BOOLEAN
    BY <1>1 DEF Values
  <2>2. (cfg[f].hard \/ Kept(f).hard) <=> before[f].hard
    BY <1>5, <1>7, <2>1 DEF PatchedContent
  <2>3. (cfg[f].hard \/ Kept(f).hard) = before[f].hard
    BY <2>1, <2>2
  <2>4. Restore(f, before[f].host) = [host |-> before[f].host, hard |-> before[f].hard]
    BY Zenon, <2>3 DEF Restore
  <2> QED BY <2>1, <2>4
<1>8. CASE f = "retroarch"
  <2> DEFINE h == IF job.previous = NoState THEN "" ELSE Sane(Kept(f).host, job.previous.proxy)
  <2>1. Reverted(f) = Restore(f, h)
    BY <1>8 DEF Reverted, RevertedRetroArch
  <2>2. h \in Hosts /\ h # port /\ (port = "proxy" => h # "nextPort")
    BY <1>1, <1>2, <1>3, <1>4, <1>8 DEF Sane, Hosts, Ports, Recorded
  <2>3. Clear /\ f \in RetroArchs /\ f \in pointed => h = before[f].host
    <3>1. before[f].host \notin Ports
      BY <1>1 DEF Values, Ports
    <3> QED BY <1>1, <1>5, <3>1 DEF Sane, Recorded
  <2> HIDE DEF h
  <2> QED BY <1>6, <1>7, <1>8, <2>1, <2>2, <2>3
<1>9. CASE f = "append"
  <2> DEFINE h0 == IF Recorded(job.previous, f) THEN Kept(f).host ELSE cfg[f].host
             h == IF h0 \in Ports THEN "" ELSE h0
  <2>1. Reverted(f) = Restore(f, h)
    BY <1>9 DEF Reverted, RevertedAppend
  <2>2. h \in Hosts /\ h # port /\ (port = "proxy" => h # "nextPort")
    BY <1>1, <1>2 DEF Hosts, Ports
  <2>3. Clear /\ f \in RetroArchs /\ f \in pointed => h = before[f].host
    <3>1. before[f].host \notin Ports
      BY <1>1 DEF Values, Ports
    <3> QED BY <1>5, <3>1
  <2> HIDE DEF h
  <2> QED BY <1>6, <1>7, <1>9, <2>1, <2>2, <2>3
<1>10. CASE f = "secondary"
  <2>1. Reverted(f) = Restore(f, Kept(f).host)
    BY <1>10 DEF Reverted, RevertedSecondary
  <2>2. f \notin RetroArchs
    BY <1>10 DEF RetroArchs
  <2> QED BY <1>2, <1>3, <1>6, <1>10, <2>1, <2>2
<1>11. CASE f \notin {"retroarch", "append", "secondary"}
  <2>1. Reverted(f) = [host |-> Sane(Kept(f).host, port), hard |-> Kept(f).hard]
    BY <1>11 DEF Reverted, RevertedIni
  <2>2. Sane(Kept(f).host, port) \in Hosts /\ Sane(Kept(f).host, port) # port
        /\ (port = "proxy" => Sane(Kept(f).host, port) # "nextPort")
    BY <1>1, <1>2, <1>3 DEF Sane, Hosts, Ports
  <2>3. f \notin RetroArchs
    BY <1>11 DEF RetroArchs
  <2>4. Reverted(f) \in Contents /\ Reverted(f).host = Sane(Kept(f).host, port)
    <3>1. PICK h, b : h = Sane(Kept(f).host, port) /\ b = Kept(f).hard
      OBVIOUS
    <3>2. h \in Hosts /\ b \in BOOLEAN /\ Reverted(f) = [host |-> h, hard |-> b]
      BY <1>2, <2>1, <2>2, <3>1
    <3> QED BY <3>1, <3>2 DEF Contents
  <2> QED BY <2>2, <2>3, <2>4
<1> QED BY <1>8, <1>9, <1>10, <1>11

(* One file more is put back.                                                   *)
LEMMA FileReverted ==
  ASSUME PatchInv, NEW f \in Files, RevertFile(f)
  PROVE  PatchInv'
<1> USE DEF Jobs
<1>0. ConfigTyped /\ JobRuns /\ PortsKnown /\ GotSince /\ RetroArchKept
  BY DEF PatchInv
<1>1. /\ ~Idle /\ job.pass[job.at] = <<"revert", f>> /\ job.pass[job.at][1] = "revert"
      /\ cfg' = [cfg EXCEPT ![f] = Reverted(f)]
      /\ UNCHANGED <<device, patchState, port, up, powered, autostart, powerFails, edits, before,
                     pointed, muddled>>
  BY DEF RevertFile, Doing
<1>2. /\ Stopping /\ ~IsStart(job.pass) /\ IsStop(job.pass) /\ ~Starting
      /\ ended = "none" /\ powered /\ DOMAIN job.got = {} /\ job.previous = patchState
  <2>1. ~IsStart(job.pass)
    BY <1>0, <1>1 DEF IsStart, JobRuns
  <2> QED BY <1>0, <1>1, <2>1 DEF JobRuns, Stopping, Starting, GotSince
<1>3. /\ job' \in Jobs
      /\ DOMAIN job'.got = {}
      /\ job.at \in 1 .. Len(job.pass) /\ Len(job.pass) \in Nat /\ job.at \in Nat
      /\ job.at = Len(job.pass) =>
           job'.pass = <<>> /\ job'.at = 1 /\ job'.previous = NoState /\ ended' = "stop"
      /\ job.at < Len(job.pass) =>
           /\ job'.pass = job.pass /\ job'.at = job.at + 1 /\ job'.previous = job.previous
           /\ job'.again = job.again /\ ended' = ended
  <2>1. job \in Jobs
    BY <1>0 DEF ConfigTyped
  <2>2. PICK next : next = [job EXCEPT !.at = job.at + 1]
    OBVIOUS
  <2>3. next = [[job EXCEPT !.at = job.at + 1] EXCEPT !.got = job.got]
    <3>1. next = [pass |-> job.pass, at |-> job.at + 1, previous |-> job.previous,
                  again |-> job.again, got |-> job.got]
      BY <2>1, <2>2
    <3> QED BY <2>2, <3>1
  <2>4. FinishJob([[job EXCEPT !.at = job.at + 1] EXCEPT !.got = job.got], "stop")
    <3>1. FinishJob([job EXCEPT !.at = job.at + 1], "stop")
      BY DEF RevertFile, Rest
    <3> QED BY Zenon, <2>2, <2>3, <3>1
  <2>5. job.got \in UNION {[fs -> Records] : fs \in SUBSET Files}
    BY <2>1
  <2> QED BY <1>1, <1>2, <2>4, <2>5, JobRests
<1>4. /\ Reverted(f) \in Contents
      /\ f # "secondary" => Reverted(f).host # port
      /\ port = "proxy" => Reverted(f).host # "nextPort"
      /\ Clear /\ f \in RetroArchs /\ f \in pointed => Reverted(f) = before[f]
  BY <1>2, RevertedTyped
<1>5. /\ cfg' \in [FilesOf[device] -> Contents] /\ DOMAIN cfg = Files /\ Files = FilesOf[device]
      /\ cfg'[f] = Reverted(f)
      /\ \A g \in Files \ {f} : cfg'[g] = cfg[g]
  BY <1>0, <1>1, <1>4, FilesOfDevices DEF ConfigTyped
<1>6. /\ Files' = Files /\ RetroArchs' = RetroArchs /\ PatchSteps' = PatchSteps
      /\ IsStart(job.pass)' <=> IsStart(job'.pass)
      /\ IsStop(job.pass)' <=> IsStop(job'.pass)
  BY <1>0, <1>1, <1>5, FilesStay
<1>7. ConfigTyped'
  <2>1. job'.at \in Nat /\ job'.previous \in SavedStates \cup {NoState} /\ job'.again \in BOOLEAN
    BY <1>3
  <2>2. Records' = Records
    BY DEF Records
  <2>3. ended' \in {"none", "start", "stop"}
    BY <1>2, <1>3
  <2> QED BY <1>0, <1>1, <1>3, <1>5, <1>6, <2>1, <2>2, <2>3 DEF ConfigTyped
<1>8. PortsKnown'
  <2>1. \A s \in {patchState', job'.previous} \ {NoState} :
          s \in {patchState, job.previous} \ {NoState}
    BY <1>1, <1>3
  <2>2. port = "proxy" => \A g \in Files : cfg'[g].host # "nextPort"
    BY <1>0, <1>4, <1>5 DEF PortsKnown
  <2> QED BY <1>0, <1>1, <1>3, <1>6, <2>1, <2>2 DEF PortsKnown
<1>9. AllPatched'
  BY <1>2, <1>3 DEF AllPatched
<1>10. ASSUME Clear'
       PROVE  /\ \A g \in RetroArchs :
                   /\ g \in pointed' => Recorded(patchState, g)' /\ patchState'.of[g] = before'[g]
                   /\ g \in pointed' => cfg'[g] = PatchedContent(g)' \/ cfg'[g] = before'[g]
                   /\ g \notin pointed' => ~Ours(g)'
  <2>1. Clear /\ port = "proxy"
    BY <1>1, <1>10 DEF Clear
  <2>2. /\ RetroArchs \subseteq Files /\ \A g \in RetroArchs : g # "secondary"
    BY DEF RetroArchs
  <2>3. f # "secondary" => ~Ours(f)'
    BY <1>1, <1>4, <1>5, <2>1 DEF Ours, Ports
  <2>4. ASSUME NEW g \in RetroArchs
        PROVE  /\ g \in pointed' => Recorded(patchState, g)' /\ patchState'.of[g] = before'[g]
               /\ g \in pointed' => cfg'[g] = PatchedContent(g)' \/ cfg'[g] = before'[g]
               /\ g \notin pointed' => ~Ours(g)'
    <3>1. /\ g \in pointed => Recorded(patchState, g) /\ patchState.of[g] = before[g]
          /\ g \in pointed => cfg[g] = PatchedContent(g) \/ cfg[g] = before[g]
          /\ g \notin pointed => ~Ours(g)
      BY <1>0, <1>2, <2>1 DEF RetroArchKept
    <3>2. g \in pointed' => Recorded(patchState, g)' /\ patchState'.of[g] = before'[g]
      BY <1>1, <3>1 DEF Recorded
    <3>3. CASE g = f
      BY <1>1, <1>4, <1>5, <2>1, <2>2, <2>3, <3>2, <3>3
    <3>4. CASE g # f
      <4>1. cfg'[g] = cfg[g]
        BY <1>5, <2>2, <3>4
      <4> QED BY <1>1, <3>1, <3>2, <4>1 DEF PatchedContent, Ours
    <3> QED BY <3>3, <3>4
  <2> QED BY <2>4
<1>11. CASE job.at = Len(job.pass)
  <2>1. /\ job'.pass = <<>> /\ job'.at = 1 /\ job'.previous = NoState /\ ended' = "stop"
        /\ Idle' /\ ~Starting' /\ ~Stopping' /\ ~Between'
    BY <1>3, <1>11 DEF Idle, Starting, Stopping, Between
  <2>2. JobRuns' /\ GotSince'
    BY <1>3, <2>1 DEF JobRuns, GotSince
  <2>3. \A g \in Files \ {"secondary"} : cfg'[g].host # port
    <3>1. ASSUME NEW g \in Files \ {"secondary"}, g # f PROVE cfg[g].host # port
      <4>1. \A i \in job.at .. Len(job.pass) : i = job.at
        BY <1>3, <1>11
      <4>2. \A i \in job.at .. Len(job.pass) : job.pass[i] # <<"revert", g>>
        BY <1>1, <3>1, <4>1
      <4> QED BY <1>0, <1>2, <4>2 DEF JobRuns
    <3> QED BY <1>4, <1>5, <3>1
  <2>4. StopDisconnects'
    BY <1>1, <1>6, <2>3 DEF StopDisconnects
  <2>5. RetroArchKept'
    <3> SUFFICES ASSUME Clear' PROVE RetroArchKept'
      BY DEF RetroArchKept
    <3>1. \A g \in Files \ {"secondary"} : ~Ours(g)'
      <4>1. port = "proxy" /\ port' = "proxy"
        BY <1>1 DEF Clear
      <4>2. \A g \in Files : cfg'[g].host # "nextPort"
        BY <1>6, <1>8, <4>1 DEF PortsKnown
      <4> QED BY <2>3, <4>1, <4>2 DEF Ours, Ports
    <3>2. "append" \in Files => ~Ours("retroarch")' /\ ~Ours("append")'
      <4>1. "retroarch" \in Files
        BY <1>0, FilesOfDevices
      <4> QED BY <3>1, <4>1
    <3> QED BY <1>3, <1>6, <1>10, <2>1, <3>2 DEF RetroArchKept
  <2> QED BY <1>7, <1>8, <1>9, <2>2, <2>4, <2>5 DEF PatchInv
<1>12. CASE job.at < Len(job.pass)
  <2>1. /\ job'.pass = job.pass /\ job'.at = job.at + 1 /\ job'.previous = job.previous
        /\ job'.again = job.again /\ ended' = ended
    BY <1>3, <1>12
  <2>2. /\ ~Idle' /\ Stopping' /\ ~Starting' /\ (IsStart(job.pass)' <=> IsStart(job.pass))
        /\ (IsStop(job.pass)' <=> IsStop(job.pass)) /\ ~Between'
    BY <1>1, <1>2, <1>6, <2>1 DEF Idle, Stopping, Starting, Between
  <2>3. JobRuns'
    <3>1. job'.at \in 1 .. Len(job'.pass)
      BY <1>3, <1>12, <2>1
    <3>2. ASSUME NEW g \in Files \ {"secondary"}
          PROVE  cfg'[g].host # port \/ \E i \in job'.at .. Len(job'.pass) : job'.pass[i] = <<"revert", g>>
      <4>1. CASE g = f
        BY <1>4, <1>5, <4>1
      <4>2. CASE g # f /\ cfg[g].host # port
        BY <1>5, <4>2
      <4>3. CASE g # f /\ cfg[g].host = port
        <5>1. PICK i \in job.at .. Len(job.pass) : job.pass[i] = <<"revert", g>>
          BY <1>0, <1>2, <4>3 DEF JobRuns
        <5>2. i \in job'.at .. Len(job'.pass)
          <6>1. i # job.at
            BY <1>1, <4>3, <5>1
          <6> QED BY <1>3, <2>1, <5>1, <6>1
        <5> QED BY <2>1, <5>1, <5>2
      <4> QED BY <4>1, <4>2, <4>3
    <3> QED BY <1>1, <1>2, <1>6, <2>1, <2>2, <3>1, <3>2 DEF JobRuns
  <2>4. GotSince'
    BY <1>1, <1>2, <1>3, <2>1, <2>2 DEF GotSince
  <2>5. StopDisconnects'
    BY <1>2, <2>1 DEF StopDisconnects
  <2>6. RetroArchKept'
    BY <1>3, <1>6, <1>10, <2>2 DEF RetroArchKept
  <2> QED BY <1>7, <1>8, <1>9, <2>3, <2>4, <2>5, <2>6 DEF PatchInv
<1> QED BY <1>3, <1>11, <1>12

(* The device is switched off, and in the middle of a save the patch state may be lost.      *)
LEMMA PowerIsCut ==
  ASSUME PatchInv, PowerCut
  PROVE  PatchInv'
<1> USE DEF Jobs
<1>0. ConfigTyped /\ JobRuns /\ PortsKnown /\ GotSince /\ RetroArchKept
  BY DEF PatchInv
<1>1. /\ powered /\ powerFails < PowerCuts /\ powerFails' = powerFails + 1
      /\ powered' = FALSE /\ up' = FALSE /\ job' = NoJob /\ ended' = "none"
      /\ patchState' = patchState \/ (~Idle /\ patchState' = NoState)
      /\ muddled' <=> muddled \/ ~Idle
      /\ muddled' \in BOOLEAN
      /\ UNCHANGED <<device, cfg, port, autostart, edits, before, pointed>>
  <2>1. (muddled \/ ~Idle) \in BOOLEAN
    BY Zenon
  <2> QED BY <2>1 DEF PowerCut, Doing
<1>2. /\ job' = [pass |-> <<>>, at |-> 1, previous |-> NoState, again |-> FALSE, got |-> <<>>]
      /\ job'.pass = <<>> /\ job'.at = 1 /\ job'.previous = NoState /\ job'.got = <<>>
      /\ job'.again = FALSE
      /\ DOMAIN job'.got = {} /\ <<>> \in UNION {[fs -> Records] : fs \in SUBSET Files}
  <2>1. job' = [pass |-> <<>>, at |-> 1, previous |-> NoState, again |-> FALSE, got |-> <<>>]
    BY <1>1 DEF NoJob
  <2>2. <<>> \in UNION {[fs -> Records] : fs \in SUBSET Files} /\ DOMAIN <<>> = {}
    <3>1. <<>> \in [{} -> Records] /\ DOMAIN <<>> = {}
      OBVIOUS
    <3> QED BY <3>1
  <2> QED BY <2>1, <2>2
<1>3. Files' = Files /\ RetroArchs' = RetroArchs /\ PatchSteps' = PatchSteps
  <2>1. cfg' \in [FilesOf[device] -> Contents] /\ device' = device
    BY <1>0, <1>1 DEF ConfigTyped
  <2> QED BY <1>0, <2>1, FilesStay
<1>4. ConfigTyped'
  <2>1. <<>> \in Seq(PatchSteps) /\ 1 \in Nat
    OBVIOUS
  <2>2. job' \in Jobs
    BY <1>2, <2>1
  <2>3. Records' = Records
    BY DEF Records
  <2>4. powerFails' \in 0 .. PowerCuts
    BY <1>0, <1>1, PatchAssumption DEF ConfigTyped
  <2> QED BY <1>0, <1>1, <1>2, <1>3, <2>2, <2>3, <2>4 DEF ConfigTyped
<1>5. Idle' /\ ~Starting' /\ ~Stopping' /\ ~Between'
  BY <1>2 DEF Idle, Starting, Stopping, Between
<1>6. JobRuns' /\ GotSince'
  BY <1>2, <1>5 DEF JobRuns, GotSince
<1>7. PortsKnown'
  <2>1. \A s \in {patchState', job'.previous} \ {NoState} : s \in {patchState, job.previous} \ {NoState}
    BY <1>1, <1>2
  <2> QED BY <1>0, <1>1, <1>2, <1>3, <2>1 DEF PortsKnown
<1>8. AllPatched' /\ StopDisconnects'
  BY <1>1 DEF AllPatched, StopDisconnects
<1>9. RetroArchKept'
  <2> SUFFICES ASSUME Clear' PROVE RetroArchKept'
    BY DEF RetroArchKept
  <2>1. Clear /\ Idle /\ patchState' = patchState /\ DOMAIN job.got = {}
    BY <1>0, <1>1 DEF Clear, JobRuns
  <2>2. ~Between
    BY <2>1 DEF Between, Starting
  <2>3. \A f : (Ours(f)' <=> Ours(f)) /\ (Recorded(patchState, f)' <=> Recorded(patchState, f))
               /\ PatchedContent(f)' = PatchedContent(f)
    BY <1>1, <2>1 DEF Ours, Recorded, PatchedContent
  <2>4. \A f \in RetroArchs' :
          /\ f \in DOMAIN job'.got => job'.got[f].value = before'[f] /\ f \in pointed' /\ Ours(f)'
          /\ f \in pointed' /\ f \notin DOMAIN job'.got =>
               Recorded(patchState, f)' /\ patchState'.of[f] = before'[f]
          /\ f \in pointed' => cfg'[f] = PatchedContent(f)' \/ cfg'[f] = before'[f]
          /\ f \notin pointed' => ~Ours(f)'
    BY <1>0, <1>1, <1>2, <1>3, <2>1, <2>3 DEF RetroArchKept
  <2>5. "append" \in Files' => (Ours("retroarch")' <=> Ours("append")')
    BY <1>0, <1>3, <2>1, <2>2, <2>3 DEF RetroArchKept
  <2> QED BY <1>1, <1>5, <2>4, <2>5 DEF RetroArchKept
<1> QED BY <1>4, <1>6, <1>7, <1>8, <1>9 DEF PatchInv

(* The user changes a file while nothing runs; it is then no file pointed at the proxy.      *)
LEMMA FileEdited ==
  ASSUME PatchInv, NEW f \in Files, NEW v \in Values, EditFile(f, v)
  PROVE  PatchInv'
<1> USE DEF Jobs
<1>0. ConfigTyped /\ JobRuns /\ PortsKnown /\ GotSince /\ RetroArchKept
  BY DEF PatchInv
<1>1. /\ Idle /\ powered /\ ~up /\ edits < Edits /\ edits' = edits + 1
      /\ cfg' = [cfg EXCEPT ![f] = v] /\ ended' = "none" /\ pointed' = pointed \ {f}
      /\ UNCHANGED <<device, patchState, port, job, up, powered, autostart, powerFails, before,
                     muddled>>
  BY DEF EditFile
<1>2. v \in Contents /\ v.host \notin Ports
  BY DEF Values, Contents, Hosts, Ports
<1>3. /\ cfg' \in [FilesOf[device] -> Contents] /\ DOMAIN cfg = Files /\ Files = FilesOf[device]
      /\ cfg'[f] = v /\ \A g \in Files \ {f} : cfg'[g] = cfg[g]
  BY <1>0, <1>1, <1>2, FilesOfDevices DEF ConfigTyped
<1>4. /\ Files' = Files /\ RetroArchs' = RetroArchs /\ PatchSteps' = PatchSteps
  BY <1>0, <1>1, <1>3, FilesStay
<1>5. ConfigTyped'
  <2>1. edits' \in 0 .. Edits
    BY <1>0, <1>1, PatchAssumption DEF ConfigTyped
  <2>2. Records' = Records /\ pointed' \subseteq Files
    BY <1>0, <1>1 DEF Records, ConfigTyped
  <2> QED BY <1>0, <1>1, <1>3, <1>4, <2>1, <2>2 DEF ConfigTyped
<1>6. Idle' /\ ~Starting' /\ ~Stopping' /\ ~Between' /\ DOMAIN job.got = {}
  BY <1>0, <1>1 DEF JobRuns, Idle, Starting, Stopping, Between
<1>7. JobRuns' /\ GotSince'
  BY <1>1, <1>6 DEF JobRuns, GotSince
<1>8. PortsKnown'
  <2>1. port = "proxy" => \A g \in Files : cfg'[g].host # "nextPort"
    BY <1>0, <1>2, <1>3 DEF PortsKnown, Ports
  <2> QED BY <1>0, <1>1, <1>4, <2>1 DEF PortsKnown
<1>9. AllPatched' /\ StopDisconnects'
  BY <1>1 DEF AllPatched, StopDisconnects
<1>10. RetroArchKept'
  <2> SUFFICES ASSUME Clear' PROVE RetroArchKept'
    BY DEF RetroArchKept
  <2>1. Clear
    BY <1>1 DEF Clear
  <2>2. ~Ours(f)' /\ \A g \in Files \ {f} : Ours(g)' <=> Ours(g)
    BY <1>1, <1>2, <1>3 DEF Ours
  <2>3. ASSUME NEW g \in RetroArchs
        PROVE  /\ g \in pointed' => Recorded(patchState, g)' /\ patchState'.of[g] = before'[g]
               /\ g \in pointed' => cfg'[g] = PatchedContent(g)' \/ cfg'[g] = before'[g]
               /\ g \notin pointed' => ~Ours(g)'
    <3>1. /\ g \in pointed => Recorded(patchState, g) /\ patchState.of[g] = before[g]
          /\ g \in pointed => cfg[g] = PatchedContent(g) \/ cfg[g] = before[g]
          /\ g \notin pointed => ~Ours(g)
      BY <1>0, <1>6, <2>1 DEF RetroArchKept
    <3>2. g \in Files
      BY DEF RetroArchs
    <3>3. CASE g = f
      BY <1>1, <2>2, <3>3
    <3>4. CASE g # f
      BY <1>1, <1>3, <2>2, <3>1, <3>2, <3>4 DEF Recorded, PatchedContent
    <3> QED BY <3>3, <3>4
  <2>4. "append" \in Files => ~Ours("retroarch")' /\ ~Ours("append")'
    <3>1. "append" \in Files => ~Ours("retroarch") /\ ~Ours("append") /\ "retroarch" \in Files
      BY <1>0, <1>1, <2>1, FilesOfDevices DEF RetroArchKept
    <3> QED BY <2>2, <3>1
  <2> QED BY <1>1, <1>4, <1>6, <2>3, <2>4 DEF RetroArchKept
<1> QED BY <1>5, <1>7, <1>8, <1>9, <1>10 DEF PatchInv

(* Nothing happens.                                                             *)
LEMMA PatchRests ==
  ASSUME PatchInv, UNCHANGED patchVars
  PROVE  PatchInv'
<1> USE DEF Jobs
<1>1. ConfigTyped'
  BY DEF PatchInv, patchVars, ConfigTyped, Files, PatchSteps, Records, SavedStates
<1>2. Files' = Files /\ RetroArchs' = RetroArchs /\ PatchSteps' = PatchSteps
      /\ (IsStart(job.pass)' <=> IsStart(job.pass)) /\ (IsStop(job.pass)' <=> IsStop(job.pass))
  <2>1. cfg' \in [FilesOf[device] -> Contents] /\ device' = device /\ job' = job
    BY DEF PatchInv, patchVars, ConfigTyped
  <2> QED BY <2>1, FilesStay DEF PatchInv
<1>3. (Starting' <=> Starting) /\ (Stopping' <=> Stopping) /\ (Idle' <=> Idle)
  BY <1>2 DEF patchVars, Starting, Stopping, Idle
<1>4. JobRuns' /\ GotSince'
  BY <1>2, <1>3 DEF PatchInv, patchVars, JobRuns, GotSince, Patched, Unsaved
<1>5. PortsKnown'
  BY <1>2 DEF PatchInv, patchVars, PortsKnown
<1>6. RetroArchKept'
  BY <1>2, <1>3 DEF PatchInv, patchVars, RetroArchKept, Clear, Ours, Between, Recorded, PatchedContent
<1>7. AllPatched' /\ StopDisconnects'
  BY <1>2 DEF PatchInv, patchVars, AllPatched, StopDisconnects, Patched
<1> QED BY <1>1, <1>4, <1>5, <1>6, <1>7 DEF PatchInv

(* No step breaks the invariant.                                                 *)
LEMMA PatchStep ==
  ASSUME PatchInv, [PatchNext]_patchVars
  PROVE  PatchInv'
<1>1. ASSUME NEW by \in {"cli", "menu"}, StartProxy(by) PROVE PatchInv'
  BY <1>1, PatchStarts
<1>2. ASSUME NEW by \in {"cli", "menu"}, StopProxy(by) PROVE PatchInv'
  BY <1>2, PatchStops
<1>3. CASE Boot
  BY <1>3, PatchBoots
<1>4. CASE SaveState
  BY <1>4, StateSaved
<1>5. CASE StoreState
  BY <1>5, StateStored
<1>6. CASE PowerCut
  BY <1>6, PowerIsCut
<1>7. ASSUME NEW f \in Files, PatchFile(f) PROVE PatchInv'
  BY <1>7, FilePatched
<1>8. ASSUME NEW f \in Files, RevertFile(f) PROVE PatchInv'
  BY <1>8, FileReverted
<1>9. ASSUME NEW f \in Files, NEW v \in [host : {"", "custom"}, hard : BOOLEAN], EditFile(f, v)
      PROVE  PatchInv'
  BY <1>9, FileEdited DEF Values
<1>10. CASE UNCHANGED patchVars
  BY <1>10, PatchRests
<1> QED BY <1>1, <1>2, <1>3, <1>4, <1>5, <1>6, <1>7, <1>8, <1>9, <1>10 DEF PatchNext

(* The invariant holds at first.                                                  *)
LEMMA PatchBegun ==
  ASSUME PatchInit PROVE PatchInv
<1> USE DEF Jobs
<1>1. PICK old : old \in {"", "custom"} /\ cfg = [f \in FilesOf[device] |-> [host |-> old, hard |-> TRUE]]
  BY DEF PatchInit
<1>2. /\ device \in {"handheld", "darkos"} /\ patchState = NoState /\ port = "proxy"
      /\ up = FALSE /\ powered = TRUE /\ autostart \in BOOLEAN /\ powerFails = 0 /\ edits = 0
      /\ before = cfg /\ pointed = {} /\ ended = "none" /\ muddled = FALSE
      /\ job = [pass |-> <<>>, at |-> 1, previous |-> NoState, again |-> FALSE, got |-> <<>>]
  BY DEF PatchInit, NoJob
<1>3. /\ job.pass = <<>> /\ job.at = 1 /\ job.previous = NoState /\ job.got = <<>>
      /\ job.again = FALSE
      /\ DOMAIN job.got = {} /\ <<>> \in UNION {[fs -> Records] : fs \in SUBSET Files}
  <2>1. <<>> \in UNION {[fs -> Records] : fs \in SUBSET Files} /\ DOMAIN <<>> = {}
    <3>1. <<>> \in [{} -> Records] /\ DOMAIN <<>> = {}
      OBVIOUS
    <3> QED BY <3>1
  <2> QED BY <1>2, <2>1
<1>4. [host |-> old, hard |-> TRUE] \in Values /\ Values \subseteq Contents
  BY <1>1 DEF Values, Contents, Hosts
<1>5. /\ cfg \in [FilesOf[device] -> Values] /\ cfg \in [FilesOf[device] -> Contents]
      /\ \A f \in Files : cfg[f].host \notin Ports
  BY <1>1, <1>4 DEF Files, Ports
<1>6. ConfigTyped
  <2>1. <<>> \in Seq(PatchSteps) /\ 1 \in Nat
    OBVIOUS
  <2>2. job \in Jobs
    BY <1>2, <1>3, <2>1
  <2>3. 0 \in 0 .. PowerCuts /\ 0 \in 0 .. Edits /\ port \in Ports
    BY <1>2, PatchAssumption DEF Ports
  <2> QED BY <1>2, <1>3, <1>5, <2>2, <2>3 DEF ConfigTyped
<1>7. Idle /\ ~Starting /\ ~Stopping /\ ~Between
  BY <1>3 DEF Idle, Starting, Stopping, Between
<1>8. JobRuns /\ GotSince
  BY <1>3, <1>7 DEF JobRuns, GotSince
<1>9. PortsKnown
  BY <1>2, <1>3, <1>5 DEF PortsKnown, Ports
<1>10. RetroArchKept
  <2>1. RetroArchs \subseteq Files /\ \A f \in Files : ~Ours(f)
    BY <1>5 DEF RetroArchs, Ours
  <2>2. "append" \in Files => "retroarch" \in Files
    BY <1>6, FilesOfDevices
  <2> QED BY <1>2, <1>3, <1>7, <2>1, <2>2 DEF RetroArchKept
<1>11. AllPatched /\ StopDisconnects
  BY <1>2 DEF AllPatched, StopDisconnects
<1> QED BY <1>6, <1>8, <1>9, <1>10, <1>11 DEF PatchInv

(* It holds in every behaviour.                                                   *)
THEOREM PatchInvariant == PatchSpec => []PatchInv
<1>1. PatchInit => PatchInv
  BY PatchBegun
<1>2. PatchInv /\ [PatchNext]_patchVars => PatchInv'
  BY PatchStep
<1> QED BY <1>1, <1>2, PTL DEF PatchSpec

(* Every variable of the configuration model stays within its type.                  *)
THEOREM ConfigsTyped == PatchSpec => []PatchTypeOK
<1>1. PatchInv => PatchTypeOK
  <2> SUFFICES ASSUME PatchInv PROVE PatchTypeOK
    OBVIOUS
  <2>1. ConfigTyped
    BY DEF PatchInv
  <2>2. patchState # NoState => patchState.proxy \in Ports
    BY <2>1, JobFields
  <2> QED BY <2>1, <2>2, JobFields DEF ConfigTyped, PatchTypeOK, Values
<1> QED BY <1>1, PatchInvariant, PTL

(* Once a start is over every file sends the emulator through the proxy and none plays       *)
(* hardcore; once a stop is over none but the second RetroArch's points at it: however often  *)
(* the device was switched off before, in the middle of a job too. RetroArch gets back what   *)
(* its user had where no job was cut short and the proxy's address never moved.               *)
THEOREM EmulatorsFollowTheProxy == PatchSpec => []EmulatorsFollow
<1>1. PatchInv => EmulatorsFollow
  <2> SUFFICES ASSUME PatchInv PROVE RetroArchRestored
    BY DEF PatchInv, EmulatorsFollow
  <2> SUFFICES ASSUME ended = "stop", ~muddled, port = "proxy",
                      NEW f \in pointed \cap {"retroarch", "append"}
               PROVE  cfg[f] = before[f]
    BY DEF RetroArchRestored
  <2>1. f \in RetroArchs /\ f # "secondary"
    BY DEF PatchInv, ConfigTyped, RetroArchs
  <2>2. cfg[f] = PatchedContent(f) \/ cfg[f] = before[f]
    BY <2>1 DEF PatchInv, RetroArchKept, Clear
  <2>3. cfg[f].host # port
    BY <2>1 DEF PatchInv, StopDisconnects, RetroArchs
  <2> QED BY <2>2, <2>3 DEF PatchedContent
<1> QED BY <1>1, PatchInvariant, PTL

-----------------------------------------------------------------------------
(* The counts of unlocks.                                                   *)

(* A set of naturals has a smallest member: what an induction over the rows is *)
(* made of here.                                                            *)
LEMMA SmallestIn ==
  ASSUME NEW T \in SUBSET Nat, T # {}
  PROVE  \E n \in T : \A m \in T : n <= m
<1>1. \E n \in T : \A m \in T : ~(<<m, n>> \in OpToRel(<, Nat))
  BY NatLessThanWellFounded, WFMin
<1>2. OpToRel(<, Nat) = {ss \in Nat \X Nat : ss[1] < ss[2]}
  BY Zenon DEF OpToRel
<1>3. \E n \in T : \A m \in T : ~(<<m, n>> \in {ss \in Nat \X Nat : ss[1] < ss[2]})
  BY <1>1, <1>2, Zenon
<1>4. \A m, n \in T : <<m, n>> \in {ss \in Nat \X Nat : ss[1] < ss[2]} <=> m < n
  OBVIOUS
<1>5. PICK n \in T : \A m \in T : ~(m < n)
  BY <1>3, <1>4, Zenon
<1>6. \A m \in T : n <= m
  BY <1>5
<1> QED
  BY <1>6

UnlockRow(r) == /\ r \in Rows(SUBSET (Ids \cup {FakeId}))
                /\ r.ids \subseteq {a \in Ids : GameOf(a) = r.game} \cup {FakeId}

(* A table of answers: a row for each game and account, with answers about   *)
(* the achievements of its game.                                            *)
UnlockTable(rows) ==
  /\ rows \in Seq(Rows(SUBSET (Ids \cup {FakeId})))
  /\ \A i \in DOMAIN rows : UnlockRow(rows[i])
  /\ \A i, j \in DOMAIN rows :
       rows[i].game = rows[j].game /\ rows[i].user = rows[j].user => i = j

CountInv == UnlockTable(unlockRows) /\ UnlockTable(sessionRows) /\ CountTypeOK

(* The recursion of WithoutGame up to n.                                    *)
Leaving(f, rows, g, n) ==
  f = [i \in 0..n |->
         IF i = 0 THEN <<>>
         ELSE IF rows[i].game = g THEN f[i - 1] ELSE Append(f[i - 1], rows[i])]

(* There is a function that recurses like WithoutGame.                      *)
LEMMA LeavingExists ==
  ASSUME NEW rows, Len(rows) \in Nat, NEW g
  PROVE  \E f : Leaving(f, rows, g, Len(rows))
<1> DEFINE Bad == {n \in 0..Len(rows) : ~\E f : Leaving(f, rows, g, n)}
<1>1. SUFFICES ASSUME Bad # {} PROVE FALSE
  OBVIOUS
<1>2. PICK n \in Bad : \A m \in Bad : n <= m
  <2>1. Bad \in SUBSET Nat
    OBVIOUS
  <2> QED
    BY <1>1, <2>1, SmallestIn
<1>3. n # 0
  <2>1. Leaving([i \in 0..0 |-> <<>>], rows, g, 0)
    BY DEF Leaving
  <2> QED
    BY <2>1
<1>4. n - 1 \in 0..Len(rows) /\ n - 1 \notin Bad
  BY <1>2, <1>3
<1>5. PICK f : Leaving(f, rows, g, n - 1)
  BY <1>4
<1> DEFINE next == [i \in 0..n |-> IF i < n THEN f[i]
                      ELSE IF rows[n].game = g THEN f[n - 1] ELSE Append(f[n - 1], rows[n])]
<1>6. ASSUME NEW i \in 0..n
      PROVE  next[i] = IF i = 0 THEN <<>>
                       ELSE IF rows[i].game = g THEN next[i - 1] ELSE Append(next[i - 1], rows[i])
  <2>1. CASE i = n
    <3>1. n \in 0..n /\ n - 1 \in 0..n /\ n - 1 < n /\ ~(n < n)
      BY <1>4
    <3>2. next[n - 1] = f[n - 1]
      BY <3>1
    <3>3. next[n] = IF rows[n].game = g THEN f[n - 1] ELSE Append(f[n - 1], rows[n])
      BY <3>1
    <3> QED
      BY <1>3, <2>1, <3>2, <3>3
  <2>2. CASE i < n
    <3>1. n \in Nat /\ i \in 0..(n - 1) /\ (i # 0 => i - 1 \in 0..n /\ i - 1 < n)
      BY <1>4, <2>2
    <3>2. next[i] = f[i] /\ (i # 0 => next[i - 1] = f[i - 1])
      BY <2>2, <3>1
    <3>3. f[i] = IF i = 0 THEN <<>>
                 ELSE IF rows[i].game = g THEN f[i - 1] ELSE Append(f[i - 1], rows[i])
      BY <1>5, <3>1 DEF Leaving
    <3> HIDE DEF next
    <3> QED
      BY <3>2, <3>3
  <2> QED
    BY <2>1, <2>2
<1>7. Leaving(next, rows, g, n)
  BY <1>6 DEF Leaving
<1> QED
  BY <1>2, <1>7

(* What is left of a table when a game is removed is a table.               *)
LEMMA WithoutGameFacts ==
  ASSUME NEW rows, UnlockTable(rows), NEW g
  PROVE  UnlockTable(WithoutGame(rows, g))
<1> DEFINE X == Rows(SUBSET (Ids \cup {FakeId}))
<1>1. rows \in Seq(X) /\ Len(rows) \in Nat /\ DOMAIN rows = 1..Len(rows)
  BY DEF UnlockTable
<1>2. PICK f : Leaving(f, rows, g, Len(rows)) /\ WithoutGame(rows, g) = f[Len(rows)]
  <2> DEFINE kept == CHOOSE f : Leaving(f, rows, g, Len(rows))
  <2>1. WithoutGame(rows, g) = kept[Len(rows)]
    BY DEF WithoutGame, Leaving
  <2>2. Leaving(kept, rows, g, Len(rows))
    BY <1>1, LeavingExists
  <2> QED
    BY <2>1, <2>2
<1> DEFINE Good(n) ==
      /\ f[n] \in Seq(X)
      /\ \A j \in DOMAIN f[n] : \E i \in 1..n : f[n][j] = rows[i]
      /\ \A i, j \in DOMAIN f[n] :
           f[n][i].game = f[n][j].game /\ f[n][i].user = f[n][j].user => i = j
      Bad == {n \in 0..Len(rows) : ~Good(n)}
<1>3. SUFFICES ASSUME Bad # {} PROVE FALSE
  <2>1. Good(Len(rows))
    BY <1>1, <1>3
  <2> DEFINE t == f[Len(rows)]
  <2>2. /\ t \in Seq(X)
        /\ \A j \in DOMAIN t : \E i \in DOMAIN rows : t[j] = rows[i]
        /\ \A i, j \in DOMAIN t : t[i].game = t[j].game /\ t[i].user = t[j].user => i = j
    BY <1>1, <2>1
  <2>3. WithoutGame(rows, g) = t
    BY <1>2
  <2> HIDE DEF t
  <2>4. \A j \in DOMAIN t : UnlockRow(t[j])
    BY <2>2 DEF UnlockTable
  <2> QED
    BY <2>2, <2>3, <2>4 DEF UnlockTable
<1>4. PICK n \in Bad : \A m \in Bad : n <= m
  <2>1. Bad \in SUBSET Nat
    BY <1>1
  <2> QED
    BY <1>3, <2>1, SmallestIn
<1>5. n # 0
  <2>1. f[0] = <<>>
    BY <1>1, <1>2 DEF Leaving
  <2>2. Good(0)
    BY <2>1
  <2> QED
    BY <2>2
<1>6. n \in 1..Len(rows) /\ n - 1 \in 0..Len(rows) /\ rows[n] \in X
  BY <1>1, <1>4, <1>5
<1>7. Good(n - 1)
  <2> HIDE DEF Good
  <2> QED
    BY <1>4, <1>6
<1>8. f[n] = IF rows[n].game = g THEN f[n - 1] ELSE Append(f[n - 1], rows[n])
  <2>1. n \in 0..Len(rows)
    BY <1>6
  <2> QED
    BY <1>2, <1>5, <2>1 DEF Leaving
<1>9. CASE rows[n].game = g
  <2>1. \A i \in 1..(n - 1) : i \in 1..n
    BY <1>6
  <2> QED
    BY <1>4, <1>7, <1>8, <1>9, <2>1
<1>10. CASE rows[n].game # g
  <2> DEFINE old == f[n - 1]
  <2>1. old \in Seq(X) /\ f[n] = Append(old, rows[n])
    BY <1>7, <1>8, <1>10
  <2>2. /\ f[n] \in Seq(X) /\ f[n][Len(old) + 1] = rows[n]
        /\ \A j \in DOMAIN old : j \in DOMAIN f[n] /\ f[n][j] = old[j]
        /\ \A j \in DOMAIN f[n] : j \in DOMAIN old \/ j = Len(old) + 1
    BY <2>1, <1>6
  <2>3. /\ \A j \in DOMAIN old : \E i \in 1..(n - 1) : old[j] = rows[i]
        /\ \A i, j \in DOMAIN old :
             old[i].game = old[j].game /\ old[i].user = old[j].user => i = j
    BY <1>7
  <2> HIDE DEF old
  <2>4. /\ n \in 1..n /\ n \in DOMAIN rows
        /\ \A i \in 1..(n - 1) : i \in 1..n /\ i \in DOMAIN rows /\ i # n
    BY <1>1, <1>6
  <2>5. \A j \in DOMAIN f[n] : \E i \in 1..n : f[n][j] = rows[i]
    BY <2>2, <2>3, <2>4
  <2>6. \A j \in DOMAIN old : ~(old[j].game = rows[n].game /\ old[j].user = rows[n].user)
    BY <2>3, <2>4 DEF UnlockTable
  <2>7. \A i, j \in DOMAIN f[n] :
          f[n][i].game = f[n][j].game /\ f[n][i].user = f[n][j].user => i = j
    BY <2>2, <2>3, <2>6
  <2> QED
    BY <1>4, <2>2, <2>5, <2>7
<1> QED
  BY <1>9, <1>10

(* A row that is stored, anew or again, leaves a table.                      *)
LEMMA WithRowFacts ==
  ASSUME NEW rows, UnlockTable(rows), NEW row, UnlockRow(row)
  PROVE  UnlockTable(WithRow(rows, row))
<1> DEFINE X == Rows(SUBSET (Ids \cup {FakeId}))
           same == {i \in DOMAIN rows : rows[i].game = row.game /\ rows[i].user = row.user}
<1>1. rows \in Seq(X) /\ Len(rows) \in Nat /\ DOMAIN rows = 1..Len(rows) /\ row \in X
  BY DEF UnlockTable, UnlockRow
<1>2. CASE same = {}
  <2> DEFINE t == Append(rows, row)  n == Len(rows) + 1
  <2>1. WithRow(rows, row) = t
    BY <1>2 DEF WithRow
  <2>2. /\ t \in Seq(X) /\ t[n] = row
        /\ \A j \in DOMAIN rows : t[j] = rows[j]
        /\ \A j \in DOMAIN t : j \in DOMAIN rows \/ j = n
    BY <1>1
  <2> HIDE DEF t, n
  <2>3. \A j \in DOMAIN t : UnlockRow(t[j])
    BY <2>2 DEF UnlockTable
  <2>4. \A i, j \in DOMAIN t : t[i].game = t[j].game /\ t[i].user = t[j].user => i = j
    BY <1>2, <2>2 DEF UnlockTable
  <2> QED
    BY <2>1, <2>2, <2>3, <2>4 DEF UnlockTable
<1>3. CASE same # {}
  <2> DEFINE t == [i \in DOMAIN rows |-> IF i \in same THEN row ELSE rows[i]]
  <2>1. WithRow(rows, row) = t
    BY <1>3 DEF WithRow
  <2>2. \A i \in DOMAIN rows : rows[i] \in X
    BY <1>1
  <2>3. t \in [1..Len(rows) -> X]
    BY <1>1, <2>2
  <2>4. t \in Seq(X)
    BY <1>1, <2>3, SeqDef
  <2>5. /\ DOMAIN t = DOMAIN rows
        /\ \A i \in DOMAIN rows : /\ t[i].game = rows[i].game /\ t[i].user = rows[i].user
                                  /\ t[i] = row \/ t[i] = rows[i]
    OBVIOUS
  <2> HIDE DEF t
  <2> QED
    BY <2>1, <2>4, <2>5 DEF UnlockTable
<1> QED
  BY <1>2, <1>3

LEMMA CountStep ==
  ASSUME CountInv, [CountNext]_countVars
  PROVE  CountInv'
<1>1. ASSUME UnlockTable(unlockRows'), UnlockTable(sessionRows'),
             known' \subseteq Library, awards' \subseteq AwardRows
      PROVE  CountInv'
  BY <1>1 DEF CountInv, CountTypeOK, UnlockTable, UnlockRow
<1>2. ASSUME NEW g \in Library, NEW ids \in AnswersFor(g), NEW u \in Accounts
      PROVE  UnlockRow([game |-> g, user |-> u, ids |-> ids])
  BY DEF UnlockRow, Rows, AnswersFor
<1>3. CASE CacheUnlocks
  BY <1>1, <1>2, <1>3, WithRowFacts DEF CacheUnlocks, CountInv, CountTypeOK
<1>4. CASE CacheSession
  BY <1>1, <1>2, <1>4, WithRowFacts DEF CacheSession, CountInv, CountTypeOK
<1>5. CASE LearnGame
  BY <1>1, <1>5 DEF LearnGame, CountInv, CountTypeOK
<1>6. CASE ForgetGame
  BY <1>1, <1>6, WithoutGameFacts DEF ForgetGame, CountInv, CountTypeOK
<1>7. CASE QueueAward
  <2>1. PICK a \in Ids, s \in Spellings, hardcore \in BOOLEAN :
          awards' = awards \cup {[id |-> a, user |-> s, hardcore |-> hardcore]}
    BY <1>7 DEF QueueAward
  <2>2. awards' \subseteq AwardRows
    BY <2>1 DEF CountInv, CountTypeOK, AwardRows
  <2> QED
    BY <1>1, <1>7, <2>2 DEF QueueAward, CountInv, CountTypeOK
<1>8. CASE SettleAward
  BY <1>1, <1>8 DEF SettleAward, CountInv, CountTypeOK
<1>9. CASE UNCHANGED countVars
  BY <1>1, <1>9 DEF countVars, CountInv, CountTypeOK
<1> QED
  BY <1>3, <1>4, <1>5, <1>6, <1>7, <1>8, <1>9 DEF CountNext

LEMMA CountInvHolds == CountSpec => []CountInv
<1>1. CountInit => CountInv
  <2> SUFFICES ASSUME CountInit PROVE CountInv
    OBVIOUS
  <2>1. UnlockTable(<<>>)
    BY DEF UnlockTable
  <2> QED
    BY <2>1 DEF CountInit, CountInv, CountTypeOK
<1> QED
  BY <1>1, CountStep, PTL DEF CountSpec

(* The rows, games and awards keep their types.                              *)
THEOREM CountsTyped == CountSpec => []CountTypeOK
<1>1. CountInv => CountTypeOK
  BY DEF CountInv
<1> QED
  BY <1>1, CountInvHolds, PTL

(* With one account the rows of a game are one row.                          *)
LEMMA OneRow ==
  ASSUME NEW rows, UnlockTable(rows), \A u, v \in Accounts : u = v,
         NEW g, OfGame(rows, g) # {}
  PROVE  \E i \in DOMAIN rows : /\ FirstRow(rows, g) = rows[i] /\ LastRow(rows, g) = rows[i]
                                /\ rows[i].game = g /\ rows[i].user \in Accounts
<1>1. PICK i \in OfGame(rows, g) : TRUE
  OBVIOUS
<1>2. \A k \in DOMAIN rows : rows[k].user \in Accounts
  BY DEF UnlockTable, UnlockRow, Rows
<1>3. OfGame(rows, g) = {i}
  BY <1>1, <1>2 DEF OfGame, UnlockTable
<1>4. i \in Nat
  BY <1>1 DEF OfGame, UnlockTable
<1>5. FirstRow(rows, g) = rows[i] /\ LastRow(rows, g) = rows[i]
  BY <1>3, <1>4 DEF FirstRow, LastRow
<1> QED
  BY <1>1, <1>2, <1>5 DEF OfGame

(* The page of a game and the list of games agree, and count what waits: a   *)
(* table has one row of a game then, whichever way it is looked for.         *)
THEOREM CountsAlwaysAgree == CountSpec => []CountsAgree
<1>1. CountInv => CountsAgree
  <2> SUFFICES ASSUME CountInv, \A u, v \in Accounts : u = v, NEW g \in Library
               PROVE  /\ (Listed(g) = NoAnswer) = (Detail(g) = NoAnswer)
                      /\ Listed(g) # NoAnswer =>
                           /\ Listed(g) \ {FakeId} = Detail(g)
                           /\ {a.id : a \in {b \in PendingIn(g) : ~b.hardcore /\ b.user = Key(b.user)}}
                                \subseteq Detail(g)
                           /\ g \in known => Titles(g) = Detail(g)
    BY DEF CountsAgree
  <2>1. \A a \in awards : a.id \in Ids /\ a.user \in Spellings
    BY DEF CountInv, CountTypeOK, AwardRows
  <2>2. ASSUME NEW rows, UnlockTable(rows), OfGame(rows, g) # {},
               NEW row, row = FirstRow(rows, g)
        PROVE  /\ LastRow(rows, g) = row
               /\ WithAwards(row, g) \ {FakeId} \subseteq {a \in Ids : GameOf(a) = g}
               /\ WithAwards(row, g) # NoAnswer /\ WithAwards(row, g) \ {FakeId} # NoAnswer
               /\ {a.id : a \in {b \in PendingIn(g) : ~b.hardcore /\ b.user = Key(b.user)}}
                    \subseteq WithAwards(row, g) \ {FakeId}
    <3>1. PICK i \in DOMAIN rows : /\ row = rows[i] /\ LastRow(rows, g) = rows[i]
                                   /\ rows[i].game = g /\ rows[i].user \in Accounts
      BY <2>2, OneRow
    <3>2. row.ids \subseteq {a \in Ids : GameOf(a) = g} \cup {FakeId}
      BY <2>2, <3>1 DEF UnlockTable, UnlockRow
    <3>3. WithAwards(row, g) \subseteq {a \in Ids : GameOf(a) = g} \cup {FakeId}
      BY <2>1, <3>2 DEF WithAwards, Waiting
    <3>4. 0 \notin WithAwards(row, g)
      BY <3>3, CountAssumption
    <3>5. ASSUME NEW a \in PendingIn(g), ~a.hardcore, a.user = Key(a.user)
          PROVE  a.id \in WithAwards(row, g) \ {FakeId}
      <4>1. a \in awards /\ a.id \in Ids /\ a.user \in Accounts
        BY <2>1, <3>5 DEF PendingIn, Accounts
      <4>2. a \in Waiting(row.user)
        BY <3>1, <3>5, <4>1 DEF Waiting
      <4>3. Found(a.id) /\ GameOf(a.id) = g
        BY <3>5 DEF PendingIn, Found, Indexed
      <4> QED
        BY <4>1, <4>2, <4>3, CountAssumption DEF WithAwards
    <3> QED
      BY <3>1, <3>3, <3>4, <3>5 DEF NoAnswer
  <2>3. CASE OfGame(unlockRows, g) # {}
    <3> DEFINE row == FirstRow(unlockRows, g)
    <3>1. Detail(g) = WithAwards(row, g) \ {FakeId} /\ Listed(g) = WithAwards(LastRow(unlockRows, g), g)
      BY <2>3 DEF Detail, Listed, FromSession
    <3>2. /\ LastRow(unlockRows, g) = row
          /\ WithAwards(row, g) \ {FakeId} \subseteq {a \in Ids : GameOf(a) = g}
          /\ WithAwards(row, g) # NoAnswer /\ WithAwards(row, g) \ {FakeId} # NoAnswer
          /\ {a.id : a \in {b \in PendingIn(g) : ~b.hardcore /\ b.user = Key(b.user)}}
               \subseteq WithAwards(row, g) \ {FakeId}
      BY <2>2, <2>3 DEF CountInv
    <3> HIDE DEF row
    <3> QED
      BY <3>1, <3>2 DEF Titles, Described
  <2>4. CASE OfGame(unlockRows, g) = {} /\ OfGame(sessionRows, g) # {}
    <3> DEFINE row == FirstRow(sessionRows, g)
    <3>1. Detail(g) = WithAwards(row, g) \ {FakeId} /\ Listed(g) = WithAwards(row, g)
      BY <2>4 DEF Detail, Listed, FromSession
    <3>2. /\ WithAwards(row, g) \ {FakeId} \subseteq {a \in Ids : GameOf(a) = g}
          /\ WithAwards(row, g) # NoAnswer /\ WithAwards(row, g) \ {FakeId} # NoAnswer
          /\ {a.id : a \in {b \in PendingIn(g) : ~b.hardcore /\ b.user = Key(b.user)}}
               \subseteq WithAwards(row, g) \ {FakeId}
      BY <2>2, <2>4 DEF CountInv
    <3> HIDE DEF row
    <3> QED
      BY <3>1, <3>2 DEF Titles, Described
  <2>5. CASE OfGame(unlockRows, g) = {} /\ OfGame(sessionRows, g) = {}
    BY <2>5 DEF Detail, Listed, FromSession
  <2> QED
    BY <2>3, <2>4, <2>5
<1> QED
  BY <1>1, CountInvHolds, PTL

-----------------------------------------------------------------------------
(* Smart Cache.                                                              *)

(* Lists of files: the recursion of AtPlaces up to n.                        *)
Picking(f, s, I, n) ==
  f = [i \in 0..n |->
         IF i = 0 THEN <<>> ELSE IF i \in I THEN Append(f[i - 1], s[i]) ELSE f[i - 1]]

(* There is a function that recurses like AtPlaces.                          *)
LEMMA PickingExists ==
  ASSUME NEW s, Len(s) \in Nat, NEW I
  PROVE  \E f : Picking(f, s, I, Len(s))
<1> DEFINE Bad == {n \in 0..Len(s) : ~\E f : Picking(f, s, I, n)}
<1>1. SUFFICES ASSUME Bad # {} PROVE FALSE
  OBVIOUS
<1>2. PICK n \in Bad : \A m \in Bad : n <= m
  <2>1. Bad \in SUBSET Nat
    OBVIOUS
  <2> QED
    BY <1>1, <2>1, SmallestIn
<1>3. n # 0
  <2>1. Picking([i \in 0..0 |-> <<>>], s, I, 0)
    BY DEF Picking
  <2> QED
    BY <2>1
<1>4. n - 1 \in 0..Len(s) /\ n - 1 \notin Bad
  BY <1>2, <1>3
<1>5. PICK f : Picking(f, s, I, n - 1)
  BY <1>4
<1> DEFINE next == [i \in 0..n |-> IF i < n THEN f[i]
                      ELSE IF n \in I THEN Append(f[n - 1], s[n]) ELSE f[n - 1]]
<1>6. ASSUME NEW i \in 0..n
      PROVE  next[i] = IF i = 0 THEN <<>>
                       ELSE IF i \in I THEN Append(next[i - 1], s[i]) ELSE next[i - 1]
  <2>1. CASE i = n
    <3>1. n \in 0..n /\ n - 1 \in 0..n /\ n - 1 < n /\ ~(n < n)
      BY <1>4
    <3>2. next[n - 1] = f[n - 1]
      BY <3>1
    <3>3. next[n] = IF n \in I THEN Append(f[n - 1], s[n]) ELSE f[n - 1]
      BY <3>1
    <3> QED
      BY <1>3, <2>1, <3>2, <3>3
  <2>2. CASE i < n
    <3>1. n \in Nat /\ i \in 0..(n - 1) /\ (i # 0 => i - 1 \in 0..n /\ i - 1 < n)
      BY <1>4, <2>2
    <3>2. next[i] = f[i] /\ (i # 0 => next[i - 1] = f[i - 1])
      BY <2>2, <3>1
    <3>3. f[i] = IF i = 0 THEN <<>>
                 ELSE IF i \in I THEN Append(f[i - 1], s[i]) ELSE f[i - 1]
      BY <1>5, <3>1 DEF Picking
    <3> HIDE DEF next
    <3> QED
      BY <3>2, <3>3
  <2> QED
    BY <2>1, <2>2
<1>7. Picking(next, s, I, n)
  BY <1>6 DEF Picking
<1> QED
  BY <1>2, <1>7

(* t has what s has at the places I up to n: h says where.                   *)
Follows(h, t, s, I, n) ==
  /\ \A j \in 1..Len(t) : h[j] \in 1..n /\ h[j] \in I /\ t[j] = s[h[j]]
  /\ \A j, k \in 1..Len(t) : j < k => h[j] < h[k]
  /\ \A i \in 1..n : i \in I => \E j \in 1..Len(t) : h[j] = i

(* AtPlaces takes what is at the places, in its order.                       *)
LEMMA AtPlacesFacts ==
  ASSUME NEW X, NEW s \in Seq(X), NEW I
  PROVE  /\ AtPlaces(s, I) \in Seq(X)
         /\ \E h : Follows(h, AtPlaces(s, I), s, I, Len(s))
<1>1. Len(s) \in Nat /\ DOMAIN s = 1..Len(s) /\ \A i \in 1..Len(s) : s[i] \in X
  OBVIOUS
<1>2. PICK f : Picking(f, s, I, Len(s)) /\ AtPlaces(s, I) = f[Len(s)]
  <2> DEFINE kept == CHOOSE f : Picking(f, s, I, Len(s))
  <2>1. AtPlaces(s, I) = kept[Len(s)]
    BY DEF AtPlaces, Picking
  <2>2. Picking(kept, s, I, Len(s))
    BY <1>1, PickingExists
  <2> QED
    BY <2>1, <2>2
<1> DEFINE Good(n) == f[n] \in Seq(X) /\ \E h : Follows(h, f[n], s, I, n)
           Bad == {n \in 0..Len(s) : ~Good(n)}
<1>3. SUFFICES ASSUME Bad # {} PROVE FALSE
  <2>1. Good(Len(s))
    BY <1>1, <1>3
  <2> DEFINE t == f[Len(s)]
  <2>2. t \in Seq(X) /\ \E h : Follows(h, t, s, I, Len(s))
    BY <2>1
  <2>3. AtPlaces(s, I) = t
    BY <1>2
  <2> HIDE DEF t
  <2> QED
    BY <2>2, <2>3
<1>4. PICK n \in Bad : \A m \in Bad : n <= m
  <2>1. Bad \in SUBSET Nat
    BY <1>1
  <2> QED
    BY <1>3, <2>1, SmallestIn
<1>5. n # 0
  <2>1. f[0] = <<>>
    BY <1>1, <1>2 DEF Picking
  <2>2. Follows(<<>>, f[0], s, I, 0)
    BY <2>1 DEF Follows
  <2>3. f[0] \in Seq(X) /\ \E h : Follows(h, f[0], s, I, 0)
    BY <2>1, <2>2
  <2>4. Good(0)
    BY <2>3
  <2> QED
    BY <1>4, <2>4
<1>6. n \in 1..Len(s) /\ n - 1 \in 0..Len(s) /\ Good(n - 1)
  <2>1. n \in 1..Len(s) /\ n - 1 \in 0..Len(s) /\ ~(n <= n - 1)
    BY <1>1, <1>4, <1>5
  <2> QED
    BY <1>4, <2>1
<1> DEFINE t == f[n - 1]
<1>7. f[n] = IF n \in I THEN Append(t, s[n]) ELSE t
  BY <1>2, <1>5, <1>6 DEF Picking
<1>8. t \in Seq(X)
  BY <1>6
<1>9. PICK h : Follows(h, t, s, I, n - 1)
  BY <1>6
<1> HIDE DEF t
<1>10. CASE n \notin I
  <2>1. Follows(h, t, s, I, n)
    <3>1. \A i \in 1..n : i \in I => i \in 1..(n - 1)
      BY <1>6, <1>10
    <3>2. \A j \in 1..Len(t) : h[j] \in 1..(n - 1) => h[j] \in 1..n
      BY <1>6
    <3> QED
      BY <1>9, <3>1, <3>2 DEF Follows
  <2> QED
    BY <1>4, <1>7, <1>8, <1>10, <2>1
<1>11. CASE n \in I
  <2> DEFINE u == Append(t, s[n])
             g == [j \in 1..(Len(t) + 1) |-> IF j = Len(t) + 1 THEN n ELSE h[j]]
  <2>1. /\ Len(t) \in Nat /\ u \in Seq(X) /\ Len(u) = Len(t) + 1
        /\ u[Len(t) + 1] = s[n] /\ \A j \in 1..Len(t) : u[j] = t[j]
    BY <1>1, <1>6, <1>8
  <2>2. g[Len(t) + 1] = n /\ \A j \in 1..Len(t) : g[j] = h[j]
    BY <2>1
  <2>3. \A j \in 1..(Len(t) + 1) : j = Len(t) + 1 \/ j \in 1..Len(t)
    BY <2>1
  <2>4. \A j \in 1..Len(t) : h[j] \in 1..(n - 1)
    BY <1>9 DEF Follows
  <2> HIDE DEF g, u
  <2>5. \A j \in 1..Len(u) : g[j] \in 1..n /\ g[j] \in I /\ u[j] = s[g[j]]
    <3>1. ASSUME NEW j \in 1..Len(t) PROVE g[j] \in 1..n /\ g[j] \in I /\ u[j] = s[g[j]]
      <4>1. h[j] \in 1..n
        BY <1>6, <2>4
      <4> QED
        BY <1>9, <2>1, <2>2, <4>1 DEF Follows
    <3> QED
      BY <1>6, <1>11, <2>1, <2>2, <2>3, <3>1
  <2>6. \A j, k \in 1..Len(u) : j < k => g[j] < g[k]
    <3> SUFFICES ASSUME NEW j \in 1..Len(u), NEW k \in 1..Len(u), j < k PROVE g[j] < g[k]
      OBVIOUS
    <3>1. j \in 1..Len(t)
      BY <2>1
    <3>2. CASE k = Len(t) + 1
      BY <1>6, <2>2, <2>4, <3>1, <3>2
    <3>3. CASE k \in 1..Len(t)
      BY <1>9, <2>2, <3>1, <3>3 DEF Follows
    <3> QED
      BY <2>1, <2>3, <3>2, <3>3
  <2>7. \A i \in 1..n : i \in I => \E j \in 1..Len(u) : g[j] = i
    <3> SUFFICES ASSUME NEW i \in 1..n, i \in I PROVE \E j \in 1..Len(u) : g[j] = i
      OBVIOUS
    <3>1. CASE i = n
      <4>1. Len(t) + 1 \in 1..Len(u)
        BY <2>1
      <4> QED
        BY <2>2, <3>1, <4>1
    <3>2. CASE i \in 1..(n - 1)
      <4>1. PICK j \in 1..Len(t) : h[j] = i
        BY <1>9, <3>2 DEF Follows
      <4>2. j \in 1..Len(u)
        BY <2>1
      <4> QED
        BY <2>2, <4>1, <4>2
    <3> QED
      BY <1>6, <3>1, <3>2
  <2>8. Follows(g, u, s, I, n)
    BY <2>5, <2>6, <2>7 DEF Follows
  <2>9. f[n] = u
    BY <1>7, <1>11 DEF u
  <2> QED
    BY <1>4, <2>1, <2>8, <2>9
<1> QED
  BY <1>10, <1>11

(* What a filter keeps: those that are in S, all of them, in their order and *)
(* none more often than before.                                              *)
LEMMA ThoseFacts ==
  ASSUME NEW X, NEW s \in Seq(X), NEW S
  PROVE  /\ Those(s, S) \in Seq(X) /\ Range(Those(s, S)) = Range(s) \cap S
         /\ IsInjective(s) => IsInjective(Those(s, S))
         /\ \A j, k \in DOMAIN Those(s, S) : j < k =>
              \E i, l \in DOMAIN s :
                 i < l /\ Those(s, S)[j] = s[i] /\ Those(s, S)[k] = s[l]
<1> DEFINE I == {i \in DOMAIN s : s[i] \in S}
           t == Those(s, S)
<1>1. /\ t \in Seq(X) /\ DOMAIN t = 1..Len(t) /\ Len(t) \in Nat
      /\ DOMAIN s = 1..Len(s) /\ Len(s) \in Nat
  BY AtPlacesFacts DEF Those
<1>2. PICK h : Follows(h, t, s, I, Len(s))
  BY AtPlacesFacts DEF Those
<1> HIDE DEF t
<1>3. \A j \in DOMAIN t : h[j] \in DOMAIN s /\ t[j] = s[h[j]] /\ t[j] \in S
  BY <1>1, <1>2 DEF Follows
<1>4. \A i \in DOMAIN s : s[i] \in S => \E j \in DOMAIN t : t[j] = s[i]
  BY <1>1, <1>2 DEF Follows
<1>5. Range(t) = Range(s) \cap S
  BY <1>3, <1>4 DEF Range
<1>6. \A j, k \in DOMAIN t : j < k => h[j] < h[k]
  BY <1>1, <1>2 DEF Follows
<1>7. IsInjective(s) => IsInjective(t)
  <2> SUFFICES ASSUME IsInjective(s), NEW j \in DOMAIN t, NEW k \in DOMAIN t, t[j] = t[k], j # k
               PROVE  FALSE
    BY DEF IsInjective
  <2>1. h[j] = h[k]
    BY <1>3 DEF IsInjective
  <2>2. h[j] < h[k] \/ h[k] < h[j]
    BY <1>1, <1>6
  <2>3. h[j] \in Int /\ h[k] \in Int
    BY <1>1, <1>3
  <2> QED
    BY <2>1, <2>2, <2>3
<1> QED
  BY <1>1, <1>3, <1>5, <1>6, <1>7 DEF t

(* A list without what it has had before has the same, once.                 *)
LEMMA FirstsFacts ==
  ASSUME NEW X, NEW s \in Seq(X)
  PROVE  Firsts(s) \in Seq(X) /\ Range(Firsts(s)) = Range(s) /\ IsInjective(Firsts(s))
<1> DEFINE I == {i \in DOMAIN s : \A j \in 1..(i - 1) : s[j] # s[i]}
           t == Firsts(s)
<1>0. t = AtPlaces(s, I)
  BY DEF Firsts
<1> HIDE DEF I, t
<1>1. /\ t \in Seq(X) /\ DOMAIN t = 1..Len(t) /\ Len(t) \in Nat
      /\ DOMAIN s = 1..Len(s) /\ Len(s) \in Nat
  BY <1>0, AtPlacesFacts
<1>2. PICK h : Follows(h, t, s, I, Len(s))
  BY <1>0, AtPlacesFacts
<1>3. \A j \in DOMAIN t : h[j] \in I /\ h[j] \in DOMAIN s /\ t[j] = s[h[j]]
  BY <1>1, <1>2 DEF Follows
<1>4. ASSUME NEW x \in Range(s) PROVE x \in Range(t)
  <2> DEFINE where == {i \in DOMAIN s : s[i] = x}
  <2>1. where # {} /\ where \in SUBSET Nat
    BY <1>1 DEF Range
  <2>2. PICK i \in where : \A j \in where : i <= j
    BY <2>1, SmallestIn
  <2>3. i \in I
    BY <1>1, <2>2 DEF I
  <2>4. \E j \in DOMAIN t : h[j] = i
    BY <1>1, <1>2, <2>3 DEF Follows
  <2> QED
    BY <1>3, <2>2, <2>4 DEF Range
<1>5. Range(t) = Range(s)
  <2>1. Range(t) \subseteq Range(s)
    BY <1>3 DEF Range
  <2> QED
    BY <1>4, <2>1
<1>6. IsInjective(t)
  <2> SUFFICES ASSUME NEW j \in DOMAIN t, NEW k \in DOMAIN t, t[j] = t[k], j < k
               PROVE  FALSE
    BY <1>1 DEF IsInjective
  <2>1. h[j] < h[k] /\ h[j] \in DOMAIN s /\ h[k] \in DOMAIN s /\ h[k] \in I
    BY <1>1, <1>2, <1>3 DEF Follows
  <2>2. h[j] \in 1..(h[k] - 1)
    BY <1>1, <2>1
  <2> QED
    BY <1>3, <2>1, <2>2 DEF I
<1> QED
  BY <1>1, <1>5, <1>6 DEF t

(* s lists the members of S, once each and those with the latest time first. *)
Lists(s, S, times) ==
  /\ s \in [1..Cardinality(S) -> S] /\ IsInjective(s) /\ Range(s) = S
  /\ \A i, j \in DOMAIN s : i < j => times[s[i]] >= times[s[j]]

(* Every finite set can be listed so.                                        *)
LEMMA ListExists ==
  ASSUME NEW S, IsFiniteSet(S), NEW times, \A f \in S : times[f] \in Nat
  PROVE  \E s : Lists(s, S, times)
<1> DEFINE Bad == {n \in Nat : \E T \in SUBSET S : Cardinality(T) = n /\ ~\E s : Lists(s, T, times)}
<1>1. SUFFICES ASSUME Bad # {} PROVE FALSE
  <2>1. Cardinality(S) \in Nat /\ S \in SUBSET S
    BY FS_CardinalityType
  <2> QED
    BY <1>1, <2>1
<1>2. PICK n \in Bad : \A m \in Bad : n <= m
  <2>1. Bad \in SUBSET Nat
    OBVIOUS
  <2> QED
    BY <1>1, <2>1, SmallestIn
<1>3. PICK T \in SUBSET S : Cardinality(T) = n /\ ~\E s : Lists(s, T, times)
  BY <1>2
<1>4. IsFiniteSet(T) /\ n \in Nat
  BY <1>2, <1>3, FS_Subset
<1>5. T # {}
  <2>1. SUFFICES ASSUME T = {} PROVE Lists(<<>>, T, times)
    BY <1>3
  <2>2. Cardinality(T) = 0
    BY <2>1, FS_EmptySet
  <2>3. <<>> \in [1..0 -> {}] /\ DOMAIN <<>> = {}
    OBVIOUS
  <2> QED
    BY <2>1, <2>2, <2>3 DEF Lists, IsInjective, Range
<1>6. PICK m \in T : \A f \in T : times[m] <= times[f]
  <2> DEFINE when_ == {times[f] : f \in T}
  <2>1. when_ # {} /\ when_ \in SUBSET Nat
    BY <1>5
  <2>2. PICK k \in when_ : \A l \in when_ : k <= l
    BY <2>1, SmallestIn
  <2> QED
    BY <2>2
<1> DEFINE U == T \ {m}
<1>7. Cardinality(U) = n - 1 /\ n - 1 \in Nat /\ U \in SUBSET S /\ ~(n <= n - 1)
  <2>1. Cardinality(U) = n - 1 /\ IsFiniteSet(U)
    BY <1>3, <1>4, FS_RemoveElement
  <2>2. n - 1 \in Nat
    BY <2>1, FS_CardinalityType
  <2> QED
    BY <1>4, <2>1, <2>2
<1>8. PICK t : Lists(t, U, times)
  <2>1. n - 1 \notin Bad
    BY <1>2, <1>7
  <2> QED
    BY <1>7, <2>1
<1> DEFINE s == [i \in 1..n |-> IF i = n THEN m ELSE t[i]]
<1>9. /\ t \in [1..(n - 1) -> U] /\ IsInjective(t) /\ Range(t) = U /\ DOMAIN t = 1..(n - 1)
      /\ \A i, j \in 1..(n - 1) : i < j => times[t[i]] >= times[t[j]]
  BY <1>7, <1>8 DEF Lists
<1>10. n \in 1..n /\ \A i \in 1..n : i = n \/ (i \in 1..(n - 1) /\ i # n /\ i < n)
  BY <1>4, <1>7
<1>11. s[n] = m /\ (\A i \in 1..(n - 1) : s[i] = t[i] /\ t[i] \in T /\ t[i] # m) /\ DOMAIN s = 1..n
  <2>1. \A i \in 1..(n - 1) : i \in 1..n /\ i # n
    BY <1>4
  <2> QED
    BY <1>9, <1>10, <2>1
<1> HIDE DEF s
<1>12. s \in [1..n -> T]
  <2>1. \A i \in 1..n : s[i] \in T
    BY <1>10, <1>11
  <2>2. s = [i \in 1..n |-> s[i]]
    BY DEF s
  <2> QED
    BY <2>1, <2>2
<1>13. IsInjective(s)
  BY <1>9, <1>10, <1>11 DEF IsInjective
<1>14. Range(s) = T
  <2>1. Range(s) \subseteq T
    BY <1>11, <1>12 DEF Range
  <2>2. \A f \in U : f \in Range(s)
    <3>1. \A i \in 1..(n - 1) : i \in 1..n
      BY <1>4
    <3> QED
      BY <1>9, <1>11, <3>1 DEF Range
  <2>3. m \in Range(s)
    BY <1>10, <1>11 DEF Range
  <2> QED
    BY <2>1, <2>2, <2>3
<1>15. ASSUME NEW i \in 1..n, NEW j \in 1..n, i < j PROVE times[s[i]] >= times[s[j]]
  <2>1. i \in 1..(n - 1)
    BY <1>4, <1>15
  <2>2. CASE j = n
    <3>1. s[i] \in T /\ s[j] = m /\ times[s[i]] \in Nat /\ times[m] \in Nat
      BY <1>11, <1>12, <2>2
    <3> QED
      BY <1>6, <3>1
  <2>3. CASE j \in 1..(n - 1)
    BY <1>9, <1>11, <1>15, <2>1, <2>3
  <2> QED
    BY <1>10, <2>2, <2>3
<1>16. Lists(s, T, times)
  BY <1>3, <1>11, <1>12, <1>13, <1>14, <1>15 DEF Lists
<1> QED
  BY <1>3, <1>16

(* What NewestFirst is.                                                      *)
LEMMA NewestFirstFacts ==
  ASSUME NEW S, IsFiniteSet(S), NEW times, \A f \in S : times[f] \in Nat
  PROVE  /\ NewestFirst(S, times) \in Seq(S) /\ Range(NewestFirst(S, times)) = S
         /\ IsInjective(NewestFirst(S, times))
         /\ \A i, j \in DOMAIN NewestFirst(S, times) : i < j =>
              times[NewestFirst(S, times)[i]] >= times[NewestFirst(S, times)[j]]
<1> DEFINE s == NewestFirst(S, times)
<1>1. Lists(s, S, times)
  BY ListExists DEF Lists, NewestFirst
<1>2. Cardinality(S) \in Nat
  BY FS_CardinalityType
<1> HIDE DEF s
<1>3. s \in Seq(S)
  BY <1>1, <1>2 DEF Lists
<1> QED
  BY <1>1, <1>3 DEF Lists, s

(* What InOrder is.                                                          *)
LEMMA InOrderFacts ==
  ASSUME NEW S \in SUBSET Nat, IsFiniteSet(S)
  PROVE  InOrder(S) \in Seq(S) /\ Range(InOrder(S)) = S
<1> DEFINE s == NewestFirst(S, [f \in S |-> f])
<1>1. s \in Seq(S) /\ Range(s) = S
  BY NewestFirstFacts
<1> HIDE DEF s
<1>2. Len(s) \in Nat /\ DOMAIN s = 1..Len(s)
  BY <1>1
<1>3. \A i \in 1..Len(s) : Len(s) - i + 1 \in 1..Len(s) /\ Len(s) - (Len(s) - i + 1) + 1 = i
  BY <1>2
<1>4. Reverse(s) = [i \in 1..Len(s) |-> s[(Len(s) - i) + 1]]
  BY DEF Reverse
<1>5. Reverse(s) \in Seq(S)
  BY <1>1, <1>2, <1>3, <1>4
<1>6. DOMAIN Reverse(s) = 1..Len(s) /\ \A i \in 1..Len(s) : Reverse(s)[i] = s[(Len(s) - i) + 1]
  BY <1>4
<1>7. Range(Reverse(s)) = Range(s)
  BY <1>2, <1>3, <1>6 DEF Range
<1> QED
  BY <1>1, <1>5, <1>7 DEF InOrder, s

(* The largest member of a set of numbers that has a bound.                  *)
LEMMA LargestFacts ==
  ASSUME NEW T \in SUBSET Nat, T # {}, NEW b \in Nat, \A n \in T : n <= b
  PROVE  Max(T) \in T /\ \A n \in T : Max(T) >= n
<1> DEFINE above == {k \in Nat : \A n \in T : n <= k}
<1>1. PICK k \in above : \A l \in above : k <= l
  <2>1. above # {} /\ above \in SUBSET Nat
    OBVIOUS
  <2> QED
    BY <2>1, SmallestIn
<1>2. k \in T
  <2>1. SUFFICES ASSUME k \notin T PROVE FALSE
    OBVIOUS
  <2>2. PICK n \in T : TRUE
    OBVIOUS
  <2>3. \A m \in T : m <= k /\ m # k
    BY <1>1, <2>1
  <2>4. k - 1 \in Nat /\ \A m \in T : m <= k - 1
    BY <1>1, <2>2, <2>3
  <2>5. k - 1 \in above /\ ~(k <= k - 1)
    BY <2>4
  <2> QED
    BY <1>1, <2>5
<1>3. \A n \in T : k >= n
  BY <1>1
<1>4. \E m \in T : \A n \in T : m >= n
  BY <1>2, <1>3
<1> QED
  BY <1>4 DEF Max

(* The smallest member of a set of numbers is in it.                         *)
LEMMA SmallestFacts ==
  ASSUME NEW T \in SUBSET Nat, T # {}
  PROVE  Min(T) \in T
BY SmallestIn DEF Min

(* What Smart Cache starts from: the types, and a list of games is of the    *)
(* version that is read, or of none that is.                                 *)
RecentInv ==
  /\ RecentTypeOK /\ stray \in Seq(RomFiles)
  /\ gamelist \in [Listing -> [signature : {"GLCE", "HLCE"}, version : Int, entries : Seq(RomFiles)]]
  /\ \A e \in Listing : gamelist[e].version # 0 =>
       /\ gamelist[e].signature = IF e = "pcsx2" THEN "GLCE" ELSE "HLCE"
       /\ gamelist[e].version = IF e = "pcsx2" THEN 34 ELSE 41

(* The time a set of files was last played with an emulator.                 *)
LEMMA LastOfFacts ==
  ASSUME RecentTypeOK, NEW e \in installed, NEW S \in SUBSET RomFiles
  PROVE  /\ LastOf(e, S) \in {when[e][f] : f \in S} \cup {0} /\ LastOf(e, S) \in Nat
         /\ \A f \in S : when[e][f] \in Nat /\ LastOf(e, S) >= when[e][f]
<1> DEFINE T == {when[e][f] : f \in S} \cup {0}
<1>1. MaxClock(installed) \in Nat
  BY RecentAssumption DEF RecentTypeOK
<1>2. \A f \in RomFiles : when[e][f] \in 0..MaxClock(installed)
  BY DEF RecentTypeOK
<1>3. \A n \in T : n \in Nat /\ n <= MaxClock(installed)
  BY <1>1, <1>2
<1>4. T \in SUBSET Nat /\ T # {}
  BY <1>3
<1>5. Max(T) \in T /\ \A n \in T : Max(T) >= n
  BY <1>1, <1>3, <1>4, LargestFacts
<1>6. LastOf(e, S) = Max(T)
  BY DEF LastOf
<1>7. \A f \in S : when[e][f] \in T
  OBVIOUS
<1> HIDE DEF T
<1>8. LastOf(e, S) \in T /\ LastOf(e, S) \in Nat
  BY <1>3, <1>5, <1>6
<1>9. \A f \in S : when[e][f] \in Nat /\ LastOf(e, S) >= when[e][f]
  BY <1>3, <1>5, <1>6, <1>7
<1> QED
  BY <1>8, <1>9 DEF T

(* The time of two sets together is the later one.                           *)
LEMMA LastOfBoth ==
  ASSUME RecentTypeOK, NEW e \in installed, NEW S \in SUBSET RomFiles, NEW U \in SUBSET RomFiles
  PROVE  Max({LastOf(e, S), LastOf(e, U)}) = LastOf(e, S \cup U)
<1> DEFINE a == LastOf(e, S)
           b == LastOf(e, U)
           c == LastOf(e, S \cup U)
<1>1. /\ a \in Nat /\ b \in Nat /\ c \in Nat
      /\ a \in {when[e][f] : f \in S} \cup {0} /\ b \in {when[e][f] : f \in U} \cup {0}
      /\ c \in {when[e][f] : f \in S \cup U} \cup {0}
      /\ \A f \in S : when[e][f] \in Nat /\ a >= when[e][f]
      /\ \A f \in U : when[e][f] \in Nat /\ b >= when[e][f]
      /\ \A f \in S \cup U : c >= when[e][f]
  BY LastOfFacts
<1> HIDE DEF a, b, c
<1>2. c >= a /\ c >= b
  BY <1>1
<1>3. c <= a \/ c <= b
  BY <1>1
<1>4. Max({a, b}) \in {a, b} /\ Max({a, b}) >= a /\ Max({a, b}) >= b
  <2>1. {a, b} \in SUBSET Nat /\ {a, b} # {} /\ \A n \in {a, b} : n <= a + b
    BY <1>1
  <2>2. a + b \in Nat
    BY <1>1
  <2> QED
    BY <2>1, <2>2, LargestFacts
<1>5. Max({a, b}) = c
  BY <1>1, <1>2, <1>3, <1>4
<1> QED
  BY <1>5 DEF a, b, c

(* There are as many serials and codes as the files have.                    *)
LEMMA CodesFinite == IsFiniteSet(Serials) /\ IsFiniteSet(Codes)
<1>1. IsFiniteSet(RomFiles)
  BY RecentAssumption
<1>2. IsFiniteSet(Serials)
  <2> DEFINE T == {Header(f).serial : f \in RomFiles}
             g == [f \in RomFiles |-> Header(f).serial]
  <2>1. g \in Surjection(RomFiles, T)
    BY DEF Surjection, Range
  <2>2. IsFiniteSet(T) /\ Serials \in SUBSET T
    BY <1>1, <2>1, FS_Surjection DEF Serials
  <2> QED
    BY <2>2, FS_Subset
<1>3. IsFiniteSet(Codes)
  <2> DEFINE of == [f \in RomFiles |-> {Header(f).first, Header(f).inner, Header(f).title}]
             T == {of[f] : f \in RomFiles}
  <2>1. of \in Surjection(RomFiles, T)
    BY DEF Surjection, Range
  <2>2. IsFiniteSet(T)
    BY <1>1, <2>1, FS_Surjection
  <2>3. \A C \in T : IsFiniteSet(C)
    <3>1. \A a, b, c : IsFiniteSet({a, b, c})
      <4> TAKE a, b, c
      <4>1. IsFiniteSet(({a} \cup {b}) \cup {c})
        BY FS_Singleton, FS_Union
      <4>2. ({a} \cup {b}) \cup {c} = {a, b, c}
        OBVIOUS
      <4> QED
        BY <4>1, <4>2
    <3>2. \A f \in RomFiles : of[f] = {Header(f).first, Header(f).inner, Header(f).title}
      OBVIOUS
    <3>3. \A f \in RomFiles : IsFiniteSet(of[f])
      BY <3>1, <3>2
    <3> HIDE DEF of
    <3> QED
      BY <3>3
  <2>4. IsFiniteSet(UNION T) /\ Codes \in SUBSET UNION T
    <3>1. Codes \in SUBSET UNION T
      BY DEF Codes
    <3> QED
      BY <2>2, <2>3, <3>1, FS_UNION
  <2> QED
    BY <2>4, FS_Subset
<1> QED
  BY <1>2, <1>3

(* Which files a list of serials or codes becomes, and in which order.       *)
LEMMA FilesForFacts ==
  ASSUME NEW X, NEW s \in Seq(X), NEW file, there \subseteq RomFiles
  PROVE  /\ FilesFor(s, file) \in Seq(RomFiles)
         /\ \A c \in Range(s) : c \in DOMAIN file /\ file[c] \in there =>
              file[c] \in Range(FilesFor(s, file))
         /\ \A k \in DOMAIN FilesFor(s, file) : \E l \in DOMAIN s :
              s[l] \in DOMAIN file /\ FilesFor(s, file)[k] = file[s[l]]
         /\ \A j, k \in DOMAIN FilesFor(s, file) : j < k =>
              \E i, l \in DOMAIN s :
                 /\ i < l /\ s[i] \in DOMAIN file /\ s[l] \in DOMAIN file
                 /\ FilesFor(s, file)[j] = file[s[i]] /\ FilesFor(s, file)[k] = file[s[l]]
<1> DEFINE S == {c \in DOMAIN file : file[c] \in there}
           t == Those(s, S)
           u == FilesFor(s, file)
<1>1. u = [i \in DOMAIN t |-> file[t[i]]]
  BY DEF FilesFor
<1> HIDE DEF S
<1>2. /\ t \in Seq(X) /\ Range(t) = Range(s) \cap S
      /\ \A j, k \in DOMAIN t : j < k => \E i, l \in DOMAIN s : i < l /\ t[j] = s[i] /\ t[k] = s[l]
  BY ThoseFacts
<1> HIDE DEF t, u
<1>3. DOMAIN t = 1..Len(t) /\ Len(t) \in Nat
  BY <1>2
<1>4. \A i \in DOMAIN t : t[i] \in S /\ t[i] \in Range(s)
  BY <1>2 DEF Range
<1>5. u \in Seq(RomFiles) /\ DOMAIN u = DOMAIN t /\ \A i \in DOMAIN t : u[i] = file[t[i]]
  BY <1>1, <1>3, <1>4 DEF S
<1>6. ASSUME NEW c \in Range(s), c \in S PROVE file[c] \in Range(u)
  <2>1. PICK i \in DOMAIN t : t[i] = c
    BY <1>2, <1>6 DEF Range
  <2> QED
    BY <1>5, <2>1 DEF Range
<1>7. ASSUME NEW k \in DOMAIN u
      PROVE  \E l \in DOMAIN s : s[l] \in DOMAIN file /\ u[k] = file[s[l]]
  <2>1. PICK l \in DOMAIN s : s[l] = t[k]
    BY <1>4, <1>5 DEF Range
  <2> QED
    BY <1>4, <1>5, <2>1 DEF S
<1>8. ASSUME NEW j \in DOMAIN u, NEW k \in DOMAIN u, j < k
      PROVE  \E i, l \in DOMAIN s : /\ i < l /\ s[i] \in DOMAIN file /\ s[l] \in DOMAIN file
                                    /\ u[j] = file[s[i]] /\ u[k] = file[s[l]]
  <2>1. PICK i \in DOMAIN s, l \in DOMAIN s : i < l /\ t[j] = s[i] /\ t[k] = s[l]
    BY <1>2, <1>5, <1>8
  <2> QED
    BY <1>4, <1>5, <2>1 DEF S, Range
<1> QED
  BY <1>5, <1>6, <1>7, <1>8 DEF u, S

(* What an emulator's own list says.                                         *)
LEMMA ListOfFacts ==
  ASSUME RecentTypeOK, NEW e
  PROVE  /\ ListOf(e) \in Seq(RomFiles) /\ Range(ListOf(e)) = PlayedWith(e)
         /\ \A i, j \in DOMAIN ListOf(e) : i < j => when[e][ListOf(e)[i]] >= when[e][ListOf(e)[j]]
<1>1. IsFiniteSet(RomFiles)
  BY RecentAssumption
<1>2. PlayedWith(e) \in SUBSET RomFiles
  BY DEF PlayedWith
<1>3. \A f \in PlayedWith(e) : when[e][f] \in Nat
  <2>1. SUFFICES ASSUME NEW f \in PlayedWith(e) PROVE when[e][f] \in Nat
    OBVIOUS
  <2>2. e \in installed /\ f \in RomFiles
    BY DEF PlayedWith
  <2>3. MaxClock(installed) \in Nat
    BY RecentAssumption DEF RecentTypeOK
  <2> QED
    BY <2>2, <2>3 DEF RecentTypeOK
<1>4. IsFiniteSet(PlayedWith(e))
  BY <1>1, <1>2, FS_Subset
<1> DEFINE s == NewestFirst(PlayedWith(e), when[e])
<1>5. /\ s \in Seq(PlayedWith(e)) /\ Range(s) = PlayedWith(e)
      /\ \A i, j \in DOMAIN s : i < j => when[e][s[i]] >= when[e][s[j]]
  BY <1>3, <1>4, NewestFirstFacts
<1> HIDE DEF s
<1>6. s \in Seq(RomFiles)
  BY <1>2, <1>5
<1> QED
  BY <1>5, <1>6 DEF ListOf, s

(* RetroArch and muOS: what was played is listed.                            *)
LEMMA RetroArchFacts ==
  ASSUME RecentInv
  PROVE  /\ load_retroarch_history_paths \in Seq(RomFiles)
         /\ PlayedWith("retroarch") \cap there \subseteq Range(load_retroarch_history_paths)
<1>1. find_content_history_lpl \in Seq(RomFiles)
  BY ListOfFacts DEF RecentInv, find_content_history_lpl
<1>2. PlayedWith("retroarch") \subseteq Range(find_content_history_lpl)
  <2>1. Range(ListOf("retroarch")) = PlayedWith("retroarch")
    BY ListOfFacts DEF RecentInv
  <2> QED
    BY <2>1 DEF find_content_history_lpl
<1> QED
  BY <1>1, <1>2, ThoseFacts DEF load_retroarch_history_paths, Existing

(* muOS: the files that it keeps for each game are found.                    *)
LEMMA MuosFacts ==
  ASSUME RecentInv
  PROVE  /\ load_muos_history_paths \in Seq(RomFiles)
         /\ PlayedWith("muos") \cap there \subseteq Range(load_muos_history_paths)
<1>1. PlayedWith("muos") \in SUBSET RomFiles /\ RomFiles \in SUBSET Nat /\ IsFiniteSet(RomFiles)
  BY RecentAssumption, FS_CardinalityType DEF PlayedWith
<1>2. IsFiniteSet(PlayedWith("muos")) /\ PlayedWith("muos") \in SUBSET Nat
  BY <1>1, FS_Subset
<1> DEFINE s == InOrder(PlayedWith("muos"))
<1>3. s \in Seq(PlayedWith("muos")) /\ Range(s) = PlayedWith("muos")
  BY <1>2, InOrderFacts
<1> HIDE DEF s
<1>4. s \in Seq(RomFiles)
  BY <1>1, <1>3
<1>5. Those(s, there) \in Seq(RomFiles) /\ Range(Those(s, there)) = Range(s) \cap there
  BY <1>4, ThoseFacts
<1> QED
  BY <1>3, <1>5 DEF load_muos_history_paths, Existing, s

(* PPSSPP: what was played is listed, the latest first.                      *)
LEMMA PpssppFacts ==
  ASSUME RecentInv
  PROVE  /\ load_ppsspp_recent_paths \in Seq(RomFiles)
         /\ PlayedWith("ppsspp") \cap there \subseteq Range(load_ppsspp_recent_paths)
         /\ SortedBy(load_ppsspp_recent_paths, LAMBDA f : when["ppsspp"][f])
<1> DEFINE s == ListOf("ppsspp")
           t == Those(s, there)
<1>1. /\ s \in Seq(RomFiles) /\ Range(s) = PlayedWith("ppsspp")
      /\ \A i, j \in DOMAIN s : i < j => when["ppsspp"][s[i]] >= when["ppsspp"][s[j]]
  BY ListOfFacts DEF RecentInv
<1> HIDE DEF s
<1>2. /\ t \in Seq(RomFiles) /\ Range(t) = Range(s) \cap there
      /\ \A j, k \in DOMAIN t : j < k => \E i, l \in DOMAIN s : i < l /\ t[j] = s[i] /\ t[k] = s[l]
  BY <1>1, ThoseFacts
<1> HIDE DEF t
<1>3. \A j, k \in DOMAIN t : j < k => when["ppsspp"][t[j]] >= when["ppsspp"][t[k]]
  BY <1>1, <1>2
<1>4. load_ppsspp_recent_paths = t
  BY DEF load_ppsspp_recent_paths, Existing, s, t
<1> QED
  BY <1>1, <1>2, <1>3, <1>4 DEF SortedBy

(* What PCSX2's and DuckStation's play times say.                            *)
LEMMA PlaytimeFacts ==
  ASSUME RecentInv, NEW e \in installed
  PROVE  /\ parse_pcsx2_playtime(e) \in Seq(Serials)
         /\ \A f \in RomFiles : when[e][f] > 0 /\ Header(f).serial # 0 =>
              Header(f).serial \in Range(parse_pcsx2_playtime(e))
         /\ \A i, j \in DOMAIN parse_pcsx2_playtime(e) : i < j =>
              LastOf(e, {g \in RomFiles : Header(g).serial = parse_pcsx2_playtime(e)[i]})
              >= LastOf(e, {g \in RomFiles : Header(g).serial = parse_pcsx2_playtime(e)[j]})
<1> DEFINE Of(c) == {g \in RomFiles : Header(g).serial = c}
           last == [c \in Serials |-> LastOf(e, Of(c))]
           S == {c \in Serials : last[c] > 0}
           s == NewestFirst(S, last)
<1>1. RecentTypeOK /\ \A c : Of(c) \in SUBSET RomFiles
  BY DEF RecentInv
<1>2. \A c \in Serials : last[c] = LastOf(e, Of(c)) /\ last[c] \in Nat
  BY <1>1, LastOfFacts
<1>3. parse_pcsx2_playtime(e) = s
  BY DEF parse_pcsx2_playtime
<1>4. IsFiniteSet(S)
  <2>1. S \in SUBSET Serials
    OBVIOUS
  <2> QED
    BY <2>1, CodesFinite, FS_Subset
<1> HIDE DEF last
<1>5. \A c \in S : last[c] \in Nat
  BY <1>2
<1>6. /\ s \in Seq(S) /\ Range(s) = S
      /\ \A i, j \in DOMAIN s : i < j => last[s[i]] >= last[s[j]]
  BY <1>4, <1>5, NewestFirstFacts
<1> HIDE DEF s
<1>7. s \in Seq(Serials) /\ \A i \in DOMAIN s : s[i] \in Serials
  <2>1. S \subseteq Serials
    OBVIOUS
  <2> QED
    BY <1>6, <2>1
<1>8. ASSUME NEW f \in RomFiles, when[e][f] > 0, Header(f).serial # 0
      PROVE  Header(f).serial \in Range(s)
  <2> DEFINE c == Header(f).serial
  <2>1. c \in Serials /\ f \in Of(c)
    BY <1>8 DEF Serials
  <2>2. LastOf(e, Of(c)) >= when[e][f] /\ when[e][f] \in Nat /\ LastOf(e, Of(c)) \in Nat
    BY <1>1, <2>1, LastOfFacts
  <2>3. last[c] > 0
    BY <1>2, <1>8, <2>1, <2>2
  <2> QED
    BY <1>6, <2>1, <2>3
<1>9. \A i, j \in DOMAIN s : i < j => LastOf(e, Of(s[i])) >= LastOf(e, Of(s[j]))
  BY <1>2, <1>6, <1>7
<1> QED
  BY <1>3, <1>7, <1>8, <1>9

(* A list of games says of its serials which file they are.                  *)
LEMMA FilesBySerialFacts ==
  ASSUME NEW entries \in Seq(RomFiles)
  PROVE  /\ \A c \in DOMAIN FilesBySerial(entries) :
              /\ FilesBySerial(entries)[c] \in Range(entries)
              /\ Header(FilesBySerial(entries)[c]).serial = c
         /\ \A f \in Range(entries) : Header(f).serial # 0 =>
              Header(f).serial \in DOMAIN FilesBySerial(entries)
<1> DEFINE Of(c) == {i \in DOMAIN entries : Header(entries[i]).serial = c}
           m == FilesBySerial(entries)
<1>1. m = [c \in {c \in Serials : Of(c) # {}} |-> entries[Min(Of(c))]]
  BY DEF FilesBySerial
<1> HIDE DEF m
<1>2. ASSUME NEW c \in DOMAIN m
      PROVE  m[c] \in Range(entries) /\ Header(m[c]).serial = c
  <2>1. Of(c) # {} /\ m[c] = entries[Min(Of(c))]
    BY <1>1
  <2>2. Of(c) \in SUBSET Nat
    OBVIOUS
  <2>3. Min(Of(c)) \in Of(c)
    BY <2>1, <2>2, SmallestFacts
  <2> QED
    BY <2>1, <2>3 DEF Range
<1>3. ASSUME NEW f \in Range(entries), Header(f).serial # 0
      PROVE  Header(f).serial \in DOMAIN m
  <2>1. PICK i \in DOMAIN entries : entries[i] = f
    BY DEF Range
  <2>2. f \in RomFiles
    BY <2>1
  <2>3. Header(f).serial \in Serials
    BY <1>3, <2>2 DEF Serials
  <2>4. i \in Of(Header(f).serial)
    BY <2>1
  <2> QED
    BY <1>1, <2>3, <2>4
<1> QED
  BY <1>2, <1>3 DEF m

(* PCSX2 and DuckStation: what was played and is listed unmistakably is      *)
(* found, the latest first.                                                  *)
LEMMA SerialListFacts ==
  ASSUME RecentInv, NEW e \in installed \cap Listing, NEW m,
         \/ m = FilesBySerial(gamelist[e].entries)
         \/ m = <<>> /\ gamelist[e].version = 0
  PROVE  /\ FilesFor(parse_pcsx2_playtime(e), m) \in Seq(RomFiles)
         /\ \A f \in there : when[e][f] > 0 /\ Findable(e, f) =>
              f \in Range(FilesFor(parse_pcsx2_playtime(e), m))
         /\ SortedBy(FilesFor(parse_pcsx2_playtime(e), m), LAMBDA f :
              LastOf(e, {g \in RomFiles : Header(g).serial = Header(f).serial}))
<1> DEFINE s == parse_pcsx2_playtime(e)
           entries == gamelist[e].entries
           t == FilesFor(s, m)
           Of(c) == {g \in RomFiles : Header(g).serial = c}
<1>1. entries \in Seq(RomFiles) /\ there \subseteq RomFiles /\ DOMAIN <<>> = {}
  BY DEF RecentInv, RecentTypeOK
<1>2. \A c \in DOMAIN m : m[c] \in Range(entries) /\ Header(m[c]).serial = c
  BY <1>1, FilesBySerialFacts
<1>3. s \in Seq(Serials)
  BY PlaytimeFacts
<1>4. /\ t \in Seq(RomFiles)
      /\ \A c \in Range(s) : c \in DOMAIN m /\ m[c] \in there => m[c] \in Range(t)
      /\ \A j, k \in DOMAIN t : j < k =>
           \E i, l \in DOMAIN s :
              /\ i < l /\ s[i] \in DOMAIN m /\ s[l] \in DOMAIN m
              /\ t[j] = m[s[i]] /\ t[k] = m[s[l]]
  BY <1>1, <1>3, FilesForFacts
<1>5. /\ \A f \in RomFiles : when[e][f] > 0 /\ Header(f).serial # 0 => Header(f).serial \in Range(s)
      /\ \A i, j \in DOMAIN s : i < j => LastOf(e, Of(s[i])) >= LastOf(e, Of(s[j]))
  BY PlaytimeFacts
<1>6. ASSUME NEW f \in there, when[e][f] > 0, Findable(e, f) PROVE f \in Range(t)
  <2>1. /\ Header(f).serial # 0 /\ gamelist[e].version # 0 /\ f \in Range(entries)
        /\ \A g \in Range(entries) \ {f} : Header(g).serial # Header(f).serial
    <3>1. e # "dolphin" /\ e \in Listing
      BY DEF Listing
    <3> QED
      BY <1>6, <3>1 DEF Findable
  <2>2. m = FilesBySerial(entries)
    BY <2>1
  <2>3. Header(f).serial \in DOMAIN m
    BY <1>1, <2>1, <2>2, FilesBySerialFacts
  <2>4. m[Header(f).serial] = f
    BY <1>2, <2>1, <2>3
  <2>5. Header(f).serial \in Range(s)
    BY <1>1, <1>5, <1>6, <2>1
  <2> HIDE DEF t, s
  <2> QED
    BY <1>4, <2>3, <2>4, <2>5
<1>7. ASSUME NEW j \in DOMAIN t, NEW k \in DOMAIN t, j < k
      PROVE  LastOf(e, Of(Header(t[j]).serial)) >= LastOf(e, Of(Header(t[k]).serial))
  <2>1. PICK i \in DOMAIN s, l \in DOMAIN s :
          /\ i < l /\ s[i] \in DOMAIN m /\ s[l] \in DOMAIN m
          /\ t[j] = m[s[i]] /\ t[k] = m[s[l]]
    BY <1>4, <1>7
  <2>2. Header(t[j]).serial = s[i] /\ Header(t[k]).serial = s[l]
    BY <1>2, <2>1
  <2> QED
    BY <1>5, <2>1, <2>2
<1>8. SortedBy(t, LAMBDA f : LastOf(e, Of(Header(f).serial)))
  BY <1>7 DEF SortedBy
<1> QED
  BY <1>4, <1>6, <1>8

(* PCSX2: what was played and can be told by its serial is found, the        *)
(* latest first.                                                             *)
LEMMA Pcsx2Facts ==
  ASSUME RecentInv
  PROVE  /\ load_pcsx2_recent_paths \in Seq(RomFiles)
         /\ "pcsx2" \in installed => \A f \in there :
              when["pcsx2"][f] > 0 /\ Findable("pcsx2", f) => f \in Range(load_pcsx2_recent_paths)
         /\ SortedBy(load_pcsx2_recent_paths, LAMBDA f :
              LastOf("pcsx2", {g \in RomFiles : Header(g).serial = Header(f).serial}))
<1> DEFINE list == gamelist["pcsx2"]
           m == parse_pcsx2_gamelist_cache(list)
           time(f) == LastOf("pcsx2", {g \in RomFiles : Header(g).serial = Header(f).serial})
<1>1. CASE "pcsx2" \notin installed
  <2>1. load_pcsx2_recent_paths = <<>>
    BY <1>1 DEF load_pcsx2_recent_paths
  <2>2. <<>> \in Seq(RomFiles) /\ SortedBy(<<>>, LAMBDA f : time(f))
    BY DEF SortedBy
  <2> QED
    BY <1>1, <2>1, <2>2
<1>2. CASE "pcsx2" \in installed
  <2>1. "pcsx2" \in installed \cap Listing
    BY <1>2 DEF Listing
  <2>2. m = FilesBySerial(list.entries) \/ (m = <<>> /\ list.version = 0)
    <3>1. list.version # 0 => list.signature = "GLCE" /\ list.version = 34
      BY <2>1 DEF RecentInv
    <3> QED
      BY <3>1 DEF parse_pcsx2_gamelist_cache, known_cache_version
  <2> DEFINE t == FilesFor(parse_pcsx2_playtime("pcsx2"), m)
  <2>3. load_pcsx2_recent_paths = t
    BY <1>2 DEF load_pcsx2_recent_paths
  <2> HIDE DEF m
  <2>4. /\ t \in Seq(RomFiles) /\ SortedBy(t, LAMBDA f : time(f))
        /\ \A f \in there : when["pcsx2"][f] > 0 /\ Findable("pcsx2", f) => f \in Range(t)
    BY <2>1, <2>2, SerialListFacts
  <2> QED
    BY <2>3, <2>4
<1> QED
  BY <1>1, <1>2

(* DuckStation: what was played and can be told by its serial is found.      *)
LEMMA DuckstationFacts ==
  ASSUME RecentInv
  PROVE  /\ load_duckstation_recent_paths \in Seq(RomFiles)
         /\ "duckstation" \in installed => \A f \in there :
              when["duckstation"][f] > 0 /\ Findable("duckstation", f)
                => f \in Range(load_duckstation_recent_paths)
<1> DEFINE list == gamelist["duckstation"]
           m == parse_duckstation_gamelist_cache(list)
<1>1. CASE "duckstation" \notin installed
  BY <1>1 DEF load_duckstation_recent_paths
<1>2. CASE "duckstation" \in installed
  <2>1. "duckstation" \in installed \cap Listing
    BY <1>2 DEF Listing
  <2>2. m = FilesBySerial(list.entries) \/ (m = <<>> /\ list.version = 0)
    <3>1. list.version # 0 => list.signature = "HLCE" /\ list.version = 41
      BY <2>1 DEF RecentInv
    <3> QED
      BY <3>1 DEF parse_duckstation_gamelist_cache, known_cache_version
  <2> DEFINE t == FilesFor(parse_pcsx2_playtime("duckstation"), m)
  <2>3. load_duckstation_recent_paths = t
    BY <1>2 DEF load_duckstation_recent_paths
  <2> HIDE DEF m
  <2>4. /\ t \in Seq(RomFiles)
        /\ \A f \in there : when["duckstation"][f] > 0 /\ Findable("duckstation", f) => f \in Range(t)
    BY <2>1, <2>2, SerialListFacts
  <2> QED
    BY <2>3, <2>4
<1> QED
  BY <1>1, <1>2

(* A library names, of the files S that are there, one for each code.        *)
LEMMA LibraryFacts ==
  ASSUME NEW S \in SUBSET RomFiles, there \subseteq RomFiles
  PROVE  /\ \A c \in DOMAIN LibraryOf(S) :
              LibraryOf(S)[c] \in S \cap there /\ DolphinCode(LibraryOf(S)[c]) = c
         /\ \A f \in S \cap there :
              DolphinCode(f) \in Codes => DolphinCode(f) \in DOMAIN LibraryOf(S)
<1> DEFINE Of(c) == {f \in S \cap there : DolphinCode(f) = c}
           m == LibraryOf(S)
<1>1. m = [c \in {c \in Codes : Of(c) # {}} |-> Min(Of(c))]
  BY DEF LibraryOf
<1> HIDE DEF m
<1>2. RomFiles \in SUBSET Nat
  BY RecentAssumption, FS_CardinalityType
<1>3. ASSUME NEW c \in DOMAIN m PROVE m[c] \in S \cap there /\ DolphinCode(m[c]) = c
  <2>1. Of(c) # {} /\ Of(c) \in SUBSET Nat /\ m[c] = Min(Of(c))
    BY <1>1, <1>2
  <2>2. Min(Of(c)) \in Of(c)
    BY <2>1, SmallestFacts
  <2> QED
    BY <2>1, <2>2
<1>4. ASSUME NEW f \in S \cap there, DolphinCode(f) \in Codes PROVE DolphinCode(f) \in DOMAIN m
  <2>1. f \in Of(DolphinCode(f))
    OBVIOUS
  <2> QED
    BY <1>1, <1>4, <2>1
<1> QED
  BY <1>3, <1>4 DEF m

(* Dolphin: what was saved lately, and whose code is its own, is found, the  *)
(* latest first.                                                             *)
LEMMA DolphinFacts ==
  ASSUME RecentInv
  PROVE  /\ load_dolphin_recent_paths \in Seq(RomFiles)
         /\ "dolphin" \in installed => \A f \in there :
              when["dolphin"][f] > 0 /\ Findable("dolphin", f)
                => f \in Range(load_dolphin_recent_paths)
         /\ SortedBy(load_dolphin_recent_paths, LAMBDA f :
              LastOf("dolphin", {g \in RomFiles : DolphinCode(g) = DolphinCode(f)}))
<1> DEFINE Of(c) == {g \in RomFiles : DolphinCode(g) = c}
           time(f) == LastOf("dolphin", Of(DolphinCode(f)))
<1>1. CASE "dolphin" \notin installed
  <2>1. load_dolphin_recent_paths = <<>>
    BY <1>1 DEF load_dolphin_recent_paths
  <2>2. <<>> \in Seq(RomFiles) /\ SortedBy(<<>>, LAMBDA f : time(f))
    BY DEF SortedBy
  <2> QED
    BY <1>1, <2>1, <2>2
<1>2. CASE "dolphin" \in installed
  <2> DEFINE Discs == {f \in RomFiles : ~IsWad(f)}
             Wads == {f \in RomFiles : IsWad(f)}
             saved == merge_recent_codes(scan_dolphin_gci_codes, scan_dolphin_wii_title_codes)
             recent == {c \in Codes : saved[c] > 0 /\ saved[c] >= clock - Recently}
             disc == scan_dolphin_disc_library
             wad == scan_dolphin_wad_library
             library == [c \in DOMAIN disc \cup DOMAIN wad |->
                           IF c \in DOMAIN disc THEN disc[c] ELSE wad[c]]
             s == NewestFirst(recent, saved)
             t == FilesFor(s, library)
  <2>1. load_dolphin_recent_paths = t
    BY <1>2 DEF load_dolphin_recent_paths
  <2>2. /\ RecentTypeOK /\ there \subseteq RomFiles /\ \A c : Of(c) \in SUBSET RomFiles
        /\ Discs \in SUBSET RomFiles /\ Wads \in SUBSET RomFiles
    BY DEF RecentInv, RecentTypeOK
  <2>3. \A c \in Codes : saved[c] = LastOf("dolphin", Of(c)) /\ saved[c] \in Nat
    <3> SUFFICES ASSUME NEW c \in Codes
                 PROVE  saved[c] = LastOf("dolphin", Of(c)) /\ saved[c] \in Nat
      OBVIOUS
    <3> DEFINE A == {f \in Discs : DolphinCode(f) = c}
               B == {f \in Wads : DolphinCode(f) = c}
    <3>1. A \in SUBSET RomFiles /\ B \in SUBSET RomFiles /\ A \cup B = Of(c)
      OBVIOUS
    <3>2. scan_dolphin_gci_codes[c] = LastOf("dolphin", A)
      BY DEF scan_dolphin_gci_codes, SavedBy
    <3>3. scan_dolphin_wii_title_codes[c] = LastOf("dolphin", B)
      BY DEF scan_dolphin_wii_title_codes, SavedBy
    <3>4. saved[c] = Max({LastOf("dolphin", A), LastOf("dolphin", B)})
      BY <3>2, <3>3 DEF merge_recent_codes
    <3> HIDE DEF A, B, saved
    <3>5. saved[c] = LastOf("dolphin", Of(c))
      BY <1>2, <2>2, <3>1, <3>4, LastOfBoth
    <3>6. LastOf("dolphin", Of(c)) \in Nat
      BY <1>2, <2>2, LastOfFacts
    <3> QED
      BY <3>5, <3>6
  <2> HIDE DEF saved
  <2>4. IsFiniteSet(recent)
    <3>1. recent \in SUBSET Codes
      OBVIOUS
    <3> QED
      BY <3>1, CodesFinite, FS_Subset
  <2>5. /\ s \in Seq(recent) /\ Range(s) = recent
        /\ \A i, j \in DOMAIN s : i < j => saved[s[i]] >= saved[s[j]]
    <3>1. \A c \in recent : saved[c] \in Nat
      BY <2>3
    <3> QED
      BY <2>4, <3>1, NewestFirstFacts
  <2> HIDE DEF s
  <2>6. /\ \A c \in DOMAIN disc : disc[c] \in Discs \cap there /\ DolphinCode(disc[c]) = c
        /\ \A f \in Discs \cap there : DolphinCode(f) \in Codes => DolphinCode(f) \in DOMAIN disc
    BY <2>2, LibraryFacts DEF scan_dolphin_disc_library
  <2>7. /\ \A c \in DOMAIN wad : wad[c] \in Wads \cap there /\ DolphinCode(wad[c]) = c
        /\ \A f \in Wads \cap there : DolphinCode(f) \in Codes => DolphinCode(f) \in DOMAIN wad
    BY <2>2, LibraryFacts DEF scan_dolphin_wad_library
  <2>8. /\ \A c \in DOMAIN library : library[c] \in there /\ DolphinCode(library[c]) = c
        /\ \A f \in there : DolphinCode(f) \in Codes => DolphinCode(f) \in DOMAIN library
    <3> HIDE DEF disc, wad
    <3>1. \A c \in DOMAIN library : library[c] \in there /\ DolphinCode(library[c]) = c
      BY <2>6, <2>7
    <3>2. \A f \in there : f \in Discs \/ f \in Wads
      BY <2>2
    <3>3. \A f \in there : DolphinCode(f) \in Codes => DolphinCode(f) \in DOMAIN library
      BY <2>6, <2>7, <3>2
    <3> QED
      BY <3>1, <3>3
  <2> HIDE DEF library
  <2>9. /\ t \in Seq(RomFiles)
        /\ \A c \in Range(s) : c \in DOMAIN library /\ library[c] \in there => library[c] \in Range(t)
        /\ \A j, k \in DOMAIN t : j < k =>
             \E i, l \in DOMAIN s :
                /\ i < l /\ s[i] \in DOMAIN library /\ s[l] \in DOMAIN library
                /\ t[j] = library[s[i]] /\ t[k] = library[s[l]]
    BY <2>2, <2>5, FilesForFacts
  <2> HIDE DEF t
  <2>10. ASSUME NEW f \in there, when["dolphin"][f] > 0, Findable("dolphin", f)
         PROVE  f \in Range(t)
    <3> DEFINE c == DolphinCode(f)
    <3>1. /\ when["dolphin"][f] >= clock - Recently /\ c # 0
          /\ \A g \in there \ {f} : DolphinCode(g) # c
      <4>1. "dolphin" \notin Listing
        BY DEF Listing
      <4> QED
        BY <2>10, <4>1 DEF Findable
    <3>2. c \in Codes
      <4>1. c \in {Header(f).first, Header(f).inner, Header(f).title, 0}
        BY DEF DolphinCode, read_wad_game_code, read_dolphin_disc_code
      <4>2. f \in RomFiles /\ c # 0
        BY <2>2, <3>1
      <4> QED
        BY <4>1, <4>2 DEF Codes
    <3>3. f \in Of(c)
      BY <2>2
    <3>4. /\ LastOf("dolphin", Of(c)) >= when["dolphin"][f]
          /\ when["dolphin"][f] \in Nat /\ LastOf("dolphin", Of(c)) \in Nat
      BY <1>2, <2>2, <3>3, LastOfFacts
    <3>5. clock - Recently \in Int
      <4>1. clock \in 0..MaxClock(installed) /\ MaxClock(installed) \in Nat /\ Recently \in Nat
        BY <2>2, RecentAssumption DEF RecentTypeOK
      <4> QED
        BY <4>1
    <3> HIDE DEF c
    <3>6. saved[c] > 0 /\ saved[c] >= clock - Recently
      BY <2>3, <2>10, <3>1, <3>2, <3>4, <3>5
    <3>7. c \in Range(s)
      BY <2>5, <3>2, <3>6
    <3>8. c \in DOMAIN library /\ library[c] = f
      BY <2>8, <3>1, <3>2 DEF c
    <3> QED
      BY <2>9, <3>7, <3>8
  <2>11. ASSUME NEW j \in DOMAIN t, NEW k \in DOMAIN t, j < k
         PROVE  time(t[j]) >= time(t[k])
    <3>1. PICK i \in DOMAIN s, l \in DOMAIN s :
            /\ i < l /\ s[i] \in DOMAIN library /\ s[l] \in DOMAIN library
            /\ t[j] = library[s[i]] /\ t[k] = library[s[l]]
      BY <2>9, <2>11
    <3>2. DolphinCode(t[j]) = s[i] /\ DolphinCode(t[k]) = s[l]
      BY <2>8, <3>1
    <3>3. s[i] \in Codes /\ s[l] \in Codes
      BY <2>5
    <3> QED
      BY <2>3, <2>5, <3>1, <3>2, <3>3
  <2>12. SortedBy(t, LAMBDA f : time(f))
    BY <2>11 DEF SortedBy
  <2> QED
    BY <1>2, <2>1, <2>9, <2>10, <2>12
<1> QED
  BY <1>1, <1>2

(* Lists put behind each other have what each has.                           *)
LEMMA BothRanges ==
  ASSUME NEW X, NEW s \in Seq(X), NEW t \in Seq(X)
  PROVE  s \o t \in Seq(X) /\ Range(s \o t) = Range(s) \cup Range(t)
<1> DEFINE u == s \o t
<1>1. /\ u \in Seq(X) /\ Len(s) \in Nat /\ Len(t) \in Nat
      /\ DOMAIN s = 1..Len(s) /\ DOMAIN t = 1..Len(t) /\ DOMAIN u = 1..(Len(s) + Len(t))
      /\ \A i \in 1..(Len(s) + Len(t)) : u[i] = IF i <= Len(s) THEN s[i] ELSE t[i - Len(s)]
  OBVIOUS
<1> HIDE DEF u
<1>2. \A i \in DOMAIN u : u[i] \in Range(s) \cup Range(t)
  <2> SUFFICES ASSUME NEW i \in DOMAIN u PROVE u[i] \in Range(s) \cup Range(t)
    OBVIOUS
  <2>1. CASE i <= Len(s)
    <3>1. i \in DOMAIN s /\ u[i] = s[i]
      BY <1>1, <2>1
    <3> QED
      BY <3>1 DEF Range
  <2>2. CASE ~(i <= Len(s))
    <3>1. i - Len(s) \in DOMAIN t /\ u[i] = t[i - Len(s)]
      BY <1>1, <2>2
    <3> QED
      BY <3>1 DEF Range
  <2> QED
    BY <2>1, <2>2
<1>3. \A i \in DOMAIN s : i \in DOMAIN u /\ u[i] = s[i]
  BY <1>1
<1>4. \A i \in DOMAIN t : i + Len(s) \in DOMAIN u /\ u[i + Len(s)] = t[i]
  <2> SUFFICES ASSUME NEW i \in DOMAIN t PROVE i + Len(s) \in DOMAIN u /\ u[i + Len(s)] = t[i]
    OBVIOUS
  <2>1. i + Len(s) \in 1..(Len(s) + Len(t)) /\ ~(i + Len(s) <= Len(s)) /\ i + Len(s) - Len(s) = i
    BY <1>1
  <2> QED
    BY <1>1, <2>1
<1>5. Range(u) = Range(s) \cup Range(t)
  BY <1>2, <1>3, <1>4 DEF Range
<1> QED
  BY <1>1, <1>5 DEF u

(* What the candidates of all the emulators are.                             *)
LEMMA CandidateFacts ==
  ASSUME RecentInv
  PROVE  /\ load_content_history_paths \in Seq(RomFiles) /\ IsInjective(load_content_history_paths)
         /\ \A e \in installed : \A f \in there :
              when[e][f] > 0 /\ Findable(e, f) => f \in Range(load_content_history_paths)
<1> DEFINE first == IF "muos" \in installed THEN load_muos_history_paths
                    ELSE load_retroarch_history_paths
           a == load_ppsspp_recent_paths
           b == load_dolphin_recent_paths
           c == load_pcsx2_recent_paths
           d == load_duckstation_recent_paths
           all == first \o a \o b \o c \o d
<1>1. /\ first \in Seq(RomFiles) /\ a \in Seq(RomFiles) /\ b \in Seq(RomFiles)
      /\ c \in Seq(RomFiles) /\ d \in Seq(RomFiles)
  BY MuosFacts, RetroArchFacts, PpssppFacts, DolphinFacts, Pcsx2Facts, DuckstationFacts
<1>2. load_content_history_paths = Firsts(all)
  BY DEF load_content_history_paths
<1>3. /\ installed \in Setups /\ there \subseteq RomFiles
      /\ installed \subseteq {"muos", "retroarch", "ppsspp", "dolphin", "pcsx2", "duckstation"}
      /\ ~({"muos", "retroarch"} \subseteq installed)
  BY RecentAssumption DEF RecentInv, RecentTypeOK, Listing
<1>4. ASSUME NEW e \in installed, NEW f \in there, when[e][f] > 0, Findable(e, f)
      PROVE  \/ f \in Range(first) \/ f \in Range(a) \/ f \in Range(b)
             \/ f \in Range(c) \/ f \in Range(d)
  <2>1. f \in PlayedWith(e) \cap there
    BY <1>3, <1>4 DEF PlayedWith
  <2>2. CASE e = "muos"
    BY <2>1, <2>2, MuosFacts
  <2>3. CASE e = "retroarch"
    <3>1. "muos" \notin installed
      BY <1>3, <2>3
    <3> QED
      BY <2>1, <2>3, <3>1, RetroArchFacts
  <2>4. CASE e = "ppsspp"
    BY <2>1, <2>4, PpssppFacts
  <2>5. CASE e = "dolphin"
    BY <1>4, <2>5, DolphinFacts
  <2>6. CASE e = "pcsx2"
    BY <1>4, <2>6, Pcsx2Facts
  <2>7. CASE e = "duckstation"
    BY <1>4, <2>7, DuckstationFacts
  <2> QED
    BY <1>3, <2>2, <2>3, <2>4, <2>5, <2>6, <2>7
<1> HIDE DEF first, a, b, c, d
<1>5. /\ all \in Seq(RomFiles)
      /\ Range(all) = Range(first) \cup Range(a) \cup Range(b) \cup Range(c) \cup Range(d)
  <2>1. first \o a \in Seq(RomFiles) /\ Range(first \o a) = Range(first) \cup Range(a)
    BY <1>1, BothRanges
  <2> DEFINE two == first \o a
             three == two \o b
             four == three \o c
  <2> HIDE DEF two
  <2>2. two \in Seq(RomFiles) /\ Range(two) = Range(first) \cup Range(a)
    BY <2>1 DEF two
  <2>3. three \in Seq(RomFiles) /\ Range(three) = Range(two) \cup Range(b)
    BY <1>1, <2>2, BothRanges
  <2> HIDE DEF three
  <2>4. four \in Seq(RomFiles) /\ Range(four) = Range(three) \cup Range(c)
    BY <1>1, <2>3, BothRanges
  <2> HIDE DEF four
  <2>5. four \o d \in Seq(RomFiles) /\ Range(four \o d) = Range(four) \cup Range(d)
    BY <1>1, <2>4, BothRanges
  <2>6. all = four \o d
    BY DEF two, three, four
  <2> QED
    BY <2>2, <2>3, <2>4, <2>5, <2>6
<1> HIDE DEF all
<1>6. Firsts(all) \in Seq(RomFiles) /\ Range(Firsts(all)) = Range(all) /\ IsInjective(Firsts(all))
  BY <1>5, FirstsFacts
<1> QED
  BY <1>2, <1>4, <1>5, <1>6

(* The candidates are files.                                                 *)
LEMMA CandidatesType ==
  ASSUME RecentInv
  PROVE  smart_cache_paths \in Seq(RomFiles)
BY CandidateFacts, ThoseFacts DEF smart_cache_paths

(* What was played is found, whatever led to this state.                     *)
LEMMA RecentIsFound ==
  ASSUME RecentInv, ~overrun
  PROVE  RecentFound
<1> DEFINE S == {f \in RomFiles : RomName(f) \notin NamesOf(cachedFrom)}
           found == smart_cache_paths
<1>1. there \subseteq RomFiles
  BY DEF RecentInv, RecentTypeOK
<1>2. found = Those(load_content_history_paths, S)
  BY DEF smart_cache_paths
<1> HIDE DEF found, S
<1>3. Range(found) = Range(load_content_history_paths) \cap S /\ IsInjective(found)
  BY <1>2, CandidateFacts, ThoseFacts
<1>4. ASSUME NEW e \in installed, NEW f \in there,
             when[e][f] > 0 /\ RomName(f) \notin NamesOf(cachedFrom) /\ Findable(e, f)
      PROVE  f \in Range(found)
  <2>1. f \in S
    BY <1>1, <1>4 DEF S
  <2> QED
    BY <1>3, <1>4, <2>1, CandidateFacts
<1> QED
  BY <1>1, <1>3, <1>4, PpssppFacts, DolphinFacts, Pcsx2Facts DEF RecentFound, found

(* The smaller and the larger of two numbers.                                *)
LEMMA MinOfTwo ==
  ASSUME NEW a \in Int, NEW b \in Int
  PROVE  /\ Min({a, b}) = IF a <= b THEN a ELSE b
         /\ Max({a, b}) = IF a >= b THEN a ELSE b
<1>1. \E n \in {a, b} : \A m \in {a, b} : n =< m
  OBVIOUS
<1>2. Min({a, b}) \in {a, b} /\ \A m \in {a, b} : Min({a, b}) =< m
  BY <1>1 DEF Min
<1>3. \E n \in {a, b} : \A m \in {a, b} : n >= m
  OBVIOUS
<1>4. Max({a, b}) \in {a, b} /\ \A m \in {a, b} : Max({a, b}) >= m
  BY <1>3 DEF Max
<1> QED
  BY <1>2, <1>4

(* What the menu says of a run, and what it is reckoned from: the files      *)
(* whose names are not known are no more than it says.                       *)
LEMMA EstimateFacts ==
  ASSUME RecentTypeOK, NEW paths \in Seq(RomFiles)
  PROVE  LET said == estimate_queue_for_paths(paths)
             fresh == said.now + said.later
         IN /\ fresh \in Nat /\ said.now = (IF fresh <= left THEN fresh ELSE left)
            /\ said.queue = Cardinality(waiting) + fresh - said.now
            /\ Cardinality({f \in Range(paths) : RomName(f) \notin known_rom_names}) <= fresh
<1> DEFINE K == {i \in DOMAIN paths : RomName(paths[i]) \in known_rom_names}
           L == {i \in DOMAIN paths : RomName(paths[i]) \notin known_rom_names}
           F == {f \in Range(paths) : RomName(f) \notin known_rom_names}
           x == Len(paths) - Cardinality(K)
           said == estimate_queue_for_paths(paths)
<1>1. /\ IsFiniteSet(DOMAIN paths) /\ Cardinality(DOMAIN paths) = Len(paths)
      /\ Len(paths) \in Nat /\ DOMAIN paths = 1..Len(paths)
  <2>1. Len(paths) \in Nat /\ DOMAIN paths = 1..Len(paths)
    OBVIOUS
  <2> QED
    BY <2>1, FS_Interval
<1>2. /\ IsFiniteSet(K) /\ IsFiniteSet(L) /\ Cardinality(K) \in Nat
      /\ Cardinality(L) = Len(paths) - Cardinality(K)
  <2>1. K \in SUBSET DOMAIN paths /\ L = DOMAIN paths \ K /\ DOMAIN paths \cap K = K
    OBVIOUS
  <2> HIDE DEF K, L
  <2>2. IsFiniteSet(K) /\ IsFiniteSet(L)
    BY <1>1, <2>1, FS_Subset, FS_Difference
  <2>3. Cardinality(K) \in Nat
    BY <2>2, FS_CardinalityType
  <2>4. Cardinality(L) = Len(paths) - Cardinality(K)
    BY <1>1, <2>1, FS_Difference
  <2> QED
    BY <2>2, <2>3, <2>4
<1>3. IsFiniteSet(F) /\ Cardinality(F) <= Cardinality(L)
  <2> DEFINE g == [i \in L |-> paths[i]]
  <2>1. g \in Surjection(L, F)
    <3>1. g \in [L -> F]
      BY DEF Range
    <3>2. \A f \in F : \E i \in L : g[i] = f
      BY DEF Range
    <3> QED
      BY <3>1, <3>2 DEF Surjection
  <2> HIDE DEF g, L, F
  <2> QED
    BY <1>2, <2>1, FS_Surjection
<1>4. Cardinality(L) \in Nat /\ Cardinality(F) \in Nat
  BY <1>2, <1>3, FS_CardinalityType
<1>5. x \in Nat /\ Max({0, x}) = x /\ Cardinality(F) <= x
  <2>1. x = Cardinality(L) /\ x \in Nat
    BY <1>2, <1>4
  <2> HIDE DEF x, F, L
  <2>2. 0 \in Int /\ x \in Int
    BY <2>1
  <2>3. Max({0, x}) = IF 0 >= x THEN 0 ELSE x
    BY ONLY <2>2, MinOfTwo
  <2> QED
    BY <1>3, <1>4, <2>1, <2>3
<1>6. left \in Nat /\ Cardinality(waiting) \in Nat
  <2>1. IsFiniteSet(waiting) /\ Limit \in Nat
    BY RecentAssumption, FS_Subset DEF RecentTypeOK
  <2> QED
    BY <2>1, FS_CardinalityType DEF RecentTypeOK
<1>7. said = [now |-> Min({x, left}), later |-> x - Min({x, left}),
              queue |-> Cardinality(waiting) + x - Min({x, left})]
  BY <1>5 DEF estimate_queue_for_paths, estimate_queue
<1>8. Min({x, left}) = IF x <= left THEN x ELSE left
  BY <1>5, <1>6, MinOfTwo
<1> HIDE DEF x, said
<1>9. said.now + said.later = x
  BY <1>5, <1>6, <1>7, <1>8
<1> QED
  BY <1>5, <1>6, <1>7, <1>8, <1>9 DEF said

(* A run leaves the types right, and queues no more than the menu had said   *)
(* and the new files it took for known ones.                                 *)
LEMMA RunFits ==
  ASSUME RecentInv, NEW paths \in Seq(RomFiles), NEW now \in BOOLEAN, Run(paths, now)
  PROVE  /\ cachedFrom' \subseteq RomFiles /\ waiting' \subseteq RomFiles /\ left' \in 0..Limit
         /\ overrun' <=> overrun
<1> DEFINE new == {f \in Range(paths) \cap there : \A g \in cachedFrom \cup waiting : Rom(g) # Rom(f)}
           one == {f \in new : \A g \in new : Rom(g) = Rom(f) => f <= g}
           said == estimate_queue_for_paths(paths)
           fresh == said.now + said.later
           n == IF now THEN Min({Cardinality(one), left}) ELSE 0
           F == {f \in Range(paths) : RomName(f) \notin known_rom_names}
           N == {f \in one : RomName(f) \in known_rom_names}
<1>1. /\ RecentTypeOK /\ left \in 0..Limit /\ Limit \in Nat /\ left \in Nat
      /\ cachedFrom \subseteq RomFiles /\ waiting \subseteq RomFiles /\ Range(paths) \subseteq RomFiles
      /\ IsFiniteSet(RomFiles)
  BY RecentAssumption DEF RecentInv, RecentTypeOK, Range
<1>2. PICK done \in kSubset(n, one) :
        /\ cachedFrom' = cachedFrom \cup done /\ waiting' = waiting \cup (one \ done)
        /\ left' = left - Cardinality(done)
        /\ overrun' = (overrun \/ Cardinality(waiting') >
                          said.queue + (IF now THEN 0 ELSE said.now) + Cardinality(N))
  BY DEF Run
<1>3. /\ fresh \in Nat /\ said.now = (IF fresh <= left THEN fresh ELSE left)
      /\ said.queue = Cardinality(waiting) + fresh - said.now /\ Cardinality(F) <= fresh
  BY <1>1, EstimateFacts
<1>4. one \subseteq F \cup N
  OBVIOUS
<1> HIDE DEF said, fresh
<1>5. done \subseteq one /\ Cardinality(done) = n
  BY <1>2 DEF kSubset
<1>6. F \subseteq RomFiles /\ one \subseteq RomFiles /\ N \subseteq RomFiles
  BY <1>1
<1> HIDE DEF new, one, F, N
<1>7. /\ IsFiniteSet(F) /\ IsFiniteSet(one) /\ IsFiniteSet(done) /\ IsFiniteSet(waiting)
      /\ IsFiniteSet(one \ done) /\ IsFiniteSet(N)
  BY <1>1, <1>5, <1>6, FS_Subset, FS_Difference
<1>8. /\ Cardinality(F) \in Nat /\ Cardinality(one) \in Nat /\ Cardinality(done) \in Nat
      /\ Cardinality(waiting) \in Nat /\ Cardinality(one \ done) \in Nat /\ Cardinality(N) \in Nat
  BY <1>7, FS_CardinalityType
<1>9. Cardinality(one \ done) = Cardinality(one) - Cardinality(done)
  <2>1. one \cap done = done
    BY <1>5
  <2> QED
    BY <1>7, <2>1, FS_Difference
<1> DEFINE rest == one \ done
<1>10. /\ Cardinality(waiting \cup (one \ done)) <= Cardinality(waiting) + Cardinality(one \ done)
       /\ Cardinality(waiting \cup (one \ done)) \in Nat
  <2>1. IsFiniteSet(waiting) /\ IsFiniteSet(rest) /\ Cardinality(rest) \in Nat
    BY <1>7, <1>8
  <2> HIDE DEF rest
  <2>2. IsFiniteSet(waiting \cap rest) /\ IsFiniteSet(waiting \cup rest)
    BY <2>1, FS_Intersection, FS_Union
  <2>3. Cardinality(waiting \cap rest) \in Nat /\ Cardinality(waiting \cup rest) \in Nat
    BY <2>2, FS_CardinalityType
  <2>4. Cardinality(waiting \cup rest) =
          Cardinality(waiting) + Cardinality(rest) - Cardinality(waiting \cap rest)
    BY <2>1, FS_Union
  <2>5. Cardinality(waiting \cup rest) <= Cardinality(waiting) + Cardinality(rest)
    BY <1>8, <2>1, <2>3, <2>4
  <2> QED
    BY <2>3, <2>5 DEF rest
<1>11. Cardinality(one) <= fresh + Cardinality(N)
  <2>1. /\ IsFiniteSet(F \cup N) /\ IsFiniteSet(F \cap N)
        /\ Cardinality(F \cup N) = Cardinality(F) + Cardinality(N) - Cardinality(F \cap N)
    BY <1>7, FS_Union, FS_Intersection
  <2>2. Cardinality(F \cap N) \in Nat /\ Cardinality(F \cup N) \in Nat
    BY <2>1, FS_CardinalityType
  <2>3. Cardinality(one) <= Cardinality(F \cup N)
    BY <1>4, <2>1, FS_Subset
  <2> QED
    BY <1>3, <1>8, <2>1, <2>2, <2>3
<1>12. n = IF now THEN (IF Cardinality(one) <= left THEN Cardinality(one) ELSE left) ELSE 0
  BY <1>1, <1>8, MinOfTwo
<1> HIDE DEF n
<1>13. Cardinality(done) <= left
  BY <1>1, <1>5, <1>8, <1>12
<1>14. ~(Cardinality(waiting') > said.queue + (IF now THEN 0 ELSE said.now) + Cardinality(N))
  <2>1. Cardinality(waiting') <= Cardinality(waiting) + Cardinality(one) - n
    BY <1>2, <1>5, <1>8, <1>9, <1>10
  <2>2. Cardinality(waiting') \in Nat
    BY <1>2, <1>10
  <2>3. CASE now
    BY <1>1, <1>3, <1>8, <1>11, <1>12, <2>1, <2>2, <2>3
  <2>4. CASE ~now
    BY <1>1, <1>3, <1>8, <1>11, <1>12, <2>1, <2>2, <2>4
  <2> QED
    BY <2>3, <2>4
<1>15. cachedFrom' \subseteq RomFiles /\ waiting' \subseteq RomFiles
  BY <1>1, <1>2, <1>5, <1>6
<1>16. left' \in 0..Limit
  BY <1>1, <1>2, <1>8, <1>13
<1>17. overrun' <=> overrun
  BY <1>2, <1>14
<1> QED
  BY <1>15, <1>16, <1>17

(* A list of members of S is one of members of a larger set.                 *)
LEMMA ListsMore ==
  ASSUME NEW T, NEW S \in SUBSET T, NEW s \in Seq(S)
  PROVE  s \in Seq(T)
<1>1. Len(s) \in Nat /\ s \in [1..Len(s) -> S]
  OBVIOUS
<1>2. s \in [1..Len(s) -> T]
  BY <1>1
<1> QED
  BY <1>1, <1>2

(* The parts that most steps leave alone.                                    *)
LEMMA SameEmulators ==
  ASSUME RecentInv, installed' = installed, stray' = stray, gamelist' = gamelist, RecentTypeOK'
  PROVE  RecentInv'
BY DEF RecentInv, known_cache_version

(* Before anything was played.                                               *)
LEMMA RecentInitInv ==
  ASSUME RecentInit
  PROVE  RecentInv /\ ~overrun
<1>1. RomFiles \in SUBSET Nat /\ RomFiles # {} /\ IsFiniteSet(RomFiles) /\ Limit \in Nat
  BY RecentAssumption, FS_CardinalityType
<1>2. Max(RomFiles) \in RomFiles
  <2>1. Cardinality(RomFiles) \in Nat /\ \A f \in RomFiles : f <= Cardinality(RomFiles)
    BY RecentAssumption, FS_CardinalityType
  <2> QED
    BY <1>1, <2>1, LargestFacts
<1>3. stray \in Seq(RomFiles)
  <2>1. <<Max(RomFiles)>> \in Seq(RomFiles) /\ <<>> \in Seq(RomFiles)
    BY <1>2
  <2> QED
    BY <2>1 DEF RecentInit
<1>4. MaxClock(installed) \in Nat
  BY RecentAssumption DEF RecentInit
<1>5. PICK current \in BOOLEAN : gamelist = [e \in Listing |->
       [signature |-> IF e = "pcsx2" THEN "GLCE" ELSE "HLCE",
        version |-> IF ~current THEN 0 ELSE IF e = "pcsx2" THEN 34 ELSE 41,
        entries |-> <<>>]]
  BY DEF RecentInit
<1>6. ASSUME NEW e \in Listing
      PROVE  /\ gamelist[e] \in [signature : {"GLCE", "HLCE"}, version : Int, entries : Seq(RomFiles)]
             /\ gamelist[e].version # 0 =>
                  /\ gamelist[e].signature = IF e = "pcsx2" THEN "GLCE" ELSE "HLCE"
                  /\ gamelist[e].version = IF e = "pcsx2" THEN 34 ELSE 41
  <2> DEFINE signature == IF e = "pcsx2" THEN "GLCE" ELSE "HLCE"
             right == IF e = "pcsx2" THEN 34 ELSE 41
             version == IF ~current THEN 0 ELSE right
  <2>1. gamelist[e] = [signature |-> signature, version |-> version, entries |-> <<>>]
    BY <1>5
  <2>2. signature \in {"GLCE", "HLCE"}
    OBVIOUS
  <2>3. version \in Int /\ (version # 0 => version = right)
    <3>1. right \in Int
      OBVIOUS
    <3> HIDE DEF right
    <3>2. CASE current
      BY <3>1, <3>2
    <3>3. CASE ~current
      BY <3>1, <3>3
    <3> QED
      BY <3>2, <3>3
  <2>4. <<>> \in Seq(RomFiles)
    OBVIOUS
  <2> HIDE DEF signature, version, right
  <2>5. /\ gamelist[e] \in [signature : {"GLCE", "HLCE"}, version : Int, entries : Seq(RomFiles)]
        /\ gamelist[e].version # 0 =>
             gamelist[e].signature = signature /\ gamelist[e].version = right
    BY <2>1, <2>2, <2>3, <2>4
  <2> QED
    BY <2>5 DEF signature, right
<1>7. /\ gamelist \in [Listing -> [signature : {"GLCE", "HLCE"}, version : Int, entries : Seq(RomFiles)]]
      /\ \A e \in Listing : gamelist[e].entries \in Seq(RomFiles)
  <2>1. gamelist = [e \in Listing |-> gamelist[e]]
    BY <1>5
  <2> QED
    BY <1>6, <2>1
<1>8. when \in [installed -> [RomFiles -> 0..MaxClock(installed)]]
  <2>1. [f \in RomFiles |-> 0] \in [RomFiles -> 0..MaxClock(installed)]
    BY <1>4
  <2> QED
    BY <2>1 DEF RecentInit
<1>9. RecentTypeOK
  BY <1>1, <1>4, <1>7, <1>8 DEF RecentInit, RecentTypeOK
<1> QED
  BY <1>3, <1>6, <1>7, <1>9 DEF RecentInv, RecentInit

(* A game is played, or time passes.                                         *)
LEMMA RecentTimeInv ==
  ASSUME RecentInv,
         (\E e \in installed, f \in RomFiles : Play(e, f)) \/ TimePasses
  PROVE  RecentInv'
<1>1. MaxClock(installed) \in Nat /\ clock + 1 \in 0..MaxClock(installed) /\ clock' = clock + 1
  BY RecentAssumption DEF RecentInv, RecentTypeOK, Play, TimePasses
<1>2. UNCHANGED <<installed, stray, there, gamelist, cachedFrom, waiting, left, screen, todo>>
  BY DEF Play, TimePasses, onDevice, games, menuSide
<1>3. when' \in [installed -> [RomFiles -> 0..MaxClock(installed)]]
  <2>1. CASE TimePasses
    BY <2>1 DEF TimePasses, RecentInv, RecentTypeOK
  <2>2. ASSUME NEW e \in installed, NEW f \in RomFiles, Play(e, f)
        PROVE  when' \in [installed -> [RomFiles -> 0..MaxClock(installed)]]
    <3>1. when \in [installed -> [RomFiles -> 0..MaxClock(installed)]]
      BY DEF RecentInv, RecentTypeOK
    <3>2. when' = [when EXCEPT ![e][f] = clock + 1]
      BY <2>2 DEF Play
    <3>3. [when[e] EXCEPT ![f] = clock + 1] \in [RomFiles -> 0..MaxClock(installed)]
      BY <1>1, <3>1
    <3> QED
      BY <3>1, <3>2, <3>3
  <2> QED
    BY <2>1, <2>2
<1>4. RecentTypeOK'
  BY <1>1, <1>2, <1>3 DEF RecentInv, RecentTypeOK
<1> QED
  BY <1>2, <1>4, SameEmulators

(* PCSX2 or DuckStation writes its list of games, or is cut short.           *)
LEMMA RecentListInv ==
  ASSUME RecentInv, NEW e \in installed \cap Listing, ListGames(e) \/ CutShort(e)
  PROVE  RecentInv'
<1>1. /\ there \in SUBSET RomFiles /\ RomFiles \in SUBSET Nat /\ IsFiniteSet(RomFiles)
      /\ gamelist[e].entries \in Seq(RomFiles)
      /\ gamelist \in [Listing -> [signature : {"GLCE", "HLCE"}, version : Int, entries : Seq(RomFiles)]]
  BY RecentAssumption, FS_CardinalityType DEF RecentInv, RecentTypeOK
<1>2. \A S \in SUBSET there : InOrder(S) \in Seq(RomFiles)
  <2> SUFFICES ASSUME NEW S \in SUBSET there PROVE InOrder(S) \in Seq(RomFiles)
    OBVIOUS
  <2>1. S \in SUBSET Nat /\ S \in SUBSET RomFiles
    BY <1>1
  <2>2. IsFiniteSet(S)
    BY <1>1, <2>1, FS_Subset
  <2> DEFINE list == InOrder(S)
  <2>3. list \in Seq(S)
    BY <2>1, <2>2, InOrderFacts
  <2> HIDE DEF list
  <2>4. list \in Seq(RomFiles)
    BY <2>1, <2>3, ListsMore
  <2> QED
    BY <2>4 DEF list
<1>3. \E list \in Seq(RomFiles) : gamelist' = [gamelist EXCEPT ![e].entries = list]
  <2>1. CASE CutShort(e)
    <3> DEFINE list == Front(gamelist[e].entries)
    <3>1. list \in Seq(RomFiles)
      <4>1. gamelist[e].entries # <<>>
        BY <2>1 DEF CutShort
      <4> QED
        BY <1>1, <4>1 DEF Front
    <3>2. gamelist' = [gamelist EXCEPT ![e].entries = list]
      BY <1>1, <2>1 DEF CutShort
    <3> QED
      BY <3>1, <3>2
  <2>2. CASE ListGames(e)
    <3> DEFINE listed == gamelist[e].entries
               new == InOrder(there \ Range(listed))
    <3>1. new \in Seq(RomFiles) /\ InOrder(there) \in Seq(RomFiles)
      BY <1>2
    <3>2. listed \o new \in Seq(RomFiles)
      BY <1>1, <3>1
    <3>3. \/ gamelist' = [gamelist EXCEPT ![e].entries = listed \o new]
          \/ gamelist' = [gamelist EXCEPT ![e].entries = InOrder(there)]
      BY <2>2 DEF ListGames
    <3> QED
      BY <3>1, <3>2, <3>3
  <2> QED
    BY <2>1, <2>2
<1>4. PICK list \in Seq(RomFiles) : gamelist' = [gamelist EXCEPT ![e].entries = list]
  BY <1>3
<1>5. /\ gamelist' \in [Listing -> [signature : {"GLCE", "HLCE"}, version : Int, entries : Seq(RomFiles)]]
      /\ \A d \in Listing : /\ gamelist'[d].version = gamelist[d].version
                            /\ gamelist'[d].signature = gamelist[d].signature
                            /\ gamelist'[d].entries \in Seq(RomFiles)
  BY <1>1, <1>4
<1>6. UNCHANGED <<installed, stray, there, when, clock, cachedFrom, waiting, left, screen, todo>>
  BY DEF ListGames, CutShort, onDevice, games, menuSide
<1>7. RecentTypeOK'
  BY <1>5, <1>6 DEF RecentInv, RecentTypeOK
<1> QED
  BY <1>5, <1>6, <1>7 DEF RecentInv

(* A run is started from the menu or confirmed.                              *)
LEMMA RecentRunInv ==
  ASSUME RecentInv, StartSmartCache \/ ConfirmRun
  PROVE  RecentInv' /\ (overrun' <=> overrun)
<1>1. UNCHANGED <<installed, stray, there, when, clock, gamelist>>
  BY DEF StartSmartCache, ConfirmRun, onDevice
<1>2. smart_cache_paths \in Seq(RomFiles) /\ todo \in Seq(RomFiles) /\ <<>> \in Seq(RomFiles)
  BY CandidatesType DEF RecentInv, RecentTypeOK
<1>3. /\ cachedFrom' \subseteq RomFiles /\ waiting' \subseteq RomFiles /\ left' \in 0..Limit
      /\ overrun' <=> overrun
      /\ screen' \in {"main", "confirm"} /\ todo' \in Seq(RomFiles)
  <2>1. CASE ConfirmRun
    <3>1. Run(todo, FALSE)
      BY <2>1 DEF ConfirmRun
    <3>2. screen' = "main" /\ todo' = <<>>
      BY <2>1 DEF ConfirmRun
    <3> QED
      BY <1>2, <3>1, <3>2, RunFits
  <2>2. CASE StartSmartCache
    <3> DEFINE paths == smart_cache_paths
    <3>1. \/ screen' = "confirm" /\ todo' = paths /\ UNCHANGED <<games, overrun>>
          \/ screen' = "main" /\ todo' = <<>> /\ Run(paths, TRUE)
      BY <2>2 DEF StartSmartCache
    <3> HIDE DEF paths
    <3>2. CASE screen' = "confirm" /\ todo' = paths /\ UNCHANGED <<games, overrun>>
      BY <1>2, <3>2 DEF RecentInv, RecentTypeOK, games, paths
    <3>3. CASE screen' = "main" /\ todo' = <<>> /\ Run(paths, TRUE)
      <4>1. paths \in Seq(RomFiles)
        BY <1>2 DEF paths
      <4> QED
        BY <1>2, <3>3, <4>1, RunFits
    <3> QED
      BY <3>1, <3>2, <3>3
  <2> QED
    BY <2>1, <2>2
<1>4. RecentTypeOK'
  BY <1>1, <1>3 DEF RecentInv, RecentTypeOK
<1> QED
  BY <1>1, <1>3, <1>4 DEF RecentInv

(* The other steps of the files, the menu and the service.                   *)
LEMMA RecentOtherInv ==
  ASSUME RecentInv,
         \/ \E f \in RomFiles : FileGoes(f) \/ FileComes(f)
         \/ OpenMenu \/ DismissPrompt \/ CancelRun
         \/ CacheOne \/ NewWindow \/ DropGame \/ clear_cached_games
  PROVE  RecentInv' /\ overrun' = overrun
<1>1. UNCHANGED <<installed, stray, when, clock, gamelist, overrun>>
  BY DEF FileGoes, FileComes, OpenMenu, DismissPrompt, CancelRun, CacheOne, NewWindow, DropGame,
         clear_cached_games, onDevice, games, menuSide
<1>2. RecentTypeOK /\ Limit \in Nat
  BY RecentAssumption DEF RecentInv
<1>3. RecentTypeOK'
  <2>1. CASE \E f \in RomFiles : FileGoes(f) \/ FileComes(f)
    BY <1>1, <1>2, <2>1 DEF FileGoes, FileComes, RecentTypeOK, games, menuSide
  <2>2. CASE OpenMenu \/ DismissPrompt \/ CancelRun
    <3>1. /\ screen' \in {"main", "prompt"} /\ (todo' = todo \/ todo' = <<>>)
          /\ UNCHANGED <<there, cachedFrom, waiting, left>>
      BY <2>2 DEF OpenMenu, DismissPrompt, CancelRun, games
    <3>2. todo' \in Seq(RomFiles)
      <4>1. <<>> \in Seq(RomFiles) /\ todo \in Seq(RomFiles)
        BY <1>2 DEF RecentTypeOK
      <4> QED
        BY <3>1, <4>1
    <3> QED
      BY <1>1, <1>2, <3>1, <3>2 DEF RecentTypeOK
  <2>3. CASE CacheOne
    BY <1>1, <1>2, <2>3 DEF CacheOne, RecentTypeOK, menuSide
  <2>4. CASE NewWindow \/ DropGame \/ clear_cached_games
    BY <1>1, <1>2, <2>4 DEF NewWindow, DropGame, clear_cached_games, RecentTypeOK, menuSide
  <2> QED
    BY <2>1, <2>2, <2>3, <2>4
<1> QED
  BY <1>1, <1>3, SameEmulators

(* Which steps run Smart Cache.                                              *)
LEMMA RecentStep ==
  ASSUME RecentInv, [RecentNext]_recentVars
  PROVE  RecentInv' /\ (overrun' <=> overrun)
<1>1. CASE StartSmartCache \/ ConfirmRun
  BY <1>1, RecentRunInv
<1>2. CASE (\E e \in installed, f \in RomFiles : Play(e, f)) \/ TimePasses
  <2>1. overrun' = overrun
    BY <1>2 DEF Play, TimePasses, menuSide
  <2> QED
    BY <1>2, <2>1, RecentTimeInv
<1>3. CASE \E e \in installed \cap Listing : ListGames(e) \/ CutShort(e)
  <2>1. overrun' = overrun
    BY <1>3 DEF ListGames, CutShort, menuSide
  <2> QED
    BY <1>3, <2>1, RecentListInv
<1>4. CASE \/ \E f \in RomFiles : FileGoes(f) \/ FileComes(f)
           \/ OpenMenu \/ DismissPrompt \/ CancelRun
           \/ CacheOne \/ NewWindow \/ DropGame \/ clear_cached_games
  BY <1>4, RecentOtherInv
<1>5. CASE UNCHANGED recentVars
  <2>1. UNCHANGED <<installed, stray, there, when, clock, gamelist, cachedFrom, waiting, left,
                    screen, todo, overrun>>
    BY <1>5 DEF recentVars
  <2>2. RecentTypeOK'
    BY <2>1 DEF RecentInv, RecentTypeOK
  <2> QED
    BY <2>1, <2>2, SameEmulators
<1> QED
  BY <1>1, <1>2, <1>3, <1>4, <1>5 DEF RecentNext

(* The types, and the lists of games are of a version that is read or not.   *)
LEMMA RecentInvariant == RecentSpec => []RecentInv
<1>1. RecentInit => RecentInv
  BY RecentInitInv
<1>2. RecentInv /\ [RecentNext]_recentVars => RecentInv'
  BY RecentStep
<1> QED
  BY <1>1, <1>2, PTL DEF RecentSpec

(* Smart Cache's state is what the model says it is.                         *)
THEOREM RecentTyped == RecentSpec => []RecentTypeOK
<1>1. RecentInv => RecentTypeOK
  BY DEF RecentInv
<1> QED
  BY <1>1, RecentInvariant, PTL

(* Smart Cache: a game that was played, whose file is there and can be told, *)
(* is among the candidates, once, each emulator's latest come first, and a   *)
(* run queues no more than the menu said and the new files the menu took for *)
(* known ones of the same folder and name.                                   *)
THEOREM PlayedGamesAreFound == RecentSpec => []RecentFound
<1>1. RecentInit => ~overrun
  BY RecentInitInv
<1>2. RecentInv /\ ~overrun /\ [RecentNext]_recentVars => ~overrun'
  BY RecentStep
<1>3. RecentInv /\ ~overrun => RecentFound
  BY RecentIsFound
<1> QED
  BY <1>1, <1>2, <1>3, RecentInvariant, PTL DEF RecentSpec
=============================================================================
