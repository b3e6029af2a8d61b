------------------------ MODULE AndroidAwardsProofs ------------------------
(***************************************************************************)
(* Theorems about AndroidAwards, for all requests, clocks and numbers of    *)
(* flushes at once: its types, and that the phone's queue implements        *)
(* AwardPromise request by request.                                        *)
(***************************************************************************)
EXTENDS AndroidAwards, SequenceTheorems, WellFoundedInduction, TLAPS

-----------------------------------------------------------------------------
(* The inductive invariant.                                                *)

Slots == PhoneRow \cup {Nothing}
Jobs == [pc : {"idle", "repair", "refresh", "send", "record", "purge"}, copy : Seq(Slots),
         todo : SUBSET Nat, missing : SUBSET Nat, answer : {"none", "flushed", "pending"}]
Holders == [sub : Earned, pc : {"unlocks", "head"}]
           \cup [sub : Earned, pc : {"write"}, row : PhoneRow]
Choices == [id : Nat, row : PhoneRow]

\* The row that a screen shows is, if it is still there, of the same request.
ChoiceFits(t, choice) ==
    choice = Nothing \/ (/\ choice \in Choices /\ choice.id \in DOMAIN t
                         /\ t[choice.id] # Nothing => t[choice.id].sub = choice.row.sub)

PhoneTyped ==
    /\ rows \in Seq(Slots)
    /\ unmade \subseteq Earned /\ asking \subseteq Earned /\ answered \subseteq Earned
    /\ accepted \subseteq Earned /\ givenUp \subseteq Earned /\ outdated \subseteq Earned
    /\ late \subseteq PhoneRow
    /\ holder = Nothing \/ holder \in Holders
    /\ job \in [Flushes -> Jobs]
    /\ ChoiceFits(rows, picked)
    /\ cached \subseteq Unlocked

\* What is about to be stored waits, and is the request it was built for.
NewRows ==
    /\ \A row \in late : row.status = "pending"
    /\ holder # Nothing /\ holder.pc = "write" =>
          holder.row.sub = holder.sub /\ holder.row.status = "pending"

\* A flush has copies of rows that waited; a row that is still there holds the same request.
FitsTable(t, copy) == \A i \in In(copy) :
    /\ copy[i].status = "pending"
    /\ i \in DOMAIN t
    /\ t[i] # Nothing => t[i].sub = copy[i].sub

\* The answer that a flush records is about the award that is due.
Had == {s \in Earned : Has(s)}
Recorded(had, j) ==
    j.pc = "record" => /\ j.answer \in {"flushed", "pending"}
                       /\ j.answer = "flushed" =>
                             \A i \in j.todo : Oldest(j.copy, j.todo, i) => j.copy[i].sub \in had

Fits(t, had, j) ==
    /\ FitsTable(t, j.copy) /\ Recorded(had, j)
    /\ j.todo \subseteq In(j.copy) /\ j.missing \subseteq In(j.copy)
    /\ j.pc = "idle" => j.todo = {} /\ j.missing = {}

JobsFit == \A f \in Flushes : Fits(rows, Had, job[f])

\* No promise is broken.
PromisesStand == answered \subseteq HeldByRow \cup ForPhone

PhoneInv == PhoneTyped /\ NewRows /\ JobsFit /\ PromisesStand

-----------------------------------------------------------------------------
(* Rows, and the last one of them.                                         *)

\* A set of natural numbers has a smallest element.
LEMMA SmallestIn ==
    ASSUME NEW S \in SUBSET Nat, S # {}
    PROVE  \E n \in S : \A m \in S : n <= m
<1>1. \E n \in S : \A m \in S : ~(<<m, n>> \in OpToRel(<, Nat))
  BY NatLessThanWellFounded, WFMin
<1>2. OpToRel(<, Nat) = {ss \in Nat \X Nat : ss[1] < ss[2]}
  BY Zenon DEF OpToRel
<1>3. \E n \in S : \A m \in S : ~(<<m, n>> \in {ss \in Nat \X Nat : ss[1] < ss[2]})
  BY <1>1, <1>2, Zenon
<1>4. \A m, n \in S : <<m, n>> \in {ss \in Nat \X Nat : ss[1] < ss[2]} <=> m < n
  OBVIOUS
<1>5. PICK n \in S : \A m \in S : ~(m < n)
  BY <1>3, <1>4, Zenon
<1>6. \A m \in S : n <= m
  BY <1>5
<1> QED
  BY <1>6

\* What is known of a row.
LEMMA RowKnown ==
    ASSUME NEW t \in Seq(Slots), NEW i \in In(t)
    PROVE  /\ i \in DOMAIN t /\ i \in 1..Len(t) /\ i \in Nat /\ Len(t) \in Nat
           /\ t[i] \in PhoneRow /\ t[i] # Nothing
           /\ t[i].queuedAt \in Nat /\ t[i].queuedAt \in Clock /\ t[i].sub \in Earned
<1>1. i \in 1..Len(t) /\ i \in Nat /\ i \in DOMAIN t /\ Len(t) \in Nat /\ t[i] # Nothing
  BY LenProperties DEF In
<1>2. t[i] \in PhoneRow
  BY <1>1, ElementOfSeq DEF Slots
<1>3. t[i].queuedAt \in Clock /\ t[i].sub \in Earned
  BY <1>2 DEF PhoneRow
<1> QED
  BY <1>1, <1>2, <1>3, PhoneAssumption

\* Some rows, if there are any, have a last one among them.
LEMMA LastOfRows ==
    ASSUME NEW t, NEW n \in Nat, NEW S \in SUBSET (1..n), S # {},
           \A i \in S : t[i].queuedAt \in Nat
    PROVE  \E i \in S : \A j \in S \ {i} : Precedes(t, j, i)
<1> DEFINE Upto(k) == S \cap 1..k
           Lasts(k) == \E i \in Upto(k) : \A j \in Upto(k) \ {i} : Precedes(t, j, i)
           Bad == {k \in 0..n : Upto(k) # {} /\ ~Lasts(k)}
<1>1. Bad = {}
  <2> SUFFICES ASSUME Bad # {} PROVE FALSE
    OBVIOUS
  <2>1. PICK k \in Bad : \A m \in Bad : k <= m
    BY SmallestIn, Bad \in SUBSET Nat, Bad # {}
  <2>2. k \in 1..n /\ Upto(k) # {} /\ ~Lasts(k)
    BY <2>1
  <2>3. Upto(k - 1) = {} \/ Lasts(k - 1)
    BY <2>1, <2>2
  <2>4. Upto(k) \subseteq Upto(k - 1) \cup {k}
    BY <2>2
  <2>5. k \in S
    BY <2>2, <2>3, <2>4
  <2>6. CASE Upto(k - 1) = {}
    BY <2>2, <2>4, <2>5, <2>6
  <2>7. CASE Lasts(k - 1)
    <3>1. PICK i \in Upto(k - 1) : \A j \in Upto(k - 1) \ {i} : Precedes(t, j, i)
      BY <2>7
    <3>2. i \in Upto(k) /\ k \in Upto(k) /\ i < k
      BY <2>2, <2>5, <3>1
    <3>3. t[i].queuedAt \in Nat /\ t[k].queuedAt \in Nat
      BY <2>5, <3>1
    <3>4. CASE t[i].queuedAt <= t[k].queuedAt
      <4>1. \A j \in Upto(k) \ {k} : Precedes(t, j, k)
        BY <2>4, <3>1, <3>2, <3>3, <3>4 DEF Precedes
      <4> QED
        BY <2>2, <3>2, <4>1
    <3>5. CASE t[k].queuedAt < t[i].queuedAt
      <4>1. \A j \in Upto(k) \ {i} : Precedes(t, j, i)
        BY <2>4, <3>1, <3>5 DEF Precedes
      <4> QED
        BY <2>2, <3>2, <4>1
    <3> QED
      BY <3>3, <3>4, <3>5
  <2> QED
    BY <2>3, <2>6, <2>7
<1>2. Upto(n) = S
  OBVIOUS
<1>3. n \notin Bad
  BY <1>1
<1> QED
  BY <1>2, <1>3

\* The head of a chain is a hash.
LEMMA HeadTyped ==
    ASSUME NEW t \in Seq(Slots), NEW S \in SUBSET In(t)
    PROVE  HeadOf(t, S) \in (Earned \X Clock) \cup {ChainStart}
<1>1. CASE S = {}
  BY <1>1 DEF HeadOf
<1>2. CASE S # {}
  <2>1. S \subseteq 1..Len(t) /\ Len(t) \in Nat
    BY LenProperties DEF In
  <2>2. \A i \in S : t[i].queuedAt \in Nat /\ t[i].queuedAt \in Clock /\ t[i].sub \in Earned
    BY RowKnown
  <2>3. \E i \in S : \A j \in S \ {i} : Precedes(t, j, i)
    BY <1>2, <2>1, <2>2, LastOfRows
  <2> DEFINE last == CHOOSE i \in S : \A j \in S \ {i} : Precedes(t, j, i)
  <2>4. last \in S
    BY <2>3
  <2> QED
    BY <1>2, <2>2, <2>4 DEF HeadOf, HashOf
<1> QED
  BY <1>1, <1>2

\* The first one of some rows is one row.
LEMMA OneOldest ==
    ASSUME NEW t \in Seq(Slots), NEW S \in SUBSET In(t), NEW i, NEW j,
           Oldest(t, S, i), Oldest(t, S, j)
    PROVE  i = j
<1> SUFFICES ASSUME i # j PROVE FALSE
  OBVIOUS
<1>1. i \in S /\ j \in S /\ Precedes(t, i, j) /\ Precedes(t, j, i)
  BY DEF Oldest
<1>2. t[i].queuedAt \in Nat /\ t[j].queuedAt \in Nat /\ i \in Nat /\ j \in Nat
  BY <1>1, RowKnown
<1> QED
  BY <1>1, <1>2 DEF Precedes

-----------------------------------------------------------------------------
(* What a write does to the table.                                         *)

Waits(t) == AllByStatus(t, "pending")
Waiting(t) == {t[i].sub : i \in Waits(t)}

\* Rows stay what they are, or leave.
SubsStay == \A i \in DOMAIN rows :
    i \in DOMAIN rows' /\ (rows'[i] # Nothing => rows[i] # Nothing /\ rows'[i].sub = rows[i].sub)

LEMMA AppendFacts ==
    ASSUME rows \in Seq(Slots), NEW row \in PhoneRow, rows' = Append(rows, row)
    PROVE  /\ rows' \in Seq(Slots) /\ SubsStay
           /\ row.status = "pending" => Waiting(rows') = Waiting(rows) \cup {row.sub}
<1> DEFINE n == Len(rows) + 1
<1>1. rows' \in Seq(Slots) /\ Len(rows') = n /\ Len(rows) \in Nat
  BY LenProperties DEF Slots
<1>2. /\ \A i \in 1..Len(rows) : rows'[i] = rows[i]
      /\ rows'[n] = row
  OBVIOUS
<1>3. DOMAIN rows = 1..Len(rows) /\ DOMAIN rows' = 1..n
  BY <1>1, LenProperties
<1>4. DOMAIN rows' = DOMAIN rows \cup {n} /\ n \notin DOMAIN rows
  BY <1>1, <1>3
<1>5. \A i \in DOMAIN rows : rows'[i] = rows[i]
  BY <1>2, <1>3
<1>6. SubsStay
  BY <1>4, <1>5 DEF SubsStay
<1>7. ASSUME row.status = "pending"
      PROVE  Waiting(rows') = Waiting(rows) \cup {row.sub}
  <2>1. row # Nothing
    BY PhoneAssumption
  <2>2. Waits(rows') = Waits(rows) \cup {n}
    BY <1>2, <1>4, <1>5, <1>7, <2>1 DEF Waits, AllByStatus, In
  <2>3. Waits(rows) \subseteq DOMAIN rows
    BY DEF Waits, AllByStatus, In
  <2> QED
    BY <1>2, <1>5, <2>2, <2>3 DEF Waiting
<1> QED
  BY <1>1, <1>6, <1>7

LEMMA UpdateFacts ==
    ASSUME rows \in Seq(Slots), NEW i \in DOMAIN rows, NEW row \in PhoneRow,
           rows' = Update(i, row)
    PROVE  /\ rows' \in Seq(Slots) /\ DOMAIN rows' = DOMAIN rows
           /\ rows[i] = Nothing => rows' = rows
           /\ rows[i] # Nothing => rows'[i] = row
           /\ \A j \in DOMAIN rows \ {i} : rows'[j] = rows[j]
<1>1. i \in 1..Len(rows) /\ row \in Slots
  BY LenProperties DEF Slots
<1>2. CASE rows[i] = Nothing
  BY <1>2 DEF Update
<1>3. CASE rows[i] # Nothing
  <2>1. rows' = [rows EXCEPT ![i] = row]
    BY <1>3 DEF Update
  <2>2. rows' \in Seq(Slots) /\ DOMAIN rows' = DOMAIN rows
    BY <1>1, <2>1, ExceptSeq
  <2> QED
    BY <1>3, <2>1, <2>2
<1> QED
  BY <1>2, <1>3

\* A row that is written back to wait: nothing that waits is lost.
LEMMA WaitsAgain ==
    ASSUME rows \in Seq(Slots), NEW i \in DOMAIN rows, NEW row \in PhoneRow,
           rows' = Update(i, row), row.status = "pending",
           rows[i] # Nothing => rows[i].sub = row.sub
    PROVE  /\ SubsStay
           /\ Waiting(rows') = Waiting(rows) \/ Waiting(rows') = Waiting(rows) \cup {row.sub}
<1>1. CASE rows[i] = Nothing
  BY <1>1, UpdateFacts DEF SubsStay
<1>2. CASE rows[i] # Nothing
  <2>1. /\ DOMAIN rows' = DOMAIN rows /\ rows'[i] = row
        /\ \A j \in DOMAIN rows \ {i} : rows'[j] = rows[j]
    BY <1>2, UpdateFacts
  <2>2. row # Nothing
    BY PhoneAssumption
  <2>3. \A j \in DOMAIN rows : rows'[j] # Nothing => rows[j] # Nothing /\ rows'[j].sub = rows[j].sub
    BY <1>2, <2>1
  <2>4. SubsStay
    BY <2>1, <2>3 DEF SubsStay
  <2>5. Waits(rows') = Waits(rows) \cup {i}
    BY <1>2, <2>1, <2>2 DEF Waits, AllByStatus, In
  <2>6. \A j \in Waits(rows) \cup {i} : rows'[j].sub = rows[j].sub
    BY <1>2, <2>1, <2>2, <2>3 DEF Waits, AllByStatus, In
  <2>7. Waiting(rows') = {rows[j].sub : j \in Waits(rows) \cup {i}}
    BY <2>5, <2>6 DEF Waiting
  <2> QED
    BY <1>2, <2>4, <2>7 DEF Waiting
<1> QED
  BY <1>1, <1>2

\* A row that stops waiting: only what it alone waited for is lost.
LEMMA WaitsNoMore ==
    ASSUME rows \in Seq(Slots), NEW i \in DOMAIN rows, NEW row \in PhoneRow,
           rows' = Update(i, row), row.status # "pending",
           rows[i] # Nothing => rows[i].sub = row.sub
    PROVE  /\ SubsStay
           /\ Waiting(rows') \subseteq Waiting(rows)
           /\ rows[i] = Nothing => Waiting(rows') = Waiting(rows)
           /\ rows[i] # Nothing => Waiting(rows') = {rows[j].sub : j \in Waits(rows) \ {i}}
<1>1. CASE rows[i] = Nothing
  BY <1>1, UpdateFacts DEF SubsStay
<1>2. CASE rows[i] # Nothing
  <2>1. /\ DOMAIN rows' = DOMAIN rows /\ rows'[i] = row
        /\ \A j \in DOMAIN rows \ {i} : rows'[j] = rows[j]
    BY <1>2, UpdateFacts
  <2>2. SubsStay
    BY <1>2, <2>1 DEF SubsStay
  <2>3. Waits(rows') = Waits(rows) \ {i}
    BY <2>1 DEF Waits, AllByStatus, In
  <2>4. Waits(rows) \subseteq DOMAIN rows
    BY DEF Waits, AllByStatus, In
  <2>5. \A j \in Waits(rows) \ {i} : rows'[j] = rows[j]
    BY <2>1, <2>4
  <2>6. Waiting(rows') = {rows[j].sub : j \in Waits(rows) \ {i}}
    BY <2>3, <2>5 DEF Waiting
  <2> QED
    BY <1>2, <2>2, <2>6 DEF Waiting
<1> QED
  BY <1>1, <1>2

-----------------------------------------------------------------------------
(* What a step may do to the promises.                                     *)

PromiseStep == PhonePromise!PromiseNext \/ UNCHANGED PhonePromise!promiseVars

\* What is held is what waits, and whatever was answered for an award that waits.
LEMMA HeldIs ==
    HeldByRow = {s \in answered \cup Waiting(rows) : \E r \in Waiting(rows) : KeyOf[r] = KeyOf[s]}
BY DEF HeldByRow, Waiting, Waits, IsWaiting

\* ... and so it is after a step.
LEMMA HeldWillBe ==
    HeldByRow' = {s \in answered' \cup Waiting(rows') : \E r \in Waiting(rows') : KeyOf[r] = KeyOf[s]}
BY DEF HeldByRow, Waiting, Waits, IsWaiting

\* A step of the promise, or none, breaks no promise.
LEMMA PromiseStepStands ==
    ASSUME PromisesStand, PromiseStep
    PROVE  PromisesStand'
<1>1. CASE UNCHANGED PhonePromise!promiseVars
  <2>1. /\ answered' = answered /\ ForPhone' = ForPhone
        /\ HeldByRow' \ ForPhone' = HeldByRow \ ForPhone
    BY <1>1 DEF PhonePromise!promiseVars
  <2> QED
    BY <2>1 DEF PromisesStand
<1>2. ASSUME NEW k \in Earned, PhonePromise!Keep(k)
      PROVE  PromisesStand'
  <2>1. /\ HeldByRow' \ ForPhone' = (HeldByRow \ ForPhone) \cup {k}
        /\ answered' = answered \/ answered' = answered \cup {k}
        /\ ForPhone' = ForPhone
    BY <1>2 DEF PhonePromise!Keep
  <2> QED
    BY <2>1 DEF PromisesStand
<1>3. ASSUME NEW k \in Earned, PhonePromise!Confirm(k)
      PROVE  PromisesStand'
  <2>1. /\ HeldByRow' \ ForPhone' = HeldByRow \ ForPhone
        /\ answered' = answered \cup {k} /\ ForPhone' = ForPhone
        /\ k \in HeldByRow \cup ForPhone
    BY <1>3 DEF PhonePromise!Confirm
  <2> QED
    BY <2>1 DEF PromisesStand
<1>4. ASSUME NEW S \in SUBSET Earned, PhonePromise!Settle(S)
      PROVE  PromisesStand'
  <2>1. /\ answered' = answered /\ ForPhone' = ForPhone \cup S
        /\ (HeldByRow \ ForPhone) \ (HeldByRow' \ ForPhone') \subseteq ForPhone'
    BY <1>4 DEF PhonePromise!Settle
  <2> QED
    BY <2>1 DEF PromisesStand
<1> QED
  BY <1>1, <1>2, <1>3, <1>4 DEF PromiseStep, PhonePromise!PromiseNext

\* A request for what waits or needs no row any more is answered.
LEMMA AnsweringPromises ==
    ASSUME PromisesStand, NEW s \in Earned, Waiting(rows') = Waiting(rows), ForPhone' = ForPhone,
           answered' = answered \cup {s},
           s \in ForPhone \/ \E r \in Waiting(rows) : KeyOf[r] = KeyOf[s]
    PROVE  PromiseStep
<1>1. HeldByRow' = HeldByRow \/ HeldByRow' = HeldByRow \cup {s}
  BY HeldIs, HeldWillBe
<1>2. CASE s \in ForPhone
  <2>1. PhonePromise!Confirm(s)
    BY <1>1, <1>2 DEF PhonePromise!Confirm
  <2> QED
    BY <2>1 DEF PromiseStep, PhonePromise!PromiseNext
<1>3. CASE s \notin ForPhone
  <2>1. HeldByRow' = HeldByRow \cup {s}
    BY <1>3, HeldIs, HeldWillBe
  <2>2. PhonePromise!Keep(s)
    BY <1>3, <2>1 DEF PhonePromise!Keep
  <2> QED
    BY <2>2 DEF PromiseStep, PhonePromise!PromiseNext
<1> QED
  BY <1>2, <1>3

\* An award begins to wait, or does so already.
LEMMA KeepingPromises ==
    ASSUME PromisesStand, NEW s \in Earned, ForPhone' = ForPhone,
           Waiting(rows') = Waiting(rows) \cup {s},
           answered' = answered \/ answered' = answered \cup {s}
    PROVE  PromiseStep
<1>1. HeldByRow' \subseteq HeldByRow \cup {s} \cup ForPhone
  BY HeldIs, HeldWillBe DEF PromisesStand
<1>2. HeldByRow \cup {s} \subseteq HeldByRow'
  BY HeldIs, HeldWillBe
<1>3. CASE s \in ForPhone
  <2>1. HeldByRow' \ ForPhone' = HeldByRow \ ForPhone
    BY <1>1, <1>2, <1>3
  <2>2. CASE answered' = answered
    <3>1. UNCHANGED PhonePromise!promiseVars
      BY <2>1, <2>2 DEF PhonePromise!promiseVars
    <3> QED
      BY <3>1 DEF PromiseStep
  <2>3. CASE answered' = answered \cup {s}
    <3>1. PhonePromise!Confirm(s)
      BY <1>3, <2>1, <2>3 DEF PhonePromise!Confirm
    <3> QED
      BY <3>1 DEF PromiseStep, PhonePromise!PromiseNext
  <2> QED
    BY <2>2, <2>3
<1>4. CASE s \notin ForPhone
  <2>1. HeldByRow' \ ForPhone' = (HeldByRow \ ForPhone) \cup {s}
    BY <1>1, <1>2, <1>4
  <2>2. PhonePromise!Keep(s)
    BY <2>1 DEF PhonePromise!Keep
  <2> QED
    BY <2>2 DEF PromiseStep, PhonePromise!PromiseNext
<1> QED
  BY <1>3, <1>4

\* Awards settle, and only those stop waiting.
LEMMA SettlingPromises ==
    ASSUME answered' = answered, Waiting(rows') \subseteq Waiting(rows),
           ForPhone \subseteq ForPhone', ForPhone' \subseteq Earned,
           HeldByRow \ HeldByRow' \subseteq ForPhone'
    PROVE  PromiseStep
<1>1. HeldByRow' \subseteq HeldByRow
  BY HeldIs, HeldWillBe
<1>2. PhonePromise!Settle(ForPhone')
  BY <1>1 DEF PhonePromise!Settle
<1> QED
  BY <1>2 DEF PromiseStep, PhonePromise!PromiseNext

\* A step that changes nothing of it.
LEMMA NothingPromised ==
    ASSUME answered' = answered, Waiting(rows') = Waiting(rows), ForPhone' = ForPhone
    PROVE  PromiseStep
<1>1. HeldByRow' = HeldByRow
  BY HeldIs, HeldWillBe
<1>2. UNCHANGED PhonePromise!promiseVars
  BY <1>1 DEF PhonePromise!promiseVars
<1> QED
  BY <1>2 DEF PromiseStep

\* What needs no row is about the requests, and stays so.
LEMMA ForPhoneTyped ==
    ASSUME givenUp \subseteq Earned, outdated \subseteq Earned
    PROVE  ForPhone \subseteq Earned
BY DEF ForPhone

LEMMA ForPhoneGrows ==
    ASSUME accepted \subseteq accepted', givenUp \subseteq givenUp', outdated \subseteq outdated'
    PROVE  ForPhone \subseteq ForPhone'
BY DEF ForPhone, Has

LEMMA ForPhoneSame ==
    ASSUME UNCHANGED <<accepted, givenUp, outdated>>
    PROVE  ForPhone' = ForPhone
BY DEF ForPhone, Has

-----------------------------------------------------------------------------
(* What a step leaves alone.                                               *)

LEMMA HadGrows ==
    ASSUME accepted \subseteq accepted'
    PROVE  Had \subseteq Had' /\ Unlocked \subseteq Unlocked'
BY DEF Had, Has, Unlocked

LEMMA RowsRest ==
    ASSUME rows' = rows
    PROVE  SubsStay /\ Waiting(rows') = Waiting(rows)
BY DEF SubsStay

LEMMA FitsStill ==
    ASSUME SubsStay, Had \subseteq Had', NEW j, Fits(rows, Had, j)
    PROVE  Fits(rows', Had', j)
<1>1. FitsTable(rows', j.copy)
  BY DEF Fits, FitsTable, SubsStay
<1>2. Recorded(Had', j)
  BY DEF Fits, Recorded
<1> QED
  BY <1>1, <1>2 DEF Fits

LEMMA JobsRest ==
    ASSUME JobsFit, SubsStay, accepted \subseteq accepted', job' = job
    PROVE  JobsFit'
BY HadGrows, FitsStill DEF JobsFit

LEMMA OneJob ==
    ASSUME PhoneTyped, JobsFit, SubsStay, accepted \subseteq accepted', NEW f \in Flushes,
           NEW j \in Jobs, job' = [job EXCEPT ![f] = j], Fits(rows', Had', j)
    PROVE  job' \in [Flushes -> Jobs] /\ JobsFit'
<1>1. job \in [Flushes -> Jobs]
  BY DEF PhoneTyped
<1>2. job' \in [Flushes -> Jobs] /\ job'[f] = j /\ \A g \in Flushes \ {f} : job'[g] = job[g]
  BY <1>1
<1>3. \A g \in Flushes \ {f} : Fits(rows', Had', job[g])
  BY HadGrows, FitsStill DEF JobsFit
<1> QED
  BY <1>2, <1>3 DEF JobsFit

LEMMA ChoiceRests ==
    ASSUME ChoiceFits(rows, picked), SubsStay
    PROVE  ChoiceFits(rows', picked)
BY DEF SubsStay, ChoiceFits

\* The invariant of the next state, from its parts.
LEMMA PhoneFromParts ==
    ASSUME PhoneInv, rows' \in Seq(Slots), SubsStay, accepted \subseteq accepted',
           unmade' \subseteq Earned, asking' \subseteq Earned, answered' \subseteq Earned,
           accepted' \subseteq Earned, givenUp' \subseteq Earned, outdated' \subseteq Earned,
           late' \subseteq PhoneRow, holder' = Nothing \/ holder' \in Holders,
           job' = job \/ (job' \in [Flushes -> Jobs] /\ JobsFit'),
           picked' = picked \/ ChoiceFits(rows', picked'),
           cached' \subseteq Unlocked \/ cached' \subseteq Unlocked',
           NewRows', PromiseStep
    PROVE  PhoneInv'
<1>1. job' \in [Flushes -> Jobs] /\ JobsFit'
  BY JobsRest DEF PhoneInv, PhoneTyped
<1>2. ChoiceFits(rows', picked')
  BY ChoiceRests DEF PhoneInv, PhoneTyped
<1>3. cached' \subseteq Unlocked'
  BY HadGrows
<1>4. PromisesStand'
  BY PromiseStepStands DEF PhoneInv
<1> QED
  BY <1>1, <1>2, <1>3, <1>4 DEF PhoneInv, PhoneTyped

-----------------------------------------------------------------------------
(* Requests.                                                               *)

LEMMA ForwardInv ==
    ASSUME PhoneInv, NEW s \in Earned, PhoneForward(s) \/ PhoneFallsBack(s)
    PROVE  PhoneInv' /\ PromiseStep
<1>1. /\ UNCHANGED <<rows, holder, late, answered, job, screenVars, cached, outdated>>
      /\ accepted' \in {accepted, accepted \cup {s}}
      /\ unmade' \subseteq unmade /\ asking' \subseteq asking \cup {s}
  BY DEF PhoneForward, PhoneFallsBack
<1>2. accepted \subseteq accepted' /\ accepted' \subseteq Earned
  BY <1>1 DEF PhoneInv, PhoneTyped
<1>3. ForPhone \subseteq ForPhone' /\ ForPhone' \subseteq Earned /\ HeldByRow' = HeldByRow
  <2>1. UNCHANGED <<rows, answered, givenUp, outdated>>
    BY <1>1 DEF screenVars
  <2>2. ForPhone \subseteq ForPhone'
    BY <1>2, <2>1, ForPhoneGrows
  <2>3. ForPhone' \subseteq Earned
    BY <2>1 DEF ForPhone, PhoneInv, PhoneTyped
  <2> QED
    BY <2>1, <2>2, <2>3, HeldIs, HeldWillBe
<1>4. PromiseStep
  BY <1>1, <1>3, SettlingPromises, RowsRest
<1>5. NewRows'
  BY <1>1 DEF PhoneInv, NewRows
<1>6. PhoneInv'
  BY <1>1, <1>2, <1>4, <1>5, RowsRest, PhoneFromParts DEF PhoneInv, PhoneTyped, screenVars
<1> QED
  BY <1>4, <1>6

LEMMA TakeRequestInv ==
    ASSUME PhoneInv, NEW s \in Earned, TakeRequest(s)
    PROVE  PhoneInv' /\ PromiseStep
<1>1. /\ UNCHANGED <<rows, unmade, late, job, screenVars, cached, accepted, outdated>>
      /\ asking' \subseteq asking
  BY DEF TakeRequest
<1>2. \/ answered' = answered \cup {s} /\ AlreadyQueued(s) /\ UNCHANGED holder
      \/ answered' = answered /\ \E pc \in {"unlocks", "head"} : holder' = [sub |-> s, pc |-> pc]
  BY DEF TakeRequest
<1>3. ForPhone' = ForPhone /\ Waiting(rows') = Waiting(rows)
  BY <1>1, ForPhoneSame, RowsRest DEF screenVars
<1>4. PromiseStep
  <2>1. CASE answered' = answered \cup {s} /\ AlreadyQueued(s)
    <3>1. \E r \in Waiting(rows) : KeyOf[r] = KeyOf[s]
      BY <2>1 DEF AlreadyQueued, IsWaiting, Waiting, Waits
    <3> QED
      BY <1>3, <2>1, <3>1, AnsweringPromises DEF PhoneInv
  <2>2. CASE answered' = answered
    BY <1>3, <2>2, NothingPromised
  <2> QED
    BY <1>2, <2>1, <2>2
<1>5. holder' = holder \/ (holder' \in Holders /\ holder'.pc # "write")
  BY <1>2 DEF Holders
<1>6. NewRows'
  BY <1>1, <1>5 DEF PhoneInv, NewRows
<1>7. PhoneInv'
  BY <1>1, <1>2, <1>4, <1>5, <1>6, RowsRest, PhoneFromParts DEF PhoneInv, PhoneTyped, screenVars
<1> QED
  BY <1>4, <1>7

LEMMA LookAtUnlocksInv ==
    ASSUME PhoneInv, LookAtUnlocks
    PROVE  PhoneInv' /\ PromiseStep
<1>1. UNCHANGED <<rows, unmade, asking, late, job, screenVars, cached, accepted, outdated>>
  BY DEF LookAtUnlocks
<1>2. holder # Nothing /\ holder \in Holders /\ holder.pc = "unlocks" /\ holder.sub \in Earned
  BY DEF LookAtUnlocks, PhoneInv, PhoneTyped, Holders
<1>3. \/ /\ answered' = answered \cup {holder.sub} /\ holder' = Nothing
         /\ KeyOf[holder.sub] \in cached
      \/ answered' = answered /\ holder' = [holder EXCEPT !.pc = "head"]
  BY DEF LookAtUnlocks
<1>4. ForPhone' = ForPhone /\ Waiting(rows') = Waiting(rows)
  BY <1>1, ForPhoneSame, RowsRest DEF screenVars
<1>5. PromiseStep
  <2>1. CASE answered' = answered \cup {holder.sub} /\ KeyOf[holder.sub] \in cached
    <3>1. holder.sub \in ForPhone
      BY <1>2, <2>1 DEF PhoneInv, PhoneTyped, Unlocked, ForPhone, Has
    <3> QED
      BY <1>2, <1>4, <2>1, <3>1, AnsweringPromises DEF PhoneInv
  <2>2. CASE answered' = answered
    BY <1>4, <2>2, NothingPromised
  <2> QED
    BY <1>3, <2>1, <2>2
<1>6. holder' = Nothing \/ (holder' \in Holders /\ holder'.pc = "head")
  <2>1. ASSUME holder' = [holder EXCEPT !.pc = "head"]
        PROVE  holder' \in Holders /\ holder'.pc = "head"
    <3>1. holder \in [sub : Earned, pc : {"unlocks", "head"}]
      BY <1>2 DEF Holders
    <3> QED
      BY <2>1, <3>1 DEF Holders
  <2> QED
    BY <1>3, <2>1
<1>7. NewRows'
  BY <1>1, <1>6 DEF PhoneInv, NewRows
<1>8. PhoneInv'
  BY <1>1, <1>2, <1>3, <1>5, <1>6, <1>7, RowsRest, PhoneFromParts DEF PhoneInv, PhoneTyped, screenVars
<1> QED
  BY <1>5, <1>8

LEMMA BuildAwardInv ==
    ASSUME PhoneInv, BuildAward
    PROVE  PhoneInv' /\ PromiseStep
<1>1. UNCHANGED <<rows, unmade, asking, late, answered, job, screenVars, cached, accepted, outdated>>
  BY DEF BuildAward
<1>2. holder # Nothing /\ holder.sub \in Earned
  BY DEF BuildAward, PhoneInv, PhoneTyped, Holders
<1>3. PICK at \in Clock, prev \in {ChainStart, HeadOf(rows, AllByStatus(rows, "pending"))} :
        holder' = [sub |-> holder.sub, pc |-> "write", row |-> NewAward(holder.sub, at, prev)]
  BY DEF BuildAward
<1>4. prev \in (Earned \X Clock) \cup {ChainStart}
  <2>1. AllByStatus(rows, "pending") \subseteq In(rows) /\ rows \in Seq(Slots)
    BY DEF AllByStatus, PhoneInv, PhoneTyped
  <2> QED
    BY <1>3, <2>1, HeadTyped
<1>5. NewAward(holder.sub, at, prev) \in PhoneRow
  BY <1>2, <1>4 DEF NewAward, PhoneRow
<1>6. holder' \in Holders /\ holder'.sub = holder.sub /\ holder'.row = NewAward(holder.sub, at, prev)
  BY <1>2, <1>3, <1>5 DEF Holders
<1>7. NewRows'
  BY <1>1, <1>6 DEF PhoneInv, NewRows, NewAward
<1>8. PromiseStep
  BY <1>1, ForPhoneSame, RowsRest, NothingPromised DEF screenVars
<1>9. PhoneInv'
  BY <1>1, <1>6, <1>7, <1>8, RowsRest, PhoneFromParts DEF PhoneInv, PhoneTyped, screenVars
<1> QED
  BY <1>8, <1>9

LEMMA WriteAwardInv ==
    ASSUME PhoneInv, WriteAward
    PROVE  PhoneInv' /\ PromiseStep
<1>1. UNCHANGED <<unmade, asking, job, screenVars, cached, accepted, outdated>> /\ holder' = Nothing
  BY DEF WriteAward
<1>2. /\ holder.sub \in Earned /\ holder.row \in PhoneRow
      /\ holder.row.sub = holder.sub /\ holder.row.status = "pending"
  BY DEF WriteAward, PhoneInv, PhoneTyped, NewRows, Holders
<1>3. ForPhone' = ForPhone
  BY <1>1, ForPhoneSame DEF screenVars
<1>4. CASE rows' = Append(rows, holder.row) /\ answered' = answered \cup {holder.sub} /\ late' = late
  <2>1. /\ rows' \in Seq(Slots) /\ SubsStay
        /\ Waiting(rows') = Waiting(rows) \cup {holder.sub}
    BY <1>2, <1>4, AppendFacts DEF PhoneInv, PhoneTyped
  <2>2. PromiseStep
    BY <1>2, <1>3, <1>4, <2>1, KeepingPromises DEF PhoneInv
  <2>3. NewRows'
    BY <1>1, <1>4 DEF PhoneInv, NewRows
  <2>4. PhoneInv'
    BY <1>1, <1>2, <1>4, <2>1, <2>2, <2>3, PhoneFromParts DEF PhoneInv, PhoneTyped, screenVars
  <2> QED
    BY <2>2, <2>4
<1>5. CASE late' \in {late, late \cup {holder.row}} /\ UNCHANGED <<rows, answered>>
  <2>1. PromiseStep
    BY <1>3, <1>5, RowsRest, NothingPromised
  <2>2. NewRows'
    BY <1>1, <1>2, <1>5 DEF PhoneInv, NewRows
  <2>3. PhoneInv'
    BY <1>1, <1>2, <1>5, <2>1, <2>2, RowsRest, PhoneFromParts DEF PhoneInv, PhoneTyped, screenVars
  <2> QED
    BY <2>1, <2>3
<1> QED
  BY <1>4, <1>5 DEF WriteAward

LEMMA LateWriteInv ==
    ASSUME PhoneInv, LateWrite
    PROVE  PhoneInv' /\ PromiseStep
<1>1. UNCHANGED <<unmade, asking, holder, answered, job, screenVars, cached, accepted, outdated>>
  BY DEF LateWrite
<1>2. PICK row \in late : rows' = Append(rows, row) /\ late' = late \ {row}
  BY DEF LateWrite
<1>3. row \in PhoneRow /\ row.status = "pending" /\ row.sub \in Earned
  BY <1>2 DEF PhoneInv, PhoneTyped, NewRows, PhoneRow
<1>4. rows' \in Seq(Slots) /\ SubsStay /\ Waiting(rows') = Waiting(rows) \cup {row.sub}
  BY <1>2, <1>3, AppendFacts DEF PhoneInv, PhoneTyped
<1>5. PromiseStep
  BY <1>1, <1>3, <1>4, ForPhoneSame, KeepingPromises DEF PhoneInv, screenVars
<1>6. NewRows'
  BY <1>1, <1>2 DEF PhoneInv, NewRows
<1>7. PhoneInv'
  BY <1>1, <1>2, <1>4, <1>5, <1>6, PhoneFromParts DEF PhoneInv, PhoneTyped, screenVars
<1> QED
  BY <1>5, <1>7

LEMMA RequestingInv ==
    ASSUME PhoneInv, Requesting
    PROVE  PhoneInv' /\ PromiseStep
<1>1. ASSUME CacheUnlocks PROVE PhoneInv' /\ PromiseStep
  <2>1. UNCHANGED <<rows, askVars, job, screenVars, accepted, outdated>> /\ cached' \subseteq Unlocked
    BY <1>1 DEF CacheUnlocks
  <2>2. PromiseStep
    BY <2>1, ForPhoneSame, RowsRest, NothingPromised DEF screenVars, askVars
  <2>3. NewRows'
    BY <2>1 DEF PhoneInv, NewRows, askVars
  <2>4. PhoneInv'
    BY <2>1, <2>2, <2>3, RowsRest, PhoneFromParts DEF PhoneInv, PhoneTyped, screenVars, askVars
  <2> QED
    BY <2>2, <2>4
<1> QED
  BY <1>1, ForwardInv, TakeRequestInv, LookAtUnlocksInv, BuildAwardInv, WriteAwardInv,
     LateWriteInv DEF Requesting

-----------------------------------------------------------------------------
(* What a flush has copies of.                                             *)

LEMMA PendingOfFacts ==
    ASSUME rows \in Seq(Slots)
    PROVE  /\ PendingOf(rows) \in Seq(Slots)
           /\ In(PendingOf(rows)) = Waits(rows)
           /\ \A i \in Waits(rows) : i \in DOMAIN rows /\ PendingOf(rows)[i] = rows[i]
<1> DEFINE copy == PendingOf(rows)  n == Len(rows)
<1>1. n \in Nat /\ DOMAIN rows = 1..n /\ \A i \in 1..n : rows[i] \in Slots
  BY LenProperties, ElementOfSeq
<1>2. copy = [i \in 1..n |-> IF i \in AllByStatus(rows, "pending") THEN rows[i] ELSE Nothing]
  BY <1>1 DEF PendingOf
<1>3. copy \in [1..n -> Slots]
  BY <1>1, <1>2 DEF Slots
<1>4. copy \in Seq(Slots)
  BY <1>1, <1>3, SeqDef
<1>5. Waits(rows) \subseteq 1..n /\ \A i \in Waits(rows) : rows[i] # Nothing
  BY <1>1 DEF Waits, AllByStatus, In
<1>6. \A i \in 1..n : copy[i] = IF i \in Waits(rows) THEN rows[i] ELSE Nothing
  BY <1>2 DEF Waits
<1>7. DOMAIN copy = 1..n
  BY <1>3
<1>8. In(copy) = Waits(rows)
  BY <1>5, <1>6, <1>7 DEF In
<1> QED
  BY <1>1, <1>4, <1>5, <1>6, <1>8

LEMMA RebasedFacts ==
    ASSUME NEW t \in Seq(Slots)
    PROVE  /\ Rebased(t) \in Seq(Slots) /\ In(Rebased(t)) = In(t)
           /\ \A i \in In(t) : Rebased(t)[i].sub = t[i].sub /\ Rebased(t)[i].status = t[i].status
<1> DEFINE n == Len(t)
           linked(i) == [t[i] EXCEPT !.prevHash = LinkedTo(t, i)]
<1>1. n \in Nat /\ DOMAIN t = 1..n
  BY LenProperties
<1>2. ASSUME NEW i \in In(t)
      PROVE  /\ linked(i) \in PhoneRow
             /\ linked(i).sub = t[i].sub /\ linked(i).status = t[i].status
  <2>1. LinkedTo(t, i) \in (Earned \X Clock) \cup {ChainStart}
    BY HeadTyped DEF LinkedTo
  <2>2. t[i] \in PhoneRow
    BY RowKnown
  <2> QED
    BY <2>1, <2>2 DEF PhoneRow
<1> HIDE DEF linked
<1>3. Rebased(t) = [i \in 1..n |-> IF t[i] = Nothing THEN Nothing ELSE linked(i)]
  BY <1>1 DEF Rebased, linked
<1>4. \A i \in 1..n : t[i] # Nothing => i \in In(t)
  BY <1>1 DEF In
<1>5. Rebased(t) \in [1..n -> Slots]
  BY <1>2, <1>3, <1>4 DEF Slots
<1>6. Rebased(t) \in Seq(Slots)
  BY <1>1, <1>5, SeqDef
<1>7. \A i \in In(t) : i \in 1..n /\ Rebased(t)[i] = linked(i) /\ linked(i) # Nothing
  BY <1>1, <1>2, <1>3, PhoneAssumption DEF In
<1>8. In(Rebased(t)) = In(t)
  BY <1>3, <1>4, <1>5, <1>7 DEF In
<1> QED
  BY <1>2, <1>6, <1>7, <1>8

-----------------------------------------------------------------------------
(* The flush.                                                              *)

\* What a step of one flush has to show; the other flushes, the requests and the
\* screens are left alone.
LEMMA FlushFromParts ==
    ASSUME PhoneInv, NEW f \in Flushes, NEW j \in Jobs, job' = [job EXCEPT ![f] = j],
           UNCHANGED <<askVars, screenVars, cached>>,
           rows' \in Seq(Slots), SubsStay, Fits(rows', Had', j),
           accepted \subseteq accepted', accepted' \subseteq Earned, outdated' \subseteq Earned,
           PromiseStep
    PROVE  PhoneInv'
<1>1. job' \in [Flushes -> Jobs] /\ JobsFit'
  BY OneJob DEF PhoneInv
<1>2. NewRows'
  BY DEF PhoneInv, NewRows, askVars
<1> QED
  BY <1>1, <1>2, PhoneFromParts DEF PhoneInv, PhoneTyped, askVars, screenVars

\* A step that only the flush sees.
LEMMA QuietFlush ==
    ASSUME PhoneInv, NEW f \in Flushes, NEW j \in Jobs, job' = [job EXCEPT ![f] = j],
           UNCHANGED <<rows, askVars, screenVars, cached, accepted, outdated>>,
           Fits(rows, Had, j)
    PROVE  PhoneInv' /\ PromiseStep
<1>1. PromiseStep
  BY RowsRest, ForPhoneSame, NothingPromised DEF askVars, screenVars
<1>2. SubsStay /\ Had \subseteq Had'
  BY RowsRest, HadGrows
<1>3. Fits(rows', Had', j)
  BY <1>2, FitsStill
<1> QED
  BY <1>1, <1>2, <1>3, FlushFromParts DEF PhoneInv, PhoneTyped

LEMMA NoFlushFits ==
    ASSUME NEW t, NEW had, NEW pc \in {"idle", "purge"}
    PROVE  /\ [NoFlush EXCEPT !.pc = pc] \in Jobs /\ NoFlush \in Jobs
           /\ Fits(t, had, [NoFlush EXCEPT !.pc = pc]) /\ Fits(t, had, NoFlush)
<1>1. <<>> \in Seq(Slots) /\ In(<<>>) = {}
  BY EmptySeq DEF In
<1>2. [NoFlush EXCEPT !.pc = pc] \in Jobs /\ NoFlush \in Jobs
  BY <1>1 DEF NoFlush, Jobs
<1>3. Fits(t, had, [NoFlush EXCEPT !.pc = pc]) /\ Fits(t, had, NoFlush)
  BY <1>1 DEF NoFlush, Fits, FitsTable, Recorded
<1> QED
  BY <1>2, <1>3

LEMMA FlushBeginsInv ==
    ASSUME PhoneInv, NEW f \in Flushes, FlushBegins(f)
    PROVE  PhoneInv' /\ PromiseStep
<1> DEFINE copy == PendingOf(rows)
<1>1. UNCHANGED <<rows, askVars, screenVars, cached, accepted, outdated>>
  BY DEF FlushBegins
<1>2. job[f] \in Jobs /\ job \in [Flushes -> Jobs] /\ Fits(rows, Had, job[f]) /\ rows \in Seq(Slots)
  BY DEF PhoneInv, PhoneTyped, JobsFit
<1>3. /\ copy \in Seq(Slots) /\ In(copy) = Waits(rows)
      /\ \A i \in In(copy) : i \in DOMAIN rows /\ copy[i] = rows[i] /\ copy[i].status = "pending"
  BY <1>2, PendingOfFacts DEF Waits, AllByStatus
<1>4. /\ Rebased(copy) \in Seq(Slots) /\ In(Rebased(copy)) = In(copy)
      /\ \A i \in In(copy) : /\ Rebased(copy)[i].sub = rows[i].sub
                              /\ Rebased(copy)[i].status = "pending"
  BY <1>3, RebasedFacts
<1>5. FitsTable(rows, copy) /\ FitsTable(rows, Rebased(copy))
  BY <1>3, <1>4 DEF FitsTable
<1>6. In(copy) \subseteq Nat
  BY <1>3, RowKnown
<1>7. CASE job' = [job EXCEPT ![f].pc = "purge"]
  <2> DEFINE j == [job[f] EXCEPT !.pc = "purge"]
  <2>1. job' = [job EXCEPT ![f] = j] /\ j \in Jobs
    BY <1>2, <1>7 DEF Jobs
  <2>2. Fits(rows, Had, j)
    BY <1>2 DEF Fits, Recorded, Jobs
  <2> QED
    BY <1>1, <2>1, <2>2, QuietFlush
<1>8. CASE Stands(f, "idle") /\ job' = [job EXCEPT ![f].pc = "refresh", ![f].copy = copy]
  <2> DEFINE j == [job[f] EXCEPT !.pc = "refresh", !.copy = copy]
  <2>1. job' = [job EXCEPT ![f] = j] /\ j \in Jobs
    BY <1>2, <1>3, <1>8 DEF Jobs
  <2>2. job[f].todo = {} /\ job[f].missing = {}
    BY <1>2, <1>8 DEF Fits, Stands
  <2>3. Fits(rows, Had, j)
    BY <1>2, <1>5, <2>2 DEF Fits, Recorded, Jobs
  <2> QED
    BY <1>1, <2>1, <2>3, QuietFlush
<1>9. CASE Stands(f, "idle")
           /\ job' = [job EXCEPT ![f].pc = "repair", ![f].copy = Rebased(copy), ![f].todo = In(copy)]
  <2> DEFINE j == [job[f] EXCEPT !.pc = "repair", !.copy = Rebased(copy), !.todo = In(copy)]
  <2>1. job' = [job EXCEPT ![f] = j] /\ j \in Jobs
    BY <1>2, <1>4, <1>6, <1>9 DEF Jobs
  <2>2. job[f].missing = {}
    BY <1>2, <1>9 DEF Fits, Stands
  <2>3. Fits(rows, Had, j)
    BY <1>2, <1>4, <1>5, <2>2 DEF Fits, Recorded, Jobs
  <2> QED
    BY <1>1, <2>1, <2>3, QuietFlush
<1> QED
  BY <1>7, <1>8, <1>9 DEF FlushBegins

LEMMA GivesUpInv ==
    ASSUME PhoneInv, NEW f \in Flushes, GivesUp(f) \/ AllHandled(f)
    PROVE  PhoneInv' /\ PromiseStep
<1>1. UNCHANGED <<rows, askVars, screenVars, cached, accepted, outdated>>
  BY DEF GivesUp, AllHandled
<1>2. CASE job' = [job EXCEPT ![f] = NoFlush]
  BY <1>1, <1>2, NoFlushFits, QuietFlush
<1>3. CASE job' = [job EXCEPT ![f] = [NoFlush EXCEPT !.pc = "purge"]]
  BY <1>1, <1>3, NoFlushFits, QuietFlush
<1> QED
  BY <1>2, <1>3 DEF GivesUp, AllHandled

LEMMA GetsLiveDataInv ==
    ASSUME PhoneInv, NEW f \in Flushes, GetsLiveData(f)
    PROVE  PhoneInv' /\ PromiseStep
<1>1. UNCHANGED <<rows, askVars, screenVars, cached, accepted, outdated>>
  BY DEF GetsLiveData
<1>2. PICK missing \in SUBSET In(job[f].copy) :
        job' = [job EXCEPT ![f].pc = "send", ![f].todo = In(job[f].copy), ![f].missing = missing]
  BY DEF GetsLiveData
<1>3. job[f] \in Jobs /\ job \in [Flushes -> Jobs] /\ Fits(rows, Had, job[f])
  BY DEF PhoneInv, PhoneTyped, JobsFit
<1>4. job[f].copy \in Seq(Slots) /\ In(job[f].copy) \subseteq Nat
  BY <1>3, RowKnown DEF Jobs
<1> DEFINE j == [job[f] EXCEPT !.pc = "send", !.todo = In(job[f].copy), !.missing = missing]
<1>5. job' = [job EXCEPT ![f] = j] /\ j \in Jobs
  BY <1>2, <1>3, <1>4 DEF Jobs
<1>6. Fits(rows, Had, j)
  BY <1>2, <1>3 DEF Fits, Recorded, Jobs
<1> QED
  BY <1>1, <1>5, <1>6, QuietFlush

\* What is known of the row that is due.
LEMMA DueRow ==
    ASSUME PhoneInv, NEW f \in Flushes, NEW i \in job[f].todo
    PROVE  /\ job[f] \in Jobs /\ job \in [Flushes -> Jobs] /\ Fits(rows, Had, job[f])
           /\ rows \in Seq(Slots) /\ job[f].copy \in Seq(Slots)
           /\ i \in In(job[f].copy) /\ i \in DOMAIN rows /\ i \in DOMAIN job[f].copy
           /\ job[f].copy[i] \in PhoneRow /\ job[f].copy[i].sub \in Earned
           /\ job[f].copy[i].status = "pending"
           /\ rows[i] # Nothing => rows[i].sub = job[f].copy[i].sub
<1>1. /\ job[f] \in Jobs /\ job \in [Flushes -> Jobs] /\ Fits(rows, Had, job[f])
      /\ rows \in Seq(Slots)
  BY DEF PhoneInv, PhoneTyped, JobsFit
<1>2. job[f].copy \in Seq(Slots) /\ i \in In(job[f].copy)
  BY <1>1 DEF Jobs, Fits
<1>3. /\ job[f].copy[i].status = "pending" /\ i \in DOMAIN rows
      /\ rows[i] # Nothing => rows[i].sub = job[f].copy[i].sub
  BY <1>1, <1>2 DEF Fits, FitsTable
<1> QED
  BY <1>1, <1>2, <1>3, RowKnown

LEMMA RepairsRowInv ==
    ASSUME PhoneInv, NEW f \in Flushes, RepairsRow(f)
    PROVE  PhoneInv' /\ PromiseStep
<1>1. UNCHANGED <<askVars, screenVars, cached, accepted, outdated>> /\ job[f].pc = "repair"
  BY DEF RepairsRow, Stands
<1>2. PICK i \in job[f].todo :
        /\ rows' = Update(i, job[f].copy[i])
        /\ job' = [job EXCEPT ![f].todo = @ \ {i},
                              ![f].pc = IF job[f].todo = {i} THEN "refresh" ELSE "repair"]
  BY DEF RepairsRow
<1>3. /\ rows' \in Seq(Slots) /\ SubsStay
      /\ \/ Waiting(rows') = Waiting(rows)
         \/ Waiting(rows') = Waiting(rows) \cup {job[f].copy[i].sub}
  BY <1>2, DueRow, UpdateFacts, WaitsAgain
<1>4. PromiseStep
  BY <1>1, <1>2, <1>3, DueRow, ForPhoneSame, NothingPromised, KeepingPromises
  DEF PhoneInv, askVars, screenVars
<1> DEFINE j == [job[f] EXCEPT !.todo = @ \ {i},
                               !.pc = IF job[f].todo = {i} THEN "refresh" ELSE "repair"]
<1>5. job' = [job EXCEPT ![f] = j] /\ j \in Jobs
  BY <1>2, DueRow DEF Jobs
<1>6. Had \subseteq Had' /\ accepted \subseteq accepted'
  BY <1>1, HadGrows
<1>7. Fits(rows', Had', j)
  <2>1. Fits(rows, Had, j)
    BY <1>2, DueRow DEF Fits, Recorded, Jobs
  <2> QED
    BY <1>3, <1>6, <2>1, FitsStill
<1>8. PhoneInv'
  BY <1>1, <1>3, <1>4, <1>5, <1>6, <1>7, FlushFromParts DEF PhoneInv, PhoneTyped
<1> QED
  BY <1>4, <1>8

\* What no longer counts as held was waited for by the row that stopped waiting.
LEMMA StopsWaiting ==
    ASSUME rows \in Seq(Slots), NEW i \in DOMAIN rows, NEW row \in PhoneRow,
           rows' = Update(i, row), row.status # "pending",
           rows[i] # Nothing => rows[i].sub = row.sub, answered' = answered
    PROVE  /\ rows[i] = Nothing => HeldByRow' = HeldByRow
           /\ rows[i] # Nothing => HeldByRow \ HeldByRow' \subseteq AnsweredBy(i)
<1>1. CASE rows[i] = Nothing
  BY <1>1, WaitsNoMore, HeldIs, HeldWillBe
<1>2. CASE rows[i] # Nothing
  <2> DEFINE others == {rows[j].sub : j \in Waits(rows) \ {i}}
  <2>1. Waiting(rows') = others
    BY <1>2, WaitsNoMore
  <2>2. Waiting(rows) \subseteq others \cup {rows[i].sub}
    BY DEF Waiting
  <2>3. SUFFICES ASSUME NEW s \in HeldByRow \ HeldByRow' PROVE s \in AnsweredBy(i)
    BY <1>2
  <2>4. /\ s \in answered \cup Waiting(rows)
        /\ \E r \in Waiting(rows) : KeyOf[r] = KeyOf[s]
        /\ ~(s \in answered \cup others /\ \E r \in others : KeyOf[r] = KeyOf[s])
    BY <2>1, <2>3, HeldIs, HeldWillBe
  <2>5. CASE s \in answered
    <3>1. \A r \in others : KeyOf[r] # KeyOf[s]
      BY <2>4, <2>5
    <3>2. KeyOf[s] = KeyOf[rows[i].sub]
      BY <2>2, <2>4, <3>1
    <3> QED
      BY <2>5, <3>1, <3>2 DEF AnsweredBy, Waits
  <2>6. CASE s \notin answered
    <3>1. s \in Waiting(rows) /\ s \notin others
      BY <2>4, <2>6
    <3> QED
      BY <2>2, <3>1 DEF AnsweredBy
  <2> QED
    BY <2>4, <2>5, <2>6
<1> QED
  BY <1>1, <1>2

\* A row that was handled leaves the rest of its flush as it was.
LEMMA HandlesFits ==
    ASSUME PhoneInv, NEW f \in Flushes, NEW i \in job[f].todo, Handles(f, i),
           SubsStay, accepted \subseteq accepted'
    PROVE  \E j \in Jobs : job' = [job EXCEPT ![f] = j] /\ Fits(rows', Had', j)
<1> DEFINE copy == [job[f].copy EXCEPT ![i] = Nothing]
           j == [job[f] EXCEPT !.todo = @ \ {i}, !.missing = @ \ {i}, !.copy = copy,
                               !.pc = "send", !.answer = "none"]
<1>1. job' = [job EXCEPT ![f] = j]
  BY DueRow DEF Handles, Jobs
<1>2. copy \in Seq(Slots) /\ DOMAIN copy = DOMAIN job[f].copy
  <2>1. i \in 1..Len(job[f].copy) /\ Nothing \in Slots
    BY DueRow, LenProperties DEF Slots
  <2> QED
    BY <2>1, DueRow, ExceptSeq
<1>3. In(copy) = In(job[f].copy) \ {i} /\ \A k \in In(copy) : copy[k] = job[f].copy[k]
  BY <1>2 DEF In
<1>4. j \in Jobs
  BY <1>2, DueRow DEF Jobs
<1>5. /\ j.copy = copy /\ j.todo = job[f].todo \ {i} /\ j.missing = job[f].missing \ {i}
      /\ j.pc = "send"
  BY DueRow DEF Jobs
<1> HIDE DEF copy
<1>6. Fits(rows, Had, j)
  <2>1. Fits(rows, Had, job[f])
    BY DueRow
  <2>2. FitsTable(rows, copy)
    BY <1>3, <2>1 DEF Fits, FitsTable
  <2>3. j.todo \subseteq In(copy) /\ j.missing \subseteq In(copy)
    BY <1>3, <1>5, <2>1 DEF Fits
  <2> HIDE DEF j
  <2> QED
    BY <1>5, <2>2, <2>3 DEF Fits, Recorded
<1>7. Fits(rows', Had', j)
  BY <1>6, HadGrows, FitsStill
<1> QED
  BY <1>1, <1>4, <1>7

LEMMA AnsweredByTyped ==
    ASSUME rows \in Seq(Slots), answered \subseteq Earned, NEW i \in DOMAIN rows, rows[i] # Nothing
    PROVE  AnsweredBy(i) \subseteq Earned
<1>1. rows[i].sub \in Earned
  BY RowKnown DEF In
<1> QED
  BY <1>1 DEF AnsweredBy

LEMMA MarksStaleInv ==
    ASSUME PhoneInv, NEW f \in Flushes, MarksStale(f)
    PROVE  PhoneInv' /\ PromiseStep
<1>1. UNCHANGED <<askVars, screenVars, cached, accepted>>
  BY DEF MarksStale
<1>2. PICK i \in job[f].todo :
        /\ rows' = Update(i, [job[f].copy[i] EXCEPT !.status = "stale"])
        /\ outdated' = IF rows[i] = Nothing THEN outdated ELSE outdated \cup AnsweredBy(i)
        /\ Handles(f, i)
  BY DEF MarksStale
<1> DEFINE row == [job[f].copy[i] EXCEPT !.status = "stale"]
<1>3. row \in PhoneRow /\ row.status # "pending" /\ row.sub = job[f].copy[i].sub
  BY DueRow DEF PhoneRow
<1> HIDE DEF row
<1>4. rows' = Update(i, row) /\ answered' = answered /\ i \in DOMAIN rows /\ rows \in Seq(Slots)
  BY <1>1, <1>2, DueRow DEF askVars, row
<1>5. rows[i] # Nothing => rows[i].sub = row.sub
  BY <1>3, DueRow
<1>6. rows' \in Seq(Slots) /\ SubsStay /\ Waiting(rows') \subseteq Waiting(rows)
  BY <1>3, <1>4, <1>5, UpdateFacts, WaitsNoMore
<1>7. outdated \subseteq outdated' /\ outdated' \subseteq Earned
  BY <1>2, <1>4, AnsweredByTyped DEF PhoneInv, PhoneTyped
<1>8. ForPhone \subseteq ForPhone' /\ ForPhone' \subseteq Earned
  BY <1>1, <1>7, ForPhoneGrows DEF screenVars, ForPhone, PhoneInv, PhoneTyped
<1>9. HeldByRow \ HeldByRow' \subseteq ForPhone'
  BY <1>2, <1>3, <1>4, <1>5, StopsWaiting DEF ForPhone
<1>10. PromiseStep
  BY <1>4, <1>6, <1>8, <1>9, SettlingPromises
<1>11. PICK j \in Jobs : job' = [job EXCEPT ![f] = j] /\ Fits(rows', Had', j)
  BY <1>1, <1>2, <1>6, HandlesFits
<1>12. PhoneInv'
  BY <1>1, <1>6, <1>7, <1>10, <1>11, FlushFromParts DEF PhoneInv, PhoneTyped
<1> QED
  BY <1>10, <1>12

LEMMA SendsInv ==
    ASSUME PhoneInv, NEW f \in Flushes, Sends(f)
    PROVE  PhoneInv' /\ PromiseStep
<1>1. UNCHANGED <<rows, askVars, screenVars, cached, outdated>> /\ job[f].pc = "send"
  BY DEF Sends, Stands
<1>2. PICK i \in job[f].todo : LET s == job[f].copy[i].sub IN
        /\ Due(f, i)
        /\ \/ /\ accepted' = IF Has(s) THEN accepted ELSE accepted \cup {s}
              /\ job' = [job EXCEPT ![f].pc = "record", ![f].answer = "flushed"]
           \/ /\ accepted' \in {accepted, accepted \cup {s}}
              /\ job' = [job EXCEPT ![f].pc = "record", ![f].answer = "pending"]
  BY DEF Sends
<1>3. accepted \subseteq accepted' /\ accepted' \subseteq Earned
  BY <1>2, DueRow DEF PhoneInv, PhoneTyped
<1>4. ForPhone \subseteq ForPhone' /\ ForPhone' \subseteq Earned
  BY <1>1, <1>3, ForPhoneGrows DEF screenVars, ForPhone, PhoneInv, PhoneTyped
<1>5. PromiseStep
  <2>1. HeldByRow' = HeldByRow
    BY <1>1, HeldIs, HeldWillBe DEF askVars
  <2> QED
    BY <1>1, <1>4, <2>1, RowsRest, SettlingPromises DEF askVars
<1>6. SubsStay /\ Had \subseteq Had'
  BY <1>1, <1>3, RowsRest, HadGrows
<1>7. ASSUME NEW answer \in {"flushed", "pending"},
             job' = [job EXCEPT ![f].pc = "record", ![f].answer = answer],
             answer = "flushed" => job[f].copy[i].sub \in Had'
      PROVE  PhoneInv'
  <2> DEFINE j == [job[f] EXCEPT !.pc = "record", !.answer = answer]
  <2>1. job' = [job EXCEPT ![f] = j] /\ j \in Jobs
    BY <1>7, DueRow DEF Jobs
  <2>2. /\ j.pc = "record" /\ j.answer = answer /\ j.copy = job[f].copy
        /\ j.todo = job[f].todo /\ j.missing = job[f].missing
    BY DueRow DEF Jobs
  <2> HIDE DEF j
  <2>3. ASSUME NEW k \in j.todo, Oldest(j.copy, j.todo, k)
        PROVE  k = i
    <3>1. Oldest(job[f].copy, job[f].todo, i) /\ Oldest(job[f].copy, job[f].todo, k)
      BY <1>2, <2>2, <2>3 DEF Due
    <3>2. job[f].copy \in Seq(Slots) /\ job[f].todo \in SUBSET In(job[f].copy)
      BY DueRow DEF Fits
    <3> QED
      BY <3>1, <3>2, OneOldest
  <2>4. Recorded(Had', j)
    BY <1>7, <2>2, <2>3 DEF Recorded
  <2>5. FitsTable(rows', j.copy)
    BY <1>1, <2>2, DueRow DEF Fits
  <2>6. Fits(rows', Had', j)
    BY <2>2, <2>4, <2>5, DueRow DEF Fits
  <2> QED
    BY <1>1, <1>3, <1>5, <1>6, <2>1, <2>6, FlushFromParts DEF PhoneInv, PhoneTyped
<1>8. ASSUME accepted' = IF Has(job[f].copy[i].sub) THEN accepted ELSE accepted \cup {job[f].copy[i].sub}
      PROVE  job[f].copy[i].sub \in Had'
  BY <1>3, <1>8, DueRow DEF Had, Has
<1>9. PhoneInv'
  <2>1. CASE /\ accepted' = IF Has(job[f].copy[i].sub) THEN accepted
                           ELSE accepted \cup {job[f].copy[i].sub}
             /\ job' = [job EXCEPT ![f].pc = "record", ![f].answer = "flushed"]
    BY <1>7, <1>8, <2>1
  <2>2. CASE job' = [job EXCEPT ![f].pc = "record", ![f].answer = "pending"]
    BY <1>7, <2>2
  <2> QED
    BY <1>2, <2>1, <2>2
<1> QED
  BY <1>5, <1>9

LEMMA RecordsInv ==
    ASSUME PhoneInv, NEW f \in Flushes, Records(f)
    PROVE  PhoneInv' /\ PromiseStep
<1>1. UNCHANGED <<askVars, screenVars, cached, accepted, outdated>> /\ job[f].pc = "record"
  BY DEF Records, Stands
<1>2. PICK i \in job[f].todo :
        /\ Due(f, i)
        /\ rows' = Update(i, [job[f].copy[i] EXCEPT !.status = job[f].answer])
        /\ Handles(f, i)
  BY DEF Records
<1> DEFINE row == [job[f].copy[i] EXCEPT !.status = job[f].answer]
<1>3. /\ job[f].answer \in {"flushed", "pending"}
      /\ job[f].answer = "flushed" => job[f].copy[i].sub \in Had
  BY <1>1, <1>2, DueRow DEF Fits, Recorded, Due
<1>4. row \in PhoneRow /\ row.status = job[f].answer /\ row.sub = job[f].copy[i].sub
  BY <1>3, DueRow DEF PhoneRow
<1> HIDE DEF row
<1>5. rows' = Update(i, row) /\ answered' = answered /\ i \in DOMAIN rows /\ rows \in Seq(Slots)
  BY <1>1, <1>2, DueRow DEF askVars, row
<1>6. row.sub \in Earned /\ (rows[i] # Nothing => rows[i].sub = row.sub)
  BY <1>4, DueRow
<1>7. rows' \in Seq(Slots) /\ SubsStay
  BY <1>3, <1>4, <1>5, <1>6, UpdateFacts, WaitsAgain, WaitsNoMore
<1>8. ForPhone' = ForPhone
  BY <1>1, ForPhoneSame DEF screenVars
<1>9. PromiseStep
  <2>1. CASE job[f].answer = "pending"
    <3>1. Waiting(rows') = Waiting(rows) \/ Waiting(rows') = Waiting(rows) \cup {row.sub}
      BY <1>4, <1>5, <1>6, <2>1, WaitsAgain
    <3> QED
      BY <1>5, <1>6, <1>8, <3>1, NothingPromised, KeepingPromises DEF PhoneInv
  <2>2. CASE job[f].answer = "flushed"
    <3>1. AnsweredBy(i) \subseteq ForPhone \/ rows[i] = Nothing
      <4>1. ASSUME rows[i] # Nothing, NEW s \in AnsweredBy(i)
            PROVE  s \in ForPhone
        <5>1. KeyOf[s] = KeyOf[rows[i].sub] /\ s \in Earned
          BY <1>5, <4>1, AnsweredByTyped DEF AnsweredBy, PhoneInv, PhoneTyped
        <5>2. Has(rows[i].sub)
          BY <1>3, <1>4, <1>6, <2>2, <4>1 DEF Had
        <5> QED
          BY <5>1, <5>2 DEF ForPhone, Has
      <4> QED
        BY <4>1
    <3>2. HeldByRow \ HeldByRow' \subseteq ForPhone' /\ Waiting(rows') \subseteq Waiting(rows)
      BY <1>4, <1>5, <1>6, <1>8, <2>2, <3>1, StopsWaiting, WaitsNoMore
    <3>3. ForPhone \subseteq Earned
      BY ForPhoneTyped DEF PhoneInv, PhoneTyped
    <3> QED
      BY <1>5, <1>8, <3>2, <3>3, SettlingPromises
  <2> QED
    BY <1>3, <2>1, <2>2
<1>10. PICK j \in Jobs : job' = [job EXCEPT ![f] = j] /\ Fits(rows', Had', j)
  BY <1>1, <1>2, <1>7, HandlesFits
<1>11. PhoneInv'
  BY <1>1, <1>7, <1>9, <1>10, FlushFromParts DEF PhoneInv, PhoneTyped
<1> QED
  BY <1>9, <1>11

\* Rows that do not wait are dropped: a purge, a cleared history, a cleared database.
LEMMA DropsFacts ==
    ASSUME rows \in Seq(Slots), NEW S \in SUBSET DOMAIN rows,
           rows' = [i \in DOMAIN rows |-> IF i \in S THEN Nothing ELSE rows[i]]
    PROVE  /\ rows' \in Seq(Slots) /\ SubsStay /\ Waiting(rows') \subseteq Waiting(rows)
           /\ Waits(rows) = {} => Waiting(rows') = Waiting(rows)
<1>1. Len(rows) \in Nat /\ DOMAIN rows = 1..Len(rows) /\ \A i \in DOMAIN rows : rows[i] \in Slots
  BY LenProperties, ElementOfSeq
<1>2. rows' \in [1..Len(rows) -> Slots]
  BY <1>1 DEF Slots
<1>3. rows' \in Seq(Slots)
  BY <1>1, <1>2, SeqDef
<1>4. SubsStay
  BY DEF SubsStay
<1>5. Waits(rows') \subseteq Waits(rows) /\ \A i \in Waits(rows') : rows'[i] = rows[i]
  BY DEF Waits, AllByStatus, In
<1> QED
  BY <1>3, <1>4, <1>5 DEF Waiting

LEMMA PurgesInv ==
    ASSUME PhoneInv, NEW f \in Flushes, Purges(f)
    PROVE  PhoneInv' /\ PromiseStep
<1> DEFINE gone == DOMAIN rows \ AllByStatus(rows, "flushed")
<1>1. UNCHANGED <<askVars, screenVars, cached, accepted, outdated>> /\ job' = [job EXCEPT ![f] = NoFlush]
  BY DEF Purges
<1>2. rows \in Seq(Slots)
  BY DEF PhoneInv, PhoneTyped
<1>3. rows' \in Seq(Slots) /\ SubsStay /\ Waiting(rows') = Waiting(rows)
  <2>1. CASE AllByStatus(rows, "pending") # {}
    BY <1>2, <2>1, RowsRest DEF Purges
  <2>2. CASE AllByStatus(rows, "pending") = {}
    <3>1. rows' = [i \in DOMAIN rows |-> IF i \in gone THEN Nothing ELSE rows[i]]
      BY <2>2 DEF Purges
    <3> QED
      BY <1>2, <2>2, <3>1, DropsFacts DEF Waits
  <2> QED
    BY <2>1, <2>2
<1>4. PromiseStep
  BY <1>1, <1>3, ForPhoneSame, NothingPromised DEF askVars, screenVars
<1>5. NoFlush \in Jobs /\ Fits(rows', Had', NoFlush)
  BY NoFlushFits
<1>6. PhoneInv'
  BY <1>1, <1>3, <1>4, <1>5, FlushFromParts DEF PhoneInv, PhoneTyped
<1> QED
  BY <1>4, <1>6

LEMMA FlushingInv ==
    ASSUME PhoneInv, NEW f \in Flushes, Flushing(f)
    PROVE  PhoneInv' /\ PromiseStep
BY FlushBeginsInv, RepairsRowInv, GivesUpInv, GetsLiveDataInv, MarksStaleInv, SendsInv,
   RecordsInv, PurgesInv DEF Flushing

-----------------------------------------------------------------------------
(* The screens, the disk, and the end of the process.                      *)

\* What a step that no flush takes has to show, if no request is served either.
LEMMA OutsideFromParts ==
    ASSUME PhoneInv, UNCHANGED <<askVars, job, accepted, outdated>>, givenUp' \subseteq Earned,
           rows' \in Seq(Slots), SubsStay, picked' = picked \/ ChoiceFits(rows', picked'),
           cached' \subseteq cached, PromiseStep
    PROVE  PhoneInv'
<1>1. NewRows'
  BY DEF PhoneInv, NewRows, askVars
<1>2. cached' \subseteq Unlocked
  BY DEF PhoneInv, PhoneTyped
<1> QED
  BY <1>1, <1>2, PhoneFromParts DEF PhoneInv, PhoneTyped, askVars

LEMMA PicksAwardInv ==
    ASSUME PhoneInv, NEW i \in DOMAIN rows, PicksAward(i)
    PROVE  PhoneInv' /\ PromiseStep
<1>1. UNCHANGED <<rows, askVars, job, givenUp, cached, accepted, outdated>>
  BY DEF PicksAward
<1>2. picked' = [id |-> i, row |-> rows[i]] /\ i \in In(rows) /\ rows \in Seq(Slots)
  BY DEF PicksAward, AllByStatus, PhoneInv, PhoneTyped
<1>3. ChoiceFits(rows', picked')
  BY <1>1, <1>2, RowKnown DEF ChoiceFits, Choices
<1>4. PromiseStep
  BY <1>1, RowsRest, ForPhoneSame, NothingPromised DEF askVars
<1>5. PhoneInv'
  BY <1>1, <1>3, <1>4, RowsRest, OutsideFromParts DEF PhoneInv, PhoneTyped
<1> QED
  BY <1>4, <1>5

LEMMA DeletesAwardInv ==
    ASSUME PhoneInv, DeletesAward
    PROVE  PhoneInv' /\ PromiseStep
<1> DEFINE i == picked.id
           row == [picked.row EXCEPT !.status = "deleted"]
<1>1. UNCHANGED <<askVars, job, cached, accepted, outdated>> /\ picked' = Nothing
  BY DEF DeletesAward
<1>2. /\ picked.row \in PhoneRow /\ i \in DOMAIN rows /\ rows \in Seq(Slots)
      /\ rows[i] # Nothing => rows[i].sub = picked.row.sub
  BY DEF DeletesAward, PhoneInv, PhoneTyped, ChoiceFits, Choices
<1>3. row \in PhoneRow /\ row.status # "pending" /\ row.sub = picked.row.sub
  BY <1>2 DEF PhoneRow
<1>4. rows' = Update(i, row) /\ answered' = answered
  BY <1>1 DEF DeletesAward, askVars
<1>5. givenUp' = IF rows[i] = Nothing THEN givenUp ELSE givenUp \cup AnsweredBy(i)
  BY DEF DeletesAward
<1> HIDE DEF row, i
<1>6. rows' \in Seq(Slots) /\ SubsStay /\ Waiting(rows') \subseteq Waiting(rows)
  BY <1>2, <1>3, <1>4, UpdateFacts, WaitsNoMore
<1>7. givenUp \subseteq givenUp' /\ givenUp' \subseteq Earned
  BY <1>2, <1>5, AnsweredByTyped DEF PhoneInv, PhoneTyped
<1>8. ForPhone \subseteq ForPhone' /\ ForPhone' \subseteq Earned
  BY <1>1, <1>7, ForPhoneGrows DEF ForPhone, PhoneInv, PhoneTyped
<1>9. HeldByRow \ HeldByRow' \subseteq ForPhone'
  BY <1>2, <1>3, <1>4, <1>5, StopsWaiting DEF ForPhone
<1>10. PromiseStep
  BY <1>4, <1>6, <1>8, <1>9, SettlingPromises
<1>11. PhoneInv'
  BY <1>1, <1>6, <1>7, <1>10, OutsideFromParts DEF ChoiceFits
<1> QED
  BY <1>10, <1>11

LEMMA ClearsInv ==
    ASSUME PhoneInv, ClearsHistory \/ ClearsDatabase
    PROVE  PhoneInv' /\ PromiseStep
<1>1. rows \in Seq(Slots) /\ AllByStatus(rows, "flushed") \subseteq DOMAIN rows
  BY DEF PhoneInv, PhoneTyped, AllByStatus, In
<1>2. CASE ClearsHistory
  <2>1. UNCHANGED <<askVars, job, screenVars, cached, accepted, outdated>>
    BY <1>2 DEF ClearsHistory
  <2>2. /\ rows' \in Seq(Slots) /\ SubsStay /\ Waiting(rows') = Waiting(rows)
    BY <1>1, <1>2, DropsFacts DEF ClearsHistory, Waits
  <2>3. PromiseStep
    BY <2>1, <2>2, ForPhoneSame, NothingPromised DEF askVars, screenVars
  <2> QED
    BY <2>1, <2>2, <2>3, OutsideFromParts DEF screenVars, PhoneInv, PhoneTyped
<1>3. CASE ClearsDatabase
  <2>1. UNCHANGED <<askVars, job, picked, accepted, outdated>> /\ cached' = {}
    BY <1>3 DEF ClearsDatabase
  <2>2. rows' = [i \in DOMAIN rows |-> IF i \in DOMAIN rows THEN Nothing ELSE rows[i]]
    BY <1>3 DEF ClearsDatabase
  <2>3. rows' \in Seq(Slots) /\ SubsStay /\ Waiting(rows') \subseteq Waiting(rows)
    BY <1>1, <2>2, DropsFacts
  <2>4. /\ givenUp \subseteq givenUp' /\ givenUp' \subseteq Earned
        /\ \A s \in Earned : IsWaiting(rows, s) /\ (s \in answered \/ \E i \in In(rows) : rows[i].sub = s)
                             => s \in givenUp'
    BY <1>3 DEF ClearsDatabase, PhoneInv, PhoneTyped
  <2>5. ForPhone \subseteq ForPhone' /\ ForPhone' \subseteq Earned
    BY <2>1, <2>4, ForPhoneGrows DEF ForPhone, PhoneInv, PhoneTyped
  <2>6. HeldByRow \subseteq givenUp'
    <3>1. ASSUME NEW s \in HeldByRow
          PROVE  s \in givenUp'
      <4>1. /\ IsWaiting(rows, s)
            /\ s \in answered \/ \E i \in In(rows) : rows[i].sub = s
        BY <3>1 DEF HeldByRow, AllByStatus
      <4>2. s \in Earned
        BY <1>1, <4>1, RowKnown DEF PhoneInv, PhoneTyped
      <4> QED
        BY <2>4, <4>1, <4>2
    <3> QED
      BY <3>1
  <2>7. PromiseStep
    BY <2>1, <2>3, <2>5, <2>6, SettlingPromises DEF askVars, ForPhone
  <2> QED
    BY <2>1, <2>3, <2>4, <2>7, OutsideFromParts
<1> QED
  BY <1>2, <1>3

LEMMA BreaksRowInv ==
    ASSUME PhoneInv, NEW i \in DOMAIN rows, BreaksRow(i)
    PROVE  PhoneInv' /\ PromiseStep
<1>1. UNCHANGED <<askVars, job, screenVars, cached, accepted, outdated>>
  BY DEF BreaksRow
<1> DEFINE row == [rows[i] EXCEPT !.intact = FALSE]
<1>2. i \in In(rows) /\ rows \in Seq(Slots) /\ rows' = [rows EXCEPT ![i] = row]
  BY DEF BreaksRow, PhoneInv, PhoneTyped
<1>3. rows[i] \in PhoneRow /\ rows[i] # Nothing
  BY <1>2, RowKnown
<1>4. row \in PhoneRow /\ row.sub = rows[i].sub /\ row.status = rows[i].status
  BY <1>3 DEF PhoneRow
<1>5. rows' = Update(i, row)
  BY <1>2, <1>3 DEF Update
<1> HIDE DEF row
<1>6. rows' \in Seq(Slots) /\ DOMAIN rows' = DOMAIN rows
  BY <1>2, <1>4, <1>5, UpdateFacts
<1>7. rows'[i] = row /\ \A j \in DOMAIN rows \ {i} : rows'[j] = rows[j]
  BY <1>2, <1>3, <1>4, <1>5, UpdateFacts
<1>8. SubsStay
  BY <1>3, <1>4, <1>6, <1>7 DEF SubsStay
<1>9. Waits(rows') = Waits(rows) /\ \A j \in Waits(rows) : rows'[j].sub = rows[j].sub
  <2>1. row # Nothing
    BY <1>4, PhoneAssumption
  <2> QED
    BY <1>3, <1>4, <1>6, <1>7, <2>1 DEF Waits, AllByStatus, In
<1>10. Waiting(rows') = Waiting(rows)
  BY <1>9 DEF Waiting
<1>11. PromiseStep
  BY <1>1, <1>10, ForPhoneSame, NothingPromised DEF askVars, screenVars
<1>12. PhoneInv'
  BY <1>1, <1>6, <1>8, <1>11, OutsideFromParts DEF screenVars, PhoneInv, PhoneTyped
<1> QED
  BY <1>11, <1>12

LEMMA AppDiesInv ==
    ASSUME PhoneInv, AppDies
    PROVE  PhoneInv' /\ PromiseStep
<1>1. /\ UNCHANGED <<rows, unmade, answered, givenUp, cached, accepted, outdated>>
      /\ asking' = {} /\ holder' = Nothing /\ late' = {} /\ picked' = Nothing
      /\ job' = [f \in Flushes |-> NoFlush]
  BY DEF AppDies
<1>2. job' \in [Flushes -> Jobs] /\ JobsFit'
  BY <1>1, NoFlushFits DEF JobsFit
<1>3. PromiseStep
  BY <1>1, RowsRest, ForPhoneSame, NothingPromised
<1>4. NewRows'
  BY <1>1 DEF NewRows
<1>5. PhoneInv'
  BY <1>1, <1>2, <1>3, <1>4, RowsRest, PhoneFromParts DEF PhoneInv, PhoneTyped, ChoiceFits
<1> QED
  BY <1>3, <1>5

-----------------------------------------------------------------------------
(* The theorems.                                                           *)

LEMMA PhoneStep ==
    ASSUME PhoneInv, [PhoneNext]_phoneVars
    PROVE  PhoneInv' /\ PromiseStep
<1>1. ASSUME UNCHANGED phoneVars PROVE PhoneInv' /\ PromiseStep
  <2>1. UNCHANGED <<rows, askVars, job, screenVars, cached, accepted, outdated>>
    BY <1>1 DEF phoneVars
  <2>2. PromiseStep
    BY <2>1, RowsRest, ForPhoneSame, NothingPromised DEF askVars, screenVars
  <2>3. PhoneInv'
    BY <2>1, <2>2, RowsRest, OutsideFromParts DEF screenVars, PhoneInv, PhoneTyped
  <2> QED
    BY <2>2, <2>3
<1> QED
  BY <1>1, RequestingInv, FlushingInv, PicksAwardInv, BreaksRowInv, DeletesAwardInv, ClearsInv,
     AppDiesInv DEF PhoneNext

LEMMA PhoneStart ==
    ASSUME PhoneInit
    PROVE  PhoneInv /\ PhonePromise!PromiseInit
<1>1. rows = <<>> /\ rows \in Seq(Slots) /\ Waiting(rows) = {}
  BY EmptySeq DEF PhoneInit, Waiting, Waits, AllByStatus, In
<1>2. ForPhone = {}
  BY DEF PhoneInit, ForPhone, Has
<1>3. HeldByRow = {}
  BY <1>1, HeldIs
<1>4. PhonePromise!PromiseInit
  BY <1>2, <1>3 DEF PhoneInit, PhonePromise!PromiseInit
<1>5. job \in [Flushes -> Jobs] /\ JobsFit
  BY NoFlushFits DEF PhoneInit, JobsFit
<1>6. PhoneTyped /\ NewRows /\ PromisesStand
  BY <1>1, <1>5 DEF PhoneInit, PhoneTyped, NewRows, PromisesStand, ChoiceFits
<1> QED
  BY <1>4, <1>5, <1>6 DEF PhoneInv

LEMMA PhoneInvHolds == PhoneSpec => []PhoneInv
BY PhoneStart, PhoneStep, PTL DEF PhoneSpec

\* The state keeps its types, whatever is late, cleared or given up.
THEOREM PhoneTypes == PhoneSpec => []PhoneTypeOK
<1>1. PhoneInv => PhoneTypeOK
  <2> SUFFICES ASSUME PhoneInv PROVE PhoneTypeOK
    OBVIOUS
  <2>1. UNION {unmade, asking, answered, accepted, givenUp, outdated} \subseteq Earned
    BY DEF PhoneInv, PhoneTyped
  <2>2. holder # Nothing => holder.sub \in Earned /\ holder.pc \in {"unlocks", "head", "write"}
    BY DEF PhoneInv, PhoneTyped, Holders
  <2>3. ASSUME NEW f \in Flushes
        PROVE  /\ job[f].pc \in {"idle", "repair", "refresh", "send", "record", "purge"}
               /\ job[f].todo \cup job[f].missing \subseteq In(job[f].copy)
               /\ job[f].answer \in {"none", "flushed", "pending"}
    <3>1. job[f] \in Jobs /\ Fits(rows, Had, job[f])
      BY DEF PhoneInv, PhoneTyped, JobsFit
    <3> QED
      BY <3>1 DEF Jobs, Fits
  <2>4. picked # Nothing => picked.id \in DOMAIN rows /\ picked.row \in PhoneRow
    BY DEF PhoneInv, PhoneTyped, ChoiceFits, Choices
  <2> QED
    BY <2>1, <2>2, <2>3, <2>4 DEF PhoneTypeOK, PhoneInv, PhoneTyped, Slots
<1> QED
  BY <1>1, PhoneInvHolds, PTL

\* The phone's queue implements AwardPromise: what is answered "queued_offline" is kept for
\* delivery, request by request, until RetroAchievements has it, the user gave it up or it
\* was found withdrawn.
THEOREM PhoneKeepsItsPromise == PhoneSpec => PhoneKeepsPromise
<1>1. PhoneInv /\ [PhoneNext]_phoneVars => [PhonePromise!PromiseNext]_(PhonePromise!promiseVars)
  BY PhoneStep DEF PromiseStep
<1> QED
  BY <1>1, PhoneStart, PhoneInvHolds, PTL DEF PhoneSpec, PhoneKeepsPromise, PhonePromise!PromiseSpec
=============================================================================
