------------------------------ MODULE UsageReport ------------------------------
(* The anonymous usage counters: every process counts its requests in memory,   *)
(* merges them now and then into one file, and either the service or the menu   *)
(* sends the file's counters once a day.  The counters stand for one count and  *)
(* one maximum.  Where fcntl is missing (Windows) neither lock does anything.   *)
EXTENDS FiniteSets, Integers

CONSTANTS
  Counters,       \* the processes that count: the service, the menu
  Asker,          \* the one that asks for consent: the menu
  MaxRequests,    \* bound on the requests counted
  MaxDay,         \* bound on the days that pass
  UsageFaults     \* bound on lost answers, failed writes, kills and withdrawn consents

ASSUME UsageAssumption ==
  /\ IsFiniteSet(Counters) /\ Asker \in Counters
  /\ MaxRequests \in Nat /\ MaxDay \in Nat \ {0} /\ UsageFaults \in Nat

VARIABLES
  hasFcntl,   \* the platform has fcntl
  granted,    \* usage_stats_consent in config.json: "yes", "no" or "unasked"
  stats,      \* usage_stats.json: [count, max, day], day 0 = never reported
  recorder,   \* per process: pending count and maximum, requests in the current window,
              \* the consent it remembers, and what it has read while writing the file
  reporter,   \* per process: where its report is and the counters it sends
  today,
  usage       \* history: counted, accepted (by the backend), lost, again, perDay, faults

usageVars == <<hasFcntl, granted, stats, recorder, reporter, today, usage>>

NoCounts == [count |-> 0, max |-> 0]
NoCounters == [count |-> 0, max |-> 0, day |-> 0]
NewRecorder == [pending |-> NoCounts, window |-> 0, sure |-> FALSE, taken |-> NoCounts,
                read |-> NoCounters, at |-> "idle"]
NoReport == [at |-> "idle", sent |-> NoCounts, day |-> 0, read |-> NoCounters]

UsageInit ==
  /\ hasFcntl \in BOOLEAN
  /\ granted = "unasked"
  /\ stats = NoCounters
  /\ recorder = [p \in Counters |-> NewRecorder]
  /\ reporter = [p \in Counters |-> NoReport]
  /\ today = 1
  /\ usage = [counted |-> 0, accepted |-> 0, lost |-> 0, again |-> 0, perDay |-> 0, faults |-> 0,
              twice |-> FALSE]

Fault == usage.faults < UsageFaults
Larger(a, b) == IF a > b THEN a ELSE b
merge_counters(stored, pending) ==
  [stored EXCEPT !.count = @ + pending.count, !.max = Larger(@, pending.max)]
reportable(stored) == [count |-> stored.count, max |-> stored.max]
(* Mutant for CountsKept: what was merged while the report was out is dropped. *)
EmptiesFile(stored, sent, day) == [NoCounters EXCEPT !.day = day]
(* The maximum that was sent is dropped, whatever was merged since. *)
after_report(stored, sent, day) ==
  [count |-> Larger(stored.count - sent.count, 0),
   max |-> IF sent.max > 0 THEN 0 ELSE stored.max,
   day |-> day]

(* What a process works on when it rewrites the file: under the lock, what is   *)
(* there; without it, what it read some time ago.                               *)
Remembered == IF hasFcntl THEN NoCounters ELSE stats
Seen(read) == IF hasFcntl THEN stats ELSE read

is_report_due(last) == last = 0 \/ last # today

-----------------------------------------------------------------------------
(* Consent, asked for and changed in the menu process, which drops what it has *)
(* pending itself; other processes go on for a while with what they remember.  *)
save_consent(answer) ==
  /\ granted # answer /\ recorder[Asker].at = "idle"
  /\ answer = "no" => Fault
  /\ granted' = answer
  /\ stats' = IF answer = "no" THEN NoCounters ELSE stats
  /\ recorder' = [recorder EXCEPT ![Asker].sure = (answer = "yes"),
                    ![Asker].pending = IF answer = "yes" THEN @ ELSE NoCounts,
                    ![Asker].window = IF answer = "yes" THEN @ ELSE 0]
  /\ usage' = IF answer = "yes" THEN usage
              ELSE [usage EXCEPT !.faults = @ + 1,
                            !.lost = @ + recorder[Asker].pending.count + stats.count]
  /\ UNCHANGED <<hasFcntl, reporter, today>>

(* _consented remembers its answer for thirty seconds. *)
LooksAgain(p) ==
  /\ recorder[p].sure # (granted = "yes")
  /\ recorder' = [recorder EXCEPT ![p].sure = (granted = "yes")]
  /\ UNCHANGED <<hasFcntl, granted, stats, reporter, today, usage>>

record_request(p) ==
  /\ recorder[p].at = "idle" /\ recorder[p].sure /\ usage.counted < MaxRequests
  /\ LET window == recorder[p].window + 1 IN
     recorder' = [recorder EXCEPT ![p].window = window,
                    ![p].pending = [count |-> @.count + 1, max |-> Larger(@.max, window)]]
  /\ usage' = [usage EXCEPT !.counted = @ + 1]
  /\ UNCHANGED <<hasFcntl, granted, stats, reporter, today>>

(* A new window of thirty minutes starts. *)
WindowEnds(p) ==
  /\ recorder[p].window > 0
  /\ recorder' = [recorder EXCEPT ![p].window = 0]
  /\ UNCHANGED <<hasFcntl, granted, stats, reporter, today, usage>>

(* _flush_locked takes what is pending, and then reads, merges and replaces    *)
(* the file under the file lock.  Here taking and writing are two steps, and   *)
(* where the lock is none so are reading and writing.                          *)
Flush(p) ==
  /\ recorder[p].at = "idle" /\ recorder[p].pending # NoCounts
  /\ recorder' = [recorder EXCEPT ![p].at = "writing", ![p].taken = recorder[p].pending,
                    ![p].pending = NoCounts, ![p].read = Remembered]
  /\ UNCHANGED <<hasFcntl, granted, stats, reporter, today, usage>>

Flushed(p) ==
  /\ recorder[p].at = "writing"
  /\ stats' = merge_counters(Seen(recorder[p].read), recorder[p].taken)
  /\ recorder' = [recorder EXCEPT ![p].at = "idle", ![p].taken = NoCounts, ![p].read = NoCounters]
  /\ UNCHANGED <<hasFcntl, granted, reporter, today, usage>>

(* A failed write is logged; what was taken is gone. *)
FlushFails(p) ==
  /\ recorder[p].at = "writing" /\ Fault
  /\ recorder' = [recorder EXCEPT ![p].at = "idle", ![p].taken = NoCounts, ![p].read = NoCounters]
  /\ usage' = [usage EXCEPT !.faults = @ + 1, !.lost = @ + recorder[p].taken.count]
  /\ UNCHANGED <<hasFcntl, granted, stats, reporter, today>>

-----------------------------------------------------------------------------
(* A report.  The report lock is held from here to the end, if it is one. *)

NobodyRewrites(p) == hasFcntl => \A q \in Counters \ {p} : reporter[q].at = "idle"

BeginReport(p) ==
  /\ reporter[p].at = "idle"
  /\ granted = "yes" /\ NobodyRewrites(p) /\ is_report_due(stats.day)
  /\ reporter' = [reporter EXCEPT ![p].at = "flush", ![p].day = today]
  /\ UNCHANGED <<hasFcntl, granted, stats, recorder, today, usage>>

(* snapshot: the process's own counts are flushed first, then the file is read. *)
TakeSnapshot(p) ==
  /\ reporter[p].at = "flush"
  /\ recorder[p].at = "idle" /\ recorder[p].pending = NoCounts
  /\ reporter' = [reporter EXCEPT ![p].at = "send", ![p].sent = reportable(stats)]
  /\ UNCHANGED <<hasFcntl, granted, stats, recorder, today, usage>>

SentByAnother(p) ==
  \E q \in Counters \ {p} : reporter[q].at = "commit" /\ reporter[q].sent.count > 0
Arrives(p) ==
  [usage EXCEPT !.accepted = usage.accepted + reporter[p].sent.count,
                !.perDay = usage.perDay + 1, !.twice = usage.twice \/ SentByAnother(p)]

Send(p) ==
  /\ reporter[p].at = "send"
  /\ usage' = Arrives(p)
  /\ reporter' = [reporter EXCEPT ![p].at = "commit", ![p].read = Remembered]
  /\ UNCHANGED <<hasFcntl, granted, stats, recorder, today>>

NotSent(p) ==
  /\ reporter[p].at = "send"
  /\ reporter' = [reporter EXCEPT ![p] = NoReport]
  /\ UNCHANGED <<hasFcntl, granted, stats, recorder, today, usage>>

(* The backend took the report and its answer is lost. *)
AnswerLost(p) ==
  /\ reporter[p].at = "send" /\ Fault
  /\ usage' = [Arrives(p) EXCEPT !.faults = @ + 1, !.again = @ + reporter[p].sent.count]
  /\ reporter' = [reporter EXCEPT ![p] = NoReport]
  /\ UNCHANGED <<hasFcntl, granted, stats, recorder, today>>

Commit(p) ==
  /\ reporter[p].at = "commit"
  /\ stats' = after_report(Seen(reporter[p].read), reporter[p].sent,
                          reporter[p].day)
  /\ usage' = [usage EXCEPT !.again = @ + Larger(reporter[p].sent.count - stats.count, 0)]
  /\ reporter' = [reporter EXCEPT ![p] = NoReport]
  /\ UNCHANGED <<hasFcntl, granted, recorder, today>>

-----------------------------------------------------------------------------
(* Only a report begun on the day it is sent is told from one begun the day    *)
(* before, so a day passes between reports.                                    *)
NextDay ==
  /\ today < MaxDay /\ \A p \in Counters : reporter[p].at = "idle"
  /\ today' = today + 1
  /\ usage' = [usage EXCEPT !.perDay = 0]
  /\ UNCHANGED <<hasFcntl, granted, stats, recorder, reporter>>

(* A process is killed: what it had in memory is lost, a report that was       *)
(* accepted is not committed.                                                  *)
Killed(p) ==
  /\ Fault
  /\ recorder' = [recorder EXCEPT ![p] = NewRecorder]
  /\ reporter' = [reporter EXCEPT ![p] = NoReport]
  /\ usage' = [usage EXCEPT !.faults = @ + 1,
                 !.lost = @ + recorder[p].pending.count + recorder[p].taken.count,
                 !.again = IF reporter[p].at = "commit" THEN @ + reporter[p].sent.count ELSE @]
  /\ UNCHANGED <<hasFcntl, granted, stats, today>>

UsageNext ==
  \/ \E p \in Counters :
       \/ LooksAgain(p) \/ record_request(p) \/ WindowEnds(p)
       \/ Flush(p) \/ Flushed(p) \/ FlushFails(p)
       \/ BeginReport(p) \/ TakeSnapshot(p) \/ Send(p) \/ NotSent(p) \/ AnswerLost(p) \/ Commit(p)
       \/ Killed(p)
  \/ NextDay \/ \E answer \in {"yes", "no"} : save_consent(answer)

UsageSpec == UsageInit /\ [][UsageNext]_usageVars

-----------------------------------------------------------------------------
UsageTypeOK ==
  /\ hasFcntl \in BOOLEAN /\ granted \in {"unasked", "yes", "no"}
  /\ stats.count \in 0 .. MaxRequests /\ stats.max \in 0 .. MaxRequests /\ stats.day \in 0 .. MaxDay
  /\ \A p \in Counters :
       /\ recorder[p].at \in {"idle", "writing"} /\ recorder[p].sure \in BOOLEAN
       /\ recorder[p].window \in 0 .. MaxRequests
       /\ reporter[p].at \in {"idle", "flush", "send", "commit"}

(* The requests of all processes, each of which has as many as count says.      *)
Requests(count) == UNION {{p} \X (1 .. count[p]) : p \in Counters}
InMemory == [p \in Counters |-> recorder[p].pending.count + recorder[p].taken.count]
InReport == [p \in Counters |-> IF reporter[p].at = "commit" THEN reporter[p].sent.count ELSE 0]

Pending == Cardinality(Requests(InMemory))
Uncommitted == Cardinality(Requests(InReport))

(* Where the file lock is one, every request counted is accounted for: it is   *)
(* in memory, in the file, was accepted by the backend, or was lost to a       *)
(* failed write, a kill or a withdrawn consent; and the backend has a request  *)
(* twice only after a lost answer, a kill or a withdrawn consent.              *)
CountsAddUp ==
  hasFcntl => usage.counted + usage.again + Uncommitted
              = Pending + stats.count + usage.accepted + usage.lost

(* Where the report lock is one, the backend gets one report a day, and one    *)
(* more only for each lost answer, kill or withdrawal, whose file forgets the  *)
(* day.                                                                        *)
OncePerDay == hasFcntl => usage.perDay <= 1 + usage.faults

(* What the counters promise: nothing counted twice, nothing sent too often.   *)
CountsKept == CountsAddUp /\ OncePerDay

(* usage_report.py:138 says of the report lock: "Held for a whole report so    *)
(* the menu and the service never send the same counters twice."               *)
NeverSentTwice == ~usage.twice
=============================================================================
