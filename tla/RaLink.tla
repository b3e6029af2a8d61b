------------------------------- MODULE RaLink -------------------------------
(***************************************************************************)
(* The service's link to RetroAchievements (network.py, rate_limit.py): the *)
(* reachability its threads share, the probe that renews it, the throttle   *)
(* every API request passes, the retries after a 429 and the pause a 429    *)
(* puts on the background work. "monitor" probes by force, "handler" asks   *)
(* whether the device is online and sends requests, and so do the            *)
(* Background threads (the periodic refresh, the cache queue).              *)
(***************************************************************************)
EXTENDS Naturals, FiniteSets

CONSTANTS
  Background,     \* the threads that send requests in the background
  MaxRetries,     \* HTTP_GET_MAX_429_RETRIES
  Attempts,       \* PROBE_ATTEMPTS
  Interval,       \* REACHABILITY_INTERVAL_SECONDS, in ticks of the link's clock
  ShortPause,     \* RATE_LIMIT_PAUSE_MS, in ticks of the pause's clock
  LongPause       \* a Retry-After that asks for more, in the same ticks

ASSUME LinkAssumption ==
  /\ MaxRetries \in Nat /\ Attempts \in Nat /\ Interval \in Nat \ {0}
  /\ ShortPause \in Nat /\ LongPause \in Nat /\ ShortPause <= LongPause

Senders    == Background \cup {"handler"}
Threads    == Senders \cup {"monitor"}
NoOne      == "none"

VARIABLES
  tracker,     \* the reachability tracker: has it been checked, is it up, how long ago
  hasInternet, \* the server's own flag, written by every thread that asks
  interface,   \* the operating system has an active network interface
  reachable,   \* RetroAchievements can be reached
  heard,       \* ticks since it last answered anybody (history)
  pause,       \* ticks for which the background work is paused
  asked,       \* ticks for which the server asked for rest (history)
  restSends,   \* background requests sent during that rest, per thread (history)
  turn,        \* who holds the throttle's lock
  call         \* per thread: its step, its attempt, the age of its probe, what it was told

linkVars == <<tracker, hasInternet, interface, reachable, heard, pause, asked, restSends, turn, call>>

Silent == [step |-> "idle", try |-> 0, since |-> 0, sure |-> TRUE]
CallSteps == {"idle", "probe", "head", "mark", "asks", "told", "check", "turn", "send", "backoff"}
Cap(n) == IF n > Interval THEN Interval + 1 ELSE n

LinkTypeOK ==
  /\ tracker \in [known : BOOLEAN, up : BOOLEAN, age : 0 .. Interval + 1]
  /\ {hasInternet, interface, reachable} \subseteq BOOLEAN
  /\ heard \in 0 .. Interval + 1
  /\ pause \in 0 .. LongPause /\ asked \in 0 .. LongPause
  /\ restSends \in [Background -> 0 .. 2]
  /\ turn \in Senders \cup {NoOne}
  /\ call \in [Threads -> [step : CallSteps, try : 0 .. MaxRetries + Attempts,
                           since : 0 .. Interval + 1, sure : BOOLEAN]]

LinkInit ==
  /\ tracker = [known |-> FALSE, up |-> FALSE, age |-> 0]
  /\ hasInternet = FALSE
  /\ interface = TRUE
  /\ reachable \in BOOLEAN
  /\ heard = Interval + 1
  /\ pause = 0 /\ asked = 0
  /\ restSends = [t \in Background |-> 0]
  /\ turn = NoOne
  /\ call = [t \in Threads |-> Silent]

-----------------------------------------------------------------------------
CallGoes(t, step) == call' = [call EXCEPT ![t].step = step]

(* ReachabilityTracker.mark, with the moment the result is about.           *)
Mark(up, age) == tracker' = [known |-> TRUE, up |-> up, age |-> age]

(* should_probe_retroachievements, not forced.                              *)
ShouldProbe == ~tracker.known \/ ~tracker.up \/ tracker.age >= Interval

(* refresh_reachability: a probe is due, or what is known is taken.         *)
AskOnline(t) ==
  /\ t \in {"handler", "monitor"}
  /\ call[t] = Silent
  /\ IF t = "monitor" \/ ShouldProbe
     THEN call' = [call EXCEPT ![t] = [Silent EXCEPT !.step = "probe"]] /\ UNCHANGED hasInternet
     ELSE /\ hasInternet' = tracker.up
          /\ CallGoes(t, "asks")
  /\ UNCHANGED <<tracker, interface, reachable, heard, pause, asked, restSends, turn>>

(* has_active_network_interface                                             *)
LookForInterface(t) ==
  /\ call[t].step = "probe"
  /\ IF interface
     THEN CallGoes(t, "head") /\ UNCHANGED <<tracker, hasInternet>>
     ELSE Mark(FALSE, call[t].since) /\ hasInternet' = FALSE /\ CallGoes(t, "asks")
  /\ UNCHANGED <<interface, reachable, heard, pause, asked, restSends, turn>>

(* _head_upstream, repeated by a forced probe. The result counts for the    *)
(* moment the probe began.                                                  *)
HeadUpstream(t) ==
  /\ call[t].step = "head"
  /\ \/ /\ reachable
        /\ heard' = 0
        /\ CallGoes(t, "mark")
     \/ /\ heard' = heard
        /\ call[t].try + 1 < (IF t = "monitor" THEN Attempts ELSE 1)
        /\ call' = [call EXCEPT ![t].try = @ + 1]
     \/ /\ heard' = heard
        /\ call[t].try + 1 >= (IF t = "monitor" THEN Attempts ELSE 1)
        /\ call' = [call EXCEPT ![t].step = "mark", ![t].sure = FALSE]
  /\ UNCHANGED <<tracker, hasInternet, interface, reachable, pause, asked, restSends, turn>>

MarkProbe(t) ==
  /\ call[t].step = "mark"
  /\ Mark(call[t].sure, call[t].since)
  /\ hasInternet' = call[t].sure
  /\ call' = [call EXCEPT ![t].step = "asks", ![t].sure = TRUE]
  /\ UNCHANGED <<interface, reachable, heard, pause, asked, restSends, turn>>

(* The flag and the tracker are read again before the answer: other threads  *)
(* may have written them in between.                                        *)
Online == hasInternet /\ tracker.up

TakeAnswer(t) ==
  /\ call[t].step = "asks"
  /\ IF hasInternet THEN UNCHANGED tracker ELSE Mark(FALSE, 0)
  /\ call' = [call EXCEPT ![t].step = "told", ![t].sure = Online => heard <= Interval]
  /\ UNCHANGED <<hasInternet, interface, reachable, heard, pause, asked, restSends, turn>>

Learns(t) ==
  /\ call[t].step = "told"
  /\ call' = [call EXCEPT ![t] = Silent]
  /\ UNCHANGED <<tracker, hasInternet, interface, reachable, heard, pause, asked, restSends, turn>>

-----------------------------------------------------------------------------
(* http_get                                                                *)

BeginGet(t) ==
  /\ call[t] = Silent
  /\ CallGoes(t, "check")
  /\ UNCHANGED <<tracker, hasInternet, interface, reachable, heard, pause, asked, restSends, turn>>

(* Background work is turned away while the pause lasts.                    *)
CheckPause(t) ==
  /\ call[t].step = "check"
  /\ call' = [call EXCEPT ![t] =
       IF t \in Background /\ pause > 0 THEN Silent ELSE [call[t] EXCEPT !.step = "turn"]]
  /\ UNCHANGED <<tracker, hasInternet, interface, reachable, heard, pause, asked, restSends, turn>>

(* RequestThrottle.wait: the one that waits holds the lock.                 *)
TakeTurn(t) ==
  /\ call[t].step = "turn" /\ turn = NoOne
  /\ turn' = t
  /\ UNCHANGED <<tracker, hasInternet, interface, reachable, heard, pause, asked, restSends, call>>

PassThrottle(t) ==
  /\ call[t].step = "turn" /\ turn = t
  /\ turn' = NoOne
  /\ CallGoes(t, "send")
  /\ restSends' = IF t \in Background /\ asked > 0
                  THEN [restSends EXCEPT ![t] = IF @ < 2 THEN @ + 1 ELSE @] ELSE restSends
  /\ UNCHANGED <<tracker, hasInternet, interface, reachable, heard, pause, asked>>

(* An answer below 500 shows that the server is there, whatever it says.     *)
Answered(t) ==
  /\ call[t].step = "send" /\ reachable
  /\ heard' = 0
  /\ Mark(TRUE, 0)
  /\ call' = [call EXCEPT ![t] = Silent]
  /\ UNCHANGED <<hasInternet, interface, reachable, pause, asked, restSends, turn>>

(* A pause that the latest 429 decides.                                     *)
LastWins(length) == length

(* on_rate_limited: the longest pause anybody was asked for.                 *)
PauseAfter(length) == IF pause > length THEN pause ELSE length

(* 429: the foreground retries up to MaxRetries times, the background never. *)
RateLimited(t) ==
  /\ call[t].step = "send" /\ reachable
  /\ heard' = 0
  /\ Mark(TRUE, 0)
  /\ \E length \in {ShortPause, LongPause} :
       /\ pause' = PauseAfter(length)
       /\ asked' = IF asked > length THEN asked ELSE length
  /\ call' = [call EXCEPT ![t] =
       IF t \notin Background /\ call[t].try < MaxRetries
       THEN [call[t] EXCEPT !.step = "backoff", !.try = @ + 1] ELSE Silent]
  /\ UNCHANGED <<hasInternet, interface, reachable, restSends, turn>>

(* retry_after_seconds                                                      *)
BackOff(t) ==
  /\ call[t].step = "backoff"
  /\ CallGoes(t, "check")
  /\ UNCHANGED <<tracker, hasInternet, interface, reachable, heard, pause, asked, restSends, turn>>

(* A 5xx, a refused connection, a time-out or a body that breaks off.        *)
Failed(t) ==
  /\ call[t].step = "send"
  /\ Mark(FALSE, 0)
  /\ call' = [call EXCEPT ![t] = Silent]
  /\ UNCHANGED <<hasInternet, interface, reachable, heard, pause, asked, restSends, turn>>

-----------------------------------------------------------------------------
(* Time passes on the clock of the reachability, in ticks a probe outlives   *)
(* by at most one, and on the clock of the pause.                            *)
Tick ==
  /\ \A t \in Threads : call[t].step \in {"probe", "head", "mark"} => call[t].since = 0
  /\ \A t \in Threads : call[t].step \notin {"asks", "told"}
  /\ tracker' = [tracker EXCEPT !.age = IF tracker.known THEN Cap(@ + 1) ELSE @]
  /\ heard' = Cap(heard + 1)
  /\ call' = [t \in Threads |->
       IF call[t].step \in {"probe", "head", "mark"} THEN [call[t] EXCEPT !.since = 1] ELSE call[t]]
  /\ UNCHANGED <<hasInternet, interface, reachable, pause, asked, restSends, turn>>

PauseTick ==
  /\ pause > 0 \/ asked > 0
  /\ pause' = IF pause > 0 THEN pause - 1 ELSE 0
  /\ asked' = IF asked > 0 THEN asked - 1 ELSE 0
  /\ restSends' = IF asked <= 1 THEN [t \in Background |-> 0] ELSE restSends
  /\ UNCHANGED <<tracker, hasInternet, interface, reachable, heard, turn, call>>

ReachChanges ==
  /\ \/ reachable' = ~reachable /\ UNCHANGED interface
     \/ interface' = ~interface /\ reachable' = FALSE
  /\ UNCHANGED <<tracker, hasInternet, heard, pause, asked, restSends, turn, call>>

LinkNext ==
  \/ \E t \in Threads :
       \/ AskOnline(t) \/ LookForInterface(t) \/ HeadUpstream(t) \/ MarkProbe(t)
       \/ TakeAnswer(t) \/ Learns(t)
  \/ \E t \in Senders :
       \/ BeginGet(t) \/ CheckPause(t) \/ TakeTurn(t) \/ PassThrottle(t)
       \/ Answered(t) \/ RateLimited(t) \/ BackOff(t) \/ Failed(t)
  \/ Tick \/ PauseTick \/ ReachChanges

LinkSpec == LinkInit /\ [][LinkNext]_linkVars

-----------------------------------------------------------------------------
(* A 429 gives the server the rest it asked for: until the longest pause any  *)
(* answer asked for is over, each background thread sends at most the one      *)
(* request that had passed the check before. The threads that send report 429s *)
(* with pauses of different lengths, and answers overtake each other.          *)
BackgroundRests == \A t \in Background : restSends[t] <= 1

(* Whoever is told that the device is online can rely on an answer of the      *)
(* server not older than the interval, although probes report late, requests   *)
(* of other threads overwrite the tracker in between and the server's own      *)
(* flag is shared.                                                             *)
OnlineIsRecent == \A t \in Threads : call[t].step = "told" => call[t].sure

(* What the threads of the service can rely on when they share the network.    *)
LinkKept == BackgroundRests /\ OnlineIsRecent
=============================================================================
