---------------------------- MODULE BudgetWindow ----------------------------
(***************************************************************************)
(* The caching budget (cache_budget.py): Limit games in a window of Window *)
(* units of time.  A window opens with the first game charged after the    *)
(* last one ended; paused holds the queue back after a 429 and outlives    *)
(* the window.                                                             *)
(***************************************************************************)
EXTENDS Integers

CONSTANTS Limit,     \* CACHE_BUDGET_LIMIT
          Window     \* CACHE_BUDGET_WINDOW_MS

ASSUME BudgetAssumption == Limit \in Nat \ {0} /\ Window \in Nat \ {0}

BudgetRecord == [start : Int, used : Nat, paused : Int]

\* now < start: a clock that jumped backwards opens a fresh window.
Current(w, now) ==
    IF now < w.start \/ now - w.start >= Window
    THEN [start |-> now, used |-> 0, paused |-> w.paused]
    ELSE w

Charge(w, now) == [Current(w, now) EXCEPT !.used = @ + 1]

\* Mutants of Remaining: the pause is not looked at; one game too many.
IgnoresPause(w, now) ==
    IF Current(w, now).used >= Limit THEN 0 ELSE Limit - Current(w, now).used
OneTooMany(w, now) ==
    IF now < w.paused \/ Current(w, now).used > Limit THEN 0 ELSE Limit + 1 - Current(w, now).used

Remaining(w, now) ==
    IF now < w.paused \/ Current(w, now).used >= Limit
    THEN 0
    ELSE Limit - Current(w, now).used

NextAvailable(w, now) ==
    LET cur == Current(w, now)
        opens == IF cur.used < Limit THEN now ELSE cur.start + Window
    IN  IF cur.paused > opens THEN cur.paused ELSE opens

PausedUntil(w, until) == IF until > w.paused THEN [w EXCEPT !.paused = until] ELSE w
=============================================================================
