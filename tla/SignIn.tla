------------------------------- MODULE SignIn -------------------------------
(***************************************************************************)
(* Which RetroAchievements login the proxy works with: the tokens and the   *)
(* password in the emulators' settings, the logins cached in the database   *)
(* and the one token that is marked as rejected (auth.py, storage.py        *)
(* 1054-1079, flusher.py 183-237, windows/account.py). A flush and a cache  *)
(* worker of the service, the login of the Windows menu and the logins the  *)
(* emulators send through the proxy share them.                             *)
(***************************************************************************)
EXTENDS Naturals, FiniteSets

CONSTANTS
  Accounts,   \* the users
  Resets,     \* how often the server withdraws a token
  SignIns     \* logins and edits of the user

None == [user |-> "none", n |-> 0]
Tokens == [user : Accounts, n : 1 .. Resets + 1]

NoPassword == [user |-> "none", right |-> FALSE, inRetroArch |-> FALSE]
Passwords == [user : Accounts, right : BOOLEAN, inRetroArch : BOOLEAN]

Workers == {"flush", "worker"}

VARIABLES
  valid,      \* the server: the number of the token it accepts, per user
  reach,      \* the server can be reached
  cfgToken,   \* the token in the emulators' settings
  password,   \* the password in them
  cached,     \* the login rows: the token's number, 0 without a row
  firstRow,   \* the account whose row was inserted first
  invalid,    \* the token marked as rejected
  flow,       \* per worker: its step and the token it works with
  menuLogin,  \* the login of the Windows menu: its step and the token it got
  emulator,   \* a login an emulator sends through the proxy
  gameCached, \* is the game of a waiting award cached
  resets, signIns

signInVars == <<valid, reach, cfgToken, password, cached, firstRow, invalid, flow,
                menuLogin, emulator, gameCached, resets, signIns>>

(* What others than the service's two workers do.                           *)
outsideVars == <<valid, reach, cfgToken, password, menuLogin, emulator, gameCached, resets,
                 signIns>>

Rest == [step |-> "idle", token |-> None]
Flows == [step : {"idle", "login", "store", "request", "rejected", "accepted", "send",
                  "awarded", "clear"},
          token : Tokens \cup {None}]

SignInTypeOK ==
  /\ valid \in [Accounts -> 1 .. Resets + 1]
  /\ reach \in BOOLEAN
  /\ cfgToken \in Tokens \cup {None}
  /\ password \in Passwords \cup {NoPassword}
  /\ cached \in [Accounts -> 0 .. Resets + 1]
  /\ firstRow \in Accounts \cup {"none"}
  /\ invalid \in Tokens \cup {None}
  /\ flow \in [Workers -> Flows]
  /\ menuLogin \in Flows /\ emulator \in Flows
  /\ gameCached \in BOOLEAN
  /\ resets \in 0 .. Resets /\ signIns \in 0 .. SignIns

SignInInit ==
  /\ valid = [u \in Accounts |-> 1]
  /\ reach = TRUE
  /\ cfgToken \in {None} \cup {[user |-> u, n |-> 1] : u \in Accounts}
  /\ password \in {NoPassword} \cup [user : Accounts, right : {TRUE}, inRetroArch : BOOLEAN]
  /\ cached = [u \in Accounts |-> 0]
  /\ firstRow = "none"
  /\ invalid = None
  /\ flow = [w \in Workers |-> Rest]
  /\ menuLogin = Rest /\ emulator = Rest
  /\ gameCached \in BOOLEAN
  /\ resets = 0 /\ signIns = 0

-----------------------------------------------------------------------------
(* The store                                                               *)

(* upsert_cache of a login: a row keeps its place when it is written again. *)
Upsert(token) ==
  /\ cached' = [cached EXCEPT ![token.user] = token.n]
  /\ firstRow' = IF firstRow = "none" THEN token.user ELSE firstRow

(* load_login_credentials: the first row, whoever signed in last.           *)
CachedLogin ==
  IF firstRow = "none" THEN None ELSE [user |-> firstRow, n |-> cached[firstRow]]

(* is_token_invalid                                                        *)
Invalid(token) == token # None /\ invalid = token

Accepts(token) == valid[token.user] = token.n
TokenOf(u) == [user |-> u, n |-> valid[u]]

-----------------------------------------------------------------------------
(* What the cache worker is answered with its token changes nothing here.     *)
Uses(w, token) == IF w = "flush" THEN [step |-> "request", token |-> token] ELSE Rest

(* resolve_credentials: the settings' token is taken as it is, and written   *)
(* over the cached login; then the cached login that is not marked; then a   *)
(* login with the password; then the cached login, marked or not.           *)
Resolve(w) ==
  /\ flow[w] = Rest
  /\ \/ /\ cfgToken # None
        /\ Upsert(cfgToken)
        /\ flow' = [flow EXCEPT ![w] = Uses(w, cfgToken)]
     \/ /\ cfgToken = None
        /\ UNCHANGED <<cached, firstRow>>
        /\ IF CachedLogin # None /\ ~Invalid(CachedLogin)
           THEN flow' = [flow EXCEPT ![w] = Uses(w, CachedLogin)]
           ELSE IF password # NoPassword
                THEN flow' = [flow EXCEPT ![w] = [step |-> "login", token |-> None]]
                ELSE /\ CachedLogin # None
                     /\ flow' = [flow EXCEPT ![w] = Uses(w, CachedLogin)]
  /\ UNCHANGED <<outsideVars, invalid>>

(* login_and_cache_token: the server answers, the row is written afterwards. *)
PasswordLogin(w) ==
  /\ flow[w].step = "login"
  /\ flow' = [flow EXCEPT ![w] =
       IF reach /\ password.right
       THEN [step |-> "store", token |-> TokenOf(password.user)]
       ELSE IF CachedLogin = None THEN Rest ELSE Uses(w, CachedLogin)]
  /\ UNCHANGED <<outsideVars, cached, firstRow, invalid>>

StoreLogin(w) ==
  /\ flow[w].step = "store"
  /\ Upsert(flow[w].token)
  /\ flow' = [flow EXCEPT ![w] = Uses(w, @.token)]
  /\ UNCHANGED <<outsideVars, invalid>>

(* The flush's first request with the token is the patch of a game; when none *)
(* of the waiting awards' games is cached, it makes none.                     *)
Request ==
  /\ flow["flush"].step = "request"
  /\ flow' = [flow EXCEPT !["flush"] =
       IF ~gameCached THEN [@ EXCEPT !.step = "send"]
       ELSE IF ~reach THEN Rest
       ELSE [step |-> IF Accepts(@.token) THEN "accepted" ELSE "rejected", token |-> @.token]]
  /\ UNCHANGED <<outsideVars, cached, firstRow, invalid>>

(* A flush that marks nothing.                                               *)
MarksNone == invalid

(* The flush marks the token its patch was refused with, and gives up.       *)
Marked == flow["flush"].token

MarkRejected ==
  /\ flow["flush"].step = "rejected"
  /\ invalid' = Marked
  /\ flow' = [flow EXCEPT !["flush"] = Rest]
  /\ UNCHANGED <<outsideVars, cached, firstRow>>

(* And it takes the mark off, whichever token it is about, before it sends.  *)
ClearInvalid ==
  /\ flow["flush"].step = "accepted"
  /\ invalid' = None
  /\ flow' = [flow EXCEPT !["flush"].step = "send"]
  /\ UNCHANGED <<outsideVars, cached, firstRow>>

(* send_award: a token refused here is not marked.                           *)
SendAward ==
  /\ flow["flush"].step = "send"
  /\ flow' = [flow EXCEPT !["flush"] =
       IF reach /\ Accepts(@.token) THEN [@ EXCEPT !.step = "awarded"] ELSE Rest]
  /\ UNCHANGED <<outsideVars, cached, firstRow, invalid>>

AwardRecorded ==
  /\ flow["flush"].step = "awarded"
  /\ invalid' = None
  /\ flow' = [flow EXCEPT !["flush"] = Rest]
  /\ UNCHANGED <<outsideVars, cached, firstRow>>

-----------------------------------------------------------------------------
(* The Windows menu offers a login while it believes nobody is signed in:    *)
(* the cached login counts first, then the settings'.                        *)

(* load_retroarch_credentials: a token before a password.                   *)
SettingsSignedIn ==
  IF cfgToken # None THEN ~Invalid(cfgToken) ELSE password # NoPassword

IsLoggedIn ==
  IF CachedLogin # None THEN ~Invalid(CachedLogin) ELSE SettingsSignedIn

MenuLogin(u) ==
  /\ menuLogin = Rest /\ ~IsLoggedIn /\ reach
  /\ signIns < SignIns /\ signIns' = signIns + 1
  /\ menuLogin' = [step |-> "store", token |-> TokenOf(u)]
  /\ UNCHANGED <<valid, reach, cfgToken, password, cached, firstRow, invalid, flow, emulator,
                 gameCached, resets>>

MenuStores ==
  /\ menuLogin.step = "store"
  /\ Upsert(menuLogin.token)
  /\ menuLogin' = [menuLogin EXCEPT !.step = "clear"]
  /\ UNCHANGED <<valid, reach, cfgToken, password, invalid, flow, emulator,
                 gameCached, resets, signIns>>

MenuClears ==
  /\ menuLogin.step = "clear"
  /\ invalid' = None
  /\ menuLogin' = Rest
  /\ UNCHANGED <<valid, reach, cfgToken, password, cached, firstRow, flow, emulator, gameCached,
                 resets, signIns>>

(* An emulator signs in through the proxy, which keeps the answer; RetroArch *)
(* writes the token into its settings.                                       *)
EmulatorLogin(u) ==
  /\ emulator = Rest /\ reach
  /\ signIns < SignIns /\ signIns' = signIns + 1
  /\ emulator' = [step |-> "store", token |-> TokenOf(u)]
  /\ UNCHANGED <<valid, reach, cfgToken, password, cached, firstRow, invalid, flow, menuLogin,
                 gameCached, resets>>

EmulatorStored ==
  /\ emulator.step = "store"
  /\ Upsert(emulator.token)
  /\ cfgToken' \in {cfgToken, emulator.token}
  /\ emulator' = Rest
  /\ UNCHANGED <<valid, reach, password, invalid, flow, menuLogin, gameCached, resets,
                 signIns>>

(* _ensure_cheevos_token: patching RetroArch replaces a password by a token.  *)
EnsureToken ==
  /\ cfgToken = None /\ password.inRetroArch /\ password.right /\ reach
  /\ cfgToken' = TokenOf(password.user)
  /\ Upsert(TokenOf(password.user))
  /\ password' = NoPassword
  /\ UNCHANGED <<valid, reach, invalid, flow, menuLogin, emulator, gameCached, resets,
                 signIns>>

(* The user edits the settings: signs out, or enters a password.             *)
EditSettings ==
  /\ signIns < SignIns /\ signIns' = signIns + 1
  /\ \/ cfgToken' = None /\ password' = NoPassword
     \/ \E p \in [user : Accounts, right : {TRUE}, inRetroArch : BOOLEAN] :
          cfgToken' = None /\ password' = p
  /\ UNCHANGED <<valid, reach, cached, firstRow, invalid, flow, menuLogin, emulator,
                 gameCached, resets>>

(* The server withdraws a token, alone or with the password.                 *)
Withdraw(u) ==
  /\ resets < Resets /\ resets' = resets + 1
  /\ valid' = [valid EXCEPT ![u] = @ + 1]
  /\ password' \in {password} \cup
       (IF password.user = u THEN {[password EXCEPT !.right = FALSE]} ELSE {})
  /\ UNCHANGED <<reach, cfgToken, cached, firstRow, invalid, flow, menuLogin, emulator,
                 gameCached, signIns>>

Link ==
  /\ reach' = ~reach
  /\ UNCHANGED <<valid, cfgToken, password, cached, firstRow, invalid, flow, menuLogin,
                 emulator, gameCached, resets, signIns>>

(* The games of the awards that wait now are cached, or not: awards are earned *)
(* and sent, games cached and removed.                                       *)
OtherAwards ==
  /\ gameCached' = ~gameCached
  /\ UNCHANGED <<valid, reach, cfgToken, password, cached, firstRow, invalid, flow, menuLogin,
                 emulator, resets, signIns>>

Login(w) == Resolve(w) \/ PasswordLogin(w) \/ StoreLogin(w)

FlushStep ==
  \/ Login("flush")
  \/ Request \/ MarkRejected \/ ClearInvalid \/ SendAward \/ AwardRecorded

SignInNext ==
  \/ FlushStep \/ Login("worker")
  \/ \E u \in Accounts : MenuLogin(u) \/ EmulatorLogin(u) \/ Withdraw(u)
  \/ MenuStores \/ MenuClears \/ EmulatorStored \/ EnsureToken \/ EditSettings \/ Link
  \/ OtherAwards

(* The flusher runs again and again while awards wait (AwardService); an     *)
(* answered login is stored.                                                 *)
SignInSpec ==
  /\ SignInInit /\ [][SignInNext]_signInVars
  /\ WF_signInVars(FlushStep)
  /\ WF_signInVars(MenuStores \/ MenuClears) /\ WF_signInVars(EmulatorStored)

-----------------------------------------------------------------------------
(* The proxy gets over a withdrawn token by itself: with a password that      *)
(* works, no token in the settings, the server in reach and the game of an    *)
(* award cached, awards are accepted again and again, however often tokens    *)
(* were withdrawn.                                                            *)
RejectedHeals ==
  <>[](reach /\ cfgToken = None /\ password.right /\ gameCached)
    => []<>(flow["flush"].step = "awarded")

(* What the code does not keep: the same whatever is cached.  A token that is *)
(* refused with the award itself is not marked and is tried again for ever;   *)
(* "Authentication failures require refreshed login state"                    *)
(* (docs/linux-support/pending-awards.md:12).                                 *)
AlwaysHeals ==
  <>[](reach /\ cfgToken = None /\ password.right) => []<>(flow["flush"].step = "awarded")

(* What the code does not keep: the account the user signed in with on the    *)
(* Windows menu is the one the proxy uses, unless the settings hold a token   *)
(* (windows/account.py:121, "The proxy prefers the login saved in             *)
(* RetroArch's config over the one from this menu").                          *)
MenuLoginUsed ==
  [][menuLogin.step = "clear" /\ menuLogin'.step = "idle" /\ cfgToken = None
       => CachedLogin.user = menuLogin.token.user]_signInVars
=============================================================================
