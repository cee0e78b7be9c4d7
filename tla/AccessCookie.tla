------------------------------ MODULE AccessCookie ------------------------------
(***************************************************************************)
(* The access cookies of one visitor: their life (cookie/manager_v2.go),   *)
(* the limit on requests per cookie with its revocations                   *)
(* (ratelimit/cookie_limiter.go), and the requests that present them       *)
(* (hasValidCookieV2, ServeHTTP and maybeRefreshCookie in proxy.go).       *)
(*                                                                         *)
(* A request asks whether its cookie is revoked, validates it, counts it   *)
(* and validates it again before it refreshes it.  The limiter locks for   *)
(* each call, so these are four steps, with other requests, the cleanup    *)
(* goroutine and time between them.  Address, fingerprint and signature of *)
(* a cookie are right here: what is left of its validity is its age.       *)
(***************************************************************************)
EXTENDS Functions, Integers

CONSTANTS CookieThreads, \* goroutines that serve the visitor
          Cookies,       \* values of the cookie that are around at a time
          TTL,           \* CookieTTLSeconds, in ticks
          Threshold,     \* requests per cookie and window
          CookieWindow,  \* in ticks
          NoCookie

ASSUME CookieAssumption ==
  /\ NoCookie \notin Cookies
  /\ TTL \in Nat /\ Threshold \in Nat \ {0} /\ CookieWindow \in Nat \ {0}

VARIABLES left,      \* per cookie: ticks until it expires, or Gone
          counter,   \* per cookie: its count and the age of its window, or NoCounter
          revoked,   \* per cookie: age of the entry in revoked, or Never
          cookiePc,  \* per goroutine: its step ...
          using,     \* ... and the cookie it was sent
          passed,    \* history, per cookie: requests let through, by age
          banished   \* history, per cookie: age of its last revocation, or Never

limiterVars == <<counter, revoked>>
historyVars == <<passed, banished>>
cookieVars == <<left, limiterVars, cookiePc, using, historyVars>>

Gone == -1
Never == -1
NoCounter == [count |-> 0, age |-> Never]
RevocationTime == 2 * CookieWindow
Ages == 0..CookieWindow - 1
NothingPassed == [a \in Ages |-> 0]

CookieTypeOK ==
  /\ left \in [Cookies -> {Gone} \cup 0..TTL]
  /\ counter \in [Cookies -> [count : 0..Threshold, age : {Never} \cup 0..CookieWindow]]
  /\ revoked \in [Cookies -> {Never} \cup 0..RevocationTime]
  /\ cookiePc \in [CookieThreads -> {"idle", "validate", "count", "refresh"}]
  /\ using \in [CookieThreads -> Cookies \cup {NoCookie}]
  /\ passed \in [Cookies -> [Ages -> Nat]]
  /\ banished \in [Cookies -> {Never} \cup 0..RevocationTime]

CookieInit ==
  /\ left = [k \in Cookies |-> Gone]
  /\ counter = [k \in Cookies |-> NoCounter]
  /\ revoked = [k \in Cookies |-> Never]
  /\ cookiePc = [t \in CookieThreads |-> "idle"]
  /\ using = [t \in CookieThreads |-> NoCookie]
  /\ passed = [k \in Cookies |-> NothingPassed]
  /\ banished = [k \in Cookies |-> Never]

-----------------------------------------------------------------------------
\* The nonce makes each cookie a new value: here, one that has left no trace.
Unused ==
  {k \in Cookies : /\ left[k] = Gone /\ counter[k] = NoCounter /\ revoked[k] = Never
                   /\ passed[k] = NothingPassed /\ banished[k] = Never
                   /\ \A t \in CookieThreads : using[t] # k}

\* setAccessCookieV2; it sets none when the nonce cannot be drawn.
SetAccessCookie ==
  \/ \E k \in Unused : left' = [left EXCEPT ![k] = TTL]
  \/ UNCHANGED left

Valid(k) == left[k] # Gone
ShouldRefresh(k) == 2 * left[k] < TTL

CookieGoto(t, step) == cookiePc' = [cookiePc EXCEPT ![t] = step]
Done(t) == CookieGoto(t, "idle") /\ using' = [using EXCEPT ![t] = NoCookie]

\* A challenge passed, or spared by the loop detector.
PassChallenge ==
  /\ SetAccessCookie
  /\ UNCHANGED <<cookiePc, using>> /\ UNCHANGED limiterVars /\ UNCHANGED historyVars

\* hasValidCookieV2 ends with a challenge page if the cookie is revoked ...
IsRevoked(t, k) ==
  /\ cookiePc[t] = "idle"
  /\ k \notin Unused
  /\ revoked[k] = Never
  /\ using' = [using EXCEPT ![t] = k]
  /\ CookieGoto(t, "validate")
  /\ UNCHANGED left /\ UNCHANGED limiterVars /\ UNCHANGED historyVars

\* ... or not valid.
ValidateCookie(t) ==
  /\ cookiePc[t] = "validate"
  /\ IF Valid(using[t]) THEN CookieGoto(t, "count") /\ UNCHANGED using ELSE Done(t)
  /\ UNCHANGED left /\ UNCHANGED limiterVars /\ UNCHANGED historyVars

\* RecordAndCheck: a fixed window that starts with the first request after the
\* end of the one before.
Counted(k) ==
  IF counter[k] = NoCounter \/ counter[k].age >= CookieWindow
    THEN [count |-> 1, age |-> 0]
    ELSE [counter[k] EXCEPT !.count = @ + 1]

ExceedsByTwo(c) == c.count > Threshold + 1   \* mutant: off by one

Exceeds(c) == c.count > Threshold

Reject(t) == revoked[using[t]] # Never /\ Done(t) /\ UNCHANGED limiterVars /\ UNCHANGED historyVars

Revoke(t) ==
  LET k == using[t]
  IN  /\ revoked[k] = Never /\ Exceeds(Counted(k))
      /\ revoked' = [revoked EXCEPT ![k] = 0]
      /\ counter' = [counter EXCEPT ![k] = NoCounter]
      /\ banished' = [banished EXCEPT ![k] = 0]
      /\ Done(t)
      /\ UNCHANGED passed

Pass(t) ==
  LET k == using[t]
  IN  /\ revoked[k] = Never /\ ~Exceeds(Counted(k))
      /\ counter' = [counter EXCEPT ![k] = Counted(k)]
      /\ passed' = [passed EXCEPT ![k][0] = @ + 1]
      /\ CookieGoto(t, "refresh")
      /\ UNCHANGED <<revoked, using, banished>>

RecordAndCheck(t) ==
  /\ cookiePc[t] = "count"
  /\ Reject(t) \/ Revoke(t) \/ Pass(t)
  /\ UNCHANGED left

\* maybeRefreshCookie, before the request goes to the backend.
RefreshCookie(t) ==
  /\ cookiePc[t] = "refresh"
  /\ IF Valid(using[t]) /\ ShouldRefresh(using[t]) THEN SetAccessCookie ELSE UNCHANGED left
  /\ Done(t)
  /\ UNCHANGED limiterVars /\ UNCHANGED historyVars

\* Cleanup, every two minutes.
EveryWindow == {k \in Cookies : counter[k] # NoCounter}   \* mutant: running windows too
EndedWindows == {k \in Cookies : counter[k].age >= CookieWindow}

AfterOneWindow == {k \in Cookies : revoked[k] >= CookieWindow}  \* mutant: forgotten early
NotSwept == {}                                           \* mutant: never forgotten
OldRevocations == {k \in Cookies : revoked[k] >= RevocationTime}

Cleanup ==
  /\ EndedWindows \cup OldRevocations # {}
  /\ counter' = [k \in Cookies |-> IF k \in EndedWindows THEN NoCounter ELSE counter[k]]
  /\ revoked' = [k \in Cookies |-> IF k \in OldRevocations THEN Never ELSE revoked[k]]
  /\ UNCHANGED <<left, cookiePc, using>> /\ UNCHANGED historyVars

Older(age, cap) == IF age = Never \/ age = cap THEN age ELSE age + 1

CookieTick ==
  /\ left' = [k \in Cookies |-> IF left[k] = Gone THEN Gone ELSE left[k] - 1]
  /\ counter' = [k \in Cookies |-> [counter[k] EXCEPT !.age = Older(@, CookieWindow)]]
  /\ revoked' = [k \in Cookies |-> Older(revoked[k], RevocationTime)]
  /\ passed' = [k \in Cookies |-> [a \in Ages |-> IF a = 0 THEN 0 ELSE passed[k][a - 1]]]
  /\ banished' = [k \in Cookies |->
       IF banished[k] = RevocationTime THEN Never ELSE Older(banished[k], RevocationTime)]
  /\ UNCHANGED <<cookiePc, using>>

CookieStep(t) == ValidateCookie(t) \/ RecordAndCheck(t) \/ RefreshCookie(t)

CookieNext ==
  \/ PassChallenge
  \/ \E t \in CookieThreads : CookieStep(t) \/ \E k \in Cookies : IsRevoked(t, k)
  \/ Cleanup
  \/ CookieTick

CookieSpec == CookieInit /\ [][CookieNext]_cookieVars

\* The cleanup goroutine of client_waf.go has a ticker, and time passes.
CookieFairSpec == CookieSpec /\ WF_cookieVars(Cleanup) /\ WF_cookieVars(CookieTick)

-----------------------------------------------------------------------------
\* Of any CookieWindow ticks, fewer than twice Threshold requests get through with one
\* cookie: fixed windows, swept counters and forgotten revocations do not add up
\* to more, however many requests present it at once (RecordAndCheck, Cleanup).
BurstBounded ==
  \A k \in Cookies : SumFunction(passed[k]) < 2 * Threshold

\* A cookie that was revoked is let through again by no request for two windows,
\* not by one that had found it unrevoked and valid before either.
RevocationHolds ==
  [][\A k \in Cookies :
       banished[k] \in 0..RevocationTime - 1 => passed'[k][0] <= passed[k][0]]_cookieVars

\* The limiter's memory is given back: once the visitor stays away, every counter
\* and every revocation is removed.
EntriesForgotten ==
  <>[][\A t \in CookieThreads : ~RecordAndCheck(t)]_cookieVars
    => <>[](\A k \in Cookies : counter[k] = NoCounter /\ revoked[k] = Never)
=================================================================================
