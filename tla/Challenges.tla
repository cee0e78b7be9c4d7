------------------------------ MODULE Challenges ------------------------------
(***************************************************************************)
(* The challenges of the client node (internal/client/challenge and their    *)
(* handlers in internal/client/proxy.go): a page carries a token, and the    *)
(* answer that names it, once, from the same address, in time and good       *)
(* enough, earns an access cookie.  A visitor that is sent the same page     *)
(* again and again is taken to be in a redirect loop and let through.        *)
(*                                                                         *)
(* The store and the loop detector lock for each call, so a goroutine's      *)
(* calls are steps of their own.  What the limiter and the escalation engine *)
(* answer is a free choice; what they are told, RequestPipeline and           *)
(* Escalation say.                                                         *)
(***************************************************************************)
EXTENDS Sequences, Integers, FiniteSets, Functions

CONSTANTS ChThreads,   \* goroutines that serve requests
          Visitors, Tokens,
          NoToken,
          LoopLimit, LoopWindow, LoopAge,   \* 3 pages, 10 s, 30 s
          MaxPages,                         \* bound: pages recorded for a visitor and kind
          MinSolve, HoldTime,               \* 20 ms, DefaultHoldSeconds, in ticks
          TransparentTTL, ChallengeTTL      \* 30 s and 90 s, in ticks

ASSUME ChallengeAssumption ==
  /\ NoToken \notin Tokens \cup Visitors
  /\ {LoopLimit, LoopWindow, LoopAge, MaxPages} \subseteq Nat /\ LoopWindow <= LoopAge
  /\ {MinSolve, HoldTime, TransparentTTL, ChallengeTTL} \subseteq Nat

Kinds == {"transparent", "pow", "hold"}
TTLOf == [transparent |-> TransparentTTL, pow |-> ChallengeTTL, hold |-> ChallengeTTL]
MaxTTL == IF ChallengeTTL > TransparentTTL THEN ChallengeTTL ELSE TransparentTTL

VARIABLES chStore,     \* items of the Store, by token
          chLoops,     \* the LoopDetector: ages of the pages, by visitor and kind
          chPc,        \* per goroutine: its step, visitor, kind and token
          chIssued,    \* history: for whom a token was issued, or NoToken
          chEarned     \* history: cookies that a token has earned, by visitor

chVars == <<chStore, chLoops, chPc, chIssued, chEarned>>

Entry == [ip : Visitors, hard : BOOLEAN, ttl : 0..MaxTTL, age : 0..MaxTTL + 1]
Idle == [step |-> "idle"]
PageState == [step : {"bypass?", "record", "issue"}, ip : Visitors, kind : Kinds]
AnswerState == [step : {"judge"}, ip : Visitors, kind : Kinds, token : Tokens, entry : Entry]

\* Timestamps are taken under the lock, so those of a visitor are in order.
InOrder(ages) == \A i, j \in DOMAIN ages : i <= j => ages[i] >= ages[j]

ChallengeTypeOK ==
  /\ \A t \in DOMAIN chStore : t \in Tokens /\ chStore[t] \in Entry
  /\ chLoops \in [Visitors -> [Kinds -> Seq(0..LoopAge)]]
  /\ \A v \in Visitors, k \in Kinds : Len(chLoops[v][k]) <= MaxPages /\ InOrder(chLoops[v][k])
  /\ chPc \in [ChThreads -> {Idle} \cup PageState \cup AnswerState]
  /\ chIssued \in [Tokens -> Visitors \cup {NoToken}]
  /\ chEarned \in [Tokens -> [Visitors -> Nat]]

ChallengeInit ==
  /\ chStore = [t \in {} |-> Idle]
  /\ chLoops = [v \in Visitors |-> [k \in Kinds |-> <<>>]]
  /\ chPc = [g \in ChThreads |-> Idle]
  /\ chIssued = [t \in Tokens |-> NoToken]
  /\ chEarned = [t \in Tokens |-> [v \in Visitors |-> 0]]

At(g, step) == chPc[g].step = step
Becomes(g, state) == chPc' = [chPc EXCEPT ![g] = state]

-----------------------------------------------------------------------------
(* The page: serveChallengeForLevel, at the level that was computed. *)
PageAsked(g, v) ==
  /\ At(g, "idle")
  /\ \E k \in Kinds, step \in {"bypass?", "record"} :   \* "record": over the limit
       Becomes(g, [step |-> step, ip |-> v, kind |-> k])
  /\ UNCHANGED <<chStore, chLoops, chIssued, chEarned>>

\* ShouldBypass: with a cookie and no challenge at all, when in a loop.
InLoop(v, k) ==
  Cardinality({i \in DOMAIN chLoops[v][k] : chLoops[v][k][i] < LoopWindow}) > LoopLimit

ShouldBypass(g) ==
  /\ At(g, "bypass?")
  /\ Becomes(g, IF InLoop(chPc[g].ip, chPc[g].kind) THEN Idle
                ELSE [chPc[g] EXCEPT !.step = "record"])
  /\ UNCHANGED <<chStore, chLoops, chIssued, chEarned>>

\* Record drops what is outdated: the first ones, as they are in order.
OutdatedPages(ages) == Cardinality({i \in DOMAIN ages : ages[i] >= LoopWindow})
FreshPages(ages) == SubSeq(ages, OutdatedPages(ages) + 1, Len(ages))

Record(g) ==
  /\ At(g, "record") /\ Len(chLoops[chPc[g].ip][chPc[g].kind]) < MaxPages
  /\ chLoops' = [chLoops EXCEPT ![chPc[g].ip][chPc[g].kind] =
                   Append(FreshPages(@), 0)]
  /\ Becomes(g, [chPc[g] EXCEPT !.step = "issue"])
  /\ UNCHANGED <<chStore, chIssued, chEarned>>

\* Serve...Page: only the proof-of-work page asks for work.
Item(k, v) == [ip |-> v, hard |-> k = "pow", ttl |-> TTLOf[k], age |-> 0]

Issue(g, t) ==
  /\ At(g, "issue")
  /\ chIssued[t] = NoToken
  /\ chIssued' = [chIssued EXCEPT ![t] = chPc[g].ip]
  /\ chStore' = [u \in DOMAIN chStore \cup {t} |->
                   IF u = t THEN Item(chPc[g].kind, chPc[g].ip) ELSE chStore[u]]
  /\ Becomes(g, Idle)
  /\ UNCHANGED <<chLoops, chEarned>>

-----------------------------------------------------------------------------
(* The answer: handleTransparentVerify, handleChallengeVerify, handleHoldVerify. *)
Without(t) == Restrict(chStore, DOMAIN chStore \ {t})
Good(t, v) == chStore[t].ip = v /\ chStore[t].age <= chStore[t].ttl

\* Take: an attempt spends the token, whatever comes of it.
TakeKeeps(g, v, k, t) ==      \* mutant: the token is only looked up
  /\ At(g, "idle")
  /\ UNCHANGED chStore
  /\ IF t \in DOMAIN chStore /\ Good(t, v)
     THEN Becomes(g, [step |-> "judge", ip |-> v, kind |-> k, token |-> t,
                      entry |-> chStore[t]])
     ELSE UNCHANGED chPc
  /\ UNCHANGED <<chLoops, chIssued, chEarned>>

Take(g, v, k, t) ==
  /\ At(g, "idle")
  /\ chStore' = Without(t)
  /\ IF t \in DOMAIN chStore /\ Good(t, v)
     THEN Becomes(g, [step |-> "judge", ip |-> v, kind |-> k, token |-> t,
                      entry |-> chStore[t]])
     ELSE UNCHANGED chPc
  /\ UNCHANGED <<chLoops, chIssued, chEarned>>

\* What each verification asks of the answer.  A token that asks for no work takes any
\* nonce, and of a fingerprint it is asked that it is complete, without webdriver.
PowSolved(entry, answer) == ~entry.hard \/ answer
Held(entry) == entry.age >= HoldTime
FingerprintPasses(entry, answer) == entry.age >= MinSolve /\ answer

GoodEnough(k, entry, answer) ==
  CASE k = "pow" -> PowSolved(entry, answer)
    [] k = "hold" -> Held(entry)
    [] k = "transparent" -> FingerprintPasses(entry, answer)

\* A good answer clears the window of the visitor, sets a cookie and reports the success.
Judge(g) ==
  /\ At(g, "judge")
  /\ \E answer \in BOOLEAN :
       IF GoodEnough(chPc[g].kind, chPc[g].entry, answer)
       THEN chEarned' = [chEarned EXCEPT ![chPc[g].token][chPc[g].ip] = @ + 1]
       ELSE UNCHANGED chEarned
  /\ Becomes(g, Idle)
  /\ UNCHANGED <<chStore, chLoops, chIssued>>

-----------------------------------------------------------------------------
\* Store.Cleanup and LoopDetector.Cleanup, of the background loop.
StoreCleanup ==
  /\ chStore' = Restrict(chStore, {t \in DOMAIN chStore : chStore[t].age <= chStore[t].ttl})
  /\ UNCHANGED <<chLoops, chPc, chIssued, chEarned>>

LoopCleanup ==
  /\ chLoops' = [v \in Visitors |-> [k \in Kinds |->
       IF \E i \in DOMAIN chLoops[v][k] : chLoops[v][k][i] < LoopAge THEN chLoops[v][k] ELSE <<>>]]
  /\ UNCHANGED <<chStore, chPc, chIssued, chEarned>>

ChTick ==
  /\ chStore' = [t \in DOMAIN chStore |->
       [chStore[t] EXCEPT !.age = IF @ > chStore[t].ttl THEN @ ELSE @ + 1]]
  /\ chLoops' = [v \in Visitors |-> [k \in Kinds |->
       [i \in DOMAIN chLoops[v][k] |->
         IF chLoops[v][k][i] = LoopAge THEN LoopAge ELSE chLoops[v][k][i] + 1]]]
  /\ UNCHANGED <<chPc, chIssued, chEarned>>

ChallengeNext ==
  \/ \E g \in ChThreads :
       \/ ShouldBypass(g) \/ Record(g) \/ Judge(g)
       \/ \E t \in Tokens : Issue(g, t)
       \/ \E v \in Visitors : PageAsked(g, v)
       \/ \E v \in Visitors, k \in Kinds, t \in Tokens : Take(g, v, k, t)
  \/ StoreCleanup \/ LoopCleanup \/ ChTick

ChallengeSpec == ChallengeInit /\ [][ChallengeNext]_chVars

-----------------------------------------------------------------------------
\* A token earns one cookie at most, and only for the address whose page carried it,
\* however many answers name it and however they interleave with one another.
EarnedOnce ==
  \A t \in Tokens, v \in Visitors :
    chEarned[t][v] <= IF chIssued[t] = v THEN 1 ELSE 0
===============================================================================
