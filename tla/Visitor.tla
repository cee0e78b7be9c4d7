------------------------------- MODULE Visitor -------------------------------
(***************************************************************************)
(* What a client node keeps about its visitors, in one system: the requests *)
(* of a visitor through ServeHTTP, its access cookies, its challenges and    *)
(* its standing with the escalation engine.  Each part takes what the others *)
(* would tell it as a free choice, so a behaviour of the whole is one of     *)
(* each part, and it is enough to let the part in focus move, with the       *)
(* others at rest.                                                         *)
(***************************************************************************)
EXTENDS RequestPipeline, AccessCookie, Challenges

CONSTANTS EscThreads, EscThreshold, EscWindow, EscCooldown   \* those of Escalation

ASSUME VisitorAssumption == {EscThreshold, EscWindow, EscCooldown} \subseteq Nat \ {0}

VARIABLES exists, level, failureCount, lastFailure, lastEscalation, lastActivityAt, call

escalationVars == <<exists, level, failureCount, lastFailure, lastEscalation, lastActivityAt,
                    call>>

Esc == INSTANCE Escalation WITH Threads <- EscThreads, Threshold <- EscThreshold,
                                Window <- EscWindow, Cooldown <- EscCooldown

VARIABLE focus

Parts == {"requests", "cookies", "challenges", "escalation"}

visitorVars == <<focus, vars, cookieVars, chVars, escalationVars>>

VisitorInit ==
  /\ focus \in Parts
  /\ Init /\ CookieInit /\ ChallengeInit /\ Esc!Init

Rests(part, state) == IF part = focus THEN TRUE ELSE UNCHANGED state
OnlyFocusMoves ==
  /\ Rests("requests", vars)
  /\ Rests("cookies", cookieVars)
  /\ Rests("challenges", chVars)
  /\ Rests("escalation", escalationVars)
  /\ UNCHANGED focus

VisitorNext ==
  \/ focus = "requests" /\ OnlyFocusMoves /\ Next
  \/ focus = "cookies" /\ OnlyFocusMoves /\ CookieNext
  \/ focus = "challenges" /\ OnlyFocusMoves /\ ChallengeNext
  \/ focus = "escalation" /\ OnlyFocusMoves /\ Esc!Next

\* The fairness of each part, for the part in focus.
VisitorFairness ==
  /\ WF_vars(focus = "requests" /\ Tick)
  /\ \A t \in Threads : WF_vars(focus = "requests" /\ Step(t))
  /\ WF_cookieVars(focus = "cookies" /\ Cleanup)
  /\ WF_cookieVars(focus = "cookies" /\ CookieTick)
  /\ \A t \in EscThreads :
       WF_escalationVars(focus = "escalation" /\ (Esc!DecideLevel(t) \/ Esc!StoreLevel(t)))
  /\ WF_escalationVars(focus = "escalation" /\ Esc!Cleanup)
  /\ WF_escalationVars(focus = "escalation" /\ Esc!Tick)

VisitorSpec == VisitorInit /\ [][VisitorNext]_visitorVars /\ VisitorFairness

\* Every part keeps its types.
VisitorTypesOK ==
  /\ focus = "requests" => TypeOK
  /\ focus = "cookies" => CookieTypeOK
  /\ focus = "challenges" => ChallengeTypeOK
  /\ focus = "escalation" => Esc!TypeOK

\* Escalation's Forgiveness: an address that neither fails nor passes challenges any more
\* is back at the standing of a new visitor or better for good.
Forgiveness == Esc!Forgiveness
==============================================================================
