------------------------------ MODULE MCVisitor ------------------------------
(***************************************************************************)
(* Bounds for TLC.                                                         *)
(*                                                                         *)
(* Two requests at once, so that both are recorded before either is checked; *)
(* Soft below Hard as in the default configuration, both reached within the  *)
(* window; records for Hard and one more, as a request that records itself   *)
(* beyond Hard goes on to the ban.  Two cookies, so that one is refreshed    *)
(* into the other; a life longer than a revocation, and windows of two ticks *)
(* so that an interval of one window can straddle two of them.               *)
(***************************************************************************)
EXTENDS Visitor

CONSTANTS t1, t2, r1, r2, r3, r4, k1, k2, v1, v2, o1

TwoThreads == {t1, t2}
OneThread == {t1}
FourRecords == {r1, r2, r3, r4}
TwoCookies == {k1, k2}
TwoVisitors == {v1, v2}
OneToken == {o1}
==============================================================================
