---- MODULE MCEscalationAudit ----
(* Bounds for TLC: two goroutines inside GetLevel are enough for one of them *)
(* to overtake the other.                                                    *)
EXTENDS EscalationAudit, TLC

CONSTANTS t1, t2

Goroutines == {t1, t2}
OneGoroutine == {t1}
Symmetry == Permutations(Goroutines)
====
