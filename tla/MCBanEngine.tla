---- MODULE MCBanEngine ----
(* Two addresses, so that one rebuild holds a line before the one another    *)
(* goroutine appends; three goroutines, so that a ban, a rebuild and a sync  *)
(* of yet another call overlap.                                              *)
EXTENDS BanEngine, TLC

CONSTANTS t1, t2, t3, ip1, ip2

TwoThreads == {t1, t2}
ThreeThreads == {t1, t2, t3}
Addresses == {ip1, ip2}
AllOps == {"Ban", "Unban", "CleanupExpired", "IsBanned", "Restart"}
BanAndUnban == {"Ban", "Unban"}
Symmetry == Permutations(ThreeThreads) \cup Permutations(Addresses)
====
