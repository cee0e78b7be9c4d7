--------------------------- MODULE BanEngineProofs ---------------------------
(***************************************************************************)
(* Proofs about BanEngine for any number of goroutines and addresses and   *)
(* any set of operations.                                                  *)
(***************************************************************************)
EXTENDS BanEngine, TLAPS

\* The lock is held exactly by the goroutine that rewrites the file, and a
\* goroutine that appends has an address to append.
LockInv ==
  \A t \in Threads :
    /\ pc[t] \in {"rebuild", "rewrite"} <=> writer = t
    /\ pc[t] = "append" => arg[t] \in IPs

\* No ban can be stored during a rewrite, so what the rewrite has not written
\* yet and what it has written cover the live bans.
RewriteInv ==
  \A t \in Threads : pc[t] = "rewrite" => Live \subseteq lines[t] \cup file

\* The address is in the file, or a goroutine is still to put it there.
OnWayToFile(ip) ==
  \/ ip \in file
  \/ \E t \in Threads : pc[t] = "append" /\ arg[t] = ip
  \/ \E t \in Threads : pc[t] = "rewrite" /\ ip \in lines[t]

\* The address is in the map, or a sync that will add it has begun, or one is
\* still to read the file.
OnWayToKernel(ip) ==
  \/ ip \in xdp
  \/ \E t \in Threads : pc[t] = "append" /\ arg[t] = ip
  \/ \E t \in Threads : pc[t] \in {"rebuild", "rewrite", "sync"}
  \/ \E t \in Threads : pc[t] = "apply" /\ ip \in lines[t]

DeliveryInv == ~faulted => \A ip \in Live : OnWayToFile(ip) /\ OnWayToKernel(ip)

\* BansReachKernel is not inductive: DeliveryInv says where a ban that has not
\* arrived yet is, RewriteInv why a rewrite does not lose one, and LockInv why
\* the two kinds of file writer exclude each other where they must.
IInv == TypeOK /\ LockInv /\ RewriteInv /\ DeliveryInv

-----------------------------------------------------------------------------
\* Types and the lock discipline hold at the start and every step keeps them.
LEMMA TypeLockStep == TypeOK /\ LockInv /\ [Next]_vars => TypeOK' /\ LockInv'
<1> SUFFICES ASSUME TypeOK, LockInv, [Next]_vars PROVE TypeOK' /\ LockInv'
  OBVIOUS
<1> USE BanAssumption DEF TypeOK, Lines, Steps, LockInv
<1>1. ASSUME NEW t \in Threads, NEW ip \in IPs, BanStore(t, ip) PROVE TypeOK' /\ LockInv'
  BY <1>1 DEF BanStore, Start, Goto, Unlocked
<1>2. ASSUME NEW t \in Threads, NEW ip \in IPs, UnbanDelete(t, ip) PROVE TypeOK' /\ LockInv'
  BY <1>2 DEF UnbanDelete, Start, Goto, Unlocked
<1>3. ASSUME NEW t \in Threads, NEW ip \in IPs, IsBannedRead(t, ip) PROVE TypeOK' /\ LockInv'
  BY <1>3 DEF IsBannedRead, Start, Goto, Unlocked
<1>4. ASSUME NEW t \in Threads, CleanupDelete(t) PROVE TypeOK' /\ LockInv'
  BY <1>4 DEF CleanupDelete, Start, Goto, Unlocked
<1>5. ASSUME NEW t \in Threads, BanAppend(t) PROVE TypeOK' /\ LockInv'
  <2>1. arg[t] \in IPs
    BY <1>5 DEF BanAppend
  <2>2. \A f \in AppendOutcomes(arg[t]) : f \subseteq Lines
    BY <2>1 DEF AppendOutcomes
  <2> QED BY <1>5, <2>1, <2>2 DEF BanAppend, Goto
<1>6. ASSUME NEW t \in Threads, BanAppendFails(t) PROVE TypeOK' /\ LockInv'
  BY <1>6 DEF BanAppendFails, Goto
<1>7. ASSUME NEW t \in Threads, RebuildTruncate(t) PROVE TypeOK' /\ LockInv'
  BY <1>7 DEF RebuildTruncate, Goto, Live
<1>8. ASSUME NEW t \in Threads, RebuildLine(t) PROVE TypeOK' /\ LockInv'
  BY <1>8 DEF RebuildLine
<1>9. ASSUME NEW t \in Threads, RebuildEnd(t) PROVE TypeOK' /\ LockInv'
  BY <1>9 DEF RebuildEnd, Goto
<1>10. ASSUME NEW t \in Threads, SyncRead(t) PROVE TypeOK' /\ LockInv'
  BY <1>10 DEF SyncRead, Goto
<1>11. ASSUME NEW t \in Threads, SyncCut(t) PROVE TypeOK' /\ LockInv'
  BY <1>11 DEF SyncCut
<1>12. ASSUME NEW t \in Threads, SyncApply(t) PROVE TypeOK' /\ LockInv'
  BY <1>12 DEF SyncApply, SyncEnd, Goto
<1>13. ASSUME NEW t \in Threads, SyncFails(t) PROVE TypeOK' /\ LockInv'
  BY <1>13 DEF SyncFails, SyncEnd, Goto
<1>14. ASSUME NEW t \in Threads, IsBannedDelete(t) PROVE TypeOK' /\ LockInv'
  BY <1>14 DEF IsBannedDelete, StoreWithout, Goto, Unlocked
<1>15. ASSUME NEW ip \in IPs, Expire(ip) PROVE TypeOK' /\ LockInv'
  BY <1>15 DEF Expire
<1>16. CASE Restart
  BY <1>16 DEF Restart
<1>17. CASE UNCHANGED vars
  BY <1>17 DEF vars
<1> QED
  BY <1>1, <1>2, <1>3, <1>4, <1>5, <1>6, <1>7, <1>8, <1>9, <1>10, <1>11, <1>12,
     <1>13, <1>14, <1>15, <1>16, <1>17 DEF Next, Call, Step, Fault

\* No step takes a live ban away from what a rewrite has written or will write:
\* while it runs the lock keeps Ban from storing new ones.
LEMMA RewriteStep == TypeOK /\ LockInv /\ RewriteInv /\ [Next]_vars => RewriteInv'
<1> SUFFICES ASSUME TypeOK, LockInv, RewriteInv, [Next]_vars PROVE RewriteInv'
  OBVIOUS
<1> USE BanAssumption DEF TypeOK, Lines, Steps, LockInv, RewriteInv, Live
<1>1. ASSUME NEW t \in Threads, NEW ip \in IPs, BanStore(t, ip) PROVE RewriteInv'
  BY <1>1 DEF BanStore, Start, Goto, Unlocked
<1>2. ASSUME NEW t \in Threads, NEW ip \in IPs, UnbanDelete(t, ip) PROVE RewriteInv'
  BY <1>2 DEF UnbanDelete, Start, Goto, Unlocked
<1>3. ASSUME NEW t \in Threads, NEW ip \in IPs, IsBannedRead(t, ip) PROVE RewriteInv'
  BY <1>3 DEF IsBannedRead, Start, Goto, Unlocked
<1>4. ASSUME NEW t \in Threads, CleanupDelete(t) PROVE RewriteInv'
  BY <1>4 DEF CleanupDelete, Start, Goto, Unlocked
<1>5. ASSUME NEW t \in Threads, BanAppend(t) PROVE RewriteInv'
  <2>1. file \subseteq file'
    BY <1>5 DEF BanAppend, AppendOutcomes
  <2> QED BY <1>5, <2>1 DEF BanAppend, Goto
<1>6. ASSUME NEW t \in Threads, BanAppendFails(t) PROVE RewriteInv'
  BY <1>6 DEF BanAppendFails, Goto
<1>7. ASSUME NEW t \in Threads, RebuildTruncate(t) PROVE RewriteInv'
  BY <1>7 DEF RebuildTruncate, Goto
<1>8. ASSUME NEW t \in Threads, RebuildLine(t) PROVE RewriteInv'
  BY <1>8 DEF RebuildLine
<1>9. ASSUME NEW t \in Threads, RebuildEnd(t) PROVE RewriteInv'
  BY <1>9 DEF RebuildEnd, Goto
<1>10. ASSUME NEW t \in Threads, SyncRead(t) PROVE RewriteInv'
  BY <1>10 DEF SyncRead, Goto
<1>11. ASSUME NEW t \in Threads, SyncCut(t) PROVE RewriteInv'
  BY <1>11 DEF SyncCut
<1>12. ASSUME NEW t \in Threads, NEW added, SyncEnd(t, added) PROVE RewriteInv'
  BY <1>12 DEF SyncEnd, Goto
<1>13. ASSUME NEW t \in Threads, IsBannedDelete(t) PROVE RewriteInv'
  BY <1>13 DEF IsBannedDelete, StoreWithout, Goto, Unlocked
<1>14. ASSUME NEW ip \in IPs, Expire(ip) PROVE RewriteInv'
  BY <1>14 DEF Expire
<1>15. CASE Restart
  BY <1>15 DEF Restart
<1>16. CASE UNCHANGED vars
  BY <1>16 DEF vars
<1> QED
  BY <1>1, <1>2, <1>3, <1>4, <1>5, <1>6, <1>7, <1>8, <1>9, <1>10, <1>11, <1>12,
     <1>13, <1>14, <1>15, <1>16 DEF Next, Call, Step, Fault, SyncApply, SyncFails

\* A live ban that is on its way to the file and to the map stays on its way, and
\* Ban puts a new one on its way.
LEMMA DeliveryStep == IInv /\ [Next]_vars => DeliveryInv'
<1> SUFFICES ASSUME TypeOK, LockInv, RewriteInv, DeliveryInv, [Next]_vars,
                    ~faulted', NEW ip \in IPs, ip \in Live'
             PROVE  OnWayToFile(ip)' /\ OnWayToKernel(ip)'
  BY DEF IInv, DeliveryInv, Live
<1> DEFINE Delivered == OnWayToFile(ip) /\ OnWayToKernel(ip)
<1> USE BanAssumption DEF TypeOK, Lines, Steps, LockInv
<1>1. ASSUME NEW t \in Threads, NEW i \in IPs, BanStore(t, i) PROVE Delivered'
  BY <1>1 DEF BanStore, Start, Goto, Unlocked, DeliveryInv, OnWayToFile, OnWayToKernel, Live
<1>2. ASSUME NEW t \in Threads, NEW i \in IPs, UnbanDelete(t, i) PROVE Delivered'
  BY <1>2 DEF UnbanDelete, Start, Goto, DeliveryInv, OnWayToFile, OnWayToKernel, Live
<1>3. ASSUME NEW t \in Threads, NEW i \in IPs, IsBannedRead(t, i) PROVE Delivered'
  BY <1>3 DEF IsBannedRead, Start, Goto, DeliveryInv, OnWayToFile, OnWayToKernel, Live
<1>4. ASSUME NEW t \in Threads, CleanupDelete(t) PROVE Delivered'
  BY <1>4 DEF CleanupDelete, Start, Goto, DeliveryInv, OnWayToFile, OnWayToKernel, Live
<1>5. CASE Restart
  BY <1>5 DEF Restart, Live
<1>6. ASSUME ip \in Live, ~faulted PROVE Delivered
  BY <1>6 DEF DeliveryInv
<1>7. ASSUME NEW t \in Threads, BanAppend(t) PROVE Delivered'
  <2>1. ip \in Live /\ ~faulted
    BY <1>7 DEF BanAppend, Live
  <2>2. file \subseteq file'
    BY <1>7 DEF BanAppend, AppendOutcomes
  <2>3. ASSUME arg[t] = ip
        PROVE  ip \in file' \/ \E u \in Threads : pc[u] = "rewrite" /\ ip \in lines[u]
    <3>1. CASE writer = None \/ pc[writer] # "rewrite" \/ lines[writer] = {}
      BY <1>7, <2>3, <3>1 DEF BanAppend, AppendOutcomes
    <3>2. CASE writer \in Threads /\ pc[writer] = "rewrite"
      BY <2>1, <2>2, <3>2 DEF RewriteInv
    <3> QED BY <3>1, <3>2
  <2> QED BY <1>6, <1>7, <2>1, <2>2, <2>3 DEF BanAppend, Goto, OnWayToFile, OnWayToKernel
<1>8. ASSUME NEW t \in Threads, BanAppendFails(t) PROVE Delivered'
  BY <1>8 DEF BanAppendFails
<1>9. ASSUME NEW t \in Threads, RebuildTruncate(t) PROVE Delivered'
  BY <1>9 DEF RebuildTruncate, Goto, OnWayToFile, OnWayToKernel, Live
<1>10. ASSUME NEW t \in Threads, RebuildLine(t) PROVE Delivered'
  <2>1. Delivered /\ file \subseteq file'
    BY <1>6, <1>10 DEF RebuildLine, Live
  <2> QED BY <1>10, <2>1 DEF RebuildLine, OnWayToFile, OnWayToKernel
<1>11. ASSUME NEW t \in Threads, RebuildEnd(t) PROVE Delivered'
  BY <1>6, <1>11 DEF RebuildEnd, Goto, OnWayToFile, OnWayToKernel, Live
<1>12. ASSUME NEW t \in Threads, SyncRead(t) PROVE Delivered'
  BY <1>6, <1>12 DEF SyncRead, Goto, OnWayToFile, OnWayToKernel, Live
<1>13. ASSUME NEW t \in Threads, SyncCut(t) PROVE Delivered'
  <2>1. PICK u \in Threads : pc[u] \in {"rebuild", "rewrite"}
    BY <1>13 DEF SyncCut, Unlocked
  <2> QED BY <1>6, <1>13, <2>1 DEF SyncCut, OnWayToFile, OnWayToKernel, Live
<1>14. ASSUME NEW t \in Threads, SyncApply(t) PROVE Delivered'
  BY <1>6, <1>14 DEF SyncApply, SyncEnd, Goto, OnWayToFile, OnWayToKernel, Live
<1>15. ASSUME NEW t \in Threads, SyncFails(t) PROVE Delivered'
  BY <1>15 DEF SyncFails
<1>16. ASSUME NEW t \in Threads, IsBannedDelete(t) PROVE Delivered'
  BY <1>6, <1>16 DEF IsBannedDelete, StoreWithout, Goto, OnWayToFile, OnWayToKernel, Live
<1>17. ASSUME NEW i \in IPs, Expire(i) PROVE Delivered'
  BY <1>6, <1>17 DEF Expire, OnWayToFile, OnWayToKernel, Live
<1>18. CASE UNCHANGED vars
  BY <1>6, <1>18 DEF vars, OnWayToFile, OnWayToKernel, Live
<1> QED
  BY <1>1, <1>2, <1>3, <1>4, <1>5, <1>7, <1>8, <1>9, <1>10, <1>11, <1>12, <1>13,
     <1>14, <1>15, <1>16, <1>17, <1>18 DEF Next, Call, Step, Fault

\* The inductive invariant holds in every reachable state.
LEMMA Inductive == Spec => []IInv
<1>1. Init => IInv
  BY BanAssumption, ZenonT(60) DEF Init, IInv, TypeOK, Lines, Steps, LockInv, RewriteInv, DeliveryInv, Live
<1>2. IInv /\ [Next]_vars => IInv'
  BY TypeLockStep, RewriteStep, DeliveryStep DEF IInv
<1> QED BY <1>1, <1>2, PTL DEF Spec

-----------------------------------------------------------------------------
\* The variables of the ban engine keep their types (engine.go).
THEOREM TypeCorrect == Spec => []TypeOK
<1>1. IInv => TypeOK
  BY DEF IInv
<1> QED BY <1>1, Inductive, PTL

\* For any number of goroutines and addresses: when the calls in progress are
\* over and none failed, every live ban is in the file and in the kernel map
\* (Ban, Unban, CleanupExpired, rebuildBlocklist and SyncToXDP together).
THEOREM BansReachKernelAlways == Spec => []BansReachKernel
<1>1. IInv => BansReachKernel
  <2> SUFFICES ASSUME IInv, Settled, ~faulted, NEW ip \in Live
               PROVE  ip \in file /\ ip \in xdp
    BY DEF BansReachKernel
  <2> QED BY DEF IInv, DeliveryInv, OnWayToFile, OnWayToKernel, Settled
<1> QED BY <1>1, Inductive, PTL

\* A live ban leaves the store only through Unban of that address or a restart
\* (the double check of IsBanned, the test of CleanupExpired).
THEOREM BanLastsUntilLiftedAlways == Spec => BanLastsUntilLifted
<1> DEFINE Kept == \A ip \in Live : store'[ip] = "none" =>
                     Restart \/ \E t \in Threads : UnbanDelete(t, ip)
<1>1. TypeOK /\ [Next]_vars => [Kept]_vars
  <2> SUFFICES ASSUME TypeOK, Next, NEW ip \in Live, store'[ip] = "none"
               PROVE  Restart \/ \E t \in Threads : UnbanDelete(t, ip)
    OBVIOUS
  <2> USE DEF TypeOK, Live
  <2>1. ASSUME NEW t \in Threads, NEW i \in IPs, BanStore(t, i) PROVE FALSE
    BY <2>1 DEF BanStore
  <2>2. ASSUME NEW t \in Threads, NEW i \in IPs, UnbanDelete(t, i) PROVE i = ip
    BY <2>2 DEF UnbanDelete
  <2>3. ASSUME NEW t \in Threads, CleanupDelete(t) PROVE FALSE
    BY <2>3 DEF CleanupDelete
  <2>4. ASSUME NEW t \in Threads, IsBannedDelete(t) PROVE FALSE
    BY <2>4 DEF IsBannedDelete, StoreWithout
  <2>5. ASSUME NEW i \in IPs, Expire(i) PROVE FALSE
    BY <2>5 DEF Expire
  <2>6. ASSUME UNCHANGED store PROVE FALSE
    BY <2>6
  <2> QED
    BY <2>1, <2>2, <2>3, <2>4, <2>5, <2>6
    DEF Next, Call, Step, Fault, IsBannedRead, BanAppend, BanAppendFails, RebuildTruncate,
        RebuildLine, RebuildEnd, SyncRead, SyncCut, SyncApply, SyncFails, SyncEnd
<1> QED BY <1>1, TypeCorrect, PTL DEF Spec, BanLastsUntilLifted
=============================================================================
