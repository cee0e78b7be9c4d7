------------------------------ MODULE LeasePool ------------------------------
(***************************************************************************)
(* What a connection pool promises, whatever its locks and queues: a       *)
(* connection is in the hands of one caller, or of the pool, or of nobody; *)
(* the two bounds of ConnPoolConfig are kept at every moment; and it       *)
(* changes hands only by being opened, lent, returned or shut.             *)
(***************************************************************************)
EXTENDS FiniteSets, Naturals

CONSTANTS Callers, Conns, MaxTotal, MaxIdle, Pool, Nobody

VARIABLE owner

InUse == {k \in Conns : owner[k] # Nobody}
Idle == {k \in Conns : owner[k] = Pool}

Init == owner = [k \in Conns |-> Nobody]

Open(c, k) ==
  /\ owner[k] = Nobody
  /\ Cardinality(InUse) < MaxTotal
  /\ owner' = [owner EXCEPT ![k] = c]

Lend(c, k) ==
  /\ owner[k] = Pool
  /\ owner' = [owner EXCEPT ![k] = c]

Return(c, k) ==
  /\ owner[k] = c
  /\ Cardinality(Idle) < MaxIdle
  /\ owner' = [owner EXCEPT ![k] = Pool]

\* A caller closes the connection it holds, or the pool some that it keeps.
Shut(ks) ==
  /\ \/ ks \subseteq Idle
     \/ \E c \in Callers, k \in Conns : owner[k] = c /\ ks = {k}
  /\ owner' = [k \in Conns |-> IF k \in ks THEN Nobody ELSE owner[k]]

Next ==
  \/ \E ks \in SUBSET Conns : Shut(ks)
  \/ \E c \in Callers, k \in Conns : Open(c, k) \/ Lend(c, k) \/ Return(c, k)

Spec == Init /\ [][Next]_owner
=============================================================================
