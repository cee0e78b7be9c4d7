---------------------------- MODULE ConnPoolProofs ----------------------------
(***************************************************************************)
(* The safety of ConnPool for any callers, connections and bounds, and its *)
(* refinement of LeasePool.  The callers may be infinitely many: only the  *)
(* sets that count are finite.                                             *)
(***************************************************************************)
EXTENDS ConnPool, FiniteSetTheorems, SequenceTheorems, TLAPS

AtStep(steps) == {c \in Callers : pc[c] \in steps}
Serving == Holding \cup {"dial"}

\* The queue holds every goroutine that waits, once.
QueueInv ==
  /\ IsInjective(queue)
  /\ Range(queue) = AtStep({"wait"})

\* The slots and the connections handed out are counted.
CountInv ==
  /\ IsFiniteSet(AtStep(Slotted)) /\ sem = Cardinality(AtStep(Slotted))
  /\ IsFiniteSet(AtStep({"hold"})) /\ totalOut = Cardinality(AtStep({"hold"}))
  /\ queue # <<>> => sem = MaxTotal

\* Idle connections hold no slot, but whoever dials has found none: those who have or dial
\* a connection and the idle ones are together no more than MaxTotal.
RoomInv ==
  /\ Len(idle) <= MaxIdle
  /\ IsFiniteSet(AtStep(Serving)) /\ Cardinality(AtStep(Serving)) + Len(idle) <= MaxTotal

DoomedInv == doomed # {} => closer = "swapped"

IInv == TypeOK /\ QueueInv /\ CountInv /\ RoomInv /\ DoomedInv /\ EveryConnectionOwned

-----------------------------------------------------------------------------
\* What one step of one goroutine changes of a count.
LEMMA OneMoves ==
  ASSUME NEW f \in [Callers -> Steps], NEW c \in Callers, NEW step \in Steps, NEW A,
         IsFiniteSet({d \in Callers : f[d] \in A})
  PROVE  LET g == [f EXCEPT ![c] = step]
             old == {d \in Callers : f[d] \in A}
             new == {d \in Callers : g[d] \in A}
         IN  /\ IsFiniteSet(new)
             /\ Cardinality(old) \in Nat /\ Cardinality(new) \in Nat
             /\ Cardinality(new) =
                  IF f[c] \in A
                  THEN IF step \in A THEN Cardinality(old) ELSE Cardinality(old) - 1
                  ELSE IF step \in A THEN Cardinality(old) + 1 ELSE Cardinality(old)
<1> DEFINE g == [f EXCEPT ![c] = step]
           old == {d \in Callers : f[d] \in A}
           new == {d \in Callers : g[d] \in A}
<1>1. /\ IsFiniteSet(old \cup {c})
      /\ Cardinality(old \cup {c}) = IF c \in old THEN Cardinality(old) ELSE Cardinality(old) + 1
  BY FS_AddElement
<1>2. /\ IsFiniteSet(old \ {c})
      /\ Cardinality(old \ {c}) = IF c \in old THEN Cardinality(old) - 1 ELSE Cardinality(old)
  BY FS_RemoveElement
<1>3. Cardinality(old) \in Nat
  BY FS_CardinalityType
<1>4. new = IF step \in A THEN old \cup {c} ELSE old \ {c}
  OBVIOUS
<1>5. IsFiniteSet(new) /\ Cardinality(new) \in Nat
  BY <1>1, <1>2, <1>4, FS_CardinalityType
<1>6. c \in old <=> f[c] \in A
  OBVIOUS
<1>7. CASE step \in A
  <2>1. new = old \cup {c}
    BY <1>4, <1>7
  <2>2. Cardinality(new) = IF f[c] \in A THEN Cardinality(old) ELSE Cardinality(old) + 1
    BY <2>1, <1>1, <1>6
  <2>3. QED BY <2>2, <1>3, <1>5, <1>7
<1>8. CASE step \notin A
  <2>1. new = old \ {c}
    BY <1>4, <1>8
  <2>2. Cardinality(new) = IF f[c] \in A THEN Cardinality(old) - 1 ELSE Cardinality(old)
    BY <2>1, <1>2, <1>6
  <2>3. QED BY <2>2, <1>3, <1>5, <1>8
<1>9. QED BY <1>7, <1>8

-----------------------------------------------------------------------------
(* Sequences without repetition, and what they contain *)

LEMMA AppendedSeq ==
  ASSUME NEW S, NEW s \in Seq(S), NEW e \in S
  PROVE  /\ Append(s, e) \in Seq(S) /\ Len(Append(s, e)) = Len(s) + 1
         /\ Range(Append(s, e)) = Range(s) \cup {e}
         /\ IsInjective(s) /\ e \notin Range(s) => IsInjective(Append(s, e))
<1>1. /\ Append(s, e) \in Seq(S) /\ Len(Append(s, e)) = Len(s) + 1
      /\ \A i \in 1..Len(s) : Append(s, e)[i] = s[i]
      /\ Append(s, e)[Len(s) + 1] = e /\ Len(s) \in Nat
  BY AppendProperties, LenProperties
<1>2. /\ Range(s) = {s[i] : i \in 1..Len(s)}
      /\ Range(Append(s, e)) = {Append(s, e)[i] : i \in 1..(Len(s) + 1)}
  BY <1>1, RangeEquality
<1>3. Range(Append(s, e)) = Range(s) \cup {e}
  BY <1>1, <1>2
<1>4. DOMAIN s = 1..Len(s) /\ DOMAIN Append(s, e) = 1..(Len(s) + 1)
  BY <1>1, LenProperties
<1>5. IsInjective(s) /\ e \notin Range(s) => IsInjective(Append(s, e))
  BY <1>1, <1>2, <1>4 DEF IsInjective
<1>6. QED BY <1>1, <1>3, <1>5

\* The part of a sequence from one place to another.
LEMMA PartOfSeq ==
  ASSUME NEW S, NEW s \in Seq(S), NEW m \in Int, NEW n \in Int,
         1 <= m, m <= n + 1, n <= Len(s)
  PROVE  LET t == SubSeq(s, m, n)
         IN  /\ t \in Seq(S) /\ Len(t) = n - m + 1
             /\ \A i \in 1..Len(t) : t[i] = s[m + i - 1]
             /\ Range(t) = {s[i] : i \in m..n}
             /\ IsInjective(s) => IsInjective(t)
<1> DEFINE t == SubSeq(s, m, n)
<1>1. Len(s) \in Nat /\ DOMAIN s = 1..Len(s)
  BY LenProperties
<1>2. \A i \in m..n : s[i] \in S
  BY <1>1, ElementOfSeq
<1>3. /\ t \in Seq(S) /\ Len(t) = n - m + 1
      /\ \A i \in 1..(n - m + 1) : t[i] = s[m + i - 1]
  BY <1>1, <1>2, SubSeqProperties
<1>4. DOMAIN t = 1..(n - m + 1) /\ Range(t) = {t[i] : i \in 1..(n - m + 1)}
  BY <1>3, LenProperties, RangeEquality
<1>5. Range(t) = {s[i] : i \in m..n}
  <2>1. ASSUME NEW i \in 1..(n - m + 1) PROVE m + i - 1 \in m..n /\ t[i] = s[m + i - 1]
    BY <1>1, <1>3
  <2>2. ASSUME NEW j \in m..n PROVE j - m + 1 \in 1..(n - m + 1) /\ s[j] = t[j - m + 1]
    <3>1. j - m + 1 \in 1..(n - m + 1)
      BY <1>1
    <3>2. m + (j - m + 1) - 1 = j
      BY <1>1
    <3>3. QED BY <1>3, <3>1, <3>2
  <2>3. Range(t) \subseteq {s[i] : i \in m..n}
    BY <1>4, <2>1
  <2>4. {s[i] : i \in m..n} \subseteq Range(t)
    BY <1>4, <2>2
  <2>5. QED BY <2>3, <2>4
<1>6. IsInjective(s) => IsInjective(t)
  BY <1>1, <1>3, <1>4 DEF IsInjective
<1>7. QED BY <1>3, <1>5, <1>6

LEMMA RemovedAt ==
  ASSUME NEW S, NEW s \in Seq(S), NEW k \in DOMAIN s
  PROVE  /\ RemoveAt(s, k) \in Seq(S) /\ Len(RemoveAt(s, k)) = Len(s) - 1
         /\ IsInjective(s) => /\ IsInjective(RemoveAt(s, k))
                              /\ Range(RemoveAt(s, k)) = Range(s) \ {s[k]}
<1> DEFINE a == SubSeq(s, 1, k - 1)
           b == SubSeq(s, k + 1, Len(s))
<1>1. Len(s) \in Nat /\ k \in 1..Len(s) /\ DOMAIN s = 1..Len(s)
  BY LenProperties
<1>2. /\ a \in Seq(S) /\ Len(a) = k - 1 /\ \A i \in 1..Len(a) : a[i] = s[i]
      /\ Range(a) = {s[i] : i \in 1..(k - 1)}
  <2>1. 1 <= 1 /\ 1 <= (k - 1) + 1 /\ k - 1 <= Len(s) /\ k - 1 \in Int
    BY <1>1
  <2>2. /\ a \in Seq(S) /\ Len(a) = (k - 1) - 1 + 1
        /\ \A i \in 1..Len(a) : a[i] = s[1 + i - 1]
        /\ Range(a) = {s[i] : i \in 1..(k - 1)}
    BY <1>1, <2>1, PartOfSeq
  <2>3. QED BY <1>1, <2>2
<1>3. /\ b \in Seq(S) /\ Len(b) = Len(s) - k /\ \A i \in 1..Len(b) : b[i] = s[k + i]
      /\ Range(b) = {s[i] : i \in (k + 1)..Len(s)}
  <2>1. k + 1 \in Int /\ 1 <= k + 1 /\ k + 1 <= Len(s) + 1 /\ Len(s) <= Len(s)
    BY <1>1
  <2>2. /\ b \in Seq(S) /\ Len(b) = Len(s) - (k + 1) + 1
        /\ \A i \in 1..Len(b) : b[i] = s[(k + 1) + i - 1]
        /\ Range(b) = {s[i] : i \in (k + 1)..Len(s)}
    BY <1>1, <2>1, PartOfSeq
  <2>3. QED BY <1>1, <2>2
<1> HIDE DEF a, b
<1>4. /\ a \o b \in Seq(S) /\ Len(a \o b) = Len(s) - 1
      /\ \A i \in 1..(Len(s) - 1) : (a \o b)[i] = IF i <= k - 1 THEN s[i] ELSE s[i + 1]
  <2>1. /\ a \o b \in Seq(S) /\ Len(a \o b) = Len(a) + Len(b)
        /\ \A i \in 1..(Len(a) + Len(b)) :
             (a \o b)[i] = IF i <= Len(a) THEN a[i] ELSE b[i - Len(a)]
    BY <1>2, <1>3, ConcatProperties
  <2>2. Len(a) + Len(b) = Len(s) - 1 /\ Len(a) = k - 1
    BY <1>1, <1>2, <1>3
  <2>3. ASSUME NEW i \in 1..(Len(s) - 1)
        PROVE  (a \o b)[i] = IF i <= k - 1 THEN s[i] ELSE s[i + 1]
    <3>1. (a \o b)[i] = IF i <= k - 1 THEN a[i] ELSE b[i - (k - 1)]
      BY <2>1, <2>2
    <3>2. CASE i <= k - 1
      BY <1>1, <1>2, <2>2, <3>1, <3>2
    <3>3. CASE ~(i <= k - 1)
      <4>1. i - (k - 1) \in 1..Len(b) /\ k + (i - (k - 1)) = i + 1
        BY <1>1, <1>3, <3>3
      <4>2. QED BY <1>3, <3>1, <3>3, <4>1
    <3>4. QED BY <3>2, <3>3
  <2>4. QED BY <2>1, <2>2, <2>3
<1>5. Range(a \o b) = Range(a) \cup Range(b) /\ Range(s) = {s[i] : i \in 1..Len(s)}
  <2>1. Range(a \o b) = Range(a) \cup Range(b)
    BY <1>2, <1>3, RangeConcatenation
  <2>2. QED BY <2>1, RangeEquality
<1>6. IsInjective(s) => Range(a \o b) = Range(s) \ {s[k]}
  <2>1. ASSUME IsInjective(s), NEW i \in 1..Len(s)
        PROVE  s[i] = s[k] <=> i = k
    BY <1>1, <2>1 DEF IsInjective
  <2>2. 1..Len(s) = (1..(k - 1)) \cup {k} \cup ((k + 1)..Len(s))
    BY <1>1
  <2>3. k \notin 1..(k - 1) /\ k \notin (k + 1)..Len(s)
    BY <1>1
  <2>4. ASSUME IsInjective(s), NEW e PROVE e \in Range(a) \cup Range(b) <=> e \in Range(s) \ {s[k]}
    BY <1>1, <1>2, <1>3, <1>5, <2>1, <2>2, <2>3, <2>4
  <2>5. QED BY <1>5, <2>4
<1>7. DOMAIN (a \o b) = 1..(Len(s) - 1)
  BY <1>4, LenProperties
<1>8. IsInjective(s) => IsInjective(a \o b)
  <2> SUFFICES ASSUME IsInjective(s), NEW i \in 1..(Len(s) - 1), NEW j \in 1..(Len(s) - 1),
                      (a \o b)[i] = (a \o b)[j]
               PROVE  i = j
    BY <1>7 DEF IsInjective
  <2> DEFINE at(x) == IF x <= k - 1 THEN x ELSE x + 1
  <2>1. at(i) \in DOMAIN s /\ at(j) \in DOMAIN s
    BY <1>1
  <2>2. (a \o b)[i] = s[at(i)] /\ (a \o b)[j] = s[at(j)]
    BY <1>4
  <2>3. at(i) = at(j)
    BY <2>1, <2>2 DEF IsInjective
  <2>4. QED BY <1>1, <2>3
<1>9. QED BY <1>4, <1>6, <1>8 DEF RemoveAt, a, b
LEMMA TailOfSeq ==
  ASSUME NEW S, NEW s \in Seq(S), s # <<>>
  PROVE  /\ Head(s) = s[1] /\ Head(s) \in Range(s) /\ Tail(s) \in Seq(S)
         /\ Len(Tail(s)) = Len(s) - 1
         /\ IsInjective(s) => IsInjective(Tail(s)) /\ Range(Tail(s)) = Range(s) \ {Head(s)}
<1>1. Len(s) \in Nat /\ Len(s) >= 1 /\ DOMAIN s = 1..Len(s)
      /\ Range(s) = {s[i] : i \in 1..Len(s)}
  BY EmptySeq, LenProperties, RangeEquality
<1>2. Tail(s) = RemoveAt(s, 1)
  <2>1. SubSeq(s, 1, 1 - 1) = <<>>
    BY SubSeqEmpty
  <2>2. SubSeq(s, 2, Len(s)) \in Seq(S)
    BY <1>1, PartOfSeq
  <2>3. <<>> \o SubSeq(s, 2, Len(s)) = SubSeq(s, 2, Len(s))
    BY <2>2, ConcatEmptySeq
  <2>4. QED BY <2>1, <2>3, TailIsSubSeq DEF RemoveAt
<1>3. Head(s) = s[1] /\ 1 \in DOMAIN s
  BY <1>1 DEF Head
<1>4. /\ RemoveAt(s, 1) \in Seq(S) /\ Len(RemoveAt(s, 1)) = Len(s) - 1
      /\ IsInjective(s) => /\ IsInjective(RemoveAt(s, 1))
                           /\ Range(RemoveAt(s, 1)) = Range(s) \ {s[1]}
  BY <1>3, RemovedAt
<1>5. s[1] \in Range(s)
  BY <1>1
<1>6. QED BY <1>2, <1>3, <1>4, <1>5

LEMMA FrontOfSeq ==
  ASSUME NEW S, NEW s \in Seq(S), s # <<>>
  PROVE  /\ Last(s) \in Range(s) /\ Last(s) \in S
         /\ Front(s) \in Seq(S) /\ Len(Front(s)) = Len(s) - 1
         /\ IsInjective(s) => IsInjective(Front(s)) /\ Range(Front(s)) = Range(s) \ {Last(s)}
<1>1. Len(s) \in Nat /\ Len(s) >= 1 /\ DOMAIN s = 1..Len(s) /\ Len(s) \in DOMAIN s
      /\ Range(s) = {s[i] : i \in 1..Len(s)}
  BY EmptySeq, LenProperties, RangeEquality
<1>2. Front(s) = RemoveAt(s, Len(s))
  <2>1. SubSeq(s, Len(s) + 1, Len(s)) = <<>>
    BY <1>1, SubSeqEmpty
  <2>2. Front(s) \in Seq(S)
    BY <1>1, PartOfSeq DEF Front
  <2>3. Front(s) \o <<>> = Front(s)
    BY <2>2, ConcatEmptySeq
  <2>4. QED BY <2>1, <2>3 DEF RemoveAt, Front
<1>3. Last(s) = s[Len(s)] /\ Last(s) \in S
  BY <1>1, ElementOfSeq, SMTT(30) DEF Last
<1>4. /\ RemoveAt(s, Len(s)) \in Seq(S) /\ Len(RemoveAt(s, Len(s))) = Len(s) - 1
      /\ IsInjective(s) => /\ IsInjective(RemoveAt(s, Len(s)))
                           /\ Range(RemoveAt(s, Len(s))) = Range(s) \ {s[Len(s)]}
  BY <1>1, RemovedAt
<1>5. s[Len(s)] \in Range(s)
  BY <1>1
<1>6. QED BY <1>2, <1>3, <1>4, <1>5

LEMMA RestOfSeq ==
  ASSUME NEW S, NEW s \in Seq(S), NEW n \in 0..Len(s)
  PROVE  LET rest == SubSeq(s, n + 1, Len(s))
         IN  /\ rest \in Seq(S) /\ Len(rest) = Len(s) - n
             /\ Range(s) = {s[i] : i \in 1..n} \cup Range(rest)
             /\ IsInjective(s) => /\ IsInjective(rest)
                                  /\ {s[i] : i \in 1..n} \cap Range(rest) = {}
<1> DEFINE rest == SubSeq(s, n + 1, Len(s))
<1>1. Len(s) \in Nat /\ DOMAIN s = 1..Len(s) /\ Range(s) = {s[i] : i \in 1..Len(s)}
  BY LenProperties, RangeEquality
<1>2. n + 1 \in Int /\ 1 <= n + 1 /\ n + 1 <= Len(s) + 1 /\ Len(s) <= Len(s)
  BY <1>1
<1>3. /\ rest \in Seq(S) /\ Len(rest) = Len(s) - (n + 1) + 1
      /\ Range(rest) = {s[i] : i \in (n + 1)..Len(s)}
      /\ IsInjective(s) => IsInjective(rest)
  <2> DEFINE m == n + 1
  <2>1. m \in Int /\ Len(s) \in Int /\ 1 <= m /\ m <= Len(s) + 1 /\ Len(s) <= Len(s)
    BY <1>1, <1>2
  <2> HIDE DEF m
  <2>2. LET t == SubSeq(s, m, Len(s))
        IN  /\ t \in Seq(S) /\ Len(t) = Len(s) - m + 1
            /\ Range(t) = {s[i] : i \in m..Len(s)}
            /\ IsInjective(s) => IsInjective(t)
    BY <2>1, PartOfSeq
  <2>3. QED BY <2>2 DEF m
<1>4. 1..Len(s) = (1..n) \cup ((n + 1)..Len(s))
  BY <1>1
<1>5. ASSUME IsInjective(s), NEW i \in 1..n, NEW j \in (n + 1)..Len(s)
      PROVE  s[i] # s[j]
  BY <1>1, <1>5 DEF IsInjective
<1> HIDE DEF rest
<1>6. Range(s) = {s[i] : i \in 1..n} \cup Range(rest)
  BY <1>1, <1>3, <1>4
<1>7. IsInjective(s) => {s[i] : i \in 1..n} \cap Range(rest) = {}
  BY <1>3, <1>5
<1>8. Len(rest) = Len(s) - n
  BY <1>1, <1>3
<1>9. QED BY <1>3, <1>6, <1>7, <1>8 DEF rest

-----------------------------------------------------------------------------
(* One lemma per conjunct of the inductive invariant *)

LEMMA TypeKept ==
  ASSUME TypeOK, QueueInv, CountInv, EveryConnectionOwned, [Next]_vars
  PROVE  TypeOK'
<1> USE PoolAssumption DEF TypeOK, Steps, Goto, poolVars, closeVars
<1>0. Len(idle) \in Nat /\ Len(queue) \in Nat
  BY LenProperties
<1>1. ASSUME NEW c \in Callers, Get(c) \/ DialFails(c) \/ PutChecks(c) PROVE TypeOK'
  BY <1>1 DEF Get, DialFails, PutChecks
<1>2. ASSUME NEW c \in Callers, TryAcquire(c) PROVE TypeOK'
  <2>1. Append(queue, c) \in Seq(Callers)
    BY AppendProperties
  <2>2. sem' \in 0..MaxTotal
    BY <1>2 DEF TryAcquire
  <2>5. queue' \in Seq(Callers)
    BY <1>2, <2>1 DEF TryAcquire
  <2>3. pc' \in [Callers -> Steps]
    BY <1>2 DEF TryAcquire
  <2>4. QED BY <1>2, <2>2, <2>5, <2>3 DEF TryAcquire
<1>3. ASSUME NEW c \in Callers, WaitEnds(c) PROVE TypeOK'
  <2>1. \A i \in DOMAIN queue : RemoveAt(queue, i) \in Seq(Callers)
    BY RemovedAt
  <2>2. queue' \in Seq(Callers)
    BY <1>3, <2>1 DEF WaitEnds
  <2>3. QED BY <1>3, <2>2 DEF WaitEnds
<1>4. ASSUME NEW c \in Callers, TakeIdle(c) PROVE TypeOK'
  <2>1. idle # <<>>
    BY <1>0, <1>4, EmptySeq DEF TakeIdle
  <2>2. /\ Front(idle) \in Seq(Conns) /\ Len(Front(idle)) = Len(idle) - 1
        /\ Last(idle) \in Conns
    BY <2>1, FrontOfSeq
  <2>3. stale' \in 0..Len(idle') /\ idle' \in Seq(Conns)
    BY <1>0, <1>4, <2>2 DEF TakeIdle
  <2>4. QED BY <1>4, <2>2, <2>3 DEF TakeIdle
<1>5. ASSUME NEW c \in Callers, NoIdle(c) PROVE TypeOK'
  <2>1. idle' \in Seq(Conns) /\ Len(idle') = 0
    BY <1>5, EmptySeq DEF NoIdle
  <2>2. QED BY <1>5, <2>1 DEF NoIdle
<1>6. ASSUME NEW c \in Callers, NEW k \in Conns, DialSucceeds(c, k) PROVE TypeOK'
  BY <1>6 DEF DialSucceeds
<1>7. ASSUME NEW c \in Callers, GiveBack(c) \/ Drop(c) PROVE TypeOK'
  BY <1>7 DEF GiveBack, Drop
<1>8. ASSUME NEW c \in Callers, Shelve(c) PROVE TypeOK'
  <2>1. conn[c] \in Conns
    BY <1>8 DEF Shelve, EveryConnectionOwned, Holding
  <2>2. Append(idle, conn[c]) \in Seq(Conns) /\ Len(Append(idle, conn[c])) = Len(idle) + 1
    BY <2>1, AppendedSeq
  <2>3. idle' \in Seq(Conns) /\ stale' \in 0..Len(idle')
    <3>1. CASE idle' = idle
      BY <1>8, <3>1 DEF Shelve
    <3>2. CASE idle' = Append(idle, conn[c])
      BY <1>0, <1>8, <2>2, <3>2 DEF Shelve
    <3>3. QED BY <1>8, <3>1, <3>2 DEF Shelve
  <2>4. conn' \in [Callers -> Conns \cup {NoConn}] /\ pc' \in [Callers -> Steps]
    BY <1>8 DEF Shelve
  <2>5. QED BY <1>8, <2>3, <2>4 DEF Shelve
<1>9. ASSUME NEW c \in Callers, Release(c) PROVE TypeOK'
  <2>1. CASE queue = <<>>
    <3>1. sem >= 1
      <4>1. c \in AtStep(Slotted)
        BY <1>9 DEF Release, AtStep, Slotted
      <4>2. Cardinality(AtStep(Slotted)) # 0
        BY <4>1, FS_EmptySet DEF CountInv
      <4>3. QED BY <4>2 DEF CountInv
    <3>2. QED BY <1>9, <2>1, <3>1 DEF Release
  <2>2. CASE queue # <<>>
    <3>1. Tail(queue) \in Seq(Callers)
      BY <2>2, TailOfSeq
    <3>2. QED BY <1>9, <2>2, <3>1 DEF Release
  <2>3. QED BY <2>1, <2>2
<1>10. ASSUME CleanupIdle PROVE TypeOK'
  <2>1. /\ SubSeq(idle, stale + 1, Len(idle)) \in Seq(Conns)
        /\ Len(SubSeq(idle, stale + 1, Len(idle))) = Len(idle) - stale
    BY RestOfSeq
  <2>2. idle' \in Seq(Conns) /\ stale' \in 0..Len(idle')
    BY <1>0, <1>10, <2>1 DEF CleanupIdle
  <2>3. QED BY <1>10, <2>2 DEF CleanupIdle
<1>11. ASSUME CloseSwaps PROVE TypeOK'
  <2>1. Range(idle) \subseteq Conns
    BY RangeOfSeq
  <2>2. idle' \in Seq(Conns) /\ Len(idle') = 0
    BY <1>11, EmptySeq DEF CloseSwaps
  <2>3. QED BY <1>11, <2>1, <2>2 DEF CloseSwaps
<1>12. ASSUME CleanupChecks \/ CloseSets \/ UNCHANGED vars PROVE TypeOK'
  BY <1>12 DEF CleanupChecks, CloseSets, vars
<1>15. ASSUME Age PROVE TypeOK'
  BY <1>0, <1>15 DEF Age
<1>13. ASSUME NEW k \in Conns, CloseOne(k) PROVE TypeOK'
  BY <1>13 DEF CloseOne
<1>14. QED
  BY <1>1, <1>2, <1>3, <1>4, <1>5, <1>6, <1>7, <1>8, <1>9, <1>10, <1>11, <1>12, <1>13,
     <1>15 DEF Next, Caller, Close

LEMMA QueueKept ==
  ASSUME TypeOK, QueueInv, [Next]_vars
  PROVE  QueueInv'
<1> DEFINE waiting == AtStep({"wait"})
<1>0. waiting' = {c \in Callers : pc'[c] = "wait"} /\ waiting = {c \in Callers : pc[c] = "wait"}
  BY DEF AtStep
<1>1. ASSUME queue' = queue, waiting' = waiting PROVE QueueInv'
  BY <1>1 DEF QueueInv
<1>2. ASSUME NEW c \in Callers, NEW step \in Steps \ {"wait"},
             queue' = queue, pc[c] # "wait", Goto(c, step)
      PROVE  QueueInv'
  <2>1. waiting' = waiting
    BY <1>0, <1>2 DEF Goto, TypeOK
  <2>2. QED BY <1>1, <1>2, <2>1
<1>3. ASSUME NEW c \in Callers, TryAcquire(c) PROVE QueueInv'
  <2>1. CASE sem < MaxTotal /\ Goto(c, "slot") /\ UNCHANGED queue
    BY <1>2, <1>3, <2>1 DEF TryAcquire, Steps
  <2>2. CASE queue' = Append(queue, c) /\ Goto(c, "wait")
    <3>1. c \notin Range(queue)
      BY <1>0, <1>3 DEF QueueInv, TryAcquire
    <3>2. IsInjective(queue') /\ Range(queue') = Range(queue) \cup {c}
      BY <2>2, <3>1, AppendedSeq DEF QueueInv, TypeOK
    <3>3. waiting' = waiting \cup {c}
      BY <1>0, <2>2 DEF Goto, TypeOK
    <3>4. QED BY <3>2, <3>3 DEF QueueInv
  <2>3. QED BY <1>3, <2>1, <2>2 DEF TryAcquire
<1>4. ASSUME NEW c \in Callers, WaitEnds(c) PROVE QueueInv'
  <2>1. PICK i \in DOMAIN queue : queue[i] = c /\ queue' = RemoveAt(queue, i)
    BY <1>4 DEF WaitEnds
  <2>2. IsInjective(queue') /\ Range(queue') = Range(queue) \ {c}
    BY <2>1, RemovedAt DEF QueueInv, TypeOK
  <2>3. waiting' = waiting \ {c}
    BY <1>0, <1>4 DEF WaitEnds, Goto, TypeOK
  <2>4. QED BY <2>2, <2>3 DEF QueueInv
<1>5. ASSUME NEW c \in Callers, Release(c) PROVE QueueInv'
  <2>1. CASE queue = <<>>
    BY <1>2, <1>5, <2>1 DEF Release, Steps
  <2>2. CASE queue # <<>>
    <3>1. /\ Head(queue) \in Range(queue)
          /\ IsInjective(Tail(queue)) /\ Range(Tail(queue)) = Range(queue) \ {Head(queue)}
      BY <2>2, TailOfSeq DEF QueueInv, TypeOK
    <3>2. queue' = Tail(queue) /\ pc' = [pc EXCEPT ![c] = "outside", ![Head(queue)] = "slot"]
      BY <1>5, <2>2 DEF Release
    <3>3. pc[c] # "wait"
      BY <1>5 DEF Release
    <3>4. waiting' = waiting \ {Head(queue)}
      BY <1>0, <3>2, <3>3 DEF TypeOK
    <3>5. QED BY <3>1, <3>2, <3>4 DEF QueueInv
  <2>3. QED BY <2>1, <2>2
<1>6. ASSUME NEW c \in Callers,
             \/ Get(c) \/ TakeIdle(c) \/ NoIdle(c) \/ \E k \in Conns : DialSucceeds(c, k)
             \/ DialFails(c) \/ GiveBack(c) \/ PutChecks(c) \/ Shelve(c) \/ Drop(c)
      PROVE  QueueInv'
  <2>1. \E step \in Steps \ {"wait"} : queue' = queue /\ pc[c] # "wait" /\ Goto(c, step)
    BY <1>6 DEF Get, TakeIdle, NoIdle, DialSucceeds, DialFails, GiveBack, PutChecks, Shelve,
                Drop, Steps
  <2>2. QED BY <1>2, <2>1
<1>7. ASSUME CleanupChecks \/ CleanupIdle \/ Close \/ Age \/ UNCHANGED vars PROVE QueueInv'
  <2>1. queue' = queue /\ pc' = pc
    BY <1>7 DEF CleanupChecks, CleanupIdle, Close, CloseSets, CloseSwaps, CloseOne, Age, vars
  <2>2. QED BY <1>0, <1>1, <2>1
<1>8. QED BY <1>3, <1>4, <1>5, <1>6, <1>7 DEF Next, Caller

\* Which steps change the counts: each of one goroutine changes them by one at most,
\* and a slot handed over changes none.
LEMMA CountKept ==
  ASSUME TypeOK, QueueInv, CountInv, [Next]_vars
  PROVE  CountInv'
<1> DEFINE slotted(f) == {d \in Callers : f[d] \in Slotted}
           lent(f) == {d \in Callers : f[d] \in {"hold"}}
<1>0. /\ AtStep(Slotted) = slotted(pc) /\ AtStep(Slotted)' = slotted(pc')
      /\ AtStep({"hold"}) = lent(pc) /\ AtStep({"hold"})' = lent(pc')
  BY DEF AtStep
<1>1. /\ IsFiniteSet(slotted(pc)) /\ sem = Cardinality(slotted(pc)) /\ sem \in 0..MaxTotal
      /\ IsFiniteSet(lent(pc)) /\ totalOut = Cardinality(lent(pc)) /\ totalOut \in Int
      /\ pc \in [Callers -> Steps]
      /\ queue # <<>> => sem = MaxTotal
  BY <1>0 DEF CountInv, TypeOK
<1> SUFFICES /\ IsFiniteSet(slotted(pc')) /\ sem' = Cardinality(slotted(pc'))
             /\ IsFiniteSet(lent(pc')) /\ totalOut' = Cardinality(lent(pc'))
             /\ queue' # <<>> => sem' = MaxTotal
  BY <1>0 DEF CountInv
<1>2. ASSUME NEW c \in Callers, NEW step \in Steps
      PROVE  LET g == [pc EXCEPT ![c] = step]
             IN  /\ g \in [Callers -> Steps]
                 /\ IsFiniteSet(slotted(g))
                 /\ Cardinality(slotted(g)) =
                      IF pc[c] \in Slotted THEN IF step \in Slotted THEN sem ELSE sem - 1
                      ELSE IF step \in Slotted THEN sem + 1 ELSE sem
                 /\ IsFiniteSet(lent(g))
                 /\ Cardinality(lent(g)) =
                      IF pc[c] \in {"hold"} THEN IF step \in {"hold"} THEN totalOut ELSE totalOut - 1
                      ELSE IF step \in {"hold"} THEN totalOut + 1 ELSE totalOut
  <2> DEFINE g == [pc EXCEPT ![c] = step]
  <2>1. pc \in [Callers -> Steps]
    BY <1>1
  <2>2. g \in [Callers -> Steps]
    BY <2>1
  <2>3. /\ IsFiniteSet(slotted(g))
        /\ Cardinality(slotted(g)) =
             IF pc[c] \in Slotted
             THEN IF step \in Slotted THEN Cardinality(slotted(pc)) ELSE Cardinality(slotted(pc)) - 1
             ELSE IF step \in Slotted THEN Cardinality(slotted(pc)) + 1 ELSE Cardinality(slotted(pc))
    <3>1. IsFiniteSet({d \in Callers : pc[d] \in Slotted})
      BY <1>1
    <3>2. QED BY <2>1, <3>1, OneMoves
  <2>4. /\ IsFiniteSet(lent(g))
        /\ Cardinality(lent(g)) =
             IF pc[c] \in {"hold"}
             THEN IF step \in {"hold"} THEN Cardinality(lent(pc)) ELSE Cardinality(lent(pc)) - 1
             ELSE IF step \in {"hold"} THEN Cardinality(lent(pc)) + 1 ELSE Cardinality(lent(pc))
    <3>1. IsFiniteSet({d \in Callers : pc[d] \in {"hold"}})
      BY <1>1
    <3>2. QED BY <2>1, <3>1, OneMoves
  <2> HIDE DEF g, slotted, lent
  <2>5. /\ Cardinality(slotted(pc)) = sem /\ Cardinality(lent(pc)) = totalOut
    BY <1>1
  <2>6. QED BY <2>2, <2>3, <2>4, <2>5 DEF g
<1> HIDE DEF slotted, lent
<1>3. ASSUME NEW c \in Callers,
             \/ Get(c) \/ TakeIdle(c) \/ NoIdle(c) \/ \E k \in Conns : DialSucceeds(c, k)
             \/ DialFails(c) \/ GiveBack(c) \/ PutChecks(c) \/ Shelve(c) \/ Drop(c)
      PROVE  /\ queue' = queue /\ sem' = sem
             /\ IsFiniteSet(slotted(pc')) /\ Cardinality(slotted(pc')) = sem
             /\ IsFiniteSet(lent(pc')) /\ Cardinality(lent(pc')) = totalOut'
  <2>1. PICK step \in Steps :
          /\ queue' = queue /\ sem' = sem /\ pc' = [pc EXCEPT ![c] = step]
          /\ pc[c] \in Slotted <=> step \in Slotted
          /\ totalOut' = IF step = "hold" THEN totalOut + 1
                         ELSE IF pc[c] = "hold" THEN totalOut - 1 ELSE totalOut
          /\ ~(pc[c] = "hold" /\ step = "hold")
    BY <1>3 DEF Get, TakeIdle, NoIdle, DialSucceeds, DialFails, GiveBack, PutChecks, Shelve,
                Drop, Steps, Goto, Slotted, Holding, poolVars
  <2>2. QED BY <1>2, <2>1
<1>4. ASSUME NEW c \in Callers, TryAcquire(c)
      PROVE  /\ sem' = Cardinality(slotted(pc')) /\ IsFiniteSet(slotted(pc'))
             /\ totalOut' = Cardinality(lent(pc')) /\ IsFiniteSet(lent(pc'))
             /\ queue' # <<>> => sem' = MaxTotal
  <2>1. pc[c] \notin Slotted /\ pc[c] # "hold" /\ totalOut' = totalOut /\ "wait" \notin Slotted
        /\ "slot" \in Slotted /\ "wait" \in Steps /\ "slot" \in Steps
    BY <1>4 DEF TryAcquire, Slotted, Holding, Steps, poolVars
  <2>2. CASE sem < MaxTotal /\ sem' = sem + 1 /\ Goto(c, "slot") /\ UNCHANGED queue
    <3>1. pc' = [pc EXCEPT ![c] = "slot"]
      BY <2>2 DEF Goto
    <3>2. queue = <<>>
      BY <1>1, <2>2
    <3>3. QED BY <1>2, <2>1, <2>2, <3>1, <3>2
  <2>3. CASE sem = MaxTotal /\ Goto(c, "wait") /\ UNCHANGED sem
    <3>1. pc' = [pc EXCEPT ![c] = "wait"]
      BY <2>3 DEF Goto
    <3>2. QED BY <1>2, <2>1, <2>3, <3>1
  <2>4. QED BY <1>4, <2>2, <2>3 DEF TryAcquire
<1>5. ASSUME NEW c \in Callers, WaitEnds(c)
      PROVE  /\ sem' = Cardinality(slotted(pc')) /\ IsFiniteSet(slotted(pc'))
             /\ totalOut' = Cardinality(lent(pc')) /\ IsFiniteSet(lent(pc'))
             /\ queue' # <<>> => sem' = MaxTotal
  <2>1. queue # <<>>
    <3>1. c \in Range(queue)
      BY <1>5 DEF WaitEnds, QueueInv, AtStep
    <3>2. Range(<<>>) = {}
      BY DEF Range
    <3>3. QED BY <3>1, <3>2
  <2>2. /\ pc[c] \notin Slotted /\ pc[c] # "hold" /\ totalOut' = totalOut /\ sem' = sem
        /\ pc' = [pc EXCEPT ![c] = "outside"]
        /\ "outside" \notin Slotted /\ "outside" \in Steps
    BY <1>5 DEF WaitEnds, Slotted, Holding, Steps, Goto, poolVars
  <2>3. QED BY <1>1, <1>2, <2>1, <2>2
<1>6. ASSUME NEW c \in Callers, Release(c)
      PROVE  /\ sem' = Cardinality(slotted(pc')) /\ IsFiniteSet(slotted(pc'))
             /\ totalOut' = Cardinality(lent(pc')) /\ IsFiniteSet(lent(pc'))
             /\ queue' # <<>> => sem' = MaxTotal
  <2> DEFINE g == [pc EXCEPT ![c] = "outside"]
  <2>1. /\ pc[c] \in Slotted /\ pc[c] # "hold" /\ totalOut' = totalOut
        /\ "outside" \notin Slotted /\ "outside" \in Steps
        /\ "slot" \in Slotted /\ "slot" \in Steps
    BY <1>6 DEF Release, Slotted, Holding, Steps, poolVars
  <2>2. /\ g \in [Callers -> Steps]
        /\ IsFiniteSet(slotted(g)) /\ Cardinality(slotted(g)) = sem - 1
        /\ IsFiniteSet(lent(g)) /\ Cardinality(lent(g)) = totalOut
    BY <1>2, <2>1
  <2>3. CASE queue = <<>>
    <3>1. pc' = g /\ sem' = sem - 1 /\ queue' = queue
      BY <1>6, <2>3 DEF Release, Goto
    <3>2. QED BY <2>1, <2>2, <2>3, <3>1
  <2>4. CASE queue # <<>>
    <3> DEFINE h == Head(queue)
    <3>1. h \in Callers /\ pc[h] = "wait"
      <4>1. h \in Range(queue)
        BY <2>4, TailOfSeq DEF TypeOK
      <4>2. QED BY <4>1 DEF QueueInv, AtStep
    <3>2. sem' = sem /\ pc' = [pc EXCEPT ![c] = "outside", ![h] = "slot"]
      BY <1>6, <2>4 DEF Release
    <3> HIDE DEF h
    <3>3. pc' = [g EXCEPT ![h] = "slot"]
      BY <3>2
    <3>4. h # c /\ g[h] = "wait"
      BY <1>1, <1>6, <3>1 DEF Release
    <3>5. g[h] \notin Slotted
      BY <3>4 DEF Slotted, Holding
    <3> HIDE DEF g
    <3>6. /\ IsFiniteSet(slotted(pc')) /\ Cardinality(slotted(pc')) = Cardinality(slotted(g)) + 1
      <4>1. IsFiniteSet({d \in Callers : g[d] \in Slotted})
        BY <2>2 DEF slotted
      <4> DEFINE old == {d \in Callers : g[d] \in Slotted}
                 new == {d \in Callers : [g EXCEPT ![h] = "slot"][d] \in Slotted}
      <4>2. /\ IsFiniteSet(new)
            /\ Cardinality(new) =
                 IF g[h] \in Slotted
                 THEN IF "slot" \in Slotted THEN Cardinality(old) ELSE Cardinality(old) - 1
                 ELSE IF "slot" \in Slotted THEN Cardinality(old) + 1 ELSE Cardinality(old)
        <5>1. g \in [Callers -> Steps] /\ h \in Callers /\ "slot" \in Steps
          BY <2>1, <2>2, <3>1
        <5>2. IsFiniteSet(old)
          BY <4>1
        <5>3. QED BY <5>1, <5>2, OneMoves
      <4>3. slotted(pc') = new /\ slotted(g) = old
        BY <3>3 DEF slotted
      <4> HIDE DEF old, new
      <4>4. QED BY <2>1, <3>5, <4>2, <4>3
    <3>7. /\ IsFiniteSet(lent(pc')) /\ Cardinality(lent(pc')) = Cardinality(lent(g))
      <4>1. IsFiniteSet({d \in Callers : g[d] \in {"hold"}})
        BY <2>2 DEF lent
      <4>2. g[h] \notin {"hold"} /\ "slot" \notin {"hold"}
        BY <3>4
      <4>3. QED BY <2>1, <2>2, <3>1, <3>3, <4>1, <4>2, OneMoves DEF lent
    <3>8. QED BY <1>1, <2>1, <2>2, <2>4, <3>2, <3>6, <3>7
  <2>5. QED BY <2>3, <2>4
<1>7. ASSUME CleanupChecks \/ CleanupIdle \/ Close \/ Age \/ UNCHANGED vars
      PROVE  queue' = queue /\ pc' = pc /\ sem' = sem /\ totalOut' = totalOut
  BY <1>7 DEF CleanupChecks, CleanupIdle, Close, CloseSets, CloseSwaps, CloseOne, Age, vars,
              poolVars
<1>8. CASE \E c \in Callers : Caller(c)
  <2>1. PICK c \in Callers : Caller(c)
    BY <1>8
  <2>2. CASE TryAcquire(c) \/ WaitEnds(c) \/ Release(c)
    BY <1>4, <1>5, <1>6, <2>2
  <2>3. CASE ~(TryAcquire(c) \/ WaitEnds(c) \/ Release(c))
    <3>1. /\ queue' = queue /\ sem' = sem
          /\ IsFiniteSet(slotted(pc')) /\ Cardinality(slotted(pc')) = sem
          /\ IsFiniteSet(lent(pc')) /\ Cardinality(lent(pc')) = totalOut'
      BY <1>3, <2>1, <2>3 DEF Caller
    <3>2. QED BY <1>1, <3>1
  <2>4. QED BY <2>2, <2>3
<1>9. CASE CleanupChecks \/ CleanupIdle \/ Close \/ Age \/ UNCHANGED vars
  BY <1>1, <1>7, <1>9
<1>10. QED BY <1>8, <1>9 DEF Next

LEMMA RoomKept ==
  ASSUME TypeOK, TypeOK', QueueInv, CountInv', RoomInv, EveryConnectionOwned, [Next]_vars
  PROVE  RoomInv'
<1> DEFINE busy == AtStep(Serving)
           n == Cardinality(busy)
<1>0. busy = {d \in Callers : pc[d] \in Serving} /\ busy' = {d \in Callers : pc'[d] \in Serving}
  BY DEF AtStep
<1>1. /\ IsFiniteSet(busy) /\ n \in Nat /\ n + Len(idle) <= MaxTotal /\ Len(idle) <= MaxIdle
      /\ Len(idle) \in Nat /\ pc \in [Callers -> Steps]
      /\ MaxTotal \in Nat /\ MaxIdle \in Nat
  BY FS_CardinalityType, LenProperties, PoolAssumption DEF RoomInv, TypeOK
<1>2. ASSUME NEW c \in Callers, NEW step \in Steps, Goto(c, step)
      PROVE  /\ IsFiniteSet(busy')
             /\ n' \in Nat
             /\ n' = IF pc[c] \in Serving THEN IF step \in Serving THEN n ELSE n - 1
                     ELSE IF step \in Serving THEN n + 1 ELSE n
  <2> DEFINE old == {d \in Callers : pc[d] \in Serving}
             new == {d \in Callers : [pc EXCEPT ![c] = step][d] \in Serving}
  <2>1. busy = old /\ busy' = new
    BY <1>0, <1>2 DEF Goto
  <2>2. IsFiniteSet(old) /\ pc \in [Callers -> Steps]
    BY <1>1, <2>1
  <2>3. /\ IsFiniteSet(new) /\ Cardinality(new) \in Nat
        /\ Cardinality(new) =
             IF pc[c] \in Serving THEN IF step \in Serving THEN Cardinality(old) ELSE Cardinality(old) - 1
             ELSE IF step \in Serving THEN Cardinality(old) + 1 ELSE Cardinality(old)
    BY <2>2, OneMoves
  <2> HIDE DEF busy, old, new
  <2>4. QED BY <2>1, <2>3
<1>3. ASSUME NEW c \in Callers,
             \/ Get(c) \/ TryAcquire(c) \/ WaitEnds(c) \/ \E k \in Conns : DialSucceeds(c, k)
             \/ DialFails(c) \/ GiveBack(c) \/ PutChecks(c) \/ Drop(c)
      PROVE  RoomInv'
  <2>1. PICK step \in Steps : Goto(c, step) /\ idle' = idle /\ (step \in Serving => pc[c] \in Serving)
    BY <1>3 DEF Get, TryAcquire, WaitEnds, DialSucceeds, DialFails, GiveBack, PutChecks, Drop,
                Steps, Serving, Holding, poolVars
  <2>2. IsFiniteSet(busy') /\ n' <= n /\ n' \in Nat
    <3> HIDE DEF busy
    <3>1. QED BY <1>1, <1>2, <2>1
  <2>3. QED BY <1>1, <2>1, <2>2 DEF RoomInv
<1>4. ASSUME NEW c \in Callers, TakeIdle(c) PROVE RoomInv'
  <2>1. idle # <<>>
    BY <1>1, <1>4, EmptySeq DEF TakeIdle, TypeOK
  <2>2. Len(idle') = Len(idle) - 1
    BY <1>4, <2>1, FrontOfSeq DEF TakeIdle, TypeOK
  <2>3. Goto(c, "hold") /\ "hold" \in Steps
    BY <1>4 DEF TakeIdle, Steps
  <2>4. IsFiniteSet(busy') /\ n' <= n + 1 /\ n' \in Nat
    <3> HIDE DEF busy
    <3>1. QED BY <1>1, <1>2, <2>3
  <2>5. QED BY <1>1, <2>2, <2>4 DEF RoomInv
<1>5. ASSUME NEW c \in Callers, NoIdle(c) PROVE RoomInv'
  <2>1. Len(idle') = 0
    BY <1>5, EmptySeq DEF NoIdle
  <2>2. AtStep(Serving)' \subseteq AtStep(Slotted)'
    BY DEF AtStep, Serving, Slotted
  <2>3. IsFiniteSet(AtStep(Serving)') /\ Cardinality(AtStep(Serving)') <= Cardinality(AtStep(Slotted)')
    BY <2>2, FS_Subset DEF CountInv
  <2>4. Cardinality(AtStep(Slotted)') <= MaxTotal /\ Cardinality(AtStep(Slotted)') \in Nat
    BY <1>1 DEF CountInv, TypeOK
  <2>5. Cardinality(AtStep(Serving)') \in Nat
    BY <2>3, FS_CardinalityType
  <2>6. QED BY <1>1, <2>1, <2>3, <2>4, <2>5 DEF RoomInv
<1>6. ASSUME NEW c \in Callers, Shelve(c) PROVE RoomInv'
  <2>1. CASE Goto(c, "drop") /\ idle' = idle
    <3>1. pc[c] \in Serving /\ "drop" \in Steps
      BY <1>6 DEF Shelve, Serving, Holding, Steps
    <3>2. IsFiniteSet(busy') /\ n' <= n /\ n' \in Nat
      <4> HIDE DEF busy
      <4>1. QED BY <1>1, <1>2, <2>1, <3>1
    <3>3. QED BY <1>1, <2>1, <3>2 DEF RoomInv
  <2>2. CASE Len(idle) < MaxIdle /\ idle' = Append(idle, conn[c]) /\ Goto(c, "release")
    <3>1. pc[c] \in Serving /\ "release" \in Steps /\ "release" \notin Serving
      BY <1>6 DEF Shelve, Serving, Holding, Steps
    <3>2. IsFiniteSet(busy') /\ n' = n - 1 /\ n' \in Nat
      <4> HIDE DEF busy
      <4>1. QED BY <1>1, <1>2, <2>2, <3>1
    <3>3. conn[c] \in Conns
      BY <1>6 DEF Shelve, EveryConnectionOwned, Holding, TypeOK
    <3>4. Len(idle') = Len(idle) + 1
      BY <2>2, <3>3, AppendedSeq DEF TypeOK
    <3>5. QED BY <1>1, <2>2, <3>2, <3>4 DEF RoomInv
  <2>3. QED BY <1>6, <2>1, <2>2 DEF Shelve
<1>7. ASSUME busy' = busy, Len(idle') <= Len(idle) PROVE RoomInv'
  <2>1. Len(idle') \in Nat
    BY LenProperties DEF TypeOK
  <2>2. QED BY <1>1, <1>7, <2>1 DEF RoomInv
<1>8. ASSUME NEW c \in Callers, Release(c) PROVE RoomInv'
  <2>1. /\ \A d \in Callers : pc[d] \in Serving <=> pc'[d] \in Serving
        /\ idle' = idle
    <3>1. CASE queue = <<>>
      BY <1>1, <1>8, <3>1 DEF Release, Goto, Serving, Holding, poolVars
    <3>2. CASE queue # <<>>
      <4>1. Head(queue) \in Callers /\ pc[Head(queue)] = "wait"
        BY <3>2, TailOfSeq DEF TypeOK, QueueInv, AtStep
      <4>2. QED BY <1>1, <1>8, <3>2, <4>1 DEF Release, Serving, Holding, poolVars
    <3>3. QED BY <3>1, <3>2
  <2>2. QED BY <1>0, <1>1, <1>7, <2>1
<1>9. ASSUME CleanupIdle PROVE RoomInv'
  <2>1. Len(SubSeq(idle, stale + 1, Len(idle))) = Len(idle) - stale /\ stale \in 0..Len(idle)
    BY RestOfSeq DEF TypeOK
  <2>2. Len(idle') <= Len(idle) /\ pc' = pc
    BY <1>1, <1>9, <2>1 DEF CleanupIdle
  <2>3. QED BY <1>0, <1>7, <2>2
<1>10. ASSUME CloseSwaps PROVE RoomInv'
  <2>1. Len(idle') <= Len(idle) /\ pc' = pc
    BY <1>1, <1>10, EmptySeq DEF CloseSwaps
  <2>2. QED BY <1>0, <1>7, <2>1
<1>11. ASSUME CleanupChecks \/ CloseSets \/ (\E k \in Conns : CloseOne(k)) \/ Age \/ UNCHANGED vars
       PROVE  RoomInv'
  <2>1. idle' = idle /\ pc' = pc
    BY <1>11 DEF CleanupChecks, CloseSets, CloseOne, Age, vars, poolVars
  <2>2. QED BY <1>0, <1>1, <1>7, <2>1
<1>12. QED
  BY <1>3, <1>4, <1>5, <1>6, <1>8, <1>9, <1>10, <1>11 DEF Next, Caller, Close

LEMMA DoomedKept ==
  ASSUME DoomedInv, [Next]_vars
  PROVE  DoomedInv'
BY DEF DoomedInv, Next, Caller, Close, Get, TryAcquire, WaitEnds, TakeIdle, NoIdle, DialSucceeds,
       DialFails, GiveBack, PutChecks, Shelve, Drop, Release, CleanupChecks, CleanupIdle,
       CloseSets, CloseSwaps, CloseOne, Age, vars, closeVars

LEMMA OwnedKept ==
  ASSUME TypeOK, TypeOK', QueueInv, DoomedInv, EveryConnectionOwned, [Next]_vars
  PROVE  EveryConnectionOwned'
<1> DEFINE held == {c \in Callers : conn[c] # NoConn}
           had == {conn[c] : c \in held}
<1>0. /\ held = {c \in Callers : pc[c] \in Holding}
      /\ \A c, d \in held : conn[c] = conn[d] => c = d
      /\ IsInjective(idle)
      /\ open = had \cup Range(idle) \cup doomed
      /\ Range(idle) \cap doomed = {}
      /\ \A c \in held : conn[c] \notin Range(idle) \cup doomed
  BY DEF EveryConnectionOwned
<1>1. /\ pc \in [Callers -> Steps] /\ conn \in [Callers -> Conns \cup {NoConn}]
      /\ NoConn \notin Conns /\ Range(idle) \subseteq Conns /\ doomed \subseteq Conns
  BY PoolAssumption, RangeOfSeq DEF TypeOK
<1> SUFFICES /\ held' = {c \in Callers : pc'[c] \in Holding}
             /\ \A c, d \in held' : conn'[c] = conn'[d] => c = d
             /\ IsInjective(idle')
             /\ open' = had' \cup Range(idle') \cup doomed'
             /\ Range(idle') \cap doomed' = {}
             /\ \A c \in held' : conn'[c] \notin Range(idle') \cup doomed'
  BY DEF EveryConnectionOwned
<1>2. ASSUME conn' = conn, \A c \in Callers : pc[c] \in Holding <=> pc'[c] \in Holding
      PROVE  /\ held' = {c \in Callers : pc'[c] \in Holding}
             /\ \A c, d \in held' : conn'[c] = conn'[d] => c = d
             /\ had' = had
             /\ \A c \in held' : conn'[c] \in had
  BY <1>0, <1>2
<1>3. ASSUME NEW c \in Callers,
             Get(c) \/ TryAcquire(c) \/ WaitEnds(c) \/ DialFails(c) \/ GiveBack(c) \/ PutChecks(c)
      PROVE  EveryConnectionOwned'
  <2>1. /\ conn' = conn /\ idle' = idle /\ doomed' = doomed /\ open' = open
        /\ \A d \in Callers : pc[d] \in Holding <=> pc'[d] \in Holding
    BY <1>1, <1>3 DEF Get, TryAcquire, WaitEnds, DialFails, GiveBack, PutChecks, Goto, Holding,
                      poolVars, closeVars
  <2>2. QED BY <1>0, <1>2, <2>1 DEF EveryConnectionOwned
<1>4. ASSUME NEW c \in Callers, TakeIdle(c) PROVE EveryConnectionOwned'
  <2> DEFINE k == Last(idle)
  <2>1. /\ k \in Range(idle) /\ IsInjective(Front(idle)) /\ Range(Front(idle)) = Range(idle) \ {k}
    <3>1. idle # <<>>
      BY <1>4, EmptySeq, LenProperties DEF TakeIdle, TypeOK
    <3>2. QED BY <1>0, <3>1, FrontOfSeq DEF TypeOK
  <2>2. /\ conn' = [conn EXCEPT ![c] = k] /\ idle' = Front(idle) /\ open' = open
        /\ doomed' = doomed /\ pc' = [pc EXCEPT ![c] = "hold"] /\ pc[c] = "slot"
    BY <1>4 DEF TakeIdle, Goto, closeVars
  <2> HIDE DEF k
  <2>3. /\ held' = held \cup {c} /\ c \notin held /\ held' = {d \in Callers : pc'[d] \in Holding}
    BY <1>0, <1>1, <2>1, <2>2 DEF Holding
  <2>4. \A d \in held' : conn'[d] = IF d = c THEN k ELSE conn[d]
    BY <1>1, <2>2
  <2>5. had' = had \cup {k}
    BY <2>3, <2>4
  <2>6. /\ \A d, e \in held' : conn'[d] = conn'[e] => d = e
        /\ \A d \in held' : conn'[d] \notin Range(idle') \cup doomed'
    BY <1>0, <2>1, <2>2, <2>3, <2>4
  <2>7. open' = had' \cup Range(idle') \cup doomed' /\ Range(idle') \cap doomed' = {}
    BY <1>0, <2>1, <2>2, <2>5
  <2>8. QED BY <2>1, <2>2, <2>3, <2>6, <2>7 DEF EveryConnectionOwned
<1>5. ASSUME NEW c \in Callers, NoIdle(c) PROVE EveryConnectionOwned'
  <2>1. /\ conn' = conn /\ idle' = <<>> /\ doomed' = doomed /\ open' = open \ Range(idle)
        /\ \A d \in Callers : pc[d] \in Holding <=> pc'[d] \in Holding
    BY <1>1, <1>5 DEF NoIdle, Goto, Holding, closeVars
  <2>2. IsInjective(idle') /\ Range(idle') = {}
    BY <2>1 DEF IsInjective, Range
  <2>3. open' = had' \cup Range(idle') \cup doomed'
    BY <1>0, <1>2, <2>1, <2>2
  <2>4. QED BY <1>0, <1>2, <2>1, <2>2, <2>3 DEF EveryConnectionOwned
<1>6. ASSUME NEW c \in Callers, NEW k \in Conns, DialSucceeds(c, k) PROVE EveryConnectionOwned'
  <2>1. /\ conn' = [conn EXCEPT ![c] = k] /\ idle' = idle /\ open' = open \cup {k} /\ k \notin open
        /\ doomed' = doomed /\ pc' = [pc EXCEPT ![c] = "hold"] /\ pc[c] = "dial"
    BY <1>6 DEF DialSucceeds, Goto, closeVars
  <2>2. /\ held' = held \cup {c} /\ c \notin held /\ held' = {d \in Callers : pc'[d] \in Holding}
    BY <1>0, <1>1, <2>1 DEF Holding
  <2>3. \A d \in held' : conn'[d] = IF d = c THEN k ELSE conn[d]
    BY <1>1, <2>1
  <2>4. had' = had \cup {k}
    BY <2>2, <2>3
  <2>5. /\ \A d, e \in held' : conn'[d] = conn'[e] => d = e
        /\ \A d \in held' : conn'[d] \notin Range(idle') \cup doomed'
    BY <1>0, <2>1, <2>2, <2>3
  <2>6. open' = had' \cup Range(idle') \cup doomed' /\ Range(idle') \cap doomed' = {}
    BY <1>0, <2>1, <2>4
  <2>7. QED BY <1>0, <2>1, <2>2, <2>5, <2>6 DEF EveryConnectionOwned
<1>7. ASSUME NEW c \in Callers, conn' = [conn EXCEPT ![c] = NoConn],
             pc' = [pc EXCEPT ![c] = "release"], pc[c] \in {"shelve", "drop"}
      PROVE  /\ c \in held /\ held' = held \ {c} /\ held' = {d \in Callers : pc'[d] \in Holding}
             /\ \A d \in held' : conn'[d] = conn[d]
             /\ conn[c] \in Conns /\ had' = had \ {conn[c]} /\ conn[c] \in had
             /\ \A d, e \in held' : conn'[d] = conn'[e] => d = e
  <2>1. c \in held /\ conn[c] \in Conns /\ conn[c] \in had
    BY <1>0, <1>1, <1>7 DEF Holding
  <2>2. held' = held \ {c} /\ held' = {d \in Callers : pc'[d] \in Holding}
    BY <1>0, <1>1, <1>7 DEF Holding
  <2>3. \A d \in held' : conn'[d] = conn[d]
    BY <1>1, <1>7, <2>2
  <2>4. had' = had \ {conn[c]}
    BY <1>0, <2>1, <2>2, <2>3
  <2>5. QED BY <1>0, <2>1, <2>2, <2>3, <2>4
<1>8. ASSUME NEW c \in Callers, Shelve(c) PROVE EveryConnectionOwned'
  <2>1. CASE idle' = idle /\ conn' = conn /\ Goto(c, "drop")
    <3>1. open' = open /\ doomed' = doomed
      BY <1>8 DEF Shelve, closeVars
    <3>2. \A d \in Callers : pc[d] \in Holding <=> pc'[d] \in Holding
      BY <1>1, <1>8, <2>1 DEF Shelve, Goto, Holding
    <3>3. QED BY <1>0, <1>2, <2>1, <3>1, <3>2 DEF EveryConnectionOwned
  <2>2. CASE /\ idle' = Append(idle, conn[c]) /\ conn' = [conn EXCEPT ![c] = NoConn]
             /\ Goto(c, "release")
    <3>1. open' = open /\ doomed' = doomed /\ pc[c] \in {"shelve", "drop"}
      BY <1>8 DEF Shelve, closeVars
    <3>2. /\ c \in held /\ held' = held \ {c} /\ held' = {d \in Callers : pc'[d] \in Holding}
          /\ \A d \in held' : conn'[d] = conn[d]
          /\ conn[c] \in Conns /\ had' = had \ {conn[c]} /\ conn[c] \in had
          /\ \A d, e \in held' : conn'[d] = conn'[e] => d = e
      BY <1>7, <2>2, <3>1 DEF Goto
    <3>3. IsInjective(idle') /\ Range(idle') = Range(idle) \cup {conn[c]}
      BY <1>0, <2>2, <3>2, AppendedSeq DEF TypeOK
    <3>4. open' = had' \cup Range(idle') \cup doomed' /\ Range(idle') \cap doomed' = {}
      <4> HIDE DEF had, held
      <4>1. QED BY <1>0, <3>1, <3>2, <3>3
    <3>5. \A d \in held' : conn'[d] \notin Range(idle') \cup doomed'
      BY <1>0, <3>1, <3>2, <3>3
    <3>6. QED BY <3>2, <3>3, <3>4, <3>5 DEF EveryConnectionOwned
  <2>3. QED BY <1>8, <2>1, <2>2 DEF Shelve
<1>9. ASSUME NEW c \in Callers, Drop(c) PROVE EveryConnectionOwned'
  <2>1. /\ idle' = idle /\ doomed' = doomed /\ open' = open \ {conn[c]} /\ pc[c] \in {"shelve", "drop"}
        /\ conn' = [conn EXCEPT ![c] = NoConn] /\ pc' = [pc EXCEPT ![c] = "release"]
    BY <1>9 DEF Drop, Goto, closeVars
  <2>2. /\ c \in held /\ held' = held \ {c} /\ held' = {d \in Callers : pc'[d] \in Holding}
        /\ \A d \in held' : conn'[d] = conn[d]
        /\ conn[c] \in Conns /\ had' = had \ {conn[c]} /\ conn[c] \in had
        /\ \A d, e \in held' : conn'[d] = conn'[e] => d = e
    BY <1>7, <2>1
  <2>3. open' = had' \cup Range(idle') \cup doomed'
    <3>1. conn[c] \notin Range(idle) \cup doomed
      BY <1>0, <2>2
    <3> HIDE DEF had, held
    <3>2. QED BY <1>0, <2>1, <2>2, <3>1
  <2>4. \A d \in held' : conn'[d] \notin Range(idle') \cup doomed'
    BY <1>0, <2>1, <2>2
  <2>5. QED BY <1>0, <2>1, <2>2, <2>3, <2>4 DEF EveryConnectionOwned
<1>10. ASSUME NEW c \in Callers, Release(c) PROVE EveryConnectionOwned'
  <2>1. \A d \in Callers : pc[d] \in Holding <=> pc'[d] \in Holding
    <3>1. CASE queue = <<>>
      BY <1>1, <1>10, <3>1 DEF Release, Goto, Holding
    <3>2. CASE queue # <<>>
      <4>1. Head(queue) \in Callers /\ pc[Head(queue)] = "wait"
        BY <3>2, TailOfSeq DEF TypeOK, QueueInv, AtStep
      <4>2. QED BY <1>1, <1>10, <3>2, <4>1 DEF Release, Holding
    <3>3. QED BY <3>1, <3>2
  <2>2. conn' = conn /\ idle' = idle /\ open' = open /\ doomed' = doomed
    BY <1>10 DEF Release, poolVars, closeVars
  <2>3. QED BY <1>0, <1>2, <2>1, <2>2 DEF EveryConnectionOwned
<1>11. ASSUME CleanupIdle PROVE EveryConnectionOwned'
  <2> DEFINE gone == {idle[i] : i \in 1..stale}
  <2>1. /\ Range(idle) = gone \cup Range(idle') /\ gone \cap Range(idle') = {}
        /\ IsInjective(idle')
    <3>1. stale \in 0..Len(idle) /\ idle \in Seq(Conns)
      BY DEF TypeOK
    <3>2. idle' = SubSeq(idle, stale + 1, Len(idle))
      BY <1>11 DEF CleanupIdle
    <3>3. QED BY <1>0, <3>1, <3>2, RestOfSeq
  <2>2. conn' = conn /\ pc' = pc /\ doomed' = doomed /\ open' = open \ gone
    BY <1>11 DEF CleanupIdle
  <2> HIDE DEF gone
  <2>3. had' = had /\ held' = held
    BY <2>2
  <2>4. open' = had' \cup Range(idle') \cup doomed'
    <3>1. had \cap Range(idle) = {}
      BY <1>0
    <3> HIDE DEF had
    <3>2. QED BY <1>0, <2>1, <2>2, <2>3, <3>1
  <2>5. QED BY <1>0, <2>1, <2>2, <2>3, <2>4 DEF EveryConnectionOwned
<1>12. ASSUME CloseSwaps PROVE EveryConnectionOwned'
  <2>1. /\ conn' = conn /\ pc' = pc /\ open' = open /\ idle' = <<>> /\ doomed' = Range(idle)
        /\ doomed = {}
    BY <1>12 DEF CloseSwaps, DoomedInv
  <2>2. IsInjective(idle') /\ Range(idle') = {}
    BY <2>1 DEF IsInjective, Range
  <2>3. QED BY <1>0, <2>1, <2>2 DEF EveryConnectionOwned
<1>13. ASSUME NEW k \in Conns, CloseOne(k) PROVE EveryConnectionOwned'
  <2>1. /\ conn' = conn /\ pc' = pc /\ open' = open \ {k} /\ idle' = idle /\ doomed' = doomed \ {k}
        /\ k \in doomed
    BY <1>13 DEF CloseOne
  <2>2. k \notin had /\ k \notin Range(idle) /\ had' = had
    BY <1>0, <2>1
  <2>3. QED BY <1>0, <2>1, <2>2 DEF EveryConnectionOwned
<1>14. ASSUME CleanupChecks \/ CloseSets \/ Age \/ UNCHANGED vars PROVE EveryConnectionOwned'
  <2>1. conn' = conn /\ pc' = pc /\ open' = open /\ idle' = idle /\ doomed' = doomed
    BY <1>14 DEF CleanupChecks, CloseSets, Age, vars, poolVars, closeVars
  <2>2. QED BY <1>0, <2>1 DEF EveryConnectionOwned
<1>15. EveryConnectionOwned'
  BY <1>3, <1>4, <1>5, <1>6, <1>8, <1>9, <1>10, <1>11, <1>12, <1>13, <1>14 DEF Next, Caller, Close
<1>16. QED BY <1>15 DEF EveryConnectionOwned

-----------------------------------------------------------------------------
LEMMA InitIInv ==
  ASSUME Init
  PROVE  IInv
<1>1. AtStep({"wait"}) = {} /\ AtStep(Slotted) = {} /\ AtStep({"hold"}) = {} /\ AtStep(Serving) = {}
  BY DEF Init, AtStep, Slotted, Serving, Holding
<1>2. IsFiniteSet({}) /\ Cardinality({}) = 0
  BY FS_EmptySet
<1>3. /\ \A S : <<>> \in Seq(S) /\ Len(<<>>) = 0
      /\ Range(<<>>) = {} /\ IsInjective(<<>>)
  BY EmptySeq DEF Range, IsInjective
<1>4. TypeOK
  <2>1. queue \in Seq(Callers) /\ idle \in Seq(Conns) /\ Len(idle) = 0
    BY <1>3 DEF Init
  <2>2. sem \in 0..MaxTotal /\ stale \in 0..Len(idle) /\ totalOut \in Int
    BY <2>1, PoolAssumption DEF Init
  <2>3. QED BY <2>1, <2>2 DEF Init, TypeOK, Steps
<1>5. QueueInv /\ CountInv
  BY <1>1, <1>2, <1>3 DEF Init, QueueInv, CountInv
<1>8. RoomInv /\ DoomedInv
  <2>1. Len(idle) = 0
    BY <1>3 DEF Init
  <2>2. QED BY <1>1, <1>2, <2>1, PoolAssumption DEF Init, RoomInv, DoomedInv
<1>6. EveryConnectionOwned
  BY <1>3 DEF Init, EveryConnectionOwned, Holding
<1>7. QED BY <1>4, <1>5, <1>6, <1>8 DEF IInv

LEMMA StepIInv ==
  ASSUME IInv, [Next]_vars
  PROVE  IInv'
<1>1. TypeOK' /\ QueueInv' /\ CountInv' /\ DoomedInv'
  BY TypeKept, QueueKept, CountKept, DoomedKept DEF IInv
<1>2. RoomInv' /\ EveryConnectionOwned'
  BY <1>1, RoomKept, OwnedKept DEF IInv
<1>3. QED BY <1>1, <1>2 DEF IInv

\* All of it holds of every state that the pool reaches (connpool.go).
THEOREM PoolInvariant == Spec => []IInv
BY InitIInv, StepIInv, PTL DEF Spec

\* Every variable of the pool keeps its type: the channel never holds more than MaxTotal
\* slots and never gives up one that it does not hold.
THEOREM PoolTypes == Spec => []TypeOK
<1>1. IInv => TypeOK
  BY DEF IInv
<1>2. QED BY <1>1, PoolInvariant, PTL

\* However many goroutines get, return and discard connections in whatever order, the
\* channel of connpool.go holds one slot for each that is between acquire and release, and
\* totalOut counts those in whose hands a connection is.
THEOREM SlotsAreAccounted == Spec => []SlotsAccounted
<1>1. IInv => SlotsAccounted
  BY DEF IInv, CountInv, SlotsAccounted, AtStep
<1>2. QED BY <1>1, PoolInvariant, PTL

\* No connection of the pool is shared between callers, closed while one holds it, idle
\* twice, or forgotten, whatever Close, CleanupIdle and the callers interleave.
THEOREM ConnectionsAreOwned == Spec => []EveryConnectionOwned
<1>1. IInv => EveryConnectionOwned
  BY DEF IInv
<1>2. QED BY <1>1, PoolInvariant, PTL

-----------------------------------------------------------------------------
(* The refinement of LeasePool *)

own == [k \in Conns |-> Owner(k)]

\* The owner of a connection is unique, and the map names it.
LEMMA OwnerOf ==
  ASSUME NEW I, NEW f \in [Callers -> Conns \cup {NoConn}],
         \A c, d \in Callers : f[c] # NoConn /\ f[c] = f[d] => c = d,
         \A c \in Callers : f[c] # NoConn => f[c] \notin I,
         NEW k \in Conns
  PROVE  LET o == IF k \in I THEN Pool
                  ELSE IF \E c \in Callers : f[c] = k THEN CHOOSE c \in Callers : f[c] = k
                  ELSE Nobody
         IN  /\ o = Pool <=> k \in I
             /\ \A c \in Callers : o = c <=> f[c] = k
             /\ o = Nobody <=> k \notin I /\ \A c \in Callers : f[c] # k
             /\ o \in Callers \cup {Pool, Nobody}
<1>1. k # NoConn /\ Pool # Nobody /\ Pool \notin Callers /\ Nobody \notin Callers
  BY PoolAssumption DEF Pool, Nobody
<1>2. CASE k \in I
  BY <1>1, <1>2
<1>3. CASE k \notin I /\ \E c \in Callers : f[c] = k
  <2> DEFINE o == CHOOSE c \in Callers : f[c] = k
  <2>1. o \in Callers /\ f[o] = k
    BY <1>3
  <2>2. \A c \in Callers : f[c] = k => c = o
    BY <1>1, <2>1
  <2> HIDE DEF o
  <2>3. QED BY <1>1, <1>3, <2>1, <2>2 DEF o
<1>4. CASE k \notin I /\ ~\E c \in Callers : f[c] = k
  BY <1>1, <1>4
<1>5. QED BY <1>2, <1>3, <1>4

OwnerFacts ==
  /\ \A k \in Conns :
       /\ own[k] = Pool <=> k \in Range(idle)
       /\ \A c \in Callers : own[k] = c <=> conn[c] = k
       /\ own[k] = Nobody <=> k \notin Range(idle) /\ \A c \in Callers : conn[c] # k
       /\ own[k] \in Callers \cup {Pool, Nobody}
  /\ Leases!Idle = Range(idle)
  /\ Leases!InUse = Range(idle) \cup {conn[c] : c \in {d \in Callers : conn[d] # NoConn}}

LEMMA OwnersKnown ==
  /\ TypeOK /\ EveryConnectionOwned => OwnerFacts
  /\ TypeOK' /\ EveryConnectionOwned' => OwnerFacts'
<1>1. ASSUME TypeOK, EveryConnectionOwned PROVE OwnerFacts
  <2>1. /\ conn \in [Callers -> Conns \cup {NoConn}] /\ Range(idle) \subseteq Conns
        /\ NoConn \notin Conns
        /\ \A c, d \in Callers : conn[c] # NoConn /\ conn[c] = conn[d] => c = d
        /\ \A c \in Callers : conn[c] # NoConn => conn[c] \notin Range(idle)
    BY <1>1, RangeOfSeq, PoolAssumption DEF TypeOK, EveryConnectionOwned
  <2>2. ASSUME NEW k \in Conns
        PROVE  /\ Owner(k) = Pool <=> k \in Range(idle)
               /\ \A c \in Callers : Owner(k) = c <=> conn[c] = k
               /\ Owner(k) = Nobody <=> k \notin Range(idle) /\ \A c \in Callers : conn[c] # k
               /\ Owner(k) \in Callers \cup {Pool, Nobody}
    BY <2>1, OwnerOf DEF Owner
  <2>3. \A k \in Conns : own[k] = Owner(k)
    BY DEF own
  <2>4. /\ Leases!Idle = {k \in Conns : own[k] = Pool}
        /\ Leases!InUse = {k \in Conns : own[k] # Nobody}
    BY DEF Leases!Idle, Leases!InUse, own
  <2>5. QED BY <2>1, <2>2, <2>3, <2>4 DEF OwnerFacts
<1>2. ASSUME TypeOK', EveryConnectionOwned' PROVE OwnerFacts'
  <2>1. /\ conn' \in [Callers -> Conns \cup {NoConn}] /\ Range(idle') \subseteq Conns
        /\ NoConn \notin Conns
        /\ \A c, d \in Callers : conn'[c] # NoConn /\ conn'[c] = conn'[d] => c = d
        /\ \A c \in Callers : conn'[c] # NoConn => conn'[c] \notin Range(idle')
    BY <1>2, RangeOfSeq, PoolAssumption DEF TypeOK, EveryConnectionOwned
  <2>2. ASSUME NEW k \in Conns
        PROVE  /\ Owner(k)' = Pool <=> k \in Range(idle')
               /\ \A c \in Callers : Owner(k)' = c <=> conn'[c] = k
               /\ Owner(k)' = Nobody <=> k \notin Range(idle') /\ \A c \in Callers : conn'[c] # k
               /\ Owner(k)' \in Callers \cup {Pool, Nobody}
    BY <2>1, OwnerOf DEF Owner
  <2>3. \A k \in Conns : own'[k] = Owner(k)'
    BY DEF own
  <2>4. /\ Leases!Idle' = {k \in Conns : own'[k] = Pool}
        /\ Leases!InUse' = {k \in Conns : own'[k] # Nobody}
    BY DEF Leases!Idle, Leases!InUse, own
  <2>5. QED BY <2>1, <2>2, <2>3, <2>4 DEF OwnerFacts
<1>3. QED BY <1>1, <1>2

\* A list is no shorter than the set of what it holds, and the connections in the hands of
\* callers are no more than those callers.
LEMMA RangeIsBounded ==
  ASSUME NEW S, NEW s \in Seq(S)
  PROVE  /\ IsFiniteSet(Range(s)) /\ Cardinality(Range(s)) \in Nat
         /\ Cardinality(Range(s)) <= Len(s)
<1>1. Len(s) \in Nat /\ s \in [1..Len(s) -> S] /\ DOMAIN s = 1..Len(s)
  BY LenProperties
<1>2. s \in Surjection(1..Len(s), Range(s))
  BY <1>1 DEF Surjection, Range
<1>3. IsFiniteSet(1..Len(s)) /\ Cardinality(1..Len(s)) = Len(s)
  BY <1>1, FS_Interval
<1>4. IsFiniteSet(Range(s)) /\ Cardinality(Range(s)) <= Cardinality(1..Len(s))
  BY <1>2, <1>3, FS_Surjection
<1>5. QED BY <1>3, <1>4, FS_CardinalityType

LEMMA ImageIsBounded ==
  ASSUME NEW f, NEW D, IsFiniteSet(D)
  PROVE  LET image == {f[d] : d \in D}
         IN  IsFiniteSet(image) /\ Cardinality(image) \in Nat /\ Cardinality(image) <= Cardinality(D)
<1> DEFINE image == {f[d] : d \in D}
           g == [d \in D |-> f[d]]
<1>1. g \in Surjection(D, image)
  BY DEF Surjection
<1> HIDE DEF g, image
<1>2. IsFiniteSet(image) /\ Cardinality(image) <= Cardinality(D)
  BY <1>1, FS_Surjection
<1>3. QED BY <1>2, FS_CardinalityType DEF image

LEMMA SameOwner ==
  ASSUME OwnerFacts, OwnerFacts', NEW k \in Conns,
         k \in Range(idle') <=> k \in Range(idle),
         \A c \in Callers : conn'[c] = k <=> conn[c] = k
  PROVE  own'[k] = own[k]
<1>1. own[k] \in Callers \cup {Pool, Nobody} /\ Pool # Nobody
  BY DEF OwnerFacts, Pool, Nobody
<1>2. CASE own[k] = Pool
  BY <1>2 DEF OwnerFacts
<1>3. CASE own[k] = Nobody
  BY <1>3 DEF OwnerFacts
<1>4. CASE own[k] \in Callers
  BY <1>4 DEF OwnerFacts
<1>5. QED BY <1>1, <1>2, <1>3, <1>4

LEMMA SameCardinality == \A S : Leases!Cardinality(S) = Cardinality(S)
BY DEF Leases!Cardinality, Cardinality

LEMMA StepRefines ==
  ASSUME IInv, IInv', [Next]_vars
  PROVE  [Leases!Next]_own
<1>0. /\ OwnerFacts /\ OwnerFacts'
      /\ conn \in [Callers -> Conns \cup {NoConn}] /\ pc \in [Callers -> Steps]
      /\ NoConn \notin Conns /\ Range(idle) \subseteq Conns
      /\ \A c, d \in Callers : conn[c] # NoConn /\ conn[c] = conn[d] => c = d
      /\ \A c \in Callers : conn[c] # NoConn <=> pc[c] \in Holding
      /\ \A c \in Callers : conn[c] # NoConn => conn[c] \notin Range(idle)
      /\ MaxTotal \in Nat /\ MaxIdle \in Nat
  BY OwnersKnown, RangeOfSeq, PoolAssumption DEF IInv, TypeOK, EveryConnectionOwned
<1>f. /\ own = [k \in Conns |-> own[k]] /\ own' = [k \in Conns |-> own'[k]]
      /\ DOMAIN own = Conns /\ DOMAIN own' = Conns
  BY DEF own
<1>o. [k \in Conns |-> Owner(k)] = own /\ [k \in Conns |-> Owner(k)]' = own'
  BY DEF own
<1>1. ASSUME conn' = conn, idle' = idle PROVE own' = own
  BY <1>1 DEF own, Owner
<1>2. ASSUME NEW c \in Callers,
             \/ Get(c) \/ TryAcquire(c) \/ WaitEnds(c) \/ DialFails(c) \/ GiveBack(c) \/ PutChecks(c)
             \/ Release(c)
      PROVE  own' = own
  BY <1>1, <1>2 DEF Get, TryAcquire, WaitEnds, DialFails, GiveBack, PutChecks, Release, poolVars
<1>3. ASSUME CleanupChecks \/ CloseSets \/ (\E k \in Conns : CloseOne(k)) \/ Age \/ UNCHANGED vars
      PROVE  own' = own
  BY <1>1, <1>3 DEF CleanupChecks, CloseSets, CloseOne, Age, vars, poolVars
\* Whatever leaves the list of idle connections has been shut.
<1>4. ASSUME conn' = conn, Range(idle') \subseteq Range(idle) PROVE Leases!Next
  <2> DEFINE ks == Range(idle) \ Range(idle')
  <2>1. ks \subseteq Leases!Idle /\ ks \in SUBSET Conns
    BY <1>0 DEF OwnerFacts
  <2>2. ASSUME NEW k \in Conns PROVE own'[k] = IF k \in ks THEN Nobody ELSE own[k]
    <3>1. CASE k \in ks
      BY <1>0, <1>4, <3>1 DEF OwnerFacts
    <3>2. CASE k \notin ks
      BY <1>0, <1>4, <3>2, SameOwner
    <3>3. QED BY <3>1, <3>2
  <2> HIDE DEF ks
  <2>3. own' = [k \in Conns |-> IF k \in ks THEN Nobody ELSE own[k]]
    BY <1>f, <2>2
  <2>4. Leases!Shut(ks)
    BY <1>o, <2>1, <2>3 DEF Leases!Shut
  <2>5. QED BY <2>1, <2>4 DEF Leases!Next
<1>5. ASSUME NEW c \in Callers, NoIdle(c) PROVE Leases!Next
  <2>1. conn' = conn /\ Range(idle') = {}
    BY <1>5 DEF NoIdle, Range
  <2>2. QED BY <1>4, <2>1
<1>6. ASSUME CleanupIdle PROVE Leases!Next
  <2>1. stale \in 0..Len(idle) /\ idle \in Seq(Conns) /\ conn' = conn
        /\ idle' = SubSeq(idle, stale + 1, Len(idle))
    BY <1>6 DEF CleanupIdle, IInv, TypeOK
  <2>2. Range(idle') \subseteq Range(idle)
    BY <2>1, RestOfSeq
  <2>3. QED BY <1>4, <2>1, <2>2
<1>7. ASSUME CloseSwaps PROVE Leases!Next
  <2>1. conn' = conn /\ Range(idle') = {}
    BY <1>7 DEF CloseSwaps, Range
  <2>2. QED BY <1>4, <2>1
<1>8. ASSUME NEW c \in Callers, TakeIdle(c) PROVE Leases!Next
  <2> DEFINE k == Last(idle)
  <2>1. k \in Range(idle) /\ Range(Front(idle)) = Range(idle) \ {k}
    <3>1. idle # <<>>
      BY <1>8, EmptySeq, LenProperties DEF TakeIdle, IInv, TypeOK
    <3>2. QED BY <3>1, FrontOfSeq DEF IInv, TypeOK, EveryConnectionOwned
  <2>2. conn' = [conn EXCEPT ![c] = k] /\ idle' = Front(idle) /\ pc[c] = "slot"
    BY <1>8 DEF TakeIdle
  <2> HIDE DEF k
  <2>3. conn[c] = NoConn /\ k \in Conns /\ own[k] = Pool
    BY <1>0, <2>1, <2>2 DEF Holding, OwnerFacts
  <2>4. ASSUME NEW j \in Conns PROVE own'[j] = IF j = k THEN c ELSE own[j]
    <3>1. CASE j = k
      BY <1>0, <2>2, <3>1 DEF OwnerFacts
    <3>2. CASE j # k
      <4>1. \A d \in Callers : conn'[d] = j <=> conn[d] = j
        BY <1>0, <2>2, <2>3, <3>2
      <4>2. QED BY <1>0, <2>1, <2>2, <3>2, <4>1, SameOwner
    <3>3. QED BY <3>1, <3>2
  <2>5. own' = [own EXCEPT ![k] = c]
    BY <1>f, <2>4
  <2>6. Leases!Lend(c, k)
    BY <1>o, <2>3, <2>5 DEF Leases!Lend
  <2>7. QED BY <2>3, <2>6 DEF Leases!Next
<1>9. ASSUME NEW c \in Callers, Shelve(c) PROVE Leases!Next \/ own' = own
  <2>1. CASE idle' = idle /\ conn' = conn
    BY <1>1, <2>1
  <2>2. CASE Len(idle) < MaxIdle /\ idle' = Append(idle, conn[c]) /\ conn' = [conn EXCEPT ![c] = NoConn]
    <3> DEFINE k == conn[c]
    <3>1. k \in Conns /\ k \notin Range(idle) /\ own[k] = c
      BY <1>0, <1>9 DEF Shelve, Holding, OwnerFacts
    <3>2. Range(idle') = Range(idle) \cup {k}
      BY <2>2, <3>1, AppendedSeq DEF IInv, TypeOK
    <3>3. ASSUME NEW j \in Conns PROVE own'[j] = IF j = k THEN Pool ELSE own[j]
      <4>1. CASE j = k
        BY <1>0, <3>2, <4>1 DEF OwnerFacts
      <4>2. CASE j # k
        <5>1. \A d \in Callers : conn'[d] = j <=> conn[d] = j
          BY <1>0, <2>2, <3>1, <4>2
        <5>2. QED BY <1>0, <3>2, <4>2, <5>1, SameOwner
      <4>3. QED BY <4>1, <4>2
    <3>4. own' = [own EXCEPT ![k] = Pool]
      BY <1>f, <3>3
    <3>5. Cardinality(Leases!Idle) < MaxIdle
      <4>1. Cardinality(Range(idle)) \in Nat /\ Cardinality(Range(idle)) <= Len(idle) /\ Len(idle) \in Nat
        BY RangeIsBounded, LenProperties DEF IInv, TypeOK
      <4>2. Leases!Idle = Range(idle)
        BY <1>0 DEF OwnerFacts
      <4>3. QED BY <1>0, <2>2, <4>1, <4>2
    <3>6. Leases!Return(c, k)
      BY <1>o, <3>1, <3>4, <3>5, SameCardinality DEF Leases!Return
    <3>7. QED BY <3>1, <3>6 DEF Leases!Next
  <2>3. QED BY <1>9, <2>1, <2>2 DEF Shelve
<1>10. ASSUME NEW c \in Callers, Drop(c) PROVE Leases!Next
  <2> DEFINE k == conn[c]
  <2>1. k \in Conns /\ k \notin Range(idle) /\ own[k] = c
    BY <1>0, <1>10 DEF Drop, Holding, OwnerFacts
  <2>2. conn' = [conn EXCEPT ![c] = NoConn] /\ idle' = idle
    BY <1>10 DEF Drop
  <2>3. ASSUME NEW j \in Conns PROVE own'[j] = IF j \in {k} THEN Nobody ELSE own[j]
    <3>1. CASE j = k
      <4>1. \A d \in Callers : conn'[d] # k
        BY <1>0, <2>1, <2>2
      <4>2. QED BY <1>0, <2>1, <2>2, <3>1, <4>1 DEF OwnerFacts
    <3>2. CASE j # k
      <4>1. \A d \in Callers : conn'[d] = j <=> conn[d] = j
        BY <1>0, <2>1, <2>2, <3>2
      <4>2. QED BY <1>0, <2>2, <3>2, <4>1, SameOwner
    <3>3. QED BY <3>1, <3>2
  <2>4. own' = [j \in Conns |-> IF j \in {k} THEN Nobody ELSE own[j]]
    BY <1>f, <2>3
  <2> HIDE DEF k
  <2>5. Leases!Shut({k})
    BY <1>o, <2>1, <2>4 DEF Leases!Shut
  <2>6. QED BY <2>1, <2>5 DEF Leases!Next
<1>11. ASSUME NEW c \in Callers, NEW k \in Conns, DialSucceeds(c, k) PROVE Leases!Next
  <2>1. conn' = [conn EXCEPT ![c] = k] /\ idle' = idle /\ pc[c] = "dial" /\ k \notin open
    BY <1>11 DEF DialSucceeds
  <2>2. k \notin Range(idle) /\ (\A d \in Callers : conn[d] # k) /\ own[k] = Nobody
    BY <1>0, <2>1 DEF IInv, EveryConnectionOwned, OwnerFacts
  <2>3. conn[c] = NoConn
    BY <1>0, <2>1 DEF Holding
  <2>4. ASSUME NEW j \in Conns PROVE own'[j] = IF j = k THEN c ELSE own[j]
    <3>1. CASE j = k
      BY <1>0, <2>1, <3>1 DEF OwnerFacts
    <3>2. CASE j # k
      <4>1. \A d \in Callers : conn'[d] = j <=> conn[d] = j
        BY <1>0, <2>1, <2>3, <3>2
      <4>2. QED BY <1>0, <2>1, <3>2, <4>1, SameOwner
    <3>3. QED BY <3>1, <3>2
  <2>5. own' = [own EXCEPT ![k] = c]
    BY <1>f, <2>4
  <2>6. Cardinality(Leases!InUse) < MaxTotal
    <3> DEFINE holders == {d \in Callers : conn[d] # NoConn}
               lent == {conn[d] : d \in holders}
    <3>1. holders \cup {c} \subseteq AtStep(Serving) /\ c \notin holders
      BY <1>0, <2>1, <2>3 DEF AtStep, Serving
    <3>2. IsFiniteSet(AtStep(Serving)) /\ Cardinality(AtStep(Serving)) \in Nat
      BY FS_CardinalityType DEF IInv, RoomInv
    <3> HIDE DEF holders
    <3>3. /\ IsFiniteSet(holders) /\ Cardinality(holders) \in Nat
          /\ Cardinality(holders) + 1 <= Cardinality(AtStep(Serving))
      <4>1. IsFiniteSet(holders)
        BY <3>1, <3>2, FS_Subset
      <4>2. Cardinality(holders \cup {c}) = Cardinality(holders) + 1
        BY <3>1, <4>1, FS_AddElement
      <4>3. Cardinality(holders \cup {c}) <= Cardinality(AtStep(Serving))
        BY <3>1, <3>2, FS_Subset
      <4>4. QED BY <4>1, <4>2, <4>3, FS_CardinalityType
    <3>4. IsFiniteSet(lent) /\ Cardinality(lent) \in Nat /\ Cardinality(lent) <= Cardinality(holders)
      BY <3>3, ImageIsBounded
    <3>5. /\ IsFiniteSet(Range(idle)) /\ Cardinality(Range(idle)) \in Nat
          /\ Cardinality(Range(idle)) <= Len(idle) /\ Len(idle) \in Nat
      BY RangeIsBounded, LenProperties DEF IInv, TypeOK
    <3>6. Cardinality(Range(idle) \cup lent) <= Cardinality(Range(idle)) + Cardinality(lent)
          /\ Cardinality(Range(idle) \cup lent) \in Nat
      <4>1. /\ IsFiniteSet(Range(idle) \cup lent)
            /\ Cardinality(Range(idle) \cup lent) =
                 Cardinality(Range(idle)) + Cardinality(lent) - Cardinality(Range(idle) \cap lent)
        BY <3>4, <3>5, FS_Union
      <4>2. Cardinality(Range(idle) \cap lent) \in Nat
        <5>1. IsFiniteSet(Range(idle) \cap lent)
          BY <3>4, FS_Subset
        <5>2. QED BY <5>1, FS_CardinalityType
      <4>3. Cardinality(Range(idle) \cup lent) \in Nat
        BY <4>1, FS_CardinalityType
      <4>4. QED BY <3>4, <3>5, <4>1, <4>2, <4>3
    <3>7. Leases!InUse = Range(idle) \cup lent
      BY <1>0 DEF OwnerFacts, holders
    <3>8. Cardinality(AtStep(Serving)) + Len(idle) <= MaxTotal
      BY DEF IInv, RoomInv
    <3> HIDE DEF lent
    <3>9. QED BY <1>0, <3>2, <3>3, <3>4, <3>5, <3>6, <3>7, <3>8
  <2>7. Leases!Open(c, k)
    BY <1>o, <2>2, <2>5, <2>6, SameCardinality DEF Leases!Open
  <2>8. QED BY <2>7 DEF Leases!Next
<1>12. QED
  BY <1>2, <1>3, <1>5, <1>6, <1>7, <1>8, <1>9, <1>10, <1>11 DEF Next, Caller, Close

\* The pool implements what LeasePool promises: connections change hands only by being
\* opened, lent, returned and shut, never more than MaxTotal are in use with the idle ones,
\* and never more than MaxIdle are kept.
THEOREM PoolImplementsLeases == Spec => ImplementsLeasePool
<1>1. Init => Leases!Init
  <2>1. Range(<<>>) = {}
    BY DEF Range
  <2>2. QED BY <2>1, PoolAssumption DEF Init, Leases!Init, Owner
<1>2. IInv /\ IInv' /\ [Next]_vars => [Leases!Next]_([k \in Conns |-> Owner(k)])
  BY StepRefines DEF own
<1>3. QED BY <1>1, <1>2, PoolInvariant, PTL DEF Spec, ImplementsLeasePool, Leases!Spec
==============================================================================
