------------------------------- MODULE ConnPool -------------------------------
(***************************************************************************)
(* The pool of backend connections (internal/client/proxy/connpool.go): a  *)
(* buffered channel whose slots are taken by Get and released by Put and   *)
(* Discard, a list of idle connections under a mutex, an atomic count of   *)
(* connections handed out, and an atomic closed flag that is read without  *)
(* the mutex.  An idle connection holds no slot.                           *)
(*                                                                         *)
(* Callers are goroutines with one connection each at a time.  A section   *)
(* under the mutex is one step, as is an operation on the channel; between *)
(* any two of them other goroutines run.  The counter of waiters, which    *)
(* only Stats reads, is left out.                                          *)
(***************************************************************************)
EXTENDS SequencesExt, Integers

CONSTANTS Callers, Conns,
          MaxTotal, MaxIdle,   \* of the config, after NewConnPool
          NoConn

ASSUME PoolAssumption ==
  /\ MaxTotal \in Nat \ {0} /\ MaxIdle \in Nat \ {0}
  /\ MaxIdle <= MaxTotal
  /\ NoConn \notin Conns
  /\ "pool" \notin Callers /\ "nobody" \notin Callers

VARIABLES sem,        \* slots taken
          queue,      \* the goroutines blocked on the channel, in order
          idle,       \* the idle connections, the most recent last
          stale,      \* how many of them, at its front, are past IdleTimeout
          totalOut,
          closer,     \* how far Close has come; the pool is closed from "set" on
          doomed,     \* the connections that Close has taken out, to be closed
          janitor,    \* a CleanupIdle is past its check of the closed flag
          open,       \* the connections that exist
          pc, conn    \* per goroutine: its step, and the connection it has

vars == <<sem, queue, idle, stale, totalOut, closer, doomed, janitor, open, pc, conn>>

Steps == {"outside", "get", "wait", "slot", "dial", "hold", "put", "shelve", "drop", "release"}
Holding == {"hold", "put", "shelve", "drop"}
Slotted == Holding \cup {"slot", "dial", "release"}

TypeOK ==
  /\ sem \in 0..MaxTotal
  /\ queue \in Seq(Callers)
  /\ idle \in Seq(Conns)
  /\ stale \in 0..Len(idle)
  /\ totalOut \in Int
  /\ closer \in {"open", "set", "swapped"}
  /\ doomed \subseteq Conns
  /\ janitor \in BOOLEAN
  /\ open \subseteq Conns
  /\ pc \in [Callers -> Steps]
  /\ conn \in [Callers -> Conns \cup {NoConn}]

Init ==
  /\ sem = 0 /\ queue = <<>>
  /\ idle = <<>> /\ stale = 0 /\ totalOut = 0
  /\ closer = "open" /\ doomed = {} /\ janitor = FALSE
  /\ open = {}
  /\ pc = [c \in Callers |-> "outside"]
  /\ conn = [c \in Callers |-> NoConn]

-----------------------------------------------------------------------------
Closed == closer # "open"
Goto(c, step) == pc' = [pc EXCEPT ![c] = step]

poolVars == <<idle, stale, totalOut, open, conn>>
closeVars == <<closer, doomed, janitor>>

Get(c) ==
  /\ pc[c] = "outside"
  /\ ~Closed
  /\ Goto(c, "get")
  /\ UNCHANGED <<sem, queue>> /\ UNCHANGED poolVars /\ UNCHANGED closeVars

TryAcquireAlways(c) ==    \* mutant: the channel has no capacity
  /\ pc[c] = "get"
  /\ sem' = sem + 1 /\ Goto(c, "slot")
  /\ UNCHANGED queue /\ UNCHANGED poolVars /\ UNCHANGED closeVars

\* A slot at once, or a place in the queue of waitForConn.
TryAcquire(c) ==
  /\ pc[c] = "get"
  /\ \/ sem < MaxTotal /\ sem' = sem + 1 /\ Goto(c, "slot") /\ UNCHANGED queue
     \/ sem = MaxTotal /\ queue' = Append(queue, c) /\ Goto(c, "wait") /\ UNCHANGED sem
  /\ UNCHANGED poolVars /\ UNCHANGED closeVars

\* QueueTimeout, or the end of the caller's context.
WaitEnds(c) ==
  /\ pc[c] = "wait"
  /\ \E i \in DOMAIN queue : queue[i] = c /\ queue' = RemoveAt(queue, i)
  /\ Goto(c, "outside")
  /\ UNCHANGED sem /\ UNCHANGED poolVars /\ UNCHANGED closeVars

\* getIdle takes the most recent one, unless that one, and so every other, is
\* stale: it closes them all.
TakeIdle(c) ==
  /\ pc[c] = "slot"
  /\ stale < Len(idle)
  /\ conn' = [conn EXCEPT ![c] = Last(idle)]
  /\ idle' = Front(idle)
  /\ totalOut' = totalOut + 1
  /\ Goto(c, "hold")
  /\ UNCHANGED <<sem, queue, stale, open>> /\ UNCHANGED closeVars

NoIdle(c) ==
  /\ pc[c] = "slot"
  /\ stale = Len(idle)
  /\ open' = open \ Range(idle)
  /\ idle' = <<>> /\ stale' = 0
  /\ Goto(c, "dial")
  /\ UNCHANGED <<sem, queue, totalOut, conn>> /\ UNCHANGED closeVars

DialSucceeds(c, k) ==
  /\ pc[c] = "dial"
  /\ k \notin open
  /\ open' = open \cup {k}
  /\ conn' = [conn EXCEPT ![c] = k]
  /\ totalOut' = totalOut + 1
  /\ Goto(c, "hold")
  /\ UNCHANGED <<sem, queue, idle, stale>> /\ UNCHANGED closeVars

DialFailsLeaking(c) ==    \* mutant: the slot is not released
  /\ pc[c] = "dial"
  /\ Goto(c, "outside")
  /\ UNCHANGED <<sem, queue>> /\ UNCHANGED poolVars /\ UNCHANGED closeVars

DialFails(c) ==
  /\ pc[c] = "dial"
  /\ Goto(c, "release")
  /\ UNCHANGED <<sem, queue>> /\ UNCHANGED poolVars /\ UNCHANGED closeVars

\* Put and Discard both begin with totalOut.
GiveBack(c) ==
  /\ pc[c] = "hold"
  /\ totalOut' = totalOut - 1
  /\ Goto(c, "put") \/ Goto(c, "drop")
  /\ UNCHANGED <<sem, queue, idle, stale, open, conn>> /\ UNCHANGED closeVars

\* The closed flag is read before the mutex is taken.
PutChecks(c) ==
  /\ pc[c] = "put"
  /\ Goto(c, IF Closed THEN "drop" ELSE "shelve")
  /\ UNCHANGED <<sem, queue>> /\ UNCHANGED poolVars /\ UNCHANGED closeVars

ShelveUnbounded(c) ==     \* mutant: MaxIdleConns is not looked at
  /\ pc[c] = "shelve"
  /\ idle' = Append(idle, conn[c])
  /\ conn' = [conn EXCEPT ![c] = NoConn]
  /\ Goto(c, "release")
  /\ UNCHANGED <<sem, queue, stale, totalOut, open>> /\ UNCHANGED closeVars

Shelve(c) ==
  /\ pc[c] = "shelve"
  /\ \/ /\ Len(idle) < MaxIdle
        /\ idle' = Append(idle, conn[c])
        /\ conn' = [conn EXCEPT ![c] = NoConn]
        /\ Goto(c, "release")
     \/ /\ Len(idle) >= MaxIdle
        /\ Goto(c, "drop")
        /\ UNCHANGED <<idle, conn>>
  /\ UNCHANGED <<sem, queue, stale, totalOut, open>> /\ UNCHANGED closeVars

DropUnclosed(c) ==        \* mutant: the connection is not closed
  /\ pc[c] = "drop"
  /\ conn' = [conn EXCEPT ![c] = NoConn]
  /\ Goto(c, "release")
  /\ UNCHANGED <<sem, queue, idle, stale, totalOut, open>> /\ UNCHANGED closeVars

Drop(c) ==
  /\ pc[c] = "drop"
  /\ open' = open \ {conn[c]}
  /\ conn' = [conn EXCEPT ![c] = NoConn]
  /\ Goto(c, "release")
  /\ UNCHANGED <<sem, queue, idle, stale, totalOut>> /\ UNCHANGED closeVars

\* A receive on a full channel hands the slot to the goroutine that has waited
\* longest.
Release(c) ==
  /\ pc[c] = "release"
  /\ \/ /\ queue = <<>>
        /\ sem' = sem - 1
        /\ Goto(c, "outside")
        /\ UNCHANGED queue
     \/ /\ queue # <<>>
        /\ queue' = Tail(queue)
        /\ pc' = [pc EXCEPT ![c] = "outside", ![Head(queue)] = "slot"]
        /\ UNCHANGED sem
  /\ UNCHANGED poolVars /\ UNCHANGED closeVars

-----------------------------------------------------------------------------
(* The janitor, and the end of the pool.                                     *)
CleanupChecks ==
  /\ ~janitor /\ ~Closed
  /\ janitor' = TRUE
  /\ UNCHANGED <<sem, queue, pc, closer, doomed>> /\ UNCHANGED poolVars

CleanupIdle ==
  /\ janitor
  /\ janitor' = FALSE
  /\ open' = open \ {idle[i] : i \in 1..stale}
  /\ idle' = SubSeq(idle, stale + 1, Len(idle))
  /\ stale' = 0
  /\ UNCHANGED <<sem, queue, totalOut, pc, conn, closer, doomed>>

CloseSets ==
  /\ closer = "open"
  /\ closer' = "set"
  /\ UNCHANGED <<sem, queue, pc, doomed, janitor>> /\ UNCHANGED poolVars

CloseSwaps ==
  /\ closer = "set"
  /\ closer' = "swapped"
  /\ doomed' = Range(idle)
  /\ idle' = <<>> /\ stale' = 0
  /\ UNCHANGED <<sem, queue, totalOut, open, pc, conn, janitor>>

CloseOne(k) ==
  /\ k \in doomed
  /\ doomed' = doomed \ {k}
  /\ open' = open \ {k}
  /\ UNCHANGED <<sem, queue, idle, stale, totalOut, pc, conn, closer, janitor>>

Age ==
  /\ stale < Len(idle)
  /\ stale' = stale + 1
  /\ UNCHANGED <<sem, queue, idle, totalOut, open, conn, pc>> /\ UNCHANGED closeVars

Caller(c) ==
  \/ Get(c) \/ TryAcquire(c) \/ WaitEnds(c)
  \/ TakeIdle(c) \/ NoIdle(c)
  \/ (\E k \in Conns : DialSucceeds(c, k)) \/ DialFails(c)
  \/ GiveBack(c) \/ PutChecks(c) \/ Shelve(c) \/ Drop(c) \/ Release(c)

Close == CloseSets \/ CloseSwaps \/ \E k \in Conns : CloseOne(k)

Next == (\E c \in Callers : Caller(c)) \/ CleanupChecks \/ CleanupIdle \/ Close \/ Age

Spec == Init /\ [][Next]_vars

-----------------------------------------------------------------------------
\* Every slot of the channel is held by a goroutine that will release it, and the
\* count that Stats reports is the number of connections handed out: a failed
\* dial, a timeout in the queue, an overfull idle list lose none and free none
\* twice.
SlotsAccounted ==
  /\ sem = Cardinality({c \in Callers : pc[c] \in Slotted})
  /\ totalOut = Cardinality({c \in Callers : pc[c] = "hold"})
  /\ queue # <<>> => sem = MaxTotal

\* Every open connection is in one place: held by one caller, once in the idle
\* list, or about to be closed.  None is shared, closed under its holder or lost.
EveryConnectionOwned ==
  LET held == {c \in Callers : conn[c] # NoConn}
  IN  /\ held = {c \in Callers : pc[c] \in Holding}
      /\ \A c, d \in held : conn[c] = conn[d] => c = d
      /\ IsInjective(idle)
      /\ open = {conn[c] : c \in held} \cup Range(idle) \cup doomed
      /\ Range(idle) \cap doomed = {}
      /\ \A c \in held : conn[c] \notin Range(idle) \cup doomed

Pool == "pool"
Nobody == "nobody"
Owner(k) ==
  IF k \in Range(idle) THEN Pool
  ELSE IF \E c \in Callers : conn[c] = k THEN CHOOSE c \in Callers : conn[c] = k
  ELSE Nobody

Leases == INSTANCE LeasePool WITH owner <- [k \in Conns |-> Owner(k)]

\* The pool implements what a pool promises.
ImplementsLeasePool == Leases!Spec
==============================================================================
