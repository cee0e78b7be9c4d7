------------------------------ MODULE BanEngine ------------------------------
(***************************************************************************)
(* The ban engine of the client node (internal/client/ban/engine.go): the  *)
(* ban store under an RWMutex, the blocklist file that is appended to and  *)
(* rewritten, and the XDP map of the kernel that the sync command fills    *)
(* from the file.  Threads are goroutines that call the engine, one call   *)
(* each at a time.                                                         *)
(*                                                                         *)
(* Ban stores the entry under the lock but appends to the file without it; *)
(* Unban and CleanupExpired rewrite the file while they hold the lock; each *)
(* of the three ends with a run of the sync command outside the lock.      *)
(* The ban time is abstracted to an entry that is live and then expired.   *)
(***************************************************************************)
EXTENDS FiniteSets

CONSTANTS Threads, IPs,
          Ops,        \* the operations that are called, and Restart
          Torn,       \* a line that is the rest of an overwritten one
          None

ASSUME BanAssumption ==
  /\ Torn \notin IPs
  /\ None \notin Threads
  /\ Ops \subseteq {"Ban", "Unban", "CleanupExpired", "IsBanned", "Restart"}

VARIABLES store,      \* per address: no entry, a live one, an expired one
          file,       \* the lines of the blocklist file
          xdp,        \* the keys of the kernel's ipv4_blocklist map
          writer,     \* the goroutine that holds mu over several steps
          pc, arg,    \* per goroutine: its step, and the address it works on
          lines,      \* per goroutine: lines to write, or lines read by a sync
          faulted     \* a file or sync operation failed since the last start

vars == <<store, file, xdp, writer, pc, arg, lines, faulted>>

Lines == IPs \cup {Torn}
Steps == {"idle", "append", "rebuild", "rewrite", "sync", "apply", "check"}

TypeOK ==
  /\ store \in [IPs -> {"none", "live", "expired"}]
  /\ file \subseteq Lines
  /\ xdp \subseteq Lines
  /\ writer \in Threads \cup {None}
  /\ pc \in [Threads -> Steps]
  /\ arg \in [Threads -> IPs \cup {None}]
  /\ lines \in [Threads -> SUBSET Lines]
  /\ faulted \in BOOLEAN

Init ==
  /\ store = [ip \in IPs |-> "none"]
  /\ file = {}
  /\ xdp = {}
  /\ writer = None
  /\ pc = [t \in Threads |-> "idle"]
  /\ arg = [t \in Threads |-> None]
  /\ lines = [t \in Threads |-> {}]
  /\ faulted = FALSE

-----------------------------------------------------------------------------
Live == {ip \in IPs : store[ip] = "live"}
Unlocked == writer = None

Goto(t, step) == pc' = [pc EXCEPT ![t] = step]

Start(t, op, ip, step) ==
  /\ pc[t] = "idle"
  /\ op \in Ops
  /\ Unlocked
  /\ arg' = [arg EXCEPT ![t] = ip]
  /\ Goto(t, step)
  /\ UNCHANGED <<file, xdp, lines, faulted>>

\* Ban, first part: the entry is stored under the lock.
BanStore(t, ip) ==
  /\ Start(t, "Ban", ip, "append")
  /\ store' = [store EXCEPT ![ip] = "live"]
  /\ UNCHANGED writer

AppendTruncating(ip) == {{ip}}            \* mutant: O_TRUNC for O_APPEND

\* Ban, second part, without the lock: O_APPEND at the current end of the file.
\* While a rewrite is under way its next lines go to its own offset, over the
\* appended one: they cover it when they hold the same address, and may leave
\* the end of it behind when they are shorter.
AppendOutcomes(ip) ==
  IF writer = None \/ pc[writer] # "rewrite" \/ lines[writer] = {} THEN {file \cup {ip}}
  ELSE IF ip \in lines[writer] THEN {file, file \cup {ip}}
  ELSE {file, file \cup {Torn}}

BanAppend(t) ==
  /\ pc[t] = "append"
  /\ file' \in AppendOutcomes(arg[t])
  /\ Goto(t, "sync")
  /\ UNCHANGED <<store, xdp, writer, arg, lines, faulted>>

BanAppendFails(t) ==
  /\ pc[t] = "append"
  /\ faulted' = TRUE
  /\ Goto(t, "sync")
  /\ UNCHANGED <<store, file, xdp, writer, arg, lines>>

\* Unban and CleanupExpired: delete, then rewrite the file before unlocking.
UnbanDelete(t, ip) ==
  /\ Start(t, "Unban", ip, "rebuild")
  /\ store' = [store EXCEPT ![ip] = "none"]
  /\ writer' = t

CleanupDelete(t) ==
  /\ Start(t, "CleanupExpired", None, "rebuild")
  /\ store' = [ip \in IPs |-> IF store[ip] = "expired" THEN "none" ELSE store[ip]]
  /\ writer' = t

\* rebuildBlocklist: collect the live entries and truncate the file ...
RebuildTruncate(t) ==
  /\ pc[t] = "rebuild"
  /\ lines' = [lines EXCEPT ![t] = Live]
  /\ file' = {}
  /\ Goto(t, "rewrite")
  /\ UNCHANGED <<store, xdp, writer, arg, faulted>>

\* ... write them one by one ...
RebuildLine(t) ==
  /\ pc[t] = "rewrite"
  /\ \E ip \in lines[t] :
       /\ file' = file \cup {ip}
       /\ lines' = [lines EXCEPT ![t] = @ \ {ip}]
  /\ UNCHANGED <<store, xdp, writer, pc, arg, faulted>>

\* ... and unlock; an open or write error ends the rewrite early.
RebuildEnd(t) ==
  /\ \/ pc[t] = "rewrite" /\ lines[t] = {} /\ UNCHANGED faulted
     \/ pc[t] \in {"rebuild", "rewrite"} /\ faulted' = TRUE
  /\ writer' = None
  /\ lines' = [lines EXCEPT ![t] = {}]
  /\ Goto(t, "sync")
  /\ UNCHANGED <<store, file, xdp, arg>>

\* SyncToXDP runs the installed kiro-xdp-sync, which reads the file line by line
\* and only ever adds keys to the map.
SyncRead(t) ==
  /\ pc[t] = "sync"
  /\ lines' = [lines EXCEPT ![t] = file]
  /\ Goto(t, "apply")
  /\ UNCHANGED <<store, file, xdp, writer, arg, faulted>>

\* A rewrite that truncates the file under the command cuts its input short.
SyncCut(t) ==
  /\ pc[t] = "apply"
  /\ ~Unlocked
  /\ \E rest \in SUBSET lines[t] : lines' = [lines EXCEPT ![t] = rest]
  /\ UNCHANGED <<store, file, xdp, writer, pc, arg, faulted>>

SyncEnd(t, added) ==
  /\ pc[t] = "apply"
  /\ xdp' = xdp \cup added
  /\ lines' = [lines EXCEPT ![t] = {}]
  /\ arg' = [arg EXCEPT ![t] = None]
  /\ Goto(t, "idle")
  /\ UNCHANGED <<store, file, writer>>

SyncApply(t) == SyncEnd(t, lines[t]) /\ UNCHANGED faulted

\* The command fails, or is killed after one second.
SyncFails(t) == faulted' = TRUE /\ \E part \in SUBSET lines[t] : SyncEnd(t, part)

\* IsBanned: an expired entry seen under the read lock is deleted under the
\* write lock if it has not been renewed in between.
IsBannedRead(t, ip) ==
  /\ store[ip] = "expired"
  /\ Start(t, "IsBanned", ip, "check")
  /\ UNCHANGED <<store, writer>>

StoreWithoutRecheck(ip) == [store EXCEPT ![ip] = "none"]   \* mutant

StoreWithout(ip) == [store EXCEPT ![ip] = IF @ = "expired" THEN "none" ELSE @]

IsBannedDelete(t) ==
  /\ pc[t] = "check"
  /\ Unlocked
  /\ store' = StoreWithout(arg[t])
  /\ arg' = [arg EXCEPT ![t] = None]
  /\ Goto(t, "idle")
  /\ UNCHANGED <<file, xdp, writer, lines, faulted>>

Expire(ip) ==
  /\ store[ip] = "live"
  /\ store' = [store EXCEPT ![ip] = "expired"]
  /\ UNCHANGED <<file, xdp, writer, pc, arg, lines, faulted>>

\* The client process stops and starts: the store is in memory only, the file
\* and the kernel map stay.
Restart ==
  /\ "Restart" \in Ops
  /\ store' = [ip \in IPs |-> "none"]
  /\ writer' = None
  /\ pc' = [t \in Threads |-> "idle"]
  /\ arg' = [t \in Threads |-> None]
  /\ lines' = [t \in Threads |-> {}]
  /\ faulted' = FALSE
  /\ UNCHANGED <<file, xdp>>

Fault(t) == BanAppendFails(t) \/ SyncFails(t)

Step(t) ==
  \/ BanAppend(t)
  \/ RebuildTruncate(t) \/ RebuildLine(t) \/ RebuildEnd(t)
  \/ SyncRead(t) \/ SyncApply(t)
  \/ IsBannedDelete(t)

Call(t) ==
  \/ \E ip \in IPs : BanStore(t, ip) \/ UnbanDelete(t, ip) \/ IsBannedRead(t, ip)
  \/ CleanupDelete(t)

Next ==
  \/ \E t \in Threads : Call(t) \/ Step(t) \/ SyncCut(t) \/ Fault(t)
  \/ \E ip \in IPs : Expire(ip)
  \/ Restart

Spec == Init /\ [][Next]_vars

-----------------------------------------------------------------------------
Settled == \A t \in Threads : pc[t] \in {"idle", "check"}

\* Unless a file or sync operation failed, every address that is banned is in
\* the blocklist file and in the kernel map once the calls in progress are over,
\* however Ban's unlocked append, the rewrites of other calls and the runs of
\* the sync command interleaved.
BansReachKernel == Settled /\ ~faulted => Live \subseteq file \cap xdp

\* A ban that has not run out is lifted only by Unban of that address or by the
\* end of the process: an IsBanned call that saw the previous ban expire, or a
\* cleanup, never takes the renewed one with it.
BanLastsUntilLifted ==
  [][\A ip \in Live : store'[ip] = "none" =>
       Restart \/ \E t \in Threads : UnbanDelete(t, ip)]_vars

\* engine.go:95 says Unban triggers a sync that updates the kernel maps: with
\* all calls over, every address of the map has an entry (where only Ban and
\* Unban are called, an address without one was never banned or was unbanned).
UnbanReachesKernel ==
  Settled /\ ~faulted => \A ip \in xdp \cap IPs : store[ip] # "none"
=============================================================================
