-------------------------------- MODULE XDPFilter --------------------------------
(***************************************************************************)
(* The packet filter in the kernel (client/xdp/xdp_filter.c): the order of   *)
(* its checks, the connection tracker, SYN cookies, and the counts of packets *)
(* by source and by /24 network.  The program runs on several CPUs at once;   *)
(* the counts live in one map for all of them and are read, incremented and   *)
(* written without a lock, so that they are taken apart here into the reads   *)
(* and writes of each CPU.  A packet is a record of what the checks look at;  *)
(* a source has one connection.  New addresses are counted in KernelConfig,   *)
(* here botnet mode may change at any time.  Time is counted in seconds.      *)
(***************************************************************************)
EXTENDS Integers, Sequences, FiniteSets

CONSTANTS Cpus, Packets,
          Allowed, Blocklisted, Abroad, PrivateSources,  \* sources in the maps and ranges
          Network(_),                \* the /24 of a source
          FilterSettings,            \* contents of kiro_config
          MaxClock                   \* bound of the clock

Sources == {p.source : p \in Packets}
Keys == Sources \cup {Network(s) : s \in Sources}
Classes == {"syn", "udp", "icmp"}
Counters == {"total"} \cup Classes

ASSUME XDPFilterAssumption ==
  /\ MaxClock \in Nat
  /\ {Network(s) : s \in Sources} \cap Sources = {}
  /\ \A s \in FilterSettings :
       /\ s.window \in Nat /\ s.cookieThreshold \in Nat
       /\ s.perSubnet \in Nat /\ \A n \in Counters : s.perIP[n] \in Nat

VARIABLES kiroConfig,      \* the settings in force
          now,             \* seconds
          rateState,       \* ipv4_rate_state: entry by key, or no entry
          tracker,         \* conn_tracker: sources whose connection is tracked
          synRate,         \* syn_rate: window and count of each CPU
          cpu,             \* what each CPU is at
          passedAlone      \* history: packets that passed the check of a key in its window
                           \* with no other CPU in it, by counter with a limit

filterAllVars == <<kiroConfig, now, rateState, tracker, synRate, cpu, passedAlone>>

NonePassed == [n \in Counters |-> 0]
IdleCpu == [at |-> "idle"]
RateSteps == {"lookup", "insert", "restart", "zero", "read", "write", "judge"}

XDPTypeOK ==
  /\ kiroConfig \in FilterSettings /\ now \in 0..MaxClock
  /\ DOMAIN rateState \subseteq Keys
  /\ \A k \in DOMAIN rateState :
       rateState[k].start \in 0..now /\ DOMAIN rateState[k].count = Counters
  /\ tracker \subseteq Sources
  /\ \A c \in Cpus : cpu[c].at # "idle" => cpu[c].at \in RateSteps /\ cpu[c].key \in Keys
  /\ passedAlone \in [Keys -> [Counters -> Nat]]

XDPInit ==
  /\ kiroConfig \in FilterSettings
  /\ now = 0
  /\ rateState = <<>>
  /\ tracker = {}
  /\ synRate = [c \in Cpus |-> [start |-> 0, count |-> 0]]
  /\ cpu = [c \in Cpus |-> IdleCpu]
  /\ passedAlone = [k \in Keys |-> NonePassed]

-----------------------------------------------------------------------------
(* The checks before the rate limits, in their order *)

\* tcp_flags_invalid: none, SYN with FIN or RST, or FIN, PSH and URG together.
tcp_flags_invalid(flags) ==
  \/ flags = {}
  \/ "SYN" \in flags /\ flags \cap {"FIN", "RST"} # {}
  \/ {"FIN", "PSH", "URG"} \subseteq flags

TCP(p) == p.protocol = "tcp"
SynOnly(p) == TCP(p) /\ "SYN" \in p.flags /\ "ACK" \notin p.flags
AckOnly(p) == TCP(p) /\ "ACK" \in p.flags /\ "SYN" \notin p.flags
Closing(p) == TCP(p) /\ p.flags \cap {"RST", "FIN"} # {}
DataPacket(p) == TCP(p) /\ p.flags \cap {"SYN", "RST", "FIN"} = {}

\* validate_syn_cookie: of this second or the one before.
CookieValid(p) == p.cookieAge \in 0..1

\* syn_rate_exceeded, on the count of this CPU alone.
SynCounted(c) ==
  IF now - synRate[c].start >= 1
  THEN [start |-> now, count |-> 1]
  ELSE [synRate[c] EXCEPT !.count = IF @ > kiroConfig.cookieThreshold THEN @ ELSE @ + 1]
AsksRate(p) == SynOnly(p) /\ kiroConfig.cookies /\ kiroConfig.cookieThreshold > 0
SynRateExceeded(c) == SynCounted(c).start = synRate[c].start
                      /\ SynCounted(c).count > kiroConfig.cookieThreshold

\* The first rule that applies decides; a packet without one goes on to the rate limits.
Rules(c, p, botnet) == <<
  <<p.protocol = "no IPv4", "pass">>,
  <<p.cut = "header", IF kiroConfig.dropMalformed THEN "drop" ELSE "pass">>,
  <<p.source \in Allowed, "pass">>,
  <<p.source \in Blocklisted, "drop">>,
  <<kiroConfig.geoip /\ p.source \in Abroad, "drop">>,
  <<kiroConfig.dropPrivate /\ p.source \in PrivateSources, "drop">>,
  <<p.fragment, "count">>,
  <<p.cut = "transport", IF kiroConfig.dropMalformed THEN "drop" ELSE "pass">>,
  <<TCP(p) /\ kiroConfig.dropMalformed /\ tcp_flags_invalid(p.flags), "drop">>,
  <<AsksRate(p) /\ SynRateExceeded(c), "answer">>,
  <<kiroConfig.cookies /\ AckOnly(p), IF CookieValid(p) THEN "valid" ELSE "drop">>,
  <<(kiroConfig.connTracker \/ botnet) /\ DataPacket(p) /\ p.source \notin tracker, "drop">>,
  <<p.protocol = "udp" /\ p.badPort, "drop">>,
  <<TRUE, "count">> >>

FirstRule(rules) == CHOOSE i \in DOMAIN rules : rules[i][1] /\ \A j \in 1..(i - 1) : ~rules[j][1]
Verdict(c, p, botnet) ==
  LET rules == Rules(c, p, botnet) IN rules[FirstRule(rules)][2]

\* The rules from the tenth on see what has gone through those before.
Reaches(c, p, rule) == FirstRule(Rules(c, p, FALSE)) >= rule

\* What a packet counts as, besides as one packet; a fragment as nothing else.
Class(p) ==
  IF p.fragment THEN {}
  ELSE IF SynOnly(p) THEN {"syn"} ELSE {p.protocol} \cap {"udp", "icmp"}

\* The limits of an address, and the one of a network.  rate_limit_v4 is off, or asks
\* nothing of a key whose limits are all zero.
Limit(key, counter) ==
  IF key \in Sources THEN kiroConfig.perIP[counter]
                     ELSE IF counter = "total" THEN kiroConfig.perSubnet ELSE 0
Limited(key) == kiroConfig.rateLimit /\ \E n \in Counters : Limit(key, n) > 0

InCheck(key) == {c \in Cpus : cpu[c].at # "idle" /\ cpu[c].key = key}

\* A CPU enters the check of a key, with the counters that the packet increments, as far
\* as they have a limit; neither it nor those in the check already are alone.
Enter(c, source, counts, key) ==
  LET others == InCheck(key) \ {c}
  IN  [d \in Cpus |->
         IF d = c THEN [at |-> "lookup", source |-> source, key |-> key,
                        counts |-> {n \in counts : Limit(key, n) > 0},
                        time |-> now, reg |-> NonePassed, alone |-> others = {}]
         ELSE IF d \in others THEN [cpu[d] EXCEPT !.alone = FALSE] ELSE cpu[d]]

\* A valid cookie enters the connection, a RST or FIN takes it out.
TrackerAfter(p, verdict) ==
  IF ~kiroConfig.connTracker THEN tracker
  ELSE IF verdict = "valid" THEN tracker \cup {p.source}
  ELSE IF verdict = "count" /\ ~p.fragment /\ Closing(p) THEN tracker \ {p.source}
  ELSE tracker

\* A packet on an idle CPU, up to its verdict or to the first limit that is asked for.
Receive(c, p, botnet) ==
  /\ cpu[c].at = "idle"
  /\ LET verdict == Verdict(c, p, botnet)
         keys == <<p.source, Network(p.source)>>
         first == IF Limited(keys[1]) THEN keys[1] ELSE keys[2]
     IN /\ cpu' = IF verdict = "count" /\ Limited(first)
                  THEN Enter(c, p.source, {"total"} \cup Class(p), first) ELSE cpu
        /\ tracker' = TrackerAfter(p, verdict)
  /\ synRate' = IF AsksRate(p) /\ Reaches(c, p, 10)
                THEN [synRate EXCEPT ![c] = SynCounted(c)] ELSE synRate
  /\ UNCHANGED <<kiroConfig, now, rateState, passedAlone>>

-----------------------------------------------------------------------------
(* rate_state_check of one key, taken apart *)

CpuDoes(c, step) == cpu[c].at = step
CpuGoes(c, step) == cpu' = [cpu EXCEPT ![c].at = step]

\* The time was taken before the entry was looked up: when another CPU has meanwhile
\* begun a window, the unsigned difference wraps around and is large.
Elapsed(time, start) ==
  \/ kiroConfig.window = 0
  \/ time < start
  \/ time - start >= kiroConfig.window

Lookup(c) ==
  /\ CpuDoes(c, "lookup")
  /\ CpuGoes(c, IF cpu[c].key \notin DOMAIN rateState THEN "insert"
             ELSE IF Elapsed(cpu[c].time, rateState[cpu[c].key].start) THEN "restart"
             ELSE "read")
  /\ UNCHANGED <<kiroConfig, now, rateState, tracker, synRate, passedAlone>>

\* A packet passes the check of its source and goes on to that of its network.  After the
\* last one it passes; a fragment is dropped if the settings say so.
NextKey(c) ==
  LET network == Network(cpu[c].source)
  IN  cpu' = IF cpu[c].key # network /\ Limited(network)
             THEN Enter(c, cpu[c].source, {"total"}, network) ELSE [cpu EXCEPT ![c] = IdleCpu]

PassedOneMore(c, passed) ==
  [n \in Counters |-> IF cpu[c].alone /\ n \in cpu[c].counts THEN passed[n] + 1 ELSE passed[n]]

\* The first packet of a key, or one that came at the same time: whoever inserts last
\* starts the counts.
Insert(c) ==
  /\ CpuDoes(c, "insert")
  /\ rateState' = [k \in DOMAIN rateState \cup {cpu[c].key} |->
                     IF k = cpu[c].key
                     THEN [start |-> cpu[c].time,
                           count |-> [n \in Counters |-> IF n \in cpu[c].counts THEN 1 ELSE 0]]
                     ELSE rateState[k]]
  /\ passedAlone' = [passedAlone EXCEPT ![cpu[c].key] = PassedOneMore(c, NonePassed)]
  /\ NextKey(c)
  /\ UNCHANGED <<kiroConfig, now, tracker, synRate>>

Restart(c) ==
  /\ CpuDoes(c, "restart") /\ CpuGoes(c, "zero")
  /\ rateState' = [rateState EXCEPT ![cpu[c].key].start = cpu[c].time]
  /\ passedAlone' = [passedAlone EXCEPT ![cpu[c].key] = NonePassed]
  /\ UNCHANGED <<kiroConfig, now, tracker, synRate>>

Zero(c) ==
  /\ CpuDoes(c, "zero") /\ CpuGoes(c, "read")
  /\ rateState' = [rateState EXCEPT ![cpu[c].key].count = [n \in Counters |-> 0]]
  /\ UNCHANGED <<kiroConfig, now, tracker, synRate, passedAlone>>

ReadCounts(c) ==
  /\ CpuDoes(c, "read")
  /\ cpu' = [cpu EXCEPT ![c].at = "write", ![c].reg = rateState[cpu[c].key].count]
  /\ UNCHANGED <<kiroConfig, now, rateState, tracker, synRate, passedAlone>>

\* One more; counts beyond their limit are not told apart.
OneMore(key, n, count) == IF count > Limit(key, n) THEN count ELSE count + 1

\* Each increment is a read and a write of its own: others may have written in between,
\* or not, and what they wrote is lost, or not.
WriteCounts(c, lost) ==
  /\ CpuDoes(c, "write") /\ lost \subseteq cpu[c].counts
  /\ LET key == cpu[c].key
         old == rateState[key].count
         new == [n \in Counters |->
                   IF n \in lost THEN OneMore(key, n, cpu[c].reg[n])
                   ELSE IF n \in cpu[c].counts THEN OneMore(key, n, old[n]) ELSE old[n]]
     IN /\ rateState' = [rateState EXCEPT ![key].count = new]
        /\ cpu' = [cpu EXCEPT ![c].at = "judge", ![c].reg = new]
  /\ UNCHANGED <<kiroConfig, now, tracker, synRate, passedAlone>>

threshold_off_by_one(threshold, value) ==    \* mutant: one packet more
  threshold > 0 /\ value > threshold + 1

threshold_exceeded(threshold, value) == threshold > 0 /\ value > threshold

\* The comparison sees what this CPU wrote, or what is there now.
Judge(c) ==
  /\ CpuDoes(c, "judge")
  /\ \E count \in {cpu[c].reg, rateState[cpu[c].key].count} :
       IF \E n \in cpu[c].counts : threshold_exceeded(Limit(cpu[c].key, n), count[n])
       THEN cpu' = [cpu EXCEPT ![c] = IdleCpu] /\ UNCHANGED passedAlone
       ELSE /\ NextKey(c)
            /\ passedAlone' = [passedAlone EXCEPT ![cpu[c].key] = PassedOneMore(c, @)]
  /\ UNCHANGED <<kiroConfig, now, rateState, tracker, synRate>>

\* The kernel makes room in a full map with what was not used lately.
EvictRate(key) ==
  /\ key \in DOMAIN rateState /\ InCheck(key) = {}
  /\ rateState' = [k \in DOMAIN rateState \ {key} |-> rateState[k]]
  /\ passedAlone' = [passedAlone EXCEPT ![key] = NonePassed]
  /\ UNCHANGED <<kiroConfig, now, tracker, synRate, cpu>>

EvictConnection(s) ==
  /\ s \in tracker /\ tracker' = tracker \ {s}
  /\ UNCHANGED <<kiroConfig, now, rateState, synRate, cpu, passedAlone>>

FilterTick ==
  /\ now < MaxClock /\ now' = now + 1
  /\ UNCHANGED <<kiroConfig, rateState, tracker, synRate, cpu, passedAlone>>

XDPNext ==
  \/ \E c \in Cpus :
       \/ \E p \in Packets, botnet \in BOOLEAN : Receive(c, p, botnet)
       \/ Lookup(c) \/ Insert(c) \/ Restart(c) \/ Zero(c) \/ ReadCounts(c) \/ Judge(c)
       \/ \E lost \in SUBSET Counters : WriteCounts(c, lost)
  \/ \E key \in Keys : EvictRate(key)
  \/ \E s \in Sources : EvictConnection(s)
  \/ FilterTick

XDPSpec == XDPInit /\ [][XDPNext]_filterAllVars

-----------------------------------------------------------------------------
\* What of the limits survives the races: packets that meet no other CPU in the check of
\* their source or network are never more than its limit in one of its windows, whatever
\* increments, resets and insertions other CPUs have overwritten before.
LimitHoldsAlone ==
  \A k \in Keys, n \in Counters : Limit(k, n) > 0 => passedAlone[k][n] <= Limit(k, n)
=================================================================================
