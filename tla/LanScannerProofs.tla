-------------------------- MODULE LanScannerProofs --------------------------
(***************************************************************************)
(* Proofs about LanScanner, for every size of subnet, of table and of      *)
(* probe list, every set of networks and every discovery traffic.          *)
(***************************************************************************)
EXTENDS LanScanner, FiniteSetTheorems, SequenceTheorems, TLAPS

(***************************************************************************)
(* What TypeOK needs to be inductive: a probe is only sent on a resolved   *)
(* subnet, once the host cursor was reset.                                 *)
(***************************************************************************)
Resolved == /\ phase # "resolve" => subnet \in Nets
            /\ running \/ phase # "resolve" => nextHost > 0
            /\ pc = "events" => phase # "resolve" /\ running

TypeInv == TypeOK /\ Resolved

-----------------------------------------------------------------------------
(* Lemmas about the operators.                                             *)

(* Find returns the index of the address, or 0 if no host has it.          *)
LEMMA FindProperties ==
  ASSUME hosts \in Seq(HostRecord), NEW ip
  PROVE  /\ Find(ip) \in 0..Len(hosts)
         /\ Find(ip) # 0 => hosts[Find(ip)].ip = ip
         /\ Find(ip) = 0 => \A i \in 1..Len(hosts) : hosts[i].ip # ip
  BY DEF Find

(* upsert_host keeps the host table and its counters well typed.           *)
LEMMA UpsertType ==
  ASSUME TypeOK, NEW ip \in Ips, NEW flags \in SUBSET Sources,
         NEW name \in Names \union {NoName}, NEW ports \in SUBSET Ports, NEW err \in Errors,
         UpsertHost(ip, flags, name, ports, err)
  PROVE  hosts' \in Seq(HostRecord) /\ hits' \in [Sources -> Nat] /\ hostsAlive' \in Nat
<1>1. CASE Find(ip) = 0 /\ TableFull
  BY <1>1 DEF UpsertHost, table, TypeOK
<1>2. CASE ~(Find(ip) = 0 /\ TableFull)
  <2> DEFINE i == IF Find(ip) = 0 THEN Len(hosts) + 1 ELSE Find(ip)
             h == IF Find(ip) = 0 THEN NewHost(ip) ELSE hosts[i]
             merged == MergeHost(h, flags, name, ports, err)
  <2>1. hosts \in Seq(HostRecord) /\ hits \in [Sources -> Nat]
    BY DEF TypeOK
  <2>2. h \in HostRecord
    <3>1. NewHost(ip) \in HostRecord
      BY DEF NewHost, HostRecord, Errors
    <3>2. Find(ip) # 0 => Find(ip) \in 1..Len(hosts)
      BY <2>1, FindProperties
    <3> QED BY <2>1, <3>1, <3>2, ElementOfSeq
  <2>3. merged \in HostRecord
    <3> HIDE DEF h
    <3>1. IsGateway(h.ip) \in BOOLEAN
      BY DEF IsGateway
    <3>2. h.ip \in Ips /\ h.name \in Names \union {NoName} /\ h.flags \in SUBSET Sources
          /\ h.ports \in SUBSET Ports /\ h.err \in Errors /\ h.gateway \in BOOLEAN
      BY <2>2 DEF HostRecord
    <3> QED BY <2>2, <3>1, <3>2 DEF MergeHost, HostRecord
  <2>4. /\ hosts' = IF Find(ip) = 0 THEN Append(hosts, merged)
                                    ELSE [hosts EXCEPT ![i] = merged]
        /\ hits' = MarkSourceHits(NewFlags(flags, h.flags))
        /\ hostsAlive' = Len(hosts')
    BY <1>2 DEF UpsertHost
  <2>5. hosts' \in Seq(HostRecord)
    <3>1. CASE Find(ip) = 0
      BY <3>1, <2>1, <2>3, <2>4
    <3>2. CASE Find(ip) # 0
      <4>1. i \in 1..Len(hosts)
        BY <3>2, <2>1, FindProperties
      <4> HIDE DEF i, merged
      <4> QED BY <3>2, <4>1, <2>1, <2>3, <2>4
    <3> QED BY <3>1, <3>2
  <2>6. hits' \in [Sources -> Nat]
    BY <2>1, <2>4 DEF MarkSourceHits
  <2> QED BY <2>4, <2>5, <2>6
<1> QED BY <1>1, <1>2

(* The host a tick works on is a host of the subnet.                       *)
LEMMA TargetType ==
  ASSUME TypeInv, phase # "resolve", ~(currentHost = 0 /\ NoHostLeft)
  PROVE  /\ Target \in Hosts
         /\ CurrentIp \in Ips
  BY ScannerAssumption
  DEF TypeInv, TypeOK, Resolved, Target, SelectNextHost, NoHostLeft, PreferredPending,
      Candidate, Hosts, CurrentIp, Ips

-----------------------------------------------------------------------------
(* Type correctness, one lemma per part of the tick.                       *)

LEMMA BeginKeepsType ==
  ASSUME TypeInv, TickBegin
  PROVE  TypeInv'
<1> USE ScannerAssumption DEF TypeInv, TypeOK, Resolved
<1>1. UNCHANGED <<running, maxHosts, hostsScanned, scanRound, icmpSupported, ipHint, gwHint,
                  nextHost, currentHost, currentFlags, hosts, hits, hostsAlive, probed,
                  responders, gwChanged>>
  BY DEF TickBegin, hints, table
<1>2. CASE Resolve
  <2>1. PICK net \in IF ipHint # None THEN {ipHint} ELSE LocalSubnets :
               IF net = None THEN ResolveFails ELSE ResolveTo(net)
    BY <1>2 DEF Resolve
  <2>2. CASE ResolveFails
    <3>1. pc' = pc /\ phase' = phase /\ phase = "resolve" /\ pc = "idle" /\ running
      BY <1>2, <2>2 DEF ResolveFails, TickBegin, tick, Resolve
    <3> QED BY <1>1, <2>2, <3>1 DEF ResolveFails, tick, Errors
  <2>3. CASE net # None /\ ResolveTo(net)
    <3>1. net \in Nets
      BY <2>1, <2>3 DEF LocalSubnets
    <3>2. PreferredIn(net) \in 0..LastHost
      BY DEF PreferredIn, Hosts
    <3>3. running /\ nextHost > 0
      BY DEF TickBegin
    <3>4. Resolved'
      BY <1>1, <2>3, <3>1, <3>3 DEF ResolveTo
    <3>5. preferred' \in 0..LastHost
      BY <2>3, <3>2 DEF ResolveTo
    <3>6. preferredDone' \in BOOLEAN /\ currentAlive' \in BOOLEAN
      BY <2>3 DEF ResolveTo
    <3>7. TypeOK'
      BY <1>1, <2>3, <3>1, <3>5, <3>6 DEF ResolveTo
    <3> QED BY <3>4, <3>7
  <2> QED BY <2>1, <2>2, <2>3
<1>3. CASE ~Resolve
  BY <1>1, <1>3 DEF TickBegin
<1> QED BY <1>2, <1>3

LEMMA EventKeepsType ==
  ASSUME TypeInv, TickEvent
  PROVE  TypeInv'
<1>1. PICK ip \in EventIps, s \in EventSources, name \in Names \union {NoName} :
        /\ UpsertHost(ip, {s}, name, {}, "ok")
        /\ responders' = responders \union {ip}
  BY DEF TickEvent
<1>2. ip \in Ips /\ {s} \in SUBSET Sources
  BY DEF Ips, Sources
<1>3. hosts' \in Seq(HostRecord) /\ hits' \in [Sources -> Nat] /\ hostsAlive' \in Nat
  BY <1>1, <1>2, UpsertType DEF TypeInv, Errors
<1> QED BY <1>1, <1>2, <1>3, ScannerAssumption
        DEF TypeInv, TypeOK, Resolved, TickEvent, hints, cursor, probe

(* finalize_host leaves no host under probe and records a well typed host. *)
LEMMA FinalizeType ==
  ASSUME TypeInv, phase # "resolve", ~(currentHost = 0 /\ NoHostLeft),
         NEW alive \in BOOLEAN, NEW flags \in SUBSET Sources, NEW ports \in SUBSET Ports,
         lastError' \in Errors, FinalizeHost(alive, flags, ports)
  PROVE  /\ hostsScanned' \in Nat /\ probed' \in SUBSET Hosts
         /\ hosts' \in Seq(HostRecord) /\ hits' \in [Sources -> Nat] /\ hostsAlive' \in Nat
         /\ currentHost' = 0 /\ phase' = "alive" /\ aliveIndex' = 0 /\ portIndex' = 0
         /\ currentAlive' = FALSE /\ currentFlags' = {} /\ currentPorts' = {}
<1>1. CASE alive
  <2>1. UpsertHost(CurrentIp, flags, NoName, ports, lastError')
    BY <1>1 DEF FinalizeHost, ListHost
  <2>2. hosts' \in Seq(HostRecord) /\ hits' \in [Sources -> Nat] /\ hostsAlive' \in Nat
    BY <2>1, UpsertType, TargetType DEF TypeInv
  <2> QED BY <2>2, TargetType DEF FinalizeHost, ResetProbe, TypeInv, TypeOK
<1>2. CASE ~alive
  BY <1>2, TargetType DEF FinalizeHost, ListHost, ResetProbe, table, TypeInv, TypeOK
<1> QED BY <1>1, <1>2

(* The host cursor moves within the subnet.                                *)
LEMMA AdvanceType ==
  ASSUME TypeInv, phase # "resolve", ~(currentHost = 0 /\ NoHostLeft), Advance
  PROVE  nextHost' \in 1..(LastHost + 1) /\ preferredDone' \in BOOLEAN
<1>1. preferredDone' \in BOOLEAN
  BY DEF Advance, TypeInv, TypeOK
<1>2. nextHost \in 1..(LastHost + 1)
  BY ScannerAssumption DEF TypeInv, TypeOK, Resolved
<1>3. nextHost' \in 1..(LastHost + 1)
  BY <1>2, TargetType, ScannerAssumption DEF Advance, Hosts
<1> QED BY <1>1, <1>3

LEMMA FinishKeepsType ==
  ASSUME TypeInv, TickProbe, FinishRound
  PROVE  TypeInv'
<1> USE ScannerAssumption DEF TypeInv, TypeOK, Resolved
<1>1. UNCHANGED <<phase, preferredDone, currentHost, hostsScanned, lastError, icmpSupported,
                  aliveIndex, portIndex, currentAlive, currentFlags, currentPorts, hosts, hits,
                  hostsAlive, probed, responders, errorOf, subnet, maxHosts, ipHint, gwHint,
                  preferred, gwChanged>>
  BY DEF FinishRound, TickProbe, probe, table, hints
<1>2. running' \in BOOLEAN /\ running' = FALSE
  BY DEF FinishRound
<1>3. scanRound' \in Nat /\ nextHost' \in 1..(LastHost + 1) /\ pc' = "idle" /\ eventsLeft' = 0
  BY DEF FinishRound, TickProbe
<1> QED BY <1>1, <1>2, <1>3

LEMMA ProbeAliveKeepsType ==
  ASSUME TypeInv, TickProbe, ProbeAlive
  PROVE  TypeInv'
<1> USE ScannerAssumption DEF TypeInv, TypeOK, Resolved
<1>0. phase # "resolve" /\ ~(currentHost = 0 /\ NoHostLeft)
  BY DEF ProbeAlive
<1>1. UNCHANGED <<running, scanRound, subnet, maxHosts, ipHint, gwHint, preferred, gwChanged>>
  BY DEF ProbeAlive, TickProbe, hints
<1>2. pc' = "idle" /\ eventsLeft' = 0
  BY DEF TickProbe
<1>3. nextHost' \in 1..(LastHost + 1) /\ preferredDone' \in BOOLEAN
  BY <1>0, AdvanceType DEF ProbeAlive
<1>4. PICK outcome \in Outcomes :
        /\ LearnIcmp(outcome[2])
        /\ RecordError(outcome[2])
        /\ IF outcome[1] = "none" THEN HostSilent ELSE HostAnswers
  BY DEF ProbeAlive
<1>5. outcome[2] \in {"ok", "refused", "timeout", "denied", "other"}
  BY DEF Outcomes, IcmpOutcomes, TcpOutcomes
<1>6. lastError' \in Errors /\ errorOf' \in 0..LastHost
  BY <1>0, <1>4, <1>5, TargetType DEF RecordError, Errors, Hosts
<1>7. icmpSupported' \in {-1, 0, 1}
  BY <1>4 DEF LearnIcmp
<1>8. Target \in Hosts /\ CurrentIp \in Ips
  BY <1>0, TargetType
<1>9. CASE HostAnswers
  <2>1. /\ currentAlive' \in BOOLEAN /\ currentFlags' \in SUBSET Sources
        /\ phase' = "ports" /\ portIndex' = 0
        /\ currentHost' \in 0..LastHost /\ responders' \in SUBSET Ips
    BY <1>8, <1>9 DEF HostAnswers, Sources, Hosts
  <2>2. UNCHANGED <<aliveIndex, currentPorts, hostsScanned, hosts, hits, hostsAlive, probed>>
    BY <1>9 DEF HostAnswers, table
  <2> QED BY <1>0, <1>1, <1>2, <1>3, <1>6, <1>7, <2>1, <2>2
<1>10. CASE HostSilent /\ LastAliveStep
  <2>1. FinalizeHost(currentAlive, currentFlags, currentPorts) /\ responders' = responders
    BY <1>10 DEF HostSilent
  <2>2. /\ hostsScanned' \in Nat /\ probed' \in SUBSET Hosts
        /\ hosts' \in Seq(HostRecord) /\ hits' \in [Sources -> Nat] /\ hostsAlive' \in Nat
        /\ currentHost' = 0 /\ phase' = "alive" /\ aliveIndex' = 0 /\ portIndex' = 0
        /\ currentAlive' \in BOOLEAN /\ currentFlags' = {} /\ currentPorts' = {}
    BY <1>0, <1>6, <2>1, FinalizeType
  <2>3. responders' = responders
    BY <2>1
  <2>4. TypeOK'
    BY <1>1, <1>2, <1>3, <1>6, <1>7, <2>2, <2>3, SMTT(30)
  <2>5. Resolved'
    BY <1>0, <1>1, <1>2, <1>3, <2>2
  <2> QED BY <2>4, <2>5 DEF TypeInv
<1>11. CASE HostSilent /\ ~LastAliveStep
  <2>1. UNCHANGED <<phase, portIndex, currentAlive, currentFlags, currentPorts, hostsScanned,
                    hosts, hits, hostsAlive, probed, responders>>
    BY <1>11 DEF HostSilent, table
  <2>2. aliveIndex' \in 0..(AliveSteps - 1) /\ currentHost' \in 0..LastHost
    BY <1>8, <1>11, SMTT(30) DEF HostSilent, LastAliveStep, Hosts
  <2> QED BY <1>0, <1>1, <1>2, <1>3, <1>6, <1>7, <2>1, <2>2
<1> QED BY <1>4, <1>9, <1>10, <1>11

LEMMA ProbePortsKeepsType ==
  ASSUME TypeInv, TickProbe, ProbePorts
  PROVE  TypeInv'
<1> USE ScannerAssumption DEF TypeInv, TypeOK, Resolved
<1>0. phase # "resolve" /\ ~(currentHost = 0 /\ NoHostLeft)
  BY DEF ProbePorts
<1>1. UNCHANGED <<running, scanRound, icmpSupported, responders, subnet, maxHosts, ipHint,
                  gwHint, preferred, gwChanged>>
  BY DEF ProbePorts, TickProbe, hints
<1>2. pc' = "idle" /\ eventsLeft' = 0
  BY DEF TickProbe
<1>3. nextHost' \in 1..(LastHost + 1) /\ preferredDone' \in BOOLEAN
  BY <1>0, AdvanceType DEF ProbePorts
<1>4. PICK outcome \in TcpOutcomes :
        LET opened == IF outcome[1] = "open" THEN {PortOf[portIndex + 1]} ELSE {}
        IN /\ RecordError(outcome[2])
           /\ IF LastPortStep
                THEN FinalizeHost(currentAlive, currentFlags, currentPorts \union opened)
                ELSE /\ currentPorts' = currentPorts \union opened
                     /\ portIndex' = portIndex + 1
                     /\ currentHost' = Target
                     /\ UNCHANGED <<phase, aliveIndex, currentAlive, currentFlags,
                                    hostsScanned, table, probed>>
  BY DEF ProbePorts
<1> DEFINE opened == IF outcome[1] = "open" THEN {PortOf[portIndex + 1]} ELSE {}
<1>5. lastError' \in Errors /\ errorOf' \in 0..LastHost
  <2>1. outcome[2] \in {"ok", "refused", "timeout", "other"}
    BY DEF TcpOutcomes
  <2> QED BY <1>0, <1>4, <2>1, TargetType DEF RecordError, Errors, Hosts
<1>6. currentPorts \union opened \in SUBSET Ports
  BY DEF Ports
<1> HIDE DEF opened
<1>7. CASE LastPortStep
  <2>1. FinalizeHost(currentAlive, currentFlags, currentPorts \union opened)
    BY <1>4, <1>7 DEF opened
  <2>2. /\ hostsScanned' \in Nat /\ probed' \in SUBSET Hosts
        /\ hosts' \in Seq(HostRecord) /\ hits' \in [Sources -> Nat] /\ hostsAlive' \in Nat
        /\ currentHost' = 0 /\ phase' = "alive" /\ aliveIndex' = 0 /\ portIndex' = 0
        /\ currentAlive' \in BOOLEAN /\ currentFlags' = {} /\ currentPorts' = {}
    BY <1>0, <1>5, <1>6, <2>1, FinalizeType
  <2> QED BY <1>0, <1>1, <1>2, <1>3, <1>5, <2>2
<1>8. CASE ~LastPortStep
  <2>1. UNCHANGED <<phase, aliveIndex, currentAlive, currentFlags, hostsScanned, hosts, hits,
                    hostsAlive, probed>>
    BY <1>4, <1>8 DEF table
  <2>2. /\ portIndex' \in 0..(PortCount - 1) /\ currentHost' \in 0..LastHost
        /\ currentPorts' \in SUBSET Ports
    BY <1>0, <1>4, <1>6, <1>8, TargetType DEF LastPortStep, Hosts, opened
  <2> QED BY <1>0, <1>1, <1>2, <1>3, <1>5, <2>1, <2>2
<1> QED BY <1>7, <1>8

LEMMA BeginNewRoundType ==
  ASSUME BeginNewRound
  PROVE  /\ hosts' \in Seq(HostRecord) /\ hits' \in [Sources -> Nat]
         /\ hostsScanned' = 0 /\ hostsAlive' = 0 /\ lastError' \in Errors
         /\ nextHost' = 1 /\ currentHost' = 0 /\ preferred' = 0
         /\ preferredDone' \in BOOLEAN /\ phase' = "resolve"
         /\ aliveIndex' = 0 /\ portIndex' = 0 /\ currentAlive' \in BOOLEAN
         /\ currentFlags' = {} /\ currentPorts' = {}
         /\ probed' = {} /\ responders' = {} /\ errorOf' = 0 /\ gwChanged' \in BOOLEAN
<1>1. /\ preferredDone' \in BOOLEAN /\ currentAlive' \in BOOLEAN /\ gwChanged' \in BOOLEAN
  BY DEF BeginNewRound, ResetProbe
<1>2. hosts' \in Seq(HostRecord)
  BY DEF BeginNewRound
<1> QED BY <1>1, <1>2 DEF BeginNewRound, ResetProbe, Errors

(* A round begins in a well typed state; both operations that begin one    *)
(* leave the automaton in the resolve phase.                               *)
LEMMA StartKeepsType ==
  ASSUME TypeInv, (\E arg \in MaxHostsArgs : Start(arg)) \/ RequestRescan
  PROVE  TypeInv'
<1> USE ScannerAssumption DEF TypeInv, TypeOK, Resolved
<1>1. BeginNewRound /\ pc = "idle"
  BY DEF Start, RequestRescan
<1>2. running' \in BOOLEAN
  BY DEF Start, RequestRescan
<1>3. UNCHANGED <<subnet, scanRound, icmpSupported, ipHint, gwHint, pc, eventsLeft>>
  BY DEF Start, RequestRescan, hints, tick
<1>4. maxHosts' \in 1..MaxHosts
  <2>1. ASSUME NEW arg \in MaxHostsArgs, Start(arg) PROVE maxHosts' \in 1..MaxHosts
    BY <2>1 DEF Start, EffectiveMaxHosts
  <2>2. CASE RequestRescan
    BY <2>2 DEF RequestRescan
  <2> QED BY <2>1, <2>2
<1>5. /\ hosts' \in Seq(HostRecord) /\ hits' \in [Sources -> Nat]
      /\ hostsScanned' = 0 /\ hostsAlive' = 0 /\ lastError' \in Errors
      /\ nextHost' = 1 /\ currentHost' = 0 /\ preferred' = 0
      /\ preferredDone' \in BOOLEAN /\ phase' = "resolve"
      /\ aliveIndex' = 0 /\ portIndex' = 0 /\ currentAlive' \in BOOLEAN
      /\ currentFlags' = {} /\ currentPorts' = {}
      /\ probed' = {} /\ responders' = {} /\ errorOf' = 0 /\ gwChanged' \in BOOLEAN
  BY <1>1, BeginNewRoundType
<1> QED BY <1>1, <1>2, <1>3, <1>4, <1>5

LEMMA StopKeepsType ==
  ASSUME TypeInv, Stop
  PROVE  TypeInv'
<1>1. running' \in BOOLEAN /\ ~running' /\ pc = "idle"
  BY DEF Stop
<1>2. UNCHANGED <<phase, subnet, maxHosts, hostsScanned, scanRound, lastError, icmpSupported,
                  probed, responders, errorOf, gwChanged, ipHint, gwHint, preferred,
                  preferredDone, nextHost, currentHost, aliveIndex, portIndex, currentAlive,
                  currentFlags, currentPorts, hosts, hits, hostsAlive, pc, eventsLeft>>
  BY DEF Stop, history, hints, cursor, probe, table, tick
<1> QED BY <1>1, <1>2 DEF TypeInv, TypeOK, Resolved

LEMMA HintKeepsType ==
  ASSUME TypeInv,
         \/ \E net \in Nets \union {None} : SetIpHint(net)
         \/ \E ip \in (Nets \X Hosts) \union {None} : SetGatewayHint(ip)
  PROVE  TypeInv'
<1>1. ipHint' \in Nets \union {None} /\ gwHint' \in (Nets \X Hosts) \union {None}
  BY DEF SetIpHint, SetGatewayHint, TypeInv, TypeOK
<1>2. gwChanged' \in BOOLEAN
  BY DEF SetIpHint, SetGatewayHint, history, TypeInv, TypeOK
<1>3. UNCHANGED <<running, phase, subnet, maxHosts, hostsScanned, scanRound, lastError,
                  icmpSupported, probed, responders, errorOf, preferred, preferredDone,
                  nextHost, currentHost, aliveIndex, portIndex, currentAlive, currentFlags,
                  currentPorts, hosts, hits, hostsAlive, pc, eventsLeft>>
  BY DEF SetIpHint, SetGatewayHint, history, cursor, probe, table, tick
<1> QED BY <1>1, <1>2, <1>3 DEF TypeInv, TypeOK, Resolved

LEMMA StepKeepsType == TypeInv /\ [Next]_vars => TypeInv'
<1> SUFFICES ASSUME TypeInv, [Next]_vars PROVE TypeInv'
  OBVIOUS
<1>1. CASE TickBegin BY <1>1, BeginKeepsType
<1>2. CASE TickEvent BY <1>2, EventKeepsType
<1>3. CASE TickProbe
  BY <1>3, FinishKeepsType, ProbeAliveKeepsType, ProbePortsKeepsType DEF TickProbe
<1>4. CASE UNCHANGED vars
  BY <1>4 DEF vars, history, hints, cursor, probe, table, tick, TypeInv, TypeOK, Resolved
<1> QED BY <1>1, <1>2, <1>3, <1>4, StartKeepsType, StopKeepsType, HintKeepsType DEF Next, Tick

LEMMA InitIsTyped == Init => TypeInv
<1>1. Init => /\ running \in BOOLEAN /\ preferredDone \in BOOLEAN
              /\ currentAlive \in BOOLEAN /\ gwChanged \in BOOLEAN /\ ~running
  BY DEF Init
<1>2. Init => hosts \in Seq(HostRecord) /\ hits \in [Sources -> Nat]
  BY DEF Init
<1> QED BY <1>1, <1>2, ScannerAssumption DEF Init, TypeInv, TypeOK, Resolved, Errors

(***************************************************************************)
(* Every variable of the scanner stays in its type: probe indices within   *)
(* the probe lists, the cursor within the subnet, the configured limit     *)
(* between 1 and the size of the array.                                    *)
(***************************************************************************)
THEOREM TypeCorrect == Spec => []TypeOK
<1>1. TypeInv => TypeOK
  BY DEF TypeInv
<1> QED BY <1>1, InitIsTyped, StepKeepsType, PTL DEF Spec

-----------------------------------------------------------------------------
(***************************************************************************)
(* The sweep of the subnet.  The hosts whose probing has started are those *)
(* below next_host, except the gateway, and the gateway once it was        *)
(* selected; nothing else in the model says which hosts were probed.       *)
(***************************************************************************)
Selected(next, done) ==
  {h \in Hosts : h < next /\ h # preferred} \union (IF done THEN {preferred} ELSE {})

Sweep ==
  /\ phase = "resolve" => probed = {} /\ currentHost = 0
  /\ phase = "resolve" /\ running => nextHost = 1
  /\ phase # "resolve" => ProbedSoFar = Selected(nextHost, preferredDone)
  /\ phase # "resolve" /\ preferred # 0 /\ ~preferredDone => nextHost = 1
  /\ preferredDone => preferred # 0
  /\ currentHost \notin probed
  /\ hostsScanned = Cardinality(probed)

SweepInv == TypeInv /\ Sweep

LEMMA ProbedIsFinite == ASSUME TypeOK PROVE IsFiniteSet(probed)
<1>1. IsFiniteSet(1..LastHost)
  BY FS_Interval, ScannerAssumption
<1> QED BY <1>1, FS_Subset DEF TypeOK, Hosts

LEMMA ZeroIsNoHost == 0 \notin Hosts /\ (TypeOK => 0 \notin probed)
<1>1. 0 \notin Hosts
  BY ScannerAssumption DEF Hosts
<1> QED BY <1>1 DEF TypeOK

(* select_next_host picks a host that was not selected before, and the     *)
(* cursor it leaves accounts for exactly that host.                        *)
LEMMA SelectionIsFresh ==
  ASSUME SweepInv, phase # "resolve", ~(currentHost = 0 /\ NoHostLeft), Advance
  PROVE  /\ Target \in Hosts /\ Target \notin probed
         /\ ProbedSoFar \union {Target} = Selected(nextHost', preferredDone')
         /\ preferred # 0 /\ ~preferredDone' => nextHost' = 1
         /\ preferredDone' => preferred # 0
<1> USE ScannerAssumption DEF SweepInv, TypeInv, TypeOK, Resolved, Sweep
<1>1. Target \in Hosts
  BY TargetType
<1>2. 0 \notin probed /\ nextHost \in 1..(LastHost + 1)
  BY DEF Hosts
<1>3. CASE currentHost # 0
  <2>1. Target = currentHost /\ nextHost' = nextHost /\ preferredDone' = preferredDone
    BY <1>3 DEF Target, Advance
  <2>2. Target \in ProbedSoFar
    BY <1>3, <2>1 DEF ProbedSoFar
  <2> QED BY <1>1, <2>1, <2>2
<1>4. CASE currentHost = 0 /\ PreferredPending
  <2>1. Target = preferred /\ nextHost' = nextHost /\ preferredDone' = TRUE /\ nextHost = 1
    BY <1>4 DEF Target, Advance, SelectNextHost, PreferredPending
  <2>2. ProbedSoFar = {} /\ probed = {}
    BY <1>2, <1>4, <2>1 DEF Selected, Hosts, ProbedSoFar, PreferredPending
  <2> QED BY <1>1, <1>4, <2>1, <2>2 DEF Selected, Hosts, PreferredPending
<1>5. CASE currentHost = 0 /\ ~PreferredPending
  <2>1. /\ Target = Candidate /\ nextHost' = Target + 1 /\ preferredDone' = preferredDone
        /\ probed = ProbedSoFar
    BY <1>2, <1>5 DEF Target, Advance, SelectNextHost, ProbedSoFar
  <2>2. Target \notin probed
    BY <1>2, <1>5, <2>1 DEF Selected, Candidate, Hosts
  <2>3. Selected(nextHost, preferredDone) \union {Target} = Selected(Target + 1, preferredDone)
    BY <1>1, <1>2, <2>1 DEF Selected, Candidate, Hosts
  <2> QED BY <1>1, <1>5, <2>1, <2>2, <2>3 DEF PreferredPending
<1> QED BY <1>3, <1>4, <1>5

(* A tick that probes adds its target to the hosts selected so far, and to *)
(* the finished ones when it was the host's last probe.                    *)
LEMMA ProbeKeepsSweep ==
  ASSUME SweepInv, TypeInv', TickProbe, ProbeAlive \/ ProbePorts
  PROVE  Sweep'
<1> USE DEF SweepInv
<1>1. phase # "resolve" /\ ~(currentHost = 0 /\ NoHostLeft) /\ Advance /\ preferred' = preferred
  BY DEF ProbeAlive, ProbePorts, TickProbe
<1>2. /\ Target \in Hosts /\ Target \notin probed
      /\ ProbedSoFar \union {Target} = Selected(nextHost', preferredDone')
      /\ preferred # 0 /\ ~preferredDone' => nextHost' = 1
      /\ preferredDone' => preferred # 0
  BY <1>1, SelectionIsFresh
<1>3. 0 \notin probed /\ Target # 0
  BY <1>2, ZeroIsNoHost DEF TypeInv
<1>4. currentHost \in {0, Target}
  BY DEF Target
<1>5. \/ /\ currentHost' = Target /\ probed' = probed /\ hostsScanned' = hostsScanned
         /\ phase' # "resolve"
      \/ /\ currentHost' = 0 /\ probed' = probed \union {Target}
         /\ hostsScanned' = hostsScanned + 1 /\ phase' # "resolve"
  <2>1. CASE ProbeAlive
    BY <1>1, <2>1 DEF ProbeAlive, HostAnswers, HostSilent, FinalizeHost
  <2>2. CASE ProbePorts
    BY <1>1, <2>2 DEF ProbePorts, FinalizeHost
  <2> QED BY <2>1, <2>2
<1>6. ProbedSoFar' = ProbedSoFar \union {Target}
  BY <1>3, <1>4, <1>5 DEF ProbedSoFar
<1>7. ProbedSoFar' = Selected(nextHost, preferredDone)'
  BY <1>1, <1>2, <1>6 DEF Selected
<1>8. hostsScanned' = Cardinality(probed')
  BY <1>2, <1>5, ProbedIsFinite, FS_AddElement DEF Sweep, TypeInv
<1>9. currentHost' \notin probed'
  BY <1>2, <1>3, <1>5
<1>10. phase' # "resolve"
  BY <1>5
<1> HIDE DEF SweepInv
<1> QED BY ONLY <1>1, <1>2, <1>7, <1>8, <1>9, <1>10 DEF Sweep

(* The round ends when every host of the subnet was probed.                *)
LEMMA FinishedSweep ==
  ASSUME SweepInv, TickProbe, FinishRound
  PROVE  probed = Hosts /\ Sweep'
<1> USE ScannerAssumption DEF SweepInv, TypeInv, TypeOK, Resolved, Sweep
<1>1. phase # "resolve" /\ currentHost = 0 /\ NoHostLeft /\ nextHost \in 1..(LastHost + 1)
  BY DEF FinishRound, TickProbe
<1>2. probed = Selected(nextHost, preferredDone)
  <2>1. 0 \notin probed
    BY ZeroIsNoHost
  <2>2. ProbedSoFar = probed
    BY <1>1, <2>1 DEF ProbedSoFar
  <2> QED BY <1>1, <2>2
<1>3. Selected(nextHost, preferredDone) = Hosts
  BY <1>1 DEF NoHostLeft, PreferredPending, Candidate, Selected, Hosts
<1>4. UNCHANGED <<phase, preferred, preferredDone, currentHost, probed, hostsScanned>>
      /\ nextHost' = LastHost + 1
  BY DEF FinishRound, TickProbe
<1>5. Selected(nextHost, preferredDone)' = Hosts
  BY <1>1, <1>4, SMTT(30) DEF Selected, NoHostLeft, PreferredPending, Hosts
<1>6. ProbedSoFar' = Hosts
  BY <1>1, <1>2, <1>3, <1>4 DEF ProbedSoFar, Hosts
<1>7. preferred # 0 /\ ~preferredDone => FALSE
  BY <1>1 DEF NoHostLeft, PreferredPending
<1> QED BY <1>1, <1>2, <1>3, <1>4, <1>5, <1>6, <1>7

LEMMA BeginKeepsSweep ==
  ASSUME SweepInv, TickBegin
  PROVE  Sweep'
<1> USE DEF SweepInv, Sweep
<1>1. UNCHANGED <<running, probed, hostsScanned, nextHost, currentHost>> /\ running
  BY DEF TickBegin
<1>2. CASE phase # "resolve"
  <2>1. UNCHANGED <<phase, preferred, preferredDone>>
    BY <1>2 DEF TickBegin, Resolve
  <2>2. UNCHANGED <<ProbedSoFar, Selected(nextHost, preferredDone)>>
    BY <1>1, <2>1 DEF ProbedSoFar, Selected
  <2> QED BY <1>1, <1>2, <2>1, <2>2
<1>3. CASE phase = "resolve"
  <2>1. probed = {} /\ currentHost = 0 /\ nextHost = 1
    BY <1>1, <1>3
  <2>2. preferredDone' = FALSE \/ UNCHANGED <<phase, preferred, preferredDone>>
    BY <1>3 DEF TickBegin, Resolve, ResolveFails, ResolveTo
  <2>3. phase' # "resolve" => preferredDone' = FALSE
    BY <1>3 DEF TickBegin, Resolve, ResolveFails, ResolveTo
  <2>4. ProbedSoFar' = {}
    BY <1>1, <2>1 DEF ProbedSoFar
  <2>5. preferredDone' = FALSE => Selected(nextHost, preferredDone)' = {}
    BY <1>1, <2>1 DEF Selected, Hosts
  <2> QED BY <1>1, <1>3, <2>1, <2>2, <2>3, <2>4, <2>5
<1> QED BY <1>2, <1>3

LEMMA StepKeepsSweep == SweepInv /\ [Next]_vars => SweepInv'
<1> SUFFICES ASSUME SweepInv, [Next]_vars PROVE SweepInv'
  OBVIOUS
<1>0. TypeInv'
  BY StepKeepsType DEF SweepInv
<1>1. CASE TickBegin
  BY <1>0, <1>1, BeginKeepsSweep DEF SweepInv
<1>2. CASE TickProbe
  <2>1. CASE FinishRound
    BY <1>0, <1>2, <2>1, FinishedSweep DEF SweepInv
  <2>2. CASE ProbeAlive \/ ProbePorts
    BY <1>0, <1>2, <2>2, ProbeKeepsSweep DEF SweepInv
  <2> QED BY <1>2, <2>1, <2>2 DEF TickProbe
<1>3. CASE (\E arg \in MaxHostsArgs : Start(arg)) \/ RequestRescan
  <2>1. BeginNewRound
    BY <1>3 DEF Start, RequestRescan
  <2>2. /\ phase' = "resolve" /\ probed' = {} /\ currentHost' = 0 /\ nextHost' = 1
        /\ preferredDone' = FALSE /\ hostsScanned' = 0
    BY <2>1 DEF BeginNewRound
  <2> QED BY <1>0, <2>2, FS_EmptySet DEF SweepInv, Sweep
<1>4. CASE \/ TickEvent \/ Stop \/ UNCHANGED vars
           \/ \E net \in Nets \union {None} : SetIpHint(net)
           \/ \E ip \in (Nets \X Hosts) \union {None} : SetGatewayHint(ip)
  <2>1. /\ UNCHANGED <<phase, probed, currentHost, nextHost, preferred, preferredDone,
                       hostsScanned>>
    BY <1>4 DEF TickEvent, Stop, SetIpHint, SetGatewayHint, vars, history, hints, cursor
  <2>2. UNCHANGED <<ProbedSoFar, Selected(nextHost, preferredDone)>>
    BY <2>1 DEF ProbedSoFar, Selected
  <2>3. running' => running
    BY <1>4 DEF TickEvent, Stop, SetIpHint, SetGatewayHint, vars
  <2> QED BY <1>0, <2>1, <2>2, <2>3 DEF SweepInv, Sweep
<1> QED BY <1>1, <1>2, <1>3, <1>4 DEF Next, Tick

LEMMA SweepInvariant == Spec => []SweepInv
<1>1. Init => SweepInv
  BY InitIsTyped, FS_EmptySet DEF Init, SweepInv, Sweep
<1> QED BY <1>1, StepKeepsSweep, PTL DEF Spec

(***************************************************************************)
(* No host of the subnet is probed twice in a round, and hosts_scanned is  *)
(* the number of distinct hosts whose probing is over.                     *)
(***************************************************************************)
THEOREM HostsProbedOnce == Spec => []NoHostTwice
<1>1. SweepInv => NoHostTwice
  BY DEF SweepInv, Sweep, NoHostTwice
<1> QED BY <1>1, SweepInvariant, PTL

(***************************************************************************)
(* When the gateway is known at resolve time, it is the first host probed. *)
(***************************************************************************)
THEOREM GatewayIsFirst == Spec => []GatewayFirst
<1>1. SweepInv => GatewayFirst
  <2> SUFFICES ASSUME SweepInv, preferred # 0, ProbedSoFar # {}
               PROVE  preferred \in ProbedSoFar
    BY DEF GatewayFirst
  <2> USE DEF SweepInv, Sweep
  <2>1. phase # "resolve"
    BY DEF ProbedSoFar
  <2>2. CASE preferredDone
    BY <2>1, <2>2 DEF Selected
  <2>3. CASE ~preferredDone
    <3>1. Selected(nextHost, preferredDone) = {}
      BY <2>1, <2>3 DEF Selected, Hosts
    <3> QED BY <2>1, <3>1
  <2> QED BY <2>2, <2>3
<1> QED BY <1>1, SweepInvariant, PTL

(***************************************************************************)
(* scan_round counts complete sweeps only: it changes when, and only when, *)
(* every host of the subnet has been probed in the round that ends.        *)
(***************************************************************************)
THEOREM RoundsAreComplete == Spec => RoundCoversSubnet
<1>1. SweepInv /\ [Next]_vars => [scanRound' # scanRound => probed = Hosts]_vars
  <2> SUFFICES ASSUME SweepInv, Next, scanRound' # scanRound PROVE probed = Hosts
    OBVIOUS
  <2>1. TickProbe
    BY DEF Next, Tick, TickBegin, TickEvent, Start, RequestRescan, Stop, SetIpHint,
           SetGatewayHint
  <2>2. FinishRound
    BY <2>1 DEF TickProbe, ProbeAlive, ProbePorts
  <2> QED BY <2>1, <2>2, FinishedSweep
<1> QED BY <1>1, SweepInvariant, PTL DEF Spec, RoundCoversSubnet

-----------------------------------------------------------------------------
(***************************************************************************)
(* The host table.  upsert_host leaves the addresses of the list as they   *)
(* are, or appends an address that was not in it while there was room.     *)
(***************************************************************************)
SameIps == /\ Len(hosts') = Len(hosts)
           /\ \A i \in 1..Len(hosts) : hosts'[i].ip = hosts[i].ip

NewIp(ip) == /\ Len(hosts) < maxHosts
             /\ Len(hosts') = Len(hosts) + 1
             /\ hosts'[Len(hosts) + 1].ip = ip
             /\ \A i \in 1..Len(hosts) : hosts'[i].ip = hosts[i].ip /\ hosts[i].ip # ip

LEMMA UpsertGrows ==
  ASSUME TypeOK, NEW ip, NEW flags, NEW name, NEW ports, NEW err,
         UpsertHost(ip, flags, name, ports, err)
  PROVE  SameIps \/ NewIp(ip)
<1>1. hosts \in Seq(HostRecord) /\ Len(hosts) \in Nat
  BY DEF TypeOK
<1>2. CASE Find(ip) = 0 /\ TableFull
  BY <1>2 DEF UpsertHost, table, SameIps
<1>3. CASE Find(ip) = 0 /\ ~TableFull
  <2> DEFINE merged == MergeHost(NewHost(ip), flags, name, ports, err)
  <2>1. hosts' = Append(hosts, merged)
    BY <1>3 DEF UpsertHost
  <2>2. merged.ip = ip
    BY DEF MergeHost, NewHost
  <2>3. \A i \in 1..Len(hosts) : hosts[i].ip # ip
    BY <1>1, <1>3, FindProperties
  <2>4. Len(hosts) < maxHosts
    BY <1>1, <1>3 DEF TableFull, TypeOK
  <2> HIDE DEF merged
  <2>5. /\ Len(hosts') = Len(hosts) + 1 /\ hosts'[Len(hosts) + 1] = merged
        /\ \A i \in 1..Len(hosts) : hosts'[i] = hosts[i]
    BY <1>1, <2>1
  <2> QED BY <2>2, <2>3, <2>4, <2>5 DEF NewIp
<1>4. CASE Find(ip) # 0
  <2> DEFINE merged == MergeHost(hosts[Find(ip)], flags, name, ports, err)
  <2>1. hosts' = [hosts EXCEPT ![Find(ip)] = merged]
    BY <1>4 DEF UpsertHost
  <2>2. Find(ip) \in 1..Len(hosts)
    BY <1>1, <1>4, FindProperties
  <2>3. merged.ip = hosts[Find(ip)].ip
    <3>1. hosts[Find(ip)] \in HostRecord
      BY <1>1, <2>2, ElementOfSeq
    <3> QED BY <3>1 DEF MergeHost, HostRecord
  <2> HIDE DEF merged
  <2> QED BY <1>1, <2>1, <2>2, <2>3 DEF SameIps
<1> QED BY <1>2, <1>3, <1>4

(* What one step does to the list of addresses.                            *)
LEMMA TableStep ==
  ASSUME TypeInv, [Next]_vars
  PROVE  \/ BeginNewRound /\ running' = TRUE /\ scanRound' = scanRound /\ maxHosts' \in Nat
         \/ SameIps /\ maxHosts' = maxHosts
         \/ /\ \E ip \in Ips : NewIp(ip)
            /\ UNCHANGED <<maxHosts, running, scanRound>> /\ running
<1>1. CASE TickEvent
  <2>1. PICK ip \in EventIps, s \in EventSources, name \in Names \union {NoName} :
          UpsertHost(ip, {s}, name, {}, "ok")
    BY <1>1 DEF TickEvent
  <2>2. UNCHANGED <<maxHosts, running, scanRound>> /\ running
    BY <1>1 DEF TickEvent, TypeInv, Resolved
  <2> QED BY <2>1, <2>2, UpsertGrows DEF TypeInv, Ips
<1>2. CASE TickProbe
  <2>1. CASE hosts' = hosts
    BY <1>2, <2>1 DEF TickProbe, SameIps
  <2>2. CASE hosts' # hosts
    <3>1. ProbeAlive \/ ProbePorts
      BY <1>2, <2>2 DEF TickProbe, FinishRound, table
    <3>2. /\ phase # "resolve" /\ ~(currentHost = 0 /\ NoHostLeft)
          /\ UNCHANGED <<maxHosts, running, scanRound>> /\ running
      BY <1>2, <3>1 DEF ProbeAlive, ProbePorts, TickProbe, TypeInv, Resolved
    <3>3. \E alive, flags, ports : FinalizeHost(alive, flags, ports)
      BY <2>2, <3>1 DEF ProbeAlive, ProbePorts, HostAnswers, HostSilent, table
    <3>4. \E flags, ports : UpsertHost(CurrentIp, flags, NoName, ports, lastError')
      BY <2>2, <3>3 DEF FinalizeHost, ListHost, table
    <3> QED BY <3>2, <3>4, UpsertGrows, TargetType DEF TypeInv
  <2> QED BY <2>1, <2>2
<1>3. CASE (\E arg \in MaxHostsArgs : Start(arg)) \/ RequestRescan
  <2>1. TypeInv'
    BY StepKeepsType
  <2> QED BY <1>3, <2>1 DEF Start, RequestRescan, TypeInv, TypeOK
<1>4. CASE \/ TickBegin \/ Stop \/ UNCHANGED vars
           \/ \E net \in Nets \union {None} : SetIpHint(net)
           \/ \E ip \in (Nets \X Hosts) \union {None} : SetGatewayHint(ip)
  BY <1>4 DEF TickBegin, Stop, SetIpHint, SetGatewayHint, vars, table, SameIps
<1> QED BY <1>1, <1>2, <1>3, <1>4 DEF Next, Tick

(***************************************************************************)
(* The host table lists no address twice and stays within the limit of the *)
(* config: discovery packets and probes cannot make it overflow the array. *)
(***************************************************************************)
THEOREM TableStaysASet == Spec => []TableIsASet
<1> DEFINE Inv == TypeInv /\ TableIsASet
<1>1. Init => Inv
  BY InitIsTyped, ScannerAssumption DEF Init, TableIsASet
<1>2. Inv /\ [Next]_vars => Inv'
  <2> SUFFICES ASSUME Inv, [Next]_vars PROVE TableIsASet'
    BY StepKeepsType
  <2>1. Len(hosts) \in Nat /\ maxHosts \in Nat
    BY ScannerAssumption DEF TypeInv, TypeOK
  <2>2. CASE BeginNewRound
    <3>1. hosts' = <<>>
      BY <2>2 DEF BeginNewRound
    <3>2. maxHosts' \in 1..MaxHosts
      BY StepKeepsType DEF TypeInv, TypeOK
    <3> QED BY <3>1, <3>2, ScannerAssumption DEF TableIsASet
  <2>3. CASE SameIps /\ maxHosts' = maxHosts
    BY <2>1, <2>3 DEF SameIps, TableIsASet
  <2>4. CASE (\E ip \in Ips : NewIp(ip)) /\ maxHosts' = maxHosts
    <3>1. PICK ip \in Ips : NewIp(ip)
      BY <2>4
    <3>2. Len(hosts') <= maxHosts'
      BY <2>1, <2>4, <3>1 DEF NewIp
    <3>3. ASSUME NEW i \in 1..Len(hosts'), NEW j \in 1..Len(hosts'),
                 hosts'[i].ip = hosts'[j].ip
          PROVE  i = j
      BY <2>1, <3>1, <3>3 DEF NewIp, TableIsASet
    <3> QED BY <3>2, <3>3 DEF TableIsASet
  <2> QED BY <2>2, <2>3, <2>4, TableStep
<1>3. Inv => TableIsASet
  OBVIOUS
<1> QED BY <1>1, <1>2, <1>3, PTL DEF Spec

-----------------------------------------------------------------------------
(* The addresses in the table, as ScanRounds sees them.                    *)
Found == [i \in 1..Len(hosts) |-> hosts[i].ip]

LEMMA FoundIsASeq ==
  ASSUME hosts \in Seq(HostRecord)
  PROVE  Found \in Seq(Ips) /\ Len(Found) = Len(hosts)
<1>1. \A i \in 1..Len(hosts) : hosts[i].ip \in Ips
  <2>1. \A i \in 1..Len(hosts) : hosts[i] \in HostRecord
    BY ElementOfSeq
  <2> QED BY <2>1 DEF HostRecord
<1>2. Len(hosts) \in Nat /\ Found \in [1..Len(hosts) -> Ips]
  BY <1>1 DEF Found
<1>3. Found \in Seq(Ips)
  BY <1>2, SeqDef
<1>4. DOMAIN Found = 1..Len(hosts) /\ DOMAIN Found = 1..Len(Found) /\ Len(Found) \in Nat
  <2> HIDE DEF Found
  <2> QED BY <1>2, <1>3, LenProperties
<1> QED BY <1>2, <1>3, <1>4

(* Outside a restart, a step leaves the round alone, stops it or ends it.  *)
LEMMA RoundStep ==
  ASSUME TypeInv, [Next]_vars, ~(BeginNewRound /\ running' = TRUE /\ scanRound' = scanRound)
  PROVE  \/ UNCHANGED <<running, scanRound>>
         \/ running' = FALSE /\ scanRound' = scanRound
         \/ running /\ running' = FALSE /\ scanRound' = scanRound + 1
<1>1. CASE TickBegin \/ TickEvent \/ UNCHANGED vars
  BY <1>1 DEF TickBegin, TickEvent, vars
<1>2. CASE TickProbe
  BY <1>2 DEF TickProbe, FinishRound, ProbeAlive, ProbePorts, TypeInv, Resolved
<1>3. CASE (\E arg \in MaxHostsArgs : Start(arg)) \/ RequestRescan
  BY <1>3 DEF Start, RequestRescan
<1>4. CASE \/ Stop
           \/ \E net \in Nets \union {None} : SetIpHint(net)
           \/ \E ip \in (Nets \X Hosts) \union {None} : SetGatewayHint(ip)
  BY <1>4 DEF Stop, SetIpHint, SetGatewayHint
<1> QED BY <1>1, <1>2, <1>3, <1>4 DEF Next, Tick

(***************************************************************************)
(* The scanner implements ScanRounds: within a round the list of hosts     *)
(* only grows at its end, by addresses that are new, within the array; a   *)
(* round that ends is counted once.                                        *)
(***************************************************************************)
THEOREM ScannerImplementsRounds == Spec => ImplementsRounds
<1> DEFINE RNext == [Rounds!Next]_(Rounds!vars)
<1>1. Init => Rounds!Init
  BY DEF Init, Rounds!Init
<1>2. TypeInv /\ [Next]_vars => RNext
  <2> SUFFICES ASSUME TypeInv, [Next]_vars PROVE RNext
    OBVIOUS
  <2>1. hosts \in Seq(HostRecord) /\ Len(hosts) \in Nat /\ maxHosts \in 1..MaxHosts
    BY DEF TypeInv, TypeOK
  <2>2. CASE BeginNewRound /\ running' = TRUE /\ scanRound' = scanRound
    <3>1. Found' = <<>>
      BY <2>2 DEF Found, BeginNewRound
    <3>2. Rounds!Begin
      BY <2>2, <3>1 DEF Rounds!Begin, Found
    <3> QED BY <3>2 DEF Rounds!Next
  <2>3. CASE SameIps /\ ~(BeginNewRound /\ running' = TRUE /\ scanRound' = scanRound)
    <3>1. Found' = Found
      BY <2>1, <2>3 DEF SameIps, Found
    <3>2. CASE UNCHANGED <<running, scanRound>>
      BY <3>1, <3>2 DEF Rounds!vars, Found
    <3>3. CASE running' = FALSE /\ scanRound' = scanRound
      BY <3>1, <3>3 DEF Rounds!Next, Rounds!Stop, Found
    <3>4. CASE running /\ running' = FALSE /\ scanRound' = scanRound + 1
      BY <3>1, <3>4 DEF Rounds!Next, Rounds!Finish, Found
    <3> QED BY <2>3, <3>2, <3>3, <3>4, RoundStep
  <2>4. CASE (\E ip \in Ips : NewIp(ip)) /\ UNCHANGED <<running, scanRound>> /\ running
    <3>1. PICK ip \in Ips : NewIp(ip)
      BY <2>4
    <3>2. Found \in Seq(Ips) /\ Len(Found) = Len(hosts)
      BY <2>1, FoundIsASeq
    <3>3. Len(Found) < MaxHosts
      <4>1. Len(hosts) < maxHosts /\ maxHosts <= MaxHosts /\ maxHosts \in Nat
        BY <2>1, <3>1, ScannerAssumption DEF NewIp
      <4> QED BY <2>1, <3>2, <4>1, ScannerAssumption
    <3>4. Found' = Append(Found, ip)
      <4>1. Len(hosts') = Len(hosts) + 1
        BY <3>1 DEF NewIp
      <4>2. Found' = [i \in 1..(Len(hosts) + 1) |-> hosts'[i].ip]
        BY <4>1 DEF Found
      <4>3. /\ Append(Found, ip) \in Seq(Ips) /\ Len(Append(Found, ip)) = Len(hosts) + 1
            /\ \A i \in 1..Len(hosts) : Append(Found, ip)[i] = Found[i]
            /\ Append(Found, ip)[Len(hosts) + 1] = ip
        BY <3>2, AppendProperties
      <4>4. Append(Found, ip) \in [1..(Len(hosts) + 1) -> Ips]
        BY <4>3, LenProperties
      <4>5. \A i \in 1..(Len(hosts) + 1) : hosts'[i].ip = Append(Found, ip)[i]
        BY <2>1, <3>1, <4>3 DEF NewIp, Found
      <4> HIDE DEF Found
      <4> QED BY <4>2, <4>4, <4>5
    <3>5. \A i \in 1..Len(Found) : Found[i] # ip
      BY <3>1, <3>2 DEF NewIp, Found
    <3>6. Rounds!Discover(ip)
      BY <2>4, <3>2, <3>3, <3>4, <3>5 DEF Rounds!Discover, Found
    <3> QED BY <3>6 DEF Rounds!Next
  <2> QED BY <2>2, <2>3, <2>4, TableStep
<1>3. Init => TypeInv
  BY InitIsTyped
<1> QED BY <1>1, <1>2, <1>3, StepKeepsType, PTL DEF Spec, ImplementsRounds, Rounds!Spec

-----------------------------------------------------------------------------
(* A host that answered is still under probe, and since its answer every   *)
(* value of last_error came from it.                                       *)
ErrorInv == /\ phase = "resolve" => ~currentAlive
            /\ currentAlive => currentHost # 0 /\ errorOf = currentHost /\ lastError # "resolve"

LEMMA ProbeKeepsError ==
  ASSUME TypeInv, ErrorInv, TickProbe
  PROVE  ErrorInv'
<1> USE DEF ErrorInv
<1>1. CASE FinishRound
  BY <1>1 DEF FinishRound, probe
<1>2. CASE ProbeAlive
  <2>1. PICK outcome \in Outcomes :
          /\ RecordError(outcome[2])
          /\ IF outcome[1] = "none" THEN HostSilent ELSE HostAnswers
    BY <1>2 DEF ProbeAlive
  <2>2. /\ outcome[2] # "resolve"
        /\ outcome[1] # "none" => outcome[2] # "timeout"
    BY DEF Outcomes, IcmpOutcomes, TcpOutcomes
  <2>3. Target # 0 /\ phase # "resolve"
    BY <1>2, TargetType, ZeroIsNoHost DEF ProbeAlive
  <2>4. CASE outcome[1] = "none"
    <3>1. \/ currentAlive' = FALSE /\ phase' = "alive"
          \/ currentAlive' = currentAlive /\ currentHost' = Target /\ phase' = phase
      BY <2>1, <2>4 DEF HostSilent, FinalizeHost, ResetProbe
    <3>2. currentAlive => Target = currentHost
      BY DEF Target
    <3> QED BY <2>1, <2>2, <2>3, <3>1, <3>2 DEF RecordError
  <2>5. CASE outcome[1] # "none"
    BY <2>1, <2>2, <2>3, <2>5 DEF HostAnswers, RecordError
  <2> QED BY <2>4, <2>5
<1>3. CASE ProbePorts
  <2>1. PICK outcome \in TcpOutcomes :
          /\ RecordError(outcome[2])
          /\ \/ \E ports : FinalizeHost(currentAlive, currentFlags, ports)
             \/ currentHost' = Target /\ UNCHANGED <<phase, currentAlive>>
    BY <1>3 DEF ProbePorts
  <2>2. outcome[2] # "resolve"
    BY DEF TcpOutcomes
  <2>3. Target # 0 /\ phase # "resolve"
    BY <1>3, TargetType, ZeroIsNoHost DEF ProbePorts
  <2>4. currentAlive => Target = currentHost
    BY DEF Target
  <2> QED BY <2>1, <2>2, <2>3, <2>4 DEF RecordError, FinalizeHost, ResetProbe
<1> QED BY <1>1, <1>2, <1>3 DEF TickProbe

(***************************************************************************)
(* The error stored with a host comes from a probe of that host.           *)
(***************************************************************************)
THEOREM HostErrorsAreOwn == Spec => []HostErrorIsOwn
<1> DEFINE Inv == TypeInv /\ ErrorInv
<1>1. Init => Inv
  BY InitIsTyped DEF Init, ErrorInv
<1>2. Inv /\ [Next]_vars => Inv'
  <2> SUFFICES ASSUME Inv, [Next]_vars PROVE ErrorInv'
    BY StepKeepsType
  <2> USE DEF ErrorInv
  <2>1. CASE TickBegin
    <3>1. CASE phase # "resolve"
      BY <2>1, <3>1 DEF TickBegin, Resolve
    <3>2. CASE phase = "resolve"
      BY <2>1, <3>2 DEF TickBegin, Resolve, ResolveFails, ResolveTo
    <3> QED BY <3>1, <3>2
  <2>2. CASE TickProbe
    BY <2>2, ProbeKeepsError
  <2>3. CASE (\E arg \in MaxHostsArgs : Start(arg)) \/ RequestRescan
    BY <2>3 DEF Start, RequestRescan, BeginNewRound, ResetProbe
  <2>4. CASE \/ TickEvent \/ Stop \/ UNCHANGED vars
             \/ \E net \in Nets \union {None} : SetIpHint(net)
             \/ \E ip \in (Nets \X Hosts) \union {None} : SetGatewayHint(ip)
    BY <2>4 DEF TickEvent, Stop, SetIpHint, SetGatewayHint, vars, history, cursor, probe
  <2> QED BY <2>1, <2>2, <2>3, <2>4 DEF Next, Tick
<1>3. Inv => HostErrorIsOwn
  BY DEF ErrorInv, HostErrorIsOwn
<1> QED BY <1>1, <1>2, <1>3, PTL DEF Spec

-----------------------------------------------------------------------------
(***************************************************************************)
(* What upsert_host does to the one entry it writes: entry i is that of    *)
(* ip, the next free one if ip was not listed, and every other entry stays *)
(* as it is.                                                               *)
(***************************************************************************)
OldFlags(i) == IF i <= Len(hosts) THEN hosts[i].flags ELSE {}

Writes(i, ip, flags) ==
  /\ i <= Len(hosts) => hosts[i].ip = ip
  /\ i > Len(hosts) => ~TableFull
  /\ Len(hosts') = IF i > Len(hosts) THEN Len(hosts) + 1 ELSE Len(hosts)
  /\ \A j \in 1..Len(hosts) : j # i => hosts'[j] = hosts[j]
  /\ hosts'[i].ip = ip
  /\ hosts'[i].gateway = IsGateway(ip)
  /\ hosts'[i].flags = OldFlags(i) \union flags
  /\ hits' = MarkSourceHits(flags \ OldFlags(i))
  /\ hostsAlive' = Len(hosts')

LEMMA UpsertWrites ==
  ASSUME TypeOK, NEW ip, NEW flags, NEW name, NEW ports, NEW err,
         UpsertHost(ip, flags, name, ports, err)
  PROVE  \/ UNCHANGED table /\ TableFull
         \/ \E i \in 1..(Len(hosts) + 1) : Writes(i, ip, flags)
<1>1. hosts \in Seq(HostRecord) /\ Len(hosts) \in Nat
  BY DEF TypeOK
<1>2. CASE Find(ip) = 0 /\ TableFull
  BY <1>2 DEF UpsertHost
<1>3. CASE Find(ip) = 0 /\ ~TableFull
  <2> DEFINE merged == MergeHost(NewHost(ip), flags, name, ports, err)
             i == Len(hosts) + 1
  <2>1. /\ hosts' = Append(hosts, merged)
        /\ hits' = MarkSourceHits(NewFlags(flags, NewHost(ip).flags))
        /\ hostsAlive' = Len(hosts')
    BY <1>3 DEF UpsertHost
  <2>2. merged.ip = ip /\ merged.gateway = IsGateway(ip) /\ merged.flags = flags
    BY DEF MergeHost, NewHost
  <2>3. OldFlags(i) = {} /\ NewHost(ip).flags = {}
    BY <1>1 DEF OldFlags, NewHost
  <2> HIDE DEF merged
  <2>4. /\ Len(hosts') = i /\ hosts'[i] = merged
        /\ \A j \in 1..Len(hosts) : hosts'[j] = hosts[j]
    BY <1>1, <2>1
  <2>5. hits' = MarkSourceHits(flags \ OldFlags(i))
    BY <2>1, <2>3 DEF NewFlags
  <2>6. Writes(i, ip, flags)
    BY <1>1, <1>3, <2>1, <2>2, <2>3, <2>4, <2>5 DEF Writes
  <2> QED BY <1>1, <2>6
<1>4. CASE Find(ip) # 0
  <2> DEFINE i == Find(ip)
             merged == MergeHost(hosts[i], flags, name, ports, err)
  <2>1. /\ hosts' = [hosts EXCEPT ![i] = merged]
        /\ hits' = MarkSourceHits(NewFlags(flags, hosts[i].flags))
        /\ hostsAlive' = Len(hosts')
    BY <1>4 DEF UpsertHost
  <2>2. i \in 1..Len(hosts) /\ hosts[i].ip = ip
    BY <1>1, <1>4, FindProperties
  <2>3. hosts[i] \in HostRecord
    BY <1>1, <2>2, ElementOfSeq
  <2>4. /\ merged.ip = ip /\ merged.gateway = IsGateway(ip)
        /\ merged.flags = hosts[i].flags \union flags
    BY <2>2, <2>3 DEF MergeHost, HostRecord
  <2> HIDE DEF merged, i
  <2>5. /\ Len(hosts') = Len(hosts) /\ hosts'[i] = merged
        /\ \A j \in 1..Len(hosts) : j # i => hosts'[j] = hosts[j]
    BY <1>1, <2>1, <2>2
  <2>6. i <= Len(hosts) /\ OldFlags(i) = hosts[i].flags
    BY <1>1, <2>2 DEF OldFlags
  <2>7. hits' = MarkSourceHits(flags \ OldFlags(i))
    BY <2>1, <2>6 DEF NewFlags
  <2>8. Writes(i, ip, flags)
    BY <1>1, <2>1, <2>2, <2>4, <2>5, <2>6, <2>7 DEF Writes
  <2> QED BY <1>1, <2>2, <2>8
<1> QED BY <1>2, <1>3, <1>4

(* finalize_host is called with the flags its probes gathered.             *)
LEMMA ProbeWrites ==
  ASSUME TypeInv, TickProbe, ~ UNCHANGED table
  PROVE  /\ phase # "resolve" /\ ~(currentHost = 0 /\ NoHostLeft) /\ currentAlive
         /\ \E ports : FinalizeHost(currentAlive, currentFlags, ports)
         /\ \E ports : UpsertHost(CurrentIp, currentFlags, NoName, ports, lastError')
<1>1. ProbeAlive \/ ProbePorts
  BY DEF TickProbe, FinishRound
<1>2. phase # "resolve" /\ ~(currentHost = 0 /\ NoHostLeft)
  BY <1>1 DEF ProbeAlive, ProbePorts
<1>3. PICK ports : FinalizeHost(currentAlive, currentFlags, ports)
  BY <1>1 DEF ProbeAlive, ProbePorts, HostAnswers, HostSilent
<1>4. currentAlive /\ UpsertHost(CurrentIp, currentFlags, NoName, ports, lastError')
  BY <1>3 DEF FinalizeHost, ListHost
<1> QED BY <1>2, <1>3, <1>4

(* Every step but a restart leaves the table alone or writes one entry.    *)
LEMMA WriteStep ==
  ASSUME TypeInv, [Next]_vars
  PROVE  \/ BeginNewRound
         \/ UNCHANGED table
         \/ /\ \E ip \in Ips, flags \in SUBSET Sources, i \in 1..(Len(hosts) + 1) :
                 /\ Writes(i, ip, flags)
                 /\ "icmp" \in flags => "icmp" \in currentFlags
            /\ UNCHANGED <<gwHint, gwChanged>>
<1>1. CASE TickEvent
  <2>1. PICK ip \in EventIps, s \in EventSources, name \in Names \union {NoName} :
          UpsertHost(ip, {s}, name, {}, "ok")
    BY <1>1 DEF TickEvent
  <2>2. ip \in Ips /\ {s} \in SUBSET Sources /\ "icmp" \notin {s}
    BY ScannerAssumption DEF Ips, Sources
  <2>3. UNCHANGED <<gwHint, gwChanged>>
    BY <1>1 DEF TickEvent, hints
  <2> QED BY <2>1, <2>2, <2>3, UpsertWrites DEF TypeInv
<1>2. CASE TickProbe /\ ~ UNCHANGED table
  <2>1. PICK ports : UpsertHost(CurrentIp, currentFlags, NoName, ports, lastError')
    BY <1>2, ProbeWrites
  <2>2. CurrentIp \in Ips /\ currentFlags \in SUBSET Sources
    BY <1>2, ProbeWrites, TargetType DEF TypeInv, TypeOK
  <2>3. UNCHANGED <<gwHint, gwChanged>>
    BY <1>2 DEF TickProbe, hints
  <2>4. PICK i \in 1..(Len(hosts) + 1) : Writes(i, CurrentIp, currentFlags)
    BY <1>2, <2>1, UpsertWrites DEF TypeInv
  <2> QED BY <2>2, <2>3, <2>4
<1>3. CASE (\E arg \in MaxHostsArgs : Start(arg)) \/ RequestRescan
  BY <1>3 DEF Start, RequestRescan
<1>4. CASE \/ TickBegin \/ Stop \/ UNCHANGED vars
           \/ \E net \in Nets \union {None} : SetIpHint(net)
           \/ \E ip \in (Nets \X Hosts) \union {None} : SetGatewayHint(ip)
  BY <1>4 DEF TickBegin, Stop, SetIpHint, SetGatewayHint, vars
<1> QED BY <1>1, <1>2, <1>3, <1>4 DEF Next, Tick

(***************************************************************************)
(* The badge of lan_host_t.is_gateway is on the gateway and on nothing     *)
(* else as long as the hint did not change since the round began: every    *)
(* call of upsert_host writes it again from the hint of that moment.       *)
(***************************************************************************)
THEOREM BadgeIsGateway == Spec => []GatewayBadge
<1> DEFINE Inv == TypeInv /\ GatewayBadge
<1>1. Init => Inv
  BY InitIsTyped DEF Init, GatewayBadge
<1>2. Inv /\ [Next]_vars => Inv'
  <2> SUFFICES ASSUME Inv, [Next]_vars PROVE GatewayBadge'
    BY StepKeepsType
  <2>1. Len(hosts) \in Nat
    BY DEF TypeInv, TypeOK
  <2>2. CASE BeginNewRound
    <3>1. hosts' = <<>>
      BY <2>2 DEF BeginNewRound
    <3> QED BY <3>1 DEF GatewayBadge
  <2>3. CASE UNCHANGED table
    <3>1. hosts' = hosts
      BY <2>3 DEF table
    <3>2. CASE UNCHANGED <<gwHint, gwChanged>>
      BY <3>1, <3>2 DEF GatewayBadge
    <3>3. CASE ~ UNCHANGED <<gwHint, gwChanged>> /\ ~ BeginNewRound
      <4>1. PICK ip \in (Nets \X Hosts) \union {None} : SetGatewayHint(ip)
        BY <3>3 DEF Next, Tick, TickBegin, TickEvent, TickProbe, Start, RequestRescan, Stop,
                    SetIpHint, vars, history, hints
      <4> QED BY <3>1, <4>1 DEF SetGatewayHint, GatewayBadge
    <3> QED BY <2>2, <3>2, <3>3
  <2>4. ASSUME NEW ip \in Ips, NEW flags \in SUBSET Sources, NEW i \in 1..(Len(hosts) + 1),
               Writes(i, ip, flags), UNCHANGED <<gwHint, gwChanged>>
        PROVE  GatewayBadge'
    <3> SUFFICES ASSUME ~gwChanged, NEW j \in 1..Len(hosts')
                 PROVE  hosts'[j].gateway = (hosts'[j].ip = gwHint)
      BY <2>4 DEF GatewayBadge
    <3>1. CASE j = i
      BY <2>4, <3>1 DEF Writes, IsGateway
    <3>2. CASE j # i
      <4>1. j \in 1..Len(hosts) /\ hosts'[j] = hosts[j]
        BY <2>1, <2>4, <3>2 DEF Writes
      <4> QED BY <4>1 DEF GatewayBadge
    <3> QED BY <3>1, <3>2
  <2> QED BY <2>2, <2>3, <2>4, WriteStep
<1>3. Inv => GatewayBadge
  OBVIOUS
<1> QED BY <1>1, <1>2, <1>3, PTL DEF Spec

-----------------------------------------------------------------------------
(* The indices of the hosts that source s found.                           *)
FoundBy(s) == {i \in 1..Len(hosts) : s \in hosts[i].flags}

(* A write adds its entry to the hosts of the sources that are new to it,  *)
(* which are the ones mark_source_hits counts.                             *)
LEMMA WriteCounts ==
  ASSUME TypeOK, NEW ip, NEW flags \in SUBSET Sources, NEW i \in 1..(Len(hosts) + 1),
         Writes(i, ip, flags), NEW s \in Sources, hits[s] = Cardinality(FoundBy(s))
  PROVE  hits'[s] = Cardinality(FoundBy(s)')
<1>1. Len(hosts) \in Nat /\ IsFiniteSet(FoundBy(s))
  <2>1. Len(hosts) \in Nat
    BY DEF TypeOK
  <2>2. IsFiniteSet(1..Len(hosts))
    BY <2>1, FS_Interval
  <2>3. FoundBy(s) \subseteq 1..Len(hosts)
    BY DEF FoundBy
  <2> QED BY <2>1, <2>2, <2>3, FS_Subset
<1>2. hits'[s] = hits[s] + IF s \in flags \ OldFlags(i) THEN 1 ELSE 0
  BY DEF Writes, MarkSourceHits
<1>3. /\ Len(hosts') = IF i > Len(hosts) THEN Len(hosts) + 1 ELSE Len(hosts)
      /\ \A j \in 1..Len(hosts) : j # i => hosts'[j].flags = hosts[j].flags
      /\ hosts'[i].flags = OldFlags(i) \union flags
  BY DEF Writes
<1>4. i \in FoundBy(s) <=> s \in OldFlags(i)
  BY <1>1 DEF OldFlags, FoundBy
<1>5. CASE s \in flags \ OldFlags(i)
  <2>1. FoundBy(s)' = FoundBy(s) \union {i}
    BY <1>1, <1>3, <1>5 DEF FoundBy
  <2>2. Cardinality(FoundBy(s) \union {i}) = Cardinality(FoundBy(s)) + 1
    BY <1>1, <1>4, <1>5, FS_AddElement
  <2> QED BY <1>2, <1>5, <2>1, <2>2
<1>6. CASE s \notin flags \ OldFlags(i)
  <2>1. FoundBy(s)' = FoundBy(s)
    <3>1. CASE s \in OldFlags(i)
      BY <1>1, <1>3, <1>6, <3>1 DEF FoundBy, OldFlags
    <3>2. CASE s \notin OldFlags(i)
      BY <1>1, <1>3, <1>6, <3>2 DEF FoundBy, OldFlags
    <3> QED BY <3>1, <3>2
  <2>2. hits[s] \in Nat
    BY DEF TypeOK
  <2>3. hits'[s] = hits[s]
    BY <1>2, <1>6, <2>2
  <2> QED BY <2>1, <2>3
<1> QED BY <1>5, <1>6

(***************************************************************************)
(* The counters of the dashboard are those of the table: hosts_alive is    *)
(* its length and each source is counted once for every host it found,     *)
(* however often probes and packets report the same host.                  *)
(***************************************************************************)
THEOREM CountersAreExact == Spec => []CountersMatchTable
<1> DEFINE Inv == TypeInv /\ CountersMatchTable
<1>1. Init => Inv
  <2> SUFFICES ASSUME Init PROVE CountersMatchTable
    BY InitIsTyped
  <2>1. hosts = <<>> /\ hostsAlive = 0 /\ hits = [s \in Sources |-> 0]
    BY DEF Init
  <2>2. \A s \in Sources : FoundBy(s) = {}
    BY <2>1 DEF FoundBy
  <2>3. Cardinality({}) = 0
    BY FS_EmptySet
  <2> QED BY <2>1, <2>2, <2>3 DEF CountersMatchTable, FoundBy
<1>2. Inv /\ [Next]_vars => Inv'
  <2> SUFFICES ASSUME Inv, [Next]_vars PROVE CountersMatchTable'
    BY StepKeepsType
  <2>1. CASE BeginNewRound
    <3>1. hosts' = <<>> /\ hostsAlive' = 0 /\ hits' = [s \in Sources |-> 0]
      BY <2>1 DEF BeginNewRound
    <3>2. \A s \in Sources : FoundBy(s)' = {}
      BY <3>1 DEF FoundBy
    <3>3. Cardinality({}) = 0
      BY FS_EmptySet
    <3> QED BY <3>1, <3>2, <3>3 DEF CountersMatchTable, FoundBy
  <2>2. CASE UNCHANGED table
    BY <2>2 DEF table, CountersMatchTable
  <2>3. ASSUME NEW ip \in Ips, NEW flags \in SUBSET Sources, NEW i \in 1..(Len(hosts) + 1),
               Writes(i, ip, flags)
        PROVE  CountersMatchTable'
    <3>1. \A s \in Sources : hits[s] = Cardinality(FoundBy(s))
      BY DEF CountersMatchTable, FoundBy
    <3>2. \A s \in Sources : hits'[s] = Cardinality(FoundBy(s)')
      BY <2>3, <3>1, WriteCounts DEF TypeInv
    <3>3. hostsAlive' = Len(hosts')
      BY <2>3 DEF Writes
    <3> QED BY <3>2, <3>3 DEF CountersMatchTable, FoundBy
  <2> QED BY <2>1, <2>2, <2>3, WriteStep
<1>3. Inv => CountersMatchTable
  OBVIOUS
<1> QED BY <1>1, <1>2, <1>3, PTL DEF Spec

(***************************************************************************)
(* Once raw sockets were refused, ICMP is never tried again in the life of *)
(* the scanner, rescans included, and a host is credited to ICMP only if   *)
(* its answer came before.                                                 *)
(***************************************************************************)
THEOREM DeniedIcmpIsFinal == Spec => NoIcmpOnceDenied
<1> DEFINE IcmpAllowed == IF "icmp" \in currentFlags THEN 1 ELSE 0
           StepOK == icmpSupported = 0 =>
                        icmpSupported' = 0 /\ hits'["icmp"] <= hits["icmp"] + IcmpAllowed
<1>1. TypeInv /\ [Next]_vars => [StepOK]_vars
  <2> SUFFICES ASSUME TypeInv, [Next]_vars, icmpSupported = 0
               PROVE  icmpSupported' = 0 /\ hits'["icmp"] <= hits["icmp"] + IcmpAllowed
    OBVIOUS
  <2>1. hits["icmp"] \in Nat
    BY DEF TypeInv, TypeOK, Sources
  <2>2. icmpSupported' = 0
    BY DEF Next, Tick, TickBegin, TickEvent, TickProbe, FinishRound, ProbeAlive, ProbePorts,
           LearnIcmp, Start, RequestRescan, Stop, SetIpHint, SetGatewayHint, vars
  <2>3. CASE BeginNewRound
    BY <2>1, <2>2, <2>3 DEF BeginNewRound, Sources
  <2>4. CASE UNCHANGED table
    BY <2>1, <2>2, <2>4 DEF table
  <2>5. ASSUME NEW ip \in Ips, NEW flags \in SUBSET Sources, NEW i \in 1..(Len(hosts) + 1),
               Writes(i, ip, flags), "icmp" \in flags => "icmp" \in currentFlags
        PROVE  hits'["icmp"] <= hits["icmp"] + IcmpAllowed
    BY <2>1, <2>5 DEF Writes, MarkSourceHits, Sources
  <2> QED BY <2>2, <2>3, <2>4, <2>5, WriteStep
<1>2. Init => TypeInv
  BY InitIsTyped
<1> QED BY <1>1, <1>2, StepKeepsType, PTL DEF Spec, NoIcmpOnceDenied

-----------------------------------------------------------------------------
(* The host under probe answered in this round: its address is among the   *)
(* responders although it is not in the table yet.                         *)
AnswerInv == currentAlive => currentHost # 0 /\ <<subnet, currentHost>> \in responders

Listed == {hosts[i].ip : i \in 1..Len(hosts)}

(* RespondersListed in two parts, the second one naming what may be owed.  *)
Owed(ip) == currentAlive /\ ip = <<subnet, currentHost>>
NothingLost == \A ip \in responders : ip \in Listed \/ Len(hosts) >= maxHosts \/ Owed(ip)

ListingInv == /\ phase = "resolve" => ~currentAlive
              /\ AnswerInv
              /\ Listed \subseteq responders
              /\ NothingLost

(* A write lists its address and keeps those that were listed; a refused   *)
(* one leaves a full table.                                                *)
LEMMA UpsertLists ==
  ASSUME TypeOK, NEW ip, NEW flags, NEW name, NEW ports, NEW err,
         UpsertHost(ip, flags, name, ports, err)
  PROVE  /\ Listed \subseteq Listed' /\ Listed' \subseteq Listed \union {ip}
         /\ ip \in Listed' \/ Len(hosts') >= maxHosts
         /\ Len(hosts') >= Len(hosts)
<1>1. Len(hosts) \in Nat /\ maxHosts \in Nat /\ maxHosts <= MaxHosts
  BY ScannerAssumption DEF TypeOK
<1>2. CASE UNCHANGED table /\ TableFull
  BY <1>1, <1>2, ScannerAssumption DEF table, TableFull, Listed
<1>3. ASSUME NEW i \in 1..(Len(hosts) + 1), Writes(i, ip, flags)
      PROVE  /\ Listed \subseteq Listed' /\ Listed' \subseteq Listed \union {ip}
             /\ ip \in Listed' /\ Len(hosts') >= Len(hosts)
  <2>1. \A j \in 1..Len(hosts) : j \in 1..Len(hosts') /\ hosts'[j].ip = hosts[j].ip
    BY <1>1, <1>3 DEF Writes
  <2>2. i \in 1..Len(hosts') /\ hosts'[i].ip = ip /\ Len(hosts') >= Len(hosts)
    BY <1>1, <1>3 DEF Writes
  <2>3. \A j \in 1..Len(hosts') : j = i \/ j \in 1..Len(hosts)
    BY <1>1, <1>3 DEF Writes
  <2> QED BY <2>1, <2>2, <2>3 DEF Listed
<1> QED BY <1>2, <1>3, UpsertWrites

LEMMA BeginKeepsListing ==
  ASSUME ListingInv, TickBegin
  PROVE  ListingInv'
<1>1. UNCHANGED <<hosts, responders, maxHosts, currentHost>>
  BY DEF TickBegin, table
<1>2. CASE currentAlive
  <2>1. UNCHANGED <<phase, subnet, currentAlive>>
    BY <1>2 DEF TickBegin, Resolve, ListingInv
  <2> QED BY <1>1, <2>1 DEF ListingInv, AnswerInv, NothingLost, Owed, Listed
<1>3. CASE ~currentAlive
  <2>1. ~currentAlive'
    BY <1>3 DEF TickBegin, Resolve, ResolveFails, ResolveTo
  <2> QED BY <1>1, <1>3, <2>1 DEF ListingInv, AnswerInv, NothingLost, Owed, Listed
<1> QED BY <1>2, <1>3

LEMMA EventKeepsListing ==
  ASSUME TypeInv, ListingInv, TickEvent
  PROVE  ListingInv'
<1>1. PICK ip \in EventIps, s \in EventSources, name \in Names \union {NoName} :
        UpsertHost(ip, {s}, name, {}, "ok") /\ responders' = responders \union {ip}
  BY DEF TickEvent
<1>2. UNCHANGED <<phase, subnet, maxHosts, currentHost, currentAlive>>
  BY DEF TickEvent, cursor, probe
<1>3. /\ Listed \subseteq Listed' /\ Listed' \subseteq Listed \union {ip}
      /\ ip \in Listed' \/ Len(hosts') >= maxHosts
      /\ Len(hosts') >= Len(hosts)
  BY <1>1, UpsertLists DEF TypeInv
<1>4. Len(hosts) \in Nat /\ Len(hosts') \in Nat /\ maxHosts \in Nat
  <2>1. hosts \in Seq(HostRecord) /\ maxHosts \in 1..MaxHosts
    BY DEF TypeInv, TypeOK
  <2>2. hosts' \in Seq(HostRecord)
    BY EventKeepsType DEF TypeInv, TypeOK
  <2> QED BY <2>1, <2>2
<1>5. NothingLost'
  <2> SUFFICES ASSUME NEW x \in responders'
               PROVE  x \in Listed' \/ Len(hosts') >= maxHosts' \/ Owed(x)'
    BY DEF NothingLost
  <2>1. CASE x = ip
    BY <1>2, <1>3, <2>1
  <2>2. CASE x # ip
    <3>1. x \in responders
      BY <1>1, <2>2
    <3> QED BY <1>2, <1>3, <1>4, <3>1 DEF ListingInv, NothingLost, Owed
  <2> QED BY <2>1, <2>2
<1> QED BY <1>1, <1>2, <1>3, <1>5 DEF ListingInv, AnswerInv

LEMMA ProbeKeepsListing ==
  ASSUME TypeInv, ListingInv, TickProbe
  PROVE  ListingInv'
<1>1. UNCHANGED <<subnet, maxHosts>>
  BY DEF TickProbe
<1>2. phase # "resolve" /\ phase' # "resolve"
  <2>1. phase # "resolve"
    BY DEF TickProbe, TypeInv, Resolved
  <2> QED BY <2>1 DEF TickProbe, FinishRound, ProbeAlive, ProbePorts, HostSilent, HostAnswers,
                      FinalizeHost
<1>3. CASE ~ UNCHANGED table
  <2>1. PICK ports : FinalizeHost(currentAlive, currentFlags, ports)
    BY <1>3, ProbeWrites
  <2>2. PICK open : UpsertHost(CurrentIp, currentFlags, NoName, open, lastError')
    BY <1>3, ProbeWrites
  <2>3. ~currentAlive' /\ currentAlive
    BY <1>3, <2>1, ProbeWrites DEF FinalizeHost, ResetProbe
  <2>4. CurrentIp = <<subnet, currentHost>> /\ CurrentIp \in responders
    BY <2>3 DEF ListingInv, AnswerInv, CurrentIp, Target
  <2>5. responders' = responders
    <3>1. CASE ProbePorts
      BY <3>1 DEF ProbePorts
    <3>2. CASE ProbeAlive
      BY <1>3, <3>2 DEF ProbeAlive, HostAnswers, HostSilent
    <3> QED BY <1>3, <3>1, <3>2 DEF TickProbe, FinishRound
  <2>6. /\ Listed \subseteq Listed' /\ Listed' \subseteq Listed \union {CurrentIp}
        /\ CurrentIp \in Listed' \/ Len(hosts') >= maxHosts
        /\ Len(hosts') >= Len(hosts)
    BY <2>2, UpsertLists DEF TypeInv
  <2>7. Len(hosts) \in Nat /\ Len(hosts') \in Nat /\ maxHosts \in Nat
    <3>1. hosts \in Seq(HostRecord) /\ maxHosts \in 1..MaxHosts
      BY DEF TypeInv, TypeOK
    <3>2. TypeInv'
      BY StepKeepsType DEF Next, Tick
    <3>3. hosts' \in Seq(HostRecord)
      BY <3>2 DEF TypeInv, TypeOK
    <3> QED BY <3>1, <3>3
  <2>8. NothingLost'
    BY <1>1, <2>4, <2>5, <2>6, <2>7 DEF ListingInv, NothingLost, Owed
  <2> QED BY <1>2, <2>3, <2>4, <2>5, <2>6, <2>8 DEF ListingInv, AnswerInv
<1>4. CASE UNCHANGED table
  <2>1. hosts' = hosts /\ Listed' = Listed
    BY <1>4 DEF table, Listed
  <2>2. CASE FinishRound
    <3>1. UNCHANGED <<responders, currentHost, currentAlive>>
      BY <2>2 DEF FinishRound, probe
    <3> QED BY <1>1, <1>2, <2>1, <3>1 DEF ListingInv, AnswerInv, NothingLost, Owed
  <2>3. CASE ProbeAlive /\ HostAnswers
    <3>1. /\ currentAlive' /\ currentHost' = Target /\ Target # 0
          /\ responders' = responders \union {CurrentIp}
      BY <2>3, <1>2, TargetType, ZeroIsNoHost DEF HostAnswers, ProbeAlive
    <3>2. CurrentIp = <<subnet', currentHost'>>
      BY <1>1, <3>1 DEF CurrentIp
    <3>3. currentAlive => CurrentIp = <<subnet, currentHost>>
      BY DEF ListingInv, AnswerInv, CurrentIp, Target
    <3>4. NothingLost'
      BY <1>1, <2>1, <3>1, <3>2, <3>3 DEF ListingInv, NothingLost, Owed
    <3> QED BY <1>2, <2>1, <3>1, <3>2, <3>4 DEF ListingInv, AnswerInv
  <2>4. CASE (ProbeAlive /\ ~HostAnswers) \/ ProbePorts
    <3>1. responders' = responders
      BY <2>4 DEF ProbeAlive, ProbePorts, HostSilent
    <3>2. \/ ~currentAlive /\ ~currentAlive'
          \/ currentHost' = Target /\ currentAlive' = currentAlive
          \/ \E ports : FinalizeHost(currentAlive, currentFlags, ports)
      BY <2>4 DEF ProbeAlive, ProbePorts, HostSilent
    <3>3. CASE \E ports : FinalizeHost(currentAlive, currentFlags, ports)
      <4>1. ~currentAlive'
        BY <3>3 DEF FinalizeHost, ResetProbe
      <4>2. CASE currentAlive
        <5>1. PICK open : UpsertHost(CurrentIp, currentFlags, NoName, open, lastError')
          BY <3>3, <4>2 DEF FinalizeHost, ListHost
        <5>2. CurrentIp \in Listed' \/ Len(hosts') >= maxHosts
          BY <5>1, UpsertLists DEF TypeInv
        <5>3. CurrentIp = <<subnet, currentHost>>
          BY <4>2 DEF ListingInv, AnswerInv, CurrentIp, Target
        <5>4. NothingLost'
          BY <1>1, <2>1, <3>1, <5>2, <5>3 DEF ListingInv, NothingLost, Owed
        <5> QED BY <1>2, <2>1, <3>1, <4>1, <5>4 DEF ListingInv, AnswerInv
      <4>3. CASE ~currentAlive
        BY <1>1, <1>2, <2>1, <3>1, <4>1, <4>3 DEF ListingInv, AnswerInv, NothingLost, Owed
      <4> QED BY <4>2, <4>3
    <3>4. CASE ~currentAlive /\ ~currentAlive'
      BY <1>1, <1>2, <2>1, <3>1, <3>4 DEF ListingInv, AnswerInv, NothingLost, Owed
    <3>5. CASE currentAlive /\ currentHost' = Target /\ currentAlive' = currentAlive
      <4>1. currentHost' = currentHost
        BY <3>5 DEF ListingInv, AnswerInv, Target
      <4> QED BY <1>1, <1>2, <2>1, <3>1, <3>5, <4>1 DEF ListingInv, AnswerInv, NothingLost, Owed
    <3>6. currentAlive \in BOOLEAN
      BY DEF TypeInv, TypeOK
    <3> QED BY <3>2, <3>3, <3>4, <3>5, <3>6
  <2> QED BY <2>2, <2>3, <2>4 DEF TickProbe
<1> QED BY <1>3, <1>4

(***************************************************************************)
(* Nothing that answered is lost while the table has room, and nothing is  *)
(* listed that did not answer in this round.                               *)
(***************************************************************************)
THEOREM AnswersAreListed == Spec => []RespondersListed
<1> DEFINE Inv == TypeInv /\ ListingInv
<1>1. Init => Inv
  BY InitIsTyped DEF Init, ListingInv, AnswerInv, NothingLost, Listed
<1>2. Inv /\ [Next]_vars => Inv'
  <2> SUFFICES ASSUME Inv, [Next]_vars PROVE ListingInv'
    BY StepKeepsType
  <2>1. CASE TickBegin
    BY <2>1, BeginKeepsListing
  <2>2. CASE TickEvent
    BY <2>2, EventKeepsListing
  <2>3. CASE TickProbe
    BY <2>3, ProbeKeepsListing
  <2>4. CASE (\E arg \in MaxHostsArgs : Start(arg)) \/ RequestRescan
    <3>1. BeginNewRound
      BY <2>4 DEF Start, RequestRescan
    <3>2. ~currentAlive' /\ responders' = {} /\ hosts' = <<>>
      BY <3>1 DEF BeginNewRound, ResetProbe
    <3> QED BY <3>2 DEF ListingInv, AnswerInv, NothingLost, Listed
  <2>5. CASE \/ Stop \/ UNCHANGED vars
             \/ \E net \in Nets \union {None} : SetIpHint(net)
             \/ \E ip \in (Nets \X Hosts) \union {None} : SetGatewayHint(ip)
    <3>1. UNCHANGED <<phase, subnet, maxHosts, currentHost, currentAlive, responders, hosts>>
      BY <2>5 DEF Stop, SetIpHint, SetGatewayHint, vars, history, cursor, probe, table
    <3> QED BY <3>1 DEF ListingInv, AnswerInv, NothingLost, Owed, Listed
  <2> QED BY <2>1, <2>2, <2>3, <2>4, <2>5 DEF Next, Tick
<1>3. Inv => RespondersListed
  BY DEF ListingInv, NothingLost, Owed, Listed, RespondersListed
<1> QED BY <1>1, <1>2, <1>3, PTL DEF Spec
=============================================================================
