----------------------------- MODULE LanScanner -----------------------------
(***************************************************************************)
(* The LAN scanner (lan_scanner.c).  lan_scanner_tick is called once per   *)
(* frame and advances a resolve / alive / ports automaton by at most one   *)
(* probe.  A tick is one call and nothing interleaves with it, but it      *)
(* loops over the discovery events of the frame; it is modelled as a       *)
(* TickBegin, some TickEvent and a TickProbe step, and every other         *)
(* operation waits for pc = "idle".                                        *)
(*                                                                         *)
(* Abstractions.  An address is a pair <<network, host byte>>.  The 20 ms  *)
(* pacing (next_step_us) only makes a tick return early, which is a        *)
(* stuttering step.  An errno is "ok", "timeout", "refused" (the host      *)
(* answered with a reset), "denied" (no raw sockets) or "other".           *)
(* hostname stands for both texts discovery gives a host; the banner is    *)
(* never written.  A port list is the set of its ports.                    *)
(***************************************************************************)
EXTENDS Integers, Sequences, FiniteSets

CONSTANTS Nets,          \* networks (the a.b.c of an address)
          LastHost,      \* last host byte of a subnet (254)
          AliveSteps,    \* alive probes per host: one ICMP, the others TCP (11)
          PortCount,     \* LAN_SCANNER_PORT_COUNT (8)
          PortOf,        \* config.ports; a profile may name a port twice
          MaxHosts,      \* LAN_SCANNER_MAX_HOSTS (128)
          MaxHostsArgs,  \* values of max_hosts in the configs given to start
          MaxEvents,     \* discovery events one tick takes (16)
          EventIps,      \* sources of discovery packets: any address at all
          EventSources,  \* sources among mdns, ssdp, nbns
          Names,         \* host names discovery can report
          NoName,        \* the empty host name
          None,          \* no hint, no address
          MaxRounds      \* bound: no round is started after this many

Sources == {"icmp", "tcp"} \union EventSources
Hosts   == 1..LastHost
Ips     == (Nets \X Hosts) \union EventIps
Ports   == {PortOf[i] : i \in 1..PortCount}
Errors  == {"ok", "refused", "denied", "other", "resolve"}

ASSUME ScannerAssumption ==
  /\ LastHost \in Nat /\ AliveSteps \in Nat /\ PortCount \in Nat /\ MaxHosts \in Nat
  /\ LastHost > 0 /\ AliveSteps > 0 /\ PortCount > 0 /\ MaxHosts > 0
  /\ MaxHostsArgs \subseteq Nat /\ MaxEvents \in Nat /\ MaxRounds \in Nat
  /\ DOMAIN PortOf = 1..PortCount
  /\ "icmp" \notin EventSources /\ "tcp" \notin EventSources
  /\ NoName \notin Names /\ None \notin Nets /\ None \notin Ips

VARIABLES
  running, phase, subnet, ipHint, gwHint, maxHosts,   \* control and hints
  preferred, preferredDone, nextHost, currentHost,    \* which host is probed
  aliveIndex, portIndex,                              \* which probe is next
  currentAlive, currentFlags, currentPorts,           \* what its probes said
  hosts, hits, hostsScanned, hostsAlive, scanRound, lastError,
  icmpSupported,                                      \* -1 unknown, 0 no, 1 yes
  pc, eventsLeft,                                     \* where in a tick we are
  probed, responders, errorOf, gwChanged              \* history, see below

(***************************************************************************)
(* History variables, which no step of the scanner reads: the hosts whose  *)
(* probing was completed in this round, the addresses that answered in     *)
(* this round, the host whose probe set last_error (0: none did), and      *)
(* whether the gateway hint changed since the round began.                 *)
(***************************************************************************)
history == <<probed, responders, errorOf, gwChanged>>
hints   == <<ipHint, gwHint>>
cursor  == <<preferred, preferredDone, nextHost, currentHost>>
probe   == <<aliveIndex, portIndex, currentAlive, currentFlags, currentPorts>>
table   == <<hosts, hits, hostsAlive>>
tick    == <<pc, eventsLeft>>
vars    == <<running, phase, subnet, maxHosts, hostsScanned, scanRound, lastError,
             icmpSupported, history, hints, cursor, probe, table, tick>>

HostRecord == [ip : Ips, name : Names \union {NoName}, flags : SUBSET Sources,
               ports : SUBSET Ports, err : Errors, gateway : BOOLEAN]

IsGateway_LastByte(ip) == gwHint # None /\ ip[2] = gwHint[2]  \* mutant
IsGateway(ip) == gwHint = ip              \* is_gateway_ip
ProbedSoFar == (probed \union {currentHost}) \ {0}

-----------------------------------------------------------------------------
(* upsert_host.  Find(ip) is the index of the host, 0 if there is none.    *)

Find(ip) == IF \E i \in 1..Len(hosts) : hosts[i].ip = ip
              THEN CHOOSE i \in 1..Len(hosts) : hosts[i].ip = ip ELSE 0

TableFull_ArrayOnly == Len(hosts) >= MaxHosts                  \* mutant
TableFull == Len(hosts) >= maxHosts \/ Len(hosts) >= MaxHosts

NewHost(ip) == [ip |-> ip, name |-> NoName, flags |-> {}, ports |-> {},
                err |-> "ok", gateway |-> FALSE]

NewFlags_All(flags, old) == flags                               \* mutant
NewFlags(flags, old) == flags \ old

MarkSourceHits(delta) == [s \in Sources |-> hits[s] + IF s \in delta THEN 1 ELSE 0]

MergeHost(h, flags, name, ports, err) ==
  [h EXCEPT !.flags = h.flags \union flags,
            !.name = IF h.name = NoName THEN name ELSE h.name,
            !.ports = h.ports \union ports,
            !.err = IF err # "ok" THEN err ELSE h.err,
            !.gateway = IsGateway(h.ip)]

UpsertHost(ip, flags, name, ports, err) ==
  IF Find(ip) = 0 /\ TableFull THEN UNCHANGED table
  ELSE LET i == IF Find(ip) = 0 THEN Len(hosts) + 1 ELSE Find(ip)
           h == IF Find(ip) = 0 THEN NewHost(ip) ELSE hosts[i]
           merged == MergeHost(h, flags, name, ports, err)
       IN /\ hosts' = IF Find(ip) = 0 THEN Append(hosts, merged)
                                      ELSE [hosts EXCEPT ![i] = merged]
          /\ hits' = MarkSourceHits(NewFlags(flags, h.flags))
          /\ hostsAlive' = Len(hosts')

-----------------------------------------------------------------------------
(* Rounds and hints.                                                       *)

ResetProbe == /\ aliveIndex' = 0 /\ portIndex' = 0
              /\ currentAlive' = FALSE /\ currentFlags' = {} /\ currentPorts' = {}

BeginNewRound ==
  /\ hostsScanned' = 0 /\ hostsAlive' = 0 /\ hosts' = <<>>
  /\ hits' = [s \in Sources |-> 0]
  /\ lastError' = "ok"
  /\ nextHost' = 1 /\ currentHost' = 0 /\ preferred' = 0 /\ preferredDone' = FALSE
  /\ phase' = "resolve"
  /\ ResetProbe
  /\ probed' = {} /\ responders' = {} /\ errorOf' = 0 /\ gwChanged' = FALSE

EffectiveMaxHosts(arg) == IF arg = 0 \/ arg > MaxHosts THEN MaxHosts ELSE arg

Start(arg) == /\ pc = "idle" /\ scanRound < MaxRounds
              /\ maxHosts' = EffectiveMaxHosts(arg)
              /\ running' = TRUE
              /\ BeginNewRound
              /\ UNCHANGED <<subnet, scanRound, icmpSupported, hints, tick>>

RequestRescan == /\ pc = "idle" /\ scanRound < MaxRounds
                 /\ running' = TRUE
                 /\ BeginNewRound
                 /\ UNCHANGED <<maxHosts, subnet, scanRound, icmpSupported, hints, tick>>

Stop_Counts ==                                                  \* mutant
  /\ pc = "idle" /\ running' = FALSE /\ scanRound' = scanRound + 1
  /\ scanRound < MaxRounds
  /\ UNCHANGED <<phase, subnet, maxHosts, hostsScanned, lastError, icmpSupported,
                 history, hints, cursor, probe, table, tick>>
Stop == /\ pc = "idle"
        /\ running' = FALSE
        /\ UNCHANGED <<phase, subnet, maxHosts, hostsScanned, scanRound, lastError,
                       icmpSupported, history, hints, cursor, probe, table, tick>>

SetIpHint(net) == /\ pc = "idle"
                  /\ ipHint' = net
                  /\ UNCHANGED <<running, phase, subnet, gwHint, maxHosts, hostsScanned,
                                 scanRound, lastError, icmpSupported, history, cursor,
                                 probe, table, tick>>

SetGatewayHint(ip) == /\ pc = "idle"
                      /\ gwHint' = ip
                      /\ gwChanged' = (gwChanged \/ ip # gwHint)
                      /\ UNCHANGED <<running, phase, subnet, ipHint, maxHosts, hostsScanned,
                                     scanRound, lastError, icmpSupported, probed, responders,
                                     errorOf, cursor, probe, table, tick>>
-----------------------------------------------------------------------------
(* lan_scanner_tick, first part: the resolve phase.                        *)

ResolveFails == /\ subnet' = None
                /\ lastError' = "resolve"
                /\ errorOf' = 0
                /\ UNCHANGED <<phase, preferred, preferredDone, tick, portIndex, aliveIndex,
                               currentAlive, currentPorts>>

PreferredIn(net) == IF gwHint # None /\ gwHint[1] = net THEN gwHint[2] ELSE 0

ResolveTo(net) == /\ subnet' = net
                  /\ preferred' = PreferredIn(net)
                  /\ preferredDone' = FALSE
                  /\ phase' = "alive"
                  /\ aliveIndex' = 0 /\ portIndex' = 0
                  /\ currentAlive' = FALSE /\ currentPorts' = {}
                  /\ pc' = "events" /\ eventsLeft' = MaxEvents
                  /\ UNCHANGED <<lastError, errorOf>>

(* resolve_local_subnet: the network of the address sceNetCtlInetGetInfo   *)
(* reports now, or None for an error.  The hint of the main loop wins.     *)
LocalSubnets == Nets \union {None}

Resolve == /\ phase = "resolve"
           /\ \E net \in IF ipHint # None THEN {ipHint} ELSE LocalSubnets :
                IF net = None THEN ResolveFails ELSE ResolveTo(net)

TickBegin ==
  /\ pc = "idle" /\ running
  /\ \/ Resolve
     \/ /\ phase # "resolve"
        /\ pc' = "events" /\ eventsLeft' = MaxEvents
        /\ UNCHANGED <<phase, subnet, preferred, preferredDone, lastError, errorOf,
                       aliveIndex, portIndex, currentAlive, currentPorts>>
  /\ UNCHANGED <<running, maxHosts, hostsScanned, scanRound, icmpSupported, hints,
                 nextHost, currentHost, currentFlags, table, probed, responders, gwChanged>>

(* Second part: the discovery events of this frame.  recv_loop reports the *)
(* source address of any packet, on this network or not.                   *)
TickEvent ==
  /\ pc = "events" /\ eventsLeft > 0
  /\ eventsLeft' = eventsLeft - 1
  /\ \E ip \in EventIps, s \in EventSources, name \in Names \union {NoName} :
       /\ UpsertHost(ip, {s}, name, {}, "ok")
       /\ responders' = responders \union {ip}
  /\ UNCHANGED <<running, phase, subnet, maxHosts, hostsScanned, scanRound, lastError,
                 icmpSupported, hints, cursor, probe, pc, probed, errorOf, gwChanged>>

-----------------------------------------------------------------------------
(* Third part: choose a host if none is current, and probe it.             *)

Candidate_GatewayToo == nextHost                                \* mutant
Candidate == IF nextHost = preferred THEN nextHost + 1 ELSE nextHost

(* select_next_host: the gateway first, then every other host in order.    *)
PreferredPending_Second == ~preferredDone /\ preferred # 0 /\ nextHost > 1  \* mutant
PreferredPending == ~preferredDone /\ preferred # 0
NoHostLeft_Early == ~PreferredPending /\ Candidate >= LastHost  \* mutant
NoHostLeft == ~PreferredPending /\ Candidate > LastHost
SelectNextHost == IF PreferredPending THEN preferred ELSE Candidate

\* The host this tick works on.
Target == IF currentHost # 0 THEN currentHost ELSE SelectNextHost
CurrentIp == <<subnet, Target>>

Advance == IF currentHost # 0 THEN UNCHANGED <<nextHost, preferredDone>>
           ELSE IF PreferredPending THEN preferredDone' = TRUE /\ UNCHANGED nextHost
           ELSE nextHost' = Target + 1 /\ UNCHANGED preferredDone

FinishRound == /\ currentHost = 0 /\ NoHostLeft
               /\ scanRound' = scanRound + 1
               /\ running' = FALSE
               /\ nextHost' = LastHost + 1
               /\ UNCHANGED <<phase, preferredDone, currentHost, hostsScanned, lastError,
                              icmpSupported, probe, table, probed, responders, errorOf>>

(* What a probe can return, as <<result, errno>>.                          *)
IcmpOutcomes == {<<"responded", "ok">>} \union
                ({"none"} \X {"ok", "timeout", "denied", "other"})
TcpOutcomes == {<<"open", "ok">>, <<"responded", "refused">>,
                <<"none", "timeout">>, <<"none", "other">>}
Outcomes == IF aliveIndex > 0 THEN TcpOutcomes
            ELSE IF icmpSupported # 0 THEN IcmpOutcomes
            ELSE {<<"none", "ok">>}      \* the ICMP probe is skipped

LearnIcmp_Skipped(err) == icmpSupported' =                      \* mutant
  IF aliveIndex > 0 THEN icmpSupported
  ELSE IF err = "denied" THEN 0
  ELSE IF err \in {"ok", "timeout"} THEN 1 ELSE icmpSupported

LearnIcmp(err) == icmpSupported' =
  IF aliveIndex > 0 \/ icmpSupported = 0 THEN icmpSupported
  ELSE IF err = "denied" THEN 0
  ELSE IF err \in {"ok", "timeout"} THEN 1 ELSE icmpSupported

RecordError_Failures(err) ==                                    \* mutant
  IF err \in {"timeout", "ok"} THEN UNCHANGED <<lastError, errorOf>>
  ELSE lastError' = err /\ errorOf' = Target
RecordError(err) == IF err # "timeout" THEN lastError' = err /\ errorOf' = Target
                                       ELSE UNCHANGED <<lastError, errorOf>>

(* finalize_host, for a host whose probes said alive, flags and ports.     *)
ListHost_WithPorts(alive, flags, ports) ==                      \* mutant
  IF alive /\ ports # {} THEN UpsertHost(CurrentIp, flags, NoName, ports, lastError')
  ELSE UNCHANGED table

ListHost(alive, flags, ports) ==
  IF alive THEN UpsertHost(CurrentIp, flags, NoName, ports, lastError') ELSE UNCHANGED table

FinalizeHost(alive, flags, ports) ==
  /\ hostsScanned' = hostsScanned + 1
  /\ ListHost(alive, flags, ports)
  /\ currentHost' = 0
  /\ phase' = "alive"
  /\ ResetProbe
  /\ probed' = probed \union {Target}

HostAnswers_KeepsPhase ==                                       \* mutant
  /\ currentAlive' = TRUE /\ portIndex' = 0 /\ currentHost' = Target
  /\ currentFlags' = currentFlags \union {IF aliveIndex = 0 THEN "icmp" ELSE "tcp"}
  /\ responders' = responders \union {CurrentIp}
  /\ UNCHANGED <<phase, aliveIndex, currentPorts, hostsScanned, table, probed>>

HostAnswers == /\ currentAlive' = TRUE
               /\ currentFlags' = currentFlags \union {IF aliveIndex = 0 THEN "icmp" ELSE "tcp"}
               /\ phase' = "ports"
               /\ portIndex' = 0
               /\ currentHost' = Target
               /\ responders' = responders \union {CurrentIp}
               /\ UNCHANGED <<aliveIndex, currentPorts, hostsScanned, table, probed>>

LastAliveStep_Late == aliveIndex >= AliveSteps                  \* mutant
LastAliveStep == aliveIndex + 1 >= AliveSteps

HostSilent == /\ IF LastAliveStep THEN FinalizeHost(currentAlive, currentFlags, currentPorts)
                 ELSE /\ aliveIndex' = aliveIndex + 1
                      /\ currentHost' = Target
                      /\ UNCHANGED <<phase, portIndex, currentAlive, currentFlags, currentPorts,
                                     hostsScanned, table, probed>>
              /\ UNCHANGED responders

ProbeAlive ==
  /\ phase = "alive" /\ ~(currentHost = 0 /\ NoHostLeft)
  /\ \E outcome \in Outcomes :
       /\ LearnIcmp(outcome[2])
       /\ RecordError(outcome[2])
       /\ IF outcome[1] = "none" THEN HostSilent ELSE HostAnswers
  /\ Advance
  /\ UNCHANGED <<running, scanRound>>

LastPortStep == portIndex + 1 >= PortCount

ProbePorts ==
  /\ phase = "ports" /\ ~(currentHost = 0 /\ NoHostLeft)
  /\ \E outcome \in TcpOutcomes :
       LET opened == IF outcome[1] = "open" THEN {PortOf[portIndex + 1]} ELSE {}
       IN /\ RecordError(outcome[2])
          /\ IF LastPortStep
               THEN FinalizeHost(currentAlive, currentFlags, currentPorts \union opened)
               ELSE /\ currentPorts' = currentPorts \union opened
                    /\ portIndex' = portIndex + 1
                    /\ currentHost' = Target
                    /\ UNCHANGED <<phase, aliveIndex, currentAlive, currentFlags,
                                   hostsScanned, table, probed>>
  /\ Advance
  /\ UNCHANGED <<running, scanRound, icmpSupported, responders>>

TickProbe == /\ pc = "events"
             /\ FinishRound \/ ProbeAlive \/ ProbePorts
             /\ pc' = "idle" /\ eventsLeft' = 0
             /\ UNCHANGED <<subnet, maxHosts, hints, preferred, gwChanged>>

-----------------------------------------------------------------------------
Init ==  \* lan_scanner_init
  /\ running = FALSE /\ phase = "resolve" /\ subnet = None
  /\ ipHint = None /\ gwHint = None /\ maxHosts = MaxHosts
  /\ preferred = 0 /\ preferredDone = FALSE /\ nextHost = 0 /\ currentHost = 0
  /\ aliveIndex = 0 /\ portIndex = 0
  /\ currentAlive = FALSE /\ currentFlags = {} /\ currentPorts = {}
  /\ hosts = <<>> /\ hits = [s \in Sources |-> 0]
  /\ hostsScanned = 0 /\ hostsAlive = 0 /\ scanRound = 0 /\ lastError = "ok"
  /\ icmpSupported = -1
  /\ pc = "idle" /\ eventsLeft = 0
  /\ probed = {} /\ responders = {} /\ errorOf = 0 /\ gwChanged = FALSE

Tick == TickBegin \/ TickEvent \/ TickProbe

Next == \/ Tick
        \/ \E arg \in MaxHostsArgs : Start(arg)
        \/ RequestRescan
        \/ Stop
        \/ \E net \in Nets \union {None} : SetIpHint(net)
        \/ \E ip \in (Nets \X Hosts) \union {None} : SetGatewayHint(ip)

Spec == Init /\ [][Next]_vars

\* The main loop calls lan_scanner_tick on every frame.
FairSpec == Spec /\ WF_vars(Tick)

-----------------------------------------------------------------------------
TypeOK ==
  /\ running \in BOOLEAN /\ phase \in {"resolve", "alive", "ports"}
  /\ subnet \in Nets \union {None} /\ ipHint \in Nets \union {None}
  /\ gwHint \in (Nets \X Hosts) \union {None} /\ maxHosts \in 1..MaxHosts
  /\ preferred \in 0..LastHost /\ preferredDone \in BOOLEAN
  /\ nextHost \in 0..(LastHost + 1) /\ currentHost \in 0..LastHost
  /\ aliveIndex \in 0..(AliveSteps - 1) /\ portIndex \in 0..(PortCount - 1)
  /\ currentAlive \in BOOLEAN /\ currentFlags \in SUBSET Sources
  /\ currentPorts \in SUBSET Ports
  /\ hosts \in Seq(HostRecord) /\ hits \in [Sources -> Nat]
  /\ hostsScanned \in Nat /\ hostsAlive \in Nat /\ scanRound \in Nat
  /\ lastError \in Errors
  /\ icmpSupported \in {-1, 0, 1}
  /\ pc \in {"idle", "events"} /\ eventsLeft \in 0..MaxEvents
  /\ probed \in SUBSET Hosts /\ responders \in SUBSET Ips
  /\ errorOf \in 0..LastHost /\ gwChanged \in BOOLEAN

(***************************************************************************)
(* A round that runs to its end has probed every host of the subnet, the   *)
(* skipped gateway included, whatever hints changed and whatever order     *)
(* select_next_host took: scan_round counts complete sweeps only.          *)
(***************************************************************************)
RoundCoversSubnet ==
  [][scanRound' # scanRound => probed = Hosts]_vars

(***************************************************************************)
(* No host is probed twice in a round: the progress shown (hosts_scanned   *)
(* of 254) is the number of distinct hosts finished, and the host being    *)
(* probed is not one of them.                                              *)
(***************************************************************************)
NoHostTwice == /\ hostsScanned = Cardinality(probed)
               /\ currentHost \notin probed

(***************************************************************************)
(* The gateway is probed before every other host when the hint was known   *)
(* at resolve time (select_next_host).                                     *)
(***************************************************************************)
GatewayFirst ==
  preferred # 0 /\ ProbedSoFar # {} => preferred \in ProbedSoFar

(***************************************************************************)
(* The host table holds each address once, within the limit of the config  *)
(* (and hence of the array), although probes and discovery packets insert  *)
(* concurrently into it (upsert_host, find_host).                          *)
(***************************************************************************)
TableIsASet ==
  /\ Len(hosts) <= maxHosts
  /\ \A i, j \in 1..Len(hosts) : hosts[i].ip = hosts[j].ip => i = j

(***************************************************************************)
(* The hit counters of the dashboard are those of the table: each source   *)
(* is counted once for every host it found (the delta of upsert_host).     *)
(***************************************************************************)
CountersMatchTable ==
  /\ hostsAlive = Len(hosts)
  /\ \A s \in Sources : hits[s] = Cardinality({i \in 1..Len(hosts) : s \in hosts[i].flags})

(***************************************************************************)
(* Nothing that answered is lost while the table has room: once its probes *)
(* are over, or its packet is handled, it is listed.  And nothing is       *)
(* listed that did not answer in this round.                               *)
(***************************************************************************)
RespondersListed ==
  LET listed == {hosts[i].ip : i \in 1..Len(hosts)}
  IN /\ listed \subseteq responders
     /\ \A ip \in responders :
          \/ ip \in listed
          \/ Len(hosts) >= maxHosts
          \/ currentAlive /\ ip = <<subnet, currentHost>>

(***************************************************************************)
(* finalize_host stores the scanner-wide last_error in the record of the   *)
(* host.  When it does, that error came from a probe of this very host.    *)
(***************************************************************************)
HostErrorIsOwn == currentAlive => errorOf = currentHost /\ lastError # "resolve"

(***************************************************************************)
(* The gateway badge is on the gateway and on nothing else as long as the  *)
(* hint did not change since the round began.                              *)
(***************************************************************************)
GatewayBadge ==
  ~gwChanged => \A i \in 1..Len(hosts) : hosts[i].gateway = (hosts[i].ip = gwHint)

(***************************************************************************)
(* Once raw sockets were refused, no ICMP probe is ever sent again, so     *)
(* from then on no host can be newly credited to ICMP.                     *)
(***************************************************************************)
NoIcmpOnceDenied ==
  [][icmpSupported = 0 => icmpSupported' = 0 /\ hits'["icmp"] <= hits["icmp"] +
       (IF "icmp" \in currentFlags THEN 1 ELSE 0)]_vars

(***************************************************************************)
(* A round that resolved its subnet ends, unless it is restarted or        *)
(* stopped: ticks cannot be spent on discovery packets for ever.           *)
(***************************************************************************)
RoundEnds == (running /\ phase # "resolve") ~> (~running \/ phase = "resolve")

(***************************************************************************)
(* The scanner keeps the promise of ScanRounds.                            *)
(***************************************************************************)
Rounds == INSTANCE ScanRounds WITH
            Capacity <- MaxHosts,
            round <- scanRound,
            found <- [i \in 1..Len(hosts) |-> hosts[i].ip]
ImplementsRounds == Rounds!Spec
=============================================================================
