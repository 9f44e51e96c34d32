----------------------------- MODULE Discovery ------------------------------
(***************************************************************************)
(* The discovery engine (discovery.c), driven by discovery_tick: three UDP *)
(* sockets that collect mDNS, SSDP and NBNS packets into at most MaxEvents *)
(* events per tick, the table of UPnP devices that SSDP fills, and the     *)
(* automaton that fetches one device description at a time.                *)
(*                                                                         *)
(* A tick is one call; like a tick of LanScanner it is modelled in steps,  *)
(* between which only the network and the clock move.  The three sockets   *)
(* are opened and then drained in order, each for at most RecvMax packets. *)
(* A socket is set up call by call, for a UDP socket and for a fetch, and  *)
(* every exit gives up what it gives up in the code.                       *)
(*                                                                         *)
(* lan_scanner_tick ticks the engine only while a round runs and knows its *)
(* subnet (scanning).  At the end of a round the engine keeps its sockets, *)
(* and a fetch under way its slot, until the next round.                   *)
(*                                                                         *)
(* Abstractions.  A location is a value that stands for the address, port  *)
(* and path of a LOCATION header.  A document is named by the device that  *)
(* serves it, the location whose port was connected to and the location    *)
(* whose path was asked for.  A deadline is counted in the clock steps     *)
(* that remain; a frame takes at least one, since the loop waits for the   *)
(* display.  The buffer is counted in Pieces.  The queries are sends whose *)
(* results are ignored.  The hit counters are written and never read: left *)
(* out, with the running flags, which say which sockets are open.          *)
(***************************************************************************)
EXTENDS Naturals, Sequences, FiniteSets

CONSTANTS Ips,         \* sources of packets
          Locations,   \* what a LOCATION header that parses can say
          None,        \* no location, no document
          Unparsable,  \* a LOCATION that parse_location_url rejects
          MaxUpnp,     \* DISCOVERY_MAX_UPNP (16)
          MaxEvents,   \* room for events in one tick (16)
          RecvMax,     \* packets read from one socket in one tick (16)
          ConnectTime, \* UPNP_CONNECT_TIMEOUT_US, in clock steps
          RecvTime,    \* UPNP_RECV_TIMEOUT_US, in clock steps
          QueryTime,   \* DISCOVERY_QUERY_INTERVAL_US, in clock steps
          LongestFrame, \* bound: the clock steps one frame can take
          Pieces       \* capacity of upnp_fetch_buf

ASSUME DiscoveryAssumption ==
  /\ MaxUpnp \in Nat /\ MaxEvents \in Nat /\ RecvMax \in Nat
  /\ ConnectTime \in Nat /\ RecvTime \in Nat /\ QueryTime \in Nat /\ LongestFrame \in Nat
  /\ Pieces \in Nat /\ ConnectTime > 0 /\ RecvTime > 0 /\ LongestFrame > 0
  /\ None \notin Locations /\ Unparsable \notin Locations /\ None # Unparsable

VARIABLES
  open,        \* the UDP sockets that are open
  queryLeft,   \* clock steps before next_query_us
  devices,     \* upnp_devices, a sequence of upnp_count records
  fetchState,  \* "idle", "connecting" or "receiving"
  fetchPath,   \* upnp_fetch_ip, _port and _path: shared by all devices
  target,      \* upnp_fetch_target_idx, from 1
  timeLeft,    \* clock steps before upnp_fetch_deadline_us
  fetchLen,    \* upnp_fetch_len
  dialled,     \* the location whose port the fetch socket connected to
  asked,       \* the document this connection was asked for, if any
  scanning,    \* the scanner's round runs and has its subnet
  pc,          \* where in a tick we are
  source,      \* the UDP socket opened or read
  setup,       \* the call the local sock waits for; "none": there is no local sock
  recvLeft, eventCount,
  sockets      \* history: sockets created and not closed

fetch == <<fetchState, fetchPath, target, timeLeft, fetchLen, dialled, asked>>
where == <<scanning, pc, source>>
vars == <<open, queryLeft, devices, fetch, where, setup, recvLeft, eventCount, sockets>>

UdpSources == {"mdns", "ssdp", "nbns"}
After == [mdns |-> "ssdp", ssdp |-> "nbns", nbns |-> "mdns"]

Document == Ips \X Locations \X Locations
\* location is history: the code keeps it only in the shared fetchPath.
Device == [ip : Ips, igd : BOOLEAN, location : Locations \union {None, Unparsable},
           details : Document \union {None}]

Init ==  \* discovery_init
  /\ open = {} /\ queryLeft = 0 /\ devices = <<>>
  /\ fetchState = "idle" /\ fetchPath = None /\ target = 0 /\ timeLeft = 0
  /\ fetchLen = 0 /\ dialled = None /\ asked = None
  /\ scanning = FALSE /\ pc = "idle" /\ source = "mdns" /\ setup = "none"
  /\ recvLeft = 0 /\ eventCount = 0
  /\ sockets = 0

-----------------------------------------------------------------------------
(* The rounds of the scanner.  A round that starts ticks the engine in the *)
(* call that resolves its subnet; it ends, or is stopped, between ticks.   *)
Elapsed(left, steps) == IF left > steps THEN left - steps ELSE 0

TimePasses(longest) == \E steps \in 1..longest :
  /\ timeLeft' = Elapsed(timeLeft, steps)
  /\ queryLeft' = IF Elapsed(queryLeft, steps) = 0 THEN QueryTime ELSE Elapsed(queryLeft, steps)

BeginTick == /\ pc' = "open" /\ source' = "mdns"
             /\ recvLeft' = RecvMax /\ eventCount' = 0
             /\ UNCHANGED <<open, devices, fetchState, fetchPath, target, fetchLen, dialled, asked,
                            setup, sockets>>

TickBegin == /\ pc = "idle" /\ scanning
             /\ TimePasses(LongestFrame)
             /\ BeginTick
             /\ UNCHANGED scanning

\* After this many steps every deadline has passed.
LongestPause == ConnectTime + RecvTime + QueryTime

RoundBegins == /\ pc = "idle" /\ ~scanning
               /\ scanning' = TRUE
               /\ TimePasses(LongestPause)
               /\ BeginTick

RoundEnds == /\ pc = "idle" /\ scanning
             /\ scanning' = FALSE
             /\ UNCHANGED <<open, queryLeft, devices, fetch, pc, source, setup, recvLeft,
                            eventCount, sockets>>

Term == /\ pc = "idle"
        /\ open' = {}
        /\ sockets' = sockets - Cardinality(open) - (IF fetchState # "idle" THEN 1 ELSE 0)
        /\ fetchState' = "idle"
        /\ UNCHANGED <<queryLeft, devices, fetchPath, target, timeLeft, fetchLen, dialled, asked,
                       where, setup, recvLeft, eventCount>>

-----------------------------------------------------------------------------
(* The local sock of open_udp_socket_ephemeral and upnp_start_fetch: each  *)
(* call either fails, and the function returns, or leads to the next one.  *)
SocketCreated == setup' = "option" /\ sockets' = sockets + 1
NoSocket      == UNCHANGED <<setup, sockets>>
CloseLocal    == setup' = "none" /\ sockets' = sockets - 1
Proceeds(call) == setup' = call /\ UNCHANGED sockets

\* On to the next socket; after the last one, to the next part of the tick.
NextSource == /\ source' = After[source]
              /\ pc' = IF source # "nbns" THEN pc
                       ELSE IF pc = "open" THEN "recv" ELSE "fetch"
              /\ UNCHANGED scanning

IsOpenAlready == source \in open /\ NoSocket /\ NextSource /\ UNCHANGED open

CreateUdp == /\ source \notin open /\ setup = "none"
             /\ \/ SocketCreated /\ UNCHANGED where
                \/ NoSocket /\ NextSource
             /\ UNCHANGED open

OptionUdp == /\ setup = "option"
             /\ \/ Proceeds("bind") /\ UNCHANGED where
                \/ CloseLocal /\ NextSource
             /\ UNCHANGED open

BindFails_Leaks ==                                              \* mutant
  setup' = "none" /\ UNCHANGED sockets /\ NextSource /\ UNCHANGED open
BindFails == CloseLocal /\ NextSource /\ UNCHANGED open

BindUdp == /\ setup = "bind"
           /\ \/ open' = open \union {source} /\ Proceeds("none") /\ NextSource
              \/ BindFails

OpenStep == /\ pc = "open"
            /\ IsOpenAlready \/ CreateUdp \/ OptionUdp \/ BindUdp
            /\ UNCHANGED <<queryLeft, devices, fetch, recvLeft, eventCount>>

-----------------------------------------------------------------------------
(* upnp_start_fetch, when idle, for the entry just added.                  *)
KeepsFetch == UNCHANGED <<fetchState, target, timeLeft, fetchLen, dialled, asked>>

StartFetch_Retarget(idx) ==                                     \* mutant
  IF fetchState # "idle"
    THEN target' = idx /\ UNCHANGED <<fetchState, timeLeft, fetchLen, dialled, asked>> /\ NoSocket
    ELSE KeepsFetch /\ (NoSocket \/ SocketCreated)

StartFetch(idx) ==
  KeepsFetch /\ (NoSocket \/ (fetchState = "idle" /\ SocketCreated))

OptionFetch == /\ setup = "option"
               /\ CloseLocal \/ Proceeds("address")
               /\ KeepsFetch

AddressFetch == /\ setup = "address"
                /\ CloseLocal \/ Proceeds("connect")
                /\ KeepsFetch

ConnectStarts(idx) == /\ fetchState' = "connecting"
                      /\ target' = idx
                      /\ timeLeft' = ConnectTime
                      /\ fetchLen' = 0 /\ dialled' = fetchPath /\ asked' = None
                      /\ Proceeds("none")

ConnectFetch == /\ setup = "connect"
                /\ \/ CloseLocal /\ KeepsFetch
                   \/ ConnectStarts(Len(devices))

StartFetchStep == /\ pc = "recv"
                  /\ OptionFetch \/ AddressFetch \/ ConnectFetch
                  /\ UNCHANGED <<open, queryLeft, devices, fetchPath, where, recvLeft, eventCount>>

(* upnp_upsert, for an SSDP packet that has a LOCATION header.             *)
Known_AllButLast(ip) == {i \in 1..(Len(devices) - 1) :          \* mutant
                           devices[i].ip = ip}
Known(ip) == {i \in 1..Len(devices) : devices[i].ip = ip}

NewDevice(ip, location, igd) ==
  [ip |-> ip, igd |-> igd, location |-> location, details |-> None]

TableRoom == Len(devices) < MaxUpnp

UpdateKnown_Rewrites(ip, location, igd) ==                      \* mutant
  [i \in 1..Len(devices) |->
     IF i \in Known(ip) THEN NewDevice(ip, location, igd) ELSE devices[i]]
UpdateKnown(ip, location, igd) ==
  [i \in 1..Len(devices) |->
     IF i \in Known(ip) /\ igd THEN [devices[i] EXCEPT !.igd = TRUE] ELSE devices[i]]

UpnpUpsert(ip, location, igd) ==
  \/ /\ Known(ip) # {}
     /\ devices' = UpdateKnown(ip, location, igd)
     /\ UNCHANGED fetch /\ NoSocket
  \/ /\ Known(ip) = {} /\ ~TableRoom
     /\ UNCHANGED <<devices, fetch>> /\ NoSocket
  \/ /\ Known(ip) = {} /\ TableRoom
     /\ devices' = Append(devices, NewDevice(ip, location, igd))
     /\ \/ location = Unparsable /\ UNCHANGED fetch /\ NoSocket
        \/ location # Unparsable /\ fetchPath' = location /\ StartFetch(Len(devices) + 1)

(* recv_loop: every packet becomes an event while there is room for one;   *)
(* an SSDP packet updates the device table whether or not there is, and    *)
(* the fetch it starts is set up before the next packet is read.           *)
AppendEvent == eventCount' = IF eventCount < MaxEvents THEN eventCount + 1 ELSE eventCount

RecvPacket ==
  /\ pc = "recv" /\ setup = "none" /\ source \in open /\ recvLeft > 0
  /\ recvLeft' = recvLeft - 1
  /\ AppendEvent
  /\ \/ /\ source = "ssdp"
        /\ \E ip \in Ips, location \in Locations \union {Unparsable}, igd \in BOOLEAN :
             UpnpUpsert(ip, location, igd)
     \/ UNCHANGED <<devices, fetch>> /\ NoSocket
  /\ UNCHANGED <<open, queryLeft, where>>

RecvDone == /\ pc = "recv" /\ setup = "none"
            /\ NextSource /\ recvLeft' = RecvMax
            /\ UNCHANGED <<open, queryLeft, devices, fetch, setup, eventCount, sockets>>

-----------------------------------------------------------------------------
(* upnp_fetch_tick.                                                        *)

FinishFetch == fetchState' = "idle" /\ sockets' = sockets - 1

(* upnp_parse_and_store: the details in the bytes received, if they hold   *)
(* any.                                                                    *)
ParseAndStore ==
  \/ UNCHANGED devices
  \/ fetchLen > 0 /\ devices' = [devices EXCEPT ![target].details = asked]

DeadlinePassed_Never == FALSE                                   \* mutant
DeadlinePassed == timeLeft = 0

FetchConnecting ==
  /\ fetchState = "connecting"
  /\ \/ \* the deadline has passed, or the connection failed
        /\ FinishFetch
        /\ UNCHANGED <<timeLeft, fetchLen, asked>>
     \/ \* still connecting
        /\ ~DeadlinePassed
        /\ UNCHANGED <<fetchState, timeLeft, fetchLen, asked, sockets>>
     \/ \* connected: send the request
        /\ ~DeadlinePassed
        /\ asked' = <<devices[target].ip, dialled, fetchPath>>
        /\ fetchState' = "receiving"
        /\ timeLeft' = RecvTime /\ fetchLen' = 0
        /\ UNCHANGED sockets
  /\ UNCHANGED devices

FetchReceiving ==
  /\ fetchState = "receiving"
  /\ \/ \* the deadline, a full buffer, the closing tag or the end of the
        \* stream: keep what came
        /\ ParseAndStore
        /\ FinishFetch
        /\ UNCHANGED fetchLen
     \/ \* an error
        /\ ~DeadlinePassed /\ fetchLen < Pieces
        /\ FinishFetch
        /\ UNCHANGED <<fetchLen, devices>>
     \/ \* some more bytes, without the closing tag
        /\ ~DeadlinePassed /\ fetchLen < Pieces
        /\ fetchLen' = fetchLen + 1
        /\ UNCHANGED <<fetchState, devices, sockets>>
     \/ \* nothing to read yet
        /\ ~DeadlinePassed /\ fetchLen < Pieces
        /\ UNCHANGED <<fetchState, fetchLen, devices, sockets>>
  /\ UNCHANGED <<timeLeft, asked>>

TickFetch == /\ pc = "fetch"
             /\ \/ fetchState = "idle" /\ UNCHANGED <<devices, fetch, sockets>>
                \/ FetchConnecting /\ UNCHANGED <<fetchPath, target, dialled>>
                \/ FetchReceiving /\ UNCHANGED <<fetchPath, target, dialled>>
             /\ pc' = "idle" /\ recvLeft' = 0
             /\ UNCHANGED <<open, queryLeft, scanning, source, setup, eventCount>>

-----------------------------------------------------------------------------
Tick == TickBegin \/ OpenStep \/ RecvPacket \/ StartFetchStep \/ RecvDone \/ TickFetch

Next == Tick \/ RoundBegins \/ RoundEnds \/ Term

Spec == Init /\ [][Next]_vars

\* The loop ticks the scanner in every frame, and a running round the engine;
\* nothing obliges a round to begin.
FairSpec == Spec /\ WF_vars(Tick)

-----------------------------------------------------------------------------
TypeOK ==
  /\ open \in SUBSET UdpSources /\ queryLeft \in 0..QueryTime
  /\ devices \in Seq(Device) /\ Len(devices) <= MaxUpnp
  /\ fetchState \in {"idle", "connecting", "receiving"}
  /\ fetchPath \in Locations \union {None}
  /\ target \in 0..Len(devices)
  /\ timeLeft \in 0..ConnectTime \/ timeLeft \in 0..RecvTime
  /\ fetchLen \in 0..Pieces
  /\ dialled \in Locations \union {None} /\ asked \in Document \union {None}
  /\ scanning \in BOOLEAN /\ pc \in {"idle", "open", "recv", "fetch"}
  /\ source \in UdpSources
  /\ setup \in {"none", "option", "bind", "address", "connect"}
  /\ recvLeft \in 0..RecvMax /\ eventCount \in 0..MaxEvents
  /\ sockets \in Nat

(***************************************************************************)
(* No socket is leaked and none is closed twice: the sockets that exist    *)
(* are the open UDP sockets, the one of a fetch under way and the one a    *)
(* call of open_udp_socket_ephemeral or upnp_start_fetch is setting up,    *)
(* whichever of their calls fails, through timeouts, ends of rounds and    *)
(* discovery_term.                                                         *)
(***************************************************************************)
SocketLedger ==
  sockets = Cardinality(open) + (IF fetchState = "idle" THEN 0 ELSE 1)
                              + (IF setup = "none" THEN 0 ELSE 1)

(***************************************************************************)
(* An address has one entry in the device table however many SSDP packets  *)
(* it sends, even once the table is full (upnp_upsert); and neither it nor *)
(* the events of a tick outgrow their array, although a packet that is not *)
(* an event any more still updates the table (append_event, recv_loop).    *)
(***************************************************************************)
OneEntryPerDevice ==
  /\ Len(devices) <= MaxUpnp /\ eventCount <= MaxEvents
  /\ \A i, j \in 1..Len(devices) : devices[i].ip = devices[j].ip => i = j

(***************************************************************************)
(* The model and manufacturer kept for a device were served by that        *)
(* device: a fetch stores into the entry it connected to, although packets *)
(* that arrive while it runs add entries and call upnp_start_fetch.        *)
(***************************************************************************)
DetailsFromDevice ==
  \A i \in 1..Len(devices) :
    devices[i].details # None => devices[i].details[1] = devices[i].ip

(***************************************************************************)
(* What is known of a device is not forgotten, and entries do not move:    *)
(* upnp_fetch_target_idx stays the index of the same device.  A later SSDP *)
(* packet without WANIPConnection does not undo the gateway mark.          *)
(***************************************************************************)
KnowledgeGrows ==
  [][\A i \in 1..Len(devices) :
       /\ i <= Len(devices') /\ devices'[i].ip = devices[i].ip
       /\ devices[i].igd => devices'[i].igd
       /\ devices[i].details # None => devices'[i].details = devices[i].details]_vars

(***************************************************************************)
(* A fetch does not hold the only fetch slot for ever, whatever the device *)
(* does, if the scanner keeps scanning: the deadlines of upnp_fetch_tick   *)
(* free it in the round under way or in the first ticks of a later one,    *)
(* even if every round ends or is stopped after a single tick.             *)
(***************************************************************************)
FetchEnds == ([]<>scanning) => ((fetchState # "idle") ~> (fetchState = "idle"))

(***************************************************************************)
(* The comment of upnp_start_fetch, "We stored the path in upnp_fetch_path *)
(* when the device was added": the document asked for is the one the       *)
(* device announced in its LOCATION header.                                *)
(***************************************************************************)
DetailsFromLocation ==
  \A i \in 1..Len(devices) :
    devices[i].details # None =>
      devices[i].details = <<devices[i].ip, devices[i].location, devices[i].location>>
=============================================================================
