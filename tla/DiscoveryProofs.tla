--------------------------- MODULE DiscoveryProofs ---------------------------
(***************************************************************************)
(* Proofs about Discovery, for any number of packets and devices, every    *)
(* size of the device table, every timeout and any length of a frame.      *)
(***************************************************************************)
EXTENDS Discovery, FiniteSetTheorems, SequenceTheorems, TLAPS

(***************************************************************************)
(* What is true of the fetch under way: it has an entry of the table,      *)
(* which is still without details; once it receives, what it receives was  *)
(* asked of the address of that entry.                                     *)
(***************************************************************************)
FetchHasTarget ==
  /\ fetchState # "idle" =>
       /\ target \in 1..Len(devices) /\ devices[target].details = None
       /\ fetchPath \in Locations /\ dialled \in Locations
  /\ fetchState = "receiving" => asked \in Document /\ asked[1] = devices[target].ip

(***************************************************************************)
(* What is true while a local sock is set up: it is not open yet, or it is *)
(* for the last entry, of which nothing is known.                          *)
(***************************************************************************)
SetupHasPurpose ==
  setup # "none" =>
    /\ pc \in {"open", "recv"}
    /\ pc = "open" => setup \in {"option", "bind"} /\ source \notin open
    /\ pc = "recv" => /\ setup \in {"option", "address", "connect"}
                      /\ fetchState = "idle" /\ fetchPath \in Locations
                      /\ Len(devices) > 0 /\ devices[Len(devices)].details = None

Inv == /\ TypeOK /\ FetchHasTarget /\ SetupHasPurpose
       /\ SocketLedger /\ OneEntryPerDevice /\ DetailsFromDevice

-----------------------------------------------------------------------------
(* Lemmas about the operators.                                             *)

LEMMA ElapsedType ==
  ASSUME NEW left \in Nat, NEW steps \in Nat
  PROVE  Elapsed(left, steps) \in 0..left
  BY DEF Elapsed

LEMMA EntryType ==
  ASSUME TypeOK, NEW i \in 1..Len(devices)
  PROVE  /\ devices[i] \in Device
         /\ devices[i].ip \in Ips /\ devices[i].igd \in BOOLEAN
         /\ devices[i].details \in Document \union {None}
<1>1. devices[i] \in Device
  BY ElementOfSeq DEF TypeOK
<1> QED BY <1>1 DEF Device

(* The sockets of discovery_init are a finite set.                         *)
LEMMA OpenIsFinite ==
  ASSUME NEW some \in SUBSET UdpSources
  PROVE  IsFiniteSet(some) /\ Cardinality(some) \in Nat
<1>1. IsFiniteSet({"mdns"})
  BY FS_Singleton
<1>2. IsFiniteSet({"mdns"} \union {"ssdp"})
  BY <1>1, FS_AddElement
<1>3. IsFiniteSet(({"mdns"} \union {"ssdp"}) \union {"nbns"})
  BY <1>2, FS_AddElement
<1>4. UdpSources = ({"mdns"} \union {"ssdp"}) \union {"nbns"}
  BY DEF UdpSources
<1>5. IsFiniteSet(UdpSources)
  BY <1>3, <1>4
<1>6. IsFiniteSet(some)
  BY <1>5, FS_Subset
<1> QED BY <1>6, FS_CardinalityType

(* An entry that is known already only gains the mark of a gateway.        *)
LEMMA UpdateOfKnown ==
  ASSUME TypeOK, NEW ip \in Ips, NEW location, NEW igd \in BOOLEAN
  PROVE  LET updated == UpdateKnown(ip, location, igd)
         IN  /\ updated \in Seq(Device) /\ Len(updated) = Len(devices)
             /\ \A i \in 1..Len(devices) :
                  /\ updated[i].ip = devices[i].ip
                  /\ devices[i].igd => updated[i].igd
                  /\ updated[i].details = devices[i].details
<1> DEFINE updated == UpdateKnown(ip, location, igd)
<1>1. Len(devices) \in Nat
  BY DEF TypeOK
<1>2. \A i \in 1..Len(devices) :
        /\ updated[i] \in Device /\ updated[i].ip = devices[i].ip
        /\ devices[i].igd => updated[i].igd
        /\ updated[i].details = devices[i].details
  BY EntryType DEF UpdateKnown, Device
<1>3. updated = [i \in 1..Len(devices) |-> updated[i]]
  BY DEF UpdateKnown
<1>4. updated \in [1..Len(devices) -> Device]
  BY <1>2, <1>3
<1> HIDE DEF updated
<1>5. updated \in Seq(Device)
  BY <1>1, <1>4, SeqDef
<1>6. Len(updated) = Len(devices)
  BY <1>1, <1>4, <1>5, LenProperties
<1> QED BY <1>2, <1>5, <1>6 DEF updated

-----------------------------------------------------------------------------
(* Every action keeps the invariant.                                       *)

LEMMA TimeStaysInRange ==
  ASSUME TypeOK, NEW longest \in Nat, TimePasses(longest)
  PROVE  /\ timeLeft' \in 0..ConnectTime \/ timeLeft' \in 0..RecvTime
         /\ queryLeft' \in 0..QueryTime
<1> USE DiscoveryAssumption
<1>1. PICK steps \in 1..longest :
        /\ timeLeft' = Elapsed(timeLeft, steps)
        /\ queryLeft' = IF Elapsed(queryLeft, steps) = 0 THEN QueryTime
                        ELSE Elapsed(queryLeft, steps)
  BY DEF TimePasses
<1>2. timeLeft' \in 0..timeLeft /\ queryLeft' \in 0..QueryTime
  <2>1. timeLeft \in Nat /\ queryLeft \in 0..QueryTime /\ steps \in Nat
    BY DEF TypeOK
  <2> QED BY <1>1, <2>1 DEF Elapsed
<1>3. timeLeft' \in 0..ConnectTime \/ timeLeft' \in 0..RecvTime
  <2>1. timeLeft \in 0..ConnectTime \/ timeLeft \in 0..RecvTime
    BY DEF TypeOK
  <2> QED BY <1>2, <2>1
<1> QED BY <1>2, <1>3

LEMMA BeginKeepsInv ==
  ASSUME Inv, pc = "idle", BeginTick, scanning' \in BOOLEAN,
         NEW longest \in Nat, TimePasses(longest)
  PROVE  Inv'
<1> USE DiscoveryAssumption DEF Inv
<1>1. UNCHANGED <<open, devices, fetchState, fetchPath, target, fetchLen, dialled, asked, setup,
                  sockets>>
  BY DEF BeginTick
<1>2. /\ pc' = "open" /\ source' = "mdns" /\ recvLeft' = RecvMax /\ eventCount' = 0
      /\ setup' = "none"
  BY DEF BeginTick, SetupHasPurpose
<1>3. TypeOK'
  BY <1>1, <1>2, TimeStaysInRange DEF TypeOK, UdpSources
<1> QED BY <1>1, <1>2, <1>3 DEF FetchHasTarget, SetupHasPurpose, SocketLedger, DetailsFromDevice,
                                OneEntryPerDevice

LEMMA TickBeginKeepsInv ==
  ASSUME Inv, TickBegin
  PROVE  Inv'
<1>1. /\ pc = "idle" /\ BeginTick /\ TimePasses(LongestFrame) /\ LongestFrame \in Nat
      /\ UNCHANGED scanning
  BY DiscoveryAssumption DEF TickBegin
<1>2. scanning' \in BOOLEAN
  BY <1>1 DEF Inv, TypeOK
<1> QED BY <1>1, <1>2, BeginKeepsInv

LEMMA RoundBeginsKeepsInv ==
  ASSUME Inv, RoundBegins
  PROVE  Inv'
<1>1. /\ pc = "idle" /\ BeginTick /\ TimePasses(LongestPause) /\ scanning' = TRUE
  BY DEF RoundBegins
<1>2. LongestPause \in Nat
  BY DiscoveryAssumption DEF LongestPause
<1>3. scanning' \in BOOLEAN
  BY <1>1
<1> QED BY <1>1, <1>2, <1>3, BeginKeepsInv

LEMMA RoundEndsKeepsInv ==
  ASSUME Inv, RoundEnds
  PROVE  Inv'
<1>1. UNCHANGED <<open, queryLeft, devices, fetchState, fetchPath, target, timeLeft, fetchLen,
                  dialled, asked, pc, source, setup, recvLeft, eventCount, sockets>>
      /\ scanning' = FALSE
  BY DEF RoundEnds, fetch
<1>2. TypeOK'
  BY <1>1 DEF Inv, TypeOK
<1> QED BY <1>1, <1>2 DEF Inv, FetchHasTarget, SetupHasPurpose, SocketLedger, DetailsFromDevice,
                          OneEntryPerDevice

(* The steps to the next socket keep the types of a place in the tick.     *)
LEMMA NextSourceType ==
  ASSUME TypeOK, NextSource
  PROVE  /\ source' \in UdpSources /\ scanning' \in BOOLEAN
         /\ pc = "open" => pc' \in {"open", "recv"}
         /\ pc = "recv" => pc' \in {"recv", "fetch"}
<1>1. source \in {"mdns", "ssdp", "nbns"} /\ UNCHANGED scanning
  BY DEF TypeOK, UdpSources, NextSource
<1>2. source' = After[source]
  BY DEF NextSource
<1>3. source' \in UdpSources
  BY <1>1, <1>2 DEF After, UdpSources
<1>4. scanning' \in BOOLEAN
  BY <1>1 DEF TypeOK
<1> QED BY <1>3, <1>4 DEF NextSource

LEMMA OpenKeepsInv ==
  ASSUME Inv, OpenStep
  PROVE  Inv'
<1> USE DEF Inv
<1>1. /\ UNCHANGED <<queryLeft, devices, fetchState, fetchPath, target, timeLeft, fetchLen,
                     dialled, asked, recvLeft, eventCount>>
      /\ pc = "open" /\ setup \in {"none", "option", "bind"} /\ source \in UdpSources
  BY DEF OpenStep, fetch, TypeOK, SetupHasPurpose
<1>2. \/ NextSource
      \/ UNCHANGED <<scanning, pc, source>>
  BY DEF OpenStep, IsOpenAlready, CreateUdp, OptionUdp, BindUdp, BindFails, where
<1>3. /\ source' \in UdpSources /\ scanning' \in BOOLEAN /\ pc' \in {"open", "recv"}
  <2>1. CASE NextSource
    BY <1>1, <2>1, NextSourceType
  <2>2. CASE UNCHANGED <<scanning, pc, source>>
    BY <1>1, <2>2 DEF TypeOK
  <2> QED BY <1>2, <2>1, <2>2
<1>4. /\ open \in SUBSET UdpSources /\ sockets \in Nat
      /\ IsFiniteSet(open) /\ Cardinality(open) \in Nat
  BY OpenIsFinite DEF TypeOK
<1>5. \/ setup' = "none"
      \/ /\ setup' \in {"option", "bind"} /\ UNCHANGED <<open, pc, source>>
         /\ source \notin open
  BY <1>1 DEF OpenStep, IsOpenAlready, CreateUdp, OptionUdp, BindUdp, BindFails, where,
              SocketCreated, NoSocket, CloseLocal, Proceeds, SetupHasPurpose
<1>6. \/ open' = open /\ sockets' = sockets /\ setup' = setup
      \/ open' = open /\ sockets' = sockets /\ setup # "none" /\ setup' # "none"
      \/ open' = open /\ setup = "none" /\ setup' # "none" /\ sockets' = sockets + 1
      \/ open' = open /\ setup # "none" /\ setup' = "none" /\ sockets' = sockets - 1
      \/ /\ open' = open \union {source} /\ setup = "bind" /\ setup' = "none"
         /\ sockets' = sockets
  BY DEF OpenStep, IsOpenAlready, CreateUdp, OptionUdp, BindUdp, BindFails, SocketCreated,
         NoSocket, CloseLocal, Proceeds
<1>7. /\ SocketLedger' /\ sockets' \in Nat /\ open' \in SUBSET UdpSources
  <2>1. CASE open' = open \union {source} /\ setup = "bind" /\ setup' = "none"
             /\ sockets' = sockets
    <3>1. source \notin open
      BY <1>1, <2>1 DEF SetupHasPurpose
    <3>2. Cardinality(open') = Cardinality(open) + 1
      BY <1>4, <2>1, <3>1, FS_AddElement
    <3> QED BY <1>1, <1>4, <2>1, <3>2 DEF SocketLedger
  <2>2. CASE open' = open
    <3>1. \/ sockets' = sockets /\ (setup' = "none" <=> setup = "none")
          \/ setup = "none" /\ setup' # "none" /\ sockets' = sockets + 1
          \/ setup # "none" /\ setup' = "none" /\ sockets' = sockets - 1
      BY <1>1, <1>4, <1>6, <2>2 DEF SetupHasPurpose
    <3> QED BY <1>1, <1>4, <2>2, <3>1 DEF SocketLedger
  <2> QED BY <1>6, <2>1, <2>2
<1>8. TypeOK'
  BY <1>1, <1>3, <1>5, <1>7 DEF TypeOK
<1>9. SetupHasPurpose'
  BY <1>1, <1>5 DEF SetupHasPurpose
<1> QED BY <1>1, <1>7, <1>8, <1>9 DEF FetchHasTarget, DetailsFromDevice, OneEntryPerDevice

LEMMA TermKeepsInv ==
  ASSUME Inv, Term
  PROVE  Inv'
<1> USE DEF Inv
<1>1. UNCHANGED <<queryLeft, devices, fetchPath, target, timeLeft, fetchLen, dialled, asked, pc,
                  scanning, source, setup, recvLeft, eventCount>>
  BY DEF Term, where
<1>2. open' = {} /\ fetchState' = "idle" /\ setup = "none" /\ pc = "idle"
  BY DEF Term, SetupHasPurpose
<1>3. sockets' = 0
  <2>1. Cardinality(open) \in Nat
    BY OpenIsFinite DEF TypeOK
  <2> QED BY <1>2, <2>1 DEF Term, SocketLedger, TypeOK
<1>4. TypeOK'
  BY <1>1, <1>2, <1>3 DEF TypeOK
<1>5. SocketLedger'
  BY <1>1, <1>2, <1>3, FS_EmptySet DEF SocketLedger
<1> QED BY <1>1, <1>2, <1>4, <1>5 DEF FetchHasTarget, SetupHasPurpose, DetailsFromDevice,
                                      OneEntryPerDevice

(* The table gets a new entry at its end, for which a local sock may be    *)
(* created.                                                                *)
LEMMA NewEntryKeepsInv ==
  ASSUME Inv, NEW ip \in Ips, NEW location \in Locations \union {Unparsable},
         NEW igd \in BOOLEAN,
         Known(ip) = {}, TableRoom, pc = "recv", setup = "none",
         devices' = Append(devices, NewDevice(ip, location, igd)),
         \/ location = Unparsable /\ UNCHANGED fetch /\ NoSocket
         \/ location # Unparsable /\ fetchPath' = location /\ StartFetch(Len(devices) + 1),
         UNCHANGED <<open, queryLeft, scanning, pc, source>>,
         recvLeft' \in 0..RecvMax, eventCount' \in 0..MaxEvents
  PROVE  Inv'
<1> USE DiscoveryAssumption DEF Inv
<1>1. NewDevice(ip, location, igd) \in Device
  BY DEF NewDevice, Device
<1>2. devices \in Seq(Device) /\ Len(devices) \in Nat /\ Len(devices) < MaxUpnp
  BY DEF TypeOK, TableRoom
<1>3. /\ devices' \in Seq(Device) /\ Len(devices') = Len(devices) + 1
      /\ \A i \in 1..Len(devices) : devices'[i] = devices[i]
      /\ devices'[Len(devices) + 1] = NewDevice(ip, location, igd)
  BY <1>1, <1>2, AppendProperties
<1>4. /\ devices'[Len(devices')].ip = ip
      /\ devices'[Len(devices')].details = None
  BY <1>3 DEF NewDevice
<1>5. OneEntryPerDevice'
  <2>1. \A i \in 1..Len(devices) : devices[i].ip # ip
    BY DEF Known
  <2> QED BY <1>2, <1>3, <1>4, <2>1 DEF OneEntryPerDevice
<1>6. DetailsFromDevice'
  BY <1>2, <1>3, <1>4 DEF DetailsFromDevice
<1>7. /\ UNCHANGED <<fetchState, target, timeLeft, fetchLen, dialled, asked>>
      /\ fetchPath' = fetchPath \/ fetchPath' \in Locations
      /\ \/ UNCHANGED <<setup, sockets>>
         \/ /\ fetchState = "idle" /\ fetchPath' \in Locations
            /\ setup' = "option" /\ sockets' = sockets + 1
  BY DEF StartFetch, KeepsFetch, NoSocket, SocketCreated, fetch
<1>8. sockets' \in Nat /\ setup' \in {"none", "option"}
  BY <1>7 DEF TypeOK
<1>9. TypeOK'
  BY <1>2, <1>3, <1>7, <1>8 DEF TypeOK
<1>10. FetchHasTarget'
  BY <1>2, <1>3, <1>7 DEF FetchHasTarget
<1>11. SetupHasPurpose'
  BY <1>2, <1>3, <1>4, <1>7 DEF SetupHasPurpose
<1>12. SocketLedger'
  <2>1. Cardinality(open) \in Nat /\ sockets \in Nat
    BY OpenIsFinite DEF TypeOK
  <2> QED BY <1>7, <2>1 DEF SocketLedger
<1> QED BY <1>5, <1>6, <1>9, <1>10, <1>11, <1>12

(* A packet of a known device, or of one the table has no room for, adds   *)
(* nothing.                                                                *)
LEMMA KnownEntryKeepsInv ==
  ASSUME Inv, NEW ip \in Ips, NEW location, NEW igd \in BOOLEAN,
         setup = "none", devices' = UpdateKnown(ip, location, igd) \/ UNCHANGED devices,
         UNCHANGED <<fetch, setup, sockets, open, queryLeft, scanning, pc, source>>,
         recvLeft' \in 0..RecvMax, eventCount' \in 0..MaxEvents
  PROVE  Inv'
<1> USE DEF Inv
<1>1. UNCHANGED <<fetchState, fetchPath, target, timeLeft, fetchLen, dialled, asked>>
  BY DEF fetch
<1>2. /\ devices' \in Seq(Device) /\ Len(devices') = Len(devices)
      /\ \A i \in 1..Len(devices) : /\ devices'[i].ip = devices[i].ip
                                    /\ devices'[i].details = devices[i].details
  BY UpdateOfKnown DEF TypeOK
<1>3. TypeOK'
  BY <1>1, <1>2 DEF TypeOK
<1>4. FetchHasTarget'
  BY <1>1, <1>2 DEF FetchHasTarget
<1>5. SocketLedger'
  BY <1>1 DEF SocketLedger
<1>6. OneEntryPerDevice' /\ DetailsFromDevice'
  <2>1. Len(devices) <= MaxUpnp /\ eventCount' <= MaxEvents
    BY DiscoveryAssumption DEF TypeOK
  <2> QED BY <1>2, <2>1 DEF OneEntryPerDevice, DetailsFromDevice
<1> QED BY <1>3, <1>4, <1>5, <1>6 DEF SetupHasPurpose

LEMMA PacketKeepsInv ==
  ASSUME Inv, RecvPacket
  PROVE  Inv'
<1>1. recvLeft' \in 0..RecvMax /\ eventCount' \in 0..MaxEvents
  BY DiscoveryAssumption DEF Inv, TypeOK, RecvPacket, AppendEvent
<1>2. UNCHANGED <<open, queryLeft, scanning, pc, source>> /\ pc = "recv" /\ setup = "none"
  BY DEF RecvPacket, where
<1>3. CASE UNCHANGED <<devices, fetch>> /\ NoSocket
  <2>1. UNCHANGED <<devices, setup, sockets, fetchState, fetchPath, target, timeLeft, fetchLen,
                    dialled, asked>>
    BY <1>3 DEF fetch, NoSocket
  <2>2. TypeOK'
    BY <1>1, <1>2, <2>1 DEF Inv, TypeOK
  <2>3. OneEntryPerDevice'
    BY <1>1, <2>1, DiscoveryAssumption DEF Inv, OneEntryPerDevice
  <2> QED BY <1>2, <2>1, <2>2, <2>3 DEF Inv, FetchHasTarget, SetupHasPurpose, SocketLedger,
                                        DetailsFromDevice
<1>4. ASSUME NEW ip \in Ips, NEW location \in Locations \union {Unparsable},
             NEW igd \in BOOLEAN, UpnpUpsert(ip, location, igd)
      PROVE  Inv'
  <2>1. CASE Known(ip) # {} \/ ~TableRoom
    <3>1. /\ devices' = UpdateKnown(ip, location, igd) \/ UNCHANGED devices
          /\ UNCHANGED <<fetch, setup, sockets>>
      BY <1>4, <2>1 DEF UpnpUpsert, NoSocket
    <3> QED BY <1>1, <1>2, <3>1, KnownEntryKeepsInv
  <2>2. CASE Known(ip) = {} /\ TableRoom
    <3>1. /\ devices' = Append(devices, NewDevice(ip, location, igd))
          /\ \/ location = Unparsable /\ UNCHANGED fetch /\ NoSocket
             \/ location # Unparsable /\ fetchPath' = location /\ StartFetch(Len(devices) + 1)
      BY <1>4, <2>2 DEF UpnpUpsert
    <3> QED BY <1>1, <1>2, <2>2, <3>1, NewEntryKeepsInv
  <2> QED BY <2>1, <2>2
<1> QED BY <1>3, <1>4 DEF RecvPacket

(* The calls of upnp_start_fetch after the socket is created.              *)
LEMMA StartFetchKeepsInv ==
  ASSUME Inv, StartFetchStep
  PROVE  Inv'
<1> USE DiscoveryAssumption DEF Inv
<1>1. /\ UNCHANGED <<open, queryLeft, devices, fetchPath, scanning, pc, source, recvLeft,
                     eventCount>>
      /\ pc = "recv" /\ setup \in {"option", "address", "connect"}
  BY DEF StartFetchStep, where, OptionFetch, AddressFetch, ConnectFetch
<1>2. /\ fetchState = "idle" /\ fetchPath \in Locations
      /\ Len(devices) \in 1..Len(devices) /\ devices[Len(devices)].details = None
  BY <1>1 DEF SetupHasPurpose, TypeOK
<1>3. Cardinality(open) \in Nat /\ sockets \in Nat
  BY OpenIsFinite DEF TypeOK
<1>4. OneEntryPerDevice' /\ DetailsFromDevice'
  BY <1>1 DEF OneEntryPerDevice, DetailsFromDevice
<1>5. CASE /\ KeepsFetch
           /\ CloseLocal \/ Proceeds("address") \/ Proceeds("connect")
  <2>1. /\ UNCHANGED <<fetchState, target, timeLeft, fetchLen, dialled, asked>>
        /\ \/ setup' = "none" /\ sockets' = sockets - 1
           \/ setup' \in {"address", "connect"} /\ UNCHANGED sockets
    BY <1>5 DEF KeepsFetch, CloseLocal, Proceeds
  <2>2. SocketLedger' /\ sockets' \in Nat
    BY <1>1, <1>2, <1>3, <2>1 DEF SocketLedger
  <2>3. TypeOK'
    BY <1>1, <2>1, <2>2 DEF TypeOK
  <2>4. FetchHasTarget' /\ SetupHasPurpose'
    BY <1>1, <1>2, <2>1 DEF FetchHasTarget, SetupHasPurpose
  <2> QED BY <1>4, <2>2, <2>3, <2>4
<1>6. CASE ConnectStarts(Len(devices))
  <2>1. /\ fetchState' = "connecting" /\ target' = Len(devices)
        /\ timeLeft' = ConnectTime /\ fetchLen' = 0 /\ dialled' = fetchPath /\ asked' = None
        /\ setup' = "none" /\ UNCHANGED sockets
    BY <1>6 DEF ConnectStarts, Proceeds
  <2>2. SocketLedger'
    BY <1>1, <1>2, <1>3, <2>1 DEF SocketLedger
  <2>3. TypeOK'
    BY <1>1, <1>2, <2>1 DEF TypeOK
  <2>4. FetchHasTarget' /\ SetupHasPurpose'
    BY <1>1, <1>2, <2>1 DEF FetchHasTarget, SetupHasPurpose
  <2> QED BY <1>4, <2>2, <2>3, <2>4
<1> QED BY <1>5, <1>6 DEF StartFetchStep, OptionFetch, AddressFetch, ConnectFetch

LEMMA RecvDoneKeepsInv ==
  ASSUME Inv, RecvDone
  PROVE  Inv'
<1>1. UNCHANGED <<open, queryLeft, devices, eventCount, setup, sockets, fetchState, fetchPath,
                  target, timeLeft, fetchLen, dialled, asked>>
      /\ setup = "none"
  BY DEF RecvDone, fetch
<1>2. /\ recvLeft' \in 0..RecvMax /\ pc' \in {"recv", "fetch"}
      /\ source' \in UdpSources /\ scanning' \in BOOLEAN
  BY DiscoveryAssumption, NextSourceType DEF Inv, RecvDone
<1>3. TypeOK'
  BY <1>1, <1>2 DEF Inv, TypeOK
<1> QED BY <1>1, <1>3 DEF Inv, FetchHasTarget, SetupHasPurpose, SocketLedger, OneEntryPerDevice,
                          DetailsFromDevice

(* upnp_parse_and_store writes into the entry of the target only.          *)
StoresDetails ==
  /\ fetchState = "receiving"
  /\ devices' = [devices EXCEPT ![target].details = asked]

LEMMA StoreProperties ==
  ASSUME Inv, StoresDetails
  PROVE  /\ devices' \in Seq(Device) /\ Len(devices') = Len(devices)
         /\ \A i \in 1..Len(devices) :
              /\ devices'[i].ip = devices[i].ip /\ devices'[i].igd = devices[i].igd
              /\ devices'[i].details = IF i = target THEN asked ELSE devices[i].details
<1>1. target \in 1..Len(devices) /\ asked \in Document
  BY DEF Inv, FetchHasTarget, StoresDetails
<1> DEFINE stored == [devices[target] EXCEPT !.details = asked]
<1>2. devices[target] \in Device
  BY <1>1, EntryType DEF Inv
<1>3. /\ stored \in Device /\ stored.details = asked
      /\ stored.ip = devices[target].ip /\ stored.igd = devices[target].igd
  BY <1>1, <1>2 DEF Device
<1>4. devices' = [devices EXCEPT ![target] = stored]
  BY DEF StoresDetails
<1>5. devices \in Seq(Device)
  BY DEF Inv, TypeOK
<1> HIDE DEF stored
<1>6. /\ devices' \in Seq(Device) /\ Len(devices') = Len(devices)
      /\ \A i \in 1..Len(devices) : devices'[i] = IF i = target THEN stored ELSE devices[i]
  BY <1>1, <1>3, <1>4, <1>5, ExceptSeq
<1> QED BY <1>1, <1>3, <1>6

LEMMA FetchKeepsInv ==
  ASSUME Inv, TickFetch
  PROVE  Inv'
<1> USE DiscoveryAssumption DEF Inv
<1>1. /\ UNCHANGED <<open, queryLeft, eventCount, fetchPath, target, dialled, scanning, source,
                     setup>>
      /\ pc' = "idle" /\ recvLeft' = 0 /\ setup = "none"
  BY DEF TickFetch, fetch, SetupHasPurpose
<1>2. \/ UNCHANGED devices
      \/ StoresDetails /\ fetchState' = "idle"
  BY DEF TickFetch, FetchConnecting, FetchReceiving, ParseAndStore, StoresDetails, FinishFetch
<1>3. \/ UNCHANGED <<fetchState, sockets>>
      \/ fetchState # "idle" /\ fetchState' = "idle" /\ sockets' = sockets - 1
      \/ /\ fetchState = "connecting" /\ fetchState' = "receiving" /\ UNCHANGED sockets
  BY DEF TickFetch, FetchConnecting, FetchReceiving, FinishFetch, fetch
<1>4. \/ fetchState' = "receiving" => UNCHANGED <<asked, fetchState>>
      \/ /\ fetchState = "connecting" /\ UNCHANGED devices
         /\ asked' = <<devices[target].ip, dialled, fetchPath>>
  BY DEF TickFetch, FetchConnecting, FetchReceiving, FinishFetch, fetch
<1>5. /\ timeLeft' \in {timeLeft, RecvTime}
      /\ fetchLen' \in 0..Pieces
  BY DEF TickFetch, FetchConnecting, FetchReceiving, FinishFetch, fetch, TypeOK
<1>6. asked' \in Document \union {None}
  <2>1. CASE asked' = asked
    BY <2>1 DEF TypeOK
  <2>2. CASE asked' # asked
    <3>1. fetchState = "connecting" /\ asked' = <<devices[target].ip, dialled, fetchPath>>
      BY <2>2 DEF TickFetch, FetchConnecting, FetchReceiving, fetch
    <3>2. devices[target].ip \in Ips /\ dialled \in Locations /\ fetchPath \in Locations
      BY <3>1, EntryType DEF FetchHasTarget
    <3> QED BY <3>1, <3>2 DEF Document
  <2> QED BY <2>1, <2>2
<1>7. /\ devices' \in Seq(Device) /\ Len(devices') = Len(devices)
      /\ \A i \in 1..Len(devices) : devices'[i].ip = devices[i].ip
  BY <1>2, StoreProperties DEF TypeOK
<1>8. SocketLedger' /\ sockets' \in Nat
  <2>1. Cardinality(open) \in Nat /\ sockets \in Nat
    BY OpenIsFinite DEF TypeOK
  <2> QED BY <1>1, <1>3, <2>1 DEF SocketLedger
<1>9. fetchState' \in {"idle", "connecting", "receiving"}
  BY <1>3 DEF TypeOK
<1>10. TypeOK'
  <2>1. timeLeft' \in 0..ConnectTime \/ timeLeft' \in 0..RecvTime
    BY <1>5 DEF TypeOK
  <2> QED BY <1>1, <1>5, <1>6, <1>7, <1>8, <1>9, <2>1 DEF TypeOK
<1>11. FetchHasTarget'
  <2> SUFFICES ASSUME fetchState' # "idle" PROVE FetchHasTarget'
    BY DEF FetchHasTarget
  <2>1. fetchState # "idle" /\ UNCHANGED devices
    BY <1>2, <1>3
  <2>2. /\ target \in 1..Len(devices) /\ devices[target].details = None
        /\ fetchPath \in Locations /\ dialled \in Locations
    BY <2>1 DEF FetchHasTarget
  <2>3. fetchState' = "receiving" => asked' \in Document /\ asked'[1] = devices[target].ip
    <3>1. CASE UNCHANGED <<asked, fetchState>>
      BY <3>1 DEF FetchHasTarget
    <3>2. CASE asked' = <<devices[target].ip, dialled, fetchPath>>
      BY <2>2, <3>2, EntryType DEF Document
    <3> QED BY <1>4, <3>1, <3>2
  <2> QED BY <1>1, <2>1, <2>2, <2>3 DEF FetchHasTarget
<1>12. OneEntryPerDevice'
  BY <1>1, <1>7 DEF OneEntryPerDevice
<1>13. DetailsFromDevice'
  <2>1. CASE UNCHANGED devices
    BY <2>1 DEF DetailsFromDevice
  <2>2. CASE StoresDetails
    <3>1. asked[1] = devices[target].ip
      BY <2>2 DEF StoresDetails, FetchHasTarget
    <3> QED BY <2>2, <3>1, StoreProperties DEF DetailsFromDevice
  <2> QED BY <1>2, <2>1, <2>2
<1>14. SetupHasPurpose'
  BY <1>1 DEF SetupHasPurpose
<1> HIDE DEF Inv
<1> QED BY <1>8, <1>10, <1>11, <1>12, <1>13, <1>14 DEF Inv

-----------------------------------------------------------------------------
LEMMA InitHasInv == Init => Inv
<1> SUFFICES ASSUME Init PROVE Inv
  OBVIOUS
<1>1. TypeOK
  <2>1. scanning \in BOOLEAN
    BY DEF Init
  <2> QED BY <2>1, DiscoveryAssumption DEF Init, TypeOK, UdpSources
<1>2. FetchHasTarget /\ SetupHasPurpose /\ OneEntryPerDevice /\ DetailsFromDevice
  BY DiscoveryAssumption
     DEF Init, FetchHasTarget, SetupHasPurpose, OneEntryPerDevice, DetailsFromDevice
<1>3. SocketLedger
  BY FS_EmptySet DEF Init, SocketLedger
<1> QED BY <1>1, <1>2, <1>3 DEF Inv

LEMMA StepKeepsInv == Inv /\ [Next]_vars => Inv'
<1> SUFFICES ASSUME Inv, [Next]_vars PROVE Inv'
  OBVIOUS
<1>1. CASE UNCHANGED vars
  <2>1. UNCHANGED <<open, queryLeft, devices, fetchState, fetchPath, target, timeLeft, fetchLen,
                    dialled, asked, scanning, pc, source, setup, recvLeft, eventCount, sockets>>
    BY <1>1 DEF vars, fetch, where
  <2>2. TypeOK'
    BY <2>1 DEF Inv, TypeOK
  <2> QED BY <2>1, <2>2 DEF Inv, FetchHasTarget, SetupHasPurpose, SocketLedger,
                            OneEntryPerDevice, DetailsFromDevice
<1> QED BY <1>1, TickBeginKeepsInv, RoundBeginsKeepsInv, RoundEndsKeepsInv, OpenKeepsInv,
           TermKeepsInv, PacketKeepsInv, StartFetchKeepsInv, RecvDoneKeepsInv, FetchKeepsInv
        DEF Next, Tick

LEMMA Invariance == Spec => []Inv
  BY InitHasInv, StepKeepsInv, PTL DEF Spec

(***************************************************************************)
(* Every variable of the engine stays in its type: the index of the fetch  *)
(* within the table, the counts within their arrays.                       *)
(***************************************************************************)
THEOREM TypeCorrect == Spec => []TypeOK
<1>1. Inv => TypeOK
  BY DEF Inv
<1> QED BY <1>1, Invariance, PTL

(***************************************************************************)
(* No socket is leaked or closed twice: whichever call of                  *)
(* open_udp_socket_ephemeral or upnp_start_fetch fails, its exit closes    *)
(* the local sock, and so do the timeouts and errors of a fetch and        *)
(* discovery_term with theirs.                                             *)
(***************************************************************************)
THEOREM NoSocketLeaks == Spec => []SocketLedger
<1>1. Inv => SocketLedger
  BY DEF Inv
<1> QED BY <1>1, Invariance, PTL

(***************************************************************************)
(* The device table holds an address once and stays within its array, and  *)
(* so do the events of a tick.                                             *)
(***************************************************************************)
THEOREM DevicesAreDistinct == Spec => []OneEntryPerDevice
<1>1. Inv => OneEntryPerDevice
  BY DEF Inv
<1> QED BY <1>1, Invariance, PTL

(***************************************************************************)
(* The details of a device were served by that device.                     *)
(***************************************************************************)
THEOREM DetailsAreOwn == Spec => []DetailsFromDevice
<1>1. Inv => DetailsFromDevice
  BY DEF Inv
<1> QED BY <1>1, Invariance, PTL

-----------------------------------------------------------------------------
(***************************************************************************)
(* No step forgets what is known of a device or moves its entry; a fetch   *)
(* stores details where there were none.                                   *)
(***************************************************************************)
THEOREM NothingIsForgotten == Spec => KnowledgeGrows
<1> DEFINE Kept(i) == /\ i <= Len(devices') /\ devices'[i].ip = devices[i].ip
                      /\ devices[i].igd => devices'[i].igd
                      /\ devices[i].details # None => devices'[i].details = devices[i].details
           Grows == \A i \in 1..Len(devices) : Kept(i)
<1>1. Inv /\ [Next]_vars => [Grows]_vars
  <2> SUFFICES ASSUME Inv, Next, NEW i \in 1..Len(devices) PROVE Kept(i)
    OBVIOUS
  <2>1. Len(devices) \in Nat /\ devices \in Seq(Device)
    BY DEF Inv, TypeOK
  <2>2. CASE UNCHANGED devices
    BY <2>1, <2>2
  <2>3. CASE TickFetch /\ ~UNCHANGED devices
    <3>1. StoresDetails
      BY <2>3 DEF TickFetch, FetchConnecting, FetchReceiving, ParseAndStore, StoresDetails
    <3>2. devices[target].details = None
      BY <3>1 DEF Inv, FetchHasTarget, StoresDetails
    <3> QED BY <2>1, <3>1, <3>2, StoreProperties
  <2>4. CASE RecvPacket /\ ~UNCHANGED devices
    <3>1. PICK ip \in Ips, location \in Locations \union {Unparsable}, igd \in BOOLEAN :
            UpnpUpsert(ip, location, igd)
      BY <2>4 DEF RecvPacket
    <3>2. CASE devices' = UpdateKnown(ip, location, igd)
      BY <2>1, <3>2, UpdateOfKnown DEF Inv
    <3>3. CASE devices' = Append(devices, NewDevice(ip, location, igd))
      BY <2>1, <3>3
    <3> QED BY <2>4, <3>1, <3>2, <3>3 DEF UpnpUpsert
  <2> QED BY <2>2, <2>3, <2>4 DEF Next, Tick, TickBegin, RoundBegins, BeginTick, RoundEnds,
                                  OpenStep, StartFetchStep, RecvDone, Term
<1> QED BY <1>1, Invariance, PTL DEF Spec, KnowledgeGrows
=============================================================================
