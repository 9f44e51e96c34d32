-------------------------- MODULE ServiceProbeProofs --------------------------
(***************************************************************************)
(* Proofs about ServiceProbe, for any host tables, every size of the queue *)
(* and of the result table, every timeout and any length of a frame.       *)
(***************************************************************************)
EXTENDS ServiceProbe, FiniteSetTheorems, SequenceTheorems, NaturalsInduction,
        WellFoundedInduction, TLAPS

SetupCalls == {"create", "option", "address", "connect"}

(***************************************************************************)
(* What is true of the probe under way: its slot is that of its host, with *)
(* the port it connected to; begin_next_probe runs only between probes,    *)
(* and its calls after the first are made for the slot it has taken.       *)
(***************************************************************************)
ProbeHasSlot ==
  /\ state # "idle" \/ pc \in SetupCalls =>
       /\ slot \in 1..Len(results)
       /\ results[slot].ip = current[1] /\ results[slot].port = current[2]
       /\ current # None
  /\ pc # "idle" => state = "idle"

Inv == TypeOK /\ ProbeHasSlot /\ OneSocket /\ OneResultPerHost /\ ReplyFromHost

-----------------------------------------------------------------------------
(* A set of numbers has a least one: this is what stands for induction     *)
(* below, on a least counterexample.                                       *)
LEMMA Least ==
  ASSUME NEW T \in SUBSET Nat, T # {}
  PROVE  \E n \in T : \A m \in T : n <= m
<1> DEFINE R == OpToRel(<, Nat)
<1>1. IsWellFoundedOn(R, Nat)
  BY Zenon, NatLessThanWellFounded
<1>2. \A x, y \in Nat : <<x, y>> \in R <=> x < y
  BY Zenon DEF OpToRel
<1> HIDE DEF R
<1>3. \E x \in T : \A y \in T : <<y, x>> \notin R
  BY <1>1, WFMin, Zenon
<1>4. \E x \in T : \A y \in T : ~(y < x)
  BY <1>2, <1>3, Zenon
<1> QED BY <1>4

(* Every rank up to the size of a set of positions is that of one of them. *)
LEMMA RankOf ==
  ASSUME NEW n \in Nat, NEW found \in SUBSET (1..n),
         NEW k \in 1..Cardinality(found)
  PROVE  \E i \in found : Cardinality({j \in found : j <= i}) = k
<1> DEFINE UpTo(i) == {j \in found : j <= i}
           Reaching == {i \in Nat : Cardinality(UpTo(i)) >= k}
<1>0. \A j \in found : j \in Nat /\ 1 <= j /\ j <= n
  OBVIOUS
<1>1. IsFiniteSet(1..n)
  BY FS_Interval
<1>2. \A i \in Nat : IsFiniteSet(UpTo(i)) /\ Cardinality(UpTo(i)) \in Nat
  <2> TAKE i \in Nat
  <2>1. UpTo(i) \subseteq 1..n
    OBVIOUS
  <2>2. IsFiniteSet(UpTo(i))
    BY <1>1, <2>1, FS_Subset
  <2> QED BY <2>2, FS_CardinalityType
<1>3. UpTo(n) = found
  BY <1>0
<1>4. n \in Reaching
  BY <1>2, <1>3
<1>5. PICK i \in Reaching : \A m \in Reaching : i <= m
  BY <1>4, Least
<1>6. i # 0
  <2>1. UpTo(0) = {}
    <3>1. \A j \in found : ~(j <= 0)
      BY <1>0
    <3> QED BY <3>1
  <2>2. Cardinality(UpTo(0)) = 0
    BY <2>1, FS_EmptySet
  <2> QED BY <1>5, <2>2
<1>7. i - 1 \in Nat /\ Cardinality(UpTo(i - 1)) < k
  <2>1. i - 1 \in Nat /\ ~(i <= i - 1)
    BY <1>5, <1>6
  <2>2. i - 1 \notin Reaching
    BY <1>5, <2>1
  <2>3. Cardinality(UpTo(i - 1)) \in Nat
    BY <1>2, <2>1
  <2>4. ~(Cardinality(UpTo(i - 1)) >= k)
    BY <2>1, <2>2
  <2> HIDE DEF UpTo
  <2> QED BY <2>1, <2>3, <2>4
<1>8. i \in found
  <2> SUFFICES ASSUME i \notin found PROVE FALSE
    OBVIOUS
  <2>1. \A j \in found : j <= i <=> j <= i - 1
    BY <1>0, <1>7
  <2>2. UpTo(i) = UpTo(i - 1)
    BY <2>1
  <2>3. Cardinality(UpTo(i)) >= k /\ Cardinality(UpTo(i)) \in Nat
    BY <1>2, <1>5
  <2> HIDE DEF UpTo
  <2> QED BY <1>7, <2>2, <2>3
<1>9. Cardinality(UpTo(i)) = Cardinality(UpTo(i - 1)) + 1
  <2>1. UpTo(i) = UpTo(i - 1) \union {i} /\ i \notin UpTo(i - 1)
    <3>1. \A j \in found : j <= i <=> j <= i - 1 \/ j = i
      BY <1>0, <1>7
    <3>2. ~(i <= i - 1) /\ i <= i
      BY <1>7
    <3> QED BY <1>8, <3>1, <3>2
  <2>2. IsFiniteSet(UpTo(i - 1))
    BY <1>2, <1>7
  <2> HIDE DEF UpTo
  <2> QED BY <2>1, <2>2, FS_AddElement
<1>10. Cardinality(UpTo(i)) = k
  <2>1. Cardinality(UpTo(i)) >= k /\ i \in Nat
    BY <1>5
  <2>2. Cardinality(UpTo(i)) \in Nat /\ Cardinality(UpTo(i - 1)) \in Nat
    BY <1>2, <1>7, <2>1
  <2> HIDE DEF UpTo
  <2> QED BY <1>7, <1>9, <2>1, <2>2
<1> QED BY <1>8, <1>10

(* service_probe_arm queues servers, no more than the queue holds.         *)
LEMMA WebHostsType ==
  ASSUME NEW list \in HostLists
  PROVE  WebHosts(list) \in Seq(Server) /\ Len(WebHosts(list)) <= QueueMax
<1> DEFINE found == {i \in 1..Len(list) : IsWebHost(list[i])}
           size == Cardinality(found)
           room == IF size > QueueMax THEN QueueMax ELSE size
           Nth(k) == CHOOSE i \in found : Cardinality({j \in found : j <= i}) = k
           pair(i) == <<list[i].ip, FirstWebPort(list[i])>>
<1>1. WebHosts(list) = [k \in 1..room |-> pair(Nth(k))]
  BY DEF WebHosts
<1>2. Len(list) \in Nat /\ QueueMax \in Nat
  BY ServiceProbeAssumption
<1>3. found \in SUBSET (1..Len(list))
  OBVIOUS
<1>4. \A i \in found : pair(i) \in Server
  <2> TAKE i \in found
  <2>1. list[i].ip \in HostIps
    BY DEF HostIps
  <2>2. WebPortsOf(list[i]) # {} /\ WebPortsOf(list[i]) \in SUBSET Nat
    BY <1>2, ServiceProbeAssumption DEF IsWebHost, WebPortsOf
  <2>3. \E j \in WebPortsOf(list[i]) : \A k \in WebPortsOf(list[i]) : j <= k
    BY <2>2, Least
  <2>4. \E j \in WebPortsOf(list[i]) : FirstWebPort(list[i]) = list[i].ports[j]
    BY <2>3 DEF FirstWebPort
  <2>5. FirstWebPort(list[i]) \in WebPorts
    BY <2>4 DEF WebPortsOf, IsWeb
  <2> QED BY <2>1, <2>5 DEF Server
<1>5. size \in Nat
  <2>1. IsFiniteSet(1..Len(list))
    BY <1>2, FS_Interval
  <2>2. IsFiniteSet(found)
    BY <1>3, <2>1, FS_Subset
  <2> QED BY <2>2, FS_CardinalityType
<1>6. room \in Nat /\ room <= QueueMax /\ room <= size
  BY <1>2, <1>5
<1>7. \A k \in 1..room : Nth(k) \in found
  <2> TAKE k \in 1..room
  <2>1. k \in 1..size
    BY <1>5, <1>6
  <2>2. \E i \in found : Cardinality({j \in found : j <= i}) = k
    BY <1>2, <1>3, <2>1, RankOf
  <2> QED BY <2>2
<1> HIDE DEF found, size, room, Nth, pair
<1>8. WebHosts(list) \in [1..room -> Server]
  BY <1>1, <1>4, <1>7
<1>9. WebHosts(list) \in Seq(Server)
  BY <1>6, <1>8, SeqDef
<1>10. Len(WebHosts(list)) = room
  BY <1>6, <1>8, <1>9, LenProperties
<1> QED BY <1>6, <1>9, <1>10

(* The slot of a host is its own if it has one, and stays in the array.    *)
LEMMA SlotForType ==
  ASSUME TypeOK, NEW ip \in HostIps
  PROVE  /\ SlotFor(ip) \in 1..(Len(results) + 1) /\ SlotFor(ip) <= MaxResults
         /\ \A i \in 1..Len(results) : i # SlotFor(ip) /\ OneResultPerHost => results[i].ip # ip
<1>1. Len(results) \in Nat /\ Len(results) <= MaxResults /\ MaxResults \in Nat /\ MaxResults > 0
  BY ServiceProbeAssumption DEF TypeOK
<1>2. CASE SlotsOf(ip) # {}
  <2>1. SlotFor(ip) \in SlotsOf(ip)
    BY <1>2 DEF SlotFor
  <2>2. SlotFor(ip) \in 1..Len(results) /\ results[SlotFor(ip)].ip = ip
    BY <2>1 DEF SlotsOf
  <2> QED BY <1>1, <2>2 DEF OneResultPerHost
<1>3. CASE SlotsOf(ip) = {}
  <2>1. \A i \in 1..Len(results) : results[i].ip # ip
    BY <1>3 DEF SlotsOf
  <2>2. SlotFor(ip) = IF Len(results) < MaxResults THEN Len(results) + 1 ELSE 1
    BY <1>3 DEF SlotFor, RoomForResult
  <2> QED BY <1>1, <2>1, <2>2
<1> QED BY <1>2, <1>3

LEMMA ClearSlotProperties ==
  ASSUME TypeOK, NEW i \in 1..(Len(results) + 1), NEW ip \in HostIps, NEW port \in WebPorts
  PROVE  LET cleared == ClearSlot(i, ip, port)
         IN  /\ cleared \in Seq(Result)
             /\ Len(cleared) = IF i > Len(results) THEN i ELSE Len(results)
             /\ cleared[i] = [ip |-> ip, port |-> port, reply |-> None]
             /\ \A j \in 1..Len(results) : j # i => cleared[j] = results[j]
<1> DEFINE cleared == ClearSlot(i, ip, port)
           size == IF i > Len(results) THEN i ELSE Len(results)
           fresh == [ip |-> ip, port |-> port, reply |-> None]
<1>1. Len(results) \in Nat /\ results \in Seq(Result)
  BY DEF TypeOK
<1>2. size \in Nat /\ i \in 1..size
      /\ \A j \in 1..size : j # i => j \in 1..Len(results)
  BY <1>1
<1>3. fresh \in Result
  BY DEF Result
<1>4. cleared = [j \in 1..size |-> IF j = i THEN fresh ELSE results[j]]
  BY DEF ClearSlot
<1>5. \A j \in 1..Len(results) : results[j] \in Result
  BY <1>1, ElementOfSeq
<1> HIDE DEF cleared, size, fresh
<1>6. cleared \in [1..size -> Result]
  BY <1>2, <1>3, <1>4, <1>5
<1>7. cleared \in Seq(Result)
  BY <1>2, <1>6, SeqDef
<1>8. Len(cleared) = size
  BY <1>2, <1>6, <1>7, LenProperties
<1>9. \A j \in 1..Len(results) : j \in 1..size
  BY <1>1 DEF size
<1> QED BY <1>2, <1>4, <1>7, <1>8, <1>9 DEF cleared, size, fresh

-----------------------------------------------------------------------------
(* Every action keeps the invariant.                                       *)

LEMMA SocketOfProbe ==
  ASSUME Inv
  PROVE  /\ state # "idle" \/ pc \in {"option", "address", "connect"} => sock = TRUE /\ sockets = 1
         /\ ~(state # "idle" \/ pc \in {"option", "address", "connect"}) => sock = FALSE /\ sockets = 0
<1>1. sock \in BOOLEAN
  BY DEF Inv, TypeOK
<1>2. CASE sock = TRUE
  BY <1>2 DEF Inv, OneSocket
<1>3. CASE sock = FALSE
  BY <1>3 DEF Inv, OneSocket
<1> QED BY <1>1, <1>2, <1>3

LEMMA ArmKeepsInv ==
  ASSUME Inv, NEW list \in HostLists, Arm(list)
  PROVE  Inv'
<1> USE ServiceProbeAssumption DEF Inv
<1>1. UNCHANGED <<results, current, slot, timeLeft, recvLen, pc>>
      /\ queue' = WebHosts(list) /\ arms' \in 0..MaxArms /\ state' = "idle" /\ pc' = "idle"
  BY DEF Arm, Abort, TypeOK
<1>2. sock' = FALSE /\ sockets' = 0
  <2>1. CloseSocket
    BY DEF Arm, Abort
  <2>2. CASE sock = TRUE /\ sockets = 1
    BY <2>1, <2>2 DEF CloseSocket
  <2>3. CASE sock = FALSE /\ sockets = 0
    BY <2>1, <2>3 DEF CloseSocket
  <2> QED BY <2>2, <2>3, SocketOfProbe
<1>3. TypeOK'
  <2>1. queue' \in Seq(Server) /\ Len(queue') <= QueueMax
    BY <1>1, WebHostsType
  <2> QED BY <1>1, <1>2, <2>1 DEF TypeOK
<1> QED BY <1>1, <1>2, <1>3 DEF ProbeHasSlot, OneSocket, OneResultPerHost, ReplyFromHost

LEMMA TakeNextKeepsInv ==
  ASSUME Inv, TakeNext
  PROVE  Inv'
<1> USE ServiceProbeAssumption DEF Inv
<1> DEFINE ip == Head(queue)[1]
           port == Head(queue)[2]
<1>1. Head(queue) \in Server /\ queue' \in Seq(Server) /\ Len(queue') <= QueueMax
  <2>1. queue \in Seq(Server) /\ queue # <<>> /\ Len(queue) <= QueueMax
    BY DEF TakeNext, TypeOK
  <2> QED BY <2>1, HeadTailProperties DEF TakeNext
<1>2. ip \in HostIps /\ port \in WebPorts /\ Head(queue) = <<ip, port>>
  BY <1>1 DEF Server
<1>3. /\ current' = Head(queue) /\ slot' = SlotFor(ip) /\ recvLen' = 0 /\ arms' = arms
      /\ results' = ClearSlot(slot', ip, port)
  BY DEF TakeNext
<1>4. slot' \in 1..(Len(results) + 1) /\ slot' <= MaxResults
  BY <1>2, <1>3, SlotForType
<1>5. \A i \in 1..Len(results) : i # slot' => results[i].ip # ip
  BY <1>2, <1>3, SlotForType
<1>6. /\ results' \in Seq(Result)
      /\ Len(results') = IF slot' > Len(results) THEN slot' ELSE Len(results)
      /\ results'[slot'] = [ip |-> ip, port |-> port, reply |-> None]
      /\ \A j \in 1..Len(results) : j # slot' => results'[j] = results[j]
  BY <1>2, <1>3, <1>4, ClearSlotProperties
<1>7. Len(results) \in Nat /\ Len(results) <= MaxResults
  BY DEF TypeOK
<1>8. /\ Len(results') \in Nat /\ Len(results') <= MaxResults /\ slot' \in 1..Len(results')
      /\ \A j \in 1..Len(results') : j # slot' => j \in 1..Len(results)
  BY <1>4, <1>6, <1>7
<1>9. UNCHANGED <<state, timeLeft, sock, sockets>> /\ pc = "begin" /\ pc' = "create"
  BY DEF TakeNext
<1>10. state = "idle"
  BY <1>9 DEF ProbeHasSlot
<1>11. TypeOK'
  <2>1. current' \in Server /\ current' # None
    BY <1>1, <1>3
  <2>2. timeLeft' \in 0..ConnectTime \/ timeLeft' \in 0..RecvTime
    BY <1>9 DEF TypeOK
  <2>3. state' \in {"idle", "connecting", "receiving"} /\ sock' \in BOOLEAN /\ sockets' \in Nat
    BY <1>9 DEF TypeOK
  <2>4. slot' \in 0..Len(results') /\ slot' # 0
    BY <1>8
  <2>5. recvLen' \in 0..Pieces /\ arms' \in 0..MaxArms
    BY <1>3 DEF TypeOK
  <2> QED BY <1>1, <1>6, <1>8, <1>9, <2>1, <2>2, <2>3, <2>4, <2>5 DEF TypeOK
<1>12. ProbeHasSlot' /\ OneSocket'
  <2>1. current' # None /\ current'[1] = ip /\ current'[2] = port
    BY <1>1, <1>3
  <2>2. results'[slot'].ip = ip /\ results'[slot'].port = port
    BY <1>6
  <2>3. ProbeHasSlot'
    BY <1>8, <1>9, <1>10, <2>1, <2>2 DEF ProbeHasSlot
  <2>4. OneSocket'
    BY <1>9, <1>10 DEF OneSocket
  <2> QED BY <2>3, <2>4
<1>13. OneResultPerHost'
  <2>1. results'[slot'].ip = ip
    BY <1>6
  <2>2. \A j \in 1..Len(results') : j # slot' => /\ j \in 1..Len(results)
                                                 /\ results'[j].ip = results[j].ip
                                                 /\ results[j].ip # ip
    BY <1>5, <1>6, <1>8
  <2> QED BY <1>8, <2>1, <2>2 DEF OneResultPerHost
<1>14. ReplyFromHost'
  <2>1. results'[slot'].reply = None
    BY <1>6
  <2> QED BY <1>6, <1>8, <2>1 DEF ReplyFromHost
<1> QED BY <1>11, <1>12, <1>13, <1>14

(* The calls that set the socket up: each leads to the next one, or gives  *)
(* the socket up.                                                          *)
LEMMA StartKeepsInv ==
  ASSUME Inv, StartProbe
  PROVE  Inv'
<1> USE ServiceProbeAssumption DEF Inv
<1>1. UNCHANGED <<queue, results, current, slot, recvLen, arms>> /\ pc \in SetupCalls
  BY DEF StartProbe, CreateSocket, SetOption, SetAddress, Connect, SetupCalls
<1>2. state = "idle" /\ slot \in 1..Len(results) /\ current # None
  BY <1>1 DEF ProbeHasSlot, SetupCalls
<1>3. CASE pc' = "begin" /\ UNCHANGED <<state, timeLeft>>
  <2>1. sock' = FALSE /\ sockets' = 0
    <3>1. CASE pc = "create"
      <4>1. UNCHANGED <<sock, sockets>>
        BY <1>3, <3>1 DEF StartProbe, CreateSocket, SetOption, SetAddress, Connect, Proceeds,
                          KeepSocket
      <4>2. sock = FALSE /\ sockets = 0
        BY <1>2, <3>1, SocketOfProbe
      <4> QED BY <4>1, <4>2
    <3>2. CASE pc # "create"
      <4>1. CloseSocket
        BY <1>3, <3>2 DEF StartProbe, CreateSocket, SetOption, SetAddress, Connect, ConnectFails,
                          Proceeds
      <4>2. sock = TRUE /\ sockets = 1
        BY <1>1, <3>2, SocketOfProbe DEF SetupCalls
      <4> QED BY <4>1, <4>2 DEF CloseSocket
    <3> QED BY <3>1, <3>2
  <2>2. TypeOK'
    BY <1>1, <1>3, <2>1 DEF TypeOK
  <2> QED BY <1>1, <1>2, <1>3, <2>1, <2>2
          DEF ProbeHasSlot, OneSocket, OneResultPerHost, ReplyFromHost, SetupCalls
<1>4. CASE pc' \in {"option", "address", "connect"} /\ UNCHANGED <<state, timeLeft>>
  <2>1. sock' = TRUE /\ sockets' = 1
    <3>1. CASE pc = "create"
      <4>1. sock' = TRUE /\ sockets' = sockets + 1
        BY <1>4, <3>1 DEF StartProbe, CreateSocket, SetOption, SetAddress, Connect, Proceeds
      <4>2. sockets = 0
        BY <1>2, <3>1, SocketOfProbe
      <4> QED BY <4>1, <4>2
    <3>2. CASE pc # "create"
      <4>1. UNCHANGED <<sock, sockets>>
        BY <1>4, <3>2 DEF StartProbe, CreateSocket, SetOption, SetAddress, Connect, ConnectFails,
                          Proceeds, KeepSocket
      <4>2. sock = TRUE /\ sockets = 1
        BY <1>1, <3>2, SocketOfProbe DEF SetupCalls
      <4> QED BY <4>1, <4>2
    <3> QED BY <3>1, <3>2
  <2>2. TypeOK'
    BY <1>1, <1>4, <2>1 DEF TypeOK
  <2> QED BY <1>1, <1>2, <1>4, <2>1, <2>2
          DEF ProbeHasSlot, OneSocket, OneResultPerHost, ReplyFromHost, SetupCalls
<1>5. CASE pc = "connect" /\ state' = "connecting" /\ timeLeft' = ConnectTime
           /\ Proceeds("idle")
  <2>1. pc' = "idle" /\ sock' = TRUE /\ sockets' = 1
    <3>1. pc' = "idle" /\ UNCHANGED <<sock, sockets>>
      BY <1>5 DEF Proceeds, KeepSocket
    <3>2. sock = TRUE /\ sockets = 1
      BY <1>5, SocketOfProbe
    <3> QED BY <3>1, <3>2
  <2>2. TypeOK'
    BY <1>1, <1>2, <1>5, <2>1 DEF TypeOK
  <2>3. ProbeHasSlot'
    BY <1>1, <1>5, <2>1 DEF ProbeHasSlot, SetupCalls
  <2> QED BY <1>1, <1>5, <2>1, <2>2, <2>3 DEF OneSocket, OneResultPerHost, ReplyFromHost
<1> QED BY <1>3, <1>4, <1>5 DEF StartProbe, CreateSocket, SetOption, SetAddress, Connect,
                                ConnectFails, Proceeds

LEMMA BeginNothingKeepsInv ==
  ASSUME Inv, BeginNothing \/ TickIdle
  PROVE  Inv'
<1> USE DEF Inv
<1>1. UNCHANGED <<queue, results, state, current, slot, timeLeft, recvLen, sock, sockets, arms>>
      /\ pc' \in {"idle", "begin"} /\ state = "idle" /\ pc \in {"idle", "begin"}
  BY DEF BeginNothing, TickIdle, ProbeHasSlot
<1>2. TypeOK'
  BY <1>1 DEF TypeOK
<1>3. ProbeHasSlot'
  BY <1>1 DEF ProbeHasSlot, SetupCalls
<1> QED BY <1>1, <1>2, <1>3 DEF OneSocket, OneResultPerHost, ReplyFromHost

(* A reply goes to the slot of its probe and changes nothing else.         *)
LEMMA StoreReplyProperties ==
  ASSUME Inv, state # "idle", StoreReply
  PROVE  /\ results' \in Seq(Result) /\ Len(results') = Len(results)
         /\ \A i \in 1..Len(results) :
              /\ results'[i].ip = results[i].ip /\ results'[i].port = results[i].port
              /\ \/ results'[i].reply = results[i].reply
                 \/ results'[i].reply = <<results[i].ip, results[i].port>>
<1> DEFINE stored == [results[slot] EXCEPT !.reply = current]
<1>1. results \in Seq(Result) /\ slot \in 1..Len(results)
  BY DEF Inv, TypeOK, ProbeHasSlot
<1>2. results[slot] \in Result
  BY <1>1, ElementOfSeq
<1>3. current \in Server /\ current = <<results[slot].ip, results[slot].port>>
  <2>1. current \in Server
    BY DEF Inv, TypeOK
  <2>2. current = <<current[1], current[2]>>
    BY <2>1 DEF Server
  <2> QED BY <2>1, <2>2 DEF Inv, ProbeHasSlot
<1>4. /\ stored \in Result /\ stored.reply = current
      /\ stored.ip = results[slot].ip /\ stored.port = results[slot].port
  BY <1>2, <1>3 DEF Result
<1>5. CASE results' = results
  BY <1>1, <1>5
<1>6. CASE results' = [results EXCEPT ![slot] = stored]
  <2> HIDE DEF stored
  <2>1. /\ results' \in Seq(Result) /\ Len(results') = Len(results)
        /\ \A i \in 1..Len(results) : results'[i] = IF i = slot THEN stored ELSE results[i]
    BY <1>1, <1>4, <1>6, ExceptSeq
  <2> QED BY <1>1, <1>3, <1>4, <2>1
<1> QED BY <1>5, <1>6 DEF StoreReply

LEMMA ProbeKeepsInv ==
  ASSUME Inv, TickConnecting \/ TickReceiving
  PROVE  Inv'
<1> USE ServiceProbeAssumption DEF Inv
<1>1. UNCHANGED <<queue, current, slot, pc, arms>> /\ pc = "idle"
  BY DEF TickConnecting, TickReceiving
<1>2. state # "idle"
  BY DEF TickConnecting, TickReceiving
<1>3. \/ StoreReply /\ state' = "idle" /\ CloseSocket
      \/ UNCHANGED <<results, sock, sockets>> /\ state' \in {"connecting", "receiving"}
  BY DEF TickConnecting, TickReceiving, FinishProbe, KeepSocket
<1>4. timeLeft' \in 0..ConnectTime \/ timeLeft' \in 0..RecvTime
  <2>1. ConnectTime \in Nat /\ RecvTime \in Nat
        /\ (timeLeft \in 0..ConnectTime \/ timeLeft \in 0..RecvTime)
    BY DEF TypeOK
  <2>2. \A steps \in 1..LongestFrame : TimeAfter(steps) \in 0..timeLeft
    BY <2>1 DEF TimeAfter
  <2>3. timeLeft' = RecvTime \/ timeLeft' \in 0..timeLeft
    BY <2>2 DEF TickConnecting, TickReceiving
  <2> QED BY <2>1, <2>3
<1>5. recvLen' \in 0..Pieces
  BY DEF TickConnecting, TickReceiving, MayRecv, TypeOK
<1>6. /\ results' \in Seq(Result) /\ Len(results') = Len(results)
      /\ \A i \in 1..Len(results) :
           /\ results'[i].ip = results[i].ip /\ results'[i].port = results[i].port
           /\ \/ results'[i].reply = results[i].reply
              \/ results'[i].reply = <<results[i].ip, results[i].port>>
  BY <1>2, <1>3, StoreReplyProperties DEF TypeOK
<1>7. OneSocket' /\ sockets' \in Nat /\ sock' \in BOOLEAN
  <2>1. sock = TRUE /\ sockets = 1
    BY <1>2, SocketOfProbe
  <2>2. CASE state' = "idle" /\ CloseSocket
    <3>1. sock' = FALSE /\ sockets' = 0
      BY <2>1, <2>2 DEF CloseSocket
    <3> QED BY <1>1, <2>2, <3>1 DEF OneSocket
  <2>3. CASE UNCHANGED <<sock, sockets>> /\ state' \in {"connecting", "receiving"}
    <3>1. sock' = TRUE /\ sockets' = 1
      BY <2>1, <2>3
    <3> QED BY <2>3, <3>1 DEF OneSocket
  <2> QED BY <1>3, <2>2, <2>3
<1>8. slot \in 1..Len(results) /\ slot' = slot /\ current' = current
  BY <1>1, <1>2 DEF ProbeHasSlot
<1>9. TypeOK'
  BY <1>1, <1>2, <1>3, <1>4, <1>5, <1>6, <1>7 DEF TypeOK
<1>10. ProbeHasSlot'
  BY <1>1, <1>2, <1>6, <1>8 DEF ProbeHasSlot
<1>11. OneResultPerHost'
  BY <1>6 DEF OneResultPerHost
<1>12. ReplyFromHost'
  BY <1>6 DEF ReplyFromHost
<1> QED BY <1>7, <1>9, <1>10, <1>11, <1>12

-----------------------------------------------------------------------------
LEMMA InitHasInv == Init => Inv
<1> SUFFICES ASSUME Init PROVE Inv
  OBVIOUS
<1>1. sock = FALSE
  BY DEF Init
<1>2. TypeOK
  <2>1. sock \in BOOLEAN
    BY <1>1
  <2> QED BY <2>1, ServiceProbeAssumption DEF Init, TypeOK
<1>3. ProbeHasSlot /\ OneSocket /\ OneResultPerHost /\ ReplyFromHost
  BY <1>1, ServiceProbeAssumption
     DEF Init, ProbeHasSlot, SetupCalls, OneSocket, OneResultPerHost, ReplyFromHost
<1> QED BY <1>2, <1>3 DEF Inv

LEMMA StepKeepsInv == Inv /\ [Next]_vars => Inv'
<1> SUFFICES ASSUME Inv, [Next]_vars PROVE Inv'
  OBVIOUS
<1>1. CASE UNCHANGED vars
  <2>1. UNCHANGED <<queue, results, state, current, slot, timeLeft, recvLen, sock, pc, sockets,
                    arms>>
    BY <1>1 DEF vars
  <2>2. TypeOK'
    BY <2>1 DEF Inv, TypeOK
  <2> QED BY <2>1, <2>2 DEF Inv, ProbeHasSlot, OneSocket, OneResultPerHost, ReplyFromHost
<1> QED BY <1>1, ArmKeepsInv, TakeNextKeepsInv, StartKeepsInv, BeginNothingKeepsInv, ProbeKeepsInv
        DEF Next, Tick

LEMMA Invariance == Spec => []Inv
  BY InitHasInv, StepKeepsInv, PTL DEF Spec

(***************************************************************************)
(* Every variable of the prober stays in its type: the queue and the       *)
(* results in their arrays, the slot of a probe under way among the        *)
(* results, the reply in its buffer.                                       *)
(***************************************************************************)
THEOREM TypeCorrect == Spec => []TypeOK
<1>1. Inv => TypeOK
  BY DEF Inv
<1> QED BY <1>1, Invariance, PTL

(***************************************************************************)
(* The probe under way, or being set up, has its socket, and no other one  *)
(* is open, whichever call of begin_next_probe fails, however a probe ends *)
(* and whenever arm aborts it.                                             *)
(***************************************************************************)
THEOREM SocketIsOne == Spec => []OneSocket
<1>1. Inv => OneSocket
  BY DEF Inv
<1> QED BY <1>1, Invariance, PTL

(***************************************************************************)
(* A host has one result, whatever is armed, overwritten and armed again.  *)
(***************************************************************************)
THEOREM ResultsAreDistinct == Spec => []OneResultPerHost
<1>1. Inv => OneResultPerHost
  BY DEF Inv
<1> QED BY <1>1, Invariance, PTL

(***************************************************************************)
(* A banner is kept with the host and port that sent it.                   *)
(***************************************************************************)
THEOREM RepliesAreOwn == Spec => []ReplyFromHost
<1>1. Inv => ReplyFromHost
  BY DEF Inv
<1> QED BY <1>1, Invariance, PTL
=============================================================================
