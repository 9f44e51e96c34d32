---------------------------- MODULE ServiceProbe ----------------------------
(***************************************************************************)
(* The HTTP banner prober (service_probe.c).  service_probe_arm fills a    *)
(* queue with the web hosts of the last scan; service_probe_tick, called   *)
(* once per frame, takes them one by one: connect, send a request, collect *)
(* the reply, store it in the slot of the host.                            *)
(*                                                                         *)
(* begin_next_probe takes the next host and sets its socket up call by     *)
(* call; each exit gives up what it gives up in the code and goes on with  *)
(* the host after that (pc = "begin").  arm waits for the end of the tick. *)
(*                                                                         *)
(* Abstractions.  queue is what q_head has left of the arrays, so          *)
(* pending_count is its length.  A reply is named by the server that sent  *)
(* it; its parsed fields are left out.  Deadlines are counted in the clock *)
(* steps that remain, and a frame takes at least one.  The reply buffer is *)
(* counted in Pieces.  last_error is written and never read: left out.     *)
(***************************************************************************)
EXTENDS Naturals, Sequences, FiniteSets

CONSTANTS HostLists,    \* host tables arm may be given: sequences of hosts
          WebPorts,     \* 80 and 8080
          None,         \* no reply
          QueueMax,     \* LAN_SCANNER_MAX_HOSTS (128)
          MaxResults,   \* SERVICE_PROBE_MAX_RESULTS (128)
          ConnectTime,  \* SP_CONNECT_TIMEOUT_US, in clock steps
          RecvTime,     \* SP_RECV_TIMEOUT_US, in clock steps
          LongestFrame, \* bound: the clock steps one frame can take
          Pieces,       \* capacity of recv_buf
          MaxArms       \* bound: calls of arm

HostIps == UNION {{list[i].ip : i \in 1..Len(list)} : list \in HostLists}
Server == HostIps \X WebPorts

ASSUME ServiceProbeAssumption ==
  /\ QueueMax \in Nat /\ MaxResults \in Nat /\ ConnectTime \in Nat /\ RecvTime \in Nat
  /\ LongestFrame \in Nat /\ Pieces \in Nat /\ MaxArms \in Nat
  /\ MaxResults > 0 /\ ConnectTime > 0 /\ RecvTime > 0 /\ LongestFrame > 0
  /\ None \notin Server
  /\ \A list \in HostLists :
       Len(list) \in Nat /\ \A i \in 1..Len(list) : Len(list[i].ports) \in Nat

VARIABLES
  queue,     \* q_ips and q_ports from q_head on
  results,   \* metrics.results, a sequence of probed_count records
  state,     \* "idle", "connecting" or "receiving"
  current,   \* cur_ip and cur_port
  slot,      \* cur_slot, from 1
  timeLeft,  \* clock steps before deadline_us
  recvLen,
  sock,      \* sock >= 0
  pc,        \* "idle", or the next call of begin_next_probe
  sockets,   \* history: sockets created and not closed
  arms       \* history: calls of arm

vars == <<queue, results, state, current, slot, timeLeft, recvLen, sock, pc, sockets, arms>>

Result == [ip : HostIps, port : WebPorts, reply : Server \union {None}]

Init ==  \* service_probe_init
  /\ queue = <<>> /\ results = <<>>
  /\ state = "idle" /\ current = None /\ slot = 0 /\ timeLeft = 0 /\ recvLen = 0
  /\ sock = FALSE /\ pc = "idle" /\ sockets = 0 /\ arms = 0

CloseSocket == /\ sock' = FALSE
               /\ sockets' = IF sock THEN sockets - 1 ELSE sockets
KeepSocket  == UNCHANGED <<sock, sockets>>

-----------------------------------------------------------------------------
(* service_probe_arm: abort the probe under way and queue the hosts that   *)
(* are alive and have a web port, each with the first one in its list of   *)
(* open ports.                                                             *)

IsWeb(port) == port \in WebPorts
WebPortsOf(host) == {j \in 1..Len(host.ports) : IsWeb(host.ports[j])}
IsWebHost(host) == host.alive /\ WebPortsOf(host) # {}

FirstWebPort(host) ==
  host.ports[CHOOSE j \in WebPortsOf(host) : \A k \in WebPortsOf(host) : j <= k]

\* The k-th pair of the queue is of the k-th web host of the table.
WebHosts(list) ==
  LET found == {i \in 1..Len(list) : IsWebHost(list[i])}
      room == IF Cardinality(found) > QueueMax THEN QueueMax ELSE Cardinality(found)
      Nth(k) == CHOOSE i \in found : Cardinality({j \in found : j <= i}) = k
  IN [k \in 1..room |-> <<list[Nth(k)].ip, FirstWebPort(list[Nth(k)])>>]

Abort == state' = "idle" /\ CloseSocket

Arm(list) == /\ pc = "idle" /\ arms < MaxArms
             /\ Abort
             /\ queue' = WebHosts(list)
             /\ arms' = arms + 1
             /\ UNCHANGED <<results, current, slot, timeLeft, recvLen, pc>>

-----------------------------------------------------------------------------
(* begin_next_probe.                                                       *)

SlotsOf_AllButLast(ip) == {i \in 1..(Len(results) - 1) :        \* mutant
                             results[i].ip = ip}
SlotsOf(ip) == {i \in 1..Len(results) : results[i].ip = ip}

RoomForResult == Len(results) < MaxResults

SlotFor(ip) == IF SlotsOf(ip) # {} THEN CHOOSE i \in SlotsOf(ip) : TRUE
               ELSE IF RoomForResult THEN Len(results) + 1
               ELSE 1

ClearSlot(i, ip, port) ==
  [j \in 1..(IF i > Len(results) THEN i ELSE Len(results)) |->
     IF j = i THEN [ip |-> ip, port |-> port, reply |-> None] ELSE results[j]]

TakeNext ==
  /\ pc = "begin" /\ queue # <<>>
  /\ queue' = Tail(queue)
  /\ current' = Head(queue)
  /\ slot' = SlotFor(current'[1])
  /\ results' = ClearSlot(slot', current'[1], current'[2])
  /\ recvLen' = 0
  /\ pc' = "create"
  /\ UNCHANGED <<state, timeLeft, sock, sockets, arms>>

Proceeds(call) == pc' = call /\ KeepSocket

CreateSocket ==
  /\ pc = "create"
  /\ \/ Proceeds("begin")                                  \* skip, try next
     \/ pc' = "option" /\ sock' = TRUE /\ sockets' = sockets + 1
  /\ UNCHANGED <<state, timeLeft>>

SetOption ==
  /\ pc = "option"
  /\ \/ CloseSocket /\ pc' = "begin"
     \/ Proceeds("address")
  /\ UNCHANGED <<state, timeLeft>>

SetAddress ==
  /\ pc = "address"
  /\ \/ CloseSocket /\ pc' = "begin"
     \/ Proceeds("connect")
  /\ UNCHANGED <<state, timeLeft>>

ConnectFails_Leaks ==                                           \* mutant
  sock' = FALSE /\ UNCHANGED sockets /\ pc' = "begin" /\ UNCHANGED <<state, timeLeft>>
ConnectFails == CloseSocket /\ pc' = "begin" /\ UNCHANGED <<state, timeLeft>>

Connect ==
  /\ pc = "connect"
  /\ \/ ConnectFails
     \/ state' = "connecting" /\ timeLeft' = ConnectTime /\ Proceeds("idle")

StartProbe == /\ CreateSocket \/ SetOption \/ SetAddress \/ Connect
              /\ UNCHANGED <<queue, results, current, slot, recvLen, arms>>

BeginNothing == /\ pc = "begin" /\ queue = <<>>
                /\ state' = "idle" /\ pc' = "idle"
                /\ UNCHANGED <<queue, results, current, slot, timeLeft, recvLen, sock, sockets,
                               arms>>

-----------------------------------------------------------------------------
(* service_probe_tick.                                                     *)

TickIdle == /\ pc = "idle" /\ state = "idle" /\ queue # <<>>
            /\ pc' = "begin"
            /\ UNCHANGED <<queue, results, state, current, slot, timeLeft, recvLen, sock,
                           sockets, arms>>

StoreReply_LastSlot ==                                          \* mutant
  results' = IF recvLen' > 0 THEN [results EXCEPT ![Len(results)].reply = current] ELSE results
StoreReply ==
  results' = IF recvLen' > 0 THEN [results EXCEPT ![slot].reply = current] ELSE results

FinishProbe == /\ StoreReply
               /\ CloseSocket
               /\ state' = "idle"

TimeAfter_Wraps(steps) ==                                       \* mutant
  (timeLeft + RecvTime + 1 - steps) % (RecvTime + 1)
TimeAfter(steps) == IF timeLeft > steps THEN timeLeft - steps ELSE 0

TickConnecting ==
  /\ pc = "idle" /\ state = "connecting"
  /\ \E steps \in 1..LongestFrame :
       \/ \* the deadline has passed, or the connection failed
          /\ recvLen' = recvLen /\ FinishProbe
          /\ timeLeft' = TimeAfter(steps)
       \/ \* still connecting
          /\ TimeAfter(steps) > 0
          /\ timeLeft' = TimeAfter(steps)
          /\ UNCHANGED <<results, state, recvLen>> /\ KeepSocket
       \/ \* connected: send the request
          /\ TimeAfter(steps) > 0
          /\ state' = "receiving" /\ timeLeft' = RecvTime /\ recvLen' = 0
          /\ UNCHANGED results /\ KeepSocket
  /\ UNCHANGED <<queue, current, slot, pc, arms>>

MayRecv == timeLeft' > 0 /\ recvLen < Pieces

TickReceiving ==
  /\ pc = "idle" /\ state = "receiving"
  /\ \E steps \in 1..LongestFrame : timeLeft' = TimeAfter(steps)
  /\ \/ \* the deadline, a full buffer, the end of the stream or an error
        recvLen' = recvLen /\ FinishProbe
     \/ \* the end of the headers
        MayRecv /\ recvLen' = recvLen + 1 /\ FinishProbe
     \/ \* more bytes
        MayRecv /\ recvLen' = recvLen + 1 /\ UNCHANGED <<results, state>> /\ KeepSocket
     \/ \* nothing to read yet
        MayRecv /\ recvLen' = recvLen /\ UNCHANGED <<results, state>> /\ KeepSocket
  /\ UNCHANGED <<queue, current, slot, pc, arms>>

-----------------------------------------------------------------------------
Tick == TickIdle \/ TakeNext \/ StartProbe \/ BeginNothing \/ TickConnecting \/ TickReceiving

Next == Tick \/ \E list \in HostLists : Arm(list)

Spec == Init /\ [][Next]_vars

\* The main loop calls service_probe_tick on every frame.
FairSpec == Spec /\ WF_vars(Tick)

-----------------------------------------------------------------------------
TypeOK ==
  /\ queue \in Seq(Server) /\ Len(queue) <= QueueMax
  /\ results \in Seq(Result) /\ Len(results) <= MaxResults
  /\ state \in {"idle", "connecting", "receiving"}
  /\ current \in Server \union {None}
  /\ slot \in 0..Len(results) /\ (state # "idle" => slot # 0 /\ current # None)
  /\ timeLeft \in 0..ConnectTime \/ timeLeft \in 0..RecvTime
  /\ recvLen \in 0..Pieces
  /\ sock \in BOOLEAN /\ sockets \in Nat /\ arms \in 0..MaxArms
  /\ pc \in {"idle", "begin", "create", "option", "address", "connect"}

(***************************************************************************)
(* The probe has exactly one socket, the one sock names, while it is being *)
(* set up, connecting or receiving, and none otherwise, however a probe    *)
(* ends: finished, timed out, given up at any call that sets it up, or     *)
(* aborted by arm in the middle.                                           *)
(***************************************************************************)
OneSocket ==
  LET busy == state # "idle" \/ pc \in {"option", "address", "connect"}
  IN  IF busy THEN sock /\ sockets = 1 ELSE ~sock /\ sockets = 0

(***************************************************************************)
(* A host has one result, however often it is armed and whichever slots    *)
(* were overwritten, and the results stay in their array                   *)
(* (begin_next_probe).                                                     *)
(***************************************************************************)
OneResultPerHost ==
  /\ Len(results) <= MaxResults
  /\ \A i, j \in 1..Len(results) : results[i].ip = results[j].ip => i = j

(***************************************************************************)
(* The banner shown for a host was sent by that host, on the port kept     *)
(* with it: a reply is stored in the slot its probe began with, although   *)
(* arm may have replaced the queue, and other probes the table, since.     *)
(***************************************************************************)
ReplyFromHost ==
  \A i \in 1..Len(results) :
    results[i].reply # None => results[i].reply = <<results[i].ip, results[i].port>>

(***************************************************************************)
(* What arm queued is all tried, whatever the hosts do: each probe ends by *)
(* one of its deadlines, and a probe that cannot start makes room for the  *)
(* next.  Arms must end, since each one starts again from the first host.  *)
(***************************************************************************)
QueueDrains == (queue # <<>>) ~> (queue = <<>> /\ state = "idle" /\ pc = "idle")
=============================================================================
