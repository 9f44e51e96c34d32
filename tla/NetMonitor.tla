----------------------------- MODULE NetMonitor -----------------------------
(***************************************************************************)
(* The state of the network (net_monitor.c): polled by the main loop eight *)
(* times a second from the SDK's network control, which is external, with  *)
(* the signal's history and extremes and the time connected.  The address  *)
(* and the default route become the hints of the scanner (main.c:267-272). *)
(*                                                                         *)
(* Abstractions.  The other texts and the channel are handled as these two *)
(* are and only shown: left out, with the two floating-point averages.     *)
(* Times are in ticks, Second of them a second; a poll may come late.      *)
(***************************************************************************)
EXTENDS Integers, Sequences, SequencesExt

CONSTANTS Addresses, Routes,
          RawSignals, \* what the SDK can give as rssi_dbm
          NA,         \* "N/A"
          Failed,     \* a query that fails
          Capacity,   \* NETMON_HISTORY_CAPACITY (480)
          Second,     \* ticks in a second (1000000)
          MaxPolls,   \* bound: polls
          MaxDelay    \* bound: ticks between polls

ASSUME NetAssumption ==
  /\ NA \notin Addresses \union Routes /\ Failed \notin Addresses \union Routes \union Int
  /\ RawSignals \subseteq Int
  /\ Capacity \in Nat \ {0} /\ Second \in Nat \ {0}
  /\ MaxPolls \in Nat /\ MaxDelay \in Nat \ {0}

VARIABLES
  netConnected,                        \* connected, of struct NetMonitor
  address, route, signal,
  history, historyHead, historyCount,
  lowest, highest, samples, since, total,
  clock,                               \* now_us of the last poll
  sampled,                             \* history: every signal recorded
  online,                              \* history: the time that began connected
  answers                              \* history: what was reported since the
                                       \* last poll that found no network

netVars == <<netConnected, address, route, signal, history, historyHead, historyCount,
             lowest, highest, samples, since, total, clock, sampled, online, answers>>

Fallback == -100
Best == -30

NetInit ==  \* net_monitor_init
  /\ netConnected = FALSE /\ address = NA /\ route = NA /\ signal = Fallback
  /\ history = [i \in 0 .. Capacity - 1 |-> 0] /\ historyHead = 0 /\ historyCount = 0
  /\ lowest = 0 /\ highest = 0 /\ samples = 0 /\ since = 0 /\ total = 0
  /\ clock = 0 /\ sampled = <<>> /\ online = 0 /\ answers = {}

-----------------------------------------------------------------------------
Lower(a, b) == IF a < b THEN a ELSE b
Higher(a, b) == IF a > b THEN a ELSE b

\* normalize_rssi_dbm
Normal(raw) == Higher(Lower(IF raw > 0 THEN -raw ELSE raw, Best), Fallback)

\* A failed query keeps the text it had.
Kept(old, answer) == IF answer = Failed THEN old ELSE answer

Down_KeepsRoute == /\ netConnected' = FALSE                     \* mutant
                   /\ address' = NA /\ route' = route
                   /\ signal' = Fallback /\ answers' = {}
Down == /\ netConnected' = FALSE
        /\ address' = NA /\ route' = NA
        /\ signal' = Fallback /\ answers' = {}

Up == /\ netConnected' = TRUE
      /\ \E ip \in Addresses \union {Failed}, gateway \in Routes \union {Failed},
            raw \in RawSignals \union {Failed} :
           /\ address' = Kept(address, ip) /\ route' = Kept(route, gateway)
           /\ signal' = IF raw = Failed THEN Fallback ELSE Normal(raw)
           /\ answers' = answers \union ({ip, gateway} \ {Failed})

\* The loss is dated by the poll that sees it.
TimeConnected_Twice(now) ==                                     \* mutant
  IF netConnected' /\ ~netConnected
    THEN since' = now /\ total' = total
    ELSE IF ~netConnected' /\ since > 0
           THEN total' = total + (now - since) /\ since' = since
           ELSE UNCHANGED <<since, total>>
TimeConnected(now) ==
  IF netConnected' /\ ~netConnected
    THEN since' = now /\ total' = total
    ELSE IF ~netConnected' /\ netConnected /\ since > 0
           THEN total' = total + (now - since) /\ since' = 0
           ELSE UNCHANGED <<since, total>>

Record ==
  /\ lowest' = IF samples = 0 THEN signal' ELSE Lower(lowest, signal')
  /\ highest' = IF samples = 0 THEN signal' ELSE Higher(highest, signal')
  /\ history' = [history EXCEPT ![historyHead] = signal']
  /\ historyHead' = (historyHead + 1) % Capacity
  /\ historyCount' = Lower(historyCount + 1, Capacity)
  /\ samples' = samples + 1

\* net_monitor_poll
NetPoll ==
  /\ samples < MaxPolls
  /\ \E now \in clock + 1 .. clock + MaxDelay :
       /\ Down \/ Up
       /\ TimeConnected(now)
       /\ online' = online + (IF netConnected THEN now - clock ELSE 0)
       /\ clock' = now
  /\ Record
  /\ sampled' = Append(sampled, signal')

NetSpec == NetInit /\ [][NetPoll]_netVars

-----------------------------------------------------------------------------
\* net_monitor_history_at
HistoryAt(i) ==
  LET oldest == (historyHead + Capacity - historyCount) % Capacity
  IN history[(oldest + i) % Capacity]

\* net_monitor_connected_uptime_s: whole seconds
Uptime(now) == IF ~netConnected \/ since = 0 THEN 0 ELSE (now - since) \div Second

(* The hints the scanner is given belong to the connection that is up:     *)
(* whatever queries fail, an address or route is shown only when it was    *)
(* reported since the network was last seen down, and none is when it is   *)
(* down (net_monitor.c:77-122).  A network that changes between two polls  *)
(* is not seen down: its predecessor's route then outlives a failed query. *)
HintsOfConnection ==
  /\ {address, route} \subseteq answers \union {NA}
  /\ ~netConnected => answers = {}

SignalHistory ==
  /\ historyCount = Lower(Len(sampled), Capacity)
  /\ \A i \in 0 .. historyCount - 1 :
       HistoryAt(i) = sampled[Len(sampled) - historyCount + i + 1]
  /\ samples > 0 => /\ lowest \in ToSet(sampled) /\ highest \in ToSet(sampled)
                    /\ \A i \in 1 .. Len(sampled) : sampled[i] \in lowest .. highest
                    /\ Fallback <= lowest /\ highest <= Best

\* At a frame, the time that polls saw connected.
SeenBy(now) == online + (IF netConnected THEN now - clock ELSE 0)
TimesAddUp ==
  /\ ~netConnected => total = online
  /\ \A now \in clock .. clock + MaxDelay :
       LET shown == total + Second * Uptime(now)
       IN shown <= SeenBy(now) /\ SeenBy(now) < shown + Second

(* What is recorded is what was sampled: the history read back, after it   *)
(* wraps too, is the latest signals in order; the extremes are those of    *)
(* all samples, polls without a network among them; and the total with the *)
(* uptime, in whole seconds, is short of the time that polls saw connected *)
(* by less than a second, at every frame and over any number of losses:    *)
(* nothing of it is lost or counted twice (net_monitor.c:42-51, 65-70,     *)
(* 132-165).                                                               *)
RecordExact == SignalHistory /\ TimesAddUp
=============================================================================
