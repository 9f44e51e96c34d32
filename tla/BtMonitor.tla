----------------------------- MODULE BtMonitor ------------------------------
(***************************************************************************)
(* Bluetooth (bt_monitor.c): the main loop polls the controller's events   *)
(* each frame, and once more when SELECT is pressed on the BT screen, into *)
(* a list of the latest events and one of the devices discovered; TRIANGLE *)
(* starts and stops an inquiry (main.c:310, 585-599).                      *)
(*                                                                         *)
(* The controller is external: it has up to BatchMax events for a poll,    *)
(* knows some paired devices and may refuse a call.  Abstractions: an      *)
(* event is its address; the type of a device is whether it is that of a   *)
(* paired one; the error code and the times are only shown and left out,   *)
(* so whether the paired list is due for its refresh is any choice.        *)
(***************************************************************************)
EXTENDS Naturals, Sequences, FiniteSets, SequencesExt

CONSTANTS Macs,
          MaxPaired,  \* BT_MONITOR_MAX_PAIRED (8)
          MaxEvents,  \* BT_MONITOR_MAX_EVENTS (24)
          BatchMax,   \* events read by a poll (4)
          MaxHeard    \* bound: events

ASSUME BtAssumption ==
  MaxPaired \in Nat /\ MaxEvents \in Nat \ {0} /\ BatchMax \in Nat /\ MaxHeard \in Nat

VARIABLES
  available, enabled,  \* api_available, bt_enabled
  inquiry,             \* inquiry_running
  paired,              \* addresses of the paired devices
  events,              \* addresses of the latest events
  discovered,          \* mac, typed: records in the order of discovery
  heard                \* history: the address of every event

btVars == <<available, enabled, inquiry, paired, events, discovered, heard>>

BtInit ==  \* bt_monitor_init
  /\ available = FALSE /\ enabled = FALSE /\ inquiry = FALSE
  /\ paired = {} /\ events = <<>> /\ discovered = <<>>
  /\ heard = <<>>

-----------------------------------------------------------------------------
\* The oldest goes when the list is full.
Enter(list, entry) == IF Len(list) >= MaxEvents THEN Append(Tail(list), entry)
                                                ELSE Append(list, entry)

MacsOf(list) == {list[i].mac : i \in 1 .. Len(list)}

Discover_Latest(list, mac, known) ==                            \* mutant
  IF list # <<>> /\ Last(list).mac = mac
    THEN list ELSE Enter(list, [mac |-> mac, typed |-> mac \in known])
Discover(list, mac, known) ==
  IF mac \in MacsOf(list) THEN list ELSE Enter(list, [mac |-> mac, typed |-> mac \in known])

Lists == [events |-> events, discovered |-> discovered]

\* push_event
PushEvent(lists, mac, known) == [events |-> Enter(lists.events, mac),
                                 discovered |-> Discover(lists.discovered, mac, known)]

\* The lists after the events of a poll, in order.
Pushed(batch, known) ==
  LET after[n \in 0 .. Len(batch)] ==
        IF n = 0 THEN Lists ELSE PushEvent(after[n - 1], batch[n], known)
  IN after[Len(batch)]

Push(batch, known) ==
  /\ events' = Pushed(batch, known).events
  /\ discovered' = Pushed(batch, known).discovered
  /\ heard' = heard \o batch

\* refresh_paired
Registered == {some \in SUBSET Macs : Cardinality(some) <= MaxPaired}
Refresh == paired' \in Registered

\* bt_monitor_poll
NoConfiguration ==
  /\ available' = FALSE /\ enabled' = FALSE
  /\ UNCHANGED <<inquiry, paired, events, discovered, heard>>

BtPoll ==
  /\ available' = TRUE /\ enabled' \in BOOLEAN
  /\ Refresh \/ UNCHANGED paired
  /\ \/ UNCHANGED <<events, discovered, heard>>  \* events cannot be read
     \/ \E batch \in BoundedSeq(Macs, BatchMax) :
          /\ Len(heard) + Len(batch) <= MaxHeard
          /\ Push(batch, paired')
  /\ UNCHANGED inquiry

\* bt_monitor_set_inquiry, by the button; a call that is refused changes nothing.
SetInquiry ==
  /\ inquiry' = ~inquiry
  /\ UNCHANGED <<available, enabled, paired, events, discovered, heard>>

BtNext == NoConfiguration \/ BtPoll \/ SetInquiry

BtSpec == BtInit /\ [][BtNext]_btVars

-----------------------------------------------------------------------------
\* When a device was heard first, and as which device that was.
FirstTimes(list) == {i \in 1 .. Len(list) : \A j \in 1 .. i - 1 : list[j] # list[i]}
RankIn(times, i) == Cardinality({j \in times : j <= i})

LatestHeard == SubSeq(heard, IF Len(heard) > MaxEvents THEN Len(heard) - MaxEvents + 1 ELSE 1,
                      Len(heard))

(* The two lists tell what was heard, whatever polls failed in between:    *)
(* the events are the latest ones in order; no device is discovered twice, *)
(* nor one that was not heard; and while the devices heard fit, all are    *)
(* there in the order they were first heard (bt_monitor.c:94-139).         *)
ListsTellWhatWasHeard ==
  /\ events = LatestHeard
  /\ \A i, j \in 1 .. Len(discovered) : discovered[i].mac = discovered[j].mac => i = j
  /\ MacsOf(discovered) \subseteq ToSet(heard)
  /\ Cardinality(FirstTimes(heard)) <= MaxEvents =>
       /\ Len(discovered) = Cardinality(FirstTimes(heard))
       /\ \A i \in FirstTimes(heard) :
            discovered[RankIn(FirstTimes(heard), i)].mac = heard[i]
=============================================================================
