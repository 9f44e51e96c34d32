--------------------------- MODULE AlertRingProofs --------------------------
(***************************************************************************)
(* Proofs about AlertRing, for every capacity of the ring.                 *)
(***************************************************************************)
EXTENDS AlertRing, SequenceTheorems, TLAPS

(* The indices of the ring are sums of two slots: taking them modulo the   *)
(* capacity subtracts it at most once.                                     *)
LEMMA ModBelowTwice ==
  ASSUME NEW C \in Nat, C > 0, NEW a \in Nat, a < 2 * C
  PROVE  a % C = IF a < C THEN a ELSE a - C
<1>1. CASE a < C
  BY <1>1
<1>2. CASE a >= C
  BY <1>2
<1> QED BY <1>1, <1>2

(* The slot of the i-th newest alert lies i + 1 slots before head.         *)
LEMMA SlotOfIs ==
  ASSUME TypeOK, NEW i \in 0..(count - 1)
  PROVE  /\ SlotOf(i) = IF i < head THEN head - 1 - i ELSE head - 1 - i + Capacity
         /\ SlotOf(i) \in Slots
<1> USE RingAssumption DEF TypeOK, Slots
<1>1. i \in Nat /\ i < Capacity /\ head \in Nat /\ head < Capacity
  OBVIOUS
<1>2. i % Capacity = i
  BY <1>1, ModBelowTwice
<1> DEFINE newest == (head + Capacity - 1) % Capacity
<1>3. newest = IF head = 0 THEN Capacity - 1 ELSE head - 1
  <2>1. head + Capacity - 1 \in Nat /\ head + Capacity - 1 < 2 * Capacity
    BY <1>1
  <2> QED BY <1>1, <2>1, ModBelowTwice
<1>4. newest + Capacity - i \in Nat /\ newest + Capacity - i < 2 * Capacity
  BY <1>1, <1>3
<1>5. SlotOf(i) = (newest + Capacity - i) % Capacity
  BY <1>2 DEF SlotOf
<1> HIDE DEF newest
<1>6. SlotOf(i) = IF newest + Capacity - i < Capacity THEN newest + Capacity - i ELSE newest - i
  BY <1>1, <1>3, <1>4, <1>5, ModBelowTwice
<1> QED BY <1>1, <1>3, <1>6

SlotsInOrder ==
  \A i \in 0..(count - 1) :
     SlotOf(i) = IF i < head THEN head - 1 - i ELSE head - 1 - i + Capacity

LEMMA SlotsAreInOrder == TypeOK => SlotsInOrder
  BY SlotOfIs DEF SlotsInOrder

LEMMA SlotsStayInOrder == TypeOK' => SlotsInOrder'
  BY SlotsAreInOrder, PTL

LEMMA FollowingIs ==
  ASSUME TypeOK
  PROVE  /\ Following(head) = IF head + 1 = Capacity THEN 0 ELSE head + 1
         /\ Following(head) \in Slots
<1>1. head \in Nat /\ head < Capacity /\ Capacity \in Nat
  BY RingAssumption DEF TypeOK, Slots
<1>2. Following(head) = IF head + 1 < Capacity THEN head + 1 ELSE head + 1 - Capacity
  BY <1>1, ModBelowTwice DEF Following
<1> QED BY <1>1, <1>2 DEF Slots

LEMMA StepKeepsType == TypeOK /\ [Next]_vars => TypeOK'
<1> SUFFICES ASSUME TypeOK, [Next]_vars PROVE TypeOK'
  OBVIOUS
<1> USE RingAssumption DEF TypeOK
<1>1. ASSUME NEW a \in Alerts, Push(a) PROVE TypeOK'
  <2>1. items' \in [Slots -> Alerts \union {Blank}]
    BY <1>1 DEF Push
  <2>2. head' \in Slots
    BY <1>1, FollowingIs DEF Push
  <2>3. count' \in 0..Capacity
    BY <1>1 DEF Push
  <2> QED BY <2>1, <2>2, <2>3
<1>2. CASE Clear
  BY <1>2 DEF Clear, Cleared, Slots
<1>3. CASE UNCHANGED vars
  BY <1>3 DEF vars
<1> QED BY <1>1, <1>2, <1>3 DEF Next

LEMMA InitIsTyped == Init => TypeOK
  BY RingAssumption DEF Init, Cleared, TypeOK, Slots

(***************************************************************************)
(* Type correctness: head never leaves the array, count never exceeds it.  *)
(***************************************************************************)
THEOREM TypeCorrect == Spec => []TypeOK
  BY InitIsTyped, StepKeepsType, PTL DEF Spec

(* A push becomes the newest alert and shifts every other one by one: the  *)
(* slot written is that of none of the alerts that are kept.               *)
LEMMA PushShifts ==
  ASSUME TypeOK, TypeOK', NEW a \in Alerts, Push(a)
  PROVE  /\ Get(0)' = a
         /\ \A i \in 0..(count - 1) : i + 1 < count' => Get(i + 1)' = Get(i)
<1> USE RingAssumption DEF TypeOK
<1>1. /\ head' = IF head + 1 = Capacity THEN 0 ELSE head + 1
      /\ count' = IF count < Capacity THEN count + 1 ELSE count
      /\ items' = [items EXCEPT ![head] = a]
  BY FollowingIs DEF Push
<1>2. count' > 0 /\ count' <= Capacity /\ head \in Nat /\ head < Capacity /\ head' \in Nat
  BY <1>1 DEF Slots
<1>3. \A i \in 0..(count' - 1) :
         SlotOf(i)' = IF i < head' THEN head' - 1 - i ELSE head' - 1 - i + Capacity
  BY SlotsStayInOrder DEF SlotsInOrder
<1>4. Get(0)' = a
  <2>1. SlotOf(0)' = head
    BY <1>1, <1>2, <1>3
  <2>2. Get(0)' = items'[head]
    BY <1>2, <2>1 DEF Get
  <2> QED BY <1>1, <2>2
<1>5. ASSUME NEW i \in 0..(count - 1), i + 1 < count'
      PROVE  Get(i + 1)' = Get(i)
  <2>1. SlotOf(i) = IF i < head THEN head - 1 - i ELSE head - 1 - i + Capacity
    BY SlotOfIs
  <2>2. SlotOf(i) \in Slots
    BY SlotOfIs
  <2>3. SlotOf(i + 1)' = SlotOf(i) /\ SlotOf(i) # head
    BY <1>1, <1>2, <1>3, <1>5, <2>1
  <2>4. Get(i + 1)' = items'[SlotOf(i)]
    BY <1>2, <1>5, <2>3 DEF Get
  <2>5. Get(i) = items[SlotOf(i)]
    BY <1>2, <1>5 DEF Get
  <2> QED BY <1>1, <2>2, <2>3, <2>4, <2>5
<1> QED BY <1>4, <1>5

LEMMA NoBlankInductive == TypeOK /\ NoBlankShown /\ [Next]_vars => NoBlankShown'
<1> SUFFICES ASSUME TypeOK, NoBlankShown, [Next]_vars PROVE NoBlankShown'
  OBVIOUS
<1>0. TypeOK'
  BY StepKeepsType
<1>1. ASSUME NEW a \in Alerts, Push(a) PROVE NoBlankShown'
  <2> SUFFICES ASSUME NEW i \in 0..(count' - 1) PROVE Get(i)' \in Alerts
    BY DEF NoBlankShown
  <2>1. CASE i = 0
    BY <1>0, <1>1, <2>1, PushShifts
  <2>2. CASE i # 0
    <3>1. i - 1 \in 0..(count - 1) /\ (i - 1) + 1 = i /\ i < count'
      BY <1>0, <1>1, <2>2, RingAssumption DEF Push, TypeOK
    <3>2. Get((i - 1) + 1)' = Get(i - 1)
      BY <1>0, <1>1, <3>1, PushShifts
    <3>3. Get(i - 1) \in Alerts
      BY <3>1 DEF NoBlankShown
    <3> QED BY <3>1, <3>2, <3>3
  <2> QED BY <2>1, <2>2
<1>2. CASE Clear
  BY <1>2 DEF Clear, NoBlankShown
<1>3. CASE UNCHANGED vars
  BY <1>3 DEF vars, NoBlankShown, Get, SlotOf
<1> QED BY <1>1, <1>2, <1>3 DEF Next

(***************************************************************************)
(* No screen is ever given an entry that nobody pushed.                    *)
(***************************************************************************)
THEOREM OnlyAlertsShown == Spec => []NoBlankShown
<1>1. Init => NoBlankShown
  BY DEF Init, NoBlankShown
<1> QED BY <1>1, InitIsTyped, StepKeepsType, NoBlankInductive, PTL DEF Spec

-----------------------------------------------------------------------------
Log == [i \in 1..count |-> Get(count - i)]

LogTyped == Log \in Seq(Alerts \union {Blank}) /\ Len(Log) = count

LEMMA LogIsASeq == TypeOK => LogTyped
<1> SUFFICES ASSUME TypeOK PROVE Log \in Seq(Alerts \union {Blank}) /\ Len(Log) = count
  BY DEF LogTyped
<1>1. count \in Nat
  BY RingAssumption DEF TypeOK
<1>2. \A i \in 1..count : Get(count - i) \in Alerts \union {Blank}
  <2> SUFFICES ASSUME NEW i \in 1..count PROVE Get(count - i) \in Alerts \union {Blank}
    OBVIOUS
  <2>1. count - i \in 0..(count - 1)
    BY <1>1
  <2>2. SlotOf(count - i) \in Slots
    BY <2>1, SlotOfIs
  <2> QED BY <2>2 DEF Get, TypeOK
<1>3. Log \in [1..count -> Alerts \union {Blank}]
  BY <1>2 DEF Log
<1>4. Log \in Seq(Alerts \union {Blank})
  BY <1>1, <1>3, SeqDef
<1>5. DOMAIN Log = 1..count /\ DOMAIN Log = 1..Len(Log) /\ Len(Log) \in Nat
  <2> HIDE DEF Log
  <2> QED BY <1>3, <1>4, LenProperties
<1> QED BY <1>1, <1>4, <1>5

LEMMA LogStaysASeq == TypeOK' => LogTyped'
  BY LogIsASeq, PTL

(* The log a push leaves: the new alert last, the oldest gone if full.     *)
LEMMA PushAppends ==
  ASSUME TypeOK, NEW a \in Alerts, Push(a)
  PROVE  Log' = IF Len(Log) < Capacity THEN Append(Log, a) ELSE Append(Tail(Log), a)
<1> USE RingAssumption
<1>0. TypeOK'
  <2>1. Next
    BY DEF Next
  <2> QED BY <2>1, StepKeepsType
<1> DEFINE S == Alerts \union {Blank}
           kept == IF Len(Log) < Capacity THEN Log ELSE Tail(Log)
           drop == IF count < Capacity THEN 0 ELSE 1
<1>1. Log \in Seq(S) /\ Len(Log) = count /\ Log' \in Seq(S) /\ Len(Log') = count'
  BY <1>0, LogIsASeq, LogStaysASeq DEF LogTyped
<1>2. count \in Nat /\ count <= Capacity /\ count' = count - drop + 1 /\ drop \in {0, 1}
      /\ count - drop \in Nat
  BY DEF TypeOK, Push
<1>3. kept \in Seq(S) /\ Len(kept) = count - drop
      /\ \A j \in 1..(count - drop) : kept[j] = Log[j + drop]
  <2> HIDE DEF Log
  <2>1. CASE count < Capacity
    BY <1>1, <1>2, <2>1
  <2>2. CASE ~(count < Capacity)
    <3>1. Log # <<>>
      BY <1>1, <1>2, <2>2, EmptySeq
    <3>2. Tail(Log) \in Seq(S) /\ Len(Tail(Log)) = count - 1
          /\ \A j \in 1..(count - 1) : Tail(Log)[j] = Log[j + 1]
      BY <1>1, <3>1, HeadTailProperties
    <3> QED BY <1>1, <1>2, <2>2, <3>2
  <2> QED BY <2>1, <2>2
<1>4. \A j \in 1..(count - drop) : Log'[j] = Log[j + drop]
  <2> SUFFICES ASSUME NEW j \in 1..(count - drop) PROVE Log'[j] = Log[j + drop]
    OBVIOUS
  <2>1. PICK k \in 0..(count - 1) : k = count - (j + drop)
    <3>1. count - (j + drop) \in 0..(count - 1)
      BY <1>2
    <3> QED BY <3>1
  <2>2. count' - j = k + 1 /\ k + 1 < count' /\ j \in 1..count' /\ j + drop \in 1..count
    BY <1>2, <2>1
  <2>3. Get(k + 1)' = Get(k)
    BY <1>0, <2>2, PushShifts
  <2>4. Log'[j] = Get(k + 1)'
    BY <2>2 DEF Log, Get, SlotOf
  <2>5. Log[j + drop] = Get(k)
    BY <2>1, <2>2 DEF Log
  <2> QED BY <2>3, <2>4, <2>5
<1>5. Log'[count'] = a
  <2>1. Log'[count'] = Get(count - count)'
    BY <1>2 DEF Log
  <2>2. Get(count - count)' = Get(0)'
    BY <1>2 DEF Get, SlotOf
  <2> QED BY <1>0, <2>1, <2>2, PushShifts
<1> HIDE DEF Log, kept, drop
<1>6. /\ Append(kept, a) \in Seq(S) /\ Len(Append(kept, a)) = count'
      /\ \A j \in 1..(count - drop) : Append(kept, a)[j] = kept[j]
      /\ Append(kept, a)[count'] = a
  BY <1>2, <1>3, AppendProperties DEF S
<1>7. \A j \in 1..count' : Log'[j] = Append(kept, a)[j]
  BY <1>2, <1>3, <1>4, <1>5, <1>6
<1>8. Log' = Append(kept, a)
  BY <1>1, <1>6, <1>7, SeqEqual
<1> QED BY <1>8 DEF kept

(***************************************************************************)
(* The ring implements the log: whatever its capacity and however often it *)
(* has wrapped, the screens read the last Capacity alerts in order.        *)
(***************************************************************************)
THEOREM RingImplementsLog == Spec => ImplementsLog
<1>1. Init => AsLog!Init
  BY DEF Init, AsLog!Init
<1>2. TypeOK /\ [Next]_vars => [AsLog!Next]_Log
  <2> SUFFICES ASSUME TypeOK, [Next]_vars PROVE [AsLog!Next]_Log
    OBVIOUS
  <2>1. ASSUME NEW a \in Alerts, Push(a) PROVE AsLog!Next
    BY <2>1, PushAppends DEF AsLog!Next, AsLog!Push, Log
  <2>2. CASE Clear
    BY <2>2 DEF Clear, AsLog!Next, AsLog!Clear
  <2>3. CASE UNCHANGED vars
    BY <2>3 DEF vars, Log, Get, SlotOf
  <2> QED BY <2>1, <2>2, <2>3 DEF Next
<1> QED BY <1>1, <1>2, InitIsTyped, StepKeepsType, PTL
        DEF Spec, ImplementsLog, AsLog!Spec, Log
=============================================================================
