-------------------------- MODULE LatencyProbeProofs --------------------------
(***************************************************************************)
(* Proofs about LatencyProbe, for any round trip times, every capacity of  *)
(* the ring, any number of probes and starts, and every interleaving of    *)
(* the two threads at single loads and stores.                             *)
(***************************************************************************)
EXTENDS LatencyProbe, FiniteSetTheorems, SequenceTheorems, TLAPS

(***************************************************************************)
(* While the thread works on the newest outcome, each field stands for all *)
(* outcomes or for all but that one, as tpc is past its store or not.      *)
(***************************************************************************)
Past(before) == IF tpc \in before THEN Len(outcomes) - 1 ELSE Len(outcomes)

BeforeOk == {"sent", "ok"}
BeforePushOk == BeforeOk \union {"push ok"}
BeforePushRtt == BeforePushOk \union {"push rtt"}
BeforeCount == BeforePushRtt \union {"push head", "push count"}
BeforeLast == BeforeCount \union {"last"}
BeforeMin == BeforeLast \union {"min"}
BeforeMax == BeforeMin \union {"max"}

ThreadControl ==
  /\ tpc \in BeforeMax => Len(outcomes) > 0 /\ outcome = outcomes[Len(outcomes)]
  /\ tpc \in {"ok", "last", "min", "max"} => Ok
  /\ ~threadId => tpc = "none"

CountersExact ==
  /\ probesSent = Past({"sent"})
  /\ probesOk = Cardinality(OksUpTo(Past(BeforeOk)))

LastOf(n) ==
  /\ OksUpTo(n) = {} => lastRtt = -1
  /\ OksUpTo(n) # {} => \E last \in OksUpTo(n) : /\ lastRtt = outcomes[last]
                                                 /\ \A i \in OksUpTo(n) : i <= last
MinOf(n) ==
  /\ OksUpTo(n) = {} => minRtt = -1
  /\ OksUpTo(n) # {} => \E i \in OksUpTo(n) : minRtt = outcomes[i]
  /\ \A i \in OksUpTo(n) : minRtt <= outcomes[i]
MaxOf(n) ==
  /\ OksUpTo(n) = {} => maxRtt = -1
  /\ OksUpTo(n) # {} => \E i \in OksUpTo(n) : maxRtt = outcomes[i]
  /\ \A i \in OksUpTo(n) : outcomes[i] <= maxRtt

ExtremesExact == LastOf(Past(BeforeLast)) /\ MinOf(Past(BeforeMin)) /\ MaxOf(Past(BeforeMax))

(***************************************************************************)
(* The ring: the d-th newest outcome lies d slots before the head, where   *)
(* the head counts as moved from the store of an array on.                 *)
(***************************************************************************)
Kept(n) == IF n < Capacity THEN n ELSE Capacity
Back(from, d) == IF d <= from THEN from - d ELSE from + Capacity - d
HeadOf(written) == IF tpc \in written THEN HeadAfter ELSE historyHead

RttOf(result) == IF IsOk(result) THEN result ELSE -1

OksFrom(from, n) == \A d \in 1..Kept(n) : recentOk[Back(from, d)] = IsOk(outcomes[n + 1 - d])
RttsFrom(from, n) == \A d \in 1..Kept(n) : recentRtt[Back(from, d)] = RttOf(outcomes[n + 1 - d])

RingExact ==
  /\ historyCount = Kept(Past(BeforeCount))
  /\ OksFrom(HeadOf({"push rtt", "push head"}), Past(BeforePushOk))
  /\ RttsFrom(HeadOf({"push head"}), Past(BeforePushRtt))

(***************************************************************************)
(* The reader: a count that is read again has only grown, and a quiet read *)
(* holds what the struct holds.                                            *)
(***************************************************************************)
AfterShown == {"count", "head", "loop", "done"}
AfterCount == AfterShown \ {"count"}
AfterHead == {"loop", "done"}

ReadInBounds ==
  /\ mpc \in AfterShown => shown <= historyCount
  /\ mpc \in AfterCount => 0 < count /\ shown <= count /\ count <= historyCount
  /\ mpc \in {"ok", "shown", "count", "head"} => seen = <<>>
  /\ mpc = "loop" => Len(seen) <= count
  /\ mpc = "done" => shown <= Len(seen) /\ Len(seen) <= count

QuietRead ==
  quiet =>
    /\ AtRest
    /\ mpc \in MainPcs \ {"idle", "join"} => sent = probesSent
    /\ mpc \in AfterShown \union {"shown"} => lost = probesSent - probesOk
    /\ mpc \in AfterShown => shown = historyCount
    /\ mpc \in AfterCount => count = historyCount
    /\ mpc \in AfterHead =>
         /\ head = Back(historyHead, historyCount)
         /\ \A i \in 1..Len(seen) : seen[i] = recentOk[Back(historyHead, historyCount + 1 - i)]
    /\ mpc = "done" => Len(seen) = historyCount

ThreadInv == ThreadControl /\ CountersExact /\ ExtremesExact /\ RingExact
Inv == TypeOK /\ ThreadInv /\ ReadInBounds /\ QuietRead

-----------------------------------------------------------------------------
(* Lemmas about the operators.                                             *)

LEMMA ModBelowTwice ==
  ASSUME NEW C \in Nat, C > 0, NEW a \in Nat, a < 2 * C
  PROVE  a % C = IF a < C THEN a ELSE a - C
<1>1. CASE a < C
  BY <1>1
<1>2. CASE a >= C
  BY <1>2
<1> QED BY <1>1, <1>2

LEMMA HeadAfterIs ==
  ASSUME TypeOK
  PROVE  /\ HeadAfter = IF historyHead + 1 = Capacity THEN 0 ELSE historyHead + 1
         /\ HeadAfter \in Slots
<1>1. historyHead \in Nat /\ historyHead < Capacity /\ Capacity \in Nat
  BY LatencyProbeAssumption DEF TypeOK, Slots
<1>2. HeadAfter = IF historyHead + 1 < Capacity THEN historyHead + 1
                  ELSE historyHead + 1 - Capacity
  BY <1>1, ModBelowTwice DEF HeadAfter
<1> QED BY <1>1, <1>2 DEF Slots

LEMMA BackIs ==
  ASSUME NEW from \in Slots, NEW d \in 0..Capacity
  PROVE  /\ Back(from, d) = (from + Capacity - d) % Capacity
         /\ Back(from, d) \in Slots
<1>1. /\ from \in Nat /\ from < Capacity /\ Capacity \in Nat /\ Capacity > 0
      /\ d \in Nat /\ d <= Capacity
  BY LatencyProbeAssumption DEF Slots
<1>2. from + Capacity - d \in Nat /\ from + Capacity - d < 2 * Capacity
  BY <1>1
<1>3. (from + Capacity - d) % Capacity
        = IF from + Capacity - d < Capacity THEN from + Capacity - d ELSE from - d
  BY <1>1, <1>2, ModBelowTwice
<1> QED BY <1>1, <1>3 DEF Back, Slots

(* The window of a reader is counted from its oldest slot.                 *)
LEMMA FromOldest ==
  ASSUME NEW from \in Slots, NEW size \in 1..Capacity, NEW i \in 1..size
  PROVE  (Back(from, size) + i - 1) % Capacity = Back(from, size + 1 - i)
<1>1. /\ from \in Nat /\ from < Capacity /\ Capacity \in Nat /\ Capacity > 0
      /\ size \in Nat /\ 0 < size /\ size <= Capacity
      /\ i \in Nat /\ 0 < i /\ i <= size
  BY LatencyProbeAssumption DEF Slots
<1>2. Back(from, size) = IF size <= from THEN from - size ELSE from + Capacity - size
  BY DEF Back
<1> DEFINE place == Back(from, size) + i - 1
<1>3. place \in Nat /\ place < 2 * Capacity
  BY <1>1, <1>2
<1> HIDE DEF place
<1>4. place % Capacity = IF place < Capacity THEN place ELSE place - Capacity
  BY <1>1, <1>3, ModBelowTwice
<1>5. place = Back(from, size) + i - 1
  BY DEF place
<1>6. (Back(from, size) + i - 1) % Capacity = place % Capacity
  BY <1>5
<1> QED BY <1>1, <1>2, <1>4, <1>5, <1>6 DEF Back

LEMMA OksFinite ==
  ASSUME NEW n \in Nat
  PROVE  IsFiniteSet(OksUpTo(n)) /\ Cardinality(OksUpTo(n)) \in 0..n
<1>1. OksUpTo(n) \subseteq 1..n /\ IsFiniteSet(1..n) /\ Cardinality(1..n) = n
  BY FS_Interval DEF OksUpTo
<1>2. IsFiniteSet(OksUpTo(n)) /\ Cardinality(OksUpTo(n)) <= Cardinality(1..n)
  BY <1>1, FS_Subset
<1> QED BY <1>1, <1>2, FS_CardinalityType

LEMMA OksOfNone == OksUpTo(0) = {} /\ Cardinality(OksUpTo(0)) = 0
<1>1. OksUpTo(0) = {}
  BY DEF OksUpTo
<1> QED BY <1>1, FS_EmptySet

(* One more outcome is one more answer, or none.                           *)
LEMMA OksNext ==
  ASSUME NEW n \in Nat, n > 0
  PROVE  /\ OksUpTo(n) = IF IsOk(outcomes[n]) THEN OksUpTo(n - 1) \union {n}
                         ELSE OksUpTo(n - 1)
         /\ n \notin OksUpTo(n - 1) /\ \A i \in OksUpTo(n - 1) : i \in Nat /\ i < n
         /\ Cardinality(OksUpTo(n)) = Cardinality(OksUpTo(n - 1))
                                      + IF IsOk(outcomes[n]) THEN 1 ELSE 0
<1>1. \A i : i \in 1..n <=> i \in 1..(n - 1) \/ i = n
  OBVIOUS
<1>2. OksUpTo(n) = IF IsOk(outcomes[n]) THEN OksUpTo(n - 1) \union {n} ELSE OksUpTo(n - 1)
  BY <1>1 DEF OksUpTo
<1>3. n \notin OksUpTo(n - 1) /\ \A i \in OksUpTo(n - 1) : i \in Nat /\ i < n
  BY DEF OksUpTo
<1>4. IsFiniteSet(OksUpTo(n - 1)) /\ Cardinality(OksUpTo(n - 1)) \in Nat
  BY OksFinite
<1>5. Cardinality(OksUpTo(n)) = Cardinality(OksUpTo(n - 1))
                                + IF IsOk(outcomes[n]) THEN 1 ELSE 0
  <2>1. CASE IsOk(outcomes[n])
    BY <1>2, <1>3, <1>4, <2>1, FS_AddElement
  <2>2. CASE ~IsOk(outcomes[n])
    BY <1>2, <1>4, <2>2
  <2> QED BY <2>1, <2>2
<1> QED BY <1>2, <1>3, <1>5

-----------------------------------------------------------------------------
(* Types.                                                                  *)

LEMMA CounterType ==
  ASSUME NEW value \in 0..(Width - 1)
  PROVE  (value + 1) % Width \in 0..(Width - 1)
<1>1. Width \in Nat /\ Width > 0 /\ value \in Nat /\ value < Width
  BY LatencyProbeAssumption
<1>2. (value + 1) % Width = IF value + 1 < Width THEN value + 1 ELSE value + 1 - Width
  BY <1>1, ModBelowTwice
<1> QED BY <1>1, <1>2

LEMMA ThreadKeepsType ==
  ASSUME TypeOK, ThreadControl, ThreadStep
  PROVE  TypeOK'
<1> USE LatencyProbeAssumption DEF TypeOK, Goto, Writes, Silent, stats, ring, control, thread,
                                   reader
<1>0. /\ threadId' \in BOOLEAN /\ stopRequested' \in BOOLEAN /\ running' \in BOOLEAN
      /\ quiet' \in BOOLEAN
  <2>1. running' \in {running, TRUE, FALSE} /\ quiet' \in {quiet, FALSE}
        /\ UNCHANGED <<threadId, stopRequested>>
    BY DEF ThreadStep, ThreadBegins, ThreadProbes, CountSent, CountOk, PushOk, PushRtt,
           PushHead, PushCount, StoreLast, StoreMin, StoreMax, Pause, Nap, WakeUp, ThreadEnds
  <2> QED BY <2>1, Zenon
<1>1. CASE ThreadBegins \/ ThreadEnds \/ Pause \/ Nap \/ WakeUp
  <2>1. UNCHANGED <<stats, ring, reader, outcome, outcomes, starts>>
    BY <1>1 DEF ThreadBegins, ThreadEnds, Pause, Nap, WakeUp
  <2>2. tpc' \in ThreadPcs /\ sleepLeft' \in 0..SleepSteps
    <3>1. sleepLeft \in 0..SleepSteps /\ SleepSteps \in Nat
      OBVIOUS
    <3> HIDE LatencyProbeAssumption DEF TypeOK
    <3>2. tpc' \in {"top", "ended", "sleep"} \/ (Nap /\ UNCHANGED tpc /\ tpc = "sleep")
      BY <1>1 DEF ThreadBegins, ThreadEnds, Pause, Nap, WakeUp
    <3>3. sleepLeft' \in {sleepLeft, SleepSteps} \/ (sleepLeft > 0 /\ sleepLeft' = sleepLeft - 1)
      BY <1>1 DEF ThreadBegins, ThreadEnds, Pause, Nap, WakeUp
    <3>4. tpc' \in ThreadPcs
      BY <3>2 DEF ThreadPcs
    <3>5. sleepLeft' \in 0..SleepSteps
      BY <3>1, <3>3
    <3> QED BY <3>4, <3>5
  <2> QED BY <1>0, <2>1, <2>2
<1>2. CASE ThreadProbes
  <2>1. PICK result \in Rtts \union {Failed} :
          outcome' = result /\ outcomes' = Append(outcomes, result)
    BY <1>2 DEF ThreadProbes
  <2>2. outcomes' \in Seq(Rtts \union {Failed}) /\ Len(outcomes') <= MaxProbes
    BY <1>2, <2>1 DEF ThreadProbes
  <2> QED BY <1>0, <1>2, <2>1, <2>2 DEF ThreadProbes, ThreadPcs
<1>3. CASE CountSent \/ CountOk
  BY <1>0, <1>3, CounterType DEF CountSent, CountOk, ThreadPcs
<1>4. CASE PushOk \/ PushRtt
  <2>1. Ok => outcome \in Rtts
    BY DEF Ok
  <2>2. recentOk' \in [Slots -> BOOLEAN]
    BY <1>4 DEF PushOk, PushRtt, Ok
  <2>3. recentRtt' \in [Slots -> Rtts \union {-1}]
    BY <1>4, <2>1 DEF PushOk, PushRtt
  <2> QED BY <1>0, <1>4, <2>2, <2>3 DEF PushOk, PushRtt, ThreadPcs
<1>5. CASE PushHead \/ PushCount
  <2>1. historyHead' \in Slots
    BY <1>5, HeadAfterIs DEF PushHead, PushCount
  <2>2. historyCount' \in 0..Capacity
    <3>1. historyCount \in 0..Capacity /\ Capacity \in Nat
      OBVIOUS
    <3>2. historyCount' \in {historyCount, CountAfter}
      BY <1>5 DEF PushHead, PushCount
    <3> HIDE LatencyProbeAssumption DEF TypeOK
    <3> QED BY <3>1, <3>2 DEF CountAfter
  <2>3. UNCHANGED <<stats, recentOk, recentRtt, reader, starts, outcome, outcomes, sleepLeft>>
    BY <1>5 DEF PushHead, PushCount
  <2>4. tpc' \in ThreadPcs
    BY <1>5 DEF PushHead, PushCount, ThreadPcs
  <2> QED BY <1>0, <2>1, <2>2, <2>3, <2>4
<1>6. CASE StoreLast \/ StoreMin \/ StoreMax
  <2>1. outcome \in Rtts
    BY <1>6 DEF ThreadControl, StoreLast, StoreMin, StoreMax, Ok
  <2> QED BY <1>0, <1>6, <2>1 DEF StoreLast, StoreMin, StoreMax, ThreadPcs
<1> QED BY <1>1, <1>2, <1>3, <1>4, <1>5, <1>6 DEF ThreadStep

LEMMA MainKeepsType ==
  ASSUME TypeOK, ReadInBounds, MainStep
  PROVE  TypeOK'
<1> USE LatencyProbeAssumption DEF TypeOK, Reads, stats, ring, control, thread, reader
<1>0. /\ threadId' \in BOOLEAN /\ stopRequested' \in BOOLEAN /\ running' \in BOOLEAN
      /\ quiet' \in BOOLEAN
  <2>1. threadId' \in {threadId, TRUE, FALSE} /\ stopRequested' \in {stopRequested, TRUE, FALSE}
        /\ UNCHANGED running /\ (UNCHANGED quiet \/ quiet' = AtRest)
    BY DEF MainStep, Start, StopBegins, StopJoins, ReadSent, ReadOk, ReadShown, ReadCount,
           ReadHead, ReadSlot, ReadDone, Return
  <2>2. AtRest \in BOOLEAN
    BY DEF AtRest
  <2> QED BY <2>1, <2>2, Zenon
<1>1. CASE Start \/ StopBegins \/ StopJoins
  <2>1. UNCHANGED <<stats, ring, outcome, outcomes, sleepLeft, sent, lost, shown, count, head,
                    seen>>
    BY <1>1 DEF Start, StopBegins, StopJoins
  <2>2. tpc' \in ThreadPcs /\ mpc' \in MainPcs /\ starts' \in 0..MaxStarts
    <3>1. starts \in 0..MaxStarts /\ MaxStarts \in Nat /\ tpc \in ThreadPcs
      OBVIOUS
    <3> HIDE LatencyProbeAssumption DEF TypeOK
    <3>2. tpc' \in {tpc, "begin", "none"} /\ mpc' \in {"idle", "join"}
      BY <1>1 DEF Start, StopBegins, StopJoins
    <3>3. starts' = starts \/ (starts < MaxStarts /\ starts' = starts + 1)
      BY <1>1 DEF Start, StopBegins, StopJoins
    <3>4. tpc' \in ThreadPcs /\ mpc' \in MainPcs
      BY <3>1, <3>2 DEF ThreadPcs, MainPcs
    <3>5. starts' \in 0..MaxStarts
      BY <3>1, <3>3
    <3> QED BY <3>4, <3>5
  <2> QED BY <1>0, <2>1, <2>2
<1>2. CASE ReadSent \/ ReadShown \/ ReadDone \/ Return
  <2>1. <<>> \in Seq(BOOLEAN) /\ Len(<<>>) = 0
    OBVIOUS
  <2>2. 0 \in Slots
    BY DEF Slots
  <2>3. /\ sent' \in 0..(Width - 1) /\ lost' \in 0..(Width - 1)
        /\ shown' \in 0..Capacity /\ count' \in 0..Capacity /\ head' \in Slots
        /\ seen' \in Seq(BOOLEAN) /\ Len(seen') <= Capacity
    <3>1. CASE ReadSent
      BY <3>1, <2>1, <2>2 DEF ReadSent
    <3>2. CASE ReadShown \/ ReadDone \/ Return
      <4>1. UNCHANGED <<sent, lost, head, seen>> /\ shown' \in {shown, historyCount}
            /\ count' \in {count, historyCount}
        BY <3>2 DEF ReadShown, ReadDone, Return, CountAgain
      <4> QED BY <4>1
    <3> QED BY <1>2, <3>1, <3>2
  <2>4. mpc' \in MainPcs
    BY <1>2 DEF ReadSent, ReadShown, ReadDone, Return, MainPcs
  <2>5. UNCHANGED <<stats, ring, tpc, outcome, outcomes, sleepLeft, starts>>
    BY <1>2 DEF ReadSent, ReadShown, ReadDone, Return
  <2> QED BY <1>0, <2>3, <2>4, <2>5
<1>3. CASE ReadOk
  <2>1. (sent - probesOk) % Width \in 0..(Width - 1)
    OBVIOUS
  <2> QED BY <1>0, <1>3, <2>1 DEF ReadOk, MainPcs
<1>4. CASE ReadCount
  BY <1>0, <1>4 DEF ReadCount, CountAgain, MainPcs
<1>5. CASE ReadHead
  <2>1. count' \in 0..Capacity
    BY <1>5 DEF ReadHead, CountAgain
  <2>2. head' \in Slots
    BY <1>5, <2>1, BackIs DEF ReadHead, Oldest
  <2> QED BY <1>0, <1>5, <2>1, <2>2 DEF ReadHead, MainPcs
<1>6. CASE ReadSlot
  <2>1. count' \in 0..Capacity /\ Len(seen) < count'
    BY <1>6 DEF ReadSlot, CountAgain
  <2>2. (head + Len(seen)) % Capacity \in Slots
    BY DEF Slots
  <2>3. seen' \in Seq(BOOLEAN) /\ Len(seen') = Len(seen) + 1
    BY <1>6, <2>2 DEF ReadSlot
  <2> QED BY <1>0, <1>6, <2>1, <2>3 DEF ReadSlot, MainPcs
<1> QED BY <1>1, <1>2, <1>3, <1>4, <1>5, <1>6 DEF MainStep

-----------------------------------------------------------------------------
(* What the probe thread publishes.                                        *)

(* The outcomes so far stay what they were.                                *)
LEMMA OutcomesGrow ==
  ASSUME TypeOK, ThreadProbes, NEW n \in Nat, n = Len(outcomes)
  PROVE  /\ Len(outcomes') = n + 1
         /\ \A i \in 1..n : outcomes'[i] = outcomes[i]
         /\ outcomes'[n + 1] = outcome'
         /\ OksUpTo(n)' = OksUpTo(n)
<1>1. PICK result \in Rtts \union {Failed} :
        outcome' = result /\ outcomes' = Append(outcomes, result)
  BY DEF ThreadProbes
<1>2. outcomes \in Seq(Rtts \union {Failed})
  BY DEF TypeOK
<1>3. /\ Len(outcomes') = n + 1
      /\ \A i \in 1..n : outcomes'[i] = outcomes[i]
      /\ outcomes'[n + 1] = outcome'
  BY <1>1, <1>2, AppendProperties
<1>4. \A i \in 1..n : IsOk(outcomes'[i]) <=> IsOk(outcomes[i])
  BY <1>3
<1>5. OksUpTo(n)' = OksUpTo(n)
  BY <1>4 DEF OksUpTo
<1> QED BY <1>3, <1>5

LEMMA LengthIs ==
  ASSUME TypeOK
  PROVE  \E n \in Nat : n = Len(outcomes) /\ n < Width /\ Width \in Nat
  BY LatencyProbeAssumption DEF TypeOK

LEMMA ThreadKeepsControl ==
  ASSUME TypeOK, ThreadControl, ThreadStep
  PROVE  ThreadControl'
<1> USE DEF Goto, Writes, Silent, thread, control,
            BeforeOk, BeforePushOk, BeforePushRtt, BeforeCount, BeforeLast, BeforeMin, BeforeMax
<1>1. CASE ThreadProbes
  <2>1. tpc' = "sent" /\ threadId' = threadId /\ threadId
    BY <1>1 DEF ThreadProbes, ThreadControl
  <2>2. Len(outcomes') > 0 /\ outcome' = outcomes'[Len(outcomes')]
    <3>1. PICK n \in Nat : n = Len(outcomes)
      BY LengthIs
    <3> QED BY <1>1, <3>1, OutcomesGrow
  <2> QED BY <2>1, <2>2 DEF ThreadControl
<1>2. CASE ~ThreadProbes
  <2>1. UNCHANGED <<outcome, outcomes, threadId>> /\ threadId
    BY <1>2 DEF ThreadControl, ThreadStep, ThreadBegins, CountSent, CountOk, PushOk, PushRtt, PushHead,
                PushCount, StoreLast, StoreMin, StoreMax, Pause, Nap, WakeUp, ThreadEnds
  <2>2. tpc' \in BeforeMax => tpc \in BeforeMax
    BY <1>2 DEF ThreadStep, ThreadBegins, CountSent, CountOk, PushOk, PushRtt, PushHead,
                PushCount, StoreLast, StoreMin, StoreMax, Pause, Nap, WakeUp, ThreadEnds
  <2>3. tpc' \in {"ok", "last", "min", "max"} => Ok
    BY <1>2 DEF ThreadControl, ThreadStep, ThreadBegins, CountSent, CountOk, PushOk, PushRtt, PushHead,
                PushCount, StoreLast, StoreMin, StoreMax, Pause, Nap, WakeUp, ThreadEnds
  <2>4. Ok' = Ok
    BY <2>1 DEF Ok
  <2> QED BY <2>1, <2>2, <2>3, <2>4 DEF ThreadControl
<1> QED BY <1>1, <1>2

LEMMA ThreadKeepsCounters ==
  ASSUME TypeOK, ThreadControl, CountersExact, ThreadStep
  PROVE  CountersExact'
<1>0. PICK n \in Nat : n = Len(outcomes) /\ n < Width /\ Width \in Nat
  BY LengthIs
<1> USE DEF CountersExact, Past, BeforeOk
<1>1. CASE ThreadProbes
  <2>1. tpc = "top" /\ tpc' = "sent" /\ UNCHANGED <<probesSent, probesOk>>
    BY <1>1 DEF ThreadProbes, stats
  <2>2. Past(BeforeOk)' = n /\ Past({"sent"})' = n
    BY <1>0, <1>1, <2>1, OutcomesGrow
  <2>3. probesSent = n /\ probesOk = Cardinality(OksUpTo(n))
    BY <1>0, <2>1
  <2>4. OksUpTo(n)' = OksUpTo(n)
    BY <1>0, <1>1, OutcomesGrow
  <2>5. OksUpTo(Past(BeforeOk))' = OksUpTo(n)
    BY <2>1, <2>2, <2>4 DEF OksUpTo
  <2> QED BY <2>1, <2>2, <2>3, <2>5
<1>2. ASSUME UNCHANGED outcomes, NEW m \in Nat PROVE OksUpTo(m)' = OksUpTo(m)
  BY <1>2 DEF OksUpTo
<1>3. ASSUME tpc \in {"sent", "ok"}
      PROVE  /\ n > 0 /\ outcome = outcomes[n]
             /\ Ok => Cardinality(OksUpTo(n)) = Cardinality(OksUpTo(n - 1)) + 1
             /\ ~Ok => Cardinality(OksUpTo(n)) = Cardinality(OksUpTo(n - 1))
             /\ Cardinality(OksUpTo(n - 1)) \in Nat
             /\ Cardinality(OksUpTo(n)) \in Nat /\ Cardinality(OksUpTo(n)) <= n
  <2>1. n > 0 /\ outcome = outcomes[n]
    BY <1>0, <1>3 DEF ThreadControl, BeforeMax, BeforeMin, BeforeLast, BeforeCount, BeforePushRtt,
                BeforePushOk
  <2>2. Ok <=> IsOk(outcomes[n])
    BY <2>1 DEF Ok, IsOk
  <2>3. n - 1 \in Nat
    BY <1>0, <2>1
  <2>4. Cardinality(OksUpTo(n - 1)) \in 0..(n - 1) /\ Cardinality(OksUpTo(n)) \in 0..n
    BY <1>0, <2>3, OksFinite
  <2>5. Cardinality(OksUpTo(n)) = Cardinality(OksUpTo(n - 1))
                                  + IF IsOk(outcomes[n]) THEN 1 ELSE 0
    BY <1>0, <2>1, OksNext
  <2> QED BY <1>0, <2>1, <2>2, <2>4, <2>5
<1>4. CASE CountSent
  <2>1. /\ tpc = "sent" /\ tpc' = (IF Ok THEN "ok" ELSE "push ok")
        /\ UNCHANGED <<outcomes, probesOk>> /\ probesSent' = (probesSent + 1) % Width
    BY <1>4 DEF CountSent, Goto
  <2>2. probesSent = n - 1 /\ probesOk = Cardinality(OksUpTo(n - 1))
    BY <1>0, <2>1
  <2>3. probesSent' = n
    <3>1. n - 1 + 1 = n
      BY <1>0
    <3>2. n % Width = n
      BY <1>0, ModBelowTwice
    <3> QED BY <2>1, <2>2, <3>1, <3>2
  <2>4. CASE Ok
    BY <1>0, <1>2, <1>3, <2>1, <2>2, <2>3, <2>4 DEF Ok
  <2>5. CASE ~Ok
    <3>1. tpc' = "push ok" /\ probesOk' = Cardinality(OksUpTo(n))
      BY <1>3, <2>1, <2>2, <2>5
    <3>2. Past(BeforeOk)' = n /\ Past({"sent"})' = n
      BY <1>0, <2>1, <3>1
    <3> QED BY <1>2, <2>1, <2>3, <3>1, <3>2
  <2> QED BY <2>4, <2>5
<1>5. CASE CountOk
  <2>1. /\ tpc = "ok" /\ tpc' = "push ok" /\ Ok
        /\ UNCHANGED <<outcomes, probesSent>> /\ probesOk' = (probesOk + 1) % Width
    BY <1>5 DEF CountOk, Goto, ThreadControl
  <2>2. probesSent = n /\ probesOk = Cardinality(OksUpTo(n - 1))
    BY <1>0, <2>1
  <2>3. probesOk + 1 = Cardinality(OksUpTo(n)) /\ probesOk + 1 \in 0..n
    <3>1. Ok /\ tpc \in {"sent", "ok"}
      BY <2>1
    <3>2. /\ Cardinality(OksUpTo(n)) = Cardinality(OksUpTo(n - 1)) + 1
          /\ Cardinality(OksUpTo(n)) \in Nat /\ Cardinality(OksUpTo(n)) <= n
      BY <1>3, <3>1, Zenon
    <3> QED BY <2>2, <3>2
  <2>4. probesOk' = Cardinality(OksUpTo(n))
    <3>1. probesOk + 1 \in Nat /\ probesOk + 1 < Width /\ Width > 0
      BY <1>0, <2>3
    <3>2. (probesOk + 1) % Width = probesOk + 1
      BY <1>0, <3>1, ModBelowTwice
    <3> QED BY <2>1, <2>3, <3>2
  <2> QED BY <1>0, <1>2, <2>1, <2>2, <2>4
<1>6. CASE ~ThreadProbes /\ ~CountSent /\ ~CountOk
  <2>1. UNCHANGED <<outcomes, probesSent, probesOk>>
        /\ tpc \notin BeforeOk /\ tpc' \notin BeforeOk
    BY <1>6 DEF ThreadStep, ThreadBegins, PushOk, PushRtt, PushHead, PushCount, StoreLast,
                StoreMin, StoreMax, Pause, Nap, WakeUp, ThreadEnds, Goto, Silent, stats
  <2> QED BY <1>0, <1>2, <2>1
<1> QED BY <1>1, <1>4, <1>5, <1>6

(* The extremes depend on the outcomes they stand for and on nothing else. *)
LEMMA ExtremesOfSame ==
  ASSUME NEW n \in Nat, OksUpTo(n)' = OksUpTo(n),
         \A i \in OksUpTo(n) : outcomes'[i] = outcomes[i]
  PROVE  /\ lastRtt' = lastRtt => (LastOf(n) => LastOf(n)')
         /\ minRtt' = minRtt => (MinOf(n) => MinOf(n)')
         /\ maxRtt' = maxRtt => (MaxOf(n) => MaxOf(n)')
<1>1. lastRtt' = lastRtt => (LastOf(n) => LastOf(n)')
  BY DEF LastOf
<1>2. minRtt' = minRtt => (MinOf(n) => MinOf(n)')
  BY DEF MinOf
<1>3. maxRtt' = maxRtt => (MaxOf(n) => MaxOf(n)')
  BY DEF MaxOf
<1> QED BY <1>1, <1>2, <1>3

LEMMA ExtremesSkipFailure ==
  ASSUME NEW n \in Nat, n > 0, ~IsOk(outcomes[n])
  PROVE  /\ LastOf(n - 1) => LastOf(n)
         /\ MinOf(n - 1) => MinOf(n)
         /\ MaxOf(n - 1) => MaxOf(n)
<1>1. OksUpTo(n) = OksUpTo(n - 1)
  BY OksNext
<1> QED BY <1>1 DEF LastOf, MinOf, MaxOf

LEMMA OksAreRtts ==
  ASSUME TypeOK, NEW n \in Nat, n <= Len(outcomes), NEW i \in OksUpTo(n)
  PROVE  outcomes[i] \in Rtts /\ outcomes[i] \in Nat
<1>1. outcomes \in Seq(Rtts \union {Failed}) /\ Rtts \subseteq Nat
  BY LatencyProbeAssumption DEF TypeOK
<1>2. i \in 1..Len(outcomes) /\ outcomes[i] # Failed
  BY <1>1 DEF OksUpTo, IsOk
<1>3. outcomes[i] \in Rtts \union {Failed}
  BY <1>1, <1>2, ElementOfSeq
<1> QED BY <1>1, <1>2, <1>3

(* The newest outcome, while the thread works on it.                       *)
LEMMA Newest ==
  ASSUME TypeOK, ThreadControl, tpc \in BeforeMax, NEW n \in Nat, n = Len(outcomes)
  PROVE  /\ n > 0 /\ n - 1 \in Nat /\ outcome = outcomes[n]
         /\ Ok <=> IsOk(outcomes[n])
<1>1. n > 0 /\ outcome = outcomes[n]
  BY DEF ThreadControl
<1>2. n - 1 \in Nat
  BY <1>1
<1> QED BY <1>1, <1>2 DEF Ok, IsOk

LEMMA StoreLastExact ==
  ASSUME NEW n \in Nat, n > 0, IsOk(outcomes[n]), UNCHANGED outcomes, lastRtt' = outcomes[n]
  PROVE  LastOf(n)'
<1>1. n \in OksUpTo(n) /\ \A i \in OksUpTo(n) : i <= n
  BY DEF OksUpTo
<1>2. OksUpTo(n)' = OksUpTo(n)
  BY DEF OksUpTo
<1> QED BY <1>1, <1>2 DEF LastOf

LEMMA StoreMinExact ==
  ASSUME TypeOK, NEW n \in Nat, n > 0, n = Len(outcomes), IsOk(outcomes[n]), UNCHANGED outcomes,
         MinOf(n - 1),
         minRtt' = IF OksUpTo(n - 1) = {} \/ outcomes[n] < minRtt THEN outcomes[n] ELSE minRtt
  PROVE  MinOf(n)'
<1>1. OksUpTo(n) = OksUpTo(n - 1) \union {n} /\ OksUpTo(n)' = OksUpTo(n)
  <2>1. OksUpTo(n)' = OksUpTo(n)
    BY DEF OksUpTo
  <2> QED BY <2>1, OksNext
<1>2. n - 1 \in Nat /\ \A i \in OksUpTo(n) : outcomes[i] \in Nat
  BY OksAreRtts
<1>3. minRtt \in Int
  <2>1. minRtt \in Rtts \union {-1}
    BY DEF TypeOK
  <2> QED BY <2>1, LatencyProbeAssumption
<1>4. \E i \in OksUpTo(n) : minRtt' = outcomes[i]
  BY <1>1 DEF MinOf
<1>5. \A i \in OksUpTo(n) : minRtt' <= outcomes[i]
  <2> TAKE i \in OksUpTo(n)
  <2>1. CASE i = n
    BY <1>1, <1>2, <1>3, <2>1
  <2>2. CASE i # n
    <3>1. i \in OksUpTo(n - 1) /\ minRtt <= outcomes[i]
      BY <1>1, <2>2 DEF MinOf
    <3>2. outcomes[i] \in Nat /\ outcomes[n] \in Nat
      BY <1>1, <1>2
    <3> QED BY <1>3, <3>1, <3>2
  <2> QED BY <2>1, <2>2
<1> QED BY <1>1, <1>4, <1>5 DEF MinOf

LEMMA StoreMaxExact ==
  ASSUME TypeOK, NEW n \in Nat, n > 0, n = Len(outcomes), IsOk(outcomes[n]), UNCHANGED outcomes,
         MaxOf(n - 1),
         maxRtt' = IF OksUpTo(n - 1) = {} \/ outcomes[n] > maxRtt THEN outcomes[n] ELSE maxRtt
  PROVE  MaxOf(n)'
<1>1. OksUpTo(n) = OksUpTo(n - 1) \union {n} /\ OksUpTo(n)' = OksUpTo(n)
  <2>1. OksUpTo(n)' = OksUpTo(n)
    BY DEF OksUpTo
  <2> QED BY <2>1, OksNext
<1>2. n - 1 \in Nat /\ \A i \in OksUpTo(n) : outcomes[i] \in Nat
  BY OksAreRtts
<1>3. maxRtt \in Int
  <2>1. maxRtt \in Rtts \union {-1}
    BY DEF TypeOK
  <2> QED BY <2>1, LatencyProbeAssumption
<1>4. \E i \in OksUpTo(n) : maxRtt' = outcomes[i]
  BY <1>1 DEF MaxOf
<1>5. \A i \in OksUpTo(n) : outcomes[i] <= maxRtt'
  <2> TAKE i \in OksUpTo(n)
  <2>1. CASE i = n
    BY <1>1, <1>2, <1>3, <2>1
  <2>2. CASE i # n
    <3>1. i \in OksUpTo(n - 1) /\ outcomes[i] <= maxRtt
      BY <1>1, <2>2 DEF MaxOf
    <3>2. outcomes[i] \in Nat /\ outcomes[n] \in Nat
      BY <1>1, <1>2
    <3> QED BY <1>3, <3>1, <3>2
  <2> QED BY <2>1, <2>2
<1> QED BY <1>1, <1>4, <1>5 DEF MaxOf

(* A counter of one tells the first answer.                                *)
LEMMA FirstSampleIs ==
  ASSUME CountersExact, tpc \in {"min", "max"}, NEW n \in Nat, n = Len(outcomes),
         n > 0, n - 1 \in Nat, IsOk(outcomes[n])
  PROVE  FirstSample <=> OksUpTo(n - 1) = {}
<1>1. probesOk = Cardinality(OksUpTo(n))
  BY DEF CountersExact, Past, BeforeOk
<1>2. Cardinality(OksUpTo(n)) = Cardinality(OksUpTo(n - 1)) + 1
  BY OksNext
<1>3. IsFiniteSet(OksUpTo(n - 1)) /\ Cardinality(OksUpTo(n - 1)) \in Nat
  BY OksFinite
<1>4. Cardinality(OksUpTo(n - 1)) = 0 <=> OksUpTo(n - 1) = {}
  BY <1>3, FS_EmptySet
<1> QED BY <1>1, <1>2, <1>3, <1>4 DEF FirstSample

LEMMA ThreadKeepsExtremes ==
  ASSUME TypeOK, ThreadControl, CountersExact, ExtremesExact, ThreadStep
  PROVE  ExtremesExact'
<1>0. PICK n \in Nat : n = Len(outcomes)
  BY LengthIs
<1>1. CASE ThreadProbes
  <2>1. tpc = "top" /\ tpc' = "sent" /\ UNCHANGED <<lastRtt, minRtt, maxRtt>>
    BY <1>1 DEF ThreadProbes, stats
  <2>2. LastOf(n) /\ MinOf(n) /\ MaxOf(n)
    BY <1>0, <2>1 DEF ExtremesExact, Past, BeforeMax, BeforeMin, BeforeLast, BeforeCount,
                      BeforePushRtt, BeforePushOk, BeforeOk
  <2>3. OksUpTo(n)' = OksUpTo(n) /\ \A i \in OksUpTo(n) : outcomes'[i] = outcomes[i]
    BY <1>0, <1>1, OutcomesGrow DEF OksUpTo
  <2>4. LastOf(n)' /\ MinOf(n)' /\ MaxOf(n)'
    BY <2>1, <2>2, <2>3, ExtremesOfSame
  <2>5. Past(BeforeLast)' = n /\ Past(BeforeMin)' = n /\ Past(BeforeMax)' = n
    BY <1>0, <1>1, <2>1, OutcomesGrow
       DEF Past, BeforeMax, BeforeMin, BeforeLast, BeforeCount, BeforePushRtt, BeforePushOk,
           BeforeOk
  <2> QED BY <2>4, <2>5 DEF ExtremesExact
<1>2. CASE UNCHANGED outcomes
  <2>1. ASSUME NEW m \in Nat
        PROVE  /\ lastRtt' = lastRtt => (LastOf(m) => LastOf(m)')
               /\ minRtt' = minRtt => (MinOf(m) => MinOf(m)')
               /\ maxRtt' = maxRtt => (MaxOf(m) => MaxOf(m)')
    <3>1. OksUpTo(m)' = OksUpTo(m)
      BY <1>2 DEF OksUpTo
    <3> QED BY <1>2, <3>1, ExtremesOfSame
  <2>2. CASE StoreLast
    <3>1. /\ tpc = "last" /\ tpc' = "min" /\ lastRtt' = outcome
          /\ UNCHANGED <<minRtt, maxRtt>>
      BY <2>2 DEF StoreLast, Goto
    <3>2. n - 1 \in Nat /\ n > 0 /\ lastRtt' = outcomes[n] /\ IsOk(outcomes[n])
      BY <1>0, <3>1, Newest DEF ThreadControl, BeforeMax, BeforeMin, BeforeLast
    <3>3. MinOf(n - 1) /\ MaxOf(n - 1)
      BY <1>0, <3>1 DEF ExtremesExact, Past, BeforeMax, BeforeMin, BeforeLast
    <3>4. LastOf(n)' /\ MinOf(n - 1)' /\ MaxOf(n - 1)'
      BY <1>2, <2>1, <3>1, <3>2, <3>3, StoreLastExact
    <3>5. Past(BeforeLast)' = n /\ Past(BeforeMin)' = n - 1 /\ Past(BeforeMax)' = n - 1
      BY <1>0, <1>2, <3>1 DEF Past, BeforeMax, BeforeMin, BeforeLast, BeforeCount,
                              BeforePushRtt, BeforePushOk, BeforeOk
    <3> QED BY <3>4, <3>5 DEF ExtremesExact
  <2>3. CASE StoreMin
    <3>1. /\ tpc = "min" /\ tpc' = "max" /\ UNCHANGED <<lastRtt, maxRtt, probesOk>>
          /\ minRtt' = IF FirstSample \/ outcome < minRtt THEN outcome ELSE minRtt
      BY <2>3 DEF StoreMin, Goto
    <3>2. n - 1 \in Nat /\ n > 0 /\ outcome = outcomes[n] /\ IsOk(outcomes[n])
      BY <1>0, <3>1, Newest DEF ThreadControl, BeforeMax, BeforeMin
    <3>3. LastOf(n) /\ MinOf(n - 1) /\ MaxOf(n - 1)
      BY <1>0, <3>1 DEF ExtremesExact, Past, BeforeMax, BeforeMin, BeforeLast, BeforeCount,
                        BeforePushRtt, BeforePushOk, BeforeOk
    <3>4. FirstSample <=> OksUpTo(n - 1) = {}
      BY <1>0, <3>1, <3>2, FirstSampleIs
    <3>5. MinOf(n)'
      BY <1>0, <1>2, <3>1, <3>2, <3>3, <3>4, StoreMinExact
    <3>6. LastOf(n)' /\ MaxOf(n - 1)'
      BY <2>1, <3>1, <3>2, <3>3
    <3>7. Past(BeforeLast)' = n /\ Past(BeforeMin)' = n /\ Past(BeforeMax)' = n - 1
      BY <1>0, <1>2, <3>1 DEF Past, BeforeMax, BeforeMin, BeforeLast, BeforeCount,
                              BeforePushRtt, BeforePushOk, BeforeOk
    <3> QED BY <3>5, <3>6, <3>7 DEF ExtremesExact
  <2>4. CASE StoreMax
    <3>1. /\ tpc = "max" /\ tpc' = "pause" /\ UNCHANGED <<lastRtt, minRtt, probesOk>>
          /\ maxRtt' = IF FirstSample \/ outcome > maxRtt THEN outcome ELSE maxRtt
      BY <2>4 DEF StoreMax, Goto
    <3>2. n - 1 \in Nat /\ n > 0 /\ outcome = outcomes[n] /\ IsOk(outcomes[n])
      BY <1>0, <3>1, Newest DEF ThreadControl, BeforeMax
    <3>3. LastOf(n) /\ MinOf(n) /\ MaxOf(n - 1)
      BY <1>0, <3>1 DEF ExtremesExact, Past, BeforeMax, BeforeMin, BeforeLast, BeforeCount,
                        BeforePushRtt, BeforePushOk, BeforeOk
    <3>4. FirstSample <=> OksUpTo(n - 1) = {}
      BY <1>0, <3>1, <3>2, FirstSampleIs
    <3>5. MaxOf(n)'
      BY <1>0, <1>2, <3>1, <3>2, <3>3, <3>4, StoreMaxExact
    <3>6. LastOf(n)' /\ MinOf(n)'
      BY <2>1, <3>1, <3>2, <3>3
    <3>7. Past(BeforeLast)' = n /\ Past(BeforeMin)' = n /\ Past(BeforeMax)' = n
      BY <1>0, <1>2, <3>1 DEF Past, BeforeMax, BeforeMin, BeforeLast, BeforeCount,
                              BeforePushRtt, BeforePushOk, BeforeOk
    <3> QED BY <3>5, <3>6, <3>7 DEF ExtremesExact
  <2>5. CASE PushCount /\ ~Ok
    <3>1. tpc = "push count" /\ tpc' = "pause" /\ UNCHANGED <<lastRtt, minRtt, maxRtt>>
      BY <2>5 DEF PushCount, Goto, stats
    <3>2. n - 1 \in Nat /\ n > 0 /\ ~IsOk(outcomes[n])
      BY <1>0, <2>5, <3>1, Newest DEF BeforeMax, BeforeMin, BeforeLast, BeforeCount
    <3>3. LastOf(n - 1) /\ MinOf(n - 1) /\ MaxOf(n - 1)
      BY <1>0, <3>1 DEF ExtremesExact, Past, BeforeMax, BeforeMin, BeforeLast, BeforeCount
    <3>4. LastOf(n)' /\ MinOf(n)' /\ MaxOf(n)'
      BY <2>1, <3>1, <3>2, <3>3, ExtremesSkipFailure
    <3>5. Past(BeforeLast)' = n /\ Past(BeforeMin)' = n /\ Past(BeforeMax)' = n
      BY <1>0, <1>2, <3>1 DEF Past, BeforeMax, BeforeMin, BeforeLast, BeforeCount,
                              BeforePushRtt, BeforePushOk, BeforeOk
    <3> QED BY <3>4, <3>5 DEF ExtremesExact
  <2>6. CASE ~ThreadProbes /\ ~StoreLast /\ ~StoreMin /\ ~StoreMax /\ ~(PushCount /\ ~Ok)
    <3>1. UNCHANGED <<lastRtt, minRtt, maxRtt>>
      BY <2>6 DEF ThreadStep, ThreadBegins, CountSent, CountOk, PushOk, PushRtt, PushHead,
                  PushCount, Pause, Nap, WakeUp, ThreadEnds, Writes, Silent, stats
    <3>2. /\ tpc' \in BeforeLast <=> tpc \in BeforeLast
          /\ tpc' \in BeforeMin <=> tpc \in BeforeMin
          /\ tpc' \in BeforeMax <=> tpc \in BeforeMax
      BY <2>6 DEF ThreadStep, ThreadBegins, CountSent, CountOk, PushOk, PushRtt, PushHead,
                  PushCount, Pause, Nap, WakeUp, ThreadEnds, Goto, BeforeMax, BeforeMin,
                  BeforeLast, BeforeCount, BeforePushRtt, BeforePushOk, BeforeOk
    <3>3. \A m \in {Past(BeforeLast), Past(BeforeMin), Past(BeforeMax)} : m \in Nat
      <4>1. tpc \in BeforeMax => n - 1 \in Nat
        BY <1>0, Newest
      <4> QED BY <1>0, <4>1 DEF Past, BeforeMax, BeforeMin
    <3>4. PICK last \in Nat, min \in Nat, max \in Nat :
            last = Past(BeforeLast) /\ min = Past(BeforeMin) /\ max = Past(BeforeMax)
      BY <3>3
    <3>5. Past(BeforeLast)' = last /\ Past(BeforeMin)' = min /\ Past(BeforeMax)' = max
      BY <1>2, <3>2, <3>4 DEF Past, BeforeMax, BeforeMin, BeforeLast, BeforeCount,
                              BeforePushRtt, BeforePushOk, BeforeOk
    <3>6. LastOf(last)' /\ MinOf(min)' /\ MaxOf(max)'
      BY <2>1, <3>1, <3>4 DEF ExtremesExact
    <3> QED BY <3>5, <3>6 DEF ExtremesExact
  <2> QED BY <1>2, <2>2, <2>3, <2>4, <2>5, <2>6, <1>1
<1>3. ThreadProbes \/ UNCHANGED outcomes
  BY DEF ThreadStep, ThreadBegins, CountSent, CountOk, PushOk, PushRtt, PushHead, PushCount,
         StoreLast, StoreMin, StoreMax, Pause, Nap, WakeUp, ThreadEnds, Goto
<1> QED BY <1>1, <1>2, <1>3

-----------------------------------------------------------------------------
(* The ring.                                                               *)

LEMMA HeadMoves ==
  ASSUME TypeOK
  PROVE  /\ Back(HeadAfter, 1) = historyHead
         /\ \A d \in 2..Capacity : /\ Back(HeadAfter, d) = Back(historyHead, d - 1)
                                   /\ Back(HeadAfter, d) # historyHead
                                   /\ Back(HeadAfter, d) \in Slots
<1>1. /\ historyHead \in Nat /\ historyHead < Capacity /\ Capacity \in Nat /\ Capacity > 0
      /\ HeadAfter = IF historyHead + 1 = Capacity THEN 0 ELSE historyHead + 1
  BY HeadAfterIs, LatencyProbeAssumption DEF TypeOK, Slots
<1>2. Back(HeadAfter, 1) = historyHead
  BY <1>1 DEF Back
<1>3. ASSUME NEW d \in 2..Capacity
      PROVE  /\ Back(HeadAfter, d) = Back(historyHead, d - 1)
             /\ Back(HeadAfter, d) # historyHead /\ Back(HeadAfter, d) \in Slots
  BY <1>1 DEF Back, Slots
<1> QED BY <1>2, <1>3

(* A store into the slot at the head shifts the window by one.             *)
LEMMA StoreShifts ==
  ASSUME TypeOK, NEW S, NEW cells \in [Slots -> S], NEW value \in S, NEW values,
         NEW n \in Nat, n > 0, value = values[n],
         \A d \in 1..Kept(n - 1) : cells[Back(historyHead, d)] = values[n - d]
  PROVE  \A d \in 1..Kept(n) :
           [cells EXCEPT ![historyHead] = value][Back(HeadAfter, d)] = values[n + 1 - d]
<1>1. /\ Capacity \in Nat /\ Capacity > 0 /\ historyHead \in Slots
      /\ Kept(n) \in Nat /\ Kept(n) <= Capacity
      /\ Kept(n - 1) \in Nat /\ Kept(n) <= Kept(n - 1) + 1
  BY LatencyProbeAssumption DEF TypeOK, Kept
<1> TAKE d \in 1..Kept(n)
<1>2. CASE d = 1
  <2>1. Back(HeadAfter, d) = historyHead /\ n + 1 - d = n
    BY <1>2, HeadMoves
  <2> QED BY <1>1, <2>1
<1>3. CASE d # 1
  <2>1. d \in 2..Capacity /\ d - 1 \in 1..Kept(n - 1) /\ n - (d - 1) = n + 1 - d
    BY <1>1, <1>3
  <2>2. /\ Back(HeadAfter, d) = Back(historyHead, d - 1) /\ Back(HeadAfter, d) # historyHead
        /\ Back(HeadAfter, d) \in Slots
    BY <2>1, HeadMoves
  <2>3. [cells EXCEPT ![historyHead] = value][Back(HeadAfter, d)] = cells[Back(HeadAfter, d)]
    BY <2>2
  <2>4. cells[Back(historyHead, d - 1)] = values[n - (d - 1)]
    BY <2>1
  <2> QED BY <2>1, <2>2, <2>3, <2>4
<1> QED BY <1>2, <1>3

(* What the arrays hold depends on the arrays and the outcomes they cover. *)
LEMMA RingOfSame ==
  ASSUME NEW n \in Nat, \A i \in 1..n : outcomes'[i] = outcomes[i], NEW from
  PROVE  /\ recentOk' = recentOk => (OksFrom(from, n) => OksFrom(from, n)')
         /\ recentRtt' = recentRtt => (RttsFrom(from, n) => RttsFrom(from, n)')
<1>1. \A d \in 1..Kept(n) : n + 1 - d \in 1..n
  BY LatencyProbeAssumption DEF Kept
<1>2. recentOk' = recentOk => (OksFrom(from, n) => OksFrom(from, n)')
  BY <1>1 DEF OksFrom, IsOk
<1>3. recentRtt' = recentRtt => (RttsFrom(from, n) => RttsFrom(from, n)')
  BY <1>1 DEF RttsFrom, RttOf, IsOk
<1> QED BY <1>2, <1>3

LEMMA PushOkExact ==
  ASSUME TypeOK, PushOk, NEW n \in Nat, n > 0, Ok <=> IsOk(outcomes[n]),
         NEW from \in Slots, from = HeadAfter, OksFrom(historyHead, n - 1)
  PROVE  OksFrom(from, n)'
<1> DEFINE values == [i \in 1..n |-> IsOk(outcomes[i])]
<1>1. recentOk \in [Slots -> BOOLEAN] /\ recentOk' = [recentOk EXCEPT ![historyHead] = Ok]
      /\ UNCHANGED outcomes
  BY DEF TypeOK, PushOk, Goto
<1>2. Ok = values[n] /\ Ok \in BOOLEAN
  BY DEF Ok, IsOk
<1>3. \A d \in 1..Kept(n - 1) : recentOk[Back(historyHead, d)] = values[n - d]
  <2> TAKE d \in 1..Kept(n - 1)
  <2>1. n - d \in 1..n /\ n - 1 + 1 - d = n - d
    BY LatencyProbeAssumption DEF Kept
  <2>2. recentOk[Back(historyHead, d)] = IsOk(outcomes[n - 1 + 1 - d])
    BY DEF OksFrom
  <2> QED BY <2>1, <2>2
<1> HIDE DEF values
<1>4. \A d \in 1..Kept(n) : recentOk'[Back(from, d)] = values[n + 1 - d]
  BY <1>1, <1>2, <1>3, StoreShifts
<1>5. \A d \in 1..Kept(n) : n + 1 - d \in 1..n
  BY LatencyProbeAssumption DEF Kept
<1>6. \A d \in 1..Kept(n) : recentOk'[Back(from, d)] = IsOk(outcomes[n + 1 - d])
  BY <1>4, <1>5 DEF values
<1> QED BY <1>1, <1>6 DEF OksFrom

LEMMA PushRttExact ==
  ASSUME TypeOK, PushRtt, NEW n \in Nat, n > 0, outcome = outcomes[n],
         NEW from \in Slots, from = HeadAfter, RttsFrom(historyHead, n - 1)
  PROVE  RttsFrom(from, n)'
<1> DEFINE values == [i \in 1..n |-> RttOf(outcomes[i])]
<1>0. PICK cell : cell = Rtts \union {-1}
  OBVIOUS
<1>1. recentRtt \in [Slots -> cell] /\ UNCHANGED outcomes
  BY <1>0 DEF TypeOK, PushRtt, Goto
<1>2. PICK value \in cell :
        value = values[n] /\ recentRtt' = [recentRtt EXCEPT ![historyHead] = value]
  <2>1. (IF Ok THEN outcome ELSE -1) = values[n]
    BY DEF Ok, IsOk, RttOf
  <2>2. (IF Ok THEN outcome ELSE -1) \in cell
    BY <1>0 DEF Ok, TypeOK
  <2> HIDE DEF values
  <2> QED BY <2>1, <2>2 DEF PushRtt
<1>3. \A d \in 1..Kept(n - 1) : recentRtt[Back(historyHead, d)] = values[n - d]
  <2> TAKE d \in 1..Kept(n - 1)
  <2>1. n - d \in 1..n /\ n - 1 + 1 - d = n - d
    BY LatencyProbeAssumption DEF Kept
  <2>2. recentRtt[Back(historyHead, d)] = RttOf(outcomes[n - 1 + 1 - d])
    BY DEF RttsFrom
  <2> QED BY <2>1, <2>2
<1> HIDE DEF values
<1>4. \A d \in 1..Kept(n) : recentRtt'[Back(from, d)] = values[n + 1 - d]
  BY <1>1, <1>2, <1>3, StoreShifts
<1>5. \A d \in 1..Kept(n) : n + 1 - d \in 1..n
  BY LatencyProbeAssumption DEF Kept
<1>6. \A d \in 1..Kept(n) : recentRtt'[Back(from, d)] = RttOf(outcomes[n + 1 - d])
  BY <1>4, <1>5 DEF values
<1> QED BY <1>1, <1>6 DEF RttsFrom, RttOf

LEMMA ThreadKeepsRing ==
  ASSUME TypeOK, ThreadControl, RingExact, ThreadStep
  PROVE  RingExact'
<1>0. PICK n \in Nat : n = Len(outcomes)
  BY LengthIs
<1>b. PICK from \in Slots, after \in Slots : from = historyHead /\ after = HeadAfter
  BY HeadAfterIs DEF TypeOK
<1>1. CASE ThreadProbes
  <2>1. /\ tpc = "top" /\ tpc' = "sent"
        /\ UNCHANGED <<recentOk, recentRtt, historyHead, historyCount>>
    BY <1>1 DEF ThreadProbes, ring
  <2>2. historyCount = Kept(n) /\ OksFrom(from, n) /\ RttsFrom(from, n)
    BY <1>0, <1>b, <2>1 DEF RingExact, Past, HeadOf, BeforeCount, BeforePushRtt, BeforePushOk,
                            BeforeOk
  <2>3. OksFrom(from, n)' /\ RttsFrom(from, n)'
    BY <1>0, <1>1, <2>1, <2>2, OutcomesGrow, RingOfSame
  <2>4. Past(BeforeCount)' = n /\ Past(BeforePushOk)' = n /\ Past(BeforePushRtt)' = n
    BY <1>0, <1>1, <2>1, OutcomesGrow
       DEF Past, BeforeCount, BeforePushRtt, BeforePushOk, BeforeOk
  <2>5. HeadOf({"push rtt", "push head"})' = from /\ HeadOf({"push head"})' = from
    BY <1>b, <2>1 DEF HeadOf
  <2>6. historyCount' = Kept(n)'
    BY <2>1, <2>2 DEF Kept
  <2> QED BY <2>3, <2>4, <2>5, <2>6 DEF RingExact
<1>2. ASSUME UNCHANGED outcomes, NEW m \in Nat, NEW place
      PROVE  /\ recentOk' = recentOk => (OksFrom(place, m) => OksFrom(place, m)')
             /\ recentRtt' = recentRtt => (RttsFrom(place, m) => RttsFrom(place, m)')
  BY <1>2, RingOfSame
<1>3. CASE PushOk
  <2>1. /\ tpc = "push ok" /\ tpc' = "push rtt"
        /\ UNCHANGED <<recentRtt, historyHead, historyCount, outcomes>>
    BY <1>3 DEF PushOk, Goto
  <2>2. n - 1 \in Nat /\ n > 0 /\ (Ok <=> IsOk(outcomes[n]))
    BY <1>0, <2>1, Newest DEF BeforeMax, BeforeMin, BeforeLast, BeforeCount, BeforePushRtt,
                              BeforePushOk
  <2>3. historyCount = Kept(n - 1) /\ OksFrom(from, n - 1) /\ RttsFrom(from, n - 1)
    BY <1>0, <1>b, <2>1 DEF RingExact, Past, HeadOf, BeforeCount, BeforePushRtt, BeforePushOk
  <2>4. OksFrom(after, n)'
    BY <1>3, <1>b, <2>2, <2>3, PushOkExact
  <2>5. RttsFrom(from, n - 1)'
    BY <1>2, <2>1, <2>2, <2>3
  <2>6. Past(BeforeCount)' = n - 1 /\ Past(BeforePushOk)' = n /\ Past(BeforePushRtt)' = n - 1
    BY <1>0, <2>1 DEF Past, BeforeCount, BeforePushRtt, BeforePushOk, BeforeOk
  <2>7. HeadOf({"push rtt", "push head"})' = after /\ HeadOf({"push head"})' = from
    BY <1>b, <2>1 DEF HeadOf, HeadAfter
  <2>8. historyCount' = Kept(n - 1)'
    BY <2>1, <2>3 DEF Kept
  <2> QED BY <2>4, <2>5, <2>6, <2>7, <2>8 DEF RingExact
<1>4. CASE PushRtt
  <2>1. /\ tpc = "push rtt" /\ tpc' = "push head"
        /\ UNCHANGED <<recentOk, historyHead, historyCount, outcomes>>
    BY <1>4 DEF PushRtt, Goto
  <2>2. n - 1 \in Nat /\ n > 0 /\ outcome = outcomes[n]
    BY <1>0, <2>1, Newest DEF BeforeMax, BeforeMin, BeforeLast, BeforeCount, BeforePushRtt
  <2>3. historyCount = Kept(n - 1) /\ OksFrom(after, n) /\ RttsFrom(from, n - 1)
    BY <1>0, <1>b, <2>1 DEF RingExact, Past, HeadOf, BeforeCount, BeforePushRtt, BeforePushOk,
                            BeforeOk
  <2>4. RttsFrom(after, n)'
    BY <1>0, <1>4, <1>b, <2>2, <2>3, PushRttExact
  <2>5. OksFrom(after, n)'
    BY <1>2, <2>1, <2>2, <2>3
  <2>6. Past(BeforeCount)' = n - 1 /\ Past(BeforePushOk)' = n /\ Past(BeforePushRtt)' = n
    BY <1>0, <2>1 DEF Past, BeforeCount, BeforePushRtt, BeforePushOk, BeforeOk
  <2>7. HeadOf({"push rtt", "push head"})' = after /\ HeadOf({"push head"})' = after
    BY <1>b, <2>1 DEF HeadOf, HeadAfter
  <2>8. historyCount' = Kept(n - 1)'
    BY <2>1, <2>3 DEF Kept
  <2> QED BY <2>4, <2>5, <2>6, <2>7, <2>8 DEF RingExact
<1>5. CASE PushHead
  <2>1. /\ tpc = "push head" /\ tpc' = "push count" /\ historyHead' = after
        /\ UNCHANGED <<recentOk, recentRtt, historyCount, outcomes>>
    BY <1>5, <1>b DEF PushHead, Goto
  <2>2. n - 1 \in Nat
    BY <1>0, <2>1, Newest DEF BeforeMax, BeforeMin, BeforeLast, BeforeCount
  <2>3. historyCount = Kept(n - 1) /\ OksFrom(after, n) /\ RttsFrom(after, n)
    BY <1>0, <1>b, <2>1 DEF RingExact, Past, HeadOf, BeforeCount, BeforePushRtt, BeforePushOk,
                            BeforeOk
  <2>4. OksFrom(after, n)' /\ RttsFrom(after, n)'
    BY <1>2, <2>1, <2>3
  <2>6. Past(BeforeCount)' = n - 1 /\ Past(BeforePushOk)' = n /\ Past(BeforePushRtt)' = n
    BY <1>0, <2>1 DEF Past, BeforeCount, BeforePushRtt, BeforePushOk, BeforeOk
  <2>7. HeadOf({"push rtt", "push head"})' = after /\ HeadOf({"push head"})' = after
    BY <2>1 DEF HeadOf
  <2>8. historyCount' = Kept(n - 1)'
    BY <2>1, <2>3 DEF Kept
  <2> QED BY <2>4, <2>6, <2>7, <2>8 DEF RingExact
<1>6. CASE PushCount
  <2>1. /\ tpc = "push count" /\ tpc' \in {"last", "pause"} /\ historyCount' = CountAfter
        /\ UNCHANGED <<recentOk, recentRtt, historyHead, outcomes>>
    BY <1>6 DEF PushCount, Goto
  <2>2. n - 1 \in Nat
    BY <1>0, <2>1, Newest DEF BeforeMax, BeforeMin, BeforeLast, BeforeCount
  <2>3. historyCount = Kept(n - 1) /\ OksFrom(from, n) /\ RttsFrom(from, n)
    BY <1>0, <1>b, <2>1 DEF RingExact, Past, HeadOf, BeforeCount, BeforePushRtt, BeforePushOk,
                            BeforeOk
  <2>4. OksFrom(from, n)' /\ RttsFrom(from, n)'
    BY <1>2, <2>1, <2>3
  <2>6. Past(BeforeCount)' = n /\ Past(BeforePushOk)' = n /\ Past(BeforePushRtt)' = n
    BY <1>0, <2>1 DEF Past, BeforeCount, BeforePushRtt, BeforePushOk, BeforeOk
  <2>7. HeadOf({"push rtt", "push head"})' = from /\ HeadOf({"push head"})' = from
    BY <1>b, <2>1 DEF HeadOf
  <2>8. historyCount' = Kept(n)'
    <3>1. Capacity \in Nat
      BY LatencyProbeAssumption
    <3>2. historyCount' = IF Kept(n - 1) < Capacity THEN Kept(n - 1) + 1 ELSE Kept(n - 1)
      BY <2>1, <2>3 DEF CountAfter
    <3>3. Kept(n) = IF Kept(n - 1) < Capacity THEN Kept(n - 1) + 1 ELSE Kept(n - 1)
      BY <2>2, <3>1 DEF Kept
    <3> QED BY <3>2, <3>3 DEF Kept
  <2> QED BY <2>4, <2>6, <2>7, <2>8 DEF RingExact
<1>7. CASE ~ThreadProbes /\ ~PushOk /\ ~PushRtt /\ ~PushHead /\ ~PushCount
  <2>1. UNCHANGED <<recentOk, recentRtt, historyHead, historyCount, outcomes>>
    BY <1>7 DEF ThreadStep, ThreadBegins, CountSent, CountOk, StoreLast, StoreMin, StoreMax,
                Pause, Nap, WakeUp, ThreadEnds, Goto, Silent, ring
  <2>2. /\ tpc' \in BeforeCount <=> tpc \in BeforeCount
        /\ tpc' \in BeforePushOk <=> tpc \in BeforePushOk
        /\ tpc' \in BeforePushRtt <=> tpc \in BeforePushRtt
        /\ tpc' \notin {"push rtt", "push head"} /\ tpc \notin {"push rtt", "push head"}
    BY <1>7 DEF ThreadStep, ThreadBegins, CountSent, CountOk, StoreLast, StoreMin, StoreMax,
                Pause, Nap, WakeUp, ThreadEnds, Goto,
                BeforeCount, BeforePushRtt, BeforePushOk, BeforeOk
  <2>3. PICK size \in Nat, oks \in Nat, rtts \in Nat :
          size = Past(BeforeCount) /\ oks = Past(BeforePushOk) /\ rtts = Past(BeforePushRtt)
    <3>1. tpc \in BeforeMax => n - 1 \in Nat
      BY <1>0, Newest
    <3> QED BY <1>0, <3>1 DEF Past, BeforeMax, BeforeMin, BeforeLast, BeforeCount,
                              BeforePushRtt, BeforePushOk
  <2>4. /\ Past(BeforeCount)' = size /\ Past(BeforePushOk)' = oks /\ Past(BeforePushRtt)' = rtts
    BY <2>1, <2>2, <2>3 DEF Past, BeforeCount, BeforePushRtt, BeforePushOk, BeforeOk
  <2>5. /\ HeadOf({"push rtt", "push head"}) = from /\ HeadOf({"push head"}) = from
        /\ HeadOf({"push rtt", "push head"})' = from /\ HeadOf({"push head"})' = from
    BY <1>b, <2>1, <2>2 DEF HeadOf
  <2>6. OksFrom(from, oks)' /\ RttsFrom(from, rtts)'
    BY <1>2, <2>1, <2>3, <2>5 DEF RingExact
  <2>7. historyCount' = Kept(size)'
    BY <2>1, <2>3 DEF RingExact, Kept
  <2> QED BY <2>4, <2>5, <2>6, <2>7 DEF RingExact
<1> QED BY <1>1, <1>3, <1>4, <1>5, <1>6, <1>7

-----------------------------------------------------------------------------
(* The main thread leaves what the probe thread publishes alone.           *)

LEMMA MainKeepsThreadInv ==
  ASSUME TypeOK, ThreadInv, MainStep
  PROVE  ThreadInv'
<1> DEFINE Resting == {"none", "begin", "ended"}
<1>1. UNCHANGED <<stats, ring, outcome, outcomes>>
  BY DEF MainStep, Start, StopBegins, StopJoins, ReadSent, ReadOk, ReadShown, ReadCount,
         ReadHead, ReadSlot, ReadDone, Return, Reads, thread
<1>2. UNCHANGED <<probesSent, probesOk, lastRtt, minRtt, maxRtt, recentOk, recentRtt,
                  historyHead, historyCount, outcome, outcomes>>
  BY <1>1 DEF stats, ring
<1>3. /\ tpc' = tpc \/ (tpc \in Resting /\ tpc' \in Resting)
      /\ ~threadId' => tpc' = "none"
  BY DEF ThreadInv, ThreadControl, MainStep, Start, StopBegins, StopJoins, ReadSent, ReadOk,
         ReadShown, ReadCount, ReadHead, ReadSlot, ReadDone, Return, Reads, thread, control
<1>4. /\ tpc' \in BeforeOk <=> tpc \in BeforeOk
      /\ tpc' \in BeforePushOk <=> tpc \in BeforePushOk
      /\ tpc' \in BeforePushRtt <=> tpc \in BeforePushRtt
      /\ tpc' \in BeforeCount <=> tpc \in BeforeCount
      /\ tpc' \in BeforeLast <=> tpc \in BeforeLast
      /\ tpc' \in BeforeMin <=> tpc \in BeforeMin
      /\ tpc' \in BeforeMax <=> tpc \in BeforeMax
  BY <1>3 DEF BeforeMax, BeforeMin, BeforeLast, BeforeCount, BeforePushRtt, BeforePushOk,
              BeforeOk
<1>5. /\ tpc' \in {"sent"} <=> tpc \in {"sent"}
      /\ tpc' \in {"push head"} <=> tpc \in {"push head"}
      /\ tpc' \in {"push rtt", "push head"} <=> tpc \in {"push rtt", "push head"}
      /\ tpc' \in {"ok", "last", "min", "max"} <=> tpc \in {"ok", "last", "min", "max"}
  BY <1>3
<1>6. ThreadControl'
  BY <1>2, <1>3, <1>4, <1>5 DEF ThreadInv, ThreadControl, Ok,
     BeforeMax, BeforeMin, BeforeLast, BeforeCount, BeforePushRtt, BeforePushOk, BeforeOk
<1>7. CountersExact'
  <2>1. Past(BeforeOk)' = Past(BeforeOk) /\ Past({"sent"})' = Past({"sent"})
    BY <1>2, <1>4, <1>5 DEF Past, BeforeOk
  <2> QED BY <1>2, <2>1 DEF ThreadInv, CountersExact, OksUpTo
<1>8. ExtremesExact'
  <2>1. /\ Past(BeforeLast)' = Past(BeforeLast) /\ Past(BeforeMin)' = Past(BeforeMin)
        /\ Past(BeforeMax)' = Past(BeforeMax)
    BY <1>2, <1>4 DEF Past, BeforeMax, BeforeMin, BeforeLast, BeforeCount, BeforePushRtt,
                      BeforePushOk, BeforeOk
  <2>2. LastOf(Past(BeforeLast))'
    BY <1>2, <2>1 DEF ThreadInv, ExtremesExact, LastOf, OksUpTo
  <2>3. MinOf(Past(BeforeMin))'
    BY <1>2, <2>1 DEF ThreadInv, ExtremesExact, MinOf, OksUpTo
  <2>4. MaxOf(Past(BeforeMax))'
    BY <1>2, <2>1 DEF ThreadInv, ExtremesExact, MaxOf, OksUpTo
  <2> QED BY <2>2, <2>3, <2>4 DEF ExtremesExact
<1>9. RingExact'
  <2>1. /\ Past(BeforeCount)' = Past(BeforeCount) /\ Past(BeforePushOk)' = Past(BeforePushOk)
        /\ Past(BeforePushRtt)' = Past(BeforePushRtt)
    BY <1>2, <1>4 DEF Past, BeforeCount, BeforePushRtt, BeforePushOk, BeforeOk
  <2>2. /\ HeadOf({"push rtt", "push head"})' = HeadOf({"push rtt", "push head"})
        /\ HeadOf({"push head"})' = HeadOf({"push head"})
    BY <1>2, <1>5 DEF HeadOf, HeadAfter
  <2>3. OksFrom(HeadOf({"push rtt", "push head"}), Past(BeforePushOk))'
    BY <1>2, <2>1, <2>2 DEF ThreadInv, RingExact, OksFrom, Kept
  <2>4. RttsFrom(HeadOf({"push head"}), Past(BeforePushRtt))'
    BY <1>2, <2>1, <2>2 DEF ThreadInv, RingExact, RttsFrom, Kept
  <2> QED BY <1>2, <2>1, <2>3, <2>4 DEF ThreadInv, RingExact, Kept
<1> QED BY <1>6, <1>7, <1>8, <1>9 DEF ThreadInv

-----------------------------------------------------------------------------
(* The reader.                                                             *)

LEMMA ThreadKeepsReadInBounds ==
  ASSUME TypeOK, ReadInBounds, ThreadStep
  PROVE  ReadInBounds'
<1>1. UNCHANGED <<mpc, shown, count, seen>>
  BY DEF ThreadStep, ThreadBegins, ThreadProbes, CountSent, CountOk, PushOk, PushRtt, PushHead,
         PushCount, StoreLast, StoreMin, StoreMax, Pause, Nap, WakeUp, ThreadEnds, Writes,
         Silent, reader
<1>2. historyCount' \in {historyCount, CountAfter}
  BY DEF ThreadStep, ThreadBegins, ThreadProbes, CountSent, CountOk, PushOk, PushRtt, PushHead,
         PushCount, StoreLast, StoreMin, StoreMax, Pause, Nap, WakeUp, ThreadEnds, Writes,
         Silent, ring
<1>3. historyCount \in Nat /\ historyCount' \in Nat /\ historyCount <= historyCount'
  <2>1. historyCount \in Nat
    BY DEF TypeOK
  <2> QED BY <1>2, <2>1 DEF CountAfter
<1>4. shown \in Nat /\ count \in Nat
  BY LatencyProbeAssumption DEF TypeOK
<1> QED BY <1>1, <1>3, <1>4 DEF ReadInBounds, AfterShown, AfterCount

LEMMA MainKeepsReadInBounds ==
  ASSUME TypeOK, ReadInBounds, MainStep
  PROVE  ReadInBounds'
<1> USE DEF ReadInBounds, AfterShown, AfterCount
<1>0. /\ shown \in Nat /\ count \in Nat /\ historyCount \in Nat
      /\ seen \in Seq(BOOLEAN) /\ Len(seen) \in Nat
  BY LatencyProbeAssumption DEF TypeOK
<1>1. UNCHANGED historyCount
  BY DEF MainStep, Start, StopBegins, StopJoins, ReadSent, ReadOk, ReadShown, ReadCount,
         ReadHead, ReadSlot, ReadDone, Return, Reads, ring
<1>2. CASE Start \/ StopBegins \/ StopJoins \/ Return
  BY <1>1, <1>2 DEF Start, StopBegins, StopJoins, Return, reader
<1>3. CASE ReadSent \/ ReadOk
  BY <1>1, <1>3 DEF ReadSent, ReadOk
<1>4. CASE ReadShown \/ ReadCount
  BY <1>0, <1>1, <1>4 DEF ReadShown, ReadCount, CountAgain
<1>5. CASE ReadHead
  <2>1. count' \in {count, historyCount} /\ seen' = <<>> /\ Len(seen') = 0
    BY <1>5 DEF ReadHead, CountAgain
  <2>2. /\ mpc = "head" /\ mpc' = "loop" /\ shown' = shown
    BY <1>5 DEF ReadHead
  <2> QED BY <1>0, <1>1, <2>1, <2>2
<1>6. CASE ReadSlot
  <2>1. /\ count' \in {count, historyCount} /\ mpc = "loop" /\ mpc' = "loop" /\ shown' = shown
        /\ Len(seen) < count'
    BY <1>6 DEF ReadSlot, CountAgain
  <2>2. Len(seen') = Len(seen) + 1
    BY <1>0, <1>6 DEF ReadSlot
  <2> QED BY <1>0, <1>1, <2>1, <2>2
<1>7. CASE ReadDone
  BY <1>0, <1>1, <1>7 DEF ReadDone, CountAgain
<1> QED BY <1>2, <1>3, <1>4, <1>5, <1>6, <1>7 DEF MainStep

LEMMA ThreadKeepsQuietRead ==
  ASSUME QuietRead, ThreadStep
  PROVE  QuietRead'
<1>1. CASE ~quiet'
  BY <1>1 DEF QuietRead
<1>2. CASE quiet'
  <2>1. ThreadBegins \/ Pause \/ Nap \/ WakeUp \/ ThreadEnds
    BY <1>2 DEF ThreadStep, ThreadProbes, CountSent, CountOk, PushOk, PushRtt, PushHead,
                PushCount, StoreLast, StoreMin, StoreMax, Writes
  <2>2. UNCHANGED <<probesSent, probesOk, recentOk, historyHead, historyCount, mpc, sent, lost,
                    shown, count, head, seen, quiet>>
    BY <2>1 DEF ThreadBegins, Pause, Nap, WakeUp, ThreadEnds, Silent, stats, ring, reader
  <2>3. AtRest'
    BY <2>1 DEF ThreadBegins, Pause, Nap, WakeUp, ThreadEnds, Goto, AtRest
  <2> QED BY <2>2, <2>3, <1>2 DEF QuietRead
<1> QED BY <1>1, <1>2

LEMMA MainKeepsQuietRead ==
  ASSUME TypeOK, ThreadInv, ReadInBounds, QuietRead, MainStep
  PROVE  QuietRead'
<1>0. /\ historyCount \in 0..Capacity /\ historyHead \in Slots /\ Capacity \in Nat
      /\ seen \in Seq(BOOLEAN) /\ Len(seen) \in Nat
  BY LatencyProbeAssumption DEF TypeOK
<1> SUFFICES ASSUME quiet' PROVE QuietRead'
  BY DEF QuietRead
<1>1. CASE Start \/ StopBegins \/ StopJoins \/ Return
  <2>1. quiet /\ mpc' \in {"idle", "join"}
    BY <1>1 DEF Start, StopBegins, StopJoins, Return, reader
  <2>2. AtRest'
    BY <1>1, <2>1 DEF Start, StopBegins, StopJoins, Return, Reads, thread, AtRest, QuietRead
  <2> QED BY <2>1, <2>2 DEF QuietRead, AfterShown, AfterCount, AfterHead
<1>2. CASE ~(Start \/ StopBegins \/ StopJoins \/ Return)
  <2>1. UNCHANGED <<probesSent, probesOk, recentOk, historyHead, historyCount, tpc>>
    BY <1>2 DEF MainStep, ReadSent, ReadOk, ReadShown, ReadCount, ReadHead, ReadSlot, ReadDone,
                Reads, stats, ring, thread
  <2>2. CASE ReadSent
    <3>1. mpc' = "ok" /\ sent' = probesSent /\ AtRest
      BY <2>2 DEF ReadSent
    <3> QED BY <2>1, <3>1 DEF QuietRead, AtRest, AfterShown, AfterCount, AfterHead
  <2>3. CASE ~ReadSent
    <3>1. quiet /\ AtRest /\ AtRest'
      BY <1>2, <2>1, <2>3 DEF MainStep, ReadOk, ReadShown, ReadCount, ReadHead, ReadSlot,
                              ReadDone, QuietRead, AtRest
    <3>2. CASE ReadOk
      <4>1. /\ mpc = "ok" /\ mpc' = "shown" /\ sent' = sent
            /\ lost' = IF sent > 0 THEN (sent - probesOk) % Width ELSE 0
        BY <3>2 DEF ReadOk
      <4>2. sent = probesSent
        BY <3>1, <4>1 DEF QuietRead, MainPcs
      <4>3. sent - probesOk \in Nat /\ sent - probesOk < Width /\ sent \in Nat /\ Width \in Nat
            /\ probesOk \in Nat
        <5>1. PICK n \in Nat : n = Len(outcomes) /\ n < Width /\ Width \in Nat
          BY LengthIs
        <5>2. probesSent = n /\ probesOk = Cardinality(OksUpTo(n))
          BY <3>1, <5>1 DEF ThreadInv, CountersExact, Past, AtRest, BeforeOk
        <5>3. Cardinality(OksUpTo(n)) \in 0..n
          BY <5>1, OksFinite
        <5> QED BY <4>2, <5>1, <5>2, <5>3
      <4>4. lost' = sent - probesOk
        <5>1. (sent - probesOk) % Width = sent - probesOk
          BY <4>3, ModBelowTwice
        <5> QED BY <4>1, <4>3, <5>1
      <4> QED BY <2>1, <3>1, <4>1, <4>2, <4>4
              DEF QuietRead, AfterShown, AfterCount, AfterHead
    <3>3. CASE ReadShown
      BY <2>1, <3>1, <3>3
         DEF ReadShown, QuietRead, AfterShown, AfterCount, AfterHead, MainPcs
    <3>4. CASE ReadCount
      <4>1. /\ mpc = "count" /\ mpc' \in {"idle", "head"} /\ UNCHANGED <<sent, lost, shown>>
            /\ count' \in {shown, historyCount}
        BY <3>4 DEF ReadCount, CountAgain
      <4> QED BY <2>1, <3>1, <4>1 DEF QuietRead, AfterShown, AfterCount, AfterHead, MainPcs
    <3>5. CASE ReadHead
      <4>1. /\ mpc = "head" /\ mpc' = "loop" /\ UNCHANGED <<sent, lost, shown, seen>>
            /\ count' \in {count, historyCount} /\ seen = <<>>
            /\ head' = (historyHead + Capacity - count') % Capacity
        BY <3>5 DEF ReadHead, CountAgain, Oldest, ReadInBounds
      <4>2. count' = historyCount
        BY <3>1, <4>1 DEF QuietRead, AfterCount, AfterShown
      <4>3. head' = Back(historyHead, historyCount)
        BY <1>0, <4>1, <4>2, BackIs
      <4> QED BY <2>1, <3>1, <4>1, <4>2, <4>3
              DEF QuietRead, AfterShown, AfterCount, AfterHead, MainPcs
    <3>6. CASE ReadSlot
      <4>1. /\ mpc = "loop" /\ mpc' = "loop" /\ UNCHANGED <<sent, lost, shown, head>>
            /\ count' \in {count, historyCount} /\ Len(seen) < count'
            /\ seen' = Append(seen, recentOk[(head + Len(seen)) % Capacity])
        BY <3>6 DEF ReadSlot, CountAgain
      <4>2. /\ count' = historyCount /\ head = Back(historyHead, historyCount)
            /\ \A i \in 1..Len(seen) : seen[i] = recentOk[Back(historyHead, historyCount + 1 - i)]
        BY <3>1, <4>1 DEF QuietRead, AfterCount, AfterShown, AfterHead
      <4>3. Len(seen) + 1 \in 1..historyCount /\ historyCount \in 1..Capacity
        BY <1>0, <4>1, <4>2
      <4>4. (head + Len(seen)) % Capacity = Back(historyHead, historyCount + 1 - (Len(seen) + 1))
        <5>1. (Back(historyHead, historyCount) + (Len(seen) + 1) - 1) % Capacity
                = Back(historyHead, historyCount + 1 - (Len(seen) + 1))
          BY <1>0, <4>3, FromOldest
        <5>2. Back(historyHead, historyCount) \in Slots
          BY <1>0, BackIs
        <5>3. Back(historyHead, historyCount) + (Len(seen) + 1) - 1
                = Back(historyHead, historyCount) + Len(seen)
          BY <1>0, <5>2 DEF Slots
        <5> QED BY <4>2, <5>1, <5>3
      <4>5. /\ Len(seen') = Len(seen) + 1
            /\ \A i \in 1..Len(seen) : seen'[i] = seen[i]
            /\ seen'[Len(seen) + 1] = recentOk[(head + Len(seen)) % Capacity]
        BY <1>0, <4>1
      <4>6. \A i \in 1..Len(seen') : seen'[i] = recentOk[Back(historyHead, historyCount + 1 - i)]
        <5> TAKE i \in 1..Len(seen')
        <5>1. CASE i = Len(seen) + 1
          BY <4>4, <4>5, <5>1
        <5>2. CASE i \in 1..Len(seen)
          BY <4>2, <4>5, <5>2
        <5> QED BY <1>0, <4>5, <5>1, <5>2
      <4> QED BY <2>1, <3>1, <4>1, <4>2, <4>6
              DEF QuietRead, AfterShown, AfterCount, AfterHead, MainPcs
    <3>7. CASE ReadDone
      <4>1. /\ mpc = "loop" /\ mpc' = "done" /\ UNCHANGED <<sent, lost, shown, head, seen>>
            /\ count' \in {count, historyCount} /\ Len(seen) >= count /\ Len(seen) <= count
        BY <3>7 DEF ReadDone, CountAgain, ReadInBounds
      <4>2. count = historyCount
        BY <3>1, <4>1 DEF QuietRead, AfterCount, AfterShown
      <4>3. Len(seen) = historyCount
        BY <1>0, <4>1, <4>2
      <4> QED BY <2>1, <3>1, <4>1, <4>2, <4>3
              DEF QuietRead, AfterShown, AfterCount, AfterHead, MainPcs
    <3> QED BY <1>2, <2>3, <3>2, <3>3, <3>4, <3>5, <3>6, <3>7 DEF MainStep
  <2> QED BY <2>2, <2>3
<1> QED BY <1>1, <1>2

-----------------------------------------------------------------------------
LEMMA InitHasInv == Init => Inv
<1> SUFFICES ASSUME Init PROVE Inv
  OBVIOUS
<1>0. Len(outcomes) = 0 /\ tpc = "none" /\ mpc = "idle" /\ 0 \in Slots
  BY LatencyProbeAssumption DEF Init, Slots
<1>1. TypeOK
  <2>1. 0 \in 0..(Width - 1) /\ 0 \in 0..Capacity /\ 0 \in 0..SleepSteps /\ 0 \in 0..MaxStarts
        /\ 0 <= MaxProbes
    BY LatencyProbeAssumption
  <2>2. {lastRtt, minRtt, maxRtt} \subseteq Rtts \union {-1} /\ {shown, count} \subseteq 0..Capacity
    BY <2>1 DEF Init
  <2>3. threadId \in BOOLEAN /\ stopRequested \in BOOLEAN /\ running \in BOOLEAN
        /\ quiet \in BOOLEAN
    BY DEF Init
  <2>4. recentOk \in [Slots -> BOOLEAN] /\ recentRtt \in [Slots -> Rtts \union {-1}]
    BY DEF Init
  <2>5. /\ seen \in Seq(BOOLEAN) /\ Len(seen) <= Capacity
        /\ outcomes \in Seq(Rtts \union {Failed})
    BY <2>1 DEF Init
  <2> QED BY <1>0, <2>1, <2>2, <2>3, <2>4, <2>5 DEF Init, TypeOK, ThreadPcs, MainPcs
<1>2. ThreadControl
  BY <1>0 DEF ThreadControl, BeforeMax, BeforeMin, BeforeLast, BeforeCount, BeforePushRtt,
              BeforePushOk, BeforeOk
<1>3. \A before \in {{"sent"}, BeforeOk, BeforePushOk, BeforePushRtt, BeforeCount, BeforeLast,
                     BeforeMin, BeforeMax} : Past(before) = 0
  BY <1>0 DEF Past, BeforeMax, BeforeMin, BeforeLast, BeforeCount, BeforePushRtt,
              BeforePushOk, BeforeOk
<1>4. CountersExact
  BY <1>3, OksOfNone DEF CountersExact, Init
<1>5. ExtremesExact
  BY <1>3, OksOfNone DEF ExtremesExact, LastOf, MinOf, MaxOf, Init
<1>6. RingExact
  <2>1. Kept(0) = 0
    BY LatencyProbeAssumption DEF Kept
  <2>2. Past(BeforeCount) = 0 /\ Past(BeforePushOk) = 0 /\ Past(BeforePushRtt) = 0
    BY <1>3
  <2>3. historyCount = 0 /\ \A d : d \notin 1..0
    BY DEF Init
  <2> QED BY <2>1, <2>2, <2>3 DEF RingExact, OksFrom, RttsFrom
<1>7. ReadInBounds /\ QuietRead
  BY <1>0 DEF ReadInBounds, QuietRead, AtRest, AfterShown, AfterCount, AfterHead
<1> QED BY <1>1, <1>2, <1>4, <1>5, <1>6, <1>7 DEF Inv, ThreadInv

LEMMA StepKeepsInv == Inv /\ [Next]_vars => Inv'
<1> SUFFICES ASSUME Inv, [Next]_vars PROVE Inv'
  OBVIOUS
<1>1. CASE ThreadStep
  BY <1>1, ThreadKeepsType, ThreadKeepsControl, ThreadKeepsCounters, ThreadKeepsExtremes,
     ThreadKeepsRing, ThreadKeepsReadInBounds, ThreadKeepsQuietRead DEF Inv, ThreadInv
<1>2. CASE MainStep
  BY <1>2, MainKeepsType, MainKeepsThreadInv, MainKeepsReadInBounds, MainKeepsQuietRead DEF Inv
<1>3. CASE UNCHANGED vars
  <2>1. UNCHANGED <<threadId, stopRequested, running, probesSent, probesOk, lastRtt, minRtt,
                    maxRtt, recentOk, recentRtt, historyHead, historyCount, tpc, outcome,
                    sleepLeft, mpc, sent, lost, shown, count, head, seen, outcomes, starts,
                    quiet>>
    BY <1>3 DEF vars, stats, ring, control, thread, reader
  <2>2. TypeOK'
    BY <2>1 DEF Inv, TypeOK
  <2>3. ThreadControl' /\ CountersExact'
    BY <2>1 DEF Inv, ThreadInv, ThreadControl, Ok, CountersExact, Past, OksUpTo, BeforeMax,
                BeforeMin, BeforeLast, BeforeCount, BeforePushRtt, BeforePushOk, BeforeOk
  <2>4. ExtremesExact'
    BY <2>1 DEF Inv, ThreadInv, ExtremesExact, LastOf, MinOf, MaxOf, Past, OksUpTo, BeforeMax,
                BeforeMin, BeforeLast, BeforeCount, BeforePushRtt, BeforePushOk, BeforeOk
  <2>5. RingExact'
    BY <2>1 DEF Inv, ThreadInv, RingExact, OksFrom, RttsFrom, RttOf, Kept, HeadOf, HeadAfter,
                Past, BeforeCount, BeforePushRtt, BeforePushOk, BeforeOk
  <2>6. ReadInBounds' /\ QuietRead'
    BY <2>1 DEF Inv, ReadInBounds, QuietRead, AtRest, AfterShown, AfterCount, AfterHead
  <2> QED BY <2>2, <2>3, <2>4, <2>5, <2>6 DEF Inv, ThreadInv
<1> QED BY <1>1, <1>2, <1>3 DEF Next

LEMMA Invariance == Spec => []Inv
  BY InitHasInv, StepKeepsInv, PTL DEF Spec

(***************************************************************************)
(* Every variable of the two threads stays in its type: the head and the   *)
(* count of the ring in their ranges, the reader's copies too.             *)
(***************************************************************************)
THEOREM TypeCorrect == Spec => []TypeOK
<1>1. Inv => TypeOK
  BY DEF Inv
<1> QED BY <1>1, Invariance, PTL

(***************************************************************************)
(* Between two probes the counters, the extremes and the ring are exactly  *)
(* those of the outcomes so far.                                           *)
(***************************************************************************)
THEOREM PublicationIsExact == Spec => []PublishedExact
<1>1. Inv => PublishedExact
  <2> SUFFICES ASSUME Inv, AtRest PROVE StatsExact /\ RingIsWindow
    BY DEF PublishedExact
  <2>0. PICK n \in Nat : n = Len(outcomes) /\ n < Width
    BY LengthIs DEF Inv
  <2>1. /\ Past({"sent"}) = n /\ Past(BeforeOk) = n /\ Past(BeforePushOk) = n
        /\ Past(BeforePushRtt) = n /\ Past(BeforeCount) = n /\ Past(BeforeLast) = n
        /\ Past(BeforeMin) = n /\ Past(BeforeMax) = n
    BY <2>0 DEF Past, AtRest, BeforeMax, BeforeMin, BeforeLast, BeforeCount, BeforePushRtt,
                BeforePushOk, BeforeOk
  <2>2. LastOf(n) /\ MinOf(n) /\ MaxOf(n)
    BY <2>1 DEF Inv, ThreadInv, ExtremesExact
  <2>3. Oks = OksUpTo(n)
    BY <2>0 DEF Oks
  <2>4. StatsExact
    <3>1. probesSent = n /\ probesOk = Cardinality(OksUpTo(n))
      BY <2>1 DEF Inv, ThreadInv, CountersExact
    <3> QED BY <2>0, <2>2, <2>3, <3>1 DEF StatsExact, LastOf, MinOf, MaxOf
  <2>5. ASSUME NEW i \in 1..historyCount,
               NEW idx, idx = (historyHead + Capacity - historyCount + i - 1) % Capacity
        PROVE  /\ recentOk[idx] = IsOk(Window(i))
               /\ recentRtt[idx] = IF IsOk(Window(i)) THEN Window(i) ELSE -1
    <3> DEFINE d == historyCount + 1 - i
    <3>1. /\ historyCount \in 0..Capacity /\ historyHead \in Slots /\ Capacity \in Nat
          /\ historyCount = Kept(n)
      BY <2>1, LatencyProbeAssumption DEF Inv, TypeOK, ThreadInv, RingExact
    <3>2. d \in 1..Kept(n) /\ d \in 0..Capacity /\ n + 1 - d = n - historyCount + i
      BY <3>1
    <3>3. historyHead + Capacity - historyCount + i - 1 = historyHead + Capacity - d
      BY <3>1 DEF Slots
    <3>4. idx = Back(historyHead, d)
      BY <2>5, <3>1, <3>2, <3>3, BackIs
    <3>5. HeadOf({"push rtt", "push head"}) = historyHead /\ HeadOf({"push head"}) = historyHead
      BY DEF HeadOf, AtRest
    <3> HIDE DEF d
    <3>6. /\ recentOk[Back(historyHead, d)] = IsOk(outcomes[n + 1 - d])
          /\ recentRtt[Back(historyHead, d)] = RttOf(outcomes[n + 1 - d])
      BY <2>1, <3>2, <3>5 DEF Inv, ThreadInv, RingExact, OksFrom, RttsFrom
    <3>7. Window(i) = outcomes[n + 1 - d]
      BY <2>0, <3>2 DEF Window
    <3> QED BY <3>4, <3>6, <3>7 DEF RttOf
  <2>6. historyCount = IF Len(outcomes) < Capacity THEN Len(outcomes) ELSE Capacity
    BY <2>0, <2>1 DEF Inv, ThreadInv, RingExact, Kept
  <2> QED BY <2>4, <2>5, <2>6 DEF RingIsWindow
<1> QED BY <1>1, Invariance, PTL

(***************************************************************************)
(* A read that no store of the probe thread overlapped gives the last      *)
(* outcomes, oldest first, and the number of failures.                     *)
(***************************************************************************)
THEOREM QuietReadsAreExact == Spec => []QuietReadExact
<1>1. Inv => QuietReadExact
  <2> SUFFICES ASSUME Inv, mpc = "done", quiet
               PROVE  /\ seen = [i \in 1..historyCount |-> IsOk(Window(i))]
                      /\ lost = Len(outcomes) - Cardinality(Oks)
    BY DEF QuietReadExact
  <2>0. PICK n \in Nat : n = Len(outcomes) /\ n < Width
    BY LengthIs DEF Inv
  <2>1. /\ AtRest /\ lost = probesSent - probesOk /\ Len(seen) = historyCount
        /\ \A i \in 1..Len(seen) : seen[i] = recentOk[Back(historyHead, historyCount + 1 - i)]
    BY DEF Inv, QuietRead, AfterShown, AfterCount, AfterHead
  <2>2. /\ Past({"sent"}) = n /\ Past(BeforeOk) = n /\ Past(BeforePushOk) = n
        /\ Past(BeforeCount) = n
    BY <2>0, <2>1 DEF Past, AtRest, BeforeCount, BeforePushRtt, BeforePushOk, BeforeOk
  <2>3. lost = Len(outcomes) - Cardinality(Oks)
    BY <2>0, <2>1, <2>2 DEF Inv, ThreadInv, CountersExact, Oks
  <2>4. historyCount = Kept(n) /\ historyCount \in Nat /\ seen \in Seq(BOOLEAN)
    <3>1. historyCount \in Nat /\ seen \in Seq(BOOLEAN)
      BY DEF Inv, TypeOK
    <3> QED BY <2>2, <3>1 DEF Inv, ThreadInv, RingExact
  <2>5. HeadOf({"push rtt", "push head"}) = historyHead
    BY <2>1 DEF HeadOf, AtRest
  <2>6. OksFrom(historyHead, n)
    BY <2>2, <2>5 DEF Inv, ThreadInv, RingExact
  <2>7. \A i \in 1..historyCount : seen[i] = IsOk(Window(i))
    <3> TAKE i \in 1..historyCount
    <3> DEFINE d == historyCount + 1 - i
    <3>1. d \in 1..Kept(n) /\ n + 1 - d = n - historyCount + i
      BY <2>4
    <3>2. seen[i] = recentOk[Back(historyHead, d)]
      BY <2>1
    <3> HIDE DEF d
    <3>3. recentOk[Back(historyHead, d)] = IsOk(outcomes[n + 1 - d])
      BY <2>6, <3>1 DEF OksFrom
    <3>4. Window(i) = outcomes[n + 1 - d]
      BY <2>0, <3>1 DEF Window
    <3> QED BY <3>2, <3>3, <3>4
  <2>8. seen = [i \in 1..historyCount |-> seen[i]]
    BY <2>1, <2>4, LenProperties
  <2> QED BY <2>3, <2>7, <2>8
<1> QED BY <1>1, Invariance, PTL

(***************************************************************************)
(* Whatever the probe thread stores during a read, the recent loss is a    *)
(* percentage and the announced part of the timeline was filled.           *)
(***************************************************************************)
THEOREM RecentLossInRange == Spec => []RecentLossIsPercentage
<1>1. Inv => RecentLossIsPercentage
  <2> SUFFICES ASSUME Inv, mpc = "done"
               PROVE  /\ count > 0 /\ shown <= Len(seen)
                      /\ Cardinality({i \in 1..Len(seen) : seen[i]}) <= count
    BY DEF RecentLossIsPercentage
  <2>1. count > 0 /\ shown <= Len(seen) /\ Len(seen) <= count
    BY DEF Inv, ReadInBounds, AfterCount, AfterShown
  <2>2. Len(seen) \in Nat /\ count \in Nat
    BY LatencyProbeAssumption DEF Inv, TypeOK
  <2>3. IsFiniteSet(1..Len(seen)) /\ Cardinality(1..Len(seen)) = Len(seen)
    <3>1. PICK n \in Nat : n = Len(seen)
      BY <2>2
    <3>2. IsFiniteSet(1..n) /\ Cardinality(1..n) = n
      BY FS_Interval
    <3> QED BY <3>1, <3>2
  <2>4. /\ IsFiniteSet({i \in 1..Len(seen) : seen[i]})
        /\ Cardinality({i \in 1..Len(seen) : seen[i]}) <= Cardinality(1..Len(seen))
    BY <2>3, FS_Subset
  <2>5. Cardinality({i \in 1..Len(seen) : seen[i]}) \in Nat
    BY <2>4, FS_CardinalityType
  <2> QED BY <2>1, <2>2, <2>3, <2>4, <2>5
<1> QED BY <1>1, Invariance, PTL
=============================================================================
