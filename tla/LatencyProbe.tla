---------------------------- MODULE LatencyProbe ----------------------------
(***************************************************************************)
(* The latency probe (latency_probe.c): a thread that probes the target,   *)
(* updates counters and a ring of recent outcomes, and sleeps; and the     *)
(* main thread that starts it, stops it, and once per frame reads all of   *)
(* that, without a lock, in latency_probe_get_metrics.                     *)
(*                                                                         *)
(* Each access of either thread to a shared field is a step of its own, in *)
(* program order.  The fields of the ring are not volatile: a second read  *)
(* of history_count by the reader gives the value it already holds or the  *)
(* one in memory.  The thread works on the struct it was started with.     *)
(*                                                                         *)
(* Abstractions.  A probe is one step with an outcome, Failed or its round *)
(* trip time.  The averages, last_error and the configuration are left     *)
(* out, and the reader's copies of single fields that nothing is computed  *)
(* from.  The percentiles are left out; their input is what the reader     *)
(* collects in seen.                                                       *)
(***************************************************************************)
EXTENDS Integers, Sequences, FiniteSets

CONSTANTS Rtts,        \* round trip times, in ms
          Failed,      \* the outcome of a probe that got no answer
          Capacity,    \* LATENCY_PROBE_HISTORY_CAPACITY (120)
          SleepSteps,  \* naps of 25 ms between two probes
          Width,       \* the counters are unsigned, modulo Width (2^32)
          MaxProbes,   \* bound: probes in a behaviour
          MaxStarts    \* bound: threads created in a behaviour

ASSUME LatencyProbeAssumption ==
  /\ Rtts \subseteq Nat /\ Failed \notin Rtts
  /\ Capacity \in Nat \ {0} /\ SleepSteps \in Nat /\ Width \in Nat
  /\ MaxProbes \in Nat /\ MaxStarts \in Nat /\ Width > MaxProbes

VARIABLES
  \* the struct
  threadId, stopRequested, running, probesSent, probesOk,
  lastRtt, minRtt, maxRtt, recentOk, recentRtt, historyHead, historyCount,
  \* the probe thread
  tpc, outcome, sleepLeft,
  \* the main thread, in latency_probe_get_metrics or latency_probe_stop
  mpc, sent, lost, shown, count, head, seen,
  \* history: all outcomes, threads created, and whether the probe thread
  \* was at rest all through the read under way
  outcomes, starts, quiet

stats == <<probesSent, probesOk, lastRtt, minRtt, maxRtt>>
ring == <<recentOk, recentRtt, historyHead, historyCount>>
control == <<threadId, stopRequested, running, starts>>
thread == <<tpc, outcome, sleepLeft, outcomes>>
reader == <<mpc, sent, lost, shown, count, head, seen>>
vars == <<stats, ring, control, thread, reader, quiet>>

Slots == 0..(Capacity - 1)

Init ==  \* latency_probe_init
  /\ threadId = FALSE /\ stopRequested = FALSE /\ running = FALSE
  /\ probesSent = 0 /\ probesOk = 0 /\ lastRtt = -1 /\ minRtt = -1 /\ maxRtt = -1
  /\ recentOk = [i \in Slots |-> FALSE] /\ recentRtt = [i \in Slots |-> -1]
  /\ historyHead = 0 /\ historyCount = 0
  /\ tpc = "none" /\ outcome = Failed /\ sleepLeft = 0
  /\ mpc = "idle" /\ sent = 0 /\ lost = 0 /\ shown = 0 /\ count = 0 /\ head = 0 /\ seen = <<>>
  /\ outcomes = <<>> /\ starts = 0 /\ quiet = TRUE

-----------------------------------------------------------------------------
(* probe_thread_main.                                                      *)

Ok == outcome # Failed
Goto(next) == tpc' = next /\ UNCHANGED <<outcome, sleepLeft, outcomes>>

\* A step of the probe thread that writes to what the reader reads.
Writes == quiet' = FALSE /\ UNCHANGED <<reader, threadId, stopRequested, starts>>
\* One that does not.
Silent == UNCHANGED <<stats, ring, reader, quiet, threadId, stopRequested, starts>>

ThreadBegins == /\ tpc = "begin"
                /\ running' = TRUE
                /\ Goto("top")
                /\ Silent

StopSeen_Never == FALSE                                         \* mutant
StopSeen == stopRequested

ThreadProbes == /\ tpc = "top" /\ ~StopSeen /\ Len(outcomes) < MaxProbes
                /\ \E result \in Rtts \union {Failed} :
                     outcome' = result /\ outcomes' = Append(outcomes, result)
                /\ tpc' = "sent"
                /\ quiet' = FALSE
                /\ UNCHANGED <<stats, ring, control, reader, sleepLeft>>

CountSent == /\ tpc = "sent"
             /\ probesSent' = (probesSent + 1) % Width
             /\ Goto(IF Ok THEN "ok" ELSE "push ok")
             /\ Writes /\ UNCHANGED <<probesOk, lastRtt, minRtt, maxRtt, ring, running>>

CountOk == /\ tpc = "ok"
           /\ probesOk' = (probesOk + 1) % Width
           /\ Goto("push ok")
           /\ Writes /\ UNCHANGED <<probesSent, lastRtt, minRtt, maxRtt, ring, running>>

(* push_history, one store at a time.                                      *)
PushOk == /\ tpc = "push ok"
          /\ recentOk' = [recentOk EXCEPT ![historyHead] = Ok]
          /\ Goto("push rtt")
          /\ Writes /\ UNCHANGED <<stats, recentRtt, historyHead, historyCount, running>>

PushRtt == /\ tpc = "push rtt"
           /\ recentRtt' = [recentRtt EXCEPT ![historyHead] = IF Ok THEN outcome ELSE -1]
           /\ Goto("push head")
           /\ Writes /\ UNCHANGED <<stats, recentOk, historyHead, historyCount, running>>

HeadAfter == (historyHead + 1) % Capacity
PushHead == /\ tpc = "push head"
            /\ historyHead' = HeadAfter
            /\ Goto("push count")
            /\ Writes /\ UNCHANGED <<stats, recentOk, recentRtt, historyCount, running>>

CountAfter_Wraps == (historyCount + 1) % (Capacity + 1)         \* mutant
CountAfter == IF historyCount < Capacity THEN historyCount + 1 ELSE historyCount
PushCount == /\ tpc = "push count"
             /\ historyCount' = CountAfter
             /\ Goto(IF Ok THEN "last" ELSE "pause")
             /\ Writes /\ UNCHANGED <<stats, recentOk, recentRtt, historyHead, running>>

StoreLast == /\ tpc = "last"
             /\ lastRtt' = outcome
             /\ Goto("min")
             /\ Writes /\ UNCHANGED <<probesSent, probesOk, minRtt, maxRtt, ring, running>>

FirstSample_Late == probesOk = 0                                \* mutant
FirstSample == probesOk = 1

StoreMin == /\ tpc = "min"
            /\ minRtt' = IF FirstSample \/ outcome < minRtt THEN outcome ELSE minRtt
            /\ Goto("max")
            /\ Writes /\ UNCHANGED <<probesSent, probesOk, lastRtt, maxRtt, ring, running>>

StoreMax == /\ tpc = "max"
            /\ maxRtt' = IF FirstSample \/ outcome > maxRtt THEN outcome ELSE maxRtt
            /\ Goto("pause")
            /\ Writes /\ UNCHANGED <<probesSent, probesOk, lastRtt, minRtt, ring, running>>

Pause == /\ tpc = "pause"
         /\ tpc' = "sleep" /\ sleepLeft' = SleepSteps
         /\ UNCHANGED <<outcome, outcomes, running>> /\ Silent

Nap == /\ tpc = "sleep" /\ ~StopSeen /\ sleepLeft > 0
       /\ sleepLeft' = sleepLeft - 1
       /\ UNCHANGED <<tpc, outcome, outcomes, running>> /\ Silent

WakeUp == /\ tpc = "sleep" /\ (StopSeen \/ sleepLeft = 0)
          /\ Goto("top")
          /\ UNCHANGED running /\ Silent

ThreadEnds == /\ tpc = "top" /\ StopSeen
              /\ running' = FALSE
              /\ Goto("ended")
              /\ Silent

ThreadStep == \/ ThreadBegins \/ ThreadProbes \/ CountSent \/ CountOk
              \/ PushOk \/ PushRtt \/ PushHead \/ PushCount
              \/ StoreLast \/ StoreMin \/ StoreMax
              \/ Pause \/ Nap \/ WakeUp \/ ThreadEnds

-----------------------------------------------------------------------------
(* latency_probe_start and latency_probe_stop, in the main thread.         *)

Start == /\ mpc = "idle" /\ ~threadId /\ starts < MaxStarts
         /\ stopRequested' = FALSE
         /\ starts' = starts + 1
         /\ \/ \* the thread is not created, or not started
               UNCHANGED <<threadId, tpc>>
            \/ threadId' = TRUE /\ tpc' = "begin"
         /\ UNCHANGED <<stats, ring, running, outcome, sleepLeft, outcomes, reader, quiet>>

StopBegins == /\ mpc = "idle" /\ threadId
              /\ stopRequested' = TRUE
              /\ mpc' = "join"
              /\ UNCHANGED <<stats, ring, threadId, running, starts, thread, quiet,
                             sent, lost, shown, count, head, seen>>

\* sceKernelWaitThreadEnd returns when the thread has ended.
StopJoins == /\ mpc = "join" /\ tpc = "ended"
             /\ threadId' = FALSE /\ tpc' = "none"
             /\ mpc' = "idle"
             /\ UNCHANGED <<stats, ring, stopRequested, running, starts, quiet, outcome,
                            sleepLeft, outcomes, sent, lost, shown, count, head, seen>>

-----------------------------------------------------------------------------
(* latency_probe_get_metrics, one load at a time.                          *)

AtRest == tpc \in {"none", "begin", "top", "pause", "sleep", "ended"}
Reads == UNCHANGED <<stats, ring, control, thread>>

ReadSent == /\ mpc = "idle"
            /\ sent' = probesSent
            /\ seen' = <<>> /\ lost' = 0 /\ shown' = 0 /\ count' = 0 /\ head' = 0
            /\ quiet' = AtRest
            /\ mpc' = "ok"
            /\ Reads

\* loss_percent is 100 * lost / sent, computed in floats from an unsigned.
ReadOk == /\ mpc = "ok"
          /\ lost' = IF sent > 0 THEN (sent - probesOk) % Width ELSE 0
          /\ mpc' = "shown"
          /\ Reads /\ UNCHANGED <<sent, shown, count, head, seen, quiet>>

\* recent_count, the length of the timeline that is drawn.
ReadShown == /\ mpc = "shown"
             /\ shown' = historyCount
             /\ mpc' = "count"
             /\ Reads /\ UNCHANGED <<sent, lost, count, head, seen, quiet>>

\* The value a read of history_count gives to code that read held before.
CountAgain(held) == {held, historyCount}

ReadCount == /\ mpc = "count"
             /\ count' \in CountAgain(shown)
             /\ mpc' = IF count' = 0 THEN "idle" ELSE "head"
             /\ Reads /\ UNCHANGED <<sent, lost, shown, head, seen, quiet>>

\* head becomes the oldest slot of the window.
Oldest_FromZero == 0                                            \* mutant
Oldest == (historyHead + Capacity - count') % Capacity
ReadHead == /\ mpc = "head"
            /\ count' \in CountAgain(count)
            /\ head' = Oldest
            /\ mpc' = "loop"
            /\ Reads /\ UNCHANGED <<sent, lost, shown, seen, quiet>>

ReadSlot == /\ mpc = "loop"
            /\ count' \in CountAgain(count)
            /\ Len(seen) < count'
            /\ seen' = Append(seen, recentOk[(head + Len(seen)) % Capacity])
            /\ Reads /\ UNCHANGED <<mpc, sent, lost, shown, head, quiet>>

\* recent_loss_percent is 100 - 100 * ReadOks / count.
ReadDone == /\ mpc = "loop"
            /\ Len(seen) >= count
            /\ count' \in CountAgain(count)
            /\ mpc' = "done"
            /\ Reads /\ UNCHANGED <<sent, lost, shown, head, seen, quiet>>

Return == /\ mpc = "done"
          /\ mpc' = "idle"
          /\ Reads /\ UNCHANGED <<sent, lost, shown, count, head, seen, quiet>>

MainStep == \/ Start \/ StopBegins \/ StopJoins
            \/ ReadSent \/ ReadOk \/ ReadShown \/ ReadCount
            \/ ReadHead \/ ReadSlot \/ ReadDone \/ Return

Next == ThreadStep \/ MainStep

Spec == Init /\ [][Next]_vars

\* The kernel schedules both threads.
FairSpec == Spec /\ WF_vars(ThreadStep) /\ WF_vars(StopJoins)

-----------------------------------------------------------------------------
ThreadPcs == {"none", "begin", "top", "sent", "ok", "push ok", "push rtt", "push head",
              "push count", "last", "min", "max", "pause", "sleep", "ended"}
MainPcs == {"idle", "join", "ok", "shown", "count", "head", "loop", "done"}

TypeOK ==
  /\ threadId \in BOOLEAN /\ stopRequested \in BOOLEAN /\ running \in BOOLEAN
  /\ probesSent \in 0..(Width - 1) /\ probesOk \in 0..(Width - 1)
  /\ {lastRtt, minRtt, maxRtt} \subseteq Rtts \union {-1}
  /\ recentOk \in [Slots -> BOOLEAN] /\ recentRtt \in [Slots -> Rtts \union {-1}]
  /\ historyHead \in Slots /\ historyCount \in 0..Capacity
  /\ outcome \in Rtts \union {Failed} /\ sleepLeft \in 0..SleepSteps
  /\ sent \in 0..(Width - 1) /\ lost \in 0..(Width - 1)
  /\ {shown, count} \subseteq 0..Capacity /\ head \in Slots
  /\ seen \in Seq(BOOLEAN) /\ Len(seen) <= Capacity
  /\ tpc \in ThreadPcs /\ mpc \in MainPcs /\ quiet \in BOOLEAN
  /\ outcomes \in Seq(Rtts \union {Failed}) /\ Len(outcomes) <= MaxProbes
  /\ starts \in 0..MaxStarts

IsOk(result) == result # Failed
OksUpTo(n) == {i \in 1..n : IsOk(outcomes[i])}
Oks == OksUpTo(Len(outcomes))
Window(i) == outcomes[Len(outcomes) - historyCount + i]

StatsExact ==
  /\ probesSent = Len(outcomes) /\ probesOk = Cardinality(Oks)
  /\ Oks = {} => lastRtt = -1 /\ minRtt = -1 /\ maxRtt = -1
  /\ Oks # {} =>
       /\ \E last \in Oks : lastRtt = outcomes[last] /\ \A i \in Oks : i <= last
       /\ \E i, j \in Oks : minRtt = outcomes[i] /\ maxRtt = outcomes[j]
       /\ \A i \in Oks : minRtt <= outcomes[i] /\ outcomes[i] <= maxRtt
RingIsWindow ==
  /\ historyCount = IF Len(outcomes) < Capacity THEN Len(outcomes) ELSE Capacity
  /\ \A i \in 1..historyCount :
       LET idx == (historyHead + Capacity - historyCount + i - 1) % Capacity
       IN /\ recentOk[idx] = IsOk(Window(i))
          /\ recentRtt[idx] = IF IsOk(Window(i)) THEN Window(i) ELSE -1

(***************************************************************************)
(* Whenever the probe thread is between two probes, what it has published  *)
(* is exactly the outcomes so far: the counters, the extremes, and in the  *)
(* ring the last Capacity outcomes in order, through restarts of the       *)
(* thread, which continue the same statistics.                             *)
(***************************************************************************)
PublishedExact == AtRest => StatsExact /\ RingIsWindow

(***************************************************************************)
(* A read during which the probe thread did nothing gives the window it    *)
(* should: the timeline is the last outcomes, oldest first, and the loss   *)
(* is the number of failures.                                              *)
(***************************************************************************)
QuietReadExact ==
  mpc = "done" /\ quiet =>
    /\ seen = [i \in 1..historyCount |-> IsOk(Window(i))]
    /\ lost = Len(outcomes) - Cardinality(Oks)

(***************************************************************************)
(* Whatever the probe thread does meanwhile, the recent loss the reader    *)
(* computes lies between 0 and 100 %, and every entry of the timeline it   *)
(* announces (recent_count) was filled: a count it reads again has only    *)
(* grown.                                                                  *)
(***************************************************************************)
RecentLossIsPercentage ==
  mpc = "done" => /\ count > 0
                  /\ Cardinality({i \in 1..Len(seen) : seen[i]}) <= count
                  /\ shown <= Len(seen)

(***************************************************************************)
(* latency_probe_stop returns: the thread sees the request within a nap or *)
(* a probe, and the main loop is not held at exit.                         *)
(***************************************************************************)
StopReturns == (mpc = "join") ~> (mpc = "idle")

(***************************************************************************)
(* docs/extensions.md, "perte en pourcentage": the packets lost are among  *)
(* the packets sent, so that loss_percent is a percentage.                 *)
(***************************************************************************)
LossIsPercentage == lost <= sent
=============================================================================
